----------------------------- MODULE Boxes_proof -----------------------------
(***************************************************************************)
(* What is in the file of a box, for any boxes and messages.               *)
(*                                                                         *)
(* Until the first removal, box_size counts the bytes of the messages in   *)
(* the file.  A publisher adds the length of its message to box_size,      *)
(* whatever tfs_write did.  So the count is right only because each write  *)
(* of the publisher goes to the end of the file, which is where its handle *)
(* was opened and where nobody else writes; because the file has a block;  *)
(* and because the mutex of the box is held from before the message to     *)
(* after the count.                                                        *)
(*                                                                         *)
(* While no box is removed, a box implements the safety part of            *)
(* MessageBox.  A file is only bytes, and a subscriber reads them one by   *)
(* one; so the proof says where in the file each message of the log ends,  *)
(* and that what a subscriber has sent and has in its buffer is a place    *)
(* among these.                                                            *)
(***************************************************************************)
EXTENDS Registry_proof

\* publisher_function does not look at the handle it is given for its messages: once
\* the table is full, what a publisher writes is counted and goes nowhere.
WritersHaveHandles == \A s \in Publishers : pc[s] \in Attached => Handle(s) # -1

Nuls(f)     == {k \in 1..Size(f) : Text(f)[k] = NUL}
TextSize(f) == Size(f) - Cardinality(Nuls(f))

HoldingPcs == {"pubWrite", "pubTerminate", "pubNotify", "subRead", "refind", "deliver"}
MutexesHeld == \A s \in Sessions : pc[s] \in HoldingPcs => box_mutexes[Index(s)] = s

SubscriberLocated == {"loop", "subLock", "subRead", "asleep", "refind", "deliver"}
SubscribersLocated == \A s \in Subscribers : pc[s] \in SubscriberLocated => Named(Index(s), Request[s].box)

\* The publisher of a box is at the end of its file.
WritingPcs == {"readCode", "pubLock", "pubWrite", "pubTerminate", "pubNotify"}
WritersAtTheEnd == \A s \in Publishers : pc[s] \in WritingPcs /\ Handle(s) # -1 => AtTheEnd(Handle(s))

\* A message that is written and not yet terminated is not yet counted.
Terminating(s, b) == s \in Publishers /\ Request[s].box = b /\ pc[s] = "pubTerminate"

CountedAt(i, b, f) ==
  Size(f) < BlockSize =>
    /\ (\A s : ~Terminating(s, b)) => boxes[i].box_size = TextSize(f)
    /\ \A s : Terminating(s, b) => boxes[i].box_size + Len(Head(inbox[s])) = TextSize(f)

SizesCounted == \A i, b, f : Named(i, b) /\ FileIs(b, f) => CountedAt(i, b, f)

NamesProper == \A i, b : Named(i, b) => b \in Names

NoBoxNoBytes == \A b \in Names : ~InRegistry(b) => \A f : FileIs(b, f) => Size(f) = 0

Files == /\ NoBlockLost /\ MutexesHeld /\ SubscribersLocated
         /\ WritersAtTheEnd /\ NamesProper /\ NoBoxNoBytes

FilesIInv ==
  /\ CountIInv /\ CalmIInv
  /\ NoRemovalYet => Files

SizesIInv ==
  /\ FilesIInv
  /\ NoRemovalYet /\ WritersHaveHandles => SizesCounted
-----------------------------------------------------------------------------
(* Who holds the mutex of a box.                                           *)

LEMMA EveryStepIsSomeones ==
  ASSUME BrokerNext
  PROVE  \E s \in Sessions :
           \/ s \in Publishers /\ PublisherStep(s)
           \/ s \in Subscribers /\ (SubscriberStep(s) \/ SpuriousWake(s))
           \/ s \in Managers /\ ManagerStep(s)
           \/ ClientStep(s)
BY DEF BrokerNext, Publishers, Subscribers, Managers

LEMMA HoldersAreLocated ==
  ASSUME Sound, IndexesRight, SubscribersLocated, NEW t \in Sessions,
         pc[t] \in HoldingPcs \cup {"pubLock", "subLock", "asleep"}
  PROVE  Named(Index(t), Request[t].box) /\ Index(t) \in Indices
<1>1. /\ Request[t].kind = "publisher"  => pc[t] \in Located
      /\ Request[t].kind = "subscriber" => pc[t] \in SubscriberLocated
      /\ Request[t].kind \in {"publisher", "subscriber"}
  BY RequestFacts DEF Sound, StepsInKind, HoldingPcs, PublisherPcs, SubscriberPcs, CreatorPcs,
                      RemoverPcs, Located, SubscriberLocated, Kinds
<1>2. Named(Index(t), Request[t].box)
  BY <1>1 DEF IndexesRight, SubscribersLocated, Publishers, Subscribers
<1> QED
  BY <1>2, BrokerAssumption DEF Named, Sound, BrokerTypeOK, Indices

\* What find_box finds of a box is where it is.
LEMMA FoundWhereItIs ==
  ASSUME Sound, Agreement, NEW i, NEW b, Named(i, b)
  PROVE  find_box(b) = i
<1>1. n_boxes \in 0..MaxBoxes /\ InRegistry(b)
  BY DEF Sound, BrokerTypeOK, Named, InRegistry
<1>2. Named(find_box(b), b)
  BY <1>1, FindFacts DEF Named
<1> QED
  BY <1>2 DEF Agreement, NamesDiffer

LEMMA LocatedStep ==
  ASSUME Sound, Agreement, SubscribersLocated, BrokerNext, NoRemovalYet'
  PROVE  SubscribersLocated'
<1> SUFFICES ASSUME NEW t \in Subscribers, pc'[t] \in SubscriberLocated
             PROVE  Named(Index(t), Request[t].box)'
  BY DEF SubscribersLocated
<1>1. \A i, b : Named(i, b) => Named(i, b)'
  BY NamesGrow
<1>2. pc[t] \in SubscriberLocated /\ Index(t)' = Index(t) => Named(Index(t), Request[t].box)'
  BY <1>1 DEF SubscribersLocated, Named
<1>3. PICK s \in Sessions :
        \/ s \in Publishers /\ PublisherStep(s)
        \/ s \in Subscribers /\ (SubscriberStep(s) \/ SpuriousWake(s))
        \/ s \in Managers /\ ManagerStep(s)
        \/ ClientStep(s)
  BY EveryStepIsSomeones
<1>4. CASE s # t
  BY <1>2, <1>3, <1>4, StepsAreApart DEF Only, Subscribers
<1>5. /\ frame \in [Sessions -> [box_index : Indices \cup {-1}, box_handle : Handles \cup {-1},
                                 char_buffer : Bytes \cup {Unset}, buffer : Message]]
      /\ pc \in [Sessions -> Steps] /\ n_boxes \in 0..MaxBoxes /\ t \in Sessions
  BY DEF Sound, BrokerTypeOK, Subscribers
<1>6. CASE s = t
  <2>1. CASE SubFind(t) \/ Loop(t) \/ Refind(t)
    <3>1. PICK i : i = find_box(Request[t].box)
      OBVIOUS
    <3>2. /\ frame' = [frame EXCEPT ![t].box_index = i] /\ UNCHANGED registry
          /\ i = -1 => pc[t] \in {"loop", "refind"}
      BY <1>5, <2>1, <3>1 DEF SubFind, Loop, Refind, Find, Goto, SubscriberLocated
    <3>3. Index(t)' = i
      BY <1>5, <3>2 DEF Index
    <3>4. i # -1 => Named(i, Request[t].box)
      BY <1>5, <3>1, FindFacts DEF Named
    <3>5. CASE i = -1
      <4>1. Named(Index(t), Request[t].box)
        BY <3>2, <3>5 DEF SubscribersLocated, SubscriberLocated
      <4>2. i = Index(t)
        BY <3>1, <4>1, FoundWhereItIs
      <4>3. n_boxes \in Nat
        BY <1>5, BrokerAssumption
      <4> QED
        BY <3>5, <4>1, <4>2, <4>3 DEF Named
    <3>6. CASE i # -1
      BY <1>1, <3>3, <3>4, <3>6 DEF Named
    <3> QED
      BY <3>5, <3>6
  <2>2. CASE SubLock(t) \/ Wake(t) \/ SpuriousWake(t)
    BY <1>2, <1>5, <2>2 DEF SubLock, Wake, SpuriousWake, Goto, SubscriberLocated, Index
  <2>3. CASE SubRead(t) \/ Deliver(t)
    <3>1. /\ pc[t] \in {"subRead", "deliver"}
          /\ \/ UNCHANGED frame
             \/ \E x : frame' = [frame EXCEPT ![t].char_buffer = x]
             \/ \E x : frame' = [frame EXCEPT ![t].buffer = x]
      BY <2>3 DEF SubRead, Deliver, Goto
    <3> QED
      BY <1>2, <1>5, <3>1 DEF SubscriberLocated, Index
  <2>4. CASE Register(t) \/ SubOpen(t) \/ SubEnd(t)
    BY <1>5, <2>4 DEF Register, SubOpen, SubEnd, Goto, Find, SubscriberLocated
  <2>5. CASE ClientStep(t)
    <3>1. CASE Start(t)
      BY <1>5, <3>1, StartFacts DEF SubscriberLocated
    <3>2. CASE Leave(t) \/ BrokenPipe(t)
      BY <1>2, <3>2 DEF Leave, BrokenPipe, Index
    <3>3. CASE ReadCode(t) \/ ReadCodeAlone(t)
      BY <1>5, <3>3 DEF ReadCode, ReadCodeAlone, Find, Goto, SubscriberLocated
    <3> QED
      BY <2>5, <3>1, <3>2, <3>3 DEF ClientStep
  <2>6. t \notin Publishers /\ t \notin Managers
    BY RequestFacts DEF Subscribers, Publishers, Managers
  <2> QED
    BY <1>3, <1>6, <2>1, <2>2, <2>3, <2>4, <2>5, <2>6 DEF SubscriberStep
<1> QED
  BY <1>4, <1>6

\* The mutex of a box that another session holds, none takes or gives back.
LEMMA MutexStaysHeld ==
  ASSUME Sound, Count, SubscribersLocated, MutexesHeld, NEW s \in Sessions, NEW t \in Sessions, s # t,
         pc[t] \in HoldingPcs,
         \/ UNCHANGED monitors
         \/ PubLock(s) \/ PubNotify(s) \/ SubLock(s) \/ SubRead(s) \/ SpuriousWake(s) \/ Wake(s)
         \/ Deliver(s) \/ CreateAdd(s) \/ RemoveBroadcast(s)
  PROVE  box_mutexes'[Index(t)] = t
<1>1. box_mutexes[Index(t)] = t /\ t # NoSession
  BY BrokerAssumption DEF MutexesHeld
<1>2. Named(Index(t), Request[t].box) /\ Index(t) \in Indices
  BY HoldersAreLocated DEF Count
<1>3. CASE LockBox(s)
  BY <1>1, <1>3 DEF LockBox
<1>4. CASE UnlockBox(s) /\ pc[s] \in HoldingPcs
  <2>1. box_mutexes[Index(s)] = s
    BY <1>4 DEF MutexesHeld
  <2> QED
    BY <1>1, <1>4, <2>1 DEF UnlockBox
<1>5. CASE CreateAdd(s)
  <2>1. Index(t) # n_boxes
    BY <1>2 DEF Named, Sound, BrokerTypeOK
  <2> QED
    BY <1>1, <1>5, <2>1 DEF CreateAdd
<1>6. CASE UNCHANGED box_mutexes
  BY <1>1, <1>6
<1>7. CASE Deliver(s)
  BY <1>4, <1>6, <1>7 DEF Deliver, Goto, HoldingPcs
<1>8. CASE SubRead(s)
  BY <1>4, <1>6, <1>8 DEF SubRead, Goto, HoldingPcs, monitors
<1>9. CASE PubLock(s) \/ SubLock(s) \/ Wake(s)
  BY <1>3, <1>9 DEF PubLock, SubLock, Wake
<1>10. CASE PubNotify(s)
  BY <1>4, <1>10 DEF PubNotify, Goto, HoldingPcs
<1>11. CASE UNCHANGED monitors \/ SpuriousWake(s) \/ RemoveBroadcast(s)
  BY <1>6, <1>11 DEF monitors, SpuriousWake, RemoveBroadcast
<1> QED
  BY <1>5, <1>7, <1>8, <1>9, <1>10, <1>11

\* Every session that goes to where it holds the mutex of its box takes it on the way
\* and keeps it.
LEMMA HolderMoves ==
  ASSUME Sound, Agreement, Count, SubscribersLocated, MutexesHeld, NEW t \in Sessions,
         \/ t \in Publishers /\ PublisherStep(t)
         \/ t \in Subscribers /\ (SubscriberStep(t) \/ SpuriousWake(t))
         \/ t \in Managers /\ ManagerStep(t)
         \/ ClientStep(t),
         pc'[t] \in HoldingPcs
  PROVE  Index(t)' = Index(t) /\ box_mutexes'[Index(t)] = t
<1>1. /\ frame \in [Sessions -> [box_index : Indices \cup {-1}, box_handle : Handles \cup {-1},
                                 char_buffer : Bytes \cup {Unset}, buffer : Message]]
      /\ box_mutexes \in [Indices -> Sessions \cup {NoSession}]
      /\ pc \in [Sessions -> Steps]
  BY DEF Sound, BrokerTypeOK
<1>2. CASE pc[t] \in HoldingPcs /\ UNCHANGED <<frame, box_mutexes>>
  BY <1>2 DEF MutexesHeld, Index
<1>3. CASE PubLock(t) \/ SubLock(t) \/ Wake(t)
  <2>1. Index(t) \in Indices /\ UNCHANGED frame /\ LockBox(t)
    BY <1>3, HoldersAreLocated DEF PubLock, SubLock, Wake, Goto, Count
  <2> QED
    BY <1>1, <2>1 DEF LockBox, Index
<1>4. CASE Refind(t)
  <2>1. /\ pc[t] = "refind" /\ UNCHANGED box_mutexes
        /\ frame' = [frame EXCEPT ![t].box_index = find_box(Request[t].box)]
    BY <1>4 DEF Refind, Find, Goto, monitors
  <2>2. box_mutexes[Index(t)] = t /\ Named(Index(t), Request[t].box)
    BY <2>1, HoldersAreLocated DEF MutexesHeld, HoldingPcs, Count
  <2>3. find_box(Request[t].box) = Index(t)
    BY <2>2, FoundWhereItIs
  <2>4. Index(t)' = Index(t)
    BY <1>1, <2>1, <2>3 DEF Index
  <2> QED
    BY <2>1, <2>2, <2>4
<1>5. CASE SubRead(t)
  <2>1. /\ pc[t] = "subRead" /\ UNCHANGED box_mutexes
        /\ UNCHANGED frame \/ \E x : frame' = [frame EXCEPT ![t].char_buffer = x]
    BY <1>1, <1>5 DEF SubRead, Goto, HoldingPcs, monitors
  <2>2. Index(t)' = Index(t)
    BY <1>1, <2>1 DEF Index
  <2> QED
    BY <2>1, <2>2 DEF MutexesHeld, HoldingPcs
<1>6. CASE PubWrite(t) \/ PubTerminate(t)
  BY <1>2, <1>6 DEF PubWrite, PubTerminate, Goto, HoldingPcs, monitors
<1>7. CASE Leave(t) \/ SpuriousWake(t) \/ BrokenPipe(t)
  BY <1>1, <1>2, <1>7 DEF Leave, SpuriousWake, BrokenPipe, monitors, HoldingPcs
<1>8. CASE Start(t)
  BY <1>1, <1>8, StartFacts DEF HoldingPcs
<1>9. CASE ReadCode(t) \/ ReadCodeAlone(t)
  BY <1>1, <1>9 DEF ReadCode, ReadCodeAlone, Find, Goto, HoldingPcs
<1>10. CASE ManagerStep(t)
  BY <1>1, <1>10 DEF ManagerStep, CreateFind, CreateOpen, CreateClose, CreateAdd, AddPastArray,
                     RemoveUnlink, RemoveFind, RemoveBroadcast, RemoveLock, RemovePipe, Swap,
                     Exchange, SwapWithNone, OutOfArray, RemoveEnd, Reply, Goto, Find, HoldingPcs
<1>11. CASE PubOpen(t) \/ PubFind(t) \/ PubCheck(t) \/ PubClaim(t) \/ PubName(t) \/ PubRefuse(t) \/ PubAttach(t)
            \/ Eof(t) \/ PubNotify(t) \/ PubEnd(t)
  BY <1>1, <1>11 DEF PubOpen, PubFind, PubCheck, PubClaim, PubName, PubRefuse, PubAttach, Eof,
                     PubNotify, PubEnd, Goto, Find, HoldingPcs
<1>12. CASE Register(t) \/ SubOpen(t) \/ SubFind(t) \/ Loop(t) \/ Deliver(t) \/ SubEnd(t)
  BY <1>1, <1>12 DEF Register, SubOpen, SubFind, Loop, Deliver, SubEnd, Goto, Find, HoldingPcs
<1> QED
  BY <1>3, <1>4, <1>5, <1>6, <1>7, <1>8, <1>9, <1>10, <1>11, <1>12
  DEF PublisherStep, SubscriberStep, ClientStep

LEMMA MutexStep ==
  ASSUME Sound, Agreement, Count, SubscribersLocated, MutexesHeld, BrokerNext
  PROVE  MutexesHeld'
<1> SUFFICES ASSUME NEW t \in Sessions, pc'[t] \in HoldingPcs
             PROVE  box_mutexes'[Index(t)'] = t
  BY DEF MutexesHeld
<1>1. PICK s \in Sessions :
        \/ s \in Publishers /\ PublisherStep(s)
        \/ s \in Subscribers /\ (SubscriberStep(s) \/ SpuriousWake(s))
        \/ s \in Managers /\ ManagerStep(s)
        \/ ClientStep(s)
  BY EveryStepIsSomeones
<1>2. CASE s = t
  <2>1. Index(t)' = Index(t) /\ box_mutexes'[Index(t)] = t
    BY <1>1, <1>2, HolderMoves
  <2> QED
    BY <2>1
<1>3. CASE s # t
  <2>1. pc'[t] = pc[t] /\ Index(t)' = Index(t)
    BY <1>1, <1>3, StepsAreApart DEF Only
  <2>2. UNCHANGED monitors
        \/ PubLock(s) \/ PubNotify(s) \/ SubLock(s) \/ SubRead(s) \/ SpuriousWake(s) \/ Wake(s)
        \/ Deliver(s) \/ CreateAdd(s) \/ RemoveBroadcast(s)
    <3>1. CASE PublisherStep(s)
      BY <3>1 DEF PublisherStep, PubOpen, PubFind, PubCheck, PubClaim, PubName, PubRefuse,
                  PubAttach, Eof, PubWrite, PubTerminate, PubEnd
    <3>2. CASE SubscriberStep(s)
      BY <3>2 DEF SubscriberStep, Register, SubOpen, SubFind, Loop, Refind, SubEnd
    <3>3. CASE ManagerStep(s)
      BY <3>3 DEF ManagerStep, CreateFind, CreateOpen, CreateClose, AddPastArray, RemoveUnlink,
                  RemoveFind, RemoveLock, RemovePipe, Swap, Exchange, SwapWithNone, OutOfArray,
                  RemoveEnd, Reply
    <3>4. CASE ClientStep(s)
      BY <3>4 DEF ClientStep, Start, ReadCode, ReadCodeAlone, Leave, BrokenPipe
    <3> QED
      BY <1>1, <3>1, <3>2, <3>3, <3>4
  <2>3. box_mutexes'[Index(t)] = t
    BY <1>3, <2>1, <2>2, MutexStaysHeld
  <2> QED
    BY <2>1, <2>3
<1> QED
  BY <1>2, <1>3
-----------------------------------------------------------------------------
(* The files of the boxes.                                                 *)

\* A session at work with a handle of its own.
LEMMA OwnFile ==
  ASSUME Sound, HandlesOwned, NEW s \in Sessions, Handle(s) # -1, pc[s] \notin Over
  PROVE  /\ s \in Owners /\ Handle(s) \in OpenHandles
         /\ open_file_table[Handle(s)].of_inumber \in takenInodes \ {ROOT_DIR_INUM}
         /\ FileIs(Request[s].box, open_file_table[Handle(s)].of_inumber)
<1>1. s \in Owners
  BY DEF Owners, Finished
<1>2. HandleOnItsFile(s)
  BY <1>1 DEF HandlesOwned
<1>3. Handle(s) \in OpenHandles /\ FileIs(Request[s].box, open_file_table[Handle(s)].of_inumber)
  BY <1>2 DEF HandleOnItsFile, FileIs
<1> QED
  BY <1>1, <1>3, FileFacts DEF Sound

\* The place of a session in its file is its own: no step of another moves it.
Moves(t) == OpensFile(t) \/ ClosesFile(t) \/ SubRead(t) \/ PubWrite(t) \/ PubTerminate(t)

EntriesKept ==
  \A t \in Owners : ~Moves(t) => open_file_table'[Handle(t)] = open_file_table[Handle(t)]

\* An open, with the mode of each session.
LEMMA OpeningStep ==
  ASSUME Sound, HandlesOwned, NoBlockLost, NEW s \in Sessions, OpensFile(s)
  PROVE  /\ BytesKept /\ EntriesKept
         /\ PubAttach(s) /\ Handle(s)' # -1 => AtTheEnd(Handle(s))'
         /\ SubOpen(s) /\ Handle(s)' # -1 => open_file_table'[Handle(s)'].of_offset = 0
         /\ ~CreateOpen(s) => UNCHANGED dir_entry
<1>1. PICK mode : /\ "TRUNC" \notin mode /\ OpenFileOfBox(s, mode)
                  /\ PubAttach(s) => "APPEND" \in mode
                  /\ SubOpen(s) => "APPEND" \notin mode
                  /\ ~CreateOpen(s) => "CREAT" \notin mode
  <2>1. PubOpen(s) \/ PubRefuse(s) \/ PubAttach(s) =>
          OpenFileOfBox(s, {"APPEND"}) /\ ~SubOpen(s)
    BY DEF PubOpen, PubRefuse, PubAttach, SubOpen, Goto
  <2>2. SubOpen(s) => OpenFileOfBox(s, {}) /\ ~PubAttach(s)
    BY DEF SubOpen, PubAttach, Goto
  <2>3. CreateOpen(s) => OpenFileOfBox(s, {"CREAT"}) /\ ~PubAttach(s)
    BY DEF CreateOpen, PubAttach, Goto
  <2>4. CASE OpenFileOfBox(s, {"APPEND"}) /\ ~SubOpen(s)
    <3> WITNESS {"APPEND"}
    <3> QED
      BY <2>4
  <2>5. CASE OpenFileOfBox(s, {}) /\ ~PubAttach(s)
    <3> WITNESS {}
    <3> QED
      BY <2>5
  <2>6. CASE OpenFileOfBox(s, {"CREAT"}) /\ CreateOpen(s) /\ ~PubAttach(s)
    <3> WITNESS {"CREAT"}
    <3> QED
      BY <2>6
  <2> QED
    BY <2>1, <2>2, <2>3, <2>4, <2>5, <2>6 DEF OpensFile
<1>2. PICK ret \in Handles \cup {-1} :
        /\ tfs_open(Request[s].box, mode, ret)
        /\ frame' = [frame EXCEPT ![s].box_handle = ret]
  BY <1>1 DEF OpenFileOfBox
<1>3. Handle(s)' = ret
  BY <1>2 DEF Sound, BrokerTypeOK, Handle
<1>4. IInv
  BY SoundFS
<1>5. /\ \A g \in takenInodes : SameText(g)
      /\ NoBlockLost'
      /\ \A g \in OpenHandles : open_file_table'[g] = open_file_table[g]
      /\ \A b, f : FileIs(b, f)' => \/ FileIs(b, f)
                                    \/ b = Request[s].box /\ Matches(Request[s].box) = {} /\ Size(f)' = 0
      /\ "CREAT" \notin mode => UNCHANGED <<dir_entry, inode_table>>
      /\ "APPEND" \in mode /\ "CREAT" \notin mode /\ ret # -1 => AtTheEnd(ret)'
      /\ "APPEND" \notin mode /\ "CREAT" \notin mode /\ ret # -1 => open_file_table'[ret].of_offset = 0
  BY <1>1, <1>2, <1>4, OpenKeepsBytes, RequestFacts
<1>6. BytesKept
  <2>1. \A b, f : FileIs(b, f)' => FileIs(b, f) \/ (Matches(b) = {} /\ Size(f)' = 0)
    BY <1>5
  <2>2. (\A g \in takenInodes : SameText(g)) /\ NoBlockLost'
    BY <1>5
  <2> QED
    BY <2>1, <2>2 DEF BytesKept
<1>7. EntriesKept
  BY <1>5 DEF EntriesKept, HandlesOwned, HandleOnItsFile
<1>8. ~CreateOpen(s) \/ (~PubAttach(s) /\ ~SubOpen(s))
  BY DEF CreateOpen, PubAttach, SubOpen, Goto
<1>9. PubAttach(s) /\ ret # -1 => AtTheEnd(ret)'
  BY <1>1, <1>5, <1>8
<1>10. PubAttach(s) /\ Handle(s)' # -1 => AtTheEnd(Handle(s))'
  BY <1>3, <1>9 DEF AtTheEnd
<1>11. SubOpen(s) /\ Handle(s)' # -1 => open_file_table'[Handle(s)'].of_offset = 0
  BY <1>1, <1>3, <1>5, <1>8
<1>12. ~CreateOpen(s) => UNCHANGED dir_entry
  BY <1>1, <1>5
<1> QED
  BY <1>6, <1>7, <1>10, <1>11, <1>12

\* A close or a read, through the handle of the session.
LEMMA OtherStep ==
  ASSUME Sound, HandlesOwned, NoBlockLost, BrokerNext, NoRemovalYet',
         \A s \in Sessions : ~OpensFile(s) /\ ~PubWrite(s) /\ ~PubTerminate(s)
  PROVE  BytesKept /\ EntriesKept /\ UNCHANGED dir_entry
<1>1. CASE UNCHANGED fsVars
  BY <1>1, OnlyTheTable DEF fsVars, EntriesKept
<1>2. ASSUME NEW s \in Sessions, ClosesFile(s) \/ SubRead(s)
      PROVE  BytesKept /\ EntriesKept /\ UNCHANGED dir_entry
  <2>1. /\ UNCHANGED <<takenInodes, inode_table, takenBlocks, fs_data, dir_entry>>
        /\ \/ UNCHANGED open_file_table
           \/ /\ Handle(s) \in Handles
              /\ \A h \in Handles \ {Handle(s)} : open_file_table'[h] = open_file_table[h]
    <3>1. open_file_table \in [Handles -> OpenFile \cup {FreeEntry}]
      BY DEF Sound, BrokerTypeOK, FSTypeOK
    <3>2. CASE ClosesFile(s)
      <4>1. \E ret \in {0, -1} : tfs_close(Handle(s), ret)
        BY <3>2 DEF ClosesFile, PubEnd, SubEnd, CreateClose
      <4> QED
        BY <3>1, <4>1 DEF tfs_close, fsVars, OpenHandles
    <3>3. CASE SubRead(s)
      <4>1. \/ Handle(s) \notin OpenHandles
            \/ Handle(s) \in Handles
        BY DEF OpenHandles
      <4>2. \E ret \in {-1, 0, 1} : tfs_read(Handle(s), 1, ret)
        BY <3>3 DEF SubRead
      <4> QED
        BY <3>1, <4>1, <4>2 DEF tfs_read, fsVars
    <3> QED
      BY <1>2, <3>2, <3>3
  <2>2. BytesKept
    BY <2>1, OnlyTheTable
  <2>3. pc[s] \in {"pubEnd", "subEnd", "createClose", "subRead"}
    BY <1>2 DEF ClosesFile, PubEnd, SubEnd, CreateClose, SubRead, Goto
  <2>4. EntriesKept
    <3> SUFFICES ASSUME NEW t \in Owners, ~Moves(t)
                 PROVE  open_file_table'[Handle(t)] = open_file_table[Handle(t)]
      BY DEF EntriesKept
    <3>1. Handle(t) \in OpenHandles /\ t # s
      BY <1>2 DEF HandlesOwned, HandleOnItsFile, Moves
    <3>2. CASE Handle(s) = Handle(t)
      <4>1. s \in Owners
        BY <2>3, <3>2 DEF Owners, Finished, Over
      <4> QED
        BY <3>1, <3>2, <4>1 DEF HandlesOwned
    <3>3. CASE Handle(s) # Handle(t)
      BY <2>1, <3>1, <3>3 DEF OpenHandles
    <3> QED
      BY <3>2, <3>3
  <2> QED
    BY <2>1, <2>2, <2>4
<1>3. ASSUME NEW s \in Sessions, RemoveUnlink(s)
      PROVE  FALSE
  <2>1. pc[s] = "removeUnlink"
    BY <1>3 DEF RemoveUnlink
  <2>2. Request[s].kind = "remove"
    BY <2>1, RequestFacts DEF Sound, StepsInKind, Kinds, PublisherPcs, SubscriberPcs, CreatorPcs
  <2> QED
    BY <2>1, <2>2, SoundPcs, RemovalsStayBegun DEF NoRemovalYet
<1>4. CASE OutOfArray
  <2>1. UNCHANGED <<takenInodes, inode_table, takenBlocks, fs_data, dir_entry, open_file_table>>
    BY <1>4 DEF OutOfArray
  <2> QED
    BY <2>1, OnlyTheTable DEF EntriesKept
<1> QED
  BY <1>1, <1>2, <1>3, <1>4, FSEffect

\* The bytes that publisher s writes, what tfs_write returns, and what becomes of the log.
Writes(s, buffer, ret) ==
  /\ tfs_write(Handle(s), buffer, ret)
  /\ \/ PubWrite(s) /\ buffer = Head(inbox[s])
     \/ /\ PubTerminate(s) /\ buffer = <<NUL>>
        /\ published' = IF ret = 1 THEN Published(s) ELSE published

LEMMA WriterWrites ==
  ASSUME Sound, NEW s \in Sessions, PubWrite(s) \/ PubTerminate(s)
  PROVE  s \in Publishers /\ \E buffer, ret : Writes(s, buffer, ret)
<1>1. s \in Publishers
  BY RequestFacts DEF PubWrite, PubTerminate, Goto, Sound, StepsInKind, Kinds, SubscriberPcs,
          CreatorPcs, RemoverPcs
<1>2. CASE PubWrite(s)
  BY <1>1, <1>2 DEF Writes, PubWrite
<1>3. CASE PubTerminate(s)
  BY <1>1, <1>3 DEF Writes, PubTerminate
<1> QED
  BY <1>2, <1>3

LEMMA WritingStep ==
  ASSUME Sound, HandlesOwned, RoomForFiles, NoBlockLost, WritersAtTheEnd,
         NEW s \in Publishers, NEW buffer, NEW ret, Writes(s, buffer, ret), Handle(s) # -1
  PROVE  \E f : /\ FileIs(Request[s].box, f) /\ f = open_file_table[Handle(s)].of_inumber
                /\ f \in takenInodes /\ Size(f) \in 0..BlockSize
                /\ buffer \in Seq(Bytes)
                /\ EndWritten(Handle(s), f, buffer, ret) /\ NoBlockLost' /\ StaysOpen(Handle(s))
<1>1. buffer \in Seq(Bytes) /\ pc[s] \in {"pubWrite", "pubTerminate"} /\ tfs_write(Handle(s), buffer, ret)
  BY BrokerWrites DEF Publishers, Writes
<1>2. AtTheEnd(Handle(s))
  BY <1>1 DEF WritersAtTheEnd, WritingPcs
<1>3. PICK h, f : h = Handle(s) /\ f = open_file_table[h].of_inumber
  OBVIOUS
<1>4. h \in OpenHandles /\ f \in takenInodes \ {ROOT_DIR_INUM} /\ FileIs(Request[s].box, f)
  BY <1>1, <1>2, <1>3, OwnFile DEF Publishers, Over
<1>5. open_file_table[h].of_offset = Size(f)
  BY <1>2, <1>3 DEF AtTheEnd
<1>6. IInv /\ OffsetsInside
  BY SoundFS DEF HandlesOwned
<1>7. EndWritten(h, f, buffer, ret) /\ NoBlockLost'
  BY <1>1, <1>3, <1>4, <1>5, <1>6, WriteAtTheEnd
<1>8. StaysOpen(h)
  BY <1>1, <1>3, <1>4, <1>6, WriteKeepsFiles
<1>9. Size(f) \in 0..BlockSize
  BY <1>4, <1>6, TextFacts
<1> QED
  BY <1>1, <1>3, <1>4, <1>7, <1>8, <1>9

\* A write through the handle that was not given.
LEMMA VoidWrite ==
  ASSUME NEW s, NEW buffer, NEW ret, Writes(s, buffer, ret), Handle(s) = -1
  PROVE  ret = -1 /\ UNCHANGED <<fsVars, published>>
<1>1. -1 \notin OpenHandles
  BY TFSAssumption DEF OpenHandles, Handles
<1>2. ret = -1 /\ UNCHANGED fsVars
  BY <1>1 DEF Writes, tfs_write
<1>3. UNCHANGED published
  BY <1>2 DEF Writes, PubWrite
<1> QED
  BY <1>2, <1>3

\* Every step is a write at the end of the file of a publisher, or leaves the bytes as
\* they are.
WriteNow ==
  \E s \in Publishers : \E buffer, ret : Handle(s) # -1 /\ Writes(s, buffer, ret)

LEMMA WritesOrKeeps ==
  ASSUME Sound, HandlesOwned, RoomForFiles, NoBlockLost, WritersAtTheEnd, BrokerNext, NoRemovalYet'
  PROVE  /\ EntriesKept
         /\ \/ WriteNow
            \/ /\ BytesKept
               /\ \A t \in Publishers : PubWrite(t) \/ PubTerminate(t) =>
                                          Handle(t) = -1 /\ UNCHANGED published
         /\ UNCHANGED dir_entry \/ \E t \in Sessions : CreateOpen(t)
<1>1. ASSUME NEW s \in Sessions, OpensFile(s)
      PROVE  BytesKept /\ EntriesKept /\ (UNCHANGED dir_entry \/ CreateOpen(s))
  BY <1>1, OpeningStep
<1>2. ASSUME NEW s \in Sessions, PubWrite(s) \/ PubTerminate(s)
      PROVE  /\ EntriesKept /\ UNCHANGED dir_entry
             /\ WriteNow \/ (BytesKept /\ UNCHANGED published /\ Handle(s) = -1)
  <2>1. PICK buffer, ret : s \in Publishers /\ Writes(s, buffer, ret)
    BY <1>2, WriterWrites
  <2>2. CASE Handle(s) = -1
    BY <2>1, <2>2, VoidWrite, OnlyTheTable DEF fsVars, EntriesKept
  <2>3. CASE Handle(s) # -1
    <3>1. PICK f : EndWritten(Handle(s), f, buffer, ret)
      BY <2>1, <2>3, WritingStep
    <3>2. s \in Owners
      BY <1>2, <2>3 DEF PubWrite, PubTerminate, Goto, Owners, Finished, Over
    <3>3. EntriesKept
      BY <1>2, <3>1, <3>2 DEF EntriesKept, EndWritten, Moves, HandlesOwned, HandleOnItsFile
    <3> QED
      BY <2>1, <2>3, <3>1, <3>3 DEF WriteNow, EndWritten
  <2> QED
    BY <2>2, <2>3
<1>3. CASE \A s \in Sessions : ~PubWrite(s) /\ ~PubTerminate(s)
  <2>1. BytesKept /\ EntriesKept /\ (UNCHANGED dir_entry \/ \E s \in Sessions : CreateOpen(s))
    BY <1>1, <1>3, OtherStep
  <2> QED
    BY <1>3, <2>1 DEF Publishers
<1>4. ASSUME NEW s \in Sessions, NEW t \in Publishers, PubWrite(s) \/ PubTerminate(s),
             PubWrite(t) \/ PubTerminate(t)
      PROVE  t = s
  <2>1. PublisherStep(s) /\ pc[t] \in {"pubWrite", "pubTerminate"} /\ pc'[t] # pc[t] /\ t \in Sessions
    BY <1>4 DEF PublisherStep, PubWrite, PubTerminate, Goto, Sound, BrokerTypeOK, Publishers
  <2> QED
    BY <2>1, StepsAreApart DEF Only
<1>5. CASE \E s \in Sessions : PubWrite(s) \/ PubTerminate(s)
  <2>1. PICK s \in Sessions : PubWrite(s) \/ PubTerminate(s)
    BY <1>5
  <2>2. \A t \in Publishers : PubWrite(t) \/ PubTerminate(t) => t = s
    BY <1>4, <2>1
  <2> QED
    BY <1>2, <2>1, <2>2
<1> QED
  BY <1>3, <1>5

\* How a publisher comes to write, and to have a message to terminate.
LEMMA WriterMoves ==
  ASSUME Sound, BrokerNext, NEW t \in Publishers
  PROVE  /\ pc'[t] \in WritingPcs => pc[t] \in WritingPcs \/ PubAttach(t)
         /\ pc'[t] = "pubTerminate" <=> PubWrite(t) \/ (pc[t] = "pubTerminate" /\ ~PubTerminate(t))
         /\ OpensFile(t) => pc[t] \notin WritingPcs
<1>1. pc \in [Sessions -> Steps] /\ t \in Sessions /\ t \notin Subscribers /\ t \notin Managers
  BY RequestFacts DEF Sound, BrokerTypeOK, Publishers, Subscribers, Managers
<1>2. PubWrite(t) => pc[t] = "pubWrite" /\ pc'[t] = "pubTerminate"
  BY <1>1 DEF PubWrite, Goto
<1>3. PubTerminate(t) => pc[t] = "pubTerminate" /\ pc'[t] = "pubNotify"
  BY <1>1 DEF PubTerminate, Goto
<1>4. OpensFile(t) => pc[t] \notin WritingPcs
  BY DEF OpensFile, PubOpen, PubRefuse, PubAttach, SubOpen, CreateOpen, Goto, WritingPcs
<1>5. PICK s \in Sessions :
        \/ s \in Publishers /\ PublisherStep(s)
        \/ s \in Subscribers /\ (SubscriberStep(s) \/ SpuriousWake(s))
        \/ s \in Managers /\ ManagerStep(s)
        \/ ClientStep(s)
  BY EveryStepIsSomeones
<1>6. CASE s # t
  <2>1. pc'[t] = pc[t]
    BY <1>1, <1>5, <1>6, StepsAreApart DEF Only
  <2> QED
    BY <1>2, <1>3, <1>4, <2>1
<1>7. CASE s = t
  <2>1. CASE PublisherStep(t)
    <3>1. pc'[t] \in WritingPcs => pc[t] \in WritingPcs \/ PubAttach(t)
      BY <1>1, <2>1 DEF PublisherStep, PubOpen, PubFind, PubCheck, PubClaim, PubName, PubRefuse,
                        Eof, PubLock, PubWrite, PubTerminate, PubNotify, PubEnd, Goto, Find,
                        WritingPcs
    <3>2. pc'[t] = "pubTerminate" => PubWrite(t)
      BY <1>1, <2>1 DEF PublisherStep, PubOpen, PubFind, PubCheck, PubClaim, PubName, PubRefuse,
                        PubAttach, Eof, PubLock, PubTerminate, PubNotify, PubEnd, Goto, Find
    <3>3. pc[t] = "pubTerminate" => PubTerminate(t)
      BY <2>1 DEF PublisherStep, PubOpen, PubFind, PubCheck, PubClaim, PubName, PubRefuse,
                  PubAttach, Eof, PubLock, PubWrite, PubNotify, PubEnd, Goto, Find
    <3> QED
      BY <1>2, <1>4, <3>1, <3>2, <3>3
  <2>2. CASE Start(t)
    BY <1>1, <1>2, <1>4, <2>2, StartFacts DEF WritingPcs
  <2>3. CASE ReadCode(t) \/ ReadCodeAlone(t)
    <3>1. pc[t] = "readCode" /\ pc'[t] \in {"pubEnd", "pubLock"}
      BY <1>1, <2>3 DEF ReadCode, ReadCodeAlone, Find, Goto
    <3> QED
      BY <1>2, <1>4, <3>1 DEF WritingPcs
  <2>4. CASE Leave(t) \/ BrokenPipe(t)
    <3>1. pc'[t] = pc[t]
      BY <2>4 DEF Leave, BrokenPipe
    <3> QED
      BY <1>2, <1>3, <1>4, <3>1
  <2> QED
    BY <1>1, <1>5, <1>7, <2>1, <2>2, <2>3, <2>4 DEF ClientStep
<1> QED
  BY <1>6, <1>7

LEMMA OneWriter ==
  ASSUME Sound, Count, NEW s \in Publishers, NEW t \in Publishers,
         Request[s].box = Request[t].box, pc[s] \in Claimed, pc[t] \in Claimed
  PROVE  s = t
<1>1. s \in Publishing(Request[s].box) /\ t \in Publishing(Request[s].box)
  BY SoundPcs, PublishingFacts
<1>2. Named(Index(s), Request[s].box)
  BY DEF Count, IndexesRight, Claimed
<1> QED
  BY <1>1, <1>2 DEF Count, Counted

LEMMA WritersStep ==
  ASSUME Sound, HandlesOwned, RoomForFiles, Count, NoBlockLost, WritersAtTheEnd, BrokerNext, NoRemovalYet'
  PROVE  WritersAtTheEnd'
<1> SUFFICES ASSUME NEW t \in Publishers, pc'[t] \in WritingPcs, Handle(t)' # -1
             PROVE  AtTheEnd(Handle(t))'
  BY DEF WritersAtTheEnd
<1>1. t \in Sessions
  BY DEF Publishers
<1>2. CASE PubAttach(t)
  BY <1>1, <1>2, OpeningStep DEF OpensFile, HandlesOwned
<1>3. CASE ~PubAttach(t)
  <2>1. pc[t] \in WritingPcs /\ ~OpensFile(t)
    BY <1>3, WriterMoves
  <2>2. Handle(t)' = Handle(t)
    BY <1>1, <2>1, HandleEffect
  <2>3. PICK h, g : h = Handle(t) /\ g = open_file_table[h].of_inumber
    OBVIOUS
  <2>4. /\ t \in Owners /\ h \in OpenHandles /\ g \in takenInodes /\ FileIs(Request[t].box, g)
        /\ open_file_table[h].of_offset = Size(g)
    BY <1>1, <2>1, <2>2, <2>3, OwnFile DEF WritersAtTheEnd, AtTheEnd, WritingPcs, Over
  <2>5. ASSUME open_file_table'[h].of_inumber = g, open_file_table'[h].of_offset = Size(g)'
        PROVE  AtTheEnd(Handle(t))'
    BY <2>2, <2>3, <2>5 DEF AtTheEnd
  <2>6. CASE BytesKept /\ ~Moves(t)
    <3>1. open_file_table'[h] = open_file_table[h] /\ Size(g)' = Size(g)
      BY <2>3, <2>4, <2>6, WritesOrKeeps DEF BytesKept, EntriesKept, SameText
    <3> QED
      BY <2>3, <2>4, <2>5, <3>1
  <2>7. ASSUME NEW s \in Publishers, NEW buffer, NEW ret, Writes(s, buffer, ret), Handle(s) # -1
        PROVE  AtTheEnd(Handle(t))'
    <3>1. PICK f : /\ FileIs(Request[s].box, f) /\ f = open_file_table[Handle(s)].of_inumber
                   /\ EndWritten(Handle(s), f, buffer, ret) /\ StaysOpen(Handle(s))
      BY <2>7, WritingStep
    <3>2. CASE s = t
      BY <2>3, <2>5, <3>1, <3>2 DEF EndWritten, StaysOpen
    <3>3. CASE s # t
      <4>1. pc[s] \in Claimed /\ pc[t] \in Claimed
        BY <2>1, <2>7 DEF Writes, PubWrite, PubTerminate, Goto, WritingPcs, Claimed, Located
      <4>2. Request[s].box # Request[t].box
        BY <3>3, <4>1, OneWriter
      <4>3. g # f
        BY <2>4, <3>1, <4>2, FileFacts DEF Sound
      <4>4. h # Handle(s)
        BY <2>3, <3>1, <4>3
      <4>5. open_file_table'[h] = open_file_table[h] /\ Size(g)' = Size(g)
        BY <2>4, <3>1, <4>3, <4>4 DEF EndWritten, SameText
      <4> QED
        BY <2>3, <2>4, <2>5, <4>5
    <3> QED
      BY <3>2, <3>3
  <2>8. CASE BytesKept /\ \A x \in Publishers : PubWrite(x) \/ PubTerminate(x) => Handle(x) = -1
    <3>1. ~PubWrite(t) /\ ~PubTerminate(t)
      BY <2>2, <2>8
    <3>2. ~ClosesFile(t) /\ ~SubRead(t)
      BY <2>1 DEF ClosesFile, PubEnd, SubEnd, CreateClose, SubRead, Goto, WritingPcs
    <3> QED
      BY <2>1, <2>6, <2>8, <3>1, <3>2 DEF Moves
  <2> QED
    BY <2>7, <2>8, WritesOrKeeps DEF WriteNow
<1> QED
  BY <1>2, <1>3
-----------------------------------------------------------------------------
(* The count.                                                              *)

LEMMA NulsFinite ==
  ASSUME NEW f, Size(f) \in Nat
  PROVE  IsFiniteSet(Nuls(f)) /\ Cardinality(Nuls(f)) \in Nat /\ Size(f) + 1 \notin Nuls(f)
<1>1. PICK n \in Nat : n = Size(f)
  OBVIOUS
<1>2. IsFiniteSet(1..n) /\ n + 1 \notin 1..n
  BY FS_Interval
<1>3. Nuls(f) \subseteq 1..n
  BY <1>1 DEF Nuls
<1>4. IsFiniteSet(Nuls(f))
  BY <1>2, <1>3, FS_Subset
<1> QED
  BY <1>1, <1>2, <1>3, <1>4, FS_CardinalityType

LEMMA SameNuls ==
  ASSUME NEW f, SameText(f)
  PROVE  Size(f)' = Size(f) /\ Nuls(f)' = Nuls(f)
BY DEF SameText, Nuls

\* The terminators in a file to whose end a buffer was written.
LEMMA NulsWritten ==
  ASSUME IInv, NEW f \in takenInodes, NEW buffer \in Seq(Bytes), NEW n,
         IsExtended(Text(f), Text(f)', buffer, n), IInv', f \in takenInodes', n = Len(buffer)
  PROVE  /\ Size(f)' = Size(f) + Len(buffer)
         /\ \A k : k \in Nuls(f)' <=>
              \/ k \in Nuls(f)
              \/ k \in (Size(f) + 1)..(Size(f) + Len(buffer)) /\ buffer[k - Size(f)] = NUL
<1>1. PICK text, text2 : text = Text(f) /\ text2 = Text(f)'
  OBVIOUS
<1>2. PICK size \in Nat, len \in Nat : size = Size(f) /\ len = Len(buffer) /\ Len(text) = size
  BY <1>1, TextFacts, TFSAssumption
<1>3. Len(text2) = Size(f)'
  <2>1. PICK new \in Nat : new = Size(f)'
    BY TFSAssumption DEF IInv, FSTypeOK, Inode, Size
  <2>2. text2 = [k \in 1..new |-> fs_data'[inode_table'[f].i_data_block][k - 1]]
    BY <1>1, <2>1 DEF Text
  <2> QED
    BY <2>1, <2>2
<1>4. /\ Len(text2) = size + len
      /\ \A k \in 1..size : text2[k] = text[k]
      /\ \A k \in 1..len : text2[size + k] = buffer[k]
  BY <1>1, <1>2 DEF IsExtended
<1>5. ASSUME NEW k
      PROVE  k \in Nuls(f)' <=> k \in Nuls(f) \/ (k \in (size + 1)..(size + len) /\ buffer[k - size] = NUL)
  <2>1. k \in Nuls(f)' <=> k \in 1..(size + len) /\ text2[k] = NUL
    BY <1>1, <1>3, <1>4 DEF Nuls
  <2>2. k \in Nuls(f) <=> k \in 1..size /\ text[k] = NUL
    BY <1>1, <1>2 DEF Nuls
  <2>3. CASE k \in 1..size
    <3>1. k \in 1..(size + len) /\ k \notin (size + 1)..(size + len)
      BY <2>3
    <3> QED
      BY <1>4, <2>1, <2>2, <2>3, <3>1
  <2>4. CASE k \in (size + 1)..(size + len)
    <3>1. k - size \in 1..len /\ size + (k - size) = k /\ k \in 1..(size + len) /\ k \notin 1..size
      BY <2>4
    <3>2. text2[k] = buffer[k - size]
      BY <1>4, <3>1
    <3> QED
      BY <2>1, <2>2, <2>4, <3>1, <3>2
  <2>5. CASE k \notin 1..size /\ k \notin (size + 1)..(size + len)
    <3>1. k \notin 1..(size + len)
      BY <2>5
    <3> QED
      BY <2>1, <2>2, <2>5, <3>1
  <2> QED
    BY <2>3, <2>4, <2>5
<1> QED
  BY <1>2, <1>3, <1>4, <1>5

\* What a message and a terminator add to the count.
LEMMA MessageCounts ==
  ASSUME NEW f, NEW buffer \in Message, Size(f) \in Nat, Size(f)' = Size(f) + Len(buffer),
         \A k : k \in Nuls(f)' <=>
           \/ k \in Nuls(f)
           \/ k \in (Size(f) + 1)..(Size(f) + Len(buffer)) /\ buffer[k - Size(f)] = NUL
  PROVE  TextSize(f)' = TextSize(f) + Len(buffer)
<1>1. PICK size \in Nat, len \in Nat : size = Size(f) /\ len = Len(buffer)
  BY DEF Message
<1>2. \A k \in (size + 1)..(size + len) : k - size \in 1..len
  BY <1>1
<1>3. \A j \in 1..len : buffer[j] # NUL
  BY <1>1 DEF Message
<1>4. Nuls(f)' = Nuls(f)
  BY <1>1, <1>2, <1>3
<1>5. PICK c \in Nat : c = Cardinality(Nuls(f))
  BY NulsFinite
<1>6. (size + len) - c = (size - c) + len
  BY <1>1
<1> QED
  BY <1>1, <1>4, <1>5, <1>6 DEF TextSize

LEMMA TerminatorCounts ==
  ASSUME NEW f, Size(f) \in Nat, Size(f)' = Size(f) + Len(<<NUL>>),
         \A k : k \in Nuls(f)' <=>
           \/ k \in Nuls(f)
           \/ k \in (Size(f) + 1)..(Size(f) + Len(<<NUL>>)) /\ <<NUL>>[k - Size(f)] = NUL
  PROVE  TextSize(f)' = TextSize(f)
<1>1. PICK size \in Nat : size = Size(f)
  OBVIOUS
<1>2. Len(<<NUL>>) = 1 /\ <<NUL>>[1] = NUL
  OBVIOUS
<1>3. \A k : k \in (size + 1)..(size + 1) <=> k = size + 1
  OBVIOUS
<1>4. (size + 1) - size = 1
  OBVIOUS
<1>5. Nuls(f)' = Nuls(f) \cup {size + 1}
  BY <1>1, <1>2, <1>3, <1>4
<1>6. PICK c \in Nat : c = Cardinality(Nuls(f))
  BY NulsFinite
<1>7. Cardinality(Nuls(f) \cup {size + 1}) = c + 1
  BY <1>1, <1>6, NulsFinite, FS_AddElement
<1>8. (size + 1) - (c + 1) = size - c
  BY <1>1
<1> QED
  BY <1>1, <1>2, <1>5, <1>6, <1>7, <1>8 DEF TextSize

\* The message of a publisher stays at hand until it is terminated.
LEMMA InboxKept ==
  ASSUME Sound, BrokerNext, NEW x \in Sessions, pc[x] = "pubTerminate"
  PROVE  inbox'[x] = inbox[x]
<1>1. CASE UNCHANGED inbox
  BY <1>1
<1>2. ASSUME NEW s \in Sessions, PubNotify(s)
      PROVE  inbox'[x] = inbox[x]
  BY <1>2 DEF PubNotify, Goto, Sound, BrokerTypeOK
<1>3. ASSUME NEW s \in Sessions, Leave(s) \/ ReadCodeAlone(s)
      PROVE  inbox'[x] = inbox[x]
  <2>1. s # x
    BY <1>3 DEF Leave, ReadCodeAlone, Find, Goto, Sound, MessageAtHand, StepsInKind, Managers,
                CreatorPcs, RemoverPcs
  <2> QED
    BY <1>3, <2>1 DEF Leave, ReadCodeAlone, Sound, BrokerTypeOK
<1> QED
  BY <1>1, <1>2, <1>3, ClientsEffect

\* A box is still counted when neither its file nor its publisher does anything.
LEMMA StillCounted ==
  ASSUME Sound, BrokerNext, NEW i, NEW b, NEW f, CountedAt(i, b, f),
         boxes'[i].box_size = boxes[i].box_size, Size(f)' = Size(f), Nuls(f)' = Nuls(f),
         \A x \in Publishers : Request[x].box = b => (pc'[x] = "pubTerminate" <=> pc[x] = "pubTerminate")
  PROVE  CountedAt(i, b, f)'
<1>1. \A x : Terminating(x, b)' <=> Terminating(x, b)
  BY DEF Terminating
<1>2. ASSUME NEW x, Terminating(x, b)
      PROVE  inbox'[x] = inbox[x]
  BY <1>2, InboxKept DEF Terminating, Publishers
<1>3. TextSize(f)' = TextSize(f)
  BY DEF TextSize
<1>4. (\A x : ~Terminating(x, b)') => (\A x : ~Terminating(x, b))
  BY <1>1
<1>5. ASSUME NEW x, Terminating(x, b)', Size(f) < BlockSize
      PROVE  boxes'[i].box_size + Len(Head(inbox'[x])) = TextSize(f)'
  BY <1>1, <1>2, <1>3, <1>5 DEF CountedAt
<1>6. ASSUME \A x : ~Terminating(x, b)', Size(f) < BlockSize
      PROVE  boxes'[i].box_size = TextSize(f)'
  BY <1>1, <1>3, <1>6 DEF CountedAt
<1> QED
  BY <1>5, <1>6 DEF CountedAt

\* The box that a publisher writes to.
LEMMA WriterCounts ==
  ASSUME Sound, Agreement, Count, SizesCounted, BrokerNext, NEW s \in Publishers, NEW buffer \in Seq(Bytes), NEW ret,
         Writes(s, buffer, ret), NEW i, NEW f \in takenInodes, Named(i, Request[s].box),
         FileIs(Request[s].box, f), Size(f) \in 0..BlockSize, EndWritten(Handle(s), f, buffer, ret)
  PROVE  CountedAt(i, Request[s].box, f)'
<1>1. /\ pc[s] \in {"pubWrite", "pubTerminate"} /\ s \in Sessions /\ pc \in [Sessions -> Steps]
      /\ Head(inbox[s]) \in Message
  <2>1. pc[s] \in {"pubWrite", "pubTerminate"}
    BY DEF Writes, PubWrite, PubTerminate, Goto
  <2> QED
    BY <2>1, HeadFacts DEF Sound, BrokerTypeOK, Publishers
<1>2. \A x : Terminating(x, Request[s].box) => x = s
  BY <1>1, OneWriter DEF Terminating, Claimed, Located
<1>3. \A x : Terminating(x, Request[s].box)' => x = s
  <2>1. ASSUME NEW x, Terminating(x, Request[s].box)' PROVE x = s
    <3>1. x \in Publishers /\ Request[x].box = Request[s].box /\ pc'[x] = "pubTerminate"
      BY <2>1 DEF Terminating
    <3>2. pc[x] \in {"pubWrite", "pubTerminate"}
      BY <3>1, WriterMoves DEF PubWrite, Goto
    <3> QED
      BY <1>1, <3>1, <3>2, OneWriter DEF Claimed, Located
  <2> QED
    BY <2>1
<1>4. i = Index(s) /\ i \in Indices /\ boxes[i] \in Box
  <2>1. Named(Index(s), Request[s].box)
    BY <1>1 DEF Count, IndexesRight, Located
  <2>2. i \in Indices
    BY BrokerAssumption DEF Named, Sound, BrokerTypeOK, Indices
  <2> QED
    BY <2>1, <2>2 DEF Agreement, NamesDiffer, Sound, BrokerTypeOK
<1>5. SUFFICES ASSUME Size(f)' < BlockSize
               PROVE  /\ (\A x : ~Terminating(x, Request[s].box)') => boxes'[i].box_size = TextSize(f)'
                      /\ \A x : Terminating(x, Request[s].box)' =>
                           boxes'[i].box_size + Len(Head(inbox'[x])) = TextSize(f)'
  BY DEF CountedAt
<1>6. /\ Size(f)' = Size(f) + Len(buffer)
      /\ \A k : k \in Nuls(f)' <=>
                  \/ k \in Nuls(f)
                  \/ k \in (Size(f) + 1)..(Size(f) + Len(buffer)) /\ buffer[k - Size(f)] = NUL
  <2>1. IInv /\ IInv'
    BY SoundFS, BrokerFSStep
  <2>2. IsExtended(Text(f), Text(f)', buffer, ret) /\ ret = Len(buffer) /\ f \in takenInodes'
    BY <1>5 DEF EndWritten
  <2> QED
    BY <2>1, <2>2, NulsWritten
<1>7. PICK size \in Nat, new \in Nat, len \in Nat :
        size = Size(f) /\ new = Size(f)' /\ len = Len(buffer) /\ new = size + len
  BY <1>6, TFSAssumption
<1>8. size < BlockSize
  BY <1>5, <1>7, TFSAssumption
<1>9. CountedAt(i, Request[s].box, f)
  BY DEF SizesCounted
<1>10. CASE PubWrite(s) /\ buffer = Head(inbox[s])
  <2>1. pc[s] = "pubWrite" /\ pc'[s] = "pubTerminate" /\ UNCHANGED <<boxes, inbox>>
    BY <1>1, <1>10 DEF PubWrite, Goto, registry, clients
  <2>2. \A x : ~Terminating(x, Request[s].box)
    BY <1>2, <2>1 DEF Terminating
  <2>3. boxes[i].box_size = TextSize(f)
    BY <1>7, <1>8, <1>9, <2>2 DEF CountedAt
  <2>4. TextSize(f)' = TextSize(f) + Len(buffer)
    BY <1>1, <1>6, <1>7, <1>10, MessageCounts
  <2>5. Terminating(s, Request[s].box)'
    BY <2>1 DEF Terminating
  <2> QED
    BY <1>3, <1>10, <2>1, <2>3, <2>4, <2>5
<1>11. CASE PubTerminate(s) /\ buffer = <<NUL>>
  <2>1. /\ pc[s] = "pubTerminate" /\ pc'[s] = "pubNotify"
        /\ boxes' = [boxes EXCEPT ![Index(s)].box_size = @ + Len(Head(inbox[s]))]
    BY <1>1, <1>11 DEF PubTerminate, Goto
  <2>2. Terminating(s, Request[s].box)
    BY <2>1 DEF Terminating
  <2>3. boxes[i].box_size + Len(Head(inbox[s])) = TextSize(f)
    BY <1>7, <1>8, <1>9, <2>2 DEF CountedAt
  <2>4. TextSize(f)' = TextSize(f)
    BY <1>6, <1>11, TerminatorCounts
  <2>5. boxes'[i].box_size = boxes[i].box_size + Len(Head(inbox[s]))
    BY <1>4, <2>1 DEF Sound, BrokerTypeOK, Box
  <2>6. \A x : ~Terminating(x, Request[s].box)'
    BY <1>3, <2>1 DEF Terminating
  <2> QED
    BY <2>3, <2>4, <2>5, <2>6
<1> QED
  BY <1>10, <1>11 DEF Writes

LEMMA BoxSizeEffect ==
  ASSUME Sound, Agreement, BrokerNext, NoRemovalYet', NEW i, NEW b, Named(i, b)'
  PROVE  \/ /\ Named(i, b)
            /\ \/ boxes'[i].box_size = boxes[i].box_size
               \/ \E s \in Publishers : PubTerminate(s) /\ i = Index(s)
         \/ /\ ~InRegistry(b) /\ boxes'[i].box_size = 0
            /\ \E s \in Managers : CreateAdd(s) /\ b = Request[s].box
<1>1. /\ boxes \in [Indices -> Box] /\ n_boxes \in 0..MaxBoxes
      /\ pc \in [Sessions -> Steps]
  BY DEF Sound, BrokerTypeOK
<1>2. CASE UNCHANGED registry
  BY <1>2 DEF Named, registry
<1>3. ASSUME NEW s \in Publishers, PubClaim(s) \/ PubName(s) \/ Eof(s) \/ PubTerminate(s)
      PROVE  /\ Named(i, b)
             /\ boxes'[i].box_size = boxes[i].box_size \/ (PubTerminate(s) /\ i = Index(s))
  <2>1. Named(i, b)
    BY <1>3, OthersNames DEF Publishers
  <2>2. i \in Indices
    BY <1>1, <2>1, BrokerAssumption DEF Named, Indices
  <2>3. CASE PubClaim(s)
    BY <1>1, <2>1, <2>2, <2>3 DEF PubClaim, Box
  <2>4. CASE Eof(s)
    BY <1>1, <2>1, <2>2, <2>4 DEF Eof, Box
  <2>5. CASE PubTerminate(s)
    <3>1. i # Index(s) => boxes'[i] = boxes[i]
      BY <1>1, <2>2, <2>5 DEF PubTerminate
    <3> QED
      BY <2>1, <2>5, <3>1
  <2>6. CASE PubName(s)
    <3>1. \E x : boxes' = [boxes EXCEPT ![Index(s)].publisher = x]
      BY <2>6 DEF PubName
    <3> QED
      BY <1>1, <2>1, <2>2, <3>1 DEF Box
  <2> QED
    BY <1>3, <2>3, <2>4, <2>5, <2>6
<1>4. ASSUME NEW s \in Managers, CreateAdd(s)
      PROVE  \/ Named(i, b) /\ boxes'[i].box_size = boxes[i].box_size
             \/ ~InRegistry(b) /\ boxes'[i].box_size = 0 /\ b = Request[s].box
  <2>1. PICK n \in Indices :
          /\ n = n_boxes
          /\ \A j, c : Named(j, c)' <=> Named(j, c) \/ (j = n /\ c = Request[s].box)
          /\ \A j : j \in 0..(n_boxes - 1) => j # n /\ boxes'[j] = boxes[j]
    BY <1>4, AddFacts
  <2>2. CASE Named(i, b)
    BY <2>1, <2>2 DEF Named
  <2>3. CASE i = n /\ b = Request[s].box
    <3>1. boxes' = [boxes EXCEPT ![n] = [EmptyBox EXCEPT !.box_name = Request[s].box]]
      BY <1>4, <2>1 DEF CreateAdd
    <3>2. boxes'[n].box_size = 0
      BY <1>1, <3>1 DEF EmptyBox
    <3>3. pc[s] = "createAdd"
      BY <1>4 DEF CreateAdd, Goto
    <3> QED
      BY <2>3, <3>2, <3>3 DEF Agreement, CreatorsOnTrack, Creating
  <2> QED
    BY <2>1, <2>2, <2>3
<1>5. ASSUME NEW s \in Managers, RemoveLock(s) \/ Swap(s) \/ RemoveEnd(s)
      PROVE  FALSE
  <2>1. pc[s] \in {"removeLock"} \cup Deleting /\ s \in Sessions
    BY <1>5 DEF RemoveLock, Swap, Exchange, RemoveEnd, Goto, Managers, Deleting
  <2>2. Request[s].kind = "remove"
    BY <2>1, RequestFacts DEF Sound, StepsInKind, Kinds, PublisherPcs, SubscriberPcs, CreatorPcs,
                              Deleting
  <2> QED
    BY <2>1, <2>2, SoundPcs, RemovalsStayBegun DEF NoRemovalYet, Deleting
<1> QED
  BY <1>2, <1>3, <1>4, <1>5, RegistryEffect

LEMMA NamesStep ==
  ASSUME Sound, Agreement, NamesProper, BrokerNext, NoRemovalYet'
  PROVE  NamesProper'
<1> SUFFICES ASSUME NEW i, NEW b, Named(i, b)' PROVE b \in Names
  BY DEF NamesProper
<1> QED
  BY BoxSizeEffect, ManagerFacts DEF NamesProper

\* Until a removal begins every box has its file.
LEMMA EveryBoxHasFile ==
  ASSUME Sound, Agreement, NoRemovalYet, NEW b \in Names, InRegistry(b)
  PROVE  HasFile(b)
<1>1. ASSUME NEW s \in Managers, pc[s] \in Removing
      PROVE  FALSE
  <2>1. Request[s].kind = "remove" /\ s \in Sessions
    BY <1>1, ManagerFacts DEF Sound, StepsInKind, CreatorPcs, Removing, Deleting
  <2> QED
    BY <1>1, <2>1 DEF NoRemovalYet, Removing, Deleting
<1> QED
  BY <1>1 DEF Agreement, BoxesHaveFiles

\* Every step leaves every box counted.
LEMMA CountedStep ==
  ASSUME Sound, HandlesOwned, Agreement, Count, RoomForFiles, NoBlockLost, WritersAtTheEnd, WritersHaveHandles,
         SizesCounted, NoBoxNoBytes, BrokerNext, NoRemovalYet'
  PROVE  SizesCounted'
<1> SUFFICES ASSUME NEW i, NEW b, NEW f, Named(i, b)', FileIs(b, f)'
             PROVE  CountedAt(i, b, f)'
  BY DEF SizesCounted
<1>1. b \in Names
  <2>1. DirectoryConsistent'
    BY BrokerFSStep DEF IInv
  <2>2. PICK d \in DirSlots : dir_entry'[d].d_inumber # -1 /\ dir_entry'[d].d_name = b
    BY DEF FileIs, Matches
  <2> QED
    BY <2>1, <2>2 DEF DirectoryConsistent, Used
<1>2. CASE ~InRegistry(b)
  <2>1. PICK s \in Managers : CreateAdd(s) /\ boxes'[i].box_size = 0
    BY <1>2, BoxSizeEffect DEF Named, InRegistry
  <2>2. UNCHANGED fsVars /\ Only(s)
    BY <2>1, ManagerFacts, StepsAreApart DEF CreateAdd, ManagerStep
  <2>3. FileIs(b, f) /\ Size(f)' = Size(f)
    BY <2>2 DEF fsVars, FileIs, Matches, Size
  <2>4. Size(f)' = 0
    BY <1>1, <1>2, <2>3 DEF NoBoxNoBytes
  <2>5. TextSize(f)' = 0
    <3>1. 1..0 = {} /\ Cardinality({}) = 0 /\ 0 - 0 = 0
      BY FS_EmptySet
    <3>2. Nuls(f)' = {}
      BY <2>4, <3>1 DEF Nuls
    <3> QED
      BY <2>4, <3>1, <3>2 DEF TextSize
  <2>6. \A x : ~Terminating(x, b)'
    <3>1. ASSUME NEW x \in Publishers, Request[x].box = b, pc'[x] = "pubTerminate"
          PROVE  FALSE
      <4>1. x # s /\ x \in Sessions
        BY RequestFacts DEF Publishers, Managers
      <4>2. pc[x] = "pubTerminate"
        BY <2>2, <3>1, <4>1 DEF Only
      <4> QED
        BY <1>2, <3>1, <4>2 DEF Count, IndexesRight, Located, Named, InRegistry
    <3> QED
      BY <3>1 DEF Terminating
  <2> QED
    BY <2>1, <2>5, <2>6 DEF CountedAt
<1>3. CASE InRegistry(b)
  <2>1. /\ Named(i, b)
        /\ \/ boxes'[i].box_size = boxes[i].box_size
           \/ \E s \in Publishers : PubTerminate(s) /\ i = Index(s)
    BY <1>3, BoxSizeEffect
  <2>2. ASSUME NEW s \in Publishers, NEW buffer, NEW ret, Writes(s, buffer, ret), Handle(s) # -1
        PROVE  CountedAt(i, b, f)'
    <3>1. PICK g : /\ FileIs(Request[s].box, g) /\ buffer \in Seq(Bytes)
                   /\ g \in takenInodes /\ Size(g) \in 0..BlockSize
                   /\ EndWritten(Handle(s), g, buffer, ret)
      BY <2>2, WritingStep
    <3>2. FileIs(b, f)
      BY <3>1 DEF EndWritten, FileIs, Matches
    <3>3. /\ pc[s] \in {"pubWrite", "pubTerminate"}
          /\ PubWrite(s) \/ PubTerminate(s)
          /\ Named(Index(s), Request[s].box) /\ s \in Sessions
      BY <2>2 DEF Writes, PubWrite, PubTerminate, Goto, Count, IndexesRight, Located, Publishers
    <3>4. Only(s)
      BY <3>3, StepsAreApart DEF PublisherStep
    <3>5. CASE b = Request[s].box
      <4>1. f = g
        BY <3>1, <3>2, <3>5, FileFacts DEF Sound
      <4> QED
        BY <2>1, <2>2, <3>1, <3>2, <3>5, <4>1, WriterCounts
    <3>6. CASE b # Request[s].box
      <4>1. f # g /\ f \in takenInodes
        BY <3>1, <3>2, <3>6, FileFacts DEF Sound
      <4>2. Size(f)' = Size(f) /\ Nuls(f)' = Nuls(f)
        BY <3>1, <4>1, SameNuls DEF EndWritten
      <4>3. \A x \in Publishers : Request[x].box = b => pc'[x] = pc[x]
        BY <3>4, <3>6 DEF Only, Publishers
      <4>4. boxes'[i].box_size = boxes[i].box_size
        <5>1. i # Index(s)
          BY <2>1, <3>3, <3>6 DEF Named
        <5>2. ASSUME NEW t \in Publishers, PubTerminate(t) PROVE t = s
          BY <3>4, <5>2 DEF Only, PubTerminate, Goto, Publishers, Sound, BrokerTypeOK
        <5> QED
          BY <2>1, <5>1, <5>2
      <4>5. CountedAt(i, b, f)
        BY <2>1, <3>2 DEF SizesCounted
      <4> QED
        BY <4>2, <4>3, <4>4, <4>5, StillCounted
    <3> QED
      BY <3>5, <3>6
  <2>3. CASE BytesKept /\ \A t \in Publishers : ~PubWrite(t) /\ ~PubTerminate(t)
    <3>1. FileIs(b, f)
      BY <1>1, <1>3, <2>3, SoundPcs, RemovalsStayBegun, EveryBoxHasFile DEF BytesKept, HasFile
    <3>2. Size(f)' = Size(f) /\ Nuls(f)' = Nuls(f)
      BY <2>3, <3>1, FileFacts, SameNuls DEF BytesKept, Sound
    <3>3. \A x \in Publishers : pc'[x] = "pubTerminate" <=> pc[x] = "pubTerminate"
      BY <2>3, WriterMoves
    <3>4. CountedAt(i, b, f)
      BY <2>1, <3>1 DEF SizesCounted
    <3>5. boxes'[i].box_size = boxes[i].box_size
      BY <2>1, <2>3
    <3> QED
      BY <3>2, <3>3, <3>4, <3>5, StillCounted
  <2>4. WriteNow \/ (BytesKept /\ \A t \in Publishers : ~PubWrite(t) /\ ~PubTerminate(t))
    <3>1. \A t \in Publishers : PubWrite(t) \/ PubTerminate(t) => Handle(t) # -1
      BY DEF PubWrite, PubTerminate, Goto, WritersHaveHandles, Attached
    <3> QED
      BY <3>1, WritesOrKeeps
  <2> QED
    BY <2>2, <2>3, <2>4 DEF WriteNow
<1> QED
  BY <1>2, <1>3

LEMMA NoBytesStep ==
  ASSUME Sound, HandlesOwned, Agreement, Count, RoomForFiles, NoBlockLost, WritersAtTheEnd, NoBoxNoBytes,
         BrokerNext, NoRemovalYet'
  PROVE  NoBoxNoBytes'
<1> SUFFICES ASSUME NEW b \in Names, ~InRegistry(b)', NEW f, FileIs(b, f)'
             PROVE  Size(f)' = 0
  BY DEF NoBoxNoBytes
<1>1. ~InRegistry(b)
  BY NamesGrow, RegistryNames
<1>2. ASSUME NEW s \in Publishers, NEW buffer, NEW ret, Writes(s, buffer, ret), Handle(s) # -1
      PROVE  Size(f)' = 0
  <2>1. PICK g : FileIs(Request[s].box, g) /\ EndWritten(Handle(s), g, buffer, ret)
    BY <1>2, WritingStep
  <2>2. FileIs(b, f)
    BY <2>1 DEF EndWritten, FileIs, Matches
  <2>3. Named(Index(s), Request[s].box)
    BY <1>2 DEF Writes, PubWrite, PubTerminate, Goto, Count, IndexesRight, Located
  <2>4. f # g /\ f \in takenInodes
    BY <1>1, <2>1, <2>2, <2>3, RegistryNames, FileFacts DEF Sound
  <2> QED
    BY <1>1, <2>1, <2>2, <2>4 DEF EndWritten, NoBoxNoBytes, SameText
<1>3. CASE BytesKept
  BY <1>1, <1>3, FileFacts DEF BytesKept, NoBoxNoBytes, Sound, SameText
<1> QED
  BY <1>2, <1>3, WritesOrKeeps DEF WriteNow
-----------------------------------------------------------------------------
(* The invariants.                                                         *)

LEMMA HandlesStayGiven ==
  ASSUME Sound, BrokerNext, WritersHaveHandles'
  PROVE  WritersHaveHandles
<1> SUFFICES ASSUME NEW t \in Publishers, pc[t] \in Attached
             PROVE  Handle(t) # -1
  BY DEF WritersHaveHandles
<1>1. pc'[t] \in Attached
  BY PublisherMoves
<1>2. ~OpensFile(t)
  BY DEF OpensFile, PubOpen, PubRefuse, PubAttach, SubOpen, CreateOpen, Goto, Attached
<1>3. Handle(t)' = Handle(t)
  BY <1>2, HandleEffect DEF Publishers
<1> QED
  BY <1>1, <1>3 DEF WritersHaveHandles

LEMMA NoBlockLostStep ==
  ASSUME Sound, HandlesOwned, RoomForFiles, NoBlockLost, WritersAtTheEnd, BrokerNext, NoRemovalYet'
  PROVE  NoBlockLost'
BY WritesOrKeeps, WritingStep DEF BytesKept, WriteNow

\* What a step that changes nothing leaves.
LEMMA FilesStutter ==
  ASSUME UNCHANGED brokerVars
  PROVE  /\ NoRemovalYet' => NoRemovalYet
         /\ Files => Files'
         /\ \A f : SameText(f)
         /\ \A b, f : FileIs(b, f)' <=> FileIs(b, f)
         /\ \A i, b : Named(i, b)' <=> Named(i, b)
<1>1. UNCHANGED fsVars /\ UNCHANGED <<boxes, n_boxes, box_mutexes, pc, frame>>
  BY DEF brokerVars, registry, monitors
<1>2. /\ \A f : SameText(f)
      /\ \A b, f : FileIs(b, f)' <=> FileIs(b, f)
      /\ \A i, b : Named(i, b)' <=> Named(i, b)
  BY <1>1 DEF fsVars, Size, Text, SameText, FileIs, Matches, Named
<1>3. ASSUME Files PROVE Files'
  <2>1. NoBlockLost'
    BY <1>1, <1>2, <1>3 DEF Files, NoBlockLost, HasBlock, fsVars, SameText
  <2>2. MutexesHeld' /\ SubscribersLocated'
    BY <1>1, <1>3 DEF Files, MutexesHeld, SubscribersLocated, Named, Index
  <2>3. WritersAtTheEnd'
    BY <1>1, <1>3 DEF Files, WritersAtTheEnd, AtTheEnd, Handle, Size, fsVars
  <2>4. NamesProper'
    BY <1>2, <1>3 DEF Files, NamesProper
  <2>5. NoBoxNoBytes'
    BY <1>2, <1>3, RegistryNames DEF Files, NoBoxNoBytes, SameText
  <2> QED
    BY <2>1, <2>2, <2>3, <2>4, <2>5 DEF Files
<1>4. NoRemovalYet' => NoRemovalYet
  BY <1>1 DEF NoRemovalYet
<1> QED
  BY <1>2, <1>3, <1>4

LEMMA FilesStep ==
  ASSUME ManagersTakeTurns, PublishersTakeTurns, RoomForFiles, FilesIInv, [BrokerNext]_brokerVars
  PROVE  FilesIInv'
<1>1. CountIInv' /\ CalmIInv'
  BY CountStep, CalmStep DEF FilesIInv
<1>2. CASE BrokerNext
  <2> SUFFICES ASSUME NoRemovalYet' PROVE Files'
    BY <1>1 DEF FilesIInv
  <2>1. Sound /\ Agreement
    BY DEF FilesIInv, CountIInv, AgreeIInv
  <2>2. NoRemovalYet
    BY <1>2, <2>1, SoundPcs, RemovalsStayBegun
  <2>3. Count /\ HandlesOwned /\ Files
    BY <2>2 DEF FilesIInv, CountIInv, CalmIInv
  <2>4. NoBlockLost'
    BY <1>2, <2>1, <2>2, <2>3, NoBlockLostStep DEF Files
  <2>5. MutexesHeld' /\ SubscribersLocated'
    BY <1>2, <2>1, <2>3, MutexStep, LocatedStep DEF Files
  <2>6. WritersAtTheEnd'
    BY <1>2, <2>1, <2>3, WritersStep DEF Files
  <2>7. NamesProper' /\ NoBoxNoBytes'
    BY <1>2, <2>1, <2>3, NamesStep, NoBytesStep DEF Files
  <2> QED
    BY <2>4, <2>5, <2>6, <2>7 DEF Files
<1>3. CASE UNCHANGED brokerVars
  BY <1>1, <1>3, FilesStutter DEF FilesIInv
<1> QED
  BY <1>2, <1>3

LEMMA SizesStep ==
  ASSUME ManagersTakeTurns, PublishersTakeTurns, RoomForFiles, SizesIInv, [BrokerNext]_brokerVars
  PROVE  SizesIInv'
<1>1. FilesIInv'
  BY FilesStep DEF SizesIInv
<1>2. CASE BrokerNext
  <2> SUFFICES ASSUME NoRemovalYet', WritersHaveHandles' PROVE SizesCounted'
    BY <1>1 DEF SizesIInv
  <2>1. Sound /\ Agreement
    BY DEF SizesIInv, FilesIInv, CountIInv, AgreeIInv
  <2>2. NoRemovalYet /\ WritersHaveHandles
    BY <1>2, <2>1, SoundPcs, RemovalsStayBegun, HandlesStayGiven
  <2>3. Count /\ HandlesOwned /\ Files /\ SizesCounted
    BY <2>2 DEF SizesIInv, FilesIInv, CountIInv, CalmIInv
  <2> QED
    BY <1>2, <2>1, <2>2, <2>3, CountedStep DEF Files
<1>3. CASE UNCHANGED brokerVars
  <2> SUFFICES ASSUME NoRemovalYet', WritersHaveHandles' PROVE SizesCounted'
    BY <1>1 DEF SizesIInv
  <2>1. UNCHANGED <<boxes, pc, frame, inbox>>
    BY <1>3 DEF brokerVars, registry, clients
  <2>2. NoRemovalYet /\ WritersHaveHandles
    BY <1>3, <2>1, FilesStutter DEF WritersHaveHandles, Handle
  <2>3. SizesCounted
    BY <2>2 DEF SizesIInv
  <2>4. \A f : SameText(f)
    BY <1>3, FilesStutter
  <2>5. \A f : Size(f)' = Size(f) /\ Nuls(f)' = Nuls(f)
    BY <2>4, SameNuls
  <2>6. \A i, b, f : CountedAt(i, b, f) => CountedAt(i, b, f)'
    BY <2>1, <2>5 DEF CountedAt, TextSize, Terminating
  <2> QED
    BY <1>3, <2>3, <2>6, FilesStutter DEF SizesCounted
<1> QED
  BY <1>2, <1>3

LEMMA FilesInit == BrokerInit => SizesIInv
<1> SUFFICES ASSUME BrokerInit PROVE SizesIInv
  OBVIOUS
<1>1. CountIInv /\ CalmIInv
  BY CountInit, CalmInit
<1>2. \A s \in Sessions : pc[s] = "none"
  BY DEF BrokerInit
<1>3. MutexesHeld /\ SubscribersLocated /\ WritersAtTheEnd
  BY <1>2 DEF MutexesHeld, SubscribersLocated, WritersAtTheEnd, HoldingPcs, SubscriberLocated,
              WritingPcs, Subscribers, Publishers
<1>4. \A i, b : ~Named(i, b)
  <2>1. n_boxes = 0 /\ 0..(0 - 1) = {}
    BY DEF BrokerInit
  <2> QED
    BY <2>1 DEF Named
<1>5. \A b, f : ~FileIs(b, f)
  BY DEF BrokerInit, FSInit, FileIs, Matches, EmptySlot
<1>6. NoBlockLost
  <2>1. ROOT_DIR_INUM \in Inums /\ BlockSize > 0
    BY TFSAssumption DEF ROOT_DIR_INUM, Inums
  <2> QED
    BY <2>1 DEF BrokerInit, FSInit, NoBlockLost, HasBlock, Size
<1>7. NamesProper /\ SizesCounted /\ NoBoxNoBytes
  BY <1>4, <1>5 DEF NamesProper, SizesCounted, NoBoxNoBytes
<1> QED
  BY <1>1, <1>3, <1>6, <1>7 DEF SizesIInv, FilesIInv, Files

\* The bytes stored for a box are the text of its file.
LEMMA StoredFacts ==
  ASSUME Sound, NEW b, NEW f, FileIs(b, f)
  PROVE  /\ Stored(b) = Text(f)
         /\ Len(Text(f)) = Size(f) /\ Size(f) \in 0..BlockSize
<1>1. Matches(b) # {} /\ FileOf(b) = inode_table[f]
  <2>1. PICK d : d = CHOOSE s \in Matches(b) : TRUE
    OBVIOUS
  <2>2. d \in Matches(b)
    BY <2>1 DEF FileIs
  <2>3. dir_entry[d].d_inumber = f
    BY <2>2, FileFacts DEF FileIs, Sound
  <2> QED
    BY <2>1, <2>2, <2>3 DEF FileOf
<1>2. Size(f) \in 0..BlockSize /\ Len(Text(f)) = Size(f)
  BY FileFacts, SoundFS, TextFacts DEF Sound
<1>3. PICK n \in 0..BlockSize : n = Size(f)
  BY <1>2
<1>4. CASE n = 0
  <2>1. Stored(b) = <<>>
    BY <1>1, <1>3, <1>4 DEF Stored, Size
  <2>2. 1..0 = {} /\ <<>> = [k \in {} |-> 0]
    OBVIOUS
  <2>3. Text(f) = [k \in {} |-> 0]
    BY <1>3, <1>4, <2>2 DEF Text
  <2> QED
    BY <1>2, <2>1, <2>2, <2>3
<1>5. CASE n # 0
  <2>1. PICK block : block = fs_data[inode_table[f].i_data_block]
    OBVIOUS
  <2>2. PICK cells : cells = [k \in 1..BlockSize |-> block[k - 1]]
    OBVIOUS
  <2>3. Stored(b) = SubSeq(cells, 1, n)
    BY <1>1, <1>3, <1>5, <2>1, <2>2 DEF Stored, Size
  <2>4. SubSeq(cells, 1, n) = [k \in 1..n |-> cells[k]]
    BY <1>3
  <2>5. Stored(b) = [k \in 1..n |-> block[k - 1]]
    BY <1>3, <2>2, <2>3, <2>4, TFSAssumption
  <2>6. Text(f) = [k \in 1..n |-> block[k - 1]]
    BY <1>3, <2>1 DEF Text
  <2> QED
    BY <1>2, <2>5, <2>6
<1> QED
  BY <1>4, <1>5

\* Until the first removal, and as long as no publisher went without a handle, the
\* box_size of a box whose mutex is free is the number of bytes of messages in its
\* file, when publishers and managers take turns: tfs_write fails for no lack of a
\* block, and wherever a publisher writes, it is at the end of the file.
THEOREM BoxSizesAgree ==
  ASSUME ManagersTakeTurns, PublishersTakeTurns, RoomForFiles
  PROVE  BrokerSpec => [](NoRemovalYet /\ WritersHaveHandles => BoxSizeAgrees)
<1>1. SizesIInv => (NoRemovalYet /\ WritersHaveHandles => BoxSizeAgrees)
  <2> SUFFICES ASSUME SizesIInv, NoRemovalYet, WritersHaveHandles,
                      NEW i \in 0..(n_boxes - 1), NEW b, b = boxes[i].box_name,
                      box_mutexes[i] = NoSession, Len(Stored(b)) < BlockSize
               PROVE  boxes[i].box_size
                        = Len(Stored(b)) - Cardinality({k \in 1..Len(Stored(b)) : Stored(b)[k] = NUL})
    BY DEF BoxSizeAgrees
  <2>1. Sound /\ Agreement /\ Count /\ Files /\ SizesCounted
    BY DEF SizesIInv, FilesIInv, CountIInv, AgreeIInv
  <2>2. Named(i, b) /\ b \in Names
    BY <2>1 DEF Named, Files, NamesProper
  <2>3. PICK f : FileIs(b, f)
    BY <2>1, <2>2, EveryBoxHasFile, RegistryNames, FileFacts DEF Sound, HasFile
  <2>4. \A x : ~Terminating(x, b)
    <3>1. ASSUME NEW x \in Publishers, Request[x].box = b, pc[x] = "pubTerminate"
          PROVE  FALSE
      <4>1. x \in Sessions /\ box_mutexes[Index(x)] = x
        BY <2>1, <3>1 DEF Files, MutexesHeld, HoldingPcs, Publishers
      <4>2. Index(x) = i
        BY <2>1, <2>2, <3>1 DEF Count, IndexesRight, Located, Agreement, NamesDiffer
      <4> QED
        BY <4>1, <4>2, BrokerAssumption
    <3> QED
      BY <3>1 DEF Terminating
  <2>5. CountedAt(i, b, f)
    BY <2>1, <2>2, <2>3 DEF SizesCounted
  <2>6. /\ Len(Stored(b)) = Size(f)
        /\ {k \in 1..Len(Stored(b)) : Stored(b)[k] = NUL} = Nuls(f)
    BY <2>1, <2>3, StoredFacts DEF Nuls
  <2> QED
    BY <2>4, <2>5, <2>6 DEF CountedAt, TextSize
<1> QED
  BY <1>1, FilesInit, SizesStep, PTL DEF BrokerSpec
-----------------------------------------------------------------------------
(* The log of a box, in the bytes of its file.                             *)

\* e[k] is where message k of the log ends in a text: the messages stand one after the
\* other, each before its terminator, and there is no terminator after the last.
Cut(text, log, e) ==
  /\ e \in [Nat -> Nat] /\ e[0] = 0
  /\ \A k \in 1..Len(log) :
       /\ e[k] = e[k - 1] + Len(log[k]) + 1 /\ e[k] <= Len(text) /\ text[e[k]] = NUL
       /\ \A j \in 1..Len(log[k]) : text[e[k - 1] + j] = log[k][j]
  /\ e[Len(log)] <= Len(text)
  /\ \A j \in 1..Len(text) : j > e[Len(log)] => text[j] # NUL

\* After its first n bytes, a text is one message m.
IsTail(text, n, m) == Len(text) = n + Len(m) /\ \A j \in 1..Len(m) : text[n + j] = m[j]

\* A log that begins with another, and is cut where the other is.
GoesOn(log, log2, e, e2) ==
  /\ Len(log) <= Len(log2) /\ \A k \in 1..Len(log) : log2[k] = log[k]
  /\ \A k \in 0..Len(log) : e2[k] = e[k]

\* The text ends where the longer log does.
IsLonger(text2, log, log2, e) ==
  \E e2 \in [Nat -> Nat] : Cut(text2, log2, e2) /\ GoesOn(log, log2, e, e2) /\ e2[Len(log2)] = Len(text2)

\* Who has read so many bytes of a text has got the first messages of the log, and has
\* read part of the next one.
Place(text, log, e, got, part, read) ==
  /\ Len(got) <= Len(log) /\ \A k \in 1..Len(got) : got[k] = log[k]
  /\ read = e[Len(got)] + Len(part) /\ read <= Len(text)
  /\ \A j \in 1..Len(part) : text[e[Len(got)] + j] = part[j]

\* A message has been written and its terminator has not.
Pending(s, b) == Request[s].box = b /\ pc[s] = "pubTerminate" /\ Handle(s) # -1

\* What stands after the log, as long as the file has room.
Ended(b, text, log, e) ==
  Len(text) < BlockSize =>
    /\ (\A s \in Publishers : ~Pending(s, b)) => IsTail(text, e[Len(log)], <<>>)
    /\ \A s \in Publishers : Pending(s, b) => IsTail(text, e[Len(log)], Head(inbox[s]))

ReadingPcs == {"subFind", "subFindRefused"} \cup SubscriberLocated
Reading(s) == pc[s] \in ReadingPcs /\ Handle(s) # -1
Offset(s)  == open_file_table[Handle(s)].of_offset

\* A subscriber is sent the messages from the first on; char_buffer is the last byte read.
ReaderAt(s, text, log, e) ==
  /\ pc[s] # "deliver" => Place(text, log, e, received[s], frame[s].buffer, Offset(s))
  /\ pc[s] = "deliver" => /\ Place(text, log, e, received[s], frame[s].buffer, Offset(s) - 1)
                          /\ Offset(s) \in 1..Len(text)
                          /\ frame[s].char_buffer = text[Offset(s)]
                          /\ frame[s].char_buffer \in Bytes

LogAt(b, text, log, e) ==
  /\ Cut(text, log, e) /\ Ended(b, text, log, e)
  /\ \A s \in Subscribers : Request[s].box = b /\ Reading(s) => ReaderAt(s, text, log, e)

LogsKept ==
  \A b, f, text, log : FileIs(b, f) /\ text = Text(f) /\ log = published[b] => \E e : LogAt(b, text, log, e)

NoFileNoLog == \A b \in Names : ~HasFile(b) => published[b] = <<>>

ComingPcs == {"none", "register", "subOpen", "subOpenRefused"}
Newcomers == \A s \in Subscribers : pc[s] \in ComingPcs => received[s] = <<>> /\ frame[s].buffer = <<>>

Logs == LogsKept /\ NoFileNoLog /\ Newcomers

InboxesFilled == \A s \in Sessions : \A k \in 1..Len(inbox[s]) : inbox[s][k] \in Texts

LogIInv ==
  /\ FilesIInv /\ InboxesFilled
  /\ NoRemovalYet /\ ~exited => Logs

\* Texts, logs and places as values.
LEMMA MessageFacts ==
  ASSUME NEW m \in Message
  PROVE  /\ m \in Seq(Bytes) /\ Len(m) \in Nat
         /\ \A j \in 1..Len(m) : m[j] \in Bytes /\ m[j] # NUL
BY DEF Message

LEMMA LenNat ==
  ASSUME NEW S, NEW s \in Seq(S)
  PROVE  Len(s) \in Nat
OBVIOUS

LEMMA SameMessage ==
  ASSUME NEW m \in Message, NEW m2 \in Message, Len(m) = Len(m2), \A j \in 1..Len(m) : m[j] = m2[j]
  PROVE  m = m2
<1>1. PICK n \in Nat : n = Len(m) /\ n = Len(m2)
  BY MessageFacts
<1>2. m = [j \in 1..n |-> m[j]] /\ m2 = [j \in 1..n |-> m2[j]]
  BY <1>1 DEF Message
<1> QED
  BY <1>1, <1>2

LEMMA NextMessage ==
  ASSUME NEW text \in Seq(Bytes), NEW log \in Seq(Message), NEW e, Cut(text, log, e), NEW got \in Seq(Message),
         NEW part \in Message, NEW read \in Nat, Place(text, log, e, got, part, read),
         read + 1 \in 1..Len(text), text[read + 1] = NUL
  PROVE  /\ Len(got) < Len(log) /\ part = log[Len(got) + 1]
         /\ Place(text, log, e, Append(got, part), <<>>, read + 1)
<1>1. PICK k \in Nat, n \in Nat, p \in Nat, size \in Nat :
        k = Len(got) /\ n = Len(log) /\ p = Len(part) /\ size = Len(text)
  BY MessageFacts
<1>2. /\ k <= n /\ read = e[k] + p /\ e \in [Nat -> Nat]
      /\ \A j \in 1..p : text[e[k] + j] = part[j]
  BY <1>1 DEF Place, Cut
<1>3. PICK end \in Nat : end = e[k]
  BY <1>1, <1>2
<1>4. k < n
  <2> SUFFICES ASSUME k = n PROVE FALSE
    BY <1>1, <1>2
  <2>1. read + 1 \in 1..size /\ read + 1 > e[n]
    BY <1>1, <1>2, <1>3
  <2> QED
    BY <1>1, <2>1 DEF Cut
<1>5. PICK next \in 1..n : next = k + 1 /\ next - 1 = k
  BY <1>1, <1>4
<1>6. PICK message \in Message, len \in Nat : message = log[next] /\ len = Len(message)
  <2>1. log[next] \in Message
    BY <1>1, <1>5
  <2> QED
    BY <2>1, MessageFacts
<1>7. /\ e[next] = end + len + 1 /\ e[next] <= size /\ text[end + len + 1] = NUL
      /\ \A j \in 1..len : text[end + j] = message[j]
  <2>1. /\ e[next] = e[next - 1] + Len(log[next]) + 1 /\ e[next] <= size /\ text[e[next]] = NUL
        /\ \A j \in 1..Len(log[next]) : text[e[next - 1] + j] = log[next][j]
    BY <1>1 DEF Cut
  <2>2. e[next - 1] = end
    BY <1>3, <1>5
  <2> QED
    BY <1>6, <2>1, <2>2
<1>8. \A m \in Message : \A j \in 1..Len(m) : m[j] # NUL
  BY MessageFacts
<1>9. len = p
  <2>1. CASE p < len
    <3>1. p + 1 \in 1..len /\ end + (p + 1) = read + 1
      BY <1>2, <1>3, <2>1
    <3> QED
      BY <1>6, <1>7, <1>8, <3>1
  <2>2. CASE len < p
    <3>1. len + 1 \in 1..p /\ end + (len + 1) = end + len + 1
      BY <1>3, <2>2
    <3>2. part[len + 1] = NUL
      BY <1>2, <1>3, <1>7, <3>1
    <3> QED
      BY <1>1, <1>8, <3>1, <3>2
  <2> QED
    BY <2>1, <2>2
<1>10. part = message
  <2>1. \A j \in 1..p : part[j] = message[j]
    BY <1>2, <1>3, <1>7, <1>9
  <2> QED
    BY <1>1, <1>6, <1>9, <2>1, SameMessage
<1>11. PICK got2 : got2 = Append(got, part)
  OBVIOUS
<1>12. Len(got2) = next /\ \A j \in 1..next : got2[j] = log[j]
  <2>1. /\ Len(got2) = k + 1 /\ got2[k + 1] = part
        /\ \A j \in 1..k : got2[j] = got[j]
    BY <1>1, <1>11
  <2>2. \A j \in 1..k : got[j] = log[j]
    BY <1>1 DEF Place
  <2>3. \A j \in 1..next : j = k + 1 \/ j \in 1..k
    BY <1>5
  <2> QED
    BY <1>5, <1>6, <1>10, <2>1, <2>2, <2>3
<1>13. read + 1 = e[next] + 0 /\ read + 1 <= size /\ next <= n
  BY <1>1, <1>2, <1>3, <1>5, <1>7, <1>9
<1>14. Place(text, log, e, got2, <<>>, read + 1)
  <2>1. Len(<<>>) = 0 /\ 1..0 = {}
    OBVIOUS
  <2> QED
    BY <1>1, <1>12, <1>13, <2>1 DEF Place
<1> QED
  BY <1>1, <1>4, <1>5, <1>6, <1>10, <1>11, <1>14

LEMMA NextByte ==
  ASSUME NEW text \in Seq(Bytes), NEW log \in Seq(Message), NEW e, Cut(text, log, e), NEW got \in Seq(Message),
         NEW part \in Message, NEW read \in Nat, Place(text, log, e, got, part, read),
         read + 1 \in 1..Len(text), text[read + 1] # NUL
  PROVE  Place(text, log, e, got, Append(part, text[read + 1]), read + 1)
<1>1. PICK k \in Nat, p \in Nat, size \in Nat : k = Len(got) /\ p = Len(part) /\ size = Len(text)
  BY MessageFacts
<1>2. /\ read = e[k] + p /\ e \in [Nat -> Nat]
      /\ \A j \in 1..p : text[e[k] + j] = part[j]
  BY <1>1 DEF Place, Cut
<1>3. PICK end \in Nat : end = e[k]
  BY <1>1, <1>2
<1>4. PICK part2 : part2 = Append(part, text[read + 1])
  OBVIOUS
<1>5. /\ Len(part2) = p + 1 /\ part2[p + 1] = text[read + 1]
      /\ \A j \in 1..p : part2[j] = part[j]
  BY <1>1, <1>4, MessageFacts
<1>6. \A j \in 1..(p + 1) : j = p + 1 \/ j \in 1..p
  BY <1>1
<1>7. end + (p + 1) = read + 1
  BY <1>2, <1>3
<1>8. \A j \in 1..(p + 1) : text[end + j] = part2[j]
  BY <1>2, <1>3, <1>5, <1>6, <1>7
<1>9. read + 1 <= size
  BY <1>1
<1>10. Len(got) <= Len(log) /\ \A j \in 1..Len(got) : got[j] = log[j]
  BY DEF Place
<1>11. Place(text, log, e, got, part2, read + 1)
  BY <1>1, <1>3, <1>5, <1>7, <1>8, <1>9, <1>10 DEF Place
<1> QED
  BY <1>4, <1>11

\* Bytes of a message, after the end of the text.
LEMMA CutExtended ==
  ASSUME NEW text \in Seq(Bytes), NEW text2 \in Seq(Bytes), NEW log \in Seq(Message), NEW e, Cut(text, log, e),
         NEW buffer \in Message, NEW n, IsExtended(text, text2, buffer, n)
  PROVE  Cut(text2, log, e)
<1>1. PICK size \in Nat, len \in Nat, new \in Nat, top \in Nat :
        size = Len(text) /\ len = Len(buffer) /\ new = Len(text2) /\ top = Len(log)
  BY MessageFacts
<1>2. /\ n \in 0..len /\ new = size + n
      /\ \A k \in 1..size : text2[k] = text[k]
      /\ \A k \in 1..n : text2[size + k] = buffer[k]
  BY <1>1 DEF IsExtended
<1>3. e \in [Nat -> Nat] /\ e[0] = 0
  BY DEF Cut
<1>4. ASSUME NEW k \in 1..top
      PROVE  /\ e[k] = e[k - 1] + Len(log[k]) + 1 /\ e[k] <= new /\ text2[e[k]] = NUL
             /\ \A j \in 1..Len(log[k]) : text2[e[k - 1] + j] = log[k][j]
  <2>1. PICK m \in Nat, a \in Nat, b \in Nat : m = Len(log[k]) /\ a = e[k - 1] /\ b = e[k]
    <3>1. k \in Nat /\ k - 1 \in Nat /\ log[k] \in Message
      BY <1>1
    <3> QED
      BY <1>3, <3>1, MessageFacts
  <2>2. /\ b = a + m + 1 /\ b <= size /\ text[b] = NUL
        /\ \A j \in 1..m : text[a + j] = log[k][j]
    BY <1>1, <2>1 DEF Cut
  <2>3. b \in 1..size /\ b <= new /\ \A j \in 1..m : a + j \in 1..size
    BY <1>2, <2>2
  <2> QED
    BY <1>2, <2>1, <2>2, <2>3
<1>5. e[top] \in Nat /\ e[top] <= size /\ e[top] <= new
  BY <1>1, <1>2, <1>3 DEF Cut
<1>6. ASSUME NEW j \in 1..new, j > e[top]
      PROVE  text2[j] # NUL
  <2>1. CASE j \in 1..size
    BY <1>1, <1>2, <1>6, <2>1 DEF Cut
  <2>2. CASE j \notin 1..size
    <3>1. j - size \in 1..n /\ size + (j - size) = j /\ j - size \in 1..len
      BY <1>2, <2>2
    <3>2. text2[j] = buffer[j - size]
      BY <1>2, <3>1
    <3>3. buffer[j - size] # NUL
      BY <1>1, <3>1, MessageFacts
    <3> QED
      BY <3>2, <3>3
  <2> QED
    BY <2>1, <2>2
<1> QED
  BY <1>1, <1>3, <1>4, <1>5, <1>6 DEF Cut

LEMMA PlaceKept ==
  ASSUME NEW text \in Seq(Bytes), NEW text2 \in Seq(Bytes), NEW log \in Seq(Message), NEW log2 \in Seq(Message),
         NEW e \in [Nat -> Nat], NEW e2 \in [Nat -> Nat],
         Len(text) <= Len(text2), \A k \in 1..Len(text) : text2[k] = text[k],
         GoesOn(log, log2, e, e2), NEW got \in Seq(Message), NEW part \in Message, NEW read \in Nat,
         Place(text, log, e, got, part, read)
  PROVE  Place(text2, log2, e2, got, part, read)
<1>1. PICK k \in Nat, p \in Nat, size \in Nat, new \in Nat, n \in Nat, n2 \in Nat :
        /\ k = Len(got) /\ p = Len(part) /\ size = Len(text) /\ new = Len(text2)
        /\ n = Len(log) /\ n2 = Len(log2)
  <2>1. Len(text) \in Nat /\ Len(text2) \in Nat
    BY LenNat
  <2>2. Len(got) \in Nat /\ Len(log) \in Nat /\ Len(log2) \in Nat
    BY LenNat
  <2>3. Len(part) \in Nat
    BY MessageFacts
  <2> QED
    BY <2>1, <2>2, <2>3
<1>2. /\ n <= n2 /\ \A j \in 1..n : log2[j] = log[j]
      /\ \A j \in 0..n : e2[j] = e[j]
  BY <1>1 DEF GoesOn
<1>3. PICK end \in Nat : end = e[k]
  BY <1>1
<1>4. /\ k <= n /\ \A j \in 1..k : got[j] = log[j]
      /\ read = end + p /\ read <= size
      /\ \A j \in 1..p : text[end + j] = part[j]
  BY <1>1, <1>3 DEF Place
<1>5. e2[k] = end
  <2>1. k \in 0..n
    BY <1>4
  <2> QED
    BY <1>2, <1>3, <2>1
<1>6. k <= n2 /\ \A j \in 1..k : got[j] = log2[j]
  <2>1. n <= n2 /\ \A j \in 1..n : log2[j] = log[j]
    BY <1>2
  <2>2. k <= n
    BY <1>4
  <2>3. k <= n2
    BY <2>1, <2>2
  <2>4. \A j \in 1..k : j \in 1..n
    BY <2>2
  <2> QED
    BY <1>4, <2>1, <2>3, <2>4
<1>7. \A j \in 1..p : text2[end + j] = part[j]
  <2>1. \A j \in 1..p : end + j \in 1..size
    BY <1>4
  <2> QED
    BY <1>1, <1>4, <2>1
<1>8. read <= new
  BY <1>1, <1>4
<1> QED
  BY <1>1, <1>4, <1>5, <1>6, <1>7, <1>8 DEF Place

\* A message after the log, and then its terminator.
LEMMA TailWritten ==
  ASSUME NEW text \in Seq(Bytes), NEW text2 \in Seq(Bytes), NEW n \in Nat, NEW m \in Message,
         IsTail(text, n, <<>>), IsExtended(text, text2, m, Len(m))
  PROVE  IsTail(text2, n, m)
<1>1. PICK size \in Nat, len \in Nat : size = Len(text) /\ len = Len(m)
  BY MessageFacts, LenNat
<1>2. n = size
  BY <1>1 DEF IsTail
<1> QED
  BY <1>1, <1>2 DEF IsTail, IsExtended

LEMMA CutTerminated ==
  ASSUME NEW text \in Seq(Bytes), NEW text2 \in Seq(Bytes), NEW log \in Seq(Message), NEW e, Cut(text, log, e),
         NEW m \in Message, IsTail(text, e[Len(log)], m), IsExtended(text, text2, <<NUL>>, 1),
         NEW log2, log2 = Append(log, m)
  PROVE  IsLonger(text2, log, log2, e)
<1>1. PICK size \in Nat, len \in Nat, top \in Nat : size = Len(text) /\ len = Len(m) /\ top = Len(log)
  BY MessageFacts, LenNat
<1>2. Len(text2) = size + 1 /\ text2[size + 1] = NUL /\ \A k \in 1..size : text2[k] = text[k]
  <2>1. /\ Len(text2) = size + 1 /\ \A k \in 1..size : text2[k] = text[k]
        /\ \A k \in 1..1 : text2[size + k] = <<NUL>>[k]
    BY <1>1 DEF IsExtended
  <2>2. 1 \in 1..1 /\ <<NUL>>[1] = NUL
    OBVIOUS
  <2> QED
    BY <2>1, <2>2
<1>3. e \in [Nat -> Nat] /\ e[0] = 0
  BY DEF Cut
<1>4. PICK end \in Nat : end = e[top]
  BY <1>1, <1>3
<1>5. size = end + len /\ \A j \in 1..len : text[end + j] = m[j]
  BY <1>1, <1>4 DEF IsTail
<1>6. PICK log3 : log3 = Append(log, m)
  OBVIOUS
<1>7. /\ Len(log3) = top + 1 /\ log3[top + 1] = m
      /\ \A k \in 1..top : log3[k] = log[k]
  BY <1>1, <1>6
<1>8. PICK next \in Nat, new \in Nat : next = top + 1 /\ new = size + 1
  BY <1>1
<1>9. PICK e2 : e2 = [e EXCEPT ![next] = new]
  OBVIOUS
<1>10. e2 \in [Nat -> Nat]
  BY <1>3, <1>9
<1>11. e2[top + 1] = size + 1 /\ \A k \in 0..top : e2[k] = e[k]
  <2>1. \A k \in 0..top : k # next /\ k \in Nat
    BY <1>8
  <2>2. \A k \in Nat : e2[k] = IF k = next THEN new ELSE e[k]
    BY <1>3, <1>9
  <2> QED
    BY <1>8, <2>1, <2>2
<1>12. ASSUME NEW k \in 1..(top + 1)
       PROVE  /\ e2[k] = e2[k - 1] + Len(log3[k]) + 1 /\ e2[k] <= size + 1 /\ text2[e2[k]] = NUL
              /\ \A j \in 1..Len(log3[k]) : text2[e2[k - 1] + j] = log3[k][j]
  <2>1. CASE k \in 1..top
    <3>1. k - 1 \in 0..top /\ k \in 0..top /\ k - 1 \in Nat /\ k \in Nat
      BY <2>1
    <3>2. PICK a \in Nat, b \in Nat, n \in Nat : a = e[k - 1] /\ b = e[k] /\ n = Len(log[k])
      <4>1. log[k] \in Message
        BY <1>1, <2>1
      <4> QED
        BY <1>3, <3>1, <4>1, MessageFacts
    <3>3. /\ b = a + n + 1 /\ b <= size /\ text[b] = NUL
          /\ \A j \in 1..n : text[a + j] = log[k][j]
      BY <1>1, <2>1, <3>2 DEF Cut
    <3>4. b \in 1..size /\ b <= size + 1 /\ \A j \in 1..n : a + j \in 1..size
      BY <3>3
    <3>5. e2[k] = b /\ e2[k - 1] = a /\ log3[k] = log[k]
      BY <1>7, <1>11, <2>1, <3>1, <3>2
    <3> QED
      BY <1>2, <3>2, <3>3, <3>4, <3>5
  <2>2. CASE k = top + 1
    <3>1. k - 1 = top /\ top \in 0..top
      BY <2>2
    <3>2. e2[k] = size + 1 /\ e2[k - 1] = end /\ log3[k] = m
      BY <1>4, <1>7, <1>11, <2>2, <3>1
    <3>3. \A j \in 1..len : end + j \in 1..size
      BY <1>5
    <3>4. \A j \in 1..len : text2[end + j] = m[j]
      BY <1>2, <1>5, <3>3
    <3>5. size + 1 = end + len + 1
      BY <1>5
    <3> QED
      BY <1>1, <1>2, <3>2, <3>4, <3>5
  <2> QED
    BY <2>1, <2>2
<1>13. ASSUME NEW j \in 1..(size + 1), j > size + 1
       PROVE  text2[j] # NUL
  BY <1>13
<1>14. Cut(text2, log3, e2)
  <2>1. e2[0] = 0
    <3>1. 0 \in 0..top
      BY <1>1
    <3> QED
      BY <1>3, <1>11, <3>1
  <2>2. e2[Len(log3)] = size + 1 /\ e2[Len(log3)] <= Len(text2)
    BY <1>2, <1>7, <1>11
  <2>3. ASSUME NEW j \in 1..Len(text2), j > e2[Len(log3)]
        PROVE  text2[j] # NUL
    BY <1>2, <1>13, <2>2, <2>3
  <2>4. ASSUME NEW k \in 1..Len(log3)
        PROVE  /\ e2[k] = e2[k - 1] + Len(log3[k]) + 1 /\ e2[k] <= Len(text2) /\ text2[e2[k]] = NUL
               /\ \A j \in 1..Len(log3[k]) : text2[e2[k - 1] + j] = log3[k][j]
    <3>1. k \in 1..(top + 1)
      BY <1>7
    <3> QED
      BY <1>2, <1>12, <3>1
  <2> QED
    BY <1>10, <2>1, <2>2, <2>3, <2>4 DEF Cut
<1>15. GoesOn(log, log3, e, e2)
  <2>1. \A k \in 1..Len(log) : log3[k] = log[k]
    BY <1>1, <1>7
  <2>2. \A k \in 0..Len(log) : e2[k] = e[k]
    BY <1>1, <1>11
  <2>3. top <= top + 1
    BY <1>1
  <2> QED
    BY <1>1, <1>7, <2>1, <2>2, <2>3 DEF GoesOn
<1>16. e2[Len(log3)] = Len(text2)
  BY <1>2, <1>7, <1>11
<1>17. log3 = log2
  BY <1>6
<1> QED
  BY <1>10, <1>14, <1>15, <1>16, <1>17 DEF IsLonger

LEMMA NothingRead ==
  ASSUME NEW text \in Seq(Bytes), NEW log \in Seq(Message), NEW e, Cut(text, log, e)
  PROVE  Place(text, log, e, <<>>, <<>>, 0)
<1>1. Len(<<>>) = 0 /\ 1..0 = {}
  OBVIOUS
<1>2. Len(text) \in Nat /\ Len(log) \in Nat /\ e[0] = 0
  BY LenNat DEF Cut
<1>3. 0 = e[0] + 0 /\ 0 <= Len(text) /\ 0 <= Len(log)
  BY <1>2
<1> QED
  BY <1>1, <1>3 DEF Place
-----------------------------------------------------------------------------
(* The steps of a subscriber that reads.                                   *)

LEMMA TextTypes ==
  ASSUME Sound, NoBlockLost, NEW f \in takenInodes \ {ROOT_DIR_INUM}
  PROVE  Text(f) \in Seq(Bytes) /\ Len(Text(f)) = Size(f) /\ Size(f) \in 0..BlockSize
<1>1. IInv /\ FSTypeOK /\ BlocksOwned
  BY SoundFS DEF Sound, BrokerTypeOK
<1>2. Size(f) \in 0..BlockSize /\ Len(Text(f)) = Size(f)
  BY <1>1, TextFacts
<1>3. PICK n \in 0..BlockSize : n = Size(f)
  BY <1>2
<1>4. PICK block : block = inode_table[f].i_data_block
  OBVIOUS
<1>5. n = Size(f) /\ block = inode_table[f].i_data_block
  BY <1>3, <1>4
<1>6. Text(f) = [k \in 1..n |-> fs_data[block][k - 1]]
  BY <1>5 DEF Text
<1>7. ASSUME NEW k \in 1..n
      PROVE  fs_data[block][k - 1] \in Bytes
  <2>1. HasBlock(ROOT_DIR_INUM, 0) /\ HasBlock(f, block)
    BY <1>5, <1>7, TFSAssumption DEF NoBlockLost, HasBlock
  <2>2. block \in DataBlocks
    BY <1>1, <1>5, <2>1 DEF BlocksOwned, HasBlock, DataBlocks, FSTypeOK, Inode, Size, Sound,
                            DirectoryConsistent
  <2>3. k - 1 \in Cells
    BY <1>5, TFSAssumption DEF Cells
  <2> QED
    BY <1>1, <2>2, <2>3 DEF FSTypeOK
<1> QED
  BY <1>2, <1>5, <1>6, <1>7, TFSAssumption

\* What a reader has, as values.
LEMMA ReaderFacts ==
  ASSUME Sound, HandlesOwned, NEW t \in Subscribers, Reading(t), NEW f, FileIs(Request[t].box, f)
  PROVE  /\ t \in Sessions /\ t \in Owners /\ Handle(t) \in OpenHandles
         /\ f = open_file_table[Handle(t)].of_inumber /\ f \in takenInodes \ {ROOT_DIR_INUM}
         /\ received[t] \in Seq(Message) /\ frame[t].buffer \in Message /\ Offset(t) \in Nat
<1>1. t \in Sessions /\ pc[t] \notin Over /\ Handle(t) # -1
  BY DEF Subscribers, Reading, ReadingPcs, SubscriberLocated, Over
<1>2. /\ t \in Owners /\ Handle(t) \in OpenHandles
      /\ FileIs(Request[t].box, open_file_table[Handle(t)].of_inumber)
  BY <1>1, OwnFile
<1>3. f = open_file_table[Handle(t)].of_inumber /\ f \in takenInodes \ {ROOT_DIR_INUM}
  BY <1>2, FileFacts DEF Sound
<1>4. received[t] \in Seq(Message) /\ frame[t].buffer \in Message
  BY <1>1 DEF Sound, BrokerTypeOK
<1>5. Offset(t) \in Nat
  BY <1>2, TFSAssumption DEF Sound, BrokerTypeOK, FSTypeOK, OpenHandles, OpenFile, Offset,
          Offsets, PastBlock, FreeEntry
<1> QED
  BY <1>1, <1>2, <1>3, <1>4, <1>5

\* A reader that reads nothing and is sent nothing.
LEMMA ReaderKept ==
  ASSUME NEW t, NEW text, NEW log, NEW e, ReaderAt(t, text, log, e),
         pc'[t] = pc[t] \/ (pc'[t] # "deliver" /\ pc[t] # "deliver"),
         received'[t] = received[t], frame'[t].buffer = frame[t].buffer,
         frame'[t].char_buffer = frame[t].char_buffer, Offset(t)' = Offset(t)
  PROVE  ReaderAt(t, text, log, e)'
BY DEF ReaderAt

LEMMA ByteArrives ==
  ASSUME Sound, HandlesOwned, NEW t \in Subscribers, Reading(t), NEW f, FileIs(Request[t].box, f),
         NEW text, text = Text(f), NEW log, NEW e, ReaderAt(t, text, log, e), Len(text) = Size(f), SubRead(t)
  PROVE  ReaderAt(t, text, log, e)'
<1>1. /\ t \in Sessions /\ Handle(t) \in OpenHandles /\ f = open_file_table[Handle(t)].of_inumber
      /\ Offset(t) \in Nat
  BY ReaderFacts
<1>2. PICK h : h = Handle(t)
  OBVIOUS
<1>3. PICK off \in Nat : off = Offset(t)
  BY <1>1
<1>4. h = Handle(t) /\ off = Offset(t)
  BY <1>2, <1>3
<1>5. /\ pc[t] = "subRead" /\ pc \in [Sessions -> Steps] /\ UNCHANGED received
      /\ frame \in [Sessions -> [box_index : Indices \cup {-1}, box_handle : Handles \cup {-1},
                                 char_buffer : Bytes \cup {Unset}, buffer : Message]]
  BY DEF SubRead, clients, Sound, BrokerTypeOK
<1>6. Place(text, log, e, received[t], frame[t].buffer, off)
  BY <1>4, <1>5 DEF ReaderAt
<1> DEFINE Arrives == \E byte \in Bytes : /\ Copied(h, <<byte>>)
                                          /\ frame' = [frame EXCEPT ![t].char_buffer = byte]
<1> HIDE DEF Arrives
<1>7. PICK ret \in {-1, 0, 1} :
        /\ tfs_read(h, 1, ret)
        /\ \/ ret = 0 /\ Goto(t, "subRead", "asleep") /\ UNCHANGED frame
           \/ ret = -1
           \/ ret = 1 /\ Goto(t, "subRead", "deliver") /\ Arrives
  BY <1>4 DEF SubRead, Arrives
<1>8. \/ ret = 0 /\ UNCHANGED fsVars
      \/ /\ ret = 1 /\ off + 1 \in 1..Size(f) /\ open_file_table'[h].of_offset = off + 1
         /\ \A byte : Copied(h, <<byte>>) => byte = text[off + 1]
  <2>1. IInv /\ OffsetsInside
    BY SoundFS DEF HandlesOwned
  <2>2. /\ h \in OpenHandles /\ f = open_file_table[h].of_inumber
        /\ open_file_table[h].of_offset = off
    BY <1>1, <1>4 DEF Offset
  <2> QED
    BY <1>7, <2>1, <2>2, ByteRead
<1>9. CASE ret = 0
  <2>1. UNCHANGED fsVars /\ UNCHANGED frame /\ pc'[t] = "asleep"
    BY <1>1, <1>5, <1>7, <1>8, <1>9 DEF Goto
  <2>2. Offset(t)' = Offset(t)
    BY <2>1 DEF Offset, Handle, fsVars
  <2> QED
    BY <1>5, <2>1, <2>2, ReaderKept
<1>10. CASE ret = 1
  <2>1. PICK byte \in Bytes : Copied(h, <<byte>>) /\ frame' = [frame EXCEPT ![t].char_buffer = byte]
    <3>1. Arrives
      BY <1>7, <1>10
    <3> QED
      BY <3>1 DEF Arrives
  <2>2. /\ frame'[t].char_buffer = byte /\ frame'[t].buffer = frame[t].buffer /\ Handle(t)' = h
        /\ byte = text[off + 1]
    BY <1>1, <1>4, <1>5, <1>8, <1>10, <2>1 DEF Handle
  <2>3. Offset(t)' = off + 1 /\ off + 1 \in 1..Len(text) /\ (off + 1) - 1 = off
    BY <1>8, <1>10, <2>2 DEF Offset
  <2>4. pc'[t] = "deliver"
    BY <1>1, <1>5, <1>7, <1>10 DEF Goto
  <2> QED
    BY <1>5, <1>6, <2>2, <2>3, <2>4 DEF ReaderAt
<1> QED
  BY <1>8, <1>9, <1>10

\* What a delivery is: the byte goes on to the message, or ends it.
LEMMA DeliverFacts ==
  ASSUME Sound, HandlesOwned, NEW t \in Subscribers, Deliver(t), ~exited', Reading(t),
         NEW f, FileIs(Request[t].box, f),
         NEW text \in Seq(Bytes), NEW log \in Seq(Message), NEW e, Cut(text, log, e), ReaderAt(t, text, log, e)
  PROVE  /\ \/ /\ received' = received
               /\ Place(text, log, e, received[t], frame'[t].buffer, Offset(t))
            \/ /\ received' = [received EXCEPT ![t] = Append(@, frame[t].buffer)]
               /\ Len(received[t]) < Len(log) /\ frame[t].buffer = log[Len(received[t]) + 1]
               /\ Place(text, log, e, received'[t], frame'[t].buffer, Offset(t))
         /\ pc'[t] = "loop" /\ Offset(t)' = Offset(t)
<1>1. /\ t \in Sessions /\ received[t] \in Seq(Message) /\ frame[t].buffer \in Message
      /\ Offset(t) \in Nat
  BY ReaderFacts
<1>2. /\ pc[t] = "deliver" /\ pc'[t] = "loop" /\ UNCHANGED fsVars
      /\ received \in [Sessions -> Seq(Message)]
      /\ frame \in [Sessions -> [box_index : Indices \cup {-1}, box_handle : Handles \cup {-1},
                                 char_buffer : Bytes \cup {Unset}, buffer : Message]]
  BY <1>1 DEF Deliver, Goto, Sound, BrokerTypeOK
<1>3. PICK got \in Seq(Message), part \in Message, off \in Nat :
        got = received[t] /\ part = frame[t].buffer /\ off = Offset(t)
  BY <1>1
<1>4. PICK c : c = frame[t].char_buffer
  OBVIOUS
<1>5. got = received[t] /\ part = frame[t].buffer /\ off = Offset(t) /\ c = frame[t].char_buffer
  BY <1>3, <1>4
<1>6. /\ Place(text, log, e, got, part, off - 1) /\ off \in 1..Len(text)
      /\ c = text[off] /\ c \in Bytes
  BY <1>2, <1>5 DEF ReaderAt
<1>7. PICK read \in Nat : read = off - 1 /\ read + 1 = off
  BY <1>5, <1>6
<1>8. /\ read + 1 = off /\ Place(text, log, e, got, part, read)
      /\ read + 1 \in 1..Len(text) /\ text[read + 1] = c
  BY <1>6, <1>7
<1>9. \/ /\ c = NUL
         /\ received' = [received EXCEPT ![t] = Append(@, frame[t].buffer)]
         /\ frame' = [frame EXCEPT ![t].buffer = <<>>]
      \/ /\ c # NUL
         /\ frame' = [frame EXCEPT ![t].buffer = Append(@, c)] /\ received' = received
  BY <1>5, <1>6, BrokerAssumption DEF Deliver
<1>10. Offset(t)' = Offset(t)
  BY <1>1, <1>2, <1>9 DEF Offset, Handle, fsVars
<1>11. CASE c = NUL
  <2>1. received'[t] = Append(got, part) /\ frame'[t].buffer = <<>>
    BY <1>1, <1>2, <1>5, <1>9, <1>11
  <2>2. /\ Len(got) < Len(log) /\ part = log[Len(got) + 1]
        /\ Place(text, log, e, Append(got, part), <<>>, read + 1)
    BY <1>6, <1>8, <1>11, NextMessage
  <2> QED
    BY <1>2, <1>5, <1>8, <1>9, <1>10, <1>11, <2>1, <2>2
<1>12. CASE c # NUL
  <2>1. received' = received /\ frame'[t].buffer = Append(part, c)
    BY <1>1, <1>2, <1>5, <1>9, <1>12
  <2>2. Place(text, log, e, got, Append(part, text[read + 1]), read + 1)
    BY <1>6, <1>8, <1>12, NextByte
  <2> QED
    BY <1>2, <1>5, <1>6, <1>8, <1>10, <2>1, <2>2
<1> QED
  BY <1>11, <1>12

\* Steps that a reader makes without reading or being sent anything.
LEMMA ReaderWaits ==
  ASSUME Sound, Agreement, SubscribersLocated, NEW t \in Subscribers,
         SubFind(t) \/ Loop(t) \/ SubLock(t) \/ Wake(t) \/ Refind(t) \/ SpuriousWake(t)
  PROVE  /\ UNCHANGED <<fsVars, received>> /\ frame'[t].buffer = frame[t].buffer
         /\ frame'[t].char_buffer = frame[t].char_buffer /\ Handle(t)' = Handle(t)
         /\ pc[t] \in ReadingPcs \ {"deliver"} /\ pc'[t] # "deliver"
         /\ pc[t] \in SubscriberLocated => pc'[t] \in SubscriberLocated
<1>1. /\ t \in Sessions /\ pc \in [Sessions -> Steps]
      /\ frame \in [Sessions -> [box_index : Indices \cup {-1}, box_handle : Handles \cup {-1},
                                 char_buffer : Bytes \cup {Unset}, buffer : Message]]
  BY DEF Subscribers, Sound, BrokerTypeOK
<1>2. CASE Loop(t) \/ Refind(t)
  <2>1. /\ pc[t] \in {"loop", "refind"}
        /\ Loop(t) => Find(t, "loop", "subEnd", "subLock")
        /\ Refind(t) => Find(t, "refind", "deliver", "subRead")
        /\ UNCHANGED fsVars /\ UNCHANGED received
    BY <1>2 DEF Loop, Refind, Find, Goto
  <2>2. find_box(Request[t].box) = Index(t) /\ Index(t) # -1
    <3>1. Named(Index(t), Request[t].box)
      BY <2>1 DEF SubscribersLocated, SubscriberLocated
    <3>2. n_boxes \in Nat
      BY BrokerAssumption DEF Sound, BrokerTypeOK
    <3> QED
      BY <3>1, <3>2, FoundWhereItIs DEF Named
  <2>3. PICK i : i = find_box(Request[t].box) /\ i # -1
    BY <2>2
  <2>4. /\ pc'[t] \in {"subLock", "subRead"}
        /\ frame' = [frame EXCEPT ![t].box_index = i]
    BY <1>1, <1>2, <2>1, <2>3 DEF Find, Goto
  <2> QED
    BY <1>1, <2>1, <2>4 DEF Handle, ReadingPcs, SubscriberLocated
<1>3. CASE SubFind(t)
  <2>1. PICK i : i = find_box(Request[t].box)
    OBVIOUS
  <2>2. /\ pc[t] \in {"subFind", "subFindRefused"} /\ pc'[t] \in {"done", "loop"}
        /\ frame' = [frame EXCEPT ![t].box_index = i] /\ UNCHANGED <<fsVars, received>>
    BY <1>1, <1>3, <2>1 DEF SubFind, Find, Goto
  <2> QED
    BY <1>1, <2>2 DEF Handle, ReadingPcs, SubscriberLocated
<1>4. CASE SubLock(t) \/ Wake(t) \/ SpuriousWake(t)
  <2>1. /\ pc[t] \in {"subLock", "asleep"} /\ pc'[t] \in {"subRead", "refind", "asleep"}
        /\ UNCHANGED frame /\ UNCHANGED <<fsVars, received>>
    BY <1>1, <1>4 DEF SubLock, Wake, SpuriousWake, Goto, clients
  <2> QED
    BY <2>1 DEF Handle, ReadingPcs, SubscriberLocated
<1> QED
  BY <1>2, <1>3, <1>4

\* What the other steps of a subscriber do to it.
LEMMA ReaderComes ==
  ASSUME Sound, HandlesOwned, BrokerNext, NEW t \in Subscribers,
         \/ Register(t) \/ SubOpen(t) \/ SubEnd(t) \/ ClientStep(t)
  PROVE  \/ UNCHANGED <<fsVars, received, frame, pc>>
         \/ /\ pc[t] \notin ReadingPcs /\ UNCHANGED received /\ frame'[t].buffer = frame[t].buffer
            /\ pc'[t] \in ReadingPcs => SubOpen(t) /\ pc'[t] \in {"subFind", "subFindRefused"}
            /\ pc[t] \notin ComingPcs => pc'[t] \notin ComingPcs \cup ReadingPcs
<1>1. /\ t \in Sessions /\ pc \in [Sessions -> Steps]
      /\ frame \in [Sessions -> [box_index : Indices \cup {-1}, box_handle : Handles \cup {-1},
                                 char_buffer : Bytes \cup {Unset}, buffer : Message]]
  BY DEF Subscribers, Sound, BrokerTypeOK
<1>2. Request[t].kind = "subscriber" /\ pc[t] \in SubscriberPcs
  BY <1>1, RequestFacts DEF Sound, StepsInKind
<1>3. CASE Register(t)
  <2>1. PICK i : i = find_box(Request[t].box)
    OBVIOUS
  <2>2. /\ pc[t] = "register" /\ pc'[t] \in {"subOpen", "subOpenRefused"}
        /\ frame' = [frame EXCEPT ![t].box_index = i] /\ UNCHANGED <<fsVars, received>>
    BY <1>1, <1>3, <2>1 DEF Register, Find, Goto, clients
  <2>3. ~SubOpen(t)
    BY <2>2 DEF SubOpen, Goto
  <2> QED
    BY <1>1, <2>2, <2>3 DEF ReadingPcs, SubscriberLocated, ComingPcs
<1>4. CASE SubOpen(t)
  <2>1. PICK ret : frame' = [frame EXCEPT ![t].box_handle = ret]
    BY <1>4 DEF SubOpen, OpenFileOfBox
  <2>2. /\ pc[t] \in {"subOpen", "subOpenRefused"} /\ pc'[t] \in {"subFind", "subFindRefused"}
        /\ UNCHANGED received
    BY <1>1, <1>4 DEF SubOpen, Goto, clients
  <2> QED
    BY <1>1, <1>4, <2>1, <2>2 DEF ReadingPcs, SubscriberLocated, ComingPcs
<1>5. CASE SubEnd(t)
  <2>1. pc[t] = "subEnd" /\ pc'[t] = "done" /\ UNCHANGED <<frame, received>>
    BY <1>1, <1>5 DEF SubEnd, Goto, clients
  <2>2. ~SubOpen(t) /\ ~Register(t)
    BY <2>1 DEF SubOpen, Register, Find, Goto
  <2> QED
    BY <2>1, <2>2 DEF ReadingPcs, SubscriberLocated, ComingPcs
<1>6. CASE Start(t)
  <2>1. pc[t] = "none" /\ pc'[t] = "register" /\ UNCHANGED <<frame, received>>
    BY <1>1, <1>2, <1>6, StartFacts DEF Start, clients
  <2>2. ~SubOpen(t) /\ ~Register(t)
    BY <2>1 DEF SubOpen, Register, Find, Goto
  <2> QED
    BY <2>1, <2>2 DEF ReadingPcs, SubscriberLocated, ComingPcs
<1>7. CASE Leave(t) \/ BrokenPipe(t)
  <2>1. UNCHANGED <<fsVars, received, frame, pc>>
    BY <1>7 DEF Leave, BrokenPipe
  <2>2. ~SubOpen(t) /\ ~Register(t)
    BY <1>1, <2>1 DEF SubOpen, Register, Find, Goto
  <2> QED
    BY <2>1, <2>2 DEF ReadingPcs, SubscriberLocated, ComingPcs
<1>8. ~ReadCode(t) /\ ~ReadCodeAlone(t)
  BY <1>2 DEF ReadCode, ReadCodeAlone, Find, Goto, SubscriberPcs
<1> QED
  BY <1>3, <1>4, <1>5, <1>6, <1>7, <1>8 DEF ClientStep

\* The step of another session leaves a subscriber where it is.
LEMMA OthersStep ==
  ASSUME Sound, HandlesOwned, RoomForFiles, NoBlockLost, WritersAtTheEnd, BrokerNext, NoRemovalYet',
         NEW t \in Subscribers, NEW s \in Sessions, s # t,
         PublisherStep(s) \/ SubscriberStep(s) \/ SpuriousWake(s) \/ ManagerStep(s) \/ ClientStep(s)
  PROVE  /\ pc'[t] = pc[t] /\ frame'[t] = frame[t] /\ received'[t] = received[t]
         /\ Handle(t)' = Handle(t) /\ (t \in Owners => Offset(t)' = Offset(t))
<1>1. t \in Sessions /\ pc \in [Sessions -> Steps] /\ received \in [Sessions -> Seq(Message)]
  BY DEF Subscribers, Sound, BrokerTypeOK
<1>2. pc'[t] = pc[t] /\ frame'[t] = frame[t] /\ Handle(t)' = Handle(t)
  BY <1>1, StepsAreApart DEF Only
<1>3. received'[t] = received[t]
  <2>1. CASE UNCHANGED received
    BY <2>1
  <2>2. ASSUME NEW x \in Sessions, Deliver(x)
        PROVE  received'[t] = received[t]
    <3>1. x # t
      BY <1>1, <1>2, <2>2 DEF Deliver, Goto
    <3>2. UNCHANGED received \/ received' = [received EXCEPT ![x] = Append(@, frame[x].buffer)]
      BY <2>2 DEF Deliver
    <3> QED
      BY <1>1, <3>1, <3>2
  <2> QED
    BY <2>1, <2>2, ClientsEffect
<1>4. ~Moves(t)
  BY <1>1, <1>2 DEF Moves, OpensFile, PubOpen, PubRefuse, PubAttach, SubOpen, CreateOpen,
                    ClosesFile, PubEnd, SubEnd, CreateClose, SubRead, PubWrite, PubTerminate, Goto
<1>5. t \in Owners => Offset(t)' = Offset(t)
  <2>1. t \in Owners => open_file_table'[Handle(t)] = open_file_table[Handle(t)]
    BY <1>4, WritesOrKeeps DEF EntriesKept
  <2> QED
    BY <1>2, <2>1 DEF Offset
<1> QED
  BY <1>2, <1>3, <1>5

\* A subscriber that reads is where the log says, in the text as it was before the step.
LEMMA ReaderStep ==
  ASSUME Sound, HandlesOwned, Agreement, SubscribersLocated, RoomForFiles, NoBlockLost, WritersAtTheEnd, Newcomers,
         BrokerNext, NoRemovalYet', ~exited', NEW t \in Subscribers, Reading(t)',
         NEW f, FileIs(Request[t].box, f), NEW text \in Seq(Bytes), text = Text(f), Len(text) = Size(f),
         NEW log \in Seq(Message), NEW e, Cut(text, log, e), Reading(t) => ReaderAt(t, text, log, e)
  PROVE  ReaderAt(t, text, log, e)'
<1>1. t \in Sessions /\ t \notin Publishers /\ t \notin Managers
  BY RequestFacts DEF Subscribers, Publishers, Managers
<1>2. PICK s \in Sessions :
        \/ s \in Publishers /\ PublisherStep(s)
        \/ s \in Subscribers /\ (SubscriberStep(s) \/ SpuriousWake(s))
        \/ s \in Managers /\ ManagerStep(s)
        \/ ClientStep(s)
  BY EveryStepIsSomeones
<1>3. Reading(t) => t \in Owners
  BY ReaderFacts
<1>4. CASE s # t
  <2>1. /\ pc'[t] = pc[t] /\ frame'[t] = frame[t] /\ received'[t] = received[t]
        /\ Handle(t)' = Handle(t) /\ (t \in Owners => Offset(t)' = Offset(t))
    BY <1>2, <1>4, OthersStep
  <2>2. Reading(t)
    BY <2>1 DEF Reading
  <2> QED
    BY <1>3, <2>1, <2>2, ReaderKept
<1>5. CASE s = t
  <2>1. CASE SubFind(t) \/ Loop(t) \/ SubLock(t) \/ Wake(t) \/ Refind(t) \/ SpuriousWake(t)
    <3>1. /\ UNCHANGED <<fsVars, received>> /\ frame'[t].buffer = frame[t].buffer
          /\ frame'[t].char_buffer = frame[t].char_buffer /\ Handle(t)' = Handle(t)
          /\ pc[t] \in ReadingPcs \ {"deliver"} /\ pc'[t] # "deliver"
      BY <2>1, ReaderWaits
    <3>2. Reading(t) /\ Offset(t)' = Offset(t)
      BY <3>1 DEF Reading, Offset, fsVars
    <3> QED
      BY <3>1, <3>2, ReaderKept
  <2>2. CASE SubRead(t)
    <3>1. Handle(t)' = Handle(t) /\ pc[t] = "subRead"
      BY <1>1, <2>2, HandleEffect DEF SubRead, Goto, OpensFile, PubOpen, PubRefuse, PubAttach,
                                      SubOpen, CreateOpen
    <3>2. Reading(t)
      BY <3>1 DEF Reading, ReadingPcs, SubscriberLocated
    <3> QED
      BY <2>2, <3>2, ByteArrives
  <2>3. CASE Deliver(t)
    <3>1. Handle(t)' = Handle(t) /\ pc[t] = "deliver"
      BY <1>1, <2>3, HandleEffect DEF Deliver, Goto, OpensFile, PubOpen, PubRefuse, PubAttach,
                                      SubOpen, CreateOpen
    <3>2. Reading(t)
      BY <3>1 DEF Reading, ReadingPcs, SubscriberLocated
    <3>3. /\ Place(text, log, e, received'[t], frame'[t].buffer, Offset(t))
          /\ pc'[t] = "loop" /\ Offset(t)' = Offset(t)
      BY <2>3, <3>2, DeliverFacts
    <3> QED
      BY <3>3 DEF ReaderAt
  <2>4. CASE Register(t) \/ SubOpen(t) \/ SubEnd(t) \/ ClientStep(t)
    <3>1. CASE UNCHANGED <<fsVars, received, frame, pc>>
      <4>1. Reading(t) /\ Offset(t)' = Offset(t)
        BY <3>1 DEF Reading, Handle, Offset, fsVars
      <4> QED
        BY <3>1, <4>1, ReaderKept
    <3>2. CASE ~UNCHANGED <<fsVars, received, frame, pc>>
      <4>1. /\ UNCHANGED received /\ frame'[t].buffer = frame[t].buffer
            /\ SubOpen(t) /\ pc'[t] \in {"subFind", "subFindRefused"}
        BY <2>4, <3>2, ReaderComes DEF Reading
      <4>2. received[t] = <<>> /\ frame[t].buffer = <<>>
        BY <4>1 DEF SubOpen, Goto, Newcomers, ComingPcs
      <4>3. Handle(t)' # -1 /\ Offset(t)' = 0
        <5>1. Handle(t)' # -1
          BY DEF Reading
        <5>2. open_file_table'[Handle(t)'].of_offset = 0
          BY <1>1, <4>1, <5>1, OpeningStep DEF OpensFile
        <5> QED
          BY <5>1, <5>2 DEF Offset
      <4>4. Place(text, log, e, <<>>, <<>>, 0)
        BY NothingRead
      <4> QED
        BY <4>1, <4>2, <4>3, <4>4 DEF ReaderAt
    <3> QED
      BY <3>1, <3>2
  <2> QED
    BY <1>1, <1>2, <1>5, <2>1, <2>2, <2>3, <2>4 DEF SubscriberStep
<1> QED
  BY <1>4, <1>5

LEMMA NewcomersStep ==
  ASSUME Sound, HandlesOwned, Agreement, SubscribersLocated, RoomForFiles, NoBlockLost, WritersAtTheEnd, Newcomers,
         BrokerNext, NoRemovalYet'
  PROVE  Newcomers'
<1> SUFFICES ASSUME NEW t \in Subscribers, pc'[t] \in ComingPcs
             PROVE  received'[t] = <<>> /\ frame'[t].buffer = <<>>
  BY DEF Newcomers
<1>1. t \in Sessions /\ t \notin Publishers /\ t \notin Managers /\ pc \in [Sessions -> Steps]
  BY RequestFacts DEF Subscribers, Publishers, Managers, Sound, BrokerTypeOK
<1>2. PICK s \in Sessions :
        \/ s \in Publishers /\ PublisherStep(s)
        \/ s \in Subscribers /\ (SubscriberStep(s) \/ SpuriousWake(s))
        \/ s \in Managers /\ ManagerStep(s)
        \/ ClientStep(s)
  BY EveryStepIsSomeones
<1>3. CASE s # t
  <2>1. pc'[t] = pc[t] /\ frame'[t] = frame[t] /\ received'[t] = received[t]
    BY <1>2, <1>3, OthersStep
  <2> QED
    BY <2>1 DEF Newcomers
<1>4. CASE s = t
  <2>1. CASE SubFind(t) \/ SubRead(t) \/ Deliver(t)
    BY <1>1, <2>1 DEF SubFind, SubRead, Deliver, Find, Goto, ComingPcs
  <2>2. CASE Loop(t) \/ SubLock(t) \/ Wake(t) \/ Refind(t) \/ SpuriousWake(t)
    BY <1>1, <2>2 DEF Loop, SubLock, Wake, Refind, SpuriousWake, Find, Goto, ComingPcs
  <2>3. CASE Register(t) \/ SubOpen(t) \/ SubEnd(t) \/ ClientStep(t)
    <3>1. /\ received'[t] = received[t] /\ frame'[t].buffer = frame[t].buffer
          /\ pc[t] \in ComingPcs
      BY <2>3, ReaderComes
    <3> QED
      BY <3>1 DEF Newcomers
  <2> QED
    BY <1>1, <1>2, <1>4, <2>1, <2>2, <2>3 DEF SubscriberStep
<1> QED
  BY <1>3, <1>4
-----------------------------------------------------------------------------
(* The steps of a log.                                                     *)

\* Only a write changes what is pending.
LEMMA PendingKept ==
  ASSUME Sound, BrokerNext, NEW x \in Publishers, NEW b, Handle(x) # -1 => ~PubWrite(x) /\ ~PubTerminate(x)
  PROVE  Pending(x, b)' <=> Pending(x, b)
<1>1. /\ pc'[x] = "pubTerminate" <=> PubWrite(x) \/ (pc[x] = "pubTerminate" /\ ~PubTerminate(x))
      /\ OpensFile(x) => pc[x] \notin WritingPcs
  BY WriterMoves
<1>2. CASE OpensFile(x)
  <2>1. pc[x] # "pubTerminate" /\ ~PubWrite(x)
    BY <1>1, <1>2 DEF PubWrite, Goto, WritingPcs
  <2> QED
    BY <1>1, <2>1 DEF Pending
<1>3. CASE ~OpensFile(x)
  <2>1. Handle(x)' = Handle(x)
    BY <1>3, HandleEffect DEF Publishers
  <2> QED
    BY <1>1, <2>1 DEF Pending
<1> QED
  BY <1>2, <1>3

LEMMA EndedKept ==
  ASSUME Sound, BrokerNext, NEW b, NEW text, NEW log, NEW e, Ended(b, text, log, e),
         \A x \in Publishers : Request[x].box = b /\ Handle(x) # -1 => ~PubWrite(x) /\ ~PubTerminate(x)
  PROVE  Ended(b, text, log, e)'
<1>1. \A x \in Publishers : Pending(x, b)' <=> Pending(x, b)
  <2>1. ASSUME NEW x \in Publishers, Request[x].box = b
        PROVE  Pending(x, b)' <=> Pending(x, b)
    BY <2>1, PendingKept
  <2> QED
    BY <2>1 DEF Pending
<1>2. \A x \in Publishers : Pending(x, b) => inbox'[x] = inbox[x]
  BY InboxKept DEF Pending, Publishers
<1>3. ASSUME Len(text) < BlockSize
      PROVE  /\ (\A s \in Publishers : ~Pending(s, b)') => IsTail(text, e[Len(log)], <<>>)
             /\ \A s \in Publishers : Pending(s, b)' => IsTail(text, e[Len(log)], Head(inbox'[s]))
  BY <1>1, <1>2, <1>3 DEF Ended
<1> QED
  BY <1>3 DEF Ended

\* Only the publisher of a box has something pending, and writes.
LEMMA OnePending ==
  ASSUME Sound, Count, BrokerNext, NEW s \in Publishers, pc[s] \in {"pubWrite", "pubTerminate"},
         NEW x \in Publishers, x # s
  PROVE  /\ ~Pending(x, Request[s].box)
         /\ PubWrite(s) \/ PubTerminate(s) => ~PubWrite(x) /\ ~PubTerminate(x) /\ ~Pending(x, Request[s].box)'
<1>1. ~Pending(x, Request[s].box)
  BY OneWriter DEF Pending, Claimed, Located
<1>2. ASSUME PubWrite(s) \/ PubTerminate(s)
      PROVE  ~PubWrite(x) /\ ~PubTerminate(x) /\ ~Pending(x, Request[s].box)'
  <2>1. Only(s) /\ x \in Sessions
    BY <1>2, StepsAreApart DEF PublisherStep, Publishers
  <2>2. pc'[x] = pc[x] /\ pc \in [Sessions -> Steps]
    BY <2>1 DEF Only, Sound, BrokerTypeOK
  <2>3. ~PubWrite(x) /\ ~PubTerminate(x)
    BY <2>1, <2>2 DEF PubWrite, PubTerminate, Goto
  <2> QED
    BY <1>1, <2>3, PendingKept
<1> QED
  BY <1>1, <1>2

LEMMA Sums == \A a \in Nat : \A b \in Nat : a + b \in Nat
OBVIOUS

LEMMA Inside ==
  ASSUME NEW m \in Nat, NEW n \in Nat, m <= n, NEW j \in 1..m
  PROVE  j - 1 \in Nat /\ j \in 1..n
OBVIOUS

\* A place stays a place when the text and the log grow.
LEMMA ReaderLifted ==
  ASSUME Sound', NEW t \in Subscribers, NEW text \in Seq(Bytes), NEW text2 \in Seq(Bytes),
         NEW log \in Seq(Message), NEW log2 \in Seq(Message), NEW e \in [Nat -> Nat], NEW e2 \in [Nat -> Nat],
         Len(text) <= Len(text2), \A k \in 1..Len(text) : text2[k] = text[k],
         GoesOn(log, log2, e, e2), ReaderAt(t, text, log, e)'
  PROVE  ReaderAt(t, text2, log2, e2)'
<1>1. received'[t] \in Seq(Message) /\ frame'[t].buffer \in Message
  BY DEF Sound, BrokerTypeOK, Subscribers
<1>2. PICK got \in Seq(Message), part \in Message : got = received'[t] /\ part = frame'[t].buffer
  BY <1>1
<1>3. \A read \in Nat : Place(text, log, e, got, part, read) => Place(text2, log2, e2, got, part, read)
  BY PlaceKept
<1>4. PICK size \in Nat, new \in Nat : size = Len(text) /\ new = Len(text2) /\ size <= new
  BY LenNat
<1>5. CASE pc'[t] # "deliver"
  <2>1. PICK off : off = Offset(t)'
    OBVIOUS
  <2>2. Place(text, log, e, got, part, off)
    BY <1>2, <1>5, <2>1 DEF ReaderAt
  <2>3. off \in Nat
    <3>1. Len(got) \in Nat /\ Len(part) \in Nat
      BY LenNat, MessageFacts
    <3>2. PICK a \in Nat, n \in Nat : a = e[Len(got)] /\ n = Len(part)
      BY <3>1
    <3>3. off = a + n
      BY <2>2, <3>2 DEF Place
    <3> QED
      BY <3>2, <3>3, Sums
  <2> QED
    BY <1>2, <1>3, <1>5, <2>1, <2>2, <2>3 DEF ReaderAt
<1>6. CASE pc'[t] = "deliver"
  <2>1. PICK off \in 1..size : off = Offset(t)'
    BY <1>4, <1>6 DEF ReaderAt
  <2>2. Place(text, log, e, got, part, off - 1)
    BY <1>2, <1>6, <2>1 DEF ReaderAt
  <2>3. off - 1 \in Nat /\ off \in 1..new
    BY <1>4, <2>1, Inside
  <2>4. Place(text2, log2, e2, got, part, off - 1)
    BY <1>3, <2>2, <2>3
  <2>5. frame'[t].char_buffer = text2[off] /\ frame'[t].char_buffer \in Bytes
    BY <1>4, <1>6, <2>1 DEF ReaderAt
  <2> QED
    BY <1>2, <1>4, <1>6, <2>1, <2>3, <2>4, <2>5 DEF ReaderAt
<1> QED
  BY <1>5, <1>6

LEMMA ExtendedTypes ==
  ASSUME NEW text \in Seq(Bytes), NEW buffer \in Seq(Bytes), NEW n, NEW new \in Nat, NEW cells, NEW text2,
         text2 = [k \in 1..new |-> cells[k]], IsExtended(text, text2, buffer, n)
  PROVE  text2 \in Seq(Bytes) /\ Len(text2) = new
<1>1. PICK size \in Nat, len \in Nat : size = Len(text) /\ len = Len(buffer)
  BY LenNat
<1>2. Len(text2) = new
  OBVIOUS
<1>3. /\ n \in 0..len /\ new = size + n
      /\ \A k \in 1..size : text2[k] = text[k]
      /\ \A k \in 1..n : text2[size + k] = buffer[k]
  BY <1>1, <1>2 DEF IsExtended
<1>4. ASSUME NEW k \in 1..new
      PROVE  text2[k] \in Bytes
  <2>1. CASE k \in 1..size
    <3>1. text[k] \in Bytes
      BY <1>1, <2>1
    <3> QED
      BY <1>3, <2>1, <3>1
  <2>2. CASE k \notin 1..size
    <3>1. k - size \in 1..n /\ size + (k - size) = k /\ k - size \in 1..len
      BY <1>1, <1>3, <2>2
    <3>2. text2[k] = buffer[k - size]
      BY <1>3, <3>1
    <3> QED
      BY <1>1, <3>1, <3>2
  <2> QED
    BY <2>1, <2>2
<1> QED
  BY <1>2, <1>4
\* What is known of the sessions and of the files until a removal begins.
Calm == Sound /\ HandlesOwned /\ Agreement /\ Count /\ Files /\ Newcomers

\* The log of a box whose file is not written.
LEMMA LogUntouched ==
  ASSUME Calm, RoomForFiles, BrokerNext, NoRemovalYet', ~exited', NEW b, NEW f, FileIs(b, f),
         NEW text, text = Text(f), NEW log, log = published[b], NEW e, LogAt(b, text, log, e),
         \A x \in Publishers : Request[x].box = b /\ Handle(x) # -1 => ~PubWrite(x) /\ ~PubTerminate(x)
  PROVE  LogAt(b, text, log, e)'
<1>1. Sound /\ HandlesOwned /\ Agreement /\ NoBlockLost /\ WritersAtTheEnd /\ SubscribersLocated /\ Newcomers
  BY DEF Calm, Files
<1>2. text \in Seq(Bytes) /\ Len(text) = Size(f) /\ log \in Seq(Message)
  <2>1. f \in takenInodes \ {ROOT_DIR_INUM} /\ b \in Names
    BY <1>1, FileFacts DEF Sound
  <2> QED
    BY <1>1, <2>1, TextTypes DEF Sound, BrokerTypeOK
<1>3. Cut(text, log, e) /\ Ended(b, text, log, e)
  BY DEF LogAt
<1>4. Ended(b, text, log, e)'
  BY <1>1, <1>3, EndedKept
<1>5. ASSUME NEW t \in Subscribers, Request[t].box = b, Reading(t)'
      PROVE  ReaderAt(t, text, log, e)'
  <2>1. Reading(t) => ReaderAt(t, text, log, e)
    BY <1>5 DEF LogAt
  <2> QED
    BY <1>1, <1>2, <1>3, <1>5, <2>1, ReaderStep
<1> QED
  BY <1>3, <1>4, <1>5 DEF LogAt

\* The log of a box whose publisher writes its message.
LEMMA MessageWritten ==
  ASSUME Calm, Sound', RoomForFiles, BrokerNext, NoRemovalYet', ~exited',
         NEW s \in Publishers, NEW b, b = Request[s].box,
         Handle(s) # -1, PubWrite(s), NEW m, m = Head(inbox[s]), NEW ret, NEW f, FileIs(b, f),
         NEW text, text = Text(f), NEW text2, text2 = Text(f)', text2 \in Seq(Bytes), IsExtended(text, text2, m, ret),
         Len(text2) < BlockSize => ret = Len(m), NEW log, log = published[b], NEW e, LogAt(b, text, log, e)
  PROVE  LogAt(b, text2, log, e)'
<1>1. Sound /\ HandlesOwned /\ Agreement /\ Count /\ NoBlockLost /\ WritersAtTheEnd /\ SubscribersLocated /\ Newcomers
  BY DEF Calm, Files
<1>2. text \in Seq(Bytes) /\ Len(text) = Size(f) /\ log \in Seq(Message)
  <2>1. f \in takenInodes \ {ROOT_DIR_INUM} /\ b \in Names
    BY <1>1, FileFacts DEF Sound
  <2> QED
    BY <1>1, <2>1, TextTypes DEF Sound, BrokerTypeOK
<1>3. /\ Cut(text, log, e) /\ Ended(b, text, log, e) /\ e \in [Nat -> Nat] /\ e[Len(log)] \in Nat
  <2>1. Cut(text, log, e) /\ Ended(b, text, log, e)
    BY DEF LogAt
  <2> QED
    BY <1>2, <2>1, LenNat DEF Cut
<1>4. /\ s \in Sessions /\ pc[s] = "pubWrite" /\ pc'[s] = "pubTerminate" /\ UNCHANGED <<inbox, frame>>
      /\ m \in Message
  <2>1. s \in Sessions /\ pc[s] = "pubWrite" /\ pc'[s] = "pubTerminate" /\ UNCHANGED <<inbox, frame>>
    BY <1>1 DEF PubWrite, Goto, clients, Publishers, Sound, BrokerTypeOK
  <2> QED
    BY <1>1, <2>1, HeadFacts
<1>5. Cut(text2, log, e)
  BY <1>2, <1>3, <1>4, CutExtended
<1>6. Pending(s, b)' /\ ~Pending(s, b)
  BY <1>4 DEF Pending, Handle
<1>7. \A x \in Publishers : x # s => ~Pending(x, b) /\ ~Pending(x, b)'
  BY <1>1, <1>4, OnePending
<1>8. PICK size \in Nat, new \in Nat : size = Len(text) /\ new = Len(text2) /\ size <= new
  BY <1>2, LenNat DEF IsExtended
<1>9. Ended(b, text2, log, e)'
  <2>1. ASSUME Len(text2) < BlockSize
        PROVE  IsTail(text2, e[Len(log)], m)
    <3>1. Len(text) < BlockSize
      BY <1>8, <2>1, TFSAssumption
    <3>2. IsTail(text, e[Len(log)], <<>>)
      BY <1>3, <1>6, <1>7, <3>1 DEF Ended
    <3> QED
      BY <1>2, <1>3, <1>4, <2>1, <3>2, TailWritten
  <2>2. inbox'[s] = inbox[s]
    BY <1>4
  <2> QED
    BY <1>6, <1>7, <2>1, <2>2 DEF Ended
<1>10. ASSUME NEW t \in Subscribers, Request[t].box = b, Reading(t)'
       PROVE  ReaderAt(t, text2, log, e)'
  <2>1. Reading(t) => ReaderAt(t, text, log, e)
    BY <1>10 DEF LogAt
  <2>2. ReaderAt(t, text, log, e)'
    BY <1>1, <1>2, <1>3, <1>10, <2>1, ReaderStep
  <2>3. Len(text) <= Len(text2) /\ \A k \in 1..Len(text) : text2[k] = text[k]
    BY <1>8 DEF IsExtended
  <2>4. GoesOn(log, log, e, e)
    <3>1. Len(log) \in Nat
      BY <1>2, LenNat
    <3>2. PICK n \in Nat : n = Len(log)
      BY <3>1
    <3> QED
      BY <3>2 DEF GoesOn
  <2> QED
    BY <1>2, <1>3, <2>2, <2>3, <2>4, ReaderLifted
<1> QED
  BY <1>5, <1>9, <1>10 DEF LogAt

\* The log of a box whose publisher writes the terminator.
LEMMA MessageTerminated ==
  ASSUME Calm, Sound', RoomForFiles, BrokerNext, NoRemovalYet', ~exited',
         NEW s \in Publishers, NEW b, b = Request[s].box,
         Handle(s) # -1, PubTerminate(s), NEW ret, published' = IF ret = 1 THEN Published(s) ELSE published,
         NEW f, FileIs(b, f), NEW text, text = Text(f), NEW text2, text2 = Text(f)', text2 \in Seq(Bytes),
         Len(text2) <= BlockSize, IsExtended(text, text2, <<NUL>>, ret), Len(text2) < BlockSize => ret = 1,
         NEW log, log = published[b], NEW log2, log2 = published'[b], NEW e, LogAt(b, text, log, e)
  PROVE  \E e2 : LogAt(b, text2, log2, e2)'
<1>1. Sound /\ HandlesOwned /\ Agreement /\ Count /\ NoBlockLost /\ WritersAtTheEnd /\ SubscribersLocated /\ Newcomers
  BY DEF Calm, Files
<1>2. /\ text \in Seq(Bytes) /\ Len(text) = Size(f) /\ log \in Seq(Message) /\ log2 \in Seq(Message)
      /\ published \in [Names -> Seq(Message)] /\ b \in Names
  <2>1. f \in takenInodes \ {ROOT_DIR_INUM} /\ b \in Names
    BY <1>1, FileFacts DEF Sound
  <2> QED
    BY <1>1, <2>1, TextTypes DEF Sound, BrokerTypeOK
<1>3. /\ Cut(text, log, e) /\ Ended(b, text, log, e) /\ e \in [Nat -> Nat] /\ e[Len(log)] \in Nat
  <2>1. Cut(text, log, e) /\ Ended(b, text, log, e)
    BY DEF LogAt
  <2> QED
    BY <1>2, <2>1, LenNat DEF Cut
<1>4. s \in Sessions /\ pc[s] = "pubTerminate" /\ pc'[s] = "pubNotify" /\ Head(inbox[s]) \in Message
  <2>1. s \in Sessions /\ pc[s] = "pubTerminate" /\ pc'[s] = "pubNotify"
    BY <1>1 DEF PubTerminate, Goto, Publishers, Sound, BrokerTypeOK
  <2> QED
    BY <1>1, <2>1, HeadFacts
<1>5. PICK m \in Message : m = Head(inbox[s])
  BY <1>4
<1>6. Pending(s, b) /\ \A x \in Publishers : ~Pending(x, b)'
  <2>1. Pending(s, b) /\ ~Pending(s, b)'
    BY <1>4 DEF Pending
  <2> QED
    BY <1>1, <1>4, <2>1, OnePending
<1>7. PICK size \in Nat, new \in Nat, n \in Nat : size = Len(text) /\ new = Len(text2) /\ n = Len(log)
  BY <1>2, LenNat
<1>8. /\ ret \in 0..1 /\ new = size + ret /\ \A k \in 1..size : text2[k] = text[k]
      /\ size <= new
  <2>1. ret \in 0..1 /\ new = size + ret /\ \A k \in 1..size : text2[k] = text[k]
    BY <1>7 DEF IsExtended
  <2>2. ret \in Nat /\ size <= size + ret
    <3>1. ret \in 0..1
      BY <2>1
    <3> QED
      BY <3>1
  <2> QED
    BY <2>1, <2>2
<1>9. ASSUME NEW e2 \in [Nat -> Nat], GoesOn(log, log2, e, e2),
             NEW t \in Subscribers, Request[t].box = b, Reading(t)'
      PROVE  ReaderAt(t, text2, log2, e2)'
  <2>1. Reading(t) => ReaderAt(t, text, log, e)
    BY <1>9 DEF LogAt
  <2>2. ReaderAt(t, text, log, e)'
    BY <1>1, <1>2, <1>3, <1>9, <2>1, ReaderStep
  <2>3. Len(text) <= Len(text2) /\ \A k \in 1..Len(text) : text2[k] = text[k]
    BY <1>7, <1>8
  <2> QED
    BY <1>2, <1>3, <1>9, <2>2, <2>3, ReaderLifted
<1>10. CASE ret = 1
  <2>1. log2 = Append(log, m)
    BY <1>2, <1>5, <1>10 DEF Published
  <2>2. IsTail(text, e[Len(log)], m)
    <3>1. Len(text) < BlockSize
      BY <1>7, <1>8, <1>10, TFSAssumption
    <3> QED
      BY <1>3, <1>5, <1>6, <3>1 DEF Ended
  <2>3. PICK e2 \in [Nat -> Nat] :
          Cut(text2, log2, e2) /\ GoesOn(log, log2, e, e2) /\ e2[Len(log2)] = Len(text2)
    <3>1. IsExtended(text, text2, <<NUL>>, 1)
      BY <1>10
    <3>2. Cut(text, log, e) /\ log \in Seq(Message) /\ text \in Seq(Bytes)
      BY <1>2, <1>3
    <3>3. IsLonger(text2, log, log2, e)
      BY <2>1, <2>2, <3>1, <3>2, CutTerminated
    <3> QED
      BY <3>3 DEF IsLonger
  <2>4. IsTail(text2, e2[Len(log2)], <<>>)
    <3>1. Len(<<>>) = 0 /\ 1..0 = {} /\ new = new + 0
      OBVIOUS
    <3> QED
      BY <1>7, <2>3, <3>1 DEF IsTail
  <2>5. Ended(b, text2, log2, e2)'
    BY <1>6, <2>4 DEF Ended
  <2>6. LogAt(b, text2, log2, e2)'
    BY <1>9, <2>3, <2>5 DEF LogAt
  <2> QED
    BY <2>6
<1>11. CASE ret = 0
  <2>1. log2 = log /\ GoesOn(log, log2, e, e)
    BY <1>7, <1>11 DEF GoesOn
  <2>2. Cut(text2, log, e)
    <3>1. <<>> \in Message /\ Len(<<>>) = 0 /\ 1..0 = {}
      BY DEF Message
    <3>2. IsExtended(text, text2, <<>>, 0)
      BY <1>7, <1>8, <1>11, <3>1 DEF IsExtended
    <3> QED
      BY <1>2, <1>3, <3>1, <3>2, CutExtended
  <2>3. Ended(b, text2, log2, e)'
    <3>1. ~(Len(text2) < BlockSize)
      BY <1>11
    <3> QED
      BY <3>1 DEF Ended
  <2>4. LogAt(b, text2, log2, e)'
    BY <1>3, <1>9, <2>1, <2>2, <2>3 DEF LogAt
  <2> QED
    BY <2>4
<1> QED
  BY <1>8, <1>10, <1>11

\* Who opens a file to create it is a manager, and is alone in the step.
LEMMA CreatorFacts ==
  ASSUME Sound, NEW t \in Sessions, CreateOpen(t)
  PROVE  t \in Managers /\ Only(t)
<1>1. t \in Managers
  BY RequestFacts DEF CreateOpen, Sound, StepsInKind, Kinds, PublisherPcs, SubscriberPcs, RemoverPcs
<1> QED
  BY <1>1, StepsAreApart DEF ManagerStep

\* Nobody is at the file of a box that has none.
LEMMA NobodyThere ==
  ASSUME Sound, HandlesOwned, NEW x \in Sessions, Handle(x) # -1, pc[x] \notin Over
  PROVE  Matches(Request[x].box) # {}
BY OwnFile, FileFacts DEF Sound

LEMMA EmptyCut ==
  ASSUME NEW text \in Seq(Bytes), Len(text) = 0
  PROVE  \E e : Cut(text, <<>>, e) /\ IsTail(text, e[Len(<<>>)], <<>>)
<1>1. PICK e : e = [k \in Nat |-> 0]
  OBVIOUS
<1>2. e \in [Nat -> Nat] /\ e[0] = 0
  BY <1>1
<1>3. Len(<<>>) = 0 /\ 1..0 = {} /\ 0 = 0 + 0
  OBVIOUS
<1>4. Cut(text, <<>>, e)
  BY <1>2, <1>3 DEF Cut
<1>5. IsTail(text, e[Len(<<>>)], <<>>)
  BY <1>2, <1>3 DEF IsTail
<1> QED
  BY <1>4, <1>5

\* The log of a box whose file is created.
LEMMA FreshLog ==
  ASSUME Calm, Sound', RoomForFiles, NoFileNoLog, BrokerNext, NoRemovalYet', NEW b \in Names, Matches(b) = {},
         published'[b] = published[b], NEW f, FileIs(b, f)', NEW text \in Seq(Bytes), Len(text) = 0,
         NEW log, log = published'[b]
  PROVE  \E e : LogAt(b, text, log, e)'
<1>1. Sound /\ HandlesOwned /\ NoBlockLost /\ WritersAtTheEnd
  BY DEF Calm, Files
<1>2. log = <<>>
  BY DEF NoFileNoLog, HasFile
<1>3. PICK t \in Sessions : CreateOpen(t)
  <2>1. ~UNCHANGED dir_entry
    BY DEF FileIs, Matches
  <2> QED
    BY <1>1, <2>1, WritesOrKeeps
<1>4. t \in Managers /\ Only(t)
  BY <1>1, <1>3, CreatorFacts
<1>5. ASSUME NEW x \in Publishers
      PROVE  ~Pending(x, b)'
  <2>1. x \in Sessions /\ x # t
    BY <1>4, RequestFacts DEF Publishers, Managers
  <2>2. pc'[x] = pc[x] /\ Handle(x)' = Handle(x)
    BY <1>4, <2>1 DEF Only
  <2>3. Handle(x) # -1 /\ pc[x] = "pubTerminate" => Matches(Request[x].box) # {}
    BY <1>1, <2>1, NobodyThere DEF Over
  <2> QED
    BY <2>2, <2>3 DEF Pending
<1>6. ASSUME NEW x \in Subscribers, Request[x].box = b
      PROVE  ~Reading(x)'
  <2>1. x \in Sessions /\ x # t
    BY <1>4, RequestFacts DEF Subscribers, Managers
  <2>2. pc'[x] = pc[x] /\ Handle(x)' = Handle(x)
    BY <1>4, <2>1 DEF Only
  <2>3. Handle(x) # -1 /\ pc[x] \in ReadingPcs => Matches(Request[x].box) # {}
    BY <1>1, <2>1, NobodyThere DEF Over, ReadingPcs, SubscriberLocated
  <2> QED
    BY <1>6, <2>2, <2>3 DEF Reading
<1>7. PICK e : Cut(text, <<>>, e) /\ IsTail(text, e[Len(<<>>)], <<>>)
  BY EmptyCut
<1>8. Ended(b, text, log, e)'
  BY <1>2, <1>5, <1>7 DEF Ended
<1>9. LogAt(b, text, log, e)'
  BY <1>2, <1>6, <1>7, <1>8 DEF LogAt
<1> QED
  BY <1>9

\* The text of a file that was extended, or has nothing.
LEMMA TextAfterWrite ==
  ASSUME Sound', NEW f \in Inums, NEW text \in Seq(Bytes), NEW buffer \in Seq(Bytes), NEW n,
         NEW text2, text2 = Text(f)',
         IsExtended(text, text2, buffer, n)
  PROVE  text2 \in Seq(Bytes) /\ Len(text2) = Size(f)' /\ Len(text2) <= BlockSize
<1>1. PICK new \in 0..BlockSize : new = Size(f)'
  BY DEF Sound, BrokerTypeOK, FSTypeOK, Inode, Size
<1>2. PICK cells : cells = [k \in 1..new |-> fs_data'[inode_table'[f].i_data_block][k - 1]]
  OBVIOUS
<1>3. text2 = cells /\ cells = [k \in 1..new |-> cells[k]] /\ new \in Nat
  BY <1>1, <1>2, TFSAssumption DEF Text
<1>4. text2 = [k \in 1..new |-> cells[k]]
  BY <1>3
<1>5. text2 \in Seq(Bytes) /\ Len(text2) = new
  BY <1>3, <1>4, ExtendedTypes
<1> QED
  BY <1>1, <1>5, TFSAssumption

LEMMA TextOfNothing ==
  ASSUME NEW f, Size(f)' = 0, NEW text2, text2 = Text(f)'
  PROVE  text2 \in Seq(Bytes) /\ Len(text2) = 0
<1>1. 1..0 = {} /\ <<>> = [k \in {} |-> 0]
  OBVIOUS
<1>2. text2 = [k \in {} |-> 0]
  BY <1>1 DEF Text
<1> QED
  BY <1>1, <1>2

\* What the log of a box is after a write.
LEMMA LogWritten ==
  ASSUME Calm, Sound', RoomForFiles, LogsKept, BrokerNext, NoRemovalYet', ~exited',
         NEW s \in Publishers, NEW buffer, NEW ret, Writes(s, buffer, ret), Handle(s) # -1,
         NEW b, b = Request[s].box, NEW f, FileIs(b, f), NEW text2, text2 = Text(f)', NEW log2, log2 = published'[b]
  PROVE  \E e2 : LogAt(b, text2, log2, e2)'
<1>1. Sound /\ HandlesOwned /\ NoBlockLost /\ WritersAtTheEnd
  BY DEF Calm, Files
<1>2. /\ f \in takenInodes \ {ROOT_DIR_INUM} /\ buffer \in Seq(Bytes) /\ EndWritten(Handle(s), f, buffer, ret)
      /\ f \in Inums
  <2>1. PICK g : FileIs(b, g) /\ buffer \in Seq(Bytes) /\ EndWritten(Handle(s), g, buffer, ret)
    BY <1>1, WritingStep
  <2>2. f = g /\ f \in takenInodes \ {ROOT_DIR_INUM}
    BY <1>1, <2>1, FileFacts DEF Sound
  <2> QED
    BY <1>1, <2>1, <2>2 DEF Sound, BrokerTypeOK, FSTypeOK
<1>3. PICK text, log : text = Text(f) /\ log = published[b]
  OBVIOUS
<1>4. PICK e : LogAt(b, text, log, e)
  BY <1>3 DEF LogsKept
<1>5. text \in Seq(Bytes)
  BY <1>1, <1>2, <1>3, TextTypes
<1>6. IsExtended(text, text2, buffer, ret) /\ (Size(f)' < BlockSize => ret = Len(buffer))
  BY <1>2, <1>3 DEF EndWritten
<1>7. text2 \in Seq(Bytes) /\ Len(text2) = Size(f)' /\ Len(text2) <= BlockSize
  BY <1>2, <1>5, <1>6, TextAfterWrite
<1>8. CASE PubWrite(s) /\ buffer = Head(inbox[s])
  <2>1. log2 = log
    BY <1>3, <1>8 DEF PubWrite
  <2>2. LogAt(b, text2, log, e)'
    BY <1>3, <1>4, <1>6, <1>7, <1>8, MessageWritten
  <2> QED
    BY <2>1, <2>2
<1>9. CASE PubTerminate(s) /\ buffer = <<NUL>> /\ published' = IF ret = 1 THEN Published(s) ELSE published
  <2>1. Len(text2) < BlockSize => ret = 1
    BY <1>6, <1>7, <1>9
  <2>2. IsExtended(text, text2, <<NUL>>, ret)
    BY <1>6, <1>9
  <2> QED
    BY <1>3, <1>4, <1>7, <1>9, <2>1, <2>2, MessageTerminated
<1> QED
  BY <1>8, <1>9 DEF Writes

\* Every step keeps every log.
LEMMA LogsKeptStep ==
  ASSUME Calm, Sound', RoomForFiles, LogsKept, NoFileNoLog, BrokerNext, NoRemovalYet', ~exited'
  PROVE  LogsKept'
<1> SUFFICES ASSUME NEW b, NEW f, NEW text, NEW log, FileIs(b, f)', text = Text(f)', log = published'[b]
             PROVE  \E e : LogAt(b, text, log, e)'
  BY DEF LogsKept
<1>1. Sound /\ HandlesOwned /\ NoBlockLost /\ WritersAtTheEnd /\ Count
  BY DEF Calm, Files
<1>2. ASSUME FileIs(b, f), SameText(f), published'[b] = published[b],
             \A x \in Publishers : Request[x].box = b /\ Handle(x) # -1 => ~PubWrite(x) /\ ~PubTerminate(x)
      PROVE  \E e : LogAt(b, text, log, e)'
  <2>1. text = Text(f) /\ log = published[b]
    BY <1>2 DEF SameText
  <2>2. PICK e : LogAt(b, text, log, e)
    BY <1>2, <2>1 DEF LogsKept
  <2>3. LogAt(b, text, log, e)'
    BY <1>2, <2>1, <2>2, LogUntouched
  <2> QED
    BY <2>3
<1>3. ASSUME NEW s \in Publishers, NEW buffer, NEW ret, Writes(s, buffer, ret), Handle(s) # -1
      PROVE  \E e : LogAt(b, text, log, e)'
  <2>1. PICK g : FileIs(Request[s].box, g) /\ EndWritten(Handle(s), g, buffer, ret)
    BY <1>1, <1>3, WritingStep
  <2>2. FileIs(b, f)
    BY <2>1 DEF EndWritten, FileIs, Matches
  <2>3. CASE b = Request[s].box
    BY <1>3, <2>2, <2>3, LogWritten
  <2>4. CASE b # Request[s].box
    <3>1. SameText(f)
      <4>1. f # g /\ f \in takenInodes
        BY <1>1, <2>1, <2>2, <2>4, FileFacts DEF Sound
      <4> QED
        BY <2>1, <4>1 DEF EndWritten
    <3>2. published'[b] = published[b]
      <4>1. published \in [Names -> Seq(Message)]
        BY <1>1 DEF Sound, BrokerTypeOK
      <4>2. published' = published \/ published' = Published(s)
        BY <1>3 DEF Writes, PubWrite
      <4>3. CASE published' = Published(s)
        BY <2>4, <4>1, <4>3 DEF Published
      <4> QED
        BY <4>2, <4>3
    <3>3. \A x \in Publishers : PubWrite(x) \/ PubTerminate(x) => x = s
      <4>1. Only(s)
        BY <1>1, <1>3, StepsAreApart DEF Writes, PublisherStep, Publishers
      <4> QED
        BY <1>1, <4>1 DEF Only, PubWrite, PubTerminate, Goto, Publishers, Sound, BrokerTypeOK
    <3> QED
      BY <1>2, <2>2, <2>4, <3>1, <3>2, <3>3
  <2> QED
    BY <2>3, <2>4
<1>4. CASE BytesKept /\ \A t \in Publishers : PubWrite(t) \/ PubTerminate(t) => Handle(t) = -1 /\ UNCHANGED published
  <2>1. UNCHANGED published
    BY <1>1, <1>4, ClientsEffect, WriterWrites
  <2>2. CASE FileIs(b, f)
    <3>1. SameText(f)
      BY <1>1, <1>4, <2>2, FileFacts DEF BytesKept, Sound
    <3> QED
      BY <1>2, <1>4, <2>1, <2>2, <3>1
  <2>3. CASE ~FileIs(b, f)
    <3>1. Matches(b) = {} /\ Size(f)' = 0
      BY <1>4, <2>3 DEF BytesKept
    <3>2. text \in Seq(Bytes) /\ Len(text) = 0
      BY <3>1, TextOfNothing
    <3>3. b \in Names
      <4>1. DirectoryConsistent'
        BY DEF Sound
      <4>2. PICK d \in DirSlots : dir_entry'[d].d_inumber # -1 /\ dir_entry'[d].d_name = b
        BY DEF FileIs, Matches
      <4> QED
        BY <4>1, <4>2 DEF DirectoryConsistent, Used
    <3> QED
      BY <2>1, <3>1, <3>2, <3>3, FreshLog
  <2> QED
    BY <2>2, <2>3
<1> QED
  BY <1>1, <1>3, <1>4, WritesOrKeeps DEF WriteNow

\* A box gets a log only once it has a file.
LEMMA NoFileNoLogStep ==
  ASSUME Calm, RoomForFiles, NoFileNoLog, BrokerNext, NoRemovalYet'
  PROVE  NoFileNoLog'
<1>1. Sound /\ HandlesOwned /\ NoBlockLost /\ WritersAtTheEnd
  BY DEF Calm, Files
<1> SUFFICES ASSUME NEW b \in Names, ~HasFile(b)'
             PROVE  published'[b] = <<>>
  BY DEF NoFileNoLog
<1>2. ~HasFile(b)
  <2>1. CASE UNCHANGED dir_entry
    BY <2>1 DEF HasFile, Matches
  <2>2. ASSUME NEW t \in Sessions, CreateOpen(t)
        PROVE  ~HasFile(b)
    <3>1. PICK ret \in Handles \cup {-1} : tfs_open(Request[t].box, {"CREAT"}, ret)
      BY <2>2 DEF CreateOpen, OpenFileOfBox
    <3>2. IInv /\ Request[t].box \in Names
      BY <1>1, SoundFS, RequestFacts
    <3> QED
      BY <3>1, <3>2, OpenInDirectory
  <2> QED
    BY <1>1, <2>1, <2>2, WritesOrKeeps
<1>3. published'[b] = published[b]
  <2>1. ASSUME NEW s \in Sessions, PubTerminate(s)
        PROVE  published'[b] = published[b]
    <3>1. PICK buffer, ret : Writes(s, buffer, ret)
      BY <1>1, <2>1, WriterWrites
    <3>2. CASE Handle(s) = -1
      BY <3>1, <3>2, VoidWrite
    <3>3. CASE Handle(s) # -1
      <4>1. Request[s].box # b
        BY <1>1, <1>2, <2>1, <3>3, NobodyThere DEF PubTerminate, Goto, Over, HasFile
      <4>2. published \in [Names -> Seq(Message)]
        BY <1>1 DEF Sound, BrokerTypeOK
      <4>3. published' = published \/ published' = Published(s)
        BY <3>1 DEF Writes, PubWrite
      <4>4. CASE published' = Published(s)
        BY <4>1, <4>2, <4>4 DEF Published
      <4> QED
        BY <4>3, <4>4
    <3> QED
      BY <3>2, <3>3
  <2> QED
    BY <2>1, ClientsEffect
<1> QED
  BY <1>2, <1>3 DEF NoFileNoLog

LEMMA TailOf ==
  ASSUME NEW q \in Seq(Message), q # <<>>, NEW k \in 1..Len(Tail(q))
  PROVE  k + 1 \in 1..Len(q) /\ Tail(q)[k] = q[k + 1]
OBVIOUS

\* Nothing is sent to a box but what a client sends.
LEMMA InboxesStep ==
  ASSUME Sound, InboxesFilled, BrokerNext
  PROVE  InboxesFilled'
<1>1. CASE UNCHANGED inbox
  BY <1>1 DEF InboxesFilled
<1>2. ASSUME NEW s \in Sessions, PubNotify(s)
      PROVE  InboxesFilled'
  <2>1. /\ inbox \in [Sessions -> Seq(Message)] /\ inbox[s] # <<>>
        /\ inbox' = [inbox EXCEPT ![s] = Tail(@)]
    BY <1>2 DEF PubNotify, Goto, Sound, BrokerTypeOK, MessageAtHand
  <2>2. ASSUME NEW t \in Sessions, NEW k \in 1..Len(inbox'[t])
        PROVE  inbox'[t][k] \in Texts
    <3>1. CASE t = s
      <4>1. inbox'[t] = Tail(inbox[s])
        BY <2>1, <3>1
      <4>2. PICK q \in Seq(Message) : q = inbox[s] /\ q # <<>>
        BY <2>1
      <4>3. k + 1 \in 1..Len(q) /\ inbox'[t][k] = q[k + 1]
        BY <2>2, <4>1, <4>2, TailOf
      <4> QED
        BY <4>2, <4>3 DEF InboxesFilled
    <3>2. CASE t # s
      BY <2>1, <2>2, <3>2 DEF InboxesFilled
    <3> QED
      BY <3>1, <3>2
  <2> QED
    BY <2>2 DEF InboxesFilled
<1>3. ASSUME NEW s \in Sessions, Leave(s) \/ ReadCodeAlone(s)
      PROVE  InboxesFilled'
  <2>1. /\ inbox \in [Sessions -> Seq(Message)]
        /\ \/ inbox' = [inbox EXCEPT ![s] = <<>>]
           \/ \E m \in Texts : inbox' = [inbox EXCEPT ![s] = <<m>>]
    BY <1>3 DEF Leave, ReadCodeAlone, Leftovers, Sound, BrokerTypeOK
  <2>2. ASSUME NEW t \in Sessions, NEW k \in 1..Len(inbox'[t])
        PROVE  inbox'[t][k] \in Texts
    <3>1. CASE t = s
      BY <2>1, <2>2, <3>1
    <3>2. CASE t # s
      BY <2>1, <2>2, <3>2 DEF InboxesFilled
    <3> QED
      BY <3>1, <3>2
  <2> QED
    BY <2>2 DEF InboxesFilled
<1> QED
  BY <1>1, <1>2, <1>3, ClientsEffect

LEMMA OnlyTheLiving ==
  ASSUME BrokerNext
  PROVE  ~exited
<1>1. PICK s \in Sessions :
        \/ s \in Publishers /\ PublisherStep(s)
        \/ s \in Subscribers /\ (SubscriberStep(s) \/ SpuriousWake(s))
        \/ s \in Managers /\ ManagerStep(s)
        \/ ClientStep(s)
  BY EveryStepIsSomeones
<1>2. CASE PublisherStep(s)
  BY <1>2 DEF PublisherStep, PubOpen, PubFind, PubCheck, PubClaim, PubName, PubRefuse, PubAttach,
              Eof, PubLock, PubWrite, PubTerminate, PubNotify, PubEnd, Find, Goto, Alive
<1>3. CASE SubscriberStep(s) \/ SpuriousWake(s)
  BY <1>3 DEF SubscriberStep, Register, SubOpen, SubFind, Loop, SubLock, SubRead, SpuriousWake,
              Wake, Refind, Deliver, SubEnd, Find, Goto, Alive
<1>4. CASE ManagerStep(s)
  BY <1>4 DEF ManagerStep, CreateFind, CreateOpen, CreateClose, CreateAdd, AddPastArray,
              RemoveUnlink, RemoveFind, RemoveBroadcast, RemoveLock, RemovePipe, Swap, Exchange,
              SwapWithNone, OutOfArray, RemoveEnd, Reply, Find, Goto, Alive
<1>5. CASE ClientStep(s)
  BY <1>5 DEF ClientStep, Start, ReadCode, ReadCodeAlone, Leave, BrokenPipe, Find, Goto, Alive
<1> QED
  BY <1>1, <1>2, <1>3, <1>4, <1>5

\* What is known until the first removal.
LEMMA CalmFacts ==
  ASSUME LogIInv, NoRemovalYet, ~exited
  PROVE  Calm /\ LogsKept /\ NoFileNoLog
BY DEF LogIInv, Logs, FilesIInv, CalmIInv, CountIInv, AgreeIInv, Calm

LEMMA LogsStutter ==
  ASSUME UNCHANGED brokerVars, Logs
  PROVE  Logs'
<1>1. /\ UNCHANGED <<dir_entry, open_file_table, pc, frame, inbox, received, published>>
      /\ \A f : Text(f)' = Text(f)
      /\ \A b, f : FileIs(b, f)' <=> FileIs(b, f)
  BY FilesStutter DEF brokerVars, fsVars, clients, SameText
<1>2. \A b, text, log, e : LogAt(b, text, log, e) => LogAt(b, text, log, e)'
  BY <1>1 DEF LogAt, Ended, Pending, Handle, Reading, ReaderAt, Offset
<1>3. LogsKept'
  BY <1>1, <1>2 DEF Logs, LogsKept
<1>4. NoFileNoLog' /\ Newcomers'
  BY <1>1 DEF Logs, NoFileNoLog, HasFile, Matches, Newcomers
<1> QED
  BY <1>3, <1>4 DEF Logs

LEMMA LogStep ==
  ASSUME ManagersTakeTurns, PublishersTakeTurns, RoomForFiles, LogIInv, [BrokerNext]_brokerVars
  PROVE  LogIInv'
<1>1. FilesIInv'
  BY FilesStep DEF LogIInv
<1>2. CASE BrokerNext
  <2>1. Sound /\ InboxesFilled /\ ~exited
    BY <1>2, OnlyTheLiving DEF LogIInv, FilesIInv, CountIInv, AgreeIInv
  <2>2. InboxesFilled'
    BY <1>2, <2>1, InboxesStep
  <2>3. ASSUME NoRemovalYet', ~exited'
        PROVE  Logs'
    <3>1. NoRemovalYet
      BY <1>2, <2>1, <2>3, SoundPcs, RemovalsStayBegun
    <3>2. Calm /\ LogsKept /\ NoFileNoLog
      BY <2>1, <3>1, CalmFacts
    <3>3. Sound'
      BY <1>1 DEF FilesIInv, CountIInv, AgreeIInv
    <3>4. LogsKept' /\ NoFileNoLog'
      BY <1>2, <2>3, <3>2, <3>3, LogsKeptStep, NoFileNoLogStep
    <3>5. Newcomers'
      BY <1>2, <2>3, <3>2, NewcomersStep DEF Calm, Files
    <3> QED
      BY <3>4, <3>5 DEF Logs
  <2> QED
    BY <1>1, <2>2, <2>3 DEF LogIInv
<1>3. CASE UNCHANGED brokerVars
  <2>1. InboxesFilled' /\ (exited' <=> exited) /\ (NoRemovalYet' => NoRemovalYet)
    BY <1>3, FilesStutter DEF LogIInv, InboxesFilled, brokerVars, clients
  <2> QED
    BY <1>1, <1>3, <2>1, LogsStutter DEF LogIInv
<1> QED
  BY <1>2, <1>3

LEMMA LogInit == BrokerInit => LogIInv
<1> SUFFICES ASSUME BrokerInit PROVE LogIInv
  OBVIOUS
<1>1. FilesIInv
  BY FilesInit DEF SizesIInv
<1>2. InboxesFilled
  <2>1. ASSUME NEW s \in Sessions, NEW k \in 1..Len(inbox[s])
        PROVE  inbox[s][k] \in Texts
    <3>1. inbox[s] = Request[s].messages /\ Request[s].messages \in Seq(Message)
      BY RequestFacts DEF BrokerInit
    <3>2. k \in DOMAIN Request[s].messages
      BY <2>1, <3>1
    <3>3. <<s, k>> \in Asked
      BY <3>2 DEF Asked
    <3> QED
      BY <3>1, <3>3 DEF Texts
  <2> QED
    BY <2>1 DEF InboxesFilled
<1>3. \A b, f : ~FileIs(b, f)
  BY DEF BrokerInit, FSInit, FileIs, Matches, EmptySlot
<1>4. Logs
  BY <1>3 DEF BrokerInit, Logs, LogsKept, NoFileNoLog, Newcomers, Subscribers
<1> QED
  BY <1>1, <1>2, <1>4 DEF LogIInv
-----------------------------------------------------------------------------
(* The promise of a box.                                                   *)

\* Nobody asks for a box to be removed.
NobodyRemoves == \A s \in Sessions : Request[s].kind # "remove"

\* What is visible of a box: its log, what subscribers were sent, and who waits.
Sent   == [t \in Subscribers |-> received[t]]
Served == {t \in Subscribers : pc[t] \in SubscriberLocated}

LEMMA PromiseViews ==
  /\ Promise!boxVars = <<published, Sent, Served>>
  /\ Promise!boxVars' = <<published', Sent', Served'>>
BY DEF Promise!boxVars, Sent, Served, SubscriberLocated

LEMMA PublishView ==
  ASSUME NEW b \in Names, NEW m \in Texts, published' = [published EXCEPT ![b] = Append(@, m)],
         Sent' = Sent, Served' = Served
  PROVE  Promise!BoxNext
<1>1. Promise!Publish(b, m)
  BY DEF Promise!Publish, Sent, Served, SubscriberLocated
<1> QED
  BY <1>1 DEF Promise!BoxNext

LEMMA SubscribeView ==
  ASSUME NEW t \in Subscribers, t \notin Served, Served' = Served \cup {t}, published' = published, Sent' = Sent
  PROVE  Promise!BoxNext
<1>1. Promise!Subscribe(t)
  BY DEF Promise!Subscribe, Sent, Served, SubscriberLocated
<1> QED
  BY <1>1 DEF Promise!BoxNext

LEMMA SendView ==
  ASSUME NEW t \in Subscribers, t \in Served, Len(received[t]) < Len(published[Request[t].box]),
         Sent' = [Sent EXCEPT ![t] = Append(@, published[Request[t].box][Len(@) + 1])],
         published' = published, Served' = Served
  PROVE  Promise!BoxNext
<1>1. BoxWanted[t] = Request[t].box
  BY DEF BoxWanted
<1>2. Sent[t] = received[t]
  BY DEF Sent
<1>3. Promise!Send(t)
  BY <1>1, <1>2 DEF Promise!Send, Sent, Served, SubscriberLocated
<1> QED
  BY <1>3 DEF Promise!BoxNext

\* The steps that a client sees are those of a publisher that ends a message, and those
\* of a subscriber that begins to wait or delivers.
LEMMA HiddenStep ==
  ASSUME Sound, HandlesOwned, Agreement, SubscribersLocated, BrokerNext,
         \A s \in Sessions : ~PubTerminate(s) /\ ~Deliver(s) /\ ~SubFind(s)
  PROVE  published' = published /\ Sent' = Sent /\ Served' = Served
<1>1. published' = published /\ Sent' = Sent
  BY ClientsEffect DEF Sent
<1>2. ASSUME NEW t \in Subscribers
      PROVE  pc'[t] \in SubscriberLocated <=> pc[t] \in SubscriberLocated
  <2>1. t \in Sessions /\ t \notin Publishers /\ t \notin Managers /\ pc \in [Sessions -> Steps]
    BY RequestFacts DEF Subscribers, Publishers, Managers, Sound, BrokerTypeOK
  <2>2. PICK s \in Sessions :
          \/ s \in Publishers /\ PublisherStep(s)
          \/ s \in Subscribers /\ (SubscriberStep(s) \/ SpuriousWake(s))
          \/ s \in Managers /\ ManagerStep(s)
          \/ ClientStep(s)
    BY EveryStepIsSomeones
  <2>3. CASE s # t
    <3>1. pc'[t] = pc[t]
      BY <2>1, <2>2, <2>3, StepsAreApart DEF Only
    <3> QED
      BY <3>1
  <2>4. CASE s = t
    <3>1. CASE Loop(t) \/ SubLock(t) \/ Wake(t) \/ Refind(t) \/ SpuriousWake(t)
      <4>1. pc[t] \in SubscriberLocated
        BY <3>1 DEF Loop, SubLock, Wake, Refind, SpuriousWake, Find, Goto, SubscriberLocated
      <4> QED
        BY <3>1, <4>1, ReaderWaits
    <3>2. CASE SubRead(t)
      BY <2>1, <3>2 DEF SubRead, Goto, SubscriberLocated
    <3>3. CASE Register(t) \/ SubOpen(t) \/ SubEnd(t) \/ ClientStep(t)
      BY <3>3, ReaderComes DEF ReadingPcs, SubscriberLocated
    <3> QED
      BY <2>1, <2>2, <2>4, <3>1, <3>2, <3>3 DEF SubscriberStep
  <2> QED
    BY <2>3, <2>4
<1> QED
  BY <1>1, <1>2 DEF Served

LEMMA PublishStep ==
  ASSUME Sound, InboxesFilled, NEW s \in Sessions, PubTerminate(s)
  PROVE  Promise!BoxNext \/ Promise!boxVars' = Promise!boxVars
<1>1. s \in Publishers /\ pc[s] = "pubTerminate" /\ UNCHANGED received /\ Request[s].box \in Names
  BY WriterWrites, RequestFacts DEF PubTerminate, Goto, clients
<1>2. Sent' = Sent
  BY <1>1 DEF Sent
<1>3. Served' = Served
  <2>1. \A t \in Subscribers : t \in Sessions /\ t # s
    BY <1>1, RequestFacts DEF Publishers, Subscribers
  <2>2. Only(s)
    BY <1>1, StepsAreApart DEF PublisherStep
  <2> QED
    BY <2>1, <2>2 DEF Only, Served
<1>4. published' = published \/ published' = [published EXCEPT ![Request[s].box] = Append(@, Head(inbox[s]))]
  BY DEF PubTerminate, Published
<1>5. Head(inbox[s]) \in Texts
  <2>1. inbox[s] \in Seq(Message) /\ inbox[s] # <<>>
    BY <1>1 DEF Sound, BrokerTypeOK, MessageAtHand
  <2>2. 1 \in 1..Len(inbox[s]) /\ Head(inbox[s]) = inbox[s][1]
    BY <2>1
  <2> QED
    BY <2>2 DEF InboxesFilled
<1> QED
  BY <1>1, <1>2, <1>3, <1>4, <1>5, PublishView, PromiseViews

LEMMA SubscribeStep ==
  ASSUME Sound, NEW s \in Sessions, SubFind(s)
  PROVE  Promise!BoxNext \/ Promise!boxVars' = Promise!boxVars
<1>1. s \in Subscribers /\ pc \in [Sessions -> Steps] /\ UNCHANGED <<received, published>>
  BY RequestFacts DEF SubFind, Find, Goto, Sound, BrokerTypeOK, StepsInKind, Kinds, PublisherPcs,
                      CreatorPcs, RemoverPcs
<1>2. /\ pc[s] \in {"subFind", "subFindRefused"}
      /\ \E to \in {"done", "loop"} : pc' = [pc EXCEPT ![s] = to]
  BY DEF SubFind, Find, Goto
<1>3. PICK to \in {"done", "loop"} : pc' = [pc EXCEPT ![s] = to]
  BY <1>2
<1>4. Sent' = Sent /\ published' = published
  BY <1>1 DEF Sent
<1>5. s \notin Served
  BY <1>2 DEF Served, SubscriberLocated
<1>6. \A t \in Subscribers \ {s} : pc'[t] = pc[t]
  BY <1>1, <1>3 DEF Subscribers
<1>7. pc'[s] = to
  BY <1>1, <1>3
<1>8. CASE to = "loop"
  <2>1. Served' = Served \cup {s}
    BY <1>1, <1>6, <1>7, <1>8 DEF Served, SubscriberLocated
  <2> QED
    BY <1>1, <1>4, <1>5, <2>1, SubscribeView
<1>9. CASE to = "done"
  <2>1. Served' = Served
    BY <1>1, <1>5, <1>6, <1>7, <1>9 DEF Served, SubscriberLocated
  <2> QED
    BY <1>4, <2>1, PromiseViews
<1> QED
  BY <1>8, <1>9

LEMMA SendStep ==
  ASSUME Calm, LogsKept, NEW s \in Sessions, Deliver(s)
  PROVE  Promise!BoxNext \/ Promise!boxVars' = Promise!boxVars
<1>1. Sound /\ HandlesOwned /\ NoBlockLost
  BY DEF Calm, Files
<1>2. s \in Subscribers /\ UNCHANGED published
  BY <1>1, RequestFacts DEF Deliver, Goto, Sound, StepsInKind, Kinds, PublisherPcs, CreatorPcs,
                            RemoverPcs
<1>3. /\ pc[s] = "deliver" /\ pc' = [pc EXCEPT ![s] = "loop"] /\ pc \in [Sessions -> Steps]
      /\ received \in [Sessions -> Seq(Message)]
  BY <1>1 DEF Deliver, Goto, Sound, BrokerTypeOK
<1>4. Served' = Served /\ s \in Served
  <2>1. \A t \in Subscribers : pc'[t] \in SubscriberLocated <=> pc[t] \in SubscriberLocated
    BY <1>3 DEF Subscribers, SubscriberLocated
  <2> QED
    BY <1>2, <1>3, <2>1 DEF Served, SubscriberLocated
<1>5. CASE received' = received
  BY <1>2, <1>4, <1>5, PromiseViews DEF Sent
<1>6. CASE exited'
  <2>1. received' = received \/ ~exited
    BY DEF Deliver, Goto, Alive
  <2>2. received' = received
    BY <1>6, <2>1 DEF Deliver
  <2> QED
    BY <1>5, <2>2
<1>7. CASE ~exited' /\ received' # received
  <2>1. Reading(s)
    BY <1>1, <1>3 DEF Reading, ReadingPcs, SubscriberLocated, HandlesOwned, Opened
  <2>2. PICK f : FileIs(Request[s].box, f)
    BY <1>1, <1>3, <2>1, OwnFile DEF Reading, Over
  <2>3. PICK text, log : text = Text(f) /\ log = published[Request[s].box]
    OBVIOUS
  <2>4. PICK e : LogAt(Request[s].box, text, log, e)
    BY <2>2, <2>3 DEF LogsKept
  <2>5. text \in Seq(Bytes) /\ log \in Seq(Message)
    <3>1. f \in takenInodes \ {ROOT_DIR_INUM} /\ Request[s].box \in Names
      BY <1>1, <2>2, FileFacts DEF Sound
    <3> QED
      BY <1>1, <2>3, <3>1, TextTypes DEF Sound, BrokerTypeOK
  <2>6. Cut(text, log, e) /\ ReaderAt(s, text, log, e)
    BY <1>2, <2>1, <2>4 DEF LogAt
  <2>7. /\ received' = [received EXCEPT ![s] = Append(@, frame[s].buffer)]
        /\ Len(received[s]) < Len(log) /\ frame[s].buffer = log[Len(received[s]) + 1]
    BY <1>1, <1>2, <1>7, <2>1, <2>2, <2>5, <2>6, DeliverFacts
  <2>8. Sent' = [Sent EXCEPT ![s] = Append(@, log[Len(@) + 1])]
    <3>1. PICK m : m = frame[s].buffer
      OBVIOUS
    <3>2. /\ received'[s] = Append(received[s], m)
          /\ \A t \in Subscribers \ {s} : received'[t] = received[t]
      BY <1>2, <1>3, <2>7, <3>1 DEF Subscribers
    <3>3. Sent[s] = received[s] /\ m = log[Len(received[s]) + 1]
      BY <1>2, <2>7, <3>1 DEF Sent
    <3> QED
      BY <1>2, <3>2, <3>3 DEF Sent
  <2> QED
    BY <1>2, <1>4, <2>3, <2>7, <2>8, SendView
<1> QED
  BY <1>5, <1>6, <1>7

LEMMA PromiseStep ==
  ASSUME LogIInv, NoRemovalYet, [BrokerNext]_brokerVars
  PROVE  [Promise!BoxNext]_(Promise!boxVars)
<1>1. CASE BrokerNext
  <2>1. Calm /\ LogsKept /\ InboxesFilled
    BY <1>1, OnlyTheLiving, CalmFacts DEF LogIInv
  <2>2. Sound /\ HandlesOwned /\ Agreement /\ SubscribersLocated
    BY <2>1 DEF Calm, Files
  <2>3. CASE \A s \in Sessions : ~PubTerminate(s) /\ ~Deliver(s) /\ ~SubFind(s)
    BY <1>1, <2>2, <2>3, HiddenStep, PromiseViews
  <2> QED
    BY <2>1, <2>2, <2>3, PublishStep, SubscribeStep, SendStep
<1>2. CASE UNCHANGED brokerVars
  <2>1. published' = published /\ Sent' = Sent /\ Served' = Served
    BY <1>2 DEF brokerVars, clients, Sent, Served
  <2> QED
    BY <2>1, PromiseViews
<1> QED
  BY <1>1, <1>2

\* While nobody asks for a box to be removed, a box is a log: whatever publishers and
\* subscribers there are and however their steps fall, a subscriber is sent whole
\* messages, from the first on, each once and in the order they were published.
THEOREM BoxKeepsPromise ==
  ASSUME ManagersTakeTurns, PublishersTakeTurns, RoomForFiles, NobodyRemoves
  PROVE  BrokerSpec => MessagesInOrder
<1>1. NoRemovalYet
  BY DEF NobodyRemoves, NoRemovalYet
<1>2. BrokerInit => Promise!BoxInit
  BY DEF BrokerInit, Promise!BoxInit, Subscribers
<1>3. LogIInv /\ [BrokerNext]_brokerVars => [Promise!BoxNext]_(Promise!boxVars)
  BY <1>1, PromiseStep
<1> QED
  BY <1>2, <1>3, LogInit, LogStep, PTL DEF BrokerSpec, MessagesInOrder, Promise!BoxSafety
=============================================================================

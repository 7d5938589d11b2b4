---------------------------- MODULE Broker_proof ----------------------------
(***************************************************************************)
(* The sessions of the broker on any number of boxes, for any requests.    *)
(*                                                                         *)
(* The types of all that the sessions share and keep, and the step that    *)
(* shows that, as long as no removal has begun, every session that uses a  *)
(* handle has one of its own that is open on the file of its box.  That    *)
(* the array of boxes does not overflow meanwhile is in Registry_proof,    *)
(* and so is what holds beyond a removal, which frees a file under the     *)
(* handles that others have on it.                                         *)
(***************************************************************************)
EXTENDS Broker, TFS_proof, WellFoundedInduction

PublisherPcs  == {"none", "pubOpen", "pubFind", "pubCheck", "pubClaim", "pubName", "pubRefuse",
                  "pubAttach", "readCode", "pubLock", "pubWrite", "pubTerminate", "pubNotify", "pubEnd",
                  "done"}
SubscriberPcs == {"none", "register", "subOpen", "subOpenRefused", "subFind", "subFindRefused",
                  "loop", "subLock", "subRead", "asleep", "refind", "deliver", "subEnd", "done"}
CreatorPcs    == {"none", "createFind", "createOpen", "createClose", "createAdd",
                  "replyYes", "replyNo", "done"}
RemoverPcs    == {"none", "removeUnlink", "removeFind", "removeBroadcast", "removeLock",
                  "removePipe", "swapName", "swapPublisher", "swapSize", "swapCount", "removeEnd",
                  "replyYes", "replyNo", "done"}

\* A session is where its kind of request can take it.
StepsInKind ==
  \A s \in Sessions :
    /\ Request[s].kind = "publisher"  => pc[s] \in PublisherPcs
    /\ Request[s].kind = "subscriber" => pc[s] \in SubscriberPcs
    /\ Request[s].kind = "create"     => pc[s] \in CreatorPcs
    /\ Request[s].kind = "remove"     => pc[s] \in RemoverPcs

\* A publisher that serves a message has one.
MessageAtHand ==
  \A s \in Sessions : pc[s] \in {"pubLock", "pubWrite", "pubTerminate", "pubNotify"} => inbox[s] # <<>>

\* A removal is of a box it has found.  In delete_box it holds mutex, so that the box
\* it saw last is there until the end.
HasFound == {"removeBroadcast", "removeLock"} \cup Deleting
HasLast  == {"swapPublisher", "swapSize", "swapCount", "removeEnd"}

RemovalsInOrder ==
  \A s \in Sessions :
    /\ pc[s] \in HasFound => Index(s) # -1
    /\ pc[s] \in Deleting => mutex = s
    /\ pc[s] \in HasLast => n_boxes > 0

\* What holds whatever is asked.
Sound == BrokerTypeOK /\ DirectoryConsistent /\ BlocksOwned /\ StepsInKind /\ MessageAtHand
         /\ RemovalsInOrder

LEMMA RequestFacts ==
  ASSUME NEW s \in Sessions
  PROVE  /\ Request[s].kind \in Kinds /\ Request[s].box \in Names
         /\ Request[s].messages \in Seq(Message)
         /\ s \in Publishers <=> Request[s].kind = "publisher"
         /\ s \in Subscribers <=> Request[s].kind = "subscriber"
         /\ s \in Managers <=> Request[s].kind \in {"create", "remove"}
BY BrokerAssumption DEF Publishers, Subscribers, Managers

LEMMA SoundFS == Sound => IInv
BY DEF Sound, BrokerTypeOK, IInv
-----------------------------------------------------------------------------
(* What find_box finds.                                                    *)

LEMMA Smallest ==
  ASSUME NEW S \in SUBSET Nat, S # {}
  PROVE  \E x \in S : IsFirst(x, S)
<1> DEFINE R == {ss \in Nat \X Nat : ss[1] < ss[2]}
<1>1. IsWellFoundedOn(R, Nat)
  BY NatLessThanWellFounded DEF OpToRel
<1>2. PICK x \in S : \A y \in S : <<y, x>> \notin R
  <2> HIDE DEF R
  <2> QED
    BY <1>1, WFMin
<1>3. \A y \in S : ~(y < x)
  BY <1>2
<1>4. \A y \in S : x <= y
  BY <1>3
<1> QED
  BY <1>4 DEF IsFirst

LEMMA FindFacts ==
  ASSUME n_boxes \in 0..MaxBoxes, NEW name
  PROVE  /\ find_box(name) \in Indices \cup {-1}
         /\ find_box(name) # -1 => /\ find_box(name) \in 0..(n_boxes - 1)
                                   /\ boxes[find_box(name)].box_name = name
         /\ find_box(name) = -1 <=> ~InRegistry(name)
<1> DEFINE found == {i \in 0..(n_boxes - 1) : boxes[i].box_name = name}
<1>1. 0..(n_boxes - 1) \subseteq Indices /\ -1 \notin 0..(n_boxes - 1) /\ 0..(n_boxes - 1) \subseteq Nat
  BY BrokerAssumption DEF Indices
<1>2. find_box(name) = IF found = {} THEN -1 ELSE CHOOSE i \in found : IsFirst(i, found)
  BY DEF find_box
<1>3. found # {} => (CHOOSE i \in found : IsFirst(i, found)) \in found
  BY <1>1, Smallest
<1> QED
  BY <1>1, <1>2, <1>3 DEF InRegistry
-----------------------------------------------------------------------------
(* Which steps change what.                                                *)

MovesTo(s, to) == pc' = [pc EXCEPT ![s] = to]

\* A session goes where its kind of request can take it.
LEMMA PcEffect ==
  ASSUME pc \in [Sessions -> Steps], StepsInKind, BrokerNext
  PROVE  pc' \in [Sessions -> Steps] /\ StepsInKind'
<1>1. ASSUME NEW s \in Publishers, PublisherStep(s)
      PROVE  \E to \in PublisherPcs : MovesTo(s, to)
  BY <1>1 DEF PublisherStep, PubOpen, PubFind, PubCheck, PubClaim, PubName, PubRefuse, PubAttach,
              Eof, PubLock, PubWrite, PubTerminate, PubNotify, PubEnd, Goto, Find, PublisherPcs,
              MovesTo
<1>2. ASSUME NEW s \in Subscribers, SubscriberStep(s)
      PROVE  \E to \in SubscriberPcs : MovesTo(s, to)
  BY <1>2 DEF SubscriberStep, Register, SubOpen, SubFind, Loop, SubLock, SubRead, Wake, Refind,
              Deliver, SubEnd, Goto, Find, SubscriberPcs, MovesTo
<1>3. ASSUME NEW s \in Managers, ManagerStep(s)
      PROVE  \E to \in Steps : /\ MovesTo(s, to)
                               /\ Request[s].kind = "create" => to \in CreatorPcs
                               /\ Request[s].kind = "remove" => to \in RemoverPcs
  <2>1. /\ Request[s].kind = "create" => pc[s] \in CreatorPcs
        /\ Request[s].kind = "remove" => pc[s] \in RemoverPcs
    BY DEF StepsInKind, Managers
  <2> QED
    BY <1>3, <2>1 DEF ManagerStep, CreateFind, CreateOpen, CreateClose, CreateAdd, AddPastArray,
                      RemoveUnlink, RemoveFind, RemoveBroadcast, RemoveLock, RemovePipe, Swap,
                      Exchange, SwapWithNone, OutOfArray, RemoveEnd, Reply, Goto, Find, CreatorPcs,
                      RemoverPcs, Steps, MovesTo
<1>4. ASSUME NEW s \in Sessions, Start(s)
      PROVE  \E to \in Steps : /\ MovesTo(s, to)
                               /\ Request[s].kind = "publisher" => to \in PublisherPcs
                               /\ Request[s].kind = "subscriber" => to \in SubscriberPcs
                               /\ Request[s].kind = "create" => to \in CreatorPcs
                               /\ Request[s].kind = "remove" => to \in RemoverPcs
  BY <1>4, RequestFacts DEF Start, Goto, Kinds, Steps, PublisherPcs, SubscriberPcs, CreatorPcs,
                            RemoverPcs, MovesTo
<1>5. ASSUME NEW s \in Sessions, ReadCode(s) \/ ReadCodeAlone(s)
      PROVE  s \in Publishers /\ \E to \in PublisherPcs : MovesTo(s, to)
  <2>1. pc[s] = "readCode"
    BY <1>5 DEF ReadCode, ReadCodeAlone, Find, Goto
  <2>2. s \in Publishers
    BY <2>1, RequestFacts DEF StepsInKind, Kinds, SubscriberPcs, CreatorPcs, RemoverPcs
  <2> QED
    BY <1>5, <2>2 DEF ReadCode, ReadCodeAlone, Find, Goto, PublisherPcs, MovesTo
<1>6. ASSUME NEW s \in Sessions, Leave(s) \/ SpuriousWake(s) \/ BrokenPipe(s)
      PROVE  UNCHANGED pc
  BY <1>6 DEF Leave, SpuriousWake, BrokenPipe
<1>7. CASE UNCHANGED pc
  BY <1>7 DEF StepsInKind
<1>8. ASSUME NEW s \in Sessions, NEW to \in Steps,
             /\ MovesTo(s, to)
             /\ Request[s].kind = "publisher" => to \in PublisherPcs
             /\ Request[s].kind = "subscriber" => to \in SubscriberPcs
             /\ Request[s].kind = "create" => to \in CreatorPcs
             /\ Request[s].kind = "remove" => to \in RemoverPcs
      PROVE  pc' \in [Sessions -> Steps] /\ StepsInKind'
  BY <1>8 DEF StepsInKind, MovesTo
<1>9. PublisherPcs \subseteq Steps /\ SubscriberPcs \subseteq Steps
  BY DEF PublisherPcs, SubscriberPcs, Steps
<1>10. ASSUME NEW s \in Sessions,
              \/ s \in Publishers /\ \E to \in PublisherPcs : MovesTo(s, to)
              \/ s \in Subscribers /\ \E to \in SubscriberPcs : MovesTo(s, to)
       PROVE  pc' \in [Sessions -> Steps] /\ StepsInKind'
  BY <1>8, <1>9, <1>10, RequestFacts
<1>11. CASE \E s \in Publishers : PublisherStep(s)
  BY <1>1, <1>10, <1>11 DEF Publishers
<1>12. CASE \E s \in Subscribers : SubscriberStep(s)
  BY <1>2, <1>10, <1>12 DEF Subscribers
<1>13. CASE \E s \in Managers : ManagerStep(s)
  <2>1. PICK s \in Managers : ManagerStep(s)
    BY <1>13
  <2>2. s \in Sessions /\ Request[s].kind \notin {"publisher", "subscriber"}
    BY DEF Managers
  <2>3. PICK to \in Steps : /\ MovesTo(s, to)
                            /\ Request[s].kind = "create" => to \in CreatorPcs
                            /\ Request[s].kind = "remove" => to \in RemoverPcs
    BY <1>3, <2>1
  <2> QED
    BY <1>8, <2>2, <2>3
<1>14. CASE \E s \in Sessions : Start(s)
  <2>1. PICK s \in Sessions : Start(s)
    BY <1>14
  <2>2. PICK to \in Steps : /\ MovesTo(s, to)
                            /\ Request[s].kind = "publisher" => to \in PublisherPcs
                            /\ Request[s].kind = "subscriber" => to \in SubscriberPcs
                            /\ Request[s].kind = "create" => to \in CreatorPcs
                            /\ Request[s].kind = "remove" => to \in RemoverPcs
    BY <1>4, <2>1
  <2> QED
    BY <1>8, <2>2
<1>15. CASE \E s \in Sessions : ReadCode(s) \/ ReadCodeAlone(s)
  BY <1>5, <1>10, <1>15
<1>16. CASE \E s \in Sessions : Leave(s) \/ SpuriousWake(s) \/ BrokenPipe(s)
  BY <1>6, <1>7, <1>16
<1> QED
  BY <1>11, <1>12, <1>13, <1>14, <1>15, <1>16 DEF BrokerNext, ClientStep, Subscribers

\* Only these steps touch the array of boxes.
LEMMA RegistryEffect ==
  ASSUME Sound, BrokerNext
  PROVE  \/ UNCHANGED registry
         \/ \E s \in Publishers : PubClaim(s) \/ PubName(s) \/ Eof(s) \/ PubTerminate(s)
         \/ \E s \in Managers : CreateAdd(s) \/ RemoveLock(s) \/ Swap(s) \/ RemoveEnd(s)
<1>1. ASSUME NEW s \in Publishers, PublisherStep(s)
      PROVE  UNCHANGED registry \/ PubClaim(s) \/ PubName(s) \/ Eof(s) \/ PubTerminate(s)
  BY <1>1 DEF PublisherStep, PubOpen, PubFind, PubCheck, PubRefuse, PubAttach, PubLock,
              PubWrite,
              PubNotify, PubEnd
<1>2. ASSUME NEW s \in Subscribers, SubscriberStep(s) \/ SpuriousWake(s)
      PROVE  UNCHANGED registry
  BY <1>2 DEF SubscriberStep, Register, SubOpen, SubFind, Loop, SubLock, SubRead, Wake, Refind,
              Deliver, SubEnd, SpuriousWake
<1>3. ASSUME NEW s \in Managers, ManagerStep(s)
      PROVE  UNCHANGED registry \/ CreateAdd(s) \/ RemoveLock(s) \/ Swap(s) \/ RemoveEnd(s)
  BY <1>3 DEF ManagerStep, CreateFind, CreateOpen, CreateClose, AddPastArray, RemoveUnlink,
              RemoveFind, RemoveBroadcast, RemovePipe, SwapWithNone, OutOfArray, Reply
<1>4. ASSUME NEW s \in Sessions, ClientStep(s)
      PROVE  UNCHANGED registry
  BY <1>4 DEF ClientStep, Start, ReadCode, ReadCodeAlone, Leave, BrokenPipe
<1> QED
  BY <1>1, <1>2, <1>3, <1>4 DEF BrokerNext
OpensFile(s)  == PubOpen(s) \/ PubRefuse(s) \/ PubAttach(s) \/ SubOpen(s) \/ CreateOpen(s)
ClosesFile(s) == PubEnd(s) \/ SubEnd(s) \/ CreateClose(s)

\* Only these steps touch the locals of a session.
FoundBy(s)  == frame' = [frame EXCEPT ![s].box_index = find_box(Request[s].box)]
OpenedBy(s) == \E ret \in Handles \cup {-1} : frame' = [frame EXCEPT ![s].box_handle = ret]

LEMMA FrameEffect ==
  ASSUME BrokerNext
  PROVE  \/ UNCHANGED frame
         \/ \E s \in Sessions : FoundBy(s) \/ (OpensFile(s) /\ OpenedBy(s))
         \/ \E s \in Subscribers : SubRead(s) \/ Deliver(s)
<1>1. ASSUME NEW s \in Publishers, PublisherStep(s)
      PROVE  UNCHANGED frame \/ FoundBy(s) \/ (OpensFile(s) /\ OpenedBy(s))
  BY <1>1 DEF PublisherStep, PubOpen, PubFind, PubCheck, PubClaim, PubName, PubRefuse, PubAttach,
              Eof, PubLock, PubWrite, PubTerminate, PubNotify, PubEnd, Find, OpenFileOfBox,
              FoundBy, OpenedBy, OpensFile
<1>2. ASSUME NEW s \in Subscribers, SubscriberStep(s)
      PROVE  UNCHANGED frame \/ FoundBy(s) \/ (OpensFile(s) /\ OpenedBy(s)) \/ SubRead(s) \/ Deliver(s)
  BY <1>2 DEF SubscriberStep, Register, SubOpen, SubFind, Loop, SubLock, Wake, Refind,
              SubEnd, Find, OpenFileOfBox, FoundBy, OpenedBy, OpensFile
<1>3. ASSUME NEW s \in Managers, ManagerStep(s)
      PROVE  UNCHANGED frame \/ FoundBy(s) \/ (OpensFile(s) /\ OpenedBy(s))
  BY <1>3 DEF ManagerStep, CreateFind, CreateOpen, CreateClose, CreateAdd, AddPastArray,
              RemoveUnlink, RemoveFind, RemoveBroadcast, RemoveLock, RemovePipe, Swap, Exchange,
              SwapWithNone, OutOfArray, RemoveEnd, Reply, Find, OpenFileOfBox, FoundBy, OpenedBy,
              OpensFile
<1>4. ASSUME NEW s \in Sessions, ClientStep(s)
      PROVE  UNCHANGED frame \/ FoundBy(s)
  BY <1>4 DEF ClientStep, Start, ReadCode, ReadCodeAlone, Leave, BrokenPipe, Find, FoundBy
<1>5. ASSUME NEW s \in Subscribers, SpuriousWake(s)
      PROVE  UNCHANGED frame
  BY <1>5 DEF SpuriousWake
<1> QED
  BY <1>1, <1>2, <1>3, <1>4, <1>5 DEF BrokerNext, Publishers, Subscribers, Managers
-----------------------------------------------------------------------------
(* Types.                                                                  *)

LEMMA HeadFacts ==
  ASSUME Sound, NEW s \in Sessions,
         pc[s] \in {"pubLock", "pubWrite", "pubTerminate", "pubNotify"}
  PROVE  /\ Head(inbox[s]) \in Message /\ Tail(inbox[s]) \in Seq(Message)
         /\ Head(inbox[s]) \in Seq(Bytes) /\ Len(Head(inbox[s])) \in Nat
<1>1. inbox[s] \in Seq(Message) /\ inbox[s] # <<>>
  BY DEF Sound, BrokerTypeOK, MessageAtHand
<1>2. Head(inbox[s]) \in Message /\ Tail(inbox[s]) \in Seq(Message)
  BY <1>1
<1>3. \A m \in Message : m \in Seq(Bytes) /\ Len(m) \in Nat
  BY DEF Message
<1> QED
  BY <1>2, <1>3

LEMMA RegistryTypes ==
  ASSUME Sound, BrokerNext
  PROVE  /\ boxes' \in [Indices -> Box] /\ n_boxes' \in 0..MaxBoxes
         /\ mutex' \in Sessions \cup {NoSession}
<1>1. /\ boxes \in [Indices -> Box] /\ n_boxes \in 0..MaxBoxes
      /\ mutex \in Sessions \cup {NoSession}
  BY DEF Sound, BrokerTypeOK
<1>2. CASE UNCHANGED registry
  BY <1>1, <1>2 DEF registry
<1>3. ASSUME NEW s \in Sessions, PubClaim(s) \/ PubName(s) \/ Eof(s)
      PROVE  boxes' \in [Indices -> Box] /\ UNCHANGED <<n_boxes, mutex>>
  <2>1. CASE PubClaim(s) \/ Eof(s)
    BY <1>1, <2>1 DEF PubClaim, Eof, Box
  <2>2. CASE PubName(s)
    <3>1. PICK t \in Sessions : boxes' = [boxes EXCEPT ![Index(s)].publisher = t]
      BY <2>2 DEF PubName, Latest
    <3>2. boxes' \in [Indices -> Box]
      BY <1>1, <3>1 DEF Box
    <3> QED
      BY <2>2, <3>2 DEF PubName
  <2> QED
    BY <1>3, <2>1, <2>2
<1>4. ASSUME NEW s \in Sessions, PubTerminate(s)
      PROVE  boxes' \in [Indices -> Box] /\ UNCHANGED <<n_boxes, mutex>>
  <2>1. pc[s] = "pubTerminate"
    BY <1>4 DEF PubTerminate, Goto
  <2>2. PICK n \in Nat : n = Len(Head(inbox[s]))
    BY <2>1, HeadFacts
  <2>3. /\ boxes' = [boxes EXCEPT ![Index(s)].box_size = @ + n]
        /\ UNCHANGED <<n_boxes, mutex>>
    BY <1>4, <2>2 DEF PubTerminate
  <2>4. \A i \in Indices : /\ boxes[i] \in Box /\ boxes[i].box_size \in Nat
                           /\ [boxes[i] EXCEPT !.box_size = boxes[i].box_size + n] \in Box
    BY <1>1 DEF Box
  <2> QED
    BY <1>1, <2>3, <2>4
<1>5. ASSUME NEW s \in Sessions, CreateAdd(s)
      PROVE  /\ boxes' \in [Indices -> Box] /\ n_boxes' \in 0..MaxBoxes
             /\ UNCHANGED mutex
  <2>1. n_boxes < MaxBoxes /\ n_boxes' = n_boxes + 1 /\ UNCHANGED mutex
    BY <1>5 DEF CreateAdd
  <2>2. [EmptyBox EXCEPT !.box_name = Request[s].box] \in Box
    BY RequestFacts DEF EmptyBox, Box
  <2>3. boxes' = [boxes EXCEPT ![n_boxes] = [EmptyBox EXCEPT !.box_name = Request[s].box]]
    BY <1>5 DEF CreateAdd
  <2>4. boxes' \in [Indices -> Box]
    BY <1>1, <2>2, <2>3
  <2>5. n_boxes + 1 \in 0..MaxBoxes
    BY <1>1, <2>1, BrokerAssumption
  <2> QED
    BY <2>1, <2>4, <2>5
<1>6. ASSUME NEW s \in Sessions, RemoveLock(s)
      PROVE  UNCHANGED <<boxes, n_boxes>> /\ mutex' = s
  BY <1>6 DEF RemoveLock
<1>7. ASSUME NEW s \in Sessions, Swap(s)
      PROVE  boxes' \in [Indices -> Box] /\ UNCHANGED <<n_boxes, mutex>>
  <2>1. Index(s) \in Indices
    <3>1. pc[s] \in HasFound
      BY <1>7 DEF Swap, Exchange, Goto, HasFound, Deleting
    <3> QED
      BY <3>1 DEF Sound, BrokerTypeOK, RemovalsInOrder, Index
  <2>2. n_boxes - 1 \in Indices
    <3>1. PICK n \in 0..MaxBoxes : n = n_boxes
      BY <1>1
    <3>2. n > 0
      BY <1>7, <3>1 DEF Swap, Exchange
    <3>3. n - 1 \in Indices
      BY <3>1, <3>2, BrokerAssumption DEF Indices
    <3> QED
      BY <3>1, <3>3
  <2>3. ASSUME NEW i \in Indices, NEW j \in Indices,
               NEW f \in {"box_name", "publisher", "box_size", "n_publishers"},
               boxes' = [boxes EXCEPT ![i][f] = boxes[j][f], ![j][f] = boxes[i][f]]
        PROVE  boxes' \in [Indices -> Box]
    <3>1. CASE f = "box_name"
      BY <1>1, <2>3, <3>1 DEF Box
    <3>2. CASE f = "publisher"
      BY <1>1, <2>3, <3>2 DEF Box
    <3>3. CASE f = "box_size"
      BY <1>1, <2>3, <3>3 DEF Box
    <3>4. CASE f = "n_publishers"
      BY <1>1, <2>3, <3>4 DEF Box
    <3> QED
      BY <3>1, <3>2, <3>3, <3>4
  <2>4. /\ UNCHANGED <<n_boxes, mutex>>
        /\ \E f \in {"box_name", "publisher", "box_size", "n_publishers"} :
             boxes' = [boxes EXCEPT ![Index(s)][f] = boxes[n_boxes - 1][f],
                                    ![n_boxes - 1][f] = boxes[Index(s)][f]]
    BY <1>7 DEF Swap, Exchange
  <2> QED
    BY <2>1, <2>2, <2>3, <2>4
<1>8. ASSUME NEW s \in Sessions, RemoveEnd(s)
      PROVE  n_boxes' \in 0..MaxBoxes /\ mutex' = NoSession /\ UNCHANGED boxes
  <2>1. /\ pc[s] \in HasLast
        /\ n_boxes' = n_boxes - 1 /\ mutex' = NoSession /\ UNCHANGED boxes
    BY <1>8 DEF RemoveEnd, Goto, HasLast
  <2>2. n_boxes > 0
    BY <2>1 DEF Sound, RemovalsInOrder
  <2>3. n_boxes - 1 \in 0..MaxBoxes
    BY <1>1, <2>2, BrokerAssumption
  <2> QED
    BY <2>1, <2>3
<1> QED
  BY <1>1, <1>2, <1>3, <1>4, <1>5, <1>6, <1>7, <1>8, RegistryEffect DEF Publishers, Managers
\* Only these steps touch the file system.
LEMMA FSEffect ==
  ASSUME BrokerNext
  PROVE  \/ UNCHANGED fsVars
         \/ \E s \in Sessions : \/ OpensFile(s) \/ ClosesFile(s) \/ PubWrite(s) \/ PubTerminate(s)
                                \/ SubRead(s) \/ RemoveUnlink(s)
         \/ \E s \in Managers : (AddPastArray(s) \/ SwapWithNone(s)) /\ OutOfArray
<1>1. ASSUME NEW s \in Publishers, PublisherStep(s)
      PROVE  UNCHANGED fsVars \/ OpensFile(s) \/ ClosesFile(s) \/ PubWrite(s) \/ PubTerminate(s)
  BY <1>1 DEF PublisherStep, PubFind, PubCheck, PubClaim, PubName, Eof, PubLock, PubNotify,
              OpensFile, ClosesFile
<1>2. ASSUME NEW s \in Subscribers, SubscriberStep(s)
      PROVE  UNCHANGED fsVars \/ OpensFile(s) \/ ClosesFile(s) \/ SubRead(s)
  BY <1>2 DEF SubscriberStep, Register, SubFind, Loop, SubLock, Wake, Refind, Deliver, OpensFile,
              ClosesFile
<1>3. ASSUME NEW s \in Managers, ManagerStep(s)
      PROVE  \/ UNCHANGED fsVars \/ OpensFile(s) \/ ClosesFile(s) \/ RemoveUnlink(s)
             \/ (AddPastArray(s) \/ SwapWithNone(s)) /\ OutOfArray
  BY <1>3 DEF ManagerStep, CreateFind, CreateAdd, AddPastArray, RemoveFind, RemoveBroadcast,
              RemoveLock, RemovePipe, Swap, Exchange, SwapWithNone, RemoveEnd, Reply, OpensFile,
              ClosesFile
<1>4. ASSUME NEW s \in Sessions, ClientStep(s)
      PROVE  UNCHANGED fsVars
  BY <1>4 DEF ClientStep, Start, ReadCode, ReadCodeAlone, Leave, BrokenPipe
<1>5. ASSUME NEW s \in Subscribers, SpuriousWake(s)
      PROVE  UNCHANGED fsVars
  BY <1>5 DEF SpuriousWake
<1> QED
  BY <1>1, <1>2, <1>3, <1>4, <1>5 DEF BrokerNext, Publishers, Subscribers, Managers

\* The messages and the terminators that are written are bytes.
LEMMA BrokerWrites ==
  ASSUME Sound, NEW s \in Sessions
  PROVE  /\ PubWrite(s) => /\ pc[s] = "pubWrite" /\ Head(inbox[s]) \in Seq(Bytes)
                           /\ \E ret : tfs_write(Handle(s), Head(inbox[s]), ret)
         /\ PubTerminate(s) => /\ pc[s] = "pubTerminate" /\ <<NUL>> \in Seq(Bytes)
                               /\ \E ret : tfs_write(Handle(s), <<NUL>>, ret)
<1>1. PubWrite(s) => /\ pc[s] = "pubWrite" /\ \E ret : tfs_write(Handle(s), Head(inbox[s]), ret)
  BY DEF PubWrite, Goto
<1>2. pc[s] = "pubWrite" => Head(inbox[s]) \in Seq(Bytes)
  BY HeadFacts
<1>3. PubTerminate(s) => /\ pc[s] = "pubTerminate" /\ \E ret : tfs_write(Handle(s), <<NUL>>, ret)
  BY DEF PubTerminate, Goto
<1>4. <<NUL>> \in Seq(Bytes)
  BY BrokerAssumption
<1> QED
  BY <1>1, <1>2, <1>3, <1>4

\* The tables of the file system stay consistent under the sessions.
LEMMA BrokerFSStep ==
  ASSUME Sound, BrokerNext
  PROVE  IInv'
<1> USE SoundFS
<1>1. CASE UNCHANGED fsVars
  BY <1>1, FSStutter
<1>2. ASSUME NEW name \in Names, NEW mode, NEW ret \in Handles \cup {-1}, tfs_open(name, mode, ret)
      PROVE  IInv'
  <2>1. CASE OpenExisting(name, mode, ret)
    BY <2>1, OpenExistingStep
  <2>2. CASE OpenCreating(name, mode, ret)
    BY <2>2, OpenCreatingStep
  <2>3. CASE OpenMissing(name, mode, ret)
    BY <2>3, FSStutter DEF OpenMissing
  <2> QED
    BY <1>2, <2>1, <2>2, <2>3 DEF tfs_open
<1>3. ASSUME NEW s \in Sessions, OpensFile(s)
      PROVE  IInv'
  BY <1>2, <1>3, RequestFacts
  DEF OpensFile, PubOpen, PubRefuse, PubAttach, SubOpen, CreateOpen, OpenFileOfBox
<1>4. ASSUME NEW s \in Sessions, ClosesFile(s)
      PROVE  IInv'
  BY <1>4, CloseStep DEF ClosesFile, PubEnd, SubEnd, CreateClose
<1>5. ASSUME NEW s \in Sessions, PubWrite(s) \/ PubTerminate(s)
      PROVE  IInv'
  BY <1>5, BrokerWrites, WriteStep
<1>6. ASSUME NEW s \in Sessions, SubRead(s)
      PROVE  IInv'
  BY <1>6, ReadStep DEF SubRead
<1>7. ASSUME NEW s \in Sessions, RemoveUnlink(s)
      PROVE  IInv'
  BY <1>7, UnlinkStep, RequestFacts DEF RemoveUnlink
<1>8. CASE OutOfArray
  <2>1. panicked' \in BOOLEAN
    <3>1. panicked' = TRUE
      BY <1>8 DEF OutOfArray
    <3> QED
      BY <3>1, Zenon
  <2>2. UNCHANGED <<takenInodes, inode_table, takenBlocks, fs_data, dir_entry, open_file_table>>
    BY <1>8 DEF OutOfArray
  <2>3. open_file_table' \in [Handles -> OpenFile \cup {FreeEntry}]
    BY <2>2 DEF IInv, FSTypeOK
  <2> QED
    BY <2>1, <2>2, <2>3, OnlyHandlesChange
<1> QED
  BY <1>1, <1>3, <1>4, <1>5, <1>6, <1>7, <1>8, FSEffect

\* Only these steps touch the monitors of the boxes.
LEMMA MonitorEffect ==
  ASSUME BrokerNext
  PROVE  \/ UNCHANGED monitors
         \/ \E s \in Sessions : \/ PubLock(s) \/ PubNotify(s) \/ SubLock(s) \/ SubRead(s)
                                \/ SpuriousWake(s) \/ Wake(s) \/ Deliver(s) \/ CreateAdd(s)
                                \/ RemoveBroadcast(s)
<1>1. ASSUME NEW s \in Publishers, PublisherStep(s)
      PROVE  UNCHANGED monitors \/ PubLock(s) \/ PubNotify(s)
  BY <1>1 DEF PublisherStep, PubOpen, PubFind, PubCheck, PubClaim, PubName, PubRefuse, PubAttach, Eof,
              PubWrite, PubTerminate, PubEnd
<1>2. ASSUME NEW s \in Subscribers, SubscriberStep(s)
      PROVE  UNCHANGED monitors \/ SubLock(s) \/ SubRead(s) \/ Wake(s) \/ Deliver(s)
  BY <1>2 DEF SubscriberStep, Register, SubOpen, SubFind, Loop, Refind, SubEnd
<1>3. ASSUME NEW s \in Managers, ManagerStep(s)
      PROVE  UNCHANGED monitors \/ CreateAdd(s) \/ RemoveBroadcast(s)
  BY <1>3 DEF ManagerStep, CreateFind, CreateOpen, CreateClose, AddPastArray, RemoveUnlink,
              RemoveFind, RemoveLock, RemovePipe, Swap, Exchange, SwapWithNone, OutOfArray, RemoveEnd, Reply
<1>4. ASSUME NEW s \in Sessions, ClientStep(s)
      PROVE  UNCHANGED monitors
  BY <1>4 DEF ClientStep, Start, ReadCode, ReadCodeAlone, Leave, BrokenPipe
<1> QED
  BY <1>1, <1>2, <1>3, <1>4 DEF BrokerNext, Publishers, Subscribers, Managers

LEMMA MonitorTypes ==
  ASSUME Sound, BrokerNext
  PROVE  /\ box_mutexes' \in [Indices -> Sessions \cup {NoSession}]
         /\ waiting' \in [Indices -> SUBSET Sessions]
<1>1. /\ box_mutexes \in [Indices -> Sessions \cup {NoSession}]
      /\ waiting \in [Indices -> SUBSET Sessions]
  BY DEF Sound, BrokerTypeOK
<1>2. CASE UNCHANGED monitors
  BY <1>1, <1>2 DEF monitors
<1>3. ASSUME NEW s \in Sessions,
             PubLock(s) \/ PubNotify(s) \/ SubLock(s) \/ SubRead(s) \/ SpuriousWake(s) \/ Wake(s)
      PROVE  /\ box_mutexes' \in [Indices -> Sessions \cup {NoSession}]
             /\ waiting' \in [Indices -> SUBSET Sessions]
  BY <1>1, <1>3
  DEF PubLock, PubNotify, SubLock, SubRead, SpuriousWake, Wake, LockBox, UnlockBox, monitors
<1>4. ASSUME NEW s \in Sessions, Deliver(s) \/ CreateAdd(s) \/ RemoveBroadcast(s)
      PROVE  /\ box_mutexes' \in [Indices -> Sessions \cup {NoSession}]
             /\ waiting' \in [Indices -> SUBSET Sessions]
  BY <1>1, <1>4 DEF Deliver, CreateAdd, RemoveBroadcast, UnlockBox, monitors
<1> QED
  BY <1>2, <1>3, <1>4, MonitorEffect
LEMMA FrameTypes ==
  ASSUME Sound, BrokerNext
  PROVE  frame' \in [Sessions -> [box_index : Indices \cup {-1}, box_handle : Handles \cup {-1},
                                  char_buffer : Bytes \cup {Unset}, buffer : Message]]
<1> DEFINE Frame == [box_index : Indices \cup {-1}, box_handle : Handles \cup {-1},
                     char_buffer : Bytes \cup {Unset}, buffer : Message]
<1>1. frame \in [Sessions -> Frame] /\ n_boxes \in 0..MaxBoxes
  BY DEF Sound, BrokerTypeOK
<1>2. CASE UNCHANGED frame
  BY <1>1, <1>2
<1>3. ASSUME NEW s \in Sessions, FoundBy(s)
      PROVE  frame' \in [Sessions -> Frame]
  BY <1>1, <1>3, FindFacts DEF FoundBy
<1>4. ASSUME NEW s \in Sessions, OpenedBy(s)
      PROVE  frame' \in [Sessions -> Frame]
  BY <1>1, <1>4 DEF OpenedBy
<1>5. ASSUME NEW s \in Sessions, SubRead(s)
      PROVE  frame' \in [Sessions -> Frame]
  <2>1. UNCHANGED frame \/ \E byte \in Bytes : frame' = [frame EXCEPT ![s].char_buffer = byte]
    BY <1>5 DEF SubRead
  <2> QED
    BY <1>1, <2>1
<1>6. ASSUME NEW s \in Sessions, Deliver(s)
      PROVE  frame' \in [Sessions -> Frame]
  <2>1. frame[s].char_buffer \in Bytes \cup {Unset} /\ frame[s].buffer \in Message
    BY <1>1
  <2>2. \/ UNCHANGED frame
        \/ frame' = [frame EXCEPT ![s].buffer = <<>>]
        \/ \E c \in Bytes \ {NUL} : frame' = [frame EXCEPT ![s].buffer = Append(@, c)]
    BY <1>6, <2>1 DEF Deliver
  <2>3. <<>> \in Message /\ \A c \in Bytes \ {NUL} : Append(frame[s].buffer, c) \in Message
    BY <2>1 DEF Message
  <2>4. ASSUME NEW m \in Message, frame' = [frame EXCEPT ![s].buffer = m]
        PROVE  frame' \in [Sessions -> Frame]
    BY <1>1, <2>4
  <2> HIDE DEF Frame
  <2>5. CASE UNCHANGED frame
    BY <1>1, <2>5
  <2>6. CASE frame' = [frame EXCEPT ![s].buffer = <<>>]
    BY <2>3, <2>4, <2>6
  <2>7. CASE \E c \in Bytes \ {NUL} : frame' = [frame EXCEPT ![s].buffer = Append(@, c)]
    <3>1. PICK c \in Bytes \ {NUL} : frame' = [frame EXCEPT ![s].buffer = Append(@, c)]
      BY <2>7
    <3>2. PICK m \in Message : m = Append(frame[s].buffer, c)
      BY <2>3
    <3>3. frame' = [frame EXCEPT ![s].buffer = m]
      BY <3>1, <3>2
    <3> QED
      BY <2>4, <3>3
  <2> QED
    BY <2>2, <2>5, <2>6, <2>7
<1> QED
  BY <1>2, <1>3, <1>4, <1>5, <1>6, FrameEffect DEF Subscribers

\* Which steps touch what the clients see.
LEMMA ClientsEffect ==
  ASSUME BrokerNext
  PROVE  /\ UNCHANGED inbox \/ \E s \in Sessions : PubNotify(s) \/ Leave(s) \/ ReadCodeAlone(s)
         /\ UNCHANGED received \/ \E s \in Sessions : Deliver(s)
         /\ UNCHANGED exited \/ \E s \in Sessions : Deliver(s) \/ BrokenPipe(s)
         /\ UNCHANGED reply \/ \E s \in Sessions : Reply(s)
         /\ UNCHANGED published \/ \E s \in Sessions : PubTerminate(s)
<1>1. ASSUME NEW s \in Publishers, PublisherStep(s)
      PROVE  /\ UNCHANGED inbox \/ PubNotify(s)
             /\ UNCHANGED published \/ PubTerminate(s)
             /\ UNCHANGED <<received, reply, exited>>
  BY <1>1 DEF PublisherStep, PubOpen, PubFind, PubCheck, PubClaim, PubName, PubRefuse, PubAttach,
              Eof, PubLock, PubWrite, PubTerminate, PubNotify, PubEnd, clients
<1>2. ASSUME NEW s \in Subscribers, SubscriberStep(s) \/ SpuriousWake(s)
      PROVE  /\ UNCHANGED <<received, exited>> \/ Deliver(s)
             /\ UNCHANGED <<inbox, reply, published>>
  BY <1>2 DEF SubscriberStep, Register, SubOpen, SubFind, Loop, SubLock, SubRead, Wake, Refind,
              SubEnd, SpuriousWake, Deliver, clients
<1>3. ASSUME NEW s \in Managers, ManagerStep(s)
      PROVE  /\ UNCHANGED reply \/ Reply(s)
             /\ UNCHANGED <<inbox, received, exited, published>>
  BY <1>3 DEF ManagerStep, CreateFind, CreateOpen, CreateClose, CreateAdd, AddPastArray,
              RemoveUnlink, RemoveFind, RemoveBroadcast, RemoveLock, RemovePipe, Swap, Exchange,
              SwapWithNone, OutOfArray, RemoveEnd, Reply, clients
<1>4. ASSUME NEW s \in Sessions, ClientStep(s)
      PROVE  /\ UNCHANGED inbox \/ Leave(s) \/ ReadCodeAlone(s)
             /\ UNCHANGED exited \/ BrokenPipe(s)
             /\ UNCHANGED <<received, reply, published>>
  BY <1>4 DEF ClientStep, Start, ReadCode, ReadCodeAlone, Leave, BrokenPipe, clients
<1> QED
  BY <1>1, <1>2, <1>3, <1>4 DEF BrokerNext, Publishers, Subscribers, Managers

\* What a client may ask for, or leave behind, are messages.
LEMMA TextsFacts == \A m \in Texts : m \in Message
<1> SUFFICES ASSUME NEW m \in Texts PROVE m \in Message
  OBVIOUS
<1>1. PICK q \in Asked : m = Request[q[1]].messages[q[2]]
  BY DEF Texts
<1>2. PICK s \in Sessions : q \in {s} \X DOMAIN Request[s].messages
  BY <1>1 DEF Asked
<1>3. q[1] = s /\ q[2] \in DOMAIN Request[s].messages
  BY <1>2
<1>4. Request[s].messages \in Seq(Message)
  BY RequestFacts
<1> QED
  BY <1>1, <1>3, <1>4

LEMMA ClientsTypes ==
  ASSUME Sound, BrokerNext
  PROVE  /\ inbox' \in [Sessions -> Seq(Message)]
         /\ received' \in [Sessions -> Seq(Message)]
         /\ reply' \in [Sessions -> {Unset, 0, -1}]
         /\ published' \in [Names -> Seq(Message)]
         /\ exited' \in BOOLEAN
<1>1. /\ inbox \in [Sessions -> Seq(Message)]
      /\ received \in [Sessions -> Seq(Message)]
      /\ reply \in [Sessions -> {Unset, 0, -1}]
      /\ published \in [Names -> Seq(Message)]
      /\ \A s \in Sessions : frame[s].buffer \in Message
  BY DEF Sound, BrokerTypeOK
<1>2. ASSUME NEW s \in Sessions, PubNotify(s)
      PROVE  inbox' \in [Sessions -> Seq(Message)]
  <2>1. pc[s] = "pubNotify" /\ inbox' = [inbox EXCEPT ![s] = Tail(@)]
    BY <1>2 DEF PubNotify, Goto
  <2>2. Tail(inbox[s]) \in Seq(Message)
    BY <2>1, HeadFacts
  <2> QED
    BY <1>1, <2>1, <2>2
<1>3. ASSUME NEW s \in Sessions, Deliver(s)
      PROVE  received' \in [Sessions -> Seq(Message)]
  <2>1. UNCHANGED received \/ received' = [received EXCEPT ![s] = Append(@, frame[s].buffer)]
    BY <1>3 DEF Deliver
  <2>2. Append(received[s], frame[s].buffer) \in Seq(Message)
    BY <1>1
  <2> QED
    BY <1>1, <2>1, <2>2
<1>4. UNCHANGED exited => exited' \in BOOLEAN
  BY Zenon DEF Sound, BrokerTypeOK
<1>5. ASSUME NEW s \in Sessions, Deliver(s)
      PROVE  exited' \in BOOLEAN
  <2>1. (exited' = TRUE) \/ UNCHANGED exited
    BY <1>5 DEF Deliver
  <2>2. (exited' = TRUE) => exited' \in BOOLEAN
    OBVIOUS
  <2> QED
    BY <1>4, <2>1, <2>2, Zenon
<1>6. ASSUME NEW s \in Sessions, Reply(s)
      PROVE  reply' \in [Sessions -> {Unset, 0, -1}]
  BY <1>1, <1>6 DEF Reply
<1>7. ASSUME NEW s \in Sessions, PubTerminate(s)
      PROVE  published' \in [Names -> Seq(Message)]
  <2>1. /\ pc[s] = "pubTerminate"
        /\ \/ published' = published
           \/ published' = [published EXCEPT ![Request[s].box] = Append(@, Head(inbox[s]))]
    BY <1>7 DEF PubTerminate, Published, Goto
  <2>2. Append(published[Request[s].box], Head(inbox[s])) \in Seq(Message)
    BY <1>1, <2>1, HeadFacts, RequestFacts
  <2> QED
    BY <1>1, <2>1, <2>2
<1>8. ASSUME NEW s \in Sessions, Leave(s)
      PROVE  inbox' \in [Sessions -> Seq(Message)]
  <2>1. inbox' = [inbox EXCEPT ![s] = <<>>]
    BY <1>8 DEF Leave
  <2>2. <<>> \in Seq(Message)
    OBVIOUS
  <2> QED
    BY <1>1, <2>1, <2>2
<1>9. ASSUME NEW s \in Sessions, ReadCodeAlone(s)
      PROVE  inbox' \in [Sessions -> Seq(Message)]
  <2>1. PICK m \in Texts : inbox' = [inbox EXCEPT ![s] = <<m>>]
    BY <1>9 DEF ReadCodeAlone, Leftovers
  <2>2. <<m>> \in Seq(Message)
    BY <2>1, TextsFacts
  <2> QED
    BY <1>1, <2>1, <2>2
<1>10. ASSUME NEW s \in Sessions, BrokenPipe(s)
       PROVE  exited' \in BOOLEAN
  <2>1. exited' = TRUE
    BY <1>10 DEF BrokenPipe
  <2> QED
    BY <2>1, Zenon
<1> QED
  BY <1>1, <1>2, <1>3, <1>5, <1>6, <1>7, <1>4, <1>8, <1>9, <1>10, ClientsEffect

LEMMA PipeTypes ==
  ASSUME Sound, BrokerNext
  PROVE  pipe' \in [Sessions -> {"new", "open", "closed", "left"}]
<1>1. pipe \in [Sessions -> {"new", "open", "closed", "left"}]
  BY DEF Sound, BrokerTypeOK
<1>2. ASSUME NEW s \in Publishers, PublisherStep(s)
      PROVE  UNCHANGED pipe \/ \E v \in {"open", "closed"} : pipe' = [pipe EXCEPT ![s] = v]
  BY <1>2 DEF PublisherStep, PubOpen, PubFind, PubCheck, PubClaim, PubName, PubRefuse, PubAttach,
              Eof, PubLock, PubWrite, PubTerminate, PubNotify, PubEnd, clients
<1>3. ASSUME NEW s \in Subscribers, SubscriberStep(s) \/ SpuriousWake(s)
      PROVE  UNCHANGED pipe \/ \E v \in {"open", "closed"} : pipe' = [pipe EXCEPT ![s] = v]
  BY <1>3 DEF SubscriberStep, Register, SubOpen, SubFind, Loop, SubLock, SubRead, Wake, Refind,
              SubEnd, SpuriousWake, Deliver, clients
<1>4. ASSUME NEW s \in Managers, ManagerStep(s)
      PROVE  UNCHANGED pipe
  BY <1>4 DEF ManagerStep, CreateFind, CreateOpen, CreateClose, CreateAdd, AddPastArray,
              RemoveUnlink, RemoveFind, RemoveBroadcast, RemoveLock, RemovePipe, Swap, Exchange,
              SwapWithNone, OutOfArray, RemoveEnd, Reply, clients
<1>5. ASSUME NEW s \in Sessions, ClientStep(s)
      PROVE  UNCHANGED pipe \/ \E v \in {"closed", "left"} : pipe' = [pipe EXCEPT ![s] = v]
  BY <1>5 DEF ClientStep, Start, ReadCode, ReadCodeAlone, Leave, BrokenPipe, clients
<1> QED
  BY <1>1, <1>2, <1>3, <1>4, <1>5 DEF BrokerNext
Serving == {"pubLock", "pubWrite", "pubTerminate", "pubNotify"}

\* Where a session starts.
LEMMA StartFacts ==
  ASSUME pc \in [Sessions -> Steps], NEW s \in Sessions, Start(s)
  PROVE  /\ \A t \in Sessions \ {s} : pc'[t] = pc[t]
         /\ pc[s] = "none"
         /\ Request[s].kind = "publisher"  => pc'[s] = "pubOpen"
         /\ Request[s].kind = "subscriber" => pc'[s] = "register"
         /\ Request[s].kind = "create"     => pc'[s] = "createFind"
         /\ Request[s].kind = "remove"     => pc'[s] = "removeUnlink"
         /\ pc'[s] \in {"pubOpen", "register", "createFind", "removeUnlink"}
<1>1. Request[s].kind \in Kinds
  BY RequestFacts
<1>2. PICK to : to = CASE Request[s].kind = "publisher"  -> "pubOpen"
                       [] Request[s].kind = "subscriber" -> "register"
                       [] Request[s].kind = "create"     -> "createFind"
                       [] Request[s].kind = "remove"     -> "removeUnlink"
  OBVIOUS
<1>3. pc' = [pc EXCEPT ![s] = to] /\ pc[s] = "none"
  BY <1>2 DEF Start, Goto
<1> QED
  BY <1>1, <1>2, <1>3 DEF Kinds

LEMMA MessageStep ==
  ASSUME Sound, BrokerNext
  PROVE  MessageAtHand'
<1>1. pc \in [Sessions -> Steps] /\ inbox \in [Sessions -> Seq(Message)]
  BY DEF Sound, BrokerTypeOK
<1>2. ASSUME UNCHANGED inbox,
             \A t \in Sessions : pc'[t] \in Serving => pc[t] \in Serving \/ inbox[t] # <<>>
      PROVE  MessageAtHand'
  BY <1>2 DEF Sound, MessageAtHand, Serving
<1>3. ASSUME NEW s \in Publishers, PublisherStep(s)
      PROVE  MessageAtHand'
  <2>1. s \in Sessions
    BY DEF Publishers
  <2>2. CASE PubNotify(s)
    <3>1. /\ pc' = [pc EXCEPT ![s] = "readCode"]
          /\ inbox' = [inbox EXCEPT ![s] = Tail(@)]
      BY <2>2 DEF PubNotify, Goto
    <3> QED
      BY <1>1, <3>1 DEF Sound, MessageAtHand
  <2>3. CASE ~PubNotify(s)
    <3>1. UNCHANGED inbox /\ \E to : /\ pc' = [pc EXCEPT ![s] = to]
                                     /\ to \in Serving => pc[s] \in Serving
      BY <1>3, <2>3 DEF PublisherStep, PubOpen, PubFind, PubCheck, PubClaim, PubName, PubRefuse,
                        PubAttach, Eof, PubLock, PubWrite, PubTerminate, PubEnd, clients, Goto,
                        Find, Serving
    <3> QED
      BY <1>1, <1>2, <3>1
  <2> QED
    BY <2>2, <2>3
<1>4. ASSUME NEW s \in Sessions, Request[s].kind # "publisher", UNCHANGED inbox,
             \E to : pc' = [pc EXCEPT ![s] = to]
      PROVE  MessageAtHand'
  <2>1. StepsInKind'
    BY PcEffect DEF Sound, BrokerTypeOK
  <2>2. pc'[s] \notin Serving
    BY <1>4, <2>1, RequestFacts DEF StepsInKind, Kinds, SubscriberPcs, CreatorPcs, RemoverPcs, Serving
  <2> QED
    BY <1>1, <1>2, <1>4, <2>2
<1>5. ASSUME NEW s \in Subscribers, SubscriberStep(s)
      PROVE  MessageAtHand'
  <2>1. UNCHANGED inbox /\ \E to : pc' = [pc EXCEPT ![s] = to]
    BY <1>5 DEF SubscriberStep, Register, SubOpen, SubFind, Loop, SubLock, SubRead, Wake, Refind,
                Deliver, SubEnd, clients, Goto, Find
  <2> QED
    BY <1>4, <2>1 DEF Subscribers
<1>6. ASSUME NEW s \in Managers, ManagerStep(s)
      PROVE  MessageAtHand'
  <2>1. UNCHANGED inbox /\ \E to : pc' = [pc EXCEPT ![s] = to]
    BY <1>6 DEF ManagerStep, CreateFind, CreateOpen, CreateClose, CreateAdd, AddPastArray,
                RemoveUnlink, RemoveFind, RemoveBroadcast, RemoveLock, RemovePipe, Swap, Exchange,
                SwapWithNone, OutOfArray, RemoveEnd, Reply, clients, Goto, Find
  <2> QED
    BY <1>4, <2>1 DEF Managers
<1>7. ASSUME NEW s \in Sessions, Start(s)
      PROVE  MessageAtHand'
  <2>1. UNCHANGED inbox
    BY <1>7 DEF Start, clients
  <2> QED
    BY <1>1, <1>2, <1>7, <2>1, StartFacts DEF Serving
<1>8. ASSUME NEW s \in Sessions, ReadCode(s) \/ ReadCodeAlone(s)
      PROVE  MessageAtHand'
  <2>1. \E to : pc' = [pc EXCEPT ![s] = to]
    BY <1>8 DEF ReadCode, ReadCodeAlone, Find, Goto
  <2>2. UNCHANGED inbox \/ \E m : inbox' = [inbox EXCEPT ![s] = <<m>>]
    BY <1>8 DEF ReadCode, ReadCodeAlone
  <2>3. inbox[s] # <<>>
    BY <1>8 DEF ReadCode, ReadCodeAlone
  <2>4. CASE UNCHANGED inbox
    BY <1>1, <1>2, <2>1, <2>3, <2>4
  <2>5. CASE \E m : inbox' = [inbox EXCEPT ![s] = <<m>>]
    BY <1>1, <2>1, <2>5 DEF Sound, MessageAtHand
  <2> QED
    BY <2>2, <2>4, <2>5
<1>9. ASSUME NEW s \in Sessions, SpuriousWake(s) \/ BrokenPipe(s)
      PROVE  MessageAtHand'
  <2>1. UNCHANGED <<inbox, pc>>
    BY <1>9 DEF SpuriousWake, BrokenPipe, clients
  <2> QED
    BY <1>2, <2>1
<1>10. ASSUME NEW s \in Sessions, Leave(s)
       PROVE  MessageAtHand'
  <2>1. UNCHANGED pc /\ inbox' = [inbox EXCEPT ![s] = <<>>]
    BY <1>10 DEF Leave
  <2>2. pc[s] \notin Serving
    <3>1. CASE s \in Managers
      BY <3>1, RequestFacts
      DEF Sound, StepsInKind, Kinds, CreatorPcs, RemoverPcs, Serving
    <3>2. CASE inbox[s] = <<>> \/ pc[s] = "readCode"
      BY <3>2 DEF Sound, MessageAtHand, Serving
    <3> QED
      BY <1>10, <3>1, <3>2 DEF Leave
  <2> QED
    BY <1>1, <2>1, <2>2 DEF Sound, MessageAtHand, Serving
<1> QED
  BY <1>3, <1>5, <1>6, <1>8, <1>9, <1>7, <1>10 DEF BrokerNext, ClientStep, Subscribers

\* A manager is moved by its own steps only.
LEMMA MovesAlone ==
  ASSUME Sound, BrokerNext, NEW t \in Managers
  PROVE  ManagerStep(t) \/ ClientStep(t) \/ (pc'[t] = pc[t] /\ Index(t)' = Index(t))
<1>1. /\ pc \in [Sessions -> Steps] /\ t \in Sessions
      /\ frame \in [Sessions -> [box_index : Indices \cup {-1}, box_handle : Handles \cup {-1},
                                 char_buffer : Bytes \cup {Unset}, buffer : Message]]
  BY DEF Sound, BrokerTypeOK, Managers
<1>2. ASSUME NEW s \in Sessions \ {t}, FoundBy(s) \/ OpenedBy(s) \/ UNCHANGED frame
      PROVE  Index(t)' = Index(t)
  BY <1>1, <1>2 DEF FoundBy, OpenedBy, Index
<1>3. ASSUME NEW s \in Sessions \ {t}, \/ UNCHANGED frame
                                       \/ \E x : frame' = [frame EXCEPT ![s].char_buffer = x]
                                       \/ \E x : frame' = [frame EXCEPT ![s].buffer = x]
      PROVE  Index(t)' = Index(t)
  BY <1>1, <1>3 DEF Index
<1>4. ASSUME NEW s \in Sessions \ {t}, UNCHANGED pc \/ \E to : MovesTo(s, to)
      PROVE  pc'[t] = pc[t]
  BY <1>1, <1>4 DEF MovesTo
<1>5. ASSUME NEW s \in Publishers, PublisherStep(s)
      PROVE  pc'[t] = pc[t] /\ Index(t)' = Index(t)
  <2>1. s \in Sessions \ {t}
    BY DEF Publishers, Managers
  <2>2. FoundBy(s) \/ OpenedBy(s) \/ UNCHANGED frame
    BY <1>5 DEF PublisherStep, PubOpen, PubFind, PubCheck, PubClaim, PubName, PubRefuse, PubAttach,
                Eof, PubLock, PubWrite, PubTerminate, PubNotify, PubEnd, Find, OpenFileOfBox,
                FoundBy, OpenedBy
  <2>3. \E to : MovesTo(s, to)
    BY <1>5 DEF PublisherStep, PubOpen, PubFind, PubCheck, PubClaim, PubName, PubRefuse, PubAttach,
                Eof, PubLock, PubWrite, PubTerminate, PubNotify, PubEnd, Find, Goto, MovesTo
  <2> QED
    BY <1>2, <1>4, <2>1, <2>2, <2>3
<1>6. ASSUME NEW s \in Subscribers, SubscriberStep(s) \/ SpuriousWake(s)
      PROVE  pc'[t] = pc[t] /\ Index(t)' = Index(t)
  <2>1. s \in Sessions \ {t}
    BY DEF Subscribers, Managers
  <2>2. UNCHANGED pc \/ \E to : MovesTo(s, to)
    BY <1>6 DEF SubscriberStep, SpuriousWake, Register, SubOpen, SubFind, Loop, SubLock, SubRead,
                Wake, Refind, Deliver, SubEnd, Find, Goto, MovesTo
  <2>3. CASE SubRead(s) \/ Deliver(s)
    <3>1. \/ UNCHANGED frame
          \/ \E x : frame' = [frame EXCEPT ![s].char_buffer = x]
          \/ \E x : frame' = [frame EXCEPT ![s].buffer = x]
      BY <2>3 DEF SubRead, Deliver
    <3> QED
      BY <1>3, <1>4, <2>1, <2>2, <3>1
  <2>4. CASE ~(SubRead(s) \/ Deliver(s))
    <3>1. FoundBy(s) \/ OpenedBy(s) \/ UNCHANGED frame
      BY <1>6, <2>4 DEF SubscriberStep, SpuriousWake, Register, SubOpen, SubFind, Loop, SubLock, Wake,
                        Refind, SubEnd, Find, OpenFileOfBox, FoundBy, OpenedBy
    <3> QED
      BY <1>2, <1>4, <2>1, <2>2, <3>1
  <2> QED
    BY <2>3, <2>4
<1>7. ASSUME NEW s \in Managers, ManagerStep(s), s # t
      PROVE  pc'[t] = pc[t] /\ Index(t)' = Index(t)
  <2>1. s \in Sessions \ {t}
    BY <1>7 DEF Managers
  <2>2. FoundBy(s) \/ OpenedBy(s) \/ UNCHANGED frame
    BY <1>7 DEF ManagerStep, CreateFind, CreateOpen, CreateClose, CreateAdd, AddPastArray,
                RemoveUnlink, RemoveFind, RemoveBroadcast, RemoveLock, RemovePipe, Swap, Exchange,
                SwapWithNone, OutOfArray, RemoveEnd, Reply, Find, OpenFileOfBox, FoundBy, OpenedBy
  <2>3. \E to : MovesTo(s, to)
    BY <1>7 DEF ManagerStep, CreateFind, CreateOpen, CreateClose, CreateAdd, AddPastArray,
                RemoveUnlink, RemoveFind, RemoveBroadcast, RemoveLock, RemovePipe, Swap, Exchange,
                SwapWithNone, OutOfArray, RemoveEnd, Reply, Find, Goto, MovesTo
  <2> QED
    BY <1>2, <1>4, <2>1, <2>2, <2>3
<1>8. ASSUME NEW s \in Sessions \ {t}, ClientStep(s)
      PROVE  pc'[t] = pc[t] /\ Index(t)' = Index(t)
  <2>1. FoundBy(s) \/ UNCHANGED frame
    BY <1>8 DEF ClientStep, Start, ReadCode, ReadCodeAlone, Leave, BrokenPipe, Find, FoundBy
  <2>2. UNCHANGED pc \/ \E to : MovesTo(s, to)
    BY <1>8 DEF ClientStep, Start, ReadCode, ReadCodeAlone, Leave, BrokenPipe, Find, Goto, MovesTo
  <2> QED
    BY <1>2, <1>4, <2>1, <2>2
<1> QED
  BY <1>5, <1>6, <1>7, <1>8 DEF BrokerNext

LEMMA RemovalsStep ==
  ASSUME Sound, BrokerNext
  PROVE  RemovalsInOrder'
<1> SUFFICES ASSUME NEW t \in Sessions, pc'[t] \in HasFound
             PROVE  /\ Index(t)' # -1
                    /\ pc'[t] \in Deleting => mutex' = t
                    /\ pc'[t] \in HasLast => n_boxes' > 0
  BY DEF RemovalsInOrder, HasFound, HasLast, Deleting
<1>1. /\ pc \in [Sessions -> Steps] /\ StepsInKind'
      /\ n_boxes \in 0..MaxBoxes
      /\ frame \in [Sessions -> [box_index : Indices \cup {-1}, box_handle : Handles \cup {-1},
                                 char_buffer : Bytes \cup {Unset}, buffer : Message]]
  BY PcEffect DEF Sound, BrokerTypeOK
<1>2. t \in Managers
  BY <1>1, RequestFacts
  DEF StepsInKind, Kinds, PublisherPcs, SubscriberPcs, CreatorPcs, HasFound, Deleting
<1>3. /\ pc[t] \in HasFound => Index(t) # -1
      /\ pc[t] \in Deleting => mutex = t
      /\ pc[t] \in HasLast => n_boxes > 0
  BY DEF Sound, RemovalsInOrder
<1>4. CASE ManagerStep(t)
  <2>1. CASE RemoveFind(t)
    <3>1. pc'[t] = "removeBroadcast"
      BY <1>1, <2>1 DEF RemoveFind, Find, Goto, HasFound, Deleting
    <3>2. find_box(Request[t].box) # -1
      BY <1>1, <2>1, <3>1 DEF RemoveFind, Find, Goto
    <3>3. Index(t)' = find_box(Request[t].box)
      BY <1>1, <2>1 DEF RemoveFind, Find, Index
    <3> QED
      BY <3>1, <3>2, <3>3 DEF Deleting, HasLast
  <2>2. CASE RemoveBroadcast(t)
    BY <1>1, <1>3, <2>2 DEF RemoveBroadcast, Goto, HasFound, HasLast, Deleting, Index
  <2>3. CASE RemoveLock(t)
    BY <1>1, <1>3, <2>3 DEF RemoveLock, Goto, HasFound, HasLast, Deleting, Index
  <2>4. CASE RemovePipe(t) \/ SwapWithNone(t)
    <3>1. /\ pc[t] \in {"removePipe", "swapName"} /\ pc'[t] = "swapName"
          /\ UNCHANGED <<frame, mutex>>
      BY <1>1, <2>4 DEF RemovePipe, SwapWithNone, OutOfArray, Goto, registry
    <3> QED
      BY <1>3, <3>1 DEF HasFound, HasLast, Deleting, Index
  <2>5. CASE Swap(t)
    <3>1. /\ pc[t] \in Deleting /\ pc'[t] \in HasLast /\ n_boxes > 0
          /\ UNCHANGED <<frame, mutex, n_boxes>>
      BY <1>1, <2>5 DEF Swap, Exchange, Goto, HasLast, Deleting
    <3> QED
      BY <1>3, <3>1 DEF HasFound, Index
  <2>6. CASE ~(\/ RemoveFind(t) \/ RemoveBroadcast(t) \/ RemoveLock(t) \/ RemovePipe(t)
               \/ SwapWithNone(t) \/ Swap(t))
    <3>1. pc'[t] \notin HasFound
      BY <1>1, <1>4, <2>6
      DEF ManagerStep, CreateFind, CreateOpen, CreateClose, CreateAdd, AddPastArray, RemoveUnlink,
          RemoveEnd, Reply, Find, Goto, HasFound, Deleting
    <3> QED
      BY <3>1
  <2> QED
    BY <2>1, <2>2, <2>3, <2>4, <2>5, <2>6
<1>5. ASSUME pc'[t] = pc[t], Index(t)' = Index(t), ~ManagerStep(t)
      PROVE  /\ pc'[t] \in Deleting => mutex' = t
             /\ pc'[t] \in HasLast => n_boxes' > 0
  <2> SUFFICES ASSUME pc[t] \in Deleting
               PROVE  mutex' = t /\ (pc[t] \in HasLast => n_boxes' > 0)
    BY <1>5 DEF HasLast, Deleting
  <2>1. mutex = t /\ mutex # NoSession
    BY <1>3, BrokerAssumption
  <2>2. CASE UNCHANGED registry
    BY <1>3, <2>1, <2>2 DEF registry
  <2>3. ASSUME NEW s \in Publishers, PubClaim(s) \/ PubName(s) \/ Eof(s) \/ PubTerminate(s)
        PROVE  UNCHANGED <<n_boxes, mutex>>
    BY <2>3 DEF PubClaim, PubName, Eof, PubTerminate
  <2>4. ASSUME NEW s \in Managers, CreateAdd(s) \/ RemoveLock(s)
        PROVE  FALSE
    BY <2>1, <2>4 DEF CreateAdd, RemoveLock
  <2>5. ASSUME NEW s \in Managers, Swap(s)
        PROVE  UNCHANGED <<n_boxes, mutex>>
    BY <2>5 DEF Swap, Exchange
  <2>6. ASSUME NEW s \in Managers, RemoveEnd(s)
        PROVE  FALSE
    <3>1. s \in Sessions /\ pc[s] \in Deleting
      BY <2>6 DEF RemoveEnd, Goto, Deleting, Managers
    <3>2. s = t
      BY <2>1, <3>1 DEF Sound, RemovalsInOrder
    <3> QED
      BY <1>5, <2>6, <3>2 DEF ManagerStep
  <2> QED
    BY <1>3, <2>1, <2>2, <2>3, <2>4, <2>5, <2>6, RegistryEffect
<1>6. CASE ClientStep(t)
  <2>1. CASE Start(t)
    BY <1>1, <2>1, StartFacts DEF HasFound, Deleting
  <2>2. CASE ReadCode(t) \/ ReadCodeAlone(t)
    <3>1. pc[t] = "readCode"
      BY <2>2 DEF ReadCode, ReadCodeAlone, Find, Goto
    <3> QED
      BY <1>2, <3>1, RequestFacts DEF Sound, StepsInKind, CreatorPcs, RemoverPcs, Managers
  <2>3. CASE Leave(t) \/ BrokenPipe(t)
    BY <1>3, <2>3 DEF Leave, BrokenPipe, registry, Index, HasFound, HasLast
  <2> QED
    BY <1>6, <2>1, <2>2, <2>3 DEF ClientStep
<1>7. CASE ~ManagerStep(t) /\ ~ClientStep(t)
  BY <1>2, <1>3, <1>5, <1>7, MovesAlone
<1> QED
  BY <1>4, <1>6, <1>7

LEMMA SoundInit == BrokerInit => Sound
<1> SUFFICES ASSUME BrokerInit PROVE Sound
  OBVIOUS
<1>1. IInv
  BY FSInitIInv DEF BrokerInit
<1>2. /\ boxes \in [Indices -> Box] /\ n_boxes \in 0..MaxBoxes
      /\ mutex \in Sessions \cup {NoSession}
      /\ box_mutexes \in [Indices -> Sessions \cup {NoSession}]
      /\ waiting \in [Indices -> SUBSET Sessions]
  BY BrokerAssumption DEF BrokerInit, Box, EmptyBox
<1>3. <<>> \in Message /\ <<>> \in Seq(Message)
  BY DEF Message
<1>4. /\ pc \in [Sessions -> Steps]
      /\ pipe \in [Sessions -> {"new", "open", "closed", "left"}]
      /\ reply \in [Sessions -> {Unset, 0, -1}]
      /\ exited \in BOOLEAN
  BY DEF BrokerInit, Steps
<1>5. /\ received \in [Sessions -> Seq(Message)]
      /\ published \in [Names -> Seq(Message)]
  BY <1>3 DEF BrokerInit
<1>6. inbox \in [Sessions -> Seq(Message)]
  BY RequestFacts DEF BrokerInit
<1>7. frame \in [Sessions -> [box_index : Indices \cup {-1}, box_handle : Handles \cup {-1},
                              char_buffer : Bytes \cup {Unset}, buffer : Message]]
  BY <1>3 DEF BrokerInit
<1>8. BrokerTypeOK
  BY <1>1, <1>2, <1>4, <1>5, <1>6, <1>7 DEF BrokerTypeOK, IInv
<1>9. StepsInKind /\ MessageAtHand /\ RemovalsInOrder
  BY DEF BrokerInit, StepsInKind, MessageAtHand, RemovalsInOrder, PublisherPcs, SubscriberPcs,
         CreatorPcs, RemoverPcs, HasFound, HasLast, Deleting
<1> QED
  BY <1>1, <1>8, <1>9 DEF Sound, IInv

LEMMA SoundStep ==
  ASSUME Sound, BrokerNext
  PROVE  Sound'
<1>1. pc' \in [Sessions -> Steps] /\ StepsInKind'
  BY PcEffect DEF Sound, BrokerTypeOK
<1>2. BrokerTypeOK'
  BY <1>1, BrokerFSStep, RegistryTypes, MonitorTypes, FrameTypes, ClientsTypes, PipeTypes
  DEF BrokerTypeOK, IInv
<1> QED
  BY <1>1, <1>2, BrokerFSStep, MessageStep, RemovalsStep DEF Sound, IInv

LEMMA SoundStutter ==
  ASSUME Sound, UNCHANGED brokerVars
  PROVE  Sound'
<1>1. IInv'
  BY SoundFS, FSStutter DEF brokerVars
<1>2. StepsInKind' /\ MessageAtHand' /\ RemovalsInOrder'
  BY DEF Sound, StepsInKind, MessageAtHand, RemovalsInOrder, Index, brokerVars, clients, registry
<1>3. /\ boxes' \in [Indices -> Box] /\ n_boxes' \in 0..MaxBoxes
      /\ mutex' \in Sessions \cup {NoSession}
      /\ box_mutexes' \in [Indices -> Sessions \cup {NoSession}]
      /\ waiting' \in [Indices -> SUBSET Sessions]
  BY DEF Sound, BrokerTypeOK, brokerVars, registry, monitors
<1>4. /\ pc' \in [Sessions -> Steps]
      /\ frame' \in [Sessions -> [box_index : Indices \cup {-1}, box_handle : Handles \cup {-1},
                                  char_buffer : Bytes \cup {Unset}, buffer : Message]]
      /\ published' \in [Names -> Seq(Message)]
  BY DEF Sound, BrokerTypeOK, brokerVars
<1>5. /\ inbox' \in [Sessions -> Seq(Message)]
      /\ pipe' \in [Sessions -> {"new", "open", "closed", "left"}]
      /\ received' \in [Sessions -> Seq(Message)]
      /\ reply' \in [Sessions -> {Unset, 0, -1}]
  BY DEF Sound, BrokerTypeOK, brokerVars, clients
<1>6. exited' \in BOOLEAN
  <2>1. exited \in BOOLEAN /\ UNCHANGED exited
    BY DEF Sound, BrokerTypeOK, brokerVars, clients
  <2> QED
    BY <2>1, Zenon
<1> QED
  BY <1>1, <1>2, <1>3, <1>4, <1>5, <1>6 DEF Sound, BrokerTypeOK, IInv
-----------------------------------------------------------------------------
(* Until the first removal: whose handles are whose.                       *)

NoRemovalYet == \A s \in Sessions : Request[s].kind = "remove" => pc[s] = "none"

\* The sessions that will not use their handle any more.
Over == {"done", "createAdd", "replyYes", "replyNo"}
Finished == {s \in Sessions : pc[s] \in Over}

Owners == {s \in Sessions \ Finished : Handle(s) # -1}

HandleOnItsFile(s) ==
  /\ Handle(s) \in OpenHandles
  /\ \E d \in Matches(Request[s].box) :
       dir_entry[d].d_inumber = open_file_table[Handle(s)].of_inumber

\* The sessions that got past an open that failed only with a handle.
Opened == {s \in Sessions : pc[s] \in {"loop", "subLock", "subRead", "asleep", "refind", "deliver",
                                       "subEnd", "createClose"}}

HandlesOwned ==
  /\ OffsetsInside /\ panicked = FALSE
  /\ \A s \in Owners : HandleOnItsFile(s)
  /\ \A s, t \in Owners : s # t => Handle(s) # Handle(t)
  /\ \A s \in Opened : Handle(s) # -1

\* No session goes back to its beginning, and one that has finished with its file
\* stays so.
LEMMA GoesForward ==
  ASSUME pc \in [Sessions -> Steps], BrokerNext, NEW t \in Sessions
  PROVE  /\ pc[t] # "none" => pc'[t] # "none"
         /\ pc[t] \in Over => pc'[t] \in Over
<1>1. pc \in [Sessions -> Steps]
  OBVIOUS
<1>2. ASSUME NEW s \in Publishers, PublisherStep(s)
      PROVE  \E to \in PublisherPcs \ {"none"} : MovesTo(s, to) /\ pc[s] \notin Over
  BY <1>2 DEF PublisherStep, PubOpen, PubFind, PubCheck, PubClaim, PubName, PubRefuse, PubAttach,
              Eof, PubLock, PubWrite, PubTerminate, PubNotify, PubEnd, Goto, Find, PublisherPcs,
              MovesTo, Over
<1>3. ASSUME NEW s \in Subscribers, SubscriberStep(s)
      PROVE  \E to \in SubscriberPcs \ {"none"} : MovesTo(s, to) /\ pc[s] \notin Over
  BY <1>3 DEF SubscriberStep, Register, SubOpen, SubFind, Loop, SubLock, SubRead, Wake, Refind,
              Deliver, SubEnd, Goto, Find, SubscriberPcs, MovesTo, Over
<1>4. ASSUME NEW s \in Managers, ManagerStep(s)
      PROVE  \E to \in Steps \ {"none"} : MovesTo(s, to) /\ (pc[s] \in Over => to \in Over)
  BY <1>4 DEF ManagerStep, CreateFind, CreateOpen, CreateClose, CreateAdd, AddPastArray,
              RemoveUnlink, RemoveFind, RemoveBroadcast, RemoveLock, RemovePipe, Swap, Exchange,
              SwapWithNone, OutOfArray, RemoveEnd, Reply, Goto, Find, Steps, MovesTo, Over
<1>5. ASSUME NEW s \in Sessions, ReadCode(s) \/ ReadCodeAlone(s)
      PROVE  \E to \in PublisherPcs \ {"none"} : MovesTo(s, to) /\ pc[s] \notin Over
  BY <1>5 DEF ReadCode, ReadCodeAlone, Find, Goto, PublisherPcs, MovesTo, Over
<1>6. ASSUME NEW s \in Sessions, NEW to \in Steps \ {"none"}, MovesTo(s, to),
             pc[s] \in Over => to \in Over
      PROVE  /\ pc[t] # "none" => pc'[t] # "none"
             /\ pc[t] \in Over => pc'[t] \in Over
  BY <1>1, <1>6 DEF MovesTo
<1>7. PublisherPcs \subseteq Steps /\ SubscriberPcs \subseteq Steps
  BY DEF PublisherPcs, SubscriberPcs, Steps
<1>8. CASE \E s \in Publishers : PublisherStep(s)
  BY <1>2, <1>6, <1>7, <1>8 DEF Publishers
<1>9. CASE \E s \in Subscribers : SubscriberStep(s)
  BY <1>3, <1>6, <1>7, <1>9 DEF Subscribers
<1>10. CASE \E s \in Managers : ManagerStep(s)
  BY <1>4, <1>6, <1>10 DEF Managers
<1>11. CASE \E s \in Sessions : ReadCode(s) \/ ReadCodeAlone(s)
  BY <1>5, <1>6, <1>7, <1>11
<1>12. CASE \E s \in Sessions : Start(s)
  BY <1>1, <1>12, StartFacts DEF Over
<1>13. CASE \E s \in Sessions : Leave(s) \/ SpuriousWake(s) \/ BrokenPipe(s)
  BY <1>13 DEF Leave, SpuriousWake, BrokenPipe
<1> QED
  BY <1>8, <1>9, <1>10, <1>11, <1>12, <1>13 DEF BrokerNext, ClientStep, Subscribers

\* A removal once begun has begun for ever.
LEMMA RemovalsStayBegun ==
  ASSUME pc \in [Sessions -> Steps], BrokerNext, NoRemovalYet'
  PROVE  NoRemovalYet
BY GoesForward DEF NoRemovalYet

\* Only an open gives a session a handle.
LEMMA HandleEffect ==
  ASSUME Sound, BrokerNext, NEW t \in Sessions, ~OpensFile(t)
  PROVE  Handle(t)' = Handle(t)
<1>1. frame \in [Sessions -> [box_index : Indices \cup {-1}, box_handle : Handles \cup {-1},
                              char_buffer : Bytes \cup {Unset}, buffer : Message]]
  BY DEF Sound, BrokerTypeOK
<1>2. ASSUME NEW s \in Sessions, SubRead(s) \/ Deliver(s)
      PROVE  Handle(t)' = Handle(t)
  <2>1. \/ UNCHANGED frame
        \/ \E x : frame' = [frame EXCEPT ![s].char_buffer = x]
        \/ \E x : frame' = [frame EXCEPT ![s].buffer = x]
    BY <1>2 DEF SubRead, Deliver
  <2> QED
    BY <1>1, <2>1 DEF Handle
<1>3. ASSUME NEW s \in Sessions, FoundBy(s)
      PROVE  Handle(t)' = Handle(t)
  BY <1>1, <1>3 DEF FoundBy, Handle
<1>4. ASSUME NEW s \in Sessions, OpensFile(s), OpenedBy(s)
      PROVE  Handle(t)' = Handle(t)
  BY <1>1, <1>4 DEF OpenedBy, Handle
<1>5. UNCHANGED frame => Handle(t)' = Handle(t)
  BY DEF Handle
<1> QED
  BY <1>2, <1>3, <1>4, <1>5, FrameEffect DEF Subscribers
\* The sessions that come to need a handle have one.
OpenedPcs == {"loop", "subLock", "subRead", "asleep", "refind", "deliver", "subEnd", "createClose"}

LEMMA OpenedEffect ==
  ASSUME Sound, BrokerNext, NEW t \in Sessions, pc'[t] \in OpenedPcs
  PROVE  pc[t] \in OpenedPcs \/ Handle(t) # -1 \/ OpensFile(t)
<1>1. pc \in [Sessions -> Steps]
  BY DEF Sound, BrokerTypeOK
<1>2. ASSUME NEW s \in Publishers, PublisherStep(s)
      PROVE  \E to \in PublisherPcs : MovesTo(s, to)
  BY <1>2 DEF PublisherStep, PubOpen, PubFind, PubCheck, PubClaim, PubName, PubRefuse, PubAttach,
              Eof, PubLock, PubWrite, PubTerminate, PubNotify, PubEnd, Goto, Find, PublisherPcs,
              MovesTo
<1>3. ASSUME NEW s \in Subscribers, SubscriberStep(s)
      PROVE  \E to \in Steps : MovesTo(s, to) /\ (to \in OpenedPcs => pc[s] \in OpenedPcs \/ Handle(s) # -1)
  BY <1>3 DEF SubscriberStep, Register, SubOpen, SubFind, Loop, SubLock, SubRead, Wake, Refind,
              Deliver, SubEnd, Goto, Find, Steps, MovesTo, OpenedPcs
<1>4. ASSUME NEW s \in Managers, ManagerStep(s)
      PROVE  OpensFile(s) \/ \E to \in Steps : MovesTo(s, to) /\ to \notin OpenedPcs
  BY <1>4 DEF ManagerStep, CreateFind, CreateClose, CreateAdd, AddPastArray, RemoveUnlink,
              RemoveFind, RemoveBroadcast, RemoveLock, RemovePipe, Swap, Exchange, SwapWithNone,
              OutOfArray, RemoveEnd, Reply, Goto, Find, Steps, MovesTo, OpenedPcs, OpensFile
<1>5. ASSUME NEW s \in Sessions, ReadCode(s) \/ ReadCodeAlone(s)
      PROVE  \E to \in PublisherPcs : MovesTo(s, to)
  BY <1>5 DEF ReadCode, ReadCodeAlone, Find, Goto, PublisherPcs, MovesTo
<1>6. ASSUME NEW s \in Sessions, NEW to, MovesTo(s, to),
             to \in OpenedPcs => pc[s] \in OpenedPcs \/ Handle(s) # -1
      PROVE  pc[t] \in OpenedPcs \/ Handle(t) # -1
  BY <1>1, <1>6 DEF MovesTo
<1>7. \A to \in PublisherPcs : to \notin OpenedPcs
  BY DEF PublisherPcs, OpenedPcs
<1>8. CASE \E s \in Publishers : PublisherStep(s)
  BY <1>2, <1>6, <1>7, <1>8 DEF Publishers
<1>9. CASE \E s \in Subscribers : SubscriberStep(s)
  BY <1>3, <1>6, <1>9 DEF Subscribers
<1>10. CASE \E s \in Managers : ManagerStep(s)
  <2>1. PICK s \in Sessions : s \in Managers /\ ManagerStep(s)
    BY <1>10 DEF Managers
  <2>2. CASE \E to \in Steps : MovesTo(s, to) /\ to \notin OpenedPcs
    BY <1>6, <2>2
  <2>3. CASE OpensFile(s) /\ t # s
    <3>1. \E to : MovesTo(s, to)
      BY <2>3 DEF OpensFile, PubOpen, PubRefuse, PubAttach, SubOpen, CreateOpen, Goto, MovesTo
    <3> QED
      BY <1>1, <2>3, <3>1 DEF MovesTo
  <2> QED
    BY <1>4, <2>1, <2>2, <2>3
<1>11. CASE \E s \in Sessions : ReadCode(s) \/ ReadCodeAlone(s)
  BY <1>5, <1>6, <1>7, <1>11
<1>12. CASE \E s \in Sessions : Start(s)
  BY <1>1, <1>12, StartFacts DEF OpenedPcs
<1>13. CASE \E s \in Sessions : Leave(s) \/ SpuriousWake(s) \/ BrokenPipe(s)
  BY <1>13 DEF Leave, SpuriousWake, BrokenPipe
<1> QED
  BY <1>8, <1>9, <1>10, <1>11, <1>12, <1>13 DEF BrokerNext, ClientStep, Subscribers

LEMMA OwnerKeepsIts ==
  ASSUME KeepsFiles, NEW t \in Sessions, Handle(t)' = Handle(t), HandleOnItsFile(t), StaysOpen(Handle(t))
  PROVE  HandleOnItsFile(t)'
<1>1. PICK d \in Matches(Request[t].box) :
        dir_entry[d].d_inumber = open_file_table[Handle(t)].of_inumber
  BY DEF HandleOnItsFile
<1>2. dir_entry'[d] = dir_entry[d]
  BY <1>1 DEF KeepsFiles, Matches, Used
<1>3. d \in Matches(Request[t].box)'
  BY <1>1, <1>2 DEF Matches
<1> QED
  BY <1>1, <1>2, <1>3 DEF HandleOnItsFile, StaysOpen

LEMMA SoundPcs == Sound => pc \in [Sessions -> Steps] /\ StepsInKind
BY DEF Sound, BrokerTypeOK

\* A step that opens nothing: every owner was one, and keeps its handle.
LEMMA OwnersStepWithoutOpen ==
  ASSUME Sound, HandlesOwned, BrokerNext, \A s \in Sessions : ~OpensFile(s),
         KeepsFiles, OffsetsInside', \A t \in Owners' : StaysOpen(Handle(t))
  PROVE  HandlesOwned'
<1>1. \A t \in Sessions : Handle(t)' = Handle(t)
  BY HandleEffect
<1>2. \A t \in Owners' : t \in Owners
  BY <1>1, SoundPcs, GoesForward DEF Owners, Finished
<1>3. \A t \in Owners' : HandleOnItsFile(t)'
  BY <1>1, <1>2, OwnerKeepsIts DEF HandlesOwned, Owners
<1>4. \A s, t \in Owners' : s # t => Handle(s)' # Handle(t)'
  BY <1>1, <1>2 DEF HandlesOwned, Owners
<1>5. \A t \in Opened' : Handle(t)' # -1
  BY <1>1, OpenedEffect DEF HandlesOwned, Opened, OpenedPcs
<1>6. panicked' = FALSE
  BY DEF HandlesOwned, KeepsFiles
<1> QED
  BY <1>3, <1>4, <1>5, <1>6 DEF HandlesOwned
\* An open gives its session a handle that no session has.
LEMMA OwnersStepWithOpen ==
  ASSUME Sound, HandlesOwned, BrokerNext, NEW s \in Sessions, OpensFile(s)
  PROVE  HandlesOwned'
<1>1. IInv /\ OffsetsInside
  BY SoundFS DEF HandlesOwned
<1>2. PICK mode : "TRUNC" \notin mode /\ OpenFileOfBox(s, mode)
  <2>1. CASE PubOpen(s) \/ PubRefuse(s) \/ PubAttach(s)
    <3>1. OpenFileOfBox(s, {"APPEND"}) /\ "TRUNC" \notin {"APPEND"}
      BY <2>1 DEF PubOpen, PubRefuse, PubAttach
    <3> QED
      BY <3>1
  <2>2. CASE SubOpen(s)
    <3>1. OpenFileOfBox(s, {}) /\ "TRUNC" \notin {}
      BY <2>2 DEF SubOpen
    <3> QED
      BY <3>1
  <2>3. CASE CreateOpen(s)
    <3>1. OpenFileOfBox(s, {"CREAT"}) /\ "TRUNC" \notin {"CREAT"}
      BY <2>3 DEF CreateOpen
    <3> QED
      BY <3>1
  <2> QED
    BY <2>1, <2>2, <2>3 DEF OpensFile
<1>3. PICK ret \in Handles \cup {-1} :
        /\ tfs_open(Request[s].box, mode, ret)
        /\ frame' = [frame EXCEPT ![s].box_handle = ret]
  BY <1>2 DEF OpenFileOfBox
<1>4. \E to : pc' = [pc EXCEPT ![s] = to]
  BY DEF OpensFile, PubOpen, PubRefuse, PubAttach, SubOpen, CreateOpen, Goto
<1>5. /\ \A t \in Sessions \ {s} : Handle(t)' = Handle(t) /\ pc'[t] = pc[t]
      /\ Handle(s)' = ret
  BY <1>4, <1>3 DEF Sound, BrokerTypeOK, Handle
<1>6. /\ KeepsFiles /\ OffsetsInside' /\ \A g \in OpenHandles : StaysOpen(g)
      /\ ret # -1 => /\ ret \in OpenHandles' \ OpenHandles
                     /\ \E d \in Matches(Request[s].box)' :
                          dir_entry'[d].d_inumber = open_file_table'[ret].of_inumber
  BY <1>1, <1>2, <1>3, OpenKeepsFiles, RequestFacts
<1>7. \A t \in Owners' : t \in Sessions /\ (t # s => t \in Owners) /\ (t = s => ret # -1)
  BY <1>5 DEF Owners, Finished
<1>8. ASSUME NEW t \in Owners'
      PROVE  HandleOnItsFile(t)'
  <2>1. CASE t = s
    BY <1>5, <1>6, <1>7, <2>1 DEF HandleOnItsFile
  <2>2. CASE t # s
    <3>1. t \in Owners /\ HandleOnItsFile(t) /\ Handle(t)' = Handle(t)
      BY <1>5, <1>7, <2>2 DEF HandlesOwned
    <3>2. StaysOpen(Handle(t))
      BY <1>6, <3>1 DEF HandleOnItsFile
    <3> QED
      BY <1>6, <1>7, <3>1, <3>2, OwnerKeepsIts
  <2> QED
    BY <2>1, <2>2
<1>9. ASSUME NEW t \in Owners', NEW u \in Owners', t # u
      PROVE  Handle(t)' # Handle(u)'
  <2>1. \A v \in Owners : Handle(v) \in OpenHandles
    BY DEF HandlesOwned, HandleOnItsFile
  <2>2. CASE t # s /\ u # s
    BY <1>5, <1>7, <1>9, <2>2 DEF HandlesOwned
  <2>3. CASE t = s \/ u = s
    BY <1>5, <1>6, <1>7, <1>9, <2>1, <2>3
  <2> QED
    BY <2>2, <2>3
<1>10. ASSUME NEW t \in Opened'
       PROVE  Handle(t)' # -1
  <2>1. CASE t # s
    BY <1>5, <2>1 DEF HandlesOwned, Opened
  <2>2. CASE t = s
    <3>1. pc'[s] \in OpenedPcs
      BY <2>2 DEF Opened, OpenedPcs
    <3>2. CASE CreateOpen(s)
      BY <1>5, <2>2, <3>1, <3>2 DEF CreateOpen, Goto, Sound, BrokerTypeOK, OpenedPcs, Handle
    <3>3. CASE PubOpen(s) \/ PubRefuse(s) \/ PubAttach(s) \/ SubOpen(s)
      BY <3>1, <3>3 DEF PubOpen, PubRefuse, PubAttach, SubOpen, Goto, Sound, BrokerTypeOK, OpenedPcs
    <3> QED
      BY <3>2, <3>3 DEF OpensFile
  <2> QED
    BY <2>1, <2>2
<1>11. panicked' = FALSE
  BY <1>6 DEF HandlesOwned, KeepsFiles
<1> QED
  BY <1>6, <1>8, <1>9, <1>10, <1>11 DEF HandlesOwned

\* The array has room for the boxes that are added.
RoomForBoxes == \A s \in Sessions : pc[s] = "createAdd" => n_boxes < MaxBoxes

\* Until the first removal, and while there is room, every step leaves every session
\* its handle.
LEMMA OwnersStep ==
  ASSUME Sound, HandlesOwned, BrokerNext, NoRemovalYet', RoomForBoxes
  PROVE  HandlesOwned'
<1>1. IInv /\ OffsetsInside
  BY SoundFS DEF HandlesOwned
<1>2. CASE \E s \in Sessions : OpensFile(s)
  BY <1>2, OwnersStepWithOpen
<1>3. CASE \A s \in Sessions : ~OpensFile(s)
  <2>1. \A t \in Owners' : Handle(t) \in OpenHandles
    <3>1. \A t \in Owners' : t \in Owners
      BY <1>3, HandleEffect, SoundPcs, GoesForward DEF Owners, Finished
    <3> QED
      BY <3>1 DEF HandlesOwned, HandleOnItsFile
  <2>2. ASSUME KeepsFiles, OffsetsInside', \A h \in OpenHandles : StaysOpen(h)
        PROVE  HandlesOwned'
    BY <1>3, <2>1, <2>2, OwnersStepWithoutOpen
  <2>3. CASE UNCHANGED fsVars
    BY <1>1, <2>2, <2>3, NothingKeepsFiles
  <2>4. ASSUME NEW s \in Sessions, PubWrite(s) \/ PubTerminate(s)
        PROVE  HandlesOwned'
    BY <1>1, <2>2, <2>4, BrokerWrites, WriteKeepsFiles
  <2>5. ASSUME NEW s \in Sessions, SubRead(s)
        PROVE  HandlesOwned'
    BY <1>1, <2>2, <2>5, ReadKeepsFiles DEF SubRead
  <2>6. ASSUME NEW s \in Sessions, ClosesFile(s)
        PROVE  HandlesOwned'
    <3>1. /\ KeepsFiles /\ OffsetsInside'
          /\ \A g \in OpenHandles \ {Handle(s)} : StaysOpen(g)
      BY <1>1, <2>6, CloseKeepsFiles DEF ClosesFile, PubEnd, SubEnd, CreateClose
    <3>2. s \in Finished' /\ s \notin Finished
      BY <2>6 DEF ClosesFile, PubEnd, SubEnd, CreateClose, Goto, Finished, Over, Sound, BrokerTypeOK
    <3>3. ASSUME NEW t \in Owners'
          PROVE  Handle(t) # Handle(s) /\ Handle(t) \in OpenHandles
      <4>1. t \in Owners /\ t # s /\ Handle(t) # -1
        BY <1>3, <3>2, HandleEffect, SoundPcs, GoesForward DEF Owners, Finished
      <4> QED
        BY <2>1, <3>2, <4>1 DEF HandlesOwned, Owners
    <3> QED
      BY <1>3, <3>1, <3>3, OwnersStepWithoutOpen
  <2>7. ASSUME NEW s \in Sessions, RemoveUnlink(s)
        PROVE  FALSE
    <3>1. pc[s] = "removeUnlink"
      BY <2>7 DEF RemoveUnlink
    <3>2. Request[s].kind = "remove"
      BY <3>1, RequestFacts DEF Sound, StepsInKind, Kinds, PublisherPcs, SubscriberPcs, CreatorPcs
    <3> QED
      BY <3>1, <3>2, SoundPcs, RemovalsStayBegun DEF NoRemovalYet
  <2>8. ASSUME NEW s \in Managers, AddPastArray(s) \/ SwapWithNone(s)
        PROVE  FALSE
    <3>1. s \in Sessions
      BY DEF Managers
    <3>2. CASE AddPastArray(s)
      <4>1. pc[s] = "createAdd" /\ n_boxes = MaxBoxes
        BY <3>2 DEF AddPastArray, Goto
      <4> QED
        BY <3>1, <4>1, BrokerAssumption DEF RoomForBoxes
    <3>3. CASE SwapWithNone(s)
      <4>1. pc[s] = "swapName"
        BY <3>3 DEF SwapWithNone, Goto
      <4>2. Request[s].kind = "remove"
        BY <3>1, <4>1, RequestFacts
        DEF Sound, StepsInKind, Kinds, PublisherPcs, SubscriberPcs, CreatorPcs
      <4> QED
        BY <3>1, <4>1, <4>2, SoundPcs, RemovalsStayBegun DEF NoRemovalYet
    <3> QED
      BY <2>8, <3>2, <3>3
  <2> QED
    BY <1>3, <2>3, <2>4, <2>5, <2>6, <2>7, <2>8, FSEffect
<1> QED
  BY <1>2, <1>3

\* A step that changes nothing.
LEMMA OwnersStutter ==
  ASSUME Sound, HandlesOwned, UNCHANGED brokerVars
  PROVE  HandlesOwned'
<1>1. IInv /\ OffsetsInside /\ UNCHANGED fsVars
  BY SoundFS DEF HandlesOwned, brokerVars
<1>2. KeepsFiles /\ OffsetsInside' /\ \A h \in OpenHandles : StaysOpen(h)
  BY <1>1, NothingKeepsFiles
<1>3. \A t \in Sessions : Handle(t)' = Handle(t) /\ pc'[t] = pc[t]
  BY DEF Handle, brokerVars
<1>4. \A t \in Owners' : t \in Owners
  BY <1>3 DEF Owners, Finished
<1>5. \A t \in Owners' : HandleOnItsFile(t)'
  <2> SUFFICES ASSUME NEW t \in Owners' PROVE HandleOnItsFile(t)'
    OBVIOUS
  <2>1. t \in Sessions /\ HandleOnItsFile(t)
    BY <1>4 DEF HandlesOwned, Owners
  <2> QED
    BY <1>2, <1>3, <2>1, OwnerKeepsIts DEF HandleOnItsFile
<1>6. \A s, t \in Owners' : s # t => Handle(s)' # Handle(t)'
  BY <1>3, <1>4 DEF HandlesOwned, Owners
<1>7. \A t \in Opened' : Handle(t)' # -1
  BY <1>3 DEF HandlesOwned, Opened
<1>8. panicked' = FALSE
  BY <1>2 DEF HandlesOwned, KeepsFiles
<1> QED
  BY <1>2, <1>5, <1>6, <1>7, <1>8 DEF HandlesOwned

LEMMA OwnersInit == BrokerInit => HandlesOwned
<1> SUFFICES ASSUME BrokerInit PROVE HandlesOwned
  OBVIOUS
<1>1. OpenHandles = {} /\ panicked = FALSE
  BY DEF BrokerInit, FSInit, OpenHandles
<1>2. \A s \in Sessions : Handle(s) = -1 /\ s \notin Opened
  BY DEF BrokerInit, Handle, Opened
<1> QED
  BY <1>1, <1>2 DEF HandlesOwned, OffsetsInside, Owners, Opened
-----------------------------------------------------------------------------
LEMMA SoundAlways == BrokerSpec => []Sound
<1>1. Sound /\ [BrokerNext]_brokerVars => Sound'
  BY SoundStep, SoundStutter
<1> QED
  BY <1>1, SoundInit, PTL DEF BrokerSpec

\* Every variable of the sessions has its type, whatever is asked, however creations
\* and removals overlap, and with whatever box a removal exchanges its own.
THEOREM TypesHold == BrokerSpec => []BrokerTypeOK
<1>1. Sound => BrokerTypeOK
  BY DEF Sound
<1> QED
  BY <1>1, SoundAlways, PTL
=============================================================================

--------------------------- MODULE Registry_proof ---------------------------
(***************************************************************************)
(* The array of boxes and the directory of TecnicoFS go on agreeing, for   *)
(* any boxes, publishers and subscribers, as long as managers take turns:  *)
(* two that ask for the same box, or that both remove one, do not overlap. *)
(*                                                                         *)
(* Without that it is not so.  Two sessions that create a box both find    *)
(* none and add it twice; two that remove a box both find its index and    *)
(* take two boxes off the array.                                           *)
(*                                                                         *)
(* Meanwhile the array has room for every box that is added, and until the *)
(* first removal every session that uses a handle has one of its own.      *)
(*                                                                         *)
(* And the mark of a box counts its publishers, until the first removal    *)
(* and when those that ask for one box take turns as well: two at once     *)
(* both find the mark at 0.                                                *)
(***************************************************************************)
EXTENDS Broker_proof

Named(i, b) == i \in 0..(n_boxes - 1) /\ boxes[i].box_name = b
HasFile(b)  == Matches(b) # {}

Creating == {"createOpen", "createClose", "createAdd"}

\* A manager that others come after is done when they begin.
TurnsKept ==
  \A s, t \in Managers : s \in After[t] /\ pc[t] # "none" => pc[s] = "done"

NamesDiffer == \A i, j, b : Named(i, b) /\ Named(j, b) => i = j

NamesKnown == \A b : InRegistry(b) => b \in Names

BoxesHaveFiles ==
  \A b \in Names : InRegistry(b) =>
    HasFile(b) \/ \E s \in Managers : Request[s].box = b /\ pc[s] \in Removing

\* A session that creates a box found none and none has come since.
CreatorsOnTrack ==
  \A s \in Managers : pc[s] \in Creating =>
    /\ Index(s) = -1 /\ ~InRegistry(Request[s].box)
    /\ pc[s] # "createOpen" => HasFile(Request[s].box)

\* A session that removes a box has removed its file, and the box is still where it
\* was found or, once its name is exchanged with that of the last one, is the last.
RemoversOnTrack ==
  \A s \in Managers : pc[s] \in Removing =>
    /\ ~HasFile(Request[s].box)
    /\ pc[s] \in HasFound \ HasLast => Named(Index(s), Request[s].box)
    /\ pc[s] \in HasLast => Named(n_boxes - 1, Request[s].box)

Agreement == /\ NamesDiffer /\ NamesKnown /\ BoxesHaveFiles /\ FilesHaveBoxes
             /\ CreatorsOnTrack /\ RemoversOnTrack

AgreeIInv == Sound /\ TurnsKept /\ Agreement

LEMMA ManagerFacts ==
  ASSUME NEW s \in Managers
  PROVE  s \in Sessions /\ Request[s].box \in Names /\ Request[s].kind \in {"create", "remove"}
BY RequestFacts DEF Managers

\* A manager at work on a box is alone with it.
LEMMA OneAtATime ==
  ASSUME ManagersTakeTurns, TurnsKept, NEW s \in Managers, NEW t \in Managers, s # t,
         \/ Request[s].box = Request[t].box
         \/ Request[s].kind = "remove" /\ Request[t].kind = "remove",
         pc[s] \notin {"none", "done"}
  PROVE  pc[t] \in {"none", "done"}
BY DEF ManagersTakeTurns, TurnsKept

LEMMA RegistryNames ==
  ASSUME NEW b
  PROVE  /\ InRegistry(b) <=> \E i : Named(i, b)
         /\ InRegistry(b)' <=> \E i : Named(i, b)'
BY DEF InRegistry, Named
-----------------------------------------------------------------------------
(* The directory under the operations of TecnicoFS.                        *)

LEMMA OpenInDirectory ==
  ASSUME IInv, NEW name \in Names, NEW mode, NEW ret \in Handles \cup {-1}, tfs_open(name, mode, ret)
  PROVE  /\ \A b \in Names \ {name} : HasFile(b)' <=> HasFile(b)
         /\ HasFile(name) => HasFile(name)'
         /\ ret # -1 => HasFile(name)'
         /\ "CREAT" \notin mode => UNCHANGED dir_entry
<1>1. CASE UNCHANGED dir_entry /\ (ret # -1 => HasFile(name))
  BY <1>1 DEF HasFile, Matches
<1>2. CASE /\ Matches(name) = {} /\ "CREAT" \in mode
           /\ \E i \in Inums, s \in DirSlots :
                /\ s \in FreeDirSlots
                /\ dir_entry' = [dir_entry EXCEPT ![s] = [d_inumber |-> i, d_name |-> name]]
  <2>1. PICK i \in Inums, s \in DirSlots :
          /\ s \in FreeDirSlots
          /\ dir_entry' = [dir_entry EXCEPT ![s] = [d_inumber |-> i, d_name |-> name]]
    BY <1>2
  <2>2. i # -1 /\ dir_entry[s].d_inumber = -1
    BY <2>1 DEF Inums, FreeDirSlots
  <2>3. /\ dir_entry'[s].d_inumber = i /\ dir_entry'[s].d_name = name
        /\ \A d \in DirSlots \ {s} : dir_entry'[d] = dir_entry[d]
    BY <2>1 DEF IInv, FSTypeOK
  <2>4. s \in Matches(name)' /\ \A b \in Names \ {name} : Matches(b)' = Matches(b)
    BY <2>2, <2>3 DEF Matches
  <2> QED
    BY <1>2, <2>4 DEF HasFile
<1>3. CASE OpenExisting(name, mode, ret)
  <2>1. UNCHANGED dir_entry /\ Matches(name) # {}
    BY <1>3 DEF OpenExisting, IsFirst
  <2> QED
    BY <1>1, <2>1 DEF HasFile
<1>4. CASE OpenCreating(name, mode, ret)
  <2>1. CASE UNCHANGED dir_entry /\ ret = -1
    BY <1>1, <2>1
  <2>2. CASE \E i \in Inums, s \in DirSlots :
               /\ s \in FreeDirSlots
               /\ dir_entry' = [dir_entry EXCEPT ![s] = [d_inumber |-> i, d_name |-> name]]
    BY <1>2, <1>4, <2>2 DEF OpenCreating
  <2> QED
    BY <1>4, <2>1, <2>2 DEF OpenCreating, IsFirst, fsVars
<1>5. CASE OpenMissing(name, mode, ret)
  BY <1>1, <1>5 DEF OpenMissing, fsVars
<1> QED
  BY <1>3, <1>4, <1>5 DEF tfs_open

LEMMA UnlinkInDirectory ==
  ASSUME IInv, NEW name \in Names, NEW ret, tfs_unlink(name, ret)
  PROVE  /\ \A b \in Names \ {name} : HasFile(b)' <=> HasFile(b)
         /\ ret # -1 => ~HasFile(name)'
         /\ ret = -1 => ~HasFile(name) /\ ~HasFile(name)'
<1>1. CASE UNCHANGED fsVars /\ ret = -1 /\ Matches(name) = {}
  BY <1>1 DEF HasFile, Matches, fsVars
<1>2. CASE ret = 0 /\ clear_dir_entry(name)
  <2>1. PICK s \in DirSlots : /\ dir_entry[s].d_name = name
                              /\ dir_entry' = [dir_entry EXCEPT ![s] = EmptySlot]
    BY <1>2 DEF clear_dir_entry, IsFirst
  <2>2. /\ dir_entry'[s].d_inumber = -1
        /\ \A d \in DirSlots \ {s} : dir_entry'[d] = dir_entry[d]
    BY <2>1 DEF IInv, FSTypeOK, EmptySlot
  <2>3. \A d \in Matches(name) : d = s
    <3>1. s \in Used
      BY <2>1, TFSAssumption DEF IInv, DirectoryConsistent, Used
    <3> QED
      BY <2>1, <3>1 DEF IInv, DirectoryConsistent, Matches, Used
  <2>4. Matches(name)' = {} /\ \A b \in Names \ {name} : Matches(b)' = Matches(b)
    BY <2>1, <2>2, <2>3 DEF Matches
  <2> QED
    BY <1>2, <2>4 DEF HasFile
<1> QED
  BY <1>1, <1>2 DEF tfs_unlink
-----------------------------------------------------------------------------
(* What a step leaves to the other sessions.                               *)

\* A step of s is a step of no other session.
Only(s) ==
  \A t \in Sessions \ {s} : /\ pc'[t] = pc[t] /\ frame'[t] = frame[t]
                            /\ Index(t)' = Index(t) /\ Handle(t)' = Handle(t)

LEMMA StepsAreApart ==
  ASSUME Sound, NEW s \in Sessions,
         PublisherStep(s) \/ SubscriberStep(s) \/ SpuriousWake(s) \/ ManagerStep(s) \/ ClientStep(s)
  PROVE  Only(s)
<1>1. /\ pc \in [Sessions -> Steps]
      /\ frame \in [Sessions -> [box_index : Indices \cup {-1}, box_handle : Handles \cup {-1},
                                 char_buffer : Bytes \cup {Unset}, buffer : Message]]
  BY DEF Sound, BrokerTypeOK
<1>2. ASSUME \A t \in Sessions \ {s} : pc'[t] = pc[t] /\ frame'[t] = frame[t]
      PROVE  Only(s)
  BY <1>2 DEF Only, Index, Handle
<1>3. CASE PublisherStep(s)
  <2>1. \A t \in Sessions \ {s} : pc'[t] = pc[t]
    BY <1>1, <1>3 DEF PublisherStep, PubOpen, PubFind, PubCheck, PubClaim, PubName, PubRefuse,
                      PubAttach, Eof, PubLock, PubWrite, PubTerminate, PubNotify, PubEnd, Goto,
                      Find
  <2>2. \A t \in Sessions \ {s} : frame'[t] = frame[t]
    BY <1>1, <1>3 DEF PublisherStep, PubOpen, PubFind, PubCheck, PubClaim, PubName, PubRefuse,
                      PubAttach, Eof, PubLock, PubWrite, PubTerminate, PubNotify, PubEnd, Find,
                      OpenFileOfBox
  <2> QED
    BY <1>2, <2>1, <2>2
<1>4. CASE SubscriberStep(s)
  <2>1. \A t \in Sessions \ {s} : pc'[t] = pc[t]
    BY <1>1, <1>4 DEF SubscriberStep, Register, SubOpen, SubFind, Loop, SubLock, SubRead, Wake,
                      Refind, Deliver, SubEnd, Goto, Find
  <2>2. \A t \in Sessions \ {s} : frame'[t] = frame[t]
    BY <1>1, <1>4 DEF SubscriberStep, Register, SubOpen, SubFind, Loop, SubLock, SubRead, Wake,
                      Refind, Deliver, SubEnd, Find, OpenFileOfBox
  <2> QED
    BY <1>2, <2>1, <2>2
<1>5. CASE ManagerStep(s)
  <2>1. \A t \in Sessions \ {s} : pc'[t] = pc[t]
    BY <1>1, <1>5 DEF ManagerStep, CreateFind, CreateOpen, CreateClose, CreateAdd, AddPastArray,
                      RemoveUnlink, RemoveFind, RemoveBroadcast, RemoveLock, RemovePipe, Swap,
                      Exchange, SwapWithNone, OutOfArray, RemoveEnd, Reply, Goto, Find
  <2>2. \A t \in Sessions \ {s} : frame'[t] = frame[t]
    BY <1>1, <1>5 DEF ManagerStep, CreateFind, CreateOpen, CreateClose, CreateAdd, AddPastArray,
                      RemoveUnlink, RemoveFind, RemoveBroadcast, RemoveLock, RemovePipe, Swap,
                      Exchange, SwapWithNone, OutOfArray, RemoveEnd, Reply, Find, OpenFileOfBox
  <2> QED
    BY <1>2, <2>1, <2>2
<1>6. CASE ClientStep(s)
  <2>1. \A t \in Sessions \ {s} : pc'[t] = pc[t]
    BY <1>1, <1>6 DEF ClientStep, Start, ReadCode, ReadCodeAlone, Leave, BrokenPipe, Goto, Find
  <2>2. \A t \in Sessions \ {s} : frame'[t] = frame[t]
    BY <1>1, <1>6 DEF ClientStep, Start, ReadCode, ReadCodeAlone, Leave, BrokenPipe, Find
  <2> QED
    BY <1>2, <2>1, <2>2
<1>7. CASE SpuriousWake(s)
  BY <1>2, <1>7 DEF SpuriousWake
<1> QED
  BY <1>3, <1>4, <1>5, <1>6, <1>7

\* What the steps of publishers, subscribers and clients are to the managers.
QuietForManagers ==
  /\ \A i, b : Named(i, b)' <=> Named(i, b)
  /\ UNCHANGED <<n_boxes, dir_entry>>
  /\ \A m \in Managers :
       /\ Index(m)' = Index(m) /\ Handle(m)' = Handle(m)
       /\ \/ pc'[m] = pc[m]
          \/ pc[m] = "none" /\ pc'[m] \in {"createFind", "removeUnlink"}

LEMMA OthersNames ==
  ASSUME Sound, \/ UNCHANGED registry
                \/ \E s \in Sessions : PubClaim(s) \/ PubName(s) \/ Eof(s) \/ PubTerminate(s)
  PROVE  n_boxes' = n_boxes /\ \A i, b : Named(i, b)' <=> Named(i, b)
<1>1. boxes \in [Indices -> Box] /\ n_boxes \in 0..MaxBoxes /\ 0..(n_boxes - 1) \subseteq Indices
  BY BrokerAssumption DEF Sound, BrokerTypeOK, Indices
<1>2. ASSUME n_boxes' = n_boxes, \A i \in Indices : boxes'[i].box_name = boxes[i].box_name
      PROVE  \A i, b : Named(i, b)' <=> Named(i, b)
  BY <1>1, <1>2 DEF Named
<1>3. CASE UNCHANGED registry
  BY <1>2, <1>3 DEF registry
<1>4. ASSUME NEW s \in Sessions, PubClaim(s) \/ PubName(s) \/ Eof(s) \/ PubTerminate(s)
      PROVE  /\ n_boxes' = n_boxes
             /\ \A i \in Indices : boxes'[i].box_name = boxes[i].box_name
  <2>1. CASE PubClaim(s) \/ Eof(s)
    BY <1>1, <2>1 DEF PubClaim, PubName, Eof, Box
  <2>2. CASE PubTerminate(s)
    <3>1. /\ n_boxes' = n_boxes
          /\ \E x : boxes' = [boxes EXCEPT ![Index(s)].box_size = x]
      BY <2>2 DEF PubTerminate
    <3> QED
      BY <1>1, <3>1 DEF Box
  <2>3. CASE PubName(s)
    <3>1. /\ n_boxes' = n_boxes
          /\ \E x : boxes' = [boxes EXCEPT ![Index(s)].publisher = x]
      BY <2>3 DEF PubName
    <3> QED
      BY <1>1, <3>1 DEF Box
  <2> QED
    BY <1>4, <2>1, <2>2, <2>3
<1> QED
  BY <1>2, <1>3, <1>4 DEF registry

LEMMA OthersDirectory ==
  ASSUME Sound, BrokerNext, \A s \in Managers : ~ManagerStep(s)
  PROVE  UNCHANGED dir_entry
<1>1. \A s \in Sessions : ~CreateOpen(s) /\ ~CreateClose(s) /\ ~RemoveUnlink(s)
  <2> SUFFICES ASSUME NEW s \in Sessions,
                      pc[s] \in {"createOpen", "createClose", "removeUnlink"}
               PROVE  s \in Managers
    BY DEF CreateOpen, CreateClose, RemoveUnlink, ManagerStep, Goto
  <2> QED
    BY RequestFacts DEF Sound, StepsInKind, Kinds, PublisherPcs, SubscriberPcs
<1>2. ASSUME NEW s \in Sessions, OpensFile(s)
      PROVE  UNCHANGED dir_entry
  <2>1. OpenFileOfBox(s, {"APPEND"}) \/ OpenFileOfBox(s, {})
    BY <1>1, <1>2 DEF OpensFile, PubOpen, PubRefuse, PubAttach, SubOpen
  <2>2. ASSUME NEW mode, "CREAT" \notin mode, OpenFileOfBox(s, mode)
        PROVE  UNCHANGED dir_entry
    BY <2>2, OpenInDirectory, SoundFS, RequestFacts DEF OpenFileOfBox
  <2> QED
    BY <2>1, <2>2
<1>3. ASSUME NEW s \in Sessions, ClosesFile(s)
      PROVE  UNCHANGED dir_entry
  BY <1>3 DEF ClosesFile, PubEnd, SubEnd, CreateClose, tfs_close, fsVars
<1>4. ASSUME NEW s \in Sessions, PubWrite(s) \/ PubTerminate(s)
      PROVE  UNCHANGED dir_entry
  <2>1. \E h, buffer, ret : tfs_write(h, buffer, ret)
    BY <1>4, BrokerWrites
  <2> QED
    BY <2>1 DEF tfs_write, fsVars
<1>5. ASSUME NEW s \in Sessions, SubRead(s)
      PROVE  UNCHANGED dir_entry
  <2>1. \E h, len, ret : tfs_read(h, len, ret)
    BY <1>5 DEF SubRead
  <2> QED
    BY <2>1 DEF tfs_read, fsVars
<1> QED
  BY <1>1, <1>2, <1>3, <1>4, <1>5, FSEffect DEF fsVars, ManagerStep

LEMMA OthersAreQuiet ==
  ASSUME Sound, BrokerNext, \A s \in Managers : ~ManagerStep(s)
  PROVE  QuietForManagers
<1>1. n_boxes' = n_boxes /\ \A i, b : Named(i, b)' <=> Named(i, b)
  BY RegistryEffect, OthersNames DEF ManagerStep, Publishers
<1>2. ASSUME NEW m \in Managers
      PROVE  /\ Index(m)' = Index(m) /\ Handle(m)' = Handle(m)
             /\ \/ pc'[m] = pc[m]
                \/ pc[m] = "none" /\ pc'[m] \in {"createFind", "removeUnlink"}
  <2> DEFINE Quiet == /\ Index(m)' = Index(m) /\ Handle(m)' = Handle(m)
                      /\ \/ pc'[m] = pc[m]
                         \/ pc[m] = "none" /\ pc'[m] \in {"createFind", "removeUnlink"}
  <2>1. ASSUME NEW s \in Sessions \ {m}, Only(s) PROVE Quiet
    BY <2>1, ManagerFacts DEF Only
  <2>2. m \in Sessions /\ m \notin Publishers /\ m \notin Subscribers
    BY ManagerFacts DEF Publishers, Subscribers
  <2>3. ASSUME NEW s \in Sessions, Start(s) PROVE Quiet
    <3>1. CASE s # m
      BY <2>1, <2>3, <3>1, StepsAreApart DEF ClientStep
    <3>2. CASE s = m
      BY <2>3, <3>2, StartFacts, ManagerFacts DEF Start, Sound, BrokerTypeOK, Index, Handle
    <3> QED
      BY <3>1, <3>2
  <2>4. ASSUME NEW s \in Sessions, ReadCode(s) \/ ReadCodeAlone(s) PROVE Quiet
    <3>1. pc[s] = "readCode"
      BY <2>4 DEF ReadCode, ReadCodeAlone, Find, Goto
    <3>2. s # m
      BY <3>1, ManagerFacts DEF Sound, StepsInKind, CreatorPcs, RemoverPcs
    <3> QED
      BY <2>1, <2>4, <3>2, StepsAreApart DEF ClientStep
  <2>5. ASSUME NEW s \in Sessions, Leave(s) \/ BrokenPipe(s) PROVE Quiet
    BY <2>5 DEF Leave, BrokenPipe, Index, Handle
  <2>6. CASE \E s \in Publishers : PublisherStep(s)
    BY <2>1, <2>2, <2>6, StepsAreApart DEF Publishers
  <2>7. CASE \E s \in Subscribers : SubscriberStep(s) \/ SpuriousWake(s)
    BY <2>1, <2>2, <2>7, StepsAreApart DEF Subscribers
  <2> QED
    BY <2>3, <2>4, <2>5, <2>6, <2>7 DEF BrokerNext, ClientStep
<1> QED
  BY <1>1, <1>2, OthersDirectory DEF QuietForManagers
-----------------------------------------------------------------------------
(* Turns.                                                                  *)

\* A manager that has not begun, or is done, does nothing but begin.
LEMMA IdleManagers ==
  ASSUME Sound, BrokerNext, NEW t \in Managers, pc[t] \in {"none", "done"}
  PROVE  pc'[t] = pc[t] \/ Start(t)
<1>1. t \in Sessions /\ t \notin Publishers /\ t \notin Subscribers
  BY ManagerFacts DEF Publishers, Subscribers
<1>2. ASSUME NEW s \in Sessions \ {t},
             PublisherStep(s) \/ SubscriberStep(s) \/ SpuriousWake(s) \/ ManagerStep(s) \/ ClientStep(s)
      PROVE  pc'[t] = pc[t]
  BY <1>1, <1>2, StepsAreApart DEF Only
<1>3. ~ManagerStep(t)
  BY DEF ManagerStep, CreateFind, CreateOpen, CreateClose, CreateAdd, AddPastArray, RemoveUnlink,
         RemoveFind, RemoveBroadcast, RemoveLock, RemovePipe, Swap, Exchange, SwapWithNone,
         OutOfArray, RemoveEnd, Reply, Goto, Find
<1>4. ClientStep(t) => pc'[t] = pc[t] \/ Start(t)
  BY DEF ClientStep, ReadCode, ReadCodeAlone, Leave, BrokenPipe, Find, Goto
<1>5. CASE \E s \in Publishers : PublisherStep(s)
  BY <1>1, <1>2, <1>5 DEF Publishers
<1>6. CASE \E s \in Subscribers : SubscriberStep(s) \/ SpuriousWake(s)
  BY <1>1, <1>2, <1>6 DEF Subscribers
<1>7. CASE \E s \in Managers : ManagerStep(s)
  BY <1>2, <1>3, <1>7 DEF Managers
<1>8. CASE \E s \in Sessions : ClientStep(s)
  BY <1>2, <1>4, <1>8
<1> QED
  BY <1>5, <1>6, <1>7, <1>8 DEF BrokerNext

LEMMA TurnsStep ==
  ASSUME Sound, TurnsKept, BrokerNext
  PROVE  TurnsKept'
<1> SUFFICES ASSUME NEW s \in Managers, NEW t \in Managers, s \in After[t], pc'[t] # "none"
             PROVE  pc'[s] = "done"
  BY DEF TurnsKept
<1>1. pc[s] = "done" => pc'[s] = "done"
  BY IdleManagers DEF Start, Goto
<1>2. CASE pc[t] # "none"
  BY <1>1, <1>2 DEF TurnsKept
<1>3. CASE pc[t] = "none"
  <2>1. Start(t)
    BY <1>3, IdleManagers
  <2>2. pc[s] \in {"done", "readCode", "loop", "asleep"}
    BY <2>1 DEF Start, Registered
  <2>3. pc[s] = "done"
    BY <2>2, ManagerFacts DEF Sound, StepsInKind, CreatorPcs, RemoverPcs
  <2> QED
    BY <1>1, <2>3
<1> QED
  BY <1>2, <1>3
-----------------------------------------------------------------------------
(* Steps that neither add a name or a file nor take one away.              *)

\* What the agreement asks of where manager m goes.
Tracks(m) ==
  /\ pc'[m] \in Creating => /\ Index(m)' = -1 /\ ~InRegistry(Request[m].box)
                            /\ pc'[m] # "createOpen" => HasFile(Request[m].box)
  /\ pc'[m] \in Removing =>
       /\ ~HasFile(Request[m].box)
       /\ pc'[m] \in HasFound \ HasLast => Named(Index(m)', Request[m].box)
       /\ pc'[m] \in HasLast => Named(n_boxes - 1, Request[m].box)
  /\ pc[m] \in Removing => pc'[m] \in Removing \/ ~InRegistry(Request[m].box)
  /\ \A b \in Names : m \in MakingFile(b) => m \in MakingFile(b)'

LEMMA StayersTrack ==
  ASSUME Agreement, NEW m \in Managers,
         pc'[m] = pc[m], Index(m)' = Index(m), Handle(m)' = Handle(m)
  PROVE  Tracks(m)
BY DEF Agreement, CreatorsOnTrack, RemoversOnTrack, Tracks, MakingFile

LEMMA TablesKept ==
  ASSUME Agreement, n_boxes' = n_boxes, \A i, b : Named(i, b)' <=> Named(i, b),
         \A b \in Names : HasFile(b)' <=> HasFile(b), \A m \in Managers : Tracks(m)
  PROVE  Agreement'
<1>1. \A b : InRegistry(b)' <=> InRegistry(b)
  BY RegistryNames
<1>2. NamesDiffer'
  BY DEF Agreement, NamesDiffer
<1>3. BoxesHaveFiles'
  <2> SUFFICES ASSUME NEW b \in Names, InRegistry(b), ~HasFile(b)
               PROVE  \E s \in Managers : Request[s].box = b /\ pc'[s] \in Removing
    BY <1>1 DEF BoxesHaveFiles
  <2>1. PICK s \in Managers : Request[s].box = b /\ pc[s] \in Removing
    BY DEF Agreement, BoxesHaveFiles
  <2> QED
    BY <2>1 DEF Tracks
<1>4. FilesHaveBoxes'
  <2> SUFFICES ASSUME NEW b \in Names, HasFile(b), ~InRegistry(b)
               PROVE  MakingFile(b)' # {}
    BY <1>1 DEF FilesHaveBoxes, HasFile
  <2>1. PICK s : s \in MakingFile(b)
    BY DEF Agreement, FilesHaveBoxes, HasFile
  <2>2. s \in Managers
    BY <2>1 DEF MakingFile
  <2> QED
    BY <2>1, <2>2 DEF Tracks
<1>5. CreatorsOnTrack'
  BY <1>1, ManagerFacts DEF CreatorsOnTrack, Tracks
<1>6. RemoversOnTrack'
  <2> SUFFICES ASSUME NEW m \in Managers, pc'[m] \in Removing
               PROVE  /\ ~HasFile(Request[m].box)'
                      /\ pc'[m] \in HasFound \ HasLast => Named(Index(m), Request[m].box)'
                      /\ pc'[m] \in HasLast => Named(n_boxes - 1, Request[m].box)'
    BY DEF RemoversOnTrack
  <2>1. ~HasFile(Request[m].box)'
    BY ManagerFacts DEF Tracks
  <2>2. PICK i, l : i = Index(m)' /\ l = n_boxes - 1 /\ l = n_boxes' - 1
    OBVIOUS
  <2>3. /\ pc'[m] \in HasFound \ HasLast => Named(i, Request[m].box)'
        /\ pc'[m] \in HasLast => Named(l, Request[m].box)'
    BY <2>2 DEF Tracks
  <2>4. /\ Named(i, Request[m].box)' => Named(Index(m), Request[m].box)'
        /\ Named(l, Request[m].box)' => Named(n_boxes - 1, Request[m].box)'
    BY <2>2 DEF Named
  <2> QED
    BY <2>1, <2>3, <2>4
<1>7. NamesKnown'
  BY <1>1 DEF Agreement, NamesKnown
<1> QED
  BY <1>2, <1>3, <1>4, <1>5, <1>6, <1>7 DEF Agreement

LEMMA QuietStep ==
  ASSUME Agreement, QuietForManagers
  PROVE  Agreement'
<1>1. \A b \in Names : HasFile(b)' <=> HasFile(b)
  BY DEF QuietForManagers, HasFile, Matches
<1>2. ASSUME NEW m \in Managers PROVE Tracks(m)
  <2>1. CASE pc'[m] = pc[m]
    BY <2>1, StayersTrack DEF QuietForManagers
  <2>2. CASE pc[m] = "none" /\ pc'[m] \in {"createFind", "removeUnlink"}
    BY <2>2 DEF Tracks, MakingFile, Creating, Removing, Deleting
  <2> QED
    BY <2>1, <2>2 DEF QuietForManagers
<1> QED
  BY <1>1, <1>2, TablesKept DEF QuietForManagers
-----------------------------------------------------------------------------
(* The steps of managers.                                                  *)

\* A step of s that leaves the tables as they are, if s goes where it should.
LEMMA LoneStep ==
  ASSUME Agreement, NEW s \in Managers, Only(s), Tracks(s), UNCHANGED <<n_boxes, dir_entry>>,
         \A i, b : Named(i, b)' <=> Named(i, b)
  PROVE  Agreement'
<1>1. \A b \in Names : HasFile(b)' <=> HasFile(b)
  BY DEF HasFile, Matches
<1>2. \A m \in Managers : Tracks(m)
  BY StayersTrack, ManagerFacts DEF Only
<1> QED
  BY <1>1, <1>2, TablesKept

LEMMA FindingStep ==
  ASSUME Sound, Agreement, NEW s \in Managers, CreateFind(s) \/ RemoveFind(s)
  PROVE  Agreement'
<1>1. /\ s \in Sessions /\ frame \in [Sessions -> [box_index : Indices \cup {-1},
             box_handle : Handles \cup {-1}, char_buffer : Bytes \cup {Unset}, buffer : Message]]
      /\ pc \in [Sessions -> Steps] /\ n_boxes \in 0..MaxBoxes
  BY ManagerFacts DEF Sound, BrokerTypeOK
<1>2. PICK i : i = find_box(Request[s].box)
  OBVIOUS
<1>3. /\ i # -1 => Named(i, Request[s].box)
      /\ i = -1 <=> ~InRegistry(Request[s].box)
  BY <1>1, <1>2, FindFacts DEF Named
<1>4. /\ frame' = [frame EXCEPT ![s].box_index = i]
      /\ UNCHANGED <<boxes, n_boxes, dir_entry>>
      /\ Only(s) /\ \A k, b : Named(k, b)' <=> Named(k, b)
  BY <1>1, <1>2, StepsAreApart DEF CreateFind, RemoveFind, Find, ManagerStep, fsVars, registry, Named
<1>5. Index(s)' = i
  BY <1>1, <1>4 DEF Index
<1>6. CASE CreateFind(s)
  <2>1. /\ pc[s] = "createFind"
        /\ pc'[s] = IF i = -1 THEN "createOpen" ELSE "replyNo"
    BY <1>1, <1>2, <1>6 DEF CreateFind, Find, Goto
  <2>2. Tracks(s)
    BY <1>3, <1>5, <2>1 DEF Tracks, MakingFile, Creating, Removing, HasFound, HasLast, Deleting
  <2> QED
    BY <1>4, <2>2, LoneStep
<1>7. CASE RemoveFind(s)
  <2>1. /\ pc[s] = "removeFind"
        /\ pc'[s] = IF i = -1 THEN "replyNo" ELSE "removeBroadcast"
    BY <1>1, <1>2, <1>7 DEF RemoveFind, Find, Goto
  <2>2. ~HasFile(Request[s].box)
    BY <2>1 DEF Agreement, RemoversOnTrack, Removing
  <2>3. Tracks(s)
    BY <1>3, <1>5, <2>1, <2>2 DEF Tracks, MakingFile, Creating, Removing, HasFound, HasLast, Deleting
  <2> QED
    BY <1>4, <2>3, LoneStep
<1> QED
  BY <1>6, <1>7

LEMMA WaitingStep ==
  ASSUME Sound, Agreement, NEW s \in Managers,
         \/ CreateClose(s) \/ RemoveBroadcast(s) \/ RemoveLock(s) \/ RemovePipe(s) \/ Reply(s)
         \/ pc[s] # "swapName" /\ Swap(s)
  PROVE  Agreement'
<1>1. /\ s \in Sessions /\ pc \in [Sessions -> Steps]
      /\ boxes \in [Indices -> Box] /\ n_boxes \in 0..MaxBoxes /\ 0..(n_boxes - 1) \subseteq Indices
  BY ManagerFacts, BrokerAssumption DEF Sound, BrokerTypeOK, Indices
<1>2. Only(s) /\ UNCHANGED <<n_boxes, frame>>
  BY <1>1, StepsAreApart
  DEF CreateClose, RemoveBroadcast, RemoveLock, RemovePipe, Reply, Swap, Exchange, ManagerStep,
      registry
<1>3. UNCHANGED dir_entry
  BY DEF CreateClose, RemoveBroadcast, RemoveLock, RemovePipe, Reply, Swap, Exchange, fsVars,
         tfs_close
<1>4. \/ pc[s] = "createClose" /\ pc'[s] = "createAdd"
      \/ pc[s] = "removeBroadcast" /\ pc'[s] = "removeLock"
      \/ pc[s] \in {"removeLock", "removePipe"} /\ pc'[s] \in {"removePipe", "swapName"}
      \/ pc[s] \in HasLast /\ pc'[s] \in HasLast
      \/ pc[s] \in {"replyYes", "replyNo"} /\ pc'[s] = "done"
  BY <1>1 DEF CreateClose, RemoveBroadcast, RemoveLock, RemovePipe, Reply, Swap, Exchange, Goto,
              HasLast
<1>5. Index(s)' = Index(s) /\ Handle(s)' = Handle(s)
  BY <1>2 DEF Index, Handle
<1>6. pc[s] \in Creating \ {"createOpen"} =>
        Index(s) = -1 /\ ~InRegistry(Request[s].box) /\ HasFile(Request[s].box)
  BY DEF Agreement, CreatorsOnTrack
<1>7. pc[s] \in Removing => /\ ~HasFile(Request[s].box)
                            /\ pc[s] \in HasFound \ HasLast => Named(Index(s), Request[s].box)
                            /\ pc[s] \in HasLast => Named(n_boxes - 1, Request[s].box)
  BY DEF Agreement, RemoversOnTrack
<1>8. Tracks(s)
  <2>1. /\ pc'[s] \in Creating => /\ Index(s)' = -1 /\ ~InRegistry(Request[s].box)
                                  /\ pc'[s] # "createOpen" => HasFile(Request[s].box)
        /\ pc'[s] \in Removing =>
             /\ ~HasFile(Request[s].box)
             /\ pc'[s] \in HasFound \ HasLast => Named(Index(s)', Request[s].box)
             /\ pc'[s] \in HasLast => Named(n_boxes - 1, Request[s].box)
        /\ pc[s] \in Removing => pc'[s] \in Removing
    BY <1>4, <1>5, <1>6, <1>7 DEF Creating, Removing, HasFound, HasLast, Deleting
  <2>2. \A b \in Names : s \in MakingFile(b) => s \in MakingFile(b)'
    BY <1>4, <1>5 DEF MakingFile, HasLast
  <2> QED
    BY <2>1, <2>2 DEF Tracks
<1>9. \A i, b : Named(i, b)' <=> Named(i, b)
  <2>1. CASE UNCHANGED boxes
    BY <1>2, <2>1 DEF Named
  <2>2. ASSUME NEW i, NEW j, NEW f \in {"publisher", "box_size", "n_publishers"},
               boxes' = [boxes EXCEPT ![i][f] = boxes[j][f], ![j][f] = boxes[i][f]]
        PROVE  \A k \in Indices : boxes'[k].box_name = boxes[k].box_name
    BY <1>1, <2>2 DEF Box
  <2>3. CASE pc[s] # "swapName" /\ Swap(s)
    <3>1. \E f \in {"publisher", "box_size", "n_publishers"} :
             boxes' = [boxes EXCEPT ![Index(s)][f] = boxes[n_boxes - 1][f],
                                    ![n_boxes - 1][f] = boxes[Index(s)][f]]
      BY <2>3 DEF Swap, Exchange, Goto
    <3>2. \A k \in Indices : boxes'[k].box_name = boxes[k].box_name
      BY <2>2, <3>1
    <3> QED
      BY <1>1, <1>2, <3>2 DEF Named
  <2>4. ~(pc[s] # "swapName" /\ Swap(s)) => UNCHANGED boxes
    BY DEF CreateClose, RemoveBroadcast, RemoveLock, RemovePipe, Reply, registry
  <2> QED
    BY <2>1, <2>3, <2>4
<1> QED
  BY <1>2, <1>3, <1>8, <1>9, LoneStep

\* Other removals stay where they are while names are only added.
LEMMA OthersOnTrack ==
  ASSUME Agreement, NEW m \in Managers, pc[m] \in Removing,
         pc'[m] = pc[m], Index(m)' = Index(m),
         n_boxes' = n_boxes \/ pc[m] \notin HasLast,
         \A i, b : Named(i, b) => Named(i, b)'
  PROVE  /\ pc'[m] \in HasFound \ HasLast => Named(Index(m), Request[m].box)'
         /\ pc'[m] \in HasLast => Named(n_boxes - 1, Request[m].box)'
<1>1. PICK i, l : i = Index(m)' /\ l = n_boxes' - 1
  OBVIOUS
<1>2. /\ pc'[m] \in HasFound \ HasLast => Named(i, Request[m].box)'
      /\ pc'[m] \in HasLast => Named(l, Request[m].box)'
  BY <1>1 DEF Agreement, RemoversOnTrack
<1>3. /\ Named(i, Request[m].box)' => Named(Index(m), Request[m].box)'
      /\ Named(l, Request[m].box)' => Named(n_boxes - 1, Request[m].box)'
  BY <1>1 DEF Named
<1> QED
  BY <1>2, <1>3

\* The file of s is made, or was there, whether or not s gets a handle for it.
LEMMA CreateOpenStep ==
  ASSUME Sound, Agreement, ManagersTakeTurns, TurnsKept, NEW s \in Managers, CreateOpen(s)
  PROVE  Agreement'
<1>1. /\ s \in Sessions /\ frame \in [Sessions -> [box_index : Indices \cup {-1},
             box_handle : Handles \cup {-1}, char_buffer : Bytes \cup {Unset}, buffer : Message]]
      /\ pc \in [Sessions -> Steps]
      /\ Request[s].box \in Names
  BY ManagerFacts DEF Sound, BrokerTypeOK
<1>2. Only(s) /\ UNCHANGED registry /\ pc[s] = "createOpen"
  BY <1>1, StepsAreApart DEF CreateOpen, ManagerStep
<1>3. PICK ret \in Handles \cup {-1} : /\ tfs_open(Request[s].box, {"CREAT"}, ret)
                                       /\ frame' = [frame EXCEPT ![s].box_handle = ret]
  BY DEF CreateOpen, OpenFileOfBox
<1>4. /\ \A b \in Names \ {Request[s].box} : HasFile(b)' <=> HasFile(b)
      /\ ret # -1 => HasFile(Request[s].box)'
      /\ HasFile(Request[s].box) => HasFile(Request[s].box)'
  BY <1>1, <1>3, SoundFS, OpenInDirectory
<1>5. Index(s)' = Index(s) /\ Handle(s)' = ret
  BY <1>1, <1>3 DEF Index, Handle
<1>6. pc'[s] = IF ret = -1 THEN "replyNo" ELSE "createClose"
  <2>1. frame'[s].box_handle = ret
    BY <1>5 DEF Handle
  <2> QED
    BY <1>1, <2>1 DEF CreateOpen, Goto
<1>7. Index(s) = -1 /\ ~InRegistry(Request[s].box)
  BY <1>2 DEF Agreement, CreatorsOnTrack, Creating
<1>8. Request[s].kind = "create"
  BY <1>2, ManagerFacts DEF Sound, StepsInKind, RemoverPcs
<1>9. /\ \A i, b : Named(i, b)' <=> Named(i, b)
      /\ \A b : InRegistry(b)' <=> InRegistry(b)
  BY <1>2 DEF registry, Named, InRegistry
<1>10. \A m \in Managers \ {s} : /\ pc'[m] = pc[m] /\ Index(m)' = Index(m) /\ Handle(m)' = Handle(m)
                                 /\ Request[m].box = Request[s].box => pc[m] \in {"none", "done"}
  BY <1>2, OneAtATime, ManagerFacts DEF Only
<1>11. s \in MakingFile(Request[s].box)'
  BY <1>5, <1>6, <1>7, <1>8 DEF MakingFile
<1>12. NamesDiffer'
  BY <1>9 DEF Agreement, NamesDiffer
<1>13. BoxesHaveFiles'
  <2> SUFFICES ASSUME NEW b \in Names, InRegistry(b), ~HasFile(b)'
               PROVE  \E m \in Managers : Request[m].box = b /\ pc'[m] \in Removing
    BY <1>9 DEF BoxesHaveFiles
  <2>1. ~HasFile(b)
    BY <1>4
  <2>2. PICK m \in Managers : Request[m].box = b /\ pc[m] \in Removing
    BY <2>1 DEF Agreement, BoxesHaveFiles
  <2>3. m # s
    BY <1>2, <2>2 DEF Removing, Deleting
  <2> QED
    BY <1>10, <2>2, <2>3
<1>14. FilesHaveBoxes'
  <2> SUFFICES ASSUME NEW b \in Names, HasFile(b)', ~InRegistry(b)
               PROVE  MakingFile(b)' # {}
    BY <1>9 DEF FilesHaveBoxes, HasFile
  <2>1. CASE b = Request[s].box
    BY <1>11, <2>1
  <2>2. CASE b # Request[s].box
    <3>1. PICK m : m \in MakingFile(b)
      BY <1>4, <2>2 DEF Agreement, FilesHaveBoxes, HasFile
    <3>2. m \in Managers \ {s}
      BY <2>2, <3>1 DEF MakingFile
    <3>3. m \in MakingFile(b)'
      BY <1>10, <3>1, <3>2 DEF MakingFile
    <3> QED
      BY <3>3
  <2> QED
    BY <2>1, <2>2
<1>15. CreatorsOnTrack'
  <2> SUFFICES ASSUME NEW m \in Managers, pc'[m] \in Creating
               PROVE  /\ Index(m)' = -1 /\ ~InRegistry(Request[m].box)
                      /\ pc'[m] # "createOpen" => HasFile(Request[m].box)'
    BY <1>9 DEF CreatorsOnTrack
  <2>1. CASE m = s
    BY <1>4, <1>5, <1>6, <1>7, <2>1 DEF Creating
  <2>2. CASE m # s
    <3>1. pc[m] \in Creating /\ Index(m)' = Index(m) /\ pc'[m] = pc[m]
          /\ Request[m].box # Request[s].box
      BY <1>10, <2>2 DEF Creating
    <3> QED
      BY <1>4, <3>1, ManagerFacts DEF Agreement, CreatorsOnTrack
  <2> QED
    BY <2>1, <2>2
<1>16. RemoversOnTrack'
  <2> SUFFICES ASSUME NEW m \in Managers, pc'[m] \in Removing
               PROVE  /\ ~HasFile(Request[m].box)'
                      /\ pc'[m] \in HasFound \ HasLast => Named(Index(m), Request[m].box)'
                      /\ pc'[m] \in HasLast => Named(n_boxes - 1, Request[m].box)'
    BY DEF RemoversOnTrack
  <2>1. m # s
    BY <1>6 DEF Removing, Deleting
  <2>2. pc[m] \in Removing /\ Index(m)' = Index(m) /\ pc'[m] = pc[m] /\ Request[m].box # Request[s].box
    BY <1>10, <2>1 DEF Removing, Deleting
  <2>3. ~HasFile(Request[m].box)
    BY <2>2 DEF Agreement, RemoversOnTrack
  <2> QED
    BY <1>2, <1>4, <1>9, <2>2, <2>3, ManagerFacts, OthersOnTrack DEF registry
<1>17. NamesKnown'
  BY <1>9 DEF Agreement, NamesKnown
<1> QED
  BY <1>12, <1>13, <1>14, <1>15, <1>16, <1>17 DEF Agreement
\* The new box comes after the others, which stay where they are.
LEMMA AddFacts ==
  ASSUME Sound, NEW s \in Managers, CreateAdd(s)
  PROVE  \E n \in Indices :
           /\ n = n_boxes
           /\ \A i, b : Named(i, b)' <=> Named(i, b) \/ (i = n /\ b = Request[s].box)
           /\ \A i : i \in 0..(n_boxes - 1) => i # n /\ boxes'[i] = boxes[i]
           /\ boxes'[n].n_publishers = 0
<1>1. PICK n \in 0..MaxBoxes : n = n_boxes /\ n < MaxBoxes
  BY DEF CreateAdd, Sound, BrokerTypeOK
<1>2. /\ n \in Indices /\ 0..(n - 1) \subseteq Indices /\ n \notin 0..(n - 1)
      /\ 0..(n_boxes' - 1) = 0..(n - 1) \cup {n}
  <2>1. n_boxes' = n + 1
    BY <1>1 DEF CreateAdd
  <2>2. 0..((n + 1) - 1) = 0..(n - 1) \cup {n}
    BY <1>1
  <2> QED
    BY <1>1, <2>1, <2>2, BrokerAssumption DEF Indices
<1>3. /\ boxes'[n].box_name = Request[s].box /\ boxes'[n].n_publishers = 0
      /\ \A i \in Indices \ {n} : boxes'[i] = boxes[i]
  <2>1. boxes' = [boxes EXCEPT ![n] = [EmptyBox EXCEPT !.box_name = Request[s].box]]
    BY <1>1 DEF CreateAdd
  <2>2. boxes \in [Indices -> Box]
    BY DEF Sound, BrokerTypeOK
  <2> QED
    BY <1>2, <2>1, <2>2 DEF EmptyBox
<1>4. \A i, b : Named(i, b)' <=> Named(i, b) \/ (i = n /\ b = Request[s].box)
  BY <1>1, <1>2, <1>3 DEF Named
<1> QED
  BY <1>1, <1>2, <1>3, <1>4

\* The new box has a file, and a name that no other has.
LEMMA CreateAddStep ==
  ASSUME Sound, Agreement, ManagersTakeTurns, TurnsKept, NEW s \in Managers, CreateAdd(s)
  PROVE  Agreement'
<1>1. s \in Sessions /\ pc \in [Sessions -> Steps]
  BY ManagerFacts DEF Sound, BrokerTypeOK
<1>2. Only(s) /\ UNCHANGED <<frame, dir_entry>> /\ pc[s] = "createAdd" /\ pc'[s] = "replyYes"
  BY <1>1, StepsAreApart DEF CreateAdd, ManagerStep, fsVars, Goto
<1>3. ~InRegistry(Request[s].box) /\ HasFile(Request[s].box)
  BY <1>2 DEF Agreement, CreatorsOnTrack, Creating
<1>4. PICK n : \A i, b : Named(i, b)' <=> Named(i, b) \/ (i = n /\ b = Request[s].box)
  BY AddFacts
<1>5. \A b : InRegistry(b)' <=> InRegistry(b) \/ b = Request[s].box
  BY <1>4, RegistryNames
<1>6. \A b \in Names : HasFile(b)' <=> HasFile(b)
  BY <1>2 DEF HasFile, Matches
<1>7. \A m \in Managers \ {s} : /\ pc'[m] = pc[m] /\ Index(m)' = Index(m) /\ Handle(m)' = Handle(m)
                                /\ Request[m].box = Request[s].box => pc[m] \in {"none", "done"}
  BY <1>2, OneAtATime, ManagerFacts DEF Only
<1>8. NamesDiffer'
  <2> SUFFICES ASSUME NEW i, NEW j, NEW b, Named(i, b)', Named(j, b)'
               PROVE  i = j
    BY DEF NamesDiffer
  <2>1. CASE b = Request[s].box
    BY <1>3, <1>4, <2>1, RegistryNames
  <2>2. CASE b # Request[s].box
    BY <1>4, <2>2 DEF Agreement, NamesDiffer
  <2> QED
    BY <2>1, <2>2
<1>9. BoxesHaveFiles'
  <2> SUFFICES ASSUME NEW b \in Names, InRegistry(b), ~HasFile(b)
               PROVE  \E m \in Managers : Request[m].box = b /\ pc'[m] \in Removing
    BY <1>3, <1>5, <1>6 DEF BoxesHaveFiles
  <2>1. PICK m \in Managers : Request[m].box = b /\ pc[m] \in Removing
    BY DEF Agreement, BoxesHaveFiles
  <2>2. m # s
    BY <1>2, <2>1 DEF Removing, Deleting
  <2> QED
    BY <1>7, <2>1, <2>2
<1>10. FilesHaveBoxes'
  <2> SUFFICES ASSUME NEW b \in Names, HasFile(b), ~InRegistry(b), b # Request[s].box
               PROVE  MakingFile(b)' # {}
    BY <1>5, <1>6 DEF FilesHaveBoxes, HasFile
  <2>1. PICK m : m \in MakingFile(b)
    BY DEF Agreement, FilesHaveBoxes, HasFile
  <2>2. m \in Managers \ {s}
    BY <2>1 DEF MakingFile
  <2>3. m \in MakingFile(b)'
    BY <1>7, <2>1, <2>2 DEF MakingFile
  <2> QED
    BY <2>3
<1>11. CreatorsOnTrack'
  <2> SUFFICES ASSUME NEW m \in Managers, pc'[m] \in Creating
               PROVE  /\ Index(m)' = -1 /\ ~InRegistry(Request[m].box)'
                      /\ pc'[m] # "createOpen" => HasFile(Request[m].box)'
    BY DEF CreatorsOnTrack
  <2>1. m # s
    BY <1>2 DEF Creating
  <2>2. pc[m] \in Creating /\ Index(m)' = Index(m) /\ pc'[m] = pc[m] /\ Request[m].box # Request[s].box
    BY <1>7, <2>1 DEF Creating
  <2> QED
    BY <1>5, <1>6, <2>2, ManagerFacts DEF Agreement, CreatorsOnTrack
<1>12. RemoversOnTrack'
  <2> SUFFICES ASSUME NEW m \in Managers, pc'[m] \in Removing
               PROVE  /\ ~HasFile(Request[m].box)'
                      /\ pc'[m] \in HasFound \ HasLast => Named(Index(m), Request[m].box)'
                      /\ pc'[m] \in HasLast => Named(n_boxes - 1, Request[m].box)'
    BY DEF RemoversOnTrack
  <2>1. m # s
    BY <1>2 DEF Removing, Deleting
  <2>2. pc[m] \in Removing /\ Index(m)' = Index(m) /\ pc'[m] = pc[m]
    BY <1>7, <2>1
  <2>3. ~HasFile(Request[m].box)
    BY <2>2 DEF Agreement, RemoversOnTrack
  <2>4. pc[m] \notin HasLast
    <3>1. mutex # m
      BY BrokerAssumption, ManagerFacts DEF CreateAdd
    <3> QED
      BY <3>1, ManagerFacts DEF Sound, RemovalsInOrder, HasLast, Deleting
  <2> QED
    BY <1>4, <1>6, <2>2, <2>3, <2>4, ManagerFacts, OthersOnTrack
<1>13. NamesKnown'
  BY <1>5, ManagerFacts DEF Agreement, NamesKnown
<1> QED
  BY <1>8, <1>9, <1>10, <1>11, <1>12, <1>13 DEF Agreement

\* The file goes first: from here on s is removing the box.
LEMMA RemoveUnlinkStep ==
  ASSUME Sound, Agreement, ManagersTakeTurns, TurnsKept, NEW s \in Managers, RemoveUnlink(s)
  PROVE  Agreement'
<1>1. s \in Sessions /\ pc \in [Sessions -> Steps] /\ Request[s].box \in Names
  BY ManagerFacts DEF Sound, BrokerTypeOK
<1>2. Only(s) /\ UNCHANGED <<frame, registry>> /\ pc[s] = "removeUnlink"
  BY <1>1, StepsAreApart DEF RemoveUnlink, ManagerStep
<1>3. PICK ret \in {0, -1} : /\ tfs_unlink(Request[s].box, ret)
                             /\ pc'[s] = IF ret = -1 THEN "replyNo" ELSE "removeFind"
  BY <1>1 DEF RemoveUnlink, Goto
<1>4. /\ \A b \in Names \ {Request[s].box} : HasFile(b)' <=> HasFile(b)
      /\ ~HasFile(Request[s].box)'
      /\ ret = -1 => ~HasFile(Request[s].box)
  BY <1>1, <1>3, SoundFS, UnlinkInDirectory
<1>5. /\ \A i, b : Named(i, b)' <=> Named(i, b)
      /\ \A b : InRegistry(b)' <=> InRegistry(b)
  BY <1>2 DEF registry, Named, InRegistry
<1>6. \A m \in Managers \ {s} : /\ pc'[m] = pc[m] /\ Index(m)' = Index(m) /\ Handle(m)' = Handle(m)
                                /\ Request[m].box = Request[s].box => pc[m] \in {"none", "done"}
  BY <1>2, OneAtATime, ManagerFacts DEF Only
<1>7. NamesDiffer'
  BY <1>5 DEF Agreement, NamesDiffer
<1>8. BoxesHaveFiles'
  <2> SUFFICES ASSUME NEW b \in Names, InRegistry(b), ~HasFile(b)'
               PROVE  \E m \in Managers : Request[m].box = b /\ pc'[m] \in Removing
    BY <1>5 DEF BoxesHaveFiles
  <2>1. CASE b = Request[s].box /\ ret = 0
    BY <1>3, <2>1 DEF Removing, Deleting
  <2>2. CASE b # Request[s].box \/ ret = -1
    <3>1. PICK m \in Managers : Request[m].box = b /\ pc[m] \in Removing
      BY <1>4, <2>2 DEF Agreement, BoxesHaveFiles
    <3>2. m # s
      BY <1>2, <3>1 DEF Removing, Deleting
    <3> QED
      BY <1>6, <3>1, <3>2
  <2> QED
    BY <1>3, <2>1, <2>2
<1>9. FilesHaveBoxes'
  <2> SUFFICES ASSUME NEW b \in Names, HasFile(b)', ~InRegistry(b)
               PROVE  MakingFile(b)' # {}
    BY <1>5 DEF FilesHaveBoxes, HasFile
  <2>1. PICK m : m \in MakingFile(b) /\ b # Request[s].box
    BY <1>4 DEF Agreement, FilesHaveBoxes, HasFile
  <2>2. m \in Managers \ {s}
    BY <2>1 DEF MakingFile
  <2>3. m \in MakingFile(b)'
    BY <1>6, <2>1, <2>2 DEF MakingFile
  <2> QED
    BY <2>3
<1>10. CreatorsOnTrack'
  <2> SUFFICES ASSUME NEW m \in Managers, pc'[m] \in Creating
               PROVE  /\ Index(m)' = -1 /\ ~InRegistry(Request[m].box)
                      /\ pc'[m] # "createOpen" => HasFile(Request[m].box)'
    BY <1>5 DEF CreatorsOnTrack
  <2>1. m # s
    BY <1>3 DEF Creating
  <2>2. pc[m] \in Creating /\ Index(m)' = Index(m) /\ pc'[m] = pc[m] /\ Request[m].box # Request[s].box
    BY <1>6, <2>1 DEF Creating
  <2> QED
    BY <1>4, <2>2, ManagerFacts DEF Agreement, CreatorsOnTrack
<1>11. RemoversOnTrack'
  <2> SUFFICES ASSUME NEW m \in Managers, pc'[m] \in Removing
               PROVE  /\ ~HasFile(Request[m].box)'
                      /\ pc'[m] \in HasFound \ HasLast => Named(Index(m), Request[m].box)'
                      /\ pc'[m] \in HasLast => Named(n_boxes - 1, Request[m].box)'
    BY DEF RemoversOnTrack
  <2>1. CASE m = s
    BY <1>3, <1>4, <2>1 DEF HasFound, HasLast, Removing, Deleting
  <2>2. CASE m # s
    <3>1. pc[m] \in Removing /\ Index(m)' = Index(m) /\ pc'[m] = pc[m] /\ Request[m].box # Request[s].box
      BY <1>6, <2>2 DEF Removing, Deleting
    <3>2. ~HasFile(Request[m].box)
      BY <3>1 DEF Agreement, RemoversOnTrack
    <3> QED
      BY <1>2, <1>4, <1>5, <3>1, <3>2, ManagerFacts, OthersOnTrack DEF registry
  <2> QED
    BY <2>1, <2>2
<1>12. NamesKnown'
  BY <1>5 DEF Agreement, NamesKnown
<1> QED
  BY <1>7, <1>8, <1>9, <1>10, <1>11, <1>12 DEF Agreement
-----------------------------------------------------------------------------
(* delete_box.                                                             *)

\* Who is in delete_box is alone in removing a box.
LEMMA AloneRemoving ==
  ASSUME Sound, ManagersTakeTurns, TurnsKept, NEW s \in Managers, pc[s] \in Removing
  PROVE  /\ Request[s].kind = "remove"
         /\ \A m \in Managers \ {s} : pc[m] \notin Removing
<1>1. \A m \in Managers : pc[m] \in Removing => Request[m].kind = "remove"
  BY ManagerFacts DEF Sound, StepsInKind, CreatorPcs, Removing, Deleting
<1>2. pc[s] \notin {"none", "done"}
  BY DEF Removing, Deleting
<1>3. ASSUME NEW m \in Managers \ {s}, pc[m] \in Removing PROVE FALSE
  <2>1. pc[m] \in {"none", "done"}
    BY <1>1, <1>2, <1>3, OneAtATime
  <2> QED
    BY <1>3, <2>1 DEF Removing, Deleting
<1> QED
  BY <1>1, <1>3

\* The name of the box and that of the last one change places.
LEMMA SwapNames ==
  ASSUME Sound, Agreement, NEW s \in Managers, pc[s] = "swapName", Swap(s)
  PROVE  /\ pc'[s] = "swapPublisher" /\ n_boxes' = n_boxes
         /\ Named(n_boxes - 1, Request[s].box)'
         /\ \A b : InRegistry(b)' <=> InRegistry(b)
         /\ NamesDiffer'
<1>1. s \in Sessions /\ pc \in [Sessions -> Steps] /\ boxes \in [Indices -> Box] /\ n_boxes \in 0..MaxBoxes
  BY ManagerFacts DEF Sound, BrokerTypeOK
<1>2. /\ pc'[s] = "swapPublisher" /\ n_boxes' = n_boxes
      /\ boxes' = [boxes EXCEPT ![Index(s)]["box_name"] = boxes[n_boxes - 1]["box_name"],
                                ![n_boxes - 1]["box_name"] = boxes[Index(s)]["box_name"]]
  BY <1>1 DEF Swap, Exchange, Goto
<1>3. Named(Index(s), Request[s].box)
  BY DEF Agreement, RemoversOnTrack, Removing, HasFound, HasLast, Deleting
<1>4. PICK n \in 0..MaxBoxes : n = n_boxes
  BY <1>1
<1>5. PICK i \in 0..(n - 1) : i = Index(s)
  BY <1>3, <1>4 DEF Named
<1>6. /\ i \in Indices /\ n - 1 \in Indices /\ n - 1 \in 0..(n - 1) /\ 0..(n - 1) \subseteq Indices
  BY <1>4, <1>5, BrokerAssumption DEF Indices
<1>7. /\ boxes'[i].box_name = boxes[n - 1].box_name
      /\ boxes'[n - 1].box_name = boxes[i].box_name
      /\ \A j \in Indices \ {i, n - 1} : boxes'[j].box_name = boxes[j].box_name
  <2>1. boxes' = [boxes EXCEPT ![i].box_name = boxes[n - 1].box_name, ![n - 1].box_name = boxes[i].box_name]
    BY <1>2, <1>4, <1>5
  <2> QED
    BY <1>1, <1>6, <2>1 DEF Box
<1> DEFINE Partner(j) == IF j = i THEN n - 1 ELSE IF j = n - 1 THEN i ELSE j
<1>8. \A j, b : Named(j, b)' <=> Named(Partner(j), b)
  BY <1>2, <1>4, <1>6, <1>7 DEF Named
<1>9. \A j : Partner(Partner(j)) = j
  OBVIOUS
<1>10. \A b : InRegistry(b)' <=> InRegistry(b)
  <2>1. \A b : (\E j : Named(j, b)') <=> \E j : Named(j, b)
    BY <1>8, <1>9
  <2> QED
    BY <2>1, RegistryNames
<1>11. NamesDiffer'
  <2> SUFFICES ASSUME NEW j, NEW l, NEW b, Named(j, b)', Named(l, b)'
               PROVE  j = l
    BY DEF NamesDiffer
  <2>1. Partner(j) = Partner(l)
    BY <1>8 DEF Agreement, NamesDiffer
  <2> QED
    BY <1>9, <2>1
<1>12. Named(n_boxes - 1, Request[s].box)'
  <2>1. Named(n - 1, Request[s].box)'
    BY <1>3, <1>5, <1>8
  <2>2. n - 1 = n_boxes' - 1
    BY <1>2, <1>4
  <2> QED
    BY <2>1, <2>2 DEF Named
<1> QED
  BY <1>2, <1>10, <1>11, <1>12

LEMMA SwapNameStep ==
  ASSUME Sound, Agreement, ManagersTakeTurns, TurnsKept, NEW s \in Managers, pc[s] = "swapName", Swap(s)
  PROVE  Agreement'
<1>1. Only(s) /\ UNCHANGED <<frame, dir_entry>>
  BY ManagerFacts, StepsAreApart DEF Swap, Exchange, ManagerStep, fsVars
<1>2. \A b \in Names : HasFile(b)' <=> HasFile(b)
  BY <1>1 DEF HasFile, Matches
<1>3. pc[s] \in Removing /\ pc'[s] \in Removing /\ pc'[s] = "swapPublisher"
  BY SwapNames DEF Removing, Deleting
<1>4. \A m \in Managers \ {s} : /\ pc'[m] = pc[m] /\ Index(m)' = Index(m) /\ Handle(m)' = Handle(m)
                                /\ pc[m] \notin Removing
  BY <1>1, <1>3, AloneRemoving, ManagerFacts DEF Only
<1>5. Index(s)' = Index(s) /\ Handle(s)' = Handle(s)
  BY <1>1 DEF Index, Handle
<1>6. BoxesHaveFiles'
  <2> SUFFICES ASSUME NEW b \in Names, InRegistry(b), ~HasFile(b)
               PROVE  \E m \in Managers : Request[m].box = b /\ pc'[m] \in Removing
    BY <1>2, SwapNames DEF BoxesHaveFiles
  <2>1. PICK m \in Managers : Request[m].box = b /\ pc[m] \in Removing
    BY DEF Agreement, BoxesHaveFiles
  <2> QED
    BY <1>3, <1>4, <2>1
<1>7. FilesHaveBoxes'
  <2> SUFFICES ASSUME NEW b \in Names, HasFile(b), ~InRegistry(b)
               PROVE  MakingFile(b)' # {}
    BY <1>2, SwapNames DEF FilesHaveBoxes, HasFile
  <2>1. PICK m : m \in MakingFile(b)
    BY DEF Agreement, FilesHaveBoxes, HasFile
  <2>2. m \in Managers \ {s}
    BY <2>1 DEF MakingFile
  <2>3. m \in MakingFile(b)'
    BY <1>4, <2>1, <2>2 DEF MakingFile
  <2> QED
    BY <2>3
<1>8. CreatorsOnTrack'
  <2> SUFFICES ASSUME NEW m \in Managers, pc'[m] \in Creating
               PROVE  /\ Index(m)' = -1 /\ ~InRegistry(Request[m].box)'
                      /\ pc'[m] # "createOpen" => HasFile(Request[m].box)'
    BY DEF CreatorsOnTrack
  <2>1. m # s
    BY <1>3 DEF Creating
  <2>2. pc[m] \in Creating /\ Index(m)' = Index(m) /\ pc'[m] = pc[m]
    BY <1>4, <2>1
  <2> QED
    BY <1>2, <2>2, ManagerFacts, SwapNames DEF Agreement, CreatorsOnTrack
<1>9. RemoversOnTrack'
  <2> SUFFICES ASSUME NEW m \in Managers, pc'[m] \in Removing
               PROVE  /\ ~HasFile(Request[m].box)'
                      /\ pc'[m] \in HasLast /\ Named(n_boxes - 1, Request[m].box)'
    BY DEF RemoversOnTrack
  <2>1. m = s
    BY <1>4
  <2>2. ~HasFile(Request[s].box)
    BY <1>3 DEF Agreement, RemoversOnTrack
  <2> QED
    BY <1>2, <1>3, <2>1, <2>2, SwapNames, ManagerFacts DEF HasLast
<1>10. NamesKnown'
  BY SwapNames DEF Agreement, NamesKnown
<1> QED
  BY <1>6, <1>7, <1>8, <1>9, SwapNames, <1>10 DEF Agreement

\* What is left are the other boxes, and only they.
LEMMA EndNames ==
  ASSUME Sound, Agreement, NEW s \in Managers, RemoveEnd(s)
  PROVE  /\ pc[s] = "removeEnd" /\ pc'[s] = "replyYes"
         /\ \A b : InRegistry(b)' <=> InRegistry(b) /\ b # Request[s].box
         /\ NamesDiffer'
<1>1. s \in Sessions /\ pc \in [Sessions -> Steps] /\ n_boxes \in 0..MaxBoxes
  BY ManagerFacts DEF Sound, BrokerTypeOK
<1>2. /\ pc[s] = "removeEnd" /\ pc'[s] = "replyYes"
      /\ UNCHANGED boxes /\ n_boxes' = n_boxes - 1
  BY <1>1 DEF RemoveEnd, Goto
<1>3. Named(n_boxes - 1, Request[s].box)
  BY <1>2 DEF Agreement, RemoversOnTrack, Removing, HasLast, Deleting
<1>4. PICK n \in 1..MaxBoxes : n = n_boxes
  BY <1>1, <1>3, BrokerAssumption DEF Named
<1>5. 0..((n - 1) - 1) = 0..(n - 1) \ {n - 1}
  BY <1>4, BrokerAssumption
<1>6. \A j, b : Named(j, b)' <=> Named(j, b) /\ j # n - 1
  BY <1>2, <1>4, <1>5 DEF Named
<1>7. Named(n - 1, Request[s].box)
  BY <1>3, <1>4
<1>8. \A k, l, b : Named(k, b) /\ Named(l, b) => k = l
  BY DEF Agreement, NamesDiffer
<1>9. \A b : InRegistry(b)' <=> InRegistry(b) /\ b # Request[s].box
  <2>1. \A k, b : Named(k, b) /\ k # n - 1 => b # Request[s].box
    BY <1>7, <1>8
  <2>2. \A b : Named(n - 1, b) => b = Request[s].box
    BY <1>7 DEF Named
  <2> QED
    BY <1>6, <2>1, <2>2, RegistryNames
<1>10. NamesDiffer'
  BY <1>6, <1>8 DEF NamesDiffer
<1> QED
  BY <1>2, <1>9, <1>10

LEMMA RemoveEndStep ==
  ASSUME Sound, Agreement, ManagersTakeTurns, TurnsKept, NEW s \in Managers, RemoveEnd(s)
  PROVE  Agreement'
<1>1. s \in Sessions /\ Request[s].box \in Names
  BY ManagerFacts
<1>2. Only(s) /\ UNCHANGED <<frame, dir_entry>>
  BY <1>1, StepsAreApart DEF RemoveEnd, ManagerStep, fsVars
<1>3. pc[s] = "removeEnd" /\ pc'[s] = "replyYes"
  BY EndNames
<1>4. ~HasFile(Request[s].box)
  BY <1>3 DEF Agreement, RemoversOnTrack, Removing, Deleting
<1>5. \A b \in Names : HasFile(b)' <=> HasFile(b)
  BY <1>2 DEF HasFile, Matches
<1>6. pc[s] \in Removing
  BY <1>3 DEF Removing, Deleting
<1>7. /\ Request[s].kind = "remove"
      /\ \A m \in Managers \ {s} :
           /\ pc'[m] = pc[m] /\ Index(m)' = Index(m) /\ Handle(m)' = Handle(m)
           /\ pc[m] \notin Removing
  BY <1>2, <1>6, AloneRemoving, ManagerFacts DEF Only
<1>8. BoxesHaveFiles'
  <2> SUFFICES ASSUME NEW b \in Names, InRegistry(b), b # Request[s].box PROVE HasFile(b)
    BY <1>5, EndNames DEF BoxesHaveFiles
  <2>1. ~\E m \in Managers : Request[m].box = b /\ pc[m] \in Removing
    BY <1>7
  <2> QED
    BY <2>1 DEF Agreement, BoxesHaveFiles
<1>9. FilesHaveBoxes'
  <2> SUFFICES ASSUME NEW b \in Names, HasFile(b), ~InRegistry(b)'
               PROVE  MakingFile(b)' # {}
    BY <1>5 DEF FilesHaveBoxes, HasFile
  <2>1. ~InRegistry(b)
    BY <1>4, EndNames
  <2>2. PICK m : m \in MakingFile(b)
    BY <2>1 DEF Agreement, FilesHaveBoxes, HasFile
  <2>3. m \in Managers \ {s}
    BY <1>7, <2>2 DEF MakingFile
  <2>4. m \in MakingFile(b)'
    BY <1>7, <2>2, <2>3 DEF MakingFile
  <2> QED
    BY <2>4
<1>10. CreatorsOnTrack'
  <2> SUFFICES ASSUME NEW m \in Managers, pc'[m] \in Creating
               PROVE  /\ Index(m)' = -1 /\ ~InRegistry(Request[m].box)'
                      /\ pc'[m] # "createOpen" => HasFile(Request[m].box)'
    BY DEF CreatorsOnTrack
  <2>1. m # s
    BY <1>3 DEF Creating
  <2>2. pc[m] \in Creating /\ Index(m)' = Index(m) /\ pc'[m] = pc[m]
    BY <1>7, <2>1
  <2> QED
    BY <1>5, <2>2, ManagerFacts, EndNames DEF Agreement, CreatorsOnTrack
<1>11. RemoversOnTrack'
  BY <1>3, <1>7 DEF RemoversOnTrack, Removing, Deleting
<1>12. NamesKnown'
  BY EndNames DEF Agreement, NamesKnown
<1> QED
  BY <1>8, <1>9, <1>10, <1>11, EndNames, <1>12 DEF Agreement

\* The array has room for a box that is added: the boxes that have a file have one
\* each, and the one that may have lost its own is outdone by the file of the box
\* that is still to come.
LEMMA RoomInTurns ==
  ASSUME Sound, Agreement, ManagersTakeTurns, TurnsKept
  PROVE  RoomForBoxes
<1> SUFFICES ASSUME NEW s \in Sessions, pc[s] = "createAdd"
             PROVE  n_boxes < MaxBoxes
  BY DEF RoomForBoxes
<1>1. s \in Managers /\ n_boxes \in 0..MaxBoxes
  <2>1. Request[s].kind \in {"create", "remove"}
    BY RequestFacts DEF Sound, StepsInKind, Kinds, PublisherPcs, SubscriberPcs
  <2> QED
    BY <2>1 DEF Managers, Sound, BrokerTypeOK
<1>2. /\ ~InRegistry(Request[s].box) /\ HasFile(Request[s].box)
  BY <1>1 DEF Agreement, CreatorsOnTrack, Creating
<1>3. PICK n \in 0..MaxBoxes : n = n_boxes
  BY <1>1
<1>4. PICK own \in DirSlots : own \in Matches(Request[s].box)
  BY <1>2 DEF HasFile, Matches
<1> DEFINE name(i) == boxes[i].box_name
           filed(i) == Matches(name(i)) # {}
           slot == [i \in 0..(n - 1) |-> IF filed(i) THEN CHOOSE d \in Matches(name(i)) : TRUE ELSE own]
<1>5. \A i, j \in 0..(n - 1) : name(i) = name(j) => i = j
  <2> SUFFICES ASSUME NEW i \in 0..(n - 1), NEW j \in 0..(n - 1), name(i) = name(j)
               PROVE  i = j
    OBVIOUS
  <2>1. Named(i, name(i)) /\ Named(j, name(i))
    BY <1>3 DEF Named
  <2> QED
    BY <2>1 DEF Agreement, NamesDiffer
<1>6. \A i \in 0..(n - 1) : filed(i) => slot[i] \in Matches(name(i))
  <2> SUFFICES ASSUME NEW i \in 0..(n - 1), filed(i) PROVE slot[i] \in Matches(name(i))
    OBVIOUS
  <2>1. \A S : S # {} => (CHOOSE d \in S : TRUE) \in S
    OBVIOUS
  <2>2. slot[i] = CHOOSE d \in Matches(name(i)) : TRUE
    OBVIOUS
  <2> HIDE DEF slot
  <2> QED
    BY <2>1, <2>2
<1>7. \A i \in 0..(n - 1) : ~filed(i) => slot[i] = own
  OBVIOUS
<1>8. \A i \in 0..(n - 1) : name(i) # Request[s].box
  BY <1>2, <1>3 DEF InRegistry
<1>9. \A b, c, d : d \in Matches(b) /\ d \in Matches(c) => b = c
  BY DEF Matches
<1>10. \A i, j \in 0..(n - 1) : ~filed(i) /\ ~filed(j) => i = j
  <2> SUFFICES ASSUME NEW i \in 0..(n - 1), NEW j \in 0..(n - 1), ~filed(i), ~filed(j)
               PROVE  name(i) = name(j)
    BY <1>5
  <2>1. ASSUME NEW k \in 0..(n - 1), ~filed(k)
        PROVE  \E m \in Managers : Request[m].box = name(k) /\ pc[m] \in Removing
    <3>1. InRegistry(name(k))
      BY <1>3 DEF InRegistry
    <3>2. name(k) \in Names
      BY <3>1 DEF Agreement, NamesKnown
    <3> QED
      BY <2>1, <3>1, <3>2 DEF Agreement, BoxesHaveFiles, HasFile
  <2>2. PICK m \in Managers : Request[m].box = name(i) /\ pc[m] \in Removing
    BY <2>1
  <2>3. PICK l \in Managers : Request[l].box = name(j) /\ pc[l] \in Removing
    BY <2>1
  <2>4. m = l
    BY <2>2, <2>3, AloneRemoving
  <2> QED
    BY <2>2, <2>3, <2>4
<1>11. \A i, j \in 0..(n - 1) : slot[i] = slot[j] => i = j
  <2> SUFFICES ASSUME NEW i \in 0..(n - 1), NEW j \in 0..(n - 1), slot[i] = slot[j]
               PROVE  i = j
    OBVIOUS
  <2>1. CASE filed(i) /\ filed(j)
    BY <1>5, <1>6, <1>9, <2>1
  <2>2. CASE ~filed(i) /\ ~filed(j)
    BY <1>10, <2>2
  <2>3. CASE filed(i) /\ ~filed(j)
    BY <1>4, <1>6, <1>7, <1>8, <1>9, <2>3
  <2>4. CASE ~filed(i) /\ filed(j)
    BY <1>4, <1>6, <1>7, <1>8, <1>9, <2>4
  <2> QED
    BY <2>1, <2>2, <2>3, <2>4
<1>12. slot \in [0..(n - 1) -> DirSlots]
  BY <1>4, <1>6 DEF Matches
<1>13. slot \in Injection(0..(n - 1), DirSlots)
  BY <1>11, <1>12 DEF Injection, IsInjective
<1>14. /\ IsFiniteSet(DirSlots) /\ Cardinality(DirSlots) = MaxDirEntries
       /\ Cardinality(0..(n - 1)) = n
  <2>1. n \in Nat /\ 0 \in Int /\ MaxDirEntries \in Nat
    BY TFSAssumption, BrokerAssumption
  <2>2. Cardinality(0..(n - 1)) = IF 0 > n - 1 THEN 0 ELSE (n - 1) - 0 + 1
    BY <2>1, FS_Interval
  <2>3. /\ IsFiniteSet(DirSlots)
        /\ Cardinality(DirSlots) = IF 0 > MaxDirEntries - 1 THEN 0 ELSE (MaxDirEntries - 1) - 0 + 1
    BY <2>1, FS_Interval DEF DirSlots
  <2> QED
    BY <2>1, <2>2, <2>3
<1>15. n <= MaxDirEntries
  <2>1. Cardinality(0..(n - 1)) <= Cardinality(DirSlots)
    BY <1>13, <1>14, FS_Injection
  <2> QED
    BY <1>14, <2>1
<1> QED
  BY <1>3, <1>15, BrokerAssumption, TFSAssumption
-----------------------------------------------------------------------------
LEMMA AgreeInit == BrokerInit => AgreeIInv
<1> SUFFICES ASSUME BrokerInit PROVE TurnsKept /\ Agreement
  BY SoundInit DEF AgreeIInv
<1>1. n_boxes = 0 /\ \A i, b : ~Named(i, b)
  BY DEF BrokerInit, Named
<1>2. /\ \A b : ~InRegistry(b)
      /\ \A b \in Names : ~HasFile(b)
  BY <1>1, RegistryNames DEF BrokerInit, FSInit, HasFile, Matches, EmptySlot
<1>3. \A s \in Managers : pc[s] = "none"
  BY ManagerFacts DEF BrokerInit
<1> QED
  BY <1>1, <1>2, <1>3
  DEF TurnsKept, Agreement, NamesDiffer, NamesKnown, BoxesHaveFiles, FilesHaveBoxes, HasFile,
      CreatorsOnTrack, RemoversOnTrack, Creating, Removing, Deleting

LEMMA AgreeStep ==
  ASSUME ManagersTakeTurns, AgreeIInv, [BrokerNext]_brokerVars
  PROVE  AgreeIInv'
<1> USE DEF AgreeIInv
<1>1. CASE BrokerNext
  <2>1. Sound' /\ TurnsKept'
    BY <1>1, SoundStep, TurnsStep
  <2>2. Agreement'
    <3>1. CASE \A s \in Managers : ~ManagerStep(s)
      BY <1>1, <3>1, OthersAreQuiet, QuietStep
    <3>2. ASSUME NEW s \in Managers, ManagerStep(s) PROVE Agreement'
      <4>1. ~AddPastArray(s)
        BY RoomInTurns, ManagerFacts, BrokerAssumption DEF AddPastArray, Goto, RoomForBoxes
      <4>2. ~SwapWithNone(s)
        <5>1. pc[s] = "swapName" => Named(Index(s), Request[s].box)
          BY DEF Agreement, RemoversOnTrack, Removing, HasFound, HasLast, Deleting
        <5> QED
          BY <5>1 DEF SwapWithNone, Goto, Named
      <4> QED
        BY <3>2, <4>1, <4>2, FindingStep, WaitingStep, CreateOpenStep, CreateAddStep, RemoveUnlinkStep,
           SwapNameStep, RemoveEndStep
        DEF ManagerStep
    <3> QED
      BY <3>1, <3>2
  <2> QED
    BY <2>1, <2>2
<1>2. CASE UNCHANGED brokerVars
  <2>1. TurnsKept'
    BY <1>2 DEF TurnsKept, brokerVars
  <2>2. QuietForManagers
    BY <1>2 DEF QuietForManagers, Named, Index, Handle, brokerVars, registry, fsVars
  <2> QED
    BY <1>2, <2>1, <2>2, SoundStutter, QuietStep
<1> QED
  BY <1>1, <1>2

\* When managers take turns, the array of boxes and the directory agree but for what
\* a manager is about to do, with publishers and subscribers at any point.
THEOREM RegistryAgrees ==
  ASSUME ManagersTakeTurns
  PROVE  BrokerSpec => []RegistryMatchesFiles
<1>1. AgreeIInv => RegistryMatchesFiles
  <2> SUFFICES ASSUME AgreeIInv PROVE RegistryMatchesFiles
    OBVIOUS
  <2>1. \A i, j \in 0..(n_boxes - 1) : i # j => boxes[i].box_name # boxes[j].box_name
    BY DEF AgreeIInv, Agreement, NamesDiffer, Named
  <2> QED
    BY <2>1
    DEF RegistryMatchesFiles, AgreeIInv, Agreement, BoxesHaveFiles, FilesHaveBoxes, HasFile, Removing
<1> QED
  BY <1>1, AgreeInit, AgreeStep, PTL DEF BrokerSpec

-----------------------------------------------------------------------------
(* Handles, until the first removal.                                       *)

\* Until the first removal every handle has its owner.
CalmIInv == AgreeIInv /\ (NoRemovalYet => HandlesOwned)

LEMMA CalmInit == BrokerInit => CalmIInv
BY AgreeInit, OwnersInit DEF CalmIInv

LEMMA CalmStep ==
  ASSUME ManagersTakeTurns, CalmIInv, [BrokerNext]_brokerVars
  PROVE  CalmIInv'
<1>1. AgreeIInv'
  BY AgreeStep DEF CalmIInv
<1>2. ASSUME NoRemovalYet' PROVE HandlesOwned'
  <2>1. CASE BrokerNext
    <3>1. NoRemovalYet
      BY <1>2, <2>1, SoundPcs, RemovalsStayBegun DEF CalmIInv, AgreeIInv
    <3> QED
      BY <1>2, <2>1, <3>1, RoomInTurns, OwnersStep DEF CalmIInv, AgreeIInv
  <2>2. CASE UNCHANGED brokerVars
    <3>1. NoRemovalYet
      BY <1>2, <2>2 DEF NoRemovalYet, brokerVars
    <3> QED
      BY <2>2, <3>1, OwnersStutter DEF CalmIInv, AgreeIInv
  <2> QED
    BY <2>1, <2>2
<1> QED
  BY <1>1, <1>2 DEF CalmIInv

\* When managers take turns and no removal has begun, no call that a session makes
\* fails an assertion of TecnicoFS or leaves its memory, and no box is added past
\* the end of the array, whatever is asked and however the steps of the sessions
\* are interleaved.
THEOREM NothingPanics ==
  ASSUME ManagersTakeTurns
  PROVE  BrokerSpec => [](NoRemovalYet => NeverPanics)
<1>1. CalmIInv => (NoRemovalYet => NeverPanics)
  BY DEF CalmIInv, HandlesOwned, NeverPanics
<1> QED
  BY <1>1, CalmInit, CalmStep, PTL DEF BrokerSpec

\* publisher_function does not look at the handle it is given: once the leaks have
\* used up the table, a publisher goes on with -1.
PublishersHaveHandles == \A s \in Publishers \cap UsingHandle : Handle(s) # -1

\* When managers take turns and no removal has begun, a session that reads, writes or
\* closes has a handle that is open on the file of its box and that no other session
\* has, as long as every publisher was given one.
THEOREM EveryoneHasItsHandle ==
  ASSUME ManagersTakeTurns
  PROVE  BrokerSpec => [](NoRemovalYet /\ PublishersHaveHandles => HandlesApart)
<1>1. CalmIInv => (NoRemovalYet /\ PublishersHaveHandles => HandlesApart)
  <2> SUFFICES ASSUME CalmIInv, NoRemovalYet, PublishersHaveHandles PROVE HandlesApart
    OBVIOUS
  <2>1. Sound /\ HandlesOwned
    BY DEF CalmIInv, AgreeIInv
  <2>2. ASSUME NEW s \in UsingHandle PROVE s \in Owners
    <3>1. s \in Sessions \ Finished
      BY <2>2 DEF UsingHandle, Finished, Over
    <3>2. CASE s \in Publishers
      BY <2>2, <3>1, <3>2 DEF PublishersHaveHandles, Owners
    <3>3. CASE s \notin Publishers
      <4>1. s \in Opened
        BY <2>1, <2>2, <3>1, <3>3, RequestFacts
        DEF Sound, StepsInKind, Kinds, UsingHandle, Opened, SubscriberPcs, CreatorPcs, RemoverPcs
      <4> QED
        BY <2>1, <3>1, <4>1 DEF HandlesOwned, Owners
    <3> QED
      BY <3>2, <3>3
  <2> QED
    BY <2>1, <2>2 DEF HandlesApart, HandlesOwned, HandleOnItsFile
<1> QED
  BY <1>1, CalmInit, CalmStep, PTL DEF BrokerSpec
-----------------------------------------------------------------------------
(* Publishers that take turns to ask for a box.                            *)

\* The steps of a publisher that has its box, or is over.
Attached == {"readCode", "pubLock", "pubWrite", "pubTerminate", "pubNotify", "pubEnd", "done"}

\* The steps of a publisher that has the index of its box, and of one that has
\* claimed the box.
Located == {"pubCheck", "pubClaim", "pubName", "pubAttach", "readCode", "pubLock", "pubWrite",
            "pubTerminate", "pubNotify"}
Claimed == Located \ {"pubCheck", "pubClaim"}

ArrivalsKept ==
  \A s, t \in Publishers : s \in After[t] /\ pc[t] # "none" => pc[s] \in Attached

IndexesRight == \A s \in Publishers : pc[s] \in Located => Named(Index(s), Request[s].box)

NoneWhileClaiming == \A s \in Publishers : pc[s] = "pubClaim" => Publishing(Request[s].box) = {}

Counted ==
  \A i, b : Named(i, b) =>
    \/ boxes[i].n_publishers = 0 /\ Publishing(b) = {}
    \/ boxes[i].n_publishers = 1 /\ \E s : Publishing(b) = {s}

Count == IndexesRight /\ NoneWhileClaiming /\ Counted

CountIInv == AgreeIInv /\ ArrivalsKept /\ (NoRemovalYet => Count)

LEMMA PublisherFacts ==
  ASSUME NEW s \in Publishers
  PROVE  s \in Sessions /\ Request[s].box \in Names /\ Request[s].kind = "publisher"
BY RequestFacts DEF Publishers

\* Who publishes is a publisher.
LEMMA PublishingFacts ==
  ASSUME pc \in [Sessions -> Steps], StepsInKind, NEW b
  PROVE  Publishing(b) = {s \in Publishers : Request[s].box = b /\ pc[s] \in Claimed}
<1>1. ASSUME NEW s \in Sessions, pc[s] \in Claimed PROVE s \in Publishers
  BY <1>1, RequestFacts
  DEF StepsInKind, Kinds, SubscriberPcs, CreatorPcs, RemoverPcs, Claimed, Located
<1> QED
  BY <1>1 DEF Publishing, Claimed, Located, Publishers

LEMMA PublishingFactsNext ==
  ASSUME (pc \in [Sessions -> Steps])', StepsInKind', NEW b
  PROVE  Publishing(b)' = {s \in Publishers : Request[s].box = b /\ pc'[s] \in Claimed}
<1>1. ASSUME NEW s \in Sessions, pc'[s] \in Claimed PROVE s \in Publishers
  BY <1>1, RequestFacts
  DEF StepsInKind, Kinds, SubscriberPcs, CreatorPcs, RemoverPcs, Claimed, Located
<1> QED
  BY <1>1 DEF Publishing, Claimed, Located, Publishers

\* A publisher that has not begun does nothing but begin, and one that has its box
\* keeps it until it is over.
LEMMA PublisherMoves ==
  ASSUME Sound, BrokerNext, NEW t \in Publishers
  PROVE  /\ pc[t] = "none" => pc'[t] = pc[t] \/ Start(t)
         /\ pc[t] \in Attached => pc'[t] \in Attached
<1>1. t \in Sessions /\ t \notin Managers /\ t \notin Subscribers /\ pc \in [Sessions -> Steps]
  BY PublisherFacts DEF Managers, Subscribers, Sound, BrokerTypeOK
<1>2. ASSUME NEW s \in Sessions \ {t},
             PublisherStep(s) \/ SubscriberStep(s) \/ SpuriousWake(s) \/ ManagerStep(s) \/ ClientStep(s)
      PROVE  pc'[t] = pc[t]
  BY <1>1, <1>2, StepsAreApart DEF Only
<1>3. ASSUME PublisherStep(t)
      PROVE  pc[t] # "none" /\ (pc[t] \in Attached => pc'[t] \in Attached)
  BY <1>1, <1>3 DEF PublisherStep, PubOpen, PubFind, PubCheck, PubClaim, PubName, PubRefuse,
                    PubAttach, Eof, PubLock, PubWrite, PubTerminate, PubNotify, PubEnd, Find, Goto,
                    Attached
<1>4. ASSUME ClientStep(t)
      PROVE  /\ pc[t] = "none" => pc'[t] = pc[t] \/ Start(t)
             /\ pc[t] \in Attached => pc'[t] \in Attached
  BY <1>1, <1>4 DEF ClientStep, Start, ReadCode, ReadCodeAlone, Leave, BrokenPipe, Find, Goto,
                    Attached
<1>5. CASE \E s \in Publishers : PublisherStep(s)
  BY <1>2, <1>3, <1>5, PublisherFacts
<1>6. CASE \E s \in Subscribers : SubscriberStep(s) \/ SpuriousWake(s)
  BY <1>1, <1>2, <1>6 DEF Subscribers
<1>7. CASE \E s \in Managers : ManagerStep(s)
  BY <1>1, <1>2, <1>7 DEF Managers
<1>8. CASE \E s \in Sessions : ClientStep(s)
  BY <1>2, <1>4, <1>8
<1> QED
  BY <1>5, <1>6, <1>7, <1>8 DEF BrokerNext

LEMMA ArrivalsStep ==
  ASSUME Sound, ArrivalsKept, BrokerNext
  PROVE  ArrivalsKept'
<1> SUFFICES ASSUME NEW s \in Publishers, NEW t \in Publishers, s \in After[t], pc'[t] # "none"
             PROVE  pc'[s] \in Attached
  BY DEF ArrivalsKept
<1>1. CASE pc[t] # "none"
  BY <1>1, PublisherMoves DEF ArrivalsKept
<1>2. CASE pc[t] = "none"
  <2>1. Start(t)
    BY <1>2, PublisherMoves
  <2>2. pc[s] \in {"done", "readCode", "loop", "asleep"}
    BY <2>1 DEF Start, Registered
  <2>3. pc[s] \in Attached
    BY <2>2, PublisherFacts DEF Sound, StepsInKind, PublisherPcs, Attached
  <2> QED
    BY <2>3, PublisherMoves
<1> QED
  BY <1>1, <1>2

\* Two publishers are never both on their way to the same box.
LEMMA OneArrival ==
  ASSUME PublishersTakeTurns, ArrivalsKept, NEW s \in Publishers, NEW t \in Publishers, s # t,
         Request[s].box = Request[t].box, pc[s] \notin Attached \cup {"none"}
  PROVE  pc[t] \in Attached \cup {"none"}
BY DEF PublishersTakeTurns, ArrivalsKept
\* Boxes keep their place as long as none is removed, and their mark unless a
\* publisher comes or goes; a new box has no publisher.
LEMMA NamesGrow ==
  ASSUME Sound, Agreement, BrokerNext, NoRemovalYet'
  PROVE  /\ \A i, b : Named(i, b) => Named(i, b)'
         /\ (\A s \in Sessions : ~PubClaim(s) /\ ~Eof(s)) =>
              \A i, b : Named(i, b)' =>
                \/ Named(i, b) /\ boxes'[i].n_publishers = boxes[i].n_publishers
                \/ ~InRegistry(b) /\ boxes'[i].n_publishers = 0
<1>1. boxes \in [Indices -> Box] /\ n_boxes \in 0..MaxBoxes /\ 0..(n_boxes - 1) \subseteq Indices
  BY BrokerAssumption DEF Sound, BrokerTypeOK, Indices
<1>2. \A i, b : Named(i, b) => i \in Indices
  BY <1>1 DEF Named
<1>3. CASE UNCHANGED registry
  BY <1>3, OthersNames DEF registry
<1>4. ASSUME NEW s \in Publishers, PubClaim(s) \/ PubName(s) \/ Eof(s) \/ PubTerminate(s)
      PROVE  /\ \A i, b : Named(i, b)' <=> Named(i, b)
             /\ PubName(s) \/ PubTerminate(s) => \A i \in Indices : boxes'[i].n_publishers = boxes[i].n_publishers
  <2>1. \A i, b : Named(i, b)' <=> Named(i, b)
    BY <1>4, OthersNames DEF Publishers
  <2>2. ASSUME PubName(s) \/ PubTerminate(s)
        PROVE  \A i \in Indices : boxes'[i].n_publishers = boxes[i].n_publishers
    <3>1. \/ \E x : boxes' = [boxes EXCEPT ![Index(s)].box_size = x]
          \/ \E x : boxes' = [boxes EXCEPT ![Index(s)].publisher = x]
      BY <2>2 DEF PubName, PubTerminate
    <3> QED
      BY <1>1, <3>1 DEF Box
  <2> QED
    BY <2>1, <2>2
<1>5. ASSUME NEW s \in Managers, CreateAdd(s)
      PROVE  /\ \A i, b : Named(i, b) => Named(i, b)'
             /\ \A i, b : Named(i, b)' =>
                  \/ Named(i, b) /\ boxes'[i].n_publishers = boxes[i].n_publishers
                  \/ ~InRegistry(b) /\ boxes'[i].n_publishers = 0
  <2>1. PICK n \in Indices :
          /\ \A i, b : Named(i, b)' <=> Named(i, b) \/ (i = n /\ b = Request[s].box)
          /\ \A i : i \in 0..(n_boxes - 1) => boxes'[i] = boxes[i]
          /\ boxes'[n].n_publishers = 0
    BY <1>5, AddFacts
  <2>2. pc[s] = "createAdd"
    BY <1>5 DEF CreateAdd, Goto
  <2>3. ~InRegistry(Request[s].box)
    BY <2>2 DEF Agreement, CreatorsOnTrack, Creating
  <2>4. \A i, b : Named(i, b) => boxes'[i] = boxes[i]
    BY <2>1 DEF Named
  <2> QED
    BY <2>1, <2>3, <2>4
<1>6. ASSUME NEW s \in Managers, RemoveLock(s)
      PROVE  UNCHANGED <<boxes, n_boxes>>
  BY <1>6 DEF RemoveLock
<1>7. CASE UNCHANGED <<boxes, n_boxes>>
  BY <1>7 DEF Named
<1>8. ASSUME NEW s \in Managers, Swap(s) \/ RemoveEnd(s)
      PROVE  FALSE
  <2>1. pc[s] \in Deleting
    BY <1>8 DEF Swap, Exchange, RemoveEnd, Goto, Deleting
  <2>2. Request[s].kind = "remove" /\ pc[s] # "none"
    BY <2>1, ManagerFacts DEF Sound, StepsInKind, CreatorPcs, Deleting
  <2> QED
    BY <2>2, SoundPcs, RemovalsStayBegun, ManagerFacts DEF NoRemovalYet
<1> QED
  BY <1>2, <1>3, <1>4, <1>5, <1>6, <1>7, <1>8, RegistryEffect, PublisherFacts

\* What the count asks of where publisher s goes.
Follows(s) ==
  /\ pc'[s] \in Located => Named(Index(s)', Request[s].box)
  /\ pc'[s] \in Claimed <=> pc[s] \in Claimed
  /\ pc'[s] = "pubClaim" => Publishing(Request[s].box) = {}

\* A step with which nobody comes or goes.
LEMMA CountKept ==
  ASSUME Sound, Count, BrokerNext,
         \A i, b : Named(i, b) => Named(i, b)',
         \A i, b : Named(i, b)' =>
           \/ Named(i, b) /\ boxes'[i].n_publishers = boxes[i].n_publishers
           \/ ~InRegistry(b) /\ boxes'[i].n_publishers = 0,
         \A s \in Publishers : Follows(s)
  PROVE  Count'
<1>1. /\ pc \in [Sessions -> Steps] /\ StepsInKind
      /\ (pc \in [Sessions -> Steps])' /\ StepsInKind'
  BY SoundPcs, PcEffect
<1>2. \A b : Publishing(b)' = Publishing(b)
  <2> SUFFICES ASSUME NEW b PROVE Publishing(b)' = Publishing(b)
    OBVIOUS
  <2>1. Publishing(b) = {s \in Publishers : Request[s].box = b /\ pc[s] \in Claimed}
    BY <1>1, PublishingFacts
  <2>2. Publishing(b)' = {s \in Publishers : Request[s].box = b /\ pc'[s] \in Claimed}
    BY <1>1, PublishingFactsNext
  <2> QED
    BY <2>1, <2>2 DEF Follows
<1>3. IndexesRight'
  <2> SUFFICES ASSUME NEW s \in Publishers, pc'[s] \in Located
               PROVE  Named(Index(s), Request[s].box)'
    BY DEF IndexesRight
  <2>1. PICK i : i = Index(s)'
    OBVIOUS
  <2>2. Named(i, Request[s].box)'
    BY <2>1 DEF Follows
  <2> QED
    BY <2>1, <2>2 DEF Named
<1>4. NoneWhileClaiming'
  BY <1>2 DEF NoneWhileClaiming, Follows
<1>5. Counted'
  <2> SUFFICES ASSUME NEW i, NEW b, Named(i, b)'
               PROVE  \/ boxes'[i].n_publishers = 0 /\ Publishing(b)' = {}
                      \/ boxes'[i].n_publishers = 1 /\ \E s : Publishing(b)' = {s}
    BY DEF Counted
  <2>1. CASE Named(i, b) /\ boxes'[i].n_publishers = boxes[i].n_publishers
    BY <1>2, <2>1 DEF Count, Counted
  <2>2. CASE ~InRegistry(b) /\ boxes'[i].n_publishers = 0
    <3>1. Publishing(b) = {}
      <4> SUFFICES ASSUME NEW s \in Publishing(b) PROVE FALSE
        OBVIOUS
      <4>1. s \in Publishers /\ Request[s].box = b /\ pc[s] \in Located
        BY <1>1, PublishingFacts DEF Claimed
      <4> QED
        BY <2>2, <4>1, RegistryNames DEF Count, IndexesRight
    <3> QED
      BY <1>2, <2>2, <3>1
  <2> QED
    BY <2>1, <2>2
<1> QED
  BY <1>3, <1>4, <1>5 DEF Count

LEMMA StayersFollow ==
  ASSUME Count, NEW s \in Publishers, pc'[s] = pc[s], Index(s)' = Index(s)
  PROVE  Follows(s)
BY DEF Count, IndexesRight, NoneWhileClaiming, Follows

\* The steps of a publisher but for those with which it comes or goes.
LEMMA PublisherFollows ==
  ASSUME Sound, Count, \A i, b : Named(i, b) => Named(i, b)', NEW s \in Publishers,
         PublisherStep(s) \/ ClientStep(s), ~PubClaim(s), ~Eof(s)
  PROVE  Follows(s)
<1>1. /\ s \in Sessions /\ frame \in [Sessions -> [box_index : Indices \cup {-1},
             box_handle : Handles \cup {-1}, char_buffer : Bytes \cup {Unset}, buffer : Message]]
      /\ pc \in [Sessions -> Steps] /\ n_boxes \in 0..MaxBoxes
  BY PublisherFacts DEF Sound, BrokerTypeOK
<1>2. pc[s] \in Located => Named(Index(s), Request[s].box)
  BY DEF Count, IndexesRight
<1>3. PICK i : i = find_box(Request[s].box)
  OBVIOUS
<1>4. /\ i # -1 => Named(i, Request[s].box)
      /\ i = -1 <=> ~InRegistry(Request[s].box)
  BY <1>1, <1>3, FindFacts DEF Named
<1>5. CASE PubFind(s)
  <2>1. /\ frame' = [frame EXCEPT ![s].box_index = i] /\ pc[s] = "pubFind"
        /\ pc'[s] \in {"pubRefuse", "pubCheck"}
        /\ pc'[s] = "pubCheck" => i # -1
    BY <1>1, <1>3, <1>5 DEF PubFind, Find, Goto
  <2>2. Index(s)' = i
    BY <1>1, <2>1 DEF Index
  <2> QED
    BY <1>4, <2>1, <2>2 DEF Follows, Located, Claimed
<1>6. CASE ReadCode(s) \/ ReadCodeAlone(s)
  <2>1. /\ frame' = [frame EXCEPT ![s].box_index = i] /\ pc[s] = "readCode"
        /\ pc'[s] = IF i = -1 THEN "pubEnd" ELSE "pubLock"
    BY <1>1, <1>3, <1>6 DEF ReadCode, ReadCodeAlone, Find, Goto
  <2>2. Index(s)' = i
    BY <1>1, <2>1 DEF Index
  <2>3. i # -1
    BY <1>2, <1>4, <2>1, RegistryNames DEF Located
  <2> QED
    BY <1>4, <2>1, <2>2, <2>3 DEF Follows, Located, Claimed
<1>7. CASE PubCheck(s)
  <2>1. /\ pc[s] = "pubCheck" /\ Index(s)' = Index(s)
        /\ pc'[s] = IF boxes[Index(s)].n_publishers = 1 THEN "pubRefuse" ELSE "pubClaim"
    BY <1>1, <1>7 DEF PubCheck, Goto, Index
  <2>2. Named(Index(s), Request[s].box)
    BY <1>2, <2>1 DEF Located
  <2>3. boxes[Index(s)].n_publishers # 1 => Publishing(Request[s].box) = {}
    BY <2>2 DEF Count, Counted
  <2> QED
    BY <2>1, <2>2, <2>3 DEF Follows, Located, Claimed
<1>8. CASE Leave(s) \/ BrokenPipe(s)
  BY <1>8, StayersFollow DEF Leave, BrokenPipe, Index
<1>9. CASE Start(s)
  <2>1. pc[s] = "none" /\ pc'[s] = "pubOpen"
    BY <1>1, <1>9, StartFacts, PublisherFacts
  <2> QED
    BY <2>1 DEF Follows, Located, Claimed
<1>10. CASE PubOpen(s) \/ PubRefuse(s) \/ PubAttach(s)
  <2>1. Index(s)' = Index(s)
    BY <1>1, <1>10 DEF PubOpen, PubRefuse, PubAttach, OpenFileOfBox, Index
  <2>2. \/ pc[s] = "pubOpen" /\ pc'[s] = "pubFind"
        \/ pc[s] = "pubRefuse" /\ pc'[s] = "done"
        \/ pc[s] = "pubAttach" /\ pc'[s] = "readCode"
    BY <1>1, <1>10 DEF PubOpen, PubRefuse, PubAttach, Goto
  <2> QED
    BY <1>2, <2>1, <2>2 DEF Follows, Located, Claimed
<1>11. CASE PubName(s) \/ PubLock(s) \/ PubWrite(s) \/ PubTerminate(s) \/ PubNotify(s) \/ PubEnd(s)
  <2>1. Index(s)' = Index(s)
    BY <1>11 DEF PubName, PubLock, PubWrite, PubTerminate, PubNotify, PubEnd, Index
  <2>2. \/ pc[s] = "pubName" /\ pc'[s] = "pubAttach"
        \/ pc[s] = "pubLock" /\ pc'[s] = "pubWrite"
        \/ pc[s] = "pubWrite" /\ pc'[s] = "pubTerminate"
        \/ pc[s] = "pubTerminate" /\ pc'[s] = "pubNotify"
        \/ pc[s] = "pubNotify" /\ pc'[s] = "readCode"
        \/ pc[s] = "pubEnd" /\ pc'[s] = "done"
    BY <1>1, <1>11 DEF PubName, PubLock, PubWrite, PubTerminate, PubNotify, PubEnd, Goto
  <2> QED
    BY <1>2, <2>1, <2>2 DEF Follows, Located, Claimed
<1> QED
  BY <1>5, <1>6, <1>7, <1>8, <1>9, <1>10, <1>11 DEF PublisherStep, ClientStep
\* How a publisher comes and goes: only its box and only its step change.
LEMMA ComingFacts ==
  ASSUME Sound, Agreement, Count, NEW s \in Publishers, PubClaim(s) \/ Eof(s)
  PROVE  /\ Only(s) /\ Index(s)' = Index(s) /\ Named(Index(s), Request[s].box)
         /\ \A i, b : Named(i, b)' <=> Named(i, b)
         /\ \A i, b : Named(i, b) /\ b # Request[s].box => boxes'[i] = boxes[i]
         /\ \A i : Named(i, Request[s].box) =>
              boxes'[i].n_publishers = IF pc'[s] = "pubName" THEN 1 ELSE 0
         /\ \/ PubClaim(s) /\ pc[s] = "pubClaim" /\ pc'[s] = "pubName"
            \/ Eof(s) /\ pc[s] = "readCode" /\ pc'[s] = "pubEnd"
<1>1. /\ s \in Sessions /\ pc \in [Sessions -> Steps]
      /\ boxes \in [Indices -> Box] /\ n_boxes \in 0..MaxBoxes /\ 0..(n_boxes - 1) \subseteq Indices
  BY PublisherFacts, BrokerAssumption DEF Sound, BrokerTypeOK, Indices
<1>2. Only(s)
  BY <1>1, StepsAreApart DEF PublisherStep
<1>3. UNCHANGED frame
  BY DEF PubClaim, PubName, Eof
<1>4. \/ PubClaim(s) /\ pc[s] = "pubClaim" /\ pc'[s] = "pubName"
      \/ Eof(s) /\ pc[s] = "readCode" /\ pc'[s] = "pubEnd"
  BY <1>1 DEF PubClaim, PubName, Eof, Goto
<1>5. Named(Index(s), Request[s].box)
  BY <1>4 DEF Count, IndexesRight, Located
<1>6. \A i, b : Named(i, b)' <=> Named(i, b)
  BY <1>1, OthersNames
<1>7. PICK p \in Indices : p = Index(s)
  BY <1>1, <1>5 DEF Named
<1>8. /\ boxes'[p].n_publishers = IF pc'[s] = "pubName" THEN 1 ELSE 0
      /\ \A i \in Indices \ {p} : boxes'[i] = boxes[i]
  <2>1. CASE PubClaim(s)
    BY <1>1, <1>4, <1>7, <2>1 DEF PubClaim, PubName, Eof, Goto, Box
  <2>2. CASE Eof(s)
    BY <1>1, <1>4, <1>7, <2>2 DEF PubClaim, PubName, Eof, Goto, Box
  <2> QED
    BY <2>1, <2>2
<1>9. \A i : Named(i, Request[s].box) => i = p
  BY <1>5, <1>7 DEF Agreement, NamesDiffer
<1>10. \A i, b : Named(i, b) /\ b # Request[s].box => i \in Indices \ {p}
  BY <1>1, <1>5, <1>7 DEF Named
<1> QED
  BY <1>2, <1>3, <1>4, <1>5, <1>6, <1>8, <1>9, <1>10 DEF Index

\* A publisher that claims its box is the only one, and one that leaves was.
LEMMA ComingStep ==
  ASSUME Sound, Agreement, PublishersTakeTurns, ArrivalsKept, Count, BrokerNext,
         NEW s \in Publishers, PubClaim(s) \/ Eof(s)
  PROVE  Count'
<1>1. /\ pc \in [Sessions -> Steps] /\ StepsInKind
      /\ (pc \in [Sessions -> Steps])' /\ StepsInKind'
  BY SoundPcs, PcEffect
<1>2. \A t \in Publishers \ {s} : pc'[t] = pc[t] /\ Index(t)' = Index(t)
  BY ComingFacts, PublisherFacts DEF Only
<1>3. /\ \A b : Publishing(b) = {t \in Publishers : Request[t].box = b /\ pc[t] \in Claimed}
      /\ \A b : Publishing(b)' = {t \in Publishers : Request[t].box = b /\ pc'[t] \in Claimed}
  BY <1>1, PublishingFacts, PublishingFactsNext
<1>4. \A b : b # Request[s].box => Publishing(b)' = Publishing(b)
  BY <1>2, <1>3
<1>5. /\ PubClaim(s) /\ pc[s] = "pubClaim" /\ pc'[s] = "pubName" => Publishing(Request[s].box)' = {s}
      /\ Eof(s) /\ pc[s] = "readCode" /\ pc'[s] = "pubEnd" => Publishing(Request[s].box)' = {}
  <2>1. ASSUME PubClaim(s), pc[s] = "pubClaim", pc'[s] = "pubName"
        PROVE  Publishing(Request[s].box)' = {s}
    <3>1. Publishing(Request[s].box) = {}
      BY <2>1 DEF Count, NoneWhileClaiming
    <3>2. pc'[s] \in Claimed
      BY <2>1 DEF Claimed, Located
    <3> QED
      BY <1>2, <1>3, <3>1, <3>2
  <2>2. ASSUME pc[s] = "readCode", pc'[s] = "pubEnd"
        PROVE  Publishing(Request[s].box)' = {}
    <3>1. s \in Publishing(Request[s].box)
      BY <1>3, <2>2 DEF Claimed, Located
    <3>2. Publishing(Request[s].box) = {s}
      <4>1. PICK i : Named(i, Request[s].box)
        BY ComingFacts
      <4>2. Publishing(Request[s].box) = {} \/ \E t : Publishing(Request[s].box) = {t}
        BY <4>1 DEF Count, Counted
      <4> QED
        BY <3>1, <4>2
    <3>3. pc'[s] \notin Claimed
      BY <2>2 DEF Claimed, Located
    <3> QED
      BY <1>2, <1>3, <3>2, <3>3
  <2> QED
    BY <2>1, <2>2
<1>6. IndexesRight'
  <2> SUFFICES ASSUME NEW t \in Publishers, pc'[t] \in Located
               PROVE  Named(Index(t), Request[t].box)'
    BY DEF IndexesRight
  <2>1. Index(t)' = Index(t) /\ Named(Index(t), Request[t].box)
    <3>1. CASE t = s
      BY <3>1, ComingFacts
    <3>2. CASE t # s
      BY <1>2, <3>2 DEF Count, IndexesRight
    <3> QED
      BY <3>1, <3>2
  <2>2. PICK i : i = Index(t) /\ i = Index(t)'
    BY <2>1
  <2>3. Named(i, Request[t].box)'
    BY <2>1, <2>2, ComingFacts
  <2> QED
    BY <2>2, <2>3 DEF Named
<1>7. NoneWhileClaiming'
  <2> SUFFICES ASSUME NEW t \in Publishers, pc'[t] = "pubClaim"
               PROVE  Publishing(Request[t].box)' = {}
    BY DEF NoneWhileClaiming
  <2>1. t # s /\ pc[t] = "pubClaim"
    BY <1>2, ComingFacts
  <2>2. Publishing(Request[t].box) = {}
    BY <2>1 DEF Count, NoneWhileClaiming
  <2>3. CASE Request[t].box # Request[s].box
    BY <1>4, <2>2, <2>3
  <2>4. CASE Request[t].box = Request[s].box
    <3>1. pc[s] \in Attached
      BY <2>1, <2>4, OneArrival, ComingFacts DEF Attached
    <3>2. Eof(s) /\ pc[s] = "readCode" /\ pc'[s] = "pubEnd"
      BY <3>1, ComingFacts DEF Attached
    <3> QED
      BY <1>5, <2>4, <3>2
  <2> QED
    BY <2>3, <2>4
<1>8. Counted'
  <2> SUFFICES ASSUME NEW i, NEW b, Named(i, b)'
               PROVE  \/ boxes'[i].n_publishers = 0 /\ Publishing(b)' = {}
                      \/ boxes'[i].n_publishers = 1 /\ \E t : Publishing(b)' = {t}
    BY DEF Counted
  <2>1. Named(i, b)
    BY ComingFacts
  <2>2. CASE b # Request[s].box
    <3>1. boxes'[i] = boxes[i] /\ Publishing(b)' = Publishing(b)
      BY <1>4, <2>1, <2>2, ComingFacts
    <3>2. \/ boxes[i].n_publishers = 0 /\ Publishing(b) = {}
          \/ boxes[i].n_publishers = 1 /\ \E t : Publishing(b) = {t}
      BY <2>1 DEF Count, Counted
    <3> QED
      BY <3>1, <3>2
  <2>3. CASE b = Request[s].box
    <3>1. boxes'[i].n_publishers = IF pc'[s] = "pubName" THEN 1 ELSE 0
      BY <2>1, <2>3, ComingFacts
    <3> QED
      BY <1>5, <2>3, <3>1, ComingFacts
  <2> QED
    BY <2>2, <2>3
<1> QED
  BY <1>6, <1>7, <1>8 DEF Count

LEMMA CountInit == BrokerInit => CountIInv
<1> SUFFICES ASSUME BrokerInit PROVE ArrivalsKept /\ Count
  BY AgreeInit DEF CountIInv
<1>1. \A s \in Publishers : pc[s] = "none"
  BY PublisherFacts DEF BrokerInit
<1>2. n_boxes = 0 /\ \A i, b : ~Named(i, b)
  BY DEF BrokerInit, Named
<1> QED
  BY <1>1, <1>2 DEF ArrivalsKept, Count, IndexesRight, NoneWhileClaiming, Counted, Located

LEMMA CountStep ==
  ASSUME ManagersTakeTurns, PublishersTakeTurns, CountIInv, [BrokerNext]_brokerVars
  PROVE  CountIInv'
<1> USE DEF CountIInv
<1>1. AgreeIInv'
  BY AgreeStep
<1>2. CASE BrokerNext
  <2>1. ArrivalsKept'
    BY <1>2, ArrivalsStep DEF AgreeIInv
  <2>2. ASSUME NoRemovalYet' PROVE Count'
    <3>1. Sound /\ Agreement /\ Count /\ BrokerNext
      BY <1>2, <2>2, SoundPcs, RemovalsStayBegun DEF AgreeIInv
    <3>2. CASE \E s \in Publishers : PubClaim(s) \/ Eof(s)
      BY <3>1, <3>2, ComingStep
    <3>3. CASE \A s \in Publishers : ~PubClaim(s) /\ ~Eof(s)
      <4>1. \A s \in Sessions : ~PubClaim(s) /\ ~Eof(s)
        <5> SUFFICES ASSUME NEW s \in Sessions, pc[s] \in {"pubClaim", "readCode"}
                     PROVE  s \in Publishers
          BY <3>3 DEF PubClaim, PubName, Eof, Goto
        <5> QED
          BY <3>1, RequestFacts DEF Sound, StepsInKind, Kinds, SubscriberPcs, CreatorPcs, RemoverPcs
      <4>2. ASSUME NEW t \in Publishers PROVE Follows(t)
        <5>1. ASSUME NEW s \in Sessions \ {t}, Only(s) PROVE Follows(t)
          BY <3>1, <5>1, StayersFollow, PublisherFacts DEF Only
        <5>2. t \in Sessions /\ t \notin Subscribers /\ t \notin Managers
          BY PublisherFacts DEF Subscribers, Managers
        <5>3. PublisherStep(t) \/ ClientStep(t) => Follows(t)
          BY <2>2, <3>1, <3>3, NamesGrow, PublisherFollows
        <5>4. CASE \E s \in Publishers : PublisherStep(s)
          BY <3>1, <5>1, <5>3, <5>4, StepsAreApart, PublisherFacts
        <5>5. CASE \E s \in Subscribers : SubscriberStep(s) \/ SpuriousWake(s)
          BY <3>1, <5>1, <5>2, <5>5, StepsAreApart DEF Subscribers
        <5>6. CASE \E s \in Managers : ManagerStep(s)
          BY <3>1, <5>1, <5>2, <5>6, StepsAreApart DEF Managers
        <5>7. CASE \E s \in Sessions : ClientStep(s)
          BY <3>1, <5>1, <5>3, <5>7, StepsAreApart
        <5> QED
          BY <3>1, <5>4, <5>5, <5>6, <5>7 DEF BrokerNext
      <4> QED
        BY <2>2, <3>1, <4>1, <4>2, NamesGrow, CountKept
    <3> QED
      BY <3>2, <3>3
  <2> QED
    BY <1>1, <2>1, <2>2
<1>3. CASE UNCHANGED brokerVars
  <2>1. UNCHANGED <<pc, frame, boxes, n_boxes>>
    BY <1>3 DEF brokerVars, registry
  <2>2. ArrivalsKept' /\ (NoRemovalYet' => NoRemovalYet)
    BY <2>1 DEF ArrivalsKept, NoRemovalYet
  <2>3. Count => Count'
    <3>1. /\ \A b : Publishing(b)' = Publishing(b)
          /\ \A i, b : Named(i, b)' <=> Named(i, b)
          /\ \A s \in Publishers : Index(s)' = Index(s)
      BY <2>1 DEF Publishing, Named, Index
    <3>2. IndexesRight => IndexesRight'
      BY <2>1 DEF IndexesRight, Named, Index
    <3> QED
      BY <2>1, <3>1, <3>2 DEF Count, NoneWhileClaiming, Counted
  <2> QED
    BY <1>1, <2>2, <2>3
<1> QED
  BY <1>2, <1>3

\* When managers take turns, and publishers of a box too: as long as no removal has
\* begun, the mark n_publishers of a box counts the publishers that have it, so that
\* none is let in beside another and none is kept out of a box that is free.
THEOREM PublishersAreCounted ==
  ASSUME ManagersTakeTurns, PublishersTakeTurns
  PROVE  BrokerSpec => [](NoRemovalYet => PublishersCounted)
<1>1. CountIInv => (NoRemovalYet => PublishersCounted)
  <2> SUFFICES ASSUME Counted PROVE PublishersCounted
    BY DEF CountIInv, Count
  <2>1. Cardinality({}) = 0 /\ \A s : Cardinality({s}) = 1
    BY FS_EmptySet, FS_Singleton
  <2>2. ASSUME NEW i \in 0..(n_boxes - 1)
        PROVE  boxes[i].n_publishers = Cardinality(Publishing(boxes[i].box_name))
    <3>1. Named(i, boxes[i].box_name)
      BY DEF Named
    <3>2. \/ boxes[i].n_publishers = 0 /\ Publishing(boxes[i].box_name) = {}
          \/ boxes[i].n_publishers = 1 /\ \E s : Publishing(boxes[i].box_name) = {s}
      BY <3>1 DEF Counted
    <3> QED
      BY <2>1, <3>2
  <2> QED
    BY <2>2 DEF PublishersCounted
<1> QED
  BY <1>1, CountInit, CountStep, PTL DEF BrokerSpec
=============================================================================

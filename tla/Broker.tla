------------------------------- MODULE Broker -------------------------------
(***************************************************************************)
(* The sessions of mbroker.c: the threads that serve publishers,           *)
(* subscribers and the managers that create and remove boxes, on the array *)
(* of boxes, its mutexes and conditions, and the files of the boxes in     *)
(* TecnicoFS.  One action per call or access to shared memory; a call of   *)
(* TecnicoFS is one step because it runs under g_library_mutex, and so is  *)
(* find_box, which runs under mutex; delete_box, whose swap publishers do  *)
(* not wait for, is one step per field.                                    *)
(*                                                                         *)
(* How a session gets its slot and its arguments is the matter of          *)
(* Dispatcher: here every session ends at "done", where pcq_dequeue is.    *)
(*                                                                         *)
(* The model leaves out n_subscribers, subscribers[] and last, which only  *)
(* the listing and the shutdown read, and the numbers of the descriptors:  *)
(* a session that closes its pipe twice closes nobody else's.              *)
(***************************************************************************)
EXTENDS TFS, FiniteSets

CONSTANTS
  Sessions,      (* the session threads                                     *)
  Request,       (* what each one is asked: kind, box, and the messages the *)
                 (* client of a publisher sends                             *)
  After,         (* the sessions that are registered or over before the     *)
                 (* client of a session makes its request                   *)
  Leavers,       (* the sessions whose client may close its pipe            *)
  NUL,           (* the byte that ends a message                            *)
  Unset,         (* the value of a local variable before its first use      *)
  NoSession,     (* the holder of a free mutex                              *)
  MaxBoxes       (* MAX_BOXES, more than there are files: 64, when a block  *)
                 (* of 1024 bytes has room for 23 entries of a directory    *)

Kinds == {"publisher", "subscriber", "create", "remove"}
Message == Seq(Bytes \ {NUL})

ASSUME BrokerAssumption ==
  /\ Request \in [Sessions -> [kind : Kinds, box : Names, messages : Seq(Message)]]
  /\ After \in [Sessions -> SUBSET Sessions]
  /\ Leavers \subseteq Sessions
  /\ NUL \in Bytes /\ Unset \notin Bytes /\ NoSession \notin Sessions
  /\ MaxBoxes \in Nat
  /\ MaxDirEntries < MaxBoxes

Publishers  == {s \in Sessions : Request[s].kind = "publisher"}
Subscribers == {s \in Sessions : Request[s].kind = "subscriber"}
Managers    == {s \in Sessions : Request[s].kind \in {"create", "remove"}}

\* Two managers that ask for the same box, or that both remove one, come one after
\* the other.
ManagersTakeTurns ==
  \A s, t \in Managers :
    s # t /\ (\/ Request[s].box = Request[t].box
              \/ Request[s].kind = "remove" /\ Request[t].kind = "remove")
      => s \in After[t] \/ t \in After[s]

\* Two publishers of the same box come one after the other.
PublishersTakeTurns ==
  \A s, t \in Publishers :
    s # t /\ Request[s].box = Request[t].box => s \in After[t] \/ t \in After[s]

Indices == 0..(MaxBoxes - 1)
Box == [box_name : Names \cup {NoName}, publisher : Sessions \cup {NoSession},
        n_publishers : {0, 1}, box_size : Nat]

VARIABLES
  boxes,         (* the array of boxes                                      *)
  n_boxes,
  mutex,         (* who holds mutex                                         *)
  box_mutexes,   (* who holds the mutex of each index                       *)
  waiting,       (* the sessions asleep on the condition of each index      *)
  pc,
  frame,         (* the locals box_index, box_handle, char_buffer, buffer   *)
  inbox,         (* what the client of a publisher still has to send        *)
  pipe,          (* the pipe of the client: closed by the session, left by  *)
                 (* the client                                              *)
  received,      (* the messages written to the pipe of a subscriber        *)
  reply,         (* the return_code a manager was sent                      *)
  published,     (* history: the messages terminated in the file of a box   *)
  exited         (* the process has ended                                   *)

registry    == <<boxes, n_boxes, mutex>>
monitors    == <<box_mutexes, waiting>>
clients     == <<inbox, pipe, received, reply, exited>>
brokerVars  == <<fsVars, registry, monitors, pc, frame, clients, published>>

Steps == {"none", "pubOpen", "pubFind", "pubCheck", "pubClaim", "pubName", "pubRefuse",
          "pubAttach", "readCode", "pubLock", "pubWrite", "pubTerminate", "pubNotify", "pubEnd",
          "register", "subOpen", "subOpenRefused", "subFind", "subFindRefused", "loop",
          "subLock", "subRead", "asleep", "refind", "deliver", "subEnd",
          "createFind", "createOpen", "createClose", "createAdd",
          "removeUnlink", "removeFind", "removeBroadcast", "removeLock", "removePipe",
          "swapName", "swapPublisher", "swapSize", "swapCount", "removeEnd",
          "replyYes", "replyNo", "done"}

BrokerTypeOK ==
  /\ FSTypeOK
  /\ boxes \in [Indices -> Box] /\ n_boxes \in 0..MaxBoxes
  /\ mutex \in Sessions \cup {NoSession}
  /\ box_mutexes \in [Indices -> Sessions \cup {NoSession}]
  /\ waiting \in [Indices -> SUBSET Sessions]
  /\ pc \in [Sessions -> Steps]
  /\ frame \in [Sessions -> [box_index : Indices \cup {-1}, box_handle : Handles \cup {-1},
                             char_buffer : Bytes \cup {Unset}, buffer : Message]]
  /\ inbox \in [Sessions -> Seq(Message)]
  /\ pipe \in [Sessions -> {"new", "open", "closed", "left"}]
  /\ received \in [Sessions -> Seq(Message)]
  /\ reply \in [Sessions -> {Unset, 0, -1}]
  /\ published \in [Names -> Seq(Message)]
  /\ exited \in BOOLEAN

EmptyBox == [box_name |-> NoName, publisher |-> NoSession, n_publishers |-> 0, box_size |-> 0]

\* The blocks are a megabyte of fresh pages, all zero.
BrokerInit ==
  /\ FSInit
  /\ fs_data = [b \in DataBlocks |-> [c \in Cells |-> NUL]]
  /\ boxes = [i \in Indices |-> EmptyBox] /\ n_boxes = 0
  /\ mutex = NoSession
  /\ box_mutexes = [i \in Indices |-> NoSession]
  /\ waiting = [i \in Indices |-> {}]
  /\ pc = [s \in Sessions |-> "none"]
  /\ frame = [s \in Sessions |-> [box_index |-> -1, box_handle |-> -1,
                                  char_buffer |-> Unset, buffer |-> <<>>]]
  /\ inbox = [s \in Sessions |-> Request[s].messages]
  /\ pipe = [s \in Sessions |-> "new"]
  /\ received = [s \in Sessions |-> <<>>]
  /\ reply = [s \in Sessions |-> Unset]
  /\ published = [b \in Names |-> <<>>]
  /\ exited = FALSE

-----------------------------------------------------------------------------
Alive == ~exited /\ ~panicked

\* A step of the code of s, which only a living process takes.
Goto(s, from, to) == Alive /\ pc[s] = from /\ pc' = [pc EXCEPT ![s] = to]

\* A call of find_box, under mutex: the first box of that name.
find_box(name) ==
  LET found == {i \in 0..(n_boxes - 1) : boxes[i].box_name = name}
  IN IF found = {} THEN -1 ELSE CHOOSE i \in found : IsFirst(i, found)

\* s calls find_box, keeps the result in box_index and goes on accordingly.
Find(s, from, missing, there) ==
  LET i == find_box(Request[s].box)
  IN /\ mutex = NoSession
     /\ Goto(s, from, IF i = -1 THEN missing ELSE there)
     /\ frame' = [frame EXCEPT ![s].box_index = i]

\* s opens the file of its box and keeps the handle in box_handle.
OpenFileOfBox(s, mode) ==
  \E ret \in Handles \cup {-1} :
    /\ tfs_open(Request[s].box, mode, ret)
    /\ frame' = [frame EXCEPT ![s].box_handle = ret]

\* The locals of s that name a box and a file.
Index(s)  == frame[s].box_index
Handle(s) == frame[s].box_handle

LockBox(s)   == box_mutexes[Index(s)] = NoSession
                /\ box_mutexes' = [box_mutexes EXCEPT ![Index(s)] = s]
UnlockBox(s) == box_mutexes' = [box_mutexes EXCEPT ![Index(s)] = NoSession]

\* A request is registered once its session serves it, or is over.
Registered(s) == pc[s] \in {"done", "readCode", "loop", "asleep"}

Start(s) ==
  /\ \A t \in After[s] : Registered(t)
  /\ Goto(s, "none", CASE Request[s].kind = "publisher"  -> "pubOpen"
                       [] Request[s].kind = "subscriber" -> "register"
                       [] Request[s].kind = "create"     -> "createFind"
                       [] Request[s].kind = "remove"     -> "removeUnlink")
  /\ UNCHANGED <<fsVars, registry, monitors, frame, clients, published>>

\* The client closes its pipe: a publisher's when all is sent, or when it is killed
\* between two messages.  A manager may be killed while it waits for its answer.
Leave(s) ==
  /\ Alive
  /\ s \in Leavers
  /\ \/ pipe[s] = "open" /\ (inbox[s] = <<>> \/ pc[s] = "readCode")
     \/ pipe[s] = "new" /\ s \in Managers
  /\ pipe' = [pipe EXCEPT ![s] = "left"]
  /\ inbox' = [inbox EXCEPT ![s] = <<>>]
  /\ UNCHANGED <<fsVars, registry, monitors, pc, frame, received, reply, exited, published>>

-----------------------------------------------------------------------------
(* publisher_function and recieve_messages_from_publisher                  *)

PubOpen(s) ==
  /\ Goto(s, "pubOpen", "pubFind")
  /\ OpenFileOfBox(s, {"APPEND"})
  /\ UNCHANGED <<registry, monitors, clients, published>>

PubFind(s) ==
  /\ Find(s, "pubFind", "pubRefuse", IF Handle(s) = -1 THEN "pubRefuse" ELSE "pubCheck")
  /\ UNCHANGED <<fsVars, registry, monitors, clients, published>>

\* Does the box have a publisher?  Nothing protects the answer.
PubCheck(s) ==
  /\ Goto(s, "pubCheck", IF boxes[Index(s)].n_publishers = 1 THEN "pubRefuse" ELSE "pubClaim")
  /\ UNCHANGED <<fsVars, registry, monitors, frame, clients, published>>

PubClaim(s) ==
  /\ Goto(s, "pubClaim", "pubName")
  /\ boxes' = [boxes EXCEPT ![Index(s)].n_publishers = 1]
  /\ UNCHANGED <<fsVars, n_boxes, mutex, monitors, frame, clients, published>>

\* The requests that the shared arguments may hold when s looks at them again: its
\* own, or one that the main thread has read since.
Latest(s) == {s} \cup {t \in Sessions \ After[s] : \A u \in After[t] : Registered(u)}

\* The name of the publisher is copied from the shared arguments, not from the
\* request of s.
PubName(s) ==
  /\ Goto(s, "pubName", "pubAttach")
  /\ \E t \in Latest(s) : boxes' = [boxes EXCEPT ![Index(s)].publisher = t]
  /\ UNCHANGED <<fsVars, n_boxes, mutex, monitors, frame, clients, published>>

\* A refused publisher opens the file once more and finds its pipe closed; no
\* handle is given back.
PubRefuse(s) ==
  /\ Goto(s, "pubRefuse", "done")
  /\ OpenFileOfBox(s, {"APPEND"})
  /\ pipe' = [pipe EXCEPT ![s] = "closed"]
  /\ UNCHANGED <<registry, monitors, inbox, received, reply, exited, published>>

\* The handle that the messages are written through is opened here; the one of
\* PubOpen stays open for ever.
PubAttach(s) ==
  /\ Goto(s, "pubAttach", "readCode")
  /\ OpenFileOfBox(s, {"APPEND"})
  /\ pipe' = [pipe EXCEPT ![s] = "open"]
  /\ UNCHANGED <<registry, monitors, inbox, received, reply, exited, published>>

\* The code of a message arrives; then the box is looked up.
ReadCode(s) ==
  /\ inbox[s] # <<>>
  /\ Find(s, "readCode", "pubEnd", "pubLock")
  /\ pipe' = IF find_box(Request[s].box) = -1 THEN [pipe EXCEPT ![s] = "closed"] ELSE pipe
  /\ UNCHANGED <<fsVars, registry, monitors, inbox, received, reply, exited, published>>

Asked == UNION {{s} \X DOMAIN Request[s].messages : s \in Sessions}
Texts == {Request[q[1]].messages[q[2]] : q \in Asked}

\* What the buffer of a publisher holds when nothing is read into it: the message
\* before, or what was on the stack, which is taken to be a message of somebody.
Leftovers(s) ==
  LET messages == Request[s].messages
      n == Len(messages) - Len(inbox[s])
  IN {m \in Texts : n \in DOMAIN messages => m = messages[n]}

\* The code of a message arrives and the client is killed before the message: what
\* read_pipe returns is ignored and the buffer served as it is.
ReadCodeAlone(s) ==
  /\ s \in Leavers /\ pipe[s] = "open" /\ inbox[s] # <<>>
  /\ find_box(Request[s].box) # -1
  /\ Find(s, "readCode", "pubEnd", "pubLock")
  /\ pipe' = [pipe EXCEPT ![s] = "left"]
  /\ \E m \in Leftovers(s) : inbox' = [inbox EXCEPT ![s] = <<m>>]
  /\ UNCHANGED <<fsVars, registry, monitors, received, reply, exited, published>>

\* Mutant: the box is left with a publisher.
Eof_NoReset(s) ==
  /\ pipe[s] = "left"
  /\ Goto(s, "readCode", "pubEnd")
  /\ UNCHANGED <<fsVars, registry, monitors, frame, clients, published>>

\* Mutant: the file is closed here and at the end of the session.
Eof_Closes(s) ==
  /\ pipe[s] = "left"
  /\ Goto(s, "readCode", "pubEnd")
  /\ boxes' = [boxes EXCEPT ![Index(s)].n_publishers = 0]
  /\ \E ret \in {0, -1} : tfs_close(Handle(s), ret)
  /\ UNCHANGED <<n_boxes, mutex, monitors, frame, clients, published>>

\* The client has closed its pipe: the box, by the index found last, has no
\* publisher any more.
Eof(s) ==
  /\ pipe[s] = "left"
  /\ Goto(s, "readCode", "pubEnd")
  /\ boxes' = [boxes EXCEPT ![Index(s)].n_publishers = 0]
  /\ UNCHANGED <<fsVars, n_boxes, mutex, monitors, frame, clients, published>>

PubLock(s) ==
  /\ Goto(s, "pubLock", "pubWrite")
  /\ LockBox(s)
  /\ UNCHANGED <<fsVars, registry, waiting, frame, clients, published>>

PubWrite(s) ==
  /\ Goto(s, "pubWrite", "pubTerminate")
  /\ \E ret \in {-1} \cup 0..BlockSize : tfs_write(Handle(s), Head(inbox[s]), ret)
  /\ UNCHANGED <<registry, monitors, frame, clients, published>>

\* The log of the box with the message of s at its end.
Published(s) == [published EXCEPT ![Request[s].box] = Append(@, Head(inbox[s]))]

\* Mutant: the terminator is counted.
PubTerminate_CountsTerminator(s) ==
  /\ Goto(s, "pubTerminate", "pubNotify")
  /\ \E ret \in {-1, 0, 1} :
       /\ tfs_write(Handle(s), <<NUL>>, ret)
       /\ published' = IF ret = 1 THEN Published(s) ELSE published
  /\ boxes' = [boxes EXCEPT ![Index(s)].box_size = @ + Len(Head(inbox[s])) + 1]
  /\ UNCHANGED <<n_boxes, mutex, monitors, frame, clients>>

\* The terminator, and the size by the index found before the mutex was locked.
\* What tfs_write returns is ignored: in a full file the message is left without
\* its end, and counted all the same.
PubTerminate(s) ==
  /\ Goto(s, "pubTerminate", "pubNotify")
  /\ \E ret \in {-1, 0, 1} :
       /\ tfs_write(Handle(s), <<NUL>>, ret)
       /\ published' = IF ret = 1 THEN Published(s) ELSE published
  /\ boxes' = [boxes EXCEPT ![Index(s)].box_size = @ + Len(Head(inbox[s]))]
  /\ UNCHANGED <<n_boxes, mutex, monitors, frame, clients>>

\* Mutant: nobody is woken.
PubNotify_NoBroadcast(s) ==
  /\ Goto(s, "pubNotify", "readCode")
  /\ UnlockBox(s)
  /\ inbox' = [inbox EXCEPT ![s] = Tail(@)]
  /\ UNCHANGED <<fsVars, registry, waiting, frame, pipe, received, reply, exited, published>>

\* pthread_cond_broadcast, then the box is unlocked.
PubNotify(s) ==
  /\ Goto(s, "pubNotify", "readCode")
  /\ waiting' = [waiting EXCEPT ![Index(s)] = {}]
  /\ UnlockBox(s)
  /\ inbox' = [inbox EXCEPT ![s] = Tail(@)]
  /\ UNCHANGED <<fsVars, registry, frame, pipe, received, reply, exited, published>>

\* Closes the file; pcq_dequeue comes just before.
PubEnd(s) ==
  /\ Goto(s, "pubEnd", "done")
  /\ \E ret \in {0, -1} : tfs_close(Handle(s), ret)
  /\ UNCHANGED <<registry, monitors, frame, clients, published>>

PublisherStep(s) ==
  \/ PubOpen(s) \/ PubFind(s) \/ PubCheck(s) \/ PubClaim(s) \/ PubName(s) \/ PubRefuse(s)
  \/ PubAttach(s) \/ Eof(s) \/ PubLock(s) \/ PubWrite(s) \/ PubTerminate(s) \/ PubNotify(s) \/ PubEnd(s)

-----------------------------------------------------------------------------
(* register_subscriber and read_messages                                   *)

\* The second of the two lookups of register_subscriber decides; the first adds
\* nothing to what it can find.
Register(s) ==
  /\ Find(s, "register", "subOpenRefused", "subOpen")
  /\ UNCHANGED <<fsVars, registry, monitors, clients, published>>

SubOpen(s) ==
  /\ \/ Goto(s, "subOpen", "subFind")
     \/ Goto(s, "subOpenRefused", "subFindRefused")
  /\ OpenFileOfBox(s, {})
  /\ UNCHANGED <<registry, monitors, clients, published>>

\* The pipe of a refused subscriber is closed, and read_messages goes on if there
\* is a box by now.
SubFind(s) ==
  LET there == IF Handle(s) = -1 THEN "done" ELSE "loop"
  IN /\ \/ /\ Find(s, "subFind", "done", there)
           /\ pipe' = [pipe EXCEPT ![s] = "open"]
        \/ /\ Find(s, "subFindRefused", "done", there)
           /\ pipe' = [pipe EXCEPT ![s] = "closed"]
     /\ UNCHANGED <<fsVars, registry, monitors, inbox, received, reply, exited, published>>

\* The loop ends only when the box is gone.
Loop(s) ==
  /\ Find(s, "loop", "subEnd", "subLock")
  /\ pipe' = IF find_box(Request[s].box) = -1 THEN [pipe EXCEPT ![s] = "closed"] ELSE pipe
  /\ UNCHANGED <<fsVars, registry, monitors, inbox, received, reply, exited, published>>

SubLock(s) ==
  /\ Goto(s, "subLock", "subRead")
  /\ LockBox(s)
  /\ UNCHANGED <<fsVars, registry, waiting, frame, clients, published>>

\* Reads a byte; at the end of the file, pthread_cond_wait gives the mutex back
\* and joins the sleepers.
SubRead(s) ==
  /\ pc[s] = "subRead"
  /\ \E ret \in {-1, 0, 1} :
       /\ tfs_read(Handle(s), 1, ret)
       /\ \/ /\ ret = 0
             /\ Goto(s, "subRead", "asleep")
             /\ UnlockBox(s)
             /\ waiting' = [waiting EXCEPT ![Index(s)] = @ \cup {s}]
             /\ UNCHANGED frame
          \/ /\ ret = -1
             /\ Goto(s, "subRead", "deliver")
             /\ UNCHANGED <<monitors, frame>>
          \/ /\ ret = 1
             /\ Goto(s, "subRead", "deliver")
             /\ \E byte \in Bytes :
                  /\ Copied(Handle(s), <<byte>>)
                  /\ frame' = [frame EXCEPT ![s].char_buffer = byte]
             /\ UNCHANGED monitors
  /\ UNCHANGED <<registry, clients, published>>

SpuriousWake(s) ==
  /\ Alive
  /\ pc[s] = "asleep" /\ s \in waiting[Index(s)]
  /\ waiting' = [waiting EXCEPT ![Index(s)] = @ \ {s}]
  /\ UNCHANGED <<fsVars, registry, box_mutexes, pc, frame, clients, published>>

\* pthread_cond_wait returns with the mutex it was called with.
Wake(s) ==
  /\ Goto(s, "asleep", "refind")
  /\ s \notin waiting[Index(s)]
  /\ LockBox(s)
  /\ UNCHANGED <<fsVars, registry, waiting, frame, clients, published>>

\* When the box is gone the inner loop ends, with char_buffer as it was.
Refind(s) ==
  /\ Find(s, "refind", "deliver", "subRead")
  /\ pipe' = IF find_box(Request[s].box) = -1 THEN [pipe EXCEPT ![s] = "closed"] ELSE pipe
  /\ UNCHANGED <<fsVars, registry, monitors, inbox, received, reply, exited, published>>

\* Mutant: the terminator is kept like any other byte.
Deliver_KeepsTerminator(s) ==
  /\ Goto(s, "deliver", "loop")
  /\ frame' = [frame EXCEPT ![s].buffer = Append(@, frame[s].char_buffer)]
  /\ UnlockBox(s)
  /\ UNCHANGED <<fsVars, registry, waiting, clients, published>>

\* Mutant: the buffer is not emptied after a message.
Deliver_NoReset(s) ==
  /\ Goto(s, "deliver", "loop")
  /\ \/ /\ frame[s].char_buffer = NUL /\ pipe[s] = "open"
        /\ received' = [received EXCEPT ![s] = Append(@, frame[s].buffer)]
        /\ UNCHANGED frame
     \/ /\ frame[s].char_buffer # NUL
        /\ frame' = [frame EXCEPT ![s].buffer = Append(@, frame[s].char_buffer)]
        /\ UNCHANGED received
  /\ UnlockBox(s)
  /\ UNCHANGED <<fsVars, registry, waiting, inbox, pipe, reply, exited, published>>

\* A terminator sends the message, anything else is kept; the box is unlocked,
\* which for box_index = -1 unlocks no box.  A write to a pipe that is closed, on
\* either side, ends the process.
Deliver(s) ==
  /\ Goto(s, "deliver", "loop")
  /\ \E c \in IF frame[s].char_buffer = Unset THEN Bytes ELSE {frame[s].char_buffer} :
       \/ /\ c = NUL /\ pipe[s] = "open"
          /\ received' = [received EXCEPT ![s] = Append(@, frame[s].buffer)]
          /\ frame' = [frame EXCEPT ![s].buffer = <<>>]
          /\ UNCHANGED exited
       \/ /\ c = NUL /\ pipe[s] # "open"
          /\ exited' = TRUE
          /\ UNCHANGED <<received, frame>>
       \/ /\ c # NUL
          /\ frame' = [frame EXCEPT ![s].buffer = Append(@, c)]
          /\ UNCHANGED <<received, exited>>
  /\ IF Index(s) = -1 THEN UNCHANGED box_mutexes ELSE UnlockBox(s)
  /\ UNCHANGED <<fsVars, registry, waiting, inbox, pipe, reply, published>>

SubEnd(s) ==
  /\ Goto(s, "subEnd", "done")
  /\ \E ret \in {0, -1} : tfs_close(Handle(s), ret)
  /\ UNCHANGED <<registry, monitors, frame, clients, published>>

SubscriberStep(s) ==
  \/ Register(s) \/ SubOpen(s) \/ SubFind(s) \/ Loop(s) \/ SubLock(s) \/ SubRead(s)
  \/ Wake(s) \/ Refind(s) \/ Deliver(s) \/ SubEnd(s)

-----------------------------------------------------------------------------
(* create_box and remove_box                                               *)

\* Memory outside of the array of boxes is written, and nothing is defined after that.
OutOfArray ==
  /\ panicked' = TRUE
  /\ UNCHANGED <<takenInodes, inode_table, takenBlocks, fs_data, dir_entry, open_file_table>>
  /\ UNCHANGED <<registry, monitors, frame, clients, published>>

CreateFind(s) ==
  /\ Find(s, "createFind", "createOpen", "replyNo")
  /\ UNCHANGED <<fsVars, registry, monitors, clients, published>>

CreateOpen(s) ==
  /\ pc[s] = "createOpen"
  /\ OpenFileOfBox(s, {"CREAT"})
  /\ Goto(s, "createOpen", IF frame'[s].box_handle = -1 THEN "replyNo" ELSE "createClose")
  /\ UNCHANGED <<registry, monitors, clients, published>>

CreateClose(s) ==
  /\ Goto(s, "createClose", "createAdd")
  /\ \E ret \in {0, -1} : tfs_close(Handle(s), ret)
  /\ UNCHANGED <<registry, monitors, frame, clients, published>>

\* add_box; the condition and the mutex of the index are initialised anew.
CreateAdd(s) ==
  /\ Goto(s, "createAdd", "replyYes")
  /\ mutex = NoSession /\ n_boxes < MaxBoxes
  /\ boxes' = [boxes EXCEPT ![n_boxes] = [EmptyBox EXCEPT !.box_name = Request[s].box]]
  /\ n_boxes' = n_boxes + 1
  /\ box_mutexes' = [box_mutexes EXCEPT ![n_boxes] = NoSession]
  /\ waiting' = [waiting EXCEPT ![n_boxes] = {}]
  /\ UNCHANGED <<fsVars, mutex, frame, clients, published>>

\* add_box does not look whether the array has room.
AddPastArray(s) ==
  /\ Goto(s, "createAdd", "replyYes")
  /\ mutex = NoSession /\ n_boxes = MaxBoxes
  /\ OutOfArray

\* Mutant: what tfs_unlink returns is not looked at.
RemoveUnlink_Unchecked(s) ==
  /\ Goto(s, "removeUnlink", "removeFind")
  /\ \E ret \in {0, -1} : tfs_unlink(Request[s].box, ret)
  /\ UNCHANGED <<registry, monitors, frame, clients, published>>

RemoveUnlink(s) ==
  /\ pc[s] = "removeUnlink"
  /\ \E ret \in {0, -1} :
       /\ tfs_unlink(Request[s].box, ret)
       /\ Goto(s, "removeUnlink", IF ret = -1 THEN "replyNo" ELSE "removeFind")
  /\ UNCHANGED <<registry, monitors, frame, clients, published>>

RemoveFind(s) ==
  /\ Find(s, "removeFind", "replyNo", "removeBroadcast")
  /\ UNCHANGED <<fsVars, registry, monitors, clients, published>>

\* pthread_cond_broadcast, without the mutex of the box.
RemoveBroadcast(s) ==
  /\ Goto(s, "removeBroadcast", "removeLock")
  /\ waiting' = [waiting EXCEPT ![Index(s)] = {}]
  /\ UNCHANGED <<fsVars, registry, box_mutexes, frame, clients, published>>

\* delete_box locks mutex and looks whether the box has a publisher.
RemoveLock(s) ==
  /\ Goto(s, "removeLock", IF boxes[Index(s)].n_publishers = 1 THEN "removePipe" ELSE "swapName")
  /\ mutex = NoSession
  /\ mutex' = s
  /\ UNCHANGED <<fsVars, boxes, n_boxes, monitors, frame, clients, published>>

\* It opens the pipe of the publisher for reading, which waits for a writer.  A pipe
\* of another client has one, and a name that nobody has cannot be opened.
RemovePipe(s) ==
  LET publisher == boxes[Index(s)].publisher
  IN /\ Goto(s, "removePipe", "swapName")
     /\ publisher \in Publishers => pipe[publisher] # "left"
     /\ UNCHANGED <<fsVars, registry, monitors, frame, clients, published>>

\* It exchanges a field of the box with that of the last one.  The two halves of
\* an exchange are one step: they differ only in the box that is dropped.
Exchange(s, from, to, field) ==
  LET i == Index(s)
      last == n_boxes - 1
  IN /\ Goto(s, from, to)
     /\ n_boxes > 0
     /\ boxes' = [boxes EXCEPT ![i][field] = boxes[last][field], ![last][field] = boxes[i][field]]
     /\ UNCHANGED <<fsVars, n_boxes, mutex, monitors, frame, clients, published>>

Swap(s) ==
  \/ Exchange(s, "swapName", "swapPublisher", "box_name")
  \/ Exchange(s, "swapPublisher", "swapSize", "publisher")
  \/ Exchange(s, "swapSize", "swapCount", "box_size")
  \/ Exchange(s, "swapCount", "removeEnd", "n_publishers")

\* With no box left the last one is boxes[-1].
SwapWithNone(s) ==
  /\ Goto(s, "swapName", "swapName")
  /\ n_boxes = 0
  /\ OutOfArray

\* Mutant: the boxes are swapped and both stay.
RemoveEnd_NoDecrement(s) ==
  /\ Goto(s, "removeEnd", "replyYes")
  /\ mutex' = NoSession
  /\ UNCHANGED <<fsVars, boxes, n_boxes, monitors, frame, clients, published>>

\* It destroys the condition past the last box, which waits until nobody sleeps on
\* it, takes a box off the array and unlocks mutex.
RemoveEnd(s) ==
  /\ Goto(s, "removeEnd", "replyYes")
  /\ n_boxes \in Indices => waiting[n_boxes] = {}
  /\ n_boxes' = n_boxes - 1
  /\ mutex' = NoSession
  /\ UNCHANGED <<fsVars, boxes, monitors, frame, clients, published>>

\* reply_to_box_creation and reply_to_box_removal; the pipe of a manager that was
\* killed cannot be opened any more.
Reply(s) ==
  /\ pipe[s] # "left"
  /\ \/ Goto(s, "replyYes", "done") /\ reply' = [reply EXCEPT ![s] = 0]
     \/ Goto(s, "replyNo", "done") /\ reply' = [reply EXCEPT ![s] = -1]
  /\ UNCHANGED <<fsVars, registry, monitors, frame, inbox, pipe, received, exited, published>>

\* A manager that is killed when its pipe is open has the broker killed by SIGPIPE.
BrokenPipe(s) ==
  /\ Alive
  /\ pc[s] \in {"replyYes", "replyNo"} /\ s \in Leavers /\ pipe[s] = "new"
  /\ exited' = TRUE
  /\ UNCHANGED <<fsVars, registry, monitors, pc, frame, inbox, pipe, received, reply, published>>

ManagerStep(s) ==
  \/ CreateFind(s) \/ CreateOpen(s) \/ CreateClose(s) \/ CreateAdd(s) \/ AddPastArray(s)
  \/ RemoveUnlink(s) \/ RemoveFind(s) \/ RemoveBroadcast(s) \/ RemoveLock(s) \/ RemovePipe(s)
  \/ Swap(s) \/ SwapWithNone(s) \/ RemoveEnd(s) \/ Reply(s)

-----------------------------------------------------------------------------
\* What a session waits for a client for; all the rest it does of itself.
ClientStep(s) == Start(s) \/ ReadCode(s) \/ ReadCodeAlone(s) \/ Leave(s) \/ BrokenPipe(s)

BrokerNext ==
  \/ \E s \in Publishers : PublisherStep(s)
  \/ \E s \in Subscribers : SubscriberStep(s) \/ SpuriousWake(s)
  \/ \E s \in Managers : ManagerStep(s)
  \/ \E s \in Sessions : ClientStep(s)

BrokerSpec == BrokerInit /\ [][BrokerNext]_brokerVars

\* Threads run, and a mutex that is free again and again is granted in the end.
\* Nothing says that a client sends, leaves or closes its pipe.
BrokerFairness ==
  /\ \A s \in Publishers : SF_brokerVars(PublisherStep(s))
  /\ \A s \in Subscribers : SF_brokerVars(SubscriberStep(s))
  /\ \A s \in Managers : SF_brokerVars(ManagerStep(s))

FairBrokerSpec == BrokerSpec /\ BrokerFairness
-----------------------------------------------------------------------------
\* The bytes in the file of box b.
FileOf(b) == inode_table[dir_entry[CHOOSE s \in Matches(b) : TRUE].d_inumber]

Stored(b) ==
  IF Matches(b) = {} \/ FileOf(b).i_size = 0 THEN <<>>
  ELSE LET block == fs_data[FileOf(b).i_data_block]
       IN SubSeq([k \in 1..BlockSize |-> block[k - 1]], 1, FileOf(b).i_size)

BoxWanted == [s \in Subscribers |-> Request[s].box]
Backlog   == Cardinality(Asked)

\* A box of the broker is a message box: its log is what was published.
Promise == INSTANCE MessageBox WITH
  Boxes <- Names,
  Messages <- Texts,
  BoxOf <- BoxWanted,
  MaxLog <- Backlog,
  log <- published,
  sent <- [s \in Subscribers |-> received[s]],
  subscribed <- {s \in Subscribers : pc[s] \in {"loop", "subLock", "subRead", "asleep", "refind",
                                            "deliver"}}

\* While boxes are not removed, a box is such a log: subscribers that read its
\* file byte by byte, each at its own offset, while publishers write to it, are
\* sent whole messages, all of them and in the order they were published.
MessagesInOrder == Promise!BoxSafety

\* A subscriber that waits is sent every message published: the broadcast of a
\* publisher never falls between the read that finds nothing and the wait.
SubscriberCatchesUp == Promise!EverythingSent

\* Sessions that have claimed the box and not let go of it.
Publishing(b) ==
  {s \in Sessions : /\ Request[s].box = b
                    /\ pc[s] \in {"pubName", "pubAttach", "readCode", "pubLock", "pubWrite",
                                  "pubTerminate", "pubNotify"}}

\* n_publishers is "1 se tem um publisher, 0 caso contrario": while delete_box does
\* not move boxes, it counts the publishers that a box has, so that there is never
\* more than one.
PublishersCounted ==
  mutex = NoSession =>
    \A i \in 0..(n_boxes - 1) :
      boxes[i].n_publishers = Cardinality(Publishing(boxes[i].box_name))

\* box_size, which the listing shows, counts the bytes of the messages in the
\* file, the terminators aside, as long as the file has room.
BoxSizeAgrees ==
  \A i \in 0..(n_boxes - 1) :
    LET b == boxes[i].box_name
    IN box_mutexes[i] = NoSession /\ Len(Stored(b)) < BlockSize
         => boxes[i].box_size = Len(Stored(b)) - Cardinality({k \in 1..Len(Stored(b)) : Stored(b)[k] = NUL})

\* The sessions that are about to write or read, or to close, through their handle.
UsingHandle ==
  {s \in Sessions : pc[s] \in {"readCode", "pubLock", "pubWrite", "pubTerminate", "pubNotify",
                               "pubEnd", "loop", "subLock", "subRead", "asleep", "refind",
                               "deliver", "subEnd", "createClose"}}

\* While no box is removed, the handle a session uses is open on the file of its
\* box and no other session uses it, although handles are numbers that tfs_close
\* gives back to be used again: nobody closes one twice or reads at the offset of
\* another.
HandlesApart ==
  \A s \in UsingHandle :
    /\ Handle(s) \in OpenHandles
    /\ \E d \in Matches(Request[s].box) :
         dir_entry[d].d_inumber = open_file_table[Handle(s)].of_inumber
    /\ \A t \in UsingHandle \ {s} : Handle(t) # Handle(s)

\* While no box is removed, no session makes an assertion of TecnicoFS fail or
\* runs through memory: not with an empty file, which has no block, not with a
\* full one, and not past the end of the array of boxes.
NeverPanics == ~panicked

InRegistry(b) == \E i \in 0..(n_boxes - 1) : boxes[i].box_name = b

\* The sessions that find no box b and do, or have done, no more than make its file.
MakingFile(b) ==
  {s \in Managers : /\ Request[s].kind = "create" /\ Request[s].box = b /\ Index(s) = -1
                    /\ \/ pc[s] \in {"createClose", "createAdd"}
                       \/ pc[s] \in {"replyNo", "done"} /\ Handle(s) = -1}

Deleting == {"removePipe", "swapName", "swapPublisher", "swapSize", "swapCount", "removeEnd"}
Removing == {"removeFind", "removeBroadcast", "removeLock"} \cup Deleting

\* A file has a box, is about to have one, or is what a session left that made it
\* and found no free handle to open it: so it is, in a broker that is asked for one
\* name, however creations and removals overlap.
FilesHaveBoxes == \A b \in Names : Matches(b) # {} => InRegistry(b) \/ MakingFile(b) # {}

\* When managers take turns the array of boxes and the directory agree, but for
\* what a session is about to do: boxes differ in name, files have boxes, and a box
\* without a file is being removed.  So it is when a name is used again after its
\* box was removed.
RegistryMatchesFiles ==
  /\ \A i, j \in 0..(n_boxes - 1) : i # j => boxes[i].box_name # boxes[j].box_name
  /\ \A b \in Names : InRegistry(b) =>
       \/ Matches(b) # {}
       \/ \E s \in Managers : Request[s].box = b /\ pc[s] \in Removing
  /\ FilesHaveBoxes

\* "Box removida": once a box is removed, the sessions of its subscribers end.
SubscribersReleased ==
  \A r \in Sessions, s \in Subscribers :
    (/\ Request[r].kind = "remove" /\ reply[r] = 0 /\ Request[r].box = Request[s].box
     /\ pc[s] \in {"loop", "subLock", "subRead", "asleep", "refind", "deliver"})
      ~> pc[s] = "done"
=============================================================================

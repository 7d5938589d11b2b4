------------------------------ MODULE Listing ------------------------------
(***************************************************************************)
(* The listing of boxes: reply_to_list_boxes of mbroker.c, which marks the *)
(* last box of the array under mutex, then sends the boxes one by one      *)
(* without it, and takes the mark off whatever box is last by then; the    *)
(* manager, which reads boxes until one carries the mark; and add_box and  *)
(* delete_box, which change the array meanwhile.                           *)
(*                                                                         *)
(* A box is its name and its mark, the two ends of box_t.  It is sent as   *)
(* two parts: a pipe holds PipeSize parts (64 KiB, not quite four boxes),  *)
(* a write goes on part by part when there is room, and a read takes what  *)
(* there is.  The boxes have no publishers, and the removals come one      *)
(* after the other: that delete_box waits for the pipe of a publisher, and *)
(* what two removals at once do to the array, is a matter of Broker.       *)
(***************************************************************************)
EXTENDS Naturals, Sequences, FiniteSets

CONSTANTS
  Listings,      (* how many listings are asked for, each by its manager    *)
  Created,       (* the names of the boxes created, in their order          *)
  NoName,        (* the name of no box                                      *)
  Nobody,        (* the holder of a free mutex                              *)
  Deleter,       (* the session that removes a box                          *)
  MaxBoxes,      (* MAX_BOXES                                               *)
  MaxRemovals,   (* how many boxes are removed                              *)
  PipeSize       (* the parts a pipe holds                                  *)

Names == {Created[k] : k \in 1..Len(Created)}

ASSUME ListAssumption ==
  /\ Created \in Seq(Names)
  /\ \A j, k \in 1..Len(Created) : j # k => Created[j] # Created[k]
  /\ NoName \notin Names
  /\ Deleter # Nobody
  /\ MaxBoxes \in Nat /\ Len(Created) <= MaxBoxes
  /\ MaxRemovals \in Nat /\ Listings \in Nat
  /\ PipeSize \in Nat \ 0..1

Listers == 1..Listings
Indices == 0..(MaxBoxes - 1)
Box == [box_name : Names \cup {NoName}, last : {0, 1}]

\* What a pipe holds: the names and the marks of boxes.
Parts == Names \cup {NoName, 0, 1}

VARIABLES
  boxes,         (* the array of boxes                                      *)
  n_boxes,
  mutex,         (* who holds mutex                                         *)
  deletion,      (* where a removal is, its i, string_aux and last_aux      *)
  created,       (* how many boxes were created                             *)
  removals,      (* how many were removed                                   *)
  session,       (* where a lister is, its i, and what of reply_box is      *)
                 (* copied or still to be written                           *)
  man_pipe,      (* the parts in the pipe of each manager                   *)
  manager,       (* where a manager is, last of its box, and its array      *)
  exited,        (* the broker has ended                                    *)
  calm,          (* history: no box was created marked, and no creation,    *)
                 (* removal (from find_box to the end of delete_box) or     *)
                 (* other listing overlapped with a listing                 *)
  before         (* history: the boxes there were when a listing began, as  *)
                 (* long as it is calm                                      *)

array    == <<boxes, n_boxes, mutex, deletion, created, removals>>
listings == <<session, man_pipe, manager>>
history  == <<calm, before>>
listVars == <<array, listings, exited, history>>

ListTypeOK ==
  /\ boxes \in [Indices -> Box] /\ n_boxes \in 0..MaxBoxes
  /\ mutex = IF deletion.step \in {"none", "lock"} THEN Nobody ELSE Deleter
  /\ deletion \in
       [step : {"none", "lock", "otherName", "last", "otherLast", "end"},
        i : 0..MaxBoxes, name : Names \cup {NoName}, last : {0, 1}]
  /\ deletion.step # "none" => deletion.i < n_boxes
  /\ created \in 0..Len(Created) /\ removals \in 0..MaxRemovals
  /\ session \in [Listers ->
       [step : {"none", "mark", "next", "copyLast", "send", "unmark", "done"},
        i : 0..MaxBoxes, out : Seq(Parts)]]
  /\ man_pipe \in [Listers -> Seq(Parts)]
  /\ manager \in [Listers ->
       [step : {"reading", "stopped", "crashed"}, last : Parts, boxes : Seq(Parts)]]
  /\ \A l \in Listers :
       /\ session[l].step \in {"copyLast", "send"} => session[l].i < MaxBoxes
       /\ session[l].step = "copyLast" => Len(session[l].out) = 1
       /\ Len(session[l].out) <= 2 /\ Len(man_pipe[l]) <= PipeSize
  /\ exited \in BOOLEAN /\ calm \in BOOLEAN
  /\ before \in [Listers -> Seq(Names \cup {NoName})]

NotDeleting == [step |-> "none", i |-> 0, name |-> NoName, last |-> 0]

ListInit ==
  /\ boxes = [i \in Indices |-> [box_name |-> NoName, last |-> 0]] /\ n_boxes = 0
  /\ mutex = Nobody
  /\ deletion = NotDeleting
  /\ created = 0 /\ removals = 0
  /\ session = [l \in Listers |-> [step |-> "none", i |-> 0, out |-> <<>>]]
  /\ man_pipe = [l \in Listers |-> <<>>]
  /\ manager = [l \in Listers |-> [step |-> "reading", last |-> 0, boxes |-> <<>>]]
  /\ exited = FALSE
  /\ calm = TRUE
  /\ before = [l \in Listers |-> <<>>]

Listed == [k \in 1..n_boxes |-> boxes[k - 1].box_name]
Active  == {l \in Listers : session[l].step \notin {"none", "done"}}

\* Goes on being calm if undisturbed, with these boxes for each listing.
Observe(undisturbed, now) ==
  /\ calm' = (calm /\ undisturbed)
  /\ before' = IF calm' THEN now ELSE [l \in Listers |-> <<>>]

-----------------------------------------------------------------------------
(* add_box and delete_box                                                  *)

\* create_box never sets last: a box has whatever the stack held.  (The array has
\* room for all that are created, so its bound is the assumption's, not add_box's.)
AddBox ==
  /\ ~exited /\ mutex = Nobody
  /\ created < Len(Created) /\ n_boxes < MaxBoxes
  /\ \E last \in {0, 1} :
       /\ boxes' = [boxes EXCEPT ![n_boxes] = [box_name |-> Created[created + 1], last |-> last]]
       /\ Observe(Active = {} /\ last = 0, before)
  /\ n_boxes' = n_boxes + 1
  /\ created' = created + 1
  /\ UNCHANGED <<mutex, deletion, removals, listings, exited>>

\* A removal begins: find_box has given back the index of a box, and lets go of
\* mutex.
DeleteFind(i) ==
  /\ ~exited /\ deletion.step = "none" /\ mutex = Nobody
  /\ i < n_boxes /\ removals < MaxRemovals
  /\ deletion' = [NotDeleting EXCEPT !.step = "lock", !.i = i]
  /\ removals' = removals + 1
  /\ Observe(Active = {}, before)
  /\ UNCHANGED <<boxes, n_boxes, mutex, created, listings, exited>>

DeleteGoto(from, to) ==
  /\ ~exited /\ deletion.step = from
  /\ deletion' = to
  /\ UNCHANGED <<created, removals, listings, exited, history>>

\* delete_box locks mutex, looks at no index, and swaps the box with the last one,
\* field by field: here the first of the two names is copied,
DeleteLock ==
  /\ mutex = Nobody
  /\ DeleteGoto("lock", [deletion EXCEPT !.step = "otherName",
                                        !.name = boxes[deletion.i].box_name])
  /\ mutex' = Deleter
  /\ boxes' = [boxes EXCEPT ![deletion.i].box_name = boxes[n_boxes - 1].box_name]
  /\ UNCHANGED n_boxes

\* here the other,
SwapName ==
  /\ DeleteGoto("otherName", [deletion EXCEPT !.step = "last"])
  /\ boxes' = [boxes EXCEPT ![n_boxes - 1].box_name = deletion.name]
  /\ UNCHANGED <<n_boxes, mutex>>

\* here the first of the two marks,
SwapLast ==
  /\ DeleteGoto("last", [deletion EXCEPT !.step = "otherLast", !.last = boxes[deletion.i].last])
  /\ boxes' = [boxes EXCEPT ![deletion.i].last = boxes[n_boxes - 1].last]
  /\ UNCHANGED <<n_boxes, mutex>>

\* and here the other.
SwapOtherLast ==
  /\ DeleteGoto("otherLast", [deletion EXCEPT !.step = "end"])
  /\ boxes' = [boxes EXCEPT ![n_boxes - 1].last = deletion.last]
  /\ UNCHANGED <<n_boxes, mutex>>

\* Mutant: a box too many is dropped.
DeleteEnd_OneTooMany ==
  /\ ~exited /\ deletion.step = "end"
  /\ deletion' = NotDeleting
  /\ n_boxes' = n_boxes - 2
  /\ mutex' = Nobody
  /\ UNCHANGED <<boxes, created, removals, listings, exited, history>>

DeleteEnd ==
  /\ ~exited /\ deletion.step = "end"
  /\ deletion' = NotDeleting
  /\ n_boxes' = n_boxes - 1
  /\ mutex' = Nobody
  /\ UNCHANGED <<boxes, created, removals, listings, exited, history>>

DeleteStep == DeleteLock \/ SwapName \/ SwapLast \/ SwapOtherLast \/ DeleteEnd

-----------------------------------------------------------------------------
(* reply_to_list_boxes                                                     *)

SessionGoto(l, from, to) ==
  /\ ~exited /\ session[l].step = from
  /\ session' = [session EXCEPT ![l].step = to]

\* Opens the pipe, which waits for the manager to open it too (and for ever, if
\* the manager is gone: no listing has to begin), writes the code and looks
\* whether there are boxes; if there are none, a box without a name is sent,
\* marked.  Listings are numbered as they begin.
ListStart(l) ==
  /\ ~exited /\ session[l].step = "none"
  /\ l > 1 => session[l - 1].step # "none"
  /\ IF n_boxes = 0
     THEN /\ session' = [session EXCEPT ![l].step = "done"]
          /\ man_pipe' = [man_pipe EXCEPT ![l] = <<NoName, 1>>]
     ELSE /\ session' = [session EXCEPT ![l].step = "mark"]
          /\ UNCHANGED man_pipe
  /\ Observe(Active = {} /\ deletion.step = "none", [before EXCEPT ![l] = Listed])
  /\ UNCHANGED <<array, manager, exited>>

\* Sets last of the box that is last in the array; with no box left, a byte
\* outside of the array is written, with whatever comes of it.
SetLast(last) ==
  IF n_boxes = 0 THEN exited' \in BOOLEAN /\ UNCHANGED boxes
  ELSE boxes' = [boxes EXCEPT ![n_boxes - 1].last = last] /\ UNCHANGED exited

\* Mutant: no box is marked.
Mark_None(l) ==
  /\ SessionGoto(l, "mark", "next")
  /\ mutex = Nobody
  /\ UNCHANGED <<array, man_pipe, manager, exited, history>>

\* Mutant: the first box of the array is marked.
Mark_First(l) ==
  /\ SessionGoto(l, "mark", "next")
  /\ mutex = Nobody
  /\ boxes' = [boxes EXCEPT ![0].last = 1]
  /\ UNCHANGED <<n_boxes, mutex, deletion, created, removals, man_pipe, manager, exited, history>>

\* Mutant: the loop begins at the second box.
Mark_FromOne(l) ==
  /\ ~exited /\ session[l].step = "mark"
  /\ session' = [session EXCEPT ![l].step = "next", ![l].i = 1]
  /\ mutex = Nobody
  /\ SetLast(1)
  /\ UNCHANGED <<n_boxes, mutex, deletion, created, removals, man_pipe, manager, history>>

Mark(l) ==
  /\ SessionGoto(l, "mark", "next")
  /\ mutex = Nobody
  /\ SetLast(1)
  /\ UNCHANGED <<n_boxes, mutex, deletion, created, removals, man_pipe, manager, history>>

\* Is there another box?  reply_box = boxes[i] copies its name first,
Next(l) ==
  /\ ~exited /\ session[l].step = "next"
  /\ LET i == session[l].i
     IN session' = [session EXCEPT ![l] =
          IF i < n_boxes THEN [@ EXCEPT !.step = "copyLast", !.out = <<boxes[i].box_name>>]
          ELSE [@ EXCEPT !.step = "unmark"]]
  /\ UNCHANGED <<array, man_pipe, manager, exited, history>>

\* Where a session goes from a write that leaves some parts of a box unwritten.
Sent(here, rest) ==
  IF rest = <<>> THEN [step |-> "next", i |-> here.i + 1, out |-> <<>>]
  ELSE [here EXCEPT !.step = "send", !.out = rest]

\* A write goes as far as there is room in the pipe; if the manager has closed it,
\* SIGPIPE ends the broker.
Write(l, out) ==
  LET room == PipeSize - Len(man_pipe[l])
      n == IF room < Len(out) THEN room ELSE Len(out)
  IN \/ /\ manager[l].step # "stopped"
        /\ man_pipe' = [man_pipe EXCEPT ![l] = @ \o SubSeq(out, 1, n)]
        /\ session' = [session EXCEPT ![l] = Sent(@, SubSeq(out, n + 1, Len(out)))]
        /\ UNCHANGED exited
     \/ /\ manager[l].step = "stopped"
        /\ exited' = TRUE
        /\ UNCHANGED <<man_pipe, session>>

\* and last last; then it is written.
Send(l) ==
  /\ ~exited /\ session[l].step = "copyLast"
  /\ Write(l, Append(session[l].out, boxes[session[l].i].last))
  /\ UNCHANGED <<array, manager, history>>

\* The write that found no room goes on.
SendRest(l) ==
  /\ ~exited /\ session[l].step = "send"
  /\ Len(man_pipe[l]) < PipeSize \/ manager[l].step = "stopped"
  /\ Write(l, session[l].out)
  /\ UNCHANGED <<array, manager, history>>

\* Mutant: the mark is left.
Unmark_None(l) ==
  /\ SessionGoto(l, "unmark", "done")
  /\ UNCHANGED <<array, man_pipe, manager, exited, history>>

\* The mark is taken off without mutex.
Unmark(l) ==
  /\ SessionGoto(l, "unmark", "done")
  /\ SetLast(0)
  /\ UNCHANGED <<n_boxes, mutex, deletion, created, removals, man_pipe, manager, history>>

ListStep(l) == Mark(l) \/ Next(l) \/ Send(l) \/ SendRest(l) \/ Unmark(l)

-----------------------------------------------------------------------------
(* manager.c                                                               *)

\* A read of a box, which leaves what it does not reach as it was.
ReadBox(l) ==
  LET got  == man_pipe[l]
      last == IF Len(got) > 1 THEN got[2] ELSE manager[l].last
      none == manager[l].boxes = <<>> /\ got[1] = NoName /\ last = 1
  IN /\ manager[l].step = "reading" /\ got # <<>>
     /\ man_pipe' = [man_pipe EXCEPT ![l] = SubSeq(got, 3, Len(got))]
     /\ manager' = [manager EXCEPT ![l] =
                     [step  |-> IF last = 1 THEN "stopped" ELSE "reading",
                      last  |-> last,
                      boxes |-> IF none THEN <<>> ELSE Append(@.boxes, got[1])]]
     /\ UNCHANGED <<array, session, exited, history>>

\* Nothing will come any more, and no box was marked: the manager adds the same
\* box to its array until it runs off its end.
ReadNothing(l) ==
  /\ exited /\ manager[l].step = "reading" /\ man_pipe[l] = <<>>
  /\ session[l].step # "none"
  /\ manager' = [manager EXCEPT ![l].step = "crashed"]
  /\ UNCHANGED <<array, session, man_pipe, exited, history>>

ManagerStep(l) == ReadBox(l) \/ ReadNothing(l)

-----------------------------------------------------------------------------
ListNext ==
  \/ AddBox
  \/ \E i \in Indices : DeleteFind(i)
  \/ DeleteStep
  \/ \E l \in Listers : ListStart(l) \/ ListStep(l) \/ ManagerStep(l)

\* Threads run, mutex is granted in the end, and a manager that has asked reads.
ListSpec ==
  /\ ListInit /\ [][ListNext]_listVars
  /\ WF_listVars(DeleteStep)
  /\ \A l \in Listers : SF_listVars(ListStep(l)) /\ WF_listVars(ManagerStep(l))
-----------------------------------------------------------------------------
\* How many boxes the pipe holds, and that those there were at first fit in it.
Capacity == PipeSize \div 2
Fits(l)  == Len(before[l]) <= Capacity

\* A listing that nothing overlaps, of boxes that fit in the pipe, shows each box
\* once, in its order, and no other, and leaves no mark that would cut a later
\* listing, of more or fewer boxes, short.
ListedExactly ==
  calm => \A l \in Listers :
            manager[l].step = "stopped" /\ Fits(l) => manager[l].boxes = before[l]

\* Boxes that are created, and other listings, while a listing is under way may
\* cut it short, but what it has shown are the first boxes, in their order.
ListedInOrder ==
  removals = 0 /\ n_boxes <= Capacity =>
    \A l \in Listers :
      LET shown == manager[l].boxes
      IN Len(shown) <= n_boxes /\ shown = SubSeq(Listed, 1, Len(shown))

\* Listings that nothing overlaps, of boxes that fit in the pipe, do not end the
\* broker.
CalmNeverExits == calm /\ (\A l \in Listers : Fits(l)) => ~exited

\* No listing is under way, or the broker is no more.
ListingsOver == Active = {} \/ exited

\* The managers of listings that nothing overlapped, of boxes that fit in the pipe,
\* have found the mark.
ManagersStopped ==
  calm => \A l \in Listers :
            session[l].step = "done" /\ Fits(l) => manager[l].step = "stopped"

\* Whatever is created, listed and removed meanwhile, listings end and give their
\* slots back, or the broker is no more; and the manager of a listing that nothing
\* overlapped, of boxes that fit in the pipe, does not wait for ever.
ListingsEnd == []<>(ListingsOver /\ ManagersStopped)
=============================================================================

--------------------------- MODULE Listing_proof ---------------------------
(***************************************************************************)
(* What a manager is shown, for any number of boxes and listings, any size *)
(* of the pipe, and any number of removals one after the other.  One       *)
(* operator, Progress, says how far a listing has got: what the manager    *)
(* has shown, what is in its pipe and what the session is about to send    *)
(* are, one after the other, the first boxes of a sequence.  While there   *)
(* are only creations, the sequence is the array; while a listing is left  *)
(* alone, it is the array as it was when the listing began, and the marks  *)
(* are where they should be.                                               *)
(***************************************************************************)
EXTENDS Listing, SequenceTheorems, TLAPS

\* A box of the array has a name, and so have the one that is being removed and
\* those that there were when a listing began.
BoxesNamed ==
  /\ \A i \in 0..(n_boxes - 1) : boxes[i].box_name \in Names
  /\ deletion.step = "otherName" => deletion.name \in Names
  /\ before \in [Listers -> Seq(Names)]

\* Nothing has happened to a listing that has not begun.
NotBegun ==
  \A l \in Listers : session[l].step = "none" =>
    /\ session[l].i = 0 /\ man_pipe[l] = <<>>
    /\ manager[l].boxes = <<>> /\ manager[l].step = "reading"
    /\ before[l] = <<>>

\* The manager has the first boxes of b, and the pipe those after them, up to the
\* one the session is at.
Progress(l, b) ==
  LET i == session[l].i
      j == Len(manager[l].boxes)
  IN /\ j <= i /\ i <= Len(b)
     /\ session[l].step # "send"
     /\ session[l].step = "copyLast" => i < Len(b) /\ session[l].out = <<b[i + 1]>>
     /\ Len(man_pipe[l]) = 2 * (i - j)
     /\ \A m \in 1..(i - j) : man_pipe[l][2 * m - 1] = b[j + m]
     /\ \A m \in 1..j : manager[l].boxes[m] = b[m]

\* The listing of an empty array.
NothingToList(l) ==
  /\ session[l].step \in {"none", "done"}
  /\ manager[l].boxes = <<>> /\ man_pipe[l] \in {<<>>, <<NoName, 1>>}

\* As long as no box was removed, listings go through the array in its order.
GoesInOrder ==
  removals = 0 =>
    /\ deletion.step = "none"
    /\ n_boxes <= Capacity => \A l \in Listers : NothingToList(l) \/ Progress(l, Listed)

\* The array is marked.
Marking == \E l \in Listers : session[l].step \in {"next", "copyLast", "send", "unmark"}

\* The box in the pipe that is the last of b is marked, and no other.
Marked(l, b) ==
  LET i == session[l].i
      j == Len(manager[l].boxes)
  IN \A m \in 1..(i - j) : man_pipe[l][2 * m] = IF j + m = Len(b) THEN 1 ELSE 0

\* What a calm listing sends and what its manager has is all of what there was.
Exact(l) ==
  IF before[l] = <<>> THEN NothingToList(l)
  ELSE /\ Progress(l, before[l])
       /\ Marked(l, before[l])
       /\ manager[l].step = "stopped" => Len(manager[l].boxes) = Len(before[l])

\* At most one listing is under way, the array is as it was when it began, and the
\* last box is marked and no other.
Undisturbed ==
  /\ \A l, m \in Active : l = m
  /\ Active # {} => deletion.step = "none" /\ n_boxes > 0
  /\ deletion.last = 0
  /\ \A i \in 0..(n_boxes - 1) :
       boxes[i].last = IF i = n_boxes - 1 /\ Marking THEN 1 ELSE 0
  /\ \A l \in Active : before[l] = Listed
  /\ \A l \in Listers : Fits(l) => Exact(l)
  /\ (\A l \in Listers : Fits(l)) => ~exited

Quiet == calm => Undisturbed

\* The type of deletion.
Deletions ==
  [step : {"none", "lock", "otherName", "last", "otherLast", "end"},
   i : 0..MaxBoxes, name : Names \cup {NoName}, last : {0, 1}]

IInv ==
  /\ ListTypeOK
  /\ BoxesNamed
  /\ NotBegun
  /\ GoesInOrder
  /\ Quiet
-----------------------------------------------------------------------------
(* Types.                                                                  *)

LEMMA Sizes ==
  /\ MaxBoxes \in Nat /\ PipeSize \in Nat /\ PipeSize >= 2
  /\ Capacity \in Nat /\ 2 * Capacity <= PipeSize
  /\ Len(Created) \in Nat /\ \A k \in 1..Len(Created) : Created[k] \in Names
  /\ NoName \notin Names /\ Deleter # Nobody
BY ListAssumption DEF Capacity, Names

\* A write leaves in the pipe no more than it holds, and what it leaves unwritten
\* is less than a box.
LEMMA WriteType ==
  ASSUME ListTypeOK, NEW l \in Listers, NEW out \in Seq(Parts), Len(out) <= 2,
         session[l].i < MaxBoxes, Write(l, out)
  PROVE  /\ man_pipe' \in [Listers -> Seq(Parts)]
         /\ session' \in [Listers ->
              [step : {"none", "mark", "next", "copyLast", "send", "unmark", "done"},
               i : 0..MaxBoxes, out : Seq(Parts)]]
         /\ \A k \in Listers :
              /\ session'[k].step \in {"copyLast", "send"} => session'[k].i < MaxBoxes
              /\ session'[k].step = "copyLast" => Len(session'[k].out) = 1
              /\ Len(session'[k].out) <= 2 /\ Len(man_pipe'[k]) <= PipeSize
         /\ exited' \in BOOLEAN
<1> DEFINE room == PipeSize - Len(man_pipe[l])
           n == IF room < Len(out) THEN room ELSE Len(out)
           gone == SubSeq(out, 1, n)
           rest == SubSeq(out, n + 1, Len(out))
<1>1. CASE manager[l].step = "stopped"
  BY <1>1, Zenon DEF Write, ListTypeOK
<1>2. CASE manager[l].step # "stopped"
  <2>1. /\ man_pipe' = [man_pipe EXCEPT ![l] = @ \o gone]
        /\ session' = [session EXCEPT ![l] = Sent(@, rest)]
        /\ exited' = exited
    BY <1>2 DEF Write
  <2>2. /\ man_pipe \in [Listers -> Seq(Parts)] /\ man_pipe[l] \in Seq(Parts)
        /\ Len(man_pipe[l]) \in Nat /\ Len(man_pipe[l]) <= PipeSize /\ PipeSize \in Nat
        /\ Len(out) \in Nat /\ MaxBoxes \in Nat
    BY Sizes DEF ListTypeOK
  <2>3. n \in Nat /\ n <= Len(out) /\ n <= room
    BY <2>2
  <2>4. gone \in Seq(Parts) /\ Len(gone) = n
    BY <2>2, <2>3
  <2>5. rest \in Seq(Parts) /\ Len(rest) \in Nat /\ Len(rest) <= 2
    BY <2>2, <2>3
  <2> HIDE DEF gone, rest, n
  <2>6. man_pipe[l] \o gone \in Seq(Parts) /\ Len(man_pipe[l] \o gone) <= PipeSize
    <3>1. man_pipe[l] \o gone \in Seq(Parts) /\ Len(man_pipe[l] \o gone) = Len(man_pipe[l]) + n
      BY <2>2, <2>4, ConcatProperties
    <3> QED
      BY <2>2, <2>3, <3>1
  <2>7. /\ Sent(session[l], rest) \in
             [step : {"none", "mark", "next", "copyLast", "send", "unmark", "done"},
              i : 0..MaxBoxes, out : Seq(Parts)]
        /\ Sent(session[l], rest).step \in {"next", "send"}
        /\ Sent(session[l], rest).step = "send" => Sent(session[l], rest).i < MaxBoxes
        /\ Len(Sent(session[l], rest).out) <= 2
    <3>s. /\ session[l] \in
               [step : {"none", "mark", "next", "copyLast", "send", "unmark", "done"},
                i : 0..MaxBoxes, out : Seq(Parts)]
          /\ session[l].i < MaxBoxes
      BY DEF ListTypeOK
    <3>1. CASE rest = <<>>
      <4>1. Sent(session[l], rest) = [step |-> "next", i |-> session[l].i + 1, out |-> <<>>]
        BY <3>1 DEF Sent
      <4>2. session[l].i + 1 \in 0..MaxBoxes /\ <<>> \in Seq(Parts) /\ Len(<<>>) = 0
        BY <2>2, <3>s
      <4> QED
        BY <4>1, <4>2
    <3>2. CASE rest # <<>>
      <4>1. Sent(session[l], rest) = [session[l] EXCEPT !.step = "send", !.out = rest]
        BY <3>2 DEF Sent
      <4> QED
        BY <2>5, <3>s, <4>1
    <3> QED
      BY <3>1, <3>2
  <2>8. exited' \in BOOLEAN
    BY <2>1 DEF ListTypeOK
  <2> QED
    BY <2>1, <2>2, <2>6, <2>7, <2>8 DEF ListTypeOK
<1> QED
  BY <1>1, <1>2

LEMMA InitListType == ListInit => ListTypeOK
<1> SUFFICES ASSUME ListInit PROVE ListTypeOK
  OBVIOUS
<1>1. exited \in BOOLEAN /\ calm \in BOOLEAN
  BY Zenon DEF ListInit
<1>2. session \in [Listers ->
        [step : {"none", "mark", "next", "copyLast", "send", "unmark", "done"},
         i : 0..MaxBoxes, out : Seq(Parts)]]
  BY Sizes DEF ListInit
<1>3. manager \in [Listers ->
        [step : {"reading", "stopped", "crashed"}, last : Parts, boxes : Seq(Parts)]]
  BY DEF ListInit, Parts
<1>4. boxes \in [Indices -> Box] /\ n_boxes \in 0..MaxBoxes
  BY Sizes DEF ListInit, Box
<1>5. /\ mutex = IF deletion.step \in {"none", "lock"} THEN Nobody ELSE Deleter
      /\ deletion \in Deletions /\ deletion.step = "none"
  BY Sizes DEF ListInit, NotDeleting, Deletions
<1>6. created \in 0..Len(Created) /\ removals \in 0..MaxRemovals
  BY ListAssumption DEF ListInit
<1>7. man_pipe \in [Listers -> Seq(Parts)] /\ before \in [Listers -> Seq(Names \cup {NoName})]
  BY DEF ListInit
<1>8. \A l \in Listers : /\ session[l].step = "none" /\ Len(session[l].out) = 0
                         /\ Len(man_pipe[l]) = 0
  BY DEF ListInit
<1> QED
  BY <1>1, <1>2, <1>3, <1>4, <1>5, <1>6, <1>7, <1>8, Sizes DEF ListTypeOK, Deletions

\* The history variables keep their types whatever is observed.
LEMMA ObserveType ==
  ASSUME NEW undisturbed \in BOOLEAN, NEW now \in [Listers -> Seq(Names \cup {NoName})],
         calm \in BOOLEAN, Observe(undisturbed, now)
  PROVE  calm' \in BOOLEAN /\ before' \in [Listers -> Seq(Names \cup {NoName})]
<1>1. calm' \in BOOLEAN
  BY DEF Observe
<1>2. [l \in Listers |-> <<>>] \in [Listers -> Seq(Names \cup {NoName})]
  OBVIOUS
<1> QED
  BY <1>1, <1>2 DEF Observe
LEMMA ListedType ==
  ASSUME ListTypeOK
  PROVE  Listed \in Seq(Names \cup {NoName}) /\ Len(Listed) = n_boxes
<1>1. n_boxes \in Nat /\ n_boxes <= MaxBoxes /\ MaxBoxes \in Nat
  BY Sizes DEF ListTypeOK
<1>2. \A k \in 1..n_boxes : boxes[k - 1].box_name \in Names \cup {NoName}
  <2> SUFFICES ASSUME NEW k \in 1..n_boxes PROVE boxes[k - 1].box_name \in Names \cup {NoName}
    OBVIOUS
  <2>1. k - 1 \in Indices
    BY <1>1 DEF Indices
  <2> QED
    BY <2>1 DEF ListTypeOK, Box
<1> QED
  BY <1>1, <1>2 DEF Listed

\* What a step of a removal leaves alone.
LEMMA DeletionFrame ==
  ASSUME DeleteStep
  PROVE  /\ UNCHANGED <<created, removals, listings, exited, history>>
         /\ ~exited /\ deletion.step # "none"
BY DEF DeleteStep, DeleteLock, SwapName, SwapLast, SwapOtherLast, DeleteEnd, DeleteGoto

\* The two boxes of a swap.
LEMMA SwapIndices ==
  ASSUME ListTypeOK, deletion.step # "none"
  PROVE  /\ deletion.i \in Indices /\ n_boxes - 1 \in Indices
         /\ deletion.i \in 0..(n_boxes - 1) /\ n_boxes - 1 \in 0..(n_boxes - 1)
         /\ \A i \in 0..(n_boxes - 1) : i \in Indices
BY Sizes DEF ListTypeOK, Indices

LEMMA ArrayStepType ==
  ASSUME ListTypeOK, AddBox \/ (\E i \in Indices : DeleteFind(i)) \/ DeleteStep
  PROVE  ListTypeOK'
<1> USE Sizes
<1>1. UNCHANGED <<listings, exited>>
  BY DeletionFrame DEF AddBox, DeleteFind
<1>2. /\ session' \in [Listers ->
           [step : {"none", "mark", "next", "copyLast", "send", "unmark", "done"},
            i : 0..MaxBoxes, out : Seq(Parts)]]
      /\ man_pipe' \in [Listers -> Seq(Parts)]
      /\ manager' \in [Listers ->
           [step : {"reading", "stopped", "crashed"}, last : Parts, boxes : Seq(Parts)]]
      /\ \A l \in Listers :
           /\ session'[l].step \in {"copyLast", "send"} => session'[l].i < MaxBoxes
           /\ session'[l].step = "copyLast" => Len(session'[l].out) = 1
           /\ Len(session'[l].out) <= 2 /\ Len(man_pipe'[l]) <= PipeSize
      /\ exited' \in BOOLEAN
  BY <1>1 DEF listings, ListTypeOK
<1>3. calm \in BOOLEAN /\ before \in [Listers -> Seq(Names \cup {NoName})]
  BY DEF ListTypeOK
<1>4. /\ n_boxes \in Nat /\ n_boxes <= MaxBoxes
      /\ boxes \in [Indices -> Box] /\ created \in Nat /\ created <= Len(Created)
      /\ deletion \in Deletions
  BY DEF ListTypeOK, Deletions
<1>5. CASE AddBox
  <2>1. PICK last \in {0, 1} :
           /\ boxes' = [boxes EXCEPT ![n_boxes] = [box_name |-> Created[created + 1], last |-> last]]
           /\ Observe(Active = {} /\ last = 0, before)
    BY <1>5 DEF AddBox
  <2>2. /\ n_boxes < MaxBoxes /\ n_boxes' = n_boxes + 1
        /\ created < Len(Created) /\ created' = created + 1 /\ mutex = Nobody
        /\ UNCHANGED <<mutex, deletion, removals>>
    BY <1>5 DEF AddBox
  <2>3. Created[created + 1] \in Names
    <3>1. created + 1 \in 1..Len(Created)
      BY <1>4, <2>2
    <3> QED
      BY <3>1
  <2>4. boxes' \in [Indices -> Box]
    BY <1>4, <2>1, <2>3 DEF Box
  <2>5. calm' \in BOOLEAN /\ before' \in [Listers -> Seq(Names \cup {NoName})]
    BY <1>3, <2>1, ObserveType
  <2>6. deletion.step # "none" => deletion.i < n_boxes'
    BY <1>4, <2>2 DEF ListTypeOK
  <2> QED
    BY <1>2, <1>4, <2>2, <2>4, <2>5, <2>6 DEF ListTypeOK, Deletions
<1>6. ASSUME NEW i \in Indices, DeleteFind(i) PROVE ListTypeOK'
  <2>1. /\ mutex = Nobody /\ i < n_boxes /\ removals < MaxRemovals
        /\ removals' = removals + 1
        /\ deletion' = [NotDeleting EXCEPT !.step = "lock", !.i = i]
        /\ Observe(Active = {}, before)
        /\ UNCHANGED <<boxes, n_boxes, mutex, created>>
    BY <1>6 DEF DeleteFind
  <2>2. /\ deletion' \in Deletions /\ deletion'.step = "lock" /\ deletion'.i = i
    <3>1. i \in 0..MaxBoxes
      BY <1>4, <2>1 DEF Indices
    <3> QED
      BY <2>1, <3>1 DEF Deletions, NotDeleting
  <2>3. calm' \in BOOLEAN /\ before' \in [Listers -> Seq(Names \cup {NoName})]
    BY <1>3, <2>1, ObserveType
  <2>4. removals' \in 0..MaxRemovals
    BY <2>1, ListAssumption DEF ListTypeOK
  <2> QED
    BY <1>2, <1>4, <2>1, <2>2, <2>3, <2>4 DEF ListTypeOK, Deletions
<1>7. ASSUME DeleteStep PROVE ListTypeOK'
  <2>1. /\ deletion.step # "none" /\ UNCHANGED <<created, removals>>
        /\ calm' \in BOOLEAN /\ before' \in [Listers -> Seq(Names \cup {NoName})]
    BY <1>3, <1>7, DeletionFrame DEF history
  <2>2. /\ deletion.i \in Indices /\ n_boxes - 1 \in Indices /\ deletion.i < n_boxes
        /\ boxes[deletion.i] \in Box /\ boxes[n_boxes - 1] \in Box
        /\ n_boxes - 1 \in 0..MaxBoxes
    BY <1>4, <2>1, SwapIndices
  <2>3. /\ removals \in 0..MaxRemovals /\ created \in 0..Len(Created)
        /\ mutex = IF deletion.step \in {"none", "lock"} THEN Nobody ELSE Deleter
    BY DEF ListTypeOK
  <2>4. CASE DeleteLock
    <3>1. boxes' \in [Indices -> Box]
      BY <1>4, <2>2, <2>4 DEF DeleteLock, Box
    <3>2. deletion' \in Deletions /\ deletion'.step = "otherName" /\ deletion'.i = deletion.i
      BY <1>4, <2>2, <2>4 DEF DeleteLock, DeleteGoto, Deletions, Box
    <3>3. n_boxes' = n_boxes /\ mutex' = Deleter
      BY <2>4 DEF DeleteLock
    <3> QED
      BY <1>2, <1>4, <2>1, <2>2, <2>3, <3>1, <3>2, <3>3 DEF ListTypeOK, Deletions
  <2>5. CASE SwapName
    <3>1. boxes' \in [Indices -> Box]
      BY <1>4, <2>2, <2>5 DEF SwapName, Box, Deletions
    <3>2. deletion' \in Deletions /\ deletion'.step = "last" /\ deletion'.i = deletion.i
      BY <1>4, <2>5 DEF SwapName, DeleteGoto, Deletions
    <3>3. n_boxes' = n_boxes /\ mutex' = mutex /\ deletion.step = "otherName"
      BY <2>5 DEF SwapName, DeleteGoto
    <3> QED
      BY <1>2, <1>4, <2>1, <2>2, <2>3, <3>1, <3>2, <3>3 DEF ListTypeOK, Deletions
  <2>6. CASE SwapLast
    <3>1. boxes' \in [Indices -> Box]
      BY <1>4, <2>2, <2>6 DEF SwapLast, Box
    <3>2. deletion' \in Deletions /\ deletion'.step = "otherLast" /\ deletion'.i = deletion.i
      BY <1>4, <2>2, <2>6 DEF SwapLast, DeleteGoto, Deletions, Box
    <3>3. n_boxes' = n_boxes /\ mutex' = mutex /\ deletion.step = "last"
      BY <2>6 DEF SwapLast, DeleteGoto
    <3> QED
      BY <1>2, <1>4, <2>1, <2>2, <2>3, <3>1, <3>2, <3>3 DEF ListTypeOK, Deletions
  <2>7. CASE SwapOtherLast
    <3>1. boxes' \in [Indices -> Box]
      BY <1>4, <2>2, <2>7 DEF SwapOtherLast, Box, Deletions
    <3>2. deletion' \in Deletions /\ deletion'.step = "end" /\ deletion'.i = deletion.i
      BY <1>4, <2>7 DEF SwapOtherLast, DeleteGoto, Deletions
    <3>3. n_boxes' = n_boxes /\ mutex' = mutex /\ deletion.step = "otherLast"
      BY <2>7 DEF SwapOtherLast, DeleteGoto
    <3> QED
      BY <1>2, <1>4, <2>1, <2>2, <2>3, <3>1, <3>2, <3>3 DEF ListTypeOK, Deletions
  <2>8. CASE DeleteEnd
    <3>1. deletion' \in Deletions /\ deletion'.step = "none"
      BY <2>8 DEF DeleteEnd, NotDeleting, Deletions
    <3>2. boxes' = boxes /\ n_boxes' = n_boxes - 1 /\ mutex' = Nobody
      BY <2>8 DEF DeleteEnd
    <3> QED
      BY <1>2, <1>4, <2>1, <2>2, <2>3, <3>1, <3>2 DEF ListTypeOK, Deletions
  <2> QED
    BY <1>7, <2>4, <2>5, <2>6, <2>7, <2>8 DEF DeleteStep
<1> QED
  BY <1>5, <1>6, <1>7

\* What a step of a listing does to the array: it writes last of the box that is
\* last, or nothing.
LEMMA SetLastType ==
  ASSUME ListTypeOK, NEW last \in {0, 1}, SetLast(last)
  PROVE  /\ boxes' \in [Indices -> Box] /\ exited' \in BOOLEAN
         /\ \A i \in Indices : boxes'[i].box_name = boxes[i].box_name
         /\ n_boxes # 0 =>
              /\ exited' = exited /\ n_boxes - 1 \in Indices
              /\ \A i \in Indices :
                   boxes'[i].last = IF i = n_boxes - 1 THEN last ELSE boxes[i].last
<1>1. CASE n_boxes = 0
  <2>1. exited' \in BOOLEAN
    BY <1>1, Zenon DEF SetLast
  <2>2. boxes' = boxes
    BY <1>1 DEF SetLast
  <2> QED
    BY <1>1, <2>1, <2>2 DEF ListTypeOK
<1>2. CASE n_boxes # 0
  <2>1. n_boxes - 1 \in Indices
    BY <1>2, Sizes DEF ListTypeOK, Indices
  <2>2. boxes' = [boxes EXCEPT ![n_boxes - 1].last = last] /\ exited' = exited
    BY <1>2 DEF SetLast
  <2>3. boxes \in [Indices -> Box] /\ exited \in BOOLEAN
    BY DEF ListTypeOK
  <2> QED
    BY <1>2, <2>1, <2>2, <2>3 DEF Box
<1> QED
  BY <1>1, <1>2

\* What a session copies of a box, and the box as it is written.
LEMMA OnePart ==
  ASSUME NEW S, NEW x \in S
  PROVE  <<x>> \in Seq(S) /\ Len(<<x>>) = 1
OBVIOUS

LEMMA Appended ==
  ASSUME NEW S, NEW s \in Seq(S), NEW x \in S
  PROVE  /\ Append(s, x) \in Seq(S) /\ Len(Append(s, x)) = Len(s) + 1
         /\ \A i \in 1..Len(s) : Append(s, x)[i] = s[i]
         /\ Append(s, x)[Len(s) + 1] = x
BY AppendProperties

LEMMA TwoParts ==
  ASSUME NEW S, NEW name \in Seq(S), Len(name) = 1, NEW x \in S
  PROVE  /\ Append(name, x) \in Seq(S) /\ Len(Append(name, x)) = 2
         /\ Append(name, x)[1] = name[1] /\ Append(name, x)[2] = x
<1>1. /\ Append(name, x) \in Seq(S) /\ Len(Append(name, x)) = Len(name) + 1
      /\ \A i \in 1..Len(name) : Append(name, x)[i] = name[i]
      /\ Append(name, x)[Len(name) + 1] = x
  BY Appended, Zenon
<1>2. 1 \in 1..Len(name) /\ Len(name) + 1 = 2
  OBVIOUS
<1> QED
  BY <1>1, <1>2

\* A session moves to r, and its pipe holds p.
LEMMA SessionMoveType ==
  ASSUME ListTypeOK, NEW l \in Listers,
         NEW r \in [step : {"none", "mark", "next", "copyLast", "send", "unmark", "done"},
                   i : 0..MaxBoxes, out : Seq(Parts)],
         r.step \in {"copyLast", "send"} => r.i < MaxBoxes,
         r.step = "copyLast" => Len(r.out) = 1,
         Len(r.out) <= 2,
         NEW p \in Seq(Parts), Len(p) <= PipeSize,
         session' = [session EXCEPT ![l] = r], man_pipe' = [man_pipe EXCEPT ![l] = p],
         UNCHANGED <<array, manager, exited>>,
         calm' \in BOOLEAN, before' \in [Listers -> Seq(Names \cup {NoName})]
  PROVE  ListTypeOK'
BY DEF array, ListTypeOK

LEMMA ListingStepType ==
  ASSUME ListTypeOK, NEW l \in Listers, ListStart(l) \/ ListStep(l) \/ ManagerStep(l)
  PROVE  ListTypeOK'
<1> USE Sizes
<1>1. CASE ListStart(l)
  <2>1. calm' \in BOOLEAN /\ before' \in [Listers -> Seq(Names \cup {NoName})]
    <3>1. [before EXCEPT ![l] = Listed] \in [Listers -> Seq(Names \cup {NoName})]
      BY ListedType DEF ListTypeOK
    <3>2. calm \in BOOLEAN
      BY DEF ListTypeOK
    <3> QED
      BY <1>1, <3>1, <3>2, ObserveType DEF ListStart
  <2>2. CASE n_boxes = 0
    <3>1. <<NoName, 1>> \in Seq(Parts) /\ Len(<<NoName, 1>>) = 2
      BY DEF Parts
    <3>2. PICK r : r = [session[l] EXCEPT !.step = "done"]
      OBVIOUS
    <3>3. /\ session' = [session EXCEPT ![l] = r]
          /\ man_pipe' = [man_pipe EXCEPT ![l] = <<NoName, 1>>]
          /\ UNCHANGED <<array, manager, exited>>
      BY <1>1, <2>2, <3>2 DEF ListStart
    <3>4. /\ r \in [step : {"none", "mark", "next", "copyLast", "send", "unmark", "done"},
                    i : 0..MaxBoxes, out : Seq(Parts)]
          /\ r.step = "done" /\ Len(r.out) <= 2
      BY <3>2 DEF ListTypeOK
    <3> QED
      BY <2>1, <3>1, <3>3, <3>4, SessionMoveType
  <2>3. CASE n_boxes # 0
    <3>1. PICK r : r = [session[l] EXCEPT !.step = "mark"]
      OBVIOUS
    <3>2. /\ session' = [session EXCEPT ![l] = r]
          /\ man_pipe' = [man_pipe EXCEPT ![l] = man_pipe[l]]
          /\ UNCHANGED <<array, manager, exited>>
      BY <1>1, <2>3, <3>1 DEF ListStart, ListTypeOK
    <3>3. /\ r \in [step : {"none", "mark", "next", "copyLast", "send", "unmark", "done"},
                    i : 0..MaxBoxes, out : Seq(Parts)]
          /\ r.step = "mark" /\ Len(r.out) <= 2
          /\ man_pipe[l] \in Seq(Parts) /\ Len(man_pipe[l]) <= PipeSize
      BY <3>1 DEF ListTypeOK
    <3> QED
      BY <2>1, <3>2, <3>3, SessionMoveType
  <2> QED
    BY <2>2, <2>3
<1>2. CASE Mark(l)
  <2>1. boxes' \in [Indices -> Box] /\ exited' \in BOOLEAN
    BY <1>2, SetLastType DEF Mark
  <2> QED
    BY <1>2, <2>1 DEF Mark, SessionGoto, history, ListTypeOK
<1>3. CASE Next(l)
  <2>1. CASE session[l].i < n_boxes
    <3>1. boxes[session[l].i].box_name \in Parts
      <4>1. session[l].i \in Indices
        BY <2>1 DEF ListTypeOK, Indices
      <4> QED
        BY <4>1 DEF ListTypeOK, Box, Parts
    <3>2. PICK name \in Seq(Parts) : /\ name = <<boxes[session[l].i].box_name>>
                                     /\ Len(name) = 1
      BY <3>1, OnePart
    <3>3. PICK r : r = [session[l] EXCEPT !.step = "copyLast", !.out = name]
      OBVIOUS
    <3>4. /\ session' = [session EXCEPT ![l] = r]
          /\ man_pipe' = [man_pipe EXCEPT ![l] = man_pipe[l]]
          /\ UNCHANGED <<array, manager, exited, history>>
      BY <1>3, <2>1, <3>2, <3>3 DEF Next, ListTypeOK
    <3>7. session[l].i \in 0..MaxBoxes /\ session[l].i < MaxBoxes
      BY <2>1 DEF ListTypeOK
    <3>8. session[l] \in [step : {"none", "mark", "next", "copyLast", "send", "unmark", "done"},
                          i : 0..MaxBoxes, out : Seq(Parts)]
      BY DEF ListTypeOK
    <3>9. r.step = "copyLast" /\ r.out = name /\ r.i = session[l].i
      BY <3>3, <3>8
    <3>5. /\ r \in [step : {"none", "mark", "next", "copyLast", "send", "unmark", "done"},
                    i : 0..MaxBoxes, out : Seq(Parts)]
          /\ r.step = "copyLast" /\ Len(r.out) = 1 /\ Len(r.out) <= 2 /\ r.i < MaxBoxes
          /\ man_pipe[l] \in Seq(Parts) /\ Len(man_pipe[l]) <= PipeSize
      <4>1. Len(r.out) = 1 /\ Len(r.out) <= 2 /\ r.i < MaxBoxes
        BY <3>2, <3>7, <3>9
      <4>2. r \in [step : {"none", "mark", "next", "copyLast", "send", "unmark", "done"},
                  i : 0..MaxBoxes, out : Seq(Parts)]
        BY <3>3, <3>8
      <4> QED
        BY <3>9, <4>1, <4>2 DEF ListTypeOK
    <3>6. calm' \in BOOLEAN /\ before' \in [Listers -> Seq(Names \cup {NoName})]
      BY <3>4 DEF history, ListTypeOK
    <3> QED
      BY <3>4, <3>5, <3>6, SessionMoveType
  <2>2. CASE ~(session[l].i < n_boxes)
    <3>1. PICK r : r = [session[l] EXCEPT !.step = "unmark"]
      OBVIOUS
    <3>2. /\ session' = [session EXCEPT ![l] = r]
          /\ man_pipe' = [man_pipe EXCEPT ![l] = man_pipe[l]]
          /\ UNCHANGED <<array, manager, exited, history>>
      BY <1>3, <2>2, <3>1 DEF Next, ListTypeOK
    <3>3. /\ r \in [step : {"none", "mark", "next", "copyLast", "send", "unmark", "done"},
                    i : 0..MaxBoxes, out : Seq(Parts)]
          /\ r.step = "unmark" /\ Len(r.out) <= 2
          /\ man_pipe[l] \in Seq(Parts) /\ Len(man_pipe[l]) <= PipeSize
      BY <3>1 DEF ListTypeOK
    <3>4. calm' \in BOOLEAN /\ before' \in [Listers -> Seq(Names \cup {NoName})]
      BY <3>2 DEF history, ListTypeOK
    <3> QED
      BY <3>2, <3>3, <3>4, SessionMoveType
  <2> QED
    BY <2>1, <2>2
<1>4. CASE Send(l) \/ SendRest(l)
  <2>1. PICK out \in Seq(Parts) : Len(out) <= 2 /\ session[l].i < MaxBoxes /\ Write(l, out)
    <3>1. CASE SendRest(l)
      BY <3>1 DEF SendRest, ListTypeOK
    <3>2. CASE Send(l)
      <4>p. PICK last : last = boxes[session[l].i].last
        OBVIOUS
      <4>o. PICK out : out = session[l].out
        OBVIOUS
      <4>1. session[l].i \in Indices
        BY <3>2 DEF Send, ListTypeOK, Indices
      <4>2. last \in Parts
        BY <4>p, <4>1 DEF ListTypeOK, Box, Parts
      <4>3. out \in Seq(Parts) /\ Len(out) = 1
        BY <3>2, <4>o DEF Send, ListTypeOK
      <4>4. Append(out, last) \in Seq(Parts) /\ Len(Append(out, last)) = 2
        BY <4>2, <4>3, TwoParts
      <4>5. session[l].i < MaxBoxes
        BY <3>2 DEF Send, ListTypeOK
      <4>6. Write(l, Append(out, last))
        BY <3>2, <4>p, <4>o DEF Send
      <4>7. Len(Append(out, last)) <= 2
        BY <4>4
      <4> QED
        BY <4>4, <4>5, <4>6, <4>7
    <3> QED
      BY <1>4, <3>1, <3>2
  <2>2. UNCHANGED <<array, manager, history>>
    BY <1>4 DEF Send, SendRest
  <2> QED
    BY <2>1, <2>2, WriteType DEF array, history, ListTypeOK
<1>5. CASE Unmark(l)
  <2>1. boxes' \in [Indices -> Box] /\ exited' \in BOOLEAN
    BY <1>5, SetLastType DEF Unmark
  <2> QED
    BY <1>5, <2>1 DEF Unmark, SessionGoto, history, ListTypeOK
<1>6. CASE ReadBox(l)
  <2> DEFINE got == man_pipe[l]
             last == IF Len(got) > 1 THEN got[2] ELSE manager[l].last
             rest == SubSeq(got, 3, Len(got))
  <2>1. got \in Seq(Parts) /\ got # <<>> /\ Len(got) <= PipeSize /\ PipeSize \in Nat
    BY <1>6 DEF ReadBox, ListTypeOK
  <2>2. last \in Parts /\ got[1] \in Parts
    BY <2>1 DEF ListTypeOK
  <2>3. rest \in Seq(Parts) /\ Len(rest) <= PipeSize
    <3>1. \A k \in 3..Len(got) : got[k] \in Parts
      BY <2>1
    <3>2. Len(got) \in Nat
      BY <2>1
    <3>3. rest \in Seq(Parts) /\ Len(rest) = IF 3 <= Len(got) THEN Len(got) - 3 + 1 ELSE 0
      BY <3>1, <3>2, SubSeqProperties
    <3> QED
      BY <2>1, <3>2, <3>3
  <2>4. PICK more \in Seq(Parts) :
           manager' = [manager EXCEPT ![l] =
                        [step |-> IF last = 1 THEN "stopped" ELSE "reading",
                         last |-> last, boxes |-> more]]
    <3>1. manager[l].boxes \in Seq(Parts) /\ Append(manager[l].boxes, got[1]) \in Seq(Parts)
      BY <2>2 DEF ListTypeOK
    <3> QED
      BY <1>6, <3>1 DEF ReadBox, ListTypeOK
  <2>5. man_pipe' = [man_pipe EXCEPT ![l] = rest] /\ UNCHANGED <<array, session, exited, history>>
    BY <1>6 DEF ReadBox
  <2> HIDE DEF got, last, rest
  <2> QED
    BY <2>2, <2>3, <2>4, <2>5 DEF array, history, ListTypeOK
<1>7. CASE ReadNothing(l)
  BY <1>7 DEF ReadNothing, array, history, ListTypeOK
<1> QED
  BY <1>1, <1>2, <1>3, <1>4, <1>5, <1>6, <1>7 DEF ListStep, ManagerStep
-----------------------------------------------------------------------------
(* The array, and listings that have not begun.                            *)

\* A listing writes last of a box and nothing else of the array.
LEMMA ListingKeepsArray ==
  ASSUME ListTypeOK, NEW l \in Listers, ListStart(l) \/ ListStep(l) \/ ManagerStep(l)
  PROVE  /\ UNCHANGED <<n_boxes, mutex, deletion, created, removals>>
         /\ \A i \in Indices : boxes'[i].box_name = boxes[i].box_name
         /\ Listed' = Listed
<1>1. UNCHANGED <<n_boxes, mutex, deletion, created, removals>>
  BY DEF ListStart, ListStep, ManagerStep, Mark, Next, Send, SendRest, Unmark, ReadBox,
         ReadNothing, array
<1>2. \A i \in Indices : boxes'[i].box_name = boxes[i].box_name
  <2>1. CASE Mark(l) \/ Unmark(l)
    BY <2>1, SetLastType DEF Mark, Unmark
  <2>2. CASE ~Mark(l) /\ ~Unmark(l)
    BY <2>2 DEF ListStart, ListStep, ManagerStep, Next, Send, SendRest, ReadBox, ReadNothing, array
  <2> QED
    BY <2>1, <2>2
<1>3. \A k \in 1..n_boxes : k - 1 \in Indices
  BY Sizes DEF ListTypeOK, Indices
<1>4. Listed' = Listed
  BY <1>1, <1>2, <1>3 DEF Listed
<1> QED
  BY <1>1, <1>2, <1>4

LEMMA NamesListed ==
  ASSUME ListTypeOK, BoxesNamed
  PROVE  /\ Listed \in Seq(Names) /\ Len(Listed) = n_boxes
         /\ \A i \in 0..(n_boxes - 1) : i \in Indices /\ Listed[i + 1] = boxes[i].box_name
<1>1. n_boxes \in Nat /\ n_boxes <= MaxBoxes /\ MaxBoxes \in Nat
  BY Sizes DEF ListTypeOK
<1>2. \A k \in 1..n_boxes : boxes[k - 1].box_name \in Names
  BY <1>1 DEF BoxesNamed
<1>3. \A i \in 0..(n_boxes - 1) : i \in Indices /\ Listed[i + 1] = boxes[i].box_name
  BY <1>1 DEF Indices, Listed
<1> QED
  BY <1>1, <1>2, <1>3 DEF Listed

LEMMA StepNamed ==
  ASSUME ListTypeOK, BoxesNamed, ListNext
  PROVE  BoxesNamed'
<1>1. /\ n_boxes \in Nat /\ n_boxes <= MaxBoxes /\ MaxBoxes \in Nat
      /\ boxes \in [Indices -> Box]
  BY Sizes DEF ListTypeOK
<1>2. \A i \in 0..(n_boxes - 1) : i \in Indices
  BY <1>1 DEF Indices
<1>8. Listed \in Seq(Names)
  BY NamesListed
<1>9. before' \in [Listers -> Seq(Names)]
  <2>1. [l \in Listers |-> <<>>] \in [Listers -> Seq(Names)] /\ before \in [Listers -> Seq(Names)]
    BY DEF BoxesNamed
  <2>2. ASSUME NEW l \in Listers, ListStart(l) PROVE before' \in [Listers -> Seq(Names)]
    <3>1. [before EXCEPT ![l] = Listed] \in [Listers -> Seq(Names)]
      BY <1>8, <2>1
    <3> QED
      BY <2>1, <2>2, <3>1 DEF ListStart, Observe
  <2>3. ASSUME NEW l \in Listers, ListStep(l) \/ ManagerStep(l) PROVE before' = before
    BY <2>3 DEF ListStep, ManagerStep, Mark, Next, Send, SendRest, Unmark, ReadBox, ReadNothing, history
  <2>4. CASE AddBox \/ (\E i \in Indices : DeleteFind(i)) \/ DeleteStep
    BY <2>1, <2>4, DeletionFrame DEF AddBox, DeleteFind, Observe, history
  <2> QED
    BY <2>1, <2>2, <2>3, <2>4 DEF ListNext
<1>3. CASE AddBox
  <2>1. PICK last \in {0, 1} :
          boxes' = [boxes EXCEPT ![n_boxes] = [box_name |-> Created[created + 1], last |-> last]]
    BY <1>3 DEF AddBox
  <2>2. /\ n_boxes \in Indices /\ n_boxes' = n_boxes + 1 /\ deletion' = deletion
        /\ created + 1 \in 1..Len(Created)
    BY <1>1, <1>3, Sizes DEF AddBox, Indices, ListTypeOK
  <2>3. boxes'[n_boxes].box_name \in Names
    BY <1>1, <2>1, <2>2, Sizes
  <2>4. \A i \in 0..(n_boxes - 1) : boxes'[i] = boxes[i]
    BY <1>1, <1>2, <2>1
  <2>5. \A i \in 0..(n_boxes' - 1) : i \in 0..(n_boxes - 1) \/ i = n_boxes
    BY <1>1, <2>2
  <2> QED
    BY <2>2, <2>3, <2>4, <2>5, <1>9 DEF BoxesNamed
<1>4. ASSUME NEW i \in Indices, DeleteFind(i) PROVE BoxesNamed'
  <2>1. UNCHANGED <<boxes, n_boxes>> /\ deletion'.step = "lock"
    BY <1>4 DEF DeleteFind, NotDeleting
  <2> QED
    BY <1>9, <2>1 DEF BoxesNamed
<1>5. ASSUME DeleteStep PROVE BoxesNamed'
  <2>1. /\ deletion.i \in 0..(n_boxes - 1) /\ n_boxes - 1 \in 0..(n_boxes - 1)
        /\ deletion \in Deletions
    BY <1>5, DeletionFrame, SwapIndices DEF ListTypeOK, Deletions
  <2>2. boxes[deletion.i].box_name \in Names /\ boxes[n_boxes - 1].box_name \in Names
    BY <2>1 DEF BoxesNamed
  <2>3. CASE DeleteLock
    <3>1. /\ n_boxes' = n_boxes /\ deletion'.name = boxes[deletion.i].box_name
          /\ boxes' = [boxes EXCEPT ![deletion.i].box_name = boxes[n_boxes - 1].box_name]
      BY <2>1, <2>3 DEF DeleteLock, DeleteGoto, Deletions
    <3> QED
      BY <1>1, <1>2, <1>9, <2>1, <2>2, <3>1 DEF BoxesNamed
  <2>4. CASE SwapName
    <3>1. /\ deletion.step = "otherName" /\ deletion'.step = "last" /\ n_boxes' = n_boxes
          /\ boxes' = [boxes EXCEPT ![n_boxes - 1].box_name = deletion.name]
      BY <2>1, <2>4 DEF SwapName, DeleteGoto, Deletions
    <3> QED
      BY <1>1, <1>2, <1>9, <2>1, <3>1 DEF BoxesNamed
  <2>5. CASE SwapLast \/ SwapOtherLast
    <3>1. /\ n_boxes' = n_boxes /\ deletion'.step # "otherName"
          /\ \A i \in Indices : boxes'[i].box_name = boxes[i].box_name
      <4>1. deletion.i \in Indices /\ n_boxes - 1 \in Indices
        BY <1>2, <2>1
      <4>2. CASE SwapLast
        BY <1>1, <2>1, <4>1, <4>2 DEF SwapLast, DeleteGoto, Deletions, Box
      <4>3. CASE SwapOtherLast
        BY <1>1, <2>1, <4>1, <4>3 DEF SwapOtherLast, DeleteGoto, Deletions, Box
      <4> QED
        BY <2>5, <4>2, <4>3
    <3> QED
      BY <1>2, <1>9, <3>1 DEF BoxesNamed
  <2>6. CASE DeleteEnd
    <3>1. n_boxes' = n_boxes - 1 /\ boxes' = boxes /\ deletion'.step = "none"
      BY <2>6 DEF DeleteEnd, NotDeleting
    <3>2. \A i \in 0..(n_boxes' - 1) : i \in 0..(n_boxes - 1)
      BY <1>1, <3>1
    <3> QED
      BY <1>9, <3>1, <3>2 DEF BoxesNamed
  <2> QED
    BY <1>5, <2>3, <2>4, <2>5, <2>6 DEF DeleteStep
<1>7. ASSUME NEW l \in Listers, ListStart(l) \/ ListStep(l) \/ ManagerStep(l) PROVE BoxesNamed'
  BY <1>2, <1>7, <1>9, ListingKeepsArray DEF BoxesNamed
<1> QED
  BY <1>3, <1>4, <1>5, <1>7 DEF ListNext

\* Only l moves, and the histories of others are kept or forgotten.
LEMMA OthersMove ==
  ASSUME ListTypeOK, NEW l \in Listers, ListStart(l) \/ ListStep(l) \/ ManagerStep(l)
  PROVE  /\ \A k \in Listers : k # l => /\ session'[k] = session[k] /\ man_pipe'[k] = man_pipe[k]
                                        /\ manager'[k] = manager[k]
                                        /\ before'[k] \in {before[k], <<>>}
         /\ calm' => calm /\ \A k \in Listers : k # l => before'[k] = before[k]
<1> USE DEF ListTypeOK
<1>1. CASE ListStart(l)
  <2>1. CASE n_boxes = 0
    BY <1>1, <2>1 DEF ListStart, Observe
  <2>2. CASE n_boxes # 0
    BY <1>1, <2>2 DEF ListStart, Observe
  <2> QED
    BY <2>1, <2>2
<1>2. CASE Mark(l) \/ Unmark(l)
  BY <1>2 DEF Mark, Unmark, SessionGoto, history
<1>3. CASE Next(l)
  BY <1>3 DEF Next, history
<1>4. CASE Send(l) \/ SendRest(l)
  <2>1. /\ UNCHANGED <<manager, history>>
        /\ \E out : Write(l, out)
    BY <1>4 DEF Send, SendRest
  <2> QED
    BY <2>1 DEF Write, history
<1>5. CASE ManagerStep(l)
  BY <1>5 DEF ManagerStep, ReadBox, ReadNothing, history
<1> QED
  BY <1>1, <1>2, <1>3, <1>4, <1>5 DEF ListStep

LEMMA StepNotBegun ==
  ASSUME ListTypeOK, NotBegun, ListNext
  PROVE  NotBegun'
<1>1. CASE AddBox \/ (\E i \in Indices : DeleteFind(i)) \/ DeleteStep
  <2>1. UNCHANGED listings
    BY <1>1, DeletionFrame DEF AddBox, DeleteFind
  <2>2. \A l \in Listers : before'[l] \in {before[l], <<>>}
    BY <1>1, DeletionFrame DEF AddBox, DeleteFind, Observe, history
  <2> QED
    BY <2>1, <2>2 DEF NotBegun, listings
<1>2. ASSUME NEW l \in Listers, ListStart(l) \/ ListStep(l) \/ ManagerStep(l) PROVE NotBegun'
  <2>1. session'[l].step # "none" \/ UNCHANGED <<session, man_pipe, manager, before>>
    <3>1. CASE ListStart(l)
      BY <3>1 DEF ListStart, ListTypeOK
    <3>2. CASE Mark(l) \/ Unmark(l)
      BY <3>2 DEF Mark, Unmark, SessionGoto, ListTypeOK
    <3>3. CASE Next(l)
      BY <3>3 DEF Next, ListTypeOK
    <3>4. CASE Send(l) \/ SendRest(l)
      <4>1. PICK out : Write(l, out)
        BY <3>4 DEF Send, SendRest
      <4>2. session[l].step # "none"
        BY <3>4 DEF Send, SendRest
      <4>3. CASE manager[l].step = "stopped"
        BY <4>1, <4>2, <4>3 DEF Write
      <4>4. CASE manager[l].step # "stopped"
        <5>1. PICK rest : session' = [session EXCEPT ![l] = Sent(@, rest)]
          BY <4>1, <4>4 DEF Write
        <5> QED
          BY <5>1 DEF Sent, ListTypeOK
      <4> QED
        BY <4>3, <4>4
    <3>5. CASE ManagerStep(l)
      <4>1. session' = session
        BY <3>5 DEF ManagerStep, ReadBox, ReadNothing
      <4>2. session[l].step # "none"
        BY <3>5 DEF ManagerStep, ReadBox, ReadNothing, NotBegun
      <4> QED
        BY <4>1, <4>2
    <3> QED
      BY <1>2, <3>1, <3>2, <3>3, <3>4, <3>5 DEF ListStep
  <2> QED
    BY <1>2, <2>1, OthersMove DEF NotBegun
<1> QED
  BY <1>1, <1>2 DEF ListNext
-----------------------------------------------------------------------------
(* How far a listing has got.                                              *)

LEMMA ListerFacts ==
  ASSUME ListTypeOK, NEW l \in Listers
  PROVE  /\ session[l].i \in Nat /\ Len(manager[l].boxes) \in Nat
         /\ manager[l].boxes \in Seq(Parts) /\ man_pipe[l] \in Seq(Parts)
         /\ session[l].out \in Seq(Parts) /\ Len(man_pipe[l]) \in Nat
BY Sizes DEF ListTypeOK

\* What Progress says, of i and j.
LEMMA ProgressFacts ==
  ASSUME ListTypeOK, NEW l \in Listers, NEW b \in Seq(Names), Progress(l, b)
  PROVE  \E i, j \in Nat :
           /\ i = session[l].i /\ j = Len(manager[l].boxes)
           /\ j <= i /\ i <= Len(b) /\ Len(b) \in Nat
           /\ session[l].step # "send"
           /\ session[l].step = "copyLast" => i < Len(b) /\ session[l].out = <<b[i + 1]>>
           /\ Len(man_pipe[l]) = 2 * (i - j)
           /\ \A m \in 1..(i - j) : man_pipe[l][2 * m - 1] = b[j + m]
           /\ \A m \in 1..j : manager[l].boxes[m] = b[m]
<1>1. session[l].i \in Nat /\ Len(manager[l].boxes) \in Nat /\ Len(b) \in Nat
  BY ListerFacts
<1> QED
  BY <1>1, Zenon DEF Progress

LEMMA ProgressKept ==
  ASSUME NEW l \in Listers, NEW b, Progress(l, b),
         session'[l] = session[l], man_pipe'[l] = man_pipe[l], manager'[l].boxes = manager[l].boxes
  PROVE  Progress(l, b)'
BY DEF Progress

\* A session that moves between loop, mark and end of the listing.
LEMMA ProgressOfStep ==
  ASSUME ListTypeOK, NEW l \in Listers, NEW b, Progress(l, b),
         session'[l].i = session[l].i, session'[l].step \notin {"send", "copyLast"},
         man_pipe'[l] = man_pipe[l], manager'[l].boxes = manager[l].boxes
  PROVE  Progress(l, b)'
BY DEF Progress

\* A session that copies the name of the box it is at.
LEMMA ProgressOfNext ==
  ASSUME ListTypeOK, NEW l \in Listers, NEW b, Progress(l, b), Next(l),
         session[l].i < n_boxes => /\ session[l].i < Len(b)
                                   /\ boxes[session[l].i].box_name = b[session[l].i + 1]
  PROVE  Progress(l, b)'
<1>1. man_pipe' = man_pipe /\ manager' = manager
  BY DEF Next
<1>2. CASE session[l].i < n_boxes
  <2>1. /\ session'[l].i = session[l].i /\ session'[l].step = "copyLast"
        /\ session'[l].out = <<b[session[l].i + 1]>>
    BY <1>2 DEF Next, ListTypeOK
  <2> QED
    BY <1>1, <1>2, <2>1 DEF Progress
<1>3. CASE ~(session[l].i < n_boxes)
  <2>1. session'[l].i = session[l].i /\ session'[l].step = "unmark"
    BY <1>3 DEF Next, ListTypeOK
  <2> QED
    BY <1>1, <2>1, ProgressOfStep
<1> QED
  BY <1>2, <1>3

\* A box at the end of what a pipe holds.
LEMMA Joined ==
  ASSUME NEW S, NEW p \in Seq(S), NEW o \in Seq(S)
  PROVE  /\ Len(p \o o) = Len(p) + Len(o)
         /\ \A k \in 1..(Len(p) + Len(o)) :
              (p \o o)[k] = IF k <= Len(p) THEN p[k] ELSE o[k - Len(p)]
BY ConcatProperties

\* The pipe takes a box whole, if all the boxes fit in it.
LEMMA BoxWritten ==
  ASSUME ListTypeOK, NEW l \in Listers, NEW b \in Seq(Names), Len(b) <= Capacity,
         Progress(l, b), Send(l), manager[l].step # "stopped"
  PROVE  \E i, c \in Nat :
           /\ i = session[l].i /\ c = Len(man_pipe[l])
           /\ session'[l] = [step |-> "next", i |-> i + 1, out |-> <<>>]
           /\ Len(man_pipe'[l]) = c + 2
           /\ \A k \in 1..c : man_pipe'[l][k] = man_pipe[l][k]
           /\ man_pipe'[l][c + 1] = b[i + 1]
           /\ man_pipe'[l][c + 2] = boxes[i].last
           /\ manager' = manager /\ exited' = exited
<1>i. PICK i : i = session[l].i
  OBVIOUS
<1>c. PICK c : c = Len(man_pipe[l])
  OBVIOUS
<1>1. /\ i \in Nat /\ c \in Nat /\ i < Len(b) /\ Len(b) \in Nat
      /\ c <= 2 * i /\ c + 2 <= PipeSize /\ PipeSize \in Nat
  <2>1. /\ i < Len(b) /\ i \in Nat /\ Len(b) \in Nat
        /\ Len(manager[l].boxes) \in Nat /\ c = 2 * (i - Len(manager[l].boxes))
        /\ Len(manager[l].boxes) <= i
    BY <1>i, <1>c, ListerFacts DEF Progress, Send
  <2>2. c \in Nat /\ c <= 2 * i
    BY <2>1
  <2> QED
    BY <2>1, <2>2, Sizes
<1>p. PICK p : p = man_pipe[l]
  OBVIOUS
<1>x. PICK x : x = boxes[i].last
  OBVIOUS
<1>o. PICK o : o = Append(session[l].out, x)
  OBVIOUS
<1>2. /\ p \in Seq(Parts) /\ Len(p) = c
      /\ o \in Seq(Parts) /\ Len(o) = 2 /\ o[1] = b[i + 1] /\ o[2] = x
  <2>1. session[l].out = <<b[i + 1]>> /\ session[l].out \in Seq(Parts) /\ Len(session[l].out) = 1
    BY <1>i, ListerFacts DEF Progress, Send, ListTypeOK
  <2>2. x \in Parts
    <3>1. i < MaxBoxes
      BY <1>i DEF Send, ListTypeOK
    <3>2. i \in Indices
      BY <1>1, <3>1, Sizes DEF Indices
    <3> QED
      BY <1>x, <3>2 DEF ListTypeOK, Box, Parts
  <2>3. session[l].out[1] = b[i + 1]
    BY <2>1
  <2>4. /\ Append(session[l].out, x) \in Seq(Parts) /\ Len(Append(session[l].out, x)) = 2
        /\ Append(session[l].out, x)[1] = session[l].out[1] /\ Append(session[l].out, x)[2] = x
    BY <2>1, <2>2, TwoParts
  <2> QED
    BY <1>c, <1>p, <1>o, <2>3, <2>4, ListerFacts
<1>3. /\ man_pipe' = [man_pipe EXCEPT ![l] = p \o o]
      /\ session' = [session EXCEPT ![l] = Sent(@, <<>>)]
      /\ exited' = exited
  <2>1. PICK n : n = IF PipeSize - c < Len(o) THEN PipeSize - c ELSE Len(o)
    OBVIOUS
  <2>2. n = 2
    BY <1>1, <1>2, <2>1
  <2>3. /\ man_pipe' = [man_pipe EXCEPT ![l] = p \o SubSeq(o, 1, n)]
        /\ session' = [session EXCEPT ![l] = Sent(@, SubSeq(o, n + 1, Len(o)))]
        /\ exited' = exited
    BY <1>i, <1>c, <1>x, <1>o, <1>p, <2>1, Zenon DEF Send, Write
  <2>4. SubSeq(o, 1, n) = o /\ SubSeq(o, n + 1, Len(o)) = <<>>
    BY <1>2, <2>2
  <2> QED
    BY <2>3, <2>4
<1>4. man_pipe'[l] = p \o o
  BY <1>3 DEF ListTypeOK
<1>q. PICK q : q = p \o o
  OBVIOUS
<1>5. /\ Len(q) = c + 2
      /\ \A k \in 1..c : q[k] = p[k]
      /\ q[c + 1] = o[1] /\ q[c + 2] = o[2]
  <2>1. p \in Seq(Parts) /\ o \in Seq(Parts)
    BY <1>2
  <2>2. /\ Len(q) = Len(p) + Len(o)
        /\ \A k \in 1..(Len(p) + Len(o)) : q[k] = IF k <= Len(p) THEN p[k] ELSE o[k - Len(p)]
    BY <1>q, <2>1, Joined, Zenon
  <2>3. \A k \in 1..(c + 2) : q[k] = IF k <= c THEN p[k] ELSE o[k - c]
    BY <1>2, <2>2
  <2>4. q[c + 1] = o[1] /\ q[c + 2] = o[2]
    BY <1>1, <2>3
  <2> QED
    BY <1>1, <1>2, <2>2, <2>3, <2>4
<1>6. session'[l] = [step |-> "next", i |-> i + 1, out |-> <<>>]
  BY <1>i, <1>3 DEF Sent, ListTypeOK
<1>7. manager' = manager
  BY DEF Send
<1>8. /\ i = session[l].i /\ c = Len(man_pipe[l])
      /\ session'[l] = [step |-> "next", i |-> i + 1, out |-> <<>>]
      /\ Len(man_pipe'[l]) = c + 2
      /\ \A k \in 1..c : man_pipe'[l][k] = man_pipe[l][k]
      /\ man_pipe'[l][c + 1] = b[i + 1]
      /\ man_pipe'[l][c + 2] = boxes[i].last
      /\ manager' = manager /\ exited' = exited
  BY <1>2, <1>3, <1>4, <1>5, <1>6, <1>7, <1>i, <1>c, <1>p, <1>q, <1>x
<1> QED
  BY <1>1, <1>8, Zenon
\* The session has a box more in the pipe, and moves on.
LEMMA ProgressOfSend ==
  ASSUME ListTypeOK, NEW l \in Listers, NEW b \in Seq(Names), Len(b) <= Capacity,
         Progress(l, b), Send(l)
  PROVE  Progress(l, b)'
<1>1. manager' = manager
  BY DEF Send
<1>2. CASE manager[l].step = "stopped"
  <2>1. UNCHANGED <<session, man_pipe>>
    BY <1>2 DEF Send, Write
  <2> QED
    BY <1>1, <2>1, ProgressKept
<1>3. CASE manager[l].step # "stopped"
  <2>1. PICK i, j \in Nat :
           /\ i = session[l].i /\ j = Len(manager[l].boxes)
           /\ j <= i /\ Len(b) \in Nat
           /\ session[l].step = "copyLast" => i < Len(b)
           /\ Len(man_pipe[l]) = 2 * (i - j)
           /\ \A m \in 1..(i - j) : man_pipe[l][2 * m - 1] = b[j + m]
           /\ \A m \in 1..j : manager[l].boxes[m] = b[m]
    BY ProgressFacts
  <2>2. PICK k, c \in Nat :
           /\ k = session[l].i /\ c = Len(man_pipe[l])
           /\ session'[l] = [step |-> "next", i |-> k + 1, out |-> <<>>]
           /\ Len(man_pipe'[l]) = c + 2
           /\ \A m \in 1..c : man_pipe'[l][m] = man_pipe[l][m]
           /\ man_pipe'[l][c + 1] = b[k + 1]
    BY <1>3, BoxWritten
  <2>3. k = i /\ session[l].step = "copyLast" /\ c = 2 * (i - j)
    BY <2>1, <2>2 DEF Send
  <2>4. /\ session'[l] = [step |-> "next", i |-> i + 1, out |-> <<>>]
        /\ Len(man_pipe'[l]) = c + 2
        /\ \A m \in 1..c : man_pipe'[l][m] = man_pipe[l][m]
        /\ man_pipe'[l][c + 1] = b[i + 1]
    BY <2>2, <2>3
  <2>5. /\ i \in Nat /\ j \in Nat /\ j <= i /\ i < Len(b) /\ c = 2 * (i - j)
        /\ Len(b) \in Nat
        /\ \A m \in 1..(i - j) : man_pipe[l][2 * m - 1] = b[j + m]
        /\ \A m \in 1..j : manager[l].boxes[m] = b[m]
    BY <2>1, <2>3
  <2>6. /\ session'[l].step = "next" /\ session'[l].i = i + 1
        /\ Len(manager'[l].boxes) = j
        /\ \A m \in 1..j : manager'[l].boxes[m] = b[m]
    BY <1>1, <2>1, <2>4, <2>5
  <2>7. j <= i + 1 /\ i + 1 <= Len(b) /\ Len(man_pipe'[l]) = 2 * (i + 1 - j)
    BY <2>4, <2>5
  <2>8. ASSUME NEW m \in 1..(i + 1 - j) PROVE man_pipe'[l][2 * m - 1] = b[j + m]
    <3>1. CASE m \in 1..(i - j)
      <4>1. 2 * m - 1 \in 1..c
        BY <2>5, <3>1
      <4> QED
        BY <2>4, <2>5, <3>1, <4>1
    <3>2. CASE m = i + 1 - j
      <4>1. 2 * m - 1 = c + 1 /\ j + m = i + 1
        BY <2>5, <3>2
      <4> QED
        BY <2>4, <4>1
    <3> QED
      BY <2>5, <3>1, <3>2
  <2> QED
    BY <2>6, <2>7, <2>8 DEF Progress
<1> QED
  BY <1>2, <1>3

\* The manager takes a box whole.
LEMMA BoxRead ==
  ASSUME ListTypeOK, NEW l \in Listers, NEW b \in Seq(Names), Progress(l, b), ReadBox(l)
  PROVE  \E i, j \in Nat :
           /\ i = session[l].i /\ j = Len(manager[l].boxes) /\ j < i
           /\ manager[l].step = "reading"
           /\ manager'[l].step = IF man_pipe[l][2] = 1 THEN "stopped" ELSE "reading"
           /\ Len(manager'[l].boxes) = j + 1
           /\ \A m \in 1..(j + 1) : manager'[l].boxes[m] = b[m]
           /\ Len(man_pipe'[l]) = 2 * (i - (j + 1))
           /\ \A k \in 1..(2 * (i - (j + 1))) : man_pipe'[l][k] = man_pipe[l][k + 2]
           /\ session' = session
<1>p. PICK i, j \in Nat :
        /\ i = session[l].i /\ j = Len(manager[l].boxes)
        /\ j <= i /\ i <= Len(b) /\ Len(b) \in Nat
        /\ Len(man_pipe[l]) = 2 * (i - j)
        /\ \A m \in 1..(i - j) : man_pipe[l][2 * m - 1] = b[j + m]
        /\ \A m \in 1..j : manager[l].boxes[m] = b[m]
  BY ProgressFacts
<1>g. PICK got : got = man_pipe[l]
  OBVIOUS
<1>h. PICK had : had = manager[l].boxes
  OBVIOUS
<1>1. /\ i \in Nat /\ j \in Nat /\ j <= i /\ i <= Len(b) /\ Len(b) \in Nat
      /\ got \in Seq(Parts) /\ Len(got) \in Nat /\ Len(got) = 2 * (i - j) /\ got # <<>>
      /\ had \in Seq(Parts) /\ Len(had) = j
      /\ \A m \in 1..(i - j) : got[2 * m - 1] = b[j + m]
      /\ \A m \in 1..j : had[m] = b[m]
  <2>1. /\ got \in Seq(Parts) /\ Len(got) \in Nat /\ had \in Seq(Parts) /\ got # <<>>
    BY <1>g, <1>h, ListerFacts DEF ReadBox
  <2> QED
    BY <1>g, <1>h, <1>p, <2>1
<1>2. Len(got) # 0
  BY <1>1
<1>3. j < i /\ Len(got) > 1
  BY <1>1, <1>2
<1>4. got[1] = b[j + 1] /\ got[1] \in Names /\ got[1] # NoName /\ got[1] \in Parts
  <2>1. 1 \in 1..(i - j) /\ 2 * 1 - 1 = 1
    BY <1>1, <1>3
  <2>2. got[1] = b[j + 1]
    BY <1>1, <2>1
  <2>3. j + 1 \in 1..Len(b)
    BY <1>1, <1>3
  <2> QED
    BY <2>2, <2>3, Sizes DEF Parts
<1>5. PICK rest : rest = SubSeq(got, 3, Len(got))
  OBVIOUS
<1>6. PICK more : more = Append(had, got[1])
  OBVIOUS
<1>7. /\ man_pipe' = [man_pipe EXCEPT ![l] = rest] /\ session' = session
      /\ manager' = [manager EXCEPT ![l] =
                      [step |-> IF got[2] = 1 THEN "stopped" ELSE "reading",
                       last |-> got[2], boxes |-> more]]
      /\ manager[l].step = "reading"
  BY <1>3, <1>4, <1>5, <1>6, <1>g, <1>h DEF ReadBox
<1>8. Len(rest) = 2 * (i - (j + 1)) /\ \A k \in 1..Len(rest) : rest[k] = got[k + 2]
  <2>1. \A k \in 3..Len(got) : got[k] \in Parts
    BY <1>1
  <2>2. /\ Len(rest) = IF 3 <= Len(got) THEN Len(got) - 3 + 1 ELSE 0
        /\ \A k \in 1..(Len(got) - 3 + 1) : rest[k] = got[3 + k - 1]
    BY <1>1, <1>5, <2>1, SubSeqProperties
  <2>3. Len(got) \in Nat /\ Len(got) >= 2
    BY <1>1, <1>3
  <2>4. Len(rest) = Len(got) - 2
    <3>1. PICK n : n = Len(got)
      OBVIOUS
    <3>2. PICK r : r = Len(rest)
      OBVIOUS
    <3>3. r = (IF 3 <= n THEN n - 3 + 1 ELSE 0) /\ n \in Nat /\ n >= 2
      BY <2>2, <2>3, <3>1, <3>2
    <3>4. r = n - 2
      BY <3>3
    <3> QED
      BY <3>1, <3>2, <3>4
  <2>5. Len(rest) = 2 * (i - (j + 1))
    BY <1>1, <2>4
  <2>6. \A k \in 1..Len(rest) : rest[k] = got[k + 2]
    <3>1. \A k \in 1..Len(rest) : k \in 1..(Len(got) - 3 + 1) /\ 3 + k - 1 = k + 2
      BY <2>3, <2>4
    <3> QED
      BY <2>2, <3>1
  <2> QED
    BY <2>5, <2>6
<1>9. Len(more) = j + 1 /\ \A m \in 1..(j + 1) : more[m] = b[m]
  <2>1. /\ Len(more) = Len(had) + 1
        /\ \A k \in 1..Len(had) : more[k] = had[k]
        /\ more[Len(had) + 1] = got[1]
    BY <1>1, <1>4, <1>6, Appended
  <2> QED
    BY <1>1, <1>4, <2>1
<1>10. /\ manager'[l].boxes = more /\ man_pipe'[l] = rest
       /\ manager'[l].step = IF got[2] = 1 THEN "stopped" ELSE "reading"
  BY <1>7 DEF ListTypeOK
<1>11. /\ i = session[l].i /\ j = Len(manager[l].boxes) /\ j < i
       /\ manager[l].step = "reading"
       /\ manager'[l].step = IF man_pipe[l][2] = 1 THEN "stopped" ELSE "reading"
       /\ Len(manager'[l].boxes) = j + 1
       /\ \A m \in 1..(j + 1) : manager'[l].boxes[m] = b[m]
       /\ Len(man_pipe'[l]) = 2 * (i - (j + 1))
       /\ \A k \in 1..(2 * (i - (j + 1))) : man_pipe'[l][k] = man_pipe[l][k + 2]
       /\ session' = session
  BY <1>3, <1>7, <1>8, <1>9, <1>10, <1>g, <1>p
<1> QED
  BY <1>11, Zenon

LEMMA ProgressOfRead ==
  ASSUME ListTypeOK, NEW l \in Listers, NEW b \in Seq(Names), Progress(l, b), ReadBox(l)
  PROVE  Progress(l, b)'
<1>1. PICK i, j \in Nat :
        /\ i = session[l].i /\ j = Len(manager[l].boxes) /\ j < i
        /\ Len(manager'[l].boxes) = j + 1
        /\ \A m \in 1..(j + 1) : manager'[l].boxes[m] = b[m]
        /\ Len(man_pipe'[l]) = 2 * (i - (j + 1))
        /\ \A k \in 1..(2 * (i - (j + 1))) : man_pipe'[l][k] = man_pipe[l][k + 2]
        /\ session' = session
  BY BoxRead
<1>2. ASSUME NEW m \in 1..(i - (j + 1)) PROVE man_pipe'[l][2 * m - 1] = b[j + 1 + m]
  <2>1. /\ 2 * m - 1 \in 1..(2 * (i - (j + 1))) /\ m + 1 \in 1..(i - j)
        /\ 2 * m - 1 + 2 = 2 * (m + 1) - 1 /\ j + 1 + m = j + (m + 1)
    OBVIOUS
  <2>2. \A k \in 1..(i - j) : man_pipe[l][2 * k - 1] = b[j + k]
    BY <1>1 DEF Progress
  <2> QED
    BY <1>1, <2>1, <2>2
<1>3. /\ i <= Len(b) /\ session[l].step # "send"
      /\ session[l].step = "copyLast" => i < Len(b) /\ session[l].out = <<b[i + 1]>>
  BY <1>1 DEF Progress
<1>4. j + 1 <= i /\ session'[l].i = i
  BY <1>1
<1> QED
  BY <1>1, <1>2, <1>3, <1>4 DEF Progress

\* Whatever the session and the manager do, the listing goes on through b, if the
\* boxes that the session is to find in the array are those of b.
LEMMA ProgressOfListing ==
  ASSUME ListTypeOK, NEW l \in Listers, NEW b \in Seq(Names), Len(b) <= Capacity,
         Progress(l, b), ListStep(l) \/ ManagerStep(l),
         Next(l) /\ session[l].i < n_boxes =>
           /\ session[l].i < Len(b)
           /\ boxes[session[l].i].box_name = b[session[l].i + 1]
  PROVE  Progress(l, b)'
<1>1. CASE Mark(l) \/ Unmark(l)
  <2>1. /\ session'[l].i = session[l].i /\ session'[l].step \in {"next", "done"}
        /\ man_pipe' = man_pipe /\ manager' = manager
    BY <1>1 DEF Mark, Unmark, SessionGoto, ListTypeOK
  <2> QED
    BY <2>1, ProgressOfStep
<1>2. CASE Next(l)
  BY <1>2, ProgressOfNext
<1>3. CASE Send(l)
  BY <1>3, ProgressOfSend
<1>4. CASE SendRest(l)
  BY <1>4 DEF SendRest, Progress
<1>5. CASE ReadBox(l)
  BY <1>5, ProgressOfRead
<1>6. CASE ReadNothing(l)
  <2>1. manager'[l].boxes = manager[l].boxes /\ UNCHANGED <<session, man_pipe>>
    BY <1>6 DEF ReadNothing, ListTypeOK
  <2> QED
    BY <2>1, ProgressKept
<1> QED
  BY <1>1, <1>2, <1>3, <1>4, <1>5, <1>6 DEF ListStep, ManagerStep

LEMMA NothingOfListing ==
  ASSUME ListTypeOK, NEW l \in Listers, NothingToList(l), ListStep(l) \/ ManagerStep(l)
  PROVE  NothingToList(l)'
<1>1. ~ListStep(l)
  BY DEF NothingToList, ListStep, Mark, Next, Send, SendRest, Unmark, SessionGoto
<1>2. CASE ReadBox(l)
  <2>1. man_pipe[l] = <<NoName, 1>> /\ manager[l].boxes = <<>> /\ session' = session
    BY <1>2 DEF ReadBox, NothingToList
  <2>2. PICK got : got = <<NoName, 1>>
    OBVIOUS
  <2>3. Len(got) > 1 /\ got[1] = NoName /\ got[2] = 1 /\ SubSeq(got, 3, Len(got)) = <<>>
    BY <2>2
  <2>4. /\ man_pipe' = [man_pipe EXCEPT ![l] = <<>>]
        /\ manager'[l].boxes = <<>>
    BY <1>2, <2>1, <2>2, <2>3 DEF ReadBox, ListTypeOK
  <2>5. man_pipe'[l] = <<>>
    BY <2>4 DEF ListTypeOK
  <2> QED
    BY <2>1, <2>4, <2>5 DEF NothingToList
<1>3. CASE ReadNothing(l)
  <2>1. manager'[l].boxes = manager[l].boxes /\ UNCHANGED <<session, man_pipe>>
    BY <1>3 DEF ReadNothing, ListTypeOK
  <2> QED
    BY <2>1 DEF NothingToList
<1> QED
  BY <1>1, <1>2, <1>3 DEF ManagerStep
\* The boxes of c go on where those of b end.
LEMMA ProgressGrows ==
  ASSUME ListTypeOK, NEW l \in Listers, NEW b \in Seq(Names), NEW c \in Seq(Names),
         Progress(l, b), Len(b) <= Len(c), \A m \in 1..Len(b) : c[m] = b[m]
  PROVE  Progress(l, c)
<1>1. PICK i, j \in Nat :
        /\ i = session[l].i /\ j = Len(manager[l].boxes)
        /\ j <= i /\ i <= Len(b) /\ Len(b) \in Nat
        /\ session[l].step # "send"
        /\ session[l].step = "copyLast" => i < Len(b) /\ session[l].out = <<b[i + 1]>>
        /\ Len(man_pipe[l]) = 2 * (i - j)
        /\ \A m \in 1..(i - j) : man_pipe[l][2 * m - 1] = b[j + m]
        /\ \A m \in 1..j : manager[l].boxes[m] = b[m]
  BY ProgressFacts
<1>2. Len(c) \in Nat
  OBVIOUS
<1>3. session[l].step = "copyLast" => i < Len(c) /\ session[l].out = <<c[i + 1]>>
  <2>1. i < Len(b) => i + 1 \in 1..Len(b) /\ i < Len(c)
    BY <1>1, <1>2
  <2> QED
    BY <1>1, <2>1
<1>4. \A m \in 1..(i - j) : man_pipe[l][2 * m - 1] = c[j + m]
  <2>1. i <= Len(b) /\ Len(b) \in Nat
    BY <1>1
  <2>2. \A m \in 1..(i - j) : j + m \in 1..Len(b)
    BY <2>1
  <2> QED
    BY <1>1, <2>2
<1>5. \A m \in 1..j : manager[l].boxes[m] = c[m]
  <2>1. \A m \in 1..j : m \in 1..Len(b)
    BY <1>1
  <2> QED
    BY <1>1, <2>1
<1>6. i <= Len(c)
  BY <1>1, <1>2
<1> QED
  BY <1>1, <1>3, <1>4, <1>5, <1>6 DEF Progress

\* A listing that begins: it has nothing to show, or has shown none of the boxes.
LEMMA Begins ==
  ASSUME ListTypeOK, NotBegun, NEW l \in Listers, ListStart(l)
  PROVE  /\ n_boxes = 0 => NothingToList(l)'
         /\ n_boxes # 0 => \A b \in Seq(Names) : Progress(l, b)'
         /\ manager' = manager /\ manager[l].step = "reading"
<1>1. /\ session[l].i = 0 /\ man_pipe[l] = <<>> /\ manager[l].boxes = <<>>
      /\ manager' = manager /\ manager[l].step = "reading"
  BY DEF ListStart, NotBegun
<1>2. CASE n_boxes = 0
  BY <1>1, <1>2 DEF ListStart, NothingToList, ListTypeOK
<1>3. CASE n_boxes # 0
  <2>1. /\ session'[l].i = 0 /\ session'[l].step = "mark" /\ man_pipe' = man_pipe
    BY <1>1, <1>3 DEF ListStart, ListTypeOK
  <2>2. Len(manager'[l].boxes) = 0 /\ Len(man_pipe'[l]) = 0
    BY <1>1, <2>1
  <2>3. \A b \in Seq(Names) : 0 <= Len(b)
    OBVIOUS
  <2> QED
    BY <1>1, <1>3, <2>1, <2>2, <2>3 DEF Progress
<1> QED
  BY <1>1, <1>2, <1>3
-----------------------------------------------------------------------------
(* As long as no box was removed.                                          *)

LEMMA StepInOrder ==
  ASSUME ListTypeOK, BoxesNamed, NotBegun, GoesInOrder, ListNext
  PROVE  GoesInOrder'
<1> SUFFICES ASSUME removals' = 0
             PROVE  /\ deletion'.step = "none"
                    /\ n_boxes' <= Capacity =>
                         \A l \in Listers : NothingToList(l)' \/ Progress(l, Listed)'
  BY DEF GoesInOrder
<1>n. n_boxes \in Nat /\ n_boxes <= MaxBoxes /\ Capacity \in Nat /\ removals \in Nat
  BY Sizes, ListAssumption DEF ListTypeOK
<1>b. PICK b \in Seq(Names) :
        /\ b = Listed /\ Len(b) = n_boxes
        /\ \A i \in 0..(n_boxes - 1) : b[i + 1] = boxes[i].box_name
  BY NamesListed
<1>1. ASSUME AddBox, n_boxes' <= Capacity
      PROVE  \A l \in Listers : NothingToList(l)' \/ Progress(l, Listed)'
  <2>1. PICK name \in Names :
          /\ name = Created[created + 1]
          /\ boxes' = [boxes EXCEPT ![n_boxes] = [box_name |-> name, last |-> boxes'[n_boxes].last]]
    <3>1. created + 1 \in 1..Len(Created)
      BY <1>1, Sizes DEF AddBox, ListTypeOK
    <3>2. PICK last \in {0, 1} :
            boxes' = [boxes EXCEPT ![n_boxes] = [box_name |-> Created[created + 1], last |-> last]]
      BY <1>1 DEF AddBox
    <3>3. n_boxes \in Indices
      BY <1>1, <1>n, Sizes DEF AddBox, Indices
    <3>4. boxes'[n_boxes].last = last
      BY <3>2, <3>3 DEF ListTypeOK
    <3> QED
      BY <3>1, <3>2, <3>4, Sizes
  <2>2. /\ n_boxes' = n_boxes + 1 /\ UNCHANGED <<removals, deletion, listings>>
        /\ n_boxes < MaxBoxes
    BY <1>1 DEF AddBox
  <2>3. removals = 0 /\ n_boxes <= Capacity
    BY <1>1, <1>n, <2>2
  <2>4. deletion.step = "none" /\ \A l \in Listers : NothingToList(l) \/ Progress(l, b)
    BY <1>b, <2>3 DEF GoesInOrder
  <2>5. PICK c : c = Listed'
    OBVIOUS
  <2>6. c \in Seq(Names) /\ Len(c) = n_boxes + 1 /\ \A m \in 1..n_boxes : c[m] = b[m]
    <3>1. c = [k \in 1..(n_boxes + 1) |-> boxes'[k - 1].box_name]
      BY <2>2, <2>5 DEF Listed
    <3>2. \A k \in 1..n_boxes : boxes'[k - 1].box_name = b[k]
      <4> SUFFICES ASSUME NEW k \in 1..n_boxes PROVE boxes'[k - 1].box_name = b[k]
        OBVIOUS
      <4>1. k - 1 \in 0..(n_boxes - 1) /\ k - 1 \in Indices /\ k - 1 # n_boxes /\ k - 1 + 1 = k
        BY <1>n, Sizes DEF Indices
      <4>2. boxes'[k - 1] = boxes[k - 1]
        BY <2>1, <4>1 DEF ListTypeOK
      <4> QED
        BY <1>b, <4>1, <4>2
    <3>3. boxes'[n_boxes].box_name \in Names
      <4>1. n_boxes \in Indices
        BY <1>n, <2>2, Sizes DEF Indices
      <4> QED
        BY <2>1, <4>1 DEF ListTypeOK
    <3>4. \A k \in 1..n_boxes : b[k] \in Names
      BY <1>b
    <3>5. \A k \in 1..(n_boxes + 1) : boxes'[k - 1].box_name \in Names
      <4> SUFFICES ASSUME NEW k \in 1..(n_boxes + 1) PROVE boxes'[k - 1].box_name \in Names
        OBVIOUS
      <4>1. k \in 1..n_boxes \/ k - 1 = n_boxes
        BY <1>n
      <4> QED
        BY <3>2, <3>3, <3>4, <4>1
    <3> QED
      BY <1>n, <3>1, <3>2, <3>5
  <2>7. \A l \in Listers : NothingToList(l) \/ Progress(l, c)
    <3>1. Len(b) <= Len(c) /\ \A m \in 1..Len(b) : c[m] = b[m]
      BY <1>b, <1>n, <2>6
    <3> QED
      BY <2>4, <2>6, <3>1, ProgressGrows
  <2>8. ASSUME NEW l \in Listers PROVE NothingToList(l)' \/ Progress(l, c)'
    BY <2>2, <2>7 DEF listings, NothingToList, Progress
  <2> QED
    BY <2>2, <2>4, <2>5, <2>8 DEF Progress
<1>2. ASSUME NEW i \in Indices, DeleteFind(i) PROVE FALSE
  BY <1>2, <1>n DEF DeleteFind
<1>3. ~DeleteStep
  BY DeletionFrame DEF GoesInOrder
<1>4. ASSUME NEW k \in Listers, ListStart(k) \/ ListStep(k) \/ ManagerStep(k), n_boxes' <= Capacity
      PROVE  \A l \in Listers : NothingToList(l)' \/ Progress(l, Listed)'
  <2>1. UNCHANGED <<n_boxes, deletion, removals>> /\ Listed' = b
    BY <1>4, <1>b, ListingKeepsArray
  <2>2. deletion.step = "none" /\ \A l \in Listers : NothingToList(l) \/ Progress(l, b)
    BY <1>4, <1>b, <2>1 DEF GoesInOrder
  <2>3. ASSUME NEW l \in Listers, l # k PROVE NothingToList(l)' \/ Progress(l, b)'
    <3>1. session'[l] = session[l] /\ man_pipe'[l] = man_pipe[l] /\ manager'[l] = manager[l]
      BY <1>4, <2>3, OthersMove
    <3>2. NothingToList(l) => NothingToList(l)'
      BY <3>1 DEF NothingToList
    <3> QED
      BY <2>2, <3>1, <3>2, ProgressKept
  <2>4. NothingToList(k)' \/ Progress(k, b)'
    <3>1. CASE ListStart(k)
      BY <3>1, Begins
    <3>2. CASE (ListStep(k) \/ ManagerStep(k)) /\ NothingToList(k)
      BY <3>2, NothingOfListing
    <3>3. CASE (ListStep(k) \/ ManagerStep(k)) /\ Progress(k, b)
      <4>1. session[k].i \in Nat /\ Len(b) <= Capacity
        BY ListerFacts, <1>4, <1>b, <2>1
      <4>2. session[k].i < n_boxes =>
              session[k].i < Len(b) /\ boxes[session[k].i].box_name = b[session[k].i + 1]
        BY <1>b, <1>n, <4>1
      <4> QED
        BY <3>3, <4>1, <4>2, ProgressOfListing
    <3> QED
      BY <1>4, <2>2, <3>1, <3>2, <3>3
  <2> QED
    BY <2>1, <2>2, <2>3, <2>4 DEF Progress
<1>5. deletion'.step = "none"
  <2>1. removals = 0 /\ deletion' = deletion
    <3>1. CASE AddBox
      BY <3>1 DEF AddBox
    <3>2. ASSUME NEW k \in Listers, ListStart(k) \/ ListStep(k) \/ ManagerStep(k)
          PROVE  removals = 0 /\ deletion' = deletion
      BY <3>2, ListingKeepsArray
    <3> QED
      BY <1>2, <1>3, <3>1, <3>2 DEF ListNext
  <2> QED
    BY <2>1 DEF GoesInOrder
<1> QED
  BY <1>1, <1>2, <1>3, <1>4, <1>5 DEF ListNext
-----------------------------------------------------------------------------
(* While listings are left alone.                                          *)

LEMMA MarkedKept ==
  ASSUME NEW l \in Listers, NEW b, Marked(l, b),
         session'[l].i = session[l].i, man_pipe'[l] = man_pipe[l],
         manager'[l].boxes = manager[l].boxes
  PROVE  Marked(l, b)'
BY DEF Marked

\* The session sends the box after those of the pipe, marked if it is the last.
LEMMA MarkedOfSend ==
  ASSUME ListTypeOK, NEW l \in Listers, NEW b \in Seq(Names), Len(b) <= Capacity,
         Progress(l, b), Marked(l, b), Send(l), manager[l].step # "stopped",
         \A i \in 0..(Len(b) - 1) : boxes[i].last = IF i = Len(b) - 1 THEN 1 ELSE 0
  PROVE  Marked(l, b)'
<1>1. PICK i, j \in Nat :
        /\ i = session[l].i /\ j = Len(manager[l].boxes)
        /\ j <= i /\ Len(b) \in Nat
        /\ session[l].step = "copyLast" => i < Len(b)
        /\ Len(man_pipe[l]) = 2 * (i - j)
  BY ProgressFacts
<1>2. PICK k, c \in Nat :
        /\ k = session[l].i /\ c = Len(man_pipe[l])
        /\ session'[l] = [step |-> "next", i |-> k + 1, out |-> <<>>]
        /\ \A m \in 1..c : man_pipe'[l][m] = man_pipe[l][m]
        /\ man_pipe'[l][c + 2] = boxes[k].last
        /\ manager' = manager
  BY BoxWritten
<1>3. /\ k = i /\ i < Len(b) /\ c = 2 * (i - j)
  BY <1>1, <1>2 DEF Send
<1>4. \A m \in 1..(i - j) : man_pipe[l][2 * m] = IF j + m = Len(b) THEN 1 ELSE 0
  BY <1>1 DEF Marked
<1>5. ASSUME NEW m \in 1..(i + 1 - j)
      PROVE  man_pipe'[l][2 * m] = IF j + m = Len(b) THEN 1 ELSE 0
  <2>1. CASE m \in 1..(i - j)
    <3>1. 2 * m \in 1..c
      BY <1>3, <2>1
    <3> QED
      BY <1>2, <1>4, <2>1, <3>1
  <2>2. CASE m = i + 1 - j
    <3>1. 2 * m = c + 2 /\ j + m = i + 1
      BY <1>3, <2>2
    <3>2. i \in 0..(Len(b) - 1) /\ (i = Len(b) - 1 <=> i + 1 = Len(b))
      <4>1. i < Len(b) /\ Len(b) \in Nat
        BY <1>1, <1>3
      <4> QED
        BY <4>1
    <3>3. man_pipe'[l][2 * m] = boxes[i].last
      BY <1>2, <1>3, <3>1
    <3> QED
      BY <3>1, <3>2, <3>3
  <2> QED
    BY <2>1, <2>2
<1>6. session'[l].i = i + 1 /\ Len(manager'[l].boxes) = j
  BY <1>1, <1>2, <1>3
<1> QED
  BY <1>5, <1>6 DEF Marked

\* A manager stops when it has read the last box.
LEMMA MarkedOfRead ==
  ASSUME ListTypeOK, NEW l \in Listers, NEW b \in Seq(Names),
         Progress(l, b), Marked(l, b), ReadBox(l)
  PROVE  /\ Marked(l, b)'
         /\ manager'[l].step = "stopped" => Len(manager'[l].boxes) = Len(b)
<1>1. PICK i, j \in Nat :
        /\ i = session[l].i /\ j = Len(manager[l].boxes) /\ j < i
        /\ manager'[l].step = IF man_pipe[l][2] = 1 THEN "stopped" ELSE "reading"
        /\ Len(manager'[l].boxes) = j + 1
        /\ \A k \in 1..(2 * (i - (j + 1))) : man_pipe'[l][k] = man_pipe[l][k + 2]
        /\ session' = session
  BY BoxRead
<1>2. \A m \in 1..(i - j) : man_pipe[l][2 * m] = IF j + m = Len(b) THEN 1 ELSE 0
  BY <1>1 DEF Marked
<1>3. ASSUME NEW m \in 1..(i - (j + 1))
      PROVE  man_pipe'[l][2 * m] = IF j + 1 + m = Len(b) THEN 1 ELSE 0
  <2>1. /\ 2 * m \in 1..(2 * (i - (j + 1))) /\ m + 1 \in 1..(i - j)
        /\ 2 * m + 2 = 2 * (m + 1) /\ j + 1 + m = j + (m + 1)
    OBVIOUS
  <2> QED
    BY <1>1, <1>2, <2>1
<1>4. Marked(l, b)'
  BY <1>1, <1>3 DEF Marked
<1>5. manager'[l].step = "stopped" => j + 1 = Len(b)
  <2>1. 1 \in 1..(i - j) /\ 2 * 1 = 2
    BY <1>1
  <2>2. man_pipe[l][2] = IF j + 1 = Len(b) THEN 1 ELSE 0
    BY <1>2, <2>1
  <2> QED
    BY <1>1, <2>2
<1> QED
  BY <1>1, <1>4, <1>5

\* A listing that is not disturbed goes on being one that shows what there was.
LEMMA ExactOfListing ==
  ASSUME ListTypeOK, BoxesNamed, NEW l \in Listers, Fits(l), Exact(l),
         ListStep(l) \/ ManagerStep(l), before'[l] = before[l],
         ListStep(l) => before[l] = Listed,
         Send(l) => \A i \in 0..(n_boxes - 1) : boxes[i].last = IF i = n_boxes - 1 THEN 1 ELSE 0
  PROVE  Exact(l)'
<1>b. PICK b \in Seq(Names) : b = before[l]
  BY DEF BoxesNamed
<1>1. CASE b = <<>>
  <2>1. NothingToList(l)
    BY <1>1, <1>b DEF Exact
  <2>2. NothingToList(l)'
    BY <2>1, NothingOfListing
  <2> QED
    BY <1>1, <1>b, <2>2 DEF Exact
<1>2. CASE b # <<>>
  <2>1. /\ Progress(l, b) /\ Marked(l, b)
        /\ manager[l].step = "stopped" => Len(manager[l].boxes) = Len(b)
        /\ Len(b) <= Capacity
    BY <1>2, <1>b DEF Exact, Fits
  <2>2. ListStep(l) => /\ Len(b) = n_boxes
                       /\ \A i \in 0..(n_boxes - 1) : b[i + 1] = boxes[i].box_name
    BY <1>b, NamesListed
  <2>3. Progress(l, b)'
    <3>1. Next(l) /\ session[l].i < n_boxes =>
            session[l].i < Len(b) /\ boxes[session[l].i].box_name = b[session[l].i + 1]
      <4>1. session[l].i \in Nat /\ n_boxes \in Nat
        BY ListerFacts DEF ListTypeOK
      <4>2. session[l].i < n_boxes => session[l].i \in 0..(n_boxes - 1)
        BY <4>1
      <4> QED
        BY <2>2, <4>2 DEF ListStep
    <3> QED
      BY <2>1, <3>1, ProgressOfListing
  <2>4. /\ Marked(l, b)'
        /\ manager'[l].step = "stopped" => Len(manager'[l].boxes) = Len(b)
    <3>1. CASE Send(l) /\ manager[l].step # "stopped"
      <4>1. \A i \in 0..(Len(b) - 1) : boxes[i].last = IF i = Len(b) - 1 THEN 1 ELSE 0
        BY <2>2, <3>1 DEF ListStep
      <4>2. Marked(l, b)'
        BY <2>1, <3>1, <4>1, MarkedOfSend
      <4>3. manager' = manager
        BY <3>1 DEF Send
      <4> QED
        BY <2>1, <4>2, <4>3
    <3>2. CASE ReadBox(l)
      BY <2>1, <3>2, MarkedOfRead
    <3>3. CASE ~ReadBox(l) /\ ~(Send(l) /\ manager[l].step # "stopped")
      <4>1. /\ session'[l].i = session[l].i /\ man_pipe'[l] = man_pipe[l]
            /\ manager'[l].boxes = manager[l].boxes
            /\ manager'[l].step # manager[l].step => manager'[l].step = "crashed"
        <5>1. CASE Mark(l) \/ Unmark(l)
          BY <5>1 DEF Mark, Unmark, SessionGoto, ListTypeOK
        <5>2. CASE Next(l)
          BY <5>2 DEF Next, ListTypeOK
        <5>3. CASE Send(l) /\ manager[l].step = "stopped"
          BY <5>3 DEF Send, Write
        <5>4. CASE SendRest(l)
          BY <2>1, <5>4 DEF SendRest, Progress
        <5>5. CASE ReadNothing(l)
          BY <5>5 DEF ReadNothing, ListTypeOK
        <5> QED
          BY <3>3, <5>1, <5>2, <5>3, <5>4, <5>5 DEF ListStep, ManagerStep
      <4> QED
        BY <2>1, <4>1, MarkedKept
    <3> QED
      BY <3>1, <3>2, <3>3
  <2> QED
    BY <1>2, <1>b, <2>3, <2>4 DEF Exact
<1> QED
  BY <1>1, <1>2
\* A listing that does not move.
LEMMA ExactKept ==
  ASSUME NEW l \in Listers, Exact(l), before'[l] = before[l],
         session'[l] = session[l], man_pipe'[l] = man_pipe[l], manager'[l] = manager[l]
  PROVE  Exact(l)'
<1>1. NothingToList(l) => NothingToList(l)'
  BY DEF NothingToList
<1>2. ASSUME NEW b PROVE Progress(l, b) /\ Marked(l, b) => Progress(l, b)' /\ Marked(l, b)'
  BY DEF Progress, Marked
<1>3. PICK b : b = before[l]
  OBVIOUS
<1> QED
  BY <1>1, <1>2, <1>3 DEF Exact

\* The array changes while there is no listing, and no box of it is marked.
LEMMA ArrayQuiet ==
  ASSUME Undisturbed, Active = {}, UNCHANGED <<listings, exited, before>>,
         deletion'.last = 0, \A i \in 0..(n_boxes' - 1) : boxes'[i].last = 0
  PROVE  Undisturbed'
<1>1. Active' = {} /\ ~Marking'
  BY DEF Active, Marking, listings
<1>2. ASSUME NEW l \in Listers PROVE Fits(l)' = Fits(l) /\ (Exact(l) => Exact(l)')
  BY ExactKept DEF Fits, listings
<1> QED
  BY <1>1, <1>2 DEF Undisturbed

LEMMA ArrayStepQuiet ==
  ASSUME ListTypeOK, Quiet, AddBox \/ (\E i \in Indices : DeleteFind(i)) \/ DeleteStep, calm'
  PROVE  Undisturbed'
<1>1. /\ calm /\ Active = {} /\ UNCHANGED <<listings, exited, before>>
  <2>1. CASE AddBox
    BY <2>1 DEF AddBox, Observe
  <2>2. ASSUME NEW i \in Indices, DeleteFind(i)
        PROVE  calm /\ Active = {} /\ UNCHANGED <<listings, exited, before>>
    BY <2>2 DEF DeleteFind, Observe
  <2>3. CASE DeleteStep
    BY <2>3, DeletionFrame DEF Quiet, Undisturbed, history
  <2> QED
    BY <2>1, <2>2, <2>3
<1>2. Undisturbed /\ ~Marking
  BY <1>1 DEF Quiet, Marking, Active
<1>3. \A i \in 0..(n_boxes - 1) : boxes[i].last = 0
  BY <1>2 DEF Undisturbed
<1>4. n_boxes \in Nat /\ n_boxes <= MaxBoxes /\ MaxBoxes \in Nat /\ boxes \in [Indices -> Box]
  BY Sizes DEF ListTypeOK
<1>5. \A i \in 0..(n_boxes' - 1) : boxes'[i].last = 0
  <2>1. CASE AddBox
    <3>1. PICK last \in {0, 1} :
            /\ boxes' = [boxes EXCEPT ![n_boxes] = [box_name |-> Created[created + 1], last |-> last]]
            /\ Observe(Active = {} /\ last = 0, before)
      BY <2>1 DEF AddBox
    <3>2. last = 0 /\ n_boxes' = n_boxes + 1 /\ n_boxes < MaxBoxes
      BY <2>1, <3>1 DEF AddBox, Observe
    <3> SUFFICES ASSUME NEW i \in 0..(n_boxes' - 1) PROVE boxes'[i].last = 0
      OBVIOUS
    <3>3. i \in Indices /\ (i = n_boxes \/ i \in 0..(n_boxes - 1))
      BY <1>4, <3>2 DEF Indices
    <3> QED
      BY <1>3, <1>4, <3>1, <3>2, <3>3
  <2>2. ASSUME NEW k \in Indices, DeleteFind(k)
        PROVE  \A i \in 0..(n_boxes' - 1) : boxes'[i].last = 0
    BY <1>3, <2>2 DEF DeleteFind
  <2>3. ASSUME DeleteStep PROVE \A i \in 0..(n_boxes' - 1) : boxes'[i].last = 0
    <3>1. /\ deletion.i \in 0..(n_boxes - 1) /\ n_boxes - 1 \in 0..(n_boxes - 1)
          /\ \A i \in 0..(n_boxes - 1) : i \in Indices
          /\ deletion.last = 0
      BY <1>2, <2>3, DeletionFrame, SwapIndices DEF Undisturbed
    <3>2. CASE DeleteLock \/ SwapName \/ SwapLast \/ SwapOtherLast
      <4>1. n_boxes' = n_boxes
        BY <3>2 DEF DeleteLock, SwapName, SwapLast, SwapOtherLast
      <4>2. CASE DeleteLock
        BY <1>3, <1>4, <3>1, <4>1, <4>2 DEF DeleteLock, Box
      <4>3. CASE SwapName
        BY <1>3, <1>4, <3>1, <4>1, <4>3 DEF SwapName, Box
      <4>4. CASE SwapLast
        BY <1>3, <1>4, <3>1, <4>1, <4>4 DEF SwapLast, Box
      <4>5. CASE SwapOtherLast
        BY <1>3, <1>4, <3>1, <4>1, <4>5 DEF SwapOtherLast, Box
      <4> QED
        BY <3>2, <4>2, <4>3, <4>4, <4>5
    <3>3. CASE DeleteEnd
      <4>1. n_boxes' = n_boxes - 1 /\ boxes' = boxes
        BY <3>3 DEF DeleteEnd
      <4>2. \A i \in 0..(n_boxes' - 1) : i \in 0..(n_boxes - 1)
        BY <1>4, <4>1
      <4> QED
        BY <1>3, <4>1, <4>2
    <3> QED
      BY <2>3, <3>2, <3>3 DEF DeleteStep
  <2> QED
    BY <2>1, <2>2, <2>3
<1>6. deletion'.last = 0
  <2>1. deletion.last = 0 /\ deletion \in Deletions
    BY <1>2 DEF Undisturbed, ListTypeOK, Deletions
  <2>2. CASE AddBox
    BY <2>1, <2>2 DEF AddBox
  <2>3. ASSUME NEW k \in Indices, DeleteFind(k) PROVE deletion'.last = 0
    BY <2>3 DEF DeleteFind, NotDeleting
  <2>4. ASSUME DeleteStep PROVE deletion'.last = 0
    <3>1. deletion.i \in 0..(n_boxes - 1)
      BY <2>4, DeletionFrame, SwapIndices
    <3>2. boxes[deletion.i].last = 0
      BY <1>3, <3>1
    <3>3. CASE DeleteLock \/ SwapName \/ SwapOtherLast
      BY <2>1, <3>3 DEF DeleteLock, SwapName, SwapOtherLast, DeleteGoto, Deletions
    <3>4. CASE SwapLast
      BY <2>1, <3>2, <3>4 DEF SwapLast, DeleteGoto, Deletions
    <3>5. CASE DeleteEnd
      BY <3>5 DEF DeleteEnd, NotDeleting
    <3> QED
      BY <2>4, <3>3, <3>4, <3>5 DEF DeleteStep
  <2> QED
    BY <2>2, <2>3, <2>4
<1> QED
  BY <1>1, <1>2, <1>5, <1>6, ArrayQuiet

\* A listing begins when no other is under way.
LEMMA StartQuiet ==
  ASSUME ListTypeOK, BoxesNamed, NotBegun, Quiet, NEW l \in Listers, ListStart(l), calm'
  PROVE  Undisturbed'
<1>1. /\ calm /\ Active = {} /\ deletion.step = "none" /\ ~exited
      /\ before' = [before EXCEPT ![l] = Listed] /\ UNCHANGED <<array, exited, manager>>
  BY DEF ListStart, Observe
<1>2. Undisturbed /\ ~Marking
  BY <1>1 DEF Quiet, Marking, Active
<1>3. deletion.step = "none" /\ n_boxes \in Nat
  BY <1>1, Sizes DEF ListTypeOK
<1>4. \A k \in Listers : k # l => /\ session'[k] = session[k] /\ man_pipe'[k] = man_pipe[k]
                                  /\ manager'[k] = manager[k] /\ before'[k] = before[k]
  BY OthersMove
<1>5. session'[l].step = IF n_boxes = 0 THEN "done" ELSE "mark"
  BY DEF ListStart, ListTypeOK
<1>6. ~Marking' /\ \A k \in Active' : k = l /\ n_boxes # 0
  BY <1>1, <1>4, <1>5 DEF Marking, Active
<1>7. Listed' = Listed /\ before'[l] = Listed
  <2>1. before \in [Listers -> Seq(Names)]
    BY DEF BoxesNamed
  <2> QED
    BY <1>1, <2>1, ListingKeepsArray
<1>8. Exact(l)'
  <2>1. PICK b \in Seq(Names) : b = Listed /\ Len(b) = n_boxes
    BY NamesListed
  <2>2. CASE n_boxes = 0
    BY <1>7, <2>1, <2>2, Begins DEF Exact
  <2>3. CASE n_boxes # 0
    <3>1. Progress(l, b)' /\ manager'[l].step = "reading"
      BY <2>3, Begins
    <3>2. /\ session'[l].i = 0 /\ manager'[l].boxes = <<>>
      BY <1>1, <2>3 DEF ListStart, ListTypeOK, NotBegun
    <3>3. Marked(l, b)'
      BY <3>2 DEF Marked
    <3>4. b # <<>>
      BY <2>1, <2>3
    <3> QED
      BY <1>7, <2>1, <3>1, <3>3, <3>4 DEF Exact
  <2> QED
    BY <2>2, <2>3
<1>9. ASSUME NEW k \in Listers, Fits(k)' PROVE Exact(k)'
  <2>1. CASE k # l
    <3>1. Exact(k)
      BY <1>2, <1>4, <1>9, <2>1 DEF Undisturbed, Fits
    <3> QED
      BY <1>4, <2>1, <3>1, ExactKept
  <2> QED
    BY <1>8, <2>1
<1> QED
  BY <1>1, <1>2, <1>3, <1>6, <1>7, <1>9 DEF Undisturbed, array
\* What is left alone while a listing goes on.
LEMMA ListStepFrame ==
  ASSUME ListTypeOK, NEW l \in Listers, ListStep(l)
  PROVE  /\ l \in Active /\ ~exited /\ UNCHANGED history
         /\ UNCHANGED <<n_boxes, deletion>> /\ Listed' = Listed
         /\ \A k \in Listers : k # l =>
              /\ session'[k] = session[k] /\ man_pipe'[k] = man_pipe[k]
              /\ manager'[k] = manager[k] /\ before'[k] = before[k]
<1>1. l \in Active /\ ~exited /\ UNCHANGED history
  BY DEF Active, ListStep, Mark, Next, Send, SendRest, Unmark, SessionGoto
<1>2. \A k \in Listers : k # l => /\ session'[k] = session[k] /\ man_pipe'[k] = man_pipe[k]
                                  /\ manager'[k] = manager[k]
  BY OthersMove
<1> QED
  BY <1>1, <1>2, ListingKeepsArray DEF history

\* What a session that is the only one does to the mark.
LEMMA MarkMoves ==
  ASSUME ListTypeOK, NEW l \in Listers, ListStep(l), n_boxes > 0
  PROVE  \/ /\ session[l].step = "mark" /\ session'[l].step = "next"
            /\ exited' = exited
            /\ \A i \in Indices : boxes'[i].last = IF i = n_boxes - 1 THEN 1 ELSE boxes[i].last
         \/ /\ session[l].step = "unmark" /\ session'[l].step = "done"
            /\ exited' = exited
            /\ \A i \in Indices : boxes'[i].last = IF i = n_boxes - 1 THEN 0 ELSE boxes[i].last
         \/ /\ session[l].step = "next" /\ session'[l].step \in {"copyLast", "unmark"}
            /\ UNCHANGED <<exited, boxes>>
         \/ /\ session[l].step \in {"copyLast", "send"}
            /\ session'[l].step \in {"copyLast", "send", "next"}
            /\ boxes' = boxes
            /\ exited' # exited => manager[l].step = "stopped"
<1>n. n_boxes # 0
  BY DEF ListTypeOK
<1>1. CASE Mark(l)
  <2>1. session[l].step = "mark" /\ session'[l].step = "next" /\ SetLast(1)
    BY <1>1 DEF Mark, SessionGoto, ListTypeOK
  <2> QED
    BY <1>n, <2>1, SetLastType
<1>2. CASE Unmark(l)
  <2>1. session[l].step = "unmark" /\ session'[l].step = "done" /\ SetLast(0)
    BY <1>2 DEF Unmark, SessionGoto, ListTypeOK
  <2> QED
    BY <1>n, <2>1, SetLastType
<1>3. CASE Next(l)
  BY <1>3 DEF Next, ListTypeOK, array
<1>4. CASE Send(l) \/ SendRest(l)
  <2>1. /\ session[l].step \in {"copyLast", "send"} /\ boxes' = boxes /\ \E out : Write(l, out)
    BY <1>4 DEF Send, SendRest, array
  <2>2. PICK out : Write(l, out)
    BY <2>1
  <2>3. CASE manager[l].step = "stopped"
    BY <2>1, <2>2, <2>3 DEF Write
  <2>4. CASE manager[l].step # "stopped"
    <3>1. PICK rest : session' = [session EXCEPT ![l] = Sent(@, rest)] /\ exited' = exited
      BY <2>2, <2>4 DEF Write
    <3> QED
      BY <2>1, <3>1 DEF Sent, ListTypeOK
  <2> QED
    BY <2>3, <2>4
<1> QED
  BY <1>1, <1>2, <1>3, <1>4 DEF ListStep

\* The pipe of a manager that has stopped is written to no more.
LEMMA NotStopped ==
  ASSUME ListTypeOK, BoxesNamed, NEW l \in Listers, Exact(l), Fits(l), before[l] # <<>>,
         session[l].step \in {"copyLast", "send"}
  PROVE  manager[l].step # "stopped"
<1>b. PICK b \in Seq(Names) : b = before[l]
  BY DEF BoxesNamed
<1>1. Progress(l, b) /\ (manager[l].step = "stopped" => Len(manager[l].boxes) = Len(b))
  BY <1>b DEF Exact
<1>2. PICK i, j \in Nat :
        /\ i = session[l].i /\ j = Len(manager[l].boxes)
        /\ j <= i /\ Len(b) \in Nat
        /\ session[l].step # "send"
        /\ session[l].step = "copyLast" => i < Len(b)
  BY <1>1, ProgressFacts
<1>3. j # Len(b)
  <2>1. i < Len(b) /\ Len(b) \in Nat /\ j <= i
    BY <1>2
  <2> QED
    BY <2>1
<1> QED
  BY <1>1, <1>2, <1>3

LEMMA ListStepQuiet ==
  ASSUME ListTypeOK, BoxesNamed, Quiet, NEW l \in Listers, ListStep(l), calm'
  PROVE  Undisturbed'
<1>1. /\ l \in Active /\ ~exited /\ calm /\ before' = before
      /\ UNCHANGED <<n_boxes, deletion>> /\ Listed' = Listed
      /\ \A k \in Listers : k # l =>
           /\ session'[k] = session[k] /\ man_pipe'[k] = man_pipe[k]
           /\ manager'[k] = manager[k] /\ before'[k] = before[k]
  BY ListStepFrame DEF history
<1>2. /\ Undisturbed /\ \A k \in Active : k = l
      /\ deletion.step = "none" /\ n_boxes > 0 /\ before[l] = Listed
  BY <1>1 DEF Quiet, Undisturbed
<1>3. \A k \in Active' : k = l
  BY <1>1, <1>2 DEF Active
<1>4. /\ Marking <=> session[l].step \in {"next", "copyLast", "send", "unmark"}
      /\ Marking' <=> session'[l].step \in {"next", "copyLast", "send", "unmark"}
  BY <1>1, <1>2, <1>3 DEF Marking, Active
<1>5. \A i \in 0..(n_boxes - 1) : /\ i \in Indices
                                  /\ boxes[i].last = IF i = n_boxes - 1 /\ Marking THEN 1 ELSE 0
  BY <1>2, NamesListed DEF Undisturbed
<1>6. \A i \in 0..(n_boxes - 1) : boxes'[i].last = IF i = n_boxes - 1 /\ Marking' THEN 1 ELSE 0
  BY <1>2, <1>4, <1>5, MarkMoves
<1>7. before[l] # <<>>
  BY <1>2, NamesListed
<1>8. ASSUME NEW k \in Listers, Fits(k)' PROVE Exact(k)'
  <2>1. Fits(k) /\ Exact(k)
    BY <1>1, <1>2, <1>8 DEF Undisturbed, Fits
  <2>2. CASE k # l
    BY <1>1, <2>1, <2>2, ExactKept
  <2>3. CASE k = l
    <3>1. Send(l) =>
            \A i \in 0..(n_boxes - 1) : boxes[i].last = IF i = n_boxes - 1 THEN 1 ELSE 0
      BY <1>4, <1>5 DEF Send
    <3> QED
      BY <1>1, <1>2, <2>1, <2>3, <3>1, ExactOfListing
  <2> QED
    BY <2>2, <2>3
<1>9. (\A k \in Listers : Fits(k)') => ~exited'
  <2> SUFFICES ASSUME \A k \in Listers : Fits(k)', exited' # exited PROVE FALSE
    BY <1>1
  <2>1. Fits(l) /\ Exact(l)
    BY <1>1, <1>2 DEF Undisturbed, Fits
  <2>2. session[l].step \in {"copyLast", "send"} /\ manager[l].step = "stopped"
    BY <1>2, MarkMoves
  <2> QED
    BY <1>7, <2>1, <2>2, NotStopped
<1> QED
  BY <1>1, <1>2, <1>3, <1>6, <1>8, <1>9 DEF Undisturbed

LEMMA ManagerStepQuiet ==
  ASSUME ListTypeOK, BoxesNamed, Quiet, NEW l \in Listers, ManagerStep(l), calm'
  PROVE  Undisturbed'
<1>1. UNCHANGED <<array, session, exited, history>>
  BY DEF ManagerStep, ReadBox, ReadNothing
<1>2. calm /\ Undisturbed
  BY <1>1 DEF Quiet, history
<1>3. /\ Active' = Active /\ Marking' = Marking /\ Listed' = Listed
      /\ UNCHANGED <<boxes, n_boxes, deletion, before, exited, session>>
  BY <1>1 DEF Active, Marking, Listed, array, history
<1>4. ~Send(l) \/ session[l].step = "copyLast"
  BY DEF Send
<1>5. ASSUME NEW k \in Listers, Fits(k)' PROVE Exact(k)'
  <2>1. Fits(k) /\ Exact(k)
    BY <1>2, <1>3, <1>5 DEF Undisturbed, Fits
  <2>2. CASE k # l
    BY <1>3, <2>1, <2>2, OthersMove, ExactKept
  <2>3. CASE k = l
    <3>1. ~ListStep(l)
      <4>1. manager' # manager
        BY DEF ManagerStep, ReadBox, ReadNothing, ListTypeOK
      <4> QED
        BY <4>1 DEF ListStep, Mark, Next, Send, SendRest, Unmark
    <3> QED
      BY <1>3, <2>1, <2>3, <3>1, ExactOfListing DEF ListStep
  <2> QED
    BY <2>2, <2>3
<1> QED
  BY <1>2, <1>3, <1>5 DEF Undisturbed, Fits
-----------------------------------------------------------------------------
(* The invariant, and what it says of every run.                           *)

LEMMA InitIInv == ListInit => IInv
<1> SUFFICES ASSUME ListInit PROVE IInv
  OBVIOUS
<1>1. ListTypeOK
  BY InitListType
<1>2. \A l \in Listers : /\ session[l].step = "none" /\ session[l].i = 0 /\ man_pipe[l] = <<>>
                         /\ manager[l].boxes = <<>> /\ manager[l].step = "reading"
                         /\ before[l] = <<>>
  BY DEF ListInit
<1>3. n_boxes = 0 /\ deletion.step = "none" /\ deletion.last = 0 /\ exited = FALSE
  BY DEF ListInit, NotDeleting
<1>4. BoxesNamed
  <2>1. before \in [Listers -> Seq(Names)]
    BY DEF ListInit
  <2> QED
    BY <1>3, <2>1 DEF BoxesNamed
<1>5. \A l \in Listers : NothingToList(l)
  BY <1>2 DEF NothingToList
<1>6. Active = {} /\ ~Marking
  BY <1>2 DEF Active, Marking
<1>7. \A l \in Listers : Exact(l)
  BY <1>2, <1>5 DEF Exact
<1>8. Undisturbed
  BY <1>3, <1>6, <1>7 DEF Undisturbed
<1> QED
  BY <1>1, <1>2, <1>3, <1>4, <1>5, <1>8 DEF IInv, NotBegun, GoesInOrder, Quiet

LEMMA StepListType == ListTypeOK /\ ListNext => ListTypeOK'
BY ArrayStepType, ListingStepType DEF ListNext

LEMMA StepQuiet ==
  ASSUME ListTypeOK, BoxesNamed, NotBegun, Quiet, ListNext
  PROVE  Quiet'
<1> SUFFICES ASSUME calm' PROVE Undisturbed'
  BY DEF Quiet
<1> QED
  BY ArrayStepQuiet, StartQuiet, ListStepQuiet, ManagerStepQuiet DEF ListNext

LEMMA StepIInv == IInv /\ [ListNext]_listVars => IInv'
<1> SUFFICES ASSUME IInv, [ListNext]_listVars PROVE IInv'
  OBVIOUS
<1>1. CASE ListNext
  BY <1>1, StepListType, StepNamed, StepNotBegun, StepInOrder, StepQuiet DEF IInv
<1>2. CASE UNCHANGED listVars
  <2>1. UNCHANGED <<boxes, n_boxes, mutex, deletion, created, removals, session, man_pipe,
                    manager, exited, calm, before>>
    BY <1>2 DEF listVars, array, listings, history
  <2>2. ListTypeOK' /\ BoxesNamed' /\ NotBegun'
    BY <2>1 DEF IInv, ListTypeOK, BoxesNamed, NotBegun
  <2>3. Listed' = Listed /\ Active' = Active /\ Marking' = Marking
    BY <2>1 DEF Listed, Active, Marking
  <2>4. \A l \in Listers : /\ NothingToList(l)' = NothingToList(l) /\ Fits(l)' = Fits(l)
                           /\ \A b : Progress(l, b) => Progress(l, b)'
                           /\ Exact(l) => Exact(l)'
    BY <2>1, ExactKept, ProgressKept DEF NothingToList, Fits
  <2>5. GoesInOrder'
    <3>1. PICK b : b = Listed
      OBVIOUS
    <3> QED
      BY <2>1, <2>3, <2>4, <3>1 DEF IInv, GoesInOrder, Progress
  <2>6. Quiet'
    BY <2>1, <2>3, <2>4 DEF IInv, Quiet, Undisturbed
  <2> QED
    BY <2>2, <2>5, <2>6 DEF IInv
<1> QED
  BY <1>1, <1>2

THEOREM ListInvariantHolds == ListSpec => []IInv
BY InitIInv, StepIInv, PTL DEF ListSpec

\* Variables keep their types, for every number of listings and boxes, and of
\* removals that come one after the other (the index that find_box gave to delete_box
\* is then still one of the array when mutex is locked, whatever is created in
\* between): in particular what a session still has to write is at most a box, and
\* a pipe never holds more than it can (the writes of reply_to_list_boxes).
THEOREM ListTypesHold == ListSpec => []ListTypeOK
<1>1. IInv => ListTypeOK
  BY DEF IInv
<1> QED
  BY <1>1, ListInvariantHolds, PTL

\* As long as no box was removed, what reply_to_list_boxes has shown to a manager
\* are the first boxes of the array, in its order, whatever is created and listed
\* meanwhile, if the boxes fit in a pipe.
THEOREM ListingsKeepTheOrder == ListSpec => []ListedInOrder
<1>1. IInv => ListedInOrder
  <2> SUFFICES ASSUME IInv, removals = 0, n_boxes <= Capacity, NEW l \in Listers
               PROVE  LET shown == manager[l].boxes
                      IN Len(shown) <= n_boxes /\ shown = SubSeq(Listed, 1, Len(shown))
    BY DEF ListedInOrder
  <2>1. ListTypeOK /\ BoxesNamed /\ n_boxes \in Nat
    BY DEF IInv, ListTypeOK
  <2>2. PICK b \in Seq(Names) : b = Listed /\ Len(b) = n_boxes
    BY <2>1, NamesListed
  <2>3. PICK shown \in Seq(Parts) : shown = manager[l].boxes
    BY <2>1, ListerFacts
  <2>4. NothingToList(l) \/ Progress(l, b)
    BY <2>2 DEF IInv, GoesInOrder
  <2>5. CASE NothingToList(l)
    <3>1. shown = <<>>
      BY <2>3, <2>5 DEF NothingToList
    <3>2. Len(shown) = 0 /\ SubSeq(b, 1, 0) = <<>>
      BY <3>1
    <3> QED
      BY <2>1, <2>2, <2>3, <3>1, <3>2
  <2>6. CASE Progress(l, b)
    <3>1. PICK i, j \in Nat :
            /\ i = session[l].i /\ j = Len(manager[l].boxes)
            /\ j <= i /\ i <= Len(b) /\ Len(b) \in Nat
            /\ \A m \in 1..j : manager[l].boxes[m] = b[m]
      BY <2>1, <2>6, ProgressFacts
    <3>2. j <= Len(b) /\ Len(shown) = j /\ \A m \in 1..j : shown[m] = b[m]
      BY <2>3, <3>1
    <3>3. shown = SubSeq(b, 1, j)
      <4>1. SubSeq(b, 1, j) = [m \in 1..j |-> b[m]]
        BY <3>1, <3>2
      <4>2. shown = [m \in 1..j |-> shown[m]]
        BY <3>2
      <4> QED
        BY <3>2, <4>1, <4>2
    <3> QED
      BY <2>2, <2>3, <3>2, <3>3
  <2> QED
    BY <2>4, <2>5, <2>6
<1> QED
  BY <1>1, ListInvariantHolds, PTL

\* A listing that nothing overlaps, of no more boxes than a pipe holds (Fits: three,
\* of 16 KiB each, in a pipe of 64 KiB), shows every box, once and in its order, and
\* no other: the marks of reply_to_list_boxes stop its manager where they should,
\* after any number of listings, creations and removals.  Of a longer listing it
\* says nothing: its manager may read a part of a box.
THEOREM CalmListingsAreExact == ListSpec => []ListedExactly
<1>1. IInv => ListedExactly
  <2> SUFFICES ASSUME IInv, calm, NEW l \in Listers, manager[l].step = "stopped", Fits(l)
               PROVE  manager[l].boxes = before[l]
    BY DEF ListedExactly
  <2>1. ListTypeOK /\ BoxesNamed /\ Exact(l)
    BY DEF IInv, Quiet, Undisturbed
  <2>2. PICK b \in Seq(Names) : b = before[l]
    BY <2>1 DEF BoxesNamed
  <2>3. PICK shown \in Seq(Parts) : shown = manager[l].boxes
    BY <2>1, ListerFacts
  <2>4. CASE b = <<>>
    BY <2>1, <2>2, <2>4 DEF Exact, NothingToList
  <2>5. CASE b # <<>>
    <3>1. Progress(l, b) /\ Len(shown) = Len(b)
      BY <2>1, <2>2, <2>3, <2>5 DEF Exact
    <3>2. PICK i, j \in Nat :
            /\ i = session[l].i /\ j = Len(manager[l].boxes)
            /\ \A m \in 1..j : manager[l].boxes[m] = b[m]
      BY <2>1, <3>1, ProgressFacts
    <3>3. \A m \in 1..Len(b) : shown[m] = b[m]
      BY <2>3, <3>1, <3>2
    <3>4. shown = b
      BY <3>1, <3>3, SeqEqual
    <3> QED
      BY <2>2, <2>3, <3>4
  <2> QED
    BY <2>4, <2>5
<1> QED
  BY <1>1, ListInvariantHolds, PTL

\* Listings that nothing overlaps, each of no more boxes than a pipe holds, never end
\* the broker: no write of
\* reply_to_list_boxes meets a pipe that its manager has closed, and no mark is
\* written outside of the array.
THEOREM CalmListingsNeverExit == ListSpec => []CalmNeverExits
<1>1. IInv => CalmNeverExits
  BY DEF IInv, Quiet, Undisturbed, CalmNeverExits
<1> QED
  BY <1>1, ListInvariantHolds, PTL
=============================================================================

---------------------------- MODULE SessionSlots ----------------------------
(***************************************************************************)
(* What the producer-consumer queue promises to the broker: a counter of   *)
(* occupied session slots that never exceeds the capacity given to         *)
(* pcq_create and never goes below zero.  An enqueue takes one slot, a     *)
(* dequeue gives one back; nothing else changes the counter, and it is     *)
(* never changed by more than one.                                         *)
(***************************************************************************)
EXTENDS Naturals

CONSTANT Capacity    \* number of slots, at least one: the max_sessions of the command line

VARIABLE used        \* slots taken

Init == used = 0

Acquire == used < Capacity /\ used' = used + 1

Release == used > 0 /\ used' = used - 1

Next == Acquire \/ Release

Spec == Init /\ [][Next]_used
=============================================================================

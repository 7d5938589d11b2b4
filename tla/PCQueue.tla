------------------------------ MODULE PCQueue ------------------------------
(***************************************************************************)
(* The bounded producer-consumer queue of producer-consumer.c, one action  *)
(* per pthread call or access to shared memory.                            *)
(*                                                                         *)
(* pcq_enqueue and pcq_dequeue are mirror images: a pusher waits on the    *)
(* pusher condition while the queue is full, a popper on the popper        *)
(* condition while it is empty; both change pcq_current_size under         *)
(* pcq_current_size_lock and then signal the other side.  The actions      *)
(* below therefore take a thread of either side.                           *)
(***************************************************************************)
EXTENDS Integers

CONSTANTS
  Pushers,     (* threads that call pcq_enqueue                       *)
  Poppers,     (* threads that call pcq_dequeue                       *)
  Capacity,    (* pcq_capacity                                        *)
  MaxPushes,   (* bound of the model: how many enqueues are performed *)
  NoThread     (* the holder of a free mutex                          *)

Threads == Pushers \cup Poppers

ASSUME ThreadsAssumption ==
  /\ Pushers \cap Poppers = {}
  /\ NoThread \notin Threads
ASSUME QueueAssumption == Capacity \in Nat \ {0} /\ MaxPushes \in Nat

VARIABLES
  size,        (* pcq_current_size                                          *)
  head,        (* pcq_head                                                  *)
  tail,        (* pcq_tail                                                  *)
  sideLock,    (* pcq_pusher_condvar_lock and pcq_popper_condvar_lock       *)
  sizeLock,    (* pcq_current_size_lock                                     *)
  sleeping,    (* threads asleep on pcq_pusher_condvar, pcq_popper_condvar  *)
  pc,          (* where each thread is in pcq_enqueue or pcq_dequeue        *)
  slept,       (* ~should_unlock of each thread                             *)
  reg,         (* the copy of pcq_current_size a thread increments          *)
  aborted      (* the process died after a write outside pcq_buffer         *)

vars == <<size, head, tail, sideLock, sizeLock, sleeping, pc, slept, reg, aborted>>

Sides == {"push", "pop"}
Side(t)  == IF t \in Pushers THEN "push" ELSE "pop"
Other(t) == IF t \in Pushers THEN "pop" ELSE "push"

Steps == {"out", "check", "sleep", "asleep", "lockSize", "store", "signal",
          "unlockSize", "return"}

TypeOK ==
  /\ size \in Int /\ head \in 0..(Capacity - 1) /\ tail \in Nat
  /\ sideLock \in [Sides -> Threads \cup {NoThread}]
  /\ sizeLock \in Threads \cup {NoThread}
  /\ sleeping \in [Sides -> SUBSET Threads]
  /\ pc \in [Threads -> Steps]
  /\ slept \in [Threads -> BOOLEAN]
  /\ reg \in [Threads -> Int]
  /\ aborted \in BOOLEAN

Init ==
  /\ size = 0 /\ head = 0 /\ tail = 0
  /\ sideLock = [s \in Sides |-> NoThread]
  /\ sizeLock = NoThread
  /\ sleeping = [s \in Sides |-> {}]
  /\ pc = [t \in Threads |-> "out"]
  /\ slept = [t \in Threads |-> FALSE]
  /\ reg = [t \in Threads |-> 0]
  /\ aborted = FALSE

-----------------------------------------------------------------------------
\* A step of the code of t, which only a living process takes.
Goto(t, from, to) == ~aborted /\ pc[t] = from /\ pc' = [pc EXCEPT ![t] = to]

\* Mutant: a pusher waits only once the capacity is exceeded.
MustWait_OneTooMany(t) == IF t \in Pushers THEN size > Capacity ELSE size = 0

\* The condition of the waiting loop: full for a pusher, empty for a popper.
MustWait(t) == IF t \in Pushers THEN size = Capacity ELSE size = 0

\* The call: lock the mutex of the side.  A thread that still holds it from an
\* earlier call waits for itself, as a default mutex does.
Enter(t) ==
  /\ Goto(t, "out", "check")
  /\ t \in Pushers => tail < MaxPushes
  /\ sideLock[Side(t)] = NoThread
  /\ sideLock' = [sideLock EXCEPT ![Side(t)] = t]
  /\ slept' = [slept EXCEPT ![t] = FALSE]
  /\ UNCHANGED <<size, head, tail, sizeLock, sleeping, reg, aborted>>

\* Evaluates the loop condition; pcq_current_size is read without its lock.
Check(t) ==
  /\ Goto(t, "check", IF MustWait(t) THEN "sleep" ELSE "lockSize")
  /\ UNCHANGED <<size, head, tail, sideLock, sizeLock, sleeping, slept, reg, aborted>>

\* pthread_cond_wait releases the mutex and joins the wait set in one step.
Sleep(t) ==
  /\ Goto(t, "sleep", "asleep")
  /\ sideLock' = [sideLock EXCEPT ![Side(t)] = NoThread]
  /\ sleeping' = [sleeping EXCEPT ![Side(t)] = @ \cup {t}]
  /\ UNCHANGED <<size, head, tail, sizeLock, slept, reg, aborted>>

\* POSIX lets pthread_cond_wait return without a signal.
SpuriousWake(t) ==
  /\ ~aborted
  /\ t \in sleeping[Side(t)]
  /\ sleeping' = [sleeping EXCEPT ![Side(t)] = @ \ {t}]
  /\ UNCHANGED <<size, head, tail, sideLock, sizeLock, pc, slept, reg, aborted>>

\* Mutant: `if' for `while' around pthread_cond_wait.
Relock_NoRecheck(t) ==
  /\ t \notin sleeping[Side(t)]
  /\ sideLock[Side(t)] = NoThread
  /\ Goto(t, "asleep", "lockSize")
  /\ sideLock' = [sideLock EXCEPT ![Side(t)] = t]
  /\ slept' = [slept EXCEPT ![t] = TRUE]
  /\ UNCHANGED <<size, head, tail, sizeLock, sleeping, reg, aborted>>

\* pthread_cond_wait returns holding the mutex; should_unlock becomes 0 and the
\* loop condition is evaluated again.
Relock(t) ==
  /\ t \notin sleeping[Side(t)]
  /\ sideLock[Side(t)] = NoThread
  /\ Goto(t, "asleep", "check")
  /\ sideLock' = [sideLock EXCEPT ![Side(t)] = t]
  /\ slept' = [slept EXCEPT ![t] = TRUE]
  /\ UNCHANGED <<size, head, tail, sizeLock, sleeping, reg, aborted>>

\* Mutant: pcq_current_size_lock is not taken.
LockSize_NoLock(t) ==
  /\ Goto(t, "lockSize", "store")
  /\ reg' = [reg EXCEPT ![t] = size]
  /\ UNCHANGED <<size, head, tail, sideLock, sizeLock, sleeping, slept, aborted>>

\* Locks pcq_current_size_lock and loads pcq_current_size.
LockSize(t) ==
  /\ sizeLock = NoThread
  /\ Goto(t, "lockSize", "store")
  /\ sizeLock' = t
  /\ reg' = [reg EXCEPT ![t] = size]
  /\ UNCHANGED <<size, head, tail, sideLock, sleeping, slept, aborted>>

\* The index pcq_enqueue writes: the first call writes at the tail, the later
\* ones increment it first, and nothing ever wraps it.
WriteIndex == IF tail = 0 THEN 0 ELSE tail + 1

\* Writes the element and increments tail and size.  A write past the
\* Capacity elements of pcq_buffer is undefined: the model keeps the outcome
\* where it hits unused heap and the one where the process dies.
Push(t) ==
  /\ t \in Pushers
  /\ Goto(t, "store", "signal")
  /\ tail' = tail + 1
  /\ size' = reg[t] + 1
  /\ aborted' \in (IF WriteIndex < Capacity THEN {FALSE} ELSE BOOLEAN)
  /\ UNCHANGED <<head, sideLock, sizeLock, sleeping, slept, reg>>

\* Mutant: head does not wrap at the capacity.
Pop_NoWrap(t) ==
  /\ t \in Poppers
  /\ Goto(t, "store", "signal")
  /\ size' = reg[t] - 1
  /\ head' = head + 1
  /\ UNCHANGED <<tail, sideLock, sizeLock, sleeping, slept, reg, aborted>>

\* Decrements size and advances head, which does wrap.
Pop(t) ==
  /\ t \in Poppers
  /\ Goto(t, "store", "signal")
  /\ size' = reg[t] - 1
  /\ head' = IF head + 1 = Capacity THEN 0 ELSE head + 1
  /\ UNCHANGED <<tail, sideLock, sizeLock, sleeping, slept, reg, aborted>>

\* pthread_cond_signal on the other side's condition: one sleeper, if any.
\* The signaller does not hold the mutex of that condition.
Signal(t) ==
  /\ Goto(t, "signal", "unlockSize")
  /\ \/ sleeping[Other(t)] = {} /\ UNCHANGED sleeping
     \/ \E w \in sleeping[Other(t)] :
          sleeping' = [sleeping EXCEPT ![Other(t)] = @ \ {w}]
  /\ UNCHANGED <<size, head, tail, sideLock, sizeLock, slept, reg, aborted>>

\* Mutant: pcq_current_size_lock stays locked.
UnlockSize_NoUnlock(t) ==
  /\ Goto(t, "unlockSize", "return")
  /\ UNCHANGED <<size, head, tail, sideLock, sizeLock, sleeping, slept, reg, aborted>>

UnlockSize(t) ==
  /\ Goto(t, "unlockSize", "return")
  /\ sizeLock' = NoThread
  /\ UNCHANGED <<size, head, tail, sideLock, sleeping, slept, reg, aborted>>

\* Unlocks the mutex of the side only if the thread never slept.
Return(t) ==
  /\ Goto(t, "return", "out")
  /\ sideLock' = IF slept[t] THEN sideLock
                 ELSE [sideLock EXCEPT ![Side(t)] = NoThread]
  /\ UNCHANGED <<size, head, tail, sizeLock, sleeping, slept, reg, aborted>>

\* One step of the code of a thread inside a call.
Advance(t) ==
  \/ Check(t) \/ Sleep(t) \/ Relock(t) \/ LockSize(t) \/ Push(t) \/ Pop(t)
  \/ Signal(t) \/ UnlockSize(t) \/ Return(t)

Next == \E t \in Threads : Enter(t) \/ Advance(t) \/ SpuriousWake(t)

Spec == Init /\ [][Next]_vars

\* A scheduler that starves no runnable thread and mutexes that are not
\* granted to others forever.
Fairness == \A t \in Threads : WF_vars(Advance(t))
                            /\ SF_vars(Relock(t))
                            /\ SF_vars(LockSize(t))
                            /\ WF_vars(Enter(t))

FairSpec == Spec /\ Fairness
-----------------------------------------------------------------------------
\* What the check of the waiting loop found still holds when the thread comes
\* to change pcq_current_size, although that was read without its lock:
\* no thread of the same side runs in between and the other side only helps.
CheckStillHolds ==
  \A t \in Threads : pc[t] \in {"lockSize", "store"} => ~MustWait(t)

\* No update of pcq_current_size is lost: tail counts the enqueues, head the
\* dequeues modulo the capacity, and the size is their difference.
IndicesAgree == head = (tail - size) % Capacity

\* The queue implements the slot counter of SessionSlots.
Slots == INSTANCE SessionSlots WITH used <- size
SlotsSpec == Slots!Spec

\* The inductive invariant behind the three: the mutexes protect what they are
\* meant to protect.
SideLockHeld ==
  \A t \in Threads : pc[t] \notin {"out", "asleep"} => sideLock[Side(t)] = t
SizeLockHeld ==
  \A t \in Threads : pc[t] \in {"store", "signal", "unlockSize"} => sizeLock = t
RegisterFresh == \A t \in Threads : pc[t] = "store" => reg[t] = size
SizeWithinCapacity == size \in 0..Capacity /\ size <= tail

IInv ==
  /\ TypeOK
  /\ SideLockHeld
  /\ SizeLockHeld
  /\ RegisterFresh
  /\ SizeWithinCapacity
  /\ CheckStillHolds
  /\ IndicesAgree

\* A thread that is not in a call holds neither mutex of the queue: "If the
\* queue is full, sleep until the queue has space" promises a call that can be
\* made again.
LocksReleasedOnReturn ==
  \A t \in Threads : pc[t] = "out" => sizeLock # t /\ \A s \in Sides : sideLock[s] # t

\* A pusher does not stay asleep while the queue has space.
SleeperWoken ==
  \A t \in Pushers :
    [](pc[t] = "asleep" /\ size < Capacity
        => <>(aborted \/ pc[t] # "asleep" \/ size = Capacity))
=============================================================================

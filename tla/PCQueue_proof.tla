--------------------------- MODULE PCQueue_proof ---------------------------
(***************************************************************************)
(* Proofs about the queue for any sets of threads and any capacity.  The   *)
(* invariant IInv says that the mutex of a side and the size mutex are     *)
(* held where the code believes they are; from it follow the type          *)
(* invariant, the validity of the check of the waiting loop, the agreement *)
(* of the indices and the implementation of the slot counter.              *)
(***************************************************************************)
EXTENDS PCQueue, TLAPS

-----------------------------------------------------------------------------
(* Arithmetic of the wrapping head index.                                  *)

LEMMA Division ==
  ASSUME NEW a \in Nat, NEW C \in Nat \ {0}
  PROVE  /\ a = C * (a \div C) + (a % C)
         /\ a % C \in 0..(C - 1)
         /\ a \div C \in Int
<1>1. a % C \in 0..(C - 1)  OBVIOUS
<1>2. a \div C \in Int  OBVIOUS
<1>3. a = C * (a \div C) + (a % C)  OBVIOUS
<1> QED BY <1>1, <1>2, <1>3

LEMMA NoSmallMultiple ==
  ASSUME NEW C \in Nat \ {0}, NEW d \in Int, NEW e \in Int,
         C * d = e, e < C, -C < e
  PROVE  d = 0
<1>1. CASE d >= 1
  <2>1. C * d >= C  BY <1>1
  <2> QED BY <2>1
<1>2. CASE d <= -1
  <2>1. C * d <= -C  BY <1>2
  <2> QED BY <2>1
<1> QED BY <1>1, <1>2

LEMMA UniqueRemainder ==
  ASSUME NEW C \in Nat \ {0}, NEW p \in Int, NEW q \in Int,
         NEW r \in 0..(C - 1), NEW s \in 0..(C - 1),
         C * q + r = C * p + s
  PROVE  r = s
<1>1. C * (q - p) = s - r
  <2>1. C * (q - p) = C * q - C * p  OBVIOUS
  <2> QED BY <2>1
<1>2. q - p = 0
  <2>1. q - p \in Int /\ s - r \in Int /\ s - r < C /\ -C < s - r  OBVIOUS
  <2> QED BY <1>1, <2>1, NoSmallMultiple
<1> QED BY <1>2

\* Adding one to a number steps its remainder by one or back to zero: what
\* pcq_dequeue does to pcq_head.
LEMMA StepModulo ==
  ASSUME NEW a \in Nat, NEW C \in Nat \ {0}
  PROVE  (a + 1) % C = IF (a % C) + 1 = C THEN 0 ELSE (a % C) + 1
<1>1. /\ a = C * (a \div C) + (a % C)
      /\ a % C \in 0..(C - 1) /\ a \div C \in Int
  BY Division
<1>2. /\ a + 1 = C * ((a + 1) \div C) + ((a + 1) % C)
      /\ (a + 1) % C \in 0..(C - 1) /\ (a + 1) \div C \in Int
  BY Division, a + 1 \in Nat
<1>3. CASE (a % C) + 1 = C
  <2>1. C * ((a \div C) + 1) = C * (a \div C) + C  BY <1>1
  <2>2. C * ((a \div C) + 1) + 0 = C * ((a + 1) \div C) + ((a + 1) % C)
    BY <2>1, <1>1, <1>2, <1>3
  <2>3. 0 \in 0..(C - 1) /\ (a \div C) + 1 \in Int  BY <1>1
  <2>4. 0 = (a + 1) % C  BY <1>2, <2>2, <2>3, UniqueRemainder
  <2> QED BY <2>4, <1>3
<1>4. CASE (a % C) + 1 # C
  <2>1. (a % C) + 1 \in 0..(C - 1)  BY <1>1, <1>4
  <2>2. C * (a \div C) + ((a % C) + 1) = C * ((a + 1) \div C) + ((a + 1) % C)
    BY <1>1, <1>2
  <2>3. (a % C) + 1 = (a + 1) % C  BY <1>1, <1>2, <2>1, <2>2, UniqueRemainder
  <2> QED BY <2>3, <1>4
<1> QED BY <1>3, <1>4

-----------------------------------------------------------------------------
(* The inductive invariant.                                                *)

LEMMA InitIInv == Init => IInv
<1> SUFFICES ASSUME Init PROVE IInv  OBVIOUS
<1> USE ThreadsAssumption, QueueAssumption DEF Init
<1>1. TypeOK
  <2>1. aborted \in BOOLEAN  BY Zenon
  <2>2. slept \in [Threads -> BOOLEAN]  BY Zenon
  <2>3. size \in Int /\ head \in 0..(Capacity - 1) /\ tail \in Nat  OBVIOUS
  <2>4. pc \in [Threads -> Steps] /\ reg \in [Threads -> Int]  BY DEF Steps
  <2>5. sleeping \in [Sides -> SUBSET Threads]  BY Zenon
  <2> QED BY <2>1, <2>2, <2>3, <2>4, <2>5 DEF TypeOK
<1>2. SideLockHeld /\ SizeLockHeld /\ RegisterFresh /\ CheckStillHolds
  BY DEF SideLockHeld, SizeLockHeld, RegisterFresh, CheckStillHolds
<1>3. SizeWithinCapacity  BY DEF SizeWithinCapacity
<1>4. IndicesAgree
  <2>1. 0 % Capacity = 0
    <3>1. 0 = Capacity * (0 \div Capacity) + (0 % Capacity)
          /\ 0 % Capacity \in 0..(Capacity - 1) /\ 0 \div Capacity \in Int
      BY Division
    <3>2. Capacity * 0 + 0 = Capacity * (0 \div Capacity) + (0 % Capacity)
      BY <3>1
    <3>3. 0 \in 0..(Capacity - 1)  OBVIOUS
    <3> QED BY <3>1, <3>2, <3>3, UniqueRemainder
  <2> QED BY <2>1 DEF IndicesAgree
<1> QED BY <1>1, <1>2, <1>3, <1>4 DEF IInv

\* The parts of the invariant about the values are kept by a step that changes
\* none of them.
LEMMA ValuesKept ==
  ASSUME SizeWithinCapacity, IndicesAgree, UNCHANGED <<size, head, tail>>
  PROVE  SizeWithinCapacity' /\ IndicesAgree'
  BY DEF SizeWithinCapacity, IndicesAgree

LEMMA StepType ==
  ASSUME IInv, NEW t \in Threads, Enter(t) \/ Advance(t) \/ SpuriousWake(t)
  PROVE  TypeOK'
<1> USE ThreadsAssumption, QueueAssumption
    DEF IInv, TypeOK, Goto, Steps, Sides, Side, Other
<1>1. CASE Enter(t)  BY <1>1 DEF Enter
<1>2. CASE Check(t)  BY <1>2 DEF Check
<1>3. CASE Sleep(t)  BY <1>3 DEF Sleep
<1>4. CASE Relock(t)  BY <1>4 DEF Relock
<1>5. CASE LockSize(t)  BY <1>5 DEF LockSize
<1>6. CASE Push(t)
  <2>1. aborted' \in BOOLEAN
    <3>1. CASE WriteIndex < Capacity  BY <1>6, <3>1, Zenon DEF Push
    <3>2. CASE ~(WriteIndex < Capacity)  BY <1>6, <3>2, Zenon DEF Push
    <3> QED BY <3>1, <3>2
  <2>2. tail' \in Nat /\ size' \in Int  BY <1>6 DEF Push
  <2>3. pc' \in [Threads -> Steps]  BY <1>6 DEF Push
  <2> QED BY <1>6, <2>1, <2>2, <2>3 DEF Push
<1>7. CASE Pop(t)  BY <1>7 DEF Pop
<1>8. CASE Signal(t)  BY <1>8 DEF Signal
<1>9. CASE UnlockSize(t)  BY <1>9 DEF UnlockSize
<1>10. CASE Return(t)  BY <1>10 DEF Return
<1>11. CASE SpuriousWake(t)  BY <1>11 DEF SpuriousWake
<1> QED BY <1>1, <1>2, <1>3, <1>4, <1>5, <1>6, <1>7, <1>8, <1>9, <1>10, <1>11
        DEF Advance

\* The mutexes are where the code believes they are: a thread takes the mutex of
\* its side only when it is free and changes the size only under the size mutex.
LEMMA StepLocks ==
  ASSUME IInv, NEW t \in Threads, Enter(t) \/ Advance(t) \/ SpuriousWake(t)
  PROVE  SideLockHeld' /\ SizeLockHeld'
<1> USE ThreadsAssumption
    DEF IInv, TypeOK, SideLockHeld, SizeLockHeld, Goto, Sides, Side, Other
<1>1. CASE Enter(t)  BY <1>1 DEF Enter
<1>2. CASE Check(t)  BY <1>2 DEF Check
<1>3. CASE Sleep(t)  BY <1>3 DEF Sleep
<1>4. CASE Relock(t)  BY <1>4 DEF Relock
<1>5. CASE LockSize(t)  BY <1>5 DEF LockSize
<1>6. CASE Push(t)  BY <1>6 DEF Push
<1>7. CASE Pop(t)  BY <1>7 DEF Pop
<1>8. CASE Signal(t)  BY <1>8 DEF Signal
<1>9. CASE UnlockSize(t)  BY <1>9 DEF UnlockSize
<1>10. CASE Return(t)  BY <1>10 DEF Return
<1>11. CASE SpuriousWake(t)  BY <1>11 DEF SpuriousWake
<1> QED BY <1>1, <1>2, <1>3, <1>4, <1>5, <1>6, <1>7, <1>8, <1>9, <1>10, <1>11
        DEF Advance

\* A thread about to store the size holds the size mutex, so no other thread is
\* about to store it: its register stays fresh, and what a thread of one side
\* checked is only made truer by the other side.
LEMMA StepChecks ==
  ASSUME IInv, NEW t \in Threads, Enter(t) \/ Advance(t) \/ SpuriousWake(t)
  PROVE  RegisterFresh' /\ CheckStillHolds'
<1> USE ThreadsAssumption, QueueAssumption
    DEF IInv, TypeOK, RegisterFresh, CheckStillHolds, MustWait, Goto
<1>1. CASE Enter(t)  BY <1>1 DEF Enter
<1>2. CASE Check(t)  BY <1>2 DEF Check
<1>3. CASE Sleep(t)  BY <1>3 DEF Sleep
<1>4. CASE Relock(t)  BY <1>4 DEF Relock
<1>5. CASE LockSize(t)  BY <1>5 DEF LockSize
<1>6. CASE Push(t)
  <2>1. t \in Pushers /\ size' = size + 1 /\ pc[t] = "store"  BY <1>6 DEF Push
  <2>2. \A u \in Threads : pc[u] = "store" => u = t
    BY <2>1 DEF SizeLockHeld
  <2>3. \A u \in Pushers : pc[u] \in {"lockSize", "store"} => u = t
    BY <2>1 DEF SideLockHeld, Side, Threads
  <2>4. \A u \in Threads : u # t => pc'[u] = pc[u]  BY <1>6 DEF Push
  <2>5. pc'[t] = "signal"  BY <1>6 DEF Push
  <2>6. RegisterFresh'  BY <1>6, <2>2, <2>4, <2>5 DEF Push
  <2>7. CheckStillHolds'
    BY <2>1, <2>3, <2>4, <2>5 DEF SizeWithinCapacity, Threads
  <2> QED BY <2>6, <2>7
<1>7. CASE Pop(t)
  <2>1. t \in Poppers /\ size' = size - 1 /\ pc[t] = "store"  BY <1>7 DEF Pop
  <2>2. \A u \in Threads : pc[u] = "store" => u = t
    BY <2>1 DEF SizeLockHeld
  <2>3. \A u \in Poppers : pc[u] \in {"lockSize", "store"} => u = t
    BY <2>1 DEF SideLockHeld, Side, Threads
  <2>4. \A u \in Threads : u # t => pc'[u] = pc[u]  BY <1>7 DEF Pop
  <2>5. pc'[t] = "signal"  BY <1>7 DEF Pop
  <2>6. RegisterFresh'  BY <1>7, <2>2, <2>4, <2>5 DEF Pop
  <2>7. CheckStillHolds'
    BY <2>1, <2>3, <2>4, <2>5 DEF SizeWithinCapacity, Threads
  <2> QED BY <2>6, <2>7
<1>8. CASE Signal(t)  BY <1>8 DEF Signal
<1>9. CASE UnlockSize(t)  BY <1>9 DEF UnlockSize
<1>10. CASE Return(t)  BY <1>10 DEF Return
<1>11. CASE SpuriousWake(t)  BY <1>11 DEF SpuriousWake
<1> QED BY <1>1, <1>2, <1>3, <1>4, <1>5, <1>6, <1>7, <1>8, <1>9, <1>10, <1>11
        DEF Advance

\* The size stays between zero and the capacity and changes together with the
\* index of the side that changes it.
LEMMA StepValues ==
  ASSUME IInv, NEW t \in Threads, Enter(t) \/ Advance(t) \/ SpuriousWake(t)
  PROVE  SizeWithinCapacity' /\ IndicesAgree'
<1> USE QueueAssumption
<1>1. CASE Push(t)
  <2>1. size' = size + 1 /\ tail' = tail + 1 /\ head' = head /\ size # Capacity
    BY <1>1 DEF Push, Goto, IInv, RegisterFresh, CheckStillHolds, MustWait
  <2>2. SizeWithinCapacity'
    BY <2>1 DEF IInv, TypeOK, SizeWithinCapacity
  <2>3. tail' - size' = tail - size
    BY <2>1 DEF IInv, TypeOK
  <2> QED BY <2>1, <2>2, <2>3 DEF IInv, IndicesAgree
<1>2. CASE Pop(t)
  <2>1. /\ size' = size - 1 /\ tail' = tail /\ size # 0
        /\ head' = IF head + 1 = Capacity THEN 0 ELSE head + 1
    BY <1>2, ThreadsAssumption
    DEF Pop, Goto, IInv, RegisterFresh, CheckStillHolds, MustWait, Threads
  <2>2. SizeWithinCapacity'
    BY <2>1 DEF IInv, TypeOK, SizeWithinCapacity
  <2>3. tail - size \in Nat /\ tail' - size' = (tail - size) + 1
    BY <2>1 DEF IInv, TypeOK, SizeWithinCapacity
  <2>4. head' = ((tail - size) + 1) % Capacity
    BY <2>1, <2>3, StepModulo DEF IInv, IndicesAgree
  <2> QED BY <2>2, <2>3, <2>4 DEF IndicesAgree
<1>3. CASE ~Push(t) /\ ~Pop(t)
  <2>1. UNCHANGED <<size, head, tail>>
    BY <1>3 DEF Advance, Enter, SpuriousWake, Check, Sleep, Relock, LockSize,
                Signal, UnlockSize, Return
  <2> QED BY <2>1, ValuesKept DEF IInv
<1> QED BY <1>1, <1>2, <1>3

LEMMA StutterIInv == IInv /\ UNCHANGED vars => IInv'
  BY DEF IInv, vars, TypeOK, SideLockHeld, SizeLockHeld, RegisterFresh,
         SizeWithinCapacity, CheckStillHolds, IndicesAgree, MustWait

LEMMA StepIInv == IInv /\ [Next]_vars => IInv'
<1>1. CASE UNCHANGED vars  BY <1>1, StutterIInv
<1>2. ASSUME IInv, NEW t \in Threads, Enter(t) \/ Advance(t) \/ SpuriousWake(t)
      PROVE  IInv'
  BY <1>2, StepType, StepLocks, StepChecks, StepValues DEF IInv
<1> QED BY <1>1, <1>2 DEF Next

\* The inductive invariant holds in every reachable state.
THEOREM InvariantHolds == Spec => []IInv
<1>1. Init => IInv  BY InitIInv
<1>2. IInv /\ [Next]_vars => IInv'  BY StepIInv
<1> QED BY <1>1, <1>2, PTL DEF Spec

\* Type correctness of the queue.
THEOREM TypeCorrect == Spec => []TypeOK
<1>1. IInv => TypeOK  BY DEF IInv
<1> QED BY <1>1, InvariantHolds, PTL

\* Whatever the waiting loop of pcq_enqueue or pcq_dequeue found is still so when
\* the thread stores the new size, for any number of threads.
THEOREM ChecksHold == Spec => []CheckStillHolds
<1>1. IInv => CheckStillHolds  BY DEF IInv
<1> QED BY <1>1, InvariantHolds, PTL

\* pcq_head, pcq_tail and pcq_current_size always agree: no update is lost.
THEOREM NoLostUpdate == Spec => []IndicesAgree
<1>1. IInv => IndicesAgree  BY DEF IInv
<1> QED BY <1>1, InvariantHolds, PTL

\* Every step of a thread in the queue takes a slot, gives one back or leaves the
\* size alone.
LEMMA QueueTakesOrGives == IInv /\ [Next]_vars => [Slots!Next]_size
<1> SUFFICES ASSUME IInv, [Next]_vars PROVE [Slots!Next]_size  OBVIOUS
<1>1. CASE UNCHANGED vars  BY <1>1 DEF vars
<1>2. ASSUME NEW t \in Threads, Push(t)  PROVE Slots!Acquire
  <2>1. size' = size + 1 /\ size # Capacity
    BY <1>2 DEF Push, Goto, IInv, RegisterFresh, CheckStillHolds, MustWait
  <2> QED BY <2>1, QueueAssumption DEF IInv, SizeWithinCapacity, Slots!Acquire
<1>3. ASSUME NEW t \in Threads, Pop(t)  PROVE Slots!Release
  <2>1. size' = size - 1 /\ size # 0
    BY <1>3, ThreadsAssumption
    DEF Pop, Goto, IInv, RegisterFresh, CheckStillHolds, MustWait, Threads
  <2> QED BY <2>1, QueueAssumption DEF IInv, SizeWithinCapacity, Slots!Release
<1>4. ASSUME NEW t \in Threads, ~Push(t), ~Pop(t),
             Enter(t) \/ Advance(t) \/ SpuriousWake(t)
      PROVE  size' = size
  BY <1>4 DEF Advance, Enter, SpuriousWake, Check, Sleep, Relock, LockSize,
              Signal, UnlockSize, Return
<1> QED BY <1>1, <1>2, <1>3, <1>4 DEF Next, Advance, Slots!Next

\* The queue implements the slot counter: the size starts at zero and every step
\* of any thread takes one slot, gives one back or leaves the size alone.
THEOREM ImplementsSlots == Spec => SlotsSpec
<1>1. Init => Slots!Init  BY DEF Init, Slots!Init
<1>2. IInv /\ [Next]_vars => [Slots!Next]_size  BY QueueTakesOrGives
<1> QED BY <1>1, <1>2, InvariantHolds, PTL DEF Spec, SlotsSpec, Slots!Spec
=============================================================================

-------------------------- MODULE Dispatcher_proof --------------------------
(***************************************************************************)
(* The broker's use of its queue, for any number of sessions, requests and *)
(* slots.  What PCQueue_proof shows of the queue alone is lifted to the     *)
(* program that calls it; on top of it comes the count of the sessions that *)
(* hold a slot, from which it follows that no session ever waits to give    *)
(* its slot back.                                                           *)
(***************************************************************************)
EXTENDS Dispatcher, PCQueue_proof, SequenceTheorems, FiniteSetTheorems

\* A thread is inside the queue only while it is at its call.
CallsMatch ==
  /\ pc[Main] # "out" => main = "enqueue"
  /\ \A w \in Poppers : pc[w] # "out" => worker[w] = "dequeue"

\* A session that copies has fields left to copy.
CopyGoesOn ==
  \A w \in Poppers :
    /\ worker[w] = "none" => copy[w] = <<>>
    /\ worker[w] = "copy" => /\ serves[w] # 0
                             /\ Len(copy[w]) < Len(Arrivals[serves[w]].fields)

Holders == {w \in Poppers : HoldsSlot(w)}

DispatchIInv ==
  /\ IInv
  /\ DispatchTypeOK
  /\ CallsMatch
  /\ CopyGoesOn
  /\ SlotPerSession
  /\ DequeueNeverWaits
-----------------------------------------------------------------------------
LEMMA TheThreads ==
  /\ Main \in Threads /\ Main \notin Poppers /\ Threads = {Main} \cup Poppers
  /\ Side(Main) = "push" /\ Other(Main) = "pop"
  /\ \A w \in Poppers : w \in Threads /\ w \notin Pushers /\ Side(w) = "pop" /\ w # NoThread
BY ThreadsAssumption, DispatcherAssumption DEF Threads, Side, Other

LEMMA RequestFacts ==
  ASSUME NEW i \in 1..Len(Arrivals)
  PROVE  /\ Arrivals[i].buffer \in Buffers
         /\ Len(Arrivals[i].fields) \in Fields
         /\ \A f \in 1..Len(Arrivals[i].fields) : f \in Fields /\ Arrivals[i].fields[f] \in Strings
<1>1. Arrivals[i] \in Request
  BY DispatcherAssumption
<1>2. PICK n \in Fields : Arrivals[i].fields \in [1..n -> Strings]
  BY <1>1 DEF Request
<1>3. n \in Nat /\ Arrivals[i].fields \in Seq(Strings) /\ Len(Arrivals[i].fields) = n
  BY <1>2 DEF Fields, MaxFields
<1>4. \A f \in 1..n : f \in Fields
  BY <1>2 DEF Fields, MaxFields
<1> QED
  BY <1>1, <1>2, <1>3, <1>4 DEF Request

LEMMA HoldersFinite == IsFiniteSet(Holders) /\ Cardinality(Holders) \in Nat
<1>1. Holders \subseteq Poppers /\ IsFiniteSet(Poppers)
  BY DispatcherAssumption DEF Holders
<1> QED
  BY <1>1, FS_Subset, FS_CardinalityType

-----------------------------------------------------------------------------
(* The steps of the queue, and what the program adds to them.              *)

\* The steps that leave the queue alone.
OutsideQueue ==
  \/ ReadRequest \/ FillField \/ EnqueueReturned
  \/ \E w \in Poppers : CopyField(w) \/ Served(w) \/ Exit(w)

LEMMA StepKinds ==
  ASSUME DispatchNext
  PROVE  \/ OutsideQueue \/ CallEnqueue \/ CreateThread
         \/ \E w \in Poppers : CallDequeue(w)
         \/ \E t \in Threads : QueueStep(t)
BY DEF DispatchNext, MainStep, WorkerStep, OutsideQueue

LEMMA OutsideKeepsQueue == OutsideQueue => UNCHANGED vars
BY DEF OutsideQueue, ReadRequest, FillField, EnqueueReturned, CopyField, Served, Exit

LEMMA StepQueue ==
  ASSUME DispatchIInv, DispatchNext
  PROVE  IInv'
<1>1. CASE OutsideQueue
  BY <1>1, OutsideKeepsQueue, StutterIInv DEF DispatchIInv
<1>2. CASE CallEnqueue
  <2>1. Next
    BY <1>2, TheThreads DEF CallEnqueue, Next
  <2> QED
    BY <2>1, StepIInv DEF DispatchIInv
<1>3. CASE \E w \in Poppers : CallDequeue(w)
  <2>1. Next
    BY <1>3, TheThreads DEF CallDequeue, Next
  <2> QED
    BY <2>1, StepIInv DEF DispatchIInv
<1>4. CASE \E t \in Threads : QueueStep(t)
  <2>1. Next
    BY <1>4 DEF QueueStep, Next
  <2> QED
    BY <2>1, StepIInv DEF DispatchIInv
<1>5. CASE CreateThread
  <2>1. UNCHANGED <<size, head, tail, sideLock, sizeLock, sleeping, pc, slept, reg>>
    BY <1>5 DEF CreateThread
  <2>2. aborted' \in BOOLEAN
    <3>1. CASE tail - 1 < Capacity
      BY <1>5, <3>1, Zenon DEF CreateThread
    <3>2. CASE ~(tail - 1 < Capacity)
      BY <1>5, <3>2, Zenon DEF CreateThread
    <3> QED
      BY <3>1, <3>2
  <2>3. TypeOK'
    BY <2>1, <2>2 DEF DispatchIInv, IInv, TypeOK
  <2>4. SideLockHeld' /\ SizeLockHeld' /\ RegisterFresh'
    BY <2>1 DEF DispatchIInv, IInv, SideLockHeld, SizeLockHeld, RegisterFresh
  <2>5. SizeWithinCapacity' /\ IndicesAgree'
    BY <2>1, ValuesKept DEF DispatchIInv, IInv
  <2>6. CheckStillHolds'
    BY <2>1 DEF DispatchIInv, IInv, CheckStillHolds, MustWait
  <2> QED
    BY <2>3, <2>4, <2>5, <2>6 DEF IInv
<1> QED
  BY <1>1, <1>2, <1>3, <1>4, <1>5, StepKinds

LEMMA StepDispatchType ==
  ASSUME DispatchIInv, DispatchNext
  PROVE  DispatchTypeOK'
<1>1. DispatchTypeOK /\ Len(Arrivals) \in Nat
  BY DispatcherAssumption DEF DispatchIInv
<1>2. main # "read" => next - 1 \in 1..Len(Arrivals)
  BY <1>1 DEF DispatchTypeOK
<1>3. CASE ReadRequest
  BY <1>1, <1>3 DEF ReadRequest, DispatchTypeOK, MaxFields
<1>4. CASE FillField
  <2>1. /\ Current.buffer \in Buffers /\ filled + 1 \in Fields
        /\ Current.fields[filled + 1] \in Strings
    <3>1. next - 1 \in 1..Len(Arrivals) /\ filled \in Nat /\ filled < Len(Current.fields)
      BY <1>1, <1>2, <1>4 DEF FillField, DispatchTypeOK
    <3>2. Len(Current.fields) \in Nat
      BY <3>1, RequestFacts DEF Current, Fields, MaxFields
    <3>3. filled + 1 \in 1..Len(Current.fields)
      BY <3>1, <3>2
    <3> QED
      BY <3>1, <3>3, RequestFacts DEF Current
  <2>2. filled' = filled + 1 /\ filled' \in 0..MaxFields
    BY <1>4, <2>1 DEF FillField, Fields, MaxFields
  <2>3. shared' \in [Buffers -> [Fields -> Strings \cup {Blank}]]
    BY <1>1, <1>4, <2>1, <2>2 DEF FillField, DispatchTypeOK
  <2> QED
    BY <1>1, <1>4, <2>2, <2>3 DEF FillField, DispatchTypeOK
<1>5. CASE CallEnqueue
  BY <1>1, <1>5 DEF CallEnqueue, DispatchTypeOK
<1>6. CASE EnqueueReturned
  BY <1>1, <1>6 DEF EnqueueReturned, DispatchTypeOK
<1>7. CASE CreateThread
  <2>1. next - 1 \in 0..Len(Arrivals)
    BY <1>1, <1>2, <1>7 DEF CreateThread
  <2> QED
    BY <1>1, <1>7, <2>1 DEF CreateThread, DispatchTypeOK, WorkerSteps
<1>8. ASSUME NEW w \in Poppers, CopyField(w)
      PROVE  DispatchTypeOK'
  <2> DEFINE r == Arrivals[serves[w]]
             k == Len(copy[w]) + 1
  <2>1. /\ copy' = [copy EXCEPT ![w] = Append(@, shared[r.buffer][k])]
        /\ worker' = [worker EXCEPT ![w] = IF k = Len(r.fields) THEN "serve" ELSE "copy"]
        /\ UNCHANGED <<shared, next, filled, main, serves>>
    BY <1>8 DEF CopyField
  <2>2. serves[w] \in 1..Len(Arrivals) /\ Len(copy[w]) < Len(r.fields)
    BY <1>1, <1>8 DEF DispatchIInv, CopyGoesOn, CopyField, DispatchTypeOK
  <2>3. copy[w] \in Seq(Strings \cup {Blank}) /\ Len(copy[w]) \in Nat
    BY <1>1 DEF DispatchTypeOK
  <2>4. Len(r.fields) \in Nat /\ r.buffer \in Buffers
    BY <2>2, RequestFacts DEF Fields, MaxFields
  <2>5. k \in Fields
    <3>1. k \in 1..Len(r.fields)
      BY <2>2, <2>3, <2>4
    <3> QED
      BY <2>2, <3>1, RequestFacts
  <2>6. shared[r.buffer][k] \in Strings \cup {Blank}
    BY <1>1, <2>4, <2>5 DEF DispatchTypeOK
  <2>7. copy' \in [Poppers -> Seq(Strings \cup {Blank})]
    BY <1>1, <2>1, <2>3, <2>6, AppendProperties DEF DispatchTypeOK
  <2>8. worker' \in [Poppers -> WorkerSteps]
    BY <1>1, <2>1 DEF DispatchTypeOK, WorkerSteps
  <2> QED
    BY <1>1, <2>1, <2>7, <2>8 DEF DispatchTypeOK
<1>9. ASSUME NEW w \in Poppers, Served(w) \/ Exit(w) \/ CallDequeue(w)
      PROVE  DispatchTypeOK'
  BY <1>1, <1>9 DEF Served, Exit, CallDequeue, DispatchTypeOK, WorkerSteps
<1>10. CASE \E t \in Threads : QueueStep(t)
  BY <1>1, <1>10 DEF QueueStep, dispatchVars, DispatchTypeOK
<1> QED
  BY <1>3, <1>4, <1>5, <1>6, <1>7, <1>8, <1>9, <1>10, StepKinds DEF OutsideQueue

LEMMA StepCopies ==
  ASSUME DispatchIInv, DispatchNext
  PROVE  CopyGoesOn'
<1>1. DispatchTypeOK /\ CopyGoesOn /\ Len(Arrivals) \in Nat
  BY DispatcherAssumption DEF DispatchIInv
<1>2. CASE CreateThread
  <2>1. PICK w \in Poppers : /\ worker[w] = "none"
                             /\ worker' = [worker EXCEPT ![w] = "copy"]
                             /\ serves' = [serves EXCEPT ![w] = next - 1]
    BY <1>2 DEF CreateThread
  <2>2. next - 1 \in 1..Len(Arrivals) /\ copy' = copy /\ copy[w] = <<>>
    BY <1>1, <1>2, <2>1 DEF CreateThread, DispatchTypeOK, CopyGoesOn
  <2>3. Len(Arrivals[next - 1].fields) \in Nat \ {0}
    <3>1. Len(Arrivals[next - 1].fields) \in Fields
      BY <2>2, RequestFacts
    <3> QED
      BY <3>1 DEF Fields, MaxFields
  <2>4. serves'[w] = next - 1 /\ copy'[w] = <<>> /\ worker'[w] = "copy"
    BY <1>1, <2>1, <2>2 DEF DispatchTypeOK
  <2>5. \A v \in Poppers : v # w => /\ worker'[v] = worker[v] /\ serves'[v] = serves[v]
                                    /\ copy'[v] = copy[v]
    BY <1>1, <2>1, <2>2 DEF DispatchTypeOK
  <2>6. serves'[w] # 0 /\ Len(copy'[w]) < Len(Arrivals[serves'[w]].fields)
    BY <2>2, <2>3, <2>4
  <2> QED
    BY <1>1, <2>4, <2>5, <2>6 DEF CopyGoesOn
<1>3. ASSUME NEW w \in Poppers, CopyField(w)
      PROVE  CopyGoesOn'
  <2> DEFINE r == Arrivals[serves[w]]
             k == Len(copy[w]) + 1
  <2>1. /\ copy' = [copy EXCEPT ![w] = Append(@, shared[r.buffer][k])]
        /\ worker' = [worker EXCEPT ![w] = IF k = Len(r.fields) THEN "serve" ELSE "copy"]
        /\ serves' = serves
    BY <1>3 DEF CopyField
  <2>2. /\ serves[w] # 0 /\ serves[w] \in 1..Len(Arrivals) /\ Len(copy[w]) < Len(r.fields)
        /\ copy[w] \in Seq(Strings \cup {Blank}) /\ Len(copy[w]) \in Nat
    BY <1>1, <1>3 DEF CopyGoesOn, CopyField, DispatchTypeOK
  <2>3. Len(r.fields) \in Nat
    BY <2>2, RequestFacts DEF Fields, MaxFields
  <2>4. /\ copy'[w] = Append(copy[w], shared[r.buffer][k])
        /\ worker'[w] = IF k = Len(r.fields) THEN "serve" ELSE "copy"
        /\ \A v \in Poppers : v # w => worker'[v] = worker[v] /\ copy'[v] = copy[v]
    BY <1>1, <2>1 DEF DispatchTypeOK
  <2>5. Len(copy'[w]) = k
    BY <2>2, <2>4
  <2>6. worker'[w] = "copy" => Len(copy'[w]) < Len(r.fields)
    BY <2>2, <2>3, <2>4, <2>5
  <2>7. worker'[w] # "none"
    BY <2>4
  <2> QED
    BY <1>1, <2>1, <2>2, <2>4, <2>6, <2>7 DEF CopyGoesOn
<1>4. CASE \/ ReadRequest \/ FillField \/ EnqueueReturned \/ CallEnqueue
           \/ \E t \in Threads : QueueStep(t)
  <2>1. UNCHANGED <<worker, serves, copy>>
    BY <1>4 DEF ReadRequest, FillField, EnqueueReturned, CallEnqueue, QueueStep, dispatchVars
  <2> QED
    BY <1>1, <2>1 DEF CopyGoesOn
<1>5. ASSUME NEW w \in Poppers, Served(w) \/ Exit(w) \/ CallDequeue(w)
      PROVE  CopyGoesOn'
  BY <1>1, <1>5 DEF Served, Exit, CallDequeue, CopyGoesOn, DispatchTypeOK
<1> QED
  BY <1>2, <1>3, <1>4, <1>5, StepKinds DEF OutsideQueue
-----------------------------------------------------------------------------
(* Calls, waits and slots.                                                 *)

\* A step of a thread inside the queue moves only that thread.
LEMMA QueueStepMoves ==
  ASSUME TypeOK, NEW t \in Threads, Advance(t)
  PROVE  /\ pc[t] # "out" /\ \A u \in Threads : u # t => pc'[u] = pc[u] /\ slept'[u] = slept[u]
         /\ pc'[t] \in Steps
         /\ pc' = [pc EXCEPT ![t] = pc'[t]]
         /\ \A s \in Sides : s # Side(t) => sideLock'[s] = sideLock[s]
<1> USE DEF TypeOK, Goto, Side, Sides, Steps
<1>1. CASE Check(t)  BY <1>1 DEF Check
<1>2. CASE Sleep(t)  BY <1>2 DEF Sleep
<1>3. CASE Relock(t)  BY <1>3 DEF Relock
<1>4. CASE LockSize(t)  BY <1>4 DEF LockSize
<1>5. CASE Push(t)  BY <1>5 DEF Push
<1>6. CASE Pop(t)  BY <1>6 DEF Pop
<1>7. CASE Signal(t)  BY <1>7 DEF Signal
<1>8. CASE UnlockSize(t)  BY <1>8 DEF UnlockSize
<1>9. CASE Return(t)  BY <1>9 DEF Return
<1> QED BY <1>1, <1>2, <1>3, <1>4, <1>5, <1>6, <1>7, <1>8, <1>9 DEF Advance

LEMMA StepCalls ==
  ASSUME DispatchIInv, DispatchNext
  PROVE  CallsMatch'
<1>1. TypeOK /\ CallsMatch /\ DispatchTypeOK
  BY DEF DispatchIInv, IInv
<1>2. CASE OutsideQueue
  <2>1. pc' = pc
    BY <1>2, OutsideKeepsQueue DEF vars
  <2>2. CASE ReadRequest \/ FillField \/ EnqueueReturned
    BY <1>1, <2>1, <2>2 DEF ReadRequest, FillField, EnqueueReturned, CallsMatch
  <2>3. ASSUME NEW w \in Poppers, CopyField(w) \/ Served(w) \/ Exit(w)
        PROVE  CallsMatch'
    BY <1>1, <2>1, <2>3 DEF CopyField, Served, Exit, CallsMatch, DispatchTypeOK
  <2> QED
    BY <1>2, <2>2, <2>3 DEF OutsideQueue
<1>3. CASE CallEnqueue
  BY <1>1, <1>3, TheThreads DEF CallEnqueue, Enter, Goto, CallsMatch, TypeOK
<1>4. CASE CreateThread
  BY <1>1, <1>4 DEF CreateThread, CallsMatch, DispatchTypeOK
<1>5. ASSUME NEW w \in Poppers, CallDequeue(w)
      PROVE  CallsMatch'
  BY <1>1, <1>5, TheThreads DEF CallDequeue, Enter, Goto, CallsMatch, TypeOK, DispatchTypeOK
<1>6. ASSUME NEW t \in Threads, QueueStep(t)
      PROVE  CallsMatch'
  <2>1. UNCHANGED <<main, worker>>
    BY <1>6 DEF QueueStep, dispatchVars
  <2>2. CASE SpuriousWake(t)
    BY <1>1, <2>1, <2>2 DEF SpuriousWake, CallsMatch
  <2>3. CASE Advance(t)
    BY <1>1, <2>1, <2>3, QueueStepMoves, TheThreads DEF CallsMatch
  <2> QED
    BY <1>6, <2>2, <2>3 DEF QueueStep
<1> QED
  BY <1>2, <1>3, <1>4, <1>5, <1>6, StepKinds

\* The slot that a session holds is counted.
LEMMA HolderCounted ==
  ASSUME DispatchIInv, NEW w \in Poppers, HoldsSlot(w)
  PROVE  size # 0
<1>1. w \in Holders
  BY DEF Holders
<1>2. Cardinality(Holders) # 0
  BY <1>1, HoldersFinite, FS_EmptySet
<1>3. size = Cardinality(Holders) + (IF SlotInTransit THEN 1 ELSE 0)
  BY DEF DispatchIInv, SlotPerSession, Holders
<1> QED
  BY <1>2, <1>3, HoldersFinite

LEMMA StepWaits ==
  ASSUME DispatchIInv, DispatchNext
  PROVE  DequeueNeverWaits'
<1>1. TypeOK /\ CallsMatch /\ DispatchTypeOK /\ DequeueNeverWaits
  BY DEF DispatchIInv, IInv
<1>2. CASE OutsideQueue
  BY <1>1, <1>2, OutsideKeepsQueue DEF vars, DequeueNeverWaits
<1>3. CASE CallEnqueue
  BY <1>1, <1>3, TheThreads DEF CallEnqueue, Enter, Goto, DequeueNeverWaits, TypeOK, Sides
<1>4. CASE CreateThread
  BY <1>1, <1>4 DEF CreateThread, DequeueNeverWaits
<1>5. ASSUME NEW w \in Poppers, CallDequeue(w)
      PROVE  DequeueNeverWaits'
  BY <1>1, <1>5, TheThreads DEF CallDequeue, Enter, Goto, DequeueNeverWaits, TypeOK, Sides
<1>6. ASSUME NEW t \in Threads, SpuriousWake(t)
      PROVE  DequeueNeverWaits'
  BY <1>1, <1>6 DEF SpuriousWake, DequeueNeverWaits
<1>7. CASE Advance(Main)
  <2>1. /\ \A w \in Poppers : pc'[w] = pc[w] /\ slept'[w] = slept[w]
        /\ sideLock'["pop"] = sideLock["pop"]
    BY <1>1, <1>7, QueueStepMoves, TheThreads DEF Sides
  <2> QED
    BY <1>1, <2>1 DEF DequeueNeverWaits
<1>8. ASSUME NEW w \in Poppers, Advance(w)
      PROVE  DequeueNeverWaits'
  <2>1. /\ \A v \in Poppers : v # w => pc'[v] = pc[v] /\ slept'[v] = slept[v]
        /\ pc[w] \notin {"sleep", "asleep"} /\ ~slept[w] /\ w \in Threads
        /\ w # NoThread /\ w \notin Pushers /\ Side(w) = "pop"
    BY <1>1, <1>8, QueueStepMoves, TheThreads DEF DequeueNeverWaits
  <2>2. CASE Check(w)
    <3>1. worker[w] = "dequeue" /\ pc[w] = "check"
      BY <1>1, <2>2 DEF Check, Goto, CallsMatch
    <3>2. ~MustWait(w)
      BY <2>1, <3>1, HolderCounted DEF HoldsSlot, MustWait
    <3>3. pc'[w] = "lockSize" /\ slept' = slept /\ sideLock' = sideLock
      BY <1>1, <2>1, <2>2, <3>2 DEF Check, Goto, TypeOK
    <3> QED
      BY <1>1, <2>1, <3>3 DEF DequeueNeverWaits
  <2>3. CASE Return(w)
    <3>1. slept' = slept /\ sideLock'["pop"] = NoThread /\ pc'[w] = "out"
      BY <1>1, <2>1, <2>3 DEF Return, Goto, TypeOK, Sides
    <3>2. \A v \in Poppers : sideLock'["pop"] # v
      BY <3>1, TheThreads
    <3> QED
      BY <1>1, <2>1, <3>1, <3>2 DEF DequeueNeverWaits
  <2>4. CASE ~Check(w) /\ ~Return(w)
    <3>1. /\ slept' = slept /\ sideLock' = sideLock
          /\ pc'[w] \in {"store", "signal", "unlockSize", "return"}
      BY <1>1, <1>8, <2>1, <2>4
      DEF Advance, Sleep, Relock, LockSize, Push, Pop, Signal, UnlockSize, Goto, TypeOK
    <3> QED
      BY <1>1, <2>1, <3>1 DEF DequeueNeverWaits
  <2> QED
    BY <2>2, <2>3, <2>4
<1> QED
  BY <1>2, <1>3, <1>4, <1>5, <1>6, <1>7, <1>8, StepKinds, TheThreads DEF QueueStep
LEMMA SlotsKept ==
  ASSUME SlotPerSession, size' = size, SlotInTransit' <=> SlotInTransit,
         \A w \in Poppers : HoldsSlot(w)' <=> HoldsSlot(w)
  PROVE  SlotPerSession'
<1>1. {w \in Poppers : HoldsSlot(w)}' = {w \in Poppers : HoldsSlot(w)}
  OBVIOUS
<1> QED
  BY <1>1 DEF SlotPerSession

LEMMA StepSlots ==
  ASSUME DispatchIInv, DispatchNext
  PROVE  SlotPerSession'
<1>1. /\ TypeOK /\ CallsMatch /\ DispatchTypeOK /\ SlotPerSession
      /\ RegisterFresh
  BY DEF DispatchIInv, IInv
<1>2. /\ size = Cardinality(Holders) + (IF SlotInTransit THEN 1 ELSE 0)
      /\ SlotPerSession' <=> size' = Cardinality(Holders') + (IF SlotInTransit' THEN 1 ELSE 0)
  BY <1>1 DEF SlotPerSession, Holders
<1>3. CASE OutsideQueue
  <2>1. UNCHANGED <<size, pc>>
    BY <1>3, OutsideKeepsQueue DEF vars
  <2>2. CASE ReadRequest \/ FillField \/ EnqueueReturned
    <3>1. \A w \in Poppers : HoldsSlot(w)' <=> HoldsSlot(w)
      BY <2>1, <2>2 DEF ReadRequest, FillField, EnqueueReturned, HoldsSlot
    <3>2. SlotInTransit' <=> SlotInTransit
      BY <2>1, <2>2 DEF ReadRequest, FillField, EnqueueReturned, SlotInTransit
    <3> QED
      BY <1>1, <2>1, <3>1, <3>2, SlotsKept
  <2>3. ASSUME NEW v \in Poppers, CopyField(v) \/ Served(v) \/ Exit(v)
        PROVE  SlotPerSession'
    <3>1. \A w \in Poppers : HoldsSlot(w)' <=> HoldsSlot(w)
      BY <1>1, <2>1, <2>3 DEF CopyField, Served, Exit, HoldsSlot, DispatchTypeOK
    <3>2. SlotInTransit' <=> SlotInTransit
      BY <2>1, <2>3 DEF CopyField, Served, Exit, SlotInTransit
    <3> QED
      BY <1>1, <2>1, <3>1, <3>2, SlotsKept
  <2> QED
    BY <1>3, <2>2, <2>3 DEF OutsideQueue
<1>4. CASE CallEnqueue
  <2>1. /\ main = "fill" /\ main' = "enqueue" /\ size' = size /\ worker' = worker
        /\ pc'[Main] = "check" /\ \A w \in Poppers : pc'[w] = pc[w]
    BY <1>1, <1>4, TheThreads DEF CallEnqueue, Enter, Goto, TypeOK
  <2>2. \A w \in Poppers : HoldsSlot(w)' <=> HoldsSlot(w)
    BY <2>1 DEF HoldsSlot
  <2>3. SlotInTransit' <=> SlotInTransit
    BY <2>1 DEF SlotInTransit
  <2> QED
    BY <1>1, <2>1, <2>2, <2>3, SlotsKept
<1>5. CASE CreateThread
  <2>1. PICK w \in Poppers : worker[w] = "none" /\ worker' = [worker EXCEPT ![w] = "copy"]
    BY <1>5 DEF CreateThread
  <2>2. UNCHANGED <<size, pc>> /\ main = "create" /\ main' = "read"
    BY <1>5 DEF CreateThread
  <2>3. SlotInTransit /\ ~SlotInTransit'
    BY <2>2 DEF SlotInTransit
  <2>4. /\ ~HoldsSlot(w) /\ HoldsSlot(w)'
        /\ \A v \in Poppers : v # w => (HoldsSlot(v)' <=> HoldsSlot(v))
    BY <1>1, <2>1, <2>2 DEF HoldsSlot, DispatchTypeOK
  <2>5. Holders' = Holders \cup {w} /\ w \notin Holders
    BY <2>4 DEF Holders
  <2>6. Cardinality(Holders') = Cardinality(Holders) + 1
    BY <2>5, HoldersFinite, FS_AddElement
  <2> QED
    BY <1>2, <2>2, <2>3, <2>6, HoldersFinite
<1>6. ASSUME NEW w \in Poppers, CallDequeue(w)
      PROVE  SlotPerSession'
  <2>1. /\ worker[w] = "over" /\ worker'[w] = "dequeue" /\ pc'[w] = "check"
        /\ \A v \in Poppers : v # w => worker'[v] = worker[v] /\ pc'[v] = pc[v]
        /\ pc'[Main] = pc[Main] /\ UNCHANGED <<size, main>>
    BY <1>1, <1>6, TheThreads DEF CallDequeue, Enter, Goto, TypeOK, DispatchTypeOK
  <2>2. \A v \in Poppers : HoldsSlot(v)' <=> HoldsSlot(v)
    BY <2>1 DEF HoldsSlot
  <2>3. SlotInTransit' <=> SlotInTransit
    BY <2>1 DEF SlotInTransit
  <2> QED
    BY <1>1, <2>1, <2>2, <2>3, SlotsKept
<1>7. ASSUME NEW t \in Threads, SpuriousWake(t), UNCHANGED dispatchVars
      PROVE  SlotPerSession'
  <2>1. UNCHANGED <<size, pc, main, worker>>
    BY <1>7 DEF SpuriousWake, dispatchVars
  <2> QED
    BY <1>1, <2>1, SlotsKept DEF HoldsSlot, SlotInTransit
<1>8. CASE Advance(Main) /\ UNCHANGED dispatchVars
  <2>1. /\ UNCHANGED <<main, worker>> /\ main = "enqueue"
        /\ \A w \in Poppers : pc'[w] = pc[w]
    BY <1>1, <1>8, QueueStepMoves, TheThreads DEF dispatchVars, CallsMatch
  <2>2. \A w \in Poppers : HoldsSlot(w)' <=> HoldsSlot(w)
    BY <2>1 DEF HoldsSlot
  <2>3. CASE Push(Main)
    <3>1. pc[Main] = "store" /\ pc'[Main] = "signal" /\ size' = size + 1
      BY <1>1, <2>3, TheThreads DEF Push, Goto, TypeOK, RegisterFresh
    <3>2. ~SlotInTransit /\ SlotInTransit'
      BY <2>1, <3>1 DEF SlotInTransit
    <3>3. Holders' = Holders
      BY <2>2 DEF Holders
    <3> QED
      BY <1>2, <3>1, <3>2, <3>3, HoldersFinite
  <2>4. CASE ~Push(Main)
    <3>1. /\ size' = size
          /\ pc[Main] \in {"signal", "unlockSize", "return", "out"}
               <=> pc'[Main] \in {"signal", "unlockSize", "return", "out"}
      BY <1>1, <1>8, <2>4, TheThreads
      DEF Advance, Check, Sleep, Relock, LockSize, Pop, Signal, UnlockSize, Return, Goto, TypeOK
    <3>2. SlotInTransit' <=> SlotInTransit
      BY <2>1, <3>1 DEF SlotInTransit
    <3> QED
      BY <1>1, <2>2, <3>1, <3>2, SlotsKept
  <2> QED
    BY <2>3, <2>4
<1>9. ASSUME NEW w \in Poppers, Advance(w), UNCHANGED dispatchVars
      PROVE  SlotPerSession'
  <2>1. /\ UNCHANGED <<main, worker>> /\ worker[w] = "dequeue" /\ pc'[Main] = pc[Main]
        /\ \A v \in Poppers : v # w => pc'[v] = pc[v]
    BY <1>1, <1>9, QueueStepMoves, TheThreads DEF dispatchVars, CallsMatch
  <2>2. SlotInTransit' <=> SlotInTransit
    BY <2>1 DEF SlotInTransit
  <2>3. \A v \in Poppers : v # w => (HoldsSlot(v)' <=> HoldsSlot(v))
    BY <2>1 DEF HoldsSlot
  <2>4. CASE Pop(w)
    <3>1. pc[w] = "store" /\ pc'[w] = "signal" /\ size' = size - 1
      BY <1>1, <2>4, TheThreads DEF Pop, Goto, TypeOK, RegisterFresh
    <3>2. HoldsSlot(w) /\ ~HoldsSlot(w)'
      BY <2>1, <3>1 DEF HoldsSlot
    <3>3. Holders' = Holders \ {w} /\ w \in Holders
      BY <2>3, <3>2 DEF Holders
    <3>4. Cardinality(Holders') = Cardinality(Holders) - 1
      BY <3>3, HoldersFinite, FS_RemoveElement
    <3> QED
      BY <1>2, <2>2, <3>1, <3>4, HoldersFinite
  <2>5. CASE ~Pop(w)
    <3>1. /\ size' = size
          /\ pc[w] \in {"check", "sleep", "asleep", "lockSize", "store"}
               <=> pc'[w] \in {"check", "sleep", "asleep", "lockSize", "store"}
      BY <1>1, <1>9, <2>5, TheThreads
      DEF Advance, Check, Sleep, Relock, LockSize, Push, Signal, UnlockSize, Return, Goto, TypeOK
    <3>2. HoldsSlot(w)' <=> HoldsSlot(w)
      BY <2>1, <3>1 DEF HoldsSlot
    <3> QED
      BY <1>1, <2>2, <2>3, <3>1, <3>2, SlotsKept
  <2> QED
    BY <2>4, <2>5
<1> QED
  BY <1>3, <1>4, <1>5, <1>6, <1>7, <1>8, <1>9, StepKinds, TheThreads DEF QueueStep
-----------------------------------------------------------------------------
LEMMA InitDispatch == DispatchInit => DispatchIInv
<1> SUFFICES ASSUME DispatchInit PROVE DispatchIInv
  OBVIOUS
<1>1. IInv
  BY InitIInv DEF DispatchInit
<1>2. DispatchTypeOK
  <2>1. Len(Arrivals) \in Nat
    BY DispatcherAssumption
  <2> QED
    BY <2>1 DEF DispatchInit, DispatchTypeOK, WorkerSteps, MaxFields
<1>3. \A t \in Threads : pc[t] = "out" /\ ~slept[t]
  BY DEF DispatchInit, Init
<1>4. CallsMatch /\ CopyGoesOn
  BY <1>3, TheThreads DEF DispatchInit, CallsMatch, CopyGoesOn
<1>5. SlotPerSession
  <2>1. {w \in Poppers : HoldsSlot(w)} = {} /\ ~SlotInTransit /\ size = 0
    BY DEF DispatchInit, Init, HoldsSlot, SlotInTransit
  <2> QED
    BY <2>1, FS_EmptySet DEF SlotPerSession
<1>6. DequeueNeverWaits
  BY <1>3, TheThreads DEF DispatchInit, Init, DequeueNeverWaits, Sides
<1> QED
  BY <1>1, <1>2, <1>4, <1>5, <1>6 DEF DispatchIInv

LEMMA StepDispatch == DispatchIInv /\ [DispatchNext]_allVars => DispatchIInv'
<1>1. ASSUME DispatchIInv, DispatchNext PROVE DispatchIInv'
  BY <1>1, StepQueue, StepDispatchType, StepCalls, StepCopies, StepSlots, StepWaits
  DEF DispatchIInv
<1>2. ASSUME DispatchIInv, UNCHANGED allVars PROVE DispatchIInv'
  <2>1. UNCHANGED vars /\ UNCHANGED dispatchVars
    BY <1>2 DEF allVars
  <2>2. IInv'
    BY <1>2, <2>1, StutterIInv DEF DispatchIInv
  <2>3. DispatchTypeOK' /\ CallsMatch' /\ CopyGoesOn' /\ DequeueNeverWaits'
    BY <1>2, <2>1 DEF vars, dispatchVars, DispatchIInv, DispatchTypeOK, CallsMatch, CopyGoesOn,
                      DequeueNeverWaits
  <2>4. SlotPerSession'
    BY <1>2, <2>1, SlotsKept DEF vars, dispatchVars, DispatchIInv, HoldsSlot, SlotInTransit
  <2> QED
    BY <2>2, <2>3, <2>4 DEF DispatchIInv
<1> QED
  BY <1>1, <1>2

\* What the queue and its callers keep to, for any number of each.
THEOREM DispatchInvariantHolds == DispatchSpec => []DispatchIInv
<1>1. DispatchInit => DispatchIInv
  BY InitDispatch
<1>2. DispatchIInv /\ [DispatchNext]_allVars => DispatchIInv'
  BY StepDispatch
<1> QED
  BY <1>1, <1>2, PTL DEF DispatchSpec

\* The variables of the main thread and of the sessions have their types: no
\* session reads past the fields of its request, nor the main thread past the
\* requests that arrived.
THEOREM DispatcherTypeCorrect == DispatchSpec => []DispatchTypeOK
<1>1. DispatchIInv => DispatchTypeOK
  BY DEF DispatchIInv
<1> QED
  BY <1>1, DispatchInvariantHolds, PTL

\* Called by the main thread and the sessions as it is, the queue keeps its head,
\* its tail and its size in agreement, and what its waiting loops check.
THEOREM QueueStaysSound == DispatchSpec => [](TypeOK /\ CheckStillHolds /\ IndicesAgree)
<1>1. DispatchIInv => TypeOK /\ CheckStillHolds /\ IndicesAgree
  BY DEF DispatchIInv, IInv
<1> QED
  BY <1>1, DispatchInvariantHolds, PTL

\* pcq_current_size is the number of sessions that have a slot, with the one that
\* main_thread_function is creating: whatever max_sessions is, no slot is lost
\* and none is given back twice.
THEOREM SlotsAreSessions == DispatchSpec => []SlotPerSession
<1>1. DispatchIInv => SlotPerSession
  BY DEF DispatchIInv
<1> QED
  BY <1>1, DispatchInvariantHolds, PTL

\* pcq_dequeue never blocks a session that ends, so that the mutex which a popper
\* that slept would keep is never kept.
THEOREM SessionsNeverWait == DispatchSpec => []DequeueNeverWaits
<1>1. DispatchIInv => DequeueNeverWaits
  BY DEF DispatchIInv
<1> QED
  BY <1>1, DispatchInvariantHolds, PTL

\* The broker as a whole implements the slot counter: every step of the main
\* thread or of a session takes a slot, gives one back or leaves them alone.
THEOREM DispatcherImplementsSlots == DispatchSpec => SlotsSpec
<1>1. DispatchInit => Slots!Init
  BY DEF DispatchInit, Init, Slots!Init
<1>2. DispatchIInv /\ [DispatchNext]_allVars => [Slots!Next]_size
  <2> SUFFICES ASSUME DispatchIInv, [DispatchNext]_allVars PROVE [Slots!Next]_size
    OBVIOUS
  <2>1. CASE UNCHANGED allVars
    BY <2>1 DEF allVars, vars
  <2>2. CASE OutsideQueue \/ CreateThread
    BY <2>2, OutsideKeepsQueue DEF vars, CreateThread
  <2>3. CASE Next
    BY <2>3, QueueTakesOrGives DEF DispatchIInv
  <2>4. DispatchNext => OutsideQueue \/ CreateThread \/ Next
    BY StepKinds, TheThreads DEF CallEnqueue, CallDequeue, QueueStep, Next
  <2> QED
    BY <2>1, <2>2, <2>3, <2>4
<1> QED
  BY <1>1, <1>2, DispatchInvariantHolds, PTL DEF DispatchSpec, SlotsSpec, Slots!Spec
=============================================================================

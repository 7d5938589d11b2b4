----------------------------- MODULE Dispatcher -----------------------------
(***************************************************************************)
(* The main thread of mbroker.c and the life of the session threads it     *)
(* creates.  The main thread reads requests off the register pipe, copies  *)
(* each into a buffer it shares with every session (args, or pipe_name for *)
(* a listing), takes a slot of the queue and creates the session thread.   *)
(* The session copies the buffer, serves the request and gives its slot    *)
(* back; what it does in between is the matter of other modules.           *)
(*                                                                         *)
(* Every call of the queue is made by one of these threads: the pusher is  *)
(* the main thread, the poppers are the sessions.                          *)
(***************************************************************************)
EXTENDS PCQueue, Sequences, FiniteSets

CONSTANTS
  Main,        (* the main thread                                          *)
  Arrivals,    (* the requests on the register pipe, in order: each is a   *)
               (* record of the shared buffer it goes through and of the   *)
               (* fields it carries                                        *)
  Buffers,     (* "args" and "pipe_name"                                   *)
  Strings,     (* what a field may hold                                    *)
  Blank        (* the contents of a buffer nobody has filled               *)

MaxFields == 2
Fields == 1..MaxFields
Request == [buffer : Buffers, fields : UNION {[1..n -> Strings] : n \in Fields}]

ASSUME DispatcherAssumption ==
  /\ Pushers = {Main}
  /\ IsFiniteSet(Poppers)
  /\ Arrivals \in Seq(Request)
  /\ Blank \notin Strings

VARIABLES
  shared,      (* the buffers, field by field                              *)
  next,        (* index of the request the main thread reads next          *)
  filled,      (* fields of the current request copied to the buffer       *)
  main,        (* where the main thread is                                 *)
  worker,      (* where each session thread is                             *)
  serves,      (* index of the request each session was created for        *)
  copy         (* the fields each session has copied                       *)

dispatchVars == <<shared, next, filled, main, worker, serves, copy>>
allVars == <<vars, dispatchVars>>

WorkerSteps == {"none", "copy", "serve", "over", "dequeue", "exited"}

DispatchTypeOK ==
  /\ shared \in [Buffers -> [Fields -> Strings \cup {Blank}]]
  /\ next \in 1..(Len(Arrivals) + 1)
  /\ filled \in 0..MaxFields
  /\ main \in {"read", "fill", "enqueue", "create"}
  /\ main # "read" => next > 1
  /\ worker \in [Poppers -> WorkerSteps]
  /\ serves \in [Poppers -> 0..Len(Arrivals)]
  /\ copy \in [Poppers -> Seq(Strings \cup {Blank})]

DispatchInit ==
  /\ Init
  /\ shared = [b \in Buffers |-> [f \in Fields |-> Blank]]
  /\ next = 1
  /\ filled = 0
  /\ main = "read"
  /\ worker = [w \in Poppers |-> "none"]
  /\ serves = [w \in Poppers |-> 0]
  /\ copy = [w \in Poppers |-> <<>>]

Current == Arrivals[next - 1]

-----------------------------------------------------------------------------
\* Mutant: the request is not consumed.
ReadRequest_Peek ==
  /\ ~aborted /\ main = "read" /\ next <= Len(Arrivals)
  /\ filled' = 0
  /\ main' = "fill"
  /\ UNCHANGED <<vars, shared, next, worker, serves, copy>>

\* Reads the code and the body of the next request.
ReadRequest ==
  /\ ~aborted /\ main = "read" /\ next <= Len(Arrivals)
  /\ next' = next + 1
  /\ filled' = 0
  /\ main' = "fill"
  /\ UNCHANGED <<vars, shared, worker, serves, copy>>

\* One strcpy into the shared buffer.
FillField ==
  /\ ~aborted /\ main = "fill" /\ filled < Len(Current.fields)
  /\ filled' = filled + 1
  /\ shared' = [shared EXCEPT ![Current.buffer][filled'] = Current.fields[filled']]
  /\ UNCHANGED <<vars, next, main, worker, serves, copy>>

\* Calls pcq_enqueue.
CallEnqueue ==
  /\ main = "fill" /\ filled = Len(Current.fields)
  /\ Enter(Main)
  /\ main' = "enqueue"
  /\ UNCHANGED <<shared, next, filled, worker, serves, copy>>

\* pcq_enqueue has returned.
EnqueueReturned ==
  /\ ~aborted /\ main = "enqueue" /\ pc[Main] = "out"
  /\ main' = "create"
  /\ UNCHANGED <<vars, shared, next, filled, worker, serves, copy>>

\* pthread_create writes the thread id to tid[index], index being the tail read
\* before the enqueue; tid has Capacity elements, and a write past them either
\* does no harm or kills the process.
CreateThread ==
  /\ ~aborted /\ main = "create"
  /\ \E w \in Poppers :
       /\ worker[w] = "none"
       /\ worker' = [worker EXCEPT ![w] = "copy"]
       /\ serves' = [serves EXCEPT ![w] = next - 1]
  /\ main' = "read"
  /\ aborted' \in (IF tail - 1 < Capacity THEN {FALSE} ELSE BOOLEAN)
  /\ UNCHANGED <<size, head, tail, sideLock, sizeLock, sleeping, pc, slept, reg,
                 shared, next, filled, copy>>

\* The session copies one field out of the buffer it was given a pointer to.
\* (publisher_function reads the name of its pipe there once more when it is
\* accepted, a matter of PubName in Broker.)
CopyField(w) ==
  /\ ~aborted /\ worker[w] = "copy"
  /\ LET r == Arrivals[serves[w]]
         k == Len(copy[w]) + 1
     IN  /\ copy' = [copy EXCEPT ![w] = Append(@, shared[r.buffer][k])]
         /\ worker' = [worker EXCEPT ![w] = IF k = Len(r.fields) THEN "serve" ELSE "copy"]
  /\ UNCHANGED <<vars, shared, next, filled, main, serves>>

\* Mutant: an early return of the session that forgets pcq_dequeue.
Served_NoDequeue(w) ==
  /\ ~aborted /\ worker[w] = "serve"
  /\ worker' = [worker EXCEPT ![w] = "exited"]
  /\ UNCHANGED <<vars, shared, next, filled, main, serves, copy>>

\* The session has served its request.
Served(w) ==
  /\ ~aborted /\ worker[w] = "serve"
  /\ worker' = [worker EXCEPT ![w] = "over"]
  /\ UNCHANGED <<vars, shared, next, filled, main, serves, copy>>

\* Calls pcq_dequeue: every path through a session does so once, and what a session
\* did on its path is one step here (Served).  Of shared state a publisher touches
\* no more than the handle it closes afterwards, a matter of PubEnd in Broker.
CallDequeue(w) ==
  /\ worker[w] = "over"
  /\ Enter(w)
  /\ worker' = [worker EXCEPT ![w] = "dequeue"]
  /\ UNCHANGED <<shared, next, filled, main, serves, copy>>

\* Mutant: the session goes on to a second pcq_dequeue.
Exit_DequeueAgain(w) ==
  /\ ~aborted /\ worker[w] = "dequeue" /\ pc[w] = "out"
  /\ worker' = [worker EXCEPT ![w] = "over"]
  /\ UNCHANGED <<vars, shared, next, filled, main, serves, copy>>

\* pcq_dequeue has returned and the thread ends.
Exit(w) ==
  /\ ~aborted /\ worker[w] = "dequeue" /\ pc[w] = "out"
  /\ worker' = [worker EXCEPT ![w] = "exited"]
  /\ UNCHANGED <<vars, shared, next, filled, main, serves, copy>>

\* A step of the queue's own code, or a wakeup without a signal.
QueueStep(t) == (Advance(t) \/ SpuriousWake(t)) /\ UNCHANGED dispatchVars

MainStep == ReadRequest \/ FillField \/ CallEnqueue \/ EnqueueReturned \/ CreateThread

WorkerStep(w) == CopyField(w) \/ CallDequeue(w) \/ Exit(w)

DispatchNext ==
  \/ MainStep
  \/ \E w \in Poppers : WorkerStep(w) \/ Served(w)
  \/ \E t \in Threads : QueueStep(t)

DispatchSpec == DispatchInit /\ [][DispatchNext]_allVars

\* The threads run, and a mutex that keeps being free is granted in the end,
\* which is why the fairness of a session is strong.  Nothing says that a
\* session ends (Served has no fairness: a subscriber may stay for ever), nor
\* that a thread wakes up without a signal.
DispatchFairness ==
  /\ WF_allVars(MainStep)
  /\ WF_allVars(Advance(Main) /\ UNCHANGED dispatchVars)
  /\ \A w \in Poppers :
       SF_allVars(WorkerStep(w) \/ (Advance(w) /\ UNCHANGED dispatchVars))

FairDispatchSpec == DispatchSpec /\ DispatchFairness
-----------------------------------------------------------------------------
\* A session that has not given its slot back: created, and its decrement of
\* pcq_current_size not yet stored.
HoldsSlot(w) ==
  \/ worker[w] \in {"copy", "serve", "over"}
  \/ worker[w] = "dequeue" /\ pc[w] \in {"check", "sleep", "asleep", "lockSize", "store"}

\* The main thread has taken a slot for a session it has not created yet.
SlotInTransit ==
  \/ main = "create"
  \/ main = "enqueue" /\ pc[Main] \in {"signal", "unlockSize", "return", "out"}

\* The queue counts the sessions: its size is the number of session threads
\* that have a slot, plus the one being created, so that at most max_sessions
\* requests are served at a time.
SlotPerSession ==
  size = Cardinality({w \in Poppers : HoldsSlot(w)}) + (IF SlotInTransit THEN 1 ELSE 0)

\* No session ever waits in pcq_dequeue, whose slot it holds itself, so the
\* mutex that a waiting popper fails to release is always released.
DequeueNeverWaits ==
  /\ \A w \in Poppers : pc[w] \notin {"sleep", "asleep"} /\ ~slept[w]
  /\ \A w \in Poppers : sideLock["pop"] = w => pc[w] # "out"

\* A session whose work is over always gets to give its slot back.
SlotGivenBack == \A w \in Poppers : worker[w] = "over" ~> (worker[w] = "exited" \/ aborted)

\* A session serves the request it was created for: the argument structure of
\* the registration threads reaches them as the main thread filled it.
ServesOwnRequest ==
  \A w \in Poppers :
    worker[w] \notin {"none", "copy"} => copy[w] = Arrivals[serves[w]].fields
=============================================================================

------------------------- MODULE RegisterPipe_proof -------------------------
(***************************************************************************)
(* What the main thread reads off the register pipe, for any clients, names *)
(* and sizes of the two arrays.  Beside the types the invariant has three   *)
(* parts.  Layout says where the requests lie in the pipe as long as no     *)
(* client disturbed another; CodesComeFromClients counts codes whatever the *)
(* clients do; DeathsLeaveTraces says that a code is followed by its body,  *)
(* or by a client that is still to write it, or is dead.                    *)
(***************************************************************************)
EXTENDS RegisterPipe, SequenceTheorems, FiniteSetTheorems, TLAPS

\* The first read of a code is still to come, and code is what the stack held.
Fresh == reader \in {"opening", "code"} /\ code # 0

\* A client has written its code and not its body, or is dead.
Unfinished == \E c \in Clients : client[c] \in {"coded", "dead"}

DeathsLeaveTraces ==
  /\ reader # "opening" => \E c \in Clients : client[c] # "new"
  /\ pipe # <<>> /\ pipe[Len(pipe)] \in Codes => Unfinished
  /\ pipe = <<>> /\ reader = "body" => Unfinished
  /\ pipe = <<>> /\ Fresh => \A c \in Clients : client[c] \notin {"sent", "closed"}
  /\ ExitNeedsADeath

\* Where a code is: in accepted requests, in what was written, in the pipe.
AcceptedWith(n) == {k \in 1..Len(accepted) : accepted[k].code = n}
WrittenWith(n)  == {k \in 1..Len(written) : Asks[written[k]].code = n}
PipedWith(n)    == {k \in 1..Len(pipe) : pipe[k] = n}

\* Every code that was read or may be read is one that a client wrote, but for the
\* one of the stack, which ReadNoCode uses up.
CodesComeFromClients ==
  \A n \in Codes :
    Cardinality(AcceptedWith(n)) + Cardinality(PipedWith(n))
        + (IF reader = "body" /\ code = n THEN 1 ELSE 0)
      <= Cardinality(WrittenWith(n)) + (IF clean \/ Fresh THEN 0 ELSE 1)

\* The bytes of the body of the k-th request that are written.
Reach(k) == IF client[written[k]] = "coded" THEN 0 ELSE BodySize(Asks[written[k]].code)

Pending == (Len(accepted) + 1)..Len(written)

\* The code of the k-th request is at start[k] of the pipe, or was just read if
\* that is 0, and its body comes right after it.
Laid(start) ==
  /\ \A k \in Pending : /\ k = Len(accepted) + 1 /\ reader # "failed" =>
                             start[k] = IF reader = "body" THEN 0 ELSE 1
                        /\ k > Len(accepted) + 1 =>
                             start[k] = start[k - 1] + 1 + Reach(k - 1)
                        /\ start[k] > 0 => pipe[start[k]] = Asks[written[k]].code
                        /\ start[k] + Reach(k) <= Len(pipe)
                        /\ k = Len(written) => Len(pipe) = start[k] + Reach(k)
                        /\ \A j \in 1..Reach(k) : pipe[start[k] + j] = Body(written[k])[j]
  /\ \A j, k \in Pending : j < k => start[j] + Reach(j) < start[k]

Layout ==
  clean =>
    /\ RequestsReadWhole
    /\ Len(accepted) <= Len(written)
    /\ Len(accepted) = Len(written) => pipe = <<>>
    /\ reader = "body" => /\ Len(accepted) < Len(written)
                          /\ code = Asks[written[Len(accepted) + 1]].code
    /\ \A c \in Clients : client[c] = "coded" =>
         Len(accepted) < Len(written) /\ written[Len(written)] = c
    /\ \A k \in 1..Len(written) : /\ client[written[k]] \notin {"new", "open"}
                                  /\ client[written[k]] = "coded" => k = Len(written)
    /\ \E start \in [Pending -> 0..Len(pipe)] : Laid(start)

IInv == PipeTypeOK /\ DeathsLeaveTraces /\ CodesComeFromClients /\ Layout
-----------------------------------------------------------------------------
(* Names, bodies and the bytes of the pipe.                                *)

\* What fill_string returns has the size of the array, and holds text and
\* terminators.
LEMMA Filling ==
  ASSUME NEW size \in Nat, NEW string \in Seq(Text)
  PROVE  /\ fill_string(size, string) \in Seq(Text \cup {0})
         /\ Len(fill_string(size, string)) = size
<1>1. \A k \in 1..size : (IF k <= Len(string) THEN string[k] ELSE 0) \in Text \cup {0}
  OBVIOUS
<1> QED
  BY <1>1 DEF fill_string

\* A body has the size that the main thread reads after its code, and no byte of
\* it could be taken for a code.
LEMMA BodyFacts ==
  ASSUME NEW c \in Clients
  PROVE  /\ Asks[c].code \in Codes /\ Asks[c].code \in Nat
         /\ BodySize(Asks[c].code) \in Nat \ {0}
         /\ Body(c) \in Seq(Nat)
         /\ Len(Body(c)) = BodySize(Asks[c].code)
         /\ \A j \in 1..Len(Body(c)) : Body(c)[j] \notin Codes
<1>1. /\ PIPE_NAME_SIZE \in Nat \ {0} /\ BOX_NAME_SIZE \in Nat \ {0}
      /\ Asks[c].code \in Codes
      /\ Asks[c].name \in Seq(Text) /\ Asks[c].box \in Seq(Text)
  BY PipeAssumption
<1> DEFINE name == fill_string(PIPE_NAME_SIZE, Asks[c].name)
           box == fill_string(BOX_NAME_SIZE, Asks[c].box)
<1>2. /\ name \in Seq(Text \cup {0}) /\ Len(name) = PIPE_NAME_SIZE
      /\ box \in Seq(Text \cup {0}) /\ Len(box) = BOX_NAME_SIZE
  BY <1>1, Filling
<1>3. /\ Body(c) \in Seq(Text \cup {0})
      /\ Len(Body(c)) = BodySize(Asks[c].code)
  <2> HIDE DEF name, box
  <2>1. Body(c) = IF Asks[c].code = ListCode THEN name ELSE name \o box
    BY DEF Body, name, box
  <2> QED
    BY <1>1, <1>2, <2>1, ConcatProperties DEF BodySize
<1>4. \A j \in 1..Len(Body(c)) : Body(c)[j] \in Text \cup {0}
  BY <1>3, ElementOfSeq
<1>5. Text \cup {0} \subseteq Nat /\ (Text \cup {0}) \cap Codes = {}
  BY DEF Text, Codes
<1>6. Codes \subseteq Nat
  BY DEF Codes
<1>7. BodySize(Asks[c].code) \in Nat \ {0}
  BY PipeAssumption DEF BodySize
<1>8. Body(c) \in Seq(Nat)
  BY <1>3, <1>5, SeqMonotonic
<1> QED
  BY <1>1, <1>3, <1>4, <1>5, <1>6, <1>7, <1>8

\* What a read leaves in the pipe.
LEMMA Remainder ==
  ASSUME NEW s \in Seq(Nat), NEW n \in Nat
  PROVE  /\ SubSeq(s, n + 1, Len(s)) \in Seq(Nat)
         /\ Len(SubSeq(s, n + 1, Len(s))) = IF n < Len(s) THEN Len(s) - n ELSE 0
         /\ \A k \in 1..(Len(s) - n) : SubSeq(s, n + 1, Len(s))[k] = s[n + k]
<1>1. \A k \in (n + 1)..Len(s) : s[k] \in Nat
  OBVIOUS
<1>2. Len(s) \in Nat
  OBVIOUS
<1>3. /\ SubSeq(s, n + 1, Len(s)) \in Seq(Nat)
      /\ Len(SubSeq(s, n + 1, Len(s))) = IF n + 1 <= Len(s) THEN Len(s) - (n + 1) + 1 ELSE 0
      /\ \A k \in 1..(Len(s) - (n + 1) + 1) : SubSeq(s, n + 1, Len(s))[k] = s[(n + 1) + k - 1]
  BY <1>1, <1>2, SubSeqProperties
<1>4. \A k \in 1..(Len(s) - n) : (n + 1) + k - 1 = n + k
  BY <1>2
<1> QED
  BY <1>2, <1>3, <1>4

\* What a read makes of the memory of a body, and that it goes where the request
\* will be taken from.
LEMMA FilledType ==
  ASSUME PipeTypeOK, code \in Codes
  PROVE  /\ BodySize(code) \in Nat \ {0}
         /\ Filled \in Seq(Nat) /\ Len(Filled) = BodySize(code)
         /\ Buffer(code) \in {"pipe_name", "box_request"}
         /\ Len(memory[Buffer(code)]) = BodySize(code)
<1>1. BodySize(code) \in Nat \ {0}
  BY PipeAssumption DEF BodySize
<1>2. /\ memory[Buffer(code)] \in Seq(Nat)
      /\ Len(memory[Buffer(code)]) = BodySize(code)
      /\ Buffer(code) \in {"pipe_name", "box_request"}
  BY DEF PipeTypeOK, Buffer, BodySize
<1>3. \A k \in 1..BodySize(code) :
        (IF k <= Len(pipe) THEN pipe[k] ELSE memory[Buffer(code)][k]) \in Nat
  BY <1>1, <1>2 DEF PipeTypeOK
<1>4. Filled = [k \in 1..BodySize(code) |-> IF k <= Len(pipe) THEN pipe[k]
                                             ELSE memory[Buffer(code)][k]]
  BY DEF Filled
<1>5. Filled \in [1..BodySize(code) -> Nat]
  BY <1>3, <1>4
<1> QED
  BY <1>1, <1>2, <1>5

-----------------------------------------------------------------------------
(* The type invariant.                                                     *)

LEMMA InitType == PipeInit => PipeTypeOK
<1> SUFFICES ASSUME PipeInit PROVE PipeTypeOK
  OBVIOUS
<1>1. /\ PIPE_NAME_SIZE \in Nat \ {0} /\ BOX_NAME_SIZE \in Nat \ {0} /\ Junk \in Nat
  BY PipeAssumption DEF Text
<1>2. /\ memory \in [{"pipe_name", "box_request"} -> Seq(Nat)]
      /\ Len(memory["pipe_name"]) = PIPE_NAME_SIZE
      /\ Len(memory["box_request"]) = PIPE_NAME_SIZE + BOX_NAME_SIZE
  <2>1. \A n \in Nat : [k \in 1..n |-> Junk] \in Seq(Nat) /\ Len([k \in 1..n |-> Junk]) = n
    BY <1>1
  <2> QED
    BY <1>1, <2>1 DEF PipeInit
<1>3. clean \in BOOLEAN
  BY Zenon DEF PipeInit
<1>4. /\ client \in [Clients -> {"new", "open", "coded", "sent", "closed", "dead"}]
      /\ pipe \in Seq(Nat) /\ reader = "opening" /\ code \in {0} \cup Codes
      /\ accepted \in Seq([code : Codes, body : Seq(Nat)]) /\ Len(accepted) = 0
      /\ written \in Seq(Clients)
  BY DEF PipeInit
<1> QED
  BY <1>2, <1>3, <1>4 DEF PipeTypeOK

LEMMA ClientStepType ==
  ASSUME PipeTypeOK, NEW c \in Clients, ClientStep(c)
  PROVE  PipeTypeOK'
<1> USE DEF PipeTypeOK, Move
<1>1. CASE OpenPipe(c)
  BY <1>1 DEF OpenPipe
<1>2. CASE WriteCode(c)
  <2>1. pipe' \in Seq(Nat)
    <3>1. Asks[c].code \in Nat
      BY BodyFacts
    <3> QED
      BY <1>2, <3>1 DEF WriteCode
  <2>2. clean' \in BOOLEAN
    BY <1>2 DEF WriteCode
  <2> QED
    BY <1>2, <2>1, <2>2 DEF WriteCode
<1>3. CASE WriteBody(c)
  BY <1>3, BodyFacts DEF WriteBody
<1>4. CASE ClosePipe(c)
  BY <1>4 DEF ClosePipe
<1>5. CASE Die(c)
  <2>1. clean' \in BOOLEAN
    BY <1>5 DEF Die
  <2> QED
    BY <1>5, <2>1 DEF Die
<1> QED
  BY <1>1, <1>2, <1>3, <1>4, <1>5 DEF ClientStep

LEMMA ReaderStepType ==
  ASSUME PipeTypeOK, Reads
  PROVE  PipeTypeOK'
<1> USE DEF PipeTypeOK
<1>1. CASE Opened
  BY <1>1 DEF Opened
<1>2. CASE ReadCode
  <2>1. Tail(pipe) \in Seq(Nat)
    BY <1>2 DEF ReadCode
  <2>2. code' \in {0} \cup Codes /\ (reader' = "body" => code' # 0)
    BY <1>2 DEF ReadCode, Codes
  <2> QED
    BY <1>2, <2>1, <2>2 DEF ReadCode
<1>3. CASE ReadNoCode
  BY <1>3, Zenon DEF ReadNoCode
<1>4. CASE ReadBody
  <2>1. code \in Codes
    BY <1>4 DEF ReadBody
  <2>2. /\ Filled \in Seq(Nat) /\ Len(Filled) = BodySize(code)
        /\ BodySize(code) \in Nat
        /\ Buffer(code) \in {"pipe_name", "box_request"}
        /\ Len(memory[Buffer(code)]) = BodySize(code)
    BY <2>1, FilledType
  <2>3. pipe' \in Seq(Nat)
    BY <1>4, <2>2, Remainder DEF ReadBody
  <2>4. /\ memory' \in [{"pipe_name", "box_request"} -> Seq(Nat)]
        /\ Len(memory'["pipe_name"]) = PIPE_NAME_SIZE
        /\ Len(memory'["box_request"]) = PIPE_NAME_SIZE + BOX_NAME_SIZE
    BY <1>4, <2>2 DEF ReadBody
  <2>5. /\ accepted' \in Seq([code : Codes, body : Seq(Nat)])
        /\ \A k \in 1..Len(accepted') : Len(accepted'[k].body) = BodySize(accepted'[k].code)
    <3> DEFINE request == [code |-> code, body |-> Filled]
    <3>1. request \in [code : Codes, body : Seq(Nat)] /\ Len(request.body) = BodySize(request.code)
      BY <2>1, <2>2
    <3>2. accepted' = Append(accepted, request)
      BY <1>4 DEF ReadBody
    <3> HIDE DEF request
    <3>3. /\ accepted' \in Seq([code : Codes, body : Seq(Nat)])
          /\ Len(accepted') = Len(accepted) + 1
          /\ \A k \in 1..Len(accepted) : accepted'[k] = accepted[k]
          /\ accepted'[Len(accepted) + 1] = request
      BY <3>1, <3>2, AppendProperties
    <3>4. \A k \in 1..Len(accepted') : k \in 1..Len(accepted) \/ k = Len(accepted) + 1
      BY <3>3
    <3> QED
      BY <3>1, <3>3, <3>4
  <2>6. clean' \in BOOLEAN
    BY <1>4, Zenon DEF ReadBody
  <2> QED
    BY <1>4, <2>3, <2>4, <2>5, <2>6 DEF ReadBody
<1>5. CASE ReadNoBody
  BY <1>5 DEF ReadNoBody
<1> QED
  BY <1>1, <1>2, <1>3, <1>4, <1>5 DEF Reads
-----------------------------------------------------------------------------
(* A code is followed by a body, or by a client that has still to write it. *)

LEMMA InitDeaths == PipeInit => DeathsLeaveTraces
BY DEF PipeInit, DeathsLeaveTraces, ExitNeedsADeath, Fresh

LEMMA NeverEmptied ==
  ASSUME NEW s \in Seq(Nat), NEW x \in Nat
  PROVE  Append(s, x) # <<>>
BY AppendProperties

LEMMA ClientStepDeaths ==
  ASSUME PipeTypeOK, DeathsLeaveTraces, NEW c \in Clients, ClientStep(c)
  PROVE  DeathsLeaveTraces'
<1> USE DEF PipeTypeOK, DeathsLeaveTraces, ExitNeedsADeath, Unfinished, Fresh, Move
<1>1. CASE OpenPipe(c)
  BY <1>1 DEF OpenPipe
<1>2. CASE WriteCode(c)
  <2>1. Asks[c].code \in Nat
    BY BodyFacts
  <2>2. pipe' # <<>> /\ client'[c] = "coded" /\ reader' = reader /\ reader \notin Over
    <3>1. pipe' = Append(pipe, Asks[c].code) /\ pipe \in Seq(Nat)
      BY <1>2 DEF WriteCode
    <3>2. pipe' # <<>>
      BY <2>1, <3>1, NeverEmptied
    <3>3. reader' = reader /\ reader \notin Over
      BY <1>2 DEF WriteCode
    <3>4. client'[c] = "coded"
      BY <1>2 DEF WriteCode
    <3> QED
      BY <3>2, <3>3, <3>4
  <2> QED
    BY <1>2, <2>2 DEF WriteCode
<1>3. CASE WriteBody(c)
  <2>1. /\ pipe' # <<>> /\ pipe'[Len(pipe')] \notin Codes
    <3>1. /\ Body(c) \in Seq(Nat) /\ Len(Body(c)) \in Nat \ {0}
          /\ Body(c)[Len(Body(c))] \notin Codes
      BY BodyFacts
    <3>2. pipe' = pipe \o Body(c)
      BY <1>3 DEF WriteBody
    <3>3. /\ Len(pipe') = Len(pipe) + Len(Body(c))
          /\ pipe'[Len(pipe')] = Body(c)[Len(Body(c))]
      BY <3>1, <3>2, ConcatProperties
    <3> QED
      BY <3>1, <3>2, <3>3, ConcatProperties
  <2>2. client'[c] = "sent" /\ reader' = reader /\ reader \notin Over /\ code' = code
    BY <1>3 DEF WriteBody
  <2> QED
    BY <2>1, <2>2 DEF Over
<1>4. CASE ClosePipe(c)
  BY <1>4 DEF ClosePipe
<1>5. CASE Die(c)
  BY <1>5 DEF Die
<1> QED
  BY <1>1, <1>2, <1>3, <1>4, <1>5 DEF ClientStep

LEMMA ReaderStepDeaths ==
  ASSUME PipeTypeOK, DeathsLeaveTraces, Reads
  PROVE  DeathsLeaveTraces'
<1> USE DEF PipeTypeOK, DeathsLeaveTraces, ExitNeedsADeath, Unfinished, Fresh
<1>1. CASE Opened
  BY <1>1 DEF Opened
<1>2. CASE ReadCode
  <2>1. /\ pipe' \in Seq(Nat) /\ Len(pipe') = Len(pipe) - 1
        /\ pipe' # <<>> => pipe'[Len(pipe')] = pipe[Len(pipe)]
    BY <1>2 DEF ReadCode
  <2>2. pipe' = <<>> => pipe[Len(pipe)] = Head(pipe)
    <3>1. pipe' = <<>> => Len(pipe) = 1
      BY <2>1
    <3>2. Head(pipe) = pipe[1]
      BY <1>2 DEF ReadCode
    <3> QED
      BY <3>1, <3>2
  <2>3. ~Fresh' /\ (reader' = "body" => Head(pipe) \in Codes) /\ reader' \in {"code", "body"}
    BY <1>2 DEF ReadCode
  <2> QED
    BY <1>2, <2>1, <2>2, <2>3 DEF ReadCode
<1>3. CASE ReadNoCode
  <2>1. PICK c \in Clients : client[c] # "new"
    BY <1>3 DEF ReadNoCode
  <2>2. client[c] \notin {"sent", "closed", "open", "coded"}
    BY <1>3, <2>1 DEF ReadNoCode, Writers
  <2>3. client[c] = "dead"
    BY <2>1, <2>2
  <2> QED
    BY <1>3, <2>3 DEF ReadNoCode
<1>4. CASE ReadBody
  <2>1. /\ pipe' \in Seq(Nat)
        /\ pipe' # <<>> => pipe'[Len(pipe')] = pipe[Len(pipe)]
    <3>1. BodySize(code) \in Nat
      BY <1>4, FilledType DEF ReadBody
    <3>2. /\ pipe' \in Seq(Nat)
          /\ Len(pipe') = IF BodySize(code) < Len(pipe) THEN Len(pipe) - BodySize(code) ELSE 0
          /\ \A k \in 1..(Len(pipe) - BodySize(code)) : pipe'[k] = pipe[BodySize(code) + k]
      BY <1>4, <3>1, Remainder DEF ReadBody
    <3>3. pipe' # <<>> => /\ Len(pipe') \in 1..(Len(pipe) - BodySize(code))
                          /\ BodySize(code) + Len(pipe') = Len(pipe)
      BY <3>1, <3>2
    <3> QED
      BY <3>2, <3>3
  <2> QED
    BY <1>4, <2>1 DEF ReadBody
<1>5. CASE ReadNoBody
  BY <1>5 DEF ReadNoBody, Writers
<1> QED
  BY <1>1, <1>2, <1>3, <1>4, <1>5 DEF Reads
-----------------------------------------------------------------------------
(* Codes are read as often as they were written, at most.                  *)

LEMMA IndicesFinite ==
  ASSUME NEW m \in Nat, NEW S \in SUBSET (1..m)
  PROVE  IsFiniteSet(S) /\ Cardinality(S) \in Nat
<1>1. IsFiniteSet(1..m)
  BY FS_Interval
<1>2. IsFiniteSet(S)
  BY <1>1, FS_Subset
<1> QED
  BY <1>2, FS_CardinalityType

\* A set of numbers that is moved by d into another is not larger than it.
LEMMA MovedInto ==
  ASSUME NEW m \in Nat, NEW T \in SUBSET (1..m), NEW d \in Nat,
         NEW S \in SUBSET Nat, \A k \in S : k + d \in T
  PROVE  Cardinality(S) <= Cardinality(T)
<1> DEFINE f == [k \in S |-> k + d]
<1>1. f \in [S -> T]
  OBVIOUS
<1>2. \A j, k \in S : f[j] = f[k] => j = k
  OBVIOUS
<1>3. f \in Injection(S, T)
  BY <1>1, <1>2 DEF Injection, IsInjective
<1>4. IsFiniteSet(T)
  BY IndicesFinite
<1> QED
  BY <1>3, <1>4, FS_Injection

LEMMA CountsAreNumbers ==
  ASSUME PipeTypeOK, NEW n
  PROVE  /\ AcceptedWith(n) \in SUBSET (1..Len(accepted)) /\ Cardinality(AcceptedWith(n)) \in Nat
         /\ WrittenWith(n) \in SUBSET (1..Len(written)) /\ Cardinality(WrittenWith(n)) \in Nat
         /\ PipedWith(n) \in SUBSET (1..Len(pipe)) /\ Cardinality(PipedWith(n)) \in Nat
         /\ IsFiniteSet(AcceptedWith(n)) /\ IsFiniteSet(WrittenWith(n)) /\ IsFiniteSet(PipedWith(n))
<1>1. Len(accepted) \in Nat /\ Len(written) \in Nat /\ Len(pipe) \in Nat
  BY DEF PipeTypeOK
<1>2. /\ AcceptedWith(n) \in SUBSET (1..Len(accepted))
      /\ WrittenWith(n) \in SUBSET (1..Len(written))
      /\ PipedWith(n) \in SUBSET (1..Len(pipe))
  BY DEF AcceptedWith, WrittenWith, PipedWith
<1> QED
  BY <1>1, <1>2, IndicesFinite

LEMMA InitCodes == PipeInit => CodesComeFromClients
<1> SUFFICES ASSUME PipeInit, NEW n \in Codes
             PROVE  Cardinality(AcceptedWith(n)) + Cardinality(PipedWith(n)) = 0
                    /\ Cardinality(WrittenWith(n)) = 0 /\ reader # "body" /\ clean
  BY DEF CodesComeFromClients
<1>1. AcceptedWith(n) = {} /\ PipedWith(n) = {} /\ WrittenWith(n) = {}
  BY DEF PipeInit, AcceptedWith, PipedWith, WrittenWith
<1> QED
  BY <1>1, FS_EmptySet DEF PipeInit

LEMMA ClientStepCodes ==
  ASSUME PipeTypeOK, CodesComeFromClients, NEW c \in Clients, ClientStep(c)
  PROVE  CodesComeFromClients'
<1> SUFFICES ASSUME NEW n \in Codes
             PROVE  Cardinality(AcceptedWith(n)') + Cardinality(PipedWith(n)')
                        + (IF reader' = "body" /\ code' = n THEN 1 ELSE 0)
                      <= Cardinality(WrittenWith(n)') + (IF clean' \/ Fresh' THEN 0 ELSE 1)
  BY DEF CodesComeFromClients
<1>1. /\ Cardinality(AcceptedWith(n)) \in Nat /\ Cardinality(WrittenWith(n)) \in Nat
      /\ Cardinality(PipedWith(n)) \in Nat
      /\ IsFiniteSet(WrittenWith(n)) /\ IsFiniteSet(PipedWith(n))
  BY CountsAreNumbers
<1>2. Cardinality(AcceptedWith(n)) + Cardinality(PipedWith(n))
        + (IF reader = "body" /\ code = n THEN 1 ELSE 0)
      <= Cardinality(WrittenWith(n)) + (IF clean \/ Fresh THEN 0 ELSE 1)
  BY DEF CodesComeFromClients
<1>3. AcceptedWith(n)' = AcceptedWith(n) /\ reader' = reader /\ code' = code /\ Fresh' = Fresh
  BY DEF ClientStep, OpenPipe, WriteCode, WriteBody, ClosePipe, Die, AcceptedWith, Fresh
<1>4. clean' => clean
  BY DEF ClientStep, OpenPipe, WriteCode, WriteBody, ClosePipe, Die
<1>5. CASE WriteCode(c)
  <2> DEFINE p == Len(pipe) + 1
             w == Len(written) + 1
  <2>1. /\ Asks[c].code \in Nat
        /\ pipe' = Append(pipe, Asks[c].code) /\ written' = Append(written, c)
    BY <1>5, BodyFacts DEF WriteCode
  <2>2. /\ PipedWith(n)' = IF Asks[c].code = n THEN PipedWith(n) \cup {p} ELSE PipedWith(n)
        /\ p \notin PipedWith(n)
    BY <2>1 DEF PipedWith, PipeTypeOK
  <2>3. /\ WrittenWith(n)' = IF Asks[c].code = n THEN WrittenWith(n) \cup {w} ELSE WrittenWith(n)
        /\ w \notin WrittenWith(n)
    BY <2>1 DEF WrittenWith, PipeTypeOK
  <2>4. CASE Asks[c].code = n
    <3>1. /\ Cardinality(PipedWith(n)') = Cardinality(PipedWith(n)) + 1
          /\ Cardinality(WrittenWith(n)') = Cardinality(WrittenWith(n)) + 1
      BY <1>1, <2>2, <2>3, <2>4, FS_AddElement
    <3> QED
      BY <1>1, <1>2, <1>3, <1>4, <3>1
  <2>5. CASE Asks[c].code # n
    BY <1>1, <1>2, <1>3, <1>4, <2>2, <2>3, <2>5
  <2> QED
    BY <2>4, <2>5
<1>6. CASE WriteBody(c)
  <2>1. PipedWith(n)' = PipedWith(n)
    <3>1. /\ Body(c) \in Seq(Nat)
          /\ \A j \in 1..Len(Body(c)) : Body(c)[j] \notin Codes
      BY BodyFacts
    <3>2. pipe' = pipe \o Body(c) /\ pipe \in Seq(Nat)
      BY <1>6 DEF WriteBody, PipeTypeOK
    <3>3. /\ Len(pipe') = Len(pipe) + Len(Body(c))
          /\ \A k \in 1..(Len(pipe) + Len(Body(c))) :
               pipe'[k] = IF k <= Len(pipe) THEN pipe[k] ELSE Body(c)[k - Len(pipe)]
      BY <3>1, <3>2, ConcatProperties
    <3>4. Len(pipe) \in Nat /\ Len(Body(c)) \in Nat
      BY <3>1, <3>2
    <3>5. \A k \in 1..(Len(pipe) + Len(Body(c))) :
            k > Len(pipe) => k - Len(pipe) \in 1..Len(Body(c))
      BY <3>4
    <3>6. \A k \in 1..Len(pipe') : pipe'[k] = n => k \in 1..Len(pipe)
      BY <3>1, <3>3, <3>4, <3>5
    <3>7. \A k \in 1..Len(pipe) : k \in 1..Len(pipe') /\ pipe'[k] = pipe[k]
      BY <3>3, <3>4
    <3> QED
      BY <3>6, <3>7 DEF PipedWith
  <2>2. WrittenWith(n)' = WrittenWith(n)
    BY <1>6 DEF WriteBody, WrittenWith
  <2> QED
    BY <1>1, <1>2, <1>3, <1>4, <2>1, <2>2
<1>7. CASE OpenPipe(c) \/ ClosePipe(c) \/ Die(c)
  <2>1. PipedWith(n)' = PipedWith(n) /\ WrittenWith(n)' = WrittenWith(n)
    BY <1>7 DEF OpenPipe, ClosePipe, Die, PipedWith, WrittenWith
  <2> QED
    BY <1>1, <1>2, <1>3, <1>4, <2>1
<1> QED
  BY <1>5, <1>6, <1>7 DEF ClientStep

LEMMA ReaderStepCodes ==
  ASSUME PipeTypeOK, PipeTypeOK', CodesComeFromClients, Reads
  PROVE  CodesComeFromClients'
<1> SUFFICES ASSUME NEW n \in Codes
             PROVE  Cardinality(AcceptedWith(n)') + Cardinality(PipedWith(n)')
                        + (IF reader' = "body" /\ code' = n THEN 1 ELSE 0)
                      <= Cardinality(WrittenWith(n)') + (IF clean' \/ Fresh' THEN 0 ELSE 1)
  BY DEF CodesComeFromClients
<1>1. /\ Cardinality(AcceptedWith(n)) \in Nat /\ Cardinality(WrittenWith(n)) \in Nat
      /\ Cardinality(PipedWith(n)) \in Nat
      /\ IsFiniteSet(AcceptedWith(n)) /\ IsFiniteSet(PipedWith(n))
      /\ PipedWith(n) \in SUBSET (1..Len(pipe))
  BY CountsAreNumbers
<1>2. Cardinality(AcceptedWith(n)) + Cardinality(PipedWith(n))
        + (IF reader = "body" /\ code = n THEN 1 ELSE 0)
      <= Cardinality(WrittenWith(n)) + (IF clean \/ Fresh THEN 0 ELSE 1)
  BY DEF CodesComeFromClients
<1>10. /\ pipe \in Seq(Nat) /\ Len(pipe) \in Nat
       /\ pipe' \in Seq(Nat) /\ Len(pipe') \in Nat
       /\ accepted \in Seq([code : Codes, body : Seq(Nat)]) /\ Len(accepted) \in Nat
  BY DEF PipeTypeOK
<1>11. Cardinality(PipedWith(n)') \in Nat
  <2>1. PipedWith(n)' \in SUBSET (1..Len(pipe'))
    BY DEF PipedWith
  <2> QED
    BY <1>10, <2>1, IndicesFinite
<1>3. WrittenWith(n)' = WrittenWith(n)
  BY DEF Reads, Opened, ReadCode, ReadNoCode, ReadBody, ReadNoBody, WrittenWith
<1>4. CASE Opened
  BY <1>1, <1>2, <1>3, <1>4 DEF Opened, AcceptedWith, PipedWith, Fresh
<1>5. CASE ReadCode
  <2>1. /\ pipe' \in Seq(Nat) /\ Len(pipe') = Len(pipe) - 1 /\ Len(pipe) \in Nat \ {0}
        /\ \A k \in 1..(Len(pipe) - 1) : pipe'[k] = pipe[k + 1]
        /\ Head(pipe) = pipe[1]
    BY <1>5 DEF ReadCode, PipeTypeOK
  <2>2. AcceptedWith(n)' = AcceptedWith(n) /\ clean' = clean /\ ~Fresh' /\ reader # "body"
    BY <1>5 DEF ReadCode, AcceptedWith, Fresh
  <2>3. (IF reader' = "body" /\ code' = n THEN 1 ELSE 0) = (IF pipe[1] = n THEN 1 ELSE 0)
    BY <1>5, <2>1 DEF ReadCode
  <2>4. Cardinality(PipedWith(n)') <= Cardinality(PipedWith(n) \ {1})
    <3>1. PipedWith(n)' \in SUBSET Nat
      BY <2>1 DEF PipedWith
    <3>2. PipedWith(n) \ {1} \in SUBSET (1..Len(pipe)) /\ Len(pipe) \in Nat
      BY <1>1, <2>1
    <3>3. \A k \in PipedWith(n)' : k + 1 \in PipedWith(n) \ {1}
      BY <2>1 DEF PipedWith
    <3> QED
      BY <3>1, <3>2, <3>3, MovedInto
  <2>5. Cardinality(PipedWith(n) \ {1}) =
          IF pipe[1] = n THEN Cardinality(PipedWith(n)) - 1 ELSE Cardinality(PipedWith(n))
    <3>1. 1 \in PipedWith(n) <=> pipe[1] = n
      BY <2>1 DEF PipedWith
    <3> QED
      BY <1>1, <3>1, FS_RemoveElement
  <2> QED
    BY <1>1, <1>2, <1>3, <1>11, <2>2, <2>3, <2>4, <2>5
<1>6. CASE ReadNoCode
  <2>1. /\ AcceptedWith(n)' = AcceptedWith(n) /\ PipedWith(n)' = PipedWith(n)
        /\ Fresh /\ ~Fresh' /\ clean' = FALSE
    BY <1>6 DEF ReadNoCode, AcceptedWith, PipedWith, Fresh
  <2> QED
    BY <1>1, <1>2, <1>3, <2>1
<1>7. CASE ReadBody
  <2> DEFINE a == Len(accepted) + 1
  <2>1. AcceptedWith(n)' = IF code = n THEN AcceptedWith(n) \cup {a} ELSE AcceptedWith(n)
    <3> DEFINE request == [code |-> code, body |-> Filled]
    <3>1. accepted' = Append(accepted, request) /\ request.code = code
      BY <1>7 DEF ReadBody
    <3>2. request \in [code : Codes, body : Seq(Nat)]
      BY <1>7, FilledType DEF ReadBody, PipeTypeOK
    <3> HIDE DEF request
    <3>3. /\ Len(accepted') = Len(accepted) + 1 /\ Len(accepted) \in Nat
          /\ \A k \in 1..Len(accepted) : accepted'[k] = accepted[k]
          /\ accepted'[a] = request
      BY <3>1, <3>2, AppendProperties DEF PipeTypeOK
    <3> QED
      BY <3>1, <3>3 DEF AcceptedWith
  <2>2. a \notin AcceptedWith(n)
    BY <1>10 DEF AcceptedWith
  <2>3. Cardinality(AcceptedWith(n)') = Cardinality(AcceptedWith(n)) + (IF code = n THEN 1 ELSE 0)
    <3>1. Cardinality(AcceptedWith(n) \cup {a}) = Cardinality(AcceptedWith(n)) + 1
      BY <1>1, <2>2, FS_AddElement
    <3> QED
      BY <1>1, <2>1, <3>1
  <2>4. Cardinality(PipedWith(n)') <= Cardinality(PipedWith(n))
    <3>1. BodySize(code) \in Nat
      <4>1. code \in Codes
        BY <1>7 DEF ReadBody, PipeTypeOK
      <4> QED
        BY <4>1, FilledType
    <3>2. /\ Len(pipe') = IF BodySize(code) < Len(pipe) THEN Len(pipe) - BodySize(code) ELSE 0
          /\ \A k \in 1..(Len(pipe) - BodySize(code)) : pipe'[k] = pipe[BodySize(code) + k]
      <4>1. PICK size \in Nat : size = BodySize(code)
        BY <3>1
      <4>2. pipe' = SubSeq(pipe, size + 1, Len(pipe))
        BY <1>7, <4>1 DEF ReadBody
      <4>3. PICK whole \in Seq(Nat) : whole = pipe
        BY <1>10
      <4> DEFINE rest == SubSeq(whole, size + 1, Len(whole))
      <4>4. /\ Len(rest) = IF size < Len(whole) THEN Len(whole) - size ELSE 0
            /\ \A k \in 1..(Len(whole) - size) : rest[k] = whole[size + k]
        BY <4>1, <4>3, Remainder
      <4>5. pipe' = rest
        BY <4>2, <4>3
      <4> HIDE DEF rest
      <4> QED
        BY <4>1, <4>3, <4>4, <4>5
    <3>3. ASSUME NEW k \in PipedWith(n)' PROVE k + BodySize(code) \in PipedWith(n)
      <4>1. k \in 1..Len(pipe') /\ pipe'[k] = n
        BY <3>3 DEF PipedWith
      <4>2. k \in 1..(Len(pipe) - BodySize(code)) /\ k + BodySize(code) \in 1..Len(pipe)
        <5>1. PICK p \in Nat, q \in Nat, size \in Nat :
                   p = Len(pipe) /\ q = Len(pipe') /\ size = BodySize(code)
          BY <1>10, <3>1
        <5>2. q = IF size < p THEN p - size ELSE 0
          BY <3>2, <5>1
        <5>3. k \in 1..q
          BY <4>1, <5>1
        <5>4. k \in 1..(p - size) /\ k + size \in 1..p
          BY <5>2, <5>3
        <5> QED
          BY <5>1, <5>4
      <4>3. pipe[k + BodySize(code)] = n
        BY <3>1, <3>2, <4>1, <4>2
      <4> QED
        BY <4>2, <4>3 DEF PipedWith
    <3>4. PipedWith(n)' \in SUBSET Nat
      BY DEF PipedWith
    <3> QED
      BY <1>1, <1>10, <3>1, <3>3, <3>4, MovedInto
  <2>5. reader = "body" /\ reader' = "enqueue" /\ clean' = clean /\ ~Fresh /\ ~Fresh'
    BY <1>7 DEF ReadBody, Fresh
  <2>6. CASE code = n
    BY <1>1, <1>2, <1>3, <1>11, <2>3, <2>4, <2>5, <2>6
  <2>7. CASE code # n
    BY <1>1, <1>2, <1>3, <1>11, <2>3, <2>4, <2>5, <2>7
  <2> QED
    BY <2>6, <2>7
<1>8. CASE ReadNoBody
  <2>1. /\ AcceptedWith(n)' = AcceptedWith(n) /\ PipedWith(n)' = PipedWith(n)
        /\ ~Fresh /\ ~Fresh' /\ clean' = clean /\ reader' # "body"
    BY <1>8 DEF ReadNoBody, AcceptedWith, PipedWith, Fresh
  <2> QED
    BY <1>1, <1>2, <1>3, <2>1
<1> QED
  BY <1>4, <1>5, <1>6, <1>7, <1>8 DEF Reads
-----------------------------------------------------------------------------
(* Where the requests lie, as long as no client disturbs another.          *)

LEMMA PendingFacts ==
  ASSUME PipeTypeOK
  PROVE  /\ Len(accepted) \in Nat /\ Len(written) \in Nat /\ Len(pipe) \in Nat
         /\ \A k \in 1..Len(written) :
              /\ written[k] \in Clients
              /\ Reach(k) \in Nat
              /\ Reach(k) \in {0, BodySize(Asks[written[k]].code)}
              /\ Len(Body(written[k])) = BodySize(Asks[written[k]].code)
              /\ BodySize(Asks[written[k]].code) \in Nat \ {0}
              /\ Asks[written[k]].code \in Codes
         /\ \A k \in Pending : k \in 1..Len(written)
<1>1. /\ Len(accepted) \in Nat /\ Len(written) \in Nat /\ Len(pipe) \in Nat
  BY DEF PipeTypeOK
<1>2. \A k \in 1..Len(written) : written[k] \in Clients
  BY DEF PipeTypeOK
<1>3. ASSUME NEW k \in 1..Len(written)
      PROVE  /\ Reach(k) \in Nat
             /\ Reach(k) \in {0, BodySize(Asks[written[k]].code)}
             /\ Len(Body(written[k])) = BodySize(Asks[written[k]].code)
             /\ BodySize(Asks[written[k]].code) \in Nat \ {0}
             /\ Asks[written[k]].code \in Codes
  BY <1>2, BodyFacts DEF Reach
<1>4. \A k \in Pending : k \in 1..Len(written)
  BY <1>1 DEF Pending
<1> QED
  BY <1>1, <1>2, <1>3, <1>4

LEMMA InitLayout == PipeInit => Layout
<1> SUFFICES ASSUME PipeInit PROVE Layout
  OBVIOUS
<1>1. accepted = <<>> /\ written = <<>> /\ pipe = <<>> /\ reader = "opening"
  BY DEF PipeInit
<1>2. Pending = {}
  BY <1>1 DEF Pending
<1>3. RequestsReadWhole
  BY <1>1 DEF RequestsReadWhole
<1>4. \E start \in [Pending -> 0..Len(pipe)] : Laid(start)
  <2>1. \A start : Laid(start)
    BY <1>2 DEF Laid
  <2>2. [k \in Pending |-> 0] \in [Pending -> 0..Len(pipe)]
    BY <1>2
  <2> QED
    BY <2>1, <2>2
<1> QED
  BY <1>1, <1>3, <1>4 DEF Layout, PipeInit

\* A client that opens or closes the pipe, or dies with nothing written, leaves
\* the layout alone.
LEMMA QuietStepLayout ==
  ASSUME PipeTypeOK, Layout, clean,
         UNCHANGED <<pipe, reader, code, accepted, written, clean>>,
         \A d \in Clients : client'[d] = "coded" <=> client[d] = "coded",
         \A d \in Clients : client'[d] \in {"new", "open"} => client[d] \in {"new", "open"}
  PROVE  Layout'
<1>1. \A k \in 1..Len(written) : written[k] \in Clients
  BY PendingFacts
<1>2. Pending' = Pending
  BY DEF Pending
<1>3. \A k \in 1..Len(written) : Reach(k)' = Reach(k)
  BY <1>1 DEF Reach
<1>4. PICK start \in [Pending -> 0..Len(pipe)] : Laid(start)
  BY DEF Layout
<1>5. \A k \in Pending : k \in 1..Len(written) /\ (k > Len(accepted) + 1 => k - 1 \in 1..Len(written))
  BY PendingFacts DEF Pending
<1>6. Laid(start)'
  BY <1>2, <1>3, <1>4, <1>5 DEF Laid
<1>7. RequestsReadWhole'
  BY DEF Layout, RequestsReadWhole, Whole
<1>8. \A k \in 1..Len(written) : /\ client'[written[k]] \notin {"new", "open"}
                                 /\ client'[written[k]] = "coded" => k = Len(written)
  BY <1>1 DEF Layout
<1>9. \E s \in [Pending' -> 0..Len(pipe')] : Laid(s)'
  BY <1>2, <1>4, <1>6
<1> QED
  BY <1>7, <1>8, <1>9 DEF Layout
\* The new code comes after all that is written.
LEMMA WriteCodeLayout ==
  ASSUME PipeTypeOK, Layout, NEW c \in Clients, WriteCode(c), clean'
  PROVE  Layout'
<1>w. PICK w : w = Len(written)
  OBVIOUS
<1>p. PICK p : p = Len(pipe)
  OBVIOUS
<1>1. /\ clean /\ \A d \in Clients : client[d] # "coded"
      /\ client[c] = "open" /\ client' = [client EXCEPT ![c] = "coded"]
      /\ UNCHANGED <<reader, code, accepted>>
  BY DEF WriteCode, Move
<1>r. reader # "failed"
  BY DEF WriteCode, Over
<1>2. /\ Len(accepted) \in Nat /\ w \in Nat /\ p \in Nat
      /\ \A k \in 1..w : written[k] \in Clients /\ Reach(k) \in Nat
      /\ \A k \in Pending : k \in 1..w
      /\ Asks[c].code \in Nat
      /\ pipe \in Seq(Nat) /\ written \in Seq(Clients)
      /\ client \in [Clients -> {"new", "open", "coded", "sent", "closed", "dead"}]
  BY <1>w, <1>p, PendingFacts, BodyFacts DEF PipeTypeOK
<1>3. /\ Len(written') = w + 1 /\ written'[w + 1] = c
      /\ \A k \in 1..w : written'[k] = written[k]
  BY <1>w, <1>p, <1>2 DEF WriteCode
<1>4. /\ Len(pipe') = p + 1 /\ pipe'[p + 1] = Asks[c].code
      /\ \A k \in 1..p : pipe'[k] = pipe[k]
  BY <1>w, <1>p, <1>2 DEF WriteCode
<1>5. \A k \in 1..w : written[k] # c /\ client'[written[k]] = client[written[k]]
  BY <1>w, <1>p, <1>1, <1>2 DEF Layout
<1>6. Reach(w + 1)' = 0 /\ \A k \in 1..w : Reach(k)' = Reach(k)
  BY <1>1, <1>2, <1>3, <1>5 DEF Reach
<1>7. /\ RequestsReadWhole /\ Len(accepted) <= w
      /\ Len(accepted) = w => pipe = <<>>
      /\ reader = "body" => Len(accepted) < w /\ code = Asks[written[Len(accepted) + 1]].code
      /\ \A k \in 1..w : /\ client[written[k]] \notin {"new", "open"}
                         /\ client[written[k]] = "coded" => k = w
  BY <1>w, <1>p, <1>1 DEF Layout
<1>8. PICK start \in [Pending -> 0..p] : Laid(start)
  BY <1>w, <1>p, <1>1 DEF Layout
<1>9. Pending' = Pending \cup {w + 1} /\ w + 1 \notin Pending
  BY <1>w, <1>p, <1>1, <1>2, <1>3, <1>7 DEF Pending
<1>10. PICK s : s = [k \in Pending \cup {w + 1} |-> IF k \in Pending THEN start[k] ELSE p + 1]
  OBVIOUS
<1>11. s[w + 1] = p + 1 /\ \A k \in Pending : s[k] = start[k] /\ s[k] \in 0..p
  BY <1>9, <1>10
<1>12. s \in [Pending' -> 0..Len(pipe')]
  BY <1>2, <1>4, <1>8, <1>9, <1>10
<1>13. \A k \in Pending : /\ k \in 1..w
                          /\ k > Len(accepted) + 1 => k - 1 \in Pending /\ k - 1 \in 1..w
  BY <1>w, <1>p, <1>2 DEF Pending
<1>14. w > Len(accepted) => w \in Pending
  BY <1>w, <1>p, <1>2 DEF Pending
<1>15. ASSUME NEW k \in Pending'
       PROVE  /\ k = Len(accepted') + 1 => s[k] = IF reader' = "body" THEN 0 ELSE 1
              /\ k > Len(accepted') + 1 => s[k] = s[k - 1] + 1 + Reach(k - 1)'
              /\ s[k] > 0 => pipe'[s[k]] = Asks[written'[k]].code
              /\ s[k] + Reach(k)' <= Len(pipe')
              /\ k = Len(written') => Len(pipe') = s[k] + Reach(k)'
              /\ \A j \in 1..Reach(k)' : pipe'[s[k] + j] = Body(written'[k])[j]
  <2>1. CASE k \in Pending
    <3>1. /\ k = Len(accepted) + 1 => start[k] = IF reader = "body" THEN 0 ELSE 1
          /\ k > Len(accepted) + 1 => start[k] = start[k - 1] + 1 + Reach(k - 1)
          /\ start[k] > 0 => pipe[start[k]] = Asks[written[k]].code
          /\ start[k] + Reach(k) <= p
          /\ \A j \in 1..Reach(k) : pipe[start[k] + j] = Body(written[k])[j]
      BY <1>p, <1>r, <1>8, <2>1 DEF Laid
    <3>2. Reach(k)' = Reach(k) /\ written'[k] = written[k] /\ Reach(k) \in Nat
      BY <1>2, <1>3, <1>6, <1>13, <2>1
    <3>3. k > Len(accepted) + 1 => s[k - 1] = start[k - 1] /\ Reach(k - 1)' = Reach(k - 1)
      BY <1>6, <1>11, <1>13, <2>1
    <3>4. s[k] > 0 => pipe'[s[k]] = pipe[s[k]]
      BY <1>4, <1>11, <2>1
    <3>5. ASSUME NEW j \in 1..Reach(k) PROVE pipe'[s[k] + j] = pipe[start[k] + j]
      <4>1. s[k] = start[k] /\ start[k] \in Nat
        BY <1>2, <1>8, <1>11, <2>1
      <4>2. start[k] + j \in 1..p
        BY <1>2, <3>1, <3>2, <4>1
      <4> QED
        BY <1>4, <4>1, <4>2
    <3>6. k # w + 1 /\ s[k] = start[k] /\ start[k] \in Nat
      BY <1>2, <1>8, <1>9, <1>11, <2>1
    <3>7. accepted' = accepted /\ reader' = reader
      BY <1>1
    <3>8. s[k] + Reach(k)' <= Len(pipe') /\ k # Len(written')
      BY <1>2, <1>3, <1>4, <3>1, <3>2, <3>6
    <3>9. \A j \in 1..Reach(k)' : pipe'[s[k] + j] = Body(written'[k])[j]
      BY <3>1, <3>2, <3>5
    <3>10. k > Len(accepted) + 1 => s[k] = s[k - 1] + 1 + Reach(k - 1)'
      BY <3>1, <3>3, <3>6
    <3> QED
      BY <3>1, <3>2, <3>4, <3>6, <3>7, <3>8, <3>9, <3>10
  <2>2. CASE k = w + 1
    <3>1. s[k] = p + 1 /\ Reach(k)' = 0 /\ written'[k] = c /\ pipe'[s[k]] = Asks[c].code
      BY <1>3, <1>4, <1>6, <1>11, <2>2
    <3>2. k = Len(accepted) + 1 => p = 0 /\ reader # "body"
      BY <1>p, <1>2, <1>7, <2>2
    <3>3. k > Len(accepted) + 1 => s[k - 1] + 1 + Reach(k - 1)' = p + 1
      <4>1. HAVE k > Len(accepted) + 1
      <4>2. w \in Pending /\ k - 1 = w /\ w \in 1..w
        BY <1>2, <1>13, <1>14, <2>2, <4>1
      <4>3. p = start[w] + Reach(w)
        BY <1>w, <1>p, <1>8, <4>2 DEF Laid
      <4>4. s[w] = start[w] /\ Reach(w)' = Reach(w) /\ start[w] \in Nat /\ Reach(w) \in Nat
        BY <1>2, <1>6, <1>11, <4>2
      <4> QED
        BY <4>2, <4>3, <4>4
    <3> QED
      BY <1>1, <1>2, <1>4, <3>1, <3>2, <3>3
  <2> QED
    BY <1>9, <2>1, <2>2
<1>16. ASSUME NEW j \in Pending', NEW k \in Pending', j < k
       PROVE  s[j] + Reach(j)' < s[k]
  <2>1. j \in Pending
    BY <1>2, <1>9, <1>13, <1>16
  <2>2. s[j] = start[j] /\ Reach(j)' = Reach(j) /\ start[j] + Reach(j) <= p
        /\ start[j] \in Nat /\ Reach(j) \in Nat
    BY <1>p, <1>2, <1>6, <1>8, <1>11, <1>13, <2>1 DEF Laid
  <2>3. CASE k \in Pending
    BY <1>8, <1>11, <1>16, <2>1, <2>2, <2>3 DEF Laid
  <2>4. CASE k = w + 1
    BY <1>2, <1>11, <2>2, <2>4
  <2> QED
    BY <1>9, <2>3, <2>4
<1>17. Laid(s)'
  BY <1>15, <1>16 DEF Laid
<1>18. RequestsReadWhole'
  <2>1. \A k \in 1..Len(accepted) : written'[k] = written[k]
    BY <1>2, <1>3, <1>7
  <2>2. accepted = [k \in 1..Len(accepted) |-> Whole(written[k])]
    BY <1>1, <1>7 DEF RequestsReadWhole
  <2>3. [k \in 1..Len(accepted) |-> Whole(written[k])] = [k \in 1..Len(accepted) |-> Whole(written'[k])]
    BY <2>1
  <2> QED
    BY <1>1, <2>2, <2>3 DEF RequestsReadWhole, Whole
<1>19. \A d \in Clients : client'[d] = "coded" =>
         Len(accepted') < Len(written') /\ written'[Len(written')] = d
  BY <1>w, <1>1, <1>2, <1>3, <1>7
<1>20. \A k \in 1..Len(written') : /\ client'[written'[k]] \notin {"new", "open"}
                                   /\ client'[written'[k]] = "coded" => k = Len(written')
  <2> SUFFICES ASSUME NEW k \in 1..Len(written')
               PROVE  /\ client'[written'[k]] \notin {"new", "open"}
                      /\ client'[written'[k]] = "coded" => k = Len(written')
    OBVIOUS
  <2>1. CASE k \in 1..w
    BY <1>1, <1>2, <1>3, <1>5, <1>7, <2>1
  <2>2. CASE k = w + 1
    BY <1>1, <1>2, <1>3, <2>2
  <2> QED
    BY <1>2, <1>3, <2>1, <2>2
<1>21. reader' = "body" => /\ Len(accepted') < Len(written')
                           /\ code' = Asks[written'[Len(accepted') + 1]].code
  BY <1>1, <1>2, <1>3, <1>7
<1>22. Len(accepted') <= Len(written') /\ Len(accepted') # Len(written')
  BY <1>1, <1>2, <1>3, <1>7
<1>23. \E st \in [Pending' -> 0..Len(pipe')] : Laid(st)'
  BY <1>12, <1>17
<1> QED
  BY <1>18, <1>19, <1>20, <1>21, <1>22, <1>23 DEF Layout
\* The body comes right after its code, which is the last that is written.
LEMMA WriteBodyLayout ==
  ASSUME PipeTypeOK, Layout, NEW c \in Clients, WriteBody(c), clean'
  PROVE  Layout'
<1>w. PICK w : w = Len(written)
  OBVIOUS
<1>p. PICK p : p = Len(pipe)
  OBVIOUS
<1>1. /\ clean /\ client[c] = "coded" /\ client' = [client EXCEPT ![c] = "sent"]
      /\ UNCHANGED <<reader, code, accepted, written>>
      /\ pipe' = pipe \o Body(c)
  BY DEF WriteBody, Move
<1>r. reader # "failed"
  BY DEF WriteBody, Over
<1>2. /\ Len(accepted) \in Nat /\ w \in Nat /\ p \in Nat
      /\ \A k \in 1..w : written[k] \in Clients /\ Reach(k) \in Nat
      /\ \A k \in Pending : k \in 1..w
      /\ pipe \in Seq(Nat)
      /\ client \in [Clients -> {"new", "open", "coded", "sent", "closed", "dead"}]
      /\ Body(c) \in Seq(Nat) /\ Len(Body(c)) = BodySize(Asks[c].code)
      /\ BodySize(Asks[c].code) \in Nat \ {0}
  BY <1>w, <1>p, PendingFacts, BodyFacts DEF PipeTypeOK
<1>3. /\ RequestsReadWhole /\ Len(accepted) < w /\ written[w] = c
      /\ reader = "body" => code = Asks[written[Len(accepted) + 1]].code
      /\ \A k \in 1..w : /\ client[written[k]] \notin {"new", "open"}
                         /\ client[written[k]] = "coded" => k = w
      /\ \A d \in Clients : client[d] = "coded" => d = c
  BY <1>w, <1>1 DEF Layout
<1>4. /\ Len(pipe') = p + BodySize(Asks[c].code)
      /\ \A k \in 1..p : pipe'[k] = pipe[k]
      /\ \A j \in 1..BodySize(Asks[c].code) : pipe'[p + j] = Body(c)[j]
  <2>1. /\ Len(pipe') = p + Len(Body(c))
        /\ \A k \in 1..(p + Len(Body(c))) :
             pipe'[k] = IF k <= p THEN pipe[k] ELSE Body(c)[k - p]
    BY <1>p, <1>1, <1>2, ConcatProperties
  <2>2. \A j \in 1..Len(Body(c)) : p + j \in 1..(p + Len(Body(c))) /\ ~(p + j <= p) /\ (p + j) - p = j
    BY <1>2
  <2>3. \A k \in 1..p : k \in 1..(p + Len(Body(c))) /\ k <= p
    BY <1>2
  <2>4. \A j \in 1..Len(Body(c)) : pipe'[p + j] = Body(c)[j]
    BY <2>1, <2>2
  <2> QED
    BY <1>2, <2>1, <2>3, <2>4
<1>5. Pending' = Pending /\ w \in Pending
  BY <1>w, <1>1, <1>2, <1>3 DEF Pending
<1>6. \A k \in 1..w : k # w => written[k] # c /\ Reach(k)' = Reach(k)
  BY <1>1, <1>2, <1>3 DEF Reach
<1>7. Reach(w) = 0 /\ Reach(w)' = BodySize(Asks[c].code)
  BY <1>1, <1>2, <1>3 DEF Reach
<1>8. PICK start \in [Pending -> 0..p] : Laid(start)
  BY <1>p, <1>1 DEF Layout
<1>9. start[w] = p
  BY <1>w, <1>p, <1>2, <1>5, <1>7, <1>8 DEF Laid
<1>10. start \in [Pending' -> 0..Len(pipe')]
  BY <1>2, <1>4, <1>5, <1>8
<1>11. ASSUME NEW k \in Pending
       PROVE  /\ k = Len(accepted) + 1 => start[k] = IF reader = "body" THEN 0 ELSE 1
              /\ k > Len(accepted) + 1 => start[k] = start[k - 1] + 1 + Reach(k - 1)'
              /\ start[k] > 0 => pipe'[start[k]] = Asks[written[k]].code
              /\ start[k] + Reach(k)' <= Len(pipe')
              /\ k = w => Len(pipe') = start[k] + Reach(k)'
              /\ \A j \in 1..Reach(k)' : pipe'[start[k] + j] = Body(written[k])[j]
  <2>1. /\ k = Len(accepted) + 1 => start[k] = IF reader = "body" THEN 0 ELSE 1
        /\ k > Len(accepted) + 1 => start[k] = start[k - 1] + 1 + Reach(k - 1)
        /\ start[k] > 0 => pipe[start[k]] = Asks[written[k]].code
        /\ start[k] + Reach(k) <= p
        /\ \A j \in 1..Reach(k) : pipe[start[k] + j] = Body(written[k])[j]
    BY <1>p, <1>r, <1>8 DEF Laid
  <2>2. start[k] \in 0..p /\ k \in 1..w /\ Reach(k) \in Nat
    BY <1>2, <1>8
  <2>3. start[k] > 0 => pipe'[start[k]] = pipe[start[k]]
    BY <1>2, <1>4, <2>2
  <2>4. k > Len(accepted) + 1 => Reach(k - 1)' = Reach(k - 1)
    <3>1. k > Len(accepted) + 1 => k - 1 \in 1..w /\ k - 1 # w
      BY <1>2, <2>2
    <3> QED
      BY <1>6, <3>1
  <2>5. CASE k # w
    <3>1. Reach(k)' = Reach(k)
      BY <1>6, <2>2, <2>5
    <3>2. ASSUME NEW j \in 1..Reach(k) PROVE pipe'[start[k] + j] = pipe[start[k] + j]
      <4>1. start[k] + j \in 1..p
        BY <1>2, <2>1, <2>2
      <4> QED
        BY <1>4, <4>1
    <3>3. start[k] + Reach(k)' <= Len(pipe')
      BY <1>2, <1>4, <2>1, <2>2, <3>1
    <3> QED
      BY <2>1, <2>3, <2>4, <2>5, <3>1, <3>2, <3>3
  <2>6. CASE k = w
    <3>1. start[k] + Reach(k)' = Len(pipe') /\ Len(pipe') \in Nat
      BY <1>2, <1>4, <1>7, <1>9, <2>6
    <3>2. \A j \in 1..Reach(k)' : pipe'[start[k] + j] = Body(written[k])[j]
      BY <1>3, <1>4, <1>7, <1>9, <2>6
    <3> QED
      BY <2>1, <2>3, <2>4, <3>1, <3>2
  <2> QED
    BY <2>5, <2>6
<1>12. ASSUME NEW j \in Pending, NEW k \in Pending, j < k
       PROVE  start[j] + Reach(j)' < start[k]
  <2>1. j # w /\ j \in 1..w
    BY <1>2, <1>12
  <2>2. Reach(j)' = Reach(j)
    BY <1>6, <2>1
  <2> QED
    BY <1>8, <1>12, <2>2 DEF Laid
<1>13. Laid(start)'
  <2>1. \A k \in Pending : /\ k \in 1..w /\ (k > Len(accepted) + 1 => k - 1 \in 1..w)
    BY <1>2
  <2> QED
    BY <1>w, <1>1, <1>5, <1>11, <1>12 DEF Laid
<1>14. RequestsReadWhole'
  BY <1>1, <1>3 DEF RequestsReadWhole, Whole
<1>15. /\ \A d \in Clients : client'[d] # "coded"
       /\ \A k \in 1..w : client'[written[k]] \notin {"new", "open"}
  BY <1>1, <1>2, <1>3
<1>16. /\ \A d \in Clients : client'[d] = "coded" =>
            Len(accepted') < Len(written') /\ written'[Len(written')] = d
       /\ \A k \in 1..Len(written') : /\ client'[written'[k]] \notin {"new", "open"}
                                      /\ client'[written'[k]] = "coded" => k = Len(written')
  BY <1>w, <1>1, <1>2, <1>15
<1>17. /\ reader' = "body" => /\ Len(accepted') < Len(written')
                              /\ code' = Asks[written'[Len(accepted') + 1]].code
       /\ Len(accepted') <= Len(written') /\ Len(accepted') # Len(written')
  BY <1>w, <1>1, <1>2, <1>3
<1>18. \E st \in [Pending' -> 0..Len(pipe')] : Laid(st)'
  BY <1>10, <1>13
<1> QED
  BY <1>14, <1>16, <1>17, <1>18 DEF Layout

LEMMA ClientStepLayout ==
  ASSUME PipeTypeOK, Layout, NEW c \in Clients, ClientStep(c)
  PROVE  Layout'
<1> SUFFICES ASSUME clean' PROVE Layout'
  BY DEF Layout
<1>1. CASE WriteCode(c)
  BY <1>1, WriteCodeLayout
<1>2. CASE WriteBody(c)
  BY <1>2, WriteBodyLayout
<1>3. CASE OpenPipe(c) \/ ClosePipe(c) \/ Die(c)
  <2>1. clean /\ UNCHANGED <<pipe, reader, code, accepted, written, clean>>
    BY <1>3 DEF OpenPipe, ClosePipe, Die
  <2>2. /\ \A d \in Clients : client'[d] = "coded" <=> client[d] = "coded"
        /\ \A d \in Clients : client'[d] \in {"new", "open"} => client[d] \in {"new", "open"}
    BY <1>3 DEF OpenPipe, ClosePipe, Die, Move, PipeTypeOK
  <2> QED
    BY <2>1, <2>2, QuietStepLayout
<1> QED
  BY <1>1, <1>2, <1>3 DEF ClientStep
\* A read takes d bytes off the pipe, so that what is left lies d bytes nearer.
LEMMA ReadMovesLayout ==
  ASSUME PipeTypeOK, NEW d \in Nat, NEW start \in [Pending -> 0..Len(pipe)], Laid(start),
         UNCHANGED <<client, written>>, Len(accepted') \in Nat,
         d <= Len(pipe), Len(pipe') = Len(pipe) - d,
         \A i \in 1..(Len(pipe) - d) : pipe'[i] = pipe[d + i],
         Pending' \subseteq Pending, \A k \in Pending' : start[k] >= d,
         Len(accepted) <= Len(accepted'),
         Len(accepted') + 1 \in Pending' =>
           start[Len(accepted') + 1] - d = IF reader' = "body" THEN 0 ELSE 1
  PROVE  \E s \in [Pending' -> 0..Len(pipe')] : Laid(s)'
<1>1. /\ Len(accepted) \in Nat /\ Len(written) \in Nat /\ Len(pipe) \in Nat
      /\ \A k \in 1..Len(written) : Reach(k) \in Nat
      /\ \A k \in Pending : k \in 1..Len(written)
  BY PendingFacts
<1>2. \A k \in 1..Len(written) : Reach(k)' = Reach(k)
  BY DEF Reach
<1>3. PICK s : s = [k \in Pending' |-> start[k] - d]
  OBVIOUS
<1>4. \A k \in Pending' : s[k] = start[k] - d /\ s[k] \in 0..Len(pipe') /\ start[k] \in 0..Len(pipe)
  BY <1>1, <1>3
<1>5. s \in [Pending' -> 0..Len(pipe')]
  BY <1>3, <1>4
<1>6. ASSUME NEW k \in Pending'
      PROVE  /\ k = Len(accepted') + 1 => s[k] = IF reader' = "body" THEN 0 ELSE 1
             /\ k > Len(accepted') + 1 => s[k] = s[k - 1] + 1 + Reach(k - 1)'
             /\ s[k] > 0 => pipe'[s[k]] = Asks[written'[k]].code
             /\ s[k] + Reach(k)' <= Len(pipe')
             /\ k = Len(written') => Len(pipe') = s[k] + Reach(k)'
             /\ \A j \in 1..Reach(k)' : pipe'[s[k] + j] = Body(written'[k])[j]
  <2>1. /\ k \in 1..Len(written) /\ Reach(k)' = Reach(k) /\ Reach(k) \in Nat
        /\ s[k] = start[k] - d /\ start[k] \in Nat /\ start[k] >= d
    BY <1>1, <1>2, <1>4
  <2>2. /\ k > Len(accepted) + 1 => start[k] = start[k - 1] + 1 + Reach(k - 1)
        /\ start[k] > 0 => pipe[start[k]] = Asks[written[k]].code
        /\ start[k] + Reach(k) <= Len(pipe)
        /\ k = Len(written) => Len(pipe) = start[k] + Reach(k)
        /\ \A j \in 1..Reach(k) : pipe[start[k] + j] = Body(written[k])[j]
    BY DEF Laid
  <2>3. k = Len(accepted') + 1 => s[k] = IF reader' = "body" THEN 0 ELSE 1
    BY <2>1
  <2>4. k > Len(accepted') + 1 => s[k] = s[k - 1] + 1 + Reach(k - 1)'
    <3>1. HAVE k > Len(accepted') + 1
    <3>2. k - 1 \in Pending' /\ k - 1 \in 1..Len(written) /\ k > Len(accepted) + 1
      BY <1>1, <2>1, <3>1 DEF Pending
    <3>3. /\ s[k - 1] = start[k - 1] - d /\ start[k - 1] \in Nat
          /\ Reach(k - 1)' = Reach(k - 1) /\ Reach(k - 1) \in Nat
      BY <1>1, <1>2, <1>4, <3>2
    <3> QED
      BY <2>1, <2>2, <3>2, <3>3
  <2>5. s[k] > 0 => pipe'[s[k]] = Asks[written'[k]].code
    <3>1. HAVE s[k] > 0
    <3>2. s[k] \in 1..(Len(pipe) - d) /\ d + s[k] = start[k]
      BY <1>1, <1>4, <2>1, <3>1
    <3>3. start[k] > 0
      BY <2>1, <3>1
    <3> QED
      BY <2>2, <3>2, <3>3
  <2>6. /\ s[k] + Reach(k)' <= Len(pipe')
        /\ k = Len(written') => Len(pipe') = s[k] + Reach(k)'
    BY <1>1, <2>1, <2>2
  <2>7. ASSUME NEW j \in 1..Reach(k) PROVE pipe'[s[k] + j] = Body(written[k])[j]
    <3>1. s[k] + j \in 1..(Len(pipe) - d) /\ d + (s[k] + j) = start[k] + j
      BY <1>1, <2>1, <2>2
    <3> QED
      BY <2>2, <3>1
  <2> QED
    BY <2>1, <2>3, <2>4, <2>5, <2>6, <2>7
<1>7. ASSUME NEW j \in Pending', NEW k \in Pending', j < k
      PROVE  s[j] + Reach(j)' < s[k]
  <2>1. start[j] + Reach(j) < start[k]
    BY <1>7 DEF Laid
  <2>2. Reach(j)' = Reach(j) /\ Reach(j) \in Nat
    BY <1>1, <1>2
  <2>3. /\ s[j] = start[j] - d /\ s[k] = start[k] - d
        /\ start[j] \in Nat /\ start[k] \in Nat /\ d \in Nat
    BY <1>1, <1>4, <1>7
  <2>4. PICK x \in Nat, y \in Nat, r \in Nat, e \in Nat :
             x = start[j] /\ y = start[k] /\ r = Reach(j) /\ e = d
    BY <2>2, <2>3
  <2>5. x + r < y
    BY <2>1, <2>4
  <2>6. (x - e) + r < y - e
    BY <2>5
  <2> QED
    BY <2>2, <2>3, <2>4, <2>6
<1>8. Laid(s)'
  BY <1>6, <1>7 DEF Laid
<1> QED
  BY <1>5, <1>8

\* The first byte of the pipe is the code of the request that is next.
LEMMA ReadCodeLayout ==
  ASSUME PipeTypeOK, Layout, ReadCode, clean'
  PROVE  Layout'
<1>1. /\ clean /\ reader = "code" /\ pipe # <<>>
      /\ UNCHANGED <<client, accepted, written>>
  BY DEF ReadCode
<1>2. /\ Len(accepted) \in Nat /\ Len(written) \in Nat /\ Len(pipe) \in Nat
      /\ \A k \in 1..Len(written) : Reach(k) \in Nat /\ Asks[written[k]].code \in Codes
      /\ pipe \in Seq(Nat)
  BY PendingFacts DEF PipeTypeOK
<1>3. /\ RequestsReadWhole /\ Len(accepted) < Len(written)
      /\ \A d \in Clients : client[d] = "coded" => written[Len(written)] = d
      /\ \A k \in 1..Len(written) : /\ client[written[k]] \notin {"new", "open"}
                                    /\ client[written[k]] = "coded" => k = Len(written)
  BY <1>1, <1>2 DEF Layout
<1>4. PICK start \in [Pending -> 0..Len(pipe)] : Laid(start)
  BY <1>1 DEF Layout
<1>a. PICK a : a = Len(accepted) + 1
  OBVIOUS
<1>5. a \in Pending /\ a \in 1..Len(written) /\ Pending' = Pending
  BY <1>a, <1>1, <1>2, <1>3 DEF Pending
<1>6. start[a] = 1 /\ pipe[1] = Asks[written[a]].code
  BY <1>a, <1>1, <1>4, <1>5 DEF Laid
<1>7. reader' = "body" /\ code' = Asks[written[a]].code
  BY <1>2, <1>5, <1>6 DEF ReadCode
<1>8. /\ 1 <= Len(pipe) /\ Len(pipe') = Len(pipe) - 1
      /\ \A i \in 1..(Len(pipe) - 1) : pipe'[i] = pipe[1 + i]
  BY <1>1, <1>2 DEF ReadCode
<1>9. \A k \in Pending : start[k] >= 1
  <2> SUFFICES ASSUME NEW k \in Pending, k # a PROVE start[k] >= 1
    BY <1>6
  <2>1. a < k
    BY <1>a, <1>2 DEF Pending
  <2>2. start[a] + Reach(a) < start[k]
    BY <1>4, <1>5, <2>1 DEF Laid
  <2> QED
    BY <1>2, <1>4, <1>5, <1>6, <2>2
<1>10. \E s \in [Pending' -> 0..Len(pipe')] : Laid(s)'
  <2>1. Len(accepted') + 1 \in Pending' =>
          start[Len(accepted') + 1] - 1 = IF reader' = "body" THEN 0 ELSE 1
    BY <1>a, <1>1, <1>6, <1>7
  <2>2. Len(accepted') \in Nat /\ Len(accepted) <= Len(accepted') /\ Pending' \subseteq Pending
    BY <1>1, <1>2, <1>5
  <2> QED
    BY <1>1, <1>4, <1>5, <1>8, <1>9, <2>1, <2>2, ReadMovesLayout
<1>11. RequestsReadWhole'
  BY <1>1, <1>3 DEF RequestsReadWhole, Whole
<1>12. reader' = "body" => /\ Len(accepted') < Len(written')
                           /\ code' = Asks[written'[Len(accepted') + 1]].code
  BY <1>a, <1>1, <1>3, <1>7
<1>13. Len(accepted') <= Len(written') /\ Len(accepted') # Len(written')
  BY <1>1, <1>2, <1>3
<1>14. /\ \A d \in Clients : client'[d] = "coded" =>
            Len(accepted') < Len(written') /\ written'[Len(written')] = d
       /\ \A k \in 1..Len(written') : /\ client'[written'[k]] \notin {"new", "open"}
                                      /\ client'[written'[k]] = "coded" => k = Len(written')
  BY <1>1, <1>3
<1> QED
  BY <1>10, <1>11, <1>12, <1>13, <1>14 DEF Layout
\* The bytes after a code are the whole body of the same request.
LEMMA ReadBodyLayout ==
  ASSUME PipeTypeOK, Layout, ReadBody, clean'
  PROVE  Layout'
<1>1. /\ clean /\ reader = "body" /\ pipe # <<>> /\ reader' = "enqueue"
      /\ UNCHANGED <<client, written>>
      /\ code \in Codes
  BY DEF ReadBody, PipeTypeOK
<1>2. /\ Len(accepted) \in Nat /\ Len(written) \in Nat /\ Len(pipe) \in Nat
      /\ \A k \in 1..Len(written) :
           /\ Reach(k) \in Nat /\ written[k] \in Clients
           /\ Len(Body(written[k])) = BodySize(Asks[written[k]].code)
           /\ Body(written[k]) \in Seq(Nat)
      /\ pipe \in Seq(Nat)
  BY PendingFacts, BodyFacts DEF PipeTypeOK
<1>a. PICK a : a = Len(accepted) + 1
  OBVIOUS
<1>3. /\ RequestsReadWhole /\ Len(accepted) < Len(written) /\ code = Asks[written[a]].code
      /\ \A d \in Clients : client[d] = "coded" => written[Len(written)] = d
      /\ \A k \in 1..Len(written) : /\ client[written[k]] \notin {"new", "open"}
                                    /\ client[written[k]] = "coded" => k = Len(written)
  BY <1>a, <1>1, <1>2 DEF Layout
<1>4. PICK start \in [Pending -> 0..Len(pipe)] : Laid(start)
  BY <1>1 DEF Layout
<1>5. a \in Pending /\ a \in 1..Len(written)
  BY <1>a, <1>2, <1>3 DEF Pending
<1>6. /\ start[a] = 0 /\ start[a] + Reach(a) <= Len(pipe)
      /\ a = Len(written) => Len(pipe) = start[a] + Reach(a)
      /\ \A j \in 1..Reach(a) : pipe[start[a] + j] = Body(written[a])[j]
  BY <1>a, <1>1, <1>4, <1>5 DEF Laid
<1>d. PICK d : d = BodySize(code)
  OBVIOUS
<1>7. d \in Nat \ {0} /\ Filled \in Seq(Nat) /\ Len(Filled) = d
  BY <1>d, <1>1, FilledType
<1>8. client[written[a]] # "coded" /\ Reach(a) = d
  <2>1. client[written[a]] # "coded"
    <3>1. SUFFICES ASSUME client[written[a]] = "coded" PROVE FALSE
      OBVIOUS
    <3>2. a = Len(written) /\ Reach(a) = 0
      BY <1>3, <1>5, <3>1 DEF Reach
    <3>3. Len(pipe) = 0
      BY <1>6, <3>2
    <3> QED
      BY <1>1, <1>2, <3>3
  <2> QED
    BY <1>d, <1>3, <2>1 DEF Reach
<1>9. d <= Len(pipe) /\ \A j \in 1..d : pipe[j] = Body(written[a])[j]
  BY <1>2, <1>6, <1>7, <1>8
<1>10. Filled = Body(written[a])
  <2>1. Len(Body(written[a])) = d /\ Body(written[a]) \in Seq(Nat)
    BY <1>d, <1>2, <1>3, <1>5
  <2>2. \A j \in 1..d : Filled[j] = Body(written[a])[j]
    BY <1>d, <1>2, <1>7, <1>9 DEF Filled
  <2> QED
    BY <1>7, <2>1, <2>2, SeqEqual
<1>11. /\ Len(pipe') = Len(pipe) - d
       /\ \A i \in 1..(Len(pipe) - d) : pipe'[i] = pipe[d + i]
  <2>1. pipe' = SubSeq(pipe, d + 1, Len(pipe))
    BY <1>d DEF ReadBody
  <2>2. /\ Len(pipe') = IF d < Len(pipe) THEN Len(pipe) - d ELSE 0
        /\ \A i \in 1..(Len(pipe) - d) : pipe'[i] = pipe[d + i]
    <3>1. pipe \in Seq(Nat) /\ d \in Nat
      BY <1>2, <1>7
    <3> QED
      BY <2>1, <3>1, Remainder
  <2> QED
    BY <1>2, <1>7, <1>9, <2>2
<1>12. /\ Len(accepted') = a
       /\ \A k \in 1..Len(accepted) : accepted'[k] = accepted[k]
       /\ accepted'[a] = Whole(written[a])
       /\ accepted' \in Seq([code : Codes, body : Seq(Nat)])
  <2> DEFINE request == [code |-> code, body |-> Filled]
  <2>1. /\ request \in [code : Codes, body : Seq(Nat)]
        /\ request = Whole(written[a])
    BY <1>1, <1>3, <1>7, <1>10 DEF Whole
  <2>2. accepted' = Append(accepted, request)
    BY DEF ReadBody
  <2>3. accepted \in Seq([code : Codes, body : Seq(Nat)])
    BY DEF PipeTypeOK
  <2> HIDE DEF request
  <2> QED
    BY <1>a, <2>1, <2>2, <2>3, AppendProperties
<1>13. RequestsReadWhole'
  <2>1. \A k \in 1..a : accepted'[k] = Whole(written[k])
    <3>1. \A k \in 1..Len(accepted) : accepted[k] = Whole(written[k])
      BY <1>1, <1>3 DEF RequestsReadWhole
    <3>2. \A k \in 1..a : k \in 1..Len(accepted) \/ k = a
      BY <1>a, <1>2
    <3> QED
      BY <1>12, <3>1, <3>2
  <2>2. accepted' = [k \in 1..a |-> Whole(written[k])]
    <3>1. accepted' = [k \in 1..Len(accepted') |-> accepted'[k]]
      BY <1>12
    <3> QED
      BY <1>12, <2>1, <3>1
  <2> QED
    BY <1>1, <1>12, <2>2 DEF RequestsReadWhole, Whole
<1>14. Pending' = Pending \ {a} /\ Pending' \subseteq Pending
  BY <1>a, <1>1, <1>2, <1>12 DEF Pending
<1>15. \A k \in Pending' : start[k] >= d + 1
  <2> SUFFICES ASSUME NEW k \in Pending' PROVE start[k] >= d + 1
    OBVIOUS
  <2>1. a < k /\ k \in Pending
    BY <1>a, <1>2, <1>14 DEF Pending
  <2>2. start[a] + Reach(a) < start[k]
    BY <1>4, <1>5, <2>1 DEF Laid
  <2> QED
    BY <1>2, <1>4, <1>6, <1>7, <1>8, <2>1, <2>2
<1>16. a + 1 \in Pending' => start[a + 1] = d + 1
  <2>1. HAVE a + 1 \in Pending'
  <2>2. a + 1 \in Pending /\ a + 1 > Len(accepted) + 1 /\ (a + 1) - 1 = a
    BY <1>a, <1>2, <1>14, <2>1
  <2>3. start[a + 1] = start[a] + 1 + Reach(a)
    BY <1>4, <2>2 DEF Laid
  <2> QED
    BY <1>6, <1>7, <1>8, <2>3
<1>17. \E s \in [Pending' -> 0..Len(pipe')] : Laid(s)'
  <2>1. Len(accepted') + 1 \in Pending' =>
          start[Len(accepted') + 1] - d = IF reader' = "body" THEN 0 ELSE 1
    BY <1>1, <1>7, <1>12, <1>16
  <2>2. Len(accepted') \in Nat /\ Len(accepted) <= Len(accepted')
    BY <1>a, <1>2, <1>12
  <2>3. \A k \in Pending' : start[k] >= d
    BY <1>2, <1>4, <1>7, <1>14, <1>15
  <2>4. d \in Nat
    BY <1>7
  <2> QED
    BY <1>1, <1>4, <1>9, <1>11, <1>14, <2>1, <2>2, <2>3, <2>4, ReadMovesLayout
<1>18. /\ Len(accepted') <= Len(written')
       /\ Len(accepted') = Len(written') => pipe' = <<>>
  <2>1. Len(accepted') <= Len(written')
    BY <1>1, <1>5, <1>12
  <2>2. Len(accepted') = Len(written') => Len(pipe') = 0
    BY <1>1, <1>2, <1>6, <1>7, <1>8, <1>11, <1>12
  <2>3. pipe' \in Seq(Nat)
    BY <1>2, <1>7, Remainder, <1>d DEF ReadBody
  <2> QED
    BY <2>1, <2>2, <2>3
<1>19. /\ \A c \in Clients : client'[c] = "coded" =>
            Len(accepted') < Len(written') /\ written'[Len(written')] = c
       /\ \A k \in 1..Len(written') : /\ client'[written'[k]] \notin {"new", "open"}
                                      /\ client'[written'[k]] = "coded" => k = Len(written')
  <2>1. \A c \in Clients : client[c] = "coded" => a # Len(written)
    BY <1>3, <1>8
  <2> QED
    BY <1>1, <1>2, <1>3, <1>5, <1>12, <2>1
<1> QED
  BY <1>1, <1>13, <1>17, <1>18, <1>19 DEF Layout

LEMMA ReaderStepLayout ==
  ASSUME PipeTypeOK, Layout, Reads
  PROVE  Layout'
<1> SUFFICES ASSUME clean' PROVE Layout'
  BY DEF Layout
<1>1. CASE Opened
  <2>1. /\ clean /\ reader = "opening" /\ reader' = "code"
        /\ UNCHANGED <<client, pipe, code, accepted, written>>
    BY <1>1 DEF Opened
  <2>2. Pending' = Pending /\ \A k : Reach(k)' = Reach(k)
    BY <2>1 DEF Pending, Reach
  <2>3. PICK start \in [Pending -> 0..Len(pipe)] : Laid(start)
    BY <2>1 DEF Layout
  <2>4. Laid(start)'
    BY <2>1, <2>2, <2>3 DEF Laid
  <2>5. RequestsReadWhole'
    BY <2>1 DEF Layout, RequestsReadWhole, Whole
  <2>6. \E s \in [Pending' -> 0..Len(pipe')] : Laid(s)'
    BY <2>1, <2>2, <2>3, <2>4
  <2> QED
    BY <2>1, <2>5, <2>6 DEF Layout
<1>2. CASE ReadCode
  BY <1>2, ReadCodeLayout
<1>3. CASE ReadNoCode
  BY <1>3 DEF ReadNoCode
<1>4. CASE ReadBody
  BY <1>4, ReadBodyLayout
<1>5. CASE ReadNoBody
  \* The client that wrote the code still has the pipe open.
  <2>1. clean /\ reader = "body" /\ pipe = <<>> /\ Writers = {}
    BY <1>5 DEF ReadNoBody
  <2>a. PICK a : a = Len(accepted) + 1
    OBVIOUS
  <2>2. a \in Pending /\ a \in 1..Len(written)
    BY <2>a, <2>1, PendingFacts DEF Layout, Pending
  <2>3. PICK start \in [Pending -> 0..Len(pipe)] : Laid(start)
    BY <2>1 DEF Layout
  <2>4. start[a] = 0 /\ start[a] + Reach(a) <= 0
    BY <2>a, <2>1, <2>2, <2>3 DEF Laid
  <2>5. written[a] \in Clients /\ BodySize(Asks[written[a]].code) \in Nat \ {0}
    BY <2>2, PendingFacts
  <2>6. client[written[a]] = "coded"
    BY <2>4, <2>5 DEF Reach
  <2> QED
    BY <2>1, <2>5, <2>6 DEF Writers
<1> QED
  BY <1>1, <1>2, <1>3, <1>4, <1>5 DEF Reads
-----------------------------------------------------------------------------
LEMMA StutterIInv ==
  ASSUME IInv, UNCHANGED pipeVars
  PROVE  IInv'
<1> USE DEF pipeVars
<1>1. PipeTypeOK'
  BY DEF IInv, PipeTypeOK
<1>2. DeathsLeaveTraces'
  BY DEF IInv, DeathsLeaveTraces, ExitNeedsADeath, Unfinished, Fresh
<1>3. CodesComeFromClients'
  BY DEF IInv, CodesComeFromClients, AcceptedWith, WrittenWith, PipedWith, Fresh
<1>4. Layout'
  <2>1. UNCHANGED <<pipe, reader, code, accepted, written, clean, client>>
    OBVIOUS
  <2> QED
    BY <2>1, QuietStepLayout DEF IInv, Layout
<1> QED
  BY <1>1, <1>2, <1>3, <1>4 DEF IInv

\* Nothing is read or written when a request is handed on, or the process fails.
LEMMA HandOnStep ==
  ASSUME IInv, Enqueue \/ Fail
  PROVE  IInv'
<1>1. /\ UNCHANGED <<client, pipe, memory, accepted, written, clean>>
      /\ reader' \in {"code", "failed"}
      /\ code' \in {0, code} /\ (reader' = "code" => code' = 0)
      /\ reader' = "code" => reader = "enqueue"
      /\ reader # "opening"
  BY DEF Enqueue, Fail
<1>2. PipeTypeOK'
  BY <1>1 DEF IInv, PipeTypeOK
<1>3. DeathsLeaveTraces'
  BY <1>1 DEF IInv, DeathsLeaveTraces, ExitNeedsADeath, Unfinished, Fresh
<1>4. CodesComeFromClients'
  <2> SUFFICES ASSUME NEW n \in Codes
               PROVE  Cardinality(AcceptedWith(n)) + Cardinality(PipedWith(n))
                        <= Cardinality(WrittenWith(n)) + (IF clean THEN 0 ELSE 1)
    <3>1. reader' # "body" /\ ~Fresh'
      BY <1>1 DEF Fresh
    <3>2. \A n : /\ AcceptedWith(n)' = AcceptedWith(n) /\ PipedWith(n)' = PipedWith(n)
                 /\ WrittenWith(n)' = WrittenWith(n)
      BY <1>1 DEF AcceptedWith, PipedWith, WrittenWith
    <3>3. \A n \in Codes : /\ Cardinality(AcceptedWith(n)) \in Nat
                           /\ Cardinality(PipedWith(n)) \in Nat
      BY CountsAreNumbers DEF IInv
    <3> QED
      BY <1>1, <3>1, <3>2, <3>3 DEF CodesComeFromClients
  <2>1. /\ Cardinality(AcceptedWith(n)) \in Nat /\ Cardinality(WrittenWith(n)) \in Nat
        /\ Cardinality(PipedWith(n)) \in Nat
    BY CountsAreNumbers DEF IInv
  <2>2. Cardinality(AcceptedWith(n)) + Cardinality(PipedWith(n))
          + (IF reader = "body" /\ code = n THEN 1 ELSE 0)
        <= Cardinality(WrittenWith(n)) + (IF clean \/ Fresh THEN 0 ELSE 1)
    BY DEF IInv, CodesComeFromClients
  <2> QED
    BY <2>1, <2>2
<1>5. Layout'
  <2> SUFFICES ASSUME clean PROVE Layout'
    BY <1>1 DEF Layout
  <2>1. Pending' = Pending /\ \A k : Reach(k)' = Reach(k)
    BY <1>1 DEF Pending, Reach
  <2>2. PICK start \in [Pending -> 0..Len(pipe)] : Laid(start)
    BY DEF IInv, Layout
  <2>3. Laid(start)'
    BY <1>1, <2>1, <2>2 DEF Laid
  <2>4. RequestsReadWhole'
    BY <1>1 DEF IInv, Layout, RequestsReadWhole, Whole
  <2>5. \E s \in [Pending' -> 0..Len(pipe')] : Laid(s)'
    BY <1>1, <2>1, <2>2, <2>3
  <2> QED
    BY <1>1, <2>4, <2>5 DEF IInv, Layout
<1> QED
  BY <1>2, <1>3, <1>4, <1>5 DEF IInv

LEMMA StepIInv ==
  ASSUME IInv, [PipeNext]_pipeVars
  PROVE  IInv'
<1>1. CASE Reads
  <2>1. PipeTypeOK'
    BY <1>1, ReaderStepType DEF IInv
  <2> QED
    BY <1>1, <2>1, ReaderStepDeaths, ReaderStepCodes, ReaderStepLayout DEF IInv
<1>2. ASSUME NEW c \in Clients, ClientStep(c) PROVE IInv'
  BY <1>2, ClientStepType, ClientStepDeaths, ClientStepCodes, ClientStepLayout DEF IInv
<1>3. CASE Enqueue \/ Fail
  BY <1>3, HandOnStep
<1>4. CASE UNCHANGED pipeVars
  BY <1>4, StutterIInv
<1> QED
  BY <1>1, <1>2, <1>3, <1>4 DEF PipeNext

\* The four parts hold in every state that clients and main thread can reach.
THEOREM InvariantHolds == PipeSpec => []IInv
<1>1. PipeInit => IInv
  BY InitType, InitDeaths, InitCodes, InitLayout DEF IInv
<1>2. IInv /\ [PipeNext]_pipeVars => IInv'
  BY StepIInv
<1> QED
  BY <1>1, <1>2, PTL DEF PipeSpec

\* Every variable of the main thread and of the clients has its type; a body is
\* always read to memory of the size that its code calls for.
THEOREM PipeTypesHold == PipeSpec => []PipeTypeOK
<1>1. IInv => PipeTypeOK
  BY DEF IInv
<1> QED
  BY <1>1, InvariantHolds, PTL

\* However many clients there are and however the reads fall between the writes,
\* main_thread_function hands on the requests as they were made, byte for byte
\* and in order, until two clients come between one another's writes.
THEOREM RequestsAreReadWhole == PipeSpec => []RequestsReadWhole
<1>1. IInv => RequestsReadWhole
  BY DEF IInv, Layout, RequestsReadWhole
<1> QED
  BY <1>1, InvariantHolds, PTL

\* However the writes are mixed up, main_thread_function hands on no more requests
\* of a kind than clients have made, and one more if it took a code from the stack.
THEOREM NoRequestIsInvented == PipeSpec => []NoRequestInvented
<1>1. IInv => NoRequestInvented
  <2> SUFFICES ASSUME IInv, NEW n \in Codes
               PROVE  Cardinality(AcceptedWith(n)) <=
                        Cardinality(WrittenWith(n)) + (IF clean THEN 0 ELSE 1)
    BY DEF NoRequestInvented, AcceptedWith, WrittenWith
  <2>1. /\ Cardinality(AcceptedWith(n)) \in Nat /\ Cardinality(WrittenWith(n)) \in Nat
        /\ Cardinality(PipedWith(n)) \in Nat
    BY CountsAreNumbers DEF IInv
  <2>2. Cardinality(AcceptedWith(n)) + Cardinality(PipedWith(n))
          + (IF reader = "body" /\ code = n THEN 1 ELSE 0)
        <= Cardinality(WrittenWith(n)) + (IF clean \/ Fresh THEN 0 ELSE 1)
    BY DEF IInv, CodesComeFromClients
  <2> QED
    BY <2>1, <2>2
<1> QED
  BY <1>1, InvariantHolds, PTL

\* read_pipe ends the broker only if a client has died: two requests that are
\* mixed up never do.
THEOREM ExitsNeedADeath == PipeSpec => []ExitNeedsADeath
<1>1. IInv => ExitNeedsADeath
  BY DEF IInv, DeathsLeaveTraces
<1> QED
  BY <1>1, InvariantHolds, PTL
=============================================================================

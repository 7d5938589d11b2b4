---------------------------- MODULE RegisterPipe ----------------------------
(***************************************************************************)
(* The register pipe: one named pipe on which every client makes its       *)
(* request and from which the main thread of mbroker.c reads them.  A      *)
(* request is two writes, the code and the body, and two reads; nothing    *)
(* keeps the two writes of a client together, so that what the main thread *)
(* reads depends on how the clients interleave and on whether they live to *)
(* make the second write.                                                  *)
(*                                                                         *)
(* A byte is a number: 0 is the terminator, 1 to 9 are codes, and text is  *)
(* larger.  Writes are shorter than PIPE_BUF and therefore atomic; a read  *)
(* takes what there is, up to what was asked for.                          *)
(*                                                                         *)
(* Between two requests the main thread calls pcq_enqueue, which may hold  *)
(* it up for ever (PCQueue says when): here it returns whenever it likes,  *)
(* or never.                                                               *)
(***************************************************************************)
EXTENDS Naturals, Sequences, FiniteSets

CONSTANTS
  Clients,        (* publishers, subscribers and managers                   *)
  Asks,           (* the request of each: its code, and the names of its    *)
                  (* pipe and of the box                                    *)
  PIPE_NAME_SIZE,
  BOX_NAME_SIZE,
  Junk            (* a byte of memory that was never written                *)

Codes == {1, 2, 3, 5, 7}
ListCode == 7
Text == Nat \ 0..9

ASSUME PipeAssumption ==
  /\ PIPE_NAME_SIZE \in Nat \ {0} /\ BOX_NAME_SIZE \in Nat \ {0}
  /\ Junk \in Text
  /\ IsFiniteSet(Clients)
  /\ \A c \in Clients :
       /\ Asks[c].code \in Codes
       /\ Asks[c].name \in Seq(Text) /\ Len(Asks[c].name) < PIPE_NAME_SIZE
       /\ Asks[c].box \in Seq(Text) /\ Len(Asks[c].box) < BOX_NAME_SIZE

VARIABLES
  client,      (* where each client is: nothing, then open, coded and sent  *)
               (* while it holds the pipe, or closed or dead                *)
  pipe,        (* the bytes in the register pipe                            *)
  reader,      (* where the main thread is                                  *)
  code,
  memory,      (* box_request and pipe_name, where bodies are read to       *)
  accepted,    (* the requests read                                         *)
  written,     (* history: the clients that have written a code, in order   *)
  clean        (* history: no client wrote between code and body of another *)
               (* or died between its own, and code was set before its use  *)

pipeVars == <<client, pipe, reader, code, memory, accepted, written, clean>>

\* fill_string: the string, then terminators up to the size of its array.
fill_string(size, string) ==
  [k \in 1..size |-> IF k <= Len(string) THEN string[k] ELSE 0]

\* What a client writes after its code.
Body(c) ==
  LET name == fill_string(PIPE_NAME_SIZE, Asks[c].name)
  IN IF Asks[c].code = ListCode THEN name ELSE name \o fill_string(BOX_NAME_SIZE, Asks[c].box)

BodySize(n) == IF n = ListCode THEN PIPE_NAME_SIZE ELSE PIPE_NAME_SIZE + BOX_NAME_SIZE

\* The variable a body is read to.
Buffer(n) == IF n = ListCode THEN "pipe_name" ELSE "box_request"

\* The process has ended: a read failed, or something else did.
Over == {"exited", "failed"}

\* The clients that hold the pipe open.
Writers == {c \in Clients : client[c] \in {"open", "coded", "sent"}}

PipeTypeOK ==
  /\ client \in [Clients -> {"new", "open", "coded", "sent", "closed", "dead"}]
  /\ pipe \in Seq(Nat)
  /\ reader \in {"opening", "code", "body", "enqueue", "exited", "failed"}
  /\ code \in {0} \cup Codes
  /\ reader = "body" => code # 0
  /\ memory \in [{"pipe_name", "box_request"} -> Seq(Nat)]
  /\ Len(memory["pipe_name"]) = PIPE_NAME_SIZE
  /\ Len(memory["box_request"]) = PIPE_NAME_SIZE + BOX_NAME_SIZE
  /\ accepted \in Seq([code : Codes, body : Seq(Nat)])
  /\ \A k \in 1..Len(accepted) : Len(accepted[k].body) = BodySize(accepted[k].code)
  /\ written \in Seq(Clients)
  /\ clean \in BOOLEAN

\* code holds whatever the stack held; any value that is no code is as good as 0.
PipeInit ==
  /\ client = [c \in Clients |-> "new"]
  /\ pipe = <<>>
  /\ reader = "opening"
  /\ code \in {0} \cup Codes
  /\ memory = [b \in {"pipe_name", "box_request"} |->
                [k \in 1..(IF b = "pipe_name" THEN PIPE_NAME_SIZE
                           ELSE PIPE_NAME_SIZE + BOX_NAME_SIZE) |-> Junk]]
  /\ accepted = <<>>
  /\ written = <<>>
  /\ clean = TRUE

-----------------------------------------------------------------------------
(* pub.c, sub.c, manager.c                                                 *)

Move(c, from, to) == client[c] = from /\ client' = [client EXCEPT ![c] = to]

OpenPipe(c) ==
  /\ reader \notin Over
  /\ Move(c, "new", "open")
  /\ UNCHANGED <<pipe, reader, code, memory, accepted, written, clean>>

WriteCode(c) ==
  /\ reader \notin Over
  /\ clean' = (clean /\ \A d \in Clients : client[d] # "coded")
  /\ Move(c, "open", "coded")
  /\ pipe' = Append(pipe, Asks[c].code)
  /\ written' = Append(written, c)
  /\ UNCHANGED <<reader, code, memory, accepted>>

\* Mutant: the names are not filled up to the size of their arrays.
WriteBody_NoFill(c) ==
  /\ reader \notin Over
  /\ Move(c, "coded", "sent")
  /\ pipe' = pipe \o Asks[c].name \o <<0>>
  /\ UNCHANGED <<reader, code, memory, accepted, written, clean>>

WriteBody(c) ==
  /\ reader \notin Over
  /\ Move(c, "coded", "sent")
  /\ pipe' = pipe \o Body(c)
  /\ UNCHANGED <<reader, code, memory, accepted, written, clean>>

ClosePipe(c) ==
  /\ Move(c, "sent", "closed")
  /\ UNCHANGED <<pipe, reader, code, memory, accepted, written, clean>>

\* A client is killed before its request is written, or gets SIGPIPE because the
\* broker is gone.
Die(c) ==
  /\ client[c] \in {"open", "coded"}
  /\ clean' = (clean /\ client[c] # "coded")
  /\ client' = [client EXCEPT ![c] = "dead"]
  /\ UNCHANGED <<pipe, reader, code, memory, accepted, written>>

-----------------------------------------------------------------------------
(* main and main_thread_function                                           *)

\* open_pipe returns once a client has opened the pipe too, gone again or not.
Opened ==
  /\ reader = "opening" /\ \E c \in Clients : client[c] # "new"
  /\ reader' = "code"
  /\ UNCHANGED <<client, pipe, code, memory, accepted, written, clean>>

\* Mutant: a code that is unknown is taken for a request.
ReadCode_NoDefault ==
  /\ reader = "code" /\ pipe # <<>>
  /\ code' = Head(pipe)
  /\ reader' = "body"
  /\ pipe' = Tail(pipe)
  /\ UNCHANGED <<client, memory, accepted, written, clean>>

\* Reads a code; one that is unknown is passed over.
ReadCode ==
  /\ reader = "code" /\ pipe # <<>>
  /\ code' = IF Head(pipe) \in Codes THEN Head(pipe) ELSE 0
  /\ reader' = IF Head(pipe) \in Codes THEN "body" ELSE "code"
  /\ pipe' = Tail(pipe)
  /\ UNCHANGED <<client, memory, accepted, written, clean>>

\* Nobody has the pipe open: the read returns at once and the switch is entered
\* with the code as it was, which is 0 in all iterations but the first.
ReadNoCode ==
  /\ reader = "code" /\ pipe = <<>> /\ Writers = {} /\ code # 0
  /\ reader' = "body"
  /\ clean' = FALSE
  /\ UNCHANGED <<client, pipe, code, memory, accepted, written>>

\* The memory of the body after a read of what there is.
Filled ==
  LET old == memory[Buffer(code)]
  IN [k \in 1..BodySize(code) |-> IF k <= Len(pipe) THEN pipe[k] ELSE old[k]]

\* Mutant: a body that is short ends the process.
ReadBody_AllOrExit ==
  /\ reader = "body" /\ pipe # <<>>
  /\ memory' = [memory EXCEPT ![Buffer(code)] = Filled]
  /\ pipe' = SubSeq(pipe, BodySize(code) + 1, Len(pipe))
  /\ accepted' = Append(accepted, [code |-> code, body |-> Filled])
  /\ reader' = IF Len(pipe) < BodySize(code) THEN "exited" ELSE "enqueue"
  /\ UNCHANGED <<client, code, written, clean>>

\* Mutant: waits for a body that is whole.
ReadBody_WaitsForAll ==
  /\ reader = "body" /\ Len(pipe) >= BodySize(code)
  /\ memory' = [memory EXCEPT ![Buffer(code)] = Filled]
  /\ pipe' = SubSeq(pipe, BodySize(code) + 1, Len(pipe))
  /\ accepted' = Append(accepted, [code |-> code, body |-> Filled])
  /\ reader' = "enqueue"
  /\ UNCHANGED <<client, code, written, clean>>

\* Reads a body, a short one if there are fewer bytes.
ReadBody ==
  /\ reader = "body" /\ pipe # <<>>
  /\ memory' = [memory EXCEPT ![Buffer(code)] = Filled]
  /\ pipe' = SubSeq(pipe, BodySize(code) + 1, Len(pipe))
  /\ accepted' = Append(accepted, [code |-> code, body |-> Filled])
  /\ reader' = "enqueue"
  /\ UNCHANGED <<client, code, written, clean>>

\* No body and nobody to write it: the process ends.
ReadNoBody ==
  /\ reader = "body" /\ pipe = <<>> /\ Writers = {}
  /\ reader' = "exited"
  /\ UNCHANGED <<client, pipe, code, memory, accepted, written, clean>>

Reads == Opened \/ ReadCode \/ ReadNoCode \/ ReadBody \/ ReadNoBody

\* Mutant: code is left as it is.
Enqueue_NoReset ==
  /\ reader = "enqueue"
  /\ reader' = "code"
  /\ UNCHANGED <<client, pipe, code, memory, accepted, written, clean>>

\* pcq_enqueue returns, a session is made for the request, and code is reset.
Enqueue ==
  /\ reader = "enqueue"
  /\ reader' = "code"
  /\ code' = 0
  /\ UNCHANGED <<client, pipe, memory, accepted, written, clean>>

\* No thread can be made for the request, or a session ends the process.
Fail ==
  /\ reader \in {"code", "body", "enqueue"} /\ accepted # <<>>
  /\ reader' = "failed"
  /\ UNCHANGED <<client, pipe, code, memory, accepted, written, clean>>

ClientStep(c) == OpenPipe(c) \/ WriteCode(c) \/ WriteBody(c) \/ ClosePipe(c) \/ Die(c)

PipeNext == Reads \/ Enqueue \/ Fail \/ \E c \in Clients : ClientStep(c)

\* The main thread runs, outside of pcq_enqueue.  A client need not go on, nor close
\* the pipe.
PipeSpec == PipeInit /\ [][PipeNext]_pipeVars /\ WF_pipeVars(Reads)
-----------------------------------------------------------------------------
Whole(c) == [code |-> Asks[c].code, body |-> Body(c)]

\* The requests that have a session: all that were read but the one that the main
\* thread is in pcq_enqueue with.
HandedOn == SubSeq(accepted, 1, Len(accepted) - (IF reader = "enqueue" THEN 1 ELSE 0))

\* The main thread stays in pcq_enqueue.
HeldUp == <>[](reader = "enqueue")

\* While clients do not come between one another's code and body, nor die
\* between their own, the requests read are those that were made, byte for
\* byte and in their order, wherever the reads fall between the writes.
RequestsReadWhole ==
  clean => accepted = [k \in 1..Len(accepted) |-> Whole(written[k])]

\* Whatever the clients do, no request is made up: as many requests of a kind
\* are read as clients have asked for it, or one more if the first read
\* found nobody and code was taken as the stack had left it.
NoRequestInvented ==
  \A n \in Codes :
    Cardinality({k \in 1..Len(accepted) : accepted[k].code = n})
      <= Cardinality({k \in 1..Len(written) : Asks[written[k]].code = n})
         + (IF clean THEN 0 ELSE 1)

\* A read ends the broker only if a client died before its body was written, or
\* the first client before its code; a request misread through interleaving never
\* ends it there.
ExitNeedsADeath == reader = "exited" => \E c \in Clients : client[c] = "dead"

\* Every request is handed on in the end, unless requests got mixed up, the
\* process ended in a session, or pcq_enqueue holds the main thread up for ever.
EveryRequestAccepted ==
  \/ HeldUp
  \/ \A c \in Clients :
       client[c] \in {"sent", "closed"}
         ~> (\/ ~clean \/ reader = "failed"
             \/ \E k \in 1..Len(HandedOn) : HandedOn[k] = Whole(c))

\* Mixed up or not, the main thread leaves bytes in the pipe only if pcq_enqueue
\* holds it up for ever: the requests that come after are read.
PipeDrained == HeldUp \/ (pipe # <<>> ~> (pipe = <<>> \/ reader \in Over))
=============================================================================

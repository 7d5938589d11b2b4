----------------------------- MODULE MessageBox -----------------------------
(***************************************************************************)
(* What a message box promises its clients.  A box is a log of messages    *)
(* that publishers append to; every subscriber of the box is sent the whole *)
(* log from its beginning, message by message and in order, and a          *)
(* subscriber that stays is in the end sent everything that was published. *)
(***************************************************************************)
EXTENDS Sequences, Naturals

CONSTANTS
  Boxes,         (* the names of the boxes                        *)
  Messages,      (* what may be published                         *)
  Subscribers,   (* the subscribers                               *)
  BoxOf,         (* a function: the box each subscriber asks for  *)
  MaxLog         (* how many messages EverythingSent looks at     *)

VARIABLES
  log,           (* the messages of each box, oldest first        *)
  sent,          (* the messages each subscriber has been sent    *)
  subscribed     (* the subscribers that are waiting for messages *)

boxVars == <<log, sent, subscribed>>

BoxInit ==
  /\ log = [b \in Boxes |-> <<>>]
  /\ sent = [s \in Subscribers |-> <<>>]
  /\ subscribed = {}

Publish(b, m) ==
  /\ log' = [log EXCEPT ![b] = Append(@, m)]
  /\ UNCHANGED <<sent, subscribed>>

Subscribe(s) ==
  /\ s \notin subscribed
  /\ subscribed' = subscribed \cup {s}
  /\ UNCHANGED <<log, sent>>

\* The oldest message the subscriber has not been sent.
Send(s) ==
  /\ s \in subscribed
  /\ Len(sent[s]) < Len(log[BoxOf[s]])
  /\ sent' = [sent EXCEPT ![s] = Append(@, log[BoxOf[s]][Len(@) + 1])]
  /\ UNCHANGED <<log, subscribed>>

BoxNext ==
  \/ \E b \in Boxes, m \in Messages : Publish(b, m)
  \/ \E s \in Subscribers : Subscribe(s) \/ Send(s)

\* The safety half of the promise: nothing is lost, changed, repeated or sent in
\* another order.
BoxSafety == BoxInit /\ [][BoxNext]_boxVars

\* The liveness half: whatever is in the log is sent in the end.
EverythingSent ==
  \A s \in Subscribers : \A n \in 1..MaxLog :
    (s \in subscribed /\ Len(log[BoxOf[s]]) >= n) ~> Len(sent[s]) >= n
=============================================================================

------------------------------ MODULE MCBroker ------------------------------
(* TLC instances of Broker: who asks for what, and after whom.              *)
EXTENDS Broker, TLC

CONSTANTS boxA, boxB, x, creator, creator2, creator3, remover, pub1, pub2, sub1, sub2

Asks(k, b, ms) == [kind |-> k, box |-> b, messages |-> ms]

MCRequest == [s \in Sessions |->
  CASE s = creator -> Asks("create", boxA, <<>>)
    [] s = creator3 -> Asks("create", boxA, <<>>)
    [] s = creator2 -> Asks("create", boxB, <<>>)
    [] s = remover -> Asks("remove", boxA, <<>>)
    [] s = pub1 -> Asks("publisher", boxA, <<<<x>>, <<>>>>)
    [] s = pub2 -> Asks("publisher", boxA, <<<<x, x>>>>)
    [] OTHER -> Asks("subscriber", boxA, <<>>)]

\* The box is there before anyone asks for it, and a publisher asks for it when
\* the one before is registered, as does the subscriber.
MCSteadyAfter == [s \in Sessions |->
  IF s = creator THEN {} ELSE IF s = pub1 THEN {creator} ELSE {creator, pub1}]

\* Publishers and managers act as soon as the box is there.
MCAtOnceAfter == [s \in Sessions |-> IF s = creator THEN {} ELSE {creator}]

\* The same, with the publisher after the other box, the subscriber after the
\* publisher, and the box created again after its removal.
MCChangingAfter == [s \in Sessions |->
  CASE s = creator -> {} [] s = creator3 -> {creator, remover}
    [] s = pub2 -> {creator2} [] s = sub1 -> {pub2} [] OTHER -> {creator}]

\* What the theorems of Registry_proof assume of the managers holds in every run of
\* this module.
ASSUME TurnsTaken == ManagersTakeTurns
=============================================================================

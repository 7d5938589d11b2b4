----------------------------- MODULE MCOverlap -----------------------------
(* A TLC instance of Broker in which managers do not wait for each other:   *)
(* all are after one box.                                                   *)
EXTENDS Broker, TLC

CONSTANTS boxA, create1, create2, create3, remove1, remove2

MCOneBox ==
  [s \in Sessions |->
    [kind |-> IF s \in {remove1, remove2} THEN "remove" ELSE "create",
     box |-> boxA, messages |-> <<>>]]

MCAtOnce == [s \in Sessions |-> {}]
=============================================================================

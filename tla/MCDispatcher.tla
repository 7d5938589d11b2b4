---------------------------- MODULE MCDispatcher ----------------------------
(* TLC instances of Dispatcher.                                             *)
EXTENDS Dispatcher, TLC

CONSTANTS pub1, pub2, man1, boxA, boxB

MCStrings == {pub1, pub2, man1, boxA, boxB}
MCBuffers == {"args", "pipe_name"}

\* A publisher of each box, with a listing between them.
ThreeRequests ==
  << [buffer |-> "args",      fields |-> <<pub1, boxA>>],
     [buffer |-> "pipe_name", fields |-> <<man1>>],
     [buffer |-> "args",      fields |-> <<pub2, boxB>>] >>
=============================================================================

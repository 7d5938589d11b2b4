--------------------------- MODULE MCRegisterPipe ---------------------------
(* TLC instances of RegisterPipe.                                           *)
EXTENDS RegisterPipe

CONSTANTS pub1, sub1, man1

\* A publisher, a subscriber of the same box, and a manager that lists.
MCAsks == [c \in {pub1, sub1, man1} |->
  CASE c = pub1 -> [code |-> 1, name |-> <<10>>, box |-> <<13>>]
    [] c = sub1 -> [code |-> 2, name |-> <<11>>, box |-> <<13>>]
    [] c = man1 -> [code |-> 7, name |-> <<12>>, box |-> <<>>]]
=============================================================================

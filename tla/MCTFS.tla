------------------------------- MODULE MCTFS -------------------------------
(* TLC instances of TFS.                                                    *)
EXTENDS TFS, TLC

CONSTANTS x, y

\* Bytes and names are interchangeable: no operation tells two of them apart.
MCSymmetry == Permutations(Names) \cup Permutations(Bytes)

\* One byte and a string as long as a block, each in both bytes.
MCBuffers == {<<x>>, <<y>>, <<x, y>>, <<y, x>>}

\* No flag and each flag alone.
MCModes == {{}} \cup {{m} : m \in Modes}
=============================================================================

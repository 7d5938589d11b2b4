----------------------------- MODULE MCPCQueue -----------------------------
(* TLC instances of PCQueue; the cfg files give the thread sets.            *)
EXTENDS PCQueue
=============================================================================

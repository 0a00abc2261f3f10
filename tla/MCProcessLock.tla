--------------------------- MODULE MCProcessLock ---------------------------
(* Processes of one generation, which share one path.                      *)
EXTENDS ProcessLock, TLC

CONSTANTS a, b, c, d

OnePath   == [p \in Proc |-> {1}]
Processes == Permutations(Proc)
=============================================================================

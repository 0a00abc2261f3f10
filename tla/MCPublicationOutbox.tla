--------------------------- MODULE MCPublicationOutbox ---------------------------
(* Two calls at a time and a few operations. *)
EXTENDS PublicationOutbox, TLC

CONSTANTS w1, w2
Calls == Permutations(Worker)
=============================================================================

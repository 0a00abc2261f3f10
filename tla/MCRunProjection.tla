---------------------------- MODULE MCRunProjection ----------------------------
(* RunProjection on a small run. *)
EXTENDS RunProjection
=============================================================================

---------------------------- MODULE MCCodexTurn ----------------------------
(* Instances of CodexTurn for TLC. *)
EXTENDS CodexTurn

CONSTANTS ann, bob
=============================================================================

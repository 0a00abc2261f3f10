-------------------------- MODULE MCCloudCommands --------------------------
(* One command of CloudCommands for TLC. *)
EXTENDS CloudCommands

CONSTANT p
=============================================================================

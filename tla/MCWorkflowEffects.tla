------------------------- MODULE MCWorkflowEffects -------------------------
(* Small instances of WorkflowEffects for TLC.                             *)
EXTENDS WorkflowEffects, TLC

CONSTANT p0

\* One run; w writes to the outside, and then q does.
OneRun     == {"r"}
Pair       == {"w", "q"}
First      == {"w"}
Second     == {"q"}
InOneRun   == [s \in Step |-> "r"]
InTurnDeps == "w" :> {} @@ "q" :> First
TwoThenOne == "w" :> 2 @@ "q" :> 1
OneTick    == [s \in Step |-> 1]
AtOnce     == [n \in 1..MaxAttempts |-> 0]
=============================================================================

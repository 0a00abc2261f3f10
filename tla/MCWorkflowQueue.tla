-------------------------- MODULE MCWorkflowQueue --------------------------
(* A small instance of WorkflowQueue for TLC.                              *)
EXTENDS WorkflowQueue, TLC

\* One run whose steps a and b may run side by side, while c waits for a.
OneRun       == {"r"}
Fork         == {"a", "b", "c"}
ForkRunOf    == [s \in Fork |-> "r"]
ForkDeps     == "a" :> {} @@ "b" :> {} @@ "c" :> {"a"}
OneTick      == [s \in Fork |-> 1]
ForkRetries  == "a" :> 2 @@ "b" :> 1 @@ "c" :> 1
OneLater     == [n \in 1..MaxAttempts |-> 1]
=============================================================================

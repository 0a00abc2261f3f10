-------------------------- MODULE MCWorkflowObserver --------------------------
(* Small instances of WorkflowObserver for TLC.                            *)
EXTENDS WorkflowObserver

\* A body that reads, one that writes without saying so and one that may
\* write; the digest of nothing is between theirs.
Bodies     == {"low", "bad", "high"}
Digests    == [c \in Bodies |-> CASE c = "low" -> 1 [] c = "bad" -> 2 [] c = "high" -> 4]
Used       == [c \in Bodies |-> IF c = "low" THEN {"read"} ELSE {"read", "write"}]
Declared   == [c \in Bodies |-> IF c = "high" THEN {"read", "write"} ELSE {"read"}]
Editor     == [c \in Bodies |-> {"editor"}]
TwoGrants  == {{"read", "write", "editor"}, {"read", "editor"}}
=============================================================================

------------------------- MODULE MCWorkflowDispatch -------------------------
(* Small instances of WorkflowDispatch for TLC.                            *)
EXTENDS WorkflowDispatch, TLC

CONSTANTS w, v1, v2, g1, g2

OneWorkflow == {w}
OneVersion  == {v1}
TwoVersions == {v1, v2}
OfW         == [v \in Version |-> w]
\* Every event is a manual run of w, or all but the second, a definition's.
AllManual   == [e \in Event |-> w]
OneControl  == [e \in Event |-> IF e = 2 THEN NoWorkflow ELSE w]
\* Two configurations: one allows all, the other refuses v1 and cannot read v2.
Allowing    == [v \in Version |-> "allowed"]
Refusing    == [v \in Version |-> IF v = v1 THEN "denied" ELSE "unreadable"]
OnlyAllowing == {Allowing}
BothConfigurations == {Allowing, Refusing}
Gateways    == Permutations(Gateway)
=============================================================================

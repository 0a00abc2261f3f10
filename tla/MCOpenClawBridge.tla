-------------------------- MODULE MCOpenClawBridge --------------------------
EXTENDS OpenClawBridge
CONSTANTS t1, t2, e1, e2, yes, no
MCSays == [r \in Run |-> IF r \in {t1, e1} THEN yes ELSE no]
=============================================================================

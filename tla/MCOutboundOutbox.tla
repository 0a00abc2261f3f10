---------------------------- MODULE MCOutboundOutbox ----------------------------
(* Small instances of OutboundOutbox for TLC.                                *)
EXTENDS OutboundOutbox

Distinct == [e \in Output |-> e]
\* All outputs say the same, the last text of a turn of the gateway among them.
Same == [e \in Output |-> 1]
\* The third output repeats the second: "Done." and "Done."
Repeated == [e \in Output |-> IF e = 3 THEN 2 ELSE e]
=============================================================================

CONSTANTS
  t1 = t1
  t2 = t2
  e1 = e1
  e2 = e2
  yes = yes
  no = no
  Mine = {t1, t2}
  Ext = {e1}
  In = {"hi"}
  Text = {yes, no}
  MaxFaults = 1
  MaxRows = 3
  Says <- MCSays
SPECIFICATION BridgeSpec
INVARIANT NothingIsSwallowed
PROPERTY OwnRunsAreNotMirrored
CHECK_DEADLOCK FALSE

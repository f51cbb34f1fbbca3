\* A callback that makes a call, on the one client it is using.
SPECIFICATION Spec
CONSTANTS
  k1 = k1
  k2 = k2
  None = None
  Calls = {k1, k2}
  Clients = {c1}
  Pooled = FALSE
  Inner <- OneNests
  MaxRetries = 0
  MaxFaults = 1
INVARIANT OuterNotCommitted
CHECK_DEADLOCK FALSE

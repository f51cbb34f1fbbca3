\* Three transactions, one of which makes a fourth call, over two clients;
\* two failures of any kind.
SPECIFICATION FairSpec
CONSTANTS
  k1 = k1
  k2 = k2
  None = None
  Calls = {k1, k2, k3, k4}
  Clients = {c1, c2}
  Pooled = TRUE
  Inner <- OneNests
  MaxRetries = 1
  MaxFaults = 2
INVARIANTS TypeOK SlotsAccounted PoolIsClean EffectsMatchResult OuterNotCommitted
PROPERTY CallsSettle
\* Every call may have settled.
CHECK_DEADLOCK FALSE

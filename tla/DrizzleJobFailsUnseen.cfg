\* One failure before the wait ends, then a re-run.
SPECIFICATION Spec
CONSTANTS
  Runs = {r1, r2}
  Script <- IndexIfNotExistsScript
  MaxRetries = 1
  MaxFaults = 1
  Concurrent = FALSE
INVARIANT JobAwaited
CHECK_DEADLOCK FALSE

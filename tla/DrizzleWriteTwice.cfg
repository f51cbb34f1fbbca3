\* One crash between a statement and its row, then a re-run.
SPECIFICATION Spec
CONSTANTS
  Runs = {r1, r2}
  Script <- RepeatableScript
  MaxRetries = 1
  MaxFaults = 1
  Concurrent = FALSE
INVARIANT RerunSurfaced
CHECK_DEADLOCK FALSE

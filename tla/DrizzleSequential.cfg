\* Deploys one after the other, up to a chunk that is refused, one more than
\* there are failures.
SPECIFICATION RetriedSpec
CONSTANTS
  Runs = {r1, r2, r3}
  Script <- RefusedScript
  MaxRetries = 1
  MaxFaults = 2
  Concurrent = FALSE
INVARIANT CountsAddUp
PROPERTIES RecordedNeverRerun RunsEnd EventuallyMigrated
\* Every run may have ended.
CHECK_DEADLOCK FALSE

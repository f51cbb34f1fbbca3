\* Two deployments of three migrations, three calls of Migrate, two faults.
SPECIFICATION Spec
CONSTANTS
  Deployments = {web, job}
  Migrations = {1, 2, 3}
  Up <- Three
  MaxRetries = 1
  MaxRuns = 3
  MaxFaults = 2
INVARIANTS TypeOK HistoryIsSchema RecordedIsThere CanBeRerun
\* The bound on calls stops everything.
CHECK_DEADLOCK FALSE

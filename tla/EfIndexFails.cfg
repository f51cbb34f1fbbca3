\* One deployment, two calls of Migrate, two faults: a job that fails and a
\* crash before the row.
SPECIFICATION Spec
CONSTANTS
  Deployments = {web}
  Migrations = {1, 2, 3}
  Up <- Three
  MaxRetries = 1
  MaxRuns = 2
  MaxFaults = 2
INVARIANT SkippedIsApplied
CHECK_DEADLOCK FALSE

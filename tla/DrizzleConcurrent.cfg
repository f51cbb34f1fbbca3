\* Three deploys that may race; two failures of any kind.
SPECIFICATION Spec
CONSTANTS
  Runs = {r1, r2, r3}
  Script <- MixedScript
  MaxRetries = 1
  MaxFaults = 2
  Concurrent = TRUE
SYMMETRY Symmetry
INVARIANTS TypeOK RecordedIsPrefix RecordedIsApplied DependenciesReady SuccessIsComplete
PROPERTY ImplementsLog
\* Every run may have ended.
CHECK_DEADLOCK FALSE

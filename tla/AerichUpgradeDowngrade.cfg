\* Three migrations with one digit; up to four commands, two interruptions.
SPECIFICATION Spec
CONSTANTS
  Versions = {1, 2, 3}
  UpgradeSql <- Incremental
  DowngradeSql <- Undone
  MaxCommands = 4
  MaxFaults = 2
INVARIANTS TypeOK RecordedHasFile RecordsArePrefix RecordsMatchSchema
\* The bound on commands stops everything.
CHECK_DEADLOCK FALSE

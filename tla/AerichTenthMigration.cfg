\* The tenth migration: its name sorts before that of the ninth.
SPECIFICATION Spec
CONSTANTS
  Versions = {9, 10}
  UpgradeSql <- Incremental
  DowngradeSql <- Undone
  MaxCommands = 2
  MaxFaults = 0
INVARIANTS RecordsArePrefix
CHECK_DEADLOCK FALSE

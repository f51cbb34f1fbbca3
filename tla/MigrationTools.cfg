\* Two invocations of either tool over two migration files, the first of which
\* may be there before; one crash, failed write or misbehaviour of the linter.
SPECIFICATION Spec
CONSTANTS
  MaxFiles = 2
  MaxInvocations = 2
  MaxFaults = 1
  Hosts <- TestHosts
  Contents <- DrizzleContents
  Scripts <- PrismaScripts
INVARIANTS TypeOK NothingLost AllOrNothing SuccessMeansFixed ExitIsWorst
  OneDdlPerTransaction SettingsKeepTheirStatements ValidSchemaMigrates
PROPERTIES WarnedBeforeWritten RerunChangesNothing CommandEnds
\* The bound on invocations stops everything.
CHECK_DEADLOCK FALSE

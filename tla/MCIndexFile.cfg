SPECIFICATION FileSpec
CONSTANTS
  Paths = {p1, p2, p3}
  TxCap <- MCTxCap
  MaxTime = 3
  MaxFaults = 1
  server = server
  other = other
  Processes = {server, other}
  Server = server
  SchemaVersions <- MCSchemaVersions
INVARIANTS RunsOnOwnSchema
PROPERTIES LiveRootKept SyncedRows StaleRemovedUnlessLocked ServerStarts

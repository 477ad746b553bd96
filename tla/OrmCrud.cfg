SPECIFICATION CrudSpec
CONSTANTS
  Ormers = {c1, c2}
  Free = Free
  Tables <- MCTables
  Pks <- MCPks
  Cols <- MCCols
  RefTo <- MCRefTo
  Nullable = {"parent", "holder"}
  UniqueCols = {"holder"}
  Initial = 1
  OnDeletes <- MCOnDeletes
  Databases <- MCDatabases
  PkKind = "unsigned"
  WhereCols = {}
  Batches <- MCBatches
  MaxOps = 2
  MaxFaults = 1
INVARIANTS
  DatabaseSound
PROPERTIES
  StatementsExact
  OperationEnds
CHECK_DEADLOCK FALSE

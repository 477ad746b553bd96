SPECIFICATION OrmSpec
CONSTANTS
  MaxConds = 4
  BaseLen = 3
  DefaultRows = 2
  MaxRows = 3
  NFilters = 2
  MaxCalls = 4
  Programs = {pg1, pg2}
  NMigrations = 2
  NStatements = 2
  MaxCommands = 3
  MaxTroubles = 2
SYMMETRY OrmSymmetry
INVARIANTS
  QuerySound
  ReadSound
  FieldsSound
  LinksSound
  TxSound
  MigrationSound
CHECK_DEADLOCK FALSE

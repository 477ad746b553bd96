SPECIFICATION FairSpec
CONSTANTS
  Clients = {c1, c2}
  Queries = {q1, q2, q3}
  Stmts = {d1, d2, d3}
  Limit = 2
  NoStmt = NoStmt
INVARIANTS
  NoUseAfterClose
  NoLeakedStmt
  CacheWellFormed
PROPERTIES
  NoAcquireAfterEviction
  StmtProgress

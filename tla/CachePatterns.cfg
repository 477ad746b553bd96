SPECIFICATION PatternFairSpec
CONSTANTS
  Vals = {a, b}
  NoItem = NoItem
  Readers = {r1, r2}
  Writers = {w1, w2}
  ReadBy = {"through", "flight", "bloom"}
  WriteBy = {"through", "delete", "double"}
  expiration = 0
  Offsets = {1}
  MaxTimers = 1
INVARIANTS
  SingleLoad
  CachedWasStored
  DeleteHeals
PROPERTIES
  CacheProgress
CHECK_DEADLOCK FALSE

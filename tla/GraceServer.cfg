SPECIFICATION FairSpec
CONSTANTS
  Servers = {a, b}
  MaxGen = 2
  MaxSignals = 2
INVARIANTS
  HandoverSound
PROPERTIES
  ParentRetires
CHECK_DEADLOCK FALSE

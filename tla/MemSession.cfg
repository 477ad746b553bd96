SPECIFICATION FairSpec
CONSTANTS
  Clients = {c1, c2}
  Sids = {s1, s2}
  Elems = {e1, e2, e3}
  Ops = {"read", "destroy", "regenerate"}
  Lifetime = 1
  MaxTime = 2
  NoElem = NoElem
INVARIANTS
  ListSound
PROPERTIES
  ExpiredIsCollected
CHECK_DEADLOCK FALSE

SPECIFICATION Spec
CONSTANTS
  MaxRequests = 2
  MaxFilters = 2
  MaxRoutes = 2
  LongPattern = 3
  ShortPattern = 2
  MaxPath = 3
  MaxSteps = 3
  Requests = {r1, r2}
  MaxVersion = 3
  MaxTime = 2
  CacheFiles = 1
  Ids = {i1, i2}
  Verifiers = {v1, v2}
  MaxChallenges = 3
  Clients = {c1, c2}
  Keys = {k1}
  Buckets = {b1, b2}
  NoBucket = NoBucket
  Capacity = 2
  Rate = 2
  RateTime = 7
  YearLimit = 2
  MaxLines = 4
  MaxSets = 1
  TreeCalls = 2
  Writers = {w1, w2}
  MaxMsgs = 3
  LastDay = 3
  MaxFiles = 2
  MaxDays = 1
  MaxFaults = 1
  NKeys = 3
  Page = 2
  Half = 4
  Nil = Nil
  CacheCalls = 3
  Reqs = {q1}
  Retries = 1
  DefaultCap = 1
  MaxAdds = 2
  MaxSends = 2
SYMMETRY Symmetry
INVARIANTS
  PipelineSound
  RoutingSound
  RegisterSound
  StaticSound
  OneTry
  LimitsHold
  NextSound
  ConfigsSound
  FileLogSound
  AdaptersSound
  ClientSound
CHECK_DEADLOCK FALSE

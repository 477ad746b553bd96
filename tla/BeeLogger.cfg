SPECIFICATION FairSpec
CONSTANTS
  Writers = {w1, w2}
  Ctls = {c1}
  Ops = {"flush", "reset", "close"}
  MaxMsgs = 2
  MaxCalls = 2
  ChanLen = 1
INVARIANTS
  LoggerSound
PROPERTIES
  LoggerProgress
CHECK_DEADLOCK FALSE

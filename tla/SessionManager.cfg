SPECIFICATION Spec
CONSTANTS
  Browsers = {b1, b2}
  Requests = {r1, r2}
  Setups <- MCSetups
  MaxSids = 3
  MaxRequests = 3
  MaxCalls = 2
SYMMETRY Symmetry
INVARIANTS
  SessionsSound
PROPERTIES
  ImplementsApi
CHECK_DEADLOCK FALSE

\* Two requests, the capacity of the default filters as in the code.
SPECIFICATION Spec
CONSTANTS
  Reqs = {q1, q2}
  Retries = 0
  DefaultCap = 4
  MaxAdds = 2
  MaxSends = 1
INVARIANT
  FiltersOwn
CHECK_DEADLOCK FALSE

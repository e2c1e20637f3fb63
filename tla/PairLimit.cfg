SPECIFICATION Spec
CONSTANTS
  Hosts = {a, b}
  Requests = {r1, r2, r3, r4}
  Minute = 2
  Memory = 3
  Limit = 2
  MaxTime = 5
SYMMETRY Symmetry
INVARIANTS ReplayExact RateExact

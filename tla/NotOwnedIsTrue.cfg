SPECIFICATION Spec
CONSTANTS
  Procs = {p1, p2}
  Pids = {i1}
  None = none
CHECK_DEADLOCK FALSE
INVARIANT NotOwnedIsTrue

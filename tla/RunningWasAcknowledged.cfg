SPECIFICATION Spec
CONSTANTS
  Sessions = {s1}
  Commands = {c0, c1}
  InitialCommand = c0
  info = info
  cancel = cancel
  Payloads = {info, cancel}
  InitialPayload = info
  NoPayload = none
  Control = {cancel}
  Requested <- AllRequested
  Handlers = {h1, h2}
  RegularLimit = 2
  ControlLimit = 1
  ResultCap = 2
  MaxRestarts = 0
CHECK_DEADLOCK FALSE
INVARIANT RunningWasAcknowledged

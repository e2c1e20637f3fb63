SPECIFICATION ApprovalSpec
CONSTANTS
  Sessions = {s1}
  Commands = {c0}
  InitialCommand = c0
  info = info
  Payloads = {info}
  InitialPayload = info
  NoPayload = none
  Control = {}
  Requested <- AllRequested
  Handlers = {}
  Callbacks = {k1}
  RegularLimit = 1
  ControlLimit = 1
  ResultCap = 0
  MaxRestarts = 0
  MaxPrompts = 1
CHECK_DEADLOCK FALSE
PROPERTY DuplicateIsNoOp

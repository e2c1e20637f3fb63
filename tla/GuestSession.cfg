SPECIFICATION GuestSpec
CONSTANTS
  Sessions = {s1}
  Commands = {c0, c1}
  InitialCommand = c0
  info = info
  disconnect = disconnect
  Payloads = {info, disconnect}
  InitialPayload = info
  NoPayload = none
  Control = {disconnect}
  Disconnect = disconnect
  NoCommand = none
  Requested <- AllRequested
  Handlers = {h1, h2}
  RegularLimit = 1
  ControlLimit = 1
  ResultCap = 0
  MaxRestarts = 1
CHECK_DEADLOCK FALSE
SYMMETRY Symmetry
INVARIANTS GuestTypeOK RunsAtBroker RevokesOnPurpose
PROPERTIES AtMostOnce

SPECIFICATION Spec
CONSTANTS
  Peripherals = {p1, p2}
  ConnectCalls = {c1, c2}
  CancelCalls = {x1}
  DisconnectCap = 16
  None = None
INVARIANT NeverUnreachable
CHECK_DEADLOCK FALSE

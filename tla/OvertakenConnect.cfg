SPECIFICATION Spec
CONSTANTS
  Peripherals = {p1}
  ConnectCalls = {c1, c2}
  CancelCalls = {}
  DisconnectCap = 16
  None = None
INVARIANT NotUndoneByOvertaken
CHECK_DEADLOCK FALSE

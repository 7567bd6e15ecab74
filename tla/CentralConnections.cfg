SPECIFICATION FairSpec
CONSTANTS
  Peripherals = {p1, p2}
  ConnectCalls = {c1, c2}
  CancelCalls = {x1, x2}
  DisconnectCap = 2
  None = None
INVARIANTS TypeOK ConnectBacked CancelBacked CanceledIsOvertaken AttemptKeepsDelegate
PROPERTIES OneShotSpec NoAttemptLeftBehind ConnectionTold CancelSettles
CHECK_DEADLOCK FALSE

SPECIFICATION FairSpec
CONSTANTS
  Calls = {c1, c2, c3}
  Attributes = {a1}
  Ops = {"discover_characteristics", "write_with_response", "write_without_response", "open_l2cap_channel"}
  NoCall = NoCall
  Canceled = Canceled
INVARIANTS TypeOK NoOrphanWaiter WaiterBacked ForeignAnswerHasCause
PROPERTIES OneShotSpec AnsweredOrLost
CHECK_DEADLOCK FALSE

SPECIFICATION FairSpec
CONSTANTS
  Calls = {c1}
  Attributes = {a1}
  Ops = {"write_without_response"}
  NoCall = NoCall
  Canceled = Canceled
PROPERTY WriteReturns
CHECK_DEADLOCK FALSE

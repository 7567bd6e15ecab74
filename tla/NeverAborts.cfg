SPECIFICATION Spec
CONSTANTS
  Receivers = {r1, r2}
  Characteristics = {ch1}
  OwnChannels = {}
  ValueCap = 2
  NoChannel = NoChannel
  MaxEvents = 3
INVARIANT NeverAborts
CHECK_DEADLOCK FALSE

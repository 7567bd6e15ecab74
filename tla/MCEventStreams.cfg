SPECIFICATION Spec
CONSTANTS
  broadcast = broadcast
  watch = watch
  NoKey = NoKey
  Receivers = {r1, r2}
  Keys <- MCKeys
  Cap <- MCCap
  EventNumbers = {1, 2, 3, 4, 5}
INVARIANTS TypeOK NewestRetained LossReported
CHECK_DEADLOCK FALSE

SPECIFICATION FairSpec
CONSTANTS
  Streams = {s1, s2}
  Peripherals = {p1, p2}
  Bridges = {b1, b2}
  None = None
  MaxDue = 2
  MaxUnread = 2
INVARIANTS TypeOK OneDelegate OpenIsFed ScanAttended NoLostPowerOn
PROPERTIES ScansWhenPowered PowerOnReaches DroppedScanStops
CHECK_DEADLOCK FALSE

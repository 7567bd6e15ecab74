SPECIFICATION Spec
CONSTANTS
  Streams = {s1}
  Peripherals = {p1}
  Bridges = {b1, b2}
  None = None
  MaxDue = 2
  MaxUnread = 1
INVARIANT EventNeverAborts
CHECK_DEADLOCK FALSE

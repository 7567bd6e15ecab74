SPECIFICATION FairSpec
CONSTANTS
  q1 = q1
  q2 = q2
  Queues = {q1, q2}
  Concurrent = {q1}
  Threads = {a1}
  Tasks = {t1, t2}
  NoQueue = NoQueue
  Nesting <- Ordered
INVARIANTS TypeOK AccessExclusive WakeKept
PROPERTIES LocalDroppedAlone DroppedNotPolled DroppedReclaimed LockReturns
CHECK_DEADLOCK FALSE

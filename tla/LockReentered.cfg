SPECIFICATION FairSpec
CONSTANTS
  q1 = q1
  q2 = q2
  Queues = {q1}
  Concurrent = {}
  Threads = {a1}
  Tasks = {t1}
  NoQueue = NoQueue
  Nesting <- Reentrant
PROPERTIES LockReturns
CHECK_DEADLOCK FALSE

CONSTANTS
  t1 = t1
  t2 = t2
  t3 = t3
  t4 = t4
  t5 = t5
  None = None
  Thread <- Two
  N = 6
  MAX_QUEUE = 4
SPECIFICATION Spec
INVARIANT ReadsInQueue
CHECK_DEADLOCK FALSE

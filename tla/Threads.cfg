CONSTANTS
  t1 = t1
  t2 = t2
  t3 = t3
  t4 = t4
  t5 = t5
  None = None
  Thread <- Five
  N = 12
  MAX_QUEUE = 5
SPECIFICATION FairSpec
INVARIANT ExactSoFar
INVARIANT IInv
PROPERTY Terminates
PROPERTY ImplementsFactoring
CHECK_DEADLOCK FALSE

CONSTANTS
  c1 = c1
  c2 = c2
  c3 = c3
  p1 = p1
  p2 = p2
  None = None
  Client <- Two
  Proc <- Pair
  Servers <- SharedBlocking
  Iterations <- OneOrTwo
  MayFail = {}
  MayPart = {}
  MayStop = {}
SPECIFICATION FairSpec
PROPERTY EveryoneServed
CHECK_DEADLOCK FALSE

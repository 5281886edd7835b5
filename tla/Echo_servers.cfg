CONSTANTS
  c1 = c1
  c2 = c2
  c3 = c3
  p1 = p1
  p2 = p2
  None = None
  Client <- Three
  Proc <- Pair
  Servers <- Sound
  Iterations <- Once
  MayFail <- First
  MayPart <- Second
  MayStop <- FirstProc
SPECIFICATION FairSpec
INVARIANT IInv
INVARIANT Attended
INVARIANT AnsweredOnce
PROPERTY ServesEcho
PROPERTY QueuedIsAccepted
PROPERTY EveryoneServed
PROPERTY EveryoneEnds
PROPERTY ThreadsAreIndependent
CHECK_DEADLOCK FALSE

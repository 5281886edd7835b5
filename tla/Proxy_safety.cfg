CONSTANTS
  c1 = c1
  c2 = c2
  None = None
  Conn <- Two
  NFd = 4
  BUFLEN = 2
  RcvBuf = 1
  Watched = {}
SPECIFICATION SpecH
INVARIANT Wiring
INVARIANT Accounted
INVARIANT IInv
PROPERTY OneAtATime
PROPERTY SettledOwnEnd
PROPERTY ServesSessions
CHECK_DEADLOCK FALSE

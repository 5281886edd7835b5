CONSTANTS
  c1 = c1
  c2 = c2
  None = None
  Conn <- Two
  NFd = 4
  BUFLEN = 4
  RcvBuf = 4
  Watched = {}
  Pairs = {"simple"}
  M = 2
  iterations <- TwoAndOne
  Killable = {}
SPECIFICATION EchoSpec
PROPERTY OwnEnd
CHECK_DEADLOCK FALSE

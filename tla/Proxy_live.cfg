CONSTANTS
  c1 = c1
  c2 = c2
  c3 = c3
  None = None
  Conn <- Three
  NFd = 4
  BUFLEN = 1
  RcvBuf = 1
  Watched <- One
SPECIFICATION FairSpec
ACTION_CONSTRAINT OnlySome
PROPERTY NoneIgnored
PROPERTY QueuedIsAccepted
CHECK_DEADLOCK FALSE

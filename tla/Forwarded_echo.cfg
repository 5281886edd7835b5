CONSTANTS
  c1 = c1
  c2 = c2
  None = None
  Conn <- Two
  NFd = 2
  BUFLEN = 4
  RcvBuf = 4
  Watched <- One
  Pairs = {"load", "simple"}
  M = 2
  iterations <- TwoAndOne
  Killable <- One
SPECIFICATION EchoFairSpec
INVARIANT EchoInv
INVARIANT RoundTrip
INVARIANT WholeAnswers
INVARIANT ServerSurvives
PROPERTY ForwarderSurvives
PROPERTY ServesEcho
PROPERTY LoadClientsEnd
PROPERTY ThreadsEnd
PROPERTY SimpleClientsEnd
CHECK_DEADLOCK FALSE

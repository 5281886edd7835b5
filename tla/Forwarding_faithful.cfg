CONSTANTS
  BUFLEN = 2
  SndBuf = 3
  Stream = 3
SPECIFICATION Spec
INVARIANT Faithful
CHECK_DEADLOCK FALSE

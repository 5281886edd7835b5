CONSTANTS
  BUFLEN = 2
  SndBuf = 2
  Stream = 5
SPECIFICATION Spec
INVARIANT CleanIsFaithful
INVARIANT NothingInvented
CHECK_DEADLOCK FALSE

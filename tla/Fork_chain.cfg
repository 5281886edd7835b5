CONSTANTS
  a = a
  b = b
  c = c
  d = d
  e = e
  Bad = Bad
  Port <- Ports
  Files <- Tables
  Taken <- OneTaken
  Requested <- UpToThree
  PROCESSES = 5
  JunkI <- Garbage
SPECIFICATION Spec
INVARIANT DistinctNumbers
INVARIANT AsManyAsAsked
INVARIANT PortsCovered
INVARIANT IInv
CHECK_DEADLOCK FALSE

CONSTANTS
  k1 = k1
  k2 = k2
  k3 = k3
  Child <- Three
  N = 6
  PCap = 3
  RCap = 8
  InitI <- Garbage
SPECIFICATION FairSpec
INVARIANT IInv
INVARIANT ZerosComeLast
INVARIANT PrintsDivisors
PROPERTY Terminates
PROPERTY ImplementsFactoring
CHECK_DEADLOCK FALSE

SPECIFICATION Spec
CONSTANTS
  p1 = p1  p2 = p2  p3 = p3
  b1 = b1  b2 = b2  b3 = b3  b4 = b4
  k1 = k1  k2 = k2  k3 = k3  k4 = k4 k5 = k5
  Proc <- MCProc2
  Buf <- MCBuf3
  Block <- MCBlock4
  ReadOnly <- MCReadOnly
  Val = {0, 1}
  InitVal = 0
  Sizes = {4, 6}
  Wraps = 2
  MaxPinned = 1
VIEW Quotient
SYMMETRY Symmetry
INVARIANTS
  NeverPanics
  NoLostWakeup
  BuffersAreExclusive
  DmaOnlyWhileWaiting
PROPERTY ImplementsBlockStore

SPECIFICATION Spec
CONSTANTS
  NINODES = 3
  Block = {7, 8, 9, 10, 11}
  BSIZE = 3
  NDIRECT = 1
  Proc = {p1, p2}
  P1 = p1
  Workloads <- MCWorkloads
  Image <- MCImage
INVARIANT CommittedImageIsConsistent
 
INVARIANT CopiesAreCurrent
INVARIANT FsNeverPanics
INVARIANT NoCircularWait
VIEW Quotient

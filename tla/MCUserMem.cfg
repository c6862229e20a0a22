CONSTANTS
  Proc = {p1, p2}
  NPAGE = 5
  NFRAME = 7
  IMAGE = 3
  SbrkBy <- Heap
  Floor = 3
  Top = 10
  RoPages = {}
  Execs = 1
  MaxRegions = 0
  MaxMapRo = 0
  MaxShmForks = 0
SPECIFICATION Spec
INVARIANTS NoPanic NoLeak
PROPERTIES ImplementsFlatMemory
VIEW UpToFrames

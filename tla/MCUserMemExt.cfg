CONSTANTS
  Proc = {p1, p2}
  NPAGE = 6
  NFRAME = 12
  IMAGE = 3
  SbrkBy = {}
  Floor = 3
  Top = 10
  RoPages = {5}
  Execs = 0
  MaxRegions = 1
  MaxMapRo = 1
  MaxShmForks = 1
SPECIFICATION Spec
INVARIANTS NoPanic FramesAreOwned 
VIEW UpToContents

CONSTANTS
  Proc = {p1}
  NPAGE = 6
  NFRAME = 6
  IMAGE = 3
  SbrkBy <- Whole
  Floor = 3
  Top = 8
  RoPages = {4, 5}
  Execs = 0
  MaxRegions = 0
  MaxMapRo = 2
  MaxShmForks = 0
SPECIFICATION Spec
INVARIANTS NoPanic
VIEW UpToContents

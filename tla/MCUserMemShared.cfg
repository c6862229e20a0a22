CONSTANTS
  Proc = {p1, p2}
  NPAGE = 6
  NFRAME = 14
  IMAGE = 3
  SbrkBy <- Whole
  Floor = 3
  Top = 12
  RoPages = {}
  Execs = 0
  MaxRegions = 0
  MaxMapRo = 0
  MaxShmForks = 2
SPECIFICATION Spec
INVARIANTS SharedPageLives
VIEW UpToContents

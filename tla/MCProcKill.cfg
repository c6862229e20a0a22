CONSTANTS
  NPROC = 3
  NCPU = 2
  MaxPid = 3
  KillPids = {0}
SPECIFICATION Spec
INVARIANTS KilledByPid

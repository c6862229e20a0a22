CONSTANTS
  NPROC = 4
  NCPU = 2
  MaxPid = 4
  KillPids = {2, 3}
SPECIFICATION Spec
INVARIANTS StackInUse LiveParent NoMissedExit KilledByPid

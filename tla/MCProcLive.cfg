CONSTANTS
  NPROC = 3
  NCPU = 1
  MaxPid = 3
  KillPids = {2}
SPECIFICATION FairSpec
PROPERTIES  OrphanIsReaped KilledExits

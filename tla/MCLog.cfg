\* Two processes share a log with room for two reservations of three blocks, and crash twice.
CONSTANTS
  Proc = {p1, p2}
  Block = {b1, b2}
  Val = {0, 1}
  InitVal = 0
  LOGBLOCKS = 6
  MAXOPBLOCKS = 3
  OpBlocks = 2
  MaxCrashes = 2
SPECIFICATION FairSpec
INVARIANTS
  LogNeverPanics
  SleeperHasWaker
  QuiescentIsDurable
  PinsMatchLog
PROPERTIES
  WriteAhead
  ImplementsAtomicDisk
  SleeperIsWoken
  CommitAndRecoveryEnd

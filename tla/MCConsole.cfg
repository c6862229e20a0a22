SPECIFICATION Spec
CONSTANTS
  C0 = C0
  C1 = C1
  P = P
  Q = Q
  Cpu = {C0, C1}
  Proc = {P, Q}
  Lock <- MCLock
  Cpu0 = C0
  INPUT_BUF_SIZE = 3
  BATCH = 2
  UINT = 6
  FIFO = 3
  Scenario <- MCScenario
INVARIANT LocksNeverPanic
INVARIANT OutputIsNotLost
PROPERTY PauseLasts
PROPERTY ImplementsTerminal
PROPERTY CallsFinish
CHECK_DEADLOCK FALSE

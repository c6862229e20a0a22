SPECIFICATION Spec
CONSTANTS
  Proc = {a, b, c}
  Init0 = a
  PipePage = {pg}
  PIPESIZE = 2
  UINT = 4
  Byte = 2
  NFILE = 5
  NOFILE = 4
  MaxKills = 1
  Long = 5
INVARIANT ReferencesAreExact
 
PROPERTY ImplementsByteStream
 
CHECK_DEADLOCK FALSE

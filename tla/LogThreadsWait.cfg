CONSTANTS
  MaxWriters = 1
  MaxRecords = 1
  MaxOps = 0
  BufferSize = 2
SPECIFICATION Spec
PROPERTY TerminateReturns
CHECK_DEADLOCK FALSE

CONSTANTS
  MaxWriters = 2
  MaxRecords = 2
  MaxOps = 2
  BufferSize = 2
SPECIFICATION Spec
INVARIANTS InOrder FinishOnce FailureIsTold DanglingOnlyAfterFailure AllWritten
PROPERTY WaitEnds
CHECK_DEADLOCK FALSE

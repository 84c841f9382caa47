SPECIFICATION Spec
CONSTANTS
  NumQueues = 3
  MaxPuts = 7
INVARIANTS
  NoLostWakeUp
  ReadyIsExact
  KilledIsAwake
PROPERTIES
  ImplementsFifo
  Delivered

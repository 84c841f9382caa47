SPECIFICATION Spec
CONSTANTS
  Nodes = {1, 2}
  Configs <- MutualOnly
  MaxConns = 1
PROPERTY SyncEnds
CHECK_DEADLOCK FALSE

SPECIFICATION Spec
CONSTANTS
  Nodes = {1, 2, 3}
  Configs <- Passing
  MaxConns = 3
INVARIANTS RolesAgree HasState ErrorOnlyIfUpset
PROPERTIES Synchronizes Restores NoHalfOpen
CHECK_DEADLOCK FALSE

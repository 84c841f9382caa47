SPECIFICATION Spec
INVARIANTS
  CloseJustified
  BothFinsClose
CHECK_DEADLOCK FALSE

SPECIFICATION Spec
CONSTANTS
  Message = {m1, m2, m3}
  NoTurn = NoTurn
INVARIANTS OneQueuedTurn
CHECK_DEADLOCK FALSE

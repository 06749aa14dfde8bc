SPECIFICATION Spec
CONSTANTS
  Message = {m1, m2}
  NoTurn = NoTurn
PROPERTIES SteerFindsRunningTurn
CHECK_DEADLOCK FALSE

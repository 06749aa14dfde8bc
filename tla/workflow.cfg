CONSTANTS
  w = w  v = v  g = g  h = h  f = f  b1 = b1  b2 = b2  e1 = e1  e2 = e2  e3 = e3  None = None
  Script <- ScriptGW
  BranchOf <- MCNoBranch
  GateFields <- MCFields
  Exec = {e1, e2, e3}
  Agents = {w}
  Runs = {v}
  Gates = {g, h}
  Forks = {}
  Branch = {}
  Caught = {}
  MaxTokens = 0
  MaxCrashes = 1
  MayKill = FALSE
  EagerContinue = FALSE
SPECIFICATION FairSpec
CHECK_DEADLOCK FALSE
INVARIANTS GateAnsweredOnce RecordedOnce SingleScript OpenGateAnswerable
PROPERTIES CallsReturn

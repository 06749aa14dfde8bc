CONSTANTS
  w = w  v = v  g = g  h = h  f = f  b1 = b1  b2 = b2  e1 = e1  e2 = e2  e3 = e3  None = None
  Script <- ScriptWVF
  BranchOf <- MCBranchOf
  GateFields <- MCFields
  Exec = {e1, e2}
  Agents = {w}
  Runs = {v}
  Gates = {g, h}
  Forks = {f}
  Branch = {b1, b2}
  Caught = {w}
  MaxTokens = 1
  MaxCrashes = 0
  MayKill = TRUE
  EagerContinue = FALSE
SPECIFICATION Spec
CHECK_DEADLOCK FALSE
INVARIANTS StartedInOrder KillStopsSteps WithinBudget
SYMMETRY Alike

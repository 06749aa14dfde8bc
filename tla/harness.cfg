CONSTANTS
  None = None
  Id = {i1, i2, i3}
  Room = {r1}
  Client = {c1, c2}
  MaxDepth = 4
  Minted = {}
  Orders = {"before", "after", "successor"}
  MaxPosted = 1
  MayLeave = TRUE
  MayRefuse = TRUE
  MayReenter = TRUE
  MaxSwitches = 2
  MaxRestarts = 1
SPECIFICATION Spec
SYMMETRY Alike
CHECK_DEADLOCK FALSE
INVARIANTS AliasesAcyclic AttachedWhereItIs NoTailLeftBehind RotationOnce InChainOrder RetiredOnce

CONSTANTS
  None = None
  Id = {i1, i2}
  Room = {r1}
  Client = {c1}
  MaxDepth = 4
  Minted = {}
  Orders = {"before"}
  MaxPosted = 0
  MayLeave = FALSE
  MayRefuse = FALSE
  MayReenter = FALSE
  MaxSwitches = 2
  MaxRestarts = 0
SPECIFICATION Spec
CHECK_DEADLOCK FALSE
INVARIANTS TailFollowsRoom

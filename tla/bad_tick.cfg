SPECIFICATION Spec
CONSTANTS
  n1 = n1  s1 = s1  s2 = s2  p1 = p1  v1 = v1  p2 = p2
  c1 = c1  c2 = c2
  Task = {p1, p2}
  Node = {n1}
  Message = {}
  MaxAttempts <- Once
  Interactive = {}
  Evaluable = {}
  Affinity <- Unpinned
  Here = n1
  Slot = {s1, s2}
  Verifier <- NoPairs
  Client = {c1, c2}
  RowFor <- TwoTicks
  Owner = {c1, c2}
  Rereads = {}
  Tick = {c1, c2}
  StoreFails = FALSE
  MaxFaults = 1
INVARIANTS TicksApart
CHECK_DEADLOCK FALSE

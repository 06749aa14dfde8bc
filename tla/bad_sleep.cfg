SPECIFICATION Spec
CONSTANTS
  n1 = n1  s1 = s1  s2 = s2  p1 = p1  v1 = v1  p2 = p2
  c1 = c1  c2 = c2
  Task = {p1, v1}
  Node = {n1}
  Message = {}
  MaxAttempts <- Once
  Interactive = {}
  Evaluable = {p1}
  Affinity <- Unpinned
  Here = n1
  Slot = {s1, s2}
  Verifier <- OnePair
  Client = {c1, c2}
  RowFor <- OnTheRow
  Owner = {c1}
  Rereads = {c1}
  Tick = {}
  StoreFails = FALSE
  MaxFaults = 1
INVARIANTS SleepersReachable
CHECK_DEADLOCK FALSE

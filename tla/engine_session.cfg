SPECIFICATION FairSpec
CONSTANTS
  n1 = n1  n2 = n2  p1 = p1  p2 = p2  p3 = p3  w1 = w1  w2 = w2  w3 = w3
  t1 = t1  t2 = t2  m1 = m1  m2 = m2
  Task <- OneTask
  Node <- TwoNodes
  Message = {m1, m2}
  MaxAttempts <- OnceOne
  Interactive = {t1}
  Evaluable = {}
  Affinity <- PinnedOne
  Proc = {p1, p3}
  ProcNode <- MeshOfTwo
  Worker <- ThreeWorkers
  WorkerProc <- SharedMesh
  Registered <- OnlyFirst
  MaxRetries = 1
  HeartbeatStalls = TRUE
  LostReplies = FALSE
  MaxOutages = 0
  MaxFaults = 0
INVARIANTS MessageAccounted WaitingRowAttended RunsWherePinned
PROPERTIES Settles MessageAnswered
CHECK_DEADLOCK FALSE

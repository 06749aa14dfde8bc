SPECIFICATION Spec
CONSTANTS
  n1 = n1  n2 = n2  p1 = p1  p2 = p2  p3 = p3  w1 = w1  w2 = w2  w3 = w3
  t1 = t1  t2 = t2  m1 = m1  m2 = m2
  Task <- OneTask
  Node <- OneNode
  Message = {m1}
  MaxAttempts <- TwiceOne
  Interactive = {}
  Evaluable = {t1}
  Affinity <- UnpinnedOne
  Proc <- TwoProcs
  ProcNode <- OverlapNode
  Worker <- TwoWorkers
  WorkerProc <- OverlapHome
  Registered <- AllOneNode
  MaxRetries = 2
  HeartbeatStalls = FALSE
  LostReplies = TRUE
  MaxOutages = 2
  MaxFaults = 1
INVARIANTS SoleRunner JudgedBeforeCompleted EscalatedWhenSpent GoalRunsWithinAttempts
PROPERTIES RetryBudgetKept
CHECK_DEADLOCK FALSE

SPECIFICATION FairSpec
CONSTANTS
  n1 = n1  n2 = n2  p1 = p1  p2 = p2  p3 = p3  w1 = w1  w2 = w2  w3 = w3
  t1 = t1  t2 = t2  m1 = m1  m2 = m2
  Task <- OneTask
  Node <- OneNode
  Message = {}
  MaxAttempts <- TwiceOne
  Interactive = {}
  Evaluable = {}
  Affinity <- UnpinnedOne
  Proc <- OneProc
  ProcNode <- SingleNode
  Worker <- TwoWorkers
  WorkerProc <- SharedHome
  Registered <- AllOneNode
  MaxRetries = 1
  HeartbeatStalls = FALSE
  LostReplies = FALSE
  MaxOutages = 1
  MaxFaults = 0
PROPERTIES CrashedRowRecovered
CHECK_DEADLOCK FALSE

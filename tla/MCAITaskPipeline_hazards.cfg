SPECIFICATION Spec
CONSTANTS
  t1 = t1
  t2 = t2
  p1 = p1
  p2 = p2
  Tasks = {t1}
  FaultTreeTasks = {t1}
  Projects = {p1}
  ProjectOf <- OneProject
  Workers = {w1, w2}
  Dispatchers = {d1, d2}
  MaxRetries = 2
  Docs = 1
  Copies = {1}
  Hazards = {"workerCrash", "crashMidRetry", "slowRetrying", "liveReclaim", "serverCrash", "lockExpiry",
    "replyLost", "dbError", "redisError", "commandUnknown", "requeueError", "lateMark", "resubmit"}
  MaxHazards = 1
  NoTask = NoTask
  NoEntry = NoEntry
SYMMETRY Symmetry
INVARIANTS
  CompletedMeansApplied
  DispatchedOnce
CHECK_DEADLOCK FALSE

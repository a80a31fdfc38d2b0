SPECIFICATION FairSpec
CONSTANTS
  t1 = t1
  t2 = t2
  p1 = p1
  p2 = p2
  Tasks = {t1}
  FaultTreeTasks = {}
  Projects = {p1}
  ProjectOf <- OneProject
  Workers = {w1, w2}
  Dispatchers = {d1}
  MaxRetries = 3
  Docs = 1
  Copies = {1}
  Hazards = {"workerCrash", "redisError", "replyLost"}
  MaxHazards = 1
  NoTask = NoTask
  NoEntry = NoEntry
PROPERTIES
  EveryTaskEnds
CHECK_DEADLOCK FALSE

SPECIFICATION FairSpec
CONSTANTS
  t1 = t1
  t2 = t2
  p1 = p1
  p2 = p2
  Tasks = {t1, t2}
  FaultTreeTasks = {t1, t2}
  Projects = {p1}
  ProjectOf <- OneProject
  Workers = {w1}
  Dispatchers = {d1}
  MaxRetries = 1
  Docs = 1
  Copies = {1}
  Hazards = {"workerCrash", "replyLost"}
  MaxHazards = 1
  NoTask = NoTask
  NoEntry = NoEntry
PROPERTIES
  EveryTaskEnds
  EveryProjectSettles
CHECK_DEADLOCK FALSE

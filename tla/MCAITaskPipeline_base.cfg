SPECIFICATION Spec
CONSTANTS
  t1 = t1
  t2 = t2
  p1 = p1
  p2 = p2
  Tasks = {t1, t2}
  FaultTreeTasks = {t1, t2}
  Projects = {p1}
  ProjectOf <- OneProject
  Workers = {w1}
  Dispatchers = {d1, d2}
  MaxRetries = 2
  Docs = 1
  Copies = {1}
  Hazards = {"workerCrash", "replyLost"}
  MaxHazards = 1
  NoTask = NoTask
  NoEntry = NoEntry
SYMMETRY SymmetryWithTasks
PROPERTIES
  TerminalIsFinal
INVARIANTS
  TypeOK
  LockCoversWork
  NoOrphanLock
  AppliedAtMostOnce
  SettledProject
CHECK_DEADLOCK FALSE

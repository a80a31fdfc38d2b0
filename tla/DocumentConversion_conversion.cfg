SPECIFICATION Spec
CONSTANTS
  None = None
  Docs = {d1, d2}
  Workers = {w1, w2}
  Deployments = {"redis", "database"}
  MaxFaults = 3
INVARIANTS
  TypeOK
  ConvertedOnce
  RowsAgree
  NotForgotten
PROPERTY
  Resolved
CHECK_DEADLOCK FALSE

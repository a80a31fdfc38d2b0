SPECIFICATION Spec
CONSTANTS
  None = None
  Answers <- MCAnswers
  Modes = {"read", "write"}
  MaxRounds = 1
  QueueSize = 1
  UniqueIds = TRUE
  NamedOnly = TRUE
  Extra = {1}
  MaxSignals = 2
  MaxUnits = 1
  MaxToolCalls = 3
  ToolCallRateLimit = 2
  MaxNodesPerSession = 1
  EnableLoopSoftWarning = TRUE
INVARIANTS
  TypeOK
  ConsentedOnly
  RoundsGranted
  
PROPERTY
  EveryRunEnds
CHECK_DEADLOCK FALSE

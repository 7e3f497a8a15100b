SPECIFICATION MCSpec
CONSTANTS
  Nodes <- ChainNodes
  Edges <- ChainEdges
  When <- ChainWhen
  Type <- ChainType
  Policies = {"fail_fast", "continue_on_error"}
  Fallback = "l"
  MaxAttempts = 2
  Requests = {"pause", "cancel", "resume"}
  MaxOps = 3
  MaxFails = 2
  MaxBlocks = 1
  MaxCrashes = 0
INVARIANT RunsSound
INVARIANT GatesHold
PROPERTY HistoryKept
PROPERTY RunsEnd
CHECK_DEADLOCK FALSE

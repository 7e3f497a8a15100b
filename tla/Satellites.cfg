SPECIFICATION MCSpec
CONSTANTS
  HasTtl = FALSE
  SweeperRuns = TRUE
  Operators = {"revoke", "reject", "retention"}
  MaxRevision = 3
  MaxVersion = 3
PROPERTY TasksKept
PROPERTY PairingSound
PROPERTY EverythingSettles
CHECK_DEADLOCK FALSE

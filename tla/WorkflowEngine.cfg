SPECIFICATION Spec
CONSTANTS
  Calls = {c1}
  c1 = c1
  Len = 3
  Definitions <- AllDefinitions
  Copies = 2
  MaxCalls = 6
CHECK_DEADLOCK FALSE
INVARIANTS TypeOK VerifiedPrefix DoneIsComplete PausedIsResumable
PROPERTIES CommittedNotReExecuted

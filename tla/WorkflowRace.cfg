SPECIFICATION Spec
CONSTANTS
  Calls = {c1, c2}
  c1 = c1
  c2 = c2
  Len = 2
  Definitions <- WritingDefinitions
  Copies = 2
  MaxCalls = 4
CHECK_DEADLOCK FALSE
SYMMETRY CallSymmetry
INVARIANTS ApprovalSingleUse VerifiedWasExecuted

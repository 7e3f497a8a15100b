SPECIFICATION MCSpec
CONSTANTS
  NoProvider = NoProvider
  NoLane = NoLane
  r1 = r1
  r2 = r2
  c1 = c1
  c2 = c2
  l1 = l1
  l2 = l2
  p1 = p1
  p2 = p2
  Runs = {r1}
  ProofRequired = {}
  NodeLabels = {"verified", "proof_pending"}
  OtherErrors = FALSE
  MaxFaults = 2
  MaxRestarts = 0
  Claims = {c1, c2}
  Lanes = {}
  Kinds = {"runtime_evidence", "summary_replay"}
  Sources = {"workflow_run_evidence", "manual_external"}
  CliShaped = {TRUE, FALSE}
  Roles = {}
  Providers = {NoProvider}
  Risk = "low"
  MaxRev = 1
INVARIANT VerifiedNotForged
INVARIANT VerdictsHold
PROPERTY CloseoutEarned
SYMMETRY ClaimSymmetry
CHECK_DEADLOCK FALSE

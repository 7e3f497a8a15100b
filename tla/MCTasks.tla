------------------------------ MODULE MCTasks ------------------------------
(***************************************************************************)
(* Model checking task workflows over the evidence of workflow runs. The   *)
(* constants of the cfg are those of the first scenario: two claims on a   *)
(* run whose evidence fails at any time.                                   *)
(***************************************************************************)
EXTENDS TaskWorkflow, TLC

CONSTANTS r1, r2, c1, c2, l1, l2, p1, p2

VARIABLE scenario

ClaimSymmetry == Permutations({c1, c2})

SomeLabels == {"verified", "proof_pending", "model_assessed_unverified"}

\* Two claims on a run that is taken up again after each of two restarts
Restarted == INSTANCE TaskWorkflow WITH
    NodeLabels <- SomeLabels, MaxFaults <- 1, MaxRestarts <- 2,
    Kinds <- {"runtime_evidence"}, Sources <- {"workflow_run_evidence"},
    CliShaped <- {FALSE}, MaxRev <- 0
\* A high-risk claim, an executor and a verifier lane, one revision
HighRisk == INSTANCE TaskWorkflow WITH
    Runs <- {}, ProofRequired <- {}, NodeLabels <- {}, MaxFaults <- 0,
    Claims <- {c1}, Lanes <- {l1, l2}, Kinds <- {"runtime_evidence"},
    Sources <- {"manual_external"}, CliShaped <- {FALSE}, Roles <- {"native", "cli"},
    Providers <- {NoProvider, p1, p2}, Risk <- "high"
\* A run alone that must be proven: every kind of error, restarts
Forging == INSTANCE TaskWorkflow WITH
    Runs <- {r2}, ProofRequired <- {r2}, NodeLabels <- SomeLabels, OtherErrors <- TRUE,
    MaxFaults <- 3, MaxRestarts <- 2, Claims <- {}
\* Runs alone, within one process, when tables are missing
OneProcess == INSTANCE TaskWorkflow WITH
    Runs <- {r1, r2}, ProofRequired <- {r2}, NodeLabels <- SomeLabels,
    MaxFaults <- 2, Claims <- {}

MCInit ==
    \/ scenario = "runs" /\ Init
    \/ scenario = "restarted" /\ Restarted!Init
    \/ scenario = "high risk" /\ HighRisk!Init
    \/ scenario = "forging" /\ Forging!Init
    \/ scenario = "one process" /\ OneProcess!Init

MCNext ==
    /\ \/ scenario = "runs" /\ Next
       \/ scenario = "restarted" /\ Restarted!Next
       \/ scenario = "high risk" /\ HighRisk!Next
       \/ scenario = "forging" /\ Forging!RunNext /\ UNCHANGED taskVars
       \/ scenario = "one process" /\ OneProcess!RunNext /\ UNCHANGED taskVars
    /\ UNCHANGED scenario

MCSpec == MCInit /\ [][MCNext]_<<vars, scenario>>

-----------------------------------------------------------------------------
\* A closeout that says complete, or calls its receipt proof, is right: claims
\* verified on evidence of their kind that is still there, by executor lanes that
\* worked on the current specification and, as there is one process only, from
\* runs that lost nothing.
CloseoutEarned ==
    [][/\ (scenario = "runs") => CompleteIsEarned /\ ProofIsWhole
       /\ (scenario = "high risk") => HighRisk!NoVerdictDrift]_vars

\* What was established stands: a verdict on a run rests on a verified run
\* across retries, late nodes and restarts, but for a label that was never
\* written; a high-risk one came from an independent verifier; and within one
\* process the worst label is kept, and evidence lost to a missing table shows.
VerdictsHold ==
    /\ scenario = "restarted" => Restarted!VerifiedRunsHold
    /\ scenario = "high risk" => HighRisk!HighRiskIndependent
    /\ scenario = "one process" => OneProcess!WorstKept /\ OneProcess!EvidenceHonest
=============================================================================

----------------------------- MODULE TaskProofs -----------------------------
(***************************************************************************)
(* The theorems of EvidenceProofs, put together for the scenarios of the   *)
(* run over task workflows: each scenario is an instance of TaskWorkflow,  *)
(* and its proof is the instance of EvidenceProofs with the same           *)
(* constants. What is left open is open in every scenario: the runs of     *)
(* the first two, the claims, the bounds the run chooses.                  *)
(***************************************************************************)
EXTENDS EvidenceProofs, MCTasks

RestartedP == INSTANCE EvidenceProofs WITH
    NodeLabels <- SomeLabels, MaxFaults <- 1, MaxRestarts <- 2,
    Kinds <- {"runtime_evidence"}, Sources <- {"workflow_run_evidence"},
    CliShaped <- {FALSE}, MaxRev <- 0

HighRiskP == INSTANCE EvidenceProofs WITH
    Runs <- {}, ProofRequired <- {}, NodeLabels <- {}, MaxFaults <- 0,
    Claims <- {c1}, Lanes <- {l1, l2}, Kinds <- {"runtime_evidence"},
    Sources <- {"manual_external"}, CliShaped <- {FALSE}, Roles <- {"native", "cli"},
    Providers <- {NoProvider, p1, p2}, Risk <- "high"

OneProcessP == INSTANCE EvidenceProofs WITH
    Runs <- {r1, r2}, ProofRequired <- {r2}, NodeLabels <- SomeLabels,
    MaxFaults <- 2, Claims <- {}

\* The run's cfg: one process, in which a write fails only on a missing table.
\* Scenarios with restarts or other errors set their own values.
OneProcessOnly == MaxRestarts = 0 /\ ~OtherErrors

-----------------------------------------------------------------------------
(* A scenario and the instance of the proofs are the same specification    *)

LEMMA SameRestarted ==
    /\ Restarted!Init <=> RestartedP!Init
    /\ Restarted!Next <=> RestartedP!Next
    /\ Restarted!VerifiedRunsHold <=> RestartedP!VerifiedRunsHold
<1> USE DEF Restarted!runVars, Restarted!runHistory, RestartedP!runVars, RestartedP!runHistory,
            Restarted!Rank, RestartedP!Rank, Restarted!Labels, RestartedP!Labels, Restarted!Worst,
            RestartedP!Worst, Restarted!Completion, RestartedP!Completion, Restarted!RunInit,
            RestartedP!RunInit, Restarted!Unsaved, RestartedP!Unsaved, Restarted!PersistLabel,
            RestartedP!PersistLabel, Restarted!AfterLoss, RestartedP!AfterLoss,
            Restarted!RunRetried, RestartedP!RunRetried, Restarted!RecordNode,
            RestartedP!RecordNode, Restarted!TableMissing, RestartedP!TableMissing,
            Restarted!WriteFails, RestartedP!WriteFails, Restarted!WritePaused,
            RestartedP!WritePaused, Restarted!ReadFails, RestartedP!ReadFails, Restarted!Recovers,
            RestartedP!Recovers, Restarted!RunEnds, RestartedP!RunEnds, Restarted!Restart,
            RestartedP!Restart, Restarted!RunNext, RestartedP!RunNext, Restarted!taskVars,
            RestartedP!taskVars, Restarted!vars, RestartedP!vars, Restarted!NonEvidence,
            RestartedP!NonEvidence, Restarted!Allowed, RestartedP!Allowed, Restarted!RollbackClass,
            RestartedP!RollbackClass, Restarted!NoClaim, RestartedP!NoClaim, Restarted!NoLaneRow,
            RestartedP!NoLaneRow, Restarted!Ref, RestartedP!Ref, Restarted!Independence,
            RestartedP!Independence, Restarted!Init, RestartedP!Init, Restarted!DraftClaim,
            RestartedP!DraftClaim, Restarted!AttachEvidenceRef, RestartedP!AttachEvidenceRef,
            Restarted!RunRefs, RestartedP!RunRefs, Restarted!RunsProven, RestartedP!RunsProven,
            Restarted!LaneMayVerify, RestartedP!LaneMayVerify, Restarted!VerifyClaim,
            RestartedP!VerifyClaim, Restarted!BlockClaim, RestartedP!BlockClaim, Restarted!Revise,
            RestartedP!Revise, Restarted!OpenExecutorLane, RestartedP!OpenExecutorLane,
            Restarted!Resolved, RestartedP!Resolved, Restarted!OpenVerifierLane,
            RestartedP!OpenVerifierLane, Restarted!CompleteLane, RestartedP!CompleteLane,
            Restarted!CliStart, RestartedP!CliStart, Restarted!CliRepair, RestartedP!CliRepair,
            Restarted!CliRecorded, RestartedP!CliRecorded, Restarted!With, RestartedP!With,
            Restarted!ClaimEvidenceRequired, RestartedP!ClaimEvidenceRequired,
            Restarted!DocsIntentNotProof, RestartedP!DocsIntentNotProof, Restarted!KindsUnconfirmed,
            RestartedP!KindsUnconfirmed, Restarted!ExecutorLaneContextBound,
            RestartedP!ExecutorLaneContextBound, Restarted!WorkflowRunEvidenceDurable,
            RestartedP!WorkflowRunEvidenceDurable, Restarted!IndependentVerifierRequired,
            RestartedP!IndependentVerifierRequired, Restarted!Rollback, RestartedP!Rollback,
            Restarted!RequiredGates, RestartedP!RequiredGates, Restarted!CloseoutStatus,
            RestartedP!CloseoutStatus, Restarted!Closeout, RestartedP!Closeout, Restarted!RunStep,
            RestartedP!RunStep, Restarted!Next, RestartedP!Next
<1>1. Restarted!Init <=> RestartedP!Init
  OBVIOUS
<1>2. Restarted!Next <=> RestartedP!Next
  OBVIOUS
<1>3. Restarted!VerifiedRunsHold <=> RestartedP!VerifiedRunsHold
  BY DEF Restarted!VerifiedRunsHold, RestartedP!VerifiedRunsHold
<1>4. QED  BY ONLY <1>1, <1>2, <1>3

LEMMA SameHighRisk ==
    /\ HighRisk!Init <=> HighRiskP!Init
    /\ HighRisk!Next <=> HighRiskP!Next
    /\ HighRisk!HighRiskIndependent <=> HighRiskP!HighRiskIndependent
    /\ HighRisk!NoVerdictDrift <=> HighRiskP!NoVerdictDrift
<1> USE DEF HighRisk!runVars, HighRisk!runHistory, HighRiskP!runVars, HighRiskP!runHistory,
            HighRisk!Rank, HighRiskP!Rank, HighRisk!Labels, HighRiskP!Labels, HighRisk!Worst,
            HighRiskP!Worst, HighRisk!Completion, HighRiskP!Completion, HighRisk!RunInit,
            HighRiskP!RunInit, HighRisk!Unsaved, HighRiskP!Unsaved, HighRisk!PersistLabel,
            HighRiskP!PersistLabel, HighRisk!AfterLoss, HighRiskP!AfterLoss, HighRisk!RunRetried,
            HighRiskP!RunRetried, HighRisk!RecordNode, HighRiskP!RecordNode, HighRisk!TableMissing,
            HighRiskP!TableMissing, HighRisk!WriteFails, HighRiskP!WriteFails, HighRisk!WritePaused,
            HighRiskP!WritePaused, HighRisk!ReadFails, HighRiskP!ReadFails, HighRisk!Recovers,
            HighRiskP!Recovers, HighRisk!RunEnds, HighRiskP!RunEnds, HighRisk!Restart,
            HighRiskP!Restart, HighRisk!RunNext, HighRiskP!RunNext, HighRisk!taskVars,
            HighRiskP!taskVars, HighRisk!vars, HighRiskP!vars, HighRisk!NonEvidence,
            HighRiskP!NonEvidence, HighRisk!Allowed, HighRiskP!Allowed, HighRisk!RollbackClass,
            HighRiskP!RollbackClass, HighRisk!NoClaim, HighRiskP!NoClaim, HighRisk!NoLaneRow,
            HighRiskP!NoLaneRow, HighRisk!Ref, HighRiskP!Ref, HighRisk!Independence,
            HighRiskP!Independence, HighRisk!Init, HighRiskP!Init, HighRisk!DraftClaim,
            HighRiskP!DraftClaim, HighRisk!AttachEvidenceRef, HighRiskP!AttachEvidenceRef,
            HighRisk!RunRefs, HighRiskP!RunRefs, HighRisk!RunsProven, HighRiskP!RunsProven,
            HighRisk!LaneMayVerify, HighRiskP!LaneMayVerify, HighRisk!VerifyClaim,
            HighRiskP!VerifyClaim, HighRisk!BlockClaim, HighRiskP!BlockClaim, HighRisk!Revise,
            HighRiskP!Revise, HighRisk!OpenExecutorLane, HighRiskP!OpenExecutorLane,
            HighRisk!Resolved, HighRiskP!Resolved, HighRisk!OpenVerifierLane,
            HighRiskP!OpenVerifierLane, HighRisk!CompleteLane, HighRiskP!CompleteLane,
            HighRisk!CliStart, HighRiskP!CliStart, HighRisk!CliRepair, HighRiskP!CliRepair,
            HighRisk!CliRecorded, HighRiskP!CliRecorded, HighRisk!With, HighRiskP!With,
            HighRisk!ClaimEvidenceRequired, HighRiskP!ClaimEvidenceRequired,
            HighRisk!DocsIntentNotProof, HighRiskP!DocsIntentNotProof, HighRisk!KindsUnconfirmed,
            HighRiskP!KindsUnconfirmed, HighRisk!ExecutorLaneContextBound,
            HighRiskP!ExecutorLaneContextBound, HighRisk!WorkflowRunEvidenceDurable,
            HighRiskP!WorkflowRunEvidenceDurable, HighRisk!IndependentVerifierRequired,
            HighRiskP!IndependentVerifierRequired, HighRisk!Rollback, HighRiskP!Rollback,
            HighRisk!RequiredGates, HighRiskP!RequiredGates, HighRisk!CloseoutStatus,
            HighRiskP!CloseoutStatus, HighRisk!Closeout, HighRiskP!Closeout, HighRisk!RunStep,
            HighRiskP!RunStep, HighRisk!Next, HighRiskP!Next
<1>1. HighRisk!Init <=> HighRiskP!Init
  OBVIOUS
<1>2. HighRisk!Next <=> HighRiskP!Next
  OBVIOUS
<1>3. HighRisk!HighRiskIndependent <=> HighRiskP!HighRiskIndependent
  BY DEF HighRisk!HighRiskIndependent, HighRiskP!HighRiskIndependent
<1>4. HighRisk!NoVerdictDrift <=> HighRiskP!NoVerdictDrift
  BY DEF HighRisk!NoVerdictDrift, HighRiskP!NoVerdictDrift
<1>5. QED  BY ONLY <1>1, <1>2, <1>3, <1>4

LEMMA SameOneProcess ==
    /\ OneProcess!Init => OneProcessP!RunInit
    /\ OneProcess!RunNext <=> OneProcessP!RunNext
    /\ OneProcess!WorstKept <=> OneProcessP!WorstKept
    /\ OneProcess!EvidenceHonest <=> OneProcessP!EvidenceHonest
<1> USE DEF OneProcess!runVars, OneProcess!runHistory, OneProcessP!runVars, OneProcessP!runHistory,
            OneProcess!Rank, OneProcessP!Rank, OneProcess!Labels, OneProcessP!Labels,
            OneProcess!Worst, OneProcessP!Worst, OneProcess!Completion, OneProcessP!Completion,
            OneProcess!RunInit, OneProcessP!RunInit, OneProcess!Unsaved, OneProcessP!Unsaved,
            OneProcess!PersistLabel, OneProcessP!PersistLabel, OneProcess!AfterLoss,
            OneProcessP!AfterLoss, OneProcess!RunRetried, OneProcessP!RunRetried,
            OneProcess!RecordNode, OneProcessP!RecordNode, OneProcess!TableMissing,
            OneProcessP!TableMissing, OneProcess!WriteFails, OneProcessP!WriteFails,
            OneProcess!WritePaused, OneProcessP!WritePaused, OneProcess!ReadFails,
            OneProcessP!ReadFails, OneProcess!Recovers, OneProcessP!Recovers, OneProcess!RunEnds,
            OneProcessP!RunEnds, OneProcess!Restart, OneProcessP!Restart, OneProcess!RunNext,
            OneProcessP!RunNext
<1>1. OneProcess!Init => OneProcessP!RunInit
  BY DEF OneProcess!Init
<1>2. OneProcess!RunNext <=> OneProcessP!RunNext
  OBVIOUS
<1>3. OneProcess!WorstKept <=> OneProcessP!WorstKept
  BY DEF OneProcess!WorstKept, OneProcessP!WorstKept
<1>4. OneProcess!EvidenceHonest <=> OneProcessP!EvidenceHonest
  BY DEF OneProcess!EvidenceHonest, OneProcessP!EvidenceHonest
<1>5. QED  BY ONLY <1>1, <1>2, <1>3, <1>4

-----------------------------------------------------------------------------
(* The constants of each scenario are as the proofs assume                 *)

LEMMA RestartedStep ==
    /\ RestartedP!Init => RestartedP!TaskInv
    /\ RestartedP!TaskInv /\ [RestartedP!Next]_vars => RestartedP!TaskInv'
    /\ RestartedP!TaskInv => RestartedP!VerifiedRunsHold
<1>1. SomeLabels \subseteq RestartedP!Labels
  BY DEF SomeLabels, RestartedP!Labels
<1>2. RestartedP!Init => RestartedP!TaskInv
  BY <1>1, RunEvidenceAssumption, TaskAssumption, RestartedP!TaskInvInit
<1>3. RestartedP!TaskInv /\ [RestartedP!Next]_(RestartedP!vars) => RestartedP!TaskInv'
  BY <1>1, RunEvidenceAssumption, TaskAssumption, RestartedP!TaskInvStep
<1>4. RestartedP!TaskInv => RestartedP!VerifiedRunsHold
  BY <1>1, RunEvidenceAssumption, TaskAssumption, RestartedP!GroundedRunsHold
<1>5. QED  BY <1>2, <1>3, <1>4
          DEF RestartedP!vars, RestartedP!runVars, RestartedP!runHistory, RestartedP!taskVars, vars,
              runVars, runHistory, taskVars

LEMMA HighRiskStep ==
    /\ HighRiskP!Init => HighRiskP!TaskInv
    /\ HighRiskP!TaskInv /\ [HighRiskP!Next]_vars => HighRiskP!TaskInv'
    /\ HighRiskP!TaskInv => HighRiskP!HighRiskIndependent
    /\ HighRiskP!TaskInv /\ [HighRiskP!Next]_vars => HighRiskP!NoVerdictDrift
<1>1. /\ {} \subseteq {} /\ {} \subseteq HighRiskP!Labels /\ OtherErrors \in BOOLEAN
      /\ 0 \in Nat /\ MaxRestarts \in Nat /\ "high" \in {"low", "medium", "high"} /\ MaxRev \in Nat
      /\ {"native", "cli"} \subseteq {"native", "provider", "cli"}
      /\ NoProvider \in {NoProvider, p1, p2} /\ {FALSE} \subseteq BOOLEAN
  BY RunEvidenceAssumption, TaskAssumption
<1>2. HighRiskP!Init => HighRiskP!TaskInv
  BY <1>1, HighRiskP!TaskInvInit
<1>3. HighRiskP!TaskInv /\ [HighRiskP!Next]_(HighRiskP!vars) => HighRiskP!TaskInv'
  BY <1>1, HighRiskP!TaskInvStep
<1>4. HighRiskP!TaskInv => HighRiskP!HighRiskIndependent
  BY <1>1, HighRiskP!GroundedIndependent
<1>5. HighRiskP!TaskInv /\ [HighRiskP!Next]_(HighRiskP!vars) => HighRiskP!NoVerdictDrift
  BY <1>1, HighRiskP!DriftStep
<1>6. QED  BY <1>2, <1>3, <1>4, <1>5
          DEF HighRiskP!vars, HighRiskP!runVars, HighRiskP!runHistory, HighRiskP!taskVars, vars,
              runVars, runHistory, taskVars

\* What the two maps in memory say while the process lives.
OneProcessInv == OneProcessP!RunTypeOK /\ OneProcessP!MemoryWorst /\ OneProcessP!LostShows

LEMMA OneProcessStep ==
    ASSUME OneProcessOnly
    PROVE  /\ OneProcessP!RunInit => OneProcessInv
           /\ OneProcessInv /\ [OneProcessP!RunNext]_runVars => OneProcessInv'
           /\ OneProcessInv => OneProcessP!WorstKept /\ OneProcessP!EvidenceHonest
<1> USE DEF OneProcessOnly, OneProcessInv
<1>1. /\ {r2} \subseteq {r1, r2} /\ SomeLabels \subseteq OneProcessP!Labels
      /\ OtherErrors \in BOOLEAN /\ 2 \in Nat /\ MaxRestarts \in Nat
  BY RunEvidenceAssumption DEF SomeLabels, OneProcessP!Labels
<1>2. /\ Risk \in {"low", "medium", "high"} /\ MaxRev \in Nat
      /\ Roles \subseteq {"native", "provider", "cli"} /\ NoProvider \in Providers /\ CliShaped \subseteq BOOLEAN
  BY TaskAssumption
<1>3. OneProcessP!RunInit => OneProcessInv
  BY <1>1, <1>2, OneProcessP!TypeInit, OneProcessP!MemoryInit
<1>4. ASSUME OneProcessInv, [OneProcessP!RunNext]_(OneProcessP!runVars)
      PROVE  OneProcessInv'
  <2>1. OneProcessP!RunTypeOK'
    BY <1>1, <1>2, <1>4, OneProcessP!TypeStep
  <2>2. OneProcessP!MemoryWorst'
    BY <1>1, <1>2, <1>4, OneProcessP!MemoryStep
  <2>3. OneProcessP!LostShows'
    BY <1>1, <1>2, <1>4, OneProcessP!LostStep
  <2>4. QED  BY <2>1, <2>2, <2>3
<1>5. OneProcessInv => OneProcessP!WorstKept /\ OneProcessP!EvidenceHonest
  BY <1>1, <1>2, OneProcessP!MemoryImplies, OneProcessP!LostImplies
<1>6. QED  BY <1>3, <1>4, <1>5 DEF OneProcessP!runVars, OneProcessP!runHistory, runVars, runHistory

-----------------------------------------------------------------------------
(* All scenarios                                                           *)

ScenarioInv ==
    /\ scenario = "runs" => TaskInv /\ LostShows
    /\ scenario = "restarted" => RestartedP!TaskInv
    /\ scenario = "high risk" => HighRiskP!TaskInv
    /\ scenario = "one process" => OneProcessInv

LEMMA ScenarioInit == OneProcessOnly /\ MCInit => ScenarioInv
<1> SUFFICES ASSUME OneProcessOnly, MCInit PROVE ScenarioInv
  OBVIOUS
<1>1. CASE scenario = "runs" /\ Init
  BY <1>1, TaskInvInit, MemoryInit DEF ScenarioInv, Init
<1>2. CASE scenario = "restarted" /\ Restarted!Init
  BY <1>2, SameRestarted, RestartedStep DEF ScenarioInv
<1>3. CASE scenario = "high risk" /\ HighRisk!Init
  BY <1>3, SameHighRisk, HighRiskStep DEF ScenarioInv
<1>4. CASE scenario = "forging" /\ Forging!Init
  BY <1>4 DEF ScenarioInv
<1>5. CASE scenario = "one process" /\ OneProcess!Init
  BY <1>5, SameOneProcess, OneProcessStep DEF ScenarioInv
<1>6. QED  BY <1>1, <1>2, <1>3, <1>4, <1>5 DEF MCInit

\* What a step of each scenario is.
LEMMA ScenarioCases ==
    ASSUME [MCNext]_<<vars, scenario>>
    PROVE  /\ scenario' = scenario
           /\ scenario = "runs" => [Next]_vars
           /\ scenario = "restarted" => [RestartedP!Next]_vars
           /\ scenario = "high risk" => [HighRiskP!Next]_vars
           /\ scenario = "one process" => [OneProcessP!RunNext]_runVars
<1>1. scenario' = scenario
  BY DEF MCNext
<1>2. scenario = "one process" => [OneProcess!RunNext]_runVars
  BY DEF MCNext, vars
<1>3. /\ scenario = "runs" => [Next]_vars
      /\ scenario = "restarted" => [Restarted!Next]_vars
      /\ scenario = "high risk" => [HighRisk!Next]_vars
  BY DEF MCNext
<1>4. QED  BY <1>1, <1>2, <1>3, SameRestarted, SameHighRisk, SameOneProcess

LEMMA ScenarioStep == OneProcessOnly /\ ScenarioInv /\ [MCNext]_<<vars, scenario>> => ScenarioInv'
<1> SUFFICES ASSUME OneProcessOnly, ScenarioInv, [MCNext]_<<vars, scenario>> PROVE ScenarioInv'
  OBVIOUS
<1>1. scenario' = scenario
  BY ScenarioCases
<1>2. ASSUME scenario = "runs" PROVE TaskInv' /\ LostShows'
  <2>1. TaskInv /\ LostShows /\ [Next]_vars
    BY <1>2, ScenarioCases DEF ScenarioInv
  <2>2. TaskInv'
    BY <2>1, TaskInvStep
  <2>3. RunTypeOK /\ [RunNext]_runVars
    BY <2>1, RunsBeside DEF TaskInv, TypeOK
  <2>4. QED  BY <2>1, <2>2, <2>3, LostStep DEF OneProcessOnly
<1>3. scenario = "restarted" => RestartedP!TaskInv'
  BY ScenarioCases, RestartedStep DEF ScenarioInv
<1>4. scenario = "high risk" => HighRiskP!TaskInv'
  BY ScenarioCases, HighRiskStep DEF ScenarioInv
<1>5. scenario = "one process" => OneProcessInv'
  BY ScenarioCases, OneProcessStep DEF ScenarioInv
<1>6. QED  BY <1>1, <1>2, <1>3, <1>4, <1>5 DEF ScenarioInv

LEMMA ScenarioInvariance == OneProcessOnly => (MCSpec => []ScenarioInv)
<1> SUFFICES ASSUME OneProcessOnly PROVE MCSpec => []ScenarioInv
  OBVIOUS
<1>1. QED  BY ScenarioInit, ScenarioStep, PTL DEF MCSpec

LEMMA ScenarioVerdicts == OneProcessOnly /\ ScenarioInv => VerdictsHold
  BY SameRestarted, SameHighRisk, SameOneProcess, RestartedStep, HighRiskStep, OneProcessStep
     DEF ScenarioInv, VerdictsHold

\* verifyClaim, attachEvidenceRef and recordRunNodeCompletionVerification: a
\* verdict on a run rests on a verified run across restarts, unless a label was
\* never written; a high-risk one came from an independent verifier; and within
\* one process the worst label is kept and evidence lost to a missing table
\* shows, whatever the runs, claims and lanes left open.
THEOREM VerdictsHoldAlways == OneProcessOnly => (MCSpec => []VerdictsHold)
<1> SUFFICES ASSUME OneProcessOnly PROVE MCSpec => []VerdictsHold
  OBVIOUS
<1>1. QED  BY ScenarioInvariance, ScenarioVerdicts, PTL

LEMMA ScenarioCloseout ==
    ASSUME OneProcessOnly, ScenarioInv, [MCNext]_<<vars, scenario>>
    PROVE  /\ scenario = "runs" => CompleteIsEarned /\ ProofIsWhole
           /\ scenario = "high risk" => HighRisk!NoVerdictDrift
<1>1. scenario = "runs" => CompleteIsEarned /\ ProofIsWhole
  BY ScenarioCases, CompleteStep, ProofStep DEF ScenarioInv
<1>2. scenario = "high risk" => HighRisk!NoVerdictDrift
  BY ScenarioCases, HighRiskStep, SameHighRisk DEF ScenarioInv
<1>3. QED  BY <1>1, <1>2

\* evaluateCloseout: a receipt that says complete is right about every claim and
\* every lane, and one that calls itself proof names no run that lost evidence.
THEOREM CloseoutEarnedHolds == OneProcessOnly => (MCSpec => CloseoutEarned)
<1> SUFFICES ASSUME OneProcessOnly PROVE MCSpec => CloseoutEarned
  OBVIOUS
<1>1. QED  BY ScenarioInvariance, ScenarioCloseout, PTL DEF MCSpec, CloseoutEarned
=============================================================================

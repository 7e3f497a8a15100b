----------------------------- MODULE RunEvidence -----------------------------
(***************************************************************************)
(* What the workflow runtime says of a run as proof: whether its evidence  *)
(* was stored (a status per run, kept in memory) and whether its nodes     *)
(* completed verifiably (the worst label, kept in memory and in the row).  *)
(* (workflows/runtime/friday-workflow-runtime.ts)                          *)
(***************************************************************************)
EXTENDS Integers

CONSTANTS
    Runs,           \* workflow run ids
    ProofRequired,  \* the runs that are started with proofRequired
    NodeLabels,     \* the labels that nodes of these runs report
    OtherErrors,    \* whether a write fails for another reason than a missing table
    MaxFaults,      \* bound: failed reads and writes, labels included
    MaxRestarts     \* bound: restarts of the hub

\* COMPLETION_VERIFICATION_RANK: a lower number is the worse label.
Rank == [blocked |-> 0, recovery_needed |-> 1, proof_pending |-> 2,
         model_assessed_unverified |-> 3, verified |-> 4]

Labels == {"blocked", "recovery_needed", "proof_pending",
           "model_assessed_unverified", "verified"}

ASSUME RunEvidenceAssumption ==
    /\ ProofRequired \subseteq Runs /\ NodeLabels \subseteq Labels
    /\ OtherErrors \in BOOLEAN /\ MaxFaults \in Nat /\ MaxRestarts \in Nat

VARIABLES
    run,        \* run[r]: the status of the row
    evidence,   \* evidenceStatusByRunId
    label,      \* runCompletionVerificationByRunId, "none" if absent
    column,     \* workflow_runs.completion_verification, "none" for NULL
    faults, restarts,
    lost,       \* lost[r]: evidence of r was not stored or not read (history)
    reported,   \* reported[r]: the labels of nodes before r completed (history)
    late,       \* late[r]: the labels of nodes that outlived r's completion (history)
    forgotten   \* forgotten[r]: a restart met r with its label in memory only (history)

runHistory == <<lost, reported, late, forgotten>>
runVars == <<run, evidence, label, column, faults, restarts, runHistory>>

RunTypeOK ==
    /\ run \in [Runs -> {"running", "completed", "failed"}]
    /\ evidence \in [Runs -> {"available", "degraded", "unavailable"}]
    /\ label \in [Runs -> Labels \cup {"none"}]
    /\ column \in [Runs -> (Labels \ {"verified"}) \cup {"none"}]
    /\ faults \in 0..MaxFaults /\ restarts \in 0..MaxRestarts
    /\ lost \in [Runs -> BOOLEAN] /\ forgotten \in [Runs -> BOOLEAN]
    /\ reported \in [Runs -> SUBSET Labels] /\ late \in [Runs -> SUBSET Labels]

RunInit ==
    /\ run = [r \in Runs |-> "running"]
    /\ evidence = [r \in Runs |-> "available"]
    /\ label = [r \in Runs |-> "none"] /\ column = [r \in Runs |-> "none"]
    /\ faults = 0 /\ restarts = 0
    /\ lost = [r \in Runs |-> FALSE] /\ forgotten = [r \in Runs |-> FALSE]
    /\ reported = [r \in Runs |-> {}] /\ late = [r \in Runs |-> {}]

-----------------------------------------------------------------------------
\* worstCompletionVerification of two labels, either of which may be absent.
Worst(a, b) ==
    IF a = "none" THEN b ELSE IF b = "none" THEN a
    ELSE IF Rank[a] <= Rank[b] THEN a ELSE b

Completion_MemoryOnly(r) ==
    IF run[r] = "completed" /\ label[r] \in {"none", "verified"} THEN "verified"
    ELSE IF label[r] \in {"none", "verified"} THEN "proof_pending" ELSE label[r]

\* getRunCompletionVerification
Completion(r) ==
    LET recorded == IF Worst(label[r], column[r]) = "none" THEN "verified"
                    ELSE Worst(label[r], column[r])
    IN  IF run[r] # "completed" /\ recorded = "verified" THEN "proof_pending" ELSE recorded

\* A label below "verified" is in memory and not in the row.
Unsaved(r) == label[r] \notin {"none", "verified"} /\ column[r] = "none"

\* persistCompletionVerification: a failed write is swallowed.
PersistLabel(r, l) ==
    \/ column' = [column EXCEPT ![r] = l] /\ UNCHANGED faults
    \/ faults < MaxFaults /\ faults' = faults + 1 /\ UNCHANGED column

\* recordRunNodeCompletionVerification: only a worse label replaces the one in
\* memory, and it is then written to the row unless it is "verified". A node
\* that timed out is not stopped, so it may report whatever became of its run.
RecordNode(r, l) ==
    /\ IF run[r] = "completed"
       THEN late' = [late EXCEPT ![r] = @ \cup {l}] /\ UNCHANGED reported
       ELSE reported' = [reported EXCEPT ![r] = @ \cup {l}] /\ UNCHANGED late
    /\ IF label[r] = "none" \/ Rank[l] < Rank[label[r]]
       THEN /\ label' = [label EXCEPT ![r] = l]
            /\ IF l # "verified" THEN PersistLabel(r, l) ELSE UNCHANGED <<column, faults>>
       ELSE UNCHANGED <<label, column, faults>>
    /\ UNCHANGED <<run, evidence, restarts, lost, forgotten>>

\* What a lost write of evidence may do to the run: failRunWithEvidenceUnavailable
\* ends a proof-required one that is not at its end, if the row exists and can
\* be written; the error is thrown at the node, whose policy may let it go on.
AfterLoss(r) ==
    \E s \in IF r \in ProofRequired /\ run[r] = "running" THEN {"running", "failed"} ELSE {run[r]} :
        run' = [run EXCEPT ![r] = s]

\* persistEvidenceForRun meets "no such table".
TableMissing(r) ==
    /\ evidence[r] # "unavailable" /\ faults < MaxFaults
    /\ faults' = faults + 1
    /\ lost' = [lost EXCEPT ![r] = TRUE]
    /\ evidence' = [evidence EXCEPT ![r] = "unavailable"]
    /\ AfterLoss(r)
    /\ UNCHANGED <<label, column, restarts, reported, late, forgotten>>

\* It meets any other error: dropped, or, for a proof-required run, thrown.
WriteFails(r) ==
    /\ OtherErrors
    /\ evidence[r] # "unavailable" /\ faults < MaxFaults
    /\ faults' = faults + 1
    /\ lost' = [lost EXCEPT ![r] = TRUE]
    /\ AfterLoss(r)
    /\ UNCHANGED <<evidence, label, column, restarts, reported, late, forgotten>>

\* Writes are paused: skipped, or refused for a proof-required run.
WritePaused(r) ==
    /\ evidence[r] = "unavailable"
    /\ lost' = [lost EXCEPT ![r] = TRUE]
    /\ AfterLoss(r)
    /\ UNCHANGED <<evidence, label, column, faults, restarts, reported, late, forgotten>>

\* readEvidenceSafely fails: a missing table, or any other error, which does
\* not weaken "unavailable".
ReadFails(r) ==
    /\ evidence[r] # "unavailable" /\ faults < MaxFaults
    /\ faults' = faults + 1
    /\ lost' = [lost EXCEPT ![r] = TRUE]
    /\ \E s \in {"unavailable", "degraded"} : evidence' = [evidence EXCEPT ![r] = s]
    /\ UNCHANGED <<run, label, column, restarts, reported, late, forgotten>>

Recovers_Clean(r) ==
    /\ evidence[r] = "unavailable"
    /\ evidence' = [evidence EXCEPT ![r] = "available"]
    /\ UNCHANGED <<run, label, column, faults, restarts, runHistory>>

\* getRunEvidenceStatus after the retry interval.
Recovers(r) ==
    /\ evidence[r] = "unavailable"
    /\ evidence' = [evidence EXCEPT ![r] = "degraded"]
    /\ UNCHANGED <<run, label, column, faults, restarts, runHistory>>

\* The engine ends the run.
RunEnds(r) ==
    /\ run[r] = "running"
    /\ \E s \in {"completed", "failed"} : run' = [run EXCEPT ![r] = s]
    /\ UNCHANGED <<evidence, label, column, faults, restarts, runHistory>>

\* retryRun, resumeRun: a failed run is taken up again.
RunRetried(r) ==
    /\ run[r] = "failed"
    /\ run' = [run EXCEPT ![r] = "running"]
    /\ UNCHANGED <<evidence, label, column, faults, restarts, runHistory>>

\* The hub restarts with empty maps; a run that waited is taken up again.
Restart ==
    /\ restarts < MaxRestarts /\ restarts' = restarts + 1
    /\ evidence' = [r \in Runs |-> "available"]
    /\ label' = [r \in Runs |-> "none"]
    /\ forgotten' = [r \in Runs |-> forgotten[r] \/ Unsaved(r)]
    /\ UNCHANGED <<run, column, faults, lost, reported, late>>

RunNext ==
    \/ \E r \in Runs :
         \/ \E l \in NodeLabels : RecordNode(r, l)
         \/ TableMissing(r) \/ WriteFails(r) \/ WritePaused(r)
         \/ ReadFails(r) \/ Recovers(r) \/ RunEnds(r) \/ RunRetried(r)
    \/ Restart

RunSpec == RunInit /\ [][RunNext]_runVars

-----------------------------------------------------------------------------
(* Properties                                                              *)

\* A run one of whose nodes was not verified never reads as verified: the label
\* that matters is in memory, or in the row when a restart empties the memory.
\* The exception is a label whose write was swallowed before that restart.
VerifiedNotForged ==
    \A r \in DOMAIN run :
        Completion(r) = "verified" => forgotten[r] \/ reported[r] \cup late[r] \subseteq {"verified"}

\* "so the truth survives a hub restart": without the exception.
LabelSurvives ==
    \A r \in DOMAIN run : Completion(r) = "verified" => reported[r] \cup late[r] \subseteq {"verified"}

\* The label read is the worst label that any node reported.
WorstKept ==
    \A r \in Runs : \A l \in reported[r] \cup late[r] : Rank[Completion(r)] <= Rank[l]

\* A run whose evidence reads as available has all of it.
EvidenceHonest ==
    \A r \in Runs : evidence[r] = "available" => ~lost[r]
==============================================================================

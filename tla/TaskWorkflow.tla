---------------------------- MODULE TaskWorkflow ----------------------------
(***************************************************************************)
(* One task workflow of the TypeScript hub: claims that become verified on *)
(* evidence, executor and verifier lanes, revisions of the specification,  *)
(* the hand-off of a CLI lane, and the closeout receipt with its gates.    *)
(* The evidence may be a workflow run, whose state is that of RunEvidence. *)
(* (task-workflows/friday-task-workflow-service.ts, -closeout-gates.ts,    *)
(* -lanes.ts, -compatibility.ts, -cli-adapter.ts)                          *)
(***************************************************************************)
EXTENDS RunEvidence, FiniteSets

CONSTANTS
    Claims, Lanes,          \* ids
    Kinds, Sources,         \* the claim kinds and ref sources that occur
    CliShaped,              \* whether a ref kind may be CLI-shaped
    Roles,                  \* the lane roles that occur: "native", "provider", "cli"
    Providers,              \* provider ids; NoProvider when a lane names none
    NoProvider, NoLane,
    Risk,                   \* of the workflow: "low", "medium" or "high"
    MaxRev                  \* bound: revisions

VARIABLES
    rev,        \* the specification hash: a number that each revision increases
    claim,      \* claim[c]: the row, status "none" before it is drafted
    refs,       \* refs[c]: its evidence refs
    lane,       \* lane[l]: the row, status "none" before it is opened
    cli,        \* cli[l]: a call of the CLI adapter for lane l
    handoffs,   \* the lanes with a hand-off row
    receipt     \* the latest closeout receipt

taskVars == <<rev, claim, refs, lane, cli, handoffs, receipt>>
vars == <<runVars, taskVars>>

ASSUME TaskAssumption ==
    /\ Risk \in {"low", "medium", "high"} /\ MaxRev \in Nat
    /\ Roles \subseteq {"native", "provider", "cli"} /\ NoProvider \in Providers /\ CliShaped \subseteq BOOLEAN

-----------------------------------------------------------------------------
(* The tables                                                              *)

\* NON_EVIDENCE_CLAIM_KINDS
NonEvidence == {"docs_intent", "summary_replay", "cli_self_report", "provider_fallback"}

\* CLAIM_KIND_ALLOWED_REF_SOURCES
Allowed ==
    [docs_intent |-> {"docs_intent_reference", "manual_external"},
     summary_replay |-> {"context_replay", "manual_external"},
     cli_self_report |-> {"manual_external"},
     provider_fallback |-> {"provider_route_trace", "manual_external"},
     runtime_evidence |-> {"agent_run_event", "workflow_run_evidence", "self_heal_event",
                           "observability_audit", "manual_external"},
     code_evidence |-> {"workflow_run_evidence", "observability_audit", "manual_external"},
     api_evidence |-> {"agent_run_event", "workflow_run_evidence", "observability_audit",
                       "manual_external"},
     artifact_evidence |-> {"workflow_run_evidence", "observability_audit", "manual_external"}]

\* FRIDAY_TASK_WORKFLOW_ROLLBACK_CLASS_BY_REF_SOURCE
RollbackClass ==
    [agent_run_event |-> "reversible_local", workflow_run_evidence |-> "compensating_action_required",
     provider_route_trace |-> "non_reversible_external", context_replay |-> "not_applicable",
     self_heal_event |-> "reversible_local", channel_event |-> "non_reversible_external",
     session_event |-> "reversible_local", observability_audit |-> "not_applicable",
     manual_external |-> "non_reversible_external", docs_intent_reference |-> "not_applicable"]

-----------------------------------------------------------------------------
NoClaim == [status |-> "none", kind |-> "none", lane |-> NoLane]

NoLaneRow == [status |-> "none", kind |-> "none", role |-> "none", prov |-> NoProvider,
              indep |-> "none", rev |-> 0]

\* An evidence ref; refId is a run exactly for workflow_run_evidence.
Ref == {f \in [source : Sources, run : Runs \cup {"external"}, cli : CliShaped] :
            (f.source = "workflow_run_evidence") <=> (f.run # "external")}

Independence == {"independent", "degraded_unavailable", "degraded_same_provider"}

TypeOK ==
    /\ RunTypeOK
    /\ rev \in 0..MaxRev
    /\ claim \in [Claims -> [status : {"none", "draft", "unverified", "verified", "blocked"},
                             kind : Kinds \cup {"none"}, lane : Lanes \cup {NoLane}]]
    /\ refs \in [Claims -> SUBSET Ref]
    /\ lane \in [Lanes -> [status : {"none", "open", "completed", "blocked"},
                           kind : {"none", "executor", "verifier"}, role : Roles \cup {"none"},
                           prov : Providers, indep : Independence \cup {"none", "not_applicable"},
                           rev : 0..rev]]
    /\ cli \in [Lanes -> {"idle", "first", "repair"}]
    /\ handoffs \subseteq Lanes
    /\ receipt \in [status : {"none", "complete", "partial", "blocked"}, proof : BOOLEAN,
                    rollback : {"none", "not_applicable", "reversible_local",
                                "compensating_action_required", "non_reversible_external"}]

Init ==
    /\ RunInit
    /\ rev = 0
    /\ claim = [c \in Claims |-> NoClaim] /\ refs = [c \in Claims |-> {}]
    /\ lane = [l \in Lanes |-> NoLaneRow]
    /\ cli = [l \in Lanes |-> "idle"] /\ handoffs = {}
    /\ receipt = [status |-> "none", proof |-> FALSE, rollback |-> "none"]

-----------------------------------------------------------------------------
(* Claims                                                                  *)

DraftClaim(c, k) ==
    /\ claim[c] = NoClaim
    /\ claim' = [claim EXCEPT ![c] = [@ EXCEPT !.status = "draft", !.kind = k]]
    /\ UNCHANGED <<runVars, rev, refs, lane, cli, handoffs, receipt>>

\* attachEvidenceRef: evidenceRefCount is the number of refs, as one
\* transaction writes both.
AttachEvidenceRef(c, f) ==
    /\ claim[c].status \notin {"none", "verified"}
    /\ f.source \in Allowed[claim[c].kind]
    /\ claim[c].kind \in NonEvidence \/ ~f.cli
    /\ refs' = [refs EXCEPT ![c] = @ \cup {f}]
    /\ claim' = [claim EXCEPT ![c].status = IF @ = "draft" THEN "unverified" ELSE @]
    /\ UNCHANGED <<runVars, rev, lane, cli, handoffs, receipt>>

RunRefs(c) == {f \in refs[c] : f.source = "workflow_run_evidence"}

\* assertWorkflowRunEvidenceRefsAvailable, assertWorkflowRunCompletionVerified
RunsProven(c) ==
    \A f \in RunRefs(c) : evidence[f.run] = "available" /\ Completion(f.run) = "verified"

LaneMayVerify_AnyRole(l) ==
    IF l = NoLane THEN Risk # "high"
    ELSE /\ lane[l].kind = "verifier" /\ lane[l].status # "blocked"
         /\ Risk = "high" => lane[l].indep = "independent"

\* What verifyClaim asks of verifierLaneId.
LaneMayVerify(l) ==
    IF l = NoLane THEN Risk # "high"
    ELSE /\ lane[l].kind = "verifier" /\ lane[l].role # "cli" /\ lane[l].status # "blocked"
         /\ Risk = "high" => lane[l].indep = "independent"

VerifyClaim(c, l) ==
    /\ claim[c].status \notin {"none", "blocked"}
    /\ claim[c].kind \notin NonEvidence
    /\ refs[c] # {}
    /\ \A f \in refs[c] : f.source \in Allowed[claim[c].kind] /\ ~f.cli
    /\ RunsProven(c) /\ LaneMayVerify(l)
    /\ claim' = [claim EXCEPT ![c] = [@ EXCEPT !.status = "verified", !.lane = l]]
    /\ UNCHANGED <<runVars, rev, refs, lane, cli, handoffs, receipt>>

BlockClaim(c) ==
    /\ claim[c] # NoClaim
    /\ claim' = [claim EXCEPT ![c].status = "blocked"]
    /\ UNCHANGED <<runVars, rev, refs, lane, cli, handoffs, receipt>>

\* revise: a new specification hash; claims and lanes stay as they are.
Revise ==
    /\ rev < MaxRev /\ rev' = rev + 1
    /\ UNCHANGED <<runVars, claim, refs, lane, cli, handoffs, receipt>>

-----------------------------------------------------------------------------
(* Lanes                                                                   *)

OpenExecutorLane(l, r, p) ==
    /\ lane[l] = NoLaneRow
    /\ lane' = [lane EXCEPT ![l] = [status |-> "open", kind |-> "executor", role |-> r, prov |-> p,
                                    indep |-> "not_applicable", rev |-> rev]]
    /\ UNCHANGED <<runVars, rev, claim, refs, cli, handoffs, receipt>>

\* resolveFridayTaskWorkflowVerifierIndependence: a claimed independence is
\* degraded unless role or provider differ from the parent's.
Resolved(r, p, parent, claimed) ==
    IF claimed = "independent" /\ r = parent.role
       /\ ~(p # NoProvider /\ parent.prov # NoProvider /\ p # parent.prov)
    THEN "degraded_same_provider" ELSE claimed

OpenVerifierLane(l, r, p, parent, claimed) ==
    /\ lane[l] = NoLaneRow
    /\ lane[parent].kind = "executor"
    /\ Risk = "high" => Resolved(r, p, lane[parent], claimed) = "independent"
    /\ lane' = [lane EXCEPT ![l] = [status |-> "open", kind |-> "verifier", role |-> r, prov |-> p,
                                    indep |-> Resolved(r, p, lane[parent], claimed), rev |-> rev]]
    /\ UNCHANGED <<runVars, rev, claim, refs, cli, handoffs, receipt>>

CompleteLane(l, s) ==
    /\ lane[l].status = "open"
    /\ lane' = [lane EXCEPT ![l].status = s]
    /\ UNCHANGED <<runVars, rev, claim, refs, cli, handoffs, receipt>>

\* recordCliHandoff up to its await.
CliStart(l) ==
    /\ lane[l].role = "cli" /\ lane[l].status = "open" /\ cli[l] = "idle"
    /\ cli' = [cli EXCEPT ![l] = "first"]
    /\ UNCHANGED <<runVars, rev, claim, refs, lane, handoffs, receipt>>

\* An answer that is too short is asked for once more.
CliRepair(l) ==
    /\ cli[l] = "first"
    /\ cli' = [cli EXCEPT ![l] = "repair"]
    /\ UNCHANGED <<runVars, rev, claim, refs, lane, handoffs, receipt>>

\* The adapter is through (an answer, a failure or its timeout): the hand-off
\* is inserted, whatever became of the lane.
CliRecorded(l) ==
    /\ cli[l] # "idle"
    /\ cli' = [cli EXCEPT ![l] = "idle"]
    /\ handoffs' = handoffs \cup {l}
    /\ UNCHANGED <<runVars, rev, claim, refs, lane, receipt>>

-----------------------------------------------------------------------------
(* Closeout                                                                *)

With(s) == {c \in Claims : claim[c].status = s}

ClaimEvidenceRequired == \A c \in With("verified") : refs[c] # {}

DocsIntentNotProof ==
    \A c \in With("verified") : \A f \in refs[c] :
        f.source = "docs_intent_reference" => f.source \in Allowed[claim[c].kind]

\* summary_replay_unconfirmed, cli_self_report_unconfirmed, provider_fallback_not_audit
KindsUnconfirmed ==
    \A c \in With("verified") :
        claim[c].kind \notin {"summary_replay", "cli_self_report", "provider_fallback"}

ExecutorLaneContextBound ==
    \A l \in Lanes : lane[l].kind = "executor" => lane[l].rev = rev

WorkflowRunEvidenceDurable ==
    \A c \in With("verified") : \A f \in RunRefs(c) : evidence[f.run] = "available"

\* Only in the plan, and only blocking, when the risk is high.
IndependentVerifierRequired ==
    Risk = "high" =>
        \A c \in With("verified") :
            /\ claim[c].lane # NoLane
            /\ lane[claim[c].lane].kind = "verifier"
            /\ lane[claim[c].lane].indep = "independent"

\* The worst rollback class of the refs of verified and blocked claims.
Rollback ==
    LET classes == {RollbackClass[f.source] : f \in UNION {refs[c] : c \in With("verified") \cup With("blocked")}}
    IN  IF "non_reversible_external" \in classes THEN "non_reversible_external"
        ELSE IF "compensating_action_required" \in classes THEN "compensating_action_required"
        ELSE IF "reversible_local" \in classes THEN "reversible_local" ELSE "not_applicable"

\* The other required gates hold by what create, revise and verifyClaim write:
\* a verdict, a context package, and the disclosure that goes with Rollback.
RequiredGates ==
    /\ ClaimEvidenceRequired /\ DocsIntentNotProof /\ KindsUnconfirmed
    /\ ExecutorLaneContextBound /\ WorkflowRunEvidenceDurable

CloseoutStatus_IgnoresBlocked ==
    IF ~(RequiredGates /\ IndependentVerifierRequired) THEN "blocked"
    ELSE IF With("draft") \cup With("unverified") = {} THEN "complete" ELSE "partial"

CloseoutStatus ==
    IF With("blocked") # {} \/ ~(RequiredGates /\ IndependentVerifierRequired) THEN "blocked"
    ELSE IF With("draft") \cup With("unverified") = {} THEN "complete" ELSE "partial"

\* evidenceDurability is "available" exactly when WorkflowRunEvidenceDurable.
Closeout ==
    /\ receipt' = [status |-> CloseoutStatus,
                   proof |-> RequiredGates /\ With("blocked") = {},
                   rollback |-> Rollback]
    /\ UNCHANGED <<runVars, rev, claim, refs, lane, cli, handoffs>>

\* The runs go on beside the workflow; a restart ends the calls in flight.
RunStep ==
    /\ RunNext
    /\ cli' = IF restarts' # restarts THEN [l \in Lanes |-> "idle"] ELSE cli
    /\ UNCHANGED <<rev, claim, refs, lane, handoffs, receipt>>

Next ==
    \/ Revise \/ Closeout \/ RunStep
    \/ \E c \in Claims :
         \/ \E k \in Kinds : DraftClaim(c, k)
         \/ \E f \in Ref : AttachEvidenceRef(c, f)
         \/ \E l \in Lanes \cup {NoLane} : VerifyClaim(c, l)
         \/ BlockClaim(c)
    \/ \E l \in Lanes :
         \/ \E r \in Roles, p \in Providers : OpenExecutorLane(l, r, p)
         \/ \E r \in Roles, p \in Providers, q \in Lanes, i \in Independence :
              OpenVerifierLane(l, r, p, q, i)
         \/ \E s \in {"completed", "blocked"} : CompleteLane(l, s)
         \/ CliStart(l) \/ CliRepair(l) \/ CliRecorded(l)

Spec == Init /\ [][Next]_vars

-----------------------------------------------------------------------------
(* Properties; the ones about Closeout are about its steps               *)

\* A verified claim that rests on a workflow run rests on one that completed,
\* all of whose nodes had been verified by then, and it does so from then on:
\* nothing is attached behind the verdict, no retry takes the run up again. A
\* label that a restart forgot is the exception.
VerifiedRunsHold ==
    \A c \in With("verified") : \A f \in RunRefs(c) :
        run[f.run] = "completed" /\ (forgotten[f.run] \/ reported[f.run] \subseteq {"verified"})

\* "closes the mid-flight time-of-check race": what a verdict rests on still
\* reads as verified. A node that timed out may report after the verdict.
VerdictStands ==
    \A c \in With("verified") : \A f \in RunRefs(c) : Completion(f.run) = "verified"

\* In a high-risk workflow every verdict came from a verifier lane that differs
\* from the executor in role or provider, and never from a CLI lane.
HighRiskIndependent ==
    Risk = "high" => \A c \in With("verified") :
        /\ claim[c].lane # NoLane
        /\ lane[claim[c].lane].role # "cli" /\ lane[claim[c].lane].indep = "independent"

\* A complete receipt: every claim is verified on evidence of its kind, every
\* executor lane worked on the current specification, and the evidence of every
\* run is still there, not only when the claim was verified.
CompleteIsEarned ==
    Closeout /\ receipt'.status = "complete" =>
         /\ \A c \in Claims : claim[c] # NoClaim =>
              /\ claim[c].status = "verified" /\ claim[c].kind \notin NonEvidence
              /\ \E f \in refs[c] : f.source \in Allowed[claim[c].kind]
              /\ \A f \in RunRefs(c) : evidence[f.run] = "available"
         /\ \A l \in Lanes : lane[l].kind = "executor" => lane[l].rev = rev

\* A receipt that may be called proof names no run that lost evidence.
ProofIsWhole ==
    Closeout /\ receipt'.proof =>
         \A c \in With("verified") : \A f \in RunRefs(c) : ~lost[f.run]

\* The verdicts of a complete receipt came from lanes of the current
\* specification. Closeout only looks at executor lanes; it holds because a
\* verifier lane has an executor lane that is at least as old.
NoVerdictDrift ==
    Closeout /\ receipt'.status = "complete" =>
         \A c \in With("verified") : claim[c].lane # NoLane => lane[claim[c].lane].rev = rev

\* A revision opens a blocked claim again.
RevisionUnblocks ==
    [][rev' # rev => \A c \in Claims : claim'[c].status # "blocked"]_vars

\* A hand-off is recorded for a lane that is still open.
HandoffOnOpenLane ==
    [][\A l \in handoffs' \ handoffs : lane[l].status = "open"]_vars
=============================================================================

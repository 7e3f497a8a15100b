---------------------------- MODULE WorkflowRun ----------------------------
(***************************************************************************)
(* One workflow run: the engine that drives it (workflow_exec.rs), the     *)
(* rows it keeps (friday-storage/src/workflow.rs), the run-control calls   *)
(* that resume, retry and cancel it (workflow_run_control.rs), the sweep   *)
(* that fails it after a crash (crash_recovery.rs), and the gate with its  *)
(* single-use approvals (gate_dispatch, storage/authorize.rs).             *)
(*                                                                         *)
(* No call holds a transaction: every statement is a step of its own, also *)
(* the read and the write of set_run_state, complete_step and              *)
(* reopen_failed_step.  A call is synchronous; Calls has one element per   *)
(* call that may be in progress at the same time.                          *)
(***************************************************************************)
EXTENDS Integers, FiniteSets, FiniteSetsExt

CONSTANTS
    Calls,         \* the calls that may be in progress together
    Len,           \* the number of steps of the definition
    Definitions,   \* the definitions a run may be started with
    Copies,        \* how many approvals the owner signs for one step's action
    MaxCalls       \* bound: how many calls are made

Seqs == 0..(Len - 1)
Approvals == Seqs \X (1..Copies)     \* (the step whose digest is signed, approval_id)
NoApproval == <<-1, 0>>              \* not one of Approvals

(* What plan_step and the base decision of the gate say of a step's action. *)
StepKinds ==
    [auto : BOOLEAN,       \* StepDisposition::AutoAdvance
     evidence : BOOLEAN,   \* evidence_required
     base : {"allow", "approval", "deny", "unregistered"}]

ASSUME LenAssumption == Len \in Nat \ {0}
ASSUME CopiesAssumption == Copies \in Nat /\ MaxCalls \in Nat
\* plan_step: a mutating, high-risk or unclassifiable action is a checkpoint
ASSUME DefinitionsAssumption ==
    /\ Definitions \subseteq [Seqs -> StepKinds]
    /\ \A f \in Definitions : \A s \in Seqs : f[s].auto => f[s].base \in {"allow", "deny"}

NoRun == "absent"
InFlight == {"pending", "running"}
TerminalRun == {"done", "failed", "cancelled"}
RunStates == InFlight \cup TerminalRun \cup {"awaiting_checkpoint", NoRun}

(* WorkflowRunState::can_transition_to *)
CanTransition(from, to) ==
    \/ from = "pending" /\ to \in {"running", "failed", "cancelled"}
    \/ from = "running" /\ to \in {"awaiting_checkpoint", "done", "failed", "cancelled"}
    \/ from = "awaiting_checkpoint" /\ to \in {"running", "failed", "cancelled"}
    \/ from = "failed" /\ to = "running"

NoStep == "absent"
StepStates == {"pending", "running", "proof_pending", "verified", NoStep}

VARIABLES
    def,      \* the stored definition the run was started with
    run,      \* workflow_run.state
    step,     \* workflow_step: status, has_side_effect, attempt
    ledger,   \* workflow_step_effect: the steps whose effect is committed
    spent,    \* consumed_approval
    call,     \* each call's program counter and locals
    made,     \* how many calls were made
    execs,    \* history: how often the executor carried out each step
    uses      \* history: how often each approval let the executor run

db == <<run, step, ledger, spent>>
vars == <<def, db, call, made, execs, uses>>

Pcs == {"idle", "find_paused", "find_frontier", "reopen", "reopening", "move", "views",
        "write", "loop", "dispatch", "gate", "execute", "record", "complete", "completing"}

(* to, then: the target of set_run_state and where the call goes on; ok: did *)
(* the executor answer; by: the approval that allowed the execution.         *)
Rest == [pc |-> "idle", seq |-> 0, to |-> NoRun, then |-> "idle", ok |-> FALSE, by |-> NoApproval]

SetCall(c, l) == call' = [call EXCEPT ![c] = l]
Goto(c, pc) == SetCall(c, [call[c] EXCEPT !.pc = pc])
MoveTo(c, to, then) == SetCall(c, [call[c] EXCEPT !.pc = "move", !.to = to, !.then = then])
Return(c) == SetCall(c, Rest)
Begin(c) == call[c].pc = "idle" /\ made < MaxCalls /\ made' = made + 1

Init ==
    /\ def \in Definitions
    /\ run = NoRun
    /\ step = [s \in Seqs |-> [st |-> NoStep, effect |-> FALSE, attempt |-> 0]]
    /\ ledger = {} /\ spent = {}
    /\ call = [c \in Calls |-> Rest] /\ made = 0
    /\ execs = [s \in Seqs |-> 0] /\ uses = [a \in Approvals |-> 0]

-----------------------------------------------------------------------------
(***************************************************************************)
(* The calls.                                                              *)
(***************************************************************************)
(* run_workflow: create_run, whose primary key refuses a second run; then   *)
(* set_run_state(Running) and the loop from step 0.                         *)
RunWorkflow(c) ==
    /\ Begin(c) /\ run = NoRun
    /\ run' = "pending"
    /\ MoveTo(c, "running", "loop")
    /\ UNCHANGED <<def, step, ledger, spent, execs, uses>>

ResumeWorkflow(c) ==
    /\ Begin(c) /\ run = "awaiting_checkpoint"
    /\ Goto(c, "find_paused")
    /\ UNCHANGED <<def, db, execs, uses>>

RetryWorkflow(c) ==
    /\ Begin(c) /\ run = "failed"
    /\ Goto(c, "find_frontier")
    /\ UNCHANGED <<def, db, execs, uses>>

(* cancel, then cancel_run, which checks the state again as set_run_state.  *)
Cancel(c) ==
    /\ Begin(c) /\ run \notin TerminalRun \cup {NoRun}
    /\ MoveTo(c, "cancelled", "idle")
    /\ UNCHANGED <<def, db, execs, uses>>

(* reconcile_scheduled_runs_before: the run is listed while in flight.      *)
Sweep(c) ==
    /\ Begin(c) /\ run \in InFlight
    /\ MoveTo(c, "failed", "idle")
    /\ UNCHANGED <<def, db, execs, uses>>

(* The first step, in order, that a search stops at: every step before it   *)
(* is registered.                                                           *)
FirstStep(P(_)) ==
    {s \in Seqs : P(s) /\ step[s].st # NoStep /\ \A t \in 0..(s - 1) : step[t].st # NoStep /\ ~P(t)}

PausedSeq == LET Pending(s) == step[s].st = "pending" IN FirstStep(Pending)

FindPausedSeq(c) ==
    /\ call[c].pc = "find_paused"
    /\ IF PausedSeq = {} THEN Return(c)
       ELSE \E s \in PausedSeq :
              SetCall(c, [call[c] EXCEPT !.pc = "move", !.seq = s, !.to = "running", !.then = "dispatch"])
    /\ UNCHANGED <<def, db, made, execs, uses>>

FrontierSeq == LET Unverified(s) == step[s].st # "verified" IN FirstStep(Unverified)

FindRetryFrontierSeq(c) ==
    /\ call[c].pc = "find_frontier"
    /\ IF FrontierSeq = {} THEN Return(c)
       ELSE \E s \in FrontierSeq : SetCall(c, [call[c] EXCEPT !.pc = "reopen", !.seq = s])
    /\ UNCHANGED <<def, db, made, execs, uses>>

(* reopen_failed_step: the check and the write. *)
CheckReopen(c) ==
    /\ call[c].pc = "reopen"
    /\ IF step[call[c].seq].st = "verified" THEN Return(c) ELSE Goto(c, "reopening")
    /\ UNCHANGED <<def, db, made, execs, uses>>

ReopenFailedStep_AttemptOnly(c) ==
    /\ call[c].pc = "reopening"
    /\ step' = [step EXCEPT ![call[c].seq].attempt = @ + 1]
    /\ MoveTo(c, "running", "dispatch")
    /\ UNCHANGED <<def, run, ledger, spent, made, execs, uses>>

ReopenFailedStep(c) ==
    /\ call[c].pc = "reopening"
    /\ step' = [step EXCEPT ![call[c].seq].st = "pending", ![call[c].seq].attempt = @ + 1]
    /\ MoveTo(c, "running", "dispatch")
    /\ UNCHANGED <<def, run, ledger, spent, made, execs, uses>>

-----------------------------------------------------------------------------
(***************************************************************************)
(* set_run_state: the state is read and checked, for Done the steps are    *)
(* read and checked, then the row is written.                              *)
(***************************************************************************)
CheckTransition(c) ==
    /\ call[c].pc = "move"
    /\ IF CanTransition(run, call[c].to)
       THEN Goto(c, IF call[c].to = "done" THEN "views" ELSE "write")
       ELSE Return(c)
    /\ UNCHANGED <<def, db, made, execs, uses>>

RunIsComplete == \A s \in Seqs : step[s].effect => step[s].st = "verified"

CheckComplete(c) ==
    /\ call[c].pc = "views"
    /\ IF RunIsComplete THEN Goto(c, "write") ELSE Return(c)
    /\ UNCHANGED <<def, db, made, execs, uses>>

WriteRunState(c) ==
    /\ call[c].pc = "write"
    /\ run' = call[c].to
    /\ IF call[c].then = "idle" THEN Return(c) ELSE Goto(c, call[c].then)
    /\ UNCHANGED <<def, step, ledger, spent, made, execs, uses>>

-----------------------------------------------------------------------------
(***************************************************************************)
(* advance_from: the loop over the steps.                                  *)
(***************************************************************************)
FinishLoop_OneEarly(c) ==
    /\ call[c].pc = "loop" /\ call[c].seq >= Len - 1
    /\ MoveTo(c, "done", "idle")
    /\ UNCHANGED <<def, db, made, execs, uses>>

FinishLoop(c) ==
    /\ call[c].pc = "loop" /\ call[c].seq = Len
    /\ MoveTo(c, "done", "idle")
    /\ UNCHANGED <<def, db, made, execs, uses>>

RegisterStep_AsPlanned(c) ==
    LET s == call[c].seq IN
    /\ call[c].pc = "loop" /\ s \in Seqs /\ step[s].st = NoStep
    /\ step' = [step EXCEPT ![s] = [st |-> "planned", effect |-> def[s].evidence \/ ~def[s].auto,
                                    attempt |-> 1]]
    /\ IF def[s].auto THEN Goto(c, "dispatch") ELSE MoveTo(c, "awaiting_checkpoint", "idle")
    /\ UNCHANGED <<def, run, ledger, spent, made, execs, uses>>

(* add_step: a checkpoint is registered and pauses the run; any other step   *)
(* is dispatched.                                                            *)
RegisterStep(c) ==
    LET s == call[c].seq IN
    /\ call[c].pc = "loop" /\ s \in Seqs /\ step[s].st = NoStep
    /\ step' = [step EXCEPT ![s] = [st |-> "pending", effect |-> def[s].evidence \/ ~def[s].auto,
                                    attempt |-> 1]]
    /\ IF def[s].auto THEN Goto(c, "dispatch") ELSE MoveTo(c, "awaiting_checkpoint", "idle")
    /\ UNCHANGED <<def, run, ledger, spent, made, execs, uses>>

(* The step's primary key refuses a second registration: an error.           *)
StepExists(c) ==
    /\ call[c].pc = "loop" /\ call[c].seq \in Seqs /\ step[call[c].seq].st # NoStep
    /\ Return(c)
    /\ UNCHANGED <<def, db, made, execs, uses>>

(* dispatch_step_idempotent: the receipt of a committed effect is replayed,  *)
(* the gate and the executor are not asked.                                  *)
CommittedEffect_PerAttempt(s) == step[s].effect /\ s \in ledger /\ step[s].attempt = 1
CommittedEffect(s) == step[s].effect /\ s \in ledger

LookUpEffect(c) ==
    /\ call[c].pc = "dispatch"
    /\ SetCall(c, IF CommittedEffect(call[c].seq)
                  THEN [call[c] EXCEPT !.pc = "complete", !.ok = TRUE]
                  ELSE [call[c] EXCEPT !.pc = "gate"])
    /\ UNCHANGED <<def, db, made, execs, uses>>

(* gate_dispatch, by the base decision for the step's action. *)
Allow(c) ==
    /\ call[c].pc = "gate" /\ def[call[c].seq].base = "allow"
    /\ Goto(c, "execute")
    /\ UNCHANGED <<def, db, made, execs, uses>>

(* Denied by a flag or the gate, or not a registered tool.                   *)
Deny(c) ==
    /\ call[c].pc = "gate" /\ def[call[c].seq].base \in {"deny", "unregistered"}
    /\ MoveTo(c, "failed", "idle")
    /\ UNCHANGED <<def, db, made, execs, uses>>

RequiresApproval(c) ==
    /\ call[c].pc = "gate" /\ def[call[c].seq].base = "approval"
    /\ MoveTo(c, "awaiting_checkpoint", "idle")
    /\ UNCHANGED <<def, db, made, execs, uses>>

(* authorize_mutating_action: the approval presented is for another action,  *)
(* a denial, badly signed, expired, or spent already.                        *)
RefuseApproval(c) ==
    /\ call[c].pc = "gate" /\ def[call[c].seq].base = "approval"
    /\ MoveTo(c, "failed", "idle")
    /\ UNCHANGED <<def, db, made, execs, uses>>

SpendApproval_Ignores(c, a) ==
    /\ call[c].pc = "gate" /\ def[call[c].seq].base = "approval"
    /\ a[1] = call[c].seq
    /\ spent' = spent \cup {a}
    /\ SetCall(c, [call[c] EXCEPT !.pc = "execute", !.by = a])
    /\ UNCHANGED <<def, run, step, ledger, made, execs, uses>>

(* A valid approval for this action: the insert into consumed_approval is    *)
(* the grant.                                                                *)
SpendApproval(c, a) ==
    /\ call[c].pc = "gate" /\ def[call[c].seq].base = "approval"
    /\ a[1] = call[c].seq /\ a \notin spent
    /\ spent' = spent \cup {a}
    /\ SetCall(c, [call[c] EXCEPT !.pc = "execute", !.by = a])
    /\ UNCHANGED <<def, run, step, ledger, made, execs, uses>>

(* The executor is called once; it carries the action out, or it fails.      *)
Execute(c) ==
    LET s == call[c].seq IN
    /\ call[c].pc = "execute"
    /\ execs' = [execs EXCEPT ![s] = @ + 1]
    /\ uses' = IF call[c].by \in Approvals THEN [uses EXCEPT ![call[c].by] = @ + 1] ELSE uses
    /\ SetCall(c, [call[c] EXCEPT !.pc = IF step[s].effect THEN "record" ELSE "complete",
                                  !.ok = TRUE, !.by = NoApproval])
    /\ UNCHANGED <<def, db, made>>

ExecError(c) ==
    /\ call[c].pc = "execute"
    /\ SetCall(c, [call[c] EXCEPT !.pc = "complete", !.ok = FALSE, !.by = NoApproval])
    /\ UNCHANGED <<def, db, made, execs, uses>>

RecordCommittedEffect(c) ==
    /\ call[c].pc = "record"
    /\ ledger' = ledger \cup {call[c].seq}
    /\ Goto(c, "complete")
    /\ UNCHANGED <<def, run, step, spent, made, execs, uses>>

(* complete_step: a terminal step is refused; then the write.                *)
CheckStep(c) ==
    /\ call[c].pc = "complete"
    /\ IF step[call[c].seq].st = "verified" THEN Return(c) ELSE Goto(c, "completing")
    /\ UNCHANGED <<def, db, made, execs, uses>>

(* resolve_step_completion, with the receipt as evidence or with neither a   *)
(* receipt nor a claim.                                                      *)
Completion_EffectTrusted(effect, ok) == IF effect \/ ok THEN "verified" ELSE "running"
Completion(effect, ok) ==
    IF ok THEN "verified" ELSE IF effect THEN "proof_pending" ELSE "running"

CompleteStep_GoesOn(c) ==
    LET s == call[c].seq IN
    /\ call[c].pc = "completing"
    /\ step' = [step EXCEPT ![s].st = Completion(step[s].effect, call[c].ok)]
    /\ SetCall(c, [call[c] EXCEPT !.pc = "loop", !.seq = s + 1, !.ok = FALSE])
    /\ UNCHANGED <<def, run, ledger, spent, made, execs, uses>>

CompleteStep(c) ==
    LET s == call[c].seq IN
    /\ call[c].pc = "completing"
    /\ step' = [step EXCEPT ![s].st = Completion(step[s].effect, call[c].ok)]
    /\ IF call[c].ok
       THEN SetCall(c, [call[c] EXCEPT !.pc = "loop", !.seq = s + 1, !.ok = FALSE])
       ELSE MoveTo(c, "failed", "idle")
    /\ UNCHANGED <<def, run, ledger, spent, made, execs, uses>>

(* A crash, or a statement that fails, ends the call where it is.            *)
Stop(c) ==
    /\ call[c].pc # "idle"
    /\ Return(c)
    /\ UNCHANGED <<def, db, made, execs, uses>>

-----------------------------------------------------------------------------
Engine(c) ==
    \/ FindPausedSeq(c) \/ FindRetryFrontierSeq(c) \/ CheckReopen(c) \/ ReopenFailedStep(c)
    \/ CheckTransition(c) \/ CheckComplete(c) \/ WriteRunState(c)
    \/ FinishLoop(c) \/ RegisterStep(c) \/ StepExists(c) \/ LookUpEffect(c)
    \/ Allow(c) \/ Deny(c) \/ RequiresApproval(c) \/ RefuseApproval(c)
    \/ \E a \in Approvals : SpendApproval(c, a)
    \/ Execute(c) \/ ExecError(c) \/ RecordCommittedEffect(c) \/ CheckStep(c) \/ CompleteStep(c)

Next ==
    \E c \in Calls :
        \/ RunWorkflow(c) \/ ResumeWorkflow(c) \/ RetryWorkflow(c) \/ Cancel(c) \/ Sweep(c)
        \/ Engine(c) \/ Stop(c)

Spec == Init /\ [][Next]_vars

-----------------------------------------------------------------------------
(***************************************************************************)
(* Properties of every number of concurrent calls.                         *)
(***************************************************************************)
Locals ==
    [pc : Pcs, seq : 0..Len, to : RunStates, then : {"idle", "loop", "dispatch"},
     ok : BOOLEAN, by : Approvals \cup {NoApproval}]

TypeOK ==
    /\ def \in Definitions /\ run \in RunStates
    /\ step \in [Seqs -> [st : StepStates, effect : BOOLEAN, attempt : Nat]]
    /\ ledger \subseteq Seqs /\ spent \subseteq Approvals
    /\ call \in [Calls -> Locals] /\ made \in 0..MaxCalls
    /\ execs \in [Seqs -> Nat] /\ uses \in [Approvals -> Nat]

(* authorize.rs, "double-spend is unrepresentable": however resumes and       *)
(* retries race, crash and repeat, one approval lets the executor run at most *)
(* once.                                                                      *)
ApprovalSingleUse == \A a \in Approvals : uses[a] <= 1

(* workflow.rs, "a model self-claim never marks it verified": a step is       *)
(* verified only after the executor carried it out, also when the receipt is  *)
(* replayed from the ledger by a later call.                                  *)
VerifiedWasExecuted == \A s \in Seqs : step[s].st = "verified" => execs[s] >= 1

(***************************************************************************)
(* Properties of a run that is driven by one call at a time.               *)
(***************************************************************************)
(* The engine fails fast: the registered steps are a prefix of the            *)
(* definition and all but the last of them are verified, after any sequence   *)
(* of pauses, crashes, sweeps, resumes and retries.  find_paused_seq and      *)
(* find_retry_frontier_seq rely on it.                                        *)
VerifiedPrefix ==
    \A s, t \in Seqs : (t < s /\ step[s].st # NoStep) => step[t].st = "verified"

(* run_is_complete guards only the side-effect steps; the engine must see to  *)
(* the rest: a done run has carried out every step of its definition.         *)
DoneIsComplete == run = "done" => \A s \in Seqs : step[s].st = "verified"

(* A paused run can be resumed: the search finds the one step that waits.     *)
PausedIsResumable ==
    run = "awaiting_checkpoint" =>
        \E s \in PausedSeq : \A t \in Seqs : step[t].st \in {"verified", NoStep} \/ t = s

(* dispatch_step_idempotent: an effect that was committed is not carried out  *)
(* again, also when the call crashed before the step was marked verified.     *)
CommittedNotReExecuted ==
    [][\A s \in ledger : execs'[s] = execs[s]]_vars

-----------------------------------------------------------------------------
(* A statement of the repository's comments that the code does not keep.      *)
(* crash_recovery.rs: set_run_state re-reads the state, so a row that a       *)
(* racing tick "just drove terminal (Done/Failed/Cancelled) is refused here   *)
(* and counted `skipped` - never a double-write or an illegal hop": a done    *)
(* run does not become failed.                                                *)
SweepSparesDone == [][run = "done" => run' # "failed"]_vars
=============================================================================

----------------------------- MODULE GraphRun -----------------------------
(***************************************************************************)
(* One run of the hub's workflow graph engine: the run row, the attempt    *)
(* rows of its nodes, the execution loop that schedules ready nodes in     *)
(* batches, and the callers that change the same rows meanwhile: run       *)
(* control, approvers, satellites that report results, the timeout sweeps. *)
(*                                                                         *)
(* The hub is one JavaScript thread: an action runs from one await that    *)
(* can last (an executor, a back-off timer, an idle loop) to the next.     *)
(* While the loop is between two of them it is Busy and no other caller    *)
(* runs.  Rows survive a crash, everything else does not.                  *)
(***************************************************************************)
EXTENDS Integers, FiniteSets, SequencesExt

CONSTANTS
  Nodes,        \* the nodes of the compiled graph
  Edges,        \* its edges, pairs of nodes
  When,         \* the condition of an edge: "always", "completed", "failed"
  Type,         \* "local", "approval", "remote" (executionTarget is a satellite)
  Policies,     \* failure policies the run may have been compiled with
  Fallback,     \* fallbackStepId of the policy fallback_step
  MaxAttempts,  \* retryPolicy.maxAttempts of every node
  Requests,     \* the requests callers make, a subset of AllRequests
  MaxOps, MaxFails, MaxBlocks, MaxCrashes   \* bounds of the model

AllRequests == {"pause", "cancel", "resume", "retry", "approve", "reject",
                "reap", "sweepRuns", "sweepNodes"}
AllPolicies == {"fail_fast", "continue_on_error", "pause_for_approval",
                "fallback_step", "compensate"}

ASSUME GraphAssumption ==
  /\ IsFiniteSet(Nodes) /\ Edges \subseteq Nodes \X Nodes
  /\ When \in [Edges -> {"always", "completed", "failed"}]
  /\ Type \in [Nodes -> {"local", "approval", "remote"}]
  /\ Policies \subseteq AllPolicies /\ Fallback \in Nodes

ASSUME BoundsAssumption ==
  /\ MaxAttempts \in Nat \ {0} /\ Requests \subseteq AllRequests
  /\ MaxOps \in Nat /\ MaxFails \in Nat /\ MaxBlocks \in Nat /\ MaxCrashes \in Nat

VARIABLES
  run,      \* workflow_runs.status
  att,      \* workflow_run_nodes: the attempts of each node, in order
  policy,   \* the run's failure policy
  loop,     \* the execution loop: pc, and who started it
  pending,  \* the run is in pendingExecutions
  st,       \* nodeStatuses, the loop's own copy of the latest statuses
  exec,     \* the batch: for each node of it the attempt and how far it is
  reports,  \* results of satellites that are written and not yet scheduled
  ops, fails, blocks, crashes,   \* how many requests, failures, ... so far
  conflict, \* history: a request ended in a uniqueness error of the database
  bypassed  \* history: nodes started behind an approval that was rejected

vars == <<run, att, policy, loop, pending, st, exec, reports, ops, fails,
          blocks, crashes, conflict, bypassed>>
counters == <<ops, fails, blocks, crashes>>
history == <<conflict, bypassed>>

RunStatus == {"queued", "running", "pausing", "paused", "compensating",
              "completed", "failed", "cancelled"}
Terminal == {"completed", "failed", "cancelled"}
Pending == {"queued", "running", "retrying", "blocked_offline"}
NodeStatus == Terminal \cup Pending

\* req: the approval request of an approval node's attempt
Attempt == [status : NodeStatus, retryable : BOOLEAN,
            req : {"none", "pending", "approved", "rejected"}]
NewAttempt(s) == [status |-> s, retryable |-> FALSE, req |-> "none"]

\* outcome: NodeExecutionOutcome.status
ExecRecord == [phase : {"none", "running", "sleeping", "ended"}, idx : Nat,
               outcome : {"none", "completed", "failed", "retrying", "paused",
                          "dispatched", "blocked"}]
NoExec == [phase |-> "none", idx |-> 0, outcome |-> "none"]

TypeOK ==
  /\ run \in RunStatus /\ policy \in Policies
  /\ att \in [Nodes -> Seq(Attempt)]
  /\ loop \in [pc : {"idle", "begin", "top", "batch", "apply", "end"},
               owner : {"control", "report"}]
  /\ pending \in BOOLEAN /\ conflict \in BOOLEAN
  /\ st \in [Nodes -> NodeStatus \cup {"none"}]
  /\ exec \in [Nodes -> ExecRecord]
  /\ reports \subseteq Nodes /\ bypassed \subseteq Nodes
  /\ ops \in 0..MaxOps /\ fails \in 0..MaxFails
  /\ blocks \in 0..MaxBlocks /\ crashes \in 0..MaxCrashes

---------------------------------------------------------------------------
(* The graph scheduler and the status machine *)

Preds(n) == {p \in Nodes : <<p, n>> \in Edges}

\* an edge condition that cannot be evaluated to true disables the edge
Enabled(s, p, n) ==
  \/ When[<<p, n>>] = "always"
  \/ When[<<p, n>>] = s[p]

\* every predecessor of n is over
Settled(s, n) == \A p \in Preds(n) : s[p] \in Terminal
\* to retry, or reached from a predecessor now that all of them are over
ReadyNodes(s) == {n \in Nodes :
  \/ s[n] = "retrying"
  \/ /\ s[n] = "none" /\ Settled(s, n)
     /\ Preds(n) = {} \/ \E p \in Preds(n) : Enabled(s, p, n)}

\* no predecessor leads to n any more
DeadEndedNodes(s) == {n \in Nodes :
  /\ s[n] = "none" /\ Preds(n) # {} /\ Settled(s, n)
  /\ ~\E p \in Preds(n) : Enabled(s, p, n)}

\* VALID_TRANSITIONS to "running" and to "cancelled"
CanRun(status) == status \in {"queued", "paused", "failed"}
CanCancel(status) == status \in {"queued", "running", "pausing", "paused", "compensating"}

---------------------------------------------------------------------------
(* Rows *)

Rows == UNION {{n} \X DOMAIN att[n] : n \in Nodes}
Latest(n) == IF att[n] = <<>> THEN "none" ELSE Last(att[n]).status
LatestStatuses == [n \in Nodes |-> Latest(n)]

\* updateNodeAttempt: whatever the row holds, its status becomes s
SetStatus(rows, n, i, s) == [rows EXCEPT ![n][i].status = s]
Fail(rows, n, i, retryable) ==
  [rows EXCEPT ![n][i].status = "failed", ![n][i].retryable = retryable]

\* attempts that are over stay as they are
CancelAllPending(rows) == [n \in Nodes |-> [i \in DOMAIN rows[n] |->
  IF rows[n][i].status \in Pending
  THEN [rows[n][i] EXCEPT !.status = "cancelled"] ELSE rows[n][i]]]

\* a finalize that overwrites a terminal status
FinalizeRun_Last(status) == status

\* the first terminal status stays
FinalizeRun(status) == IF run \in Terminal THEN run ELSE status

\* a retry row that is left behind
AppendOrReuse_Appends(n) == Append(att[n], NewAttempt("queued"))

\* acquireLease of an attempt that has just been queued, or is retrying
AppendOrReuse(n) ==
  IF st[n] = "retrying" /\ Latest(n) = "retrying" THEN att[n]
  ELSE Append(att[n], NewAttempt("queued"))

---------------------------------------------------------------------------
(* The execution loop *)

Busy == loop.pc \in {"begin", "top", "apply", "end"}

\* a wake-up while the loop is active is kept for its next turn
ScheduleRunExecution(owner) ==
  IF loop.pc # "idle"
  THEN pending' = TRUE /\ UNCHANGED loop
  ELSE /\ loop' = [pc |-> "begin", owner |-> owner]
       /\ UNCHANGED pending

\* executeRun up to its loop.  An invalid transition throws: the caller that
\* started the loop marks the run failed, a satellite's report only answers
\* with the error.
BeginRun ==
  /\ loop.pc = "begin"
  /\ IF run = "running" \/ CanRun(run)
     THEN /\ run' = "running"
          /\ st' = LatestStatuses
          /\ loop' = [loop EXCEPT !.pc = "top"]
          /\ pending' = FALSE
     ELSE /\ run' = IF loop.owner = "control" THEN FinalizeRun("failed") ELSE run
          /\ loop' = [loop EXCEPT !.pc = "idle"]
          /\ pending' = FALSE
          /\ UNCHANGED st
  /\ UNCHANGED <<att, policy, exec, reports, counters, history>>

\* finalizeRunStatus
FinalStatus ==
  LET in(S) == \E n \in Nodes : Latest(n) \in S IN
  IF run # "running" \/ in({"running", "queued", "retrying"}) THEN run
  ELSE IF in({"blocked_offline"}) THEN "paused"
  ELSE IF in({"failed"}) THEN "failed" ELSE "completed"

\* cancelDeadEndedNodes
CancelDeadEnded(dead) ==
  /\ st' = [n \in Nodes |-> IF n \notin dead THEN st[n]
                            ELSE IF att[n] # <<>> THEN Latest(n) ELSE "cancelled"]
  /\ att' = [n \in Nodes |-> IF n \in dead /\ att[n] = <<>>
                             THEN <<NewAttempt("cancelled")>> ELSE att[n]]

\* Nothing is left to schedule, or the run was stopped from outside.
ExitLoop ==
  /\ loop.pc = "top"
  /\ \/ run \in {"cancelled", "paused", "pausing"}
     \/ ReadyNodes(st) = {} /\ DeadEndedNodes(st) = {}
  /\ run' = FinalStatus
  /\ loop' = [loop EXCEPT !.pc = "end"]
  /\ UNCHANGED <<att, policy, pending, st, exec, reports, counters, history>>

SkipDeadEnded ==
  /\ loop.pc = "top" /\ run \notin {"cancelled", "paused", "pausing"}
  /\ ReadyNodes(st) = {} /\ DeadEndedNodes(st) # {}
  /\ CancelDeadEnded(DeadEndedNodes(st))
  /\ UNCHANGED <<run, policy, loop, pending, exec, reports, counters, history>>

\* prepareNodeAttempts and the first part of executeSingleNode of a node:
\* the attempt of an approval node blocks and its request is filed, a remote
\* one is queued for its satellite or blocks, a local one is leased and starts.
Started(n, offline) ==
  LET rows == AppendOrReuse(n)
      i == Len(rows)
      status == CASE Type[n] = "approval" -> "blocked_offline"
                  [] Type[n] = "remote" /\ n \in offline -> "blocked_offline"
                  [] OTHER -> "running"
  IN [rows EXCEPT ![i].status = status,
                  ![i].req = IF Type[n] = "approval" THEN "pending" ELSE "none"]

StartedExec(n, offline) ==
  [idx |-> Len(AppendOrReuse(n)),
   phase |-> IF Type[n] = "local" THEN "running" ELSE "ended",
   outcome |-> CASE Type[n] = "approval" -> "paused"
                 [] Type[n] = "remote" /\ n \in offline -> "blocked"
                 [] Type[n] = "remote" -> "dispatched"
                 [] OTHER -> "none"]

BehindRejected(n) == \E p \in Preds(n) : Type[p] = "approval" /\ att[p] # <<>>
                                          /\ Last(att[p]).req = "rejected"

\* offline: the remote nodes whose satellite cannot be given work now
LaunchBatch(offline) ==
  /\ loop.pc = "top" /\ run \notin {"cancelled", "paused", "pausing"}
  /\ LET ready == ReadyNodes(st)
         dead == DeadEndedNodes(st)
     IN
     /\ ready # {}
     /\ offline \subseteq {n \in ready : Type[n] = "remote"}
     /\ blocks + Cardinality(offline) <= MaxBlocks
     /\ blocks' = blocks + Cardinality(offline)
     /\ st' = [n \in Nodes |-> IF n \notin dead THEN st[n]
                               ELSE IF att[n] # <<>> THEN Latest(n) ELSE "cancelled"]
     /\ att' = [n \in Nodes |->
          IF n \in ready THEN Started(n, offline)
          ELSE IF n \in dead /\ att[n] = <<>> THEN <<NewAttempt("cancelled")>>
          ELSE att[n]]
     /\ exec' = [n \in Nodes |-> IF n \in ready THEN StartedExec(n, offline) ELSE NoExec]
     /\ run' = IF \E n \in ready : Type[n] = "approval" THEN "paused" ELSE run
     /\ loop' = [loop EXCEPT !.pc =
          IF \E n \in ready : Type[n] = "local" THEN "batch" ELSE "apply"]
     /\ bypassed' = bypassed \cup {n \in ready : BehindRejected(n)}
  /\ UNCHANGED <<policy, pending, reports, ops, fails, crashes, conflict>>

\* persistNodeFailure's decision
ShouldRetry(i, retryable) == retryable /\ i < MaxAttempts

BatchDone(e) == \A n \in Nodes : e[n].phase \in {"none", "ended"}
AfterNode(e) == [loop EXCEPT !.pc = IF BatchDone(e) THEN "apply" ELSE "batch"]

\* The executor of a local node returns: the row is written whatever has
\* happened to it since.
ExecCompletes(n) ==
  /\ loop.pc = "batch" /\ exec[n].phase = "running"
  /\ att' = SetStatus(att, n, exec[n].idx, "completed")
  /\ exec' = [exec EXCEPT ![n].phase = "ended", ![n].outcome = "completed"]
  /\ loop' = AfterNode(exec')
  /\ UNCHANGED <<run, policy, pending, st, reports, counters, history>>

\* It throws or its time is over.  A retry sleeps before it ends.
ExecFails(n, retryable) ==
  /\ loop.pc = "batch" /\ exec[n].phase = "running"
  /\ fails < MaxFails /\ fails' = fails + 1
  /\ att' = Fail(att, n, exec[n].idx, retryable)
  /\ LET again == ShouldRetry(exec[n].idx, retryable) IN
     exec' = [exec EXCEPT ![n].phase = IF again THEN "sleeping" ELSE "ended",
                          ![n].outcome = IF again THEN "retrying" ELSE "failed"]
  /\ loop' = AfterNode(exec')
  /\ UNCHANGED <<run, policy, pending, st, reports, ops, blocks, crashes, history>>

ExecWakes(n) ==
  /\ loop.pc = "batch" /\ exec[n].phase = "sleeping"
  /\ exec' = [exec EXCEPT ![n].phase = "ended"]
  /\ loop' = AfterNode(exec')
  /\ UNCHANGED <<run, att, policy, pending, st, reports, counters, history>>

\* the statuses the outcomes stand for in nodeStatuses
Noted(n) ==
  CASE exec[n].outcome \in {"completed", "failed"} -> exec[n].outcome
    [] exec[n].outcome = "retrying" -> "none"
    [] exec[n].outcome \in {"paused", "blocked"} -> "blocked_offline"
    [] exec[n].outcome = "dispatched" -> "running"
    [] OTHER -> st[n]

Outcome(o) == \E n \in Nodes : exec[n].outcome = o

\* applyBatchResults: the outcomes are noted, then the failure policy decides
\* whether the loop goes on ("top") or returns ("end").
ApplyBatch ==
  /\ loop.pc = "apply"
  /\ LET failed == Outcome("failed")
         stops == failed /\ policy \in {"fail_fast", "pause_for_approval", "compensate"}
         blocked == Outcome("blocked") /\ ~Outcome("paused")
     IN
     /\ st' = [n \in Nodes |->
          IF failed /\ policy = "fallback_step" /\ n = Fallback THEN "none" ELSE Noted(n)]
     /\ att' = IF failed /\ policy = "fail_fast" THEN CancelAllPending(att) ELSE att
     /\ run' = CASE failed /\ policy = "fail_fast" -> FinalizeRun("failed")
                 [] failed /\ policy = "pause_for_approval" -> "paused"
                 [] failed /\ policy = "compensate" -> "compensating"
                 [] ~stops /\ blocked -> "paused"
                 [] OTHER -> run
     /\ loop' = [loop EXCEPT !.pc =
          IF stops \/ Outcome("paused") \/ Outcome("blocked") THEN "end" ELSE "top"]
  /\ exec' = [n \in Nodes |-> NoExec]
  /\ UNCHANGED <<policy, pending, reports, counters, history>>

\* scheduleRunExecution's do ... while
EndRun ==
  /\ loop.pc = "end"
  /\ loop' = [loop EXCEPT !.pc = IF pending THEN "begin" ELSE "idle"]
  /\ UNCHANGED <<run, att, policy, pending, st, exec, reports, counters, history>>

---------------------------------------------------------------------------
(* Run control and approvals *)

Ask(r) == ~Busy /\ r \in Requests /\ ops < MaxOps /\ ops' = ops + 1

\* pauseRun
PauseRun ==
  /\ Ask("pause")
  /\ run \notin Terminal \cup {"paused"}
  /\ run' = "paused"
  /\ UNCHANGED <<att, policy, loop, pending, st, exec, reports, fails, blocks, crashes, history>>

\* cancelRun
CancelRun ==
  /\ Ask("cancel")
  /\ CanCancel(run)
  /\ att' = CancelAllPending(att)
  /\ run' = FinalizeRun("cancelled")
  /\ UNCHANGED <<policy, loop, pending, st, exec, reports, fails, blocks, crashes, history>>

\* the rows of nodes of a type that are blocked_offline, old attempts too
BlockedRows(type) == {b \in Rows : Type[b[1]] = type
                        /\ att[b[1]][b[2]].status = "blocked_offline"}

ResolveApprovals(rows, status) == [n \in Nodes |-> [i \in DOMAIN rows[n] |->
  IF <<n, i>> \in BlockedRows("approval")
  THEN [rows[n][i] EXCEPT !.status = status] ELSE rows[n][i]]]

\* resumeRun after its checks, with a decision for the approval nodes that
\* are blocked.  A rejection ends the run.  A satellite node that is blocked
\* gets its next attempt; the number may be taken already, then the request
\* fails and what was written before stays.
Resumed(decision, rows) ==
  LET remote == BlockedRows("remote")
      taken == \E b \in remote : b[2] + 1 \in DOMAIN att[b[1]]
  IN
  IF BlockedRows("approval") # {} /\ decision = "rejected"
  THEN /\ att' = CancelAllPending(ResolveApprovals(rows, "failed"))
       /\ run' = FinalizeRun("failed")
       /\ UNCHANGED <<loop, pending, conflict>>
  ELSE LET rows1 == ResolveApprovals(rows, "completed") IN
       IF taken
       THEN att' = ResolveApprovals(att, "completed") /\ conflict' = TRUE /\ UNCHANGED <<run, loop, pending>>
       ELSE /\ att' = [n \in Nodes |-> IF <<n, Len(att[n])>> \in remote
                         THEN Append(rows1[n], NewAttempt("retrying")) ELSE rows1[n]]
            /\ run' = "running"
            /\ ScheduleRunExecution("control")
            /\ UNCHANGED conflict

\* a resume that takes the decision for granted
ResumeRun_NoDecision ==
  /\ Ask("resume")
  /\ CanRun(run)
  /\ Resumed("approved", att)
  /\ UNCHANGED <<policy, st, exec, reports, fails, blocks, crashes, bypassed>>

\* resumeRun as the run-control routes call it, without a decision
ResumeRun ==
  /\ Ask("resume")
  /\ CanRun(run)
  /\ BlockedRows("approval") = {}
  /\ Resumed("none", att)
  /\ UNCHANGED <<policy, st, exec, reports, fails, blocks, crashes, bypassed>>

\* retryRun of the nodes whose latest attempt failed
RetryRun ==
  /\ Ask("retry")
  /\ CanRun(run)
  /\ \E targets \in SUBSET {n \in Nodes : Latest(n) = "failed"} :
       /\ targets # {}
       /\ att' = [n \in Nodes |-> IF n \in targets
                    THEN Append(att[n], NewAttempt("retrying")) ELSE att[n]]
  /\ run' = "running"
  /\ ScheduleRunExecution("control")
  /\ UNCHANGED <<policy, st, exec, reports, fails, blocks, crashes, history>>

\* approve and reject: the run is resumed first, then the request is resolved;
\* a run that cannot be resumed does not keep the request from being resolved.
\* Any other error leaves it pending.
Decide(n, i, decision) ==
  /\ Ask(IF decision = "approved" THEN "approve" ELSE "reject")
  /\ att[n][i].req = "pending"
  /\ LET rows == [att EXCEPT ![n][i].req = decision] IN
     IF CanRun(run)
     THEN Resumed(decision, rows)
     ELSE att' = rows /\ UNCHANGED <<run, loop, pending, conflict>>
  /\ UNCHANGED <<policy, st, exec, reports, fails, blocks, crashes, bypassed>>

---------------------------------------------------------------------------
(* Satellites, sweeps, crashes *)

\* reportRemoteNodeResult up to its awaits.  An attempt that is terminal is
\* not written again: the report is a repetition or an error.
ReportRemoteResult(n, i, ok, retryable) ==
  /\ ~Busy /\ Type[n] = "remote" /\ n \notin reports
  /\ att[n][i].status = "running"
  /\ IF ok
     THEN att' = SetStatus(att, n, i, "completed") /\ run' = "running" /\ UNCHANGED fails
     ELSE /\ fails < MaxFails /\ fails' = fails + 1
          /\ att' = Fail(att, n, i, retryable)
          /\ UNCHANGED run
  /\ reports' = reports \cup {n}
  /\ UNCHANGED <<policy, loop, pending, st, exec, ops, blocks, crashes, history>>

\* ... and its end, after the callbacks and the back-off of a retry
ScheduleReport(n) ==
  /\ ~Busy /\ n \in reports
  /\ reports' = reports \ {n}
  /\ ScheduleRunExecution("report")
  /\ UNCHANGED <<run, att, policy, st, exec, counters, history>>

RunningRows == {b \in Rows : att[b[1]][b[2]].status = "running"}

\* the rows of S fail; the attempts below the limit may be retried
TimedOut(S, limit) == [n \in Nodes |-> [i \in DOMAIN att[n] |->
  IF <<n, i>> \in S
  THEN [att[n][i] EXCEPT !.status = "failed", !.retryable = i < limit]
  ELSE att[n][i]]]

\* reapExpiredLeases: some leases are over
ReapExpiredLeases ==
  /\ Ask("reap")
  /\ \E S \in SUBSET RunningRows \ {{}} :
       att' = TimedOut(S, MaxAttempts)
  /\ UNCHANGED <<run, policy, loop, pending, st, exec, reports, fails, blocks, crashes, history>>

\* sweepTimedOutNodes: nodes of an active run have used up their time
SweepTimedOutNodes ==
  /\ Ask("sweepNodes")
  /\ run \notin Terminal
  /\ \E S \in SUBSET RunningRows \ {{}} : att' = TimedOut(S, 0)
  /\ UNCHANGED <<run, policy, loop, pending, st, exec, reports, fails, blocks, crashes, history>>

\* a sweep that leaves paused runs alone
SweepTimedOutRuns_NotPaused ==
  /\ ~Busy /\ "sweepRuns" \in Requests
  /\ run \notin Terminal \cup {"paused"}
  /\ att' = CancelAllPending(att)
  /\ run' = FinalizeRun("failed")
  /\ UNCHANGED <<policy, loop, pending, st, exec, reports, counters, history>>

\* sweepTimedOutRuns: the run has used up its time
SweepTimedOutRuns ==
  /\ ~Busy /\ "sweepRuns" \in Requests
  /\ run \notin Terminal
  /\ att' = CancelAllPending(att)
  /\ run' = FinalizeRun("failed")
  /\ UNCHANGED <<policy, loop, pending, st, exec, reports, counters, history>>

\* The process dies and starts again: nothing recovers the run.
Crash ==
  /\ crashes < MaxCrashes /\ crashes' = crashes + 1
  /\ loop' = [loop EXCEPT !.pc = "idle"]
  /\ pending' = FALSE
  /\ st' = [n \in Nodes |-> "none"]
  /\ exec' = [n \in Nodes |-> NoExec]
  /\ reports' = {}
  /\ UNCHANGED <<run, att, policy, ops, fails, blocks, history>>

---------------------------------------------------------------------------
\* startRun: the run is inserted and its execution scheduled
Init ==
  /\ run = "queued" /\ policy \in Policies
  /\ att = [n \in Nodes |-> <<>>]
  /\ loop = [pc |-> "begin", owner |-> "control"]
  /\ pending = FALSE
  /\ st = [n \in Nodes |-> "none"]
  /\ exec = [n \in Nodes |-> NoExec]
  /\ reports = {}
  /\ ops = 0 /\ fails = 0 /\ blocks = 0 /\ crashes = 0
  /\ conflict = FALSE /\ bypassed = {}

LoopStep ==
  \/ BeginRun \/ ExitLoop \/ SkipDeadEnded \/ ApplyBatch \/ EndRun
  \/ \E offline \in SUBSET Nodes : LaunchBatch(offline)
  \/ \E n \in Nodes : ExecWakes(n) \/ ScheduleReport(n)

ExecEnds == \E n \in Nodes :
  ExecCompletes(n) \/ \E r \in BOOLEAN : ExecFails(n, r)

Request ==
  \/ PauseRun \/ CancelRun \/ ResumeRun \/ RetryRun
  \/ \E n \in Nodes : \E i \in DOMAIN att[n] :
       \/ \E d \in {"approved", "rejected"} : Decide(n, i, d)
       \/ \E ok, r \in BOOLEAN : ReportRemoteResult(n, i, ok, r)

Next ==
  \/ LoopStep \/ ExecEnds \/ Request
  \/ ReapExpiredLeases \/ SweepTimedOutNodes \/ SweepTimedOutRuns
  \/ Crash

Spec == Init /\ [][Next]_vars

---------------------------------------------------------------------------
(* Properties; the ones with primes are about every step *)

\* A node never has two attempts that are queued, running or about to run,
\* and the one it has is its latest: resume, retry and the loop's own retries
\* insert rows for the same node from different places.
OneLiveAttempt == \A n \in Nodes :
  \A i \in DOMAIN att[n] : att[n][i].status \in {"queued", "running", "retrying"}
                            => i = Len(att[n])

\* A run that is running with no loop active waits for a satellite: no
\* completed node's successors are left waiting for a wake-up that
\* scheduleRunExecution lost, a sweep did not give or a restart forgot.
NoStranded ==
  run = "running" /\ loop.pc = "idle" /\ reports = {}
  => \E n \in Nodes : Latest(n) = "running"

\* A run is completed only when every node was carried out, or was cancelled
\* because none of its incoming edges is enabled.
CompletedIsComplete == run = "completed" => \A n \in Nodes :
  \/ Latest(n) = "completed"
  \/ /\ Latest(n) = "cancelled" /\ Preds(n) # {}
     /\ ~\E p \in Preds(n) : Enabled(LatestStatuses, p, n)

\* No node behind an approval node starts before a request of that approval
\* node was approved, in whatever order pauses, resumes, retries and decisions
\* come.
GateHolds == \A e \in Edges :
  Type[e[1]] = "approval" /\ (\E i \in DOMAIN att[e[2]] : att[e[2]][i].status # "cancelled")
  => \E i \in DOMAIN att[e[1]] : att[e[1]][i].req = "approved"

\* An approval that was given takes effect: its attempt is completed, unless
\* the run was cancelled or had failed before.
ApprovedIsApplied == \A n \in Nodes : \A i \in DOMAIN att[n] :
  att[n][i].req = "approved" => att[n][i].status \in {"completed", "cancelled"}

\* An approval node is completed by the approval of its own request.
OwnApproval == \A n \in Nodes : \A i \in DOMAIN att[n] :
  Type[n] = "approval" /\ att[n][i].status = "completed" => att[n][i].req = "approved"

\* The engine makes at most maxAttempts attempts of a node of its own accord;
\* every further one answers a request.
AttemptsBounded == \A n \in Nodes : Len(att[n]) <= MaxAttempts + ops

\* A run does not end with a node whose retryable failure left it attempts.
RetriesUsed == run \in {"completed", "failed"} => \A n \in Nodes :
  Latest(n) = "failed" /\ Last(att[n]).retryable => Len(att[n]) >= MaxAttempts

\* Resuming a run never fails because the rows of an earlier resume are there.
ResumeAccepted == ~conflict

\* Nothing behind an approval node starts after its request was rejected.
RejectedGateHolds == bypassed = {}

Begins(n) == Len(att'[n]) > Len(att[n]) /\ Last(att'[n]).status \in {"running", "blocked_offline"}

\* A node begins only when the stored attempts of all its predecessors are
\* over, although the loop decides on its own copy of the statuses.
OrderHolds == \A n \in Nodes : Begins(n) => \A p \in Preds(n) : Latest(p) \in Terminal

\* Nothing behind a node begins while the node has a retry ahead of it: the
\* row is failed during the back-off, so a scheduler that read the rows would
\* take the failure branch.
RetriesFirst == \A n \in Nodes : Begins(n) => \A p \in Preds(n) :
  Latest(p) = "failed" => ~ShouldRetry(Len(att[p]), Last(att[p]).retryable)

\* Under fail_fast nothing begins once a node has failed for good.
FailFastStops == policy = "fail_fast" => \A n, m \in Nodes :
  Begins(n) /\ m # n /\ Latest(m) = "failed"
  => ShouldRetry(Len(att[m]), Last(att[m]).retryable)

\* Completed and cancelled runs stay what they are (finalizeRun: the first
\* terminal status wins).
TerminalIsFinal == run \in {"completed", "cancelled"} => run' = run

\* A completed attempt is never written again, however late or contradictory
\* the reports, sweeps and cancellations that follow.
CompletedAttemptIsFinal == \A n \in Nodes : \A i \in DOMAIN att[n] :
  att[n][i].status = "completed" => att'[n][i].status = "completed"

\* Whatever crashes, stays silent or is never decided, the run ends.
RunEnds == []<>(run \in Terminal)
====

--------------------------- MODULE SchedulerTick ---------------------------
(***************************************************************************)
(* The workflow scheduler of the Rust hub: the schedule, receipt, control  *)
(* and lease rows (friday-storage/src/schedule.rs), the tick that fires    *)
(* due minute slots (friday-hub/src/scheduler_tick.rs), the daemon loop    *)
(* around it (bin/hub_agent_run_server.rs) and the reconciliation of       *)
(* scheduled runs (friday-hub/src/crash_recovery.rs).                      *)
(*                                                                         *)
(* Time is counted in minute slots.  Every database statement (or IMMEDIATE*)
(* transaction) that another process can observe is one action, so daemons *)
(* interleave, and crash, between any two of them.                         *)
(***************************************************************************)
EXTENDS Integers, FiniteSets, FiniteSetsExt

CONSTANTS
    Schedules,     \* schedule ids, as numbers: list_enabled_schedules orders by id
    Daemons,       \* process ids; a restarted daemon is a new process
    Due,           \* Due[s]: the slots at which the stored cron of s is due
    Parses,        \* the schedules whose stored cron text still parses
    MaxUp,         \* how many daemons may be alive at once
    LeaseTTL,      \* SCHEDULER_LEASE_TTL, in slots
    StaleAfter,    \* SCHEDULER_RUN_STALE_THRESHOLD_MS, in slots
    MaxFires,      \* TickBounds.max_fires_per_tick
    MaxConsidered, \* TickBounds.max_considered_per_tick
    MaxSlot,       \* bound: the last minute of the modelled clock
    MaxFaults,     \* bound: crashes, storage errors and backward clock steps
    FaultHorizon,  \* bound: no fault is injected after this minute
    MaxOps         \* bound: operator requests

Slots == 0..MaxSlot
Null == -1                       \* SQL NULL of last_slot_ts
Key == Schedules \X Slots        \* (schedule_id, slot_ts): receipt PK and run id

ASSUME SchedulesAssumption == Schedules \subseteq Nat /\ IsFiniteSet(Schedules)
ASSUME DueAssumption == Due \in [Schedules -> SUBSET Slots]
ASSUME ParsesAssumption == Parses \subseteq Schedules
ASSUME BoundsAssumption ==
    /\ MaxUp \in Nat /\ LeaseTTL \in Nat \ {0} /\ StaleAfter \in Nat \ {0}
    /\ MaxFires \in Nat \ {0} /\ MaxConsidered \in Nat \ {0}
    /\ MaxSlot \in Nat /\ MaxFaults \in Nat /\ FaultHorizon \in Int /\ MaxOps \in Nat

NoReceipt == "none"
Outcomes == {"fired", "skipped_missed", "skipped_previous_awaiting",
             "skipped_no_published", "invalid_schedule", "error"}

NoRun == "absent"
Terminal == {"done", "failed", "cancelled"}
InFlight == {"pending", "running"}
NonTerminal == InFlight \cup {"awaiting_checkpoint"}
RunStates == Terminal \cup NonTerminal \cup {NoRun}

(* WorkflowRunState::can_transition_to *)
CanTransition(from, to) ==
    <<from, to>> \in
        {<<"pending", "running">>, <<"pending", "failed">>,
         <<"running", "awaiting_checkpoint">>, <<"running", "done">>,
         <<"running", "failed">>, <<"awaiting_checkpoint", "running">>,
         <<"awaiting_checkpoint", "failed">>, <<"failed", "running">>,
         <<"pending", "cancelled">>, <<"running", "cancelled">>,
         <<"awaiting_checkpoint", "cancelled">>}

VARIABLES
    clock,    \* the wall clock, in minutes
    paused,   \* scheduler_control.paused
    lease,    \* scheduler_lease: the set of its rows, empty or a singleton
    row,      \* workflow_schedule: does the row exist, is it enabled, its watermark
    fire,     \* workflow_schedule_fire: the receipt of each slot
    run,      \* workflow_run of each slot's deterministic run id: state, and the
              \* tick minute the driver stamped last (read only while in flight)
    tick,     \* each daemon's program counter and locals
    faults, ops,   \* how much of the two budgets is used
    drives,   \* history: how often the engine began to drive each slot's run
    base,     \* history: where the window of the tick that first set the
              \* watermark of the current row began
    passed,   \* history: how many ticks in a row left each schedule aside
    setback   \* history: was the clock ever set back

db == <<paused, lease, row, fire, run>>
history == <<drives, base, passed, setback>>
vars == <<clock, db, tick, faults, ops, history>>

(***************************************************************************)
(* A daemon's locals.  The TickOutcome totals are fired and considered;    *)
(* dispatched counts the runs this tick created.                           *)
(***************************************************************************)
Pcs == {"new", "idle", "scan", "recover", "reconcile", "list", "next", "slots",
        "dispatch", "start", "engine", "receipt", "advance", "dead"}

Rest(pc) ==
    [pc |-> pc, now |-> 0, todo |-> {}, queue |-> {}, sid |-> 0, after |-> Null,
     missed |-> {}, slot |-> 0, out |-> NoReceipt,
     fired |-> 0, considered |-> 0, dispatched |-> 0]

SetLocals(d, l) == tick' = [tick EXCEPT ![d] = l]

Alive(d) == tick[d].pc \notin {"new", "dead"}
Ticking(d) == Alive(d) /\ tick[d].pc \notin {"idle", "recover"}

RunId(d) == <<tick[d].sid, tick[d].slot>>      \* scheduled_run_id of the fire slot

Init ==
    /\ clock = 0 /\ paused = FALSE /\ lease = {}
    \* a row whose cron text no longer parses did not come from create_schedule:
    \* storage's insert_schedule stores the text as it is
    /\ row = [s \in Schedules |-> [live |-> s \notin Parses, enabled |-> s \notin Parses,
                                   mark |-> Null]]
    /\ fire = [x \in Key |-> NoReceipt]
    /\ run = [x \in Key |-> [st |-> NoRun, at |-> 0]]
    /\ tick = [d \in Daemons |-> Rest("new")]
    /\ faults = 0 /\ ops = 0
    /\ drives = [x \in Key |-> 0] /\ base = [s \in Schedules |-> Null]
    /\ passed = [s \in Schedules |-> 0] /\ setback = FALSE

-----------------------------------------------------------------------------
(***************************************************************************)
(* The wall clock, and the requests of the operator and the run-control    *)
(* plane.                                                                  *)
(***************************************************************************)
AdvanceClock ==
    /\ clock < MaxSlot
    /\ clock' = clock + 1
    /\ UNCHANGED <<db, tick, faults, ops, history>>

Fault == faults < MaxFaults /\ clock <= FaultHorizon /\ faults' = faults + 1

(* The clock is SystemTime: it may be set back. *)
SetClockBack ==
    /\ clock > 0 /\ Fault
    /\ clock' = clock - 1 /\ setback' = TRUE
    /\ UNCHANGED <<db, tick, ops, drives, base, passed>>

Request == ops < MaxOps /\ ops' = ops + 1

(* scheduler::create_schedule: the cron text must parse; born disabled. *)
CreateSchedule(s) ==
    /\ Request /\ s \in Parses /\ ~row[s].live
    /\ row' = [row EXCEPT ![s] = [live |-> TRUE, enabled |-> FALSE, mark |-> Null]]
    /\ base' = [base EXCEPT ![s] = Null]
    /\ passed' = [passed EXCEPT ![s] = 0]
    /\ UNCHANGED <<clock, paused, lease, fire, run, tick, faults, drives, setback>>

SetEnabled(s, e) ==
    /\ Request /\ row[s].live /\ row[s].enabled # e
    /\ row' = [row EXCEPT ![s].enabled = e]
    /\ UNCHANGED <<clock, paused, lease, fire, run, tick, faults, history>>

(* The receipts of the schedule outlive its row. *)
DeleteSchedule(s) ==
    /\ Request /\ row[s].live
    /\ row' = [row EXCEPT ![s] = [live |-> FALSE, enabled |-> FALSE, mark |-> Null]]
    /\ UNCHANGED <<clock, paused, lease, fire, run, tick, faults, history>>

SetPaused(p) ==
    /\ Request /\ paused # p
    /\ paused' = p
    /\ UNCHANGED <<clock, lease, row, fire, run, tick, faults, history>>

(* workflow_run_control: cancel of a run that is not terminal. *)
CancelRun(x) ==
    /\ Request /\ CanTransition(run[x].st, "cancelled")
    /\ run' = [run EXCEPT ![x].st = "cancelled"]
    /\ UNCHANGED <<clock, paused, lease, row, fire, tick, faults, history>>

-----------------------------------------------------------------------------
(***************************************************************************)
(* The daemon around the tick: boot recovery, the lease, the periodic      *)
(* reconciliation of stale runs.                                           *)
(***************************************************************************)
InFlightBefore_RunningOnly(cutoff) ==
    {x \in Key : run[x].st = "running" /\ run[x].at <= cutoff}
InFlightBefore(cutoff) == {x \in Key : run[x].st \in InFlight /\ run[x].at <= cutoff}

(* A new process first lists every scheduled run left in flight. *)
Boot(d) ==
    /\ tick[d].pc = "new" /\ Cardinality({e \in Daemons : Alive(e)}) < MaxUp
    /\ SetLocals(d, [tick[d] EXCEPT !.pc = "recover", !.todo = InFlightBefore(clock)])
    /\ UNCHANGED <<clock, db, faults, ops, history>>

(* acquire_lease, when it answers Acquired; the expiry is now + TTL.  When a  *)
(* different holder's lease is live the loop goes back to sleep.             *)
AcquireLease(d) ==
    /\ tick[d].pc = "idle"
    /\ \A l \in lease : l.holder = d \/ l.expires <= clock
    /\ lease' = {[holder |-> d, expires |-> clock + LeaseTTL]}
    /\ SetLocals(d, [tick[d] EXCEPT !.pc = "scan", !.now = clock])
    /\ UNCHANGED <<clock, paused, row, fire, run, faults, ops, history>>

ScanStale(d) ==
    /\ tick[d].pc = "scan"
    /\ SetLocals(d, [tick[d] EXCEPT !.pc = "reconcile",
                            !.todo = InFlightBefore(tick[d].now - StaleAfter)])
    /\ UNCHANGED <<clock, db, faults, ops, history>>

(* set_run_state(Failed) re-reads the state: a run no longer in flight is   *)
(* skipped.  Boot recovery and the periodic sweep share this loop.  (Here   *)
(* set_run_state is one step; WorkflowRun splits its read from its write.)  *)
ReconcileRun(d) ==
    /\ tick[d].pc \in {"recover", "reconcile"}
    /\ \E x \in tick[d].todo :
         /\ SetLocals(d, [tick[d] EXCEPT !.todo = @ \ {x}])
         /\ run' = IF CanTransition(run[x].st, "failed")
                   THEN [run EXCEPT ![x].st = "failed"] ELSE run
    /\ UNCHANGED <<clock, paused, lease, row, fire, faults, ops, history>>

ReconcileDone(d) ==
    /\ tick[d].pc \in {"recover", "reconcile"} /\ tick[d].todo = {}
    /\ SetLocals(d, [tick[d] EXCEPT !.pc = IF @ = "recover" THEN "idle" ELSE "list"])
    /\ UNCHANGED <<clock, db, faults, ops, history>>

(* A failed read of the sweep, or of the rows it still has to fail, is       *)
(* logged: the boot, or the tick, goes on without it.                        *)
SweepError(d) ==
    /\ tick[d].pc \in {"recover", "scan", "reconcile"} /\ Fault
    /\ SetLocals(d, [tick[d] EXCEPT !.pc = IF @ = "recover" THEN "idle" ELSE "list", !.todo = {}])
    /\ UNCHANGED <<clock, db, ops, history>>

-----------------------------------------------------------------------------
(***************************************************************************)
(* run_one_tick                                                            *)
(***************************************************************************)
(* The pause switch is read once, first; the enabled rows are read once.    *)
StartTick(d) ==
    /\ tick[d].pc = "list"
    /\ IF paused THEN SetLocals(d, Rest("idle"))
       ELSE SetLocals(d, [tick[d] EXCEPT !.pc = "next",
              !.queue = {[sid |-> s, mark |-> row[s].mark] :
                           s \in {r \in Schedules : row[r].live /\ row[r].enabled}}])
    /\ UNCHANGED <<clock, db, faults, ops, history>>

Stalest_ById(q) == CHOOSE r \in q : \A o \in q : r.sid <= o.sid

(* Stalest watermark first, NULL before all, ties by id. *)
Stalest(q) == CHOOSE r \in q : \A o \in q : r.mark < o.mark \/ (r.mark = o.mark /\ r.sid <= o.sid)

StartAfter_IgnoresWatermark(r, now) == now - 1
StartAfter(r, now) == IF r.mark = Null THEN now - 1 ELSE r.mark

(* The due slots of the window (after, now], the most recent MaxConsidered. *)
DueSlots(s, after, now) ==
    LET window == {t \in Due[s] : after < t /\ t <= now}
    IN  {t \in window : Cardinality({u \in window : u > t}) < MaxConsidered}

(* Back to the loop over the queue: the locals of one schedule end with it. *)
NextSchedule(d) ==
    SetLocals(d, [tick[d] EXCEPT !.pc = "next", !.sid = 0, !.after = Null,
                         !.missed = {}, !.slot = 0, !.out = NoReceipt])

FireCapHit(d) == tick[d].fired >= MaxFires

EndTick(d) ==
    /\ tick[d].pc = "next" /\ (tick[d].queue = {} \/ FireCapHit(d))
    /\ SetLocals(d, Rest("idle"))
    /\ passed' = [s \in Schedules |->
                     IF \E r \in tick[d].queue : r.sid = s THEN passed[s] + 1 ELSE passed[s]]
    /\ UNCHANGED <<clock, db, faults, ops, drives, base, setback>>

(* consider: record_fire, whose first receipt for a slot stands. *)
Fresh(x) == IF fire[x] = NoReceipt THEN 1 ELSE 0
RecordFire_Overwrites(x, o) == fire' = [fire EXCEPT ![x] = o]
RecordFire(x, o) == fire' = [fire EXCEPT ![x] = IF @ = NoReceipt THEN o ELSE @]

(* tick_one_schedule, the stored cron does not parse. *)
InvalidSchedule(d) ==
    /\ tick[d].pc = "next" /\ tick[d].queue # {} /\ ~FireCapHit(d)
    /\ LET r == Stalest(tick[d].queue) IN
         /\ r.sid \notin Parses
         /\ RecordFire(<<r.sid, tick[d].now>>, "invalid_schedule")
         /\ SetLocals(d, [tick[d] EXCEPT !.pc = "advance", !.queue = @ \ {r}, !.sid = r.sid,
                       !.after = StartAfter(r, tick[d].now),
                       !.considered = @ + Fresh(<<r.sid, tick[d].now>>)])
    /\ UNCHANGED <<clock, paused, lease, row, run, faults, ops, history>>

TakeSchedule_OldestFires(d) ==
    /\ tick[d].pc = "next" /\ tick[d].queue # {} /\ ~FireCapHit(d)
    /\ LET r     == Stalest(tick[d].queue)
           after == StartAfter(r, tick[d].now)
           due   == DueSlots(r.sid, after, tick[d].now)
           slot  == IF due = {} THEN 0 ELSE Min(due)
       IN  /\ r.sid \in Parses
           /\ SetLocals(d, [tick[d] EXCEPT !.pc = IF due = {} THEN "advance" ELSE "slots",
                         !.queue = @ \ {r}, !.sid = r.sid, !.after = after,
                         !.slot = slot, !.missed = due \ {slot}])
    /\ UNCHANGED <<clock, db, faults, ops, history>>

TakeSchedule_QuietWindowStays(d) ==
    /\ tick[d].pc = "next" /\ tick[d].queue # {} /\ ~FireCapHit(d)
    /\ LET r     == Stalest(tick[d].queue)
           after == StartAfter(r, tick[d].now)
           due   == DueSlots(r.sid, after, tick[d].now)
           slot  == IF due = {} THEN 0 ELSE Max(due)
       IN  /\ r.sid \in Parses
           /\ SetLocals(d, [tick[d] EXCEPT !.pc = IF due = {} THEN "next" ELSE "slots",
                         !.queue = @ \ {r}, !.sid = r.sid, !.after = after,
                         !.slot = slot, !.missed = due \ {slot}])
    /\ UNCHANGED <<clock, db, faults, ops, history>>

(* tick_one_schedule, the window is computed from the row read at the start *)
(* of the tick.  Only the most recent due slot may fire.                    *)
TakeSchedule(d) ==
    /\ tick[d].pc = "next" /\ tick[d].queue # {} /\ ~FireCapHit(d)
    /\ LET r     == Stalest(tick[d].queue)
           after == StartAfter(r, tick[d].now)
           due   == DueSlots(r.sid, after, tick[d].now)
           slot  == IF due = {} THEN 0 ELSE Max(due)
       IN  /\ r.sid \in Parses
           /\ SetLocals(d, [tick[d] EXCEPT !.pc = IF due = {} THEN "advance" ELSE "slots",
                         !.queue = @ \ {r}, !.sid = r.sid, !.after = after,
                         !.slot = slot, !.missed = due \ {slot}])
    /\ UNCHANGED <<clock, db, faults, ops, history>>

RunExists(x) == run[x].st # NoRun

MoreMissed(d) == tick[d].missed # {} /\ tick[d].considered < MaxConsidered

ConsiderMissed_NeverHeals(d) ==
    /\ tick[d].pc = "slots" /\ MoreMissed(d)
    /\ LET m == <<tick[d].sid, Min(tick[d].missed)>>
       IN  /\ RecordFire(m, "skipped_missed")
           /\ SetLocals(d, [tick[d] EXCEPT !.missed = @ \ {m[2]}, !.considered = @ + Fresh(m)])
    /\ UNCHANGED <<clock, paused, lease, row, run, faults, ops, history>>

(* One older slot: its run exists (a tick that died before its receipt), or *)
(* it is missed backlog.                                                    *)
ConsiderMissed(d) ==
    /\ tick[d].pc = "slots" /\ MoreMissed(d)
    /\ LET m == <<tick[d].sid, Min(tick[d].missed)>>
           o == IF RunExists(m) THEN "fired" ELSE "skipped_missed"
       IN  /\ RecordFire(m, o)
           /\ SetLocals(d, [tick[d] EXCEPT !.missed = @ \ {m[2]},
                         !.considered = @ + Fresh(m),
                         !.fired = IF o = "fired" THEN @ + Fresh(m) ELSE @])
    /\ UNCHANGED <<clock, paused, lease, row, run, faults, ops, history>>

(* previous_fire_non_terminal: the schedule's latest fired receipt. *)
FiredSlots(s) == {t \in Slots : fire[<<s, t>>] = "fired"}
PreviousFireNonTerminal(s) ==
    FiredSlots(s) # {} /\ run[<<s, Max(FiredSlots(s))>>].st \in NonTerminal

Deciding(d) == tick[d].pc = "slots" /\ ~MoreMissed(d)

AlreadyConsidered(d) ==
    /\ Deciding(d) /\ fire[RunId(d)] # NoReceipt
    /\ SetLocals(d, [tick[d] EXCEPT !.pc = "advance"])
    /\ UNCHANGED <<clock, db, faults, ops, history>>

SkipPreviousAwaiting(d) ==
    /\ Deciding(d) /\ fire[RunId(d)] = NoReceipt
    /\ PreviousFireNonTerminal(tick[d].sid)
    /\ RecordFire(RunId(d), "skipped_previous_awaiting")
    /\ SetLocals(d, [tick[d] EXCEPT !.pc = "advance", !.considered = @ + 1])
    /\ UNCHANGED <<clock, paused, lease, row, run, faults, ops, history>>

MayFire(d) ==
    /\ Deciding(d) /\ fire[RunId(d)] = NoReceipt
    /\ ~PreviousFireNonTerminal(tick[d].sid)

(* The fire budget is used up: no receipt, no watermark, the next tick's work. *)
DeferSlot(d) ==
    /\ MayFire(d) /\ FireCapHit(d)
    /\ NextSchedule(d)
    /\ passed' = [passed EXCEPT ![tick[d].sid] = @ + 1]
    /\ UNCHANGED <<clock, db, faults, ops, drives, base, setback>>

(* Recovery window A: the run exists but its receipt was never written. *)
HealOrphan(d) ==
    /\ MayFire(d) /\ ~FireCapHit(d) /\ RunExists(RunId(d))
    /\ RecordFire(RunId(d), "fired")
    /\ SetLocals(d, [tick[d] EXCEPT !.pc = "advance", !.considered = @ + 1, !.fired = @ + 1])
    /\ UNCHANGED <<clock, paused, lease, row, run, faults, ops, history>>

ChooseDispatch(d) ==
    /\ MayFire(d) /\ ~FireCapHit(d) /\ ~RunExists(RunId(d))
    /\ SetLocals(d, [tick[d] EXCEPT !.pc = "dispatch"])
    /\ UNCHANGED <<clock, db, faults, ops, history>>

-----------------------------------------------------------------------------
(***************************************************************************)
(* run_stored_published_workflow: create_run, set_run_state(Running), the  *)
(* steps, and the final set_run_state, all inside the tick and all stamped *)
(* with the tick's slot.                                                   *)
(***************************************************************************)
Settle(d, o) == SetLocals(d, [tick[d] EXCEPT !.pc = "receipt", !.out = o])

NoPublishedVersion_WritesDetail(d) ==
    /\ tick[d].pc = "dispatch"
    /\ Settle(d, "no_published_version")
    /\ UNCHANGED <<clock, db, faults, ops, history>>

NoPublishedVersion(d) ==
    /\ tick[d].pc = "dispatch"
    /\ Settle(d, "skipped_no_published")
    /\ UNCHANGED <<clock, db, faults, ops, history>>

CreateRun_Replaces(d) ==
    /\ tick[d].pc = "dispatch"
    /\ run' = [run EXCEPT ![RunId(d)] = [st |-> "pending", at |-> tick[d].now]]
    /\ SetLocals(d, [tick[d] EXCEPT !.pc = "start", !.dispatched = @ + 1])
    /\ UNCHANGED <<clock, paused, lease, row, fire, faults, ops, history>>

(* create_run: the primary key refuses a run that exists already. *)
CreateRun(d) ==
    /\ tick[d].pc = "dispatch" /\ ~RunExists(RunId(d))
    /\ run' = [run EXCEPT ![RunId(d)] = [st |-> "pending", at |-> tick[d].now]]
    /\ SetLocals(d, [tick[d] EXCEPT !.pc = "start", !.dispatched = @ + 1])
    /\ UNCHANGED <<clock, paused, lease, row, fire, faults, ops, history>>

DuplicateRun(d) ==
    /\ tick[d].pc = "dispatch" /\ RunExists(RunId(d))
    /\ Settle(d, "error")
    /\ UNCHANGED <<clock, db, faults, ops, history>>

StartRun(d) ==
    /\ tick[d].pc = "start"
    /\ IF CanTransition(run[RunId(d)].st, "running")
       THEN /\ run' = [run EXCEPT ![RunId(d)] = [st |-> "running", at |-> tick[d].now]]
            /\ drives' = [drives EXCEPT ![RunId(d)] = @ + 1]
            /\ SetLocals(d, [tick[d] EXCEPT !.pc = "engine"])
       ELSE Settle(d, "error") /\ UNCHANGED <<run, drives>>
    /\ UNCHANGED <<clock, paused, lease, row, fire, faults, ops, base, passed, setback>>

(* The engine ends Done, Failed or paused at a checkpoint; a state another  *)
(* process wrote meanwhile may refuse the move, an error of the dispatch.   *)
FinishRun(d, end) ==
    /\ tick[d].pc = "engine"
    /\ IF CanTransition(run[RunId(d)].st, end)
       THEN /\ run' = [run EXCEPT ![RunId(d)] = [st |-> end, at |-> tick[d].now]]
            /\ Settle(d, "fired")
       ELSE Settle(d, "error") /\ UNCHANGED run
    /\ UNCHANGED <<clock, paused, lease, row, fire, faults, ops, history>>

DispatchError_ReportsFired(d) ==
    /\ tick[d].pc \in {"dispatch", "start", "engine"} /\ Fault
    /\ Settle(d, "fired")
    /\ UNCHANGED <<clock, db, ops, history>>

(* Any other failure of the dispatch: the definition does not load, or a    *)
(* statement of the engine fails.                                           *)
DispatchError(d) ==
    /\ tick[d].pc \in {"dispatch", "start", "engine"} /\ Fault
    /\ Settle(d, "error")
    /\ UNCHANGED <<clock, db, ops, history>>

RecordOutcome(d) ==
    /\ tick[d].pc = "receipt"
    /\ RecordFire(RunId(d), tick[d].out)
    /\ SetLocals(d, [tick[d] EXCEPT !.pc = "advance", !.considered = @ + Fresh(RunId(d)),
                  !.fired = IF tick[d].out = "fired" THEN @ + Fresh(RunId(d)) ELSE @])
    /\ UNCHANGED <<clock, paused, lease, row, run, faults, ops, history>>

AdvanceWatermark_Lowers(d) ==
    LET s == tick[d].sid IN
    /\ tick[d].pc = "advance" /\ row[s].live
    /\ row' = [row EXCEPT ![s].mark = tick[d].now]
    /\ base' = IF row[s].mark = Null THEN [base EXCEPT ![s] = tick[d].after] ELSE base
    /\ NextSchedule(d)
    /\ passed' = [passed EXCEPT ![s] = 0]
    /\ UNCHANGED <<clock, paused, lease, fire, run, faults, ops, drives, setback>>

(* advance_watermark: set_last_slot refuses to lower the watermark, which   *)
(* the tick ignores; a row deleted meanwhile is an error that ends the tick.*)
AdvanceWatermark(d) ==
    LET s == tick[d].sid IN
    /\ tick[d].pc = "advance" /\ row[s].live
    /\ row' = [row EXCEPT ![s].mark = IF @ < tick[d].now THEN tick[d].now ELSE @]
    /\ base' = IF row[s].mark = Null THEN [base EXCEPT ![s] = tick[d].after] ELSE base
    /\ NextSchedule(d)
    /\ passed' = [passed EXCEPT ![s] = 0]
    /\ UNCHANGED <<clock, paused, lease, fire, run, faults, ops, drives, setback>>

ScheduleGone(d) ==
    /\ tick[d].pc = "advance" /\ ~row[tick[d].sid].live
    /\ SetLocals(d, Rest("idle"))
    /\ UNCHANGED <<clock, db, faults, ops, history>>

(* A storage error outside the dispatch ends the tick, not the daemon. *)
TickError(d) ==
    /\ tick[d].pc \in {"list", "slots", "receipt", "advance"} /\ Fault
    /\ SetLocals(d, Rest("idle"))
    /\ UNCHANGED <<clock, db, ops, history>>

Crash(d) ==
    /\ Alive(d) /\ Fault
    /\ SetLocals(d, Rest("dead"))
    /\ UNCHANGED <<clock, db, ops, history>>

-----------------------------------------------------------------------------
Operator ==
    \/ \E s \in Schedules : CreateSchedule(s) \/ DeleteSchedule(s)
    \/ \E s \in Schedules, e \in BOOLEAN : SetEnabled(s, e)
    \/ \E p \in BOOLEAN : SetPaused(p)
    \/ \E x \in Key : CancelRun(x)

TickStep(d) ==
    \/ AcquireLease(d) \/ ScanStale(d) \/ ReconcileRun(d) \/ ReconcileDone(d)
    \/ StartTick(d) \/ EndTick(d) \/ InvalidSchedule(d) \/ TakeSchedule(d)
    \/ ConsiderMissed(d) \/ AlreadyConsidered(d) \/ SkipPreviousAwaiting(d)
    \/ DeferSlot(d) \/ HealOrphan(d) \/ ChooseDispatch(d)
    \/ NoPublishedVersion(d) \/ CreateRun(d) \/ DuplicateRun(d) \/ StartRun(d)
    \/ \E end \in {"done", "failed", "awaiting_checkpoint"} : FinishRun(d, end)
    \/ RecordOutcome(d) \/ AdvanceWatermark(d) \/ ScheduleGone(d)

Next ==
    \/ AdvanceClock \/ SetClockBack \/ Operator
    \/ \E d \in Daemons : 
            \/ Boot(d) \/ TickStep(d)
            \/ SweepError(d) \/ DispatchError(d) \/ TickError(d) \/ Crash(d)

Spec == Init /\ [][Next]_vars

(* Fairness: the daemon loop is a thread that never blocks for ever (every   *)
(* wait on the database is bounded by its busy timeout), launchd restarts a  *)
(* dead daemon, and the clock moves.                                         *)
Fairness ==
    /\ WF_vars(AdvanceClock)
    /\ \A d \in Daemons : WF_vars(Boot(d)) /\ WF_vars(TickStep(d))

FairSpec == Spec /\ Fairness

-----------------------------------------------------------------------------
(***************************************************************************)
(* Properties                                                              *)
(***************************************************************************)
Locals ==
    [pc : Pcs, now : Slots, todo : SUBSET Key,
     queue : SUBSET [sid : Schedules, mark : Slots \cup {Null}],
     sid : Nat, after : Int, missed : SUBSET Slots, slot : Slots,
     out : Outcomes \cup {NoReceipt}, fired : Nat, considered : Nat, dispatched : Nat]

TypeOK ==
    /\ clock \in Slots /\ paused \in BOOLEAN
    /\ lease \in SUBSET [holder : Daemons, expires : Int]
    /\ row \in [Schedules -> [live : BOOLEAN, enabled : BOOLEAN, mark : Slots \cup {Null}]]
    /\ fire \in [Key -> Outcomes \cup {NoReceipt}]
    /\ run \in [Key -> [st : RunStates, at : Slots]]
    /\ tick \in [Daemons -> Locals]
    /\ faults \in 0..MaxFaults /\ ops \in 0..MaxOps
    /\ drives \in [Key -> Nat] /\ base \in [Schedules -> Int]
    /\ passed \in [Schedules -> Nat] /\ setback \in BOOLEAN

(* scheduler_tick.rs, "The at-most-once design": whatever crashes, restarts, *)
(* overlapping daemons, deletions and re-creations of a schedule happen, the *)
(* engine begins to drive the run of a slot at most once.                    *)
AtMostOnce == \A x \in Key : drives[x] <= 1

(* A receipt says "fired" only for a slot whose run was really created.      *)
FiredReceiptHasRun == \A x \in Key : fire[x] = "fired" => RunExists(x)

(* The storm guard: a slot that ran was the most recent due slot of the      *)
(* window of the tick that created its run (run.at is that tick's minute).   *)
OnlyLatestSlotFires ==
    \A x \in Key : RunExists(x) =>
        /\ x[2] \in Due[x[1]] /\ x[2] <= run[x].at
        /\ \A t \in Due[x[1]] : ~(x[2] < t /\ t <= run[x].at)

(* With one daemon alive at a time no due slot is lost: every due slot of a  *)
(* live schedule between the start of its first window and its watermark     *)
(* was decided, whatever crashes and errors the ticks met.  (For backlogs of *)
(* at most MaxConsidered slots: the rest of a larger one is dropped on       *)
(* purpose.)                                                                 *)
NoSlotLost ==
    \A s \in Parses : \A t \in Due[s] :
        (row[s].live /\ base[s] < t /\ t <= row[s].mark /\ row[s].mark # Null)
            => fire[<<s, t>>] # NoReceipt

(* Fairness under a saturated fire cap (run_one_tick): before a schedule is  *)
(* considered again, every other one that can fire uses up the budget of at  *)
(* most two ticks: once while its watermark is older (or NULL), and once     *)
(* more when the watermarks are equal and its id is smaller.                 *)
NoStarvation == \A s \in Schedules : passed[s] <= 2 * Cardinality(Parses \ {s})

(* The serialization guard, one daemon alive at a time: a run joins an older *)
(* live run of its schedule only if the dispatch of the older one ended in   *)
(* an error receipt, or its slot lies before the windows of the row's        *)
(* watermark, where no tick looks for it.  (While the clock moves forward:   *)
(* the guard asks only for the run of the latest fired slot, and after a     *)
(* setback and a re-creation of the schedule a live run can be older than    *)
(* that one.)                                                                *)
NoPileUp ==
    ~setback => \A s \in Schedules : \A t, u \in Slots :
        (t < u /\ run[<<s, t>>].st \in NonTerminal /\ run[<<s, u>>].st \in NonTerminal)
            => fire[<<s, t>>] = "error" \/ row[s].mark = Null \/ t <= base[s]

(* schedule.rs set_last_slot: while a row lives its watermark never goes     *)
(* back, also when two daemons advance it out of order or the clock is set   *)
(* back.                                                                     *)
WatermarkMonotonic ==
    [][\A s \in Schedules : row[s].live /\ row'[s].live => row[s].mark <= row'[s].mark]_vars

(* record_fire: the first decision about a slot stands for ever, also across *)
(* the deletion and re-creation of its schedule.                             *)
DecisionsFinal ==
    [][\A x \in Key : fire[x] # NoReceipt => fire'[x] = fire[x]]_vars

(* What the scheduler promises about each slot: SchedulerTick implements     *)
(* FireLedger, the runs that exist being the created slots, the runs the     *)
(* engine drove the driven ones, and the receipts the decisions.             *)
Ledger == INSTANCE FireLedger WITH
    Slot <- Key, Outcome <- Outcomes, Undecided <- NoReceipt,
    created <- {x \in Key : RunExists(x)},
    driven <- {x \in Key : drives[x] > 0},
    decision <- fire

ImplementsLedger == Ledger!Spec

(* Liveness, one daemon alive at a time: after the faults end, a schedule    *)
(* that stays enabled is caught up with the clock, although a crashed        *)
(* process may have left its lease behind and the fire budget may defer it.  *)
CatchesUp ==
    \A s \in Parses :
        <>[](row[s].live /\ row[s].enabled /\ ~paused) => <>[](row[s].mark = MaxSlot)

(* crash_recovery.rs: a run left pending or running by a tick that died or   *)
(* failed is brought to rest, so it cannot block its schedule for ever.      *)
InFlightRunsSettle ==
    \A x \in Key : (run[x].st \in InFlight) ~> (run[x].st \notin InFlight)

-----------------------------------------------------------------------------
(***************************************************************************)
(* Statements of the repository's comments that the code does not keep.    *)
(***************************************************************************)
(* hub_agent_run_server.rs, spawn_scheduler_tick: "exactly one daemon may    *)
(* tick at a time".  The lease is not checked again during a tick.           *)
OneDaemonTicks == \A d, e \in Daemons : Ticking(d) /\ Ticking(e) => d = e

(* scheduler_tick.rs: a crash never costs "a silently-dropped fire", and     *)
(* orphan reconciliation is "correct regardless of how many minutes the      *)
(* restart crossed": once the watermark has passed a slot whose run exists,  *)
(* the slot has a receipt.                                                   *)
OrphanReported ==
    \A x \in Key : RunExists(x) /\ row[x[1]].live /\ x[2] <= row[x[1]].mark
                       => fire[x] # NoReceipt

(* scheduler_tick.rs, Bounds: max_considered_per_tick is a "hard cap on      *)
(* receipts written per tick".                                               *)
ReceiptCap == \A d \in Daemons : tick[d].considered <= MaxConsidered

(* scheduler_tick.rs, Bounds: max_fires_per_tick is a "hard cap on real      *)
(* dispatches per tick".                                                     *)
DispatchCap == \A d \in Daemons : tick[d].dispatched <= MaxFires

(* scheduler_tick.rs, Bounds: "a per-schedule error NEVER aborts the tick":  *)
(* a tick that is at one schedule goes on with the others of its queue.      *)
ScheduleErrorContained ==
    [][\A d \in Daemons :
        tick[d].pc \in {"slots", "dispatch", "start", "engine", "receipt", "advance"}
            /\ tick[d].queue # {} => tick'[d].pc # "idle"]_vars
=============================================================================

--------------------------- MODULE JobScheduler ---------------------------
(***************************************************************************)
(* The hub's unified job scheduler: persisted job rows, a wake-up timer,   *)
(* a serial run loop, catch-up at start, a timeout around every run,       *)
(* backoff after failures, one-shot jobs, and the callers that change rows *)
(* while the scheduler works: the agent's cron tool and the automations.   *)
(*                                                                         *)
(* The hub is one JavaScript thread.  An action is what runs between two   *)
(* awaits, so actions of the start task, the loop task, the timer and the  *)
(* callers interleave only there; the process may die between any two      *)
(* writes of the database.  Time is counted in abstract units.             *)
(***************************************************************************)
EXTENDS Integers, FiniteSets, SequencesExt

CONSTANTS
  Jobs,         \* job ids, numbers: rows are listed in their order
  Kind,         \* the schedule of each job: "at", "every", "anchored", "cron", "invalid"
  Origin,       \* who defines it: "static" (code), "tool" (cron tool), "automation"
  Period,       \* interval of a repeating job, distance of cron occurrences
  AtTime,       \* when a one-shot job is due
  CatchUpRuns,  \* catchUpRuns of every job
  Backoff,      \* delay after the n-th failure in a row, n = 1, 2, ...
  MaxTimerDelay,\* FRIDAY_SCHEDULER_MAX_TIMER_DELAY_MS
  MaxRetries,   \* AT_JOB_MAX_RETRIES
  MaxClock, MaxCrashes, MaxOps   \* bounds of the model

Kinds == {"at", "every", "anchored", "cron", "invalid"}

ASSUME JobsAssumption ==
  /\ Jobs \subseteq Nat /\ IsFiniteSet(Jobs)
  /\ Kind \in [Jobs -> Kinds]
  /\ Origin \in [Jobs -> {"static", "tool", "automation"}]
  /\ \A j \in Jobs : Origin[j] # "static" => Kind[j] = "cron"

ASSUME TimesAssumption ==
  /\ Period \in Nat \ {0} /\ AtTime \in Nat /\ MaxTimerDelay \in Nat \ {0}
  /\ CatchUpRuns \in Nat /\ MaxRetries \in Nat \ {0}
  /\ Backoff \in Seq(Nat) /\ Backoff # <<>>
  /\ MaxClock \in Nat /\ MaxCrashes \in Nat /\ MaxOps \in Nat

None == -1
Tasks == {"start", "loop"}

VARIABLES
  row,      \* friday_scheduler_jobs: exists, enabled, next, running, fails
  automated,\* the automations that are saved and enabled
  clock,
  up,       \* the hub process is alive
  defs,     \* keys of jobMap
  enabled,  \* the service's own flags: enabled, running, pendingWake
  running,
  pending,
  timer,    \* when the wake-up timer fires, or None
  inflight, \* inFlightRunLoopPromise is the promise of the active run loop
  stop,     \* stop(): "no", "awaiting", "resolved"
  task,     \* the two asynchronous activities: start()'s catch-up, the run loop
  crashes, ops,   \* how many crashes and requests so far
  starts,   \* history: how often a one-shot job was started
  done,     \* history: one-shot jobs that ended for good, recorded and disabled
  asked,    \* history: jobs the cron tool reported as triggered and not run since
  overlap   \* history: a run loop began while start() was catching up

vars == <<row, automated, clock, up, defs, enabled, running, pending, timer,
          inflight, stop, task, crashes, ops, starts, done, asked, overlap>>
service == <<up, defs, enabled, running, pending, timer, inflight, stop>>
bounds == <<clock, crashes, ops>>

\* job, runsLeft: what executeJob works on; queue: what is still to do
TaskRecord == [pc : {"idle", "next", "exec", "disable"}, queue : Seq(Jobs \X Int),
               job : Jobs \cup {None}, left : Nat]
IdleTask == [pc |-> "idle", queue |-> <<>>, job |-> None, left |-> 0]

RowRecord == [exists : BOOLEAN, enabled : BOOLEAN, next : Nat \cup {None},
              running : BOOLEAN, fails : Nat]
NoRow == [exists |-> FALSE, enabled |-> FALSE, next |-> None,
          running |-> FALSE, fails |-> 0]

TypeOK ==
  /\ row \in [Jobs -> RowRecord]
  /\ automated \subseteq {j \in Jobs : Origin[j] = "automation"}
  /\ clock \in 0..MaxClock /\ timer \in Nat \cup {None}
  /\ up \in BOOLEAN /\ enabled \in BOOLEAN /\ running \in BOOLEAN
  /\ pending \in BOOLEAN /\ inflight \in BOOLEAN /\ overlap \in BOOLEAN
  /\ stop \in {"no", "awaiting", "resolved"}
  /\ defs \subseteq Jobs
  /\ task \in [Tasks -> TaskRecord]
  /\ starts \in [Jobs -> Nat] /\ done \subseteq Jobs /\ asked \subseteq Jobs
  /\ crashes \in 0..MaxCrashes /\ ops \in 0..MaxOps

---------------------------------------------------------------------------
(* Schedules *)

\* The first occurrence at or after t, counted from the anchor 0.
Aligned(t) == ((t + Period - 1) \div Period) * Period

\* computeNextRunAtMs of a repeating schedule; the cron library returns an
\* occurrence strictly after the given time, the anchored interval one at or
\* after it.
NextOccurrence(j, now) ==
  CASE Kind[j] = "every"    -> now + Period
    [] Kind[j] = "anchored" -> Aligned(now)
    [] Kind[j] = "cron"     -> Aligned(now + 1)
    [] OTHER                -> None

BackoffMs(f) == Backoff[IF f < Len(Backoff) THEN f ELSE Len(Backoff)]

\* computeNextRunAt: backoff applies to failures only
NextRunAt(j, fails) ==
  LET base == NextOccurrence(j, clock) IN
  CASE Kind[j] = "at" -> IF fails > 0 THEN clock + BackoffMs(fails) ELSE None
    [] Kind[j] # "at" /\ base = None -> None
    [] OTHER -> IF fails > 0 /\ base < clock + BackoffMs(fails)
                THEN clock + BackoffMs(fails) ELSE base

---------------------------------------------------------------------------
(* Rows: one operator per repository statement *)

Upsert(r) == [r EXCEPT !.exists = TRUE, !.enabled = IF r.exists THEN @ ELSE TRUE]
MarkRunning(r) == [r EXCEPT !.running = r.exists]
MarkCompleted(r, next) == IF ~r.exists THEN r ELSE
  [r EXCEPT !.running = FALSE, !.fails = 0, !.next = next]
\* a failure counted the wrong way
\* markFailed and markTimedOut
MarkFailed(r, next) == IF ~r.exists THEN r ELSE
  [r EXCEPT !.running = FALSE, !.fails = @ + 1, !.next = next]
SetNextRunAt(r, next) == IF r.exists THEN [r EXCEPT !.next = next] ELSE r
DisableJob(r) == [r EXCEPT !.enabled = FALSE, !.next = None]
EnableJob(r) == [r EXCEPT !.enabled = r.exists]
\* a startup that forgets the markers of a dead process
ClearStaleRunning(r) ==
  IF r.running THEN [r EXCEPT !.running = FALSE, !.fails = @ + 1] ELSE r

Due(r, now) == r.enabled /\ ~r.running /\ r.next # None /\ r.next <= now

ListDue == LET due == {j \in Jobs : Due(row[j], clock)} IN
  SetToSortSeq({<<j, row[j].next>> : j \in due},
               LAMBDA p, q : p[2] < q[2] \/ (p[2] = q[2] /\ p[1] < q[1]))

\* listAll as runCatchUp reads it: the rows that can be overdue
ListAll(rows) ==
  SetToSortSeq({<<j, rows[j].next>> : j \in {i \in Jobs : rows[i].enabled /\ rows[i].next # None}},
               LAMBDA p, q : p[1] < q[1])

---------------------------------------------------------------------------
(* Timer and loop *)

Wakes(rows) == {rows[j].next : j \in {i \in Jobs : rows[i].enabled /\ rows[i].next # None}}

\* armTimer after a pass: the earliest row, at once when overdue, clamped
EarliestWake ==
  LET w == Wakes(row)
      earliest == CHOOSE t \in w : \A u \in w : t <= u
  IN IF earliest < clock THEN clock
     ELSE IF earliest > clock + MaxTimerDelay THEN clock + MaxTimerDelay ELSE earliest

\* No task is between two awaits: only then another event is handled.
Quiet == \A t \in Tasks : task[t].pc \in {"idle", "exec"}

\* runLoop() called by the timer or by start(); tk is task after the caller's
\* own change.  The caller stores the returned promise as the one in flight,
\* also when the call returned at once because a loop is running.
RunLoop(tk) ==
  IF running \/ ~enabled
  THEN /\ pending' = (pending \/ enabled)
       /\ inflight' = FALSE
       /\ task' = tk
       /\ UNCHANGED <<running, overlap>>
  ELSE /\ running' = TRUE /\ inflight' = TRUE
       /\ task' = [tk EXCEPT !["loop"] = [IdleTask EXCEPT !.pc = "next", !.queue = ListDue]]
       /\ overlap' = (overlap \/ tk["start"].pc # "idle")
       /\ UNCHANGED pending

TimerFires ==
  /\ up /\ Quiet /\ timer # None /\ timer <= clock
  /\ timer' = None
  /\ RunLoop(task)
  /\ UNCHANGED <<row, automated, up, defs, enabled, stop, bounds, starts, done, asked>>

\* markRunning and the call of the job's function
Execute(t, j, rest, left) ==
  /\ row' = [row EXCEPT ![j] = MarkRunning(@)]
  /\ starts' = IF Kind[j] = "at" THEN [starts EXCEPT ![j] = @ + 1] ELSE starts
  /\ task' = [task EXCEPT ![t] = [pc |-> "exec", queue |-> rest, job |-> j, left |-> left]]
  /\ asked' = asked \ {j}
  /\ UNCHANGED <<automated, service, bounds, done, overlap>>

Skip(t) ==
  /\ task' = [task EXCEPT ![t].queue = Tail(@)]
  /\ UNCHANGED <<row, automated, service, bounds, starts, done, asked, overlap>>

\* The loop's next job of the list it read when it began.
LoopTakes ==
  /\ up /\ enabled /\ task["loop"].pc = "next" /\ task["loop"].queue # <<>>
  /\ LET j == Head(task["loop"].queue)[1] IN
     IF j \in defs THEN Execute("loop", j, Tail(task["loop"].queue), 0)
                   ELSE Skip("loop")

\* a pass that leaves the timer as it is
LoopEnds_NoRearm ==
  /\ up /\ task["loop"].pc = "next"
  /\ task["loop"].queue = <<>> \/ ~enabled
  /\ task' = [task EXCEPT !["loop"] = IdleTask]
  /\ running' = FALSE /\ inflight' = FALSE
  /\ pending' = (pending /\ ~enabled)
  /\ stop' = IF stop = "awaiting" THEN "resolved" ELSE stop
  /\ UNCHANGED <<row, automated, up, defs, enabled, timer, bounds, starts, done, asked, overlap>>

\* The end of a pass: re-arm for the earliest row, at once after a wake-up that
\* came meanwhile.
LoopEnds ==
  /\ up /\ task["loop"].pc = "next"
  /\ task["loop"].queue = <<>> \/ ~enabled
  /\ task' = [task EXCEPT !["loop"] = IdleTask]
  /\ running' = FALSE /\ inflight' = FALSE
  /\ timer' = IF ~enabled THEN timer
              ELSE IF pending THEN clock
              ELSE IF Wakes(row) # {} THEN EarliestWake ELSE timer
  /\ pending' = (pending /\ ~enabled)
  /\ stop' = IF stop = "awaiting" THEN "resolved" ELSE stop
  /\ UNCHANGED <<row, automated, up, defs, enabled, bounds, starts, done, asked, overlap>>

\* How often catch-up runs an overdue job.
MissedRuns(j, next) ==
  LET missed == IF Kind[j] \in {"every", "anchored"}
                THEN (clock - next) \div Period + 1 ELSE 1
  IN IF missed < CatchUpRuns THEN missed ELSE CatchUpRuns

\* One turn of runCatchUp over the rows start() read.
CatchUpTakes ==
  /\ up /\ task["start"].pc = "next"
  /\ \/ /\ task["start"].left > 0
        /\ Execute("start", task["start"].job, task["start"].queue, task["start"].left - 1)
     \/ /\ task["start"].left = 0 /\ task["start"].queue # <<>>
        /\ LET p == Head(task["start"].queue) IN
           IF p[1] \in defs /\ CatchUpRuns > 0 /\ p[2] < clock
           THEN Execute("start", p[1], Tail(task["start"].queue), MissedRuns(p[1], p[2]) - 1)
           ELSE Skip("start")

CatchUpEnds ==
  /\ up /\ task["start"].pc = "next"
  /\ task["start"].left = 0 /\ task["start"].queue = <<>>
  /\ RunLoop([task EXCEPT !["start"] = IdleTask])
  /\ UNCHANGED <<row, automated, up, defs, enabled, timer, stop, bounds, starts, done, asked>>

Succeeds(t) ==
  /\ up /\ Quiet /\ task[t].pc = "exec"
  /\ LET j == task[t].job
         next == NextRunAt(j, 0)
     IN /\ row' = [row EXCEPT ![j] = MarkCompleted(@, IF next = None THEN clock ELSE next)]
        /\ task' = [task EXCEPT ![t].pc = IF next = None THEN "disable" ELSE "next"]
  /\ UNCHANGED <<automated, service, bounds, starts, done, asked, overlap>>

\* A failure that exhausts a one-shot job's retries, or leaves no next run
GivesUp(j, fails, next) == next = None \/ (Kind[j] = "at" /\ fails >= MaxRetries)

\* The run throws, or the timeout wins the race.
Fails(t) ==
  /\ up /\ Quiet /\ task[t].pc = "exec"
  /\ LET j == task[t].job
         fails == row[j].fails + 1
         next == NextRunAt(j, fails)
     IN /\ row' = [row EXCEPT ![j] = MarkFailed(@, IF next = None THEN clock ELSE next)]
        /\ task' = [task EXCEPT ![t].pc = IF GivesUp(j, fails, next) THEN "disable" ELSE "next"]
  /\ UNCHANGED <<automated, service, bounds, starts, done, asked, overlap>>

\* The second of the two writes that end a job for good.
Disables(t) ==
  /\ up /\ task[t].pc = "disable"
  /\ row' = [row EXCEPT ![task[t].job] = DisableJob(@)]
  /\ task' = [task EXCEPT ![t].pc = "next"]
  /\ done' = IF Kind[task[t].job] = "at" THEN done \cup {task[t].job} ELSE done
  /\ UNCHANGED <<automated, service, bounds, starts, asked, overlap>>

---------------------------------------------------------------------------
(* Start, stop, crash *)

\* an upsert whose ON CONFLICT clause also sets enabled
Seed_Reenables(j, r) ==
  LET u == EnableJob(Upsert(r)) IN
  IF u.next # None THEN u
  ELSE IF Kind[j] = "at" THEN SetNextRunAt(u, AtTime) ELSE SetNextRunAt(u, clock)

\* What start() does to the row of a job defined in code.
Seed(j, r) ==
  LET u == Upsert(r)
      next == NextOccurrence(j, clock)
  IN CASE u.next # None -> u
       [] u.next = None /\ Kind[j] = "at" -> SetNextRunAt(u, AtTime)
       [] u.next = None /\ Kind[j] = "invalid" -> DisableJob(u)
       [] u.next = None /\ Kind[j] = "every" -> SetNextRunAt(u, clock)
       [] OTHER -> SetNextRunAt(u, next)

\* sync(automation) of an enabled automation
Synced(j, r) == SetNextRunAt(EnableJob(Upsert(r)), NextOccurrence(j, clock))

\* The hub comes up: the automations are synced, then start() seeds the rows,
\* clears the markers of the last process and begins to catch up.
Boot ==
  /\ ~up
  /\ LET seeded == [j \in Jobs |->
           CASE Origin[j] = "static" -> Seed(j, row[j])
             [] j \in automated -> Synced(j, row[j])
             [] OTHER -> row[j]]
         rows == [j \in Jobs |-> ClearStaleRunning(seeded[j])]
     IN /\ row' = rows
        /\ task' = [task EXCEPT !["start"] = [IdleTask EXCEPT !.pc = "next", !.queue = ListAll(rows)]]
  /\ up' = TRUE /\ enabled' = TRUE
  /\ defs' = {j \in Jobs : Origin[j] = "static"} \cup automated
  /\ UNCHANGED <<automated, bounds, running, pending, timer, inflight, stop, starts, done, asked, overlap>>

Stop ==
  /\ up /\ Quiet /\ enabled /\ stop = "no"
  /\ enabled' = FALSE /\ timer' = None
  /\ stop' = IF inflight THEN "awaiting" ELSE "resolved"
  /\ UNCHANGED <<row, automated, bounds, up, defs, running, pending, inflight, task, starts, done, asked, overlap>>

ProcessEnds ==
  /\ crashes < MaxCrashes /\ crashes' = crashes + 1
  /\ up' = FALSE /\ enabled' = FALSE /\ running' = FALSE /\ pending' = FALSE
  /\ inflight' = FALSE /\ timer' = None /\ stop' = "no" /\ defs' = {}
  /\ task' = [t \in Tasks |-> IdleTask]
  /\ UNCHANGED <<row, automated, clock, ops, starts, done, asked, overlap>>

Crash == up /\ ProcessEnds

---------------------------------------------------------------------------
(* Requests: the cron tool, the automations, time *)

\* wakeNow
Wake == timer' = IF enabled THEN clock ELSE timer

Request ==
  /\ up /\ Quiet /\ ops < MaxOps /\ ops' = ops + 1
  /\ UNCHANGED <<up, enabled, running, pending, inflight, stop, task, clock, crashes,
                 starts, done, overlap>>

\* create without waking the scheduler
CronCreate(j) ==
  /\ Request /\ Origin[j] = "tool" /\ ~row[j].exists
  /\ row' = [row EXCEPT ![j] = SetNextRunAt(Upsert(@), NextOccurrence(j, clock))]
  /\ defs' = defs \cup {j}
  /\ Wake
  /\ UNCHANGED <<automated, asked>>

\* update with a schedule: the row's enabled flag is left alone
CronUpdate(j) ==
  /\ Request /\ Kind[j] = "cron" /\ row[j].exists
  /\ row' = [row EXCEPT ![j] = SetNextRunAt(@, NextOccurrence(j, clock))]
  /\ Wake
  /\ UNCHANGED <<automated, defs, asked>>

\* delete, and update with enabled = false
CronDelete(j) ==
  /\ Request /\ row[j].exists
  /\ row' = [row EXCEPT ![j] = DisableJob(@)]
  /\ asked' = asked \ {j}
  /\ UNCHANGED <<automated, defs, timer>>

CronRun(j) ==
  /\ Request /\ row[j].exists
  /\ row' = [row EXCEPT ![j] = SetNextRunAt(@, clock)]
  /\ asked' = asked \cup {j}
  /\ Wake
  /\ UNCHANGED <<automated, defs>>

\* save, update and remove of an automation with a cron schedule
SyncAutomation(j, on) ==
  /\ Request /\ Origin[j] = "automation" /\ (on \/ j \in automated)
  /\ automated' = IF on THEN automated \cup {j} ELSE automated \ {j}
  /\ row' = [row EXCEPT ![j] = IF on THEN Synced(j, @) ELSE DisableJob(@)]
  /\ defs' = IF on THEN defs \cup {j} ELSE defs
  /\ asked' = IF on THEN asked ELSE asked \ {j}
  /\ IF on THEN Wake ELSE UNCHANGED timer

Tick ==
  /\ Quiet /\ clock < MaxClock /\ clock' = clock + 1
  /\ UNCHANGED <<row, automated, service, task, crashes, ops, starts, done, asked, overlap>>

\* A row written by an earlier process: enabled and overdue.
OldRow == [exists |-> TRUE, enabled |-> TRUE, next |-> 0, running |-> FALSE, fails |-> 0]

Init ==
  /\ row \in {r \in [Jobs -> {NoRow, OldRow}] : \A j \in Jobs : Origin[j] # "static" => r[j] = NoRow}
  /\ automated = {} /\ defs = {} /\ clock = 0 /\ timer = None
  /\ up = FALSE /\ enabled = FALSE /\ running = FALSE /\ pending = FALSE
  /\ inflight = FALSE /\ stop = "no" /\ overlap = FALSE
  /\ task = [t \in Tasks |-> IdleTask]
  /\ starts = [j \in Jobs |-> 0] /\ done = {} /\ asked = {}
  /\ crashes = 0 /\ ops = 0

TaskStep ==
  \/ LoopTakes \/ LoopEnds \/ CatchUpTakes \/ CatchUpEnds
  \/ \E t \in Tasks : Succeeds(t) \/ Fails(t) \/ Disables(t)

Requests ==
  \E j \in Jobs : \/ CronCreate(j) \/ CronUpdate(j) \/ CronDelete(j) \/ CronRun(j)
                  \/ \E on \in BOOLEAN : SyncAutomation(j, on)

Next == Boot \/ TimerFires \/ TaskStep \/ Requests \/ Stop \/ Crash \/ Tick

Spec == Init /\ [][Next]_vars

\* The event loop runs what is ready, a run ends or times out, timers fire and
\* the supervisor restarts a dead hub.
Fairness ==
  /\ WF_vars(Boot) /\ WF_vars(TimerFires)
  /\ WF_vars(LoopTakes) /\ WF_vars(LoopEnds)
  /\ WF_vars(CatchUpTakes) /\ WF_vars(CatchUpEnds)
  /\ \A t \in Tasks : WF_vars(Succeeds(t) \/ Fails(t) \/ Disables(t))

---------------------------------------------------------------------------
(* Properties *)

\* No lost wake-up: while the scheduler is idle its timer is set for every
\* enabled row, whatever the cron tool and the automations wrote meanwhile
\* (armTimer at the end of a pass, wakeNow after every write).
WakeArmed ==
  (up /\ enabled /\ Quiet /\ ~running /\ task["start"].pc = "idle") =>
    \A t \in Wakes(row) : timer # None /\ (timer <= t \/ timer <= clock)

\* A running marker stands for a run in progress: a job is not kept out of
\* listDue by the marker of a dead process or of a run that ended.
RunningMarkerTrue ==
  up => \A j \in Jobs : row[j].running =>
          \E t \in Tasks : task[t].pc = "exec" /\ task[t].job = j

\* A job whose schedule yields no next run is disabled by the time the scheduler
\* is idle, after success, failure or a crash in between, so that it cannot keep
\* the timer at zero (handleUnschedulableJob).
UnschedulableEnds ==
  (up /\ enabled /\ Quiet /\ ~running /\ task["start"].pc = "idle") =>
    \A j \in Jobs : Kind[j] = "invalid" => ~row[j].enabled

\* A one-shot job that was disabled, after success or its last retry, never
\* runs again, through restarts and catch-up, unless a wake-up started the loop
\* while start() was catching up on rows it had read before.
OneShotStays == \A j \in done : ~overlap => starts'[j] = starts[j]

\* A one-shot job is tried at most MaxRetries times in a row; a process that
\* dies with it, even between recording the success and disabling the row,
\* grants one more round, never an endless retry.
AttemptsBounded ==
  \A j \in Jobs : ~overlap => starts[j] <= MaxRetries * (crashes + 1)

\* A due job that can run is taken up, unless the hub stops.
DueRuns ==
  \A j \in Jobs : (up /\ j \in defs /\ Due(row[j], clock))
                    ~> (~Due(row[j], clock) \/ stop # "no" \/ ~up)

(* What comments say and the code does not do *)

\* "stop() is async - awaits in-flight run loop before resolving"
StopAwaitsLoop == stop = "resolved" => ~running

\* "One-shot: run exactly once on catch-up": no run of a one-shot job starts
\* after one has ended for good
OneShotExactlyOnce ==
  [][\A j \in done : starts'[j] = starts[j]]_vars

\* "an enabled row with its def absent ... is the busy-spin trap": the timer is
\* never armed at once for rows that no pass can execute
NoGhostSpin ==
  ~ (/\ up /\ enabled /\ task["loop"].pc = "next" /\ task["loop"].queue # <<>>
     /\ \A i \in 1..Len(task["loop"].queue) : task["loop"].queue[i][1] \notin defs)

\* "Job has been scheduled for immediate execution."
TriggeredRuns ==
  \A j \in Jobs : (j \in asked /\ j \in defs)
                    ~> (j \notin asked \/ j \notin defs \/ stop # "no" \/ ~up)
=============================================================================

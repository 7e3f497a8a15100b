------------------------------- MODULE MCJobs -------------------------------
(***************************************************************************)
(* Model checking the job scheduler in four scenarios, one per behaviour:  *)
(* the cron tool at work (the constants of the cfg), crash recovery, a     *)
(* schedule without a next run, and fair scheduling beside an automation.  *)
(***************************************************************************)
EXTENDS JobScheduler

VARIABLE scenario

EveryAndOneShot == <<"every", "at">>
EveryAndCron == <<"every", "cron">>
AnchoredAndInvalid == <<"anchored", "invalid">>
BothStatic == <<"static", "static">>
StaticAndTool == <<"static", "tool">>
StaticAndAutomation == <<"static", "automation">>
Delays == <<1, 2>>

Recovery == INSTANCE JobScheduler WITH
    Kind <- EveryAndOneShot, Origin <- BothStatic, CatchUpRuns <- 2,
    MaxTimerDelay <- 3, MaxClock <- 4, MaxCrashes <- 2, MaxOps <- 0
Unschedulable == INSTANCE JobScheduler WITH
    Kind <- AnchoredAndInvalid, Origin <- BothStatic, CatchUpRuns <- 2,
    MaxTimerDelay <- 3, MaxClock <- 4, MaxCrashes <- 1, MaxOps <- 0
Fair == INSTANCE JobScheduler WITH Origin <- StaticAndAutomation

MCInit ==
    \/ scenario = "requests" /\ Init
    \/ scenario = "recovery" /\ Recovery!Init
    \/ scenario = "unschedulable" /\ Unschedulable!Init
    \/ scenario = "fair" /\ Fair!Init

MCNext ==
    \/ scenario = "requests" /\ Next /\ UNCHANGED scenario
    \/ scenario = "recovery" /\ Recovery!Next /\ UNCHANGED scenario
    \/ scenario = "unschedulable" /\ Unschedulable!Next /\ UNCHANGED scenario
    \/ scenario = "fair" /\ Fair!Next /\ UNCHANGED scenario

MCSpec ==
    /\ MCInit /\ [][MCNext]_<<vars, scenario>>
    /\ (scenario = "fair") => Fair!Fairness

-----------------------------------------------------------------------------
\* Whatever the cron tool, automations, stops, failures and crashes do: an idle
\* scheduler is armed for every enabled row, a running marker stands for a run
\* in progress, a job without a next run ends disabled, and a one-shot job is
\* tried a bounded number of times and, once it ended for good, never again
\* (armTimer, wakeNow, clearStaleRunning, handleUnschedulableJob, seedJobs).
SchedulerSound ==
    /\ [](/\ scenario = "requests" => TypeOK /\ WakeArmed /\ RunningMarkerTrue
          /\ scenario = "recovery" => /\ Recovery!TypeOK /\ Recovery!WakeArmed
                                       /\ Recovery!RunningMarkerTrue
                                       /\ Recovery!AttemptsBounded
          /\ scenario = "unschedulable" => /\ Unschedulable!TypeOK
                                            /\ Unschedulable!RunningMarkerTrue
                                            /\ Unschedulable!UnschedulableEnds)
    /\ [][(scenario = "recovery") => Recovery!OneShotStays]_vars

\* Every due job that can run is taken up in the end, with automations synced
\* meanwhile and across a crash.
DueJobsRun == (scenario = "fair") => Fair!DueRuns
=============================================================================

----------------------------- MODULE MCScheduler -----------------------------
(* Instances of SchedulerTick for TLC. *)
EXTENDS SchedulerTick, TLC

EveryMinute == [s \in Schedules |-> Slots]
EvenMinutes == [s \in Schedules |-> {t \in Slots : t % 2 = 0}]
Pids == Permutations(Daemons)
=============================================================================

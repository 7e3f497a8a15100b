-------------------------- MODULE ChannelRegistry --------------------------
(***************************************************************************)
(* The channel registry of the TypeScript hub for one channel kind: plugin *)
(* instances that are registered and unregistered one after the other,     *)
(* start attempts that take time and may fail, the health monitor that     *)
(* restarts a channel, and stopAll.                                        *)
(* (channels/friday-channel-registry.ts)                                   *)
(***************************************************************************)
EXTENDS Integers, FiniteSets

CONSTANTS
    MaxPlugins,     \* bound: plugin instances registered over time
    Slots,          \* bound: start attempts in flight at one time
    Stops,          \* whether stopAll is called
    Unregisters     \* bound: calls of unregister in flight at one time

ChannelConstants ==
    /\ MaxPlugins \in Nat /\ Unregisters \in Nat /\ Stops \in BOOLEAN

Plugins == 1..MaxPlugins

VARIABLES
    entry,      \* entries.get(kind): the registered plugin, 0 if none
    made,       \* plugin instances created so far
    running,    \* running[p]: the flag of p's entry
    conn,       \* conn[p]: what p's status adapter says
    att,        \* att[s]: the start attempt in slot s
    restarting, failedStart,    \* whether the kind is in these sets
    monitor,    \* the health monitor's interval is set
    unregs,     \* unregs[p]: calls of unregister that wait for p's disconnect
    stop        \* stopAll: "no", "waiting" (for the disconnect), "done"

vars == <<entry, made, running, conn, att, restarting, failedStart, monitor, unregs, stop>>

Free == [p |-> 0, by |-> "none"]

TypeOK ==
    /\ entry \in 0..made /\ made \in 0..MaxPlugins
    /\ running \in [Plugins -> BOOLEAN]
    /\ conn \in [Plugins -> {"disconnected", "connected"}]
    /\ att \in [Slots -> {Free} \cup [p : 1..made, by : {"batch", "restart"}]]
    /\ restarting \in BOOLEAN /\ failedStart \in BOOLEAN /\ monitor \in BOOLEAN
    /\ unregs \in [Plugins -> 0..Unregisters]
    /\ stop \in {"no", "waiting", "done"}

Init ==
    /\ entry = 0 /\ made = 0
    /\ running = [p \in Plugins |-> FALSE]
    /\ conn = [p \in Plugins |-> "disconnected"]
    /\ att = [s \in Slots |-> Free]
    /\ restarting = FALSE /\ failedStart = FALSE /\ monitor = FALSE
    /\ unregs = [p \in Plugins |-> 0]
    /\ stop = "no"

-----------------------------------------------------------------------------
\* register: a fresh plugin; CONFLICT when the kind is there already.
Register ==
    /\ entry = 0 /\ made < MaxPlugins /\ stop = "no"
    /\ made' = made + 1 /\ entry' = made'
    /\ UNCHANGED <<running, conn, att, restarting, failedStart, monitor, unregs, stop>>

\* unregister: a running plugin is disconnected first, any other is dropped.
Unregister ==
    /\ entry # 0
    /\ IF running[entry]
       THEN /\ unregs[entry] < Unregisters
            /\ unregs' = [unregs EXCEPT ![entry] = @ + 1]
            /\ UNCHANGED entry
       ELSE entry' = 0 /\ UNCHANGED unregs
    /\ UNCHANGED <<made, running, conn, att, restarting, failedStart, monitor, stop>>

\* The disconnect it waited for is done: entries.delete(kind).
Unregistered(p) ==
    /\ unregs[p] > 0
    /\ unregs' = [unregs EXCEPT ![p] = @ - 1]
    /\ conn' = [conn EXCEPT ![p] = "disconnected"]
    /\ entry' = 0
    /\ UNCHANGED <<made, running, att, restarting, failedStart, monitor, stop>>

\* The disconnect failed: the entry stays.
UnregisterFails(p) ==
    /\ unregs[p] > 0
    /\ unregs' = [unregs EXCEPT ![p] = @ - 1]
    /\ conn' = [conn EXCEPT ![p] = "disconnected"]
    /\ UNCHANGED <<entry, made, running, att, restarting, failedStart, monitor, stop>>

\* startAllBestEffort: attempt what is not running.
StartBatch(s) ==
    /\ entry # 0 /\ ~running[entry] /\ att[s] = Free /\ stop = "no"
    /\ att' = [att EXCEPT ![s] = [p |-> entry, by |-> "batch"]]
    /\ UNCHANGED <<entry, made, running, conn, restarting, failedStart, monitor, unregs, stop>>

\* buildStartPromise resolves: markConnected, then what its caller does.
AttemptSucceeds(s) ==
    /\ att[s] # Free
    /\ running' = [running EXCEPT ![att[s].p] = TRUE]
    /\ conn' = [conn EXCEPT ![att[s].p] = "connected"]
    /\ failedStart' = FALSE
    /\ restarting' = (restarting /\ att[s].by = "batch")
    /\ att' = [att EXCEPT ![s] = Free]
    /\ UNCHANGED <<entry, made, monitor, unregs, stop>>

\* It rejects: startAllBestEffort remembers the kind, the monitor does not.
AttemptFails(s) ==
    /\ att[s] # Free
    /\ failedStart' = (failedStart \/ att[s].by = "batch")
    /\ restarting' = (restarting /\ att[s].by = "batch")
    /\ att' = [att EXCEPT ![s] = Free]
    /\ UNCHANGED <<entry, made, running, conn, monitor, unregs, stop>>

\* The connection of a plugin breaks.
ConnectionLost(p) ==
    /\ conn[p] = "connected"
    /\ conn' = [conn EXCEPT ![p] = "disconnected"]
    /\ UNCHANGED <<entry, made, running, att, restarting, failedStart, monitor, unregs, stop>>

StartHealthMonitor ==
    /\ ~monitor /\ stop = "no"
    /\ monitor' = TRUE
    /\ UNCHANGED <<entry, made, running, conn, att, restarting, failedStart, unregs, stop>>

HealthCheck_NoGuard(s) ==
    /\ monitor /\ entry # 0 /\ att[s] = Free
    /\ (running[entry] /\ conn[entry] = "disconnected") \/ (~running[entry] /\ failedStart)
    /\ running' = [running EXCEPT ![entry] = FALSE]
    /\ restarting' = TRUE
    /\ att' = [att EXCEPT ![s] = [p |-> entry, by |-> "restart"]]
    /\ UNCHANGED <<entry, made, conn, failedStart, monitor, unregs, stop>>

\* One tick of the monitor: restart a channel that is marked running but
\* disconnected, or that failed its first start; skip every other.
HealthCheck(s) ==
    /\ monitor /\ entry # 0 /\ ~restarting /\ att[s] = Free
    /\ \/ running[entry] /\ conn[entry] = "disconnected"
       \/ ~running[entry] /\ failedStart
    /\ running' = [running EXCEPT ![entry] = FALSE]
    /\ restarting' = TRUE
    /\ att' = [att EXCEPT ![s] = [p |-> entry, by |-> "restart"]]
    /\ UNCHANGED <<entry, made, conn, failedStart, monitor, unregs, stop>>

\* stopAll: stopHealthMonitor, then a disconnect of what is running.
StopAll ==
    /\ Stops /\ stop = "no"
    /\ monitor' = FALSE /\ restarting' = FALSE /\ failedStart' = FALSE
    /\ stop' = IF entry # 0 /\ running[entry] THEN "waiting" ELSE "done"
    /\ UNCHANGED <<entry, made, running, conn, att, unregs>>

\* ... whose finally() clears the flag, whether it succeeded or not.
Stopped ==
    /\ stop = "waiting"
    /\ stop' = "done"
    /\ IF entry = 0 THEN UNCHANGED <<running, conn>>
       ELSE /\ running' = [running EXCEPT ![entry] = FALSE]
            /\ conn' = [conn EXCEPT ![entry] = "disconnected"]
    /\ UNCHANGED <<entry, made, att, restarting, failedStart, monitor, unregs>>

Next ==
    \/ Register \/ Unregister \/ StartHealthMonitor \/ StopAll \/ Stopped
    \/ \E p \in Plugins : Unregistered(p) \/ UnregisterFails(p) \/ ConnectionLost(p)
    \/ \E s \in Slots :
         StartBatch(s) \/ AttemptSucceeds(s) \/ AttemptFails(s) \/ HealthCheck(s)

Spec == Init /\ [][Next]_vars

\* The monitor ticks, an attempt ends, and a channel whose connect is tried
\* again and again is reachable in the end.
Fairness ==
    /\ WF_vars(\E s \in Slots : HealthCheck(s))
    /\ \A s \in Slots :
         /\ WF_vars(AttemptSucceeds(s) \/ AttemptFails(s))
         /\ SF_vars(AttemptSucceeds(s))

-----------------------------------------------------------------------------
(* Properties                                                              *)

\* The monitor never has two restarts of the kind in flight.
OneRestart ==
    Cardinality({s \in Slots : att[s].by = "restart"}) <= 1

\* A connected, registered channel is marked running, or an attempt is about
\* to mark it: send() and update() do not refuse it.
ConnectedUsable ==
    (entry # 0 /\ conn[entry] = "connected" /\ stop = "no")
        => running[entry] \/ \E s \in Slots : att[s].p = entry

\* A channel that failed its first start is tried until it runs, unless it is
\* unregistered, replaced or stopped.
FailedStartRetried ==
    \A p \in Plugins :
        (monitor /\ entry = p /\ failedStart) ~> (running[p] \/ entry # p \/ ~monitor)

\* A registered channel that ran and lost its connection is connected again
\* while the monitor runs.
Reconnected ==
    \A p \in Plugins :
        (monitor /\ entry = p /\ running[p] /\ conn[p] = "disconnected")
            ~> (conn[p] = "connected" \/ entry # p \/ ~monitor)

\* Once stopAll has returned, the channel does not connect any more.
StoppedStaysDown ==
    stop = "done" => \A p \in Plugins : entry = p => conn[p] = "disconnected"

\* A plugin that was unregistered has no connection left.
NoOrphan ==
    \A p \in Plugins : (conn[p] = "connected") => (entry = p)
=============================================================================

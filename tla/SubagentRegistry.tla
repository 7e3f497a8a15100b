-------------------------- MODULE SubagentRegistry --------------------------
(***************************************************************************)
(* The sub-agent registry of the TypeScript hub: child runs spawned by a   *)
(* top-level run or by other child runs, their rows in                     *)
(* friday_subagent_runs, the promises that execute them, callers that poll *)
(* for an outcome, archival, and the hub's stop, crash and boot.           *)
(* (agent/subagent/friday-subagent-registry.ts and its run repository)     *)
(***************************************************************************)
EXTENDS Integers, FiniteSets

CONSTANTS
    Calls,          \* spawn calls, each with the ids it generates
    Root,           \* the top-level run (depth 0)
    Waited,         \* calls whose caller polls for the outcome
    Archived,       \* calls whose record somebody finalizes
    Modes,          \* the spawn modes that callers use
    MaxConcurrent,  \* FRIDAY_SUBAGENT_MAX_CONCURRENT
    MaxDepth,       \* FRIDAY_SUBAGENT_MAX_DEPTH
    MaxBoots,       \* bound: how often the hub starts again
    PrepThrows      \* whether what precedes executeChild's try may throw

SubagentConstants ==
    /\ Root \notin Calls /\ Waited \subseteq Calls /\ Archived \subseteq Calls
    /\ Modes \subseteq {"fresh", "fork"}
    /\ MaxConcurrent \in Nat \ {0}
    /\ MaxDepth \in Nat
    /\ MaxBoots \in Nat
    /\ PrepThrows \in BOOLEAN

VARIABLES
    hub,        \* "up", "stopping" (in drain), "closed" (database closed), "down"
    boots,      \* starts after the first
    pc,         \* pc[c]: where the async call of c stands
    par,        \* par[c]: the run that spawned c
    detached,   \* calls made with spawnDetached
    row,        \* row[c]: status of the stored record, "none" when there is none
    cleanup,    \* records with cleanup_requested
    inFlight,   \* inFlightExecutions
    draining,   \* the executions drain() took when it was called
    wt          \* wt[c]: the caller of waitForCompletion(c)

vars == <<hub, boots, pc, par, detached, row, cleanup, inFlight, draining, wt>>

Active == {"pending", "running"}
Terminal == {"completed", "failed", "cancelled"}
Live == {"forking", "preparing", "running"}

TypeOK ==
    /\ hub \in {"up", "stopping", "closed", "down"}
    /\ boots \in 0..MaxBoots
    /\ pc \in [Calls -> {"idle", "refused", "thrown", "done", "dead"} \cup Live]
    /\ par \in [Calls -> Calls \cup {Root}]
    /\ detached \subseteq Calls
    /\ row \in [Calls -> {"none", "deleted"} \cup Active \cup Terminal]
    /\ cleanup \subseteq Calls
    /\ inFlight \subseteq detached
    /\ draining \subseteq Calls
    /\ wt \in [Calls -> {"none", "waiting", "told", "missing", "timeout", "dead"}]

Init ==
    /\ hub = "up" /\ boots = 0
    /\ pc = [c \in Calls |-> "idle"]
    /\ par = [c \in Calls |-> Root]
    /\ detached = {} /\ cleanup = {} /\ inFlight = {} /\ draining = {}
    /\ row = [c \in Calls |-> "none"]
    /\ wt = [c \in Calls |-> "none"]

-----------------------------------------------------------------------------
DbOpen == hub \in {"up", "stopping"}

\* safeWrite around repo.update: no effect on a closed database, and an UPDATE
\* of a deleted record touches no row.
Updated(c, status) ==
    IF DbOpen /\ row[c] \notin {"none", "deleted"}
    THEN [row EXCEPT ![c] = status] ELSE row

ActiveOf(p) == {c \in Calls : par[c] = p /\ row[c] \in Active}

\* The chain of spawning runs above p, p included.
Ancestors(p) ==
    LET up[n \in 0..Cardinality(Calls)] ==
          IF n = 0 THEN {p} ELSE up[n-1] \cup {par[c] : c \in up[n-1] \ {Root}}
    IN  up[Cardinality(Calls)]
Depth(p) == Cardinality(Ancestors(p)) - 1

\* repo.create, and for a detached call the fire-and-forget of executeChild,
\* which runs up to its first await.
Create(c) ==
    /\ row' = [row EXCEPT ![c] = "pending"]
    /\ pc' = [pc EXCEPT ![c] = "preparing"]
    /\ inFlight' = IF c \in detached' THEN inFlight \cup {c} ELSE inFlight

Spawn_OffByOne(c, p, m, det) ==
    /\ pc[c] = "idle" /\ DbOpen
    /\ p # Root => pc[p] = "running"
    /\ Cardinality(ActiveOf(p)) <= MaxConcurrent
    /\ par' = [par EXCEPT ![c] = p]
    /\ detached' = IF det THEN detached \cup {c} ELSE detached
    /\ Create(c)
    /\ UNCHANGED <<hub, boots, cleanup, draining, wt>>

\* spawn and spawnDetached: depth, then the count of active records, then the
\* record. In mode fork the call waits for forkSession in between. A refused
\* call changes nothing.
Spawn(c, p, m, det) ==
    /\ pc[c] = "idle" /\ DbOpen
    /\ p # Root => pc[p] = "running"
    /\ Depth(p) < MaxDepth
    /\ Cardinality(ActiveOf(p)) < MaxConcurrent
    /\ par' = [par EXCEPT ![c] = p]
    /\ detached' = IF det THEN detached \cup {c} ELSE detached
    /\ \/ m = "fresh" /\ Create(c)
       \/ /\ m = "fork"
          /\ pc' = [pc EXCEPT ![c] = "forking"]
          /\ UNCHANGED <<row, inFlight>>
    /\ UNCHANGED <<hub, boots, cleanup, draining, wt>>

ForkReturns(c) ==
    /\ pc[c] = "forking" /\ DbOpen
    /\ UNCHANGED <<hub, boots, par, detached, cleanup, draining, wt>>
    /\ Create(c)

\* forkSession throws: no such parent session, a conflict, a closed database.
ForkThrows(c) ==
    /\ pc[c] = "forking"
    /\ pc' = [pc EXCEPT ![c] = "refused"]
    /\ UNCHANGED <<hub, boots, par, detached, row, cleanup, inFlight, draining, wt>>

-----------------------------------------------------------------------------
\* executeChild up to childRuntime.executeRun: user rules, prompt, runtime,
\* and the record set to running.
Prepare(c) ==
    /\ pc[c] = "preparing"
    /\ pc' = [pc EXCEPT ![c] = "running"]
    /\ row' = Updated(c, "running")
    /\ UNCHANGED <<hub, boots, par, detached, cleanup, inFlight, draining, wt>>

\* The same part throws. It stands before the try: the rejection goes to the
\* caller (or to nobody), finally() forgets the execution, the record stays.
PrepareThrows(c) ==
    /\ PrepThrows /\ pc[c] = "preparing"
    /\ pc' = [pc EXCEPT ![c] = "thrown"]
    /\ inFlight' = inFlight \ {c}
    /\ UNCHANGED <<hub, boots, par, detached, row, cleanup, draining, wt>>

\* executeRun returns or throws (a throw is stored as failed); finally().
ChildEnds(c, outcome) ==
    /\ pc[c] = "running"
    /\ pc' = [pc EXCEPT ![c] = "done"]
    /\ row' = Updated(c, outcome)
    /\ inFlight' = inFlight \ {c}
    /\ UNCHANGED <<hub, boots, par, detached, cleanup, draining, wt>>

\* waitForCompletion (and startRun): poll the record until it is terminal.
StartWait(c) ==
    /\ c \in Waited \cap detached /\ row[c] # "none" /\ wt[c] = "none" /\ DbOpen
    /\ wt' = [wt EXCEPT ![c] = "waiting"]
    /\ UNCHANGED <<hub, boots, pc, par, detached, row, cleanup, inFlight, draining>>

Poll(c) ==
    /\ wt[c] = "waiting" /\ DbOpen /\ row[c] \in Terminal \cup {"deleted"}
    /\ wt' = [wt EXCEPT ![c] = IF row[c] = "deleted" THEN "missing" ELSE "told"]
    /\ UNCHANGED <<hub, boots, pc, par, detached, row, cleanup, inFlight, draining>>

WaitTimesOut(c) ==
    /\ wt[c] = "waiting"
    /\ wt' = [wt EXCEPT ![c] = "timeout"]
    /\ UNCHANGED <<hub, boots, pc, par, detached, row, cleanup, inFlight, draining>>

Finalize(c) ==
    /\ c \in Archived /\ DbOpen /\ row[c] \in Active \cup Terminal
    /\ cleanup' = cleanup \cup {c}
    /\ UNCHANGED <<hub, boots, pc, par, detached, row, inFlight, draining, wt>>

\* cleanup(beforeIso): the requested records D whose deadline has passed.
Cleanup(D) ==
    /\ DbOpen /\ D # {} /\ D \subseteq cleanup
    /\ row' = [c \in Calls |-> IF c \in D THEN "deleted" ELSE row[c]]
    /\ cleanup' = cleanup \ D
    /\ UNCHANGED <<hub, boots, pc, par, detached, inFlight, draining, wt>>

-----------------------------------------------------------------------------
\* hub.stop() reaches drain(), which waits for the executions in flight now.
Stop ==
    /\ hub = "up"
    /\ hub' = "stopping"
    /\ draining' = inFlight
    /\ UNCHANGED <<boots, pc, par, detached, row, cleanup, inFlight, wt>>

\* All of them settled: drain returns and stop() closes the database.
Drained ==
    /\ hub = "stopping" /\ draining \cap inFlight = {}
    /\ hub' = "closed"
    /\ UNCHANGED <<boots, pc, par, detached, row, cleanup, inFlight, draining, wt>>

DrainTimesOut ==
    /\ hub = "stopping" /\ draining \cap inFlight # {}
    /\ hub' = "closed"
    /\ UNCHANGED <<boots, pc, par, detached, row, cleanup, inFlight, draining, wt>>

\* The process ends, after stop() or by a crash: every promise is gone.
ProcessEnds ==
    /\ hub # "down"
    /\ hub' = "down"
    /\ pc' = [c \in Calls |-> IF pc[c] \in Live THEN "dead" ELSE pc[c]]
    /\ wt' = [c \in Calls |-> IF wt[c] = "waiting" THEN "dead" ELSE wt[c]]
    /\ inFlight' = {} /\ draining' = {}
    /\ UNCHANGED <<boots, par, detached, row, cleanup>>

Boot_RunningOnly ==
    /\ hub = "down" /\ boots < MaxBoots
    /\ hub' = "up" /\ boots' = boots + 1
    /\ row' = [c \in Calls |-> IF row[c] = "running" THEN "failed" ELSE row[c]]
    /\ UNCHANGED <<pc, par, detached, cleanup, inFlight, draining, wt>>

\* resumeOnBoot: every record still pending or running becomes failed.
Boot ==
    /\ hub = "down" /\ boots < MaxBoots
    /\ hub' = "up" /\ boots' = boots + 1
    /\ row' = [c \in Calls |-> IF row[c] \in Active THEN "failed" ELSE row[c]]
    /\ UNCHANGED <<pc, par, detached, cleanup, inFlight, draining, wt>>

Next ==
    \/ \E c \in Calls :
         \/ \E p \in Calls \cup {Root}, m \in Modes, det \in BOOLEAN : Spawn(c, p, m, det)
         \/ ForkReturns(c) \/ ForkThrows(c)
         \/ Prepare(c) \/ PrepareThrows(c)
         \/ \E outcome \in Terminal : ChildEnds(c, outcome)
         \/ StartWait(c) \/ Poll(c) \/ WaitTimesOut(c)
         \/ Finalize(c)
    \/ \E D \in SUBSET Calls : Cleanup(D)
    \/ Stop \/ Drained \/ DrainTimesOut \/ ProcessEnds \/ Boot

Spec == Init /\ [][Next]_vars

\* Promises run to their end (a child's run has its own timeout), drain() has
\* a timeout, a stopped process exits and the hub is started again.
Fairness ==
    /\ \A c \in Calls :
         /\ WF_vars(ForkReturns(c) \/ ForkThrows(c))
         /\ WF_vars(Prepare(c) \/ PrepareThrows(c))
         /\ WF_vars(\E outcome \in Terminal : ChildEnds(c, outcome))
    /\ WF_vars(Drained \/ DrainTimesOut)
    /\ WF_vars(hub = "closed" /\ ProcessEnds)
    /\ WF_vars(Boot)

-----------------------------------------------------------------------------
(* Properties                                                              *)

\* "Maximum concurrent sub-agents per parent run": a run never has more active
\* sub-agents than the limit that prepareSpawn checks, however its parallel tool
\* calls interleave. It holds while nobody forks.
SlotsBounded ==
    \A p \in Calls \cup {Root} : Cardinality(ActiveOf(p)) <= MaxConcurrent

\* Only the return of a forkSession takes a run past the limit, or further past
\* it: no fresh spawn, no end, no boot and no late write does.
OverLimitByForks ==
    \A p \in Calls \cup {Root} :
        (/\ Cardinality(ActiveOf(p)') > MaxConcurrent
         /\ Cardinality(ActiveOf(p)') > Cardinality(ActiveOf(p)))
        => \E c \in Calls : par[c] = p /\ pc[c] = "forking" /\ pc'[c] = "preparing"

\* On a running hub a pending or running record has an execution behind it:
\* what activeCountForParent counts, and waitForCompletion waits for, can end.
CountIsRunning ==
    hub = "up" => \A c \in Calls : row[c] \in Active => pc[c] \in Live

\* An outcome that was stored once is never replaced, neither by a late
\* execution nor by the boot after a crash.
OutcomeStays ==
    \A c \in Calls : (row[c] \in Terminal) => row'[c] \in {row[c], "deleted"}

\* When drain() returns without timing out, no detached child is in flight.
DrainSettles ==
    [][(hub = "stopping" /\ hub' = "closed" /\ draining \cap inFlight = {})
         => (inFlight = {})]_vars

\* cleanup() deletes only the records of sub-agents that have ended.
CleanupSettled ==
    [][\A c \in Calls : (row[c] # "deleted" /\ row'[c] = "deleted")
                         => (row[c] \in Terminal)]_vars

\* Every record that was created ends: by its execution, or by the boot after
\* the process went away, unless the hub is never started again.
SpawnsEnd ==
    <>[](\A c \in Calls : row[c] \notin Active \/ (hub = "down" /\ boots = MaxBoots))
=============================================================================

----------------------------- MODULE HubProofs -----------------------------
(***************************************************************************)
(* Theorems about the services of the hub, for every value of their        *)
(* constants: the sub-agent registry, which this module extends, and the   *)
(* Telegram inbox, the channel registry, the retry loop and the circuit    *)
(* breaker, each an instance with constants and variables of its own.      *)
(*                                                                         *)
(* Sub-agents.  Where a call stands and what its record says are tied by   *)
(* RecordInv, in every hub.  What takes a run past its limit is stated for *)
(* every mode: the return of a fork, and nothing else.  That an active     *)
(* record has an execution behind it needs that nothing before             *)
(* executeChild's try throws.                                              *)
(*                                                                         *)
(* The inbox.  Both modes, awaited handlers or not, any number of poll     *)
(* loops that overlap, and crashes: the three statements have no condition *)
(* besides the types of the constants.                                     *)
(***************************************************************************)
EXTENDS SubagentRegistry, FiniteSetTheorems, WellFoundedInduction, TLAPS

CONSTANTS
    N, Loops, Mode, Awaited, HandlerThrows, MaxStarts, MaxCrashes, MaxFaults,
    MaxPlugins, ChannelSlots, Stops, Unregisters,
    CallIds, Keys, KeyOf, MaxAttempts, EscalateOnExhaustion, MaxExecutionAttempts, CostBudget,
    HasBudget, MaxTokens, RetryLimit,
    Requests, FailureThreshold, HalfOpenSuccessThreshold, MaxTrips

VARIABLES
    sent, acked, inbox, cursor, on, gen, loop, hook, calls, work, done, starts, crashes, faults,
    channel, made, running, conn, att, restarting, failedStart, monitor, unregs, stop,
    call, context, tokens, activeRetries,
    circuit, elapsed, request, failures

Inbox == INSTANCE TelegramInbox WITH row <- inbox
Channels == INSTANCE ChannelRegistry WITH entry <- channel, Slots <- ChannelSlots
Retries == INSTANCE RetryLoop WITH Calls <- CallIds, MaxConcurrent <- RetryLimit
Breaker == INSTANCE CircuitBreaker WITH entry <- circuit

-----------------------------------------------------------------------------
(* The types of the sub-agent registry                                     *)

\* Where a call stands, and what its record says.
PcStates == {"idle", "refused", "thrown", "done", "dead"} \cup Live
Statuses == {"none", "deleted"} \cup Active \cup Terminal

LEMMA TypeInit == SubagentConstants /\ Init => TypeOK
  BY DEF SubagentConstants, Init, TypeOK, Live, Active, Terminal

LEMMA TypeStep ==
    ASSUME SubagentConstants, TypeOK, [Next]_vars
    PROVE  TypeOK'
<1> USE DEF TypeOK
<1>u. \A c \in Calls, s \in Active \cup Terminal : Updated(c, s) \in [Calls -> Statuses]
  BY DEF Updated, Statuses
<1>1. ASSUME NEW c \in Calls, NEW p \in Calls \cup {Root}, NEW m \in Modes, NEW det \in BOOLEAN,
             Spawn(c, p, m, det)
      PROVE  TypeOK'
  BY <1>1 DEF Spawn, Create, Live, Active, Terminal
<1>2. ASSUME NEW c \in Calls, ForkReturns(c) \/ ForkThrows(c) PROVE TypeOK'
  BY <1>2 DEF ForkReturns, ForkThrows, Create, Live, Active, Terminal
<1>3. ASSUME NEW c \in Calls, Prepare(c) \/ PrepareThrows(c) PROVE TypeOK'
  <2>1. pc' \in [Calls -> PcStates]
    BY <1>3 DEF Prepare, PrepareThrows, PcStates, Live
  <2>2. row' \in [Calls -> Statuses]
    BY <1>3, <1>u DEF Prepare, PrepareThrows, Active, Statuses
  <2>3. QED  BY <1>3, <2>1, <2>2 DEF Prepare, PrepareThrows, PcStates, Statuses
<1>4. ASSUME NEW c \in Calls, NEW o \in Terminal, ChildEnds(c, o) PROVE TypeOK'
  BY <1>4, <1>u DEF ChildEnds, Statuses
<1>5. ASSUME NEW c \in Calls, StartWait(c) \/ Poll(c) \/ WaitTimesOut(c) \/ Finalize(c) PROVE TypeOK'
  BY <1>5 DEF StartWait, Poll, WaitTimesOut, Finalize
<1>6. ASSUME NEW D \in SUBSET Calls, Cleanup(D) PROVE TypeOK'
  BY <1>6 DEF Cleanup
<1>7. CASE Stop \/ Drained \/ DrainTimesOut
  BY <1>7 DEF Stop, Drained, DrainTimesOut
<1>8. CASE ProcessEnds
  BY <1>8 DEF ProcessEnds
<1>9. CASE Boot
  BY <1>9 DEF Boot, Terminal, SubagentConstants
<1>10. CASE UNCHANGED vars
  BY <1>10 DEF vars
<1>11. QED  BY <1>1, <1>2, <1>3, <1>4, <1>5, <1>6, <1>7, <1>8, <1>9, <1>10 DEF Next

\* The rows and sets of the registry keep their types.
THEOREM TypeCorrect == SubagentConstants => (Spec => []TypeOK)
<1> SUFFICES ASSUME SubagentConstants PROVE Spec => []TypeOK
  OBVIOUS
<1>1. QED  BY TypeInit, TypeStep, PTL DEF Spec

-----------------------------------------------------------------------------
(* Calls and their records                                                 *)

\* A record exists from repo.create on, an execution finds it active or
\* deleted, and a process that is gone executes nothing.
RecordInv ==
    \A c \in Calls :
        /\ pc[c] \in {"idle", "forking"} => row[c] = "none"
        /\ pc[c] \in {"preparing", "running"} => row[c] \in Active \cup {"deleted"}
        /\ hub = "down" => pc[c] \notin Live
        /\ c \in cleanup => row[c] # "none"

LEMMA RecordInit == Init => RecordInv
  BY DEF Init, RecordInv, Live

\* Only one call's place and record change in most steps.
LEMMA OneCall ==
    ASSUME TypeOK, RecordInv, NEW c \in Calls, UNCHANGED <<hub, cleanup>>,
           \A b \in Calls : b # c => pc'[b] = pc[b] /\ row'[b] = row[b],
           pc'[c] \in {"idle", "forking"} => row'[c] = "none",
           pc'[c] \in {"preparing", "running"} => row'[c] \in Active \cup {"deleted"},
           hub = "down" => pc'[c] \notin Live, row[c] # "none" => row'[c] # "none"
    PROVE  RecordInv'
  BY DEF RecordInv

\* safeWrite touches the record of its own call, and no missing or deleted one.
LEMMA UpdatedOne ==
    ASSUME TypeOK, NEW c \in Calls, NEW s, row' = Updated(c, s)
    PROVE  /\ \A b \in Calls : b # c => row'[b] = row[b]
           /\ row'[c] \in {row[c], s}
           /\ row[c] \in {"none", "deleted"} => row'[c] = row[c]
           /\ DbOpen /\ row[c] \notin {"none", "deleted"} => row'[c] = s
  BY DEF TypeOK, Updated

LEMMA RecordStep ==
    ASSUME TypeOK, RecordInv, [Next]_vars
    PROVE  RecordInv'
<1>t. pc \in [Calls -> PcStates] /\ row \in [Calls -> Statuses]
  BY DEF TypeOK, PcStates, Statuses
<1>1. ASSUME NEW c \in Calls, NEW p \in Calls \cup {Root}, NEW m \in Modes, NEW det \in BOOLEAN,
             Spawn(c, p, m, det)
      PROVE  RecordInv'
  <2>1. pc[c] = "idle" /\ row[c] = "none" /\ hub # "down" /\ UNCHANGED <<hub, cleanup>>
    BY <1>1 DEF Spawn, RecordInv, DbOpen
  <2>2. CASE Create(c)
    BY <1>t, <2>1, <2>2, OneCall DEF Create, Active
  <2>3. CASE pc' = [pc EXCEPT ![c] = "forking"] /\ UNCHANGED <<row, inFlight>>
    BY <1>t, <2>1, <2>3, OneCall
  <2>4. QED  BY <1>1, <2>2, <2>3 DEF Spawn
<1>2. ASSUME NEW c \in Calls, ForkReturns(c) PROVE RecordInv'
  <2>1. hub # "down" /\ UNCHANGED <<hub, cleanup>>
    BY <1>2 DEF ForkReturns, DbOpen
  <2>2. QED  BY <1>2, <1>t, <2>1, OneCall DEF ForkReturns, Create, Active
<1>3. ASSUME NEW c \in Calls, ForkThrows(c) PROVE RecordInv'
  BY <1>3, <1>t, OneCall DEF ForkThrows, Live
<1>4. ASSUME NEW c \in Calls, Prepare(c) PROVE RecordInv'
  <2>1. row[c] \in Active \cup {"deleted"} /\ hub # "down" /\ UNCHANGED <<hub, cleanup>>
    BY <1>4 DEF Prepare, RecordInv, Live
  <2>2. pc'[c] = "running" /\ \A b \in Calls : b # c => pc'[b] = pc[b]
    BY <1>4, <1>t DEF Prepare
  <2>3. row'[c] \in Active \cup {"deleted"} /\ \A b \in Calls : b # c => row'[b] = row[b]
    BY <1>4, <2>1, UpdatedOne DEF Prepare, Active
  <2>4. QED  BY <2>1, <2>2, <2>3, OneCall DEF Active
<1>5. ASSUME NEW c \in Calls, PrepareThrows(c) PROVE RecordInv'
  BY <1>5, <1>t, OneCall DEF PrepareThrows, Live
<1>6. ASSUME NEW c \in Calls, NEW o \in Terminal, ChildEnds(c, o) PROVE RecordInv'
  <2>1. pc'[c] = "done" /\ UNCHANGED <<hub, cleanup>> /\ \A b \in Calls : b # c => pc'[b] = pc[b]
    BY <1>6, <1>t DEF ChildEnds
  <2>2. row'[c] \in {row[c], o} /\ \A b \in Calls : b # c => row'[b] = row[b]
    BY <1>6, UpdatedOne DEF ChildEnds
  <2>3. QED  BY <2>1, <2>2, OneCall DEF Live, Terminal
<1>7. ASSUME NEW D \in SUBSET Calls, Cleanup(D) PROVE RecordInv'
  <2>1. \A c \in D : row[c] # "none"
    BY <1>7 DEF Cleanup, RecordInv
  <2>2. QED  BY <1>7, <2>1 DEF Cleanup, RecordInv
<1>8. CASE ProcessEnds
  BY <1>8, <1>t DEF ProcessEnds, RecordInv, PcStates, Live
<1>9. CASE Boot
  BY <1>9, <1>t DEF Boot, RecordInv, Live, Active
<1>10. CASE Stop \/ Drained \/ DrainTimesOut
  BY <1>10 DEF Stop, Drained, DrainTimesOut, RecordInv
<1>11. ASSUME NEW c \in Calls, StartWait(c) \/ Poll(c) \/ WaitTimesOut(c) \/ Finalize(c)
       PROVE  RecordInv'
  BY <1>11 DEF StartWait, Poll, WaitTimesOut, Finalize, RecordInv, Active, Terminal
<1>12. CASE UNCHANGED vars
  BY <1>12 DEF vars, RecordInv
<1>13. QED  BY <1>1, <1>2, <1>3, <1>4, <1>5, <1>6, <1>7, <1>8, <1>9, <1>10, <1>11, <1>12 DEF Next

LEMMA RecordInvariance == SubagentConstants => (Spec => [](TypeOK /\ RecordInv))
<1> SUFFICES ASSUME SubagentConstants PROVE Spec => [](TypeOK /\ RecordInv)
  OBVIOUS
<1>1. Init => TypeOK /\ RecordInv
  BY TypeInit, RecordInit
<1>2. TypeOK /\ RecordInv /\ [Next]_vars => TypeOK' /\ RecordInv'
  BY TypeStep, RecordStep
<1>3. QED  BY <1>1, <1>2, PTL DEF Spec

-----------------------------------------------------------------------------
(* Outcomes                                                                *)

LEMMA OutcomeStep ==
    ASSUME TypeOK, RecordInv, [Next]_vars
    PROVE  OutcomeStays
<1> SUFFICES ASSUME NEW q \in Calls, row[q] \in Terminal
             PROVE  row'[q] \in {row[q], "deleted"}
  BY DEF OutcomeStays
<1>t. pc[q] \notin {"idle", "forking", "preparing", "running"} /\ row \in [Calls -> Statuses]
  BY DEF RecordInv, Terminal, Active, TypeOK, Statuses
<1>1. ASSUME NEW c \in Calls, NEW p \in Calls \cup {Root}, NEW m \in Modes, NEW det \in BOOLEAN,
             Spawn(c, p, m, det)
      PROVE  row'[q] = row[q]
  BY <1>1, <1>t DEF Spawn, Create
<1>f. ASSUME NEW c \in Calls, ForkReturns(c) PROVE row'[q] = row[q]
  BY <1>f, <1>t DEF ForkReturns, Create
<1>2. ASSUME NEW c \in Calls, Prepare(c) \/ \E o \in Terminal : ChildEnds(c, o)
      PROVE  row'[q] = row[q]
  <2>1. c # q
    BY <1>2, <1>t DEF Prepare, ChildEnds
  <2>2. QED  BY <1>2, <2>1, UpdatedOne DEF Prepare, ChildEnds
<1>3. ASSUME NEW c \in Calls, \/ ForkThrows(c) \/ PrepareThrows(c)
                              \/ StartWait(c) \/ Poll(c) \/ WaitTimesOut(c) \/ Finalize(c)
      PROVE  row' = row
  BY <1>3 DEF ForkThrows, PrepareThrows, StartWait, Poll, WaitTimesOut, Finalize
<1>4. ASSUME NEW D \in SUBSET Calls, Cleanup(D) PROVE row'[q] \in {row[q], "deleted"}
  BY <1>4 DEF Cleanup
<1>5. CASE Boot
  BY <1>5 DEF Boot, Active, Terminal
<1>6. CASE Stop \/ Drained \/ DrainTimesOut \/ ProcessEnds \/ UNCHANGED vars
  BY <1>6 DEF Stop, Drained, DrainTimesOut, ProcessEnds, vars
<1>7. QED  BY <1>1, <1>f, <1>2, <1>3, <1>4, <1>5, <1>6 DEF Next

\* executeChild, cleanup and resumeOnBoot: an outcome that was stored once is
\* never replaced, neither by a late execution nor by the boot after a crash.
THEOREM OutcomeStaysHolds == SubagentConstants => (Spec => [][OutcomeStays]_vars)
<1> SUFFICES ASSUME SubagentConstants PROVE Spec => [][OutcomeStays]_vars
  OBVIOUS
<1>1. QED  BY RecordInvariance, OutcomeStep, PTL DEF Spec

-----------------------------------------------------------------------------
(* What is active runs                                                     *)

\* While the database is open an active record has its execution.
ActiveRuns ==
    hub \in {"up", "stopping"} =>
        \A c \in Calls : row[c] \in Active => pc[c] \in {"preparing", "running"}

LEMMA ActiveInit == Init => ActiveRuns
  BY DEF Init, ActiveRuns, Active

LEMMA ActiveStep ==
    ASSUME ~PrepThrows, TypeOK, RecordInv, ActiveRuns, [Next]_vars
    PROVE  ActiveRuns'
<1> SUFFICES ASSUME hub' \in {"up", "stopping"}, NEW q \in Calls, row'[q] \in Active
             PROVE  pc'[q] \in {"preparing", "running"}
  BY DEF ActiveRuns
<1>t. pc \in [Calls -> PcStates] /\ row \in [Calls -> Statuses]
  BY DEF TypeOK, PcStates, Statuses
<1>1. ASSUME NEW c \in Calls, NEW p \in Calls \cup {Root}, NEW m \in Modes, NEW det \in BOOLEAN,
             Spawn(c, p, m, det)
      PROVE  pc'[q] \in {"preparing", "running"}
  <2>1. c = q => row[q] = "none"
    BY <1>1 DEF Spawn, RecordInv
  <2>2. QED  BY <1>1, <1>t, <2>1 DEF Spawn, Create, ActiveRuns, Active
<1>2. ASSUME NEW c \in Calls, ForkReturns(c) \/ ForkThrows(c)
      PROVE  pc'[q] \in {"preparing", "running"}
  <2>1. c = q => row[q] = "none"
    BY <1>2 DEF ForkReturns, ForkThrows, RecordInv
  <2>2. QED  BY <1>2, <1>t, <2>1 DEF ForkReturns, ForkThrows, Create, ActiveRuns, Active
<1>3. ASSUME NEW c \in Calls, Prepare(c) \/ \E o \in Terminal : ChildEnds(c, o)
      PROVE  pc'[q] \in {"preparing", "running"}
  <2>1. UNCHANGED hub
    BY <1>3 DEF Prepare, ChildEnds
  <2>2. CASE c # q
    <3>1. row'[q] = row[q] /\ pc'[q] = pc[q]
      BY <1>3, <1>t, <2>2, UpdatedOne DEF Prepare, ChildEnds
    <3>2. QED  BY <2>1, <3>1 DEF ActiveRuns
  <2>3. CASE c = q /\ Prepare(c)
    BY <1>t, <2>3 DEF Prepare
  <2>4. ASSUME c = q, NEW o \in Terminal, ChildEnds(c, o) PROVE FALSE
    <3>1. DbOpen /\ row[q] \in Active \cup {"deleted"}
      BY <2>1, <2>4 DEF DbOpen, ChildEnds, RecordInv
    <3>2. row'[q] \in {o, "deleted"}
      BY <2>4, <3>1, UpdatedOne DEF ChildEnds, Active
    <3>3. QED  BY <3>2 DEF Active, Terminal
  <2>5. QED  BY <1>3, <2>2, <2>3, <2>4
<1>4. ASSUME NEW D \in SUBSET Calls, Cleanup(D) PROVE pc'[q] \in {"preparing", "running"}
  BY <1>4 DEF Cleanup, ActiveRuns, Active
<1>5. ASSUME NEW c \in Calls, StartWait(c) \/ Poll(c) \/ WaitTimesOut(c) \/ Finalize(c)
      PROVE  pc'[q] \in {"preparing", "running"}
  BY <1>5 DEF StartWait, Poll, WaitTimesOut, Finalize, ActiveRuns
<1>6. CASE Boot
  BY <1>6 DEF Boot, Active
<1>7. CASE Stop \/ Drained \/ DrainTimesOut \/ ProcessEnds \/ UNCHANGED vars
  BY <1>7 DEF Stop, Drained, DrainTimesOut, ProcessEnds, vars, ActiveRuns
<1>8. \A c \in Calls : ~PrepareThrows(c)
  BY DEF PrepareThrows
<1>9. QED  BY <1>1, <1>2, <1>3, <1>4, <1>5, <1>6, <1>7, <1>8 DEF Next

LEMMA ActiveImplies == ActiveRuns => CountIsRunning
  BY DEF ActiveRuns, CountIsRunning, Live

\* activeCountForParent and waitForCompletion: while nothing before the try of
\* executeChild throws, an active record of a running hub has its execution,
\* through drains that time out, crashes and boots.
THEOREM CountIsRunningHolds ==
    SubagentConstants /\ ~PrepThrows => (Spec => []CountIsRunning)
<1> SUFFICES ASSUME SubagentConstants, ~PrepThrows PROVE Spec => []CountIsRunning
  OBVIOUS
<1>1. QED  BY RecordInvariance, ActiveInit, ActiveStep, ActiveImplies, PTL DEF Spec

-----------------------------------------------------------------------------
(* The limit                                                               *)

Slots == \A p \in Calls \cup {Root} :
    IsFiniteSet(ActiveOf(p)) /\ Cardinality(ActiveOf(p)) <= MaxConcurrent

LEMMA SlotsInit == SubagentConstants /\ Init => Slots
<1> SUFFICES ASSUME SubagentConstants, Init, NEW p \in Calls \cup {Root}
             PROVE  IsFiniteSet(ActiveOf(p)) /\ Cardinality(ActiveOf(p)) <= MaxConcurrent
  BY DEF Slots
<1>1. ActiveOf(p) = {}
  BY DEF Init, ActiveOf, Active
<1>2. QED  BY <1>1, FS_EmptySet DEF SubagentConstants

\* Fewer active records are within the limit too.
LEMMA SlotsShrink ==
    ASSUME SubagentConstants, Slots,
           \A p \in Calls \cup {Root} : ActiveOf(p)' \subseteq ActiveOf(p)
    PROVE  Slots'
<1> SUFFICES ASSUME NEW p \in Calls \cup {Root}
             PROVE  IsFiniteSet(ActiveOf(p)') /\ Cardinality(ActiveOf(p)') <= MaxConcurrent
  BY DEF Slots
<1>1. IsFiniteSet(ActiveOf(p)) /\ Cardinality(ActiveOf(p)) <= MaxConcurrent
      /\ ActiveOf(p)' \subseteq ActiveOf(p)
  BY DEF Slots
<1>2. /\ IsFiniteSet(ActiveOf(p)')
      /\ Cardinality(ActiveOf(p)') <= Cardinality(ActiveOf(p))
  BY <1>1, FS_Subset
<1>3. Cardinality(ActiveOf(p)') \in Nat /\ Cardinality(ActiveOf(p)) \in Nat
  BY <1>1, <1>2, FS_CardinalityType
<1>4. QED  BY <1>1, <1>2, <1>3 DEF SubagentConstants

NoForks == \A c \in Calls : pc[c] # "forking"

LEMMA SlotsStep ==
    ASSUME SubagentConstants, Modes \subseteq {"fresh"}, TypeOK, RecordInv, Slots, NoForks, [Next]_vars
    PROVE  Slots'
<1>t. row \in [Calls -> Statuses] /\ par \in [Calls -> Calls \cup {Root}]
  BY DEF TypeOK, Statuses
<1>1. ASSUME NEW c \in Calls, NEW p \in Calls \cup {Root}, NEW m \in Modes, NEW det \in BOOLEAN,
             Spawn(c, p, m, det)
      PROVE  Slots'
  <2>1. row[c] = "none" /\ row' = [row EXCEPT ![c] = "pending"] /\ par' = [par EXCEPT ![c] = p]
    BY <1>1 DEF Spawn, Create, RecordInv
  <2>2. Cardinality(ActiveOf(p)) < MaxConcurrent /\ IsFiniteSet(ActiveOf(p))
    BY <1>1 DEF Spawn, Slots
  <2>3. ActiveOf(p)' = ActiveOf(p) \cup {c} /\ c \notin ActiveOf(p)
    BY <1>t, <2>1 DEF ActiveOf, Active
  <2>4. \A q \in Calls \cup {Root} : q # p => ActiveOf(q)' = ActiveOf(q)
    BY <1>t, <2>1 DEF ActiveOf, Active
  <2>5. IsFiniteSet(ActiveOf(p)') /\ Cardinality(ActiveOf(p)') = Cardinality(ActiveOf(p)) + 1
    BY <2>2, <2>3, FS_AddElement
  <2>6. Cardinality(ActiveOf(p)) \in Nat
    BY <2>2, FS_CardinalityType
  <2>7. Cardinality(ActiveOf(p)') <= MaxConcurrent
    BY <2>2, <2>5, <2>6 DEF SubagentConstants
  <2>8. QED  BY <2>4, <2>5, <2>7 DEF Slots
<1>2. ASSUME NEW c \in Calls, Prepare(c) \/ \E o \in Terminal : ChildEnds(c, o)
      PROVE  Slots'
  <2>1. UNCHANGED par /\ row[c] \in Active \cup {"deleted"}
    BY <1>2 DEF Prepare, ChildEnds, RecordInv
  <2>2. \A b \in Calls : row'[b] \in Active => row[b] \in Active
    BY <1>2, <2>1, UpdatedOne DEF Prepare, ChildEnds, Active
  <2>3. QED  BY <2>1, <2>2, SlotsShrink DEF ActiveOf
<1>3. ASSUME NEW c \in Calls, \/ PrepareThrows(c)
                              \/ StartWait(c) \/ Poll(c) \/ WaitTimesOut(c) \/ Finalize(c)
      PROVE  Slots'
  <2>1. UNCHANGED <<row, par>>
    BY <1>3 DEF PrepareThrows, StartWait, Poll, WaitTimesOut, Finalize
  <2>2. QED  BY <2>1, SlotsShrink DEF ActiveOf
<1>4. ASSUME NEW D \in SUBSET Calls, Cleanup(D) \/ Boot PROVE Slots'
  <2>1. UNCHANGED par /\ \A b \in Calls : row'[b] \in Active => row[b] \in Active
    BY <1>4 DEF Cleanup, Boot, Active
  <2>2. QED  BY <2>1, SlotsShrink DEF ActiveOf
<1>5. CASE Stop \/ Drained \/ DrainTimesOut \/ ProcessEnds \/ UNCHANGED vars
  <2>1. UNCHANGED <<row, par>>
    BY <1>5 DEF Stop, Drained, DrainTimesOut, ProcessEnds, vars
  <2>2. QED  BY <2>1, SlotsShrink DEF ActiveOf
<1>6. \A c \in Calls : ~ForkReturns(c) /\ ~ForkThrows(c)
  BY DEF ForkReturns, ForkThrows, NoForks
<1>7. QED  BY <1>1, <1>2, <1>3, <1>4, <1>5, <1>6 DEF Next

LEMMA NoForksStep ==
    ASSUME Modes \subseteq {"fresh"}, TypeOK, NoForks, [Next]_vars
    PROVE  NoForks'
<1> USE DEF NoForks, TypeOK
<1>1. ASSUME NEW c \in Calls, NEW p \in Calls \cup {Root}, NEW m \in Modes, NEW det \in BOOLEAN,
             Spawn(c, p, m, det)
      PROVE  NoForks'
  BY <1>1 DEF Spawn, Create
<1>2. ASSUME NEW c \in Calls, ForkReturns(c) \/ ForkThrows(c) PROVE FALSE
  BY <1>2 DEF ForkReturns, ForkThrows
<1>3. ASSUME NEW c \in Calls, Prepare(c) \/ PrepareThrows(c) \/ \E o \in Terminal : ChildEnds(c, o)
      PROVE  NoForks'
  BY <1>3 DEF Prepare, PrepareThrows, ChildEnds
<1>4. ASSUME NEW c \in Calls, StartWait(c) \/ Poll(c) \/ WaitTimesOut(c) \/ Finalize(c)
      PROVE  NoForks'
  BY <1>4 DEF StartWait, Poll, WaitTimesOut, Finalize
<1>5. CASE (\E D \in SUBSET Calls : Cleanup(D)) \/ Stop \/ Drained \/ DrainTimesOut \/ Boot
           \/ UNCHANGED vars
  BY <1>5 DEF Cleanup, Stop, Drained, DrainTimesOut, Boot, vars
<1>6. CASE ProcessEnds
  BY <1>6 DEF ProcessEnds
<1>7. QED  BY <1>1, <1>2, <1>3, <1>4, <1>5, <1>6 DEF Next

\* prepareSpawn: while no caller forks, a run never has more active sub-agents
\* than the limit: the count and the record are one synchronous step.
LEMMA SlotsBoundedFresh ==
    SubagentConstants /\ Modes \subseteq {"fresh"} => (Spec => []SlotsBounded)
<1> SUFFICES ASSUME SubagentConstants, Modes \subseteq {"fresh"} PROVE Spec => []SlotsBounded
  OBVIOUS
<1>1. Init => NoForks /\ Slots
  BY SlotsInit DEF Init, NoForks
<1>2. TypeOK /\ RecordInv /\ NoForks /\ Slots /\ [Next]_vars => NoForks' /\ Slots'
  BY NoForksStep, SlotsStep
<1>3. Slots => SlotsBounded
  BY DEF Slots, SlotsBounded
<1>4. QED  BY <1>1, <1>2, <1>3, RecordInvariance, PTL DEF Spec

\* Fewer active records, or the same, take no run past its limit.
LEMMA OverShrinks ==
    ASSUME IsFiniteSet(Calls), \A p \in Calls \cup {Root} : ActiveOf(p)' \subseteq ActiveOf(p)
    PROVE  OverLimitByForks
<1> SUFFICES ASSUME NEW p \in Calls \cup {Root}
             PROVE  ~(Cardinality(ActiveOf(p)') > Cardinality(ActiveOf(p)))
  BY DEF OverLimitByForks
<1>1. IsFiniteSet(ActiveOf(p)) /\ ActiveOf(p)' \subseteq ActiveOf(p)
  <2>1. ActiveOf(p) \subseteq Calls
    BY DEF ActiveOf
  <2>2. QED  BY <2>1, FS_Subset
<1>2. Cardinality(ActiveOf(p)') <= Cardinality(ActiveOf(p)) /\ IsFiniteSet(ActiveOf(p)')
  BY <1>1, FS_Subset
<1>3. Cardinality(ActiveOf(p)') \in Nat /\ Cardinality(ActiveOf(p)) \in Nat
  BY <1>1, <1>2, FS_CardinalityType
<1>4. QED  BY <1>2, <1>3

LEMMA OverLimitStep ==
    ASSUME SubagentConstants, IsFiniteSet(Calls), TypeOK, RecordInv, [Next]_vars
    PROVE  OverLimitByForks
<1>t. row \in [Calls -> Statuses] /\ par \in [Calls -> Calls \cup {Root}] /\ pc \in [Calls -> PcStates]
  BY DEF TypeOK, Statuses, PcStates
<1>1. ASSUME NEW c \in Calls, NEW p \in Calls \cup {Root}, NEW m \in Modes, NEW det \in BOOLEAN,
             Spawn(c, p, m, det)
      PROVE  OverLimitByForks
  <2>1. row[c] = "none" /\ par' = [par EXCEPT ![c] = p]
    BY <1>1 DEF Spawn, RecordInv
  <2>2. CASE row' = [row EXCEPT ![c] = "pending"]
    <3>1. ActiveOf(p)' = ActiveOf(p) \cup {c} /\ c \notin ActiveOf(p)
      BY <1>t, <2>1, <2>2 DEF ActiveOf, Active
    <3>2. \A q \in Calls \cup {Root} : q # p => ActiveOf(q)' = ActiveOf(q)
      BY <1>t, <2>1, <2>2 DEF ActiveOf, Active
    <3>3. IsFiniteSet(ActiveOf(p))
      <4>1. ActiveOf(p) \subseteq Calls
        BY DEF ActiveOf
      <4>2. QED  BY <4>1, FS_Subset
    <3>4. Cardinality(ActiveOf(p)') = Cardinality(ActiveOf(p)) + 1
      BY <3>1, <3>3, FS_AddElement
    <3>5. Cardinality(ActiveOf(p)) \in Nat /\ Cardinality(ActiveOf(p)) < MaxConcurrent
      BY <1>1, <3>3, FS_CardinalityType DEF Spawn
    <3>6. ~(Cardinality(ActiveOf(p)') > MaxConcurrent)
      BY <3>4, <3>5 DEF SubagentConstants
    <3>7. \A q \in Calls \cup {Root} : q # p =>
            ~(Cardinality(ActiveOf(q)') > Cardinality(ActiveOf(q)))
      <4>1. SUFFICES ASSUME NEW q \in Calls \cup {Root}, q # p
                     PROVE  ~(Cardinality(ActiveOf(q)') > Cardinality(ActiveOf(q)))
        OBVIOUS
      <4>2. IsFiniteSet(ActiveOf(q)) /\ ActiveOf(q)' = ActiveOf(q)
        <5>1. ActiveOf(q) \subseteq Calls
          BY DEF ActiveOf
        <5>2. QED  BY <3>2, <4>1, <5>1, FS_Subset
      <4>3. Cardinality(ActiveOf(q)) \in Nat
        BY <4>2, FS_CardinalityType
      <4>4. QED  BY <4>2, <4>3
    <3>8. QED  BY <3>6, <3>7 DEF OverLimitByForks
  <2>3. CASE UNCHANGED row
    <3>1. \A q \in Calls \cup {Root} : ActiveOf(q)' \subseteq ActiveOf(q)
      BY <1>t, <2>1, <2>3 DEF ActiveOf, Active
    <3>2. QED  BY <3>1, OverShrinks
  <2>4. QED  BY <1>1, <2>2, <2>3 DEF Spawn, Create
<1>2. ASSUME NEW c \in Calls, ForkReturns(c) PROVE OverLimitByForks
  <2>1. /\ pc[c] = "forking" /\ pc'[c] = "preparing" /\ UNCHANGED par
        /\ row' = [row EXCEPT ![c] = "pending"]
    BY <1>2, <1>t DEF ForkReturns, Create
  <2>2. SUFFICES ASSUME NEW q \in Calls \cup {Root}, par[c] # q
                 PROVE  ~(Cardinality(ActiveOf(q)') > Cardinality(ActiveOf(q)))
    BY <2>1 DEF OverLimitByForks
  <2>3. ActiveOf(q)' = ActiveOf(q)
    BY <1>t, <2>1, <2>2 DEF ActiveOf, Active
  <2>4. Cardinality(ActiveOf(q)) \in Nat
    <3>1. ActiveOf(q) \subseteq Calls
      BY DEF ActiveOf
    <3>2. IsFiniteSet(ActiveOf(q))
      BY <3>1, FS_Subset
    <3>3. QED  BY <3>2, FS_CardinalityType
  <2>5. QED  BY <2>3, <2>4
<1>3. ASSUME NEW c \in Calls, Prepare(c) \/ \E o \in Terminal : ChildEnds(c, o)
      PROVE  OverLimitByForks
  <2>1. UNCHANGED par /\ row[c] \in Active \cup {"deleted"}
    BY <1>3 DEF Prepare, ChildEnds, RecordInv
  <2>2. \A b \in Calls : row'[b] \in Active => row[b] \in Active
    BY <1>3, <2>1, UpdatedOne DEF Prepare, ChildEnds, Active
  <2>3. QED  BY <2>1, <2>2, OverShrinks DEF ActiveOf
<1>4. ASSUME NEW c \in Calls, \/ ForkThrows(c) \/ PrepareThrows(c)
                              \/ StartWait(c) \/ Poll(c) \/ WaitTimesOut(c) \/ Finalize(c)
      PROVE  OverLimitByForks
  <2>1. UNCHANGED <<row, par>>
    BY <1>4 DEF ForkThrows, PrepareThrows, StartWait, Poll, WaitTimesOut, Finalize
  <2>2. QED  BY <2>1, OverShrinks DEF ActiveOf
<1>5. ASSUME NEW D \in SUBSET Calls, Cleanup(D) \/ Boot PROVE OverLimitByForks
  <2>1. UNCHANGED par /\ \A b \in Calls : row'[b] \in Active => row[b] \in Active
    BY <1>5 DEF Cleanup, Boot, Active
  <2>2. QED  BY <2>1, OverShrinks DEF ActiveOf
<1>6. CASE Stop \/ Drained \/ DrainTimesOut \/ ProcessEnds \/ UNCHANGED vars
  <2>1. UNCHANGED <<row, par>>
    BY <1>6 DEF Stop, Drained, DrainTimesOut, ProcessEnds, vars
  <2>2. QED  BY <2>1, OverShrinks DEF ActiveOf
<1>7. QED  BY <1>1, <1>2, <1>3, <1>4, <1>5, <1>6 DEF Next

\* prepareSpawn, in every mode: between the count and the record a fork awaits
\* forkSession, so parallel forks of one run pass the same count. Nothing else
\* takes a run past its limit: no fresh spawn, late end, archival or boot.
THEOREM OverLimitByForksHolds ==
    SubagentConstants /\ IsFiniteSet(Calls) => (Spec => [][OverLimitByForks]_vars)
<1> SUFFICES ASSUME SubagentConstants, IsFiniteSet(Calls) PROVE Spec => [][OverLimitByForks]_vars
  OBVIOUS
<1>1. TypeOK /\ RecordInv /\ [Next]_vars => OverLimitByForks
  BY OverLimitStep
<1>2. QED  BY <1>1, RecordInvariance, PTL DEF Spec

-----------------------------------------------------------------------------
(* The Telegram inbox                                                      *)
LEMMA LeastIn ==
    ASSUME NEW S, S # {}, S \subseteq Nat
    PROVE  Inbox!Least(S) \in S /\ \A v \in S : Inbox!Least(S) <= v
<1>1. PICK x \in S : \A y \in S : ~(<<y, x>> \in OpToRel(<, Nat))
  BY NatLessThanWellFounded, WFMin
<1>2. ASSUME NEW y \in S PROVE x <= y
  <2>1. ~(y < x)
    BY <1>1 DEF OpToRel
  <2>2. QED  BY <2>1
<1>3. QED  BY <1>1, <1>2 DEF Inbox!Least

InboxStatuses == {"none", "pending", "unknown", "processed", "pruned"}
LoopRecords == [at : {"off", "recover", "recovering", "fetch", "batch", "delivering", "sleep"},
                todo : SUBSET Inbox!Updates, u : 0..N, offset : 0..(N + 1), gen : 0..MaxStarts]
HoldsUpdate(r) == r.u # 0 <=> r.at \in {"delivering", "recovering"}

\* The type invariant, part by part.
CountsOK ==
    /\ sent \in 0..N /\ acked \subseteq Inbox!Updates /\ cursor \in 0..(N + 1)
    /\ on \in BOOLEAN /\ gen \in 0..MaxStarts
    /\ starts \in 0..MaxStarts /\ crashes \in 0..MaxCrashes /\ faults \in 0..MaxFaults
RowsOK == inbox \in [Inbox!Updates -> InboxStatuses]
LoopsOK == loop \in [Loops -> LoopRecords] /\ \A l \in Loops : HoldsUpdate(loop[l])
HookRecords == [u : 0..N, at : {"none", "committed", "handled"}]
HookOK == hook \in HookRecords /\ (hook.u # 0 <=> hook.at # "none")
HandlersOK ==
    calls \in [Inbox!Updates -> Nat] /\ work \subseteq Inbox!Updates /\ done \subseteq Inbox!Updates

LEMMA InboxParts == Inbox!TypeOK <=> CountsOK /\ RowsOK /\ LoopsOK /\ HookOK /\ HandlersOK
  BY DEF Inbox!TypeOK, CountsOK, RowsOK, LoopsOK, HookOK, HookRecords, HandlersOK, InboxStatuses,
         LoopRecords, HoldsUpdate

LEMMA InboxTypeInit == Inbox!TelegramConstants /\ Inbox!Init => Inbox!TypeOK
<1> SUFFICES ASSUME Inbox!TelegramConstants, Inbox!Init PROVE Inbox!TypeOK
  OBVIOUS
<1>1. 0 \in 0..N /\ 0 \in 0..(N + 1) /\ 0 \in 0..MaxStarts /\ 0 \in 0..MaxCrashes /\ 0 \in 0..MaxFaults
  BY DEF Inbox!TelegramConstants
<1>2. Inbox!Idle \in LoopRecords /\ HoldsUpdate(Inbox!Idle)
  BY <1>1 DEF Inbox!Idle, LoopRecords, HoldsUpdate
<1>3. HookOK
  BY <1>1 DEF Inbox!NoHook, HookOK, HookRecords, Inbox!Init
<1>4. CountsOK /\ RowsOK /\ LoopsOK /\ HandlersOK
  BY <1>1, <1>2 DEF Inbox!Init, CountsOK, RowsOK, LoopsOK, HandlersOK, InboxStatuses
<1>5. QED  BY <1>3, <1>4, InboxParts

\* The update that a loop takes next is one of its list, and the least.
LEMMA Taken ==
    ASSUME Inbox!TelegramConstants, LoopsOK, NEW l \in Loops, loop[l].todo # {}
    PROVE  /\ Inbox!Least(loop[l].todo) \in Inbox!Updates /\ Inbox!Least(loop[l].todo) \in loop[l].todo
           /\ \A v \in loop[l].todo : Inbox!Least(loop[l].todo) <= v
<1>1. loop[l].todo \subseteq Inbox!Updates
  BY DEF LoopsOK, LoopRecords
<1>2. QED  BY <1>1, LeastIn DEF Inbox!Updates

LEMMA CountsStep ==
    ASSUME Inbox!TelegramConstants, Inbox!TypeOK, [Inbox!Next]_(Inbox!vars)
    PROVE  CountsOK'
<1>n. N \in Nat /\ MaxStarts \in Nat /\ MaxCrashes \in Nat /\ MaxFaults \in Nat
  BY DEF Inbox!TelegramConstants
<1>h. hook.at # "none" => hook.u \in Inbox!Updates
  BY InboxParts DEF HookOK, HookRecords, Inbox!Updates, Inbox!TelegramConstants
<1>t. CountsOK
  BY InboxParts
<1> USE DEF CountsOK
<1>1. CASE Inbox!NewUpdate
  BY <1>1, <1>n, <1>t DEF Inbox!NewUpdate
<1>2. CASE Inbox!Crash \/ Inbox!StopPolling \/ Inbox!StopWebhook
  <2>1. /\ UNCHANGED <<sent, acked, cursor, starts, faults>> /\ on' = FALSE /\ gen' = 0
        /\ crashes' = crashes \/ (crashes < MaxCrashes /\ crashes' = crashes + 1)
    BY <1>2 DEF Inbox!Crash, Inbox!StopPolling, Inbox!StopWebhook
  <2>2. 0 \in 0..MaxStarts /\ crashes' \in 0..MaxCrashes
    BY <1>n, <1>t, <2>1
  <2>3. QED  BY <1>t, <2>1, <2>2
<1>12. CASE Inbox!StartWebhook \/ \E l \in Loops : Inbox!StartPolling(l)
  <2>1. /\ UNCHANGED <<sent, acked, cursor, crashes, faults>> /\ on' = TRUE
        /\ starts < MaxStarts /\ starts' = starts + 1 /\ gen' = starts'
    BY <1>12 DEF Inbox!StartWebhook, Inbox!StartPolling
  <2>2. QED  BY <1>n, <1>t, <2>1
<1>3. ASSUME NEW u \in Inbox!Updates, Inbox!WorkEnds(u) \/ Inbox!HookCommit(u) PROVE CountsOK'
  BY <1>3, <1>t DEF Inbox!WorkEnds, Inbox!HookCommit
<1>4. CASE Inbox!HookHandle \/ Inbox!HookMark
  <2>1. UNCHANGED <<sent, cursor, on, gen, starts, crashes, faults>>
    BY <1>4 DEF Inbox!HookHandle, Inbox!HookMark
  <2>2. hook.at # "none" /\ (acked' = acked \/ acked' = acked \cup {hook.u})
    BY <1>4 DEF Inbox!HookHandle, Inbox!HookMark
  <2>3. QED  BY <1>h, <1>t, <2>1, <2>2
<1>5. ASSUME NEW l \in Loops, Inbox!TakeUpdate(l) PROVE CountsOK'
  <2>1. Inbox!Least(loop[l].todo) \in Inbox!Updates
    BY <1>5, Taken, InboxParts DEF Inbox!TakeUpdate
  <2>2. cursor' \in 0..(N + 1)
    BY <1>5, <1>n, <1>t, <2>1 DEF Inbox!TakeUpdate, Inbox!Updates
  <2>3. QED  BY <1>5, <1>t, <2>2 DEF Inbox!TakeUpdate
<1>6. ASSUME NEW l \in Loops,
             Inbox!Recover(l) \/ Inbox!Aborted(l) \/ Inbox!Delivered(l) \/ Inbox!DeliveryFails(l)
               \/ Inbox!NextCycle(l)
      PROVE  CountsOK'
  BY <1>6, <1>t DEF Inbox!Recover, Inbox!Aborted, Inbox!Delivered, Inbox!DeliveryFails,
                    Inbox!NextCycle
<1>7. ASSUME NEW l \in Loops, Inbox!Fetch(l) PROVE CountsOK'
  BY <1>7, <1>t DEF Inbox!Fetch
<1>8. ASSUME NEW l \in Loops, Inbox!FetchFails(l) \/ Inbox!CommitFails(l) PROVE CountsOK'
  BY <1>8, <1>n, <1>t DEF Inbox!FetchFails, Inbox!CommitFails
<1>9. CASE UNCHANGED Inbox!vars
  BY <1>9, <1>t DEF Inbox!vars
<1>10. QED  BY <1>1, <1>2, <1>12, <1>3, <1>4, <1>5, <1>6, <1>7, <1>8, <1>9
   DEF Inbox!Next, Inbox!LoopStep

LEMMA RowTypes ==
    ASSUME RowsOK
    PROVE  /\ Inbox!Reconciled \in [Inbox!Updates -> InboxStatuses]
           /\ \A u \in Inbox!Updates : Inbox!Committed(u) \in [Inbox!Updates -> InboxStatuses]
           /\ \A r \in [Inbox!Updates -> InboxStatuses] : \A D :
                Inbox!Pruned(r, D) \in [Inbox!Updates -> InboxStatuses]
           /\ Inbox!Unprocessed \subseteq Inbox!Updates
  BY DEF RowsOK, Inbox!Reconciled, Inbox!Committed, Inbox!Pruned, Inbox!Unprocessed, InboxStatuses

LEMMA RowsStep ==
    ASSUME Inbox!TelegramConstants, Inbox!TypeOK, [Inbox!Next]_(Inbox!vars)
    PROVE  RowsOK'
<1>t. RowsOK /\ LoopsOK
  BY InboxParts
<1> USE DEF RowsOK
<1>1. CASE Inbox!NewUpdate \/ Inbox!Crash \/ Inbox!StopPolling \/ Inbox!StopWebhook \/ Inbox!HookHandle
             \/ UNCHANGED Inbox!vars
  BY <1>1, <1>t DEF Inbox!NewUpdate, Inbox!Crash, Inbox!StopPolling, Inbox!StopWebhook,
                    Inbox!HookHandle, Inbox!vars
<1>2. CASE Inbox!StartWebhook
  BY <1>2, <1>t DEF Inbox!StartWebhook, InboxStatuses
<1>3. CASE Inbox!HookMark
  BY <1>3, <1>t DEF Inbox!HookMark, InboxStatuses
<1>4. ASSUME NEW u \in Inbox!Updates, Inbox!WorkEnds(u) \/ Inbox!HookCommit(u) PROVE RowsOK'
  BY <1>4, <1>t, RowTypes DEF Inbox!WorkEnds, Inbox!HookCommit
<1>5. ASSUME NEW l \in Loops, Inbox!StartPolling(l) \/ Inbox!Fetch(l) PROVE RowsOK'
  BY <1>5, <1>t, RowTypes DEF Inbox!StartPolling, Inbox!Fetch
<1>6. ASSUME NEW l \in Loops, Inbox!TakeUpdate(l) PROVE RowsOK'
  BY <1>6, <1>t, RowTypes, Taken DEF Inbox!TakeUpdate
<1>7. ASSUME NEW l \in Loops, Inbox!Recover(l) \/ Inbox!FetchFails(l) \/ Inbox!Aborted(l)
               \/ Inbox!CommitFails(l)
                              \/ Inbox!DeliveryFails(l) \/ Inbox!NextCycle(l)
      PROVE  RowsOK'
  BY <1>7, <1>t DEF Inbox!Recover, Inbox!FetchFails, Inbox!Aborted, Inbox!CommitFails,
                    Inbox!DeliveryFails, Inbox!NextCycle
<1>8. ASSUME NEW l \in Loops, Inbox!Delivered(l) PROVE RowsOK'
  BY <1>8, <1>t DEF Inbox!Delivered, InboxStatuses
<1>9. QED  BY <1>1, <1>2, <1>3, <1>4, <1>5, <1>6, <1>7, <1>8 DEF Inbox!Next, Inbox!LoopStep

\* A loop's step changes the record of that loop.
LEMMA LoopChanged ==
    ASSUME LoopsOK, NEW l \in Loops, NEW r \in LoopRecords, HoldsUpdate(r),
             loop' = [loop EXCEPT ![l] = r]
    PROVE  LoopsOK'
  BY DEF LoopsOK, HoldsUpdate

LEMMA LoopsStep ==
    ASSUME Inbox!TelegramConstants, Inbox!TypeOK, [Inbox!Next]_(Inbox!vars)
    PROVE  LoopsOK'
<1>t. LoopsOK /\ RowsOK /\ CountsOK
  BY InboxParts
<1>z. Inbox!Idle \in LoopRecords /\ HoldsUpdate(Inbox!Idle)
  BY DEF Inbox!TelegramConstants, Inbox!Idle, LoopRecords, HoldsUpdate
<1>f. loop \in [Loops -> LoopRecords]
  BY <1>t DEF LoopsOK
<1>g. /\ \A l \in Loops : /\ loop[l] \in LoopRecords /\ HoldsUpdate(loop[l])
                          /\ loop[l].todo \subseteq Inbox!Updates
      /\ cursor \in 0..(N + 1) /\ gen \in 0..MaxStarts /\ gen' \in 0..MaxStarts
  BY <1>t, <1>f, CountsStep DEF CountsOK, LoopsOK, LoopRecords
<1>u. 0 \in 0..N /\ \A u \in Inbox!Updates : u \in 0..N /\ u # 0 /\ u + 1 \in 0..(N + 1)
  BY DEF Inbox!Updates, Inbox!TelegramConstants
<1>1. CASE Inbox!NewUpdate \/ Inbox!StopPolling \/ Inbox!StartWebhook \/ Inbox!StopWebhook
             \/ Inbox!HookHandle \/ Inbox!HookMark
           \/ UNCHANGED Inbox!vars \/ \E u \in Inbox!Updates : Inbox!WorkEnds(u) \/ Inbox!HookCommit(u)
  BY <1>1, <1>t DEF Inbox!NewUpdate, Inbox!StopPolling, Inbox!StartWebhook, Inbox!StopWebhook,
                    Inbox!HookHandle, Inbox!HookMark, Inbox!WorkEnds, Inbox!HookCommit, Inbox!vars,
                    LoopsOK
<1>2. CASE Inbox!Crash
  BY <1>2, <1>z DEF Inbox!Crash, LoopsOK
<1>3. ASSUME NEW l \in Loops, Inbox!StartPolling(l) PROVE LoopsOK'
  <2> DEFINE r == [Inbox!Idle EXCEPT !.at = "recover", !.todo = Inbox!Unprocessed, !.gen = gen']
  <2>1. r \in LoopRecords /\ HoldsUpdate(r)
    BY <1>z, <1>g, <1>t, RowTypes DEF Inbox!Idle, LoopRecords, HoldsUpdate
  <2>2. QED  BY <1>3, <1>t, <2>1, LoopChanged DEF Inbox!StartPolling
<1>4. ASSUME NEW l \in Loops, Inbox!Recover(l) PROVE LoopsOK'
  <2>1. CASE on /\ loop[l].todo # {}
    <3> DEFINE u == Inbox!Least(loop[l].todo)
               r == [loop[l] EXCEPT !.at = "recovering", !.u = u, !.todo = loop[l].todo \ {u}]
    <3>1. u \in Inbox!Updates
      BY <1>t, <2>1, Taken
    <3>2. r \in LoopRecords /\ HoldsUpdate(r)
      BY <1>g, <1>u, <3>1 DEF LoopRecords, HoldsUpdate
    <3>3. loop' = [loop EXCEPT ![l] = r]
      BY <1>4, <1>f, <2>1 DEF Inbox!Recover, LoopRecords
    <3>4. QED  BY <1>t, <3>2, <3>3, LoopChanged
  <2>2. CASE ~on \/ loop[l].todo = {}
    <3> DEFINE r == IF on THEN [Inbox!Idle EXCEPT !.at = "fetch", !.offset = cursor, !.gen = gen]
                 ELSE Inbox!Idle
    <3>1. r \in LoopRecords /\ HoldsUpdate(r)
      BY <1>g, <1>z DEF Inbox!Idle, LoopRecords, HoldsUpdate
    <3>2. loop' = [loop EXCEPT ![l] = r]
      BY <1>4, <2>2 DEF Inbox!Recover
    <3>3. QED  BY <1>t, <3>1, <3>2, LoopChanged
  <2>3. QED  BY <2>1, <2>2
<1>5. ASSUME NEW l \in Loops, Inbox!Fetch(l) PROVE LoopsOK'
  <2> DEFINE r == [loop[l] EXCEPT !.at = "batch", !.todo = loop[l].offset..sent \cap Inbox!Updates]
  <2>1. r \in LoopRecords /\ HoldsUpdate(r)
    BY <1>5, <1>g DEF LoopRecords, HoldsUpdate, Inbox!Fetch
  <2>2. loop' = [loop EXCEPT ![l] = r]
    BY <1>5, <1>f DEF Inbox!Fetch, LoopRecords
  <2>3. QED  BY <1>t, <2>1, <2>2, LoopChanged
<1>6. ASSUME NEW l \in Loops, Inbox!TakeUpdate(l) PROVE LoopsOK'
  <2> DEFINE u == Inbox!Least(loop[l].todo)
             r == [loop[l] EXCEPT !.at = IF Inbox!ShouldDeliver(u) THEN "delivering" ELSE "batch",
                                  !.u = IF Inbox!ShouldDeliver(u) THEN u ELSE 0,
                                  !.offset = u + 1, !.todo = loop[l].todo \ {u}]
  <2>1. u \in Inbox!Updates
    BY <1>6, <1>t, Taken DEF Inbox!TakeUpdate
  <2>2. r \in LoopRecords /\ HoldsUpdate(r)
    <3>1. /\ r.at = IF Inbox!ShouldDeliver(u) THEN "delivering" ELSE "batch"
          /\ r.u = IF Inbox!ShouldDeliver(u) THEN u ELSE 0
      BY <1>g DEF LoopRecords
    <3>2. HoldsUpdate(r)
      BY <1>u, <2>1, <3>1 DEF HoldsUpdate
    <3>3. r \in LoopRecords
      BY <1>g, <1>u, <2>1 DEF LoopRecords
    <3>4. QED  BY <3>2, <3>3
  <2>3. loop' = [loop EXCEPT ![l] = r]
    BY <1>6, <1>f DEF Inbox!TakeUpdate, LoopRecords
  <2>4. QED  BY <1>t, <2>2, <2>3, LoopChanged
<1>7. ASSUME NEW l \in Loops, Inbox!FetchFails(l) \/ Inbox!CommitFails(l) PROVE LoopsOK'
  BY <1>7, <1>f, <1>t DEF Inbox!FetchFails, Inbox!CommitFails, LoopsOK, LoopRecords, HoldsUpdate
<1>8. ASSUME NEW l \in Loops, Inbox!Aborted(l) PROVE LoopsOK'
  BY <1>8, <1>t, <1>z, LoopChanged DEF Inbox!Aborted
<1>9. ASSUME NEW l \in Loops, Inbox!NextCycle(l) PROVE LoopsOK'
  <2> DEFINE r == IF on THEN [loop[l] EXCEPT !.at = "fetch", !.gen = gen] ELSE Inbox!Idle
  <2>1. r \in LoopRecords /\ HoldsUpdate(r)
    BY <1>9, <1>g, <1>z DEF LoopRecords, HoldsUpdate, Inbox!NextCycle
  <2>2. loop' = [loop EXCEPT ![l] = r]
    BY <1>9, <1>f DEF Inbox!NextCycle
  <2>3. QED  BY <1>t, <2>1, <2>2, LoopChanged
<1>10. ASSUME NEW l \in Loops, Inbox!Delivered(l) \/ Inbox!DeliveryFails(l) PROVE LoopsOK'
  <2> DEFINE r == [loop[l] EXCEPT !.at = Inbox!Back(loop[l].at), !.u = 0]
  <2>1. r \in LoopRecords /\ HoldsUpdate(r)
    BY <1>g, <1>u DEF LoopRecords, HoldsUpdate, Inbox!Back
  <2>2. loop' = [loop EXCEPT ![l] = r]
    BY <1>10, <1>f DEF Inbox!Delivered, Inbox!DeliveryFails, LoopRecords
  <2>3. QED  BY <1>t, <2>1, <2>2, LoopChanged
<1>11. QED  BY <1>1, <1>2, <1>3, <1>4, <1>5, <1>6, <1>7, <1>8, <1>9, <1>10
   DEF Inbox!Next, Inbox!LoopStep

LEMMA HookStep ==
    ASSUME Inbox!TelegramConstants, Inbox!TypeOK, [Inbox!Next]_(Inbox!vars)
    PROVE  HookOK'
<1>t. HookOK
  BY InboxParts
<1>z. Inbox!NoHook \in HookRecords /\ Inbox!NoHook.u = 0 /\ Inbox!NoHook.at = "none"
  BY DEF Inbox!NoHook, HookRecords, Inbox!TelegramConstants
<1>1. CASE hook' = hook \/ hook' = Inbox!NoHook
  BY <1>1, <1>t, <1>z DEF HookOK
<1>2. CASE Inbox!HookHandle
  <2>1. CASE hook' = [hook EXCEPT !.at = "handled"]
    BY <1>2, <1>t, <2>1 DEF Inbox!HookHandle, HookOK, HookRecords
  <2>2. QED  BY <1>1, <1>2, <2>1 DEF Inbox!HookHandle
<1>3. ASSUME NEW u \in Inbox!Updates, Inbox!HookCommit(u) PROVE HookOK'
  <2> DEFINE r == [u |-> u, at |-> "committed"]
  <2>1. r \in HookRecords /\ r.u # 0 /\ r.at # "none"
    BY DEF HookRecords, Inbox!Updates, Inbox!TelegramConstants
  <2>2. hook' = r \/ hook' = Inbox!NoHook
    BY <1>3 DEF Inbox!HookCommit
  <2>3. QED  BY <1>1, <2>1, <2>2 DEF HookOK
<1>4. Inbox!HookHandle \/ (\E u \in Inbox!Updates : Inbox!HookCommit(u)) \/ hook' = hook
        \/ hook' = Inbox!NoHook
  <2>1. ASSUME NEW l \in Loops, Inbox!LoopStep(l) \/ Inbox!StartPolling(l) PROVE hook' = hook
    BY <2>1 DEF Inbox!LoopStep, Inbox!StartPolling, Inbox!Recover, Inbox!Fetch, Inbox!FetchFails,
                Inbox!Aborted, Inbox!TakeUpdate, Inbox!CommitFails, Inbox!Delivered,
                Inbox!DeliveryFails, Inbox!NextCycle
  <2>2. CASE Inbox!NewUpdate \/ Inbox!StopPolling \/ Inbox!StartWebhook \/ Inbox!StopWebhook
               \/ UNCHANGED Inbox!vars
             \/ \E u \in Inbox!Updates : Inbox!WorkEnds(u)
    BY <2>2 DEF Inbox!NewUpdate, Inbox!StopPolling, Inbox!StartWebhook, Inbox!StopWebhook,
                Inbox!WorkEnds, Inbox!vars
  <2>3. CASE Inbox!Crash \/ Inbox!HookMark
    BY <2>3 DEF Inbox!Crash, Inbox!HookMark
  <2>4. QED  BY <2>1, <2>2, <2>3 DEF Inbox!Next
<1>5. QED  BY <1>1, <1>2, <1>3, <1>4

LEMMA HandlersStep ==
    ASSUME Inbox!TelegramConstants, Inbox!TypeOK, [Inbox!Next]_(Inbox!vars)
    PROVE  HandlersOK'
<1>t. HandlersOK /\ LoopsOK
  BY InboxParts
<1> USE DEF HandlersOK
<1>c. \A u \in Inbox!Updates : Inbox!Call(u) => calls' \in [Inbox!Updates -> Nat]
        /\ work' \subseteq Inbox!Updates
  BY <1>t DEF Inbox!Call
<1>1. CASE Inbox!StartWebhook
  BY <1>1, <1>t DEF Inbox!StartWebhook, Inbox!Unprocessed
<1>2. CASE Inbox!HookHandle
  <2>1. hook.u \in Inbox!Updates
    BY <1>2, InboxParts DEF Inbox!HookHandle, HookOK, HookRecords, Inbox!Updates,
                            Inbox!TelegramConstants
  <2>2. QED  BY <1>2, <1>t, <1>c, <2>1 DEF Inbox!HookHandle
<1>3. ASSUME NEW l \in Loops, Inbox!Recover(l) \/ Inbox!TakeUpdate(l) PROVE HandlersOK'
  <2>1. loop[l].todo # {} => Inbox!Least(loop[l].todo) \in Inbox!Updates
    BY <1>t, Taken
  <2>2. QED  BY <1>3, <1>t, <1>c, <2>1 DEF Inbox!Recover, Inbox!TakeUpdate
<1>4. ASSUME NEW u \in Inbox!Updates, Inbox!WorkEnds(u) PROVE HandlersOK'
  BY <1>4, <1>t DEF Inbox!WorkEnds
<1>5. ASSUME NEW l \in Loops, Inbox!DeliveryFails(l) PROVE HandlersOK'
  BY <1>5, <1>t DEF Inbox!DeliveryFails
<1>6. CASE UNCHANGED <<calls, done>> /\ work' \in {work, {}}
  BY <1>6, <1>t
<1>7. ASSUME NEW l \in Loops, Inbox!Fetch(l) \/ Inbox!FetchFails(l) \/ Inbox!Aborted(l)
               \/ Inbox!CommitFails(l)
                              \/ Inbox!Delivered(l) \/ Inbox!NextCycle(l) \/ Inbox!StartPolling(l)
      PROVE  HandlersOK'
  BY <1>6, <1>7 DEF Inbox!Fetch, Inbox!FetchFails, Inbox!Aborted, Inbox!CommitFails,
                    Inbox!Delivered, Inbox!NextCycle, Inbox!StartPolling
<1>8. CASE Inbox!NewUpdate \/ Inbox!Crash \/ Inbox!StopPolling \/ Inbox!StopWebhook \/ Inbox!HookMark
             \/ UNCHANGED Inbox!vars
           \/ \E u \in Inbox!Updates : Inbox!HookCommit(u)
  BY <1>6, <1>8 DEF Inbox!NewUpdate, Inbox!Crash, Inbox!StopPolling, Inbox!StopWebhook,
                    Inbox!HookMark, Inbox!HookCommit, Inbox!vars
<1>9. QED  BY <1>1, <1>2, <1>3, <1>4, <1>5, <1>7, <1>8 DEF Inbox!Next, Inbox!LoopStep

LEMMA InboxTypeStep ==
    ASSUME Inbox!TelegramConstants, Inbox!TypeOK, [Inbox!Next]_(Inbox!vars)
    PROVE  Inbox!TypeOK'
<1>1. (CountsOK /\ RowsOK /\ LoopsOK /\ HookOK /\ HandlersOK)'
  BY CountsStep, RowsStep, LoopsStep, HookStep, HandlersStep
<1>2. QED
  BY <1>1 DEF Inbox!TypeOK, CountsOK, RowsOK, LoopsOK, HookOK, HookRecords, HandlersOK,
              InboxStatuses, LoopRecords, HoldsUpdate

-----------------------------------------------------------------------------
\* Every update below k has had a row.
Recorded(k) == \A u \in Inbox!Updates : u < k => inbox[u] # "none"

\* What is left of a batch starts at the offset and has no holes.
Contiguous(r) ==
    \A w \in r.todo : /\ r.offset <= w
                      /\ \A v \in Inbox!Updates : r.offset <= v /\ v < w => v \in r.todo

StoredInv ==
    /\ Inbox!NothingForgotten
    /\ Recorded(cursor)
    /\ \A l \in Loops : Recorded(loop[l].offset)
    /\ \A l \in Loops : loop[l].at \in {"batch", "delivering"} => Contiguous(loop[l])
    /\ hook.at # "none" => inbox[hook.u] # "none"

LEMMA StoredInit == Inbox!TelegramConstants /\ Inbox!Init => StoredInv
  BY DEF Inbox!TelegramConstants, Inbox!Init, StoredInv, Inbox!NothingForgotten, Recorded,
         Contiguous, Inbox!Updates, Inbox!Idle, Inbox!NoHook

\* A row that exists is never forgotten.
LEMMA RowsStay ==
    ASSUME Inbox!TelegramConstants, Inbox!TypeOK, [Inbox!Next]_(Inbox!vars), NEW u \in Inbox!Updates,
             inbox[u] # "none"
    PROVE  inbox'[u] # "none"
<1>t. RowsOK /\ LoopsOK
  BY InboxParts
<1> USE DEF RowsOK
<1>1. CASE inbox' = inbox
  BY <1>1
<1>2. CASE Inbox!StartWebhook
  BY <1>2, <1>t DEF Inbox!StartWebhook
<1>3. CASE Inbox!HookMark
  BY <1>3, <1>t DEF Inbox!HookMark
<1>4. ASSUME NEW v \in Inbox!Updates, Inbox!HookCommit(v) PROVE inbox'[u] # "none"
  BY <1>4, <1>t DEF Inbox!HookCommit, Inbox!Pruned, Inbox!Committed
<1>5. ASSUME NEW l \in Loops, Inbox!StartPolling(l) \/ Inbox!Fetch(l) PROVE inbox'[u] # "none"
  BY <1>5, <1>t DEF Inbox!StartPolling, Inbox!Fetch, Inbox!Reconciled, Inbox!Pruned
<1>6. ASSUME NEW l \in Loops, Inbox!TakeUpdate(l) PROVE inbox'[u] # "none"
  BY <1>6, <1>t, Taken DEF Inbox!TakeUpdate, Inbox!Committed
<1>7. ASSUME NEW l \in Loops, Inbox!Delivered(l) PROVE inbox'[u] # "none"
  BY <1>7, <1>t DEF Inbox!Delivered
<1>8. ASSUME NEW l \in Loops, Inbox!Recover(l) \/ Inbox!FetchFails(l) \/ Inbox!Aborted(l)
               \/ Inbox!CommitFails(l)
                              \/ Inbox!DeliveryFails(l) \/ Inbox!NextCycle(l)
      PROVE  inbox'[u] # "none"
  BY <1>1, <1>8 DEF Inbox!Recover, Inbox!FetchFails, Inbox!Aborted, Inbox!CommitFails,
                    Inbox!DeliveryFails, Inbox!NextCycle
<1>9. CASE Inbox!NewUpdate \/ Inbox!Crash \/ Inbox!StopPolling \/ Inbox!StopWebhook \/ Inbox!HookHandle
             \/ UNCHANGED Inbox!vars
           \/ \E v \in Inbox!Updates : Inbox!WorkEnds(v)
  BY <1>1, <1>9 DEF Inbox!NewUpdate, Inbox!Crash, Inbox!StopPolling, Inbox!StopWebhook,
                    Inbox!HookHandle, Inbox!WorkEnds, Inbox!vars
<1>10. QED  BY <1>2, <1>3, <1>4, <1>5, <1>6, <1>7, <1>8, <1>9 DEF Inbox!Next, Inbox!LoopStep

\* Rows below an offset that is kept are still there after a step.
LEMMA RecordedStays ==
    ASSUME Inbox!TelegramConstants, Inbox!TypeOK, [Inbox!Next]_(Inbox!vars), NEW k, Recorded(k)
    PROVE  \A u \in Inbox!Updates : u < k => inbox'[u] # "none"
  BY RowsStay DEF Recorded

\* The update of a batch is committed before the offset passes it.
LEMMA TakenRecorded ==
    ASSUME Inbox!TelegramConstants, Inbox!TypeOK, StoredInv, NEW l \in Loops, Inbox!TakeUpdate(l),
           NEW v \in Inbox!Updates, v < Inbox!Least(loop[l].todo) + 1
    PROVE  inbox'[v] # "none"
<1> DEFINE u == Inbox!Least(loop[l].todo)
<1>t. RowsOK /\ LoopsOK
  BY InboxParts
<1>1. u \in Inbox!Updates /\ u \in loop[l].todo /\ \A w \in loop[l].todo : u <= w
  BY <1>t, Taken DEF Inbox!TakeUpdate
<1>2. inbox' = Inbox!Committed(u) /\ loop[l].at = "batch"
  BY DEF Inbox!TakeUpdate
<1>3. CASE v = u
  BY <1>1, <1>2, <1>3, <1>t DEF Inbox!Committed, RowsOK
<1>4. CASE v # u
  <2>1. v < u /\ v \notin loop[l].todo
    BY <1>1, <1>4 DEF Inbox!Updates, Inbox!TelegramConstants
  <2>2. v < loop[l].offset
    <3>1. loop[l].offset \in 0..(N + 1)
      BY <1>t DEF LoopsOK, LoopRecords
    <3>2. ~(loop[l].offset <= v)
      BY <1>1, <1>2, <2>1 DEF StoredInv, Contiguous
    <3>3. QED  BY <3>1, <3>2 DEF Inbox!Updates, Inbox!TelegramConstants
  <2>3. inbox[v] # "none"
    BY <2>2 DEF StoredInv, Recorded
  <2>4. QED  BY <1>1, <1>2, <1>t, <2>3 DEF Inbox!Committed, RowsOK
<1>5. QED  BY <1>3, <1>4

LEMMA StoredStep ==
    ASSUME Inbox!TelegramConstants, Inbox!TypeOK, StoredInv, [Inbox!Next]_(Inbox!vars)
    PROVE  StoredInv'
<1>t. RowsOK /\ LoopsOK /\ HookOK /\ LoopsOK' /\ CountsOK
  BY InboxParts, LoopsStep
<1>f. loop \in [Loops -> LoopRecords] /\ \A l \in Loops : loop[l].offset \in 0..(N + 1)
  BY <1>t DEF LoopsOK, LoopRecords
<1>s. \A u \in Inbox!Updates : inbox[u] # "none" => inbox'[u] # "none"
  BY RowsStay
<1>n. N \in Nat
  BY DEF Inbox!TelegramConstants
<1>1. Recorded(cursor)'
  <2>1. CASE cursor' = cursor
    BY <1>s, <2>1 DEF StoredInv, Recorded
  <2>2. ASSUME NEW l \in Loops, Inbox!TakeUpdate(l) PROVE Recorded(cursor)'
    <3>1. cursor' = cursor \/ cursor' = Inbox!Least(loop[l].todo) + 1
      BY <2>2 DEF Inbox!TakeUpdate
    <3>2. QED  BY <2>1, <2>2, <3>1, TakenRecorded DEF Recorded
  <2>3. ASSUME NEW l \in Loops, Inbox!StartPolling(l) \/ Inbox!Recover(l) \/ Inbox!Fetch(l)
                 \/ Inbox!FetchFails(l) \/ Inbox!Aborted(l)
                               \/ Inbox!CommitFails(l) \/ Inbox!Delivered(l) \/ Inbox!DeliveryFails(l)
                                 \/ Inbox!NextCycle(l)
        PROVE  cursor' = cursor
    BY <2>3 DEF Inbox!StartPolling, Inbox!Recover, Inbox!Fetch, Inbox!FetchFails, Inbox!Aborted,
                Inbox!CommitFails, Inbox!Delivered, Inbox!DeliveryFails, Inbox!NextCycle
  <2>4. CASE Inbox!NewUpdate \/ Inbox!Crash \/ Inbox!StopPolling \/ Inbox!StartWebhook
               \/ Inbox!StopWebhook \/ Inbox!HookHandle
             \/ Inbox!HookMark \/ UNCHANGED Inbox!vars \/ \E u \in Inbox!Updates : Inbox!WorkEnds(u)
               \/ Inbox!HookCommit(u)
    BY <2>1, <2>4 DEF Inbox!NewUpdate, Inbox!Crash, Inbox!StopPolling, Inbox!StartWebhook,
                      Inbox!StopWebhook, Inbox!HookHandle, Inbox!HookMark, Inbox!WorkEnds,
                      Inbox!HookCommit, Inbox!vars
  <2>5. QED  BY <2>1, <2>2, <2>3, <2>4 DEF Inbox!Next, Inbox!LoopStep
<1>2. ASSUME NEW m \in Loops
      PROVE  Recorded(loop[m].offset)'
               /\ (loop[m].at \in {"batch", "delivering"} => Contiguous(loop[m]))'
  <2>0. CASE loop'[m] = loop[m]
    BY <1>s, <2>0 DEF StoredInv, Recorded, Contiguous
  <2>i. CASE loop'[m].offset = 0 /\ loop'[m].at \notin {"batch", "delivering"}
    <3>1. \A u \in Inbox!Updates : ~(u < 0)
      BY <1>n DEF Inbox!Updates
    <3>2. QED  BY <2>i, <3>1 DEF Recorded
  <2>c. CASE loop'[m].offset = loop[m].offset /\ loop'[m].at \notin {"batch", "delivering"}
    BY <1>s, <2>c DEF StoredInv, Recorded
  <2>1. ASSUME NEW l \in Loops, Inbox!LoopStep(l) \/ Inbox!StartPolling(l), m # l
        PROVE  loop'[m] = loop[m]
    BY <2>1, <1>f DEF Inbox!LoopStep, Inbox!StartPolling, Inbox!Recover, Inbox!Fetch,
                      Inbox!FetchFails, Inbox!Aborted, Inbox!TakeUpdate, Inbox!CommitFails,
                      Inbox!Delivered, Inbox!DeliveryFails, Inbox!NextCycle
  <2>2. CASE Inbox!StartPolling(m) \/ Inbox!Aborted(m) \/ Inbox!Crash
    <3>1. loop'[m] \in {Inbox!Idle, [Inbox!Idle EXCEPT !.at = "recover", !.todo = Inbox!Unprocessed,
            !.gen = gen']}
      <4>1. CASE Inbox!StartPolling(m)
        BY <4>1, <1>f DEF Inbox!StartPolling
      <4>2. CASE Inbox!Aborted(m)
        BY <4>2, <1>f DEF Inbox!Aborted
      <4>3. CASE Inbox!Crash
        BY <4>3 DEF Inbox!Crash
      <4>4. QED  BY <2>2, <4>1, <4>2, <4>3
    <3>2. CASE loop'[m] = Inbox!Idle
      BY <2>i, <3>2 DEF Inbox!Idle
    <3>3. CASE loop'[m] = [Inbox!Idle EXCEPT !.at = "recover", !.todo = Inbox!Unprocessed, !.gen = gen']
      <4>1. loop'[m].offset = 0 /\ loop'[m].at = "recover"
        BY <3>3 DEF Inbox!Idle
      <4>2. QED  BY <2>i, <4>1
    <3>4. QED  BY <3>1, <3>2, <3>3
  <2>3. CASE Inbox!Recover(m)
    <3>1. CASE on /\ loop[m].todo # {}
      BY <2>3, <2>c, <3>1, <1>f DEF Inbox!Recover, LoopRecords
    <3>2. CASE ~on \/ loop[m].todo = {}
      <4>1. loop'[m] = IF on THEN [Inbox!Idle EXCEPT !.at = "fetch", !.offset = cursor, !.gen = gen]
              ELSE Inbox!Idle
        BY <2>3, <3>2, <1>f DEF Inbox!Recover
      <4>2. CASE on
        <5>1. loop'[m].offset = cursor /\ loop'[m].at = "fetch"
          BY <4>1, <4>2 DEF Inbox!Idle
        <5>2. QED  BY <1>s, <5>1 DEF StoredInv, Recorded
      <4>3. CASE ~on
        BY <2>i, <4>1, <4>3 DEF Inbox!Idle
      <4>4. QED  BY <4>2, <4>3
    <3>3. QED  BY <3>1, <3>2
  <2>4. CASE Inbox!Fetch(m)
    <3>1. /\ loop'[m].offset = loop[m].offset /\ loop'[m].todo = loop[m].offset..sent \cap Inbox!Updates
      BY <2>4, <1>f DEF Inbox!Fetch, LoopRecords
    <3>2. sent \in 0..N
      BY <1>t DEF CountsOK
    <3>3. Contiguous(loop[m])'
      BY <1>f, <1>n, <3>1, <3>2 DEF Contiguous, Inbox!Updates
    <3>4. QED  BY <1>s, <3>1, <3>3 DEF StoredInv, Recorded
  <2>5. CASE Inbox!FetchFails(m) \/ Inbox!CommitFails(m)
    BY <2>c, <2>5, <1>f DEF Inbox!FetchFails, Inbox!CommitFails, LoopRecords
  <2>6. CASE Inbox!NextCycle(m)
    <3>1. loop'[m] = IF on THEN [loop[m] EXCEPT !.at = "fetch", !.gen = gen] ELSE Inbox!Idle
      BY <2>6, <1>f DEF Inbox!NextCycle
    <3>2. QED  BY <2>c, <2>i, <3>1, <1>f DEF Inbox!Idle, LoopRecords
  <2>7. CASE Inbox!Delivered(m) \/ Inbox!DeliveryFails(m)
    <3>1. /\ loop'[m].offset = loop[m].offset /\ loop'[m].todo = loop[m].todo
          /\ loop'[m].at = Inbox!Back(loop[m].at)
      BY <2>7, <1>f DEF Inbox!Delivered, Inbox!DeliveryFails, LoopRecords
    <3>2. loop'[m].at = "batch" => loop[m].at = "delivering"
      BY <3>1 DEF Inbox!Back
    <3>3. loop'[m].at # "delivering"
      BY <3>1 DEF Inbox!Back
    <3>4. QED  BY <1>s, <3>1, <3>2, <3>3 DEF StoredInv, Recorded, Contiguous
  <2>8. CASE Inbox!TakeUpdate(m)
    <3> DEFINE u == Inbox!Least(loop[m].todo)
    <3>1. loop'[m].offset = u + 1 /\ loop'[m].todo = loop[m].todo \ {u} /\ loop[m].at = "batch"
      BY <2>8, <1>f DEF Inbox!TakeUpdate, LoopRecords
    <3>2. Recorded(loop[m].offset)'
      BY <2>8, <3>1, TakenRecorded DEF Recorded
    <3>3. u \in Inbox!Updates /\ u \in loop[m].todo /\ \A v \in loop[m].todo : u <= v
      BY <2>8, <1>t, Taken DEF Inbox!TakeUpdate
    <3>4. Contiguous(loop[m]) /\ loop[m].todo \subseteq Inbox!Updates
      BY <3>1, <1>f DEF StoredInv, LoopRecords
    <3>5. Contiguous(loop[m])'
      BY <1>f, <1>n, <3>1, <3>3, <3>4 DEF Contiguous, Inbox!Updates
    <3>6. QED  BY <3>2, <3>5
  <2>9. CASE Inbox!NewUpdate \/ Inbox!StopPolling \/ Inbox!StartWebhook \/ Inbox!StopWebhook
               \/ Inbox!HookHandle \/ Inbox!HookMark
             \/ UNCHANGED Inbox!vars \/ \E u \in Inbox!Updates : Inbox!WorkEnds(u)
               \/ Inbox!HookCommit(u)
    BY <2>0, <2>9 DEF Inbox!NewUpdate, Inbox!StopPolling, Inbox!StartWebhook, Inbox!StopWebhook,
                      Inbox!HookHandle, Inbox!HookMark, Inbox!WorkEnds, Inbox!HookCommit,
                      Inbox!vars
  <2>10. QED  BY <2>0, <2>1, <2>2, <2>3, <2>4, <2>5, <2>6, <2>7, <2>8, <2>9
     DEF Inbox!Next, Inbox!LoopStep
<1>3. (hook.at # "none" => inbox[hook.u] # "none")'
  <2>h. hook.at # "none" => hook.u \in Inbox!Updates
    BY <1>t, <1>n DEF HookOK, HookRecords, Inbox!Updates
  <2>1. CASE hook' = hook \/ hook' = Inbox!NoHook
    BY <1>s, <2>1, <2>h DEF StoredInv, Inbox!NoHook
  <2>2. CASE Inbox!HookHandle
    <3>1. hook.at # "none" /\ (hook' = Inbox!NoHook \/ hook'.u = hook.u)
      BY <2>2, <1>t DEF Inbox!HookHandle, HookOK, HookRecords
    <3>2. QED  BY <1>s, <2>h, <3>1 DEF StoredInv, Inbox!NoHook
  <2>3. ASSUME NEW u \in Inbox!Updates, Inbox!HookCommit(u)
        PROVE  (hook.at # "none" => inbox[hook.u] # "none")'
    <3>1. inbox'[u] # "none"
      BY <2>3, <1>t DEF Inbox!HookCommit, Inbox!Pruned, Inbox!Committed, RowsOK, Inbox!Prunable
    <3>2. hook' = Inbox!NoHook \/ hook'.u = u
      BY <2>3 DEF Inbox!HookCommit
    <3>3. QED  BY <3>1, <3>2 DEF Inbox!NoHook
  <2>4. ASSUME NEW l \in Loops, Inbox!LoopStep(l) \/ Inbox!StartPolling(l) PROVE hook' = hook
    BY <2>4 DEF Inbox!LoopStep, Inbox!StartPolling, Inbox!Recover, Inbox!Fetch, Inbox!FetchFails,
                Inbox!Aborted, Inbox!TakeUpdate, Inbox!CommitFails, Inbox!Delivered,
                Inbox!DeliveryFails, Inbox!NextCycle
  <2>5. CASE Inbox!NewUpdate \/ Inbox!Crash \/ Inbox!StopPolling \/ Inbox!StartWebhook
               \/ Inbox!StopWebhook \/ Inbox!HookMark
             \/ UNCHANGED Inbox!vars \/ \E u \in Inbox!Updates : Inbox!WorkEnds(u)
    BY <2>1, <2>5 DEF Inbox!NewUpdate, Inbox!Crash, Inbox!StopPolling, Inbox!StartWebhook,
                      Inbox!StopWebhook, Inbox!HookMark, Inbox!WorkEnds, Inbox!vars
  <2>6. QED  BY <2>1, <2>2, <2>3, <2>4, <2>5 DEF Inbox!Next
<1>4. Inbox!NothingForgotten'
  <2>h. hook.at # "none" => inbox[hook.u] # "none" /\ hook.u \in Inbox!Updates
    BY <1>t, <1>n DEF HookOK, HookRecords, Inbox!Updates, StoredInv
  <2>a. acked \subseteq Inbox!Updates
    BY <1>t DEF CountsOK
  <2>0. CASE acked' = acked
    BY <2>0, <2>a, <1>s DEF StoredInv, Inbox!NothingForgotten
  <2>1. CASE Inbox!HookHandle \/ Inbox!HookMark
    BY <2>1, <2>h, <2>a, <1>s DEF Inbox!HookHandle, Inbox!HookMark, StoredInv,
                                  Inbox!NothingForgotten
  <2>2. ASSUME NEW u \in Inbox!Updates, Inbox!HookCommit(u) PROVE Inbox!NothingForgotten'
    <3>1. inbox[u] = "processed" \/ acked' = acked
      BY <2>2 DEF Inbox!HookCommit, Inbox!ShouldDeliver
    <3>2. acked' \subseteq acked \cup {u}
      BY <2>2 DEF Inbox!HookCommit
    <3>3. QED  BY <2>0, <2>a, <1>s, <3>1, <3>2 DEF StoredInv, Inbox!NothingForgotten
  <2>3. ASSUME NEW l \in Loops, Inbox!Fetch(l) PROVE Inbox!NothingForgotten'
    <3>1. \A u \in Inbox!Updates : u < loop[l].offset => inbox[u] # "none"
      BY DEF StoredInv, Recorded
    <3>2. \A u \in acked' : u \in acked \/ (u \in Inbox!Updates /\ u < loop[l].offset)
      BY <2>3 DEF Inbox!Fetch
    <3>3. QED  BY <2>a, <1>s, <3>1, <3>2 DEF StoredInv, Inbox!NothingForgotten
  <2>4. ASSUME NEW l \in Loops, Inbox!StartPolling(l) \/ Inbox!Recover(l) \/ Inbox!FetchFails(l)
                 \/ Inbox!Aborted(l) \/ Inbox!TakeUpdate(l)
                               \/ Inbox!CommitFails(l) \/ Inbox!Delivered(l) \/ Inbox!DeliveryFails(l)
                                 \/ Inbox!NextCycle(l)
        PROVE  acked' = acked
    BY <2>4 DEF Inbox!StartPolling, Inbox!Recover, Inbox!FetchFails, Inbox!Aborted,
                Inbox!TakeUpdate, Inbox!CommitFails, Inbox!Delivered, Inbox!DeliveryFails,
                Inbox!NextCycle
  <2>5. CASE Inbox!NewUpdate \/ Inbox!Crash \/ Inbox!StopPolling \/ Inbox!StartWebhook
               \/ Inbox!StopWebhook \/ UNCHANGED Inbox!vars
             \/ \E u \in Inbox!Updates : Inbox!WorkEnds(u)
    BY <2>0, <2>5 DEF Inbox!NewUpdate, Inbox!Crash, Inbox!StopPolling, Inbox!StartWebhook,
                      Inbox!StopWebhook, Inbox!WorkEnds, Inbox!vars
  <2>6. QED  BY <2>0, <2>1, <2>2, <2>3, <2>4, <2>5 DEF Inbox!Next, Inbox!LoopStep
<1>5. QED  BY <1>1, <1>2, <1>3, <1>4 DEF StoredInv

-----------------------------------------------------------------------------
\* A webhook request is one of a hub that listens, which polls nothing, and one
\* that is to be handled has a row that is not processed.
InboxFresh ==
    /\ Mode = "webhook" => \A l \in Loops : loop[l].at = "off"
    /\ hook.at # "none" => Mode = "webhook" /\ on
    /\ hook.at = "committed" => inbox[hook.u] # "processed"

LEMMA InboxFreshInit == Inbox!Init => InboxFresh
  BY DEF Inbox!Init, InboxFresh, Inbox!Idle, Inbox!NoHook

LEMMA InboxFreshStep ==
    ASSUME Inbox!TelegramConstants, Inbox!TypeOK, InboxFresh, [Inbox!Next]_(Inbox!vars)
    PROVE  InboxFresh'
<1>t. RowsOK /\ LoopsOK /\ HookOK /\ HandlersOK
  BY InboxParts
<1>m. Mode \in {"polling", "webhook"}
  BY DEF Inbox!TelegramConstants
<1> USE DEF InboxFresh
<1>1. CASE Inbox!NewUpdate \/ Inbox!StopPolling \/ Inbox!StopWebhook \/ UNCHANGED Inbox!vars
             \/ \E u \in Inbox!Updates : Inbox!WorkEnds(u)
  BY <1>1, <1>m DEF Inbox!NewUpdate, Inbox!StopPolling, Inbox!StopWebhook, Inbox!WorkEnds,
                    Inbox!vars, Inbox!NoHook
<1>2. CASE Inbox!Crash
  BY <1>2 DEF Inbox!Crash, Inbox!Idle, Inbox!NoHook
<1>3. CASE Inbox!StartWebhook
  <2>1. Mode = "webhook" /\ ~on /\ UNCHANGED <<loop, hook>>
    BY <1>3 DEF Inbox!StartWebhook
  <2>2. QED  BY <2>1
<1>4. CASE Inbox!HookHandle \/ Inbox!HookMark
  <2>1. Mode = "webhook" /\ on /\ UNCHANGED <<loop, on>>
    BY <1>4 DEF Inbox!HookHandle, Inbox!HookMark
  <2>2. hook'.at # "committed"
    BY <1>4, <1>t DEF Inbox!HookHandle, Inbox!HookMark, Inbox!NoHook, HookOK, HookRecords
  <2>3. QED  BY <2>1, <2>2
<1>5. ASSUME NEW u \in Inbox!Updates, Inbox!HookCommit(u) PROVE InboxFresh'
  <2>1. Mode = "webhook" /\ on /\ UNCHANGED <<loop, on>>
    BY <1>5 DEF Inbox!HookCommit
  <2>2. Inbox!ShouldDeliver(u) => inbox'[u] # "processed"
    BY <1>5, <1>t DEF Inbox!HookCommit, Inbox!ShouldDeliver, Inbox!Pruned, Inbox!Committed, RowsOK
  <2>3. hook' = IF Inbox!ShouldDeliver(u) THEN [u |-> u, at |-> "committed"] ELSE Inbox!NoHook
    BY <1>5 DEF Inbox!HookCommit
  <2>4. QED  BY <2>1, <2>2, <2>3 DEF Inbox!NoHook
<1>6. ASSUME NEW l \in Loops, Inbox!StartPolling(l) PROVE InboxFresh'
  <2>1. Mode = "polling" /\ UNCHANGED hook
    BY <1>6 DEF Inbox!StartPolling
  <2>2. QED  BY <2>1
<1>7. ASSUME NEW l \in Loops, Inbox!LoopStep(l) PROVE InboxFresh'
  <2>1. loop[l].at # "off"
    BY <1>7 DEF Inbox!LoopStep, Inbox!Recover, Inbox!Fetch, Inbox!FetchFails, Inbox!Aborted,
                Inbox!TakeUpdate, Inbox!CommitFails, Inbox!Delivered, Inbox!DeliveryFails,
                Inbox!NextCycle
  <2>2. Mode = "polling" /\ hook.at = "none" /\ UNCHANGED hook
    BY <1>7, <1>m, <2>1 DEF Inbox!LoopStep, Inbox!Recover, Inbox!Fetch, Inbox!FetchFails,
                            Inbox!Aborted, Inbox!TakeUpdate, Inbox!CommitFails, Inbox!Delivered,
                            Inbox!DeliveryFails, Inbox!NextCycle
  <2>3. QED  BY <2>2
<1>8. QED  BY <1>1, <1>2, <1>3, <1>4, <1>5, <1>6, <1>7 DEF Inbox!Next

LEMMA DeduplicatedStep ==
    ASSUME Inbox!TelegramConstants, Inbox!TypeOK, InboxFresh, [Inbox!Next]_(Inbox!vars)
    PROVE  Inbox!Deduplicated
<1>t. RowsOK /\ LoopsOK /\ HookOK /\ HandlersOK
  BY InboxParts
<1> SUFFICES ASSUME NEW u \in Inbox!Updates, inbox[u] = "processed",
                    \A l \in Loops : loop[l].at = "recover" => u \notin loop[l].todo
             PROVE  calls'[u] = calls[u]
  BY DEF Inbox!Deduplicated
<1>c. \A v \in Inbox!Updates : Inbox!Call(v) /\ v # u => calls'[u] = calls[u]
  BY <1>t DEF Inbox!Call, HandlersOK
<1>1. CASE Inbox!StartWebhook
  BY <1>1, <1>t DEF Inbox!StartWebhook, Inbox!Unprocessed
<1>2. CASE Inbox!HookHandle
  <2>1. hook.u \in Inbox!Updates /\ hook.u # u
    BY <1>2, <1>t DEF Inbox!HookHandle, HookOK, HookRecords, Inbox!Updates,
                      Inbox!TelegramConstants, InboxFresh
  <2>2. QED  BY <1>2, <1>t, <2>1 DEF Inbox!HookHandle, Inbox!Call, HandlersOK
<1>3. ASSUME NEW l \in Loops, Inbox!Recover(l) PROVE calls'[u] = calls[u]
  <2>1. CASE on /\ loop[l].todo # {}
    <3>1. Inbox!Least(loop[l].todo) \in Inbox!Updates /\ Inbox!Least(loop[l].todo) \in loop[l].todo
      BY <1>t, <2>1, Taken
    <3>2. Inbox!Least(loop[l].todo) # u
      BY <1>3, <3>1 DEF Inbox!Recover
    <3>3. QED  BY <1>3, <1>c, <2>1, <3>1, <3>2 DEF Inbox!Recover
  <2>2. CASE ~on \/ loop[l].todo = {}
    BY <1>3, <2>2 DEF Inbox!Recover
  <2>3. QED  BY <2>1, <2>2
<1>4. ASSUME NEW l \in Loops, Inbox!TakeUpdate(l) PROVE calls'[u] = calls[u]
  <2>1. Inbox!Least(loop[l].todo) \in Inbox!Updates
    BY <1>4, <1>t, Taken DEF Inbox!TakeUpdate
  <2>2. CASE Inbox!ShouldDeliver(Inbox!Least(loop[l].todo))
    BY <1>4, <1>c, <2>1, <2>2 DEF Inbox!TakeUpdate, Inbox!ShouldDeliver
  <2>3. CASE ~Inbox!ShouldDeliver(Inbox!Least(loop[l].todo))
    BY <1>4, <2>3 DEF Inbox!TakeUpdate
  <2>4. QED  BY <2>2, <2>3
<1>5. ASSUME NEW l \in Loops, Inbox!Fetch(l) \/ Inbox!FetchFails(l) \/ Inbox!Aborted(l)
               \/ Inbox!CommitFails(l) \/ Inbox!Delivered(l)
                              \/ Inbox!DeliveryFails(l) \/ Inbox!NextCycle(l) \/ Inbox!StartPolling(l)
      PROVE  calls' = calls
  BY <1>5 DEF Inbox!Fetch, Inbox!FetchFails, Inbox!Aborted, Inbox!CommitFails, Inbox!Delivered,
              Inbox!DeliveryFails, Inbox!NextCycle, Inbox!StartPolling
<1>6. CASE Inbox!NewUpdate \/ Inbox!Crash \/ Inbox!StopPolling \/ Inbox!StopWebhook \/ Inbox!HookMark
             \/ UNCHANGED Inbox!vars
           \/ \E v \in Inbox!Updates : Inbox!WorkEnds(v) \/ Inbox!HookCommit(v)
  BY <1>6 DEF Inbox!NewUpdate, Inbox!Crash, Inbox!StopPolling, Inbox!StopWebhook, Inbox!HookMark,
              Inbox!WorkEnds, Inbox!HookCommit, Inbox!vars
<1>7. QED  BY <1>1, <1>2, <1>3, <1>4, <1>5, <1>6 DEF Inbox!Next, Inbox!LoopStep

-----------------------------------------------------------------------------
\* A poll loop that awaits a handler which does not fail.
Reliable == Mode = "polling" /\ Awaited /\ ~HandlerThrows

\* The handler was called with u, and has finished where it is reliable.
Handed(u) == calls[u] > 0 /\ (Reliable => u \in done)

\* The controller: a channel that is off has none, and no loop that fetches has
\* the one of a channel that is off.
GenInv ==
    /\ on => gen # 0
    /\ ~on => gen = 0
    /\ \A l \in Loops : loop[l].at = "fetch" => loop[l].gen # 0

\* What a loop or the webhook delivers was given to the handler.
HandedOver ==
    /\ \A l \in Loops : loop[l].at \in {"delivering", "recovering"} =>
         calls[loop[l].u] > 0 /\ (Reliable => loop[l].u \in done \cup work)
    /\ hook.at = "handled" => calls[hook.u] > 0

\* While the channel is on, a row of an earlier process was handed over or is
\* on the list of a recovery; so it is not one that a prune could take.
Listed(u) == \E l \in Loops : /\ loop[l].at \in {"recover", "recovering"}
                              /\ u \in loop[l].todo \cup {loop[l].u}
UnknownInv == on => \A u \in Inbox!Updates : inbox[u] = "unknown" => Handed(u) \/ Listed(u)

\* A row that is terminal or gone was handed over.
EndedInv == \A u \in Inbox!Updates : inbox[u] \in {"processed", "pruned"} => Handed(u)

\* Until a crash, the work of a handler that does not fail ends or goes on.
CalmInv == ~HandlerThrows /\ crashes = 0 => \A u \in Inbox!Updates : calls[u] > 0 => u \in done \cup work

HandledInv == GenInv /\ HandedOver /\ UnknownInv /\ EndedInv /\ CalmInv

LEMMA HandledInit == Inbox!Init => HandledInv
  BY DEF Inbox!Init, HandledInv, GenInv, HandedOver, UnknownInv, EndedInv, CalmInv, Inbox!Idle,
         Inbox!NoHook

LEMMA HandledStep ==
    ASSUME Inbox!TelegramConstants, Inbox!TypeOK, InboxFresh, HandledInv, [Inbox!Next]_(Inbox!vars)
    PROVE  HandledInv'
<1>t. RowsOK /\ LoopsOK /\ HookOK /\ HandlersOK /\ CountsOK
  BY InboxParts
<1>f. /\ loop \in [Loops -> LoopRecords]
      /\ \A l \in Loops : loop[l] \in LoopRecords /\ HoldsUpdate(loop[l])
           /\ loop[l].todo \subseteq Inbox!Updates /\ loop[l].gen \in Nat
  BY <1>t DEF LoopsOK, LoopRecords, Inbox!TelegramConstants
<1>u. \A u \in Inbox!Updates : u # 0 /\ u \in Nat
  BY DEF Inbox!Updates, Inbox!TelegramConstants
<1>h. hook.at # "none" => hook.u \in Inbox!Updates /\ Mode = "webhook" /\ on
  BY <1>t DEF HookOK, HookRecords, Inbox!Updates, Inbox!TelegramConstants, InboxFresh
<1>l. \A l \in Loops : loop[l].at \in {"delivering", "recovering"} => loop[l].u \in Inbox!Updates
  BY <1>f DEF HoldsUpdate, LoopRecords, Inbox!Updates, Inbox!TelegramConstants
<1>c. \A u \in Inbox!Updates : calls[u] \in Nat
  BY <1>t DEF HandlersOK
<1>n. starts + 1 # 0 /\ starts \in Nat /\ crashes \in Nat /\ crashes + 1 # 0
  BY <1>t DEF CountsOK, Inbox!TelegramConstants
<1>x. GenInv /\ HandedOver /\ UnknownInv /\ EndedInv /\ CalmInv
  BY DEF HandledInv
\* A call of the handler adds to what was handed over.
<1>k. ASSUME NEW v \in Inbox!Updates, Inbox!Call(v)
      PROVE  /\ \A u \in Inbox!Updates : calls'[u] \in Nat /\ (calls[u] > 0 => calls'[u] > 0)
             /\ calls'[v] > 0 /\ v \in work' /\ work \subseteq work'
             /\ \A u \in Inbox!Updates : u # v => calls'[u] = calls[u]
  <2>1. calls' = [calls EXCEPT ![v] = calls[v] + 1] /\ work' = work \cup {v}
    BY <1>k DEF Inbox!Call
  <2>2. \A u \in Inbox!Updates : calls'[u] = IF u = v THEN calls[u] + 1 ELSE calls[u]
    BY <2>1, <1>t DEF HandlersOK
  <2>3. QED  BY <2>1, <2>2, <1>c
<1>1. CASE Inbox!NewUpdate \/ UNCHANGED Inbox!vars \/ \E u \in Inbox!Updates : Inbox!WorkEnds(u)
  <2>1. /\ UNCHANGED <<inbox, on, gen, loop, hook, calls, crashes>>
        /\ done \subseteq done' /\ done \cup work \subseteq done' \cup work'
    BY <1>1 DEF Inbox!NewUpdate, Inbox!WorkEnds, Inbox!vars
  <2>2. GenInv' /\ HandedOver'
    BY <2>1, <1>x DEF GenInv, HandedOver
  <2>3. UnknownInv' /\ EndedInv'
    BY <2>1, <1>x DEF UnknownInv, EndedInv, Handed, Listed
  <2>4. CalmInv'
    BY <2>1, <1>x DEF CalmInv
  <2>5. QED  BY <2>2, <2>3, <2>4 DEF HandledInv
<1>2. CASE Inbox!Crash \/ Inbox!StopPolling \/ Inbox!StopWebhook
  <2>1. /\ UNCHANGED <<inbox, calls, done>> /\ ~on' /\ gen' = 0
        /\ UNCHANGED <<loop, hook, work, crashes>> \/ Inbox!Crash
    BY <1>2 DEF Inbox!Crash, Inbox!StopPolling, Inbox!StopWebhook
  <2>2. GenInv' /\ HandedOver'
    BY <1>x, <2>1 DEF GenInv, HandedOver, Inbox!Crash, Inbox!Idle, Inbox!NoHook
  <2>3. UnknownInv' /\ EndedInv'
    BY <2>1, <1>x DEF UnknownInv, EndedInv, Handed
  <2>4. CalmInv'
    BY <2>1, <1>x, <1>n DEF CalmInv, Inbox!Crash
  <2>5. QED  BY <2>2, <2>3, <2>4 DEF HandledInv
<1>3. CASE Inbox!StartWebhook
  <2>1. /\ Mode = "webhook" /\ on' /\ gen' = starts + 1 /\ UNCHANGED <<loop, hook, done, crashes>>
        /\ ~on
        /\ \A u \in Inbox!Updates : calls'[u] = IF u \in Inbox!Unprocessed THEN calls[u] + 1
             ELSE calls[u]
    BY <1>3 DEF Inbox!StartWebhook
  <2>2. PICK F \in SUBSET Inbox!Unprocessed :
          /\ F = {} \/ HandlerThrows
          /\ inbox' = [u \in Inbox!Updates |-> IF u \in F THEN "unknown"
               ELSE IF u \in Inbox!Unprocessed THEN "processed" ELSE inbox[u]]
          /\ work' = work \cup (Inbox!Unprocessed \ F)
    BY <1>3 DEF Inbox!StartWebhook
  <2>3. \A u \in Inbox!Updates : /\ calls[u] > 0 => calls'[u] > 0
                                 /\ u \in Inbox!Unprocessed => calls'[u] > 0
                                 /\ u \notin Inbox!Unprocessed => calls'[u] = calls[u]
    BY <2>1, <1>c
  <2>4. ~Reliable
    BY <2>1 DEF Reliable
  <2>5. GenInv' /\ HandedOver'
    <3>1. hook.at = "none" /\ \A l \in Loops : loop[l].at = "off"
      BY <1>h, <2>1 DEF InboxFresh
    <3>2. QED  BY <2>1, <3>1, <1>n DEF GenInv, HandedOver
  <2>6. UnknownInv' /\ EndedInv'
    <3>1. \A u \in Inbox!Updates : inbox'[u] = "unknown" => calls'[u] > 0
      BY <2>2, <2>3 DEF Inbox!Unprocessed
    <3>2. \A u \in Inbox!Updates : inbox'[u] \in {"processed", "pruned"} => calls'[u] > 0
      BY <2>2, <2>3, <1>x DEF EndedInv, Handed
    <3>3. QED  BY <3>1, <3>2, <2>4 DEF UnknownInv, EndedInv, Handed, Reliable
  <2>7. CalmInv'
    BY <2>1, <2>2, <2>3, <1>x DEF CalmInv
  <2>8. QED  BY <2>5, <2>6, <2>7 DEF HandledInv
<1>4. CASE Inbox!HookHandle
  <2>1. /\ Mode = "webhook" /\ on /\ hook.u \in Inbox!Updates /\ hook.at = "committed"
        /\ UNCHANGED <<inbox, on, gen, loop, done, crashes>>
    BY <1>4, <1>h DEF Inbox!HookHandle
  <2>2. /\ \A u \in Inbox!Updates : calls[u] > 0 => calls'[u] > 0
        /\ hook'.at = "handled" => calls'[hook'.u] > 0
        /\ ~HandlerThrows => Inbox!Call(hook.u)
    <3>1. CASE Inbox!Call(hook.u) /\ hook' = [hook EXCEPT !.at = "handled"]
      <4>1. hook'.u = hook.u
        BY <3>1, <1>t DEF HookOK, HookRecords
      <4>2. QED  BY <3>1, <4>1, <2>1, <1>k
    <3>2. CASE /\ HandlerThrows /\ calls' = [calls EXCEPT ![hook.u] = calls[hook.u] + 1]
               /\ hook' = Inbox!NoHook
      <4>1. \A u \in Inbox!Updates : calls'[u] = IF u = hook.u THEN calls[u] + 1 ELSE calls[u]
        BY <3>2, <1>t DEF HandlersOK
      <4>2. QED  BY <3>2, <4>1, <1>c DEF Inbox!NoHook
    <3>3. QED  BY <1>4, <3>1, <3>2 DEF Inbox!HookHandle
  <2>3. ~Reliable
    BY <2>1 DEF Reliable
  <2>4. GenInv' /\ HandedOver'
    <3>1. \A l \in Loops : loop'[l].at = "off"
      BY <2>1 DEF InboxFresh
    <3>2. QED  BY <2>1, <2>2, <3>1, <1>x DEF GenInv, HandedOver
  <2>5. UnknownInv' /\ EndedInv'
    BY <2>1, <2>2, <2>3, <1>x DEF UnknownInv, EndedInv, Handed, Listed, Reliable
  <2>6. CalmInv'
    <3>1. SUFFICES ASSUME ~HandlerThrows, crashes = 0, NEW u \in Inbox!Updates, calls'[u] > 0
                   PROVE  u \in done \cup work'
      BY <2>1 DEF CalmInv
    <3>2. Inbox!Call(hook.u)
      BY <2>2, <3>1
    <3>3. QED  BY <3>1, <3>2, <2>1, <1>k, <1>x DEF CalmInv
  <2>7. QED  BY <2>4, <2>5, <2>6 DEF HandledInv
<1>5. CASE Inbox!HookMark
  <2>1. /\ hook.at = "handled" /\ hook' = Inbox!NoHook /\ inbox' = [inbox EXCEPT ![hook.u] = "processed"]
        /\ UNCHANGED <<on, gen, loop, calls, work, done, crashes>>
    BY <1>5 DEF Inbox!HookMark
  <2>2. ~Reliable /\ calls[hook.u] > 0 /\ hook.u \in Inbox!Updates
    BY <2>1, <1>h, <1>x DEF Reliable, HandedOver
  <2>3. \A u \in Inbox!Updates : inbox'[u] = inbox[u] \/ (u = hook.u /\ inbox'[u] = "processed")
    BY <2>1, <1>t DEF RowsOK
  <2>4. GenInv' /\ HandedOver' /\ CalmInv'
    BY <2>1, <1>x DEF GenInv, HandedOver, CalmInv, Inbox!NoHook
  <2>5. UnknownInv' /\ EndedInv'
    BY <2>1, <2>2, <2>3, <1>x DEF UnknownInv, EndedInv, Handed, Listed, Reliable
  <2>6. QED  BY <2>4, <2>5 DEF HandledInv
\* What a prune takes was processed, or an unknown row that nobody lists.
<1>p. ASSUME on, NEW u \in Inbox!Prunable PROVE Handed(u)
  <2>1. /\ u \in Inbox!Updates /\ inbox[u] \in {"processed", "unknown"}
        /\ \A l \in Loops : u \notin loop[l].todo \cup {loop[l].u}
    BY <1>p DEF Inbox!Prunable, Inbox!Held
  <2>2. QED  BY <1>p, <2>1, <1>x DEF UnknownInv, EndedInv, Listed
<1>6. ASSUME NEW u \in Inbox!Updates, Inbox!HookCommit(u) PROVE HandledInv'
  <2>1. /\ on /\ UNCHANGED <<on, gen, loop, calls, work, done, crashes>>
        /\ hook' = IF Inbox!ShouldDeliver(u) THEN [u |-> u, at |-> "committed"] ELSE Inbox!NoHook
    BY <1>6 DEF Inbox!HookCommit
  <2>2. PICK D \in SUBSET (Inbox!Prunable \ {u}) : inbox' = Inbox!Pruned(Inbox!Committed(u), D)
    BY <1>6 DEF Inbox!HookCommit
  <2>3. \A v \in Inbox!Updates : \/ inbox'[v] = inbox[v] \/ inbox'[v] = "pending"
                                 \/ v \in Inbox!Prunable /\ inbox'[v] = "pruned"
    BY <2>2, <1>t DEF Inbox!Pruned, Inbox!Committed, RowsOK
  <2>4. GenInv' /\ HandedOver' /\ CalmInv'
    BY <2>1, <1>x DEF GenInv, HandedOver, CalmInv, Inbox!NoHook
  <2>5. UnknownInv' /\ EndedInv'
    BY <2>1, <2>3, <1>x, <1>p DEF UnknownInv, EndedInv, Handed, Listed
  <2>6. QED  BY <2>4, <2>5 DEF HandledInv
<1>7. ASSUME NEW l \in Loops, Inbox!StartPolling(l) PROVE HandledInv'
  <2>1. /\ loop' = [loop EXCEPT ![l] = [Inbox!Idle EXCEPT !.at = "recover", !.todo = Inbox!Unprocessed,
             !.gen = gen']]
        /\ inbox' = Inbox!Reconciled /\ on' /\ gen' = starts + 1 /\ Mode = "polling"
        /\ UNCHANGED <<hook, calls, work, done, crashes>>
    BY <1>7 DEF Inbox!StartPolling
  <2>2. loop'[l].todo = Inbox!Unprocessed /\ loop'[l].at = "recover"
        /\ \A m \in Loops : m # l => loop'[m] = loop[m]
    BY <2>1, <1>f DEF Inbox!Idle
  <2>3. \A u \in Inbox!Updates : /\ inbox'[u] \in {"processed", "pruned"} => inbox[u] = inbox'[u]
                                 /\ inbox'[u] = "unknown" => u \in Inbox!Unprocessed
    BY <2>1 DEF Inbox!Reconciled, Inbox!Unprocessed
  <2>4. GenInv' /\ HandedOver' /\ CalmInv'
    BY <2>1, <2>2, <1>x, <1>n DEF GenInv, HandedOver, CalmInv
  <2>5. EndedInv'
    BY <2>1, <2>3, <1>x DEF EndedInv, Handed
  <2>6. UnknownInv'
    BY <2>2, <2>3 DEF UnknownInv, Listed
  <2>7. QED  BY <2>4, <2>5, <2>6 DEF HandledInv
\* A step of one loop that recovers nothing, before or after it.
<1>s. ASSUME NEW l \in Loops, \A m \in Loops : m # l => loop'[m] = loop[m],
             loop[l].at \in {"recover", "recovering"} /\ on => loop[l].todo = {} /\ loop[l].at = "recover",
             UNCHANGED <<on, calls, done>>, on => \A u \in Inbox!Updates :
               inbox'[u] = "unknown" => inbox[u] = "unknown"
      PROVE  UnknownInv'
  <2>1. SUFFICES ASSUME on, NEW u \in Inbox!Updates, inbox[u] = "unknown", ~Handed(u)
                 PROVE  Listed(u)'
    BY <1>s DEF UnknownInv, Handed
  <2>2. PICK m \in Loops : loop[m].at \in {"recover", "recovering"} /\ u \in loop[m].todo \cup {loop[m].u}
    BY <2>1, <1>x DEF UnknownInv, Listed
  <2>3. m # l
    BY <1>s, <2>1, <2>2, <1>f, <1>u DEF HoldsUpdate
  <2>4. QED  BY <1>s, <2>2, <2>3 DEF Listed
<1>8. ASSUME NEW l \in Loops, Inbox!Recover(l) PROVE HandledInv'
  <2>0. /\ UNCHANGED <<inbox, on, gen, hook, done, crashes>> /\ loop[l].at = "recover"
        /\ \A m \in Loops : m # l => loop'[m] = loop[m]
    BY <1>8, <1>f DEF Inbox!Recover
  <2>1. CASE on /\ loop[l].todo # {}
    <3> DEFINE u == Inbox!Least(loop[l].todo)
    <3>1. /\ loop'[l].todo = loop[l].todo \ {u} /\ loop'[l].u = u
          /\ loop'[l].at = "recovering" /\ Inbox!Call(u)
      BY <1>8, <2>1, <1>f DEF Inbox!Recover, LoopRecords
    <3>2. u \in Inbox!Updates /\ u \in loop[l].todo
      BY <1>t, <2>1, Taken
    <3> HIDE DEF u
    <3>3. GenInv'
      BY <2>0, <3>1, <1>x DEF GenInv
    <3>4. HandedOver'
      BY <2>0, <3>1, <3>2, <1>x, <1>k, <1>l, <1>h DEF HandedOver
    <3>5. EndedInv'
      BY <2>0, <3>1, <3>2, <1>x, <1>k DEF EndedInv, Handed
    <3>6. UnknownInv'
      <4>1. \A v \in Inbox!Updates : /\ Handed(v) => Handed(v)'
                                     /\ Listed(v) => Listed(v)'
        <5>1. \A v \in Inbox!Updates : Handed(v) => Handed(v)'
          BY <2>0, <3>1, <3>2, <1>k DEF Handed, Reliable
        <5>2. loop[l].todo \subseteq loop'[l].todo \cup {loop'[l].u}
          BY <3>1
        <5>3. loop[l].u = 0
          BY <2>0, <1>f DEF HoldsUpdate
        <5>4. \A v \in Inbox!Updates : Listed(v) => Listed(v)'
          BY <2>0, <3>1, <5>2, <5>3, <1>u DEF Listed
        <5>5. QED  BY <5>1, <5>4
      <4>2. QED  BY <2>0, <4>1, <1>x DEF UnknownInv
    <3>7. CalmInv'
      BY <2>0, <3>1, <3>2, <1>x, <1>k DEF CalmInv
    <3>8. QED  BY <3>3, <3>4, <3>5, <3>6, <3>7 DEF HandledInv
  <2>2. CASE ~on \/ loop[l].todo = {}
    <3>1. /\ loop'[l] = IF on THEN [Inbox!Idle EXCEPT !.at = "fetch", !.offset = cursor, !.gen = gen]
               ELSE Inbox!Idle
          /\ UNCHANGED <<calls, work>>
      BY <1>8, <2>2, <1>f DEF Inbox!Recover
    <3>2. /\ loop'[l].at = IF on THEN "fetch" ELSE "off"
          /\ on => loop'[l].gen = gen
      BY <3>1 DEF Inbox!Idle
    <3>3. GenInv' /\ HandedOver' /\ CalmInv'
      BY <2>0, <3>1, <3>2, <1>x DEF GenInv, HandedOver, CalmInv
    <3>4. EndedInv'
      BY <2>0, <3>1, <1>x DEF EndedInv, Handed
    <3>5. UnknownInv'
      BY <2>0, <2>2, <3>1, <1>s
    <3>6. QED  BY <3>3, <3>4, <3>5 DEF HandledInv
  <2>3. QED  BY <2>1, <2>2
<1>9. ASSUME NEW l \in Loops, Inbox!Fetch(l) PROVE HandledInv'
  <2>1. /\ UNCHANGED <<on, gen, hook, calls, work, done, crashes>> /\ loop[l].at = "fetch"
        /\ loop'[l].at = "batch" /\ loop[l].gen = gen /\ \A m \in Loops : m # l => loop'[m] = loop[m]
    BY <1>9, <1>f DEF Inbox!Fetch, LoopRecords
  <2>2. on
    BY <2>1, <1>x DEF GenInv
  <2>3. PICK D \in SUBSET Inbox!Prunable : inbox' = Inbox!Pruned(inbox, D)
    BY <1>9 DEF Inbox!Fetch
  <2>4. \A u \in Inbox!Updates : inbox'[u] = inbox[u] \/ (inbox'[u] = "pruned" /\ u \in Inbox!Prunable)
    BY <2>3 DEF Inbox!Pruned
  <2>5. GenInv' /\ HandedOver' /\ CalmInv'
    BY <2>1, <1>x DEF GenInv, HandedOver, CalmInv
  <2>6. EndedInv'
    BY <2>1, <2>2, <2>4, <1>x, <1>p DEF EndedInv, Handed
  <2>7. UnknownInv'
    BY <2>1, <2>4, <1>s
  <2>8. QED  BY <2>5, <2>6, <2>7 DEF HandledInv
<1>10. ASSUME NEW l \in Loops, \/ Inbox!FetchFails(l) \/ Inbox!CommitFails(l) \/ Inbox!Aborted(l)
                               \/ Inbox!NextCycle(l)
       PROVE  HandledInv'
  <2>1. /\ UNCHANGED <<inbox, on, gen, hook, calls, work, done, crashes>>
        /\ loop[l].at \in {"fetch", "batch", "sleep"} /\ \A m \in Loops : m # l => loop'[m] = loop[m]
    BY <1>10, <1>f DEF Inbox!FetchFails, Inbox!CommitFails, Inbox!Aborted, Inbox!NextCycle
  <2>2. loop'[l].at \in {"sleep", "off"} \/ (loop'[l].at = "fetch" /\ on /\ loop'[l].gen = gen)
    <3>1. CASE Inbox!FetchFails(l) \/ Inbox!CommitFails(l)
      BY <3>1, <1>f DEF Inbox!FetchFails, Inbox!CommitFails, LoopRecords
    <3>2. CASE Inbox!Aborted(l)
      BY <3>2, <1>f DEF Inbox!Aborted, Inbox!Idle
    <3>3. CASE Inbox!NextCycle(l)
      <4>1. loop'[l] = IF on THEN [loop[l] EXCEPT !.at = "fetch", !.gen = gen] ELSE Inbox!Idle
        BY <3>3, <1>f DEF Inbox!NextCycle
      <4>2. QED  BY <4>1, <1>f DEF Inbox!Idle, LoopRecords
    <3>4. QED  BY <1>10, <3>1, <3>2, <3>3
  <2>3. GenInv' /\ HandedOver' /\ CalmInv'
    BY <2>1, <2>2, <1>x DEF GenInv, HandedOver, CalmInv
  <2>4. EndedInv'
    BY <2>1, <1>x DEF EndedInv, Handed
  <2>5. UnknownInv'
    BY <2>1, <1>s
  <2>6. QED  BY <2>3, <2>4, <2>5 DEF HandledInv
<1>11. ASSUME NEW l \in Loops, Inbox!TakeUpdate(l) PROVE HandledInv'
  <2> DEFINE u == Inbox!Least(loop[l].todo)
  <2>1. /\ u \in Inbox!Updates /\ inbox' = Inbox!Committed(u) /\ loop[l].at = "batch"
        /\ UNCHANGED <<on, gen, hook, done, crashes>>
        /\ \A m \in Loops : m # l => loop'[m] = loop[m]
    BY <1>11, <1>t, <1>f, Taken DEF Inbox!TakeUpdate
  <2>2. /\ loop'[l].at = IF Inbox!ShouldDeliver(u) THEN "delivering" ELSE "batch"
        /\ loop'[l].u = IF Inbox!ShouldDeliver(u) THEN u ELSE 0
        /\ IF Inbox!ShouldDeliver(u) THEN Inbox!Call(u) ELSE UNCHANGED <<calls, work>>
    BY <1>11, <1>f DEF Inbox!TakeUpdate, LoopRecords
  <2> HIDE DEF u
  <2>3. \A v \in Inbox!Updates : inbox'[v] = inbox[v] \/ inbox'[v] = "pending"
    BY <2>1, <1>t DEF Inbox!Committed, RowsOK
  <2>4. \A v \in Inbox!Updates : /\ calls[v] > 0 => calls'[v] > 0
                                 /\ v = u \/ calls'[v] = calls[v]
    BY <2>1, <2>2, <1>k
  <2>5. work \subseteq work' /\ (Inbox!ShouldDeliver(u) => u \in work' /\ calls'[u] > 0)
    BY <2>1, <2>2, <1>k
  <2>6. GenInv'
    BY <2>1, <2>2, <1>x DEF GenInv
  <2>7. HandedOver'
    BY <2>1, <2>2, <2>4, <2>5, <1>x, <1>l, <1>h DEF HandedOver
  <2>8. EndedInv'
    BY <2>1, <2>3, <2>4, <1>x DEF EndedInv, Handed
  <2>9. UnknownInv'
    <3>1. \A v \in Inbox!Updates : Handed(v) => Handed(v)'
      BY <2>1, <2>4 DEF Handed, Reliable
    <3>2. \A v \in Inbox!Updates : Listed(v) => Listed(v)'
      BY <2>1 DEF Listed
    <3>3. QED  BY <2>1, <2>3, <3>1, <3>2, <1>x DEF UnknownInv
  <2>10. CalmInv'
    BY <2>1, <2>2, <2>4, <2>5, <1>x DEF CalmInv
  <2>11. QED  BY <2>6, <2>7, <2>8, <2>9, <2>10 DEF HandledInv
<1>12. ASSUME NEW l \in Loops, Inbox!Delivered(l) \/ Inbox!DeliveryFails(l) PROVE HandledInv'
  <2> DEFINE u == loop[l].u
  <2>1. /\ loop[l].at \in {"delivering", "recovering"} /\ u \in Inbox!Updates
        /\ UNCHANGED <<on, gen, hook, calls, done, crashes>>
        /\ \A m \in Loops : m # l => loop'[m] = loop[m]
    BY <1>12, <1>l, <1>f DEF Inbox!Delivered, Inbox!DeliveryFails
  <2>2. /\ loop'[l].at = Inbox!Back(loop[l].at) /\ loop'[l].u = 0 /\ loop'[l].todo = loop[l].todo
        /\ loop'[l].at \in {"batch", "recover"}
    BY <1>12, <1>f DEF Inbox!Delivered, Inbox!DeliveryFails, LoopRecords, Inbox!Back
  <2>3. \A v \in Inbox!Updates : inbox'[v] = inbox[v] \/ (v = u /\ inbox'[v] = "processed")
    BY <1>12, <1>t DEF Inbox!Delivered, Inbox!DeliveryFails, RowsOK
  <2>4. work' = work \/ (HandlerThrows /\ ~Reliable)
    BY <1>12 DEF Inbox!Delivered, Inbox!DeliveryFails, Reliable
  <2>5. Handed(u)
    <3>1. calls[u] > 0 /\ (Reliable => u \in done \cup work)
      BY <2>1, <1>x DEF HandedOver
    <3>2. Reliable => u \notin work
      BY <1>12 DEF Reliable, Inbox!Delivered, Inbox!DeliveryFails
    <3>3. QED  BY <3>1, <3>2 DEF Handed
  <2> HIDE DEF u
  <2>6. GenInv'
    BY <2>1, <2>2, <1>x DEF GenInv
  <2>7. HandedOver'
    BY <2>1, <2>2, <2>4, <1>x DEF HandedOver, Reliable
  <2>8. EndedInv'
    BY <2>1, <2>3, <2>5, <1>x DEF EndedInv, Handed, Reliable
  <2>9. UnknownInv'
    <3>1. \A v \in Inbox!Updates : Listed(v) => Listed(v)' \/ v = u
      BY <2>1, <2>2 DEF Listed, Inbox!Back, u
    <3>2. QED  BY <2>1, <2>3, <2>5, <3>1, <1>x DEF UnknownInv, Handed, Reliable
  <2>10. CalmInv'
    BY <2>1, <2>4, <1>x DEF CalmInv
  <2>11. QED  BY <2>6, <2>7, <2>8, <2>9, <2>10 DEF HandledInv
<1>13. QED  BY <1>1, <1>2, <1>3, <1>4, <1>5, <1>6, <1>7, <1>8, <1>9, <1>10, <1>11, <1>12
            DEF Inbox!Next, Inbox!LoopStep

LEMMA InboxInvariance ==
    Inbox!TelegramConstants => (Inbox!Spec => [](Inbox!TypeOK /\ StoredInv))
<1> SUFFICES ASSUME Inbox!TelegramConstants PROVE Inbox!Spec => [](Inbox!TypeOK /\ StoredInv)
  OBVIOUS
<1>1. Inbox!Init => Inbox!TypeOK /\ StoredInv
  BY InboxTypeInit, StoredInit
<1>2. Inbox!TypeOK /\ StoredInv /\ [Inbox!Next]_(Inbox!vars) => Inbox!TypeOK' /\ StoredInv'
  BY InboxTypeStep, StoredStep
<1>3. QED  BY <1>1, <1>2, PTL DEF Inbox!Spec

LEMMA InboxFreshInvariance ==
    Inbox!TelegramConstants => (Inbox!Spec => [](Inbox!TypeOK /\ InboxFresh))
<1> SUFFICES ASSUME Inbox!TelegramConstants PROVE Inbox!Spec => [](Inbox!TypeOK /\ InboxFresh)
  OBVIOUS
<1>1. Inbox!Init => Inbox!TypeOK /\ InboxFresh
  BY InboxTypeInit, InboxFreshInit
<1>2. Inbox!TypeOK /\ InboxFresh /\ [Inbox!Next]_(Inbox!vars) => Inbox!TypeOK' /\ InboxFresh'
  BY InboxTypeStep, InboxFreshStep
<1>3. QED  BY <1>1, <1>2, PTL DEF Inbox!Spec

\* pollLoop, handleHttpWebhook and the inbox store: whatever Telegram has
\* forgotten has a row, in both modes, with any number of poll loops, through
\* failing fetches and commits, lost answers, stops and crashes: an update is
\* committed before the offset passes it or the 200 is sent.
THEOREM NothingForgottenHolds ==
    Inbox!TelegramConstants => (Inbox!Spec => []Inbox!NothingForgotten)
<1> SUFFICES ASSUME Inbox!TelegramConstants PROVE Inbox!Spec => []Inbox!NothingForgotten
  OBVIOUS
<1>1. QED  BY InboxInvariance, PTL DEF StoredInv

\* shouldDeliver and recoverPending: once a row is processed, no resend, later
\* batch or new recovery gives its update to the handler again, with any number
\* of poll loops; only a recovery that has listed the row while another loop
\* was at it does.
THEOREM DeduplicatedHolds ==
    Inbox!TelegramConstants => (Inbox!Spec => [][Inbox!Deduplicated]_(Inbox!vars))
<1> SUFFICES ASSUME Inbox!TelegramConstants PROVE Inbox!Spec => [][Inbox!Deduplicated]_(Inbox!vars)
  OBVIOUS
<1>1. Inbox!TypeOK /\ InboxFresh /\ [Inbox!Next]_(Inbox!vars) => Inbox!Deduplicated
  BY DeduplicatedStep
<1>2. QED  BY <1>1, InboxFreshInvariance, PTL DEF Inbox!Spec

LEMMA HandledImplies == Inbox!TypeOK /\ HandledInv => Inbox!NeverLost
<1> SUFFICES ASSUME Inbox!TypeOK, HandledInv, NEW u \in Inbox!Updates,
                    inbox[u] \in {"processed", "pruned"}
             PROVE  /\ calls[u] > 0
                    /\ ~HandlerThrows /\ ((Awaited /\ Mode = "polling") \/ crashes = 0)
                         => u \in done \cup work
  BY DEF Inbox!NeverLost
<1>1. Handed(u)
  BY DEF HandledInv, EndedInv
<1>2. QED  BY <1>1 DEF HandledInv, CalmInv, Handed, Reliable

\* deliver, markProcessed, recoverPending and pruneTerminalOlderThan: a row that
\* is terminal or pruned is that of an update that the handler was called with;
\* where the handler does not fail its work is done or under way, through
\* crashes if the poll loop awaits it, and up to the first crash otherwise.
THEOREM NeverLostHolds == Inbox!TelegramConstants => (Inbox!Spec => []Inbox!NeverLost)
<1> SUFFICES ASSUME Inbox!TelegramConstants PROVE Inbox!Spec => []Inbox!NeverLost
  OBVIOUS
<1>1. Inbox!TypeOK /\ InboxFresh /\ HandledInv /\ [Inbox!Next]_(Inbox!vars) => HandledInv'
  BY HandledStep
<1>2. QED  BY <1>1, HandledInit, HandledImplies, InboxFreshInvariance, PTL DEF Inbox!Spec

-----------------------------------------------------------------------------
(* The channel registry                                                    *)
Attempts == {Channels!Free} \cup [p : 1..made, by : {"batch", "restart"}]
Restarts(s) == att[s].by = "restart"

\* Until stopAll, the kind is marked exactly while a restart is in flight,
\* there is one at a time, and a connected plugin is marked running.
RestartInv ==
  /\ monitor => stop = "no"
  /\ \A s \in ChannelSlots : Restarts(s) /\ stop = "no" => restarting
  /\ \A s, t \in ChannelSlots : Restarts(s) /\ Restarts(t) => s = t
  /\ \A p \in Channels!Plugins : conn[p] = "connected" /\ stop = "no" => running[p]

ChannelInv == Channels!TypeOK /\ RestartInv

LEMMA ChannelInit == Channels!ChannelConstants /\ Channels!Init => ChannelInv
<1> SUFFICES ASSUME Channels!ChannelConstants, Channels!Init PROVE ChannelInv
  OBVIOUS
<1>1. 0 \in 0..MaxPlugins /\ 0 \in 0..0 /\ 0 \in 0..Unregisters
  BY DEF Channels!ChannelConstants
<1>2. Channels!TypeOK
  BY <1>1 DEF Channels!Init, Channels!TypeOK
<1>3. \A s \in ChannelSlots : att[s].by # "restart"
  BY DEF Channels!Init, Channels!Free
<1>4. QED  BY <1>2, <1>3 DEF Channels!Init, ChannelInv, RestartInv, Restarts

LEMMA ChannelType ==
    ASSUME Channels!ChannelConstants, Channels!TypeOK, [Channels!Next]_(Channels!vars)
    PROVE  Channels!TypeOK'
<1> USE DEF Channels!TypeOK, Channels!Plugins, Channels!ChannelConstants
<1>1. CASE Channels!Register
  <2>1. made' = made + 1 /\ channel' = made + 1 /\ made' \in 0..MaxPlugins /\ channel' \in 0..made'
    BY <1>1 DEF Channels!Register
  <2>2. ASSUME NEW s \in ChannelSlots PROVE att'[s] \in {Channels!Free} \cup [p : 1..made',
                 by : {"batch", "restart"}]
    <3>1. CASE att[s] = Channels!Free
      BY <1>1, <3>1 DEF Channels!Register
    <3>2. CASE att[s] \in [p : 1..made, by : {"batch", "restart"}]
      <4>1. 1..made \subseteq 1..made'
        BY <2>1
      <4>2. QED  BY <1>1, <3>2, <4>1 DEF Channels!Register
    <3>3. QED  BY <3>1, <3>2
  <2>3. att' \in [ChannelSlots -> {Channels!Free} \cup [p : 1..made', by : {"batch", "restart"}]]
    BY <1>1, <2>2 DEF Channels!Register
  <2>4. QED  BY <1>1, <2>1, <2>3 DEF Channels!Register
<1>2. CASE Channels!Unregister
  <2>1. channel' \in 0..made' /\ made' = made
    BY <1>2 DEF Channels!Unregister
  <2>2. unregs' \in [1..MaxPlugins -> 0..Unregisters]
    BY <1>2 DEF Channels!Unregister
  <2>3. QED  BY <1>2, <2>1, <2>2 DEF Channels!Unregister
<1>3. ASSUME NEW p \in Channels!Plugins, Channels!Unregistered(p) \/ Channels!UnregisterFails(p)
      PROVE  Channels!TypeOK'
  <2>1. unregs' \in [1..MaxPlugins -> 0..Unregisters]
    BY <1>3 DEF Channels!Unregistered, Channels!UnregisterFails
  <2>2. channel' \in 0..made' /\ made' = made
    BY <1>3 DEF Channels!Unregistered, Channels!UnregisterFails
  <2>3. QED  BY <1>3, <2>1, <2>2 DEF Channels!Unregistered, Channels!UnregisterFails
<1>4. ASSUME NEW p \in Channels!Plugins, Channels!ConnectionLost(p) PROVE Channels!TypeOK'
  BY <1>4 DEF Channels!ConnectionLost
<1>5. ASSUME NEW s \in ChannelSlots, Channels!StartBatch(s) \/ Channels!HealthCheck(s)
      PROVE  Channels!TypeOK'
  <2>1. channel \in 1..made /\ channel \in 1..MaxPlugins
    BY <1>5 DEF Channels!StartBatch, Channels!HealthCheck
  <2>2. \E by \in {"batch", "restart"} : att' = [att EXCEPT ![s] = [p |-> channel, by |-> by]]
    BY <1>5 DEF Channels!StartBatch, Channels!HealthCheck
  <2>3. att' \in [ChannelSlots -> {Channels!Free} \cup [p : 1..made, by : {"batch", "restart"}]]
    BY <2>1, <2>2
  <2>4. running' \in [1..MaxPlugins -> BOOLEAN]
    BY <1>5, <2>1 DEF Channels!StartBatch, Channels!HealthCheck
  <2>5. QED  BY <1>5, <2>3, <2>4 DEF Channels!StartBatch, Channels!HealthCheck
<1>6. ASSUME NEW s \in ChannelSlots, Channels!AttemptSucceeds(s) \/ Channels!AttemptFails(s)
      PROVE  Channels!TypeOK'
  <2>1. att[s] \in [p : 1..made, by : {"batch", "restart"}] /\ att[s].p \in 1..MaxPlugins
    BY <1>6 DEF Channels!AttemptSucceeds, Channels!AttemptFails
  <2>2. att' \in [ChannelSlots -> {Channels!Free} \cup [p : 1..made, by : {"batch", "restart"}]]
    BY <1>6 DEF Channels!AttemptSucceeds, Channels!AttemptFails
  <2>3. /\ running' \in [1..MaxPlugins -> BOOLEAN]
        /\ conn' \in [1..MaxPlugins -> {"disconnected", "connected"}]
    BY <1>6, <2>1 DEF Channels!AttemptSucceeds, Channels!AttemptFails
  <2>4. QED  BY <1>6, <2>2, <2>3 DEF Channels!AttemptSucceeds, Channels!AttemptFails
<1>7. CASE Channels!StartHealthMonitor \/ Channels!StopAll
  BY <1>7 DEF Channels!StartHealthMonitor, Channels!StopAll
<1>8. CASE Channels!Stopped
  <2>1. /\ running' \in [1..MaxPlugins -> BOOLEAN]
        /\ conn' \in [1..MaxPlugins -> {"disconnected", "connected"}]
    BY <1>8 DEF Channels!Stopped
  <2>2. QED  BY <1>8, <2>1 DEF Channels!Stopped
<1>9. CASE UNCHANGED Channels!vars
  BY <1>9 DEF Channels!vars
<1>10. QED
  BY <1>1, <1>2, <1>3, <1>4, <1>5, <1>6, <1>7, <1>8, <1>9 DEF Channels!Next

LEMMA ChannelStep ==
    ASSUME Channels!ChannelConstants, ChannelInv, [Channels!Next]_(Channels!vars)
    PROVE  ChannelInv'
<1> USE DEF RestartInv, Restarts
<1>t. Channels!TypeOK /\ RestartInv /\ Channels!TypeOK'
  BY ChannelType DEF ChannelInv
<1>a. att \in [ChannelSlots -> Attempts] /\ Channels!Free.by # "restart"
  BY <1>t DEF Channels!TypeOK, Attempts, Channels!Free
<1> SUFFICES RestartInv'
  BY <1>t DEF ChannelInv
<1>1. CASE Channels!Register \/ Channels!Unregister \/ Channels!StartHealthMonitor \/ Channels!StopAll
             \/ UNCHANGED Channels!vars
  BY <1>1, <1>t DEF Channels!Register, Channels!Unregister, Channels!StartHealthMonitor,
                    Channels!StopAll, Channels!vars
<1>2. CASE Channels!Stopped
  BY <1>2, <1>t DEF Channels!Stopped
<1>3. ASSUME NEW p \in Channels!Plugins, Channels!Unregistered(p) \/ Channels!UnregisterFails(p)
               \/ Channels!ConnectionLost(p)
      PROVE  RestartInv'
  BY <1>3, <1>t DEF Channels!Unregistered, Channels!UnregisterFails, Channels!ConnectionLost,
                    Channels!TypeOK
<1>4. ASSUME NEW s \in ChannelSlots, Channels!StartBatch(s) PROVE RestartInv'
  <2>1. \A t \in ChannelSlots : Restarts(t)' => Restarts(t)
    BY <1>4, <1>a DEF Channels!StartBatch
  <2>2. QED  BY <1>4, <1>t, <2>1 DEF Channels!StartBatch
<1>5. ASSUME NEW s \in ChannelSlots, Channels!HealthCheck(s) PROVE RestartInv'
  <2>1. stop = "no" /\ \A t \in ChannelSlots : ~Restarts(t)
    BY <1>5, <1>t DEF Channels!HealthCheck
  <2>2. \A t \in ChannelSlots : Restarts(t)' => t = s
    BY <1>5, <1>a, <2>1 DEF Channels!HealthCheck
  <2>3. \A p \in Channels!Plugins : conn'[p] = "connected" /\ stop' = "no" => running'[p]
    BY <1>5, <1>t DEF Channels!HealthCheck, Channels!TypeOK
  <2>4. QED  BY <1>5, <1>t, <2>1, <2>2, <2>3 DEF Channels!HealthCheck
<1>6. ASSUME NEW s \in ChannelSlots, Channels!AttemptSucceeds(s) \/ Channels!AttemptFails(s)
      PROVE  RestartInv'
  <2>1. \A t \in ChannelSlots : Restarts(t)' => Restarts(t) /\ t # s
    BY <1>6, <1>a DEF Channels!AttemptSucceeds, Channels!AttemptFails
  <2>2. att[s].by = "batch" \/ Restarts(s)
    BY <1>6, <1>a DEF Attempts, Channels!AttemptSucceeds, Channels!AttemptFails
  <2>3. \A t \in ChannelSlots : Restarts(t)' /\ stop' = "no" => restarting'
    BY <1>6, <1>t, <2>1, <2>2 DEF Channels!AttemptSucceeds, Channels!AttemptFails
  <2>4. \A p \in Channels!Plugins : conn'[p] = "connected" /\ stop' = "no" => running'[p]
    BY <1>6, <1>t DEF Channels!AttemptSucceeds, Channels!AttemptFails, Channels!TypeOK
  <2>5. QED  BY <1>6, <1>t, <2>1, <2>3, <2>4 DEF Channels!AttemptSucceeds, Channels!AttemptFails
<1>7. QED
  BY <1>1, <1>2, <1>3, <1>4, <1>5, <1>6 DEF Channels!Next

LEMMA ChannelSets == \A S : Channels!Cardinality(S) = Cardinality(S)
  BY DEF Channels!Cardinality, Cardinality

LEMMA ChannelImplies ==
    ASSUME Channels!ChannelConstants, ChannelInv
    PROVE  Channels!OneRestart /\ Channels!ConnectedUsable
<1> DEFINE R == {s \in ChannelSlots : att[s].by = "restart"}
<1>1. ASSUME R = {} PROVE Channels!OneRestart
  BY <1>1, ChannelSets, FS_EmptySet DEF Channels!OneRestart
<1>2. ASSUME R # {} PROVE Channels!OneRestart
  <2>1. PICK s \in R : TRUE
    BY <1>2
  <2>2. R = {s}
    BY <2>1 DEF ChannelInv, RestartInv, Restarts
  <2>3. Cardinality(R) = 1
    <3> HIDE DEF R
    <3>1. QED  BY <2>2, FS_Singleton
  <2>4. QED  BY <2>3, ChannelSets DEF Channels!OneRestart
<1>3. ASSUME channel # 0 PROVE channel \in Channels!Plugins
  BY <1>3 DEF Channels!ChannelConstants, ChannelInv, Channels!TypeOK, Channels!Plugins
<1>4. Channels!ConnectedUsable
  BY <1>3 DEF ChannelInv, RestartInv, Channels!ConnectedUsable
<1>5. QED  BY <1>1, <1>2, <1>4

LEMMA ChannelInvariance == Channels!ChannelConstants => (Channels!Spec => []ChannelInv)
<1> SUFFICES ASSUME Channels!ChannelConstants PROVE Channels!Spec => []ChannelInv
  OBVIOUS
<1>1. QED  BY ChannelInit, ChannelStep, PTL DEF Channels!Spec

\* runHealthCheck: whatever registrations, batches and stops interleave with
\* it, the health monitor never has two restarts of the kind in flight; after
\* stopAll has cleared the flag no tick comes any more.
THEOREM OneRestartHolds == Channels!ChannelConstants => (Channels!Spec => []Channels!OneRestart)
<1> SUFFICES ASSUME Channels!ChannelConstants PROVE Channels!Spec => []Channels!OneRestart
  OBVIOUS
<1>1. QED  BY ChannelInvariance, ChannelImplies, PTL

\* markConnected and runHealthCheck: before stopAll, a registered channel that
\* says it is connected is marked running, so send() and update() accept it.
THEOREM ConnectedUsableHolds ==
    Channels!ChannelConstants => (Channels!Spec => []Channels!ConnectedUsable)
<1> SUFFICES ASSUME Channels!ChannelConstants PROVE Channels!Spec => []Channels!ConnectedUsable
  OBVIOUS
<1>1. QED  BY ChannelInvariance, ChannelImplies, PTL

-----------------------------------------------------------------------------
(* The retry loop and its budget                                           *)
Contexts == [status : {"none", "in_progress"} \cup Retries!Terminal, cost : Nat]

RetryCallsOK == call \in [CallIds -> Retries!Call]
ContextsOK == context \in [Keys -> Contexts]

\* The budget counts the permits, and none is held without a budget.
PermitInv ==
  /\ activeRetries = Cardinality(Retries!Holders)
  /\ HasBudget => activeRetries <= RetryLimit
  /\ ~HasBudget => Retries!Holders = {}
  /\ tokens \in 0..MaxTokens

\* A call is between two attempts of a trace.
Trying(c) == call[c].pc \in {"running", "sleeping"} /\ call[c].failed

\* A trace in progress has a call at work on it and room for one attempt more.
ContextInv ==
  /\ \A c \in CallIds : call[c].pc = "sleeping" => call[c].failed
  /\ \A k \in Keys :
       /\ context[k].status = "none" => context[k].cost = 0
       /\ context[k].status = "in_progress" => /\ Retries!WithinBudget(context[k].cost + 1)
                                               /\ \E c \in CallIds : KeyOf[c] = k /\ Trying(c)
       /\ context[k].cost <= CostBudget \/ context[k].cost <= 1

RetryInv == RetryCallsOK /\ ContextsOK /\ PermitInv /\ ContextInv

\* Cardinality and IsFiniteSet are those of FiniteSets.
LEMMA RetrySets ==
    /\ \A S : Retries!Cardinality(S) = Cardinality(S)
    /\ \A S : Retries!IsFiniteSet(S) <=> IsFiniteSet(S)
  BY DEF Retries!Cardinality, Cardinality, Retries!IsFiniteSet, IsFiniteSet

LEMMA RetryInit == Retries!RetryConstants /\ Retries!Init => RetryInv
<1> SUFFICES ASSUME Retries!RetryConstants, Retries!Init PROVE RetryInv
  OBVIOUS
<1>1. RetryCallsOK /\ ContextsOK
  BY DEF Retries!Init, RetryCallsOK, ContextsOK, Retries!Call, Contexts, Retries!NoContext,
         Retries!Ended
<1>2. Retries!Holders = {} /\ Cardinality({}) = 0
  BY FS_EmptySet DEF Retries!Init, Retries!Holders
<1>3. PermitInv
  BY <1>2 DEF Retries!RetryConstants, Retries!Init, PermitInv
<1>4. ContextInv
  BY DEF Retries!RetryConstants, Retries!Init, ContextInv, Retries!NoContext
<1>5. QED  BY <1>1, <1>3, <1>4 DEF RetryInv

LEMMA HoldersFinite == Retries!RetryConstants => IsFiniteSet(Retries!Holders)
  /\ Cardinality(Retries!Holders) \in Nat
  BY RetrySets, FS_Subset, FS_CardinalityType DEF Retries!RetryConstants, Retries!Holders

\* Giving the permit of c back, if it holds one.
LEMMA Given ==
    ASSUME Retries!RetryConstants, RetryInv, NEW c \in CallIds, ~call'[c].permit,
           \A d \in CallIds : d # c => call'[d].permit = call[d].permit
    PROVE  /\ Retries!Freed(c) = Cardinality(Retries!Holders') /\ Retries!Freed(c) \in Nat
                /\ Retries!Freed(c) <= activeRetries
           /\ Retries!Holders' = Retries!Holders \ {c}
<1>1. Retries!Holders' = Retries!Holders \ {c}
  BY DEF Retries!Holders
<1>2. IsFiniteSet(Retries!Holders) /\ Cardinality(Retries!Holders) \in Nat
  BY HoldersFinite
<1>3. Cardinality(Retries!Holders \ {c}) = IF c \in Retries!Holders
        THEN Cardinality(Retries!Holders) - 1 ELSE Cardinality(Retries!Holders)
  BY <1>2, FS_RemoveElement
<1>4. IsFiniteSet(Retries!Holders \ {c}) /\ Cardinality(Retries!Holders \ {c}) \in Nat
  BY <1>2, FS_Subset, FS_CardinalityType
<1>5. (c \in Retries!Holders <=> call[c].permit) /\ activeRetries = Cardinality(Retries!Holders)
  BY DEF Retries!Holders, RetryInv, PermitInv
<1>6. Retries!Freed(c) = Cardinality(Retries!Holders \ {c}) /\ Retries!Freed(c) <= activeRetries
  BY <1>2, <1>3, <1>5 DEF Retries!Freed
<1>7. QED  BY <1>1, <1>4, <1>6

LEMMA EndPermit ==
    ASSUME Retries!RetryConstants, RetryInv, NEW c \in CallIds, ~call'[c].permit,
           \A d \in CallIds : d # c => call'[d].permit = call[d].permit,
           activeRetries' = Retries!Freed(c), UNCHANGED tokens
    PROVE  PermitInv'
<1>1. Retries!Holders' = Retries!Holders \ {c} /\ activeRetries' = Cardinality(Retries!Holders')
        /\ activeRetries' \in Nat
      /\ activeRetries' <= activeRetries
  BY Given
<1>2. activeRetries \in Nat /\ RetryLimit \in Nat
  BY HoldersFinite DEF Retries!RetryConstants, RetryInv, PermitInv
<1>3. QED  BY <1>1, <1>2 DEF RetryInv, PermitInv

\* A step of one call, and of the context of its key.
LEMMA OneContext ==
    ASSUME Retries!RetryConstants, RetryInv, NEW c \in CallIds,
           \A d \in CallIds : d # c => call'[d] = call[d],
           \A k \in Keys : k # KeyOf[c] => context'[k] = context[k],
           call'[c].pc = "sleeping" => call'[c].failed,
           LET x == context'[KeyOf[c]]
           IN  /\ x.status = "none" => x.cost = 0
               /\ x.status = "in_progress" => Retries!WithinBudget(x.cost + 1)
               /\ x.status = "in_progress" =>
                    \/ call'[c].pc \in {"running", "sleeping"} /\ call'[c].failed
                    \/ context[KeyOf[c]].status = "in_progress" /\ ~Trying(c)
               /\ x.cost <= CostBudget \/ x.cost <= 1
    PROVE  ContextInv'
<1> DEFINE k0 == KeyOf[c]
<1>t. ContextInv /\ k0 \in Keys
  BY DEF Retries!RetryConstants, RetryInv
<1>0. \A d \in CallIds : call'[d].pc = "sleeping" => call'[d].failed
  BY <1>t DEF ContextInv
<1>1. ASSUME NEW k \in Keys, k # k0, context'[k].status = "in_progress"
      PROVE  \E d \in CallIds : KeyOf[d] = k /\ Trying(d)'
  <2>1. PICK d \in CallIds : KeyOf[d] = k /\ Trying(d)
    BY <1>t, <1>1 DEF ContextInv
  <2>2. d # c /\ call'[d] = call[d]
    BY <1>1, <2>1
  <2>3. QED  BY <2>1, <2>2 DEF Trying
<1>2. ASSUME context'[k0].status = "in_progress"
      PROVE  \E d \in CallIds : KeyOf[d] = k0 /\ Trying(d)'
  <2>1. CASE call'[c].pc \in {"running", "sleeping"} /\ call'[c].failed
    BY <2>1 DEF Trying
  <2>2. CASE context[k0].status = "in_progress" /\ ~Trying(c)
    <3>1. PICK d \in CallIds : KeyOf[d] = k0 /\ Trying(d)
      BY <1>t, <2>2 DEF ContextInv
    <3>2. d # c /\ call'[d] = call[d]
      BY <2>2, <3>1
    <3>3. QED  BY <3>1, <3>2 DEF Trying
  <2>3. QED  BY <1>2, <2>1, <2>2
<1>3. ASSUME NEW k \in Keys
      PROVE  /\ context'[k].status = "none" => context'[k].cost = 0
             /\ context'[k].status = "in_progress" => Retries!WithinBudget(context'[k].cost + 1)
             /\ context'[k].cost <= CostBudget \/ context'[k].cost <= 1
  <2>1. CASE k = k0
    BY <2>1
  <2>2. CASE k # k0
    BY <1>t, <2>2 DEF ContextInv
  <2>3. QED  BY <2>1, <2>2
<1>4. QED  BY <1>0, <1>1, <1>2, <1>3 DEF ContextInv

LEMMA RetryStep ==
    ASSUME Retries!RetryConstants, RetryInv, [Retries!Next]_(Retries!vars)
    PROVE  RetryInv' /\ Retries!SettledStays
<1>t. /\ RetryCallsOK /\ ContextsOK /\ PermitInv /\ ContextInv
      /\ call \in [CallIds -> Retries!Call] /\ context \in [Keys -> Contexts]
      /\ \A c \in CallIds : KeyOf[c] \in Keys
      /\ CostBudget \in Nat /\ MaxTokens \in Nat /\ RetryLimit \in Nat
      /\ \A k \in Keys : context[k].cost \in Nat
  BY DEF Retries!RetryConstants, RetryInv, RetryCallsOK, ContextsOK, Contexts
<1>1. ASSUME NEW c \in CallIds, Retries!Start(c) PROVE RetryInv' /\ Retries!SettledStays
  <2>1. /\ call' = [call EXCEPT ![c] = [call[c] EXCEPT !.pc = "running", !.attempt = 1]]
        /\ UNCHANGED <<context, tokens, activeRetries>> /\ call[c].pc = "idle"
    BY <1>1, <1>t DEF Retries!Start
  <2>2. call' \in [CallIds -> Retries!Call] /\ \A d \in CallIds : call'[d].permit = call[d].permit
    BY <1>t, <2>1 DEF Retries!Call
  <2>3. Retries!Holders' = Retries!Holders
    BY <2>2 DEF Retries!Holders
  <2>4. ContextInv'
    BY <1>t, <2>1, OneContext DEF ContextInv, Trying, Retries!Call
  <2>5. QED  BY <1>t, <2>1, <2>2, <2>3, <2>4
             DEF RetryInv, RetryCallsOK, ContextsOK, PermitInv, Retries!SettledStays
<1>2. ASSUME NEW c \in CallIds, Retries!FnSucceeds(c) PROVE RetryInv' /\ Retries!SettledStays
  <2> DEFINE k == KeyOf[c]
             refused == call[c].failed /\ context[k].status # "in_progress"
  <2>1. /\ call[c].pc = "running" /\ activeRetries' = Retries!Freed(c) /\ UNCHANGED tokens
        /\ call' = [call EXCEPT ![c] = [call[c] EXCEPT !.pc = IF refused THEN "invalid" ELSE "returned",
                                                       !.permit = FALSE, !.good = TRUE]]
        /\ context' = IF call[c].failed /\ ~refused
                        THEN [context EXCEPT ![k] = [status |-> "resolved",
                          cost |-> context[k].cost + 1]]
                        ELSE context
    BY <1>2, <1>t DEF Retries!FnSucceeds, Retries!Call, Contexts
  <2>2. /\ call' \in [CallIds -> Retries!Call] /\ ~call'[c].permit /\ call'[c].pc \in Retries!Ended
        /\ \A d \in CallIds : d # c => call'[d] = call[d]
    BY <1>t, <2>1 DEF Retries!Call, Retries!Ended
  <2>3. PermitInv'
    BY <2>1, <2>2, EndPermit
  <2>4. ContextsOK' /\ Retries!SettledStays /\ \A q \in Keys : q # k => context'[q] = context[q]
    BY <1>t, <2>1 DEF ContextsOK, Contexts, Retries!Terminal, Retries!SettledStays
  <2>5. LET x == context'[k]
        IN  /\ x.status = "none" => x.cost = 0
            /\ x.status = "in_progress" => Retries!WithinBudget(x.cost + 1)
            /\ x.status = "in_progress" => context[k].status = "in_progress" /\ ~Trying(c)
            /\ x.cost <= CostBudget \/ x.cost <= 1
    <3>1. CASE call[c].failed /\ ~refused
      <4>1. context[k].status = "in_progress"
        BY <3>1
      <4>2. context[k].cost + 1 <= CostBudget
        BY <1>t, <4>1 DEF ContextInv, Retries!WithinBudget
      <4>3. QED  BY <1>t, <2>1, <3>1, <4>2
    <3>2. CASE ~(call[c].failed /\ ~refused)
      <4>1. context' = context
        BY <2>1, <3>2
      <4>2. context[k].status = "in_progress" => ~Trying(c)
        BY <3>2 DEF Trying
      <4>3. QED  BY <1>t, <4>1, <4>2 DEF ContextInv
    <3>3. QED  BY <3>1, <3>2
  <2>6. ContextInv'
    BY <2>2, <2>4, <2>5, OneContext DEF Retries!Ended
  <2>7. QED  BY <2>2, <2>3, <2>4, <2>6 DEF RetryInv, RetryCallsOK
<1>3. ASSUME NEW c \in CallIds, NEW category \in {"retryable", "fatal"}, Retries!FnFails(c, category)
      PROVE  RetryInv' /\ Retries!SettledStays
  <2> DEFINE k == KeyOf[c]
             ctx == IF context[k] = Retries!NoContext THEN Retries!Fresh ELSE context[k]
             decision == Retries!Decision(category, call[c].attempt, ctx.cost)
             cost == ctx.cost + 1
  <2>c. /\ ctx \in Contexts /\ ctx.status # "none" /\ cost \in Nat
        /\ cost <= CostBudget \/ cost <= 1 \/ ctx.status \in Retries!Terminal
        /\ ctx.status \in Retries!Terminal <=> context[k].status \in Retries!Terminal
        /\ ctx.status \in Retries!Terminal => ctx = context[k]
    <3>1. CASE context[k] = Retries!NoContext
      BY <3>1 DEF Retries!NoContext, Retries!Fresh, Contexts, Retries!Terminal
    <3>2. CASE context[k] # Retries!NoContext
      <4>1. ctx = context[k] /\ context[k] \in Contexts
        BY <1>t, <3>2
      <4>2. context[k].status # "none"
        BY <1>t, <3>2, <4>1 DEF ContextInv, Retries!NoContext, Contexts
      <4>3. context[k].status \in {"in_progress"} \cup Retries!Terminal
        BY <4>1, <4>2 DEF Contexts
      <4>4. context[k].status = "in_progress" => cost <= CostBudget
        BY <1>t, <4>1 DEF ContextInv, Retries!WithinBudget
      <4>5. QED  BY <1>t, <4>1, <4>2, <4>3, <4>4
    <3>3. QED  BY <3>1, <3>2
  <2>d. decision \in {"retry", "escalated", "exhausted"}
    BY DEF Retries!Decision
  <2> HIDE DEF ctx, decision
  <2>1. CASE ctx.status \in Retries!Terminal
    <3>1. /\ call' = [call EXCEPT ![c] = [call[c] EXCEPT !.pc = "invalid", !.permit = FALSE]]
          /\ activeRetries' = Retries!Freed(c) /\ UNCHANGED <<context, tokens>>
      BY <1>3, <1>t, <2>1 DEF Retries!FnFails, Retries!End, ctx
    <3>2. /\ call' \in [CallIds -> Retries!Call] /\ ~call'[c].permit /\ call'[c].pc = "invalid"
          /\ \A d \in CallIds : d # c => call'[d] = call[d]
      BY <1>t, <3>1 DEF Retries!Call, Retries!Ended
    <3>3. PermitInv'
      BY <3>1, <3>2, EndPermit
    <3>4. context[k].status \in Retries!Terminal
      BY <2>1, <2>c
    <3>5. ContextInv'
      BY <1>t, <3>1, <3>2, <3>4, OneContext DEF ContextInv, Retries!Terminal
    <3>6. QED  BY <1>t, <3>1, <3>2, <3>3, <3>5 DEF RetryInv, RetryCallsOK, ContextsOK,
                                                   Retries!SettledStays
  <2>2. CASE ctx.status \notin Retries!Terminal /\ decision = "retry" /\ Retries!WithinBudget(cost + 1)
    <3>1. /\ call' = [call EXCEPT ![c] = [call[c] EXCEPT !.pc = "sleeping", !.failed = TRUE]]
          /\ context' = [context EXCEPT ![k] = [ctx EXCEPT !.cost = cost]]
          /\ UNCHANGED <<activeRetries, tokens>>
      BY <1>3, <1>t, <2>2 DEF Retries!FnFails, ctx, decision
    <3>2. /\ call' \in [CallIds -> Retries!Call] /\ call'[c].permit = call[c].permit
          /\ call'[c].pc = "sleeping" /\ call'[c].failed
          /\ \A d \in CallIds : d # c => call'[d] = call[d]
      BY <1>t, <3>1 DEF Retries!Call
    <3>3. Retries!Holders' = Retries!Holders
      BY <3>2 DEF Retries!Holders
    <3>4. /\ context' \in [Keys -> Contexts] /\ context'[k].status = ctx.status
          /\ context'[k].cost = cost /\ \A q \in Keys : q # k => context'[q] = context[q]
      BY <1>t, <2>c, <3>1 DEF Contexts
    <3>5. ContextInv'
      BY <2>2, <2>c, <3>2, <3>4, OneContext
    <3>6. Retries!SettledStays
      BY <2>2, <2>c, <3>4 DEF Retries!SettledStays
    <3>7. QED  BY <1>t, <3>1, <3>2, <3>3, <3>4, <3>5, <3>6 DEF RetryInv, RetryCallsOK, ContextsOK,
                                                               PermitInv
  <2>3. CASE ctx.status \notin Retries!Terminal /\ ~(decision = "retry"
               /\ Retries!WithinBudget(cost + 1))
    <3> DEFINE status == IF decision = "retry" THEN "exhausted" ELSE decision
    <3>1. /\ call' = [call EXCEPT ![c] = [call[c] EXCEPT !.pc = "gaveUp", !.permit = FALSE]]
          /\ activeRetries' = Retries!Freed(c) /\ UNCHANGED tokens
          /\ context' = [context EXCEPT ![k] = [status |-> status, cost |-> cost]]
      BY <1>3, <1>t, <2>3 DEF Retries!FnFails, Retries!End, ctx, decision
    <3>2. /\ call' \in [CallIds -> Retries!Call] /\ ~call'[c].permit /\ call'[c].pc = "gaveUp"
          /\ \A d \in CallIds : d # c => call'[d] = call[d]
      BY <1>t, <3>1 DEF Retries!Call, Retries!Ended
    <3>3. PermitInv'
      BY <3>1, <3>2, EndPermit
    <3>4. /\ context' \in [Keys -> Contexts] /\ context'[k].status \in Retries!Terminal
          /\ context'[k].cost = cost /\ \A q \in Keys : q # k => context'[q] = context[q]
      BY <1>t, <2>c, <2>d, <3>1 DEF Contexts, Retries!Terminal
    <3>5. ContextInv'
      BY <2>3, <2>c, <3>2, <3>4, OneContext DEF Retries!Terminal
    <3>6. Retries!SettledStays
      BY <2>3, <2>c, <3>4 DEF Retries!SettledStays
    <3>7. QED  BY <3>2, <3>3, <3>4, <3>5, <3>6 DEF RetryInv, RetryCallsOK, ContextsOK
  <2>4. QED  BY <2>1, <2>2, <2>3
<1>4. ASSUME NEW c \in CallIds, Retries!SafetyLimit(c) \/ Retries!Denied(c)
      PROVE  RetryInv' /\ Retries!SettledStays
  <2> DEFINE k == KeyOf[c]
  <2>0. call[c].pc = "sleeping" /\ context[k] \in Contexts
    BY <1>4, <1>t DEF Retries!SafetyLimit, Retries!Denied
  <2>1. \E how \in Retries!Ended :
          call' = [call EXCEPT ![c] = [call[c] EXCEPT !.pc = how, !.permit = FALSE]]
    BY <1>4, <1>t DEF Retries!SafetyLimit, Retries!Denied, Retries!GiveUp, Retries!End,
                      Retries!Ended
  <2>2. /\ activeRetries' = Retries!Freed(c) /\ UNCHANGED tokens
        /\ context' = [context EXCEPT ![k] = [context[k] EXCEPT
             !.status = IF context[k].status = "in_progress" THEN "exhausted" ELSE context[k].status]]
    <3>1. CASE Retries!SafetyLimit(c)
      BY <3>1, <1>t DEF Retries!SafetyLimit, Retries!End
    <3>2. CASE Retries!Denied(c) /\ context[k].status = "in_progress"
      BY <3>2, <1>t DEF Retries!Denied, Retries!GiveUp, Retries!End
    <3>3. CASE Retries!Denied(c) /\ context[k].status # "in_progress"
      <4>1. activeRetries' = Retries!Freed(c) /\ UNCHANGED <<tokens, context>>
        BY <3>3 DEF Retries!Denied, Retries!GiveUp, Retries!End
      <4>2. [context[k] EXCEPT !.status = context[k].status] = context[k]
        BY <2>0 DEF Contexts
      <4>3. context = [context EXCEPT ![k] = context[k]]
        BY <1>t
      <4>4. QED  BY <3>3, <4>1, <4>2, <4>3
    <3>4. QED  BY <1>4, <3>1, <3>2, <3>3
  <2>3. /\ call' \in [CallIds -> Retries!Call] /\ ~call'[c].permit /\ call'[c].pc \in Retries!Ended
        /\ \A d \in CallIds : d # c => call'[d] = call[d]
    BY <1>t, <2>1 DEF Retries!Call
  <2>4. PermitInv'
    BY <2>2, <2>3, EndPermit
  <2>5. /\ context' \in [Keys -> Contexts] /\ \A q \in Keys : q # k => context'[q] = context[q]
        /\ context'[k].status = IF context[k].status = "in_progress" THEN "exhausted"
             ELSE context[k].status
        /\ context'[k].cost = context[k].cost
    BY <1>t, <2>0, <2>2 DEF Contexts, Retries!Terminal
  <2>6. ContextInv'
    BY <1>t, <2>3, <2>5, OneContext DEF ContextInv, Retries!Ended
  <2>7. Retries!SettledStays
    <3>1. context[k].status \in Retries!Terminal => context'[k] = context[k]
      BY <1>t, <2>0, <2>2 DEF Contexts, Retries!Terminal
    <3>2. QED  BY <2>5, <3>1 DEF Retries!SettledStays
  <2>8. QED  BY <2>3, <2>4, <2>5, <2>6, <2>7 DEF RetryInv, RetryCallsOK, ContextsOK
<1>5. ASSUME NEW c \in CallIds, Retries!Retry(c) PROVE RetryInv' /\ Retries!SettledStays
  <2>1. /\ call' = [call EXCEPT ![c] = [call[c] EXCEPT !.pc = "running", !.attempt = @ + 1,
             !.permit = HasBudget]]
        /\ UNCHANGED context /\ call[c].pc = "sleeping"
        /\ HasBudget => tokens >= 1 /\ Retries!Freed(c) < RetryLimit
        /\ tokens' = IF HasBudget THEN tokens - 1 ELSE tokens
        /\ activeRetries' = IF HasBudget THEN Retries!Freed(c) + 1 ELSE activeRetries
    BY <1>5, <1>t DEF Retries!Retry, Retries!Call
  <2>h. HasBudget \in BOOLEAN
    BY DEF Retries!RetryConstants
  <2> DEFINE n == call[c].attempt + 1
             trying == [call[c] EXCEPT !.pc = "running", !.attempt = n, !.permit = HasBudget]
  <2>n. n \in Nat
    BY <1>t DEF Retries!Call
  <2>r. trying \in Retries!Call /\ trying.permit = HasBudget /\ trying.pc = "running"
          /\ trying.failed = call[c].failed
    <3> HIDE DEF n
    <3>1. QED  BY <1>t, <2>h, <2>n DEF Retries!Call
  <2>s. call' = [call EXCEPT ![c] = trying]
    BY <2>1
  <2>2. /\ call' \in [CallIds -> Retries!Call] /\ call'[c].permit = HasBudget /\ call'[c].pc = "running"
        /\ call'[c].failed = call[c].failed /\ \A d \in CallIds : d # c => call'[d] = call[d]
    <3> HIDE DEF trying
    <3>1. QED  BY <1>t, <2>r, <2>s
  <2>3. call[c].failed
    BY <1>t, <2>1 DEF ContextInv
  <2>4. ContextInv'
    BY <1>t, <2>1, <2>2, <2>3, OneContext DEF ContextInv
  <2>5. IsFiniteSet(Retries!Holders) /\ Cardinality(Retries!Holders) \in Nat
    BY HoldersFinite
  <2>6. CASE HasBudget
    <3>1. Retries!Holders' = Retries!Holders \cup {c} /\ (c \in Retries!Holders <=> call[c].permit)
      BY <2>2, <2>6 DEF Retries!Holders
    <3>2. Cardinality(Retries!Holders') = IF c \in Retries!Holders THEN Cardinality(Retries!Holders)
            ELSE Cardinality(Retries!Holders) + 1
      BY <2>5, <3>1, FS_AddElement
    <3>3. QED  BY <1>t, <2>1, <2>2, <2>4, <2>5, <2>6, <3>1, <3>2
               DEF RetryInv, RetryCallsOK, ContextsOK, PermitInv, Retries!Freed,
                   Retries!SettledStays
  <2>7. CASE ~HasBudget
    <3>1. Retries!Holders' = Retries!Holders
      BY <1>t, <2>2, <2>7 DEF Retries!Holders, PermitInv
    <3>2. QED  BY <1>t, <2>1, <2>2, <2>4, <2>7, <3>1
               DEF RetryInv, RetryCallsOK, ContextsOK, PermitInv, Retries!SettledStays
  <2>8. QED  BY <2>6, <2>7
<1>6. CASE Retries!Refill
  <2>1. UNCHANGED <<call, context, activeRetries>> /\ tokens' \in 0..MaxTokens
    BY <1>6, <1>t DEF Retries!Refill, PermitInv
  <2>2. QED  BY <1>t, <2>1 DEF RetryInv, RetryCallsOK, ContextsOK, PermitInv, Retries!Holders,
                               ContextInv, Trying, Retries!SettledStays
<1>7. CASE UNCHANGED Retries!vars
  BY <1>7, <1>t DEF Retries!vars, RetryInv, RetryCallsOK, ContextsOK, PermitInv, Retries!Holders,
                    ContextInv, Trying, Retries!SettledStays
<1>8. QED  BY <1>1, <1>2, <1>3, <1>4, <1>5, <1>6, <1>7 DEF Retries!Next, Retries!FnSettles,
                                                           Retries!WakeUp

LEMMA RetryImplies ==
    ASSUME Retries!RetryConstants, RetryInv
    PROVE  Retries!TypeOK /\ Retries!PermitsBalanced /\ Retries!NoOpenContext /\ Retries!CostBounded
<1>1. Retries!TypeOK
  BY HoldersFinite DEF RetryInv, RetryCallsOK, ContextsOK, Contexts, PermitInv, Retries!TypeOK
<1>2. Retries!PermitsBalanced
  BY RetrySets DEF RetryInv, PermitInv, Retries!PermitsBalanced
<1>3. Retries!NoOpenContext
  BY DEF RetryInv, ContextInv, Retries!NoOpenContext, Trying, Retries!Ended
<1>4. Retries!CostBounded
  BY DEF RetryInv, ContextInv, Retries!CostBounded
<1>5. QED  BY <1>1, <1>2, <1>3, <1>4

LEMMA RetryInvariance == Retries!RetryConstants => (Retries!Spec => []RetryInv)
<1> SUFFICES ASSUME Retries!RetryConstants PROVE Retries!Spec => []RetryInv
  OBVIOUS
<1>1. QED  BY RetryInit, RetryStep, PTL DEF Retries!Spec

\* retryWithPolicy and the retry budget: the permits counted are those calls
\* hold, within the cap, on each way out of the loop.
THEOREM PermitsBalancedHolds ==
    Retries!RetryConstants => (Retries!Spec => []Retries!PermitsBalanced)
<1> SUFFICES ASSUME Retries!RetryConstants PROVE Retries!Spec => []Retries!PermitsBalanced
  OBVIOUS
<1>1. QED  BY RetryInvariance, RetryImplies, PTL

\* recordAttempt and markExhausted: when no call is under way, no trace is left
\* in progress, however many calls share its key.
THEOREM NoOpenContextHolds ==
    Retries!RetryConstants => (Retries!Spec => []Retries!NoOpenContext)
<1> SUFFICES ASSUME Retries!RetryConstants PROVE Retries!Spec => []Retries!NoOpenContext
  OBVIOUS
<1>1. QED  BY RetryInvariance, RetryImplies, PTL

\* buildRetryDecision: the attempts recorded for a key stay within the cost
\* budget, but for a first attempt, which is made without asking.
THEOREM CostBoundedHolds ==
    Retries!RetryConstants => (Retries!Spec => []Retries!CostBounded)
<1> SUFFICES ASSUME Retries!RetryConstants PROVE Retries!Spec => []Retries!CostBounded
  OBVIOUS
<1>1. QED  BY RetryInvariance, RetryImplies, PTL

\* The tracker: a trace that is resolved, exhausted or escalated stays as it is.
THEOREM SettledStaysHolds ==
    Retries!RetryConstants => (Retries!Spec => [][Retries!SettledStays]_(Retries!vars))
<1> SUFFICES ASSUME Retries!RetryConstants
             PROVE  Retries!Spec => [][Retries!SettledStays]_(Retries!vars)
  OBVIOUS
<1>1. QED  BY RetryInvariance, RetryStep, PTL DEF Retries!Spec

-----------------------------------------------------------------------------
(* The circuit breaker                                                     *)
Circuits == [state : {"closed", "open", "half_open"},
            consecutiveFailures : 0..FailureThreshold,
            halfOpenSuccesses : 0..(HalfOpenSuccessThreshold - 1),
            halfOpenProbeInFlight : BOOLEAN,
            totalTrips : 0..MaxTrips]

\* A closed circuit is below its threshold, and has not counted a failure that
\* came before the last success.
ClosedCount ==
  circuit.state = "closed" => /\ circuit.consecutiveFailures < FailureThreshold
                              /\ circuit.consecutiveFailures <= failures

BreakerInv == Breaker!TypeOK /\ ClosedCount /\ Breaker!ProbeAlive

LEMMA BreakerInit == Breaker!BreakerConstants /\ Breaker!Init => BreakerInv
<1> SUFFICES ASSUME Breaker!BreakerConstants, Breaker!Init PROVE BreakerInv
  OBVIOUS
<1>1. Breaker!NewEntry \in Circuits
  BY DEF Breaker!BreakerConstants, Breaker!NewEntry, Circuits
<1>2. Breaker!TypeOK
  BY <1>1 DEF Breaker!Init, Breaker!TypeOK, Circuits, Breaker!Roles
<1>3. ClosedCount /\ Breaker!ProbeAlive
  BY DEF Breaker!BreakerConstants, Breaker!Init, ClosedCount, Breaker!ProbeAlive, Breaker!NewEntry
<1>4. QED  BY <1>2, <1>3 DEF BreakerInv

\* A refreshed entry is the stored one, or half open with nothing in flight.
LEMMA RefreshedEntry ==
    ASSUME Breaker!BreakerConstants, BreakerInv
    PROVE  /\ Breaker!Refreshed \in Circuits
           /\ \/ Breaker!Refreshed = circuit
              \/ /\ circuit.state = "open" /\ Breaker!Refreshed.state = "half_open"
                 /\ ~Breaker!Refreshed.halfOpenProbeInFlight
<1>1. circuit \in Circuits /\ 0 \in 0..(HalfOpenSuccessThreshold - 1)
  BY DEF Breaker!BreakerConstants, BreakerInv, Breaker!TypeOK, Circuits
<1>2. CASE circuit.state = "open" /\ elapsed
  <2>1. Breaker!Refreshed = [circuit EXCEPT !.state = "half_open", !.halfOpenSuccesses = 0,
                                  !.halfOpenProbeInFlight = FALSE]
    BY <1>2 DEF Breaker!Refreshed
  <2>2. QED  BY <1>1, <1>2, <2>1 DEF Circuits
<1>3. CASE ~(circuit.state = "open" /\ elapsed)
  BY <1>1, <1>3 DEF Breaker!Refreshed
<1>4. QED  BY <1>2, <1>3

LEMMA BreakerStep ==
    ASSUME Breaker!BreakerConstants, BreakerInv, [Breaker!Next]_(Breaker!vars)
    PROVE  BreakerInv' /\ Breaker!TripsEarned
<1> DEFINE e == Breaker!Refreshed
<1>t. Breaker!TypeOK /\ ClosedCount /\ Breaker!ProbeAlive /\ circuit \in Circuits
        /\ request \in [Requests -> Breaker!Roles]
  BY DEF BreakerInv, Breaker!TypeOK, Circuits
<1>c. FailureThreshold \in Nat \ {0} /\ HalfOpenSuccessThreshold \in Nat \ {0} /\ MaxTrips \in Nat
  BY DEF Breaker!BreakerConstants
<1>z. 0 \in 0..(HalfOpenSuccessThreshold - 1) /\ 0 \in 0..FailureThreshold
  BY <1>c
<1>e. /\ e \in Circuits
      /\ e = circuit \/ (circuit.state = "open" /\ e.state = "half_open" /\ ~e.halfOpenProbeInFlight)
  BY RefreshedEntry
<1>k. e.state = "closed" => e = circuit
  BY <1>e DEF Circuits
<1> HIDE DEF e
<1> SUFFICES /\ circuit' \in Circuits /\ elapsed' \in BOOLEAN
      /\ request' \in [Requests -> Breaker!Roles]
             /\ failures' \in Nat /\ ClosedCount' /\ Breaker!ProbeAlive' /\ Breaker!TripsEarned
  BY DEF BreakerInv, Breaker!TypeOK, Circuits
<1> USE DEF ClosedCount, Breaker!ProbeAlive, Breaker!TripsEarned
<1>1. ASSUME NEW r \in Requests, Breaker!IsAllowed(r)
      PROVE  /\ circuit' \in Circuits /\ elapsed' \in BOOLEAN
                  /\ request' \in [Requests -> Breaker!Roles]
             /\ failures' \in Nat /\ ClosedCount' /\ Breaker!ProbeAlive' /\ Breaker!TripsEarned
  <2> DEFINE admitted == e.state # "open" /\ ~(e.state = "half_open" /\ e.halfOpenProbeInFlight)
  <2>1. /\ request[r] = "none" /\ UNCHANGED <<elapsed, failures>>
        /\ circuit' = IF e.state = "half_open" THEN [e EXCEPT !.halfOpenProbeInFlight = TRUE] ELSE e
        /\ request' = [request EXCEPT ![r] =
             IF ~admitted THEN "none" ELSE IF e.state = "half_open" THEN "probe" ELSE "normal"]
    BY <1>1 DEF Breaker!IsAllowed, e
  <2>2. /\ circuit' \in Circuits /\ circuit'.state = e.state
        /\ circuit'.consecutiveFailures = e.consecutiveFailures
    BY <1>e, <2>1 DEF Circuits
  <2>3. request' \in [Requests -> Breaker!Roles]
    BY <1>t, <2>1 DEF Breaker!Roles
  <2>4. elapsed' \in BOOLEAN /\ failures' \in Nat
    BY <1>t, <2>1 DEF Breaker!TypeOK
  <2>5. ClosedCount' /\ Breaker!TripsEarned
    BY <1>t, <1>e, <1>k, <2>1, <2>2
  <2>6. Breaker!ProbeAlive'
    <3>1. CASE admitted /\ e.state = "half_open"
      BY <1>t, <2>1, <3>1
    <3>2. CASE e.state = "half_open" /\ ~admitted
      <4>1. e = circuit /\ request' = request
        BY <1>t, <1>e, <2>1, <3>2
      <4>2. QED  BY <1>t, <3>2, <4>1
    <3>3. QED  BY <2>2, <3>1, <3>2
  <2>7. QED  BY <2>2, <2>3, <2>4, <2>5, <2>6
<1>2. ASSUME NEW r \in Requests, Breaker!RecordSuccess(r)
      PROVE  /\ circuit' \in Circuits /\ elapsed' \in BOOLEAN
                  /\ request' \in [Requests -> Breaker!Roles]
             /\ failures' \in Nat /\ ClosedCount' /\ Breaker!ProbeAlive' /\ Breaker!TripsEarned
  <2> DEFINE closes == e.halfOpenSuccesses + 1 >= HalfOpenSuccessThreshold
  <2>1. /\ request' = [request EXCEPT ![r] = "none"] /\ failures' = 0 /\ UNCHANGED elapsed
        /\ e.state = "closed" => circuit' = [e EXCEPT !.consecutiveFailures = 0]
        /\ e.state = "half_open" /\ closes =>
             circuit' = [e EXCEPT !.state = "closed", !.consecutiveFailures = 0,
                                !.halfOpenSuccesses = 0, !.halfOpenProbeInFlight = FALSE]
        /\ e.state = "half_open" /\ ~closes =>
             circuit' = [e EXCEPT !.halfOpenProbeInFlight = FALSE, !.halfOpenSuccesses = @ + 1]
        /\ e.state = "open" => circuit' = e
    BY <1>2 DEF Breaker!RecordSuccess, e
  <2>2. request' \in [Requests -> Breaker!Roles] /\ elapsed' \in BOOLEAN /\ failures' \in Nat
    BY <1>t, <2>1 DEF Breaker!Roles, Breaker!TypeOK
  <2>3. CASE e.state = "closed"
    <3>1. circuit' \in Circuits /\ circuit'.state = "closed" /\ circuit'.consecutiveFailures = 0
      BY <1>c, <1>e, <2>1, <2>3 DEF Circuits
    <3>2. QED  BY <1>c, <1>e, <1>k, <2>1, <2>2, <2>3, <3>1
  <2>4. CASE e.state = "half_open" /\ closes
    <3>1. circuit' \in Circuits /\ circuit'.state = "closed" /\ circuit'.consecutiveFailures = 0
      BY <1>z, <1>e, <2>1, <2>4 DEF Circuits
    <3>2. ClosedCount' /\ Breaker!ProbeAlive' /\ Breaker!TripsEarned
      BY <1>c, <2>1, <3>1
    <3>3. QED  BY <2>2, <3>1, <3>2
  <2>5. CASE e.state = "half_open" /\ ~closes
    <3>1. e.halfOpenSuccesses + 1 \in 0..(HalfOpenSuccessThreshold - 1)
      BY <1>c, <1>e, <2>5 DEF Circuits
    <3>2. QED  BY <1>e, <2>1, <2>2, <2>5, <3>1 DEF Circuits
  <2>6. CASE e.state = "open"
    BY <1>e, <2>1, <2>2, <2>6 DEF Circuits
  <2>7. QED  BY <1>e, <2>3, <2>4, <2>5, <2>6 DEF Circuits
<1>3. ASSUME NEW r \in Requests, Breaker!RecordFailure(r)
      PROVE  /\ circuit' \in Circuits /\ elapsed' \in BOOLEAN
                  /\ request' \in [Requests -> Breaker!Roles]
             /\ failures' \in Nat /\ ClosedCount' /\ Breaker!ProbeAlive' /\ Breaker!TripsEarned
  <2> DEFINE f == e.consecutiveFailures + 1
             opens == e.state = "half_open" \/ (e.state = "closed" /\ f >= FailureThreshold)
  <2>1. /\ request' = [request EXCEPT ![r] = "none"] /\ failures' = failures + 1
        /\ elapsed' = (elapsed /\ ~opens) /\ (opens => e.totalTrips < MaxTrips)
        /\ e.state = "closed" /\ opens
             => circuit' = Breaker!Tripped([e EXCEPT !.consecutiveFailures = f])
        /\ e.state = "closed" /\ ~opens => circuit' = [e EXCEPT !.consecutiveFailures = f]
        /\ e.state = "half_open" =>
             circuit' = Breaker!Tripped([e EXCEPT !.halfOpenSuccesses = 0,
               !.halfOpenProbeInFlight = FALSE])
        /\ e.state = "open" => circuit' = e
    BY <1>3 DEF Breaker!RecordFailure, e
  <2>2. request' \in [Requests -> Breaker!Roles] /\ elapsed' \in BOOLEAN /\ failures' \in Nat
          /\ failures \in Nat
    BY <1>t, <2>1 DEF Breaker!Roles, Breaker!TypeOK
  <2>3. CASE e.state = "closed"
    <3>1. f \in 0..FailureThreshold /\ f <= failures' /\ e = circuit
      BY <1>t, <1>c, <1>e, <1>k, <2>1, <2>2, <2>3 DEF Circuits
    <3>2. CASE opens
      <4>1. e.totalTrips + 1 \in 0..MaxTrips
        BY <1>c, <1>e, <2>1, <3>2 DEF Circuits
      <4>2. circuit' = [e EXCEPT !.consecutiveFailures = f, !.state = "open", !.totalTrips = @ + 1]
        BY <2>1, <2>3, <3>2, <1>e DEF Breaker!Tripped, Circuits
      <4>3. circuit' \in Circuits /\ circuit'.state = "open"
        BY <1>e, <3>1, <4>1, <4>2 DEF Circuits
      <4>4. f >= FailureThreshold
        BY <2>3, <3>2
      <4>5. Breaker!TripsEarned
        BY <1>c, <2>2, <3>1, <4>4
      <4>6. QED  BY <2>2, <4>3, <4>5
    <3>3. CASE ~opens
      <4>1. circuit' \in Circuits /\ circuit'.state = "closed" /\ circuit'.consecutiveFailures = f
        BY <1>e, <2>1, <2>3, <3>1, <3>3 DEF Circuits
      <4>2. QED  BY <1>c, <2>2, <2>3, <3>1, <3>3, <4>1
    <3>4. QED  BY <3>2, <3>3
  <2>4. CASE e.state = "half_open"
    <3>1. e.totalTrips + 1 \in 0..MaxTrips /\ 0 \in 0..(HalfOpenSuccessThreshold - 1)
      BY <1>c, <1>e, <2>1, <2>4 DEF Circuits
    <3>2. circuit' = [e EXCEPT !.halfOpenSuccesses = 0, !.halfOpenProbeInFlight = FALSE,
                             !.state = "open", !.totalTrips = @ + 1]
      BY <2>1, <2>4, <1>e DEF Breaker!Tripped, Circuits
    <3>3. circuit' \in Circuits /\ circuit'.state = "open" /\ circuit.state # "closed"
      BY <1>e, <2>4, <3>1, <3>2 DEF Circuits
    <3>4. QED  BY <2>2, <3>3
  <2>5. CASE e.state = "open"
    <3>1. circuit' = e /\ e = circuit
      BY <1>e, <2>1, <2>5
    <3>2. circuit'.state = "open" /\ circuit' \in Circuits /\ circuit.state = "open"
      BY <1>e, <2>5, <3>1
    <3>3. QED  BY <2>2, <3>2
  <2>6. QED  BY <1>e, <2>3, <2>4, <2>5 DEF Circuits
<1>4. CASE Breaker!GetSnapshot
  <2>1. circuit' = e /\ UNCHANGED <<elapsed, request, failures>>
    BY <1>4 DEF Breaker!GetSnapshot, e
  <2>2. circuit' = circuit \/ (circuit'.state = "half_open" /\ ~circuit'.halfOpenProbeInFlight)
    BY <1>e, <2>1
  <2>3. QED  BY <1>t, <1>e, <2>1, <2>2 DEF Breaker!TypeOK
<1>5. CASE Breaker!Reset
  <2>1. Breaker!NewEntry \in Circuits /\ Breaker!NewEntry.state = "closed"
          /\ Breaker!NewEntry.consecutiveFailures = 0
    BY <1>c DEF Breaker!NewEntry, Circuits
  <2>2. circuit' = Breaker!NewEntry /\ elapsed' = FALSE /\ failures' = 0 /\ request' = request
    BY <1>5 DEF Breaker!Reset
  <2>3. ClosedCount' /\ Breaker!ProbeAlive' /\ Breaker!TripsEarned
    BY <1>c, <2>1, <2>2
  <2>4. QED  BY <1>t, <2>1, <2>2, <2>3
<1>6. CASE Breaker!TimeoutElapses
  BY <1>6, <1>t DEF Breaker!TimeoutElapses, Breaker!TypeOK
<1>7. CASE UNCHANGED Breaker!vars
  BY <1>7, <1>t DEF Breaker!vars, Breaker!TypeOK
<1>8. QED  BY <1>1, <1>2, <1>3, <1>4, <1>5, <1>6, <1>7 DEF Breaker!Next, Breaker!Report

LEMMA BreakerInvariance == Breaker!BreakerConstants => (Breaker!Spec => []BreakerInv)
<1> SUFFICES ASSUME Breaker!BreakerConstants PROVE Breaker!Spec => []BreakerInv
  OBVIOUS
<1>1. QED  BY BreakerInit, BreakerStep, PTL DEF Breaker!Spec

\* isAllowed, recordSuccess and recordFailure: a half-open circuit that turns
\* requests away has a probe under way, however late outcomes arrive and
\* whenever the circuit is read or reset.
THEOREM ProbeAliveHolds ==
    Breaker!BreakerConstants => (Breaker!Spec => []Breaker!ProbeAlive)
<1> SUFFICES ASSUME Breaker!BreakerConstants PROVE Breaker!Spec => []Breaker!ProbeAlive
  OBVIOUS
<1>1. QED  BY BreakerInvariance, PTL DEF BreakerInv

\* recordFailure: a closed circuit opens only after as many failures as the
\* threshold with no success between them.
THEOREM TripsEarnedHolds ==
    Breaker!BreakerConstants => (Breaker!Spec => [][Breaker!TripsEarned]_(Breaker!vars))
<1> SUFFICES ASSUME Breaker!BreakerConstants
             PROVE  Breaker!Spec => [][Breaker!TripsEarned]_(Breaker!vars)
  OBVIOUS
<1>1. QED  BY BreakerInvariance, BreakerStep, PTL DEF Breaker!Spec
=============================================================================

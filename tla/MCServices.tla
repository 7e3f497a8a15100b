---------------------------- MODULE MCServices ----------------------------
(***************************************************************************)
(* Model checking five services of the hub that share no state: the        *)
(* sub-agent registry, the Telegram inbox, the channel registry, the retry *)
(* loop and the circuit breaker. A behaviour is one of a single service,   *)
(* the others rest in their initial state.                                 *)
(***************************************************************************)
EXTENDS Integers, FiniteSets

VARIABLES
    service,
    hub, boots, pc, par, detached, record, cleanup, inFlight, draining, wt,
    sent, acked, inbox, cursor, on, gen, loop, hook, calls, work, done, starts, crashes, faults,
    channel, made, running, conn, att, restarting, failedStart, monitor, unregs, stop,
    call, context, tokens, activeRetries,
    circuit, elapsed, request, failures

spawns == <<hub, boots, pc, par, detached, record, cleanup, inFlight, draining, wt>>
telegram == <<sent, acked, inbox, cursor, on, gen, loop, hook, calls, work, done, starts,
              crashes, faults>>
channels == <<channel, made, running, conn, att, restarting, failedStart, monitor, unregs, stop>>
retries == <<call, context, tokens, activeRetries>>
breaker == <<circuit, elapsed, request, failures>>

\* Fresh spawns by the top-level run and by children, under a limit of one
Fresh == INSTANCE SubagentRegistry WITH
    row <- record, Calls <- {"c1", "c2"}, Root <- "root", Waited <- {}, Archived <- {},
    Modes <- {"fresh"}, MaxConcurrent <- 1, MaxDepth <- 2, MaxBoots <- 1, PrepThrows <- FALSE
\* Both modes, preparation that throws, archival, a waiting caller, a restart
Thrown == INSTANCE SubagentRegistry WITH
    row <- record, Calls <- {"c1", "c2"}, Root <- "root", Waited <- {"c1"},
    Archived <- {"c1"}, Modes <- {"fresh", "fork"}, MaxConcurrent <- 2, MaxDepth <- 2,
    MaxBoots <- 1, PrepThrows <- TRUE
\* Both modes, archival and a restart, with fair scheduling
Spawned == INSTANCE SubagentRegistry WITH
    row <- record, Calls <- {"c1", "c2"}, Root <- "root", Waited <- {}, Archived <- {"c1"},
    Modes <- {"fresh", "fork"}, MaxConcurrent <- 1, MaxDepth <- 2, MaxBoots <- 1,
    PrepThrows <- FALSE

\* Polling with handlers that are awaited and may fail, failing fetches and
\* commits, stops, overlapping loops and a crash
Poll == INSTANCE TelegramInbox WITH
    row <- inbox, N <- 2, Loops <- {1, 2}, Mode <- "polling", Awaited <- TRUE,
    HandlerThrows <- TRUE, MaxStarts <- 2, MaxCrashes <- 1, MaxFaults <- 1
\* The webhook of the hub, whose handler is not awaited
Hook == INSTANCE TelegramInbox WITH
    row <- inbox, N <- 2, Loops <- {1, 2}, Mode <- "webhook", Awaited <- FALSE,
    HandlerThrows <- TRUE, MaxStarts <- 2, MaxCrashes <- 1, MaxFaults <- 1
\* Polling of the hub, whose handler is not awaited
Kept == INSTANCE TelegramInbox WITH
    row <- inbox, N <- 2, Loops <- {1, 2}, Mode <- "polling", Awaited <- FALSE,
    HandlerThrows <- FALSE, MaxStarts <- 2, MaxCrashes <- 1, MaxFaults <- 1

Channels == INSTANCE ChannelRegistry WITH
    entry <- channel, MaxPlugins <- 2, Slots <- {"s1", "s2", "s3"}, Stops <- TRUE,
    Unregisters <- 1

CallIds == {"c1", "c2", "c3"}
\* Calls with their own keys share the retry budget
Own == INSTANCE RetryLoop WITH
    Calls <- CallIds, Keys <- CallIds \cup {"k"}, KeyOf <- [c \in CallIds |-> c],
    MaxAttempts <- 5, EscalateOnExhaustion <- FALSE, MaxExecutionAttempts <- 4,
    CostBudget <- 3, HasBudget <- TRUE, MaxTokens <- 2, MaxConcurrent <- 2
\* Concurrent calls for the same run and node
Shared == INSTANCE RetryLoop WITH
    Calls <- CallIds, Keys <- CallIds \cup {"k"}, KeyOf <- [c \in CallIds |-> "k"],
    MaxAttempts <- 4, EscalateOnExhaustion <- TRUE, MaxExecutionAttempts <- 3,
    CostBudget <- 9, HasBudget <- TRUE, MaxTokens <- 1, MaxConcurrent <- 1

Requests == {"r1", "r2", "r3"}

Breaker == INSTANCE CircuitBreaker WITH
    entry <- circuit, Requests <- Requests, FailureThreshold <- 3,
    HalfOpenSuccessThreshold <- 2, MaxTrips <- 3

ASSUME /\ Fresh!SubagentConstants /\ Thrown!SubagentConstants /\ Spawned!SubagentConstants
       /\ Poll!TelegramConstants /\ Hook!TelegramConstants /\ Kept!TelegramConstants
       /\ Channels!ChannelConstants /\ Own!RetryConstants /\ Shared!RetryConstants
       /\ Breaker!BreakerConstants

Services == {"fresh", "thrown", "spawned", "poll", "hook", "kept", "channels", "own", "shared",
             "breaker"}

MCInit ==
    /\ service \in Services
    /\ Fresh!Init /\ Poll!Init /\ Channels!Init /\ Breaker!Init
    /\ IF service = "shared" THEN Shared!Init ELSE Own!Init

Spawning ==
    /\ \/ service = "fresh" /\ Fresh!Next
       \/ service = "thrown" /\ Thrown!Next
       \/ service = "spawned" /\ Spawned!Next
    /\ UNCHANGED <<service, telegram, channels, retries, breaker>>

Receiving ==
    /\ \/ service = "poll" /\ Poll!Next
       \/ service = "hook" /\ Hook!Next
       \/ service = "kept" /\ Kept!Next
    /\ UNCHANGED <<service, spawns, channels, retries, breaker>>

Connecting ==
    /\ service = "channels" /\ Channels!Next
    /\ UNCHANGED <<service, spawns, telegram, retries, breaker>>

Retrying ==
    /\ \/ service = "own" /\ Own!Next
       \/ service = "shared" /\ Shared!Next
    /\ UNCHANGED <<service, spawns, telegram, channels, breaker>>

Breaking ==
    /\ service = "breaker" /\ Breaker!Next
    /\ UNCHANGED <<service, spawns, telegram, channels, retries>>

MCNext == Spawning \/ Receiving \/ Connecting \/ Retrying \/ Breaking

\* Executions, loops and handlers that can move do: promises settle, and a hub
\* or a channel that is off is started again, as long as the bound on starts
\* allows.
MCSpec ==
    /\ MCInit /\ [][MCNext]_<<service, spawns, telegram, channels, retries, breaker>>
    /\ \A c \in {"c1", "c2"} :
         /\ WF_spawns(service = "spawned" /\ (Spawned!ForkReturns(c) \/ Spawned!ForkThrows(c)))
         /\ WF_spawns(service = "spawned" /\ Spawned!Prepare(c))
         /\ WF_spawns(service = "spawned" /\ \E o \in Spawned!Terminal : Spawned!ChildEnds(c, o))
    /\ WF_spawns(service = "spawned" /\ (Spawned!Drained \/ Spawned!DrainTimesOut))
    /\ WF_spawns(service = "spawned" /\ hub = "closed" /\ Spawned!ProcessEnds)
    /\ WF_spawns(service = "spawned" /\ Spawned!Boot)
    /\ WF_telegram(service = "kept" /\ \E l \in {1, 2} : Kept!LoopStep(l))
    /\ WF_telegram(service = "kept" /\ \E u \in Kept!Updates : Kept!WorkEnds(u))
    /\ WF_telegram(service = "kept" /\ \E l \in {1, 2} : Kept!StartPolling(l))
    /\ \A c \in CallIds : /\ WF_retries(service = "shared" /\ Shared!FnSettles(c))
                          /\ WF_retries(service = "shared" /\ Shared!WakeUp(c))
    /\ WF_breaker(service = "breaker" /\ Breaker!TimeoutElapses)
    /\ \A r \in Requests : /\ WF_breaker(service = "breaker" /\ Breaker!IsAllowed(r))
                           /\ WF_breaker(service = "breaker" /\ Breaker!Report(r))

-----------------------------------------------------------------------------
\* Sub-agents: a run has more active children than the limit only by forks that
\* return late, and with fresh spawns never; a record that counts as active has
\* an execution behind it unless what precedes executeChild's try threw; and a
\* stored outcome is final.
SpawnsSound ==
    /\ [](/\ (service = "fresh") => Fresh!TypeOK /\ Fresh!SlotsBounded /\ Fresh!CountIsRunning
          /\ (service = "spawned") => Spawned!CountIsRunning)
    /\ [][/\ (service = "thrown") => Thrown!OutcomeStays /\ Thrown!OverLimitByForks
          /\ (service = "spawned") => Spawned!OverLimitByForks]_spawns

\* Telegram: what Telegram has forgotten is in the inbox, no row ends or is
\* pruned before its update was given to the handler, and a processed update is
\* given to it again only by a recovery that had listed it before, through lost
\* answers, stops, overlapping loops and crashes.
InboxKept ==
    /\ [](/\ (service = "poll") => Poll!TypeOK /\ Poll!NothingForgotten /\ Poll!NeverLost
          /\ (service = "hook") => Hook!NothingForgotten /\ Hook!NeverLost
          /\ (service = "kept") => Kept!NothingForgotten /\ Kept!NeverLost)
    /\ [][/\ (service = "poll") => Poll!Deduplicated
          /\ (service = "hook") => Hook!Deduplicated
          /\ (service = "kept") => Kept!Deduplicated]_telegram

\* Channels, retries and circuits: one restart of a channel at a time, and a
\* connected channel is usable; permits of the retry budget balance on every
\* way out and settled contexts stay; a half-open circuit that turns requests
\* away has a probe under way, and only failures in a row trip it.
LinksSound ==
    /\ [](/\ (service = "channels") => /\ Channels!TypeOK /\ Channels!OneRestart
                                        /\ Channels!ConnectedUsable
          /\ (service = "own") => Own!TypeOK /\ Own!CostBounded
          /\ (service = "shared") => Shared!PermitsBalanced /\ Shared!NoOpenContext
          /\ (service = "breaker") => Breaker!TypeOK /\ Breaker!ProbeAlive)
    /\ [][(service = "shared") => Shared!SettledStays]_retries
    /\ [][(service = "breaker") => Breaker!TripsEarned]_breaker

\* What was begun ends: spawned children through a restart that drains, every
\* update through failing fetches and commits, overlapping loops, stops and a
\* crash, but one whose handler a crash cut off after its row was processed, and
\* calls that share a retry budget; and an open circuit lets a request through
\* again.
ServicesSettle ==
    /\ (service = "spawned") => Spawned!SpawnsEnd
    /\ (service = "kept") => Kept!EachHandled
    /\ (service = "shared") => Shared!CallsEnd
    /\ (service = "breaker") => Breaker!Reopens
=============================================================================

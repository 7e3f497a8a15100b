---------------------------- MODULE ServiceProofs ----------------------------
(***************************************************************************)
(* The theorems about the services of the hub, put together for the        *)
(* scenarios of the run over them. Each scenario is an instance of its     *)
(* component; its proof is that of the same constants in an instance of    *)
(* HubProofs. Three instances are enough: One proves the scenarios fresh,  *)
(* poll, channels, own and breaker, Two thrown, hook and shared, and Three *)
(* spawned and kept.                                                       *)
(***************************************************************************)
EXTENDS MCServices, FiniteSetTheorems, TLAPS

One == INSTANCE HubProofs WITH
    row <- record, Calls <- {"c1", "c2"}, Root <- "root", Waited <- {}, Archived <- {},
    Modes <- {"fresh"}, MaxConcurrent <- 1, MaxDepth <- 2, MaxBoots <- 1, PrepThrows <- FALSE,
    N <- 2, Loops <- {1, 2}, Mode <- "polling", Awaited <- TRUE, HandlerThrows <- TRUE,
    MaxStarts <- 2, MaxCrashes <- 1, MaxFaults <- 1,
    MaxPlugins <- 2, ChannelSlots <- {"s1", "s2", "s3"}, Stops <- TRUE, Unregisters <- 1,
    Keys <- CallIds \cup {"k"}, KeyOf <- [c \in CallIds |-> c], MaxAttempts <- 5,
    EscalateOnExhaustion <- FALSE, MaxExecutionAttempts <- 4, CostBudget <- 3,
    HasBudget <- TRUE, MaxTokens <- 2, RetryLimit <- 2,
    FailureThreshold <- 3, HalfOpenSuccessThreshold <- 2, MaxTrips <- 3

Two == INSTANCE HubProofs WITH
    row <- record, Calls <- {"c1", "c2"}, Root <- "root", Waited <- {"c1"}, Archived <- {"c1"},
    Modes <- {"fresh", "fork"}, MaxConcurrent <- 2, MaxDepth <- 2, MaxBoots <- 1,
    PrepThrows <- TRUE,
    N <- 2, Loops <- {1, 2}, Mode <- "webhook", Awaited <- FALSE, HandlerThrows <- TRUE,
    MaxStarts <- 2, MaxCrashes <- 1, MaxFaults <- 1,
    MaxPlugins <- 2, ChannelSlots <- {"s1", "s2", "s3"}, Stops <- TRUE, Unregisters <- 1,
    Keys <- CallIds \cup {"k"}, KeyOf <- [c \in CallIds |-> "k"], MaxAttempts <- 4,
    EscalateOnExhaustion <- TRUE, MaxExecutionAttempts <- 3, CostBudget <- 9,
    HasBudget <- TRUE, MaxTokens <- 1, RetryLimit <- 1,
    FailureThreshold <- 3, HalfOpenSuccessThreshold <- 2, MaxTrips <- 3

Three == INSTANCE HubProofs WITH
    row <- record, Calls <- {"c1", "c2"}, Root <- "root", Waited <- {}, Archived <- {"c1"},
    Modes <- {"fresh", "fork"}, MaxConcurrent <- 1, MaxDepth <- 2, MaxBoots <- 1,
    PrepThrows <- FALSE,
    N <- 2, Loops <- {1, 2}, Mode <- "polling", Awaited <- FALSE, HandlerThrows <- FALSE,
    MaxStarts <- 2, MaxCrashes <- 1, MaxFaults <- 1,
    MaxPlugins <- 2, ChannelSlots <- {"s1", "s2", "s3"}, Stops <- TRUE, Unregisters <- 1,
    Keys <- CallIds \cup {"k"}, KeyOf <- [c \in CallIds |-> c], MaxAttempts <- 5,
    EscalateOnExhaustion <- FALSE, MaxExecutionAttempts <- 4, CostBudget <- 3,
    HasBudget <- TRUE, MaxTokens <- 2, RetryLimit <- 2,
    FailureThreshold <- 3, HalfOpenSuccessThreshold <- 2, MaxTrips <- 3

-----------------------------------------------------------------------------
(* A scenario and the instance of the proofs are the same specification    *)

LEMMA SameFresh ==
    /\ Fresh!Init <=> One!Init
    /\ Fresh!Next <=> One!Next
    /\ Fresh!TypeOK <=> One!TypeOK
    /\ Fresh!SlotsBounded <=> One!SlotsBounded
    /\ Fresh!CountIsRunning <=> One!CountIsRunning
<1> USE DEF Fresh!Cardinality, One!Cardinality, Fresh!vars, One!vars, Fresh!Active,
            One!Active, Fresh!Terminal, One!Terminal, Fresh!Live, One!Live, Fresh!Init,
            One!Init, Fresh!DbOpen, One!DbOpen, Fresh!Updated, One!Updated,
            Fresh!ActiveOf, One!ActiveOf, Fresh!Ancestors, One!Ancestors, Fresh!Depth,
            One!Depth, Fresh!Create, One!Create, Fresh!Spawn, One!Spawn,
            Fresh!ForkReturns, One!ForkReturns, Fresh!ForkThrows, One!ForkThrows,
            Fresh!Prepare, One!Prepare, Fresh!PrepareThrows, One!PrepareThrows,
            Fresh!ChildEnds, One!ChildEnds, Fresh!StartWait, One!StartWait, Fresh!Poll,
            One!Poll, Fresh!WaitTimesOut, One!WaitTimesOut, Fresh!Finalize,
            One!Finalize, Fresh!Cleanup, One!Cleanup, Fresh!Stop, One!Stop,
            Fresh!Drained, One!Drained, Fresh!DrainTimesOut, One!DrainTimesOut,
            Fresh!ProcessEnds, One!ProcessEnds, Fresh!Boot, One!Boot, Fresh!Next,
            One!Next
<1>1. Fresh!Init <=> One!Init
  OBVIOUS
<1>2. Fresh!Next <=> One!Next
  OBVIOUS
<1>3. Fresh!TypeOK <=> One!TypeOK
  BY DEF Fresh!TypeOK, One!TypeOK
<1>4. Fresh!SlotsBounded <=> One!SlotsBounded
  BY DEF Fresh!SlotsBounded, One!SlotsBounded
<1>5. Fresh!CountIsRunning <=> One!CountIsRunning
  BY DEF Fresh!CountIsRunning, One!CountIsRunning
<1>6. QED  BY ONLY <1>1, <1>2, <1>3, <1>4, <1>5

LEMMA SameThrown ==
    /\ Fresh!Init => Two!Init
    /\ Thrown!Next <=> Two!Next
    /\ Thrown!OutcomeStays <=> Two!OutcomeStays
    /\ Thrown!OverLimitByForks <=> Two!OverLimitByForks
<1> USE DEF Thrown!Cardinality, Two!Cardinality, Thrown!vars, Two!vars, Thrown!Active,
            Two!Active, Thrown!Terminal, Two!Terminal, Thrown!Live, Two!Live,
            Thrown!Init, Two!Init, Thrown!DbOpen, Two!DbOpen, Thrown!Updated,
            Two!Updated, Thrown!ActiveOf, Two!ActiveOf, Thrown!Ancestors,
            Two!Ancestors, Thrown!Depth, Two!Depth, Thrown!Create, Two!Create,
            Thrown!Spawn, Two!Spawn, Thrown!ForkReturns, Two!ForkReturns,
            Thrown!ForkThrows, Two!ForkThrows, Thrown!Prepare, Two!Prepare,
            Thrown!PrepareThrows, Two!PrepareThrows, Thrown!ChildEnds, Two!ChildEnds,
            Thrown!StartWait, Two!StartWait, Thrown!Poll, Two!Poll, Thrown!WaitTimesOut,
            Two!WaitTimesOut, Thrown!Finalize, Two!Finalize, Thrown!Cleanup,
            Two!Cleanup, Thrown!Stop, Two!Stop, Thrown!Drained, Two!Drained,
            Thrown!DrainTimesOut, Two!DrainTimesOut, Thrown!ProcessEnds,
            Two!ProcessEnds, Thrown!Boot, Two!Boot, Thrown!Next, Two!Next
<1>1. Fresh!Init => Two!Init
  BY DEF Fresh!Init
<1>2. Thrown!Next <=> Two!Next
  OBVIOUS
<1>3. Thrown!OutcomeStays <=> Two!OutcomeStays
  BY DEF Thrown!OutcomeStays, Two!OutcomeStays
<1>4. Thrown!OverLimitByForks <=> Two!OverLimitByForks
  BY DEF Thrown!OverLimitByForks, Two!OverLimitByForks
<1>5. QED  BY ONLY <1>1, <1>2, <1>3, <1>4

LEMMA SameSpawned ==
    /\ Fresh!Init => Three!Init
    /\ Spawned!Next <=> Three!Next
    /\ Spawned!CountIsRunning <=> Three!CountIsRunning
    /\ Spawned!OverLimitByForks <=> Three!OverLimitByForks
<1> USE DEF Spawned!Cardinality, Three!Cardinality, Spawned!vars, Three!vars, Spawned!Active,
            Three!Active, Spawned!Terminal, Three!Terminal, Spawned!Live, Three!Live,
            Spawned!Init, Three!Init, Spawned!DbOpen, Three!DbOpen, Spawned!Updated,
            Three!Updated, Spawned!ActiveOf, Three!ActiveOf, Spawned!Ancestors,
            Three!Ancestors, Spawned!Depth, Three!Depth, Spawned!Create, Three!Create,
            Spawned!Spawn, Three!Spawn, Spawned!ForkReturns, Three!ForkReturns,
            Spawned!ForkThrows, Three!ForkThrows, Spawned!Prepare, Three!Prepare,
            Spawned!PrepareThrows, Three!PrepareThrows, Spawned!ChildEnds, Three!ChildEnds,
            Spawned!StartWait, Three!StartWait, Spawned!Poll, Three!Poll, Spawned!WaitTimesOut,
            Three!WaitTimesOut, Spawned!Finalize, Three!Finalize, Spawned!Cleanup,
            Three!Cleanup, Spawned!Stop, Three!Stop, Spawned!Drained, Three!Drained,
            Spawned!DrainTimesOut, Three!DrainTimesOut, Spawned!ProcessEnds,
            Three!ProcessEnds, Spawned!Boot, Three!Boot, Spawned!Next, Three!Next
<1>1. Fresh!Init => Three!Init
  BY DEF Fresh!Init
<1>2. Spawned!Next <=> Three!Next
  OBVIOUS
<1>3. Spawned!CountIsRunning <=> Three!CountIsRunning
  BY DEF Spawned!CountIsRunning, Three!CountIsRunning
<1>4. Spawned!OverLimitByForks <=> Three!OverLimitByForks
  BY DEF Spawned!OverLimitByForks, Three!OverLimitByForks
<1>5. QED  BY ONLY <1>1, <1>2, <1>3, <1>4

LEMMA SamePoll ==
    /\ Poll!Init <=> One!Inbox!Init
    /\ Poll!Next <=> One!Inbox!Next
    /\ Poll!TypeOK <=> One!Inbox!TypeOK
    /\ Poll!NothingForgotten <=> One!Inbox!NothingForgotten
    /\ Poll!Deduplicated <=> One!Inbox!Deduplicated
    /\ Poll!NeverLost <=> One!Inbox!NeverLost
<1> USE DEF Poll!Updates, One!Inbox!Updates, Poll!vars, One!Inbox!vars, Poll!Idle,
            One!Inbox!Idle, Poll!NoHook, One!Inbox!NoHook, Poll!TypeOK, One!Inbox!TypeOK,
            Poll!Init, One!Inbox!Init, Poll!Least, One!Inbox!Least, Poll!Committed,
            One!Inbox!Committed, Poll!ShouldDeliver, One!Inbox!ShouldDeliver, Poll!Reconciled,
            One!Inbox!Reconciled, Poll!Unprocessed, One!Inbox!Unprocessed, Poll!Held,
            One!Inbox!Held, Poll!Pruned, One!Inbox!Pruned, Poll!Prunable, One!Inbox!Prunable,
            Poll!Call, One!Inbox!Call, Poll!NewUpdate, One!Inbox!NewUpdate, Poll!WorkEnds,
            One!Inbox!WorkEnds, Poll!StartPolling, One!Inbox!StartPolling, Poll!StopPolling,
            One!Inbox!StopPolling, Poll!Recover, One!Inbox!Recover, Poll!Fetch, One!Inbox!Fetch,
            Poll!FetchFails, One!Inbox!FetchFails, Poll!Aborted, One!Inbox!Aborted,
            Poll!TakeUpdate, One!Inbox!TakeUpdate, Poll!CommitFails, One!Inbox!CommitFails,
            Poll!Back, One!Inbox!Back, Poll!Delivered, One!Inbox!Delivered, Poll!DeliveryFails,
            One!Inbox!DeliveryFails, Poll!NextCycle, One!Inbox!NextCycle, Poll!StartWebhook,
            One!Inbox!StartWebhook, Poll!StopWebhook, One!Inbox!StopWebhook, Poll!HookCommit,
            One!Inbox!HookCommit, Poll!HookHandle, One!Inbox!HookHandle, Poll!HookMark,
            One!Inbox!HookMark, Poll!Crash, One!Inbox!Crash, Poll!LoopStep, One!Inbox!LoopStep,
            Poll!Next, One!Inbox!Next, Poll!NothingForgotten, One!Inbox!NothingForgotten,
            Poll!Deduplicated, One!Inbox!Deduplicated, Poll!NeverLost,
            One!Inbox!NeverLost
<1>1. Poll!Init <=> One!Inbox!Init
  OBVIOUS
<1>2. Poll!Next <=> One!Inbox!Next
  OBVIOUS
<1>3. Poll!TypeOK <=> One!Inbox!TypeOK
  OBVIOUS
<1>4. Poll!NothingForgotten <=> One!Inbox!NothingForgotten
  OBVIOUS
<1>5. Poll!Deduplicated <=> One!Inbox!Deduplicated
  OBVIOUS
<1>6. Poll!NeverLost <=> One!Inbox!NeverLost
  OBVIOUS
<1>7. QED  BY ONLY <1>1, <1>2, <1>3, <1>4, <1>5, <1>6

LEMMA SameHook ==
    /\ Poll!Init => Two!Inbox!Init
    /\ Hook!Next <=> Two!Inbox!Next
    /\ Hook!NothingForgotten <=> Two!Inbox!NothingForgotten
    /\ Hook!Deduplicated <=> Two!Inbox!Deduplicated
    /\ Hook!NeverLost <=> Two!Inbox!NeverLost
<1> USE DEF Hook!Updates, Two!Inbox!Updates, Hook!vars, Two!Inbox!vars, Hook!Idle,
            Two!Inbox!Idle, Hook!NoHook, Two!Inbox!NoHook, Hook!Init, Two!Inbox!Init, Hook!Least,
            Two!Inbox!Least, Hook!Committed, Two!Inbox!Committed, Hook!ShouldDeliver,
            Two!Inbox!ShouldDeliver, Hook!Reconciled, Two!Inbox!Reconciled, Hook!Unprocessed,
            Two!Inbox!Unprocessed, Hook!Held, Two!Inbox!Held, Hook!Pruned, Two!Inbox!Pruned,
            Hook!Prunable, Two!Inbox!Prunable, Hook!Call, Two!Inbox!Call, Hook!NewUpdate,
            Two!Inbox!NewUpdate, Hook!WorkEnds, Two!Inbox!WorkEnds, Hook!StartPolling,
            Two!Inbox!StartPolling, Hook!StopPolling, Two!Inbox!StopPolling, Hook!Recover,
            Two!Inbox!Recover, Hook!Fetch, Two!Inbox!Fetch, Hook!FetchFails,
            Two!Inbox!FetchFails, Hook!Aborted, Two!Inbox!Aborted, Hook!TakeUpdate,
            Two!Inbox!TakeUpdate, Hook!CommitFails, Two!Inbox!CommitFails, Hook!Back,
            Two!Inbox!Back, Hook!Delivered, Two!Inbox!Delivered, Hook!DeliveryFails,
            Two!Inbox!DeliveryFails, Hook!NextCycle, Two!Inbox!NextCycle, Hook!StartWebhook,
            Two!Inbox!StartWebhook, Hook!StopWebhook, Two!Inbox!StopWebhook, Hook!HookCommit,
            Two!Inbox!HookCommit, Hook!HookHandle, Two!Inbox!HookHandle, Hook!HookMark,
            Two!Inbox!HookMark, Hook!Crash, Two!Inbox!Crash, Hook!LoopStep, Two!Inbox!LoopStep,
            Hook!Next, Two!Inbox!Next, Hook!NothingForgotten, Two!Inbox!NothingForgotten,
            Hook!Deduplicated, Two!Inbox!Deduplicated, Hook!NeverLost,
            Two!Inbox!NeverLost
<1>1. Poll!Init => Two!Inbox!Init
  BY DEF Poll!Updates, Poll!Idle, Poll!NoHook, Poll!Init
<1>2. Hook!Next <=> Two!Inbox!Next
  OBVIOUS
<1>3. Hook!NothingForgotten <=> Two!Inbox!NothingForgotten
  OBVIOUS
<1>4. Hook!Deduplicated <=> Two!Inbox!Deduplicated
  OBVIOUS
<1>5. Hook!NeverLost <=> Two!Inbox!NeverLost
  OBVIOUS
<1>6. QED  BY ONLY <1>1, <1>2, <1>3, <1>4, <1>5

LEMMA SameKept ==
    /\ Poll!Init => Three!Inbox!Init
    /\ Kept!Next <=> Three!Inbox!Next
    /\ Kept!NeverLost <=> Three!Inbox!NeverLost
    /\ Kept!NothingForgotten <=> Three!Inbox!NothingForgotten
    /\ Kept!Deduplicated <=> Three!Inbox!Deduplicated
<1> USE DEF Kept!Updates, Three!Inbox!Updates, Kept!vars, Three!Inbox!vars, Kept!Idle,
            Three!Inbox!Idle, Kept!NoHook, Three!Inbox!NoHook, Kept!Init, Three!Inbox!Init,
            Kept!Least, Three!Inbox!Least, Kept!Committed, Three!Inbox!Committed,
            Kept!ShouldDeliver, Three!Inbox!ShouldDeliver, Kept!Reconciled,
            Three!Inbox!Reconciled, Kept!Unprocessed, Three!Inbox!Unprocessed, Kept!Held,
            Three!Inbox!Held, Kept!Pruned, Three!Inbox!Pruned, Kept!Prunable,
            Three!Inbox!Prunable, Kept!Call, Three!Inbox!Call, Kept!NewUpdate,
            Three!Inbox!NewUpdate, Kept!WorkEnds, Three!Inbox!WorkEnds, Kept!StartPolling,
            Three!Inbox!StartPolling, Kept!StopPolling, Three!Inbox!StopPolling, Kept!Recover,
            Three!Inbox!Recover, Kept!Fetch, Three!Inbox!Fetch, Kept!FetchFails,
            Three!Inbox!FetchFails, Kept!Aborted, Three!Inbox!Aborted, Kept!TakeUpdate,
            Three!Inbox!TakeUpdate, Kept!CommitFails, Three!Inbox!CommitFails, Kept!Back,
            Three!Inbox!Back, Kept!Delivered, Three!Inbox!Delivered, Kept!DeliveryFails,
            Three!Inbox!DeliveryFails, Kept!NextCycle, Three!Inbox!NextCycle, Kept!StartWebhook,
            Three!Inbox!StartWebhook, Kept!StopWebhook, Three!Inbox!StopWebhook, Kept!HookCommit,
            Three!Inbox!HookCommit, Kept!HookHandle, Three!Inbox!HookHandle, Kept!HookMark,
            Three!Inbox!HookMark, Kept!Crash, Three!Inbox!Crash, Kept!LoopStep,
            Three!Inbox!LoopStep, Kept!Next, Three!Inbox!Next, Kept!NeverLost,
            Three!Inbox!NeverLost, Kept!NothingForgotten, Three!Inbox!NothingForgotten,
            Kept!Deduplicated, Three!Inbox!Deduplicated
<1>1. Poll!Init => Three!Inbox!Init
  BY DEF Poll!Updates, Poll!Idle, Poll!NoHook, Poll!Init
<1>2. Kept!Next <=> Three!Inbox!Next
  OBVIOUS
<1>3. Kept!NeverLost <=> Three!Inbox!NeverLost
  OBVIOUS
<1>4. Kept!NothingForgotten <=> Three!Inbox!NothingForgotten
  OBVIOUS
<1>5. Kept!Deduplicated <=> Three!Inbox!Deduplicated
  OBVIOUS
<1>6. QED  BY ONLY <1>1, <1>2, <1>3, <1>4, <1>5

LEMMA SameChannels ==
    /\ Channels!Init <=> One!Channels!Init
    /\ Channels!Next <=> One!Channels!Next
    /\ Channels!TypeOK <=> One!Channels!TypeOK
    /\ Channels!OneRestart <=> One!Channels!OneRestart
    /\ Channels!ConnectedUsable <=> One!Channels!ConnectedUsable
<1> USE DEF Channels!Plugins, One!Channels!Plugins, Channels!vars, One!Channels!vars,
            Channels!Free, One!Channels!Free, Channels!TypeOK, One!Channels!TypeOK,
            Channels!Init, One!Channels!Init, Channels!Register, One!Channels!Register,
            Channels!Unregister, One!Channels!Unregister, Channels!Unregistered,
            One!Channels!Unregistered, Channels!UnregisterFails, One!Channels!UnregisterFails,
            Channels!StartBatch, One!Channels!StartBatch, Channels!AttemptSucceeds,
            One!Channels!AttemptSucceeds, Channels!AttemptFails, One!Channels!AttemptFails,
            Channels!ConnectionLost, One!Channels!ConnectionLost, Channels!StartHealthMonitor,
            One!Channels!StartHealthMonitor, Channels!HealthCheck, One!Channels!HealthCheck,
            Channels!StopAll, One!Channels!StopAll, Channels!Stopped, One!Channels!Stopped,
            Channels!Next, One!Channels!Next, Channels!OneRestart, One!Channels!OneRestart,
            Channels!ConnectedUsable, One!Channels!ConnectedUsable, Channels!Cardinality,
            One!Channels!Cardinality
<1>1. Channels!Init <=> One!Channels!Init
  OBVIOUS
<1>2. Channels!Next <=> One!Channels!Next
  OBVIOUS
<1>3. Channels!TypeOK <=> One!Channels!TypeOK
  OBVIOUS
<1>4. Channels!OneRestart <=> One!Channels!OneRestart
  OBVIOUS
<1>5. Channels!ConnectedUsable <=> One!Channels!ConnectedUsable
  OBVIOUS
<1>6. QED  BY ONLY <1>1, <1>2, <1>3, <1>4, <1>5

LEMMA SameOwn ==
    /\ Own!Init <=> One!Retries!Init
    /\ Own!Next <=> One!Retries!Next
    /\ Own!TypeOK <=> One!Retries!TypeOK
    /\ Own!CostBounded <=> One!Retries!CostBounded
<1> USE DEF Own!vars, One!Retries!vars, Own!Ended, One!Retries!Ended, Own!Call, One!Retries!Call,
            Own!NoContext, One!Retries!NoContext, Own!Fresh, One!Retries!Fresh, Own!Terminal,
            One!Retries!Terminal, Own!TypeOK, One!Retries!TypeOK, Own!WithinBudget,
            One!Retries!WithinBudget, Own!Decision, One!Retries!Decision, Own!Freed,
            One!Retries!Freed, Own!Start, One!Retries!Start, Own!End, One!Retries!End,
            Own!FnSucceeds, One!Retries!FnSucceeds, Own!FnFails, One!Retries!FnFails, Own!GiveUp,
            One!Retries!GiveUp, Own!SafetyLimit, One!Retries!SafetyLimit, Own!Denied,
            One!Retries!Denied, Own!Retry, One!Retries!Retry, Own!Refill, One!Retries!Refill,
            Own!Init, One!Retries!Init, Own!FnSettles, One!Retries!FnSettles, Own!WakeUp,
            One!Retries!WakeUp, Own!Next, One!Retries!Next, Own!CostBounded,
            One!Retries!CostBounded
<1>1. Own!Init <=> One!Retries!Init
  OBVIOUS
<1>2. Own!Next <=> One!Retries!Next
  OBVIOUS
<1>3. Own!TypeOK <=> One!Retries!TypeOK
  OBVIOUS
<1>4. Own!CostBounded <=> One!Retries!CostBounded
  OBVIOUS
<1>5. QED  BY ONLY <1>1, <1>2, <1>3, <1>4

LEMMA SameShared ==
    /\ Shared!Init <=> Two!Retries!Init
    /\ Shared!Next <=> Two!Retries!Next
    /\ Shared!PermitsBalanced <=> Two!Retries!PermitsBalanced
    /\ Shared!NoOpenContext <=> Two!Retries!NoOpenContext
    /\ Shared!SettledStays <=> Two!Retries!SettledStays
<1> USE DEF Shared!vars, Two!Retries!vars, Shared!Ended, Two!Retries!Ended, Shared!NoContext,
            Two!Retries!NoContext, Shared!Fresh, Two!Retries!Fresh, Shared!Terminal,
            Two!Retries!Terminal, Shared!WithinBudget, Two!Retries!WithinBudget, Shared!Decision,
            Two!Retries!Decision, Shared!Holders, Two!Retries!Holders, Shared!Freed,
            Two!Retries!Freed, Shared!Start, Two!Retries!Start, Shared!End, Two!Retries!End,
            Shared!FnSucceeds, Two!Retries!FnSucceeds, Shared!FnFails, Two!Retries!FnFails,
            Shared!GiveUp, Two!Retries!GiveUp, Shared!SafetyLimit, Two!Retries!SafetyLimit,
            Shared!Denied, Two!Retries!Denied, Shared!Retry, Two!Retries!Retry, Shared!Refill,
            Two!Retries!Refill, Shared!Init, Two!Retries!Init, Shared!FnSettles,
            Two!Retries!FnSettles, Shared!WakeUp, Two!Retries!WakeUp, Shared!Next,
            Two!Retries!Next, Shared!PermitsBalanced, Two!Retries!PermitsBalanced,
            Shared!NoOpenContext, Two!Retries!NoOpenContext, Shared!SettledStays,
            Two!Retries!SettledStays, Shared!Cardinality, Two!Retries!Cardinality
<1>1. Shared!Init <=> Two!Retries!Init
  OBVIOUS
<1>2. Shared!Next <=> Two!Retries!Next
  OBVIOUS
<1>3. Shared!PermitsBalanced <=> Two!Retries!PermitsBalanced
  OBVIOUS
<1>4. Shared!NoOpenContext <=> Two!Retries!NoOpenContext
  OBVIOUS
<1>5. Shared!SettledStays <=> Two!Retries!SettledStays
  OBVIOUS
<1>6. QED  BY ONLY <1>1, <1>2, <1>3, <1>4, <1>5

LEMMA SameBreaker ==
    /\ Breaker!Init <=> One!Breaker!Init
    /\ Breaker!Next <=> One!Breaker!Next
    /\ Breaker!TypeOK <=> One!Breaker!TypeOK
    /\ Breaker!ProbeAlive <=> One!Breaker!ProbeAlive
    /\ Breaker!TripsEarned <=> One!Breaker!TripsEarned
<1> USE DEF Breaker!vars, One!Breaker!vars, Breaker!Roles, One!Breaker!Roles, Breaker!TypeOK,
            One!Breaker!TypeOK, Breaker!NewEntry, One!Breaker!NewEntry, Breaker!Refreshed,
            One!Breaker!Refreshed, Breaker!IsAllowed, One!Breaker!IsAllowed,
            Breaker!RecordSuccess, One!Breaker!RecordSuccess, Breaker!Tripped,
            One!Breaker!Tripped, Breaker!RecordFailure, One!Breaker!RecordFailure,
            Breaker!GetSnapshot, One!Breaker!GetSnapshot, Breaker!Reset, One!Breaker!Reset,
            Breaker!TimeoutElapses, One!Breaker!TimeoutElapses, Breaker!Init, One!Breaker!Init,
            Breaker!Report, One!Breaker!Report, Breaker!Next, One!Breaker!Next,
            Breaker!ProbeAlive, One!Breaker!ProbeAlive, Breaker!TripsEarned,
            One!Breaker!TripsEarned
<1>1. Breaker!Init <=> One!Breaker!Init
  OBVIOUS
<1>2. Breaker!Next <=> One!Breaker!Next
  OBVIOUS
<1>3. Breaker!TypeOK <=> One!Breaker!TypeOK
  OBVIOUS
<1>4. Breaker!ProbeAlive <=> One!Breaker!ProbeAlive
  OBVIOUS
<1>5. Breaker!TripsEarned <=> One!Breaker!TripsEarned
  OBVIOUS
<1>6. QED  BY ONLY <1>1, <1>2, <1>3, <1>4, <1>5

-----------------------------------------------------------------------------
(* The steps of the scenarios                                              *)

FreshInv == One!TypeOK /\ One!RecordInv /\ One!NoForks /\ One!Slots /\ One!ActiveRuns
ThrownInv == Two!TypeOK /\ Two!RecordInv
SpawnedInv == Three!TypeOK /\ Three!RecordInv /\ Three!ActiveRuns

LEMMA FiniteTwo == ASSUME NEW a, NEW b PROVE IsFiniteSet({a, b})
<1>1. IsFiniteSet({a})
  BY FS_Singleton
<1>2. IsFiniteSet({a} \cup {b})
  BY <1>1, FS_AddElement
<1>3. {a, b} = {a} \cup {b}
  OBVIOUS
<1>4. QED  BY <1>2, <1>3

LEMMA FreshStep ==
    /\ One!Init => FreshInv
    /\ FreshInv /\ [One!Next]_spawns => FreshInv'
    /\ FreshInv => One!TypeOK /\ One!SlotsBounded /\ One!CountIsRunning
<1> USE DEF FreshInv
<1>1. One!SubagentConstants
  BY DEF One!SubagentConstants
<1>2. One!Init => FreshInv
  <2>1. One!Init => One!NoForks
    BY DEF One!Init, One!NoForks
  <2>2. QED  BY <1>1, <2>1, One!TypeInit, One!RecordInit, One!SlotsInit, One!ActiveInit
<1>3. ASSUME FreshInv, [One!Next]_(One!vars)
      PROVE  FreshInv'
  <2>1. One!TypeOK'
    BY <1>1, <1>3, One!TypeStep
  <2>2. One!RecordInv'
    BY <1>3, One!RecordStep
  <2>3. One!NoForks'
    BY <1>3, One!NoForksStep
  <2>4. One!Slots'
    BY <1>1, <1>3, One!SlotsStep
  <2>5. One!ActiveRuns'
    BY <1>3, One!ActiveStep
  <2>6. QED  BY <2>1, <2>2, <2>3, <2>4, <2>5
<1>4. FreshInv => One!SlotsBounded /\ One!CountIsRunning
  BY One!ActiveImplies DEF One!Slots, One!SlotsBounded
<1>5. QED  BY <1>2, <1>3, <1>4 DEF One!vars, spawns

LEMMA ThrownStep ==
    /\ Two!Init => ThrownInv
    /\ ThrownInv /\ [Two!Next]_spawns => ThrownInv' /\ Two!OutcomeStays /\ Two!OverLimitByForks
<1> USE DEF ThrownInv
<1>0. IsFiniteSet({"c1", "c2"})
  BY FiniteTwo
<1>1. Two!SubagentConstants
  BY DEF Two!SubagentConstants
<1>2. Two!Init => ThrownInv
  BY <1>1, Two!TypeInit, Two!RecordInit
<1>3. ASSUME ThrownInv, [Two!Next]_(Two!vars)
      PROVE  ThrownInv' /\ Two!OutcomeStays /\ Two!OverLimitByForks
  <2>1. Two!TypeOK'
    BY <1>1, <1>3, Two!TypeStep
  <2>2. Two!RecordInv'
    BY <1>3, Two!RecordStep
  <2>3. Two!OutcomeStays
    BY <1>3, Two!OutcomeStep
  <2>4. Two!OverLimitByForks
    BY <1>0, <1>1, <1>3, Two!OverLimitStep DEF Two!IsFiniteSet, IsFiniteSet
  <2>5. QED  BY <2>1, <2>2, <2>3, <2>4
<1>4. QED  BY <1>2, <1>3 DEF Two!vars, spawns

LEMMA SpawnedStep ==
    /\ Three!Init => SpawnedInv
    /\ SpawnedInv /\ [Three!Next]_spawns => SpawnedInv' /\ Three!OverLimitByForks
    /\ SpawnedInv => Three!CountIsRunning
<1> USE DEF SpawnedInv
<1>0. IsFiniteSet({"c1", "c2"})
  BY FiniteTwo
<1>1. Three!SubagentConstants
  BY DEF Three!SubagentConstants
<1>2. Three!Init => SpawnedInv
  BY <1>1, Three!TypeInit, Three!RecordInit, Three!ActiveInit
<1>3. ASSUME SpawnedInv, [Three!Next]_(Three!vars)
      PROVE  SpawnedInv' /\ Three!OverLimitByForks
  <2>1. Three!TypeOK'
    BY <1>1, <1>3, Three!TypeStep
  <2>2. Three!RecordInv'
    BY <1>3, Three!RecordStep
  <2>3. Three!ActiveRuns'
    BY <1>3, Three!ActiveStep
  <2>4. Three!OverLimitByForks
    BY <1>0, <1>1, <1>3, Three!OverLimitStep DEF Three!IsFiniteSet, IsFiniteSet
  <2>5. QED  BY <2>1, <2>2, <2>3, <2>4
<1>4. SpawnedInv => Three!CountIsRunning
  BY Three!ActiveImplies
<1>5. QED  BY <1>2, <1>3, <1>4 DEF Three!vars, spawns

\* The same for the inbox, in each of its scenarios.
PollInv == One!Inbox!TypeOK /\ One!StoredInv /\ One!InboxFresh /\ One!HandledInv
HookInv == Two!Inbox!TypeOK /\ Two!StoredInv /\ Two!InboxFresh /\ Two!HandledInv
KeptInv == Three!Inbox!TypeOK /\ Three!StoredInv /\ Three!InboxFresh /\ Three!HandledInv

LEMMA PollStep ==
    /\ One!Inbox!Init => PollInv
    /\ PollInv /\ [One!Inbox!Next]_telegram => PollInv' /\ One!Inbox!Deduplicated
    /\ PollInv => One!Inbox!TypeOK /\ One!Inbox!NothingForgotten /\ One!Inbox!NeverLost
<1> USE DEF PollInv
<1>1. One!Inbox!TelegramConstants
  BY DEF One!Inbox!TelegramConstants
<1>2. One!Inbox!Init => PollInv
  BY <1>1, One!InboxTypeInit, One!StoredInit, One!InboxFreshInit, One!HandledInit
<1>3. ASSUME PollInv, [One!Inbox!Next]_(One!Inbox!vars)
      PROVE  PollInv' /\ One!Inbox!Deduplicated
  <2>1. One!Inbox!TypeOK'
    BY <1>1, <1>3, One!InboxTypeStep
  <2>2. One!StoredInv'
    BY <1>1, <1>3, One!StoredStep
  <2>3. One!InboxFresh'
    BY <1>1, <1>3, One!InboxFreshStep
  <2>4. One!HandledInv'
    BY <1>1, <1>3, One!HandledStep
  <2>5. One!Inbox!Deduplicated
    BY <1>1, <1>3, One!DeduplicatedStep
  <2>6. QED  BY <2>1, <2>2, <2>3, <2>4, <2>5
<1>4. PollInv => One!Inbox!NothingForgotten /\ One!Inbox!NeverLost
  BY One!HandledImplies DEF One!StoredInv
<1>5. QED  BY <1>2, <1>3, <1>4 DEF One!Inbox!vars, telegram

LEMMA HookStep ==
    /\ Two!Inbox!Init => HookInv
    /\ HookInv /\ [Two!Inbox!Next]_telegram => HookInv' /\ Two!Inbox!Deduplicated
    /\ HookInv => Two!Inbox!TypeOK /\ Two!Inbox!NothingForgotten /\ Two!Inbox!NeverLost
<1> USE DEF HookInv
<1>1. Two!Inbox!TelegramConstants
  BY DEF Two!Inbox!TelegramConstants
<1>2. Two!Inbox!Init => HookInv
  BY <1>1, Two!InboxTypeInit, Two!StoredInit, Two!InboxFreshInit, Two!HandledInit
<1>3. ASSUME HookInv, [Two!Inbox!Next]_(Two!Inbox!vars)
      PROVE  HookInv' /\ Two!Inbox!Deduplicated
  <2>1. Two!Inbox!TypeOK'
    BY <1>1, <1>3, Two!InboxTypeStep
  <2>2. Two!StoredInv'
    BY <1>1, <1>3, Two!StoredStep
  <2>3. Two!InboxFresh'
    BY <1>1, <1>3, Two!InboxFreshStep
  <2>4. Two!HandledInv'
    BY <1>1, <1>3, Two!HandledStep
  <2>5. Two!Inbox!Deduplicated
    BY <1>1, <1>3, Two!DeduplicatedStep
  <2>6. QED  BY <2>1, <2>2, <2>3, <2>4, <2>5
<1>4. HookInv => Two!Inbox!NothingForgotten /\ Two!Inbox!NeverLost
  BY Two!HandledImplies DEF Two!StoredInv
<1>5. QED  BY <1>2, <1>3, <1>4 DEF Two!Inbox!vars, telegram

LEMMA KeptStep ==
    /\ Three!Inbox!Init => KeptInv
    /\ KeptInv /\ [Three!Inbox!Next]_telegram => KeptInv' /\ Three!Inbox!Deduplicated
    /\ KeptInv => Three!Inbox!TypeOK /\ Three!Inbox!NothingForgotten /\ Three!Inbox!NeverLost
<1> USE DEF KeptInv
<1>1. Three!Inbox!TelegramConstants
  BY DEF Three!Inbox!TelegramConstants
<1>2. Three!Inbox!Init => KeptInv
  BY <1>1, Three!InboxTypeInit, Three!StoredInit, Three!InboxFreshInit, Three!HandledInit
<1>3. ASSUME KeptInv, [Three!Inbox!Next]_(Three!Inbox!vars)
      PROVE  KeptInv' /\ Three!Inbox!Deduplicated
  <2>1. Three!Inbox!TypeOK'
    BY <1>1, <1>3, Three!InboxTypeStep
  <2>2. Three!StoredInv'
    BY <1>1, <1>3, Three!StoredStep
  <2>3. Three!InboxFresh'
    BY <1>1, <1>3, Three!InboxFreshStep
  <2>4. Three!HandledInv'
    BY <1>1, <1>3, Three!HandledStep
  <2>5. Three!Inbox!Deduplicated
    BY <1>1, <1>3, Three!DeduplicatedStep
  <2>6. QED  BY <2>1, <2>2, <2>3, <2>4, <2>5
<1>4. KeptInv => Three!Inbox!NothingForgotten /\ Three!Inbox!NeverLost
  BY Three!HandledImplies DEF Three!StoredInv
<1>5. QED  BY <1>2, <1>3, <1>4 DEF Three!Inbox!vars, telegram

LEMMA ChannelsStep ==
    /\ One!Channels!Init => One!ChannelInv
    /\ One!ChannelInv /\ [One!Channels!Next]_channels => One!ChannelInv'
    /\ One!ChannelInv => /\ One!Channels!TypeOK /\ One!Channels!OneRestart
                          /\ One!Channels!ConnectedUsable
<1>1. One!Channels!ChannelConstants
  BY DEF One!Channels!ChannelConstants
<1>2. One!Channels!Init => One!ChannelInv
  BY <1>1, One!ChannelInit
<1>3. ASSUME One!ChannelInv, [One!Channels!Next]_(One!Channels!vars) PROVE One!ChannelInv'
  BY <1>1, <1>3, One!ChannelStep
<1>4. One!ChannelInv => /\ One!Channels!TypeOK /\ One!Channels!OneRestart
                        /\ One!Channels!ConnectedUsable
  BY <1>1, One!ChannelImplies DEF One!ChannelInv
<1>5. QED  BY <1>2, <1>3, <1>4 DEF One!Channels!vars, channels

LEMMA FiniteThree == ASSUME NEW a, NEW b, NEW c PROVE IsFiniteSet({a, b, c})
<1>1. IsFiniteSet({a})
  BY FS_Singleton
<1>2. IsFiniteSet({a} \cup {b})
  BY <1>1, FS_AddElement
<1>3. IsFiniteSet(({a} \cup {b}) \cup {c})
  BY <1>2, FS_AddElement
<1>4. {a, b, c} = ({a} \cup {b}) \cup {c}
  OBVIOUS
<1>5. QED  BY <1>3, <1>4

LEMMA OwnStep ==
    /\ One!Retries!Init => One!RetryInv
    /\ One!RetryInv /\ [One!Retries!Next]_retries => One!RetryInv'
    /\ One!RetryInv => One!Retries!TypeOK /\ One!Retries!CostBounded
<1>0. IsFiniteSet(CallIds)
  BY FiniteThree DEF CallIds
<1>1. One!Retries!RetryConstants
  BY <1>0 DEF One!Retries!RetryConstants, One!Retries!IsFiniteSet, IsFiniteSet
<1>2. One!Retries!Init => One!RetryInv
  BY <1>1, One!RetryInit
<1>3. ASSUME One!RetryInv, [One!Retries!Next]_(One!Retries!vars) PROVE One!RetryInv'
  BY <1>1, <1>3, One!RetryStep
<1>4. One!RetryInv => One!Retries!TypeOK /\ One!Retries!CostBounded
  BY <1>1, One!RetryImplies
<1>5. QED  BY <1>2, <1>3, <1>4 DEF One!Retries!vars, retries

LEMMA SharedStep ==
    /\ Two!Retries!Init => Two!RetryInv
    /\ Two!RetryInv /\ [Two!Retries!Next]_retries => Two!RetryInv' /\ Two!Retries!SettledStays
    /\ Two!RetryInv => Two!Retries!PermitsBalanced /\ Two!Retries!NoOpenContext
<1>0. IsFiniteSet(CallIds)
  BY FiniteThree DEF CallIds
<1>1. Two!Retries!RetryConstants
  BY <1>0 DEF Two!Retries!RetryConstants, Two!Retries!IsFiniteSet, IsFiniteSet
<1>2. Two!Retries!Init => Two!RetryInv
  BY <1>1, Two!RetryInit
<1>3. ASSUME Two!RetryInv, [Two!Retries!Next]_(Two!Retries!vars)
      PROVE  Two!RetryInv' /\ Two!Retries!SettledStays
  BY <1>1, <1>3, Two!RetryStep
<1>4. Two!RetryInv => Two!Retries!PermitsBalanced /\ Two!Retries!NoOpenContext
  BY <1>1, Two!RetryImplies
<1>5. QED  BY <1>2, <1>3, <1>4 DEF Two!Retries!vars, retries

LEMMA BreakerStep ==
    /\ One!Breaker!Init => One!BreakerInv
    /\ One!BreakerInv /\ [One!Breaker!Next]_breaker => One!BreakerInv' /\ One!Breaker!TripsEarned
    /\ One!BreakerInv => One!Breaker!TypeOK /\ One!Breaker!ProbeAlive
<1>0. IsFiniteSet(Requests)
  BY FiniteThree DEF Requests
<1>1. One!Breaker!BreakerConstants
  BY <1>0 DEF One!Breaker!BreakerConstants, One!Breaker!IsFiniteSet, IsFiniteSet
<1>2. One!Breaker!Init => One!BreakerInv
  BY <1>1, One!BreakerInit
<1>3. ASSUME One!BreakerInv, [One!Breaker!Next]_(One!Breaker!vars)
      PROVE  One!BreakerInv' /\ One!Breaker!TripsEarned
  BY <1>1, <1>3, One!BreakerStep
<1>4. One!BreakerInv => One!Breaker!TypeOK /\ One!Breaker!ProbeAlive
  BY DEF One!BreakerInv
<1>5. QED  BY <1>2, <1>3, <1>4 DEF One!Breaker!vars, breaker

-----------------------------------------------------------------------------
(* All services                                                            *)

SpawnsInv ==
    /\ service = "fresh" => FreshInv
    /\ service = "thrown" => ThrownInv
    /\ service = "spawned" => SpawnedInv

InboxInv ==
    /\ service = "poll" => PollInv
    /\ service = "hook" => HookInv
    /\ service = "kept" => KeptInv

LinksInv ==
    /\ service = "channels" => One!ChannelInv
    /\ service = "own" => One!RetryInv
    /\ service = "shared" => Two!RetryInv
    /\ service = "breaker" => One!BreakerInv

\* A step is one of the service of the behaviour; it leaves the others alone.
LEMMA ServiceCases ==
    ASSUME [MCNext]_<<service, spawns, telegram, channels, retries, breaker>>
    PROVE  /\ service' = service
           /\ service = "fresh" => [One!Next]_spawns
           /\ service = "thrown" => [Two!Next]_spawns
           /\ service = "spawned" => [Three!Next]_spawns
           /\ service = "poll" => [One!Inbox!Next]_telegram
           /\ service = "hook" => [Two!Inbox!Next]_telegram
           /\ service = "kept" => [Three!Inbox!Next]_telegram
           /\ service = "channels" => [One!Channels!Next]_channels
           /\ service = "own" => [One!Retries!Next]_retries
           /\ service = "shared" => [Two!Retries!Next]_retries
           /\ service = "breaker" => [One!Breaker!Next]_breaker
<1> USE DEF MCNext, Spawning, Receiving, Connecting, Retrying, Breaking
<1>1. service' = service
  OBVIOUS
<1>2. /\ service = "fresh" => [Fresh!Next]_spawns
      /\ service = "thrown" => [Thrown!Next]_spawns
      /\ service = "spawned" => [Spawned!Next]_spawns
  OBVIOUS
<1>3. /\ service = "poll" => [Poll!Next]_telegram
      /\ service = "hook" => [Hook!Next]_telegram
      /\ service = "kept" => [Kept!Next]_telegram
  OBVIOUS
<1>4. /\ service = "channels" => [Channels!Next]_channels
      /\ service = "own" => [Own!Next]_retries
      /\ service = "shared" => [Shared!Next]_retries
      /\ service = "breaker" => [Breaker!Next]_breaker
  OBVIOUS
<1>5. /\ service = "fresh" => [One!Next]_spawns
      /\ service = "thrown" => [Two!Next]_spawns
      /\ service = "spawned" => [Three!Next]_spawns
  BY <1>2, SameFresh, SameThrown, SameSpawned
<1>6. /\ service = "poll" => [One!Inbox!Next]_telegram
      /\ service = "hook" => [Two!Inbox!Next]_telegram
      /\ service = "kept" => [Three!Inbox!Next]_telegram
  BY <1>3, SamePoll, SameHook, SameKept
<1>7. /\ service = "channels" => [One!Channels!Next]_channels
      /\ service = "own" => [One!Retries!Next]_retries
      /\ service = "shared" => [Two!Retries!Next]_retries
      /\ service = "breaker" => [One!Breaker!Next]_breaker
  BY <1>4, SameChannels, SameOwn, SameShared, SameBreaker
<1>8. QED  BY ONLY <1>1, <1>5, <1>6, <1>7

\* prepareSpawn, executeChild and resumeOnBoot: a run has more active children
\* than the limit only by forks that return late, a record that counts as active
\* has an execution behind it, and a stored outcome is final.
THEOREM SpawnsSoundHolds == MCSpec => SpawnsSound
<1>1. MCInit => SpawnsInv
  BY SameFresh, SameThrown, SameSpawned, FreshStep, ThrownStep, SpawnedStep DEF MCInit, SpawnsInv
<1>2. SpawnsInv /\ [MCNext]_<<service, spawns, telegram, channels, retries, breaker>> => SpawnsInv'
  BY ServiceCases, FreshStep, ThrownStep, SpawnedStep DEF SpawnsInv
<1>3. SpawnsInv => /\ service = "fresh" => Fresh!TypeOK /\ Fresh!SlotsBounded /\ Fresh!CountIsRunning
                   /\ service = "spawned" => Spawned!CountIsRunning
  BY SameFresh, SameSpawned, FreshStep, SpawnedStep DEF SpawnsInv
<1>4. SpawnsInv /\ [MCNext]_<<service, spawns, telegram, channels, retries, breaker>>
        => /\ service = "thrown" => Thrown!OutcomeStays /\ Thrown!OverLimitByForks
           /\ service = "spawned" => Spawned!OverLimitByForks
  BY ServiceCases, SameThrown, SameSpawned, ThrownStep, SpawnedStep DEF SpawnsInv
<1>5. QED  BY <1>1, <1>2, <1>3, <1>4, PTL DEF MCSpec, SpawnsSound

\* commitInbound, saveOffset, shouldDeliver, recoverPending, prune and the
\* webhook: what Telegram has forgotten is in the inbox, no row ends before its
\* update was given to the handler, and a processed update is given to it again
\* only by a recovery that had listed it, with handlers that are awaited and
\* with those of the hub, which are not, through lost answers, overlapping
\* loops, stops and a crash.
THEOREM InboxKeptHolds == MCSpec => InboxKept
<1>1. MCInit => InboxInv
  BY SamePoll, SameHook, SameKept, PollStep, HookStep, KeptStep DEF MCInit, InboxInv
<1>2. InboxInv /\ [MCNext]_<<service, spawns, telegram, channels, retries, breaker>> => InboxInv'
  BY ServiceCases, PollStep, HookStep, KeptStep DEF InboxInv
<1>3. InboxInv => /\ service = "poll" => Poll!TypeOK /\ Poll!NothingForgotten /\ Poll!NeverLost
                  /\ service = "hook" => Hook!NothingForgotten /\ Hook!NeverLost
                  /\ service = "kept" => Kept!NothingForgotten /\ Kept!NeverLost
  BY SamePoll, SameHook, SameKept, PollStep, HookStep, KeptStep DEF InboxInv
<1>4. InboxInv /\ [MCNext]_<<service, spawns, telegram, channels, retries, breaker>>
        => /\ service = "poll" => Poll!Deduplicated
           /\ service = "hook" => Hook!Deduplicated
           /\ service = "kept" => Kept!Deduplicated
  BY ServiceCases, SamePoll, SameHook, SameKept, PollStep, HookStep, KeptStep DEF InboxInv
<1>5. QED  BY <1>1, <1>2, <1>3, <1>4, PTL DEF MCSpec, InboxKept

\* runHealthCheck, retryWithPolicy and the circuit breaker: one restart of a
\* channel at a time, and a connected channel is usable; permits balance on
\* every way out, no trace is left open and a settled one stays; a half-open
\* circuit waits for a probe that is under way, and failures in a row trip it.
THEOREM LinksSoundHolds == MCSpec => LinksSound
<1>1. MCInit => LinksInv
  BY SameChannels, SameOwn, SameShared, SameBreaker, ChannelsStep, OwnStep, SharedStep, BreakerStep
     DEF MCInit, LinksInv
<1>2. LinksInv /\ [MCNext]_<<service, spawns, telegram, channels, retries, breaker>> => LinksInv'
  BY ServiceCases, ChannelsStep, OwnStep, SharedStep, BreakerStep DEF LinksInv
<1>3. LinksInv => /\ service = "channels" => /\ Channels!TypeOK /\ Channels!OneRestart
                                             /\ Channels!ConnectedUsable
                  /\ service = "own" => Own!TypeOK /\ Own!CostBounded
                  /\ service = "shared" => Shared!PermitsBalanced /\ Shared!NoOpenContext
                  /\ service = "breaker" => Breaker!TypeOK /\ Breaker!ProbeAlive
  BY SameChannels, SameOwn, SameShared, SameBreaker, ChannelsStep, OwnStep, SharedStep, BreakerStep
     DEF LinksInv
<1>4. LinksInv /\ [MCNext]_<<service, spawns, telegram, channels, retries, breaker>>
        => /\ service = "shared" => Shared!SettledStays
           /\ service = "breaker" => Breaker!TripsEarned
  BY ServiceCases, SameShared, SameBreaker, SharedStep, BreakerStep DEF LinksInv
<1>5. QED  BY <1>1, <1>2, <1>3, <1>4, PTL DEF MCSpec, LinksSound
=============================================================================

------------------------------ MODULE MCGraph ------------------------------
(***************************************************************************)
(* Model checking the graph engine on small graphs: each scenario is a     *)
(* graph with the requests, failures and crashes that it is there for. The *)
(* constants of the cfg are those of the chain of satellite nodes.         *)
(***************************************************************************)
EXTENDS GraphRun

VARIABLE scenario

\* a -> b, a -> c, b -> d, c -> d; d also waits for b's success
DiamondNodes == {"a", "b", "c", "d"}
DiamondEdges == {<<"a", "b">>, <<"a", "c">>, <<"b", "d">>, <<"c", "d">>}
DiamondWhen == [e \in DiamondEdges |->
  IF e = <<"b", "d">> THEN "completed" ELSE IF e = <<"c", "d">> THEN "failed" ELSE "always"]
AllLocal == [n \in DiamondNodes |-> "local"]

\* an approval node p beside a local node l; b follows p, and c follows b
\* on failure only
GateNodes == {"p", "l", "b", "c"}
GateEdges == {<<"p", "b">>, <<"b", "c">>}
GateWhen == [e \in GateEdges |-> IF e = <<"b", "c">> THEN "failed" ELSE "always"]
GateType == [n \in GateNodes |-> IF n = "p" THEN "approval" ELSE "local"]

\* a chain of satellite nodes that ends in a local one
ChainNodes == {"r", "s", "l"}
ChainEdges == {<<"r", "s">>, <<"s", "l">>}
ChainWhen == [e \in ChainEdges |-> "always"]
ChainType == [n \in ChainNodes |-> IF n = "l" THEN "local" ELSE "remote"]

\* p is an approval node between a and b; c follows on failure only
SerialNodes == {"a", "p", "b", "c"}
SerialEdges == {<<"a", "p">>, <<"p", "b">>, <<"b", "c">>}
SerialWhen == [e \in SerialEdges |-> IF e = <<"b", "c">> THEN "failed" ELSE "always"]
SerialType == [n \in SerialNodes |-> IF n = "p" THEN "approval" ELSE "local"]

Failing == {"fail_fast", "continue_on_error"}

\* Every failure policy, paused and cancelled at any moment
Policy == INSTANCE GraphRun WITH
    Nodes <- DiamondNodes, Edges <- DiamondEdges, When <- DiamondWhen, Type <- AllLocal,
    Policies <- AllPolicies, Fallback <- "c", Requests <- {"pause", "cancel"},
    MaxOps <- 2, MaxFails <- 2, MaxBlocks <- 0
\* Pauses, resumes and cancels around a batch in flight
Control == INSTANCE GraphRun WITH
    Nodes <- DiamondNodes, Edges <- DiamondEdges, When <- DiamondWhen, Type <- AllLocal,
    Policies <- Failing, Fallback <- "c", Requests <- {"pause", "cancel", "resume"},
    MaxOps <- 3, MaxFails <- 3, MaxBlocks <- 0
\* Failed runs retried node by node
Retry == INSTANCE GraphRun WITH
    Nodes <- DiamondNodes, Edges <- DiamondEdges, When <- DiamondWhen, Type <- AllLocal,
    Policies <- Failing, Fallback <- "c", Requests <- {"cancel", "retry"},
    MaxOps <- 2, MaxFails <- 4, MaxBlocks <- 0
\* Pauses, resumes and cancels around a pending approval
Gate == INSTANCE GraphRun WITH
    Nodes <- GateNodes, Edges <- GateEdges, When <- GateWhen, Type <- GateType,
    Policies <- Failing, Fallback <- "c",
    Requests <- {"pause", "cancel", "resume", "approve"},
    MaxOps <- 5, MaxFails <- 0, MaxBlocks <- 0
\* Approvals and rejections, late ones too, with failures around the gate
Reject == INSTANCE GraphRun WITH
    Nodes <- SerialNodes, Edges <- SerialEdges, When <- SerialWhen, Type <- SerialType,
    Policies <- Failing, Fallback <- "c",
    Requests <- {"pause", "cancel", "approve", "reject"},
    MaxOps <- 3, MaxFails <- 2, MaxBlocks <- 0
\* A crash, and nobody who decides or resumes: only the sweeps
Faulty == INSTANCE GraphRun WITH
    Nodes <- GateNodes, Edges <- GateEdges, When <- GateWhen, Type <- GateType,
    Policies <- AllPolicies, Fallback <- "c",
    Requests <- {"pause", "resume", "approve", "reject", "reap", "sweepRuns", "sweepNodes"},
    MaxOps <- 2, MaxFails <- 2, MaxBlocks <- 0, MaxCrashes <- 1

MCInit ==
    \/ scenario = "chain" /\ Init
    \/ scenario = "policy" /\ Policy!Init
    \/ scenario = "control" /\ Control!Init
    \/ scenario = "retry" /\ Retry!Init
    \/ scenario = "gate" /\ Gate!Init
    \/ scenario = "reject" /\ Reject!Init
    \/ scenario = "faulty" /\ Faulty!Init

MCNext ==
    /\ \/ scenario = "chain" /\ Next
       \/ scenario = "policy" /\ Policy!Next
       \/ scenario = "control" /\ Control!Next
       \/ scenario = "retry" /\ Retry!Next
       \/ scenario = "gate" /\ Gate!Next
       \/ scenario = "reject" /\ Reject!Next
       \/ scenario = "faulty" /\ Faulty!Next
    /\ UNCHANGED scenario

\* The loop is driven by the event loop, a local node ends within its
\* timeout, the sweep job runs every 30 seconds and the run's time is finite.
\* Nothing is assumed of satellites, approvers and operators.
MCSpec ==
    /\ MCInit /\ [][MCNext]_<<vars, scenario>>
    /\ WF_vars(scenario = "faulty" /\ Faulty!LoopStep)
    /\ WF_vars(scenario = "faulty" /\ Faulty!ExecEnds)
    /\ WF_vars(scenario = "faulty" /\ Faulty!SweepTimedOutRuns)

-----------------------------------------------------------------------------
\* A node never has two live attempts, nor more than its policy and the requests
\* of callers account for; a run is completed only when all of its nodes are,
\* and none is left running with nobody to continue it.
RunsSound ==
    /\ scenario = "chain" => TypeOK /\ OneLiveAttempt /\ CompletedIsComplete /\ NoStranded
    /\ scenario = "policy" => Policy!OneLiveAttempt
    /\ scenario = "control" => /\ Control!OneLiveAttempt /\ Control!AttemptsBounded
                               /\ Control!CompletedIsComplete
    /\ scenario = "retry" => Retry!OneLiveAttempt /\ Retry!AttemptsBounded
    /\ scenario = "gate" => Gate!NoStranded

\* Nothing behind an approval node starts before its approval, and an approval
\* that was given takes effect (GateHolds, ApprovedIsApplied).
GatesHold ==
    /\ scenario = "gate" => Gate!GateHolds /\ Gate!ApprovedIsApplied
    /\ scenario = "reject" => Reject!GateHolds /\ Reject!ApprovedIsApplied

\* What has ended is not written again, nodes begin after their predecessors
\* and their retries, and nothing begins after a failure under fail_fast.
HistoryKept ==
    [][/\ (scenario = "chain") => CompletedAttemptIsFinal /\ OrderHolds
       /\ (scenario = "policy") => /\ Policy!CompletedAttemptIsFinal
                                   /\ Policy!RetriesFirst /\ Policy!FailFastStops
       /\ (scenario \in {"control", "retry", "reject"}) => TerminalIsFinal]_vars

\* Whatever crashes, stays silent or is never decided, the sweep ends the run.
RunsEnd == (scenario = "faulty") => Faulty!RunEnds
=============================================================================

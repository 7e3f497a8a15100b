---------------------------- MODULE MCSatellites ----------------------------
(***************************************************************************)
(* Model checking the satellites' side of the hub: pairing and presence    *)
(* (the constants of the cfg), and the outbox that carries their tasks.    *)
(* The two share no state, so a behaviour is one of either.                *)
(***************************************************************************)
EXTENDS SatelliteLifecycle

VARIABLES scenario, row, checkpoint, epoch, node, runner, client, deaf, left

outbox == <<row, checkpoint, epoch, node, runner, client, deaf, left>>

\* Tokens with a lifetime, and the sweeper called again and again
Swept == INSTANCE SatelliteLifecycle WITH HasTtl <- TRUE, MaxRevision <- 1, MaxVersion <- 2

\* The runner pulls in batches and crashes; requests and answers get lost, a
\* payload is malformed, leases expire, the hub restarts
Runner == INSTANCE Outbox WITH
    Keys <- {"m1", "m2", "m3"}, Malformed <- {"m1"}, MaxItems <- 2, MaxAttempts <- 2,
    Actors <- {"runner", "crash", "lostRequest", "lostResponse", "operator", "cancel"},
    MaxLeases <- 2, MaxRestarts <- 0
\* The command client acknowledges one by one and crashes
Client == INSTANCE Outbox WITH
    Keys <- {"m1", "m2"}, Malformed <- {}, MaxItems <- 2, MaxAttempts <- 2,
    Actors <- {"client", "crash", "operator", "retention", "cancel"},
    MaxLeases <- 2, MaxRestarts <- 0
\* A satellite that may do anything or nothing
Silent == INSTANCE Outbox WITH
    Keys <- {"m1", "m2"}, Malformed <- {}, MaxItems <- 2, MaxAttempts <- 2,
    Actors <- {"runner", "crash", "lostRequest", "operator", "retention", "cancel"},
    MaxLeases <- 1, MaxRestarts <- 1

ASSUME Runner!OutboxConstants /\ Client!OutboxConstants /\ Silent!OutboxConstants

MCInit ==
    /\ scenario \in {"pairing", "swept", "runner", "client", "silent"}
    /\ Init
    /\ IF scenario = "runner" THEN Runner!Init ELSE Client!Init

MCNext ==
    /\ \/ scenario = "pairing" /\ Next /\ UNCHANGED outbox
       \/ scenario = "swept" /\ Swept!Next /\ UNCHANGED outbox
       \/ scenario = "runner" /\ Runner!Next /\ UNCHANGED vars
       \/ scenario = "client" /\ Client!Next /\ UNCHANGED vars
       \/ scenario = "silent" /\ Silent!Next /\ UNCHANGED vars
    /\ UNCHANGED scenario

\* Time passes and the sweeper is called; every message has an expiry time and
\* the retention job runs every day. Nothing is assumed of satellites.
MCSpec ==
    /\ MCInit /\ [][MCNext]_<<vars, outbox, scenario>>
    /\ WF_vars(scenario = "swept" /\ Swept!Ageing)
    /\ WF_vars(scenario = "swept" /\ Swept!Sweep)
    /\ WF_outbox(scenario = "silent" /\ Silent!ExpireByTtl)
    /\ \A k \in {"m1", "m2"} : WF_outbox(scenario = "silent" /\ Silent!TtlPasses(k))

-----------------------------------------------------------------------------
\* No message is acknowledged while its task still waits for a result, unless
\* the holder of its lease gave the task up, and a message that ended is not
\* written again, whichever client loses what (NoneStranded, TerminalStays).
TasksKept ==
    /\ [](/\ (scenario = "runner") => Runner!NoneStranded
          /\ (scenario = "client") => Client!NoneStranded
          /\ (scenario = "silent") => Silent!NoneStranded)
    /\ [][/\ (scenario = "runner") => Runner!TerminalStays
          /\ (scenario = "client") => Client!TerminalStays
          /\ (scenario = "silent") => Silent!TerminalStays]_outbox

\* Tokens that a revocation ended are of no use, a usable token comes from an
\* approval, only an approval brings a revoked satellite back, and late reports
\* never replace newer capabilities.
PairingSound ==
    /\ []((scenario = "pairing") => RevokedUnusable /\ UsableApproved /\ TypeOK)
    /\ [][(scenario = "pairing") => RevokedUntilApproved /\ CapsNeverOlder]_vars

\* Time settles everything: a satellite that is gone ends offline, and every
\* message ends, whatever the satellite does.
EverythingSettles ==
    /\ (scenario = "swept") => OfflineDetected
    /\ (scenario = "silent") => Silent!Settles
=============================================================================

------------------------- MODULE SatelliteLifecycle -------------------------
(***************************************************************************)
(* The life of one satellite row of the TypeScript hub: registration, the  *)
(* operators' decisions on its pairing request, the handshake, heartbeats, *)
(* capability reports, revocation, the offline sweeper and retention.      *)
(* Every service call is one write transaction.  Operators, the satellite, *)
(* the jobs and the clock take their steps in any order.                   *)
(***************************************************************************)
EXTENDS Integers, FiniteSetsExt

CONSTANTS
  HasTtl,        \* the approval gave a token lifetime (tokenTtlMs)
  SweeperRuns,   \* somebody calls the offline sweeper
  Operators,     \* what else happens, a subset of AllOperators
  MaxRevision,   \* bound: capability reports of the satellite
  MaxVersion     \* bound: token_version

AllOperators == {"revoke", "reject", "retention"}

ASSUME SatelliteAssumption ==
  /\ HasTtl \in BOOLEAN /\ SweeperRuns \in BOOLEAN /\ Operators \subseteq AllOperators
  /\ MaxRevision \in Nat /\ MaxVersion \in Nat \ {0}

VARIABLES
  status,    \* pairing_status of the row, "none" before registration
  version,   \* token_version of the row
  seen,      \* age of last_seen_at
  request,   \* the pairing request: its status, and whether its time is over
  token,     \* the token issued by the approval
  alive,     \* the satellite runs
  failing,   \* history: the last heartbeat reported a high failure rate
  sent,      \* revisions of capability reports under way or delivered
  revision,  \* the last accepted revision, that of the stored capabilities
  ended      \* history: revoked together with the tokens, and not approved since

vars == <<status, version, seen, request, token, alive, failing, sent, revision, ended>>

Ages == {"fresh", "stale", "old"}   \* under 30 s, under 90 s, older
TypeOK ==
  /\ status \in {"none", "pending", "paired", "online", "degraded", "offline", "revoked"}
  /\ version \in 1..MaxVersion
  /\ seen \in Ages \cup {"never"}
  /\ request \in [status : {"none", "pending", "approved", "rejected", "expired", "deleted"},
                  late : BOOLEAN]
  /\ token \in [ver : 0..MaxVersion, revoked : BOOLEAN,
                expired : BOOLEAN]   \* the exp claim has passed
  /\ alive \in BOOLEAN /\ failing \in BOOLEAN
  /\ sent \subseteq 1..MaxRevision
  /\ revision \in 0..MaxRevision
  /\ ended \in BOOLEAN

NoToken == [ver |-> 0, revoked |-> FALSE, expired |-> FALSE]

\* The token validator of the API accepts the token.
Usable == token # NoToken /\ ~token.expired /\ ~token.revoked /\ token.ver >= version
\* The row of the token is found by its hash: without tokenTtlMs it has no
\* expires_at, although the token's own exp claim is 24 hours ahead.
TokenRow == token # NoToken /\ ~token.revoked /\ (HasTtl => ~token.expired)

---------------------------------------------------------------------------
(* Pairing. *)

Register ==
  /\ status = "none"
  /\ status' = "pending" /\ request' = [status |-> "pending", late |-> FALSE]
  /\ UNCHANGED <<version, seen, token, alive, failing, sent, revision, ended>>

\* The satellite's own status is not looked at.
ApprovePairing ==
  /\ request = [status |-> "pending", late |-> FALSE]
  /\ request' = [request EXCEPT !.status = "approved"]
  /\ status' = "paired"
  /\ token' = [ver |-> version, revoked |-> FALSE, expired |-> FALSE]
  /\ ended' = FALSE
  /\ UNCHANGED <<version, seen, alive, failing, sent, revision>>

RejectPairing ==
  /\ "reject" \in Operators /\ request.status = "pending"
  /\ request' = [request EXCEPT !.status = "rejected"]
  /\ UNCHANGED <<status, version, seen, token, alive, failing, sent, revision, ended>>

CompleteHandshake ==
  /\ alive /\ TokenRow /\ status # "revoked" /\ token.ver = version
  /\ request.status = "approved"
  /\ status' = "online" /\ seen' = "fresh" /\ failing' = FALSE
  /\ UNCHANGED <<version, request, token, alive, sent, revision, ended>>

\* the tokens neither revoked nor outdated
RevokeTokens_None == version < MaxVersion /\ ended' = TRUE /\ UNCHANGED <<version, token>>

RevokeTokens ==
  /\ version < MaxVersion /\ version' = version + 1
  /\ token' = IF token = NoToken THEN token ELSE [token EXCEPT !.revoked = TRUE]
  /\ ended' = TRUE

\* The caller may keep the tokens (revokeTokens: false).
RevokeSatellite ==
  /\ "revoke" \in Operators /\ status # "none"
  /\ status' = "revoked"
  /\ RevokeTokens \/ UNCHANGED <<version, token, ended>>
  /\ UNCHANGED <<seen, request, alive, failing, sent, revision>>

---------------------------------------------------------------------------
(* Health. *)

\* computeFridaySatelliteStatus
Computed(current, age, failureRate, disconnect) ==
  CASE current = "revoked" -> "revoked"
    [] current # "revoked" /\ disconnect -> "offline"
    [] current # "revoked" /\ ~disconnect /\ age = "never" -> current
    [] current # "revoked" /\ ~disconnect /\ age = "old" -> "offline"
    [] current # "revoked" /\ ~disconnect /\ (age = "stale" \/ (age = "fresh" /\ failureRate)) -> "degraded"
    [] OTHER -> "online"

\* A heartbeat arrives with the age its own timestamp has on arrival.  Neither
\* the service nor its route asks for the satellite's token or its approval:
\* the satellite has to exist.
RecordHeartbeat(age, failureRate, disconnect) ==
  /\ alive /\ status # "none"
  /\ status' = Computed(status, age, failureRate, disconnect)
  /\ seen' = "fresh" /\ failing' = failureRate
  /\ UNCHANGED <<version, request, token, alive, sent, revision, ended>>

Sweep_OnlineOnly ==
  /\ SweeperRuns /\ status = "online"
  /\ status' = Computed(status, seen, FALSE, FALSE)
  /\ UNCHANGED <<version, seen, request, token, alive, failing, sent, revision, ended>>
Sweep ==
  /\ SweeperRuns /\ status \in {"online", "degraded", "paired"}
  /\ status' = Computed(status, seen, FALSE, FALSE)
  /\ UNCHANGED <<version, seen, request, token, alive, failing, sent, revision, ended>>

---------------------------------------------------------------------------
(* Capabilities: reports are numbered, and may arrive late, twice or never. *)

SendCapabilities(r) ==
  /\ alive /\ r \notin sent /\ \A q \in sent : q < r
  /\ sent' = sent \cup {r}
  /\ UNCHANGED <<status, version, seen, request, token, alive, failing, revision, ended>>

UpdateCapabilities(r) ==
  /\ r \in sent /\ r > revision /\ status # "none"
  /\ revision' = r
  /\ UNCHANGED <<status, version, seen, request, token, alive, failing, sent, ended>>

---------------------------------------------------------------------------
(* Retention and the clock. *)

\* The retention job: pending requests whose time is over expire, and
\* resolved ones are deleted some days later.
ExpireRequests ==
  /\ "retention" \in Operators /\ request.status = "pending" /\ request.late
  /\ request' = [request EXCEPT !.status = "expired"]
  /\ UNCHANGED <<status, version, seen, token, alive, failing, sent, revision, ended>>
DeleteResolved ==
  /\ "retention" \in Operators /\ request.status \in {"approved", "rejected", "expired"}
  /\ request' = [request EXCEPT !.status = "deleted"]
  /\ UNCHANGED <<status, version, seen, token, alive, failing, sent, revision, ended>>

RequestExpires ==
  /\ request.status = "pending" /\ ~request.late
  /\ request' = [request EXCEPT !.late = TRUE]
  /\ UNCHANGED <<status, version, seen, token, alive, failing, sent, revision, ended>>
TokenExpires ==
  /\ token # NoToken /\ ~token.expired
  /\ token' = [token EXCEPT !.expired = TRUE]
  /\ UNCHANGED <<status, version, seen, request, alive, failing, sent, revision, ended>>
Ageing ==
  /\ seen \in {"fresh", "stale"}
  /\ seen' = IF seen = "fresh" THEN "stale" ELSE "old"
  /\ UNCHANGED <<status, version, request, token, alive, failing, sent, revision, ended>>
Dies ==
  /\ alive /\ alive' = FALSE
  /\ UNCHANGED <<status, version, seen, request, token, failing, sent, revision, ended>>
Restarts ==
  /\ ~alive /\ alive' = TRUE
  /\ UNCHANGED <<status, version, seen, request, token, failing, sent, revision, ended>>

---------------------------------------------------------------------------
Init ==
  /\ status = "none" /\ version = 1 /\ seen = "never"
  /\ request = [status |-> "none", late |-> FALSE]
  /\ token = NoToken /\ alive = TRUE /\ failing = FALSE
  /\ sent = {} /\ revision = 0 /\ ended = FALSE

Next ==
  \/ Register \/ ApprovePairing \/ RejectPairing \/ CompleteHandshake \/ RevokeSatellite
  \/ \E age \in Ages, failureRate, disconnect \in BOOLEAN :
       RecordHeartbeat(age, failureRate, disconnect)
  \/ Sweep
  \/ \E r \in 1..MaxRevision : SendCapabilities(r) \/ UpdateCapabilities(r)
  \/ ExpireRequests \/ DeleteResolved
  \/ RequestExpires \/ TokenExpires \/ Ageing \/ Dies \/ Restarts

Spec == Init /\ [][Next]_vars

---------------------------------------------------------------------------
(* Properties. *)

\* Once revokeSatellite has ended the tokens of a satellite, none passes the
\* API's validator until an operator approves a pairing again, whichever of
\* approval, revocation without tokens and handshake came before or come after.
RevokedUnusable == ended => ~Usable

\* A token that passes the validator comes from an approved pairing request,
\* whatever became of the satellite since.
UsableApproved == Usable => request.status \in {"approved", "deleted"}

\* Only an operator's approval brings a revoked satellite back: no heartbeat,
\* sweep or handshake does, also when the revocation left the tokens usable.
RevokedUntilApproved ==
  status = "revoked" /\ status' # "revoked" =>
    request.status = "pending" /\ request'.status = "approved"

\* A satellite is connected, or was, only after an operator approved it.
ApprovedOnly ==
  status \in {"paired", "online", "degraded", "offline"} => token # NoToken

\* The stored capabilities are those of the newest report that the hub has
\* accepted: a late or repeated one never replaces them.
CapsNeverOlder == revision' >= revision

\* A satellite that is gone for good does not stay online or degraded.
OfflineDetected == <>[](~alive) => <>[](status \notin {"online", "degraded"})

\* "Revoked is terminal": no operation brings a revoked satellite back.
RevokedStays == [][(status = "revoked") => (status' = "revoked")]_vars

\* "Validate token (with expiry check)": a handshake takes no token that
\* has expired.
HandshakeTokenFresh == [][CompleteHandshake => ~token.expired]_vars

\* A paired satellite that restarts with a token the hub accepts can shake
\* hands again; retention only "cleans stale pairing requests".
PairedCanConnect ==
  (Usable /\ status \in {"paired", "online", "degraded", "offline"}) => request.status = "approved"

\* "high failure rate -> degraded": only a heartbeat or a handshake says
\* that a degraded satellite is well again.
DegradedStays ==
  [][(status = "degraded" /\ failing /\ failing') => status' # "online"]_vars
====

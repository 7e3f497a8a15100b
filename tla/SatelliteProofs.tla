-------------------------- MODULE SatelliteProofs --------------------------
(***************************************************************************)
(* Proofs about the life of a satellite row, for every value of the        *)
(* constants: the pairing and presence scenario of MCSatellites.           *)
(***************************************************************************)
EXTENDS MCSatellites, TLAPS

USE SatelliteAssumption

(* A token that a revocation ended is marked revoked, or there was none: what *)
(* keeps it unusable is not the version alone.                                *)
EndedTokens == ended => token = NoToken \/ token.revoked
(* A token was issued with the approval of the request, which only retention  *)
(* takes away.                                                                *)
TokenApproved ==
    token # NoToken => request.status \in {"approved", "deleted"} /\ status # "none"

PairingInv == TypeOK /\ EndedTokens /\ TokenApproved

(* The status of a heartbeat or of a sweep is a status of a known satellite. *)
LEMMA ComputedStatus ==
    ASSUME NEW current \in {"pending", "paired", "online", "degraded", "offline", "revoked"},
           NEW age \in Ages \cup {"never"}, NEW failureRate \in BOOLEAN, NEW disconnect \in BOOLEAN
    PROVE  /\ Computed(current, age, failureRate, disconnect)
                \in {"pending", "paired", "online", "degraded", "offline", "revoked"}
           /\ Computed(current, age, failureRate, disconnect) = "revoked" <=> current = "revoked"
  BY DEF Computed, Ages

(* The initial state satisfies the invariant. *)
LEMMA PairingInit == Init => PairingInv
<1> SUFFICES ASSUME Init PROVE PairingInv
  OBVIOUS
<1>1. TypeOK
  <2>1. version \in 1..MaxVersion /\ 0 \in 0..MaxVersion /\ 0 \in 0..MaxRevision
    BY DEF Init
  <2>2. QED  BY <2>1 DEF Init, TypeOK, NoToken
<1>2. EndedTokens /\ TokenApproved
  BY DEF Init, EndedTokens, TokenApproved
<1>3. QED  BY <1>1, <1>2 DEF PairingInv

(* Every step of a service, the satellite or the clock preserves it. *)
LEMMA PairingStep ==
    ASSUME PairingInv, [Next]_vars
    PROVE  PairingInv'
<1> USE DEF PairingInv, TypeOK, EndedTokens, TokenApproved
<1>1. CASE Register
  BY <1>1 DEF Register
<1>2. CASE ApprovePairing
  <2>1. token' \in [ver : 0..MaxVersion, revoked : BOOLEAN, expired : BOOLEAN] /\ token'.ver # 0
    BY <1>2 DEF ApprovePairing, NoToken
  <2>2. request' \in [status : {"none", "pending", "approved", "rejected", "expired", "deleted"},
                      late : BOOLEAN]
        /\ request'.status = "approved"
    BY <1>2 DEF ApprovePairing
  <2>3. /\ status' = "paired" /\ ended' = FALSE
        /\ UNCHANGED <<version, seen, alive, failing, sent, revision>>
    BY <1>2 DEF ApprovePairing
  <2>4. QED  BY <2>1, <2>2, <2>3 DEF NoToken
<1>3. CASE RejectPairing
  BY <1>3 DEF RejectPairing
<1>4. CASE CompleteHandshake
  BY <1>4 DEF CompleteHandshake, TokenRow, Ages
<1>5. CASE RevokeSatellite
  <2>1. /\ status # "none" /\ status' = "revoked"
        /\ UNCHANGED <<seen, request, alive, failing, sent, revision>>
    BY <1>5 DEF RevokeSatellite
  <2>2. CASE UNCHANGED <<version, token, ended>>
    BY <2>1, <2>2
  <2>3. CASE RevokeTokens
    <3>1. token' \in [ver : 0..MaxVersion, revoked : BOOLEAN, expired : BOOLEAN]
          /\ (token' = NoToken \/ token'.revoked) /\ (token' # NoToken => token # NoToken)
      BY <2>3 DEF RevokeTokens, NoToken
    <3>2. version' \in 1..MaxVersion /\ ended' = TRUE
      BY <2>3 DEF RevokeTokens
    <3>3. QED  BY <2>1, <3>1, <3>2
  <2>4. QED  BY <1>5, <2>2, <2>3 DEF RevokeSatellite
<1>6. ASSUME NEW age \in Ages, NEW failureRate \in BOOLEAN, NEW disconnect \in BOOLEAN,
             RecordHeartbeat(age, failureRate, disconnect)
      PROVE  PairingInv'
  <2>1. /\ status \in {"pending", "paired", "online", "degraded", "offline", "revoked"}
        /\ age \in Ages \cup {"never"} /\ seen' = "fresh"
        /\ status' = Computed(status, age, failureRate, disconnect) /\ failing' \in BOOLEAN
        /\ UNCHANGED <<version, request, token, alive, sent, revision, ended>>
    BY <1>6 DEF RecordHeartbeat
  <2>2. /\ status' \in {"pending", "paired", "online", "degraded", "offline", "revoked"}
        /\ status' = "revoked" => status = "revoked"
    BY <2>1, ComputedStatus
  <2>3. QED  BY <2>1, <2>2 DEF Ages
<1>7. CASE Sweep
  <2>1. /\ status \in {"online", "degraded", "paired"}
        /\ status' = Computed(status, seen, FALSE, FALSE)
        /\ UNCHANGED <<version, seen, request, token, alive, failing, sent, revision, ended>>
    BY <1>7 DEF Sweep
  <2>2. /\ status' \in {"pending", "paired", "online", "degraded", "offline", "revoked"}
        /\ status' # "revoked"
    BY <2>1, ComputedStatus
  <2>3. TypeOK'
    BY <2>1, <2>2
  <2>4. EndedTokens' /\ TokenApproved'
    BY <2>1, <2>2
  <2>5. QED  BY <2>3, <2>4
<1>8. ASSUME NEW r \in 1..MaxRevision, SendCapabilities(r) \/ UpdateCapabilities(r)
      PROVE  PairingInv'
  <2>1. sent' \subseteq 1..MaxRevision
    BY <1>8 DEF SendCapabilities, UpdateCapabilities
  <2>2. revision' \in 0..MaxRevision
    <3>1. r \in 0..MaxRevision
      OBVIOUS
    <3>2. revision' = revision \/ revision' = r
      BY <1>8 DEF SendCapabilities, UpdateCapabilities
    <3>3. QED  BY <3>1, <3>2
  <2>3. UNCHANGED <<status, version, seen, request, token, alive, failing, ended>>
    BY <1>8 DEF SendCapabilities, UpdateCapabilities
  <2>4. QED  BY <2>1, <2>2, <2>3
<1>9. CASE ExpireRequests \/ DeleteResolved \/ RequestExpires
  <2>1. request' \in [status : {"none", "pending", "approved", "rejected", "expired", "deleted"},
                      late : BOOLEAN]
        /\ (request.status \in {"approved", "deleted"} => request'.status \in {"approved", "deleted"})
    BY <1>9 DEF ExpireRequests, DeleteResolved, RequestExpires
  <2>2. UNCHANGED <<status, version, seen, token, alive, failing, sent, revision, ended>>
    BY <1>9 DEF ExpireRequests, DeleteResolved, RequestExpires
  <2>3. QED  BY <2>1, <2>2
<1>10. CASE TokenExpires
  BY <1>10 DEF TokenExpires, NoToken
<1>11. CASE Ageing \/ Dies \/ Restarts
  <2>1. seen' \in Ages \cup {"never"} /\ alive' \in BOOLEAN
    BY <1>11 DEF Ageing, Dies, Restarts, Ages
  <2>2. UNCHANGED <<status, version, request, token, failing, sent, revision, ended>>
    BY <1>11 DEF Ageing, Dies, Restarts
  <2>3. TypeOK'
    BY <2>1, <2>2
  <2>4. EndedTokens' /\ TokenApproved'
    BY <2>2
  <2>5. QED  BY <2>3, <2>4
<1>12. CASE UNCHANGED vars
  BY <1>12 DEF vars
<1>13. QED
  BY <1>1, <1>2, <1>3, <1>4, <1>5, <1>6, <1>7, <1>8, <1>9, <1>10, <1>11, <1>12 DEF Next

(* A revoked satellite comes back by an approval or not at all: heartbeat and *)
(* sweep compute "revoked" again, a handshake is refused.                     *)
LEMMA RevokedStep ==
    ASSUME TypeOK, [Next]_vars
    PROVE  RevokedUntilApproved
<1> SUFFICES ASSUME status = "revoked", status' # "revoked"
             PROVE  request.status = "pending" /\ request'.status = "approved"
  BY DEF RevokedUntilApproved
<1>1. CASE ApprovePairing
  BY <1>1 DEF ApprovePairing, TypeOK
<1>2. ASSUME NEW age \in Ages, NEW failureRate \in BOOLEAN, NEW disconnect \in BOOLEAN,
             RecordHeartbeat(age, failureRate, disconnect)
      PROVE  FALSE
  BY <1>2, ComputedStatus DEF RecordHeartbeat
<1>3. ASSUME ~ApprovePairing,
             ~\E age \in Ages, failureRate, disconnect \in BOOLEAN :
                RecordHeartbeat(age, failureRate, disconnect)
      PROVE  FALSE
  BY <1>3 DEF Next, vars, Register, RejectPairing, CompleteHandshake, RevokeSatellite, Sweep,
       SendCapabilities, UpdateCapabilities, ExpireRequests, DeleteResolved, RequestExpires,
       TokenExpires, Ageing, Dies, Restarts
<1>4. QED  BY <1>1, <1>2, <1>3

(* Only updateCapabilities changes the stored revision, to a larger one. *)
LEMMA CapsStep ==
    ASSUME TypeOK, [Next]_vars
    PROVE  CapsNeverOlder
<1>1. revision \in Int /\ (revision' = revision => CapsNeverOlder)
  BY DEF TypeOK, CapsNeverOlder
<1>2. ASSUME NEW r \in 1..MaxRevision, SendCapabilities(r) \/ UpdateCapabilities(r)
      PROVE  CapsNeverOlder
  BY <1>1, <1>2 DEF SendCapabilities, UpdateCapabilities, CapsNeverOlder
<1>3. CASE ~\E r \in 1..MaxRevision : SendCapabilities(r) \/ UpdateCapabilities(r)
  <2>1. revision' = revision
    BY <1>3 DEF Next, vars, Register, ApprovePairing, RejectPairing, CompleteHandshake,
         RevokeSatellite, RecordHeartbeat, Sweep, ExpireRequests, DeleteResolved,
         RequestExpires, TokenExpires, Ageing, Dies, Restarts
  <2>2. QED  BY <1>1, <2>1
<1>4. QED  BY <1>2, <1>3

(* satellite services: whatever operators, the satellite, retention and the  *)
(* clock do in whatever order, a token that a revocation ended never passes  *)
(* the validator again, a token that passes it comes from an approval, only  *)
(* an approval brings a revoked satellite back, and a late or repeated       *)
(* capability report never replaces a newer one.                             *)
THEOREM PairingSoundHolds == MCSpec => PairingSound
<1> DEFINE Inv == scenario = "pairing" => PairingInv
           Step == [MCNext]_<<vars, outbox, scenario>>
<1>1. MCInit => Inv
  BY PairingInit DEF MCInit
<1>2. Inv /\ Step => Inv'
  <2> SUFFICES ASSUME Inv, Step, scenario' = "pairing" PROVE PairingInv'
    OBVIOUS
  <2>1. scenario = "pairing" /\ [Next]_vars
    BY DEF MCNext
  <2>2. QED  BY <2>1, PairingStep
<1>3. Inv => (scenario = "pairing" => RevokedUnusable /\ UsableApproved /\ TypeOK)
  BY DEF PairingInv, EndedTokens, TokenApproved, RevokedUnusable, UsableApproved, Usable
<1>4. Inv /\ Step => [(scenario = "pairing") => RevokedUntilApproved /\ CapsNeverOlder]_vars
  <2> SUFFICES ASSUME Inv, Step, scenario = "pairing" PROVE [RevokedUntilApproved /\ CapsNeverOlder]_vars
    OBVIOUS
  <2>1. [Next]_vars
    BY DEF MCNext
  <2>2. QED  BY <2>1, CapsStep, RevokedStep DEF PairingInv
<1>5. QED  BY <1>1, <1>2, <1>3, <1>4, PTL DEF MCSpec, PairingSound
=============================================================================

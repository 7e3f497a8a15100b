--------------------------- MODULE CircuitBreaker ---------------------------
(***************************************************************************)
(* The circuit breaker of the TypeScript retry engine for one target, with *)
(* concurrent requests: a request asks isAllowed, runs, and reports its    *)
(* outcome, perhaps long after the breaker has changed its state.  Every   *)
(* operation first turns an open circuit whose reset timeout has elapsed   *)
(* into a half-open one.                                                   *)
(***************************************************************************)
EXTENDS Integers, FiniteSets

CONSTANTS
  Requests,                  \* concurrent requests, each asking again when done
  FailureThreshold,          \* failureThreshold
  HalfOpenSuccessThreshold,  \* halfOpenSuccessThreshold
  MaxTrips                   \* bound: trips of the circuit

BreakerConstants ==
  /\ IsFiniteSet(Requests)
  /\ FailureThreshold \in Nat \ {0} /\ HalfOpenSuccessThreshold \in Nat \ {0}
  /\ MaxTrips \in Nat

VARIABLES
  entry,    \* the breaker's entry for the target
  elapsed,  \* resetTimeoutMs have passed since lastOpenedAt
  request,  \* what each request was admitted as: a member of Roles
  failures  \* history: failures reported since the last reported success

vars == <<entry, elapsed, request, failures>>

Roles == {"none", "normal", "probe"}
TypeOK ==
  /\ entry \in [state : {"closed", "open", "half_open"},
                consecutiveFailures : 0..FailureThreshold,
                halfOpenSuccesses : 0..(HalfOpenSuccessThreshold - 1),
                halfOpenProbeInFlight : BOOLEAN,
                totalTrips : 0..MaxTrips]
  /\ elapsed \in BOOLEAN
  /\ request \in [Requests -> Roles]
  /\ failures \in Nat

NewEntry == [state |-> "closed", consecutiveFailures |-> 0, halfOpenSuccesses |-> 0,
             halfOpenProbeInFlight |-> FALSE, totalTrips |-> 0]

\* maybeTransitionToHalfOpen
Refreshed_Never == entry
Refreshed ==
  IF entry.state = "open" /\ elapsed
    THEN [entry EXCEPT !.state = "half_open", !.halfOpenSuccesses = 0,
                       !.halfOpenProbeInFlight = FALSE]
    ELSE entry

---------------------------------------------------------------------------
(* Operations. *)

IsAllowed(r) ==
  LET e == Refreshed
      admitted == e.state # "open" /\ ~(e.state = "half_open" /\ e.halfOpenProbeInFlight)
  IN /\ request[r] = "none"
     /\ entry' = IF e.state = "half_open" THEN [e EXCEPT !.halfOpenProbeInFlight = TRUE] ELSE e
     /\ request' = [request EXCEPT ![r] =
          IF ~admitted THEN "none" ELSE IF e.state = "half_open" THEN "probe" ELSE "normal"]
     /\ UNCHANGED <<elapsed, failures>>

\* An outcome, of whichever request, counts in the state it meets.
RecordSuccess_Sticky(r) ==
  LET e == Refreshed
      closes == e.halfOpenSuccesses + 1 >= HalfOpenSuccessThreshold
  IN /\ request[r] # "none"
     /\ request' = [request EXCEPT ![r] = "none"]
     /\ entry' = CASE e.state = "half_open" /\ closes ->
                        [e EXCEPT !.state = "closed", !.consecutiveFailures = 0,
                                  !.halfOpenSuccesses = 0, !.halfOpenProbeInFlight = FALSE]
                   [] e.state = "half_open" /\ ~closes ->
                        [e EXCEPT !.halfOpenSuccesses = @ + 1]
                   [] OTHER -> e
     /\ failures' = 0
     /\ UNCHANGED elapsed
RecordSuccess(r) ==
  LET e == Refreshed
      closes == e.halfOpenSuccesses + 1 >= HalfOpenSuccessThreshold
  IN /\ request[r] # "none"
     /\ request' = [request EXCEPT ![r] = "none"]
     /\ entry' = CASE e.state = "closed" -> [e EXCEPT !.consecutiveFailures = 0]
                   [] e.state = "half_open" /\ closes ->
                        [e EXCEPT !.state = "closed", !.consecutiveFailures = 0,
                                  !.halfOpenSuccesses = 0, !.halfOpenProbeInFlight = FALSE]
                   [] e.state = "half_open" /\ ~closes ->
                        [e EXCEPT !.halfOpenProbeInFlight = FALSE, !.halfOpenSuccesses = @ + 1]
                   [] e.state = "open" -> e
     /\ failures' = 0
     /\ UNCHANGED elapsed

\* The circuit opens at the threshold, and at once when it is half open.
Tripped(e) == [e EXCEPT !.state = "open", !.totalTrips = @ + 1]
RecordFailure(r) ==
  LET e == Refreshed
      f == e.consecutiveFailures + 1
      opens == e.state = "half_open" \/ (e.state = "closed" /\ f >= FailureThreshold)
  IN /\ request[r] # "none"
     /\ opens => e.totalTrips < MaxTrips
     /\ request' = [request EXCEPT ![r] = "none"]
     /\ entry' = CASE e.state = "closed" ->
                        IF opens THEN Tripped([e EXCEPT !.consecutiveFailures = f])
                                 ELSE [e EXCEPT !.consecutiveFailures = f]
                   [] e.state = "half_open" ->
                        Tripped([e EXCEPT !.halfOpenSuccesses = 0, !.halfOpenProbeInFlight = FALSE])
                   [] e.state = "open" -> e
     /\ elapsed' = (elapsed /\ ~opens)
     /\ failures' = failures + 1

\* A read refreshes the entry as well.
GetSnapshot ==
  /\ entry' = Refreshed
  /\ UNCHANGED <<elapsed, request, failures>>

\* reset and resetAll forget the entry; requests under way are not told.
Reset ==
  /\ entry' = NewEntry /\ elapsed' = FALSE
  /\ failures' = 0
  /\ UNCHANGED request

\* The clock.
TimeoutElapses ==
  /\ entry.state = "open" /\ ~elapsed
  /\ elapsed' = TRUE
  /\ UNCHANGED <<entry, request, failures>>

---------------------------------------------------------------------------
Init ==
  /\ entry = NewEntry /\ elapsed = FALSE
  /\ request = [r \in Requests |-> "none"]
  /\ failures = 0

Report(r) == RecordSuccess(r) \/ RecordFailure(r)
Next ==
  \/ \E r \in Requests : IsAllowed(r) \/ Report(r)
  \/ GetSnapshot \/ Reset \/ TimeoutElapses

Spec == Init /\ [][Next]_vars

\* Time passes, requests report their outcome, and callers ask again.
Fairness ==
  /\ WF_vars(TimeoutElapses)
  /\ \A r \in Requests : WF_vars(IsAllowed(r)) /\ WF_vars(Report(r))

---------------------------------------------------------------------------
(* Properties. *)

\* A half-open circuit that turns requests away waits for the outcome of a
\* request that is still under way.  Without one, nothing would ever clear
\* halfOpenProbeInFlight and every request would be rejected for good.
ProbeAlive ==
  (entry.state = "half_open" /\ entry.halfOpenProbeInFlight)
    => \E r \in Requests : request[r] = "probe"

\* A closed circuit opens only after that many failures with no success
\* between them, however late the outcomes arrive ("Number of consecutive
\* failures to trip the circuit").
TripsEarned ==
  (entry.state = "closed" /\ entry'.state = "open") => failures' >= FailureThreshold

\* An open circuit lets a request through again.
Reopens == (entry.state = "open") ~> (entry.state = "closed" \/ \E r \in Requests : request[r] = "probe")

\* What the header says of the half-open state: "A single probe request is
\* allowed through to test recovery."
SingleProbe == Cardinality({r \in Requests : request[r] = "probe"}) <= 1
====

----------------------------- MODULE RetryLoop -----------------------------
(***************************************************************************)
(* retryWithPolicy of the TypeScript retry engine, called concurrently:    *)
(* the loop around the caller's function, the decision of the strategy     *)
(* engine, the context the tracker keeps for every (run, node) pair, and   *)
(* the retry budget, a token bucket with a cap on concurrent retries.      *)
(* JavaScript runs a call from one await to the next without interruption: *)
(* the awaits are the caller's function and the sleep before a retry.      *)
(* Every attempt costs one unit.                                           *)
(***************************************************************************)
EXTENDS Integers, FiniteSets

CONSTANTS
  Calls,                 \* calls of retryWithPolicy
  Keys,                  \* (run, node) pairs
  KeyOf,                 \* the key of a call
  MaxAttempts,           \* maxAttempts of the retryable category's strategy
  EscalateOnExhaustion,  \* escalateOnExhaustion of that strategy
  MaxExecutionAttempts,  \* the safety limit of the loop
  CostBudget,            \* the total cost budget
  HasBudget,             \* a retry budget is configured
  MaxTokens,             \* burst capacity of the bucket
  MaxConcurrent          \* cap on concurrent retries

RetryConstants ==
  /\ IsFiniteSet(Calls) /\ KeyOf \in [Calls -> Keys]
  /\ MaxAttempts \in Nat /\ MaxExecutionAttempts \in Nat \ {0}
  /\ CostBudget \in Nat /\ MaxTokens \in Nat /\ MaxConcurrent \in Nat
  /\ EscalateOnExhaustion \in BOOLEAN /\ HasBudget \in BOOLEAN

VARIABLES
  call,           \* the calls
  context,        \* the tracker's contexts
  tokens,         \* tokens in the bucket
  activeRetries   \* permits handed out

vars == <<call, context, tokens, activeRetries>>

Ended == {"returned", "gaveUp", "invalid"}
Call == [pc : {"idle", "running", "sleeping"} \cup Ended,
         attempt : Nat,
         permit : BOOLEAN,   \* acquiredBudgetPermit
         failed : BOOLEAN,   \* lastFailure and lastDecision are set
         good : BOOLEAN]     \* history: the last attempt succeeded
NoContext == [status |-> "none", cost |-> 0]
Fresh == [status |-> "in_progress", cost |-> 0]
Terminal == {"resolved", "exhausted", "escalated"}

TypeOK ==
  /\ call \in [Calls -> Call]
  /\ context \in [Keys -> [status : {"none", "in_progress"} \cup Terminal, cost : Nat]]
  /\ tokens \in 0..MaxTokens
  /\ activeRetries \in Nat

---------------------------------------------------------------------------
(* Decisions. *)

WithinBudget(cost) == cost <= CostBudget

\* What buildRetryDecision answers for a failure of a category on an attempt,
\* given the cost accumulated before it, and the status a refusal leaves.
Decision(category, attempt, accumulated) ==
  CASE category = "fatal" -> "escalated"
    [] category = "retryable" /\ attempt >= MaxAttempts ->
         IF EscalateOnExhaustion THEN "escalated" ELSE "exhausted"
    [] category = "retryable" /\ attempt < MaxAttempts /\ ~WithinBudget(accumulated + 1) -> "exhausted"
    [] OTHER -> "retry"

Holders == {c \in Calls : call[c].permit}
Freed(c) == IF call[c].permit THEN activeRetries - 1 ELSE activeRetries

---------------------------------------------------------------------------
(* Steps of a call. *)

Start(c) ==
  /\ call[c].pc = "idle"
  /\ call' = [call EXCEPT ![c].pc = "running", ![c].attempt = 1]
  /\ UNCHANGED <<context, tokens, activeRetries>>

\* The call ends; the finally block gives its permit back.
End(c, how) ==
  /\ call' = [call EXCEPT ![c].pc = how, ![c].permit = FALSE]
  /\ activeRetries' = Freed(c)

\* The function resolves.  After a failed attempt the success is recorded,
\* which the tracker refuses in a context that another call has ended: the
\* refusal is caught like a failure of the function, and refused again.
FnSucceeds(c) ==
  /\ call[c].pc = "running"
  /\ LET k == KeyOf[c]
         refused == call[c].failed /\ context[k].status # "in_progress"
     IN /\ call' = [call EXCEPT ![c].pc = IF refused THEN "invalid" ELSE "returned",
                                ![c].permit = FALSE, ![c].good = TRUE]
        /\ activeRetries' = Freed(c)
        /\ context' = IF call[c].failed /\ ~refused
                        THEN [context EXCEPT ![k] = [status |-> "resolved", cost |-> @.cost + 1]]
                        ELSE context
  /\ UNCHANGED tokens

\* The function rejects: the failure is recorded, and the loop gives up or
\* sleeps.  A context that is already terminal accepts no attempt.
FnFails_Leaky(c, category) ==
  /\ call[c].pc = "running"
  /\ LET k == KeyOf[c]
         ctx == IF context[k] = NoContext THEN Fresh ELSE context[k]
         decision == Decision(category, call[c].attempt, ctx.cost)
         cost == ctx.cost + 1
     IN IF ctx.status \in Terminal
          THEN End(c, "invalid") /\ UNCHANGED context
          ELSE IF decision = "retry" /\ WithinBudget(cost + 1)
          THEN /\ call' = [call EXCEPT ![c].pc = "sleeping", ![c].failed = TRUE]
               /\ context' = [context EXCEPT ![k] = [ctx EXCEPT !.cost = cost]]
               /\ UNCHANGED activeRetries
          ELSE /\ call' = [call EXCEPT ![c].pc = "gaveUp", ![c].permit = FALSE]
               /\ UNCHANGED activeRetries
               /\ context' = [context EXCEPT ![k] =
                    [status |-> IF decision = "retry" THEN "exhausted" ELSE decision, cost |-> cost]]
  /\ UNCHANGED tokens
FnFails(c, category) ==
  /\ call[c].pc = "running"
  /\ LET k == KeyOf[c]
         ctx == IF context[k] = NoContext THEN Fresh ELSE context[k]
         decision == Decision(category, call[c].attempt, ctx.cost)
         cost == ctx.cost + 1
     IN IF ctx.status \in Terminal
          THEN End(c, "invalid") /\ UNCHANGED context
          ELSE IF decision = "retry" /\ WithinBudget(cost + 1)
          THEN /\ call' = [call EXCEPT ![c].pc = "sleeping", ![c].failed = TRUE]
               /\ context' = [context EXCEPT ![k] = [ctx EXCEPT !.cost = cost]]
               /\ UNCHANGED activeRetries
          ELSE /\ End(c, "gaveUp")
               /\ context' = [context EXCEPT ![k] =
                    [status |-> IF decision = "retry" THEN "exhausted" ELSE decision, cost |-> cost]]
  /\ UNCHANGED tokens

\* markExhausted: a terminal context refuses it and the call throws that.
GiveUp(c) ==
  IF context[KeyOf[c]].status = "in_progress"
    THEN End(c, "gaveUp") /\ context' = [context EXCEPT ![KeyOf[c]].status = "exhausted"]
    ELSE End(c, "invalid") /\ UNCHANGED context

\* The sleep is over: the permit of the last attempt is given back, and the
\* loop leaves at its safety limit or asks the budget for the next attempt.
SafetyLimit(c) ==
  /\ call[c].pc = "sleeping" /\ call[c].attempt >= MaxExecutionAttempts
  /\ End(c, "gaveUp")
  /\ context' = [context EXCEPT ![KeyOf[c]].status = IF @ = "in_progress" THEN "exhausted" ELSE @]
  /\ UNCHANGED tokens
Denied(c) ==
  /\ call[c].pc = "sleeping" /\ call[c].attempt < MaxExecutionAttempts
  /\ HasBudget /\ (tokens < 1 \/ Freed(c) >= MaxConcurrent)
  /\ GiveUp(c)
  /\ UNCHANGED tokens
Retry(c) ==
  /\ call[c].pc = "sleeping" /\ call[c].attempt < MaxExecutionAttempts
  /\ HasBudget => (tokens >= 1 /\ Freed(c) < MaxConcurrent)
  /\ call' = [call EXCEPT ![c].pc = "running", ![c].attempt = @ + 1, ![c].permit = HasBudget]
  /\ tokens' = IF HasBudget THEN tokens - 1 ELSE tokens
  /\ activeRetries' = IF HasBudget THEN Freed(c) + 1 ELSE activeRetries
  /\ UNCHANGED context

\* Time refills the bucket.
Refill ==
  /\ tokens < MaxTokens /\ tokens' = tokens + 1
  /\ UNCHANGED <<call, context, activeRetries>>

---------------------------------------------------------------------------
Init ==
  /\ call = [c \in Calls |-> [pc |-> "idle", attempt |-> 0, permit |-> FALSE,
                              failed |-> FALSE, good |-> FALSE]]
  /\ context = [k \in Keys |-> NoContext]
  /\ tokens = MaxTokens /\ activeRetries = 0

FnSettles(c) == FnSucceeds(c) \/ \E category \in {"retryable", "fatal"} : FnFails(c, category)
WakeUp(c) == SafetyLimit(c) \/ Denied(c) \/ Retry(c)

Next ==
  \/ \E c \in Calls : Start(c) \/ FnSettles(c) \/ WakeUp(c)
  \/ Refill

Spec == Init /\ [][Next]_vars

\* Timers fire, and the caller's function settles (it has its own timeout).
Fairness == \A c \in Calls : WF_vars(FnSettles(c)) /\ WF_vars(WakeUp(c))

---------------------------------------------------------------------------
(* Properties. *)

\* The budget counts exactly the permits that calls still hold, and never
\* more than the cap: acquire and the finally block around every exit of
\* the loop (result, refusal, error of the tracker) stay in balance.
PermitsBalanced ==
  /\ activeRetries = Cardinality(Holders)
  /\ HasBudget => activeRetries <= MaxConcurrent

\* When no call is under way, no context is left in progress: each way out
\* of the loop settles the trace (recordAttempt, markExhausted,
\* markEscalated), also when calls share a key.
NoOpenContext ==
  (\A c \in Calls : call[c].pc \in Ended \cup {"idle"})
    => \A k \in Keys : context[k].status # "in_progress"

\* The attempts recorded for a (run, node) pair stay within the cost budget;
\* only the first attempt is made without asking ("Check cumulative budget
\* including the current attempt projection").
CostBounded ==
  \A k \in Keys : context[k].cost <= CostBudget \/ context[k].cost <= 1

\* What the doc of retryWithPolicy promises: the function's result when it
\* succeeded.
ResultReturned == \A c \in Calls : call[c].good => call[c].pc = "returned"

\* And RetryOrchestrationError when retries cannot continue, never the
\* tracker's complaint about a terminal context.
DocumentedError == \A c \in Calls : call[c].pc # "invalid"

\* The concurrency cap is about retries that run: a call that sleeps before
\* its next attempt has completed a retry and holds no permit.
InFlightOnly == \A c \in Holders : call[c].pc = "running"

\* A settled context stays as it is: no attempt is added and no status
\* replaced, whatever the other calls of its key do.
SettledStays ==
  \A k \in Keys : (context[k].status \in Terminal) => context'[k] = context[k]

\* Every call that starts ends: it neither retries for ever nor waits for a
\* permit.
CallsEnd == <>[](\A c \in Calls : call[c].pc \in Ended \cup {"idle"})
====

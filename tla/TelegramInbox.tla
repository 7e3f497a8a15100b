--------------------------- MODULE TelegramInbox ---------------------------
(***************************************************************************)
(* The durable Telegram inbox: updates that Telegram holds, the poll loop  *)
(* or the webhook that commits them to telegram_inbox before it advances   *)
(* the cursor or answers 200, the handler, recovery after a restart, and   *)
(* retention.  Loops, handlers and the process stop at any point.          *)
(* (channels/telegram/telegram-service.ts, telegram-inbox-store.ts)        *)
(***************************************************************************)
EXTENDS Integers, FiniteSets

CONSTANTS
    N,              \* update ids 1..N
    Loops,          \* bound: poll loops that are alive at one time; startPolling starts
                    \* one more whatever became of those that stopPolling left behind
    Mode,           \* "polling" or "webhook"
    Awaited,        \* TRUE: the handler returns its promise; FALSE: it returns
                    \* at once and its work goes on, as the hub's handler does
    HandlerThrows,  \* whether a call of the handler may fail
    MaxStarts,      \* bound: starts of the channel
    MaxCrashes,     \* bound: crashes of the process
    MaxFaults       \* bound: failed fetches and failed commits

TelegramConstants ==
    /\ N \in Nat /\ MaxStarts \in Nat /\ MaxCrashes \in Nat /\ MaxFaults \in Nat
    /\ Mode \in {"polling", "webhook"}
    /\ Awaited \in BOOLEAN /\ HandlerThrows \in BOOLEAN

Updates == 1..N

VARIABLES
    sent,       \* Telegram: the newest update
    acked,      \* Telegram: updates below acked (polling) or in acked (webhook) are forgotten
    row,        \* row[u]: status of the inbox row
    cursor,     \* telegram_poll_cursor.next_offset
    on,         \* polling / listening
    gen,        \* the current abort controller
    loop,       \* loop[l]: a poll loop
    hook,       \* the webhook request that the process is in, if any
    calls,      \* calls[u]: how often the handler was called
    work,       \* updates whose handler is at work
    done,       \* updates whose handler has finished
    starts, crashes, faults

vars == <<sent, acked, row, cursor, on, gen, loop, hook, calls, work, done,
          starts, crashes, faults>>

Idle == [at |-> "off", todo |-> {}, u |-> 0, offset |-> 0, gen |-> 0]
NoHook == [u |-> 0, at |-> "none"]

TypeOK ==
    /\ sent \in 0..N
    /\ acked \subseteq Updates
    /\ row \in [Updates -> {"none", "pending", "unknown", "processed", "pruned"}]
    /\ cursor \in 0..(N + 1)
    /\ on \in BOOLEAN
    /\ gen \in 0..MaxStarts
    /\ loop \in [Loops -> [at : {"off", "recover", "recovering", "fetch", "batch",
                                 "delivering", "sleep"},
                           todo : SUBSET Updates, u : 0..N,
                           offset : 0..(N + 1), gen : 0..MaxStarts]]
    /\ \A l \in Loops : loop[l].u # 0 <=> loop[l].at \in {"delivering", "recovering"}
    /\ hook \in [u : 0..N, at : {"none", "committed", "handled"}]
    /\ hook.u # 0 <=> hook.at # "none"
    /\ calls \in [Updates -> Nat]
    /\ work \subseteq Updates /\ done \subseteq Updates
    /\ starts \in 0..MaxStarts /\ crashes \in 0..MaxCrashes /\ faults \in 0..MaxFaults

Init ==
    /\ sent = 0 /\ acked = {}
    /\ row = [u \in Updates |-> "none"] /\ cursor = 0
    /\ on = FALSE /\ gen = 0
    /\ loop = [l \in Loops |-> Idle] /\ hook = NoHook
    /\ calls = [u \in Updates |-> 0] /\ work = {} /\ done = {}
    /\ starts = 0 /\ crashes = 0 /\ faults = 0

Least(S) == CHOOSE u \in S : \A v \in S : u <= v

-----------------------------------------------------------------------------
(* The inbox store                                                         *)

\* commitInbound: INSERT ... ON CONFLICT DO NOTHING.
Committed(u) == IF row[u] \in {"none", "pruned"} THEN [row EXCEPT ![u] = "pending"] ELSE row

ShouldDeliver(u) == row[u] # "processed"

\* reconcileOrphaned and listUnprocessed.
Reconciled == [u \in Updates |-> IF row[u] = "pending" THEN "unknown" ELSE row[u]]
Unprocessed == {u \in Updates : row[u] \in {"pending", "unknown"}}

\* pruneTerminalOlderThan(D): D are terminal rows past the retention window of
\* seven days.  Telegram keeps an update for about one, so no batch and no
\* resend still has it.
Held == UNION {loop[l].todo \cup {loop[l].u} : l \in Loops}
Pruned(r, D) == [u \in Updates |-> IF u \in D THEN "pruned" ELSE r[u]]
Prunable ==
    {u \in Updates \ Held : /\ row[u] \in {"processed", "unknown"}
                            /\ Mode = "webhook" => u \in acked}

\* The handler is called with u.
Call(u) ==
    /\ calls' = [calls EXCEPT ![u] = @ + 1]
    /\ work' = work \cup {u}

-----------------------------------------------------------------------------
(* Telegram                                                                *)

NewUpdate ==
    /\ sent < N /\ sent' = sent + 1
    /\ UNCHANGED <<acked, row, cursor, on, gen, loop, hook, calls, work, done,
                   starts, crashes, faults>>

\* The handler's own work ends.
WorkEnds(u) ==
    /\ u \in work /\ hook = NoHook
    /\ work' = work \ {u} /\ done' = done \cup {u}
    /\ UNCHANGED <<sent, acked, row, cursor, on, gen, loop, hook, calls,
                   starts, crashes, faults>>

-----------------------------------------------------------------------------
(* Polling                                                                 *)

\* startPolling: a new controller, and pollLoop up to the rows it will recover.
StartPolling(l) ==
    /\ Mode = "polling" /\ ~on /\ starts < MaxStarts /\ loop[l].at = "off"
    /\ on' = TRUE /\ starts' = starts + 1 /\ gen' = starts'
    /\ row' = Reconciled
    /\ loop' = [loop EXCEPT ![l] = [Idle EXCEPT !.at = "recover", !.todo = Unprocessed,
                                                 !.gen = gen']]
    /\ UNCHANGED <<sent, acked, cursor, hook, calls, work, done, crashes, faults>>

StopPolling ==
    /\ Mode = "polling" /\ on
    /\ on' = FALSE /\ gen' = 0
    /\ UNCHANGED <<sent, acked, row, cursor, loop, hook, calls, work, done,
                   starts, crashes, faults>>

\* recoverPending: the next listed row, and after the last one the stored offset.
Recover(l) ==
    /\ loop[l].at = "recover"
    /\ \/ /\ on /\ loop[l].todo # {}
          /\ LET u == Least(loop[l].todo) IN
               /\ Call(u)
               /\ loop' = [loop EXCEPT ![l].at = "recovering", ![l].u = u,
                                       ![l].todo = @ \ {u}]
       \/ /\ ~on \/ loop[l].todo = {}
          /\ loop' = [loop EXCEPT ![l] = IF on THEN [Idle EXCEPT !.at = "fetch",
                                              !.offset = cursor, !.gen = gen] ELSE Idle]
          /\ UNCHANGED <<calls, work>>
    /\ UNCHANGED <<sent, acked, row, cursor, on, gen, hook, done, starts, crashes, faults>>

\* One getUpdates(offset): Telegram forgets what is below the offset and
\* returns the rest.  The prune at the head of the cycle is part of it.
Fetch(l) ==
    /\ loop[l].at = "fetch" /\ loop[l].gen = gen
    /\ acked' = acked \cup {u \in Updates : u < loop[l].offset /\ u <= sent}
    /\ \E D \in SUBSET Prunable : row' = Pruned(row, D)
    /\ loop' = [loop EXCEPT ![l].at = "batch", ![l].todo = loop[l].offset..sent \cap Updates]
    /\ UNCHANGED <<sent, cursor, on, gen, hook, calls, work, done, starts, crashes, faults>>

FetchFails(l) ==
    /\ loop[l].at = "fetch" /\ loop[l].gen = gen /\ faults < MaxFaults
    /\ faults' = faults + 1
    /\ loop' = [loop EXCEPT ![l].at = "sleep"]
    /\ UNCHANGED <<sent, acked, row, cursor, on, gen, hook, calls, work, done, starts, crashes>>

\* The signal of the loop's own controller was aborted: the loop ends.
Aborted(l) ==
    /\ loop[l].at = "fetch" /\ loop[l].gen # gen
    /\ loop' = [loop EXCEPT ![l] = Idle]
    /\ UNCHANGED <<sent, acked, row, cursor, on, gen, hook, calls, work, done,
                   starts, crashes, faults>>

TakeUpdate_CursorFirst(l) ==
    /\ loop[l].at = "batch" /\ loop[l].todo # {}
    /\ LET u == Least(loop[l].todo) IN
         /\ cursor' = IF cursor < u + 1 THEN u + 1 ELSE cursor
         /\ row' \in {row, Committed(u)}
         /\ loop' = [loop EXCEPT ![l].at = "delivering", ![l].u = u,
                                 ![l].offset = u + 1, ![l].todo = @ \ {u}]
         /\ Call(u)
    /\ UNCHANGED <<sent, acked, on, gen, hook, done, starts, crashes, faults>>

\* The next update of the batch: commit, then advance and save the offset
\* (the stored cursor never goes back), then call the handler unless the row
\* was processed already.
TakeUpdate(l) ==
    /\ loop[l].at = "batch" /\ loop[l].todo # {}
    /\ LET u == Least(loop[l].todo) IN
         /\ row' = Committed(u)
         /\ cursor' = IF cursor < u + 1 THEN u + 1 ELSE cursor
         /\ loop' = [loop EXCEPT ![l].at = IF ShouldDeliver(u) THEN "delivering" ELSE "batch",
                                 ![l].u = IF ShouldDeliver(u) THEN u ELSE 0,
                                 ![l].offset = u + 1, ![l].todo = @ \ {u}]
         /\ IF ShouldDeliver(u) THEN Call(u) ELSE UNCHANGED <<calls, work>>
    /\ UNCHANGED <<sent, acked, on, gen, hook, done, starts, crashes, faults>>

CommitFails_Advances(l) ==
    /\ loop[l].at = "batch" /\ loop[l].todo # {} /\ faults < MaxFaults
    /\ faults' = faults + 1
    /\ loop' = [loop EXCEPT ![l].at = "sleep", ![l].todo = {},
                            ![l].offset = Least(loop[l].todo) + 1]
    /\ UNCHANGED <<sent, acked, row, cursor, on, gen, hook, calls, work, done, starts, crashes>>

\* commitInbound throws: the batch is given up with the offset where it was.
CommitFails(l) ==
    /\ loop[l].at = "batch" /\ loop[l].todo # {} /\ faults < MaxFaults
    /\ faults' = faults + 1
    /\ loop' = [loop EXCEPT ![l].at = "sleep", ![l].todo = {}]
    /\ UNCHANGED <<sent, acked, row, cursor, on, gen, hook, calls, work, done, starts, crashes>>

Back(at) == IF at = "delivering" THEN "batch" ELSE "recover"

\* deliver() resolves, at once unless the handler's promise is awaited, and
\* the row becomes processed (an UPDATE: a pruned row stays away).
Delivered(l) ==
    /\ loop[l].at \in {"delivering", "recovering"}
    /\ Awaited => loop[l].u \notin work
    /\ row' = IF row[loop[l].u] = "pruned" THEN row
              ELSE [row EXCEPT ![loop[l].u] = "processed"]
    /\ loop' = [loop EXCEPT ![l].at = Back(@), ![l].u = 0]
    /\ UNCHANGED <<sent, acked, cursor, on, gen, hook, calls, work, done, starts, crashes, faults>>

\* The handler throws, or its promise rejects: the row stays as it is.
DeliveryFails(l) ==
    /\ HandlerThrows /\ loop[l].at \in {"delivering", "recovering"}
    /\ loop[l].u \in work
    /\ work' = work \ {loop[l].u}
    /\ loop' = [loop EXCEPT ![l].at = Back(@), ![l].u = 0]
    /\ UNCHANGED <<sent, acked, row, cursor, on, gen, hook, calls, done, starts, crashes, faults>>

\* The end of a batch, or of the pause after an error: while (polling).  The
\* loop takes the controller that is current now.
NextCycle(l) ==
    /\ \/ loop[l].at = "sleep"
       \/ loop[l].at = "batch" /\ loop[l].todo = {}
    /\ loop' = [loop EXCEPT ![l] = IF on THEN [@ EXCEPT !.at = "fetch", !.gen = gen] ELSE Idle]
    /\ UNCHANGED <<sent, acked, row, cursor, on, gen, hook, calls, work, done,
                   starts, crashes, faults>>

-----------------------------------------------------------------------------
(* Webhook                                                                 *)

\* startWebhook after setWebhook, with its synchronous recoverPending.
StartWebhook ==
    /\ Mode = "webhook" /\ ~on /\ starts < MaxStarts
    /\ on' = TRUE /\ starts' = starts + 1 /\ gen' = starts'
    /\ \E F \in SUBSET Unprocessed :
         /\ F = {} \/ HandlerThrows
         /\ row' = [u \in Updates |-> IF u \in F THEN "unknown"
                                      ELSE IF u \in Unprocessed THEN "processed" ELSE row[u]]
         /\ work' = work \cup (Unprocessed \ F)
         /\ calls' = [u \in Updates |-> IF u \in Unprocessed THEN calls[u] + 1 ELSE calls[u]]
    /\ UNCHANGED <<sent, acked, cursor, loop, hook, done, crashes, faults>>

StopWebhook ==
    /\ Mode = "webhook" /\ on /\ hook = NoHook
    /\ on' = FALSE /\ gen' = 0
    /\ UNCHANGED <<sent, acked, row, cursor, loop, hook, calls, work, done,
                   starts, crashes, faults>>

\* handleHttpWebhook for an update that Telegram sends, or sends again: prune
\* and commit, then the handler, then the 200.  Nothing else of the process
\* runs in between, but it may crash.
HookCommit(u) ==
    /\ Mode = "webhook" /\ on /\ hook = NoHook /\ u <= sent /\ u \notin acked
    /\ \E D \in SUBSET (Prunable \ {u}) : row' = Pruned(Committed(u), D)
    /\ hook' = IF ShouldDeliver(u) THEN [u |-> u, at |-> "committed"] ELSE NoHook
    /\ acked' = IF ShouldDeliver(u) THEN acked ELSE acked \cup {u}
    /\ UNCHANGED <<sent, cursor, on, gen, loop, calls, work, done, starts, crashes, faults>>

HookHandle ==
    /\ hook.at = "committed"
    /\ \/ /\ Call(hook.u)
          /\ hook' = [hook EXCEPT !.at = "handled"] /\ UNCHANGED acked
       \/ /\ HandlerThrows
          /\ calls' = [calls EXCEPT ![hook.u] = @ + 1]
          /\ hook' = NoHook /\ acked' = acked \cup {hook.u} /\ UNCHANGED work
    /\ UNCHANGED <<sent, row, cursor, on, gen, loop, done, starts, crashes, faults>>

\* Telegram may not get the 200, and then sends the update again.
HookMark ==
    /\ hook.at = "handled"
    /\ row' = [row EXCEPT ![hook.u] = "processed"]
    /\ acked' \in {acked, acked \cup {hook.u}}
    /\ hook' = NoHook
    /\ UNCHANGED <<sent, cursor, on, gen, loop, calls, work, done, starts, crashes, faults>>

-----------------------------------------------------------------------------
Crash ==
    /\ crashes < MaxCrashes /\ crashes' = crashes + 1
    /\ on' = FALSE /\ gen' = 0
    /\ loop' = [l \in Loops |-> Idle] /\ hook' = NoHook /\ work' = {}
    /\ UNCHANGED <<sent, acked, row, cursor, calls, done, starts, faults>>

LoopStep(l) ==
    \/ Recover(l) \/ Fetch(l) \/ FetchFails(l) \/ Aborted(l) \/ TakeUpdate(l)
    \/ CommitFails(l) \/ Delivered(l) \/ DeliveryFails(l) \/ NextCycle(l)

Next ==
    \/ NewUpdate \/ Crash \/ StopPolling \/ StartWebhook \/ StopWebhook
    \/ HookHandle \/ HookMark
    \/ \E u \in Updates : WorkEnds(u) \/ HookCommit(u)
    \/ \E l \in Loops : StartPolling(l) \/ LoopStep(l)

Spec == Init /\ [][Next]_vars

\* The event loop runs what is ready, handlers end, Telegram sends again what
\* it got no 200 for, and a channel that is off is started again.
Fairness ==
    /\ \A l \in Loops : WF_vars(LoopStep(l))
    /\ \A u \in Updates : WF_vars(WorkEnds(u)) /\ SF_vars(HookCommit(u))
    /\ WF_vars(HookHandle \/ HookMark)
    /\ WF_vars(StartWebhook \/ \E l \in Loops : StartPolling(l))

-----------------------------------------------------------------------------
(* Properties                                                              *)

\* What Telegram has forgotten is in the inbox, whatever crashed in between.
NothingForgotten == \A u \in acked : row[u] # "none"

\* Once a row is processed its update is not given to the handler again, by no
\* resend, no later batch and no recovery that starts then: only a recovery
\* that has listed the row before, while another loop was still at it, does.
Deduplicated ==
    \A u \in Updates : row[u] = "processed" /\ calls'[u] # calls[u] =>
        \E l \in Loops : loop[l].at = "recover" /\ u \in loop[l].todo

\* No update is dropped: a row that is terminal, or gone, belongs to an update
\* that the handler was called with.  Unless the handler throws, its work is
\* done or under way too, through crashes when the poll loop awaits the handler,
\* and while there is no crash when nobody does.
NeverLost ==
    \A u \in Updates : row[u] \in {"processed", "pruned"} =>
        /\ calls[u] > 0
        /\ ~HandlerThrows /\ ((Awaited /\ Mode = "polling") \/ crashes = 0) => u \in done \cup work

\* "A crash after ACK cannot lose it (recovered from the inbox)": what Telegram
\* has forgotten is handled, under way, or found by the next recovery.
CrashAfterAckRecovers ==
    \A u \in acked : u \in done \cup work \/ row[u] \in {"pending", "unknown"}

\* Every update is handled in the end, as long as the channel is started again
\* after the last crash or stop, except one whose row was processed already when
\* a crash cut its handler off.
CutOff(u) == row[u] \in {"processed", "pruned"} /\ u \notin done \cup work
EachHandled ==
    <>[](\A u \in 1..sent : u \in done \/ CutOff(u) \/ (~on /\ starts = MaxStarts))
=============================================================================

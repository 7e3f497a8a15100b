------------------------------ MODULE Outbox ------------------------------
(***************************************************************************)
(* The hub's outbox for one satellite: the stored messages, each the task  *)
(* of one workflow node attempt, the satellite's runner, which drains them *)
(* through pull and push, and a client of the command routes, which leases *)
(* and acknowledges single messages.  A sequence number is the row's       *)
(* rowid.  Hub transactions are atomic; the runner, the command client,    *)
(* operators, the retention job and restarts interleave between them.      *)
(***************************************************************************)
EXTENDS Integers, FiniteSets, SequencesExt

CONSTANTS
  Keys,         \* idempotency keys, one per node attempt
  Malformed,    \* the ones whose payload cannot be decoded
  MaxItems,     \* the limit of a pull and of a poll
  MaxAttempts,  \* max_attempts of a message
  Actors,       \* who takes part, a subset of AllActors
  MaxLeases,    \* bound: leases of a row
  MaxRestarts   \* bound: restarts of the hub

AllActors == {"runner", "client", "crash", "lostRequest", "lostResponse",
              "operator", "retention", "cancel"}

OutboxConstants ==
  /\ IsFiniteSet(Keys) /\ Malformed \subseteq Keys /\ Actors \subseteq AllActors
  /\ MaxItems \in Nat \ {0} /\ MaxAttempts \in Nat \ {0}
  /\ MaxLeases \in Nat /\ MaxRestarts \in Nat

VARIABLES
  row,         \* outbox_messages, by idempotency key
  checkpoint,  \* last acked sequence number of the stream
  epoch,       \* stream epoch, bumped at every start of the hub
  node,        \* the node attempt: its dispatch waits for a result, has one, or is gone
  runner,      \* the drain of the satellite's runner
  client,      \* messages the command client has leased, and how far it is
  deaf,        \* history: keys whose ack was accepted and not carried out
  left         \* history: leases whose holder has given up the task

vars == <<row, checkpoint, epoch, node, runner, client, deaf, left>>

NoRow == [status |-> "none"]
Message == [status : {"queued", "leased", "acked", "expired"},
            seq : Nat, attempts : Nat,
            over : BOOLEAN,   \* leased_until has passed
            stale : BOOLEAN]  \* expires_at has passed
Item == [key : Keys, seq : Nat]
Idle == [pc |-> "idle", items |-> <<>>, done |-> 0, upto |-> 0, epoch |-> 0]

TypeOK ==
  /\ row \in [Keys -> Message \cup {NoRow}]
  /\ checkpoint \in Nat /\ epoch \in 1..(MaxRestarts + 1)
  /\ node \in [Keys -> {"none", "running", "done", "gone"}]
  /\ runner \in [pc : {"idle", "run", "report", "ack"}, items : Seq(Item),
                 done : Nat, upto : Nat, epoch : Nat]
  /\ client \in [Keys -> {"none", "leased", "received", "reported"}]
  /\ deaf \subseteq Keys /\ left \subseteq Keys

Stored == {k \in Keys : row[k] # NoRow}
Terminal == {"acked", "expired"}

---------------------------------------------------------------------------
(* The rows *)

\* rowid of the next row: the table has no AUTOINCREMENT
NextSeq == 1 + IF Stored = {} THEN 0 ELSE Max({row[k].seq : k \in Stored})

\* enqueue, as dispatchNode calls it once for an attempt
Enqueue(k) ==
  /\ row[k] = NoRow /\ node[k] = "none"
  /\ row' = [row EXCEPT ![k] = [status |-> "queued", seq |-> NextSeq, attempts |-> 0,
                                over |-> FALSE, stale |-> FALSE]]
  /\ node' = [node EXCEPT ![k] = "running"]
  /\ UNCHANGED <<checkpoint, epoch, runner, client, deaf, left>>

Queued == {k \in Stored : row[k].status = "queued" /\ ~row[k].stale}

\* leaseBatch selects the oldest messages up to the limit
Batch ==
  LET order == SetToSortSeq(Queued, LAMBDA a, b : row[a].seq < row[b].seq)
  IN SubSeq(order, 1, Min({MaxItems, Len(order)}))

Lease(ks) == [k \in Keys |-> IF k \in ks
  THEN [row[k] EXCEPT !.status = "leased", !.over = FALSE, !.attempts = @ + 1]
  ELSE row[k]]

Leasable(ks) == ks # {} /\ \A k \in ks : row[k].attempts < MaxLeases

\* a queued message acknowledged with the leased ones
AckUpToSeq_Queued(seq) == [k \in Keys |->
  IF k \in Stored /\ row[k].status \in {"queued", "leased"} /\ row[k].seq <= seq
  THEN [row[k] EXCEPT !.status = "acked"] ELSE row[k]]
\* every leased message up to the sequence number, whoever holds the lease
AckUpToSeq(seq) == [k \in Keys |->
  IF k \in Stored /\ row[k].status = "leased" /\ row[k].seq <= seq
  THEN [row[k] EXCEPT !.status = "acked"] ELSE row[k]]

\* the whole queue acknowledged
AckById_All(k) == AckUpToSeq(row[k].seq)

AckById(k) == [row EXCEPT ![k].status = IF @ = "leased" THEN "acked" ELSE @]

---------------------------------------------------------------------------
(* The runner's drain: pull, execute, push the results, push the ack *)

Pull ==
  /\ "runner" \in Actors /\ runner.pc = "idle"
  /\ Leasable(Range(Batch))
  /\ row' = Lease(Range(Batch))
  /\ runner' = [pc |-> "run", done |-> 0, upto |-> 0, epoch |-> epoch,
                items |-> [i \in DOMAIN Batch |-> [key |-> Batch[i], seq |-> row[Batch[i]].seq]]]
  /\ left' = left \ Range(Batch)
  /\ UNCHANGED <<checkpoint, epoch, node, client, deaf>>

Processed == {runner.items[i].key : i \in 1..runner.done}
Held == {runner.items[i].key : i \in DOMAIN runner.items}

\* one turn of the loop over the items: a payload that cannot be decoded ends it
Execute ==
  /\ runner.pc = "run"
  /\ runner' =
       IF runner.done < Len(runner.items) /\ runner.items[runner.done + 1].key \notin Malformed
       THEN [runner EXCEPT !.done = @ + 1]
       ELSE IF runner.done = 0 THEN Idle
       ELSE [runner EXCEPT !.pc = "report"]
  /\ left' = IF runner'.done = runner.done + 1 THEN left ELSE left \cup (Held \ Processed)
  /\ UNCHANGED <<row, checkpoint, epoch, node, client, deaf>>

\* the last item before the first one whose result was not accepted
AckPrefix(accepted) ==
  LET I == {i \in 1..runner.done : \A j \in 1..i : runner.items[j].key \in accepted}
  IN IF I = {} THEN 0 ELSE runner.items[Max(I)].seq

\* push of the results.  The hub refuses a result of an attempt that is gone,
\* and one that contradicts the result it has.
PushResults ==
  /\ runner.pc = "report"
  /\ \E contradicting \in SUBSET {k \in Processed : node[k] = "done"} :
       LET accepted == {k \in Processed : node[k] # "gone"} \ contradicting
           upto == AckPrefix(accepted)
       IN
       /\ node' = [k \in Keys |-> IF k \in accepted THEN "done" ELSE node[k]]
       /\ runner' = IF upto = 0 THEN Idle ELSE [runner EXCEPT !.pc = "ack", !.upto = upto]
  /\ UNCHANGED <<row, checkpoint, epoch, client, deaf, left>>

\* push of the ack
PushAck ==
  /\ runner.pc = "ack"
  /\ LET acked == {runner.items[i].key : i \in {j \in DOMAIN runner.items :
                     runner.items[j].seq <= runner.upto}} \cap Stored
     IN
     CASE runner.epoch # epoch -> UNCHANGED <<row, checkpoint, deaf>>
       [] runner.epoch = epoch /\ runner.upto <= checkpoint ->
            /\ deaf' = deaf \cup {k \in acked : row[k].status = "leased"}
            /\ UNCHANGED <<row, checkpoint>>
       [] OTHER -> /\ checkpoint' = runner.upto
                   /\ row' = AckUpToSeq(runner.upto)
                   /\ UNCHANGED deaf
  /\ runner' = Idle
  /\ UNCHANGED <<epoch, node, client, left>>

\* A request does not arrive, or its answer does not: drain throws.
RequestLost ==
  /\ "lostRequest" \in Actors /\ runner.pc \in {"report", "ack"}
  /\ runner' = Idle
  /\ left' = left \cup Held
  /\ UNCHANGED <<row, checkpoint, epoch, node, client, deaf>>

ResponseLost ==
  /\ "lostResponse" \in Actors /\ runner.pc = "report"
  /\ node' = [k \in Keys |-> IF k \in Processed /\ node[k] = "running" THEN "done" ELSE node[k]]
  /\ runner' = Idle
  /\ UNCHANGED <<row, checkpoint, epoch, client, deaf, left>>

RunnerCrash ==
  /\ "crash" \in Actors /\ runner.pc # "idle"
  /\ runner' = Idle
  /\ left' = left \cup Held
  /\ UNCHANGED <<row, checkpoint, epoch, node, client, deaf>>

---------------------------------------------------------------------------
(* The command routes *)

PollCommands ==
  /\ "client" \in Actors /\ Leasable(Range(Batch))
  /\ row' = Lease(Range(Batch))
  /\ client' = [k \in Keys |-> IF k \in Range(Batch) THEN "leased" ELSE client[k]]
  /\ UNCHANGED <<checkpoint, epoch, node, runner, deaf, left>>

ReportCommandResult(k) ==
  /\ client[k] \in {"leased", "received"} /\ node[k] # "gone"
  /\ node' = [node EXCEPT ![k] = "done"]
  /\ client' = [client EXCEPT ![k] = "reported"]
  /\ UNCHANGED <<row, checkpoint, epoch, runner, deaf, left>>

AckCommand(k) ==
  /\ client[k] = "reported"
  /\ row' = IF k \in Stored THEN AckById(k) ELSE row
  /\ client' = [client EXCEPT ![k] = "none"]
  /\ UNCHANGED <<checkpoint, epoch, node, runner, deaf, left>>

\* the ack with status "received": no result, and refused unless leased
AckReceived(k) ==
  /\ client[k] = "leased" /\ k \in Stored /\ row[k].status = "leased"
  /\ row' = AckById(k)
  /\ client' = [client EXCEPT ![k] = "received"]
  /\ left' = left \cup {k}
  /\ UNCHANGED <<checkpoint, epoch, node, runner, deaf>>

ClientCrash ==
  /\ "crash" \in Actors /\ \E k \in Keys : client[k] # "none"
  /\ client' = [k \in Keys |-> "none"]
  /\ UNCHANGED <<row, checkpoint, epoch, node, runner, deaf, left>>

---------------------------------------------------------------------------
(* Time, operators, the retention job, the hub *)

LeaseExpires(k) ==
  /\ "operator" \in Actors
  /\ k \in Stored /\ row[k].status = "leased" /\ ~row[k].over
  /\ row' = [row EXCEPT ![k].over = TRUE]
  /\ UNCHANGED <<checkpoint, epoch, node, runner, client, deaf, left>>

\* requeue_expired_leases of the fleet dashboard: max_attempts is not looked at
RequeueExpiredLeases ==
  /\ "operator" \in Actors
  /\ \E k \in Stored : row[k].status = "leased" /\ row[k].over
  /\ row' = [k \in Keys |-> IF k \in Stored /\ row[k].status = "leased" /\ row[k].over
               THEN [row[k] EXCEPT !.status = "queued", !.over = FALSE] ELSE row[k]]
  /\ left' = {k \in left : row'[k].status # "queued"}
  /\ UNCHANGED <<checkpoint, epoch, node, runner, client, deaf>>

TtlPasses(k) ==
  /\ "retention" \in Actors /\ k \in Stored /\ ~row[k].stale
  /\ row' = [row EXCEPT ![k].stale = TRUE]
  /\ UNCHANGED <<checkpoint, epoch, node, runner, client, deaf, left>>

\* leased messages forgotten
ExpireByTtl_QueuedOnly ==
  /\ \E k \in Stored : row[k].stale /\ row[k].status = "queued"
  /\ row' = [k \in Keys |-> IF k \in Stored /\ row[k].stale /\ row[k].status = "queued"
               THEN [row[k] EXCEPT !.status = "expired"] ELSE row[k]]
  /\ UNCHANGED <<checkpoint, epoch, node, runner, client, deaf, left>>

\* messages past their time to live, unless they are settled
ExpireByTtl ==
  /\ \E k \in Stored : row[k].stale /\ row[k].status \notin Terminal
  /\ row' = [k \in Keys |-> IF k \in Stored /\ row[k].stale /\ row[k].status \notin Terminal
               THEN [row[k] EXCEPT !.status = "expired"] ELSE row[k]]
  /\ UNCHANGED <<checkpoint, epoch, node, runner, client, deaf, left>>

\* the retention job when the cutoff has passed every terminal row
DeleteTerminal ==
  /\ "retention" \in Actors
  /\ \E k \in Stored : row[k].status \in Terminal
  /\ row' = [k \in Keys |-> IF k \in Stored /\ row[k].status \in Terminal THEN NoRow ELSE row[k]]
  /\ UNCHANGED <<checkpoint, epoch, node, runner, client, deaf, left>>

\* the run is cancelled or the attempt timed out: its result is refused
AttemptGone(k) ==
  /\ "cancel" \in Actors /\ node[k] = "running"
  /\ node' = [node EXCEPT ![k] = "gone"]
  /\ UNCHANGED <<row, checkpoint, epoch, runner, client, deaf, left>>

HubRestart ==
  /\ epoch <= MaxRestarts
  /\ epoch' = epoch + 1
  /\ UNCHANGED <<row, checkpoint, node, runner, client, deaf, left>>

---------------------------------------------------------------------------
Init ==
  /\ row = [k \in Keys |-> NoRow]
  /\ checkpoint = 0 /\ epoch = 1
  /\ node = [k \in Keys |-> "none"]
  /\ runner = Idle
  /\ client = [k \in Keys |-> "none"]
  /\ deaf = {} /\ left = {}

RunnerStep == Pull \/ Execute \/ PushResults \/ PushAck
Faults == RequestLost \/ ResponseLost \/ RunnerCrash \/ ClientCrash \/ HubRestart

Next ==
  \/ RunnerStep \/ Faults \/ PollCommands
  \/ RequeueExpiredLeases \/ ExpireByTtl \/ DeleteTerminal
  \/ \E k \in Keys : Enqueue(k) \/ ReportCommandResult(k) \/ AckCommand(k) \/ AckReceived(k)
                      \/ LeaseExpires(k) \/ TtlPasses(k) \/ AttemptGone(k)

Spec == Init /\ [][Next]_vars

---------------------------------------------------------------------------
(* Properties *)

\* A message is acknowledged while its node attempt still waits for a result
\* only if the holder of its lease had given the task up and the ack of a later
\* drain covered it, or the client said that it had no more than received it:
\* what is leased and worked on, or queued again, is never taken for done.
NoneStranded ==
  \A k \in Stored : row[k].status = "acked" /\ k \notin left => node[k] # "running"

\* "Malformed queue payloads remain leased until expiry so the hub can requeue
\* or dead-letter them."
MalformedStayLeased == \A k \in Stored \cap Malformed :
  row[k].status = "leased" /\ ~row[k].over => row'[k] = NoRow \/ row'[k].status # "acked"

\* A message is never leased more often than max_attempts allows.
AttemptsBounded == \A k \in Stored : row[k].attempts <= MaxAttempts

\* An ack that the hub reports as accepted is carried out: the message it
\* covers is not left leased, to be requeued and executed again.
AckHeard == deaf = {}

\* Acknowledged and expired messages stay what they are until they are deleted.
TerminalStays == \A k \in Stored : row[k].status \in Terminal =>
  row'[k] = NoRow \/ row'[k].status = row[k].status

\* Every message is acknowledged, expired or deleted in the end, whatever
\* crashes, stays silent or is never requeued.
Settles == \A k \in Keys :
  (k \in Stored /\ row[k].status \notin Terminal) ~> (k \notin Stored \/ row[k].status \in Terminal)
====

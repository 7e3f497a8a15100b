-------------------------- MODULE UpgradeLifecycle --------------------------
(***************************************************************************)
(* The shadow, canary, promote and rollback lifecycle of one channel       *)
(* adapter, MCP server or provider profile (src/src/autonomy/services/     *)
(* friday-{channel-adapter,mcp-server,provider-profile}-upgrade-lifecycle- *)
(* service.ts).  The three services keep the same two records, a row in    *)
(* SQLite and an evidence file, and write them one after the other without *)
(* a common transaction: a crash may fall between the two writes.  They    *)
(* differ in the order of the writes, in what a canary remembers while it  *)
(* awaits its probe, and in what promote and rollback look at.             *)
(*                                                                         *)
(* Left out: the canonical approval each operation asks for first (it      *)
(* changes nothing when it refuses), the compatibility status and the      *)
(* last-verified fields, which no operation reads, and the events.         *)
(***************************************************************************)
EXTENDS Naturals, FiniteSets

CONSTANTS Kind,        \* which service: "channel", "mcp" or "provider"
          Versions,    \* the shadow version ids a client may register
          NoVersion,   \* an absent version id
          Tuples,      \* runtime and provider model named by a request
          Calls,       \* canary requests that may be in flight at once
          Restage,     \* may a client register over a staged version, or reuse an id
          MaxShadows,  \* bound on registrations
          MaxCanaries, \* bound on canary outcomes
          MaxCrashes   \* bound on crashes

UpgradeConstants == /\ Kind \in {"channel", "mcp", "provider"}
                    /\ NoVersion \notin Versions
                    /\ Restage \in BOOLEAN
                    /\ {MaxShadows, MaxCanaries, MaxCrashes} \subseteq Nat

VARIABLES row,      \* the upgrade columns in SQLite
          file,     \* the evidence file
          calls,    \* canaries that await their probe
          valid,    \* the stored validation status of the provider is ok
          crashes,
          ran,      \* history: outcomes for a version since it was registered
          used,     \* history: the versions registered, in number and identity
          act,      \* history: the version in service
          base      \* history: the version that was active before the last promotion

vars == <<row, file, calls, valid, crashes, ran, used, act, base>>

Channels == {"none", "shadow", "canary", "active", "rolled_back"}
MaybeVersion == Versions \cup {NoVersion}
Rows == [channel : Channels, shadow : MaybeVersion, good : Nat, bad : Nat]
Runs == [v : MaybeVersion, t : Tuples, ok : BOOLEAN]
Files == [shadow : MaybeVersion, previous : Rows, runs : SUBSET Runs, promoted : MaybeVersion]

EmptyRow == [channel |-> "none", shadow |-> NoVersion, good |-> 0, bad |-> 0]
EmptyFile == [shadow |-> NoVersion, previous |-> EmptyRow, runs |-> {}, promoted |-> NoVersion]
Idle == [on |-> FALSE]

TypeOK ==
  /\ row \in Rows
  /\ file \in Files
  /\ \A c \in Calls : calls[c] # Idle => calls[c].file \in Files /\ calls[c].v \in MaybeVersion
  /\ valid \in BOOLEAN
  /\ crashes \in 0..MaxCrashes
  /\ ran \in SUBSET Runs
  /\ act \in MaybeVersion /\ base \in MaybeVersion

Init ==
  /\ row = EmptyRow
  /\ file = EmptyFile
  /\ calls = [c \in Calls |-> Idle]
  /\ valid = (Kind = "provider")
  /\ crashes = 0
  /\ ran = {}
  /\ used = <<0, {}>>
  /\ act = NoVersion /\ base = NoVersion
-----------------------------------------------------------------------------
(* The two writes of an operation: both, or the first one and a crash,     *)
(* which also ends every canary that was waiting.                          *)
AllIdle == [c \in Calls |-> Idle]

Store(fileFirst, f, r, c) ==
  /\ \/ row' = r /\ file' = f /\ calls' = c /\ UNCHANGED crashes
     \/ /\ crashes < MaxCrashes
        /\ crashes' = crashes + 1
        /\ calls' = AllIdle
        /\ IF fileFirst THEN file' = f /\ UNCHANGED row ELSE row' = r /\ UNCHANGED file
  /\ act' = CASE row'.channel = "active" -> row'.shadow
              [] row'.channel \in {"none", "rolled_back"} -> NoVersion
              [] OTHER -> act

Crash ==
  /\ crashes < MaxCrashes
  /\ \E c \in Calls : calls[c] # Idle
  /\ crashes' = crashes + 1
  /\ calls' = AllIdle
  /\ UNCHANGED <<row, file, valid, ran, used, act, base>>
-----------------------------------------------------------------------------
(* registerShadowVersion.  The MCP service keeps the canary runs and the   *)
(* promotion of the earlier version; the other two start a new record.     *)
(* None of the three clears the counters of the row.                       *)
ShadowFile(v) ==
  IF Kind = "mcp"
  THEN [file EXCEPT !.shadow = v, !.previous = row]
  ELSE [shadow |-> v, previous |-> row, runs |-> {}, promoted |-> NoVersion]

Shadow(v) ==
  /\ used[1] < MaxShadows
  /\ ~Restage => v \notin used[2] /\ row.channel \notin {"shadow", "canary"}
  /\ Kind = "provider" => valid
  /\ used' = <<used[1] + 1, used[2] \cup {v}>>
  /\ ran' = {r \in ran : r.v # v}
  /\ Store(Kind # "mcp", ShadowFile(v), [row EXCEPT !.channel = "shadow", !.shadow = v], calls)
  /\ UNCHANGED <<valid, base>>
-----------------------------------------------------------------------------
(* recordCanaryResult.                                                     *)
One(b) == IF b THEN 1 ELSE 0

(* updateCanaryStats: the counters g and b, one more outcome ok.           *)
CanaryRow(g, b, ok) ==
  [row EXCEPT !.channel = "canary", !.good = g + One(ok), !.bad = b + One(~ok)]

Outcome(v, t, ok) == ran' = ran \cup {[v |-> v, t |-> t, ok |-> ok]}

MoreCanaries == row.good + row.bad < MaxCanaries

(* The channel service probes the adapter without an await.                *)
ChannelCanary(t, ok) ==
  /\ Kind = "channel"
  /\ MoreCanaries
  /\ row.channel \in {"shadow", "canary"}
  /\ Outcome(row.shadow, t, ok)
  /\ Store(TRUE, [file EXCEPT !.runs = @ \cup {[v |-> row.shadow, t |-> t, ok |-> ok]}],
           CanaryRow(row.good, row.bad, ok), calls)
  /\ UNCHANGED <<valid, used, base>>

(* What the guards before the await let through, and what is kept over it: *)
(* the shadow id and the counters (MCP), the evidence record (provider).   *)
CanaryAllowed ==
  IF Kind = "provider"
  THEN file.shadow # NoVersion /\ row.shadow = file.shadow /\ row.channel = "shadow"
  ELSE row.channel \in {"shadow", "canary"}

StartCanary(c, t) ==
  /\ Kind # "channel"
  /\ calls[c] = Idle
  /\ MoreCanaries
  /\ CanaryAllowed
  /\ calls' = [calls EXCEPT ![c] = [on |-> TRUE, v |-> row.shadow, t |-> t,
                                    good |-> row.good, bad |-> row.bad, file |-> file]]
  /\ UNCHANGED <<row, file, valid, crashes, ran, used, act, base>>

(* After the await.  The MCP service re-reads the evidence and writes the  *)
(* counters it read before; the provider service writes the evidence it    *)
(* read before and re-reads the counters.  Validating stores the status.   *)
EndMcpCanary(c, ok) ==
  LET run == [v |-> calls[c].v, t |-> calls[c].t, ok |-> ok] IN
  /\ Kind = "mcp"
  /\ calls[c] # Idle
  /\ Outcome(run.v, run.t, ok)
  /\ Store(FALSE, [file EXCEPT !.runs = @ \cup {run}],
           CanaryRow(calls[c].good, calls[c].bad, ok), [calls EXCEPT ![c] = Idle])
  /\ UNCHANGED <<valid, used, base>>

EndProviderCanary(c, ok) ==
  LET run == [v |-> calls[c].file.shadow, t |-> calls[c].t, ok |-> ok] IN
  /\ Kind = "provider"
  /\ calls[c] # Idle
  /\ Outcome(run.v, run.t, ok)
  /\ valid' = ok
  /\ Store(TRUE, [calls[c].file EXCEPT !.runs = @ \cup {run}],
           CanaryRow(row.good, row.bad, ok), [calls EXCEPT ![c] = Idle])
  /\ UNCHANGED <<used, base>>

(* Another validation of the provider, outside the lifecycle.              *)
Revalidate ==
  /\ Kind = "provider"
  /\ valid' = ~valid
  /\ UNCHANGED <<row, file, calls, crashes, ran, used, act, base>>
-----------------------------------------------------------------------------
(* promote.                                                                *)
Green(runs) == (\E r \in runs : r.ok) /\ (\A r \in runs : r.ok)

(* The outcomes a request with tuple t is about, in a set of runs.         *)
About(runs, t) ==
  {r \in runs : r.v = row.shadow /\ (Kind = "channel" => r.t = t)}

MayPromote_OneSuccess(t) ==
  /\ row.shadow # NoVersion
  /\ file.shadow # NoVersion
  /\ row.channel \in {"canary", "shadow"}
  /\ \E r \in About(file.runs, t) : r.ok

MayPromote(t) ==
  /\ row.shadow # NoVersion
  /\ file.shadow # NoVersion
  /\ CASE Kind = "channel"  -> row.channel = "canary" /\ Green(About(file.runs, t))
       [] Kind = "mcp"      -> row.channel = "canary" /\ row.good >= 1 /\ row.bad = 0
       [] Kind = "provider" -> valid /\ row.shadow = file.shadow /\ Green(About(file.runs, t))

(* The channel service files the promotion first, the others update the    *)
(* row first.                                                              *)
Promote_RowFirst(t) ==
  /\ MayPromote(t)
  /\ base' = IF act = row.shadow THEN base ELSE act
  /\ Store(FALSE, [file EXCEPT !.promoted = row.shadow], [row EXCEPT !.channel = "active"], calls)
  /\ UNCHANGED <<valid, ran, used>>

Promote(t) ==
  /\ MayPromote(t)
  /\ base' = IF act = row.shadow THEN base ELSE act
  /\ Store(Kind = "channel", [file EXCEPT !.promoted = row.shadow], [row EXCEPT !.channel = "active"], calls)
  /\ UNCHANGED <<valid, ran, used>>
-----------------------------------------------------------------------------
(* rollback.  The provider service insists that the promoted version is    *)
(* the active one and restores the snapshot as it was; the other two only  *)
(* look for a promotion in the file.                                       *)
MayRollback ==
  /\ file.shadow # NoVersion
  /\ file.promoted # NoVersion
  /\ Kind = "provider" => /\ file.promoted = file.shadow
                          /\ row.channel = "active"
                          /\ row.shadow = file.shadow

Restored ==
  CASE Kind = "provider" -> file.previous
    [] Kind = "channel"  -> [file.previous EXCEPT !.channel = IF @ = "active" THEN @ ELSE "rolled_back"]
    [] Kind = "mcp"      -> [row EXCEPT !.channel = IF file.previous.channel = "active" THEN "active" ELSE "rolled_back",
                                        !.shadow = file.previous.shadow]

Rollback ==
  /\ MayRollback
  /\ Store(Kind = "channel", file, Restored, calls)
  /\ valid' = IF Kind = "provider" THEN TRUE ELSE valid
  /\ UNCHANGED <<ran, used, base>>
-----------------------------------------------------------------------------
Next ==
  \/ \E v \in Versions : Shadow(v)
  \/ \E t \in Tuples, ok \in BOOLEAN : ChannelCanary(t, ok)
  \/ \E c \in Calls, t \in Tuples : StartCanary(c, t)
  \/ \E c \in Calls, ok \in BOOLEAN : EndMcpCanary(c, ok)
  \/ \E c \in Calls, ok \in BOOLEAN : EndProviderCanary(c, ok)
  \/ Revalidate
  \/ \E t \in Tuples : Promote(t)
  \/ Rollback
  \/ Crash

Spec == Init /\ [][Next]_vars
-----------------------------------------------------------------------------
(* A version is promoted only when the canaries that were run for it since *)
(* it was registered include a success and no failure, for the tuple named *)
(* in the request where the service distinguishes tuples (promote).        *)
PromotedGreen == \A t \in Tuples : Promote(t) => Green(About(ran, t))

(* A rollback that follows a promotion over an active version makes that   *)
(* version active again (rollback, "restored_previous_..._state").         *)
RollbackRestores ==
  Rollback /\ row' # row /\ base # NoVersion
    => row'.channel = "active" /\ row'.shadow = base

(* The version that is active can be rolled back: its promotion is on file *)
(* as long as the file is about it, whatever write a crash cut off.        *)
Undoable == row.channel = "active" /\ row.shadow = file.shadow => file.promoted = file.shadow

(* A rollback undoes the promotion of the version the file is about, never *)
(* an earlier one.                                                         *)
RollbackOfPromoted == Rollback => file.promoted = file.shadow

(* A staged version whose own canaries are green can be promoted: failures *)
(* of an earlier registration do not hold it back (promote).               *)
GreenPromotes ==
  row.channel = "canary" /\ file.shadow = row.shadow /\ (Kind = "provider" => valid)
    => \A t \in Tuples : Green(About(ran, t)) => MayPromote(t)
=============================================================================

---------------------------- MODULE PluginUpgrade ----------------------------
(***************************************************************************)
(* The upgrade lifecycle of external plugins on top of the plugin runtime  *)
(* (src/src/autonomy/services/friday-plugin-upgrade-lifecycle-service.ts): *)
(* shadow, canary, promote and rollback change the same rows as the plugin *)
(* routes, keep evidence and an encrypted rollback snapshot in files, and  *)
(* enable and disable the plugin through the service.  Canary, promote and *)
(* rollback span awaits, between which every other request may run.        *)
(*                                                                         *)
(* The plugins have no dependencies on each other here.  Approval tickets, *)
(* canaries without a ticket of their own, digests of unchanged artifacts  *)
(* and the encryption are left out; the canary counters are abstracted to  *)
(* "some run succeeded" and "some run failed", all that promote asks of    *)
(* them.                                                                   *)
(***************************************************************************)
EXTENDS PluginRuntime

CONSTANT MaxShadows  \* bound on registrations

UpgradeConstants ==
  /\ PluginConstants
  /\ \A p \in Plugins : Order[p] = <<p>>
  /\ MaxShadows \in Nat

VARIABLES ev,       \* evidence file: shadow filed, promotion filed
          snap,     \* private rollback snapshot file
          shadows,  \* registrations so far; numbers the windows
          tried,    \* history: outcomes of the canaries of each registration
          mixed     \* history: registrations whose counters are not, or no
                    \* longer, those of their own canaries alone

uvars == <<ev, snap, shadows, tried, mixed>>
vars == <<pvars, uvars>>

NoSnap == [row |-> Absent, life |-> NoLife]

TypeOK ==
  /\ PluginTypeOK
  /\ ev \in [Plugins -> [shadow : BOOLEAN, promoted : BOOLEAN]]
  /\ snap \in [Plugins -> [row : [status : Statuses, enabled : BOOLEAN], life : Lives]]
  /\ shadows \in 0..MaxShadows
  /\ tried \in [1..MaxShadows -> SUBSET BOOLEAN]
  /\ mixed \subseteq 0..MaxShadows

Init ==
  /\ PluginInit({NoLife})
  /\ ev = [p \in Plugins |-> [shadow |-> FALSE, promoted |-> FALSE]]
  /\ snap = [p \in Plugins |-> NoSnap]
  /\ shadows = 0
  /\ tried = [w \in 1..MaxShadows |-> {}]
  /\ mixed = {}

Inactive(p) == ~row[p].enabled /\ row[p].status \notin {"enabled", "running"}

(* A crash may cut a chain of writes after the k-th of n.                  *)
Cut(k, n) ==
  \/ k = n /\ UNCHANGED <<loaded, alive, health, restarts, adrift>>
  \/ k < n /\ Dies

CallsAfter(k, n, i) ==
  calls' = IF k < n THEN [j \in Calls |-> Idle] ELSE [calls EXCEPT ![i] = Idle]
-----------------------------------------------------------------------------
(* registerShadowVersion: snapshot file, row, evidence file.               *)
registerShadowVersion(p, i, k) ==
  /\ calls[i] = Idle
  /\ row[p] # Absent
  /\ Inactive(p)
  /\ shadows < MaxShadows
  /\ shadows' = shadows + 1
  /\ Cut(k, 3) /\ CallsAfter(k, 3, i)
  /\ snap' = [snap EXCEPT ![p] = [row |-> row[p], life |-> life[p]]]
  /\ life' = IF k < 2 THEN life
             ELSE [life EXCEPT ![p] = [NoLife EXCEPT !.channel = "shadow", !.compat = "adaptation_required", !.window = shadows']]
  /\ ev' = IF k < 3 THEN ev ELSE [ev EXCEPT ![p] = [shadow |-> TRUE, promoted |-> FALSE]]
  /\ UNCHANGED <<row, tried, mixed>>
-----------------------------------------------------------------------------
(* recordCanaryResult: enable, then disable, then file the result in the   *)
(* row as it is by then.                                                   *)
startCanary(i, p) ==
  /\ life[p].channel \in {"shadow", "canary"}
  /\ Inactive(p)
  /\ StartEnable(i, p, "canary", life[p])
  /\ UNCHANGED uvars

(* The answer is counted in the row there is by then, which may be of      *)
(* another registration than the canary.                                   *)
Noted(i, ok) ==
  LET p == calls[i].p
      w == calls[i].life.window
  IN  /\ tried' = IF w = 0 THEN tried ELSE [tried EXCEPT ![w] = @ \cup {ok}]
      /\ mixed' = IF row[p] # Absent /\ w = life[p].window THEN mixed ELSE mixed \cup {w, life[p].window}

FiledFailure(p) ==
  life' = IF row[p] = Absent THEN life
          ELSE [life EXCEPT ![p] = [@ EXCEPT !.channel = "canary", !.compat = "adaptation_required", !.bad = TRUE]]

(* It did not start: the row gets its status from before the canary back.  *)
canaryFailsToStart(i, ok) ==
  LET p == calls[i].p IN
  /\ calls[i].op = "canary"
  /\ LoadStops(i, ok)
  /\ health' = [health EXCEPT ![p] = Failure(@)]
  /\ row' = [row EXCEPT ![p] = Set(@, calls[i].row.status, calls[i].row.enabled)]
  /\ FiledFailure(p) /\ Noted(i, FALSE)
  /\ LeftBehind({p})
  /\ calls' = [calls EXCEPT ![i] = Idle]
  /\ UNCHANGED <<loaded, restarts, ev, snap, shadows>>

(* It runs; the service is asked to disable it.                            *)
canaryRuns(i) ==
  /\ calls[i].op = "canary"
  /\ Loaded(i)
  /\ calls' = [calls EXCEPT ![i].await = "unload", ![i].plan = <<>>, ![i].hook = 0]
  /\ UNCHANGED <<life, uvars>>

canaryPasses(i) ==
  LET p == calls[i].p IN
  /\ calls[i].op = "canary"
  /\ Unloaded(i)
  /\ life' = IF row[p] = Absent THEN life
             ELSE [life EXCEPT ![p] = [@ EXCEPT !.channel = "canary", !.compat = "compatible", !.ok = TRUE]]
  /\ Noted(i, row[p] # Absent)
  /\ calls' = [calls EXCEPT ![i] = Idle]
  /\ UNCHANGED <<ev, snap, shadows>>

(* It could not be unloaded: the row goes back to what it was, or, while   *)
(* the loader still holds the plugin, to an error that needs an operator.  *)
canaryStays(i) ==
  LET p == calls[i].p IN
  /\ calls[i].op = "canary" /\ calls[i].await = "unload"
  /\ UnloadMayFail
  /\ health' = [health EXCEPT ![p] = Failure(@)]
  /\ row' = [row EXCEPT ![p] = IF p \in loaded THEN Set(@, "error", TRUE)
                               ELSE Set(@, calls[i].row.status, calls[i].row.enabled)]
  /\ FiledFailure(p) /\ Noted(i, FALSE)
  /\ adrift' = adrift \cup {p}
  /\ calls' = [calls EXCEPT ![i] = Idle]
  /\ UNCHANGED <<loaded, alive, restarts, ev, snap, shadows>>
-----------------------------------------------------------------------------
(* promote: the row and the evidence are read, the plugin is enabled, and  *)
(* what was read is written back with channel active.                      *)
MayPromote_Once(p) ==
  /\ life[p].channel = "canary"
  /\ life[p].window # 0 /\ ev[p].shadow
  /\ life[p].ok

MayPromote(p) ==
  /\ life[p].channel = "canary"
  /\ life[p].window # 0 /\ ev[p].shadow
  /\ life[p].ok /\ ~life[p].bad

startPromote(i, p) ==
  /\ MayPromote(p)
  /\ StartEnable(i, p, "promote", life[p])
  /\ UNCHANGED uvars

promoteFails(i, ok) ==
  /\ calls[i].op = "promote"
  /\ LoadThrows(i, ok)
  /\ calls' = [calls EXCEPT ![i] = Idle]
  /\ UNCHANGED <<life, uvars>>

(* Row, then evidence.  A crash in between cuts it.                        *)
promoteEnds(i, k) ==
  LET p == calls[i].p
      done == [life EXCEPT ![p] = [calls[i].life EXCEPT !.channel = "active", !.compat = "compatible"]]
  IN  /\ calls[i].op = "promote"
      /\ life' = done
      /\ \/ /\ k = 2
            /\ Loaded(i)
            /\ calls' = [calls EXCEPT ![i] = Idle]
            /\ ev' = [ev EXCEPT ![p].promoted = TRUE]
         \/ /\ k = 1
            /\ calls[i].await = "load" /\ AtLastHook(i) /\ Len(calls[i].plan) = 1
            /\ row[p].status = "enabled"
            /\ row' = [row EXCEPT ![p].status = "running"]
            /\ Cut(1, 2) /\ CallsAfter(1, 2, i)
            /\ UNCHANGED ev
      /\ mixed' = IF life[p] = calls[i].life THEN mixed ELSE mixed \cup {calls[i].life.window}
      /\ UNCHANGED <<snap, shadows, tried>>
-----------------------------------------------------------------------------
(* rollback: evidence, snapshot and counters are read, an active plugin is *)
(* disabled, and what was read is written over the row.  The promotion     *)
(* stays in the evidence.                                                  *)
MayRollback(p) == ev[p].promoted /\ snap[p] # NoSnap /\ row[p] # Absent

(* What will be written: the snapshot, with today's counters.              *)
Target(p) == [snap[p].life EXCEPT !.ok = life[p].ok, !.bad = life[p].bad]

Restored(p, r, l) ==
  /\ row' = [row EXCEPT ![p] = r]
  /\ life' = [life EXCEPT ![p] = l]
  /\ mixed' = mixed \cup {l.window}
  /\ UNCHANGED <<ev, snap, shadows, tried>>

rollbackAtOnce_Running(i, p) ==
  /\ calls[i] = Idle
  /\ MayRollback(p)
  /\ Restored(p, snap[p].row, Target(p))
  /\ UNCHANGED <<health, loaded, alive, calls, restarts, adrift>>

rollbackAtOnce(i, p) ==
  /\ calls[i] = Idle
  /\ MayRollback(p)
  /\ Inactive(p) \/ (MayDisable(p) /\ ~MustUnload(p))
  /\ health' = IF Inactive(p) THEN health ELSE [health EXCEPT ![p] = Fresh]
  /\ Restored(p, snap[p].row, Target(p))
  /\ UNCHANGED <<loaded, alive, calls, restarts, adrift>>

startRollback(i, p) ==
  /\ calls[i] = Idle
  /\ MayRollback(p)
  /\ MustUnload(p)
  /\ calls' = [calls EXCEPT ![i] = [Idle EXCEPT !.op = "rollback", !.p = p, !.await = "unload",
                                                !.row = snap[p].row, !.life = Target(p)]]
  /\ UNCHANGED <<row, life, loaded, alive, health, restarts, adrift, uvars>>

rollbackEnds(i) ==
  LET p == calls[i].p IN
  /\ calls[i].op = "rollback"
  /\ \/ /\ row[p] # Absent
        /\ Deactivated(i)
        /\ Restored(p, calls[i].row, calls[i].life)
        /\ health' = [health EXCEPT ![p] = Fresh]
     \/ /\ row[p] = Absent
        /\ Unloaded(i)
        /\ UNCHANGED <<life, uvars>>
     \/ /\ UnloadThrows(i)
        /\ UNCHANGED <<life, uvars>>
  /\ calls' = [calls EXCEPT ![i] = Idle]
-----------------------------------------------------------------------------
Next ==
  \/ PluginNext /\ UNCHANGED uvars
  \/ \E p \in Plugins, i \in Calls, k \in 1..3 : registerShadowVersion(p, i, k)
  \/ \E i \in Calls, p \in Plugins :
       startCanary(i, p) \/ startPromote(i, p) \/ rollbackAtOnce(i, p) \/ startRollback(i, p)
  \/ \E i \in Calls, ok \in BOOLEAN : canaryFailsToStart(i, ok) \/ promoteFails(i, ok)
  \/ \E i \in Calls : canaryRuns(i) \/ canaryPasses(i) \/ canaryStays(i) \/ rollbackEnds(i)
  \/ \E i \in Calls, k \in 1..2 : promoteEnds(i, k)

Spec == Init /\ [][Next]_vars
-----------------------------------------------------------------------------
(* A promoted plugin can be rolled back.                                   *)
Undoable == \A p \in Plugins : (life[p].channel = "active" /\ row[p] # Absent) => MayRollback(p)

(* An external plugin has a module activated only while it is promoted, or *)
(* a load or unload of it is under way, or it is adrift.                   *)
GateHolds == \A p \in Plugins \ Bundled : alive[p] # {} => Promoted(p) \/ Busy(p) \/ p \in adrift

(* A rollback leaves no module of the plugin activated, unless another     *)
(* load or unload of it is under way or it is adrift.                      *)
RollbackStops ==
  \A i \in Calls, p \in Plugins :
    (rollbackAtOnce(i, p) \/ (rollbackEnds(i) /\ calls[i].p = p)) =>
      alive'[p] = {} \/ Busy(p)' \/ p \in adrift'

(* A promotion starts only for a registration of which a canary passed and *)
(* none that has answered failed: unless a canary of another registration  *)
(* answered late, a promotion wrote its older row back, or a rollback put  *)
(* the counters of a later registration into the row.                      *)
PromotedGreen ==
  \A i \in Calls, p \in Plugins : startPromote(i, p) =>
    tried[life[p].window] = {TRUE} \/ life[p].window \in mixed
=============================================================================

---------------------------- MODULE PluginRuntime ----------------------------
(***************************************************************************)
(* Enabling, disabling, installing and uninstalling plugins: the service,  *)
(* the loader and the health monitor under src/src/plugins/services/.  A   *)
(* plugin has a row in SQLite, may be in the loader's map, and has one     *)
(* module per kind, activated one after the other and deactivated in       *)
(* reverse.  enablePlugin awaits the imports and every activate, and       *)
(* disablePlugin and uninstallPlugin await every deactivate; other         *)
(* requests run meanwhile.  Everything between two awaits is one step.     *)
(*                                                                         *)
(* A hook takes effect when it returns; one that throws has no effect.     *)
(* Preview policy, manifests, fingerprints and signatures decide whether a *)
(* load fails; that is a free choice here.  Status `configured` and        *)
(* `uninstalled` are never written by the code.                            *)
(***************************************************************************)
EXTENDS Naturals, Sequences

CONSTANTS Plugins,
          Order,          \* load plan of each plugin: dependencies, then itself
          Kinds,          \* modules of a plugin
          Bundled,        \* plugins exempt from the upgrade lifecycle
          Core,           \* of these, the core plugins: never removed
          Calls,          \* requests that may be in flight at once
          Threshold,      \* failureThreshold of the health monitor
          UnloadMayFail,  \* may a deactivate hook throw
          MaxRestarts     \* bound on restarts of the process

PluginConstants ==
  /\ Plugins # {}
  /\ Order \in [Plugins -> Seq(Plugins)]
  /\ \A p \in Plugins : Order[p] # <<>> /\ Order[p][Len(Order[p])] = p
  /\ Kinds \in Nat \ {0}
  /\ Core \subseteq Bundled /\ Bundled \subseteq Plugins
  /\ Threshold \in Nat \ {0}
  /\ UnloadMayFail \in BOOLEAN
  /\ MaxRestarts \in Nat

VARIABLES row,       \* plugins table: status, enabled; "absent" when there is no row
          life,      \* the row's columns of the upgrade lifecycle
          loaded,    \* the loader's map
          alive,     \* modules of each plugin that are activated
          health,    \* the health monitor's states
          calls,     \* what each request awaits
          restarts,
          adrift     \* history: plugins an operation failed on, or crossed
                     \* another on, with modules activated

pvars == <<row, life, loaded, alive, health, calls, restarts, adrift>>

Modules == 1..Kinds

Statuses == {"absent", "installed", "enabled", "running", "disabled", "error"}
Absent == [status |-> "absent", enabled |-> FALSE]
Fresh == [fails |-> 0, auto |-> FALSE]
NoLife == [channel |-> "none", compat |-> "unknown", window |-> 0, ok |-> FALSE, bad |-> FALSE]
Active == [channel |-> "active", compat |-> "compatible", window |-> 1, ok |-> TRUE, bad |-> FALSE]
Lives == [channel : {"none", "shadow", "canary", "active"},
          compat : {"unknown", "adaptation_required", "compatible"},
          window : Nat, ok : BOOLEAN, bad : BOOLEAN]

(* A request: what it does, for which plugin, what it awaits, the plugins  *)
(* of the load plan that are still to be loaded, how many hooks of the     *)
(* plugin at hand have returned, and what it saved.                        *)
Idle == [op |-> "idle", p |-> CHOOSE p \in Plugins : TRUE, await |-> "none", plan |-> <<>>, hook |-> 0,
         row |-> Absent, life |-> NoLife]
Ops == {"idle", "enable", "disable", "uninstall", "canary", "promote", "rollback"}

PluginTypeOK ==
  /\ row \in [Plugins -> [status : Statuses, enabled : BOOLEAN]]
  /\ life \in [Plugins -> Lives]
  /\ loaded \subseteq Plugins /\ adrift \subseteq Plugins
  /\ alive \in [Plugins -> SUBSET Modules]
  /\ health \in [Plugins -> [fails : 0..Threshold, auto : BOOLEAN]]
  /\ \A i \in Calls : calls[i].op \in Ops /\ calls[i].p \in Plugins /\ calls[i].await \in {"none", "load", "unload"} /\ calls[i].hook \in 0..Kinds - 1
  /\ restarts \in 0..MaxRestarts
  /\ \A p \in Plugins : row[p].status = "absent" => row[p] = Absent
  /\ \A p \in Plugins : health[p].fails = Threshold => health[p].auto

(* Every plugin is installed, its lifecycle done or not begun.             *)
PluginInit(lives) ==
  /\ row = [p \in Plugins |-> [status |-> "installed", enabled |-> FALSE]]
  /\ life \in [Plugins -> lives]
  /\ loaded = {} /\ adrift = {}
  /\ alive = [p \in Plugins |-> {}]
  /\ health = [p \in Plugins |-> Fresh]
  /\ calls = [i \in Calls |-> Idle]
  /\ restarts = 0
-----------------------------------------------------------------------------
(* setStatus, setEnabled and setError throw without a row: nothing to set. *)
Set(r, status, enabled) == IF r = Absent THEN Absent ELSE [status |-> status, enabled |-> enabled]

Errored(r) == Set(r, "error", r.enabled)

(* recordFailure: the third failure in a row disables the plugin, once.    *)
Failure(h) ==
  LET n == IF h.fails < Threshold THEN h.fails + 1 ELSE Threshold
  IN  [fails |-> n, auto |-> h.auto \/ n = Threshold]

Success(h) == [h EXCEPT !.fails = 0]

AutoDisables(h) == Failure(h).auto /\ ~h.auto

(* What a failed enable leaves, after the loader marked the error.         *)
EnableFailed(r, h) ==
  CASE AutoDisables(h) -> Set(r, "disabled", FALSE)
    [] h.auto          -> r
    [] OTHER           -> Set(r, "error", FALSE)

(* What a failed unload leaves (recordLifecycleFailure).                   *)
UnloadFailed(r, h) ==
  CASE AutoDisables(h) -> Set(r, "disabled", FALSE)
    [] h.auto          -> r
    [] OTHER           -> Set(r, "running", r.enabled)
-----------------------------------------------------------------------------
(* The gates of enablePlugin and of the loader.                            *)
Promoted(p) == life[p].channel = "active" /\ life[p].compat = "compatible"

LifecycleAllows_Any(p, op) == row[p] # Absent

LifecycleAllows(p, op) == p \in Bundled \/ op \in {"canary", "promote"} \/ Promoted(p)

MayEnable(p, op) ==
  /\ LifecycleAllows(p, op)
  /\ row[p].status \in {"installed", "disabled", "error"}
  /\ \A n \in DOMAIN Order[p] : row[Order[p][n]] # Absent

(* The loader takes the next plugin of the plan.                           *)
MayLoad(rows, p, op) == rows[p].status = "enabled" /\ LifecycleAllows(p, op)

(* Something of a plugin in S that is being given up is still there.       *)
LeftBehind(S) == adrift' = adrift \cup {q \in S : alive'[q] # {} \/ q \in loaded}

(* The plan's first plugin cannot be loaded: it is marked, the enable has  *)
(* failed.                                                                 *)
PlanFails(rows, p, d) ==
  /\ row' = [[rows EXCEPT ![d] = Errored(@)] EXCEPT ![p] = EnableFailed(@, health[p])]
  /\ health' = [health EXCEPT ![p] = Failure(@)]
  /\ LeftBehind({p, d})
-----------------------------------------------------------------------------
(* A request that awaits nothing still takes its turn.                     *)
Free == \E i \in Calls : calls[i] = Idle

installPlugin(p) ==
  /\ Free
  /\ row[p] = Absent
  /\ row' = [row EXCEPT ![p] = [status |-> "installed", enabled |-> FALSE]]
  /\ life' = [life EXCEPT ![p] = NoLife]
  /\ UNCHANGED <<loaded, alive, health, calls, restarts, adrift>>

(* enablePlugin: mark the row, start to load.  `save` is what a lifecycle  *)
(* operation keeps for later.                                              *)
StartEnable(i, p, op, save) ==
  LET marked == [row EXCEPT ![p] = [status |-> "enabled", enabled |-> TRUE]]
      d == Head(Order[p])
  IN  /\ calls[i] = Idle
      /\ MayEnable(p, op)
      /\ MayLoad(marked, d, op)
      /\ row' = marked
      /\ calls' = [calls EXCEPT ![i] = [op |-> op, p |-> p, await |-> "load", plan |-> Order[p], hook |-> 0,
                                        row |-> row[p], life |-> save]]
      /\ UNCHANGED <<life, loaded, alive, health, restarts, adrift>>

enablePlugin(i, p) == StartEnable(i, p, "enable", NoLife)

(* The first plugin of the plan is not ready: the request fails at once.   *)
enableRefused(p) ==
  LET marked == [row EXCEPT ![p] = [status |-> "enabled", enabled |-> TRUE]]
      d == Head(Order[p])
  IN  /\ Free
      /\ MayEnable(p, "enable")
      /\ ~MayLoad(marked, d, "enable")
      /\ UNCHANGED <<life, loaded, alive, calls, restarts>>
      /\ PlanFails(marked, p, d)

(* The plugin whose modules the request is activating.                     *)
Loading(i) == Head(calls[i].plan)

(* The next module is activated; the last one when the others have been.   *)
ActivatesNext(i) == alive' = [alive EXCEPT ![Loading(i)] = @ \cup {calls[i].hook + 1}]

AtLastHook(i) == calls[i].hook = Kinds - 1

Activates(i) ==
  /\ calls[i].await = "load" /\ ~AtLastHook(i)
  /\ ActivatesNext(i)
  /\ calls' = [calls EXCEPT ![i].hook = @ + 1]
  /\ UNCHANGED <<row, life, loaded, health, restarts, adrift>>

(* An import or activate threw, or the row has changed under the load: the *)
(* modules activated so far stay activated.                                *)
LoadStops(i, ok) ==
  /\ calls[i].await = "load"
  /\ IF ok THEN AtLastHook(i) /\ row[Loading(i)].status # "enabled" /\ ActivatesNext(i)
           ELSE UNCHANGED alive

LoadThrows(i, ok) ==
  /\ LoadStops(i, ok)
  /\ PlanFails(row, calls[i].p, Loading(i))
  /\ UNCHANGED <<loaded, restarts>>

(* All modules are activated, and the row still says enabled.              *)
LoadDone(i) ==
  /\ calls[i].await = "load" /\ AtLastHook(i)
  /\ row[Loading(i)].status = "enabled"
  /\ ActivatesNext(i)

(* Running and in the map, then the next plugin of the plan.               *)
LoadContinues(i) ==
  LET p == calls[i].p
      marked == [row EXCEPT ![Loading(i)].status = "running"]
      rest == Tail(calls[i].plan)
  IN  /\ LoadDone(i)
      /\ rest # <<>>
      /\ loaded' = loaded \cup {Loading(i)}
      /\ IF MayLoad(marked, Head(rest), calls[i].op)
           THEN /\ row' = marked
                /\ calls' = [calls EXCEPT ![i].plan = rest, ![i].hook = 0]
                /\ UNCHANGED <<health, adrift>>
           ELSE /\ PlanFails(marked, p, Head(rest))
                /\ calls' = [calls EXCEPT ![i] = Idle]
      /\ UNCHANGED <<life, restarts>>

(* Every plugin of the plan runs; enablePlugin has succeeded.              *)
Loaded_Unmapped(i) ==
  /\ LoadDone(i)
  /\ Len(calls[i].plan) = 1
  /\ row' = [row EXCEPT ![calls[i].p].status = "running"]
  /\ health' = [health EXCEPT ![calls[i].p] = Success(@)]
  /\ UNCHANGED <<loaded, restarts, adrift>>

Loaded(i) ==
  /\ LoadDone(i)
  /\ Len(calls[i].plan) = 1
  /\ row' = [row EXCEPT ![calls[i].p].status = "running"]
  /\ loaded' = loaded \cup {calls[i].p}
  /\ health' = [health EXCEPT ![calls[i].p] = Success(@)]
  /\ UNCHANGED <<restarts, adrift>>

enableEnds(i, ok) ==
  /\ calls[i].op = "enable"
  /\ \/ LoadThrows(i, ok)
     \/ ok /\ Loaded(i)
  /\ calls' = [calls EXCEPT ![i] = Idle]
  /\ UNCHANGED life
-----------------------------------------------------------------------------
(* disablePlugin and uninstallPlugin unload only what is running and in    *)
(* the map; anything else is marked or removed at once.                    *)
MustUnload(p) == row[p].status = "running" /\ p \in loaded

StartUnload(i, p, op) ==
  /\ calls[i] = Idle
  /\ MustUnload(p)
  /\ calls' = [calls EXCEPT ![i] = [Idle EXCEPT !.op = op, !.p = p, !.await = "unload"]]
  /\ UNCHANGED <<row, life, loaded, alive, health, restarts, adrift>>

MayDisable(p) == row[p].status \in {"enabled", "running", "error"}

disableAtOnce(p) ==
  /\ Free
  /\ MayDisable(p) /\ ~MustUnload(p)
  /\ row' = [row EXCEPT ![p] = [status |-> "disabled", enabled |-> FALSE]]
  /\ health' = [health EXCEPT ![p] = Fresh]
  /\ UNCHANGED <<life, loaded, alive, calls, restarts, adrift>>

(* Another request is loading the plugin.                                  *)
BeingLoaded(p) == \E i \in Calls : calls[i].await = "load" /\ Loading(i) = p

(* The next module, from the last to the first, is deactivated.            *)
DeactivatesNext(i) == alive' = [alive EXCEPT ![calls[i].p] = @ \ {Kinds - calls[i].hook}]

Deactivates(i) ==
  /\ calls[i].await = "unload" /\ ~AtLastHook(i)
  /\ DeactivatesNext(i)
  /\ calls' = [calls EXCEPT ![i].hook = @ + 1]
  /\ adrift' = IF BeingLoaded(calls[i].p) THEN adrift \cup {calls[i].p} ELSE adrift
  /\ UNCHANGED <<row, life, loaded, health, restarts>>

(* A deactivate hook threw: the plugin stays in the map, partly activated. *)
(* Without a row only the health monitor notices.                          *)
UnloadThrows(i) ==
  LET p == calls[i].p IN
  /\ calls[i].await = "unload"
  /\ UnloadMayFail
  /\ row' = [row EXCEPT ![p] = UnloadFailed(@, health[p])]
  /\ health' = [health EXCEPT ![p] = Failure(@)]
  /\ adrift' = adrift \cup {p}
  /\ UNCHANGED <<loaded, alive, restarts>>

(* All modules are deactivated: out of the map.                            *)
Deactivated(i) ==
  LET p == calls[i].p IN
  /\ calls[i].await = "unload" /\ AtLastHook(i)
  /\ DeactivatesNext(i)
  /\ loaded' = loaded \ {p}
  /\ adrift' = IF alive'[p] = {} /\ ~BeingLoaded(p) THEN adrift \ {p} ELSE adrift \cup {p}
  /\ UNCHANGED restarts

(* Then disabled, and its health forgotten.                                *)
Unloaded(i) ==
  LET p == calls[i].p IN
  /\ Deactivated(i)
  /\ row' = [row EXCEPT ![p] = Set(@, "disabled", FALSE)]
  /\ health' = [health EXCEPT ![p] = IF row[p] = Absent THEN Failure(@) ELSE Fresh]

disableEnds(i) ==
  /\ calls[i].op = "disable"
  /\ Unloaded(i) \/ UnloadThrows(i)
  /\ calls' = [calls EXCEPT ![i] = Idle]
  /\ UNCHANGED life

(* uninstallPlugin: refused for core plugins and, unless forced, for       *)
(* plugins that an installed plugin depends on.                            *)
MayUninstall(p, force) ==
  /\ p \notin Core
  /\ row[p] # Absent
  /\ force \/ \A q \in Plugins \ {p} : row[q] # Absent => \A n \in DOMAIN Order[q] : Order[q][n] # p

uninstallAtOnce(p, force) ==
  /\ Free
  /\ MayUninstall(p, force) /\ ~MustUnload(p)
  /\ row' = [row EXCEPT ![p] = Absent]
  /\ health' = [health EXCEPT ![p] = Fresh]
  /\ life' = [life EXCEPT ![p] = NoLife]
  /\ UNCHANGED <<loaded, alive, calls, restarts, adrift>>

uninstallEnds(i) ==
  LET p == calls[i].p IN
  /\ calls[i].op = "uninstall"
  /\ \/ /\ Deactivated(i)
        /\ row' = [row EXCEPT ![p] = Absent]
        /\ life' = [life EXCEPT ![p] = NoLife]
        /\ health' = [health EXCEPT ![p] = IF row[p] = Absent THEN Failure(@) ELSE Fresh]
     \/ UnloadThrows(i) /\ UNCHANGED life
  /\ calls' = [calls EXCEPT ![i] = Idle]
-----------------------------------------------------------------------------
(* The process dies; the rows stay as they are.                            *)
Dies ==
  /\ restarts < MaxRestarts
  /\ restarts' = restarts + 1
  /\ loaded' = {} /\ adrift' = {}
  /\ alive' = [p \in Plugins |-> {}]
  /\ health' = [p \in Plugins |-> Fresh]

Restart ==
  /\ Dies
  /\ calls' = [i \in Calls |-> Idle]
  /\ UNCHANGED <<row, life>>

(* The requests of the plugin routes.                                      *)
Requests ==
  \/ \E p \in Plugins : installPlugin(p) \/ enableRefused(p) \/ disableAtOnce(p)
  \/ \E p \in Plugins, force \in BOOLEAN : uninstallAtOnce(p, force)
  \/ \E i \in Calls, p \in Plugins : enablePlugin(i, p)
  \/ \E i \in Calls, p \in Plugins : StartUnload(i, p, "disable")
  \/ \E i \in Calls, p \in Plugins : StartUnload(i, p, "uninstall") /\ \E force \in BOOLEAN : MayUninstall(p, force)
  \/ \E i \in Calls : Activates(i) \/ Deactivates(i) \/ LoadContinues(i) \/ disableEnds(i) \/ uninstallEnds(i)
  \/ \E i \in Calls, ok \in BOOLEAN : enableEnds(i, ok)

PluginNext == Requests \/ Restart

PluginSpec == PluginInit({NoLife, Active}) /\ [][PluginNext]_pvars
-----------------------------------------------------------------------------
(* A load or an unload of the plugin is under way.                         *)
BeingUnloaded(p) == \E i \in Calls : calls[i].await = "unload" /\ calls[i].p = p

Busy(p) == BeingLoaded(p) \/ BeingUnloaded(p)

(* In the process that loaded it, a plugin whose row says running is in    *)
(* the loader's map with all its modules activated, whatever requests      *)
(* overlap: unless it is being unloaded, or is adrift.                     *)
RunningIsLoaded ==
  \A p \in Plugins : (row[p].status = "running" /\ restarts = 0) =>
    (p \in loaded /\ alive[p] = Modules) \/ BeingUnloaded(p) \/ p \in adrift

(* No module is activated that the loader could not deactivate again:      *)
(* unless its plugin is being loaded, or is adrift.                        *)
Tracked == \A p \in Plugins : alive[p] # {} => p \in loaded \/ BeingLoaded(p) \/ p \in adrift

(* A plugin that is disabled, failed or gone has no module activated:      *)
(* unless a load or unload of it is under way, or it is adrift.            *)
OffIsOff ==
  \A p \in Plugins : row[p].status # "running" => alive[p] = {} \/ Busy(p) \/ p \in adrift

(* Enabling a plugin leaves a running plugin it depends on running.  This  *)
(* does not hold: the loader marks it as failed, for it is loaded already. *)
DependencyUndisturbed ==
  \A p, d \in Plugins : (enableRefused(p) /\ d # p /\ row[d].status = "running") => row'[d].status = "running"

(* Only a running plugin, or one that is being loaded, counts as enabled.  *)
(* This does not hold: a failed load that disables nothing keeps the flag. *)
FailedIsOff ==
  \A p \in Plugins : row[p].enabled => row[p].status \in {"enabled", "running"}
=============================================================================

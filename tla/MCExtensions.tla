---------------------------- MODULE MCExtensions ----------------------------
(***************************************************************************)
(* Model checking what extends the hub: the dependency resolver, the       *)
(* upgrade lifecycles of adapters, servers, provider profiles and skills,  *)
(* and the plugin runtime with its own lifecycle. They share no state in   *)
(* these modules: a behaviour is one of a single scenario, the rest stays  *)
(* as it was.                                                              *)
(***************************************************************************)
EXTENDS LoadPlan

VARIABLES
    scenario,
    adapter, file, probes, valid, outages, seen, used, act, base,
    active, shadow, backup, evidence, skill, tries, shadows, crashes, outcomes,
    plugin, life, loaded, alive, health, requests, restarts, adrift, filed, snap, windows, tried, mixed

upgrade == <<adapter, file, probes, valid, outages, seen, used, act, base>>
skills == <<active, shadow, backup, evidence, skill, tries, shadows, crashes, outcomes>>
plugins == <<plugin, life, loaded, alive, health, requests, restarts, adrift, filed, snap, windows, tried, mixed>>

\* Three plugins, any one of which is missing or has the wrong version
Faults == INSTANCE LoadPlan WITH Plugins <- {1, 2, 3}

\* The lifecycle of an adapter, server or profile with the constants in k
Life(k) == INSTANCE UpgradeLifecycle WITH
    row <- adapter, calls <- probes, crashes <- outages, ran <- seen,
    Kind <- k.kind, Versions <- k.versions, NoVersion <- k.none, Tuples <- k.tuples,
    Calls <- k.calls, Restage <- k.restage, MaxShadows <- k.shadows, MaxCanaries <- k.canaries,
    MaxCrashes <- k.crashes

\* Adapters registered again and again, with two tuples
Adapter == [kind |-> "channel", versions |-> {"v1", "v2"}, tuples |-> {"t1", "t2"},
            calls |-> {}, restage |-> TRUE, none |-> "none", shadows |-> 3, canaries |-> 4, crashes |-> 0]
\* Adapters registered in turn, with crashes between the two writes
Orderly == [kind |-> "channel", versions |-> {"v1", "v2", "v3"}, tuples |-> {"t1"},
            calls |-> {}, restage |-> FALSE, none |-> "none", shadows |-> 3, canaries |-> 6, crashes |-> 2]
\* Provider profiles, with a probe in flight and crashes
Provider == [kind |-> "provider", versions |-> {"v1", "v2", "v3"}, tuples |-> {"t1"},
             calls |-> {"c1"}, restage |-> FALSE, none |-> "none", shadows |-> 3, canaries |-> 5, crashes |-> 2]
\* MCP servers, with a probe in flight
Server == [kind |-> "mcp", versions |-> {"v1", "v2", "v3"}, tuples |-> {"t1"},
           calls |-> {"c1"}, restage |-> FALSE, none |-> "none", shadows |-> 3, canaries |-> 5, crashes |-> 0]

\* The lifecycle of a skill with the constants in k
Skill(k) == INSTANCE SkillLifecycle WITH
    row <- skill, calls <- tries, ran <- outcomes, ev <- evidence,
    Candidates <- k.candidates, Original <- k.original, None <- k.none, Torn <- k.torn,
    Calls <- k.calls, Again <- k.again, MaxShadows <- k.shadows, MaxCrashes <- k.crashes

\* Overlapping canaries, registrations and a crash
Proven == [candidates |-> {"k1", "k2"}, original |-> "original", none |-> "none", torn |-> "torn",
           calls |-> {"i1", "i2"}, again |-> TRUE, shadows |-> 2, crashes |-> 1]
\* A crash at any step of an operation, each candidate registered once
Cut == [candidates |-> {"k1", "k2"}, original |-> "original", none |-> "none", torn |-> "torn",
        calls |-> {"i1"}, again |-> FALSE, shadows |-> 2, crashes |-> 1]
\* No crashes, candidates registered again
Quiet == [candidates |-> {"k1", "k2"}, original |-> "original", none |-> "none", torn |-> "torn",
          calls |-> {"i1"}, again |-> TRUE, shadows |-> 4, crashes |-> 0]

\* The plugin runtime and its lifecycle with the constants in k
Plug(k) == INSTANCE PluginUpgrade WITH
    row <- plugin, calls <- requests, ev <- filed, shadows <- windows,
    Plugins <- k.plugins, Order <- k.order, Kinds <- k.kinds, Bundled <- k.bundled, Core <- k.core,
    Calls <- k.calls, Threshold <- k.threshold, UnloadMayFail <- k.unloadMayFail, MaxRestarts <- k.maxRestarts,
    MaxShadows <- k.maxShadows

Chain == [p \in {"p1", "p2"} |-> IF p = "p1" THEN <<"p1">> ELSE <<"p1", "p2">>]
Single == [p \in {"p1"} |-> <<p>>]

\* The plugin routes, two requests at a time: p2 needs p1, a core plugin
Routes == [plugins |-> {"p1", "p2"}, order |-> Chain, kinds |-> 2, bundled |-> {"p1"}, core |-> {"p1"},
           calls |-> {1, 2}, threshold |-> 2, unloadMayFail |-> TRUE, maxRestarts |-> 0, maxShadows |-> 0]
\* The lifecycle under two requests at a time, registered once
Undo == [plugins |-> {"p1"}, order |-> Single, kinds |-> 2, bundled |-> {}, core |-> {}, calls |-> {1, 2},
         threshold |-> 2, unloadMayFail |-> FALSE, maxRestarts |-> 0, maxShadows |-> 1]
\* The same with a restart and deactivate hooks that throw
Gate == [plugins |-> {"p1"}, order |-> Single, kinds |-> 2, bundled |-> {}, core |-> {}, calls |-> {1, 2},
         threshold |-> 2, unloadMayFail |-> TRUE, maxRestarts |-> 1, maxShadows |-> 1]
\* The lifecycle of a plugin that is registered again, one request at a time
Again == [plugins |-> {"p1"}, order |-> Single, kinds |-> 2, bundled |-> {}, core |-> {}, calls |-> {1},
          threshold |-> 2, unloadMayFail |-> TRUE, maxRestarts |-> 1, maxShadows |-> 2]

ASSUME /\ Life(Adapter)!UpgradeConstants /\ Life(Orderly)!UpgradeConstants
       /\ Life(Provider)!UpgradeConstants /\ Life(Server)!UpgradeConstants
       /\ Skill(Proven)!SkillConstants /\ Skill(Cut)!SkillConstants /\ Skill(Quiet)!SkillConstants
       /\ Plug(Routes)!PluginConstants /\ Plug(Undo)!UpgradeConstants
       /\ Plug(Gate)!UpgradeConstants /\ Plug(Again)!UpgradeConstants

-----------------------------------------------------------------------------
\* Every graph on the plugins, all of them installed, fitting and expanded.
GraphInit ==
    /\ installed = Plugins /\ unmet = {} /\ targets = Plugins
    /\ deps \in {f \in [Plugins -> SUBSET Plugins] : \A p \in Plugins : p \notin f[p]}
    /\ phase = "expand" /\ todo = {} /\ relevant = Plugins
    /\ degree = [p \in Plugins |-> 0]
    /\ queue = <<>> /\ batch = {} /\ order = <<>> /\ path = <<>> /\ visited = {}

\* One fault at most; one plugin or all of them are asked for.
FaultInit ==
    /\ installed \in {S \in SUBSET {1, 2, 3} : Cardinality(S) >= 2}
    /\ deps \in [{1, 2, 3} -> SUBSET {1, 2, 3}]
    /\ unmet \in {{}} \cup {{<<p, d>>} : p \in installed, d \in installed}
    /\ unmet # {} => installed = {1, 2, 3} /\ \A e \in unmet : e[2] \in deps[e[1]]
    /\ targets \in {{1}, {1, 2, 3}}
    /\ phase = "expand" /\ todo = {<<0, p>> : p \in targets} /\ relevant = {}
    /\ degree = [p \in {1, 2, 3} |-> 0]
    /\ queue = <<>> /\ batch = {} /\ order = <<>> /\ path = <<>> /\ visited = {}

\* Nothing is asked of the resolver.
NoPlan ==
    /\ installed = {} /\ unmet = {} /\ targets = {} /\ deps = [p \in Plugins |-> {}]
    /\ phase = "planned" /\ todo = {} /\ relevant = {} /\ degree = [p \in Plugins |-> 0]
    /\ queue = <<>> /\ batch = {} /\ order = <<>> /\ path = <<>> /\ visited = {}

NoPlugins == Plug(Gate)!Init
NoSkills == Skill(Quiet)!Init /\ active = "none"

MCInit ==
    \/ /\ \/ scenario = "graphs" /\ GraphInit
          \/ scenario = "faults" /\ FaultInit
       /\ Life(Adapter)!Init /\ NoSkills /\ NoPlugins
    \/ /\ \/ scenario = "adapter" /\ Life(Adapter)!Init
          \/ scenario = "orderly" /\ Life(Orderly)!Init
          \/ scenario = "provider" /\ Life(Provider)!Init
          \/ scenario = "server" /\ Life(Server)!Init
       /\ NoPlan /\ NoSkills /\ NoPlugins
    \/ /\ \/ scenario = "proven" /\ Skill(Proven)!Init
          \/ scenario = "cut" /\ Skill(Cut)!Init
          \/ scenario = "quiet" /\ Skill(Quiet)!Init
       /\ NoPlan /\ Life(Adapter)!Init /\ NoPlugins
    \/ /\ scenario = "routes" /\ Plug(Routes)!PluginInit({Plug(Routes)!NoLife, Plug(Routes)!Active})
       /\ life["p1"] = Plug(Routes)!NoLife
       /\ filed = <<>> /\ snap = <<>> /\ windows = 0 /\ tried = <<>> /\ mixed = {}
       /\ NoPlan /\ Life(Adapter)!Init /\ NoSkills
    \/ /\ \/ scenario = "undo" /\ Plug(Undo)!Init
          \/ scenario = "gate" /\ Plug(Gate)!Init
          \/ scenario = "again" /\ Plug(Again)!Init
       /\ NoPlan /\ Life(Adapter)!Init /\ NoSkills

Planning ==
    /\ \/ scenario = "graphs" /\ Next
       \/ scenario = "faults" /\ Faults!Next
    /\ UNCHANGED <<scenario, upgrade, skills, plugins>>

Upgrading ==
    /\ \/ scenario = "adapter" /\ Life(Adapter)!Next
       \/ scenario = "orderly" /\ Life(Orderly)!Next
       \/ scenario = "provider" /\ Life(Provider)!Next
       \/ scenario = "server" /\ Life(Server)!Next
    /\ UNCHANGED <<scenario, vars, skills, plugins>>

Replacing ==
    /\ \/ scenario = "proven" /\ Skill(Proven)!Next
       \/ scenario = "cut" /\ Skill(Cut)!Next
       \/ scenario = "quiet" /\ Skill(Quiet)!Next
    /\ UNCHANGED <<scenario, vars, upgrade, plugins>>

Plugging ==
    /\ \/ scenario = "routes" /\ Plug(Routes)!PluginNext /\ UNCHANGED <<filed, snap, windows, tried, mixed>>
       \/ scenario = "undo" /\ Plug(Undo)!Next
       \/ scenario = "gate" /\ Plug(Gate)!Next
       \/ scenario = "again" /\ Plug(Again)!Next
    /\ UNCHANGED <<scenario, vars, upgrade, skills>>

MCNext == Planning \/ Upgrading \/ Replacing \/ Plugging

MCSpec == MCInit /\ [][MCNext]_<<scenario, vars, upgrade, skills, plugins>>

-----------------------------------------------------------------------------
\* The resolver answers rightly: a plan only for what is installed, fits and
\* has no cycle, and then the least one; an error only for its reason, and a
\* cycle that is one.
PlanRight ==
    /\ scenario = "graphs" => VerdictRight /\ PlanLeast /\ CycleReal
    /\ scenario = "faults" => Faults!TypeOK /\ Faults!VerdictRight

\* What goes into service was proven by its own canaries: of skills, whatever
\* registrations, crashes and late answers they overlapped; of adapters, over
\* any registrations; of provider profiles, one canary at a time and versions
\* registered in turn, as overlapping canaries overwrite each other's counters;
\* of plugins, except where the counters of registrations were mixed; servers
\* keep no such promise. And an adapter's canaries of an earlier registration
\* hold nothing back.
PromotedProven ==
    /\ [](scenario = "adapter" => Life(Adapter)!TypeOK /\ Life(Adapter)!GreenPromotes)
    /\ [][/\ scenario = "adapter" => Life(Adapter)!PromotedGreen
          /\ scenario = "provider" => Life(Provider)!PromotedGreen
          /\ scenario = "proven" => Skill(Proven)!PromotedProven
          /\ scenario = "gate" => Plug(Gate)!PromotedGreen
          /\ scenario = "again" => Plug(Again)!PromotedGreen]_<<upgrade, skills, plugins>>

\* What is in service can be undone, and undoing restores what was in service
\* before: of adapters, profiles and skills through crashes between the writes
\* of an operation, of servers and plugins in one process. A plugin that is
\* rolled back has no module left activated, also after a restart, except
\* through what failed or overlapped.
RollbackKept ==
    /\ [](/\ scenario = "orderly" => Life(Orderly)!Undoable
          /\ scenario = "server" => Life(Server)!Undoable
          /\ scenario = "cut" => Skill(Cut)!OriginalKept
          /\ scenario = "quiet" => Skill(Quiet)!TypeOK /\ Skill(Quiet)!DiskMatchesRow
          /\ scenario = "undo" => Plug(Undo)!TypeOK /\ Plug(Undo)!Undoable)
    /\ [][/\ scenario = "orderly" => Life(Orderly)!RollbackRestores /\ Life(Orderly)!RollbackOfPromoted
          /\ scenario = "provider" => Life(Provider)!RollbackRestores
          /\ scenario = "gate" => Plug(Gate)!RollbackStops
          /\ scenario = "again" => Plug(Again)!RollbackStops]_<<upgrade, plugins>>

\* Whatever requests overlap: a plugin whose row says running has all its
\* modules activated and is known to the loader, what is activated can be
\* deactivated, what is off is off, and an external plugin is activated only
\* when it is promoted or on its way; except through what failed or overlapped.
PluginsTracked ==
    /\ scenario = "routes" =>
         Plug(Routes)!PluginTypeOK /\ Plug(Routes)!RunningIsLoaded /\ Plug(Routes)!Tracked /\ Plug(Routes)!OffIsOff
    /\ scenario = "gate" =>
         Plug(Gate)!RunningIsLoaded /\ Plug(Gate)!Tracked /\ Plug(Gate)!OffIsOff /\ Plug(Gate)!GateHolds
=============================================================================

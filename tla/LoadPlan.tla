------------------------------- MODULE LoadPlan -------------------------------
(***************************************************************************)
(* The plugin dependency resolver: from the installed plugins and the ones *)
(* asked for, an order that loads every dependency first, or the error.    *)
(* Plugin ids are positive integers, whose order is the lexical one.       *)
(* (plugins/services/friday-plugin-dependency-resolver.ts)                 *)
(***************************************************************************)
EXTENDS Integers, Sequences, FiniteSets

CONSTANT Plugins   \* the plugin ids that manifests may name

ASSUME PluginsAssumption == Plugins \subseteq Nat \ {0} /\ IsFiniteSet(Plugins)

VARIABLES
    installed,  \* the keys of pluginMap
    deps,       \* deps[p]: the keys of p's manifest.dependencies
    unmet,      \* the edges <<p, d>> whose range d's version does not satisfy
    targets,    \* targetIds
    phase,      \* where resolveLoadOrder is
    todo,       \* the edges that expand has still to follow; <<0, p>>: a target
    relevant,   \* relevantIds
    degree,     \* inDegree
    queue,      \* the ids with no dependency left, in lexical order
    batch,      \* nextBatch: the ids to be inserted into the queue
    order,      \* the plan so far
    path, visited  \* of extractCycle

input == <<installed, deps, unmet, targets>>
vars == <<input, phase, todo, relevant, degree, queue, batch, order, path, visited>>

Errors == {"missing", "mismatch", "cyclic"}

TypeOK ==
    /\ installed \subseteq Plugins /\ deps \in [Plugins -> SUBSET Plugins]
    /\ unmet \subseteq Plugins \X Plugins /\ targets \subseteq Plugins
    /\ phase \in {"expand", "sort", "cycle", "planned"} \cup Errors
    /\ todo \subseteq (Plugins \cup {0}) \X Plugins
    /\ relevant \subseteq installed /\ degree \in [Plugins -> Int]
    /\ queue \in Seq(Plugins) /\ batch \subseteq Plugins /\ order \in Seq(Plugins)
    /\ path \in Seq(Plugins) /\ visited \subseteq Plugins

InSeq(s) == {s[i] : i \in 1..Len(s)}

Least(S) == CHOOSE x \in S : \A y \in S : x <= y

Init ==
    /\ installed \in SUBSET Plugins
    /\ deps \in [Plugins -> SUBSET Plugins]
    /\ unmet \in SUBSET (Plugins \X Plugins)
    /\ targets \in SUBSET Plugins
    /\ phase = "expand" /\ todo = {<<0, p>> : p \in targets} /\ relevant = {}
    /\ degree = [p \in Plugins |-> 0]
    /\ queue = <<>> /\ batch = {} /\ order = <<>> /\ path = <<>> /\ visited = {}

-----------------------------------------------------------------------------
\* expand follows one edge. Which edge comes next is the order of the
\* manifests, so it is left open.
Expand(e) ==
    /\ phase = "expand" /\ e \in todo
    /\ LET p == e[2] IN
       IF p \notin installed THEN phase' = "missing" /\ UNCHANGED <<todo, relevant>>
       ELSE IF e \in unmet THEN phase' = "mismatch" /\ UNCHANGED <<todo, relevant>>
       ELSE /\ relevant' = relevant \cup {p}
            /\ todo' = (todo \ {e}) \cup
                   IF p \in relevant THEN {} ELSE {<<p, d>> : d \in deps[p]}
            /\ UNCHANGED phase
    /\ UNCHANGED <<input, degree, queue, batch, order, path, visited>>

\* The degrees, and the ids of degree zero to be queued in order.
Start ==
    /\ phase = "expand" /\ todo = {}
    /\ phase' = "sort"
    /\ degree' = [p \in Plugins |-> IF p \in relevant THEN Cardinality(deps[p] \cap relevant)
                                    ELSE 0]
    /\ batch' = {p \in relevant : deps[p] \cap relevant = {}}
    /\ UNCHANGED <<input, todo, relevant, queue, order, path, visited>>

Insert_Pushed ==
    /\ phase = "sort" /\ batch # {}
    /\ LET n == Least(batch) IN
       /\ batch' = batch \ {n}
       /\ queue' = Append(queue, n)
    /\ UNCHANGED <<input, phase, todo, relevant, degree, order, path, visited>>

\* The next id of the sorted batch goes before the first larger one.
Insert ==
    /\ phase = "sort" /\ batch # {}
    /\ LET n == Least(batch)
           larger == {i \in 1..Len(queue) : queue[i] > n}
           k == IF larger = {} THEN Len(queue) + 1 ELSE Least(larger)
       IN  /\ batch' = batch \ {n}
           /\ queue' = [i \in 1..Len(queue) + 1 |->
                          IF i < k THEN queue[i] ELSE IF i = k THEN n ELSE queue[i - 1]]
    /\ UNCHANGED <<input, phase, todo, relevant, degree, order, path, visited>>

Shift_Eager ==
    /\ phase = "sort" /\ batch = {} /\ queue # <<>>
    /\ LET cur == Head(queue)
           next == {p \in relevant : cur \in deps[p]}
       IN  /\ order' = Append(order, cur)
           /\ queue' = Tail(queue)
           /\ degree' = [p \in Plugins |-> IF p \in next THEN degree[p] - 1 ELSE degree[p]]
           /\ batch' = {p \in next : degree[p] <= 2}
    /\ UNCHANGED <<input, phase, todo, relevant, path, visited>>

\* The first id of the queue is planned, and each neighbour has one
\* dependency less; the ones with none left are the next batch.
Shift ==
    /\ phase = "sort" /\ batch = {} /\ queue # <<>>
    /\ LET cur == Head(queue)
           next == {p \in relevant : cur \in deps[p]}
       IN  /\ order' = Append(order, cur)
           /\ queue' = Tail(queue)
           /\ degree' = [p \in Plugins |-> IF p \in next THEN degree[p] - 1 ELSE degree[p]]
           /\ batch' = {p \in next : degree'[p] = 0}
    /\ UNCHANGED <<input, phase, todo, relevant, path, visited>>

\* The queue is empty: the plan, or the search for a cycle among the rest.
Ends ==
    /\ phase = "sort" /\ batch = {} /\ queue = <<>>
    /\ phase' = IF Len(order) < Cardinality(relevant) THEN "cycle" ELSE "planned"
    /\ UNCHANGED <<input, todo, relevant, degree, queue, batch, order, path, visited>>

remaining == relevant \ InSeq(order)

\* extractCycle: dfs enters a node of the remaining ones, from the outer loop
\* when the path is empty.
Enter(p) ==
    /\ phase = "cycle" /\ p \in remaining \ visited
    /\ path # <<>> => p \in deps[path[Len(path)]]
    /\ path' = Append(path, p) /\ visited' = visited \cup {p}
    /\ UNCHANGED <<input, phase, todo, relevant, degree, queue, batch, order>>

\* A dependency is on the path: the cycle is the path from there, closed.
Closes(d) ==
    /\ phase = "cycle" /\ path # <<>> /\ d \in deps[path[Len(path)]] \cap InSeq(path)
    /\ phase' = "cyclic"
    /\ LET start == CHOOSE i \in 1..Len(path) : path[i] = d
       IN  path' = SubSeq(path, start, Len(path)) \o <<d>>
    /\ UNCHANGED <<input, todo, relevant, degree, queue, batch, order, visited>>

Backs ==
    /\ phase = "cycle" /\ path # <<>>
    /\ deps[path[Len(path)]] \cap remaining \subseteq visited \ InSeq(path)
    /\ path' = SubSeq(path, 1, Len(path) - 1)
    /\ UNCHANGED <<input, phase, todo, relevant, degree, queue, batch, order, visited>>

Next ==
    \/ \E e \in todo : Expand(e)
    \/ Start \/ Insert \/ Shift \/ Ends
    \/ \E p \in remaining : Enter(p)
    \/ \E d \in Plugins : Closes(d)
    \/ Backs

Spec == Init /\ [][Next]_vars

-----------------------------------------------------------------------------
(* Properties                                                              *)

\* Whatever the plan holds so far loads each plugin after all of the plugins
\* that it depends on, the ones only reached through others included.
DependenciesFirst ==
    \A i \in 1..Len(order) : \A d \in deps[order[i]] :
        \E j \in 1..(i - 1) : order[j] = d

\* What the targets need: the least set that holds them and is closed.
Needed ==
    {p \in Plugins : \A S \in SUBSET Plugins :
        targets \subseteq S /\ (\A q \in S : deps[q] \subseteq S) => p \in S}

Cyclic(S) == \E C \in SUBSET S : C # {} /\ \A p \in C : deps[p] \cap C # {}

Faulty(e) == e[1] \in Needed /\ e[2] \in deps[e[1]] /\ e \in unmet

\* The answer is the right one: a plan only when everything needed is
\* installed, fits and is free of cycles, and each error only for its reason.
VerdictRight ==
    /\ phase = "planned" => /\ InSeq(order) = Needed /\ Needed \subseteq installed
                            /\ ~Cyclic(Needed)
                            /\ ~\E e \in Plugins \X Plugins : Faulty(e)
    /\ phase = "missing" => ~(Needed \subseteq installed)
    /\ phase = "mismatch" => \E e \in Plugins \X Plugins : Faulty(e)
    /\ phase \in {"cycle", "cyclic"} => Cyclic(Needed)

Before(s, t) == \E i \in 1..Len(s) : s[i] < t[i] /\ \A j \in 1..(i - 1) : s[j] = t[j]

\* The lexical tie-break: of all the orders that load dependencies first, the
\* plan is the least.
PlanLeast ==
    phase = "planned" =>
        ~\E s \in [1..Len(order) -> Needed] :
            /\ \A i \in 1..Len(order) : deps[s[i]] \subseteq {s[j] : j \in 1..(i - 1)}
            /\ InSeq(s) = Needed /\ Before(s, order)

\* The cycle reported is a cycle of dependencies, and the search of what
\* remains never ends without one (the fallback of extractCycle is dead code).
CycleReal ==
    /\ phase = "cyclic" =>
         /\ Len(path) > 1 /\ path[1] = path[Len(path)]
         /\ \A i \in 1..(Len(path) - 1) : path[i + 1] \in deps[path[i]]
         /\ \A i, j \in 1..(Len(path) - 1) : path[i] = path[j] => i = j
    /\ phase = "cycle" /\ path = <<>> => remaining \ visited # {}
===============================================================================

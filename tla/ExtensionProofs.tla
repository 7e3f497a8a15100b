--------------------------- MODULE ExtensionProofs ---------------------------
(***************************************************************************)
(* Proofs about what extends the hub: the dependency resolver, for any     *)
(* finite set of plugins, any manifests and any targets; the upgrade       *)
(* lifecycles of adapters, servers, provider profiles and skills, and the  *)
(* plugin runtime with its lifecycle, for any value k of their constants;  *)
(* and the scenarios of MCExtensions, which are values of k.               *)
(***************************************************************************)
EXTENDS MCExtensions, FiniteSetTheorems, SequenceTheorems, WellFoundedInduction, TLAPS

-----------------------------------------------------------------------------
(* Helpers                                                                 *)

\* A nonempty set of naturals has a least element, and Least is it.
LEMMA LeastIn ==
    ASSUME NEW S, S \subseteq Nat, S # {}
    PROVE  Least(S) \in S /\ \A y \in S : Least(S) <= y
<1>1. PICK x \in S : \A y \in S : ~(<<y, x>> \in OpToRel(<, Nat))
  BY NatLessThanWellFounded, WFMin
<1>2. ASSUME NEW y \in S
      PROVE  x <= y
  <2>1. ~(<<y, x>> \in {ss \in Nat \X Nat : ss[1] < ss[2]})
    BY <1>1 DEF OpToRel
  <2>2. <<y, x>> \in Nat \X Nat
    OBVIOUS
  <2>3. ~(y < x)
    BY <2>1, <2>2
  <2> QED
    BY <2>3
<1> QED
  BY <1>2 DEF Least

LEMMA InAppend ==
    ASSUME NEW s \in Seq(Plugins), NEW x \in Plugins
    PROVE  InSeq(Append(s, x)) = InSeq(s) \cup {x}
<1>1. Len(Append(s, x)) = Len(s) + 1 /\ Len(s) \in Nat
  OBVIOUS
<1>2. \A i \in 1..Len(s) + 1 : Append(s, x)[i] = IF i <= Len(s) THEN s[i] ELSE x
  OBVIOUS
<1> QED
  BY <1>1, <1>2 DEF InSeq

Injective(s) == \A i, j \in 1..Len(s) : s[i] = s[j] => i = j

\* What leaves the queue at its head, when no id is queued twice.
LEMMA InTail ==
    ASSUME NEW s \in Seq(Plugins), s # <<>>, Injective(s)
    PROVE  /\ Head(s) \in InSeq(s)
           /\ InSeq(Tail(s)) \subseteq InSeq(s) \ {Head(s)}
           /\ Injective(Tail(s))
<1>1. Len(s) \in Nat \ {0} /\ Head(s) = s[1]
  BY EmptySeq
<1>2. Len(Tail(s)) = Len(s) - 1 /\ \A i \in 1..Len(Tail(s)) : Tail(s)[i] = s[i + 1]
  BY HeadTailProperties
<1> QED
  BY <1>1, <1>2 DEF InSeq, Injective

\* The sequence t that the insertion of n at place k makes of s.
Inserted(s, n, k, t) ==
    /\ t \in [1..Len(s) + 1 -> Plugins]
    /\ \A i \in 1..Len(s) + 1 :
         t[i] = IF i < k THEN s[i] ELSE IF i = k THEN n ELSE s[i - 1]

\* It has one id more, once.
LEMMA InInsert ==
    ASSUME NEW s \in Seq(Plugins), NEW n \in Plugins, NEW k \in 1..Len(s) + 1,
           n \notin InSeq(s), Injective(s), NEW t, Inserted(s, n, k, t)
    PROVE  InSeq(t) = InSeq(s) \cup {n} /\ Injective(t)
<1> USE DEF Inserted, Injective
<1>1. Len(s) \in Nat /\ \A i \in 1..Len(s) : s[i] \in Plugins
  BY ElementOfSeq
<1>3. t \in Seq(Plugins) /\ Len(t) = Len(s) + 1
  BY <1>1
<1>4. \A i \in 1..Len(s) + 1 : t[i] = IF i < k THEN s[i] ELSE IF i = k THEN n ELSE s[i - 1]
  OBVIOUS
<1>5. InSeq(t) = InSeq(s) \cup {n}
  <2>1. ASSUME NEW x \in InSeq(s)
        PROVE  x \in InSeq(t)
    <3>1. PICK i \in 1..Len(s) : x = s[i]
      BY DEF InSeq
    <3>2. x = t[i] \/ x = t[i + 1]
      BY <1>1, <1>4, <3>1
    <3>3. i \in 1..Len(t) /\ i + 1 \in 1..Len(t)
      BY <1>1, <1>3
    <3> QED
      BY <3>2, <3>3 DEF InSeq
  <2>2. n \in InSeq(t)
    BY <1>1, <1>3, <1>4 DEF InSeq
  <2>3. ASSUME NEW x \in InSeq(t)
        PROVE  x \in InSeq(s) \cup {n}
    <3>1. PICK i \in 1..Len(s) + 1 : x = t[i]
      BY <1>3 DEF InSeq
    <3> QED
      BY <1>1, <1>4, <3>1 DEF InSeq
  <2> QED
    BY <2>1, <2>2, <2>3
<1>6. \A i \in 1..Len(s) : s[i] # n
  BY DEF InSeq
<1>7. ASSUME NEW i \in 1..Len(s) + 1, NEW j \in 1..Len(s) + 1, t[i] = t[j]
      PROVE  i = j
  BY <1>1, <1>4, <1>6, <1>7
<1> QED
  BY <1>3, <1>5, <1>7

\* A sequence without repetitions has as many ids as places.
LEMMA CountSeq ==
    ASSUME NEW s \in Seq(Plugins), Injective(s)
    PROVE  Cardinality(InSeq(s)) = Len(s)
<1>1. Len(s) \in Nat /\ s \in [1..Len(s) -> InSeq(s)]
  BY LenProperties DEF InSeq
<1>2. s \in Bijection(1..Len(s), InSeq(s))
  BY <1>1 DEF Bijection, Injection, Surjection, IsInjective, InSeq, Injective
<1> QED
  BY <1>1, <1>2, FS_CountingElements DEF ExistsBijection

-----------------------------------------------------------------------------
(* Types                                                                   *)

LEMMA TypeInit == Init => TypeOK
<1> SUFFICES ASSUME Init
             PROVE  TypeOK
  OBVIOUS
<1>1. <<>> \in Seq(Plugins)
  BY EmptySeq
<1>2. {<<0, p>> : p \in targets} \subseteq (Plugins \cup {0}) \X Plugins
  BY DEF Init
<1> QED
  BY <1>1, <1>2 DEF Init, TypeOK, Errors

LEMMA DegreesFinite ==
    ASSUME TypeOK, NEW p \in Plugins, NEW S
    PROVE  /\ IsFiniteSet(deps[p] \cap S) /\ Cardinality(deps[p] \cap S) \in Nat
           /\ IsFiniteSet(deps[p] \ S) /\ Cardinality(deps[p] \ S) \in Nat
  BY PluginsAssumption, FS_Subset, FS_CardinalityType DEF TypeOK

LEMMA InsertPlace ==
    ASSUME TypeOK, batch # {}
    PROVE  /\ Least(batch) \in batch
           /\ LET n == Least(batch)
                  larger == {i \in 1..Len(queue) : queue[i] > n}
                  k == IF larger = {} THEN Len(queue) + 1 ELSE Least(larger)
              IN  k \in 1..Len(queue) + 1
<1>1. Least(batch) \in batch
  BY LeastIn, PluginsAssumption DEF TypeOK
<1> DEFINE larger == {i \in 1..Len(queue) : queue[i] > Least(batch)}
<1>2. Len(queue) \in Nat
  BY DEF TypeOK
<1>3. larger # {} => Least(larger) \in 1..Len(queue)
  BY <1>2, LeastIn
<1> QED
  BY <1>1, <1>2, <1>3

LEMMA TypeStep == TypeOK /\ [Next]_vars => TypeOK'
<1> SUFFICES ASSUME TypeOK, [Next]_vars
             PROVE  TypeOK'
  OBVIOUS
<1>1. ASSUME NEW e \in todo, Expand(e)
      PROVE  TypeOK'
  <2>1. e[2] \in Plugins
    BY DEF TypeOK
  <2>2. relevant' \subseteq installed
    BY <1>1 DEF Expand, TypeOK
  <2>3. todo' \subseteq (Plugins \cup {0}) \X Plugins
    <3>1. {<<e[2], d>> : d \in deps[e[2]]} \subseteq (Plugins \cup {0}) \X Plugins
      BY <2>1 DEF TypeOK
    <3> QED
      BY <1>1, <3>1 DEF Expand, TypeOK
  <2>4. phase' \in {"expand", "missing", "mismatch"}
    BY <1>1 DEF Expand
  <2> QED
    BY <1>1, <2>2, <2>3, <2>4 DEF Expand, TypeOK, Errors, input
<1>2. CASE Start
  <2>1. degree' \in [Plugins -> Int]
    <3>1. ASSUME NEW p \in Plugins
          PROVE  Cardinality(deps[p] \cap relevant) \in Int
      <4>1. Cardinality(deps[p] \cap relevant) \in Nat
        BY DegreesFinite, Zenon
      <4> QED
        BY <4>1
    <3> QED
      BY <1>2, <3>1 DEF Start
  <2> QED
    BY <1>2, <2>1 DEF Start, TypeOK, input
<1>3. CASE Insert
  <2>1. queue' \in Seq(Plugins)
    <3>1. Least(batch) \in Plugins /\ Len(queue) \in Nat
      BY <1>3, InsertPlace DEF Insert, TypeOK
    <3>2. \A i \in 1..Len(queue) : queue[i] \in Plugins
      BY ElementOfSeq DEF TypeOK
    <3>3. PICK k \in 1..Len(queue) + 1 :
            queue' = [i \in 1..Len(queue) + 1 |->
                        IF i < k THEN queue[i] ELSE IF i = k THEN Least(batch) ELSE queue[i - 1]]
      BY <1>3, InsertPlace DEF Insert
    <3>4. \A i \in 1..Len(queue) + 1 : queue'[i] \in Plugins
      BY <3>1, <3>2, <3>3
    <3> QED
      BY <3>1, <3>3, <3>4
  <2> QED
    BY <1>3, <2>1 DEF Insert, TypeOK, input
<1>4. CASE Shift
  <2>1. Head(queue) \in Plugins /\ Tail(queue) \in Seq(Plugins)
    BY <1>4, HeadTailProperties DEF Shift, TypeOK
  <2>2. order' \in Seq(Plugins) /\ queue' \in Seq(Plugins)
    BY <1>4, <2>1 DEF Shift, TypeOK
  <2>3. degree' \in [Plugins -> Int]
    BY <1>4 DEF Shift, TypeOK
  <2>4. batch' \subseteq Plugins
    BY <1>4 DEF Shift, TypeOK
  <2> QED
    BY <1>4, <2>2, <2>3, <2>4 DEF Shift, TypeOK, input
<1>5. CASE Ends
  BY <1>5 DEF Ends, TypeOK, input
<1>6. ASSUME NEW p \in remaining, Enter(p)
      PROVE  TypeOK'
  <2>1. p \in Plugins
    BY DEF remaining, TypeOK
  <2>2. path' \in Seq(Plugins) /\ visited' \subseteq Plugins
    BY <1>6, <2>1 DEF Enter, TypeOK
  <2> QED
    BY <1>6, <2>2 DEF Enter, TypeOK, input
<1>7. ASSUME NEW d \in Plugins, Closes(d)
      PROVE  TypeOK'
  <2> DEFINE start == CHOOSE i \in 1..Len(path) : path[i] = d
  <2>1. \E i \in 1..Len(path) : path[i] = d
    BY <1>7 DEF Closes, InSeq
  <2>2. start \in 1..Len(path)
    BY <2>1
  <2> HIDE DEF start
  <2>3. Len(path) \in Nat /\ \A i \in start..Len(path) : path[i] \in Plugins
    BY <2>2, ElementOfSeq DEF TypeOK
  <2>4. SubSeq(path, start, Len(path)) \in Seq(Plugins)
    BY <2>2, <2>3, SubSeqProperties
  <2>5. path' = SubSeq(path, start, Len(path)) \o <<d>>
    BY <1>7 DEF Closes, start
  <2>6. path' \in Seq(Plugins)
    BY <2>4, <2>5
  <2> QED
    BY <1>7, <2>6 DEF Closes, TypeOK, Errors, input
<1>8. CASE Backs
  <2>1. Len(path) \in Nat /\ \A i \in 1..(Len(path) - 1) : path[i] \in Plugins
    BY ElementOfSeq DEF TypeOK
  <2>2. path' \in Seq(Plugins)
    BY <1>8, <2>1, SubSeqProperties DEF Backs
  <2> QED
    BY <1>8, <2>2 DEF Backs, TypeOK, input
<1>9. CASE UNCHANGED vars
  BY <1>9 DEF vars, TypeOK, input
<1> QED
  BY <1>1, <1>2, <1>3, <1>4, <1>5, <1>6, <1>7, <1>8, <1>9 DEF Next

-----------------------------------------------------------------------------
(* The invariant                                                           *)

Unsorted == {"expand", "missing", "mismatch"}

\* Before the sort nothing is queued or planned; after it no edge is left.
PhaseInv ==
    /\ phase \in Unsorted => queue = <<>> /\ batch = {} /\ order = <<>>
    /\ phase \notin Unsorted => todo = {}

\* The relevant plugins hold the targets and are closed under the dependencies
\* but for the edges still to be followed; an edge followed fits.
ExpandInv ==
    /\ \A p \in targets : p \in relevant \/ <<0, p>> \in todo
    /\ \A p \in relevant : \A d \in deps[p] :
         <<p, d>> \in todo \/ (d \in relevant /\ <<p, d>> \notin unmet)

\* A degree counts the dependencies that are not planned yet.
DegreeInv ==
    phase \notin Unsorted =>
        \A p \in relevant : degree[p] = Cardinality(deps[p] \ InSeq(order))

\* What is queued, or about to be, has all of its dependencies in the plan.
ReadyInv ==
    /\ InSeq(order) \cup InSeq(queue) \cup batch \subseteq relevant
    /\ \A p \in InSeq(queue) \cup batch : deps[p] \subseteq InSeq(order)

\* A plugin is in one place, once.
OnceInv ==
    /\ Injective(queue) /\ Injective(order)
    /\ InSeq(queue) \cap InSeq(order) = {}
    /\ batch \cap InSeq(queue) = {} /\ batch \cap InSeq(order) = {}

\* All that a finished plan holds is all that is relevant.
WholeInv == phase = "planned" => InSeq(order) = relevant

SortInv == PhaseInv /\ ExpandInv /\ DegreeInv /\ ReadyInv /\ OnceInv /\ DependenciesFirst /\ WholeInv

LEMMA SortInit == Init => SortInv
<1> SUFFICES ASSUME Init
             PROVE  SortInv
  OBVIOUS
<1>1. InSeq(<<>>) = {} /\ Len(<<>>) = 0
  BY DEF InSeq
<1> QED
  BY <1>1 DEF Init, SortInv, PhaseInv, ExpandInv, DegreeInv, ReadyInv, OnceInv, Injective,
              DependenciesFirst, WholeInv, Unsorted

\* Steps that touch neither the graph nor the queue nor the plan.
LEMMA SortFrame ==
    ASSUME SortInv, UNCHANGED <<input, todo, relevant, degree, queue, batch, order>>,
           phase \in Unsorted <=> phase' \in Unsorted,
           phase' = "planned" => InSeq(order) = relevant
    PROVE  SortInv'
<1>1. PhaseInv' /\ DegreeInv'
  BY DEF SortInv, PhaseInv, DegreeInv, Unsorted, input
<1>2. ExpandInv' /\ DependenciesFirst'
  BY DEF SortInv, ExpandInv, DependenciesFirst, input
<1>3. ReadyInv' /\ OnceInv' /\ WholeInv'
  BY DEF SortInv, ReadyInv, OnceInv, WholeInv, Injective, InSeq, input
<1> QED
  BY <1>1, <1>2, <1>3 DEF SortInv

LEMMA ExpandKeeps ==
    ASSUME TypeOK, SortInv, NEW e \in todo, Expand(e)
    PROVE  SortInv'
<1>1. CASE phase' # "expand"
  <2>1. phase = "expand" /\ phase' \in {"missing", "mismatch"}
    BY <1>1 DEF Expand
  <2>2. UNCHANGED <<input, todo, relevant, degree, queue, batch, order>>
    BY <1>1, <2>1 DEF Expand
  <2> QED
    BY <2>1, <2>2, SortFrame DEF Unsorted
<1>2. CASE phase' = "expand"
  <2> DEFINE p == e[2]
  <2>1. /\ phase = "expand" /\ p \in installed /\ e \notin unmet
        /\ relevant' = relevant \cup {p}
        /\ todo' = (todo \ {e}) \cup IF p \in relevant THEN {} ELSE {<<p, d>> : d \in deps[p]}
        /\ UNCHANGED <<input, degree, queue, batch, order>>
    BY <1>2 DEF Expand
  <2>2. e = <<e[1], p>>
    BY DEF TypeOK
  <2>3. queue = <<>> /\ batch = {} /\ order = <<>> /\ InSeq(<<>>) = {}
    BY <2>1 DEF SortInv, PhaseInv, Unsorted, InSeq
  <2>4. ExpandInv'
    <3>1. ASSUME NEW q \in targets'
          PROVE  q \in relevant' \/ <<0, q>> \in todo'
      <4>1. q \in relevant \/ <<0, q>> \in todo
        BY <2>1 DEF SortInv, ExpandInv, input
      <4>2. CASE <<0, q>> = e
        BY <2>1, <4>2
      <4> QED
        BY <2>1, <4>1, <4>2
    <3>2. ASSUME NEW q \in relevant', NEW d \in deps'[q]
          PROVE  <<q, d>> \in todo' \/ (d \in relevant' /\ <<q, d>> \notin unmet')
      <4>1. deps' = deps /\ unmet' = unmet
        BY <2>1 DEF input
      <4>2. CASE q \notin relevant
        BY <2>1, <4>1, <4>2
      <4>3. CASE q \in relevant
        <5>1. <<q, d>> \in todo \/ (d \in relevant /\ <<q, d>> \notin unmet)
          BY <4>1, <4>3 DEF SortInv, ExpandInv
        <5>2. CASE <<q, d>> = e
          <6>1. d = p
            BY <5>2
          <6> QED
            BY <2>1, <4>1, <5>2, <6>1
        <5>3. CASE <<q, d>> # e
          BY <2>1, <4>1, <5>1, <5>3
        <5> QED
          BY <5>2, <5>3
      <4> QED
        BY <4>2, <4>3
    <3> QED
      BY <3>1, <3>2 DEF ExpandInv
  <2> QED
    BY <1>2, <2>1, <2>3, <2>4 DEF SortInv, PhaseInv, DegreeInv, ReadyInv, OnceInv, Injective,
                                  DependenciesFirst, WholeInv, Unsorted
<1> QED
  BY <1>1, <1>2

LEMMA StartKeeps ==
    ASSUME TypeOK, SortInv, Start
    PROVE  SortInv'
<1>1. /\ phase = "expand" /\ phase' = "sort" /\ todo = {} /\ todo' = {}
      /\ queue = <<>> /\ order = <<>> /\ InSeq(<<>>) = {} /\ Len(<<>>) = 0
      /\ UNCHANGED <<input, todo, relevant, queue, order>>
  BY DEF Start, SortInv, PhaseInv, Unsorted, InSeq
<1>2. \A p \in relevant : deps[p] \cap relevant = deps[p]
  BY <1>1 DEF SortInv, ExpandInv
<1>3. DegreeInv'
  <2>1. ASSUME NEW p \in relevant
        PROVE  degree'[p] = Cardinality(deps[p])
    BY <1>2 DEF Start, TypeOK
  <2>2. \A p \in relevant : deps[p] \ {} = deps[p]
    OBVIOUS
  <2> QED
    BY <1>1, <2>1, <2>2 DEF DegreeInv, input
<1>4. batch' = {p \in relevant : deps[p] = {}}
  BY <1>2 DEF Start
<1>5. ReadyInv' /\ OnceInv'
  BY <1>1, <1>4 DEF ReadyInv, OnceInv, Injective, input
<1>6. ExpandInv'
  BY <1>1 DEF SortInv, ExpandInv, input
<1> QED
  BY <1>1, <1>3, <1>5, <1>6 DEF SortInv, PhaseInv, DependenciesFirst, WholeInv, Unsorted

\* insertSorted adds the least id of the batch to the queue.
LEMMA QueueGrows ==
    ASSUME TypeOK, SortInv, Insert
    PROVE  InSeq(queue') = InSeq(queue) \cup {Least(batch)} /\ Injective(queue')
<1> DEFINE n == Least(batch)
<1>1. batch # {}
  BY DEF Insert
<1>2. n \in batch /\ n \in Plugins
  BY <1>1, InsertPlace DEF TypeOK
<1>3. PICK k \in 1..Len(queue) + 1 :
        queue' = [i \in 1..Len(queue) + 1 |->
                    IF i < k THEN queue[i] ELSE IF i = k THEN n ELSE queue[i - 1]]
  BY <1>1, InsertPlace DEF Insert
<1> HIDE DEF n
<1>4. n \notin InSeq(queue) /\ Injective(queue)
  BY <1>2 DEF SortInv, OnceInv
<1>5. queue \in Seq(Plugins)
  BY DEF TypeOK
<1>6. Inserted(queue, n, k, queue')
  <2>1. Len(queue) \in Nat /\ \A i \in 1..Len(queue) : queue[i] \in Plugins
    BY <1>5, ElementOfSeq
  <2>2. queue' \in [1..Len(queue) + 1 -> Plugins]
    BY <1>2, <1>3, <2>1
  <2>3. \A i \in 1..Len(queue) + 1 :
          queue'[i] = IF i < k THEN queue[i] ELSE IF i = k THEN n ELSE queue[i - 1]
    BY <1>3
  <2> QED
    BY <2>2, <2>3 DEF Inserted
<1>7. InSeq(queue') = InSeq(queue) \cup {n} /\ Injective(queue')
  BY <1>2, <1>4, <1>5, <1>6, InInsert
<1> QED
  BY <1>7 DEF n

LEMMA InsertKeeps ==
    ASSUME TypeOK, SortInv, Insert
    PROVE  SortInv'
<1> DEFINE n == Least(batch)
<1>1. /\ phase = "sort" /\ phase' = "sort" /\ batch # {} /\ batch' = batch \ {n}
      /\ UNCHANGED <<input, todo, relevant, degree, order>>
  BY DEF Insert
<1>2. n \in batch /\ n \in Plugins
  BY <1>1, InsertPlace DEF TypeOK
<1>4. InSeq(queue') = InSeq(queue) \cup {n} /\ Injective(queue')
  BY QueueGrows
<1> HIDE DEF n
<1>5. ReadyInv'
  BY <1>1, <1>2, <1>4 DEF SortInv, ReadyInv, input
<1>6. OnceInv'
  <2>1. Injective(queue') /\ Injective(order')
    BY <1>1, <1>4 DEF SortInv, OnceInv
  <2>2. /\ InSeq(queue') \cap InSeq(order') = {}
        /\ batch' \cap InSeq(queue') = {} /\ batch' \cap InSeq(order') = {}
    BY <1>1, <1>2, <1>4 DEF SortInv, OnceInv
  <2> QED
    BY <2>1, <2>2 DEF OnceInv, Injective
<1>7. PhaseInv' /\ ExpandInv' /\ DependenciesFirst' /\ WholeInv'
  BY <1>1 DEF SortInv, PhaseInv, ExpandInv, DependenciesFirst, WholeInv, Unsorted, input
<1>8. DegreeInv'
  BY <1>1 DEF SortInv, DegreeInv, Unsorted, input
<1> QED
  BY <1>5, <1>6, <1>7, <1>8 DEF SortInv

LEMMA ShiftKeeps ==
    ASSUME TypeOK, SortInv, Shift
    PROVE  SortInv'
<1> DEFINE cur == Head(queue)
           next == {p \in relevant : cur \in deps[p]}
<1>1. /\ phase = "sort" /\ phase' = "sort" /\ batch = {} /\ queue # <<>>
      /\ order' = Append(order, cur) /\ queue' = Tail(queue)
      /\ degree' = [p \in Plugins |-> IF p \in next THEN degree[p] - 1 ELSE degree[p]]
      /\ batch' = {p \in next : degree'[p] = 0}
      /\ deps' = deps /\ UNCHANGED <<input, todo, relevant>>
  BY DEF Shift, input
<1>2. /\ cur \in InSeq(queue) /\ InSeq(queue') \subseteq InSeq(queue) \ {cur}
      /\ Injective(queue')
  BY <1>1, InTail DEF TypeOK, SortInv, OnceInv
<1>3. /\ cur \in relevant /\ cur \in Plugins /\ deps[cur] \subseteq InSeq(order)
      /\ cur \notin InSeq(order)
  BY <1>2 DEF TypeOK, SortInv, ReadyInv, OnceInv
<1> HIDE DEF cur
<1>4. InSeq(order') = InSeq(order) \cup {cur}
  BY <1>1, <1>3, InAppend DEF TypeOK
<1>5. /\ Len(order) \in Nat /\ Len(order') = Len(order) + 1 /\ order'[Len(order) + 1] = cur
      /\ \A i \in 1..Len(order) : order'[i] = order[i]
  BY <1>1, <1>3 DEF TypeOK
<1>6. \A p \in InSeq(order) : deps[p] \subseteq InSeq(order)
  <2> SUFFICES ASSUME NEW i \in 1..Len(order), NEW d \in deps[order[i]]
               PROVE  d \in InSeq(order)
    BY DEF InSeq
  <2>1. PICK j \in 1..(i - 1) : order[j] = d
    BY DEF SortInv, DependenciesFirst
  <2>2. j \in 1..Len(order)
    BY <1>5
  <2> QED
    BY <2>1, <2>2 DEF InSeq
<1>7. DegreeInv'
  <2> SUFFICES ASSUME NEW p \in relevant
               PROVE  degree'[p] = Cardinality(deps[p] \ InSeq(order'))
    BY <1>1 DEF DegreeInv
  <2>1. p \in Plugins /\ degree[p] = Cardinality(deps[p] \ InSeq(order))
    BY <1>1 DEF TypeOK, SortInv, DegreeInv, Unsorted
  <2>2. deps[p] \ InSeq(order') = (deps[p] \ InSeq(order)) \ {cur}
    BY <1>4
  <2>3. IsFiniteSet(deps[p] \ InSeq(order))
    BY <2>1, DegreesFinite, Zenon
  <2>4. Cardinality((deps[p] \ InSeq(order)) \ {cur}) =
          IF cur \in deps[p] \ InSeq(order) THEN Cardinality(deps[p] \ InSeq(order)) - 1
          ELSE Cardinality(deps[p] \ InSeq(order))
    BY <2>3, FS_RemoveElement
  <2>5. CASE cur \in deps[p]
    <3>1. degree'[p] = degree[p] - 1
      BY <1>1, <2>1, <2>5
    <3> QED
      BY <3>1, <1>3, <2>1, <2>2, <2>4, <2>5
  <2>6. CASE cur \notin deps[p]
    <3>1. degree'[p] = degree[p]
      BY <1>1, <2>1, <2>6
    <3> QED
      BY <3>1, <1>3, <2>1, <2>2, <2>4, <2>6
  <2> QED
    BY <2>5, <2>6
<1>8. ASSUME NEW p \in batch'
      PROVE  p \in relevant /\ cur \in deps[p] /\ deps[p] \subseteq InSeq(order')
  <2>1. p \in relevant /\ cur \in deps[p] /\ degree'[p] = 0 /\ p \in Plugins
    BY <1>1 DEF TypeOK
  <2>2. Cardinality(deps[p] \ InSeq(order')) = 0
    BY <1>1, <1>7, <2>1 DEF DegreeInv, Unsorted
  <2>3. IsFiniteSet(deps[p] \ InSeq(order'))
    BY <2>1, DegreesFinite, Zenon
  <2>4. deps[p] \ InSeq(order') = {}
    BY <2>2, <2>3, FS_EmptySet
  <2> QED
    BY <2>1, <2>4
<1>9. ReadyInv'
  <2>1. InSeq(order') \cup InSeq(queue') \cup batch' \subseteq relevant'
    BY <1>1, <1>2, <1>3, <1>4, <1>8 DEF SortInv, ReadyInv
  <2>2. \A p \in InSeq(queue') \cup batch' : deps'[p] \subseteq InSeq(order')
    BY <1>1, <1>2, <1>4, <1>8 DEF SortInv, ReadyInv
  <2> QED
    BY <2>1, <2>2 DEF ReadyInv
<1>10. OnceInv'
  <2>1. Injective(order')
    <3>1. \A i \in 1..Len(order) : order[i] # cur
      BY <1>3 DEF InSeq
    <3>2. \A i, j \in 1..Len(order) : order[i] = order[j] => i = j
      BY DEF SortInv, OnceInv, Injective
    <3> QED
      BY <1>5, <3>1, <3>2 DEF Injective
  <2>2. InSeq(queue') \cap InSeq(order') = {}
    BY <1>2, <1>4 DEF SortInv, OnceInv
  <2>3. batch' \cap InSeq(queue') = {}
    BY <1>2, <1>3, <1>8 DEF SortInv, ReadyInv
  <2>4. batch' \cap InSeq(order') = {}
    BY <1>3, <1>4, <1>6, <1>8
  <2> QED
    BY <1>2, <2>1, <2>2, <2>3, <2>4 DEF OnceInv, Injective
<1>11. DependenciesFirst'
  <2> SUFFICES ASSUME NEW i \in 1..Len(order'), NEW d \in deps[order'[i]]
               PROVE  \E j \in 1..(i - 1) : order'[j] = d
    BY <1>1 DEF DependenciesFirst
  <2>1. CASE i \in 1..Len(order)
    <3>1. PICK j \in 1..(i - 1) : order[j] = d
      BY <1>5, <2>1 DEF SortInv, DependenciesFirst
    <3> QED
      BY <1>5, <2>1, <3>1
  <2>2. CASE i = Len(order) + 1
    <3>1. d \in InSeq(order)
      BY <1>3, <1>5, <2>2
    <3>2. PICK j \in 1..Len(order) : order[j] = d
      BY <3>1 DEF InSeq
    <3> QED
      BY <1>5, <2>2, <3>2
  <2> QED
    BY <1>5, <2>1, <2>2
<1>12. PhaseInv' /\ ExpandInv' /\ WholeInv'
  BY <1>1 DEF SortInv, PhaseInv, ExpandInv, WholeInv, Unsorted, input
<1> QED
  BY <1>7, <1>9, <1>10, <1>11, <1>12 DEF SortInv

LEMMA EndsKeeps ==
    ASSUME TypeOK, SortInv, Ends
    PROVE  SortInv'
<1>1. /\ phase = "sort" /\ UNCHANGED <<input, todo, relevant, degree, queue, batch, order>>
      /\ phase' = IF Len(order) < Cardinality(relevant) THEN "cycle" ELSE "planned"
  BY DEF Ends
<1>2. phase' = "planned" => InSeq(order) = relevant
  <2> SUFFICES ASSUME ~(Len(order) < Cardinality(relevant))
               PROVE  InSeq(order) = relevant
    BY <1>1
  <2>1. IsFiniteSet(relevant) /\ Cardinality(relevant) \in Nat
    BY PluginsAssumption, FS_Subset, FS_CardinalityType DEF TypeOK
  <2>2. Cardinality(InSeq(order)) = Len(order) /\ Len(order) \in Nat
    BY CountSeq DEF TypeOK, SortInv, OnceInv
  <2>3. InSeq(order) \in SUBSET relevant
    BY DEF SortInv, ReadyInv
  <2>4. /\ Cardinality(InSeq(order)) <= Cardinality(relevant)
        /\ Cardinality(relevant) = Cardinality(InSeq(order)) => relevant = InSeq(order)
    BY <2>1, <2>3, FS_Subset
  <2> QED
    BY <2>1, <2>2, <2>4
<1>3. phase \in Unsorted <=> phase' \in Unsorted
  BY <1>1 DEF Unsorted
<1> QED
  BY <1>1, <1>2, <1>3, SortFrame

LEMMA SortStep == TypeOK /\ SortInv /\ [Next]_vars => SortInv'
<1> SUFFICES ASSUME TypeOK, SortInv, [Next]_vars
             PROVE  SortInv'
  OBVIOUS
<1>1. ASSUME NEW p \in remaining, Enter(p)
      PROVE  SortInv'
  BY <1>1, SortFrame DEF Enter, SortInv, WholeInv
<1>2. ASSUME NEW d \in Plugins, Closes(d)
      PROVE  SortInv'
  BY <1>2, SortFrame DEF Closes, Unsorted
<1>3. CASE Backs
  BY <1>3, SortFrame DEF Backs, SortInv, WholeInv
<1>4. CASE UNCHANGED vars
  BY <1>4, SortFrame DEF vars, SortInv, WholeInv
<1> QED
  BY <1>1, <1>2, <1>3, <1>4, ExpandKeeps, StartKeeps, InsertKeeps, ShiftKeeps, EndsKeeps
     DEF Next

-----------------------------------------------------------------------------
(* Theorems                                                                *)

LEMMA PlanInvariant == Spec => [](TypeOK /\ SortInv)
<1>1. Init => TypeOK /\ SortInv
  BY TypeInit, SortInit
<1>2. TypeOK /\ SortInv /\ [Next]_vars => TypeOK' /\ SortInv'
  BY TypeStep, SortStep
<1> QED
  BY <1>1, <1>2, PTL DEF Spec

\* resolveLoadOrder plans each plugin after all of its dependencies, whatever
\* the manifests say.
THEOREM DependenciesFirstHolds == Spec => []DependenciesFirst
<1>1. TypeOK /\ SortInv => DependenciesFirst
  BY DEF SortInv
<1> QED
  BY <1>1, PlanInvariant, PTL

\* A finished plan holds every target, only what is installed, nothing twice,
\* and no dependency whose version range is not met.
PlanSound ==
    phase = "planned" =>
        /\ targets \subseteq InSeq(order) /\ InSeq(order) \subseteq installed
        /\ \A i, j \in 1..Len(order) : order[i] = order[j] => i = j
        /\ \A p \in InSeq(order) : \A d \in deps[p] : <<p, d>> \notin unmet

\* resolveLoadOrder answers with a plan only when expand accepted everything
\* the targets reach, and the plan is then complete.
THEOREM PlanSoundHolds == Spec => []PlanSound
<1>1. ASSUME TypeOK, SortInv, phase = "planned"
      PROVE  PlanSound
  <2>1. todo = {} /\ InSeq(order) = relevant
    BY <1>1 DEF SortInv, PhaseInv, WholeInv, Unsorted
  <2>2. targets \subseteq relevant /\ relevant \subseteq installed
    BY <1>1, <2>1 DEF SortInv, ExpandInv, TypeOK
  <2>3. \A p \in relevant : \A d \in deps[p] : <<p, d>> \notin unmet
    BY <1>1, <2>1 DEF SortInv, ExpandInv
  <2>4. Injective(order)
    BY <1>1 DEF SortInv, OnceInv
  <2> QED
    BY <2>1, <2>2, <2>3, <2>4 DEF PlanSound, Injective
<1>2. TypeOK /\ SortInv => PlanSound
  BY <1>1 DEF PlanSound
<1> QED
  BY <1>2, PlanInvariant, PTL

-----------------------------------------------------------------------------
(* Each answer is for its reason                                           *)

Closed(S) == targets \subseteq S /\ \A q \in S : deps[q] \subseteq S

\* An edge to be followed starts at a target or at a relevant plugin, and what
\* is relevant is needed.
EdgeInv ==
    /\ \A e \in todo : \/ e[1] = 0 /\ e[2] \in targets
                       \/ e[1] \in relevant /\ e[2] \in deps[e[1]]
    /\ \A S \in SUBSET Plugins : Closed(S) => relevant \subseteq S

\* The edge that ended the expansion is still there.
FaultInv ==
    /\ phase = "missing" => \E e \in todo : e[2] \notin installed
    /\ phase = "mismatch" => \E e \in todo : e \in unmet

\* What is neither planned nor queued waits for something.
WaitInv ==
    phase \notin Unsorted =>
        \A p \in relevant \ (InSeq(order) \cup InSeq(queue) \cup batch) :
            ~(deps[p] \subseteq InSeq(order))

\* After the sort the queue is empty, and the search is for a rest.
RestInv ==
    phase \in {"planned", "cycle", "cyclic"} =>
        /\ queue = <<>> /\ batch = {}
        /\ phase # "planned" => InSeq(order) # relevant

ReasonInv == EdgeInv /\ FaultInv /\ WaitInv /\ RestInv

LEMMA ReasonInit == Init => ReasonInv
  BY DEF Init, ReasonInv, EdgeInv, FaultInv, WaitInv, RestInv, Closed, Unsorted

LEMMA ReasonFrame ==
    ASSUME ReasonInv, UNCHANGED <<input, todo, relevant, queue, batch, order>>,
           phase' = phase \/ (phase = "cycle" /\ phase' = "cyclic")
    PROVE  ReasonInv'
<1>1. EdgeInv' /\ FaultInv'
  BY DEF ReasonInv, EdgeInv, FaultInv, Closed, input
<1>2. WaitInv' /\ RestInv'
  BY DEF ReasonInv, WaitInv, RestInv, Unsorted, input
<1> QED
  BY <1>1, <1>2 DEF ReasonInv

LEMMA ExpandReason ==
    ASSUME TypeOK, ReasonInv, NEW e \in todo, Expand(e)
    PROVE  ReasonInv'
<1> DEFINE p == e[2]
<1>1. /\ phase = "expand" /\ phase' \in Unsorted /\ p \in Plugins
      /\ deps' = deps /\ unmet' = unmet /\ targets' = targets /\ installed' = installed
  BY DEF Expand, Unsorted, input, TypeOK
<1>2. FaultInv'
  BY <1>1 DEF Expand, FaultInv
<1>3. \A S \in SUBSET Plugins : Closed(S) => p \in S
  BY DEF ReasonInv, EdgeInv, Closed
<1>4. relevant' \subseteq relevant \cup {p} /\ relevant \subseteq relevant'
  BY DEF Expand
<1>5. \A f \in todo' : f \in todo \/ (p \in relevant' /\ \E d \in deps[p] : f = <<p, d>>)
  BY DEF Expand
<1>6. EdgeInv'
  <2>1. ASSUME NEW f \in todo'
        PROVE  (f[1] = 0 /\ f[2] \in targets') \/ (f[1] \in relevant' /\ f[2] \in deps'[f[1]])
    <3>1. CASE f \in todo
      BY <1>1, <1>4, <3>1 DEF ReasonInv, EdgeInv
    <3>2. CASE p \in relevant' /\ \E d \in deps[p] : f = <<p, d>>
      BY <1>1, <3>2
    <3> QED
      BY <1>5, <3>1, <3>2
  <2>2. ASSUME NEW S \in SUBSET Plugins, Closed(S)'
        PROVE  relevant' \subseteq S
    <3>1. Closed(S)
      BY <1>1, <2>2 DEF Closed
    <3> QED
      BY <1>3, <1>4, <3>1 DEF ReasonInv, EdgeInv
  <2> QED
    BY <2>1, <2>2 DEF EdgeInv
<1>7. WaitInv' /\ RestInv'
  BY <1>1 DEF WaitInv, RestInv, Unsorted
<1> QED
  BY <1>2, <1>6, <1>7 DEF ReasonInv

LEMMA StartReason ==
    ASSUME SortInv, ReasonInv, Start
    PROVE  ReasonInv'
<1>1. /\ phase = "expand" /\ phase' = "sort" /\ queue = <<>> /\ order = <<>> /\ todo = {}
      /\ InSeq(<<>>) = {} /\ batch' = {p \in relevant : deps[p] \cap relevant = {}}
      /\ UNCHANGED <<input, todo, relevant, queue, order>>
  BY DEF Start, SortInv, PhaseInv, Unsorted, InSeq
<1>2. EdgeInv' /\ FaultInv' /\ RestInv'
  BY <1>1 DEF ReasonInv, EdgeInv, FaultInv, RestInv, Closed, input
<1>3. WaitInv'
  BY <1>1 DEF WaitInv, input
<1> QED
  BY <1>2, <1>3 DEF ReasonInv

LEMMA InsertReason ==
    ASSUME TypeOK, SortInv, ReasonInv, Insert
    PROVE  ReasonInv'
<1>1. /\ phase = "sort" /\ phase' = "sort" /\ UNCHANGED <<input, todo, relevant, order>>
      /\ InSeq(queue') \cup batch' = InSeq(queue) \cup batch
  <2>1. /\ phase = "sort" /\ phase' = "sort" /\ batch # {} /\ batch' = batch \ {Least(batch)}
        /\ UNCHANGED <<input, todo, relevant, order>>
    BY DEF Insert
  <2>2. Least(batch) \in batch /\ InSeq(queue') = InSeq(queue) \cup {Least(batch)}
    BY <2>1, InsertPlace, QueueGrows
  <2> QED
    BY <2>1, <2>2
<1>2. EdgeInv' /\ FaultInv' /\ RestInv'
  BY <1>1 DEF ReasonInv, EdgeInv, FaultInv, RestInv, Closed, input
<1>3. WaitInv'
  <2> SUFFICES ASSUME NEW p \in relevant, p \notin InSeq(order) \cup InSeq(queue') \cup batch'
               PROVE  ~(deps[p] \subseteq InSeq(order))
    BY <1>1 DEF WaitInv, input
  <2> QED
    BY <1>1 DEF ReasonInv, WaitInv, Unsorted
<1> QED
  BY <1>2, <1>3 DEF ReasonInv

LEMMA ShiftReason ==
    ASSUME TypeOK, SortInv, SortInv', ReasonInv, Shift
    PROVE  ReasonInv'
<1> DEFINE cur == Head(queue)
           next == {p \in relevant : cur \in deps[p]}
<1>1. /\ phase = "sort" /\ phase' = "sort" /\ batch = {} /\ queue # <<>>
      /\ order' = Append(order, cur) /\ queue' = Tail(queue)
      /\ batch' = {p \in next : degree'[p] = 0}
      /\ UNCHANGED <<input, todo, relevant>>
  BY DEF Shift
<1>2. cur \in Plugins /\ InSeq(queue) = {cur} \cup InSeq(queue')
  <2>1. cur = queue[1] /\ cur \in Plugins /\ Len(queue) \in Nat \ {0}
    BY <1>1, EmptySeq, HeadTailProperties DEF TypeOK
  <2>2. /\ Len(queue') = Len(queue) - 1
        /\ \A i \in 1..Len(queue') : queue'[i] = queue[i + 1]
    BY <1>1, HeadTailProperties DEF TypeOK
  <2> HIDE DEF cur
  <2>3. ASSUME NEW i \in 1..Len(queue)
        PROVE  queue[i] \in {cur} \cup InSeq(queue')
    <3>1. CASE i = 1
      BY <2>1, <3>1
    <3>2. CASE i # 1
      <4>1. i - 1 \in 1..Len(queue') /\ queue'[i - 1] = queue[i]
        BY <2>1, <2>2, <3>2
      <4> QED
        BY <4>1 DEF InSeq
    <3> QED
      BY <3>1, <3>2
  <2>4. ASSUME NEW i \in 1..Len(queue')
        PROVE  queue'[i] \in InSeq(queue)
    <3>1. i + 1 \in 1..Len(queue) /\ queue'[i] = queue[i + 1]
      BY <2>1, <2>2
    <3> QED
      BY <3>1 DEF InSeq
  <2>5. cur \in InSeq(queue)
    BY <2>1 DEF InSeq
  <2> QED
    BY <2>1, <2>3, <2>4, <2>5 DEF InSeq
<1>3. InSeq(order') = InSeq(order) \cup {cur}
  BY <1>1, <1>2, InAppend DEF TypeOK
<1> HIDE DEF cur
<1>4. WaitInv'
  <2> SUFFICES ASSUME NEW p \in relevant, p \notin InSeq(order') \cup InSeq(queue') \cup batch'
               PROVE  ~(deps[p] \subseteq InSeq(order'))
    BY <1>1 DEF WaitInv, input
  <2>1. CASE cur \in deps[p]
    <3>1. degree'[p] # 0
      BY <1>1, <2>1
    <3>2. degree'[p] = Cardinality(deps[p] \ InSeq(order'))
      BY <1>1 DEF SortInv, DegreeInv, Unsorted, input
    <3>3. deps[p] \ InSeq(order') # {}
      BY <3>1, <3>2, FS_EmptySet
    <3> QED
      BY <3>3
  <2>2. CASE cur \notin deps[p]
    <3>1. p \notin InSeq(order) \cup InSeq(queue) \cup batch
      BY <1>1, <1>2, <1>3
    <3>2. ~(deps[p] \subseteq InSeq(order))
      BY <1>1, <3>1 DEF ReasonInv, WaitInv, Unsorted
    <3> QED
      BY <1>3, <2>2, <3>2
  <2> QED
    BY <2>1, <2>2
<1>5. EdgeInv' /\ FaultInv' /\ RestInv'
  BY <1>1 DEF ReasonInv, EdgeInv, FaultInv, RestInv, Closed, input
<1> QED
  BY <1>4, <1>5 DEF ReasonInv

LEMMA EndsReason ==
    ASSUME TypeOK, SortInv, ReasonInv, Ends
    PROVE  ReasonInv'
<1>1. /\ phase = "sort" /\ batch = {} /\ queue = <<>>
      /\ UNCHANGED <<input, todo, relevant, queue, batch, order>>
      /\ phase' = IF Len(order) < Cardinality(relevant) THEN "cycle" ELSE "planned"
  BY DEF Ends
<1>2. phase' = "cycle" => InSeq(order) # relevant
  <2>1. Cardinality(InSeq(order)) = Len(order) /\ Len(order) \in Nat
    BY CountSeq DEF TypeOK, SortInv, OnceInv
  <2> QED
    BY <1>1, <2>1
<1>3. RestInv'
  BY <1>1, <1>2 DEF RestInv
<1>4. WaitInv'
  BY <1>1 DEF ReasonInv, WaitInv, Unsorted, input
<1>5. EdgeInv' /\ FaultInv'
  BY <1>1 DEF ReasonInv, EdgeInv, FaultInv, Closed, input
<1> QED
  BY <1>3, <1>4, <1>5 DEF ReasonInv

LEMMA ReasonStep ==
    TypeOK /\ SortInv /\ SortInv' /\ ReasonInv /\ [Next]_vars => ReasonInv'
<1> SUFFICES ASSUME TypeOK, SortInv, SortInv', ReasonInv, [Next]_vars
             PROVE  ReasonInv'
  OBVIOUS
<1>1. ASSUME NEW p \in remaining, Enter(p)
      PROVE  ReasonInv'
  BY <1>1, ReasonFrame DEF Enter
<1>2. ASSUME NEW d \in Plugins, Closes(d)
      PROVE  ReasonInv'
  BY <1>2, ReasonFrame DEF Closes
<1>3. CASE Backs
  BY <1>3, ReasonFrame DEF Backs
<1>4. CASE UNCHANGED vars
  BY <1>4, ReasonFrame DEF vars
<1> QED
  BY <1>1, <1>2, <1>3, <1>4, ExpandReason, StartReason, InsertReason, ShiftReason, EndsReason
     DEF Next

LEMMA NeededRelevant ==
    ASSUME TypeOK, SortInv, ReasonInv
    PROVE  relevant \subseteq Needed /\ (todo = {} => Needed = relevant)
<1>1. relevant \subseteq Needed
  BY DEF ReasonInv, EdgeInv, Closed, Needed, TypeOK
<1>2. ASSUME todo = {}
      PROVE  Closed(relevant) /\ relevant \in SUBSET Plugins
  BY <1>2 DEF SortInv, ExpandInv, Closed, TypeOK
<1> QED
  BY <1>1, <1>2 DEF Needed, Closed

\* resolveLoadOrder gives each of its four answers for its reason, whatever
\* the manifests: a plan of exactly what is needed, a missing plugin, a range
\* that is not met, or a cycle among what is needed.
THEOREM VerdictRightHolds == Spec => []VerdictRight
<1>1. Init => TypeOK /\ SortInv /\ ReasonInv
  BY TypeInit, SortInit, ReasonInit
<1>2. TypeOK /\ SortInv /\ ReasonInv /\ [Next]_vars => TypeOK' /\ SortInv' /\ ReasonInv'
  BY TypeStep, SortStep, ReasonStep
<1>3. ASSUME TypeOK, SortInv, ReasonInv
      PROVE  VerdictRight
  <2>1. ASSUME phase = "planned"
        PROVE  /\ InSeq(order) = Needed /\ Needed \subseteq installed /\ ~Cyclic(Needed)
               /\ ~\E e \in Plugins \X Plugins : Faulty(e)
    <3>1. todo = {} /\ InSeq(order) = Needed /\ Needed = relevant
      BY <1>3, <2>1, NeededRelevant DEF SortInv, PhaseInv, WholeInv, Unsorted
    <3>2. Needed \subseteq installed
      BY <1>3, <3>1 DEF TypeOK
    <3>3. ASSUME NEW C \in SUBSET Needed, C # {}, \A p \in C : deps[p] \cap C # {}
          PROVE  FALSE
      <4> DEFINE I == {i \in 1..Len(order) : order[i] \in C}
      <4>1. I # {} /\ I \subseteq Nat /\ Len(order) \in Nat
        <5>1. PICK c \in C : c \in InSeq(order)
          BY <3>1, <3>3
        <5>2. PICK i \in 1..Len(order) : order[i] = c
          BY <5>1 DEF InSeq
        <5>3. Len(order) \in Nat
          BY <1>3 DEF TypeOK
        <5> QED
          BY <5>2, <5>3
      <4>2. Least(I) \in I /\ \A j \in I : Least(I) <= j
        BY <4>1, LeastIn
      <4>3. PICK i \in I : \A j \in I : i <= j
        BY <4>2
      <4>4. PICK d \in C : d \in deps[order[i]]
        BY <3>3
      <4>5. PICK j \in 1..(i - 1) : order[j] = d
        BY <1>3, <4>4 DEF SortInv, DependenciesFirst
      <4>6. j \in I
        BY <4>1, <4>4, <4>5
      <4> QED
        BY <4>1, <4>3, <4>5, <4>6
    <3>4. ASSUME NEW e \in Plugins \X Plugins, Faulty(e)
          PROVE  FALSE
      <4>1. e = <<e[1], e[2]>>
        OBVIOUS
      <4> QED
        BY <1>3, <3>1, <3>4, <4>1 DEF Faulty, SortInv, ExpandInv
    <3> QED
      BY <3>1, <3>2, <3>3, <3>4 DEF Cyclic
  <2>2. ASSUME NEW e \in todo
        PROVE  e[2] \in Needed /\ (e \in unmet => e \in Plugins \X Plugins /\ Faulty(e))
    <3>1. relevant \subseteq Needed
      BY <1>3, NeededRelevant
    <3>2. e[2] \in Plugins
      BY <1>3 DEF TypeOK
    <3>3. CASE e[1] = 0 /\ e[2] \in targets
      <4>1. e \notin unmet
        BY <1>3, <3>3, PluginsAssumption DEF TypeOK
      <4> QED
        BY <3>2, <3>3, <4>1 DEF Needed
    <3>4. CASE e[1] \in relevant /\ e[2] \in deps[e[1]]
      <4>1. e[2] \in Needed
        BY <3>1, <3>2, <3>4 DEF Needed
      <4>2. e \in unmet => e \in Plugins \X Plugins
        BY <1>3 DEF TypeOK
      <4> QED
        BY <3>1, <3>4, <4>1, <4>2 DEF Faulty
    <3> QED
      BY <1>3, <3>3, <3>4 DEF ReasonInv, EdgeInv
  <2>3. phase = "missing" => ~(Needed \subseteq installed)
    BY <1>3, <2>2 DEF ReasonInv, FaultInv
  <2>4. phase = "mismatch" => \E e \in Plugins \X Plugins : Faulty(e)
    BY <1>3, <2>2 DEF ReasonInv, FaultInv
  <2>5. ASSUME phase \in {"cycle", "cyclic"}
        PROVE  Cyclic(Needed)
    <3> DEFINE C == relevant \ InSeq(order)
    <3>1. todo = {} /\ queue = <<>> /\ batch = {} /\ InSeq(order) # relevant /\ InSeq(<<>>) = {}
      BY <1>3, <2>5 DEF SortInv, PhaseInv, Unsorted, ReasonInv, RestInv, InSeq
    <3>2. Needed = relevant
      BY <1>3, <3>1, NeededRelevant
    <3>3. C # {}
      BY <1>3, <3>1 DEF SortInv, ReadyInv
    <3>4. ASSUME NEW p \in C
          PROVE  deps[p] \cap C # {}
      <4>1. ~(deps[p] \subseteq InSeq(order))
        BY <1>3, <2>5, <3>1 DEF ReasonInv, WaitInv, Unsorted
      <4>2. deps[p] \subseteq relevant
        BY <1>3, <3>1 DEF SortInv, ExpandInv
      <4> QED
        BY <4>1, <4>2
    <3>5. C \in SUBSET Needed
      BY <3>2
    <3> QED
      BY <3>3, <3>4, <3>5 DEF Cyclic
  <2> QED
    BY <2>1, <2>3, <2>4, <2>5 DEF VerdictRight
<1>4. TypeOK /\ SortInv /\ ReasonInv => VerdictRight
  BY <1>3
<1> QED
  BY <1>1, <1>2, <1>4, PTL DEF Spec

-----------------------------------------------------------------------------
(* The types of the upgrade lifecycle                                      *)

LifeProbes(k) ==
    [on : {TRUE}, v : Life(k)!MaybeVersion, t : k.tuples, good : Nat, bad : Nat, file : Life(k)!Files]

LifeTypes(k) ==
    /\ adapter \in Life(k)!Rows
    /\ file \in Life(k)!Files
    /\ probes \in [k.calls -> LifeProbes(k) \cup {Life(k)!Idle}]
    /\ valid \in BOOLEAN
    /\ outages \in 0..k.crashes
    /\ seen \in SUBSET Life(k)!Runs
    /\ used[1] \in Nat /\ used[2] \subseteq k.versions
    /\ act \in Life(k)!MaybeVersion /\ base \in Life(k)!MaybeVersion

LEMMA LifeTypesImply == ASSUME NEW CONSTANT k, LifeTypes(k) PROVE Life(k)!TypeOK
<1>1. ASSUME NEW c \in k.calls, probes[c] # Life(k)!Idle
      PROVE  probes[c].file \in Life(k)!Files /\ probes[c].v \in Life(k)!MaybeVersion
  BY <1>1 DEF LifeTypes, LifeProbes
<1>2. QED  BY <1>1 DEF LifeTypes, Life!TypeOK

LEMMA LifeTypesInit == ASSUME NEW CONSTANT k, Life(k)!UpgradeConstants, Life(k)!Init PROVE LifeTypes(k)
<1>1. Life(k)!EmptyRow \in Life(k)!Rows
  BY DEF Life!EmptyRow, Life!Rows, Life!Channels, Life!MaybeVersion
<1>2. Life(k)!EmptyFile \in Life(k)!Files
  BY <1>1 DEF Life!EmptyFile, Life!Files, Life!MaybeVersion
<1>3. k.crashes \in Nat
  BY DEF Life!UpgradeConstants
<1>4. used[1] = 0 /\ used[2] = {}
  BY DEF Life!Init
<1>5. QED  BY <1>1, <1>2, <1>3, <1>4 DEF Life!Init, LifeTypes, Life!MaybeVersion

\* The two writes keep the types of what they write.
LEMMA LifeStore ==
    ASSUME NEW CONSTANT k, LifeTypes(k), Life(k)!UpgradeConstants, NEW first \in BOOLEAN,
           NEW f \in Life(k)!Files, NEW r \in Life(k)!Rows,
           NEW c \in [k.calls -> LifeProbes(k) \cup {Life(k)!Idle}], Life(k)!Store(first, f, r, c)
    PROVE  /\ adapter' \in Life(k)!Rows /\ file' \in Life(k)!Files
           /\ probes' \in [k.calls -> LifeProbes(k) \cup {Life(k)!Idle}]
           /\ outages' \in 0..k.crashes /\ act' \in Life(k)!MaybeVersion
<1>1. adapter' \in {adapter, r} /\ file' \in {file, f} /\ probes' \in {c, Life(k)!AllIdle}
  BY DEF Life!Store
<1>2. outages' \in 0..k.crashes
  BY DEF Life!Store, LifeTypes, Life!UpgradeConstants
<1>3. Life(k)!AllIdle \in [k.calls -> LifeProbes(k) \cup {Life(k)!Idle}]
  BY DEF Life!AllIdle
<1>4. adapter' \in Life(k)!Rows /\ file' \in Life(k)!Files
  BY <1>1 DEF LifeTypes
<1>5. act' \in Life(k)!MaybeVersion
  <2>1. adapter'.shadow \in Life(k)!MaybeVersion
    BY <1>4 DEF Life!Rows
  <2>2. act' \in {adapter'.shadow, k.none, act}
    BY DEF Life!Store
  <2>3. QED  BY <2>1, <2>2 DEF LifeTypes, Life!MaybeVersion
<1>6. QED  BY <1>1, <1>2, <1>3, <1>4, <1>5

\* What the operations write.
LEMMA LifeWrites ==
    ASSUME NEW CONSTANT k, LifeTypes(k), Life(k)!UpgradeConstants
    PROVE  /\ \A v \in k.versions : /\ Life(k)!ShadowFile(v) \in Life(k)!Files
                                   /\ [adapter EXCEPT !.channel = "shadow", !.shadow = v] \in Life(k)!Rows
           /\ \A f \in Life(k)!Files, v \in Life(k)!MaybeVersion, t \in k.tuples, ok \in BOOLEAN :
                [f EXCEPT !.runs = @ \cup {[v |-> v, t |-> t, ok |-> ok]}] \in Life(k)!Files
           /\ \A g, b \in Nat, ok \in BOOLEAN : Life(k)!CanaryRow(g, b, ok) \in Life(k)!Rows
           /\ \A v \in Life(k)!MaybeVersion : [file EXCEPT !.promoted = v] \in Life(k)!Files
           /\ [adapter EXCEPT !.channel = "active"] \in Life(k)!Rows
           /\ Life(k)!Restored \in Life(k)!Rows
<1>t. adapter \in Life(k)!Rows /\ file \in Life(k)!Files /\ file.previous \in Life(k)!Rows
  BY DEF LifeTypes, Life!Files
<1>1. ASSUME NEW v \in k.versions
      PROVE  /\ Life(k)!ShadowFile(v) \in Life(k)!Files
             /\ [adapter EXCEPT !.channel = "shadow", !.shadow = v] \in Life(k)!Rows
  <2>1. v \in Life(k)!MaybeVersion /\ k.none \in Life(k)!MaybeVersion
    BY DEF Life!MaybeVersion
  <2>2. Life(k)!ShadowFile(v) \in Life(k)!Files
    BY <1>t, <2>1 DEF Life!ShadowFile, Life!Files
  <2>3. QED  BY <1>t, <2>1, <2>2 DEF Life!Rows, Life!Channels
<1>2. ASSUME NEW f \in Life(k)!Files, NEW v \in Life(k)!MaybeVersion, NEW t \in k.tuples, NEW ok \in BOOLEAN
      PROVE  [f EXCEPT !.runs = @ \cup {[v |-> v, t |-> t, ok |-> ok]}] \in Life(k)!Files
  <2>1. [v |-> v, t |-> t, ok |-> ok] \in Life(k)!Runs
    BY DEF Life!Runs
  <2> DEFINE S == SUBSET Life(k)!Runs
  <2>2. f.runs \in S
    BY DEF Life!Files
  <2>3. f.runs \cup {[v |-> v, t |-> t, ok |-> ok]} \in S
    BY <2>1, <2>2
  <2>4. QED  BY <2>3 DEF Life!Files
<1>3. ASSUME NEW g \in Nat, NEW b \in Nat, NEW ok \in BOOLEAN PROVE Life(k)!CanaryRow(g, b, ok) \in Life(k)!Rows
  <2>1. g + Life(k)!One(ok) \in Nat /\ b + Life(k)!One(~ok) \in Nat
    BY DEF Life!One
  <2>2. QED  BY <1>t, <2>1 DEF Life!CanaryRow, Life!Rows, Life!Channels
<1>4. ASSUME NEW v \in Life(k)!MaybeVersion PROVE [file EXCEPT !.promoted = v] \in Life(k)!Files
  BY <1>t DEF Life!Files
<1>5. [adapter EXCEPT !.channel = "active"] \in Life(k)!Rows
  BY <1>t DEF Life!Rows, Life!Channels
<1>6. Life(k)!Restored \in Life(k)!Rows
  BY <1>t DEF Life!Restored, Life!Rows, Life!Channels, Life!UpgradeConstants
<1>7. QED  BY <1>1, <1>2, <1>3, <1>4, <1>5, <1>6

\* The outcomes that are noted.
LEMMA LifeOutcome ==
    ASSUME NEW CONSTANT k, LifeTypes(k), NEW v \in Life(k)!MaybeVersion, NEW t \in k.tuples, NEW ok \in BOOLEAN,
           Life(k)!Outcome(v, t, ok)
    PROVE  seen' \in SUBSET Life(k)!Runs
<1>1. [v |-> v, t |-> t, ok |-> ok] \in Life(k)!Runs
  BY DEF Life!Runs
<1>2. QED  BY <1>1 DEF Life!Outcome, LifeTypes

LEMMA LifeTypesStep ==
    ASSUME NEW CONSTANT k, Life(k)!UpgradeConstants, LifeTypes(k), [Life(k)!Next]_(Life(k)!vars)
    PROVE  LifeTypes(k)'
<1> DEFINE P == [k.calls -> LifeProbes(k) \cup {Life(k)!Idle}]
<1>t. /\ adapter \in Life(k)!Rows /\ file \in Life(k)!Files /\ probes \in P
      /\ adapter.shadow \in Life(k)!MaybeVersion /\ adapter.good \in Nat /\ adapter.bad \in Nat
      /\ \A c \in k.calls : [probes EXCEPT ![c] = Life(k)!Idle] \in P
      /\ \A c \in k.calls : probes[c] # Life(k)!Idle => probes[c] \in LifeProbes(k)
  BY DEF LifeTypes, Life!Rows
<1>p. ASSUME NEW c \in k.calls, probes[c] # Life(k)!Idle
      PROVE  /\ probes[c].v \in Life(k)!MaybeVersion /\ probes[c].t \in k.tuples
             /\ probes[c].good \in Nat /\ probes[c].bad \in Nat /\ probes[c].file \in Life(k)!Files
             /\ probes[c].file.shadow \in Life(k)!MaybeVersion
  <2>1. probes[c] \in LifeProbes(k)
    BY <1>p, <1>t
  <2>2. QED  BY <2>1 DEF LifeProbes, Life!Files
<1>1. ASSUME NEW v \in k.versions, Life(k)!Shadow(v) PROVE LifeTypes(k)'
  <2>1. Life(k)!Store(k.kind # "mcp", Life(k)!ShadowFile(v), [adapter EXCEPT !.channel = "shadow", !.shadow = v], probes)
    BY <1>1 DEF Life!Shadow
  <2>2. /\ used'[1] \in Nat /\ used'[2] \subseteq k.versions /\ seen' \in SUBSET Life(k)!Runs
        /\ UNCHANGED <<valid, base>>
    BY <1>1 DEF Life!Shadow, LifeTypes
  <2>3. QED  BY <1>t, <2>1, <2>2, LifeWrites, LifeStore DEF LifeTypes
<1>2. ASSUME NEW t \in k.tuples, NEW ok \in BOOLEAN, Life(k)!ChannelCanary(t, ok) PROVE LifeTypes(k)'
  <2>1. Life(k)!Store(TRUE, [file EXCEPT !.runs = @ \cup {[v |-> adapter.shadow, t |-> t, ok |-> ok]}],
                      Life(k)!CanaryRow(adapter.good, adapter.bad, ok), probes)
    BY <1>2 DEF Life!ChannelCanary
  <2>2. seen' \in SUBSET Life(k)!Runs /\ UNCHANGED <<valid, used, base>>
    BY <1>2, <1>t, LifeOutcome DEF Life!ChannelCanary
  <2>3. QED  BY <1>t, <2>1, <2>2, LifeWrites, LifeStore DEF LifeTypes
<1>3. ASSUME NEW c \in k.calls, NEW t \in k.tuples, Life(k)!StartCanary(c, t) PROVE LifeTypes(k)'
  <2>1. [on |-> TRUE, v |-> adapter.shadow, t |-> t, good |-> adapter.good, bad |-> adapter.bad, file |-> file]
          \in LifeProbes(k)
    BY <1>t DEF LifeProbes
  <2>2. probes' \in P
    BY <1>3, <1>t, <2>1 DEF Life!StartCanary
  <2>3. UNCHANGED <<adapter, file, valid, outages, seen, used, act, base>>
    BY <1>3 DEF Life!StartCanary
  <2>4. QED  BY <2>2, <2>3 DEF LifeTypes
<1>4. ASSUME NEW c \in k.calls, NEW ok \in BOOLEAN, Life(k)!EndMcpCanary(c, ok) PROVE LifeTypes(k)'
  <2>1. /\ Life(k)!Store(FALSE, [file EXCEPT !.runs = @ \cup {[v |-> probes[c].v, t |-> probes[c].t, ok |-> ok]}],
                         Life(k)!CanaryRow(probes[c].good, probes[c].bad, ok), [probes EXCEPT ![c] = Life(k)!Idle])
        /\ probes[c] # Life(k)!Idle
    BY <1>4 DEF Life!EndMcpCanary
  <2>2. Life(k)!Outcome(probes[c].v, probes[c].t, ok) /\ UNCHANGED <<valid, used, base>>
    BY <1>4 DEF Life!EndMcpCanary
  <2>3. seen' \in SUBSET Life(k)!Runs
    BY <1>p, <2>1, <2>2, LifeOutcome
  <2>4. QED  BY <1>p, <1>t, <2>1, <2>2, <2>3, LifeWrites, LifeStore DEF LifeTypes
<1>5. ASSUME NEW c \in k.calls, NEW ok \in BOOLEAN, Life(k)!EndProviderCanary(c, ok) PROVE LifeTypes(k)'
  <2> DEFINE run == [v |-> probes[c].file.shadow, t |-> probes[c].t, ok |-> ok]
             f == [probes[c].file EXCEPT !.runs = @ \cup {run}]
  <2>1. /\ Life(k)!Store(TRUE, f, Life(k)!CanaryRow(adapter.good, adapter.bad, ok), [probes EXCEPT ![c] = Life(k)!Idle])
        /\ probes[c] # Life(k)!Idle
    BY <1>5 DEF Life!EndProviderCanary
  <2>2. Life(k)!Outcome(run.v, run.t, ok) /\ UNCHANGED <<used, base>> /\ valid' = ok
    BY <1>5 DEF Life!EndProviderCanary
  <2>3. seen' \in SUBSET Life(k)!Runs
    BY <1>p, <2>1, <2>2, LifeOutcome
  <2>4. f \in Life(k)!Files /\ Life(k)!CanaryRow(adapter.good, adapter.bad, ok) \in Life(k)!Rows
    BY <1>p, <1>t, <2>1, LifeWrites
  <2> HIDE DEF f
  <2>5. QED  BY <1>t, <2>1, <2>2, <2>3, <2>4, LifeStore DEF LifeTypes
<1>6. CASE Life(k)!Revalidate
  BY <1>6 DEF Life!Revalidate, LifeTypes
<1>7. ASSUME NEW t \in k.tuples, Life(k)!Promote(t) PROVE LifeTypes(k)'
  <2>1. /\ Life(k)!Store(k.kind = "channel", [file EXCEPT !.promoted = adapter.shadow],
                         [adapter EXCEPT !.channel = "active"], probes)
        /\ UNCHANGED <<valid, seen, used>> /\ base' \in {base, act}
    BY <1>7 DEF Life!Promote
  <2>2. QED  BY <1>t, <2>1, LifeWrites, LifeStore DEF LifeTypes
<1>8. CASE Life(k)!Rollback
  <2>1. /\ Life(k)!Store(k.kind = "channel", file, Life(k)!Restored, probes)
        /\ UNCHANGED <<seen, used, base>> /\ valid' \in BOOLEAN
    BY <1>8 DEF Life!Rollback, LifeTypes
  <2>2. QED  BY <1>t, <2>1, LifeWrites, LifeStore DEF LifeTypes
<1>9. CASE Life(k)!Crash
  <2>1. probes' \in P
    BY <1>9 DEF Life!Crash, Life!AllIdle
  <2>2. outages' \in 0..k.crashes /\ UNCHANGED <<adapter, file, valid, seen, used, act, base>>
    BY <1>9 DEF Life!Crash, LifeTypes, Life!UpgradeConstants
  <2>3. QED  BY <2>1, <2>2 DEF LifeTypes
<1>10. CASE UNCHANGED Life(k)!vars
  BY <1>10 DEF Life!vars, LifeTypes
<1>11. QED  BY <1>1, <1>2, <1>3, <1>4, <1>5, <1>6, <1>7, <1>8, <1>9, <1>10 DEF Life!Next

-----------------------------------------------------------------------------
(* Adapters: promoted by their own canaries                                *)

StagedRow(r) == r.channel \in {"shadow", "canary"}

\* Without crashes the file holds the outcomes of the version that is staged,
\* and only those of its last registration.
AdapterInv(k) ==
    StagedRow(adapter) =>
      /\ adapter.shadow # k.none
      /\ \A r \in Life(k)!Runs : r.v = adapter.shadow => (r \in seen <=> r \in file.runs)

\* Without crashes both records are written.
LEMMA StoreBoth ==
    ASSUME NEW CONSTANT k, Life(k)!UpgradeConstants, LifeTypes(k), k.crashes = 0,
           NEW first, NEW f, NEW r, NEW c, Life(k)!Store(first, f, r, c)
    PROVE  adapter' = r /\ file' = f /\ probes' = c
<1>1. ~(outages < k.crashes)
  BY DEF LifeTypes
<1>2. QED  BY <1>1 DEF Life!Store

\* What the operations write, field by field.
LEMMA LifeFields ==
    ASSUME NEW CONSTANT k, Life(k)!UpgradeConstants, LifeTypes(k)
    PROVE  /\ \A v : LET r == [adapter EXCEPT !.channel = "shadow", !.shadow = v]
                    IN  r.channel = "shadow" /\ r.shadow = v
           /\ \A g, b, ok : LET r == Life(k)!CanaryRow(g, b, ok)
                          IN  r.channel = "canary" /\ r.shadow = adapter.shadow
           /\ [adapter EXCEPT !.channel = "active"].channel = "active"
           /\ [adapter EXCEPT !.channel = "active"].shadow = adapter.shadow
           /\ k.kind # "provider" => Life(k)!Restored.channel \in {"active", "rolled_back"}
           /\ k.kind # "provider" => (Life(k)!Restored.channel = "active" <=> file.previous.channel = "active")
           /\ Life(k)!Restored.shadow = file.previous.shadow
           /\ k.kind = "provider" => Life(k)!Restored = file.previous
           /\ \A v : LET f == Life(k)!ShadowFile(v)
                    IN  /\ f.shadow = v /\ f.previous = adapter
                        /\ k.kind # "mcp" => f.runs = {} /\ f.promoted = k.none
                        /\ k.kind = "mcp" => f.promoted = file.promoted
           /\ \A f \in Life(k)!Files : \A run : LET g == [f EXCEPT !.runs = @ \cup {run}]
                    IN  /\ g.shadow = f.shadow /\ g.previous = f.previous /\ g.promoted = f.promoted
                        /\ g.runs = f.runs \cup {run}
           /\ \A v : LET g == [file EXCEPT !.promoted = v]
                    IN  /\ g.shadow = file.shadow /\ g.previous = file.previous /\ g.runs = file.runs
                        /\ g.promoted = v
<1>t. adapter \in Life(k)!Rows /\ file \in Life(k)!Files /\ file.previous \in Life(k)!Rows /\ k.kind \in {"channel", "mcp", "provider"}
  BY DEF LifeTypes, Life!Files, Life!UpgradeConstants
<1>1. \A v : LET r == [adapter EXCEPT !.channel = "shadow", !.shadow = v] IN r.channel = "shadow" /\ r.shadow = v
  BY <1>t DEF Life!Rows
<1>2. \A g, b, ok : LET r == Life(k)!CanaryRow(g, b, ok) IN r.channel = "canary" /\ r.shadow = adapter.shadow
  BY <1>t DEF Life!Rows, Life!CanaryRow
<1>3. [adapter EXCEPT !.channel = "active"].channel = "active" /\ [adapter EXCEPT !.channel = "active"].shadow = adapter.shadow
  BY <1>t DEF Life!Rows
<1>4. /\ k.kind # "provider" => Life(k)!Restored.channel \in {"active", "rolled_back"}
      /\ k.kind # "provider" => (Life(k)!Restored.channel = "active" <=> file.previous.channel = "active")
      /\ Life(k)!Restored.shadow = file.previous.shadow
      /\ k.kind = "provider" => Life(k)!Restored = file.previous
  BY <1>t DEF Life!Rows, Life!Restored
<1>5. \A v : LET f == Life(k)!ShadowFile(v)
              IN  /\ f.shadow = v /\ f.previous = adapter
                  /\ k.kind # "mcp" => f.runs = {} /\ f.promoted = k.none
                  /\ k.kind = "mcp" => f.promoted = file.promoted
  BY <1>t DEF Life!Files, Life!ShadowFile
<1>6. \A f \in Life(k)!Files : \A run : LET g == [f EXCEPT !.runs = @ \cup {run}]
              IN  /\ g.shadow = f.shadow /\ g.previous = f.previous /\ g.promoted = f.promoted
                  /\ g.runs = f.runs \cup {run}
  BY DEF Life!Files
<1>7. \A v : LET g == [file EXCEPT !.promoted = v]
              IN  /\ g.shadow = file.shadow /\ g.previous = file.previous /\ g.runs = file.runs
                  /\ g.promoted = v
  BY <1>t DEF Life!Files
<1>8. QED  BY <1>1, <1>2, <1>3, <1>4, <1>5, <1>6, <1>7

LEMMA AdapterStep ==
    ASSUME NEW CONSTANT k, Life(k)!UpgradeConstants, k.kind = "channel", k.crashes = 0,
           LifeTypes(k), AdapterInv(k), [Life(k)!Next]_(Life(k)!vars)
    PROVE  AdapterInv(k)'
<1>t. adapter \in Life(k)!Rows /\ file \in Life(k)!Files
  BY DEF LifeTypes
<1>1. ASSUME NEW v \in k.versions, Life(k)!Shadow(v) PROVE AdapterInv(k)'
  <2>1. adapter' = [adapter EXCEPT !.channel = "shadow", !.shadow = v] /\ file' = Life(k)!ShadowFile(v)
    BY <1>1, StoreBoth DEF Life!Shadow
  <2>2. adapter'.shadow = v /\ file'.runs = {}
    BY <2>1, LifeFields
  <2>3. seen' = {r \in seen : r.v # v} /\ v # k.none
    BY <1>1 DEF Life!Shadow, Life!UpgradeConstants
  <2>4. QED  BY <2>2, <2>3 DEF AdapterInv
<1>2. ASSUME NEW t \in k.tuples, NEW ok \in BOOLEAN, Life(k)!ChannelCanary(t, ok) PROVE AdapterInv(k)'
  <2> DEFINE run == [v |-> adapter.shadow, t |-> t, ok |-> ok]
  <2>1. /\ adapter' = Life(k)!CanaryRow(adapter.good, adapter.bad, ok)
        /\ file' = [file EXCEPT !.runs = @ \cup {run}]
    BY <1>2, StoreBoth DEF Life!ChannelCanary
  <2>2. adapter'.shadow = adapter.shadow /\ file'.runs = file.runs \cup {run}
    BY <1>t, <2>1, LifeFields
  <2>3. seen' = seen \cup {run} /\ StagedRow(adapter)
    BY <1>2 DEF Life!ChannelCanary, Life!Outcome, StagedRow
  <2> HIDE DEF run
  <2>4. QED  BY <2>2, <2>3 DEF AdapterInv
<1>3. ASSUME NEW t \in k.tuples, Life(k)!Promote(t) PROVE AdapterInv(k)'
  <2>1. adapter' = [adapter EXCEPT !.channel = "active"]
    BY <1>3, StoreBoth DEF Life!Promote
  <2>2. QED  BY <2>1, LifeFields DEF AdapterInv, StagedRow
<1>4. CASE Life(k)!Rollback
  <2>1. adapter' = Life(k)!Restored
    BY <1>4, StoreBoth DEF Life!Rollback
  <2>2. QED  BY <2>1, LifeFields DEF AdapterInv, StagedRow
<1>5. CASE UNCHANGED <<adapter, seen, file>>
  BY <1>5 DEF AdapterInv, StagedRow
<1>6. QED  BY <1>1, <1>2, <1>3, <1>4, <1>5
           DEF Life!Next, Life!vars, Life!StartCanary, Life!EndMcpCanary, Life!EndProviderCanary,
               Life!Revalidate, Life!Crash

LEMMA AdapterInit == ASSUME NEW CONSTANT k, Life(k)!Init PROVE AdapterInv(k)
  BY DEF Life!Init, AdapterInv, StagedRow, Life!EmptyRow

LEMMA AdapterGreen ==
    ASSUME NEW CONSTANT k, k.kind = "channel", LifeTypes(k), AdapterInv(k)
    PROVE  Life(k)!PromotedGreen /\ Life(k)!GreenPromotes
<1>t. seen \subseteq Life(k)!Runs /\ file.runs \subseteq Life(k)!Runs
  BY DEF LifeTypes, Life!Files
<1>1. ASSUME NEW t, adapter.channel = "canary" PROVE Life(k)!About(seen, t) = Life(k)!About(file.runs, t)
  BY <1>t, <1>1 DEF AdapterInv, StagedRow, Life!About
<1>2. Life(k)!PromotedGreen
  <2>1. ASSUME NEW t \in k.tuples, Life(k)!Promote(t)
        PROVE  adapter.channel = "canary" /\ Life(k)!Green(Life(k)!About(file.runs, t))
    BY <2>1 DEF Life!Promote, Life!MayPromote
  <2>2. QED  BY <1>1, <2>1 DEF Life!PromotedGreen
<1>3. Life(k)!GreenPromotes
  <2>1. SUFFICES ASSUME adapter.channel = "canary", file.shadow = adapter.shadow, NEW t \in k.tuples,
                        Life(k)!Green(Life(k)!About(seen, t))
                 PROVE  Life(k)!MayPromote(t)
    BY DEF Life!GreenPromotes
  <2>2. adapter.shadow # k.none
    BY <2>1 DEF AdapterInv, StagedRow
  <2>3. Life(k)!Green(Life(k)!About(file.runs, t))
    BY <1>1, <2>1
  <2>4. QED  BY <2>1, <2>2, <2>3 DEF Life!MayPromote
<1>4. QED  BY <1>2, <1>3

\* promote of the channel service: only what its own canaries proved goes into
\* service, for the tuple of the request, and what they proved may, however
\* often versions are registered over each other.
THEOREM AdapterGreenHolds ==
    ASSUME NEW CONSTANT k, Life(k)!UpgradeConstants, k.kind = "channel", k.crashes = 0
    PROVE  Life(k)!Spec => []Life(k)!GreenPromotes /\ [][Life(k)!PromotedGreen]_(Life(k)!vars)
<1>1. Life(k)!Init => LifeTypes(k) /\ AdapterInv(k)
  BY LifeTypesInit, AdapterInit
<1>2. LifeTypes(k) /\ AdapterInv(k) /\ [Life(k)!Next]_(Life(k)!vars) => LifeTypes(k)' /\ AdapterInv(k)'
  BY LifeTypesStep, AdapterStep
<1>3. LifeTypes(k) /\ AdapterInv(k) => Life(k)!GreenPromotes /\ [Life(k)!PromotedGreen]_(Life(k)!vars)
  BY AdapterGreen
<1>4. QED  BY <1>1, <1>2, <1>3, PTL DEF Life!Spec

-----------------------------------------------------------------------------
(* Adapters, servers and profiles registered in turn: what can be undone   *)

\* The version a row had in service.
InService(k, r) == IF r.channel = "active" THEN r.shadow ELSE k.none

\* A version that was registered, or none.
Known(k, v) == v \in used[2] \cup {k.none}

\* The history of the version in service agrees with the row.
ActInv(k) ==
    /\ adapter.channel = "active" => act = adapter.shadow
    /\ adapter.channel \in {"none", "rolled_back"} => act = k.none

LEMMA ActStep ==
    ASSUME NEW CONSTANT k, LifeTypes(k), ActInv(k), NEW first, NEW f, NEW r, NEW c, Life(k)!Store(first, f, r, c)
    PROVE  /\ ActInv(k)'
           /\ adapter' = adapter => act' = act
           /\ StagedRow(adapter') => act' = act
<1>1. act' = CASE adapter'.channel = "active" -> adapter'.shadow
               [] adapter'.channel \in {"none", "rolled_back"} -> k.none
               [] OTHER -> act
  BY DEF Life!Store
<1>2. ActInv(k)'
  BY <1>1 DEF ActInv
<1>3. ASSUME adapter' = adapter PROVE act' = act
  BY <1>1, <1>3 DEF ActInv
<1>4. ASSUME StagedRow(adapter') PROVE act' = act
  BY <1>1, <1>4 DEF StagedRow
<1>5. QED  BY <1>2, <1>3, <1>4

\* Which of the two records a crash leaves unwritten.
LEMMA StoreCases ==
    ASSUME NEW CONSTANT k, NEW first \in BOOLEAN, NEW f, NEW r, NEW c, Life(k)!Store(first, f, r, c)
    PROVE  \/ adapter' = r /\ file' = f /\ probes' = c
           \/ /\ probes' = [p \in k.calls |-> Life(k)!Idle]
              /\ first => file' = f /\ adapter' = adapter
              /\ ~first => adapter' = r /\ file' = file
  BY DEF Life!Store, Life!AllIdle

\* The channel service: the file is about the staged version, its snapshot is
\* from before, and what was in service before is what the snapshot says.
OrderlyInv(k) ==
    /\ ActInv(k)
    /\ Known(k, adapter.shadow) /\ Known(k, file.previous.shadow)
    /\ StagedRow(adapter) => adapter.shadow = file.shadow /\ act = InService(k, file.previous)
    /\ file.shadow # k.none => file.previous.shadow # file.shadow
    /\ file.promoted # k.none => file.promoted = file.shadow /\ base = InService(k, file.previous)
    /\ Life(k)!Undoable

LEMMA OrderlyStep ==
    ASSUME NEW CONSTANT k, Life(k)!UpgradeConstants, k.kind = "channel", ~k.restage,
           LifeTypes(k), OrderlyInv(k), [Life(k)!Next]_(Life(k)!vars)
    PROVE  OrderlyInv(k)'
<1>t. /\ adapter \in Life(k)!Rows /\ file \in Life(k)!Files /\ ActInv(k)
      /\ adapter.channel \in {"none", "shadow", "canary", "active", "rolled_back"}
  BY DEF LifeTypes, Life!Rows, Life!Channels, OrderlyInv
<1>1. ASSUME NEW v \in k.versions, Life(k)!Shadow(v) PROVE OrderlyInv(k)'
  <2> DEFINE f == Life(k)!ShadowFile(v)
             r == [adapter EXCEPT !.channel = "shadow", !.shadow = v]
  <2>1. Life(k)!Store(TRUE, f, r, probes)
    <3>1. Life(k)!Store(k.kind # "mcp", f, r, probes) /\ (k.kind # "mcp") = TRUE
      BY <1>1 DEF Life!Shadow
    <3>2. QED  BY <3>1
  <2>2. /\ f.shadow = v /\ f.previous = adapter /\ f.promoted = k.none
        /\ r.channel = "shadow" /\ r.shadow = v
    BY LifeFields
  <2>3. /\ v \notin used[2] /\ v # k.none /\ ~StagedRow(adapter) /\ used'[2] = used[2] \cup {v} /\ UNCHANGED base
    BY <1>1 DEF Life!Shadow, StagedRow, Life!UpgradeConstants
  <2>4. adapter.shadow # v /\ act = InService(k, adapter)
    BY <1>t, <2>3 DEF OrderlyInv, Known, ActInv, InService, StagedRow
  <2>5. file' = f /\ (adapter' = r \/ adapter' = adapter)
    BY <2>1, StoreCases
  <2>6. ActInv(k)' /\ (adapter' = adapter => act' = act) /\ (StagedRow(adapter') => act' = act)
    BY <1>t, <2>1, ActStep
  <2> HIDE DEF f, r
  <2>7. CASE adapter' = r
    <3>1. StagedRow(adapter') /\ adapter'.shadow = v /\ adapter'.channel # "active"
      BY <2>2, <2>7 DEF StagedRow
    <3>2. QED  BY <2>2, <2>3, <2>4, <2>5, <2>6, <3>1 DEF OrderlyInv, Known, Life!Undoable, InService
  <2>8. CASE adapter' = adapter
    BY <2>2, <2>3, <2>4, <2>5, <2>6, <2>8 DEF OrderlyInv, Known, Life!Undoable, InService
  <2>9. QED  BY <2>5, <2>7, <2>8
<1>2. ASSUME NEW t \in k.tuples, NEW ok \in BOOLEAN, Life(k)!ChannelCanary(t, ok) PROVE OrderlyInv(k)'
  <2> DEFINE f == [file EXCEPT !.runs = @ \cup {[v |-> adapter.shadow, t |-> t, ok |-> ok]}]
             r == Life(k)!CanaryRow(adapter.good, adapter.bad, ok)
  <2>1. Life(k)!Store(TRUE, f, r, probes) /\ StagedRow(adapter) /\ UNCHANGED <<used, base>>
    BY <1>2 DEF Life!ChannelCanary, StagedRow
  <2>2. /\ f.shadow = file.shadow /\ f.previous = file.previous /\ f.promoted = file.promoted
        /\ r.channel = "canary" /\ r.shadow = adapter.shadow
    BY <1>t, LifeFields
  <2>3. file' = f /\ (adapter' = r \/ adapter' = adapter)
    BY <2>1, StoreCases
  <2>4. ActInv(k)' /\ (adapter' = adapter => act' = act) /\ (StagedRow(adapter') => act' = act)
    BY <1>t, <2>1, ActStep
  <2> HIDE DEF f, r
  <2>5. StagedRow(adapter') /\ adapter'.shadow = adapter.shadow /\ adapter'.channel # "active"
    BY <2>1, <2>2, <2>3 DEF StagedRow
  <2>6. QED  BY <2>1, <2>2, <2>3, <2>4, <2>5 DEF OrderlyInv, Known, Life!Undoable, InService
<1>3. ASSUME NEW t \in k.tuples, Life(k)!Promote(t) PROVE OrderlyInv(k)'
  <2> DEFINE f == [file EXCEPT !.promoted = adapter.shadow]
             r == [adapter EXCEPT !.channel = "active"]
  <2>1. Life(k)!Store(TRUE, f, r, probes) /\ base' = (IF act = adapter.shadow THEN base ELSE act) /\ UNCHANGED used
    <3>1. Life(k)!Store(k.kind = "channel", f, r, probes) /\ (k.kind = "channel") = TRUE
      BY <1>3 DEF Life!Promote
    <3>2. QED  BY <1>3, <3>1 DEF Life!Promote
  <2>2. StagedRow(adapter) /\ adapter.shadow # k.none
    BY <1>3 DEF Life!Promote, Life!MayPromote, StagedRow
  <2>3. /\ f.shadow = file.shadow /\ f.previous = file.previous /\ f.promoted = adapter.shadow
        /\ r.channel = "active" /\ r.shadow = adapter.shadow
    BY <1>t, LifeFields
  <2>4. file' = f /\ (adapter' = r \/ adapter' = adapter)
    BY <2>1, StoreCases
  <2>5. ActInv(k)' /\ (adapter' = adapter => act' = act)
    BY <1>t, <2>1, ActStep
  <2>6. adapter.shadow = file.shadow /\ act = InService(k, file.previous) /\ act # adapter.shadow
    BY <2>2 DEF OrderlyInv, InService
  <2>7. base' = InService(k, file.previous)
    BY <2>1, <2>6
  <2> HIDE DEF f, r
  <2>8. adapter'.shadow = adapter.shadow /\ (StagedRow(adapter') => adapter' = adapter)
    BY <2>3, <2>4 DEF StagedRow
  <2>9. QED  BY <2>1, <2>3, <2>4, <2>5, <2>6, <2>7, <2>8 DEF OrderlyInv, Known, Life!Undoable, InService
<1>4. CASE Life(k)!Rollback
  <2>1. Life(k)!Store(TRUE, file, Life(k)!Restored, probes) /\ file.shadow # k.none /\ UNCHANGED <<used, base>>
    <3>1. Life(k)!Store(k.kind = "channel", file, Life(k)!Restored, probes) /\ (k.kind = "channel") = TRUE
      BY <1>4 DEF Life!Rollback
    <3>2. QED  BY <1>4, <3>1 DEF Life!Rollback, Life!MayRollback
  <2>2. Life(k)!Restored.channel \in {"active", "rolled_back"} /\ Life(k)!Restored.shadow = file.previous.shadow
    BY LifeFields
  <2>3. file' = file /\ (adapter' = Life(k)!Restored \/ adapter' = adapter)
    BY <2>1, StoreCases
  <2>4. ActInv(k)' /\ (adapter' = adapter => act' = act)
    BY <1>t, <2>1, ActStep
  <2>5. adapter' = Life(k)!Restored => ~StagedRow(adapter') /\ adapter'.shadow # file.shadow
    BY <2>1, <2>2 DEF StagedRow, OrderlyInv
  <2>6. QED  BY <2>1, <2>2, <2>3, <2>4, <2>5 DEF OrderlyInv, Known, Life!Undoable, InService
<1>5. CASE UNCHANGED <<adapter, file, used, act, base>>
  BY <1>5 DEF OrderlyInv, ActInv, Known, StagedRow, InService, Life!Undoable
<1>6. QED  BY <1>1, <1>2, <1>3, <1>4, <1>5
           DEF Life!Next, Life!vars, Life!StartCanary, Life!EndMcpCanary, Life!EndProviderCanary,
               Life!Revalidate, Life!Crash

LEMMA OrderlyInit == ASSUME NEW CONSTANT k, Life(k)!Init PROVE OrderlyInv(k)
<1>1. /\ adapter.channel = "none" /\ adapter.shadow = k.none /\ file.shadow = k.none /\ file.promoted = k.none
      /\ file.previous.shadow = k.none /\ act = k.none
  BY DEF Life!Init, Life!EmptyRow, Life!EmptyFile
<1>2. QED  BY <1>1 DEF OrderlyInv, ActInv, Known, StagedRow, InService, Life!Undoable

LEMMA OrderlyUndoes ==
    ASSUME NEW CONSTANT k, Life(k)!UpgradeConstants, k.kind = "channel", LifeTypes(k), OrderlyInv(k)
    PROVE  Life(k)!Undoable /\ Life(k)!RollbackRestores /\ Life(k)!RollbackOfPromoted
<1>1. ASSUME Life(k)!Rollback PROVE file.promoted = file.shadow /\ base = InService(k, file.previous)
  BY <1>1 DEF Life!Rollback, Life!MayRollback, OrderlyInv
<1>2. ASSUME Life(k)!Rollback, adapter' # adapter
      PROVE  adapter' = Life(k)!Restored
  <2>1. Life(k)!Store(TRUE, file, Life(k)!Restored, probes)
    <3>1. Life(k)!Store(k.kind = "channel", file, Life(k)!Restored, probes) /\ (k.kind = "channel") = TRUE
      BY <1>2 DEF Life!Rollback
    <3>2. QED  BY <3>1
  <2>2. QED  BY <1>2, <2>1, StoreCases
<1>3. Life(k)!RollbackRestores
  <2>1. SUFFICES ASSUME Life(k)!Rollback, adapter' # adapter, base # k.none
                 PROVE  adapter'.channel = "active" /\ adapter'.shadow = base
    BY DEF Life!RollbackRestores
  <2>2. QED  BY <1>1, <1>2, <2>1, LifeFields DEF InService
<1>4. QED  BY <1>1, <1>3 DEF OrderlyInv, Life!RollbackOfPromoted

\* The channel service, versions registered in turn: the version in service can
\* be rolled back, and a rollback undoes its promotion and brings back what was
\* in service before, whatever second write a crash cut off.
THEOREM OrderlyUndoHolds ==
    ASSUME NEW CONSTANT k, Life(k)!UpgradeConstants, k.kind = "channel", ~k.restage
    PROVE  Life(k)!Spec => []Life(k)!Undoable /\ [][Life(k)!RollbackRestores /\ Life(k)!RollbackOfPromoted]_(Life(k)!vars)
<1>1. Life(k)!Init => LifeTypes(k) /\ OrderlyInv(k)
  BY LifeTypesInit, OrderlyInit
<1>2. LifeTypes(k) /\ OrderlyInv(k) /\ [Life(k)!Next]_(Life(k)!vars) => LifeTypes(k)' /\ OrderlyInv(k)'
  BY LifeTypesStep, OrderlyStep
<1>3. LifeTypes(k) /\ OrderlyInv(k) =>
        Life(k)!Undoable /\ [Life(k)!RollbackRestores /\ Life(k)!RollbackOfPromoted]_(Life(k)!vars)
  BY OrderlyUndoes
<1>4. QED  BY <1>1, <1>2, <1>3, PTL DEF Life!Spec

\* The MCP service without crashes.
ServerInv(k) ==
    /\ Known(k, adapter.shadow) /\ Known(k, file.previous.shadow)
    /\ file.shadow # k.none => file.previous.shadow # file.shadow
    /\ Life(k)!Undoable

LEMMA ServerStep ==
    ASSUME NEW CONSTANT k, Life(k)!UpgradeConstants, k.kind = "mcp", ~k.restage, k.crashes = 0,
           LifeTypes(k), ServerInv(k), [Life(k)!Next]_(Life(k)!vars)
    PROVE  ServerInv(k)'
<1>t. adapter \in Life(k)!Rows /\ file \in Life(k)!Files
  BY DEF LifeTypes
<1>1. ASSUME NEW v \in k.versions, Life(k)!Shadow(v) PROVE ServerInv(k)'
  <2>1. adapter' = [adapter EXCEPT !.channel = "shadow", !.shadow = v] /\ file' = Life(k)!ShadowFile(v)
    BY <1>1, StoreBoth DEF Life!Shadow
  <2>2. adapter'.shadow = v /\ adapter'.channel = "shadow" /\ file'.shadow = v /\ file'.previous = adapter
    BY <2>1, LifeFields
  <2>3. v \notin used[2] /\ v # k.none /\ used'[2] = used[2] \cup {v}
    BY <1>1 DEF Life!Shadow, Life!UpgradeConstants
  <2>4. QED  BY <2>2, <2>3 DEF ServerInv, Known, Life!Undoable
<1>2. ASSUME NEW c \in k.calls, NEW ok \in BOOLEAN, Life(k)!EndMcpCanary(c, ok) PROVE ServerInv(k)'
  <2> DEFINE run == [v |-> probes[c].v, t |-> probes[c].t, ok |-> ok]
  <2>1. /\ adapter' = Life(k)!CanaryRow(probes[c].good, probes[c].bad, ok)
        /\ file' = [file EXCEPT !.runs = @ \cup {run}] /\ UNCHANGED used
    BY <1>2, StoreBoth DEF Life!EndMcpCanary
  <2>2. /\ adapter'.shadow = adapter.shadow /\ adapter'.channel = "canary"
        /\ file'.shadow = file.shadow /\ file'.previous = file.previous
    BY <1>t, <2>1, LifeFields
  <2>3. QED  BY <2>1, <2>2 DEF ServerInv, Known, Life!Undoable
<1>3. ASSUME NEW t \in k.tuples, Life(k)!Promote(t) PROVE ServerInv(k)'
  <2>1. /\ adapter' = [adapter EXCEPT !.channel = "active"] /\ file' = [file EXCEPT !.promoted = adapter.shadow]
        /\ UNCHANGED used
    BY <1>3, StoreBoth DEF Life!Promote
  <2>2. /\ adapter'.shadow = adapter.shadow /\ file'.promoted = adapter.shadow
        /\ file'.shadow = file.shadow /\ file'.previous = file.previous
    BY <2>1, LifeFields
  <2>3. QED  BY <2>1, <2>2 DEF ServerInv, Known, Life!Undoable
<1>4. CASE Life(k)!Rollback
  <2>1. adapter' = Life(k)!Restored /\ file' = file /\ UNCHANGED used /\ file.shadow # k.none
    BY <1>4, StoreBoth DEF Life!Rollback, Life!MayRollback
  <2>2. adapter'.shadow = file.previous.shadow
    BY <2>1, LifeFields
  <2>3. QED  BY <2>1, <2>2 DEF ServerInv, Known, Life!Undoable
<1>5. CASE UNCHANGED <<adapter, file, used>>
  BY <1>5 DEF ServerInv, Known, Life!Undoable
<1>6. QED  BY <1>1, <1>2, <1>3, <1>4, <1>5
           DEF Life!Next, Life!vars, Life!StartCanary, Life!ChannelCanary, Life!EndProviderCanary,
               Life!Revalidate, Life!Crash

LEMMA ServerInit == ASSUME NEW CONSTANT k, Life(k)!Init PROVE ServerInv(k)
  BY OrderlyInit DEF OrderlyInv, ServerInv

\* The MCP service, versions registered in turn: the version in service can be
\* rolled back, whatever probes are in flight.
THEOREM ServerUndoHolds ==
    ASSUME NEW CONSTANT k, Life(k)!UpgradeConstants, k.kind = "mcp", ~k.restage, k.crashes = 0
    PROVE  Life(k)!Spec => []Life(k)!Undoable
<1>1. Life(k)!Init => LifeTypes(k) /\ ServerInv(k)
  BY LifeTypesInit, ServerInit
<1>2. LifeTypes(k) /\ ServerInv(k) /\ [Life(k)!Next]_(Life(k)!vars) => LifeTypes(k)' /\ ServerInv(k)'
  BY LifeTypesStep, ServerStep
<1>3. ServerInv(k) => Life(k)!Undoable
  BY DEF ServerInv
<1>4. QED  BY <1>1, <1>2, <1>3, PTL DEF Life!Spec

\* One request at a time.
InTurn(k) == \A i, j \in k.calls : i = j

\* The provider service.  An evidence record f, on file or in the hands of a
\* canary, knows the outcomes noted since its registration, and what was in
\* service before its version is what its snapshot says.  Here u are the
\* versions registered, s the outcomes, a the row, v in service and b before.
Tells(k, f, u, s, a, v, b) ==
    /\ f.shadow \in u \cup {k.none} /\ f.previous.shadow \in u \cup {k.none}
    /\ ~StagedRow(f.previous)
    /\ f.shadow # k.none =>
         /\ f.previous.shadow # f.shadow
         /\ \A r \in Life(k)!Runs : r.v = f.shadow => (r \in s <=> r \in f.runs)
         /\ a.shadow = f.shadow => \/ v = InService(k, f.previous)
                                   \/ v = f.shadow /\ b = InService(k, f.previous)

\* The record a canary holds is still the one on file, or nothing was filed for
\* the version that took its place.
Outdated(k, f, g) == f.shadow # k.none /\ (f.shadow # g.shadow => g.runs = {} /\ g.promoted = k.none)

ProviderInv(k) ==
    /\ ActInv(k)
    /\ Known(k, adapter.shadow)
    /\ Tells(k, file, used[2], seen, adapter, act, base)
    /\ \A c \in k.calls : probes[c] # Life(k)!Idle =>
         /\ Tells(k, probes[c].file, used[2], seen, adapter, act, base)
         /\ Outdated(k, probes[c].file, file)

\* An earlier record while a new version is registered.
LEMMA TellsShadow ==
    ASSUME NEW k, NEW f, NEW u, NEW s, NEW a, NEW x, NEW b, Tells(k, f, u, s, a, x, b),
           NEW v, v \notin u, NEW a1, NEW x1, v # k.none,
           (a1 = a /\ x1 = x) \/ a1.shadow = v
    PROVE  Tells(k, f, u \cup {v}, {r \in s : r.v # v}, a1, x1, b)
<1>1. f.shadow # v
  BY DEF Tells
<1>2. ASSUME f.shadow # k.none, NEW r \in Life(k)!Runs, r.v = f.shadow PROVE r \in {q \in s : q.v # v} <=> r \in f.runs
  BY <1>1, <1>2 DEF Tells
<1>3. f.shadow # k.none /\ a1.shadow = f.shadow =>
        \/ x1 = InService(k, f.previous)
        \/ x1 = f.shadow /\ b = InService(k, f.previous)
  BY <1>1 DEF Tells
<1>4. QED  BY <1>2, <1>3 DEF Tells

\* The version is promoted: what was in service before it is noted.
LEMMA TellsPromote ==
    ASSUME NEW k, NEW f, NEW u, NEW s, NEW a, NEW x, NEW b, Tells(k, f, u, s, a, x, b),
           NEW a1, NEW b1, a1.shadow = a.shadow, b1 = IF x = a.shadow THEN b ELSE x
    PROVE  Tells(k, f, u, s, a1, a.shadow, b1)
<1>1. ASSUME f.shadow # k.none, a.shadow = f.shadow PROVE b1 = InService(k, f.previous)
  <2>1. f.previous.shadow # f.shadow
    BY <1>1 DEF Tells
  <2>2. InService(k, f.previous) # f.shadow
    BY <1>1, <2>1 DEF InService
  <2>3. QED  BY <1>1, <2>2 DEF Tells
<1>2. QED  BY <1>1 DEF Tells

\* Another row of the same version, the same version in service.
LEMMA TellsSame ==
    ASSUME NEW k, NEW f, NEW u, NEW s, NEW a, NEW x, NEW b, Tells(k, f, u, s, a, x, b),
           NEW a1, a1.shadow = a.shadow, NEW g, g.shadow = f.shadow, g.previous = f.previous, g.runs = f.runs
    PROVE  Tells(k, g, u, s, a1, x, b)
  BY DEF Tells

\* A version is restored that f was not about.
LEMMA TellsOther ==
    ASSUME NEW k, NEW f, NEW u, NEW s, NEW a, NEW x, NEW b, Tells(k, f, u, s, a, x, b),
           NEW a1, NEW x1, a1.shadow # f.shadow
    PROVE  Tells(k, f, u, s, a1, x1, b)
  BY DEF Tells

\* A canary of its version is filed.
LEMMA TellsFiled ==
    ASSUME NEW k, NEW f, NEW u, NEW s, NEW a, NEW x, NEW b, Tells(k, f, u, s, a, x, b),
           NEW a1, a1.shadow = a.shadow, NEW run, NEW g, g.shadow = f.shadow, g.previous = f.previous,
           g.runs = f.runs \cup {run}
    PROVE  Tells(k, g, u, s \cup {run}, a1, x, b)
  BY DEF Tells

LEMMA ProviderStep ==
    ASSUME NEW CONSTANT k, Life(k)!UpgradeConstants, k.kind = "provider", ~k.restage, InTurn(k),
           LifeTypes(k), ProviderInv(k), [Life(k)!Next]_(Life(k)!vars)
    PROVE  ProviderInv(k)'
<1>t. /\ adapter \in Life(k)!Rows /\ file \in Life(k)!Files /\ ActInv(k)
      /\ adapter.channel \in {"none", "shadow", "canary", "active", "rolled_back"}
      /\ \A c \in k.calls : probes[c] # Life(k)!Idle => probes[c].file \in Life(k)!Files
      /\ Tells(k, file, used[2], seen, adapter, act, base)
  BY DEF LifeTypes, Life!Rows, Life!Channels, ProviderInv, LifeProbes
<1>1. ASSUME NEW v \in k.versions, Life(k)!Shadow(v) PROVE ProviderInv(k)'
  <2> DEFINE f == Life(k)!ShadowFile(v)
             r == [adapter EXCEPT !.channel = "shadow", !.shadow = v]
  <2>1. Life(k)!Store(TRUE, f, r, probes)
    <3>1. Life(k)!Store(k.kind # "mcp", f, r, probes) /\ (k.kind # "mcp") = TRUE
      BY <1>1 DEF Life!Shadow
    <3>2. QED  BY <3>1
  <2>2. /\ f.shadow = v /\ f.previous = adapter /\ f.promoted = k.none /\ f.runs = {}
        /\ r.channel = "shadow" /\ r.shadow = v
    BY LifeFields
  <2>3. /\ v \notin used[2] /\ v # k.none /\ ~StagedRow(adapter) /\ UNCHANGED base
        /\ used'[2] = used[2] \cup {v} /\ seen' = {q \in seen : q.v # v}
    BY <1>1 DEF Life!Shadow, StagedRow, Life!UpgradeConstants
  <2>4. adapter.shadow # v /\ act = InService(k, adapter) /\ Known(k, adapter.shadow)
    BY <1>t, <2>3 DEF ProviderInv, Known, ActInv, InService, StagedRow
  <2>5. file' = f /\ (adapter' = r \/ adapter' = adapter)
        /\ (probes' = probes \/ probes' = [p \in k.calls |-> Life(k)!Idle])
    BY <2>1, StoreCases
  <2>6. ActInv(k)' /\ (adapter' = adapter => act' = act) /\ (StagedRow(adapter') => act' = act)
    BY <1>t, <2>1, ActStep
  <2> HIDE DEF f, r
  <2>7. act' = act /\ adapter'.shadow \in {adapter.shadow, v} /\ (adapter' = adapter \/ adapter'.shadow = v)
    BY <2>2, <2>5, <2>6 DEF StagedRow
  <2>8. Tells(k, file', used'[2], seen', adapter', act', base')
    <3>1. file'.shadow = v /\ file'.previous = adapter /\ file'.runs = {}
      BY <2>2, <2>5
    <3>2. QED  BY <2>3, <2>4, <2>7, <3>1 DEF Tells, Known
  <2>9. ASSUME NEW c \in k.calls, probes'[c] # Life(k)!Idle
        PROVE  /\ Tells(k, probes'[c].file, used'[2], seen', adapter', act', base')
               /\ Outdated(k, probes'[c].file, file')
    <3>1. probes' = probes
      BY <2>5, <2>9
    <3>2. Tells(k, probes[c].file, used[2], seen, adapter, act, base) /\ Outdated(k, probes[c].file, file)
      BY <2>9, <3>1 DEF ProviderInv
    <3>3. Tells(k, probes[c].file, used[2] \cup {v}, {q \in seen : q.v # v}, adapter', act', base)
      BY <2>3, <2>7, <3>2, TellsShadow
    <3>4. Outdated(k, probes[c].file, f)
      BY <2>2, <3>2 DEF Outdated
    <3>5. QED  BY <2>3, <2>5, <3>1, <3>3, <3>4
  <2>10. Known(k, adapter.shadow)'
    BY <2>3, <2>4, <2>7 DEF Known
  <2>11. QED  BY <2>6, <2>8, <2>9, <2>10 DEF ProviderInv
<1>2. ASSUME NEW c \in k.calls, NEW t \in k.tuples, Life(k)!StartCanary(c, t) PROVE ProviderInv(k)'
  <2>1. /\ UNCHANGED <<adapter, file, seen, used, act, base>>
        /\ probes' = [probes EXCEPT ![c] = [on |-> TRUE, v |-> adapter.shadow, t |-> t,
                                            good |-> adapter.good, bad |-> adapter.bad, file |-> file]]
        /\ file.shadow # k.none
    BY <1>2 DEF Life!StartCanary, Life!CanaryAllowed
  <2>2. ASSUME NEW d \in k.calls, probes'[d] # Life(k)!Idle
        PROVE  /\ Tells(k, probes'[d].file, used[2], seen, adapter, act, base)
               /\ Outdated(k, probes'[d].file, file)
    <3>1. d = c
      BY DEF InTurn
    <3>2. probes'[d].file = file
      BY <2>1, <3>1 DEF LifeTypes
    <3>3. QED  BY <1>t, <2>1, <3>2 DEF Outdated
  <2>3. QED  BY <2>1, <2>2 DEF ProviderInv, ActInv, Known
<1>3. ASSUME NEW c \in k.calls, NEW ok \in BOOLEAN, Life(k)!EndProviderCanary(c, ok) PROVE ProviderInv(k)'
  <2> DEFINE run == [v |-> probes[c].file.shadow, t |-> probes[c].t, ok |-> ok]
             f == [probes[c].file EXCEPT !.runs = @ \cup {run}]
             r == Life(k)!CanaryRow(adapter.good, adapter.bad, ok)
  <2>1. /\ Life(k)!Store(TRUE, f, r, [probes EXCEPT ![c] = Life(k)!Idle])
        /\ probes[c] # Life(k)!Idle /\ UNCHANGED <<used, base>> /\ seen' = seen \cup {run}
    BY <1>3 DEF Life!EndProviderCanary, Life!Outcome
  <2>2. /\ f.shadow = probes[c].file.shadow /\ f.previous = probes[c].file.previous
        /\ f.runs = probes[c].file.runs \cup {run}
        /\ r.channel = "canary" /\ r.shadow = adapter.shadow
    BY <1>t, <2>1, LifeFields
  <2>3. /\ file' = f /\ (adapter' = r \/ adapter' = adapter)
        /\ probes' = [probes EXCEPT ![c] = Life(k)!Idle] \/ probes' = [p \in k.calls |-> Life(k)!Idle]
    BY <2>1, StoreCases
  <2>4. ActInv(k)' /\ (adapter' = adapter => act' = act) /\ (StagedRow(adapter') => act' = act)
    BY <1>t, <2>1, ActStep
  <2> HIDE DEF f, r, run
  <2>5. adapter'.shadow = adapter.shadow /\ act' = act
    BY <2>2, <2>3, <2>4 DEF StagedRow
  <2>6. Tells(k, probes[c].file, used[2], seen, adapter, act, base)
    BY <2>1 DEF ProviderInv
  <2>7. Tells(k, f, used[2], seen \cup {run}, adapter', act, base)
    BY <2>2, <2>5, <2>6, TellsFiled
  <2>8. \A d \in k.calls : probes'[d] = Life(k)!Idle
    BY <2>3 DEF InTurn, LifeTypes
  <2>9. QED  BY <2>1, <2>3, <2>4, <2>5, <2>7, <2>8 DEF ProviderInv, Known
<1>4. ASSUME NEW t \in k.tuples, Life(k)!Promote(t) PROVE ProviderInv(k)'
  <2> DEFINE f == [file EXCEPT !.promoted = adapter.shadow]
             r == [adapter EXCEPT !.channel = "active"]
  <2>1. Life(k)!Store(FALSE, f, r, probes) /\ base' = (IF act = adapter.shadow THEN base ELSE act) /\ UNCHANGED <<used, seen>>
    <3>1. Life(k)!Store(k.kind = "channel", f, r, probes) /\ (k.kind = "channel") = FALSE
      BY <1>4 DEF Life!Promote
    <3>2. QED  BY <1>4, <3>1 DEF Life!Promote
  <2>2. file.runs # {}
    BY <1>4 DEF Life!Promote, Life!MayPromote, Life!Green, Life!About
  <2>3. /\ f.shadow = file.shadow /\ f.previous = file.previous /\ f.runs = file.runs
        /\ r.channel = "active" /\ r.shadow = adapter.shadow
    BY <1>t, LifeFields
  <2>4. /\ (file' = f \/ file' = file) /\ adapter' = r
        /\ (probes' = probes \/ probes' = [p \in k.calls |-> Life(k)!Idle])
    BY <2>1, StoreCases
  <2>5. ActInv(k)' /\ act' = adapter.shadow
    BY <1>t, <2>1, <2>3, <2>4, ActStep DEF ActInv
  <2> HIDE DEF f, r
  <2>6. adapter'.shadow = adapter.shadow /\ file'.shadow = file.shadow /\ file'.previous = file.previous /\ file'.runs = file.runs
    BY <2>3, <2>4
  <2>7. Tells(k, file', used[2], seen, adapter', act', base')
    <3>1. Tells(k, file, used[2], seen, adapter', adapter.shadow, base')
      BY <1>t, <2>1, <2>6, TellsPromote
    <3>2. QED  BY <2>5, <2>6, <3>1, TellsSame
  <2>8. ASSUME NEW c \in k.calls, probes'[c] # Life(k)!Idle
        PROVE  /\ Tells(k, probes'[c].file, used[2], seen, adapter', act', base')
               /\ Outdated(k, probes'[c].file, file')
    <3>1. probes' = probes
      BY <2>4, <2>8
    <3>2. Tells(k, probes[c].file, used[2], seen, adapter, act, base) /\ Outdated(k, probes[c].file, file)
      BY <2>8, <3>1 DEF ProviderInv
    <3>3. Tells(k, probes[c].file, used[2], seen, adapter', adapter.shadow, base')
      BY <2>1, <2>6, <3>2, TellsPromote
    <3>4. QED  BY <2>2, <2>5, <2>6, <3>1, <3>2, <3>3 DEF Outdated
  <2>9. QED  BY <2>1, <2>5, <2>6, <2>7, <2>8 DEF ProviderInv, Known
<1>5. CASE Life(k)!Rollback
  <2>1. /\ Life(k)!Store(FALSE, file, Life(k)!Restored, probes) /\ UNCHANGED <<seen, used, base>>
        /\ file.shadow # k.none /\ file.promoted # k.none
    <3>1. Life(k)!Store(k.kind = "channel", file, Life(k)!Restored, probes) /\ (k.kind = "channel") = FALSE
      BY <1>5 DEF Life!Rollback
    <3>2. QED  BY <1>5, <3>1 DEF Life!Rollback, Life!MayRollback
  <2>2. file' = file /\ adapter' = file.previous /\ (probes' = probes \/ probes' = [p \in k.calls |-> Life(k)!Idle])
    <3>1. adapter' = Life(k)!Restored /\ file' = file /\ (probes' = probes \/ probes' = [p \in k.calls |-> Life(k)!Idle])
      BY <2>1, StoreCases
    <3>2. QED  BY <3>1, LifeFields
  <2>3. ActInv(k)'
    BY <1>t, <2>1, ActStep
  <2>4. adapter'.shadow # file.shadow /\ Known(k, file.previous.shadow)
    BY <1>t, <2>1, <2>2 DEF Tells, Known
  <2>5. Tells(k, file', used[2], seen, adapter', act', base)
    BY <1>t, <2>2, <2>4, TellsOther
  <2>6. ASSUME NEW c \in k.calls, probes'[c] # Life(k)!Idle
        PROVE  /\ Tells(k, probes'[c].file, used[2], seen, adapter', act', base)
               /\ Outdated(k, probes'[c].file, file')
    <3>1. probes' = probes
      BY <2>2, <2>6
    <3>2. Tells(k, probes[c].file, used[2], seen, adapter, act, base) /\ Outdated(k, probes[c].file, file)
      BY <2>6, <3>1 DEF ProviderInv
    <3>3. probes[c].file.shadow = file.shadow
      BY <2>1, <3>2 DEF Outdated
    <3>4. Tells(k, probes[c].file, used[2], seen, adapter', act', base)
      BY <2>4, <3>2, <3>3, TellsOther
    <3>5. QED  BY <2>2, <3>1, <3>2, <3>4
  <2>7. QED  BY <2>1, <2>2, <2>3, <2>4, <2>5, <2>6 DEF ProviderInv, Known
<1>6. CASE Life(k)!Crash
  <2>1. UNCHANGED <<adapter, file, seen, used, act, base>> /\ probes' = [p \in k.calls |-> Life(k)!Idle]
    BY <1>6 DEF Life!Crash, Life!AllIdle
  <2>2. QED  BY <2>1 DEF ProviderInv, ActInv, Known
<1>7. CASE UNCHANGED <<adapter, file, probes, seen, used, act, base>>
  BY <1>7 DEF ProviderInv, ActInv, Known
<1>8. QED  BY <1>1, <1>2, <1>3, <1>4, <1>5, <1>6, <1>7
           DEF Life!Next, Life!vars, Life!ChannelCanary, Life!EndMcpCanary, Life!Revalidate

LEMMA ProviderInit == ASSUME NEW CONSTANT k, Life(k)!Init PROVE ProviderInv(k)
<1>1. /\ adapter.channel = "none" /\ adapter.shadow = k.none /\ file.shadow = k.none
      /\ file.previous.shadow = k.none /\ file.previous.channel = "none" /\ act = k.none
      /\ \A c \in k.calls : probes[c] = Life(k)!Idle
  BY DEF Life!Init, Life!EmptyRow, Life!EmptyFile
<1>2. QED  BY <1>1 DEF ProviderInv, ActInv, Known, Tells, StagedRow

LEMMA ProviderUndoes ==
    ASSUME NEW CONSTANT k, Life(k)!UpgradeConstants, k.kind = "provider", LifeTypes(k), ProviderInv(k)
    PROVE  Life(k)!PromotedGreen /\ Life(k)!RollbackRestores
<1>t. seen \subseteq Life(k)!Runs /\ file.runs \subseteq Life(k)!Runs /\ Tells(k, file, used[2], seen, adapter, act, base)
  BY DEF LifeTypes, Life!Files, ProviderInv
<1>1. ASSUME NEW t \in k.tuples, Life(k)!Promote(t) PROVE Life(k)!Green(Life(k)!About(seen, t))
  <2>1. file.shadow # k.none /\ adapter.shadow = file.shadow /\ Life(k)!Green(Life(k)!About(file.runs, t))
    BY <1>1 DEF Life!Promote, Life!MayPromote
  <2>2. Life(k)!About(seen, t) = Life(k)!About(file.runs, t)
    BY <1>t, <2>1 DEF Life!About, Tells
  <2>3. QED  BY <2>1, <2>2
<1>2. ASSUME Life(k)!Rollback, base # k.none PROVE adapter'.channel = "active" /\ adapter'.shadow = base
  <2>1. /\ Life(k)!Store(FALSE, file, Life(k)!Restored, probes)
        /\ file.shadow # k.none /\ adapter.channel = "active" /\ adapter.shadow = file.shadow
    <3>1. Life(k)!Store(k.kind = "channel", file, Life(k)!Restored, probes) /\ (k.kind = "channel") = FALSE
      BY <1>2 DEF Life!Rollback
    <3>2. QED  BY <1>2, <3>1 DEF Life!Rollback, Life!MayRollback
  <2>2. adapter' = file.previous
    <3>1. adapter' = Life(k)!Restored
      BY <2>1, StoreCases
    <3>2. QED  BY <3>1, LifeFields
  <2>3. act = file.shadow /\ file.previous.shadow # file.shadow
    BY <1>t, <2>1 DEF ProviderInv, ActInv, Tells
  <2>4. base = InService(k, file.previous)
    BY <1>t, <2>1, <2>3 DEF Tells, InService
  <2>5. QED  BY <1>2, <2>2, <2>4 DEF InService
<1>3. QED  BY <1>1, <1>2 DEF Life!PromotedGreen, Life!RollbackRestores

-----------------------------------------------------------------------------
(* The types of the skill lifecycle                                        *)

SkillTypes(k) ==
    /\ Skill(k)!TypeOK
    /\ \A c \in k.candidates : evidence[c].version \in Skill(k)!Whole \cup {k.none}
    /\ \A i \in k.calls : tries[i] # Skill(k)!Idle => tries[i].c \in k.candidates

LEMMA SkillFacts ==
    ASSUME NEW CONSTANT k, Skill(k)!SkillConstants
    PROVE  /\ k.shadows \in Nat /\ k.crashes \in Nat /\ k.again \in BOOLEAN
           /\ k.none \notin k.candidates /\ k.original \notin k.candidates /\ k.torn \notin k.candidates
           /\ k.none # k.original /\ k.torn # k.original /\ k.none # k.torn
<1>0. k.shadows \in Nat /\ k.crashes \in Nat /\ k.again \in BOOLEAN
  BY DEF Skill!SkillConstants
<1>1. k.none \notin k.candidates /\ k.original \notin k.candidates /\ k.torn \notin k.candidates
  <2>1. \A x \in {k.original, k.none, k.torn} : x \notin k.candidates
    BY DEF Skill!SkillConstants
  <2>2. QED  BY <2>1
<1>2. k.none # k.original /\ k.torn # k.original /\ k.none # k.torn
  BY DEF Skill!SkillConstants
<1>3. QED  BY <1>0, <1>1, <1>2

\* What a cut replacement leaves.
LEMMA ReplacedIs ==
    ASSUME NEW CONSTANT k, NEW n \in Nat, NEW r \in Nat, NEW old, NEW src
    PROVE  /\ Skill(k)!Replaced(n, r, old, src) \in {old, k.none, k.torn, src}
           /\ n < r => Skill(k)!Replaced(n, r, old, src) = old
           /\ n >= r /\ n < r + 2 => Skill(k)!Replaced(n, r, old, src) \in {k.none, k.torn}
           /\ n >= r + 2 => Skill(k)!Replaced(n, r, old, src) = src
  BY DEF Skill!Replaced

\* What becomes of the canaries and the crashes when an operation ends or is cut.
LEMMA CutTries ==
    ASSUME NEW CONSTANT k, SkillTypes(k), Skill(k)!SkillConstants, NEW n, NEW last, Skill(k)!CutAt(n, last)
    PROVE  /\ crashes' \in 0..k.crashes
           /\ tries' \in [k.calls -> [c : k.candidates \cup {k.none}, w : Nat]]
           /\ \A i \in k.calls : tries'[i] # Skill(k)!Idle => tries'[i].c \in k.candidates
<1>t. crashes \in 0..k.crashes /\ tries \in [k.calls -> [c : k.candidates \cup {k.none}, w : Nat]] /\ k.crashes \in Nat
  BY SkillFacts DEF SkillTypes, Skill!TypeOK
<1>1. CASE UNCHANGED <<crashes, tries>>
  BY <1>1, <1>t DEF SkillTypes
<1>2. CASE crashes < k.crashes /\ crashes' = crashes + 1 /\ tries' = [i \in k.calls |-> Skill(k)!Idle]
  <2>1. Skill(k)!Idle \in [c : k.candidates \cup {k.none}, w : Nat]
    BY DEF Skill!Idle
  <2>2. QED  BY <1>2, <1>t, <2>1
<1>3. QED  BY <1>1, <1>2 DEF Skill!CutAt

LEMMA SkillTypesInit == ASSUME NEW CONSTANT k, Skill(k)!SkillConstants, Skill(k)!Init PROVE SkillTypes(k)
<1> DEFINE N == Skill(k)!NoEvidence
<1>1. k.shadows \in Nat /\ k.crashes \in Nat
  BY SkillFacts
<1>2. N \in Skill(k)!Evidence /\ N.version = k.none
  BY DEF Skill!NoEvidence, Skill!Evidence, Skill!Content, Skill!Statuses
<1>3. Skill(k)!Idle \in [c : k.candidates \cup {k.none}, w : Nat]
  BY DEF Skill!Idle
<1>4. /\ active \in Skill(k)!Content /\ active \in Skill(k)!Whole \cup {k.none}
      /\ shadow \in [k.candidates -> Skill(k)!Content] /\ backup \in [k.candidates -> Skill(k)!Content]
      /\ outcomes \in [k.candidates -> SUBSET BOOLEAN]
      /\ evidence = [c \in k.candidates |-> N] /\ tries = [i \in k.calls |-> Skill(k)!Idle]
      /\ shadows = 0 /\ crashes = 0
  BY DEF Skill!Init, Skill!Content, Skill!Whole
<1>5. skill \in [installed : Skill(k)!Whole \cup {k.none}, status : Skill(k)!Statuses]
  BY <1>4 DEF Skill!Init, Skill!Statuses
<1> HIDE DEF N
<1>6. /\ evidence \in [k.candidates -> Skill(k)!Evidence] /\ \A c \in k.candidates : evidence[c].version = k.none
      /\ tries \in [k.calls -> [c : k.candidates \cup {k.none}, w : Nat]]
      /\ \A i \in k.calls : tries[i] = Skill(k)!Idle
  BY <1>2, <1>3, <1>4
<1>7. QED  BY <1>1, <1>4, <1>5, <1>6 DEF SkillTypes, Skill!TypeOK

\* A canary's outcome is filed.
LEMMA FiledKeeps ==
    ASSUME NEW CONSTANT k, SkillTypes(k), NEW c \in k.candidates, NEW ok \in BOOLEAN, Skill(k)!Filed(c, ok)
    PROVE  /\ evidence' \in [k.candidates -> Skill(k)!Evidence] /\ outcomes' \in [k.candidates -> SUBSET BOOLEAN]
           /\ \A d \in k.candidates :
                /\ evidence'[d].window = evidence[d].window /\ evidence'[d].prev = evidence[d].prev
                /\ evidence'[d].version = evidence[d].version
<1>t. evidence \in [k.candidates -> Skill(k)!Evidence] /\ outcomes \in [k.candidates -> SUBSET BOOLEAN]
  BY DEF SkillTypes, Skill!TypeOK
<1> DEFINE run == [w |-> evidence[c].window, ok |-> ok]
           e == [evidence[c] EXCEPT !.runs = @ \cup {run}]
<1>1. evidence' = [evidence EXCEPT ![c] = e]
  BY DEF Skill!Filed
<1>2. outcomes' = [outcomes EXCEPT ![c] = @ \cup {ok}]
  BY DEF Skill!Filed
<1>3. evidence[c] \in Skill(k)!Evidence
  BY <1>t
<1>4. run \in [w : Nat, ok : BOOLEAN]
  BY <1>3 DEF Skill!Evidence
<1>5. e.window = evidence[c].window /\ e.prev = evidence[c].prev /\ e.version = evidence[c].version
  BY <1>3 DEF Skill!Evidence
<1>6. e \in Skill(k)!Evidence
  <2> DEFINE R == SUBSET [w : Nat, ok : BOOLEAN]
  <2>1. evidence[c].runs \in R
    BY <1>3 DEF Skill!Evidence
  <2>2. evidence[c].runs \cup {run} \in R
    BY <1>4, <2>1
  <2>3. QED  BY <1>3, <2>2 DEF Skill!Evidence
<1> HIDE DEF e
<1>7. outcomes' \in [k.candidates -> SUBSET BOOLEAN]
  BY <1>2, <1>t
<1>8. QED  BY <1>1, <1>2, <1>5, <1>6, <1>7, <1>t

\* What a registration, cut anywhere, does to the records.
LEMMA ShadowDoes ==
    ASSUME NEW CONSTANT k, SkillTypes(k), Skill(k)!SkillConstants,
           NEW c \in k.candidates, NEW n \in 1..5, Skill(k)!Shadow(c, n)
    PROVE  /\ Skill(k)!CutAt(n, 5) /\ UNCHANGED <<active, backup>>
           /\ shadow' \in [k.candidates -> Skill(k)!Content] /\ shadows' \in 0..k.shadows
           /\ skill' \in [installed : Skill(k)!Whole \cup {k.none}, status : Skill(k)!Statuses]
           /\ skill'.installed = skill.installed
           /\ \/ UNCHANGED <<evidence, outcomes>>
              \/ /\ evidence' = [evidence EXCEPT ![c] = Skill(k)!NewWindow(c)]
                 /\ outcomes' = [outcomes EXCEPT ![c] = {}]
           /\ Skill(k)!NewWindow(c) \in Skill(k)!Evidence
           /\ Skill(k)!NewWindow(c).prev = active /\ Skill(k)!NewWindow(c).version = skill.installed
           /\ Skill(k)!NewWindow(c).window > 0 /\ Skill(k)!NewWindow(c).runs = {}
           /\ k.again \/ evidence[c].window = 0
<1>t. /\ active \in Skill(k)!Content /\ shadow \in [k.candidates -> Skill(k)!Content]
      /\ skill \in [installed : Skill(k)!Whole \cup {k.none}, status : Skill(k)!Statuses]
      /\ shadows \in 0..k.shadows /\ k.shadows \in Nat
  BY SkillFacts DEF SkillTypes, Skill!TypeOK
<1>1. /\ Skill(k)!CutAt(n, 5) /\ UNCHANGED <<active, backup>> /\ shadows < k.shadows /\ shadows' = shadows + 1
      /\ (k.again \/ evidence[c].window = 0)
      /\ shadow' = [shadow EXCEPT ![c] = Skill(k)!Replaced(n, 1, @, c)]
  BY DEF Skill!Shadow
<1>2. /\ skill' = skill \/ skill' = [skill EXCEPT !.status = "not_installed"]
      /\ \/ UNCHANGED <<evidence, outcomes>>
         \/ /\ evidence' = [evidence EXCEPT ![c] = Skill(k)!NewWindow(c)]
            /\ outcomes' = [outcomes EXCEPT ![c] = {}]
  BY DEF Skill!Shadow
<1>3. shadow' \in [k.candidates -> Skill(k)!Content]
  <2>1. Skill(k)!Replaced(n, 1, shadow[c], c) \in {shadow[c], k.none, k.torn, c}
    BY DEF Skill!Replaced
  <2>2. Skill(k)!Replaced(n, 1, shadow[c], c) \in Skill(k)!Content
    BY <1>t, <2>1 DEF Skill!Content, Skill!Whole
  <2>3. QED  BY <1>1, <1>t, <2>2
<1>4. /\ skill' \in [installed : Skill(k)!Whole \cup {k.none}, status : Skill(k)!Statuses]
      /\ skill'.installed = skill.installed
  BY <1>2, <1>t DEF Skill!Statuses
<1>5. /\ Skill(k)!NewWindow(c) \in Skill(k)!Evidence
      /\ Skill(k)!NewWindow(c).prev = active /\ Skill(k)!NewWindow(c).version = skill.installed
      /\ Skill(k)!NewWindow(c).window > 0 /\ Skill(k)!NewWindow(c).runs = {}
  <2>1. skill.installed \in Skill(k)!Content /\ skill.status \in Skill(k)!Statuses /\ shadows + 1 \in Nat /\ shadows + 1 > 0
    BY <1>t DEF Skill!Content
  <2>2. QED  BY <1>t, <2>1 DEF Skill!NewWindow, Skill!Evidence
<1>6. QED  BY <1>1, <1>2, <1>3, <1>4, <1>5, <1>t

\* What a promotion, cut anywhere, does to the records.
LEMMA PromoteDoes ==
    ASSUME NEW CONSTANT k, SkillTypes(k), Skill(k)!SkillConstants,
           NEW c \in k.candidates, NEW n \in 1..8, Skill(k)!Promote(c, n)
    PROVE  /\ Skill(k)!CutAt(n, 8) /\ UNCHANGED <<shadow, evidence, shadows, outcomes>>
           /\ Skill(k)!MayPromote(c) /\ evidence[c].window > 0
           /\ active' \in Skill(k)!Content /\ backup' \in [k.candidates -> Skill(k)!Content]
           /\ skill' \in [installed : Skill(k)!Whole \cup {k.none}, status : Skill(k)!Statuses]
           /\ n < 4 => active' = active
           /\ n = 8 => active' = c
           /\ \A d \in k.candidates : d # c => backup'[d] = backup[d]
           /\ backup'[c] \in {backup[c], k.none, k.torn, active}
           /\ n >= 3 => backup'[c] = active
           /\ n < 7 => skill' = skill
           /\ skill'.installed \in {skill.installed, c}
           /\ n >= 7 => skill'.installed = c
<1>t. /\ active \in Skill(k)!Content /\ backup \in [k.candidates -> Skill(k)!Content]
      /\ skill \in [installed : Skill(k)!Whole \cup {k.none}, status : Skill(k)!Statuses]
  BY DEF SkillTypes, Skill!TypeOK
<1>1. /\ Skill(k)!CutAt(n, 8) /\ UNCHANGED <<shadow, evidence, shadows, outcomes>>
      /\ Skill(k)!MayPromote(c) /\ evidence[c].window > 0 /\ shadow[c] = c
      /\ backup' = [backup EXCEPT ![c] = Skill(k)!Replaced(n, 1, @, active)]
      /\ active' = Skill(k)!Replaced(n, 4, active, shadow[c])
      /\ skill' = IF n >= 7 THEN [installed |-> c, status |-> "installed"] ELSE skill
  BY DEF Skill!Promote, Skill!MayPromote
<1>2. active' \in {active, k.none, k.torn, c} /\ (n < 4 => active' = active) /\ (n = 8 => active' = c)
  BY <1>1, ReplacedIs
<1>3. /\ backup'[c] = Skill(k)!Replaced(n, 1, backup[c], active)
      /\ \A d \in k.candidates : d # c => backup'[d] = backup[d]
  BY <1>1, <1>t
<1>4. /\ backup'[c] \in {backup[c], k.none, k.torn, active}
      /\ n >= 3 => backup'[c] = active
  BY <1>3, ReplacedIs
<1>5. active' \in Skill(k)!Content
  BY <1>2, <1>t DEF Skill!Content, Skill!Whole
<1>6. backup' \in [k.candidates -> Skill(k)!Content]
  <2>1. Skill(k)!Replaced(n, 1, backup[c], active) \in Skill(k)!Content
    BY <1>3, <1>4, <1>t DEF Skill!Content
  <2>2. QED  BY <1>1, <1>t, <2>1
<1>7. /\ skill' \in [installed : Skill(k)!Whole \cup {k.none}, status : Skill(k)!Statuses]
      /\ n < 7 => skill' = skill
      /\ skill'.installed \in {skill.installed, c}
      /\ n >= 7 => skill'.installed = c
  BY <1>1, <1>t DEF Skill!Statuses, Skill!Whole
<1>8. QED  BY <1>1, <1>2, <1>3, <1>4, <1>5, <1>6, <1>7

\* What a rollback, cut anywhere, does to the records.
LEMMA RollbackDoes ==
    ASSUME NEW CONSTANT k, SkillTypes(k), Skill(k)!SkillConstants,
           NEW c \in k.candidates, NEW n \in 1..4, Skill(k)!Rollback(c, n)
    PROVE  /\ Skill(k)!CutAt(n, 4) /\ UNCHANGED <<shadow, backup, evidence, shadows, outcomes>>
           /\ evidence[c].window > 0
           /\ evidence[c].version # k.none => evidence[c].prev # k.none
           /\ evidence[c].prev # k.none => backup[c] = evidence[c].prev
           /\ active' \in Skill(k)!Content
           /\ skill' \in [installed : Skill(k)!Whole \cup {k.none}, status : Skill(k)!Statuses]
           /\ n = 4 => active' = evidence[c].prev /\ skill'.installed = evidence[c].version
           /\ skill'.installed \in {skill.installed, evidence[c].version}
<1>t. /\ active \in Skill(k)!Content /\ backup \in [k.candidates -> Skill(k)!Content]
      /\ skill \in [installed : Skill(k)!Whole \cup {k.none}, status : Skill(k)!Statuses]
      /\ evidence[c] \in Skill(k)!Evidence /\ evidence[c].version \in Skill(k)!Whole \cup {k.none}
  BY DEF SkillTypes, Skill!TypeOK
<1>1. /\ Skill(k)!CutAt(n, 4) /\ UNCHANGED <<shadow, backup, evidence, shadows, outcomes>>
      /\ evidence[c].window > 0
      /\ evidence[c].version # k.none => evidence[c].prev # k.none
      /\ evidence[c].prev # k.none => backup[c] = evidence[c].prev
      /\ active' = Skill(k)!Replaced(n, 1, active, IF evidence[c].prev = k.none THEN k.none ELSE backup[c])
      /\ skill' = IF n >= 4 THEN [installed |-> evidence[c].version, status |-> evidence[c].status] ELSE skill
  BY DEF Skill!Rollback, Skill!MayRollback
<1>2. active' \in {active, k.none, k.torn, evidence[c].prev} /\ (n = 4 => active' = evidence[c].prev)
  BY <1>1, ReplacedIs
<1>3. active' \in Skill(k)!Content
  BY <1>2, <1>t DEF Skill!Content, Skill!Evidence
<1>4. /\ skill' \in [installed : Skill(k)!Whole \cup {k.none}, status : Skill(k)!Statuses]
      /\ skill'.installed \in {skill.installed, evidence[c].version}
      /\ n = 4 => skill'.installed = evidence[c].version
  BY <1>1, <1>t DEF Skill!Evidence
<1>5. QED  BY <1>1, <1>2, <1>3, <1>4

\* The steps that only concern canaries.
LEMMA EndDoes ==
    ASSUME NEW CONSTANT k, SkillTypes(k), NEW i \in k.calls, NEW ok \in BOOLEAN, Skill(k)!EndCanary(i, ok)
    PROVE  /\ \/ UNCHANGED <<evidence, outcomes>>
              \/ \E c \in k.candidates : Skill(k)!Filed(c, TRUE) \/ Skill(k)!Filed(c, FALSE)
           /\ tries' = [tries EXCEPT ![i] = Skill(k)!Idle]
           /\ UNCHANGED <<active, shadow, backup, skill, shadows, crashes>>
<1>1. tries[i].c \in k.candidates /\ (ok /\ shadow[tries[i].c] = tries[i].c) \in BOOLEAN
  BY DEF Skill!EndCanary, SkillTypes
<1>2. \/ UNCHANGED <<evidence, outcomes>>
      \/ Skill(k)!Filed(tries[i].c, ok /\ shadow[tries[i].c] = tries[i].c)
  BY DEF Skill!EndCanary
<1>3. \/ UNCHANGED <<evidence, outcomes>>
      \/ Skill(k)!Filed(tries[i].c, TRUE) \/ Skill(k)!Filed(tries[i].c, FALSE)
  BY <1>1, <1>2
<1>4. QED  BY <1>1, <1>3 DEF Skill!EndCanary

LEMMA SkillTypesStep ==
    ASSUME NEW CONSTANT k, SkillTypes(k), Skill(k)!SkillConstants, [Skill(k)!Next]_(Skill(k)!vars)
    PROVE  SkillTypes(k)'
<1>t. /\ active \in Skill(k)!Content /\ shadow \in [k.candidates -> Skill(k)!Content]
      /\ backup \in [k.candidates -> Skill(k)!Content] /\ evidence \in [k.candidates -> Skill(k)!Evidence]
      /\ skill \in [installed : Skill(k)!Whole \cup {k.none}, status : Skill(k)!Statuses]
      /\ tries \in [k.calls -> [c : k.candidates \cup {k.none}, w : Nat]]
      /\ shadows \in 0..k.shadows /\ crashes \in 0..k.crashes /\ k.crashes \in Nat
      /\ outcomes \in [k.candidates -> SUBSET BOOLEAN]
      /\ \A c \in k.candidates : evidence[c].version \in Skill(k)!Whole \cup {k.none}
      /\ \A i \in k.calls : tries[i] # Skill(k)!Idle => tries[i].c \in k.candidates
      /\ Skill(k)!Idle \in [c : k.candidates \cup {k.none}, w : Nat]
  BY SkillFacts DEF SkillTypes, Skill!TypeOK, Skill!Idle
<1>1. ASSUME NEW c \in k.candidates, NEW n \in 1..5, Skill(k)!Shadow(c, n) PROVE SkillTypes(k)'
  <2>1. /\ crashes' \in 0..k.crashes
        /\ tries' \in [k.calls -> [c : k.candidates \cup {k.none}, w : Nat]]
        /\ \A i \in k.calls : tries'[i] # Skill(k)!Idle => tries'[i].c \in k.candidates
    BY <1>1, ShadowDoes, CutTries
  <2>2. /\ evidence' \in [k.candidates -> Skill(k)!Evidence] /\ outcomes' \in [k.candidates -> SUBSET BOOLEAN]
        /\ \A d \in k.candidates : evidence'[d].version \in Skill(k)!Whole \cup {k.none}
    <3>1. /\ Skill(k)!NewWindow(c) \in Skill(k)!Evidence
          /\ Skill(k)!NewWindow(c).version \in Skill(k)!Whole \cup {k.none}
      BY <1>1, <1>t, ShadowDoes
    <3>2. \/ UNCHANGED <<evidence, outcomes>>
          \/ /\ evidence' = [evidence EXCEPT ![c] = Skill(k)!NewWindow(c)]
             /\ outcomes' = [outcomes EXCEPT ![c] = {}]
      BY <1>1, ShadowDoes
    <3>3. QED  BY <1>t, <3>1, <3>2
  <2>3. QED  BY <1>1, <1>t, <2>1, <2>2, ShadowDoes DEF SkillTypes, Skill!TypeOK
<1>2. ASSUME NEW c \in k.candidates, Skill(k)!RejectCanary(c) PROVE SkillTypes(k)'
  <2>1. Skill(k)!Filed(c, FALSE) /\ UNCHANGED <<active, shadow, backup, skill, tries, shadows, crashes>>
    BY <1>2 DEF Skill!RejectCanary
  <2>2. /\ evidence' \in [k.candidates -> Skill(k)!Evidence] /\ outcomes' \in [k.candidates -> SUBSET BOOLEAN]
        /\ \A d \in k.candidates : evidence'[d].version = evidence[d].version
    BY <2>1, FiledKeeps
  <2>3. QED  BY <1>t, <2>1, <2>2 DEF SkillTypes, Skill!TypeOK
<1>3. ASSUME NEW i \in k.calls, NEW c \in k.candidates, Skill(k)!StartCanary(i, c) PROVE SkillTypes(k)'
  <2>1. /\ tries' = [tries EXCEPT ![i] = [c |-> c, w |-> evidence[c].window]]
        /\ UNCHANGED <<active, shadow, backup, evidence, skill, shadows, crashes, outcomes>>
    BY <1>3 DEF Skill!StartCanary
  <2>2. [c |-> c, w |-> evidence[c].window] \in [c : k.candidates \cup {k.none}, w : Nat]
    BY <1>t DEF Skill!Evidence
  <2>3. QED  BY <1>t, <2>1, <2>2 DEF SkillTypes, Skill!TypeOK
<1>4. ASSUME NEW i \in k.calls, NEW ok \in BOOLEAN, Skill(k)!EndCanary(i, ok) PROVE SkillTypes(k)'
  <2>1. /\ tries' = [tries EXCEPT ![i] = Skill(k)!Idle]
        /\ UNCHANGED <<active, shadow, backup, skill, shadows, crashes>>
    BY <1>4, EndDoes
  <2>2. /\ evidence' \in [k.candidates -> Skill(k)!Evidence] /\ outcomes' \in [k.candidates -> SUBSET BOOLEAN]
        /\ \A d \in k.candidates : evidence'[d].version = evidence[d].version
    <3>1. CASE UNCHANGED <<evidence, outcomes>>
      BY <1>t, <3>1
    <3>2. ASSUME NEW c \in k.candidates, Skill(k)!Filed(c, TRUE) \/ Skill(k)!Filed(c, FALSE)
          PROVE  /\ evidence' \in [k.candidates -> Skill(k)!Evidence] /\ outcomes' \in [k.candidates -> SUBSET BOOLEAN]
                 /\ \A d \in k.candidates : evidence'[d].version = evidence[d].version
      BY <3>2, FiledKeeps
    <3>3. QED  BY <1>4, <3>1, <3>2, EndDoes
  <2>3. QED  BY <1>t, <2>1, <2>2 DEF SkillTypes, Skill!TypeOK
<1>5. ASSUME NEW c \in k.candidates, NEW n \in 1..8, Skill(k)!Promote(c, n) PROVE SkillTypes(k)'
  <2>1. /\ crashes' \in 0..k.crashes
        /\ tries' \in [k.calls -> [c : k.candidates \cup {k.none}, w : Nat]]
        /\ \A i \in k.calls : tries'[i] # Skill(k)!Idle => tries'[i].c \in k.candidates
    BY <1>5, PromoteDoes, CutTries
  <2>2. QED  BY <1>5, <1>t, <2>1, PromoteDoes DEF SkillTypes, Skill!TypeOK
<1>6. ASSUME NEW c \in k.candidates, NEW n \in 1..4, Skill(k)!Rollback(c, n) PROVE SkillTypes(k)'
  <2>1. /\ crashes' \in 0..k.crashes
        /\ tries' \in [k.calls -> [c : k.candidates \cup {k.none}, w : Nat]]
        /\ \A i \in k.calls : tries'[i] # Skill(k)!Idle => tries'[i].c \in k.candidates
    BY <1>6, RollbackDoes, CutTries
  <2>2. QED  BY <1>6, <1>t, <2>1, RollbackDoes DEF SkillTypes, Skill!TypeOK
<1>7. CASE Skill(k)!Crash
  <2>1. /\ UNCHANGED <<active, shadow, backup, evidence, skill, shadows, outcomes>>
        /\ crashes' \in 0..k.crashes /\ tries' = [i \in k.calls |-> Skill(k)!Idle]
    BY <1>7, <1>t DEF Skill!Crash
  <2>2. QED  BY <1>t, <2>1 DEF SkillTypes, Skill!TypeOK
<1>8. CASE UNCHANGED Skill(k)!vars
  BY <1>8 DEF Skill!vars, SkillTypes, Skill!TypeOK
<1>9. QED  BY <1>1, <1>2, <1>3, <1>4, <1>5, <1>6, <1>7, <1>8 DEF Skill!Next

-----------------------------------------------------------------------------
(* Skills: promoted by their own canaries                                  *)

\* The outcomes since the last registration are the ones filed in its window.
ProvenInv(k) ==
    \A c \in k.candidates : \A ok \in BOOLEAN :
        ok \in outcomes[c] <=> [w |-> evidence[c].window, ok |-> ok] \in evidence[c].runs

Adds(c, run) == evidence' = [evidence EXCEPT ![c].runs = @ \cup {run}]

LEMMA RunsAdded ==
    ASSUME NEW CONSTANT k, SkillTypes(k), NEW c \in k.candidates, NEW run, Adds(c, run), NEW d \in k.candidates
    PROVE  /\ evidence'[d].window = evidence[d].window
           /\ d = c => evidence'[d].runs = evidence[d].runs \cup {run}
           /\ d # c => evidence'[d].runs = evidence[d].runs
<1>1. evidence \in [k.candidates -> Skill(k)!Evidence] /\ evidence[c] \in Skill(k)!Evidence
  BY DEF SkillTypes, Skill!TypeOK
<1> DEFINE e == [evidence[c] EXCEPT !.runs = @ \cup {run}]
<1>2. evidence' = [evidence EXCEPT ![c] = e]
  BY DEF Adds
<1>3. e.window = evidence[c].window /\ e.runs = evidence[c].runs \cup {run}
  BY <1>1 DEF Skill!Evidence
<1> HIDE DEF e
<1>4. QED  BY <1>1, <1>2, <1>3

LEMMA ProvenFiled ==
    ASSUME NEW CONSTANT k, SkillTypes(k), ProvenInv(k), NEW c \in k.candidates,
           Skill(k)!Filed(c, TRUE) \/ Skill(k)!Filed(c, FALSE)
    PROVE  ProvenInv(k)'
<1>1. ASSUME Skill(k)!Filed(c, TRUE) PROVE ProvenInv(k)'
  <2>0. \A d \in k.candidates :
          /\ evidence'[d].window = evidence[d].window
          /\ evidence'[d].runs = IF d = c THEN evidence[d].runs \cup {[w |-> evidence[d].window, ok |-> TRUE]}
                                 ELSE evidence[d].runs
          /\ outcomes'[d] = IF d = c THEN outcomes[d] \cup {TRUE} ELSE outcomes[d]
    <3> DEFINE run == [w |-> evidence[c].window, ok |-> TRUE]
    <3>1. Adds(c, run)
      BY <1>1 DEF Skill!Filed, Adds
    <3>2. outcomes \in [k.candidates -> SUBSET BOOLEAN] /\ outcomes' = [outcomes EXCEPT ![c] = @ \cup {TRUE}]
      BY <1>1 DEF Skill!Filed, SkillTypes, Skill!TypeOK
    <3>3. TAKE d \in k.candidates
    <3>4. outcomes'[d] = IF d = c THEN outcomes[d] \cup {TRUE} ELSE outcomes[d]
      BY <3>2
    <3> HIDE DEF run
    <3>5. /\ evidence'[d].window = evidence[d].window
          /\ d = c => evidence'[d].runs = evidence[d].runs \cup {run}
          /\ d # c => evidence'[d].runs = evidence[d].runs
      BY <3>1, RunsAdded
    <3>6. QED  BY <3>4, <3>5 DEF run
  <2>1. ASSUME NEW d \in k.candidates, NEW ok \in BOOLEAN
        PROVE  ok \in outcomes'[d] <=> [w |-> evidence'[d].window, ok |-> ok] \in evidence'[d].runs
    <3>2. [w |-> evidence[d].window, ok |-> ok] = [w |-> evidence[d].window, ok |-> TRUE] => ok = TRUE
      <4> DEFINE a == [w |-> evidence[d].window, ok |-> ok]
                 b == [w |-> evidence[d].window, ok |-> TRUE]
      <4>1. a.ok = ok
        OBVIOUS
      <4>2. b.ok = TRUE
        OBVIOUS
      <4> HIDE DEF a, b
      <4>3. a = b => ok = TRUE
        BY <4>1, <4>2
      <4>4. QED  BY <4>3 DEF a, b
    <3>3. ok \in outcomes[d] <=> [w |-> evidence[d].window, ok |-> ok] \in evidence[d].runs
      BY DEF ProvenInv
    <3>4. QED  BY <2>0, <3>2, <3>3
  <2>2. QED  BY <2>1 DEF ProvenInv
<1>2. ASSUME Skill(k)!Filed(c, FALSE) PROVE ProvenInv(k)'
  <2>0. \A d \in k.candidates :
          /\ evidence'[d].window = evidence[d].window
          /\ evidence'[d].runs = IF d = c THEN evidence[d].runs \cup {[w |-> evidence[d].window, ok |-> FALSE]}
                                 ELSE evidence[d].runs
          /\ outcomes'[d] = IF d = c THEN outcomes[d] \cup {FALSE} ELSE outcomes[d]
    <3> DEFINE run == [w |-> evidence[c].window, ok |-> FALSE]
    <3>1. Adds(c, run)
      BY <1>2 DEF Skill!Filed, Adds
    <3>2. outcomes \in [k.candidates -> SUBSET BOOLEAN] /\ outcomes' = [outcomes EXCEPT ![c] = @ \cup {FALSE}]
      BY <1>2 DEF Skill!Filed, SkillTypes, Skill!TypeOK
    <3>3. TAKE d \in k.candidates
    <3>4. outcomes'[d] = IF d = c THEN outcomes[d] \cup {FALSE} ELSE outcomes[d]
      BY <3>2
    <3> HIDE DEF run
    <3>5. /\ evidence'[d].window = evidence[d].window
          /\ d = c => evidence'[d].runs = evidence[d].runs \cup {run}
          /\ d # c => evidence'[d].runs = evidence[d].runs
      BY <3>1, RunsAdded
    <3>6. QED  BY <3>4, <3>5 DEF run
  <2>1. ASSUME NEW d \in k.candidates, NEW ok \in BOOLEAN
        PROVE  ok \in outcomes'[d] <=> [w |-> evidence'[d].window, ok |-> ok] \in evidence'[d].runs
    <3>2. [w |-> evidence[d].window, ok |-> ok] = [w |-> evidence[d].window, ok |-> FALSE] => ok = FALSE
      <4> DEFINE a == [w |-> evidence[d].window, ok |-> ok]
                 b == [w |-> evidence[d].window, ok |-> FALSE]
      <4>1. a.ok = ok
        OBVIOUS
      <4>2. b.ok = FALSE
        OBVIOUS
      <4> HIDE DEF a, b
      <4>3. a = b => ok = FALSE
        BY <4>1, <4>2
      <4>4. QED  BY <4>3 DEF a, b
    <3>3. ok \in outcomes[d] <=> [w |-> evidence[d].window, ok |-> ok] \in evidence[d].runs
      BY DEF ProvenInv
    <3>4. QED  BY <2>0, <3>2, <3>3
  <2>2. QED  BY <2>1 DEF ProvenInv
<1>3. QED  BY <1>1, <1>2

LEMMA ProvenStep ==
    ASSUME NEW CONSTANT k, SkillTypes(k), Skill(k)!SkillConstants, ProvenInv(k), [Skill(k)!Next]_(Skill(k)!vars)
    PROVE  ProvenInv(k)'
<1>t. evidence \in [k.candidates -> Skill(k)!Evidence] /\ outcomes \in [k.candidates -> SUBSET BOOLEAN]
  BY DEF SkillTypes, Skill!TypeOK
<1>0. ASSUME UNCHANGED <<evidence, outcomes>> PROVE ProvenInv(k)'
  BY <1>0 DEF ProvenInv
<1>1. ASSUME NEW c \in k.candidates, NEW n \in 1..5, Skill(k)!Shadow(c, n) PROVE ProvenInv(k)'
  <2>1. CASE /\ evidence' = [evidence EXCEPT ![c] = Skill(k)!NewWindow(c)]
             /\ outcomes' = [outcomes EXCEPT ![c] = {}]
    <3>1. Skill(k)!NewWindow(c).runs = {}
      BY <1>1, ShadowDoes
    <3>2. ASSUME NEW d \in k.candidates, NEW ok \in BOOLEAN
          PROVE  ok \in outcomes'[d] <=> [w |-> evidence'[d].window, ok |-> ok] \in evidence'[d].runs
      <4>1. CASE d = c
        <5>1. outcomes'[d] = {} /\ evidence'[d] = Skill(k)!NewWindow(c)
          BY <1>t, <2>1, <4>1
        <5>2. QED  BY <3>1, <5>1
      <4>2. CASE d # c
        <5>1. outcomes'[d] = outcomes[d] /\ evidence'[d] = evidence[d]
          BY <1>t, <2>1, <4>2
        <5>2. QED  BY <5>1 DEF ProvenInv
      <4>3. QED  BY <4>1, <4>2
    <3>3. QED  BY <3>2 DEF ProvenInv
  <2>2. QED  BY <1>0, <1>1, <2>1, ShadowDoes
<1>2. ASSUME NEW c \in k.candidates, Skill(k)!RejectCanary(c) PROVE ProvenInv(k)'
  BY <1>2, ProvenFiled DEF Skill!RejectCanary
<1>3. ASSUME NEW i \in k.calls, NEW ok \in BOOLEAN, Skill(k)!EndCanary(i, ok) PROVE ProvenInv(k)'
  <2>1. CASE UNCHANGED <<evidence, outcomes>>
    BY <1>0, <2>1
  <2>2. ASSUME NEW c \in k.candidates, Skill(k)!Filed(c, TRUE) \/ Skill(k)!Filed(c, FALSE) PROVE ProvenInv(k)'
    BY <2>2, ProvenFiled
  <2>3. QED  BY <1>3, <2>1, <2>2, EndDoes
<1>4. QED  BY <1>0, <1>1, <1>2, <1>3
           DEF Skill!Next, Skill!vars, Skill!StartCanary, Skill!Promote, Skill!Rollback, Skill!Crash

LEMMA ProvenInit == ASSUME NEW CONSTANT k, Skill(k)!Init PROVE ProvenInv(k)
<1>1. \A c \in k.candidates : outcomes[c] = {} /\ evidence[c].runs = {}
  BY DEF Skill!Init, Skill!NoEvidence
<1>2. QED  BY <1>1 DEF ProvenInv

LEMMA ProvenPromotes ==
    ASSUME NEW CONSTANT k, SkillTypes(k), Skill(k)!SkillConstants, ProvenInv(k)
    PROVE  Skill(k)!PromotedProven
<1>1. SUFFICES ASSUME NEW c \in k.candidates, Skill(k)!Promote(c, 8)
               PROVE  active' = c /\ outcomes[c] = {TRUE}
  BY DEF Skill!PromotedProven
<1>2. active' = c
  BY <1>1, PromoteDoes
<1>3. Skill(k)!Green(Skill(k)!Window(c))
  BY <1>1 DEF Skill!Promote, Skill!MayPromote
<1>t. evidence[c] \in Skill(k)!Evidence /\ outcomes[c] \subseteq BOOLEAN
  BY DEF SkillTypes, Skill!TypeOK
<1>4. TRUE \in outcomes[c]
  <2>1. PICK r \in Skill(k)!Window(c) : r.ok
    BY <1>3 DEF Skill!Green
  <2>2. r \in evidence[c].runs /\ r.w = evidence[c].window /\ r \in [w : Nat, ok : BOOLEAN]
    BY <1>t DEF Skill!Window, Skill!Evidence
  <2>3. r.ok = TRUE
    BY <2>1, <2>2
  <2>4. r = [w |-> evidence[c].window, ok |-> TRUE]
    BY <2>2, <2>3
  <2>5. QED  BY <2>2, <2>4 DEF ProvenInv
<1>5. FALSE \notin outcomes[c]
  <2>1. SUFFICES ASSUME FALSE \in outcomes[c] PROVE FALSE
    OBVIOUS
  <2> DEFINE r == [w |-> evidence[c].window, ok |-> FALSE]
  <2>2. r \in evidence[c].runs
    BY <2>1 DEF ProvenInv
  <2>3. r \in Skill(k)!Window(c)
    BY <2>2 DEF Skill!Window
  <2>4. r.ok
    BY <1>3, <2>3 DEF Skill!Green
  <2>5. QED  BY <2>4
<1>6. outcomes[c] = {TRUE}
  BY <1>4, <1>5, <1>t
<1>7. QED  BY <1>2, <1>6

\* Only a whole copy of a candidate whose canaries since its last registration
\* succeeded, at least one, is promoted, for any number of overlapping canaries,
\* registrations and crashes (promote and recordCanaryResult).
THEOREM SkillProvenHolds ==
    ASSUME NEW CONSTANT k, Skill(k)!SkillConstants
    PROVE  Skill(k)!Spec => []Skill(k)!TypeOK /\ [][Skill(k)!PromotedProven]_(Skill(k)!vars)
<1>1. Skill(k)!Init => SkillTypes(k) /\ ProvenInv(k)
  BY SkillTypesInit, ProvenInit
<1>2. SkillTypes(k) /\ ProvenInv(k) /\ [Skill(k)!Next]_(Skill(k)!vars) => SkillTypes(k)' /\ ProvenInv(k)'
  BY SkillTypesStep, ProvenStep
<1>3. SkillTypes(k) /\ ProvenInv(k) => Skill(k)!TypeOK /\ [Skill(k)!PromotedProven]_(Skill(k)!vars)
  BY ProvenPromotes DEF SkillTypes
<1>4. QED  BY <1>1, <1>2, <1>3, PTL DEF Skill!Spec

-----------------------------------------------------------------------------
(* Skills: what is installed is on disk, or in a backup                    *)

\* The active directory is the installed version, and so was every version a
\* rollback pointer was filed for.
Clean(k) ==
    /\ active = skill.installed
    /\ \A c \in k.candidates : evidence[c].window > 0 => evidence[c].prev = evidence[c].version

\* The steps that touch neither the directories nor the rollback pointers.
PointersKept(k) ==
    /\ UNCHANGED <<active, backup, skill>>
    /\ \A c \in k.candidates : /\ evidence'[c].window = evidence[c].window /\ evidence'[c].prev = evidence[c].prev
                             /\ evidence'[c].version = evidence[c].version

LEMMA CanaryKeeps ==
    ASSUME NEW CONSTANT k, SkillTypes(k),
           \/ \E c \in k.candidates : Skill(k)!RejectCanary(c)
           \/ \E i \in k.calls, c \in k.candidates : Skill(k)!StartCanary(i, c)
           \/ \E i \in k.calls, ok \in BOOLEAN : Skill(k)!EndCanary(i, ok)
    PROVE  PointersKept(k) /\ UNCHANGED crashes
<1>1. ASSUME NEW c \in k.candidates, Skill(k)!RejectCanary(c) PROVE PointersKept(k) /\ UNCHANGED crashes
  <2>1. Skill(k)!Filed(c, FALSE) /\ UNCHANGED <<active, backup, skill, crashes>>
    BY <1>1 DEF Skill!RejectCanary
  <2>2. QED  BY <2>1, FiledKeeps DEF PointersKept
<1>2. ASSUME NEW i \in k.calls, NEW c \in k.candidates, Skill(k)!StartCanary(i, c) PROVE PointersKept(k) /\ UNCHANGED crashes
  BY <1>2 DEF Skill!StartCanary, PointersKept
<1>3. ASSUME NEW i \in k.calls, NEW ok \in BOOLEAN, Skill(k)!EndCanary(i, ok) PROVE PointersKept(k) /\ UNCHANGED crashes
  <2>1. UNCHANGED <<active, backup, skill, crashes>>
    BY <1>3, EndDoes
  <2>2. CASE UNCHANGED <<evidence, outcomes>>
    BY <2>1, <2>2 DEF PointersKept
  <2>3. ASSUME NEW c \in k.candidates, Skill(k)!Filed(c, TRUE) \/ Skill(k)!Filed(c, FALSE) PROVE PointersKept(k)
    BY <2>1, <2>3, FiledKeeps DEF PointersKept
  <2>4. QED  BY <1>3, <2>1, <2>2, <2>3, EndDoes
<1>4. QED  BY <1>1, <1>2, <1>3

\* A registration keeps the records clean wherever it is cut.
LEMMA CleanShadow ==
    ASSUME NEW CONSTANT k, SkillTypes(k), Skill(k)!SkillConstants, Clean(k),
           NEW c \in k.candidates, NEW n \in 1..5, Skill(k)!Shadow(c, n)
    PROVE  Clean(k)'
<1>t. evidence \in [k.candidates -> Skill(k)!Evidence]
  BY DEF SkillTypes, Skill!TypeOK
<1>1. /\ UNCHANGED active /\ skill'.installed = skill.installed
      /\ evidence' = evidence \/ evidence' = [evidence EXCEPT ![c] = Skill(k)!NewWindow(c)]
      /\ Skill(k)!NewWindow(c).prev = active /\ Skill(k)!NewWindow(c).version = skill.installed
  BY ShadowDoes
<1>2. QED  BY <1>1, <1>t DEF Clean

\* The other operations do when they run to their end.
LEMMA CleanEnds ==
    ASSUME NEW CONSTANT k, SkillTypes(k), Skill(k)!SkillConstants, Clean(k), NEW c \in k.candidates,
           Skill(k)!Promote(c, 8) \/ Skill(k)!Rollback(c, 4)
    PROVE  Clean(k)'
<1>1. CASE Skill(k)!Promote(c, 8)
  <2>1. active' = c /\ skill'.installed = c /\ UNCHANGED evidence
    BY <1>1, PromoteDoes
  <2>2. QED  BY <2>1 DEF Clean
<1>2. CASE Skill(k)!Rollback(c, 4)
  <2>1. active' = evidence[c].prev /\ skill'.installed = evidence[c].version /\ UNCHANGED evidence /\ evidence[c].window > 0
    BY <1>2, RollbackDoes
  <2>2. QED  BY <2>1 DEF Clean
<1>3. QED  BY <1>1, <1>2

LEMMA CleanKept == ASSUME NEW CONSTANT k, Clean(k), PointersKept(k) PROVE Clean(k)'
  BY DEF Clean, PointersKept

LEMMA CleanInit == ASSUME NEW CONSTANT k, Skill(k)!Init PROVE Clean(k)
<1>1. active = skill.installed /\ \A c \in k.candidates : evidence[c].prev = k.none /\ evidence[c].version = k.none
  BY DEF Skill!Init, Skill!NoEvidence
<1>2. QED  BY <1>1 DEF Clean

LEMMA QuietStep ==
    ASSUME NEW CONSTANT k, SkillTypes(k), Skill(k)!SkillConstants, k.crashes = 0, Clean(k), [Skill(k)!Next]_(Skill(k)!vars)
    PROVE  Clean(k)'
<1>t. crashes = 0
  BY DEF SkillTypes, Skill!TypeOK
<1>c. ASSUME NEW n, NEW last, Skill(k)!CutAt(n, last) PROVE n = last
  BY <1>c, <1>t DEF Skill!CutAt
<1>1. ASSUME NEW c \in k.candidates, NEW n \in 1..5, Skill(k)!Shadow(c, n) PROVE Clean(k)'
  BY <1>1, CleanShadow
<1>2. ASSUME NEW c \in k.candidates, NEW n \in 1..8, Skill(k)!Promote(c, n) PROVE Clean(k)'
  <2>1. n = 8
    BY <1>2, <1>c, PromoteDoes
  <2>2. QED  BY <1>2, <2>1, CleanEnds
<1>3. ASSUME NEW c \in k.candidates, NEW n \in 1..4, Skill(k)!Rollback(c, n) PROVE Clean(k)'
  <2>1. n = 4
    BY <1>3, <1>c, RollbackDoes
  <2>2. QED  BY <1>3, <2>1, CleanEnds
<1>4. CASE Skill(k)!Crash
  BY <1>4 DEF Skill!Crash, Clean
<1>5. CASE UNCHANGED Skill(k)!vars
  BY <1>5 DEF Skill!vars, Clean
<1>6. QED  BY <1>1, <1>2, <1>3, <1>4, <1>5, CanaryKeeps, CleanKept DEF Skill!Next

\* Without crashes the artifact on disk is the version the row names, through
\* any registrations, promotions and rollbacks of any candidates.
THEOREM DiskMatchesRowHolds ==
    ASSUME NEW CONSTANT k, Skill(k)!SkillConstants, k.crashes = 0
    PROVE  Skill(k)!Spec => []Skill(k)!DiskMatchesRow
<1>1. Skill(k)!Init => SkillTypes(k) /\ Clean(k)
  BY SkillTypesInit, CleanInit
<1>2. SkillTypes(k) /\ Clean(k) /\ [Skill(k)!Next]_(Skill(k)!vars) => SkillTypes(k)' /\ Clean(k)'
  BY SkillTypesStep, QuietStep
<1>3. Clean(k) => Skill(k)!DiskMatchesRow
  BY DEF Clean, Skill!DiskMatchesRow
<1>4. QED  BY <1>1, <1>2, <1>3, PTL DEF Skill!Spec

\* The backup of some candidate that is registered holds the original.
Saved(k) == \E d \in k.candidates :
    evidence[d].window > 0 /\ evidence[d].prev = k.original /\ backup[d] = k.original

\* The original is active and was never replaced.
Fresh(k) == active = k.original /\ \A c \in k.candidates : backup[c] = k.none

\* The original was installed.  It is saved or the records are clean, and both
\* until a crash.
InPlay(k) ==
    /\ skill.installed # k.none
    /\ \A c \in k.candidates : evidence[c].window > 0 => evidence[c].version # k.none
    /\ Saved(k) \/ Clean(k)
    /\ crashes = 0 => Clean(k) /\ (Saved(k) \/ Fresh(k))

\* The original was never installed.
NeverThere(k) == skill.installed # k.original /\ \A c \in k.candidates : evidence[c].version # k.original

CutInv(k) == NeverThere(k) \/ InPlay(k)

LEMMA CutInit == ASSUME NEW CONSTANT k, Skill(k)!SkillConstants, Skill(k)!Init PROVE CutInv(k)
<1>1. /\ active \in {k.none, k.original} /\ skill.installed = active /\ k.none # k.original
      /\ \A c \in k.candidates : evidence[c].window = 0 /\ evidence[c].version = k.none /\ backup[c] = k.none
  BY SkillFacts DEF Skill!Init, Skill!NoEvidence
<1>2. QED  BY <1>1, CleanInit DEF CutInv, NeverThere, InPlay, Fresh

LEMMA CutShadow ==
    ASSUME NEW CONSTANT k, SkillTypes(k), Skill(k)!SkillConstants, CutInv(k), ~k.again,
           NEW c \in k.candidates, NEW n \in 1..5, Skill(k)!Shadow(c, n)
    PROVE  CutInv(k)'
<1>t. evidence \in [k.candidates -> Skill(k)!Evidence] /\ crashes \in 0..k.crashes /\ k.crashes \in Nat
  BY SkillFacts DEF SkillTypes, Skill!TypeOK
<1>1. /\ UNCHANGED <<active, backup>> /\ skill'.installed = skill.installed
      /\ evidence' = evidence \/ evidence' = [evidence EXCEPT ![c] = Skill(k)!NewWindow(c)]
      /\ Skill(k)!NewWindow(c).prev = active /\ Skill(k)!NewWindow(c).version = skill.installed
      /\ evidence[c].window = 0
      /\ crashes' = crashes \/ crashes' = crashes + 1
  BY ShadowDoes DEF Skill!CutAt
<1>2. \A d \in k.candidates :
        \/ evidence'[d] = evidence[d]
        \/ d = c /\ evidence'[d].prev = active /\ evidence'[d].version = skill.installed
  BY <1>1, <1>t
<1>3. ASSUME NeverThere(k) PROVE NeverThere(k)'
  BY <1>1, <1>2, <1>3 DEF NeverThere
<1>4. ASSUME Saved(k) PROVE Saved(k)'
  <2>1. PICK d \in k.candidates : evidence[d].window > 0 /\ evidence[d].prev = k.original /\ backup[d] = k.original
    BY <1>4 DEF Saved
  <2>2. d # c
    BY <1>1, <2>1
  <2>3. evidence'[d] = evidence[d] /\ backup'[d] = backup[d]
    BY <1>1, <1>2, <2>2
  <2>4. QED  BY <2>1, <2>3 DEF Saved
<1>5. ASSUME Clean(k) PROVE Clean(k)'
  BY <1>5, CleanShadow
<1>6. ASSUME Fresh(k) PROVE Fresh(k)'
  BY <1>1, <1>6 DEF Fresh
<1>7. crashes' = 0 => crashes = 0
  BY <1>1, <1>t
<1>8. ASSUME InPlay(k) PROVE InPlay(k)'
  <2>1. skill'.installed # k.none /\ \A d \in k.candidates : evidence'[d].window > 0 => evidence'[d].version # k.none
    BY <1>1, <1>2, <1>8 DEF InPlay
  <2>2. QED  BY <1>4, <1>5, <1>6, <1>7, <1>8, <2>1 DEF InPlay
<1>9. QED  BY <1>3, <1>8 DEF CutInv

LEMMA CutPromote ==
    ASSUME NEW CONSTANT k, SkillTypes(k), Skill(k)!SkillConstants, CutInv(k), k.crashes \in {0, 1},
           NEW c \in k.candidates, NEW n \in 1..8, Skill(k)!Promote(c, n)
    PROVE  CutInv(k)'
<1>t. crashes \in 0..k.crashes /\ c # k.original /\ c # k.none
  BY SkillFacts DEF SkillTypes, Skill!TypeOK
<1>1. /\ UNCHANGED evidence /\ evidence[c].window > 0
      /\ n < 4 => active' = active
      /\ \A d \in k.candidates : d # c => backup'[d] = backup[d]
      /\ n >= 3 => backup'[c] = active
      /\ n < 7 => skill' = skill
      /\ skill'.installed \in {skill.installed, c}
  BY PromoteDoes
<1>2. /\ evidence[c].version # k.none => evidence[c].prev # k.none
      /\ evidence[c].prev # k.none => active = evidence[c].prev
  BY DEF Skill!Promote, Skill!MayPromote
<1>3. (n = 8 /\ crashes' = crashes) \/ (n < 8 /\ crashes = 0 /\ crashes' = 1)
  <2>1. Skill(k)!CutAt(n, 8)
    BY PromoteDoes
  <2>2. QED  BY <1>t, <2>1 DEF Skill!CutAt
<1>4. ASSUME NeverThere(k) PROVE NeverThere(k)'
  BY <1>1, <1>t, <1>4 DEF NeverThere
<1>5. ASSUME InPlay(k) PROVE InPlay(k)'
  <2>1. active = evidence[c].prev
    BY <1>1, <1>2, <1>5 DEF InPlay
  <2>2. ASSUME n >= 3, Saved(k) \/ Fresh(k) PROVE Saved(k)'
    <3>1. CASE active = k.original
      <4>1. evidence'[c].window > 0 /\ evidence'[c].prev = k.original /\ backup'[c] = k.original
        BY <1>1, <2>1, <2>2, <3>1
      <4>2. QED  BY <4>1 DEF Saved
    <3>2. CASE active # k.original
      <4>1. PICK d \in k.candidates : evidence[d].window > 0 /\ evidence[d].prev = k.original /\ backup[d] = k.original
        BY <2>2, <3>2 DEF Saved, Fresh
      <4>2. d # c
        BY <2>1, <3>2, <4>1
      <4>3. QED  BY <1>1, <4>1, <4>2 DEF Saved
    <3>3. QED  BY <3>1, <3>2
  <2>3. skill'.installed # k.none /\ \A d \in k.candidates : evidence'[d].window > 0 => evidence'[d].version # k.none
    BY <1>1, <1>t, <1>5 DEF InPlay
  <2>4. CASE n = 8
    <3>1. Clean(k) => Clean(k)'
      BY <2>4, CleanEnds
    <3>2. QED  BY <1>3, <1>5, <2>2, <2>3, <2>4, <3>1 DEF InPlay
  <2>5. CASE n < 8
    <3>1. crashes = 0 /\ crashes' = 1 /\ Clean(k) /\ (Saved(k) \/ Fresh(k))
      BY <1>3, <1>5, <2>5 DEF InPlay
    <3>2. CASE n >= 3
      BY <2>2, <2>3, <3>1, <3>2 DEF InPlay
    <3>3. CASE n < 3
      <4>1. Clean(k)'
        BY <1>1, <3>1, <3>3 DEF Clean
      <4>2. QED  BY <2>3, <3>1, <4>1 DEF InPlay
    <3>4. QED  BY <3>2, <3>3
  <2>6. QED  BY <2>4, <2>5
<1>6. QED  BY <1>4, <1>5 DEF CutInv

LEMMA CutRollback ==
    ASSUME NEW CONSTANT k, SkillTypes(k), Skill(k)!SkillConstants, CutInv(k), k.crashes \in {0, 1},
           NEW c \in k.candidates, NEW n \in 1..4, Skill(k)!Rollback(c, n)
    PROVE  CutInv(k)'
<1>t. crashes \in 0..k.crashes
  BY DEF SkillTypes, Skill!TypeOK
<1>1. /\ UNCHANGED <<evidence, backup>> /\ evidence[c].window > 0
      /\ evidence[c].version # k.none => evidence[c].prev # k.none
      /\ evidence[c].prev # k.none => backup[c] = evidence[c].prev
      /\ skill'.installed \in {skill.installed, evidence[c].version}
  BY RollbackDoes
<1>2. (n = 4 /\ crashes' = crashes) \/ (n < 4 /\ crashes = 0 /\ crashes' = 1)
  <2>1. Skill(k)!CutAt(n, 4)
    BY RollbackDoes
  <2>2. QED  BY <1>t, <2>1 DEF Skill!CutAt
<1>3. ASSUME NeverThere(k) PROVE NeverThere(k)'
  BY <1>1, <1>3 DEF NeverThere
<1>4. ASSUME InPlay(k) PROVE InPlay(k)'
  <2>1. ~Fresh(k)
    BY <1>1, <1>4 DEF InPlay, Fresh
  <2>2. skill'.installed # k.none /\ \A d \in k.candidates : evidence'[d].window > 0 => evidence'[d].version # k.none
    BY <1>1, <1>4 DEF InPlay
  <2>3. Saved(k) => Saved(k)'
    BY <1>1 DEF Saved
  <2>4. n = 4 /\ Clean(k) => Clean(k)'
    BY CleanEnds
  <2>5. QED  BY <1>2, <1>4, <2>1, <2>2, <2>3, <2>4 DEF InPlay
<1>5. QED  BY <1>3, <1>4 DEF CutInv

LEMMA CutStep ==
    ASSUME NEW CONSTANT k, SkillTypes(k), Skill(k)!SkillConstants, ~k.again, k.crashes \in {0, 1},
           CutInv(k), [Skill(k)!Next]_(Skill(k)!vars)
    PROVE  CutInv(k)'
<1>1. ASSUME PointersKept(k), crashes' = crashes \/ (crashes = 0 /\ crashes' = 1) PROVE CutInv(k)'
  <2>1. NeverThere(k) => NeverThere(k)'
    BY <1>1 DEF PointersKept, NeverThere
  <2>2. Saved(k) => Saved(k)'
    <3>1. ASSUME NEW d \in k.candidates,
                 evidence[d].window > 0 /\ evidence[d].prev = k.original /\ backup[d] = k.original
          PROVE  evidence'[d].window > 0 /\ evidence'[d].prev = k.original /\ backup'[d] = k.original
      BY <1>1, <3>1 DEF PointersKept
    <3>2. QED  BY <3>1 DEF Saved
  <2>3. Clean(k) => Clean(k)'
    BY <1>1, CleanKept
  <2>4. Fresh(k) => Fresh(k)'
    BY <1>1 DEF PointersKept, Fresh
  <2>5. InPlay(k) => InPlay(k)'
    <3>1. InPlay(k) =>
            skill'.installed # k.none /\ \A d \in k.candidates : evidence'[d].window > 0 => evidence'[d].version # k.none
      BY <1>1 DEF InPlay, PointersKept
    <3>2. QED  BY <1>1, <2>2, <2>3, <2>4, <3>1 DEF InPlay
  <2>6. QED  BY <2>1, <2>5 DEF CutInv
<1>2. CASE Skill(k)!Crash
  <2>1. PointersKept(k)
    BY <1>2 DEF Skill!Crash, PointersKept
  <2>2. crashes = 0 /\ crashes' = 1
    BY <1>2 DEF Skill!Crash, SkillTypes, Skill!TypeOK
  <2>3. QED  BY <1>1, <2>1, <2>2
<1>3. CASE UNCHANGED Skill(k)!vars
  <2>1. PointersKept(k) /\ crashes' = crashes
    BY <1>3 DEF Skill!vars, PointersKept
  <2>2. QED  BY <1>1, <2>1
<1>4. CASE \/ \E c \in k.candidates : Skill(k)!RejectCanary(c)
           \/ \E i \in k.calls, c \in k.candidates : Skill(k)!StartCanary(i, c)
           \/ \E i \in k.calls, ok \in BOOLEAN : Skill(k)!EndCanary(i, ok)
  <2>1. PointersKept(k) /\ crashes' = crashes
    BY <1>4, CanaryKeeps
  <2>2. QED  BY <1>1, <2>1
<1>5. QED  BY <1>2, <1>3, <1>4, CutShadow, CutPromote, CutRollback DEF Skill!Next

LEMMA CutKeeps == ASSUME NEW CONSTANT k, CutInv(k) PROVE Skill(k)!OriginalKept
  BY DEF CutInv, NeverThere, InPlay, Saved, Clean, Skill!OriginalKept

\* The original artifact, which no candidate store holds, is active or in a
\* backup while it is the installed version: for candidates registered once each,
\* whatever step of an operation one crash cuts off.
THEOREM OriginalKeptHolds ==
    ASSUME NEW CONSTANT k, Skill(k)!SkillConstants, ~k.again, k.crashes \in {0, 1}
    PROVE  Skill(k)!Spec => []Skill(k)!OriginalKept
<1>1. Skill(k)!Init => SkillTypes(k) /\ CutInv(k)
  BY SkillTypesInit, CutInit
<1>2. SkillTypes(k) /\ CutInv(k) /\ [Skill(k)!Next]_(Skill(k)!vars) => SkillTypes(k)' /\ CutInv(k)'
  BY SkillTypesStep, CutStep
<1>3. CutInv(k) => Skill(k)!OriginalKept
  BY CutKeeps
<1>4. QED  BY <1>1, <1>2, <1>3, PTL DEF Skill!Spec

-----------------------------------------------------------------------------
(* The types of the plugin runtime                                         *)

\* A row without a plugin is empty, and a count at the threshold was noticed.
PluginRows(k) == {r \in [status : Plug(k)!Statuses, enabled : BOOLEAN] :
                    r.status = "absent" => r = Plug(k)!Absent}
Healths(k) == {h \in [fails : 0..k.threshold, auto : BOOLEAN] : h.fails = k.threshold => h.auto}
PluginRequests(k) ==
    [op : Plug(k)!Ops, p : k.plugins, await : {"none", "load", "unload"}, plan : Seq(k.plugins),
     hook : 0..k.kinds - 1, row : PluginRows(k), life : Plug(k)!Lives]

\* A request that loads has a plan that ends in its plugin; a canary and a
\* rollback saved the row of a plugin that was off.
RequestOK(c) ==
    /\ c.await = "load" => c.plan # <<>> /\ c.plan[Len(c.plan)] = c.p
    /\ c.op = "canary" => c.row.status # "absent"
    /\ c.op \in {"canary", "rollback"} => c.row.status \notin {"enabled", "running"}
RequestsOK(k) == requests \in [k.calls -> PluginRequests(k)] /\ \A i \in k.calls : RequestOK(requests[i])

PluginTypes(k) ==
    /\ plugin \in [k.plugins -> PluginRows(k)]
    /\ life \in [k.plugins -> Plug(k)!Lives]
    /\ loaded \subseteq k.plugins /\ adrift \subseteq k.plugins
    /\ alive \in [k.plugins -> SUBSET (1..k.kinds)]
    /\ health \in [k.plugins -> Healths(k)]
    /\ RequestsOK(k)
    /\ restarts \in 0..k.maxRestarts

LEMMA PluginTypesImply == ASSUME NEW CONSTANT k, PluginTypes(k) PROVE Plug(k)!PluginTypeOK
  BY DEF PluginTypes, Plug!PluginTypeOK, Plug!Modules, PluginRows, Healths, PluginRequests, RequestsOK

LEMMA PlugRows ==
    ASSUME NEW CONSTANT k, NEW r \in PluginRows(k), NEW s \in Plug(k)!Statuses \ {"absent"},
           NEW e \in BOOLEAN
    PROVE  /\ Plug(k)!Set(r, s, e) \in PluginRows(k)
           /\ Plug(k)!Errored(r) \in PluginRows(k)
           /\ [status |-> s, enabled |-> e] \in PluginRows(k)
           /\ Plug(k)!Absent \in PluginRows(k)
           /\ r.status # "absent" => [r EXCEPT !.status = s] \in PluginRows(k)
  BY DEF PluginRows, Plug!Set, Plug!Errored, Plug!Absent, Plug!Statuses

LEMMA PlugHealth ==
    ASSUME NEW CONSTANT k, Plug(k)!PluginConstants, NEW h \in Healths(k)
    PROVE  /\ Plug(k)!Failure(h) \in Healths(k)
           /\ Plug(k)!Success(h) \in Healths(k)
           /\ Plug(k)!Fresh \in Healths(k)
<1>1. k.threshold \in Nat \ {0}
  BY DEF Plug!PluginConstants
<1>2. h.fails \in 0..k.threshold /\ h.auto \in BOOLEAN /\ (h.fails = k.threshold => h.auto = TRUE)
  BY DEF Healths
<1>3. ASSUME NEW n \in 0..k.threshold, NEW b \in BOOLEAN, n = k.threshold => b
      PROVE  [fails |-> n, auto |-> b] \in Healths(k)
  BY <1>3 DEF Healths
<1>4. Plug(k)!Fresh \in Healths(k)
  BY <1>1 DEF Healths, Plug!Fresh
<1>5. Plug(k)!Success(h) \in Healths(k)
  <2>1. Plug(k)!Success(h) = [fails |-> 0, auto |-> h.auto]
    BY DEF Plug!Success, Healths
  <2>2. QED  BY <1>1, <1>2, <1>3, <2>1
<1>6. Plug(k)!Failure(h) \in Healths(k)
  <2> DEFINE n == IF h.fails < k.threshold THEN h.fails + 1 ELSE k.threshold
             b == h.auto \/ n = k.threshold
  <2>1. n \in 0..k.threshold
    BY <1>1, <1>2
  <2>2. b \in BOOLEAN /\ (n = k.threshold => b)
    OBVIOUS
  <2>3. Plug(k)!Failure(h) = [fails |-> n, auto |-> b]
    BY DEF Plug!Failure
  <2>4. QED  BY <1>3, <2>1, <2>2, <2>3
<1>7. QED  BY <1>4, <1>5, <1>6

\* What a failed enable or unload leaves is a row.
LEMMA PlugFailed ==
    ASSUME NEW CONSTANT k, NEW r \in PluginRows(k), NEW h \in Healths(k)
    PROVE  /\ Plug(k)!EnableFailed(r, h) \in PluginRows(k)
           /\ Plug(k)!UnloadFailed(r, h) \in PluginRows(k)
           /\ Plug(k)!EnableFailed(r, h) = r \/ Plug(k)!EnableFailed(r, h).status # "running"
<1>1. \A s \in {"disabled", "error", "running"}, e \in BOOLEAN : Plug(k)!Set(r, s, e) \in PluginRows(k)
  BY PlugRows DEF Plug!Statuses
<1>2. r.enabled \in BOOLEAN
  BY DEF PluginRows
<1>3. \A s \in {"disabled", "error"}, e \in BOOLEAN : Plug(k)!Set(r, s, e).status # "running"
  BY DEF Plug!Set, Plug!Absent
<1>4. Plug(k)!EnableFailed(r, h) \in {Plug(k)!Set(r, "disabled", FALSE), r, Plug(k)!Set(r, "error", FALSE)}
  BY DEF Plug!EnableFailed
<1>5. Plug(k)!UnloadFailed(r, h) \in {Plug(k)!Set(r, "disabled", FALSE), r, Plug(k)!Set(r, "running", r.enabled)}
  BY DEF Plug!UnloadFailed
<1>6. QED  BY <1>1, <1>2, <1>3, <1>4, <1>5

LEMMA PlanFailsTypes ==
    ASSUME NEW CONSTANT k, Plug(k)!PluginConstants, PluginTypes(k),
           NEW rows \in [k.plugins -> PluginRows(k)], NEW p \in k.plugins, NEW d \in k.plugins,
           Plug(k)!PlanFails(rows, p, d)
    PROVE  /\ plugin' \in [k.plugins -> PluginRows(k)] /\ health' \in [k.plugins -> Healths(k)]
           /\ adrift' \subseteq k.plugins
<1>1. \A q \in k.plugins : Plug(k)!Errored(rows[q]) \in PluginRows(k)
  BY DEF PluginRows, Plug!Errored, Plug!Set, Plug!Absent, Plug!Statuses
<1>2. [rows EXCEPT ![d] = Plug(k)!Errored(@)] \in [k.plugins -> PluginRows(k)]
  BY <1>1
<1>3. \A q \in k.plugins : health[q] \in Healths(k) /\ Plug(k)!Failure(health[q]) \in Healths(k)
  BY PlugHealth DEF PluginTypes
<1>4. adrift' \subseteq k.plugins
  BY DEF Plug!PlanFails, Plug!LeftBehind, PluginTypes
<1>5. QED  BY <1>2, <1>3, <1>4, PlugFailed DEF Plug!PlanFails, PluginTypes

\* One request changes.
LEMMA RequestTypes ==
    ASSUME NEW CONSTANT k, RequestsOK(k), NEW i \in k.calls, NEW c \in PluginRequests(k), RequestOK(c),
           requests' = [requests EXCEPT ![i] = c]
    PROVE  RequestsOK(k)'
  BY DEF RequestsOK

LEMMA IdleRequest ==
    ASSUME NEW CONSTANT k, Plug(k)!PluginConstants
    PROVE  Plug(k)!Idle \in PluginRequests(k) /\ RequestOK(Plug(k)!Idle)
<1>1. (CHOOSE p \in k.plugins : TRUE) \in k.plugins
  BY DEF Plug!PluginConstants
<1>2. Plug(k)!Absent \in PluginRows(k) /\ Plug(k)!NoLife \in Plug(k)!Lives
  BY DEF Plug!Absent, PluginRows, Plug!Statuses, Plug!NoLife, Plug!Lives
<1>3. <<>> \in Seq(k.plugins)
  OBVIOUS
<1>4. 0 \in 0..k.kinds - 1
  BY DEF Plug!PluginConstants
<1>5. QED  BY <1>1, <1>2, <1>3, <1>4 DEF Plug!Idle, PluginRequests, RequestOK, Plug!Ops

LEMMA PluginTypesInit ==
    ASSUME NEW CONSTANT k, Plug(k)!PluginConstants,
           NEW S, S \subseteq Plug(k)!Lives, Plug(k)!PluginInit(S)
    PROVE  PluginTypes(k)
<1>1. [status |-> "installed", enabled |-> FALSE] \in PluginRows(k)
  BY DEF PluginRows, Plug!Statuses
<1>2. Plug(k)!Fresh \in Healths(k)
  BY DEF Healths, Plug!Fresh, Plug!PluginConstants
<1>3. RequestsOK(k)
  BY IdleRequest DEF Plug!PluginInit, RequestsOK
<1>4. 0 \in 0..k.maxRestarts
  BY DEF Plug!PluginConstants
<1>5. QED  BY <1>1, <1>2, <1>3, <1>4 DEF PluginTypes, Plug!PluginInit

\* The steps of a load and of an unload, whatever request they belong to.
LEMMA StartEnableTypes ==
    ASSUME NEW CONSTANT k, Plug(k)!PluginConstants, PluginTypes(k), NEW i \in k.calls, NEW p \in k.plugins,
           NEW op \in Plug(k)!Ops, NEW save \in Plug(k)!Lives, Plug(k)!StartEnable(i, p, op, save)
    PROVE  PluginTypes(k)'
<1>1. k.order[p] \in Seq(k.plugins) /\ k.order[p] # <<>> /\ k.order[p][Len(k.order[p])] = p
  BY DEF Plug!PluginConstants
<1>2. plugin[p] \in PluginRows(k) /\ plugin[p].status \in {"installed", "disabled", "error"}
  BY DEF Plug!StartEnable, Plug!MayEnable, PluginTypes
<1>3. [status |-> "enabled", enabled |-> TRUE] \in PluginRows(k)
  BY DEF PluginRows, Plug!Statuses
<1> DEFINE c == [op |-> op, p |-> p, await |-> "load", plan |-> k.order[p], hook |-> 0,
                 row |-> plugin[p], life |-> save]
<1>z. 0 \in 0..k.kinds - 1
  BY DEF Plug!PluginConstants
<1>4. c \in PluginRequests(k) /\ RequestOK(c)
  BY <1>1, <1>2, <1>z DEF PluginRequests, RequestOK
<1>5. requests' = [requests EXCEPT ![i] = c]
  BY DEF Plug!StartEnable
<1>6. RequestsOK(k)'
  <2> HIDE DEF c
  <2>1. QED  BY <1>4, <1>5, RequestTypes DEF PluginTypes
<1>7. QED  BY <1>3, <1>6 DEF Plug!StartEnable, PluginTypes

LEMMA LoadTypes ==
    ASSUME NEW CONSTANT k, Plug(k)!PluginConstants, PluginTypes(k), NEW i \in k.calls
    PROVE  /\ requests[i].p \in k.plugins
           /\ requests[i].await = "load" => Plug(k)!Loading(i) \in k.plugins
           /\ requests[i].await = "load" /\ Tail(requests[i].plan) # <<>> =>
                /\ Head(Tail(requests[i].plan)) \in k.plugins
                /\ Tail(requests[i].plan) \in Seq(k.plugins)
                /\ Tail(requests[i].plan)[Len(Tail(requests[i].plan))] = requests[i].p
           /\ requests[i].await = "load" /\ Len(requests[i].plan) = 1 => Plug(k)!Loading(i) = requests[i].p
<1>1. requests[i].p \in k.plugins /\ requests[i].plan \in Seq(k.plugins)
  BY DEF PluginTypes, RequestsOK, PluginRequests
<1>2. requests[i].await = "load" =>
        requests[i].plan # <<>> /\ requests[i].plan[Len(requests[i].plan)] = requests[i].p
  BY DEF PluginTypes, RequestsOK, RequestOK
<1> DEFINE s == requests[i].plan
<1>3. ASSUME requests[i].await = "load" PROVE Len(s) \in Nat \ {0} /\ Head(s) = s[1] /\ s[1] \in k.plugins
  BY <1>1, <1>2, <1>3, EmptySeq
<1>4. ASSUME requests[i].await = "load", Tail(s) # <<>>
      PROVE  /\ Tail(s) \in Seq(k.plugins) /\ Head(Tail(s)) \in k.plugins
             /\ Tail(s)[Len(Tail(s))] = requests[i].p
  <2>1. /\ Tail(s) \in Seq(k.plugins) /\ Len(Tail(s)) = Len(s) - 1
        /\ \A j \in 1..Len(Tail(s)) : Tail(s)[j] = s[j + 1]
    BY <1>1, <1>2, <1>4, HeadTailProperties
  <2>2. Len(Tail(s)) \in Nat \ {0}
    BY <2>1, <1>4, EmptySeq
  <2>3. Tail(s)[Len(Tail(s))] = s[Len(s)]
    BY <1>3, <1>4, <2>1, <2>2
  <2>4. Head(Tail(s)) \in k.plugins
    <3>1. \A t \in Seq(k.plugins) : Len(t) \in Nat \ {0} => Head(t) \in k.plugins
      OBVIOUS
    <3>2. QED  BY <2>1, <2>2, <3>1
  <2>5. QED  BY <1>2, <1>4, <2>1, <2>3, <2>4
<1>5. QED  BY <1>1, <1>2, <1>3, <1>4 DEF Plug!Loading

\* The hooks of a load and of an unload.
LEMMA HookTypes ==
    ASSUME NEW CONSTANT k, Plug(k)!PluginConstants, PluginTypes(k), NEW i \in k.calls
    PROVE  /\ requests[i].hook \in 0..k.kinds - 1 /\ k.kinds \in Nat \ {0}
           /\ requests[i].await = "load" /\ Plug(k)!ActivatesNext(i) =>
                alive' \in [k.plugins -> SUBSET (1..k.kinds)]
           /\ Plug(k)!DeactivatesNext(i) => alive' \in [k.plugins -> SUBSET (1..k.kinds)]
<1>1. requests[i].hook \in 0..k.kinds - 1 /\ k.kinds \in Nat \ {0}
  BY DEF PluginTypes, RequestsOK, PluginRequests, Plug!PluginConstants
<1>2. requests[i].hook + 1 \in 1..k.kinds
  BY <1>1
<1>3. QED  BY <1>1, <1>2, LoadTypes DEF Plug!ActivatesNext, Plug!DeactivatesNext, PluginTypes

LEMMA HooksTypes ==
    ASSUME NEW CONSTANT k, Plug(k)!PluginConstants, PluginTypes(k), NEW i \in k.calls,
           Plug(k)!Activates(i) \/ Plug(k)!Deactivates(i)
    PROVE  PluginTypes(k)'
<1> DEFINE c == [requests[i] EXCEPT !.hook = @ + 1]
<1>1. requests[i].hook \in 0..k.kinds - 1 /\ requests[i].hook # k.kinds - 1 /\ k.kinds \in Nat \ {0}
  BY HookTypes DEF Plug!Activates, Plug!Deactivates, Plug!AtLastHook
<1>2. requests[i].hook + 1 \in 0..k.kinds - 1
  BY <1>1
<1>3. requests[i] \in PluginRequests(k) /\ RequestOK(requests[i])
  BY DEF PluginTypes, RequestsOK
<1>4. c \in PluginRequests(k) /\ RequestOK(c)
  BY <1>2, <1>3 DEF PluginRequests, RequestOK
<1>5. requests' = [requests EXCEPT ![i] = c]
  BY DEF Plug!Activates, Plug!Deactivates
<1>6. RequestsOK(k)'
  <2> HIDE DEF c
  <2>1. QED  BY <1>4, <1>5, RequestTypes DEF PluginTypes
<1>7. alive' \in [k.plugins -> SUBSET (1..k.kinds)]
  BY HookTypes DEF Plug!Activates, Plug!Deactivates
<1>8. adrift' \subseteq k.plugins
  BY LoadTypes DEF Plug!Activates, Plug!Deactivates, PluginTypes
<1>9. QED  BY <1>6, <1>7, <1>8 DEF Plug!Activates, Plug!Deactivates, PluginTypes

LEMMA LoadThrowsTypes ==
    ASSUME NEW CONSTANT k, Plug(k)!PluginConstants, PluginTypes(k), NEW i \in k.calls, NEW ok \in BOOLEAN,
           Plug(k)!LoadThrows(i, ok), requests' = [requests EXCEPT ![i] = Plug(k)!Idle], UNCHANGED life
    PROVE  PluginTypes(k)'
<1>1. Plug(k)!PlanFails(plugin, requests[i].p, Plug(k)!Loading(i)) /\ requests[i].await = "load"
  BY DEF Plug!LoadThrows, Plug!LoadStops
<1>2. /\ plugin' \in [k.plugins -> PluginRows(k)] /\ health' \in [k.plugins -> Healths(k)]
      /\ adrift' \subseteq k.plugins
  BY <1>1, LoadTypes, PlanFailsTypes DEF PluginTypes
<1>3. alive' \in [k.plugins -> SUBSET (1..k.kinds)] /\ UNCHANGED <<loaded, restarts>>
  BY <1>1, HookTypes DEF Plug!LoadThrows, Plug!LoadStops, PluginTypes
<1>4. RequestsOK(k)'
  BY IdleRequest, RequestTypes DEF PluginTypes
<1>5. QED  BY <1>2, <1>3, <1>4 DEF PluginTypes

LEMMA LoadedTypes ==
    ASSUME NEW CONSTANT k, Plug(k)!PluginConstants, PluginTypes(k), NEW i \in k.calls, Plug(k)!Loaded(i)
    PROVE  /\ plugin' \in [k.plugins -> PluginRows(k)] /\ health' \in [k.plugins -> Healths(k)]
           /\ loaded' \subseteq k.plugins /\ adrift' \subseteq k.plugins /\ restarts' = restarts
           /\ alive' \in [k.plugins -> SUBSET (1..k.kinds)]
<1>1. requests[i].p \in k.plugins /\ plugin[requests[i].p].status = "enabled"
  BY LoadTypes DEF Plug!Loaded, Plug!LoadDone
<1>a. alive' \in [k.plugins -> SUBSET (1..k.kinds)]
  BY HookTypes DEF Plug!Loaded, Plug!LoadDone
<1>2. [plugin[requests[i].p] EXCEPT !.status = "running"] \in PluginRows(k)
  BY <1>1 DEF PluginTypes, PluginRows, Plug!Statuses
<1>3. Plug(k)!Success(health[requests[i].p]) \in Healths(k)
  BY <1>1, PlugHealth DEF PluginTypes
<1>4. QED  BY <1>1, <1>2, <1>3, <1>a DEF Plug!Loaded, PluginTypes

LEMMA LoadContinuesTypes ==
    ASSUME NEW CONSTANT k, Plug(k)!PluginConstants, PluginTypes(k), NEW i \in k.calls, Plug(k)!LoadContinues(i)
    PROVE  PluginTypes(k)'
<1> DEFINE d == Plug(k)!Loading(i)
           marked == [plugin EXCEPT ![d].status = "running"]
           rest == Tail(requests[i].plan)
           c == [requests[i] EXCEPT !.plan = rest, !.hook = 0]
<1>1. /\ d \in k.plugins /\ Head(rest) \in k.plugins /\ rest \in Seq(k.plugins) /\ rest # <<>>
      /\ rest[Len(rest)] = requests[i].p /\ plugin[d].status = "enabled" /\ requests[i].p \in k.plugins
  BY LoadTypes DEF Plug!LoadContinues, Plug!LoadDone
<1>2. [plugin[d] EXCEPT !.status = "running"] \in PluginRows(k)
  BY <1>1 DEF PluginTypes, PluginRows, Plug!Statuses
<1>3. marked \in [k.plugins -> PluginRows(k)]
  BY <1>1, <1>2 DEF PluginTypes
<1>4. /\ loaded' \subseteq k.plugins /\ UNCHANGED <<life, restarts>>
      /\ alive' \in [k.plugins -> SUBSET (1..k.kinds)]
  BY <1>1, HookTypes DEF Plug!LoadContinues, Plug!LoadDone, PluginTypes
<1>5. CASE /\ plugin' = marked /\ requests' = [requests EXCEPT ![i].plan = rest, ![i].hook = 0]
           /\ UNCHANGED <<health, adrift>>
  <2>1. requests[i] \in PluginRequests(k) /\ RequestOK(requests[i])
    BY DEF PluginTypes, RequestsOK
  <2>2. c \in PluginRequests(k) /\ RequestOK(c)
    BY <1>1, <2>1, IdleRequest DEF PluginRequests, RequestOK, Plug!Idle
  <2>3. requests' = [requests EXCEPT ![i] = c]
    BY <1>5
  <2>4. RequestsOK(k)'
    <3> HIDE DEF c
    <3>1. QED  BY <2>2, <2>3, RequestTypes DEF PluginTypes
  <2>5. QED  BY <1>3, <1>4, <1>5, <2>4 DEF PluginTypes
<1>6. CASE Plug(k)!PlanFails(marked, requests[i].p, Head(rest)) /\ requests' = [requests EXCEPT ![i] = Plug(k)!Idle]
  <2>1. /\ plugin' \in [k.plugins -> PluginRows(k)] /\ health' \in [k.plugins -> Healths(k)]
        /\ adrift' \subseteq k.plugins
    BY <1>1, <1>3, <1>6, PlanFailsTypes
  <2>2. RequestsOK(k)'
    BY <1>6, IdleRequest, RequestTypes DEF PluginTypes
  <2>3. QED  BY <1>4, <2>1, <2>2 DEF PluginTypes
<1>7. QED  BY <1>5, <1>6 DEF Plug!LoadContinues

LEMMA UnloadTypes ==
    ASSUME NEW CONSTANT k, Plug(k)!PluginConstants, PluginTypes(k), NEW i \in k.calls
    PROVE  /\ Plug(k)!UnloadThrows(i) =>
                /\ plugin' \in [k.plugins -> PluginRows(k)] /\ health' \in [k.plugins -> Healths(k)]
                /\ UNCHANGED <<loaded, alive, restarts>> /\ adrift' \subseteq k.plugins
           /\ Plug(k)!Deactivated(i) =>
                /\ loaded' \subseteq k.plugins /\ adrift' \subseteq k.plugins /\ restarts' = restarts
                /\ alive' \in [k.plugins -> SUBSET (1..k.kinds)]
           /\ Plug(k)!Unloaded(i) =>
                /\ plugin' \in [k.plugins -> PluginRows(k)] /\ health' \in [k.plugins -> Healths(k)]
                /\ Plug(k)!Deactivated(i)
<1>1. requests[i].p \in k.plugins
  BY LoadTypes
<1>2. /\ plugin[requests[i].p] \in PluginRows(k) /\ health[requests[i].p] \in Healths(k)
      /\ Plug(k)!Failure(health[requests[i].p]) \in Healths(k) /\ Plug(k)!Fresh \in Healths(k)
  BY <1>1, PlugHealth DEF PluginTypes
<1>3. Plug(k)!UnloadFailed(plugin[requests[i].p], health[requests[i].p]) \in PluginRows(k)
  BY <1>2, PlugFailed
<1>4. Plug(k)!Set(plugin[requests[i].p], "disabled", FALSE) \in PluginRows(k)
  BY <1>2 DEF PluginRows, Plug!Set, Plug!Absent, Plug!Statuses
<1>5. Plug(k)!UnloadThrows(i) =>
        /\ plugin' \in [k.plugins -> PluginRows(k)] /\ health' \in [k.plugins -> Healths(k)]
        /\ UNCHANGED <<loaded, alive, restarts>> /\ adrift' \subseteq k.plugins
  BY <1>1, <1>2, <1>3 DEF Plug!UnloadThrows, PluginTypes
<1>6. Plug(k)!Deactivated(i) =>
        /\ loaded' \subseteq k.plugins /\ adrift' \subseteq k.plugins /\ restarts' = restarts
        /\ alive' \in [k.plugins -> SUBSET (1..k.kinds)]
  BY <1>1, HookTypes DEF Plug!Deactivated, PluginTypes
<1>7. Plug(k)!Unloaded(i) =>
        /\ plugin' \in [k.plugins -> PluginRows(k)] /\ health' \in [k.plugins -> Healths(k)]
        /\ Plug(k)!Deactivated(i)
  <2> SUFFICES ASSUME Plug(k)!Unloaded(i)
               PROVE  /\ plugin' \in [k.plugins -> PluginRows(k)] /\ health' \in [k.plugins -> Healths(k)]
                      /\ Plug(k)!Deactivated(i)
    OBVIOUS
  <2>1. plugin' = [plugin EXCEPT ![requests[i].p] = Plug(k)!Set(@, "disabled", FALSE)]
    BY DEF Plug!Unloaded
  <2>2. health' = [health EXCEPT ![requests[i].p] =
                     IF plugin[requests[i].p] = Plug(k)!Absent THEN Plug(k)!Failure(@) ELSE Plug(k)!Fresh]
    BY DEF Plug!Unloaded
  <2>3. plugin' \in [k.plugins -> PluginRows(k)]
    BY <1>1, <1>4, <2>1 DEF PluginTypes
  <2>4. health' \in [k.plugins -> Healths(k)]
    BY <1>1, <1>2, <2>2 DEF PluginTypes
  <2>5. QED  BY <2>3, <2>4 DEF Plug!Unloaded
<1>8. QED  BY <1>5, <1>6, <1>7

LEMMA StartUnloadTypes ==
    ASSUME NEW CONSTANT k, Plug(k)!PluginConstants, PluginTypes(k), NEW i \in k.calls, NEW p \in k.plugins,
           NEW op \in {"disable", "uninstall"}, Plug(k)!StartUnload(i, p, op)
    PROVE  PluginTypes(k)'
<1> DEFINE c == [Plug(k)!Idle EXCEPT !.op = op, !.p = p, !.await = "unload"]
<1>1. c \in PluginRequests(k) /\ RequestOK(c)
  BY IdleRequest DEF PluginRequests, RequestOK, Plug!Ops, Plug!Idle
<1>2. requests' = [requests EXCEPT ![i] = c]
  BY DEF Plug!StartUnload
<1>3. RequestsOK(k)'
  <2> HIDE DEF c
  <2>1. QED  BY <1>1, <1>2, RequestTypes DEF PluginTypes
<1>4. QED  BY <1>3 DEF Plug!StartUnload, PluginTypes

LEMMA PluginTypesStep ==
    ASSUME NEW CONSTANT k, Plug(k)!PluginConstants, PluginTypes(k), [Plug(k)!PluginNext]_(Plug(k)!pvars)
    PROVE  PluginTypes(k)'
<1>l. Plug(k)!NoLife \in Plug(k)!Lives
  BY DEF Plug!NoLife, Plug!Lives
<1>h. Plug(k)!Fresh \in Healths(k)
  BY DEF Healths, Plug!Fresh, Plug!PluginConstants
<1>r. /\ Plug(k)!Absent \in PluginRows(k)
      /\ \A s \in {"installed", "enabled", "disabled"}, e \in BOOLEAN :
           [status |-> s, enabled |-> e] \in PluginRows(k)
  BY DEF PluginRows, Plug!Statuses, Plug!Absent
<1>1. ASSUME NEW p \in k.plugins, Plug(k)!installPlugin(p) PROVE PluginTypes(k)'
  BY <1>1, <1>l, <1>r DEF Plug!installPlugin, PluginTypes, RequestsOK
<1>2. ASSUME NEW p \in k.plugins, Plug(k)!enableRefused(p) PROVE PluginTypes(k)'
  <2> DEFINE marked == [plugin EXCEPT ![p] = [status |-> "enabled", enabled |-> TRUE]]
  <2>1. marked \in [k.plugins -> PluginRows(k)]
    BY <1>r DEF PluginTypes
  <2>2. Head(k.order[p]) \in k.plugins
    <3>1. \A s \in Seq(k.plugins) : s # <<>> => Head(s) \in k.plugins
      BY EmptySeq
    <3>2. QED  BY <3>1 DEF Plug!PluginConstants
  <2>3. /\ plugin' \in [k.plugins -> PluginRows(k)] /\ health' \in [k.plugins -> Healths(k)]
        /\ adrift' \subseteq k.plugins
    <3> HIDE DEF marked
    <3>1. Plug(k)!PlanFails(marked, p, Head(k.order[p]))
      BY <1>2 DEF Plug!enableRefused, marked
    <3>2. QED  BY <2>1, <2>2, <3>1, PlanFailsTypes
  <2>4. QED  BY <1>2, <2>3 DEF Plug!enableRefused, PluginTypes, RequestsOK
<1>3. ASSUME NEW p \in k.plugins, Plug(k)!disableAtOnce(p) PROVE PluginTypes(k)'
  BY <1>3, <1>h, <1>r DEF Plug!disableAtOnce, PluginTypes, RequestsOK
<1>4. ASSUME NEW p \in k.plugins, NEW force \in BOOLEAN, Plug(k)!uninstallAtOnce(p, force)
      PROVE  PluginTypes(k)'
  BY <1>4, <1>l, <1>h, <1>r DEF Plug!uninstallAtOnce, PluginTypes, RequestsOK
<1>5. ASSUME NEW i \in k.calls, NEW p \in k.plugins, Plug(k)!enablePlugin(i, p) PROVE PluginTypes(k)'
  BY <1>5, <1>l, StartEnableTypes DEF Plug!enablePlugin, Plug!Ops
<1>6. ASSUME NEW i \in k.calls, NEW p \in k.plugins,
             Plug(k)!StartUnload(i, p, "disable") \/ Plug(k)!StartUnload(i, p, "uninstall")
      PROVE  PluginTypes(k)'
  BY <1>6, StartUnloadTypes
<1>7. ASSUME NEW i \in k.calls, Plug(k)!LoadContinues(i) PROVE PluginTypes(k)'
  BY <1>7, LoadContinuesTypes
<1>7h. ASSUME NEW i \in k.calls, Plug(k)!Activates(i) \/ Plug(k)!Deactivates(i) PROVE PluginTypes(k)'
  BY <1>7h, HooksTypes
<1>8. ASSUME NEW i \in k.calls, Plug(k)!disableEnds(i) PROVE PluginTypes(k)'
  <2>1. RequestsOK(k)'
    BY <1>8, IdleRequest, RequestTypes DEF Plug!disableEnds, PluginTypes
  <2>2. QED  BY <1>8, <2>1, UnloadTypes DEF Plug!disableEnds, PluginTypes
<1>9. ASSUME NEW i \in k.calls, Plug(k)!uninstallEnds(i) PROVE PluginTypes(k)'
  <2>1. RequestsOK(k)'
    BY <1>9, IdleRequest, RequestTypes DEF Plug!uninstallEnds, PluginTypes
  <2>2. CASE Plug(k)!UnloadThrows(i) /\ UNCHANGED life
    BY <2>1, <2>2, UnloadTypes DEF PluginTypes
  <2>3. CASE /\ Plug(k)!Deactivated(i)
             /\ plugin' = [plugin EXCEPT ![requests[i].p] = Plug(k)!Absent]
             /\ life' = [life EXCEPT ![requests[i].p] = Plug(k)!NoLife]
             /\ health' = [health EXCEPT ![requests[i].p] =
                             IF plugin[requests[i].p] = Plug(k)!Absent THEN Plug(k)!Failure(@) ELSE Plug(k)!Fresh]
    <3>1. requests[i].p \in k.plugins /\ Plug(k)!Failure(health[requests[i].p]) \in Healths(k)
      BY LoadTypes, PlugHealth DEF PluginTypes
    <3>2. health' \in [k.plugins -> Healths(k)]
      BY <2>3, <3>1, <1>h DEF PluginTypes
    <3>3. QED  BY <1>l, <1>r, <2>1, <2>3, <3>1, <3>2, UnloadTypes DEF PluginTypes
  <2>4. QED  BY <1>9, <2>2, <2>3 DEF Plug!uninstallEnds
<1>10. ASSUME NEW i \in k.calls, NEW ok \in BOOLEAN, Plug(k)!enableEnds(i, ok) PROVE PluginTypes(k)'
  <2>1. CASE Plug(k)!LoadThrows(i, ok)
    BY <1>10, <2>1, LoadThrowsTypes DEF Plug!enableEnds
  <2>2. CASE Plug(k)!Loaded(i)
    <3>1. RequestsOK(k)'
      BY <1>10, IdleRequest, RequestTypes DEF Plug!enableEnds, PluginTypes
    <3>2. QED  BY <1>10, <2>2, <3>1, LoadedTypes DEF Plug!enableEnds, PluginTypes
  <2>3. QED  BY <1>10, <2>1, <2>2 DEF Plug!enableEnds
<1>11. CASE Plug(k)!Restart
  <2>1. RequestsOK(k)'
    BY <1>11, IdleRequest DEF Plug!Restart, RequestsOK
  <2>d. Plug(k)!Dies
    BY <1>11 DEF Plug!Restart
  <2>2. restarts' \in 0..k.maxRestarts
    BY <2>d DEF Plug!Dies, PluginTypes, Plug!PluginConstants
  <2>3. QED  BY <1>11, <1>h, <2>1, <2>2, <2>d DEF Plug!Dies, Plug!Restart, PluginTypes
<1>12. CASE UNCHANGED Plug(k)!pvars
  BY <1>12 DEF Plug!pvars, PluginTypes, RequestsOK
<1>13. QED  BY <1>1, <1>2, <1>3, <1>4, <1>5, <1>6, <1>7, <1>7h, <1>8, <1>9, <1>10, <1>11, <1>12
            DEF Plug!PluginNext, Plug!Requests

-----------------------------------------------------------------------------
(* What is activated and what the loader holds, whatever requests overlap  *)

Loads(c, q) == c.await = "load" /\ Head(c.plan) = q
Unloads(c, q) == c.await = "unload" /\ c.p = q

\* A plugin is off when nothing of it is left, and loads have yet to start.
OffAt(q) == alive[q] = {} /\ q \notin loaded

KeptAt(k, q) ==
    /\ alive[q] # {} => q \in loaded \/ (\E j \in k.calls : Loads(requests[j], q)) \/ q \in adrift
    /\ plugin[q].status # "running" =>
         OffAt(q) \/ (\E j \in k.calls : Loads(requests[j], q) \/ Unloads(requests[j], q)) \/ q \in adrift
    /\ plugin[q].status = "running" /\ restarts = 0 =>
         \/ q \in loaded /\ alive[q] = 1..k.kinds
         \/ \E j \in k.calls : Unloads(requests[j], q)
         \/ q \in adrift
    /\ \A j \in k.calls : Loads(requests[j], q) /\ q \notin adrift => 1..requests[j].hook \subseteq alive[q]

KeptInv(k) == \A q \in k.plugins : KeptAt(k, q)

LEMMA KeptImplies ==
    ASSUME NEW CONSTANT k, KeptInv(k)
    PROVE  Plug(k)!RunningIsLoaded /\ Plug(k)!Tracked /\ Plug(k)!OffIsOff
  BY DEF KeptInv, KeptAt, OffAt, Loads, Unloads, Plug!RunningIsLoaded, Plug!Tracked, Plug!OffIsOff, Plug!Busy,
         Plug!BeingLoaded, Plug!BeingUnloaded, Plug!Loading, Plug!Modules

LEMMA KeptAdrift == ASSUME NEW CONSTANT k, NEW q, q \in adrift' PROVE KeptAt(k, q)'
  BY DEF KeptAt

\* A request that is not at work on the plugin takes a turn, and does not
\* touch it, or only the row of a plugin that does not run.
LEMMA KeptElse ==
    ASSUME NEW CONSTANT k, NEW q, KeptAt(k, q),
           plugin'[q] = plugin[q] \/ (plugin[q].status # "running" /\ plugin'[q].status # "running"),
           alive'[q] = alive[q], q \in loaded' <=> q \in loaded, q \in adrift => q \in adrift',
           restarts' = restarts,
           \A j \in k.calls : \/ requests'[j] = requests[j]
                              \/ /\ ~Loads(requests[j], q) /\ ~Unloads(requests[j], q)
                                 /\ Loads(requests'[j], q) => requests'[j].hook = 0
    PROVE  KeptAt(k, q)'
<1>1. CASE q \in adrift'
  BY <1>1, KeptAdrift
<1>2. CASE q \notin adrift'
  <2>1. \A j \in k.calls : /\ Loads(requests[j], q) => Loads(requests'[j], q)
                           /\ Unloads(requests[j], q) => Unloads(requests'[j], q)
    OBVIOUS
  <2>2. \A j \in k.calls : Loads(requests'[j], q) =>
          requests'[j].hook = 0 \/ (Loads(requests[j], q) /\ requests'[j].hook = requests[j].hook)
    OBVIOUS
  <2>3. \A j \in k.calls : Loads(requests'[j], q) => 1..requests'[j].hook \subseteq alive[q]
    <3>1. 1..0 = {}
      OBVIOUS
    <3>2. QED  BY <1>2, <2>2, <3>1 DEF KeptAt
  <2>4. QED  BY <1>2, <2>1, <2>3 DEF KeptAt, OffAt
<1>3. QED  BY <1>1, <1>2

\* A plugin is given up: nothing of it is left, or it is adrift.
LEMMA KeptFailed ==
    ASSUME NEW CONSTANT k, NEW q, KeptAt(k, q), plugin'[q].status # "running",
           OffAt(q)' \/ q \in adrift', q \in adrift => q \in adrift', alive[q] \subseteq alive'[q],
           \A j \in k.calls : Loads(requests'[j], q) => requests'[j] = requests[j] \/ requests'[j].hook = 0
    PROVE  KeptAt(k, q)'
<1>1. CASE q \in adrift'
  BY <1>1, KeptAdrift
<1>2. CASE q \notin adrift' /\ OffAt(q)'
  <2>1. alive[q] = {} /\ alive'[q] = {}
    BY <1>2 DEF OffAt
  <2>2. \A j \in k.calls : Loads(requests'[j], q) => 1..requests'[j].hook \subseteq alive'[q]
    <3>1. 1..0 = {}
      OBVIOUS
    <3>2. QED  BY <1>2, <2>1, <3>1 DEF KeptAt
  <2>3. QED  BY <1>2, <2>1, <2>2 DEF KeptAt
<1>3. QED  BY <1>1, <1>2

\* It is all deactivated, with no load under way.
LEMMA KeptOut ==
    ASSUME NEW CONSTANT k, NEW q, plugin'[q].status # "running" \/ restarts' # 0, OffAt(q)' \/ q \in adrift',
           (\A j \in k.calls : ~Loads(requests'[j], q)) \/ q \in adrift'
    PROVE  KeptAt(k, q)'
  BY DEF KeptAt, OffAt

\* It is loaded.
LEMMA KeptOn ==
    ASSUME NEW CONSTANT k, NEW q, k.kinds \in Nat, plugin'[q].status = "running", q \in loaded',
           alive'[q] = 1..k.kinds \/ q \in adrift',
           \A j \in k.calls : Loads(requests'[j], q) => requests'[j].hook \in 0..k.kinds
    PROVE  KeptAt(k, q)'
<1>1. CASE q \in adrift'
  BY <1>1, KeptAdrift
<1>2. CASE q \notin adrift'
  <2>1. \A h \in 0..k.kinds : 1..h \subseteq 1..k.kinds
    OBVIOUS
  <2>2. QED  BY <1>2, <2>1 DEF KeptAt
<1>3. QED  BY <1>1, <1>2

\* It is marked as not running, and was not.
LEMMA KeptOff ==
    ASSUME NEW CONSTANT k, NEW q, KeptAt(k, q), ~(plugin[q].status = "running" /\ q \in loaded),
           plugin'[q].status # "running", alive'[q] = alive[q],
           UNCHANGED <<loaded, adrift, requests>>
    PROVE  KeptAt(k, q)'
  BY DEF KeptAt, OffAt

\* The process dies.
LEMMA KeptDies ==
    ASSUME NEW CONSTANT k, Plug(k)!PluginConstants, PluginTypes(k), Plug(k)!Dies,
           requests' = [j \in k.calls |-> Plug(k)!Idle]
    PROVE  KeptInv(k)'
<1>1. restarts' # 0
  BY DEF Plug!Dies, PluginTypes, Plug!PluginConstants
<1>2. \A q \in k.plugins : OffAt(q)' /\ \A j \in k.calls : ~Loads(requests'[j], q)
  BY DEF Plug!Dies, OffAt, Loads, Plug!Idle
<1>3. QED  BY <1>1, <1>2, KeptOut DEF KeptInv

\* An idle request is at work on nothing.
LEMMA IdleRests ==
    ASSUME NEW CONSTANT k, NEW q
    PROVE  ~Loads(Plug(k)!Idle, q) /\ ~Unloads(Plug(k)!Idle, q) /\ Plug(k)!Idle.hook = 0
  BY DEF Loads, Unloads, Plug!Idle

\* What a failed plan marks.
LEMMA PlanFailsRows ==
    ASSUME NEW CONSTANT k, PluginTypes(k), NEW rows \in [k.plugins -> PluginRows(k)],
           NEW p \in k.plugins, NEW d \in k.plugins, Plug(k)!PlanFails(rows, p, d)
    PROVE  /\ \A q \in k.plugins \ {p, d} : plugin'[q] = rows[q]
           /\ plugin'[d].status # "running"
           /\ plugin'[p] = rows[p] \/ plugin'[p].status # "running"
           /\ \A q \in {p, d} : q \in adrift' \/ (alive'[q] = {} /\ q \notin loaded)
           /\ adrift \subseteq adrift'
<1> DEFINE rows1 == [rows EXCEPT ![d] = Plug(k)!Errored(@)]
<1>1. \A r \in PluginRows(k) : Plug(k)!Errored(r) \in PluginRows(k) /\ Plug(k)!Errored(r).status # "running"
  BY DEF PluginRows, Plug!Errored, Plug!Set, Plug!Absent, Plug!Statuses
<1>2. rows1 \in [k.plugins -> PluginRows(k)]
  BY <1>1
<1>3. plugin' = [rows1 EXCEPT ![p] = Plug(k)!EnableFailed(@, health[p])]
  BY DEF Plug!PlanFails
<1>4. health[p] \in Healths(k)
  BY DEF PluginTypes
<1>5. plugin'[p] = rows1[p] \/ plugin'[p].status # "running"
  <2> HIDE DEF rows1
  <2>1. plugin'[p] = Plug(k)!EnableFailed(rows1[p], health[p])
    BY <1>2, <1>3
  <2>2. QED  BY <1>2, <1>4, <2>1, PlugFailed
<1>6. rows1[d].status # "running" /\ \A q \in k.plugins \ {d} : rows1[q] = rows[q]
  BY <1>1
<1>7. \A q \in k.plugins \ {p} : plugin'[q] = rows1[q]
  <2> HIDE DEF rows1
  <2>1. QED  BY <1>2, <1>3
<1>8. adrift' = adrift \cup {q \in {p, d} : alive'[q] # {} \/ q \in loaded}
  BY DEF Plug!PlanFails, Plug!LeftBehind
<1>9. plugin'[d].status # "running" /\ (plugin'[p] = rows[p] \/ plugin'[p].status # "running")
  <2> HIDE DEF rows1
  <2>1. QED  BY <1>5, <1>6, <1>7
<1>10. \A q \in k.plugins \ {p, d} : plugin'[q] = rows[q]
  <2> HIDE DEF rows1
  <2>1. QED  BY <1>6, <1>7
<1>11. QED  BY <1>8, <1>9, <1>10

LEMMA KeptStartEnable ==
    ASSUME NEW CONSTANT k, Plug(k)!PluginConstants, PluginTypes(k), KeptInv(k),
           NEW i \in k.calls, NEW p \in k.plugins, NEW op, NEW save, Plug(k)!StartEnable(i, p, op, save)
    PROVE  KeptInv(k)'
<1>1. \A q \in k.plugins : plugin'[q] = plugin[q] \/ (plugin[q].status # "running" /\ plugin'[q].status # "running")
  BY DEF Plug!StartEnable, Plug!MayEnable, PluginTypes
<1>2. UNCHANGED <<loaded, alive, restarts, adrift>> /\ requests[i] = Plug(k)!Idle
  BY DEF Plug!StartEnable
<1>3. requests'[i].hook = 0 /\ \A j \in k.calls \ {i} : requests'[j] = requests[j]
  BY DEF Plug!StartEnable, PluginTypes, RequestsOK
<1>4. ASSUME NEW q \in k.plugins PROVE KeptAt(k, q)'
  BY <1>1, <1>2, <1>3, IdleRests, KeptElse DEF KeptInv
<1>5. QED  BY <1>4 DEF KeptInv

\* A load stops: every plugin in S is given up, the one at hand among them.
LEMMA KeptStops ==
    ASSUME NEW CONSTANT k, Plug(k)!PluginConstants, PluginTypes(k), KeptInv(k),
           NEW i \in k.calls, NEW ok \in BOOLEAN, Plug(k)!LoadStops(i, ok),
           NEW S, Plug(k)!Loading(i) \in S,
           \A q \in S : q \in adrift' \/ (alive'[q] = {} /\ q \notin loaded), adrift \subseteq adrift',
           UNCHANGED <<loaded, restarts>>, requests' = [requests EXCEPT ![i] = Plug(k)!Idle],
           plugin'[Plug(k)!Loading(i)].status # "running",
           \A q \in k.plugins : plugin'[q] = plugin[q] \/ (q \in S /\ plugin'[q].status # "running")
    PROVE  KeptInv(k)'
<1>d. PICK d : d = Plug(k)!Loading(i)
  OBVIOUS
<1>1. d \in k.plugins /\ requests[i].await = "load" /\ d = Head(requests[i].plan)
  BY <1>d, LoadTypes DEF Plug!LoadStops, Plug!Loading
<1>2. \A q \in k.plugins : alive[q] \subseteq alive'[q] /\ (q # d => alive'[q] = alive[q])
  BY <1>d, <1>1 DEF Plug!LoadStops, Plug!ActivatesNext, PluginTypes
<1>3. requests'[i] = Plug(k)!Idle /\ \A j \in k.calls \ {i} : requests'[j] = requests[j]
  BY DEF PluginTypes, RequestsOK
<1>4. ASSUME NEW q \in k.plugins, q \in S, plugin'[q].status # "running" PROVE KeptAt(k, q)'
  BY <1>2, <1>3, <1>4, IdleRests, KeptFailed DEF KeptInv, OffAt
<1>5. ASSUME NEW q \in k.plugins, q # d, plugin'[q] = plugin[q] PROVE KeptAt(k, q)'
  <2>1. ~Loads(requests[i], q) /\ ~Unloads(requests[i], q)
    BY <1>1, <1>5 DEF Loads, Unloads
  <2>2. QED  BY <1>2, <1>3, <1>5, <2>1, IdleRests, KeptElse DEF KeptInv
<1>6. QED  BY <1>d, <1>4, <1>5 DEF KeptInv

LEMMA KeptThrows ==
    ASSUME NEW CONSTANT k, Plug(k)!PluginConstants, PluginTypes(k), KeptInv(k),
           NEW i \in k.calls, NEW ok \in BOOLEAN, Plug(k)!LoadThrows(i, ok),
           requests' = [requests EXCEPT ![i] = Plug(k)!Idle]
    PROVE  KeptInv(k)'
<1> DEFINE d == Plug(k)!Loading(i)
<1>1. /\ Plug(k)!LoadStops(i, ok) /\ Plug(k)!PlanFails(plugin, requests[i].p, d) /\ UNCHANGED <<loaded, restarts>>
      /\ requests[i].await = "load"
  BY DEF Plug!LoadThrows, Plug!LoadStops
<1>2. requests[i].p \in k.plugins /\ d \in k.plugins
  BY <1>1, LoadTypes
<1>3. plugin \in [k.plugins -> PluginRows(k)]
  BY DEF PluginTypes
<1>4. /\ \A q \in k.plugins \ {requests[i].p, d} : plugin'[q] = plugin[q]
      /\ plugin'[d].status # "running"
      /\ plugin'[requests[i].p] = plugin[requests[i].p] \/ plugin'[requests[i].p].status # "running"
      /\ \A q \in {requests[i].p, d} : q \in adrift' \/ (alive'[q] = {} /\ q \notin loaded)
      /\ adrift \subseteq adrift'
  <2> HIDE DEF d
  <2>1. QED  BY <1>1, <1>2, <1>3, PlanFailsRows
<1>5. \A q \in k.plugins : plugin'[q] = plugin[q] \/ (q \in {requests[i].p, d} /\ plugin'[q].status # "running")
  <2> HIDE DEF d
  <2>1. QED  BY <1>4
<1>6. QED
  <2> HIDE DEF d
  <2> DEFINE S == {requests[i].p, d}
  <2>1. d = Plug(k)!Loading(i) /\ d \in S
    BY DEF d
  <2>2. /\ \A q \in S : q \in adrift' \/ (alive'[q] = {} /\ q \notin loaded)
        /\ \A q \in k.plugins : plugin'[q] = plugin[q] \/ (q \in S /\ plugin'[q].status # "running")
    BY <1>4, <1>5
  <2>3. QED
    <3> HIDE DEF S
    <3>1. QED  BY <1>1, <1>4, <2>1, <2>2, KeptStops

\* A load is done.
LEMMA KeptDone ==
    ASSUME NEW CONSTANT k, Plug(k)!PluginConstants, PluginTypes(k), KeptInv(k),
           NEW i \in k.calls, Plug(k)!LoadDone(i), loaded' = loaded \cup {Plug(k)!Loading(i)},
           adrift \subseteq adrift', restarts' = restarts, requests'[i].hook = 0,
           \A j \in k.calls \ {i} : requests'[j] = requests[j],
           plugin'[Plug(k)!Loading(i)].status = "running" \/ Plug(k)!Loading(i) \in adrift',
           \A q \in k.plugins \ {Plug(k)!Loading(i)} :
             \/ plugin'[q] = plugin[q]
             \/ plugin'[q].status # "running" /\ (q \in adrift' \/ (alive'[q] = {} /\ q \notin loaded))
    PROVE  KeptInv(k)'
<1>d. PICK d \in k.plugins : d = Plug(k)!Loading(i)
  BY LoadTypes DEF Plug!LoadDone
<1>1. /\ d \in k.plugins /\ requests[i].await = "load" /\ d = Head(requests[i].plan)
      /\ requests[i].hook = k.kinds - 1 /\ k.kinds \in Nat \ {0}
  BY <1>d, LoadTypes DEF Plug!LoadDone, Plug!Loading, Plug!AtLastHook, Plug!PluginConstants
<1>2. alive' = [alive EXCEPT ![d] = @ \cup {k.kinds}]
  <2>1. requests[i].hook + 1 = k.kinds
    BY <1>1
  <2>2. QED  BY <1>d, <2>1 DEF Plug!LoadDone, Plug!ActivatesNext
<1>3. \A q \in k.plugins \ {d} : alive'[q] = alive[q] /\ (q \in loaded' <=> q \in loaded)
  BY <1>d, <1>2 DEF PluginTypes
<1>4. ASSUME NEW q \in k.plugins, q # d PROVE KeptAt(k, q)'
  <2>1. ~Loads(requests[i], q) /\ ~Unloads(requests[i], q)
    BY <1>1, <1>4 DEF Loads, Unloads
  <2>2. CASE plugin'[q] = plugin[q]
    BY <1>3, <1>4, <2>1, <2>2, KeptElse DEF KeptInv
  <2>3. CASE plugin'[q].status # "running" /\ (q \in adrift' \/ (alive'[q] = {} /\ q \notin loaded))
    <3>1. \A j \in k.calls : Loads(requests'[j], q) => requests'[j] = requests[j] \/ requests'[j].hook = 0
      OBVIOUS
    <3>2. KeptAt(k, q) /\ alive[q] \subseteq alive'[q] /\ (OffAt(q)' \/ q \in adrift')
      BY <1>3, <1>4, <2>3 DEF KeptInv, OffAt
    <3>3. QED  BY <2>3, <3>1, <3>2, KeptFailed
  <2>4. QED  BY <1>d, <1>4, <2>2, <2>3
<1>5. KeptAt(k, d)'
  <2>1. CASE d \in adrift'
    BY <2>1, KeptAdrift
  <2>2. CASE d \notin adrift'
    <3>1. 1..k.kinds - 1 \subseteq alive[d]
      BY <1>1, <2>2 DEF KeptInv, KeptAt, Loads
    <3>2. alive'[d] = alive[d] \cup {k.kinds} /\ alive[d] \subseteq 1..k.kinds
      BY <1>1, <1>2 DEF PluginTypes
    <3>3. alive'[d] = 1..k.kinds
      BY <1>1, <3>1, <3>2
    <3>4. \A j \in k.calls : Loads(requests'[j], d) => requests'[j].hook \in 0..k.kinds
      <4>1. \A j \in k.calls : requests[j].hook \in 0..k.kinds - 1
        BY HookTypes
      <4>2. QED  BY <1>1, <4>1
    <3>5. QED  BY <1>d, <1>1, <2>2, <3>3, <3>4, KeptOn
  <2>3. QED  BY <2>1, <2>2
<1>6. QED  BY <1>4, <1>5 DEF KeptInv

LEMMA KeptLoaded ==
    ASSUME NEW CONSTANT k, Plug(k)!PluginConstants, PluginTypes(k), KeptInv(k),
           NEW i \in k.calls, Plug(k)!Loaded(i), requests'[i].hook = 0,
           \A j \in k.calls \ {i} : requests'[j] = requests[j]
    PROVE  KeptInv(k)'
<1> DEFINE d == Plug(k)!Loading(i)
<1>1. Plug(k)!LoadDone(i) /\ requests[i].await = "load" /\ requests[i].p = d /\ d \in k.plugins
  BY LoadTypes DEF Plug!Loaded, Plug!LoadDone
<1>2. /\ plugin' = [plugin EXCEPT ![d].status = "running"] /\ loaded' = loaded \cup {d}
      /\ restarts' = restarts /\ adrift' = adrift
  BY <1>1 DEF Plug!Loaded
<1>3. plugin'[d].status = "running" /\ \A q \in k.plugins \ {d} : plugin'[q] = plugin[q]
  BY <1>1, <1>2 DEF PluginTypes, PluginRows
<1>4. QED
  <2> HIDE DEF d
  <2>1. d = Plug(k)!Loading(i)
    BY DEF d
  <2>2. QED  BY <1>1, <1>2, <1>3, <2>1, KeptDone

LEMMA KeptContinues ==
    ASSUME NEW CONSTANT k, Plug(k)!PluginConstants, PluginTypes(k), KeptInv(k),
           NEW i \in k.calls, Plug(k)!LoadContinues(i)
    PROVE  KeptInv(k)'
<1> DEFINE d == Plug(k)!Loading(i)
           p == requests[i].p
           e == Head(Tail(requests[i].plan))
           marked == [plugin EXCEPT ![d].status = "running"]
<1>1. /\ Plug(k)!LoadDone(i) /\ requests[i].await = "load" /\ loaded' = loaded \cup {d} /\ restarts' = restarts
      /\ d \in k.plugins /\ p \in k.plugins /\ e \in k.plugins /\ plugin[d].status = "enabled"
  BY LoadTypes DEF Plug!LoadContinues, Plug!LoadDone
<1>2. marked \in [k.plugins -> PluginRows(k)] /\ marked[d].status = "running"
      /\ \A q \in k.plugins \ {d} : marked[q] = plugin[q]
  <2>1. [plugin[d] EXCEPT !.status = "running"] \in PluginRows(k)
    BY <1>1 DEF PluginTypes, PluginRows, Plug!Statuses
  <2>2. QED  BY <1>1, <2>1 DEF PluginTypes, PluginRows
<1>3. CASE /\ plugin' = marked /\ requests' = [requests EXCEPT ![i].plan = Tail(requests[i].plan), ![i].hook = 0]
           /\ UNCHANGED <<health, adrift>>
  <2>1. requests'[i].hook = 0 /\ \A j \in k.calls \ {i} : requests'[j] = requests[j]
    BY <1>3 DEF PluginTypes, RequestsOK, PluginRequests
  <2>2. QED
    <3> HIDE DEF marked, d
    <3>1. d = Plug(k)!Loading(i)
      BY DEF d
    <3>2. QED  BY <1>1, <1>2, <1>3, <2>1, <3>1, KeptDone
<1>4. CASE Plug(k)!PlanFails(marked, p, e) /\ requests' = [requests EXCEPT ![i] = Plug(k)!Idle]
  <2>1. requests'[i].hook = 0 /\ \A j \in k.calls \ {i} : requests'[j] = requests[j]
    BY <1>4, IdleRests DEF PluginTypes, RequestsOK
  <2>2. /\ \A q \in k.plugins \ {p, e} : plugin'[q] = marked[q]
        /\ plugin'[e].status # "running"
        /\ plugin'[p] = marked[p] \/ plugin'[p].status # "running"
        /\ \A q \in {p, e} : q \in adrift' \/ (alive'[q] = {} /\ q \notin loaded)
        /\ adrift \subseteq adrift'
    <3> HIDE DEF marked, p, e
    <3>1. QED  BY <1>1, <1>2, <1>4, PlanFailsRows
  <2>3. alive'[d] # {}
    BY <1>1 DEF Plug!LoadDone, Plug!ActivatesNext, PluginTypes
  <2>4. plugin'[d].status = "running" \/ d \in adrift'
    <3> HIDE DEF marked, p, e, d
    <3>1. QED  BY <1>1, <1>2, <2>2, <2>3
  <2>5. \A q \in k.plugins \ {d} :
          \/ plugin'[q] = plugin[q]
          \/ plugin'[q].status # "running" /\ (q \in adrift' \/ (alive'[q] = {} /\ q \notin loaded))
    <3> HIDE DEF marked, p, e, d
    <3>1. QED  BY <1>2, <2>2
  <2>6. QED
    <3> HIDE DEF marked, p, e, d
    <3>1. d = Plug(k)!Loading(i)
      BY DEF d
    <3>2. QED  BY <1>1, <2>1, <2>2, <2>4, <2>5, <3>1, KeptDone
<1>5. QED  BY <1>3, <1>4 DEF Plug!LoadContinues

\* A hook of a load or of an unload returns, and others follow.
LEMMA KeptActivates ==
    ASSUME NEW CONSTANT k, Plug(k)!PluginConstants, PluginTypes(k), KeptInv(k),
           NEW i \in k.calls, Plug(k)!Activates(i)
    PROVE  KeptInv(k)'
<1>d. PICK d, h : d = Plug(k)!Loading(i) /\ h = requests[i].hook
  OBVIOUS
<1>1. /\ d \in k.plugins /\ requests[i].await = "load" /\ d = Head(requests[i].plan)
      /\ h \in 0..k.kinds - 1 /\ h # k.kinds - 1 /\ k.kinds \in Nat \ {0}
  BY <1>d, LoadTypes, HookTypes DEF Plug!Activates, Plug!Loading, Plug!AtLastHook
<1>2. /\ alive' = [alive EXCEPT ![d] = @ \cup {h + 1}] /\ UNCHANGED <<plugin, loaded, restarts, adrift>>
      /\ requests' = [requests EXCEPT ![i].hook = @ + 1]
  BY <1>d DEF Plug!Activates, Plug!ActivatesNext
<1>3. /\ \A j \in k.calls \ {i} : requests'[j] = requests[j]
      /\ requests'[i] = [requests[i] EXCEPT !.hook = h + 1]
  BY <1>d, <1>2 DEF PluginTypes, RequestsOK
<1>4. /\ requests'[i].await = requests[i].await /\ requests'[i].plan = requests[i].plan
      /\ requests'[i].p = requests[i].p /\ requests'[i].hook = h + 1
  BY <1>3 DEF PluginTypes, RequestsOK, PluginRequests
<1>5. ASSUME NEW q \in k.plugins, q # d PROVE KeptAt(k, q)'
  <2>1. ~Loads(requests[i], q) /\ ~Unloads(requests[i], q) /\ ~Loads(requests'[i], q)
    BY <1>1, <1>4, <1>5 DEF Loads, Unloads
  <2>2. alive'[q] = alive[q]
    BY <1>2, <1>5 DEF PluginTypes
  <2>3. QED  BY <1>2, <1>3, <1>5, <2>1, <2>2, KeptElse DEF KeptInv
<1>6. KeptAt(k, d)'
  <2>1. Loads(requests'[i], d)
    BY <1>1, <1>4 DEF Loads
  <2>2. alive'[d] = alive[d] \cup {h + 1} /\ alive[d] \subseteq 1..k.kinds /\ h + 1 \in 1..k.kinds
    BY <1>1, <1>2 DEF PluginTypes
  <2>3. plugin[d].status = "running" /\ restarts = 0 =>
          \/ d \in loaded /\ alive'[d] = 1..k.kinds
          \/ \E j \in k.calls : Unloads(requests'[j], d)
          \/ d \in adrift
    <3>1. \A j \in k.calls : Unloads(requests[j], d) => Unloads(requests'[j], d)
      BY <1>3, <1>4 DEF Unloads
    <3>2. alive[d] = 1..k.kinds => alive'[d] = 1..k.kinds
      BY <2>2
    <3>3. QED  BY <1>1, <3>1, <3>2 DEF KeptInv, KeptAt
  <2>4. \A j \in k.calls : Loads(requests'[j], d) /\ d \notin adrift => 1..requests'[j].hook \subseteq alive'[d]
    <3>1. d \notin adrift => 1..h \subseteq alive[d]
      BY <1>d, <1>1 DEF KeptInv, KeptAt, Loads
    <3>2. d \notin adrift => 1..(h + 1) \subseteq alive'[d]
      BY <1>1, <2>2, <3>1
    <3>3. \A j \in k.calls \ {i} : Loads(requests'[j], d) /\ d \notin adrift => 1..requests'[j].hook \subseteq alive[d]
      BY <1>1, <1>3 DEF KeptInv, KeptAt
    <3>4. QED  BY <1>4, <2>2, <3>2, <3>3
  <2>5. QED  BY <1>2, <2>1, <2>3, <2>4 DEF KeptAt
<1>7. QED  BY <1>5, <1>6 DEF KeptInv

LEMMA KeptDeactivates ==
    ASSUME NEW CONSTANT k, Plug(k)!PluginConstants, PluginTypes(k), KeptInv(k),
           NEW i \in k.calls, Plug(k)!Deactivates(i)
    PROVE  KeptInv(k)'
<1>p. PICK p, m : p = requests[i].p /\ m = k.kinds - requests[i].hook
  OBVIOUS
<1>1. /\ p \in k.plugins /\ requests[i].await = "unload" /\ UNCHANGED <<plugin, loaded, restarts>>
      /\ alive' = [alive EXCEPT ![p] = @ \ {m}]
      /\ requests' = [requests EXCEPT ![i].hook = @ + 1]
      /\ adrift' = IF Plug(k)!BeingLoaded(p) THEN adrift \cup {p} ELSE adrift
  BY <1>p, LoadTypes DEF Plug!Deactivates, Plug!DeactivatesNext
<1>2. /\ \A j \in k.calls \ {i} : requests'[j] = requests[j]
      /\ requests'[i].await = "unload" /\ requests'[i].p = p
  BY <1>p, <1>1 DEF PluginTypes, RequestsOK, PluginRequests
<1>3. ASSUME NEW q \in k.plugins, q # p PROVE KeptAt(k, q)'
  <2>1. ~Loads(requests[i], q) /\ ~Unloads(requests[i], q) /\ ~Loads(requests'[i], q)
    BY <1>p, <1>1, <1>2, <1>3 DEF Loads, Unloads
  <2>2. alive'[q] = alive[q] /\ (q \in adrift => q \in adrift')
    BY <1>1, <1>3 DEF PluginTypes
  <2>3. QED  BY <1>1, <1>2, <1>3, <2>1, <2>2, KeptElse DEF KeptInv
<1>4. KeptAt(k, p)'
  <2>1. CASE p \in adrift'
    BY <2>1, KeptAdrift
  <2>2. CASE p \notin adrift'
    <3>1. ~Plug(k)!BeingLoaded(p) /\ p \notin adrift
      BY <1>1, <2>2
    <3>2. \A j \in k.calls : ~Loads(requests'[j], p)
      BY <1>2, <3>1 DEF Plug!BeingLoaded, Plug!Loading, Loads
    <3>3. Unloads(requests'[i], p)
      BY <1>2 DEF Unloads
    <3>4. alive'[p] # {} => alive[p] # {}
      BY <1>1 DEF PluginTypes
    <3>5. alive'[p] # {} => p \in loaded
      BY <1>1, <3>1, <3>4 DEF KeptInv, KeptAt, Plug!BeingLoaded, Plug!Loading, Loads
    <3>6. QED  BY <1>1, <3>2, <3>3, <3>5 DEF KeptAt
  <2>3. QED  BY <2>1, <2>2
<1>5. QED  BY <1>3, <1>4 DEF KeptInv

\* An unload is done, or has thrown.
LEMMA KeptUnload ==
    ASSUME NEW CONSTANT k, Plug(k)!PluginConstants, PluginTypes(k), KeptInv(k),
           NEW i \in k.calls, Plug(k)!Deactivated(i),
           requests' = [requests EXCEPT ![i] = Plug(k)!Idle],
           plugin'[requests[i].p].status # "running",
           \A q \in k.plugins \ {requests[i].p} : plugin'[q] = plugin[q]
    PROVE  KeptInv(k)'
<1>p. PICK p : p = requests[i].p
  OBVIOUS
<1>1. /\ p \in k.plugins /\ requests[i].await = "unload" /\ restarts' = restarts /\ loaded' = loaded \ {p}
      /\ adrift' = IF alive'[p] = {} /\ ~Plug(k)!BeingLoaded(p) THEN adrift \ {p} ELSE adrift \cup {p}
      /\ \A q \in k.plugins \ {p} : alive'[q] = alive[q]
  BY <1>p, LoadTypes DEF Plug!Deactivated, Plug!DeactivatesNext, PluginTypes
<1>2. requests'[i] = Plug(k)!Idle /\ \A j \in k.calls \ {i} : requests'[j] = requests[j]
  BY DEF PluginTypes, RequestsOK
<1>3. ASSUME NEW q \in k.plugins, q # p PROVE KeptAt(k, q)'
  <2>1. ~Loads(requests[i], q) /\ ~Unloads(requests[i], q) /\ ~Loads(requests'[i], q)
    BY <1>p, <1>1, <1>2, <1>3, IdleRests DEF Loads, Unloads
  <2>2. (q \in adrift => q \in adrift') /\ (q \in loaded' <=> q \in loaded)
    BY <1>1, <1>3
  <2>3. QED  BY <1>p, <1>1, <1>2, <1>3, <2>1, <2>2, KeptElse DEF KeptInv
<1>4. KeptAt(k, p)'
  <2>1. CASE p \in adrift'
    BY <2>1, KeptAdrift
  <2>2. CASE p \notin adrift'
    <3>1. alive'[p] = {} /\ ~Plug(k)!BeingLoaded(p) /\ p \notin loaded'
      BY <1>1, <2>2
    <3>2. \A j \in k.calls : ~Loads(requests'[j], p)
      BY <1>2, <3>1, IdleRests DEF Plug!BeingLoaded, Plug!Loading, Loads
    <3>3. QED  BY <1>p, <3>1, <3>2, KeptOut DEF OffAt
  <2>3. QED  BY <2>1, <2>2
<1>5. QED  BY <1>3, <1>4 DEF KeptInv

LEMMA KeptUnloadThrows ==
    ASSUME NEW CONSTANT k, Plug(k)!PluginConstants, PluginTypes(k), KeptInv(k),
           NEW i \in k.calls, requests[i].await = "unload", adrift' = adrift \cup {requests[i].p},
           UNCHANGED <<loaded, alive, restarts>>,
           requests' = [requests EXCEPT ![i] = Plug(k)!Idle],
           \A q \in k.plugins \ {requests[i].p} : plugin'[q] = plugin[q]
    PROVE  KeptInv(k)'
<1>1. requests'[i] = Plug(k)!Idle /\ \A j \in k.calls \ {i} : requests'[j] = requests[j]
  BY DEF PluginTypes, RequestsOK
<1>2. ASSUME NEW q \in k.plugins, q # requests[i].p PROVE KeptAt(k, q)'
  <2>1. ~Loads(requests[i], q) /\ ~Unloads(requests[i], q) /\ ~Loads(requests'[i], q)
    BY <1>1, <1>2, IdleRests DEF Loads, Unloads
  <2>2. QED  BY <1>1, <1>2, <2>1, KeptElse DEF KeptInv
<1>3. QED  BY <1>2, KeptAdrift DEF KeptInv

LEMMA KeptStartUnload ==
    ASSUME NEW CONSTANT k, Plug(k)!PluginConstants, PluginTypes(k), KeptInv(k),
           NEW i \in k.calls, requests[i] = Plug(k)!Idle, NEW c, requests' = [requests EXCEPT ![i] = c],
           c.await = "unload", UNCHANGED <<plugin, loaded, alive, restarts, adrift>>
    PROVE  KeptInv(k)'
<1>1. requests'[i] = c /\ \A j \in k.calls \ {i} : requests'[j] = requests[j]
  BY DEF PluginTypes, RequestsOK
<1>2. \A q : ~Loads(requests[i], q) /\ ~Unloads(requests[i], q) /\ ~Loads(requests'[i], q)
  BY <1>1, IdleRests DEF Loads
<1>3. ASSUME NEW q \in k.plugins PROVE KeptAt(k, q)'
  BY <1>1, <1>2, <1>3, KeptElse DEF KeptInv
<1>4. QED  BY <1>3 DEF KeptInv

\* A request that awaits nothing marks plugin p as not running, which was
\* not, or changes no row.
LEMMA KeptAtOnce ==
    ASSUME NEW CONSTANT k, PluginTypes(k), KeptInv(k), NEW p,
           UNCHANGED <<loaded, alive, restarts, adrift, requests>>,
           ~(plugin[p].status = "running" /\ p \in loaded), plugin'[p].status # "running",
           \A q \in k.plugins \ {p} : plugin'[q] = plugin[q]
    PROVE  KeptInv(k)'
<1>1. ASSUME NEW q \in k.plugins, q # p PROVE KeptAt(k, q)'
  BY <1>1, KeptElse DEF KeptInv
<1>2. ASSUME p \in k.plugins PROVE KeptAt(k, p)'
  BY <1>2, KeptOff DEF KeptInv
<1>3. QED  BY <1>1, <1>2 DEF KeptInv

LEMMA KeptUnloadEnds ==
    ASSUME NEW CONSTANT k, Plug(k)!PluginConstants, PluginTypes(k), KeptInv(k),
           NEW i \in k.calls, Plug(k)!Unloaded(i) \/ Plug(k)!UnloadThrows(i),
           requests' = [requests EXCEPT ![i] = Plug(k)!Idle]
    PROVE  KeptInv(k)'
<1>1. requests[i].p \in k.plugins
  BY LoadTypes
<1>2. CASE Plug(k)!Unloaded(i)
  <2>1. \A r : Plug(k)!Set(r, "disabled", FALSE).status # "running"
    BY DEF Plug!Set, Plug!Absent
  <2>2. /\ Plug(k)!Deactivated(i)
        /\ plugin' = [plugin EXCEPT ![requests[i].p] = Plug(k)!Set(@, "disabled", FALSE)]
    BY <1>2 DEF Plug!Unloaded
  <2>3. plugin'[requests[i].p].status # "running" /\ \A q \in k.plugins \ {requests[i].p} : plugin'[q] = plugin[q]
    BY <1>1, <2>1, <2>2 DEF PluginTypes
  <2>4. QED  BY <2>2, <2>3, KeptUnload
<1>3. CASE Plug(k)!UnloadThrows(i)
  <2>1. \A q \in k.plugins \ {requests[i].p} : plugin'[q] = plugin[q]
    BY <1>1, <1>3 DEF Plug!UnloadThrows, PluginTypes
  <2>2. QED  BY <1>3, <2>1, KeptUnloadThrows DEF Plug!UnloadThrows
<1>4. QED  BY <1>2, <1>3

LEMMA KeptStep ==
    ASSUME NEW CONSTANT k, Plug(k)!PluginConstants, PluginTypes(k), KeptInv(k), [Plug(k)!PluginNext]_(Plug(k)!pvars)
    PROVE  KeptInv(k)'
<1>1. ASSUME NEW p \in k.plugins, Plug(k)!installPlugin(p) PROVE KeptInv(k)'
  <2>1. plugin[p].status # "running" /\ plugin' = [plugin EXCEPT ![p] = [status |-> "installed", enabled |-> FALSE]]
    BY <1>1 DEF Plug!installPlugin, Plug!Absent
  <2>2. plugin'[p].status # "running" /\ \A q \in k.plugins \ {p} : plugin'[q] = plugin[q]
    BY <2>1 DEF PluginTypes
  <2>3. QED  BY <1>1, <2>1, <2>2, KeptAtOnce DEF Plug!installPlugin
<1>2. ASSUME NEW p \in k.plugins, Plug(k)!enableRefused(p) PROVE KeptInv(k)'
  <2> DEFINE marked == [plugin EXCEPT ![p] = [status |-> "enabled", enabled |-> TRUE]]
  <2>d. PICK d \in k.plugins : d = Head(k.order[p])
    <3>1. \A s \in Seq(k.plugins) : s # <<>> => Head(s) \in k.plugins
      BY EmptySeq
    <3>2. QED  BY <3>1 DEF Plug!PluginConstants
  <2>1. /\ plugin[p].status # "running" /\ Plug(k)!PlanFails(marked, p, d)
        /\ UNCHANGED <<loaded, alive, restarts, requests>>
    BY <1>2, <2>d DEF Plug!enableRefused, Plug!MayEnable
  <2>2. /\ marked \in [k.plugins -> PluginRows(k)] /\ marked[p].status # "running"
        /\ \A q \in k.plugins \ {p} : marked[q] = plugin[q]
    <3>1. [status |-> "enabled", enabled |-> TRUE] \in PluginRows(k)
      BY DEF PluginRows, Plug!Statuses
    <3>2. QED  BY <3>1 DEF PluginTypes
  <2>3. /\ \A q \in k.plugins \ {p, d} : plugin'[q] = marked[q]
        /\ plugin'[d].status # "running"
        /\ plugin'[p] = marked[p] \/ plugin'[p].status # "running"
        /\ \A q \in {p, d} : q \in adrift' \/ (alive'[q] = {} /\ q \notin loaded)
        /\ adrift \subseteq adrift'
    <3> HIDE DEF marked
    <3>1. QED  BY <2>1, <2>2, PlanFailsRows
  <2>4. ASSUME NEW q \in {p, d} PROVE KeptAt(k, q)'
    <3>1. plugin'[q].status # "running"
      <4> HIDE DEF marked
      <4>1. QED  BY <2>2, <2>3
    <3>2. OffAt(q)' \/ q \in adrift'
      BY <2>1, <2>3 DEF OffAt
    <3>3. QED  BY <2>1, <2>3, <3>1, <3>2, KeptFailed DEF KeptInv
  <2>5. ASSUME NEW q \in k.plugins \ {p, d} PROVE KeptAt(k, q)'
    <3>1. plugin'[q] = plugin[q]
      <4> HIDE DEF marked
      <4>1. QED  BY <2>2, <2>3
    <3>2. QED  BY <2>1, <2>3, <3>1, KeptElse DEF KeptInv
  <2>6. QED  BY <2>4, <2>5 DEF KeptInv
<1>3. ASSUME NEW p \in k.plugins, Plug(k)!disableAtOnce(p) PROVE KeptInv(k)'
  <2>1. plugin'[p].status # "running" /\ \A q \in k.plugins \ {p} : plugin'[q] = plugin[q]
    BY <1>3 DEF Plug!disableAtOnce, PluginTypes
  <2>2. QED  BY <1>3, <2>1, KeptAtOnce DEF Plug!disableAtOnce, Plug!MustUnload
<1>4. ASSUME NEW p \in k.plugins, NEW force \in BOOLEAN, Plug(k)!uninstallAtOnce(p, force)
      PROVE  KeptInv(k)'
  <2>1. plugin'[p].status # "running" /\ \A q \in k.plugins \ {p} : plugin'[q] = plugin[q]
    BY <1>4 DEF Plug!uninstallAtOnce, PluginTypes, Plug!Absent
  <2>2. QED  BY <1>4, <2>1, KeptAtOnce DEF Plug!uninstallAtOnce, Plug!MustUnload
<1>5. ASSUME NEW i \in k.calls, NEW p \in k.plugins, Plug(k)!enablePlugin(i, p) PROVE KeptInv(k)'
  BY <1>5, KeptStartEnable DEF Plug!enablePlugin
<1>6. ASSUME NEW i \in k.calls, NEW p \in k.plugins,
             Plug(k)!StartUnload(i, p, "disable") \/ Plug(k)!StartUnload(i, p, "uninstall")
      PROVE  KeptInv(k)'
  <2>1. ASSUME NEW op, Plug(k)!StartUnload(i, p, op) PROVE KeptInv(k)'
    <3>1. PICK c : c = [Plug(k)!Idle EXCEPT !.op = op, !.p = p, !.await = "unload"]
      OBVIOUS
    <3>2. c.await = "unload"
      BY <3>1 DEF Plug!Idle
    <3>3. QED  BY <2>1, <3>1, <3>2, KeptStartUnload DEF Plug!StartUnload
  <2>2. QED  BY <1>6, <2>1
<1>7. ASSUME NEW i \in k.calls, Plug(k)!LoadContinues(i) PROVE KeptInv(k)'
  BY <1>7, KeptContinues
<1>8. ASSUME NEW i \in k.calls, Plug(k)!Activates(i) \/ Plug(k)!Deactivates(i) PROVE KeptInv(k)'
  BY <1>8, KeptActivates, KeptDeactivates
<1>9. ASSUME NEW i \in k.calls, Plug(k)!disableEnds(i) PROVE KeptInv(k)'
  BY <1>9, KeptUnloadEnds DEF Plug!disableEnds
<1>10. ASSUME NEW i \in k.calls, Plug(k)!uninstallEnds(i) PROVE KeptInv(k)'
  <2>1. requests' = [requests EXCEPT ![i] = Plug(k)!Idle] /\ requests[i].p \in k.plugins
    BY <1>10, LoadTypes DEF Plug!uninstallEnds
  <2>2. CASE Plug(k)!UnloadThrows(i)
    BY <2>1, <2>2, KeptUnloadEnds
  <2>3. CASE Plug(k)!Deactivated(i) /\ plugin' = [plugin EXCEPT ![requests[i].p] = Plug(k)!Absent]
    <3>1. plugin'[requests[i].p].status # "running" /\ \A q \in k.plugins \ {requests[i].p} : plugin'[q] = plugin[q]
      BY <2>1, <2>3 DEF PluginTypes, Plug!Absent
    <3>2. QED  BY <2>1, <2>3, <3>1, KeptUnload
  <2>4. QED  BY <1>10, <2>2, <2>3 DEF Plug!uninstallEnds
<1>11. ASSUME NEW i \in k.calls, NEW ok \in BOOLEAN, Plug(k)!enableEnds(i, ok) PROVE KeptInv(k)'
  <2>1. requests' = [requests EXCEPT ![i] = Plug(k)!Idle]
    BY <1>11 DEF Plug!enableEnds
  <2>2. CASE Plug(k)!LoadThrows(i, ok)
    BY <2>1, <2>2, KeptThrows
  <2>3. CASE Plug(k)!Loaded(i)
    <3>1. requests'[i].hook = 0 /\ \A j \in k.calls \ {i} : requests'[j] = requests[j]
      BY <2>1, IdleRests DEF PluginTypes, RequestsOK
    <3>2. QED  BY <2>3, <3>1, KeptLoaded
  <2>4. QED  BY <1>11, <2>2, <2>3 DEF Plug!enableEnds
<1>12. CASE Plug(k)!Restart
  BY <1>12, KeptDies DEF Plug!Restart
<1>13. CASE UNCHANGED Plug(k)!pvars
  BY <1>13 DEF Plug!pvars, KeptInv, KeptAt, OffAt
<1>14. QED  BY <1>1, <1>2, <1>3, <1>4, <1>5, <1>6, <1>7, <1>8, <1>9, <1>10, <1>11, <1>12, <1>13
            DEF Plug!PluginNext, Plug!Requests

LEMMA KeptInit ==
    ASSUME NEW CONSTANT k, NEW S, Plug(k)!PluginInit(S)
    PROVE  KeptInv(k)
  BY IdleRests DEF Plug!PluginInit, KeptInv, KeptAt, OffAt

LEMMA PluginLives ==
    ASSUME NEW CONSTANT k
    PROVE  Plug(k)!NoLife \in Plug(k)!Lives /\ Plug(k)!Active \in Plug(k)!Lives
  BY DEF Plug!NoLife, Plug!Active, Plug!Lives

\* Whatever requests overlap, the types and what is kept of a plugin stay.
LEMMA KeptAlways ==
    ASSUME NEW CONSTANT k, Plug(k)!PluginConstants
    PROVE  Plug(k)!PluginSpec => [](PluginTypes(k) /\ KeptInv(k))
<1>1. Plug(k)!PluginInit({Plug(k)!NoLife, Plug(k)!Active}) => PluginTypes(k) /\ KeptInv(k)
  BY PluginTypesInit, PluginLives, KeptInit
<1>2. PluginTypes(k) /\ KeptInv(k) /\ [Plug(k)!PluginNext]_(Plug(k)!pvars) => PluginTypes(k)' /\ KeptInv(k)'
  BY PluginTypesStep, KeptStep
<1>3. QED  BY <1>1, <1>2, PTL DEF Plug!PluginSpec

\* enablePlugin, disablePlugin, uninstallPlugin and the loader: in the process
\* that loaded it, a plugin whose row says running has every module activated
\* and is in the loader's map, with any number of requests in flight and any
\* hook failing, unless it is being unloaded or an operation on it failed or
\* crossed another.
THEOREM RunningIsLoadedHolds ==
    ASSUME NEW CONSTANT k, Plug(k)!PluginConstants
    PROVE  Plug(k)!PluginSpec => []Plug(k)!RunningIsLoaded
<1>1. PluginTypes(k) /\ KeptInv(k) => Plug(k)!RunningIsLoaded
  BY KeptImplies
<1>2. QED  BY <1>1, KeptAlways, PTL

\* The loader: no module is activated that it could not deactivate again,
\* whatever load, hook or dependency fails, whatever requests overlap and
\* however often the process restarts, with the same exception.
THEOREM TrackedHolds ==
    ASSUME NEW CONSTANT k, Plug(k)!PluginConstants
    PROVE  Plug(k)!PluginSpec => []Plug(k)!Tracked
<1>1. PluginTypes(k) /\ KeptInv(k) => Plug(k)!Tracked
  BY KeptImplies
<1>2. QED  BY <1>1, KeptAlways, PTL

\* disablePlugin, uninstallPlugin and a failed enable: a plugin that is not
\* running has no module activated, whatever requests overlap, unless a load
\* or unload of it is under way, or one failed or crossed another.
THEOREM OffIsOffHolds ==
    ASSUME NEW CONSTANT k, Plug(k)!PluginConstants
    PROVE  Plug(k)!PluginSpec => []Plug(k)!OffIsOff
<1>1. PluginTypes(k) /\ KeptInv(k) => Plug(k)!OffIsOff
  BY KeptImplies
<1>2. QED  BY <1>1, KeptAlways, PTL

-----------------------------------------------------------------------------
(* The types of the plugin lifecycle                                       *)

\* A snapshot is of a plugin that was off.
OffRows(k) == {r \in PluginRows(k) : r.status \notin {"enabled", "running"}}
Snaps(k) == [row : OffRows(k), life : Plug(k)!Lives]
UpgradeTypes(k) ==
    /\ PluginTypes(k)
    /\ filed \in [k.plugins -> [shadow : BOOLEAN, promoted : BOOLEAN]]
    /\ snap \in [k.plugins -> Snaps(k)]
    /\ windows \in 0..k.maxShadows
    /\ tried \in [1..k.maxShadows -> SUBSET BOOLEAN]

LEMMA UpgradeTypesImply ==
    ASSUME NEW CONSTANT k, UpgradeTypes(k), mixed \subseteq 0..k.maxShadows
    PROVE  Plug(k)!TypeOK
<1>1. snap \in [k.plugins -> [row : [status : Plug(k)!Statuses, enabled : BOOLEAN], life : Plug(k)!Lives]]
  BY DEF UpgradeTypes, Snaps, OffRows, PluginRows
<1>2. QED  BY <1>1, PluginTypesImply DEF UpgradeTypes, Plug!TypeOK

LEMMA UpgradeTypesInit ==
    ASSUME NEW CONSTANT k, Plug(k)!UpgradeConstants, Plug(k)!Init
    PROVE  UpgradeTypes(k)
<1>1. PluginTypes(k)
  BY PluginTypesInit, PluginLives DEF Plug!Init, Plug!UpgradeConstants
<1>2. Plug(k)!NoSnap \in Snaps(k)
  BY DEF Plug!NoSnap, Snaps, OffRows, PluginRows, Plug!Statuses, Plug!Absent, Plug!NoLife, Plug!Lives
<1>3. QED  BY <1>1, <1>2 DEF Plug!Init, UpgradeTypes, Plug!UpgradeConstants

\* A chain of writes is cut or carried out, and the request is over.
LEMMA CutTypes ==
    ASSUME NEW CONSTANT k, Plug(k)!PluginConstants, PluginTypes(k), NEW m, NEW n, NEW i \in k.calls
    PROVE  /\ Plug(k)!Cut(m, n) =>
                /\ loaded' \subseteq k.plugins /\ adrift' \subseteq k.plugins
                /\ alive' \in [k.plugins -> SUBSET (1..k.kinds)]
                /\ health' \in [k.plugins -> Healths(k)] /\ restarts' \in 0..k.maxRestarts
           /\ Plug(k)!CallsAfter(m, n, i) => RequestsOK(k)'
<1>1. Plug(k)!Fresh \in Healths(k)
  BY DEF Healths, Plug!Fresh, Plug!PluginConstants
<1>2. Plug(k)!Cut(m, n) => restarts' \in 0..k.maxRestarts
  BY DEF Plug!Cut, Plug!Dies, PluginTypes, Plug!PluginConstants
<1>3. Plug(k)!CallsAfter(m, n, i) => RequestsOK(k)'
  BY IdleRequest DEF Plug!CallsAfter, RequestsOK, PluginTypes
<1>4. QED  BY <1>1, <1>2, <1>3 DEF Plug!Cut, Plug!Dies, PluginTypes

LEMMA FiledTypes ==
    ASSUME NEW CONSTANT k, UpgradeTypes(k), NEW i \in k.calls, NEW ok \in BOOLEAN
    PROVE  /\ Plug(k)!Noted(i, ok) => tried' \in [1..k.maxShadows -> SUBSET BOOLEAN]
           /\ Plug(k)!FiledFailure(requests[i].p) => life' \in [k.plugins -> Plug(k)!Lives]
<1>1. life \in [k.plugins -> Plug(k)!Lives] /\ tried \in [1..k.maxShadows -> SUBSET BOOLEAN]
  BY DEF UpgradeTypes, PluginTypes
<1>2. \A q \in k.plugins :
        [life[q] EXCEPT !.channel = "canary", !.compat = "adaptation_required", !.bad = TRUE] \in Plug(k)!Lives
  BY <1>1 DEF Plug!Lives
<1>3. Plug(k)!FiledFailure(requests[i].p) => life' \in [k.plugins -> Plug(k)!Lives]
  <2> DEFINE q == requests[i].p
             l == [life[q] EXCEPT !.channel = "canary", !.compat = "adaptation_required", !.bad = TRUE]
  <2>1. Plug(k)!FiledFailure(q) => life' = life \/ life' = [life EXCEPT ![q] = l]
    BY DEF Plug!FiledFailure
  <2>2. q \in k.plugins => l \in Plug(k)!Lives
    BY <1>2
  <2> HIDE DEF q, l
  <2>3. Plug(k)!FiledFailure(q) => life' \in [k.plugins -> Plug(k)!Lives]
    BY <1>1, <2>1, <2>2
  <2>4. QED  BY <2>3 DEF q
<1>4. \A w : [tried EXCEPT ![w] = @ \cup {ok}] \in [1..k.maxShadows -> SUBSET BOOLEAN]
  <2> DEFINE B == SUBSET BOOLEAN
  <2>1. \A S \in B : S \cup {ok} \in B
    OBVIOUS
  <2> HIDE DEF B
  <2>2. tried \in [1..k.maxShadows -> B]
    BY <1>1 DEF B
  <2>3. \A w : [tried EXCEPT ![w] = @ \cup {ok}] \in [1..k.maxShadows -> B]
    BY <2>1, <2>2
  <2>4. QED  BY <2>3 DEF B
<1>5. Plug(k)!Noted(i, ok) => tried' \in [1..k.maxShadows -> SUBSET BOOLEAN]
  BY <1>1, <1>4 DEF Plug!Noted
<1>6. QED  BY <1>3, <1>5

LEMMA UpgradeTypesStep ==
    ASSUME NEW CONSTANT k, Plug(k)!UpgradeConstants, UpgradeTypes(k), [Plug(k)!Next]_(Plug(k)!vars)
    PROVE  UpgradeTypes(k)'
<1>c. Plug(k)!PluginConstants /\ k.maxShadows \in Nat /\ PluginTypes(k)
  BY DEF Plug!UpgradeConstants, UpgradeTypes
<1>t. /\ plugin \in [k.plugins -> PluginRows(k)] /\ life \in [k.plugins -> Plug(k)!Lives]
      /\ loaded \subseteq k.plugins /\ adrift \subseteq k.plugins /\ alive \in [k.plugins -> SUBSET (1..k.kinds)]
      /\ health \in [k.plugins -> Healths(k)] /\ requests \in [k.calls -> PluginRequests(k)]
      /\ \A i \in k.calls : RequestOK(requests[i]) /\ requests[i].p \in k.plugins
                            /\ requests[i].life \in Plug(k)!Lives /\ requests[i].row \in PluginRows(k)
      /\ restarts \in 0..k.maxRestarts /\ snap \in [k.plugins -> Snaps(k)]
      /\ Plug(k)!Fresh \in Healths(k)
  <2>1. Plug(k)!Fresh \in Healths(k)
    BY <1>c DEF Healths, Plug!Fresh, Plug!PluginConstants
  <2>2. requests \in [k.calls -> PluginRequests(k)] /\ \A i \in k.calls : RequestOK(requests[i])
    BY <1>c DEF PluginTypes, RequestsOK
  <2>3. \A i \in k.calls : /\ requests[i].p \in k.plugins /\ requests[i].life \in Plug(k)!Lives
                           /\ requests[i].row \in PluginRows(k)
    BY <2>2 DEF PluginRequests
  <2>4. QED  BY <1>c, <2>1, <2>2, <2>3 DEF PluginTypes, UpgradeTypes
<1>u. ASSUME UNCHANGED Plug(k)!uvars, PluginTypes(k)' PROVE UpgradeTypes(k)'
  BY <1>u DEF Plug!uvars, UpgradeTypes
<1>i. ASSUME NEW i \in k.calls, requests' = [requests EXCEPT ![i] = Plug(k)!Idle] PROVE RequestsOK(k)'
  BY <1>i, <1>c, IdleRequest, RequestTypes DEF PluginTypes
<1>1. CASE Plug(k)!PluginNext /\ UNCHANGED Plug(k)!uvars
  BY <1>1, <1>c, <1>u, PluginTypesStep
<1>2. ASSUME NEW p \in k.plugins, NEW i \in k.calls, NEW n \in 1..3, Plug(k)!registerShadowVersion(p, i, n)
      PROVE  UpgradeTypes(k)'
  <2>1. /\ loaded' \subseteq k.plugins /\ adrift' \subseteq k.plugins /\ alive' \in [k.plugins -> SUBSET (1..k.kinds)] /\ RequestsOK(k)'
        /\ health' \in [k.plugins -> Healths(k)] /\ restarts' \in 0..k.maxRestarts
    BY <1>2, <1>c, CutTypes DEF Plug!registerShadowVersion
  <2>2. windows' \in 0..k.maxShadows
    BY <1>2, <1>c DEF Plug!registerShadowVersion, UpgradeTypes
  <2>3. [Plug(k)!NoLife EXCEPT !.channel = "shadow", !.compat = "adaptation_required", !.window = windows']
          \in Plug(k)!Lives
    <3>1. windows' \in Nat
      BY <1>c, <2>2
    <3>2. \A w \in Nat : [Plug(k)!NoLife EXCEPT !.channel = "shadow", !.compat = "adaptation_required", !.window = w]
                           \in Plug(k)!Lives
      BY DEF Plug!NoLife, Plug!Lives
    <3>3. QED  BY <3>1, <3>2
  <2>4. life' \in [k.plugins -> Plug(k)!Lives]
    BY <1>2, <1>t, <2>3 DEF Plug!registerShadowVersion
  <2>5. snap' \in [k.plugins -> Snaps(k)]
    BY <1>2, <1>t DEF Plug!registerShadowVersion, Plug!Inactive, Snaps, OffRows
  <2>6. filed' \in [k.plugins -> [shadow : BOOLEAN, promoted : BOOLEAN]]
    BY <1>2 DEF Plug!registerShadowVersion, UpgradeTypes
  <2>7. plugin' = plugin /\ tried' = tried
    BY <1>2 DEF Plug!registerShadowVersion
  <2>8. QED  BY <1>t, <2>1, <2>2, <2>4, <2>5, <2>6, <2>7 DEF UpgradeTypes, PluginTypes
<1>3. ASSUME NEW i \in k.calls, NEW p \in k.plugins, Plug(k)!startCanary(i, p) \/ Plug(k)!startPromote(i, p)
      PROVE  UpgradeTypes(k)'
  BY <1>3, <1>c, <1>t, <1>u, StartEnableTypes DEF Plug!startCanary, Plug!startPromote, Plug!Ops
<1>r. ASSUME NEW p \in k.plugins, NEW r \in PluginRows(k), NEW l \in Plug(k)!Lives, Plug(k)!Restored(p, r, l),
             loaded' \subseteq k.plugins, adrift' \subseteq k.plugins,
             alive' \in [k.plugins -> SUBSET (1..k.kinds)], health' \in [k.plugins -> Healths(k)],
             RequestsOK(k)', restarts' = restarts
      PROVE  UpgradeTypes(k)'
  BY <1>r, <1>t DEF Plug!Restored, PluginTypes, UpgradeTypes
<1>l. ASSUME NEW p \in k.plugins PROVE snap[p].row \in OffRows(k) /\ Plug(k)!Target(p) \in Plug(k)!Lives
  <2>1. snap[p].row \in OffRows(k) /\ snap[p].life \in Plug(k)!Lives
    BY <1>t DEF Snaps
  <2>2. life[p].ok \in BOOLEAN /\ life[p].bad \in BOOLEAN
    BY <1>t DEF Plug!Lives
  <2>3. QED  BY <2>1, <2>2 DEF Plug!Target, Plug!Lives
<1>4. ASSUME NEW i \in k.calls, NEW p \in k.plugins, Plug(k)!rollbackAtOnce(i, p) PROVE UpgradeTypes(k)'
  <2>1. health' \in [k.plugins -> Healths(k)]
    BY <1>4, <1>t DEF Plug!rollbackAtOnce
  <2>2. /\ Plug(k)!Restored(p, snap[p].row, Plug(k)!Target(p)) /\ UNCHANGED <<loaded, alive, restarts, adrift>>
        /\ RequestsOK(k)'
    BY <1>4, <1>c DEF Plug!rollbackAtOnce, PluginTypes, RequestsOK
  <2>3. QED  BY <1>l, <1>r, <1>t, <2>1, <2>2 DEF OffRows
<1>5. ASSUME NEW i \in k.calls, NEW p \in k.plugins, Plug(k)!startRollback(i, p) PROVE UpgradeTypes(k)'
  <2> DEFINE c == [Plug(k)!Idle EXCEPT !.op = "rollback", !.p = p, !.await = "unload",
                                       !.row = snap[p].row, !.life = Plug(k)!Target(p)]
  <2>1. c \in PluginRequests(k) /\ RequestOK(c)
    BY <1>c, <1>l, IdleRequest DEF PluginRequests, RequestOK, OffRows, Plug!Ops, Plug!Idle
  <2>2. requests' = [requests EXCEPT ![i] = c]
    BY <1>5 DEF Plug!startRollback
  <2>3. RequestsOK(k)'
    <3> HIDE DEF c
    <3>1. QED  BY <1>c, <2>1, <2>2, RequestTypes DEF PluginTypes
  <2>4. QED  BY <1>5, <1>c, <1>u, <2>3 DEF Plug!startRollback, PluginTypes
<1>6. ASSUME NEW i \in k.calls, Plug(k)!rollbackEnds(i) PROVE UpgradeTypes(k)'
  <2>1. RequestsOK(k)' /\ requests[i].p \in k.plugins
    BY <1>6, <1>i, <1>t DEF Plug!rollbackEnds
  <2>2. CASE Plug(k)!Deactivated(i) /\ Plug(k)!Restored(requests[i].p, requests[i].row, requests[i].life)
             /\ health' = [health EXCEPT ![requests[i].p] = Plug(k)!Fresh]
    <3>1. loaded' \subseteq k.plugins /\ adrift' \subseteq k.plugins /\ alive' \in [k.plugins -> SUBSET (1..k.kinds)] /\ restarts' = restarts
      BY <2>2, <1>c, UnloadTypes
    <3>2. health' \in [k.plugins -> Healths(k)]
      BY <1>t, <2>2
    <3>3. QED  BY <1>r, <1>t, <2>1, <2>2, <3>1, <3>2
  <2>3. CASE (Plug(k)!Unloaded(i) \/ Plug(k)!UnloadThrows(i)) /\ UNCHANGED life /\ UNCHANGED Plug(k)!uvars
    BY <1>c, <1>t, <1>u, <2>1, <2>3, UnloadTypes DEF PluginTypes
  <2>4. QED  BY <1>6, <2>2, <2>3 DEF Plug!rollbackEnds
\* A canary is over, and what it found is filed.
<1>f. ASSUME NEW i \in k.calls, NEW ok \in BOOLEAN, Plug(k)!Noted(i, ok), UNCHANGED <<filed, snap, windows>>,
             PluginTypes(k)'
      PROVE  UpgradeTypes(k)'
  BY <1>f, FiledTypes DEF UpgradeTypes
<1>s. ASSUME NEW i \in k.calls, requests[i].op = "canary"
      PROVE  Plug(k)!Set(plugin[requests[i].p], requests[i].row.status, requests[i].row.enabled) \in PluginRows(k)
  <2>1. requests[i].row \in PluginRows(k) /\ requests[i].row.status # "absent"
    BY <1>s, <1>t DEF RequestOK
  <2>2. requests[i].row.status \in Plug(k)!Statuses \ {"absent"} /\ requests[i].row.enabled \in BOOLEAN
    BY <2>1 DEF PluginRows
  <2>3. QED  BY <1>t, <2>2, PlugRows
<1>h. \A i \in k.calls : Plug(k)!Failure(health[requests[i].p]) \in Healths(k)
  BY <1>c, <1>t, PlugHealth
<1>7. ASSUME NEW i \in k.calls, NEW ok \in BOOLEAN, Plug(k)!canaryFailsToStart(i, ok) PROVE UpgradeTypes(k)'
  <2>1. RequestsOK(k)' /\ Plug(k)!Noted(i, FALSE) /\ UNCHANGED <<filed, snap, windows, loaded, restarts>>
    BY <1>7, <1>i DEF Plug!canaryFailsToStart
  <2>2. plugin' \in [k.plugins -> PluginRows(k)]
    BY <1>7, <1>s, <1>t DEF Plug!canaryFailsToStart
  <2>3. life' \in [k.plugins -> Plug(k)!Lives]
    BY <1>7, FiledTypes DEF Plug!canaryFailsToStart
  <2>4. alive' \in [k.plugins -> SUBSET (1..k.kinds)] /\ adrift' \subseteq k.plugins /\ health' \in [k.plugins -> Healths(k)]
    BY <1>7, <1>c, <1>h, <1>t, HookTypes DEF Plug!canaryFailsToStart, Plug!LoadStops, Plug!LeftBehind
  <2>5. QED  BY <1>f, <1>t, <2>1, <2>2, <2>3, <2>4 DEF PluginTypes
<1>8. ASSUME NEW i \in k.calls, Plug(k)!canaryRuns(i) PROVE UpgradeTypes(k)'
  <2> DEFINE c == [requests[i] EXCEPT !.await = "unload", !.plan = <<>>, !.hook = 0]
  <2>1. c \in PluginRequests(k) /\ RequestOK(c)
    <3>1. requests[i] \in PluginRequests(k) /\ RequestOK(requests[i])
      BY <1>t
    <3>2. <<>> \in Seq(k.plugins)
      OBVIOUS
    <3>z. 0 \in 0..k.kinds - 1
      BY <1>c DEF Plug!PluginConstants
    <3>3. c \in PluginRequests(k)
      BY <3>1, <3>2, <3>z DEF PluginRequests
    <3>4. c.await = "unload" /\ c.op = requests[i].op /\ c.row = requests[i].row
      BY <3>1 DEF PluginRequests
    <3>5. QED  BY <3>1, <3>3, <3>4 DEF RequestOK
  <2>2. requests' = [requests EXCEPT ![i] = c]
    BY <1>8, <1>t DEF Plug!canaryRuns
  <2>3. RequestsOK(k)'
    <3> HIDE DEF c
    <3>1. QED  BY <1>c, <2>1, <2>2, RequestTypes DEF PluginTypes
  <2>4. QED  BY <1>8, <1>c, <1>t, <1>u, <2>3, LoadedTypes DEF Plug!canaryRuns, PluginTypes
<1>9. ASSUME NEW i \in k.calls, Plug(k)!canaryPasses(i) PROVE UpgradeTypes(k)'
  <2>1. /\ RequestsOK(k)' /\ Plug(k)!Noted(i, plugin[requests[i].p] # Plug(k)!Absent)
        /\ UNCHANGED <<filed, snap, windows>> /\ Plug(k)!Unloaded(i)
    BY <1>9, <1>i DEF Plug!canaryPasses
  <2>2. life' \in [k.plugins -> Plug(k)!Lives]
    <3> DEFINE l == [life[requests[i].p] EXCEPT !.channel = "canary", !.compat = "compatible", !.ok = TRUE]
    <3>1. l \in Plug(k)!Lives
      BY <1>t DEF Plug!Lives
    <3>2. life' = life \/ life' = [life EXCEPT ![requests[i].p] = l]
      BY <1>9 DEF Plug!canaryPasses
    <3> HIDE DEF l
    <3>3. QED  BY <1>t, <3>1, <3>2
  <2>3. PluginTypes(k)'
    BY <1>c, <2>1, <2>2, UnloadTypes DEF PluginTypes
  <2>4. (plugin[requests[i].p] # Plug(k)!Absent) \in BOOLEAN
    OBVIOUS
  <2>5. QED  BY <1>f, <2>1, <2>3, <2>4
<1>10. ASSUME NEW i \in k.calls, Plug(k)!canaryStays(i) PROVE UpgradeTypes(k)'
  <2>1. RequestsOK(k)' /\ Plug(k)!Noted(i, FALSE) /\ UNCHANGED <<filed, snap, windows, loaded, alive, restarts>>
    BY <1>10, <1>i DEF Plug!canaryStays
  <2>2. Plug(k)!Set(plugin[requests[i].p], "error", TRUE) \in PluginRows(k)
    BY <1>t, PlugRows DEF Plug!Statuses
  <2>3. plugin' \in [k.plugins -> PluginRows(k)]
    BY <1>10, <1>s, <1>t, <2>2 DEF Plug!canaryStays
  <2>4. life' \in [k.plugins -> Plug(k)!Lives]
    BY <1>10, FiledTypes DEF Plug!canaryStays
  <2>5. health' \in [k.plugins -> Healths(k)]
    BY <1>10, <1>h, <1>t DEF Plug!canaryStays
  <2>6. adrift' \subseteq k.plugins
    BY <1>10, <1>t DEF Plug!canaryStays
  <2>7. QED  BY <1>f, <1>t, <2>1, <2>3, <2>4, <2>5, <2>6 DEF PluginTypes
<1>11. ASSUME NEW i \in k.calls, NEW ok \in BOOLEAN, Plug(k)!promoteFails(i, ok) PROVE UpgradeTypes(k)'
  BY <1>11, <1>c, <1>u, LoadThrowsTypes DEF Plug!promoteFails
<1>12. ASSUME NEW i \in k.calls, NEW n \in 1..2, Plug(k)!promoteEnds(i, n) PROVE UpgradeTypes(k)'
  <2>1. life' \in [k.plugins -> Plug(k)!Lives]
    <3> DEFINE l == [requests[i].life EXCEPT !.channel = "active", !.compat = "compatible"]
    <3>1. l \in Plug(k)!Lives
      BY <1>t DEF Plug!Lives
    <3>2. life' = [life EXCEPT ![requests[i].p] = l]
      BY <1>12 DEF Plug!promoteEnds
    <3> HIDE DEF l
    <3>3. QED  BY <1>t, <3>1, <3>2
  <2>2. UNCHANGED <<snap, windows, tried>> /\ filed' \in [k.plugins -> [shadow : BOOLEAN, promoted : BOOLEAN]]
    <3>1. [filed EXCEPT ![requests[i].p].promoted = TRUE] \in [k.plugins -> [shadow : BOOLEAN, promoted : BOOLEAN]]
      BY DEF UpgradeTypes
    <3>2. filed' = filed \/ filed' = [filed EXCEPT ![requests[i].p].promoted = TRUE]
      BY <1>12 DEF Plug!promoteEnds
    <3>3. QED  BY <1>12, <3>1, <3>2 DEF Plug!promoteEnds, UpgradeTypes
  <2>3. CASE Plug(k)!Loaded(i) /\ requests' = [requests EXCEPT ![i] = Plug(k)!Idle]
    BY <1>c, <1>i, <1>t, <2>1, <2>2, <2>3, LoadedTypes DEF UpgradeTypes, PluginTypes
  <2>4. CASE /\ requests[i].await = "load" /\ plugin[requests[i].p].status = "enabled"
             /\ plugin' = [plugin EXCEPT ![requests[i].p].status = "running"]
             /\ Plug(k)!Cut(1, 2) /\ Plug(k)!CallsAfter(1, 2, i)
    <3>1. [plugin[requests[i].p] EXCEPT !.status = "running"] \in PluginRows(k)
      BY <1>t, <2>4 DEF PluginRows, Plug!Statuses
    <3>2. plugin' \in [k.plugins -> PluginRows(k)]
      BY <1>t, <2>4, <3>1
    <3>3. /\ loaded' \subseteq k.plugins /\ adrift' \subseteq k.plugins /\ alive' \in [k.plugins -> SUBSET (1..k.kinds)] /\ RequestsOK(k)'
          /\ health' \in [k.plugins -> Healths(k)] /\ restarts' \in 0..k.maxRestarts
      BY <1>c, <2>4, CutTypes
    <3>4. QED  BY <2>1, <2>2, <3>2, <3>3 DEF UpgradeTypes, PluginTypes
  <2>5. QED  BY <1>12, <2>3, <2>4 DEF Plug!promoteEnds
<1>13. CASE UNCHANGED Plug(k)!vars
  BY <1>13, <1>c, <1>u, PluginTypesStep DEF Plug!vars
<1>14. QED  BY <1>1, <1>2, <1>3, <1>4, <1>5, <1>6, <1>7, <1>8, <1>9, <1>10, <1>11, <1>12, <1>13
            DEF Plug!Next

-----------------------------------------------------------------------------
(* What is activated, when the lifecycle enables and disables plugins too  *)

\* Plugins have no dependencies here: a load has one plugin in its plan.
AloneInv(k) == \A i \in k.calls : requests[i].await = "load" => requests[i].plan = <<requests[i].p>>

LEMMA AloneLoads ==
    ASSUME NEW CONSTANT k, AloneInv(k), NEW i \in k.calls, requests[i].await = "load"
    PROVE  Plug(k)!Loading(i) = requests[i].p
  BY DEF AloneInv, Plug!Loading

LEMMA AloneInit == ASSUME NEW CONSTANT k, NEW S, Plug(k)!PluginInit(S) PROVE AloneInv(k)
  BY DEF Plug!PluginInit, AloneInv, Plug!Idle

LEMMA AloneStep ==
    ASSUME NEW CONSTANT k, Plug(k)!UpgradeConstants, UpgradeTypes(k), AloneInv(k), [Plug(k)!Next]_(Plug(k)!vars)
    PROVE  AloneInv(k)'
<1>t. /\ requests \in [k.calls -> PluginRequests(k)] /\ Plug(k)!Idle.await # "load"
      /\ \A p \in k.plugins : k.order[p] = <<p>>
  BY DEF UpgradeTypes, PluginTypes, RequestsOK, Plug!Idle, Plug!UpgradeConstants
<1>i. ASSUME NEW i \in k.calls, NEW c, requests' = [requests EXCEPT ![i] = c], c.await = "load" => c.plan = <<c.p>>
      PROVE  AloneInv(k)'
  BY <1>i, <1>t DEF AloneInv
<1>e. ASSUME NEW i \in k.calls, NEW p \in k.plugins, NEW op, NEW save, Plug(k)!StartEnable(i, p, op, save)
      PROVE  AloneInv(k)'
  <2>1. requests' = [requests EXCEPT ![i] = [op |-> op, p |-> p, await |-> "load", plan |-> <<p>>, hook |-> 0,
                                             row |-> plugin[p], life |-> save]]
    BY <1>e, <1>t DEF Plug!StartEnable
  <2>2. QED  BY <1>i, <2>1
<1>d. ASSUME requests' = [j \in k.calls |-> Plug(k)!Idle] PROVE AloneInv(k)'
  BY <1>d, <1>t DEF AloneInv
<1>z. ASSUME NEW i \in k.calls, requests' = [requests EXCEPT ![i] = Plug(k)!Idle] PROVE AloneInv(k)'
  BY <1>i, <1>t, <1>z
<1>u. ASSUME UNCHANGED requests PROVE AloneInv(k)'
  BY <1>u DEF AloneInv
<1>1. CASE Plug(k)!PluginNext
  <2>1. ASSUME NEW p \in k.plugins, NEW force \in BOOLEAN,
               \/ Plug(k)!installPlugin(p) \/ Plug(k)!enableRefused(p) \/ Plug(k)!disableAtOnce(p)
               \/ Plug(k)!uninstallAtOnce(p, force)
        PROVE  AloneInv(k)'
    BY <2>1, <1>u DEF Plug!installPlugin, Plug!enableRefused, Plug!disableAtOnce, Plug!uninstallAtOnce
  <2>2. ASSUME NEW i \in k.calls, NEW p \in k.plugins, Plug(k)!enablePlugin(i, p) PROVE AloneInv(k)'
    BY <2>2, <1>e DEF Plug!enablePlugin
  <2>3. ASSUME NEW i \in k.calls, NEW p \in k.plugins, NEW op, Plug(k)!StartUnload(i, p, op) PROVE AloneInv(k)'
    <3>1. [Plug(k)!Idle EXCEPT !.op = op, !.p = p, !.await = "unload"].await = "unload"
      BY DEF Plug!Idle
    <3>2. QED  BY <1>i, <2>3, <3>1 DEF Plug!StartUnload
  <2>4. ASSUME NEW i \in k.calls, Plug(k)!Activates(i) \/ Plug(k)!Deactivates(i) PROVE AloneInv(k)'
    <3>1. PICK h : h = requests[i].hook + 1
      OBVIOUS
    <3>2. requests' = [requests EXCEPT ![i] = [requests[i] EXCEPT !.hook = h]]
      BY <2>4, <3>1 DEF Plug!Activates, Plug!Deactivates
    <3>3. /\ [requests[i] EXCEPT !.hook = h].await = requests[i].await
          /\ [requests[i] EXCEPT !.hook = h].plan = requests[i].plan
          /\ [requests[i] EXCEPT !.hook = h].p = requests[i].p
      BY <1>t DEF PluginRequests
    <3>4. QED  BY <1>i, <3>2, <3>3 DEF AloneInv
  <2>5. ASSUME NEW i \in k.calls PROVE ~Plug(k)!LoadContinues(i)
    <3>1. \A x : Tail(<<x>>) = <<>>
      OBVIOUS
    <3>2. QED  BY <3>1 DEF AloneInv, Plug!LoadContinues, Plug!LoadDone
  <2>6. ASSUME NEW i \in k.calls, NEW ok \in BOOLEAN,
               Plug(k)!disableEnds(i) \/ Plug(k)!uninstallEnds(i) \/ Plug(k)!enableEnds(i, ok)
        PROVE  AloneInv(k)'
    BY <2>6, <1>z DEF Plug!disableEnds, Plug!uninstallEnds, Plug!enableEnds
  <2>7. CASE Plug(k)!Restart
    BY <2>7, <1>d DEF Plug!Restart
  <2>8. QED  BY <1>1, <2>1, <2>2, <2>3, <2>4, <2>5, <2>6, <2>7 DEF Plug!PluginNext, Plug!Requests
<1>2. ASSUME NEW p \in k.plugins, NEW i \in k.calls, NEW n \in 1..3, Plug(k)!registerShadowVersion(p, i, n)
      PROVE  AloneInv(k)'
  BY <1>2, <1>d, <1>z DEF Plug!registerShadowVersion, Plug!CallsAfter
<1>3. ASSUME NEW i \in k.calls, NEW p \in k.plugins, Plug(k)!startCanary(i, p) \/ Plug(k)!startPromote(i, p)
      PROVE  AloneInv(k)'
  BY <1>3, <1>e DEF Plug!startCanary, Plug!startPromote
<1>4. ASSUME NEW i \in k.calls, NEW p \in k.plugins, Plug(k)!rollbackAtOnce(i, p) PROVE AloneInv(k)'
  BY <1>4, <1>u DEF Plug!rollbackAtOnce
<1>5. ASSUME NEW i \in k.calls, NEW p \in k.plugins, Plug(k)!startRollback(i, p) PROVE AloneInv(k)'
  <2>1. [Plug(k)!Idle EXCEPT !.op = "rollback", !.p = p, !.await = "unload",
                             !.row = snap[p].row, !.life = Plug(k)!Target(p)].await = "unload"
    BY DEF Plug!Idle
  <2>2. QED  BY <1>5, <1>i, <2>1 DEF Plug!startRollback
<1>6. ASSUME NEW i \in k.calls, NEW ok \in BOOLEAN,
             \/ Plug(k)!rollbackEnds(i) \/ Plug(k)!canaryFailsToStart(i, ok) \/ Plug(k)!canaryPasses(i)
             \/ Plug(k)!canaryStays(i) \/ Plug(k)!promoteFails(i, ok)
      PROVE  AloneInv(k)'
  BY <1>6, <1>z DEF Plug!rollbackEnds, Plug!canaryFailsToStart, Plug!canaryPasses, Plug!canaryStays, Plug!promoteFails
<1>7. ASSUME NEW i \in k.calls, Plug(k)!canaryRuns(i) PROVE AloneInv(k)'
  <2>1. [requests[i] EXCEPT !.await = "unload", !.plan = <<>>, !.hook = 0].await = "unload"
    BY <1>t DEF PluginRequests
  <2>2. requests' = [requests EXCEPT ![i] = [requests[i] EXCEPT !.await = "unload", !.plan = <<>>, !.hook = 0]]
    BY <1>7, <1>t DEF Plug!canaryRuns
  <2>3. QED  BY <1>i, <2>1, <2>2
<1>8. ASSUME NEW i \in k.calls, NEW n \in 1..2, Plug(k)!promoteEnds(i, n) PROVE AloneInv(k)'
  BY <1>8, <1>d, <1>z DEF Plug!promoteEnds, Plug!CallsAfter
<1>9. CASE UNCHANGED Plug(k)!vars
  BY <1>9, <1>u DEF Plug!vars, Plug!pvars
<1>10. QED  BY <1>1, <1>2, <1>3, <1>4, <1>5, <1>6, <1>7, <1>8, <1>9 DEF Plug!Next

LEMMA KeptNext ==
    ASSUME NEW CONSTANT k, Plug(k)!UpgradeConstants, UpgradeTypes(k), AloneInv(k), KeptInv(k),
           [Plug(k)!Next]_(Plug(k)!vars)
    PROVE  KeptInv(k)'
<1>c. Plug(k)!PluginConstants /\ PluginTypes(k)
  BY DEF Plug!UpgradeConstants, UpgradeTypes
<1>t. /\ plugin \in [k.plugins -> PluginRows(k)] /\ requests \in [k.calls -> PluginRequests(k)]
      /\ \A i \in k.calls : requests[i].p \in k.plugins /\ RequestOK(requests[i])
      /\ \A p \in k.plugins : snap[p].row \in OffRows(k)
      /\ \A r : Plug(k)!Set(r, "error", TRUE).status # "running"
  BY <1>c, LoadTypes DEF PluginTypes, RequestsOK, UpgradeTypes, Snaps, Plug!Set, Plug!Absent
<1>s. ASSUME NEW i \in k.calls, requests[i].op = "canary", NEW r
      PROVE  Plug(k)!Set(r, requests[i].row.status, requests[i].row.enabled).status # "running"
  BY <1>s, <1>t DEF RequestOK, Plug!Set, Plug!Absent
<1>1. CASE Plug(k)!PluginNext
  BY <1>1, <1>c, KeptStep
<1>2. ASSUME NEW p \in k.plugins, NEW i \in k.calls, NEW n \in 1..3, Plug(k)!registerShadowVersion(p, i, n)
      PROVE  KeptInv(k)'
  <2>1. CASE n < 3
    BY <1>2, <1>c, <2>1, KeptDies DEF Plug!registerShadowVersion, Plug!Cut, Plug!CallsAfter
  <2>2. CASE n = 3
    <3>1. /\ UNCHANGED <<plugin, alive, loaded, restarts, adrift>> /\ requests[i] = Plug(k)!Idle
          /\ requests' = [requests EXCEPT ![i] = Plug(k)!Idle]
      BY <1>2, <2>2 DEF Plug!registerShadowVersion, Plug!Cut, Plug!CallsAfter
    <3>2. UNCHANGED requests
      BY <1>t, <3>1
    <3>3. QED  BY <3>1, <3>2 DEF KeptInv, KeptAt, OffAt
  <2>3. QED  BY <2>1, <2>2
<1>3. ASSUME NEW i \in k.calls, NEW p \in k.plugins, Plug(k)!startCanary(i, p) \/ Plug(k)!startPromote(i, p)
      PROVE  KeptInv(k)'
  BY <1>3, <1>c, KeptStartEnable DEF Plug!startCanary, Plug!startPromote
<1>4. ASSUME NEW i \in k.calls, NEW p \in k.plugins, Plug(k)!rollbackAtOnce(i, p) PROVE KeptInv(k)'
  <2>1. plugin' = [plugin EXCEPT ![p] = snap[p].row] /\ UNCHANGED <<loaded, alive, restarts, adrift, requests>>
    BY <1>4 DEF Plug!rollbackAtOnce, Plug!Restored
  <2>2. plugin'[p].status # "running" /\ \A q \in k.plugins \ {p} : plugin'[q] = plugin[q]
    BY <1>t, <2>1 DEF OffRows
  <2>3. ~(plugin[p].status = "running" /\ p \in loaded)
    BY <1>4 DEF Plug!rollbackAtOnce, Plug!Inactive, Plug!MustUnload
  <2>4. QED  BY <1>c, <2>1, <2>2, <2>3, KeptAtOnce
<1>5. ASSUME NEW i \in k.calls, NEW p \in k.plugins, Plug(k)!startRollback(i, p) PROVE KeptInv(k)'
  <2>1. PICK c : c = [Plug(k)!Idle EXCEPT !.op = "rollback", !.p = p, !.await = "unload",
                                          !.row = snap[p].row, !.life = Plug(k)!Target(p)]
    OBVIOUS
  <2>2. c.await = "unload"
    BY <2>1 DEF Plug!Idle
  <2>3. QED  BY <1>5, <1>c, <2>1, <2>2, KeptStartUnload DEF Plug!startRollback
<1>6. ASSUME NEW i \in k.calls, Plug(k)!rollbackEnds(i) PROVE KeptInv(k)'
  <2>1. requests' = [requests EXCEPT ![i] = Plug(k)!Idle]
    BY <1>6 DEF Plug!rollbackEnds
  <2>2. CASE Plug(k)!Unloaded(i) \/ Plug(k)!UnloadThrows(i)
    BY <1>c, <2>1, <2>2, KeptUnloadEnds
  <2>3. CASE Plug(k)!Deactivated(i) /\ Plug(k)!Restored(requests[i].p, requests[i].row, requests[i].life)
    <3>1. plugin' = [plugin EXCEPT ![requests[i].p] = requests[i].row] /\ requests[i].row.status # "running"
      BY <1>6, <1>t, <2>3 DEF Plug!rollbackEnds, Plug!Restored, RequestOK
    <3>2. /\ plugin'[requests[i].p].status # "running"
          /\ \A q \in k.plugins \ {requests[i].p} : plugin'[q] = plugin[q]
      BY <1>t, <3>1
    <3>3. QED  BY <1>c, <2>1, <2>3, <3>2, KeptUnload
  <2>4. QED  BY <1>6, <2>2, <2>3 DEF Plug!rollbackEnds
<1>7. ASSUME NEW i \in k.calls, NEW ok \in BOOLEAN, Plug(k)!canaryFailsToStart(i, ok) PROVE KeptInv(k)'
  <2>p. PICK p \in k.plugins : p = requests[i].p
    BY <1>t
  <2>1. /\ Plug(k)!LoadStops(i, ok) /\ UNCHANGED <<loaded, restarts>> /\ Plug(k)!LeftBehind({p})
        /\ requests' = [requests EXCEPT ![i] = Plug(k)!Idle]
        /\ plugin' = [plugin EXCEPT ![p] = Plug(k)!Set(@, requests[i].row.status, requests[i].row.enabled)]
        /\ Plug(k)!Loading(i) = p
    BY <1>7, <2>p, AloneLoads DEF Plug!canaryFailsToStart, Plug!LoadStops
  <2>2. plugin'[p].status # "running" /\ \A q \in k.plugins \ {p} : plugin'[q] = plugin[q]
    <3>1. requests[i].op = "canary"
      BY <1>7 DEF Plug!canaryFailsToStart
    <3>2. PICK r : r = Plug(k)!Set(plugin[p], requests[i].row.status, requests[i].row.enabled)
      OBVIOUS
    <3>3. r.status # "running" /\ plugin' = [plugin EXCEPT ![p] = r]
      BY <1>s, <2>1, <3>1, <3>2
    <3>4. QED  BY <1>t, <3>3
  <2>3. (p \in adrift' \/ (alive'[p] = {} /\ p \notin loaded)) /\ adrift \subseteq adrift'
    BY <2>1 DEF Plug!LeftBehind
  <2>4. /\ \A q \in {p} : q \in adrift' \/ (alive'[q] = {} /\ q \notin loaded)
        /\ \A q \in k.plugins : plugin'[q] = plugin[q] \/ (q \in {p} /\ plugin'[q].status # "running")
    BY <2>2, <2>3
  <2>5. PICK S : S = {p}
    OBVIOUS
  <2>6. QED  BY <1>c, <2>1, <2>2, <2>3, <2>4, <2>5, KeptStops
<1>8. ASSUME NEW i \in k.calls, Plug(k)!canaryRuns(i) PROVE KeptInv(k)'
  <2>1. requests' = [requests EXCEPT ![i] = [requests[i] EXCEPT !.await = "unload", !.plan = <<>>, !.hook = 0]]
    BY <1>8, <1>t DEF Plug!canaryRuns
  <2>2. requests'[i].hook = 0 /\ \A j \in k.calls \ {i} : requests'[j] = requests[j]
    BY <1>t, <2>1 DEF PluginRequests
  <2>3. QED  BY <1>8, <1>c, <2>2, KeptLoaded DEF Plug!canaryRuns
<1>9. ASSUME NEW i \in k.calls, Plug(k)!canaryPasses(i) PROVE KeptInv(k)'
  BY <1>9, <1>c, KeptUnloadEnds DEF Plug!canaryPasses
<1>10. ASSUME NEW i \in k.calls, Plug(k)!canaryStays(i) PROVE KeptInv(k)'
  <2>1. \A q \in k.plugins \ {requests[i].p} : plugin'[q] = plugin[q]
    BY <1>10, <1>t DEF Plug!canaryStays
  <2>2. QED  BY <1>10, <1>c, <2>1, KeptUnloadThrows DEF Plug!canaryStays
<1>11. ASSUME NEW i \in k.calls, NEW ok \in BOOLEAN, Plug(k)!promoteFails(i, ok) PROVE KeptInv(k)'
  BY <1>11, <1>c, KeptThrows DEF Plug!promoteFails
<1>12. ASSUME NEW i \in k.calls, NEW n \in 1..2, Plug(k)!promoteEnds(i, n) PROVE KeptInv(k)'
  <2>1. CASE Plug(k)!Loaded(i) /\ requests' = [requests EXCEPT ![i] = Plug(k)!Idle]
    <3>1. requests'[i].hook = 0 /\ \A j \in k.calls \ {i} : requests'[j] = requests[j]
      BY <1>t, <2>1, IdleRests
    <3>2. QED  BY <1>c, <2>1, <3>1, KeptLoaded
  <2>2. CASE Plug(k)!Cut(1, 2) /\ Plug(k)!CallsAfter(1, 2, i)
    BY <1>c, <2>2, KeptDies DEF Plug!Cut, Plug!CallsAfter
  <2>3. QED  BY <1>12, <2>1, <2>2 DEF Plug!promoteEnds
<1>13. CASE UNCHANGED Plug(k)!vars
  BY <1>13, <1>c, KeptStep DEF Plug!vars
<1>14. QED  BY <1>1, <1>2, <1>3, <1>4, <1>5, <1>6, <1>7, <1>8, <1>9, <1>10, <1>11, <1>12, <1>13 DEF Plug!Next

-----------------------------------------------------------------------------
(* What is promoted can be undone                                          *)

\* The promotion of an active plugin is on file, and so is what was there before.
\* No snapshot is of an active plugin: there is one registration.
UndoInv(k) ==
    /\ \A p \in k.plugins :
         /\ filed[p].promoted => filed[p].shadow
         /\ filed[p].shadow => snap[p].row.status # "absent"
         /\ snap[p].life.channel # "active"
         /\ life[p].channel = "active" => filed[p].promoted
         /\ windows = 0 => ~filed[p].shadow
    /\ \A i \in k.calls :
         /\ requests[i].op = "promote" => filed[requests[i].p].shadow
         /\ requests[i].op = "rollback" => requests[i].life.channel # "active"

LEMMA UndoImplies == ASSUME NEW CONSTANT k, UndoInv(k) PROVE Plug(k)!Undoable
  BY DEF UndoInv, Plug!Undoable, Plug!MayRollback, Plug!NoSnap, Plug!Absent

LEMMA UndoInit == ASSUME NEW CONSTANT k, Plug(k)!Init PROVE UndoInv(k)
<1>1. \A p \in k.plugins : life[p] = Plug(k)!NoLife
  BY DEF Plug!Init, Plug!PluginInit
<1>2. QED  BY <1>1 DEF Plug!Init, Plug!PluginInit, UndoInv, Plug!NoSnap, Plug!NoLife, Plug!Absent, Plug!Idle

\* The requests of the plugin routes start no promotion and no rollback, and
\* leave the lifecycle of a plugin alone or clear it.
LEMMA RoutesKeep ==
    ASSUME NEW CONSTANT k, Plug(k)!PluginConstants, PluginTypes(k), Plug(k)!PluginNext
    PROVE  /\ \A p \in k.plugins : life'[p] = life[p] \/ life'[p] = Plug(k)!NoLife
           /\ \A i \in k.calls :
                \/ requests'[i].op \in {"idle", "enable", "disable", "uninstall"}
                \/ /\ requests'[i].op = requests[i].op /\ requests'[i].p = requests[i].p
                   /\ requests'[i].life = requests[i].life
<1>t. /\ requests \in [k.calls -> PluginRequests(k)] /\ life \in [k.plugins -> Plug(k)!Lives]
      /\ Plug(k)!Idle \in PluginRequests(k) /\ Plug(k)!Idle.op = "idle"
  BY IdleRequest DEF PluginTypes, RequestsOK, Plug!Idle
<1> DEFINE Keeps == /\ \A p \in k.plugins : life'[p] = life[p] \/ life'[p] = Plug(k)!NoLife
                    /\ \A i \in k.calls :
                         \/ requests'[i].op \in {"idle", "enable", "disable", "uninstall"}
                         \/ /\ requests'[i].op = requests[i].op /\ requests'[i].p = requests[i].p
                            /\ requests'[i].life = requests[i].life
<1>1. ASSUME NEW p \in k.plugins, NEW force \in BOOLEAN,
             \/ Plug(k)!installPlugin(p) \/ Plug(k)!enableRefused(p) \/ Plug(k)!disableAtOnce(p)
             \/ Plug(k)!uninstallAtOnce(p, force)
      PROVE  Keeps
  BY <1>1, <1>t DEF Plug!installPlugin, Plug!enableRefused, Plug!disableAtOnce, Plug!uninstallAtOnce
<1>2. ASSUME NEW i \in k.calls, NEW p \in k.plugins, Plug(k)!enablePlugin(i, p) PROVE Keeps
  BY <1>2, <1>t DEF Plug!enablePlugin, Plug!StartEnable
<1>3. ASSUME NEW i \in k.calls, NEW p \in k.plugins,
             Plug(k)!StartUnload(i, p, "disable") \/ Plug(k)!StartUnload(i, p, "uninstall")
      PROVE  Keeps
  <2>1. requests'[i].op \in {"disable", "uninstall"}
    BY <1>3, <1>t DEF Plug!StartUnload, PluginRequests
  <2>2. UNCHANGED life /\ \A j \in k.calls : j # i => requests'[j] = requests[j]
    BY <1>3, <1>t DEF Plug!StartUnload
  <2>3. QED  BY <2>1, <2>2
<1>4. ASSUME NEW i \in k.calls, Plug(k)!LoadContinues(i) PROVE Keeps
  <2>1. /\ [requests[i] EXCEPT !.plan = Tail(requests[i].plan), !.hook = 0].op = requests[i].op
        /\ [requests[i] EXCEPT !.plan = Tail(requests[i].plan), !.hook = 0].p = requests[i].p
        /\ [requests[i] EXCEPT !.plan = Tail(requests[i].plan), !.hook = 0].life = requests[i].life
    BY <1>t DEF PluginRequests
  <2>2. \/ requests' = [requests EXCEPT ![i] = [requests[i] EXCEPT !.plan = Tail(requests[i].plan), !.hook = 0]]
        \/ requests' = [requests EXCEPT ![i] = Plug(k)!Idle]
    BY <1>4 DEF Plug!LoadContinues
  <2>3. UNCHANGED life
    BY <1>4 DEF Plug!LoadContinues
  <2>4. QED  BY <1>t, <2>1, <2>2, <2>3
<1>5. ASSUME NEW i \in k.calls, NEW ok \in BOOLEAN,
             Plug(k)!disableEnds(i) \/ Plug(k)!uninstallEnds(i) \/ Plug(k)!enableEnds(i, ok)
      PROVE  Keeps
  <2>1. requests' = [requests EXCEPT ![i] = Plug(k)!Idle]
    BY <1>5 DEF Plug!disableEnds, Plug!uninstallEnds, Plug!enableEnds
  <2>2. life' = life \/ life' = [life EXCEPT ![requests[i].p] = Plug(k)!NoLife]
    BY <1>5 DEF Plug!disableEnds, Plug!uninstallEnds, Plug!enableEnds
  <2>3. QED  BY <1>t, <2>1, <2>2
<1>4h. ASSUME NEW i \in k.calls, Plug(k)!Activates(i) \/ Plug(k)!Deactivates(i) PROVE Keeps
  <2>1. PICK h : h = requests[i].hook + 1
    OBVIOUS
  <2>2. /\ requests' = [requests EXCEPT ![i] = [requests[i] EXCEPT !.hook = h]]
        /\ UNCHANGED life
    BY <1>4h, <2>1 DEF Plug!Activates, Plug!Deactivates
  <2>3. /\ [requests[i] EXCEPT !.hook = h].op = requests[i].op
        /\ [requests[i] EXCEPT !.hook = h].p = requests[i].p
        /\ [requests[i] EXCEPT !.hook = h].life = requests[i].life
    BY <1>t DEF PluginRequests
  <2>4. QED  BY <1>t, <2>2, <2>3
<1>6. CASE Plug(k)!Restart
  BY <1>6, <1>t DEF Plug!Restart
<1>7. QED  BY <1>1, <1>2, <1>3, <1>4, <1>4h, <1>5, <1>6 DEF Plug!PluginNext, Plug!Requests

\* What a canary files in the row is no promotion.
LEMMA CanaryFiles ==
    ASSUME NEW CONSTANT k, Plug(k)!PluginConstants, PluginTypes(k), NEW i \in k.calls, NEW ok \in BOOLEAN,
           Plug(k)!canaryFailsToStart(i, ok) \/ Plug(k)!canaryPasses(i) \/ Plug(k)!canaryStays(i)
    PROVE  /\ \A p \in k.plugins : life'[p] = life[p] \/ life'[p].channel = "canary"
           /\ requests' = [requests EXCEPT ![i] = Plug(k)!Idle]
           /\ UNCHANGED <<filed, snap, windows>>
<1>1. requests' = [requests EXCEPT ![i] = Plug(k)!Idle] /\ UNCHANGED <<filed, snap, windows>>
  BY DEF Plug!canaryFailsToStart, Plug!canaryPasses, Plug!canaryStays
<1>2. life \in [k.plugins -> Plug(k)!Lives] /\ requests[i].p \in k.plugins
  BY LoadTypes DEF PluginTypes
<1>3. ASSUME NEW c, NEW b, NEW o
      PROVE  [life[requests[i].p] EXCEPT !.channel = "canary", !.compat = c, !.bad = b, !.ok = o].channel = "canary"
  BY <1>2 DEF Plug!Lives
<1>4. \/ life' = life
      \/ life' = [life EXCEPT ![requests[i].p] = [@ EXCEPT !.channel = "canary", !.compat = "adaptation_required", !.bad = TRUE]]
      \/ life' = [life EXCEPT ![requests[i].p] = [@ EXCEPT !.channel = "canary", !.compat = "compatible", !.ok = TRUE]]
  BY DEF Plug!canaryFailsToStart, Plug!canaryPasses, Plug!canaryStays, Plug!FiledFailure
<1>5. \A p \in k.plugins : life'[p] = life[p] \/ life'[p].channel = "canary"
  BY <1>2, <1>4 DEF Plug!Lives
<1>6. QED  BY <1>1, <1>5

LEMMA UndoStep ==
    ASSUME NEW CONSTANT k, Plug(k)!UpgradeConstants, k.maxRestarts = 0, k.maxShadows <= 1,
           UpgradeTypes(k), UndoInv(k), [Plug(k)!Next]_(Plug(k)!vars)
    PROVE  UndoInv(k)'
<1>c. Plug(k)!PluginConstants /\ k.maxShadows \in Nat /\ PluginTypes(k) /\ ~(restarts < k.maxRestarts)
  BY DEF Plug!UpgradeConstants, UpgradeTypes, PluginTypes
<1>t. /\ requests \in [k.calls -> PluginRequests(k)] /\ life \in [k.plugins -> Plug(k)!Lives]
      /\ Plug(k)!Idle \in PluginRequests(k) /\ Plug(k)!Idle.op = "idle"
      /\ \A i \in k.calls : requests[i].p \in k.plugins
  BY <1>c, IdleRequest, LoadTypes DEF PluginTypes, RequestsOK, Plug!Idle
<1>f. ASSUME UNCHANGED <<filed, snap, windows>>,
             \A p \in k.plugins : life'[p].channel = "active" => life[p].channel = "active",
             \A i \in k.calls : requests'[i].op \in {"promote", "rollback"} =>
               /\ requests'[i].op = requests[i].op /\ requests'[i].p = requests[i].p
               /\ requests'[i].life = requests[i].life
      PROVE  UndoInv(k)'
  BY <1>f DEF UndoInv
<1>1. CASE Plug(k)!PluginNext /\ UNCHANGED Plug(k)!uvars
  <2>1. Plug(k)!NoLife.channel # "active" /\ UNCHANGED <<filed, snap, windows>>
    BY <1>1 DEF Plug!NoLife, Plug!uvars
  <2>2. QED  BY <1>1, <1>c, <1>f, <2>1, RoutesKeep
<1>2. ASSUME NEW p \in k.plugins, NEW i \in k.calls, NEW n \in 1..3, Plug(k)!registerShadowVersion(p, i, n)
      PROVE  UndoInv(k)'
  <2>1. windows = 0 /\ windows' = 1
    BY <1>2, <1>c DEF Plug!registerShadowVersion, UpgradeTypes
  <2>2. \A q \in k.plugins : ~filed[q].shadow /\ ~filed[q].promoted /\ life[q].channel # "active"
    BY <2>1 DEF UndoInv
  <2>3. n = 3
    BY <1>2, <1>c DEF Plug!registerShadowVersion, Plug!Cut, Plug!Dies
  <2>4. /\ snap' = [snap EXCEPT ![p] = [row |-> plugin[p], life |-> life[p]]]
        /\ filed' = [filed EXCEPT ![p] = [shadow |-> TRUE, promoted |-> FALSE]]
        /\ requests' = [requests EXCEPT ![i] = Plug(k)!Idle] /\ plugin[p] # Plug(k)!Absent
    BY <1>2, <2>3 DEF Plug!registerShadowVersion, Plug!CallsAfter
  <2>5. life'[p].channel = "shadow" /\ \A q \in k.plugins : q # p => life'[q] = life[q]
    BY <1>2, <1>t, <2>3 DEF Plug!registerShadowVersion, Plug!NoLife
  <2>6. plugin[p].status # "absent"
    BY <1>c, <2>4 DEF PluginTypes, PluginRows
  <2>7. snap \in [k.plugins -> Snaps(k)] /\ filed \in [k.plugins -> [shadow : BOOLEAN, promoted : BOOLEAN]]
    BY DEF UpgradeTypes
  <2>8. \A q \in k.plugins :
          /\ filed'[q].promoted => filed'[q].shadow
          /\ filed'[q].shadow => snap'[q].row.status # "absent"
          /\ snap'[q].life.channel # "active"
          /\ life'[q].channel # "active"
    BY <2>2, <2>4, <2>5, <2>6, <2>7 DEF UndoInv
  <2>9. \A j \in k.calls :
          /\ requests[j].op # "promote"
          /\ requests'[j].op \in {"promote", "rollback"} => requests'[j] = requests[j]
    BY <1>t, <2>2, <2>4 DEF UndoInv
  <2>10. QED  BY <2>1, <2>8, <2>9 DEF UndoInv
<1>3. ASSUME NEW i \in k.calls, NEW p \in k.plugins, Plug(k)!startCanary(i, p) PROVE UndoInv(k)'
  BY <1>3, <1>f, <1>t DEF Plug!startCanary, Plug!StartEnable, Plug!uvars
<1>4. ASSUME NEW i \in k.calls, NEW p \in k.plugins, Plug(k)!startPromote(i, p) PROVE UndoInv(k)'
  <2>1. /\ UNCHANGED <<filed, snap, windows, life>> /\ filed[p].shadow
        /\ requests'[i].op = "promote" /\ requests'[i].p = p
        /\ \A j \in k.calls : j # i => requests'[j] = requests[j]
    BY <1>4, <1>t DEF Plug!startPromote, Plug!StartEnable, Plug!uvars, Plug!MayPromote
  <2>2. QED  BY <2>1 DEF UndoInv
<1>l. ASSUME NEW p \in k.plugins PROVE Plug(k)!Target(p).channel # "active"
  <2>1. snap[p].life \in Plug(k)!Lives /\ snap[p].life.channel # "active"
    BY DEF UpgradeTypes, Snaps, UndoInv
  <2>2. QED  BY <2>1 DEF Plug!Target, Plug!Lives
<1>5. ASSUME NEW i \in k.calls, NEW p \in k.plugins, Plug(k)!rollbackAtOnce(i, p) PROVE UndoInv(k)'
  <2>1. life' = [life EXCEPT ![p] = Plug(k)!Target(p)] /\ UNCHANGED <<filed, snap, windows, requests>>
    BY <1>5 DEF Plug!rollbackAtOnce, Plug!Restored, Plug!uvars
  <2>2. QED  BY <1>f, <1>l, <1>t, <2>1
<1>6. ASSUME NEW i \in k.calls, NEW p \in k.plugins, Plug(k)!startRollback(i, p) PROVE UndoInv(k)'
  <2> DEFINE c == [Plug(k)!Idle EXCEPT !.op = "rollback", !.p = p, !.await = "unload",
                                       !.row = snap[p].row, !.life = Plug(k)!Target(p)]
  <2>1. c.op = "rollback" /\ c.life = Plug(k)!Target(p)
    BY <1>t DEF PluginRequests
  <2>2. requests' = [requests EXCEPT ![i] = c] /\ UNCHANGED <<filed, snap, windows, life>>
    BY <1>6 DEF Plug!startRollback, Plug!uvars
  <2> HIDE DEF c
  <2>3. QED  BY <1>l, <1>t, <2>1, <2>2 DEF UndoInv
<1>7. ASSUME NEW i \in k.calls, Plug(k)!rollbackEnds(i) PROVE UndoInv(k)'
  <2>1. requests' = [requests EXCEPT ![i] = Plug(k)!Idle] /\ UNCHANGED <<filed, snap, windows>>
    BY <1>7 DEF Plug!rollbackEnds, Plug!Restored, Plug!uvars
  <2>2. life' = life \/ life' = [life EXCEPT ![requests[i].p] = requests[i].life]
    BY <1>7 DEF Plug!rollbackEnds, Plug!Restored
  <2>3. requests[i].life.channel # "active"
    BY <1>7 DEF Plug!rollbackEnds, UndoInv
  <2>4. QED  BY <1>f, <1>t, <2>1, <2>2, <2>3
<1>8. ASSUME NEW i \in k.calls, NEW ok \in BOOLEAN,
             Plug(k)!canaryFailsToStart(i, ok) \/ Plug(k)!canaryPasses(i) \/ Plug(k)!canaryStays(i)
      PROVE  UndoInv(k)'
  BY <1>8, <1>c, <1>f, <1>t, CanaryFiles
<1>9. ASSUME NEW i \in k.calls, Plug(k)!canaryRuns(i) PROVE UndoInv(k)'
  <2>1. [requests[i] EXCEPT !.await = "unload", !.plan = <<>>, !.hook = 0].op = "canary"
    BY <1>9, <1>t DEF Plug!canaryRuns, PluginRequests
  <2>2. /\ requests' = [requests EXCEPT ![i] = [requests[i] EXCEPT !.await = "unload", !.plan = <<>>, !.hook = 0]]
        /\ UNCHANGED <<life, filed, snap, windows>>
    BY <1>9, <1>t DEF Plug!canaryRuns, Plug!uvars
  <2>3. QED  BY <1>f, <1>t, <2>1, <2>2
<1>10. ASSUME NEW i \in k.calls, NEW ok \in BOOLEAN, Plug(k)!promoteFails(i, ok) PROVE UndoInv(k)'
  BY <1>10, <1>f, <1>t DEF Plug!promoteFails, Plug!uvars
<1>11. ASSUME NEW i \in k.calls, NEW n \in 1..2, Plug(k)!promoteEnds(i, n) PROVE UndoInv(k)'
  <2> DEFINE p == requests[i].p
  <2>1. /\ requests' = [requests EXCEPT ![i] = Plug(k)!Idle] /\ UNCHANGED <<snap, windows>>
        /\ filed' = [filed EXCEPT ![p].promoted = TRUE]
    BY <1>11, <1>c DEF Plug!promoteEnds, Plug!Cut, Plug!Dies
  <2>2. filed[p].shadow /\ p \in k.plugins
    BY <1>11, <1>t DEF Plug!promoteEnds, UndoInv
  <2>3. \A q \in k.plugins : q # p => life'[q] = life[q]
    BY <1>11, <1>t DEF Plug!promoteEnds
  <2>4. filed \in [k.plugins -> [shadow : BOOLEAN, promoted : BOOLEAN]]
    BY DEF UpgradeTypes
  <2>5. /\ \A q \in k.plugins : filed'[q].shadow = filed[q].shadow /\ (q # p => filed'[q] = filed[q])
        /\ filed'[p].promoted
    BY <2>1, <2>2, <2>4
  <2>6. \A j \in k.calls : requests'[j].op \in {"promote", "rollback"} => requests'[j] = requests[j]
    BY <1>t, <2>1
  <2> HIDE DEF p
  <2>7. QED  BY <1>t, <2>1, <2>2, <2>3, <2>5, <2>6 DEF UndoInv
<1>12. CASE UNCHANGED Plug(k)!vars
  BY <1>12, <1>f DEF Plug!vars, Plug!pvars, Plug!uvars
<1>13. QED  BY <1>1, <1>2, <1>3, <1>4, <1>5, <1>6, <1>7, <1>8, <1>9, <1>10, <1>11, <1>12
            DEF Plug!Next

\* promote and rollback: the promotion of an active plugin is on file and so is
\* the snapshot from before it, whatever routes, canaries, promotions and
\* rollbacks overlap, for one registration within one process.
THEOREM UndoableHolds ==
    ASSUME NEW CONSTANT k, Plug(k)!UpgradeConstants, k.maxRestarts = 0, k.maxShadows <= 1
    PROVE  Plug(k)!Spec => []Plug(k)!Undoable
<1>1. Plug(k)!Init => UpgradeTypes(k) /\ UndoInv(k)
  BY UpgradeTypesInit, UndoInit
<1>2. UpgradeTypes(k) /\ UndoInv(k) /\ [Plug(k)!Next]_(Plug(k)!vars) => UpgradeTypes(k)' /\ UndoInv(k)'
  BY UpgradeTypesStep, UndoStep
<1>3. QED  BY <1>1, <1>2, UndoImplies, PTL DEF Plug!Spec

-----------------------------------------------------------------------------
(* Only what is promoted, or on its way, is activated                      *)

\* A plugin that is up, or will be when the load under way is done, is
\* promoted, on trial, or adrift.
Up(k, q) == \/ plugin[q].status = "running" /\ q \in loaded
            \/ plugin[q].status = "enabled" /\ \E j \in k.calls : Loads(requests[j], q)
OnTrial(k, q) == \E j \in k.calls : \/ Loads(requests[j], q) /\ requests[j].op \in {"canary", "promote"}
                                    \/ Unloads(requests[j], q)
Fit(q) == life[q].channel = "active" /\ life[q].compat = "compatible"
GateAt(k, q) == Up(k, q) => Fit(q) \/ OnTrial(k, q) \/ q \in adrift
GateInv(k) == \A q \in k.plugins \ k.bundled : GateAt(k, q)

LEMMA GateImplies == ASSUME NEW CONSTANT k, KeptInv(k), GateInv(k) PROVE Plug(k)!GateHolds
<1>1. ASSUME NEW q \in k.plugins \ k.bundled, alive[q] # {}, ~Plug(k)!Busy(q), q \notin adrift
      PROVE  Plug(k)!Promoted(q)
  <2>1. \A j \in k.calls : ~Loads(requests[j], q) /\ ~Unloads(requests[j], q)
    BY <1>1 DEF Plug!Busy, Plug!BeingLoaded, Plug!BeingUnloaded, Plug!Loading, Loads, Unloads
  <2>2. q \in loaded /\ plugin[q].status = "running"
    BY <1>1, <2>1 DEF KeptInv, KeptAt, OffAt
  <2>3. Fit(q)
    BY <1>1, <2>1, <2>2 DEF GateInv, GateAt, Up, OnTrial
  <2>4. QED  BY <2>3 DEF Fit, Plug!Promoted
<1>2. QED  BY <1>1 DEF Plug!GateHolds

LEMMA GateInit == ASSUME NEW CONSTANT k, NEW S, Plug(k)!PluginInit(S) PROVE GateInv(k)
  BY DEF Plug!PluginInit, GateInv, GateAt, Up

\* What is off needs nothing, and what is adrift, promoted or on trial is.
LEMMA GateOff ==
    ASSUME NEW CONSTANT k, NEW q, plugin'[q].status \notin {"enabled", "running"}
    PROVE  GateAt(k, q)'
  BY DEF GateAt, Up

LEMMA GateStays == ASSUME NEW CONSTANT k, NEW q, q \in adrift' PROVE GateAt(k, q)'
  BY DEF GateAt

\* A step that is not about the plugin.
LEMMA GateElse ==
    ASSUME NEW CONSTANT k, NEW q, GateAt(k, q),
           plugin'[q] = plugin[q], life'[q] = life[q], q \in loaded' => q \in loaded, q \in adrift => q \in adrift',
           \A j \in k.calls : \/ /\ requests'[j].await = requests[j].await /\ requests'[j].plan = requests[j].plan
                                 /\ requests'[j].p = requests[j].p /\ requests'[j].op = requests[j].op
                              \/ ~Loads(requests[j], q) /\ ~Unloads(requests[j], q) /\ ~Loads(requests'[j], q)
    PROVE  GateAt(k, q)'
<1>1. \A j \in k.calls : \/ /\ Loads(requests'[j], q) <=> Loads(requests[j], q)
                            /\ Unloads(requests'[j], q) <=> Unloads(requests[j], q)
                            /\ requests'[j].op = requests[j].op
                         \/ ~Loads(requests[j], q) /\ ~Unloads(requests[j], q) /\ ~Loads(requests'[j], q)
  BY DEF Loads, Unloads
<1>2. Up(k, q)' => Up(k, q)
  BY <1>1 DEF Up
<1>3. OnTrial(k, q) => OnTrial(k, q)'
  BY <1>1 DEF OnTrial
<1>4. QED  BY <1>2, <1>3 DEF GateAt, Fit

\* A request ends, after which its plugin is off or adrift.
LEMMA GateEnds ==
    ASSUME NEW CONSTANT k, Plug(k)!PluginConstants, PluginTypes(k), GateInv(k), AloneInv(k), NEW i \in k.calls,
           requests' = [requests EXCEPT ![i] = Plug(k)!Idle],
           plugin'[requests[i].p].status \notin {"enabled", "running"} \/ requests[i].p \in adrift',
           \A q \in k.plugins \ {requests[i].p} :
             /\ plugin'[q] = plugin[q] /\ life'[q] = life[q] /\ (q \in loaded' => q \in loaded)
             /\ (q \in adrift => q \in adrift')
    PROVE  GateInv(k)'
<1>1. requests'[i] = Plug(k)!Idle /\ \A j \in k.calls \ {i} : requests'[j] = requests[j]
  BY DEF PluginTypes, RequestsOK
<1>2. ASSUME NEW q \in k.plugins \ k.bundled, q # requests[i].p PROVE GateAt(k, q)'
  <2>1. ~Loads(requests[i], q) /\ ~Unloads(requests[i], q) /\ ~Loads(requests'[i], q)
    BY <1>1, <1>2, AloneLoads, IdleRests DEF Loads, Unloads, Plug!Loading
  <2>2. QED  BY <1>1, <1>2, <2>1, GateElse DEF GateInv
<1>3. QED  BY <1>2, GateOff, GateStays DEF GateInv

\* A plugin is enabled by a request that may.
LEMMA GateStartEnable ==
    ASSUME NEW CONSTANT k, Plug(k)!UpgradeConstants, PluginTypes(k), GateInv(k),
           NEW i \in k.calls, NEW p \in k.plugins, NEW op, NEW save, Plug(k)!StartEnable(i, p, op, save)
    PROVE  GateInv(k)'
<1>1. /\ \A q \in k.plugins \ {p} : plugin'[q] = plugin[q]
      /\ requests'[i].await = "load" /\ requests'[i].op = op /\ requests'[i].plan = <<p>>
      /\ \A j \in k.calls \ {i} : requests'[j] = requests[j]
      /\ requests[i] = Plug(k)!Idle /\ UNCHANGED <<life, loaded, adrift>>
      /\ Plug(k)!LifecycleAllows(p, op)
  BY DEF Plug!StartEnable, Plug!MayEnable, Plug!UpgradeConstants, PluginTypes, RequestsOK
<1>2. ASSUME NEW q \in k.plugins \ k.bundled, q # p PROVE GateAt(k, q)'
  <2>1. ~Loads(requests[i], q) /\ ~Unloads(requests[i], q) /\ ~Loads(requests'[i], q)
    BY <1>1, <1>2, IdleRests DEF Loads
  <2>2. QED  BY <1>1, <1>2, <2>1, GateElse DEF GateInv
<1>3. ASSUME p \notin k.bundled PROVE GateAt(k, p)'
  <2>1. Fit(p)' \/ op \in {"canary", "promote"}
    BY <1>1, <1>3 DEF Plug!LifecycleAllows, Plug!Promoted, Fit
  <2>2. Loads(requests'[i], p)
    BY <1>1 DEF Loads
  <2>3. QED  BY <1>1, <2>1, <2>2 DEF GateAt, OnTrial
<1>4. QED  BY <1>2, <1>3 DEF GateInv

\* A load is over, without a promotion only if another put the plugin on trial.
LEMMA GateLoaded ==
    ASSUME NEW CONSTANT k, Plug(k)!PluginConstants, PluginTypes(k), GateInv(k), AloneInv(k),
           NEW i \in k.calls, NEW p \in k.plugins, p = requests[i].p,
           Plug(k)!Loaded(i), \A j \in k.calls \ {i} : requests'[j] = requests[j],
           \A q \in k.plugins : ~Loads(requests'[i], q),
           \A q \in k.plugins \ {p} : life'[q] = life[q],
           \/ requests[i].op \notin {"canary", "promote"} /\ life'[p] = life[p]
           \/ Unloads(requests'[i], p)
           \/ Fit(p)'
    PROVE  GateInv(k)'
<1>1. /\ requests[i].await = "load" /\ Head(requests[i].plan) = p
      /\ plugin[p].status = "enabled" /\ loaded' = loaded \cup {p} /\ adrift' = adrift
      /\ \A q \in k.plugins \ {p} : plugin'[q] = plugin[q]
  BY AloneLoads DEF Plug!Loaded, Plug!LoadDone, Plug!Loading, PluginTypes
<1>2. ASSUME NEW q \in k.plugins \ k.bundled, q # p PROVE GateAt(k, q)'
  <2>1. ~Loads(requests[i], q) /\ ~Unloads(requests[i], q) /\ ~Loads(requests'[i], q)
    BY <1>1, <1>2 DEF Loads, Unloads
  <2>2. QED  BY <1>1, <1>2, <2>1, GateElse DEF GateInv
<1>3. ASSUME p \notin k.bundled PROVE GateAt(k, p)'
  <2>1. CASE requests[i].op \notin {"canary", "promote"} /\ life'[p] = life[p]
    <3>1. Loads(requests[i], p)
      BY <1>1 DEF Loads
    <3>2. Fit(p) \/ OnTrial(k, p) \/ p \in adrift
      BY <1>1, <1>3, <3>1 DEF GateInv, GateAt, Up
    <3>3. ~Unloads(requests[i], p)
      BY <1>1 DEF Unloads
    <3>4. OnTrial(k, p) => OnTrial(k, p)'
      BY <2>1, <3>3 DEF OnTrial
    <3>5. QED  BY <1>1, <2>1, <3>2, <3>4 DEF GateAt, Fit
  <2>2. CASE Unloads(requests'[i], p)
    BY <2>2 DEF GateAt, OnTrial
  <2>3. CASE Fit(p)'
    BY <2>3 DEF GateAt
  <2>4. QED  BY <2>1, <2>2, <2>3
<1>4. QED  BY <1>2, <1>3 DEF GateInv

\* The process dies: no load is under way, and nothing is loaded.
LEMMA GateDies ==
    ASSUME NEW CONSTANT k, Plug(k)!Dies, requests' = [j \in k.calls |-> Plug(k)!Idle]
    PROVE  GateInv(k)'
<1>1. loaded' = {} /\ \A q : \A j \in k.calls : ~Loads(requests'[j], q)
  BY IdleRests DEF Plug!Dies
<1>2. QED  BY <1>1 DEF GateInv, GateAt, Up

\* A request that awaits nothing leaves a plugin off, and the others alone.
LEMMA GateAtOnce ==
    ASSUME NEW CONSTANT k, GateInv(k), NEW p, UNCHANGED <<loaded, adrift, requests>>,
           plugin'[p].status \notin {"enabled", "running"},
           \A q \in k.plugins \ {p} : plugin'[q] = plugin[q] /\ life'[q] = life[q]
    PROVE  GateInv(k)'
<1>1. ASSUME NEW q \in k.plugins \ k.bundled, q # p PROVE GateAt(k, q)'
  BY <1>1, GateElse DEF GateInv
<1>2. QED  BY <1>1, GateOff DEF GateInv

\* What failed or finished leaves its row off.
LEMMA GateFailedRows ==
    ASSUME NEW CONSTANT k, Plug(k)!PluginConstants, PluginTypes(k), AloneInv(k), NEW i \in k.calls,
           NEW p \in k.plugins, p = requests[i].p
    PROVE  /\ \A ok \in BOOLEAN : Plug(k)!LoadThrows(i, ok) =>
                /\ plugin'[p].status \notin {"enabled", "running"}
                /\ \A q \in k.plugins \ {p} : plugin'[q] = plugin[q]
                /\ adrift \subseteq adrift' /\ UNCHANGED loaded
           /\ Plug(k)!UnloadThrows(i) =>
                /\ p \in adrift' /\ adrift \subseteq adrift' /\ UNCHANGED loaded
                /\ \A q \in k.plugins \ {p} : plugin'[q] = plugin[q]
           /\ Plug(k)!Deactivated(i) =>
                \A q \in k.plugins \ {p} : (q \in loaded' => q \in loaded) /\ (q \in adrift => q \in adrift')
           /\ Plug(k)!Unloaded(i) =>
                /\ Plug(k)!Deactivated(i) /\ plugin'[p].status \notin {"enabled", "running"}
                /\ \A q \in k.plugins \ {p} : plugin'[q] = plugin[q]
<1>t. plugin \in [k.plugins -> PluginRows(k)] /\ health[p] \in Healths(k)
  BY DEF PluginTypes
<1>1. ASSUME NEW ok \in BOOLEAN, Plug(k)!LoadThrows(i, ok)
      PROVE  /\ plugin'[p].status \notin {"enabled", "running"}
             /\ \A q \in k.plugins \ {p} : plugin'[q] = plugin[q]
             /\ adrift \subseteq adrift' /\ UNCHANGED loaded
  <2>1. Plug(k)!PlanFails(plugin, p, p) /\ UNCHANGED loaded
    BY <1>1, AloneLoads DEF Plug!LoadThrows, Plug!LoadStops
  <2>2. PICK r : r = Plug(k)!Errored(plugin[p])
    OBVIOUS
  <2>3. r.status \notin {"enabled", "running"}
    BY <2>2 DEF Plug!Errored, Plug!Set, Plug!Absent
  <2>4. PICK s : s = Plug(k)!EnableFailed(r, health[p])
    OBVIOUS
  <2>5. s.status \notin {"enabled", "running"}
    BY <2>3, <2>4 DEF Plug!EnableFailed, Plug!Set, Plug!Absent
  <2>6. plugin' = [[plugin EXCEPT ![p] = r] EXCEPT ![p] = s]
    BY <1>t, <2>1, <2>2, <2>4 DEF Plug!PlanFails
  <2>7. adrift \subseteq adrift'
    BY <2>1 DEF Plug!PlanFails, Plug!LeftBehind
  <2>8. QED  BY <1>t, <2>1, <2>5, <2>6, <2>7
<1>2. ASSUME Plug(k)!UnloadThrows(i)
      PROVE  /\ p \in adrift' /\ adrift \subseteq adrift' /\ UNCHANGED loaded
             /\ \A q \in k.plugins \ {p} : plugin'[q] = plugin[q]
  BY <1>t, <1>2 DEF Plug!UnloadThrows
<1>3. ASSUME Plug(k)!Deactivated(i)
      PROVE  \A q \in k.plugins \ {p} : (q \in loaded' => q \in loaded) /\ (q \in adrift => q \in adrift')
  BY <1>3 DEF Plug!Deactivated
<1>4. ASSUME Plug(k)!Unloaded(i)
      PROVE  /\ Plug(k)!Deactivated(i) /\ plugin'[p].status \notin {"enabled", "running"}
             /\ \A q \in k.plugins \ {p} : plugin'[q] = plugin[q]
  <2>1. PICK s : s = Plug(k)!Set(plugin[p], "disabled", FALSE)
    OBVIOUS
  <2>2. s.status \notin {"enabled", "running"}
    BY <2>1 DEF Plug!Set, Plug!Absent
  <2>3. Plug(k)!Deactivated(i) /\ plugin' = [plugin EXCEPT ![p] = s]
    BY <1>4, <2>1 DEF Plug!Unloaded
  <2>4. QED  BY <1>t, <2>2, <2>3
<1>5. QED  BY <1>1, <1>2, <1>3, <1>4

\* A request ends that has failed, or has unloaded its plugin.
LEMMA GateFails ==
    ASSUME NEW CONSTANT k, Plug(k)!PluginConstants, PluginTypes(k), GateInv(k), AloneInv(k), NEW i \in k.calls,
           requests' = [requests EXCEPT ![i] = Plug(k)!Idle],
           NEW p \in k.plugins, p = requests[i].p, \A q \in k.plugins \ {p} : life'[q] = life[q],
           \/ \E ok \in BOOLEAN : Plug(k)!LoadThrows(i, ok)
           \/ Plug(k)!UnloadThrows(i)
           \/ Plug(k)!Unloaded(i)
    PROVE  GateInv(k)'
<1>1. plugin'[p].status \notin {"enabled", "running"} \/ p \in adrift'
  BY GateFailedRows
<1>2. \A q \in k.plugins \ {p} : plugin'[q] = plugin[q]
  BY GateFailedRows
<1>3. \A q \in k.plugins \ {p} : (q \in loaded' => q \in loaded) /\ (q \in adrift => q \in adrift')
  <2>1. CASE \E ok \in BOOLEAN : Plug(k)!LoadThrows(i, ok)
    BY <2>1, GateFailedRows
  <2>2. CASE Plug(k)!UnloadThrows(i)
    BY <2>2, GateFailedRows
  <2>3. CASE Plug(k)!Unloaded(i)
    BY <2>3, GateFailedRows
  <2>4. QED  BY <2>1, <2>2, <2>3
<1>4. QED  BY <1>1, <1>2, <1>3, GateEnds

LEMMA GateStep ==
    ASSUME NEW CONSTANT k, Plug(k)!UpgradeConstants, UpgradeTypes(k), AloneInv(k), GateInv(k),
           [Plug(k)!Next]_(Plug(k)!vars)
    PROVE  GateInv(k)'
<1>c. Plug(k)!PluginConstants /\ PluginTypes(k)
  BY DEF Plug!UpgradeConstants, UpgradeTypes
<1>t. /\ plugin \in [k.plugins -> PluginRows(k)] /\ requests \in [k.calls -> PluginRequests(k)]
      /\ life \in [k.plugins -> Plug(k)!Lives]
      /\ \A i \in k.calls : requests[i].p \in k.plugins /\ RequestOK(requests[i])
      /\ \A p \in k.plugins : snap[p].row \in OffRows(k)
      /\ Plug(k)!Absent.status \notin {"enabled", "running"}
  BY <1>c, LoadTypes DEF PluginTypes, RequestsOK, UpgradeTypes, Snaps, Plug!Absent
<1>z. ASSUME NEW i \in k.calls, requests' = [requests EXCEPT ![i] = Plug(k)!Idle]
      PROVE  (\A q : ~Loads(requests'[i], q)) /\ \A j \in k.calls \ {i} : requests'[j] = requests[j]
  BY <1>z, <1>t, IdleRests
<1>u. ASSUME UNCHANGED <<plugin, life, loaded, adrift, requests>> PROVE GateInv(k)'
  BY <1>u DEF GateInv, GateAt, Up, OnTrial, Fit
<1>o. ASSUME NEW q \in k.plugins, UNCHANGED <<loaded, adrift, requests>>,
             plugin'[q].status \notin {"enabled", "running"}, \A r \in k.plugins \ {q} : plugin'[r] = plugin[r],
             \A r \in k.plugins \ {q} : life'[r] = life[r]
      PROVE  GateInv(k)'
  BY <1>o, GateAtOnce
<1>e. ASSUME NEW i \in k.calls, NEW p \in k.plugins, p = requests[i].p,
             requests' = [requests EXCEPT ![i] = Plug(k)!Idle],
             plugin'[p].status \notin {"enabled", "running"} \/ p \in adrift',
             \A q \in k.plugins \ {p} : plugin'[q] = plugin[q] /\ life'[q] = life[q],
             \A q \in k.plugins \ {p} : (q \in loaded' => q \in loaded) /\ (q \in adrift => q \in adrift')
      PROVE  GateInv(k)'
  BY <1>c, <1>e, GateEnds
<1>a. ASSUME NEW i \in k.calls, NEW c, requests' = [requests EXCEPT ![i] = c],
             UNCHANGED <<plugin, life, loaded>>, adrift \subseteq adrift',
             \/ /\ c.await = requests[i].await /\ c.plan = requests[i].plan
                /\ c.p = requests[i].p /\ c.op = requests[i].op
             \/ requests[i] = Plug(k)!Idle /\ c.await = "unload"
      PROVE  GateInv(k)'
  <2>1. requests'[i] = c /\ \A j \in k.calls \ {i} : requests'[j] = requests[j]
    BY <1>a, <1>t
  <2>2. ASSUME NEW q \in k.plugins \ k.bundled PROVE GateAt(k, q)'
    <3>1. CASE requests[i] = Plug(k)!Idle /\ c.await = "unload"
      <4>1. ~Loads(requests[i], q) /\ ~Unloads(requests[i], q) /\ ~Loads(requests'[i], q)
        BY <2>1, <3>1, IdleRests DEF Loads
      <4>2. QED  BY <1>a, <2>1, <2>2, <4>1, GateElse DEF GateInv
    <3>2. CASE /\ c.await = requests[i].await /\ c.plan = requests[i].plan
               /\ c.p = requests[i].p /\ c.op = requests[i].op
      BY <1>a, <2>1, <2>2, <3>2, GateElse DEF GateInv
    <3>3. QED  BY <1>a, <3>1, <3>2
  <2>3. QED  BY <2>2 DEF GateInv
<1>1. CASE Plug(k)!PluginNext
  <2>1. ASSUME NEW p \in k.plugins, Plug(k)!installPlugin(p) PROVE GateInv(k)'
    BY <2>1, <1>o, <1>t DEF Plug!installPlugin
  <2>2. ASSUME NEW p \in k.plugins PROVE ~Plug(k)!enableRefused(p)
    BY DEF Plug!enableRefused, Plug!MayEnable, Plug!MayLoad, Plug!UpgradeConstants, PluginTypes, UpgradeTypes
  <2>3. ASSUME NEW p \in k.plugins, Plug(k)!disableAtOnce(p) PROVE GateInv(k)'
    BY <2>3, <1>o, <1>t DEF Plug!disableAtOnce
  <2>4. ASSUME NEW p \in k.plugins, NEW force \in BOOLEAN, Plug(k)!uninstallAtOnce(p, force) PROVE GateInv(k)'
    BY <2>4, <1>o, <1>t DEF Plug!uninstallAtOnce
  <2>5. ASSUME NEW i \in k.calls, NEW p \in k.plugins, Plug(k)!enablePlugin(i, p) PROVE GateInv(k)'
    BY <2>5, <1>c, GateStartEnable DEF Plug!enablePlugin
  <2>6. ASSUME NEW i \in k.calls, NEW p \in k.plugins, NEW op, Plug(k)!StartUnload(i, p, op) PROVE GateInv(k)'
    <3>1. PICK c : c = [Plug(k)!Idle EXCEPT !.op = op, !.p = p, !.await = "unload"]
      OBVIOUS
    <3>2. c.await = "unload"
      BY <3>1 DEF Plug!Idle
    <3>3. QED  BY <2>6, <1>a, <3>1, <3>2 DEF Plug!StartUnload
  <2>7. ASSUME NEW i \in k.calls, Plug(k)!Activates(i) \/ Plug(k)!Deactivates(i) PROVE GateInv(k)'
    <3>1. PICK h : h = requests[i].hook + 1
      OBVIOUS
    <3>2. PICK c : c = [requests[i] EXCEPT !.hook = h]
      OBVIOUS
    <3>3. c.await = requests[i].await /\ c.plan = requests[i].plan /\ c.p = requests[i].p /\ c.op = requests[i].op
      BY <1>t, <3>2 DEF PluginRequests
    <3>4. /\ requests' = [requests EXCEPT ![i] = c] /\ UNCHANGED <<plugin, life, loaded>> /\ adrift \subseteq adrift'
      BY <2>7, <3>1, <3>2 DEF Plug!Activates, Plug!Deactivates
    <3>5. QED  BY <1>a, <3>3, <3>4
  <2>8. ASSUME NEW i \in k.calls PROVE ~Plug(k)!LoadContinues(i)
    <3>1. \A x : Tail(<<x>>) = <<>>
      OBVIOUS
    <3>2. QED  BY <3>1 DEF AloneInv, Plug!LoadContinues, Plug!LoadDone
  <2>9. ASSUME NEW i \in k.calls, Plug(k)!disableEnds(i) PROVE GateInv(k)'
    BY <2>9, <1>c, <1>t, GateFails DEF Plug!disableEnds
  <2>10. ASSUME NEW i \in k.calls, Plug(k)!uninstallEnds(i) PROVE GateInv(k)'
    <3>p. PICK p \in k.plugins : p = requests[i].p
      BY <1>t
    <3>1. requests' = [requests EXCEPT ![i] = Plug(k)!Idle]
      BY <2>10 DEF Plug!uninstallEnds
    <3>2. CASE Plug(k)!UnloadThrows(i) /\ UNCHANGED life
      BY <1>c, <3>p, <3>1, <3>2, GateFails
    <3>3. CASE Plug(k)!Deactivated(i) /\ plugin' = [plugin EXCEPT ![p] = Plug(k)!Absent]
               /\ life' = [life EXCEPT ![p] = Plug(k)!NoLife]
      <4>1. plugin'[p] = Plug(k)!Absent /\ \A q \in k.plugins \ {p} : plugin'[q] = plugin[q] /\ life'[q] = life[q]
        BY <1>t, <3>3
      <4>2. \A q \in k.plugins \ {p} : (q \in loaded' => q \in loaded) /\ (q \in adrift => q \in adrift')
        BY <1>c, <3>p, <3>3, GateFailedRows
      <4>3. QED  BY <1>e, <1>t, <3>p, <3>1, <4>1, <4>2
    <3>4. QED  BY <2>10, <3>p, <3>2, <3>3 DEF Plug!uninstallEnds
  <2>11. ASSUME NEW i \in k.calls, NEW ok \in BOOLEAN, Plug(k)!enableEnds(i, ok) PROVE GateInv(k)'
    <3>p. PICK p \in k.plugins : p = requests[i].p
      BY <1>t
    <3>1. requests' = [requests EXCEPT ![i] = Plug(k)!Idle] /\ UNCHANGED life /\ requests[i].op = "enable"
      BY <2>11 DEF Plug!enableEnds
    <3>2. CASE Plug(k)!LoadThrows(i, ok)
      BY <1>c, <3>p, <3>1, <3>2, GateFails
    <3>3. CASE Plug(k)!Loaded(i)
      BY <1>c, <1>z, <3>p, <3>1, <3>3, GateLoaded
    <3>4. QED  BY <2>11, <3>2, <3>3 DEF Plug!enableEnds
  <2>12. CASE Plug(k)!Restart
    BY <2>12, GateDies DEF Plug!Restart
  <2>13. QED  BY <1>1, <2>1, <2>2, <2>3, <2>4, <2>5, <2>6, <2>7, <2>8, <2>9, <2>10, <2>11, <2>12
              DEF Plug!PluginNext, Plug!Requests
<1>2. ASSUME NEW p \in k.plugins, NEW i \in k.calls, NEW n \in 1..3, Plug(k)!registerShadowVersion(p, i, n)
      PROVE  GateInv(k)'
  <2>1. CASE n < 3
    BY <1>2, <2>1, GateDies DEF Plug!registerShadowVersion, Plug!Cut, Plug!CallsAfter
  <2>2. CASE n = 3
    <3>1. /\ UNCHANGED <<plugin, loaded, adrift>> /\ requests[i] = Plug(k)!Idle
          /\ requests' = [requests EXCEPT ![i] = Plug(k)!Idle]
          /\ plugin[p].status \notin {"enabled", "running"}
      BY <1>2, <2>2 DEF Plug!registerShadowVersion, Plug!Cut, Plug!CallsAfter, Plug!Inactive
    <3>2. UNCHANGED requests /\ \A q \in k.plugins \ {p} : life'[q] = life[q]
      BY <1>2, <1>t, <2>2, <3>1 DEF Plug!registerShadowVersion
    <3>3. QED  BY <1>o, <3>1, <3>2
  <2>3. QED  BY <2>1, <2>2
<1>3. ASSUME NEW i \in k.calls, NEW p \in k.plugins, Plug(k)!startCanary(i, p) \/ Plug(k)!startPromote(i, p)
      PROVE  GateInv(k)'
  BY <1>3, <1>c, GateStartEnable DEF Plug!startCanary, Plug!startPromote
<1>4. ASSUME NEW i \in k.calls, NEW p \in k.plugins, Plug(k)!rollbackAtOnce(i, p) PROVE GateInv(k)'
  <2>1. /\ plugin' = [plugin EXCEPT ![p] = snap[p].row] /\ life' = [life EXCEPT ![p] = Plug(k)!Target(p)]
        /\ UNCHANGED <<loaded, adrift, requests>>
    BY <1>4 DEF Plug!rollbackAtOnce, Plug!Restored
  <2>2. plugin'[p].status \notin {"enabled", "running"} /\ \A q \in k.plugins \ {p} : plugin'[q] = plugin[q] /\ life'[q] = life[q]
    BY <1>t, <2>1 DEF OffRows
  <2>3. QED  BY <1>o, <2>1, <2>2
<1>5. ASSUME NEW i \in k.calls, NEW p \in k.plugins, Plug(k)!startRollback(i, p) PROVE GateInv(k)'
  <2>1. PICK c : c = [Plug(k)!Idle EXCEPT !.op = "rollback", !.p = p, !.await = "unload",
                                          !.row = snap[p].row, !.life = Plug(k)!Target(p)]
    OBVIOUS
  <2>2. c.await = "unload"
    BY <2>1 DEF Plug!Idle
  <2>3. QED  BY <1>5, <1>a, <2>1, <2>2 DEF Plug!startRollback
<1>6. ASSUME NEW i \in k.calls, Plug(k)!rollbackEnds(i) PROVE GateInv(k)'
  <2>p. PICK p \in k.plugins : p = requests[i].p
    BY <1>t
  <2>1. requests' = [requests EXCEPT ![i] = Plug(k)!Idle]
    BY <1>6 DEF Plug!rollbackEnds
  <2>2. CASE (Plug(k)!Unloaded(i) \/ Plug(k)!UnloadThrows(i)) /\ UNCHANGED life
    BY <1>c, <2>p, <2>1, <2>2, GateFails
  <2>3. CASE Plug(k)!Deactivated(i) /\ Plug(k)!Restored(p, requests[i].row, requests[i].life)
    <3>1. /\ plugin' = [plugin EXCEPT ![p] = requests[i].row] /\ life' = [life EXCEPT ![p] = requests[i].life]
          /\ requests[i].row.status \notin {"enabled", "running"}
      BY <1>6, <1>t, <2>3 DEF Plug!rollbackEnds, Plug!Restored, RequestOK
    <3>2. /\ plugin'[p].status \notin {"enabled", "running"}
          /\ \A q \in k.plugins \ {p} : plugin'[q] = plugin[q] /\ life'[q] = life[q]
      BY <1>t, <3>1
    <3>3. \A q \in k.plugins \ {p} : (q \in loaded' => q \in loaded) /\ (q \in adrift => q \in adrift')
      BY <1>c, <2>p, <2>3, GateFailedRows
    <3>4. QED  BY <1>e, <2>p, <2>1, <3>2, <3>3
  <2>4. QED  BY <1>6, <2>p, <2>2, <2>3 DEF Plug!rollbackEnds
\* A canary is over: the rows of the others stay as they are.
<1>n. ASSUME NEW i \in k.calls, NEW ok \in BOOLEAN,
             Plug(k)!canaryFailsToStart(i, ok) \/ Plug(k)!canaryPasses(i) \/ Plug(k)!canaryStays(i)
      PROVE  /\ requests' = [requests EXCEPT ![i] = Plug(k)!Idle]
             /\ \A q \in k.plugins \ {requests[i].p} : life'[q] = life[q]
  BY <1>n, <1>t DEF Plug!canaryFailsToStart, Plug!canaryPasses, Plug!canaryStays, Plug!FiledFailure
<1>7. ASSUME NEW i \in k.calls, NEW ok \in BOOLEAN, Plug(k)!canaryFailsToStart(i, ok) PROVE GateInv(k)'
  <2>p. PICK p \in k.plugins : p = requests[i].p
    BY <1>t
  <2>1. PICK r : r = Plug(k)!Set(plugin[p], requests[i].row.status, requests[i].row.enabled)
    OBVIOUS
  <2>2. r.status \notin {"enabled", "running"}
    BY <1>7, <1>t, <2>1 DEF Plug!canaryFailsToStart, RequestOK, Plug!Set, Plug!Absent
  <2>3. plugin' = [plugin EXCEPT ![p] = r] /\ UNCHANGED loaded /\ adrift \subseteq adrift'
    BY <1>7, <2>p, <2>1 DEF Plug!canaryFailsToStart, Plug!LeftBehind
  <2>4. plugin'[p].status \notin {"enabled", "running"} /\ \A q \in k.plugins \ {p} : plugin'[q] = plugin[q]
    BY <1>t, <2>2, <2>3
  <2>5. QED  BY <1>7, <1>e, <1>n, <2>p, <2>3, <2>4
<1>8. ASSUME NEW i \in k.calls, Plug(k)!canaryRuns(i) PROVE GateInv(k)'
  <2>p. PICK p \in k.plugins : p = requests[i].p
    BY <1>t
  <2>1. PICK c : c = [requests[i] EXCEPT !.await = "unload", !.plan = <<>>, !.hook = 0]
    OBVIOUS
  <2>2. requests' = [requests EXCEPT ![i] = c] /\ UNCHANGED life /\ Plug(k)!Loaded(i)
    BY <1>8, <1>t, <2>1 DEF Plug!canaryRuns
  <2>3. c.await = "unload" /\ c.p = p
    BY <1>t, <2>p, <2>1 DEF PluginRequests
  <2>4. requests'[i] = c /\ \A j \in k.calls \ {i} : requests'[j] = requests[j]
    BY <1>t, <2>2
  <2>5. Unloads(requests'[i], p) /\ \A q : ~Loads(requests'[i], q)
    BY <2>3, <2>4 DEF Unloads, Loads
  <2>6. QED  BY <1>c, <2>p, <2>2, <2>4, <2>5, GateLoaded
<1>9. ASSUME NEW i \in k.calls, Plug(k)!canaryPasses(i) PROVE GateInv(k)'
  BY <1>9, <1>c, <1>n, <1>t, GateFails DEF Plug!canaryPasses
<1>10. ASSUME NEW i \in k.calls, Plug(k)!canaryStays(i) PROVE GateInv(k)'
  <2>p. PICK p \in k.plugins : p = requests[i].p
    BY <1>t
  <2>1. p \in adrift' /\ adrift \subseteq adrift' /\ UNCHANGED loaded /\ \A q \in k.plugins \ {p} : plugin'[q] = plugin[q]
    BY <1>10, <1>t, <2>p DEF Plug!canaryStays
  <2>2. QED  BY <1>10, <1>e, <1>n, <2>p, <2>1
<1>11. ASSUME NEW i \in k.calls, NEW ok \in BOOLEAN, Plug(k)!promoteFails(i, ok) PROVE GateInv(k)'
  BY <1>11, <1>c, <1>t, GateFails DEF Plug!promoteFails
<1>12. ASSUME NEW i \in k.calls, NEW n \in 1..2, Plug(k)!promoteEnds(i, n) PROVE GateInv(k)'
  <2>p. PICK p \in k.plugins : p = requests[i].p
    BY <1>t
  <2>1. PICK l : l = [requests[i].life EXCEPT !.channel = "active", !.compat = "compatible"]
    OBVIOUS
  <2>2. l.channel = "active" /\ l.compat = "compatible"
    <3>1. requests[i].life \in Plug(k)!Lives
      BY <1>t DEF PluginRequests
    <3>2. QED  BY <2>1, <3>1 DEF Plug!Lives
  <2>3. life' = [life EXCEPT ![p] = l]
    BY <1>12, <2>p, <2>1 DEF Plug!promoteEnds
  <2>4. Fit(p)' /\ \A q \in k.plugins \ {p} : life'[q] = life[q]
    BY <1>t, <2>2, <2>3 DEF Fit
  <2>5. CASE Plug(k)!Loaded(i) /\ requests' = [requests EXCEPT ![i] = Plug(k)!Idle]
    BY <1>c, <1>z, <2>p, <2>4, <2>5, GateLoaded
  <2>6. CASE Plug(k)!Cut(1, 2) /\ Plug(k)!CallsAfter(1, 2, i)
    BY <2>6, GateDies DEF Plug!Cut, Plug!CallsAfter
  <2>7. QED  BY <1>12, <2>5, <2>6 DEF Plug!promoteEnds
<1>13. CASE UNCHANGED Plug(k)!vars
  BY <1>13, <1>u DEF Plug!vars, Plug!pvars
<1>14. QED  BY <1>1, <1>2, <1>3, <1>4, <1>5, <1>6, <1>7, <1>8, <1>9, <1>10, <1>11, <1>12, <1>13 DEF Plug!Next

\* What holds of every behaviour of the lifecycle, whatever requests overlap.
UpgradeKept(k) == UpgradeTypes(k) /\ AloneInv(k) /\ KeptInv(k) /\ GateInv(k)

LEMMA UpgradeKeptInit ==
    ASSUME NEW CONSTANT k, Plug(k)!UpgradeConstants, Plug(k)!Init PROVE UpgradeKept(k)
  BY UpgradeTypesInit, AloneInit, KeptInit, GateInit DEF UpgradeKept, Plug!Init

LEMMA UpgradeKeptStep ==
    ASSUME NEW CONSTANT k, Plug(k)!UpgradeConstants, UpgradeKept(k), [Plug(k)!Next]_(Plug(k)!vars)
    PROVE  UpgradeKept(k)'
  BY UpgradeTypesStep, AloneStep, KeptNext, GateStep DEF UpgradeKept

LEMMA UpgradeKeptGate == ASSUME NEW CONSTANT k, UpgradeKept(k) PROVE Plug(k)!GateHolds
  BY GateImplies DEF UpgradeKept

\* The gate of enablePlugin and of the loader: an external plugin has a module
\* activated only while it is promoted, or a load or unload of it is under way,
\* with any number of requests in flight, registrations and restarts and any
\* hook failing, unless an operation on it failed or crossed another.
THEOREM GateHoldsHolds ==
    ASSUME NEW CONSTANT k, Plug(k)!UpgradeConstants
    PROVE  Plug(k)!Spec => []Plug(k)!GateHolds
<1>1. Plug(k)!Init => UpgradeKept(k)
  BY UpgradeKeptInit
<1>2. UpgradeKept(k) /\ [Plug(k)!Next]_(Plug(k)!vars) => UpgradeKept(k)'
  BY UpgradeKeptStep
<1>3. UpgradeKept(k) => Plug(k)!GateHolds
  BY UpgradeKeptGate
<1>4. QED  BY <1>1, <1>2, <1>3, PTL DEF Plug!Spec

LEMMA RollbackStopsStep ==
    ASSUME NEW CONSTANT k, Plug(k)!UpgradeConstants, UpgradeKept(k), UpgradeKept(k)' PROVE Plug(k)!RollbackStops
<1>t. /\ plugin \in [k.plugins -> PluginRows(k)] /\ \A i \in k.calls : RequestOK(requests[i])
      /\ \A p \in k.plugins : snap[p].row \in OffRows(k)
  BY DEF UpgradeKept, UpgradeTypes, PluginTypes, RequestsOK, Snaps
<1>1. ASSUME NEW p \in k.plugins, plugin'[p].status # "running"
      PROVE  alive'[p] = {} \/ Plug(k)!Busy(p)' \/ p \in adrift'
  <2>1. KeptAt(k, p)'
    BY DEF UpgradeKept, KeptInv
  <2>2. QED  BY <1>1, <2>1 DEF KeptAt, OffAt, Loads, Unloads, Plug!Busy, Plug!BeingLoaded, Plug!BeingUnloaded,
                               Plug!Loading
<1>2. ASSUME NEW i \in k.calls, NEW p \in k.plugins, Plug(k)!rollbackAtOnce(i, p)
      PROVE  plugin'[p].status # "running"
  <2>1. plugin' = [plugin EXCEPT ![p] = snap[p].row]
    BY <1>2 DEF Plug!rollbackAtOnce, Plug!Restored
  <2>2. QED  BY <1>t, <2>1 DEF OffRows
<1>3. ASSUME NEW i \in k.calls, NEW p \in k.plugins, Plug(k)!rollbackEnds(i), requests[i].p = p
      PROVE  plugin'[p].status # "running" \/ p \in adrift'
  <2>1. CASE Plug(k)!Restored(p, requests[i].row, requests[i].life)
    <3>1. plugin' = [plugin EXCEPT ![p] = requests[i].row] /\ requests[i].row.status # "running"
      BY <1>t, <1>3, <2>1 DEF Plug!Restored, Plug!rollbackEnds, RequestOK
    <3>2. QED  BY <1>t, <3>1
  <2>2. CASE Plug(k)!Unloaded(i) \/ Plug(k)!UnloadThrows(i)
    BY <1>3, <2>2, GateFailedRows DEF UpgradeKept, UpgradeTypes, Plug!UpgradeConstants
  <2>3. QED  BY <1>3, <2>1, <2>2 DEF Plug!rollbackEnds
<1>4. QED  BY <1>1, <1>2, <1>3 DEF Plug!RollbackStops

\* rollback: no module of the plugin stays activated, with any number of
\* requests in flight, registrations and restarts and any hook failing, unless
\* another load or unload is under way or one failed or crossed another.
THEOREM RollbackStopsHolds ==
    ASSUME NEW CONSTANT k, Plug(k)!UpgradeConstants
    PROVE  Plug(k)!Spec => [][Plug(k)!RollbackStops]_(Plug(k)!vars)
<1>1. Plug(k)!Init => UpgradeKept(k)
  BY UpgradeKeptInit
<1>2. UpgradeKept(k) /\ [Plug(k)!Next]_(Plug(k)!vars) => UpgradeKept(k)'
  BY UpgradeKeptStep
<1>3. UpgradeKept(k) /\ UpgradeKept(k)' => [Plug(k)!RollbackStops]_(Plug(k)!vars)
  BY RollbackStopsStep
<1>4. QED  BY <1>1, <1>2, <1>3, PTL DEF Plug!Spec

-----------------------------------------------------------------------------
(* Registrations and their canaries                                        *)

\* A plugin holds a registration when its row, its snapshot or a request for
\* it has it. Every registration is of one plugin.
Holds(k, p, w) == \/ life[p].window = w \/ snap[p].life.window = w
                  \/ \E j \in k.calls : requests[j].p = p /\ requests[j].life.window = w
WindowInv(k) ==
    /\ mixed \subseteq 0..windows
    /\ \A p \in k.plugins, w \in Nat : Holds(k, p, w) => w <= windows
    /\ \A p, q \in k.plugins, w \in Nat \ {0} : Holds(k, p, w) /\ Holds(k, q, w) => p = q

LEMMA WindowInit == ASSUME NEW CONSTANT k, Plug(k)!UpgradeConstants, Plug(k)!Init PROVE WindowInv(k)
<1>1. /\ \A p \in k.plugins : life[p] = Plug(k)!NoLife /\ snap[p] = Plug(k)!NoSnap
      /\ requests = [i \in k.calls |-> Plug(k)!Idle] /\ windows = 0 /\ mixed = {}
  BY DEF Plug!Init, Plug!PluginInit
<1>2. Plug(k)!NoLife.window = 0 /\ Plug(k)!NoSnap.life.window = 0 /\ Plug(k)!Idle.life.window = 0
  BY DEF Plug!NoLife, Plug!NoSnap, Plug!Idle
<1>3. \A p \in k.plugins, w \in Nat : Holds(k, p, w) => w = 0
  BY <1>1, <1>2 DEF Holds
<1>4. QED  BY <1>1, <1>3 DEF WindowInv

\* A step that hands on what is there, or registers one version.
LEMMA WindowKeeps ==
    ASSUME NEW CONSTANT k, WindowInv(k), windows \in Nat, windows' = windows, mixed' \subseteq 0..windows,
           \A p \in k.plugins, w \in Nat \ {0} : Holds(k, p, w)' => Holds(k, p, w)
    PROVE  WindowInv(k)'
<1>1. \A p \in k.plugins, w \in Nat : Holds(k, p, w)' => w <= windows'
  BY DEF WindowInv
<1>2. \A p, q \in k.plugins, w \in Nat \ {0} : Holds(k, p, w)' /\ Holds(k, q, w)' => p = q
  BY DEF WindowInv
<1>3. QED  BY <1>1, <1>2 DEF WindowInv

LEMMA WindowNew ==
    ASSUME NEW CONSTANT k, WindowInv(k), windows \in Nat, windows' = windows + 1, mixed' = mixed, NEW r \in k.plugins,
           \A p \in k.plugins, w \in Nat \ {0} : Holds(k, p, w)' => Holds(k, p, w) \/ (p = r /\ w = windows + 1)
    PROVE  WindowInv(k)'
<1>1. \A p \in k.plugins, w \in Nat : Holds(k, p, w)' => w <= windows'
  BY DEF WindowInv
<1>2. \A p \in k.plugins : ~Holds(k, p, windows + 1)
  BY DEF WindowInv
<1>3. \A p, q \in k.plugins, w \in Nat \ {0} : Holds(k, p, w)' /\ Holds(k, q, w)' => p = q
  BY <1>2 DEF WindowInv
<1>4. QED  BY <1>1, <1>3 DEF WindowInv

LEMMA WindowStep ==
    ASSUME NEW CONSTANT k, Plug(k)!UpgradeConstants, UpgradeTypes(k), WindowInv(k), [Plug(k)!Next]_(Plug(k)!vars)
    PROVE  WindowInv(k)'
<1>c. Plug(k)!PluginConstants /\ PluginTypes(k) /\ windows \in Nat
  BY DEF Plug!UpgradeConstants, UpgradeTypes
<1>t. /\ requests \in [k.calls -> PluginRequests(k)] /\ life \in [k.plugins -> Plug(k)!Lives]
      /\ snap \in [k.plugins -> Snaps(k)]
      /\ Plug(k)!Idle \in PluginRequests(k) /\ Plug(k)!Idle.life.window = 0 /\ Plug(k)!NoLife.window = 0
      /\ \A i \in k.calls : /\ requests[i].p \in k.plugins /\ requests[i].life \in Plug(k)!Lives
                            /\ requests[i].life.window \in Nat
      /\ \A p \in k.plugins : life[p].window \in Nat /\ snap[p].life \in Plug(k)!Lives
  <2>1. requests \in [k.calls -> PluginRequests(k)] /\ life \in [k.plugins -> Plug(k)!Lives] /\ snap \in [k.plugins -> Snaps(k)]
    BY <1>c DEF PluginTypes, RequestsOK, UpgradeTypes
  <2>2. \A i \in k.calls : requests[i].p \in k.plugins /\ requests[i].life \in Plug(k)!Lives
    BY <2>1 DEF PluginRequests
  <2>3. \A l \in Plug(k)!Lives : l.window \in Nat
    BY DEF Plug!Lives
  <2>4. \A p \in k.plugins : snap[p].life \in Plug(k)!Lives
    BY <2>1 DEF Snaps
  <2>5. Plug(k)!Idle \in PluginRequests(k) /\ Plug(k)!Idle.life.window = 0 /\ Plug(k)!NoLife.window = 0
    BY <1>c, IdleRequest DEF Plug!Idle, Plug!NoLife
  <2>6. QED  BY <2>1, <2>2, <2>3, <2>4, <2>5
<1>b. /\ \A p \in k.plugins : life[p].window \in 0..windows
      /\ \A i \in k.calls : requests[i].life.window \in 0..windows
      /\ mixed \subseteq 0..windows
  BY <1>c, <1>t DEF WindowInv, Holds
\* A request changes, and holds nothing but what its plugin did.
<1>r. ASSUME NEW i \in k.calls, NEW c, requests' = [requests EXCEPT ![i] = c],
             c.life.window = 0 \/ (c.p \in k.plugins /\ Holds(k, c.p, c.life.window)),
             \A p \in k.plugins : life'[p].window = 0 \/ Holds(k, p, life'[p].window),
             UNCHANGED <<snap, windows>>, mixed' \subseteq 0..windows
      PROVE  WindowInv(k)'
  <2>1. \A p \in k.plugins, w \in Nat \ {0} : Holds(k, p, w)' => Holds(k, p, w)
    <3>1. requests'[i] = c /\ \A j \in k.calls \ {i} : requests'[j] = requests[j]
      BY <1>r, <1>t
    <3>2. QED  BY <1>r, <3>1 DEF Holds
  <2>2. QED  BY <1>c, <1>r, <2>1, WindowKeeps
<1>d. ASSUME UNCHANGED requests \/ requests' = [j \in k.calls |-> Plug(k)!Idle],
             \A p \in k.plugins : life'[p].window = 0 \/ Holds(k, p, life'[p].window),
             UNCHANGED <<snap, windows>>, mixed' \subseteq 0..windows
      PROVE  WindowInv(k)'
  <2>1. \A p \in k.plugins, w \in Nat \ {0} : Holds(k, p, w)' => Holds(k, p, w)
    BY <1>d, <1>t DEF Holds
  <2>2. QED  BY <1>c, <1>d, <2>1, WindowKeeps
<1>z. ASSUME NEW i \in k.calls, requests' = [requests EXCEPT ![i] = Plug(k)!Idle],
             \A p \in k.plugins : life'[p].window = 0 \/ Holds(k, p, life'[p].window),
             UNCHANGED <<snap, windows>>, mixed' \subseteq 0..windows
      PROVE  WindowInv(k)'
  BY <1>r, <1>t, <1>z
\* The registration in the row is held by the plugin.
<1>h. \A p \in k.plugins : Holds(k, p, life[p].window) /\ Holds(k, p, snap[p].life.window)
  BY DEF Holds
<1>g. \A i \in k.calls : Holds(k, requests[i].p, requests[i].life.window)
  BY DEF Holds
<1>1. CASE Plug(k)!PluginNext /\ UNCHANGED Plug(k)!uvars
  <2>1. /\ \A p \in k.plugins : life'[p] = life[p] \/ life'[p] = Plug(k)!NoLife
        /\ UNCHANGED <<snap, windows, mixed>> /\ mixed' \subseteq 0..windows
    BY <1>1, <1>b, <1>c, RoutesKeep DEF Plug!uvars
  <2>2. \A p \in k.plugins : life'[p].window = 0 \/ Holds(k, p, life'[p].window)
    BY <1>h, <1>t, <2>1
  <2>3. ASSUME NEW p \in k.plugins, NEW force \in BOOLEAN,
               \/ Plug(k)!installPlugin(p) \/ Plug(k)!enableRefused(p) \/ Plug(k)!disableAtOnce(p)
               \/ Plug(k)!uninstallAtOnce(p, force)
        PROVE  WindowInv(k)'
    BY <2>3, <1>d, <2>1, <2>2 DEF Plug!installPlugin, Plug!enableRefused, Plug!disableAtOnce, Plug!uninstallAtOnce
  <2>4. ASSUME NEW i \in k.calls, NEW p \in k.plugins, Plug(k)!enablePlugin(i, p) PROVE WindowInv(k)'
    <3>1. PICK c : c = [op |-> "enable", p |-> p, await |-> "load", plan |-> k.order[p], hook |-> 0,
                        row |-> plugin[p], life |-> Plug(k)!NoLife]
      OBVIOUS
    <3>2. c.life.window = 0
      BY <1>t, <3>1
    <3>3. requests' = [requests EXCEPT ![i] = c]
      BY <2>4, <3>1 DEF Plug!enablePlugin, Plug!StartEnable
    <3>4. QED  BY <1>r, <2>1, <2>2, <3>2, <3>3
  <2>5. ASSUME NEW i \in k.calls, NEW p \in k.plugins, NEW op, Plug(k)!StartUnload(i, p, op) PROVE WindowInv(k)'
    <3>1. PICK c : c = [Plug(k)!Idle EXCEPT !.op = op, !.p = p, !.await = "unload"]
      OBVIOUS
    <3>2. c.life.window = 0
      BY <3>1 DEF Plug!Idle, Plug!NoLife
    <3>3. QED  BY <1>r, <2>1, <2>2, <2>5, <3>1, <3>2 DEF Plug!StartUnload
  <2>6. ASSUME NEW i \in k.calls, Plug(k)!Activates(i) \/ Plug(k)!Deactivates(i) PROVE WindowInv(k)'
    <3>1. PICK c : c = [requests[i] EXCEPT !.hook = @ + 1]
      OBVIOUS
    <3>2. c.p = requests[i].p /\ c.life = requests[i].life
      BY <1>t, <3>1 DEF PluginRequests
    <3>3. requests' = [requests EXCEPT ![i] = c]
      BY <2>6, <3>1 DEF Plug!Activates, Plug!Deactivates
    <3>4. QED  BY <1>g, <1>r, <1>t, <2>1, <2>2, <3>2, <3>3
  <2>7. ASSUME NEW i \in k.calls, Plug(k)!LoadContinues(i) PROVE WindowInv(k)'
    <3>1. PICK c : c = [requests[i] EXCEPT !.plan = Tail(requests[i].plan), !.hook = 0]
      OBVIOUS
    <3>2. c.p = requests[i].p /\ c.life = requests[i].life
      BY <1>t, <3>1 DEF PluginRequests
    <3>3. requests' = [requests EXCEPT ![i] = c] \/ requests' = [requests EXCEPT ![i] = Plug(k)!Idle]
      BY <2>7, <3>1 DEF Plug!LoadContinues
    <3>4. QED  BY <1>g, <1>r, <1>t, <1>z, <2>1, <2>2, <3>2, <3>3
  <2>8. ASSUME NEW i \in k.calls, NEW ok \in BOOLEAN,
               Plug(k)!disableEnds(i) \/ Plug(k)!uninstallEnds(i) \/ Plug(k)!enableEnds(i, ok)
        PROVE  WindowInv(k)'
    BY <2>8, <1>z, <2>1, <2>2 DEF Plug!disableEnds, Plug!uninstallEnds, Plug!enableEnds
  <2>9. CASE Plug(k)!Restart
    BY <2>9, <1>d, <2>1, <2>2 DEF Plug!Restart
  <2>10. QED  BY <1>1, <2>3, <2>4, <2>5, <2>6, <2>7, <2>8, <2>9 DEF Plug!PluginNext, Plug!Requests
<1>2. ASSUME NEW p \in k.plugins, NEW i \in k.calls, NEW n \in 1..3, Plug(k)!registerShadowVersion(p, i, n)
      PROVE  WindowInv(k)'
  <2>1. windows' = windows + 1 /\ mixed' = mixed /\ snap' = [snap EXCEPT ![p] = [row |-> plugin[p], life |-> life[p]]]
    BY <1>2 DEF Plug!registerShadowVersion
  <2>2. \A q \in k.plugins : life'[q].window = life[q].window \/ (q = p /\ life'[q].window = windows + 1)
    <3>1. PICK l : l = [Plug(k)!NoLife EXCEPT !.channel = "shadow", !.compat = "adaptation_required", !.window = windows']
      OBVIOUS
    <3>2. l.window = windows + 1
      BY <2>1, <3>1 DEF Plug!NoLife
    <3>3. life' = life \/ life' = [life EXCEPT ![p] = l]
      BY <1>2, <3>1 DEF Plug!registerShadowVersion
    <3>4. QED  BY <1>t, <3>2, <3>3
  <2>3. snap'[p].life = life[p] /\ \A q \in k.plugins \ {p} : snap'[q] = snap[q]
    BY <1>t, <2>1
  <2>4. \A j \in k.calls : requests'[j] = requests[j] \/ requests'[j] = Plug(k)!Idle
    BY <1>2, <1>t DEF Plug!registerShadowVersion, Plug!CallsAfter
  <2>5. \A q \in k.plugins, w \in Nat \ {0} : Holds(k, q, w)' => Holds(k, q, w) \/ (q = p /\ w = windows + 1)
    BY <1>t, <2>2, <2>3, <2>4 DEF Holds
  <2>6. QED  BY <1>c, <2>1, <2>5, WindowNew
<1>3. ASSUME NEW i \in k.calls, NEW p \in k.plugins, Plug(k)!startCanary(i, p) \/ Plug(k)!startPromote(i, p)
      PROVE  WindowInv(k)'
  <2>1. PICK op : Plug(k)!StartEnable(i, p, op, life[p]) /\ UNCHANGED Plug(k)!uvars
    BY <1>3 DEF Plug!startCanary, Plug!startPromote
  <2>2. PICK c : c = [op |-> op, p |-> p, await |-> "load", plan |-> k.order[p], hook |-> 0,
                      row |-> plugin[p], life |-> life[p]]
    OBVIOUS
  <2>3. c.p = p /\ c.life = life[p] /\ requests' = [requests EXCEPT ![i] = c] /\ UNCHANGED <<life, snap, windows, mixed>>
    BY <2>1, <2>2 DEF Plug!StartEnable, Plug!uvars
  <2>4. QED  BY <1>b, <1>h, <1>r, <2>3
<1>l. \A p \in k.plugins : Plug(k)!Target(p).window = snap[p].life.window
  BY <1>t DEF Plug!Target, Plug!Lives
<1>w. \A p \in k.plugins : snap[p].life.window \in 0..windows
  <2>1. \A l \in Plug(k)!Lives : l.window \in Nat
    BY DEF Plug!Lives
  <2>2. QED  BY <1>c, <1>h, <1>t, <2>1 DEF WindowInv
<1>4. ASSUME NEW i \in k.calls, NEW p \in k.plugins, Plug(k)!rollbackAtOnce(i, p) PROVE WindowInv(k)'
  <2>1. /\ life' = [life EXCEPT ![p] = Plug(k)!Target(p)] /\ mixed' = mixed \cup {Plug(k)!Target(p).window}
        /\ UNCHANGED <<snap, windows, requests>>
    BY <1>4 DEF Plug!rollbackAtOnce, Plug!Restored
  <2>2. mixed' \subseteq 0..windows /\ \A q \in k.plugins : life'[q].window = 0 \/ Holds(k, q, life'[q].window)
    BY <1>b, <1>h, <1>l, <1>t, <1>w, <2>1
  <2>3. QED  BY <1>d, <2>1, <2>2
<1>5. ASSUME NEW i \in k.calls, NEW p \in k.plugins, Plug(k)!startRollback(i, p) PROVE WindowInv(k)'
  <2>1. PICK c : c = [Plug(k)!Idle EXCEPT !.op = "rollback", !.p = p, !.await = "unload",
                                          !.row = snap[p].row, !.life = Plug(k)!Target(p)]
    OBVIOUS
  <2>2. c.p = p /\ c.life.window = snap[p].life.window
    BY <1>l, <2>1 DEF Plug!Idle
  <2>3. requests' = [requests EXCEPT ![i] = c] /\ UNCHANGED <<life, snap, windows, mixed>>
    BY <1>5, <2>1 DEF Plug!startRollback, Plug!uvars
  <2>4. QED  BY <1>b, <1>h, <1>r, <2>2, <2>3
<1>6. ASSUME NEW i \in k.calls, Plug(k)!rollbackEnds(i) PROVE WindowInv(k)'
  <2>p. PICK p \in k.plugins : p = requests[i].p
    BY <1>t
  <2>1. requests' = [requests EXCEPT ![i] = Plug(k)!Idle]
    BY <1>6 DEF Plug!rollbackEnds
  <2>2. CASE UNCHANGED <<life, Plug(k)!uvars>>
    BY <1>b, <1>h, <1>z, <2>1, <2>2 DEF Plug!uvars
  <2>3. CASE Plug(k)!Restored(p, requests[i].row, requests[i].life)
    <3>1. /\ life' = [life EXCEPT ![p] = requests[i].life] /\ mixed' = mixed \cup {requests[i].life.window}
          /\ UNCHANGED <<snap, windows>>
      BY <2>3 DEF Plug!Restored
    <3>2. mixed' \subseteq 0..windows
      BY <1>b, <3>1
    <3>3. \A q \in k.plugins : life'[q].window = 0 \/ Holds(k, q, life'[q].window)
      BY <1>g, <1>h, <1>t, <2>p, <3>1
    <3>4. QED  BY <1>z, <2>1, <3>1, <3>2, <3>3
  <2>4. QED  BY <1>6, <2>p, <2>2, <2>3 DEF Plug!rollbackEnds
<1>7. ASSUME NEW i \in k.calls, NEW ok \in BOOLEAN,
             Plug(k)!canaryFailsToStart(i, ok) \/ Plug(k)!canaryPasses(i) \/ Plug(k)!canaryStays(i)
      PROVE  WindowInv(k)'
  <2>1. /\ requests' = [requests EXCEPT ![i] = Plug(k)!Idle] /\ UNCHANGED <<snap, windows>>
        /\ mixed' = mixed \/ mixed' = mixed \cup {requests[i].life.window, life[requests[i].p].window}
    BY <1>7 DEF Plug!canaryFailsToStart, Plug!canaryPasses, Plug!canaryStays, Plug!Noted
  <2>2. \A q \in k.plugins : life'[q].window = life[q].window
    <3>1. ASSUME NEW q \in k.plugins
          PROVE  /\ [life[q] EXCEPT !.channel = "canary", !.compat = "adaptation_required", !.bad = TRUE].window = life[q].window
                 /\ [life[q] EXCEPT !.channel = "canary", !.compat = "compatible", !.ok = TRUE].window = life[q].window
      BY <1>t DEF Plug!Lives
    <3>2. PICK p \in k.plugins : p = requests[i].p
      BY <1>t
    <3>3. \/ life' = life
          \/ life' = [life EXCEPT ![p] = [life[p] EXCEPT !.channel = "canary", !.compat = "adaptation_required", !.bad = TRUE]]
          \/ life' = [life EXCEPT ![p] = [life[p] EXCEPT !.channel = "canary", !.compat = "compatible", !.ok = TRUE]]
      BY <1>7, <3>2 DEF Plug!canaryFailsToStart, Plug!canaryPasses, Plug!canaryStays, Plug!FiledFailure
    <3>4. QED  BY <1>t, <3>1, <3>3
  <2>3. mixed' \subseteq 0..windows
    BY <1>b, <1>t, <2>1
  <2>4. QED  BY <1>h, <1>z, <2>1, <2>2, <2>3
<1>8. ASSUME NEW i \in k.calls, Plug(k)!canaryRuns(i) PROVE WindowInv(k)'
  <2>1. PICK c : c = [requests[i] EXCEPT !.await = "unload", !.plan = <<>>, !.hook = 0]
    OBVIOUS
  <2>2. c.p = requests[i].p /\ c.life = requests[i].life
    BY <1>t, <2>1 DEF PluginRequests
  <2>3. requests' = [requests EXCEPT ![i] = c] /\ UNCHANGED <<life, snap, windows, mixed>>
    BY <1>8, <1>t, <2>1 DEF Plug!canaryRuns, Plug!uvars
  <2>4. QED  BY <1>b, <1>g, <1>h, <1>r, <1>t, <2>2, <2>3
<1>9. ASSUME NEW i \in k.calls, NEW ok \in BOOLEAN, Plug(k)!promoteFails(i, ok) PROVE WindowInv(k)'
  BY <1>9, <1>b, <1>h, <1>z DEF Plug!promoteFails, Plug!uvars
<1>10. ASSUME NEW i \in k.calls, NEW n \in 1..2, Plug(k)!promoteEnds(i, n) PROVE WindowInv(k)'
  <2>p. PICK p \in k.plugins : p = requests[i].p
    BY <1>t
  <2>1. PICK l : l = [requests[i].life EXCEPT !.channel = "active", !.compat = "compatible"]
    OBVIOUS
  <2>2. l.window = requests[i].life.window
    BY <1>t, <2>1 DEF Plug!Lives
  <2>3. /\ life' = [life EXCEPT ![p] = l] /\ UNCHANGED <<snap, windows>>
        /\ mixed' = mixed \/ mixed' = mixed \cup {requests[i].life.window}
    BY <1>10, <2>p, <2>1 DEF Plug!promoteEnds
  <2>w. requests[i].life.window \in 0..windows
    BY <1>b
  <2>4. mixed' \subseteq 0..windows
    BY <1>b, <2>3, <2>w
  <2>5. \A q \in k.plugins : life'[q].window = 0 \/ Holds(k, q, life'[q].window)
    BY <1>g, <1>h, <1>t, <2>p, <2>2, <2>3
  <2>6. \/ requests' = [requests EXCEPT ![i] = Plug(k)!Idle]
        \/ requests' = [j \in k.calls |-> Plug(k)!Idle]
    BY <1>10 DEF Plug!promoteEnds, Plug!CallsAfter
  <2>7. QED  BY <1>d, <1>z, <2>3, <2>4, <2>5, <2>6
<1>11. CASE UNCHANGED Plug(k)!vars
  BY <1>11, <1>b, <1>d, <1>h DEF Plug!vars, Plug!pvars, Plug!uvars
<1>12. QED  BY <1>1, <1>2, <1>3, <1>4, <1>5, <1>6, <1>7, <1>8, <1>9, <1>10, <1>11 DEF Plug!Next

-----------------------------------------------------------------------------
(* The counters of a registration are those of its canaries                *)

Tell(ok, bad, did) == (ok = TRUE <=> TRUE \in did) /\ (bad = TRUE <=> FALSE \in did)

GreenInv(k) ==
    /\ \A p \in k.plugins : life[p].window # 0 /\ life[p].window \notin mixed =>
         Tell(life[p].ok, life[p].bad, tried[life[p].window])
    /\ \A w \in 1..k.maxShadows : w > windows => tried[w] = {}

LEMMA GreenInit == ASSUME NEW CONSTANT k, Plug(k)!UpgradeConstants, Plug(k)!Init PROVE GreenInv(k)
<1>1. \A p \in k.plugins : life[p] = Plug(k)!NoLife
  BY DEF Plug!Init, Plug!PluginInit
<1>2. \A p \in k.plugins : life[p].window = 0
  BY <1>1 DEF Plug!NoLife
<1>3. \A w \in 1..k.maxShadows : tried[w] = {}
  BY DEF Plug!Init
<1>4. QED  BY <1>2, <1>3 DEF GreenInv

\* The counters of the rows stay, or the registration is mixed.
LEMMA GreenKeeps ==
    ASSUME NEW CONSTANT k, GreenInv(k), windows' = windows, tried' = tried, mixed \subseteq mixed',
           \A p \in k.plugins : \/ life'[p].window = 0 \/ life'[p].window \in mixed'
                                \/ /\ life'[p].window = life[p].window
                                   /\ life'[p].ok = life[p].ok /\ life'[p].bad = life[p].bad
    PROVE  GreenInv(k)'
<1>1. ASSUME NEW p \in k.plugins, life'[p].window # 0 /\ life'[p].window \notin mixed'
      PROVE  Tell(life'[p].ok, life'[p].bad, tried'[life'[p].window])
  <2>1. life'[p].window = life[p].window /\ life'[p].ok = life[p].ok /\ life'[p].bad = life[p].bad
    BY <1>1
  <2>2. life[p].window # 0 /\ life[p].window \notin mixed
    BY <1>1, <2>1
  <2>3. Tell(life[p].ok, life[p].bad, tried[life[p].window])
    BY <2>2 DEF GreenInv
  <2>4. QED  BY <2>1, <2>3
<1>2. \A w \in 1..k.maxShadows : w > windows' => tried'[w] = {}
  BY DEF GreenInv
<1>3. QED  BY <1>1, <1>2 DEF GreenInv

\* A canary answers `ok`: it counts in the row, or the registration is mixed.
LEMMA GreenNoted ==
    ASSUME NEW CONSTANT k, Plug(k)!UpgradeConstants, UpgradeTypes(k), WindowInv(k), GreenInv(k),
           NEW i \in k.calls, NEW ok \in BOOLEAN, Plug(k)!Noted(i, ok), windows' = windows,
           \A q \in k.plugins : life'[q].window = life[q].window,
           \A q \in k.plugins \ {requests[i].p} : life'[q] = life[q],
           plugin[requests[i].p] # Plug(k)!Absent =>
             /\ life'[requests[i].p].ok = (life[requests[i].p].ok \/ ok)
             /\ life'[requests[i].p].bad = (life[requests[i].p].bad \/ ~ok)
    PROVE  GreenInv(k)'
<1>c. /\ windows \in 0..k.maxShadows /\ k.maxShadows \in Nat /\ tried \in [1..k.maxShadows -> SUBSET BOOLEAN]
      /\ requests[i].p \in k.plugins /\ requests[i].life.window \in 0..windows
      /\ \A q \in k.plugins : life[q].window \in 0..windows
      /\ \A q \in k.plugins : life[q].ok \in BOOLEAN /\ life[q].bad \in BOOLEAN
  <2>1. requests[i].p \in k.plugins /\ requests[i].life \in Plug(k)!Lives /\ life \in [k.plugins -> Plug(k)!Lives]
    BY DEF UpgradeTypes, PluginTypes, RequestsOK, PluginRequests
  <2>2. \A l \in Plug(k)!Lives : l.window \in Nat /\ l.ok \in BOOLEAN /\ l.bad \in BOOLEAN
    BY DEF Plug!Lives
  <2>3. requests[i].life.window \in Nat /\ \A q \in k.plugins : life[q].window \in Nat
    BY <2>1, <2>2
  <2>4. requests[i].life.window <= windows /\ \A q \in k.plugins : life[q].window <= windows
    BY <2>1, <2>3 DEF WindowInv, Holds
  <2>5. QED  BY <2>1, <2>2, <2>3, <2>4 DEF Plug!UpgradeConstants, UpgradeTypes
<1>p. PICK p \in k.plugins, w \in 0..windows : p = requests[i].p /\ w = requests[i].life.window
  BY <1>c
<1>n. /\ tried' = IF w = 0 THEN tried ELSE [tried EXCEPT ![w] = @ \cup {ok}]
      /\ mixed' = IF plugin[p] # Plug(k)!Absent /\ w = life[p].window THEN mixed ELSE mixed \cup {w, life[p].window}
  BY <1>p DEF Plug!Noted
<1>1. \A v \in 1..k.maxShadows : v # w => tried'[v] = tried[v]
  BY <1>c, <1>n
<1>2. ASSUME NEW q \in k.plugins, life'[q].window # 0 /\ life'[q].window \notin mixed'
      PROVE  Tell(life'[q].ok, life'[q].bad, tried'[life'[q].window])
  <2>1. PICK v \in 1..k.maxShadows : v = life[q].window
    BY <1>2, <1>c
  <2>2. life'[q].window = v /\ v \notin mixed
    BY <1>2, <1>n, <2>1
  <2>n. v # 0
    BY <1>c
  <2>3. Tell(life[q].ok, life[q].bad, tried[v])
    BY <2>1, <2>2, <2>n DEF GreenInv
  <2>4. CASE q # p
    <3>1. v # w
      <4>1. Holds(k, q, v) /\ Holds(k, p, w)
        BY <1>p, <2>1 DEF Holds
      <4>2. v \in Nat \ {0}
        BY <2>1
      <4>3. QED  BY <2>4, <4>1, <4>2 DEF WindowInv
    <3>2. life'[q] = life[q]
      BY <1>p, <2>4
    <3>3. QED  BY <1>1, <2>1, <2>2, <2>3, <3>1, <3>2
  <2>5. CASE q = p
    <3>1. plugin[p] # Plug(k)!Absent /\ w = v
      BY <1>2, <1>n, <2>1, <2>2, <2>5
    <3>2. tried'[v] = tried[v] \cup {ok}
      BY <1>c, <1>n, <2>1, <3>1
    <3>3. life'[q].ok = (life[q].ok \/ ok) /\ life'[q].bad = (life[q].bad \/ ~ok)
      BY <1>p, <2>5, <3>1
    <3>4. CASE ok = TRUE
      <4>1. life'[q].ok = TRUE /\ life'[q].bad = life[q].bad
        BY <1>c, <3>3, <3>4
      <4>2. QED  BY <2>2, <2>3, <3>2, <3>4, <4>1 DEF Tell
    <3>5. CASE ok = FALSE
      <4>1. life'[q].ok = life[q].ok /\ life'[q].bad = TRUE
        BY <1>c, <3>3, <3>5
      <4>2. QED  BY <2>2, <2>3, <3>2, <3>5, <4>1 DEF Tell
    <3>6. QED  BY <3>4, <3>5
  <2>6. QED  BY <2>4, <2>5
<1>3. \A v \in 1..k.maxShadows : v > windows' => tried'[v] = {}
  BY <1>1, <1>c DEF GreenInv
<1>4. QED  BY <1>2, <1>3 DEF GreenInv

LEMMA GreenStep ==
    ASSUME NEW CONSTANT k, Plug(k)!UpgradeConstants, UpgradeTypes(k), WindowInv(k), GreenInv(k),
           [Plug(k)!Next]_(Plug(k)!vars)
    PROVE  GreenInv(k)'
<1>c. /\ Plug(k)!PluginConstants /\ PluginTypes(k) /\ windows \in 0..k.maxShadows /\ k.maxShadows \in Nat
      /\ life \in [k.plugins -> Plug(k)!Lives]
      /\ \A i \in k.calls : requests[i].p \in k.plugins /\ requests[i].life \in Plug(k)!Lives
  BY DEF Plug!UpgradeConstants, UpgradeTypes, PluginTypes, RequestsOK, PluginRequests
<1>v. \A l \in Plug(k)!Lives : l.window \in Nat /\ l.ok \in BOOLEAN /\ l.bad \in BOOLEAN
  BY DEF Plug!Lives
<1>u. ASSUME UNCHANGED life, UNCHANGED Plug(k)!uvars PROVE GreenInv(k)'
  BY <1>u, GreenKeeps DEF Plug!uvars
<1>1. CASE Plug(k)!PluginNext /\ UNCHANGED Plug(k)!uvars
  <2>1. \A p \in k.plugins : life'[p] = life[p] \/ life'[p] = Plug(k)!NoLife
    BY <1>1, <1>c, RoutesKeep
  <2>2. Plug(k)!NoLife.window = 0
    BY DEF Plug!NoLife
  <2>3. QED  BY <1>1, <2>1, <2>2, GreenKeeps DEF Plug!uvars
<1>2. ASSUME NEW p \in k.plugins, NEW i \in k.calls, NEW n \in 1..3, Plug(k)!registerShadowVersion(p, i, n)
      PROVE  GreenInv(k)'
  <2>1. windows' = windows + 1 /\ UNCHANGED <<mixed, tried>> /\ windows + 1 \in 1..k.maxShadows
    BY <1>2, <1>c DEF Plug!registerShadowVersion
  <2>2. PICK l : l = [Plug(k)!NoLife EXCEPT !.channel = "shadow", !.compat = "adaptation_required", !.window = windows']
    OBVIOUS
  <2>3. l.window = windows + 1 /\ l.ok = FALSE /\ l.bad = FALSE
    BY <2>1, <2>2 DEF Plug!NoLife
  <2>4. life' = life \/ life' = [life EXCEPT ![p] = l]
    BY <1>2, <2>2 DEF Plug!registerShadowVersion
  <2>5. tried[windows + 1] = {}
    BY <1>c, <2>1 DEF GreenInv
  <2>6. ASSUME NEW q \in k.plugins, life'[q].window # 0 /\ life'[q].window \notin mixed'
        PROVE  Tell(life'[q].ok, life'[q].bad, tried'[life'[q].window])
    <3>1. life'[q] = life[q] \/ life'[q] = l
      BY <1>c, <2>4
    <3>2. CASE life'[q] = l
      <4>1. TRUE \notin tried'[windows + 1] /\ FALSE \notin tried'[windows + 1]
        BY <2>1, <2>5
      <4>2. life'[q].window = windows + 1 /\ life'[q].ok = FALSE /\ life'[q].bad = FALSE
        BY <2>3, <3>2
      <4>3. QED  BY <4>1, <4>2 DEF Tell
    <3>3. CASE life'[q] = life[q]
      BY <2>1, <2>6, <3>3 DEF GreenInv
    <3>4. QED  BY <3>1, <3>2, <3>3
  <2>7. \A w \in 1..k.maxShadows : w > windows' => tried'[w] = {}
    BY <1>c, <2>1 DEF GreenInv
  <2>8. QED  BY <2>6, <2>7 DEF GreenInv
<1>3. ASSUME NEW i \in k.calls, NEW p \in k.plugins,
             Plug(k)!startCanary(i, p) \/ Plug(k)!startPromote(i, p) \/ Plug(k)!startRollback(i, p)
      PROVE  GreenInv(k)'
  BY <1>3, <1>u DEF Plug!startCanary, Plug!startPromote, Plug!startRollback, Plug!StartEnable
<1>r. ASSUME NEW p \in k.plugins, NEW r, NEW l, Plug(k)!Restored(p, r, l) PROVE GreenInv(k)'
  BY <1>c, <1>r, GreenKeeps DEF Plug!Restored
<1>4. ASSUME NEW i \in k.calls, NEW p \in k.plugins, Plug(k)!rollbackAtOnce(i, p) PROVE GreenInv(k)'
  BY <1>4, <1>r DEF Plug!rollbackAtOnce
<1>5. ASSUME NEW i \in k.calls, Plug(k)!rollbackEnds(i) PROVE GreenInv(k)'
  BY <1>5, <1>c, <1>r, <1>u DEF Plug!rollbackEnds
<1>6. ASSUME NEW i \in k.calls, NEW ok \in BOOLEAN, Plug(k)!canaryFailsToStart(i, ok) \/ Plug(k)!canaryStays(i)
      PROVE  GreenInv(k)'
  <2>p. PICK p \in k.plugins : p = requests[i].p
    BY <1>c
  <2>1. PICK l : l = [life[p] EXCEPT !.channel = "canary", !.compat = "adaptation_required", !.bad = TRUE]
    OBVIOUS
  <2>2. l.window = life[p].window /\ l.ok = life[p].ok /\ l.bad = TRUE
    BY <1>c, <2>1 DEF Plug!Lives
  <2>3. /\ life' = IF plugin[p] = Plug(k)!Absent THEN life ELSE [life EXCEPT ![p] = l]
        /\ Plug(k)!Noted(i, FALSE) /\ windows' = windows
    BY <1>6, <2>p, <2>1 DEF Plug!canaryFailsToStart, Plug!canaryStays, Plug!FiledFailure
  <2>4. /\ \A q \in k.plugins : life'[q].window = life[q].window
        /\ \A q \in k.plugins \ {p} : life'[q] = life[q]
        /\ plugin[p] # Plug(k)!Absent =>
             life'[p].ok = (life[p].ok \/ FALSE) /\ life'[p].bad = (life[p].bad \/ ~FALSE)
    BY <1>c, <1>v, <2>2, <2>3
  <2>5. windows' = windows /\ FALSE \in BOOLEAN /\ Plug(k)!Noted(i, FALSE)
    BY <2>3
  <2>6. QED  BY <2>p, <2>4, <2>5, GreenNoted
<1>7. ASSUME NEW i \in k.calls, Plug(k)!canaryPasses(i) PROVE GreenInv(k)'
  <2>p. PICK p \in k.plugins : p = requests[i].p
    BY <1>c
  <2>1. PICK l : l = [life[p] EXCEPT !.channel = "canary", !.compat = "compatible", !.ok = TRUE]
    OBVIOUS
  <2>2. l.window = life[p].window /\ l.ok = TRUE /\ l.bad = life[p].bad
    BY <1>c, <2>1 DEF Plug!Lives
  <2>o. PICK ok \in BOOLEAN : ok = (plugin[p] # Plug(k)!Absent)
    OBVIOUS
  <2>3. /\ life' = IF plugin[p] = Plug(k)!Absent THEN life ELSE [life EXCEPT ![p] = l]
        /\ Plug(k)!Noted(i, ok) /\ windows' = windows
    BY <1>7, <2>o, <2>p, <2>1 DEF Plug!canaryPasses
  <2>4. /\ \A q \in k.plugins : life'[q].window = life[q].window
        /\ \A q \in k.plugins \ {p} : life'[q] = life[q]
        /\ plugin[p] # Plug(k)!Absent =>
             life'[p].ok = (life[p].ok \/ ok) /\ life'[p].bad = (life[p].bad \/ ~ok)
    BY <1>c, <1>v, <2>2, <2>3, <2>o
  <2>5. QED  BY <2>p, <2>3, <2>4, GreenNoted
<1>8. ASSUME NEW i \in k.calls, NEW ok \in BOOLEAN, Plug(k)!canaryRuns(i) \/ Plug(k)!promoteFails(i, ok)
      PROVE  GreenInv(k)'
  BY <1>8, <1>u DEF Plug!canaryRuns, Plug!promoteFails
<1>9. ASSUME NEW i \in k.calls, NEW n \in 1..2, Plug(k)!promoteEnds(i, n) PROVE GreenInv(k)'
  <2>p. PICK p \in k.plugins : p = requests[i].p
    BY <1>c
  <2>1. PICK l : l = [requests[i].life EXCEPT !.channel = "active", !.compat = "compatible"]
    OBVIOUS
  <2>2. l.window = requests[i].life.window /\ l.ok = requests[i].life.ok /\ l.bad = requests[i].life.bad
    BY <1>c, <2>1 DEF Plug!Lives
  <2>3. /\ life' = [life EXCEPT ![p] = l] /\ UNCHANGED <<windows, tried>>
        /\ mixed' = IF life[p] = requests[i].life THEN mixed ELSE mixed \cup {requests[i].life.window}
    BY <1>9, <2>p, <2>1 DEF Plug!promoteEnds
  <2>4. QED  BY <1>c, <2>2, <2>3, GreenKeeps
<1>10. CASE UNCHANGED Plug(k)!vars
  BY <1>10, <1>u DEF Plug!vars, Plug!pvars
<1>11. QED  BY <1>1, <1>2, <1>3, <1>4, <1>5, <1>6, <1>7, <1>8, <1>9, <1>10 DEF Plug!Next

\* What a promotion starts from.
LEMMA GreenPromotes ==
    ASSUME NEW CONSTANT k, Plug(k)!UpgradeConstants, UpgradeTypes(k), WindowInv(k), GreenInv(k)
    PROVE  Plug(k)!PromotedGreen
<1>1. SUFFICES ASSUME NEW i \in k.calls, NEW p \in k.plugins, Plug(k)!startPromote(i, p),
                      life[p].window \notin mixed
               PROVE  tried[life[p].window] = {TRUE}
  BY DEF Plug!PromotedGreen
<1>2. life[p].window # 0 /\ life[p].ok /\ ~life[p].bad
  BY <1>1 DEF Plug!startPromote, Plug!MayPromote
<1>3. TRUE \in tried[life[p].window] /\ FALSE \notin tried[life[p].window]
  BY <1>1, <1>2 DEF GreenInv, Tell
<1>4. life[p].window \in 1..k.maxShadows
  <2>1. life[p].window \in Nat
    BY DEF UpgradeTypes, PluginTypes, Plug!Lives
  <2>2. life[p].window <= windows
    BY <2>1 DEF WindowInv, Holds
  <2>3. QED  BY <1>2, <2>1, <2>2 DEF UpgradeTypes, Plug!UpgradeConstants
<1>5. tried[life[p].window] \subseteq BOOLEAN
  BY <1>4 DEF UpgradeTypes
<1>6. QED  BY <1>3, <1>5

\* A plugin is promoted only for a registration whose canaries so far have all
\* passed, and one has, whatever requests, crashes and registrations overlap
\* (friday-plugin-upgrade-lifecycle-service.ts recordCanaryResult and promote):
\* unless the registration is mixed, as a late canary of another one, an older
\* row written back by a promotion, or a rollback makes it.
THEOREM PromotedGreenHolds ==
    ASSUME NEW CONSTANT k, Plug(k)!UpgradeConstants
    PROVE  Plug(k)!Spec => [][Plug(k)!PromotedGreen]_(Plug(k)!vars)
<1> DEFINE Inv == UpgradeTypes(k) /\ WindowInv(k) /\ GreenInv(k)
<1>1. Plug(k)!Init => Inv
  BY UpgradeTypesInit, WindowInit, GreenInit
<1>2. Inv /\ [Plug(k)!Next]_(Plug(k)!vars) => Inv'
  BY UpgradeTypesStep, WindowStep, GreenStep
<1>3. Inv => Plug(k)!PromotedGreen
  BY GreenPromotes
<1>4. QED  BY <1>1, <1>2, <1>3, PTL DEF Plug!Spec

-----------------------------------------------------------------------------
(* The scenarios of the run                                                *)

LEMMA PluginScenarios ==
    /\ Plug(Routes)!PluginConstants
    /\ Plug(Undo)!UpgradeConstants /\ Plug(Gate)!UpgradeConstants /\ Plug(Again)!UpgradeConstants
<1>1. Chain \in [{"p1", "p2"} -> Seq({"p1", "p2"})] /\ Single \in [{"p1"} -> Seq({"p1"})]
  BY DEF Chain, Single
<1>2. /\ \A p \in {"p1", "p2"} : Chain[p] # <<>> /\ Chain[p][Len(Chain[p])] = p
      /\ \A p \in {"p1"} : Single[p] = <<p>> /\ Single[p] # <<>> /\ Single[p][Len(Single[p])] = p
  BY DEF Chain, Single
<1>3. Plug(Routes)!PluginConstants
  BY <1>1, <1>2 DEF Routes, Plug!PluginConstants
<1>4. Plug(Undo)!UpgradeConstants
  BY <1>1, <1>2 DEF Undo, Plug!UpgradeConstants, Plug!PluginConstants
<1>5. Plug(Gate)!UpgradeConstants
  BY <1>1, <1>2 DEF Gate, Plug!UpgradeConstants, Plug!PluginConstants
<1>6. Plug(Again)!UpgradeConstants
  BY <1>1, <1>2 DEF Again, Plug!UpgradeConstants, Plug!PluginConstants
<1>7. QED  BY <1>3, <1>4, <1>5, <1>6

\* What the proofs above ask of the scenarios.
LEMMA PluginScenariosFit ==
    /\ Plug(Routes)!PluginConstants
    /\ Plug(Undo)!UpgradeConstants /\ Undo.maxRestarts = 0 /\ Undo.maxShadows <= 1 /\ Undo.maxShadows \in Nat
    /\ Plug(Gate)!UpgradeConstants /\ Plug(Again)!UpgradeConstants
<1>1. Undo.maxRestarts = 0 /\ Undo.maxShadows <= 1 /\ Undo.maxShadows \in Nat
  BY DEF Undo
<1>2. QED  BY <1>1, PluginScenarios

\* The inductive invariant of the plugin scenarios.
PluginScenarioInv ==
    /\ scenario = "routes" => PluginTypes(Routes) /\ KeptInv(Routes)
    /\ scenario = "undo" => UpgradeTypes(Undo) /\ WindowInv(Undo) /\ UndoInv(Undo)
    /\ scenario = "gate" => UpgradeKept(Gate) /\ WindowInv(Gate) /\ GreenInv(Gate)
    /\ scenario = "again" => UpgradeKept(Again) /\ WindowInv(Again) /\ GreenInv(Again)

LEMMA PluginScenarioInit == ASSUME MCInit PROVE PluginScenarioInv
<1>1. ASSUME scenario = "routes" PROVE PluginTypes(Routes) /\ KeptInv(Routes)
  <2>1. Plug(Routes)!PluginInit({Plug(Routes)!NoLife, Plug(Routes)!Active})
    BY <1>1 DEF MCInit
  <2>2. QED  BY <2>1, PluginScenariosFit, PluginTypesInit, PluginLives, KeptInit
<1>2. /\ scenario = "undo" => Plug(Undo)!Init
      /\ scenario = "gate" => Plug(Gate)!Init
      /\ scenario = "again" => Plug(Again)!Init
  BY DEF MCInit
<1>3. QED  BY <1>1, <1>2, PluginScenariosFit, UpgradeTypesInit, WindowInit, UndoInit, UpgradeKeptInit, GreenInit
           DEF PluginScenarioInv

LEMMA PluginScenarioStep ==
    ASSUME PluginScenarioInv, [MCNext]_<<scenario, vars, upgrade, skills, plugins>>
    PROVE  PluginScenarioInv'
<1>s. scenario' = scenario
  BY DEF MCNext, Planning, Upgrading, Replacing, Plugging
<1>u. ASSUME NEW CONSTANT k, UNCHANGED plugins
      PROVE  UNCHANGED Plug(k)!pvars /\ UNCHANGED Plug(k)!vars
  BY <1>u DEF plugins, Plug!pvars, Plug!vars, Plug!uvars
<1>n. Plugging \/ UNCHANGED plugins
  BY DEF MCNext, Planning, Upgrading, Replacing
<1>k. ASSUME NEW CONSTANT k, Plug(k)!UpgradeConstants, UpgradeKept(k), WindowInv(k), GreenInv(k),
             [Plug(k)!Next]_(Plug(k)!vars)
      PROVE  UpgradeKept(k)' /\ WindowInv(k)' /\ GreenInv(k)'
  BY <1>k, UpgradeKeptStep, WindowStep, GreenStep DEF UpgradeKept
<1>1. ASSUME scenario = "routes" PROVE PluginTypes(Routes)' /\ KeptInv(Routes)'
  <2>1. [Plug(Routes)!PluginNext]_(Plug(Routes)!pvars)
    BY <1>1, <1>u, <1>n DEF Plugging
  <2>2. QED  BY <1>1, <2>1, PluginScenariosFit, PluginTypesStep, KeptStep DEF PluginScenarioInv
<1>2. ASSUME scenario = "undo" PROVE UpgradeTypes(Undo)' /\ WindowInv(Undo)' /\ UndoInv(Undo)'
  <2>1. [Plug(Undo)!Next]_(Plug(Undo)!vars)
    BY <1>2, <1>u, <1>n DEF Plugging
  <2>2. QED  BY <1>2, <2>1, PluginScenariosFit, UpgradeTypesStep, WindowStep, UndoStep DEF PluginScenarioInv
<1>3. ASSUME scenario = "gate" PROVE UpgradeKept(Gate)' /\ WindowInv(Gate)' /\ GreenInv(Gate)'
  <2>1. [Plug(Gate)!Next]_(Plug(Gate)!vars)
    BY <1>3, <1>u, <1>n DEF Plugging
  <2>2. QED  BY <1>3, <1>k, <2>1, PluginScenariosFit DEF PluginScenarioInv
<1>4. ASSUME scenario = "again" PROVE UpgradeKept(Again)' /\ WindowInv(Again)' /\ GreenInv(Again)'
  <2>1. [Plug(Again)!Next]_(Plug(Again)!vars)
    BY <1>4, <1>u, <1>n DEF Plugging
  <2>2. QED  BY <1>4, <1>k, <2>1, PluginScenariosFit DEF PluginScenarioInv
<1>5. QED  BY <1>s, <1>1, <1>2, <1>3, <1>4 DEF PluginScenarioInv

-----------------------------------------------------------------------------
(* The scenarios of the run: adapters, servers, profiles and skills        *)

\* What the proofs above ask of the scenarios.
LEMMA LifeScenariosFit ==
    /\ Life(Adapter)!UpgradeConstants /\ Adapter.kind = "channel" /\ Adapter.crashes = 0
    /\ Life(Orderly)!UpgradeConstants /\ Orderly.kind = "channel" /\ ~Orderly.restage
    /\ Life(Provider)!UpgradeConstants /\ Provider.kind = "provider" /\ ~Provider.restage /\ InTurn(Provider)
    /\ Life(Server)!UpgradeConstants /\ Server.kind = "mcp" /\ ~Server.restage /\ Server.crashes = 0
<1>1. Life(Adapter)!UpgradeConstants /\ Adapter.kind = "channel" /\ Adapter.crashes = 0
  BY DEF Adapter, Life!UpgradeConstants
<1>2. Life(Orderly)!UpgradeConstants /\ Orderly.kind = "channel" /\ ~Orderly.restage
  BY DEF Orderly, Life!UpgradeConstants
<1>3. Life(Provider)!UpgradeConstants /\ Provider.kind = "provider" /\ ~Provider.restage /\ InTurn(Provider)
  BY DEF Provider, Life!UpgradeConstants, InTurn
<1>4. Life(Server)!UpgradeConstants /\ Server.kind = "mcp" /\ ~Server.restage /\ Server.crashes = 0
  BY DEF Server, Life!UpgradeConstants
<1>5. QED  BY <1>1, <1>2, <1>3, <1>4

LEMMA SkillScenariosFit ==
    /\ Skill(Proven)!SkillConstants
    /\ Skill(Cut)!SkillConstants /\ ~Cut.again /\ Cut.crashes \in {0, 1}
    /\ Skill(Quiet)!SkillConstants /\ Quiet.crashes = 0
<1>1. Skill(Proven)!SkillConstants
  BY DEF Proven, Skill!SkillConstants
<1>2. Skill(Cut)!SkillConstants /\ ~Cut.again /\ Cut.crashes \in {0, 1}
  BY DEF Cut, Skill!SkillConstants
<1>3. Skill(Quiet)!SkillConstants /\ Quiet.crashes = 0
  BY DEF Quiet, Skill!SkillConstants
<1>4. QED  BY <1>1, <1>2, <1>3

\* The inductive invariants of these scenarios.
LifeScenarioInv ==
    /\ scenario = "adapter" => LifeTypes(Adapter) /\ AdapterInv(Adapter)
    /\ scenario = "orderly" => LifeTypes(Orderly) /\ OrderlyInv(Orderly)
    /\ scenario = "provider" => LifeTypes(Provider) /\ ProviderInv(Provider)
    /\ scenario = "server" => LifeTypes(Server) /\ ServerInv(Server)

SkillScenarioInv ==
    /\ scenario = "proven" => SkillTypes(Proven) /\ ProvenInv(Proven)
    /\ scenario = "cut" => SkillTypes(Cut) /\ CutInv(Cut)
    /\ scenario = "quiet" => SkillTypes(Quiet) /\ Clean(Quiet)

LEMMA LifeScenarioInit == ASSUME MCInit PROVE LifeScenarioInv
<1>1. /\ scenario = "adapter" => Life(Adapter)!Init
      /\ scenario = "orderly" => Life(Orderly)!Init
      /\ scenario = "provider" => Life(Provider)!Init
      /\ scenario = "server" => Life(Server)!Init
  BY DEF MCInit
<1>2. QED  BY <1>1, LifeScenariosFit, LifeTypesInit, AdapterInit, OrderlyInit, ProviderInit, ServerInit
           DEF LifeScenarioInv

LEMMA SkillScenarioInit == ASSUME MCInit PROVE SkillScenarioInv
<1>1. /\ scenario = "proven" => Skill(Proven)!Init
      /\ scenario = "cut" => Skill(Cut)!Init
      /\ scenario = "quiet" => Skill(Quiet)!Init
  BY DEF MCInit
<1>2. QED  BY <1>1, SkillScenariosFit, SkillTypesInit, ProvenInit, CutInit, CleanInit DEF SkillScenarioInv

LEMMA LifeScenarioStep ==
    ASSUME LifeScenarioInv, [MCNext]_<<scenario, vars, upgrade, skills, plugins>>
    PROVE  LifeScenarioInv'
<1>s. scenario' = scenario
  BY DEF MCNext, Planning, Upgrading, Replacing, Plugging
<1>n. Upgrading \/ UNCHANGED upgrade
  BY DEF MCNext, Planning, Replacing, Plugging
<1>u. ASSUME NEW CONSTANT k, UNCHANGED upgrade PROVE UNCHANGED Life(k)!vars
  BY <1>u DEF upgrade, Life!vars
<1>1. ASSUME scenario = "adapter" PROVE LifeTypes(Adapter)' /\ AdapterInv(Adapter)'
  <2>1. [Life(Adapter)!Next]_(Life(Adapter)!vars)
    BY <1>1, <1>n, <1>u DEF Upgrading
  <2>2. QED  BY <1>1, <2>1, LifeScenariosFit, LifeTypesStep, AdapterStep DEF LifeScenarioInv
<1>2. ASSUME scenario = "orderly" PROVE LifeTypes(Orderly)' /\ OrderlyInv(Orderly)'
  <2>1. [Life(Orderly)!Next]_(Life(Orderly)!vars)
    BY <1>2, <1>n, <1>u DEF Upgrading
  <2>2. QED  BY <1>2, <2>1, LifeScenariosFit, LifeTypesStep, OrderlyStep DEF LifeScenarioInv
<1>3. ASSUME scenario = "provider" PROVE LifeTypes(Provider)' /\ ProviderInv(Provider)'
  <2>1. [Life(Provider)!Next]_(Life(Provider)!vars)
    BY <1>3, <1>n, <1>u DEF Upgrading
  <2>2. QED  BY <1>3, <2>1, LifeScenariosFit, LifeTypesStep, ProviderStep DEF LifeScenarioInv
<1>4. ASSUME scenario = "server" PROVE LifeTypes(Server)' /\ ServerInv(Server)'
  <2>1. [Life(Server)!Next]_(Life(Server)!vars)
    BY <1>4, <1>n, <1>u DEF Upgrading
  <2>2. QED  BY <1>4, <2>1, LifeScenariosFit, LifeTypesStep, ServerStep DEF LifeScenarioInv
<1>5. QED  BY <1>s, <1>1, <1>2, <1>3, <1>4 DEF LifeScenarioInv

LEMMA SkillScenarioStep ==
    ASSUME SkillScenarioInv, [MCNext]_<<scenario, vars, upgrade, skills, plugins>>
    PROVE  SkillScenarioInv'
<1>s. scenario' = scenario
  BY DEF MCNext, Planning, Upgrading, Replacing, Plugging
<1>n. Replacing \/ UNCHANGED skills
  BY DEF MCNext, Planning, Upgrading, Plugging
<1>u. ASSUME NEW CONSTANT k, UNCHANGED skills PROVE UNCHANGED Skill(k)!vars
  BY <1>u DEF skills, Skill!vars
<1>1. ASSUME scenario = "proven" PROVE SkillTypes(Proven)' /\ ProvenInv(Proven)'
  <2>1. [Skill(Proven)!Next]_(Skill(Proven)!vars)
    BY <1>1, <1>n, <1>u DEF Replacing
  <2>2. QED  BY <1>1, <2>1, SkillScenariosFit, SkillTypesStep, ProvenStep DEF SkillScenarioInv
<1>2. ASSUME scenario = "cut" PROVE SkillTypes(Cut)' /\ CutInv(Cut)'
  <2>1. [Skill(Cut)!Next]_(Skill(Cut)!vars)
    BY <1>2, <1>n, <1>u DEF Replacing
  <2>2. QED  BY <1>2, <2>1, SkillScenariosFit, SkillTypesStep, CutStep DEF SkillScenarioInv
<1>3. ASSUME scenario = "quiet" PROVE SkillTypes(Quiet)' /\ Clean(Quiet)'
  <2>1. [Skill(Quiet)!Next]_(Skill(Quiet)!vars)
    BY <1>3, <1>n, <1>u DEF Replacing
  <2>2. QED  BY <1>3, <2>1, SkillScenariosFit, SkillTypesStep, QuietStep DEF SkillScenarioInv
<1>4. QED  BY <1>s, <1>1, <1>2, <1>3 DEF SkillScenarioInv

ScenarioInv == LifeScenarioInv /\ SkillScenarioInv /\ PluginScenarioInv

LEMMA ScenarioInvariant == MCSpec => []ScenarioInv
<1>1. MCInit => ScenarioInv
  BY LifeScenarioInit, SkillScenarioInit, PluginScenarioInit DEF ScenarioInv
<1>2. ScenarioInv /\ [MCNext]_<<scenario, vars, upgrade, skills, plugins>> => ScenarioInv'
  BY LifeScenarioStep, SkillScenarioStep, PluginScenarioStep DEF ScenarioInv
<1>3. QED  BY <1>1, <1>2, PTL DEF MCSpec

\* promote of the channel and provider services, of the skills and of the
\* plugins: the action property of the run, with what adapters may promote.
THEOREM PromotedProvenHolds == MCSpec => PromotedProven
<1> DEFINE I == scenario = "adapter" => Life(Adapter)!TypeOK /\ Life(Adapter)!GreenPromotes
           A == /\ scenario = "adapter" => Life(Adapter)!PromotedGreen
                /\ scenario = "provider" => Life(Provider)!PromotedGreen
                /\ scenario = "proven" => Skill(Proven)!PromotedProven
                /\ scenario = "gate" => Plug(Gate)!PromotedGreen
                /\ scenario = "again" => Plug(Again)!PromotedGreen
<1>1. ScenarioInv => I
  <2>1. ASSUME ScenarioInv, scenario = "adapter"
        PROVE  Life(Adapter)!TypeOK /\ Life(Adapter)!GreenPromotes
    BY <2>1, LifeScenariosFit, LifeTypesImply, AdapterGreen DEF ScenarioInv, LifeScenarioInv
  <2>2. QED  BY <2>1
<1>2. ScenarioInv => A
  <2>1. ASSUME ScenarioInv, scenario = "adapter" PROVE Life(Adapter)!PromotedGreen
    BY <2>1, LifeScenariosFit, AdapterGreen DEF ScenarioInv, LifeScenarioInv
  <2>2. ASSUME ScenarioInv, scenario = "provider" PROVE Life(Provider)!PromotedGreen
    BY <2>2, LifeScenariosFit, ProviderUndoes DEF ScenarioInv, LifeScenarioInv
  <2>3. ASSUME ScenarioInv, scenario = "proven" PROVE Skill(Proven)!PromotedProven
    BY <2>3, SkillScenariosFit, ProvenPromotes DEF ScenarioInv, SkillScenarioInv
  <2>4. ASSUME ScenarioInv, scenario = "gate" PROVE Plug(Gate)!PromotedGreen
    BY <2>4, PluginScenariosFit, GreenPromotes DEF ScenarioInv, PluginScenarioInv, UpgradeKept
  <2>5. ASSUME ScenarioInv, scenario = "again" PROVE Plug(Again)!PromotedGreen
    BY <2>5, PluginScenariosFit, GreenPromotes DEF ScenarioInv, PluginScenarioInv, UpgradeKept
  <2>6. QED  BY <2>1, <2>2, <2>3, <2>4, <2>5
<1> HIDE DEF I, A
<1>3. MCSpec => []I /\ [][A]_<<upgrade, skills, plugins>>
  BY <1>1, <1>2, ScenarioInvariant, PTL DEF MCSpec
<1>4. QED  BY <1>3 DEF I, A, PromotedProven

\* promote and rollback of the channel, provider, MCP and plugin services, and
\* of the skills: what the run says of what is in service and can be undone.
THEOREM RollbackKeptHolds == MCSpec => RollbackKept
<1> DEFINE I == /\ scenario = "orderly" => Life(Orderly)!Undoable
                /\ scenario = "server" => Life(Server)!Undoable
                /\ scenario = "cut" => Skill(Cut)!OriginalKept
                /\ scenario = "quiet" => Skill(Quiet)!TypeOK /\ Skill(Quiet)!DiskMatchesRow
                /\ scenario = "undo" => Plug(Undo)!TypeOK /\ Plug(Undo)!Undoable
           A == /\ scenario = "orderly" => Life(Orderly)!RollbackRestores /\ Life(Orderly)!RollbackOfPromoted
                /\ scenario = "provider" => Life(Provider)!RollbackRestores
                /\ scenario = "gate" => Plug(Gate)!RollbackStops
                /\ scenario = "again" => Plug(Again)!RollbackStops
<1>1. ScenarioInv => I
  <2>1. ASSUME ScenarioInv, scenario = "orderly" PROVE Life(Orderly)!Undoable
    BY <2>1, LifeScenariosFit, OrderlyUndoes DEF ScenarioInv, LifeScenarioInv
  <2>2. ASSUME ScenarioInv, scenario = "server" PROVE Life(Server)!Undoable
    BY <2>2 DEF ScenarioInv, LifeScenarioInv, ServerInv
  <2>3. ASSUME ScenarioInv, scenario = "cut" PROVE Skill(Cut)!OriginalKept
    BY <2>3, CutKeeps DEF ScenarioInv, SkillScenarioInv
  <2>4. ASSUME ScenarioInv, scenario = "quiet" PROVE Skill(Quiet)!TypeOK /\ Skill(Quiet)!DiskMatchesRow
    BY <2>4 DEF ScenarioInv, SkillScenarioInv, SkillTypes, Clean, Skill!DiskMatchesRow
  <2>5. ASSUME ScenarioInv, scenario = "undo" PROVE Plug(Undo)!TypeOK /\ Plug(Undo)!Undoable
    <3>1. UpgradeTypes(Undo) /\ WindowInv(Undo) /\ UndoInv(Undo)
      BY <2>5 DEF ScenarioInv, PluginScenarioInv
    <3>2. mixed \subseteq 0..Undo.maxShadows
      BY <3>1, PluginScenariosFit DEF WindowInv, UpgradeTypes
    <3>3. QED  BY <3>1, <3>2, PluginScenariosFit, UpgradeTypesImply, UndoImplies
  <2>6. QED  BY <2>1, <2>2, <2>3, <2>4, <2>5
<1>s. [MCNext]_<<scenario, vars, upgrade, skills, plugins>> => scenario' = scenario
  BY DEF MCNext, Planning, Upgrading, Replacing, Plugging
<1>2. ScenarioInv /\ ScenarioInv' /\ scenario' = scenario => A
  <2>1. ASSUME ScenarioInv, scenario = "orderly"
        PROVE  Life(Orderly)!RollbackRestores /\ Life(Orderly)!RollbackOfPromoted
    BY <2>1, LifeScenariosFit, OrderlyUndoes DEF ScenarioInv, LifeScenarioInv
  <2>2. ASSUME ScenarioInv, scenario = "provider" PROVE Life(Provider)!RollbackRestores
    BY <2>2, LifeScenariosFit, ProviderUndoes DEF ScenarioInv, LifeScenarioInv
  <2>3. ASSUME ScenarioInv, ScenarioInv', scenario' = scenario, scenario = "gate" PROVE Plug(Gate)!RollbackStops
    BY <2>3, PluginScenariosFit, RollbackStopsStep DEF ScenarioInv, PluginScenarioInv
  <2>4. ASSUME ScenarioInv, ScenarioInv', scenario' = scenario, scenario = "again" PROVE Plug(Again)!RollbackStops
    BY <2>4, PluginScenariosFit, RollbackStopsStep DEF ScenarioInv, PluginScenarioInv
  <2>5. QED  BY <2>1, <2>2, <2>3, <2>4
<1> HIDE DEF I, A
<1>3. MCSpec => []I /\ [][A]_<<upgrade, plugins>>
  BY <1>1, <1>2, <1>s, ScenarioInvariant, PTL DEF MCSpec
<1>4. QED  BY <1>3 DEF I, A, RollbackKept

\* enablePlugin, disablePlugin, uninstallPlugin, the loader and the gate: the
\* invariant of the run, from the general results above.
THEOREM PluginsTrackedHolds == MCSpec => []PluginsTracked
<1>1. PluginScenarioInv => PluginsTracked
  <2>1. ASSUME PluginScenarioInv PROVE PluginsTracked
    <3>1. ASSUME scenario = "routes"
          PROVE  Plug(Routes)!PluginTypeOK /\ Plug(Routes)!RunningIsLoaded /\ Plug(Routes)!Tracked /\ Plug(Routes)!OffIsOff
      BY <2>1, <3>1, PluginTypesImply, KeptImplies, PluginScenariosFit DEF PluginScenarioInv
    <3>2. ASSUME scenario = "gate"
          PROVE  Plug(Gate)!RunningIsLoaded /\ Plug(Gate)!Tracked /\ Plug(Gate)!OffIsOff /\ Plug(Gate)!GateHolds
      BY <2>1, <3>2, KeptImplies, UpgradeKeptGate, PluginScenariosFit
         DEF PluginScenarioInv, UpgradeKept, UpgradeTypes, Plug!UpgradeConstants
    <3>3. QED  BY <3>1, <3>2 DEF PluginsTracked
  <2>2. QED  BY <2>1
<1>2. QED  BY <1>1, ScenarioInvariant, PTL DEF ScenarioInv
=============================================================================


--------------------------- MODULE SchedulerProofs ---------------------------
(***************************************************************************)
(* Proofs about SchedulerTick, for every value of its constants.           *)
(***************************************************************************)
EXTENDS SchedulerTick, WellFoundedInduction, FiniteSetTheorems, TLAPS

USE SchedulesAssumption, DueAssumption, ParsesAssumption, BoundsAssumption

(* A finite, non-empty set of integers has a least element. *)
LEMMA LeastElement ==
    ASSUME NEW T \in SUBSET Int, IsFiniteSet(T), T # {}
    PROVE  \E x \in T : \A y \in T : x <= y
<1> DEFINE Below(t) == {u \in T : u < t}
           F == {Below(t) : t \in T}
<1>1. IsWellFoundedOn(StrictSubsetOrdering(T), SUBSET T)
  BY FS_StrictSubsetOrderingWellFounded, FS_FiniteSubsetsOfFinite
<1>2. F \subseteq SUBSET T /\ F # {}
  OBVIOUS
<1>3. PICK B \in F : \A C \in F : <<C, B>> \notin StrictSubsetOrdering(T)
  BY <1>1, <1>2, WFMin
<1>4. PICK x \in T : B = Below(x)
  OBVIOUS
<1>5. \A y \in T : x <= y
  <2> SUFFICES ASSUME NEW y \in T, y < x
               PROVE  FALSE
    OBVIOUS
  <2>1. Below(y) \subseteq Below(x) /\ Below(y) # Below(x)
    <3>1. y \in Below(x)
      OBVIOUS
    <3>2. y \notin Below(y)
      OBVIOUS
    <3>3. \A u \in T : u < y => u < x
      OBVIOUS
    <3>4. Below(y) \subseteq Below(x)
      BY <3>3
    <3>5. QED
      <4> HIDE DEF Below
      <4>1. QED  BY <3>1, <3>2, <3>4
  <2>2. <<Below(y), Below(x)>> \in StrictSubsetOrdering(T)
    BY <2>1 DEF StrictSubsetOrdering
  <2>3. QED  BY <1>3, <1>4, <2>2
<1>6. QED  BY <1>5

(* The largest element of a finite, non-empty set of integers. *)
LEMMA GreatestElement ==
    ASSUME NEW T \in SUBSET Int, IsFiniteSet(T), T # {}
    PROVE  Max(T) \in T /\ \A y \in T : y <= Max(T)
<1> DEFINE Above(t) == {u \in T : u > t}
           F == {Above(t) : t \in T}
<1>1. IsWellFoundedOn(StrictSubsetOrdering(T), SUBSET T)
  BY FS_StrictSubsetOrderingWellFounded, FS_FiniteSubsetsOfFinite
<1>2. F \subseteq SUBSET T /\ F # {}
  OBVIOUS
<1>3. PICK B \in F : \A C \in F : <<C, B>> \notin StrictSubsetOrdering(T)
  BY <1>1, <1>2, WFMin
<1>4. PICK x \in T : B = Above(x)
  OBVIOUS
<1>5. \A y \in T : x >= y
  <2> SUFFICES ASSUME NEW y \in T, y > x
               PROVE  FALSE
    OBVIOUS
  <2>1. Above(y) \subseteq Above(x) /\ Above(y) # Above(x)
    <3>1. y \in Above(x)
      OBVIOUS
    <3>2. y \notin Above(y)
      OBVIOUS
    <3>3. \A u \in T : u > y => u > x
      OBVIOUS
    <3>4. Above(y) \subseteq Above(x)
      BY <3>3
    <3>5. QED
      <4> HIDE DEF Above
      <4>1. QED  BY <3>1, <3>2, <3>4
  <2>2. <<Above(y), Above(x)>> \in StrictSubsetOrdering(T)
    BY <2>1 DEF StrictSubsetOrdering
  <2>3. QED  BY <1>3, <1>4, <2>2
<1>6. QED  BY <1>5 DEF Max

(* The largest element of a non-empty set of slots. *)
LEMMA MaxOfSlots ==
    ASSUME NEW T \in SUBSET Slots, T # {}
    PROVE  Max(T) \in T /\ \A t \in T : t <= Max(T)
<1>1. IsFiniteSet(0..MaxSlot)
  BY FS_Interval
<1>2. IsFiniteSet(T)
  BY <1>1, FS_Subset DEF Slots
<1>3. QED  BY <1>2, GreatestElement DEF Slots

(* The least element of a set of slots. *)
LEMMA MinOfSlots ==
    ASSUME NEW T \in SUBSET Slots, T # {}
    PROVE  Min(T) \in T
<1>1. IsFiniteSet(0..MaxSlot)
  BY FS_Interval
<1>2. IsFiniteSet(T)
  BY <1>1, FS_Subset DEF Slots
<1>3. \E x \in T : \A y \in T : x <= y
  BY <1>2, LeastElement DEF Slots
<1>4. QED  BY <1>3 DEF Min

(* The stalest row of a non-empty queue belongs to the queue. *)
LEMMA StalestInQueue ==
    ASSUME NEW q \in SUBSET [sid : Schedules, mark : Slots \cup {Null}], q # {}
    PROVE  Stalest(q) \in q
<1> DEFINE M == {r.mark : r \in q}
<1>1. M \subseteq Int /\ M # {} /\ IsFiniteSet(M)
  <2>1. M \subseteq (-1)..MaxSlot /\ M # {}
    BY DEF Slots, Null
  <2>2. IsFiniteSet((-1)..MaxSlot) /\ (-1)..MaxSlot \subseteq Int
    BY FS_Interval
  <2>3. QED
    <3> HIDE DEF M
    <3>1. QED  BY <2>1, <2>2, FS_Subset
<1>2. PICK m \in M : \A y \in M : m <= y
  <2> HIDE DEF M
  <2>1. QED  BY <1>1, LeastElement
<1> DEFINE S == {r.sid : r \in {o \in q : o.mark = m}}
<1>3. S \subseteq Int /\ S # {} /\ IsFiniteSet(S)
  <2>1. S \subseteq Schedules /\ S # {}
    BY <1>2
  <2>2. QED  BY <2>1, FS_Subset
<1>4. PICK i \in S : \A y \in S : i <= y
  <2> HIDE DEF S
  <2>1. QED  BY <1>3, LeastElement
<1>5. PICK r \in q : r.mark = m /\ r.sid = i
  BY <1>4
<1>6. \A o \in q : r.mark < o.mark \/ (r.mark = o.mark /\ r.sid <= o.sid)
  <2> TAKE o \in q
  <2>1. r.mark <= o.mark /\ r.mark \in Int /\ o.mark \in Int
    BY <1>2, <1>5 DEF Slots, Null
  <2>2. CASE r.mark = o.mark
    BY <1>4, <1>5, <2>2
  <2>3. CASE r.mark # o.mark
    BY <2>1, <2>3
  <2>4. QED  BY <2>2, <2>3
<1>7. QED  BY <1>6 DEF Stalest

-----------------------------------------------------------------------------
(***************************************************************************)
(* Type correctness.  The updates of a daemon's locals, one lemma per set  *)
(* of fields an action changes.                                            *)
(***************************************************************************)
LEMMA PcInLocals ==
    ASSUME NEW l \in Locals, NEW p \in Pcs
    PROVE  [l EXCEPT !.pc = p] \in Locals
  BY DEF Locals

(* Setting the work list of a daemon's locals keeps their type. *)
LEMMA TodoInLocals ==
    ASSUME NEW l \in Locals, NEW w \in SUBSET Key
    PROVE  [l EXCEPT !.todo = w] \in Locals
  BY DEF Locals

(* Setting the counter and the work list of a daemon's locals keeps their type. *)
LEMMA PcTodoInLocals ==
    ASSUME NEW l \in Locals, NEW p \in Pcs, NEW w \in SUBSET Key
    PROVE  [l EXCEPT !.pc = p, !.todo = w] \in Locals
  BY DEF Locals

(* Setting the counter and the time of a daemon's locals keeps their type. *)
LEMMA PcNowInLocals ==
    ASSUME NEW l \in Locals, NEW p \in Pcs, NEW n \in Slots
    PROVE  [l EXCEPT !.pc = p, !.now = n] \in Locals
  BY DEF Locals

(* Setting the counter and the queue of a daemon's locals keeps their type. *)
LEMMA PcQueueInLocals ==
    ASSUME NEW l \in Locals, NEW p \in Pcs, NEW q \in SUBSET [sid : Schedules, mark : Slots \cup {Null}]
    PROVE  [l EXCEPT !.pc = p, !.queue = q] \in Locals
  BY DEF Locals

(* Going back to the loop over the queue keeps the type of the locals. *)
LEMMA NextLocalsInLocals ==
    ASSUME NEW l \in Locals, NEW p \in Pcs, NEW s \in Nat, NEW a \in Int, NEW m \in SUBSET Slots, NEW t \in Slots, NEW o \in Outcomes \cup {NoReceipt}
    PROVE  [l EXCEPT !.pc = p, !.sid = s, !.after = a, !.missed = m, !.slot = t, !.out = o] \in Locals
  BY DEF Locals

(* So do the writes of InvalidSchedule, *)
LEMMA InvalidLocalsInLocals ==
    ASSUME NEW l \in Locals, NEW p \in Pcs, NEW q \in SUBSET [sid : Schedules, mark : Slots \cup {Null}], NEW s \in Nat, NEW a \in Int, NEW c \in Nat
    PROVE  [l EXCEPT !.pc = p, !.queue = q, !.sid = s, !.after = a, !.considered = c] \in Locals
  BY DEF Locals

(* of TakeSchedule, *)
LEMMA TakeLocalsInLocals ==
    ASSUME NEW l \in Locals, NEW p \in Pcs, NEW q \in SUBSET [sid : Schedules, mark : Slots \cup {Null}], NEW s \in Nat, NEW a \in Int, NEW t \in Slots, NEW m \in SUBSET Slots
    PROVE  [l EXCEPT !.pc = p, !.queue = q, !.sid = s, !.after = a, !.slot = t, !.missed = m] \in Locals
  BY DEF Locals

(* of ConsiderMissed, *)
LEMMA MissedLocalsInLocals ==
    ASSUME NEW l \in Locals, NEW m \in SUBSET Slots, NEW c \in Nat, NEW f \in Nat
    PROVE  [l EXCEPT !.missed = m, !.considered = c, !.fired = f] \in Locals
  BY DEF Locals

(* of SkipPreviousAwaiting, *)
LEMMA PcConsideredInLocals ==
    ASSUME NEW l \in Locals, NEW p \in Pcs, NEW c \in Nat
    PROVE  [l EXCEPT !.pc = p, !.considered = c] \in Locals
  BY DEF Locals

(* of HealOrphan and RecordOutcome, *)
LEMMA PcCountsInLocals ==
    ASSUME NEW l \in Locals, NEW p \in Pcs, NEW c \in Nat, NEW f \in Nat
    PROVE  [l EXCEPT !.pc = p, !.considered = c, !.fired = f] \in Locals
  BY DEF Locals

(* of Settle, *)
LEMMA PcOutInLocals ==
    ASSUME NEW l \in Locals, NEW p \in Pcs, NEW o \in Outcomes \cup {NoReceipt}
    PROVE  [l EXCEPT !.pc = p, !.out = o] \in Locals
  BY DEF Locals

(* and of CreateRun. *)
LEMMA PcDispatchedInLocals ==
    ASSUME NEW l \in Locals, NEW p \in Pcs, NEW k \in Nat
    PROVE  [l EXCEPT !.pc = p, !.dispatched = k] \in Locals
  BY DEF Locals

(* The locals of a daemon at rest have their type. *)
LEMMA RestInLocals ==
    ASSUME NEW p \in Pcs
    PROVE  Rest(p) \in Locals
  BY DEF Rest, Locals, Slots, Null

(* The type of a daemon's locals, field by field. *)
LEMMA FieldsOfLocals ==
    ASSUME NEW l \in Locals
    PROVE  /\ l.pc \in Pcs /\ l.now \in Slots /\ l.todo \in SUBSET Key
           /\ l.queue \in SUBSET [sid : Schedules, mark : Slots \cup {Null}]
           /\ l.sid \in Nat /\ l.after \in Int /\ l.missed \in SUBSET Slots
           /\ l.slot \in Slots /\ l.out \in Outcomes \cup {NoReceipt}
           /\ l.fired \in Nat /\ l.considered \in Nat /\ l.dispatched \in Nat
  BY DEF Locals

(* Every step keeps the types. *)
LEMMA TypeOKStep ==
    ASSUME TypeOK, [Next]_vars
    PROVE  TypeOK'
<1>a. tick \in [Daemons -> Locals] /\ clock \in Slots
  BY DEF TypeOK
<1>0. CASE UNCHANGED vars
  BY <1>0 DEF TypeOK, vars, db, history
<1>1. CASE AdvanceClock
  BY <1>1 DEF AdvanceClock, Slots, TypeOK, db, history
<1>2. CASE SetClockBack
  BY <1>2 DEF SetClockBack, Fault, Slots, TypeOK, db, history
<1>3. ASSUME NEW s \in Schedules, CreateSchedule(s) PROVE TypeOK'
  BY <1>3 DEF CreateSchedule, Request, Null, TypeOK, db, history
<1>4. ASSUME NEW s \in Schedules, DeleteSchedule(s) PROVE TypeOK'
  <2>1. row' \in [Schedules -> [live : BOOLEAN, enabled : BOOLEAN, mark : Slots \cup {Null}]]
    BY <1>4 DEF DeleteSchedule, TypeOK
  <2>2. QED  BY <1>4, <2>1 DEF DeleteSchedule, Request, TypeOK, db, history
<1>5. ASSUME NEW s \in Schedules, NEW e \in BOOLEAN, SetEnabled(s, e) PROVE TypeOK'
  <2>1. row' \in [Schedules -> [live : BOOLEAN, enabled : BOOLEAN, mark : Slots \cup {Null}]]
    BY <1>5 DEF SetEnabled, TypeOK
  <2>2. QED  BY <1>5, <2>1 DEF SetEnabled, Request, TypeOK, db, history
<1>6. ASSUME NEW p \in BOOLEAN, SetPaused(p) PROVE TypeOK'
  BY <1>6 DEF SetPaused, Request, TypeOK, db, history
<1>7. ASSUME NEW x \in Key, CancelRun(x) PROVE TypeOK'
  BY <1>7 DEF CancelRun, Request, RunStates, Terminal, TypeOK, db, history
<1>8. ASSUME NEW d \in Daemons, Boot(d)
      PROVE  TypeOK'
  <2>0. tick[d] \in Locals
    BY <1>a
  <2>1. "recover" \in Pcs /\ InFlightBefore(clock) \in SUBSET Key
    BY DEF Pcs, InFlightBefore
  <2>2. tick' \in [Daemons -> Locals]
    BY <1>a, <1>8, <2>0, <2>1, PcTodoInLocals
       DEF Boot, SetLocals
  <2>3. QED  BY <1>8, <2>2
       DEF Boot, TypeOK, db, history
<1>9. ASSUME NEW d \in Daemons, AcquireLease(d)
      PROVE  TypeOK'
  <2>0. tick[d] \in Locals
    BY <1>a
  <2>1. "scan" \in Pcs
    BY DEF Pcs
  <2>2. tick' \in [Daemons -> Locals]
    BY <1>a, <1>9, <2>0, <2>1, PcNowInLocals
       DEF AcquireLease, SetLocals
  <2>3. QED  BY <1>9, <2>2
       DEF AcquireLease, Slots, TypeOK, db, history
<1>10. ASSUME NEW d \in Daemons, ScanStale(d)
      PROVE  TypeOK'
  <2>0. tick[d] \in Locals
    BY <1>a
  <2>1. "reconcile" \in Pcs
        /\ InFlightBefore(tick[d].now - StaleAfter) \in SUBSET Key
    BY DEF Pcs, InFlightBefore
  <2>2. tick' \in [Daemons -> Locals]
    BY <1>a, <1>10, <2>0, <2>1, PcTodoInLocals
       DEF ScanStale, SetLocals
  <2>3. QED  BY <1>10, <2>2
       DEF ScanStale, TypeOK, db, history
<1>11. ASSUME NEW d \in Daemons, ReconcileRun(d)
      PROVE  TypeOK'
  <2>0. tick[d] \in Locals
    BY <1>a
  <2>1. \A x \in Key : tick[d].todo \ {x} \in SUBSET Key
    BY <2>0, FieldsOfLocals
  <2>2. /\ tick[d].todo \in SUBSET Key /\ tick[d].fired \in Nat
        /\ tick[d].considered \in Nat /\ tick[d].dispatched \in Nat
    BY <2>0, FieldsOfLocals
  <2>3. tick' \in [Daemons -> Locals]
    BY <1>a, <1>11, <2>0, <2>1, <2>2, TodoInLocals
       DEF ReconcileRun, SetLocals
  <2>4. QED  BY <1>11, <2>3, <2>0, FieldsOfLocals
       DEF ReconcileRun, RunStates, Terminal, TypeOK, db, history
<1>12. ASSUME NEW d \in Daemons, ReconcileDone(d)
      PROVE  TypeOK'
  <2>0. tick[d] \in Locals
    BY <1>a
  <2>1. "idle" \in Pcs /\ "list" \in Pcs
    BY DEF Pcs
  <2>2. tick' \in [Daemons -> Locals]
    BY <1>a, <1>12, <2>0, <2>1, PcInLocals
       DEF ReconcileDone, SetLocals
  <2>3. QED  BY <1>12, <2>2
       DEF ReconcileDone, TypeOK, db, history
<1>13. ASSUME NEW d \in Daemons, SweepError(d)
      PROVE  TypeOK'
  <2>0. tick[d] \in Locals
    BY <1>a
  <2>1. "idle" \in Pcs /\ "list" \in Pcs /\ {} \in SUBSET Key
    BY DEF Pcs
  <2>2. tick' \in [Daemons -> Locals]
    BY <1>a, <1>13, <2>0, <2>1, PcTodoInLocals
       DEF SweepError, SetLocals
  <2>3. QED  BY <1>13, <2>2
       DEF SweepError, Fault, TypeOK, db, history
<1>14. ASSUME NEW d \in Daemons, StartTick(d)
      PROVE  TypeOK'
  <2>0. tick[d] \in Locals
    BY <1>a
  <2> DEFINE q == {[sid |-> s, mark |-> row[s].mark] :
                     s \in {r \in Schedules : row[r].live /\ row[r].enabled}}
  <2>1. q \in SUBSET [sid : Schedules, mark : Slots \cup {Null}]
    BY DEF TypeOK
  <2>2. "idle" \in Pcs /\ "next" \in Pcs
    BY DEF Pcs
  <2>3. [tick[d] EXCEPT !.pc = "next", !.queue = q] \in Locals
    <3> HIDE DEF q
    <3>1. QED  BY <2>0, <2>1, <2>2, PcQueueInLocals
  <2>4. Rest("idle") \in Locals
    BY <2>2, RestInLocals
  <2>5. tick' \in [Daemons -> Locals]
    BY <1>a, <1>14, <2>3, <2>4 DEF StartTick, SetLocals
  <2>6. QED  BY <1>14, <2>5 DEF StartTick, TypeOK, db, history
<1>15. ASSUME NEW d \in Daemons, EndTick(d)
      PROVE  TypeOK'
  <2>0. tick[d] \in Locals
    BY <1>a
  <2>1. "idle" \in Pcs
    BY DEF Pcs
  <2>2. tick' \in [Daemons -> Locals]
    BY <1>a, <1>15, <2>0, <2>1, RestInLocals
       DEF EndTick, SetLocals
  <2>3. QED  BY <1>15, <2>2
       DEF EndTick, TypeOK, db, history
<1>16. ASSUME NEW d \in Daemons, InvalidSchedule(d)
      PROVE  TypeOK'
  <2>0. /\ tick[d] \in Locals /\ tick[d].considered \in Nat /\ tick[d].now \in Slots
        /\ tick[d].queue \in SUBSET [sid : Schedules, mark : Slots \cup {Null}]
    BY <1>a, FieldsOfLocals
  <2>1. Stalest(tick[d].queue) \in tick[d].queue
    BY <1>16, <2>0, StalestInQueue DEF InvalidSchedule
  <2> DEFINE r == Stalest(tick[d].queue)
  <2>2. r.sid \in Schedules /\ r.mark \in Int /\ tick[d].now \in Int
    BY <2>0, <2>1 DEF Slots, Null
  <2>3. StartAfter(r, tick[d].now) \in Int
    BY <2>2 DEF StartAfter
  <2>4. /\ "advance" \in Pcs /\ r.sid \in Nat
        /\ tick[d].queue \ {r} \in SUBSET [sid : Schedules, mark : Slots \cup {Null}]
        /\ tick[d].considered + Fresh(<<r.sid, tick[d].now>>) \in Nat
    <3>1. "advance" \in Pcs
      BY DEF Pcs
    <3>2. Fresh(<<r.sid, tick[d].now>>) \in Nat
      BY DEF Fresh
    <3>3. tick[d].considered + Fresh(<<r.sid, tick[d].now>>) \in Nat
      BY <2>0, <3>2
    <3> HIDE DEF r
    <3>4. tick[d].queue \ {r} \in SUBSET [sid : Schedules, mark : Slots \cup {Null}]
      BY <2>0
    <3>5. r.sid \in Nat
      BY <2>2
    <3>6. QED  BY <3>1, <3>3, <3>4, <3>5
  <2> HIDE DEF r
  <2>5. tick' \in [Daemons -> Locals]
    BY <1>a, <1>16, <2>0, <2>3, <2>4, InvalidLocalsInLocals DEF InvalidSchedule, SetLocals, r
  <2>6. QED  BY <1>16, <2>0, <2>2, <2>5 DEF InvalidSchedule, RecordFire, Outcomes, TypeOK, db, history, r
<1>17. ASSUME NEW d \in Daemons, TakeSchedule(d)
      PROVE  TypeOK'
  <2>0. /\ tick[d] \in Locals /\ tick[d].considered \in Nat /\ tick[d].now \in Slots
        /\ tick[d].queue \in SUBSET [sid : Schedules, mark : Slots \cup {Null}]
    BY <1>a, FieldsOfLocals
  <2>1. Stalest(tick[d].queue) \in tick[d].queue
    BY <1>17, <2>0, StalestInQueue DEF TakeSchedule
  <2> DEFINE r == Stalest(tick[d].queue)
  <2>2. r.sid \in Schedules /\ r.mark \in Int /\ tick[d].now \in Int
    BY <2>0, <2>1 DEF Slots, Null
  <2>3. StartAfter(r, tick[d].now) \in Int
    BY <2>2 DEF StartAfter
  <2> DEFINE due == DueSlots(r.sid, StartAfter(r, tick[d].now), tick[d].now)
             slot == IF due = {} THEN 0 ELSE Max(due)
  <2>4. due \in SUBSET Slots
    BY <2>2 DEF DueSlots
  <2>5. slot \in Slots
    <3> HIDE DEF due
    <3>1. 0 \in Slots
      BY DEF Slots
    <3>2. QED  BY <2>4, <3>1, MaxOfSlots
  <2>6. "advance" \in Pcs /\ "slots" \in Pcs /\ r.sid \in Nat /\ due \ {slot} \in SUBSET Slots
        /\ tick[d].queue \ {r} \in SUBSET [sid : Schedules, mark : Slots \cup {Null}]
    BY <2>0, <2>2, <2>4 DEF Pcs
  <2> HIDE DEF r, due, slot
  <2>7. tick' \in [Daemons -> Locals]
    BY <1>a, <1>17, <2>0, <2>3, <2>5, <2>6, TakeLocalsInLocals DEF TakeSchedule, SetLocals, r, due, slot
  <2>8. QED  BY <1>17, <2>7 DEF TakeSchedule, TypeOK, db, history
<1>18. ASSUME NEW d \in Daemons, ConsiderMissed(d)
      PROVE  TypeOK'
  <2>0. /\ tick[d] \in Locals
        /\ tick[d].fired \in Nat /\ tick[d].considered \in Nat /\ tick[d].dispatched \in Nat
        /\ tick[d].now \in Slots /\ tick[d].out \in Outcomes \cup {NoReceipt}
        /\ tick[d].missed \in SUBSET Slots
    BY <1>a, FieldsOfLocals
  <2> DEFINE m == <<tick[d].sid, Min(tick[d].missed)>>
             o == IF RunExists(m) THEN "fired" ELSE "skipped_missed"
             c == tick[d].considered + Fresh(m)
             f == IF o = "fired" THEN tick[d].fired + Fresh(m) ELSE tick[d].fired
  <2>1. Fresh(m) \in Nat
    BY DEF Fresh
  <2>2. c \in Nat /\ f \in Nat /\ tick[d].missed \ {m[2]} \in SUBSET Slots
    BY <2>0, <2>1
  <2>3. [tick[d] EXCEPT !.missed = tick[d].missed \ {m[2]}, !.considered = c, !.fired = f] \in Locals
    <3> HIDE DEF m, c, f
    <3>1. QED  BY <2>0, <2>2, MissedLocalsInLocals
  <2>4. tick' \in [Daemons -> Locals]
    BY <1>a, <1>18, <2>3 DEF ConsiderMissed, SetLocals
  <2>5. QED  BY <1>18, <2>4 DEF ConsiderMissed, RecordFire, Outcomes, TypeOK, db, history
<1>19. ASSUME NEW d \in Daemons, AlreadyConsidered(d)
      PROVE  TypeOK'
  <2>0. tick[d] \in Locals
    BY <1>a
  <2>1. "advance" \in Pcs
    BY DEF Pcs
  <2>2. tick' \in [Daemons -> Locals]
    BY <1>a, <1>19, <2>0, <2>1, PcInLocals
       DEF AlreadyConsidered, SetLocals
  <2>3. QED  BY <1>19, <2>2
       DEF AlreadyConsidered, TypeOK, db, history
<1>20. ASSUME NEW d \in Daemons, SkipPreviousAwaiting(d)
      PROVE  TypeOK'
  <2>0. /\ tick[d] \in Locals
        /\ tick[d].fired \in Nat /\ tick[d].considered \in Nat /\ tick[d].dispatched \in Nat
        /\ tick[d].now \in Slots /\ tick[d].out \in Outcomes \cup {NoReceipt}
        /\ tick[d].missed \in SUBSET Slots
    BY <1>a, FieldsOfLocals
  <2>1. "advance" \in Pcs
    BY DEF Pcs
  <2>2. tick[d].considered + 1 \in Nat
    BY <2>0
  <2>3. [tick[d] EXCEPT !.pc = "advance", !.considered = @ + 1] \in Locals
    BY <2>0, <2>1, <2>2, PcConsideredInLocals
  <2>4. tick' \in [Daemons -> Locals]
    BY <1>a, <1>20, <2>3 DEF SkipPreviousAwaiting, SetLocals
  <2>5. QED  BY <1>20, <2>0, <2>4 DEF SkipPreviousAwaiting, RecordFire, Outcomes, TypeOK, db, history
<1>21. ASSUME NEW d \in Daemons, DeferSlot(d)
      PROVE  TypeOK'
  <2>0. tick[d] \in Locals
    BY <1>a
  <2>1. "next" \in Pcs /\ Null \in Int /\ 0 \in Slots /\ {} \in SUBSET Slots
    BY DEF Pcs, Null, Slots
  <2>2. [tick[d] EXCEPT !.pc = "next", !.sid = 0, !.after = Null,
                        !.missed = {}, !.slot = 0, !.out = NoReceipt] \in Locals
    BY <2>0, <2>1, NextLocalsInLocals
  <2>3. tick' \in [Daemons -> Locals]
    BY <1>a, <1>21, <2>2 DEF DeferSlot, NextSchedule, SetLocals
  <2>4. passed' \in [Schedules -> Nat]
    <3>1. passed \in [Schedules -> Nat]
      BY DEF TypeOK
    <3>2. passed' = [passed EXCEPT ![tick[d].sid] = @ + 1]
      BY <1>21 DEF DeferSlot
    <3>3. ASSUME NEW x \in Schedules, passed' = [passed EXCEPT ![x] = @ + 1]
          PROVE  passed' \in [Schedules -> Nat]
      <4>1. passed[x] + 1 \in Nat
        BY <3>1
      <4>2. QED  BY <3>1, <3>3, <4>1
    <3>4. CASE tick[d].sid \in Schedules
      BY <3>2, <3>3, <3>4
    <3>5. CASE tick[d].sid \notin Schedules
      BY <3>1, <3>2, <3>5
    <3>6. QED  BY <3>4, <3>5
  <2>5. QED  BY <1>21, <2>3, <2>4 DEF DeferSlot, TypeOK, db, history
<1>22. ASSUME NEW d \in Daemons, HealOrphan(d)
      PROVE  TypeOK'
  <2>0. /\ tick[d] \in Locals
        /\ tick[d].fired \in Nat /\ tick[d].considered \in Nat /\ tick[d].dispatched \in Nat
        /\ tick[d].now \in Slots /\ tick[d].out \in Outcomes \cup {NoReceipt}
        /\ tick[d].missed \in SUBSET Slots
    BY <1>a, FieldsOfLocals
  <2>1. "advance" \in Pcs
    BY DEF Pcs
  <2>2. tick[d].considered + 1 \in Nat /\ tick[d].fired + 1 \in Nat
    BY <2>0
  <2>3. [tick[d] EXCEPT !.pc = "advance", !.considered = @ + 1, !.fired = @ + 1] \in Locals
    BY <2>0, <2>1, <2>2, PcCountsInLocals
  <2>4. tick' \in [Daemons -> Locals]
    BY <1>a, <1>22, <2>3 DEF HealOrphan, SetLocals
  <2>5. QED  BY <1>22, <2>0, <2>4 DEF HealOrphan, RecordFire, Outcomes, TypeOK, db, history
<1>23. ASSUME NEW d \in Daemons, ChooseDispatch(d)
      PROVE  TypeOK'
  <2>0. tick[d] \in Locals
    BY <1>a
  <2>1. "dispatch" \in Pcs
    BY DEF Pcs
  <2>2. tick' \in [Daemons -> Locals]
    BY <1>a, <1>23, <2>0, <2>1, PcInLocals
       DEF ChooseDispatch, SetLocals
  <2>3. QED  BY <1>23, <2>2
       DEF ChooseDispatch, TypeOK, db, history
<1>24. ASSUME NEW d \in Daemons, NoPublishedVersion(d)
      PROVE  TypeOK'
  <2>0. tick[d] \in Locals
    BY <1>a
  <2>1. "receipt" \in Pcs /\ "skipped_no_published" \in Outcomes
    BY DEF Pcs, Outcomes
  <2>2. tick' \in [Daemons -> Locals]
    BY <1>a, <1>24, <2>0, <2>1, PcOutInLocals
       DEF NoPublishedVersion, Settle, SetLocals
  <2>3. QED  BY <1>24, <2>2
       DEF NoPublishedVersion, TypeOK, db, history
<1>25. ASSUME NEW d \in Daemons, CreateRun(d)
      PROVE  TypeOK'
  <2>0. /\ tick[d] \in Locals
        /\ tick[d].fired \in Nat /\ tick[d].considered \in Nat /\ tick[d].dispatched \in Nat
        /\ tick[d].now \in Slots /\ tick[d].out \in Outcomes \cup {NoReceipt}
        /\ tick[d].missed \in SUBSET Slots
    BY <1>a, FieldsOfLocals
  <2>1. "start" \in Pcs
    BY DEF Pcs
  <2>2. tick[d].dispatched + 1 \in Nat
    BY <2>0
  <2>3. [tick[d] EXCEPT !.pc = "start", !.dispatched = @ + 1] \in Locals
    BY <2>0, <2>1, <2>2, PcDispatchedInLocals
  <2>4. tick' \in [Daemons -> Locals]
    BY <1>a, <1>25, <2>3 DEF CreateRun, SetLocals
  <2>5. QED  BY <1>25, <2>0, <2>4 DEF CreateRun, RunStates, NonTerminal, InFlight, TypeOK, db, history
<1>26. ASSUME NEW d \in Daemons, DuplicateRun(d)
      PROVE  TypeOK'
  <2>0. tick[d] \in Locals
    BY <1>a
  <2>1. "receipt" \in Pcs /\ "error" \in Outcomes
    BY DEF Pcs, Outcomes
  <2>2. tick' \in [Daemons -> Locals]
    BY <1>a, <1>26, <2>0, <2>1, PcOutInLocals
       DEF DuplicateRun, Settle, SetLocals
  <2>3. QED  BY <1>26, <2>2
       DEF DuplicateRun, TypeOK, db, history
<1>27. ASSUME NEW d \in Daemons, StartRun(d)
      PROVE  TypeOK'
  <2>0. /\ tick[d] \in Locals
        /\ tick[d].fired \in Nat /\ tick[d].considered \in Nat /\ tick[d].dispatched \in Nat
        /\ tick[d].now \in Slots /\ tick[d].out \in Outcomes \cup {NoReceipt}
        /\ tick[d].missed \in SUBSET Slots
    BY <1>a, FieldsOfLocals
  <2>1. "receipt" \in Pcs /\ "engine" \in Pcs /\ "error" \in Outcomes
    BY DEF Pcs, Outcomes
  <2>2. /\ [tick[d] EXCEPT !.pc = "engine"] \in Locals
        /\ [tick[d] EXCEPT !.pc = "receipt", !.out = "error"] \in Locals
    BY <2>0, <2>1, PcInLocals, PcOutInLocals
  <2>3. tick' \in [Daemons -> Locals]
    BY <1>a, <1>27, <2>2 DEF StartRun, Settle, SetLocals
  <2>4. run' \in [Key -> [st : RunStates, at : Slots]]
    <3>1. run \in [Key -> [st : RunStates, at : Slots]]
      BY DEF TypeOK
    <3>2. [st |-> "running", at |-> tick[d].now] \in [st : RunStates, at : Slots]
      BY <2>0 DEF RunStates, NonTerminal, InFlight
    <3>3. QED  BY <1>27, <3>1, <3>2 DEF StartRun
  <2>5. drives' \in [Key -> Nat]
    <3>1. drives \in [Key -> Nat] /\ \A n \in Nat : n + 1 \in Nat
      BY DEF TypeOK
    <3>2. QED  BY <1>27, <3>1 DEF StartRun
  <2>6. QED  BY <1>27, <2>3, <2>4, <2>5 DEF StartRun, TypeOK, db, history
<1>28. ASSUME NEW d \in Daemons,
            NEW end \in {"done", "failed", "awaiting_checkpoint"}, FinishRun(d, end)
      PROVE  TypeOK'
  <2>0. /\ tick[d] \in Locals
        /\ tick[d].fired \in Nat /\ tick[d].considered \in Nat /\ tick[d].dispatched \in Nat
        /\ tick[d].now \in Slots /\ tick[d].out \in Outcomes \cup {NoReceipt}
        /\ tick[d].missed \in SUBSET Slots
    BY <1>a, FieldsOfLocals
  <2>1. "receipt" \in Pcs /\ "error" \in Outcomes /\ "fired" \in Outcomes
    BY DEF Pcs, Outcomes
  <2>2. /\ [tick[d] EXCEPT !.pc = "receipt", !.out = "fired"] \in Locals
        /\ [tick[d] EXCEPT !.pc = "receipt", !.out = "error"] \in Locals
    BY <2>0, <2>1, PcOutInLocals
  <2>3. tick' \in [Daemons -> Locals]
    BY <1>a, <1>28, <2>2 DEF FinishRun, Settle, SetLocals
  <2>4. run' \in [Key -> [st : RunStates, at : Slots]]
    BY <1>28, <2>0 DEF FinishRun, TypeOK, RunStates, NonTerminal, Terminal
  <2>5. QED  BY <1>28, <2>3, <2>4 DEF FinishRun, TypeOK, db, history
<1>29. ASSUME NEW d \in Daemons, DispatchError(d)
      PROVE  TypeOK'
  <2>0. tick[d] \in Locals
    BY <1>a
  <2>1. "receipt" \in Pcs /\ "error" \in Outcomes
    BY DEF Pcs, Outcomes
  <2>2. tick' \in [Daemons -> Locals]
    BY <1>a, <1>29, <2>0, <2>1, PcOutInLocals
       DEF DispatchError, Settle, SetLocals
  <2>3. QED  BY <1>29, <2>2
       DEF DispatchError, Fault, TypeOK, db, history
<1>30. ASSUME NEW d \in Daemons, RecordOutcome(d)
      PROVE  TypeOK'
  <2>0. /\ tick[d] \in Locals
        /\ tick[d].fired \in Nat /\ tick[d].considered \in Nat /\ tick[d].dispatched \in Nat
        /\ tick[d].now \in Slots /\ tick[d].out \in Outcomes \cup {NoReceipt}
        /\ tick[d].missed \in SUBSET Slots
    BY <1>a, FieldsOfLocals
  <2> DEFINE c == tick[d].considered + Fresh(RunId(d))
             f == IF tick[d].out = "fired" THEN tick[d].fired + Fresh(RunId(d)) ELSE tick[d].fired
  <2>1. Fresh(RunId(d)) \in Nat
    BY DEF Fresh
  <2>2. c \in Nat /\ f \in Nat
    BY <2>0, <2>1
  <2>3. "advance" \in Pcs
    BY DEF Pcs
  <2>4. [tick[d] EXCEPT !.pc = "advance", !.considered = c, !.fired = f] \in Locals
    <3> HIDE DEF c, f
    <3>1. QED  BY <2>0, <2>2, <2>3, PcCountsInLocals
  <2>5. tick' \in [Daemons -> Locals]
    BY <1>a, <1>30, <2>4 DEF RecordOutcome, SetLocals
  <2>6. QED  BY <1>30, <2>0, <2>5 DEF RecordOutcome, RecordFire, TypeOK, db, history
<1>31. ASSUME NEW d \in Daemons, AdvanceWatermark(d)
      PROVE  TypeOK'
  <2>0. tick[d] \in Locals
    BY <1>a
  <2>1. "next" \in Pcs /\ Null \in Int /\ 0 \in Slots /\ {} \in SUBSET Slots
    BY DEF Pcs, Null, Slots
  <2>2. [tick[d] EXCEPT !.pc = "next", !.sid = 0, !.after = Null,
                        !.missed = {}, !.slot = 0, !.out = NoReceipt] \in Locals
    BY <2>0, <2>1, NextLocalsInLocals
  <2>3. tick' \in [Daemons -> Locals]
    BY <1>a, <1>31, <2>2 DEF AdvanceWatermark, NextSchedule, SetLocals
  <2>4. tick[d].now \in Slots /\ tick[d].after \in Int
    BY <2>0, FieldsOfLocals
  <2>5. row' \in [Schedules -> [live : BOOLEAN, enabled : BOOLEAN, mark : Slots \cup {Null}]]
    <3>1. row \in [Schedules -> [live : BOOLEAN, enabled : BOOLEAN, mark : Slots \cup {Null}]]
      BY DEF TypeOK
    <3> DEFINE s == tick[d].sid
               m == IF row[s].mark < tick[d].now THEN tick[d].now ELSE row[s].mark
    <3>2. row' = [row EXCEPT ![s].mark = m]
      BY <1>31 DEF AdvanceWatermark
    <3>3. s \in Schedules => m \in Slots \cup {Null}
      BY <2>4, <3>1
    <3> HIDE DEF m, s
    <3>4. QED  BY <3>1, <3>2, <3>3
  <2>6. base' \in [Schedules -> Int] /\ passed' \in [Schedules -> Nat]
    BY <1>31, <2>4 DEF AdvanceWatermark, TypeOK
  <2>7. QED  BY <1>31, <2>3, <2>5, <2>6 DEF AdvanceWatermark, TypeOK, db, history
<1>32. ASSUME NEW d \in Daemons, ScheduleGone(d)
      PROVE  TypeOK'
  <2>0. tick[d] \in Locals
    BY <1>a
  <2>1. "idle" \in Pcs
    BY DEF Pcs
  <2>2. tick' \in [Daemons -> Locals]
    BY <1>a, <1>32, <2>0, <2>1, RestInLocals
       DEF ScheduleGone, SetLocals
  <2>3. QED  BY <1>32, <2>2
       DEF ScheduleGone, TypeOK, db, history
<1>33. ASSUME NEW d \in Daemons, TickError(d)
      PROVE  TypeOK'
  <2>0. tick[d] \in Locals
    BY <1>a
  <2>1. "idle" \in Pcs
    BY DEF Pcs
  <2>2. tick' \in [Daemons -> Locals]
    BY <1>a, <1>33, <2>0, <2>1, RestInLocals
       DEF TickError, SetLocals
  <2>3. QED  BY <1>33, <2>2
       DEF TickError, Fault, TypeOK, db, history
<1>34. ASSUME NEW d \in Daemons, Crash(d)
      PROVE  TypeOK'
  <2>0. tick[d] \in Locals
    BY <1>a
  <2>1. "dead" \in Pcs
    BY DEF Pcs
  <2>2. tick' \in [Daemons -> Locals]
    BY <1>a, <1>34, <2>0, <2>1, RestInLocals
       DEF Crash, SetLocals
  <2>3. QED  BY <1>34, <2>2
       DEF Crash, Fault, TypeOK, db, history
<1>35. QED
  BY <1>0, <1>1, <1>2, <1>3, <1>4, <1>5, <1>6, <1>7, <1>8, <1>9, <1>10, <1>11, <1>12, <1>13, <1>14, <1>15, <1>16, <1>17, <1>18, <1>19, <1>20, <1>21, <1>22, <1>23, <1>24, <1>25, <1>26, <1>27, <1>28, <1>29, <1>30, <1>31, <1>32, <1>33, <1>34
     DEF Next, Operator, TickStep

(* The initial state has its type. *)
LEMMA InitTypeOK == Init => TypeOK
<1> SUFFICES ASSUME Init PROVE TypeOK
  OBVIOUS
<1>1. tick \in [Daemons -> Locals]
  BY RestInLocals DEF Init, Pcs
<1>2. run \in [Key -> [st : RunStates, at : Slots]]
  BY DEF Init, RunStates, Slots
<1>3. row \in [Schedules -> [live : BOOLEAN, enabled : BOOLEAN, mark : Slots \cup {Null}]]
  BY DEF Init
<1>4. lease = {} /\ Null \in Int /\ 0 \in Slots
  BY DEF Init, Null, Slots
<1>5. faults \in 0..MaxFaults /\ ops \in 0..MaxOps
  BY DEF Init
<1>6. drives \in [Key -> Nat] /\ base \in [Schedules -> Int] /\ passed \in [Schedules -> Nat]
  BY <1>4 DEF Init
<1>7. fire \in [Key -> Outcomes \cup {NoReceipt}] /\ clock \in Slots
      /\ paused \in BOOLEAN /\ setback \in BOOLEAN
  BY <1>4 DEF Init
<1>8. QED  BY <1>1, <1>2, <1>3, <1>4, <1>5, <1>6, <1>7 DEF TypeOK

(* SchedulerTick keeps its types for every set of schedules and daemons,     *)
(* every cron table and every bound: in particular the receipt of a tick     *)
(* never carries an outcome outside the receipt vocabulary.                  *)
THEOREM TypeCorrect == Spec => []TypeOK
  BY InitTypeOK, TypeOKStep, PTL DEF Spec

-----------------------------------------------------------------------------
(***************************************************************************)
(* The inductive invariant.  The daemon about to start a run is the only   *)
(* one that created it, the run exists and was never driven; a daemon that *)
(* will report "fired" has a run; the slot a daemon decides about is the   *)
(* latest due one of its tick.                                             *)
(***************************************************************************)
Latest(s, t, now) == t \in Due[s] /\ t <= now /\ \A u \in Due[s] : ~(t < u /\ u <= now)

LocalInv(l, r, k) ==
    /\ l.pc \in {"slots", "dispatch", "start", "engine", "receipt", "advance"}
         => l.sid \in Schedules
    /\ l.pc \in {"slots", "dispatch", "start", "engine"} => Latest(l.sid, l.slot, l.now)
    /\ l.pc \in {"start", "engine"} \/ (l.pc = "receipt" /\ l.out = "fired")
         => r[<<l.sid, l.slot>>].st # NoRun
    /\ l.pc = "start" => k[<<l.sid, l.slot>>] = 0

OneStarter == \A d, e \in Daemons :
    tick[d].pc = "start" /\ tick[e].pc = "start" /\ RunId(d) = RunId(e) => d = e

DrivesInv == \A x \in Key : drives[x] <= 1 /\ (~RunExists(x) => drives[x] = 0)

RunsLatest == \A x \in Key : RunExists(x) => Latest(x[1], x[2], run[x].at)

IInv ==
    /\ \A d \in Daemons : LocalInv(tick[d], run, drives)
    /\ OneStarter /\ DrivesInv /\ FiredReceiptHasRun /\ RunsLatest

(* The initial state satisfies the inductive invariant. *)
LEMMA InvInit == Init => IInv
<1> SUFFICES ASSUME Init PROVE IInv
  OBVIOUS
<1>1. \A d \in Daemons : tick[d].pc = "new"
  BY DEF Init, Rest
<1>2. (\A d \in Daemons : LocalInv(tick[d], run, drives)) /\ OneStarter
  BY <1>1 DEF LocalInv, OneStarter
<1>3. \A x \in Key : drives[x] = 0 /\ ~RunExists(x) /\ fire[x] = NoReceipt
  BY DEF Init, RunExists
<1>4. DrivesInv /\ FiredReceiptHasRun /\ RunsLatest
  BY <1>3 DEF DrivesInv, FiredReceiptHasRun, RunsLatest, NoReceipt
<1>5. QED  BY <1>2, <1>4 DEF IInv

(* What an assignment to one daemon's locals does to the others. *)
LEMMA LocalsOf ==
    ASSUME tick \in [Daemons -> Locals], NEW d \in Daemons, NEW l, SetLocals(d, l)
    PROVE  tick'[d] = l /\ \A e \in Daemons : e # d => tick'[e] = tick[e]
  BY DEF SetLocals

(* A step that touches neither the runs nor the locals keeps the invariant. *)
LEMMA StillStep ==
    ASSUME IInv, UNCHANGED <<tick, fire, run, drives>>
    PROVE  IInv'
  BY DEF IInv, OneStarter, DrivesInv, FiredReceiptHasRun, RunsLatest, RunExists, RunId

(* A step of a daemon that leaves the runs alone, does not enter "start" and *)
(* writes no unfounded receipt keeps the invariant.                          *)
LEMMA QuietStep ==
    ASSUME TypeOK, IInv, NEW d \in Daemons, NEW l, SetLocals(d, l),
           LocalInv(l, run, drives), l.pc # "start",
           UNCHANGED <<run, drives>>, FiredReceiptHasRun'
    PROVE  IInv'
<1>1. tick'[d] = l /\ \A e \in Daemons : e # d => tick'[e] = tick[e]
  BY LocalsOf DEF TypeOK
<1>2. \A e \in Daemons : LocalInv(tick'[e], run', drives')
  BY <1>1 DEF IInv
<1>3. OneStarter'
  BY <1>1 DEF IInv, OneStarter, RunId
<1>4. DrivesInv' /\ RunsLatest'
  BY DEF IInv, DrivesInv, RunsLatest, RunExists
<1>5. QED  BY <1>2, <1>3, <1>4 DEF IInv

(* A receipt that is not "fired", or that is about a run that exists. *)
LEMMA ReceiptFounded ==
    ASSUME TypeOK, FiredReceiptHasRun, UNCHANGED run, NEW x, NEW o,
           RecordFire(x, o), o = "fired" => RunExists(x)
    PROVE  FiredReceiptHasRun'
  BY DEF TypeOK, FiredReceiptHasRun, RecordFire, RunExists

(* A step that touches neither runs nor receipts keeps fired receipts founded. *)
LEMMA SameReceiptsFounded ==
    ASSUME FiredReceiptHasRun, UNCHANGED <<run, fire>>
    PROVE  FiredReceiptHasRun'
  BY DEF FiredReceiptHasRun, RunExists

(* The slot that may fire is the latest due one: the window keeps its most   *)
(* recent slots, so its largest slot survives the MaxConsidered cut.         *)
LEMMA LatestDue ==
    ASSUME NEW s \in Schedules, NEW after \in Int, NEW now \in Slots,
           DueSlots(s, after, now) # {}
    PROVE  Latest(s, Max(DueSlots(s, after, now)), now)
<1> DEFINE window == {t \in Due[s] : after < t /\ t <= now}
           due == DueSlots(s, after, now)
           last == Max(window)
<1>1. due = {t \in window : Cardinality({u \in window : u > t}) < MaxConsidered}
  BY DEF DueSlots
<1>2. window \in SUBSET Slots /\ due \in SUBSET window /\ window # {}
  BY <1>1
<1>3. last \in window /\ \A t \in window : t <= last
  <2> HIDE DEF window
  <2>1. QED  BY <1>2, MaxOfSlots
<1>4. last \in due
  <2>1. {u \in window : u > last} = {}
    <3> HIDE DEF window, last
    <3>1. \A u \in window : u \in Int /\ last \in Int
      BY <1>2, <1>3 DEF Slots
    <3>2. QED  BY <1>3, <3>1
  <2>2. Cardinality({u \in window : u > last}) = 0
    BY <2>1, FS_EmptySet
  <2> HIDE DEF window, last, due
  <2>3. QED  BY <1>1, <1>3, <2>2
<1>5. Max(due) \in due /\ last <= Max(due)
  <2> HIDE DEF window, last, due
  <2>1. due \in SUBSET Slots /\ due # {}
    BY <1>2, <1>4
  <2>2. QED  BY <1>4, <2>1, MaxOfSlots
<1>6. Max(due) \in window
  BY <1>2, <1>5
<1>7. Max(due) \in Due[s] /\ Max(due) <= now /\ after < Max(due) /\ Max(due) \in Int
  <2> HIDE DEF due
  <2>1. QED  BY <1>6 DEF Slots
<1>8. ASSUME NEW u \in Due[s], Max(due) < u, u <= now PROVE FALSE
  <2>1. u \in Int /\ last \in Int
    BY <1>2, <1>3 DEF Slots
  <2>2. u \in window
    <3> HIDE DEF due
    <3>1. QED  BY <1>7, <1>8, <2>1
  <2>3. u <= last
    <3> HIDE DEF window, last, due
    <3>1. QED  BY <1>3, <2>2
  <2> HIDE DEF window, last, due
  <2>4. QED  BY <1>5, <1>7, <1>8, <2>1, <2>3
<1>9. QED
  <2> HIDE DEF due
  <2>1. Latest(s, Max(due), now)
    BY <1>7, <1>8 DEF Latest
  <2>2. QED  BY <2>1 DEF due

(* A step that changes only run states, never whether a run exists or when   *)
(* it was stamped, and the todo list of a daemon outside the tick.           *)
LEMMA OtherLocalsStep ==
    ASSUME IInv, NEW d \in Daemons, tick[d].pc \in {"recover", "reconcile"},
           tick'[d].pc = tick[d].pc, \A e \in Daemons : e # d => tick'[e] = tick[e],
           \A y \in Key : /\ run'[y].st # NoRun <=> run[y].st # NoRun
                          /\ run'[y].at = run[y].at,
           TypeOK, UNCHANGED <<fire, drives>>
    PROVE  IInv'
<1>1. LocalInv(tick'[d], run', drives')
  BY DEF LocalInv
<1>2. ASSUME NEW e \in Daemons, e # d PROVE LocalInv(tick'[e], run', drives')
  <2>1. LocalInv(tick[e], run, drives) /\ tick[e].slot \in Slots /\ tick'[e] = tick[e]
    BY <1>2, FieldsOfLocals DEF IInv, TypeOK
  <2>2. QED  BY <2>1 DEF LocalInv, Key
<1>3. OneStarter'
  BY DEF IInv, OneStarter, RunId
<1>4. DrivesInv' /\ FiredReceiptHasRun' /\ RunsLatest'
  BY DEF IInv, DrivesInv, FiredReceiptHasRun, RunsLatest, RunExists
<1>5. QED  BY <1>1, <1>2, <1>3, <1>4 DEF IInv

(* A step that only moves an existing run to another state keeps the invariant. *)
LEMMA SameLocalsStep ==
    ASSUME TypeOK, IInv, NEW x \in Key, NEW st \in RunStates, st # NoRun, run[x].st # NoRun,
           run' = [run EXCEPT ![x].st = st], UNCHANGED <<tick, fire, drives>>
    PROVE  IInv'
<1>1. \A y \in Key : /\ run'[y].st # NoRun <=> run[y].st # NoRun
                     /\ run'[y].at = run[y].at
  BY DEF TypeOK
<1>2. ASSUME NEW e \in Daemons PROVE LocalInv(tick'[e], run', drives')
  <2>1. LocalInv(tick[e], run, drives) /\ tick[e].slot \in Slots
    BY FieldsOfLocals DEF IInv, TypeOK
  <2>2. QED  BY <1>1, <2>1 DEF LocalInv, Key
<1>3. OneStarter'
  BY DEF IInv, OneStarter, RunId
<1>4. DrivesInv' /\ FiredReceiptHasRun' /\ RunsLatest'
  BY <1>1 DEF IInv, DrivesInv, FiredReceiptHasRun, RunsLatest, RunExists
<1>5. QED  BY <1>2, <1>3, <1>4 DEF IInv

(* Every step keeps the inductive invariant. *)
LEMMA InvStep ==
    ASSUME TypeOK, IInv, [Next]_vars
    PROVE  IInv'
<1>a. tick \in [Daemons -> Locals]
  BY DEF TypeOK
<1>b. FiredReceiptHasRun /\ OneStarter /\ DrivesInv /\ RunsLatest
      /\ \A d \in Daemons : LocalInv(tick[d], run, drives)
  BY DEF IInv
<1>0. CASE UNCHANGED vars
  BY <1>0, StillStep DEF vars, db, history
<1>1. CASE AdvanceClock
  BY <1>1, StillStep DEF AdvanceClock, db, history
<1>2. CASE SetClockBack
  BY <1>2, StillStep DEF SetClockBack, db, history
<1>3. ASSUME NEW s \in Schedules, CreateSchedule(s) PROVE IInv'
  BY <1>3, StillStep DEF CreateSchedule, db, history
<1>4. ASSUME NEW s \in Schedules, DeleteSchedule(s) PROVE IInv'
  BY <1>4, StillStep DEF DeleteSchedule, db, history
<1>5. ASSUME NEW s \in Schedules, NEW e \in BOOLEAN, SetEnabled(s, e) PROVE IInv'
  BY <1>5, StillStep DEF SetEnabled, db, history
<1>6. ASSUME NEW p \in BOOLEAN, SetPaused(p) PROVE IInv'
  BY <1>6, StillStep DEF SetPaused, db, history
<1>7. ASSUME NEW x \in Key, CancelRun(x) PROVE IInv'
  <2>1. run[x].st # NoRun /\ "cancelled" \in RunStates /\ "cancelled" # NoRun
    BY <1>7 DEF CancelRun, CanTransition, RunStates, Terminal, NoRun
  <2>2. QED  BY <1>7, <2>1, SameLocalsStep DEF CancelRun, history
<1>8. ASSUME NEW d \in Daemons, Boot(d) PROVE IInv'
  <2> DEFINE l == [tick[d] EXCEPT !.pc = "recover", !.todo = InFlightBefore(clock)]
  <2>1. LocalInv(l, run, drives) /\ l.pc # "start"
    BY <1>a, <1>b, <1>8 DEF LocalInv, Locals
  <2>2. SetLocals(d, l) /\ UNCHANGED <<run, drives>>
    BY <1>8 DEF Boot, db, history
  <2>3. FiredReceiptHasRun'
    BY <1>b, <1>8, SameReceiptsFounded DEF Boot, db
  <2> HIDE DEF l
  <2>4. QED  BY <2>1, <2>2, <2>3, QuietStep
<1>9. ASSUME NEW d \in Daemons, AcquireLease(d) PROVE IInv'
  <2> DEFINE l == [tick[d] EXCEPT !.pc = "scan", !.now = clock]
  <2>1. LocalInv(l, run, drives) /\ l.pc # "start"
    BY <1>a, <1>b, <1>9 DEF LocalInv, Locals
  <2>2. SetLocals(d, l) /\ UNCHANGED <<run, drives>>
    BY <1>9 DEF AcquireLease, db, history
  <2>3. FiredReceiptHasRun'
    BY <1>b, <1>9, SameReceiptsFounded DEF AcquireLease, db
  <2> HIDE DEF l
  <2>4. QED  BY <2>1, <2>2, <2>3, QuietStep
<1>10. ASSUME NEW d \in Daemons, ScanStale(d) PROVE IInv'
  <2> DEFINE l == [tick[d] EXCEPT !.pc = "reconcile",
                                          !.todo = InFlightBefore(tick[d].now - StaleAfter)]
  <2>1. LocalInv(l, run, drives) /\ l.pc # "start"
    BY <1>a, <1>b, <1>10 DEF LocalInv, Locals
  <2>2. SetLocals(d, l) /\ UNCHANGED <<run, drives>>
    BY <1>10 DEF ScanStale, db, history
  <2>3. FiredReceiptHasRun'
    BY <1>b, <1>10, SameReceiptsFounded DEF ScanStale, db
  <2> HIDE DEF l
  <2>4. QED  BY <2>1, <2>2, <2>3, QuietStep
<1>11. ASSUME NEW d \in Daemons, ReconcileRun(d) PROVE IInv'
  <2>1. PICK x \in tick[d].todo :
          /\ SetLocals(d, [tick[d] EXCEPT !.todo = @ \ {x}])
          /\ run' = IF CanTransition(run[x].st, "failed")
                    THEN [run EXCEPT ![x].st = "failed"] ELSE run
    BY <1>11 DEF ReconcileRun
  <2>2. x \in Key /\ tick[d] \in Locals /\ tick[d].pc \in {"recover", "reconcile"}
    BY <1>a, <1>11, <2>1, FieldsOfLocals DEF ReconcileRun
  <2>3. tick'[d].pc = tick[d].pc /\ \A e \in Daemons : e # d => tick'[e] = tick[e]
    BY <1>a, <2>1, <2>2, LocalsOf DEF Locals
  <2>4. \A y \in Key : /\ run'[y].st # NoRun <=> run[y].st # NoRun
                       /\ run'[y].at = run[y].at
    BY <2>1, <2>2 DEF TypeOK, CanTransition, NoRun
  <2>5. QED  BY <1>11, <2>2, <2>3, <2>4, OtherLocalsStep DEF ReconcileRun, history
<1>12. ASSUME NEW d \in Daemons, ReconcileDone(d) PROVE IInv'
  <2> DEFINE l == [tick[d] EXCEPT !.pc = IF @ = "recover" THEN "idle" ELSE "list"]
  <2>1. LocalInv(l, run, drives) /\ l.pc # "start"
    BY <1>a, <1>b, <1>12 DEF LocalInv, Locals
  <2>2. SetLocals(d, l) /\ UNCHANGED <<run, drives>>
    BY <1>12 DEF ReconcileDone, db, history
  <2>3. FiredReceiptHasRun'
    BY <1>b, <1>12, SameReceiptsFounded DEF ReconcileDone, db
  <2> HIDE DEF l
  <2>4. QED  BY <2>1, <2>2, <2>3, QuietStep
<1>13. ASSUME NEW d \in Daemons, SweepError(d) PROVE IInv'
  <2> DEFINE l == [tick[d] EXCEPT !.pc = IF @ = "recover" THEN "idle" ELSE "list", !.todo = {}]
  <2>1. LocalInv(l, run, drives) /\ l.pc # "start"
    BY <1>a, <1>b, <1>13 DEF LocalInv, Locals
  <2>2. SetLocals(d, l) /\ UNCHANGED <<run, drives>>
    BY <1>13 DEF SweepError, db, history
  <2>3. FiredReceiptHasRun'
    BY <1>b, <1>13, SameReceiptsFounded DEF SweepError, db
  <2> HIDE DEF l
  <2>4. QED  BY <2>1, <2>2, <2>3, QuietStep
<1>14. ASSUME NEW d \in Daemons, StartTick(d) PROVE IInv'
  <2> DEFINE l == [tick[d] EXCEPT !.pc = "next",
                     !.queue = {[sid |-> s, mark |-> row[s].mark] :
                                  s \in {r \in Schedules : row[r].live /\ row[r].enabled}}]
  <2>1. LocalInv(l, run, drives) /\ l.pc # "start"
    BY <1>a DEF LocalInv, Locals
  <2>2. LocalInv(Rest("idle"), run, drives) /\ Rest("idle").pc # "start"
    BY DEF LocalInv, Rest
  <2>3. (SetLocals(d, l) \/ SetLocals(d, Rest("idle"))) /\ UNCHANGED <<run, drives>>
    BY <1>14 DEF StartTick, db, history
  <2>4. FiredReceiptHasRun'
    BY <1>b, <1>14, SameReceiptsFounded DEF StartTick, db
  <2> HIDE DEF l
  <2>5. QED  BY <2>1, <2>2, <2>3, <2>4, QuietStep
<1>15. ASSUME NEW d \in Daemons, EndTick(d) PROVE IInv'
  <2> DEFINE l == Rest("idle")
  <2>1. LocalInv(l, run, drives) /\ l.pc # "start"
    BY <1>a, <1>b, <1>15 DEF LocalInv, Locals, Rest
  <2>2. SetLocals(d, l) /\ UNCHANGED <<run, drives>>
    BY <1>15 DEF EndTick, db, history
  <2>3. FiredReceiptHasRun'
    BY <1>b, <1>15, SameReceiptsFounded DEF EndTick, db
  <2> HIDE DEF l
  <2>4. QED  BY <2>1, <2>2, <2>3, QuietStep
<1>16. ASSUME NEW d \in Daemons, InvalidSchedule(d) PROVE IInv'
  <2> DEFINE r == Stalest(tick[d].queue)
             l == [tick[d] EXCEPT !.pc = "advance", !.queue = @ \ {r}, !.sid = r.sid,
                     !.after = StartAfter(r, tick[d].now),
                     !.considered = @ + Fresh(<<r.sid, tick[d].now>>)]
  <2>1. r.sid \in Schedules
    <3>1. tick[d].queue \in SUBSET [sid : Schedules, mark : Slots \cup {Null}]
      BY <1>a, FieldsOfLocals
    <3>2. QED  BY <1>16, <3>1, StalestInQueue DEF InvalidSchedule
  <2>2. LocalInv(l, run, drives) /\ l.pc # "start"
    <3> HIDE DEF r
    <3>1. QED  BY <1>a, <2>1 DEF LocalInv, Locals
  <2>3. SetLocals(d, l) /\ UNCHANGED <<run, drives>>
    BY <1>16 DEF InvalidSchedule, history
  <2>4. FiredReceiptHasRun'
    BY <1>b, <1>16, ReceiptFounded DEF InvalidSchedule
  <2> HIDE DEF l
  <2>5. QED  BY <2>2, <2>3, <2>4, QuietStep
<1>17. ASSUME NEW d \in Daemons, TakeSchedule(d) PROVE IInv'
  <2> DEFINE r == Stalest(tick[d].queue)
             after == StartAfter(r, tick[d].now)
             due == DueSlots(r.sid, after, tick[d].now)
             slot == IF due = {} THEN 0 ELSE Max(due)
             l == [tick[d] EXCEPT !.pc = IF due = {} THEN "advance" ELSE "slots",
                     !.queue = @ \ {r}, !.sid = r.sid, !.after = after,
                     !.slot = slot, !.missed = due \ {slot}]
  <2>1. r.sid \in Schedules /\ r.mark \in Slots \cup {Null} /\ tick[d].now \in Slots
    <3>1. tick[d].queue \in SUBSET [sid : Schedules, mark : Slots \cup {Null}]
      BY <1>a, FieldsOfLocals
    <3>2. QED  BY <1>a, <1>17, <3>1, StalestInQueue, FieldsOfLocals DEF TakeSchedule
  <2>2. after \in Int
    BY <2>1 DEF StartAfter, Slots, Null
  <2>3. due # {} => Latest(r.sid, slot, tick[d].now)
    <3> HIDE DEF r, after
    <3>1. QED  BY <2>1, <2>2, LatestDue
  <2>4. /\ l.pc = IF due = {} THEN "advance" ELSE "slots"
        /\ l.sid = r.sid /\ l.slot = slot /\ l.now = tick[d].now
    <3> HIDE DEF r, after, due, slot
    <3>1. QED  BY <1>a DEF Locals
  <2>5. SetLocals(d, l) /\ UNCHANGED <<run, drives>>
    BY <1>17 DEF TakeSchedule, db, history
  <2>6. FiredReceiptHasRun'
    BY <1>b, <1>17, SameReceiptsFounded DEF TakeSchedule, db
  <2> HIDE DEF l, r, after, due, slot
  <2>7. LocalInv(l, run, drives) /\ l.pc # "start"
    BY <2>1, <2>3, <2>4 DEF LocalInv
  <2>8. QED  BY <2>5, <2>6, <2>7, QuietStep
<1>18. ASSUME NEW d \in Daemons, ConsiderMissed(d) PROVE IInv'
  <2> DEFINE m == <<tick[d].sid, Min(tick[d].missed)>>
             o == IF RunExists(m) THEN "fired" ELSE "skipped_missed"
             l == [tick[d] EXCEPT !.missed = @ \ {m[2]}, !.considered = @ + Fresh(m),
                     !.fired = IF o = "fired" THEN @ + Fresh(m) ELSE @]
  <2>1. /\ l.pc = tick[d].pc /\ l.sid = tick[d].sid /\ l.slot = tick[d].slot
        /\ l.now = tick[d].now /\ l.pc = "slots"
    <3> HIDE DEF m, o
    <3>1. QED  BY <1>a, <1>18 DEF ConsiderMissed, Locals
  <2>2. SetLocals(d, l) /\ UNCHANGED <<run, drives>>
    BY <1>18 DEF ConsiderMissed, history
  <2>3. FiredReceiptHasRun'
    <3>1. RecordFire(m, o) /\ (o = "fired" => RunExists(m)) /\ UNCHANGED run
      BY <1>18 DEF ConsiderMissed
    <3> HIDE DEF m, o
    <3>2. QED  BY <1>b, <3>1, ReceiptFounded
  <2> HIDE DEF l, m, o
  <2>4. LocalInv(l, run, drives)
    BY <1>b, <2>1 DEF LocalInv
  <2>5. QED  BY <2>1, <2>2, <2>3, <2>4, QuietStep
<1>19. ASSUME NEW d \in Daemons, AlreadyConsidered(d) PROVE IInv'
  <2> DEFINE l == [tick[d] EXCEPT !.pc = "advance"]
  <2>1. LocalInv(l, run, drives) /\ l.pc # "start"
    BY <1>a, <1>b, <1>19 DEF LocalInv, Locals, AlreadyConsidered, Deciding
  <2>2. SetLocals(d, l) /\ UNCHANGED <<run, drives>>
    BY <1>19 DEF AlreadyConsidered, db, history
  <2>3. FiredReceiptHasRun'
    BY <1>b, <1>19, SameReceiptsFounded DEF AlreadyConsidered, db
  <2> HIDE DEF l
  <2>4. QED  BY <2>1, <2>2, <2>3, QuietStep
<1>20. ASSUME NEW d \in Daemons, SkipPreviousAwaiting(d) PROVE IInv'
  <2> DEFINE l == [tick[d] EXCEPT !.pc = "advance", !.considered = @ + 1]
  <2>1. LocalInv(l, run, drives) /\ l.pc # "start"
    BY <1>a, <1>b, <1>20 DEF LocalInv, Locals, SkipPreviousAwaiting, Deciding
  <2>2. SetLocals(d, l) /\ UNCHANGED <<run, drives>>
    BY <1>20 DEF SkipPreviousAwaiting, db, history
  <2>3. FiredReceiptHasRun'
    BY <1>b, <1>20, ReceiptFounded DEF SkipPreviousAwaiting, db
  <2> HIDE DEF l
  <2>4. QED  BY <2>1, <2>2, <2>3, QuietStep
<1>21. ASSUME NEW d \in Daemons, DeferSlot(d) PROVE IInv'
  <2> DEFINE l == [tick[d] EXCEPT !.pc = "next", !.sid = 0, !.after = Null,
                     !.missed = {}, !.slot = 0, !.out = NoReceipt]
  <2>1. LocalInv(l, run, drives) /\ l.pc # "start"
    BY <1>a, <1>b, <1>21 DEF LocalInv, Locals
  <2>2. SetLocals(d, l) /\ UNCHANGED <<run, drives>>
    BY <1>21 DEF DeferSlot, NextSchedule, db, history
  <2>3. FiredReceiptHasRun'
    BY <1>b, <1>21, SameReceiptsFounded DEF DeferSlot, db
  <2> HIDE DEF l
  <2>4. QED  BY <2>1, <2>2, <2>3, QuietStep
<1>22. ASSUME NEW d \in Daemons, HealOrphan(d) PROVE IInv'
  <2> DEFINE l == [tick[d] EXCEPT !.pc = "advance", !.considered = @ + 1, !.fired = @ + 1]
  <2>1. LocalInv(l, run, drives) /\ l.pc # "start"
    BY <1>a, <1>b, <1>22 DEF LocalInv, Locals, HealOrphan, MayFire, Deciding
  <2>2. SetLocals(d, l) /\ UNCHANGED <<run, drives>>
    BY <1>22 DEF HealOrphan, db, history
  <2>3. FiredReceiptHasRun'
    BY <1>b, <1>22, ReceiptFounded DEF HealOrphan, db
  <2> HIDE DEF l
  <2>4. QED  BY <2>1, <2>2, <2>3, QuietStep
<1>23. ASSUME NEW d \in Daemons, ChooseDispatch(d) PROVE IInv'
  <2> DEFINE l == [tick[d] EXCEPT !.pc = "dispatch"]
  <2>1. LocalInv(l, run, drives) /\ l.pc # "start"
    BY <1>a, <1>b, <1>23 DEF LocalInv, Locals, ChooseDispatch, MayFire, Deciding
  <2>2. SetLocals(d, l) /\ UNCHANGED <<run, drives>>
    BY <1>23 DEF ChooseDispatch, db, history
  <2>3. FiredReceiptHasRun'
    BY <1>b, <1>23, SameReceiptsFounded DEF ChooseDispatch, db
  <2> HIDE DEF l
  <2>4. QED  BY <2>1, <2>2, <2>3, QuietStep
<1>24. ASSUME NEW d \in Daemons, NoPublishedVersion(d) PROVE IInv'
  <2> DEFINE l == [tick[d] EXCEPT !.pc = "receipt", !.out = "skipped_no_published"]
  <2>1. LocalInv(l, run, drives) /\ l.pc # "start"
    BY <1>a, <1>b, <1>24 DEF LocalInv, Locals, NoPublishedVersion
  <2>2. SetLocals(d, l) /\ UNCHANGED <<run, drives>>
    BY <1>24 DEF NoPublishedVersion, Settle, db, history
  <2>3. FiredReceiptHasRun'
    BY <1>b, <1>24, SameReceiptsFounded DEF NoPublishedVersion, db
  <2> HIDE DEF l
  <2>4. QED  BY <2>1, <2>2, <2>3, QuietStep
<1>25. ASSUME NEW d \in Daemons, CreateRun(d) PROVE IInv'
  <2> DEFINE x == <<tick[d].sid, tick[d].slot>>
             l == [tick[d] EXCEPT !.pc = "start", !.dispatched = @ + 1]
  <2>1. /\ tick[d].pc = "dispatch" /\ ~RunExists(x)
        /\ run' = [run EXCEPT ![x] = [st |-> "pending", at |-> tick[d].now]]
        /\ SetLocals(d, l) /\ UNCHANGED <<fire, drives>>
    BY <1>25 DEF CreateRun, RunId, history
  <2>2. x \in Key /\ Latest(x[1], x[2], tick[d].now)
    BY <1>a, <1>b, <2>1, FieldsOfLocals DEF LocalInv, Key
  <2>3. l.pc = "start" /\ l.sid = tick[d].sid /\ l.slot = tick[d].slot /\ l.now = tick[d].now
    BY <1>a DEF Locals
  <2>4. tick'[d] = l /\ \A e \in Daemons : e # d => tick'[e] = tick[e]
    BY <1>a, <2>1, LocalsOf
  <2>5. /\ run'[x].st = "pending" /\ run'[x].at = tick[d].now
        /\ \A y \in Key : y # x => run'[y] = run[y]
    BY <2>1, <2>2 DEF TypeOK
  <2> HIDE DEF l
  <2>6. drives[x] = 0
    BY <1>b, <2>1, <2>2 DEF DrivesInv
  <2>7. LocalInv(tick'[d], run', drives')
    BY <2>1, <2>2, <2>3, <2>4, <2>5, <2>6 DEF LocalInv, NoRun, Key
  <2>8. ASSUME NEW e \in Daemons, e # d PROVE LocalInv(tick'[e], run', drives')
    <3>1. LocalInv(tick[e], run, drives) /\ tick[e].slot \in Slots
      BY <1>a, <1>b, FieldsOfLocals
    <3>2. <<tick[e].sid, tick[e].slot>> \in Key /\ run[<<tick[e].sid, tick[e].slot>>].st # NoRun
            => run'[<<tick[e].sid, tick[e].slot>>].st # NoRun
      BY <2>5 DEF NoRun
    <3>3. QED  BY <2>1, <2>4, <2>8, <3>1, <3>2 DEF LocalInv, Key
  <2>9. ASSUME NEW e \in Daemons, e # d, tick[e].pc = "start" PROVE RunId(e) # x
    BY <1>b, <2>1, <2>9 DEF LocalInv, RunExists, RunId
  <2>10. OneStarter'
    BY <1>b, <2>3, <2>4, <2>9 DEF OneStarter, RunId
  <2>11. DrivesInv' /\ FiredReceiptHasRun' /\ RunsLatest'
    BY <1>b, <2>1, <2>2, <2>5 DEF DrivesInv, FiredReceiptHasRun, RunsLatest, RunExists, NoRun
  <2>12. QED  BY <2>7, <2>8, <2>10, <2>11 DEF IInv
<1>26. ASSUME NEW d \in Daemons, DuplicateRun(d) PROVE IInv'
  <2> DEFINE l == [tick[d] EXCEPT !.pc = "receipt", !.out = "error"]
  <2>1. LocalInv(l, run, drives) /\ l.pc # "start"
    BY <1>a, <1>b, <1>26 DEF LocalInv, Locals, DuplicateRun
  <2>2. SetLocals(d, l) /\ UNCHANGED <<run, drives>>
    BY <1>26 DEF DuplicateRun, Settle, db, history
  <2>3. FiredReceiptHasRun'
    BY <1>b, <1>26, SameReceiptsFounded DEF DuplicateRun, db
  <2> HIDE DEF l
  <2>4. QED  BY <2>1, <2>2, <2>3, QuietStep
<1>27. ASSUME NEW d \in Daemons, StartRun(d) PROVE IInv'
  <2> DEFINE x == <<tick[d].sid, tick[d].slot>>
  <2>1. /\ x \in Key /\ Latest(x[1], x[2], tick[d].now) /\ tick[d].pc = "start"
        /\ run[x].st # NoRun /\ drives[x] = 0
    BY <1>a, <1>b, <1>27, FieldsOfLocals DEF StartRun, LocalInv, Key
  <2>2. CASE CanTransition(run[x].st, "running")
    <3> DEFINE l == [tick[d] EXCEPT !.pc = "engine"]
    <3>1. /\ SetLocals(d, l) /\ UNCHANGED fire
          /\ run' = [run EXCEPT ![x] = [st |-> "running", at |-> tick[d].now]]
          /\ drives' = [drives EXCEPT ![x] = @ + 1]
      BY <1>27, <2>2 DEF StartRun, RunId
    <3>2. l.pc = "engine" /\ l.sid = tick[d].sid /\ l.slot = tick[d].slot /\ l.now = tick[d].now
      BY <1>a DEF Locals
    <3>3. tick'[d] = l /\ \A e \in Daemons : e # d => tick'[e] = tick[e]
      BY <1>a, <3>1, LocalsOf
    <3>4. /\ run'[x].st = "running" /\ run'[x].at = tick[d].now /\ drives'[x] = 1
          /\ \A y \in Key : y # x => run'[y] = run[y] /\ drives'[y] = drives[y]
      BY <2>1, <3>1 DEF TypeOK
    <3> HIDE DEF l
    <3>5. LocalInv(tick'[d], run', drives')
      BY <1>b, <2>1, <3>2, <3>3, <3>4 DEF LocalInv, NoRun, Key
    <3>6. ASSUME NEW e \in Daemons, e # d PROVE LocalInv(tick'[e], run', drives')
      <4> DEFINE y == <<tick[e].sid, tick[e].slot>>
      <4>1. LocalInv(tick[e], run, drives) /\ tick[e].slot \in Slots
        BY <1>a, <1>b, FieldsOfLocals
      <4>2. y \in Key /\ run[y].st # NoRun => run'[y].st # NoRun
        BY <3>4 DEF NoRun
      <4>3. tick[e].pc = "start" => y # x
        BY <1>b, <2>1, <3>6 DEF OneStarter, RunId
      <4>4. QED  BY <3>3, <3>4, <3>6, <4>1, <4>2, <4>3 DEF LocalInv, Key
    <3>7. OneStarter'
      BY <1>b, <3>2, <3>3 DEF OneStarter, RunId
    <3>8. DrivesInv' /\ FiredReceiptHasRun' /\ RunsLatest'
      BY <1>b, <2>1, <3>1, <3>4 DEF DrivesInv, FiredReceiptHasRun, RunsLatest, RunExists, NoRun
    <3>9. QED  BY <3>5, <3>6, <3>7, <3>8 DEF IInv
  <2>3. CASE ~CanTransition(run[x].st, "running")
    <3> DEFINE l == [tick[d] EXCEPT !.pc = "receipt", !.out = "error"]
    <3>1. SetLocals(d, l) /\ UNCHANGED <<run, drives, fire>>
      BY <1>27, <2>3 DEF StartRun, RunId, Settle
    <3>2. LocalInv(l, run, drives) /\ l.pc # "start"
      BY <1>a, <1>b, <2>1 DEF LocalInv, Locals
    <3>3. FiredReceiptHasRun'
      BY <1>b, <3>1, SameReceiptsFounded
    <3> HIDE DEF l
    <3>4. QED  BY <3>1, <3>2, <3>3, QuietStep
  <2>4. QED  BY <2>2, <2>3
<1>28. ASSUME NEW d \in Daemons, NEW end \in {"done", "failed", "awaiting_checkpoint"},
            FinishRun(d, end)
     PROVE  IInv'
  <2> DEFINE x == <<tick[d].sid, tick[d].slot>>
  <2>1. /\ x \in Key /\ Latest(x[1], x[2], tick[d].now) /\ tick[d].pc = "engine"
        /\ run[x].st # NoRun
    BY <1>a, <1>b, <1>28, FieldsOfLocals DEF FinishRun, LocalInv, Key
  <2>2. CASE CanTransition(run[x].st, end)
    <3> DEFINE l == [tick[d] EXCEPT !.pc = "receipt", !.out = "fired"]
    <3>1. /\ SetLocals(d, l) /\ UNCHANGED <<fire, drives>>
          /\ run' = [run EXCEPT ![x] = [st |-> end, at |-> tick[d].now]]
      BY <1>28, <2>2 DEF FinishRun, RunId, Settle, history
    <3>2. l.pc = "receipt" /\ l.sid = tick[d].sid /\ l.slot = tick[d].slot
      BY <1>a DEF Locals
    <3>3. tick'[d] = l /\ \A e \in Daemons : e # d => tick'[e] = tick[e]
      BY <1>a, <3>1, LocalsOf
    <3>4. /\ run'[x].st # NoRun /\ run'[x].at = tick[d].now
          /\ \A y \in Key : y # x => run'[y] = run[y]
      BY <2>1, <3>1 DEF TypeOK, NoRun
    <3> HIDE DEF l
    <3>5. LocalInv(tick'[d], run', drives')
      BY <1>b, <2>1, <3>2, <3>3, <3>4 DEF LocalInv, Key
    <3>6. ASSUME NEW e \in Daemons, e # d PROVE LocalInv(tick'[e], run', drives')
      <4> DEFINE y == <<tick[e].sid, tick[e].slot>>
      <4>1. LocalInv(tick[e], run, drives) /\ tick[e].slot \in Slots
        BY <1>a, <1>b, FieldsOfLocals
      <4>2. y \in Key /\ run[y].st # NoRun => run'[y].st # NoRun
        BY <3>4
      <4>3. QED  BY <3>1, <3>3, <3>6, <4>1, <4>2 DEF LocalInv, Key
    <3>7. OneStarter'
      BY <1>b, <3>2, <3>3 DEF OneStarter, RunId
    <3>8. DrivesInv' /\ FiredReceiptHasRun' /\ RunsLatest'
      BY <1>b, <2>1, <3>1, <3>4 DEF DrivesInv, FiredReceiptHasRun, RunsLatest, RunExists
    <3>9. QED  BY <3>5, <3>6, <3>7, <3>8 DEF IInv
  <2>3. CASE ~CanTransition(run[x].st, end)
    <3> DEFINE l == [tick[d] EXCEPT !.pc = "receipt", !.out = "error"]
    <3>1. SetLocals(d, l) /\ UNCHANGED <<run, drives, fire>>
      BY <1>28, <2>3 DEF FinishRun, RunId, Settle, history
    <3>2. LocalInv(l, run, drives) /\ l.pc # "start"
      BY <1>a, <1>b, <2>1 DEF LocalInv, Locals
    <3>3. FiredReceiptHasRun'
      BY <1>b, <3>1, SameReceiptsFounded
    <3> HIDE DEF l
    <3>4. QED  BY <3>1, <3>2, <3>3, QuietStep
  <2>4. QED  BY <2>2, <2>3
<1>29. ASSUME NEW d \in Daemons, DispatchError(d) PROVE IInv'
  <2> DEFINE l == [tick[d] EXCEPT !.pc = "receipt", !.out = "error"]
  <2>1. LocalInv(l, run, drives) /\ l.pc # "start"
    BY <1>a, <1>b, <1>29 DEF LocalInv, Locals, DispatchError
  <2>2. SetLocals(d, l) /\ UNCHANGED <<run, drives>>
    BY <1>29 DEF DispatchError, Settle, db, history
  <2>3. FiredReceiptHasRun'
    BY <1>b, <1>29, SameReceiptsFounded DEF DispatchError, db
  <2> HIDE DEF l
  <2>4. QED  BY <2>1, <2>2, <2>3, QuietStep
<1>30. ASSUME NEW d \in Daemons, RecordOutcome(d) PROVE IInv'
  <2> DEFINE l == [tick[d] EXCEPT !.pc = "advance", !.considered = @ + Fresh(RunId(d)),
                     !.fired = IF tick[d].out = "fired" THEN @ + Fresh(RunId(d)) ELSE @]
  <2>1. l.pc = "advance" /\ l.sid = tick[d].sid /\ tick[d].pc = "receipt"
    BY <1>a, <1>30 DEF Locals, RecordOutcome
  <2>2. SetLocals(d, l) /\ UNCHANGED <<run, drives>>
    BY <1>30 DEF RecordOutcome, history
  <2>3. FiredReceiptHasRun'
    <3>1. RecordFire(RunId(d), tick[d].out) /\ UNCHANGED run
      BY <1>30 DEF RecordOutcome
    <3>2. tick[d].out = "fired" => RunExists(RunId(d))
      BY <1>b, <2>1 DEF LocalInv, RunExists, RunId
    <3>3. QED  BY <1>b, <3>1, <3>2, ReceiptFounded
  <2> HIDE DEF l
  <2>4. LocalInv(l, run, drives)
    BY <1>b, <2>1 DEF LocalInv
  <2>5. QED  BY <2>1, <2>2, <2>3, <2>4, QuietStep
<1>31. ASSUME NEW d \in Daemons, AdvanceWatermark(d) PROVE IInv'
  <2> DEFINE l == [tick[d] EXCEPT !.pc = "next", !.sid = 0, !.after = Null,
                     !.missed = {}, !.slot = 0, !.out = NoReceipt]
  <2>1. LocalInv(l, run, drives) /\ l.pc # "start"
    BY <1>a, <1>b, <1>31 DEF LocalInv, Locals
  <2>2. SetLocals(d, l) /\ UNCHANGED <<run, drives>>
    BY <1>31 DEF AdvanceWatermark, NextSchedule, db, history
  <2>3. FiredReceiptHasRun'
    BY <1>b, <1>31, SameReceiptsFounded DEF AdvanceWatermark, db
  <2> HIDE DEF l
  <2>4. QED  BY <2>1, <2>2, <2>3, QuietStep
<1>32. ASSUME NEW d \in Daemons, ScheduleGone(d) PROVE IInv'
  <2> DEFINE l == Rest("idle")
  <2>1. LocalInv(l, run, drives) /\ l.pc # "start"
    BY <1>a, <1>b, <1>32 DEF LocalInv, Locals, Rest
  <2>2. SetLocals(d, l) /\ UNCHANGED <<run, drives>>
    BY <1>32 DEF ScheduleGone, db, history
  <2>3. FiredReceiptHasRun'
    BY <1>b, <1>32, SameReceiptsFounded DEF ScheduleGone, db
  <2> HIDE DEF l
  <2>4. QED  BY <2>1, <2>2, <2>3, QuietStep
<1>33. ASSUME NEW d \in Daemons, TickError(d) PROVE IInv'
  <2> DEFINE l == Rest("idle")
  <2>1. LocalInv(l, run, drives) /\ l.pc # "start"
    BY <1>a, <1>b, <1>33 DEF LocalInv, Locals, Rest
  <2>2. SetLocals(d, l) /\ UNCHANGED <<run, drives>>
    BY <1>33 DEF TickError, db, history
  <2>3. FiredReceiptHasRun'
    BY <1>b, <1>33, SameReceiptsFounded DEF TickError, db
  <2> HIDE DEF l
  <2>4. QED  BY <2>1, <2>2, <2>3, QuietStep
<1>34. ASSUME NEW d \in Daemons, Crash(d) PROVE IInv'
  <2> DEFINE l == Rest("dead")
  <2>1. LocalInv(l, run, drives) /\ l.pc # "start"
    BY <1>a, <1>b, <1>34 DEF LocalInv, Locals, Rest
  <2>2. SetLocals(d, l) /\ UNCHANGED <<run, drives>>
    BY <1>34 DEF Crash, db, history
  <2>3. FiredReceiptHasRun'
    BY <1>b, <1>34, SameReceiptsFounded DEF Crash, db
  <2> HIDE DEF l
  <2>4. QED  BY <2>1, <2>2, <2>3, QuietStep
<1>35. QED
  BY <1>0, <1>1, <1>2, <1>3, <1>4, <1>5, <1>6, <1>7, <1>8, <1>9, <1>10, <1>11, <1>12, <1>13, <1>14, <1>15, <1>16, <1>17, <1>18, <1>19, <1>20, <1>21, <1>22, <1>23, <1>24, <1>25, <1>26, <1>27, <1>28, <1>29, <1>30, <1>31, <1>32, <1>33, <1>34
     DEF Next, Operator, TickStep

(* The inductive invariant holds in every reachable state. *)
LEMMA Invariance == Spec => [](TypeOK /\ IInv)
<1>1. Init => TypeOK /\ IInv
  BY InitTypeOK, InvInit
<1>2. TypeOK /\ IInv /\ [Next]_vars => (TypeOK /\ IInv)'
  BY TypeOKStep, InvStep
<1>3. QED  BY <1>1, <1>2, PTL DEF Spec

(* However many daemons overlap, crash and restart, whatever the clock, the  *)
(* operator and the storage do: no slot's run is driven twice.  The create   *)
(* that the primary key lets through once is what makes a start unique.      *)
THEOREM AtMostOnceHolds == Spec => []AtMostOnce
<1>1. TypeOK /\ IInv => AtMostOnce
  BY DEF IInv, DrivesInv, AtMostOnce
<1>2. QED  BY <1>1, Invariance, PTL

(* A "fired" receipt always stands for a run that exists, also when it was   *)
(* written by orphan recovery or by a daemon that lost its lease.            *)
THEOREM FiredReceiptHasRunHolds == Spec => []FiredReceiptHasRun
<1>1. TypeOK /\ IInv => FiredReceiptHasRun
  BY DEF IInv
<1>2. QED  BY <1>1, Invariance, PTL

(* The storm guard, for every cron table, window and MaxConsidered: only the *)
(* latest due slot of a tick's window ever gets a run.                       *)
THEOREM OnlyLatestSlotFiresHolds == Spec => []OnlyLatestSlotFires
<1>1. TypeOK /\ IInv => OnlyLatestSlotFires
  BY DEF IInv, RunsLatest, Latest, OnlyLatestSlotFires
<1>2. QED  BY <1>1, Invariance, PTL

-----------------------------------------------------------------------------
(***************************************************************************)
(* Action properties and the refinement of FireLedger.                     *)
(***************************************************************************)
Created == {x \in Key : RunExists(x)}
Driven == {x \in Key : drives[x] > 0}

(* The abstract step of an action that keeps the receipts, the set of runs   *)
(* and their drives.                                                         *)
LEMMA LedgerStutters ==
    ASSUME UNCHANGED <<fire, drives>>,
           \A y \in Key : run'[y].st # NoRun <=> run[y].st # NoRun
    PROVE  UNCHANGED <<Created, Driven, fire>>
  BY DEF Created, Driven, RunExists

(* The abstract step of record_fire: a decision, or nothing when the slot    *)
(* has a receipt already.                                                    *)
LEMMA LedgerDecides ==
    ASSUME TypeOK, UNCHANGED <<run, drives>>, NEW x \in Key, NEW o \in Outcomes,
           RecordFire(x, o), o = "fired" => RunExists(x)
    PROVE  [Ledger!Next]_<<Created, Driven, fire>>
<1>1. UNCHANGED <<Created, Driven>>
  BY DEF Created, Driven, RunExists
<1>2. CASE fire[x] = NoReceipt
  <2>1. fire' = [fire EXCEPT ![x] = o] /\ (o = "fired" => x \in Created)
    BY <1>2 DEF RecordFire, Created
  <2>2. Ledger!Decide(x, o)
    BY <1>1, <1>2, <2>1 DEF Ledger!Decide, Created, Driven
  <2>3. Ledger!Next
    BY <2>2 DEF Ledger!Next
  <2>4. QED  BY <2>3
<1>3. CASE fire[x] # NoReceipt
  <2>1. fire' = fire
    BY <1>3 DEF RecordFire, TypeOK
  <2>2. UNCHANGED <<Created, Driven, fire>>
    BY <1>1, <2>1
  <2>3. QED  BY <2>2
<1>4. QED  BY <1>2, <1>3

(* Every step of the scheduler is a step of the ledger, or no step at all.   *)
LEMMA LedgerStep ==
    ASSUME TypeOK, IInv, [Next]_vars
    PROVE  [Ledger!Next]_<<Created, Driven, fire>>
<1> DEFINE Goal == [Ledger!Next]_<<Created, Driven, fire>>
<1>a. tick \in [Daemons -> Locals] /\ run \in [Key -> [st : RunStates, at : Slots]]
      /\ \A d \in Daemons : LocalInv(tick[d], run, drives)
  BY DEF TypeOK, IInv
<1>b. ASSUME UNCHANGED <<fire, run, drives>> PROVE Goal
  BY <1>b, LedgerStutters
<1> HIDE DEF Goal
<1>0. ASSUME UNCHANGED vars PROVE Goal
  BY <1>0, <1>b DEF vars, db, history
<1>1. ASSUME AdvanceClock \/ SetClockBack PROVE Goal
  BY <1>1, <1>b DEF AdvanceClock, SetClockBack, db, history
<1>2. ASSUME NEW s \in Schedules, CreateSchedule(s) \/ DeleteSchedule(s) PROVE Goal
  BY <1>2, <1>b DEF CreateSchedule, DeleteSchedule, history
<1>3. ASSUME NEW s \in Schedules, NEW e \in BOOLEAN, SetEnabled(s, e) PROVE Goal
  BY <1>3, <1>b DEF SetEnabled, history
<1>4. ASSUME NEW p \in BOOLEAN, SetPaused(p) PROVE Goal
  BY <1>4, <1>b DEF SetPaused, history
<1>5. ASSUME NEW x \in Key, CancelRun(x) PROVE Goal
  <2>1. run' = [run EXCEPT ![x].st = "cancelled"] /\ run[x].st # NoRun /\ UNCHANGED <<fire, drives>>
    BY <1>5 DEF CancelRun, CanTransition, NoRun, history
  <2>2. \A y \in Key : run'[y].st # NoRun <=> run[y].st # NoRun
    BY <1>a, <2>1 DEF NoRun
  <2>3. QED  BY <2>1, <2>2, LedgerStutters DEF Goal
<1>6. ASSUME NEW d \in Daemons,
             Boot(d) \/ AcquireLease(d) \/ ScanStale(d) \/ ReconcileDone(d) \/ SweepError(d)
      PROVE  Goal
  BY <1>6, <1>b DEF Boot, AcquireLease, ScanStale, ReconcileDone, SweepError, db, history
<1>7. ASSUME NEW d \in Daemons, ReconcileRun(d) PROVE Goal
  <2>1. PICK x \in tick[d].todo :
          run' = IF CanTransition(run[x].st, "failed")
                 THEN [run EXCEPT ![x].st = "failed"] ELSE run
    BY <1>7 DEF ReconcileRun
  <2>2. x \in Key
    BY <1>a, <2>1, FieldsOfLocals
  <2>3. \A y \in Key : run'[y].st # NoRun <=> run[y].st # NoRun
    BY <1>a, <2>1, <2>2 DEF CanTransition, NoRun
  <2>4. UNCHANGED <<fire, drives>>
    BY <1>7 DEF ReconcileRun, history
  <2>5. QED  BY <2>3, <2>4, LedgerStutters DEF Goal
<1>8. ASSUME NEW d \in Daemons,
             StartTick(d) \/ EndTick(d) \/ TakeSchedule(d) \/ AlreadyConsidered(d)
                \/ DeferSlot(d) \/ ChooseDispatch(d)
      PROVE  Goal
  BY <1>8, <1>b DEF StartTick, EndTick, TakeSchedule, AlreadyConsidered, DeferSlot,
                    ChooseDispatch, db, history
<1>9. ASSUME NEW d \in Daemons, InvalidSchedule(d) PROVE Goal
  <2> DEFINE r == Stalest(tick[d].queue)
             x == <<r.sid, tick[d].now>>
  <2>1. RecordFire(x, "invalid_schedule") /\ UNCHANGED <<run, drives>>
    BY <1>9 DEF InvalidSchedule, history
  <2>2. r.sid \in Schedules /\ tick[d].now \in Slots
    <3>1. tick[d].queue \in SUBSET [sid : Schedules, mark : Slots \cup {Null}]
      BY <1>a, FieldsOfLocals
    <3>2. QED  BY <1>a, <1>9, <3>1, StalestInQueue, FieldsOfLocals DEF InvalidSchedule
  <2>3. x \in Key /\ "invalid_schedule" \in Outcomes /\ "invalid_schedule" # "fired"
    <3> HIDE DEF r
    <3>1. QED  BY <2>2 DEF Key, Outcomes
  <2> HIDE DEF r, x
  <2>4. QED  BY <2>1, <2>3, LedgerDecides DEF Goal
<1>10. ASSUME NEW d \in Daemons, ConsiderMissed(d) PROVE Goal
  <2> DEFINE m == <<tick[d].sid, Min(tick[d].missed)>>
             o == IF RunExists(m) THEN "fired" ELSE "skipped_missed"
  <2>1. RecordFire(m, o) /\ UNCHANGED <<run, drives>>
    BY <1>10 DEF ConsiderMissed, history
  <2>2. o \in Outcomes /\ (o = "fired" => RunExists(m))
    BY DEF Outcomes
  <2>3. m \in Key
    <3>1. tick[d].missed \in SUBSET Slots /\ tick[d].missed # {} /\ tick[d].sid \in Schedules
      BY <1>a, <1>10, FieldsOfLocals DEF ConsiderMissed, MoreMissed, LocalInv
    <3>2. QED  BY <3>1, MinOfSlots DEF Key
  <2> HIDE DEF m, o
  <2>4. QED  BY <2>1, <2>2, <2>3, LedgerDecides DEF Goal
<1>11. ASSUME NEW d \in Daemons, SkipPreviousAwaiting(d) \/ HealOrphan(d) PROVE Goal
  <2>1. RunId(d) \in Key
    BY <1>a, <1>11, FieldsOfLocals
       DEF SkipPreviousAwaiting, HealOrphan, MayFire, Deciding, LocalInv, RunId, Key
  <2>2. UNCHANGED <<run, drives>>
    BY <1>11 DEF SkipPreviousAwaiting, HealOrphan, history
  <2>3. \/ RecordFire(RunId(d), "skipped_previous_awaiting")
        \/ RecordFire(RunId(d), "fired") /\ RunExists(RunId(d))
    BY <1>11 DEF SkipPreviousAwaiting, HealOrphan
  <2>4. {"skipped_previous_awaiting", "fired"} \subseteq Outcomes
    BY DEF Outcomes
  <2>5. QED  BY <2>1, <2>2, <2>3, <2>4, LedgerDecides DEF Goal
<1>12. ASSUME NEW d \in Daemons, NoPublishedVersion(d) \/ DuplicateRun(d) \/ DispatchError(d)
       PROVE  Goal
  BY <1>12, <1>b DEF NoPublishedVersion, DuplicateRun, DispatchError, db, history
<1>13. ASSUME NEW d \in Daemons, CreateRun(d) PROVE Goal
  <2> DEFINE x == RunId(d)
  <2>1. x \in Key
    BY <1>a, <1>13, FieldsOfLocals DEF CreateRun, LocalInv, RunId, Key
  <2>2. /\ ~RunExists(x) /\ UNCHANGED <<fire, drives>>
        /\ run' = [run EXCEPT ![x] = [st |-> "pending", at |-> tick[d].now]]
    BY <1>13 DEF CreateRun, history
  <2>3. \A y \in Key : RunExists(y)' <=> RunExists(y) \/ y = x
    BY <1>a, <2>1, <2>2 DEF RunExists, NoRun
  <2> HIDE DEF x
  <2>4. x \notin Created /\ Created' = Created \cup {x} /\ UNCHANGED <<Driven, fire>>
    BY <2>1, <2>2, <2>3 DEF Created, Driven
  <2>5. Ledger!Create(x)
    BY <2>4 DEF Ledger!Create, Created, Driven
  <2>6. QED  BY <2>1, <2>5 DEF Goal, Ledger!Next
<1>14. ASSUME NEW d \in Daemons, StartRun(d) PROVE Goal
  <2> DEFINE x == <<tick[d].sid, tick[d].slot>>
  <2>1. x \in Key /\ run[x].st # NoRun /\ drives[x] = 0
    BY <1>a, <1>14, FieldsOfLocals DEF StartRun, LocalInv, Key
  <2>2. CASE CanTransition(run[x].st, "running")
    <3>1. /\ run' = [run EXCEPT ![x] = [st |-> "running", at |-> tick[d].now]]
          /\ drives' = [drives EXCEPT ![x] = @ + 1] /\ UNCHANGED fire
      BY <1>14, <2>2 DEF StartRun, RunId
    <3>2. \A y \in Key : RunExists(y)' <=> RunExists(y)
      BY <1>a, <2>1, <3>1 DEF RunExists, NoRun
    <3>3. \A y \in Key : drives'[y] > 0 <=> (drives[y] > 0 \/ y = x)
      <4>1. drives \in [Key -> Nat] /\ drives'[x] = 1
        BY <2>1, <3>1 DEF TypeOK
      <4>2. QED  BY <2>1, <3>1, <4>1
    <3> HIDE DEF x
    <3>4. /\ x \in Created \ Driven /\ Driven' = Driven \cup {x} /\ UNCHANGED <<Created, fire>>
      <4>1. x \in Created \ Driven
        BY <2>1 DEF Created, Driven, RunExists
      <4>2. Driven' = Driven \cup {x}
        BY <2>1, <3>3 DEF Driven
      <4>3. Created' = Created
        BY <3>2 DEF Created
      <4>4. QED  BY <3>1, <4>1, <4>2, <4>3
    <3>5. PICK y \in Key : y = x
      BY <2>1
    <3>6. Ledger!Drive(y)
      BY <3>4, <3>5 DEF Ledger!Drive, Created, Driven
    <3>7. Ledger!Next
      BY <3>6 DEF Ledger!Next
    <3>8. QED  BY <3>7 DEF Goal
  <2>3. CASE ~CanTransition(run[x].st, "running")
    BY <1>14, <1>b, <2>3 DEF StartRun, RunId
  <2>4. QED  BY <2>2, <2>3
<1>15. ASSUME NEW d \in Daemons, NEW end \in {"done", "failed", "awaiting_checkpoint"},
              FinishRun(d, end)
       PROVE  Goal
  <2> DEFINE x == <<tick[d].sid, tick[d].slot>>
  <2>1. x \in Key /\ run[x].st # NoRun
    BY <1>a, <1>15, FieldsOfLocals DEF FinishRun, LocalInv, Key
  <2>2. UNCHANGED <<fire, drives>>
        /\ (run' = [run EXCEPT ![x] = [st |-> end, at |-> tick[d].now]] \/ UNCHANGED run)
    BY <1>15 DEF FinishRun, RunId, history
  <2>3. \A y \in Key : run'[y].st # NoRun <=> run[y].st # NoRun
    BY <1>a, <2>1, <2>2 DEF NoRun
  <2>4. QED  BY <2>2, <2>3, LedgerStutters DEF Goal
<1>16. ASSUME NEW d \in Daemons, RecordOutcome(d) PROVE Goal
  <2>1. RunId(d) \in Key /\ (tick[d].out = "fired" => RunExists(RunId(d)))
    BY <1>a, <1>16, FieldsOfLocals DEF RecordOutcome, LocalInv, RunId, Key, RunExists
  <2>2. RecordFire(RunId(d), tick[d].out) /\ UNCHANGED <<run, drives>>
    BY <1>16 DEF RecordOutcome, history
  <2>3. tick[d].out \in Outcomes \cup {NoReceipt}
    BY <1>a, FieldsOfLocals
  <2>4. CASE tick[d].out = NoReceipt
    <3>1. UNCHANGED fire
      BY <2>2, <2>4 DEF RecordFire, TypeOK
    <3>2. QED  BY <1>b, <2>2, <3>1
  <2>5. CASE tick[d].out \in Outcomes
    BY <2>1, <2>2, <2>5, LedgerDecides DEF Goal
  <2>6. QED  BY <2>3, <2>4, <2>5
<1>17. ASSUME NEW d \in Daemons,
              AdvanceWatermark(d) \/ ScheduleGone(d) \/ TickError(d) \/ Crash(d)
       PROVE  Goal
  BY <1>17, <1>b DEF AdvanceWatermark, ScheduleGone, TickError, Crash, db, history
<1>18. QED
  BY <1>0, <1>1, <1>2, <1>3, <1>4, <1>5, <1>6, <1>7, <1>8, <1>9, <1>10, <1>11, <1>12,
     <1>13, <1>14, <1>15, <1>16, <1>17
     DEF Next, Operator, TickStep, Goal

(* SchedulerTick implements FireLedger: the daemons, leases, crashes and     *)
(* sweeps together never do more than create, drive and decide each slot     *)
(* once, in an order the ledger allows.                                      *)
THEOREM ImplementsLedgerHolds == Spec => ImplementsLedger
<1>1. Init => Ledger!Init
  BY DEF Init, Ledger!Init, RunExists
<1>2. TypeOK /\ IInv /\ [Next]_vars => [Ledger!Next]_<<Created, Driven, fire>>
  BY LedgerStep
<1>3. QED
  BY <1>1, <1>2, Invariance, PTL DEF Spec, ImplementsLedger, Ledger!Spec, Created, Driven

(* The first decision about a slot stands: no step changes a receipt.        *)
THEOREM DecisionsFinalHolds == Spec => DecisionsFinal
<1>1. ASSUME TypeOK, IInv, [Next]_vars
      PROVE  \A x \in Key : fire[x] # NoReceipt => fire'[x] = fire[x]
  <2>1. CASE UNCHANGED fire
    BY <2>1
  <2>2. CASE \E y \in Key : \E o \in Outcomes : Ledger!Decide(y, o)
    BY <2>2 DEF Ledger!Decide, TypeOK
  <2>3. QED
    BY <1>1, <2>1, <2>2, LedgerStep DEF Ledger!Next, Ledger!Create, Ledger!Drive
<1>2. QED
  BY <1>1, Invariance, PTL DEF Spec, DecisionsFinal

(* A schedule's watermark never goes back while its row lives, whichever     *)
(* daemons advance it, in whatever order, with whatever clock.               *)
THEOREM WatermarkMonotonicHolds == Spec => WatermarkMonotonic
<1> DEFINE Kept == \A s \in Schedules :
                     row[s].live /\ row'[s].live => row[s].mark <= row'[s].mark
<1>1. ASSUME TypeOK, [Next]_vars PROVE Kept
  <2>a. row \in [Schedules -> [live : BOOLEAN, enabled : BOOLEAN, mark : Slots \cup {Null}]]
    BY <1>1 DEF TypeOK
  <2>b. ASSUME UNCHANGED row PROVE Kept
    BY <2>a, <2>b DEF Slots, Null
  <2>1. ASSUME NEW s \in Schedules, CreateSchedule(s) \/ DeleteSchedule(s) PROVE Kept
    BY <2>1, <2>a DEF CreateSchedule, DeleteSchedule, Slots, Null
  <2>2. ASSUME NEW s \in Schedules, NEW e \in BOOLEAN, SetEnabled(s, e) PROVE Kept
    BY <2>2, <2>a DEF SetEnabled, Slots, Null
  <2>3. ASSUME NEW d \in Daemons, AdvanceWatermark(d) PROVE Kept
    <3>1. tick[d].now \in Slots
      BY <1>1, FieldsOfLocals DEF TypeOK
    <3>2. row' = [row EXCEPT ![tick[d].sid].mark = IF @ < tick[d].now THEN tick[d].now ELSE @]
      BY <2>3 DEF AdvanceWatermark
    <3>3. QED  BY <2>a, <3>1, <3>2 DEF Slots, Null
  <2>4. ASSUME UNCHANGED vars \/ AdvanceClock \/ SetClockBack PROVE Kept
    BY <2>4, <2>b DEF vars, db, AdvanceClock, SetClockBack
  <2>5. ASSUME (\E p \in BOOLEAN : SetPaused(p)) \/ (\E x \in Key : CancelRun(x)) PROVE Kept
    BY <2>5, <2>b DEF SetPaused, CancelRun
  <2>6. ASSUME NEW d \in Daemons,
               Boot(d) \/ SweepError(d) \/ DispatchError(d) \/ TickError(d) \/ Crash(d)
        PROVE  Kept
    BY <2>6, <2>b DEF db, Boot, SweepError, DispatchError, TickError, Crash
  <2>7. ASSUME NEW d \in Daemons, TickStep(d), ~AdvanceWatermark(d) PROVE Kept
    BY <2>7, <2>b DEF db, TickStep, AcquireLease, ScanStale, ReconcileRun, ReconcileDone,
         StartTick, EndTick, InvalidSchedule, TakeSchedule, ConsiderMissed, AlreadyConsidered,
         SkipPreviousAwaiting, DeferSlot, HealOrphan, ChooseDispatch, NoPublishedVersion,
         CreateRun, DuplicateRun, StartRun, FinishRun, RecordOutcome, ScheduleGone
  <2> HIDE DEF Kept
  <2>8. QED
    BY <1>1, <2>1, <2>2, <2>3, <2>4, <2>5, <2>6, <2>7 DEF Next, Operator
<1>2. QED
  BY <1>1, TypeCorrect, PTL DEF Spec, WatermarkMonotonic

-----------------------------------------------------------------------------
(***************************************************************************)
(* When one daemon is alive at a time, for every value of the other        *)
(* constants: no due slot is lost, and no run joins a live one that the    *)
(* tick can see.                                                           *)
(***************************************************************************)
(* One daemon at a time, and ticks that may consider every slot there is: no *)
(* backlog is larger than max_considered_per_tick.                           *)
SoleDaemon == MaxUp = 1
RoomForBacklog == Cardinality(Key) < MaxConsidered

-----------------------------------------------------------------------------
(***************************************************************************)
(* The inductive invariant of NoSlotLost.  While the only daemon is at a   *)
(* schedule, every due slot of its window is decided or still its to       *)
(* decide, and the watermark is the one it read, unless the row was        *)
(* deleted or re-created meanwhile.                                        *)
(***************************************************************************)
AtSlot == {"slots", "dispatch", "start", "engine", "receipt"}
AtSchedule == AtSlot \cup {"advance"}
InQueue == AtSchedule \cup {"next"}

Decided(f) == {x \in Key : f[x] # NoReceipt}

OneAlive == \A d, e \in Daemons : Alive(d) /\ Alive(e) => d = e

MarkedIsLive == \A s \in Schedules : row[s].mark # Null => row[s].live

QueueCurrent(l, w) == l.pc \in InQueue =>
    /\ \A r, o \in l.queue : r.sid = o.sid => r = o
    /\ \A r \in l.queue : w[r.sid].mark = r.mark \/ w[r.sid].mark = Null
    /\ l.pc \in AtSchedule => \A r \in l.queue : r.sid # l.sid

WindowDecided(l, w, f) == l.pc \in AtSchedule =>
    /\ l.sid \in Schedules
    /\ w[l.sid].mark = l.after \/ w[l.sid].mark = Null
    /\ l.pc \in AtSlot => l.sid \in Parses
    /\ l.pc = "receipt" => l.out \in Outcomes
    /\ l.sid \in Parses => \A t \in Due[l.sid] : l.after < t /\ t <= l.now =>
         \/ f[<<l.sid, t>>] # NoReceipt
         \/ l.pc = "slots" /\ t \in l.missed
         \/ l.pc \in AtSlot /\ t = l.slot

WithinBudget(l, f) == l.considered <= Cardinality(Decided(f))

WindowInv ==
    /\ OneAlive /\ MarkedIsLive /\ NoSlotLost
    /\ \A d \in Daemons : /\ QueueCurrent(tick[d], row) /\ WindowDecided(tick[d], row, fire)
                          /\ WithinBudget(tick[d], fire)

(* There are finitely many slots of schedules. *)
LEMMA KeyFinite == IsFiniteSet(Key) /\ Cardinality(Key) = Cardinality(Schedules) * (MaxSlot + 1)
<1>1. IsFiniteSet(Slots) /\ Cardinality(Slots) = MaxSlot + 1
  BY FS_Interval DEF Slots
<1>2. QED  BY <1>1, FS_Product DEF Key

(* A receipt decides its slot, once. *)
LEMMA ReceiptDecides ==
    ASSUME TypeOK, NEW x \in Key, NEW o \in Outcomes, RecordFire(x, o)
    PROVE  /\ Decided(fire) \subseteq Decided(fire') /\ fire'[x] # NoReceipt
           /\ Cardinality(Decided(fire')) = Cardinality(Decided(fire)) + Fresh(x)
           /\ \A y \in Key : y # x => fire'[y] = fire[y]
<1>1. fire \in [Key -> Outcomes \cup {NoReceipt}] /\ o # NoReceipt
  BY DEF TypeOK, Outcomes, NoReceipt
<1>2. /\ fire'[x] = IF fire[x] = NoReceipt THEN o ELSE fire[x]
      /\ \A y \in Key : y # x => fire'[y] = fire[y]
  BY <1>1 DEF RecordFire
<1>3. IsFiniteSet(Decided(fire)) /\ Cardinality(Decided(fire)) \in Nat
  BY KeyFinite, FS_Subset, FS_CardinalityType DEF Decided
<1>4. CASE fire[x] = NoReceipt
  <2>1. Decided(fire') = Decided(fire) \cup {x} /\ x \notin Decided(fire)
    BY <1>1, <1>2, <1>4 DEF Decided
  <2>2. Cardinality(Decided(fire')) = Cardinality(Decided(fire)) + 1
    BY <1>3, <2>1, FS_AddElement
  <2>3. QED  BY <1>1, <1>2, <1>4, <2>1, <2>2 DEF Fresh
<1>5. CASE fire[x] # NoReceipt
  <2>1. Decided(fire') = Decided(fire)
    BY <1>1, <1>2, <1>5 DEF Decided
  <2>2. QED  BY <1>2, <1>3, <1>5, <2>1 DEF Fresh
<1>6. QED  BY <1>4, <1>5

(* The budget of considered slots is never used up. *)
LEMMA BudgetLeft ==
    ASSUME TypeOK, WindowInv, RoomForBacklog, NEW d \in Daemons
    PROVE  tick[d].considered < MaxConsidered
<1>1. Decided(fire) \in SUBSET Key
  BY DEF Decided
<1>2. Cardinality(Decided(fire)) <= Cardinality(Key) /\ Cardinality(Decided(fire)) \in Nat
      /\ Cardinality(Key) \in Nat
  BY <1>1, KeyFinite, FS_Subset, FS_CardinalityType
<1>3. tick[d].considered \in Nat /\ tick[d].considered <= Cardinality(Decided(fire))
  BY FieldsOfLocals DEF TypeOK, WindowInv, WithinBudget
<1>4. QED  BY <1>2, <1>3 DEF RoomForBacklog

(* Nor is a due slot of a window cut off. *)
LEMMA WholeWindow ==
    ASSUME RoomForBacklog, NEW s \in Schedules, NEW after \in Int, NEW now \in Slots
    PROVE  DueSlots(s, after, now) = {t \in Due[s] : after < t /\ t <= now}
<1> DEFINE window == {t \in Due[s] : after < t /\ t <= now}
<1>1. window \in SUBSET Slots
  OBVIOUS
<1>2. IsFiniteSet(Slots) /\ Cardinality(Slots) = MaxSlot + 1
  BY FS_Interval DEF Slots
<1>3. Cardinality(Schedules) \in Nat /\ Cardinality(Schedules) # 0
  BY FS_CardinalityType, FS_EmptySet
<1>4. MaxSlot + 1 <= Cardinality(Key) /\ Cardinality(Key) \in Nat
  <2> DEFINE c == Cardinality(Schedules)
             n == MaxSlot + 1
  <2>1. c \in Nat /\ c # 0 /\ n \in Nat
    BY <1>3
  <2>2. n <= c * n
    <3> HIDE DEF c, n
    <3>1. QED  BY <2>1
  <2>3. QED  BY <2>2, KeyFinite, FS_CardinalityType
<1>5. ASSUME NEW t \in window PROVE Cardinality({u \in window : u > t}) < MaxConsidered
  <2>1. {u \in window : u > t} \in SUBSET Slots
    BY <1>1
  <2>2. Cardinality({u \in window : u > t}) <= MaxSlot + 1
        /\ Cardinality({u \in window : u > t}) \in Nat
    <3> HIDE DEF window
    <3>1. QED  BY <1>2, <2>1, FS_Subset, FS_CardinalityType
  <2>3. QED
    <3> HIDE DEF window
    <3>1. QED  BY <1>4, <2>2 DEF RoomForBacklog
<1>6. QED  BY <1>5 DEF DueSlots

-----------------------------------------------------------------------------
(***************************************************************************)
(* The kinds of steps.                                                     *)
(***************************************************************************)
(* Steps that leave the rows alone lose no slot. *)
LEMMA RowsKept ==
    ASSUME TypeOK, NoSlotLost, MarkedIsLive, UNCHANGED <<row, base>>,
           Decided(fire) \subseteq Decided(fire')
    PROVE  NoSlotLost' /\ MarkedIsLive'
<1>1. \A s \in Parses : \A t \in Due[s] : fire[<<s, t>>] # NoReceipt => fire'[<<s, t>>] # NoReceipt
  BY DEF Decided, Key
<1>2. QED  BY <1>1 DEF NoSlotLost, MarkedIsLive

(* A step of the daemon that is alive. *)
LEMMA SoleStep ==
    ASSUME TypeOK, WindowInv, NEW d \in Daemons, Alive(d),
           \A e \in Daemons : e # d => tick'[e] = tick[e],
           Decided(fire) \subseteq Decided(fire'), NoSlotLost', MarkedIsLive',
           QueueCurrent(tick'[d], row'), WindowDecided(tick'[d], row', fire'),
           WithinBudget(tick'[d], fire')
    PROVE  WindowInv'
<1>1. \A e \in Daemons : e # d => tick[e].pc \in {"new", "dead"}
  BY DEF WindowInv, OneAlive, Alive
<1>2. OneAlive'
  BY <1>1 DEF OneAlive, Alive
<1>3. ASSUME NEW e \in Daemons, e # d
      PROVE  /\ QueueCurrent(tick'[e], row') /\ WindowDecided(tick'[e], row', fire')
             /\ WithinBudget(tick'[e], fire')
  <2>1. tick'[e] = tick[e] /\ tick[e].pc \in {"new", "dead"} /\ tick[e].considered \in Nat
    BY <1>1, <1>3, FieldsOfLocals DEF TypeOK
  <2>2. QueueCurrent(tick'[e], row') /\ WindowDecided(tick'[e], row', fire')
    BY <2>1 DEF QueueCurrent, WindowDecided, InQueue, AtSchedule, AtSlot
  <2>3. Decided(fire') \in SUBSET Key
    BY DEF Decided
  <2>4. /\ Cardinality(Decided(fire)) <= Cardinality(Decided(fire'))
        /\ Cardinality(Decided(fire)) \in Nat /\ Cardinality(Decided(fire')) \in Nat
    BY <2>3, KeyFinite, FS_Subset, FS_CardinalityType
  <2>5. tick[e].considered <= Cardinality(Decided(fire))
    BY DEF WindowInv, WithinBudget
  <2>6. WithinBudget(tick'[e], fire')
    BY <2>1, <2>4, <2>5 DEF WithinBudget
  <2>7. QED  BY <2>2, <2>6
<1>4. QED  BY <1>2, <1>3 DEF WindowInv

(* Operator requests: a watermark stays, or is reset to NULL with its row. *)
LEMMA RowStep ==
    ASSUME TypeOK, WindowInv, UNCHANGED <<tick, fire>>,
           \A s \in Schedules : /\ row'[s].mark = Null \/ (/\ row'[s].mark = row[s].mark
                                                         /\ base'[s] = base[s])
                                /\ row'[s].mark # Null => row'[s].live /\ row[s].live
    PROVE  WindowInv'
<1>1. OneAlive' /\ MarkedIsLive'
  BY DEF WindowInv, OneAlive, Alive, MarkedIsLive
<1>2. NoSlotLost'
  BY DEF WindowInv, NoSlotLost
<1>3. ASSUME NEW d \in Daemons
      PROVE  QueueCurrent(tick'[d], row') /\ WindowDecided(tick'[d], row', fire')
             /\ WithinBudget(tick'[d], fire')
  <2>1. /\ QueueCurrent(tick[d], row) /\ WindowDecided(tick[d], row, fire)
        /\ WithinBudget(tick[d], fire) /\ tick'[d] = tick[d] /\ fire' = fire
    BY DEF WindowInv
  <2>2. tick[d].queue \in SUBSET [sid : Schedules, mark : Slots \cup {Null}]
    BY FieldsOfLocals DEF TypeOK
  <2>3. \A r \in tick[d].queue : r.sid \in Schedules
    BY <2>2
  <2>4. QueueCurrent(tick'[d], row')
    BY <2>1, <2>3 DEF QueueCurrent
  <2>5. WindowDecided(tick'[d], row', fire')
    BY <2>1 DEF WindowDecided
  <2>6. QED  BY <2>1, <2>4, <2>5 DEF WithinBudget
<1>4. QED  BY <1>1, <1>2, <1>3 DEF WindowInv

(* Steps that change neither locals nor rows nor receipts. *)
LEMMA WindowStill ==
    ASSUME WindowInv, UNCHANGED <<tick, fire, row, base>>
    PROVE  WindowInv'
  BY DEF WindowInv, OneAlive, Alive, MarkedIsLive, NoSlotLost, QueueCurrent, WindowDecided,
         WithinBudget, Decided

(* Steps of the daemon that lead out of the loop over the schedules, or stay *)
(* outside of it.                                                            *)
LEMMA OutsideStep ==
    ASSUME TypeOK, WindowInv, NEW d \in Daemons, Alive(d), NEW l, SetLocals(d, l),
           l.pc \notin InQueue, l.considered \in {0, tick[d].considered},
           UNCHANGED <<fire, row, base>>
    PROVE  WindowInv'
<1>1. tick'[d] = l /\ \A e \in Daemons : e # d => tick'[e] = tick[e]
  BY LocalsOf DEF TypeOK
<1>2. NoSlotLost' /\ MarkedIsLive'
  BY RowsKept DEF WindowInv
<1>3. QueueCurrent(tick'[d], row') /\ WindowDecided(tick'[d], row', fire')
  BY <1>1 DEF QueueCurrent, WindowDecided, InQueue
<1>4. Cardinality(Decided(fire)) \in Nat
  BY KeyFinite, FS_Subset, FS_CardinalityType DEF Decided
<1>5. WithinBudget(tick'[d], fire')
  BY <1>1, <1>4 DEF WindowInv, WithinBudget
<1>6. QED  BY <1>1, <1>2, <1>3, <1>5, SoleStep

(* Steps of the dispatch: the slot stays the one to decide. *)
LEMMA DispatchStep ==
    ASSUME TypeOK, WindowInv, NEW d \in Daemons, tick[d].pc \in {"dispatch", "start", "engine"},
           NEW l, SetLocals(d, l), l.pc \in {"start", "engine", "receipt"},
           l.pc = "receipt" => l.out \in Outcomes,
           l.considered = tick[d].considered, l.sid = tick[d].sid, l.slot = tick[d].slot,
           l.after = tick[d].after, l.now = tick[d].now, l.queue = tick[d].queue,
           UNCHANGED <<fire, row, base>>
    PROVE  WindowInv'
<1>1. tick'[d] = l /\ \A e \in Daemons : e # d => tick'[e] = tick[e]
  BY LocalsOf DEF TypeOK
<1>2. NoSlotLost' /\ MarkedIsLive' /\ Alive(d)
  BY RowsKept DEF WindowInv, Alive
<1>3. QueueCurrent(tick'[d], row')
  BY <1>1 DEF QueueCurrent, WindowInv, InQueue, AtSchedule, AtSlot
<1>4. WindowDecided(tick'[d], row', fire')
  BY <1>1 DEF WindowDecided, WindowInv, InQueue, AtSchedule, AtSlot
<1>5. WithinBudget(tick'[d], fire')
  BY <1>1 DEF WindowInv, WithinBudget
<1>6. QED  BY <1>1, <1>2, <1>3, <1>4, <1>5, SoleStep

(* A process boots only when no other is alive. *)
LEMMA BootsAlone ==
    ASSUME SoleDaemon, WindowInv, NEW d \in Daemons, Boot(d)
    PROVE  \A e \in Daemons : ~Alive(e)
<1> SUFFICES ASSUME NEW e \in Daemons, Alive(e) PROVE FALSE
  OBVIOUS
<1>1. {f \in Daemons : Alive(f)} = {e}
  BY DEF WindowInv, OneAlive
<1>2. Cardinality({f \in Daemons : Alive(f)}) = 1
  BY <1>1, FS_Singleton
<1>3. QED  BY <1>2 DEF Boot, SoleDaemon

(* The fields a step leaves alone. *)
LEMMA SweepFields ==
    ASSUME NEW l \in Locals, NEW p, NEW w, NEW n
    PROVE  /\ [l EXCEPT !.pc = p].pc = p /\ [l EXCEPT !.pc = p].considered = l.considered
           /\ [l EXCEPT !.todo = w].pc = l.pc /\ [l EXCEPT !.todo = w].considered = l.considered
           /\ [l EXCEPT !.pc = p, !.todo = w].pc = p
           /\ [l EXCEPT !.pc = p, !.todo = w].considered = l.considered
           /\ [l EXCEPT !.pc = p, !.now = n].pc = p
           /\ [l EXCEPT !.pc = p, !.now = n].considered = l.considered
  BY DEF Locals

(* The daemon's steps outside the loop over the schedules. *)
LEMMA WindowOutside ==
    ASSUME SoleDaemon, TypeOK, WindowInv, NEW d \in Daemons,
           \/ Boot(d) \/ AcquireLease(d) \/ ScanStale(d) \/ ReconcileRun(d) \/ ReconcileDone(d)
           \/ SweepError(d) \/ EndTick(d) \/ ScheduleGone(d) \/ TickError(d) \/ Crash(d)
    PROVE  WindowInv'
<1>a. tick[d] \in Locals /\ tick \in [Daemons -> Locals]
  BY DEF TypeOK
<1>b. \A p : Rest(p).pc = p /\ Rest(p).considered = 0
  BY DEF Rest
<1>c. \A p \in {"recover", "idle", "scan", "reconcile", "list", "dead"} : p \notin InQueue
  BY DEF InQueue, AtSchedule, AtSlot
<1>1. CASE Boot(d)
  <2> DEFINE l == [tick[d] EXCEPT !.pc = "recover", !.todo = InFlightBefore(clock)]
  <2>1. SetLocals(d, l) /\ UNCHANGED <<fire, row, base>>
    BY <1>1 DEF Boot, db, history
  <2>2. l.pc = "recover" /\ l.considered = tick[d].considered
    BY <1>a, SweepFields
  <2>3. \A e \in Daemons : ~Alive(e)
    BY <1>1, BootsAlone
  <2> HIDE DEF l
  <2>4. tick'[d] = l /\ \A e \in Daemons : e # d => tick'[e] = tick[e]
    BY <1>a, <2>1, LocalsOf
  <2>5. OneAlive'
    BY <2>3, <2>4 DEF OneAlive, Alive
  <2>6. NoSlotLost' /\ MarkedIsLive'
    BY <2>1, RowsKept DEF WindowInv
  <2>7. ASSUME NEW e \in Daemons
        PROVE  /\ QueueCurrent(tick'[e], row') /\ WindowDecided(tick'[e], row', fire')
               /\ WithinBudget(tick'[e], fire')
    <3>1. CASE e = d
      BY <2>1, <2>2, <2>4, <3>1
         DEF QueueCurrent, WindowDecided, WithinBudget, WindowInv, InQueue, AtSchedule, AtSlot
    <3>2. CASE e # d
      BY <2>1, <2>4, <3>2 DEF WindowInv
    <3>3. QED  BY <3>1, <3>2
  <2>8. QED  BY <2>5, <2>6, <2>7 DEF WindowInv
<1>2. CASE AcquireLease(d)
  <2> DEFINE l == [tick[d] EXCEPT !.pc = "scan", !.now = clock]
  <2>1. Alive(d) /\ UNCHANGED <<fire, row, base>> /\ SetLocals(d, l)
    BY <1>2 DEF AcquireLease, Alive, history
  <2>2. l.pc = "scan" /\ l.considered = tick[d].considered
    BY <1>a, SweepFields
  <2> HIDE DEF l
  <2>3. QED  BY <1>c, <2>1, <2>2, OutsideStep
<1>3. CASE ScanStale(d)
  <2> DEFINE l == [tick[d] EXCEPT !.pc = "reconcile",
                                  !.todo = InFlightBefore(tick[d].now - StaleAfter)]
  <2>1. Alive(d) /\ UNCHANGED <<fire, row, base>> /\ SetLocals(d, l)
    BY <1>3 DEF ScanStale, Alive, history, db
  <2>2. l.pc = "reconcile" /\ l.considered = tick[d].considered
    BY <1>a, SweepFields
  <2> HIDE DEF l
  <2>3. QED  BY <1>c, <2>1, <2>2, OutsideStep
<1>4. CASE ReconcileRun(d)
  <2>1. PICK x \in tick[d].todo : SetLocals(d, [tick[d] EXCEPT !.todo = @ \ {x}])
    BY <1>4 DEF ReconcileRun
  <2>2. Alive(d) /\ UNCHANGED <<fire, row, base>> /\ tick[d].pc \notin InQueue
    BY <1>4 DEF ReconcileRun, Alive, history, InQueue, AtSchedule, AtSlot
  <2> DEFINE l == [tick[d] EXCEPT !.todo = @ \ {x}]
  <2>3. l.pc = tick[d].pc /\ l.considered = tick[d].considered
    BY <1>a, SweepFields
  <2>4. SetLocals(d, l)
    BY <2>1
  <2> HIDE DEF l
  <2>5. QED  BY <2>2, <2>3, <2>4, OutsideStep
<1>5. CASE ReconcileDone(d)
  <2>1. PICK p \in {"idle", "list"} : SetLocals(d, [tick[d] EXCEPT !.pc = p])
    BY <1>5 DEF ReconcileDone
  <2>2. Alive(d) /\ UNCHANGED <<fire, row, base>>
    BY <1>5 DEF ReconcileDone, Alive, history, db
  <2> DEFINE l == [tick[d] EXCEPT !.pc = p]
  <2>3. SetLocals(d, l) /\ l.pc = p /\ l.considered = tick[d].considered
    BY <1>a, <2>1, SweepFields
  <2> HIDE DEF l
  <2>4. QED  BY <1>c, <2>2, <2>3, OutsideStep
<1>6. CASE SweepError(d)
  <2>1. PICK p \in {"idle", "list"} : SetLocals(d, [tick[d] EXCEPT !.pc = p, !.todo = {}])
    BY <1>6 DEF SweepError
  <2>2. Alive(d) /\ UNCHANGED <<fire, row, base>>
    BY <1>6 DEF SweepError, Alive, history, db
  <2> DEFINE l == [tick[d] EXCEPT !.pc = p, !.todo = {}]
  <2>3. SetLocals(d, l) /\ l.pc = p /\ l.considered = tick[d].considered
    BY <1>a, <2>1, SweepFields
  <2> HIDE DEF l
  <2>4. QED  BY <1>c, <2>2, <2>3, OutsideStep
<1>7. CASE EndTick(d) \/ ScheduleGone(d) \/ TickError(d)
  <2>1. Alive(d) /\ UNCHANGED <<fire, row, base>> /\ SetLocals(d, Rest("idle"))
    BY <1>7 DEF EndTick, ScheduleGone, TickError, Alive, history, db
  <2>2. QED  BY <1>b, <1>c, <2>1, OutsideStep
<1>8. CASE Crash(d)
  <2>1. Alive(d) /\ UNCHANGED <<fire, row, base>> /\ SetLocals(d, Rest("dead"))
    BY <1>8 DEF Crash, history, db
  <2>2. QED  BY <1>b, <1>c, <2>1, OutsideStep
<1>9. QED  BY <1>1, <1>2, <1>3, <1>4, <1>5, <1>6, <1>7, <1>8

(* Reading the enabled rows. *)
LEMMA WindowStartTick ==
    ASSUME TypeOK, WindowInv, NEW d \in Daemons, StartTick(d)
    PROVE  WindowInv'
<1>a. tick[d] \in Locals /\ tick \in [Daemons -> Locals]
  BY DEF TypeOK
<1>b. Alive(d) /\ UNCHANGED <<fire, row, base>>
  BY DEF StartTick, Alive, db, history
<1>1. CASE paused
  <2>1. SetLocals(d, Rest("idle"))
    BY <1>1 DEF StartTick
  <2>2. Rest("idle").pc \notin InQueue /\ Rest("idle").considered = 0
    BY DEF Rest, InQueue, AtSchedule, AtSlot
  <2>3. QED  BY <1>b, <2>1, <2>2, OutsideStep
<1>2. CASE ~paused
  <2> DEFINE q == {[sid |-> s, mark |-> row[s].mark] :
                     s \in {r \in Schedules : row[r].live /\ row[r].enabled}}
             l == [tick[d] EXCEPT !.pc = "next", !.queue = q]
  <2>1. SetLocals(d, l)
    BY <1>2 DEF StartTick
  <2>2. l.pc = "next" /\ l.queue = q /\ l.considered = tick[d].considered
    <3> HIDE DEF q
    <3>1. QED  BY <1>a DEF Locals
  <2>3. \A r \in q : r.sid \in Schedules /\ r.mark = row[r.sid].mark
                     /\ r = [sid |-> r.sid, mark |-> r.mark]
    OBVIOUS
  <2>4. \A r, o \in q : r.sid = o.sid => r = o
    OBVIOUS
  <2> HIDE DEF l, q
  <2>5. tick'[d] = l /\ \A e \in Daemons : e # d => tick'[e] = tick[e]
    BY <1>a, <2>1, LocalsOf
  <2>6. QueueCurrent(tick'[d], row')
    BY <1>b, <2>2, <2>3, <2>4, <2>5 DEF QueueCurrent, AtSchedule, AtSlot
  <2>7. WindowDecided(tick'[d], row', fire')
    BY <2>2, <2>5 DEF WindowDecided, AtSchedule, AtSlot
  <2>8. WithinBudget(tick'[d], fire')
    BY <1>b, <2>2, <2>5 DEF WindowInv, WithinBudget
  <2>9. NoSlotLost' /\ MarkedIsLive'
    BY <1>b, RowsKept DEF WindowInv
  <2>10. QED  BY <1>b, <2>5, <2>6, <2>7, <2>8, <2>9, SoleStep
<1>3. QED  BY <1>1, <1>2

(* What the queue says of the schedule taken from it. *)
LEMMA TakenFromQueue ==
    ASSUME TypeOK, WindowInv, NEW d \in Daemons, tick[d].pc = "next", tick[d].queue # {},
           NEW r, r = Stalest(tick[d].queue)
    PROVE  /\ r \in tick[d].queue /\ r.sid \in Schedules /\ r.mark \in Slots \cup {Null}
           /\ StartAfter(r, tick[d].now) \in Int
           /\ \A o \in tick[d].queue \ {r} : o.sid # r.sid
           /\ row[r.sid].mark = StartAfter(r, tick[d].now) \/ row[r.sid].mark = Null
<1>1. tick[d].queue \in SUBSET [sid : Schedules, mark : Slots \cup {Null}] /\ tick[d].now \in Slots
  BY FieldsOfLocals DEF TypeOK
<1>2. r \in tick[d].queue
  BY <1>1, StalestInQueue
<1>3. r.sid \in Schedules /\ r.mark \in Slots \cup {Null}
  BY <1>1, <1>2
<1>4. QueueCurrent(tick[d], row)
  BY DEF WindowInv
<1>5. /\ \A o \in tick[d].queue : r.sid = o.sid => r = o
      /\ row[r.sid].mark = r.mark \/ row[r.sid].mark = Null
  BY <1>2, <1>4 DEF QueueCurrent, InQueue
<1>6. StartAfter(r, tick[d].now) \in Int
  BY <1>1, <1>3 DEF StartAfter, Slots, Null
<1>7. row[r.sid].mark = StartAfter(r, tick[d].now) \/ row[r.sid].mark = Null
  BY <1>5 DEF StartAfter
<1>8. QED  BY <1>2, <1>3, <1>5, <1>6, <1>7

(* Taking a schedule whose cron text does not parse. *)
LEMMA WindowInvalid ==
    ASSUME TypeOK, WindowInv, NEW d \in Daemons, InvalidSchedule(d)
    PROVE  WindowInv'
<1> DEFINE r == Stalest(tick[d].queue)
           x == <<r.sid, tick[d].now>>
           after == StartAfter(r, tick[d].now)
           l == [tick[d] EXCEPT !.pc = "advance", !.queue = @ \ {r}, !.sid = r.sid,
                   !.after = StartAfter(r, tick[d].now), !.considered = @ + Fresh(x)]
<1>a. tick[d] \in Locals /\ tick \in [Daemons -> Locals] /\ tick[d].now \in Slots
      /\ tick[d].considered \in Nat
  BY FieldsOfLocals DEF TypeOK
<1>1. /\ tick[d].pc = "next" /\ tick[d].queue # {} /\ r.sid \notin Parses
      /\ RecordFire(x, "invalid_schedule") /\ SetLocals(d, l) /\ UNCHANGED <<row, base>>
  BY DEF InvalidSchedule, history
<1>2. l.pc = "advance" /\ l.queue = tick[d].queue \ {r} /\ l.sid = r.sid /\ l.after = after
      /\ l.considered = tick[d].considered + Fresh(x)
  <2> HIDE DEF r, x
  <2>1. QED  BY <1>a DEF Locals
<1> HIDE DEF r, l
<1>3. /\ r.sid \in Schedules
      /\ \A o \in tick[d].queue \ {r} : o.sid # r.sid
      /\ row[r.sid].mark = after \/ row[r.sid].mark = Null
  BY <1>1, TakenFromQueue DEF r
<1>4. x \in Key /\ "invalid_schedule" \in Outcomes
  BY <1>a, <1>3 DEF Key, Outcomes
<1> HIDE DEF x, after
<1>5. /\ Decided(fire) \subseteq Decided(fire')
      /\ Cardinality(Decided(fire')) = Cardinality(Decided(fire)) + Fresh(x)
  BY <1>1, <1>4, ReceiptDecides
<1>6. tick'[d] = l /\ \A e \in Daemons : e # d => tick'[e] = tick[e]
  BY <1>a, <1>1, LocalsOf
<1>7. NoSlotLost' /\ MarkedIsLive' /\ Alive(d)
  BY <1>1, <1>5, RowsKept DEF WindowInv, Alive
<1>8. QueueCurrent(tick'[d], row')
  BY <1>1, <1>2, <1>3, <1>6 DEF QueueCurrent, WindowInv, InQueue
<1>9. WindowDecided(tick'[d], row', fire')
  BY <1>1, <1>2, <1>3, <1>6 DEF WindowDecided, AtSlot
<1>10. WithinBudget(tick'[d], fire')
  <2>1. Cardinality(Decided(fire)) \in Nat /\ Fresh(x) \in Nat
    BY KeyFinite, FS_Subset, FS_CardinalityType DEF Decided, Fresh
  <2>2. QED  BY <1>a, <1>2, <1>5, <1>6, <2>1 DEF WithinBudget, WindowInv
<1>11. QED  BY <1>5, <1>6, <1>7, <1>8, <1>9, <1>10, SoleStep

(* Taking a schedule: its window is whole. *)
LEMMA WindowTake ==
    ASSUME RoomForBacklog, TypeOK, WindowInv, NEW d \in Daemons, TakeSchedule(d)
    PROVE  WindowInv'
<1> DEFINE r == Stalest(tick[d].queue)
           after == StartAfter(r, tick[d].now)
           due == DueSlots(r.sid, after, tick[d].now)
           slot == IF due = {} THEN 0 ELSE Max(due)
           l == [tick[d] EXCEPT !.pc = IF due = {} THEN "advance" ELSE "slots",
                   !.queue = @ \ {r}, !.sid = r.sid, !.after = after,
                   !.slot = slot, !.missed = due \ {slot}]
<1>a. tick[d] \in Locals /\ tick \in [Daemons -> Locals] /\ tick[d].now \in Slots
  BY FieldsOfLocals DEF TypeOK
<1>1. /\ tick[d].pc = "next" /\ tick[d].queue # {} /\ r.sid \in Parses
      /\ SetLocals(d, l) /\ UNCHANGED <<row, base, fire>>
  BY DEF TakeSchedule, history, db
<1>2. /\ l.pc = (IF due = {} THEN "advance" ELSE "slots") /\ l.queue = tick[d].queue \ {r}
      /\ l.sid = r.sid /\ l.after = after /\ l.slot = slot /\ l.missed = due \ {slot}
      /\ l.considered = tick[d].considered /\ l.now = tick[d].now
  <2> HIDE DEF r, after, due, slot
  <2>1. QED  BY <1>a DEF Locals
<1> HIDE DEF r, l
<1>3. /\ r.sid \in Schedules /\ after \in Int
      /\ \A o \in tick[d].queue \ {r} : o.sid # r.sid
      /\ row[r.sid].mark = after \/ row[r.sid].mark = Null
  BY <1>1, TakenFromQueue DEF r
<1> HIDE DEF after, slot
<1>4. due = {t \in Due[r.sid] : after < t /\ t <= tick[d].now}
  BY <1>a, <1>3, WholeWindow
<1> HIDE DEF due
<1>5. tick'[d] = l /\ \A e \in Daemons : e # d => tick'[e] = tick[e]
  BY <1>a, <1>1, LocalsOf
<1>6. NoSlotLost' /\ MarkedIsLive' /\ Alive(d)
  BY <1>1, RowsKept DEF WindowInv, Alive
<1>7. QueueCurrent(tick'[d], row')
  BY <1>1, <1>2, <1>3, <1>5 DEF QueueCurrent, WindowInv, InQueue
<1>8. WindowDecided(tick'[d], row', fire')
  <2>1. CASE due = {}
    BY <1>1, <1>2, <1>3, <1>4, <1>5, <2>1 DEF WindowDecided, AtSlot
  <2>2. CASE due # {}
    BY <1>1, <1>2, <1>3, <1>4, <1>5, <2>2 DEF WindowDecided, AtSlot
  <2>3. QED  BY <2>1, <2>2
<1>9. WithinBudget(tick'[d], fire')
  BY <1>1, <1>2, <1>5 DEF WithinBudget, WindowInv
<1>10. QED  BY <1>1, <1>5, <1>6, <1>7, <1>8, <1>9, SoleStep

(* Steps at one schedule that decide the slot at hand or an older one: the   *)
(* window loses only what has a receipt.                                     *)
LEMMA DecideStep ==
    ASSUME TypeOK, WindowInv, NEW d \in Daemons, tick[d].pc \in AtSlot, NEW l, SetLocals(d, l),
           l.pc \in {"slots", "dispatch", "advance"}, l.sid = tick[d].sid, l.after = tick[d].after,
           l.now = tick[d].now, l.queue = tick[d].queue, l.slot = tick[d].slot,
           UNCHANGED <<row, base>>, Decided(fire) \subseteq Decided(fire'),
           l.considered + Cardinality(Decided(fire))
               <= tick[d].considered + Cardinality(Decided(fire')),
           l.considered \in Nat,
           \A t \in Slots : t \in tick[d].missed /\ tick[d].pc = "slots" =>
               (l.pc = "slots" /\ t \in l.missed) \/ fire'[<<l.sid, t>>] # NoReceipt,
           l.pc = "advance" => fire'[RunId(d)] # NoReceipt
    PROVE  WindowInv'
<1>a. tick[d].considered \in Nat /\ tick[d].slot \in Slots
  BY FieldsOfLocals DEF TypeOK
<1>1. tick'[d] = l /\ \A e \in Daemons : e # d => tick'[e] = tick[e]
  BY LocalsOf DEF TypeOK
<1>2. NoSlotLost' /\ MarkedIsLive' /\ Alive(d)
  BY RowsKept DEF WindowInv, Alive, AtSlot
<1>3. QueueCurrent(tick[d], row) /\ WindowDecided(tick[d], row, fire) /\ WithinBudget(tick[d], fire)
  BY DEF WindowInv
<1>4. QueueCurrent(tick'[d], row')
  BY <1>1, <1>3 DEF QueueCurrent, InQueue, AtSchedule, AtSlot
<1>5. tick[d].pc \in AtSchedule
  BY DEF AtSchedule
<1>6. WindowDecided(tick'[d], row', fire')
  <2>1. /\ l.sid \in Parses /\ l.sid \in Schedules
        /\ row[l.sid].mark = l.after \/ row[l.sid].mark = Null
        /\ \A t \in Due[l.sid] : l.after < t /\ t <= l.now =>
              \/ fire[<<l.sid, t>>] # NoReceipt
              \/ tick[d].pc = "slots" /\ t \in tick[d].missed
              \/ t = tick[d].slot
    BY <1>3, <1>5 DEF WindowDecided
  <2>2. ASSUME NEW t \in Due[l.sid], l.after < t, t <= l.now
        PROVE  \/ fire'[<<l.sid, t>>] # NoReceipt
               \/ l.pc = "slots" /\ t \in l.missed
               \/ l.pc \in AtSlot /\ t = l.slot
    <3>1. t \in Slots /\ <<l.sid, t>> \in Key
      BY <2>1 DEF Key
    <3>2. fire[<<l.sid, t>>] # NoReceipt => fire'[<<l.sid, t>>] # NoReceipt
      BY <3>1 DEF Decided
    <3>3. CASE tick[d].pc = "slots" /\ t \in tick[d].missed
      BY <3>1, <3>3
    <3>4. CASE t = tick[d].slot
      BY <3>4 DEF AtSlot, RunId
    <3>5. QED  BY <2>1, <2>2, <3>2, <3>3, <3>4
  <2>3. QED  BY <1>1, <2>1, <2>2 DEF WindowDecided
<1>7. WithinBudget(tick'[d], fire')
  <2>1. Cardinality(Decided(fire)) \in Nat /\ Cardinality(Decided(fire')) \in Nat
    BY KeyFinite, FS_Subset, FS_CardinalityType DEF Decided
  <2>2. QED  BY <1>a, <1>1, <1>3, <2>1 DEF WithinBudget
<1>8. QED  BY <1>1, <1>2, <1>4, <1>6, <1>7, SoleStep

(* The older slots. *)
LEMMA WindowMissed ==
    ASSUME TypeOK, WindowInv, NEW d \in Daemons, ConsiderMissed(d)
    PROVE  WindowInv'
<1> DEFINE t == Min(tick[d].missed)
           m == <<tick[d].sid, t>>
           o == IF RunExists(m) THEN "fired" ELSE "skipped_missed"
           l == [tick[d] EXCEPT !.missed = @ \ {t}, !.considered = @ + Fresh(m),
                   !.fired = IF o = "fired" THEN @ + Fresh(m) ELSE @]
<1>a. tick[d] \in Locals /\ tick[d].missed \in SUBSET Slots /\ tick[d].considered \in Nat
  BY FieldsOfLocals DEF TypeOK
<1>1. /\ tick[d].pc = "slots" /\ tick[d].missed # {}
      /\ RecordFire(m, o) /\ SetLocals(d, l) /\ UNCHANGED <<row, base>>
  BY DEF ConsiderMissed, MoreMissed, history
<1>2. /\ l.pc = "slots" /\ l.queue = tick[d].queue /\ l.sid = tick[d].sid
      /\ l.after = tick[d].after /\ l.slot = tick[d].slot /\ l.now = tick[d].now
      /\ l.missed = tick[d].missed \ {t} /\ l.considered = tick[d].considered + Fresh(m)
  <2> HIDE DEF m, t, o
  <2>1. QED  BY <1>a, <1>1 DEF Locals
<1>3. t \in Slots
  BY <1>a, <1>1, MinOfSlots
<1>4. tick[d].sid \in Schedules
  BY <1>1 DEF WindowInv, WindowDecided, AtSchedule, AtSlot
<1>5. m \in Key /\ o \in Outcomes
  BY <1>3, <1>4 DEF Key, Outcomes
<1> HIDE DEF l, o
<1>6. /\ Decided(fire) \subseteq Decided(fire') /\ fire'[m] # NoReceipt
      /\ Cardinality(Decided(fire')) = Cardinality(Decided(fire)) + Fresh(m)
  <2> HIDE DEF m
  <2>1. QED  BY <1>1, <1>5, ReceiptDecides
<1>7. Cardinality(Decided(fire)) \in Nat /\ Fresh(m) \in Nat
  BY KeyFinite, FS_Subset, FS_CardinalityType DEF Decided, Fresh
<1>8. \A u \in Slots : u \in tick[d].missed =>
         u \in l.missed \/ fire'[<<l.sid, u>>] # NoReceipt
  <2> HIDE DEF t
  <2>1. QED  BY <1>2, <1>6
<1>9. l.considered \in Nat /\ l.considered + Cardinality(Decided(fire))
                   <= tick[d].considered + Cardinality(Decided(fire'))
  <2> HIDE DEF m
  <2>1. QED  BY <1>a, <1>2, <1>6, <1>7
<1> HIDE DEF m, t
<1>10. QED  BY <1>1, <1>2, <1>6, <1>8, <1>9, DecideStep DEF AtSlot, AtSchedule

(* With the whole backlog considered, the slot at hand is all that is left. *)
LEMMA BacklogDone ==
    ASSUME RoomForBacklog, TypeOK, WindowInv, NEW d \in Daemons, Deciding(d)
    PROVE  tick[d].pc = "slots" /\ tick[d].missed = {} /\ RunId(d) \in Key
<1>1. tick[d].considered < MaxConsidered
  BY BudgetLeft
<1>2. tick[d].pc = "slots" /\ tick[d].missed = {}
  BY <1>1 DEF Deciding, MoreMissed
<1>3. tick[d].sid \in Schedules /\ tick[d].slot \in Slots
  BY <1>2, FieldsOfLocals DEF WindowInv, WindowDecided, AtSchedule, AtSlot, TypeOK
<1>4. QED  BY <1>2, <1>3 DEF RunId, Key

(* The decisions about the latest slot that need no dispatch. *)
LEMMA WindowDecide ==
    ASSUME RoomForBacklog, TypeOK, WindowInv, NEW d \in Daemons,
           \/ AlreadyConsidered(d) \/ SkipPreviousAwaiting(d) \/ HealOrphan(d) \/ ChooseDispatch(d)
    PROVE  WindowInv'
<1>a. tick[d] \in Locals /\ tick[d].considered \in Nat
  BY FieldsOfLocals DEF TypeOK
<1>b. Deciding(d) /\ UNCHANGED <<row, base>>
  BY DEF AlreadyConsidered, SkipPreviousAwaiting, HealOrphan, ChooseDispatch, MayFire, db, history
<1>c. tick[d].pc = "slots" /\ tick[d].missed = {} /\ RunId(d) \in Key
  BY <1>b, BacklogDone
<1>d. Cardinality(Decided(fire)) \in Nat
  BY KeyFinite, FS_Subset, FS_CardinalityType DEF Decided
<1>1. CASE AlreadyConsidered(d) \/ ChooseDispatch(d)
  <2>1. PICK p \in {"advance", "dispatch"} :
          /\ SetLocals(d, [tick[d] EXCEPT !.pc = p]) /\ UNCHANGED fire
          /\ p = "advance" => fire[RunId(d)] # NoReceipt
    BY <1>1 DEF AlreadyConsidered, ChooseDispatch, db
  <2> DEFINE l == [tick[d] EXCEPT !.pc = p]
  <2>2. /\ l.pc = p /\ l.queue = tick[d].queue /\ l.sid = tick[d].sid
        /\ l.after = tick[d].after /\ l.slot = tick[d].slot /\ l.now = tick[d].now
        /\ l.considered = tick[d].considered /\ SetLocals(d, l)
    BY <1>a, <2>1 DEF Locals
  <2> HIDE DEF l
  <2>3. QED  BY <1>a, <1>b, <1>c, <1>d, <2>1, <2>2, DecideStep DEF AtSlot, AtSchedule
<1>2. CASE SkipPreviousAwaiting(d) \/ HealOrphan(d)
  <2>1. PICK o \in {"fired", "skipped_previous_awaiting"} :
          fire[RunId(d)] = NoReceipt /\ RecordFire(RunId(d), o)
    BY <1>2 DEF SkipPreviousAwaiting, HealOrphan, MayFire
  <2>2. PICK l : /\ SetLocals(d, l) /\ l.pc = "advance" /\ l.queue = tick[d].queue
                 /\ l.sid = tick[d].sid /\ l.after = tick[d].after /\ l.slot = tick[d].slot
                 /\ l.now = tick[d].now /\ l.considered = tick[d].considered + 1
    <3>1. CASE SkipPreviousAwaiting(d)
      <4> DEFINE l == [tick[d] EXCEPT !.pc = "advance", !.considered = @ + 1]
      <4>1. /\ SetLocals(d, l) /\ l.pc = "advance" /\ l.queue = tick[d].queue
            /\ l.sid = tick[d].sid /\ l.after = tick[d].after /\ l.slot = tick[d].slot
            /\ l.now = tick[d].now /\ l.considered = tick[d].considered + 1
        BY <1>a, <3>1 DEF SkipPreviousAwaiting, Locals
      <4> HIDE DEF l
      <4>2. QED  BY <4>1
    <3>2. CASE HealOrphan(d)
      <4> DEFINE l == [tick[d] EXCEPT !.pc = "advance", !.considered = @ + 1, !.fired = @ + 1]
      <4>1. /\ SetLocals(d, l) /\ l.pc = "advance" /\ l.queue = tick[d].queue
            /\ l.sid = tick[d].sid /\ l.after = tick[d].after /\ l.slot = tick[d].slot
            /\ l.now = tick[d].now /\ l.considered = tick[d].considered + 1
        BY <1>a, <3>2 DEF HealOrphan, Locals
      <4> HIDE DEF l
      <4>2. QED  BY <4>1
    <3>3. QED  BY <1>2, <3>1, <3>2
  <2>3. /\ Decided(fire) \subseteq Decided(fire') /\ fire'[RunId(d)] # NoReceipt
        /\ Cardinality(Decided(fire')) = Cardinality(Decided(fire)) + 1
    BY <1>c, <2>1, ReceiptDecides DEF Fresh, Outcomes
  <2>4. QED  BY <1>a, <1>b, <1>c, <1>d, <2>2, <2>3, DecideStep DEF AtSlot, AtSchedule
<1>3. QED  BY <1>1, <1>2

(* The dispatch. *)
LEMMA WindowDispatch ==
    ASSUME TypeOK, WindowInv, NEW d \in Daemons,
           \/ NoPublishedVersion(d) \/ CreateRun(d) \/ DuplicateRun(d) \/ StartRun(d)
           \/ \E end \in {"done", "failed", "awaiting_checkpoint"} : FinishRun(d, end)
           \/ DispatchError(d)
    PROVE  WindowInv'
<1>a. tick[d] \in Locals
  BY DEF TypeOK
<1>b. UNCHANGED <<fire, row, base>> /\ tick[d].pc \in {"dispatch", "start", "engine"}
  BY DEF NoPublishedVersion, CreateRun, DuplicateRun, StartRun, FinishRun, DispatchError, db, history
<1>1. ASSUME NEW p \in {"start", "engine"}, NEW o \in Outcomes, NEW k,
             \/ SetLocals(d, [tick[d] EXCEPT !.pc = p])
             \/ SetLocals(d, [tick[d] EXCEPT !.pc = "receipt", !.out = o])
             \/ SetLocals(d, [tick[d] EXCEPT !.pc = p, !.dispatched = k])
      PROVE  WindowInv'
  <2>1. PICK l : /\ SetLocals(d, l) /\ l.queue = tick[d].queue
                 /\ l.pc = p \/ (l.pc = "receipt" /\ l.out \in Outcomes)
                 /\ l.sid = tick[d].sid /\ l.after = tick[d].after /\ l.slot = tick[d].slot
                 /\ l.now = tick[d].now /\ l.considered = tick[d].considered
    <3> DEFINE la == [tick[d] EXCEPT !.pc = p]
               lb == [tick[d] EXCEPT !.pc = "receipt", !.out = o]
               lc == [tick[d] EXCEPT !.pc = p, !.dispatched = k]
               Good(l) == /\ l.queue = tick[d].queue /\ l.sid = tick[d].sid
                          /\ l.after = tick[d].after /\ l.slot = tick[d].slot
                          /\ l.now = tick[d].now /\ l.considered = tick[d].considered
    <3>1. /\ Good(la) /\ Good(lb) /\ Good(lc)
          /\ la.pc = p /\ lc.pc = p /\ lb.pc = "receipt" /\ lb.out = o
      BY <1>a DEF Locals
    <3>2. SetLocals(d, la) \/ SetLocals(d, lb) \/ SetLocals(d, lc)
      BY <1>1
    <3> HIDE DEF la, lb, lc
    <3>3. QED  BY <3>1, <3>2
  <2>2. QED  BY <1>b, <2>1, DispatchStep
<1>2. CASE CreateRun(d)
  BY <1>1, <1>2 DEF CreateRun, Outcomes
<1>3. CASE StartRun(d)
  BY <1>1, <1>3 DEF StartRun, Settle, Outcomes
<1>4. CASE NoPublishedVersion(d) \/ DuplicateRun(d) \/ DispatchError(d)
           \/ \E end \in {"done", "failed", "awaiting_checkpoint"} : FinishRun(d, end)
  BY <1>1, <1>4 DEF NoPublishedVersion, DuplicateRun, DispatchError, FinishRun, Settle, Outcomes
<1>5. QED  BY <1>2, <1>3, <1>4

(* The receipt of a dispatch. *)
LEMMA WindowReceipt ==
    ASSUME TypeOK, WindowInv, NEW d \in Daemons, RecordOutcome(d)
    PROVE  WindowInv'
<1> DEFINE x == RunId(d)
           l == [tick[d] EXCEPT !.pc = "advance", !.considered = @ + Fresh(RunId(d)),
                   !.fired = IF tick[d].out = "fired" THEN @ + Fresh(RunId(d)) ELSE @]
<1>a. tick[d] \in Locals /\ tick[d].considered \in Nat /\ tick[d].slot \in Slots
  BY FieldsOfLocals DEF TypeOK
<1>1. /\ tick[d].pc = "receipt" /\ RecordFire(x, tick[d].out) /\ SetLocals(d, l)
      /\ UNCHANGED <<row, base>>
  BY DEF RecordOutcome, history
<1>o. tick[d].out \in Outcomes
  BY <1>1 DEF WindowInv, WindowDecided, AtSchedule, AtSlot
<1>2. /\ l.pc = "advance" /\ l.queue = tick[d].queue /\ l.sid = tick[d].sid
      /\ l.after = tick[d].after /\ l.slot = tick[d].slot /\ l.now = tick[d].now
      /\ l.considered = tick[d].considered + Fresh(x)
  BY <1>a DEF Locals
<1>3. x \in Key
  BY <1>a, <1>1 DEF WindowInv, WindowDecided, AtSchedule, AtSlot, RunId, Key
<1>4. Cardinality(Decided(fire)) \in Nat /\ Fresh(x) \in Nat
  BY KeyFinite, FS_Subset, FS_CardinalityType DEF Decided, Fresh
<1> HIDE DEF l, x
<1>5. /\ Decided(fire) \subseteq Decided(fire') /\ fire'[x] # NoReceipt
      /\ Cardinality(Decided(fire')) = Cardinality(Decided(fire)) + Fresh(x)
  BY <1>1, <1>3, <1>o, ReceiptDecides
<1>6. l.considered \in Nat /\ l.considered + Cardinality(Decided(fire))
                   <= tick[d].considered + Cardinality(Decided(fire'))
  BY <1>a, <1>2, <1>4, <1>5
<1>7. QED  BY <1>1, <1>2, <1>5, <1>6, DecideStep DEF AtSlot, AtSchedule, x

(* Back to the queue: the fire budget is used up. *)
LEMMA WindowDefer ==
    ASSUME TypeOK, WindowInv, NEW d \in Daemons, DeferSlot(d)
    PROVE  WindowInv'
<1> DEFINE l == [tick[d] EXCEPT !.pc = "next", !.sid = 0, !.after = Null,
                         !.missed = {}, !.slot = 0, !.out = NoReceipt]
<1>a. tick[d] \in Locals
  BY DEF TypeOK
<1>1. tick[d].pc = "slots" /\ SetLocals(d, l) /\ UNCHANGED <<fire, row, base>>
  BY DEF DeferSlot, MayFire, Deciding, NextSchedule, db
<1>2. l.pc = "next" /\ l.queue = tick[d].queue /\ l.considered = tick[d].considered
  BY <1>a DEF Locals
<1> HIDE DEF l
<1>3. tick'[d] = l /\ \A e \in Daemons : e # d => tick'[e] = tick[e]
  BY <1>1, LocalsOf DEF TypeOK
<1>4. NoSlotLost' /\ MarkedIsLive' /\ Alive(d)
  BY <1>1, RowsKept DEF WindowInv, Alive
<1>5. QueueCurrent(tick'[d], row') /\ WindowDecided(tick'[d], row', fire')
  BY <1>1, <1>2, <1>3 DEF QueueCurrent, WindowDecided, WindowInv, InQueue, AtSchedule, AtSlot
<1>6. WithinBudget(tick'[d], fire')
  BY <1>1, <1>2, <1>3 DEF WindowInv, WithinBudget
<1>7. QED  BY <1>1, <1>3, <1>4, <1>5, <1>6, SoleStep

(* The watermark: what it passes is decided. *)
LEMMA WindowAdvance ==
    ASSUME TypeOK, WindowInv, NEW d \in Daemons, AdvanceWatermark(d)
    PROVE  WindowInv'
<1> DEFINE l == [tick[d] EXCEPT !.pc = "next", !.sid = 0, !.after = Null,
                         !.missed = {}, !.slot = 0, !.out = NoReceipt]
           s == tick[d].sid
<1>a. tick[d] \in Locals /\ tick[d].now \in Slots /\ tick[d].after \in Int
      /\ tick[d].queue \in SUBSET [sid : Schedules, mark : Slots \cup {Null}]
  BY FieldsOfLocals DEF TypeOK
<1>1. /\ tick[d].pc = "advance" /\ SetLocals(d, l) /\ UNCHANGED fire /\ row[s].live
      /\ row' = [row EXCEPT ![s].mark = IF @ < tick[d].now THEN tick[d].now ELSE @]
      /\ base' = IF row[s].mark = Null THEN [base EXCEPT ![s] = tick[d].after] ELSE base
  BY DEF AdvanceWatermark, NextSchedule
<1>2. l.pc = "next" /\ l.queue = tick[d].queue /\ l.considered = tick[d].considered
  BY <1>a DEF Locals
<1>3. /\ s \in Schedules
      /\ row[s].mark = tick[d].after \/ row[s].mark = Null
      /\ s \in Parses => \A t \in Due[s] : tick[d].after < t /\ t <= tick[d].now =>
                             fire[<<s, t>>] # NoReceipt
      /\ \A r \in tick[d].queue : r.sid # s
  BY <1>1 DEF WindowInv, WindowDecided, QueueCurrent, InQueue, AtSchedule, AtSlot
<1>4. /\ row'[s].live /\ row'[s].mark = IF row[s].mark < tick[d].now THEN tick[d].now ELSE row[s].mark
      /\ base'[s] = IF row[s].mark = Null THEN tick[d].after ELSE base[s]
      /\ \A q \in Schedules : q # s => row'[q] = row[q] /\ base'[q] = base[q]
  <2>1. /\ row \in [Schedules -> [live : BOOLEAN, enabled : BOOLEAN, mark : Slots \cup {Null}]]
        /\ base \in [Schedules -> Int]
    BY DEF TypeOK
  <2>2. /\ row'[s] = [row[s] EXCEPT !.mark = IF @ < tick[d].now THEN tick[d].now ELSE @]
        /\ \A q \in Schedules : q # s => row'[q] = row[q]
    BY <1>1, <1>3, <2>1
  <2>3. row[s] \in [live : BOOLEAN, enabled : BOOLEAN, mark : Slots \cup {Null}]
    BY <1>3, <2>1
  <2> HIDE DEF s
  <2>4. row'[s].live /\ row'[s].mark = IF row[s].mark < tick[d].now THEN tick[d].now ELSE row[s].mark
    BY <1>1, <2>2, <2>3
  <2>5. /\ base'[s] = IF row[s].mark = Null THEN tick[d].after ELSE base[s]
        /\ \A q \in Schedules : q # s => base'[q] = base[q]
    BY <1>1, <1>3, <2>1
  <2>6. QED  BY <2>2, <2>4, <2>5
<1>5. row[s].mark \in Int /\ base[s] \in Int /\ tick[d].now \in Int /\ tick[d].now # Null
  <2>1. s \in Schedules
    BY <1>3
  <2> HIDE DEF s
  <2>2. row[s].mark \in Slots \cup {Null} /\ base[s] \in Int
    BY <2>1 DEF TypeOK
  <2>3. QED  BY <1>a, <2>2 DEF Slots, Null
<1> HIDE DEF l, s
<1>6. tick'[d] = l /\ \A e \in Daemons : e # d => tick'[e] = tick[e]
  BY <1>1, LocalsOf DEF TypeOK
<1>7. NoSlotLost'
  <2> SUFFICES ASSUME NEW q \in Parses, NEW t \in Due[q], row'[q].live, base'[q] < t,
                      t <= row'[q].mark, row'[q].mark # Null
               PROVE  fire'[<<q, t>>] # NoReceipt
    BY DEF NoSlotLost
  <2>1. t \in Int
    BY DEF Slots
  <2>2. CASE q # s
    BY <1>1, <1>4, <2>2 DEF WindowInv, NoSlotLost
  <2>3. CASE q = s /\ row[s].mark = Null
    <3>1. tick[d].after < t /\ t <= tick[d].now
      BY <1>4, <1>5, <2>1, <2>3 DEF Null, Slots
    <3>2. QED  BY <1>1, <1>3, <2>3, <3>1
  <2>4. CASE q = s /\ row[s].mark # Null /\ t <= row[s].mark
    BY <1>1, <1>4, <2>4 DEF WindowInv, NoSlotLost
  <2>5. CASE q = s /\ row[s].mark # Null /\ ~(t <= row[s].mark)
    <3>1. tick[d].after < t /\ t <= tick[d].now
      BY <1>3, <1>4, <1>5, <2>1, <2>5
    <3>2. QED  BY <1>1, <1>3, <2>5, <3>1
  <2>6. QED  BY <2>2, <2>3, <2>4, <2>5
<1>8. MarkedIsLive' /\ Alive(d)
  BY <1>1, <1>3, <1>4 DEF MarkedIsLive, WindowInv, Alive
<1>9. QueueCurrent(tick'[d], row')
  <2>1. \A r \in tick[d].queue : r.sid \in Schedules /\ row'[r.sid] = row[r.sid]
    BY <1>a, <1>3, <1>4
  <2>2. QueueCurrent(tick[d], row)
    BY DEF WindowInv
  <2>3. QED  BY <1>1, <1>2, <1>6, <2>1, <2>2 DEF QueueCurrent, InQueue, AtSchedule, AtSlot
<1>10. WindowDecided(tick'[d], row', fire')
  BY <1>2, <1>6 DEF WindowDecided, AtSchedule, AtSlot
<1>11. WithinBudget(tick'[d], fire')
  BY <1>1, <1>2, <1>6 DEF WindowInv, WithinBudget
<1>12. QED  BY <1>1, <1>6, <1>7, <1>8, <1>9, <1>10, <1>11, SoleStep

(* Every step keeps the invariant. *)
LEMMA WindowInvStep ==
    ASSUME SoleDaemon, RoomForBacklog, TypeOK, WindowInv, [Next]_vars
    PROVE  WindowInv'
<1>0. CASE UNCHANGED vars
  BY <1>0, WindowStill DEF vars, db, history
<1>1. CASE AdvanceClock
  BY <1>1, WindowStill DEF AdvanceClock, db, history
<1>2. CASE SetClockBack
  BY <1>2, WindowStill DEF SetClockBack, db
<1>r. row \in [Schedules -> [live : BOOLEAN, enabled : BOOLEAN, mark : Slots \cup {Null}]]
      /\ base \in [Schedules -> Int] /\ MarkedIsLive
  BY DEF TypeOK, WindowInv
<1>3. ASSUME NEW s \in Schedules, CreateSchedule(s) PROVE WindowInv'
  <2>1. /\ row' = [row EXCEPT ![s] = [live |-> TRUE, enabled |-> FALSE, mark |-> Null]]
        /\ base' = [base EXCEPT ![s] = Null] /\ UNCHANGED <<tick, fire>>
    BY <1>3 DEF CreateSchedule
  <2>2. /\ row'[s].mark = Null
        /\ \A q \in Schedules : q # s => row'[q] = row[q] /\ base'[q] = base[q]
    BY <1>r, <2>1
  <2>3. QED  BY <1>r, <2>1, <2>2, RowStep DEF MarkedIsLive
<1>4. ASSUME NEW s \in Schedules, DeleteSchedule(s) PROVE WindowInv'
  <2>1. /\ row' = [row EXCEPT ![s] = [live |-> FALSE, enabled |-> FALSE, mark |-> Null]]
        /\ UNCHANGED <<tick, fire, base>>
    BY <1>4 DEF DeleteSchedule, history
  <2>2. row'[s].mark = Null /\ \A q \in Schedules : q # s => row'[q] = row[q]
    BY <1>r, <2>1
  <2>3. QED  BY <1>r, <2>1, <2>2, RowStep DEF MarkedIsLive
<1>5. ASSUME NEW s \in Schedules, NEW e \in BOOLEAN, SetEnabled(s, e) PROVE WindowInv'
  <2>1. row' = [row EXCEPT ![s].enabled = e] /\ UNCHANGED <<tick, fire, base>>
    BY <1>5 DEF SetEnabled, history
  <2>2. row'[s] = [row[s] EXCEPT !.enabled = e] /\ \A q \in Schedules : q # s => row'[q] = row[q]
    BY <1>r, <2>1
  <2>3. row[s] \in [live : BOOLEAN, enabled : BOOLEAN, mark : Slots \cup {Null}]
    BY <1>r
  <2>4. row'[s].mark = row[s].mark /\ row'[s].live = row[s].live
    BY <2>2, <2>3
  <2>5. \A q \in Schedules : row'[q].mark = row[q].mark /\ row'[q].live = row[q].live
    BY <2>2, <2>4
  <2>6. QED  BY <1>r, <2>1, <2>5, RowStep DEF MarkedIsLive
<1>6. ASSUME NEW p \in BOOLEAN, SetPaused(p) PROVE WindowInv'
  BY <1>6, WindowStill DEF SetPaused, history
<1>7. ASSUME NEW x \in Key, CancelRun(x) PROVE WindowInv'
  BY <1>7, WindowStill DEF CancelRun, history
<1>8. ASSUME NEW d \in Daemons,
             \/ Boot(d) \/ TickStep(d) \/ SweepError(d) \/ DispatchError(d) \/ TickError(d) \/ Crash(d)
      PROVE  WindowInv'
  BY <1>8, WindowOutside, WindowStartTick, WindowInvalid, WindowTake, WindowMissed,
     WindowDecide, WindowDefer, WindowDispatch, WindowReceipt,
     WindowAdvance DEF TickStep
<1>9. QED
  BY <1>0, <1>1, <1>2, <1>3, <1>4, <1>5, <1>6, <1>7, <1>8 DEF Next, Operator

(* The initial state satisfies the invariant. *)
LEMMA WindowInvInit == Init => WindowInv
<1> SUFFICES ASSUME Init PROVE WindowInv
  OBVIOUS
<1>1. /\ \A d \in Daemons : tick[d].pc = "new" /\ tick[d].considered = 0
      /\ \A s \in Schedules : row[s].mark = Null
  BY DEF Init, Rest
<1>2. OneAlive /\ MarkedIsLive /\ NoSlotLost
  BY <1>1 DEF OneAlive, Alive, MarkedIsLive, NoSlotLost
<1>3. Cardinality(Decided(fire)) \in Nat
  BY KeyFinite, FS_Subset, FS_CardinalityType DEF Decided
<1>4. \A d \in Daemons : /\ QueueCurrent(tick[d], row) /\ WindowDecided(tick[d], row, fire)
                         /\ WithinBudget(tick[d], fire)
  BY <1>1, <1>3 DEF QueueCurrent, WindowDecided, WithinBudget, InQueue, AtSchedule, AtSlot
<1>5. QED  BY <1>2, <1>4 DEF WindowInv

(* With one daemon at a time the invariant always holds. *)
LEMMA WindowInvariance == SoleDaemon /\ RoomForBacklog => (Spec => []WindowInv)
<1> SUFFICES ASSUME SoleDaemon, RoomForBacklog PROVE Spec => []WindowInv
  OBVIOUS
<1>1. Init => WindowInv
  BY WindowInvInit
<1>2. TypeOK /\ WindowInv /\ [Next]_vars => WindowInv'
  BY WindowInvStep
<1>3. QED  BY <1>1, <1>2, TypeCorrect, PTL DEF Spec

(* scheduler_tick.rs, the reconciliation of missed slots: with one daemon    *)
(* alive at a time and no backlog beyond max_considered_per_tick, every due  *)
(* slot between a row's first window and its watermark has a receipt,        *)
(* whatever crashes, storage errors, deletions, re-creations and clock steps *)
(* happen between any two statements.                                        *)
THEOREM NoSlotLostHolds == SoleDaemon /\ RoomForBacklog => (Spec => []NoSlotLost)
<1> SUFFICES ASSUME SoleDaemon, RoomForBacklog PROVE Spec => []NoSlotLost
  OBVIOUS
<1>1. WindowInv => NoSlotLost
  BY DEF WindowInv
<1>2. QED  BY <1>1, WindowInvariance, PTL

-----------------------------------------------------------------------------
(***************************************************************************)
(* The inductive invariant of NoPileUp, while the clock moves forward.  A  *)
(* live run that a newer one joined or outlived (Overtaken) was not seen   *)
(* by the tick that started the newer one: its receipt says "error", or it *)
(* has none and no window of the row, read or still to be read, reaches    *)
(* back to its slot.                                                       *)
(***************************************************************************)
Overtaken(r, s, t) ==
    /\ r[<<s, t>>].st \in NonTerminal
    /\ \E u \in Slots : t < u /\ r[<<s, u>>].st # NoRun

RunsReceipted == \A x \in Key : RunExists(x) =>
    x[1] \in Parses /\ fire[x] \in {NoReceipt, "fired", "error"}

OvertakenUnseen == \A s \in Schedules : \A t \in Slots : Overtaken(run, s, t) =>
    \/ fire[<<s, t>>] = "error"
    \/ fire[<<s, t>>] = NoReceipt /\ (row[s].mark = Null \/ t <= base[s])

ClockLeads ==
    /\ \A x \in Key : run[x].at <= clock
    /\ \A s \in Schedules : row[s].mark <= clock /\ (row[s].mark # Null => base[s] <= row[s].mark)

RunsWell == RunsReceipted /\ OvertakenUnseen /\ ClockLeads

TickLeads(l, c, w, r) == l.pc \notin {"new", "dead", "idle", "recover"} =>
    /\ l.now <= c
    /\ \A x \in Key : r[x].at <= l.now
    /\ \A s \in Schedules : w[s].mark <= l.now
    /\ l.pc \in InQueue => \A o \in l.queue : o.mark <= l.now
    /\ l.pc \in AtSchedule => l.after <= l.now

WindowsAfter(l, r, f) ==
    /\ l.pc \in AtSlot => l.after < l.slot
    /\ l.pc = "slots" => \A t \in l.missed : l.after < t
    /\ l.pc \in InQueue => \A s \in Schedules : \A t \in Slots :
         (Overtaken(r, s, t) /\ f[<<s, t>>] = NoReceipt) =>
            /\ l.pc \in AtSchedule /\ l.sid = s => t <= l.after
            /\ \A o \in l.queue : o.sid = s => t <= StartAfter(o, l.now)

SlotOpen(l, r, f) ==
    /\ l.pc \in {"dispatch", "start", "engine", "receipt"} => f[<<l.sid, l.slot>>] = NoReceipt
    /\ l.pc = "dispatch" =>
         /\ r[<<l.sid, l.slot>>].st = NoRun
         /\ \A t \in Slots : f[<<l.sid, t>>] = "fired" => r[<<l.sid, t>>].st \notin NonTerminal
    /\ l.pc = "receipt" => l.out \in {"fired", "error"} \/ r[<<l.sid, l.slot>>].st = NoRun

TickWell(l, c, w, r, f) == TickLeads(l, c, w, r) /\ WindowsAfter(l, r, f) /\ SlotOpen(l, r, f)

PileBody == RunsWell /\ \A d \in Daemons : TickWell(tick[d], clock, row, run, fire)

PileInv == ~setback => PileBody

(* The changes of runs that end them. *)
Shrinks(r, q) == \A x \in Key :
    /\ q[x].st # NoRun <=> r[x].st # NoRun
    /\ q[x].at = r[x].at
    /\ q[x].st \in NonTerminal => r[x].st \in NonTerminal

(* Ending runs overtakes none. *)
LEMMA ShrinkOvertakes ==
    ASSUME NEW r, NEW q, Shrinks(r, q), NEW s \in Schedules, NEW t \in Slots, Overtaken(q, s, t)
    PROVE  Overtaken(r, s, t)
<1>1. <<s, t>> \in Key /\ \A u \in Slots : <<s, u>> \in Key
  BY DEF Key
<1>2. QED  BY <1>1 DEF Overtaken, Shrinks

(* The watermark changes of operator requests. *)
MarksKept == \A s \in Schedules :
    row'[s].mark = Null \/ (row'[s].mark = row[s].mark /\ base'[s] = base[s])

(* Steps that end runs, reset watermarks and advance the clock. *)
LEMMA RunsWellKept ==
    ASSUME TypeOK, RunsWell, Shrinks(run, run'), MarksKept, UNCHANGED fire,
           clock <= clock', clock' \in Slots
    PROVE  RunsWell'
<1>1. RunsReceipted'
  BY DEF RunsWell, RunsReceipted, RunExists, Shrinks
<1>2. OvertakenUnseen'
  <2> SUFFICES ASSUME NEW s \in Schedules, NEW t \in Slots, Overtaken(run', s, t)
               PROVE  \/ fire'[<<s, t>>] = "error"
                      \/ fire'[<<s, t>>] = NoReceipt /\ (row'[s].mark = Null \/ t <= base'[s])
    BY DEF OvertakenUnseen
  <2>1. Overtaken(run, s, t)
    BY ShrinkOvertakes
  <2>2. QED  BY <2>1 DEF RunsWell, OvertakenUnseen, MarksKept
<1>3. ClockLeads'
  <2>1. \A x \in Key : run'[x].at <= clock'
    <3> TAKE x \in Key
    <3>1. run[x].at <= clock /\ run'[x].at = run[x].at /\ run[x].at \in Int /\ clock \in Int
          /\ clock' \in Int
      BY DEF RunsWell, ClockLeads, Shrinks, TypeOK, Slots
    <3>2. QED  BY <3>1
  <2>2. ASSUME NEW s \in Schedules
        PROVE  row'[s].mark <= clock' /\ (row'[s].mark # Null => base'[s] <= row'[s].mark)
    <3>1. row[s].mark \in Int /\ clock \in Int /\ clock' \in Int /\ Null <= clock' /\ Null \in Int
      BY DEF TypeOK, Slots, Null
    <3>2. QED  BY <3>1 DEF RunsWell, ClockLeads, MarksKept
  <2>3. QED  BY <2>1, <2>2 DEF ClockLeads
<1>4. QED  BY <1>1, <1>2, <1>3 DEF RunsWell

(* They also leave every daemon's tick as well as it was. *)
LEMMA TickWellKept ==
    ASSUME TypeOK, WindowInv, NEW d \in Daemons, TickWell(tick[d], clock, row, run, fire),
           Shrinks(run, run'), MarksKept, clock <= clock', clock' \in Slots
    PROVE  TickWell(tick[d], clock', row', run', fire)
<1> DEFINE l == tick[d]
<1>a. l.now \in Slots /\ l.slot \in Slots /\ l.sid \in Nat
  BY FieldsOfLocals DEF TypeOK
<1>1. TickLeads(l, clock', row', run')
  <2>1. clock \in Int /\ clock' \in Int /\ l.now \in Int /\ Null <= l.now
        /\ \A s \in Schedules : row[s].mark \in Int
    BY <1>a DEF TypeOK, Slots, Null
  <2>2. QED  BY <2>1 DEF TickWell, TickLeads, Shrinks, MarksKept
<1>2. WindowsAfter(l, run', fire)
  <2>1. \A s \in Schedules : \A t \in Slots : Overtaken(run', s, t) => Overtaken(run, s, t)
    BY ShrinkOvertakes
  <2>2. QED  BY <2>1 DEF TickWell, WindowsAfter
<1>3. SlotOpen(l, run', fire)
  <2>1. l.pc \in AtSlot => l.sid \in Schedules
    BY DEF WindowInv, WindowDecided, AtSchedule
  <2>2. l.pc \in AtSlot => \A t \in Slots : <<l.sid, t>> \in Key
    BY <2>1 DEF Key
  <2>3. QED  BY <1>a, <2>2 DEF TickWell, SlotOpen, Shrinks, AtSlot
<1>4. QED  BY <1>1, <1>2, <1>3 DEF TickWell

(* Steps of nobody's tick. *)
LEMMA PileStill ==
    ASSUME TypeOK, WindowInv, PileBody, Shrinks(run, run'), MarksKept, UNCHANGED <<fire, tick>>,
           clock <= clock', clock' \in Slots
    PROVE  PileBody'
<1>1. RunsWell'
  BY RunsWellKept DEF PileBody
<1>2. ASSUME NEW d \in Daemons PROVE TickWell(tick'[d], clock', row', run', fire')
  <2>1. TickWell(tick[d], clock, row, run, fire)
    BY DEF PileBody
  <2>2. TickWell(tick[d], clock', row', run', fire)
    BY <2>1, TickWellKept
  <2>3. QED  BY <2>2
<1>3. QED  BY <1>1, <1>2 DEF PileBody

(* A step of the only daemon. *)
LEMMA PileSole ==
    ASSUME TypeOK, NEW d \in Daemons, \A e \in Daemons : e # d => ~Alive(e) /\ tick'[e] = tick[e],
           RunsWell', TickWell(tick'[d], clock', row', run', fire')
    PROVE  PileBody'
<1>1. ASSUME NEW e \in Daemons, e # d PROVE TickWell(tick'[e], clock', row', run', fire')
  <2>1. tick'[e].pc \in {"new", "dead"}
    BY <1>1 DEF Alive
  <2>2. QED  BY <2>1 DEF TickWell, TickLeads, WindowsAfter, SlotOpen, InQueue, AtSchedule, AtSlot
<1>2. QED  BY <1>1 DEF PileBody

(* The others, when one daemon is alive and takes a step. *)
LEMMA OthersRest ==
    ASSUME TypeOK, WindowInv, NEW d \in Daemons, Alive(d), NEW l, SetLocals(d, l)
    PROVE  tick'[d] = l /\ \A e \in Daemons : e # d => ~Alive(e) /\ tick'[e] = tick[e]
<1>1. tick'[d] = l /\ \A e \in Daemons : e # d => tick'[e] = tick[e]
  BY LocalsOf DEF TypeOK
<1>2. QED  BY <1>1 DEF WindowInv, OneAlive

(* Steps of the daemon outside the loop over the schedules. *)
LEMMA PileOutside ==
    ASSUME TypeOK, WindowInv, PileBody, NEW d \in Daemons, NEW l, SetLocals(d, l),
           \A e \in Daemons : e # d => ~Alive(e),
           l.pc \notin InQueue,
           \/ l.pc \in {"idle", "recover", "dead"}
           \/ l.now = clock
           \/ l.now = tick[d].now /\ tick[d].pc \notin {"new", "dead", "idle", "recover"},
           Shrinks(run, run'), UNCHANGED <<fire, row, base, clock>>
    PROVE  PileBody'
<1>1. tick'[d] = l /\ \A e \in Daemons : e # d => tick'[e] = tick[e]
  BY LocalsOf DEF TypeOK
<1>2. MarksKept /\ clock \in Slots /\ clock <= clock'
  BY DEF MarksKept, TypeOK, Slots
<1>3. RunsWell'
  BY <1>2, RunsWellKept DEF PileBody
<1>4. TickLeads(l, clock', row', run')
  <2>1. CASE l.now = clock
    BY <2>1 DEF PileBody, RunsWell, ClockLeads, TickLeads, Shrinks, InQueue, TypeOK, Slots
  <2>2. CASE l.now = tick[d].now /\ tick[d].pc \notin {"new", "dead", "idle", "recover"}
    BY <2>2 DEF PileBody, TickWell, TickLeads, Shrinks, InQueue
  <2>3. QED  BY <2>1, <2>2 DEF TickLeads
<1>5. WindowsAfter(l, run', fire') /\ SlotOpen(l, run', fire')
  BY DEF WindowsAfter, SlotOpen, InQueue, AtSchedule, AtSlot
<1>6. QED  BY <1>1, <1>3, <1>4, <1>5, PileSole DEF TickWell

(* Every run is its own end of a step that leaves the runs alone. *)
LEMMA ShrinksSelf == UNCHANGED run => Shrinks(run, run')
  BY DEF Shrinks

(* A sweep that fails a run ends it. *)
LEMMA FailShrinks ==
    ASSUME TypeOK, NEW x \in Key, NEW to \in {"failed", "cancelled"}, CanTransition(run[x].st, to),
           run' = [run EXCEPT ![x].st = to]
    PROVE  Shrinks(run, run')
<1>1. run \in [Key -> [st : RunStates, at : Slots]] /\ run[x].st # NoRun
  BY DEF TypeOK, CanTransition, NoRun
<1>2. run'[x].st = to /\ run'[x].at = run[x].at /\ \A y \in Key : y # x => run'[y] = run[y]
  BY <1>1
<1>3. to # NoRun /\ to \notin NonTerminal
  BY DEF NoRun, NonTerminal, InFlight
<1>4. QED  BY <1>1, <1>2, <1>3 DEF Shrinks

(* The daemon's steps outside the loop over the schedules. *)
LEMMA PileAround ==
    ASSUME SoleDaemon, TypeOK, WindowInv, PileBody, NEW d \in Daemons,
           \/ Boot(d) \/ AcquireLease(d) \/ ScanStale(d) \/ ReconcileRun(d) \/ ReconcileDone(d)
           \/ SweepError(d) \/ EndTick(d) \/ ScheduleGone(d) \/ TickError(d) \/ Crash(d)
           \/ (StartTick(d) /\ paused)
    PROVE  PileBody'
<1>a. tick[d] \in Locals /\ \A p : Rest(p).pc = p
  BY DEF TypeOK, Rest
<1>b. \A p \in {"recover", "idle", "scan", "reconcile", "list", "dead"} : p \notin InQueue
  BY DEF InQueue, AtSchedule, AtSlot
<1>c. UNCHANGED <<fire, row, base, clock>>
  BY DEF Boot, AcquireLease, ScanStale, ReconcileRun, ReconcileDone, SweepError, EndTick,
         ScheduleGone, TickError, Crash, StartTick, db, history
<1>d. \A e \in Daemons : e # d => ~Alive(e)
  <2>1. CASE Boot(d)
    BY <2>1, BootsAlone
  <2>2. CASE ~Boot(d)
    <3>1. Alive(d)
      BY <2>2 DEF AcquireLease, ScanStale, ReconcileRun, ReconcileDone, SweepError, EndTick,
                  ScheduleGone, TickError, Crash, StartTick, Alive
    <3>2. QED  BY <3>1 DEF WindowInv, OneAlive
  <2>3. QED  BY <2>1, <2>2
<1>1. CASE Boot(d)
  <2> DEFINE l == [tick[d] EXCEPT !.pc = "recover", !.todo = InFlightBefore(clock)]
  <2>1. SetLocals(d, l) /\ UNCHANGED run /\ l.pc = "recover"
    BY <1>a, <1>1, SweepFields DEF Boot, db
  <2> HIDE DEF l
  <2>2. QED  BY <1>b, <1>c, <1>d, <2>1, ShrinksSelf, PileOutside
<1>2. CASE AcquireLease(d)
  <2> DEFINE l == [tick[d] EXCEPT !.pc = "scan", !.now = clock]
  <2>1. SetLocals(d, l) /\ UNCHANGED run /\ l.pc = "scan"
    BY <1>a, <1>2, SweepFields DEF AcquireLease
  <2>2. l.now = clock
    BY <1>a DEF Locals
  <2> HIDE DEF l
  <2>3. QED  BY <1>b, <1>c, <1>d, <2>1, <2>2, ShrinksSelf, PileOutside
<1>3. CASE ScanStale(d)
  <2> DEFINE l == [tick[d] EXCEPT !.pc = "reconcile",
                                  !.todo = InFlightBefore(tick[d].now - StaleAfter)]
  <2>1. SetLocals(d, l) /\ UNCHANGED run /\ l.pc = "reconcile" /\ tick[d].pc = "scan"
    BY <1>a, <1>3, SweepFields DEF ScanStale, db
  <2>2. l.now = tick[d].now
    BY <1>a DEF Locals
  <2> HIDE DEF l
  <2>3. QED  BY <1>b, <1>c, <1>d, <2>1, <2>2, ShrinksSelf, PileOutside
<1>4. CASE ReconcileRun(d)
  <2>1. PICK x \in tick[d].todo :
          /\ SetLocals(d, [tick[d] EXCEPT !.todo = @ \ {x}])
          /\ run' = IF CanTransition(run[x].st, "failed")
                    THEN [run EXCEPT ![x].st = "failed"] ELSE run
    BY <1>4 DEF ReconcileRun
  <2>2. x \in Key
    BY <1>a, FieldsOfLocals
  <2>3. Shrinks(run, run')
    BY <2>1, <2>2, FailShrinks, ShrinksSelf
  <2> DEFINE l == [tick[d] EXCEPT !.todo = @ \ {x}]
  <2>4. SetLocals(d, l) /\ l.pc = tick[d].pc /\ l.now = tick[d].now
    BY <1>a, <2>1 DEF Locals
  <2>5. tick[d].pc \in {"recover", "reconcile"}
    BY <1>4 DEF ReconcileRun
  <2> HIDE DEF l
  <2>6. QED  BY <1>b, <1>c, <1>d, <2>3, <2>4, <2>5, PileOutside
<1>5. CASE ReconcileDone(d) \/ SweepError(d)
  <2>1. PICK l : /\ SetLocals(d, l) /\ l.now = tick[d].now
                 /\ l.pc = IF tick[d].pc = "recover" THEN "idle" ELSE "list"
    <3> DEFINE p == IF tick[d].pc = "recover" THEN "idle" ELSE "list"
               la == [tick[d] EXCEPT !.pc = p]
               lb == [tick[d] EXCEPT !.pc = p, !.todo = {}]
    <3>1. SetLocals(d, la) \/ SetLocals(d, lb)
      BY <1>5 DEF ReconcileDone, SweepError
    <3>2. la.pc = p /\ la.now = tick[d].now /\ lb.pc = p /\ lb.now = tick[d].now
      BY <1>a DEF Locals
    <3> HIDE DEF la, lb
    <3>3. QED  BY <3>1, <3>2
  <2>2. UNCHANGED run /\ tick[d].pc \in {"recover", "scan", "reconcile"}
    BY <1>5 DEF ReconcileDone, SweepError, db
  <2>3. CASE tick[d].pc = "recover"
    BY <1>b, <1>c, <1>d, <2>1, <2>2, <2>3, ShrinksSelf, PileOutside
  <2>4. CASE tick[d].pc # "recover"
    BY <1>b, <1>c, <1>d, <2>1, <2>2, <2>4, ShrinksSelf, PileOutside
  <2>5. QED  BY <2>3, <2>4
<1>6. CASE EndTick(d) \/ ScheduleGone(d) \/ TickError(d) \/ (StartTick(d) /\ paused)
  <2>1. SetLocals(d, Rest("idle")) /\ UNCHANGED run
    BY <1>6 DEF EndTick, ScheduleGone, TickError, StartTick, db
  <2>2. QED  BY <1>a, <1>b, <1>c, <1>d, <2>1, ShrinksSelf, PileOutside
<1>7. CASE Crash(d)
  <2>1. SetLocals(d, Rest("dead")) /\ UNCHANGED run
    BY <1>7 DEF Crash, db
  <2>2. QED  BY <1>a, <1>b, <1>c, <1>d, <2>1, ShrinksSelf, PileOutside
<1>8. QED  BY <1>1, <1>2, <1>3, <1>4, <1>5, <1>6, <1>7

(* The rows read at the start of a tick: no window reaches an overtaken run *)
(* that has no receipt.                                                     *)
LEMMA PileStartTick ==
    ASSUME TypeOK, IInv, WindowInv, PileBody, NEW d \in Daemons, StartTick(d), ~paused
    PROVE  PileBody'
<1>a. tick[d] \in Locals /\ tick[d].now \in Slots
  BY FieldsOfLocals DEF TypeOK
<1>b. Alive(d) /\ UNCHANGED <<fire, row, base, run, clock>> /\ tick[d].pc = "list"
  BY DEF StartTick, Alive, db, history
<1> DEFINE q == {[sid |-> s, mark |-> row[s].mark] :
                   s \in {r \in Schedules : row[r].live /\ row[r].enabled}}
           l == [tick[d] EXCEPT !.pc = "next", !.queue = q]
<1>1. SetLocals(d, l)
  BY DEF StartTick
<1>2. l.pc = "next" /\ l.queue = q /\ l.now = tick[d].now
  <2> HIDE DEF q
  <2>1. QED  BY <1>a DEF Locals
<1>3. \A o \in q : o.sid \in Schedules /\ o.mark = row[o.sid].mark
  OBVIOUS
<1> HIDE DEF l, q
<1>4. tick'[d] = l /\ \A e \in Daemons : e # d => ~Alive(e) /\ tick'[e] = tick[e]
  BY <1>b, <1>1, OthersRest
<1>5. RunsWell'
  <2>1. Shrinks(run, run') /\ MarksKept /\ clock \in Slots /\ clock <= clock'
    BY <1>b, ShrinksSelf DEF MarksKept, TypeOK, Slots
  <2>2. QED  BY <1>b, <2>1, RunsWellKept DEF PileBody
<1>6. /\ tick[d].now <= clock /\ \A x \in Key : run[x].at <= tick[d].now
      /\ \A s \in Schedules : row[s].mark <= tick[d].now
  BY <1>b DEF PileBody, TickWell, TickLeads
<1>7. TickLeads(l, clock', row', run')
  BY <1>b, <1>2, <1>3, <1>6 DEF TickLeads, AtSchedule, AtSlot
<1>8. WindowsAfter(l, run', fire')
  <2> SUFFICES ASSUME NEW s \in Schedules, NEW t \in Slots, Overtaken(run, s, t),
                      fire[<<s, t>>] = NoReceipt, NEW o \in q, o.sid = s
               PROVE  t <= StartAfter(o, tick[d].now)
    BY <1>b, <1>2 DEF WindowsAfter, AtSchedule, AtSlot
  <2>1. PICK u \in Slots : t < u /\ run[<<s, u>>].st # NoRun
    BY DEF Overtaken
  <2>2. <<s, u>> \in Key /\ run[<<s, u>>].at \in Int
    BY DEF Key, TypeOK, Slots
  <2>3. u <= run[<<s, u>>].at
    BY <2>1, <2>2 DEF IInv, RunsLatest, RunExists, Latest
  <2>4. t < tick[d].now /\ t \in Int /\ tick[d].now \in Int
    BY <1>a, <1>6, <2>1, <2>2, <2>3 DEF Slots
  <2>5. CASE row[s].mark = Null
    BY <1>3, <2>4, <2>5 DEF StartAfter
  <2>6. CASE row[s].mark # Null
    <3>1. fire[<<s, t>>] # "error"
      BY DEF NoReceipt
    <3>2. t <= base[s] /\ base[s] <= row[s].mark /\ base[s] \in Int /\ row[s].mark \in Int
      BY <2>6, <3>1 DEF PileBody, RunsWell, OvertakenUnseen, ClockLeads, TypeOK, Slots, Null
    <3>3. o.mark = row[s].mark
      BY <1>3
    <3>4. QED  BY <2>4, <2>6, <3>2, <3>3 DEF StartAfter
  <2>7. QED  BY <2>5, <2>6
<1>9. SlotOpen(l, run', fire')
  BY <1>2 DEF SlotOpen
<1>10. QED  BY <1>4, <1>5, <1>7, <1>8, <1>9, PileSole DEF TickWell

(* A receipt for a slot whose run, if there is one, is not overtaken. *)
LEMMA ReceiptWell ==
    ASSUME TypeOK, RunsWell, NEW x \in Key, NEW o \in Outcomes, RecordFire(x, o),
           UNCHANGED <<run, row, base, clock>>,
           RunExists(x) => o \in {"fired", "error"},
           fire[x] = NoReceipt => ~Overtaken(run, x[1], x[2])
    PROVE  RunsWell'
<1>1. /\ \A y \in Key : y # x => fire'[y] = fire[y]
      /\ fire'[x] = IF fire[x] = NoReceipt THEN o ELSE fire[x]
  BY DEF TypeOK, RecordFire
<1>2. RunsReceipted'
  BY <1>1 DEF RunsWell, RunsReceipted, RunExists
<1>3. OvertakenUnseen'
  <2> SUFFICES ASSUME NEW s \in Schedules, NEW t \in Slots, Overtaken(run, s, t)
               PROVE  \/ fire'[<<s, t>>] = "error"
                      \/ fire'[<<s, t>>] = NoReceipt /\ (row[s].mark = Null \/ t <= base[s])
    BY DEF OvertakenUnseen
  <2>1. <<s, t>> \in Key /\ (x = <<s, t>> => x[1] = s /\ x[2] = t)
    BY DEF Key
  <2>2. fire'[<<s, t>>] = fire[<<s, t>>]
    BY <1>1, <2>1
  <2>3. QED  BY <2>2 DEF RunsWell, OvertakenUnseen
<1>4. ClockLeads'
  BY DEF RunsWell, ClockLeads
<1>5. QED  BY <1>2, <1>3, <1>4 DEF RunsWell

(* Moving on at one schedule. *)
LEMMA AtScheduleKept ==
    ASSUME TypeOK, PileBody, NEW d \in Daemons, tick[d].pc \in AtSlot, NEW l,
           l.pc \in AtSchedule, l.sid = tick[d].sid, l.after = tick[d].after,
           l.now = tick[d].now, l.queue = tick[d].queue, l.slot = tick[d].slot,
           l.pc = "slots" => tick[d].pc = "slots" /\ l.missed \subseteq tick[d].missed,
           UNCHANGED <<run, row, clock>>, Decided(fire) \subseteq Decided(fire')
    PROVE  TickLeads(l, clock', row', run') /\ WindowsAfter(l, run', fire')
<1>1. TickLeads(tick[d], clock, row, run) /\ WindowsAfter(tick[d], run, fire)
  BY DEF PileBody, TickWell
<1>2. /\ tick[d].pc \in AtSchedule /\ tick[d].pc \in InQueue /\ l.pc \in InQueue
      /\ tick[d].pc \notin {"new", "dead", "idle", "recover"}
  BY DEF AtSchedule, InQueue, AtSlot
<1>3. TickLeads(l, clock', row', run')
  BY <1>1, <1>2 DEF TickLeads
<1>4. \A s \in Schedules : \A t \in Slots : fire'[<<s, t>>] = NoReceipt => fire[<<s, t>>] = NoReceipt
  BY DEF Decided, Key
<1>5. WindowsAfter(l, run', fire')
  BY <1>1, <1>2, <1>4 DEF WindowsAfter
<1>6. QED  BY <1>3, <1>5

(* A run in the window at hand that has no receipt is not overtaken. *)
LEMMA InWindowNotOvertaken ==
    ASSUME TypeOK, WindowInv, PileBody, NEW d \in Daemons, tick[d].pc \in AtSlot, NEW t \in Slots,
           t = tick[d].slot \/ (tick[d].pc = "slots" /\ t \in tick[d].missed),
           fire[<<tick[d].sid, t>>] = NoReceipt
    PROVE  ~Overtaken(run, tick[d].sid, t)
<1> SUFFICES ASSUME Overtaken(run, tick[d].sid, t) PROVE FALSE
  OBVIOUS
<1>1. WindowsAfter(tick[d], run, fire) /\ tick[d].after \in Int /\ t \in Int
  BY FieldsOfLocals DEF PileBody, TickWell, TypeOK, Slots
<1>2. tick[d].pc \in AtSchedule /\ tick[d].pc \in InQueue
  BY DEF AtSchedule, InQueue
<1>3. tick[d].sid \in Schedules
  BY <1>2 DEF WindowInv, WindowDecided
<1>4. t <= tick[d].after
  BY <1>1, <1>2, <1>3 DEF WindowsAfter
<1>5. tick[d].after < t
  BY <1>1 DEF WindowsAfter
<1>6. QED  BY <1>1, <1>4, <1>5

(* Taking a schedule. *)
LEMMA PileTakes ==
    ASSUME RoomForBacklog, TypeOK, WindowInv, PileBody, NEW d \in Daemons,
           InvalidSchedule(d) \/ TakeSchedule(d)
    PROVE  PileBody'
<1> DEFINE r == Stalest(tick[d].queue)
           now == tick[d].now
           after == StartAfter(r, now)
           due == DueSlots(r.sid, after, now)
           slot == IF due = {} THEN 0 ELSE Max(due)
<1>a. tick[d] \in Locals /\ now \in Slots
  BY FieldsOfLocals DEF TypeOK
<1>b. tick[d].pc = "next" /\ tick[d].queue # {} /\ UNCHANGED <<run, row, base, clock>>
  BY DEF InvalidSchedule, TakeSchedule, db, history
<1>c. Alive(d)
  BY <1>b DEF Alive
<1>1. /\ r \in tick[d].queue /\ r.sid \in Schedules /\ r.mark \in Slots \cup {Null}
      /\ after \in Int
  BY <1>b, TakenFromQueue
<1>2. /\ TickLeads(tick[d], clock, row, run) /\ WindowsAfter(tick[d], run, fire)
  BY DEF PileBody, TickWell
<1>3. tick[d].pc \in InQueue /\ tick[d].pc \notin {"new", "dead", "idle", "recover"}
  BY <1>b DEF InQueue
<1>4. after <= now
  <2>1. r.mark <= now
    BY <1>1, <1>2, <1>3 DEF TickLeads
  <2> HIDE DEF r
  <2>2. QED  BY <1>a, <1>1, <2>1 DEF StartAfter, Slots, Null
<1>5. PICK l : /\ SetLocals(d, l) /\ l.queue = tick[d].queue \ {r} /\ l.sid = r.sid
               /\ l.after = after /\ l.now = now
               /\ \/ l.pc = "advance"
                  \/ /\ l.pc = "slots" /\ due # {} /\ l.slot = Max(due) /\ l.missed \subseteq due
  <2>1. CASE InvalidSchedule(d)
    <3> DEFINE l == [tick[d] EXCEPT !.pc = "advance", !.queue = @ \ {r}, !.sid = r.sid,
                       !.after = StartAfter(r, tick[d].now),
                       !.considered = @ + Fresh(<<r.sid, tick[d].now>>)]
    <3>1. SetLocals(d, l)
      BY <2>1 DEF InvalidSchedule
    <3>2. l.queue = tick[d].queue \ {r} /\ l.sid = r.sid /\ l.after = after /\ l.now = now
          /\ l.pc = "advance"
      <4> HIDE DEF r
      <4>1. QED  BY <1>a DEF Locals
    <3> HIDE DEF l
    <3>3. QED  BY <3>1, <3>2
  <2>2. CASE TakeSchedule(d)
    <3> DEFINE l == [tick[d] EXCEPT !.pc = IF due = {} THEN "advance" ELSE "slots",
                       !.queue = @ \ {r}, !.sid = r.sid, !.after = after,
                       !.slot = slot, !.missed = due \ {slot}]
    <3>1. SetLocals(d, l)
      BY <2>2 DEF TakeSchedule
    <3>2. /\ l.queue = tick[d].queue \ {r} /\ l.sid = r.sid /\ l.after = after /\ l.now = now
          /\ l.pc = (IF due = {} THEN "advance" ELSE "slots") /\ l.slot = slot
          /\ l.missed = due \ {slot}
      <4> HIDE DEF r, due, slot, after
      <4>1. QED  BY <1>a DEF Locals
    <3> HIDE DEF l, due
    <3>3. QED  BY <3>1, <3>2
  <2>3. QED  BY <2>1, <2>2
<1>6. tick'[d] = l /\ \A e \in Daemons : e # d => ~Alive(e) /\ tick'[e] = tick[e]
  BY <1>c, <1>5, OthersRest
<1>7. RunsWell' /\ Decided(fire) \subseteq Decided(fire')
  <2>1. CASE InvalidSchedule(d)
    <3> DEFINE x == <<r.sid, now>>
    <3>1. x \in Key /\ x[1] \notin Parses /\ RecordFire(x, "invalid_schedule")
          /\ "invalid_schedule" \in Outcomes
      BY <1>a, <1>1, <2>1 DEF InvalidSchedule, Key, Outcomes
    <3> HIDE DEF x
    <3>2. ~RunExists(x)
      BY <3>1 DEF PileBody, RunsWell, RunsReceipted
    <3>3. ~Overtaken(run, x[1], x[2])
      <4>1. x = <<x[1], x[2]>>
        BY <3>1 DEF Key
      <4>2. QED  BY <3>2, <4>1 DEF Overtaken, RunExists, NonTerminal, InFlight, NoRun
    <3>4. QED  BY <1>b, <3>1, <3>2, <3>3, ReceiptWell, ReceiptDecides DEF PileBody
  <2>2. CASE TakeSchedule(d)
    <3>1. Shrinks(run, run') /\ MarksKept /\ clock \in Slots /\ clock <= clock' /\ UNCHANGED fire
      BY <1>b, <2>2, ShrinksSelf DEF MarksKept, TypeOK, Slots, TakeSchedule, db
    <3>2. QED  BY <1>b, <3>1, RunsWellKept DEF PileBody
  <2>3. QED  BY <2>1, <2>2
<1>8. due = {t \in Due[r.sid] : after < t /\ t <= now}
  BY <1>a, <1>1, WholeWindow
<1>9. due # {} => Max(due) \in due
  <2>1. due \in SUBSET Slots
    BY <1>1, <1>8
  <2> HIDE DEF due
  <2>2. QED  BY <2>1, MaxOfSlots
<1> HIDE DEF r, after, due, slot, now
<1>10. TickLeads(l, clock', row', run')
  BY <1>b, <1>2, <1>3, <1>4, <1>5 DEF TickLeads, now
<1>11. WindowsAfter(l, run', fire')
  <2>1. l.pc = "slots" => after < l.slot /\ \A t \in l.missed : after < t
    BY <1>5, <1>8, <1>9
  <2>2. ASSUME NEW s \in Schedules, NEW t \in Slots, Overtaken(run, s, t), fire[<<s, t>>] = NoReceipt
        PROVE  /\ l.sid = s => t <= l.after
               /\ \A o \in l.queue : o.sid = s => t <= StartAfter(o, l.now)
    <3>1. \A o \in tick[d].queue : o.sid = s => t <= StartAfter(o, now)
      BY <1>2, <1>3, <2>2 DEF WindowsAfter, now
    <3>2. QED  BY <1>1, <1>5, <3>1 DEF after
  <2>3. \A s \in Schedules : \A t \in Slots : fire'[<<s, t>>] = NoReceipt => fire[<<s, t>>] = NoReceipt
    BY <1>7 DEF Decided, Key
  <2>4. QED  BY <1>b, <1>5, <2>1, <2>2, <2>3 DEF WindowsAfter, AtSlot
<1>12. SlotOpen(l, run', fire')
  BY <1>5 DEF SlotOpen
<1>13. QED  BY <1>6, <1>7, <1>10, <1>11, <1>12, PileSole DEF TickWell

(* The older slots of the window. *)
LEMMA PileMissed ==
    ASSUME TypeOK, WindowInv, PileBody, NEW d \in Daemons, ConsiderMissed(d)
    PROVE  PileBody'
<1> DEFINE t == Min(tick[d].missed)
           m == <<tick[d].sid, t>>
           o == IF RunExists(m) THEN "fired" ELSE "skipped_missed"
           l == [tick[d] EXCEPT !.missed = @ \ {t}, !.considered = @ + Fresh(m),
                   !.fired = IF o = "fired" THEN @ + Fresh(m) ELSE @]
<1>a. tick[d] \in Locals /\ tick[d].missed \in SUBSET Slots
  BY FieldsOfLocals DEF TypeOK
<1>1. /\ tick[d].pc = "slots" /\ tick[d].missed # {}
      /\ RecordFire(m, o) /\ SetLocals(d, l) /\ UNCHANGED <<run, row, base, clock>>
  BY DEF ConsiderMissed, MoreMissed, history
<1>2. /\ l.pc = "slots" /\ l.queue = tick[d].queue /\ l.sid = tick[d].sid
      /\ l.after = tick[d].after /\ l.slot = tick[d].slot /\ l.now = tick[d].now
      /\ l.missed = tick[d].missed \ {t}
  <2> HIDE DEF m, t, o
  <2>1. QED  BY <1>a, <1>1 DEF Locals
<1>3. t \in tick[d].missed
  BY <1>a, <1>1, MinOfSlots
<1>4. tick[d].sid \in Schedules
  BY <1>1 DEF WindowInv, WindowDecided, AtSchedule, AtSlot
<1>5. m \in Key /\ o \in Outcomes /\ m[1] = tick[d].sid /\ m[2] = t
  BY <1>a, <1>3, <1>4 DEF Key, Outcomes
<1>6. RunExists(m) => o \in {"fired", "error"}
  OBVIOUS
<1> HIDE DEF l, o, t
<1>7. fire[m] = NoReceipt => ~Overtaken(run, m[1], m[2])
  BY <1>a, <1>1, <1>3, <1>5, InWindowNotOvertaken DEF AtSlot
<1> HIDE DEF m
<1>8. RunsWell' /\ Decided(fire) \subseteq Decided(fire')
  BY <1>1, <1>5, <1>6, <1>7, ReceiptWell, ReceiptDecides DEF PileBody
<1>9. tick'[d] = l /\ \A e \in Daemons : e # d => ~Alive(e) /\ tick'[e] = tick[e]
  BY <1>1, OthersRest DEF Alive
<1>10. TickLeads(l, clock', row', run') /\ WindowsAfter(l, run', fire')
  BY <1>1, <1>2, <1>8, AtScheduleKept DEF AtSlot, AtSchedule
<1>11. SlotOpen(l, run', fire')
  BY <1>2 DEF SlotOpen
<1>12. QED  BY <1>8, <1>9, <1>10, <1>11, PileSole DEF TickWell

(* The runs of the schedule at hand whose receipt says "fired" were started  *)
(* for slots up to the one at hand, and only the latest of them can be live. *)
LEMMA FiredBefore ==
    ASSUME TypeOK, IInv, WindowInv, PileBody, NEW d \in Daemons, tick[d].pc = "slots",
           fire[RunId(d)] = NoReceipt, NEW t \in Slots, fire[<<tick[d].sid, t>>] = "fired"
    PROVE  /\ t < tick[d].slot /\ t <= Max(FiredSlots(tick[d].sid))
           /\ run[<<tick[d].sid, t>>].st \in NonTerminal =>
                t = Max(FiredSlots(tick[d].sid)) /\ ~RunExists(RunId(d))
<1> DEFINE s == tick[d].sid
           x == <<s, t>>
           m == Max(FiredSlots(s))
<1>a. s \in Schedules /\ tick[d].slot \in Slots /\ tick[d].now \in Slots
  BY FieldsOfLocals DEF WindowInv, WindowDecided, AtSchedule, AtSlot, TypeOK
<1>b. x \in Key /\ RunId(d) = <<s, tick[d].slot>>
  BY <1>a DEF Key, RunId
<1>1. RunExists(x)
  BY <1>b DEF IInv, FiredReceiptHasRun
<1>2. Latest(s, t, run[x].at) /\ run[x].at <= tick[d].now /\ run[x].at \in Int
  <2>1. x[1] = s /\ x[2] = t
    OBVIOUS
  <2>2. Latest(x[1], x[2], run[x].at)
    BY <1>b, <1>1 DEF IInv, RunsLatest
  <2>3. run[x].at <= tick[d].now
    BY <1>b DEF PileBody, TickWell, TickLeads
  <2>4. run[x].at \in Int
    BY <1>b DEF TypeOK, Slots
  <2>5. QED  BY <2>1, <2>2, <2>3, <2>4
<1>3. Latest(s, tick[d].slot, tick[d].now)
  BY DEF IInv, LocalInv
<1>4. t <= tick[d].slot
  <2>1. t \in Due[s] /\ t <= tick[d].now
    BY <1>a, <1>2 DEF Latest, Slots
  <2>2. QED  BY <1>a, <1>3, <2>1 DEF Latest, Slots
<1>5. t # tick[d].slot
  BY <1>b DEF NoReceipt
<1>6. m \in FiredSlots(s) /\ t <= m /\ m \in Slots
  <2>1. FiredSlots(s) \in SUBSET Slots /\ t \in FiredSlots(s)
    BY DEF FiredSlots
  <2>2. QED  BY <2>1, MaxOfSlots
<1>7. ASSUME run[x].st \in NonTerminal, t # m PROVE FALSE
  <2>1. t < m
    BY <1>6, <1>7 DEF Slots
  <2>2. fire[<<s, m>>] = "fired" /\ <<s, m>> \in Key
    BY <1>a, <1>6 DEF FiredSlots, Key
  <2>3. RunExists(<<s, m>>)
    BY <2>2 DEF IInv, FiredReceiptHasRun
  <2>4. Overtaken(run, s, t)
    BY <1>6, <1>7, <2>1, <2>3 DEF Overtaken, RunExists
  <2>5. QED  BY <1>a, <2>4 DEF PileBody, RunsWell, OvertakenUnseen, NoReceipt
<1>8. ASSUME run[x].st \in NonTerminal, RunExists(RunId(d)) PROVE FALSE
  <2>1. t < tick[d].slot
    BY <1>a, <1>4, <1>5 DEF Slots
  <2>2. Overtaken(run, s, t)
    BY <1>a, <1>b, <1>8, <2>1 DEF Overtaken, RunExists
  <2>3. QED  BY <1>a, <2>2 DEF PileBody, RunsWell, OvertakenUnseen, NoReceipt
<1>9. QED  BY <1>a, <1>4, <1>5, <1>6, <1>7, <1>8 DEF Slots

(* The decisions about the latest slot. *)
LEMMA PileDecide ==
    ASSUME RoomForBacklog, TypeOK, IInv, WindowInv, PileBody, NEW d \in Daemons,
           \/ AlreadyConsidered(d) \/ SkipPreviousAwaiting(d) \/ HealOrphan(d) \/ ChooseDispatch(d)
    PROVE  PileBody'
<1>a. tick[d] \in Locals
  BY DEF TypeOK
<1>b. Deciding(d) /\ UNCHANGED <<run, row, base, clock>>
  BY DEF AlreadyConsidered, SkipPreviousAwaiting, HealOrphan, ChooseDispatch, MayFire, db, history
<1>c. tick[d].pc = "slots" /\ tick[d].missed = {} /\ RunId(d) \in Key /\ Alive(d)
  BY <1>b, BacklogDone DEF Alive
<1>d. tick[d].slot \in Slots /\ RunId(d)[1] = tick[d].sid /\ RunId(d)[2] = tick[d].slot
      /\ RunId(d) = <<tick[d].sid, tick[d].slot>>
  BY <1>a, FieldsOfLocals DEF RunId
<1>e. fire[RunId(d)] = NoReceipt => ~Overtaken(run, RunId(d)[1], RunId(d)[2])
  BY <1>c, <1>d, InWindowNotOvertaken DEF AtSlot
<1>1. CASE AlreadyConsidered(d) \/ ChooseDispatch(d)
  <2>1. PICK p \in {"advance", "dispatch"} :
          /\ SetLocals(d, [tick[d] EXCEPT !.pc = p]) /\ UNCHANGED fire
          /\ p = "dispatch" => MayFire(d) /\ ~RunExists(RunId(d))
    BY <1>1 DEF AlreadyConsidered, ChooseDispatch, db
  <2> DEFINE l == [tick[d] EXCEPT !.pc = p]
  <2>2. /\ l.pc = p /\ l.queue = tick[d].queue /\ l.sid = tick[d].sid
        /\ l.after = tick[d].after /\ l.slot = tick[d].slot /\ l.now = tick[d].now
        /\ SetLocals(d, l)
    BY <1>a, <2>1 DEF Locals
  <2> HIDE DEF l
  <2>3. tick'[d] = l /\ \A e \in Daemons : e # d => ~Alive(e) /\ tick'[e] = tick[e]
    BY <1>c, <2>2, OthersRest
  <2>4. RunsWell'
    <3>1. Shrinks(run, run') /\ MarksKept /\ clock \in Slots /\ clock <= clock'
      BY <1>b, ShrinksSelf DEF MarksKept, TypeOK, Slots
    <3>2. QED  BY <1>b, <2>1, <3>1, RunsWellKept DEF PileBody
  <2>5. TickLeads(l, clock', row', run') /\ WindowsAfter(l, run', fire')
    BY <1>b, <1>c, <2>1, <2>2, AtScheduleKept DEF AtSlot, AtSchedule
  <2>6. SlotOpen(l, run', fire')
    <3>1. CASE p = "advance"
      BY <2>2, <3>1 DEF SlotOpen
    <3>2. CASE p = "dispatch"
      <4>1. fire[RunId(d)] = NoReceipt /\ ~PreviousFireNonTerminal(tick[d].sid)
            /\ run[RunId(d)].st = NoRun
        BY <2>1, <3>2 DEF MayFire, RunExists
      <4>2. ASSUME NEW t \in Slots, fire[<<tick[d].sid, t>>] = "fired",
                   run[<<tick[d].sid, t>>].st \in NonTerminal
            PROVE  FALSE
        <5>1. t = Max(FiredSlots(tick[d].sid)) /\ t \in FiredSlots(tick[d].sid)
          BY <1>c, <4>1, <4>2, FiredBefore DEF FiredSlots
        <5>2. QED  BY <4>1, <4>2, <5>1 DEF PreviousFireNonTerminal
      <4>3. QED  BY <1>b, <1>d, <2>1, <2>2, <3>2, <4>1, <4>2 DEF SlotOpen
    <3>3. QED  BY <3>1, <3>2
  <2>7. QED  BY <2>3, <2>4, <2>5, <2>6, PileSole DEF TickWell
<1>2. CASE SkipPreviousAwaiting(d) \/ HealOrphan(d)
  <2>1. PICK o \in {"fired", "skipped_previous_awaiting"} :
          /\ fire[RunId(d)] = NoReceipt /\ RecordFire(RunId(d), o)
          /\ o = "fired" \/ PreviousFireNonTerminal(tick[d].sid)
    BY <1>2 DEF SkipPreviousAwaiting, HealOrphan, MayFire
  <2>2. PICK l : /\ SetLocals(d, l) /\ l.pc = "advance" /\ l.queue = tick[d].queue
                 /\ l.sid = tick[d].sid /\ l.after = tick[d].after /\ l.slot = tick[d].slot
                 /\ l.now = tick[d].now
    <3>1. CASE SkipPreviousAwaiting(d)
      <4> DEFINE l == [tick[d] EXCEPT !.pc = "advance", !.considered = @ + 1]
      <4>1. /\ SetLocals(d, l) /\ l.pc = "advance" /\ l.queue = tick[d].queue
            /\ l.sid = tick[d].sid /\ l.after = tick[d].after /\ l.slot = tick[d].slot
            /\ l.now = tick[d].now
        BY <1>a, <3>1 DEF SkipPreviousAwaiting, Locals
      <4> HIDE DEF l
      <4>2. QED  BY <4>1
    <3>2. CASE HealOrphan(d)
      <4> DEFINE l == [tick[d] EXCEPT !.pc = "advance", !.considered = @ + 1, !.fired = @ + 1]
      <4>1. /\ SetLocals(d, l) /\ l.pc = "advance" /\ l.queue = tick[d].queue
            /\ l.sid = tick[d].sid /\ l.after = tick[d].after /\ l.slot = tick[d].slot
            /\ l.now = tick[d].now
        BY <1>a, <3>2 DEF HealOrphan, Locals
      <4> HIDE DEF l
      <4>2. QED  BY <4>1
    <3>3. QED  BY <1>2, <3>1, <3>2
  <2>3. RunExists(RunId(d)) => o \in {"fired", "error"}
    <3> SUFFICES ASSUME RunExists(RunId(d)), PreviousFireNonTerminal(tick[d].sid) PROVE FALSE
      BY <2>1
    <3> DEFINE m == Max(FiredSlots(tick[d].sid))
    <3>1. m \in FiredSlots(tick[d].sid) /\ m \in Slots
      <4>1. FiredSlots(tick[d].sid) \in SUBSET Slots /\ FiredSlots(tick[d].sid) # {}
        BY DEF FiredSlots, PreviousFireNonTerminal
      <4>2. QED  BY <4>1, MaxOfSlots
    <3>2. fire[<<tick[d].sid, m>>] = "fired" /\ run[<<tick[d].sid, m>>].st \in NonTerminal
      BY <3>1 DEF FiredSlots, PreviousFireNonTerminal
    <3> HIDE DEF m
    <3>3. QED  BY <1>c, <2>1, <3>1, <3>2, FiredBefore
  <2>4. RunsWell' /\ Decided(fire) \subseteq Decided(fire')
    BY <1>b, <1>c, <1>e, <2>1, <2>3, ReceiptWell, ReceiptDecides DEF PileBody, Outcomes
  <2>5. tick'[d] = l /\ \A e \in Daemons : e # d => ~Alive(e) /\ tick'[e] = tick[e]
    BY <1>c, <2>2, OthersRest
  <2>6. TickLeads(l, clock', row', run') /\ WindowsAfter(l, run', fire')
    BY <1>b, <1>c, <2>2, <2>4, AtScheduleKept DEF AtSlot, AtSchedule
  <2>7. SlotOpen(l, run', fire')
    BY <2>2 DEF SlotOpen
  <2>8. QED  BY <2>4, <2>5, <2>6, <2>7, PileSole DEF TickWell
<1>3. QED  BY <1>1, <1>2


(* Writing the run of the slot at hand overtakes only runs that the tick's    *)
(* windows do not reach, or whose receipt says "error".                       *)
LEMMA NewlyOvertaken ==
    ASSUME TypeOK, IInv, WindowInv, PileBody, NEW d \in Daemons,
           tick[d].pc \in {"dispatch", "start", "engine"}, NEW q, q # NoRun,
           run' = [run EXCEPT ![RunId(d)] = [st |-> q, at |-> tick[d].now]],
           NEW s \in Schedules, NEW t \in Slots, Overtaken(run', s, t), ~Overtaken(run, s, t)
    PROVE  /\ s = tick[d].sid /\ t \in Due[s] /\ s \in Parses
           /\ fire[<<s, t>>] = "error" \/ (fire[<<s, t>>] = NoReceipt /\ t <= tick[d].after)
<1> DEFINE l == tick[d]
<1>a. /\ l.slot \in Slots /\ l.now \in Slots /\ l.after \in Int
      /\ l.pc \in AtSlot /\ l.pc \in AtSchedule
  BY FieldsOfLocals DEF TypeOK, AtSlot, AtSchedule
<1>b. l.sid \in Schedules /\ l.sid \in Parses
  BY <1>a DEF WindowInv, WindowDecided
<1>c. RunId(d) \in Key /\ RunId(d) = <<l.sid, l.slot>>
  BY <1>a, <1>b DEF Key, RunId
<1>d. Latest(l.sid, l.slot, l.now)
  BY DEF IInv, LocalInv
<1>e. \A v \in Slots : <<s, v>> \in Key
  BY DEF Key
<1>f. \A x \in Key : x # RunId(d) => run'[x] = run[x]
  BY <1>c DEF TypeOK
<1>1. PICK u \in Slots : t < u /\ run'[<<s, u>>].st # NoRun
  BY DEF Overtaken
<1>2. <<s, t>> # RunId(d)
  <2> SUFFICES ASSUME s = l.sid, t = l.slot PROVE FALSE
    BY <1>c
  <2>1. <<s, u>> # RunId(d) /\ u \in Int /\ t \in Int /\ l.now \in Int
    BY <1>a, <1>1, <1>c DEF Slots
  <2>2. RunExists(<<s, u>>) /\ run[<<s, u>>].at \in Int
    BY <1>1, <1>e, <1>f, <2>1 DEF RunExists, TypeOK, Slots
  <2>3. Latest(s, u, run[<<s, u>>].at)
    <3>1. <<s, u>>[1] = s /\ <<s, u>>[2] = u
      OBVIOUS
    <3>2. Latest(<<s, u>>[1], <<s, u>>[2], run[<<s, u>>].at)
      BY <1>e, <2>2 DEF IInv, RunsLatest
    <3>3. QED  BY <3>1, <3>2
  <2>4. run[<<s, u>>].at <= l.now
    BY <1>e DEF PileBody, TickWell, TickLeads
  <2>5. u \in Due[s] /\ u <= l.now
    BY <2>1, <2>2, <2>3, <2>4 DEF Latest
  <2>6. QED  BY <1>1, <1>d, <2>5 DEF Latest
<1>3. run[<<s, t>>].st \in NonTerminal
  BY <1>2, <1>e, <1>f DEF Overtaken
<1>4. <<s, u>> = RunId(d) /\ run[<<s, u>>].st = NoRun
  <2>1. run[<<s, u>>].st = NoRun
    BY <1>1, <1>3 DEF Overtaken
  <2>2. QED  BY <1>1, <1>e, <1>f, <2>1
<1>5. s = l.sid /\ u = l.slot /\ l.pc = "dispatch"
  <2>1. s = l.sid /\ u = l.slot
    BY <1>4, <1>c
  <2>2. l.pc \notin {"start", "engine"}
    BY <1>4, <2>1 DEF IInv, LocalInv
  <2>3. QED  BY <2>1, <2>2
<1>6. RunExists(<<s, t>>)
  BY <1>3 DEF RunExists, NonTerminal, InFlight, NoRun
<1>7. t \in Due[s] /\ t <= l.now
  <2>1. Latest(<<s, t>>[1], <<s, t>>[2], run[<<s, t>>].at) /\ run[<<s, t>>].at <= l.now
    BY <1>6, <1>e DEF IInv, RunsLatest, PileBody, TickWell, TickLeads
  <2>2. run[<<s, t>>].at \in Int /\ t \in Int /\ l.now \in Int
    BY <1>a, <1>e DEF TypeOK, Slots
  <2>3. QED  BY <2>1, <2>2 DEF Latest
<1>8. fire[<<s, t>>] \in {NoReceipt, "fired", "error"}
  BY <1>6, <1>e DEF PileBody, RunsWell, RunsReceipted
<1>9. fire[<<s, t>>] # "fired"
  BY <1>3, <1>5 DEF PileBody, TickWell, SlotOpen
<1>10. ASSUME fire[<<s, t>>] = NoReceipt PROVE t <= l.after
  <2> SUFFICES ASSUME l.after < t PROVE FALSE
    BY <1>a DEF Slots
  <2>1. t # l.slot /\ l.pc # "slots"
    BY <1>1, <1>5, <1>a DEF Slots
  <2>2. QED  BY <1>5, <1>7, <1>10, <1>a, <1>b, <2>1 DEF WindowInv, WindowDecided
<1>11. QED  BY <1>5, <1>7, <1>8, <1>9, <1>10, <1>b

(* The dispatch writes the run of the slot at hand. *)
LEMMA RunWriteWell ==
    ASSUME TypeOK, IInv, WindowInv, PileBody, NEW d \in Daemons,
           tick[d].pc \in {"dispatch", "start", "engine"}, NEW q, q # NoRun,
           run' = [run EXCEPT ![RunId(d)] = [st |-> q, at |-> tick[d].now]],
           UNCHANGED <<fire, row, base, clock>>
    PROVE  RunsWell'
<1> DEFINE l == tick[d]
<1>a. /\ l.slot \in Slots /\ l.now \in Slots /\ l.after \in Int
      /\ l.pc \in AtSlot /\ l.pc \in AtSchedule
  BY FieldsOfLocals DEF TypeOK, AtSlot, AtSchedule
<1>b. l.sid \in Schedules /\ l.sid \in Parses
  BY <1>a DEF WindowInv, WindowDecided
<1>c. RunId(d) \in Key /\ RunId(d) = <<l.sid, l.slot>> /\ RunId(d)[1] = l.sid
  BY <1>a, <1>b DEF Key, RunId
<1>d. run'[RunId(d)].at = l.now /\ \A x \in Key : x # RunId(d) => run'[x] = run[x]
  BY <1>c DEF TypeOK
<1>1. RunsReceipted'
  <2>1. fire[RunId(d)] = NoReceipt
    BY <1>c DEF PileBody, TickWell, SlotOpen
  <2>2. QED  BY <1>b, <1>c, <1>d, <2>1 DEF PileBody, RunsWell, RunsReceipted, RunExists
<1>2. OvertakenUnseen'
  <2> SUFFICES ASSUME NEW s \in Schedules, NEW t \in Slots, Overtaken(run', s, t)
               PROVE  \/ fire[<<s, t>>] = "error"
                      \/ fire[<<s, t>>] = NoReceipt /\ (row[s].mark = Null \/ t <= base[s])
    BY DEF OvertakenUnseen
  <2>1. CASE Overtaken(run, s, t)
    BY <2>1 DEF PileBody, RunsWell, OvertakenUnseen
  <2>2. CASE ~Overtaken(run, s, t)
    <3>1. /\ s = l.sid /\ t \in Due[s] /\ s \in Parses
          /\ fire[<<s, t>>] = "error" \/ (fire[<<s, t>>] = NoReceipt /\ t <= l.after)
      BY <2>2, NewlyOvertaken
    <3>2. ASSUME fire[<<s, t>>] = NoReceipt, t <= l.after, row[s].mark # Null
          PROVE  t <= base[s]
      <4>1. row[s].mark = l.after /\ row[s].live
        BY <1>a, <3>1, <3>2 DEF WindowInv, WindowDecided, MarkedIsLive
      <4>2. ~(base[s] < t)
        BY <3>1, <3>2, <4>1 DEF WindowInv, NoSlotLost
      <4>3. base[s] \in Int /\ t \in Int
        BY DEF TypeOK, Slots
      <4>4. QED  BY <4>2, <4>3
    <3>3. QED  BY <3>1, <3>2
  <2>3. QED  BY <2>1, <2>2
<1>3. ClockLeads'
  <2>1. l.now <= clock
    BY DEF PileBody, TickWell, TickLeads
  <2>2. QED  BY <1>d, <2>1 DEF PileBody, RunsWell, ClockLeads
<1>4. QED  BY <1>1, <1>2, <1>3 DEF RunsWell

(* The tick around such a write. *)
LEMMA PileRunWrites ==
    ASSUME TypeOK, IInv, WindowInv, PileBody, NEW d \in Daemons,
           tick[d].pc \in {"dispatch", "start", "engine"}, NEW q, q # NoRun,
           run' = [run EXCEPT ![RunId(d)] = [st |-> q, at |-> tick[d].now]],
           UNCHANGED <<fire, row, base, clock>>, NEW l, SetLocals(d, l),
           l.pc \in {"start", "engine"} \/ (l.pc = "receipt" /\ l.out = "fired"),
           l.sid = tick[d].sid, l.after = tick[d].after, l.now = tick[d].now,
           l.queue = tick[d].queue, l.slot = tick[d].slot
    PROVE  PileBody'
<1>a. /\ tick[d].slot \in Slots /\ tick[d].now \in Slots /\ tick[d].pc \in AtSlot
      /\ tick[d].pc \in AtSchedule /\ tick[d].pc \in InQueue
      /\ l.pc \in AtSlot /\ l.pc \in AtSchedule /\ l.pc \in InQueue
      /\ tick[d].pc \notin {"new", "dead", "idle", "recover"}
  BY FieldsOfLocals DEF TypeOK, AtSlot, AtSchedule, InQueue
<1>b. tick[d].sid \in Schedules
  BY <1>a DEF WindowInv, WindowDecided
<1>c. RunId(d) \in Key /\ RunId(d) = <<tick[d].sid, tick[d].slot>>
  BY <1>a, <1>b DEF Key, RunId
<1>d. run'[RunId(d)].at = l.now /\ \A x \in Key : x # RunId(d) => run'[x] = run[x]
  BY <1>c DEF TypeOK
<1>e. TickLeads(tick[d], clock, row, run) /\ WindowsAfter(tick[d], run, fire)
      /\ SlotOpen(tick[d], run, fire)
  BY DEF PileBody, TickWell
<1>1. RunsWell'
  BY RunWriteWell
<1>2. tick'[d] = l /\ \A e \in Daemons : e # d => ~Alive(e) /\ tick'[e] = tick[e]
  BY OthersRest DEF Alive
<1>3. TickLeads(l, clock', row', run')
  <2>1. \A x \in Key : run'[x].at <= l.now
    BY <1>a, <1>d, <1>e DEF TickLeads, Slots
  <2>2. QED  BY <1>a, <1>e, <2>1 DEF TickLeads
<1>4. WindowsAfter(l, run', fire')
  <2>1. ASSUME NEW s \in Schedules, NEW t \in Slots, Overtaken(run', s, t), fire[<<s, t>>] = NoReceipt
        PROVE  /\ l.sid = s => t <= l.after
               /\ \A o \in l.queue : o.sid = s => t <= StartAfter(o, l.now)
    <3>1. CASE Overtaken(run, s, t)
      BY <1>a, <1>e, <2>1, <3>1 DEF WindowsAfter
    <3>2. CASE ~Overtaken(run, s, t)
      <4>1. s = tick[d].sid /\ t <= tick[d].after
        BY <2>1, <3>2, NewlyOvertaken DEF NoReceipt
      <4>2. \A o \in tick[d].queue : o.sid # s
        BY <1>a, <4>1 DEF WindowInv, QueueCurrent
      <4>3. QED  BY <4>1, <4>2
    <3>3. QED  BY <3>1, <3>2
  <2>2. l.after < l.slot /\ l.pc # "slots"
    BY <1>a, <1>e DEF WindowsAfter
  <2>3. QED  BY <2>1, <2>2 DEF WindowsAfter
<1>5. SlotOpen(l, run', fire')
  BY <1>e DEF SlotOpen
<1>6. QED  BY <1>1, <1>2, <1>3, <1>4, <1>5, PileSole DEF TickWell

(* The end of a dispatch that wrote nothing. *)
LEMMA PileSettle ==
    ASSUME TypeOK, WindowInv, PileBody, NEW d \in Daemons,
           tick[d].pc \in {"dispatch", "start", "engine"}, NEW o, Settle(d, o),
           o = "error" \/ tick[d].pc = "dispatch", UNCHANGED <<fire, row, base, clock, run>>
    PROVE  PileBody'
<1> DEFINE l == [tick[d] EXCEPT !.pc = "receipt", !.out = o]
<1>1. /\ SetLocals(d, l) /\ l.pc = "receipt" /\ l.out = o /\ l.queue = tick[d].queue
      /\ l.sid = tick[d].sid /\ l.after = tick[d].after /\ l.slot = tick[d].slot
      /\ l.now = tick[d].now
  BY DEF Settle, TypeOK, Locals
<1> HIDE DEF l
<1>2. tick'[d] = l /\ \A e \in Daemons : e # d => ~Alive(e) /\ tick'[e] = tick[e]
  BY <1>1, OthersRest DEF Alive
<1>3. RunsWell'
  <2>1. Shrinks(run, run') /\ MarksKept /\ clock \in Slots /\ clock <= clock'
    BY ShrinksSelf DEF MarksKept, TypeOK, Slots
  <2>2. QED  BY <2>1, RunsWellKept DEF PileBody
<1>4. TickLeads(l, clock', row', run') /\ WindowsAfter(l, run', fire')
  BY <1>1, AtScheduleKept DEF AtSlot, AtSchedule
<1>5. SlotOpen(l, run', fire')
  <2>1. SlotOpen(tick[d], run, fire)
    BY DEF PileBody, TickWell
  <2>2. QED  BY <1>1, <2>1 DEF SlotOpen
<1>6. QED  BY <1>2, <1>3, <1>4, <1>5, PileSole DEF TickWell

(* The dispatch of the slot at hand. *)
LEMMA PileDispatch ==
    ASSUME TypeOK, IInv, WindowInv, PileBody, NEW d \in Daemons,
           \/ NoPublishedVersion(d) \/ CreateRun(d) \/ DuplicateRun(d) \/ StartRun(d)
           \/ \E end \in {"done", "failed", "awaiting_checkpoint"} : FinishRun(d, end)
           \/ DispatchError(d)
    PROVE  PileBody'
<1>a. tick[d] \in Locals
  BY DEF TypeOK
<1>1. CASE NoPublishedVersion(d) \/ DuplicateRun(d) \/ DispatchError(d)
  BY <1>1, PileSettle DEF NoPublishedVersion, DuplicateRun, DispatchError, db, history
<1>2. CASE CreateRun(d)
  <2> DEFINE l == [tick[d] EXCEPT !.pc = "start", !.dispatched = @ + 1]
  <2>1. /\ SetLocals(d, l) /\ l.pc = "start" /\ l.queue = tick[d].queue
        /\ l.sid = tick[d].sid /\ l.after = tick[d].after /\ l.slot = tick[d].slot
        /\ l.now = tick[d].now
    BY <1>2, <1>a DEF CreateRun, Locals
  <2> HIDE DEF l
  <2>2. /\ run' = [run EXCEPT ![RunId(d)] = [st |-> "pending", at |-> tick[d].now]]
        /\ UNCHANGED <<fire, row, base, clock>> /\ tick[d].pc = "dispatch" /\ "pending" # NoRun
    BY <1>2 DEF CreateRun, history, NoRun
  <2>3. QED  BY <2>1, <2>2, PileRunWrites
<1>3. CASE StartRun(d)
  <2>1. CASE CanTransition(run[RunId(d)].st, "running")
    <3> DEFINE l == [tick[d] EXCEPT !.pc = "engine"]
    <3>1. /\ SetLocals(d, l) /\ l.pc = "engine" /\ l.queue = tick[d].queue
          /\ l.sid = tick[d].sid /\ l.after = tick[d].after /\ l.slot = tick[d].slot
          /\ l.now = tick[d].now
      BY <1>3, <1>a, <2>1 DEF StartRun, Locals
    <3> HIDE DEF l
    <3>2. /\ run' = [run EXCEPT ![RunId(d)] = [st |-> "running", at |-> tick[d].now]]
          /\ UNCHANGED <<fire, row, base, clock>> /\ tick[d].pc = "start" /\ "running" # NoRun
      BY <1>3, <2>1 DEF StartRun, NoRun
    <3>3. QED  BY <3>1, <3>2, PileRunWrites
  <2>2. CASE ~CanTransition(run[RunId(d)].st, "running")
    BY <1>3, <2>2, PileSettle DEF StartRun
  <2>3. QED  BY <2>1, <2>2
<1>4. ASSUME NEW end \in {"done", "failed", "awaiting_checkpoint"}, FinishRun(d, end)
      PROVE  PileBody'
  <2>1. CASE CanTransition(run[RunId(d)].st, end)
    <3> DEFINE l == [tick[d] EXCEPT !.pc = "receipt", !.out = "fired"]
    <3>1. /\ SetLocals(d, l) /\ l.pc = "receipt" /\ l.out = "fired" /\ l.queue = tick[d].queue
          /\ l.sid = tick[d].sid /\ l.after = tick[d].after /\ l.slot = tick[d].slot
          /\ l.now = tick[d].now
      BY <1>4, <1>a, <2>1 DEF FinishRun, Settle, Locals
    <3> HIDE DEF l
    <3>2. /\ run' = [run EXCEPT ![RunId(d)] = [st |-> end, at |-> tick[d].now]]
          /\ UNCHANGED <<fire, row, base, clock>> /\ tick[d].pc = "engine" /\ end # NoRun
      BY <1>4, <2>1 DEF FinishRun, NoRun, history
    <3>3. QED  BY <3>1, <3>2, PileRunWrites
  <2>2. CASE ~CanTransition(run[RunId(d)].st, end)
    BY <1>4, <2>2, PileSettle DEF FinishRun, history
  <2>3. QED  BY <2>1, <2>2
<1>5. QED  BY <1>1, <1>2, <1>3, <1>4

(* The receipt of the slot at hand. *)
LEMMA PileReceipt ==
    ASSUME TypeOK, WindowInv, PileBody, NEW d \in Daemons, RecordOutcome(d)
    PROVE  PileBody'
<1> DEFINE x == RunId(d)
           o == tick[d].out
           l == [tick[d] EXCEPT !.pc = "advance", !.considered = @ + Fresh(RunId(d)),
                   !.fired = IF tick[d].out = "fired" THEN @ + Fresh(RunId(d)) ELSE @]
<1>a. tick[d] \in Locals /\ tick[d].slot \in Slots
  BY FieldsOfLocals DEF TypeOK
<1>b. /\ tick[d].pc = "receipt" /\ RecordFire(x, o) /\ SetLocals(d, l)
      /\ UNCHANGED <<run, row, base, clock>>
  BY DEF RecordOutcome, history
<1>c. tick[d].sid \in Schedules /\ o \in Outcomes
  BY <1>b DEF WindowInv, WindowDecided, AtSchedule, AtSlot
<1>d. x \in Key /\ x = <<tick[d].sid, tick[d].slot>> /\ x[1] = tick[d].sid /\ x[2] = tick[d].slot
  BY <1>a, <1>c DEF Key, RunId
<1>1. /\ l.pc = "advance" /\ l.queue = tick[d].queue /\ l.sid = tick[d].sid
      /\ l.after = tick[d].after /\ l.slot = tick[d].slot /\ l.now = tick[d].now
  BY <1>a DEF Locals
<1> HIDE DEF l
<1>2. RunExists(x) => o \in {"fired", "error"}
  BY <1>b, <1>d DEF PileBody, TickWell, SlotOpen, RunExists
<1>3. fire[x] = NoReceipt => ~Overtaken(run, x[1], x[2])
  BY <1>a, <1>b, <1>d, InWindowNotOvertaken DEF AtSlot
<1> HIDE DEF x, o
<1>4. RunsWell' /\ Decided(fire) \subseteq Decided(fire')
  BY <1>b, <1>c, <1>d, <1>2, <1>3, ReceiptWell, ReceiptDecides DEF PileBody
<1>5. tick'[d] = l /\ \A e \in Daemons : e # d => ~Alive(e) /\ tick'[e] = tick[e]
  BY <1>b, OthersRest DEF Alive
<1>6. TickLeads(l, clock', row', run') /\ WindowsAfter(l, run', fire')
  BY <1>b, <1>1, <1>4, AtScheduleKept DEF AtSlot, AtSchedule
<1>7. SlotOpen(l, run', fire')
  BY <1>1 DEF SlotOpen
<1>8. QED  BY <1>4, <1>5, <1>6, <1>7, PileSole DEF TickWell

(* Back to the loop over the schedules. *)
LEMMA PileNext ==
    ASSUME TypeOK, WindowInv, PileBody, NEW d \in Daemons, tick[d].pc \in AtSchedule,
           NextSchedule(d), UNCHANGED <<run, fire, clock>>, RunsWell',
           \A s \in Schedules : row'[s].mark <= tick[d].now
    PROVE  PileBody'
<1> DEFINE l == [tick[d] EXCEPT !.pc = "next", !.sid = 0, !.after = Null,
                         !.missed = {}, !.slot = 0, !.out = NoReceipt]
<1>1. SetLocals(d, l) /\ l.pc = "next" /\ l.queue = tick[d].queue /\ l.now = tick[d].now
  BY DEF NextSchedule, TypeOK, Locals
<1> HIDE DEF l
<1>2. /\ tick[d].pc \in InQueue /\ l.pc \in InQueue /\ l.pc \notin AtSchedule /\ Alive(d)
      /\ tick[d].pc \notin {"new", "dead", "idle", "recover"}
  BY <1>1 DEF InQueue, AtSchedule, AtSlot, Alive
<1>3. tick'[d] = l /\ \A e \in Daemons : e # d => ~Alive(e) /\ tick'[e] = tick[e]
  BY <1>1, <1>2, OthersRest
<1>4. TickLeads(tick[d], clock, row, run) /\ WindowsAfter(tick[d], run, fire)
  BY DEF PileBody, TickWell
<1>5. TickLeads(l, clock', row', run')
  BY <1>1, <1>2, <1>4 DEF TickLeads
<1>6. WindowsAfter(l, run', fire')
  BY <1>1, <1>2, <1>4 DEF WindowsAfter, AtSchedule
<1>7. SlotOpen(l, run', fire')
  BY <1>1 DEF SlotOpen
<1>8. QED  BY <1>3, <1>5, <1>6, <1>7, PileSole DEF TickWell

(* A deferred slot. *)
LEMMA PileDefer ==
    ASSUME TypeOK, WindowInv, PileBody, NEW d \in Daemons, DeferSlot(d)
    PROVE  PileBody'
<1>1. tick[d].pc = "slots" /\ NextSchedule(d) /\ UNCHANGED <<run, row, base, fire, clock>>
  BY DEF DeferSlot, MayFire, Deciding, db
<1>2. RunsWell'
  <2>1. Shrinks(run, run') /\ MarksKept /\ clock \in Slots /\ clock <= clock'
    BY <1>1, ShrinksSelf DEF MarksKept, TypeOK, Slots
  <2>2. QED  BY <1>1, <2>1, RunsWellKept DEF PileBody
<1>3. \A s \in Schedules : row'[s].mark <= tick[d].now
  BY <1>1 DEF PileBody, TickWell, TickLeads
<1>4. QED  BY <1>1, <1>2, <1>3, PileNext DEF AtSchedule, AtSlot

(* The watermark of the schedule at hand. *)
LEMMA PileAdvance ==
    ASSUME TypeOK, WindowInv, PileBody, NEW d \in Daemons, AdvanceWatermark(d)
    PROVE  PileBody'
<1> DEFINE s == tick[d].sid
           now == tick[d].now
<1>a. now \in Slots /\ tick[d].after \in Int
  BY FieldsOfLocals DEF TypeOK
<1>b. tick[d].pc = "advance" /\ NextSchedule(d) /\ UNCHANGED <<run, fire, clock>>
  BY DEF AdvanceWatermark
<1>c. tick[d].pc \in AtSchedule /\ tick[d].pc \in InQueue /\ s \in Schedules
  BY <1>b DEF AtSchedule, InQueue, WindowInv, WindowDecided
<1>d. TickLeads(tick[d], clock, row, run) /\ WindowsAfter(tick[d], run, fire)
  BY DEF PileBody, TickWell
<1>e. /\ \A q \in Schedules : row[q].mark <= now /\ row[q].mark \in Int
      /\ tick[d].after <= now /\ now <= clock /\ clock \in Int
  BY <1>b, <1>c, <1>d DEF TickLeads, TypeOK, Slots, Null
<1>1. /\ row'[s].mark = now /\ \A q \in Schedules : q # s => row'[q] = row[q]
  <2>1. row' = [row EXCEPT ![s].mark = IF @ < now THEN now ELSE @]
    BY DEF AdvanceWatermark
  <2>2. row[s] \in [live : BOOLEAN, enabled : BOOLEAN, mark : Slots \cup {Null}]
    BY <1>c DEF TypeOK
  <2>3. row'[s].mark = (IF row[s].mark < now THEN now ELSE row[s].mark)
    BY <1>c, <2>1, <2>2 DEF TypeOK
  <2>4. \A q \in Schedules : q # s => row'[q] = row[q]
    BY <1>c, <2>1 DEF TypeOK
  <2>5. row[s].mark <= now /\ row[s].mark \in Int /\ now \in Int
    BY <1>a, <1>c, <1>e DEF Slots
  <2>6. QED  BY <2>3, <2>4, <2>5
<1>2. /\ base'[s] = (IF row[s].mark = Null THEN tick[d].after ELSE base[s])
      /\ \A q \in Schedules : q # s => base'[q] = base[q]
  BY <1>c DEF AdvanceWatermark, TypeOK
<1>3. RunsReceipted'
  BY <1>b DEF PileBody, RunsWell, RunsReceipted, RunExists
<1>4. OvertakenUnseen'
  <2> SUFFICES ASSUME NEW r \in Schedules, NEW t \in Slots, Overtaken(run, r, t)
               PROVE  \/ fire[<<r, t>>] = "error"
                      \/ fire[<<r, t>>] = NoReceipt /\ (row'[r].mark = Null \/ t <= base'[r])
    BY <1>b DEF OvertakenUnseen
  <2>1. \/ fire[<<r, t>>] = "error"
        \/ fire[<<r, t>>] = NoReceipt /\ (row[r].mark = Null \/ t <= base[r])
    BY DEF PileBody, RunsWell, OvertakenUnseen
  <2>2. r = s /\ fire[<<r, t>>] = NoReceipt => t <= tick[d].after
    BY <1>c, <1>d DEF WindowsAfter
  <2>3. QED  BY <1>1, <1>2, <2>1, <2>2
<1>5. ClockLeads'
  <2>1. \A x \in Key : run'[x].at <= clock'
    BY <1>b DEF PileBody, RunsWell, ClockLeads
  <2>2. \A q \in Schedules : row[q].mark <= clock /\ (row[q].mark # Null => base[q] <= row[q].mark)
    BY DEF PileBody, RunsWell, ClockLeads
  <2>3. base'[s] <= now
    <3>1. base[s] \in Int /\ row[s].mark \in Int /\ now \in Int
      <4>1. base \in [Schedules -> Int]
        BY DEF TypeOK
      <4>2. base[s] \in Int
        BY <1>c, <4>1
      <4>3. row[s].mark \in Int
        BY <1>c, <1>e
      <4>4. now \in Int
        BY <1>a DEF Slots
      <4>5. QED  BY <4>2, <4>3, <4>4
    <3>2. row[s].mark <= now /\ (row[s].mark # Null => base[s] <= row[s].mark)
      BY <1>c, <1>e, <2>2
    <3> HIDE DEF s, now
    <3>3. QED  BY <1>2, <1>e, <3>1, <3>2
  <2>4. ASSUME NEW q \in Schedules
        PROVE  row'[q].mark <= clock /\ (row'[q].mark # Null => base'[q] <= row'[q].mark)
    <3>1. CASE q = s
      BY <1>1, <1>e, <2>3, <3>1
    <3>2. CASE q # s
      BY <1>1, <1>2, <2>2, <3>2
    <3>3. QED  BY <3>1, <3>2
  <2>5. QED  BY <1>b, <2>1, <2>4 DEF ClockLeads
<1>6. RunsWell'
  BY <1>3, <1>4, <1>5 DEF RunsWell
<1>7. \A q \in Schedules : row'[q].mark <= now
  BY <1>1, <1>a, <1>e DEF Slots
<1>8. QED  BY <1>6, <1>7, <1>b, <1>c, PileNext

(* Every step, while the clock was never set back, preserves the invariant. *)
LEMMA PileInvStep ==
    ASSUME SoleDaemon, RoomForBacklog, TypeOK, IInv, WindowInv, PileInv, [Next]_vars
    PROVE  PileInv'
<1> SUFFICES ASSUME ~setback' PROVE PileBody'
  BY DEF PileInv
<1>a. ~setback /\ ~SetClockBack
  <2>1. ~SetClockBack
    BY DEF SetClockBack
  <2>2. Operator \/ AdvanceClock \/ UNCHANGED vars => UNCHANGED setback
    BY DEF vars, AdvanceClock, Operator, CreateSchedule, DeleteSchedule, SetEnabled,
           SetPaused, CancelRun, history
  <2>3. ASSUME NEW d \in Daemons,
               \/ Boot(d) \/ TickStep(d) \/ SweepError(d) \/ DispatchError(d) \/ TickError(d)
               \/ Crash(d)
        PROVE  UNCHANGED setback
    BY <2>3 DEF Boot, TickStep, SweepError, DispatchError, TickError, Crash,
         AcquireLease, ScanStale, ReconcileRun, ReconcileDone, StartTick, EndTick,
         InvalidSchedule, TakeSchedule, ConsiderMissed, AlreadyConsidered, SkipPreviousAwaiting,
         DeferSlot, HealOrphan, ChooseDispatch, NoPublishedVersion, CreateRun, DuplicateRun,
         StartRun, FinishRun, RecordOutcome, AdvanceWatermark, ScheduleGone, history
  <2>4. UNCHANGED setback
    BY <2>1, <2>2, <2>3 DEF Next
  <2>5. QED  BY <2>1, <2>4
<1>b. PileBody
  BY <1>a DEF PileInv
<1>c. clock \in Slots /\ row \in [Schedules -> [live : BOOLEAN, enabled : BOOLEAN, mark : Slots \cup {Null}]]
      /\ base \in [Schedules -> Int] /\ clock <= clock
  BY DEF TypeOK, Slots
<1>d. UNCHANGED run => Shrinks(run, run')
  BY ShrinksSelf
<1>0. CASE UNCHANGED vars
  <2>1. UNCHANGED <<fire, tick, run, row, base, clock>>
    BY <1>0 DEF vars, db, history
  <2>2. QED  BY <1>b, <1>c, <1>d, <2>1, PileStill DEF MarksKept
<1>1. CASE AdvanceClock
  <2>1. UNCHANGED <<fire, tick, run, row, base>> /\ clock <= clock' /\ clock' \in Slots
    BY <1>1, <1>c DEF AdvanceClock, db, history, Slots
  <2>2. QED  BY <1>b, <1>d, <2>1, PileStill DEF MarksKept
<1>2. ASSUME NEW s \in Schedules, CreateSchedule(s) \/ DeleteSchedule(s) PROVE PileBody'
  <2>1. UNCHANGED <<fire, tick, run, clock>>
    BY <1>2 DEF CreateSchedule, DeleteSchedule, history
  <2>2. row'[s].mark = Null /\ \A q \in Schedules : q # s => row'[q] = row[q] /\ base'[q] = base[q]
    BY <1>2, <1>c DEF CreateSchedule, DeleteSchedule, history
  <2>3. MarksKept
    BY <2>2 DEF MarksKept
  <2>4. QED  BY <1>b, <1>c, <1>d, <2>1, <2>3, PileStill
<1>3. ASSUME NEW s \in Schedules, NEW e \in BOOLEAN, SetEnabled(s, e) PROVE PileBody'
  <2>1. UNCHANGED <<fire, tick, run, clock, base>> /\ row' = [row EXCEPT ![s].enabled = e]
    BY <1>3 DEF SetEnabled, history
  <2>2. row'[s] = [row[s] EXCEPT !.enabled = e] /\ \A q \in Schedules : q # s => row'[q] = row[q]
    BY <1>c, <2>1
  <2>3. row'[s].mark = row[s].mark
    BY <1>c, <2>2
  <2>4. MarksKept
    BY <2>1, <2>2, <2>3 DEF MarksKept
  <2>5. QED  BY <1>b, <1>c, <1>d, <2>1, <2>4, PileStill
<1>4. ASSUME NEW p \in BOOLEAN, SetPaused(p) PROVE PileBody'
  <2>1. UNCHANGED <<fire, tick, run, row, base, clock>>
    BY <1>4 DEF SetPaused, history
  <2>2. QED  BY <1>b, <1>c, <1>d, <2>1, PileStill DEF MarksKept
<1>5. ASSUME NEW x \in Key, CancelRun(x) PROVE PileBody'
  <2>1. /\ UNCHANGED <<fire, tick, row, base, clock>> /\ CanTransition(run[x].st, "cancelled")
        /\ run' = [run EXCEPT ![x].st = "cancelled"]
    BY <1>5 DEF CancelRun, history
  <2>2. Shrinks(run, run')
    BY <2>1, FailShrinks
  <2>3. QED  BY <1>b, <1>c, <2>1, <2>2, PileStill DEF MarksKept
<1>6. ASSUME NEW d \in Daemons,
             \/ Boot(d) \/ TickStep(d) \/ SweepError(d) \/ DispatchError(d) \/ TickError(d) \/ Crash(d)
      PROVE  PileBody'
  BY <1>6, <1>b, PileAround, PileStartTick, PileTakes, PileMissed, PileDecide, PileDefer,
     PileDispatch, PileReceipt, PileAdvance DEF TickStep
<1>7. QED
  BY <1>0, <1>1, <1>2, <1>3, <1>4, <1>5, <1>6, <1>a DEF Next, Operator

(* The initial state satisfies the invariant. *)
LEMMA PileInvInit == Init => PileInv
<1> SUFFICES ASSUME Init PROVE PileBody
  BY DEF PileInv
<1>1. /\ \A d \in Daemons : tick[d].pc = "new"
      /\ \A s \in Schedules : row[s].mark = Null
      /\ \A x \in Key : run[x].st = NoRun /\ run[x].at = 0
      /\ clock = 0 /\ Null <= 0
  BY DEF Init, Rest, Null
<1>2. \A s \in Schedules : \A t \in Slots : run[<<s, t>>].st \notin NonTerminal
  BY <1>1 DEF Key, NonTerminal, InFlight, NoRun
<1>3. RunsWell
  <2>1. RunsReceipted
    BY <1>1 DEF RunsReceipted, RunExists
  <2>2. OvertakenUnseen
    BY <1>2 DEF OvertakenUnseen, Overtaken
  <2>3. ClockLeads
    <3>1. \A x \in Key : run[x].at <= clock
      BY <1>1
    <3>2. \A s \in Schedules : row[s].mark <= clock /\ ~(row[s].mark # Null)
      BY <1>1
    <3>3. QED  BY <3>1, <3>2 DEF ClockLeads
  <2>4. QED  BY <2>1, <2>2, <2>3 DEF RunsWell
<1>4. \A d \in Daemons : TickWell(tick[d], clock, row, run, fire)
  BY <1>1 DEF TickWell, TickLeads, WindowsAfter, SlotOpen, InQueue, AtSchedule, AtSlot
<1>5. QED  BY <1>3, <1>4 DEF PileBody

(* With one daemon at a time the invariant always holds. *)
LEMMA PileInvariance == SoleDaemon /\ RoomForBacklog => (Spec => []PileInv)
<1> SUFFICES ASSUME SoleDaemon, RoomForBacklog PROVE Spec => []PileInv
  OBVIOUS
<1>1. Init => PileInv
  BY PileInvInit
<1>2. TypeOK /\ IInv /\ WindowInv /\ PileInv /\ [Next]_vars => PileInv'
  BY PileInvStep
<1>3. Spec => []WindowInv
  BY WindowInvariance
<1>4. QED  BY <1>1, <1>2, <1>3, Invariance, PTL DEF Spec

(* scheduler_tick.rs, the serialization guard: with one daemon alive at a    *)
(* time, no backlog beyond max_considered_per_tick and a clock that moves    *)
(* forward, a run joins an older live run of its schedule only if the older  *)
(* one's dispatch ended in an error receipt, or its slot lies before every   *)
(* window of the row, across crashes at any statement, storage errors,       *)
(* cancellations, deletions and re-creations.                                *)
THEOREM NoPileUpHolds == SoleDaemon /\ RoomForBacklog => (Spec => []NoPileUp)
<1> SUFFICES ASSUME SoleDaemon, RoomForBacklog PROVE Spec => []NoPileUp
  OBVIOUS
<1>1. PileInv => NoPileUp
  <2> SUFFICES ASSUME PileBody, NEW s \in Schedules, NEW t \in Slots, NEW u \in Slots, t < u,
                      run[<<s, t>>].st \in NonTerminal, run[<<s, u>>].st \in NonTerminal
               PROVE  fire[<<s, t>>] = "error" \/ row[s].mark = Null \/ t <= base[s]
    BY DEF PileInv, NoPileUp
  <2>1. Overtaken(run, s, t)
    BY DEF Overtaken, NonTerminal, InFlight, NoRun
  <2>2. QED  BY <2>1 DEF PileBody, RunsWell, OvertakenUnseen
<1>2. Spec => []PileInv
  BY PileInvariance
<1>3. QED  BY <1>1, <1>2, PTL
=============================================================================

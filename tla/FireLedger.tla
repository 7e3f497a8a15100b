----------------------------- MODULE FireLedger -----------------------------
(***************************************************************************)
(* What the scheduler promises about a slot (a schedule and a minute),     *)
(* without ticks, daemons, leases or watermarks: its run is created at     *)
(* most once and driven at most once, its decision is written at most      *)
(* once, and a slot is reported "fired" only when its run exists.          *)
(***************************************************************************)
CONSTANTS Slot, Outcome, Undecided

VARIABLES created,   \* the slots whose run exists
          driven,    \* the slots whose run the engine began to drive
          decision   \* the decision recorded for each slot

Init ==
    /\ created = {} /\ driven = {}
    /\ decision = [x \in Slot |-> Undecided]

Create(x) ==
    /\ x \notin created
    /\ created' = created \cup {x}
    /\ UNCHANGED <<driven, decision>>

Drive(x) ==
    /\ x \in created \ driven
    /\ driven' = driven \cup {x}
    /\ UNCHANGED <<created, decision>>

Decide(x, o) ==
    /\ decision[x] = Undecided
    /\ o = "fired" => x \in created
    /\ decision' = [decision EXCEPT ![x] = o]
    /\ UNCHANGED <<created, driven>>

Next == \E x \in Slot : Create(x) \/ Drive(x) \/ \E o \in Outcome : Decide(x, o)

Spec == Init /\ [][Next]_<<created, driven, decision>>
=============================================================================

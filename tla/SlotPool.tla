------------------------------ MODULE SlotPool ------------------------------
(***************************************************************************)
(* What a scheduler with a bounded number of slots promises, without       *)
(* saying how: work that waits is given a slot when one is free, work that *)
(* holds a slot gives it back and may wait again, and a restart empties    *)
(* everything. ShadowScheduler implements it.                              *)
(***************************************************************************)
EXTENDS Integers, FiniteSets

CONSTANTS Work, NumSlots

VARIABLES
    waiting,  \* work that may be given a slot
    active    \* work that holds a slot

pvars == <<waiting, active>>

Init == waiting = {} /\ active = {}

Submit(w) ==
    /\ w \notin waiting \cup active
    /\ waiting' = waiting \cup {w}
    /\ UNCHANGED active

Withdraw(w) ==
    /\ w \in waiting
    /\ waiting' = waiting \ {w}
    /\ UNCHANGED active

Acquire(w) ==
    /\ w \in waiting \ active
    /\ Cardinality(active) < NumSlots
    /\ waiting' = waiting \ {w}
    /\ active' = active \cup {w}

\* The work ends, or waits for another turn.
Release(w) ==
    /\ w \in active
    /\ active' = active \ {w}
    /\ waiting' \in {waiting, waiting \cup {w}}

Halt == waiting' = {} /\ active' = {}

\* After a halt, some of the work may be found again.
Recover ==
    /\ waiting = {} /\ active = {}
    /\ waiting' \in SUBSET Work
    /\ UNCHANGED active

Next ==
    \/ Halt \/ Recover
    \/ \E w \in Work : Submit(w) \/ Withdraw(w) \/ Acquire(w) \/ Release(w)

Spec == Init /\ [][Next]_pvars
=============================================================================

----------------------------- MODULE SlotBudget -----------------------------
(***************************************************************************)
(* What the run-slot budget promises: a bounded set of owners.  An owner   *)
(* takes a free slot, gives its slot back, or gives it straight to one     *)
(* other owner; no step lets two owners in.  RunSlots implements it.       *)
(***************************************************************************)
EXTENDS Naturals, FiniteSets

CONSTANTS Agents, Slots

VARIABLE owners

Init == owners = {}

\* A free slot is taken.
Take(a) ==
    /\ a \notin owners
    /\ Cardinality(owners) < Slots
    /\ owners' = owners \cup {a}

\* A slot is given back.
Give(a) ==
    /\ a \in owners
    /\ owners' = owners \ {a}

\* A slot goes from one owner to the next without being free in between.
HandOver(a, b) ==
    /\ a \in owners
    /\ b \notin owners
    /\ owners' = (owners \ {a}) \cup {b}

Next == \E a \in Agents : Take(a) \/ Give(a) \/ \E b \in Agents : HandOver(a, b)

Spec == Init /\ [][Next]_owners
=============================================================================

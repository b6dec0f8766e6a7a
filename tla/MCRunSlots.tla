---------------------------- MODULE MCRunSlots ----------------------------
(* An instance of RunSlots: a root run has, as concurrent children, a       *)
(* nested run and a join of a detached run.                                 *)
EXTENDS RunSlots

CONSTANTS root, kid1, det, join

MixedCalls == {root, kid1, det, join}
MixedParent == [c \in MixedCalls |-> IF c \in {kid1, join} THEN root ELSE NoCall]
MixedAncestors == [c \in MixedCalls |-> IF c \in {kid1, join} THEN {root} ELSE {}]
MixedKind == [c \in MixedCalls |-> IF c = join THEN "join" ELSE "run"]
MixedTarget == [c \in MixedCalls |-> IF c = join THEN det ELSE NoCall]
=============================================================================

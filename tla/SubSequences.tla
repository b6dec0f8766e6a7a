---------------------------- MODULE SubSequences ----------------------------
(* Array.filter: the elements of a sequence that are in a set, in their     *)
(* order.  It is SelectSeq, defined by the positions that stay instead of   *)
(* by recursion, so that it can be reasoned about.                          *)
EXTENDS Naturals, Sequences, FiniteSets

Stays(seq, S) == {i \in DOMAIN seq : seq[i] \in S}

\* The place of position i among those of at, counted from 1.
Rank(at, i) == Cardinality({h \in at : h <= i})

Only(seq, S) ==
    LET at == Stays(seq, S)
    IN  [k \in 1..Cardinality(at) |-> seq[CHOOSE i \in at : Rank(at, i) = k]]
=============================================================================

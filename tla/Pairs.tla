------------------------------- MODULE Pairs -------------------------------
(***************************************************************************)
(* S-pairs as the queue sees them (src/src/pair.rs, src/src/lset.rs):      *)
(* records with the indices i < j of two basis elements, a sugar degree    *)
(* and an arrival number.                                                  *)
(***************************************************************************)
EXTENDS Naturals

SameIndices(p, q) == p.i = q.i /\ p.j = q.j

(* Mutant of PairBefore: arrivals are left out of the comparison. *)
PairBeforeUnstamped(p, q) ==
  \/ p.sugar < q.sugar
  \/ p.sugar = q.sugar /\ p.i < q.i
  \/ p.sugar = q.sugar /\ p.i = q.i /\ p.j < q.j

(* The order of the queue: sugar, then arrival, then the indices. *)
PairBefore(p, q) ==
  \/ p.sugar < q.sugar
  \/ p.sugar = q.sugar /\ p.arrival < q.arrival
  \/ p.sugar = q.sugar /\ p.arrival = q.arrival /\ p.i < q.i
  \/ p.sugar = q.sugar /\ p.arrival = q.arrival /\ p.i = q.i /\ p.j < q.j

(* The pair that LSet::pop yields from a nonempty set of live pairs. *)
NextPair(l) == CHOOSE p \in l : \A q \in l : q = p \/ PairBefore(p, q)

(* LSet::insert replaces a live pair with the same indices. *)
InsertPairs(l, b) ==
  LET new == {b[k] : k \in DOMAIN b}
  IN  {p \in l : \A q \in new : ~SameIndices(p, q)} \cup new
=============================================================================

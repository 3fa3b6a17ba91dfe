---------------------------- MODULE ReducerHeap ----------------------------
(***************************************************************************)
(* The Monagan-Pearce reducer of src/src/reducer.rs, driven by             *)
(* reduce_lobject_heap of src/src/bba.rs: the working polynomial is a sum  *)
(* of multiples of basis elements that are never multiplied out, and a     *)
(* heap holds the next term of each.  A step is one turn of                *)
(* pop_with_cancellation or one answer of find_divisor.                    *)
(*                                                                         *)
(* A cursor is the part of the polynomial it has not passed.  The key of a *)
(* heap node is the monomial it stands for.                                *)
(***************************************************************************)
EXTENDS Reduction, FiniteSetsExt

CONSTANTS
  Bases, WorkObjects,   \* as in NormalForm
  Nothing               \* no leader

VARIABLES
  basis,       \* SBasis, borrowed for the call
  reducers,    \* the slab, records [cursor, multiplier, coeff]
  heap,        \* nodes [key, reducer_idx]
  sugar,
  leader,      \* the term find_divisor is asked about, or Nothing
  survivor,    \* survivor_terms
  returned

vars == <<basis, reducers, heap, sugar, leader, survivor, returned>>

Reducer(p, m, c) == [cursor |-> p, multiplier |-> m, coeff |-> c]

(* The nodes push_current_term makes for the reducers idxs of the slab rs: *)
(* none for an exhausted cursor.                                           *)
Nodes(rs, idxs) ==
  {[key |-> Mul(rs[i].multiplier, LM(rs[i].cursor)), reducer_idx |-> i]
     : i \in {k \in idxs : rs[k].cursor # Zero}}

(* The working polynomial is the first reducer.                            *)
Init ==
  /\ basis \in Bases
  /\ \E o \in WorkObjects :
       /\ reducers = <<Reducer(o.poly, One, 1)>>
       /\ sugar = o.sugar
  /\ heap = Nodes(reducers, {1})
  /\ leader = Nothing
  /\ survivor = << >>
  /\ returned = FALSE

-----------------------------------------------------------------------------
(* pop_with_cancellation.                                                  *)

(* The nodes that share the largest key.                                   *)
Chain == {n \in heap : \A k \in heap : ~Less(n.key, k.key)}

(* The slab after the reducers idxs have moved past their terms.           *)
Advanced(idxs) ==
  [i \in DOMAIN reducers |->
     IF i \in idxs THEN [reducers[i] EXCEPT !.cursor = DropLeading(@)] ELSE reducers[i]]

(* Take the nodes of chain off the heap, sum up their terms, and queue the *)
(* next terms of their reducers.  A sum of zero is no leader.              *)
Take(chain) ==
  LET idxs  == {n.reducer_idx : n \in chain}
      total == MapThenSumSet(LAMBDA i : reducers[i].coeff * LC(reducers[i].cursor), idxs) % P
      key   == (CHOOSE n \in chain : TRUE).key
  IN  /\ reducers' = Advanced(idxs)
      /\ heap' = (heap \ chain) \cup Nodes(reducers', idxs)
      /\ leader' = IF total = 0 THEN Nothing ELSE [c |-> total, m |-> key]
      /\ UNCHANGED <<basis, sugar, survivor, returned>>

(* Mutant of PopChain: nodes with an equal key are left on the heap.       *)
PopOne ==
  /\ leader = Nothing
  /\ \E n \in Chain : Take({n})

PopChain ==
  /\ leader = Nothing /\ heap # {}
  /\ Take(Chain)

-----------------------------------------------------------------------------
(* reduce_to_normal_form.                                                  *)

Found == leader # Nothing /\ Divisors(basis.polys, basis.redundant, leader.m) # {}

(* Mutant of Reduce: the cursor of the divisor starts at its leading term. *)
ReduceFromLeading ==
  /\ Found
  /\ LET g == basis.polys[FirstDivisor(basis.polys, basis.redundant, leader.m)]
         m == Div(leader.m, LM(g))
         d == Deg(LM(g)) + Deg(m)
     IN  /\ reducers' = Append(reducers, Reducer(g, m, P - leader.c))
         /\ sugar' = IF d > sugar THEN d ELSE sugar
  /\ heap' = heap \cup Nodes(reducers', {Len(reducers')})
  /\ leader' = Nothing
  /\ UNCHANGED <<basis, survivor, returned>>

(* Subtract the multiple of the first divisor g that cancels the leader:   *)
(* the leader is off the heap already, so that g comes in without its      *)
(* leading term.                                                           *)
Reduce ==
  /\ Found
  /\ LET g == basis.polys[FirstDivisor(basis.polys, basis.redundant, leader.m)]
         m == Div(leader.m, LM(g))
         d == Deg(LM(g)) + Deg(m)
     IN  /\ reducers' = Append(reducers, Reducer(DropLeading(g), m, P - leader.c))
         /\ sugar' = IF d > sugar THEN d ELSE sugar
  /\ heap' = heap \cup Nodes(reducers', {Len(reducers')})
  /\ leader' = Nothing
  /\ UNCHANGED <<basis, survivor, returned>>

Emit ==
  /\ leader # Nothing /\ ~Found
  /\ survivor' = Append(survivor, leader)
  /\ leader' = Nothing
  /\ UNCHANGED <<basis, reducers, heap, sugar, returned>>

Return ==
  /\ leader = Nothing /\ heap = {} /\ ~returned
  /\ returned' = TRUE
  /\ UNCHANGED <<basis, reducers, heap, sugar, leader, survivor>>

Returned == returned /\ UNCHANGED vars

Next == PopChain \/ Reduce \/ Emit \/ Return \/ Returned

Spec == Init /\ [][Next]_vars

-----------------------------------------------------------------------------
(* Properties.                                                             *)

(* FLINT's invariant (reducer.rs:104-107): the heap holds one node for     *)
(* each reducer that is not exhausted, that of its current term.           *)
NodesCurrent == heap = Nodes(reducers, DOMAIN reducers)

(* Nothing on the heap is as large as the leader or as a term that has     *)
(* been emitted: the leaders come out in strictly descending order, which  *)
(* from_descending_terms_unchecked relies on, and on which the end of the  *)
(* reduction rests although every divisor adds a reducer                   *)
(* (reducer.rs:349-413).                                                   *)
Descending ==
  /\ leader # Nothing => \A n \in heap : Less(n.key, leader.m)
  /\ \A k \in DOMAIN survivor :
       /\ \A n \in heap : Less(n.key, survivor[k].m)
       /\ \A l \in 1 .. k - 1 : Less(survivor[k].m, survivor[l].m)

(* The value of the slab and the leader.                                   *)
Rest ==
  LET shifted(i) == {Mul(reducers[i].multiplier, u) : u \in Support(reducers[i].cursor)}
      of(i, t) == IF t \in shifted(i)
                  THEN reducers[i].coeff * Coef(reducers[i].cursor, Div(t, reducers[i].multiplier))
                  ELSE 0
      lead(t) == IF leader # Nothing /\ leader.m = t THEN leader.c ELSE 0
      coef(t) == (lead(t) + MapThenSumSet(LAMBDA i : of(i, t), DOMAIN reducers)) % P
      used == (IF leader = Nothing THEN {} ELSE {leader.m})
                \cup UNION {shifted(i) : i \in DOMAIN reducers}
  IN  Poly([t \in {u \in used : coef(u) # 0} |-> coef(t)])

(* survivor_terms as a polynomial, the first term leading.                 *)
Survivor ==
  IF survivor = << >> THEN Zero
  ELSE [terms |-> [t \in {survivor[k].m : k \in DOMAIN survivor} |->
                     (CHOOSE s \in {survivor[k] : k \in DOMAIN survivor} : s.m = t).c],
        lm |-> survivor[1].m]

Exact == INSTANCE NormalForm WITH work <- LObject(Rest, sugar), survivor <- Survivor
=============================================================================

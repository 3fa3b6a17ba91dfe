---------------------------- MODULE LeadingForm ----------------------------
(***************************************************************************)
(* What the geobucket reducer promises (src/src/bba.rs:233-242): a working *)
(* polynomial or the S-polynomial of two elements is reduced by its first  *)
(* divisors until its leading term has none.                               *)
(***************************************************************************)
EXTENDS Reduction

CONSTANTS Bases, WorkObjects      \* as in NormalForm

VARIABLES
  basis,        \* the basis of this call
  object,       \* the working polynomial and its sugar
  returned

vars == <<basis, object, returned>>

PairObject(f, g) ==
  LET lcm == Lcm(LM(f), LM(g)) IN LObject(SPoly(f, g, lcm), Deg(lcm))

Init ==
  /\ basis \in Bases
  /\ \/ object \in WorkObjects
     \/ \E i, j \in DOMAIN basis.polys :
          i < j /\ object = PairObject(basis.polys[i], basis.polys[j])
  /\ returned = FALSE

ReduceLeading ==
  /\ ~returned
  /\ Reducible(basis.polys, basis.redundant, object.poly)
  /\ object' = ReduceOnce(basis.polys, basis.redundant, object)
  /\ UNCHANGED <<basis, returned>>

Return ==
  /\ ~returned
  /\ ~Reducible(basis.polys, basis.redundant, object.poly)
  /\ returned' = TRUE
  /\ UNCHANGED <<basis, object>>

Next == ReduceLeading \/ Return
=============================================================================

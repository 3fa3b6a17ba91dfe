----------------------------- MODULE NormalForm -----------------------------
(***************************************************************************)
(* What the heap reducer promises (src/src/reducer.rs, src/src/bba.rs):    *)
(* the full normal form of a working polynomial by a fixed basis, where    *)
(* the leading term is cancelled by its first divisor or, when it has      *)
(* none, becomes the next term of the result.                              *)
(***************************************************************************)
EXTENDS Reduction

CONSTANTS
  Bases,        \* the bases it may run against, records [polys, redundant]
  WorkObjects   \* the working polynomials, nonzero, with their sugar

VARIABLES
  basis,        \* the basis of this call
  work,         \* what is left of the working polynomial, and its sugar
  survivor,     \* the irreducible terms so far
  returned

vars == <<basis, work, survivor, returned>>

Init ==
  /\ basis \in Bases
  /\ work \in WorkObjects
  /\ survivor = Zero
  /\ returned = FALSE

CancelTerm ==
  /\ Reducible(basis.polys, basis.redundant, work.poly)
  /\ work' = ReduceOnce(basis.polys, basis.redundant, work)
  /\ UNCHANGED <<basis, survivor, returned>>

EmitTerm ==
  /\ work.poly # Zero /\ ~Reducible(basis.polys, basis.redundant, work.poly)
  /\ survivor' = ParkTerm(survivor, LC(work.poly), LM(work.poly))
  /\ work' = [work EXCEPT !.poly = DropLeading(@)]
  /\ UNCHANGED <<basis, returned>>

Return ==
  /\ work.poly = Zero /\ ~returned
  /\ returned' = TRUE
  /\ UNCHANGED <<basis, work, survivor>>

Next == CancelTerm \/ EmitTerm \/ Return

Spec == Init /\ [][Next]_vars
=============================================================================

-------------------------- MODULE GeobucketReducer --------------------------
(***************************************************************************)
(* reduce_lobject_geobucket of src/src/bba.rs and the LObject of           *)
(* src/src/lobject.rs that it works on: a geobucket, and beside it a copy  *)
(* of its leading term that refresh() takes after a subtraction.  The      *)
(* search for a divisor asks the bucket for its leading monomial once      *)
(* more; the coefficient of the subtraction comes from the copy.           *)
(***************************************************************************)
EXTENDS KBucket, Reduction

CONSTANTS Bases, WorkObjects      \* as in NormalForm

ASSUME BasesAssumption ==
  \A b \in Bases :
    /\ Len(b.polys) \in Nat /\ DOMAIN b.polys = 1 .. Len(b.polys)
    /\ \A i \in DOMAIN b.polys :
         IsPolynomial(b.polys[i]) /\ b.polys[i] # Zero /\ LC(b.polys[i]) = 1

ASSUME WorkAssumption ==
  \A o \in WorkObjects : IsPolynomial(o.poly) /\ o = LObject(o.poly, o.sugar)

VARIABLES
  basis,      \* SBasis, borrowed for the call
  sugar,
  pair,       \* the indices of from_spoly, or Nothing for from_poly_with_sugar
  lead,       \* the copy: [c, m], or Nothing before the first refresh
  step        \* "first", "second", "refresh", "refreshing", "probe", "search", "returned"

lobjVars == <<basis, sugar, pair, lead, step>>
geobucketVars == <<vars, lobjVars>>

PairLcm(ij) == Lcm(LM(basis.polys[ij[1]]), LM(basis.polys[ij[2]]))

(* An LObject over a polynomial with its sugar.                            *)
FromPolyWithSugar ==
  /\ \E o \in WorkObjects :
       /\ slots = FromPoly(o.poly) /\ dirty = (o.poly # Zero)
       /\ sugar = o.sugar
  /\ pair = Nothing
  /\ step = "refresh"

(* An LObject over an S-polynomial, which two subtractions build.          *)
FromSpoly ==
  /\ \E j \in DOMAIN basis.polys : \E i \in 1 .. j - 1 :
       /\ pair = <<i, j>>
       /\ sugar = Deg(PairLcm(<<i, j>>))
  /\ slots = FromPoly(Zero) /\ dirty = FALSE
  /\ step = "first"

LObjectInit ==
  /\ basis \in Bases
  /\ FromPolyWithSugar \/ FromSpoly
  /\ lm_cache = Nothing /\ carry = Zero
  /\ asked = Nothing /\ answer = Nothing
  /\ lead = Nothing

(* A turn of a call to the bucket.                                         *)
WithinCall == Turn /\ UNCHANGED lobjVars

SpolyFirst ==
  /\ step = "first" /\ Idle
  /\ LET f == basis.polys[pair[1]]
     IN  Minus_m_mult_p(Div(PairLcm(pair), LM(f)), P - LC(basis.polys[pair[2]]), f)
  /\ step' = "second"
  /\ UNCHANGED <<basis, sugar, pair, lead>>

SpolySecond ==
  /\ step = "second" /\ Idle
  /\ LET g == basis.polys[pair[2]]
     IN  Minus_m_mult_p(Div(PairLcm(pair), LM(g)), LC(basis.polys[pair[1]]), g)
  /\ step' = "refresh"
  /\ UNCHANGED <<basis, sugar, pair, lead>>

(* refresh(): ask the bucket, and copy what it says.                       *)
Refresh ==
  /\ step = "refresh" /\ Ask("leading")
  /\ step' = "refreshing"
  /\ UNCHANGED <<basis, sugar, pair, lead>>

Refreshed ==
  /\ step = "refreshing" /\ Idle
  /\ lead' = answer
  /\ step' = IF answer = None THEN "returned" ELSE "probe"
  /\ UNCHANGED <<vars, basis, sugar, pair>>

Probe ==
  /\ step = "probe" /\ Ask("leading")
  /\ step' = "search"
  /\ UNCHANGED <<basis, sugar, pair, lead>>

Irreducible ==
  /\ step = "search" /\ Idle
  /\ Divisors(basis.polys, basis.redundant, answer.m) = {}
  /\ step' = "returned"
  /\ UNCHANGED <<vars, basis, sugar, pair, lead>>

(* Subtract the multiple of the first divisor that cancels the leading     *)
(* term, and go on with the given step.                                    *)
SubtractAndGo(next) ==
  /\ step = "search" /\ Idle
  /\ Divisors(basis.polys, basis.redundant, answer.m) # {}
  /\ LET s == basis.polys[FirstDivisor(basis.polys, basis.redundant, answer.m)]
         m == Div(answer.m, LM(s))
         d == Deg(LM(s)) + Deg(m)
     IN  /\ Minus_m_mult_p(m, lead.c, s)
         /\ sugar' = IF d > sugar THEN d ELSE sugar
  /\ step' = next
  /\ UNCHANGED <<basis, pair, lead>>

(* Mutant of Subtract: the copy is not refreshed.                          *)
SubtractUnrefreshed == SubtractAndGo("probe")

Subtract == SubtractAndGo("refresh")

LObjectReturned == step = "returned" /\ UNCHANGED geobucketVars

LObjectNext ==
  \/ WithinCall
  \/ SpolyFirst \/ SpolySecond
  \/ Refresh \/ Refreshed \/ Probe \/ Irreducible \/ Subtract
  \/ LObjectReturned

-----------------------------------------------------------------------------
(* Properties.                                                             *)

(* The polynomial of the reduction: the S-polynomial while it is built.    *)
WorkingPoly ==
  IF step \in {"first", "second"}
  THEN SPoly(basis.polys[pair[1]], basis.polys[pair[2]], PairLcm(pair))
  ELSE Value

Exactly == INSTANCE LeadingForm WITH
             object <- LObject(WorkingPoly, sugar),
             returned <- step = "returned"
=============================================================================

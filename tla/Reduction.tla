----------------------------- MODULE Reduction -----------------------------
(***************************************************************************)
(* Reading a basis.  A basis is two parallel sequences: the monic          *)
(* polynomials in insertion order and their redundancy flags               *)
(* (src/src/sbasis.rs, src/src/computation.rs).  Indices are 1-based here  *)
(* and 0-based in the code.  The short exponent vectors and cached degrees *)
(* of the code are functions of the polynomials, and only pre-filter tests *)
(* that are made exactly afterwards.                                       *)
(***************************************************************************)
EXTENDS Polynomials

(* The working polynomial of a reduction and its sugar (LObject). *)
LObject(p, s) == [poly |-> p, sugar |-> s]

NoObject == LObject(Zero, 0)

MonicObject(o) == LObject(Monic(o.poly), o.sugar)

(* The active elements whose leading monomial divides m. *)
Divisors(polys, redundant, m) ==
  {i \in DOMAIN polys : ~redundant[i] /\ Divides(LM(polys[i]), m)}

(* The scan runs in insertion order and takes the first divisor. *)
FirstDivisor(polys, redundant, m) ==
  LET ds == Divisors(polys, redundant, m) IN CHOOSE i \in ds : \A k \in ds : i <= k

Reducible(polys, redundant, p) ==
  p # Zero /\ Divisors(polys, redundant, LM(p)) # {}

(* Cancel the leading term of p with the first divisor of it. *)
CancelLeading(polys, redundant, p) ==
  LET s == polys[FirstDivisor(polys, redundant, LM(p))]
  IN  MinusMMultP(p, Div(LM(p), LM(s)), LC(p), s)

(* One turn of the reducer's loop: cancel the leading term and raise the   *)
(* sugar to deg(s) + deg(m), the degree of m * s, when that is larger.     *)
ReduceOnce(polys, redundant, o) ==
  LET s == polys[FirstDivisor(polys, redundant, LM(o.poly))]
      d == Deg(LM(s)) + Deg(Div(LM(o.poly), LM(s)))
  IN  LObject(CancelLeading(polys, redundant, o.poly),
              IF d > o.sugar THEN d ELSE o.sugar)

(* Mutant of Covered: the scan includes the new element itself. *)
CoveredInclusive(polys, redundant, h) ==
  {i \in 1 .. h : ~redundant[i] /\ Divides(LM(polys[h]), LM(polys[i]))}

(* The older active elements whose leading monomial element h's divides. *)
Covered(polys, redundant, h) ==
  {i \in 1 .. h - 1 : ~redundant[i] /\ Divides(LM(polys[h]), LM(polys[i]))}

ActiveIndices(polys, redundant) == {i \in DOMAIN polys : ~redundant[i]}

(* The active elements by ascending leading monomial, a stable sort. *)
SortedActive(polys, redundant) ==
  LET active   == ActiveIndices(polys, redundant)
      ahead(i) == {k \in active : \/ Less(LM(polys[k]), LM(polys[i]))
                                  \/ LM(polys[k]) = LM(polys[i]) /\ k < i}
  IN  [n \in 1 .. Cardinality(active) |->
         polys[CHOOSE i \in active : Cardinality(ahead(i)) = n - 1]]
=============================================================================

------------------------------ MODULE Validate ------------------------------
(***************************************************************************)
(* The validator of src/src/validate.rs: Buchberger's criterion, decided   *)
(* with the basis store and the geobucket reducer of the drivers.          *)
(***************************************************************************)
EXTENDS Reduction

(* build_sbasis: the nonzero elements, monic, each insertion marking what  *)
(* it covers.                                                              *)
BuildSBasis(gb) ==
  LET nonzero == SelectSeq(gb, LAMBDA p : p # Zero)
      polys   == [k \in DOMAIN nonzero |-> Monic(nonzero[k])]
  IN  [polys |-> polys,
       redundant |-> [i \in DOMAIN polys |->
                        \E k \in i + 1 .. Len(polys) : Divides(LM(polys[k]), LM(polys[i]))]]

(* What the geobucket reducer leaves of p: it stops at the first leading   *)
(* term that no active element reduces.                                    *)
RECURSIVE LeadingReduced(_, _)
LeadingReduced(p, sb) ==
  IF ~Reducible(sb.polys, sb.redundant, p) THEN p
  ELSE CHOOSE r \in {LeadingReduced(q, sb) : q \in {CancelLeading(sb.polys, sb.redundant, p)}} : TRUE

ReducesToZero(p, sb) == LeadingReduced(p, sb) = Zero

(* The pairs whose S-polynomial is reduced: active elements whose leading  *)
(* monomials share a variable.                                             *)
CheckedPairs(sb) ==
  {ij \in (DOMAIN sb.polys) \X (DOMAIN sb.polys) :
     /\ ij[1] < ij[2]
     /\ ~sb.redundant[ij[1]] /\ ~sb.redundant[ij[2]]
     /\ ~Coprime(LM(sb.polys[ij[1]]), LM(sb.polys[ij[2]]))}

(* Mutant of IsGroebnerBasis: the inputs are not looked at. *)
IsGroebnerBasisOfItself(input, gb) ==
  LET sb == BuildSBasis(gb)
  IN  \A ij \in CheckedPairs(sb) :
        LET f == sb.polys[ij[1]]
            g == sb.polys[ij[2]]
        IN  ReducesToZero(SPoly(f, g, Lcm(LM(f), LM(g))), sb)

(* is_groebner_basis: the inputs and the S-polynomials reduce to zero.     *)
IsGroebnerBasis(input, gb) ==
  LET sb == BuildSBasis(gb)
  IN  /\ \A k \in DOMAIN input : ReducesToZero(input[k], sb)
      /\ \A ij \in CheckedPairs(sb) :
           LET f == sb.polys[ij[1]]
               g == sb.polys[ij[2]]
           IN  ReducesToZero(SPoly(f, g, Lcm(LM(f), LM(g))), sb)
=============================================================================

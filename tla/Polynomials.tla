---------------------------- MODULE Polynomials ----------------------------
(***************************************************************************)
(* Sparse polynomials over the prime field of P elements.  A polynomial is *)
(* the function from its finite support to its nonzero coefficients, the   *)
(* value that src/src/poly keeps as a sorted term list and a KBucket as a  *)
(* sum of such lists, together with its leading monomial, which the code   *)
(* has at hand as the first term.  The code is generic in the field; the   *)
(* model takes a small prime.                                              *)
(***************************************************************************)
EXTENDS Monomials, Sequences

CONSTANT P          \* the characteristic; every nonzero class is invertible

ASSUME PAssumption ==
  P \in Nat /\ P > 1 /\ \A c \in 1 .. P - 1 : \E d \in 1 .. P - 1 : (c * d) % P = 1

(* The polynomial with the given terms, a function without zero values.    *)
(* The leading monomial of zero is arbitrary.                              *)
Poly(terms) ==
  LET top == Maxima(DOMAIN terms)
  IN  [terms |-> terms, lm |-> IF top = {} THEN One ELSE CHOOSE m \in top : TRUE]

Zero == [terms |-> << >>, lm |-> One]

(* What Poly::assert_canonical demands: finitely many terms, no zero       *)
(* coefficient, and the cached leading monomial agrees with the terms.     *)
IsPolynomial(p) ==
  /\ IsFiniteSet(DOMAIN p.terms) /\ DOMAIN p.terms \subseteq Monomial
  /\ p.terms \in [DOMAIN p.terms -> 1 .. P - 1]
  /\ p = Poly(p.terms)

LM(p) == p.lm
LC(p) == p.terms[p.lm]
Support(p) == DOMAIN p.terms
Coef(p, m) == IF m \in Support(p) THEN p.terms[m] ELSE 0

(* p - c * m * q, KBucket::minus_m_mult_p on the value of the bucket. *)
MinusMMultP(p, m, c, q) ==
  LET shifted == {Mul(m, u) : u \in Support(q)}
      diff(t) == (Coef(p, t) + (P - c) * (IF t \in shifted THEN q.terms[Div(t, m)]
                                                           ELSE 0)) % P
  IN  Poly([t \in {u \in Support(p) \cup shifted : diff(u) # 0} |-> diff(t)])

Invert(c) == CHOOSE d \in 1 .. P - 1 : (c * d) % P = 1

Monic(p) ==
  LET inv == Invert(LC(p))
  IN  [terms |-> [m \in Support(p) |-> (inv * p.terms[m]) % P], lm |-> LM(p)]

(* c_g * (lcm/lm_f) * f - c_f * (lcm/lm_g) * g. *)
SPoly(f, g, lcm) ==
  MinusMMultP(MinusMMultP(Zero, Div(lcm, LM(f)), P - LC(g), f),
              Div(lcm, LM(g)), LC(f), g)

(* The polynomial without its leading term, and the converses: put back a  *)
(* larger term, park a smaller one.                                        *)
DropLeading(p) == Poly([m \in Support(p) \ {LM(p)} |-> p.terms[m]])
WithTerm(p, c, m) == [t \in Support(p) \cup {m} |-> IF t = m THEN c ELSE p.terms[t]]
PrependLeading(c, m, p) == [terms |-> WithTerm(p, c, m), lm |-> m]
ParkTerm(p, c, m) ==
  [terms |-> WithTerm(p, c, m), lm |-> IF p = Zero THEN m ELSE LM(p)]
=============================================================================

----------------------------- MODULE Monomials -----------------------------
(***************************************************************************)
(* Monomials of a polynomial ring in NVars variables, as the exponent      *)
(* vectors that src/src/monomial.rs packs into machine words.  This module *)
(* is the value a MonoTerm stands for: the exact operations, without the   *)
(* seven-bit fields.  The order is GrevLexTerm's, degree reverse           *)
(* lexicographic with variable 1 the largest.                              *)
(***************************************************************************)
EXTENDS Naturals, FiniteSets

CONSTANT NVars      \* number of variables of the ring (Ring::nvars)

ASSUME NVarsAssumption == NVars \in Nat \ {0}

Vars == 1 .. NVars

Monomial == [Vars -> Nat]

One == [v \in Vars |-> 0]

Mul(a, b) == [v \in Vars |-> a[v] + b[v]]

Divides(a, b) == \A v \in Vars : a[v] <= b[v]

(* Only meaningful when Divides(b, a): MonoTerm::div answers None otherwise. *)
Div(a, b) == [v \in Vars |-> a[v] - b[v]]

Lcm(a, b) == [v \in Vars |-> IF a[v] >= b[v] THEN a[v] ELSE b[v]]

Coprime(a, b) == \A v \in Vars : a[v] = 0 \/ b[v] = 0

Deg(a) ==
  LET upTo[v \in 0 .. NVars] == IF v = 0 THEN 0 ELSE upTo[v - 1] + a[v]
  IN  upTo[NVars]

(* Strict degree reverse lexicographic order: the smaller total degree     *)
(* first, and at equal degree the monomial with the larger exponent at the *)
(* last variable where the two differ.                                     *)
Less(a, b) ==
  \/ Deg(a) < Deg(b)
  \/ /\ Deg(a) = Deg(b)
     /\ \E v \in Vars : /\ a[v] > b[v]
                        /\ \A w \in (v + 1) .. NVars : a[w] = b[w]

(* The monomials of S above all others of S: a singleton when S is finite  *)
(* and nonempty.                                                           *)
Maxima(S) == {m \in S : \A n \in S : n = m \/ Less(n, m)}
=============================================================================

--------------------------- MODULE ExactMonomials ---------------------------
(***************************************************************************)
(* What the packed monomials promise (src/src/monomial.rs): two registers  *)
(* of exponent vectors, changed by the exact operations of Monomials as    *)
(* long as every exponent fits its field.                                  *)
(***************************************************************************)
EXTENDS Monomials

CONSTANT MAX_VAR_EXP

VARIABLES a, b, outcome

vars == <<a, b, outcome>>

Fitting == [Vars -> 0 .. MAX_VAR_EXP]

Init == a \in Fitting /\ b \in Fitting /\ outcome = "ok"

Become(m) == a' = m /\ outcome' = "ok" /\ UNCHANGED b
Answer(o) == outcome' = o /\ UNCHANGED <<a, b>>

(* A product that does not fit is never returned (debug builds).           *)
MulExact == IF Mul(a, b) \in Fitting THEN Become(Mul(a, b)) ELSE Answer("panic")

DivExact == IF Divides(b, a) THEN Become(Div(a, b)) ELSE Answer("none")

LcmExact == Become(Lcm(a, b))

DividesExact == Answer(IF Divides(a, b) THEN "divides" ELSE "none")

Swap == a' = b /\ b' = a /\ outcome' = "ok"

Spec == Init /\ [][MulExact \/ DivExact \/ LcmExact \/ DividesExact \/ Swap]_vars
=============================================================================

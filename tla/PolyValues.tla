----------------------------- MODULE PolyValues -----------------------------
(***************************************************************************)
(* What the polynomial type promises (src/src/poly): a caller with two     *)
(* polynomials, and the exact operations on them, each in one step.        *)
(***************************************************************************)
EXTENDS Polynomials, FiniteSetsExt

CONSTANTS
  InitialPolys,          \* what the caller starts with
  Requests               \* the calls it may make

VARIABLES
  x, y,
  request                \* the latest call

vars == <<x, y, request>>

(* p + c * m * q. *)
Plus(p, c, m, q) == MinusMMultP(p, m, P - c, q)

ScaledBy(c, p) == IF c = 0 THEN Zero ELSE Plus(Zero, c, One, p)

Product(p, q) ==
  LET pairs   == Support(p) \X Support(q)
      coef(t) == MapThenSumSet(LAMBDA ab : p.terms[ab[1]] * q.terms[ab[2]],
                               {ab \in pairs : Mul(ab[1], ab[2]) = t}) % P
  IN  Poly([t \in {s \in {Mul(ab[1], ab[2]) : ab \in pairs} : coef(s) # 0} |-> coef(t)])

(* The sum of a sequence of terms [c, m]. *)
Sum(ts) ==
  LET coef(t) == MapThenSumSet(LAMBDA k : ts[k].c, {k \in DOMAIN ts : ts[k].m = t}) % P
  IN  Poly([t \in {s \in {ts[k].m : k \in DOMAIN ts} : coef(s) # 0} |-> coef(t)])

(* What a call on p returns; q is its other operand. *)
Result(r, p, q) ==
  CASE r.op \in {"add", "add_assign", "add_consuming"} -> Plus(p, 1, One, q)
    [] r.op = "sub" -> Plus(p, P - 1, One, q)
    [] r.op \in {"sub_mul_term", "sub_mm_mult_qq_consuming"} ->
         IF r.c = 0 THEN p ELSE Plus(p, P - r.c, r.m, q)
    [] r.op = "neg" -> ScaledBy(P - 1, p)
    [] r.op = "scale" -> ScaledBy(r.c, p)
    [] r.op = "shift" -> Plus(Zero, 1, r.m, p)
    [] r.op = "mul" -> Product(p, q)
    [] r.op = "monic" -> IF p = Zero THEN Zero ELSE Monic(p)
    [] r.op \in {"drop_leading", "drop_leading_in_place"} ->
         IF p = Zero THEN Zero ELSE DropLeading(p)
    [] r.op = "from_terms" -> Sum(r.ts)

Init == x \in InitialPolys /\ y \in InitialPolys /\ request.op = "none"

(* The caller stores the result in x, a clone in y; add_consuming takes y. *)
Call ==
  /\ request' \in Requests
  /\ \E p \in {x}, q \in {y}, new \in {x'} :
       new = IF request'.op = "clone" THEN p
             ELSE Result(request', p, IF request'.own THEN p ELSE q)
  /\ y' = CASE request'.op = "clone" -> x
            [] request'.op = "add_consuming" -> Zero
            [] OTHER -> y

Spec == Init /\ [][Call]_vars
=============================================================================

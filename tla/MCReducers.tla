----------------------------- MODULE MCReducers -----------------------------
(***************************************************************************)
(* Instances of the reducers for TLC, in two variables.  The heap runs     *)
(* every polynomial with two or three of six terms, with two sugars each,  *)
(* against two bases; the geobucket has slots for one, two and four terms  *)
(* and is used with polynomials of each of these lengths whose multiples   *)
(* by powers of the second variable cancel one another in part.            *)
(***************************************************************************)
EXTENDS Reducers, TLC

Term(c, x, y) == <<x, y>> :> c

(* A redundant x^2 y + y, x^2 + 2y, x y + x + 1 and y^2 + x, of which some *)
(* monomials have several divisors; y^2, which has no tail, and            *)
(* x^2 + x y + y.                                                          *)
SomeBases ==
  {[polys |-> <<Poly(Term(1, 2, 1) @@ Term(1, 0, 1)),
                Poly(Term(1, 2, 0) @@ Term(2, 0, 1)),
                Poly(Term(1, 1, 1) @@ Term(1, 1, 0) @@ Term(1, 0, 0)),
                Poly(Term(1, 0, 2) @@ Term(1, 1, 0))>>,
    redundant |-> <<TRUE, FALSE, FALSE, FALSE>>],
   [polys |-> <<Poly(Term(1, 0, 2)), Poly(Term(1, 2, 0) @@ Term(1, 1, 1) @@ Term(1, 0, 1))>>,
    redundant |-> <<FALSE, FALSE>>]}

SomeMonomials == {<<3, 0>>, <<2, 1>>, <<1, 2>>, <<0, 3>>, <<1, 1>>, <<0, 1>>}

SomeObjects ==
  {LObject(Poly(f), Deg(LM(Poly(f))) + extra) :
     f \in UNION {[S -> 1 .. P - 1] : S \in {T \in SUBSET SomeMonomials : Cardinality(T) \in {2, 3}}},
     extra \in {0, 2}}

(* The powers of y, and 1, y + 1, y^2 + 1, y^2 + y + 1.                    *)
Powers == {<<0, d>> : d \in 0 .. MaxDeg}

SomePolys ==
  {Poly(Term(1, 0, 0)),
   Poly(Term(1, 0, 1) @@ Term(1, 0, 0)),
   Poly(Term(1, 0, 2) @@ Term(1, 0, 0)),
   Poly(Term(1, 0, 2) @@ Term(1, 0, 1) @@ Term(1, 0, 0))}
=============================================================================

----------------------------- MODULE TermLists -----------------------------
(***************************************************************************)
(* What the two polynomial backends of src/src/poly have in common: a      *)
(* polynomial is a sequence of terms [c, m] in strictly descending order   *)
(* of monomials without zero coefficients.                                 *)
(***************************************************************************)
EXTENDS Polynomials, SequencesExt

TermSpace == [c : 0 .. P - 1, m : Monomial]

(* The polynomial that a sequence of terms stands for. *)
ValueOf(ts) ==
  LET at(m) == CHOOSE k \in DOMAIN ts : ts[k].m = m
  IN  Poly([m \in {ts[k].m : k \in DOMAIN ts} |-> ts[at(m)].c])

CanonicalTerms(ts) ==
  /\ \A k \in DOMAIN ts : ts[k].c # 0
  /\ \A k \in 2 .. Len(ts) : Less(ts[k].m, ts[k - 1].m)

Negated(ts) == [k \in DOMAIN ts |-> [ts[k] EXCEPT !.c = (P - @) % P]]

Scaled(c, ts) == [k \in DOMAIN ts |-> [ts[k] EXCEPT !.c = (c * @) % P]]

Shifted(m, ts) == [k \in DOMAIN ts |-> [ts[k] EXCEPT !.m = Mul(m, @)]]

(* Sorted by descending monomial; equal ones keep their order. *)
Sorted(ts) ==
  LET ahead(k) == {l \in DOMAIN ts : \/ Less(ts[k].m, ts[l].m)
                                     \/ ts[l].m = ts[k].m /\ l < k}
  IN  [n \in DOMAIN ts |-> ts[CHOOSE k \in DOMAIN ts : Cardinality(ahead(k)) = n - 1]]

(* Mutant of Surviving: a sum of zero is kept. *)
SurvivingZeros(ts) ==
  LET sorted == Sorted(ts)
      kept[n \in 0 .. Len(sorted)] ==
        IF n = 0 THEN << >>
        ELSE LET so_far == kept[n - 1]
                 t      == sorted[n]
             IN  IF t.c = 0 THEN so_far
                 ELSE IF so_far = << >> \/ so_far[Len(so_far)].m # t.m THEN Append(so_far, t)
                 ELSE Append(Front(so_far), [t EXCEPT !.c = (@ + Last(so_far).c) % P])
  IN  kept[Len(sorted)]

(* from_terms: sort descending, skip zeros, add a term to the last one     *)
(* kept if it has the same monomial, and give that up if the sum is zero.  *)
Surviving(ts) ==
  LET sorted == Sorted(ts)
      kept[n \in 0 .. Len(sorted)] ==
        IF n = 0 THEN << >>
        ELSE LET so_far == kept[n - 1]
                 t      == sorted[n]
             IN  IF t.c = 0 THEN so_far
                 ELSE IF so_far = << >> \/ so_far[Len(so_far)].m # t.m THEN Append(so_far, t)
                 ELSE IF (t.c + Last(so_far).c) % P = 0 THEN Front(so_far)
                 ELSE Append(Front(so_far), [t EXCEPT !.c = (@ + Last(so_far).c) % P])
  IN  kept[Len(sorted)]

(* mul: every product of two terms, row by row. *)
Products(ts, us) ==
  FlattenSeq([k \in DOMAIN ts |-> Scaled(ts[k].c, Shifted(ts[k].m, us))])
=============================================================================

------------------------------ MODULE PolyVec ------------------------------
(***************************************************************************)
(* The flat-array backend, src/src/poly/poly_vec.rs: a polynomial is the   *)
(* record of its term array (the parallel vectors coeffs and terms), the   *)
(* number of dead terms in front of the live ones, and the cached leading  *)
(* term, << >> for zero.  The cached sev and degree are functions of the   *)
(* cached monomial.  Nothing is shared and nothing is reused, so that      *)
(* every operation is a function of its operands.                          *)
(***************************************************************************)
EXTENDS TermLists

Live(p) == SubSeq(p.terms, p.head + 1, Len(p.terms))

VecIsZero(p) == p.head = Len(p.terms)

(* refresh_cache, on the way out of every constructor. *)
LeadOf(terms, head) ==
  IF head = Len(terms) THEN << >> ELSE <<terms[head + 1].c, terms[head + 1].m>>

Vec(terms) == [terms |-> terms, head |-> 0, lead |-> LeadOf(terms, 0)]

VecZero == [terms |-> << >>, head |-> 0, lead |-> << >>]

(* Only the live part is cloned, and the cache with it. *)
VecClone(p) == [terms |-> Live(p), head |-> 0, lead |-> p.lead]

VecFromTerms(ts) == Vec(Surviving(ts))

VecDropLeading(p) ==
  IF Len(p.terms) - p.head <= 1 THEN VecZero ELSE Vec(Tail(Live(p)))

(* Mutant of VecDropLeadingInPlace: the cache keeps the dropped term. *)
VecDropLeadingStale(p) ==
  IF VecIsZero(p) THEN p ELSE [p EXCEPT !.head = @ + 1]

VecDropLeadingInPlace(p) ==
  IF VecIsZero(p) THEN p
  ELSE [p EXCEPT !.head = @ + 1, !.lead = LeadOf(p.terms, p.head + 1)]

(* One turn of the two-pointer merge of ts and k times us: the larger term *)
(* at hand goes to the output, two equal ones are added and go there       *)
(* unless they cancel, and what is left of either operand follows.         *)
MergeTurn(ts, k, us, s) ==
  LET t       == ts[s.i]
      u       == us[s.j]
      sum     == (t.c + k * u.c) % P
      left    == s.i <= Len(ts)
      right   == s.j <= Len(us)
      greater == left /\ (~right \/ Less(u.m, t.m))
      less    == right /\ (~left \/ Less(t.m, u.m))
  IN  [i   |-> IF left /\ ~less THEN s.i + 1 ELSE s.i,
       j   |-> IF right /\ ~greater THEN s.j + 1 ELSE s.j,
       out |-> IF greater THEN Append(s.out, t)
               ELSE IF less THEN s.out \o Scaled(k, <<u>>)
               ELSE IF left /\ sum # 0 THEN Append(s.out, [t EXCEPT !.c = sum])
               ELSE s.out]

MergedTerms(ts, k, us) ==
  LET turn[n \in 0 .. Len(ts) + Len(us)] ==
        IF n = 0 THEN [i |-> 1, j |-> 1, out |-> << >>]
        ELSE MergeTurn(ts, k, us, turn[n - 1])
  IN  turn[Len(ts) + Len(us)].out

VecMerge(a, b, subtract) ==
  Vec(MergedTerms(Live(a), IF subtract THEN P - 1 ELSE 1, Live(b)))

VecAdd(a, b) ==
  IF VecIsZero(b) THEN VecClone(a)
  ELSE IF VecIsZero(a) THEN VecClone(b)
  ELSE VecMerge(a, b, FALSE)

(* add_assign leaves a as it is when b is zero, dead terms included. *)
VecAddAssign(a, b) ==
  IF VecIsZero(b) THEN a
  ELSE IF VecIsZero(a) THEN VecClone(b)
  ELSE VecMerge(a, b, FALSE)

VecNeg(p) == Vec(Negated(Live(p)))

VecSub(a, b) ==
  IF VecIsZero(b) THEN VecClone(a)
  ELSE IF VecIsZero(a) THEN VecNeg(b)
  ELSE VecMerge(a, b, TRUE)

VecScale(c, p) == IF c = 0 \/ VecIsZero(p) THEN VecZero ELSE Vec(Scaled(c, Live(p)))

VecShift(m, p) == IF VecIsZero(p) THEN VecZero ELSE Vec(Shifted(m, Live(p)))

VecMul(a, b) ==
  IF VecIsZero(a) \/ VecIsZero(b) THEN VecZero
  ELSE VecFromTerms(Products(Live(a), Live(b)))

VecSubMulTerm(p, c, m, q) ==
  IF c = 0 \/ VecIsZero(q) THEN VecClone(p)
  ELSE Vec(MergedTerms(Live(p), P - c, Shifted(m, Live(q))))

(* monic reads the leading coefficient from the cache. *)
VecMonic(p) ==
  IF VecIsZero(p) THEN VecZero
  ELSE IF p.lead[1] = 1 THEN VecClone(p)
  ELSE VecScale(Invert(p.lead[1]), p)

(* assert_canonical. *)
VecCanonical(p) ==
  /\ p.head <= Len(p.terms)
  /\ CanonicalTerms(Live(p))
  /\ p.lead = LeadOf(p.terms, p.head)
=============================================================================

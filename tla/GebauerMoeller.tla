--------------------------- MODULE GebauerMoeller ---------------------------
(***************************************************************************)
(* S-pairs and the Gebauer-Moeller criteria that decide which of them are  *)
(* kept: src/src/gm.rs for the serial driver and the same rules once more  *)
(* in src/src/parallel.rs.                                                 *)
(***************************************************************************)
EXTENDS Reduction, Pairs

(* Mutant of MkPair: the sugar of h is not lifted to the lcm. *)
MkPairLowSugar(polys, s, h, hSugar, arrival) ==
  [i |-> s, j |-> h, lcm |-> Lcm(LM(polys[s]), LM(polys[h])),
   sugar |-> hSugar, arrival |-> arrival]

(* The pair of elements s and h, s < h.  The sugar is the larger of the    *)
(* sugars of the two multiples that meet in the lcm; the older element's   *)
(* own sugar is taken to be its leading degree, so its side is deg(lcm).   *)
MkPair(polys, s, h, hSugar, arrival) ==
  LET lcm  == Lcm(LM(polys[s]), LM(polys[h]))
      side == hSugar + (Deg(lcm) - Deg(LM(polys[h])))
  IN  [i |-> s, j |-> h, lcm |-> lcm,
       sugar |-> IF side > Deg(lcm) THEN side ELSE Deg(lcm),
       arrival |-> arrival]

(* The older elements that get a pair with h, in index order: the active   *)
(* ones whose leading monomial is not coprime to h's (product criterion).  *)
Partners(polys, redundant, h) ==
  LET kept(s) == ~redundant[s] /\ ~Coprime(LM(polys[s]), LM(polys[h]))
      upTo[s \in 0 .. h - 1] ==
        IF s = 0 THEN << >>
        ELSE IF kept(s) THEN Append(upTo[s - 1], s) ELSE upTo[s - 1]
  IN  upTo[h - 1]

(* A candidate is chain-implied by another whose lcm divides its own; of   *)
(* equal lcms the first in B stays.                                        *)
ChainImplied(b, k) ==
  \E m \in DOMAIN b : /\ Divides(b[m].lcm, b[k].lcm)
                      /\ b[m].lcm # b[k].lcm \/ m < k

SwapRemove(s, k) ==
  LET front == SubSeq(s, 1, Len(s) - 1)
  IN  IF k = Len(s) THEN front ELSE [front EXCEPT ![k] = s[Len(s)]]

(* Drop the chain-implied candidates, from the last position to the first, *)
(* by swap-removal: this fixes the order in which the survivors are merged.*)
ChainCritB(b) ==
  LET n == Len(b)
      after[k \in 0 .. n] ==
        IF k = 0 THEN b
        ELSE LET at == n + 1 - k
             IN  IF ChainImplied(b, at) THEN SwapRemove(after[k - 1], at)
                                        ELSE after[k - 1]
  IN  after[n]

(* Mutant of ChainCritL: the test that neither lcm collapses is dropped. *)
ChainCritLUnguarded(polys, l, h) ==
  {p \in l : /\ p.i # h /\ p.j # h
             /\ {p.i, p.j} \subseteq DOMAIN polys
             /\ Divides(LM(polys[h]), p.lcm)}

(* The queued pairs that the new element h makes superfluous: h's leading  *)
(* monomial divides the lcm, and neither side's lcm with h collapses onto  *)
(* it.                                                                     *)
ChainCritL(polys, l, h) ==
  {p \in l : /\ p.i # h /\ p.j # h
             /\ {p.i, p.j} \subseteq DOMAIN polys
             /\ Divides(LM(polys[h]), p.lcm)
             /\ Lcm(LM(polys[p.i]), LM(polys[h])) # p.lcm
             /\ Lcm(LM(polys[p.j]), LM(polys[h])) # p.lcm}
=============================================================================

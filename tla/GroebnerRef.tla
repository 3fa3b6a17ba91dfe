---------------------------- MODULE GroebnerRef ----------------------------
(***************************************************************************)
(* The reference the drivers are compared with: the textbook Buchberger    *)
(* algorithm without pair queue, criteria, sugar or redundancy flags, and  *)
(* the unique reduced basis it leads to.  Only used by TLC's runs.         *)
(***************************************************************************)
EXTENDS Polynomials

(* The normal form of p, every term of it, modulo the finite set G. *)
RECURSIVE NormalForm(_, _)
NormalForm(p, G) ==
  IF p = Zero THEN Zero
  ELSE LET ds == {g \in G : Divides(LM(g), LM(p))}
       IN  IF ds = {}
           THEN PrependLeading(LC(p), LM(p), NormalForm(DropLeading(p), G))
           ELSE LET g == CHOOSE g \in ds : TRUE
                IN  NormalForm(MinusMMultP(p, Div(LM(p), LM(g)),
                                           (LC(p) * Invert(LC(g))) % P, g), G)

(* The nonzero normal forms of all S-polynomials: none is left exactly     *)
(* when G is a Groebner basis (Buchberger's criterion).                    *)
Remainders(G) ==
  {NormalForm(SPoly(fg[1], fg[2], Lcm(LM(fg[1]), LM(fg[2]))), G) :
     fg \in {h \in G \X G : h[1] # h[2] /\ ~Less(LM(h[1]), LM(h[2]))}} \ {Zero}

RECURSIVE Buchberger(_)
Buchberger(G) ==
  LET rs == Remainders(G)
      smallest == CHOOSE r \in rs : \A q \in rs : ~Less(LM(q), LM(r))
  IN  IF rs = {} THEN G ELSE Buchberger(G \cup {Monic(smallest)})

RECURSIVE Interreduce(_)
Interreduce(G) ==
  LET loose == {g \in G : NormalForm(g, G \ {g}) # g}
  IN  IF loose = {} THEN G
      ELSE LET g == CHOOSE g \in loose : TRUE
               r == NormalForm(g, G \ {g})
           IN  Interreduce((G \ {g}) \cup (IF r = Zero THEN {} ELSE {Monic(r)}))

(* The reduced Groebner basis of the ideal the sequence ps generates. *)
ReducedBasis(ps) ==
  LET gens == {Monic(ps[k]) : k \in {n \in DOMAIN ps : ps[n] # Zero}}
  IN  Interreduce(Buchberger(gens))
=============================================================================

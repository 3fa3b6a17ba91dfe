------------------------------ MODULE MCDrivers ------------------------------
(***************************************************************************)
(* Instances of the drivers on one thread for TLC: three variables,        *)
(* characteristic 3, and the generators of small ideals in every order.    *)
(***************************************************************************)
EXTENDS Drivers, Validate, TLC

Ref == INSTANCE GroebnerRef

Term(c, x, y, z) == <<x, y, z>> :> c

(* x^2 y + z, y^2 z + x, x z^2 + 2y, and a generator that the first of     *)
(* them covers, x^2 y z + 1: both chain criteria and the product criterion *)
(* drop pairs, and elements become redundant.                              *)
Generators ==
  << Poly(Term(1, 2, 1, 0) @@ Term(1, 0, 0, 1)),
     Poly(Term(1, 0, 2, 1) @@ Term(1, 1, 0, 0)),
     Poly(Term(1, 1, 0, 2) @@ Term(2, 0, 1, 0)),
     Poly(Term(2, 2, 1, 1) @@ Term(1, 0, 0, 0)) >>

(* x + y + z, x y + y z + z x, x y z + 2: the cyclic roots, whose leading  *)
(* monomials share variables only after a first round of pairs.            *)
Cyclic ==
  << Poly(Term(1, 1, 0, 0) @@ Term(1, 0, 1, 0) @@ Term(1, 0, 0, 1)),
     Poly(Term(1, 1, 1, 0) @@ Term(1, 0, 1, 1) @@ Term(1, 1, 0, 1)),
     Poly(Term(1, 1, 1, 1) @@ Term(2, 0, 0, 0)) >>

(* x + 2y + 2z + 2, x^2 + 2y^2 + 2z^2 + 2x, 2xy + 2yz + 2y: Katsura's      *)
(* system, where pairs of equal sugar compete and tails are long.          *)
Katsura ==
  << Poly(Term(1, 1, 0, 0) @@ Term(2, 0, 1, 0) @@ Term(2, 0, 0, 1) @@ Term(2, 0, 0, 0)),
     Poly(Term(1, 2, 0, 0) @@ Term(2, 0, 2, 0) @@ Term(2, 0, 0, 2) @@ Term(2, 1, 0, 0)),
     Poly(Term(2, 1, 1, 0) @@ Term(2, 0, 1, 1) @@ Term(2, 0, 1, 0)) >>

InEveryOrder(s) == {[k \in DOMAIN s |-> s[f[k]]] : f \in Permutations(DOMAIN s)}

(* Each system in every order; a zero and a constant among the inputs; one *)
(* of them twice; nothing at all.                                          *)
InputSeqsOrdered ==
  InEveryOrder(Generators) \cup InEveryOrder(SubSeq(Generators, 1, 3))
  \cup InEveryOrder(Cyclic) \cup InEveryOrder(Katsura)
  \cup {<<Generators[1], Zero, Generators[4]>>,
        <<Generators[1], Poly(Term(2, 0, 0, 0)), Generators[2]>>,
        <<Generators[2], Generators[2], Generators[3]>>,
        <<Zero>>, << >>}

(* y z^2 + z, y^2 z + z, x^2 y^2 + z: the third element's pair with the    *)
(* second keeps arrival 2 and is alone in the queue, and the fourth        *)
(* element's pairs are stamped from 2 again.                               *)
InputSeqsStamped ==
  {<<Poly(Term(1, 0, 1, 2) @@ Term(1, 0, 0, 1)),
     Poly(Term(1, 0, 2, 1) @@ Term(1, 0, 0, 1)),
     Poly(Term(1, 2, 2, 0) @@ Term(1, 0, 0, 1))>>}

(* A call returns the unique reduced Groebner basis of its inputs, sorted  *)
(* ascending, with either driver and either reducer and in whatever order  *)
(* the inputs come (bba.rs:36-56, f4.rs:63-140).                           *)
ResultIsReducedBasis ==
  Done =>
    /\ {out[k] : k \in DOMAIN out} = Ref!ReducedBasis(given)
    /\ \A k \in 2 .. Len(out) : Less(LM(out[k - 1]), LM(out[k]))

(* A returned basis passes the validator, and no proper part of it does    *)
(* (validate.rs:11-26): a tester that accepts everything, or that forgets  *)
(* the inputs, would not notice an element that a driver lost.             *)
ValidatorAgrees ==
  Done =>
    /\ IsGroebnerBasis(given, out)
    /\ \A k \in DOMAIN out :
         ~IsGroebnerBasis(given, SubSeq(out, 1, k - 1) \o SubSeq(out, k + 1, Len(out)))
=============================================================================

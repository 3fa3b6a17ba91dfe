--------------------------- MODULE MCParallelBba ---------------------------
(***************************************************************************)
(* Instances of the parallel driver for TLC, and the property that needs   *)
(* the reference computation.                                              *)
(***************************************************************************)
EXTENDS ParallelBba, TLC

Ref == INSTANCE GroebnerRef

(* x^2 + y, xy + x: one S-polynomial, one new element. *)
InputsSmall ==
  << Poly((<<2, 0>> :> 1) @@ (<<0, 1>> :> 1)),
     Poly((<<1, 1>> :> 1) @@ (<<1, 0>> :> 1)) >>

(* x^2 + y, xy + x, y^2 + x: two workers compete for the first pairs.      *)
InputsCrossed ==
  << Poly((<<2, 0>> :> 1) @@ (<<0, 1>> :> 1)),
     Poly((<<1, 1>> :> 1) @@ (<<1, 0>> :> 1)),
     Poly((<<0, 2>> :> 1) @@ (<<1, 0>> :> 1)) >>

(* x^2 y + z, y^2 z + x, x z^2 + 2y: both chain criteria and the product   *)
(* criterion drop pairs.                                                   *)
InputsThreeVars ==
  << Poly((<<2, 1, 0>> :> 1) @@ (<<0, 0, 1>> :> 1)),
     Poly((<<0, 2, 1>> :> 1) @@ (<<1, 0, 0>> :> 1)),
     Poly((<<1, 0, 2>> :> 1) @@ (<<0, 1, 0>> :> 2)) >>

Reference == Ref!ReducedBasis(Inputs)

(* Whatever the interleaving, a call that returns a basis returns the      *)
(* unique reduced Groebner basis of its inputs, sorted ascending.          *)
ResultIsReducedBasis ==
  result = "ok" =>
    /\ {out[k] : k \in DOMAIN out} = Reference
    /\ \A k \in 2 .. Len(out) : Less(LM(out[k - 1]), LM(out[k]))
=============================================================================

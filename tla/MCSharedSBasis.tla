--------------------------- MODULE MCSharedSBasis ---------------------------
(***************************************************************************)
(* Instances of the shared basis for TLC: the leading monomials x^2 and x  *)
(* of one variable, so that a pushed element may cover an older one.       *)
(***************************************************************************)
EXTENDS SharedSBasis

Powers == {<<1>>, <<2>>}
=============================================================================

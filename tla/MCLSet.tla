------------------------------- MODULE MCLSet -------------------------------
(***************************************************************************)
(* Instances of the pair queue for TLC: the pairs of elements 0, 1 and of  *)
(* 0, 2, with two sugars and two arrivals each, so that a pair inserted    *)
(* again may come before or after the one it replaces.  Deletions may also *)
(* name the elements 1 and 2, which never have a pair.                     *)
(***************************************************************************)
EXTENDS LSet

Indices == 0 .. 2

SomePairs == [i : {0}, j : {1, 2}, sugar : {1, 2}, arrival : {1, 2}]
=============================================================================

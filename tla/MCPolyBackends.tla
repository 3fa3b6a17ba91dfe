--------------------------- MODULE MCPolyBackends ---------------------------
(***************************************************************************)
(* Instances of the polynomial backends for TLC: one variable.             *)
(***************************************************************************)
EXTENDS PolyBackends

Powers == {<<d>> : d \in 0 .. 1}

(* The descending term sequences over the monomials of degree up to two.   *)
SomePolys ==
  {[k \in 1 .. Len(s) |-> Term(s[k][1], <<s[k][2]>>)] :
     s \in {<< >>, <<<<2, 1>>>>, <<<<1, 1>>, <<2, 0>>>>, <<<<1, 2>>, <<1, 0>>>>,
            <<<<2, 2>>, <<2, 1>>, <<1, 0>>>>, <<<<1, 2>>, <<2, 1>>, <<1, 0>>>>}}

(* x + 0 + 1 + 2x + x + 1, which cancels on the way, and 1 + 2.            *)
SomeTermSeqs ==
  {<<Term(1, <<1>>), Term(0, <<2>>), Term(1, <<0>>), Term(2, <<1>>), Term(1, <<1>>),
     Term(1, <<0>>)>>,
   <<Term(1, <<0>>), Term(2, <<0>>)>>}
=============================================================================

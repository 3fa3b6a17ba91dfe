----------------------------- MODULE PairQueue -----------------------------
(***************************************************************************)
(* What LSet promises (src/src/lset.rs:62-67): a set of live pairs, at     *)
(* most one for two indices, from which the pair with the smallest sugar,  *)
(* the oldest on ties, comes out first.  No heap, no keys, no tombstones.  *)
(***************************************************************************)
EXTENDS Pairs

CONSTANTS Pair, Index, NoPair    \* the pairs, the indices, what pop answers when empty

VARIABLES
  queue,     \* the set of live pairs
  answer     \* what the last operation returned: a pair or NoPair, and a flag

Answer(p, flag) == [pair |-> p, flag |-> flag]

Init == queue = {} /\ answer = Answer(NoPair, FALSE)

(* At most one live pair per two indices: the newer one stays. *)
Insert(p) ==
  /\ queue' = InsertPairs(queue, <<p>>)
  /\ answer' = Answer(p, TRUE)

Pop ==
  IF queue = {}
  THEN queue' = {} /\ answer' = Answer(NoPair, FALSE)
  ELSE /\ queue' = queue \ {NextPair(queue)}
       /\ answer' = Answer(NextPair(queue), TRUE)

(* The order of the two indices does not matter; the answer is whether     *)
(* there was such a pair.                                                  *)
Delete(a, b) ==
  LET named == {p \in queue : {p.i, p.j} = {a, b}}
  IN  queue' = queue \ named /\ answer' = Answer(NoPair, named # {})

Next ==
  \/ \E p \in Pair : Insert(p)
  \/ Pop
  \/ \E a, b \in Index : Delete(a, b)

Spec == Init /\ [][Next]_<<queue, answer>>
=============================================================================

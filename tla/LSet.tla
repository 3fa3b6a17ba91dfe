------------------------------- MODULE LSet -------------------------------
(***************************************************************************)
(* The S-pair queue of src/src/lset.rs: a binary heap whose entries are    *)
(* deleted logically, by a tombstone that pop consumes, and an index from  *)
(* two basis indices to the key of their live pair.  Every operation runs  *)
(* under &mut self (and, in the parallel driver, under the L lock), so it  *)
(* is one step.                                                            *)
(*                                                                         *)
(* The BinaryHeap is the set of its entries: their keys differ, so that no *)
(* two are equal, and all that is asked of it is the smallest.             *)
(***************************************************************************)
EXTENDS Pairs, FiniteSets

CONSTANTS
  Pair,         \* the pairs a caller may insert, i < j
  Index,        \* the basis indices
  NoPair,       \* None
  MaxInserts    \* bound of the model: how often insert is called

ASSUME MaxInsertsAssumption == MaxInserts \in Nat
ASSUME PairAssumption ==
  /\ \A p \in Pair : p.i \in Index /\ p.j \in Index /\ p.i < p.j
                     /\ p.sugar \in Nat /\ p.arrival \in Nat
  /\ Index \subseteq Nat

VARIABLES
  heap,         \* entries [pair, key]
  deleted,      \* the keys of tombstoned entries
  by_indices,   \* a function from <<i, j>> to the key of the live pair
  next_key,
  live,
  answer        \* what the last operation returned: a pair or None, and a flag

vars == <<heap, deleted, by_indices, next_key, live, answer>>

Answer(p, flag) == [pair |-> p, flag |-> flag]

Init ==
  /\ heap = {}
  /\ deleted = {}
  /\ by_indices = << >>
  /\ next_key = 1
  /\ live = 0
  /\ answer = Answer(NoPair, FALSE)

Ij(p) == <<p.i, p.j>>

(* HeapEntry's order: the pair, then the key. *)
EntryBefore(e, f) ==
  \/ PairBefore(e.pair, f.pair)
  \/ e.pair.sugar = f.pair.sugar /\ e.pair.arrival = f.pair.arrival
       /\ Ij(e.pair) = Ij(f.pair) /\ e.key < f.key

LiveEntries == {e \in heap : e.key \notin deleted}

(* Mutant of Insert: the live pair with the same indices gets no tombstone.*)
InsertOverLive(p) ==
  /\ next_key <= MaxInserts
  /\ next_key' = next_key + 1
  /\ heap' = heap \cup {[pair |-> p, key |-> next_key]}
  /\ by_indices' = [ij \in DOMAIN by_indices \cup {Ij(p)} |->
                      IF ij = Ij(p) THEN next_key ELSE by_indices[ij]]
  /\ live' = live + 1
  /\ answer' = Answer(p, TRUE)
  /\ UNCHANGED deleted

(* A live pair with the same indices gets a tombstone; the new one takes   *)
(* its place in the index.                                                 *)
Insert(p) ==
  LET replaced == {by_indices[ij] : ij \in DOMAIN by_indices \cap {Ij(p)}} \ deleted
  IN  /\ next_key <= MaxInserts
      /\ next_key' = next_key + 1
      /\ heap' = heap \cup {[pair |-> p, key |-> next_key]}
      /\ by_indices' = [ij \in DOMAIN by_indices \cup {Ij(p)} |->
                          IF ij = Ij(p) THEN next_key ELSE by_indices[ij]]
      /\ deleted' = deleted \cup replaced
      /\ live' = (live - Cardinality(replaced)) + 1
      /\ answer' = Answer(p, TRUE)

Without(ij) == [x \in DOMAIN by_indices \ {ij} |-> by_indices[x]]

(* Nothing live: the tombstoned entries are all consumed. *)
PopNone ==
  /\ LiveEntries = {}
  /\ heap' = {}
  /\ deleted' = deleted \ {e.key : e \in heap}
  /\ answer' = Answer(NoPair, FALSE)
  /\ UNCHANGED <<by_indices, next_key, live>>

(* The entries before the smallest live one are consumed on the way. *)
PopLive ==
  \E e \in LiveEntries :
    /\ \A f \in LiveEntries : f = e \/ EntryBefore(e, f)
    /\ heap' = {f \in heap : EntryBefore(e, f)}
    /\ deleted' = deleted \ {f.key : f \in {g \in heap : EntryBefore(g, e)}}
    /\ by_indices' = IF Ij(e.pair) \in DOMAIN by_indices
                          /\ by_indices[Ij(e.pair)] = e.key
                     THEN Without(Ij(e.pair)) ELSE by_indices
    /\ live' = live - 1
    /\ answer' = Answer(e.pair, TRUE)
    /\ UNCHANGED next_key

(* The indices in ascending order, as every operation wants them. *)
Ascending(a, b) == IF a < b THEN <<a, b>> ELSE <<b, a>>

DeleteNone(a, b) ==
  /\ Ascending(a, b) \notin DOMAIN by_indices
  /\ answer' = Answer(NoPair, FALSE)
  /\ UNCHANGED <<heap, deleted, by_indices, next_key, live>>

(* Mutant of DeleteLive: the entry gets no tombstone. *)
DeleteUnmarked(a, b) ==
  LET ij == Ascending(a, b)
  IN  /\ ij \in DOMAIN by_indices
      /\ by_indices' = Without(ij)
      /\ answer' = Answer(NoPair, TRUE)
      /\ live' = live - 1
      /\ UNCHANGED <<heap, deleted, next_key>>

(* The entry stays in the heap with a tombstone. *)
DeleteLive(a, b) ==
  LET ij == Ascending(a, b)
  IN  /\ ij \in DOMAIN by_indices
      /\ by_indices' = Without(ij)
      /\ deleted' = deleted \cup {by_indices[ij]}
      /\ answer' = Answer(NoPair, by_indices[ij] \notin deleted)
      /\ live' = IF by_indices[ij] \in deleted THEN live ELSE live - 1
      /\ UNCHANGED <<heap, next_key>>

Next ==
  \/ \E p \in Pair : Insert(p)
  \/ PopNone
  \/ PopLive
  \/ \E a, b \in Index : DeleteNone(a, b) \/ DeleteLive(a, b)

Spec == Init /\ [][Next]_vars

-----------------------------------------------------------------------------
(* The counters, keys and tombstones are well typed.                       *)
Typed ==
  /\ heap \subseteq [pair : Pair, key : 1 .. MaxInserts]
  /\ deleted \subseteq 1 .. MaxInserts
  /\ DOMAIN by_indices \subseteq Index \X Index
  /\ \A ij \in DOMAIN by_indices : by_indices[ij] \in 1 .. MaxInserts
  /\ next_key \in 1 .. MaxInserts + 1
  /\ live \in Nat

(* What assert_canonical checks and more (lset.rs:191-224): the index and  *)
(* the live entries name each other, so that delete and contains find      *)
(* exactly the live pairs; the count is right; every tombstone waits in    *)
(* the heap for the pop that consumes it.                                  *)
Canonical ==
  /\ Typed
  /\ \A e \in LiveEntries :
       Ij(e.pair) \in DOMAIN by_indices /\ by_indices[Ij(e.pair)] = e.key
  /\ \A ij \in DOMAIN by_indices :
       \E e \in LiveEntries : Ij(e.pair) = ij /\ e.key = by_indices[ij]
  /\ live = Cardinality(LiveEntries)
  /\ deleted \subseteq {e.key : e \in heap}

Queue == INSTANCE PairQueue WITH
           queue <- {e.pair : e \in LiveEntries},
           answer <- answer

(* Every operation has the effect and the answer of the plain queue's.     *)
ImplementsQueue == Queue!Spec
=============================================================================

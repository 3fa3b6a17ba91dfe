----------------------------- MODULE LSetProofs -----------------------------
(***************************************************************************)
(* The pair queue of src/src/lset.rs for every set of pairs and every      *)
(* number of insertions: the heap, the index and the tombstones always     *)
(* agree, and with every operation they are the plain queue of PairQueue.  *)
(***************************************************************************)
EXTENDS LSet, FiniteSetTheorems, TLAPS

(* The inductive invariant: keys are handed out once, so that the entries  *)
(* are told apart by them, and the heap is finite.                         *)
QueueInv ==
  /\ Canonical
  /\ IsFiniteSet(heap)
  /\ \A e \in heap : e.key < next_key
  /\ \A e, f \in heap : e.key = f.key => e = f

-----------------------------------------------------------------------------

(* The fields of an entry of the heap.                                     *)
LEMMA EntryFields ==
  ASSUME QueueInv, NEW e \in heap
  PROVE  /\ e.pair \in Pair /\ e.key \in Nat /\ e.key \in 1 .. MaxInserts
         /\ e = [pair |-> e.pair, key |-> e.key]
         /\ e.pair.i \in Nat /\ e.pair.j \in Nat /\ e.pair.i < e.pair.j
         /\ e.pair.sugar \in Nat /\ e.pair.arrival \in Nat
<1>1. e \in [pair : Pair, key : 1 .. MaxInserts]
  BY DEF QueueInv, Canonical, Typed
<1>2. e.pair \in Pair /\ e.key \in 1 .. MaxInserts /\ e = [pair |-> e.pair, key |-> e.key]
  BY <1>1
<1> QED
  BY <1>2, PairAssumption, MaxInsertsAssumption

(* The order of the heap is total on its entries and never holds both ways.*)
LEMMA EntryOrder ==
  ASSUME QueueInv, NEW e \in heap, NEW f \in heap
  PROVE  /\ e = f \/ EntryBefore(e, f) \/ EntryBefore(f, e)
         /\ ~(EntryBefore(e, f) /\ EntryBefore(f, e))
         /\ ~EntryBefore(e, e)
<1>1. /\ e.key \in Nat /\ f.key \in Nat
      /\ e.pair.i \in Nat /\ e.pair.j \in Nat /\ e.pair.sugar \in Nat /\ e.pair.arrival \in Nat
      /\ f.pair.i \in Nat /\ f.pair.j \in Nat /\ f.pair.sugar \in Nat /\ f.pair.arrival \in Nat
  BY EntryFields
<1>2. e.key = f.key => e = f
  BY DEF QueueInv
<1> QED
  BY <1>1, <1>2 DEF EntryBefore, PairBefore, Ij

(* Two live entries differ in their indices.                               *)
LEMMA LiveByIndices ==
  ASSUME QueueInv, NEW e \in LiveEntries, NEW f \in LiveEntries, Ij(e.pair) = Ij(f.pair)
  PROVE  e = f
<1>1. e.key = f.key
  BY DEF QueueInv, Canonical
<1> QED
  BY <1>1 DEF QueueInv, LiveEntries

(* The live entries are finitely many; one more or one less counts as one. *)
LEMMA LiveCount ==
  ASSUME QueueInv
  PROVE  /\ IsFiniteSet(LiveEntries)
         /\ Cardinality(LiveEntries) \in Nat
         /\ \A e \in LiveEntries : Cardinality(LiveEntries \ {e}) = Cardinality(LiveEntries) - 1
<1>1. LiveEntries \subseteq heap /\ IsFiniteSet(heap)
  BY DEF LiveEntries, QueueInv
<1>2. IsFiniteSet(LiveEntries)
  BY <1>1, FS_Subset
<1>3. Cardinality(LiveEntries) \in Nat
  BY <1>2, FS_CardinalityType
<1> QED
  BY <1>2, <1>3, FS_RemoveElement

(* The entry of the index for two indices is the key of a live entry.      *)
LEMMA IndexedEntry ==
  ASSUME QueueInv, NEW ij \in DOMAIN by_indices
  PROVE  \E e \in LiveEntries :
           /\ Ij(e.pair) = ij /\ e.key = by_indices[ij] /\ by_indices[ij] \notin deleted
           /\ {f \in LiveEntries : Ij(f.pair) # ij} = LiveEntries \ {e}
           /\ {f \in LiveEntries : f.key # by_indices[ij]} = LiveEntries \ {e}
<1>1. PICK e \in LiveEntries : Ij(e.pair) = ij /\ e.key = by_indices[ij]
  BY DEF QueueInv, Canonical
<1>2. by_indices[ij] \notin deleted
  BY <1>1 DEF LiveEntries
<1>3. \A f \in LiveEntries : f # e => Ij(f.pair) # ij
  BY <1>1, LiveByIndices
<1>4. \A f \in LiveEntries : f # e => f.key # by_indices[ij]
  BY <1>1 DEF LiveEntries, QueueInv
<1> QED
  BY <1>1, <1>2, <1>3, <1>4

-----------------------------------------------------------------------------

LEMMA InitQueueInv == Init => QueueInv
<1> SUFFICES ASSUME Init PROVE QueueInv
  OBVIOUS
<1>1. LiveEntries = {} /\ heap = {}
  BY DEF Init, LiveEntries
<1>2. IsFiniteSet({}) /\ Cardinality({}) = 0
  BY FS_EmptySet
<1>3. DOMAIN by_indices = {}
  BY DEF Init
<1>4. Typed
  BY <1>3, MaxInsertsAssumption DEF Init, Typed
<1> QED
  BY <1>1, <1>2, <1>3, <1>4 DEF Init, QueueInv, Canonical

(* After an insertion the live entries are those of other indices and the  *)
(* new one.                                                                *)
LEMMA InsertLive ==
  ASSUME QueueInv, NEW p \in Pair, Insert(p)
  PROVE  /\ LiveEntries' = {e \in LiveEntries : Ij(e.pair) # Ij(p)}
                             \cup {[pair |-> p, key |-> next_key]}
         /\ [pair |-> p, key |-> next_key] \notin LiveEntries
         /\ live' = Cardinality(LiveEntries')
         /\ deleted' \subseteq {e.key : e \in heap}
<1> DEFINE new == [pair |-> p, key |-> next_key]
           others == {e \in LiveEntries : Ij(e.pair) # Ij(p)}
           replaced == {by_indices[ij] : ij \in DOMAIN by_indices \cap {Ij(p)}} \ deleted
<1>1. /\ heap' = heap \cup {new} /\ deleted' = deleted \cup replaced
      /\ live' = (live - Cardinality(replaced)) + 1
  BY DEF Insert
<1>2. new \notin heap /\ new.key = next_key /\ next_key \notin {e.key : e \in heap}
  BY EntryFields DEF QueueInv, Canonical, Typed
<1>3. deleted \subseteq {e.key : e \in heap} /\ live = Cardinality(LiveEntries)
  BY DEF QueueInv, Canonical
<1>4. CASE Ij(p) \in DOMAIN by_indices
  <2>1. PICK e \in LiveEntries :
          /\ Ij(e.pair) = Ij(p) /\ e.key = by_indices[Ij(p)] /\ by_indices[Ij(p)] \notin deleted
          /\ others = LiveEntries \ {e}
          /\ {f \in LiveEntries : f.key # by_indices[Ij(p)]} = LiveEntries \ {e}
    BY <1>4, IndexedEntry
  <2>2. replaced = {e.key}
    BY <1>4, <2>1
  <2>3. e \in heap
    BY DEF LiveEntries
  <2>4. LiveEntries' = others \cup {new}
    BY <1>1, <1>2, <1>3, <2>1, <2>2, <2>3 DEF LiveEntries
  <2>5. new \notin others /\ IsFiniteSet(others)
        /\ Cardinality(others) = Cardinality(LiveEntries) - 1
    BY <1>2, <2>1, LiveCount, FS_RemoveElement DEF LiveEntries
  <2>6. Cardinality(LiveEntries') = Cardinality(others) + 1
    BY <2>4, <2>5, FS_AddElement
  <2>7. Cardinality(replaced) = 1
    BY <2>2, FS_Singleton
  <2>8. live' = Cardinality(LiveEntries')
    BY <1>1, <1>3, <2>5, <2>6, <2>7, LiveCount
  <2> QED
    BY <1>1, <1>2, <1>3, <2>2, <2>3, <2>4, <2>8 DEF LiveEntries
<1>5. CASE Ij(p) \notin DOMAIN by_indices
  <2>1. replaced = {} /\ deleted' = deleted
    BY <1>1, <1>5
  <2>2. others = LiveEntries
    BY <1>5 DEF QueueInv, Canonical
  <2>3. LiveEntries' = others \cup {new}
    BY <1>1, <1>2, <1>3, <2>1, <2>2 DEF LiveEntries
  <2>4. new \notin LiveEntries
    BY <1>2 DEF LiveEntries
  <2>5. Cardinality(LiveEntries') = Cardinality(LiveEntries) + 1
    BY <2>2, <2>3, <2>4, LiveCount, FS_AddElement
  <2>6. Cardinality(replaced) = 0
    BY <2>1, FS_EmptySet
  <2>7. live' = Cardinality(LiveEntries')
    BY <1>1, <1>3, <2>5, <2>6, LiveCount
  <2> QED
    BY <1>3, <2>1, <2>3, <2>4, <2>7
<1> QED
  BY <1>4, <1>5

LEMMA InsertKeepsQueueInv ==
  ASSUME QueueInv, NEW p \in Pair, Insert(p)
  PROVE  QueueInv'
<1> DEFINE new == [pair |-> p, key |-> next_key]
<1>1. /\ heap' = heap \cup {new} /\ next_key' = next_key + 1 /\ next_key <= MaxInserts
      /\ by_indices' = [ij \in DOMAIN by_indices \cup {Ij(p)} |->
                          IF ij = Ij(p) THEN next_key ELSE by_indices[ij]]
  BY DEF Insert
<1>2. /\ LiveEntries' = {e \in LiveEntries : Ij(e.pair) # Ij(p)} \cup {new}
      /\ live' = Cardinality(LiveEntries')
      /\ deleted' \subseteq {e.key : e \in heap}
  BY InsertLive
<1>3. new.key = next_key /\ new.pair = p /\ next_key \in 1 .. MaxInserts
  BY <1>1, MaxInsertsAssumption DEF QueueInv, Canonical, Typed
<1>4. /\ IsFiniteSet(heap')
      /\ \A e \in heap' : e.key < next_key'
      /\ \A e, f \in heap' : e.key = f.key => e = f
  <2>1. IsFiniteSet(heap')
    BY <1>1, FS_AddElement DEF QueueInv
  <2>2. \A e \in heap : e.key \in Nat /\ e.key < next_key
    BY EntryFields DEF QueueInv
  <2> QED
    BY <1>1, <1>3, <2>1, <2>2 DEF QueueInv
<1>5. /\ \A e \in LiveEntries' :
           Ij(e.pair) \in DOMAIN by_indices' /\ by_indices'[Ij(e.pair)] = e.key
      /\ \A ij \in DOMAIN by_indices' :
           \E e \in LiveEntries' : Ij(e.pair) = ij /\ e.key = by_indices'[ij]
  <2>1. ASSUME NEW e \in LiveEntries'
        PROVE  Ij(e.pair) \in DOMAIN by_indices' /\ by_indices'[Ij(e.pair)] = e.key
    BY <1>1, <1>2, <1>3, <2>1 DEF QueueInv, Canonical
  <2>2. ASSUME NEW ij \in DOMAIN by_indices'
        PROVE  \E e \in LiveEntries' : Ij(e.pair) = ij /\ e.key = by_indices'[ij]
    <3>1. CASE ij = Ij(p)
      BY <1>1, <1>2, <1>3, <3>1
    <3>2. CASE ij # Ij(p)
      <4>1. ij \in DOMAIN by_indices /\ by_indices'[ij] = by_indices[ij]
        BY <1>1, <2>2, <3>2
      <4>2. PICK e \in LiveEntries : Ij(e.pair) = ij /\ e.key = by_indices[ij]
        BY <4>1 DEF QueueInv, Canonical
      <4> QED
        BY <1>2, <3>2, <4>1, <4>2
    <3> QED
      BY <3>1, <3>2
  <2> QED
    BY <2>1, <2>2
<1>6. Typed'
  <2>1. heap' \subseteq [pair : Pair, key : 1 .. MaxInserts]
    BY <1>1, <1>3 DEF QueueInv, Canonical, Typed
  <2>2. \A e \in heap : e.key \in 1 .. MaxInserts
    BY EntryFields
  <2>3. deleted' \subseteq 1 .. MaxInserts
    BY <1>2, <2>2
  <2>4. /\ DOMAIN by_indices' \subseteq Index \X Index
        /\ \A ij \in DOMAIN by_indices' : by_indices'[ij] \in 1 .. MaxInserts
    BY <1>1, <1>3, PairAssumption DEF QueueInv, Canonical, Typed, Ij
  <2>5. next_key' \in 1 .. MaxInserts + 1
    BY <1>1, <1>3, MaxInsertsAssumption
  <2>6. live' \in Nat
    <3>1. IsFiniteSet(heap') /\ LiveEntries' \subseteq heap'
      BY <1>4 DEF LiveEntries
    <3>2. Cardinality(LiveEntries') \in Nat
      BY <3>1, FS_Subset, FS_CardinalityType
    <3> QED
      BY <1>2, <3>2
  <2> QED
    BY <2>1, <2>3, <2>4, <2>5, <2>6 DEF Typed
<1>7. deleted' \subseteq {e.key : e \in heap'}
  BY <1>1, <1>2
<1> QED
  BY <1>2, <1>4, <1>5, <1>6, <1>7 DEF QueueInv, Canonical

(* Without the entry of one live pair, the invariant holds for the rest.   *)
LEMMA WithoutKeepsCanonical ==
  ASSUME QueueInv, NEW e \in LiveEntries,
         LiveEntries' = LiveEntries \ {e}, by_indices' = Without(Ij(e.pair)),
         live' = live - 1
  PROVE  /\ \A f \in LiveEntries' :
              Ij(f.pair) \in DOMAIN by_indices' /\ by_indices'[Ij(f.pair)] = f.key
         /\ \A ij \in DOMAIN by_indices' :
              \E f \in LiveEntries' : Ij(f.pair) = ij /\ f.key = by_indices'[ij]
         /\ DOMAIN by_indices' \subseteq Index \X Index
         /\ \A ij \in DOMAIN by_indices' : by_indices'[ij] \in 1 .. MaxInserts
         /\ live' = Cardinality(LiveEntries') /\ live' \in Nat
<1>1. /\ DOMAIN by_indices' = DOMAIN by_indices \ {Ij(e.pair)}
      /\ \A ij \in DOMAIN by_indices' : by_indices'[ij] = by_indices[ij]
  BY DEF Without
<1>2. \A f \in LiveEntries' : Ij(f.pair) # Ij(e.pair)
  BY LiveByIndices
<1>3. \A f \in LiveEntries' :
        Ij(f.pair) \in DOMAIN by_indices' /\ by_indices'[Ij(f.pair)] = f.key
  BY <1>1, <1>2 DEF QueueInv, Canonical
<1>4. \A ij \in DOMAIN by_indices' :
        \E f \in LiveEntries' : Ij(f.pair) = ij /\ f.key = by_indices'[ij]
  BY <1>1 DEF QueueInv, Canonical
<1>5. live' = Cardinality(LiveEntries')
  BY LiveCount DEF QueueInv, Canonical
<1>6. IsFiniteSet(LiveEntries')
  BY LiveCount, FS_RemoveElement
<1>7. live' \in Nat
  BY <1>5, <1>6, FS_CardinalityType
<1> QED
  BY <1>1, <1>3, <1>4, <1>5, <1>7 DEF QueueInv, Canonical, Typed

LEMMA PopKeepsQueueInv ==
  ASSUME QueueInv, NEW e \in LiveEntries,
         \A f \in LiveEntries : f = e \/ EntryBefore(e, f),
         heap' = {f \in heap : EntryBefore(e, f)},
         deleted' = deleted \ {f.key : f \in {g \in heap : EntryBefore(g, e)}},
         by_indices' = IF Ij(e.pair) \in DOMAIN by_indices
                            /\ by_indices[Ij(e.pair)] = e.key
                       THEN Without(Ij(e.pair)) ELSE by_indices,
         live' = live - 1, next_key' = next_key
  PROVE  QueueInv' /\ LiveEntries' = LiveEntries \ {e}
<1>1. e \in heap /\ e.key \notin deleted
  BY DEF LiveEntries
<1>2. ASSUME NEW f \in heap'
      PROVE  f.key \in deleted <=> f.key \in deleted'
  <2>1. ~EntryBefore(f, e) /\ f \in heap
    BY <1>1, <1>2, EntryOrder
  <2>2. f.key \notin {h.key : h \in {g \in heap : EntryBefore(g, e)}}
    BY <2>1 DEF QueueInv
  <2> QED
    BY <2>2
<1>3. LiveEntries' = LiveEntries \ {e}
  <2>1. ASSUME NEW f \in LiveEntries' PROVE f \in LiveEntries \ {e}
    <3>1. f \in heap /\ f.key \notin deleted /\ EntryBefore(e, f)
      BY <1>2, <2>1 DEF LiveEntries
    <3>2. f # e
      BY <1>1, <3>1, EntryOrder
    <3> QED
      BY <3>1, <3>2 DEF LiveEntries
  <2>2. ASSUME NEW f \in LiveEntries \ {e} PROVE f \in LiveEntries'
    <3>1. f \in heap' /\ f.key \notin deleted'
      BY DEF LiveEntries
    <3> QED
      BY <3>1 DEF LiveEntries
  <2> QED
    BY <2>1, <2>2
<1>4. by_indices' = Without(Ij(e.pair))
  BY DEF QueueInv, Canonical
<1>5. deleted' \subseteq {f.key : f \in heap'}
  <2>1. ASSUME NEW k \in deleted' PROVE k \in {f.key : f \in heap'}
    <3>1. PICK f \in heap : f.key = k
      BY <2>1 DEF QueueInv, Canonical
    <3>2. ~EntryBefore(f, e)
      BY <2>1, <3>1
    <3>3. f # e
      BY <1>1, <2>1, <3>1
    <3>4. EntryBefore(e, f)
      BY <1>1, <3>2, <3>3, EntryOrder
    <3> QED
      BY <3>1, <3>4
  <2> QED
    BY <2>1
<1>6. heap' \subseteq heap /\ IsFiniteSet(heap')
  BY FS_Subset DEF QueueInv
<1> HIDE DEF LiveEntries
<1>7. /\ \A f \in LiveEntries' :
           Ij(f.pair) \in DOMAIN by_indices' /\ by_indices'[Ij(f.pair)] = f.key
      /\ \A ij \in DOMAIN by_indices' :
           \E f \in LiveEntries' : Ij(f.pair) = ij /\ f.key = by_indices'[ij]
      /\ DOMAIN by_indices' \subseteq Index \X Index
      /\ \A ij \in DOMAIN by_indices' : by_indices'[ij] \in 1 .. MaxInserts
      /\ live' = Cardinality(LiveEntries') /\ live' \in Nat
  BY <1>3, <1>4, WithoutKeepsCanonical
<1>8. Typed'
  BY <1>6, <1>7 DEF Typed, QueueInv, Canonical
<1>9. Canonical'
  BY <1>5, <1>7, <1>8 DEF Canonical
<1> QED
  BY <1>3, <1>6, <1>9 DEF QueueInv

LEMMA PopNoneKeepsQueueInv ==
  ASSUME QueueInv, PopNone
  PROVE  QueueInv' /\ LiveEntries' = {}
<1>1. /\ heap' = {} /\ deleted' = {}
      /\ UNCHANGED <<by_indices, next_key, live>> /\ LiveEntries = {}
  BY DEF PopNone, QueueInv, Canonical
<1>2. LiveEntries' = {}
  BY <1>1 DEF LiveEntries
<1>3. IsFiniteSet(heap')
  BY <1>1, FS_EmptySet
<1>4. Typed'
  BY <1>1 DEF QueueInv, Canonical, Typed
<1> HIDE DEF LiveEntries
<1>5. Canonical'
  BY <1>1, <1>2, <1>4 DEF QueueInv, Canonical
<1> QED
  BY <1>1, <1>2, <1>3, <1>5 DEF QueueInv

LEMMA DeleteKeepsQueueInv ==
  ASSUME QueueInv, NEW a \in Index, NEW b \in Index, DeleteLive(a, b)
  PROVE  /\ QueueInv'
         /\ \E e \in LiveEntries :
              Ij(e.pair) = Ascending(a, b) /\ LiveEntries' = LiveEntries \ {e}
         /\ answer' = Answer(NoPair, TRUE)
<1> DEFINE ij == Ascending(a, b)
<1>1. /\ ij \in DOMAIN by_indices /\ by_indices' = Without(ij)
      /\ deleted' = deleted \cup {by_indices[ij]}
      /\ answer' = Answer(NoPair, by_indices[ij] \notin deleted)
      /\ live' = IF by_indices[ij] \in deleted THEN live ELSE live - 1
      /\ UNCHANGED <<heap, next_key>>
  BY DEF DeleteLive
<1> HIDE DEF ij
<1>2. PICK e \in LiveEntries :
        /\ Ij(e.pair) = ij /\ e.key = by_indices[ij] /\ by_indices[ij] \notin deleted
        /\ {f \in LiveEntries : f.key # by_indices[ij]} = LiveEntries \ {e}
  BY <1>1, IndexedEntry
<1>3. LiveEntries' = {f \in LiveEntries : f.key # by_indices[ij]}
  BY <1>1 DEF LiveEntries
<1>4. e \in heap
  BY DEF LiveEntries
<1>5. /\ LiveEntries' = LiveEntries \ {e} /\ by_indices' = Without(Ij(e.pair))
      /\ live' = live - 1
  BY <1>1, <1>2, <1>3
<1>6. /\ \A f \in LiveEntries' :
           Ij(f.pair) \in DOMAIN by_indices' /\ by_indices'[Ij(f.pair)] = f.key
      /\ \A x \in DOMAIN by_indices' :
           \E f \in LiveEntries' : Ij(f.pair) = x /\ f.key = by_indices'[x]
      /\ DOMAIN by_indices' \subseteq Index \X Index
      /\ \A x \in DOMAIN by_indices' : by_indices'[x] \in 1 .. MaxInserts
      /\ live' = Cardinality(LiveEntries') /\ live' \in Nat
  BY <1>5, WithoutKeepsCanonical
<1>7. Typed'
  <2>1. deleted' \subseteq 1 .. MaxInserts
    BY <1>1, <1>2, <1>4, EntryFields DEF QueueInv, Canonical, Typed
  <2> QED
    BY <1>1, <1>6, <2>1 DEF Typed, QueueInv, Canonical
<1>8. deleted' \subseteq {f.key : f \in heap'}
  BY <1>1, <1>2, <1>4 DEF QueueInv, Canonical
<1>9. Canonical'
  BY <1>6, <1>7, <1>8 DEF Canonical
<1>10. QueueInv'
  BY <1>1, <1>9 DEF QueueInv
<1>11. answer' = Answer(NoPair, TRUE)
  BY <1>1, <1>2
<1> QED
  BY <1>2, <1>5, <1>10, <1>11 DEF ij

LEMMA NextKeepsQueueInv == QueueInv /\ [Next]_vars => QueueInv'
<1> SUFFICES ASSUME QueueInv, [Next]_vars PROVE QueueInv'
  OBVIOUS
<1>1. ASSUME NEW p \in Pair, Insert(p) PROVE QueueInv'
  BY <1>1, InsertKeepsQueueInv
<1>2. CASE PopNone
  BY <1>2, PopNoneKeepsQueueInv
<1>3. CASE PopLive
  BY <1>3, PopKeepsQueueInv DEF PopLive
<1>4. ASSUME NEW a \in Index, NEW b \in Index, DeleteNone(a, b) PROVE QueueInv'
  BY <1>4 DEF DeleteNone, QueueInv, Canonical, Typed, LiveEntries
<1>5. ASSUME NEW a \in Index, NEW b \in Index, DeleteLive(a, b) PROVE QueueInv'
  BY <1>5, DeleteKeepsQueueInv
<1>6. CASE UNCHANGED vars
  BY <1>6 DEF vars, QueueInv, Canonical, Typed, LiveEntries
<1> QED
  BY <1>1, <1>2, <1>3, <1>4, <1>5, <1>6 DEF Next

LEMMA SpecQueueInv == Spec => []QueueInv
BY InitQueueInv, NextKeepsQueueInv, PTL DEF Spec

-----------------------------------------------------------------------------

(* The plain queue's contents.                                             *)
Contents == {e.pair : e \in LiveEntries}

(* An insertion is one of the plain queue.                                 *)
LEMMA InsertImplements ==
  ASSUME QueueInv, NEW p \in Pair, Insert(p)
  PROVE  Queue!Insert(p)
<1>1. LiveEntries' = {e \in LiveEntries : Ij(e.pair) # Ij(p)}
                       \cup {[pair |-> p, key |-> next_key]}
  BY InsertLive
<1>2. {<<p>>[k] : k \in DOMAIN <<p>>} = {p}
  OBVIOUS
<1>3. InsertPairs(Contents, <<p>>) = {q \in Contents : ~SameIndices(q, p)} \cup {p}
  BY <1>2 DEF InsertPairs
<1>4. Contents' = {q \in Contents : ~SameIndices(q, p)} \cup {p}
  <2>1. \A e \in LiveEntries : Ij(e.pair) # Ij(p) <=> ~SameIndices(e.pair, p)
    BY DEF SameIndices, Ij
  <2> DEFINE others == {f \in LiveEntries : Ij(f.pair) # Ij(p)}
             new == [pair |-> p, key |-> next_key]
  <2>2. Contents' = {e.pair : e \in others} \cup {p}
    <3>1. Contents' = {e.pair : e \in LiveEntries'}
      BY DEF Contents
    <3>2. LiveEntries' = others \cup {new} /\ new.pair = p
      BY <1>1
    <3> HIDE DEF others, new
    <3> QED
      BY ONLY <3>1, <3>2
  <2> QED
    BY <2>1, <2>2 DEF Contents
<1>5. answer' = Answer(p, TRUE)
  BY DEF Insert
<1> QED
  BY <1>3, <1>4, <1>5 DEF Queue!Insert, Queue!InsertPairs, InsertPairs, Queue!SameIndices,
                          SameIndices, Queue!Answer, Answer, Contents

(* The smallest live entry holds the pair the plain queue's pop yields.    *)
LEMMA SmallestIsNext ==
  ASSUME QueueInv, NEW e \in LiveEntries,
         \A f \in LiveEntries : f = e \/ EntryBefore(e, f)
  PROVE  NextPair(Contents) = e.pair
<1>1. ASSUME NEW f \in LiveEntries, f # e
      PROVE  PairBefore(e.pair, f.pair)
  <2>1. Ij(e.pair) # Ij(f.pair)
    BY <1>1, LiveByIndices
  <2> QED
    BY <1>1, <2>1 DEF EntryBefore
<1>2. e.pair \in Contents /\ \A q \in Contents : q = e.pair \/ PairBefore(e.pair, q)
  BY <1>1 DEF Contents
<1>3. ASSUME NEW p \in Contents, \A q \in Contents : q = p \/ PairBefore(p, q)
      PROVE  p = e.pair
  <2>1. p = e.pair \/ (PairBefore(p, e.pair) /\ PairBefore(e.pair, p))
    BY <1>2, <1>3
  <2>2. PICK f \in LiveEntries : p = f.pair
    BY DEF Contents
  <2>3. e \in heap /\ f \in heap
    BY DEF LiveEntries
  <2>4. ~(PairBefore(p, e.pair) /\ PairBefore(e.pair, p))
    <3>1. /\ e.pair.i \in Nat /\ e.pair.j \in Nat /\ e.pair.sugar \in Nat /\ e.pair.arrival \in Nat
          /\ f.pair.i \in Nat /\ f.pair.j \in Nat /\ f.pair.sugar \in Nat /\ f.pair.arrival \in Nat
      BY <2>3, EntryFields
    <3> QED
      BY <2>2, <3>1 DEF PairBefore
  <2> QED
    BY <2>1, <2>4
<1> QED
  BY <1>2, <1>3 DEF NextPair

LEMMA PopImplements ==
  ASSUME QueueInv, PopNone \/ PopLive
  PROVE  Queue!Pop
<1>1. CASE PopNone
  <2>1. LiveEntries = {} /\ LiveEntries' = {} /\ answer' = Answer(NoPair, FALSE)
    BY <1>1, PopNoneKeepsQueueInv DEF PopNone
  <2> QED
    BY <2>1 DEF Queue!Pop, Queue!Answer, Answer
<1>2. CASE PopLive
  <2>1. PICK e \in LiveEntries :
          /\ \A f \in LiveEntries : f = e \/ EntryBefore(e, f)
          /\ LiveEntries' = LiveEntries \ {e} /\ answer' = Answer(e.pair, TRUE)
    BY <1>2, PopKeepsQueueInv DEF PopLive
  <2>2. NextPair(Contents) = e.pair
    BY <2>1, SmallestIsNext
  <2>3. \A f \in LiveEntries : f # e => f.pair # e.pair
    BY LiveByIndices
  <2>4. Contents' = Contents \ {e.pair} /\ Contents # {}
    BY <2>1, <2>3 DEF Contents
  <2> QED
    BY <2>1, <2>2, <2>4 DEF Queue!Pop, Queue!Answer, Answer, Contents, Queue!NextPair, NextPair,
                            Queue!PairBefore, PairBefore
<1> QED
  BY <1>1, <1>2

(* The two indices in ascending order name the pairs that have them in     *)
(* either order.                                                           *)
LEMMA NamedByIndices ==
  ASSUME NEW p \in Pair, NEW a \in Index, NEW b \in Index
  PROVE  {p.i, p.j} = {a, b} <=> Ij(p) = Ascending(a, b)
<1>1. p.i \in Nat /\ p.j \in Nat /\ p.i < p.j /\ a \in Nat /\ b \in Nat
  BY PairAssumption
<1>2. CASE a < b
  <2>1. Ij(p) = Ascending(a, b) <=> p.i = a /\ p.j = b
    BY <1>2 DEF Ij, Ascending
  <2>2. {p.i, p.j} = {a, b} <=> p.i = a /\ p.j = b
    BY <1>1, <1>2
  <2> QED
    BY <2>1, <2>2
<1>3. CASE ~(a < b)
  <2>1. Ij(p) = Ascending(a, b) <=> p.i = b /\ p.j = a
    BY <1>3 DEF Ij, Ascending
  <2>2. {p.i, p.j} = {a, b} <=> p.i = b /\ p.j = a
    BY <1>1, <1>3
  <2> QED
    BY <2>1, <2>2
<1> QED
  BY <1>2, <1>3

LEMMA DeleteImplements ==
  ASSUME QueueInv, NEW a \in Index, NEW b \in Index, DeleteNone(a, b) \/ DeleteLive(a, b)
  PROVE  Queue!Delete(a, b)
<1> DEFINE named == {p \in Contents : {p.i, p.j} = {a, b}}
<1>1. named = {p \in Contents : Ij(p) = Ascending(a, b)}
  <2>1. Contents \subseteq Pair
    BY EntryFields DEF Contents, LiveEntries
  <2> QED
    BY <2>1, NamedByIndices
<1>2. Contents' = Contents \ named /\ answer' = Answer(NoPair, named # {})
  <2>1. CASE DeleteNone(a, b)
    <3>1. Ascending(a, b) \notin DOMAIN by_indices /\ LiveEntries' = LiveEntries
          /\ answer' = Answer(NoPair, FALSE)
      BY <2>1 DEF DeleteNone, LiveEntries
    <3>2. \A e \in LiveEntries : Ij(e.pair) # Ascending(a, b)
      BY <3>1 DEF QueueInv, Canonical
    <3>3. named = {}
      BY <1>1, <3>2 DEF Contents
    <3> QED
      BY <3>1, <3>3 DEF Contents
  <2>2. CASE DeleteLive(a, b)
    <3>1. PICK e \in LiveEntries :
            Ij(e.pair) = Ascending(a, b) /\ LiveEntries' = LiveEntries \ {e}
      BY <2>2, DeleteKeepsQueueInv
    <3>2. \A f \in LiveEntries : f # e => Ij(f.pair) # Ascending(a, b)
      BY <3>1, LiveByIndices
    <3>3. named = {e.pair}
      BY <1>1, <3>1, <3>2 DEF Contents
    <3>4. Contents' = Contents \ {e.pair}
      BY <3>1, <3>2 DEF Contents
    <3>5. answer' = Answer(NoPair, TRUE)
      BY <2>2, DeleteKeepsQueueInv
    <3> QED
      BY <3>3, <3>4, <3>5
  <2> QED
    BY <2>1, <2>2
<1> QED
  BY <1>2 DEF Queue!Delete, Queue!Answer, Answer, Contents

LEMMA StepImplements == QueueInv /\ [Next]_vars => [Queue!Next]_<<Contents, answer>>
<1> SUFFICES ASSUME QueueInv, [Next]_vars
             PROVE  [Queue!Next]_<<Contents, answer>>
  OBVIOUS
<1>1. ASSUME NEW p \in Pair, Insert(p) PROVE Queue!Next
  BY <1>1, InsertImplements DEF Queue!Next
<1>2. CASE PopNone \/ PopLive
  BY <1>2, PopImplements DEF Queue!Next
<1>3. ASSUME NEW a \in Index, NEW b \in Index, DeleteNone(a, b) \/ DeleteLive(a, b)
      PROVE  Queue!Next
  BY <1>3, DeleteImplements DEF Queue!Next
<1>4. CASE UNCHANGED vars
  BY <1>4 DEF vars, Contents, LiveEntries
<1> QED
  BY <1>1, <1>2, <1>3, <1>4 DEF Next

-----------------------------------------------------------------------------

(* The index names exactly the live entries, the count is theirs, and every*)
(* tombstone waits in the heap for the pop that consumes it                *)
(* (lset.rs:191-224).                                                      *)
THEOREM QueueCanonical == Spec => []Canonical
<1>1. QueueInv => Canonical
  BY DEF QueueInv
<1> QED
  BY <1>1, SpecQueueInv, PTL

(* The queue with its heap, keys and tombstones implements the plain set of*)
(* live pairs from which the smallest comes out first (lset.rs:62-67).     *)
THEOREM QueueImplemented == Spec => ImplementsQueue
<1>1. Init => Queue!Init
  BY DEF Init, Queue!Init, LiveEntries, Queue!Answer, Answer
<1>2. QueueInv /\ [Next]_vars => [Queue!Next]_<<{e.pair : e \in LiveEntries}, answer>>
  BY StepImplements DEF Contents
<1> QED
  BY <1>1, <1>2, SpecQueueInv, PTL DEF Spec, ImplementsQueue, Queue!Spec
=============================================================================

------------------------- MODULE PolyBackendsProofs -------------------------
(***************************************************************************)
(* Proofs about PolyBackends.  The invariant InStep says that there are    *)
(* sequences of terms which both backends hold, the list as chains of      *)
(* nodes that Owned assigns to one owner each, the array as its live part; *)
(* and that during a merge the array of the result is what the merge loop  *)
(* of the arrays gives when it goes on from the list's cursors.  The first *)
(* half of the module is about the heap alone: what each way of changing   *)
(* it (a node behind the tail slot, a cursor that moves on, a splice, a    *)
(* drop) does to the chains and their owners.  Then the merge of two       *)
(* arrays is followed turn by turn and matched with the turns of the       *)
(* list's merge, and there is one lemma per action.  The last part is      *)
(* about values: the coefficient of a monomial is a sum over the terms     *)
(* (CoefSum, in AlgebraProofs with the facts about sequences of terms),    *)
(* every operation of the arrays does to that sum what the exact           *)
(* operation does to the coefficient, and so the backends implement        *)
(* PolyValues.                                                             *)
(***************************************************************************)
EXTENDS PolyBackends, AlgebraProofs

-----------------------------------------------------------------------------
(* Chains.                                                                 *)

NodeSpace == [c : 0 .. P - 1, m : Monomial, next : Nat]

IsMemory(mm) ==
  /\ IsFiniteSet(DOMAIN mm) /\ DOMAIN mm \subseteq Nat \ {Null}
  /\ mm \in [DOMAIN mm -> NodeSpace]

(* The sequence s of distinct nodes is the chain that starts at a. *)
IsChain(mm, a, s) ==
  /\ s \in Seq(DOMAIN mm)
  /\ \A i, j \in DOMAIN s : s[i] = s[j] => i = j
  /\ a = IF s = << >> THEN Null ELSE s[1]
  /\ \A k \in DOMAIN s : mm[s[k]].next = IF k = Len(s) THEN Null ELSE s[k + 1]

LEMMA ChainFacts ==
  ASSUME NEW mm, NEW a, NEW s, IsChain(mm, a, s)
  PROVE  /\ s \in Seq(DOMAIN mm) /\ Len(s) \in Nat /\ DOMAIN s = 1 .. Len(s)
         /\ \A i \in DOMAIN s : s[i] \in DOMAIN mm
         /\ \A i, j \in DOMAIN s : s[i] = s[j] => i = j
         /\ \A k \in DOMAIN s : mm[s[k]].next = IF k = Len(s) THEN Null ELSE s[k + 1]
         /\ a # Null => s # << >> /\ s[1] = a /\ Len(s) > 0 /\ 1 \in DOMAIN s
<1>1. s \in Seq(DOMAIN mm) /\ Len(s) \in Nat /\ DOMAIN s = 1 .. Len(s)
  BY DEF IsChain
<1>2. a # Null => s # << >> /\ s[1] = a
  BY DEF IsChain
<1>3. s # << >> => Len(s) > 0
  BY <1>1
<1>. QED  BY <1>1, <1>2, <1>3 DEF IsChain

ChainAt(mm, a) ==
  CHOOSE at : at = [k \in 1 .. Cardinality(DOMAIN mm) + 1 |->
                      IF k = 1 THEN a
                      ELSE IF at[k - 1] \in DOMAIN mm THEN mm[at[k - 1]].next ELSE Null]

(* The walk of Chain finds it. *)
LEMMA ChainIs ==
  ASSUME NEW mm, IsMemory(mm), NEW a, NEW s, IsChain(mm, a, s)
  PROVE  Chain(mm, a) = s
<1> DEFINE N == Cardinality(DOMAIN mm)
           at == ChainAt(mm, a)
           f == [k \in 1 .. N + 1 |-> IF k <= Len(s) THEN s[k] ELSE Null]
           used == {l \in DOMAIN at : at[l] # Null}
<1>1. N \in Nat /\ IsFiniteSet(DOMAIN mm)
  BY FS_CardinalityType DEF IsMemory
<1>2. s \in [1 .. Len(s) -> DOMAIN mm] /\ Len(s) \in Nat /\ DOMAIN s = 1 .. Len(s)
  BY DEF IsChain
<1>3. Len(s) <= N
  <2>1. s \in Injection(1 .. Len(s), DOMAIN mm)
    BY <1>2 DEF IsChain, Injection, IsInjective
  <2>2. Cardinality(1 .. Len(s)) = Len(s)
    BY <1>2, UpToFacts
  <2>. QED  BY <1>1, <2>1, <2>2, FS_Injection
<1>4. f = [k \in 1 .. N + 1 |->
             IF k = 1 THEN a
             ELSE IF f[k - 1] \in DOMAIN mm THEN mm[f[k - 1]].next ELSE Null]
  <2>1. ASSUME NEW k \in 1 .. N + 1
        PROVE  f[k] = IF k = 1 THEN a
                      ELSE IF f[k - 1] \in DOMAIN mm THEN mm[f[k - 1]].next ELSE Null
    <3>1. CASE k = 1
      BY <3>1, <1>1, <1>2 DEF IsChain
    <3>2. CASE k # 1
      <4>1. k - 1 \in 1 .. N + 1 /\ k \in Nat
        BY <3>2, <1>1
      <4>2. CASE k - 1 <= Len(s)
        <5>1. f[k - 1] = s[k - 1] /\ k - 1 \in DOMAIN s
          BY <4>1, <4>2, <1>2
        <5>. QED  BY <5>1, <4>1, <3>2, <1>2, <1>1 DEF IsChain
      <4>3. CASE ~(k - 1 <= Len(s))
        <5>1. f[k - 1] = Null /\ f[k] = Null
          BY <4>1, <4>3, <1>2
        <5>. QED  BY <5>1, <3>2 DEF IsMemory
      <4>. QED  BY <4>2, <4>3
    <3>. QED  BY <3>1, <3>2
  <2>. QED  BY <2>1
<1>5. at = [k \in 1 .. N + 1 |->
             IF k = 1 THEN a
             ELSE IF at[k - 1] \in DOMAIN mm THEN mm[at[k - 1]].next ELSE Null]
  <2> HIDE DEF f
  <2>. QED  BY <1>4, Zenon DEF ChainAt
<1>6. \A k \in 1 .. N + 1 : at[k] = f[k]
  <2> DEFINE S == {k \in 0 .. N + 1 : k > 0 => at[k] = f[k]}
  <2> HIDE DEF f, at
  <2>1. 0 \in S
    BY <1>1
  <2>2. ASSUME NEW k \in 1 .. N + 1, k - 1 \in S PROVE k \in S
    <3>1. CASE k = 1
      BY <3>1, <1>1, <1>4, <1>5
    <3>2. CASE k # 1
      <4>1. k - 1 \in 1 .. N + 1 /\ at[k - 1] = f[k - 1]
        BY <2>2, <3>2, <1>1
      <4>2. at[k] = IF at[k - 1] \in DOMAIN mm THEN mm[at[k - 1]].next ELSE Null
        BY <3>2, <1>5
      <4>3. f[k] = IF f[k - 1] \in DOMAIN mm THEN mm[f[k - 1]].next ELSE Null
        BY <3>2, <1>4
      <4>. QED  BY <4>1, <4>2, <4>3, <1>1
    <3>. QED  BY <3>1, <3>2
  <2> HIDE DEF S
  <2>3. \A k \in 0 .. N + 1 : k \in S
    BY <2>1, <2>2, <1>1, InductionUpTo
  <2>. QED  BY <2>3, <1>1 DEF S
<1>7. used = 1 .. Len(s)
  <2>1. DOMAIN at = 1 .. N + 1
    <3> HIDE DEF at
    <3>. QED  BY <1>5
  <2>2. \A k \in DOMAIN s : s[k] # Null
    BY <1>2 DEF IsMemory
  <2>. QED  BY <2>1, <2>2, <1>6, <1>3, <1>2, <1>1
<1>8. Cardinality(used) = Len(s)
  BY <1>7, <1>2, UpToFacts
<1>9. Chain(mm, a) = [k \in 1 .. Cardinality(used) |-> at[k]]
  BY DEF Chain, ChainAt
<1> HIDE DEF used, at
<1>10. Chain(mm, a) = [k \in 1 .. Len(s) |-> s[k]]
  <2>1. \A k \in 1 .. Len(s) : at[k] = s[k]
    BY <1>6, <1>3, <1>2, <1>1
  <2>. QED  BY <1>8, <1>9, <2>1
<1>. QED  BY <1>10, <1>2

(* What a chain holds. *)
TermsOf(mm, s) == [k \in DOMAIN s |-> Term(mm[s[k]].c, mm[s[k]].m)]

LEMMA TermsOfFacts ==
  ASSUME NEW mm, NEW S, NEW s \in Seq(S)
  PROVE  /\ TermsOf(mm, s) \in Seq(Range(TermsOf(mm, s))) /\ Len(TermsOf(mm, s)) = Len(s)
         /\ \A k \in 1 .. Len(s) : TermsOf(mm, s)[k] = Term(mm[s[k]].c, mm[s[k]].m)
<1> DEFINE a == TermsOf(mm, s)
<1>1. /\ Len(s) \in Nat /\ a = [k \in 1 .. Len(s) |-> Term(mm[s[k]].c, mm[s[k]].m)]
  BY DEF TermsOf
<1> HIDE DEF a
<1>2. a \in Seq(Range(a)) /\ Len(a) = Len(s)
  BY <1>1 DEF Range
<1>. QED  BY <1>1, <1>2 DEF a

SameNodes(mm, nn, s) == \A k \in DOMAIN s : s[k] \in DOMAIN nn /\ nn[s[k]] = mm[s[k]]

(* A chain keeps its nodes and its terms when nothing happens to them. *)
LEMMA ChainFrame ==
  ASSUME NEW mm, NEW nn, NEW a, NEW s, IsChain(mm, a, s),
         SameNodes(mm, nn, s)
  PROVE  IsChain(nn, a, s) /\ TermsOf(nn, s) = TermsOf(mm, s)
<1>1. s \in Seq(DOMAIN nn)
  BY DEF IsChain, SameNodes
<1>2. IsChain(nn, a, s)
  BY <1>1 DEF IsChain, SameNodes
<1>3. TermsOf(nn, s) = TermsOf(mm, s)
  BY DEF TermsOf, SameNodes
<1>. QED  BY <1>2, <1>3

-----------------------------------------------------------------------------
(* Who owns which chain: the handles x and y, the output of a merge, the   *)
(* operands that it takes, and a chain under construction.                 *)

Owners == {"x", "y", "out", "left", "right", "new"}

(* The chains ch start at the roots r, and every node is on one of them,   *)
(* once.                                                                   *)
Owned(mm, r, ch) ==
  /\ IsMemory(mm)
  /\ r \in [Owners -> Nat] /\ ch \in [Owners -> Seq(DOMAIN mm)]
  /\ \A l \in Owners : IsChain(mm, r[l], ch[l])
  /\ \A k, l \in Owners : \A i \in DOMAIN ch[k], j \in DOMAIN ch[l] :
       ch[k][i] = ch[l][j] => k = l
  /\ \A a \in DOMAIN mm : \E l \in Owners : \E i \in DOMAIN ch[l] : ch[l][i] = a

(* The owners' chains and what they hold. *)
Holds(mm, r, ch, ct) ==
  Owned(mm, r, ch) /\ ct = [l \in Owners |-> TermsOf(mm, ch[l])]

(* Without the chain of one owner. *)
LEMMA OwnedWithout ==
  ASSUME NEW mm, NEW r, NEW ch, NEW ct, Holds(mm, r, ch, ct), NEW l \in Owners,
         NEW nn, nn = Freed(mm, Range(ch[l]))
  PROVE  Holds(nn, [r EXCEPT ![l] = Null], [ch EXCEPT ![l] = << >>],
                   [ct EXCEPT ![l] = << >>])
<1> DEFINE rr == [r EXCEPT ![l] = Null]
           hh == [ch EXCEPT ![l] = << >>]
<1>0. Owned(mm, r, ch) /\ ct = [o \in Owners |-> TermsOf(mm, ch[o])]
  BY DEF Holds
<1>1. /\ IsMemory(mm) /\ r \in [Owners -> Nat] /\ ch \in [Owners -> Seq(DOMAIN mm)]
      /\ \A k \in Owners : IsChain(mm, r[k], ch[k])
      /\ \A k, o \in Owners : \A i \in DOMAIN ch[k], j \in DOMAIN ch[o] :
           ch[k][i] = ch[o][j] => k = o
      /\ \A a \in DOMAIN mm : \E k \in Owners : \E i \in DOMAIN ch[k] : ch[k][i] = a
  BY <1>0 DEF Owned
<1>2. /\ DOMAIN nn = DOMAIN mm \ Range(ch[l])
      /\ \A a \in DOMAIN nn : nn[a] = mm[a]
      /\ nn = [a \in DOMAIN nn |-> nn[a]]
  BY DEF Freed
<1>3. IsMemory(nn)
  <2>1. IsFiniteSet(DOMAIN nn)
    BY <1>1, <1>2, FS_Subset DEF IsMemory
  <2>2. DOMAIN nn \subseteq DOMAIN mm /\ \A b \in DOMAIN nn : nn[b] \in NodeSpace
    BY <1>1, <1>2 DEF IsMemory
  <2>3. nn \in [DOMAIN nn -> NodeSpace]
    BY ONLY <1>2, <2>2
  <2>4. DOMAIN nn \subseteq Nat \ {Null}
    BY ONLY <1>1, <2>2 DEF IsMemory
  <2>. QED  BY ONLY <2>1, <2>3, <2>4 DEF IsMemory
<1>4. ASSUME NEW k \in Owners, k # l
      PROVE  IsChain(nn, r[k], ch[k]) /\ TermsOf(nn, ch[k]) = TermsOf(mm, ch[k])
  <2>1. \A i \in DOMAIN ch[k] : ch[k][i] \in DOMAIN nn /\ nn[ch[k][i]] = mm[ch[k][i]]
    <3>1. \A i \in DOMAIN ch[k] : ch[k][i] \in DOMAIN mm
      BY <1>1
    <3>2. \A i \in DOMAIN ch[k] : ch[k][i] \notin Range(ch[l])
      BY <1>1, <1>4 DEF Range
    <3>. QED  BY <3>1, <3>2, <1>2
  <2>0. SameNodes(mm, nn, ch[k])
    BY <2>1 DEF SameNodes
  <2>2. IsChain(mm, r[k], ch[k])
    BY <1>1
  <2>. QED  BY ONLY <2>0, <2>2, ChainFrame
<1>5. IsChain(nn, Null, << >>)
  BY DEF IsChain
<1>6. rr \in [Owners -> Nat] /\ \A k \in Owners : rr[k] = IF k = l THEN Null ELSE r[k]
  BY <1>1 DEF Null
<1>7. /\ hh = [k \in Owners |-> IF k = l THEN << >> ELSE ch[k]]
      /\ \A k \in Owners : hh[k] = IF k = l THEN << >> ELSE ch[k]
  BY <1>1
<1> HIDE DEF rr, hh
<1>8. \A k \in Owners : IsChain(nn, rr[k], hh[k])
  BY <1>4, <1>5, <1>6, <1>7
<1>9. hh \in [Owners -> Seq(DOMAIN nn)]
  BY <1>7, <1>8 DEF IsChain
<1>10. \A k, o \in Owners : \A i \in DOMAIN hh[k], j \in DOMAIN hh[o] :
         hh[k][i] = hh[o][j] => k = o
  BY <1>7, <1>1
<1>11. \A a \in DOMAIN nn : \E k \in Owners : \E i \in DOMAIN hh[k] : hh[k][i] = a
  <2> SUFFICES ASSUME NEW a \in DOMAIN nn
               PROVE  \E k \in Owners : \E i \in DOMAIN hh[k] : hh[k][i] = a
    OBVIOUS
  <2>1. PICK k \in Owners : \E i \in DOMAIN ch[k] : ch[k][i] = a
    BY <1>1, <1>2
  <2>2. k # l
    BY <2>1, <1>2 DEF Range
  <2>. QED  BY <2>1, <2>2, <1>7
<1>12. Owned(nn, rr, hh)
  BY <1>3, <1>6, <1>8, <1>9, <1>10, <1>11 DEF Owned
<1>13. TermsOf(nn, << >>) = << >>
  BY DEF TermsOf
<1>14. [ct EXCEPT ![l] = << >>] = [k \in Owners |-> TermsOf(nn, hh[k])]
  BY <1>0, <1>4, <1>7, <1>13
<1>. QED  BY <1>12, <1>14, Zenon DEF Holds, rr, hh

(* A chain passes from one owner to another, who has none. *)
LEMMA OwnedMoved ==
  ASSUME NEW mm, NEW r, NEW ch, NEW ct, Holds(mm, r, ch, ct), NEW k \in Owners, NEW l \in Owners,
         k # l, r[l] = Null
  PROVE  Holds(mm, [r EXCEPT ![l] = r[k], ![k] = Null],
                   [ch EXCEPT ![l] = ch[k], ![k] = << >>],
                   [ct EXCEPT ![l] = ct[k], ![k] = << >>])
<1> DEFINE rr == [r EXCEPT ![l] = r[k], ![k] = Null]
           hh == [ch EXCEPT ![l] = ch[k], ![k] = << >>]
<1>0. Owned(mm, r, ch) /\ ct = [o \in Owners |-> TermsOf(mm, ch[o])]
  BY DEF Holds
<1>1. /\ IsMemory(mm) /\ r \in [Owners -> Nat] /\ ch \in [Owners -> Seq(DOMAIN mm)]
      /\ \A o \in Owners : IsChain(mm, r[o], ch[o])
      /\ \A o, p \in Owners : \A i \in DOMAIN ch[o], j \in DOMAIN ch[p] :
           ch[o][i] = ch[p][j] => o = p
      /\ \A a \in DOMAIN mm : \E o \in Owners : \E i \in DOMAIN ch[o] : ch[o][i] = a
  BY <1>0 DEF Owned
<1>2. /\ rr \in [Owners -> Nat]
      /\ \A o \in Owners : rr[o] = IF o = k THEN Null ELSE IF o = l THEN r[k] ELSE r[o]
  BY <1>1 DEF Null
<1>3. /\ hh \in [Owners -> Seq(DOMAIN mm)]
      /\ \A o \in Owners : hh[o] = IF o = k THEN << >> ELSE IF o = l THEN ch[k] ELSE ch[o]
  <2>1. << >> \in Seq(DOMAIN mm) /\ ch[k] \in Seq(DOMAIN mm)
    BY <1>1
  <2>. QED  BY <1>1, <2>1
<1>4. IsChain(mm, Null, << >>)
  BY DEF IsChain
<1>5. ch[l] = << >>
  BY <1>1 DEF IsChain, IsMemory
<1> HIDE DEF rr, hh
<1>6. \A o \in Owners : IsChain(mm, rr[o], hh[o])
  BY <1>1, <1>2, <1>3, <1>4
<1>7. ASSUME NEW o \in Owners, NEW p \in Owners,
             NEW i \in DOMAIN hh[o], NEW j \in DOMAIN hh[p], hh[o][i] = hh[p][j]
      PROVE  o = p
  <2>1. DOMAIN << >> = {}
    OBVIOUS
  <2>2. o # k /\ p # k
    BY <1>3, <1>7, <2>1
  <2>3. PICK q \in Owners : /\ hh[o] = ch[q] /\ (q = IF o = l THEN k ELSE o)
    BY <1>3, <2>2
  <2>4. PICK z \in Owners : /\ hh[p] = ch[z] /\ (z = IF p = l THEN k ELSE p)
    BY <1>3, <2>2
  <2>5. q = z
    <3>1. \A e, g \in Owners : \A d \in DOMAIN ch[e], h \in DOMAIN ch[g] :
            ch[e][d] = ch[g][h] => e = g
      BY <1>1
    <3>2. i \in DOMAIN ch[q] /\ j \in DOMAIN ch[z] /\ ch[q][i] = ch[z][j]
      BY ONLY <1>7, <2>3, <2>4
    <3>. QED  BY ONLY <3>1, <3>2, q \in Owners, z \in Owners
  <2>. QED  BY <2>2, <2>3, <2>4, <2>5
<1>8. \A a \in DOMAIN mm : \E o \in Owners : \E i \in DOMAIN hh[o] : hh[o][i] = a
  <2> SUFFICES ASSUME NEW a \in DOMAIN mm
               PROVE  \E o \in Owners : \E i \in DOMAIN hh[o] : hh[o][i] = a
    OBVIOUS
  <2>1. PICK o \in Owners : \E i \in DOMAIN ch[o] : ch[o][i] = a
    BY <1>1
  <2>2. o # l
    BY <2>1, <1>5
  <2>. QED  BY <2>1, <2>2, <1>3
<1>9. Owned(mm, rr, hh)
  BY <1>1, <1>2, <1>3, <1>6, <1>7, <1>8 DEF Owned
<1>10. TermsOf(mm, << >>) = << >>
  BY DEF TermsOf
<1>11. [ct EXCEPT ![l] = ct[k], ![k] = << >>] = [o \in Owners |-> TermsOf(mm, hh[o])]
  BY <1>0, <1>3, <1>10
<1>. QED  BY <1>9, <1>11, Zenon DEF Holds, rr, hh

(* The first node of a chain is released. *)
LEMMA OwnedShorter ==
  ASSUME NEW mm, NEW r, NEW ch, NEW ct, Holds(mm, r, ch, ct), NEW l \in Owners, r[l] # Null,
         NEW nn, nn = Freed(mm, {r[l]})
  PROVE  /\ r[l] \in DOMAIN mm
         /\ Holds(nn, [r EXCEPT ![l] = mm[r[l]].next], [ch EXCEPT ![l] = Tail(ch[l])],
                      [ct EXCEPT ![l] = Tail(ct[l])])
<1> DEFINE next == mm[r[l]].next
           s == ch[l]
           t == Tail(s)
           rr == [r EXCEPT ![l] = next]
           hh == [ch EXCEPT ![l] = t]
<1>0. Owned(mm, r, ch) /\ ct = [o \in Owners |-> TermsOf(mm, ch[o])]
  BY DEF Holds
<1>1. /\ IsMemory(mm) /\ r \in [Owners -> Nat] /\ ch \in [Owners -> Seq(DOMAIN mm)]
      /\ \A k \in Owners : IsChain(mm, r[k], ch[k])
      /\ \A k, o \in Owners : \A i \in DOMAIN ch[k], j \in DOMAIN ch[o] :
           ch[k][i] = ch[o][j] => k = o
      /\ \A a \in DOMAIN mm : \E k \in Owners : \E i \in DOMAIN ch[k] : ch[k][i] = a
  BY <1>0 DEF Owned
<1>2. /\ DOMAIN nn = DOMAIN mm \ {r[l]}
      /\ \A a \in DOMAIN nn : nn[a] = mm[a]
      /\ nn = [a \in DOMAIN nn |-> nn[a]]
  BY DEF Freed
<1>3. IsMemory(nn)
  <2>1. IsFiniteSet(DOMAIN nn)
    BY <1>1, <1>2, FS_Subset DEF IsMemory
  <2>2. DOMAIN nn \subseteq DOMAIN mm /\ \A b \in DOMAIN nn : nn[b] \in NodeSpace
    BY <1>1, <1>2 DEF IsMemory
  <2>3. nn \in [DOMAIN nn -> NodeSpace]
    BY ONLY <1>2, <2>2
  <2>4. DOMAIN nn \subseteq Nat \ {Null}
    BY ONLY <1>1, <2>2 DEF IsMemory
  <2>. QED  BY ONLY <2>1, <2>3, <2>4 DEF IsMemory
<1>4. /\ s \in Seq(DOMAIN mm) /\ s # << >> /\ s[1] = r[l]
      /\ Len(s) \in Nat /\ Len(s) > 0 /\ DOMAIN s = 1 .. Len(s)
      /\ \A i, j \in DOMAIN s : s[i] = s[j] => i = j
      /\ \A k \in DOMAIN s : mm[s[k]].next = IF k = Len(s) THEN Null ELSE s[k + 1]
  BY <1>1 DEF IsChain
<1>5. /\ t \in Seq(DOMAIN mm) /\ Len(t) = Len(s) - 1 /\ DOMAIN t = 1 .. Len(s) - 1
      /\ \A k \in DOMAIN t : k + 1 \in DOMAIN s /\ t[k] = s[k + 1]
  <2> HIDE DEF s
  <2>1. t \in Seq(DOMAIN mm) /\ Len(t) = Len(s) - 1
    BY <1>4
  <2>2. DOMAIN t = 1 .. Len(s) - 1
    BY <2>1
  <2>. QED  BY <1>4, <2>1, <2>2
<1>6. r[l] \in DOMAIN mm
  BY <1>4
<1>7. \A k \in Owners : \A i \in DOMAIN ch[k] : ch[k][i] \in DOMAIN mm
  BY <1>1
<1> HIDE DEF t, s
<1>8. ASSUME NEW k \in DOMAIN t
      PROVE  /\ t[k] \in DOMAIN nn /\ nn[t[k]] = mm[t[k]]
             /\ k + 1 \in DOMAIN s /\ t[k] = s[k + 1]
  <2>1. k + 1 \in DOMAIN s /\ t[k] = s[k + 1] /\ k \in Nat /\ k > 0
    BY <1>5
  <2>2. s[k + 1] \in DOMAIN mm
    BY <2>1, <1>4
  <2>3. 1 \in DOMAIN s /\ k + 1 # 1
    BY <2>1, <1>4
  <2>4. s[k + 1] # s[1]
    BY <2>1, <2>3, <1>4
  <2>. QED  BY <2>1, <2>2, <2>4, <1>2, <1>4
<1>9. IsChain(nn, next, t) /\ TermsOf(nn, t) = Tail(TermsOf(mm, s))
  <2>1. t \in Seq(DOMAIN nn)
    BY <1>5, <1>8, SeqOver, Zenon
  <2>2. \A i, j \in DOMAIN t : t[i] = t[j] => i = j
    BY <1>4, <1>5
  <2>3. next = IF t = << >> THEN Null ELSE t[1]
    BY <1>4, <1>5
  <2>4. ASSUME NEW k \in DOMAIN t
        PROVE  nn[t[k]].next = IF k = Len(t) THEN Null ELSE t[k + 1]
    <3>1. nn[t[k]].next = IF k + 1 = Len(s) THEN Null ELSE s[k + 1 + 1]
      <4>1. nn[t[k]] = mm[s[k + 1]] /\ k + 1 \in DOMAIN s
        BY <1>8
      <4>2. \A j \in DOMAIN s : mm[s[j]].next = IF j = Len(s) THEN Null ELSE s[j + 1]
        BY <1>4
      <4>. QED  BY <4>1, <4>2
    <3>2. k \in Nat /\ (k + 1 = Len(s) <=> k = Len(t))
      BY <1>4, <1>5
    <3>3. k # Len(t) => k + 1 \in DOMAIN t
      BY <1>4, <1>5
    <3>. QED  BY <3>1, <3>2, <3>3, <1>8
  <2>5. IsChain(nn, next, t)
    BY <2>1, <2>2, <2>3, <2>4 DEF IsChain
  <2>6. TermsOf(nn, t) = Tail(TermsOf(mm, s))
    <3> DEFINE u == TermsOf(mm, s)
               v == TermsOf(nn, t)
    <3>1. u \in Seq(Range(u)) /\ Len(u) = Len(s) /\ \A k \in 1 .. Len(s) : u[k] = Term(mm[s[k]].c, mm[s[k]].m)
      BY <1>4 DEF TermsOf, Range
    <3>2. v \in Seq(Range(v)) /\ Len(v) = Len(t) /\ \A k \in 1 .. Len(t) : v[k] = Term(nn[t[k]].c, nn[t[k]].m)
      BY <1>4, <1>5 DEF TermsOf, Range
    <3> HIDE DEF u, v
    <3>3. Tail(u) \in Seq(Range(u)) /\ Len(Tail(u)) = Len(v)
      BY <3>1, <3>2, <1>4, <1>5
    <3>4. \A k \in 1 .. Len(v) : v[k] = Tail(u)[k]
      <4>1. u # << >>
        BY <3>1, <1>4
      <4>2. \A k \in 1 .. Len(u) - 1 : Tail(u)[k] = u[k + 1]
        BY <3>1, <4>1
      <4>3. \A k \in 1 .. Len(v) : /\ k \in DOMAIN t /\ k \in 1 .. Len(u) - 1
                                   /\ k + 1 \in 1 .. Len(s) /\ t[k] = s[k + 1]
        BY <3>1, <3>2, <1>4, <1>5
      <4>4. ASSUME NEW k \in 1 .. Len(v) PROVE v[k] = Tail(u)[k]
        <5>1. Tail(u)[k] = u[k + 1] /\ u[k + 1] = Term(mm[s[k + 1]].c, mm[s[k + 1]].m)
          BY <4>2, <4>3, <3>1
        <5>2. v[k] = Term(nn[t[k]].c, nn[t[k]].m)
          BY <3>2
        <5>3. nn[t[k]] = mm[s[k + 1]]
          BY <4>3, <1>8
        <5>. QED  BY <5>1, <5>2, <5>3, Zenon
      <4>. QED  BY <4>4
    <3>5. v = Tail(u)
      BY <3>2, <3>3, <3>4, SameSeq, Zenon
    <3>. QED  BY <3>5 DEF u, v
  <2>. QED  BY <2>5, <2>6
<1>10. ASSUME NEW k \in Owners, k # l
       PROVE  IsChain(nn, r[k], ch[k]) /\ TermsOf(nn, ch[k]) = TermsOf(mm, ch[k])
  <2>1. \A i \in DOMAIN ch[k] : ch[k][i] \in DOMAIN nn /\ nn[ch[k][i]] = mm[ch[k][i]]
    <3>1. \A i \in DOMAIN ch[k] : ch[k][i] # r[l]
      <4>1. 1 \in DOMAIN ch[l] /\ ch[l][1] = r[l]
        BY <1>4 DEF s
      <4>. QED  BY <1>1, <1>10, <4>1
    <3>. QED  BY <3>1, <1>2, <1>7
  <2>0. SameNodes(mm, nn, ch[k])
    BY <2>1 DEF SameNodes
  <2>2. IsChain(mm, r[k], ch[k])
    BY <1>1
  <2>. QED  BY ONLY <2>0, <2>2, ChainFrame
<1>11. rr \in [Owners -> Nat] /\ \A k \in Owners : rr[k] = IF k = l THEN next ELSE r[k]
  <2>1. next \in Nat
    BY <1>6, <1>1 DEF IsMemory, NodeSpace
  <2>. QED  BY <2>1, <1>1
<1>12. /\ hh = [k \in Owners |-> IF k = l THEN t ELSE ch[k]]
       /\ \A k \in Owners : hh[k] = IF k = l THEN t ELSE ch[k]
  BY <1>1
<1> HIDE DEF rr, hh, next
<1>13. \A k \in Owners : IsChain(nn, rr[k], hh[k])
  BY <1>9, <1>10, <1>11, <1>12
<1>14. hh \in [Owners -> Seq(DOMAIN nn)]
  BY <1>12, <1>13 DEF IsChain
<1>15. ASSUME NEW k \in Owners, NEW o \in Owners,
              NEW i \in DOMAIN hh[k], NEW j \in DOMAIN hh[o], hh[k][i] = hh[o][j]
       PROVE  k = o
  <2>0. \A n \in DOMAIN ch[k], q \in DOMAIN ch[o] : ch[k][n] = ch[o][q] => k = o
    BY <1>1
  <2>1. \E n \in DOMAIN ch[k] : ch[k][n] = hh[k][i]
    <3>1. CASE k = l
      BY <3>1, <1>5, <1>12 DEF s
    <3>2. CASE k # l
      BY <3>2, <1>12
    <3>. QED  BY <3>1, <3>2
  <2>2. \E n \in DOMAIN ch[o] : ch[o][n] = hh[o][j]
    <3>1. CASE o = l
      BY <3>1, <1>5, <1>12 DEF s
    <3>2. CASE o # l
      BY <3>2, <1>12
    <3>. QED  BY <3>1, <3>2
  <2>. QED  BY <2>0, <2>1, <2>2, <1>15
<1>16. \A a \in DOMAIN nn : \E k \in Owners : \E i \in DOMAIN hh[k] : hh[k][i] = a
  <2> SUFFICES ASSUME NEW a \in DOMAIN nn
               PROVE  \E k \in Owners : \E i \in DOMAIN hh[k] : hh[k][i] = a
    OBVIOUS
  <2>0. PICK k \in Owners : \E i \in DOMAIN ch[k] : ch[k][i] = a
    BY <1>1, <1>2
  <2>1. PICK i \in DOMAIN ch[k] : ch[k][i] = a
    BY <2>0
  <2>2. CASE k # l
    BY <2>1, <2>2, <1>12
  <2>3. CASE k = l
    <3>1. i \in 1 .. Len(s) /\ i # 1 /\ s[i] = a
      BY <2>1, <2>3, <1>2, <1>4 DEF s
    <3>2. i - 1 \in DOMAIN t /\ t[i - 1] = a
      BY <3>1, <1>4, <1>5
    <3>. QED  BY <3>2, <1>12, <2>3
  <2>. QED  BY <2>2, <2>3
<1>17. Owned(nn, rr, hh)
  BY <1>3, <1>11, <1>13, <1>14, <1>15, <1>16 DEF Owned
<1>18. [ct EXCEPT ![l] = Tail(ct[l])] = [k \in Owners |-> TermsOf(nn, hh[k])]
  <2>1. ct[l] = TermsOf(mm, s)
    BY <1>0 DEF s
  <2>2. \A k \in Owners : k # l => ct[k] = TermsOf(nn, hh[k])
    BY <1>0, <1>10, <1>12
  <2>3. Tail(ct[l]) = TermsOf(nn, hh[l])
    BY <2>1, <1>9, <1>12
  <2>. QED  BY <1>0, <2>2, <2>3
<1>. QED  BY <1>6, <1>17, <1>18, Zenon DEF Holds, rr, hh, t, s, next

-----------------------------------------------------------------------------
(* Fresh nodes.                                                            *)

LEMMA DifferenceBound ==
  ASSUME NEW A, NEW D, IsFiniteSet(A), IsFiniteSet(D)
  PROVE  /\ IsFiniteSet(A \ D) /\ Cardinality(A \ D) \in Nat
         /\ Cardinality(A \ D) >= Cardinality(A) - Cardinality(D)
<1>1. IsFiniteSet(A \ D) /\ Cardinality(A \ D) = Cardinality(A) - Cardinality(A \cap D)
  BY FS_Difference
<1>2. IsFiniteSet(D \cap A) /\ Cardinality(A \cap D) <= Cardinality(D)
  BY FS_Intersection
<1>3. A \cap D = D \cap A
  OBVIOUS
<1>4. /\ Cardinality(A) \in Nat /\ Cardinality(D) \in Nat /\ Cardinality(A \cap D) \in Nat
      /\ Cardinality(A \ D) \in Nat
  BY <1>1, <1>2, <1>3, FS_CardinalityType
<1>. QED  BY <1>1, <1>2, <1>4

LEMMA FreshFacts ==
  ASSUME NEW mm, IsMemory(mm), NEW n \in Nat
  PROVE  /\ FreshCells(mm, n) \in Seq(Nat \ {Null}) /\ Len(FreshCells(mm, n)) = n
         /\ \A k \in 1 .. n : FreshCells(mm, n)[k] \notin DOMAIN mm
         /\ \A k, l \in 1 .. n : FreshCells(mm, n)[k] = FreshCells(mm, n)[l] => k = l
<1> DEFINE N == Cardinality(DOMAIN mm)
           U == (1 .. N + n) \ DOMAIN mm
           f == [a \in U |-> {b \in U : b < a}]
           at == FreshCells(mm, n)
<1>1. N \in Nat /\ IsFiniteSet(DOMAIN mm)
  BY FS_CardinalityType DEF IsMemory
<1>2. IsFiniteSet(U) /\ Cardinality(U) \in Nat /\ Cardinality(U) >= n
  <2>1. IsFiniteSet(1 .. N + n) /\ Cardinality(1 .. N + n) = N + n
    BY <1>1, UpToFacts
  <2>2. /\ IsFiniteSet(U) /\ Cardinality(U) \in Nat
        /\ Cardinality(U) >= Cardinality(1 .. N + n) - N
    BY <1>1, <2>1, DifferenceBound, Zenon
  <2>3. \A u, c \in Nat : c = N + n /\ u >= c - N => u >= n
    <3> HIDE DEF N
    <3>. QED  BY <1>1
  <2>4. N + n \in Nat
    <3> HIDE DEF N
    <3>. QED  BY <1>1
  <2>5. Cardinality(U) >= n
    BY <2>1, <2>2, <2>3, <2>4, Zenon
  <2>. QED  BY <2>2, <2>5, Zenon
<1>3. \A k \in 1 .. Cardinality(U) : \E a \in U : Cardinality(f[a]) = k - 1
  <2>1. \A a \in U : f[a] \subseteq U /\ a \notin f[a]
    BY <1>1
  <2>2. \A a, b \in U : a = b \/ a \in f[b] \/ b \in f[a]
    BY <1>1
  <2>3. \A a, b \in U : b \in f[a] => f[b] \subseteq f[a]
    BY <1>1
  <2> HIDE DEF f, U
  <2>. QED  BY <2>1, <2>2, <2>3, <1>2, RankExists
<1>4. ASSUME NEW k \in 1 .. n
      PROVE  at[k] \in U /\ Cardinality({b \in U : b < at[k]}) = k - 1
  <2>1. \E a \in U : Cardinality({b \in U : b < a}) = k - 1
    <3>1. k \in 1 .. Cardinality(U)
      <4> HIDE DEF U
      <4>. QED  BY <1>2
    <3>2. PICK a \in U : Cardinality(f[a]) = k - 1
      BY <3>1, <1>3
    <3>3. f[a] = {b \in U : b < a}
      OBVIOUS
    <3>. QED  BY <3>2, <3>3
  <2>2. at[k] = CHOOSE a \in U : Cardinality({b \in U : b < a}) = k - 1
    BY DEF FreshCells
  <2> HIDE DEF U, at
  <2>. QED  BY <2>1, <2>2
<1>5. at = [k \in 1 .. n |-> at[k]]
  BY DEF FreshCells
<1>6. \A k \in 1 .. n : at[k] \in Nat \ {Null} /\ at[k] \notin DOMAIN mm
  <2>1. \A a \in U : a \in Nat \ {Null} /\ a \notin DOMAIN mm
    BY <1>1 DEF Null
  <2> HIDE DEF at, U
  <2>. QED  BY <1>4, <2>1
<1> HIDE DEF at, U
<1>7. at \in Seq(Nat \ {Null}) /\ Len(at) = n
  BY <1>5, <1>6
<1>8. \A k, l \in 1 .. n : at[k] = at[l] => k = l
  <2>1. ASSUME NEW k \in 1 .. n, NEW l \in 1 .. n, at[k] = at[l] PROVE k = l
    <3>1. k - 1 = l - 1
      BY <1>4, <2>1
    <3>. QED  BY <3>1
  <2>. QED  BY <2>1
<1>. QED  BY <1>6, <1>7, <1>8 DEF at

(* The memory nn is mm and a chain of new nodes at the addresses at, which *)
(* holds the terms ts and starts at first.                                 *)
IsGrown(mm, nn, at, ts, first) ==
  /\ ts \in Seq(TermSpace) /\ at \in Seq(Nat \ {Null}) /\ Len(at) = Len(ts)
  /\ \A k \in DOMAIN at : at[k] \notin DOMAIN mm
  /\ \A k, l \in DOMAIN at : at[k] = at[l] => k = l
  /\ DOMAIN nn = DOMAIN mm \cup Range(at)
  /\ nn = [b \in DOMAIN nn |-> nn[b]]
  /\ \A b \in DOMAIN mm : nn[b] = mm[b]
  /\ \A k \in DOMAIN at :
       nn[at[k]] = Node(ts[k], IF k = Len(ts) THEN Null ELSE at[k + 1])
  /\ first = IF ts = << >> THEN Null ELSE at[1]

LEMMA OwnedGrown ==
  ASSUME NEW mm, NEW r, NEW ch, NEW ct, Holds(mm, r, ch, ct), r["new"] = Null,
         NEW nn, NEW at, NEW ts, NEW first, IsGrown(mm, nn, at, ts, first)
  PROVE  Holds(nn, [r EXCEPT !["new"] = first], [ch EXCEPT !["new"] = at],
                   [ct EXCEPT !["new"] = ts])
<1> DEFINE node(k) == Node(ts[k], IF k = Len(ts) THEN Null ELSE at[k + 1])
           rr == [r EXCEPT !["new"] = first]
           hh == [ch EXCEPT !["new"] = at]
<1>0. Owned(mm, r, ch) /\ ct = [o \in Owners |-> TermsOf(mm, ch[o])]
  BY DEF Holds
<1>1. /\ IsMemory(mm) /\ r \in [Owners -> Nat] /\ ch \in [Owners -> Seq(DOMAIN mm)]
      /\ \A k \in Owners : IsChain(mm, r[k], ch[k])
      /\ \A k, o \in Owners : \A i \in DOMAIN ch[k], j \in DOMAIN ch[o] :
           ch[k][i] = ch[o][j] => k = o
      /\ \A a \in DOMAIN mm : \E k \in Owners : \E i \in DOMAIN ch[k] : ch[k][i] = a
  BY <1>0 DEF Owned
<1>2. /\ Len(ts) \in Nat /\ DOMAIN ts = 1 .. Len(ts)
      /\ \A k \in DOMAIN ts : ts[k] \in TermSpace
      /\ ts = [k \in DOMAIN ts |-> ts[k]]
      /\ first = IF ts = << >> THEN Null ELSE at[1]
      /\ ts = << >> <=> Len(ts) = 0
  BY DEF IsGrown
<1>3. /\ at \in Seq(Nat \ {Null}) /\ Len(at) = Len(ts) /\ DOMAIN at = 1 .. Len(ts)
      /\ \A k \in DOMAIN at : at[k] \notin DOMAIN mm
      /\ \A k, l \in DOMAIN at : at[k] = at[l] => k = l
      /\ \A k \in DOMAIN at : at[k] \in Nat \ {Null}
      /\ at = << >> <=> Len(at) = 0
  BY DEF IsGrown
<1>5. /\ DOMAIN nn = DOMAIN mm \cup Range(at)
      /\ nn = [b \in DOMAIN nn |-> nn[b]]
      /\ \A b \in DOMAIN mm : nn[b] = mm[b]
      /\ \A k \in DOMAIN at : nn[at[k]] = node(k)
  BY DEF IsGrown
<1>6. \A k \in DOMAIN at : /\ node(k) \in NodeSpace
                           /\ node(k).next = (IF k = Len(ts) THEN Null ELSE at[k + 1])
                           /\ Term(node(k).c, node(k).m) = ts[k]
  <2> SUFFICES ASSUME NEW k \in DOMAIN at
               PROVE  /\ node(k) \in NodeSpace
                      /\ node(k).next = (IF k = Len(ts) THEN Null ELSE at[k + 1])
                      /\ Term(node(k).c, node(k).m) = ts[k]
    OBVIOUS
  <2> DEFINE next == IF k = Len(ts) THEN Null ELSE at[k + 1]
  <2>1. next \in Nat
    <3>. QED  BY <1>2, <1>3 DEF Null
  <2>2. ts[k] \in TermSpace
    <3>. QED  BY <1>2, <1>3
  <2>3. node(k) = [c |-> ts[k].c, m |-> ts[k].m, next |-> next]
    BY DEF Node
  <2> HIDE DEF next, node
  <2>. QED  BY <2>1, <2>2, <2>3 DEF NodeSpace, TermSpace, Term, next
<1> HIDE DEF node
<1>7. IsMemory(nn)
  <2>1. IsFiniteSet(Range(at))
    <3> DEFINE S == 1 .. Len(ts)
    <3>1. at \in Surjection(S, Range(at))
      BY <1>3 DEF Surjection, Range
    <3>2. IsFiniteSet(S)
      BY <1>2, UpToFacts
    <3> HIDE DEF S
    <3>. QED  BY <3>1, <3>2, FS_Surjection
  <2>2. IsFiniteSet(DOMAIN nn)
    <3>1. IsFiniteSet(DOMAIN mm)
      BY <1>1 DEF IsMemory
    <3>2. IsFiniteSet(DOMAIN mm \cup Range(at))
      BY <2>1, <3>1, FS_Union, Zenon
    <3>. QED  BY <3>2, <1>5, Zenon
  <2>3. DOMAIN nn \subseteq Nat \ {Null}
    BY <1>1, <1>3, <1>5 DEF IsMemory, Range
  <2>4. \A b \in DOMAIN nn : nn[b] \in NodeSpace
    BY <1>1, <1>5, <1>6 DEF IsMemory, Range
  <2>5. nn \in [DOMAIN nn -> NodeSpace]
    BY <2>4, <1>5
  <2>. QED  BY <2>2, <2>3, <2>5 DEF IsMemory
<1>8. \A k \in Owners : \A i \in DOMAIN ch[k] : ch[k][i] \in DOMAIN mm
  BY <1>1
<1>9. ASSUME NEW k \in Owners
      PROVE  IsChain(nn, r[k], ch[k]) /\ TermsOf(nn, ch[k]) = TermsOf(mm, ch[k])
  <2>1. \A i \in DOMAIN ch[k] : ch[k][i] \in DOMAIN nn /\ nn[ch[k][i]] = mm[ch[k][i]]
    BY <1>5, <1>8
  <2>0. SameNodes(mm, nn, ch[k])
    BY <2>1 DEF SameNodes
  <2>2. IsChain(mm, r[k], ch[k])
    BY <1>1
  <2>. QED  BY ONLY <2>0, <2>2, ChainFrame
<1>10. IsChain(nn, first, at)
  <2>1. at \in Seq(DOMAIN nn)
    <3>1. \A k \in DOMAIN at : at[k] \in DOMAIN nn
      BY <1>5 DEF Range
    <3>. QED  BY ONLY <1>2, <1>3, <3>1
  <2>2. \A k \in DOMAIN at : nn[at[k]].next = IF k = Len(at) THEN Null ELSE at[k + 1]
    BY <1>3, <1>5, <1>6
  <2>3. first = IF at = << >> THEN Null ELSE at[1]
    BY <1>2, <1>3
  <2>. QED  BY <2>1, <2>2, <2>3, <1>3 DEF IsChain
<1>11. TermsOf(nn, at) = ts
  <2>1. TermsOf(nn, at) = [k \in DOMAIN at |-> Term(nn[at[k]].c, nn[at[k]].m)]
    BY DEF TermsOf
  <2>2. \A k \in DOMAIN at : Term(nn[at[k]].c, nn[at[k]].m) = ts[k]
    BY <1>5, <1>6
  <2>3. ts = [k \in DOMAIN at |-> ts[k]]
    BY <1>2, <1>3
  <2>. QED  BY <2>1, <2>2, <2>3
<1>12. /\ rr \in [Owners -> Nat]
       /\ \A k \in Owners : rr[k] = IF k = "new" THEN first ELSE r[k]
  <2>1. first \in Nat
    BY <1>2, <1>3 DEF Null
  <2>. QED  BY <2>1, <1>1
<1>13. /\ hh = [k \in Owners |-> IF k = "new" THEN at ELSE ch[k]]
       /\ \A k \in Owners : hh[k] = IF k = "new" THEN at ELSE ch[k]
  BY <1>1
<1>14. ch["new"] = << >>
  BY <1>1 DEF IsChain, IsMemory, Owners
<1> HIDE DEF rr, hh
<1>15. \A k \in Owners : IsChain(nn, rr[k], hh[k])
  BY <1>9, <1>10, <1>12, <1>13
<1>16. hh \in [Owners -> Seq(DOMAIN nn)]
  BY <1>13, <1>15 DEF IsChain
<1>17. ASSUME NEW k \in Owners, NEW o \in Owners,
              NEW i \in DOMAIN hh[k], NEW j \in DOMAIN hh[o], hh[k][i] = hh[o][j]
       PROVE  k = o
  <2>0. \A n \in DOMAIN ch[k], q \in DOMAIN ch[o] : ch[k][n] = ch[o][q] => k = o
    BY <1>1
  <2>1. hh[k][i] \in DOMAIN mm <=> k # "new"
    BY <1>3, <1>8, <1>13
  <2>2. hh[o][j] \in DOMAIN mm <=> o # "new"
    BY <1>3, <1>8, <1>13
  <2>. QED  BY <2>0, <2>1, <2>2, <1>13, <1>17
<1>18. ASSUME NEW a \in DOMAIN nn
       PROVE  \E k \in Owners : \E i \in DOMAIN hh[k] : hh[k][i] = a
  <2>1. CASE a \in DOMAIN mm
    <3>1. PICK k \in Owners : \E i \in DOMAIN ch[k] : ch[k][i] = a
      BY <1>1, <2>1
    <3>2. k # "new"
      BY <3>1, <1>14
    <3>. QED  BY <3>1, <3>2, <1>13
  <2>2. CASE a \in Range(at)
    <3>1. \E i \in DOMAIN at : at[i] = a
      BY <2>2 DEF Range
    <3>2. "new" \in Owners
      BY DEF Owners
    <3>. QED  BY <3>1, <3>2, <1>13
  <2>. QED  BY <2>1, <2>2, <1>5
<1>19. Owned(nn, rr, hh)
  BY <1>7, <1>12, <1>15, <1>16, <1>17, <1>18 DEF Owned
<1>20. [ct EXCEPT !["new"] = ts] = [k \in Owners |-> TermsOf(nn, hh[k])]
  BY <1>0, <1>9, <1>11, <1>13
<1>. QED  BY <1>19, <1>20, Zenon DEF Holds, rr, hh

(* A fresh chain for a sequence of terms. *)
LEMMA OwnedLinked ==
  ASSUME NEW mm, NEW r, NEW ch, NEW ct, Holds(mm, r, ch, ct), r["new"] = Null,
         NEW ts \in Seq(TermSpace), NEW nn, nn = Linked(mm, ts),
         NEW at, at = FreshCells(mm, Len(ts))
  PROVE  Holds(nn, [r EXCEPT !["new"] = Placed(mm, ts)], [ch EXCEPT !["new"] = at],
                   [ct EXCEPT !["new"] = ts])
<1> DEFINE node(k) == Node(ts[k], IF k = Len(ts) THEN Null ELSE at[k + 1])
<1>0. Owned(mm, r, ch) /\ ct = [o \in Owners |-> TermsOf(mm, ch[o])]
  BY DEF Holds
<1>1. IsMemory(mm)
  BY <1>0 DEF Owned
<1>2. Len(ts) \in Nat
  OBVIOUS
<1>3. /\ at \in Seq(Nat \ {Null}) /\ Len(at) = Len(ts) /\ DOMAIN at = 1 .. Len(ts)
      /\ \A k \in DOMAIN at : at[k] \notin DOMAIN mm
      /\ \A k, l \in DOMAIN at : at[k] = at[l] => k = l
  <2>1. /\ at \in Seq(Nat \ {Null}) /\ Len(at) = Len(ts)
        /\ \A k \in 1 .. Len(ts) : at[k] \notin DOMAIN mm
        /\ \A k, l \in 1 .. Len(ts) : at[k] = at[l] => k = l
    BY <1>1, <1>2, FreshFacts
  <2>2. DOMAIN at = 1 .. Len(ts)
    <3>. QED  BY <2>1
  <2>. QED  BY <2>1, <2>2
<1>4. nn = [b \in DOMAIN mm \cup Range(at) |->
              IF b \in DOMAIN mm THEN mm[b] ELSE node(CHOOSE k \in DOMAIN at : at[k] = b)]
  BY DEF Linked
<1> HIDE DEF node
<1>5. /\ DOMAIN nn = DOMAIN mm \cup Range(at)
      /\ \A b \in DOMAIN mm : nn[b] = mm[b]
      /\ \A k \in DOMAIN at : nn[at[k]] = node(k)
  <2>1. ASSUME NEW k \in DOMAIN at PROVE nn[at[k]] = node(k)
    <3>1. at[k] \in Range(at) /\ at[k] \notin DOMAIN mm
      BY <1>3 DEF Range
    <3>2. (CHOOSE l \in DOMAIN at : at[l] = at[k]) = k
      BY <1>3
    <3>. QED  BY <3>1, <3>2, <1>4
  <2>. QED  BY <2>1, <1>4
<1>6. nn = [b \in DOMAIN nn |-> nn[b]]
  BY <1>4
<1>7. Placed(mm, ts) = IF ts = << >> THEN Null ELSE at[1]
  BY DEF Placed
<1>8. \A k \in DOMAIN at : nn[at[k]] = Node(ts[k], IF k = Len(ts) THEN Null ELSE at[k + 1])
  BY <1>5 DEF node
<1>9. IsGrown(mm, nn, at, ts, Placed(mm, ts))
  BY <1>3, <1>5, <1>6, <1>7, <1>8 DEF IsGrown
<1>. QED  BY <1>9, OwnedGrown, Zenon

(* A node of its own for one term. *)
LEMMA OwnedNode ==
  ASSUME NEW mm, NEW r, NEW ch, NEW ct, Holds(mm, r, ch, ct), r["new"] = Null,
         NEW a \in Nat \ {Null}, a \notin DOMAIN mm, NEW t \in TermSpace,
         NEW nn, nn = WithNode(mm, a, t)
  PROVE  Holds(nn, [r EXCEPT !["new"] = a], [ch EXCEPT !["new"] = <<a>>],
                   [ct EXCEPT !["new"] = <<t>>])
<1> DEFINE at == <<a>>
           ts == <<t>>
<1>1. /\ ts \in Seq(TermSpace) /\ at \in Seq(Nat \ {Null}) /\ Len(at) = Len(ts)
      /\ DOMAIN at = {1} /\ at[1] = a /\ ts[1] = t /\ Len(ts) = 1 /\ ts # << >>
      /\ Range(at) = {a}
  BY DEF Range
<1>2. nn = [b \in DOMAIN mm \cup {a} |-> IF b = a THEN Node(t, Null) ELSE mm[b]]
  BY DEF WithNode
<1> HIDE DEF at, ts
<1>3. /\ DOMAIN nn = DOMAIN mm \cup Range(at) /\ nn = [b \in DOMAIN nn |-> nn[b]]
      /\ \A b \in DOMAIN mm : nn[b] = mm[b]
  BY <1>1, <1>2
<1>4. \A k \in DOMAIN at :
        nn[at[k]] = Node(ts[k], IF k = Len(ts) THEN Null ELSE at[k + 1])
  BY <1>1, <1>2
<1>5. /\ \A k \in DOMAIN at : at[k] \notin DOMAIN mm
      /\ \A k, l \in DOMAIN at : at[k] = at[l] => k = l
  BY <1>1
<1>6. (IF ts = << >> THEN Null ELSE at[1]) = a
  BY <1>1
<1>7. IsGrown(mm, nn, at, ts, a)
  BY <1>1, <1>3, <1>4, <1>5, <1>6 DEF IsGrown
<1>8. Holds(nn, [r EXCEPT !["new"] = a], [ch EXCEPT !["new"] = at],
                  [ct EXCEPT !["new"] = ts])
  BY <1>7, OwnedGrown, Zenon
<1>. QED  BY <1>8, Zenon DEF at, ts

(* The first node of a chain becomes a chain of its own, with another      *)
(* term.                                                                   *)
LEMMA OwnedDetached ==
  ASSUME NEW mm, NEW r, NEW ch, NEW ct, Holds(mm, r, ch, ct), r["new"] = Null,
         NEW l \in Owners \ {"new"}, r[l] # Null, NEW t \in TermSpace,
         NEW nn, nn = WithNode(mm, r[l], t)
  PROVE  /\ r[l] \in DOMAIN mm
         /\ Holds(nn, [r EXCEPT ![l] = mm[r[l]].next, !["new"] = r[l]],
                      [ch EXCEPT ![l] = Tail(ch[l]), !["new"] = <<r[l]>>],
                      [ct EXCEPT ![l] = Tail(ct[l]), !["new"] = <<t>>])
<1> DEFINE a == r[l]
           oo == Freed(mm, {a})
           r1 == [r EXCEPT ![l] = mm[a].next]
           h1 == [ch EXCEPT ![l] = Tail(ch[l])]
           c1 == [ct EXCEPT ![l] = Tail(ct[l])]
<1>1. a \in DOMAIN mm /\ Holds(oo, r1, h1, c1)
  BY OwnedShorter, Zenon
<1>2. a \in Nat \ {Null} /\ a \notin DOMAIN oo
  BY <1>1 DEF Freed, Holds, Owned, IsMemory
<1>3. nn = WithNode(oo, a, t)
  BY <1>1 DEF WithNode, Freed
<1>4. r1["new"] = Null
  BY DEF Holds, Owned, Owners
<1>5. /\ [r1 EXCEPT !["new"] = a] = [r EXCEPT ![l] = mm[r[l]].next, !["new"] = r[l]]
      /\ [h1 EXCEPT !["new"] = <<a>>] = [ch EXCEPT ![l] = Tail(ch[l]), !["new"] = <<r[l]>>]
      /\ [c1 EXCEPT !["new"] = <<t>>] = [ct EXCEPT ![l] = Tail(ct[l]), !["new"] = <<t>>]
  OBVIOUS
<1> HIDE DEF oo, r1, h1, c1
<1>6. Holds(nn, [r1 EXCEPT !["new"] = a], [h1 EXCEPT !["new"] = <<a>>],
                [c1 EXCEPT !["new"] = <<t>>])
  BY <1>1, <1>2, <1>3, <1>4, OwnedNode, Zenon
<1>. QED  BY <1>1, <1>5, <1>6, Zenon

(* A chain is hung behind the last node of the output. *)
LEMMA OwnedJoined ==
  ASSUME NEW mm, NEW r, NEW ch, NEW ct, Holds(mm, r, ch, ct),
         NEW l \in Owners \ {"out"}, r[l] # Null, r["out"] # Null,
         NEW nn, nn = [mm EXCEPT ![ch["out"][Len(ch["out"])]].next = r[l]]
  PROVE  Holds(nn, [r EXCEPT ![l] = Null],
                   [ch EXCEPT !["out"] = ch["out"] \o ch[l], ![l] = << >>],
                   [ct EXCEPT !["out"] = ct["out"] \o ct[l], ![l] = << >>])
<1> DEFINE s == ch["out"]
           u == ch[l]
           n == Len(s)
           end == s[n]
           w == s \o u
           rr == [r EXCEPT ![l] = Null]
           hh == [ch EXCEPT !["out"] = w, ![l] = << >>]
<1>0. Owned(mm, r, ch) /\ ct = [o \in Owners |-> TermsOf(mm, ch[o])]
  BY DEF Holds
<1>1. /\ IsMemory(mm) /\ r \in [Owners -> Nat] /\ ch \in [Owners -> Seq(DOMAIN mm)]
      /\ \A k \in Owners : IsChain(mm, r[k], ch[k])
      /\ \A k, o \in Owners : \A i \in DOMAIN ch[k], j \in DOMAIN ch[o] :
           ch[k][i] = ch[o][j] => k = o
      /\ \A a \in DOMAIN mm : \E k \in Owners : \E i \in DOMAIN ch[k] : ch[k][i] = a
  BY <1>0 DEF Owned
<1>2. "out" \in Owners
  BY DEF Owners
<1>3. /\ s \in Seq(DOMAIN mm) /\ s # << >> /\ s[1] = r["out"]
      /\ n \in Nat /\ n > 0 /\ DOMAIN s = 1 .. n
      /\ \A i, j \in DOMAIN s : s[i] = s[j] => i = j
      /\ \A k \in DOMAIN s : mm[s[k]].next = IF k = n THEN Null ELSE s[k + 1]
  <2>1. IsChain(mm, r["out"], ch["out"])
    BY <1>1, <1>2
  <2>. QED  BY <2>1, ChainFacts
<1>4. /\ u \in Seq(DOMAIN mm) /\ u # << >> /\ u[1] = r[l]
      /\ Len(u) \in Nat /\ Len(u) > 0 /\ DOMAIN u = 1 .. Len(u)
      /\ \A i, j \in DOMAIN u : u[i] = u[j] => i = j
      /\ \A k \in DOMAIN u : mm[u[k]].next = IF k = Len(u) THEN Null ELSE u[k + 1]
  <2>1. IsChain(mm, r[l], ch[l])
    BY <1>1
  <2>. QED  BY <2>1, ChainFacts
<1>5. \A i \in DOMAIN s, j \in DOMAIN u : s[i] # u[j]
  BY <1>1, <1>2
<1> HIDE DEF s, u
<1>6. /\ w \in Seq(DOMAIN mm) /\ Len(w) = n + Len(u)
      /\ DOMAIN w = 1 .. Len(w)
      /\ \A k \in 1 .. n : k \in DOMAIN w /\ w[k] = s[k]
      /\ \A k \in DOMAIN u : n + k \in DOMAIN w /\ w[n + k] = u[k]
      /\ \A k \in DOMAIN w : k \in 1 .. n \/ \E j \in DOMAIN u : k = n + j
  <2>1. s \o u \in Seq(DOMAIN mm \cup DOMAIN mm)
    BY <1>3, <1>4, ConcatFacts, Zenon
  <2>2. DOMAIN mm \cup DOMAIN mm = DOMAIN mm
    OBVIOUS
  <2>3. w \in Seq(DOMAIN mm)
    BY <2>1, <2>2, Zenon
  <2>4. Joins(w, s, u)
    BY <1>3, <1>4, ConcatFacts, Zenon
  <2> HIDE DEF w
  <2>5. DOMAIN w = 1 .. Len(w)
    BY <2>3
  <2>. QED  BY <1>4, <2>3, <2>4, <2>5 DEF Joins, n
<1>7. end \in DOMAIN mm /\ n \in DOMAIN s
  BY <1>3
<1> HIDE DEF n, w
<1>8. /\ DOMAIN nn = DOMAIN mm /\ nn = [b \in DOMAIN mm |-> nn[b]]
      /\ \A b \in DOMAIN mm : b # end => nn[b] = mm[b]
      /\ nn[end] = [mm[end] EXCEPT !.next = r[l]]
  BY <1>7 DEF s, n
<1>9. mm[end] \in NodeSpace /\ r[l] \in Nat
  BY <1>1, <1>7 DEF IsMemory
<1>10. /\ nn[end].next = r[l] /\ nn[end].c = mm[end].c /\ nn[end].m = mm[end].m
       /\ nn[end] \in NodeSpace
  BY <1>8, <1>9 DEF NodeSpace
<1> HIDE DEF end
<1>11. IsMemory(nn)
  <2>1. nn \in [DOMAIN nn -> NodeSpace]
    BY <1>1, <1>8, <1>10 DEF IsMemory
  <2>. QED  BY <1>1, <1>8, <2>1 DEF IsMemory
<1>12. ASSUME NEW k \in Owners, k # "out"
       PROVE  IsChain(nn, r[k], ch[k]) /\ TermsOf(nn, ch[k]) = TermsOf(mm, ch[k])
  <2>1. \A i \in DOMAIN ch[k] : ch[k][i] \in DOMAIN nn /\ nn[ch[k][i]] = mm[ch[k][i]]
    <3>1. \A i \in DOMAIN ch[k] : ch[k][i] \in DOMAIN mm
      BY <1>1
    <3>2. \A i \in DOMAIN ch[k] : ch[k][i] # end
      <4>1. n \in DOMAIN ch["out"] /\ end = ch["out"][n]
        BY <1>7 DEF s, end
      <4>. QED  BY <1>1, <1>2, <1>12, <4>1
    <3>. QED  BY <3>1, <3>2, <1>8
  <2>0. SameNodes(mm, nn, ch[k])
    BY <2>1 DEF SameNodes
  <2>2. IsChain(mm, r[k], ch[k])
    BY <1>1
  <2>. QED  BY <2>0, <2>2, ChainFrame
<1>13. \A k \in DOMAIN s : k # n => s[k] # end
  BY <1>3, <1>7 DEF end
<1>14. \A k \in DOMAIN u : u[k] # end
  BY <1>5, <1>7 DEF end
<1>15. IsChain(nn, r["out"], w)
  <2>1. w \in Seq(DOMAIN nn)
    BY <1>6, <1>8
  <2>2. ASSUME NEW i \in DOMAIN w, NEW j \in DOMAIN w, w[i] = w[j] PROVE i = j
    <3>1. ASSUME NEW q \in DOMAIN w
          PROVE  \/ q \in DOMAIN s /\ w[q] = s[q]
                 \/ \E e \in DOMAIN u : q = n + e /\ w[q] = u[e]
      BY <1>3, <1>6
    <3>2. \A e, f \in DOMAIN u : u[e] = u[f] => n + e = n + f
      BY <1>4
    <3>. QED  BY <3>1, <3>2, <2>2, <1>3, <1>5
  <2>3. r["out"] = IF w = << >> THEN Null ELSE w[1]
    <3>1. Len(w) > 0 /\ w[1] = s[1]
      BY <1>3, <1>4, <1>6
    <3>2. w # << >>
      BY <3>1
    <3>. QED  BY <3>1, <3>2, <1>3
  <2>4. ASSUME NEW k \in DOMAIN w
        PROVE  nn[w[k]].next = IF k = Len(w) THEN Null ELSE w[k + 1]
    <3>1. CASE k \in 1 .. n /\ k # n
      <4>1. k \in 1 .. n /\ k + 1 \in 1 .. n /\ k # n /\ k # Len(w)
        BY <3>1, <1>3, <1>4, <1>6
      <4>2. w[k] = s[k] /\ w[k + 1] = s[k + 1] /\ nn[s[k]] = mm[s[k]]
        <5>1. s[k] \in DOMAIN mm /\ s[k] # end
          BY <4>1, <1>3, <1>13
        <5>. QED  BY <4>1, <5>1, <1>6, <1>8
      <4>3. mm[s[k]].next = s[k + 1]
        BY <4>1, <1>3
      <4>. QED  BY <4>1, <4>2, <4>3
    <3>2. CASE k = n
      <4>1. w[n] = end /\ n # Len(w)
        BY <1>3, <1>4, <1>6 DEF end
      <4>2. 1 \in DOMAIN u
        BY <1>4
      <4>3. w[n + 1] = r[l]
        BY <4>2, <1>4, <1>6
      <4>. QED  BY <3>2, <4>1, <4>3, <1>10
    <3>3. ASSUME NEW q \in DOMAIN u, k = n + q
          PROVE  nn[w[k]].next = IF k = Len(w) THEN Null ELSE w[k + 1]
      <4>1. w[k] = u[q] /\ (q = Len(u) <=> k = Len(w))
        BY <3>3, <1>3, <1>4, <1>6
      <4>2. u[q] \in DOMAIN mm /\ u[q] # end
        BY <1>4, <1>14
      <4>3. nn[w[k]].next = IF q = Len(u) THEN Null ELSE u[q + 1]
        <5>1. nn[w[k]] = mm[u[q]]
          BY <4>1, <4>2, <1>8
        <5>. QED  BY <5>1, <1>4
      <4>4. ASSUME q # Len(u) PROVE w[k + 1] = u[q + 1]
        <5>1. q + 1 \in DOMAIN u /\ k + 1 = n + (q + 1)
          BY <3>3, <4>4, <1>3, <1>4
        <5>2. w[n + (q + 1)] = u[q + 1]
          BY <5>1, <1>6
        <5>. QED  BY <5>1, <5>2
      <4>. QED  BY <4>1, <4>3, <4>4
    <3>. QED  BY <3>1, <3>2, <3>3, <1>6
  <2>. QED  BY <2>1, <2>2, <2>3, <2>4 DEF IsChain
<1>16. TermsOf(nn, w) = TermsOf(mm, s) \o TermsOf(mm, u)
  <2> DEFINE a == TermsOf(mm, s)
             b == TermsOf(mm, u)
             d == TermsOf(nn, w)
  <2>1. /\ a \in Seq(Range(a)) /\ Len(a) = n
        /\ \A k \in 1 .. n : a[k] = Term(mm[s[k]].c, mm[s[k]].m)
    BY <1>3, TermsOfFacts
  <2>2. /\ b \in Seq(Range(b)) /\ Len(b) = Len(u)
        /\ \A k \in 1 .. Len(u) : b[k] = Term(mm[u[k]].c, mm[u[k]].m)
    BY <1>4, TermsOfFacts
  <2>3. /\ d \in Seq(Range(d)) /\ Len(d) = Len(w)
        /\ \A k \in 1 .. Len(w) : d[k] = Term(nn[w[k]].c, nn[w[k]].m)
    <3>1. w \in Seq(DOMAIN mm)
      BY <1>6
    <3>2. d \in Seq(Range(d)) /\ Len(d) = Len(w)
      BY <3>1, TermsOfFacts, Zenon
    <3>3. \A k \in 1 .. Len(w) : d[k] = Term(nn[w[k]].c, nn[w[k]].m)
      <4>1. \A k \in DOMAIN w : d[k] = Term(nn[w[k]].c, nn[w[k]].m)
        BY Zenon DEF TermsOf
      <4>. QED  BY <4>1, <1>6
    <3>. QED  BY <3>2, <3>3
  <2> HIDE DEF a, b, d
  <2>0. a \o b \in Seq(Range(a) \cup Range(b)) /\ Joins(a \o b, a, b)
    BY <2>1, <2>2, ConcatFacts, Zenon
  <2>4. /\ a \o b \in Seq(Range(a) \cup Range(b)) /\ Len(a \o b) = Len(a) + Len(b)
        /\ \A k \in 1 .. Len(a) : (a \o b)[k] = a[k]
        /\ \A k \in 1 .. Len(b) : (a \o b)[Len(a) + k] = b[k]
    BY <2>0 DEF Joins
  <2>5. ASSUME NEW k \in 1 .. Len(d) PROVE d[k] = (a \o b)[k]
    <3>0. k \in DOMAIN w /\ d[k] = Term(nn[w[k]].c, nn[w[k]].m)
      BY <2>3, <1>6
    <3>1. CASE k \in 1 .. n
      <4>1. w[k] = s[k] /\ s[k] \in DOMAIN mm
        BY <3>1, <1>3, <1>6
      <4>2. nn[s[k]].c = mm[s[k]].c /\ nn[s[k]].m = mm[s[k]].m
        BY <4>1, <1>8, <1>10
      <4>3. (a \o b)[k] = Term(mm[s[k]].c, mm[s[k]].m)
        BY <3>1, <2>1, <2>4
      <4>. QED  BY <3>0, <4>1, <4>2, <4>3, Zenon
    <3>2. ASSUME NEW q \in DOMAIN u, k = n + q PROVE d[k] = (a \o b)[k]
      <4>1. w[k] = u[q] /\ u[q] \in DOMAIN mm
        BY <3>2, <1>4, <1>6
      <4>2. nn[u[q]] = mm[u[q]]
        BY <4>1, <1>8, <1>14
      <4>3. (a \o b)[Len(a) + q] = Term(mm[u[q]].c, mm[u[q]].m)
        BY <2>2, <2>4, <1>4
      <4>4. (a \o b)[k] = Term(mm[u[q]].c, mm[u[q]].m)
        BY <4>3, <3>2, <2>1, Zenon
      <4>. QED  BY <3>0, <4>1, <4>2, <4>4, Zenon
    <3>. QED  BY <3>0, <3>1, <3>2, <1>6
  <2>6. d = a \o b
    <3>1. Len(d) = Len(a \o b)
      BY <2>1, <2>2, <2>3, <2>4, <1>6
    <3>. QED  BY <3>1, <2>3, <2>4, <2>5, SameSeq, Zenon
  <2>. QED  BY <2>6 DEF a, b, d
<1>17. /\ rr \in [Owners -> Nat]
       /\ \A k \in Owners : rr[k] = IF k = l THEN Null ELSE r[k]
  BY <1>1 DEF Null
<1>18. /\ hh = [k \in Owners |-> IF k = l THEN << >> ELSE IF k = "out" THEN w ELSE ch[k]]
       /\ \A k \in Owners : hh[k] = IF k = l THEN << >> ELSE IF k = "out" THEN w ELSE ch[k]
  BY <1>1
<1>19. IsChain(nn, Null, << >>) /\ TermsOf(nn, << >>) = << >>
  BY DEF IsChain, TermsOf
<1> HIDE DEF rr, hh
<1>20. \A k \in Owners : IsChain(nn, rr[k], hh[k])
  BY <1>12, <1>15, <1>17, <1>18, <1>19
<1>21. hh \in [Owners -> Seq(DOMAIN nn)]
  BY <1>18, <1>20 DEF IsChain
<1>22. ASSUME NEW k \in Owners, NEW o \in Owners,
              NEW i \in DOMAIN hh[k], NEW j \in DOMAIN hh[o], hh[k][i] = hh[o][j]
       PROVE  k = o
  <2> DEFINE Owner(q) == IF q = "out" THEN {"out", l} ELSE {q}
  <2>1. ASSUME NEW q \in Owners, NEW e \in DOMAIN hh[q]
        PROVE  q # l /\ \E z \in Owner(q) : \E f \in DOMAIN ch[z] : ch[z][f] = hh[q][e]
    <3>1. q # l
      BY <2>1, <1>18
    <3>2. CASE q # "out"
      BY <3>1, <3>2, <2>1, <1>18
    <3>3. CASE q = "out"
      <4>1. hh[q] = w /\ e \in DOMAIN w
        BY <3>1, <3>3, <2>1, <1>18
      <4>2. CASE e \in 1 .. n
        <5>1. e \in DOMAIN s /\ w[e] = s[e]
          BY <4>1, <4>2, <1>3, <1>6
        <5>. QED  BY <3>1, <3>3, <4>1, <5>1 DEF s
      <4>3. ASSUME NEW f \in DOMAIN u, e = n + f
            PROVE  \E z \in Owner(q) : \E g \in DOMAIN ch[z] : ch[z][g] = hh[q][e]
        <5>1. w[e] = u[f]
          BY <4>3, <1>6
        <5>. QED  BY <3>1, <3>3, <4>1, <5>1 DEF u
      <4>. QED  BY <3>1, <4>1, <4>2, <4>3, <1>6
    <3>. QED  BY <3>2, <3>3
  <2>2. PICK z \in Owner(k) : \E f \in DOMAIN ch[z] : ch[z][f] = hh[k][i]
    BY <2>1
  <2>3. PICK p \in Owner(o) : \E f \in DOMAIN ch[p] : ch[p][f] = hh[o][j]
    BY <2>1
  <2>4. z = p
    <3>1. z \in Owners /\ p \in Owners
      BY <1>2, <2>2, <2>3
    <3>2. \A f \in DOMAIN ch[z], g \in DOMAIN ch[p] : ch[z][f] = ch[p][g] => z = p
      BY <3>1, <1>1
    <3>. QED  BY <3>2, <2>2, <2>3, <1>22
  <2>5. k # l /\ o # l
    BY <2>1
  <2>. QED  BY <2>2, <2>3, <2>4, <2>5
<1>23. ASSUME NEW a \in DOMAIN nn
       PROVE  \E k \in Owners : \E i \in DOMAIN hh[k] : hh[k][i] = a
  <2>1. PICK k \in Owners : \E i \in DOMAIN ch[k] : ch[k][i] = a
    BY <1>1, <1>8
  <2>2. PICK i \in DOMAIN ch[k] : ch[k][i] = a
    BY <2>1
  <2>3. CASE k = "out"
    <3>1. i \in 1 .. n /\ s[i] = a
      BY <2>2, <2>3, <1>3 DEF s
    <3>2. i \in DOMAIN w /\ w[i] = a
      BY <3>1, <1>6
    <3>. QED  BY <3>2, <1>2, <2>3, <1>18
  <2>4. CASE k = l
    <3>1. i \in DOMAIN u /\ u[i] = a
      BY <2>2, <2>4 DEF u
    <3>3. n + i \in DOMAIN w /\ w[n + i] = a
      BY <3>1, <1>6
    <3>. QED  BY <3>3, <1>2, <1>18
  <2>5. CASE k # l /\ k # "out"
    BY <2>2, <2>5, <1>18
  <2>. QED  BY <2>3, <2>4, <2>5
<1>24. Owned(nn, rr, hh)
  BY <1>11, <1>17, <1>20, <1>21, <1>22, <1>23 DEF Owned
<1>25. [ct EXCEPT !["out"] = ct["out"] \o ct[l], ![l] = << >>]
         = [k \in Owners |-> TermsOf(nn, hh[k])]
  <2>1. ct["out"] = TermsOf(mm, s) /\ ct[l] = TermsOf(mm, u)
    BY <1>0, <1>2 DEF s, u
  <2>2. ct["out"] \o ct[l] = TermsOf(nn, w)
    BY <2>1, <1>16
  <2>3. \A k \in Owners : k # "out" => ct[k] = TermsOf(nn, ch[k])
    BY <1>0, <1>12
  <2> HIDE DEF w
  <2>. QED  BY <1>0, <2>2, <2>3, <1>18, <1>19
<1>. QED  BY <1>24, <1>25, Zenon DEF Holds, rr, hh, w, s, u
(* The last node of a chain, the tail slot of a merge. *)
EndOf(s) == IF s = << >> THEN Null ELSE s[Len(s)]

(* What the model reads of a chain that is owned. *)
LEMMA HoldsFacts ==
  ASSUME NEW mm, NEW r, NEW ch, NEW ct, Holds(mm, r, ch, ct), NEW l \in Owners
  PROVE  /\ Chain(mm, r[l]) = ch[l] /\ Terms(mm, r[l]) = ct[l] /\ ct[l] = TermsOf(mm, ch[l])
         /\ ct[l] \in Seq(TermSpace) /\ Len(ct[l]) = Len(ch[l])
         /\ r[l] = Null <=> ct[l] = << >>
         /\ ch[l] = << >> <=> ct[l] = << >>
         /\ LeadAt(mm, r[l]) = LeadOf(ct[l], 0)
         /\ IsChain(mm, r[l], ch[l]) /\ ch[l] \in Seq(DOMAIN mm)
<1> DEFINE s == ch[l]
           ts == ct[l]
           a == r[l]
<1>1. /\ IsMemory(mm) /\ IsChain(mm, a, s)
      /\ ts = TermsOf(mm, s)
  BY DEF Holds, Owned
<1>2. Chain(mm, a) = s
  BY <1>1, ChainIs, Zenon
<1>3. Terms(mm, a) = ts
  BY <1>1, <1>2, Zenon DEF Terms, TermsOf
<1>4. s \in Seq(DOMAIN mm) /\ a = (IF s = << >> THEN Null ELSE s[1])
  BY <1>1 DEF IsChain
<1> HIDE DEF s, ts, a
<1>5. /\ Len(s) \in Nat /\ DOMAIN s = 1 .. Len(s) /\ (s = << >> <=> Len(s) = 0)
      /\ \A k \in DOMAIN s : s[k] \in DOMAIN mm
  BY <1>4
<1>6. ts = [k \in 1 .. Len(s) |-> Term(mm[s[k]].c, mm[s[k]].m)]
  BY <1>1, <1>5 DEF TermsOf
<1>7. \A k \in 1 .. Len(s) : Term(mm[s[k]].c, mm[s[k]].m) \in TermSpace
  <2>1. \A b \in DOMAIN mm : mm[b] \in NodeSpace
    BY <1>1 DEF IsMemory
  <2>. QED  BY <2>1, <1>5 DEF NodeSpace, TermSpace, Term
<1>8. ts \in Seq(TermSpace) /\ Len(ts) = Len(s) /\ (ts = << >> <=> Len(ts) = 0)
  BY <1>5, <1>6, <1>7
<1>9. a = Null <=> ts = << >>
  <2>1. \A b \in DOMAIN mm : b # Null
    BY <1>1 DEF IsMemory
  <2>. QED  BY <2>1, <1>4, <1>5, <1>8
<1>10. LeadAt(mm, a) = LeadOf(ts, 0)
  <2>1. CASE s = << >>
    BY <2>1, <1>4, <1>5, <1>8 DEF LeadAt, LeadOf
  <2>2. CASE s # << >>
    <3>1. 1 \in 1 .. Len(s) /\ a = s[1] /\ a # Null /\ Len(ts) # 0
      BY <2>2, <1>4, <1>5, <1>8, <1>9
    <3>2. ts[1] = Term(mm[a].c, mm[a].m)
      BY <3>1, <1>6
    <3>3. LeadAt(mm, a) = <<mm[a].c, mm[a].m>>
      BY <3>1 DEF LeadAt
    <3>4. LeadOf(ts, 0) = <<ts[1].c, ts[1].m>>
      BY <3>1 DEF LeadOf
    <3>. QED  BY <3>2, <3>3, <3>4 DEF Term
  <2>. QED  BY <2>1, <2>2
<1>. QED  BY <1>1, <1>2, <1>3, <1>4, <1>5, <1>8, <1>9, <1>10 DEF s, ts, a

OwnerReads(mm, a, s, ts) ==
  /\ Chain(mm, a) = s /\ Terms(mm, a) = ts /\ Len(Chain(mm, a)) = Len(ts)
  /\ ts \in Seq(TermSpace) /\ (a = Null <=> ts = << >>) /\ LeadAt(mm, a) = LeadOf(ts, 0)
  /\ a \in Nat

LEMMA OwnerFacts ==
  ASSUME NEW mm, NEW r, NEW ch, NEW ct, Holds(mm, r, ch, ct), NEW l, l \in Owners
  PROVE  OwnerReads(mm, r[l], ch[l], ct[l])
<1>1. r[l] \in Nat
  BY DEF Holds, Owned
<1>. QED  BY <1>1, HoldsFacts DEF OwnerReads

(* A chain goes behind the tail slot, which is the sentinel's at first.    *)
LEMMA OwnedAttached ==
  ASSUME NEW mm, NEW r, NEW ch, NEW ct, Holds(mm, r, ch, ct),
         NEW l \in Owners \ {"out"}, r[l] # Null,
         NEW nn, nn = (IF EndOf(ch["out"]) = Null THEN mm
                       ELSE [mm EXCEPT ![EndOf(ch["out"])].next = r[l]])
  PROVE  Holds(nn, [r EXCEPT !["out"] = IF @ = Null THEN r[l] ELSE @, ![l] = Null],
                   [ch EXCEPT !["out"] = ch["out"] \o ch[l], ![l] = << >>],
                   [ct EXCEPT !["out"] = ct["out"] \o ct[l], ![l] = << >>])
<1>0. "out" \in Owners
  BY DEF Owners
<1>1. /\ r \in [Owners -> Nat] /\ ch \in [Owners -> Seq(DOMAIN mm)] /\ DOMAIN ct = Owners
      /\ IsChain(mm, r["out"], ch["out"]) /\ \A b \in DOMAIN mm : b # Null
  BY <1>0 DEF Holds, Owned, IsMemory
<1>2. r["out"] = Null <=> ch["out"] = << >>
  BY <1>1 DEF IsChain
<1>3. EndOf(ch["out"]) = Null <=> ch["out"] = << >>
  <2>1. ch["out"] \in Seq(DOMAIN mm)
    BY <1>0, <1>1
  <2>2. ch["out"] # << >> => ch["out"][Len(ch["out"])] \in DOMAIN mm
    BY <2>1
  <2>. QED  BY <2>2, <1>1 DEF EndOf
<1>4. CASE r["out"] = Null
  <2>1. nn = mm
    BY <1>2, <1>3, <1>4
  <2>2. Holds(mm, [r EXCEPT !["out"] = r[l], ![l] = Null],
                  [ch EXCEPT !["out"] = ch[l], ![l] = << >>],
                  [ct EXCEPT !["out"] = ct[l], ![l] = << >>])
    BY <1>0, <1>4, OwnedMoved
  <2>3. ct["out"] = << >>
    BY <1>0, <1>4, HoldsFacts
  <2>4. ch[l] \in Seq(DOMAIN mm) /\ ct[l] \in Seq(TermSpace)
    BY HoldsFacts
  <2>5. ch["out"] \o ch[l] = ch[l] /\ ct["out"] \o ct[l] = ct[l]
    BY <2>3, <2>4, <1>2, <1>4, EmptyConcat, Zenon
  <2>6. [r EXCEPT !["out"] = IF @ = Null THEN r[l] ELSE @, ![l] = Null]
          = [r EXCEPT !["out"] = r[l], ![l] = Null]
    BY <1>4
  <2>. QED  BY <2>1, <2>2, <2>5, <2>6
<1>5. CASE r["out"] # Null
  <2>1. nn = [mm EXCEPT ![ch["out"][Len(ch["out"])]].next = r[l]]
    BY <1>2, <1>3, <1>5 DEF EndOf
  <2>2. Holds(nn, [r EXCEPT ![l] = Null],
                  [ch EXCEPT !["out"] = ch["out"] \o ch[l], ![l] = << >>],
                  [ct EXCEPT !["out"] = ct["out"] \o ct[l], ![l] = << >>])
    BY <2>1, <1>5, OwnedJoined, Zenon
  <2>3. [r EXCEPT !["out"] = IF @ = Null THEN r[l] ELSE @, ![l] = Null] = [r EXCEPT ![l] = Null]
    BY <1>1, <1>5
  <2>. QED  BY <2>2, <2>3, Zenon
<1>. QED  BY <1>4, <1>5

(* The owners after a turn has put the term t in node b behind the output: *)
(* the node comes from the chain of l when that is owned.                  *)
Emitted(mm, r, ch, ct, l, owned, b, t, rr, hh, dd) ==
  /\ \A o \in Owners :
       rr[o] = IF o = "out" THEN (IF r[o] = Null THEN b ELSE r[o])
               ELSE IF o = l /\ owned THEN mm[r[l]].next ELSE r[o]
  /\ \A o \in Owners :
       hh[o] = IF o = "out" THEN ch[o] \o <<b>>
               ELSE IF o = l /\ owned THEN Tail(ch[o]) ELSE ch[o]
  /\ \A o \in Owners :
       dd[o] = IF o = "out" THEN ct[o] \o <<t>>
               ELSE IF o = l /\ owned THEN Tail(ct[o]) ELSE ct[o]

(* The owners when the node is filled and not yet behind the output.       *)
Filled(mm, r, ch, ct, l, owned, b, t, r1, h1, c1) ==
  /\ b \in Nat \ {Null}
  /\ r1 \in [Owners -> Nat] /\ DOMAIN h1 = Owners /\ DOMAIN c1 = Owners
  /\ \A o \in Owners :
       /\ r1[o] = IF o = "new" THEN b
                  ELSE IF o = l /\ owned THEN mm[r[l]].next ELSE r[o]
       /\ h1[o] = IF o = "new" THEN <<b>>
                  ELSE IF o = l /\ owned THEN Tail(ch[o]) ELSE ch[o]
       /\ c1[o] = IF o = "new" THEN <<t>>
                  ELSE IF o = l /\ owned THEN Tail(ct[o]) ELSE ct[o]

Emits(mm, r, ch, ct, l, owned, b, t, n1, nn) ==
  /\ Holds(mm, r, ch, ct) /\ r["new"] = Null
  /\ l \in {"left", "right"} /\ owned \in BOOLEAN /\ (owned => r[l] # Null)
  /\ t \in TermSpace
  /\ b = IF owned THEN r[l] ELSE FreshCells(mm, 1)[1]
  /\ n1 = WithNode(mm, b, t)
  /\ nn = IF EndOf(ch["out"]) = Null THEN n1 ELSE [n1 EXCEPT ![EndOf(ch["out"])].next = b]

EmitLeads(mm, r, ch, ct, l, owned, b, t, nn) ==
  /\ b \in Nat \ {Null}
  /\ \E rr, hh, dd : Holds(nn, rr, hh, dd) /\ Emitted(mm, r, ch, ct, l, owned, b, t, rr, hh, dd)

LEMMA EmitStep ==
  ASSUME NEW mm, NEW r, NEW ch, NEW ct, NEW l, NEW owned, NEW b, NEW t, NEW n1, NEW nn,
         Emits(mm, r, ch, ct, l, owned, b, t, n1, nn)
  PROVE  EmitLeads(mm, r, ch, ct, l, owned, b, t, nn)
<1>a. /\ Holds(mm, r, ch, ct) /\ r["new"] = Null
      /\ l \in {"left", "right"} /\ owned \in BOOLEAN /\ (owned => r[l] # Null)
      /\ t \in TermSpace
      /\ b = (IF owned THEN r[l] ELSE FreshCells(mm, 1)[1])
      /\ n1 = WithNode(mm, b, t)
      /\ nn = (IF EndOf(ch["out"]) = Null THEN n1 ELSE [n1 EXCEPT ![EndOf(ch["out"])].next = b])
  BY DEF Emits
<1> USE <1>a
<1>0. /\ r \in [Owners -> Nat] /\ ch \in [Owners -> Seq(DOMAIN mm)] /\ IsMemory(mm)
      /\ DOMAIN ct = Owners /\ \A b1 \in DOMAIN mm : b1 \in Nat \ {Null}
  BY DEF Holds, Owned, IsMemory
<1>1. l \in Owners \ {"new", "out"} /\ "new" \in Owners \ {"out"} /\ "out" \in Owners
  BY DEF Owners
<1>2. \E r1, h1, c1 :
         Holds(n1, r1, h1, c1) /\ Filled(mm, r, ch, ct, l, owned, b, t, r1, h1, c1)
  <2>1. CASE owned
    <3> DEFINE r1 == [r EXCEPT ![l] = mm[r[l]].next, !["new"] = r[l]]
               h1 == [ch EXCEPT ![l] = Tail(ch[l]), !["new"] = <<r[l]>>]
               c1 == [ct EXCEPT ![l] = Tail(ct[l]), !["new"] = <<t>>]
    <3>1. b = r[l] /\ r[l] # Null
      BY <2>1
    <3>2. r[l] \in DOMAIN mm /\ Holds(n1, r1, h1, c1)
      BY <1>1, <3>1, OwnedDetached, Zenon
    <3>3. r1 \in [Owners -> Nat]
      BY <3>2 DEF Holds, Owned
    <3>4. /\ DOMAIN h1 = Owners /\ DOMAIN c1 = Owners
          /\ \A o \in Owners :
              /\ r1[o] = IF o = "new" THEN b ELSE IF o = l /\ owned THEN mm[r[l]].next ELSE r[o]
              /\ h1[o] = IF o = "new" THEN <<b>> ELSE IF o = l /\ owned THEN Tail(ch[o]) ELSE ch[o]
              /\ c1[o] = IF o = "new" THEN <<t>> ELSE IF o = l /\ owned THEN Tail(ct[o]) ELSE ct[o]
      BY <1>0, <1>1, <2>1, <3>1
    <3>5. b \in Nat \ {Null}
      BY <3>1, <3>2, <1>0
    <3> HIDE DEF r1, h1, c1
    <3>6. Filled(mm, r, ch, ct, l, owned, b, t, r1, h1, c1)
      BY <3>2, <3>3, <3>4, <3>5, Zenon DEF Filled
    <3>. QED  BY <3>2, <3>3, <3>6, Zenon
  <2>2. CASE ~owned
    <3> DEFINE r1 == [r EXCEPT !["new"] = b]
               h1 == [ch EXCEPT !["new"] = <<b>>]
               c1 == [ct EXCEPT !["new"] = <<t>>]
    <3>1. b = FreshCells(mm, 1)[1]
      BY <2>2
    <3>2. b \in Nat \ {Null} /\ b \notin DOMAIN mm
      <4>1. /\ FreshCells(mm, 1) \in Seq(Nat \ {Null}) /\ Len(FreshCells(mm, 1)) = 1
            /\ \A k \in 1 .. 1 : FreshCells(mm, 1)[k] \notin DOMAIN mm
        BY <1>0, FreshFacts
      <4>. QED  BY <3>1, <4>1
    <3>3. Holds(n1, r1, h1, c1)
      BY <3>2, OwnedNode, Zenon
    <3>4. r1 \in [Owners -> Nat]
      BY <3>3 DEF Holds, Owned
    <3>5. /\ DOMAIN h1 = Owners /\ DOMAIN c1 = Owners
          /\ \A o \in Owners :
              /\ r1[o] = IF o = "new" THEN b ELSE IF o = l /\ owned THEN mm[r[l]].next ELSE r[o]
              /\ h1[o] = IF o = "new" THEN <<b>> ELSE IF o = l /\ owned THEN Tail(ch[o]) ELSE ch[o]
              /\ c1[o] = IF o = "new" THEN <<t>> ELSE IF o = l /\ owned THEN Tail(ct[o]) ELSE ct[o]
      BY <1>0, <1>1, <2>2
    <3> HIDE DEF r1, h1, c1
    <3>6. Filled(mm, r, ch, ct, l, owned, b, t, r1, h1, c1)
      BY <3>2, <3>3, <3>4, <3>5, Zenon DEF Filled
    <3>. QED  BY <3>2, <3>3, <3>6, Zenon
  <2>. QED  BY <2>1, <2>2
<1>3. PICK r1, h1, c1 :
         Holds(n1, r1, h1, c1) /\ Filled(mm, r, ch, ct, l, owned, b, t, r1, h1, c1)
  BY <1>2, Zenon
<1> DEFINE rr == [r1 EXCEPT !["out"] = IF @ = Null THEN r1["new"] ELSE @, !["new"] = Null]
           hh == [h1 EXCEPT !["out"] = h1["out"] \o h1["new"], !["new"] = << >>]
           dd == [c1 EXCEPT !["out"] = c1["out"] \o c1["new"], !["new"] = << >>]
<1>4. r1["new"] = b /\ h1["out"] = ch["out"] /\ b # Null
  BY <1>1, <1>3 DEF Filled
<1>5. nn = (IF EndOf(h1["out"]) = Null THEN n1
            ELSE [n1 EXCEPT ![EndOf(h1["out"])].next = r1["new"]])
  BY <1>4
<1>6. Holds(nn, rr, hh, dd)
  BY <1>1, <1>3, <1>4, <1>5, OwnedAttached, Zenon
<1>7. ch["new"] = << >> /\ ct["new"] = << >>
  BY <1>1, HoldsFacts
<1>8. Emitted(mm, r, ch, ct, l, owned, b, t, rr, hh, dd)
  <2>1. \A o \in Owners :
          rr[o] = IF o = "out" THEN (IF r1[o] = Null THEN b ELSE r1[o])
                  ELSE IF o = "new" THEN Null ELSE r1[o]
    BY <1>1, <1>3, <1>4 DEF Filled
  <2>2. \A o \in Owners :
          hh[o] = IF o = "out" THEN h1[o] \o h1["new"]
                  ELSE IF o = "new" THEN << >> ELSE h1[o]
    BY <1>1, <1>3 DEF Filled
  <2>3. \A o \in Owners :
          dd[o] = IF o = "out" THEN c1[o] \o c1["new"]
                  ELSE IF o = "new" THEN << >> ELSE c1[o]
    BY <1>1, <1>3 DEF Filled
  <2> HIDE DEF rr, hh, dd
  <2>4. \A o \in Owners :
          rr[o] = IF o = "out" THEN (IF r[o] = Null THEN b ELSE r[o])
                  ELSE IF o = l /\ owned THEN mm[r[l]].next ELSE r[o]
    BY <2>1, <1>1, <1>3 DEF Filled
  <2>5. \A o \in Owners :
          hh[o] = IF o = "out" THEN ch[o] \o <<b>>
                  ELSE IF o = l /\ owned THEN Tail(ch[o]) ELSE ch[o]
    BY <2>2, <1>1, <1>3, <1>7 DEF Filled
  <2>6. \A o \in Owners :
          dd[o] = IF o = "out" THEN ct[o] \o <<t>>
                  ELSE IF o = l /\ owned THEN Tail(ct[o]) ELSE ct[o]
    BY <2>3, <1>1, <1>3, <1>7 DEF Filled
  <2>. QED  BY <2>4, <2>5, <2>6, Zenon DEF Emitted
<1> HIDE DEF rr, hh, dd
<1>9. b \in Nat \ {Null}
  BY <1>3 DEF Filled
<1>. QED  BY <1>6, <1>8, <1>9, Zenon DEF EmitLeads

-----------------------------------------------------------------------------
(* What a merge reads: the chain of an operand that it takes, or a part of *)
(* a chain of x or y that it only borrows.                                 *)

Borrowed(s, ch) ==
  \A i \in DOMAIN s : \E o \in {"x", "y"} : \E j \in DOMAIN ch[o] : s[i] = ch[o][j]

Cursor(mm, a, takes, r, ch, ct, l, ts) ==
  IF takes THEN r[l] = a /\ ct[l] = ts
  ELSE /\ r[l] = Null
       /\ \E s : IsChain(mm, a, s) /\ ts = TermsOf(mm, s) /\ Borrowed(s, ch)

LEMMA ChainTail ==
  ASSUME NEW mm, IsMemory(mm), NEW a, a # Null, NEW s, IsChain(mm, a, s)
  PROVE  /\ IsChain(mm, mm[a].next, Tail(s))
         /\ TermsOf(mm, Tail(s)) = Tail(TermsOf(mm, s))
         /\ \A i \in DOMAIN Tail(s) : \E j \in DOMAIN s : Tail(s)[i] = s[j]
<1> DEFINE t == Tail(s)
           next == mm[a].next
<1>1. /\ s \in Seq(DOMAIN mm) /\ Len(s) \in Nat /\ DOMAIN s = 1 .. Len(s)
      /\ \A i \in DOMAIN s : s[i] \in DOMAIN mm
      /\ \A i, j \in DOMAIN s : s[i] = s[j] => i = j
      /\ \A k \in DOMAIN s : mm[s[k]].next = IF k = Len(s) THEN Null ELSE s[k + 1]
      /\ s # << >> /\ s[1] = a /\ Len(s) > 0 /\ 1 \in DOMAIN s
  BY ChainFacts
<1>2. /\ t \in Seq(DOMAIN mm) /\ Len(t) = Len(s) - 1 /\ DOMAIN t = 1 .. Len(s) - 1
      /\ \A k \in DOMAIN t : k \in Nat /\ k + 1 \in DOMAIN s /\ t[k] = s[k + 1]
  <2>1. t \in Seq(DOMAIN mm) /\ Len(t) = Len(s) - 1
    BY <1>1
  <2>2. DOMAIN t = 1 .. Len(s) - 1
    BY <2>1
  <2>. QED  BY <1>1, <2>1, <2>2
<1> HIDE DEF t
<1>3. IsChain(mm, next, t)
  <2>1. \A i, j \in DOMAIN t : t[i] = t[j] => i = j
    BY <1>1, <1>2
  <2>2. next = IF t = << >> THEN Null ELSE t[1]
    <3>1. t = << >> <=> Len(s) = 1
      BY <1>1, <1>2
    <3>2. t # << >> => 1 \in DOMAIN t
      BY <1>1, <1>2
    <3>3. next = IF 1 = Len(s) THEN Null ELSE s[1 + 1]
      BY <1>1
    <3>. QED  BY <1>2, <3>1, <3>2, <3>3
  <2>3. ASSUME NEW k \in DOMAIN t
        PROVE  mm[t[k]].next = IF k = Len(t) THEN Null ELSE t[k + 1]
    <3>1. mm[s[k + 1]].next = IF k + 1 = Len(s) THEN Null ELSE s[k + 1 + 1]
      BY <1>1, <1>2
    <3>2. k + 1 = Len(s) <=> k = Len(t)
      BY <1>1, <1>2
    <3>3. k # Len(t) => k + 1 \in DOMAIN t
      BY <1>1, <1>2
    <3>. QED  BY <3>1, <3>2, <3>3, <1>2
  <2>. QED  BY <1>2, <2>1, <2>2, <2>3 DEF IsChain
<1>4. TermsOf(mm, t) = Tail(TermsOf(mm, s))
  <2> DEFINE u == TermsOf(mm, s)
             v == TermsOf(mm, t)
             w == Tail(u)
  <2>1. /\ u \in Seq(Range(u)) /\ Len(u) = Len(s)
        /\ \A k \in 1 .. Len(s) : u[k] = Term(mm[s[k]].c, mm[s[k]].m)
    BY <1>1, TermsOfFacts
  <2>2. /\ v \in Seq(Range(v)) /\ Len(v) = Len(t)
        /\ \A k \in 1 .. Len(t) : v[k] = Term(mm[t[k]].c, mm[t[k]].m)
    BY <1>2, TermsOfFacts
  <2> HIDE DEF u, v
  <2>3. u # << >>
    BY <2>1, <1>1
  <2>4. /\ w \in Seq(Range(u)) /\ Len(w) = Len(u) - 1
        /\ \A k \in 1 .. Len(u) - 1 : w[k] = u[k + 1]
    BY <2>1, <2>3
  <2> HIDE DEF w
  <2>5. ASSUME NEW k \in 1 .. Len(v) PROVE v[k] = w[k]
    <3>1. k \in DOMAIN t /\ k \in 1 .. Len(u) - 1 /\ k + 1 \in 1 .. Len(s) /\ t[k] = s[k + 1]
      BY <2>1, <2>2, <1>1, <1>2
    <3>2. w[k] = u[k + 1] /\ u[k + 1] = Term(mm[s[k + 1]].c, mm[s[k + 1]].m)
      BY <3>1, <2>1, <2>4
    <3>3. v[k] = Term(mm[t[k]].c, mm[t[k]].m)
      BY <2>2
    <3>. QED  BY <3>1, <3>2, <3>3, Zenon
  <2>6. Len(v) = Len(w)
    BY <2>1, <2>2, <2>4, <1>1, <1>2
  <2>7. v = w
    BY <2>2, <2>4, <2>5, <2>6, SameSeq, Zenon
  <2>. QED  BY <2>7 DEF u, v, w
<1>5. \A i \in DOMAIN t : \E j \in DOMAIN s : t[i] = s[j]
  BY <1>2
<1>. QED  BY <1>3, <1>4, <1>5 DEF t

(* What there is to read at a cursor.                                      *)
ReadAt(mm, a, ts) ==
  /\ a \in Nat /\ ts \in Seq(TermSpace) /\ (a = Null <=> ts = << >>)
  /\ Terms(mm, a) = ts /\ Len(Chain(mm, a)) = Len(ts)
  /\ a # Null => /\ a \in DOMAIN mm /\ mm[a] \in NodeSpace
                 /\ Term(mm[a].c, mm[a].m) = ts[1]
                 /\ Len(ts) > 0

LEMMA CursorFacts ==
  ASSUME NEW mm, NEW r, NEW ch, NEW ct, Holds(mm, r, ch, ct), NEW l, l \in Owners,
         NEW a, NEW takes, takes \in BOOLEAN, NEW ts, Cursor(mm, a, takes, r, ch, ct, l, ts)
  PROVE  ReadAt(mm, a, ts)
<1>1. IsMemory(mm) /\ r \in [Owners -> Nat]
  BY DEF Holds, Owned
<1>2. PICK s : IsChain(mm, a, s) /\ ts = TermsOf(mm, s)
  <2>1. CASE takes
    <3>1. IsChain(mm, r[l], ch[l]) /\ ct[l] = TermsOf(mm, ch[l])
      BY HoldsFacts
    <3>2. r[l] = a /\ ct[l] = ts
      BY <2>1 DEF Cursor
    <3>. QED  BY <3>1, <3>2
  <2>2. CASE ~takes
    BY <2>2, Zenon DEF Cursor
  <2>. QED  BY <2>1, <2>2
<1>3. /\ s \in Seq(DOMAIN mm) /\ Len(s) \in Nat /\ DOMAIN s = 1 .. Len(s)
      /\ \A i \in DOMAIN s : s[i] \in DOMAIN mm
      /\ a # Null => s # << >> /\ s[1] = a /\ Len(s) > 0 /\ 1 \in DOMAIN s
  BY <1>2, ChainFacts
<1>4. a = IF s = << >> THEN Null ELSE s[1]
  BY <1>2 DEF IsChain
<1>5. \A b \in DOMAIN mm : b # Null /\ mm[b] \in NodeSpace /\ b \in Nat
  BY <1>1 DEF IsMemory
<1>6. ts = [k \in 1 .. Len(s) |-> Term(mm[s[k]].c, mm[s[k]].m)]
  BY <1>2, <1>3 DEF TermsOf
<1>7. \A k \in 1 .. Len(s) : Term(mm[s[k]].c, mm[s[k]].m) \in TermSpace
  BY <1>3, <1>5 DEF NodeSpace, TermSpace, Term
<1>8. ts \in Seq(TermSpace) /\ Len(ts) = Len(s)
  BY <1>3, <1>6, <1>7
<1>9. a = Null <=> ts = << >>
  BY <1>3, <1>4, <1>5, <1>8
<1>10. Chain(mm, a) = s
  BY <1>1, <1>2, ChainIs, Zenon
<1>11. Terms(mm, a) = ts
  BY <1>2, <1>10, Zenon DEF Terms, TermsOf
<1>12. a # Null => Term(mm[a].c, mm[a].m) = ts[1]
  BY <1>3, <1>6
<1>13. a \in Nat
  BY <1>3, <1>4, <1>5 DEF Null
<1>. QED  BY <1>3, <1>5, <1>8, <1>9, <1>10, <1>11, <1>12, <1>13 DEF ReadAt

(* The borrowed chains do not change, hence what is read does not.         *)
LEMMA BorrowedKept ==
  ASSUME NEW mm, NEW r, NEW ch, NEW ct, Holds(mm, r, ch, ct),
         NEW nn, NEW rr, NEW hh, NEW dd, Holds(nn, rr, hh, dd),
         hh["x"] = ch["x"], hh["y"] = ch["y"], dd["x"] = ct["x"], dd["y"] = ct["y"],
         NEW a, NEW s, IsChain(mm, a, s), Borrowed(s, ch)
  PROVE  /\ SameNodes(mm, nn, s) /\ IsChain(nn, a, s) /\ TermsOf(nn, s) = TermsOf(mm, s)
         /\ Borrowed(s, hh)
<1>1. /\ IsMemory(mm) /\ IsMemory(nn)
      /\ \A o \in Owners : IsChain(mm, r[o], ch[o]) /\ IsChain(nn, rr[o], hh[o])
      /\ \A o \in Owners : ct[o] = TermsOf(mm, ch[o]) /\ dd[o] = TermsOf(nn, hh[o])
  BY DEF Holds, Owned
<1>2. ASSUME NEW o \in {"x", "y"}, NEW j \in DOMAIN ch[o]
      PROVE  ch[o][j] \in DOMAIN nn /\ nn[ch[o][j]] = mm[ch[o][j]]
  <2> DEFINE b == ch[o][j]
  <2>0. o \in Owners /\ hh[o] = ch[o] /\ dd[o] = ct[o]
    BY DEF Owners
  <2>1. IsChain(mm, r[o], ch[o]) /\ IsChain(nn, rr[o], ch[o])
    BY <1>1, <2>0
  <2>2. b \in DOMAIN mm /\ mm[b].next = IF j = Len(ch[o]) THEN Null ELSE ch[o][j + 1]
    BY <2>1, ChainFacts
  <2>3. b \in DOMAIN nn /\ nn[b].next = IF j = Len(ch[o]) THEN Null ELSE ch[o][j + 1]
    BY <2>1, ChainFacts
  <2>4. TermsOf(mm, ch[o]) = TermsOf(nn, ch[o])
    BY <1>1, <2>0
  <2>5. /\ TermsOf(mm, ch[o])[j] = Term(mm[b].c, mm[b].m)
        /\ TermsOf(nn, ch[o])[j] = Term(nn[b].c, nn[b].m)
    BY DEF TermsOf
  <2> HIDE DEF b
  <2>6. Term(mm[b].c, mm[b].m) = Term(nn[b].c, nn[b].m)
    BY <2>4, <2>5
  <2>7. mm[b].c = nn[b].c /\ mm[b].m = nn[b].m
    BY <2>6 DEF Term
  <2>8. mm[b] \in NodeSpace /\ nn[b] \in NodeSpace
    BY <1>1, <2>2, <2>3 DEF IsMemory
  <2>9. mm[b] = nn[b]
    BY <2>2, <2>3, <2>7, <2>8 DEF NodeSpace
  <2>. QED  BY <2>3, <2>9 DEF b
<1>3. SameNodes(mm, nn, s)
  BY <1>2 DEF SameNodes, Borrowed
<1>4. IsChain(nn, a, s) /\ TermsOf(nn, s) = TermsOf(mm, s)
  BY <1>3, ChainFrame, Zenon
<1>5. Borrowed(s, hh)
  BY DEF Borrowed
<1>. QED  BY <1>3, <1>4, <1>5

(* A cursor that the step does not move.                                   *)
SameNext(mm, nn, a) == a # Null => a \in DOMAIN nn /\ nn[a].next = mm[a].next

Keeps(mm, r, ch, ct, nn, rr, hh, dd, l, a, takes, ts) ==
  /\ Holds(mm, r, ch, ct) /\ Holds(nn, rr, hh, dd)
  /\ l \in Owners /\ takes \in BOOLEAN
  /\ \A o \in {"x", "y", l} : hh[o] = ch[o] /\ dd[o] = ct[o]
  /\ rr[l] = r[l]
  /\ Cursor(mm, a, takes, r, ch, ct, l, ts)

LEMMA CursorKept ==
  ASSUME NEW mm, NEW r, NEW ch, NEW ct, NEW nn, NEW rr, NEW hh, NEW dd, NEW l,
         NEW a, NEW takes, NEW ts, Keeps(mm, r, ch, ct, nn, rr, hh, dd, l, a, takes, ts)
  PROVE  Cursor(nn, a, takes, rr, hh, dd, l, ts) /\ SameNext(mm, nn, a)
<1>a. /\ Holds(mm, r, ch, ct) /\ Holds(nn, rr, hh, dd)
      /\ l \in Owners /\ takes \in BOOLEAN
      /\ \A o \in {"x", "y", l} : hh[o] = ch[o] /\ dd[o] = ct[o]
      /\ rr[l] = r[l]
      /\ Cursor(mm, a, takes, r, ch, ct, l, ts)
  BY DEF Keeps
<1> USE <1>a
<1>1. CASE takes
  <2>1. r[l] = a /\ ct[l] = ts
    BY <1>1 DEF Cursor
  <2>2. Cursor(nn, a, takes, rr, hh, dd, l, ts)
    BY <1>1, <2>1 DEF Cursor
  <2>3. ASSUME a # Null PROVE a \in DOMAIN nn /\ nn[a].next = mm[a].next
    <3> DEFINE s == ch[l]
    <3>0. IsChain(mm, a, s)
      BY <2>1, HoldsFacts
    <3>1. IsChain(nn, a, s)
      BY <2>1, HoldsFacts
    <3> HIDE DEF s
    <3>2. /\ a = s[1] /\ 1 \in DOMAIN s
          /\ mm[s[1]].next = IF 1 = Len(s) THEN Null ELSE s[1 + 1]
      <4>1. /\ a = s[1] /\ 1 \in DOMAIN s
            /\ \A k \in DOMAIN s : mm[s[k]].next = IF k = Len(s) THEN Null ELSE s[k + 1]
        BY <2>3, <3>0, ChainFacts
      <4>. QED  BY <4>1
    <3>3. /\ s[1] \in DOMAIN nn
          /\ nn[s[1]].next = IF 1 = Len(s) THEN Null ELSE s[1 + 1]
      <4>1. /\ \A k \in DOMAIN s : s[k] \in DOMAIN nn
            /\ \A k \in DOMAIN s : nn[s[k]].next = IF k = Len(s) THEN Null ELSE s[k + 1]
        BY <3>1, ChainFacts
      <4>. QED  BY <3>2, <4>1
    <3>. QED  BY <3>2, <3>3
  <2>. QED  BY <2>2, <2>3 DEF SameNext
<1>2. CASE ~takes
  <2>1. r[l] = Null /\ \E s : IsChain(mm, a, s) /\ ts = TermsOf(mm, s) /\ Borrowed(s, ch)
    BY <1>2, Zenon DEF Cursor
  <2>2. PICK s : IsChain(mm, a, s) /\ ts = TermsOf(mm, s) /\ Borrowed(s, ch)
    BY <2>1
  <2>3. /\ SameNodes(mm, nn, s) /\ IsChain(nn, a, s) /\ TermsOf(nn, s) = TermsOf(mm, s)
        /\ Borrowed(s, hh)
    BY <2>2, BorrowedKept
  <2>4. Cursor(nn, a, takes, rr, hh, dd, l, ts)
    BY <1>2, <2>1, <2>2, <2>3 DEF Cursor
  <2>5. a # Null => a = s[1] /\ 1 \in DOMAIN s
    BY <2>2, ChainFacts
  <2>. QED  BY <2>3, <2>4, <2>5 DEF SameNodes, SameNext
<1>. QED  BY <1>1, <1>2 DEF SameNext

(* A cursor that the step moves to the next node.                          *)
Moves(mm, r, ch, ct, nn, rr, hh, dd, l, a, takes, ts) ==
  /\ Holds(mm, r, ch, ct) /\ Holds(nn, rr, hh, dd)
  /\ l \in Owners /\ takes \in BOOLEAN /\ a # Null
  /\ \A o \in {"x", "y"} : hh[o] = ch[o] /\ dd[o] = ct[o]
  /\ Cursor(mm, a, takes, r, ch, ct, l, ts)
  /\ rr[l] = IF takes THEN mm[a].next ELSE r[l]
  /\ takes => dd[l] = Tail(ct[l])

LEMMA CursorMoved ==
  ASSUME NEW mm, NEW r, NEW ch, NEW ct, NEW nn, NEW rr, NEW hh, NEW dd, NEW l,
         NEW a, NEW takes, NEW ts, Moves(mm, r, ch, ct, nn, rr, hh, dd, l, a, takes, ts)
  PROVE  Cursor(nn, mm[a].next, takes, rr, hh, dd, l, Tail(ts))
<1>a. /\ Holds(mm, r, ch, ct) /\ Holds(nn, rr, hh, dd)
      /\ l \in Owners /\ takes \in BOOLEAN /\ a # Null
      /\ \A o \in {"x", "y"} : hh[o] = ch[o] /\ dd[o] = ct[o]
      /\ Cursor(mm, a, takes, r, ch, ct, l, ts)
      /\ rr[l] = (IF takes THEN mm[a].next ELSE r[l])
      /\ (takes => dd[l] = Tail(ct[l]))
  BY DEF Moves
<1> USE <1>a
<1>1. CASE takes
  BY <1>1 DEF Cursor
<1>2. CASE ~takes
  <2>1. r[l] = Null /\ \E s : IsChain(mm, a, s) /\ ts = TermsOf(mm, s) /\ Borrowed(s, ch)
    BY <1>2, Zenon DEF Cursor
  <2>2. PICK s : IsChain(mm, a, s) /\ ts = TermsOf(mm, s) /\ Borrowed(s, ch)
    BY <2>1
  <2>3. IsMemory(mm)
    BY DEF Holds, Owned
  <2>0. a # Null /\ IsChain(mm, a, s) /\ IsMemory(mm)
    BY <2>2, <2>3
  <2>7. /\ IsChain(mm, mm[a].next, Tail(s)) /\ TermsOf(mm, Tail(s)) = Tail(TermsOf(mm, s))
        /\ \A i \in DOMAIN Tail(s) : \E j \in DOMAIN s : Tail(s)[i] = s[j]
    BY ONLY <2>0, ChainTail
  <2>4. /\ IsChain(mm, mm[a].next, Tail(s)) /\ TermsOf(mm, Tail(s)) = Tail(ts)
        /\ \A i \in DOMAIN Tail(s) : \E j \in DOMAIN s : Tail(s)[i] = s[j]
    BY <2>2, <2>7, Zenon
  <2>5. Borrowed(Tail(s), ch)
    <3>1. ASSUME NEW i \in DOMAIN Tail(s)
          PROVE  \E o \in {"x", "y"} : \E j \in DOMAIN ch[o] : Tail(s)[i] = ch[o][j]
      <4>1. PICK j \in DOMAIN s : Tail(s)[i] = s[j]
        BY <2>4
      <4>2. \E o \in {"x", "y"} : \E k \in DOMAIN ch[o] : s[j] = ch[o][k]
        BY <2>2 DEF Borrowed
      <4>. QED  BY ONLY <4>1, <4>2
    <3>. QED  BY ONLY <3>1 DEF Borrowed
  <2>6. /\ IsChain(nn, mm[a].next, Tail(s)) /\ TermsOf(nn, Tail(s)) = Tail(ts)
        /\ Borrowed(Tail(s), hh)
    BY <2>4, <2>5, BorrowedKept
  <2>. QED  BY <1>2, <2>1, <2>6 DEF Cursor
<1>. QED  BY <1>1, <1>2

-----------------------------------------------------------------------------
(* The heap between calls and during a merge.                              *)

MergeSpace ==
  [k : 0 .. P - 1, m : Monomial, left : Nat, right : Nat, head : Nat, tail : Nat,
   out_len : Nat, takes_left : BOOLEAN, takes_right : BOOLEAN]

(* The two handles hold xs and ys. *)
Resting(mm, xx, yy, xs, ys) ==
  \E r, ch, ct :
    /\ Holds(mm, r, ch, ct)
    /\ r["x"] = xx.head /\ r["y"] = yy.head
    /\ \A o \in {"out", "left", "right", "new"} : r[o] = Null
    /\ ct["x"] = xs /\ ct["y"] = ys

(* The locals mg of a merge whose output is os and whose cursors are       *)
(* before ls and rs.  A splice is the last thing a merge does, and leaves  *)
(* the tail slot where it is.                                              *)
MergingBy(mm, xx, yy, mg, xs, ys, os, ls, rs, r, ch, ct) ==
  /\ Holds(mm, r, ch, ct)
  /\ r["x"] = xx.head /\ r["y"] = yy.head /\ r["out"] = mg.head /\ r["new"] = Null
  /\ ct["x"] = xs /\ ct["y"] = ys /\ ct["out"] = os
  /\ Cursor(mm, mg.left, mg.takes_left, r, ch, ct, "left", ls)
  /\ Cursor(mm, mg.right, mg.takes_right, r, ch, ct, "right", rs)
  /\ mg.out_len = Len(os)
  /\ mg.left # Null \/ mg.right # Null => mg.tail = EndOf(ch["out"])

Merging(mm, xx, yy, mg, xs, ys, os, ls, rs) ==
  /\ mg \in MergeSpace
  /\ \E r, ch, ct : MergingBy(mm, xx, yy, mg, xs, ys, os, ls, rs, r, ch, ct)

(* What a merge sees of its operands and of the output.                    *)
LEMMA MergingFacts ==
  ASSUME NEW mm, NEW xx, NEW yy, NEW mg, NEW xs, NEW ys, NEW os, NEW ls, NEW rs,
         Merging(mm, xx, yy, mg, xs, ys, os, ls, rs)
  PROVE  /\ mg \in MergeSpace
         /\ xs \in Seq(TermSpace) /\ ys \in Seq(TermSpace) /\ os \in Seq(TermSpace)
         /\ ls \in Seq(TermSpace) /\ rs \in Seq(TermSpace)
         /\ mg.left = Null <=> ls = << >>
         /\ mg.right = Null <=> rs = << >>
         /\ mg.left # Null => /\ mm[mg.left] \in NodeSpace /\ Len(ls) > 0
                              /\ Term(mm[mg.left].c, mm[mg.left].m) = ls[1]
         /\ mg.right # Null => /\ mm[mg.right] \in NodeSpace /\ Len(rs) > 0
                               /\ Term(mm[mg.right].c, mm[mg.right].m) = rs[1]
<1>1. mg \in MergeSpace
  BY DEF Merging
<1>2. PICK r, ch, ct : MergingBy(mm, xx, yy, mg, xs, ys, os, ls, rs, r, ch, ct)
  BY Zenon DEF Merging
<1>3. /\ Holds(mm, r, ch, ct)
      /\ ct["x"] = xs /\ ct["y"] = ys /\ ct["out"] = os
      /\ Cursor(mm, mg.left, mg.takes_left, r, ch, ct, "left", ls)
      /\ Cursor(mm, mg.right, mg.takes_right, r, ch, ct, "right", rs)
  BY <1>2 DEF MergingBy
<1>4. xs \in Seq(TermSpace) /\ ys \in Seq(TermSpace) /\ os \in Seq(TermSpace)
  <2>1. \A o \in Owners : ct[o] \in Seq(TermSpace)
    BY <1>3, HoldsFacts
  <2>. QED  BY <2>1, <1>3 DEF Owners
<1>5. "left" \in Owners /\ "right" \in Owners /\ mg.takes_left \in BOOLEAN /\ mg.takes_right \in BOOLEAN
  BY <1>1 DEF Owners, MergeSpace
<1>6. /\ ls \in Seq(TermSpace) /\ (mg.left = Null <=> ls = << >>)
      /\ mg.left # Null => /\ mm[mg.left] \in NodeSpace /\ Len(ls) > 0
                           /\ Term(mm[mg.left].c, mm[mg.left].m) = ls[1]
  <2> DEFINE a == mg.left
             takes == mg.takes_left
  <2>1. Cursor(mm, a, takes, r, ch, ct, "left", ls) /\ takes \in BOOLEAN
    BY <1>3, <1>5
  <2> HIDE DEF a, takes
  <2>2. ReadAt(mm, a, ls)
    BY <2>1, <1>3, <1>5, CursorFacts, Zenon
  <2>. QED  BY <2>2 DEF a, ReadAt
<1>7. /\ rs \in Seq(TermSpace) /\ (mg.right = Null <=> rs = << >>)
      /\ mg.right # Null => /\ mm[mg.right] \in NodeSpace /\ Len(rs) > 0
                            /\ Term(mm[mg.right].c, mm[mg.right].m) = rs[1]
  <2> DEFINE a == mg.right
             takes == mg.takes_right
  <2>1. Cursor(mm, a, takes, r, ch, ct, "right", rs) /\ takes \in BOOLEAN
    BY <1>3, <1>5
  <2> HIDE DEF a, takes
  <2>2. ReadAt(mm, a, rs)
    BY <2>1, <1>3, <1>5, CursorFacts, Zenon
  <2>. QED  BY <2>2 DEF a, ReadAt
<1>. QED  BY <1>1, <1>4, <1>6, <1>7

(* The tail slot after a node has gone behind the output. *)
LEMMA EndAfter ==
  ASSUME NEW S, NEW s \in Seq(S), NEW b
  PROVE  EndOf(s \o <<b>>) = b
<1> DEFINE w == s \o <<b>>
<1>0. <<b>> \in Seq({b}) /\ Len(<<b>>) = 1 /\ <<b>>[1] = b
  OBVIOUS
<1>1. w \in Seq(S \cup {b}) /\ Joins(w, s, <<b>>)
  BY <1>0, ConcatFacts, Zenon
<1> HIDE DEF w
<1>2. Len(w) = Len(s) + 1 /\ w[Len(s) + 1] = b /\ Len(s) \in Nat
  BY <1>0, <1>1 DEF Joins
<1>3. w # << >>
  BY <1>1, <1>2
<1>. QED  BY <1>2, <1>3 DEF EndOf, w

(* A turn that emits the term t and advances the left cursor.              *)
LEMMA EmitLeft ==
  ASSUME NEW mm, NEW xx, NEW yy, NEW mg, NEW xs, NEW ys, NEW os, NEW ls, NEW rs,
         Merging(mm, xx, yy, mg, xs, ys, os, ls, rs), mg.left # Null, NEW t \in TermSpace,
         NEW b, b = (IF mg.takes_left THEN mg.left ELSE FreshCells(mm, 1)[1]),
         NEW n1, n1 = WithNode(mm, b, t),
         NEW nn, nn = (IF mg.tail = Null THEN n1 ELSE [n1 EXCEPT ![mg.tail].next = b]),
         NEW gg \in MergeSpace, gg.left = mm[mg.left].next, gg.right = mg.right,
         gg.head = (IF mg.head = Null THEN b ELSE mg.head), gg.tail = b,
         gg.out_len = mg.out_len + 1,
         gg.takes_left = mg.takes_left, gg.takes_right = mg.takes_right
  PROVE  /\ Merging(nn, xx, yy, gg, xs, ys, os \o <<t>>, Tail(ls), rs)
         /\ b \in Nat \ {Null} /\ SameNext(mm, nn, mg.right)
<1>1. mg \in MergeSpace /\ mg.takes_left \in BOOLEAN /\ mg.takes_right \in BOOLEAN
  BY DEF Merging, MergeSpace
<1>2. PICK r, ch, ct : MergingBy(mm, xx, yy, mg, xs, ys, os, ls, rs, r, ch, ct)
  BY Zenon DEF Merging
<1>3. /\ Holds(mm, r, ch, ct)
      /\ r["x"] = xx.head /\ r["y"] = yy.head /\ r["out"] = mg.head /\ r["new"] = Null
      /\ ct["x"] = xs /\ ct["y"] = ys /\ ct["out"] = os
      /\ Cursor(mm, mg.left, mg.takes_left, r, ch, ct, "left", ls)
      /\ Cursor(mm, mg.right, mg.takes_right, r, ch, ct, "right", rs)
      /\ mg.tail = EndOf(ch["out"]) /\ mg.out_len = Len(os)
  BY <1>2 DEF MergingBy
<1>4. mg.takes_left => r["left"] = mg.left
  BY <1>3 DEF Cursor
<1>5. EmitLeads(mm, r, ch, ct, "left", mg.takes_left, b, t, nn)
  <2>1. b = (IF mg.takes_left THEN r["left"] ELSE FreshCells(mm, 1)[1])
    BY <1>4
  <2>2. nn = (IF EndOf(ch["out"]) = Null THEN n1 ELSE [n1 EXCEPT ![EndOf(ch["out"])].next = b])
    BY <1>3
  <2>3. mg.takes_left => r["left"] # Null
    BY <1>4
  <2>4. Emits(mm, r, ch, ct, "left", mg.takes_left, b, t, n1, nn)
    BY <1>1, <1>3, <2>1, <2>2, <2>3, Zenon DEF Emits
  <2>. QED  BY <2>4, EmitStep, Zenon
<1>6. PICK rr, hh, dd : /\ Holds(nn, rr, hh, dd)
                        /\ Emitted(mm, r, ch, ct, "left", mg.takes_left, b, t, rr, hh, dd)
  BY <1>5, Zenon DEF EmitLeads
<1>7. /\ rr["x"] = r["x"] /\ rr["y"] = r["y"] /\ rr["new"] = r["new"] /\ rr["right"] = r["right"]
      /\ rr["out"] = (IF r["out"] = Null THEN b ELSE r["out"])
      /\ rr["left"] = IF mg.takes_left THEN mm[r["left"]].next ELSE r["left"]
      /\ \A o \in {"x", "y", "right"} : hh[o] = ch[o] /\ dd[o] = ct[o]
      /\ hh["out"] = ch["out"] \o <<b>> /\ dd["out"] = ct["out"] \o <<t>>
      /\ mg.takes_left => dd["left"] = Tail(ct["left"])
  BY <1>6 DEF Emitted, Owners
<1>8. Cursor(nn, mm[mg.left].next, mg.takes_left, rr, hh, dd, "left", Tail(ls))
  <2>1. rr["left"] = (IF mg.takes_left THEN mm[mg.left].next ELSE r["left"])
    BY <1>4, <1>7
  <2>2. "left" \in Owners /\ \A o \in {"x", "y"} : hh[o] = ch[o] /\ dd[o] = ct[o]
    BY <1>7 DEF Owners
  <2>3. Moves(mm, r, ch, ct, nn, rr, hh, dd, "left", mg.left, mg.takes_left, ls)
    BY <1>1, <1>3, <1>6, <1>7, <2>1, <2>2, Zenon DEF Moves
  <2>. QED  BY <2>3, CursorMoved, Zenon
<1>9. /\ Cursor(nn, mg.right, mg.takes_right, rr, hh, dd, "right", rs)
      /\ SameNext(mm, nn, mg.right)
  <2>1. "right" \in Owners
    BY DEF Owners
  <2>2. Keeps(mm, r, ch, ct, nn, rr, hh, dd, "right", mg.right, mg.takes_right, rs)
    BY <1>1, <1>3, <1>6, <1>7, <2>1, Zenon DEF Keeps
  <2>. QED  BY <2>2, CursorKept, Zenon
<1>10. gg.tail = EndOf(hh["out"]) /\ gg.out_len = Len(os \o <<t>>)
  <2>1. ch["out"] \in Seq(DOMAIN mm) /\ os \in Seq(TermSpace)
    BY <1>3, HoldsFacts DEF Owners
  <2>2. EndOf(ch["out"] \o <<b>>) = b
    BY <2>1, EndAfter
  <2>3. Len(os \o <<t>>) = Len(os) + 1
    BY <2>1
  <2>. QED  BY <1>3, <1>7, <2>2, <2>3
<1>11. MergingBy(nn, xx, yy, gg, xs, ys, os \o <<t>>, Tail(ls), rs, rr, hh, dd)
  <2>1. /\ rr["x"] = xx.head /\ rr["y"] = yy.head /\ rr["out"] = gg.head /\ rr["new"] = Null
        /\ dd["x"] = xs /\ dd["y"] = ys /\ dd["out"] = os \o <<t>>
    BY <1>3, <1>7
  <2>2. /\ Cursor(nn, gg.left, gg.takes_left, rr, hh, dd, "left", Tail(ls))
        /\ Cursor(nn, gg.right, gg.takes_right, rr, hh, dd, "right", rs)
    BY <1>8, <1>9
  <2>. QED  BY <1>6, <1>10, <2>1, <2>2 DEF MergingBy
<1>. QED  BY <1>5, <1>9, <1>11, Zenon DEF Merging, EmitLeads

(* ... and the right cursor.                                               *)
LEMMA EmitRight ==
  ASSUME NEW mm, NEW xx, NEW yy, NEW mg, NEW xs, NEW ys, NEW os, NEW rs, NEW ls,
         Merging(mm, xx, yy, mg, xs, ys, os, ls, rs), mg.right # Null, NEW t \in TermSpace,
         NEW b, b = (IF mg.takes_right THEN mg.right ELSE FreshCells(mm, 1)[1]),
         NEW n1, n1 = WithNode(mm, b, t),
         NEW nn, nn = (IF mg.tail = Null THEN n1 ELSE [n1 EXCEPT ![mg.tail].next = b]),
         NEW gg \in MergeSpace, gg.right = mm[mg.right].next, gg.left = mg.left,
         gg.head = (IF mg.head = Null THEN b ELSE mg.head), gg.tail = b,
         gg.out_len = mg.out_len + 1,
         gg.takes_right = mg.takes_right, gg.takes_left = mg.takes_left
  PROVE  /\ Merging(nn, xx, yy, gg, xs, ys, os \o <<t>>, ls, Tail(rs))
         /\ b \in Nat \ {Null} /\ SameNext(mm, nn, mg.left)
<1>1. mg \in MergeSpace /\ mg.takes_right \in BOOLEAN /\ mg.takes_left \in BOOLEAN
  BY DEF Merging, MergeSpace
<1>2. PICK r, ch, ct : MergingBy(mm, xx, yy, mg, xs, ys, os, ls, rs, r, ch, ct)
  BY Zenon DEF Merging
<1>3. /\ Holds(mm, r, ch, ct)
      /\ r["x"] = xx.head /\ r["y"] = yy.head /\ r["out"] = mg.head /\ r["new"] = Null
      /\ ct["x"] = xs /\ ct["y"] = ys /\ ct["out"] = os
      /\ Cursor(mm, mg.right, mg.takes_right, r, ch, ct, "right", rs)
      /\ Cursor(mm, mg.left, mg.takes_left, r, ch, ct, "left", ls)
      /\ mg.tail = EndOf(ch["out"]) /\ mg.out_len = Len(os)
  BY <1>2 DEF MergingBy
<1>4. mg.takes_right => r["right"] = mg.right
  BY <1>3 DEF Cursor
<1>5. EmitLeads(mm, r, ch, ct, "right", mg.takes_right, b, t, nn)
  <2>1. b = (IF mg.takes_right THEN r["right"] ELSE FreshCells(mm, 1)[1])
    BY <1>4
  <2>2. nn = (IF EndOf(ch["out"]) = Null THEN n1 ELSE [n1 EXCEPT ![EndOf(ch["out"])].next = b])
    BY <1>3
  <2>3. mg.takes_right => r["right"] # Null
    BY <1>4
  <2>4. Emits(mm, r, ch, ct, "right", mg.takes_right, b, t, n1, nn)
    BY <1>1, <1>3, <2>1, <2>2, <2>3, Zenon DEF Emits
  <2>. QED  BY <2>4, EmitStep, Zenon
<1>6. PICK rr, hh, dd : /\ Holds(nn, rr, hh, dd)
                        /\ Emitted(mm, r, ch, ct, "right", mg.takes_right, b, t, rr, hh, dd)
  BY <1>5, Zenon DEF EmitLeads
<1>7. /\ rr["x"] = r["x"] /\ rr["y"] = r["y"] /\ rr["new"] = r["new"] /\ rr["left"] = r["left"]
      /\ rr["out"] = (IF r["out"] = Null THEN b ELSE r["out"])
      /\ rr["right"] = IF mg.takes_right THEN mm[r["right"]].next ELSE r["right"]
      /\ \A o \in {"x", "y", "left"} : hh[o] = ch[o] /\ dd[o] = ct[o]
      /\ hh["out"] = ch["out"] \o <<b>> /\ dd["out"] = ct["out"] \o <<t>>
      /\ mg.takes_right => dd["right"] = Tail(ct["right"])
  BY <1>6 DEF Emitted, Owners
<1>8. Cursor(nn, mm[mg.right].next, mg.takes_right, rr, hh, dd, "right", Tail(rs))
  <2>1. rr["right"] = (IF mg.takes_right THEN mm[mg.right].next ELSE r["right"])
    BY <1>4, <1>7
  <2>2. "right" \in Owners /\ \A o \in {"x", "y"} : hh[o] = ch[o] /\ dd[o] = ct[o]
    BY <1>7 DEF Owners
  <2>3. Moves(mm, r, ch, ct, nn, rr, hh, dd, "right", mg.right, mg.takes_right, rs)
    BY <1>1, <1>3, <1>6, <1>7, <2>1, <2>2, Zenon DEF Moves
  <2>. QED  BY <2>3, CursorMoved, Zenon
<1>9. /\ Cursor(nn, mg.left, mg.takes_left, rr, hh, dd, "left", ls)
      /\ SameNext(mm, nn, mg.left)
  <2>1. "left" \in Owners
    BY DEF Owners
  <2>2. Keeps(mm, r, ch, ct, nn, rr, hh, dd, "left", mg.left, mg.takes_left, ls)
    BY <1>1, <1>3, <1>6, <1>7, <2>1, Zenon DEF Keeps
  <2>. QED  BY <2>2, CursorKept, Zenon
<1>10. gg.tail = EndOf(hh["out"]) /\ gg.out_len = Len(os \o <<t>>)
  <2>1. ch["out"] \in Seq(DOMAIN mm) /\ os \in Seq(TermSpace)
    BY <1>3, HoldsFacts DEF Owners
  <2>2. EndOf(ch["out"] \o <<b>>) = b
    BY <2>1, EndAfter
  <2>3. Len(os \o <<t>>) = Len(os) + 1
    BY <2>1
  <2>. QED  BY <1>3, <1>7, <2>2, <2>3
<1>11. MergingBy(nn, xx, yy, gg, xs, ys, os \o <<t>>, ls, Tail(rs), rr, hh, dd)
  <2>1. /\ rr["x"] = xx.head /\ rr["y"] = yy.head /\ rr["out"] = gg.head /\ rr["new"] = Null
        /\ dd["x"] = xs /\ dd["y"] = ys /\ dd["out"] = os \o <<t>>
    BY <1>3, <1>7
  <2>2. /\ Cursor(nn, gg.right, gg.takes_right, rr, hh, dd, "right", Tail(rs))
        /\ Cursor(nn, gg.left, gg.takes_left, rr, hh, dd, "left", ls)
    BY <1>8, <1>9
  <2>. QED  BY <1>6, <1>10, <2>1, <2>2 DEF MergingBy
<1>. QED  BY <1>5, <1>9, <1>11, Zenon DEF Merging, EmitLeads

(* The locals after b has gone behind the output as n nodes. *)
GrownTo(mg, b, n, left, right) ==
  [[mg EXCEPT !.head = IF @ = Null THEN b ELSE @, !.tail = b, !.out_len = @ + n]
     EXCEPT !.left = left, !.right = right]

GrownIs(mg, b, n, left, right, gg) ==
  /\ gg \in MergeSpace /\ gg.left = left /\ gg.right = right
  /\ gg.head = (IF mg.head = Null THEN b ELSE mg.head) /\ gg.tail = b
  /\ gg.out_len = mg.out_len + n /\ gg.k = mg.k /\ gg.m = mg.m
  /\ gg.takes_left = mg.takes_left /\ gg.takes_right = mg.takes_right

LEMMA GrownFacts ==
  ASSUME NEW mg, mg \in MergeSpace, NEW b, b \in Nat, NEW n, n \in Nat,
         NEW left, left \in Nat, NEW right, right \in Nat,
         NEW gg, gg = GrownTo(mg, b, n, left, right)
  PROVE  GrownIs(mg, b, n, left, right, gg)
<1> DEFINE g1 == [mg EXCEPT !.head = IF @ = Null THEN b ELSE @, !.tail = b, !.out_len = @ + n]
<1>1. /\ g1 \in MergeSpace /\ g1.head = (IF mg.head = Null THEN b ELSE mg.head) /\ g1.tail = b
      /\ g1.out_len = mg.out_len + n /\ g1.k = mg.k /\ g1.m = mg.m
      /\ g1.takes_left = mg.takes_left /\ g1.takes_right = mg.takes_right
  <2>1. mg.out_len + n \in Nat /\ (IF mg.head = Null THEN b ELSE mg.head) \in Nat
    BY DEF MergeSpace
  <2>2. g1 = [mg EXCEPT !.head = IF mg.head = Null THEN b ELSE mg.head, !.tail = b,
                        !.out_len = mg.out_len + n]
    BY DEF MergeSpace
  <2> HIDE DEF g1
  <2> DEFINE h == IF mg.head = Null THEN b ELSE mg.head
             e == mg.out_len + n
  <2>3. h \in Nat /\ e \in Nat /\ g1 = [mg EXCEPT !.head = h, !.tail = b, !.out_len = e]
    BY <2>1, <2>2
  <2> HIDE DEF h, e
  <2>4. /\ g1 \in MergeSpace /\ g1.head = h /\ g1.tail = b
        /\ g1.out_len = e /\ g1.k = mg.k /\ g1.m = mg.m
        /\ g1.takes_left = mg.takes_left /\ g1.takes_right = mg.takes_right
    BY <2>3 DEF MergeSpace
  <2>. QED  BY <2>4 DEF h, e
<1>2. gg = [g1 EXCEPT !.left = left, !.right = right]
  BY DEF GrownTo
<1> HIDE DEF g1
<1>3. /\ gg \in MergeSpace /\ gg.left = left /\ gg.right = right
      /\ gg.head = g1.head /\ gg.tail = g1.tail
      /\ gg.out_len = g1.out_len /\ gg.k = g1.k /\ gg.m = g1.m
      /\ gg.takes_left = g1.takes_left /\ gg.takes_right = g1.takes_right
  BY <1>1, <1>2 DEF MergeSpace
<1>. QED  BY <1>1, <1>3 DEF GrownIs

(* The node behind the tail slot, and the term t in it. *)
EmittedInto(mm, mg, owned, a, t, b, nn) ==
  /\ t \in TermSpace
  /\ b = IF owned THEN a ELSE FreshCells(mm, 1)[1]
  /\ nn = IF mg.tail = Null THEN WithNode(mm, b, t)
          ELSE [WithNode(mm, b, t) EXCEPT ![mg.tail].next = b]

LEMMA EmitLeftStep ==
  ASSUME NEW mm, NEW xx, NEW yy, NEW mg, NEW xs, NEW ys, NEW os, NEW ls, NEW rs,
         Merging(mm, xx, yy, mg, xs, ys, os, ls, rs), mg.left # Null,
         NEW t, NEW b, NEW nn, EmittedInto(mm, mg, mg.takes_left, mg.left, t, b, nn),
         NEW gg, gg = GrownTo(mg, b, 1, mm[mg.left].next, mg.right)
  PROVE  /\ Merging(nn, xx, yy, gg, xs, ys, os \o <<t>>, Tail(ls), rs)
         /\ SameNext(mm, nn, mg.right)
<1>1. /\ mg \in MergeSpace /\ mm[mg.left] \in NodeSpace
  BY MergingFacts
<1>2. /\ t \in TermSpace /\ b = (IF mg.takes_left THEN mg.left ELSE FreshCells(mm, 1)[1])
      /\ nn = (IF mg.tail = Null THEN WithNode(mm, b, t)
               ELSE [WithNode(mm, b, t) EXCEPT ![mg.tail].next = b])
  BY DEF EmittedInto
<1>3. b \in Nat
  <2>1. IsMemory(mm)
    BY DEF Merging, MergingBy, Holds, Owned
  <2>2. FreshCells(mm, 1)[1] \in Nat
    <3>1. FreshCells(mm, 1) \in Seq(Nat \ {Null}) /\ Len(FreshCells(mm, 1)) = 1
      BY <2>1, FreshFacts
    <3>. QED  BY <3>1
  <2>. QED  BY <1>1, <1>2, <2>2 DEF MergeSpace
<1>4. mm[mg.left].next \in Nat /\ mg.right \in Nat /\ 1 \in Nat
  BY <1>1 DEF NodeSpace, MergeSpace
<1>5. /\ gg \in MergeSpace /\ gg.left = mm[mg.left].next /\ gg.right = mg.right
      /\ gg.head = (IF mg.head = Null THEN b ELSE mg.head) /\ gg.tail = b
      /\ gg.out_len = mg.out_len + 1
      /\ gg.takes_left = mg.takes_left /\ gg.takes_right = mg.takes_right
  <2>1. GrownIs(mg, b, 1, mm[mg.left].next, mg.right, gg)
    BY <1>1, <1>3, <1>4, GrownFacts, Zenon
  <2>. QED  BY <2>1 DEF GrownIs
<1> DEFINE n1 == WithNode(mm, b, t)
<1>6. /\ Merging(mm, xx, yy, mg, xs, ys, os, ls, rs) /\ mg.left # Null
      /\ n1 = WithNode(mm, b, t)
      /\ nn = (IF mg.tail = Null THEN n1 ELSE [n1 EXCEPT ![mg.tail].next = b])
  BY <1>2
<1> HIDE DEF n1
<1>. QED  BY ONLY <1>2, <1>5, <1>6, EmitLeft

LEMMA EmitRightStep ==
  ASSUME NEW mm, NEW xx, NEW yy, NEW mg, NEW xs, NEW ys, NEW os, NEW ls, NEW rs,
         Merging(mm, xx, yy, mg, xs, ys, os, ls, rs), mg.right # Null,
         NEW t, NEW b, NEW nn, EmittedInto(mm, mg, mg.takes_right, mg.right, t, b, nn),
         NEW gg, gg = GrownTo(mg, b, 1, mg.left, mm[mg.right].next)
  PROVE  /\ Merging(nn, xx, yy, gg, xs, ys, os \o <<t>>, ls, Tail(rs))
         /\ SameNext(mm, nn, mg.left)
<1>1. /\ mg \in MergeSpace /\ mm[mg.right] \in NodeSpace
  BY MergingFacts
<1>2. /\ t \in TermSpace /\ b = (IF mg.takes_right THEN mg.right ELSE FreshCells(mm, 1)[1])
      /\ nn = (IF mg.tail = Null THEN WithNode(mm, b, t)
               ELSE [WithNode(mm, b, t) EXCEPT ![mg.tail].next = b])
  BY DEF EmittedInto
<1>3. b \in Nat
  <2>1. IsMemory(mm)
    BY DEF Merging, MergingBy, Holds, Owned
  <2>2. FreshCells(mm, 1)[1] \in Nat
    <3>1. FreshCells(mm, 1) \in Seq(Nat \ {Null}) /\ Len(FreshCells(mm, 1)) = 1
      BY <2>1, FreshFacts
    <3>. QED  BY <3>1
  <2>. QED  BY <1>1, <1>2, <2>2 DEF MergeSpace
<1>4. mm[mg.right].next \in Nat /\ mg.left \in Nat /\ 1 \in Nat
  BY <1>1 DEF NodeSpace, MergeSpace
<1>5. /\ gg \in MergeSpace /\ gg.right = mm[mg.right].next /\ gg.left = mg.left
      /\ gg.head = (IF mg.head = Null THEN b ELSE mg.head) /\ gg.tail = b
      /\ gg.out_len = mg.out_len + 1
      /\ gg.takes_left = mg.takes_left /\ gg.takes_right = mg.takes_right
  <2>1. GrownIs(mg, b, 1, mg.left, mm[mg.right].next, gg)
    BY <1>1, <1>3, <1>4, GrownFacts, Zenon
  <2>. QED  BY <2>1 DEF GrownIs
<1> DEFINE n1 == WithNode(mm, b, t)
<1>6. /\ Merging(mm, xx, yy, mg, xs, ys, os, ls, rs) /\ mg.right # Null
      /\ n1 = WithNode(mm, b, t)
      /\ nn = (IF mg.tail = Null THEN n1 ELSE [n1 EXCEPT ![mg.tail].next = b])
  BY <1>2
<1> HIDE DEF n1
<1>. QED  BY ONLY <1>2, <1>5, <1>6, EmitRight

(* A turn that advances the right cursor, and gives up its node if it is   *)
(* owned.                                                                  *)
LEMMA DropRight ==
  ASSUME NEW mm, NEW xx, NEW yy, NEW mg, NEW xs, NEW ys, NEW os, NEW ls, NEW rs,
         Merging(mm, xx, yy, mg, xs, ys, os, ls, rs), mg.right # Null,
         NEW nn, nn = Freed(mm, {a \in {mg.right} : mg.takes_right}),
         NEW next, next = mm[mg.right].next,
         NEW gg, gg = [mg EXCEPT !.right = next]
  PROVE  /\ Merging(nn, xx, yy, gg, xs, ys, os, ls, Tail(rs))
         /\ SameNext(mm, nn, mg.left)
<1>0. /\ mg \in MergeSpace /\ mm[mg.right] \in NodeSpace
      /\ mg.takes_left \in BOOLEAN /\ mg.takes_right \in BOOLEAN
  BY MergingFacts DEF MergeSpace
<1>1. /\ gg \in MergeSpace /\ gg.left = mg.left /\ gg.right = next /\ gg.head = mg.head
      /\ gg.tail = mg.tail /\ gg.out_len = mg.out_len
      /\ gg.takes_left = mg.takes_left /\ gg.takes_right = mg.takes_right
  BY <1>0 DEF MergeSpace, NodeSpace
<1>2. PICK r, ch, ct : MergingBy(mm, xx, yy, mg, xs, ys, os, ls, rs, r, ch, ct)
  BY Zenon DEF Merging
<1>3. /\ Holds(mm, r, ch, ct)
      /\ r["x"] = xx.head /\ r["y"] = yy.head /\ r["out"] = mg.head /\ r["new"] = Null
      /\ ct["x"] = xs /\ ct["y"] = ys /\ ct["out"] = os
      /\ Cursor(mm, mg.left, mg.takes_left, r, ch, ct, "left", ls)
      /\ Cursor(mm, mg.right, mg.takes_right, r, ch, ct, "right", rs)
      /\ mg.tail = EndOf(ch["out"]) /\ mg.out_len = Len(os)
  BY <1>2 DEF MergingBy
<1>4. mg.takes_right => r["right"] = mg.right
  BY <1>3 DEF Cursor
<1>5. "left" \in Owners /\ "right" \in Owners /\ "x" \in Owners /\ "y" \in Owners
  BY DEF Owners
<1>6. /\ r \in [Owners -> Nat] /\ DOMAIN ch = Owners /\ DOMAIN ct = Owners
      /\ mm = [b \in DOMAIN mm |-> mm[b]]
  BY <1>3 DEF Holds, Owned, IsMemory
<1>7. \E rr, hh, dd :
        /\ Holds(nn, rr, hh, dd)
        /\ \A o \in Owners \ {"right"} : rr[o] = r[o] /\ hh[o] = ch[o] /\ dd[o] = ct[o]
        /\ rr["right"] = (IF mg.takes_right THEN next ELSE r["right"])
        /\ mg.takes_right => dd["right"] = Tail(ct["right"])
  <2>1. CASE mg.takes_right
    <3> DEFINE rr == [r EXCEPT !["right"] = mm[r["right"]].next]
               hh == [ch EXCEPT !["right"] = Tail(ch["right"])]
               dd == [ct EXCEPT !["right"] = Tail(ct["right"])]
    <3>1. nn = Freed(mm, {r["right"]}) /\ r["right"] # Null
      <4>1. {a \in {mg.right} : mg.takes_right} = {r["right"]}
        BY <2>1, <1>4
      <4>. QED  BY <4>1, <2>1, <1>4
    <3>2. Holds(nn, rr, hh, dd)
      BY <3>1, <1>3, <1>5, OwnedShorter, Zenon
    <3>3. /\ \A o \in Owners \ {"right"} : rr[o] = r[o] /\ hh[o] = ch[o] /\ dd[o] = ct[o]
          /\ rr["right"] = (IF mg.takes_right THEN next ELSE r["right"])
          /\ mg.takes_right => dd["right"] = Tail(ct["right"])
      BY <1>4, <1>5, <1>6, <2>1
    <3> HIDE DEF rr, hh, dd
    <3>. QED  BY <3>2, <3>3
  <2>2. CASE ~mg.takes_right
    <3>1. nn = mm
      <4>1. {a \in {mg.right} : mg.takes_right} = {}
        BY <2>2
      <4>2. nn = [b \in DOMAIN mm |-> mm[b]]
        BY <4>1 DEF Freed
      <4>. QED  BY <4>2, <1>6
    <3>2. /\ Holds(nn, r, ch, ct) /\ r["right"] = (IF mg.takes_right THEN next ELSE r["right"])
          /\ mg.takes_right => ct["right"] = Tail(ct["right"])
      BY <3>1, <1>3, <2>2
    <3>. QED  BY <3>2
  <2>. QED  BY <2>1, <2>2
<1>8. PICK rr, hh, dd :
        /\ Holds(nn, rr, hh, dd)
        /\ \A o \in Owners \ {"right"} : rr[o] = r[o] /\ hh[o] = ch[o] /\ dd[o] = ct[o]
        /\ rr["right"] = (IF mg.takes_right THEN next ELSE r["right"])
        /\ mg.takes_right => dd["right"] = Tail(ct["right"])
  BY <1>7
<1>9. /\ \A o \in {"x", "y", "left"} : rr[o] = r[o] /\ hh[o] = ch[o] /\ dd[o] = ct[o]
      /\ rr["new"] = Null /\ rr["out"] = r["out"] /\ hh["out"] = ch["out"] /\ dd["out"] = ct["out"]
  BY <1>3, <1>8 DEF Owners
<1>10. Cursor(nn, gg.right, gg.takes_right, rr, hh, dd, "right", Tail(rs))
  <2>1. Moves(mm, r, ch, ct, nn, rr, hh, dd, "right", mg.right, mg.takes_right, rs)
    BY <1>0, <1>3, <1>5, <1>8, <1>9 DEF Moves
  <2>2. Cursor(nn, mm[mg.right].next, mg.takes_right, rr, hh, dd, "right", Tail(rs))
    BY <2>1, CursorMoved, Zenon
  <2>. QED  BY <2>2, <1>1, Zenon
<1>11. Cursor(nn, gg.left, gg.takes_left, rr, hh, dd, "left", ls) /\ SameNext(mm, nn, mg.left)
  <2>1. Keeps(mm, r, ch, ct, nn, rr, hh, dd, "left", mg.left, mg.takes_left, ls)
    BY <1>0, <1>3, <1>5, <1>8, <1>9 DEF Keeps
  <2>2. Cursor(nn, mg.left, mg.takes_left, rr, hh, dd, "left", ls) /\ SameNext(mm, nn, mg.left)
    BY <2>1, CursorKept, Zenon
  <2>. QED  BY <2>2, <1>1, Zenon
<1>12. MergingBy(nn, xx, yy, gg, xs, ys, os, ls, Tail(rs), rr, hh, dd)
  <2>1. /\ rr["x"] = xx.head /\ rr["y"] = yy.head /\ rr["out"] = gg.head /\ rr["new"] = Null
        /\ dd["x"] = xs /\ dd["y"] = ys /\ dd["out"] = os
        /\ gg.tail = EndOf(hh["out"]) /\ gg.out_len = Len(os)
    BY <1>1, <1>3, <1>9
  <2>. QED  BY <1>8, <1>10, <1>11, <2>1 DEF MergingBy
<1>. QED  BY <1>1, <1>11, <1>12, Zenon DEF Merging

(* ... and the same of the left one.                                       *)
LEMMA DropLeft ==
  ASSUME NEW mm, NEW xx, NEW yy, NEW mg, NEW xs, NEW ys, NEW os, NEW ls, NEW rs,
         Merging(mm, xx, yy, mg, xs, ys, os, ls, rs), mg.left # Null,
         NEW nn, nn = Freed(mm, {a \in {mg.left} : mg.takes_left}),
         NEW next, next = mm[mg.left].next,
         NEW gg, gg = [mg EXCEPT !.left = next]
  PROVE  /\ Merging(nn, xx, yy, gg, xs, ys, os, Tail(ls), rs)
         /\ SameNext(mm, nn, mg.right)
<1>0. /\ mg \in MergeSpace /\ mm[mg.left] \in NodeSpace
      /\ mg.takes_right \in BOOLEAN /\ mg.takes_left \in BOOLEAN
  BY MergingFacts DEF MergeSpace
<1>1. /\ gg \in MergeSpace /\ gg.right = mg.right /\ gg.left = next /\ gg.head = mg.head
      /\ gg.tail = mg.tail /\ gg.out_len = mg.out_len
      /\ gg.takes_right = mg.takes_right /\ gg.takes_left = mg.takes_left
  BY <1>0 DEF MergeSpace, NodeSpace
<1>2. PICK r, ch, ct : MergingBy(mm, xx, yy, mg, xs, ys, os, ls, rs, r, ch, ct)
  BY Zenon DEF Merging
<1>3. /\ Holds(mm, r, ch, ct)
      /\ r["x"] = xx.head /\ r["y"] = yy.head /\ r["out"] = mg.head /\ r["new"] = Null
      /\ ct["x"] = xs /\ ct["y"] = ys /\ ct["out"] = os
      /\ Cursor(mm, mg.right, mg.takes_right, r, ch, ct, "right", rs)
      /\ Cursor(mm, mg.left, mg.takes_left, r, ch, ct, "left", ls)
      /\ mg.tail = EndOf(ch["out"]) /\ mg.out_len = Len(os)
  BY <1>2 DEF MergingBy
<1>4. mg.takes_left => r["left"] = mg.left
  BY <1>3 DEF Cursor
<1>5. "right" \in Owners /\ "left" \in Owners /\ "x" \in Owners /\ "y" \in Owners
  BY DEF Owners
<1>6. /\ r \in [Owners -> Nat] /\ DOMAIN ch = Owners /\ DOMAIN ct = Owners
      /\ mm = [b \in DOMAIN mm |-> mm[b]]
  BY <1>3 DEF Holds, Owned, IsMemory
<1>7. \E rr, hh, dd :
        /\ Holds(nn, rr, hh, dd)
        /\ \A o \in Owners \ {"left"} : rr[o] = r[o] /\ hh[o] = ch[o] /\ dd[o] = ct[o]
        /\ rr["left"] = (IF mg.takes_left THEN next ELSE r["left"])
        /\ mg.takes_left => dd["left"] = Tail(ct["left"])
  <2>1. CASE mg.takes_left
    <3> DEFINE rr == [r EXCEPT !["left"] = mm[r["left"]].next]
               hh == [ch EXCEPT !["left"] = Tail(ch["left"])]
               dd == [ct EXCEPT !["left"] = Tail(ct["left"])]
    <3>1. nn = Freed(mm, {r["left"]}) /\ r["left"] # Null
      <4>1. {a \in {mg.left} : mg.takes_left} = {r["left"]}
        BY <2>1, <1>4
      <4>. QED  BY <4>1, <2>1, <1>4
    <3>2. Holds(nn, rr, hh, dd)
      BY <3>1, <1>3, <1>5, OwnedShorter, Zenon
    <3>3. /\ \A o \in Owners \ {"left"} : rr[o] = r[o] /\ hh[o] = ch[o] /\ dd[o] = ct[o]
          /\ rr["left"] = (IF mg.takes_left THEN next ELSE r["left"])
          /\ mg.takes_left => dd["left"] = Tail(ct["left"])
      BY <1>4, <1>5, <1>6, <2>1
    <3> HIDE DEF rr, hh, dd
    <3>. QED  BY <3>2, <3>3
  <2>2. CASE ~mg.takes_left
    <3>1. nn = mm
      <4>1. {a \in {mg.left} : mg.takes_left} = {}
        BY <2>2
      <4>2. nn = [b \in DOMAIN mm |-> mm[b]]
        BY <4>1 DEF Freed
      <4>. QED  BY <4>2, <1>6
    <3>2. /\ Holds(nn, r, ch, ct) /\ r["left"] = (IF mg.takes_left THEN next ELSE r["left"])
          /\ mg.takes_left => ct["left"] = Tail(ct["left"])
      BY <3>1, <1>3, <2>2
    <3>. QED  BY <3>2
  <2>. QED  BY <2>1, <2>2
<1>8. PICK rr, hh, dd :
        /\ Holds(nn, rr, hh, dd)
        /\ \A o \in Owners \ {"left"} : rr[o] = r[o] /\ hh[o] = ch[o] /\ dd[o] = ct[o]
        /\ rr["left"] = (IF mg.takes_left THEN next ELSE r["left"])
        /\ mg.takes_left => dd["left"] = Tail(ct["left"])
  BY <1>7
<1>9. /\ \A o \in {"x", "y", "right"} : rr[o] = r[o] /\ hh[o] = ch[o] /\ dd[o] = ct[o]
      /\ rr["new"] = Null /\ rr["out"] = r["out"] /\ hh["out"] = ch["out"] /\ dd["out"] = ct["out"]
  BY <1>3, <1>8 DEF Owners
<1>10. Cursor(nn, gg.left, gg.takes_left, rr, hh, dd, "left", Tail(ls))
  <2>1. Moves(mm, r, ch, ct, nn, rr, hh, dd, "left", mg.left, mg.takes_left, ls)
    BY <1>0, <1>3, <1>5, <1>8, <1>9 DEF Moves
  <2>2. Cursor(nn, mm[mg.left].next, mg.takes_left, rr, hh, dd, "left", Tail(ls))
    BY <2>1, CursorMoved, Zenon
  <2>. QED  BY <2>2, <1>1, Zenon
<1>11. Cursor(nn, gg.right, gg.takes_right, rr, hh, dd, "right", rs) /\ SameNext(mm, nn, mg.right)
  <2>1. Keeps(mm, r, ch, ct, nn, rr, hh, dd, "right", mg.right, mg.takes_right, rs)
    BY <1>0, <1>3, <1>5, <1>8, <1>9 DEF Keeps
  <2>2. Cursor(nn, mg.right, mg.takes_right, rr, hh, dd, "right", rs) /\ SameNext(mm, nn, mg.right)
    BY <2>1, CursorKept, Zenon
  <2>. QED  BY <2>2, <1>1, Zenon
<1>12. MergingBy(nn, xx, yy, gg, xs, ys, os, Tail(ls), rs, rr, hh, dd)
  <2>1. /\ rr["x"] = xx.head /\ rr["y"] = yy.head /\ rr["out"] = gg.head /\ rr["new"] = Null
        /\ dd["x"] = xs /\ dd["y"] = ys /\ dd["out"] = os
        /\ gg.tail = EndOf(hh["out"]) /\ gg.out_len = Len(os)
    BY <1>1, <1>3, <1>9
  <2>. QED  BY <1>8, <1>10, <1>11, <2>1 DEF MergingBy
<1>. QED  BY <1>1, <1>11, <1>12, Zenon DEF Merging

(* The whole of an owned left chain goes behind the output.                *)
LEMMA SpliceLeft ==
  ASSUME NEW mm, NEW xx, NEW yy, NEW mg, NEW xs, NEW ys, NEW os, NEW ls, NEW rs,
         Merging(mm, xx, yy, mg, xs, ys, os, ls, rs), mg.left # Null, mg.right = Null,
         mg.takes_left,
         NEW nn, nn = (IF mg.tail = Null THEN mm ELSE [mm EXCEPT ![mg.tail].next = mg.left]),
         NEW gg, gg = GrownTo(mg, mg.left, Len(Chain(mm, mg.left)), Null, Null)
  PROVE  Merging(nn, xx, yy, gg, xs, ys, os \o ls, << >>, rs)
<1>0. mg \in MergeSpace /\ mg.takes_left \in BOOLEAN /\ mg.takes_right \in BOOLEAN
  BY DEF Merging, MergeSpace
<1>2. PICK r, ch, ct : MergingBy(mm, xx, yy, mg, xs, ys, os, ls, rs, r, ch, ct)
  BY Zenon DEF Merging
<1>3. /\ Holds(mm, r, ch, ct)
      /\ r["x"] = xx.head /\ r["y"] = yy.head /\ r["out"] = mg.head /\ r["new"] = Null
      /\ ct["x"] = xs /\ ct["y"] = ys /\ ct["out"] = os
      /\ Cursor(mm, mg.left, mg.takes_left, r, ch, ct, "left", ls)
      /\ Cursor(mm, mg.right, mg.takes_right, r, ch, ct, "right", rs)
      /\ mg.tail = EndOf(ch["out"]) /\ mg.out_len = Len(os)
  BY <1>2 DEF MergingBy
<1>4. r["left"] = mg.left /\ ct["left"] = ls
  BY <1>3 DEF Cursor
<1>5. "left" \in Owners \ {"out"} /\ "right" \in Owners /\ "out" \in Owners
  BY DEF Owners
<1>6. r \in [Owners -> Nat] /\ DOMAIN ch = Owners /\ DOMAIN ct = Owners
  BY <1>3 DEF Holds, Owned
<1> DEFINE rr == [r EXCEPT !["out"] = IF @ = Null THEN r["left"] ELSE @, !["left"] = Null]
           hh == [ch EXCEPT !["out"] = ch["out"] \o ch["left"], !["left"] = << >>]
           dd == [ct EXCEPT !["out"] = ct["out"] \o ct["left"], !["left"] = << >>]
<1>7. Holds(nn, rr, hh, dd)
  <2>1. nn = (IF EndOf(ch["out"]) = Null THEN mm ELSE [mm EXCEPT ![EndOf(ch["out"])].next = r["left"]])
    BY <1>3, <1>4
  <2>2. r["left"] # Null
    BY <1>4
  <2>. QED  BY <1>3, <1>5, <2>1, <2>2, OwnedAttached, Zenon
<1>8. /\ \A o \in {"x", "y", "right", "new"} : rr[o] = r[o] /\ hh[o] = ch[o] /\ dd[o] = ct[o]
      /\ rr["out"] = (IF mg.head = Null THEN mg.left ELSE mg.head) /\ rr["left"] = Null
      /\ dd["out"] = os \o ls /\ dd["left"] = << >>
  BY <1>3, <1>4, <1>6 DEF Owners
<1> HIDE DEF rr, hh, dd
<1>9. Len(Chain(mm, mg.left)) = Len(ls) /\ mg.left \in Nat /\ ls \in Seq(TermSpace)
  <2>1. ReadAt(mm, mg.left, ls)
    BY <1>0, <1>3, <1>5, CursorFacts, Zenon
  <2>. QED  BY <2>1 DEF ReadAt
<1>10. GrownIs(mg, mg.left, Len(ls), Null, Null, gg)
  <2>1. gg = GrownTo(mg, mg.left, Len(ls), Null, Null) /\ Len(ls) \in Nat /\ Null \in Nat
    BY <1>9 DEF Null
  <2>. QED  BY <2>1, <1>0, <1>9, GrownFacts, Zenon
<1>11. /\ gg \in MergeSpace /\ gg.left = Null /\ gg.right = Null
       /\ gg.head = (IF mg.head = Null THEN mg.left ELSE mg.head)
       /\ gg.out_len = mg.out_len + Len(ls)
       /\ gg.takes_left = mg.takes_left /\ gg.takes_right = mg.takes_right
  BY <1>10 DEF GrownIs
<1>12. Cursor(nn, gg.left, gg.takes_left, rr, hh, dd, "left", << >>)
  BY <1>8, <1>11 DEF Cursor
<1>13. Cursor(nn, gg.right, gg.takes_right, rr, hh, dd, "right", rs)
  <2>1. Keeps(mm, r, ch, ct, nn, rr, hh, dd, "right", mg.right, mg.takes_right, rs)
    BY <1>0, <1>3, <1>5, <1>7, <1>8 DEF Keeps
  <2>2. Cursor(nn, mg.right, mg.takes_right, rr, hh, dd, "right", rs)
    BY <2>1, CursorKept, Zenon
  <2>. QED  BY <2>2, <1>11, Zenon
<1>14. gg.out_len = Len(os \o ls)
  <2>1. os \in Seq(TermSpace)
    BY <1>3, <1>5, HoldsFacts
  <2>. QED  BY <2>1, <1>3, <1>9, <1>11
<1>15. MergingBy(nn, xx, yy, gg, xs, ys, os \o ls, << >>, rs, rr, hh, dd)
  <2>1. /\ rr["x"] = xx.head /\ rr["y"] = yy.head /\ rr["out"] = gg.head /\ rr["new"] = Null
        /\ dd["x"] = xs /\ dd["y"] = ys /\ dd["out"] = os \o ls
        /\ ~(gg.left # Null \/ gg.right # Null)
    BY <1>3, <1>8, <1>11
  <2>. QED  BY <1>7, <1>12, <1>13, <1>14, <2>1 DEF MergingBy
<1>. QED  BY <1>11, <1>15, Zenon DEF Merging

(* ... and the whole of an owned right chain.                              *)
LEMMA SpliceRight ==
  ASSUME NEW mm, NEW xx, NEW yy, NEW mg, NEW xs, NEW ys, NEW os, NEW ls, NEW rs,
         Merging(mm, xx, yy, mg, xs, ys, os, ls, rs), mg.right # Null, mg.left = Null,
         mg.takes_right,
         NEW nn, nn = (IF mg.tail = Null THEN mm ELSE [mm EXCEPT ![mg.tail].next = mg.right]),
         NEW gg, gg = GrownTo(mg, mg.right, Len(Chain(mm, mg.right)), Null, Null)
  PROVE  Merging(nn, xx, yy, gg, xs, ys, os \o rs, ls, << >>)
<1>0. mg \in MergeSpace /\ mg.takes_right \in BOOLEAN /\ mg.takes_left \in BOOLEAN
  BY DEF Merging, MergeSpace
<1>2. PICK r, ch, ct : MergingBy(mm, xx, yy, mg, xs, ys, os, ls, rs, r, ch, ct)
  BY Zenon DEF Merging
<1>3. /\ Holds(mm, r, ch, ct)
      /\ r["x"] = xx.head /\ r["y"] = yy.head /\ r["out"] = mg.head /\ r["new"] = Null
      /\ ct["x"] = xs /\ ct["y"] = ys /\ ct["out"] = os
      /\ Cursor(mm, mg.right, mg.takes_right, r, ch, ct, "right", rs)
      /\ Cursor(mm, mg.left, mg.takes_left, r, ch, ct, "left", ls)
      /\ mg.tail = EndOf(ch["out"]) /\ mg.out_len = Len(os)
  BY <1>2 DEF MergingBy
<1>4. r["right"] = mg.right /\ ct["right"] = rs
  BY <1>3 DEF Cursor
<1>5. "right" \in Owners \ {"out"} /\ "left" \in Owners /\ "out" \in Owners
  BY DEF Owners
<1>6. r \in [Owners -> Nat] /\ DOMAIN ch = Owners /\ DOMAIN ct = Owners
  BY <1>3 DEF Holds, Owned
<1> DEFINE rr == [r EXCEPT !["out"] = IF @ = Null THEN r["right"] ELSE @, !["right"] = Null]
           hh == [ch EXCEPT !["out"] = ch["out"] \o ch["right"], !["right"] = << >>]
           dd == [ct EXCEPT !["out"] = ct["out"] \o ct["right"], !["right"] = << >>]
<1>7. Holds(nn, rr, hh, dd)
  <2>1. nn = (IF EndOf(ch["out"]) = Null THEN mm ELSE [mm EXCEPT ![EndOf(ch["out"])].next = r["right"]])
    BY <1>3, <1>4
  <2>2. r["right"] # Null
    BY <1>4
  <2>. QED  BY <1>3, <1>5, <2>1, <2>2, OwnedAttached, Zenon
<1>8. /\ \A o \in {"x", "y", "left", "new"} : rr[o] = r[o] /\ hh[o] = ch[o] /\ dd[o] = ct[o]
      /\ rr["out"] = (IF mg.head = Null THEN mg.right ELSE mg.head) /\ rr["right"] = Null
      /\ dd["out"] = os \o rs /\ dd["right"] = << >>
  BY <1>3, <1>4, <1>6 DEF Owners
<1> HIDE DEF rr, hh, dd
<1>9. Len(Chain(mm, mg.right)) = Len(rs) /\ mg.right \in Nat /\ rs \in Seq(TermSpace)
  <2>1. ReadAt(mm, mg.right, rs)
    BY <1>0, <1>3, <1>5, CursorFacts, Zenon
  <2>. QED  BY <2>1 DEF ReadAt
<1>10. GrownIs(mg, mg.right, Len(rs), Null, Null, gg)
  <2>1. gg = GrownTo(mg, mg.right, Len(rs), Null, Null) /\ Len(rs) \in Nat /\ Null \in Nat
    BY <1>9 DEF Null
  <2>. QED  BY <2>1, <1>0, <1>9, GrownFacts, Zenon
<1>11. /\ gg \in MergeSpace /\ gg.right = Null /\ gg.left = Null
       /\ gg.head = (IF mg.head = Null THEN mg.right ELSE mg.head)
       /\ gg.out_len = mg.out_len + Len(rs)
       /\ gg.takes_right = mg.takes_right /\ gg.takes_left = mg.takes_left
  BY <1>10 DEF GrownIs
<1>12. Cursor(nn, gg.right, gg.takes_right, rr, hh, dd, "right", << >>)
  BY <1>8, <1>11 DEF Cursor
<1>13. Cursor(nn, gg.left, gg.takes_left, rr, hh, dd, "left", ls)
  <2>1. Keeps(mm, r, ch, ct, nn, rr, hh, dd, "left", mg.left, mg.takes_left, ls)
    BY <1>0, <1>3, <1>5, <1>7, <1>8 DEF Keeps
  <2>2. Cursor(nn, mg.left, mg.takes_left, rr, hh, dd, "left", ls)
    BY <2>1, CursorKept, Zenon
  <2>. QED  BY <2>2, <1>11, Zenon
<1>14. gg.out_len = Len(os \o rs)
  <2>1. os \in Seq(TermSpace)
    BY <1>3, <1>5, HoldsFacts
  <2>. QED  BY <2>1, <1>3, <1>9, <1>11
<1>15. MergingBy(nn, xx, yy, gg, xs, ys, os \o rs, ls, << >>, rr, hh, dd)
  <2>1. /\ rr["x"] = xx.head /\ rr["y"] = yy.head /\ rr["out"] = gg.head /\ rr["new"] = Null
        /\ dd["x"] = xs /\ dd["y"] = ys /\ dd["out"] = os \o rs
        /\ ~(gg.right # Null \/ gg.left # Null)
    BY <1>3, <1>8, <1>11
  <2>. QED  BY <1>7, <1>12, <1>13, <1>14, <2>1 DEF MergingBy
<1>. QED  BY <1>11, <1>15, Zenon DEF Merging

(* The chain of one of the handles is replaced by a fresh one. *)
LEMMA Replaced ==
  ASSUME NEW mm, NEW r, NEW ch, NEW ct, Holds(mm, r, ch, ct), r["new"] = Null,
         NEW l \in {"x", "y"}, NEW ts \in Seq(TermSpace),
         NEW nn, nn = Freed(Linked(mm, ts), Range(Chain(Linked(mm, ts), r[l])))
  PROVE  /\ \E rr, hh, dd : /\ Holds(nn, rr, hh, dd)
                            /\ \A o \in Owners : rr[o] = IF o = l THEN Placed(mm, ts) ELSE r[o]
                            /\ \A o \in Owners : dd[o] = IF o = l THEN ts ELSE ct[o]
         /\ LeadAt(nn, Placed(mm, ts)) = LeadOf(ts, 0) /\ Placed(mm, ts) \in Nat
<1> DEFINE m1 == Linked(mm, ts)
           at == FreshCells(mm, Len(ts))
           a == Placed(mm, ts)
           r1 == [r EXCEPT !["new"] = a]
           h1 == [ch EXCEPT !["new"] = at]
           c1 == [ct EXCEPT !["new"] = ts]
<1>0. l \in Owners /\ "new" \in Owners /\ l # "new"
  BY DEF Owners
<1>1. r \in [Owners -> Nat] /\ DOMAIN ch = Owners /\ DOMAIN ct = Owners
  BY DEF Holds, Owned
<1>2. Holds(m1, r1, h1, c1)
  BY OwnedLinked, Zenon
<1>3. r1[l] = r[l] /\ h1[l] = ch[l] /\ r1["new"] = a /\ c1["new"] = ts
  BY <1>0, <1>1
<1>4. /\ r1 \in [Owners -> Nat] /\ DOMAIN h1 = Owners /\ DOMAIN c1 = Owners
  BY <1>2 DEF Holds, Owned
<1>5. Chain(m1, r[l]) = h1[l]
  <2> HIDE DEF m1, r1, h1, c1
  <2>1. OwnerReads(m1, r1[l], h1[l], c1[l])
    BY <1>0, <1>2, OwnerFacts, Zenon
  <2>. QED  BY <2>1, <1>3 DEF OwnerReads
<1>6. nn = Freed(m1, Range(h1[l]))
  BY <1>5
<1> DEFINE r2 == [r1 EXCEPT ![l] = Null]
           h2 == [h1 EXCEPT ![l] = << >>]
           c2 == [c1 EXCEPT ![l] = << >>]
<1>7. /\ \A o \in Owners : r1[o] = IF o = "new" THEN a ELSE r[o]
      /\ \A o \in Owners : c1[o] = IF o = "new" THEN ts ELSE ct[o]
  BY <1>1
<1> HIDE DEF m1, at, a, r1, h1, c1
<1>8. Holds(nn, r2, h2, c2)
  BY <1>0, <1>2, <1>6, OwnedWithout, Zenon
<1>9. /\ \A o \in Owners : r2[o] = IF o = l THEN Null ELSE r1[o]
      /\ \A o \in Owners : c2[o] = IF o = l THEN << >> ELSE c1[o]
      /\ r2[l] = Null /\ DOMAIN r2 = Owners /\ DOMAIN c2 = Owners
  BY <1>4, <1>0
<1> DEFINE r3 == [r2 EXCEPT ![l] = r2["new"], !["new"] = Null]
           h3 == [h2 EXCEPT ![l] = h2["new"], !["new"] = << >>]
           c3 == [c2 EXCEPT ![l] = c2["new"], !["new"] = << >>]
<1> HIDE DEF r2, h2, c2
<1>10. Holds(nn, r3, h3, c3)
  BY <1>0, <1>8, <1>9, OwnedMoved, Zenon
<1>11. /\ \A o \in Owners : r3[o] = IF o = "new" THEN Null ELSE IF o = l THEN r2["new"] ELSE r2[o]
       /\ \A o \in Owners : c3[o] = IF o = "new" THEN << >> ELSE IF o = l THEN c2["new"] ELSE c2[o]
  BY <1>9, <1>0
<1> HIDE DEF r3, h3, c3
<1>12. ct["new"] = << >>
  BY <1>0, HoldsFacts
<1>13. /\ \A o \in Owners : r3[o] = IF o = l THEN a ELSE r[o]
       /\ \A o \in Owners : c3[o] = IF o = l THEN ts ELSE ct[o]
  BY <1>0, <1>7, <1>9, <1>11, <1>12
<1>14. LeadAt(nn, r3[l]) = LeadOf(c3[l], 0)
  BY <1>0, <1>10, HoldsFacts
<1>15. r3[l] = a /\ c3[l] = ts /\ r3[l] \in Nat
  <2>1. r3 \in [Owners -> Nat]
    BY <1>10 DEF Holds, Owned
  <2>. QED  BY <1>0, <1>13, <2>1
<1>16. LeadAt(nn, a) = LeadOf(ts, 0) /\ a \in Nat
  BY <1>14, <1>15
<1>17. \E rr, hh, dd : /\ Holds(nn, rr, hh, dd)
                       /\ \A o \in Owners : rr[o] = IF o = l THEN a ELSE r[o]
                       /\ \A o \in Owners : dd[o] = IF o = l THEN ts ELSE ct[o]
  BY <1>10, <1>13
<1>. QED  BY <1>16, <1>17 DEF a

LEMMA AssignX ==
  ASSUME NEW mm, NEW xx, NEW yy, NEW xs, NEW ys, Resting(mm, xx, yy, xs, ys),
         NEW ts \in Seq(TermSpace), NEW nn, nn = Dropped(Linked(mm, ts), xx),
         NEW x2, x2.head = Placed(mm, ts)
  PROVE  /\ Resting(nn, x2, yy, ts, ys)
         /\ LeadAt(nn, Placed(mm, ts)) = LeadOf(ts, 0) /\ Placed(mm, ts) \in Nat
<1>1. PICK r, ch, ct :
        /\ Holds(mm, r, ch, ct)
        /\ r["x"] = xx.head /\ r["y"] = yy.head
        /\ \A o \in {"out", "left", "right", "new"} : r[o] = Null
        /\ ct["x"] = xs /\ ct["y"] = ys
  BY DEF Resting
<1>2. nn = Freed(Linked(mm, ts), Range(Chain(Linked(mm, ts), r["x"])))
  BY <1>1 DEF Dropped
<1>3. /\ \E rr, hh, dd : /\ Holds(nn, rr, hh, dd)
                         /\ \A o \in Owners : rr[o] = IF o = "x" THEN Placed(mm, ts) ELSE r[o]
                         /\ \A o \in Owners : dd[o] = IF o = "x" THEN ts ELSE ct[o]
      /\ LeadAt(nn, Placed(mm, ts)) = LeadOf(ts, 0) /\ Placed(mm, ts) \in Nat
  BY <1>1, <1>2, Replaced
<1>4. PICK rr, hh, dd : /\ Holds(nn, rr, hh, dd)
                        /\ \A o \in Owners : rr[o] = IF o = "x" THEN Placed(mm, ts) ELSE r[o]
                        /\ \A o \in Owners : dd[o] = IF o = "x" THEN ts ELSE ct[o]
  BY <1>3
<1>5. /\ rr["x"] = x2.head /\ rr["y"] = yy.head
      /\ \A o \in {"out", "left", "right", "new"} : rr[o] = Null
      /\ dd["x"] = ts /\ dd["y"] = ys
  BY <1>1, <1>4 DEF Owners
<1>6. Resting(nn, x2, yy, ts, ys)
  BY <1>4, <1>5, Zenon DEF Resting
<1>. QED  BY <1>3, <1>6

LEMMA AssignY ==
  ASSUME NEW mm, NEW xx, NEW yy, NEW xs, NEW ys, Resting(mm, xx, yy, xs, ys),
         NEW ts \in Seq(TermSpace), NEW nn, nn = Dropped(Linked(mm, ts), yy),
         NEW y2, y2.head = Placed(mm, ts)
  PROVE  /\ Resting(nn, xx, y2, xs, ts)
         /\ LeadAt(nn, Placed(mm, ts)) = LeadOf(ts, 0) /\ Placed(mm, ts) \in Nat
<1>1. PICK r, ch, ct :
        /\ Holds(mm, r, ch, ct)
        /\ r["x"] = xx.head /\ r["y"] = yy.head
        /\ \A o \in {"out", "left", "right", "new"} : r[o] = Null
        /\ ct["x"] = xs /\ ct["y"] = ys
  BY DEF Resting
<1>2. nn = Freed(Linked(mm, ts), Range(Chain(Linked(mm, ts), r["y"])))
  BY <1>1 DEF Dropped
<1>3. /\ \E rr, hh, dd : /\ Holds(nn, rr, hh, dd)
                         /\ \A o \in Owners : rr[o] = IF o = "y" THEN Placed(mm, ts) ELSE r[o]
                         /\ \A o \in Owners : dd[o] = IF o = "y" THEN ts ELSE ct[o]
      /\ LeadAt(nn, Placed(mm, ts)) = LeadOf(ts, 0) /\ Placed(mm, ts) \in Nat
  BY <1>1, <1>2, Replaced
<1>4. PICK rr, hh, dd : /\ Holds(nn, rr, hh, dd)
                        /\ \A o \in Owners : rr[o] = IF o = "y" THEN Placed(mm, ts) ELSE r[o]
                        /\ \A o \in Owners : dd[o] = IF o = "y" THEN ts ELSE ct[o]
  BY <1>3
<1>5. /\ rr["x"] = xx.head /\ rr["y"] = y2.head
      /\ \A o \in {"out", "left", "right", "new"} : rr[o] = Null
      /\ dd["x"] = xs /\ dd["y"] = ts
  BY <1>1, <1>4 DEF Owners
<1>6. Resting(nn, xx, y2, xs, ts)
  BY <1>4, <1>5, Zenon DEF Resting
<1>. QED  BY <1>3, <1>6

(* What the handles hold between calls.                                    *)
LEMMA RestingFacts ==
  ASSUME NEW mm, NEW xx, NEW yy, NEW xs, NEW ys, Resting(mm, xx, yy, xs, ys)
  PROVE  /\ Terms(mm, xx.head) = xs /\ Terms(mm, yy.head) = ys
         /\ Len(Chain(mm, xx.head)) = Len(xs) /\ Len(Chain(mm, yy.head)) = Len(ys)
         /\ LeadAt(mm, xx.head) = LeadOf(xs, 0) /\ LeadAt(mm, yy.head) = LeadOf(ys, 0)
         /\ xx.head = Null <=> xs = << >>
         /\ yy.head = Null <=> ys = << >>
         /\ xx.head \in Nat /\ yy.head \in Nat
         /\ xs \in Seq(TermSpace) /\ ys \in Seq(TermSpace)
<1>1. PICK r, ch, ct :
        /\ Holds(mm, r, ch, ct)
        /\ r["x"] = xx.head /\ r["y"] = yy.head
        /\ \A o \in {"out", "left", "right", "new"} : r[o] = Null
        /\ ct["x"] = xs /\ ct["y"] = ys
  BY DEF Resting
<1>2. "x" \in Owners /\ "y" \in Owners /\ r \in [Owners -> Nat]
  BY <1>1 DEF Owners, Holds, Owned
<1>3. ASSUME NEW l \in Owners
      PROVE  /\ Terms(mm, r[l]) = ct[l] /\ Len(Chain(mm, r[l])) = Len(ct[l])
             /\ LeadAt(mm, r[l]) = LeadOf(ct[l], 0) /\ (r[l] = Null <=> ct[l] = << >>)
             /\ r[l] \in Nat /\ ct[l] \in Seq(TermSpace)
  <2>1. OwnerReads(mm, r[l], ch[l], ct[l])
    BY <1>1, OwnerFacts, Zenon
  <2>. QED  BY <2>1 DEF OwnerReads
<1>. QED  BY <1>1, <1>2, <1>3

(* The end of a merge.                                                     *)
LEMMA FinishStep ==
  ASSUME NEW mm, NEW xx, NEW yy, NEW mg, NEW xs, NEW ys, NEW os, NEW ls, NEW rs,
         Merging(mm, xx, yy, mg, xs, ys, os, ls, rs), mg.left = Null, mg.right = Null,
         NEW nn, nn = Dropped(mm, xx), NEW x2, x2.head = mg.head
  PROVE  /\ Resting(nn, x2, yy, os, ys)
         /\ LeadAt(mm, mg.head) = LeadOf(os, 0) /\ mg.out_len = Len(os)
<1>2. PICK r, ch, ct : MergingBy(mm, xx, yy, mg, xs, ys, os, ls, rs, r, ch, ct)
  BY Zenon DEF Merging
<1>3. /\ Holds(mm, r, ch, ct)
      /\ r["x"] = xx.head /\ r["y"] = yy.head /\ r["out"] = mg.head /\ r["new"] = Null
      /\ ct["x"] = xs /\ ct["y"] = ys /\ ct["out"] = os
      /\ Cursor(mm, mg.left, mg.takes_left, r, ch, ct, "left", ls)
      /\ Cursor(mm, mg.right, mg.takes_right, r, ch, ct, "right", rs)
      /\ mg.out_len = Len(os)
  BY <1>2 DEF MergingBy
<1>4. r["left"] = Null /\ r["right"] = Null
  BY <1>3 DEF Cursor
<1>5. "x" \in Owners /\ "out" \in Owners
  BY DEF Owners
<1>6. r \in [Owners -> Nat] /\ DOMAIN ch = Owners /\ DOMAIN ct = Owners
  BY <1>3 DEF Holds, Owned
<1>7. Chain(mm, xx.head) = ch["x"] /\ LeadAt(mm, mg.head) = LeadOf(os, 0)
  <2>1. Chain(mm, r["x"]) = ch["x"]
    BY <1>3, <1>5, HoldsFacts
  <2>2. LeadAt(mm, r["out"]) = LeadOf(ct["out"], 0)
    BY <1>3, <1>5, HoldsFacts
  <2>. QED  BY <1>3, <2>1, <2>2
<1> DEFINE r2 == [r EXCEPT !["x"] = Null]
           h2 == [ch EXCEPT !["x"] = << >>]
           c2 == [ct EXCEPT !["x"] = << >>]
<1>8. Holds(nn, r2, h2, c2)
  <2>1. nn = Freed(mm, Range(ch["x"]))
    BY <1>7 DEF Dropped
  <2>. QED  BY <1>3, <1>5, <2>1, OwnedWithout, Zenon
<1>9. /\ \A o \in Owners : r2[o] = IF o = "x" THEN Null ELSE r[o]
      /\ \A o \in Owners : c2[o] = IF o = "x" THEN << >> ELSE ct[o]
      /\ r2["x"] = Null /\ DOMAIN r2 = Owners /\ DOMAIN c2 = Owners
  BY <1>5, <1>6
<1> DEFINE r3 == [r2 EXCEPT !["x"] = r2["out"], !["out"] = Null]
           h3 == [h2 EXCEPT !["x"] = h2["out"], !["out"] = << >>]
           c3 == [c2 EXCEPT !["x"] = c2["out"], !["out"] = << >>]
<1> HIDE DEF r2, h2, c2
<1>10. Holds(nn, r3, h3, c3)
  <2>1. "out" # "x"
    OBVIOUS
  <2>. QED  BY <1>5, <1>8, <1>9, <2>1, OwnedMoved, Zenon
<1>11. /\ r3["x"] = x2.head /\ r3["y"] = yy.head
       /\ \A o \in {"out", "left", "right", "new"} : r3[o] = Null
       /\ c3["x"] = os /\ c3["y"] = ys
  BY <1>3, <1>4, <1>9 DEF Owners
<1> HIDE DEF r3, h3, c3
<1>12. Resting(nn, x2, yy, os, ys)
  BY <1>10, <1>11, Zenon DEF Resting
<1>. QED  BY <1>3, <1>7, <1>12

(* The start of a merge: a handle gives up the chain that the call takes.  *)
Begins(mm, xx, yy, x2, y2, mg, own) ==
  /\ mg \in MergeSpace /\ own \in BOOLEAN
  /\ own => ~mg.takes_left /\ ~mg.takes_right
  /\ mg.left = xx.head /\ mg.right = IF own THEN xx.head ELSE yy.head
  /\ mg.head = Null /\ mg.tail = Null /\ mg.out_len = 0
  /\ x2.head = IF mg.takes_left THEN Null ELSE xx.head
  /\ y2.head = IF mg.takes_right THEN Null ELSE yy.head

LEMMA BeginStep ==
  ASSUME NEW mm, NEW xx, NEW yy, NEW xs, NEW ys, Resting(mm, xx, yy, xs, ys),
         NEW x2, NEW y2, NEW mg, NEW own, Begins(mm, xx, yy, x2, y2, mg, own)
  PROVE  Merging(mm, x2, y2, mg, IF mg.takes_left THEN << >> ELSE xs,
                 IF mg.takes_right THEN << >> ELSE ys, << >>, xs, IF own THEN xs ELSE ys)
<1>1. PICK r, ch, ct :
        /\ Holds(mm, r, ch, ct)
        /\ r["x"] = xx.head /\ r["y"] = yy.head
        /\ \A o \in {"out", "left", "right", "new"} : r[o] = Null
        /\ ct["x"] = xs /\ ct["y"] = ys
  BY DEF Resting
<1>2. /\ mg \in MergeSpace /\ own \in BOOLEAN
      /\ mg.takes_left \in BOOLEAN /\ mg.takes_right \in BOOLEAN
      /\ (own => ~mg.takes_left /\ ~mg.takes_right)
      /\ mg.left = xx.head /\ mg.right = (IF own THEN xx.head ELSE yy.head)
      /\ mg.head = Null /\ mg.tail = Null /\ mg.out_len = 0
      /\ x2.head = (IF mg.takes_left THEN Null ELSE xx.head)
      /\ y2.head = (IF mg.takes_right THEN Null ELSE yy.head)
  BY DEF Begins, MergeSpace
<1>3. /\ "x" \in Owners /\ "y" \in Owners /\ "left" \in Owners /\ "right" \in Owners
      /\ "out" \in Owners
  BY DEF Owners
<1>4. r \in [Owners -> Nat] /\ DOMAIN ch = Owners /\ DOMAIN ct = Owners
  BY <1>1 DEF Holds, Owned
<1>5. \E r1, h1, c1 :
        /\ Holds(mm, r1, h1, c1)
        /\ r1["x"] = x2.head /\ r1["y"] = yy.head /\ c1["y"] = ys
        /\ \A o \in {"out", "right", "new"} : r1[o] = Null
        /\ c1["x"] = (IF mg.takes_left THEN << >> ELSE xs)
        /\ IF mg.takes_left THEN r1["left"] = xx.head /\ c1["left"] = xs
           ELSE r1["left"] = Null /\ h1["x"] = ch["x"]
  <2>1. CASE mg.takes_left
    <3> DEFINE r1 == [r EXCEPT !["left"] = r["x"], !["x"] = Null]
               h1 == [ch EXCEPT !["left"] = ch["x"], !["x"] = << >>]
               c1 == [ct EXCEPT !["left"] = ct["x"], !["x"] = << >>]
    <3>1. Holds(mm, r1, h1, c1)
      <4>1. "left" # "x" /\ r["left"] = Null
        BY <1>1
      <4>. QED  BY <1>1, <1>3, <4>1, OwnedMoved, Zenon
    <3>2. /\ r1["x"] = x2.head /\ r1["y"] = yy.head /\ c1["y"] = ys
          /\ \A o \in {"out", "right", "new"} : r1[o] = Null
          /\ c1["x"] = << >> /\ r1["left"] = xx.head /\ c1["left"] = xs
      BY <1>1, <1>2, <1>4, <2>1 DEF Owners
    <3> HIDE DEF r1, h1, c1
    <3>. QED  BY <2>1, <3>1, <3>2
  <2>2. CASE ~mg.takes_left
    BY <2>2, <1>1, <1>2
  <2>. QED  BY <2>1, <2>2
<1>6. PICK r1, h1, c1 :
        /\ Holds(mm, r1, h1, c1)
        /\ r1["x"] = x2.head /\ r1["y"] = yy.head /\ c1["y"] = ys
        /\ \A o \in {"out", "right", "new"} : r1[o] = Null
        /\ c1["x"] = (IF mg.takes_left THEN << >> ELSE xs)
        /\ IF mg.takes_left THEN r1["left"] = xx.head /\ c1["left"] = xs
           ELSE r1["left"] = Null /\ h1["x"] = ch["x"]
  BY <1>5
<1>7. r1 \in [Owners -> Nat] /\ DOMAIN h1 = Owners /\ DOMAIN c1 = Owners
  BY <1>6 DEF Holds, Owned
<1>8. \E r3, h3, c3 :
        /\ Holds(mm, r3, h3, c3)
        /\ r3["x"] = x2.head /\ r3["y"] = y2.head /\ r3["out"] = Null /\ r3["new"] = Null
        /\ c3["x"] = (IF mg.takes_left THEN << >> ELSE xs)
        /\ c3["y"] = (IF mg.takes_right THEN << >> ELSE ys)
        /\ r3["left"] = r1["left"] /\ c3["left"] = c1["left"] /\ h3["x"] = h1["x"]
        /\ IF mg.takes_right THEN r3["right"] = yy.head /\ c3["right"] = ys
           ELSE r3["right"] = Null /\ h3["y"] = h1["y"]
  <2>1. CASE mg.takes_right
    <3> DEFINE r3 == [r1 EXCEPT !["right"] = r1["y"], !["y"] = Null]
               h3 == [h1 EXCEPT !["right"] = h1["y"], !["y"] = << >>]
               c3 == [c1 EXCEPT !["right"] = c1["y"], !["y"] = << >>]
    <3>1. Holds(mm, r3, h3, c3)
      <4>1. "right" # "y" /\ r1["right"] = Null
        BY <1>6
      <4>. QED  BY <1>6, <1>3, <4>1, OwnedMoved, Zenon
    <3>2. /\ r3["x"] = x2.head /\ r3["y"] = y2.head /\ r3["out"] = Null /\ r3["new"] = Null
          /\ c3["x"] = (IF mg.takes_left THEN << >> ELSE xs)
          /\ c3["y"] = << >>
          /\ r3["left"] = r1["left"] /\ c3["left"] = c1["left"] /\ h3["x"] = h1["x"]
          /\ r3["right"] = yy.head /\ c3["right"] = ys
      BY <1>2, <1>6, <1>7, <2>1 DEF Owners
    <3> HIDE DEF r3, h3, c3
    <3>. QED  BY <2>1, <3>1, <3>2
  <2>2. CASE ~mg.takes_right
    <3>1. /\ Holds(mm, r1, h1, c1)
          /\ r1["x"] = x2.head /\ r1["y"] = y2.head /\ r1["out"] = Null /\ r1["new"] = Null
          /\ c1["x"] = (IF mg.takes_left THEN << >> ELSE xs)
          /\ c1["y"] = ys /\ r1["right"] = Null
      BY <2>2, <1>2, <1>6
    <3>. QED  BY <2>2, <3>1
  <2>. QED  BY <2>1, <2>2
<1>9. PICK r3, h3, c3 :
        /\ Holds(mm, r3, h3, c3)
        /\ r3["x"] = x2.head /\ r3["y"] = y2.head /\ r3["out"] = Null /\ r3["new"] = Null
        /\ c3["x"] = (IF mg.takes_left THEN << >> ELSE xs)
        /\ c3["y"] = (IF mg.takes_right THEN << >> ELSE ys)
        /\ r3["left"] = r1["left"] /\ c3["left"] = c1["left"] /\ h3["x"] = h1["x"]
        /\ IF mg.takes_right THEN r3["right"] = yy.head /\ c3["right"] = ys
           ELSE r3["right"] = Null /\ h3["y"] = h1["y"]
  BY <1>8
<1>10. /\ \A o \in Owners : IsChain(mm, r3[o], h3[o])
       /\ \A o \in Owners : c3[o] = TermsOf(mm, h3[o])
       /\ h3["out"] = << >> /\ c3["out"] = << >>
  <2>1. \A o \in Owners : IsChain(mm, r3[o], h3[o]) /\ c3[o] = TermsOf(mm, h3[o])
    BY <1>9 DEF Holds, Owned
  <2>2. r3["out"] = Null /\ "out" \in Owners
    BY <1>3, <1>9
  <2>3. h3["out"] = << >> /\ c3["out"] = << >>
    BY <2>2, <1>9, HoldsFacts
  <2>. QED  BY <2>1, <2>3
<1>11. ASSUME ~mg.takes_left
       PROVE  IsChain(mm, mg.left, h3["x"]) /\ xs = TermsOf(mm, h3["x"]) /\ Borrowed(h3["x"], h3)
  <2>1. r3["x"] = mg.left /\ c3["x"] = xs
    BY <1>11, <1>9, <1>2
  <2>2. Borrowed(h3["x"], h3)
    BY DEF Borrowed
  <2>. QED  BY <2>1, <2>2, <1>3, <1>10
<1>12. Cursor(mm, mg.left, mg.takes_left, r3, h3, c3, "left", xs)
  <2>1. CASE mg.takes_left
    BY <2>1, <1>2, <1>6, <1>9 DEF Cursor
  <2>2. CASE ~mg.takes_left
    <3>1. r3["left"] = Null
      BY <2>2, <1>6, <1>9
    <3>. QED  BY <2>2, <3>1, <1>11 DEF Cursor
  <2>. QED  BY <2>1, <2>2
<1>13. Cursor(mm, mg.right, mg.takes_right, r3, h3, c3, "right", IF own THEN xs ELSE ys)
  <2>1. CASE mg.takes_right
    BY <2>1, <1>2, <1>9 DEF Cursor
  <2>2. CASE ~mg.takes_right /\ own
    <3>1. IsChain(mm, mg.right, h3["x"]) /\ xs = TermsOf(mm, h3["x"]) /\ Borrowed(h3["x"], h3)
      BY <2>2, <1>11, <1>2
    <3>. QED  BY <2>2, <3>1, <1>9 DEF Cursor
  <2>3. CASE ~mg.takes_right /\ ~own
    <3>1. r3["y"] = mg.right /\ c3["y"] = ys
      BY <2>3, <1>9, <1>2
    <3>2. Borrowed(h3["y"], h3)
      BY DEF Borrowed
    <3>3. IsChain(mm, mg.right, h3["y"]) /\ ys = TermsOf(mm, h3["y"])
      BY <3>1, <1>3, <1>10
    <3>. QED  BY <2>3, <3>2, <3>3, <1>9 DEF Cursor
  <2>. QED  BY <2>1, <2>2, <2>3
<1> DEFINE xt == IF mg.takes_left THEN << >> ELSE xs
           yt == IF mg.takes_right THEN << >> ELSE ys
           rt == IF own THEN xs ELSE ys
<1>14. MergingBy(mm, x2, y2, mg, xt, yt, << >>, xs, rt, r3, h3, c3)
  <2>1. mg.tail = EndOf(h3["out"]) /\ mg.out_len = Len(<< >>)
    BY <1>2, <1>10 DEF EndOf
  <2>2. r3["out"] = mg.head /\ c3["x"] = xt /\ c3["y"] = yt /\ c3["out"] = << >>
    BY <1>2, <1>9, <1>10
  <2>3. Cursor(mm, mg.right, mg.takes_right, r3, h3, c3, "right", rt)
    BY <1>13
  <2> HIDE DEF xt, yt, rt
  <2>. QED  BY <1>9, <1>12, <2>1, <2>2, <2>3 DEF MergingBy
<1> HIDE DEF xt, yt, rt
<1>15. Merging(mm, x2, y2, mg, xt, yt, << >>, xs, rt)
  BY <1>2, <1>14, Zenon DEF Merging
<1>. QED  BY <1>15 DEF xt, yt, rt

(* y moves into x, which is zero. *)
LEMMA TakeOver ==
  ASSUME NEW mm, NEW xx, NEW yy, NEW xs, NEW ys, Resting(mm, xx, yy, xs, ys), xx.head = Null
  PROVE  Resting(mm, yy, ZeroPoly, ys, << >>)
<1>1. PICK r, ch, ct :
        /\ Holds(mm, r, ch, ct)
        /\ r["x"] = xx.head /\ r["y"] = yy.head
        /\ \A o \in {"out", "left", "right", "new"} : r[o] = Null
        /\ ct["x"] = xs /\ ct["y"] = ys
  BY DEF Resting
<1> DEFINE rr == [r EXCEPT !["x"] = r["y"], !["y"] = Null]
           hh == [ch EXCEPT !["x"] = ch["y"], !["y"] = << >>]
           cc == [ct EXCEPT !["x"] = ct["y"], !["y"] = << >>]
<1>2. Holds(mm, rr, hh, cc)
  <2>1. "x" # "y" /\ "x" \in Owners /\ "y" \in Owners /\ r["x"] = Null
    BY <1>1 DEF Owners
  <2>. QED  BY <1>1, <2>1, OwnedMoved, Zenon
<1>3. r \in [Owners -> Nat] /\ DOMAIN ct = Owners
  BY <1>1 DEF Holds, Owned
<1>4. /\ rr["x"] = yy.head /\ rr["y"] = ZeroPoly.head
      /\ \A o \in {"out", "left", "right", "new"} : rr[o] = Null
      /\ cc["x"] = ys /\ cc["y"] = << >>
  BY <1>1, <1>3 DEF Owners, ZeroPoly
<1> HIDE DEF rr, hh, cc
<1>. QED  BY <1>2, <1>4, Zenon DEF Resting

(* x loses its first node.                                                 *)
LEMMA HeadDropped ==
  ASSUME NEW mm, NEW xx, NEW yy, NEW xs, NEW ys, Resting(mm, xx, yy, xs, ys), xx.head # Null,
         NEW nn, nn = Freed(mm, {xx.head}), NEW x2, x2.head = mm[xx.head].next
  PROVE  Resting(nn, x2, yy, Tail(xs), ys)
<1>1. PICK r, ch, ct :
        /\ Holds(mm, r, ch, ct)
        /\ r["x"] = xx.head /\ r["y"] = yy.head
        /\ \A o \in {"out", "left", "right", "new"} : r[o] = Null
        /\ ct["x"] = xs /\ ct["y"] = ys
  BY DEF Resting
<1> DEFINE rr == [r EXCEPT !["x"] = mm[r["x"]].next]
           hh == [ch EXCEPT !["x"] = Tail(ch["x"])]
           cc == [ct EXCEPT !["x"] = Tail(ct["x"])]
<1>2. Holds(nn, rr, hh, cc)
  <2>1. "x" \in Owners /\ r["x"] # Null /\ nn = Freed(mm, {r["x"]})
    BY <1>1 DEF Owners
  <2>. QED  BY <1>1, <2>1, OwnedShorter, Zenon
<1>3. r \in [Owners -> Nat] /\ DOMAIN ct = Owners
  BY <1>1 DEF Holds, Owned
<1>4. /\ rr["x"] = x2.head /\ rr["y"] = yy.head
      /\ \A o \in {"out", "left", "right", "new"} : rr[o] = Null
      /\ cc["x"] = Tail(xs) /\ cc["y"] = ys
  BY <1>1, <1>3 DEF Owners
<1> HIDE DEF rr, hh, cc
<1>. QED  BY <1>2, <1>4, Zenon DEF Resting

(* What the caller starts with.                                            *)
LEMMA InitialHeap ==
  ASSUME NEW ts \in Seq(TermSpace), NEW us \in Seq(TermSpace),
         NEW first, first = Linked(<< >>, ts), NEW nn, nn = Linked(first, us),
         NEW xx, xx.head = Placed(<< >>, ts), NEW yy, yy.head = Placed(first, us)
  PROVE  Resting(nn, xx, yy, ts, us)
<1> DEFINE r0 == [o \in Owners |-> Null]
           h0 == [o \in Owners |-> << >>]
           mt == << >>
<1>1. Holds(mt, r0, h0, h0)
  <2>1. DOMAIN mt = {} /\ IsFiniteSet({})
    BY FS_EmptySet
  <2>2. IsMemory(mt)
    <3>1. mt \in [DOMAIN mt -> NodeSpace]
      BY <2>1
    <3>. QED  BY <2>1, <3>1 DEF IsMemory
  <2>3. /\ r0 \in [Owners -> Nat] /\ h0 \in [Owners -> Seq(DOMAIN mt)]
        /\ \A o \in Owners : IsChain(mt, r0[o], h0[o]) /\ TermsOf(mt, h0[o]) = << >>
    BY DEF Null, IsChain, TermsOf
  <2>4. /\ \A k, l \in Owners : \A i \in DOMAIN h0[k], j \in DOMAIN h0[l] :
             h0[k][i] = h0[l][j] => k = l
        /\ \A a \in DOMAIN mt : \E l \in Owners : \E i \in DOMAIN h0[l] : h0[l][i] = a
    <3>1. \A o \in Owners : DOMAIN h0[o] = {}
      OBVIOUS
    <3>. QED  BY <2>1, <3>1
  <2>5. h0 = [o \in Owners |-> TermsOf(mt, h0[o])]
    BY <2>3
  <2> HIDE DEF mt, r0, h0
  <2>6. Owned(mt, r0, h0)
    BY <2>2, <2>3, <2>4 DEF Owned
  <2>. QED  BY <2>5, <2>6 DEF Holds
<1> DEFINE r1 == [r0 EXCEPT !["new"] = Placed(mt, ts)]
           h1 == [h0 EXCEPT !["new"] = FreshCells(mt, Len(ts))]
           c1 == [h0 EXCEPT !["new"] = ts]
           r2 == [r1 EXCEPT !["x"] = r1["new"], !["new"] = Null]
           h2 == [h1 EXCEPT !["x"] = h1["new"], !["new"] = << >>]
           c2 == [c1 EXCEPT !["x"] = c1["new"], !["new"] = << >>]
           r3 == [r2 EXCEPT !["new"] = Placed(first, us)]
           h3 == [h2 EXCEPT !["new"] = FreshCells(first, Len(us))]
           c3 == [c2 EXCEPT !["new"] = us]
           r4 == [r3 EXCEPT !["y"] = r3["new"], !["new"] = Null]
           h4 == [h3 EXCEPT !["y"] = h3["new"], !["new"] = << >>]
           c4 == [c3 EXCEPT !["y"] = c3["new"], !["new"] = << >>]
<1>2. "x" \in Owners /\ "y" \in Owners /\ "new" \in Owners
  BY DEF Owners
<1>3. Holds(first, r1, h1, c1)
  <2>1. r0["new"] = Null
    BY <1>2
  <2> HIDE DEF r0, h0
  <2>. QED  BY <1>1, <2>1, OwnedLinked, Zenon
<1>4. Holds(first, r2, h2, c2)
  <2>1. r1["x"] = Null /\ "new" # "x"
    BY <1>2
  <2> HIDE DEF r1, h1, c1
  <2>. QED  BY <1>2, <1>3, <2>1, OwnedMoved, Zenon
<1>5. Holds(nn, r3, h3, c3)
  <2>1. r2["new"] = Null
    BY <1>2
  <2> HIDE DEF r2, h2, c2
  <2>. QED  BY <1>4, <2>1, OwnedLinked, Zenon
<1>6. Holds(nn, r4, h4, c4)
  <2>1. r3["y"] = Null /\ "new" # "y"
    BY <1>2
  <2> HIDE DEF r3, h3, c3
  <2>. QED  BY <1>2, <1>5, <2>1, OwnedMoved, Zenon
<1>7. /\ r4["x"] = xx.head /\ r4["y"] = yy.head
      /\ \A o \in {"out", "left", "right", "new"} : r4[o] = Null
      /\ c4["x"] = ts /\ c4["y"] = us
  BY DEF Owners
<1> HIDE DEF r4, h4, c4
<1>. QED  BY <1>6, <1>7, Zenon DEF Resting

-----------------------------------------------------------------------------
(* The merge of the flat arrays.                                           *)

TurnSpace == [i : Nat \ {0}, j : Nat \ {0}, out : Seq(TermSpace)]

FirstTurn == [i |-> 1, j |-> 1, out |-> << >>]

(* The turns of MergedTerms. *)
MergeRun(ts, k, us) ==
  CHOOSE f : f = [n \in 0 .. Len(ts) + Len(us) |->
                    IF n = 0 THEN [i |-> 1, j |-> 1, out |-> << >>]
                    ELSE MergeTurn(ts, k, us, f[n - 1])]

LEMMA TurnRecord ==
  ASSUME NEW i \in Nat \ {0}, NEW j \in Nat \ {0}, NEW o \in Seq(TermSpace),
         NEW s, s = [i |-> i, j |-> j, out |-> o]
  PROVE  s \in TurnSpace /\ s.i = i /\ s.j = j /\ s.out = o
BY DEF TurnSpace

LEMMA TurnFields ==
  ASSUME NEW s \in TurnSpace
  PROVE  /\ s.i \in Nat \ {0} /\ s.j \in Nat \ {0} /\ s.out \in Seq(TermSpace)
         /\ s = [i |-> s.i, j |-> s.j, out |-> s.out]
BY DEF TurnSpace

LEMMA OneScaled ==
  ASSUME NEW u \in TermSpace, NEW k \in Int
  PROVE  Scaled(k, <<u>>) = <<Term((k * u.c) % P, u.m)>> /\ Term((k * u.c) % P, u.m) \in TermSpace
<1> DEFINE d == (k * u.c) % P
<1>1. d \in 0 .. P - 1
  <2>1. k * u.c \in Int
    BY PAssumption, TermFacts
  <2>. QED  BY <2>1, ModFacts
<1>2. <<u>>[1] = u /\ DOMAIN <<u>> = {1}
  OBVIOUS
<1>3. Scaled(k, <<u>>) = [n \in {1} |-> [u EXCEPT !.c = d]]
  BY <1>2 DEF Scaled
<1>4. u.m \in Monomial /\ u = [c |-> u.c, m |-> u.m]
  BY DEF TermSpace
<1> HIDE DEF d
<1>5. [u EXCEPT !.c = d] = Term(d, u.m) /\ Term(d, u.m) \in TermSpace
  BY <1>1, <1>4 DEF Term, TermSpace
<1> DEFINE t == Term(d, u.m)
<1>6. Scaled(k, <<u>>) = [n \in {1} |-> t]
  BY <1>3, <1>5
<1> HIDE DEF t
<1>7. [n \in {1} |-> t] = <<t>>
  OBVIOUS
<1>. QED  BY <1>5, <1>6, <1>7 DEF t, d

TurnIs(ts, k, us, s, i, j, o) ==
  /\ MergeTurn(ts, k, us, s) \in TurnSpace
  /\ MergeTurn(ts, k, us, s).i = i /\ MergeTurn(ts, k, us, s).j = j
  /\ MergeTurn(ts, k, us, s).out = o

LEMMA TurnIsOf ==
  ASSUME NEW ts, NEW us, NEW k, NEW s, NEW i \in Nat \ {0}, NEW j \in Nat \ {0},
         NEW o \in Seq(TermSpace), MergeTurn(ts, k, us, s) = [i |-> i, j |-> j, out |-> o]
  PROVE  TurnIs(ts, k, us, s, i, j, o)
<1> DEFINE r == MergeTurn(ts, k, us, s)
<1>1. r = [i |-> i, j |-> j, out |-> o]
  OBVIOUS
<1> HIDE DEF r
<1>2. r \in TurnSpace /\ r.i = i /\ r.j = j /\ r.out = o
  BY <1>1, TurnRecord
<1>. QED  BY <1>2 DEF r, TurnIs

LEMMA TurnGreater ==
  ASSUME NEW ts \in Seq(TermSpace), NEW us \in Seq(TermSpace), NEW k, NEW s \in TurnSpace,
         s.i <= Len(ts), s.j > Len(us) \/ Less(us[s.j].m, ts[s.i].m)
  PROVE  TurnIs(ts, k, us, s, s.i + 1, s.j, Append(s.out, ts[s.i]))
<1>1. s.i \in Nat \ {0} /\ s.j \in Nat \ {0} /\ s.out \in Seq(TermSpace)
  BY TurnFields
<1>2. s.i \in DOMAIN ts /\ ts[s.i] \in TermSpace /\ ts[s.i].m \in Monomial
  <2>1. s.i \in DOMAIN ts
    BY <1>1
  <2>. QED  BY <2>1, TermAt
<1>3. s.j <= Len(us) => ~Less(ts[s.i].m, us[s.j].m) /\ Less(us[s.j].m, ts[s.i].m)
  <2>1. CASE s.j <= Len(us)
    <3>1. s.j \in DOMAIN us
      BY <1>1, <2>1
    <3>2. us[s.j].m \in Monomial /\ Less(us[s.j].m, ts[s.i].m)
      BY <1>1, <2>1, <3>1, TermAt
    <3>. QED  BY <1>2, <3>2, LessTransitive, LessIrreflexive
  <2>. QED  BY <2>1
<1> DEFINE o == Append(s.out, ts[s.i])
<1>4. o \in Seq(TermSpace) /\ s.i + 1 \in Nat \ {0}
  BY <1>1, <1>2
<1>5. MergeTurn(ts, k, us, s) = [i |-> s.i + 1, j |-> s.j, out |-> o]
  BY <1>1, <1>3, Zenon DEF MergeTurn
<1> HIDE DEF o
<1>6. TurnIs(ts, k, us, s, s.i + 1, s.j, o)
  BY <1>1, <1>4, <1>5, TurnIsOf, Zenon
<1>. QED  BY <1>6 DEF o

LEMMA TurnLess ==
  ASSUME NEW ts \in Seq(TermSpace), NEW us \in Seq(TermSpace), NEW k \in Int, NEW s \in TurnSpace,
         s.j <= Len(us), s.i > Len(ts) \/ Less(ts[s.i].m, us[s.j].m)
  PROVE  TurnIs(ts, k, us, s, s.i, s.j + 1, s.out \o <<Term((k * us[s.j].c) % P, us[s.j].m)>>)
<1>1. s.i \in Nat \ {0} /\ s.j \in Nat \ {0} /\ s.out \in Seq(TermSpace)
  BY TurnFields
<1>2. s.j \in DOMAIN us /\ us[s.j] \in TermSpace /\ us[s.j].m \in Monomial
  <2>1. s.j \in DOMAIN us
    BY <1>1
  <2>. QED  BY <2>1, TermAt
<1>3. s.i <= Len(ts) => ~Less(us[s.j].m, ts[s.i].m) /\ Less(ts[s.i].m, us[s.j].m)
  <2>1. CASE s.i <= Len(ts)
    <3>1. s.i \in DOMAIN ts
      BY <1>1, <2>1
    <3>2. ts[s.i].m \in Monomial /\ Less(ts[s.i].m, us[s.j].m)
      BY <1>1, <2>1, <3>1, TermAt
    <3>. QED  BY <1>2, <3>2, LessTransitive, LessIrreflexive
  <2>. QED  BY <2>1
<1> DEFINE o == s.out \o Scaled(k, <<us[s.j]>>)
           t == Term((k * us[s.j].c) % P, us[s.j].m)
<1>4. Scaled(k, <<us[s.j]>>) = <<t>> /\ t \in TermSpace
  BY <1>2, OneScaled, Zenon
<1>5. MergeTurn(ts, k, us, s) = [i |-> s.i, j |-> s.j + 1, out |-> o]
  <2>1. (s.i <= Len(ts)) /\ ~(s.j <= Len(us) /\ (~(s.i <= Len(ts)) \/ Less(ts[s.i].m, us[s.j].m))) <=> FALSE
    BY <1>3
  <2>2. s.i <= Len(ts) /\ (~(s.j <= Len(us)) \/ Less(us[s.j].m, ts[s.i].m)) <=> FALSE
    BY <1>3
  <2>3. s.j <= Len(us) /\ (~(s.i <= Len(ts)) \/ Less(ts[s.i].m, us[s.j].m))
    BY <1>3
  <2>. QED  BY <2>1, <2>2, <2>3, Zenon DEF MergeTurn
<1>6. o = s.out \o <<t>>
  BY <1>4
<1> HIDE DEF o, t
<1>7. o \in Seq(TermSpace) /\ s.j + 1 \in Nat \ {0}
  BY <1>1, <1>4, <1>6
<1>8. TurnIs(ts, k, us, s, s.i, s.j + 1, o)
  BY <1>1, <1>7, <1>5, TurnIsOf, Zenon
<1>. QED  BY <1>6, <1>8 DEF t

TurnSum(ts, k, us, s) == (ts[s.i].c + k * us[s.j].c) % P

LEMMA TurnEqual ==
  ASSUME NEW ts \in Seq(TermSpace), NEW us \in Seq(TermSpace), NEW k \in Int, NEW s \in TurnSpace,
         s.i <= Len(ts), s.j <= Len(us), ts[s.i].m = us[s.j].m
  PROVE  /\ TurnSum(ts, k, us, s) \in 0 .. P - 1
         /\ TurnIs(ts, k, us, s, s.i + 1, s.j + 1,
                   IF TurnSum(ts, k, us, s) = 0 THEN s.out
                   ELSE Append(s.out, Term(TurnSum(ts, k, us, s), ts[s.i].m)))
<1>1. s.i \in Nat \ {0} /\ s.j \in Nat \ {0} /\ s.out \in Seq(TermSpace)
  BY TurnFields
<1>2. /\ s.i \in DOMAIN ts /\ ts[s.i] \in TermSpace /\ ts[s.i].m \in Monomial
      /\ s.j \in DOMAIN us /\ us[s.j] \in TermSpace
  <2>1. s.i \in DOMAIN ts /\ s.j \in DOMAIN us
    BY <1>1
  <2>. QED  BY <2>1, TermAt
<1>3. ~Less(ts[s.i].m, us[s.j].m) /\ ~Less(us[s.j].m, ts[s.i].m)
  BY <1>2, LessIrreflexive
<1> DEFINE d == (ts[s.i].c + k * us[s.j].c) % P
           w == [ts[s.i] EXCEPT !.c = d]
           o == IF d = 0 THEN s.out ELSE Append(s.out, w)
<1>4. d \in 0 .. P - 1
  <2>1. ts[s.i].c \in 0 .. P - 1 /\ us[s.j].c \in 0 .. P - 1 /\ P \in Nat
    BY <1>2, TermFacts, PAssumption
  <2>2. ts[s.i].c + k * us[s.j].c \in Int
    BY <2>1
  <2>. QED  BY <2>2, ModFacts
<1>5. MergeTurn(ts, k, us, s) = [i |-> s.i + 1, j |-> s.j + 1, out |-> o]
  <2>1. o = IF d # 0 THEN Append(s.out, w) ELSE s.out
    OBVIOUS
  <2> DEFINE t == ts[s.i]
             u == us[s.j]
             left == s.i <= Len(ts)
             right == s.j <= Len(us)
             greater == left /\ (~right \/ Less(u.m, t.m))
             less == right /\ (~left \/ Less(t.m, u.m))
  <2>2. MergeTurn(ts, k, us, s) =
          [i   |-> IF left /\ ~less THEN s.i + 1 ELSE s.i,
           j   |-> IF right /\ ~greater THEN s.j + 1 ELSE s.j,
           out |-> IF greater THEN Append(s.out, t)
                   ELSE IF less THEN s.out \o Scaled(k, <<u>>)
                   ELSE IF left /\ d # 0 THEN Append(s.out, w)
                   ELSE s.out]
    BY Zenon DEF MergeTurn
  <2>3. left /\ right /\ ~greater /\ ~less
    BY <1>3
  <2> HIDE DEF left, right, greater, less, t, u, w, d, o
  <2>4. MergeTurn(ts, k, us, s) =
          [i |-> s.i + 1, j |-> s.j + 1, out |-> IF d # 0 THEN Append(s.out, w) ELSE s.out]
    BY <2>2, <2>3, Zenon
  <2>. QED  BY <2>1, <2>4, Zenon
<1>6. w = Term(d, ts[s.i].m) /\ w \in TermSpace
  <2> HIDE DEF d
  <2>. QED  BY <1>2, <1>4 DEF TermSpace, Term
<1> HIDE DEF w
<1>7. o \in Seq(TermSpace) /\ s.i + 1 \in Nat \ {0} /\ s.j + 1 \in Nat \ {0}
  BY <1>1, <1>6
<1>8. o = IF TurnSum(ts, k, us, s) = 0 THEN s.out
          ELSE Append(s.out, Term(TurnSum(ts, k, us, s), ts[s.i].m))
  BY <1>6 DEF TurnSum
<1> HIDE DEF o
<1>9. TurnIs(ts, k, us, s, s.i + 1, s.j + 1, o)
  BY <1>7, <1>5, TurnIsOf, Zenon
<1>. QED  BY <1>4, <1>8, <1>9, Zenon DEF TurnSum

LEMMA TurnOver ==
  ASSUME NEW ts, NEW us, NEW k, NEW s \in TurnSpace, ~(s.i <= Len(ts)), ~(s.j <= Len(us))
  PROVE  TurnIs(ts, k, us, s, s.i, s.j, s.out)
<1>1. MergeTurn(ts, k, us, s) = [i |-> s.i, j |-> s.j, out |-> s.out]
  BY Zenon DEF MergeTurn
<1>2. MergeTurn(ts, k, us, s) = s
  BY <1>1, TurnFields
<1>. QED  BY <1>2 DEF TurnIs

LEMMA TurnTyped ==
  ASSUME NEW ts \in Seq(TermSpace), NEW us \in Seq(TermSpace), NEW k \in Int, NEW s \in TurnSpace
  PROVE  MergeTurn(ts, k, us, s) \in TurnSpace
<1>1. s.i \in Nat \ {0} /\ s.j \in Nat \ {0} /\ Len(ts) \in Nat /\ Len(us) \in Nat
  BY TurnFields
<1>2. CASE s.i <= Len(ts) /\ (s.j > Len(us) \/ Less(us[s.j].m, ts[s.i].m))
  BY <1>2, TurnGreater DEF TurnIs
<1>3. CASE s.j <= Len(us) /\ (s.i > Len(ts) \/ Less(ts[s.i].m, us[s.j].m))
  BY <1>3, TurnLess DEF TurnIs
<1>4. CASE s.i <= Len(ts) /\ s.j <= Len(us) /\ ts[s.i].m = us[s.j].m
  BY <1>4, TurnEqual DEF TurnIs
<1>5. CASE ~(s.i <= Len(ts)) /\ ~(s.j <= Len(us))
  BY <1>5, TurnOver DEF TurnIs
<1>6. s.i <= Len(ts) /\ s.j <= Len(us) =>
        ts[s.i].m = us[s.j].m \/ Less(ts[s.i].m, us[s.j].m) \/ Less(us[s.j].m, ts[s.i].m)
  <2>1. CASE s.i <= Len(ts) /\ s.j <= Len(us)
    <3>1. s.i \in DOMAIN ts /\ s.j \in DOMAIN us
      BY <1>1, <2>1
    <3>2. ts[s.i].m \in Monomial /\ us[s.j].m \in Monomial
      BY <3>1, TermAt
    <3>. QED  BY <3>2, LessTotal
  <2>. QED  BY <2>1
<1>. QED  BY <1>1, <1>2, <1>3, <1>4, <1>5, <1>6

IsRun(ts, k, us, f) ==
  /\ f \in [0 .. Len(ts) + Len(us) -> TurnSpace]
  /\ f[0] = FirstTurn
  /\ \A n \in 1 .. Len(ts) + Len(us) : f[n] = MergeTurn(ts, k, us, f[n - 1])

LEMMA RunFacts ==
  ASSUME NEW ts \in Seq(TermSpace), NEW us \in Seq(TermSpace), NEW k \in Int
  PROVE  /\ IsRun(ts, k, us, MergeRun(ts, k, us))
         /\ MergedTerms(ts, k, us) = MergeRun(ts, k, us)[Len(ts) + Len(us)].out
<1> DEFINE N == Len(ts) + Len(us)
           body(f) == [n \in 0 .. N |-> IF n = 0 THEN [i |-> 1, j |-> 1, out |-> << >>]
                                        ELSE MergeTurn(ts, k, us, f[n - 1])]
           step == [n \in 1 .. N |-> [s \in TurnSpace |-> MergeTurn(ts, k, us, s)]]
<1>1. N \in Nat
  OBVIOUS
<1>2. FirstTurn \in TurnSpace
  BY DEF FirstTurn, TurnSpace
<1>3. \A n \in 1 .. N : \A s \in TurnSpace : step[n][s] \in TurnSpace /\ step[n][s] = MergeTurn(ts, k, us, s)
  BY TurnTyped
<1>4. PICK g \in [0 .. N -> TurnSpace] : g[0] = FirstTurn /\ \A n \in 1 .. N : g[n] = step[n][g[n - 1]]
  <2> HIDE DEF step, N
  <2>1. Steps(N, TurnSpace, step)
    BY <1>3 DEF Steps
  <2>2. \E g : RunsBy(N, TurnSpace, FirstTurn, step, g)
    BY <1>1, <1>2, <2>1, RunExists
  <2>. QED  BY <2>2 DEF RunsBy
<1>5. \A n \in 0 .. N : n = 0 \/ (n \in 1 .. N /\ n - 1 \in 0 .. N)
  BY <1>1
<1>6. \A n \in 1 .. N : g[n] = MergeTurn(ts, k, us, g[n - 1])
  <2> HIDE DEF step, N
  <2>. QED  BY <1>3, <1>4, <1>5
<1>7. g = body(g)
  <2> HIDE DEF step, N
  <2>. QED  BY <1>4, <1>5, <1>6 DEF FirstTurn
<1> DEFINE h == MergeRun(ts, k, us)
<1>8. h = body(h)
  <2>1. h = CHOOSE f : f = body(f)
    BY DEF MergeRun
  <2> HIDE DEF body, h
  <2>. QED  BY <1>7, <2>1
<1>9. /\ DOMAIN h = 0 .. N /\ h = [n \in 0 .. N |-> h[n]] /\ h[0] = FirstTurn
      /\ \A n \in 1 .. N : h[n] = MergeTurn(ts, k, us, h[n - 1])
  <2> HIDE DEF h, N
  <2>1. h = [n \in 0 .. N |-> IF n = 0 THEN FirstTurn ELSE MergeTurn(ts, k, us, h[n - 1])]
    BY <1>8 DEF FirstTurn
  <2>2. DOMAIN h = 0 .. N /\ 0 \in 0 .. N /\ \A n \in 1 .. N : n \in 0 .. N /\ n # 0
    BY <1>1, <2>1
  <2>3. h = [n \in 0 .. N |-> h[n]]
    BY <2>1
  <2>4. h[0] = FirstTurn
    BY <2>1, <2>2
  <2>5. \A n \in 1 .. N : h[n] = MergeTurn(ts, k, us, h[n - 1])
    BY <2>1, <2>2
  <2>. QED  BY <2>2, <2>3, <2>4, <2>5
<1>10. h \in [0 .. N -> TurnSpace]
  <2> DEFINE S == {n \in 0 .. N : h[n] \in TurnSpace}
  <2> HIDE DEF h, step, N
  <2>1. 0 \in S
    BY <1>1, <1>2, <1>9
  <2>2. ASSUME NEW n \in 1 .. N, n - 1 \in S PROVE n \in S
    <3>1. h[n - 1] \in TurnSpace /\ n \in 0 .. N
      BY <1>1, <2>2
    <3>2. h[n] = MergeTurn(ts, k, us, h[n - 1])
      BY <1>9, <2>2
    <3>. QED  BY <3>1, <3>2, TurnTyped
  <2>3. \A n \in 0 .. N : n \in S
    <3> HIDE DEF S
    <3>. QED  BY <1>1, <2>1, <2>2, InductionUpTo
  <2>4. \A n \in 0 .. N : h[n] \in TurnSpace
    BY <2>3
  <2>. QED  BY <1>9, <2>4
<1>11. IsRun(ts, k, us, h)
  <2> HIDE DEF h
  <2>. QED  BY <1>9, <1>10 DEF IsRun
<1>12. MergedTerms(ts, k, us) = MergeRun(ts, k, us)[Len(ts) + Len(us)].out
  BY DEF MergedTerms, MergeRun
<1>. QED  BY <1>11, <1>12

(* After n turns the output is o, and the rests of the operands ls and rs. *)
MergeAt(ts, k, us, n, o, ls, rs) ==
  LET s == MergeRun(ts, k, us)[n]
  IN  /\ n \in 0 .. Len(ts) + Len(us) /\ s \in TurnSpace
      /\ s.i \in 1 .. Len(ts) + 1 /\ s.j \in 1 .. Len(us) + 1
      /\ n <= (s.i - 1) + (s.j - 1)
      /\ o = s.out /\ ls = RestOf(ts, s.i) /\ rs = RestOf(us, s.j)

(* Before the next turn of the merge of the arrays. *)
MergeNext(ts, k, us, n, o, ls, rs, s) ==
  /\ s \in TurnSpace /\ n \in 0 .. Len(ts) + Len(us)
  /\ s.i \in 1 .. Len(ts) + 1 /\ s.j \in 1 .. Len(us) + 1
  /\ n <= (s.i - 1) + (s.j - 1)
  /\ o = s.out /\ ls = RestOf(ts, s.i) /\ rs = RestOf(us, s.j)
  /\ ls # << >> => /\ s.i \in 1 .. Len(ts) /\ ls[1] = ts[s.i]
                   /\ Tail(ls) = RestOf(ts, s.i + 1)
  /\ rs # << >> => /\ s.j \in 1 .. Len(us) /\ rs[1] = us[s.j]
                   /\ Tail(rs) = RestOf(us, s.j + 1)
  /\ ls = << >> => s.i = Len(ts) + 1
  /\ rs = << >> => s.j = Len(us) + 1
  /\ ls # << >> \/ rs # << >> =>
       /\ n + 1 \in 0 .. Len(ts) + Len(us)
       /\ MergeRun(ts, k, us)[n + 1] = MergeTurn(ts, k, us, s)

LEMMA MergeNextFacts ==
  ASSUME NEW ts \in Seq(TermSpace), NEW us \in Seq(TermSpace), NEW k \in Int,
         NEW n, NEW o, NEW ls, NEW rs, MergeAt(ts, k, us, n, o, ls, rs),
         NEW s, s = MergeRun(ts, k, us)[n]
  PROVE  MergeNext(ts, k, us, n, o, ls, rs, s)
<1>1. /\ s \in TurnSpace /\ n \in 0 .. Len(ts) + Len(us)
      /\ s.i \in 1 .. Len(ts) + 1 /\ s.j \in 1 .. Len(us) + 1
      /\ n <= (s.i - 1) + (s.j - 1)
      /\ o = s.out /\ ls = RestOf(ts, s.i) /\ rs = RestOf(us, s.j)
  BY Zenon DEF MergeAt
<1>2. Len(ts) \in Nat /\ Len(us) \in Nat
  OBVIOUS
<1>3. (ls = << >> <=> s.i = Len(ts) + 1) /\ (rs = << >> <=> s.j = Len(us) + 1)
  BY <1>1, RestOfFacts
<1>4. ls # << >> => s.i \in 1 .. Len(ts) /\ ls[1] = ts[s.i] /\ Tail(ls) = RestOf(ts, s.i + 1)
  <2>1. SUFFICES ASSUME ls # << >> PROVE s.i \in 1 .. Len(ts) /\ ls[1] = ts[s.i] /\ Tail(ls) = RestOf(ts, s.i + 1)
    OBVIOUS
  <2>2. s.i \in 1 .. Len(ts)
    BY <1>1, <1>2, <1>3, <2>1
  <2>. QED  BY <2>2, <1>1, RestStep
<1>5. rs # << >> => s.j \in 1 .. Len(us) /\ rs[1] = us[s.j] /\ Tail(rs) = RestOf(us, s.j + 1)
  <2>1. SUFFICES ASSUME rs # << >> PROVE s.j \in 1 .. Len(us) /\ rs[1] = us[s.j] /\ Tail(rs) = RestOf(us, s.j + 1)
    OBVIOUS
  <2>2. s.j \in 1 .. Len(us)
    BY <1>1, <1>2, <1>3, <2>1
  <2>. QED  BY <2>2, <1>1, RestStep
<1>6. ls # << >> \/ rs # << >> => /\ n + 1 \in 0 .. Len(ts) + Len(us)
                                  /\ MergeRun(ts, k, us)[n + 1] = MergeTurn(ts, k, us, s)
  <2>1. SUFFICES ASSUME ls # << >> \/ rs # << >>
                 PROVE  /\ n + 1 \in 0 .. Len(ts) + Len(us)
                        /\ MergeRun(ts, k, us)[n + 1] = MergeTurn(ts, k, us, s)
    OBVIOUS
  <2>2. n + 1 \in 1 .. Len(ts) + Len(us) /\ (n + 1) - 1 = n
    <3> DEFINE i == s.i
               j == s.j
    <3>1. /\ n \in 0 .. Len(ts) + Len(us) /\ i \in 1 .. Len(ts) + 1 /\ j \in 1 .. Len(us) + 1
          /\ n <= (i - 1) + (j - 1) /\ (i \in 1 .. Len(ts) \/ j \in 1 .. Len(us))
      BY <1>1, <1>4, <1>5, <2>1, Zenon
    <3> HIDE DEF i, j
    <3>. QED  BY ONLY <1>2, <3>1
  <2>3. \A q \in 1 .. Len(ts) + Len(us) :
          MergeRun(ts, k, us)[q] = MergeTurn(ts, k, us, MergeRun(ts, k, us)[q - 1])
    BY RunFacts DEF IsRun
  <2>4. MergeRun(ts, k, us)[n + 1] = MergeTurn(ts, k, us, MergeRun(ts, k, us)[n])
    BY <2>2, <2>3
  <2>. QED  BY <2>2, <2>4, <1>2
<1>. QED  BY <1>1, <1>3, <1>4, <1>5, <1>6, Zenon DEF MergeNext

(* One turn later. *)
LEMMA MergeAfter ==
  ASSUME NEW ts \in Seq(TermSpace), NEW us \in Seq(TermSpace), NEW k \in Int,
         NEW n, NEW o, NEW ls, NEW rs, NEW s, MergeNext(ts, k, us, n, o, ls, rs, s),
         ls # << >> \/ rs # << >>,
         NEW i, NEW j, NEW p, TurnIs(ts, k, us, s, i, j, p),
         i \in 1 .. Len(ts) + 1, j \in 1 .. Len(us) + 1, i + (j) >= s.i + s.j + 1
  PROVE  MergeAt(ts, k, us, n + 1, p, RestOf(ts, i), RestOf(us, j))
<1> DEFINE r == MergeRun(ts, k, us)[n + 1]
<1>1. r = MergeTurn(ts, k, us, s) /\ n + 1 \in 0 .. Len(ts) + Len(us)
  BY DEF MergeNext
<1>2. r \in TurnSpace /\ r.i = i /\ r.j = j /\ r.out = p
  BY <1>1 DEF TurnIs
<1>3. n + 1 <= (i - 1) + (j - 1)
  <2> DEFINE a == s.i
             b == s.j
  <2>1. /\ n <= (a - 1) + (b - 1) /\ n \in 0 .. Len(ts) + Len(us) /\ a \in 1 .. Len(ts) + 1
        /\ b \in 1 .. Len(us) + 1 /\ i + j >= a + b + 1
    BY Zenon DEF MergeNext
  <2>2. /\ i \in 1 .. Len(ts) + 1 /\ j \in 1 .. Len(us) + 1 /\ Len(ts) \in Nat /\ Len(us) \in Nat
    OBVIOUS
  <2> HIDE DEF a, b
  <2>. QED  BY ONLY <2>1, <2>2
<1>. QED  BY <1>1, <1>2, <1>3 DEF MergeAt

LEMMA MergeStart ==
  ASSUME NEW ts \in Seq(TermSpace), NEW us \in Seq(TermSpace), NEW k \in Int
  PROVE  MergeAt(ts, k, us, 0, << >>, ts, us)
<1> DEFINE s == MergeRun(ts, k, us)[0]
<1>1. s = FirstTurn
  BY RunFacts DEF IsRun
<1>2. /\ s.i = 1 /\ s.j = 1 /\ s.out = << >> /\ s \in TurnSpace
  BY <1>1 DEF FirstTurn, TurnSpace
<1>3. RestOf(ts, 1) = ts /\ RestOf(us, 1) = us
  BY RestAll
<1>4. 0 \in 0 .. Len(ts) + Len(us) /\ 1 \in 1 .. Len(ts) + 1 /\ 1 \in 1 .. Len(us) + 1
  OBVIOUS
<1>. QED  BY <1>2, <1>3, <1>4 DEF MergeAt

LEMMA MergeGreater ==
  ASSUME NEW ts \in Seq(TermSpace), NEW us \in Seq(TermSpace), NEW k \in Int,
         NEW n, NEW o, NEW ls, NEW rs, MergeAt(ts, k, us, n, o, ls, rs),
         ls # << >>, rs = << >> \/ Less(rs[1].m, ls[1].m)
  PROVE  MergeAt(ts, k, us, n + 1, Append(o, ls[1]), Tail(ls), rs)
<1> DEFINE s == MergeRun(ts, k, us)[n]
<1>1. MergeNext(ts, k, us, n, o, ls, rs, s)
  BY MergeNextFacts
<1> HIDE DEF s
<1>2. /\ s \in TurnSpace /\ s.i \in 1 .. Len(ts) /\ ls[1] = ts[s.i] /\ Tail(ls) = RestOf(ts, s.i + 1)
      /\ s.j \in 1 .. Len(us) + 1 /\ rs = RestOf(us, s.j) /\ o = s.out
      /\ rs # << >> => rs[1] = us[s.j] /\ s.j \in 1 .. Len(us)
      /\ rs = << >> => s.j = Len(us) + 1
  BY <1>1, Zenon DEF MergeNext
<1>7. /\ s.i + 1 \in 1 .. Len(ts) + 1 /\ s.j \in 1 .. Len(us) + 1 /\ s.i + 1 + (s.j) >= s.i + s.j + 1
      /\ (s.i \in 1 .. Len(ts) => s.i <= Len(ts)) /\ (s.j \in 1 .. Len(us) => s.j <= Len(us))
      /\ (s.i = Len(ts) + 1 => s.i > Len(ts)) /\ (s.j = Len(us) + 1 => s.j > Len(us))
  <2> DEFINE a == s.i
             b == s.j
  <2>1. a \in 1 .. Len(ts) /\ b \in 1 .. Len(us) + 1
    BY <1>2, Zenon
  <2>2. Len(ts) \in Nat /\ Len(us) \in Nat
    OBVIOUS
  <2> HIDE DEF a, b
  <2>3. /\ a + 1 \in 1 .. Len(ts) + 1 /\ b \in 1 .. Len(us) + 1 /\ a + 1 + (b) >= a + b + 1
        /\ (a \in 1 .. Len(ts) => a <= Len(ts)) /\ (b \in 1 .. Len(us) => b <= Len(us))
        /\ (a = Len(ts) + 1 => a > Len(ts)) /\ (b = Len(us) + 1 => b > Len(us))
    BY ONLY <2>1, <2>2
  <2>. QED  BY <2>3, Zenon DEF a, b
<1>3. s.j > Len(us) \/ Less(us[s.j].m, ts[s.i].m)
  BY <1>2, <1>7, Zenon
<1>4. TurnIs(ts, k, us, s, s.i + 1, s.j, Append(s.out, ts[s.i]))
  BY <1>2, <1>3, <1>7, TurnGreater, Zenon
<1>5. MergeAt(ts, k, us, n + 1, Append(s.out, ts[s.i]), RestOf(ts, s.i + 1), RestOf(us, s.j))
  BY <1>1, <1>2, <1>4, <1>7, MergeAfter, Zenon
<1>. QED  BY <1>2, <1>5

LEMMA MergeLess ==
  ASSUME NEW ts \in Seq(TermSpace), NEW us \in Seq(TermSpace), NEW k \in Int,
         NEW n, NEW o, NEW ls, NEW rs, MergeAt(ts, k, us, n, o, ls, rs),
         rs # << >>, ls = << >> \/ Less(ls[1].m, rs[1].m)
  PROVE  MergeAt(ts, k, us, n + 1, o \o <<Term((k * rs[1].c) % P, rs[1].m)>>, ls, Tail(rs))
<1> DEFINE s == MergeRun(ts, k, us)[n]
<1>1. MergeNext(ts, k, us, n, o, ls, rs, s)
  BY MergeNextFacts
<1> HIDE DEF s
<1>2. /\ s \in TurnSpace /\ s.j \in 1 .. Len(us) /\ rs[1] = us[s.j] /\ Tail(rs) = RestOf(us, s.j + 1)
      /\ s.i \in 1 .. Len(ts) + 1 /\ ls = RestOf(ts, s.i) /\ o = s.out
      /\ ls # << >> => ls[1] = ts[s.i] /\ s.i \in 1 .. Len(ts)
      /\ ls = << >> => s.i = Len(ts) + 1
  BY <1>1, Zenon DEF MergeNext
<1>7. /\ s.i \in 1 .. Len(ts) + 1 /\ s.j + 1 \in 1 .. Len(us) + 1 /\ s.i + (s.j + 1) >= s.i + s.j + 1
      /\ (s.i \in 1 .. Len(ts) => s.i <= Len(ts)) /\ (s.j \in 1 .. Len(us) => s.j <= Len(us))
      /\ (s.i = Len(ts) + 1 => s.i > Len(ts)) /\ (s.j = Len(us) + 1 => s.j > Len(us))
  <2> DEFINE a == s.i
             b == s.j
  <2>1. a \in 1 .. Len(ts) + 1 /\ b \in 1 .. Len(us)
    BY <1>2, Zenon
  <2>2. Len(ts) \in Nat /\ Len(us) \in Nat
    OBVIOUS
  <2> HIDE DEF a, b
  <2>3. /\ a \in 1 .. Len(ts) + 1 /\ b + 1 \in 1 .. Len(us) + 1 /\ a + (b + 1) >= a + b + 1
        /\ (a \in 1 .. Len(ts) => a <= Len(ts)) /\ (b \in 1 .. Len(us) => b <= Len(us))
        /\ (a = Len(ts) + 1 => a > Len(ts)) /\ (b = Len(us) + 1 => b > Len(us))
    BY ONLY <2>1, <2>2
  <2>. QED  BY <2>3, Zenon DEF a, b
<1>3. s.i > Len(ts) \/ Less(ts[s.i].m, us[s.j].m)
  BY <1>2, <1>7, Zenon
<1> DEFINE p == s.out \o <<Term((k * us[s.j].c) % P, us[s.j].m)>>
<1>4. TurnIs(ts, k, us, s, s.i, s.j + 1, p)
  BY <1>2, <1>3, <1>7, TurnLess, Zenon
<1>6. p = o \o <<Term((k * rs[1].c) % P, rs[1].m)>>
  BY <1>2
<1> HIDE DEF p
<1>5. MergeAt(ts, k, us, n + 1, p, RestOf(ts, s.i), RestOf(us, s.j + 1))
  <2>1. /\ s.i \in 1 .. Len(ts) + 1 /\ s.j + 1 \in 1 .. Len(us) + 1
        /\ s.i + (s.j + 1) >= s.i + s.j + 1 /\ (ls # << >> \/ rs # << >>)
    BY <1>7, Zenon
  <2>. QED  BY ONLY <1>1, <1>4, <2>1, ts \in Seq(TermSpace), us \in Seq(TermSpace), k \in Int, MergeAfter, Zenon
<1>. QED  BY <1>2, <1>5, <1>6

LEMMA MergeEqual ==
  ASSUME NEW ts \in Seq(TermSpace), NEW us \in Seq(TermSpace), NEW k \in Int,
         NEW n, NEW o, NEW ls, NEW rs, MergeAt(ts, k, us, n, o, ls, rs),
         ls # << >>, rs # << >>, ls[1].m = rs[1].m,
         NEW d, d = (ls[1].c + k * rs[1].c) % P
  PROVE  MergeAt(ts, k, us, n + 1, IF d = 0 THEN o ELSE Append(o, Term(d, ls[1].m)), Tail(ls), Tail(rs))
<1> DEFINE s == MergeRun(ts, k, us)[n]
<1>1. MergeNext(ts, k, us, n, o, ls, rs, s)
  BY MergeNextFacts
<1> HIDE DEF s
<1>2. /\ s \in TurnSpace /\ s.i \in 1 .. Len(ts) /\ ls[1] = ts[s.i] /\ Tail(ls) = RestOf(ts, s.i + 1)
      /\ s.j \in 1 .. Len(us) /\ rs[1] = us[s.j] /\ Tail(rs) = RestOf(us, s.j + 1) /\ o = s.out
  BY <1>1, Zenon DEF MergeNext
<1>7. /\ s.i + 1 \in 1 .. Len(ts) + 1 /\ s.j + 1 \in 1 .. Len(us) + 1 /\ s.i + 1 + (s.j + 1) >= s.i + s.j + 1
      /\ (s.i \in 1 .. Len(ts) => s.i <= Len(ts)) /\ (s.j \in 1 .. Len(us) => s.j <= Len(us))
      /\ (s.i = Len(ts) + 1 => s.i > Len(ts)) /\ (s.j = Len(us) + 1 => s.j > Len(us))
  <2> DEFINE a == s.i
             b == s.j
  <2>1. a \in 1 .. Len(ts) /\ b \in 1 .. Len(us)
    BY <1>2, Zenon
  <2>2. Len(ts) \in Nat /\ Len(us) \in Nat
    OBVIOUS
  <2> HIDE DEF a, b
  <2>3. /\ a + 1 \in 1 .. Len(ts) + 1 /\ b + 1 \in 1 .. Len(us) + 1 /\ a + 1 + (b + 1) >= a + b + 1
        /\ (a \in 1 .. Len(ts) => a <= Len(ts)) /\ (b \in 1 .. Len(us) => b <= Len(us))
        /\ (a = Len(ts) + 1 => a > Len(ts)) /\ (b = Len(us) + 1 => b > Len(us))
    BY ONLY <2>1, <2>2
  <2>. QED  BY <2>3, Zenon DEF a, b
<1>3. d = TurnSum(ts, k, us, s)
  BY <1>2 DEF TurnSum
<1> DEFINE p == IF d = 0 THEN o ELSE Append(o, Term(d, ls[1].m))
<1>4. p = IF TurnSum(ts, k, us, s) = 0 THEN s.out
          ELSE Append(s.out, Term(TurnSum(ts, k, us, s), ts[s.i].m))
  BY <1>2, <1>3
<1> HIDE DEF p
<1>5. TurnIs(ts, k, us, s, s.i + 1, s.j + 1, p)
  <2>1. ts[s.i].m = us[s.j].m
    BY <1>2
  <2>2. TurnIs(ts, k, us, s, s.i + 1, s.j + 1,
               IF TurnSum(ts, k, us, s) = 0 THEN s.out
               ELSE Append(s.out, Term(TurnSum(ts, k, us, s), ts[s.i].m)))
    BY <1>2, <1>7, <2>1, TurnEqual, Zenon
  <2>. QED  BY <1>4, <2>2
<1>6. MergeAt(ts, k, us, n + 1, p, RestOf(ts, s.i + 1), RestOf(us, s.j + 1))
  BY <1>1, <1>2, <1>5, <1>7, MergeAfter, Zenon
<1>. QED  BY <1>2, <1>6 DEF p

LEMMA MergeAtTyped ==
  ASSUME NEW ts \in Seq(TermSpace), NEW us \in Seq(TermSpace), NEW k \in Int,
         NEW n, NEW o, NEW ls, NEW rs, MergeAt(ts, k, us, n, o, ls, rs)
  PROVE  /\ n \in 0 .. Len(ts) + Len(us)
         /\ o \in Seq(TermSpace) /\ ls \in Seq(TermSpace) /\ rs \in Seq(TermSpace)
         /\ o = MergeRun(ts, k, us)[n].out
<1> DEFINE s == MergeRun(ts, k, us)[n]
<1>1. MergeNext(ts, k, us, n, o, ls, rs, s)
  BY MergeNextFacts
<1>2. o = s.out
  BY <1>1, Zenon DEF MergeNext
<1>3. o = MergeRun(ts, k, us)[n].out
  BY <1>2
<1> HIDE DEF s
<1>4. /\ n \in 0 .. Len(ts) + Len(us) /\ s \in TurnSpace
      /\ s.i \in 1 .. Len(ts) + 1 /\ s.j \in 1 .. Len(us) + 1
      /\ o = s.out /\ ls = RestOf(ts, s.i) /\ rs = RestOf(us, s.j)
  BY <1>1, Zenon DEF MergeNext
<1>5. o \in Seq(TermSpace)
  BY <1>4, TurnFields
<1>6. ls \in Seq(TermSpace) /\ rs \in Seq(TermSpace)
  BY <1>4, RestOfFacts
<1>. QED  BY <1>3, <1>4, <1>5, <1>6

(* Nothing is left to merge. *)
LEMMA MergeOver ==
  ASSUME NEW ts \in Seq(TermSpace), NEW us \in Seq(TermSpace), NEW k \in Int,
         NEW n, NEW o, MergeAt(ts, k, us, n, o, << >>, << >>)
  PROVE  MergedTerms(ts, k, us) = o
<1> DEFINE N == Len(ts) + Len(us)
           f == MergeRun(ts, k, us)
           Over(s) == s \in TurnSpace /\ s.out = o /\ ~(s.i <= Len(ts)) /\ ~(s.j <= Len(us))
           S == {q \in 0 .. N - n : Over(f[n + q])}
<1>1. n \in 0 .. N /\ N \in Nat /\ Len(ts) \in Nat /\ Len(us) \in Nat
  BY MergeAtTyped
<1>2. Over(f[n + 0])
  <2> DEFINE s == f[n]
  <2>1. MergeNext(ts, k, us, n, o, << >>, << >>, s)
    BY MergeNextFacts
  <2>2. s \in TurnSpace /\ o = s.out /\ s.i = Len(ts) + 1 /\ s.j = Len(us) + 1
    BY <2>1, Zenon DEF MergeNext
  <2>3. n + 0 = n
    BY <1>1
  <2> HIDE DEF s
  <2>4. Over(s)
    BY <1>1, <2>2
  <2>. QED  BY <2>3, <2>4 DEF s
<1>3. ASSUME NEW q \in 1 .. N - n, q - 1 \in S PROVE q \in S
  <2>1. Over(f[n + (q - 1)])
    BY <1>3
  <2>2. n + q \in 1 .. N /\ (n + q) - 1 = n + (q - 1)
    BY <1>1
  <2>3. f[n + q] = MergeTurn(ts, k, us, f[n + (q - 1)])
    <3>1. \A p \in 1 .. N : f[p] = MergeTurn(ts, k, us, f[p - 1])
      BY RunFacts DEF IsRun
    <3>. QED  BY <2>2, <3>1
  <2> DEFINE s == f[n + (q - 1)]
             r == f[n + q]
  <2>4. Over(s) /\ r = MergeTurn(ts, k, us, s)
    BY <2>1, <2>3
  <2> HIDE DEF s, r, f
  <2>5. TurnIs(ts, k, us, s, s.i, s.j, s.out)
    BY <2>4, TurnOver
  <2>6. Over(r)
    BY <2>4, <2>5 DEF TurnIs
  <2>7. q \in 0 .. N - n
    BY <1>1
  <2>. QED  BY <2>6, <2>7 DEF r
<1>4. \A q \in 0 .. N - n : q \in S
  <2>1. 0 \in S /\ N - n \in Nat
    BY <1>1, <1>2
  <2> HIDE DEF S
  <2>. QED  BY <1>3, <2>1, InductionUpTo
<1>5. f[N].out = o
  <2>1. N - n \in 0 .. N - n /\ n + (N - n) = N
    BY <1>1
  <2>2. Over(f[N])
    <3>1. N - n \in S
      BY <1>4, <2>1
    <3>2. Over(f[n + (N - n)])
      BY <3>1
    <3> HIDE DEF N, f
    <3>. QED  BY <2>1, <3>2
  <2>. QED  BY <2>2
<1>. QED  BY <1>5, RunFacts

(* One operand is used up: what is left of the other one follows. *)
LEMMA MergeEndLeft ==
  ASSUME NEW ts \in Seq(TermSpace), NEW us \in Seq(TermSpace), NEW k \in Int,
         NEW n, NEW o, NEW ls, MergeAt(ts, k, us, n, o, ls, << >>)
  PROVE  MergedTerms(ts, k, us) = o \o ls
<1> DEFINE Left(q, p, w) == /\ MergeAt(ts, k, us, n + q, p, w, << >>)
                            /\ Len(w) = Len(ls) - q /\ p \o w = o \o ls
           S == {q \in 0 .. Len(ls) : \E p, w : Left(q, p, w)}
<1>1. n \in Nat /\ o \in Seq(TermSpace) /\ ls \in Seq(TermSpace) /\ Len(ls) \in Nat
  BY MergeAtTyped
<1>2. 0 \in S
  <2>1. Left(0, o, ls)
    <3>1. n + 0 = n /\ Len(ls) - 0 = Len(ls)
      BY <1>1
    <3>. QED  BY <3>1
  <2>2. 0 \in 0 .. Len(ls)
    BY <1>1
  <2> HIDE DEF Left
  <2>. QED  BY <2>1, <2>2
<1>3. ASSUME NEW q \in 1 .. Len(ls), q - 1 \in S PROVE q \in S
  <2>1. PICK p, w : Left(q - 1, p, w)
    BY <1>3
  <2>2. p \in Seq(TermSpace) /\ w \in Seq(TermSpace)
    BY <2>1, MergeAtTyped
  <2>3. w # << >>
    BY <1>1, <2>1, <2>2
  <2>4. MergeAt(ts, k, us, (n + (q - 1)) + 1, Append(p, w[1]), Tail(w), << >>)
    BY <2>1, <2>3, MergeGreater
  <2>5. (n + (q - 1)) + 1 = n + q
    BY <1>1
  <2>6. Append(p, w[1]) \o Tail(w) = p \o w /\ Len(Tail(w)) = Len(w) - 1
    BY <2>2, <2>3, AppendHead
  <2>7. Len(w) - 1 = Len(ls) - q
    BY <1>1, <2>1
  <2>8. Left(q, Append(p, w[1]), Tail(w))
    BY <2>1, <2>4, <2>5, <2>6, <2>7
  <2>9. q \in 0 .. Len(ls)
    BY <1>1
  <2> HIDE DEF Left
  <2>. QED  BY <2>8, <2>9
<1>4. \A q \in 0 .. Len(ls) : q \in S
  <2> HIDE DEF S
  <2>. QED  BY <1>1, <1>2, <1>3, InductionUpTo
<1>5. PICK p, w : Left(Len(ls), p, w)
  <2>1. Len(ls) \in 0 .. Len(ls)
    BY <1>1
  <2>2. Len(ls) \in S
    BY <1>4, <2>1
  <2> HIDE DEF Left
  <2>. QED  BY <2>2
<1>6. p \in Seq(TermSpace) /\ w \in Seq(TermSpace)
  BY <1>5, MergeAtTyped
<1>7. w = << >>
  BY <1>1, <1>5, <1>6
<1>8. p = o \o ls
  <2>1. p \o << >> = p
    BY <1>6
  <2>. QED  BY <1>5, <1>7, <2>1
<1>9. MergeAt(ts, k, us, n + Len(ls), p, << >>, << >>)
  BY <1>5, <1>7
<1>10. MergedTerms(ts, k, us) = p
  BY <1>9, MergeOver
<1>. QED  BY <1>8, <1>10

LEMMA MergeEndRight ==
  ASSUME NEW ts \in Seq(TermSpace), NEW us \in Seq(TermSpace),
         NEW n, NEW o, NEW rs, MergeAt(ts, 1, us, n, o, << >>, rs)
  PROVE  MergedTerms(ts, 1, us) = o \o rs
<1> DEFINE Left(q, p, w) == /\ MergeAt(ts, 1, us, n + q, p, << >>, w)
                            /\ Len(w) = Len(rs) - q /\ p \o w = o \o rs
           S == {q \in 0 .. Len(rs) : \E p, w : Left(q, p, w)}
<1>1. n \in Nat /\ o \in Seq(TermSpace) /\ rs \in Seq(TermSpace) /\ Len(rs) \in Nat
  BY MergeAtTyped
<1>2. 0 \in S
  <2>1. Left(0, o, rs)
    <3>1. n + 0 = n /\ Len(rs) - 0 = Len(rs)
      BY <1>1
    <3>. QED  BY <3>1
  <2>2. 0 \in 0 .. Len(rs)
    BY <1>1
  <2> HIDE DEF Left
  <2>. QED  BY <2>1, <2>2
<1>3. ASSUME NEW q \in 1 .. Len(rs), q - 1 \in S PROVE q \in S
  <2>1. PICK p, w : Left(q - 1, p, w)
    BY <1>3
  <2>2. p \in Seq(TermSpace) /\ w \in Seq(TermSpace)
    BY <2>1, MergeAtTyped
  <2>3. w # << >>
    BY <1>1, <2>1, <2>2
  <2>4. MergeAt(ts, 1, us, (n + (q - 1)) + 1, p \o <<Term((1 * w[1].c) % P, w[1].m)>>, << >>, Tail(w))
    BY <2>1, <2>3, MergeLess
  <2>5. (n + (q - 1)) + 1 = n + q
    BY <1>1
  <2>6. Append(p, w[1]) \o Tail(w) = p \o w /\ Len(Tail(w)) = Len(w) - 1 /\ w[1] \in TermSpace
    BY <2>2, <2>3, AppendHead
  <2>7. Len(w) - 1 = Len(rs) - q
    BY <1>1, <2>1
  <2>10. p \o <<Term((1 * w[1].c) % P, w[1].m)>> = Append(p, w[1])
    <3>1. w[1].c \in 0 .. P - 1
      BY <2>6, TermFacts
    <3>2. (1 * w[1].c) % P = w[1].c
      <4>1. 1 * w[1].c = w[1].c
        BY <3>1, PAssumption
      <4>. QED  BY <3>1, <4>1, ModSmall
    <3>3. Term(w[1].c, w[1].m) = w[1]
      BY <2>6 DEF TermSpace, Term
    <3>4. p \o <<w[1]>> = Append(p, w[1])
      BY <2>2, <2>6
    <3>. QED  BY <3>2, <3>3, <3>4
  <2>8. Left(q, Append(p, w[1]), Tail(w))
    BY <2>1, <2>4, <2>5, <2>6, <2>7, <2>10
  <2>9. q \in 0 .. Len(rs)
    BY <1>1
  <2> HIDE DEF Left
  <2>. QED  BY <2>8, <2>9
<1>4. \A q \in 0 .. Len(rs) : q \in S
  <2> HIDE DEF S
  <2>. QED  BY <1>1, <1>2, <1>3, InductionUpTo
<1>5. PICK p, w : Left(Len(rs), p, w)
  <2>1. Len(rs) \in 0 .. Len(rs)
    BY <1>1
  <2>2. Len(rs) \in S
    BY <1>4, <2>1
  <2> HIDE DEF Left
  <2>. QED  BY <2>2
<1>6. p \in Seq(TermSpace) /\ w \in Seq(TermSpace)
  BY <1>5, MergeAtTyped
<1>7. w = << >>
  BY <1>1, <1>5, <1>6
<1>8. p = o \o rs
  <2>1. p \o << >> = p
    BY <1>6
  <2>. QED  BY <1>5, <1>7, <2>1
<1>9. MergeAt(ts, 1, us, n + Len(rs), p, << >>, << >>)
  BY <1>5, <1>7
<1>10. MergedTerms(ts, 1, us) = p
  BY <1>9, MergeOver
<1>. QED  BY <1>8, <1>10

LEMMA MergedCanonical ==
  ASSUME NEW ts, IsTerms(ts), NEW us, IsTerms(us), NEW k \in 1 .. P - 1
  PROVE  IsTerms(MergedTerms(ts, k, us))
<1> DEFINE N == Len(ts) + Len(us)
           At(q, o, l, r) == MergeAt(ts, k, us, q, o, l, r) /\ Descends(o, l, r)
           S == {q \in 0 .. N : IsTerms(MergedTerms(ts, k, us)) \/ \E o, l, r : At(q, o, l, r)}
<1>1. ts \in Seq(TermSpace) /\ us \in Seq(TermSpace) /\ k \in Int /\ N \in Nat /\ P \in Nat
  BY PAssumption DEF IsTerms
<1>2. 0 \in S
  <2>1. MergeAt(ts, k, us, 0, << >>, ts, us)
    BY <1>1, MergeStart
  <2>2. IsTerms(<< >>)
    BY DEF IsTerms, CanonicalTerms
  <2>3. Descends(<< >>, ts, us)
    BY <2>2 DEF Descends, EndsAbove
  <2>4. At(0, << >>, ts, us)
    BY <2>1, <2>3
  <2>. QED  BY <1>1, <2>4
<1>3. ASSUME NEW q \in 1 .. N, q - 1 \in S, ~IsTerms(MergedTerms(ts, k, us)) PROVE \E o, l, r : At(q, o, l, r)
  <2>1. PICK o, l, r : At(q - 1, o, l, r)
    BY <1>3
  <2>2. (q - 1) + 1 = q
    OBVIOUS
  <2>3. IsTerms(o) /\ IsTerms(l) /\ IsTerms(r) /\ EndsAbove(o, l) /\ EndsAbove(o, r)
    BY <2>1 DEF Descends
  <2>4. ~(l = << >> /\ r = << >>)
    <3>1. CASE l = << >> /\ r = << >>
      BY <1>1, <1>3, <2>1, <2>3, <3>1, MergeOver
    <3>. QED  BY <3>1
  <2>5. CASE l # << >> /\ (r = << >> \/ Less(r[1].m, l[1].m))
    <3>1. MergeAt(ts, k, us, q, Append(o, l[1]), Tail(l), r)
      BY <1>1, <2>1, <2>2, <2>5, MergeGreater
    <3>2. Descends(Append(o, l[1]), Tail(l), r)
      BY <2>1, <2>3, <2>5, HeadTail, OrderedTake
    <3>3. At(q, Append(o, l[1]), Tail(l), r)
      BY <3>1, <3>2
    <3> HIDE DEF At
    <3>. QED  BY <3>3
  <2>6. CASE r # << >> /\ (l = << >> \/ Less(l[1].m, r[1].m))
    <3> DEFINE d == (k * r[1].c) % P
               t == Term(d, r[1].m)
    <3>1. MergeAt(ts, k, us, q, o \o <<t>>, l, Tail(r))
      BY <1>1, <2>1, <2>2, <2>6, MergeLess
    <3>2. r[1] \in TermSpace /\ r[1].c # 0 /\ r[1].m \in Monomial
      BY <2>3, <2>6, HeadTail
    <3>3. d \in 0 .. P - 1 /\ d # 0
      <4>1. r[1].c \in 1 .. P - 1
        <5>1. r[1].c \in 0 .. P - 1
          BY <3>2, TermFacts
        <5>. QED  BY <3>2, <5>1, <1>1
      <4>2. k * r[1].c \in Int
        BY <1>1, <4>1
      <4>. QED  BY <4>1, <4>2, NoZeroProduct, ModFacts
    <3> HIDE DEF d
    <3>4. t \in TermSpace /\ t.c # 0 /\ t.m = r[1].m
      BY <3>2, <3>3 DEF Term, TermSpace
    <3> HIDE DEF t
    <3>5. Descends(Append(o, t), Tail(r), l)
      <4>1. Descends(o, r, l)
        BY <2>1, OrderedSwap
      <4>2. l # << >> => Less(l[1].m, r[1].m)
        BY <2>6
      <4>. QED  BY <2>6, <3>4, <4>1, <4>2, OrderedTake
    <3>6. Descends(Append(o, t), l, Tail(r))
      BY <3>5, OrderedSwap
    <3>7. o \o <<t>> = Append(o, t)
      BY <2>3, <3>4 DEF IsTerms
    <3>8. At(q, Append(o, t), l, Tail(r))
      BY <3>1, <3>6, <3>7
    <3> HIDE DEF At
    <3>. QED  BY <3>8
  <2>7. CASE l # << >> /\ r # << >> /\ l[1].m = r[1].m
    <3> DEFINE d == (l[1].c + k * r[1].c) % P
               t == Term(d, l[1].m)
               p == IF d = 0 THEN o ELSE Append(o, t)
    <3>1. MergeAt(ts, k, us, q, p, Tail(l), Tail(r))
      BY <1>1, <2>1, <2>2, <2>7, MergeEqual
    <3>2. l[1] \in TermSpace /\ l[1].m \in Monomial /\ r[1] \in TermSpace
      BY <2>3, <2>7, HeadTail
    <3>3. d \in 0 .. P - 1
      <4>1. l[1].c \in 0 .. P - 1 /\ r[1].c \in 0 .. P - 1
        BY <3>2, TermFacts
      <4>2. l[1].c + k * r[1].c \in Int
        BY <1>1, <4>1
      <4>. QED  BY <4>2, ModFacts
    <3> HIDE DEF d
    <3>4. t \in TermSpace /\ t.c = d /\ t.m = l[1].m
      BY <3>2, <3>3 DEF Term, TermSpace
    <3> HIDE DEF t
    <3>5. Descends(o, l, Tail(r))
      BY <2>3, <2>7, AboveTail, HeadTail DEF Descends
    <3>6. CASE d = 0
      <4>1. Descends(o, Tail(l), Tail(r))
        BY <2>3, <2>7, AboveTail, HeadTail DEF Descends
      <4>2. At(q, p, Tail(l), Tail(r))
        BY <3>1, <3>6, <4>1
      <4> HIDE DEF At
      <4>. QED  BY <4>2
    <3>7. CASE d # 0
      <4>1. Tail(r) # << >> => Less(Tail(r)[1].m, l[1].m)
        BY <2>3, <2>7, HeadTail
      <4>2. Descends(Append(o, t), Tail(l), Tail(r))
        BY <2>7, <3>4, <3>5, <3>7, <4>1, OrderedTake
      <4>3. At(q, p, Tail(l), Tail(r))
        BY <3>1, <3>7, <4>2
      <4> HIDE DEF At
      <4>. QED  BY <4>3
    <3>. QED  BY <3>6, <3>7
  <2>8. l # << >> /\ r # << >> => l[1].m = r[1].m \/ Less(l[1].m, r[1].m) \/ Less(r[1].m, l[1].m)
    BY <2>3, HeadTail, LessTotal
  <2>. QED  BY <2>4, <2>5, <2>6, <2>7, <2>8
<1>4. \A q \in 1 .. N : q - 1 \in S => q \in S
  <2>1. \A q \in 1 .. N : q \in 0 .. N
    BY <1>1
  <2>. QED  BY <1>3, <2>1
<1>5. \A q \in 0 .. N : q \in S
  <2> HIDE DEF S, N
  <2>. QED  BY <1>1, <1>2, <1>4, InductionUpTo
<1>6. SUFFICES ASSUME NEW o, NEW l, NEW r, At(N, o, l, r) PROVE IsTerms(MergedTerms(ts, k, us))
  BY <1>1, <1>5
<1>7. o = MergeRun(ts, k, us)[N].out
  BY <1>1, <1>6, MergeAtTyped
<1>8. MergedTerms(ts, k, us) = o
  BY <1>1, <1>7, RunFacts
<1>. QED  BY <1>6, <1>8 DEF Descends

-----------------------------------------------------------------------------
(* The flat-array polynomials.                                             *)

(* p holds the terms s. *)
VecIs(p, s) ==
  /\ p = [terms |-> p.terms, head |-> p.head, lead |-> p.lead]
  /\ p.terms \in Seq(TermSpace) /\ p.head \in 0 .. Len(p.terms)
  /\ Live(p) = s /\ p.lead = LeadOf(s, 0)

LEMMA LeadOfRest ==
  ASSUME NEW w \in Seq(TermSpace), NEW h \in 0 .. Len(w)
  PROVE  /\ RestOf(w, h + 1) \in Seq(TermSpace)
         /\ h = Len(w) <=> RestOf(w, h + 1) = << >>
         /\ Len(RestOf(w, h + 1)) = Len(w) - h
         /\ LeadOf(w, h) = LeadOf(RestOf(w, h + 1), 0)
<1>1. Len(w) \in Nat /\ h \in Nat /\ h + 1 \in 1 .. Len(w) + 1
  OBVIOUS
<1> DEFINE v == RestOf(w, h + 1)
<1>2. v \in Seq(TermSpace) /\ Len(v) = Len(w) + 1 - (h + 1) /\ (v = << >> <=> h + 1 = Len(w) + 1)
  BY <1>1, RestOfFacts
<1> HIDE DEF v
<1>3. Len(v) = Len(w) - h /\ (h = Len(w) <=> v = << >>)
  BY <1>1, <1>2
<1>4. CASE h = Len(w)
  <2>1. v = << >> /\ Len(v) = 0
    BY <1>1, <1>3, <1>4
  <2>. QED  BY <1>2, <1>3, <1>4, <2>1 DEF LeadOf, v
<1>5. CASE h # Len(w)
  <2>1. h + 1 \in 1 .. Len(w) /\ Len(v) # 0
    BY <1>1, <1>3, <1>5
  <2>2. v[1] = w[h + 1]
    BY <2>1, RestStep DEF v
  <2>3. LeadOf(v, 0) = <<v[1].c, v[1].m>>
    BY <2>1 DEF LeadOf
  <2>4. LeadOf(w, h) = <<w[h + 1].c, w[h + 1].m>>
    BY <1>5 DEF LeadOf
  <2>5. LeadOf(v, 0) = LeadOf(w, h)
    BY <2>2, <2>3, <2>4
  <2>. QED  BY <1>2, <1>3, <2>5 DEF v
<1>. QED  BY <1>4, <1>5

LEMMA VecFacts ==
  ASSUME NEW p, NEW s, VecIs(p, s)
  PROVE  /\ s \in Seq(TermSpace) /\ (VecIsZero(p) <=> s = << >>)
         /\ Len(p.terms) - p.head = Len(s)
         /\ p.lead = LeadOf(p.terms, p.head) /\ p.lead = LeadOf(s, 0)
         /\ Live(p) = s
         /\ CanonicalTerms(s) => VecCanonical(p)
<1>1. /\ p.terms \in Seq(TermSpace) /\ p.head \in 0 .. Len(p.terms)
      /\ Live(p) = s /\ p.lead = LeadOf(s, 0)
  BY DEF VecIs
<1>2. s = RestOf(p.terms, p.head + 1)
  BY <1>1 DEF Live, RestOf
<1>3. /\ s \in Seq(TermSpace) /\ (p.head = Len(p.terms) <=> s = << >>)
      /\ Len(s) = Len(p.terms) - p.head /\ LeadOf(p.terms, p.head) = LeadOf(s, 0)
  <2> DEFINE w == p.terms
             h == p.head
             v == RestOf(w, h + 1)
  <2>1. w \in Seq(TermSpace) /\ h \in 0 .. Len(w) /\ s = v
    BY <1>1, <1>2
  <2> HIDE DEF w, h
  <2>2. /\ v \in Seq(TermSpace) /\ (h = Len(w) <=> v = << >>)
        /\ Len(v) = Len(w) - h /\ LeadOf(w, h) = LeadOf(v, 0)
    BY <2>1, LeadOfRest
  <2> HIDE DEF v
  <2>3. /\ s \in Seq(TermSpace) /\ (h = Len(w) <=> s = << >>)
        /\ Len(s) = Len(w) - h /\ LeadOf(w, h) = LeadOf(s, 0)
    BY <2>1, <2>2
  <2>. QED  BY <2>3 DEF w, h
<1>4. p.head <= Len(p.terms) /\ p.lead = LeadOf(p.terms, p.head)
  BY <1>1, <1>3
<1>5. VecIsZero(p) <=> s = << >>
  BY <1>3 DEF VecIsZero
<1>6. CanonicalTerms(s) => VecCanonical(p)
  BY <1>1, <1>4 DEF VecCanonical
<1>7. Len(p.terms) - p.head = Len(s)
  BY <1>3
<1>. QED  BY ONLY <1>1, <1>3, <1>4, <1>5, <1>6, <1>7

LEMMA VecRecord ==
  ASSUME NEW w \in Seq(TermSpace), NEW h \in 0 .. Len(w), NEW l, l = LeadOf(w, h),
         NEW p, p = [terms |-> w, head |-> h, lead |-> l]
  PROVE  VecIs(p, RestOf(w, h + 1))
<1>1. p = [terms |-> p.terms, head |-> p.head, lead |-> p.lead] /\ p.terms = w /\ p.head = h /\ p.lead = l
  OBVIOUS
<1>2. l = LeadOf(RestOf(w, h + 1), 0)
  BY LeadOfRest
<1>3. Live(p) = RestOf(w, h + 1)
  BY <1>1 DEF Live, RestOf
<1>. QED  BY <1>1, <1>2, <1>3 DEF VecIs

LEMMA VecOf ==
  ASSUME NEW s \in Seq(TermSpace)
  PROVE  VecIs(Vec(s), s)
<1>1. 0 \in 0 .. Len(s) /\ RestOf(s, 0 + 1) = s
  <2>1. RestOf(s, 1) = s /\ 0 + 1 = 1
    BY RestAll
  <2>. QED  BY <2>1
<1>2. Vec(s) = [terms |-> s, head |-> 0, lead |-> LeadOf(s, 0)]
  BY DEF Vec
<1>3. VecIs(Vec(s), RestOf(s, 0 + 1))
  BY <1>1, <1>2, VecRecord, Zenon
<1>. QED  BY <1>1, <1>3

LEMMA VecZeroIs == VecIs(VecZero, << >>)
<1>1. << >> \in Seq(TermSpace) /\ LeadOf(<< >>, 0) = << >>
  BY DEF LeadOf
<1>2. Vec(<< >>) = VecZero
  BY <1>1 DEF Vec, VecZero
<1>. QED  BY <1>1, <1>2, VecOf

LEMMA VecCloneIs ==
  ASSUME NEW p, NEW s, VecIs(p, s)
  PROVE  VecIs(VecClone(p), s)
<1>1. s \in Seq(TermSpace) /\ p.lead = LeadOf(s, 0) /\ Live(p) = s
  BY VecFacts
<1>2. VecClone(p) = Vec(s)
  BY <1>1 DEF VecClone, Vec
<1>. QED  BY <1>1, <1>2, VecOf

(* What add and sub give of operands that hold s and u. *)
SumOf(s, k, u) ==
  IF u = << >> THEN s
  ELSE IF s = << >> THEN (IF k = 1 THEN u ELSE Negated(u))
  ELSE MergedTerms(s, k, u)

LEMMA VecSumIs ==
  ASSUME NEW a, NEW s, VecIs(a, s), IsTerms(s), NEW b, NEW u, VecIs(b, u), IsTerms(u)
  PROVE  /\ VecIs(VecAdd(a, b), SumOf(s, 1, u)) /\ VecIs(VecAddAssign(a, b), SumOf(s, 1, u))
         /\ VecIs(VecSub(a, b), IF u = << >> THEN s ELSE IF s = << >> THEN Negated(u)
                                ELSE MergedTerms(s, P - 1, u))
<1>1. /\ s \in Seq(TermSpace) /\ u \in Seq(TermSpace)
      /\ (VecIsZero(a) <=> s = << >>) /\ (VecIsZero(b) <=> u = << >>) /\ Live(a) = s /\ Live(b) = u
  BY VecFacts
<1>2. P - 1 \in 1 .. P - 1 /\ 1 \in 1 .. P - 1
  BY PAssumption
<1>3. /\ VecIs(VecClone(a), s) /\ VecIs(VecClone(b), u)
  BY VecCloneIs
<1>4. VecIs(VecMerge(a, b, FALSE), MergedTerms(s, 1, u))
  <2>1. MergedTerms(s, 1, u) \in Seq(TermSpace)
    BY <1>2, MergedCanonical DEF IsTerms
  <2>2. VecMerge(a, b, FALSE) = Vec(MergedTerms(s, 1, u))
    BY <1>1 DEF VecMerge
  <2>. QED  BY <2>1, <2>2, VecOf
<1>5. VecIs(VecMerge(a, b, TRUE), MergedTerms(s, P - 1, u))
  <2>1. MergedTerms(s, P - 1, u) \in Seq(TermSpace)
    BY <1>2, MergedCanonical DEF IsTerms
  <2>2. VecMerge(a, b, TRUE) = Vec(MergedTerms(s, P - 1, u))
    BY <1>1 DEF VecMerge
  <2>. QED  BY <2>1, <2>2, VecOf
<1>6. VecIs(VecNeg(b), Negated(u))
  <2>1. Negated(u) \in Seq(TermSpace)
    BY <1>1, NegatedTerms
  <2>. QED  BY <1>1, <2>1, VecOf DEF VecNeg
<1>. QED  BY <1>1, <1>3, <1>4, <1>5, <1>6 DEF VecAdd, VecAddAssign, VecSub, SumOf

LEMMA VecSubMulIs ==
  ASSUME NEW a, NEW s, VecIs(a, s), IsTerms(s), NEW b, NEW u, VecIs(b, u), IsTerms(u),
         NEW c \in 0 .. P - 1, NEW m \in Monomial
  PROVE  VecIs(VecSubMulTerm(a, c, m, b),
               IF c = 0 \/ u = << >> THEN s ELSE MergedTerms(s, P - c, Shifted(m, u)))
<1>1. /\ s \in Seq(TermSpace) /\ u \in Seq(TermSpace)
      /\ (VecIsZero(b) <=> u = << >>) /\ Live(a) = s /\ Live(b) = u
  BY VecFacts
<1>2. CASE c = 0 \/ u = << >>
  BY <1>1, <1>2, VecCloneIs DEF VecSubMulTerm
<1>3. CASE ~(c = 0 \/ u = << >>)
  <2>1. P - c \in 1 .. P - 1
    BY <1>3, PAssumption
  <2>2. IsTerms(Shifted(m, u))
    BY <1>1, ShiftedTerms
  <2>3. MergedTerms(s, P - c, Shifted(m, u)) \in Seq(TermSpace)
    BY <2>1, <2>2, MergedCanonical DEF IsTerms
  <2>4. VecSubMulTerm(a, c, m, b) = Vec(MergedTerms(s, P - c, Shifted(m, u)))
    BY <1>1, <1>3 DEF VecSubMulTerm
  <2>. QED  BY <1>3, <2>3, <2>4, VecOf
<1>. QED  BY <1>2, <1>3

LEMMA VecAdvance ==
  ASSUME NEW w, NEW h, NEW b, NEW a, a = [terms |-> w, head |-> h, lead |-> b],
         NEW g, NEW l, NEW r, r = [a EXCEPT !.head = g, !.lead = l]
  PROVE  r = [terms |-> w, head |-> g, lead |-> l]
OBVIOUS

LEMMA VecUnaryIs ==
  ASSUME NEW a, NEW s, VecIs(a, s)
  PROVE  /\ VecIs(VecNeg(a), Negated(s))
         /\ \A c \in 0 .. P - 1 : VecIs(VecScale(c, a), IF c = 0 THEN << >> ELSE Scaled(c, s))
         /\ \A m \in Monomial : VecIs(VecShift(m, a), Shifted(m, s))
         /\ VecIs(VecDropLeading(a), IF Len(s) <= 1 THEN << >> ELSE Tail(s))
         /\ VecIs(VecDropLeadingInPlace(a), IF s = << >> THEN s ELSE Tail(s))
<1>1. /\ s \in Seq(TermSpace) /\ (VecIsZero(a) <=> s = << >>) /\ Live(a) = s /\ Len(s) \in Nat
      /\ Len(a.terms) - a.head = Len(s)
  BY VecFacts
<1>2. VecIs(VecNeg(a), Negated(s))
  <2>1. Negated(s) \in Seq(TermSpace)
    BY <1>1, NegatedTerms
  <2>. QED  BY <1>1, <2>1, VecOf DEF VecNeg
<1>3. ASSUME NEW c \in 0 .. P - 1
      PROVE  VecIs(VecScale(c, a), IF c = 0 THEN << >> ELSE Scaled(c, s))
  <2>1. Scaled(c, s) \in Seq(TermSpace) /\ Len(Scaled(c, s)) = Len(s)
    BY <1>1, ScaledTerms
  <2>2. s = << >> => Scaled(c, s) = << >>
    BY <1>1, <2>1
  <2>. QED  BY <1>1, <2>1, <2>2, VecOf, VecZeroIs DEF VecScale
<1>4. ASSUME NEW m \in Monomial
      PROVE  VecIs(VecShift(m, a), Shifted(m, s))
  <2>1. Shifted(m, s) \in Seq(TermSpace) /\ Len(Shifted(m, s)) = Len(s)
    BY <1>1, ShiftedTerms
  <2>2. s = << >> => Shifted(m, s) = << >>
    BY <1>1, <2>1
  <2>. QED  BY <1>1, <2>1, <2>2, VecOf, VecZeroIs DEF VecShift
<1>5. VecIs(VecDropLeading(a), IF Len(s) <= 1 THEN << >> ELSE Tail(s))
  <2>1. CASE Len(s) <= 1
    BY <1>1, <2>1, VecZeroIs DEF VecDropLeading
  <2>2. CASE ~(Len(s) <= 1)
    <3>1. s # << >>
      BY <1>1, <2>2
    <3>2. Tail(s) \in Seq(TermSpace)
      BY <1>1, <3>1
    <3>3. VecDropLeading(a) = Vec(Tail(s))
      BY <1>1, <2>2 DEF VecDropLeading
    <3>. QED  BY <2>2, <3>2, <3>3, VecOf
  <2>. QED  BY <2>1, <2>2
<1>6. VecIs(VecDropLeadingInPlace(a), IF s = << >> THEN s ELSE Tail(s))
  <2>1. CASE s = << >>
    BY <1>1, <2>1 DEF VecDropLeadingInPlace
  <2>2. CASE s # << >>
    <3> DEFINE w == a.terms
               h == a.head
               r == VecDropLeadingInPlace(a)
    <3>1. a = [terms |-> w, head |-> h, lead |-> a.lead] /\ w \in Seq(TermSpace) /\ h \in 0 .. Len(w) /\ h # Len(w)
      BY <1>1, <2>2 DEF VecIs, VecIsZero
    <3>2. r = [a EXCEPT !.head = h + 1, !.lead = LeadOf(w, h + 1)]
      BY <1>1, <2>2 DEF VecDropLeadingInPlace
    <3>3. s = RestOf(w, h + 1)
      BY <1>1 DEF Live, RestOf
    <3> HIDE DEF w, h, r
    <3>4. h + 1 \in 0 .. Len(w) /\ h + 1 \in 1 .. Len(w)
      BY <3>1
    <3> DEFINE g == h + 1
               l == LeadOf(w, g)
    <3>5. r = [terms |-> w, head |-> g, lead |-> l]
      <4>1. r = [a EXCEPT !.head = g, !.lead = l]
        BY <3>2
      <4>2. a = [terms |-> w, head |-> h, lead |-> a.lead]
        BY <3>1
      <4> HIDE DEF g, l, w, h, r
      <4> DEFINE b == a.lead
      <4>3. a = [terms |-> w, head |-> h, lead |-> b]
        BY <4>2
      <4> HIDE DEF b
      <4>. QED  BY ONLY <4>1, <4>3, VecAdvance
    <3>6. VecIs(r, RestOf(w, g + 1))
      <4>1. g \in 0 .. Len(w) /\ l = LeadOf(w, g)
        BY <3>4
      <4> HIDE DEF g, l
      <4>. QED  BY <3>1, <3>5, <4>1, VecRecord, Zenon
    <3>7. Tail(RestOf(w, h + 1)) = RestOf(w, g + 1)
      BY <3>1, <3>4, RestStep
    <3>. QED  BY <2>2, <3>3, <3>6, <3>7 DEF r
  <2>. QED  BY <2>1, <2>2
<1>. QED  BY <1>2, <1>3, <1>4, <1>5, <1>6

LEMMA VecMonicIs ==
  ASSUME NEW a, NEW s, VecIs(a, s), IsTerms(s)
  PROVE  /\ VecIs(VecMonic(a), MonicOf(s)) /\ IsTerms(MonicOf(s)) /\ Len(MonicOf(s)) = Len(s)
         /\ s # << >> => LeadOf(s, 0)[1] = s[1].c /\ s[1].c \in 1 .. P - 1
<1>1. /\ s \in Seq(TermSpace) /\ (VecIsZero(a) <=> s = << >>) /\ Live(a) = s /\ Len(s) \in Nat
      /\ a.lead = LeadOf(s, 0)
  BY VecFacts
<1>2. CASE s = << >>
  <2>1. VecMonic(a) = VecZero /\ MonicOf(s) = << >>
    BY <1>1, <1>2 DEF VecMonic, MonicOf
  <2>. QED  BY <1>2, <2>1, VecZeroIs
<1>3. CASE s # << >>
  <2>1. s[1] \in TermSpace /\ s[1].c # 0 /\ s[1].c \in 0 .. P - 1
    BY <1>3, HeadTail, TermFacts
  <2>2. s[1].c \in 1 .. P - 1
    BY <2>1, PAssumption
  <2>3. Len(s) # 0 /\ LeadOf(s, 0) = <<s[1].c, s[1].m>>
    BY <1>1, <1>3 DEF LeadOf
  <2>4. a.lead[1] = s[1].c
    BY <1>1, <2>3
  <2>5. CASE s[1].c = 1
    <3>1. VecMonic(a) = VecClone(a) /\ MonicOf(s) = s
      BY <1>1, <1>3, <2>4, <2>5 DEF VecMonic, MonicOf
    <3>. QED  BY <2>2, <2>3, <3>1, VecCloneIs
  <2>6. CASE s[1].c # 1
    <3> DEFINE d == Invert(s[1].c)
    <3>1. VecMonic(a) = VecScale(d, a) /\ MonicOf(s) = Scaled(d, s)
      BY <1>1, <1>3, <2>4, <2>6 DEF VecMonic, MonicOf
    <3>2. d \in 1 .. P - 1
      BY <2>2, InvertFacts
    <3> HIDE DEF d
    <3>3. d \in 0 .. P - 1 /\ d # 0
      BY <3>2, PAssumption
    <3>4. VecIs(VecScale(d, a), Scaled(d, s))
      BY <3>3, VecUnaryIs
    <3>5. IsTerms(Scaled(d, s)) /\ Len(Scaled(d, s)) = Len(s)
      BY <1>1, <3>3, ScaledTerms
    <3>. QED  BY <2>2, <2>3, <3>1, <3>4, <3>5
  <2>. QED  BY <2>5, <2>6
<1>. QED  BY <1>2, <1>3

LEMMA VecProductIs ==
  ASSUME NEW a, NEW s, VecIs(a, s), NEW b, NEW u, VecIs(b, u)
  PROVE  VecIs(VecMul(a, b), Surviving(Products(s, u)))
<1>1. /\ s \in Seq(TermSpace) /\ (VecIsZero(a) <=> s = << >>) /\ Live(a) = s
      /\ u \in Seq(TermSpace) /\ (VecIsZero(b) <=> u = << >>) /\ Live(b) = u
  BY VecFacts
<1>2. /\ Products(s, u) \in Seq(TermSpace) /\ (s = << >> \/ u = << >> => Products(s, u) = << >>)
  BY <1>1, ProductTerms
<1>3. /\ Surviving(Products(s, u)) \in Seq(TermSpace)
      /\ Products(s, u) = << >> => Surviving(Products(s, u)) = << >>
  BY <1>2, SurvivingTerms DEF IsTerms
<1>. QED  BY <1>1, <1>2, <1>3, VecOf, VecZeroIs DEF VecMul, VecFromTerms

LEMMA VecFromTermsIs ==
  ASSUME NEW ts \in Seq(TermSpace)
  PROVE  VecIs(VecFromTerms(ts), Surviving(ts))
<1>1. Surviving(ts) \in Seq(TermSpace)
  BY SurvivingTerms DEF IsTerms
<1>. QED  BY <1>1, VecOf DEF VecFromTerms

-----------------------------------------------------------------------------
(* The merge of the lists keeps step with the merge of the arrays.         *)

Going(k, m, tr, a, o, l, r, ts, us, n) ==
  /\ IsTerms(ts) /\ IsTerms(us) /\ k \in 1 .. P - 1 /\ m \in Monomial
  /\ VecIs(a, MergedTerms(ts, k, us))
  /\ r \in Seq(TermSpace)
  /\ MergeAt(ts, k, us, n, o, l, Shifted(m, r))
  /\ tr => k = 1 /\ m = One

(* The array a holds what the merge will give that has put o out and has l *)
(* and k times m times r left.                                             *)
Progress(k, m, tr, a, o, l, r) ==
  \/ l = << >> /\ r = << >> /\ IsTerms(o) /\ VecIs(a, o)
  \/ \E ts, us, n : Going(k, m, tr, a, o, l, r, ts, us, n)

LEMMA GoingFacts ==
  ASSUME NEW k, NEW m, NEW tr, NEW a, NEW o, NEW l, NEW r, NEW ts, NEW us, NEW n,
         Going(k, m, tr, a, o, l, r, ts, us, n)
  PROVE  /\ ts \in Seq(TermSpace) /\ us \in Seq(TermSpace) /\ k \in Int
         /\ o \in Seq(TermSpace) /\ l \in Seq(TermSpace) /\ r \in Seq(TermSpace)
         /\ m \in Monomial /\ MergeAt(ts, k, us, n, o, l, Shifted(m, r))
<1>1. /\ ts \in Seq(TermSpace) /\ us \in Seq(TermSpace) /\ k \in Int
      /\ m \in Monomial /\ MergeAt(ts, k, us, n, o, l, Shifted(m, r)) /\ r \in Seq(TermSpace)
  BY PAssumption DEF Going, IsTerms
<1>. QED  BY <1>1, MergeAtTyped

LEMMA GoingOn ==
  ASSUME NEW k, NEW m, NEW tr, NEW a, NEW o, NEW l, NEW r, NEW ts, NEW us, NEW n,
         Going(k, m, tr, a, o, l, r, ts, us, n),
         NEW o2, NEW l2, NEW r2 \in Seq(TermSpace),
         MergeAt(ts, k, us, n + 1, o2, l2, Shifted(m, r2))
  PROVE  Progress(k, m, tr, a, o2, l2, r2)
<1>1. Going(k, m, tr, a, o2, l2, r2, ts, us, n + 1)
  BY DEF Going
<1>. QED  BY <1>1 DEF Progress

LEMMA ProgressGreater ==
  ASSUME NEW k, NEW m, NEW tr, NEW a, NEW o, NEW l, NEW r, Progress(k, m, tr, a, o, l, r),
         l # << >>, r = << >> \/ Less(Mul(m, r[1].m), l[1].m)
  PROVE  Progress(k, m, tr, a, o \o <<l[1]>>, Tail(l), r)
<1>1. PICK ts, us, n : Going(k, m, tr, a, o, l, r, ts, us, n)
  BY DEF Progress
<1>2. /\ ts \in Seq(TermSpace) /\ us \in Seq(TermSpace) /\ k \in Int
      /\ o \in Seq(TermSpace) /\ l \in Seq(TermSpace) /\ r \in Seq(TermSpace)
      /\ m \in Monomial /\ MergeAt(ts, k, us, n, o, l, Shifted(m, r))
  BY <1>1, GoingFacts
<1> DEFINE v == Shifted(m, r)
<1>3. v = << >> \/ Less(v[1].m, l[1].m)
  <2>1. CASE r = << >>
    <3>1. Len(v) = 0 /\ v \in Seq(TermSpace)
      BY <1>2, <2>1, ShiftedTerms
    <3>. QED  BY <3>1
  <2>2. CASE r # << >>
    BY <1>2, <2>2, ShiftedHead
  <2>. QED  BY <2>1, <2>2
<1>4. MergeAt(ts, k, us, n, o, l, v)
  BY <1>2
<1> HIDE DEF v
<1>5. MergeAt(ts, k, us, n + 1, Append(o, l[1]), Tail(l), v)
  BY <1>2, <1>3, <1>4, MergeGreater
<1>6. Append(o, l[1]) = o \o <<l[1]>>
  <2>1. l[1] \in TermSpace
    BY <1>2
  <2>. QED  BY <1>2, <2>1, AppendHead
<1>. QED  BY <1>1, <1>2, <1>5, <1>6, GoingOn DEF v

LEMMA ProgressLess ==
  ASSUME NEW k, NEW m, NEW tr, NEW a, NEW o, NEW l, NEW r, Progress(k, m, tr, a, o, l, r),
         r # << >>, l = << >> \/ Less(l[1].m, Mul(m, r[1].m)),
         NEW t, t = Term((k * r[1].c) % P, Mul(m, r[1].m))
  PROVE  Progress(k, m, tr, a, o \o <<t>>, l, Tail(r))
<1>1. PICK ts, us, n : Going(k, m, tr, a, o, l, r, ts, us, n)
  BY DEF Progress
<1>2. /\ ts \in Seq(TermSpace) /\ us \in Seq(TermSpace) /\ k \in Int
      /\ o \in Seq(TermSpace) /\ l \in Seq(TermSpace) /\ r \in Seq(TermSpace)
      /\ m \in Monomial /\ MergeAt(ts, k, us, n, o, l, Shifted(m, r))
  BY <1>1, GoingFacts
<1> DEFINE v == Shifted(m, r)
<1>3. /\ v # << >> /\ Tail(v) = Shifted(m, Tail(r)) /\ v[1].c = r[1].c /\ v[1].m = Mul(m, r[1].m)
      /\ Tail(r) \in Seq(TermSpace)
  BY <1>2, ShiftedHead
<1>4. MergeAt(ts, k, us, n, o, l, v)
  BY <1>2
<1> HIDE DEF v
<1>5. MergeAt(ts, k, us, n + 1, o \o <<Term((k * v[1].c) % P, v[1].m)>>, l, Tail(v))
  BY <1>2, <1>3, <1>4, MergeLess
<1>6. MergeAt(ts, k, us, n + 1, o \o <<t>>, l, Shifted(m, Tail(r)))
  BY <1>3, <1>5
<1>. QED  BY <1>1, <1>3, <1>6, GoingOn

LEMMA ProgressEqual ==
  ASSUME NEW k, NEW m, NEW tr, NEW a, NEW o, NEW l, NEW r, Progress(k, m, tr, a, o, l, r),
         l # << >>, r # << >>, l[1].m = Mul(m, r[1].m),
         NEW d, d = (l[1].c + ((k * r[1].c) % P)) % P
  PROVE  /\ d \in 0 .. P - 1
         /\ Progress(k, m, tr, a, IF d = 0 THEN o ELSE o \o <<Term(d, l[1].m)>>, Tail(l), Tail(r))
<1>1. PICK ts, us, n : Going(k, m, tr, a, o, l, r, ts, us, n)
  BY DEF Progress
<1>2. /\ ts \in Seq(TermSpace) /\ us \in Seq(TermSpace) /\ k \in Int
      /\ o \in Seq(TermSpace) /\ l \in Seq(TermSpace) /\ r \in Seq(TermSpace)
      /\ m \in Monomial /\ MergeAt(ts, k, us, n, o, l, Shifted(m, r))
  BY <1>1, GoingFacts
<1> DEFINE v == Shifted(m, r)
<1>3. /\ v # << >> /\ Tail(v) = Shifted(m, Tail(r)) /\ v[1].c = r[1].c /\ v[1].m = Mul(m, r[1].m)
      /\ Tail(r) \in Seq(TermSpace) /\ r[1] \in TermSpace
  BY <1>2, ShiftedHead
<1>4. MergeAt(ts, k, us, n, o, l, v)
  BY <1>2
<1>0. l[1] \in TermSpace
  BY <1>2
<1> HIDE DEF v
<1>5. d = (l[1].c + k * v[1].c) % P /\ d \in 0 .. P - 1
  <2> DEFINE e == k * r[1].c
             c == l[1].c
  <2>1. e \in Int /\ c \in Int
    <3>1. r[1].c \in 0 .. P - 1 /\ l[1].c \in 0 .. P - 1
      BY <1>0, <1>3, TermFacts
    <3>2. r[1].c \in Int /\ c \in Int
      BY ONLY <3>1, PAssumption
    <3> HIDE DEF c
    <3>. QED  BY ONLY <1>2, <3>2 DEF e
  <2>2. d = (c + (e % P)) % P /\ e = k * v[1].c
    BY <1>3
  <2> HIDE DEF e, c
  <2>3. (e % P) \in Int
    BY <2>1, ModFacts
  <2>4. (c + (e % P)) = ((e % P) + c) /\ c + e = e + c
    BY <2>1, <2>3
  <2>5. (((e % P) + c) % P) = ((e + c) % P)
    BY <2>1, ModAdd
  <2>6. d = (c + e) % P
    BY <2>2, <2>4, <2>5
  <2>7. c + e \in Int
    BY <2>1
  <2>8. ((c + e) % P) \in 0 .. P - 1
    BY <2>7, ModFacts
  <2>9. d \in 0 .. P - 1
    BY <2>6, <2>8
  <2>. QED  BY <2>2, <2>6, <2>9 DEF c
<1>6. MergeAt(ts, k, us, n + 1, IF d = 0 THEN o ELSE Append(o, Term(d, l[1].m)), Tail(l), Tail(v))
  <2>1. d = (l[1].c + k * v[1].c) % P /\ l[1].m = v[1].m
    BY <1>3, <1>5
  <2>. QED  BY <1>2, <1>3, <1>4, <2>1, MergeEqual
<1>7. Append(o, Term(d, l[1].m)) = o \o <<Term(d, l[1].m)>>
  <2>1. Term(d, l[1].m) \in TermSpace
    BY <1>0, <1>5, TermFacts DEF Term, TermSpace
  <2>. QED  BY <1>2, <2>1, AppendHead
<1>8. MergeAt(ts, k, us, n + 1, IF d = 0 THEN o ELSE o \o <<Term(d, l[1].m)>>, Tail(l), Shifted(m, Tail(r)))
  BY <1>3, <1>6, <1>7
<1>. QED  BY <1>1, <1>3, <1>5, <1>8, GoingOn

(* The rest of a list is the rest of the result. *)
LEMMA ProgressEnd ==
  ASSUME NEW k, NEW m, NEW tr, NEW a, NEW o, NEW l, NEW r, Progress(k, m, tr, a, o, l, r)
  PROVE  /\ r = << >> => IsTerms(o \o l) /\ VecIs(a, o \o l)
         /\ l = << >> /\ tr => IsTerms(o \o r) /\ VecIs(a, o \o r)
         /\ l = << >> /\ r = << >> => IsTerms(o) /\ VecIs(a, o)
<1>1. CASE l = << >> /\ r = << >> /\ IsTerms(o) /\ VecIs(a, o)
  <2>1. o \o << >> = o
    BY <1>1 DEF IsTerms
  <2>. QED  BY <1>1, <2>1
<1>2. CASE \E ts, us, n : Going(k, m, tr, a, o, l, r, ts, us, n)
  <2>1. PICK ts, us, n : Going(k, m, tr, a, o, l, r, ts, us, n)
    BY <1>2
  <2>2. /\ ts \in Seq(TermSpace) /\ us \in Seq(TermSpace) /\ k \in Int
        /\ o \in Seq(TermSpace) /\ l \in Seq(TermSpace) /\ r \in Seq(TermSpace)
        /\ m \in Monomial /\ MergeAt(ts, k, us, n, o, l, Shifted(m, r))
    BY <2>1, GoingFacts
  <2>3. /\ IsTerms(ts) /\ IsTerms(us) /\ k \in 1 .. P - 1
        /\ VecIs(a, MergedTerms(ts, k, us)) /\ (tr => k = 1 /\ m = One)
    BY <2>1 DEF Going
  <2>4. IsTerms(MergedTerms(ts, k, us))
    BY <2>3, MergedCanonical
  <2>5. ASSUME r = << >> PROVE MergedTerms(ts, k, us) = o \o l
    <3>1. Shifted(m, r) = << >>
      <4>1. Shifted(m, r) \in Seq(TermSpace) /\ Len(Shifted(m, r)) = 0
        BY <2>2, <2>5, ShiftedTerms
      <4>. QED  BY <4>1
    <3>. QED  BY <2>2, <3>1, MergeEndLeft
  <2>6. ASSUME l = << >>, tr PROVE MergedTerms(ts, k, us) = o \o r
    <3>1. Shifted(m, r) = r /\ k = 1
      BY <2>2, <2>3, <2>6, ShiftedTerms
    <3>. QED  BY <2>2, <2>6, <3>1, MergeEndRight
  <2>7. o \o << >> = o
    BY <2>2
  <2>. QED  BY <2>3, <2>4, <2>5, <2>6, <2>7
<1>. QED  BY <1>1, <1>2 DEF Progress

LEMMA ProgressStart ==
  ASSUME NEW s, IsTerms(s), NEW u, IsTerms(u), NEW k \in 1 .. P - 1, NEW m \in Monomial,
         NEW tr, tr => k = 1 /\ m = One,
         NEW a, VecIs(a, MergedTerms(s, k, Shifted(m, u)))
  PROVE  Progress(k, m, tr, a, << >>, s, u)
<1> DEFINE us == Shifted(m, u)
<1>1. s \in Seq(TermSpace) /\ u \in Seq(TermSpace) /\ k \in Int
  BY PAssumption DEF IsTerms
<1>2. us \in Seq(TermSpace) /\ IsTerms(us)
  BY <1>1, ShiftedTerms
<1>3. MergeAt(s, k, us, 0, << >>, s, us)
  BY <1>1, <1>2, MergeStart
<1>4. Going(k, m, tr, a, << >>, s, u, s, us, 0)
  BY <1>1, <1>2, <1>3 DEF Going
<1>. QED  BY <1>4 DEF Progress

-----------------------------------------------------------------------------
(* The inductive invariant.                                                *)

HandleIs(p, s) == p = [head |-> p.head, len |-> Len(s), lead |-> LeadOf(s, 0)]

(* Between calls both backends hold the terms s and u.                     *)
RestsAt(mm, xx, yy, mg, a, b, s, u) ==
  /\ mg = << >> /\ Resting(mm, xx, yy, s, u)
  /\ HandleIs(xx, s) /\ HandleIs(yy, u)
  /\ IsTerms(s) /\ IsTerms(u) /\ VecIs(a, s) /\ VecIs(b, u)

(* During a merge the arrays are one call ahead: a holds the result.       *)
MergesAt(mm, xx, yy, mg, a, b, s, u, o, l, r) ==
  /\ Merging(mm, xx, yy, mg, s, u, o, l, r)
  /\ HandleIs(yy, u) /\ IsTerms(u) /\ VecIs(b, u)
  /\ Progress(mg.k, mg.m, mg.takes_right, a, o, l, r)

InStep(mm, xx, yy, mg, a, b) ==
  \/ \E s, u : RestsAt(mm, xx, yy, mg, a, b, s, u)
  \/ \E s, u, o, l, r : MergesAt(mm, xx, yy, mg, a, b, s, u, o, l, r)

Inv == InStep(mem, x, y, merge, vx, vy)

LEMMA NotEmptyMerge ==
  ASSUME NEW mm, NEW xx, NEW yy, NEW mg, NEW s, NEW u, NEW o, NEW l, NEW r,
         Merging(mm, xx, yy, mg, s, u, o, l, r)
  PROVE  mg # << >>
<1>1. mg \in MergeSpace
  BY DEF Merging
<1>2. DOMAIN mg = {"k", "m", "left", "right", "head", "tail", "out_len", "takes_left", "takes_right"}
  BY <1>1 DEF MergeSpace
<1>3. DOMAIN << >> = {}
  OBVIOUS
<1>4. "k" \in DOMAIN mg
  BY <1>2
<1>. QED  BY <1>3, <1>4

(* What a call sees of its operands.                                       *)
LEMMA RestsFacts ==
  ASSUME NEW mm, NEW xx, NEW yy, NEW mg, NEW a, NEW b, NEW s, NEW u,
         RestsAt(mm, xx, yy, mg, a, b, s, u)
  PROVE  /\ Terms(mm, xx.head) = s /\ Terms(mm, yy.head) = u
         /\ xx.head = Null <=> s = << >>
         /\ yy.head = Null <=> u = << >>
         /\ xx.len = Len(s) /\ yy.len = Len(u)
         /\ xx.lead = LeadOf(s, 0) /\ yy.lead = LeadOf(u, 0)
         /\ xx.head \in Nat /\ yy.head \in Nat
         /\ IsTerms(s) /\ IsTerms(u) /\ s \in Seq(TermSpace) /\ u \in Seq(TermSpace)
         /\ VecIs(a, s) /\ VecIs(b, u)
<1>1. /\ Resting(mm, xx, yy, s, u) /\ HandleIs(xx, s) /\ HandleIs(yy, u)
      /\ IsTerms(s) /\ IsTerms(u) /\ VecIs(a, s) /\ VecIs(b, u)
  BY DEF RestsAt
<1>2. xx.len = Len(s) /\ yy.len = Len(u) /\ xx.lead = LeadOf(s, 0) /\ yy.lead = LeadOf(u, 0)
  BY <1>1 DEF HandleIs
<1>. QED  BY <1>1, <1>2, RestingFacts

(* A call that gives a fresh polynomial of the terms ts.                   *)
LEMMA Assigned ==
  ASSUME NEW mm, NEW xx, NEW yy, NEW mg, NEW a, NEW b, NEW s, NEW u,
         RestsAt(mm, xx, yy, mg, a, b, s, u),
         NEW ts, IsTerms(ts), NEW nn, nn = Dropped(Linked(mm, ts), xx),
         NEW x2, x2 = [head |-> Placed(mm, ts), len |-> Len(ts), lead |-> LeadAt(nn, Placed(mm, ts))],
         NEW a2, VecIs(a2, ts)
  PROVE  RestsAt(nn, x2, yy, mg, a2, b, ts, u)
<1>1. /\ mg = << >> /\ Resting(mm, xx, yy, s, u) /\ HandleIs(yy, u) /\ IsTerms(u) /\ VecIs(b, u)
      /\ ts \in Seq(TermSpace)
  BY DEF RestsAt, IsTerms
<1>2. x2.head = Placed(mm, ts)
  OBVIOUS
<1>3. /\ Resting(nn, x2, yy, ts, u)
      /\ LeadAt(nn, Placed(mm, ts)) = LeadOf(ts, 0)
  <2> DEFINE h == Placed(mm, ts)
  <2>1. x2.head = h /\ nn = Dropped(Linked(mm, ts), xx)
    BY <1>2
  <2>. QED  BY <1>1, <2>1, AssignX, SMT
<1>4. HandleIs(x2, ts)
  BY <1>2, <1>3 DEF HandleIs
<1>. QED  BY <1>1, <1>3, <1>4 DEF RestsAt

LEMMA Cloned ==
  ASSUME NEW mm, NEW xx, NEW yy, NEW mg, NEW a, NEW b, NEW s, NEW u,
         RestsAt(mm, xx, yy, mg, a, b, s, u),
         NEW nn, nn = Dropped(Linked(mm, s), yy),
         NEW y2, y2 = [head |-> Placed(mm, s), len |-> Len(s), lead |-> LeadOf(s, 0)]
  PROVE  RestsAt(nn, xx, y2, mg, a, VecClone(a), s, s)
<1>1. /\ mg = << >> /\ Resting(mm, xx, yy, s, u) /\ HandleIs(xx, s) /\ IsTerms(s) /\ VecIs(a, s)
      /\ s \in Seq(TermSpace)
  BY DEF RestsAt, IsTerms
<1>2. y2.head = Placed(mm, s) /\ HandleIs(y2, s)
  BY DEF HandleIs
<1>3. Resting(nn, xx, y2, s, s)
  BY <1>1, <1>2, AssignY, Zenon
<1>4. VecIs(VecClone(a), s)
  BY <1>1, VecCloneIs
<1>. QED  BY <1>1, <1>2, <1>3, <1>4 DEF RestsAt

(* The locals of a merge of x with k times m times x or y.                 *)
Begun(xx, yy, own, k, m, tl, tr) ==
  [k |-> k, m |-> m, left |-> xx.head, right |-> IF own THEN xx.head ELSE yy.head,
   head |-> Null, tail |-> Null, out_len |-> 0, takes_left |-> tl, takes_right |-> tr]

HasBegun(xx, yy, x2, y2, mg, own, k, m, tl, tr) ==
  /\ \A mm : Begins(mm, xx, yy, x2, y2, mg, own)
  /\ mg.k = k /\ mg.m = m /\ mg.takes_left = tl /\ mg.takes_right = tr

LEMMA BegunFacts ==
  ASSUME NEW xx, NEW yy, xx.head \in Nat, yy.head \in Nat,
         NEW own, own \in BOOLEAN, NEW tl, tl \in BOOLEAN, NEW tr, tr \in BOOLEAN,
         own => ~tl /\ ~tr, NEW k \in 1 .. P - 1, NEW m \in Monomial,
         NEW mg, mg = Begun(xx, yy, own, k, m, tl, tr),
         NEW x2, x2 = (IF tl THEN [xx EXCEPT !.head = Null] ELSE xx),
         "head" \in DOMAIN xx,
         NEW y2, y2 = (IF tr THEN ZeroPoly ELSE yy)
  PROVE  HasBegun(xx, yy, x2, y2, mg, own, k, m, tl, tr)
<1>1. /\ mg.k = k /\ mg.m = m /\ mg.takes_left = tl /\ mg.takes_right = tr
      /\ mg.left = xx.head /\ mg.right = (IF own THEN xx.head ELSE yy.head)
      /\ mg.head = Null /\ mg.tail = Null /\ mg.out_len = 0
  BY DEF Begun
<1>2. mg \in MergeSpace
  <2>1. Null \in Nat /\ 0 \in Nat /\ k \in 0 .. P - 1 /\ (IF own THEN xx.head ELSE yy.head) \in Nat
    BY PAssumption DEF Null
  <2>. QED  BY <2>1 DEF Begun, MergeSpace
<1>3. x2.head = (IF tl THEN Null ELSE xx.head) /\ y2.head = (IF tr THEN Null ELSE yy.head)
  BY DEF ZeroPoly
<1>. QED  BY <1>1, <1>2, <1>3 DEF Begins, HasBegun

LEMMA BegunMerge ==
  ASSUME NEW mm, NEW xx, NEW yy, NEW xs, NEW ys, Resting(mm, xx, yy, xs, ys),
         NEW x2, NEW y2, NEW mg, NEW own, Begins(mm, xx, yy, x2, y2, mg, own),
         NEW s2, s2 = (IF mg.takes_left THEN << >> ELSE xs),
         NEW u2, u2 = (IF mg.takes_right THEN << >> ELSE ys),
         NEW v, v = (IF own THEN xs ELSE ys)
  PROVE  Merging(mm, x2, y2, mg, s2, u2, << >>, xs, v)
BY BeginStep, SMT

MergeArgs(own, k, m, tl, tr) ==
  /\ own \in BOOLEAN /\ tl \in BOOLEAN /\ tr \in BOOLEAN /\ k \in 1 .. P - 1 /\ m \in Monomial
  /\ own => ~tl /\ ~tr
  /\ tr => k = 1 /\ m = One

(* What a call that begins a merge leaves. *)
BeginsWith(xx, yy, b, s, u, own, k, m, tl, tr, g2, x2, y2, a2, b2) ==
  /\ g2 = Begun(xx, yy, own, k, m, tl, tr)
  /\ x2 = (IF tl THEN [xx EXCEPT !.head = Null] ELSE xx)
  /\ y2 = (IF tr THEN ZeroPoly ELSE yy)
  /\ VecIs(a2, MergedTerms(s, k, Shifted(m, IF own THEN s ELSE u)))
  /\ b2 = (IF tr THEN VecZero ELSE b)

LEMMA Begin ==
  ASSUME NEW mm, NEW xx, NEW yy, NEW mg, NEW a, NEW b, NEW s, NEW u,
         RestsAt(mm, xx, yy, mg, a, b, s, u),
         NEW own, NEW tl, NEW tr, NEW k, NEW m, MergeArgs(own, k, m, tl, tr),
         NEW g2, NEW x2, NEW y2, NEW a2, NEW b2,
         BeginsWith(xx, yy, b, s, u, own, k, m, tl, tr, g2, x2, y2, a2, b2)
  PROVE  InStep(mm, x2, y2, g2, a2, b2)
<1> DEFINE v == IF own THEN s ELSE u
           s2 == IF tl THEN << >> ELSE s
           u2 == IF tr THEN << >> ELSE u
<1>0. /\ own \in BOOLEAN /\ tl \in BOOLEAN /\ tr \in BOOLEAN /\ k \in 1 .. P - 1 /\ m \in Monomial
      /\ own => ~tl /\ ~tr
      /\ tr => k = 1 /\ m = One
      /\ g2 = Begun(xx, yy, own, k, m, tl, tr)
      /\ x2 = (IF tl THEN [xx EXCEPT !.head = Null] ELSE xx)
      /\ y2 = (IF tr THEN ZeroPoly ELSE yy)
      /\ VecIs(a2, MergedTerms(s, k, Shifted(m, IF own THEN s ELSE u)))
      /\ b2 = (IF tr THEN VecZero ELSE b)
  BY DEF MergeArgs, BeginsWith
<1>1. /\ Resting(mm, xx, yy, s, u) /\ HandleIs(xx, s) /\ HandleIs(yy, u)
      /\ IsTerms(s) /\ IsTerms(u) /\ VecIs(b, u)
  BY DEF RestsAt
<1>2. xx.head \in Nat /\ yy.head \in Nat /\ "head" \in DOMAIN xx
  BY <1>1, RestsFacts DEF HandleIs
<1>3. /\ Begins(mm, xx, yy, x2, y2, g2, own)
      /\ g2.k = k /\ g2.m = m /\ g2.takes_left = tl /\ g2.takes_right = tr
  <2>1. HasBegun(xx, yy, x2, y2, g2, own, k, m, tl, tr)
    BY <1>0, <1>2, BegunFacts, Zenon
  <2>. QED  BY <2>1 DEF HasBegun
<1>4. Merging(mm, x2, y2, g2, s2, u2, << >>, s, v)
  <2>1. /\ s2 = (IF g2.takes_left THEN << >> ELSE s) /\ u2 = (IF g2.takes_right THEN << >> ELSE u)
        /\ v = (IF own THEN s ELSE u)
    BY <1>3
  <2> HIDE DEF s2, u2, v
  <2>2. Resting(mm, xx, yy, s, u) /\ Begins(mm, xx, yy, x2, y2, g2, own)
    BY <1>1, <1>3
  <2>. QED  BY ONLY <2>1, <2>2, BegunMerge, SMTT(60)
<1>5. HandleIs(y2, u2) /\ IsTerms(u2) /\ VecIs(b2, u2)
  <2>1. CASE tr
    <3>1. HandleIs(ZeroPoly, << >>) /\ IsTerms(<< >>)
      BY DEF HandleIs, ZeroPoly, LeadOf, IsTerms, CanonicalTerms
    <3>. QED  BY <1>0, <2>1, <3>1, VecZeroIs
  <2>2. CASE ~tr
    BY <1>0, <1>1, <2>2
  <2>. QED  BY <2>1, <2>2
<1>6. IsTerms(v) /\ VecIs(a2, MergedTerms(s, k, Shifted(m, v)))
  BY <1>0, <1>1
<1> HIDE DEF v, s2, u2
<1>7. Progress(k, m, tr, a2, << >>, s, v)
  BY <1>0, <1>1, <1>6, ProgressStart, Zenon
<1>8. MergesAt(mm, x2, y2, g2, a2, b2, s2, u2, << >>, s, v)
  BY <1>3, <1>4, <1>5, <1>7 DEF MergesAt
<1>. QED  BY <1>8 DEF InStep

-----------------------------------------------------------------------------
(* The turns of a merge.                                                   *)

LEMMA GrownKeeps ==
  ASSUME NEW mg, mg \in MergeSpace, NEW b, NEW n, NEW left, NEW right,
         NEW gg, gg = GrownTo(mg, b, n, left, right)
  PROVE  /\ gg.k = mg.k /\ gg.m = mg.m /\ gg.takes_left = mg.takes_left
         /\ gg.takes_right = mg.takes_right /\ gg.left = left /\ gg.right = right
<1> DEFINE g1 == [mg EXCEPT !.head = IF @ = Null THEN b ELSE @, !.tail = b, !.out_len = @ + n]
<1>1. /\ g1.k = mg.k /\ g1.m = mg.m /\ g1.takes_left = mg.takes_left
      /\ g1.takes_right = mg.takes_right
      /\ DOMAIN g1 = {"k", "m", "left", "right", "head", "tail", "out_len", "takes_left", "takes_right"}
  BY DEF MergeSpace
<1>2. gg = [g1 EXCEPT !.left = left, !.right = right]
  BY DEF GrownTo
<1> HIDE DEF g1
<1>. QED  BY <1>1, <1>2

LEMMA Turned ==
  ASSUME NEW mm, NEW xx, NEW yy, NEW mg, NEW a, NEW b, NEW s, NEW u, NEW o, NEW l, NEW r,
         MergesAt(mm, xx, yy, mg, a, b, s, u, o, l, r),
         NEW nn, NEW gg, NEW o2, NEW l2, NEW r2,
         Merging(nn, xx, yy, gg, s, u, o2, l2, r2),
         gg.k = mg.k, gg.m = mg.m, gg.takes_right = mg.takes_right,
         Progress(mg.k, mg.m, mg.takes_right, a, o2, l2, r2)
  PROVE  InStep(nn, xx, yy, gg, a, b)
<1>1. HandleIs(yy, u) /\ IsTerms(u) /\ VecIs(b, u)
  BY DEF MergesAt
<1>2. MergesAt(nn, xx, yy, gg, a, b, s, u, o2, l2, r2)
  BY <1>1 DEF MergesAt
<1>. QED  BY <1>2, Zenon DEF InStep

(* What a turn sees. *)
Sees(mm, mg, l, r) ==
  /\ mg \in MergeSpace /\ l \in Seq(TermSpace) /\ r \in Seq(TermSpace)
  /\ mg.left = Null <=> l = << >>
  /\ mg.right = Null <=> r = << >>
  /\ mg.left # Null => /\ l # << >> /\ l[1] = Term(mm[mg.left].c, mm[mg.left].m)
                       /\ mm[mg.left].c = l[1].c /\ mm[mg.left].m = l[1].m /\ l[1] \in TermSpace
  /\ mg.right # Null => /\ r # << >> /\ mm[mg.right].c = r[1].c /\ mm[mg.right].m = r[1].m
                        /\ r[1] \in TermSpace

LEMMA MergesFacts ==
  ASSUME NEW mm, NEW xx, NEW yy, NEW mg, NEW a, NEW b, NEW s, NEW u, NEW o, NEW l, NEW r,
         MergesAt(mm, xx, yy, mg, a, b, s, u, o, l, r)
  PROVE  /\ Merging(mm, xx, yy, mg, s, u, o, l, r)
         /\ Progress(mg.k, mg.m, mg.takes_right, a, o, l, r)
         /\ Sees(mm, mg, l, r) /\ o \in Seq(TermSpace) /\ mg # << >>
<1>1. /\ Merging(mm, xx, yy, mg, s, u, o, l, r)
      /\ Progress(mg.k, mg.m, mg.takes_right, a, o, l, r)
  BY DEF MergesAt
<1>2. /\ mg \in MergeSpace
      /\ o \in Seq(TermSpace) /\ l \in Seq(TermSpace) /\ r \in Seq(TermSpace)
      /\ mg.left = Null <=> l = << >>
      /\ mg.right = Null <=> r = << >>
      /\ mg.left # Null => /\ mm[mg.left] \in NodeSpace /\ Len(l) > 0
                           /\ Term(mm[mg.left].c, mm[mg.left].m) = l[1]
      /\ mg.right # Null => /\ mm[mg.right] \in NodeSpace /\ Len(r) > 0
                            /\ Term(mm[mg.right].c, mm[mg.right].m) = r[1]
  BY ONLY <1>1, MergingFacts, SMTT(60)
<1>3. mg # << >>
  BY <1>1, NotEmptyMerge
<1>4. mg.left # Null => /\ l # << >> /\ l[1] = Term(mm[mg.left].c, mm[mg.left].m)
                        /\ mm[mg.left].c = l[1].c /\ mm[mg.left].m = l[1].m /\ l[1] \in TermSpace
  BY <1>2 DEF Term
<1>5. mg.right # Null => /\ r # << >> /\ mm[mg.right].c = r[1].c /\ mm[mg.right].m = r[1].m
                         /\ r[1] \in TermSpace
  BY <1>2 DEF Term
<1>6. Sees(mm, mg, l, r)
  BY <1>2, <1>4, <1>5 DEF Sees
<1>. QED  BY <1>1, <1>2, <1>3, <1>6

LEMMA GreaterTaken ==
  ASSUME NEW mm, NEW xx, NEW yy, NEW mg, NEW a, NEW b, NEW s, NEW u, NEW o, NEW l, NEW r,
         MergesAt(mm, xx, yy, mg, a, b, s, u, o, l, r), mg.left # Null,
         mg.right = Null \/ Less(Mul(mg.m, mm[mg.right].m), mm[mg.left].m),
         NEW t, t = Term(mm[mg.left].c, mm[mg.left].m), NEW e, NEW nn,
         t \in TermSpace => EmittedInto(mm, mg, mg.takes_left, mg.left, t, e, nn),
         NEW gg, gg = GrownTo(mg, e, 1, mm[mg.left].next, mg.right)
  PROVE  InStep(nn, xx, yy, gg, a, b)
<1>1. /\ Merging(mm, xx, yy, mg, s, u, o, l, r)
      /\ Progress(mg.k, mg.m, mg.takes_right, a, o, l, r)
      /\ Sees(mm, mg, l, r)
  BY MergesFacts
<1>2. l # << >> /\ t = l[1] /\ t \in TermSpace /\ mg \in MergeSpace
  BY <1>1 DEF Sees
<1>3. r = << >> \/ Less(Mul(mg.m, r[1].m), l[1].m)
  <2>1. mm[mg.left].m = l[1].m /\ (mg.right = Null <=> r = << >>)
        /\ (mg.right # Null => mm[mg.right].m = r[1].m)
    BY <1>1 DEF Sees
  <2>. QED  BY <2>1
<1>4. Merging(nn, xx, yy, gg, s, u, o \o <<t>>, Tail(l), r)
  <2>1. EmittedInto(mm, mg, mg.takes_left, mg.left, t, e, nn)
    BY <1>2
  <2>. QED  BY <1>1, <2>1, EmitLeftStep, Zenon
<1>5. Progress(mg.k, mg.m, mg.takes_right, a, o \o <<t>>, Tail(l), r)
  <2>1. Progress(mg.k, mg.m, mg.takes_right, a, o \o <<l[1]>>, Tail(l), r)
    BY <1>1, <1>2, <1>3, ProgressGreater, Zenon
  <2>. QED  BY <1>2, <2>1
<1>6. gg.k = mg.k /\ gg.m = mg.m /\ gg.takes_right = mg.takes_right
  BY <1>2, GrownKeeps, SMT
<1>. QED  BY <1>4, <1>5, <1>6, Turned, Zenon

LEMMA LessTaken ==
  ASSUME NEW mm, NEW xx, NEW yy, NEW mg, NEW a, NEW b, NEW s, NEW u, NEW o, NEW l, NEW r,
         MergesAt(mm, xx, yy, mg, a, b, s, u, o, l, r), mg.right # Null,
         mg.left = Null \/ Less(mm[mg.left].m, Mul(mg.m, mm[mg.right].m)),
         NEW t, t = Term((mg.k * mm[mg.right].c) % P, Mul(mg.m, mm[mg.right].m)), NEW e, NEW nn,
         t \in TermSpace => EmittedInto(mm, mg, mg.takes_right, mg.right, t, e, nn),
         NEW gg, gg = GrownTo(mg, e, 1, mg.left, mm[mg.right].next)
  PROVE  InStep(nn, xx, yy, gg, a, b)
<1>1. /\ Merging(mm, xx, yy, mg, s, u, o, l, r)
      /\ Progress(mg.k, mg.m, mg.takes_right, a, o, l, r)
      /\ Sees(mm, mg, l, r)
  BY MergesFacts
<1>2. /\ r # << >> /\ mg \in MergeSpace /\ r[1] \in TermSpace
      /\ mm[mg.right].c = r[1].c /\ mm[mg.right].m = r[1].m
      /\ r \in Seq(TermSpace)
  BY <1>1 DEF Sees
<1>3. l = << >> \/ Less(l[1].m, Mul(mg.m, r[1].m))
  <2>1. mm[mg.right].m = r[1].m /\ (mg.left = Null <=> l = << >>)
        /\ (mg.left # Null => mm[mg.left].m = l[1].m)
    BY <1>1 DEF Sees
  <2>. QED  BY <2>1
<1>0. t = Term((mg.k * r[1].c) % P, Mul(mg.m, r[1].m))
  BY <1>2
<1>7. t \in TermSpace
  <2> DEFINE c == r[1].c
             k == mg.k
             m == Mul(mg.m, r[1].m)
  <2>1. k \in Int /\ c \in Int
    <3>1. c \in 0 .. P - 1 /\ k \in 0 .. P - 1
      BY <1>2, TermFacts DEF MergeSpace
    <3> HIDE DEF c, k
    <3>. QED  BY <3>1, PAssumption
  <2>2. m \in Monomial
    <3>1. mg.m \in Monomial
      BY <1>2 DEF MergeSpace
    <3>. QED  BY <1>2, <3>1, ShiftedHead
  <2>3. t = Term((k * c) % P, m)
    BY <1>0
  <2> HIDE DEF c, k, m
  <2>4. k * c \in Int
    BY <2>1
  <2>5. ((k * c) % P) \in 0 .. P - 1
    BY <2>4, ModFacts
  <2>. QED  BY <2>2, <2>3, <2>5 DEF Term, TermSpace
<1>4. Merging(nn, xx, yy, gg, s, u, o \o <<t>>, l, Tail(r))
  <2>1. EmittedInto(mm, mg, mg.takes_right, mg.right, t, e, nn)
    BY <1>7
  <2>. QED  BY <1>1, <2>1, EmitRightStep, Zenon
<1>5. Progress(mg.k, mg.m, mg.takes_right, a, o \o <<t>>, l, Tail(r))
  BY <1>0, <1>1, <1>2, <1>3, ProgressLess, Zenon
<1>6. gg.k = mg.k /\ gg.m = mg.m /\ gg.takes_right = mg.takes_right
  BY <1>2, GrownKeeps, SMT
<1>. QED  BY <1>4, <1>5, <1>6, Turned, Zenon

LEMMA LeftSpliced ==
  ASSUME NEW mm, NEW xx, NEW yy, NEW mg, NEW a, NEW b, NEW s, NEW u, NEW o, NEW l, NEW r,
         MergesAt(mm, xx, yy, mg, a, b, s, u, o, l, r), mg.left # Null, mg.right = Null,
         mg.takes_left,
         NEW nn, nn = (IF mg.tail = Null THEN mm ELSE [mm EXCEPT ![mg.tail].next = mg.left]),
         NEW gg, gg = GrownTo(mg, mg.left, Len(Chain(mm, mg.left)), Null, Null)
  PROVE  InStep(nn, xx, yy, gg, a, b)
<1>1. /\ Merging(mm, xx, yy, mg, s, u, o, l, r)
      /\ Progress(mg.k, mg.m, mg.takes_right, a, o, l, r)
      /\ Sees(mm, mg, l, r)
  BY MergesFacts
<1>2. mg \in MergeSpace /\ r = << >>
  BY <1>1 DEF Sees
<1>3. Merging(nn, xx, yy, gg, s, u, o \o l, << >>, r)
  BY <1>1, SpliceLeft, Zenon
<1>4. IsTerms(o \o l) /\ VecIs(a, o \o l)
  BY <1>1, <1>2, ProgressEnd
<1>5. Progress(mg.k, mg.m, mg.takes_right, a, o \o l, << >>, r)
  BY <1>2, <1>4 DEF Progress
<1>6. gg.k = mg.k /\ gg.m = mg.m /\ gg.takes_right = mg.takes_right
  <2> DEFINE c == mg.left
             n == Len(Chain(mm, mg.left))
  <2>1. gg = GrownTo(mg, c, n, Null, Null)
    OBVIOUS
  <2> HIDE DEF c, n
  <2>. QED  BY ONLY <1>2, <2>1, GrownKeeps, SMT
<1>. QED  BY <1>3, <1>5, <1>6, Turned, Zenon

LEMMA RightSpliced ==
  ASSUME NEW mm, NEW xx, NEW yy, NEW mg, NEW a, NEW b, NEW s, NEW u, NEW o, NEW l, NEW r,
         MergesAt(mm, xx, yy, mg, a, b, s, u, o, l, r), mg.right # Null, mg.left = Null,
         mg.takes_right,
         NEW nn, nn = (IF mg.tail = Null THEN mm ELSE [mm EXCEPT ![mg.tail].next = mg.right]),
         NEW gg, gg = GrownTo(mg, mg.right, Len(Chain(mm, mg.right)), Null, Null)
  PROVE  InStep(nn, xx, yy, gg, a, b)
<1>1. /\ Merging(mm, xx, yy, mg, s, u, o, l, r)
      /\ Progress(mg.k, mg.m, mg.takes_right, a, o, l, r)
      /\ Sees(mm, mg, l, r)
  BY MergesFacts
<1>2. mg \in MergeSpace /\ l = << >>
  BY <1>1 DEF Sees
<1>3. Merging(nn, xx, yy, gg, s, u, o \o r, l, << >>)
  BY <1>1, SpliceRight, Zenon
<1>4. IsTerms(o \o r) /\ VecIs(a, o \o r)
  BY <1>1, <1>2, ProgressEnd
<1>5. Progress(mg.k, mg.m, mg.takes_right, a, o \o r, l, << >>)
  BY <1>2, <1>4 DEF Progress
<1>6. gg.k = mg.k /\ gg.m = mg.m /\ gg.takes_right = mg.takes_right
  <2> DEFINE c == mg.right
             n == Len(Chain(mm, mg.right))
  <2>1. gg = GrownTo(mg, c, n, Null, Null)
    OBVIOUS
  <2> HIDE DEF c, n
  <2>. QED  BY ONLY <1>2, <2>1, GrownKeeps, SMT
<1>. QED  BY <1>3, <1>5, <1>6, Turned, Zenon

LEMMA Finished ==
  ASSUME NEW mm, NEW xx, NEW yy, NEW mg, NEW a, NEW b, NEW s, NEW u, NEW o, NEW l, NEW r,
         MergesAt(mm, xx, yy, mg, a, b, s, u, o, l, r), mg.left = Null, mg.right = Null,
         NEW nn, nn = Dropped(mm, xx),
         NEW x2, x2 = [head |-> mg.head, len |-> mg.out_len, lead |-> LeadAt(mm, mg.head)],
         NEW g2, g2 = << >>
  PROVE  InStep(nn, x2, yy, g2, a, b)
<1>1. /\ Merging(mm, xx, yy, mg, s, u, o, l, r)
      /\ Progress(mg.k, mg.m, mg.takes_right, a, o, l, r)
      /\ Sees(mm, mg, l, r)
  BY MergesFacts
<1>2. l = << >> /\ r = << >>
  BY <1>1 DEF Sees
<1>3. IsTerms(o) /\ VecIs(a, o)
  BY <1>1, <1>2, ProgressEnd
<1>4. /\ Resting(nn, x2, yy, o, u)
      /\ LeadAt(mm, mg.head) = LeadOf(o, 0) /\ mg.out_len = Len(o)
  <2>1. x2.head = mg.head
    OBVIOUS
  <2>. QED  BY <1>1, <2>1, FinishStep, SMT
<1>5. HandleIs(x2, o)
  BY <1>4 DEF HandleIs
<1>6. HandleIs(yy, u) /\ IsTerms(u) /\ VecIs(b, u)
  BY DEF MergesAt
<1>7. RestsAt(nn, x2, yy, g2, a, b, o, u)
  BY <1>3, <1>4, <1>5, <1>6 DEF RestsAt
<1>. QED  BY <1>7, Zenon DEF InStep

LEMMA FreedTwice ==
  ASSUME NEW mm, NEW A, NEW B
  PROVE  Freed(Freed(mm, A), B) = Freed(mm, A \cup B)
<1>1. DOMAIN Freed(mm, A) = DOMAIN mm \ A
  BY DEF Freed
<1>2. Freed(Freed(mm, A), B) = [c \in (DOMAIN mm \ A) \ B |-> mm[c]]
  BY <1>1 DEF Freed
<1>3. (DOMAIN mm \ A) \ B = DOMAIN mm \ (A \cup B)
  OBVIOUS
<1>. QED  BY <1>2, <1>3 DEF Freed

LEMMA RightAdvanced ==
  ASSUME NEW mg, mg \in MergeSpace, NEW g2, NEW next, g2 = [mg EXCEPT !.right = next]
  PROVE  /\ g2.left = mg.left /\ g2.takes_left = mg.takes_left /\ g2.takes_right = mg.takes_right
         /\ g2.k = mg.k /\ g2.m = mg.m /\ g2.right = next /\ g2.tail = mg.tail /\ g2.head = mg.head
BY DEF MergeSpace

LEMMA BothAdvanced ==
  ASSUME NEW mg, mg \in MergeSpace, NEW ln, NEW rn,
         NEW g1, g1 = [mg EXCEPT !.right = rn], NEW gg, gg = [mg EXCEPT !.left = ln, !.right = rn]
  PROVE  gg = [g1 EXCEPT !.left = ln]
BY DEF MergeSpace

LEMMA GrownAdvanced ==
  ASSUME NEW mg, mg \in MergeSpace, NEW e, NEW ln, NEW rn, NEW right,
         NEW g1, g1 = GrownTo(mg, e, 1, ln, right), NEW gg, gg = GrownTo(mg, e, 1, ln, rn)
  PROVE  gg = [g1 EXCEPT !.right = rn]
<1> DEFINE g0 == [mg EXCEPT !.head = IF @ = Null THEN e ELSE @, !.tail = e, !.out_len = @ + 1]
<1>1. DOMAIN g0 = {"k", "m", "left", "right", "head", "tail", "out_len", "takes_left", "takes_right"}
  BY DEF MergeSpace
<1>2. g1 = [g0 EXCEPT !.left = ln, !.right = right] /\ gg = [g0 EXCEPT !.left = ln, !.right = rn]
  BY DEF GrownTo
<1> HIDE DEF g0
<1>. QED  BY <1>1, <1>2

(* A cursor moves on, and its node is given up if it is owned.             *)
DropsRight(mm, mg, nn, gg) ==
  /\ mg.right # Null /\ nn = Freed(mm, {a \in {mg.right} : mg.takes_right})
  /\ gg = [mg EXCEPT !.right = mm[mg.right].next]

DropsLeft(mm, mg, nn, gg) ==
  /\ mg.left # Null /\ nn = Freed(mm, {a \in {mg.left} : mg.takes_left})
  /\ gg = [mg EXCEPT !.left = mm[mg.left].next]

LEMMA RightDropped ==
  ASSUME NEW mm, NEW xx, NEW yy, NEW mg, NEW xs, NEW ys, NEW os, NEW ls, NEW rs,
         Merging(mm, xx, yy, mg, xs, ys, os, ls, rs),
         NEW nn, NEW gg, DropsRight(mm, mg, nn, gg)
  PROVE  /\ Merging(nn, xx, yy, gg, xs, ys, os, ls, Tail(rs))
         /\ SameNext(mm, nn, mg.left)
<1> DEFINE next == mm[mg.right].next
<1>1. /\ Merging(mm, xx, yy, mg, xs, ys, os, ls, rs) /\ mg.right # Null
      /\ nn = Freed(mm, {a \in {mg.right} : mg.takes_right}) /\ gg = [mg EXCEPT !.right = next]
      /\ next = mm[mg.right].next
  BY DEF DropsRight
<1> HIDE DEF next
<1>. QED  BY ONLY <1>1, DropRight

LEMMA LeftDropped ==
  ASSUME NEW mm, NEW xx, NEW yy, NEW mg, NEW xs, NEW ys, NEW os, NEW ls, NEW rs,
         Merging(mm, xx, yy, mg, xs, ys, os, ls, rs),
         NEW nn, NEW gg, DropsLeft(mm, mg, nn, gg)
  PROVE  /\ Merging(nn, xx, yy, gg, xs, ys, os, Tail(ls), rs)
         /\ SameNext(mm, nn, mg.right)
<1> DEFINE next == mm[mg.left].next
<1>1. /\ Merging(mm, xx, yy, mg, xs, ys, os, ls, rs) /\ mg.left # Null
      /\ nn = Freed(mm, {a \in {mg.left} : mg.takes_left}) /\ gg = [mg EXCEPT !.left = next]
      /\ next = mm[mg.left].next
  BY DEF DropsLeft
<1> HIDE DEF next
<1>. QED  BY ONLY <1>1, DropLeft

(* The left cursor moves on, and t goes out.                               *)
PutsLeft(mm, mg, t, e, nn, gg) ==
  /\ mg.left # Null /\ EmittedInto(mm, mg, mg.takes_left, mg.left, t, e, nn)
  /\ gg = GrownTo(mg, e, 1, mm[mg.left].next, mg.right)

LEMMA LeftPut ==
  ASSUME NEW mm, NEW xx, NEW yy, NEW mg, NEW xs, NEW ys, NEW os, NEW ls, NEW rs,
         Merging(mm, xx, yy, mg, xs, ys, os, ls, rs),
         NEW t, NEW e, NEW nn, NEW gg, PutsLeft(mm, mg, t, e, nn, gg)
  PROVE  /\ Merging(nn, xx, yy, gg, xs, ys, os \o <<t>>, Tail(ls), rs)
         /\ SameNext(mm, nn, mg.right)
BY EmitLeftStep DEF PutsLeft

(* The two outcomes of a turn with equal terms. *)
Cancels(mm, mg, nn, gg) ==
  /\ nn = Freed(mm, {c \in {mg.right} : mg.takes_right} \cup {c \in {mg.left} : mg.takes_left})
  /\ gg = [mg EXCEPT !.left = mm[mg.left].next, !.right = mm[mg.right].next]

Adds(mm, mg, t, e, n1, nn, gg) ==
  /\ t \in TermSpace => EmittedInto(mm, mg, mg.takes_left, mg.left, t, e, n1)
  /\ nn = Freed(n1, {c \in {mg.right} : mg.takes_right})
  /\ gg = GrownTo(mg, e, 1, mm[mg.left].next, mm[mg.right].next)

KeepsLocals(mg, gg) == gg.k = mg.k /\ gg.m = mg.m /\ gg.takes_right = mg.takes_right

(* Terms that cancel. *)
LEMMA Cancelled ==
  ASSUME NEW mm, NEW xx, NEW yy, NEW mg, NEW s, NEW u, NEW o, NEW l, NEW r,
         Merging(mm, xx, yy, mg, s, u, o, l, r), mg.left # Null, mg.right # Null,
         NEW nn, NEW gg, Cancels(mm, mg, nn, gg)
  PROVE  /\ Merging(nn, xx, yy, gg, s, u, o, Tail(l), Tail(r))
         /\ KeepsLocals(mg, gg)
<1> DEFINE A == {c \in {mg.right} : mg.takes_right}
           n1 == Freed(mm, A)
           ln == mm[mg.left].next
           rn == mm[mg.right].next
           g1 == [mg EXCEPT !.right = rn]
<1>1. mg \in MergeSpace
  BY DEF Merging
<1>2. /\ g1.left = mg.left /\ g1.takes_left = mg.takes_left /\ g1.takes_right = mg.takes_right
      /\ g1.k = mg.k /\ g1.m = mg.m
  BY <1>1, RightAdvanced
<1>3. gg = [g1 EXCEPT !.left = ln]
  <2>1. gg = [mg EXCEPT !.left = ln, !.right = rn]
    BY DEF Cancels
  <2> HIDE DEF ln, rn
  <2>. QED  BY ONLY <1>1, <2>1, BothAdvanced
<1>4. nn = Freed(n1, {c \in {g1.left} : g1.takes_left})
  <2>1. nn = Freed(mm, A \cup {c \in {mg.left} : mg.takes_left})
    BY DEF Cancels
  <2>2. {c \in {mg.left} : mg.takes_left} = {c \in {g1.left} : g1.takes_left}
    BY <1>2
  <2> HIDE DEF A, g1
  <2>. QED  BY <2>1, <2>2, FreedTwice
<1>5. DropsRight(mm, mg, n1, g1)
  BY DEF DropsRight
<1> HIDE DEF g1, n1, A
<1>6. /\ Merging(n1, xx, yy, g1, s, u, o, l, Tail(r))
      /\ SameNext(mm, n1, mg.left)
  BY <1>5, RightDropped, Zenon
<1>7. DropsLeft(n1, g1, nn, gg)
  BY <1>2, <1>3, <1>4, <1>6 DEF SameNext, DropsLeft
<1>8. Merging(nn, xx, yy, gg, s, u, o, Tail(l), Tail(r))
  BY <1>6, <1>7, LeftDropped, Zenon
<1>9. KeepsLocals(mg, gg)
  BY <1>1 DEF MergeSpace, KeepsLocals, Cancels
<1>. QED  BY <1>8, <1>9

(* Terms that add up to another one. *)
LEMMA Added ==
  ASSUME NEW mm, NEW xx, NEW yy, NEW mg, NEW s, NEW u, NEW o, NEW l, NEW r,
         Merging(mm, xx, yy, mg, s, u, o, l, r), mg.left # Null, mg.right # Null,
         NEW t \in TermSpace, NEW e, NEW n1, NEW nn, NEW gg, Adds(mm, mg, t, e, n1, nn, gg)
  PROVE  /\ Merging(nn, xx, yy, gg, s, u, o \o <<t>>, Tail(l), Tail(r))
         /\ KeepsLocals(mg, gg)
<1> DEFINE p == mg.right
           ln == mm[mg.left].next
           rn == mm[mg.right].next
           g1 == GrownTo(mg, e, 1, ln, p)
<1>1. mg \in MergeSpace
  BY DEF Merging
<1>2. /\ EmittedInto(mm, mg, mg.takes_left, mg.left, t, e, n1)
      /\ nn = Freed(n1, {c \in {mg.right} : mg.takes_right})
      /\ gg = GrownTo(mg, e, 1, ln, rn)
  BY DEF Adds
<1>3. /\ g1.takes_right = mg.takes_right /\ g1.right = p
      /\ KeepsLocals(mg, gg) /\ gg = [g1 EXCEPT !.right = rn]
  <2>1. g1 = GrownTo(mg, e, 1, ln, p) /\ gg = GrownTo(mg, e, 1, ln, rn)
    BY <1>2
  <2> HIDE DEF g1, ln, rn, p
  <2>2. g1.takes_right = mg.takes_right /\ g1.right = p
    BY ONLY <1>1, <2>1, GrownKeeps, SMT
  <2>3. gg.k = mg.k /\ gg.m = mg.m /\ gg.takes_right = mg.takes_right
    BY ONLY <1>1, <2>1, GrownKeeps, SMT
  <2>4. gg = [g1 EXCEPT !.right = rn]
    BY ONLY <1>1, <2>1, GrownAdvanced, SMT
  <2>. QED  BY <2>2, <2>3, <2>4 DEF KeepsLocals
<1>4. PutsLeft(mm, mg, t, e, n1, g1)
  BY <1>2 DEF PutsLeft
<1> HIDE DEF g1
<1>5. /\ Merging(n1, xx, yy, g1, s, u, o \o <<t>>, Tail(l), r)
      /\ SameNext(mm, n1, mg.right)
  BY <1>4, LeftPut, Zenon
<1>6. DropsRight(n1, g1, nn, gg)
  BY <1>2, <1>3, <1>5 DEF SameNext, DropsRight
<1>7. Merging(nn, xx, yy, gg, s, u, o \o <<t>>, Tail(l), Tail(r))
  BY <1>5, <1>6, RightDropped, Zenon
<1>. QED  BY <1>3, <1>7

Combines(mm, mg, d, nn, gg) ==
  /\ mg.left # Null /\ mg.right # Null /\ mm[mg.left].m = Mul(mg.m, mm[mg.right].m)
  /\ d = (mm[mg.left].c + ((mg.k * mm[mg.right].c) % P)) % P
  /\ \/ d = 0 /\ Cancels(mm, mg, nn, gg)
     \/ d # 0 /\ \E e, n1 : Adds(mm, mg, Term(d, mm[mg.left].m), e, n1, nn, gg)

LEMMA Combined ==
  ASSUME NEW mm, NEW xx, NEW yy, NEW mg, NEW a, NEW b, NEW s, NEW u, NEW o, NEW l, NEW r,
         MergesAt(mm, xx, yy, mg, a, b, s, u, o, l, r),
         NEW d, NEW nn, NEW gg, Combines(mm, mg, d, nn, gg)
  PROVE  InStep(nn, xx, yy, gg, a, b)
<1>0. /\ mg.left # Null /\ mg.right # Null /\ mm[mg.left].m = Mul(mg.m, mm[mg.right].m)
      /\ d = (mm[mg.left].c + ((mg.k * mm[mg.right].c) % P)) % P
      /\ \/ d = 0 /\ Cancels(mm, mg, nn, gg)
         \/ d # 0 /\ \E e, n1 : Adds(mm, mg, Term(d, mm[mg.left].m), e, n1, nn, gg)
  BY Zenon DEF Combines
<1>1. /\ Merging(mm, xx, yy, mg, s, u, o, l, r)
      /\ Progress(mg.k, mg.m, mg.takes_right, a, o, l, r)
      /\ Sees(mm, mg, l, r)
  BY MergesFacts
<1>2. /\ l # << >> /\ r # << >> /\ mm[mg.left].c = l[1].c /\ mm[mg.left].m = l[1].m
      /\ mm[mg.right].c = r[1].c /\ mm[mg.right].m = r[1].m /\ l[1] \in TermSpace
  BY <1>0, <1>1 DEF Sees
<1>3. l[1].m = Mul(mg.m, r[1].m) /\ d = (l[1].c + ((mg.k * r[1].c) % P)) % P
  BY <1>0, <1>2
<1>4. /\ d \in 0 .. P - 1
      /\ Progress(mg.k, mg.m, mg.takes_right, a, IF d = 0 THEN o ELSE o \o <<Term(d, l[1].m)>>,
                  Tail(l), Tail(r))
  BY ONLY <1>1, <1>2, <1>3, ProgressEqual, SMTT(60)
<1>5. CASE d = 0
  <2>1. Cancels(mm, mg, nn, gg)
    BY <1>0, <1>5
  <2>2. /\ Merging(nn, xx, yy, gg, s, u, o, Tail(l), Tail(r))
        /\ KeepsLocals(mg, gg)
    BY <1>0, <1>1, <2>1, Cancelled, Zenon
  <2>3. Progress(mg.k, mg.m, mg.takes_right, a, o, Tail(l), Tail(r))
    BY <1>4, <1>5
  <2>. QED  BY <2>2, <2>3, Turned, Zenon DEF KeepsLocals
<1>6. CASE d # 0
  <2> DEFINE t == Term(d, mm[mg.left].m)
  <2>1. PICK e, n1 : Adds(mm, mg, t, e, n1, nn, gg)
    BY <1>0, <1>6
  <2>2. t \in TermSpace /\ t = Term(d, l[1].m)
    BY <1>2, <1>4, TermFacts DEF Term, TermSpace
  <2> HIDE DEF t
  <2>3. /\ Merging(nn, xx, yy, gg, s, u, o \o <<t>>, Tail(l), Tail(r))
        /\ KeepsLocals(mg, gg)
    <3>1. Merging(mm, xx, yy, mg, s, u, o, l, r) /\ mg.left # Null /\ mg.right # Null
      BY <1>0, <1>1
    <3>. QED  BY ONLY <2>1, <2>2, <3>1, Added, SMT
  <2>4. Progress(mg.k, mg.m, mg.takes_right, a, o \o <<t>>, Tail(l), Tail(r))
    BY <1>4, <1>6, <2>2
  <2>. QED  BY <2>3, <2>4, Turned, Zenon DEF KeepsLocals
<1>. QED  BY <1>5, <1>6

LEMMA TurnStep ==
  ASSUME Inv, Turn, UNCHANGED <<vx, vy>>
  PROVE  Inv'
<1>1. merge # << >> /\ UNCHANGED y
  BY DEF Turn, TakeGreater, TakeLess, Combine, RestOfLeft, RestOfRight, FinishMerge, Both, Idle
<1>2. PICK s, u, o, l, r : MergesAt(mem, x, y, merge, vx, vy, s, u, o, l, r)
  <2>1. \A s, u : ~RestsAt(mem, x, y, merge, vx, vy, s, u)
    BY <1>1 DEF RestsAt
  <2>. QED  BY <2>1, Zenon DEF Inv, InStep
<1>3. SUFFICES InStep(mem', x', y, merge', vx, vy)
  <2>1. Inv' <=> InStep(mem', x', y', merge', vx', vy')
    BY DEF Inv
  <2>. QED  BY <1>1, <2>1
<1>4. CASE TakeGreater
  <2> DEFINE e == IF merge.takes_left THEN merge.left ELSE FreshCells(mem, 1)[1]
             t == Term(mem[merge.left].c, mem[merge.left].m)
  <2>1. /\ merge.left # Null /\ UNCHANGED x
        /\ Less(Mul(merge.m, mem[merge.right].m), mem[merge.left].m)
    BY <1>4 DEF TakeGreater, Both, LeftTerm, RightTerm, Term
  <2>2. /\ mem' = Attached(WithNode(mem, e, t), e)
        /\ merge' = GrownTo(merge, e, 1, mem[merge.left].next, merge.right)
    BY <1>4 DEF TakeGreater, Emit, LeftTerm, LeftNext, Grown, GrownTo
  <2>3. t \in TermSpace => EmittedInto(mem, merge, merge.takes_left, merge.left, t, e, mem')
    BY <2>2 DEF EmittedInto, Attached
  <2>4. t = Term(mem[merge.left].c, mem[merge.left].m)
    OBVIOUS
  <2> HIDE DEF e, t
  <2>5. InStep(mem', x, y, merge', vx, vy)
    BY <1>2, <2>1, <2>2, <2>3, <2>4, GreaterTaken, Zenon
  <2>. QED  BY <2>1, <2>5
<1>5. CASE TakeLess
  <2> DEFINE e == IF merge.takes_right THEN merge.right ELSE FreshCells(mem, 1)[1]
             t == Term((merge.k * mem[merge.right].c) % P, Mul(merge.m, mem[merge.right].m))
  <2>1. /\ merge.right # Null /\ UNCHANGED x
        /\ Less(mem[merge.left].m, Mul(merge.m, mem[merge.right].m))
    BY <1>5 DEF TakeLess, Both, LeftTerm, RightTerm, Term
  <2>2. /\ mem' = Attached(WithNode(mem, e, t), e)
        /\ merge' = GrownTo(merge, e, 1, merge.left, mem[merge.right].next)
    BY <1>5 DEF TakeLess, Emit, RightTerm, RightNext, Grown, GrownTo
  <2>3. t \in TermSpace => EmittedInto(mem, merge, merge.takes_right, merge.right, t, e, mem')
    BY <2>2 DEF EmittedInto, Attached
  <2>4. t = Term((merge.k * mem[merge.right].c) % P, Mul(merge.m, mem[merge.right].m))
    OBVIOUS
  <2> HIDE DEF e, t
  <2>5. InStep(mem', x, y, merge', vx, vy)
    BY <1>2, <2>1, <2>2, <2>3, <2>4, LessTaken, Zenon
  <2>. QED  BY <2>1, <2>5
<1>6. CASE Combine
  <2> DEFINE d == (mem[merge.left].c + ((merge.k * mem[merge.right].c) % P)) % P
             e == IF merge.takes_left THEN merge.left ELSE FreshCells(mem, 1)[1]
             t == Term(d, mem[merge.left].m)
             n1 == Attached(WithNode(mem, e, t), e)
  <2>1. /\ merge.left # Null /\ merge.right # Null /\ UNCHANGED x
        /\ mem[merge.left].m = Mul(merge.m, mem[merge.right].m)
    BY <1>6 DEF Combine, Both, LeftTerm, RightTerm, Term
  <2>2. TotalCoeff = d
    BY DEF TotalCoeff, LeftTerm, RightTerm, Term
  <2>3. d = 0 => Cancels(mem, merge, mem', merge')
    <3>1. SUFFICES ASSUME d = 0 PROVE Cancels(mem, merge, mem', merge')
      OBVIOUS
    <3>2. /\ mem' = Freed(mem, Spent(TRUE))
          /\ merge' = [merge EXCEPT !.left = LeftNext, !.right = RightNext]
      BY <1>6, <2>2, <3>1 DEF Combine
    <3>3. Spent(TRUE) = {c \in {merge.right} : merge.takes_right} \cup {c \in {merge.left} : merge.takes_left}
      BY DEF Spent
    <3>. QED  BY <3>2, <3>3 DEF Cancels, LeftNext, RightNext
  <2>4. d # 0 => Adds(mem, merge, t, e, n1, mem', merge')
    <3>1. SUFFICES ASSUME d # 0 PROVE Adds(mem, merge, t, e, n1, mem', merge')
      OBVIOUS
    <3>2. /\ mem' = Freed(n1, Spent(FALSE))
          /\ merge' = [Grown(e, 1) EXCEPT !.left = LeftNext, !.right = RightNext]
      BY <1>6, <2>2, <3>1 DEF Combine, LeftTerm, Term
    <3>3. Spent(FALSE) = {c \in {merge.right} : merge.takes_right}
      BY DEF Spent
    <3>4. t \in TermSpace => EmittedInto(mem, merge, merge.takes_left, merge.left, t, e, n1)
      BY DEF EmittedInto, Attached
    <3>5. merge' = GrownTo(merge, e, 1, mem[merge.left].next, mem[merge.right].next)
      BY <3>2 DEF Grown, GrownTo, LeftNext, RightNext
    <3>. QED  BY <3>2, <3>3, <3>4, <3>5 DEF Adds
  <2>5. t = Term(d, mem[merge.left].m) /\ d = (mem[merge.left].c + ((merge.k * mem[merge.right].c) % P)) % P
    OBVIOUS
  <2> HIDE DEF d, e, t, n1
  <2>6. Combines(mem, merge, d, mem', merge')
    BY <2>1, <2>3, <2>4, <2>5, Zenon DEF Combines
  <2>7. InStep(mem', x, y, merge', vx, vy)
    BY <1>2, <2>6, Combined, Zenon
  <2>. QED  BY <2>1, <2>7
<1>7. CASE RestOfLeft
  <2>1. merge.left # Null /\ merge.right = Null /\ UNCHANGED x
    BY <1>7 DEF RestOfLeft
  <2>2. CASE merge.takes_left
    <3>1. /\ mem' = (IF merge.tail = Null THEN mem ELSE [mem EXCEPT ![merge.tail].next = merge.left])
          /\ merge' = GrownTo(merge, merge.left, Len(Chain(mem, merge.left)), Null, Null)
      BY <1>7, <2>2 DEF RestOfLeft, Splice, Attached, Grown, GrownTo
    <3>2. InStep(mem', x, y, merge', vx, vy)
      BY <1>2, <2>1, <2>2, <3>1, LeftSpliced, Zenon
    <3>. QED  BY <2>1, <3>2
  <2>3. CASE ~merge.takes_left
    <3> DEFINE e == FreshCells(mem, 1)[1]
               t == Term(mem[merge.left].c, mem[merge.left].m)
    <3>1. /\ mem' = Attached(WithNode(mem, e, t), e)
          /\ merge' = GrownTo(merge, e, 1, mem[merge.left].next, merge.right)
      BY <1>7, <2>1, <2>3 DEF RestOfLeft, Emit, LeftTerm, LeftNext, Grown, GrownTo
    <3>2. t \in TermSpace => EmittedInto(mem, merge, merge.takes_left, merge.left, t, e, mem')
      BY <2>3, <3>1 DEF EmittedInto, Attached
    <3>3. t = Term(mem[merge.left].c, mem[merge.left].m)
      OBVIOUS
    <3> HIDE DEF e, t
    <3>4. InStep(mem', x, y, merge', vx, vy)
      BY <1>2, <2>1, <3>1, <3>2, <3>3, GreaterTaken, Zenon
    <3>. QED  BY <2>1, <3>4
  <2>. QED  BY <2>2, <2>3
<1>8. CASE RestOfRight
  <2>1. merge.right # Null /\ merge.left = Null /\ UNCHANGED x
    BY <1>8 DEF RestOfRight
  <2>2. CASE merge.takes_right
    <3>1. /\ mem' = (IF merge.tail = Null THEN mem ELSE [mem EXCEPT ![merge.tail].next = merge.right])
          /\ merge' = GrownTo(merge, merge.right, Len(Chain(mem, merge.right)), Null, Null)
      BY <1>8, <2>2 DEF RestOfRight, Splice, Attached, Grown, GrownTo
    <3>2. InStep(mem', x, y, merge', vx, vy)
      BY <1>2, <2>1, <2>2, <3>1, RightSpliced, Zenon
    <3>. QED  BY <2>1, <3>2
  <2>3. CASE ~merge.takes_right
    <3> DEFINE e == FreshCells(mem, 1)[1]
               t == Term((merge.k * mem[merge.right].c) % P, Mul(merge.m, mem[merge.right].m))
    <3>1. /\ mem' = Attached(WithNode(mem, e, t), e)
          /\ merge' = GrownTo(merge, e, 1, merge.left, mem[merge.right].next)
      BY <1>8, <2>1, <2>3 DEF RestOfRight, Emit, RightTerm, RightNext, Grown, GrownTo
    <3>2. t \in TermSpace => EmittedInto(mem, merge, merge.takes_right, merge.right, t, e, mem')
      BY <2>3, <3>1 DEF EmittedInto, Attached
    <3>3. t = Term((merge.k * mem[merge.right].c) % P, Mul(merge.m, mem[merge.right].m))
      OBVIOUS
    <3> HIDE DEF e, t
    <3>4. InStep(mem', x, y, merge', vx, vy)
      BY <1>2, <2>1, <3>1, <3>2, <3>3, LessTaken, Zenon
    <3>. QED  BY <2>1, <3>4
  <2>. QED  BY <2>2, <2>3
<1>9. CASE FinishMerge
  <2>1. /\ merge.left = Null /\ merge.right = Null
        /\ mem' = Dropped(mem, x) /\ merge' = << >>
        /\ x' = [head |-> merge.head, len |-> merge.out_len, lead |-> LeadAt(mem, merge.head)]
    BY <1>9 DEF FinishMerge, Handle
  <2>. QED  BY <1>2, <2>1, Finished, Zenon
<1>. QED  BY <1>4, <1>5, <1>6, <1>7, <1>8, <1>9 DEF Turn

-----------------------------------------------------------------------------
(* The calls.                                                              *)

AtRest(s, u) == RestsAt(mem, x, y, merge, vx, vy, s, u)

(* What a call that starts at rest sees of its operands. *)
LEMMA AtRestFacts ==
  ASSUME NEW s, NEW u, AtRest(s, u)
  PROVE  /\ Terms(mem, x.head) = s /\ Terms(mem, y.head) = u
         /\ IsZero(x) <=> s = << >>
         /\ IsZero(y) <=> u = << >>
         /\ x.len = Len(s) /\ y.len = Len(u)
         /\ x.lead = LeadOf(s, 0) /\ y.lead = LeadOf(u, 0)
         /\ IsTerms(s) /\ IsTerms(u) /\ s \in Seq(TermSpace) /\ u \in Seq(TermSpace)
         /\ VecIs(vx, s) /\ VecIs(vy, u) /\ merge = << >>
<1>1. RestsAt(mem, x, y, merge, vx, vy, s, u)
  BY DEF AtRest
<1>2. merge = << >>
  BY <1>1 DEF RestsAt
<1>. QED  BY <1>1, <1>2, RestsFacts DEF IsZero

(* The three ways in which a call ends. *)
LEMMA AssignEnds ==
  ASSUME NEW s, NEW u, AtRest(s, u), NEW ts, IsTerms(ts), Assign(ts, Len(ts)),
         VecIs(vx', ts), vy' = vy
  PROVE  Inv'
<1>1. /\ mem' = Dropped(Linked(mem, ts), x)
      /\ x' = [head |-> Placed(mem, ts), len |-> Len(ts), lead |-> LeadAt(mem', Placed(mem, ts))]
      /\ y' = y /\ merge' = merge
  BY DEF Assign
<1>2. RestsAt(mem, x, y, merge, vx, vy, s, u)
  BY DEF AtRest
<1>3. RestsAt(mem', x', y, merge, vx', vy, ts, u)
  BY <1>1, <1>2, Assigned, Zenon
<1>4. InStep(mem', x', y', merge', vx', vy')
  BY <1>1, <1>3, Zenon DEF InStep
<1>. QED  BY <1>4 DEF Inv

LEMMA NothingEnds ==
  ASSUME NEW s, NEW u, AtRest(s, u), UNCHANGED <<memVars, merge>>,
         VecIs(vx', s), VecIs(vy', u)
  PROVE  Inv'
<1>1. mem' = mem /\ x' = x /\ y' = y /\ merge' = merge
  BY DEF memVars
<1>2. RestsAt(mem, x, y, merge, vx', vy', s, u)
  BY DEF AtRest, RestsAt
<1>3. InStep(mem', x', y', merge', vx', vy')
  BY <1>1, <1>2, Zenon DEF InStep
<1>. QED  BY <1>3 DEF Inv

LEMMA BeginEnds ==
  ASSUME NEW s, NEW u, AtRest(s, u),
         NEW own, NEW tl, NEW tr, NEW k, NEW m, MergeArgs(own, k, m, tl, tr),
         BeginMerge(k, m, Other(own).head, tl, tr),
         VecIs(vx', MergedTerms(s, k, Shifted(m, IF own THEN s ELSE u))),
         vy' = IF tr THEN VecZero ELSE vy
  PROVE  Inv'
<1>1. /\ merge' = Begun(x, y, own, k, m, tl, tr)
      /\ x' = (IF tl THEN [x EXCEPT !.head = Null] ELSE x)
      /\ y' = (IF tr THEN ZeroPoly ELSE y) /\ mem' = mem
  BY DEF BeginMerge, Other, Begun
<1>2. RestsAt(mem, x, y, merge, vx, vy, s, u)
  BY DEF AtRest
<1>0. BeginsWith(x, y, vy, s, u, own, k, m, tl, tr, merge', x', y', vx', vy')
  BY <1>1 DEF BeginsWith
<1>3. InStep(mem, x', y', merge', vx', vy')
  BY <1>0, <1>2, Begin, Zenon
<1>4. InStep(mem', x', y', merge', vx', vy')
  BY <1>1, <1>3
<1>. QED  BY <1>4 DEF Inv

(* What the other backend does. *)
LEMMA VecCalled ==
  ASSUME NEW r, request' = r, VecCall
  PROVE  /\ vx' = VecResult(r, IF r.own THEN vx ELSE vy)
         /\ vy' = CASE r.op = "clone" -> VecClone(vx)
                    [] r.op = "add_consuming" -> VecZero
                    [] OTHER -> vy
BY DEF VecCall

LEMMA AddStep ==
  ASSUME NEW s, NEW u, AtRest(s, u), NEW own \in BOOLEAN, Add(own), VecCall
  PROVE  Inv'
<1> DEFINE v == IF own THEN s ELSE u
           q == IF own THEN vx ELSE vy
           z == Other(own)
<1>1. /\ Terms(mem, x.head) = s /\ Terms(mem, z.head) = v
      /\ IsZero(x) <=> s = << >>
      /\ IsZero(z) <=> v = << >>
      /\ x.len = Len(s) /\ z.len = Len(v)
      /\ IsTerms(s) /\ IsTerms(v) /\ s \in Seq(TermSpace) /\ v \in Seq(TermSpace)
      /\ VecIs(vx, s) /\ VecIs(q, v)
  BY AtRestFacts DEF Other
<1>2. vx' = VecAdd(vx, q) /\ vy' = vy
  <2> DEFINE r == [Request("add") EXCEPT !.own = own]
  <2>1. r.op = "add" /\ r.own = own
    BY DEF Request
  <2>2. request' = r
    BY DEF Add, Asked
  <2> HIDE DEF r
  <2>3. /\ vx' = VecResult(r, IF r.own THEN vx ELSE vy)
        /\ vy' = CASE r.op = "clone" -> VecClone(vx)
                   [] r.op = "add_consuming" -> VecZero
                   [] OTHER -> vy
    BY <2>2, VecCalled
  <2>4. vy' = vy
    BY <2>1, <2>3
  <2>. QED  BY <2>1, <2>3, <2>4 DEF VecResult
<1> HIDE DEF v, q, z
<1>3. VecIs(vx', SumOf(s, 1, v))
  BY <1>1, <1>2, VecSumIs, Zenon
<1>4. \/ v = << >> /\ Assign(s, Len(s))
      \/ v # << >> /\ s = << >> /\ Assign(v, Len(v))
      \/ v # << >> /\ s # << >> /\ BeginMerge(1, One, z.head, FALSE, FALSE)
  BY <1>1 DEF Add, z
<1>5. CASE v = << >>
  BY <1>1, <1>2, <1>3, <1>4, <1>5, AssignEnds DEF SumOf
<1>6. CASE v # << >> /\ s = << >>
  BY <1>1, <1>2, <1>3, <1>4, <1>6, AssignEnds DEF SumOf
<1>7. CASE v # << >> /\ s # << >>
  <2>1. VecIs(vx', MergedTerms(s, 1, Shifted(One, v)))
    <3>1. One \in Monomial
      BY DEF Monomial, One
    <3>2. Shifted(One, v) = v
      BY <1>1, <3>1, ShiftedTerms
    <3>. QED  BY <1>3, <1>7, <3>2 DEF SumOf
  <2>2. MergeArgs(own, 1, One, FALSE, FALSE)
    <3>1. One \in Monomial /\ 1 \in 1 .. P - 1
      BY PAssumption DEF Monomial, One
    <3>. QED  BY <3>1 DEF MergeArgs
  <2>3. /\ BeginMerge(1, One, Other(own).head, FALSE, FALSE)
        /\ VecIs(vx', MergedTerms(s, 1, Shifted(One, IF own THEN s ELSE u)))
        /\ vy' = IF FALSE THEN VecZero ELSE vy
    BY <1>2, <1>4, <1>7, <2>1 DEF v, z
  <2>. QED  BY <2>2, <2>3, BeginEnds, Zenon
<1>. QED  BY <1>5, <1>6, <1>7

LEMMA AddAssignStep ==
  ASSUME NEW s, NEW u, AtRest(s, u), AddAssign, VecCall
  PROVE  Inv'
<1>1. /\ Terms(mem, x.head) = s /\ Terms(mem, y.head) = u
      /\ IsZero(x) <=> s = << >>
      /\ IsZero(y) <=> u = << >>
      /\ x.len = Len(s) /\ y.len = Len(u) /\ x.lead = LeadOf(s, 0)
      /\ IsTerms(s) /\ IsTerms(u) /\ s \in Seq(TermSpace) /\ u \in Seq(TermSpace)
      /\ VecIs(vx, s) /\ VecIs(vy, u)
  BY AtRestFacts
<1>2. vx' = VecAddAssign(vx, vy) /\ vy' = vy
  <2> DEFINE r == Request("add_assign")
  <2>1. r.op = "add_assign" /\ r.own = FALSE
    BY DEF Request
  <2>2. request' = r
    BY DEF AddAssign, Asked
  <2> HIDE DEF r
  <2>3. /\ vx' = VecResult(r, IF r.own THEN vx ELSE vy)
        /\ vy' = CASE r.op = "clone" -> VecClone(vx)
                   [] r.op = "add_consuming" -> VecZero
                   [] OTHER -> vy
    BY <2>2, VecCalled
  <2>4. vy' = vy
    BY <2>1, <2>3
  <2>. QED  BY <2>1, <2>3, <2>4 DEF VecResult
<1>3. VecIs(vx', SumOf(s, 1, u))
  BY <1>1, <1>2, VecSumIs, Zenon
<1>4. \/ u = << >> /\ UNCHANGED <<memVars, merge>>
      \/ u # << >> /\ s = << >> /\ Assign(u, Len(u))
      \/ u # << >> /\ s # << >> /\ BeginMerge(1, One, y.head, FALSE, FALSE)
  BY <1>1 DEF AddAssign
<1>5. CASE u = << >>
  BY <1>1, <1>2, <1>3, <1>4, <1>5, NothingEnds DEF SumOf
<1>6. CASE u # << >> /\ s = << >>
  BY <1>1, <1>2, <1>3, <1>4, <1>6, AssignEnds DEF SumOf
<1>7. CASE u # << >> /\ s # << >>
  <2>1. One \in Monomial /\ 1 \in 1 .. P - 1
    BY PAssumption DEF Monomial, One
  <2>2. MergeArgs(FALSE, 1, One, FALSE, FALSE)
    BY <2>1 DEF MergeArgs
  <2>3. Shifted(One, u) = u
    BY <1>1, <2>1, ShiftedTerms
  <2>4. /\ BeginMerge(1, One, Other(FALSE).head, FALSE, FALSE)
        /\ VecIs(vx', MergedTerms(s, 1, Shifted(One, IF FALSE THEN s ELSE u)))
        /\ vy' = IF FALSE THEN VecZero ELSE vy
    BY <1>2, <1>3, <1>4, <1>7, <2>3 DEF SumOf, Other
  <2>. QED  BY <2>2, <2>4, BeginEnds, Zenon
<1>. QED  BY <1>5, <1>6, <1>7

LEMMA AddConsumingStep ==
  ASSUME NEW s, NEW u, AtRest(s, u), AddConsuming, VecCall
  PROVE  Inv'
<1>1. /\ Terms(mem, x.head) = s /\ Terms(mem, y.head) = u
      /\ IsZero(x) <=> s = << >>
      /\ IsZero(y) <=> u = << >>
      /\ x.len = Len(s) /\ y.len = Len(u) /\ x.lead = LeadOf(s, 0)
      /\ IsTerms(s) /\ IsTerms(u) /\ s \in Seq(TermSpace) /\ u \in Seq(TermSpace)
      /\ VecIs(vx, s) /\ VecIs(vy, u)
  BY AtRestFacts
<1>2. vx' = VecAdd(vx, vy) /\ vy' = VecZero
  <2> DEFINE r == Request("add_consuming")
  <2>1. r.op = "add_consuming" /\ r.own = FALSE
    BY DEF Request
  <2>2. request' = r
    BY DEF AddConsuming, Asked
  <2> HIDE DEF r
  <2>3. /\ vx' = VecResult(r, IF r.own THEN vx ELSE vy)
        /\ vy' = CASE r.op = "clone" -> VecClone(vx)
                   [] r.op = "add_consuming" -> VecZero
                   [] OTHER -> vy
    BY <2>2, VecCalled
  <2>4. vy' = VecZero
    BY <2>1, <2>3
  <2>. QED  BY <2>1, <2>3, <2>4 DEF VecResult
<1>3. VecIs(vx', SumOf(s, 1, u))
  BY <1>1, <1>2, VecSumIs, Zenon
<1>4. \/ u = << >> /\ UNCHANGED <<memVars, merge>>
      \/ u # << >> /\ s = << >> /\ x' = y /\ y' = ZeroPoly /\ UNCHANGED <<mem, merge>>
      \/ u # << >> /\ s # << >> /\ BeginMerge(1, One, y.head, TRUE, TRUE)
  BY <1>1 DEF AddConsuming
<1>5. CASE u = << >>
  BY <1>1, <1>2, <1>3, <1>4, <1>5, NothingEnds, VecZeroIs DEF SumOf
<1>6. CASE u # << >> /\ s = << >>
  <2>1. x' = y /\ y' = ZeroPoly /\ mem' = mem /\ merge' = merge
    BY <1>4, <1>6
  <2>2. Resting(mem, x, y, s, u) /\ HandleIs(y, u) /\ merge = << >> /\ x.head = Null
    BY <1>1, <1>6 DEF AtRest, RestsAt, IsZero
  <2>3. Resting(mem, y, ZeroPoly, u, << >>)
    BY <2>2, TakeOver, Zenon
  <2>4. HandleIs(ZeroPoly, << >>) /\ IsTerms(<< >>) /\ VecIs(VecZero, << >>)
    <3>1. << >> \in Seq(TermSpace)
      OBVIOUS
    <3>. QED  BY <3>1, VecZeroIs DEF HandleIs, ZeroPoly, LeadOf, IsTerms, CanonicalTerms
  <2>5. VecIs(vx', u)
    BY <1>3, <1>6 DEF SumOf
  <2>6. RestsAt(mem, y, ZeroPoly, merge, vx', VecZero, u, << >>)
    BY <1>1, <2>2, <2>3, <2>4, <2>5 DEF RestsAt
  <2>7. InStep(mem', x', y', merge', vx', vy')
    BY <1>2, <2>1, <2>6 DEF InStep
  <2>. QED  BY <2>7 DEF Inv
<1>7. CASE u # << >> /\ s # << >>
  <2>1. One \in Monomial /\ 1 \in 1 .. P - 1
    BY PAssumption DEF Monomial, One
  <2>2. MergeArgs(FALSE, 1, One, TRUE, TRUE)
    BY <2>1 DEF MergeArgs
  <2>3. Shifted(One, u) = u
    BY <1>1, <2>1, ShiftedTerms
  <2>4. /\ BeginMerge(1, One, Other(FALSE).head, TRUE, TRUE)
        /\ VecIs(vx', MergedTerms(s, 1, Shifted(One, IF FALSE THEN s ELSE u)))
        /\ vy' = IF TRUE THEN VecZero ELSE vy
    BY <1>2, <1>3, <1>4, <1>7, <2>3 DEF SumOf, Other
  <2>. QED  BY <2>2, <2>4, BeginEnds, Zenon
<1>. QED  BY <1>5, <1>6, <1>7

LEMMA SubMmMultQqConsumingStep ==
  ASSUME NEW s, NEW u, AtRest(s, u), NEW c \in 0 .. P - 1, NEW m \in Monomial,
         SubMmMultQqConsuming(c, m), VecCall
  PROVE  Inv'
<1>1. /\ Terms(mem, x.head) = s /\ Terms(mem, y.head) = u
      /\ IsZero(x) <=> s = << >>
      /\ IsZero(y) <=> u = << >>
      /\ x.len = Len(s) /\ y.len = Len(u) /\ x.lead = LeadOf(s, 0)
      /\ IsTerms(s) /\ IsTerms(u) /\ s \in Seq(TermSpace) /\ u \in Seq(TermSpace)
      /\ VecIs(vx, s) /\ VecIs(vy, u)
  BY AtRestFacts
<1>2. vx' = VecSubMulTerm(vx, c, m, vy) /\ vy' = vy
  <2> DEFINE r == [Request("sub_mm_mult_qq_consuming") EXCEPT !.c = c, !.m = m]
  <2>1. r.op = "sub_mm_mult_qq_consuming" /\ r.c = c /\ r.m = m /\ r.own = FALSE
    BY DEF Request
  <2>2. request' = r
    BY DEF SubMmMultQqConsuming, Asked
  <2> HIDE DEF r
  <2>3. /\ vx' = VecResult(r, IF r.own THEN vx ELSE vy)
        /\ vy' = CASE r.op = "clone" -> VecClone(vx)
                   [] r.op = "add_consuming" -> VecZero
                   [] OTHER -> vy
    BY <2>2, VecCalled
  <2>4. vy' = vy
    BY <2>1, <2>3
  <2>. QED  BY <2>1, <2>3, <2>4 DEF VecResult
<1>3. VecIs(vx', IF c = 0 \/ u = << >> THEN s ELSE MergedTerms(s, P - c, Shifted(m, u)))
  BY <1>1, <1>2, VecSubMulIs
<1>4. \/ (c = 0 \/ u = << >>) /\ UNCHANGED <<memVars, merge>>
      \/ ~(c = 0 \/ u = << >>) /\ BeginMerge(P - c, m, y.head, TRUE, FALSE)
  BY <1>1 DEF SubMmMultQqConsuming
<1>5. CASE c = 0 \/ u = << >>
  BY <1>1, <1>2, <1>3, <1>4, <1>5, NothingEnds
<1>6. CASE ~(c = 0 \/ u = << >>)
  <2>1. P - c \in 1 .. P - 1
    BY <1>6, PAssumption
  <2>2. MergeArgs(FALSE, P - c, m, TRUE, FALSE)
    BY <2>1 DEF MergeArgs
  <2>3. /\ BeginMerge(P - c, m, Other(FALSE).head, TRUE, FALSE)
        /\ VecIs(vx', MergedTerms(s, P - c, Shifted(m, IF FALSE THEN s ELSE u)))
        /\ vy' = IF FALSE THEN VecZero ELSE vy
    BY <1>2, <1>3, <1>4, <1>6 DEF Other
  <2>. QED  BY <2>2, <2>3, BeginEnds, Zenon
<1>. QED  BY <1>5, <1>6

LEMMA CloneStep ==
  ASSUME NEW s, NEW u, AtRest(s, u), CloneIntoY, VecCall
  PROVE  Inv'
<1>1. /\ Terms(mem, x.head) = s /\ Terms(mem, y.head) = u
      /\ IsZero(x) <=> s = << >>
      /\ IsZero(y) <=> u = << >>
      /\ x.len = Len(s) /\ y.len = Len(u) /\ x.lead = LeadOf(s, 0)
      /\ IsTerms(s) /\ IsTerms(u) /\ s \in Seq(TermSpace) /\ u \in Seq(TermSpace)
      /\ VecIs(vx, s) /\ VecIs(vy, u)
  BY AtRestFacts
<1>2. vx' = vx /\ vy' = VecClone(vx)
  <2> DEFINE r == Request("clone")
  <2>1. r.op = "clone" /\ r.own = FALSE
    BY DEF Request
  <2>2. request' = r
    BY DEF CloneIntoY, Asked
  <2> HIDE DEF r
  <2>3. /\ vx' = VecResult(r, IF r.own THEN vx ELSE vy)
        /\ vy' = CASE r.op = "clone" -> VecClone(vx)
                   [] r.op = "add_consuming" -> VecZero
                   [] OTHER -> vy
    BY <2>2, VecCalled
  <2>4. vy' = VecClone(vx)
    BY <2>1, <2>3
  <2>. QED  BY <2>1, <2>3, <2>4 DEF VecResult
<1>3. /\ mem' = Dropped(Linked(mem, s), y)
      /\ y' = [head |-> Placed(mem, s), len |-> Len(s), lead |-> LeadOf(s, 0)]
      /\ x' = x /\ merge' = merge
  BY <1>1 DEF CloneIntoY
<1>4. RestsAt(mem, x, y, merge, vx, vy, s, u)
  BY DEF AtRest
<1>5. RestsAt(mem', x, y', merge, vx, VecClone(vx), s, s)
  BY <1>3, <1>4, Cloned, Zenon
<1>6. InStep(mem', x', y', merge', vx', vy')
  BY <1>2, <1>3, <1>5 DEF InStep
<1>. QED  BY <1>6 DEF Inv

LEMMA NegStep ==
  ASSUME NEW s, NEW u, AtRest(s, u), Neg, VecCall
  PROVE  Inv'
<1>1. /\ Terms(mem, x.head) = s /\ Terms(mem, y.head) = u
      /\ IsZero(x) <=> s = << >>
      /\ IsZero(y) <=> u = << >>
      /\ x.len = Len(s) /\ y.len = Len(u) /\ x.lead = LeadOf(s, 0)
      /\ IsTerms(s) /\ IsTerms(u) /\ s \in Seq(TermSpace) /\ u \in Seq(TermSpace)
      /\ VecIs(vx, s) /\ VecIs(vy, u)
  BY AtRestFacts
<1>2. vx' = VecNeg(vx) /\ vy' = vy
  <2> DEFINE r == Request("neg")
  <2>1. r.op = "neg" /\ r.own = FALSE
    BY DEF Request
  <2>2. request' = r
    BY DEF Neg, Asked
  <2> HIDE DEF r
  <2>3. /\ vx' = VecResult(r, IF r.own THEN vx ELSE vy)
        /\ vy' = CASE r.op = "clone" -> VecClone(vx)
                   [] r.op = "add_consuming" -> VecZero
                   [] OTHER -> vy
    BY <2>2, VecCalled
  <2>4. vy' = vy
    BY <2>1, <2>3
  <2>. QED  BY <2>1, <2>3, <2>4 DEF VecResult
<1>3. VecIs(vx', Negated(s))
  BY <1>1, <1>2, VecUnaryIs
<1>4. IsTerms(Negated(s)) /\ Len(Negated(s)) = Len(s)
  BY <1>1, NegatedTerms
<1>5. Assign(Negated(s), Len(Negated(s)))
  BY <1>1, <1>4 DEF Neg
<1>. QED  BY <1>2, <1>3, <1>4, <1>5, AssignEnds, Zenon

LEMMA ScaleStep ==
  ASSUME NEW s, NEW u, AtRest(s, u), NEW c \in 0 .. P - 1, ScaleBy(c), VecCall
  PROVE  Inv'
<1>1. /\ Terms(mem, x.head) = s /\ Terms(mem, y.head) = u
      /\ IsZero(x) <=> s = << >>
      /\ IsZero(y) <=> u = << >>
      /\ x.len = Len(s) /\ y.len = Len(u) /\ x.lead = LeadOf(s, 0)
      /\ IsTerms(s) /\ IsTerms(u) /\ s \in Seq(TermSpace) /\ u \in Seq(TermSpace)
      /\ VecIs(vx, s) /\ VecIs(vy, u)
  BY AtRestFacts
<1>2. vx' = VecScale(c, vx) /\ vy' = vy
  <2> DEFINE r == [Request("scale") EXCEPT !.c = c]
  <2>1. r.op = "scale" /\ r.c = c /\ r.own = FALSE
    BY DEF Request
  <2>2. request' = r
    BY DEF ScaleBy, Asked
  <2> HIDE DEF r
  <2>3. /\ vx' = VecResult(r, IF r.own THEN vx ELSE vy)
        /\ vy' = CASE r.op = "clone" -> VecClone(vx)
                   [] r.op = "add_consuming" -> VecZero
                   [] OTHER -> vy
    BY <2>2, VecCalled
  <2>4. vy' = vy
    BY <2>1, <2>3
  <2>. QED  BY <2>1, <2>3, <2>4 DEF VecResult
<1>3. VecIs(vx', IF c = 0 THEN << >> ELSE Scaled(c, s))
  BY <1>1, <1>2, VecUnaryIs
<1>4. CASE c = 0
  <2>1. IsTerms(<< >>) /\ Len(<< >>) = 0
    <3>1. << >> \in Seq(TermSpace)
      OBVIOUS
    <3>. QED  BY <3>1 DEF IsTerms, CanonicalTerms
  <2>2. Assign(<< >>, Len(<< >>))
    BY <1>4, <2>1 DEF ScaleBy
  <2>3. VecIs(vx', << >>)
    BY <1>3, <1>4
  <2>. QED  BY <1>2, <2>1, <2>2, <2>3, AssignEnds, Zenon
<1>5. CASE c # 0
  <2>1. IsTerms(Scaled(c, s)) /\ Len(Scaled(c, s)) = Len(s)
    BY <1>1, <1>5, ScaledTerms
  <2>2. Assign(Scaled(c, s), Len(Scaled(c, s)))
    BY <1>1, <1>5, <2>1 DEF ScaleBy
  <2>3. VecIs(vx', Scaled(c, s))
    BY <1>3, <1>5
  <2>. QED  BY <1>2, <2>1, <2>2, <2>3, AssignEnds, Zenon
<1>. QED  BY <1>4, <1>5

LEMMA ShiftStep ==
  ASSUME NEW s, NEW u, AtRest(s, u), NEW m \in Monomial, Shift(m), VecCall
  PROVE  Inv'
<1>1. /\ Terms(mem, x.head) = s /\ Terms(mem, y.head) = u
      /\ IsZero(x) <=> s = << >>
      /\ IsZero(y) <=> u = << >>
      /\ x.len = Len(s) /\ y.len = Len(u) /\ x.lead = LeadOf(s, 0)
      /\ IsTerms(s) /\ IsTerms(u) /\ s \in Seq(TermSpace) /\ u \in Seq(TermSpace)
      /\ VecIs(vx, s) /\ VecIs(vy, u)
  BY AtRestFacts
<1>2. vx' = VecShift(m, vx) /\ vy' = vy
  <2> DEFINE r == [Request("shift") EXCEPT !.m = m]
  <2>1. r.op = "shift" /\ r.m = m /\ r.own = FALSE
    BY DEF Request
  <2>2. request' = r
    BY DEF Shift, Asked
  <2> HIDE DEF r
  <2>3. /\ vx' = VecResult(r, IF r.own THEN vx ELSE vy)
        /\ vy' = CASE r.op = "clone" -> VecClone(vx)
                   [] r.op = "add_consuming" -> VecZero
                   [] OTHER -> vy
    BY <2>2, VecCalled
  <2>4. vy' = vy
    BY <2>1, <2>3
  <2>. QED  BY <2>1, <2>3, <2>4 DEF VecResult
<1>3. VecIs(vx', Shifted(m, s))
  BY <1>1, <1>2, VecUnaryIs
<1>4. IsTerms(Shifted(m, s)) /\ Len(Shifted(m, s)) = Len(s)
  BY <1>1, ShiftedTerms
<1>5. Assign(Shifted(m, s), Len(Shifted(m, s)))
  BY <1>1, <1>4 DEF Shift
<1>. QED  BY <1>2, <1>3, <1>4, <1>5, AssignEnds, Zenon

LEMMA MonicStep ==
  ASSUME NEW s, NEW u, AtRest(s, u), MakeMonic, VecCall
  PROVE  Inv'
<1>1. /\ Terms(mem, x.head) = s /\ Terms(mem, y.head) = u
      /\ IsZero(x) <=> s = << >>
      /\ IsZero(y) <=> u = << >>
      /\ x.len = Len(s) /\ y.len = Len(u) /\ x.lead = LeadOf(s, 0)
      /\ IsTerms(s) /\ IsTerms(u) /\ s \in Seq(TermSpace) /\ u \in Seq(TermSpace)
      /\ VecIs(vx, s) /\ VecIs(vy, u)
  BY AtRestFacts
<1>2. vx' = VecMonic(vx) /\ vy' = vy
  <2> DEFINE r == Request("monic")
  <2>1. r.op = "monic" /\ r.own = FALSE
    BY DEF Request
  <2>2. request' = r
    BY DEF MakeMonic, Asked
  <2> HIDE DEF r
  <2>3. /\ vx' = VecResult(r, IF r.own THEN vx ELSE vy)
        /\ vy' = CASE r.op = "clone" -> VecClone(vx)
                   [] r.op = "add_consuming" -> VecZero
                   [] OTHER -> vy
    BY <2>2, VecCalled
  <2>4. vy' = vy
    BY <2>1, <2>3
  <2>. QED  BY <2>1, <2>3, <2>4 DEF VecResult
<1>3. /\ VecIs(vx', MonicOf(s)) /\ IsTerms(MonicOf(s)) /\ Len(MonicOf(s)) = Len(s)
      /\ s # << >> => LeadOf(s, 0)[1] = s[1].c
  BY <1>1, <1>2, VecMonicIs
<1>4. Assign(MonicOf(s), Len(MonicOf(s)))
  <2>1. IsZero(x) \/ x.lead[1] = 1 <=> s = << >> \/ s[1].c = 1
    BY <1>1, <1>3
  <2>2. CASE s = << >> \/ s[1].c = 1
    BY <1>1, <1>3, <2>1, <2>2 DEF MakeMonic, MonicOf
  <2>3. CASE ~(s = << >> \/ s[1].c = 1)
    <3>1. x.lead[1] = s[1].c
      BY <1>1, <1>3, <2>3
    <3>. QED  BY <1>1, <1>3, <2>1, <2>3, <3>1 DEF MakeMonic, MonicOf
  <2>. QED  BY <2>2, <2>3
<1>. QED  BY <1>2, <1>3, <1>4, AssignEnds, Zenon

LEMMA DropLeadingStep ==
  ASSUME NEW s, NEW u, AtRest(s, u), DropLeadingTerm, VecCall
  PROVE  Inv'
<1>1. /\ Terms(mem, x.head) = s /\ Terms(mem, y.head) = u
      /\ IsZero(x) <=> s = << >>
      /\ IsZero(y) <=> u = << >>
      /\ x.len = Len(s) /\ y.len = Len(u) /\ x.lead = LeadOf(s, 0)
      /\ IsTerms(s) /\ IsTerms(u) /\ s \in Seq(TermSpace) /\ u \in Seq(TermSpace)
      /\ VecIs(vx, s) /\ VecIs(vy, u)
  BY AtRestFacts
<1>2. vx' = VecDropLeading(vx) /\ vy' = vy
  <2> DEFINE r == Request("drop_leading")
  <2>1. r.op = "drop_leading" /\ r.own = FALSE
    BY DEF Request
  <2>2. request' = r
    BY DEF DropLeadingTerm, Asked
  <2> HIDE DEF r
  <2>3. /\ vx' = VecResult(r, IF r.own THEN vx ELSE vy)
        /\ vy' = CASE r.op = "clone" -> VecClone(vx)
                   [] r.op = "add_consuming" -> VecZero
                   [] OTHER -> vy
    BY <2>2, VecCalled
  <2>4. vy' = vy
    BY <2>1, <2>3
  <2>. QED  BY <2>1, <2>3, <2>4 DEF VecResult
<1>3. VecIs(vx', IF Len(s) <= 1 THEN << >> ELSE Tail(s))
  BY <1>1, <1>2, VecUnaryIs
<1>4. CASE Len(s) <= 1
  <2>1. IsTerms(<< >>) /\ Len(<< >>) = 0
    <3>1. << >> \in Seq(TermSpace)
      OBVIOUS
    <3>. QED  BY <3>1 DEF IsTerms, CanonicalTerms
  <2>2. Assign(<< >>, Len(<< >>))
    BY <1>1, <1>4, <2>1 DEF DropLeadingTerm
  <2>3. VecIs(vx', << >>)
    BY <1>3, <1>4
  <2>. QED  BY <1>2, <2>1, <2>2, <2>3, AssignEnds, Zenon
<1>5. CASE ~(Len(s) <= 1)
  <2>1. IsTerms(Tail(s)) /\ Len(Tail(s)) = Len(s) - 1
    <3>1. s # << >>
      BY <1>1, <1>5
    <3>. QED  BY <1>1, <3>1, TailTerms
  <2>2. Assign(Tail(s), Len(Tail(s)))
    BY <1>1, <1>5, <2>1 DEF DropLeadingTerm
  <2>3. VecIs(vx', Tail(s))
    BY <1>3, <1>5
  <2>. QED  BY <1>2, <2>1, <2>2, <2>3, AssignEnds, Zenon
<1>. QED  BY <1>4, <1>5

LEMMA DropLeadingInPlaceStep ==
  ASSUME NEW s, NEW u, AtRest(s, u), DropLeadingInPlace, VecCall
  PROVE  Inv'
<1>1. /\ Terms(mem, x.head) = s /\ Terms(mem, y.head) = u
      /\ IsZero(x) <=> s = << >>
      /\ IsZero(y) <=> u = << >>
      /\ x.len = Len(s) /\ y.len = Len(u) /\ x.lead = LeadOf(s, 0)
      /\ IsTerms(s) /\ IsTerms(u) /\ s \in Seq(TermSpace) /\ u \in Seq(TermSpace)
      /\ VecIs(vx, s) /\ VecIs(vy, u)
  BY AtRestFacts
<1>2. vx' = VecDropLeadingInPlace(vx) /\ vy' = vy
  <2> DEFINE r == Request("drop_leading_in_place")
  <2>1. r.op = "drop_leading_in_place" /\ r.own = FALSE
    BY DEF Request
  <2>2. request' = r
    BY DEF DropLeadingInPlace, Asked
  <2> HIDE DEF r
  <2>3. /\ vx' = VecResult(r, IF r.own THEN vx ELSE vy)
        /\ vy' = CASE r.op = "clone" -> VecClone(vx)
                   [] r.op = "add_consuming" -> VecZero
                   [] OTHER -> vy
    BY <2>2, VecCalled
  <2>4. vy' = vy
    BY <2>1, <2>3
  <2>. QED  BY <2>1, <2>3, <2>4 DEF VecResult
<1>3. VecIs(vx', IF s = << >> THEN s ELSE Tail(s))
  BY <1>1, <1>2, VecUnaryIs
<1>4. CASE s = << >>
  <2>1. UNCHANGED <<memVars, merge>>
    BY <1>1, <1>4 DEF DropLeadingInPlace, memVars
  <2>. QED  BY <1>1, <1>2, <1>3, <1>4, <2>1, NothingEnds
<1>5. CASE s # << >>
  <2>1. /\ mem' = Freed(mem, {x.head}) /\ y' = y /\ merge' = merge
        /\ x' = [head |-> mem[x.head].next, len |-> Len(s) - 1, lead |-> LeadAt(mem', mem[x.head].next)]
    BY <1>1, <1>5 DEF DropLeadingInPlace, Handle
  <2>2. /\ Resting(mem, x, y, s, u) /\ HandleIs(y, u) /\ merge = << >> /\ x.head # Null
    BY <1>1, <1>5 DEF AtRest, RestsAt, IsZero
  <2>3. x'.head = mem[x.head].next
    BY <2>1
  <2>4. Resting(mem', x', y, Tail(s), u)
    BY <2>1, <2>2, <2>3, HeadDropped, Zenon
  <2>5. IsTerms(Tail(s)) /\ Len(Tail(s)) = Len(s) - 1
    BY <1>1, <1>5, TailTerms
  <2>6. LeadAt(mem', x'.head) = LeadOf(Tail(s), 0)
    BY <2>4, RestingFacts
  <2>7. HandleIs(x', Tail(s))
    BY <2>1, <2>3, <2>5, <2>6 DEF HandleIs
  <2>8. VecIs(vx', Tail(s))
    BY <1>3, <1>5
  <2>9. RestsAt(mem', x', y, merge, vx', vy, Tail(s), u)
    BY <1>1, <2>2, <2>4, <2>5, <2>7, <2>8 DEF RestsAt
  <2>10. InStep(mem', x', y', merge', vx', vy')
    BY <1>2, <2>1, <2>9 DEF InStep
  <2>. QED  BY <2>10 DEF Inv
<1>. QED  BY <1>4, <1>5

LEMMA FromTermsStep ==
  ASSUME NEW s, NEW u, AtRest(s, u), NEW ts \in Seq(TermSpace), FromTerms(ts), VecCall
  PROVE  Inv'
<1>1. /\ Terms(mem, x.head) = s /\ Terms(mem, y.head) = u
      /\ IsZero(x) <=> s = << >>
      /\ IsZero(y) <=> u = << >>
      /\ x.len = Len(s) /\ y.len = Len(u) /\ x.lead = LeadOf(s, 0)
      /\ IsTerms(s) /\ IsTerms(u) /\ s \in Seq(TermSpace) /\ u \in Seq(TermSpace)
      /\ VecIs(vx, s) /\ VecIs(vy, u)
  BY AtRestFacts
<1>2. vx' = VecFromTerms(ts) /\ vy' = vy
  <2> DEFINE r == [Request("from_terms") EXCEPT !.ts = ts]
  <2>1. r.op = "from_terms" /\ r.ts = ts /\ r.own = FALSE
    BY DEF Request
  <2>2. request' = r
    BY DEF FromTerms, Asked
  <2> HIDE DEF r
  <2>3. /\ vx' = VecResult(r, IF r.own THEN vx ELSE vy)
        /\ vy' = CASE r.op = "clone" -> VecClone(vx)
                   [] r.op = "add_consuming" -> VecZero
                   [] OTHER -> vy
    BY <2>2, VecCalled
  <2>4. vy' = vy
    BY <2>1, <2>3
  <2>. QED  BY <2>1, <2>3, <2>4 DEF VecResult
<1>3. IsTerms(Surviving(ts)) /\ VecIs(vx', Surviving(ts))
  BY <1>2, SurvivingTerms, VecFromTermsIs
<1>4. Assign(Surviving(ts), Len(Surviving(ts)))
  BY DEF FromTerms
<1>. QED  BY <1>2, <1>3, <1>4, AssignEnds, Zenon

LEMMA MultiplyStep ==
  ASSUME NEW s, NEW u, AtRest(s, u), Multiply, VecCall
  PROVE  Inv'
<1>1. /\ Terms(mem, x.head) = s /\ Terms(mem, y.head) = u
      /\ IsZero(x) <=> s = << >>
      /\ IsZero(y) <=> u = << >>
      /\ x.len = Len(s) /\ y.len = Len(u) /\ x.lead = LeadOf(s, 0)
      /\ IsTerms(s) /\ IsTerms(u) /\ s \in Seq(TermSpace) /\ u \in Seq(TermSpace)
      /\ VecIs(vx, s) /\ VecIs(vy, u)
  BY AtRestFacts
<1>2. vx' = VecMul(vx, vy) /\ vy' = vy
  <2> DEFINE r == Request("mul")
  <2>1. r.op = "mul" /\ r.own = FALSE
    BY DEF Request
  <2>2. request' = r
    BY DEF Multiply, Asked
  <2> HIDE DEF r
  <2>3. /\ vx' = VecResult(r, IF r.own THEN vx ELSE vy)
        /\ vy' = CASE r.op = "clone" -> VecClone(vx)
                   [] r.op = "add_consuming" -> VecZero
                   [] OTHER -> vy
    BY <2>2, VecCalled
  <2>4. vy' = vy
    BY <2>1, <2>3
  <2>. QED  BY <2>1, <2>3, <2>4 DEF VecResult
<1> DEFINE ts == Surviving(Products(s, u))
<1>3. VecIs(vx', ts)
  BY <1>1, <1>2, VecProductIs
<1>4. IsTerms(ts)
  BY <1>1, ProductTerms, SurvivingTerms
<1>5. Assign(ts, Len(ts))
  BY <1>1 DEF Multiply
<1> HIDE DEF ts
<1>. QED  BY <1>2, <1>3, <1>4, <1>5, AssignEnds, Zenon

LEMMA SubStep ==
  ASSUME NEW s, NEW u, AtRest(s, u), NEW own \in BOOLEAN, Sub(own), VecCall
  PROVE  Inv'
<1> DEFINE v == IF own THEN s ELSE u
           q == IF own THEN vx ELSE vy
           z == Other(own)
<1>1. /\ Terms(mem, x.head) = s /\ Terms(mem, z.head) = v
      /\ IsZero(x) <=> s = << >>
      /\ IsZero(z) <=> v = << >>
      /\ x.len = Len(s) /\ z.len = Len(v)
      /\ IsTerms(s) /\ IsTerms(v) /\ s \in Seq(TermSpace) /\ v \in Seq(TermSpace)
      /\ VecIs(vx, s) /\ VecIs(q, v)
  BY AtRestFacts DEF Other
<1>2. vx' = VecSub(vx, q) /\ vy' = vy
  <2> DEFINE r == [Request("sub") EXCEPT !.own = own]
  <2>1. r.op = "sub" /\ r.own = own
    BY DEF Request
  <2>2. request' = r
    BY DEF Sub, Asked
  <2> HIDE DEF r
  <2>3. /\ vx' = VecResult(r, IF r.own THEN vx ELSE vy)
        /\ vy' = CASE r.op = "clone" -> VecClone(vx)
                   [] r.op = "add_consuming" -> VecZero
                   [] OTHER -> vy
    BY <2>2, VecCalled
  <2>4. vy' = vy
    BY <2>1, <2>3
  <2>. QED  BY <2>1, <2>3, <2>4 DEF VecResult
<1> HIDE DEF v, q, z
<1>3. VecIs(vx', IF v = << >> THEN s ELSE IF s = << >> THEN Negated(v)
                 ELSE MergedTerms(s, P - 1, v))
  BY <1>1, <1>2, VecSumIs
<1>4. \/ v = << >> /\ Assign(s, Len(s))
      \/ v # << >> /\ s = << >> /\ Assign(Negated(v), Len(v))
      \/ v # << >> /\ s # << >> /\ BeginMerge(P - 1, One, z.head, FALSE, FALSE)
  BY <1>1 DEF Sub, z
<1>5. CASE v = << >>
  BY <1>1, <1>2, <1>3, <1>4, <1>5, AssignEnds
<1>6. CASE v # << >> /\ s = << >>
  <2>1. IsTerms(Negated(v)) /\ Len(Negated(v)) = Len(v)
    BY <1>1, NegatedTerms
  <2>2. Assign(Negated(v), Len(Negated(v))) /\ VecIs(vx', Negated(v))
    BY <1>3, <1>4, <1>6, <2>1
  <2>. QED  BY <1>2, <2>1, <2>2, AssignEnds, Zenon
<1>7. CASE v # << >> /\ s # << >>
  <2>0. One \in Monomial /\ P - 1 \in 1 .. P - 1
    BY PAssumption DEF Monomial, One
  <2>1. VecIs(vx', MergedTerms(s, P - 1, Shifted(One, v)))
    <3>2. Shifted(One, v) = v
      BY <1>1, <2>0, ShiftedTerms
    <3>. QED  BY <1>3, <1>7, <3>2
  <2>2. MergeArgs(own, P - 1, One, FALSE, FALSE)
    BY <2>0 DEF MergeArgs
  <2>3. /\ BeginMerge(P - 1, One, Other(own).head, FALSE, FALSE)
        /\ VecIs(vx', MergedTerms(s, P - 1, Shifted(One, IF own THEN s ELSE u)))
        /\ vy' = IF FALSE THEN VecZero ELSE vy
    BY <1>2, <1>4, <1>7, <2>1 DEF v, z
  <2>. QED  BY <2>2, <2>3, BeginEnds, Zenon
<1>. QED  BY <1>5, <1>6, <1>7

LEMMA SubMulTermStep ==
  ASSUME NEW s, NEW u, AtRest(s, u), NEW c \in 0 .. P - 1, NEW m \in Monomial,
         NEW own \in BOOLEAN, SubMulTerm(c, m, own), VecCall
  PROVE  Inv'
<1> DEFINE v == IF own THEN s ELSE u
           q == IF own THEN vx ELSE vy
           z == Other(own)
<1>1. /\ Terms(mem, x.head) = s /\ Terms(mem, z.head) = v
      /\ IsZero(x) <=> s = << >>
      /\ IsZero(z) <=> v = << >>
      /\ x.len = Len(s) /\ z.len = Len(v)
      /\ IsTerms(s) /\ IsTerms(v) /\ s \in Seq(TermSpace) /\ v \in Seq(TermSpace)
      /\ VecIs(vx, s) /\ VecIs(q, v)
  BY AtRestFacts DEF Other
<1>2. vx' = VecSubMulTerm(vx, c, m, q) /\ vy' = vy
  <2> DEFINE r == [Request("sub_mul_term") EXCEPT !.c = c, !.m = m, !.own = own]
  <2>1. r.op = "sub_mul_term" /\ r.own = own /\ r.c = c /\ r.m = m
    BY DEF Request
  <2>2. request' = r
    BY DEF SubMulTerm, Asked
  <2> HIDE DEF r
  <2>3. /\ vx' = VecResult(r, IF r.own THEN vx ELSE vy)
        /\ vy' = CASE r.op = "clone" -> VecClone(vx)
                   [] r.op = "add_consuming" -> VecZero
                   [] OTHER -> vy
    BY <2>2, VecCalled
  <2>4. vy' = vy
    BY <2>1, <2>3
  <2>. QED  BY <2>1, <2>3, <2>4 DEF VecResult
<1> HIDE DEF v, q, z
<1>3. VecIs(vx', IF c = 0 \/ v = << >> THEN s ELSE MergedTerms(s, P - c, Shifted(m, v)))
  BY <1>1, <1>2, VecSubMulIs
<1>4. \/ (c = 0 \/ v = << >>) /\ Assign(s, Len(s))
      \/ ~(c = 0 \/ v = << >>) /\ BeginMerge(P - c, m, z.head, FALSE, FALSE)
  BY <1>1 DEF SubMulTerm, z
<1>5. CASE c = 0 \/ v = << >>
  BY <1>1, <1>2, <1>3, <1>4, <1>5, AssignEnds
<1>6. CASE ~(c = 0 \/ v = << >>)
  <2>1. P - c \in 1 .. P - 1
    BY <1>6, PAssumption
  <2>2. MergeArgs(own, P - c, m, FALSE, FALSE)
    BY <2>1 DEF MergeArgs
  <2>3. /\ BeginMerge(P - c, m, Other(own).head, FALSE, FALSE)
        /\ VecIs(vx', MergedTerms(s, P - c, Shifted(m, IF own THEN s ELSE u)))
        /\ vy' = IF FALSE THEN VecZero ELSE vy
    BY <1>2, <1>3, <1>4, <1>6 DEF v, z
  <2>. QED  BY <2>2, <2>3, BeginEnds, Zenon
<1>. QED  BY <1>5, <1>6

LEMMA CallStep ==
  ASSUME Inv, Call, VecCall
  PROVE  Inv'
<1>1. merge = << >>
  BY DEF Call, Asked, Idle, Add, Sub, SubMulTerm, SubMmMultQqConsuming, AddAssign, AddConsuming,
         CloneIntoY, Neg, MakeMonic, DropLeadingTerm, DropLeadingInPlace, Multiply, ScaleBy, Shift,
         FromTerms
<1>2. PICK s, u : AtRest(s, u)
  <2>1. \A s, u, o, l, r : ~MergesAt(mem, x, y, merge, vx, vy, s, u, o, l, r)
    BY <1>1, MergesFacts
  <2>. QED  BY <2>1, Zenon DEF Inv, InStep, AtRest
<1>3. /\ \A m \in Multipliers : m \in Monomial
      /\ \A ts \in TermSeqs : ts \in Seq(TermSpace)
  BY InputsAssumption
<1>4. ASSUME NEW own \in BOOLEAN, Add(own) \/ Sub(own) PROVE Inv'
  BY <1>2, <1>4, AddStep, SubStep
<1>5. ASSUME NEW c \in 0 .. P - 1, NEW m \in Multipliers,
             \/ \E own \in BOOLEAN : SubMulTerm(c, m, own)
             \/ SubMmMultQqConsuming(c, m)
      PROVE  Inv'
  BY <1>2, <1>3, <1>5, SubMulTermStep, SubMmMultQqConsumingStep
<1>6. ASSUME NEW c \in 0 .. P - 1, ScaleBy(c) PROVE Inv'
  BY <1>2, <1>6, ScaleStep
<1>7. ASSUME NEW m \in Multipliers, Shift(m) PROVE Inv'
  BY <1>2, <1>3, <1>7, ShiftStep
<1>8. ASSUME NEW ts \in TermSeqs, FromTerms(ts) PROVE Inv'
  BY <1>2, <1>3, <1>8, FromTermsStep
<1>9. CASE AddAssign
  BY <1>2, <1>9, AddAssignStep
<1>10. CASE AddConsuming
  BY <1>2, <1>10, AddConsumingStep
<1>11. CASE CloneIntoY
  BY <1>2, <1>11, CloneStep
<1>12. CASE Neg
  BY <1>2, <1>12, NegStep
<1>13. CASE MakeMonic
  BY <1>2, <1>13, MonicStep
<1>14. CASE DropLeadingTerm
  BY <1>2, <1>14, DropLeadingStep
<1>15. CASE DropLeadingInPlace
  BY <1>2, <1>15, DropLeadingInPlaceStep
<1>16. CASE Multiply
  BY <1>2, <1>16, MultiplyStep
<1>. QED  BY <1>4, <1>5, <1>6, <1>7, <1>8, <1>9, <1>10, <1>11, <1>12, <1>13, <1>14, <1>15, <1>16, Zenon DEF Call

LEMMA InitRests ==
  ASSUME BackendsInit
  PROVE  \E p \in InitialPolys, q \in InitialPolys : RestsAt(mem, x, y, merge, vx, vy, p, q)
<1>1. PICK p \in InitialPolys, q \in InitialPolys :
        LET first == Linked(<< >>, p)
        IN  /\ mem = Linked(first, q)
            /\ x = Handle(mem, Placed(<< >>, p), Len(p))
            /\ y = Handle(mem, Placed(first, q), Len(q))
  BY DEF BackendsInit, Init
<1> DEFINE first == Linked(<< >>, p)
<1>2. IsTerms(p) /\ IsTerms(q) /\ p \in Seq(TermSpace) /\ q \in Seq(TermSpace)
  BY InputsAssumption DEF IsTerms
<1>3. /\ first = Linked(<< >>, p) /\ mem = Linked(first, q)
      /\ x.head = Placed(<< >>, p) /\ y.head = Placed(first, q)
  BY <1>1 DEF Handle
<1> HIDE DEF first
<1>4. Resting(mem, x, y, p, q)
  BY <1>2, <1>3, InitialHeap, SMT
<1>5. /\ LeadAt(mem, x.head) = LeadOf(p, 0) /\ LeadAt(mem, y.head) = LeadOf(q, 0)
      /\ Terms(mem, x.head) = p /\ Terms(mem, y.head) = q
  BY <1>4, RestingFacts
<1>6. HandleIs(x, p) /\ HandleIs(y, q)
  BY <1>1, <1>5 DEF Handle, HandleIs
<1>7. merge = << >> /\ vx = Vec(p) /\ vy = Vec(q)
  BY <1>5 DEF BackendsInit, Init
<1>8. VecIs(vx, p) /\ VecIs(vy, q)
  BY <1>2, <1>7, VecOf
<1>. QED  BY <1>2, <1>4, <1>6, <1>7, <1>8 DEF RestsAt

LEMMA InitStep ==
  ASSUME BackendsInit
  PROVE  Inv
BY InitRests DEF Inv, InStep

LEMMA NextStep ==
  ASSUME Inv, [BackendsNext]_backendVars
  PROVE  Inv'
<1>1. CASE Call /\ VecCall
  BY <1>1, CallStep
<1>2. CASE Turn /\ UNCHANGED <<vx, vy>>
  BY <1>2, TurnStep
<1>3. CASE UNCHANGED backendVars
  BY <1>3 DEF Inv, backendVars, vars
<1>. QED  BY <1>1, <1>2, <1>3 DEF BackendsNext, Quiet

(* The invariant of both backends, at every turn of every operation of     *)
(* poly_list.rs and poly_vec.rs: each node has one owner, and the list     *)
(* holds, or is on its way to, the terms of the array.                     *)
THEOREM InvHolds == BackendsSpec => []Inv
<1>1. BackendsInit => Inv
  BY InitStep
<1>2. Inv /\ [BackendsNext]_backendVars => Inv'
  BY NextStep
<1>. QED  BY <1>1, <1>2, PTL DEF BackendsSpec

-----------------------------------------------------------------------------
(* What it gives.                                                          *)

(* For every field, every set of start polynomials and any number of calls *)
(* of the operations of either backend: between two calls the cached       *)
(* lengths and leading terms are right and the terms descend strictly with *)
(* no zero among them, in the list and in the array (poly_list.rs:928-960, *)
(* poly_vec.rs:653-690).                                                   *)
THEOREM CanonicalHolds == BackendsSpec => []Canonical
<1>1. ASSUME Inv PROVE Canonical
  <2>1. ASSUME NEW s, NEW u, RestsAt(mem, x, y, merge, vx, vy, s, u)
        PROVE  Canonical
    <3>1. Resting(mem, x, y, s, u) /\ IsTerms(s) /\ IsTerms(u) /\ VecIs(vx, s) /\ VecIs(vy, u)
      BY <2>1 DEF RestsAt
    <3>2. /\ Terms(mem, x.head) = s /\ Terms(mem, y.head) = u
          /\ Len(Chain(mem, x.head)) = Len(s) /\ Len(Chain(mem, y.head)) = Len(u)
          /\ LeadAt(mem, x.head) = LeadOf(s, 0) /\ LeadAt(mem, y.head) = LeadOf(u, 0)
      BY <3>1, RestingFacts
    <3>3. x.len = Len(s) /\ y.len = Len(u) /\ x.lead = LeadOf(s, 0) /\ y.lead = LeadOf(u, 0)
      BY <2>1, RestsFacts
    <3>4. CanonicalTerms(s) /\ CanonicalTerms(u)
      BY <3>1 DEF IsTerms
    <3>5. ListCanonical(x) /\ ListCanonical(y)
      BY <3>2, <3>3, <3>4 DEF ListCanonical
    <3>6. VecCanonical(vx) /\ VecCanonical(vy)
      BY <3>1, <3>4, VecFacts
    <3>. QED  BY <3>5, <3>6 DEF Canonical
  <2>2. ASSUME NEW s, NEW u, NEW o, NEW l, NEW r, MergesAt(mem, x, y, merge, vx, vy, s, u, o, l, r)
        PROVE  Canonical
    <3>1. ~Idle /\ Progress(merge.k, merge.m, merge.takes_right, vx, o, l, r)
      BY <2>2, MergesFacts DEF Idle
    <3>2. IsTerms(u) /\ VecIs(vy, u)
      BY <2>2 DEF MergesAt
    <3>3. \E v : IsTerms(v) /\ VecIs(vx, v)
      <4>1. CASE IsTerms(o) /\ VecIs(vx, o)
        BY <4>1
      <4>2. ASSUME NEW ts, NEW us, NEW n,
                   Going(merge.k, merge.m, merge.takes_right, vx, o, l, r, ts, us, n)
            PROVE  \E v : IsTerms(v) /\ VecIs(vx, v)
        BY <4>2, MergedCanonical DEF Going
      <4>. QED  BY <3>1, <4>1, <4>2 DEF Progress
    <3>4. VecCanonical(vx) /\ VecCanonical(vy)
      BY <3>2, <3>3, VecFacts DEF IsTerms
    <3>. QED  BY <3>1, <3>4 DEF Canonical
  <2>. QED  BY <1>1, <2>1, <2>2, Zenon DEF Inv, InStep
<1>. QED  BY <1>1, InvHolds, PTL

(* Whatever nodes the list backend reuses, it holds between two calls the  *)
(* terms and the caches of the array backend: the cargo feature changes    *)
(* nothing that a caller sees (mod.rs:18-22).                              *)
THEOREM BackendsAgreeHolds == BackendsSpec => []BackendsAgree
<1>1. ASSUME Inv PROVE BackendsAgree
  <2>1. ASSUME NEW s, NEW u, RestsAt(mem, x, y, merge, vx, vy, s, u)
        PROVE  BackendsAgree
    <3>1. /\ Terms(mem, x.head) = s /\ Terms(mem, y.head) = u
          /\ x.lead = LeadOf(s, 0) /\ y.lead = LeadOf(u, 0)
          /\ VecIs(vx, s) /\ VecIs(vy, u)
      BY <2>1, RestsFacts
    <3>2. Live(vx) = s /\ vx.lead = LeadOf(s, 0) /\ Live(vy) = u /\ vy.lead = LeadOf(u, 0)
      BY <3>1 DEF VecIs
    <3>. QED  BY <3>1, <3>2 DEF BackendsAgree
  <2>2. ASSUME NEW s, NEW u, NEW o, NEW l, NEW r, MergesAt(mem, x, y, merge, vx, vy, s, u, o, l, r)
        PROVE  BackendsAgree
    BY <2>2, MergesFacts DEF BackendsAgree, Idle
  <2>. QED  BY <1>1, <2>1, <2>2, Zenon DEF Inv, InStep
<1>. QED  BY <1>1, InvHolds, PTL

-----------------------------------------------------------------------------
(* Every node belongs to one chain.                                        *)

(* The chains of the owners, one after the other. *)
LEMMA OwnersCells ==
  ASSUME NEW mm, NEW r, NEW ch, NEW ct, Holds(mm, r, ch, ct), r["new"] = Null
  PROVE  LET w == ch["x"] \o ch["y"] \o (ch["out"] \o ch["left"] \o ch["right"])
         IN  IsInjective(w) /\ Range(w) = DOMAIN mm
<1> DEFINE D == DOMAIN mm
           c1 == ch["x"]
           c2 == ch["y"]
           c3 == ch["out"]
           c4 == ch["left"]
           c5 == ch["right"]
<1>1. /\ "x" \in Owners /\ "y" \in Owners /\ "out" \in Owners /\ "left" \in Owners
      /\ "right" \in Owners /\ "new" \in Owners
  BY DEF Owners
<1>2. /\ \A l \in Owners : ch[l] \in Seq(D) /\ IsInjective(ch[l])
      /\ \A k, l \in Owners : \A i \in DOMAIN ch[k], j \in DOMAIN ch[l] : ch[k][i] = ch[l][j] => k = l
      /\ \A a \in D : \E l \in Owners : a \in Range(ch[l])
      /\ ch["new"] = << >>
  <2>1. Owned(mm, r, ch)
    BY DEF Holds
  <2>2. ASSUME NEW l \in Owners PROVE ch[l] \in Seq(D) /\ IsInjective(ch[l])
    BY <2>1 DEF Owned, IsChain, IsInjective
  <2>3. \A a \in D : \E l \in Owners : \E i \in DOMAIN ch[l] : ch[l][i] = a
    BY <2>1, Zenon DEF Owned
  <2>4. \A k, l \in Owners : \A i \in DOMAIN ch[k], j \in DOMAIN ch[l] : ch[k][i] = ch[l][j] => k = l
    BY <2>1, Zenon DEF Owned
  <2>5. ch["new"] = << >>
    BY <1>1, HoldsFacts
  <2>6. \A a \in D : \E l \in Owners : a \in Range(ch[l])
    BY <2>3 DEF Range
  <2>. QED  BY <2>2, <2>4, <2>5, <2>6
<1>3. /\ c1 \in Seq(D) /\ IsInjective(c1) /\ c2 \in Seq(D) /\ IsInjective(c2)
      /\ c3 \in Seq(D) /\ IsInjective(c3) /\ c4 \in Seq(D) /\ IsInjective(c4)
      /\ c5 \in Seq(D) /\ IsInjective(c5)
  BY <1>1, <1>2
<1> DEFINE Apart(s, t) == \A i \in DOMAIN s, j \in DOMAIN t : s[i] # t[j]
<1>4. ASSUME NEW k \in Owners, NEW l \in Owners, k # l PROVE Apart(ch[k], ch[l])
  BY <1>2, <1>4
<1>5. /\ Apart(c1, c2) /\ Apart(c1, c3) /\ Apart(c1, c4) /\ Apart(c1, c5)
      /\ Apart(c2, c3) /\ Apart(c2, c4) /\ Apart(c2, c5) /\ Apart(c3, c4) /\ Apart(c3, c5)
      /\ Apart(c4, c5)
  <2> HIDE DEF Apart
  <2>. QED  BY <1>1, <1>4
<1>6. D \subseteq Range(c1) \cup Range(c2) \cup Range(c3) \cup Range(c4) \cup Range(c5)
  <2>1. Range(ch["new"]) = {}
    BY <1>2 DEF Range
  <2>2. \A l \in Owners : l \in {"x", "y", "out", "left", "right", "new"}
    BY DEF Owners
  <2>. QED  BY <1>2, <2>1, <2>2
<1>7. ASSUME NEW s \in Seq(D), NEW t \in Seq(D), NEW u \in Seq(D), Apart(s, u), Apart(t, u),
             Range(s \o t) = Range(s) \cup Range(t), s \o t \in Seq(D)
      PROVE  Apart(s \o t, u) /\ Apart(u, s \o t)
  <2> DEFINE w == s \o t
  <2>1. \A i \in DOMAIN w : w[i] \in Range(s) \cup Range(t)
    BY <1>7 DEF Range
  <2> HIDE DEF w
  <2>2. \A i \in DOMAIN w, j \in DOMAIN u : w[i] # u[j]
    BY <1>7, <2>1 DEF Range
  <2>. QED  BY <2>2 DEF w
<1>8. \A a \in Range(c1) \cup Range(c2) \cup Range(c3) \cup Range(c4) \cup Range(c5) : a \in D
  BY <1>3 DEF Range
<1> HIDE DEF c1, c2, c3, c4, c5, D
<1>9. /\ c1 \o c2 \in Seq(D) /\ IsInjective(c1 \o c2) /\ Range(c1 \o c2) = Range(c1) \cup Range(c2)
      /\ c3 \o c4 \in Seq(D) /\ IsInjective(c3 \o c4) /\ Range(c3 \o c4) = Range(c3) \cup Range(c4)
  BY <1>3, <1>5, JoinedOnce
<1>10. /\ Apart(c1 \o c2, c3) /\ Apart(c1 \o c2, c4) /\ Apart(c1 \o c2, c5)
       /\ Apart(c3 \o c4, c5)
  <2> HIDE DEF Apart
  <2>. QED  BY <1>3, <1>5, <1>7, <1>9
<1> DEFINE a == c1 \o c2
           b == c3 \o c4
<1>11. /\ a \in Seq(D) /\ IsInjective(a) /\ Range(a) = Range(c1) \cup Range(c2)
       /\ b \in Seq(D) /\ IsInjective(b) /\ Range(b) = Range(c3) \cup Range(c4)
       /\ Apart(a, c3) /\ Apart(a, c4) /\ Apart(a, c5) /\ Apart(b, c5)
  BY <1>9, <1>10
<1>12. Apart(b, a)
  <2>1. Apart(c3, a) /\ Apart(c4, a)
    BY <1>11
  <2> HIDE DEF Apart, a
  <2>. QED  BY <1>3, <1>7, <1>9, <1>11, <2>1
<1> HIDE DEF a, b
<1>13. b \o c5 \in Seq(D) /\ IsInjective(b \o c5) /\ Range(b \o c5) = Range(b) \cup Range(c5)
  BY <1>3, <1>11, JoinedOnce
<1>14. Apart(a, b \o c5)
  <2>1. Apart(c5, a)
    BY <1>11
  <2> HIDE DEF Apart
  <2>. QED  BY <1>3, <1>7, <1>11, <1>12, <1>13, <2>1
<1>15. IsInjective(a \o (b \o c5)) /\ Range(a \o (b \o c5)) = Range(a) \cup Range(b \o c5)
  <2> DEFINE z == b \o c5
  <2>1. z \in Seq(D) /\ IsInjective(z) /\ \A i \in DOMAIN a, j \in DOMAIN z : a[i] # z[j]
    BY <1>13, <1>14
  <2> HIDE DEF z
  <2>2. IsInjective(a \o z) /\ Range(a \o z) = Range(a) \cup Range(z)
    BY ONLY <1>11, <2>1, JoinedOnce
  <2>. QED  BY <2>2 DEF z
<1>16. Range(a \o (b \o c5)) = D
  BY <1>6, <1>8, <1>11, <1>13, <1>15
<1>. QED  BY <1>15, <1>16 DEF a, b, c1, c2, c3, c4, c5, D

(* The heap nodes are never lost, freed while they are reachable,          *)
(* or reachable twice, whatever the operations splice and whatever cancels *)
(* (poly_list.rs:809-834, node_pool.rs:28-34).                             *)
THEOREM NodesOwnedOnceHolds == BackendsSpec => []NodesOwnedOnce
<1>1. ASSUME Inv PROVE NodesOwnedOnce
  <2>1. ASSUME NEW s, NEW u, RestsAt(mem, x, y, merge, vx, vy, s, u)
        PROVE  NodesOwnedOnce
    <3>1. PICK r, ch, ct :
            /\ Holds(mem, r, ch, ct)
            /\ r["x"] = x.head /\ r["y"] = y.head
            /\ \A o \in {"out", "left", "right", "new"} : r[o] = Null
            /\ ct["x"] = s /\ ct["y"] = u
      BY <2>1, Zenon DEF RestsAt, Resting
    <3>2. /\ "x" \in Owners /\ "y" \in Owners /\ "out" \in Owners /\ "left" \in Owners
          /\ "right" \in Owners
      BY DEF Owners
    <3>3. /\ ch["out"] = << >> /\ ch["left"] = << >> /\ ch["right"] = << >>
          /\ Chain(mem, x.head) = ch["x"] /\ Chain(mem, y.head) = ch["y"]
      BY <3>1, <3>2, HoldsFacts
    <3>4. << >> \o << >> = << >>
      OBVIOUS
    <3>5. OwnedCells = ch["x"] \o ch["y"] \o (ch["out"] \o ch["left"] \o ch["right"])
      BY <2>1, <3>3, <3>4 DEF OwnedCells, Idle, RestsAt
    <3>. QED  BY <3>1, <3>5, OwnersCells DEF NodesOwnedOnce
  <2>2. ASSUME NEW s, NEW u, NEW o, NEW l, NEW q, MergesAt(mem, x, y, merge, vx, vy, s, u, o, l, q)
        PROVE  NodesOwnedOnce
    <3>1. Merging(mem, x, y, merge, s, u, o, l, q) /\ merge # << >>
      BY <2>2, MergesFacts
    <3>2. PICK r, ch, ct : MergingBy(mem, x, y, merge, s, u, o, l, q, r, ch, ct)
      BY <3>1, Zenon DEF Merging
    <3>3. /\ Holds(mem, r, ch, ct)
          /\ r["x"] = x.head /\ r["y"] = y.head /\ r["out"] = merge.head /\ r["new"] = Null
          /\ Cursor(mem, merge.left, merge.takes_left, r, ch, ct, "left", l)
          /\ Cursor(mem, merge.right, merge.takes_right, r, ch, ct, "right", q)
      BY <3>2, Zenon DEF MergingBy
    <3>4. /\ "x" \in Owners /\ "y" \in Owners /\ "out" \in Owners /\ "left" \in Owners
          /\ "right" \in Owners
      BY DEF Owners
    <3>5. /\ r["left"] = (IF merge.takes_left THEN merge.left ELSE Null)
          /\ r["right"] = (IF merge.takes_right THEN merge.right ELSE Null)
      BY <3>3 DEF Cursor
    <3>6. \A k \in Owners : Chain(mem, r[k]) = ch[k] /\ (r[k] = Null => ch[k] = << >>)
      BY <3>3, HoldsFacts
    <3>7. /\ ch["left"] = (IF merge.takes_left THEN Chain(mem, merge.left) ELSE << >>)
          /\ ch["right"] = (IF merge.takes_right THEN Chain(mem, merge.right) ELSE << >>)
      BY <3>4, <3>5, <3>6
    <3>8. /\ Chain(mem, x.head) = ch["x"] /\ Chain(mem, y.head) = ch["y"]
          /\ Chain(mem, merge.head) = ch["out"]
      BY <3>3, <3>4, <3>6
    <3>9. OwnedCells = ch["x"] \o ch["y"] \o (ch["out"] \o ch["left"] \o ch["right"])
      BY <3>1, <3>7, <3>8 DEF OwnedCells, Idle
    <3>. QED  BY <3>3, <3>9, OwnersCells DEF NodesOwnedOnce
  <2>. QED  BY <1>1, <2>1, <2>2, Zenon DEF Inv, InStep
<1>. QED  BY <1>1, InvHolds, PTL

-----------------------------------------------------------------------------
(* The coefficients of a merge.                                            *)

LEMMA TermPart ==
  ASSUME NEW c \in 0 .. P - 1, NEW m \in Monomial, NEW t
  PROVE  Term(c, m) \in TermSpace /\ CoefPart(Term(c, m), t) = IF m = t THEN c ELSE 0
BY DEF Term, TermSpace, CoefPart

LEMMA MergedSum ==
  ASSUME NEW ts \in Seq(TermSpace), NEW us \in Seq(TermSpace), NEW k \in Int, NEW t
  PROVE  CoefSum(MergedTerms(ts, k, us), t) % P = (CoefSum(ts, t) + k * CoefSum(us, t)) % P
<1> DEFINE N == Len(ts) + Len(us)
           goal == (CoefSum(ts, t) + k * CoefSum(us, t)) % P
           Balanced(q, o, l, r) ==
             /\ MergeAt(ts, k, us, q, o, l, r)
             /\ (CoefSum(o, t) + CoefSum(l, t) + k * CoefSum(r, t)) % P = goal
           done == CoefSum(MergedTerms(ts, k, us), t) % P = goal
           S == {q \in 0 .. N : done \/ \E o, l, r : Balanced(q, o, l, r)}
<1>1. N \in Nat /\ P \in Nat /\ \A s \in Seq(TermSpace) : CoefSum(s, t) \in Int
  BY PAssumption, WeightsFacts
<1>2. 0 \in S
  <2>1. MergeAt(ts, k, us, 0, << >>, ts, us)
    BY MergeStart
  <2>2. CoefSum(<< >>, t) = 0
    BY SumOfNone
  <2>3. Balanced(0, << >>, ts, us)
    <3>1. 0 + CoefSum(ts, t) + k * CoefSum(us, t) = CoefSum(ts, t) + k * CoefSum(us, t)
      BY <1>1
    <3>. QED  BY <2>1, <2>2, <3>1
  <2> HIDE DEF Balanced, done
  <2>. QED  BY <1>1, <2>3
<1>3. ASSUME NEW q \in 1 .. N, q - 1 \in S, ~done PROVE \E o, l, r : Balanced(q, o, l, r)
  <2>1. PICK o, l, r : Balanced(q - 1, o, l, r)
    <3> HIDE DEF Balanced, done
    <3>. QED  BY <1>3
  <2>2. (q - 1) + 1 = q
    OBVIOUS
  <2>3. o \in Seq(TermSpace) /\ l \in Seq(TermSpace) /\ r \in Seq(TermSpace)
    BY <2>1, MergeAtTyped
  <2>4. ~(l = << >> /\ r = << >>)
    <3>1. CASE l = << >> /\ r = << >>
      <4>1. MergedTerms(ts, k, us) = o
        BY <2>1, <2>3, <3>1, MergeOver
      <4>2. CoefSum(o, t) + 0 + k * 0 = CoefSum(o, t)
        BY <1>1, <2>3
      <4>. QED  BY <1>3, <2>1, <3>1, <4>1, <4>2, SumOfNone
    <3>. QED  BY <3>1
  <2>5. l # << >> => /\ l[1] \in TermSpace /\ Tail(l) \in Seq(TermSpace)
                     /\ l[1].c \in 0 .. P - 1 /\ l[1].m \in Monomial /\ CoefPart(l[1], t) \in Int
                     /\ CoefSum(l, t) = CoefPart(l[1], t) + CoefSum(Tail(l), t)
    BY <2>3, HeadTyped, TermFacts, PartTyped, SumHead
  <2>6. r # << >> => /\ r[1] \in TermSpace /\ Tail(r) \in Seq(TermSpace)
                     /\ r[1].c \in 0 .. P - 1 /\ r[1].m \in Monomial /\ CoefPart(r[1], t) \in Int
                     /\ CoefSum(r, t) = CoefPart(r[1], t) + CoefSum(Tail(r), t)
    BY <2>3, HeadTyped, TermFacts, PartTyped, SumHead
  <2>7. CASE l # << >> /\ (r = << >> \/ Less(r[1].m, l[1].m))
    <3> DEFINE w == Append(o, l[1])
               d == CoefPart(l[1], t)
    <3>1. MergeAt(ts, k, us, q, w, Tail(l), r)
      BY <2>1, <2>2, <2>3, <2>7, MergeGreater
    <3>2. CoefSum(w, t) = CoefSum(o, t) + d /\ d \in Int
      BY <2>3, <2>5, <2>7, SumAppend
    <3>3. (CoefSum(w, t) + CoefSum(Tail(l), t) + k * CoefSum(r, t)) % P = goal
      <4> DEFINE a == CoefSum(o, t)
                 b == CoefSum(Tail(l), t)
                 c == CoefSum(r, t)
      <4>1. a \in Int /\ b \in Int /\ c \in Int /\ CoefSum(l, t) = d + b
        BY <1>1, <2>3, <2>5, <2>7
      <4>2. k * c \in Int
        BY <4>1
      <4> DEFINE x2 == k * c
      <4>3. (a + d) + b + x2 = a + (d + b) + x2
        <5> HIDE DEF a, b, c, d, x2
        <5>. QED  BY <3>2, <4>1, <4>2 DEF x2
      <4>. QED  BY <2>1, <3>2, <4>1, <4>3
    <3>4. Balanced(q, w, Tail(l), r)
      BY <3>1, <3>3
    <3> HIDE DEF Balanced
    <3>. QED  BY <3>4
  <2>8. CASE r # << >> /\ (l = << >> \/ Less(l[1].m, r[1].m))
    <3> DEFINE y2 == k * r[1].c
               e == Term(y2 % P, r[1].m)
               w == o \o <<e>>
               d == CoefPart(e, t)
    <3>1. MergeAt(ts, k, us, q, w, l, Tail(r))
      BY <2>1, <2>2, <2>3, <2>8, MergeLess
    <3>2. r[1].c \in Int /\ y2 \in Int
      BY <1>1, <2>6, <2>8
    <3>3. (y2 % P) \in 0 .. P - 1
      <4> HIDE DEF y2
      <4>. QED  BY <3>2, ModFacts
    <3>4. e \in TermSpace /\ d = IF r[1].m = t THEN y2 % P ELSE 0
      <4> HIDE DEF y2
      <4>. QED  BY <2>6, <2>8, <3>3, TermPart
    <3>5. d \in Int /\ w = Append(o, e) /\ CoefSum(w, t) = CoefSum(o, t) + d
      <4> HIDE DEF e
      <4>1. d \in Int /\ w = Append(o, e)
        BY <2>3, <3>4, PartTyped
      <4>2. CoefSum(Append(o, e), t) = CoefSum(o, t) + d
        BY <2>3, <3>4, SumAppend
      <4>. QED  BY <4>1, <4>2
    <3>6. d = (0 + k * CoefPart(r[1], t)) % P
      <4>1. CASE r[1].m = t
        <5>1. CoefPart(r[1], t) = r[1].c /\ 0 + k * r[1].c = y2
          BY <3>2, <4>1 DEF CoefPart
        <5>. QED  BY <3>4, <4>1, <5>1
      <4>2. CASE r[1].m # t
        <5>1. CoefPart(r[1], t) = 0 /\ 0 + k * 0 = 0
          BY <4>2 DEF CoefPart
        <5>2. (0 % P) = 0
          BY PAssumption, ModSmall
        <5>. QED  BY <3>4, <4>2, <5>1, <5>2
      <4>. QED  BY <4>1, <4>2
    <3>7. (CoefSum(w, t) + CoefSum(l, t) + k * CoefSum(Tail(r), t)) % P = goal
      <4> DEFINE a == CoefSum(o, t)
                 b == CoefSum(l, t)
                 c == CoefSum(Tail(r), t)
                 g == CoefPart(r[1], t)
      <4>1. a \in Int /\ b \in Int /\ c \in Int /\ g \in Int /\ CoefSum(r, t) = g + c
        BY <1>1, <2>3, <2>6, <2>8
      <4> HIDE DEF a, b, c, g, d
      <4>2. MergeTaken(k, a, b, c, 0, g, d)
        <5>1. d = (0 + k * g) % P /\ 0 \in Int
          BY <3>6 DEF g
        <5>2. d \in Int
          BY <3>5
        <5>. QED  BY ONLY <4>1, <5>1, <5>2, k \in Int, SumTaken
      <4>3. 0 + b = b
        BY <4>1
      <4>. QED  BY <2>1, <3>5, <4>1, <4>2, <4>3 DEF a, b, c, MergeTaken
    <3>8. Balanced(q, w, l, Tail(r))
      BY <3>1, <3>7
    <3> HIDE DEF Balanced
    <3>. QED  BY <3>8
  <2>9. CASE l # << >> /\ r # << >> /\ l[1].m = r[1].m
    <3> DEFINE y2 == l[1].c + k * r[1].c
               h == y2 % P
               e == Term(h, l[1].m)
               w == IF h = 0 THEN o ELSE Append(o, e)
               d == CoefPart(e, t)
    <3>1. MergeAt(ts, k, us, q, w, Tail(l), Tail(r))
      BY <2>1, <2>2, <2>3, <2>9, MergeEqual
    <3>2. r[1].c \in Int /\ l[1].c \in Int /\ y2 \in Int
      <4>1. r[1].c \in 0 .. P - 1 /\ l[1].c \in 0 .. P - 1
        BY <2>5, <2>6, <2>9
      <4>2. r[1].c \in Int /\ l[1].c \in Int
        BY ONLY <4>1
      <4>. QED  BY <4>2
    <3>3. h \in 0 .. P - 1
      <4> HIDE DEF y2
      <4>. QED  BY <3>2, ModFacts
    <3>4. e \in TermSpace /\ d = IF l[1].m = t THEN h ELSE 0
      <4> HIDE DEF h
      <4>. QED  BY <2>5, <2>9, <3>3, TermPart
    <3>5. d \in Int /\ CoefSum(w, t) = CoefSum(o, t) + d
      <4>1. d \in Int
        <5> HIDE DEF e
        <5>. QED  BY <3>4, PartTyped
      <4>2. CoefSum(Append(o, e), t) = CoefSum(o, t) + d
        <5> HIDE DEF e
        <5>. QED  BY <2>3, <3>4, SumAppend
      <4>3. CASE h = 0
        <5>1. d = 0 /\ w = o
          BY <3>4, <4>3
        <5>2. CoefSum(o, t) + 0 = CoefSum(o, t)
          BY <1>1, <2>3
        <5> HIDE DEF w, d
        <5>. QED  BY <4>1, <5>1, <5>2
      <4>4. CASE h # 0
        <5>1. w = Append(o, e)
          BY <4>4
        <5> HIDE DEF w, d, e
        <5>. QED  BY <4>1, <4>2, <5>1
      <4>. QED  BY <4>3, <4>4
    <3>6. d = (CoefPart(l[1], t) + k * CoefPart(r[1], t)) % P
      <4>1. CASE r[1].m = t
        <5>1. CoefPart(r[1], t) = r[1].c /\ CoefPart(l[1], t) = l[1].c
          BY <2>9, <4>1 DEF CoefPart
        <5>. QED  BY <2>9, <3>4, <4>1, <5>1
      <4>2. CASE r[1].m # t
        <5>1. CoefPart(r[1], t) = 0 /\ CoefPart(l[1], t) = 0 /\ 0 + k * 0 = 0
          BY <2>9, <4>2 DEF CoefPart
        <5>2. (0 % P) = 0
          BY PAssumption, ModSmall
        <5>3. d = 0
          BY <2>9, <3>4, <4>2
        <5> HIDE DEF d
        <5>. QED  BY <5>1, <5>2, <5>3
      <4>. QED  BY <4>1, <4>2
    <3> HIDE DEF w
    <3>7. (CoefSum(w, t) + CoefSum(Tail(l), t) + k * CoefSum(Tail(r), t)) % P = goal
      <4> DEFINE a == CoefSum(o, t)
                 b == CoefSum(Tail(l), t)
                 c == CoefSum(Tail(r), t)
                 f == CoefPart(l[1], t)
                 g == CoefPart(r[1], t)
      <4>1. /\ a \in Int /\ b \in Int /\ c \in Int /\ g \in Int /\ f \in Int
            /\ CoefSum(r, t) = g + c /\ CoefSum(l, t) = f + b
        BY <1>1, <2>3, <2>5, <2>6, <2>9
      <4> HIDE DEF a, b, c, f, g, d
      <4>2. MergeTaken(k, a, b, c, f, g, d)
        <5>1. d = (f + k * g) % P
          BY <3>6 DEF f, g
        <5>2. d \in Int
          BY <3>5
        <5>. QED  BY ONLY <4>1, <5>1, <5>2, k \in Int, SumTaken
      <4>. QED  BY <2>1, <3>5, <4>1, <4>2 DEF a, b, c, MergeTaken
    <3>8. Balanced(q, w, Tail(l), Tail(r))
      BY <3>1, <3>7
    <3> HIDE DEF Balanced
    <3>. QED  BY <3>8
  <2>10. l # << >> /\ r # << >> => l[1].m = r[1].m \/ Less(l[1].m, r[1].m) \/ Less(r[1].m, l[1].m)
    BY <2>5, <2>6, LessTotal
  <2>. QED  BY <2>4, <2>7, <2>8, <2>9, <2>10
<1>4. \A q \in 1 .. N : q - 1 \in S => q \in S
  <2>1. \A q \in 1 .. N : q \in 0 .. N
    BY <1>1
  <2> HIDE DEF Balanced, done
  <2>. QED  BY <1>3, <2>1
<1>5. \A q \in 0 .. N : q \in S
  <2> HIDE DEF S, N
  <2>. QED  BY <1>1, <1>2, <1>4, InductionUpTo
<1>6. SUFFICES ASSUME NEW o, NEW l, NEW r, Balanced(N, o, l, r), ~done PROVE done
  <2>1. N \in S
    <3> HIDE DEF S, N
    <3>. QED  BY <1>1, <1>5
  <2> HIDE DEF Balanced
  <2>. QED  BY <2>1
<1>7. MergedTerms(ts, k, us) = o
  <2>1. o = MergeRun(ts, k, us)[N].out
    BY <1>6, MergeAtTyped
  <2>. QED  BY <2>1, RunFacts
<1>8. l = << >> /\ r = << >>
  <2> DEFINE i == MergeRun(ts, k, us)[N].i
             j == MergeRun(ts, k, us)[N].j
  <2>1. /\ i \in 1 .. Len(ts) + 1 /\ j \in 1 .. Len(us) + 1 /\ N <= (i - 1) + (j - 1)
        /\ l = RestOf(ts, i) /\ r = RestOf(us, j)
    BY <1>6 DEF MergeAt
  <2> HIDE DEF i, j
  <2>2. i = Len(ts) + 1 /\ j = Len(us) + 1
    BY <2>1
  <2>. QED  BY <2>1, <2>2, RestOfFacts
<1>9. CoefSum(o, t) + 0 + k * 0 = CoefSum(o, t)
  <2>1. CoefSum(o, t) \in Int
    BY <1>1, <1>6, MergeAtTyped
  <2>. QED  BY <2>1
<1>10. CoefSum(l, t) = 0 /\ CoefSum(r, t) = 0
  BY <1>8, SumOfNone
<1>11. (CoefSum(o, t) + CoefSum(l, t) + k * CoefSum(r, t)) % P = goal
  BY <1>6
<1> HIDE DEF goal
<1>12. CoefSum(o, t) % P = goal
  BY <1>9, <1>10, <1>11
<1>. QED  BY <1>7, <1>12 DEF goal

-----------------------------------------------------------------------------
(* The values of the results of the simple operations.                     *)

(* A merge adds k m times the second operand to the first. *)
LEMMA MergedValue ==
  ASSUME NEW s, IsTerms(s), NEW u, IsTerms(u), NEW k \in 1 .. P - 1, NEW m \in Monomial
  PROVE  ValueOf(MergedTerms(s, k, Shifted(m, u))) = MinusMMultP(ValueOf(s), m, P - k, ValueOf(u))
<1> DEFINE v == Shifted(m, u)
           w == MergedTerms(s, k, v)
           p == ValueOf(s)
           q == ValueOf(u)
           r == MinusMMultP(p, m, P - k, q)
<1>1. IsTerms(v) /\ v \in Seq(TermSpace) /\ s \in Seq(TermSpace) /\ k \in Int
  BY ShiftedTerms, PAssumption DEF IsTerms
<1>2. IsTerms(w)
  BY <1>1, MergedCanonical
<1>3. IsPolynomial(p) /\ IsPolynomial(q) /\ \A t : Coef(p, t) = CoefSum(s, t)
  BY TermsValueFacts
<1>4. IsPolynomial(r) /\ \A t : Coef(r, t) = ((Coef(p, t) + k * Multiple(m, q, t)) % P)
  BY <1>1, <1>3, PlusFacts
<1>5. ASSUME NEW t PROVE CoefSum(w, t) = Coef(r, t)
  <2>1. CoefSum(v, t) = Multiple(m, q, t)
    BY ShiftedSum
  <2>2. (CoefSum(w, t) % P) = (CoefSum(s, t) + k * CoefSum(v, t)) % P
    BY <1>1, MergedSum
  <2>3. CoefSum(w, t) \in 0 .. P - 1
    BY <1>2, TermsValueFacts
  <2>4. (CoefSum(w, t) % P) = CoefSum(w, t)
    BY <2>3, ModSmall
  <2> HIDE DEF w, v, r, p, q
  <2>. QED  BY <1>3, <1>4, <2>1, <2>2, <2>4
<1>6. ValueOf(w) = r
  <2> HIDE DEF w, r
  <2>. QED  BY <1>2, <1>4, <1>5, ValueIs
<1>. QED  BY <1>6

-----------------------------------------------------------------------------
(* The exact operations are the ones of Polynomials.                       *)

LEMMA ExactOrder ==
  /\ \A a, b : Exact!Less(a, b) <=> Less(a, b)
  /\ \A S : Exact!Maxima(S) = Maxima(S)
  /\ \A a, b : Exact!Mul(a, b) = Mul(a, b) /\ Exact!Div(a, b) = Div(a, b)
  /\ Exact!One = One
<1>1. \A a : Exact!Deg(a) = Deg(a)
  BY DEF Exact!Deg, Deg
<1>2. Exact!Vars = Vars
  BY DEF Exact!Vars, Vars
<1>3. \A a, b : Exact!Less(a, b) <=> Less(a, b)
  BY <1>1, <1>2 DEF Exact!Less, Less
<1>4. \A S : Exact!Maxima(S) = Maxima(S)
  BY <1>3 DEF Exact!Maxima, Maxima
<1>5. \A a, b : Exact!Mul(a, b) = Mul(a, b) /\ Exact!Div(a, b) = Div(a, b)
  BY <1>2 DEF Exact!Mul, Mul, Exact!Div, Div
<1>6. Exact!One = One
  BY <1>2 DEF Exact!One, One
<1>. QED  BY <1>3, <1>4, <1>5, <1>6

LEMMA ExactPoly ==
  /\ \A f : Exact!Poly(f) = Poly(f)
  /\ Exact!Zero = Zero
  /\ \A p : Exact!Support(p) = Support(p) /\ Exact!LM(p) = LM(p) /\ Exact!LC(p) = LC(p)
  /\ \A p, t : Exact!Coef(p, t) = Coef(p, t)
<1>1. \A f : Exact!Poly(f) = Poly(f)
  BY ExactOrder DEF Exact!Poly, Poly
<1>2. Exact!Zero = Zero
  BY ExactOrder DEF Exact!Zero, Zero
<1>3. \A p : Exact!Support(p) = Support(p) /\ Exact!LM(p) = LM(p) /\ Exact!LC(p) = LC(p)
  BY DEF Exact!Support, Support, Exact!LM, LM, Exact!LC, LC
<1>4. \A p, t : Exact!Coef(p, t) = Coef(p, t)
  BY <1>3 DEF Exact!Coef, Coef
<1>. QED  BY <1>1, <1>2, <1>3, <1>4

LEMMA ExactMinus ==
  \A p, m, c, q : Exact!MinusMMultP(p, m, c, q) = MinusMMultP(p, m, c, q)
<1>1. SUFFICES ASSUME NEW p, NEW m, NEW c, NEW q
               PROVE  Exact!MinusMMultP(p, m, c, q) = MinusMMultP(p, m, c, q)
  OBVIOUS
<1> DEFINE A == {Exact!Mul(m, u) : u \in Exact!Support(q)}
           B == {Mul(m, u) : u \in Support(q)}
           f(t) == (Exact!Coef(p, t) + (P - c) * (IF t \in A THEN q.terms[Exact!Div(t, m)] ELSE 0)) % P
           g(t) == (Coef(p, t) + (P - c) * (IF t \in B THEN q.terms[Div(t, m)] ELSE 0)) % P
<1>2. A = B
  BY ExactOrder, ExactPoly
<1>3. \A t : f(t) = g(t)
  <2> HIDE DEF A, B
  <2>. QED  BY <1>2, ExactOrder, ExactPoly
<1>4. Exact!MinusMMultP(p, m, c, q)
      = Exact!Poly([t \in {u \in Exact!Support(p) \cup A : f(u) # 0} |-> f(t)])
  BY DEF Exact!MinusMMultP
<1>5. MinusMMultP(p, m, c, q) = Poly([t \in {u \in Support(p) \cup B : g(u) # 0} |-> g(t)])
  BY DEF MinusMMultP
<1> HIDE DEF f, g, A, B
<1>6. Exact!Support(p) = Support(p)
  BY ExactPoly
<1>7. [t \in {u \in Exact!Support(p) \cup A : f(u) # 0} |-> f(t)]
      = [t \in {u \in Support(p) \cup B : g(u) # 0} |-> g(t)]
  BY <1>2, <1>3, <1>6
<1>. QED  BY <1>4, <1>5, <1>7, ExactPoly

LEMMA ExactUnary ==
  \A p : Exact!Monic(p) = Monic(p) /\ Exact!DropLeading(p) = DropLeading(p)
<1>1. \A c : Exact!Invert(c) = Invert(c)
  BY DEF Exact!Invert, Invert
<1>2. \A p : Exact!Monic(p) = Monic(p)
  BY <1>1, ExactPoly DEF Exact!Monic, Monic
<1>3. SUFFICES ASSUME NEW p PROVE Exact!DropLeading(p) = DropLeading(p)
  BY <1>2
<1>4. Exact!Support(p) = Support(p) /\ Exact!LM(p) = LM(p)
  BY ExactPoly
<1>5. Exact!DropLeading(p) = Exact!Poly([m \in Support(p) \ {LM(p)} |-> p.terms[m]])
  BY <1>4 DEF Exact!DropLeading
<1>. QED  BY <1>5, ExactPoly DEF DropLeading

LEMMA ExactPlus ==
  /\ \A p, c, m, q : Exact!Plus(p, c, m, q) = MinusMMultP(p, m, P - c, q)
  /\ \A c, m, p : Exact!Plus(Exact!Zero, c, m, p) = Times(c, m, p)
  /\ \A c, p : Exact!ScaledBy(c, p) = IF c = 0 THEN Zero ELSE Times(c, One, p)
<1>1. \A p, c, m, q : Exact!Plus(p, c, m, q) = MinusMMultP(p, m, P - c, q)
  BY ExactMinus DEF Exact!Plus
<1>2. \A c, m, p : Exact!Plus(Exact!Zero, c, m, p) = Times(c, m, p)
  BY <1>1, ExactPoly DEF Times
<1>3. \A c, p : Exact!ScaledBy(c, p) = IF c = 0 THEN Zero ELSE Times(c, One, p)
  BY <1>2, ExactPoly, ExactOrder DEF Exact!ScaledBy
<1>. QED  BY <1>1, <1>2, <1>3

-----------------------------------------------------------------------------
(* Sums in the abstract specification.                                     *)

LEMMA ExactTotal ==
  ASSUME NEW ts, NEW S
  PROVE  Exact!MapThenSumSet(LAMBDA k : ts[k].c, S) = Total([k \in S |-> ts[k].c], S)
<1> DEFINE v == [k \in S |-> ts[k].c]
           body(iter, s) == IF s = {} THEN 0 ELSE v[Pick(s)] + iter[s \ {Pick(s)}]
           full(iter, s) == IF s = {} THEN 0 ELSE ts[Pick(s)].c + iter[s \ {Pick(s)}]
           Bodies(iter) == [s \in SUBSET S |-> body(iter, s)]
           Fulls(iter) == [s \in SUBSET S |-> full(iter, s)]
<1>1. \A iter : \A s \in SUBSET S : body(iter, s) = full(iter, s)
  <2>1. \A s \in SUBSET S : s # {} => Pick(s) \in S
    BY DEF Pick
  <2>2. \A i \in S : v[i] = ts[i].c
    OBVIOUS
  <2> HIDE DEF v
  <2>. QED  BY <2>1, <2>2
<1>2. \A iter : Bodies(iter) = Fulls(iter)
  <2> HIDE DEF body, full
  <2>. QED  BY <1>1
<1>3. SumsOver(v, S) = CHOOSE iter : iter = Bodies(iter)
  BY DEF SumsOver
<1>4. Exact!MapThenSumSet(LAMBDA k : ts[k].c, S) = (CHOOSE iter : iter = Fulls(iter))[S]
  BY DEF Exact!MapThenSumSet, Exact!MapThenFoldSet, Pick
<1> HIDE DEF Bodies, Fulls
<1>. QED  BY <1>2, <1>3, <1>4, Zenon DEF Total

LEMMA ExactCoef ==
  ASSUME NEW ts \in Seq(TermSpace), NEW t
  PROVE  Exact!MapThenSumSet(LAMBDA k : ts[k].c, {k \in DOMAIN ts : ts[k].m = t}) = CoefSum(ts, t)
<1> DEFINE S == {k \in DOMAIN ts : ts[k].m = t}
           D == DOMAIN ts
           a == [k \in S |-> ts[k].c]
           v == Weights(ts, t)
<1>1. Exact!MapThenSumSet(LAMBDA k : ts[k].c, S) = Total(a, S)
  <2> HIDE DEF S
  <2>. QED  BY ExactTotal
<1>2. IsFiniteSet(D) /\ S \subseteq D /\ \A k \in D : v[k] \in Nat /\ v[k] = CoefPart(ts[k], t)
  BY WeightsFacts
<1>3. \A k \in S : a[k] = v[k]
  BY <1>2 DEF CoefPart
<1>4. \A k \in D : k \notin S => v[k] = 0
  BY <1>2 DEF CoefPart
<1>5. IsFiniteSet(S)
  BY <1>2, FS_Subset
<1> HIDE DEF S, D, a, v
<1>6. Total(a, S) = Total(v, S)
  BY <1>3, <1>5, TotalAgree
<1>7. Total(v, D) = Total(v, S)
  BY <1>2, <1>4, TotalExtra
<1>. QED  BY <1>1, <1>6, <1>7 DEF CoefSum, S, D, v

LEMMA SumValue ==
  ASSUME NEW ts \in Seq(TermSpace)
  PROVE  ValueOf(Surviving(ts)) = Exact!Sum(ts)
<1> DEFINE D == {ts[k].m : k \in DOMAIN ts}
           g(t) == Exact!MapThenSumSet(LAMBDA k : ts[k].c, {k \in DOMAIN ts : ts[k].m = t}) % P
           f == [t \in D |-> (CoefSum(ts, t) % P)]
           p == Poly([t \in {u \in D : f[u] # 0} |-> f[t]])
<1>1. \A t : g(t) = (CoefSum(ts, t) % P)
  BY ExactCoef
<1>2. Exact!Sum(ts) = Exact!Poly([t \in {u \in D : g(u) # 0} |-> g(t)])
  BY DEF Exact!Sum
<1>3. Exact!Sum(ts) = p
  <2> HIDE DEF g
  <2>1. [t \in {u \in D : g(u) # 0} |-> g(t)] = [t \in {u \in D : f[u] # 0} |-> f[t]]
    <3>1. \A u \in D : f[u] = g(u)
      BY <1>1
    <3> HIDE DEF f, D
    <3>. QED  BY <3>1
  <2>. QED  BY <1>2, <2>1, ExactPoly
<1>4. D \subseteq Monomial /\ IsFiniteSet(D)
  <2>1. DOMAIN ts = 1 .. Len(ts) /\ Len(ts) \in Nat
    OBVIOUS
  <2>2. IsFiniteSet(DOMAIN ts)
    BY <2>1, UpToFacts
  <2> DEFINE h == [k \in DOMAIN ts |-> ts[k].m]
  <2>3. h \in Surjection(DOMAIN ts, D)
    BY DEF Surjection
  <2>4. D \subseteq Monomial
    BY TermAt
  <2> HIDE DEF h, D
  <2>. QED  BY <2>2, <2>3, <2>4, FS_Surjection
<1>5. \A t : CoefSum(ts, t) \in Int /\ (CoefSum(ts, t) % P) \in 0 .. P - 1
  <2>1. SUFFICES ASSUME NEW t PROVE CoefSum(ts, t) \in Int /\ (CoefSum(ts, t) % P) \in 0 .. P - 1
    OBVIOUS
  <2> DEFINE c == CoefSum(ts, t)
  <2>2. c \in Int
    BY WeightsFacts
  <2> HIDE DEF c
  <2>3. (c % P) \in 0 .. P - 1
    BY <2>2, ModFacts
  <2>. QED  BY <2>2, <2>3 DEF c
<1>6. \A t \in D : f[t] \in 0 .. P - 1
  BY <1>5
<1>7. IsPolynomial(p) /\ \A t : Coef(p, t) = IF t \in D THEN f[t] ELSE 0
  <2> HIDE DEF D, f
  <2>. QED  BY <1>4, <1>6, PolyOf
<1>8. ASSUME NEW t PROVE CoefSum(Surviving(ts), t) = Coef(p, t)
  <2>1. CoefSum(Surviving(ts), t) = (CoefSum(ts, t) % P)
    BY SurvivingSum
  <2>2. CASE t \in D
    BY <1>7, <2>1, <2>2
  <2>3. CASE t \notin D
    <3> DEFINE S == DOMAIN ts
               T == {}
               v == Weights(ts, t)
    <3>1. IsFiniteSet(S) /\ T \subseteq S /\ \A k \in S : v[k] = 0 /\ v[k] \in Nat
      BY <2>3, WeightsFacts DEF CoefPart
    <3> HIDE DEF S, v
    <3>2. Total(v, S) = Total(v, T)
      <4> HIDE DEF T
      <4>. QED  BY <3>1, TotalExtra
    <3>3. CoefSum(ts, t) = 0
      BY <3>2, TotalEmpty DEF CoefSum, S, v
    <3>4. (0 % P) = 0
      BY PAssumption, ModSmall
    <3>. QED  BY <1>7, <2>1, <2>3, <3>3, <3>4
  <2>. QED  BY <2>2, <2>3
<1>9. ValueOf(Surviving(ts)) = p
  <2>1. IsTerms(Surviving(ts))
    BY SurvivingTerms
  <2> HIDE DEF p
  <2>. QED  BY <1>7, <1>8, <2>1, ValueIs
<1>. QED  BY <1>3, <1>9

LEMMA ExactPairTotal ==
  ASSUME NEW p, NEW q, NEW S, S \subseteq Support(p) \X Support(q)
  PROVE  Exact!MapThenSumSet(LAMBDA ab : p.terms[ab[1]] * q.terms[ab[2]], S) = Total(PairGives(p, q), S)
<1> DEFINE v == PairGives(p, q)
           body(iter, s) == IF s = {} THEN 0 ELSE v[Pick(s)] + iter[s \ {Pick(s)}]
           full(iter, s) == IF s = {} THEN 0
                            ELSE p.terms[Pick(s)[1]] * q.terms[Pick(s)[2]] + iter[s \ {Pick(s)}]
           Bodies(iter) == [s \in SUBSET S |-> body(iter, s)]
           Fulls(iter) == [s \in SUBSET S |-> full(iter, s)]
<1>1. \A iter : \A s \in SUBSET S : body(iter, s) = full(iter, s)
  <2>1. \A s \in SUBSET S : s # {} => Pick(s) \in S
    BY DEF Pick
  <2>2. \A i \in S : v[i] = p.terms[i[1]] * q.terms[i[2]]
    BY DEF PairGives
  <2> HIDE DEF v
  <2>. QED  BY <2>1, <2>2
<1>2. \A iter : Bodies(iter) = Fulls(iter)
  <2> HIDE DEF body, full
  <2>. QED  BY <1>1
<1>3. SumsOver(v, S) = CHOOSE iter : iter = Bodies(iter)
  BY DEF SumsOver
<1>4. Exact!MapThenSumSet(LAMBDA ab : p.terms[ab[1]] * q.terms[ab[2]], S)
      = (CHOOSE iter : iter = Fulls(iter))[S]
  BY DEF Exact!MapThenSumSet, Exact!MapThenFoldSet, Pick
<1> HIDE DEF Bodies, Fulls
<1>. QED  BY <1>2, <1>3, <1>4, Zenon DEF Total

LEMMA ProductValue ==
  ASSUME NEW s, IsTerms(s), NEW u, IsTerms(u)
  PROVE  ValueOf(Surviving(Products(s, u))) = Exact!Product(ValueOf(s), ValueOf(u))
<1> DEFINE p == ValueOf(s)
           q == ValueOf(u)
           ts == Products(s, u)
           pairs == Support(p) \X Support(q)
           D == {Mul(ab[1], ab[2]) : ab \in pairs}
           b(t) == Total(PairGives(p, q), PairsAt(p, q, t))
           g(t) == Exact!MapThenSumSet(LAMBDA ab : p.terms[ab[1]] * q.terms[ab[2]],
                                       {ab \in pairs : Exact!Mul(ab[1], ab[2]) = t}) % P
           f == [t \in D |-> (b(t) % P)]
           r == Poly([t \in {w \in D : f[w] # 0} |-> f[t]])
<1>1. IsPolynomial(p) /\ IsPolynomial(q) /\ ts \in Seq(TermSpace)
  BY TermsValueFacts, ProductTerms DEF IsTerms
<1>2. \A t : g(t) = (b(t) % P)
  <2>1. ASSUME NEW t PROVE g(t) = (b(t) % P)
    <3> DEFINE S == {ab \in pairs : Exact!Mul(ab[1], ab[2]) = t}
    <3>1. S = PairsAt(p, q, t) /\ S \subseteq Support(p) \X Support(q)
      BY ExactOrder DEF PairsAt
    <3> HIDE DEF S, p, q
    <3>2. Exact!MapThenSumSet(LAMBDA ab : p.terms[ab[1]] * q.terms[ab[2]], S) = Total(PairGives(p, q), S)
      BY <3>1, ExactPairTotal
    <3>. QED  BY <3>1, <3>2 DEF S
  <2>. QED  BY <2>1
<1>3. Exact!Product(p, q) = r
  <2> DEFINE E == {Exact!Mul(ab[1], ab[2]) : ab \in Exact!Support(p) \X Exact!Support(q)}
             h(t) == Exact!MapThenSumSet(LAMBDA ab : p.terms[ab[1]] * q.terms[ab[2]],
                       {ab \in Exact!Support(p) \X Exact!Support(q) : Exact!Mul(ab[1], ab[2]) = t}) % P
  <2> HIDE DEF p, q
  <2>1. Exact!Product(p, q) = Exact!Poly([t \in {w \in E : h(w) # 0} |-> h(t)])
    BY DEF Exact!Product
  <2>2. E = D /\ Exact!Support(p) = Support(p) /\ Exact!Support(q) = Support(q)
    BY ExactOrder, ExactPoly
  <2>3. \A t : h(t) = g(t)
    BY <2>2
  <2> HIDE DEF E, h, g, b
  <2>4. \A w \in D : f[w] = h(w)
    BY <1>2, <2>3
  <2> HIDE DEF f, D
  <2>5. [t \in {w \in E : h(w) # 0} |-> h(t)] = [t \in {w \in D : f[w] # 0} |-> f[t]]
    BY <2>2, <2>4
  <2>. QED  BY <2>1, <2>5, ExactPoly
<1>4. D \subseteq Monomial /\ IsFiniteSet(D)
  <2> HIDE DEF p, q
  <2>1. /\ IsFiniteSet(Support(p)) /\ IsFiniteSet(Support(q))
        /\ Support(p) \subseteq Monomial /\ Support(q) \subseteq Monomial
    BY <1>1 DEF IsPolynomial, Support
  <2>2. IsFiniteSet(pairs)
    BY <2>1, FS_Product
  <2>3. \A ab \in pairs : Mul(ab[1], ab[2]) \in Monomial
    <3>1. \A ab \in pairs : ab[1] \in Monomial /\ ab[2] \in Monomial
      BY <2>1
    <3>. QED  BY <3>1, DegMul
  <2> DEFINE h == [ab \in pairs |-> Mul(ab[1], ab[2])]
  <2>4. h \in Surjection(pairs, D)
    BY DEF Surjection
  <2>5. D \subseteq Monomial
    BY <2>3
  <2> HIDE DEF h, D, pairs
  <2>. QED  BY <2>2, <2>4, <2>5, FS_Surjection
<1>5. \A t : /\ IsFiniteSet(PairsAt(p, q, t)) /\ b(t) \in Nat
             /\ Total(Contributions(s, q, t), DOMAIN s) = b(t)
  <2> HIDE DEF q
  <2>. QED  BY <1>1, ProductCoef
<1>6. \A t : (b(t) % P) \in 0 .. P - 1
  <2>1. ASSUME NEW t PROVE (b(t) % P) \in 0 .. P - 1
    <3> DEFINE c == b(t)
    <3>1. c \in Int
      BY <1>5
    <3> HIDE DEF c, b
    <3>2. (c % P) \in 0 .. P - 1
      BY <3>1, ModFacts
    <3>. QED  BY <3>2 DEF c
  <2>. QED  BY <2>1
<1>7. \A t \in D : f[t] = (b(t) % P) /\ f[t] \in 0 .. P - 1
  <2> HIDE DEF b, D
  <2>. QED  BY <1>6
<1>8. IsPolynomial(r) /\ \A t : Coef(r, t) = IF t \in D THEN f[t] ELSE 0
  <2> HIDE DEF D, f
  <2>. QED  BY <1>4, <1>7, PolyOf
<1>9. ASSUME NEW t PROVE CoefSum(Surviving(ts), t) = Coef(r, t)
  <2>1. CoefSum(Surviving(ts), t) = (b(t) % P)
    <3>1. CoefSum(Surviving(ts), t) = (CoefSum(ts, t) % P)
      <4> HIDE DEF ts
      <4>. QED  BY <1>1, SurvivingSum
    <3>2. (CoefSum(ts, t) % P) = (Total(Contributions(s, q, t), DOMAIN s) % P)
      BY ProductSum
    <3>3. Total(Contributions(s, q, t), DOMAIN s) = b(t)
      BY <1>5
    <3> HIDE DEF b, ts, q
    <3>. QED  BY <3>1, <3>2, <3>3
  <2>2. CASE t \in D
    <3> HIDE DEF D, f, b, r, ts
    <3>. QED  BY <1>7, <1>8, <2>1, <2>2
  <2>3. CASE t \notin D
    <3>1. PairsAt(p, q, t) = {}
      BY <2>3 DEF PairsAt
    <3>2. b(t) = 0
      <4> HIDE DEF p, q
      <4>. QED  BY <3>1, TotalEmpty
    <3>3. (0 % P) = 0
      BY PAssumption, ModSmall
    <3> HIDE DEF D, f, b, r, ts
    <3>. QED  BY <1>8, <2>1, <2>3, <3>2, <3>3
  <2>. QED  BY <2>2, <2>3
<1>10. ValueOf(Surviving(ts)) = r
  <2>1. IsTerms(Surviving(ts))
    BY <1>1, SurvivingTerms
  <2> HIDE DEF r, ts
  <2>. QED  BY <1>8, <1>9, <2>1, ValueIs
<1>. QED  BY <1>3, <1>10

-----------------------------------------------------------------------------
(* Each result of the arrays is the exact one.                             *)

LEMMA PlusValues ==
  ASSUME NEW s, IsTerms(s), NEW u, IsTerms(u), NEW k \in 1 .. P - 1, NEW m \in Monomial
  PROVE  /\ ValueOf(MergedTerms(s, k, Shifted(m, u))) = Exact!Plus(ValueOf(s), k, m, ValueOf(u))
         /\ ValueOf(MergedTerms(s, k, u)) = Exact!Plus(ValueOf(s), k, One, ValueOf(u))
         /\ ValueOf(s) = Exact!Plus(ValueOf(s), k, m, ValueOf(<< >>))
<1>1. \A q \in Monomial :
        ValueOf(MergedTerms(s, k, Shifted(q, u))) = Exact!Plus(ValueOf(s), k, q, ValueOf(u))
  <2>1. SUFFICES ASSUME NEW q \in Monomial
                 PROVE  ValueOf(MergedTerms(s, k, Shifted(q, u)))
                        = Exact!Plus(ValueOf(s), k, q, ValueOf(u))
    OBVIOUS
  <2>2. ValueOf(MergedTerms(s, k, Shifted(q, u))) = MinusMMultP(ValueOf(s), q, P - k, ValueOf(u))
    BY MergedValue
  <2>3. Exact!Plus(ValueOf(s), k, q, ValueOf(u)) = MinusMMultP(ValueOf(s), q, P - k, ValueOf(u))
    BY ExactPlus
  <2>. QED  BY <2>2, <2>3
<1>2. Shifted(One, u) = u /\ One \in Monomial
  BY DegOne, ShiftedTerms DEF IsTerms
<1>3. ValueOf(MergedTerms(s, k, u)) = Exact!Plus(ValueOf(s), k, One, ValueOf(u))
  BY <1>1, <1>2
<1>4. ValueOf(s) = Exact!Plus(ValueOf(s), k, m, ValueOf(<< >>))
  <2> DEFINE p == ValueOf(s)
  <2>1. IsPolynomial(p) /\ ValueOf(<< >>) = Zero /\ k \in Int
    BY TermsValueFacts, NoTerms, PAssumption
  <2> HIDE DEF p
  <2>2. MinusMMultP(p, m, P - k, Zero) = p
    BY <2>1, PlusNothing
  <2>3. Exact!Plus(p, k, m, Zero) = MinusMMultP(p, m, P - k, Zero)
    BY ExactPlus
  <2>. QED  BY <2>1, <2>2, <2>3 DEF p
<1>. QED  BY <1>1, <1>3, <1>4

LEMMA FromNothing ==
  ASSUME NEW u, IsTerms(u)
  PROVE  /\ Exact!Zero = ValueOf(<< >>)
         /\ ValueOf(u) = Exact!Plus(ValueOf(<< >>), 1, One, ValueOf(u))
         /\ ValueOf(Negated(u)) = Exact!Plus(ValueOf(<< >>), P - 1, One, ValueOf(u))
         /\ \A m \in Monomial :
              ValueOf(Shifted(m, u)) = Exact!Plus(ValueOf(<< >>), 1, m, ValueOf(u))
         /\ \A c \in 1 .. P - 1 :
              ValueOf(Scaled(c, u)) = Exact!Plus(ValueOf(<< >>), c, One, ValueOf(u))
<1>1. Exact!Zero = ValueOf(<< >>)
  BY NoTerms, ExactPoly
<1>2. \A c, m, p : Exact!Plus(ValueOf(<< >>), c, m, p) = Times(c, m, p)
  BY <1>1, ExactPlus
<1>3. ValueOf(u) = Times(1, One, ValueOf(u))
  BY TermsValueFacts, PlusOne
<1>. QED  BY <1>1, <1>2, <1>3, NegatedValue, ShiftedValue, ScaledValue

(* The requests, one clause a value. *)
IsRequest(r) ==
  /\ r.op \in {"add", "add_assign", "add_consuming", "sub", "sub_mul_term",
               "sub_mm_mult_qq_consuming", "clone", "neg", "scale", "shift", "mul",
               "monic", "drop_leading", "drop_leading_in_place", "from_terms"}
  /\ r.c \in 0 .. P - 1 /\ r.m \in Monomial /\ r.ts \in Seq(TermSpace)

LEMMA BinaryValues ==
  ASSUME NEW r, IsRequest(r), NEW s, IsTerms(s), VecIs(vx, s), NEW b, NEW v, IsTerms(v), VecIs(b, v),
         r.op \in {"add", "add_assign", "add_consuming", "sub", "sub_mul_term",
                   "sub_mm_mult_qq_consuming", "mul"}
  PROVE  ValueOf(Live(VecResult(r, b))) = Exact!Result(r, ValueOf(s), ValueOf(v))
<1>0. 1 \in 1 .. P - 1 /\ P - 1 \in 1 .. P - 1 /\ One \in Monomial
  BY PAssumption, DegOne
<1>1. CASE r.op \in {"add", "add_assign", "add_consuming"}
  <2>1. Exact!Result(r, ValueOf(s), ValueOf(v)) = Exact!Plus(ValueOf(s), 1, One, ValueOf(v))
    BY <1>1, ExactOrder DEF Exact!Result
  <2>2. VecResult(r, b) = VecAdd(vx, b) \/ VecResult(r, b) = VecAddAssign(vx, b)
    BY <1>1 DEF VecResult
  <2>3. Live(VecResult(r, b)) = SumOf(s, 1, v)
    BY <2>2, VecSumIs DEF VecIs
  <2>4. ValueOf(SumOf(s, 1, v)) = Exact!Plus(ValueOf(s), 1, One, ValueOf(v))
    <3>1. CASE v = << >>
      BY <1>0, <3>1, PlusValues DEF SumOf
    <3>2. CASE v # << >> /\ s = << >>
      BY <3>2, FromNothing DEF SumOf
    <3>3. CASE v # << >> /\ s # << >>
      BY <1>0, <3>3, PlusValues DEF SumOf
    <3>. QED  BY <3>1, <3>2, <3>3
  <2>. QED  BY <2>1, <2>3, <2>4
<1>2. CASE r.op = "sub"
  <2> DEFINE w == IF v = << >> THEN s ELSE IF s = << >> THEN Negated(v) ELSE MergedTerms(s, P - 1, v)
             k == P - 1
  <2>1. Exact!Result(r, ValueOf(s), ValueOf(v)) = Exact!Plus(ValueOf(s), k, One, ValueOf(v))
    BY <1>2, ExactOrder DEF Exact!Result
  <2>2. VecResult(r, b) = VecSub(vx, b)
    BY <1>2 DEF VecResult
  <2>3. Live(VecResult(r, b)) = w
    <3>1. VecIs(VecSub(vx, b), w)
      BY VecSumIs
    <3> HIDE DEF w
    <3>. QED  BY <2>2, <3>1 DEF VecIs
  <2>4. ValueOf(w) = Exact!Plus(ValueOf(s), k, One, ValueOf(v))
    <3>1. CASE v = << >>
      <4>1. k \in 1 .. P - 1 /\ w = s
        BY <1>0, <3>1
      <4> HIDE DEF k, w
      <4>. QED  BY <1>0, <3>1, <4>1, PlusValues
    <3>2. CASE v # << >> /\ s = << >>
      <4>1. w = Negated(v) /\ ValueOf(Negated(v)) = Exact!Plus(ValueOf(<< >>), k, One, ValueOf(v))
        BY <3>2, FromNothing
      <4>. QED  BY <3>2, <4>1
    <3>3. CASE v # << >> /\ s # << >>
      <4>1. k \in 1 .. P - 1 /\ w = MergedTerms(s, k, v)
        BY <1>0, <3>3
      <4> HIDE DEF k, w
      <4>. QED  BY <1>0, <4>1, PlusValues
    <3>. QED  BY <3>1, <3>2, <3>3
  <2>. QED  BY <2>1, <2>3, <2>4
<1>3. CASE r.op \in {"sub_mul_term", "sub_mm_mult_qq_consuming"}
  <2> DEFINE c == r.c
             m == r.m
             k == P - c
             w == IF c = 0 \/ v = << >> THEN s ELSE MergedTerms(s, k, Shifted(m, v))
  <2>1. Exact!Result(r, ValueOf(s), ValueOf(v))
        = IF c = 0 THEN ValueOf(s) ELSE Exact!Plus(ValueOf(s), k, m, ValueOf(v))
    BY <1>3 DEF Exact!Result
  <2>2. VecResult(r, b) = VecSubMulTerm(vx, c, m, b)
    BY <1>3 DEF VecResult
  <2>3. Live(VecResult(r, b)) = w
    <3>1. c \in 0 .. P - 1 /\ m \in Monomial
      BY DEF IsRequest
    <3> HIDE DEF c, m
    <3>2. VecIs(VecSubMulTerm(vx, c, m, b), w)
      BY <3>1, VecSubMulIs
    <3> HIDE DEF w
    <3>. QED  BY ONLY <2>2, <3>2 DEF VecIs
  <2>4. CASE c = 0
    BY <2>1, <2>3, <2>4
  <2>5. CASE c # 0
    <3>1. k \in 1 .. P - 1 /\ m \in Monomial
      BY <2>5, PAssumption DEF IsRequest
    <3>2. w = IF v = << >> THEN s ELSE MergedTerms(s, k, Shifted(m, v))
      BY <2>5
    <3> HIDE DEF k, w, m, c
    <3>3. ValueOf(w) = Exact!Plus(ValueOf(s), k, m, ValueOf(v))
      BY <3>1, <3>2, PlusValues
    <3>. QED  BY <2>1, <2>3, <2>5, <3>3
  <2>. QED  BY <2>4, <2>5
<1>4. CASE r.op = "mul"
  <2>1. Exact!Result(r, ValueOf(s), ValueOf(v)) = Exact!Product(ValueOf(s), ValueOf(v))
    BY <1>4 DEF Exact!Result
  <2>2. VecResult(r, b) = VecMul(vx, b)
    BY <1>4 DEF VecResult
  <2>3. Live(VecResult(r, b)) = Surviving(Products(s, v))
    BY <2>2, VecProductIs DEF VecIs
  <2>. QED  BY <2>1, <2>3, ProductValue
<1>. QED  BY <1>1, <1>2, <1>3, <1>4

LEMMA UnaryValues ==
  ASSUME NEW r, IsRequest(r), NEW s, IsTerms(s), VecIs(vx, s), NEW b, NEW v,
         r.op \in {"neg", "scale", "shift", "monic", "drop_leading", "drop_leading_in_place",
                   "from_terms"}
  PROVE  ValueOf(Live(VecResult(r, b))) = Exact!Result(r, ValueOf(s), v)
<1> DEFINE p == ValueOf(s)
           a == VecResult(r, b)
           e == Exact!Result(r, p, v)
<1>0. Exact!Zero = Zero /\ Exact!One = One /\ ValueOf(<< >>) = Zero /\ IsTerms(<< >>)
  BY ExactPoly, ExactOrder, NoTerms
<1>1. \A c : Exact!ScaledBy(c, p) = IF c = 0 THEN Zero ELSE Exact!Plus(Zero, c, One, p)
  BY <1>0 DEF Exact!ScaledBy
<1>2. CASE r.op = "neg"
  <2> DEFINE k == P - 1
  <2>1. e = Exact!ScaledBy(k, p) /\ a = VecNeg(vx)
    BY <1>2 DEF Exact!Result, VecResult
  <2>2. k # 0
    BY PAssumption
  <2>3. e = Exact!Plus(Zero, k, One, p)
    BY <1>1, <2>1, <2>2
  <2>4. Live(a) = Negated(s)
    BY <2>1, VecUnaryIs DEF VecIs
  <2>. QED  BY <1>0, <2>3, <2>4, FromNothing
<1>3. CASE r.op = "scale"
  <2> DEFINE c == r.c
  <2>1. e = Exact!ScaledBy(c, p) /\ a = VecScale(c, vx) /\ c \in 0 .. P - 1
    BY <1>3 DEF Exact!Result, VecResult, IsRequest
  <2> HIDE DEF a, e, c
  <2>2. Live(a) = IF c = 0 THEN << >> ELSE Scaled(c, s)
    <3>1. VecIs(VecScale(c, vx), IF c = 0 THEN << >> ELSE Scaled(c, s))
      BY <2>1, VecUnaryIs
    <3>. QED  BY <2>1, <3>1 DEF VecIs
  <2>3. CASE c = 0
    BY <1>0, <1>1, <2>1, <2>2, <2>3 DEF a, e
  <2>4. CASE c # 0
    <3>1. c \in 1 .. P - 1
      BY <2>1, <2>4
    <3>2. ValueOf(Scaled(c, s)) = Exact!Plus(Zero, c, One, p)
      BY <1>0, <3>1, FromNothing
    <3>. QED  BY <1>1, <2>1, <2>2, <2>4, <3>2 DEF a, e
  <2>. QED  BY <2>3, <2>4
<1>4. CASE r.op = "shift"
  <2> DEFINE m == r.m
  <2>1. e = Exact!Plus(Zero, 1, m, p) /\ a = VecShift(m, vx) /\ m \in Monomial
    BY <1>0, <1>4 DEF Exact!Result, VecResult, IsRequest
  <2> HIDE DEF a, e, m
  <2>2. Live(a) = Shifted(m, s)
    BY <2>1, VecUnaryIs DEF VecIs
  <2>. QED  BY <1>0, <2>1, <2>2, FromNothing DEF a, e
<1>5. CASE r.op = "monic"
  <2>1. e = (IF p = Zero THEN Zero ELSE Monic(p)) /\ a = VecMonic(vx)
    BY <1>0, <1>5, ExactUnary DEF Exact!Result, VecResult
  <2>2. Live(a) = MonicOf(s)
    BY <2>1, VecMonicIs DEF VecIs
  <2>. QED  BY <2>1, <2>2, MonicValue
<1>6. CASE r.op \in {"drop_leading", "drop_leading_in_place"}
  <2>1. e = (IF p = Zero THEN Zero ELSE DropLeading(p))
    BY <1>0, <1>6, ExactUnary DEF Exact!Result
  <2>2. a = VecDropLeading(vx) \/ a = VecDropLeadingInPlace(vx)
    BY <1>6 DEF VecResult
  <2> HIDE DEF a, e
  <2>3. \/ Live(a) = (IF Len(s) <= 1 THEN << >> ELSE Tail(s))
        \/ Live(a) = (IF s = << >> THEN s ELSE Tail(s))
    <3>1. /\ VecIs(VecDropLeading(vx), IF Len(s) <= 1 THEN << >> ELSE Tail(s))
          /\ VecIs(VecDropLeadingInPlace(vx), IF s = << >> THEN s ELSE Tail(s))
      BY VecUnaryIs
    <3>. QED  BY ONLY <2>2, <3>1 DEF VecIs
  <2>4. CASE s = << >>
    <3>1. Live(a) = << >> /\ p = Zero
      BY <1>0, <2>3, <2>4
    <3>. QED  BY <1>0, <2>1, <3>1 DEF a, e
  <2>5. CASE s # << >>
    <3>1. Live(a) = Tail(s)
      <4>1. s \in Seq(TermSpace)
        BY DEF IsTerms
      <4>2. Len(s) <= 1 => Tail(s) = << >>
        BY <2>5, <4>1
      <4>. QED  BY <2>3, <2>5, <4>2
    <3>2. p # Zero /\ ValueOf(Tail(s)) = DropLeading(p)
      BY <2>5, ValueLeads, TailValue
    <3>. QED  BY <2>1, <3>1, <3>2 DEF a, e
  <2>. QED  BY <2>4, <2>5
<1>7. CASE r.op = "from_terms"
  <2>1. e = Exact!Sum(r.ts) /\ a = VecFromTerms(r.ts) /\ r.ts \in Seq(TermSpace)
    BY <1>7 DEF Exact!Result, VecResult, IsRequest
  <2>2. Live(a) = Surviving(r.ts)
    BY <2>1, VecFromTermsIs DEF VecIs
  <2>. QED  BY <2>1, <2>2, SumValue
<1>. QED  BY <1>2, <1>3, <1>4, <1>5, <1>6, <1>7

-----------------------------------------------------------------------------
(* Refinement.                                                             *)

LEMMA RequestMade ==
  ASSUME Call
  PROVE  request' \in Requests /\ IsRequest(request') /\ merge = << >>
<1>1. /\ \A m \in Multipliers : m \in Monomial
      /\ \A ts \in TermSeqs : ts \in Seq(TermSpace)
      /\ One \in Monomial /\ << >> \in Seq(TermSpace) /\ 0 \in 0 .. P - 1
  BY InputsAssumption, DegOne, PAssumption
<1>2. \A r \in Requests : IsRequest(r)
  BY <1>1 DEF Requests, IsRequest
<1> DEFINE plain == {"add_assign", "add_consuming", "clone", "neg", "mul", "monic", "drop_leading",
                     "drop_leading_in_place"}
<1>3. SUFFICES request' \in Requests /\ merge = << >>
  BY <1>2
<1>4. ASSUME NEW own \in BOOLEAN, Add(own) \/ Sub(own) PROVE request' \in Requests /\ merge = << >>
  BY <1>1, <1>4 DEF Add, Sub, Asked, Idle, Request, Requests
<1>5. ASSUME NEW c \in 0 .. P - 1, NEW m \in Multipliers,
             \/ \E own \in BOOLEAN : SubMulTerm(c, m, own)
             \/ SubMmMultQqConsuming(c, m)
      PROVE  request' \in Requests /\ merge = << >>
  BY <1>1, <1>5 DEF SubMulTerm, SubMmMultQqConsuming, Asked, Idle, Request, Requests
<1>6. ASSUME NEW c \in 0 .. P - 1, ScaleBy(c) PROVE request' \in Requests /\ merge = << >>
  BY <1>1, <1>6 DEF ScaleBy, Asked, Idle, Request, Requests
<1>7. ASSUME NEW m \in Multipliers, Shift(m) PROVE request' \in Requests /\ merge = << >>
  BY <1>1, <1>7 DEF Shift, Asked, Idle, Request, Requests
<1>8. ASSUME NEW ts \in TermSeqs, FromTerms(ts) PROVE request' \in Requests /\ merge = << >>
  BY <1>1, <1>8 DEF FromTerms, Asked, Idle, Request, Requests
<1>9. ASSUME AddAssign \/ AddConsuming \/ CloneIntoY \/ Neg \/ MakeMonic \/ DropLeadingTerm
               \/ DropLeadingInPlace \/ Multiply
      PROVE  request' \in Requests /\ merge = << >>
  <2>1. \E op \in plain : Asked(Request(op))
    BY <1>9 DEF AddAssign, AddConsuming, CloneIntoY, Neg, MakeMonic, DropLeadingTerm,
                DropLeadingInPlace, Multiply
  <2>. QED  BY <1>1, <2>1 DEF Asked, Idle, Request, Requests
<1>. QED  BY <1>4, <1>5, <1>6, <1>7, <1>8, <1>9 DEF Call

(* What the abstract caller does, on values. *)
Calls(r, p, q, pp, qq) ==
  /\ pp = IF r.op = "clone" THEN p ELSE Exact!Result(r, p, IF r.own THEN p ELSE q)
  /\ qq = CASE r.op = "clone" -> p
            [] r.op = "add_consuming" -> Exact!Zero
            [] OTHER -> q

LEMMA CallComputes ==
  ASSUME Inv, Call, VecCall
  PROVE  Calls(request', ValueOf(Live(vx)), ValueOf(Live(vy)), ValueOf(Live(vx')), ValueOf(Live(vy')))
<1>1. request' \in Requests /\ IsRequest(request') /\ merge = << >>
  BY RequestMade
<1>2. PICK s, u : AtRest(s, u)
  <2>1. \A s, u, o, l, r : ~MergesAt(mem, x, y, merge, vx, vy, s, u, o, l, r)
    BY <1>1, MergesFacts
  <2>. QED  BY <2>1, Zenon DEF Inv, InStep, AtRest
<1> DEFINE r == request'
           b == IF r.own THEN vx ELSE vy
           v == IF r.own THEN s ELSE u
<1>3. IsTerms(s) /\ IsTerms(u) /\ VecIs(vx, s) /\ VecIs(vy, u)
  BY <1>2, AtRestFacts
<1>4. IsTerms(v) /\ VecIs(b, v) /\ Live(vx) = s /\ Live(vy) = u
  BY <1>3 DEF VecIs
<1>5. /\ vx' = VecResult(r, b)
      /\ vy' = CASE r.op = "clone" -> VecClone(vx)
                 [] r.op = "add_consuming" -> VecZero
                 [] OTHER -> vy
  BY DEF VecCall
<1>6. /\ r.op \in {"add", "add_assign", "add_consuming", "sub", "sub_mul_term",
                   "sub_mm_mult_qq_consuming", "mul"}
         \/ r.op \in {"neg", "scale", "shift", "monic", "drop_leading", "drop_leading_in_place",
                      "from_terms"}
         \/ r.op = "clone"
      /\ IsRequest(r)
  BY <1>1 DEF IsRequest
<1> HIDE DEF r, b, v
<1>7. r.op # "clone" => ValueOf(Live(vx')) = Exact!Result(r, ValueOf(s), ValueOf(v))
  BY <1>3, <1>4, <1>5, <1>6, BinaryValues, UnaryValues
<1>8. r.op = "clone" => vx' = vx
  BY <1>5 DEF VecResult
<1>9. ValueOf(v) = IF r.own THEN ValueOf(s) ELSE ValueOf(u)
  BY DEF v
<1>10. Live(VecClone(vx)) = s
  BY <1>3, VecCloneIs DEF VecIs
<1>11. ValueOf(Live(VecZero)) = Exact!Zero
  <2>1. Live(VecZero) = << >>
    BY VecZeroIs DEF VecIs
  <2>. QED  BY <2>1, NoTerms, ExactPoly
<1>12. ValueOf(Live(vx')) = IF r.op = "clone" THEN ValueOf(s)
                            ELSE Exact!Result(r, ValueOf(s), IF r.own THEN ValueOf(s) ELSE ValueOf(u))
  BY <1>4, <1>7, <1>8, <1>9
<1>13. ValueOf(Live(vy')) = CASE r.op = "clone" -> ValueOf(s)
                              [] r.op = "add_consuming" -> Exact!Zero
                              [] OTHER -> ValueOf(u)
  BY <1>4, <1>5, <1>10, <1>11
<1>. QED  BY <1>4, <1>12, <1>13 DEF Calls, r

LEMMA CallImplements ==
  ASSUME Inv, Call, VecCall
  PROVE  Exact!Call
<1>1. request' \in Requests
  BY RequestMade
<1>2. Calls(request', ValueOf(Live(vx)), ValueOf(Live(vy)), ValueOf(Live(vx')), ValueOf(Live(vy')))
  BY CallComputes
<1>. QED  BY <1>1, <1>2 DEF Exact!Call, Calls

LEMMA StepImplements ==
  ASSUME Inv, [BackendsNext]_backendVars
  PROVE  [Exact!Call]_(Exact!vars)
<1>1. CASE Call /\ VecCall
  BY <1>1, CallImplements
<1>2. CASE Turn /\ UNCHANGED <<vx, vy>>
  <2>1. UNCHANGED <<request, vx, vy>>
    BY <1>2 DEF Turn, TakeGreater, TakeLess, Combine, RestOfLeft, RestOfRight, FinishMerge
  <2>. QED  BY <2>1 DEF Exact!vars
<1>3. CASE Quiet \/ UNCHANGED backendVars
  <2>1. UNCHANGED <<request, vx, vy>>
    BY <1>3 DEF Quiet, backendVars, vars, memVars
  <2>. QED  BY <2>1 DEF Exact!vars
<1>. QED  BY <1>1, <1>2, <1>3 DEF BackendsNext

LEMMA InitImplements ==
  ASSUME BackendsInit
  PROVE  Exact!Init
<1>1. PICK p \in InitialPolys, q \in InitialPolys : RestsAt(mem, x, y, merge, vx, vy, p, q)
  BY InitRests
<1>2. Live(vx) = p /\ Live(vy) = q
  BY <1>1 DEF RestsAt, VecIs
<1>3. request.op = "none"
  BY DEF BackendsInit, Init
<1>. QED  BY <1>2, <1>3 DEF Exact!Init

(* Every call has the value that the exact operation of PolyValues has on  *)
(* the values of its operands, for every field, every set of start         *)
(* polynomials and any number of calls: no merge, sum or product loses,    *)
(* doubles or misplaces a term (poly_vec.rs:209-648).  It is stated of the *)
(* arrays; by BackendsAgreeHolds it is true of the list between calls.     *)
(* The turns of the list's merge loops are stutters.                       *)
THEOREM RefinesValues == BackendsSpec => ImplementsValues
<1>1. BackendsInit => Exact!Init
  BY InitImplements
<1>2. Inv /\ [BackendsNext]_backendVars => [Exact!Call]_(Exact!vars)
  BY StepImplements
<1>. QED  BY <1>1, <1>2, InvHolds, PTL DEF BackendsSpec, ImplementsValues, Exact!Spec
=============================================================================

---------------------------- MODULE ReducerProofs ----------------------------
(***************************************************************************)
(* What holds of the geobucket and of the two reducers for every number of *)
(* slots, every base of their capacities, every prime and every operand:   *)
(* their invariants, and that each implements its exact specification.     *)
(***************************************************************************)
EXTENDS Reducers, AlgebraProofs

-----------------------------------------------------------------------------
(* Slots.                                                                  *)

LEMMA CapacityDefined ==
  Capacity = [i \in Slot |-> IF i = 0 THEN 1 ELSE SLOT_BASE * Capacity[i - 1]]
<1> DEFINE top == NUM_SLOTS - 1
           IsCapacity(f, n) == f = [i \in 0 .. n |-> IF i = 0 THEN 1 ELSE SLOT_BASE * f[i - 1]]
           S == {n \in 0 .. top : \E f : IsCapacity(f, n)}
<1>0. top \in Nat /\ Slot = 0 .. top
  BY SlotsAssumption DEF Slot
<1> HIDE DEF top
<1>1. 0 \in S
  <2> DEFINE f == [i \in 0 .. 0 |-> 1]
  <2>1. IsCapacity(f, 0)
    OBVIOUS
  <2> HIDE DEF f
  <2> QED
    BY <1>0, <2>1
<1>2. ASSUME NEW k \in 1 .. top, k - 1 \in S
      PROVE  k \in S
  <2>1. PICK f : IsCapacity(f, k - 1)
    BY <1>2
  <2> DEFINE g == [i \in 0 .. k |-> IF i = k THEN SLOT_BASE * f[k - 1] ELSE f[i]]
  <2>2. \A i \in 0 .. k - 1 : g[i] = f[i] /\ f[i] = IF i = 0 THEN 1 ELSE SLOT_BASE * f[i - 1]
    BY <2>1
  <2>3. \A i \in 0 .. k : g[i] = IF i = 0 THEN 1 ELSE SLOT_BASE * g[i - 1]
    <3> DEFINE times(x) == SLOT_BASE * x
    <3>1. g[k] = times(f[k - 1]) /\ g[k - 1] = f[k - 1]
      OBVIOUS
    <3>2. \A i \in 0 .. k - 1 : g[i] = IF i = 0 THEN 1 ELSE times(f[i - 1])
      BY <2>2
    <3>3. \A i \in 1 .. k : g[i - 1] = f[i - 1]
      BY <2>2
    <3> HIDE DEF times, g
    <3>4. \A i \in 0 .. k : g[i] = IF i = 0 THEN 1 ELSE times(g[i - 1])
      BY <3>1, <3>2, <3>3
    <3> QED
      BY <3>4 DEF times
  <2>4. g = [i \in 0 .. k |-> g[i]]
    OBVIOUS
  <2> HIDE DEF g
  <2>5. IsCapacity(g, k)
    BY <2>3, <2>4
  <2> QED
    BY <1>0, <2>5
<1>3. top \in S
  <2> HIDE DEF S
  <2> QED
    BY <1>0, <1>1, <1>2, InductionUpTo
<1>4. \E f : IsCapacity(f, top)
  BY <1>3
<1> QED
  BY <1>0, <1>4 DEF Capacity

LEMMA CapacityType == \A i \in Slot : Capacity[i] \in Nat
<1> DEFINE top == NUM_SLOTS - 1
           S == {i \in 0 .. top : Capacity[i] \in Nat}
<1>1. top \in Nat /\ Slot = 0 .. top
  BY SlotsAssumption DEF Slot
<1>2. \A i \in Slot : Capacity[i] = IF i = 0 THEN 1 ELSE SLOT_BASE * Capacity[i - 1]
  BY CapacityDefined
<1> HIDE DEF top
<1>3. 0 \in S
  BY <1>1, <1>2
<1>4. ASSUME NEW k \in 1 .. top, k - 1 \in S PROVE k \in S
  <2>1. Capacity[k] = SLOT_BASE * Capacity[k - 1] /\ Capacity[k - 1] \in Nat /\ k \in 0 .. top
    BY <1>1, <1>2, <1>4
  <2>2. SLOT_BASE \in Nat
    BY SlotsAssumption
  <2>3. SLOT_BASE * Capacity[k - 1] \in Nat
    BY <2>1, <2>2
  <2> QED
    BY <2>1, <2>3
<1>5. \A k \in 0 .. top : k \in S
  <2> HIDE DEF S
  <2> QED
    BY <1>1, <1>3, <1>4, InductionUpTo
<1> QED
  BY <1>1, <1>5

(* A slot for every length, and no smaller one has room.                   *)
LEMMA SlotForLenFacts ==
  ASSUME NEW n \in Nat
  PROVE  /\ SlotForLen(n) \in Slot
         /\ SlotForLen(n) = NUM_SLOTS - 1 \/ Capacity[SlotForLen(n)] >= n
         /\ \A k \in 0 .. SlotForLen(n) - 1 : Capacity[k] < n
<1> DEFINE room(i) == i = NUM_SLOTS - 1 \/ Capacity[i] >= n
           T == {i \in Slot : room(i)}
<1>1. NUM_SLOTS \in Nat /\ NUM_SLOTS > 0 /\ Slot = 0 .. NUM_SLOTS - 1
  BY SlotsAssumption DEF Slot
<1>2. T \in SUBSET Nat /\ T # {}
  <2>1. NUM_SLOTS - 1 \in T
    BY <1>1
  <2>2. Slot \in SUBSET Nat
    BY <1>1
  <2> HIDE DEF room
  <2> QED
    BY <2>1, <2>2
<1>3. PICK i \in T : \A k \in T : i <= k
  <2> HIDE DEF T
  <2> QED
    BY <1>2, LeastNatural
<1>4. \A k \in 0 .. i - 1 : k \in Slot /\ k \notin T
  BY <1>1, <1>3
<1>5. \A k \in 0 .. i - 1 : Capacity[k] < n
  BY <1>1, <1>4, CapacityType
<1> QED
  BY <1>3, <1>5 DEF SlotForLen

LEMMA SlotForLenMonotone ==
  ASSUME NEW m \in Nat, NEW n \in Nat, m <= n
  PROVE  SlotForLen(m) <= SlotForLen(n)
<1> DEFINE i == SlotForLen(m)
           j == SlotForLen(n)
<1>1. /\ i \in Slot /\ j \in Slot
      /\ j = NUM_SLOTS - 1 \/ Capacity[j] >= n
      /\ \A k \in 0 .. i - 1 : Capacity[k] < m
  BY SlotForLenFacts
<1>2. Capacity[j] \in Nat
  BY <1>1, CapacityType
<1>3. i \in Nat /\ j \in Nat /\ i <= NUM_SLOTS - 1 /\ NUM_SLOTS \in Nat
  BY <1>1, SlotsAssumption DEF Slot
<1> HIDE DEF i, j
<1>4. ~(j < i)
  BY <1>1, <1>2, <1>3
<1>5. i <= j
  BY <1>3, <1>4
<1> QED
  BY <1>5 DEF i, j

LEMMA TermsFacts ==
  ASSUME NEW p, IsPolynomial(p)
  PROVE  /\ Terms(p) \in Nat
         /\ SlotForLen(Terms(p)) \in Slot
         /\ IsPolynomial(DropLeading(p))
         /\ SlotForLen(Terms(DropLeading(p))) <= SlotForLen(Terms(p))
<1>1. IsFiniteSet(Support(p))
  BY DEF IsPolynomial, Support
<1>2. Support(DropLeading(p)) \subseteq Support(p) /\ IsPolynomial(DropLeading(p))
  BY DropIsPolynomial
<1>3. /\ Terms(p) \in Nat /\ Terms(DropLeading(p)) \in Nat
      /\ Terms(DropLeading(p)) <= Terms(p)
  BY <1>1, <1>2, FS_CardinalityType, FS_Subset DEF Terms
<1> QED
  BY <1>2, <1>3, SlotForLenFacts, SlotForLenMonotone

(* A carried polynomial that meets an empty slot stays as it is.           *)
LEMMA AddToZero ==
  ASSUME NEW q, IsPolynomial(q)
  PROVE  Terms(Add(Zero, q)) = Terms(q)
<1> DEFINE shifted == {Mul(One, u) : u \in Support(q)}
<1>1. Support(q) \subseteq Monomial
  BY DEF IsPolynomial, Support
<1>2. shifted = Support(q)
  BY <1>1, MulOne
<1>3. Support(Zero) = {}
  BY DEF Zero, Support
<1>4. \A t : t \in Support(Add(Zero, q))
               => \E u \in Support(q) : t = Mul(One, u)
  <2>1. P - 1 \in Int /\ One \in Monomial /\ IsPolynomial(Zero)
    BY PAssumption, DegOne, ZeroIsPolynomial
  <2> DEFINE c == P - 1
  <2>0. c \in Int
    BY <2>1
  <2> HIDE DEF c, shifted
  <2>2. \A t : t \in Support(MinusMMultP(Zero, One, c, q))
                 => t \in Support(Zero) \/ \E u \in Support(q) : t = Mul(One, u)
    BY <2>0, <2>1, SubtractIsPolynomial
  <2> USE DEF c
  <2> QED
    BY <1>3, <2>2 DEF Add
<1>7. \A u \in Support(q) : Difference(Zero, One, P - 1, q, u) # 0 => u \in Support(Add(Zero, q))
  <2>1. P - 1 \in Int /\ One \in Monomial /\ IsPolynomial(Zero)
    BY PAssumption, DegOne, ZeroIsPolynomial
  <2>2. \A u \in Support(q) : Mul(One, u) = u
    BY <1>1, MulOne
  <2> QED
    BY <2>1, <2>2, SubtractIsPolynomial DEF Add
<1>5. ASSUME NEW t \in Support(q) PROVE Difference(Zero, One, P - 1, q, t) # 0
  <2>1. Coef(Zero, t) = 0
    BY <1>3 DEF Coef
  <2>2. Div(t, One) = t
    <3>1. Mul(One, t) = t /\ t \in Monomial
      BY <1>1, MulOne
    <3> QED
      BY <3>1, DivMul, DegOne
  <2>3. q.terms[t] \in 1 .. P - 1
    BY DEF IsPolynomial, Support
  <2>4. Difference(Zero, One, P - 1, q, t) = (0 + (P - (P - 1)) * q.terms[t]) % P
    BY <1>2, <2>1, <2>2 DEF Difference
  <2>5. P - (P - 1) = 1 /\ 1 * q.terms[t] = q.terms[t] /\ P \in Nat /\ P > 1
    BY <2>3, PAssumption
  <2>6. q.terms[t] % P = q.terms[t]
    BY <2>3, <2>5
  <2> QED
    BY <2>3, <2>4, <2>5, <2>6
<1>6. Support(Add(Zero, q)) = Support(q)
  BY <1>2, <1>4, <1>5, <1>7
<1> QED
  BY <1>6 DEF Terms

-----------------------------------------------------------------------------
(* The geobucket.                                                          *)

(* The slots and what a cascade carries are polynomials; a cascade runs    *)
(* while no question is asked; the cache names a slot.                     *)
BucketInv ==
  /\ slots = [i \in Slot |-> slots[i]]
  /\ \A i \in Slot : IsPolynomial(slots[i])
  /\ IsPolynomial(carry)
  /\ asked # Nothing => carry = Zero
  /\ lm_cache # Nothing => lm_cache.slot \in Slot
  /\ TypeOK

(* An answer that a reduction can go on with.                              *)
Usable(a) == a.c \in Int /\ a.m \in Monomial

LEMMA SlotsAreNumbers == Slot \subseteq Nat /\ 0 \in Slot
BY SlotsAssumption DEF Slot

LEMMA FromPolyKeeps ==
  ASSUME NEW p, IsPolynomial(p), slots = FromPoly(p),
         lm_cache = Nothing, carry = Zero, asked = Nothing
  PROVE  BucketInv
<1>1. \A i \in Slot : slots[i] = IF i = SlotForLen(Terms(p)) THEN p ELSE Zero
  BY DEF FromPoly
<1>2. slots = [i \in Slot |-> slots[i]]
  BY DEF FromPoly
<1>3. SlotForLen(Terms(p)) \in Slot
  BY TermsFacts
<1>4. \A i \in Slot : slots[i] # Zero => SlotForLen(Terms(slots[i])) <= i
  BY <1>1, <1>3, SlotsAreNumbers
<1> QED
  BY <1>1, <1>2, <1>4, ZeroIsPolynomial DEF BucketInv, TypeOK

(* A merged polynomial is put where it fits, or carried on.                *)
LEMMA PlaceKeeps ==
  ASSUME BucketInv, asked = Nothing, asked' = asked,
         NEW i \in Slot, NEW merged, IsPolynomial(merged), Place(i, merged)
  PROVE  BucketInv'
<1> DEFINE fits == SlotForLen(Terms(merged)) = i
<1>1. /\ slots' = [slots EXCEPT ![i] = IF fits THEN merged ELSE Zero]
      /\ carry' = IF fits THEN Zero ELSE merged
      /\ lm_cache' = Nothing
  BY DEF Place
<1>2. /\ slots' = [k \in Slot |-> slots'[k]]
      /\ \A k \in Slot : slots'[k] = IF k = i THEN IF fits THEN merged ELSE Zero ELSE slots[k]
  BY <1>1 DEF BucketInv
<1>3. \A k \in Slot : IsPolynomial(slots'[k])
  BY <1>2, ZeroIsPolynomial DEF BucketInv
<1>4. IsPolynomial(carry')
  BY <1>1, ZeroIsPolynomial
<1>5. \A k \in Slot : slots'[k] # Zero => SlotForLen(Terms(slots'[k])) <= k
  <2>1. i <= i
    BY SlotsAreNumbers
  <2> QED
    BY <1>2, <2>1 DEF BucketInv, TypeOK
<1> QED
  BY <1>1, <1>2, <1>3, <1>4, <1>5 DEF BucketInv, TypeOK

LEMMA MinusKeeps ==
  ASSUME BucketInv, NEW m \in Monomial, NEW c \in Int, NEW p, IsPolynomial(p),
         Minus_m_mult_p(m, c, p)
  PROVE  BucketInv'
<1> DEFINE i == SlotForLen(Terms(p))
           merged == MinusMMultP(slots[i], m, c, p)
<1>1. asked = Nothing /\ asked' = asked /\ Place(i, merged)
  BY DEF Minus_m_mult_p, Idle
<1>2. i \in Slot
  BY TermsFacts
<1> HIDE DEF i
<1>3. IsPolynomial(merged)
  BY <1>2, SubtractIsPolynomial DEF BucketInv
<1> HIDE DEF merged
<1> QED
  BY <1>1, <1>2, <1>3, PlaceKeeps

LEMMA AbsorbKeeps ==
  ASSUME BucketInv, Absorb
  PROVE  BucketInv' /\ UNCHANGED <<asked, answer>>
<1> DEFINE i == SlotForLen(Terms(carry))
           merged == Add(slots[i], carry)
<1>1. asked = Nothing /\ asked' = asked /\ Place(i, merged) /\ answer' = answer
  BY DEF Absorb, BucketInv
<1>2. i \in Slot /\ IsPolynomial(carry)
  BY TermsFacts DEF BucketInv
<1> HIDE DEF i
<1>3. IsPolynomial(merged)
  <2>1. P - 1 \in Int /\ One \in Monomial /\ IsPolynomial(slots[i])
    BY <1>2, PAssumption, DegOne DEF BucketInv
  <2>2. IsPolynomial(MinusMMultP(slots[i], One, P - 1, carry))
    BY <1>2, <2>1, SubtractIsPolynomial, Zenon
  <2> QED
    BY <2>2 DEF Add
<1> HIDE DEF merged
<1> QED
  BY <1>1, <1>2, <1>3, PlaceKeeps

(* Leading terms are taken off slots that are not empty.                   *)
LEMMA PeeledFacts ==
  ASSUME BucketInv, NEW S, \A i \in S : i \in Slot /\ slots[i] # Zero
  PROVE  /\ Peeled(S) = [i \in Slot |-> Peeled(S)[i]]
         /\ \A i \in Slot : /\ IsPolynomial(Peeled(S)[i])
                            /\ Peeled(S)[i] # Zero => SlotForLen(Terms(Peeled(S)[i])) <= i
<1>1. \A i \in Slot : Peeled(S)[i] = IF i \in S THEN DropLeading(slots[i]) ELSE slots[i]
  BY DEF Peeled
<1>2. ASSUME NEW i \in Slot
      PROVE  /\ IsPolynomial(Peeled(S)[i])
             /\ Peeled(S)[i] # Zero => SlotForLen(Terms(Peeled(S)[i])) <= i
  <2>1. /\ IsPolynomial(slots[i])
        /\ slots[i] # Zero => SlotForLen(Terms(slots[i])) <= i
    BY DEF BucketInv, TypeOK
  <2>2. CASE i \in S
    <3> DEFINE d == DropLeading(slots[i])
    <3>1. /\ IsPolynomial(d) /\ SlotForLen(Terms(d)) \in Slot
          /\ SlotForLen(Terms(slots[i])) \in Slot
          /\ SlotForLen(Terms(d)) <= SlotForLen(Terms(slots[i]))
      BY <2>1, TermsFacts
    <3>2. SlotForLen(Terms(slots[i])) <= i
      BY <2>1, <2>2
    <3>3. Peeled(S)[i] = d
      BY <1>1, <2>2
    <3> HIDE DEF d
    <3>4. SlotForLen(Terms(d)) <= i
      <4>1. /\ SlotForLen(Terms(d)) \in Nat /\ i \in Nat
            /\ SlotForLen(Terms(slots[i])) \in Nat
        BY <3>1, SlotsAreNumbers
      <4> QED
        BY <3>1, <3>2, <4>1
    <3> QED
      BY <3>1, <3>3, <3>4
  <2>3. CASE i \notin S
    BY <1>1, <2>1, <2>3
  <2> QED
    BY <2>2, <2>3
<1>3. Peeled(S) = [i \in Slot |-> Peeled(S)[i]]
  BY DEF Peeled
<1> QED
  BY <1>2, <1>3

LEMMA PeelKeeps ==
  ASSUME BucketInv, Peel
  PROVE  BucketInv' /\ UNCHANGED <<asked, answer>>
<1> DEFINE new == Peeled(Tops)
<1>1. /\ slots' = new /\ lm_cache' = Nothing
      /\ carry' = carry /\ asked' = asked /\ answer' = answer
  BY DEF Peel
<1>2. /\ new = [i \in Slot |-> new[i]]
      /\ \A i \in Slot : /\ IsPolynomial(new[i])
                         /\ new[i] # Zero => SlotForLen(Terms(new[i])) <= i
  <2>1. \A i \in Tops : i \in Slot /\ slots[i] # Zero
    BY DEF Tops
  <2> QED
    BY <2>1, PeeledFacts
<1> HIDE DEF new
<1> QED
  BY <1>1, <1>2 DEF BucketInv, TypeOK

(* The term that a call delivers is the leading term of its slot.          *)
LEMMA DeliverKeeps ==
  ASSUME BucketInv, asked # Nothing, NEW term, Deliver(term),
         term.c \in Coefficients, term.slot \in Slot,
         slots[term.slot] # Zero, LM(slots[term.slot]) = term.m
  PROVE  BucketInv' /\ asked' = Nothing /\ Usable(answer')
<1> DEFINE S == {i \in Slot : slots[i] # Zero /\ LM(slots[i]) = term.m}
           new == Peeled(S)
<1>1. /\ asked' = Nothing /\ carry' = carry
      /\ answer' = [c |-> term.c, m |-> term.m]
      /\ \/ lm_cache' = term /\ slots' = slots
         \/ lm_cache' = Nothing /\ slots' = new
  BY DEF Deliver
<1>2. /\ new = [i \in Slot |-> new[i]]
      /\ \A i \in Slot : /\ IsPolynomial(new[i])
                         /\ new[i] # Zero => SlotForLen(Terms(new[i])) <= i
  <2>1. \A i \in S : i \in Slot /\ slots[i] # Zero
    OBVIOUS
  <2> HIDE DEF S
  <2> QED
    BY <2>1, PeeledFacts
<1>3. Usable(answer')
  <2>1. term.c \in Int
    BY PAssumption DEF Coefficients
  <2>2. term.m \in Monomial
    BY LeadingIsLargest DEF BucketInv
  <2> QED
    BY <1>1, <2>1, <2>2 DEF Usable
<1> HIDE DEF new, S
<1>4. ASSUME lm_cache' = term, slots' = slots PROVE BucketInv'
  BY <1>1, <1>4 DEF BucketInv, TypeOK
<1>5. ASSUME lm_cache' = Nothing, slots' = new PROVE BucketInv'
  BY <1>1, <1>2, <1>5 DEF BucketInv, TypeOK
<1> QED
  BY <1>1, <1>3, <1>4, <1>5

(* The sum of leading coefficients is a coefficient or zero.               *)
LEMMA TopSumIs ==
  ASSUME BucketInv
  PROVE  /\ TopSum = (Total([i \in Slot |-> LC(slots[i])], Tops) % P)
         /\ TopSum \in 0 .. P - 1
<1> DEFINE v == [i \in Slot |-> LC(slots[i])]
           sum == Total(v, Tops)
<1>1. Tops \subseteq Slot /\ \A i \in Tops : slots[i] # Zero
  BY DEF Tops
<1>2. IsFiniteSet(Tops)
  <2>1. IsFiniteSet(Slot)
    BY SlotsAssumption, FS_Interval DEF Slot
  <2> QED
    BY <1>1, <2>1, FS_Subset
<1>3. \A i \in Tops : v[i] = LC(slots[i]) /\ v[i] \in Nat
  <2>1. ASSUME NEW i \in Tops PROVE v[i] = LC(slots[i]) /\ LC(slots[i]) \in 1 .. P - 1
    BY <1>1, LeadingIsLargest DEF BucketInv
  <2> HIDE DEF v
  <2>2. 1 .. P - 1 \subseteq Nat
    BY PAssumption
  <2> QED
    BY <2>1, <2>2
<1> HIDE DEF v
<1>4. sum \in Nat
  BY <1>2, <1>3, TotalType
<1>5. MapThenSumSet(LAMBDA i : LC(slots[i]), Tops) = sum
  <2> DEFINE body(iter, s) == IF s = {} THEN 0 ELSE v[Pick(s)] + iter[s \ {Pick(s)}]
             full(iter, s) == IF s = {} THEN 0 ELSE LC(slots[Pick(s)]) + iter[s \ {Pick(s)}]
  <2>1. \A iter : \A s \in SUBSET Tops : body(iter, s) = full(iter, s)
    <3>1. \A s \in SUBSET Tops : s # {} => Pick(s) \in Tops
      BY DEF Pick
    <3> QED
      BY <1>3, <3>1
  <2> DEFINE Bodies(iter) == [s \in SUBSET Tops |-> body(iter, s)]
             Fulls(iter) == [s \in SUBSET Tops |-> full(iter, s)]
  <2>2. \A iter : Bodies(iter) = Fulls(iter)
    <3> HIDE DEF body, full
    <3> QED
      BY <2>1
  <2>3. SumsOver(v, Tops) = CHOOSE iter : iter = Bodies(iter)
    BY DEF SumsOver
  <2>4. MapThenSumSet(LAMBDA i : LC(slots[i]), Tops)
          = (CHOOSE iter : iter = Fulls(iter))[Tops]
    BY DEF MapThenSumSet, MapThenFoldSet, Pick
  <2> HIDE DEF Bodies, Fulls
  <2> QED
    BY <2>2, <2>3, <2>4, Zenon DEF Total
<1>6. TopSum = (sum % P)
  BY <1>5 DEF TopSum
<1>7. TopSum \in 0 .. P - 1
  <2> HIDE DEF sum
  <2> QED
    BY <1>4, <1>6, PAssumption
<1> QED
  BY <1>6, <1>7 DEF v

LEMMA BestIsTop ==
  ASSUME Tops # {}
  PROVE  Best \in Tops
<1>1. Tops \in SUBSET Nat
  BY SlotsAreNumbers DEF Tops
<1> QED
  BY <1>1, LeastNatural DEF Best

LEMMA TurnKeeps ==
  ASSUME BucketInv, Turn
  PROVE  /\ BucketInv'
         /\ \/ UNCHANGED <<asked, answer>>
            \/ asked' = Nothing /\ Usable(answer')
<1>1. ASSUME FromCache PROVE BucketInv' /\ asked' = Nothing /\ Usable(answer')
  <2>1. asked # Nothing /\ Deliver(lm_cache) /\ lm_cache # Nothing
    BY <1>1 DEF FromCache, Cached
  <2>2. /\ lm_cache.c \in Coefficients /\ lm_cache.slot \in Slot
        /\ slots[lm_cache.slot] # Zero /\ LM(slots[lm_cache.slot]) = lm_cache.m
    BY <2>1 DEF BucketInv, TypeOK
  <2> QED
    BY <2>1, <2>2, DeliverKeeps
<1>2. ASSUME FromScan PROVE BucketInv' /\ asked' = Nothing /\ Usable(answer')
  <2> DEFINE term == [c |-> TopSum, m |-> LM(slots[Best]), slot |-> Best]
  <2>1. asked # Nothing /\ Deliver(term) /\ Tops # {} /\ TopSum # 0
    BY <1>2 DEF FromScan
  <2>2. Best \in Slot /\ slots[Best] # Zero
    BY <2>1, BestIsTop DEF Tops
  <2>3. TopSum \in Coefficients
    BY <2>1, TopSumIs, PAssumption DEF Coefficients
  <2>4. term.c = TopSum /\ term.slot = Best /\ term.m = LM(slots[Best])
    OBVIOUS
  <2> HIDE DEF term
  <2> QED
    BY <2>1, <2>2, <2>3, <2>4, DeliverKeeps
<1>3. ASSUME NoTerm PROVE BucketInv' /\ asked' = Nothing /\ Usable(answer')
  <2>1. /\ answer' = None /\ asked' = Nothing /\ lm_cache' = Nothing
        /\ slots' = slots /\ carry' = carry
    BY <1>3 DEF NoTerm
  <2>2. Usable(answer')
    BY <2>1, DegOne DEF None, Usable
  <2>3. BucketInv'
    BY <2>1 DEF BucketInv, TypeOK
  <2> QED
    BY <2>1, <2>2, <2>3
<1>4. ASSUME Absorb \/ Peel PROVE BucketInv' /\ UNCHANGED <<asked, answer>>
  BY <1>4, AbsorbKeeps, PeelKeeps
<1> QED
  BY <1>1, <1>2, <1>3, <1>4 DEF Turn

LEMMA AskKeeps ==
  ASSUME BucketInv, NEW call \in {"leading", "extract"}, Ask(call)
  PROVE  BucketInv' /\ asked' # Nothing
BY NothingAssumption DEF Ask, Idle, BucketInv, TypeOK

(* A cascade that goes on leaves a slot empty that was not.                *)
LEMMA PlaceShrinks ==
  ASSUME BucketInv, Absorb, carry' # Zero
  PROVE  Cardinality(Occupied') < Cardinality(Occupied)
<1> DEFINE i == SlotForLen(Terms(carry))
           merged == Add(slots[i], carry)
<1>1. carry # Zero /\ Place(i, merged)
  BY DEF Absorb
<1>2. i \in Slot /\ IsPolynomial(carry)
  BY TermsFacts DEF BucketInv
<1>3. SlotForLen(Terms(merged)) # i /\ slots' = [slots EXCEPT ![i] = Zero]
  BY <1>1 DEF Place
<1>4. slots[i] # Zero
  <2>1. ASSUME slots[i] = Zero PROVE FALSE
    <3>1. merged = Add(Zero, carry)
      BY <2>1
    <3>2. Terms(merged) = Terms(carry)
      BY <1>2, <3>1, AddToZero
    <3> QED
      BY <1>3, <3>2
  <2> QED
    BY <2>1
<1> HIDE DEF i, merged
<1>5. \A k \in Slot : slots'[k] = IF k = i THEN Zero ELSE slots[k]
  BY <1>3 DEF BucketInv
<1>6. Occupied' = Occupied \ {i} /\ i \in Occupied
  BY <1>2, <1>4, <1>5 DEF Occupied
<1>7. IsFiniteSet(Occupied)
  <2>1. IsFiniteSet(Slot)
    BY SlotsAssumption, FS_Interval DEF Slot
  <2> QED
    BY <2>1, FS_Subset DEF Occupied
<1>8. Cardinality(Occupied \ {i}) = Cardinality(Occupied) - 1 /\ Cardinality(Occupied) \in Nat
  BY <1>6, <1>7, FS_RemoveElement, FS_CardinalityType
<1> QED
  BY <1>6, <1>8

(* The coefficients of t in the slots, and what they sum up to with that   *)
(* of the carried polynomial.                                              *)
At(t) == [i \in Slot |-> Coef(slots[i], t)]

BucketSum(t) == Coef(carry, t) + Total(At(t), Slot)

LEMMA SlotIsFinite == IsFiniteSet(Slot)
BY SlotsAssumption, FS_Interval DEF Slot

LEMMA AtFacts ==
  ASSUME BucketInv
  PROVE  /\ \A t : \A i \in Slot : At(t)[i] \in Nat
         /\ \A t : Total(At(t), Slot) \in Nat /\ BucketSum(t) \in Nat
<1>1. 0 .. P - 1 \subseteq Nat
  BY PAssumption
<1>2. \A t : \A i \in Slot : At(t)[i] \in Nat
  BY <1>1, CoefFacts DEF BucketInv, At
<1>3. \A t : Total(At(t), Slot) \in Nat
  BY <1>2, SlotIsFinite, TotalType
<1>4. \A t : Coef(carry, t) \in Nat
  BY <1>1, CoefFacts DEF BucketInv
<1> QED
  BY <1>2, <1>3, <1>4 DEF BucketSum

LEMMA ValueFacts ==
  ASSUME BucketInv
  PROVE  IsPolynomial(Value) /\ \A t : Coef(Value, t) = (BucketSum(t) % P)
<1> DEFINE D == Support(carry) \cup UNION {Support(slots[i]) : i \in Slot}
           f == [t \in D |-> BucketSum(t) % P]
<1>1. ASSUME NEW t
      PROVE  MapThenSumSet(LAMBDA i : Coef(slots[i], t), Slot) = Total(At(t), Slot)
  <2> DEFINE body(iter, s) == IF s = {} THEN 0 ELSE At(t)[Pick(s)] + iter[s \ {Pick(s)}]
             full(iter, s) == IF s = {} THEN 0 ELSE Coef(slots[Pick(s)], t) + iter[s \ {Pick(s)}]
  <2>1. \A iter : \A s \in SUBSET Slot : body(iter, s) = full(iter, s)
    <3>1. \A s \in SUBSET Slot : s # {} => Pick(s) \in Slot
      BY DEF Pick
    <3>2. \A i \in Slot : At(t)[i] = Coef(slots[i], t)
      BY DEF At
    <3> QED
      BY <3>1, <3>2
  <2> DEFINE Bodies(iter) == [s \in SUBSET Slot |-> body(iter, s)]
             Fulls(iter) == [s \in SUBSET Slot |-> full(iter, s)]
  <2>2. \A iter : Bodies(iter) = Fulls(iter)
    <3> HIDE DEF body, full
    <3> QED
      BY <2>1
  <2>3. SumsOver(At(t), Slot) = CHOOSE iter : iter = Bodies(iter)
    BY DEF SumsOver
  <2>4. MapThenSumSet(LAMBDA i : Coef(slots[i], t), Slot)
          = (CHOOSE iter : iter = Fulls(iter))[Slot]
    BY DEF MapThenSumSet, MapThenFoldSet, Pick
  <2> HIDE DEF Bodies, Fulls
  <2> QED
    BY <2>2, <2>3, <2>4, Zenon DEF Total
<1>2. Value = Poly([t \in {u \in D : f[u] # 0} |-> f[t]])
  <2> DEFINE c(t) == (Coef(carry, t) + MapThenSumSet(LAMBDA i : Coef(slots[i], t), Slot)) % P
  <2>1. \A t : c(t) = (BucketSum(t) % P)
    BY <1>1 DEF BucketSum
  <2>2. \A t \in D : f[t] = c(t)
    BY <2>1
  <2>3. Value = Poly([t \in {u \in D : c(u) # 0} |-> c(t)])
    BY DEF Value
  <2> HIDE DEF f, c, D
  <2>4. {u \in D : c(u) # 0} = {u \in D : f[u] # 0}
    BY <2>2
  <2>5. [t \in {u \in D : c(u) # 0} |-> c(t)] = [t \in {u \in D : f[u] # 0} |-> f[t]]
    BY <2>2, <2>4
  <2> QED
    BY <2>3, <2>5
<1>3. IsFiniteSet(D) /\ D \subseteq Monomial
  <2>1. \A i \in Slot : IsFiniteSet(Support(slots[i])) /\ Support(slots[i]) \subseteq Monomial
    BY DEF BucketInv, IsPolynomial, Support
  <2>2. IsFiniteSet(Support(carry)) /\ Support(carry) \subseteq Monomial
    BY DEF BucketInv, IsPolynomial, Support
  <2> DEFINE F == {Support(slots[i]) : i \in Slot}
             g == [i \in Slot |-> Support(slots[i])]
  <2>3. IsFiniteSet(F)
    <3>1. g \in Surjection(Slot, F)
      BY DEF Surjection
    <3> HIDE DEF F, g
    <3> QED
      BY <3>1, SlotIsFinite, FS_Surjection
  <2>4. \A X \in F : IsFiniteSet(X)
    BY <2>1
  <2>5. IsFiniteSet(UNION F)
    <3> HIDE DEF F
    <3> QED
      BY <2>3, <2>4, FS_UNION
  <2>6. IsFiniteSet(Support(carry) \cup UNION F)
    <3> HIDE DEF F
    <3> QED
      BY <2>2, <2>5, FS_Union
  <2> QED
    BY <2>1, <2>2, <2>6
<1>4. \A t : (BucketSum(t) % P) \in 0 .. P - 1
  BY AtFacts, PAssumption
<1>5. \A t : t \notin D => (BucketSum(t) % P) = 0
  <2>1. ASSUME NEW t, t \notin D PROVE (BucketSum(t) % P) = 0
    <3>1. Coef(carry, t) = 0 /\ \A i \in Slot : At(t)[i] = 0
      BY <2>1 DEF Coef, At
    <3>2. Total(At(t), Slot) = Total(At(t), {})
      BY <3>1, SlotIsFinite, TotalExtra
    <3>3. BucketSum(t) = 0
      BY <3>1, <3>2, TotalEmpty DEF BucketSum
    <3>4. 0 \in 0 .. P - 1
      BY PAssumption
    <3> QED
      BY <3>3, <3>4, ModSmall
  <2> QED
    BY <2>1
<1>6. \A t \in D : f[t] = (BucketSum(t) % P)
  OBVIOUS
<1>7. \A t \in D : f[t] \in 0 .. P - 1
  BY <1>4, <1>6
<1> HIDE DEF f, D
<1>8. /\ IsPolynomial(Poly([t \in {u \in D : f[u] # 0} |-> f[t]]))
      /\ \A t : Coef(Poly([u \in {w \in D : f[w] # 0} |-> f[u]]), t) = IF t \in D THEN f[t] ELSE 0
  BY <1>3, <1>7, PolyOf
<1>9. IsPolynomial(Value) /\ \A t : Coef(Value, t) = IF t \in D THEN f[t] ELSE 0
  BY <1>2, <1>8
<1> QED
  BY <1>5, <1>6, <1>9

LEMMA NextValueFacts ==
  BucketInv' => IsPolynomial(Value') /\ \A t : Coef(Value', t) = (BucketSum(t)' % P)
<1> DEFINE ok == IsPolynomial(Value) /\ \A t : Coef(Value, t) = (BucketSum(t) % P)
<1>1. BucketInv => ok
  BY ValueFacts
<1>2. BucketInv' => ok'
  BY <1>1, PTL
<1> QED
  BY <1>2

LEMMA SameValue ==
  ASSUME BucketInv, BucketInv', slots' = slots, carry' = carry
  PROVE  Value' = Value
<1>1. \A t : At(t)' = At(t)
  BY DEF At, Slot
<1>2. \A t : BucketSum(t)' = BucketSum(t)
  BY <1>1 DEF BucketSum, Slot
<1> QED
  BY <1>2, ValueFacts, NextValueFacts, SamePolynomial

(* A placement exchanges the summands of its slot and of the carried       *)
(* polynomial for that of the merged one.                                  *)
LEMMA PlaceSum ==
  ASSUME BucketInv, BucketInv', NEW i \in Slot, NEW merged, IsPolynomial(merged),
         Place(i, merged), NEW t
  PROVE  \E rest \in Nat : /\ BucketSum(t) = Coef(carry, t) + (Coef(slots[i], t) + rest)
                            /\ BucketSum(t)' = Coef(merged, t) + rest
<1> DEFINE v == At(t)
           w == At(t)'
           fits == SlotForLen(Terms(merged)) = i
<1>1. /\ slots' = [slots EXCEPT ![i] = IF fits THEN merged ELSE Zero]
      /\ carry' = IF fits THEN Zero ELSE merged
  BY DEF Place
<1>2. \A k \in Slot : slots'[k] = IF k = i THEN IF fits THEN merged ELSE Zero ELSE slots[k]
  BY <1>1 DEF BucketInv
<1>3. \A k \in Slot : v[k] = Coef(slots[k], t) /\ w[k] = Coef(slots'[k], t)
  BY DEF At
<1>4. \A k \in Slot : v[k] \in Nat /\ w[k] \in Nat
  <2>1. \A k \in Slot : slots[k] = slots[k] /\ IsPolynomial(slots[k]) /\ IsPolynomial(slots'[k])
    BY DEF BucketInv
  <2>2. 0 .. P - 1 \subseteq Nat
    BY PAssumption
  <2> QED
    BY <1>3, <2>1, <2>2, CoefFacts
<1>5. \A k \in Slot \ {i} : w[k] = v[k]
  BY <1>2, <1>3
<1> DEFINE total == Total(v, Slot)
           total1 == Total(w, Slot)
<1>6. BucketSum(t) = Coef(carry, t) + total /\ BucketSum(t)' = Coef(carry', t) + total1
  BY DEF BucketSum, Slot
<1> HIDE DEF v, w
<1>7. PICK rest \in Nat : total = v[i] + rest /\ total1 = w[i] + rest
  BY <1>4, <1>5, SlotIsFinite, TotalChange
<1> HIDE DEF total, total1
<1>8. /\ v[i] = Coef(slots[i], t)
      /\ w[i] = IF fits THEN Coef(merged, t) ELSE 0
      /\ Coef(carry', t) = IF fits THEN 0 ELSE Coef(merged, t)
  BY <1>1, <1>2, <1>3, ZeroCoef
<1>9. Coef(merged, t) \in Nat
  BY CoefFacts, PAssumption
<1>10. BucketSum(t)' = Coef(merged, t) + rest
  BY <1>6, <1>7, <1>8, <1>9
<1>11. BucketSum(t) = Coef(carry, t) + (Coef(slots[i], t) + rest)
  BY <1>6, <1>7, <1>8
<1> QED
  BY <1>10, <1>11

LEMMA MinusValue ==
  ASSUME BucketInv, NEW m \in Monomial, NEW c \in Int, NEW p, IsPolynomial(p),
         Minus_m_mult_p(m, c, p)
  PROVE  Value' = MinusMMultP(Value, m, c, p)
<1> DEFINE i == SlotForLen(Terms(p))
           merged == MinusMMultP(slots[i], m, c, p)
           new == MinusMMultP(Value, m, c, p)
<1>1. Place(i, merged) /\ carry = Zero
  BY DEF Minus_m_mult_p, Idle
<1>2. i \in Slot
  BY TermsFacts
<1>3. BucketInv'
  BY MinusKeeps
<1>4. /\ IsPolynomial(Value) /\ \A t : Coef(Value, t) = (BucketSum(t) % P)
      /\ IsPolynomial(Value') /\ \A t : Coef(Value', t) = (BucketSum(t)' % P)
  BY <1>3, ValueFacts, NextValueFacts
<1>5. IsPolynomial(slots[i])
  BY <1>2 DEF BucketInv
<1> HIDE DEF i
<1>6. /\ IsPolynomial(merged)
      /\ \A t : Coef(merged, t) = ((Coef(slots[i], t) + (P - c) * Multiple(m, p, t)) % P)
  BY <1>5, SubtractIsPolynomial, SubtractCoef
<1>7. /\ IsPolynomial(new)
      /\ \A t : Coef(new, t) = ((Coef(Value, t) + (P - c) * Multiple(m, p, t)) % P)
  BY <1>4, SubtractIsPolynomial, SubtractCoef
<1> HIDE DEF merged, new
<1>8. ASSUME NEW t \in Monomial PROVE Coef(Value', t) = Coef(new, t)
  <2>1. PICK rest \in Nat : /\ BucketSum(t) = Coef(carry, t) + (Coef(slots[i], t) + rest)
                            /\ BucketSum(t)' = Coef(merged, t) + rest
    BY <1>1, <1>2, <1>3, <1>6, PlaceSum
  <2> DEFINE a == Coef(slots[i], t)
             k == (P - c) * Multiple(m, p, t)
             ak == a + k
             ar == a + rest
             s == a + rest + k
  <2>2. a \in Int /\ k \in Int /\ ak \in Int /\ ar \in Int /\ ak + rest = s /\ ar + k = s
    <3>1. a \in Int /\ Multiple(m, p, t) \in Int /\ P \in Int
      BY <1>5, CoefFacts, MultipleFacts, PAssumption
    <3>2. k \in Int
      BY <3>1
    <3> HIDE DEF a, k
    <3> QED
      BY <3>1, <3>2
  <2>3. Coef(carry, t) = 0 /\ Coef(carry, t) + ar = ar
    BY <1>1, <2>2, ZeroCoef
  <2>4. Coef(merged, t) = (ak % P) /\ Coef(new, t) = ((Coef(Value, t) + k) % P)
    BY <1>6, <1>7
  <2>5. Coef(Value', t) = (((ak % P) + rest) % P)
    BY <1>4, <2>1, <2>4
  <2>6. Coef(new, t) = (((ar % P) + k) % P)
    BY <1>4, <2>1, <2>3, <2>4
  <2> HIDE DEF ak, ar, k, s
  <2>7. (((ak % P) + rest) % P) = (s % P)
    BY <2>2, ModAdd
  <2>8. (((ar % P) + k) % P) = (s % P)
    BY <2>2, ModAdd
  <2> QED
    BY <2>5, <2>6, <2>7, <2>8
<1>9. Value' = new
  BY <1>4, <1>7, <1>8, SamePolynomial
<1> QED
  BY <1>9 DEF new

LEMMA AbsorbValue ==
  ASSUME BucketInv, Absorb
  PROVE  Value' = Value
<1> DEFINE i == SlotForLen(Terms(carry))
           merged == Add(slots[i], carry)
<1>1. Place(i, merged) /\ IsPolynomial(carry)
  BY DEF Absorb, BucketInv
<1>2. i \in Slot
  BY <1>1, TermsFacts
<1>3. BucketInv'
  BY AbsorbKeeps
<1>4. /\ IsPolynomial(Value) /\ \A t : Coef(Value, t) = (BucketSum(t) % P)
      /\ IsPolynomial(Value') /\ \A t : Coef(Value', t) = (BucketSum(t)' % P)
  BY <1>3, ValueFacts, NextValueFacts
<1>5. IsPolynomial(slots[i])
  BY <1>2 DEF BucketInv
<1> HIDE DEF i
<1>6. /\ IsPolynomial(merged)
      /\ \A t \in Monomial : Coef(merged, t) = ((Coef(slots[i], t) + Coef(carry, t)) % P)
  <2> DEFINE c == P - 1
  <2>1. One \in Monomial /\ c \in Int /\ P - c = 1
    BY DegOne, PAssumption
  <2>2. merged = MinusMMultP(slots[i], One, c, carry)
    BY DEF Add
  <2> HIDE DEF c
  <2>3. IsPolynomial(merged)
    BY <1>1, <1>5, <2>1, <2>2, SubtractIsPolynomial
  <2>4. \A t : Coef(MinusMMultP(slots[i], One, c, carry), t)
                = ((Coef(slots[i], t) + (P - c) * Multiple(One, carry, t)) % P)
    BY <1>1, <1>5, <2>1, SubtractCoef
  <2>5. ASSUME NEW t \in Monomial
        PROVE  Coef(merged, t) = ((Coef(slots[i], t) + Coef(carry, t)) % P)
    <3>1. Multiple(One, carry, t) = Coef(carry, t) /\ Coef(carry, t) \in Int
      BY <1>1, MultipleOfOne, CoefFacts
    <3>2. (P - c) * Multiple(One, carry, t) = Coef(carry, t)
      BY <2>1, <3>1
    <3> QED
      BY <2>2, <2>4, <3>2
  <2> QED
    BY <2>3, <2>5
<1> HIDE DEF merged
<1>7. ASSUME NEW t \in Monomial PROVE Coef(Value', t) = Coef(Value, t)
  <2>1. PICK rest \in Nat : /\ BucketSum(t) = Coef(carry, t) + (Coef(slots[i], t) + rest)
                            /\ BucketSum(t)' = Coef(merged, t) + rest
    BY <1>1, <1>2, <1>3, <1>6, PlaceSum
  <2> DEFINE a == Coef(slots[i], t)
             k == Coef(carry, t)
             ak == a + k
             s == k + (a + rest)
  <2>2. ak \in Int /\ ak + rest = s
    <3>1. a \in Int /\ k \in Int
      BY <1>1, <1>5, CoefFacts
    <3> HIDE DEF a, k
    <3> QED
      BY <3>1
  <2>3. Coef(Value', t) = (((ak % P) + rest) % P) /\ Coef(Value, t) = (s % P)
    BY <1>4, <1>6, <2>1
  <2> HIDE DEF ak, s
  <2>4. (((ak % P) + rest) % P) = (s % P)
    BY <2>2, ModAdd
  <2> QED
    BY <2>3, <2>4
<1> QED
  BY <1>4, <1>7, SamePolynomial

(* The slots whose leading monomial is m are peeled, where no other slot   *)
(* has m at all.                                                           *)
LEMMA PeeledValue ==
  ASSUME BucketInv, BucketInv', carry = Zero, carry' = Zero, NEW m, NEW S,
         S \subseteq Slot, slots' = Peeled(S),
         \A i \in S : slots[i] # Zero /\ LM(slots[i]) = m,
         \A i \in Slot : i \notin S => Coef(slots[i], m) = 0
  PROVE  \A t : Coef(Value', t) = IF t = m THEN 0 ELSE Coef(Value, t)
<1>1. \A i \in Slot : slots'[i] = IF i \in S THEN DropLeading(slots[i]) ELSE slots[i]
  BY DEF Peeled
<1>2. ASSUME NEW t, NEW i \in Slot
      PROVE  Coef(slots'[i], t) = IF t = m THEN 0 ELSE Coef(slots[i], t)
  <2>1. CASE i \in S
    <3>1. /\ slots'[i] = DropLeading(slots[i]) /\ LM(slots[i]) = m
          /\ IsPolynomial(slots[i])
      BY <1>1, <2>1 DEF BucketInv
    <3> QED
      BY <3>1, DropCoef
  <2>2. CASE i \notin S
    BY <1>1, <2>2
  <2> QED
    BY <2>1, <2>2
<1>3. \A t : Coef(carry, t) = 0 /\ Coef(carry', t) = 0
  BY ZeroCoef
<1>4. ASSUME NEW t PROVE BucketSum(t)' = IF t = m THEN 0 ELSE BucketSum(t)
  <2> DEFINE v == At(t)
             w == At(t)'
             total == Total(v, Slot)
             total1 == Total(w, Slot)
  <2>1. BucketSum(t) = Coef(carry, t) + total /\ BucketSum(t)' = Coef(carry', t) + total1
    BY DEF BucketSum, Slot
  <2>2. \A k \in Slot : v[k] = Coef(slots[k], t) /\ w[k] = Coef(slots'[k], t)
    BY DEF At
  <2>3. total \in Nat
    BY AtFacts
  <2>4. CASE t = m
    <3>1. \A k \in Slot : w[k] = 0
      BY <1>2, <2>2, <2>4
    <3> HIDE DEF v, w
    <3>2. total1 = Total(w, {})
      BY <3>1, SlotIsFinite, TotalExtra
    <3> QED
      BY <1>3, <2>1, <2>4, <3>2, TotalEmpty
  <2>5. CASE t # m
    <3>1. \A k \in Slot : v[k] = w[k]
      BY <1>2, <2>2, <2>5
    <3> HIDE DEF v, w
    <3>2. total1 = total
      BY <3>1, SlotIsFinite, TotalAgree
    <3> QED
      BY <1>3, <2>1, <2>5, <3>2
  <2> QED
    BY <2>4, <2>5
<1>5. (0 % P) = 0
  <2>1. 0 \in 0 .. P - 1
    BY PAssumption
  <2> QED
    BY <2>1, ModSmall
<1> QED
  BY <1>4, <1>5, ValueFacts, NextValueFacts

(* No slot has a monomial above m.                                         *)
Above(m) == \A i \in Slot : slots[i] # Zero => LM(slots[i]) = m \/ Less(LM(slots[i]), m)

LEMMA AboveFacts ==
  ASSUME BucketInv, carry = Zero, NEW m \in Monomial, Above(m)
  PROVE  /\ \A i \in Slot : \A t \in Monomial :
              Coef(slots[i], t) # 0 => t = m \/ Less(t, m)
         /\ \A i \in Slot :
              Coef(slots[i], m) # 0 => slots[i] # Zero /\ LM(slots[i]) = m
         /\ \A t \in Monomial : Coef(Value, t) # 0 => t = m \/ Less(t, m)
<1>1. ASSUME NEW i \in Slot, NEW t \in Monomial, Coef(slots[i], t) # 0
      PROVE  /\ t = m \/ Less(t, m)
             /\ slots[i] # Zero
             /\ t = m => LM(slots[i]) = m
  <2>1. IsPolynomial(slots[i]) /\ t \in Support(slots[i])
    BY <1>1, CoefFacts DEF BucketInv
  <2>2. slots[i] # Zero
    BY <1>1, ZeroCoef
  <2>3. /\ t = LM(slots[i]) \/ Less(t, LM(slots[i]))
        /\ LM(slots[i]) \in Monomial
        /\ LM(slots[i]) = m \/ Less(LM(slots[i]), m)
    BY <2>1, <2>2, LeadingIsLargest DEF Above
  <2>4. ASSUME Less(t, LM(slots[i])), Less(LM(slots[i]), m) PROVE Less(t, m)
    BY <2>3, <2>4, LessTransitive
  <2>5. t = m => ~Less(t, m)
    BY LessIrreflexive
  <2> QED
    BY <2>2, <2>3, <2>4, <2>5
<1>2. ASSUME NEW t \in Monomial, Coef(Value, t) # 0 PROVE t = m \/ Less(t, m)
  <2>1. ASSUME \A i \in Slot : Coef(slots[i], t) = 0 PROVE FALSE
    <3>1. \A i \in Slot : At(t)[i] = 0
      BY <2>1 DEF At
    <3>2. Total(At(t), Slot) = Total(At(t), {})
      BY <3>1, SlotIsFinite, TotalExtra
    <3>3. BucketSum(t) = 0
      BY <3>2, TotalEmpty, ZeroCoef DEF BucketSum
    <3>4. 0 \in 0 .. P - 1
      BY PAssumption
    <3> QED
      BY <1>2, <3>3, <3>4, ValueFacts, ModSmall
  <2> QED
    BY <1>1, <2>1
<1> QED
  BY <1>1, <1>2

(* The slots at the top of a scan.                                         *)
LEMMA TopsFacts ==
  ASSUME BucketInv, Tops # {}
  PROVE  /\ Best \in Slot /\ slots[Best] # Zero
         /\ LM(slots[Best]) \in Monomial /\ Above(LM(slots[Best]))
         /\ Tops = {i \in Slot : slots[i] # Zero /\ LM(slots[i]) = LM(slots[Best])}
<1> DEFINE m == LM(slots[Best])
<1>1. /\ Best \in Slot /\ slots[Best] # Zero
      /\ \A k \in Slot : slots[k] # Zero => ~Less(m, LM(slots[k]))
  BY BestIsTop DEF Tops
<1>2. \A k \in Slot : slots[k] # Zero => LM(slots[k]) \in Monomial
  BY LeadingIsLargest DEF BucketInv
<1>3. m \in Monomial
  BY <1>1, <1>2
<1>4. Above(m)
  <2>1. ASSUME NEW k \in Slot, slots[k] # Zero
        PROVE  LM(slots[k]) = m \/ Less(LM(slots[k]), m)
    <3>1. ~Less(m, LM(slots[k])) /\ LM(slots[k]) \in Monomial
      BY <1>1, <1>2, <2>1
    <3> HIDE DEF m
    <3> QED
      BY <1>3, <3>1, LessTotal
  <2> HIDE DEF m
  <2> QED
    BY <2>1 DEF Above
<1>5. ASSUME NEW i \in Tops PROVE i \in Slot /\ slots[i] # Zero /\ LM(slots[i]) = m
  <2>1. i \in Slot /\ slots[i] # Zero /\ ~Less(LM(slots[i]), m)
    BY <1>1 DEF Tops
  <2> HIDE DEF m
  <2> QED
    BY <1>4, <2>1 DEF Above
<1>6. ASSUME NEW i \in Slot, slots[i] # Zero, LM(slots[i]) = m PROVE i \in Tops
  BY <1>1, <1>6 DEF Tops
<1> QED
  BY <1>1, <1>3, <1>4, <1>5, <1>6

LEMMA NoTopsNoTerms ==
  ASSUME BucketInv, carry = Zero, Tops = {}
  PROVE  Value = Zero
<1> DEFINE used == {i \in Slot : slots[i] # Zero}
           lms == {LM(slots[i]) : i \in used}
           f == [i \in used |-> LM(slots[i])]
<1>1. \A i \in used : LM(slots[i]) \in Monomial
  BY LeadingIsLargest DEF BucketInv
<1>2. IsFiniteSet(lms)
  <2>1. IsFiniteSet(used)
    BY SlotIsFinite, FS_Subset
  <2>2. f \in Surjection(used, lms)
    BY DEF Surjection
  <2> HIDE DEF used, lms, f
  <2> QED
    BY <2>1, <2>2, FS_Surjection
<1>3. ASSUME used # {} PROVE FALSE
  <2>1. lms \in SUBSET Monomial /\ lms # {}
    BY <1>1, <1>3
  <2>2. Maxima(lms) # {}
    <3> HIDE DEF lms
    <3> QED
      BY <1>2, <2>1, MaximumExists
  <2>3. PICK i \in used : \A k \in used : LM(slots[k]) = LM(slots[i])
                                         \/ Less(LM(slots[k]), LM(slots[i]))
    BY <2>2 DEF Maxima
  <2>4. ASSUME NEW k \in used PROVE ~Less(LM(slots[i]), LM(slots[k]))
    <3> DEFINE a == LM(slots[i])
               b == LM(slots[k])
    <3>1. a \in Monomial /\ b \in Monomial /\ (b = a \/ Less(b, a))
      BY <1>1, <2>3
    <3> HIDE DEF a, b
    <3>2. ~Less(a, a) /\ (Less(a, b) /\ Less(b, a) => Less(a, a))
      BY <3>1, LessIrreflexive, LessTransitive
    <3>3. ~Less(a, b)
      BY <3>1, <3>2
    <3> QED
      BY <3>3 DEF a, b
  <2>5. i \in Tops
    BY <2>4 DEF Tops
  <2> QED
    BY <2>5
<1>4. \A i \in Slot : slots[i] = Zero
  BY <1>3
<1>5. One \in Monomial /\ Above(One)
  BY <1>4, DegOne DEF Above
<1>6. \A t : BucketSum(t) = 0
  <2>1. ASSUME NEW t PROVE BucketSum(t) = 0
    <3>1. \A i \in Slot : At(t)[i] = 0
      BY <1>4, ZeroCoef DEF At
    <3>2. Total(At(t), Slot) = Total(At(t), {})
      BY <3>1, SlotIsFinite, TotalExtra
    <3> QED
      BY <3>2, TotalEmpty, ZeroCoef DEF BucketSum
  <2> QED
    BY <2>1
<1>7. 0 \in 0 .. P - 1
  BY PAssumption
<1>8. IsPolynomial(Value) /\ \A t : Coef(Value, t) = 0
  BY <1>6, <1>7, ValueFacts, ModSmall
<1> QED
  BY <1>8, ZeroCoef

(* What the leading terms at the top of a scan sum up to is the            *)
(* coefficient of their monomial in the bucket.                            *)
LEMMA TopCoef ==
  ASSUME BucketInv, carry = Zero, Tops # {}
  PROVE  Coef(Value, LM(slots[Best])) = TopSum
<1> DEFINE m == LM(slots[Best])
           v == [i \in Slot |-> LC(slots[i])]
           w == At(m)
<1>1. /\ m \in Monomial /\ Above(m)
      /\ Tops = {i \in Slot : slots[i] # Zero /\ LM(slots[i]) = m}
  BY TopsFacts
<1>2. Tops \subseteq Slot /\ IsFiniteSet(Tops)
  BY <1>1, SlotIsFinite, FS_Subset
<1>3. \A i \in Slot : i \notin Tops => w[i] = 0
  <2>1. \A i \in Slot : Coef(slots[i], m) # 0 => slots[i] # Zero /\ LM(slots[i]) = m
    <3> HIDE DEF m
    <3> QED
      BY <1>1, AboveFacts
  <2> QED
    BY <1>1, <2>1 DEF At
<1>4. \A i \in Tops : w[i] = v[i]
  <2>1. ASSUME NEW i \in Tops PROVE w[i] = v[i]
    <3>1. i \in Slot /\ slots[i] # Zero /\ LM(slots[i]) = m /\ IsPolynomial(slots[i])
      BY <1>1 DEF BucketInv
    <3>2. m \in Support(slots[i])
      BY <3>1, LeadingIsLargest
    <3>3. w[i] = Coef(slots[i], m) /\ v[i] = LC(slots[i])
      BY <3>1 DEF At
    <3> QED
      BY <3>1, <3>2, <3>3 DEF Coef, LC, LM
  <2> QED
    BY <2>1
<1>5. \A i \in Slot : w[i] \in Nat
  BY AtFacts
<1> DEFINE total == Total(w, Slot)
           sum == Total(v, Tops)
<1>6. total = sum
  <2> HIDE DEF v, w, m
  <2>1. Total(w, Slot) = Total(w, Tops)
    BY <1>2, <1>3, <1>5, SlotIsFinite, TotalExtra
  <2>2. Total(w, Tops) = Total(v, Tops)
    BY <1>2, <1>4, TotalAgree
  <2> QED
    BY <2>1, <2>2
<1>7. total \in Nat /\ Coef(carry, m) = 0 /\ BucketSum(m) = Coef(carry, m) + total
  BY AtFacts, ZeroCoef DEF BucketSum
<1>8. TopSum = (sum % P)
  BY TopSumIs
<1> HIDE DEF total, sum
<1>9. BucketSum(m) = sum
  BY <1>6, <1>7
<1> QED
  BY <1>8, <1>9, ValueFacts

(* The cached term is the leading term of the bucket.                      *)
CacheInv ==
  Cached => /\ lm_cache.m \in Monomial /\ Above(lm_cache.m)
            /\ lm_cache.c = Coef(Value, lm_cache.m)

Leading(p) == IF p = Zero THEN None ELSE [c |-> LC(p), m |-> LM(p)]

LEMMA DeliverValue ==
  ASSUME BucketInv, BucketInv', NEW term, Deliver(term), asked \in {"leading", "extract"},
         term.m \in Monomial, Above(term.m), term.c = Coef(Value, term.m), term.c # 0
  PROVE  /\ answer' = Leading(Value) /\ Value # Zero
         /\ Value' = IF asked = "leading" THEN Value ELSE DropLeading(Value)
         /\ CacheInv'
<1> DEFINE m == term.m
           S == {i \in Slot : slots[i] # Zero /\ LM(slots[i]) = m}
<1>0. carry = Zero /\ carry' = Zero
  BY NothingAssumption DEF BucketInv, Deliver
<1>1. IsPolynomial(Value)
  BY ValueFacts
<1>2. \A i \in Slot : Coef(slots[i], m) # 0 => slots[i] # Zero /\ LM(slots[i]) = m
  BY <1>0, AboveFacts
<1>3. \A t \in Monomial : Coef(Value, t) # 0 => t = m \/ Less(t, m)
  BY <1>0, AboveFacts
<1>4. Value # Zero /\ LM(Value) = m /\ LC(Value) = Coef(Value, m)
  BY <1>1, <1>3, LeadingIs
<1>5. answer' = Leading(Value)
  BY <1>4 DEF Deliver, Leading
<1>6. CASE asked = "leading"
  <2>1. slots' = slots /\ carry' = carry /\ lm_cache' = term
    BY <1>6 DEF Deliver
  <2>2. Value' = Value
    BY <2>1, SameValue
  <2>3. Above(m)'
    BY <2>1 DEF Above, Slot
  <2>4. CacheInv'
    BY <2>1, <2>2, <2>3 DEF CacheInv, Above
  <2> QED
    BY <1>4, <1>5, <1>6, <2>2, <2>4
<1>7. CASE asked = "extract"
  <2>1. slots' = Peeled(S) /\ carry' = carry /\ lm_cache' = Nothing
    BY <1>7 DEF Deliver
  <2>2. \A t : Coef(Value', t) = IF t = m THEN 0 ELSE Coef(Value, t)
    <3>1. \A i \in S : slots[i] # Zero /\ LM(slots[i]) = m
      OBVIOUS
    <3>2. S \subseteq Slot /\ \A i \in Slot : i \notin S => Coef(slots[i], m) = 0
      BY <1>2
    <3> HIDE DEF S, m
    <3> QED
      BY <1>0, <2>1, <3>1, <3>2, PeeledValue
  <2>3. IsPolynomial(Value') /\ IsPolynomial(DropLeading(Value))
    BY <1>1, NextValueFacts, DropIsPolynomial
  <2>4. \A t : Coef(DropLeading(Value), t) = IF t = m THEN 0 ELSE Coef(Value, t)
    BY <1>1, <1>4, DropCoef
  <2>5. Value' = DropLeading(Value)
    BY <2>2, <2>3, <2>4, SamePolynomial
  <2>6. CacheInv'
    BY <2>1 DEF CacheInv, Cached
  <2> QED
    BY <1>4, <1>5, <1>7, <2>5, <2>6
<1> QED
  BY <1>6, <1>7

(* A turn leaves the value of the bucket as it is, or ends a call with     *)
(* what the call is for.                                                   *)
LEMMA TurnValue ==
  ASSUME BucketInv, CacheInv, Turn
  PROVE  /\ CacheInv'
         /\ \/ Value' = Value /\ UNCHANGED <<asked, answer>>
            \/ /\ asked \in {"leading", "extract"} /\ asked' = Nothing
               /\ carry = Zero /\ carry' = Zero
               /\ answer' = Leading(Value)
               /\ Value' = IF Value = Zero \/ asked = "leading" THEN Value
                                                              ELSE DropLeading(Value)
<1> DEFINE ended == /\ asked \in {"leading", "extract"} /\ asked' = Nothing
                    /\ carry = Zero /\ carry' = Zero
                    /\ answer' = Leading(Value)
                    /\ Value' = IF Value = Zero \/ asked = "leading" THEN Value
                                                                   ELSE DropLeading(Value)
           same == Value' = Value /\ UNCHANGED <<asked, answer>>
<1>1. BucketInv'
  BY TurnKeeps
<1>2. asked # Nothing => asked \in {"leading", "extract"} /\ carry = Zero
  BY DEF BucketInv, TypeOK
<1>3. ASSUME NEW term, Deliver(term), asked # Nothing,
             term.m \in Monomial, Above(term.m), term.c = Coef(Value, term.m), term.c # 0
      PROVE  ended /\ CacheInv'
  <2>1. asked \in {"leading", "extract"} /\ carry = Zero /\ asked' = Nothing /\ carry' = Zero
    BY <1>2, <1>3 DEF Deliver
  <2>2. /\ answer' = Leading(Value) /\ Value # Zero
        /\ Value' = IF asked = "leading" THEN Value ELSE DropLeading(Value)
        /\ CacheInv'
    BY <1>1, <1>3, <2>1, DeliverValue
  <2> QED
    BY <2>1, <2>2
<1>4. ASSUME FromCache PROVE ended /\ CacheInv'
  <2>1. asked # Nothing /\ Cached /\ Deliver(lm_cache)
    BY <1>4 DEF FromCache
  <2>2. /\ lm_cache.m \in Monomial /\ Above(lm_cache.m)
        /\ lm_cache.c = Coef(Value, lm_cache.m)
    BY <2>1 DEF CacheInv
  <2>3. lm_cache.c # 0
    BY <2>1, PAssumption DEF Cached, BucketInv, TypeOK, Coefficients
  <2> HIDE DEF ended
  <2> QED
    BY <1>3, <2>1, <2>2, <2>3
<1>5. ASSUME FromScan PROVE ended /\ CacheInv'
  <2> DEFINE term == [c |-> TopSum, m |-> LM(slots[Best]), slot |-> Best]
  <2>1. asked # Nothing /\ Deliver(term) /\ Tops # {} /\ TopSum # 0
    BY <1>5 DEF FromScan
  <2>2. term.c = TopSum /\ term.m = LM(slots[Best])
    OBVIOUS
  <2>3. LM(slots[Best]) \in Monomial /\ Above(LM(slots[Best]))
    BY <2>1, TopsFacts
  <2>4. Coef(Value, LM(slots[Best])) = TopSum
    BY <1>2, <2>1, TopCoef
  <2> HIDE DEF ended, term
  <2> QED
    BY <1>3, <2>1, <2>2, <2>3, <2>4
<1>6. ASSUME NoTerm PROVE ended /\ CacheInv'
  <2>1. /\ asked # Nothing /\ Tops = {} /\ answer' = None /\ asked' = Nothing
        /\ lm_cache' = Nothing /\ slots' = slots /\ carry' = carry
    BY <1>6 DEF NoTerm
  <2>2. Value = Zero
    BY <1>2, <2>1, NoTopsNoTerms
  <2>3. Value' = Value
    BY <1>1, <2>1, SameValue
  <2>4. CacheInv'
    BY <2>1 DEF CacheInv, Cached
  <2> QED
    BY <1>2, <2>1, <2>2, <2>3, <2>4 DEF Leading
<1>7. ASSUME Peel PROVE same /\ CacheInv'
  <2> DEFINE m == LM(slots[Best])
  <2>1. /\ asked # Nothing /\ Tops # {} /\ TopSum = 0 /\ slots' = Peeled(Tops)
        /\ lm_cache' = Nothing /\ carry' = carry /\ asked' = asked /\ answer' = answer
    BY <1>7 DEF Peel
  <2>2. /\ m \in Monomial /\ Above(m)
        /\ Tops = {i \in Slot : slots[i] # Zero /\ LM(slots[i]) = m}
    BY <2>1, TopsFacts
  <2>3. Coef(Value, m) = 0
    BY <1>2, <2>1, TopCoef
  <2> HIDE DEF m
  <2>4. \A i \in Slot : Coef(slots[i], m) # 0 => slots[i] # Zero /\ LM(slots[i]) = m
    BY <1>2, <2>1, <2>2, AboveFacts
  <2>5. \A t : Coef(Value', t) = IF t = m THEN 0 ELSE Coef(Value, t)
    <3>1. /\ Tops \subseteq Slot
          /\ \A i \in Tops : slots[i] # Zero /\ LM(slots[i]) = m
          /\ \A i \in Slot : i \notin Tops => Coef(slots[i], m) = 0
      BY <2>2, <2>4
    <3> QED
      BY <1>1, <1>2, <2>1, <3>1, PeeledValue
  <2>6. Value' = Value
    BY <1>1, <2>3, <2>5, ValueFacts, NextValueFacts, SamePolynomial
  <2>7. CacheInv'
    BY <2>1 DEF CacheInv, Cached
  <2> QED
    BY <2>1, <2>6, <2>7
<1>8. ASSUME Absorb PROVE same /\ CacheInv'
  <2>1. lm_cache' = Nothing /\ asked' = asked /\ answer' = answer
    BY <1>8 DEF Absorb, Place
  <2>2. CacheInv'
    BY <2>1 DEF CacheInv, Cached
  <2> QED
    BY <1>8, <2>1, <2>2, AbsorbValue
<1> HIDE DEF ended, same
<1>9. CacheInv' /\ (same \/ ended)
  BY <1>4, <1>5, <1>6, <1>7, <1>8 DEF Turn
<1> QED
  BY <1>9 DEF same, ended

(* A call begins.                                                          *)
LEMMA MinusCache ==
  ASSUME NEW m, NEW c, NEW p, Minus_m_mult_p(m, c, p)
  PROVE  CacheInv'
BY DEF Minus_m_mult_p, Place, CacheInv, Cached

LEMMA AskValue ==
  ASSUME BucketInv, CacheInv, NEW call \in {"leading", "extract"}, Ask(call)
  PROVE  Value' = Value /\ CacheInv'
<1>1. BucketInv'
  BY AskKeeps
<1>2. slots' = slots /\ carry' = carry /\ lm_cache' = lm_cache /\ dirty' = dirty
  BY DEF Ask
<1>3. Value' = Value
  BY <1>1, <1>2, SameValue
<1>4. \A m : Above(m)' <=> Above(m)
  BY <1>2 DEF Above, Slot
<1>5. CacheInv'
  <2>1. Cached' <=> Cached
    BY <1>2 DEF Cached
  <2>2. Above(lm_cache.m)' <=> Above(lm_cache.m)
    BY <1>2, <1>4 DEF Above, Slot
  <2> QED
    BY <1>2, <1>3, <2>1, <2>2 DEF CacheInv
<1> QED
  BY <1>3, <1>5

(* Before and after one subtraction lies its product.                      *)
LEMMA ProductBetween ==
  ASSUME NEW v, IsPolynomial(v), NEW m \in Monomial, NEW c \in Int, NEW p, IsPolynomial(p)
  PROVE  MinusMMultP(MinusMMultP(v, m, c, p), One, 1, v) = MinusMMultP(Zero, m, c, p)
<1> DEFINE w == MinusMMultP(v, m, c, p)
           d == MinusMMultP(w, One, 1, v)
           z == MinusMMultP(Zero, m, c, p)
<1>1. IsPolynomial(w) /\ \A t : Coef(w, t) = ((Coef(v, t) + (P - c) * Multiple(m, p, t)) % P)
  BY SubtractIsPolynomial, SubtractCoef
<1>2. One \in Monomial /\ 1 \in Int /\ IsPolynomial(Zero)
  BY DegOne, ZeroIsPolynomial
<1> HIDE DEF w
<1>3. IsPolynomial(d) /\ \A t : Coef(d, t) = ((Coef(w, t) + (P - 1) * Multiple(One, v, t)) % P)
  BY <1>1, <1>2, SubtractIsPolynomial, SubtractCoef
<1>4. IsPolynomial(z) /\ \A t : Coef(z, t) = ((Coef(Zero, t) + (P - c) * Multiple(m, p, t)) % P)
  BY <1>2, SubtractIsPolynomial, SubtractCoef
<1> HIDE DEF d, z
<1>5. ASSUME NEW t \in Monomial PROVE Coef(d, t) = Coef(z, t)
  <2> DEFINE a == Coef(v, t)
             k == (P - c) * Multiple(m, p, t)
  <2>1. a \in Int /\ k \in Int
    <3>1. a \in Int /\ Multiple(m, p, t) \in Int /\ P \in Int
      BY CoefFacts, MultipleFacts, PAssumption
    <3> QED
      BY <3>1
  <2>2. Coef(d, t) = ((((a + k) % P) + (P - 1) * a) % P)
    <3>1. Multiple(One, v, t) = a
      BY MultipleOfOne
    <3> QED
      BY <1>1, <1>3, <3>1
  <2>3. Coef(z, t) = ((0 + k) % P)
    BY <1>4, ZeroCoef
  <2> HIDE DEF a, k
  <2>4. 0 + k = k
    BY <2>1
  <2> QED
    BY <2>1, <2>2, <2>3, <2>4, ModCancel
<1>6. d = z
  BY <1>3, <1>4, <1>5, SamePolynomial
<1> QED
  BY <1>6 DEF d, z, w

LEMMA FromPolyValue ==
  ASSUME BucketInv, carry = Zero, NEW p, IsPolynomial(p), slots = FromPoly(p)
  PROVE  Value = p
<1> DEFINE i == SlotForLen(Terms(p))
<1>1. i \in Slot /\ \A k \in Slot : slots[k] = IF k = i THEN p ELSE Zero
  BY TermsFacts DEF FromPoly
<1> HIDE DEF i
<1>2. ASSUME NEW t PROVE BucketSum(t) = Coef(p, t) /\ Coef(p, t) \in 0 .. P - 1
  <2> DEFINE v == At(t)
             total == Total(v, Slot)
  <2>1. \A k \in Slot : v[k] = IF k = i THEN Coef(p, t) ELSE 0
    BY <1>1, ZeroCoef DEF At
  <2>2. \A k \in Slot : v[k] \in Nat
    BY AtFacts
  <2>3. total \in Nat /\ BucketSum(t) = 0 + total
    BY AtFacts, ZeroCoef DEF BucketSum
  <2> HIDE DEF v
  <2>4. total = v[i] + Total(v, Slot \ {i})
    BY <1>1, <2>2, SlotIsFinite, TotalStep
  <2> DEFINE R == Slot \ {i}
  <2>5. Total(v, R) = 0
    <3>1. IsFiniteSet(R) /\ \A k \in R : v[k] \in Nat /\ v[k] = 0
      BY <2>1, <2>2, SlotIsFinite, FS_Subset
    <3> HIDE DEF R
    <3>2. Total(v, R) = Total(v, {})
      BY <3>1, TotalExtra
    <3> QED
      BY <3>2, TotalEmpty
  <2>6. Coef(p, t) \in 0 .. P - 1
    BY CoefFacts
  <2> QED
    BY <1>1, <2>1, <2>3, <2>4, <2>5, <2>6
<1>3. \A t : Coef(Value, t) = Coef(p, t)
  BY <1>2, ValueFacts, ModSmall
<1> QED
  BY <1>3, ValueFacts, SamePolynomial

-----------------------------------------------------------------------------
(* The reducer over the geobucket.                                         *)

GoodBasis(b) ==
  /\ Len(b.polys) \in Nat /\ DOMAIN b.polys = 1 .. Len(b.polys)
  /\ \A i \in DOMAIN b.polys :
       IsPolynomial(b.polys[i]) /\ b.polys[i] # Zero /\ LC(b.polys[i]) = 1

(* Every operand it hands to the bucket is one that the bucket can take.   *)
LObjectInv ==
  /\ GoodBasis(basis)
  /\ step \in {"first", "second"} =>
       pair[1] \in DOMAIN basis.polys /\ pair[2] \in DOMAIN basis.polys
  /\ step \in {"probe", "search"} => lead.c \in Int
  /\ step \in {"refreshing", "search"} => asked # Nothing \/ Usable(answer)

LEMMA LObjectInitKeeps ==
  ASSUME LObjectInit
  PROVE  BucketInv /\ LObjectInv
<1>1. /\ basis \in Bases
      /\ lm_cache = Nothing /\ carry = Zero /\ asked = Nothing
  BY DEF LObjectInit
<1>2. GoodBasis(basis)
  BY <1>1, BasesAssumption DEF GoodBasis
<1>3. ASSUME FromPolyWithSugar PROVE BucketInv /\ LObjectInv
  <2>1. PICK o \in WorkObjects : slots = FromPoly(o.poly)
    BY <1>3 DEF FromPolyWithSugar
  <2>2. IsPolynomial(o.poly)
    BY WorkAssumption
  <2>3. step = "refresh"
    BY <1>3 DEF FromPolyWithSugar
  <2> QED
    BY <1>1, <1>2, <2>1, <2>2, <2>3, FromPolyKeeps DEF LObjectInv
<1>4. ASSUME FromSpoly PROVE BucketInv /\ LObjectInv
  <2>1. /\ slots = FromPoly(Zero) /\ step = "first"
        /\ \E j \in DOMAIN basis.polys : \E i \in 1 .. j - 1 : pair = <<i, j>>
    BY <1>4 DEF FromSpoly
  <2>2. PICK j \in DOMAIN basis.polys : \E i \in 1 .. j - 1 : pair = <<i, j>>
    BY <2>1
  <2>3. PICK i \in 1 .. j - 1 : pair = <<i, j>>
    BY <2>2
  <2>4. pair[1] = i /\ pair[2] = j /\ i \in DOMAIN basis.polys
    BY <1>2, <2>3 DEF GoodBasis
  <2>5. LObjectInv
    BY <1>2, <2>1, <2>4 DEF LObjectInv
  <2> QED
    BY <1>1, <2>1, <2>5, ZeroIsPolynomial, FromPolyKeeps
<1> QED
  BY <1>3, <1>4 DEF LObjectInit

LEMMA OperandFacts ==
  ASSUME NEW b, GoodBasis(b), NEW i \in DOMAIN b.polys
  PROVE  /\ IsPolynomial(b.polys[i]) /\ LM(b.polys[i]) \in Monomial
         /\ LC(b.polys[i]) \in Int /\ P - LC(b.polys[i]) \in Int
<1>1. IsPolynomial(b.polys[i]) /\ b.polys[i] # Zero
  BY DEF GoodBasis
<1>2. LM(b.polys[i]) \in Monomial /\ LC(b.polys[i]) \in 1 .. P - 1
  BY <1>1, LeadingIsLargest
<1> QED
  BY <1>1, <1>2, PAssumption

LEMMA LObjectNextKeeps ==
  ASSUME BucketInv, LObjectInv, LObjectNext
  PROVE  BucketInv' /\ LObjectInv'
<1> DEFINE ps == basis.polys
<1>1. ASSUME WithinCall PROVE BucketInv' /\ LObjectInv'
  <2>1. Turn /\ UNCHANGED <<basis, sugar, pair, lead, step>>
    BY <1>1 DEF WithinCall, lobjVars
  <2>2. /\ BucketInv'
        /\ \/ UNCHANGED <<asked, answer>>
           \/ asked' = Nothing /\ Usable(answer')
    BY <2>1, TurnKeeps
  <2> QED
    BY <2>1, <2>2 DEF LObjectInv
<1>2. ASSUME SpolyFirst PROVE BucketInv' /\ LObjectInv'
  <2> DEFINE f == ps[pair[1]]
             m == Div(PairLcm(pair), LM(f))
             c == P - LC(ps[pair[2]])
  <2>1. /\ step = "first" /\ step' = "second" /\ UNCHANGED <<basis, sugar, pair, lead>>
        /\ Minus_m_mult_p(m, c, f)
    BY <1>2 DEF SpolyFirst
  <2>2. IsPolynomial(f) /\ m \in Monomial /\ c \in Int
    <3>1. pair[1] \in DOMAIN ps /\ pair[2] \in DOMAIN ps /\ GoodBasis(basis)
      BY <2>1 DEF LObjectInv
    <3>2. /\ LM(f) \in Monomial /\ LM(ps[pair[2]]) \in Monomial
          /\ IsPolynomial(f) /\ c \in Int
      BY <3>1, OperandFacts
    <3>3. PairLcm(pair) \in Monomial /\ Divides(LM(f), PairLcm(pair))
      BY <3>2, LcmFacts DEF PairLcm
    <3> QED
      BY <3>2, <3>3, DivFacts
  <2> HIDE DEF f, m, c, ps
  <2>3. BucketInv'
    BY <2>1, <2>2, MinusKeeps
  <2> QED
    BY <2>1, <2>3 DEF LObjectInv
<1>3. ASSUME SpolySecond PROVE BucketInv' /\ LObjectInv'
  <2> DEFINE g == ps[pair[2]]
             m == Div(PairLcm(pair), LM(g))
             c == LC(ps[pair[1]])
  <2>1. /\ step = "second" /\ step' = "refresh" /\ UNCHANGED <<basis, sugar, pair, lead>>
        /\ Minus_m_mult_p(m, c, g)
    BY <1>3 DEF SpolySecond
  <2>2. IsPolynomial(g) /\ m \in Monomial /\ c \in Int
    <3>1. pair[1] \in DOMAIN ps /\ pair[2] \in DOMAIN ps /\ GoodBasis(basis)
      BY <2>1 DEF LObjectInv
    <3>2. /\ LM(g) \in Monomial /\ LM(ps[pair[1]]) \in Monomial
          /\ IsPolynomial(g) /\ c \in Int
      BY <3>1, OperandFacts
    <3>3. PairLcm(pair) \in Monomial /\ Divides(LM(g), PairLcm(pair))
      BY <3>2, LcmFacts DEF PairLcm
    <3> QED
      BY <3>2, <3>3, DivFacts
  <2> HIDE DEF g, m, c, ps
  <2>3. BucketInv'
    BY <2>1, <2>2, MinusKeeps
  <2> QED
    BY <2>1, <2>3 DEF LObjectInv
<1>4. ASSUME Refresh PROVE BucketInv' /\ LObjectInv'
  <2>1. /\ step' = "refreshing" /\ UNCHANGED <<basis, sugar, pair, lead>>
        /\ Ask("leading")
    BY <1>4 DEF Refresh
  <2>2. BucketInv' /\ asked' # Nothing
    BY <2>1, AskKeeps
  <2> QED
    BY <2>1, <2>2 DEF LObjectInv
<1>5. ASSUME Refreshed PROVE BucketInv' /\ LObjectInv'
  <2>1. /\ step = "refreshing" /\ asked = Nothing
        /\ lead' = answer /\ step' \in {"returned", "probe"}
        /\ UNCHANGED <<vars, basis, sugar, pair>>
    BY <1>5 DEF Refreshed, Idle
  <2>2. Usable(answer)
    BY <2>1 DEF LObjectInv
  <2>3. BucketInv'
    BY <2>1 DEF BucketInv, TypeOK, vars
  <2>4. LObjectInv'
    BY <2>1, <2>2 DEF LObjectInv, Usable
  <2> QED
    BY <2>3, <2>4
<1>6. ASSUME Probe PROVE BucketInv' /\ LObjectInv'
  <2>1. /\ step = "probe" /\ step' = "search" /\ UNCHANGED <<basis, sugar, pair, lead>>
        /\ Ask("leading")
    BY <1>6 DEF Probe
  <2>2. BucketInv' /\ asked' # Nothing
    BY <2>1, AskKeeps
  <2> QED
    BY <2>1, <2>2 DEF LObjectInv
<1>7. ASSUME Irreducible PROVE BucketInv' /\ LObjectInv'
  <2>1. step' = "returned" /\ UNCHANGED <<vars, basis, sugar, pair, lead>>
    BY <1>7 DEF Irreducible
  <2>2. BucketInv'
    BY <2>1 DEF BucketInv, TypeOK, vars
  <2> QED
    BY <2>1, <2>2 DEF LObjectInv
<1>8. ASSUME Subtract PROVE BucketInv' /\ LObjectInv'
  <2> DEFINE i == FirstDivisor(ps, basis.redundant, answer.m)
             m == Div(answer.m, LM(ps[i]))
  <2>1. /\ step = "search" /\ asked = Nothing /\ step' = "refresh"
        /\ Divisors(ps, basis.redundant, answer.m) # {}
        /\ Minus_m_mult_p(m, lead.c, ps[i])
        /\ UNCHANGED <<basis, pair, lead>>
    BY <1>8 DEF Subtract, SubtractAndGo, Idle
  <2>2. Usable(answer) /\ lead.c \in Int /\ GoodBasis(basis)
    BY <2>1 DEF LObjectInv
  <2>3. i \in DOMAIN ps /\ Divides(LM(ps[i]), answer.m)
    <3>1. DOMAIN ps \subseteq Nat
      BY <2>2 DEF GoodBasis
    <3> QED
      BY <2>1, <3>1, FirstDivisorFacts
  <2> HIDE DEF i
  <2>4. IsPolynomial(ps[i]) /\ m \in Monomial
    <3>1. IsPolynomial(ps[i]) /\ LM(ps[i]) \in Monomial
      BY <2>2, <2>3, OperandFacts
    <3> QED
      BY <2>2, <2>3, <3>1, DivFacts DEF Usable
  <2> HIDE DEF m, ps
  <2>5. BucketInv'
    BY <2>1, <2>2, <2>4, MinusKeeps
  <2> QED
    BY <2>1, <2>5 DEF LObjectInv
<1>9. ASSUME LObjectReturned PROVE BucketInv' /\ LObjectInv'
  <2>1. UNCHANGED <<vars, basis, sugar, pair, lead, step>>
    BY <1>9 DEF LObjectReturned, geobucketVars, lobjVars
  <2>2. BucketInv'
    BY <2>1 DEF BucketInv, TypeOK, vars
  <2>3. LObjectInv'
    BY <2>1 DEF LObjectInv, vars
  <2> QED
    BY <2>2, <2>3
<1> HIDE DEF ps
<1> QED
  BY <1>1, <1>2, <1>3, <1>4, <1>5, <1>6, <1>7, <1>8, <1>9 DEF LObjectNext

LEMMA NextKeeps ==
  ASSUME BucketInv, Next
  PROVE  BucketInv'
<1>1. ASSUME NEW m \in Multipliers, NEW c \in Coefficients, NEW p \in Subtrahends,
             Minus_m_mult_p(m, c, p)
      PROVE  BucketInv'
  <2>1. m \in Monomial /\ c \in Int /\ IsPolynomial(p)
    BY OperandsAssumption, PAssumption DEF Coefficients
  <2> QED
    BY <1>1, <2>1, MinusKeeps
<1> QED
  BY <1>1, AskKeeps, TurnKeeps DEF Next, Call

SlotsInv == BucketInv /\ (use = "geobucket" => LObjectInv)

LEMMA InitSlotsInv ==
  ASSUME ReducersInit
  PROVE  SlotsInv
<1>1. ASSUME use = "heap", BucketUnused PROVE SlotsInv
  BY <1>1, ZeroIsPolynomial, FromPolyKeeps DEF BucketUnused, SlotsInv
<1>2. ASSUME use = "bucket", Init PROVE SlotsInv
  <2>1. /\ lm_cache = Nothing /\ carry = Zero /\ asked = Nothing
        /\ \E p \in Subtrahends \cup {Zero} : slots = FromPoly(p)
    BY <1>2 DEF Init
  <2>2. PICK p \in Subtrahends \cup {Zero} : slots = FromPoly(p)
    BY <2>1
  <2>3. IsPolynomial(p)
    BY OperandsAssumption, ZeroIsPolynomial
  <2> QED
    BY <1>2, <2>1, <2>2, <2>3, FromPolyKeeps DEF SlotsInv
<1> QED
  BY <1>1, <1>2, LObjectInitKeeps DEF ReducersInit, SlotsInv

LEMMA StepSlotsInv ==
  ASSUME SlotsInv, [ReducersNext]_reducersVars
  PROVE  SlotsInv'
<1>1. ASSUME UNCHANGED <<vars, use>>, use = "heap" \/ UNCHANGED <<basis, pair, lead, step>>
      PROVE  SlotsInv'
  <2>1. BucketInv'
    BY <1>1 DEF SlotsInv, BucketInv, TypeOK, vars
  <2>2. use = "geobucket" => LObjectInv'
    BY <1>1 DEF SlotsInv, LObjectInv, vars
  <2> QED
    BY <1>1, <2>1, <2>2 DEF SlotsInv
<1>2. ASSUME HeapTurn PROVE SlotsInv'
  BY <1>1, <1>2 DEF HeapTurn
<1>3. ASSUME GeobucketTurn PROVE SlotsInv'
  BY <1>3, LObjectNextKeeps DEF GeobucketTurn, SlotsInv
<1>4. ASSUME BucketTurn PROVE SlotsInv'
  BY <1>4, NextKeeps DEF BucketTurn, SlotsInv
<1>5. ASSUME UNCHANGED reducersVars PROVE SlotsInv'
  BY <1>1, <1>5 DEF reducersVars, lobjOnly
<1> QED
  BY <1>2, <1>3, <1>4, <1>5 DEF ReducersNext

LEMMA SpecSlotsInv == ReducersSpec => []SlotsInv
<1>1. ReducersInit => SlotsInv
  BY InitSlotsInv
<1>2. SlotsInv /\ [ReducersNext]_reducersVars => SlotsInv'
  BY StepSlotsInv
<1> QED
  BY <1>1, <1>2, PTL DEF ReducersSpec

(* Whatever is subtracted, and however the cascades and the questions      *)
(* follow one another, no slot of the geobucket but the last, which takes  *)
(* whatever the others cannot, outgrows its capacity, and a cached leading *)
(* term is that of the slot it names (assert_canonical,                    *)
(* kbucket.rs:494-536); also when the slots are fewer or their capacities  *)
(* grow more slowly than the code's.                                       *)
THEOREM SlotsStayWithinCapacity == ReducersSpec => []TypeOK
<1>1. SlotsInv => TypeOK
  BY DEF SlotsInv, BucketInv
<1> QED
  BY <1>1, SpecSlotsInv, PTL

(* Only the cascade has something to carry before and after a step, and    *)
(* each turn of it that goes on empties a slot that was occupied: it ends  *)
(* after at most NUM_SLOTS turns, whether it goes up or down               *)
(* (kbucket.rs:210-216).                                                   *)
THEOREM CascadesEnd == ReducersSpec => CascadeShrinks
<1>1. ASSUME SlotsInv, [ReducersNext]_reducersVars, carry # Zero, carry' # Zero, ~UNCHANGED vars
      PROVE  Cardinality(Occupied') < Cardinality(Occupied)
  <2>1. BucketInv /\ asked = Nothing
    BY <1>1 DEF SlotsInv, BucketInv
  <2>2. Absorb
    <3>1. Next \/ LObjectNext
      BY <1>1 DEF ReducersNext, reducersVars, HeapTurn, GeobucketTurn, BucketTurn
    <3>2. ~Idle
      BY <1>1 DEF Idle
    <3>3. Next => Turn
      BY <3>2 DEF Next, Call, Minus_m_mult_p, Ask
    <3>4. LObjectNext => Turn
      BY <1>1, <3>2 DEF LObjectNext, WithinCall, SpolyFirst, SpolySecond, Refresh, Refreshed,
        Probe, Irreducible, Subtract, SubtractAndGo, LObjectReturned, geobucketVars, Ask
    <3>5. Turn => Absorb
      BY <2>1 DEF Turn, Peel, FromCache, FromScan, NoTerm
    <3> QED
      BY <3>1, <3>3, <3>4, <3>5
  <2> QED
    BY <1>1, <2>1, <2>2, PlaceShrinks
<1>2. SlotsInv /\ [ReducersNext]_reducersVars
        => [carry # Zero /\ carry' # Zero
              => Cardinality(Occupied') < Cardinality(Occupied)]_vars
  BY <1>1
<1> QED
  BY <1>2, SpecSlotsInv, PTL DEF ReducersSpec, CascadeShrinks

-----------------------------------------------------------------------------
(* The geobucket implements its accumulator.                               *)

(* The instance's copies of the operators of the algebra.                  *)
LEMMA ExactAlgebra ==
  /\ Exact!Zero = Zero /\ Exact!One = One /\ Exact!Coefficients = Coefficients
  /\ \A p : Exact!LM(p) = LM(p) /\ Exact!LC(p) = LC(p) /\ Exact!DropLeading(p) = DropLeading(p)
  /\ \A p, m, c, q : Exact!MinusMMultP(p, m, c, q) = MinusMMultP(p, m, c, q)
<1>1. \A a : Exact!Deg(a) = Deg(a)
  BY DEF Exact!Deg, Deg
<1>2. /\ \A a, b : Exact!Less(a, b) <=> Less(a, b)
      /\ \A a, b : Exact!Mul(a, b) = Mul(a, b) /\ Exact!Div(a, b) = Div(a, b)
      /\ Exact!One = One /\ Exact!Zero = Zero /\ Exact!Coefficients = Coefficients
      /\ \A p : Exact!LM(p) = LM(p) /\ Exact!LC(p) = LC(p) /\ Exact!Support(p) = Support(p)
      /\ \A p, t : Exact!Coef(p, t) = Coef(p, t)
  BY <1>1 DEF Exact!Less, Less, Exact!Vars, Vars, Exact!Mul, Mul, Exact!Div, Div,
    Exact!One, One, Exact!Zero, Zero, Exact!Coefficients, Coefficients,
    Exact!LM, LM, Exact!LC, LC, Exact!Support, Support, Exact!Coef, Coef
<1>3. \A terms : Exact!Poly(terms) = Poly(terms)
  BY <1>2 DEF Exact!Poly, Poly, Exact!Maxima, Maxima
<1>4. \A p : Exact!DropLeading(p) = DropLeading(p)
  BY <1>2, <1>3 DEF Exact!DropLeading, DropLeading
<1>5. \A p, m, c, q : Exact!MinusMMultP(p, m, c, q) = MinusMMultP(p, m, c, q)
  BY <1>2, <1>3 DEF Exact!MinusMMultP, MinusMMultP
<1> QED
  BY <1>2, <1>4, <1>5

LEMMA BucketStepIsExact ==
  ASSUME BucketInv, CacheInv, Next
  PROVE  [Exact!Next]_(Exact!vars)
<1> DEFINE pending == IF carry # Zero THEN "subtract" ELSE asked
           pending1 == IF carry' # Zero THEN "subtract" ELSE asked'
<1>1. asked # Nothing => asked \in {"leading", "extract"} /\ carry = Zero
  BY DEF BucketInv, TypeOK
<1>2. ASSUME NEW m \in Multipliers, NEW c \in Coefficients, NEW p \in Subtrahends,
             Minus_m_mult_p(m, c, p)
      PROVE  Exact!Subtract
  <2>1. m \in Monomial /\ c \in Int /\ IsPolynomial(p) /\ IsPolynomial(Value)
    BY OperandsAssumption, ValueFacts, PAssumption DEF Coefficients
  <2>2. Value' = MinusMMultP(Value, m, c, p)
    BY <1>2, <2>1, MinusValue
  <2>3. MinusMMultP(Value', One, 1, Value) = MinusMMultP(Zero, m, c, p)
    BY <2>1, <2>2, ProductBetween
  <2>4. MinusMMultP(Zero, m, c, p) \in Exact!Products
    BY ExactAlgebra DEF Exact!Products
  <2>5. pending = Nothing /\ pending1 \in {"subtract", Nothing} /\ answer' = Nothing
    BY <1>2 DEF Minus_m_mult_p, Idle
  <2>6. Exact!MinusMMultP(Value', Exact!One, 1, Value) \in Exact!Products
    BY <2>3, <2>4, ExactAlgebra
  <2> QED
    BY <2>5, <2>6 DEF Exact!Subtract
<1>3. ASSUME NEW call \in {"leading", "extract"}, Ask(call) PROVE Exact!Ask
  <2>1. /\ pending = Nothing /\ pending1 \in {"leading", "extract"} /\ answer' = Nothing
    BY <1>3, NothingAssumption DEF Ask, Idle
  <2>2. Value' = Value
    BY <1>3, AskValue
  <2> QED
    BY <2>1, <2>2 DEF Exact!Ask
<1>4. ASSUME Turn PROVE [Exact!Next]_(Exact!vars)
  <2>1. CASE Value' = Value /\ UNCHANGED <<asked, answer>>
    <3>1. CASE pending1 = pending
      BY <2>1, <3>1 DEF Exact!vars
    <3>2. CASE pending1 # pending
      <4>1. asked = Nothing
        <5>1. ASSUME asked # Nothing PROVE FALSE
          <6>1. carry = Zero /\ carry' # Zero
            BY <1>1, <2>1, <3>2, <5>1
          <6>2. BucketInv'
            BY <1>4, TurnKeeps
          <6>3. asked' # Nothing
            BY <2>1, <5>1
          <6> QED
            BY <6>1, <6>2, <6>3 DEF BucketInv
        <5> QED
          BY <5>1
      <4>2. pending = "subtract" /\ pending1 = Nothing
        <5>1. carry # Zero
          BY <1>4, <4>1 DEF Turn, Absorb, Peel, FromCache, FromScan, NoTerm
        <5> QED
          BY <2>1, <3>2, <4>1, <5>1
      <4> QED
        BY <2>1, <4>2 DEF Exact!Next, Exact!Subtracted
    <3> QED
      BY <3>1, <3>2
  <2>2. CASE /\ asked \in {"leading", "extract"} /\ asked' = Nothing
             /\ carry = Zero /\ carry' = Zero
             /\ answer' = Leading(Value)
             /\ Value' = IF Value = Zero \/ asked = "leading" THEN Value
                                                            ELSE DropLeading(Value)
    <3>1. pending = asked /\ pending1 = Nothing
      BY <2>2
    <3>2. answer' = IF Value = Exact!Zero THEN [c |-> 0, m |-> Exact!One]
                    ELSE [c |-> Exact!LC(Value), m |-> Exact!LM(Value)]
      BY <2>2, ExactAlgebra DEF Leading, None
    <3>3. Value' = IF Value = Exact!Zero \/ pending = "leading" THEN Value
                   ELSE Exact!DropLeading(Value)
      BY <2>2, <3>1, ExactAlgebra
    <3>4. Exact!Reply
      BY <2>2, <3>1, <3>2, <3>3 DEF Exact!Reply
    <3> QED
      BY <3>4 DEF Exact!Next
  <2> QED
    BY <1>4, <2>1, <2>2, TurnValue
<1> QED
  BY <1>2, <1>3, <1>4 DEF Next, Call, Exact!Next

LEMMA StepCacheInv ==
  ASSUME SlotsInv, CacheInv, [ReducersNext]_reducersVars
  PROVE  CacheInv'
<1>0. BucketInv /\ BucketInv'
  BY StepSlotsInv DEF SlotsInv
<1>1. ASSUME UNCHANGED vars PROVE CacheInv'
  <2>1. slots' = slots /\ carry' = carry /\ lm_cache' = lm_cache /\ dirty' = dirty
    BY <1>1 DEF vars
  <2>2. Value' = Value
    BY <1>0, <2>1, SameValue
  <2>3. Cached' <=> Cached
    BY <2>1 DEF Cached
  <2>4. Above(lm_cache.m)' <=> Above(lm_cache.m)
    BY <2>1 DEF Above, Slot
  <2> QED
    BY <2>1, <2>2, <2>3, <2>4 DEF CacheInv
<1>2. ASSUME Turn PROVE CacheInv'
  BY <1>0, <1>2, TurnValue
<1>3. ASSUME NEW call \in {"leading", "extract"}, Ask(call) PROVE CacheInv'
  BY <1>0, <1>3, AskValue
<1>4. ASSUME Next PROVE CacheInv'
  BY <1>2, <1>3, <1>4, MinusCache DEF Next, Call
<1>5. ASSUME LObjectNext PROVE CacheInv'
  <2>1. ASSUME Refresh \/ Probe PROVE CacheInv'
    BY <1>3, <2>1 DEF Refresh, Probe
  <2>2. ASSUME SpolyFirst \/ SpolySecond \/ Subtract PROVE CacheInv'
    BY <2>2, MinusCache DEF SpolyFirst, SpolySecond, Subtract, SubtractAndGo
  <2>3. ASSUME Refreshed \/ Irreducible \/ LObjectReturned PROVE CacheInv'
    BY <1>1, <2>3 DEF Refreshed, Irreducible, LObjectReturned, geobucketVars
  <2> QED
    BY <1>2, <1>5, <2>1, <2>2, <2>3 DEF LObjectNext, WithinCall
<1> QED
  BY <1>1, <1>4, <1>5 DEF ReducersNext, reducersVars, HeapTurn, GeobucketTurn, BucketTurn

(* The invariant of the geobucket with what its cache holds.               *)
ValueInv == SlotsInv /\ CacheInv

LEMMA SpecValueInv == ReducersSpec => []ValueInv
<1>1. ReducersInit => ValueInv
  <2>1. ReducersInit => lm_cache = Nothing
    BY DEF ReducersInit, BucketUnused, LObjectInit, Init
  <2> QED
    BY <2>1, InitSlotsInv DEF ValueInv, CacheInv, Cached
<1>2. ValueInv /\ [ReducersNext]_reducersVars => ValueInv'
  BY StepSlotsInv, StepCacheInv DEF ValueInv
<1> QED
  BY <1>1, <1>2, PTL DEF ReducersSpec

(* Whatever has been queued, however its slots are filled and whatever is   *)
(* cached, every call of a geobucket returns what the same call of a plain *)
(* polynomial would, for every prime and every capacity of the slots, and  *)
(* no turn of a cascade or a scan shows (kbucket.rs:226-264, 350-470).     *)
THEOREM BucketIsAccumulator == ReducersSpec => BucketImplementsAccumulator
<1>1. ASSUME ReducersInit, use = "bucket" PROVE Exact!Init
  <2>0. use = "bucket" => Init
    BY <1>1 DEF ReducersInit
  <2>1. PICK p \in Subtrahends \cup {Zero} : slots = FromPoly(p)
    BY <1>1, <2>0 DEF Init
  <2>2. carry = Zero /\ asked = Nothing /\ answer = Nothing
    BY <1>1, <2>0 DEF Init
  <2>3. BucketInv /\ IsPolynomial(p)
    BY <1>1, InitSlotsInv, OperandsAssumption, ZeroIsPolynomial DEF SlotsInv
  <2>4. Value = p
    BY <2>1, <2>2, <2>3, FromPolyValue
  <2> QED
    BY <2>1, <2>2, <2>4, ExactAlgebra DEF Exact!Init
<1>2. ASSUME ValueInv, [ReducersNext]_reducersVars, use = "bucket"
      PROVE  [Exact!Next]_(Exact!vars)
  <2>1. BucketInv /\ CacheInv
    BY <1>2 DEF ValueInv, SlotsInv
  <2>2. CASE BucketTurn
    BY <2>1, <2>2, BucketStepIsExact DEF BucketTurn
  <2>3. CASE UNCHANGED reducersVars
    <3>1. BucketInv'
      BY <1>2, StepSlotsInv DEF ValueInv, SlotsInv
    <3>2. /\ slots' = slots /\ carry' = carry /\ asked' = asked /\ answer' = answer
      BY <2>3 DEF reducersVars, vars
    <3>3. Value' = Value
      BY <2>1, <3>1, <3>2, SameValue
    <3> QED
      BY <3>2, <3>3 DEF Exact!vars
  <2> QED
    BY <1>2, <2>2, <2>3 DEF ReducersNext, HeapTurn, GeobucketTurn
<1>3. ReducersInit => (use = "bucket" => Exact!Init)
  BY <1>1
<1>4. ValueInv /\ [ReducersNext]_reducersVars
        => [use = "bucket" => [Exact!Next]_(Exact!vars)]_reducersVars
  BY <1>2
<1> QED
  BY <1>3, <1>4, SpecValueInv, PTL DEF ReducersSpec, BucketImplementsAccumulator

-----------------------------------------------------------------------------
(* The geobucket reducer implements the reduction of a leading form.       *)

(* What the bucket stands for at each step: the S-polynomial as far as it  *)
(* is built; then what the last question was answered with, and the copy   *)
(* of it, are the leading term.                                            *)
LeadInv ==
  /\ asked # "extract"
  /\ step = "first" => Value = Zero
  /\ step = "second" =>
       LET f == basis.polys[pair[1]]
       IN  Value = MinusMMultP(Zero, Div(PairLcm(pair), LM(f)), P - LC(basis.polys[pair[2]]), f)
  /\ step \in {"refreshing", "search"} /\ asked = Nothing => answer = Leading(Value)
  /\ step \in {"probe", "search"} => Value # Zero /\ lead = Leading(Value)

(* The instance's copies of the operators of the algebra.                  *)
LEMMA ExactlyAlgebra ==
  /\ Exactly!Zero = Zero
  /\ \A a : Exactly!Deg(a) = Deg(a)
  /\ \A a, b : Exactly!Lcm(a, b) = Lcm(a, b) /\ Exactly!Div(a, b) = Div(a, b)
  /\ \A p : Exactly!LM(p) = LM(p) /\ Exactly!LC(p) = LC(p)
  /\ \A p, m, c, q : Exactly!MinusMMultP(p, m, c, q) = MinusMMultP(p, m, c, q)
  /\ \A f, g, lcm : Exactly!SPoly(f, g, lcm) = SPoly(f, g, lcm)
  /\ \A p, s : Exactly!LObject(p, s) = LObject(p, s)
  /\ \A ps, redundant, p : Exactly!Reducible(ps, redundant, p) <=> Reducible(ps, redundant, p)
  /\ \A ps, redundant, o : Exactly!ReduceOnce(ps, redundant, o) = ReduceOnce(ps, redundant, o)
<1>1. \A a : Exactly!Deg(a) = Deg(a)
  BY DEF Exactly!Deg, Deg
<1>2. /\ \A a, b : Exactly!Less(a, b) <=> Less(a, b)
      /\ \A a, b : Exactly!Mul(a, b) = Mul(a, b) /\ Exactly!Div(a, b) = Div(a, b)
      /\ \A a, b : Exactly!Lcm(a, b) = Lcm(a, b)
      /\ Exactly!One = One /\ Exactly!Zero = Zero
      /\ \A p : Exactly!LM(p) = LM(p) /\ Exactly!LC(p) = LC(p) /\ Exactly!Support(p) = Support(p)
      /\ \A p, t : Exactly!Coef(p, t) = Coef(p, t)
      /\ \A p, s : Exactly!LObject(p, s) = LObject(p, s)
  BY <1>1 DEF Exactly!Less, Less, Exactly!Vars, Vars, Exactly!Mul, Mul, Exactly!Div, Div,
    Exactly!Lcm, Lcm, Exactly!One, One, Exactly!Zero, Zero, Exactly!LM, LM, Exactly!LC, LC,
    Exactly!Support, Support, Exactly!Coef, Coef, Exactly!LObject, LObject
<1>3. \A terms : Exactly!Poly(terms) = Poly(terms)
  BY <1>2 DEF Exactly!Poly, Poly, Exactly!Maxima, Maxima
<1>4. \A p, m, c, q : Exactly!MinusMMultP(p, m, c, q) = MinusMMultP(p, m, c, q)
  BY <1>2, <1>3 DEF Exactly!MinusMMultP, MinusMMultP
<1>5. \A f, g, lcm : Exactly!SPoly(f, g, lcm) = SPoly(f, g, lcm)
  BY <1>2, <1>4 DEF Exactly!SPoly, SPoly
<1>6. \A ps, redundant, m : Exactly!Divisors(ps, redundant, m) = Divisors(ps, redundant, m)
  BY <1>2 DEF Exactly!Divisors, Divisors, Exactly!Divides, Divides, Exactly!Vars, Vars
<1>7. \A ps, redundant, m : Exactly!FirstDivisor(ps, redundant, m) = FirstDivisor(ps, redundant, m)
  BY <1>6 DEF Exactly!FirstDivisor, FirstDivisor
<1>8. \A ps, redundant, p : Exactly!Reducible(ps, redundant, p) <=> Reducible(ps, redundant, p)
  BY <1>2, <1>6 DEF Exactly!Reducible, Reducible
<1>9. \A ps, redundant, p : Exactly!CancelLeading(ps, redundant, p) = CancelLeading(ps, redundant, p)
  BY <1>2, <1>4, <1>7 DEF Exactly!CancelLeading, CancelLeading
<1>10. \A ps, redundant, o : Exactly!ReduceOnce(ps, redundant, o) = ReduceOnce(ps, redundant, o)
  BY <1>1, <1>2, <1>7, <1>9 DEF Exactly!ReduceOnce, ReduceOnce
<1> QED
  BY <1>1, <1>2, <1>4, <1>5, <1>8, <1>10

LEMMA LeadingFacts ==
  ASSUME NEW p, IsPolynomial(p)
  PROVE  /\ p = Zero <=> Leading(p) = None
         /\ p # Zero => Leading(p).c = LC(p) /\ Leading(p).m = LM(p)
<1>1. p # Zero => LC(p) # 0
  BY LeadingIsLargest, PAssumption
<1>2. p # Zero => Leading(p).c = LC(p) /\ Leading(p).m = LM(p)
  BY DEF Leading
<1>3. p # Zero => Leading(p) # None
  BY <1>1, <1>2 DEF None
<1> QED
  BY <1>2, <1>3 DEF Leading

LEMMA LObjectInitIsExact ==
  ASSUME LObjectInit, BucketInv
  PROVE  LeadInv /\ Exactly!Init
<1>1. basis \in Bases /\ GoodBasis(basis) /\ carry = Zero /\ asked = Nothing
  BY BasesAssumption DEF LObjectInit, GoodBasis
<1>2. ASSUME FromPolyWithSugar PROVE LeadInv /\ Exactly!Init
  <2>1. /\ pair = Nothing /\ step = "refresh"
        /\ \E o \in WorkObjects : slots = FromPoly(o.poly) /\ sugar = o.sugar
    BY <1>2 DEF FromPolyWithSugar
  <2>2. PICK o \in WorkObjects : slots = FromPoly(o.poly) /\ sugar = o.sugar
    BY <2>1
  <2>3. IsPolynomial(o.poly) /\ o = LObject(o.poly, o.sugar)
    BY WorkAssumption
  <2>4. Value = o.poly
    BY <1>1, <2>2, <2>3, FromPolyValue
  <2>5. LObject(WorkingPoly, sugar) = o
    BY <2>1, <2>2, <2>3, <2>4 DEF WorkingPoly
  <2>6. LeadInv
    BY <1>1, <2>1, NothingAssumption DEF LeadInv
  <2>7. Exactly!Init
    BY <1>1, <2>1, <2>5, ExactlyAlgebra DEF Exactly!Init
  <2> QED
    BY <2>6, <2>7
<1>3. ASSUME FromSpoly PROVE LeadInv /\ Exactly!Init
  <2>1. /\ step = "first" /\ slots = FromPoly(Zero)
        /\ \E j \in DOMAIN basis.polys : \E i \in 1 .. j - 1 :
             pair = <<i, j>> /\ sugar = Deg(PairLcm(<<i, j>>))
    BY <1>3 DEF FromSpoly
  <2>2. PICK j \in DOMAIN basis.polys : \E i \in 1 .. j - 1 :
             pair = <<i, j>> /\ sugar = Deg(PairLcm(<<i, j>>))
    BY <2>1
  <2>3. PICK i \in 1 .. j - 1 : pair = <<i, j>> /\ sugar = Deg(PairLcm(<<i, j>>))
    BY <2>2
  <2>4. pair[1] = i /\ pair[2] = j /\ i \in DOMAIN basis.polys /\ i < j
    BY <1>1, <2>3 DEF GoodBasis
  <2> DEFINE f == basis.polys[i]
             g == basis.polys[j]
             lcm == Lcm(LM(f), LM(g))
  <2>5. PairLcm(pair) = lcm /\ PairLcm(<<i, j>>) = lcm
    BY <2>3, <2>4 DEF PairLcm
  <2>6. LObject(WorkingPoly, sugar) = LObject(SPoly(f, g, lcm), Deg(lcm))
    BY <2>1, <2>3, <2>4, <2>5 DEF WorkingPoly
  <2>7. Exactly!PairObject(f, g) = LObject(SPoly(f, g, lcm), Deg(lcm))
    BY ExactlyAlgebra DEF Exactly!PairObject
  <2>8. Value = Zero
    BY <1>1, <2>1, ZeroIsPolynomial, FromPolyValue
  <2>9. LeadInv
    BY <1>1, <2>1, <2>8, NothingAssumption DEF LeadInv
  <2> HIDE DEF lcm
  <2>10. Exactly!Init
    BY <1>1, <2>1, <2>4, <2>6, <2>7, ExactlyAlgebra DEF Exactly!Init
  <2> QED
    BY <2>9, <2>10
<1> QED
  BY <1>2, <1>3 DEF LObjectInit

(* Only a subtraction touches the working polynomial, and the call ends    *)
(* only where it is irreducible.                                           *)
LEMMA LObjectStepIsExact ==
  ASSUME BucketInv, LObjectInv, CacheInv, LeadInv, LObjectNext
  PROVE  LeadInv' /\ [Exactly!Next]_(Exactly!vars)
<1> DEFINE ps == basis.polys
           returned1 == step = "returned"
           object == LObject(WorkingPoly, sugar)
<1>0. /\ IsPolynomial(Value) /\ BucketInv' /\ GoodBasis(basis)
      /\ asked # Nothing => asked \in {"leading", "extract"} /\ carry = Zero
  BY ValueFacts, LObjectNextKeeps DEF BucketInv, TypeOK, LObjectInv
<1>1. ASSUME WithinCall PROVE LeadInv' /\ UNCHANGED Exactly!vars
  <2>1. Turn /\ UNCHANGED <<basis, sugar, pair, lead, step>>
    BY <1>1 DEF WithinCall, lobjVars
  <2>2. /\ Value' = Value
        /\ \/ UNCHANGED <<asked, answer>>
           \/ asked' = Nothing /\ answer' = Leading(Value)
    BY <1>0, <2>1, TurnValue, NothingAssumption DEF LeadInv
  <2>3. LeadInv'
    BY <2>1, <2>2, NothingAssumption DEF LeadInv, PairLcm
  <2>4. WorkingPoly' = WorkingPoly
    BY <2>1, <2>2 DEF WorkingPoly, PairLcm
  <2> QED
    BY <2>1, <2>3, <2>4 DEF Exactly!vars
<1>2. ASSUME SpolyFirst PROVE LeadInv' /\ UNCHANGED Exactly!vars
  <2> DEFINE f == ps[pair[1]]
             m == Div(PairLcm(pair), LM(f))
             c == P - LC(ps[pair[2]])
  <2>1. /\ step = "first" /\ step' = "second" /\ UNCHANGED <<basis, sugar, pair, lead>>
        /\ Minus_m_mult_p(m, c, f)
    BY <1>2 DEF SpolyFirst
  <2>2. IsPolynomial(f) /\ m \in Monomial /\ c \in Int
    <3>1. pair[1] \in DOMAIN ps /\ pair[2] \in DOMAIN ps
      BY <2>1 DEF LObjectInv
    <3>2. /\ LM(f) \in Monomial /\ LM(ps[pair[2]]) \in Monomial
          /\ IsPolynomial(f) /\ c \in Int
      BY <1>0, <3>1, OperandFacts
    <3>3. PairLcm(pair) \in Monomial /\ Divides(LM(f), PairLcm(pair))
      BY <3>2, LcmFacts DEF PairLcm
    <3> QED
      BY <3>2, <3>3, DivFacts
  <2>3. Value = Zero
    BY <2>1 DEF LeadInv
  <2>4. Value' = MinusMMultP(Zero, m, c, f)
    <3> HIDE DEF f, m, c
    <3> QED
      BY <2>1, <2>2, <2>3, MinusValue
  <2>5. asked' = Nothing
    BY <2>1 DEF Minus_m_mult_p, Idle
  <2>6. LeadInv'
    BY <2>1, <2>4, <2>5, NothingAssumption DEF LeadInv, PairLcm
  <2>7. WorkingPoly' = WorkingPoly
    BY <2>1 DEF WorkingPoly, PairLcm
  <2> QED
    BY <2>1, <2>6, <2>7 DEF Exactly!vars
<1>3. ASSUME SpolySecond PROVE LeadInv' /\ UNCHANGED Exactly!vars
  <2> DEFINE f == ps[pair[1]]
             g == ps[pair[2]]
             m == Div(PairLcm(pair), LM(g))
             c == LC(f)
  <2>1. /\ step = "second" /\ step' = "refresh" /\ UNCHANGED <<basis, sugar, pair, lead>>
        /\ Minus_m_mult_p(m, c, g)
    BY <1>3 DEF SpolySecond
  <2>2. IsPolynomial(g) /\ m \in Monomial /\ c \in Int
    <3>1. pair[1] \in DOMAIN ps /\ pair[2] \in DOMAIN ps
      BY <2>1 DEF LObjectInv
    <3>2. /\ LM(g) \in Monomial /\ LM(f) \in Monomial
          /\ IsPolynomial(g) /\ c \in Int
      BY <1>0, <3>1, OperandFacts
    <3>3. PairLcm(pair) \in Monomial /\ Divides(LM(g), PairLcm(pair))
      BY <3>2, LcmFacts DEF PairLcm
    <3> QED
      BY <3>2, <3>3, DivFacts
  <2>3. Value' = MinusMMultP(Value, m, c, g)
    <3> HIDE DEF g, m, c
    <3> QED
      BY <2>1, <2>2, MinusValue
  <2>4. Value = MinusMMultP(Zero, Div(PairLcm(pair), LM(f)), P - LC(g), f)
    BY <2>1 DEF LeadInv
  <2>5. Value' = SPoly(f, g, PairLcm(pair))
    BY <2>3, <2>4 DEF SPoly
  <2>6. asked' = Nothing
    BY <2>1 DEF Minus_m_mult_p, Idle
  <2>7. LeadInv'
    BY <2>1, <2>6, NothingAssumption DEF LeadInv
  <2>8. WorkingPoly' = WorkingPoly
    BY <2>1, <2>5 DEF WorkingPoly
  <2> QED
    BY <2>1, <2>7, <2>8 DEF Exactly!vars
<1>4. ASSUME Refresh \/ Probe PROVE LeadInv' /\ UNCHANGED Exactly!vars
  <2>1. /\ \/ step = "refresh" /\ step' = "refreshing"
           \/ step = "probe" /\ step' = "search"
        /\ Ask("leading") /\ UNCHANGED <<basis, sugar, pair, lead>>
    BY <1>4 DEF Refresh, Probe
  <2>2. Value' = Value /\ asked' = "leading" /\ asked' # Nothing
    BY <2>1, AskValue, NothingAssumption DEF Ask
  <2>3. LeadInv'
    BY <2>1, <2>2 DEF LeadInv
  <2>4. WorkingPoly' = WorkingPoly
    BY <2>1, <2>2 DEF WorkingPoly
  <2> QED
    BY <2>1, <2>3, <2>4 DEF Exactly!vars
<1>5. ASSUME UNCHANGED vars PROVE Value' = Value
  BY <1>0, <1>5, SameValue DEF vars
<1>6. ASSUME Refreshed PROVE LeadInv' /\ [Exactly!Next]_(Exactly!vars)
  <2>1. /\ step = "refreshing" /\ asked = Nothing /\ asked' = asked /\ answer' = answer
        /\ lead' = answer /\ step' = IF answer = None THEN "returned" ELSE "probe"
        /\ UNCHANGED <<basis, sugar, pair>> /\ Value' = Value
    BY <1>5, <1>6 DEF Refreshed, Idle, vars
  <2>2. answer = Leading(Value) /\ (answer = None <=> Value = Zero)
    BY <1>0, <2>1, LeadingFacts DEF LeadInv
  <2>3. LeadInv'
    BY <2>1, <2>2, NothingAssumption DEF LeadInv
  <2>4. WorkingPoly = Value /\ WorkingPoly' = Value
    BY <2>1 DEF WorkingPoly
  <2>5. CASE answer = None
    <3>1. ~Reducible(ps, basis.redundant, Value)
      BY <2>2, <2>5 DEF Reducible
    <3>2. object = LObject(Value, sugar) /\ object.poly = Value
      BY <2>4 DEF LObject
    <3>3. Exactly!Return
      BY <2>1, <2>4, <2>5, <3>1, <3>2, ExactlyAlgebra DEF Exactly!Return
    <3> QED
      BY <2>3, <3>3 DEF Exactly!Next
  <2>6. CASE answer # None
    BY <2>1, <2>3, <2>4, <2>6 DEF Exactly!vars
  <2> QED
    BY <2>5, <2>6
<1>7. ASSUME Irreducible PROVE LeadInv' /\ [Exactly!Next]_(Exactly!vars)
  <2>1. /\ step = "search" /\ asked = Nothing /\ asked' = asked /\ step' = "returned"
        /\ Divisors(ps, basis.redundant, answer.m) = {}
        /\ UNCHANGED <<basis, sugar, pair>> /\ Value' = Value
    BY <1>5, <1>7 DEF Irreducible, Idle, vars
  <2>2. answer = Leading(Value) /\ Value # Zero
    BY <2>1 DEF LeadInv
  <2>3. answer.m = LM(Value)
    BY <1>0, <2>2, LeadingFacts
  <2>4. ~Reducible(ps, basis.redundant, Value)
    BY <2>1, <2>3 DEF Reducible
  <2>5. LeadInv'
    BY <2>1, NothingAssumption DEF LeadInv
  <2>6. WorkingPoly = Value /\ WorkingPoly' = Value
    BY <2>1 DEF WorkingPoly
  <2>7. object = LObject(Value, sugar) /\ object.poly = Value
    BY <2>6 DEF LObject
  <2>8. Exactly!Return
    BY <2>1, <2>4, <2>6, <2>7, ExactlyAlgebra DEF Exactly!Return
  <2> QED
    BY <2>5, <2>8 DEF Exactly!Next
<1>8. ASSUME Subtract PROVE LeadInv' /\ [Exactly!Next]_(Exactly!vars)
  <2> DEFINE s == ps[FirstDivisor(ps, basis.redundant, answer.m)]
             m == Div(answer.m, LM(s))
             d == Deg(LM(s)) + Deg(m)
  <2>1. /\ step = "search" /\ asked = Nothing /\ step' = "refresh"
        /\ Divisors(ps, basis.redundant, answer.m) # {}
        /\ Minus_m_mult_p(m, lead.c, s)
        /\ sugar' = (IF d > sugar THEN d ELSE sugar)
        /\ UNCHANGED <<basis, pair, lead>>
    BY <1>8 DEF Subtract, SubtractAndGo, Idle
  <2>2. answer = Leading(Value) /\ lead = Leading(Value) /\ Value # Zero
    BY <2>1 DEF LeadInv
  <2>3. answer.m = LM(Value) /\ lead.c = LC(Value)
    BY <1>0, <2>2, LeadingFacts
  <2>4. LM(Value) \in Monomial /\ LC(Value) \in Int
    BY <1>0, <2>2, LeadingIsLargest, PAssumption
  <2>5. IsPolynomial(s) /\ m \in Monomial
    <3> DEFINE i == FirstDivisor(ps, basis.redundant, answer.m)
    <3>1. DOMAIN ps \subseteq Nat
      BY <1>0 DEF GoodBasis
    <3>2. i \in DOMAIN ps /\ Divides(LM(ps[i]), answer.m)
      BY <2>1, <3>1, FirstDivisorFacts
    <3>3. s = ps[i]
      OBVIOUS
    <3> HIDE DEF i
    <3>4. IsPolynomial(ps[i]) /\ LM(ps[i]) \in Monomial
      BY <1>0, <3>2, OperandFacts
    <3> QED
      BY <2>3, <2>4, <3>2, <3>3, <3>4, DivFacts
  <2>6. Value' = MinusMMultP(Value, m, LC(Value), s)
    <3> HIDE DEF s, m
    <3> QED
      BY <2>1, <2>3, <2>4, <2>5, MinusValue
  <2>7. asked' = Nothing
    BY <2>1 DEF Minus_m_mult_p, Idle
  <2>8. LeadInv'
    BY <2>1, <2>7, NothingAssumption DEF LeadInv
  <2>9. WorkingPoly = Value /\ WorkingPoly' = Value'
    BY <2>1 DEF WorkingPoly
  <2>10. object.poly = Value /\ object.sugar = sugar /\ object = LObject(Value, sugar)
    BY <2>9 DEF LObject
  <2>11. Reducible(ps, basis.redundant, Value)
    BY <2>1, <2>2, <2>3 DEF Reducible
  <2>12. Value' = CancelLeading(ps, basis.redundant, Value)
    BY <2>3, <2>6 DEF CancelLeading
  <2>13. LObject(WorkingPoly', sugar') = ReduceOnce(ps, basis.redundant, object)
    BY <2>1, <2>3, <2>9, <2>10, <2>12 DEF ReduceOnce
  <2> HIDE DEF s, m, d
  <2>14. Exactly!ReduceLeading
    BY <2>1, <2>10, <2>11, <2>13, ExactlyAlgebra DEF Exactly!ReduceLeading
  <2> QED
    BY <2>8, <2>14 DEF Exactly!Next
<1>9. ASSUME LObjectReturned PROVE LeadInv' /\ UNCHANGED Exactly!vars
  <2>1. UNCHANGED <<asked, answer, basis, sugar, pair, lead, step>> /\ Value' = Value
    BY <1>5, <1>9 DEF LObjectReturned, geobucketVars, lobjVars, vars
  <2>2. LeadInv'
    BY <2>1 DEF LeadInv, PairLcm
  <2>3. WorkingPoly' = WorkingPoly
    BY <2>1 DEF WorkingPoly, PairLcm
  <2> QED
    BY <2>1, <2>2, <2>3 DEF Exactly!vars
<1> QED
  BY <1>1, <1>2, <1>3, <1>4, <1>6, <1>7, <1>8, <1>9 DEF LObjectNext

(* For every basis and every working polynomial or pair, each subtraction  *)
(* of the geobucket reducer cancels the leading term of that moment with   *)
(* its first divisor, and it returns on a leading term without a divisor:  *)
(* the copy of the leading term and the answer of the second probe are     *)
(* never stale (bba.rs:276-323, lobject.rs:125-144).                       *)
THEOREM GeobucketReducesExactly == ReducersSpec => GeobucketImplementsLeadingForm
<1>1. ASSUME ReducersInit, use = "geobucket" PROVE Exactly!Init /\ LeadInv
  <2>1. LObjectInit
    BY <1>1 DEF ReducersInit
  <2>2. BucketInv
    BY <2>1, LObjectInitKeeps
  <2> QED
    BY <2>1, <2>2, LObjectInitIsExact
<1>2. ASSUME ValueInv, LeadInv, [ReducersNext]_reducersVars, use = "geobucket"
      PROVE  LeadInv' /\ [Exactly!Next]_(Exactly!vars)
  <2>1. BucketInv /\ LObjectInv /\ CacheInv
    BY <1>2 DEF ValueInv, SlotsInv
  <2>2. CASE GeobucketTurn
    BY <1>2, <2>1, <2>2, LObjectStepIsExact DEF GeobucketTurn
  <2>3. CASE UNCHANGED reducersVars
    <3>1. UNCHANGED geobucketVars
      BY <2>3 DEF reducersVars, geobucketVars, lobjVars, lobjOnly
    <3>2. BucketInv'
      BY <1>2, StepSlotsInv DEF ValueInv, SlotsInv
    <3>3. UNCHANGED <<slots, carry, asked, answer, basis, sugar, pair, lead, step>>
      BY <3>1 DEF geobucketVars, lobjVars, vars
    <3>4. Value' = Value
      BY <2>1, <3>2, <3>3, SameValue
    <3>5. LeadInv'
      BY <1>2, <3>3, <3>4 DEF LeadInv, PairLcm
    <3>6. WorkingPoly' = WorkingPoly
      BY <3>3, <3>4 DEF WorkingPoly, PairLcm
    <3> QED
      BY <3>3, <3>5, <3>6 DEF Exactly!vars
  <2> QED
    BY <1>2, <2>2, <2>3 DEF ReducersNext, HeapTurn, BucketTurn
<1>3. ReducersInit => (use = "geobucket" => Exactly!Init /\ LeadInv)
  BY <1>1
<1>4. ValueInv /\ (use = "geobucket" => LeadInv) /\ [ReducersNext]_reducersVars
        => /\ (use = "geobucket" => LeadInv)'
           /\ [use = "geobucket" => [Exactly!Next]_(Exactly!vars)]_reducersVars
  <2>1. [ReducersNext]_reducersVars => use' = use
    BY DEF ReducersNext, HeapTurn, GeobucketTurn, BucketTurn, reducersVars
  <2> QED
    BY <1>2, <2>1
<1> QED
  BY <1>3, <1>4, SpecValueInv, PTL DEF ReducersSpec, GeobucketImplementsLeadingForm

-----------------------------------------------------------------------------
(* The heap reducer.                                                       *)

Key(rs, i) == Mul(rs[i].multiplier, LM(rs[i].cursor))

NodesOf(rs, idxs) ==
  {[key |-> Key(rs, i), reducer_idx |-> i] : i \in {k \in idxs : rs[k].cursor # Zero}}

Below(rs, x) == \A i \in DOMAIN rs : rs[i].cursor # Zero => Less(Key(rs, i), x)

GoodSlab(rs) ==
  /\ \E S : rs \in Seq(S)
  /\ \A i \in DOMAIN rs :
       /\ IsPolynomial(rs[i].cursor) /\ rs[i].multiplier \in Monomial
       /\ rs[i] = [cursor |-> rs[i].cursor, multiplier |-> rs[i].multiplier,
                   coeff |-> rs[i].coeff]

(* The terms that have come out lie above whatever is still to come.       *)
HeapInv ==
  /\ GoodBasis(basis) /\ GoodSlab(reducers)
  /\ heap = NodesOf(reducers, DOMAIN reducers)
  /\ leader # Nothing => leader.m \in Monomial /\ Below(reducers, leader.m)
  /\ \E S : survivor \in Seq(S)
  /\ \A k \in DOMAIN survivor :
       /\ survivor[k].m \in Monomial /\ Below(reducers, survivor[k].m)
       /\ leader # Nothing => Less(leader.m, survivor[k].m)
       /\ \A l \in 1 .. k - 1 : Less(survivor[k].m, survivor[l].m)

(* The instance's copies of the operators of the algebra.                  *)
LEMMA HeapAlgebra ==
  /\ \A a, b : Heap!Less(a, b) <=> Less(a, b)
  /\ \A a, b : Heap!Mul(a, b) = Mul(a, b) /\ Heap!Div(a, b) = Div(a, b)
  /\ Heap!Zero = Zero /\ Heap!One = One
  /\ \A p : Heap!LM(p) = LM(p) /\ Heap!DropLeading(p) = DropLeading(p)
  /\ \A ps, redundant, m :
       /\ Heap!Divisors(ps, redundant, m) = Divisors(ps, redundant, m)
       /\ Heap!FirstDivisor(ps, redundant, m) = FirstDivisor(ps, redundant, m)
<1>1. \A a : Heap!Deg(a) = Deg(a)
  BY DEF Heap!Deg, Deg
<1>2. /\ \A a, b : Heap!Less(a, b) <=> Less(a, b)
      /\ \A a, b : Heap!Mul(a, b) = Mul(a, b) /\ Heap!Div(a, b) = Div(a, b)
      /\ Heap!One = One /\ Heap!Zero = Zero
      /\ \A p : Heap!LM(p) = LM(p) /\ Heap!Support(p) = Support(p)
  BY <1>1 DEF Heap!Less, Less, Heap!Vars, Vars, Heap!Mul, Mul, Heap!Div, Div,
    Heap!One, One, Heap!Zero, Zero, Heap!LM, LM, Heap!Support, Support
<1>3. \A terms : Heap!Poly(terms) = Poly(terms)
  BY <1>2 DEF Heap!Poly, Poly, Heap!Maxima, Maxima
<1>4. \A p : Heap!DropLeading(p) = DropLeading(p)
  BY <1>2, <1>3 DEF Heap!DropLeading, DropLeading
<1>5. \A ps, redundant, m : Heap!Divisors(ps, redundant, m) = Divisors(ps, redundant, m)
  BY <1>2 DEF Heap!Divisors, Divisors, Heap!Divides, Divides, Heap!Vars, Vars
<1>6. \A ps, redundant, m : Heap!FirstDivisor(ps, redundant, m) = FirstDivisor(ps, redundant, m)
  BY <1>5 DEF Heap!FirstDivisor, FirstDivisor
<1> QED
  BY <1>2, <1>4, <1>5, <1>6

LEMMA HeapNodes == \A rs, idxs : Heap!Nodes(rs, idxs) = NodesOf(rs, idxs)
BY HeapAlgebra DEF Heap!Nodes, NodesOf, Key

(* A function on 1 .. n is a sequence.                                     *)
LEMMA FunctionIsSeq ==
  ASSUME NEW n \in Nat, NEW f, f = [i \in 1 .. n |-> f[i]]
  PROVE  (\E S : f \in Seq(S)) /\ Len(f) = n /\ DOMAIN f = 1 .. n
<1> DEFINE S == {f[i] : i \in 1 .. n}
<1>1. f \in [1 .. n -> S]
  OBVIOUS
<1> HIDE DEF S
<1>2. f \in Seq(S) /\ Len(f) = n
  BY <1>1, SeqDef, LenProperties
<1> QED
  BY <1>1, <1>2

LEMMA AppendFacts ==
  ASSUME NEW S, NEW s \in Seq(S), NEW x
  PROVE  /\ Len(s) \in Nat /\ DOMAIN s = 1 .. Len(s)
         /\ \E R : Append(s, x) \in Seq(R)
         /\ Len(Append(s, x)) = Len(s) + 1 /\ DOMAIN Append(s, x) = 1 .. Len(s) + 1
         /\ \A i \in 1 .. Len(s) : Append(s, x)[i] = s[i]
         /\ Append(s, x)[Len(s) + 1] = x
<1> DEFINE R == S \cup {x}
<1>2. s \in Seq(R) /\ x \in R
  <2>1. s \in [1 .. Len(s) -> S] /\ Len(s) \in Nat
    BY LenProperties
  <2>2. s \in [1 .. Len(s) -> R]
    BY <2>1
  <2> QED
    BY <2>1, <2>2, SeqDef
<1> HIDE DEF R
<1>3. /\ Append(s, x) \in Seq(R) /\ Len(Append(s, x)) = Len(s) + 1
      /\ \A i \in 1 .. Len(s) : Append(s, x)[i] = s[i]
      /\ Append(s, x)[Len(s) + 1] = x
  BY <1>2, AppendProperties
<1> QED
  BY <1>2, <1>3, LenProperties

(* The key of a node that is not exhausted is a monomial, and that of its  *)
(* next term, if there is one, is smaller.                                 *)
LEMMA KeyFacts ==
  ASSUME NEW p, IsPolynomial(p), p # Zero, NEW m \in Monomial
  PROVE  /\ Mul(m, LM(p)) \in Monomial
         /\ IsPolynomial(DropLeading(p))
         /\ DropLeading(p) # Zero => Less(Mul(m, LM(DropLeading(p))), Mul(m, LM(p)))
<1>1. LM(p) \in Monomial /\ \A u \in Support(p) : u = LM(p) \/ Less(u, LM(p))
  BY LeadingIsLargest
<1> DEFINE d == DropLeading(p)
<1>2. IsPolynomial(d) /\ Support(d) = Support(p) \ {LM(p)}
  BY DropIsPolynomial
<1> HIDE DEF d
<1>3. d # Zero => LM(d) \in Support(d) /\ LM(d) \in Monomial
  BY <1>2, LeadingIsLargest
<1>4. d # Zero => Less(LM(d), LM(p))
  BY <1>1, <1>2, <1>3
<1> QED
  BY <1>1, <1>2, <1>3, <1>4, LessMul, DegMul DEF d

LEMMA NodesBelow ==
  ASSUME NEW rs, NEW x
  PROVE  (\A n \in NodesOf(rs, DOMAIN rs) : Less(n.key, x)) <=> Below(rs, x)
<1>1. ASSUME NEW i \in DOMAIN rs, rs[i].cursor # Zero
      PROVE  \E n \in NodesOf(rs, DOMAIN rs) : n.key = Key(rs, i)
  <2>1. [key |-> Key(rs, i), reducer_idx |-> i] \in NodesOf(rs, DOMAIN rs)
    BY <1>1 DEF NodesOf
  <2> QED
    BY <2>1
<1>2. ASSUME NEW n \in NodesOf(rs, DOMAIN rs)
      PROVE  \E i \in DOMAIN rs : rs[i].cursor # Zero /\ n.key = Key(rs, i)
  BY DEF NodesOf
<1> QED
  BY <1>1, <1>2 DEF Below

LEMMA BelowTransitive ==
  ASSUME NEW rs, GoodSlab(rs), NEW x \in Monomial, NEW y \in Monomial, Below(rs, x), Less(x, y)
  PROVE  Below(rs, y)
<1>1. ASSUME NEW i \in DOMAIN rs, rs[i].cursor # Zero PROVE Less(Key(rs, i), y)
  <2>1. Key(rs, i) \in Monomial
    BY <1>1, KeyFacts DEF GoodSlab, Key
  <2>2. Less(Key(rs, i), x)
    BY <1>1 DEF Below
  <2> QED
    BY <2>1, <2>2, LessTransitive
<1> QED
  BY <1>1 DEF Below

LEMMA HeapInvIsSound ==
  ASSUME HeapInv
  PROVE  Heap!NodesCurrent /\ Heap!Descending
<1>1. Heap!NodesCurrent
  BY HeapNodes DEF Heap!NodesCurrent, HeapInv
<1>2. \A x : Below(reducers, x) => \A n \in heap : Less(n.key, x)
  BY NodesBelow DEF HeapInv
<1>3. Heap!Descending
  BY <1>2, HeapAlgebra DEF Heap!Descending, HeapInv
<1> QED
  BY <1>1, <1>3

LEMMA HeapInitKeeps ==
  ASSUME Heap!Init
  PROVE  HeapInv
<1>1. PICK o \in WorkObjects : reducers = <<Heap!Reducer(o.poly, Heap!One, 1)>>
  BY DEF Heap!Init
<1>2. /\ basis \in Bases /\ heap = NodesOf(reducers, {1})
      /\ leader = Nothing /\ survivor = << >>
  BY HeapNodes DEF Heap!Init
<1>3. /\ DOMAIN reducers = {1} /\ reducers = [i \in 1 .. 1 |-> reducers[i]]
      /\ reducers[1].cursor = o.poly /\ reducers[1].multiplier = One
      /\ reducers[1] = [cursor |-> o.poly, multiplier |-> One, coeff |-> 1]
  BY <1>1, HeapAlgebra DEF Heap!Reducer
<1>4. GoodSlab(reducers)
  <2>1. IsPolynomial(o.poly) /\ One \in Monomial
    BY WorkAssumption, DegOne
  <2>2. \E S : reducers \in Seq(S)
    BY <1>3, FunctionIsSeq
  <2> QED
    BY <1>3, <2>1, <2>2 DEF GoodSlab
<1>5. GoodBasis(basis)
  BY <1>2, BasesAssumption DEF GoodBasis
<1>6. (\E S : survivor \in Seq(S)) /\ DOMAIN survivor = {}
  <2>1. survivor \in Seq({}) /\ DOMAIN survivor = {}
    BY <1>2
  <2> QED
    BY <2>1
<1> QED
  BY <1>2, <1>3, <1>4, <1>5, <1>6 DEF HeapInv

(* What the reducers idxs have next, summed up.                            *)
Taken(idxs) ==
  Heap!MapThenSumSet(LAMBDA i : reducers[i].coeff * Heap!LC(reducers[i].cursor), idxs) % P

(* The reducers idxs, whose next terms are those with the monomial top,    *)
(* have moved past them, and the sum is the leader.                        *)
Popped(idxs, top) ==
  /\ top \in Monomial /\ Below(reducers', top)
  /\ idxs \subseteq DOMAIN reducers /\ DOMAIN reducers' = DOMAIN reducers
  /\ \A i \in idxs : reducers[i].cursor # Zero /\ Key(reducers, i) = top
  /\ \A i \in DOMAIN reducers :
       /\ reducers'[i].multiplier = reducers[i].multiplier
       /\ reducers'[i].coeff = reducers[i].coeff
       /\ i \in idxs => reducers'[i].cursor = DropLeading(reducers[i].cursor)
       /\ i \notin idxs => reducers'[i] = reducers[i]
  /\ leader = Nothing
  /\ leader' = IF Taken(idxs) = 0 THEN Nothing ELSE [c |-> Taken(idxs), m |-> top]
  /\ UNCHANGED <<basis, sugar, survivor, returned>>

(* A turn of pop_with_cancellation takes the largest keys off the heap.    *)
LEMMA PopKeeps ==
  ASSUME HeapInv, Heap!PopChain
  PROVE  HeapInv' /\ \E idxs, top : Popped(idxs, top)
<1> DEFINE live == {i \in DOMAIN reducers : reducers[i].cursor # Zero}
           chain == {n \in heap : \A k \in heap : ~Less(n.key, k.key)}
           idxs == {n.reducer_idx : n \in chain}
           top == (CHOOSE n \in chain : TRUE).key
           rs == [i \in DOMAIN reducers |->
                    IF i \in idxs
                    THEN [reducers[i] EXCEPT !.cursor = DropLeading(reducers[i].cursor)]
                    ELSE reducers[i]]
<1>1. /\ leader = Nothing /\ heap # {}
      /\ reducers' = rs /\ heap' = (heap \ chain) \cup NodesOf(reducers', idxs)
      /\ leader' = IF Taken(idxs) = 0 THEN Nothing ELSE [c |-> Taken(idxs), m |-> top]
      /\ UNCHANGED <<basis, sugar, survivor, returned>>
  <2>1. Heap!Chain = chain
    BY HeapAlgebra DEF Heap!Chain
  <2>2. Heap!Advanced(idxs) = rs
    BY HeapAlgebra DEF Heap!Advanced
  <2> HIDE DEF chain, idxs, rs
  <2>3. Heap!Take(chain) /\ leader = Nothing /\ heap # {}
    BY <2>1 DEF Heap!PopChain
  <2>4. /\ reducers' = Heap!Advanced(idxs)
        /\ heap' = (heap \ chain) \cup Heap!Nodes(reducers', idxs)
        /\ leader' = IF Taken(idxs) = 0 THEN Nothing ELSE [c |-> Taken(idxs), m |-> top]
        /\ UNCHANGED <<basis, sugar, survivor, returned>>
    BY <2>3 DEF Heap!Take, Taken, idxs
  <2> QED
    BY <2>2, <2>3, <2>4, HeapNodes
<1>2. /\ \A i \in live : /\ IsPolynomial(reducers[i].cursor) /\ reducers[i].multiplier \in Monomial
                         /\ Key(reducers, i) \in Monomial
      /\ \A n \in heap : n.reducer_idx \in live /\ n.key = Key(reducers, n.reducer_idx)
      /\ \A i \in live : \E n \in heap : n.reducer_idx = i
      /\ \A m, n \in heap : m.reducer_idx = n.reducer_idx => m = n
  <2>1. heap = {[key |-> Key(reducers, i), reducer_idx |-> i] : i \in live}
    BY DEF HeapInv, NodesOf
  <2>2. \A i \in live : /\ IsPolynomial(reducers[i].cursor)
                        /\ reducers[i].multiplier \in Monomial
                        /\ Key(reducers, i) \in Monomial
    BY KeyFacts DEF HeapInv, GoodSlab, Key
  <2> HIDE DEF live
  <2>3. ASSUME NEW n \in heap
        PROVE  n.reducer_idx \in live /\ n.key = Key(reducers, n.reducer_idx)
    <3>1. PICK i \in live : n = [key |-> Key(reducers, i), reducer_idx |-> i]
      BY <2>1
    <3> QED
      BY <3>1
  <2>4. ASSUME NEW i \in live
        PROVE  \E n \in heap : n.reducer_idx = i
    <3>1. [key |-> Key(reducers, i), reducer_idx |-> i] \in heap
      BY <2>1
    <3> QED
      BY <3>1
  <2>5. ASSUME NEW k \in heap, NEW n \in heap, k.reducer_idx = n.reducer_idx
        PROVE  k = n
    <3>1. PICK i \in live : k = [key |-> Key(reducers, i), reducer_idx |-> i]
      BY <2>1
    <3>2. PICK j \in live : n = [key |-> Key(reducers, j), reducer_idx |-> j]
      BY <2>1
    <3> QED
      BY <2>5, <3>1, <3>2
  <2> QED
    BY <2>2, <2>3, <2>4, <2>5
<1>3. \E n \in heap : \A k \in heap : k.key = n.key \/ Less(k.key, n.key)
  <2> DEFINE keys == {n.key : n \in heap}
             f == [i \in live |-> Key(reducers, i)]
  <2>1. IsFiniteSet(live)
    <3>1. DOMAIN reducers = 1 .. Len(reducers) /\ Len(reducers) \in Nat
      BY AppendFacts DEF HeapInv, GoodSlab
    <3>2. IsFiniteSet(DOMAIN reducers)
      BY <3>1, FS_Interval
    <3> QED
      BY <3>2, FS_Subset
  <2> HIDE DEF live
  <2>2. f \in Surjection(live, keys)
    BY <1>2 DEF Surjection
  <2>3. keys \in SUBSET Monomial /\ keys # {}
    BY <1>1, <1>2
  <2> HIDE DEF keys, f
  <2>4. Maxima(keys) # {}
    BY <2>1, <2>2, <2>3, FS_Surjection, MaximumExists
  <2>5. PICK m \in keys : \A x \in keys : x = m \/ Less(x, m)
    BY <2>4 DEF Maxima
  <2> USE DEF keys
  <2> QED
    BY <2>5
<1>4. PICK max \in heap : \A k \in heap : k.key = max.key \/ Less(k.key, max.key)
  BY <1>3
<1>5. \A n \in heap : n.key \in Monomial
  BY <1>2
<1>6. \A n \in heap : n \in chain <=> n.key = max.key
  <2>1. ASSUME NEW n \in heap, n \in chain PROVE n.key = max.key
    <3>1. ~Less(n.key, max.key)
      BY <2>1, <1>4
    <3> QED
      BY <1>4, <3>1
  <2>2. ASSUME NEW n \in heap, n.key = max.key, NEW k \in heap PROVE ~Less(n.key, k.key)
    <3>1. k.key = n.key \/ Less(k.key, n.key)
      BY <1>4, <2>2
    <3>2. k.key \in Monomial /\ n.key \in Monomial
      BY <1>5
    <3> QED
      BY <3>1, <3>2, LessIrreflexive, LessTransitive
  <2> QED
    BY <2>1, <2>2
<1>7. top = max.key /\ top \in Monomial
  <2>1. max \in chain /\ \A n \in chain : n \in heap
    BY <1>6
  <2> HIDE DEF chain
  <2>2. (CHOOSE n \in chain : TRUE) \in chain
    BY <2>1
  <2> QED
    BY <1>5, <1>6, <2>1, <2>2
<1>8. /\ idxs \subseteq live
      /\ \A i \in live : i \in idxs <=> Key(reducers, i) = top
      /\ \A n \in heap : n \in chain <=> n.reducer_idx \in idxs
  <2>1. \A n \in chain : n \in heap
    OBVIOUS
  <2>2. \A i : i \in idxs <=> \E n \in chain : n.reducer_idx = i
    OBVIOUS
  <2> HIDE DEF chain, idxs, live, top
  <2> QED
    BY <1>2, <1>6, <1>7, <2>1, <2>2
<1> HIDE DEF live, chain, top
<1>9. /\ rs = [i \in DOMAIN reducers |-> rs[i]]
      /\ \A i \in DOMAIN reducers :
           /\ rs[i] = [cursor |-> rs[i].cursor, multiplier |-> rs[i].multiplier,
                       coeff |-> rs[i].coeff]
           /\ rs[i].multiplier = reducers[i].multiplier /\ rs[i].coeff = reducers[i].coeff
           /\ i \in idxs => rs[i].cursor = DropLeading(reducers[i].cursor)
           /\ i \notin idxs => rs[i] = reducers[i]
  <2> HIDE DEF idxs
  <2>1. rs = [i \in DOMAIN reducers |-> rs[i]]
    OBVIOUS
  <2>2. ASSUME NEW i \in DOMAIN reducers
        PROVE  /\ rs[i] = [cursor |-> rs[i].cursor, multiplier |-> rs[i].multiplier,
                           coeff |-> rs[i].coeff]
               /\ rs[i].multiplier = reducers[i].multiplier /\ rs[i].coeff = reducers[i].coeff
               /\ i \in idxs => rs[i].cursor = DropLeading(reducers[i].cursor)
               /\ i \notin idxs => rs[i] = reducers[i]
    <3> DEFINE r == reducers[i]
               new == DropLeading(r.cursor)
    <3>1. r = [cursor |-> r.cursor, multiplier |-> r.multiplier, coeff |-> r.coeff]
      BY DEF HeapInv, GoodSlab
    <3>2. rs[i] = IF i \in idxs THEN [r EXCEPT !.cursor = new] ELSE r
      OBVIOUS
    <3> HIDE DEF rs, r, new
    <3>3. [r EXCEPT !.cursor = new]
            = [cursor |-> new, multiplier |-> r.multiplier, coeff |-> r.coeff]
      BY <3>1
    <3>4. CASE i \in idxs
      BY <3>2, <3>3, <3>4 DEF r, new
    <3>5. CASE i \notin idxs
      BY <3>1, <3>2, <3>5 DEF r, new
    <3> QED
      BY <3>4, <3>5
  <2> QED
    BY <2>1, <2>2
<1> HIDE DEF rs, idxs
<1>10. GoodSlab(rs) /\ DOMAIN rs = DOMAIN reducers
  <2>1. DOMAIN reducers = 1 .. Len(reducers) /\ Len(reducers) \in Nat
    BY AppendFacts DEF HeapInv, GoodSlab
  <2>2. (\E S : rs \in Seq(S)) /\ DOMAIN rs = DOMAIN reducers
    BY <1>9, <2>1, FunctionIsSeq
  <2>3. ASSUME NEW i \in DOMAIN reducers
        PROVE  IsPolynomial(rs[i].cursor) /\ rs[i].multiplier \in Monomial
    <3>1. IsPolynomial(reducers[i].cursor) /\ reducers[i].multiplier \in Monomial
      BY DEF HeapInv, GoodSlab
    <3> QED
      BY <1>9, <3>1, DropIsPolynomial
  <2> QED
    BY <1>9, <2>2, <2>3 DEF GoodSlab
<1>11. Below(rs, top)
  <2>1. ASSUME NEW i \in DOMAIN rs, rs[i].cursor # Zero PROVE Less(Key(rs, i), top)
    <3>1. CASE i \in idxs
      <4> DEFINE p == reducers[i].cursor
                 m == reducers[i].multiplier
      <4>1. i \in live /\ Key(reducers, i) = top
        BY <1>8, <3>1
      <4>2. IsPolynomial(p) /\ p # Zero /\ m \in Monomial
        BY <1>2, <4>1 DEF live
      <4>3. rs[i].cursor = DropLeading(p) /\ rs[i].multiplier = m
        BY <1>9, <1>10, <3>1
      <4>4. Key(reducers, i) = Mul(m, LM(p)) /\ Key(rs, i) = Mul(m, LM(DropLeading(p)))
        BY <4>3 DEF Key
      <4> HIDE DEF p, m
      <4>5. Less(Mul(m, LM(DropLeading(p))), Mul(m, LM(p)))
        BY <2>1, <4>2, <4>3, KeyFacts
      <4> QED
        BY <4>1, <4>4, <4>5
    <3>2. CASE i \notin idxs
      <4>1. rs[i] = reducers[i] /\ i \in live
        BY <1>9, <1>10, <2>1, <3>2 DEF live
      <4>2. Key(rs, i) = Key(reducers, i) /\ Key(reducers, i) # top
        BY <1>8, <3>2, <4>1 DEF Key
      <4>3. PICK n \in heap : n.reducer_idx = i /\ n.key = Key(reducers, i)
        BY <1>2, <4>1
      <4> QED
        BY <1>4, <1>7, <4>2, <4>3
    <3> QED
      BY <3>1, <3>2
  <2> QED
    BY <2>1 DEF Below
<1>12. heap' = NodesOf(rs, DOMAIN rs)
  <2>1. heap = NodesOf(reducers, DOMAIN reducers)
    BY DEF HeapInv
  <2>2. ASSUME NEW n, n \in heap \ chain PROVE n \in NodesOf(rs, DOMAIN rs)
    <3>1. PICK i \in DOMAIN reducers : /\ reducers[i].cursor # Zero
                                       /\ n = [key |-> Key(reducers, i), reducer_idx |-> i]
      BY <2>1, <2>2 DEF NodesOf
    <3>2. i \notin idxs
      BY <1>8, <2>2, <3>1
    <3>3. rs[i] = reducers[i] /\ Key(rs, i) = Key(reducers, i)
      BY <1>9, <3>2 DEF Key
    <3> QED
      BY <1>10, <3>1, <3>3 DEF NodesOf
  <2>3. ASSUME NEW n, n \in NodesOf(rs, idxs) PROVE n \in NodesOf(rs, DOMAIN rs)
    <3>1. idxs \subseteq DOMAIN rs
      BY <1>8, <1>10 DEF live
    <3> QED
      BY <2>3, <3>1 DEF NodesOf
  <2>4. ASSUME NEW n, n \in NodesOf(rs, DOMAIN rs)
        PROVE  n \in (heap \ chain) \cup NodesOf(rs, idxs)
    <3>1. PICK i \in DOMAIN rs : /\ rs[i].cursor # Zero
                                 /\ n = [key |-> Key(rs, i), reducer_idx |-> i]
      BY <2>4 DEF NodesOf
    <3>2. CASE i \in idxs
      BY <3>1, <3>2 DEF NodesOf
    <3>3. CASE i \notin idxs
      <4>1. rs[i] = reducers[i] /\ Key(rs, i) = Key(reducers, i)
        BY <1>9, <1>10, <3>3 DEF Key
      <4>2. n \in heap
        BY <1>10, <2>1, <3>1, <4>1 DEF NodesOf
      <4>3. n \notin chain
        BY <1>8, <3>1, <3>3, <4>2
      <4> QED
        BY <4>2, <4>3
    <3> QED
      BY <3>2, <3>3
  <2>5. heap' = (heap \ chain) \cup NodesOf(rs, idxs)
    BY <1>1
  <2> QED
    BY <2>2, <2>3, <2>4, <2>5
<1>13. ASSUME NEW k \in DOMAIN survivor
       PROVE  Less(top, survivor[k].m) /\ Below(rs, survivor[k].m)
  <2>1. survivor[k].m \in Monomial /\ Below(reducers, survivor[k].m)
    BY DEF HeapInv
  <2>2. max.reducer_idx \in live /\ max.key = Key(reducers, max.reducer_idx)
    BY <1>2
  <2>3. Less(top, survivor[k].m)
    BY <1>7, <2>1, <2>2 DEF Below, live
  <2> QED
    BY <1>7, <1>10, <1>11, <2>1, <2>3, BelowTransitive
<1>14. /\ reducers' = rs /\ (leader' = Nothing \/ leader'.m = top)
       /\ basis' = basis /\ survivor' = survivor
  BY <1>1
<1>15. /\ GoodBasis(basis) /\ \E S : survivor \in Seq(S)
       /\ \A k \in DOMAIN survivor :
            /\ survivor[k].m \in Monomial
            /\ \A l \in 1 .. k - 1 : Less(survivor[k].m, survivor[l].m)
  BY DEF HeapInv
<1>16. heap' = NodesOf(reducers', DOMAIN reducers') /\ GoodSlab(reducers')
  BY <1>10, <1>12, <1>14
<1>17. leader' # Nothing => /\ leader'.m \in Monomial /\ Below(reducers', leader'.m)
                            /\ \A k \in DOMAIN survivor : Less(leader'.m, survivor[k].m)
  BY <1>7, <1>11, <1>13, <1>14
<1>18. \A k \in DOMAIN survivor : Below(reducers', survivor[k].m)
  BY <1>13, <1>14
<1>19. HeapInv'
  BY <1>14, <1>15, <1>16, <1>17, <1>18 DEF HeapInv
<1>20. Popped(idxs, top)
  <2>1. \A i \in idxs : reducers[i].cursor # Zero /\ Key(reducers, i) = top
    BY <1>8 DEF live
  <2>2. idxs \subseteq DOMAIN reducers
    BY <1>8 DEF live
  <2> QED
    BY <1>1, <1>7, <1>9, <1>10, <1>11, <2>1, <2>2 DEF Popped
<1> QED
  BY <1>19, <1>20

(* A divisor comes in behind the leader that it cancels.                   *)
LEMMA ReduceKeeps ==
  ASSUME HeapInv, Heap!Reduce
  PROVE  HeapInv'
<1> DEFINE i == FirstDivisor(basis.polys, basis.redundant, leader.m)
           g == basis.polys[i]
           m == Div(leader.m, LM(g))
           new == [cursor |-> DropLeading(g), multiplier |-> m, coeff |-> P - leader.c]
           rs == Append(reducers, new)
           n == Len(reducers)
<1>1. /\ leader # Nothing /\ Divisors(basis.polys, basis.redundant, leader.m) # {}
      /\ reducers' = rs /\ heap' = heap \cup NodesOf(reducers', {Len(reducers')})
      /\ leader' = Nothing /\ basis' = basis /\ survivor' = survivor
  BY HeapAlgebra, HeapNodes DEF Heap!Reduce, Heap!Found, Heap!Reducer
<1>2. /\ n \in Nat /\ DOMAIN reducers = 1 .. n /\ DOMAIN rs = 1 .. n + 1
      /\ Len(rs) = n + 1 /\ \E R : rs \in Seq(R)
      /\ \A k \in 1 .. n : rs[k] = reducers[k]
      /\ rs[n + 1] = new
  <2>1. PICK S : reducers \in Seq(S)
    BY DEF HeapInv, GoodSlab
  <2> HIDE DEF new
  <2>2. n \in Nat /\ DOMAIN reducers = 1 .. n /\ Len(rs) = n + 1
    BY <2>1, AppendFacts
  <2>3. \E R : rs \in Seq(R)
    BY <2>1, AppendFacts
  <2>4. DOMAIN rs = 1 .. n + 1 /\ \A k \in 1 .. n : rs[k] = reducers[k]
    BY <2>1, AppendFacts
  <2>5. rs[n + 1] = new
    BY <2>1, AppendFacts
  <2> QED
    BY <2>2, <2>3, <2>4, <2>5
<1>3. /\ leader.m \in Monomial /\ Below(reducers, leader.m)
      /\ GoodBasis(basis) /\ GoodSlab(reducers)
  BY <1>1 DEF HeapInv
<1>4. i \in DOMAIN basis.polys /\ Divides(LM(g), leader.m)
  <2>1. DOMAIN basis.polys \subseteq Nat
    BY <1>3 DEF GoodBasis
  <2> QED
    BY <1>1, <2>1, FirstDivisorFacts
<1> HIDE DEF i
<1>5. IsPolynomial(g) /\ g # Zero /\ LM(g) \in Monomial
  BY <1>3, <1>4, OperandFacts DEF GoodBasis
<1> HIDE DEF g
<1>6. m \in Monomial /\ Mul(m, LM(g)) = leader.m
  BY <1>3, <1>4, <1>5, DivFacts, MulDiv
<1> HIDE DEF m
<1>7. /\ IsPolynomial(DropLeading(g))
      /\ DropLeading(g) # Zero => Less(Mul(m, LM(DropLeading(g))), leader.m)
  BY <1>5, <1>6, KeyFacts
<1>8. /\ new.cursor = DropLeading(g) /\ new.multiplier = m
      /\ new = [cursor |-> new.cursor, multiplier |-> new.multiplier, coeff |-> new.coeff]
  OBVIOUS
<1> HIDE DEF new, rs, n
<1>9. GoodSlab(rs)
  <2>1. \A k \in 1 .. n + 1 : k \in 1 .. n \/ k = n + 1
    BY <1>2
  <2>2. \A k \in DOMAIN rs : /\ IsPolynomial(rs[k].cursor) /\ rs[k].multiplier \in Monomial
                             /\ rs[k] = [cursor |-> rs[k].cursor,
                                         multiplier |-> rs[k].multiplier,
                                         coeff |-> rs[k].coeff]
    BY <1>2, <1>3, <1>6, <1>7, <1>8, <2>1 DEF GoodSlab
  <2> QED
    BY <1>2, <2>2 DEF GoodSlab
<1>10. Below(rs, leader.m)
  <2>1. \A k \in 1 .. n + 1 : k \in 1 .. n \/ k = n + 1
    BY <1>2
  <2>2. \A k \in 1 .. n : Key(rs, k) = Key(reducers, k)
    BY <1>2 DEF Key
  <2>3. Key(rs, n + 1) = Mul(m, LM(DropLeading(g)))
    BY <1>2, <1>8 DEF Key
  <2>4. ASSUME NEW k \in DOMAIN rs, rs[k].cursor # Zero PROVE Less(Key(rs, k), leader.m)
    <3>1. CASE k \in 1 .. n
      BY <1>2, <1>3, <2>2, <2>4, <3>1 DEF Below
    <3>2. CASE k = n + 1
      BY <1>2, <1>7, <1>8, <2>3, <2>4, <3>2
    <3> QED
      BY <1>2, <2>1, <3>1, <3>2
  <2> QED
    BY <2>4 DEF Below
<1>11. heap' = NodesOf(rs, DOMAIN rs)
  <2>1. heap = NodesOf(reducers, 1 .. n)
    BY <1>2 DEF HeapInv
  <2>2. heap' = heap \cup NodesOf(rs, {n + 1})
    BY <1>1, <1>2
  <2>3. NodesOf(reducers, 1 .. n) = NodesOf(rs, 1 .. n)
    BY <1>2 DEF NodesOf, Key
  <2>4. 1 .. n + 1 = (1 .. n) \cup {n + 1}
    BY <1>2
  <2>5. NodesOf(rs, (1 .. n) \cup {n + 1}) = NodesOf(rs, 1 .. n) \cup NodesOf(rs, {n + 1})
    BY DEF NodesOf
  <2> QED
    BY <1>2, <2>1, <2>2, <2>3, <2>4, <2>5
<1>12. ASSUME NEW k \in DOMAIN survivor PROVE Below(rs, survivor[k].m)
  <2>1. survivor[k].m \in Monomial /\ Less(leader.m, survivor[k].m)
    BY <1>1 DEF HeapInv
  <2> QED
    BY <1>3, <1>9, <1>10, <2>1, BelowTransitive
<1> QED
  BY <1>1, <1>9, <1>11, <1>12 DEF HeapInv

(* An irreducible leader is the smallest of the terms that have come out.  *)
LEMMA EmitKeeps ==
  ASSUME HeapInv, Heap!Emit
  PROVE  HeapInv'
<1> DEFINE new == Append(survivor, leader)
           n == Len(survivor)
<1>1. /\ leader # Nothing /\ survivor' = new /\ leader' = Nothing
      /\ UNCHANGED <<basis, reducers, heap>>
  BY DEF Heap!Emit
<1>2. /\ n \in Nat /\ DOMAIN survivor = 1 .. n /\ DOMAIN new = 1 .. n + 1
      /\ \E R : new \in Seq(R)
      /\ \A k \in 1 .. n : new[k] = survivor[k]
      /\ new[n + 1] = leader
  <2>1. PICK S : survivor \in Seq(S)
    BY DEF HeapInv
  <2>2. n \in Nat /\ DOMAIN survivor = 1 .. n
    BY <2>1, AppendFacts
  <2>3. \E R : new \in Seq(R)
    BY <2>1, AppendFacts
  <2>4. DOMAIN new = 1 .. n + 1 /\ \A k \in 1 .. n : new[k] = survivor[k]
    BY <2>1, AppendFacts
  <2>5. new[n + 1] = leader
    BY <2>1, AppendFacts
  <2> QED
    BY <2>2, <2>3, <2>4, <2>5
<1>3. leader.m \in Monomial /\ Below(reducers, leader.m)
  BY <1>1 DEF HeapInv
<1>4. \A k \in 1 .. n : /\ survivor[k].m \in Monomial /\ Below(reducers, survivor[k].m)
                        /\ Less(leader.m, survivor[k].m)
                        /\ \A l \in 1 .. k - 1 : Less(survivor[k].m, survivor[l].m)
  BY <1>1, <1>2 DEF HeapInv
<1> HIDE DEF new, n
<1>5. ASSUME NEW k \in DOMAIN new
      PROVE  /\ new[k].m \in Monomial /\ Below(reducers, new[k].m)
             /\ \A l \in 1 .. k - 1 : Less(new[k].m, new[l].m)
  <2>1. CASE k \in 1 .. n
    <3>1. \A l \in 1 .. k - 1 : l \in 1 .. n
      BY <1>2, <2>1
    <3> QED
      BY <1>2, <1>4, <2>1, <3>1
  <2>2. CASE k = n + 1
    <3>1. \A l \in 1 .. k - 1 : l \in 1 .. n
      BY <1>2, <2>2
    <3> QED
      BY <1>2, <1>3, <1>4, <2>2, <3>1
  <2>3. k \in 1 .. n \/ k = n + 1
    BY <1>2
  <2> QED
    BY <2>1, <2>2, <2>3
<1> QED
  BY <1>1, <1>2, <1>5 DEF HeapInv

CallInv == use = "heap" => HeapInv

LEMMA SpecCallInv == ReducersSpec => []CallInv
<1>1. ReducersInit => CallInv
  BY HeapInitKeeps DEF ReducersInit, CallInv
<1>2. ASSUME CallInv, [ReducersNext]_reducersVars
      PROVE  CallInv'
  <2>1. ASSUME HeapInv, UNCHANGED <<basis, reducers, heap, leader, survivor>> PROVE HeapInv'
    BY <2>1 DEF HeapInv
  <2>2. ASSUME HeapInv, Heap!Next PROVE HeapInv'
    <3>1. ASSUME Heap!Return \/ Heap!Returned PROVE HeapInv'
      BY <2>1, <2>2, <3>1 DEF Heap!Return, Heap!Returned, Heap!vars
    <3> QED
      BY <2>2, <3>1, PopKeeps, ReduceKeeps, EmitKeeps DEF Heap!Next
  <2> QED
    BY <1>2, <2>1, <2>2 DEF CallInv, ReducersNext, HeapTurn, GeobucketTurn, BucketTurn,
      reducersVars, heapOnly
<1> QED
  BY <1>1, <1>2, PTL DEF ReducersSpec

(* For every basis and every working polynomial, the heap holds one node   *)
(* for each reducer that is not exhausted, that of its current term, and   *)
(* the leaders come out in strictly descending order, each once, although  *)
(* every divisor adds a reducer (reducer.rs:104-107, 349-413).             *)
THEOREM LeadersDescend == ReducersSpec => []HeapSound
<1>1. CallInv => HeapSound
  BY HeapInvIsSound DEF CallInv, HeapSound
<1> QED
  BY <1>1, SpecCallInv, PTL

-----------------------------------------------------------------------------
(* The heap reducer implements the exact reduction.                        *)

IsTerm(a) == a.m \in Monomial /\ a.c \in 1 .. P - 1 /\ a = [c |-> a.c, m |-> a.m]

(* The coefficients of the slab, the leader and the result.                *)
TermsInv ==
  /\ \A i \in DOMAIN reducers : reducers[i].coeff \in Nat
  /\ leader # Nothing => IsTerm(leader)
  /\ \A k \in DOMAIN survivor : IsTerm(survivor[k])

(* The invariant of the heap with what the refinement needs to count.      *)
RestInv == HeapInv /\ TermsInv

(* The coefficients of t in the multiples of the slab, and what they sum   *)
(* up to with that of the leader.                                          *)
Part(i, t) == reducers[i].coeff * Multiple(reducers[i].multiplier, reducers[i].cursor, t)

PartAt(t) == [i \in DOMAIN reducers |-> Part(i, t)]

LeadAt(t) == IF leader # Nothing /\ leader.m = t THEN leader.c ELSE 0

RestSum(t) == LeadAt(t) + Total(PartAt(t), DOMAIN reducers)

LEMMA PartFacts ==
  ASSUME RestInv
  PROVE  /\ IsFiniteSet(DOMAIN reducers)
         /\ \A t : \A i \in DOMAIN reducers : Part(i, t) \in Nat /\ PartAt(t)[i] \in Nat
         /\ \A t : Total(PartAt(t), DOMAIN reducers) \in Nat
         /\ \A t : LeadAt(t) \in Nat /\ RestSum(t) \in Nat
<1>0. 0 .. P - 1 \subseteq Nat /\ 1 .. P - 1 \subseteq Nat
  BY PAssumption
<1>1. IsFiniteSet(DOMAIN reducers)
  <2>1. DOMAIN reducers = 1 .. Len(reducers) /\ Len(reducers) \in Nat
    BY AppendFacts DEF RestInv, HeapInv, GoodSlab
  <2> QED
    BY <2>1, FS_Interval
<1>2. ASSUME NEW t, NEW i \in DOMAIN reducers
      PROVE  Part(i, t) \in Nat /\ PartAt(t)[i] \in Nat
  <2> DEFINE c == reducers[i].coeff
             x == Multiple(reducers[i].multiplier, reducers[i].cursor, t)
  <2>1. c \in Nat /\ x \in Nat
    BY <1>0, MultipleFacts DEF RestInv, TermsInv, HeapInv, GoodSlab
  <2>2. Part(i, t) = c * x
    BY DEF Part
  <2> HIDE DEF c, x
  <2>3. Part(i, t) \in Nat
    BY <2>1, <2>2
  <2> QED
    BY <2>3 DEF PartAt
<1>3. \A t : Total(PartAt(t), DOMAIN reducers) \in Nat
  BY <1>1, <1>2, TotalType
<1>4. \A t : LeadAt(t) \in Nat
  BY <1>0 DEF LeadAt, RestInv, TermsInv, IsTerm
<1> QED
  BY <1>1, <1>2, <1>3, <1>4 DEF RestSum

(* Where everything in the heap is below x, no multiple has a term at x or *)
(* above.                                                                  *)
LEMMA BelowFacts ==
  ASSUME RestInv, NEW x \in Monomial, Below(reducers, x)
  PROVE  /\ \A i \in DOMAIN reducers : Part(i, x) = 0
         /\ Total(PartAt(x), DOMAIN reducers) = 0
         /\ \A t : Total(PartAt(t), DOMAIN reducers) # 0 => Less(t, x)
<1>1. ASSUME NEW t, NEW i \in DOMAIN reducers, Part(i, t) # 0 PROVE Less(t, x) /\ t \in Monomial
  <2> DEFINE r == reducers[i]
             y == Multiple(r.multiplier, r.cursor, t)
  <2>1. IsPolynomial(r.cursor) /\ r.multiplier \in Monomial /\ r.coeff \in Nat
    BY DEF RestInv, TermsInv, HeapInv, GoodSlab
  <2>2. y # 0
    <3>1. Part(i, t) = r.coeff * y
      BY DEF Part
    <3> HIDE DEF y, r
    <3>2. r.coeff * 0 = 0
      BY <2>1
    <3> QED
      BY <1>1, <3>1, <3>2
  <2>3. /\ r.cursor # Zero /\ t \in Monomial
        /\ t = Mul(r.multiplier, LM(r.cursor)) \/ Less(t, Mul(r.multiplier, LM(r.cursor)))
    <3> HIDE DEF r
    <3> QED
      BY <2>1, <2>2, MultipleBelow
  <2>4. Less(Mul(r.multiplier, LM(r.cursor)), x)
    BY <2>3 DEF Below, Key
  <2>5. Mul(r.multiplier, LM(r.cursor)) \in Monomial
    <3> HIDE DEF r
    <3> QED
      BY <2>1, <2>3, KeyFacts
  <2> QED
    BY <2>3, <2>4, <2>5, LessTransitive
<1>2. ASSUME NEW t, \A i \in DOMAIN reducers : Part(i, t) = 0
      PROVE  Total(PartAt(t), DOMAIN reducers) = 0
  <2>1. \A i \in DOMAIN reducers : PartAt(t)[i] = 0 /\ PartAt(t)[i] \in Nat
    BY <1>2 DEF PartAt
  <2>2. Total(PartAt(t), DOMAIN reducers) = Total(PartAt(t), {})
    BY <2>1, PartFacts, TotalExtra
  <2> QED
    BY <2>2, TotalEmpty
<1>3. \A i \in DOMAIN reducers : Part(i, x) = 0
  BY <1>1, LessIrreflexive
<1> QED
  BY <1>1, <1>2, <1>3

(* The monomials of the slab and the leader.                               *)
Used ==
  (IF leader = Nothing THEN {} ELSE {leader.m})
  \cup UNION {{Mul(reducers[i].multiplier, u) : u \in Support(reducers[i].cursor)}
                 : i \in DOMAIN reducers}

LEMMA UsedFacts ==
  ASSUME RestInv
  PROVE  /\ IsFiniteSet(Used) /\ Used \subseteq Monomial
         /\ \A t : t \notin Used => LeadAt(t) = 0 /\ \A i \in DOMAIN reducers : Part(i, t) = 0
<1> DEFINE shifted(i) == {Mul(reducers[i].multiplier, u) : u \in Support(reducers[i].cursor)}
           F == {shifted(i) : i \in DOMAIN reducers}
           L == IF leader = Nothing THEN {} ELSE {leader.m}
<1>1. ASSUME NEW i \in DOMAIN reducers PROVE IsFiniteSet(shifted(i)) /\ shifted(i) \subseteq Monomial
  <2> DEFINE m == reducers[i].multiplier
             D == Support(reducers[i].cursor)
             S == {Mul(m, u) : u \in D}
             f == [u \in D |-> Mul(m, u)]
  <2>1. m \in Monomial /\ IsFiniteSet(D) /\ D \subseteq Monomial
    BY DEF RestInv, HeapInv, GoodSlab, IsPolynomial, Support
  <2> HIDE DEF m, D
  <2>2. S \subseteq Monomial
    BY <2>1, DegMul
  <2>3. f \in Surjection(D, S)
    BY DEF Surjection
  <2> HIDE DEF f, S
  <2>4. IsFiniteSet(S)
    BY <2>1, <2>3, FS_Surjection
  <2> QED
    BY <2>2, <2>4 DEF S, m, D
<1>2. IsFiniteSet(F)
  <2> DEFINE g == [i \in DOMAIN reducers |-> shifted(i)]
  <2>1. g \in Surjection(DOMAIN reducers, F)
    BY DEF Surjection
  <2> HIDE DEF F, g
  <2> QED
    BY <2>1, PartFacts, FS_Surjection
<1>3. IsFiniteSet(UNION F)
  <2>1. \A X \in F : IsFiniteSet(X)
    BY <1>1
  <2> HIDE DEF F
  <2> QED
    BY <1>2, <2>1, FS_UNION
<1>4. UNION F \subseteq Monomial
  BY <1>1
<1>5. IsFiniteSet(L) /\ L \subseteq Monomial
  BY FS_EmptySet, FS_Singleton DEF RestInv, HeapInv
<1>6. Used = L \cup UNION F
  BY DEF Used
<1>7. \A t : t \notin Used => LeadAt(t) = 0 /\ \A i \in DOMAIN reducers : t \notin shifted(i)
  <2>1. ASSUME NEW t, t \notin Used, NEW i \in DOMAIN reducers PROVE t \notin shifted(i)
    BY <1>6, <2>1
  <2>2. ASSUME NEW t, t \notin Used PROVE LeadAt(t) = 0
    BY <1>6, <2>2 DEF LeadAt
  <2> QED
    BY <2>1, <2>2
<1>8. ASSUME NEW t, NEW i \in DOMAIN reducers, t \notin shifted(i) PROVE Part(i, t) = 0
  BY <1>8 DEF Part, Multiple, RestInv, TermsInv
<1> HIDE DEF F, L, shifted
<1>9. IsFiniteSet(Used)
  BY <1>3, <1>5, <1>6, FS_Union
<1>10. Used \subseteq Monomial
  BY <1>4, <1>5, <1>6
<1>11. \A t : t \notin Used => LeadAt(t) = 0 /\ \A i \in DOMAIN reducers : Part(i, t) = 0
  BY <1>7, <1>8
<1> QED
  BY <1>9, <1>10, <1>11

(* The instance's copies, and those of its instance.                       *)
LEMMA HeapValue ==
  /\ \A p : Heap!Support(p) = Support(p)
  /\ \A p, t : Heap!Coef(p, t) = Coef(p, t)
  /\ \A p, t : Heap!LC(p) = LC(p)
  /\ \A terms : Heap!Poly(terms) = Poly(terms)
<1>1. \A a : Heap!Deg(a) = Deg(a)
  BY DEF Heap!Deg, Deg
<1>2. /\ \A a, b : Heap!Less(a, b) <=> Less(a, b)
      /\ Heap!One = One
  BY HeapAlgebra
<1>3. /\ \A p : Heap!Support(p) = Support(p) /\ Heap!LC(p) = LC(p)
      /\ \A p, t : Heap!Coef(p, t) = Coef(p, t)
  BY DEF Heap!Support, Support, Heap!Coef, Coef, Heap!LC, LC
<1>4. \A terms : Heap!Poly(terms) = Poly(terms)
  BY <1>2 DEF Heap!Poly, Poly, Heap!Maxima, Maxima
<1> QED
  BY <1>3, <1>4

LEMMA RestIs ==
  ASSUME RestInv
  PROVE  Heap!Rest = Poly([t \in {u \in Used : (RestSum(u) % P) # 0} |-> RestSum(t) % P])
<1> DEFINE shifted(i) == {Heap!Mul(reducers[i].multiplier, u) : u \in Heap!Support(reducers[i].cursor)}
           of(i, t) == IF t \in shifted(i)
                       THEN reducers[i].coeff
                              * Heap!Coef(reducers[i].cursor, Heap!Div(t, reducers[i].multiplier))
                       ELSE 0
           lead0(t) == IF leader # Nothing /\ leader.m = t THEN leader.c ELSE 0
           coef(t) == (lead0(t) + Heap!MapThenSumSet(LAMBDA i : of(i, t), DOMAIN reducers)) % P
           used == (IF leader = Nothing THEN {} ELSE {leader.m})
                     \cup UNION {shifted(i) : i \in DOMAIN reducers}
<1>1. Heap!Rest = Heap!Poly([t \in {u \in used : coef(u) # 0} |-> coef(t)])
  BY DEF Heap!Rest
<1>2. used = Used
  <2>1. \A i : shifted(i) = {Mul(reducers[i].multiplier, u) : u \in Support(reducers[i].cursor)}
    BY HeapAlgebra, HeapValue
  <2> DEFINE plain(i) == {Mul(reducers[i].multiplier, u) : u \in Support(reducers[i].cursor)}
             A == {shifted(i) : i \in DOMAIN reducers}
             B == {plain(i) : i \in DOMAIN reducers}
  <2>2. \A i : shifted(i) = plain(i)
    BY <2>1
  <2>3. used = (IF leader = Nothing THEN {} ELSE {leader.m}) \cup UNION A
    OBVIOUS
  <2>4. Used = (IF leader = Nothing THEN {} ELSE {leader.m}) \cup UNION B
    BY DEF Used
  <2> HIDE DEF shifted, plain
  <2>5. A = B
    BY <2>2
  <2> HIDE DEF A, B, used
  <2> QED
    BY <2>3, <2>4, <2>5
<1>3. ASSUME NEW t, NEW i \in DOMAIN reducers PROVE of(i, t) = Part(i, t)
  <2> DEFINE m == reducers[i].multiplier
             p == reducers[i].cursor
             c == reducers[i].coeff
  <2>1. m \in Monomial /\ IsPolynomial(p) /\ c \in Nat
    BY DEF RestInv, TermsInv, HeapInv, GoodSlab
  <2>2. of(i, t) = IF t \in {Mul(m, u) : u \in Support(p)} THEN c * Coef(p, Div(t, m)) ELSE 0
    BY HeapAlgebra, HeapValue
  <2>3. Part(i, t) = c * Multiple(m, p, t)
    BY DEF Part
  <2> HIDE DEF m, p, c, of
  <2>4. CASE t \in {Mul(m, u) : u \in Support(p)}
    <3>1. PICK u \in Support(p) : t = Mul(m, u)
      BY <2>4
    <3>2. Div(t, m) \in Support(p)
      BY <2>1, <3>1, DivMul DEF IsPolynomial, Support
    <3> QED
      BY <2>2, <2>3, <2>4, <3>2 DEF Multiple, Coef
  <2>5. CASE t \notin {Mul(m, u) : u \in Support(p)}
    BY <2>1, <2>2, <2>3, <2>5 DEF Multiple
  <2> QED
    BY <2>4, <2>5
<1>4. ASSUME NEW t
      PROVE  Heap!MapThenSumSet(LAMBDA i : of(i, t), DOMAIN reducers)
             = Total(PartAt(t), DOMAIN reducers)
  <2> HIDE DEF of
  <2> DEFINE S == DOMAIN reducers
             body(iter, s) == IF s = {} THEN 0 ELSE PartAt(t)[Pick(s)] + iter[s \ {Pick(s)}]
             full(iter, s) == IF s = {} THEN 0 ELSE of(Pick(s), t) + iter[s \ {Pick(s)}]
  <2>1. \A iter : \A s \in SUBSET S : body(iter, s) = full(iter, s)
    <3>1. \A s \in SUBSET S : s # {} => Pick(s) \in S
      BY DEF Pick
    <3>2. \A i \in S : PartAt(t)[i] = of(i, t)
      BY <1>3 DEF PartAt
    <3> QED
      BY <3>1, <3>2
  <2> DEFINE Bodies(iter) == [s \in SUBSET S |-> body(iter, s)]
             Fulls(iter) == [s \in SUBSET S |-> full(iter, s)]
  <2>2. \A iter : Bodies(iter) = Fulls(iter)
    <3> HIDE DEF body, full
    <3> QED
      BY <2>1
  <2>3. SumsOver(PartAt(t), S) = CHOOSE iter : iter = Bodies(iter)
    BY DEF SumsOver
  <2>4. Heap!MapThenSumSet(LAMBDA i : of(i, t), S) = (CHOOSE iter : iter = Fulls(iter))[S]
    BY DEF Heap!MapThenSumSet, Heap!MapThenFoldSet, Pick
  <2> HIDE DEF Bodies, Fulls
  <2> QED
    BY <2>2, <2>3, <2>4, Zenon DEF Total
<1>5. \A t : coef(t) = (RestSum(t) % P)
  BY <1>4 DEF RestSum, LeadAt
<1> HIDE DEF coef, used
<1>6. {u \in used : coef(u) # 0} = {u \in Used : (RestSum(u) % P) # 0}
  BY <1>2, <1>5
<1>7. [t \in {u \in used : coef(u) # 0} |-> coef(t)]
        = [t \in {u \in Used : (RestSum(u) % P) # 0} |-> RestSum(t) % P]
  BY <1>5, <1>6
<1> QED
  BY <1>1, <1>7, HeapValue

LEMMA RestFacts ==
  ASSUME RestInv
  PROVE  IsPolynomial(Heap!Rest) /\ \A t : Coef(Heap!Rest, t) = (RestSum(t) % P)
<1> DEFINE D == Used
           f == [t \in D |-> RestSum(t) % P]
<1>1. Heap!Rest = Poly([t \in {u \in D : f[u] # 0} |-> f[t]])
  <2>1. Heap!Rest = Poly([t \in {u \in D : (RestSum(u) % P) # 0} |-> RestSum(t) % P])
    BY RestIs
  <2>2. \A t \in D : f[t] = (RestSum(t) % P)
    OBVIOUS
  <2> HIDE DEF D, f
  <2>3. {u \in D : (RestSum(u) % P) # 0} = {u \in D : f[u] # 0}
    BY <2>2
  <2>4. [t \in {u \in D : (RestSum(u) % P) # 0} |-> RestSum(t) % P]
          = [t \in {u \in D : f[u] # 0} |-> f[t]]
    BY <2>2, <2>3
  <2> QED
    BY <2>1, <2>4
<1>2. IsFiniteSet(D) /\ D \subseteq Monomial
  BY UsedFacts
<1>3. \A t : (RestSum(t) % P) \in 0 .. P - 1
  BY PartFacts, PAssumption
<1>4. \A t : t \notin D => (RestSum(t) % P) = 0
  <2>1. ASSUME NEW t, t \notin D PROVE (RestSum(t) % P) = 0
    <3>1. LeadAt(t) = 0 /\ \A i \in DOMAIN reducers : PartAt(t)[i] = 0
      BY <2>1, UsedFacts DEF PartAt
    <3>2. Total(PartAt(t), DOMAIN reducers) = Total(PartAt(t), {})
      BY <3>1, PartFacts, TotalExtra
    <3>3. RestSum(t) = 0
      BY <3>1, <3>2, TotalEmpty DEF RestSum
    <3>4. 0 \in 0 .. P - 1
      BY PAssumption
    <3> QED
      BY <3>3, <3>4, ModSmall
  <2> QED
    BY <2>1
<1>5. \A t \in D : f[t] = (RestSum(t) % P)
  OBVIOUS
<1>6. \A t \in D : f[t] \in 0 .. P - 1
  BY <1>3, <1>5
<1> HIDE DEF f, D
<1>7. /\ IsPolynomial(Poly([t \in {u \in D : f[u] # 0} |-> f[t]]))
      /\ \A t : Coef(Poly([u \in {w \in D : f[w] # 0} |-> f[u]]), t) = IF t \in D THEN f[t] ELSE 0
  BY <1>2, <1>6, PolyOf
<1>8. IsPolynomial(Heap!Rest) /\ \A t : Coef(Heap!Rest, t) = IF t \in D THEN f[t] ELSE 0
  BY <1>1, <1>7
<1> QED
  BY <1>4, <1>5, <1>8

LEMMA NextRestFacts ==
  RestInv' => IsPolynomial(Heap!Rest') /\ \A t : Coef(Heap!Rest', t) = (RestSum(t)' % P)
<1> DEFINE ok == IsPolynomial(Heap!Rest) /\ \A t : Coef(Heap!Rest, t) = (RestSum(t) % P)
<1>1. RestInv => ok
  BY RestFacts
<1>2. RestInv' => ok'
  BY <1>1, PTL
<1> QED
  BY <1>2

LEMMA NextPartFacts ==
  RestInv' => \A t : /\ Total(PartAt(t), DOMAIN reducers)' \in Nat
                     /\ LeadAt(t)' \in Nat
<1> DEFINE ok == \A t : Total(PartAt(t), DOMAIN reducers) \in Nat /\ LeadAt(t) \in Nat
<1>1. RestInv => ok
  BY PartFacts
<1>2. RestInv' => ok'
  BY <1>1, PTL
<1> QED
  BY <1>2

LEMMA NextBelowFacts ==
  RestInv' => \A x \in Monomial : Below(reducers', x) =>
    /\ \A i \in DOMAIN reducers' : Part(i, x)' = 0
    /\ Total(PartAt(x)', DOMAIN reducers') = 0
<1> DEFINE ok == \A x \in Monomial : Below(reducers, x) =>
                   /\ \A i \in DOMAIN reducers : Part(i, x) = 0
                   /\ Total(PartAt(x), DOMAIN reducers) = 0
<1>1. RestInv => ok
  BY BelowFacts
<1>2. RestInv' => ok'
  BY <1>1, PTL
<1> QED
  BY <1>2 DEF Below, Key

LEMMA SameRest ==
  ASSUME RestInv, RestInv', \A t \in Monomial : (RestSum(t)' % P) = (RestSum(t) % P)
  PROVE  Heap!Rest' = Heap!Rest
BY RestFacts, NextRestFacts, SamePolynomial

LEMMA TakenIs ==
  ASSUME RestInv, NEW top, NEW idxs, idxs \subseteq DOMAIN reducers,
         \A i \in idxs : reducers[i].cursor # Zero /\ Key(reducers, i) = top
  PROVE  Taken(idxs) = (Total(PartAt(top), idxs) % P) /\ Total(PartAt(top), idxs) \in Nat
<1> DEFINE v == PartAt(top)
           sum == Total(v, idxs)
           term(i) == reducers[i].coeff * Heap!LC(reducers[i].cursor)
<1>1. IsFiniteSet(idxs)
  BY PartFacts, FS_Subset
<1>2. ASSUME NEW i \in idxs PROVE v[i] = term(i) /\ v[i] \in Nat
  <2> DEFINE m == reducers[i].multiplier
             p == reducers[i].cursor
             c == reducers[i].coeff
  <2>1. /\ i \in DOMAIN reducers /\ m \in Monomial /\ IsPolynomial(p) /\ p # Zero
        /\ top = Mul(m, LM(p))
    BY DEF RestInv, HeapInv, GoodSlab, Key
  <2>2. v[i] = c * Multiple(m, p, top)
    BY <2>1 DEF PartAt, Part
  <2>3. term(i) = c * LC(p)
    BY HeapValue
  <2>4. v[i] \in Nat
    BY <2>1, PartFacts
  <2> HIDE DEF m, p, c, v, term
  <2>5. LM(p) \in Monomial /\ LM(p) \in Support(p)
    BY <2>1, LeadingIsLargest
  <2>6. Multiple(m, p, top) = Coef(p, LM(p))
    BY <2>1, <2>5, MultipleFacts
  <2>7. Coef(p, LM(p)) = LC(p)
    BY <2>5 DEF Coef, LC, LM
  <2> QED
    BY <2>2, <2>3, <2>4, <2>6, <2>7
<1>3. Taken(idxs) = (Heap!MapThenSumSet(LAMBDA i : term(i), idxs) % P)
  BY DEF Taken
<1> HIDE DEF v, term
<1>4. sum \in Nat
  BY <1>1, <1>2, TotalType
<1>5. Heap!MapThenSumSet(LAMBDA i : term(i), idxs) = sum
  <2> DEFINE body(iter, s) == IF s = {} THEN 0 ELSE v[Pick(s)] + iter[s \ {Pick(s)}]
             full(iter, s) == IF s = {} THEN 0 ELSE term(Pick(s)) + iter[s \ {Pick(s)}]
  <2>1. \A iter : \A s \in SUBSET idxs : body(iter, s) = full(iter, s)
    <3>1. \A s \in SUBSET idxs : s # {} => Pick(s) \in idxs
      BY DEF Pick
    <3> QED
      BY <1>2, <3>1
  <2> DEFINE Bodies(iter) == [s \in SUBSET idxs |-> body(iter, s)]
             Fulls(iter) == [s \in SUBSET idxs |-> full(iter, s)]
  <2>2. \A iter : Bodies(iter) = Fulls(iter)
    <3> HIDE DEF body, full
    <3> QED
      BY <2>1
  <2>3. SumsOver(v, idxs) = CHOOSE iter : iter = Bodies(iter)
    BY DEF SumsOver
  <2>4. Heap!MapThenSumSet(LAMBDA i : term(i), idxs) = (CHOOSE iter : iter = Fulls(iter))[idxs]
    BY DEF Heap!MapThenSumSet, Heap!MapThenFoldSet, Pick
  <2> HIDE DEF Bodies, Fulls
  <2> QED
    BY <2>2, <2>3, <2>4, Zenon DEF Total
<1> HIDE DEF sum
<1>6. Taken(idxs) = (sum % P) /\ sum \in Nat
  BY <1>3, <1>4, <1>5
<1> QED
  BY <1>6 DEF sum, v

(* The terms that a turn of the heap takes become the leader.              *)
LEMMA PopIsStutter ==
  ASSUME RestInv, HeapInv', NEW idxs, NEW top, Popped(idxs, top)
  PROVE  TermsInv' /\ Heap!Rest' = Heap!Rest
<1> DEFINE S == DOMAIN reducers
           taken == Total(PartAt(top), idxs)
<1>1. Taken(idxs) = (taken % P) /\ taken \in Nat
  BY TakenIs DEF Popped
<1> HIDE DEF taken
<1>2. (taken % P) \in 0 .. P - 1
  BY <1>1, PAssumption
<1>3. /\ leader = Nothing
      /\ leader' = IF (taken % P) = 0 THEN Nothing ELSE [c |-> taken % P, m |-> top]
      /\ top \in Monomial /\ Below(reducers', top) /\ idxs \subseteq S
      /\ DOMAIN reducers' = S /\ survivor' = survivor
  BY <1>1 DEF Popped
<1>4. TermsInv'
  <2>1. \A i \in S : reducers'[i].coeff \in Nat
    BY DEF Popped, RestInv, TermsInv
  <2>2. leader' # Nothing => leader'.m \in Monomial /\ leader'.c \in 1 .. P - 1
                             /\ leader' = [c |-> leader'.c, m |-> leader'.m]
    <3>1. (taken % P) # 0 => (taken % P) \in 1 .. P - 1
      BY <1>2, PAssumption
    <3> DEFINE x == taken % P
    <3> HIDE DEF x
    <3>2. leader' = IF x = 0 THEN Nothing ELSE [c |-> x, m |-> top]
      BY <1>3 DEF x
    <3>3. x # 0 => x \in 1 .. P - 1
      BY <3>1 DEF x
    <3> QED
      BY <1>3, <3>2, <3>3
  <2>3. \A k \in DOMAIN survivor : IsTerm(survivor[k])
    BY DEF RestInv, TermsInv
  <2> QED
    BY <1>3, <2>1, <2>2, <2>3 DEF TermsInv, IsTerm
<1>5. RestInv'
  BY <1>4 DEF RestInv
<1>6. \A t : LeadAt(t) = 0 /\ LeadAt(t)' = IF t = top THEN taken % P ELSE 0
  <2> DEFINE x == taken % P
  <2>1. x \in 0 .. P - 1
    BY <1>2
  <2>2. leader' = IF x = 0 THEN Nothing ELSE [c |-> x, m |-> top]
    BY <1>3
  <2> HIDE DEF x
  <2>3. x # 0 => leader' # Nothing
    <3>1. x # 0 => [c |-> x, m |-> top] \in [c : 1 .. P - 1, m : Monomial]
      BY <1>3, <2>1, PAssumption
    <3> QED
      BY <2>2, <3>1, LeaderAssumption
  <2>4. \A t : LeadAt(t)' = IF t = top THEN x ELSE 0
    BY <2>2, <2>3 DEF LeadAt
  <2> QED
    BY <1>3, <2>4 DEF LeadAt, x
<1>7. ASSUME NEW i \in S, NEW t
      PROVE  PartAt(t)'[i] = IF i \in idxs /\ t = top THEN 0 ELSE PartAt(t)[i]
  <2> DEFINE r == reducers[i]
  <2>0. /\ IsPolynomial(r.cursor) /\ r.multiplier \in Monomial /\ r.coeff \in Nat
    BY DEF RestInv, TermsInv, HeapInv, GoodSlab
  <2>1. /\ PartAt(t)[i] = r.coeff * Multiple(r.multiplier, r.cursor, t)
        /\ PartAt(t)'[i] = reducers'[i].coeff
                             * Multiple(reducers'[i].multiplier, reducers'[i].cursor, t)
    BY <1>3 DEF PartAt, Part
  <2>2. CASE i \notin idxs
    <3>1. reducers'[i] = r
      BY <2>2 DEF Popped
    <3> QED
      BY <2>1, <2>2, <3>1
  <2>3. CASE i \in idxs
    <3>1. /\ reducers'[i].coeff = r.coeff /\ reducers'[i].multiplier = r.multiplier
          /\ reducers'[i].cursor = DropLeading(r.cursor)
          /\ r.cursor # Zero /\ top = Mul(r.multiplier, LM(r.cursor))
      BY <2>3 DEF Popped, Key
    <3> HIDE DEF r
    <3>2. Multiple(r.multiplier, DropLeading(r.cursor), t)
            = IF t = top THEN 0 ELSE Multiple(r.multiplier, r.cursor, t)
      BY <2>0, <3>1, MultipleDrop
    <3>3. r.coeff * 0 = 0
      BY <2>0
    <3> QED
      BY <2>1, <2>3, <3>1, <3>2, <3>3
  <2> QED
    BY <2>2, <2>3
<1>8. ASSUME NEW t \in Monomial PROVE (RestSum(t)' % P) = (RestSum(t) % P)
  <2> DEFINE total == Total(PartAt(t), S)
             total1 == Total(PartAt(t)', S)
  <2>1. /\ RestSum(t) = LeadAt(t) + total /\ RestSum(t)' = LeadAt(t)' + total1
        /\ total \in Nat
    BY <1>3, PartFacts DEF RestSum
  <2>2. CASE t = top
    <3>1. total1 = 0 /\ \A i \in S : Part(i, top)' = 0
      BY <1>3, <1>5, <2>2, NextBelowFacts
    <3>2. \A i \in S : i \notin idxs => PartAt(t)[i] = 0
      BY <1>3, <1>7, <2>2, <3>1 DEF PartAt
    <3>3. total = taken
      BY <1>3, <2>2, <3>2, PartFacts, TotalExtra DEF taken
    <3> HIDE DEF total, total1
    <3>4. RestSum(t) = taken /\ RestSum(t)' = (taken % P)
      BY <1>2, <1>6, <2>1, <2>2, <3>1, <3>3
    <3>5. ((taken % P) % P) = (taken % P)
      BY <1>2, ModSmall
    <3> QED
      BY <3>4, <3>5
  <2>3. CASE t # top
    <3>1. \A i \in S : PartAt(t)[i] = PartAt(t)'[i]
      BY <1>7, <2>3
    <3>2. total = total1
      <4> DEFINE v == PartAt(t)
                 w == PartAt(t)'
      <4>1. \A i \in S : v[i] = w[i]
        BY <3>1
      <4>2. IsFiniteSet(S)
        BY PartFacts
      <4> HIDE DEF v, w, S
      <4>3. Total(v, S) = Total(w, S)
        BY <4>1, <4>2, TotalAgree
      <4> QED
        BY <4>3 DEF v, w
    <3> QED
      BY <1>6, <2>1, <2>3, <3>2
  <2> QED
    BY <2>2, <2>3
<1> QED
  BY <1>4, <1>5, <1>8, SameRest

(* The leader leads what is left.                                          *)
LEMMA LeaderLeads ==
  ASSUME RestInv, leader # Nothing
  PROVE  /\ Heap!Rest # Zero /\ LM(Heap!Rest) = leader.m /\ LC(Heap!Rest) = leader.c
         /\ RestSum(leader.m) = leader.c /\ Total(PartAt(leader.m), DOMAIN reducers) = 0
         /\ \A t : t # leader.m => RestSum(t) = Total(PartAt(t), DOMAIN reducers)
<1> DEFINE m == leader.m
           p == Heap!Rest
           total(t) == Total(PartAt(t), DOMAIN reducers)
<1>1. m \in Monomial /\ Below(reducers, m) /\ leader.c \in 1 .. P - 1
  BY DEF RestInv, HeapInv, TermsInv, IsTerm
<1>2. total(m) = 0 /\ \A t : total(t) # 0 => Less(t, m)
  BY <1>1, BelowFacts
<1>3. \A t : total(t) \in Nat
  BY PartFacts
<1>4. \A t : RestSum(t) = (IF t = m THEN leader.c ELSE 0) + total(t)
  BY DEF RestSum, LeadAt
<1> HIDE DEF total
<1>5. leader.c \in Nat /\ leader.c \in 0 .. P - 1 /\ leader.c # 0 /\ 0 \in 0 .. P - 1
  BY <1>1, PAssumption
<1>6. RestSum(m) = leader.c /\ \A t : t # m => RestSum(t) = total(t)
  BY <1>2, <1>3, <1>4, <1>5
<1>7. IsPolynomial(p) /\ \A t : Coef(p, t) = (RestSum(t) % P)
  BY RestFacts
<1> HIDE DEF p, m
<1>8. Coef(p, m) = leader.c
  BY <1>5, <1>6, <1>7, ModSmall
<1>9. \A t \in Monomial : Coef(p, t) # 0 => t = m \/ Less(t, m)
  <2>1. (0 % P) = 0
    BY <1>5, ModSmall
  <2> QED
    BY <1>2, <1>6, <1>7, <2>1
<1>10. p # Zero /\ LM(p) = m /\ LC(p) = leader.c
  <2>1. m \in Monomial
    BY <1>1 DEF m
  <2> QED
    BY <1>5, <1>7, <1>8, <1>9, <2>1, LeadingIs
<1> QED
  BY <1>2, <1>6, <1>10 DEF p, m, total

(* An irreducible leader leaves what is left without its leading term.     *)
LEMMA EmitDrops ==
  ASSUME RestInv, HeapInv', Heap!Emit
  PROVE  TermsInv' /\ Heap!Rest' = DropLeading(Heap!Rest)
<1>1. /\ leader # Nothing /\ leader' = Nothing /\ survivor' = Append(survivor, leader)
      /\ reducers' = reducers
  BY DEF Heap!Emit
<1>2. TermsInv'
  <2>1. PICK S : survivor \in Seq(S)
    BY DEF RestInv, HeapInv
  <2> DEFINE n == Len(survivor)
             new == Append(survivor, leader)
  <2>2. n \in Nat /\ DOMAIN survivor = 1 .. n
    BY <2>1, AppendFacts
  <2>3. DOMAIN new = 1 .. n + 1 /\ \A k \in 1 .. n : new[k] = survivor[k]
    BY <2>1, AppendFacts
  <2>4. new[n + 1] = leader
    BY <2>1, AppendFacts
  <2> HIDE DEF new, n
  <2>5. \A k \in 1 .. n + 1 : k \in 1 .. n \/ k = n + 1
    BY <2>2
  <2>6. \A k \in DOMAIN new : IsTerm(new[k])
    BY <1>1, <2>2, <2>3, <2>4, <2>5 DEF RestInv, TermsInv
  <2>7. \A i \in DOMAIN reducers : reducers[i].coeff \in Nat
    BY DEF RestInv, TermsInv
  <2> QED
    BY <1>1, <2>6, <2>7 DEF TermsInv, new
<1>3. RestInv'
  BY <1>2 DEF RestInv
<1> DEFINE p == Heap!Rest
           d == DropLeading(p)
           total(t) == Total(PartAt(t), DOMAIN reducers)
<1>4. IsPolynomial(p) /\ \A t : Coef(p, t) = (RestSum(t) % P)
  BY RestFacts
<1>5. IsPolynomial(p') /\ \A t : Coef(p', t) = (RestSum(t)' % P)
  BY <1>3, NextRestFacts
<1>6. /\ LM(p) = leader.m /\ total(leader.m) = 0
      /\ \A t : t # leader.m => RestSum(t) = total(t)
  BY <1>1, LeaderLeads
<1>7. \A t : RestSum(t)' = total(t)
  <2>1. \A t : PartAt(t)' = PartAt(t)
    BY <1>1 DEF PartAt, Part
  <2>2. \A t : LeadAt(t)' = 0
    BY <1>1 DEF LeadAt
  <2>3. \A t : total(t) \in Nat
    BY PartFacts
  <2> QED
    BY <1>1, <2>1, <2>2, <2>3 DEF RestSum
<1>8. (0 % P) = 0
  <2>1. 0 \in 0 .. P - 1
    BY PAssumption
  <2> QED
    BY <2>1, ModSmall
<1> DEFINE q == p'
<1>9. IsPolynomial(q) /\ \A t : Coef(q, t) = (total(t) % P)
  BY <1>5, <1>7
<1> HIDE DEF p, q, total
<1>10. IsPolynomial(d) /\ \A t : Coef(d, t) = IF t = LM(p) THEN 0 ELSE Coef(p, t)
  BY <1>4, DropIsPolynomial, DropCoef
<1> HIDE DEF d
<1>11. \A t \in Monomial : Coef(q, t) = Coef(d, t)
  BY <1>4, <1>6, <1>8, <1>9, <1>10
<1>12. q = d
  BY <1>9, <1>10, <1>11, SamePolynomial
<1> QED
  BY <1>2, <1>12 DEF q, d, p

(* A divisor that comes in cancels the leading term.                       *)
LEMMA ReduceCancels ==
  ASSUME RestInv, HeapInv', Heap!Reduce
  PROVE  TermsInv' /\ Heap!Rest' = CancelLeading(basis.polys, basis.redundant, Heap!Rest)
<1> DEFINE i == FirstDivisor(basis.polys, basis.redundant, leader.m)
           g == basis.polys[i]
           m == Div(leader.m, LM(g))
           c == leader.c
           new == [cursor |-> DropLeading(g), multiplier |-> m, coeff |-> P - c]
           n == Len(reducers)
           p == Heap!Rest
           cancelled == MinusMMultP(p, m, c, g)
<1>1. /\ leader # Nothing /\ Divisors(basis.polys, basis.redundant, leader.m) # {}
      /\ reducers' = Append(reducers, new) /\ leader' = Nothing /\ survivor' = survivor
  BY HeapAlgebra DEF Heap!Reduce, Heap!Found, Heap!Reducer
<1>2. /\ n \in Nat /\ DOMAIN reducers = 1 .. n /\ DOMAIN reducers' = 1 .. n + 1
      /\ \A k \in 1 .. n : reducers'[k] = reducers[k]
      /\ reducers'[n + 1] = new
  <2>1. PICK S : reducers \in Seq(S)
    BY DEF RestInv, HeapInv, GoodSlab
  <2> HIDE DEF new
  <2>2. n \in Nat /\ DOMAIN reducers = 1 .. n
    BY <2>1, AppendFacts
  <2>4. DOMAIN reducers' = 1 .. n + 1 /\ \A k \in 1 .. n : reducers'[k] = reducers[k]
    BY <1>1, <2>1, AppendFacts
  <2>5. reducers'[n + 1] = new
    BY <1>1, <2>1, AppendFacts
  <2> QED
    BY <2>2, <2>4, <2>5
<1>3. leader.m \in Monomial /\ c \in 1 .. P - 1 /\ GoodBasis(basis)
  BY <1>1 DEF RestInv, HeapInv, TermsInv, IsTerm
<1>4. i \in DOMAIN basis.polys /\ Divides(LM(g), leader.m)
  <2>1. DOMAIN basis.polys \subseteq Nat
    BY <1>3 DEF GoodBasis
  <2> QED
    BY <1>1, <2>1, FirstDivisorFacts
<1>5. /\ IsPolynomial(p) /\ \A t : Coef(p, t) = (RestSum(t) % P)
      /\ LM(p) = leader.m /\ LC(p) = c
      /\ RestSum(leader.m) = c /\ Total(PartAt(leader.m), DOMAIN reducers) = 0
      /\ \A t : t # leader.m => RestSum(t) = Total(PartAt(t), DOMAIN reducers)
  BY <1>1, RestFacts, LeaderLeads
<1>6. CancelLeading(basis.polys, basis.redundant, p) = cancelled
  BY <1>5 DEF CancelLeading
<1> HIDE DEF i, p
<1>7. IsPolynomial(g) /\ g # Zero /\ LM(g) \in Monomial /\ LC(g) = 1
  BY <1>3, <1>4, OperandFacts DEF GoodBasis
<1> HIDE DEF g
<1>8. m \in Monomial /\ Mul(m, LM(g)) = leader.m
  BY <1>3, <1>4, <1>7, DivFacts, MulDiv
<1> HIDE DEF m
<1>9. c \in Nat /\ c \in Int /\ P - c \in Nat /\ P \in Nat /\ c + (P - c) = P /\ (P % P) = 0
  <2>1. P \in Nat /\ P > 0
    BY PAssumption
  <2>2. (P % P) = 0
    <3>1. P = 0 + 1 * P /\ 0 \in 0 .. P - 1
      BY <2>1
    <3>2. (P % P) = (0 % P)
      BY ONLY <2>1, <3>1, ModSame, 0 \in Int, 1 \in Int, P \in Int
    <3> QED
      BY <3>1, <3>2, ModSmall
  <2> QED
    BY <1>3, <2>1, <2>2
<1>10. TermsInv'
  <2>1. new.coeff = P - c
    OBVIOUS
  <2> HIDE DEF new, n, c
  <2>2. \A k \in 1 .. n + 1 : k \in 1 .. n \/ k = n + 1
    BY <1>2
  <2>3. \A k \in 1 .. n + 1 : reducers'[k].coeff \in Nat
    BY <1>2, <1>9, <2>1, <2>2 DEF RestInv, TermsInv
  <2> QED
    BY <1>1, <1>2, <2>3 DEF TermsInv, RestInv
<1>11. RestInv'
  BY <1>10 DEF RestInv
<1> DEFINE d == DropLeading(g)
<1>12. /\ IsPolynomial(d)
       /\ \A t : Multiple(m, d, t) = IF t = leader.m THEN 0 ELSE Multiple(m, g, t)
       /\ \A t : Multiple(m, g, t) \in Nat /\ Multiple(m, d, t) \in Nat
       /\ Multiple(m, g, leader.m) = 1
  <2>1. IsPolynomial(d)
    BY <1>7, DropIsPolynomial
  <2>2. \A t : Multiple(m, d, t) = IF t = leader.m THEN 0 ELSE Multiple(m, g, t)
    BY <1>7, <1>8, MultipleDrop
  <2>3. 0 .. P - 1 \subseteq Nat
    BY <1>9
  <2>4. \A t : Multiple(m, g, t) \in Nat
    BY <1>7, <1>8, <2>3, MultipleFacts
  <2>5. Multiple(m, g, leader.m) = Coef(g, LM(g))
    BY <1>7, <1>8, MultipleFacts
  <2>6. Coef(g, LM(g)) = LC(g)
    BY <1>7, LeadingIsLargest DEF Coef, LC, LM
  <2> HIDE DEF d
  <2>7. \A t : Multiple(m, d, t) \in Nat
    BY <2>2, <2>4
  <2> QED
    BY <1>7, <2>1, <2>2, <2>4, <2>5, <2>6, <2>7
<1>13. new.cursor = d /\ new.multiplier = m /\ new.coeff = P - c
  OBVIOUS
<1> HIDE DEF new, d, n, c
<1>14. ASSUME NEW t
       PROVE  RestSum(t)' = (P - c) * Multiple(m, d, t) + Total(PartAt(t), DOMAIN reducers)
  <2> DEFINE S == 1 .. n + 1
             v == PartAt(t)
             w == PartAt(t)'
             x == (P - c) * Multiple(m, d, t)
  <2>1. \A k \in S : w[k] = reducers'[k].coeff
                              * Multiple(reducers'[k].multiplier, reducers'[k].cursor, t)
    BY <1>2 DEF PartAt, Part
  <2>2. w[n + 1] = x
    BY <1>2, <1>13, <2>1
  <2>3. \A k \in 1 .. n : w[k] = v[k]
    BY <1>2, <2>1 DEF PartAt, Part
  <2>4. x \in Nat
    BY <1>9, <1>12
  <2>5. \A k \in 1 .. n : v[k] \in Nat
    BY <1>2, PartFacts
  <2>6. LeadAt(t)' = 0
    BY <1>1 DEF LeadAt
  <2>7. RestSum(t)' = LeadAt(t)' + Total(w, S)
    BY <1>2 DEF RestSum
  <2>8. Total(v, 1 .. n) \in Nat
    BY <1>2, PartFacts
  <2> HIDE DEF v, w, x
  <2>9. IsFiniteSet(S) /\ n + 1 \in S /\ S \ {n + 1} = 1 .. n
    <3>1. IsFiniteSet(S)
      BY <1>2, FS_Interval
    <3>2. n + 1 \in S /\ \A k \in S : k # n + 1 <=> k \in 1 .. n
      BY <1>2
    <3>3. \A k \in 1 .. n : k \in S
      BY <1>2
    <3> HIDE DEF S
    <3>4. S \ {n + 1} = 1 .. n
      BY <3>2, <3>3
    <3> QED
      BY <3>1, <3>2, <3>4
  <2>10. \A k \in S : w[k] \in Nat
    <3>1. \A k \in S : k \in 1 .. n \/ k = n + 1
      BY <1>2
    <3> QED
      BY <2>2, <2>3, <2>4, <2>5, <3>1
  <2> HIDE DEF S
  <2>11. Total(w, S) = w[n + 1] + Total(w, S \ {n + 1})
    BY <2>9, <2>10, TotalStep
  <2>12. IsFiniteSet(1 .. n)
    BY <1>2, FS_Interval
  <2>13. Total(w, 1 .. n) = Total(v, 1 .. n)
    BY <2>3, <2>12, TotalAgree
  <2>14. RestSum(t)' = x + Total(v, 1 .. n)
    <3> DEFINE a == Total(w, S)
               b == Total(v, 1 .. n)
    <3>1. a = x + b /\ RestSum(t)' = LeadAt(t)' + a
      BY <2>2, <2>7, <2>9, <2>11, <2>13
    <3>2. b \in Nat
      BY <2>8
    <3> HIDE DEF a, b
    <3>3. RestSum(t)' = x + b
      BY <2>4, <2>6, <3>1, <3>2
    <3> QED
      BY <3>3 DEF b
  <2> QED
    BY <1>2, <2>14 DEF x, v
<1> DEFINE q == p'
<1>15. IsPolynomial(q) /\ \A t : Coef(q, t) = (RestSum(t)' % P)
  <2> USE DEF p
  <2> QED
    BY <1>11, NextRestFacts
<1> HIDE DEF q
<1>16. /\ IsPolynomial(cancelled)
       /\ \A t : Coef(cancelled, t) = ((Coef(p, t) + (P - c) * Multiple(m, g, t)) % P)
  BY <1>5, <1>7, <1>8, <1>9, SubtractIsPolynomial, SubtractCoef
<1> HIDE DEF cancelled
<1>17. ASSUME NEW t \in Monomial PROVE Coef(q, t) = Coef(cancelled, t)
  <2> DEFINE total == Total(PartAt(t), DOMAIN reducers)
             x == (P - c) * Multiple(m, g, t)
             y == (P - c) * Multiple(m, d, t)
  <2>1. total \in Nat
    BY PartFacts
  <2>2. Coef(q, t) = ((y + total) % P)
    BY <1>14, <1>15
  <2>3. Coef(cancelled, t) = ((Coef(p, t) + x) % P)
    BY <1>16
  <2>4. CASE t = leader.m
    <3>1. x = P - c /\ y = 0
      BY <1>9, <1>12, <2>4
    <3>2. total = 0 /\ RestSum(t) = c
      BY <1>5, <2>4
    <3> HIDE DEF total, x, y
    <3>3. Coef(p, t) = c
      <4>1. c \in 0 .. P - 1
        BY <1>3, <1>9
      <4> QED
        BY <1>5, <3>2, <4>1, ModSmall
    <3>4. Coef(p, t) + x = P /\ y + total = 0
      BY <1>9, <3>1, <3>2, <3>3
    <3>5. (0 % P) = 0
      <4>1. 0 \in 0 .. P - 1
        BY <1>9, PAssumption
      <4> QED
        BY <4>1, ModSmall
    <3> QED
      BY <1>9, <2>2, <2>3, <3>4, <3>5
  <2>5. CASE t # leader.m
    <3>1. x = y /\ x \in Nat
      BY <1>9, <1>12, <2>5
    <3>2. Coef(p, t) = (total % P)
      BY <1>5, <2>5
    <3> HIDE DEF total, x, y
    <3>3. (((total % P) + x) % P) = ((total + x) % P)
      BY <2>1, <3>1, ModAdd
    <3>4. total + x = y + total
      BY <2>1, <3>1
    <3> QED
      BY <2>2, <2>3, <3>2, <3>3, <3>4
  <2> QED
    BY <2>4, <2>5
<1>18. q = cancelled
  BY <1>15, <1>16, <1>17, SamePolynomial
<1> QED
  BY <1>6, <1>10, <1>18 DEF q, p

(* The terms of a sequence of terms, no two with the same monomial.        *)
TermsOf(s) ==
  [t \in {s[k].m : k \in DOMAIN s} |-> (CHOOSE r \in {s[k] : k \in DOMAIN s} : r.m = t).c]

LEMMA TermsOfFacts ==
  ASSUME NEW s, \A k, l \in DOMAIN s : s[k].m = s[l].m => k = l
  PROVE  /\ \A t : t \in DOMAIN TermsOf(s) <=> \E k \in DOMAIN s : t = s[k].m
         /\ \A k \in DOMAIN s : TermsOf(s)[s[k].m] = s[k].c
<1>1. \A t : t \in DOMAIN TermsOf(s) <=> \E k \in DOMAIN s : t = s[k].m
  BY DEF TermsOf
<1>2. ASSUME NEW k \in DOMAIN s PROVE TermsOf(s)[s[k].m] = s[k].c
  <2> DEFINE R == {s[j] : j \in DOMAIN s}
             x == CHOOSE r \in R : r.m = s[k].m
  <2>1. s[k] \in R /\ \A r \in R : \E j \in DOMAIN s : r = s[j]
    OBVIOUS
  <2>2. TermsOf(s)[s[k].m] = x.c
    BY DEF TermsOf
  <2> HIDE DEF R
  <2>3. x \in R /\ x.m = s[k].m
    BY <2>1
  <2> HIDE DEF x
  <2>4. PICK j \in DOMAIN s : x = s[j]
    BY <2>1, <2>3
  <2>5. j = k
    BY <2>3, <2>4
  <2> QED
    BY <2>2, <2>4, <2>5
<1> QED
  BY <1>1, <1>2

LEMMA SurvivorIs ==
  Heap!Survivor = IF survivor = << >> THEN Zero
                  ELSE [terms |-> TermsOf(survivor), lm |-> survivor[1].m]
BY HeapAlgebra DEF Heap!Survivor, TermsOf

(* A step appends to the result the leader, which is smaller than its      *)
(* terms.                                                                  *)
LEMMA EmitParks ==
  ASSUME RestInv, Heap!Emit
  PROVE  Heap!Survivor' = ParkTerm(Heap!Survivor, leader.c, leader.m)
<1> DEFINE n == Len(survivor)
           new == Append(survivor, leader)
           p == Heap!Survivor
           q == Heap!Survivor'
           c == leader.c
           m == leader.m
<1>1. leader # Nothing /\ survivor' = new
  BY DEF Heap!Emit
<1>2. /\ n \in Nat /\ DOMAIN survivor = 1 .. n /\ DOMAIN new = 1 .. n + 1
      /\ \A k \in 1 .. n : new[k] = survivor[k]
      /\ new[n + 1] = leader /\ new # << >>
      /\ survivor = << >> <=> n = 0
  <2>1. PICK S : survivor \in Seq(S)
    BY DEF RestInv, HeapInv
  <2>2. n \in Nat /\ DOMAIN survivor = 1 .. n
    BY <2>1, AppendFacts
  <2>3. DOMAIN new = 1 .. n + 1 /\ \A k \in 1 .. n : new[k] = survivor[k]
    BY <2>1, AppendFacts
  <2>4. new[n + 1] = leader
    BY <2>1, AppendFacts
  <2>5. survivor = << >> <=> n = 0
    BY <2>1, EmptySeq
  <2>6. new # << >>
    <3>1. n + 1 \in DOMAIN new
      BY <2>2, <2>3
    <3> HIDE DEF new
    <3> QED
      BY <3>1
  <2> QED
    BY <2>2, <2>3, <2>4, <2>5, <2>6
<1>3. \A k \in 1 .. n : /\ survivor[k].m \in Monomial /\ Less(m, survivor[k].m)
                        /\ \A l \in 1 .. k - 1 : Less(survivor[k].m, survivor[l].m)
  BY <1>1, <1>2 DEF RestInv, HeapInv
<1>4. m \in Monomial
  BY <1>1 DEF RestInv, HeapInv
<1>5. q = [terms |-> TermsOf(new), lm |-> new[1].m]
  <2>1. q = IF survivor' = << >> THEN Zero ELSE [terms |-> TermsOf(survivor'), lm |-> survivor'[1].m]
    BY HeapAlgebra DEF Heap!Survivor, TermsOf
  <2> QED
    BY <1>1, <1>2, <2>1
<1>6. p = IF survivor = << >> THEN Zero ELSE [terms |-> TermsOf(survivor), lm |-> survivor[1].m]
  BY SurvivorIs
<1> HIDE DEF new, n, p, q
<1>7. \A k, l \in DOMAIN survivor : survivor[k].m = survivor[l].m => k = l
  <2>1. ASSUME NEW k \in 1 .. n, NEW l \in 1 .. n, survivor[k].m = survivor[l].m, l < k
        PROVE  FALSE
    <3>1. l \in 1 .. k - 1
      BY <1>2, <2>1
    <3> QED
      BY <1>3, <2>1, <3>1, LessIrreflexive
  <2>2. \A k, l \in 1 .. n : k = l \/ k < l \/ l < k
    BY <1>2
  <2> QED
    BY <1>2, <2>1, <2>2
<1>8. \A k, l \in DOMAIN new : new[k].m = new[l].m => k = l
  <2>1. \A k \in 1 .. n + 1 : k \in 1 .. n \/ k = n + 1
    BY <1>2
  <2>2. \A k \in 1 .. n : survivor[k].m # m
    BY <1>3, <1>4, LessIrreflexive
  <2> QED
    BY <1>2, <1>7, <2>1, <2>2
<1> DEFINE T == TermsOf(survivor)
           T1 == TermsOf(new)
           W == WithTerm(p, c, m)
<1>9. /\ \A t : t \in DOMAIN T <=> \E k \in 1 .. n : t = survivor[k].m
      /\ \A k \in 1 .. n : T[survivor[k].m] = survivor[k].c
  BY <1>2, <1>7, TermsOfFacts
<1>10. /\ \A t : t \in DOMAIN T1 <=> \E k \in 1 .. n + 1 : t = new[k].m
       /\ \A k \in 1 .. n + 1 : T1[new[k].m] = new[k].c
  BY <1>2, <1>8, TermsOfFacts
<1>11. T1 = [t \in DOMAIN T1 |-> T1[t]] /\ W = [t \in DOMAIN W |-> W[t]]
  BY DEF TermsOf, WithTerm
<1>12. DOMAIN W = Support(p) \cup {m} /\ \A t \in DOMAIN W : W[t] = IF t = m THEN c ELSE p.terms[t]
  BY DEF WithTerm
<1>13. /\ \A t : t \in Support(p) <=> \E k \in 1 .. n : t = survivor[k].m
       /\ \A k \in 1 .. n : p.terms[survivor[k].m] = survivor[k].c
  <2>1. CASE n = 0
    <3>1. p = Zero
      BY <1>2, <1>6, <2>1
    <3> QED
      BY <2>1, <3>1, ZeroFacts
  <2>2. CASE n # 0
    <3>1. p.terms = T
      BY <1>2, <1>6, <2>2
    <3> HIDE DEF T
    <3> QED
      BY <1>9, <3>1 DEF Support
  <2> QED
    BY <2>1, <2>2
<1>14. p = Zero <=> n = 0
  <2>1. n # 0 => 1 \in 1 .. n
    BY <1>2
  <2>2. n # 0 => p # Zero
    BY <1>13, <2>1, ZeroFacts
  <2> QED
    BY <1>2, <1>6, <2>2
<1> HIDE DEF T, T1, W
<1>15. \A k \in 1 .. n : k \in 1 .. n + 1 /\ new[k] = survivor[k]
  BY <1>2
<1>16. \A k \in 1 .. n + 1 : k \in 1 .. n \/ k = n + 1
  BY <1>2
<1>17. n + 1 \in 1 .. n + 1
  BY <1>2
<1>18. \A t : t \in DOMAIN T1 <=> t \in DOMAIN W
  BY <1>2, <1>10, <1>12, <1>13, <1>15, <1>16, <1>17
<1>19. ASSUME NEW t \in DOMAIN T1 PROVE T1[t] = W[t]
  <2>1. PICK k \in 1 .. n + 1 : t = new[k].m
    BY <1>10
  <2>2. T1[t] = new[k].c
    BY <1>10, <2>1
  <2>3. CASE k = n + 1
    BY <1>2, <1>12, <1>18, <2>1, <2>2, <2>3
  <2>4. CASE k \in 1 .. n
    <3>1. t = survivor[k].m /\ T1[t] = survivor[k].c /\ t # m
      BY <1>3, <1>4, <1>15, <2>1, <2>2, <2>4, LessIrreflexive
    <3> QED
      BY <1>12, <1>13, <1>18, <2>4, <3>1
  <2> QED
    BY <1>16, <2>3, <2>4
<1>20. T1 = W
  BY <1>11, <1>18, <1>19
<1>21. new[1].m = IF p = Zero THEN m ELSE LM(p)
  <2>1. CASE n = 0
    BY <1>2, <1>14, <2>1
  <2>2. CASE n # 0
    <3>1. 1 \in 1 .. n
      BY <1>2, <2>2
    <3> QED
      BY <1>2, <1>6, <1>14, <2>2, <3>1 DEF LM
  <2> QED
    BY <2>1, <2>2
<1>22. q = ParkTerm(p, c, m)
  BY <1>5, <1>20, <1>21 DEF T1, W, ParkTerm
<1> QED
  BY <1>22 DEF p, q

(* The first reducer is the working polynomial.                            *)
LEMMA FirstRest ==
  ASSUME Heap!Init, HeapInv
  PROVE  TermsInv /\ \E o \in WorkObjects : Heap!Rest = o.poly /\ sugar = o.sugar
<1>1. PICK o \in WorkObjects : /\ reducers = <<Heap!Reducer(o.poly, Heap!One, 1)>>
                               /\ sugar = o.sugar
  BY DEF Heap!Init
<1>2. leader = Nothing /\ survivor = << >>
  BY DEF Heap!Init
<1>3. /\ DOMAIN reducers = {1} /\ reducers[1].cursor = o.poly
      /\ reducers[1].multiplier = One /\ reducers[1].coeff = 1
  BY <1>1, HeapAlgebra DEF Heap!Reducer
<1>4. TermsInv
  <2>1. DOMAIN survivor = {}
    BY <1>2
  <2> QED
    BY <1>2, <1>3, <2>1 DEF TermsInv
<1>5. RestInv
  BY <1>4 DEF RestInv
<1>6. IsPolynomial(o.poly)
  BY WorkAssumption
<1>7. ASSUME NEW t \in Monomial PROVE RestSum(t) = Coef(o.poly, t) /\ Coef(o.poly, t) \in 0 .. P - 1
  <2> DEFINE v == PartAt(t)
             x == Coef(o.poly, t)
  <2>1. x \in 0 .. P - 1 /\ x \in Nat
    BY <1>6, CoefFacts, PAssumption
  <2>2. v[1] = 1 * Multiple(One, o.poly, t)
    BY <1>3 DEF PartAt, Part
  <2>3. Multiple(One, o.poly, t) = x
    BY <1>6, MultipleOfOne
  <2>4. RestSum(t) = LeadAt(t) + Total(v, {1}) /\ LeadAt(t) = 0
    BY <1>2, <1>3 DEF RestSum, LeadAt
  <2> HIDE DEF v, x
  <2>5. v[1] = x
    BY <2>1, <2>2, <2>3
  <2>6. Total(v, {1}) = v[1] + Total(v, {1} \ {1})
    <3>1. IsFiniteSet({1}) /\ 1 \in {1} /\ \A y \in {1} : v[y] \in Nat
      BY <2>1, <2>5, FS_Singleton
    <3> QED
      BY ONLY <3>1, TotalStep
  <2>7. {1} \ {1} = {}
    OBVIOUS
  <2>8. Total(v, {1}) = x + 0
    BY <2>5, <2>6, <2>7, TotalEmpty
  <2>9. RestSum(t) = x
    BY <2>1, <2>4, <2>8
  <2> QED
    BY <2>1, <2>9 DEF x
<1>8. \A t \in Monomial : Coef(Heap!Rest, t) = Coef(o.poly, t)
  BY <1>5, <1>7, RestFacts, ModSmall
<1>9. Heap!Rest = o.poly
  BY <1>5, <1>6, <1>8, RestFacts, SamePolynomial
<1> QED
  BY <1>1, <1>4, <1>9

(* Nothing is left when the heap is empty and there is no leader.          *)
LEMMA NothingIsLeft ==
  ASSUME RestInv, leader = Nothing, heap = {}
  PROVE  Heap!Rest = Zero
<1>1. \A i \in DOMAIN reducers : reducers[i].cursor = Zero
  <2>1. ASSUME NEW i \in DOMAIN reducers, reducers[i].cursor # Zero PROVE FALSE
    <3>1. [key |-> Key(reducers, i), reducer_idx |-> i] \in heap
      BY <2>1 DEF RestInv, HeapInv, NodesOf
    <3> QED
      BY <3>1
  <2> QED
    BY <2>1
<1>2. \A x : Below(reducers, x)
  BY <1>1 DEF Below
<1>3. \A t \in Monomial : RestSum(t) = 0
  <2>1. \A t \in Monomial : Total(PartAt(t), DOMAIN reducers) = 0
    BY <1>2, BelowFacts
  <2> QED
    BY <2>1 DEF RestSum, LeadAt
<1>4. (0 % P) = 0
  <2>1. 0 \in 0 .. P - 1
    BY PAssumption
  <2> QED
    BY <2>1, ModSmall
<1>5. \A t \in Monomial : Coef(Heap!Rest, t) = 0
  BY <1>3, <1>4, RestFacts
<1> QED
  BY <1>5, RestFacts, ZeroCoef

(* The copies of the operators of the algebra in the instance's instance.  *)
LEMMA HeapExactAlgebra ==
  /\ Heap!Exact!Zero = Zero
  /\ \A p : /\ Heap!Exact!LM(p) = LM(p) /\ Heap!Exact!LC(p) = LC(p)
            /\ Heap!Exact!DropLeading(p) = DropLeading(p)
  /\ \A p, c, m : Heap!Exact!ParkTerm(p, c, m) = ParkTerm(p, c, m)
  /\ \A p, s : Heap!Exact!LObject(p, s) = LObject(p, s) /\ Heap!LObject(p, s) = LObject(p, s)
  /\ \A ps, redundant, p :
       /\ Heap!Exact!Reducible(ps, redundant, p) <=> Reducible(ps, redundant, p)
  /\ \A ps, redundant, o :
       /\ Heap!Exact!ReduceOnce(ps, redundant, o) = ReduceOnce(ps, redundant, o)
<1>1. \A a : Heap!Exact!Deg(a) = Deg(a)
  BY DEF Heap!Exact!Deg, Deg
<1>2. /\ \A a, b : Heap!Exact!Less(a, b) <=> Less(a, b)
      /\ \A a, b : Heap!Exact!Mul(a, b) = Mul(a, b) /\ Heap!Exact!Div(a, b) = Div(a, b)
      /\ Heap!Exact!One = One /\ Heap!Exact!Zero = Zero
      /\ \A p : Heap!Exact!LM(p) = LM(p) /\ Heap!Exact!LC(p) = LC(p)
      /\ \A p : Heap!Exact!Support(p) = Support(p)
      /\ \A p, t : Heap!Exact!Coef(p, t) = Coef(p, t)
      /\ \A p, s : Heap!Exact!LObject(p, s) = LObject(p, s)
  BY <1>1 DEF Heap!Exact!Less, Less, Heap!Exact!Vars, Vars, Heap!Exact!Mul, Mul,
    Heap!Exact!Div, Div, Heap!Exact!One, One, Heap!Exact!Zero, Zero, Heap!Exact!LM, LM,
    Heap!Exact!LC, LC, Heap!Exact!Support, Support, Heap!Exact!Coef, Coef,
    Heap!Exact!LObject, LObject
<1>3. \A terms : Heap!Exact!Poly(terms) = Poly(terms)
  BY <1>2 DEF Heap!Exact!Poly, Poly, Heap!Exact!Maxima, Maxima
<1>4. \A p, m, c, q : Heap!Exact!MinusMMultP(p, m, c, q) = MinusMMultP(p, m, c, q)
  BY <1>2, <1>3 DEF Heap!Exact!MinusMMultP, MinusMMultP
<1>5. \A p : Heap!Exact!DropLeading(p) = DropLeading(p)
  BY <1>2, <1>3 DEF Heap!Exact!DropLeading, DropLeading
<1>6. \A ps, redundant, m : Heap!Exact!Divisors(ps, redundant, m) = Divisors(ps, redundant, m)
  BY <1>2 DEF Heap!Exact!Divisors, Divisors, Heap!Exact!Divides, Divides, Heap!Exact!Vars, Vars
<1>7. \A ps, redundant, m :
        Heap!Exact!FirstDivisor(ps, redundant, m) = FirstDivisor(ps, redundant, m)
  BY <1>6 DEF Heap!Exact!FirstDivisor, FirstDivisor
<1>8. \A ps, redundant, p :
        Heap!Exact!Reducible(ps, redundant, p) <=> Reducible(ps, redundant, p)
  BY <1>2, <1>6 DEF Heap!Exact!Reducible, Reducible
<1>9. \A ps, redundant, p :
        Heap!Exact!CancelLeading(ps, redundant, p) = CancelLeading(ps, redundant, p)
  BY <1>2, <1>4, <1>7 DEF Heap!Exact!CancelLeading, CancelLeading
<1>10. \A ps, redundant, o :
         Heap!Exact!ReduceOnce(ps, redundant, o) = ReduceOnce(ps, redundant, o)
  BY <1>1, <1>2, <1>7, <1>9 DEF Heap!Exact!ReduceOnce, ReduceOnce
<1>11. \A p, c, m : Heap!Exact!ParkTerm(p, c, m) = ParkTerm(p, c, m)
  BY <1>2 DEF Heap!Exact!ParkTerm, ParkTerm, Heap!Exact!WithTerm, WithTerm
<1>12. \A p, s : Heap!LObject(p, s) = LObject(p, s)
  BY DEF Heap!LObject, LObject
<1> QED
  BY <1>2, <1>5, <1>8, <1>10, <1>11, <1>12

LEMMA SameHeapValues ==
  ASSUME RestInv, HeapInv', UNCHANGED <<reducers, leader, survivor>>
  PROVE  TermsInv' /\ Heap!Rest' = Heap!Rest /\ Heap!Survivor' = Heap!Survivor
<1>1. TermsInv'
  BY DEF RestInv, TermsInv
<1>2. \A t : PartAt(t)' = PartAt(t) /\ LeadAt(t)' = LeadAt(t)
  BY DEF PartAt, Part, LeadAt
<1>3. \A t : RestSum(t)' = RestSum(t)
  BY <1>2 DEF RestSum
<1>4. Heap!Rest' = Heap!Rest
  BY <1>1, <1>3, SameRest DEF RestInv
<1>5. Heap!Survivor' = Heap!Survivor
  BY DEF Heap!Survivor
<1> QED
  BY <1>1, <1>4, <1>5

(* A turn of the heap reducer is a turn of the exact reduction or none.    *)
LEMMA HeapStepIsExact ==
  ASSUME RestInv, HeapInv', Heap!Next
  PROVE  TermsInv' /\ [Heap!Exact!Next]_(Heap!Exact!vars)
<1> DEFINE p == Heap!Rest
           q == Heap!Survivor
           w == LObject(p, sugar)
<1>0. Heap!LObject(Heap!Rest, sugar) = w /\ Heap!LObject(Heap!Rest, sugar)' = w'
  BY HeapExactAlgebra DEF Heap!LObject, LObject
<1>1. w.poly = p /\ w.sugar = sugar /\ w = [poly |-> p, sugar |-> sugar]
      /\ w' = [poly |-> p', sugar |-> sugar']
  BY DEF LObject
<1>2. CASE Heap!PopChain
  <2>1. PICK idxs, top : Popped(idxs, top)
    BY <1>2, PopKeeps DEF RestInv
  <2>2. TermsInv' /\ p' = p
    BY <2>1, PopIsStutter
  <2>3. UNCHANGED <<basis, sugar, survivor, returned>>
    BY <2>1 DEF Popped
  <2>4. q' = q
    BY <2>3 DEF Heap!Survivor
  <2> QED
    BY <1>0, <1>1, <2>2, <2>3, <2>4 DEF Heap!Exact!vars
<1>3. CASE Heap!Reduce
  <2>1. TermsInv' /\ p' = CancelLeading(basis.polys, basis.redundant, p)
    BY <1>3, ReduceCancels
  <2>2. leader # Nothing /\ Divisors(basis.polys, basis.redundant, leader.m) # {}
    BY <1>3, HeapAlgebra DEF Heap!Reduce, Heap!Found
  <2>3. p # Zero /\ LM(p) = leader.m
    BY <2>2, LeaderLeads
  <2> DEFINE g == basis.polys[FirstDivisor(basis.polys, basis.redundant, leader.m)]
             m == Div(leader.m, LM(g))
             d == Deg(LM(g)) + Deg(m)
  <2>4. sugar' = IF d > sugar THEN d ELSE sugar
    <3>1. \A a : Heap!Deg(a) = Deg(a)
      BY DEF Heap!Deg, Deg
    <3> QED
      BY <1>3, <3>1, HeapAlgebra DEF Heap!Reduce
  <2>5. UNCHANGED <<basis, survivor, returned>>
    BY <1>3 DEF Heap!Reduce
  <2>6. q' = q
    BY <2>5 DEF Heap!Survivor
  <2>7. w' = ReduceOnce(basis.polys, basis.redundant, w)
    BY <1>1, <2>1, <2>3, <2>4 DEF ReduceOnce, LObject
  <2>8. Reducible(basis.polys, basis.redundant, p)
    BY <2>2, <2>3 DEF Reducible
  <2> HIDE DEF p, q, w
  <2>9. Heap!Exact!CancelTerm
    BY <1>0, <1>1, <2>5, <2>6, <2>7, <2>8, HeapExactAlgebra DEF Heap!Exact!CancelTerm, q
  <2> QED
    BY <2>1, <2>9 DEF Heap!Exact!Next
<1>4. CASE Heap!Emit
  <2>1. TermsInv' /\ p' = DropLeading(p)
    BY <1>4, EmitDrops
  <2>2. /\ leader # Nothing /\ Divisors(basis.polys, basis.redundant, leader.m) = {}
        /\ UNCHANGED <<basis, sugar, returned>>
    BY <1>4, HeapAlgebra DEF Heap!Emit, Heap!Found
  <2>3. p # Zero /\ LM(p) = leader.m /\ LC(p) = leader.c
    BY <2>2, LeaderLeads
  <2>4. q' = ParkTerm(q, LC(p), LM(p))
    BY <1>4, <2>3, EmitParks
  <2>5. ~Reducible(basis.polys, basis.redundant, p)
    BY <2>2, <2>3 DEF Reducible
  <2>6. w' = [w EXCEPT !.poly = DropLeading(@)]
    BY <1>1, <2>1, <2>2
  <2> HIDE DEF p, q, w
  <2>7. Heap!Exact!EmitTerm
    BY <1>0, <1>1, <2>2, <2>3, <2>4, <2>5, <2>6, HeapExactAlgebra
      DEF Heap!Exact!EmitTerm, q
  <2> QED
    BY <2>1, <2>7 DEF Heap!Exact!Next
<1>5. CASE Heap!Return
  <2>1. /\ leader = Nothing /\ heap = {} /\ ~returned /\ returned' = TRUE
        /\ UNCHANGED <<basis, reducers, sugar, leader, survivor>>
    BY <1>5 DEF Heap!Return
  <2>2. p = Zero
    BY <2>1, NothingIsLeft
  <2>3. p' = p /\ q' = q
    BY <2>1, SameHeapValues
  <2>4. w' = w
    BY <1>1, <2>1, <2>3
  <2>5. TermsInv'
    BY <2>1 DEF RestInv, TermsInv
  <2> HIDE DEF p, q, w
  <2>6. Heap!Exact!Return
    BY <1>0, <1>1, <2>1, <2>2, <2>3, <2>4, HeapExactAlgebra DEF Heap!Exact!Return, q
  <2> QED
    BY <2>5, <2>6 DEF Heap!Exact!Next
<1>6. CASE Heap!Returned
  <2>1. UNCHANGED <<basis, reducers, sugar, leader, survivor, returned>>
    BY <1>6 DEF Heap!Returned, Heap!vars
  <2>2. p' = p /\ q' = q
    BY <2>1, SameHeapValues
  <2>3. TermsInv'
    BY <2>1 DEF RestInv, TermsInv
  <2> QED
    BY <1>0, <1>1, <2>1, <2>2, <2>3 DEF Heap!Exact!vars
<1> QED
  BY <1>2, <1>3, <1>4, <1>5, <1>6 DEF Heap!Next

(* For every monic basis and every working polynomial, what the slab, the  *)
(* heap and the leader stand for goes through the full reduction: a turn   *)
(* of pop_with_cancellation changes nothing, a divisor that comes in       *)
(* cancels the leading term of that moment although that term is off the   *)
(* heap already, an emitted term is the leading one, and the call returns  *)
(* when nothing is left (reducer.rs:104-107, 349-413).                     *)
THEOREM HeapReducesExactly == ReducersSpec => HeapImplementsNormalForm
<1>1. ASSUME ReducersInit, use = "heap" PROVE Heap!Exact!Init /\ TermsInv
  <2>1. Heap!Init
    BY <1>1 DEF ReducersInit
  <2>2. PICK o \in WorkObjects : Heap!Rest = o.poly /\ sugar = o.sugar
    BY <2>1, FirstRest, HeapInitKeeps
  <2>3. o = LObject(o.poly, o.sugar)
    BY WorkAssumption
  <2>4. Heap!LObject(Heap!Rest, sugar) \in WorkObjects
    BY <2>2, <2>3, HeapExactAlgebra
  <2>5. basis \in Bases /\ returned = FALSE /\ survivor = << >>
    BY <2>1 DEF Heap!Init
  <2>6. Heap!Survivor = Zero
    BY <2>5, SurvivorIs
  <2> QED
    BY <2>1, <2>4, <2>5, <2>6, FirstRest, HeapInitKeeps, HeapExactAlgebra DEF Heap!Exact!Init
<1>2. ASSUME HeapInv, TermsInv, HeapInv', [ReducersNext]_reducersVars, use = "heap"
      PROVE  TermsInv' /\ [Heap!Exact!Next]_(Heap!Exact!vars)
  <2>1. RestInv
    BY <1>2 DEF RestInv
  <2>2. CASE HeapTurn
    BY <1>2, <2>1, <2>2, HeapStepIsExact DEF HeapTurn
  <2>3. CASE UNCHANGED reducersVars
    <3>1. UNCHANGED <<basis, reducers, sugar, leader, survivor, returned>>
      BY <2>3 DEF reducersVars, heapOnly
    <3>2. Heap!Rest' = Heap!Rest /\ Heap!Survivor' = Heap!Survivor
      BY <1>2, <2>1, <3>1, SameHeapValues
    <3>3. TermsInv'
      BY <1>2, <3>1 DEF TermsInv
    <3> QED
      BY <3>1, <3>2, <3>3 DEF Heap!Exact!vars, Heap!LObject
  <2> QED
    BY <1>2, <2>2, <2>3 DEF ReducersNext, GeobucketTurn, BucketTurn
<1>3. ReducersInit => (use = "heap" => Heap!Exact!Init /\ TermsInv)
  BY <1>1
<1>4. CallInv /\ CallInv' /\ (use = "heap" => TermsInv) /\ [ReducersNext]_reducersVars
        => /\ (use = "heap" => TermsInv)'
           /\ [use = "heap" => [Heap!Exact!Next]_(Heap!Exact!vars)]_reducersVars
  <2>1. [ReducersNext]_reducersVars => use' = use
    BY DEF ReducersNext, HeapTurn, GeobucketTurn, BucketTurn, reducersVars
  <2> QED
    BY <1>2, <2>1 DEF CallInv
<1> QED
  BY <1>3, <1>4, SpecCallInv, PTL DEF ReducersSpec, HeapImplementsNormalForm
=============================================================================

------------------------ MODULE PackedMonomialProofs ------------------------
(***************************************************************************)
(* The packed monomials for every number of variables, of words, of fields *)
(* in a word and of bits in a field: the arithmetic on words is that on    *)
(* exponents, and comparing the words is comparing the monomials.  A word  *)
(* is a number in base FIELD, so that these are facts about digits.        *)
(***************************************************************************)
EXTENDS PackedMonomial, AlgebraProofs

-----------------------------------------------------------------------------
(* Powers and sums.                                                        *)

LEMMA PowersExist ==
  ASSUME NEW N \in Nat, NEW base
  PROVE  \E f : f = [k \in 0 .. N |-> IF k = 0 THEN 1 ELSE base * f[k - 1]]
<1> DEFINE Fits(f, n) == f = [k \in 0 .. n |-> IF k = 0 THEN 1 ELSE base * f[k - 1]]
           S == {n \in 0 .. N : \E f : Fits(f, n)}
<1>1. 0 \in S
  <2> DEFINE f == [k \in 0 .. 0 |-> 1]
  <2>1. Fits(f, 0)
    OBVIOUS
  <2> HIDE DEF f
  <2> QED
    BY <2>1
<1>2. ASSUME NEW n \in 1 .. N, n - 1 \in S
      PROVE  n \in S
  <2>1. PICK f : Fits(f, n - 1)
    BY <1>2
  <2> DEFINE times(x) == base * x
             g == [k \in 0 .. n |-> IF k = n THEN times(f[n - 1]) ELSE f[k]]
  <2>2. \A k \in 0 .. n - 1 : f[k] = IF k = 0 THEN 1 ELSE times(f[k - 1])
    BY <2>1
  <2> HIDE DEF times
  <2>3. \A k \in 0 .. n : g[k] = IF k = 0 THEN 1 ELSE times(g[k - 1])
    BY <2>2
  <2>4. g = [k \in 0 .. n |-> g[k]]
    OBVIOUS
  <2> HIDE DEF g
  <2>5. Fits(g, n)
    BY <2>3, <2>4 DEF times
  <2> QED
    BY <2>5
<1>3. N \in S
  <2> HIDE DEF S
  <2> QED
    BY <1>1, <1>2, InductionUpTo
<1> QED
  BY <1>3

LEMMA SumsExist ==
  ASSUME NEW N \in Nat, NEW t
  PROVE  \E f : f = [k \in 0 .. N |-> IF k = 0 THEN 0 ELSE f[k - 1] + t[k - 1]]
<1> DEFINE Fits(f, n) == f = [k \in 0 .. n |-> IF k = 0 THEN 0 ELSE f[k - 1] + t[k - 1]]
           S == {n \in 0 .. N : \E f : Fits(f, n)}
<1>1. 0 \in S
  <2> DEFINE f == [k \in 0 .. 0 |-> 0]
  <2>1. Fits(f, 0)
    OBVIOUS
  <2> HIDE DEF f
  <2> QED
    BY <2>1
<1>2. ASSUME NEW n \in 1 .. N, n - 1 \in S
      PROVE  n \in S
  <2>1. PICK f : Fits(f, n - 1)
    BY <1>2
  <2> DEFINE g == [k \in 0 .. n |-> IF k = n THEN f[n - 1] + t[n - 1] ELSE f[k]]
  <2>2. \A k \in 0 .. n - 1 : f[k] = IF k = 0 THEN 0 ELSE f[k - 1] + t[k - 1]
    BY <2>1
  <2>3. \A k \in 0 .. n : g[k] = IF k = 0 THEN 0 ELSE g[k - 1] + t[k - 1]
    BY <2>2
  <2>4. g = [k \in 0 .. n |-> g[k]]
    OBVIOUS
  <2> HIDE DEF g
  <2>5. Fits(g, n)
    BY <2>3, <2>4
  <2> QED
    BY <2>5
<1>3. N \in S
  <2> HIDE DEF S
  <2> QED
    BY <1>1, <1>2, InductionUpTo
<1> QED
  BY <1>3

(* A quotient and a remainder are told by what they add up to.             *)
LEMMA Division ==
  ASSUME NEW n \in Nat, n > 0, NEW q \in Nat, NEW r \in 0 .. n - 1
  PROVE  /\ ((q * n + r) \div n) = q
         /\ ((q * n + r) % n) = r
<1> DEFINE z == q * n + r
           d == z \div n
           m == z % n
<1>1. z \in Nat
  OBVIOUS
<1>2. d \in Int /\ m \in 0 .. n - 1 /\ z = n * d + m
  <2> HIDE DEF z
  <2> QED
    BY <1>1
<1>3. n * d + m = q * n + r
  BY <1>2
<1> HIDE DEF z, d, m
<1> DEFINE l == d - q
<1>4. l \in Int /\ l * n = r - m
  <2>1. l * n = n * d - q * n
    BY <1>2
  <2> QED
    BY <1>2, <1>3, <2>1
<1> HIDE DEF l
<1>5. l = 0
  <2>1. CASE l >= 1
    <3>1. l * n >= n
      BY <1>4, <2>1
    <3> QED
      BY <1>2, <1>4, <3>1
  <2>2. CASE l <= -1
    <3>1. l * n <= -n
      BY <1>4, <2>2
    <3> QED
      BY <1>2, <1>4, <3>1
  <2> QED
    BY <1>4, <2>1, <2>2
<1>6. d = q /\ m = r
  <2>1. d = q
    BY <1>2, <1>5 DEF l
  <2>2. m = r
    BY <1>2, <1>4, <1>5
  <2> QED
    BY <2>1, <2>2
<1> QED
  BY <1>6 DEF d, m, z

-----------------------------------------------------------------------------
(* Fields.                                                                 *)

LEMMA Sizes ==
  /\ BITS_PER_VAR \in Nat /\ BYTES \in Nat /\ BYTES > 0 /\ W \in Nat /\ W > 0
  /\ NVars \in Nat /\ NVars > 0 /\ SEV_BITS \in Nat /\ SEV_BITS > 0
  /\ NVars < W * BYTES
BY PackingAssumption, NVarsAssumption

LEMMA FieldFacts ==
  GUARD \in Nat /\ GUARD > 0 /\ FIELD = 2 * GUARD /\ MAX_VAR_EXP = GUARD - 1
<1>0. BITS_PER_VAR \in Nat /\ BITS_PER_VAR > 1
  BY PackingAssumption
<1>1. TwoTo = [n \in 0 .. BITS_PER_VAR |-> IF n = 0 THEN 1 ELSE 2 * TwoTo[n - 1]]
  <2>1. \E f : f = [n \in 0 .. BITS_PER_VAR |-> IF n = 0 THEN 1 ELSE 2 * f[n - 1]]
    BY <1>0, PowersExist
  <2> QED
    BY <2>1 DEF TwoTo
<1>2. TwoTo[0] = 1 /\ \A n \in 1 .. BITS_PER_VAR : TwoTo[n] = 2 * TwoTo[n - 1]
  <2> DEFINE f == TwoTo
  <2>1. f = [n \in 0 .. BITS_PER_VAR |-> IF n = 0 THEN 1 ELSE 2 * f[n - 1]]
    BY <1>1
  <2> HIDE DEF f
  <2>2. f[0] = 1 /\ \A n \in 1 .. BITS_PER_VAR : f[n] = 2 * f[n - 1]
    BY <1>0, <2>1
  <2> QED
    BY <2>2 DEF f
<1> DEFINE S == {n \in 0 .. BITS_PER_VAR : TwoTo[n] \in Nat /\ TwoTo[n] > 0}
<1>3. 0 \in S
  BY <1>0, <1>2
<1>4. \A n \in 1 .. BITS_PER_VAR : n - 1 \in S => n \in S
  BY <1>2
<1>5. BITS_PER_VAR - 1 \in S
  <2> HIDE DEF S
  <2> QED
    BY <1>0, <1>3, <1>4, InductionUpTo
<1>6. FIELD = 2 * GUARD
  BY <1>0, <1>2 DEF FIELD, GUARD
<1> QED
  BY <1>5, <1>6 DEF GUARD, MAX_VAR_EXP

LEMMA PlaceFacts ==
  /\ Place[0] = 1
  /\ \A k \in 1 .. BYTES : Place[k] = FIELD * Place[k - 1]
  /\ \A k \in 0 .. BYTES : Place[k] \in Nat /\ Place[k] > 0
<1>0. BYTES \in Nat /\ FIELD \in Nat /\ FIELD > 0
  BY Sizes, FieldFacts
<1> DEFINE times(x) == FIELD * x
           f == Place
<1>1. f = [k \in 0 .. BYTES |-> IF k = 0 THEN 1 ELSE times(f[k - 1])]
  <2>0. \A base : \E g : g = [k \in 0 .. BYTES |-> IF k = 0 THEN 1 ELSE base * g[k - 1]]
    <3>1. BYTES \in Nat
      BY <1>0
    <3> TAKE base
    <3> QED
      BY <3>1, PowersExist, Zenon
  <2>1. \E g : g = [k \in 0 .. BYTES |-> IF k = 0 THEN 1 ELSE FIELD * g[k - 1]]
    BY <2>0, Zenon
  <2> QED
    BY <2>1 DEF Place
<1> HIDE DEF times, f
<1>2. f[0] = 1 /\ \A k \in 1 .. BYTES : f[k] = times(f[k - 1])
  BY <1>0, <1>1
<1> DEFINE S == {k \in 0 .. BYTES : f[k] \in Nat /\ f[k] > 0}
<1>3. 0 \in S
  BY <1>0, <1>2
<1>4. ASSUME NEW k \in 1 .. BYTES, k - 1 \in S PROVE k \in S
  <2> DEFINE g == f[k - 1]
  <2>1. g \in Nat /\ g > 0 /\ f[k] = FIELD * g
    BY <1>2, <1>4 DEF times
  <2> HIDE DEF g
  <2>2. FIELD * g \in Nat /\ FIELD * g > 0
    BY <1>0, <2>1
  <2> QED
    BY <2>1, <2>2
<1>5. \A k \in 0 .. BYTES : k \in S
  <2> HIDE DEF S
  <2> QED
    BY <1>0, <1>3, <1>4, InductionUpTo
<1> QED
  BY <1>2, <1>5 DEF f, times

-----------------------------------------------------------------------------
(* One word.                                                               *)

(* The fields of a word.                                                   *)
Bytes == [0 .. BYTES - 1 -> 0 .. FIELD - 1]

(* The value of the fields below each place.                               *)
Below(byte) ==
  CHOOSE f : f = [k \in 0 .. BYTES |->
                    IF k = 0 THEN 0 ELSE f[k - 1] + byte[k - 1] * Place[k - 1]]

LEMMA BelowFacts ==
  ASSUME NEW byte
  PROVE  /\ WordOf(byte) = Below(byte)[BYTES]
         /\ Below(byte)[0] = 0
         /\ \A k \in 1 .. BYTES : Below(byte)[k] = Below(byte)[k - 1] + byte[k - 1] * Place[k - 1]
<1>0. BYTES \in Nat
  BY Sizes
<1>1. WordOf(byte) = Below(byte)[BYTES]
  BY DEF WordOf, Below
<1> DEFINE t == [k \in 0 .. BYTES |-> byte[k] * Place[k]]
<1>2. \E f : f = [k \in 0 .. BYTES |-> IF k = 0 THEN 0 ELSE f[k - 1] + t[k - 1]]
  <2> HIDE DEF t
  <2> QED
    BY <1>0, SumsExist
<1>3. PICK f : f = [k \in 0 .. BYTES |-> IF k = 0 THEN 0 ELSE f[k - 1] + t[k - 1]]
  BY <1>2
<1>4. \A k \in 1 .. BYTES : t[k - 1] = byte[k - 1] * Place[k - 1]
  BY <1>0
<1>5. f = [k \in 0 .. BYTES |-> IF k = 0 THEN 0 ELSE f[k - 1] + byte[k - 1] * Place[k - 1]]
  <2> HIDE DEF t
  <2> DEFINE u(k) == byte[k - 1] * Place[k - 1]
  <2>1. \A k \in 1 .. BYTES : t[k - 1] = u(k)
    BY <1>4
  <2> HIDE DEF u
  <2>2. f = [k \in 0 .. BYTES |-> IF k = 0 THEN 0 ELSE f[k - 1] + u(k)]
    BY <1>0, <1>3, <2>1
  <2> QED
    BY <2>2 DEF u
<1> DEFINE g == Below(byte)
           u(k) == byte[k - 1] * Place[k - 1]
<1>6. g = [k \in 0 .. BYTES |-> IF k = 0 THEN 0 ELSE g[k - 1] + u(k)]
  <2>1. \E h : h = [k \in 0 .. BYTES |-> IF k = 0 THEN 0 ELSE h[k - 1] + byte[k - 1] * Place[k - 1]]
    BY <1>5
  <2> QED
    BY <2>1 DEF Below
<1> HIDE DEF g, u
<1>7. g[0] = 0 /\ \A k \in 1 .. BYTES : g[k] = g[k - 1] + u(k)
  BY <1>0, <1>6
<1> QED
  BY <1>1, <1>7 DEF g, u

(* A field more multiplies the range.                                      *)
LEMMA AppendDigit ==
  ASSUME NEW p \in Nat, NEW x \in Nat, x < p, NEW f \in Nat, NEW y \in Nat, y < f
  PROVE  x + y * p < f * p
<1> DEFINE r == (f - 1) - y
<1>1. r \in Nat /\ f = y + r + 1
  OBVIOUS
<1> HIDE DEF r
<1>2. f * p = y * p + r * p + p /\ r * p >= 0 /\ y * p \in Nat
  BY <1>1
<1> QED
  BY <1>2

(* The higher digit decides a comparison.                                  *)
LEMMA CompareDigits ==
  ASSUME NEW p \in Nat, NEW x \in Nat, x < p, NEW u \in Nat, u < p,
         NEW y \in Nat, NEW v \in Nat
  PROVE  x + y * p < u + v * p <=> y < v \/ (y = v /\ x < u)
<1>1. CASE y < v
  <2>1. x + y * p < v * p
    BY <1>1, AppendDigit
  <2>2. v * p \in Nat /\ y * p \in Nat
    OBVIOUS
  <2> QED
    BY <1>1, <2>1, <2>2
<1>2. CASE v < y
  <2>1. u + v * p < y * p
    BY <1>2, AppendDigit
  <2>2. v * p \in Nat /\ y * p \in Nat
    OBVIOUS
  <2> QED
    BY <1>2, <2>1, <2>2
<1>3. CASE y = v
  <2> DEFINE m == y * p
  <2>1. m \in Nat /\ m = v * p
    BY <1>3
  <2> HIDE DEF m
  <2>2. x + m < u + m <=> x < u
    BY <2>1
  <2> QED
    BY <1>3, <2>1, <2>2 DEF m
<1> QED
  BY <1>1, <1>2, <1>3

LEMMA BelowBounds ==
  ASSUME NEW byte \in Bytes
  PROVE  \A k \in 0 .. BYTES : Below(byte)[k] \in Nat /\ Below(byte)[k] < Place[k]
<1>0. BYTES \in Nat /\ FIELD \in Nat
  BY Sizes, FieldFacts
<1> DEFINE S == {k \in 0 .. BYTES : Below(byte)[k] \in Nat /\ Below(byte)[k] < Place[k]}
<1>1. 0 \in S
  BY <1>0, BelowFacts, PlaceFacts
<1>2. ASSUME NEW k \in 1 .. BYTES, k - 1 \in S PROVE k \in S
  <2> DEFINE x == Below(byte)[k - 1]
             y == byte[k - 1]
             p == Place[k - 1]
  <2>1. x \in Nat /\ x < p
    BY <1>2
  <2>2. p \in Nat /\ Place[k] = FIELD * p
    BY <1>0, PlaceFacts
  <2>3. y \in Nat /\ y < FIELD
    BY <1>0 DEF Bytes
  <2>4. Below(byte)[k] = x + y * p
    BY BelowFacts
  <2> HIDE DEF x, y, p
  <2>5. x + y * p < FIELD * p
    BY <1>0, <2>1, <2>2, <2>3, AppendDigit
  <2>6. x + y * p \in Nat
    BY <2>1, <2>2, <2>3
  <2> QED
    BY <2>2, <2>4, <2>5, <2>6
<1>3. \A k \in 0 .. BYTES : k \in S
  <2> HIDE DEF S
  <2> QED
    BY <1>0, <1>1, <1>2, InductionUpTo
<1> QED
  BY <1>3

LEMMA WordBounds ==
  ASSUME NEW byte \in Bytes
  PROVE  WordOf(byte) \in Nat /\ WordOf(byte) < WORD
<1>1. BYTES \in 0 .. BYTES
  BY Sizes
<1> QED
  BY <1>1, BelowFacts, BelowBounds DEF WORD

(* What is above a place is a multiple of it.                              *)
LEMMA AbovePlace ==
  ASSUME NEW byte \in Bytes, NEW j \in 0 .. BYTES
  PROVE  \A n \in 0 .. BYTES : n >= j =>
           /\ \E g \in Nat : Place[n] = g * Place[j]
           /\ \E h \in Nat : Below(byte)[n] = h * Place[j] + Below(byte)[j]
<1>0. BYTES \in Nat /\ FIELD \in Nat
  BY Sizes, FieldFacts
<1> DEFINE q == Place[j]
           z == Below(byte)[j]
           Good(n) == n >= j =>
             /\ \E g \in Nat : Place[n] = g * q
             /\ \E h \in Nat : Below(byte)[n] = h * q + z
           S == {n \in 0 .. BYTES : Good(n)}
<1>1. q \in Nat /\ z \in Nat
  BY BelowBounds, PlaceFacts
<1>2. Good(j)
  <2>1. Place[j] = 1 * q /\ Below(byte)[j] = 0 * q + z
    BY <1>1
  <2> QED
    BY <2>1
<1> HIDE DEF q, z
<1>3. 0 \in S
  <2>1. CASE j = 0
    BY <1>0, <1>2, <2>1
  <2>2. CASE j # 0
    BY <1>0, <2>2
  <2> QED
    BY <2>1, <2>2
<1>4. ASSUME NEW n \in 1 .. BYTES, n - 1 \in S PROVE n \in S
  <2>1. CASE n = j
    BY <1>2, <2>1
  <2>2. CASE n < j
    BY <2>2
  <2>3. CASE n > j
    <3>1. n - 1 >= j
      BY <2>3
    <3>2. PICK g \in Nat : Place[n - 1] = g * q
      BY <1>4, <3>1
    <3>3. PICK h \in Nat : Below(byte)[n - 1] = h * q + z
      BY <1>4, <3>1
    <3> DEFINE y == byte[n - 1]
    <3>4. y \in Nat
      BY <1>0 DEF Bytes
    <3>5. Below(byte)[n] = (h * q + z) + y * (g * q)
      BY <3>2, <3>3, BelowFacts
    <3>6. Place[n] = FIELD * (g * q)
      BY <3>2, PlaceFacts
    <3> HIDE DEF y
    <3>7. Place[n] = (FIELD * g) * q /\ FIELD * g \in Nat
      BY <1>0, <1>1, <3>6
    <3>8. Below(byte)[n] = (h + y * g) * q + z /\ h + y * g \in Nat
      BY <1>1, <3>4, <3>5
    <3> QED
      BY <3>7, <3>8
  <2> QED
    BY <1>0, <2>1, <2>2, <2>3
<1>5. \A n \in 0 .. BYTES : n \in S
  <2> HIDE DEF S
  <2> QED
    BY <1>0, <1>3, <1>4, InductionUpTo
<1> QED
  BY <1>5 DEF q, z

(* Shifting and masking a word gives the field back.                       *)
LEMMA ByteOfWord ==
  ASSUME NEW byte \in Bytes, NEW k \in 0 .. BYTES - 1
  PROVE  ((WordOf(byte) \div Place[k]) % FIELD) = byte[k]
<1>0. BYTES \in Nat /\ FIELD \in Nat /\ FIELD > 0
  BY Sizes, FieldFacts
<1> DEFINE p == Place[k]
           x == Below(byte)[k]
           y == byte[k]
<1>1. p \in Nat /\ p > 0 /\ x \in 0 .. p - 1
  BY <1>0, PlaceFacts, BelowBounds
<1>2. y \in 0 .. FIELD - 1
  BY <1>0 DEF Bytes
<1>3. k + 1 \in 1 .. BYTES /\ (k + 1) - 1 = k
  BY <1>0
<1>4. Place[k + 1] = FIELD * p /\ Below(byte)[k + 1] = x + y * p
  BY <1>3, PlaceFacts, BelowFacts
<1>5. PICK h \in Nat : Below(byte)[BYTES] = h * Place[k + 1] + Below(byte)[k + 1]
  BY <1>0, <1>3, AbovePlace
<1> DEFINE d == h * FIELD + y
<1> HIDE DEF p, x, y
<1>6. d \in Nat /\ WordOf(byte) = d * p + x
  <2>1. WordOf(byte) = h * (FIELD * p) + (x + y * p)
    BY <1>4, <1>5, BelowFacts
  <2>2. h * (FIELD * p) = (h * FIELD) * p
    BY <1>0, <1>1
  <2>3. (h * FIELD + y) * p = (h * FIELD) * p + y * p
    BY <1>0, <1>1, <1>2
  <2>4. h * FIELD \in Nat /\ (h * FIELD) * p \in Nat /\ y * p \in Nat
    BY <1>0, <1>1, <1>2
  <2> QED
    BY <1>1, <1>2, <2>1, <2>2, <2>3, <2>4
<1>7. ((d * p + x) \div p) = d
  <2> HIDE DEF d
  <2> QED
    BY <1>1, <1>6, Division
<1>8. (d % FIELD) = y
  BY <1>0, <1>2, Division
<1> HIDE DEF d
<1> QED
  BY <1>6, <1>7, <1>8 DEF p, y

LEMMA SameBelow ==
  ASSUME NEW d, NEW e, NEW n \in 0 .. BYTES, \A k \in 0 .. n - 1 : d[k] = e[k]
  PROVE  Below(d)[n] = Below(e)[n]
<1>0. BYTES \in Nat
  BY Sizes
<1> DEFINE S == {k \in 0 .. n : Below(d)[k] = Below(e)[k]}
<1>1. 0 \in S
  BY <1>0, BelowFacts
<1>2. ASSUME NEW k \in 1 .. n, k - 1 \in S PROVE k \in S
  <2>1. k \in 1 .. BYTES /\ k - 1 \in 0 .. n - 1
    BY <1>0
  <2>2. Below(d)[k] = Below(d)[k - 1] + d[k - 1] * Place[k - 1]
    BY <2>1, BelowFacts
  <2>3. Below(e)[k] = Below(e)[k - 1] + e[k - 1] * Place[k - 1]
    BY <2>1, BelowFacts
  <2>4. d[k - 1] = e[k - 1] /\ Below(d)[k - 1] = Below(e)[k - 1]
    BY <1>2, <2>1
  <2>5. Below(d)[k] = Below(e)[k]
    BY <2>2, <2>3, <2>4, Zenon
  <2> QED
    BY <2>5
<1>3. n \in S
  <2> HIDE DEF S
  <2> QED
    BY <1>0, <1>1, <1>2, InductionUpTo
<1> QED
  BY <1>3

(* The last field and what is below it.                                    *)
LEMMA TopField ==
  ASSUME NEW byte \in Bytes
  PROVE  /\ Place[BYTES - 1] \in Nat /\ Place[BYTES - 1] > 0
         /\ WORD = FIELD * Place[BYTES - 1]
         /\ Below(byte)[BYTES - 1] \in 0 .. Place[BYTES - 1] - 1
         /\ byte[BYTES - 1] \in 0 .. FIELD - 1
         /\ WordOf(byte) = byte[BYTES - 1] * Place[BYTES - 1] + Below(byte)[BYTES - 1]
<1>0. BYTES \in 1 .. BYTES /\ BYTES - 1 \in 0 .. BYTES /\ BYTES - 1 \in 0 .. BYTES - 1
      /\ FIELD \in Nat
  BY Sizes, FieldFacts
<1>1. Place[BYTES - 1] \in Nat /\ Place[BYTES - 1] > 0 /\ WORD = FIELD * Place[BYTES - 1]
  BY <1>0, PlaceFacts DEF WORD
<1>2. Below(byte)[BYTES - 1] \in 0 .. Place[BYTES - 1] - 1
  BY <1>0, <1>1, BelowBounds
<1>3. byte[BYTES - 1] \in 0 .. FIELD - 1
  BY <1>0 DEF Bytes
<1>4. WordOf(byte) = Below(byte)[BYTES - 1] + byte[BYTES - 1] * Place[BYTES - 1]
  BY <1>0, BelowFacts
<1>5. byte[BYTES - 1] * Place[BYTES - 1] \in Nat
  BY <1>0, <1>1, <1>3
<1> QED
  BY <1>1, <1>2, <1>3, <1>4, <1>5

(* Adding two words adds their fields, as long as none but the last one    *)
(* carries; what the last one carries is lost.                             *)
LEMMA SumOfWords ==
  ASSUME NEW d \in Bytes, NEW e \in Bytes, \A k \in 0 .. BYTES - 2 : d[k] + e[k] < FIELD
  PROVE  LET s == [k \in 0 .. BYTES - 1 |-> (d[k] + e[k]) % FIELD]
         IN  s \in Bytes /\ ((WordOf(d) + WordOf(e)) % WORD) = WordOf(s)
<1>0. BYTES \in Nat /\ BYTES > 0 /\ FIELD \in Nat /\ FIELD > 0
  BY Sizes, FieldFacts
<1> DEFINE s == [k \in 0 .. BYTES - 1 |-> (d[k] + e[k]) % FIELD]
           t == BYTES - 1
           p == Place[t]
<1>1. \A k \in 0 .. BYTES - 1 : d[k] \in Nat /\ e[k] \in Nat
  BY <1>0 DEF Bytes
<1>2. \A k \in 0 .. BYTES - 1 : s[k] = ((d[k] + e[k]) % FIELD) /\ s[k] \in 0 .. FIELD - 1
  BY <1>0, <1>1
<1>3. s \in Bytes
  BY <1>2 DEF Bytes
<1>4. ASSUME NEW k \in 0 .. BYTES - 2 PROVE s[k] = d[k] + e[k]
  <2> DEFINE z == d[k] + e[k]
  <2>1. k \in 0 .. BYTES - 1 /\ z \in Nat /\ z < FIELD
    BY <1>0, <1>1
  <2>2. s[k] = (z % FIELD)
    BY <1>2, <2>1
  <2> HIDE DEF s, z
  <2>3. (z % FIELD) = z
    BY <1>0, <2>1
  <2> QED
    BY <2>2, <2>3 DEF z
<1>5. t \in Nat /\ t \in 0 .. BYTES /\ t \in 0 .. BYTES - 1
  BY <1>0
<1> HIDE DEF s
<1>6. Below(s)[t] = Below(d)[t] + Below(e)[t]
  <2> DEFINE S == {k \in 0 .. t : Below(s)[k] = Below(d)[k] + Below(e)[k]}
  <2>1. 0 \in S
    BY <1>0, BelowFacts
  <2>2. ASSUME NEW k \in 1 .. t, k - 1 \in S PROVE k \in S
    <3>1. k \in 1 .. BYTES /\ k - 1 \in 0 .. BYTES - 2 /\ k - 1 \in 0 .. BYTES /\ k - 1 \in 0 .. BYTES - 1
      BY <1>0
    <3> DEFINE x == d[k - 1]
               y == e[k - 1]
               q == Place[k - 1]
               u == Below(d)[k - 1]
               v == Below(e)[k - 1]
    <3>2. x \in Nat /\ y \in Nat /\ q \in Nat /\ u \in Nat /\ v \in Nat
      BY <1>1, <3>1, PlaceFacts, BelowBounds
    <3>3. Below(d)[k] = u + x * q /\ Below(e)[k] = v + y * q
      BY <3>1, BelowFacts
    <3>4. s[k - 1] = x + y /\ Below(s)[k - 1] = u + v
      BY <1>4, <2>2, <3>1
    <3>5. Below(s)[k] = Below(s)[k - 1] + s[k - 1] * q
      BY <3>1, BelowFacts
    <3> HIDE DEF x, y, q, u, v
    <3>6. Below(s)[k] = Below(d)[k] + Below(e)[k]
      <4>1. Below(s)[k] = (u + v) + (x + y) * q
        BY <3>4, <3>5, Zenon
      <4>2. (x + y) * q = x * q + y * q /\ x * q \in Nat /\ y * q \in Nat
        BY <3>2
      <4> QED
        BY <3>2, <3>3, <4>1, <4>2
    <3> QED
      BY <3>6
  <2>3. t \in S
    <3> HIDE DEF S, t
    <3> QED
      BY <1>5, <2>1, <2>2, InductionUpTo
  <2> QED
    BY <2>3
<1> DEFINE x == Below(d)[t]
           u == Below(e)[t]
           z == Below(s)[t]
           y == d[t]
           v == e[t]
           w == s[t]
           c == (y + v) \div FIELD
<1>7. /\ p \in Nat /\ WORD = FIELD * p
      /\ x \in Nat /\ u \in Nat /\ z \in Nat /\ z = x + u
      /\ y \in Nat /\ v \in Nat /\ w \in Nat
      /\ WordOf(d) = y * p + x /\ WordOf(e) = v * p + u /\ WordOf(s) = w * p + z
  BY <1>0, <1>3, <1>6, TopField
<1>8. c \in Nat /\ y + v = FIELD * c + w
  <2>1. w = ((y + v) % FIELD)
    BY <1>2, <1>5
  <2> HIDE DEF y, v, w
  <2> DEFINE n == y + v
  <2>2. n \in Nat /\ (n \div FIELD) \in Nat /\ n = FIELD * (n \div FIELD) + (n % FIELD)
    <3>1. n \in Nat
      BY <1>7
    <3> HIDE DEF n
    <3> QED
      BY <1>0, <3>1
  <2> QED
    BY <2>1, <2>2
<1> HIDE DEF p, x, u, z, y, v, w, c
<1>9. WordOf(d) + WordOf(e) = c * WORD + WordOf(s)
  <2>1. y * p + v * p = (y + v) * p
    BY <1>7
  <2>2. (FIELD * c + w) * p = (FIELD * c) * p + w * p
    BY <1>0, <1>7, <1>8
  <2>3. (FIELD * c) * p = c * (FIELD * p)
    BY <1>0, <1>7, <1>8
  <2>4. y * p \in Nat /\ v * p \in Nat /\ w * p \in Nat /\ c * (FIELD * p) \in Nat
    BY <1>0, <1>7, <1>8
  <2> QED
    BY <1>7, <1>8, <2>1, <2>2, <2>3, <2>4
<1>10. WordOf(s) \in 0 .. WORD - 1 /\ WORD \in Nat /\ WORD > 0
  <2>1. WORD \in Nat /\ WORD > 0
    BY <1>0, PlaceFacts DEF WORD
  <2> QED
    BY <1>3, <2>1, WordBounds
<1>11. ((c * WORD + WordOf(s)) % WORD) = WordOf(s)
  BY <1>8, <1>10, Division
<1> QED
  BY <1>3, <1>9, <1>11 DEF s

(* Masking the last field out of a word and setting it anew.               *)
LEMMA LastFieldSet ==
  ASSUME NEW d \in Bytes, NEW c \in 0 .. FIELD - 1
  PROVE  LET e == [d EXCEPT ![BYTES - 1] = c]
         IN  /\ e \in Bytes
             /\ (WordOf(d) % Place[BYTES - 1]) + c * Place[BYTES - 1] = WordOf(e)
<1>0. BYTES \in Nat /\ BYTES > 0 /\ BYTES - 1 \in 0 .. BYTES
  BY Sizes
<1> DEFINE e == [d EXCEPT ![BYTES - 1] = c]
<1>1. e \in Bytes /\ e[BYTES - 1] = c
  BY <1>0 DEF Bytes
<1>2. \A k \in 0 .. (BYTES - 1) - 1 : d[k] = e[k]
  BY <1>0 DEF Bytes
<1> HIDE DEF e
<1>3. Below(d)[BYTES - 1] = Below(e)[BYTES - 1]
  <2> DEFINE n == BYTES - 1
  <2>1. n \in 0 .. BYTES /\ \A k \in 0 .. n - 1 : d[k] = e[k]
    BY <1>0, <1>2
  <2> HIDE DEF n
  <2>2. Below(d)[n] = Below(e)[n]
    BY <2>1, SameBelow
  <2> QED
    BY <2>2 DEF n
<1> DEFINE p == Place[BYTES - 1]
           x == Below(d)[BYTES - 1]
           y == d[BYTES - 1]
<1>4. /\ p \in Nat /\ p > 0 /\ x \in 0 .. p - 1 /\ y \in Nat
      /\ WordOf(d) = y * p + x
  BY TopField
<1>5. WordOf(e) = c * p + x
  BY <1>1, <1>3, TopField
<1> HIDE DEF p, x, y
<1>6. ((y * p + x) % p) = x
  BY <1>4, Division
<1>7. (WordOf(d) % p) + c * p = WordOf(e)
  <2>1. FIELD \in Nat
    BY FieldFacts
  <2>2. c * p \in Nat
    BY <1>4, <2>1
  <2> QED
    BY <1>4, <1>5, <1>6, <2>2
<1> QED
  BY <1>1, <1>7 DEF e, p

(* Of the highest of the first n positions where d and e differ, d has the *)
(* smaller entry.                                                          *)
Before(d, e, n) ==
  \E k \in 0 .. n - 1 : d[k] < e[k] /\ \A l \in (k + 1) .. (n - 1) : d[l] = e[l]

LEMMA BeforeStep ==
  ASSUME NEW d, NEW e, NEW n \in Nat, d[n] \in Nat, e[n] \in Nat
  PROVE  Before(d, e, n + 1) <=> d[n] < e[n] \/ (d[n] = e[n] /\ Before(d, e, n))
<1>1. ASSUME Before(d, e, n + 1) PROVE d[n] < e[n] \/ (d[n] = e[n] /\ Before(d, e, n))
  <2>1. PICK k \in 0 .. n : d[k] < e[k] /\ \A l \in (k + 1) .. n : d[l] = e[l]
    BY <1>1 DEF Before
  <2>2. CASE k = n
    BY <2>1, <2>2
  <2>3. CASE k # n
    <3>1. k \in 0 .. n - 1 /\ n \in (k + 1) .. n /\ \A l \in (k + 1) .. (n - 1) : l \in (k + 1) .. n
      BY <2>3
    <3>2. Before(d, e, n)
      BY <2>1, <3>1 DEF Before
    <3> QED
      BY <2>1, <3>1, <3>2
  <2> QED
    BY <2>2, <2>3
<1>2. ASSUME d[n] < e[n] PROVE Before(d, e, n + 1)
  <2>1. n \in 0 .. (n + 1) - 1 /\ \A l \in (n + 1) .. ((n + 1) - 1) : FALSE
    OBVIOUS
  <2> QED
    BY <1>2, <2>1 DEF Before
<1>3. ASSUME d[n] = e[n], Before(d, e, n) PROVE Before(d, e, n + 1)
  <2>1. PICK k \in 0 .. n - 1 : d[k] < e[k] /\ \A l \in (k + 1) .. (n - 1) : d[l] = e[l]
    BY <1>3 DEF Before
  <2>2. k \in 0 .. (n + 1) - 1 /\ \A l \in (k + 1) .. ((n + 1) - 1) : l = n \/ l \in (k + 1) .. (n - 1)
    OBVIOUS
  <2>3. \A l \in (k + 1) .. ((n + 1) - 1) : d[l] = e[l]
    BY <1>3, <2>1, <2>2
  <2> QED
    BY <2>1, <2>2, <2>3 DEF Before
<1> QED
  BY <1>1, <1>2, <1>3

(* Words compare as their fields do, from the top.                         *)
LEMMA OrderOfWords ==
  ASSUME NEW d \in Bytes, NEW e \in Bytes
  PROVE  WordOf(d) < WordOf(e) <=> Before(d, e, BYTES)
<1>0. BYTES \in Nat
  BY Sizes
<1> DEFINE S == {n \in 0 .. BYTES : Below(d)[n] < Below(e)[n] <=> Before(d, e, n)}
<1>1. 0 \in S
  <2>1. ~Before(d, e, 0)
    BY DEF Before
  <2> QED
    BY <1>0, <2>1, BelowFacts
<1>2. ASSUME NEW n \in 1 .. BYTES, n - 1 \in S PROVE n \in S
  <2> DEFINE k == n - 1
             p == Place[k]
             x == Below(d)[k]
             u == Below(e)[k]
             y == d[k]
             v == e[k]
  <2>1. k \in 0 .. BYTES - 1 /\ k \in 0 .. BYTES /\ k \in Nat /\ n = k + 1
    BY <1>0
  <2>2. p \in Nat /\ x \in Nat /\ x < p /\ u \in Nat /\ u < p
    BY <2>1, PlaceFacts, BelowBounds
  <2>3. y \in Nat /\ v \in Nat
    BY <2>1, FieldFacts DEF Bytes
  <2>4. Below(d)[n] = x + y * p /\ Below(e)[n] = u + v * p
    BY BelowFacts
  <2>5. x < u <=> Before(d, e, k)
    BY <1>2
  <2>6. Before(d, e, n) <=> y < v \/ (y = v /\ Before(d, e, k))
    <3> HIDE DEF k
    <3> QED
      BY <2>1, <2>3, BeforeStep
  <2> HIDE DEF p, x, u, y, v, k
  <2>7. x + y * p < u + v * p <=> y < v \/ (y = v /\ x < u)
    BY <2>2, <2>3, CompareDigits
  <2>8. Below(d)[n] < Below(e)[n] <=> Before(d, e, n)
    BY <2>4, <2>5, <2>6, <2>7
  <2> QED
    BY <2>8
<1>3. BYTES \in S
  <2> HIDE DEF S
  <2> QED
    BY <1>0, <1>1, <1>2, InductionUpTo
<1> QED
  BY <1>3, BelowFacts

(* A word is told by its fields.                                           *)
LEMMA SameWord ==
  ASSUME NEW d \in Bytes, NEW e \in Bytes, WordOf(d) = WordOf(e)
  PROVE  d = e
<1>1. \A k \in 0 .. BYTES - 1 : d[k] = e[k]
  BY ByteOfWord
<1>2. d = [k \in 0 .. BYTES - 1 |-> d[k]] /\ e = [k \in 0 .. BYTES - 1 |-> e[k]]
  BY DEF Bytes
<1>3. [k \in 0 .. BYTES - 1 |-> d[k]] = [k \in 0 .. BYTES - 1 |-> e[k]]
  BY <1>1, Zenon
<1> QED
  BY <1>2, <1>3, Zenon

-----------------------------------------------------------------------------
(* All words.                                                              *)

(* The fields of all words, and those of word i.                           *)
Fields == [Field -> 0 .. FIELD - 1]
Chunk(byte, i) == [k \in 0 .. BYTES - 1 |-> byte[i * BYTES + k]]

(* A position is a word and a field in it.                                 *)
LEMMA Positions ==
  /\ CAP_BYTE \in Nat /\ CAP_BYTE + 1 = W * BYTES
  /\ \A i \in Word, k \in 0 .. BYTES - 1 :
       /\ i * BYTES + k \in Field
       /\ ((i * BYTES + k) \div BYTES) = i /\ ((i * BYTES + k) % BYTES) = k
  /\ \A n \in Field : /\ (n \div BYTES) \in Word /\ (n % BYTES) \in 0 .. BYTES - 1
                      /\ n = (n \div BYTES) * BYTES + (n % BYTES)
  /\ W - 1 \in Word /\ BYTES - 1 \in 0 .. BYTES - 1
  /\ CAP_BYTE = (W - 1) * BYTES + (BYTES - 1)
  /\ \A i \in Word, k \in 0 .. BYTES - 1 :
       i * BYTES + k = CAP_BYTE => i = W - 1 /\ k = BYTES - 1
<1>0. BYTES \in Nat /\ BYTES > 0 /\ W \in Nat /\ W > 0
  BY Sizes
<1> DEFINE area == W * BYTES
<1>1. area \in Nat /\ area >= BYTES /\ area = (W - 1) * BYTES + BYTES
  <2> DEFINE m == (W - 1) * BYTES
  <2>1. m \in Nat /\ area = m + BYTES
    BY <1>0
  <2> QED
    BY <1>0, <2>1
<1>2. CAP_BYTE \in Nat /\ CAP_BYTE + 1 = area
  BY <1>0, <1>1 DEF CAP_BYTE
<1>3. CAP_BYTE = (W - 1) * BYTES + (BYTES - 1)
  <2> DEFINE m == (W - 1) * BYTES
  <2>1. m \in Nat
    BY <1>0
  <2>2. area = m + BYTES
    BY <1>1
  <2> HIDE DEF m, area
  <2>3. CAP_BYTE = m + (BYTES - 1)
    BY <1>0, <1>1, <1>2, <2>1, <2>2
  <2> QED
    BY <2>3 DEF m
<1>4. ASSUME NEW i \in Word, NEW k \in 0 .. BYTES - 1
      PROVE  /\ i * BYTES + k \in Field
             /\ ((i * BYTES + k) \div BYTES) = i /\ ((i * BYTES + k) % BYTES) = k
  <2>1. i \in Nat /\ i <= W - 1
    BY <1>0 DEF Word
  <2>2. i * BYTES \in Nat /\ i * BYTES <= (W - 1) * BYTES
    <3> DEFINE r == (W - 1) - i
    <3>1. r \in Nat /\ W - 1 = i + r
      BY <1>0, <2>1
    <3> HIDE DEF r
    <3>2. (i + r) * BYTES = i * BYTES + r * BYTES /\ r * BYTES \in Nat /\ i * BYTES \in Nat
      BY <1>0, <2>1, <3>1
    <3> QED
      BY <3>1, <3>2
  <2>3. i * BYTES + k \in 0 .. CAP_BYTE
    <3> DEFINE x == i * BYTES
               m == (W - 1) * BYTES
    <3>1. x \in Nat /\ x <= m /\ m \in Nat /\ CAP_BYTE = m + (BYTES - 1)
      BY <1>0, <1>3, <2>2
    <3> HIDE DEF x, m
    <3>2. x + k \in 0 .. CAP_BYTE
      BY <1>0, <1>2, <3>1
    <3> QED
      BY <3>2 DEF x
  <2>4. ((i * BYTES + k) \div BYTES) = i /\ ((i * BYTES + k) % BYTES) = k
    BY <1>0, <2>1, Division
  <2> QED
    BY <2>3, <2>4 DEF Field
<1>5. ASSUME NEW n \in Field
      PROVE  /\ (n \div BYTES) \in Word /\ (n % BYTES) \in 0 .. BYTES - 1
             /\ n = (n \div BYTES) * BYTES + (n % BYTES)
  <2> DEFINE q == n \div BYTES
             r == n % BYTES
  <2>1. n \in Nat /\ n < area
    BY <1>1, <1>2 DEF Field
  <2>2. q \in Nat /\ r \in 0 .. BYTES - 1 /\ n = BYTES * q + r
    BY <1>0, <2>1
  <2> HIDE DEF q, r
  <2>3. BYTES * q = q * BYTES /\ q * BYTES \in Nat
    BY <1>0, <2>2
  <2>4. q < W
    <3> SUFFICES ASSUME q >= W PROVE FALSE
      BY <1>0, <2>2
    <3> DEFINE s == q - W
    <3>1. s \in Nat /\ q = W + s
      BY <1>0, <2>2
    <3> HIDE DEF s
    <3>2. (W + s) * BYTES = W * BYTES + s * BYTES /\ s * BYTES \in Nat
      BY <1>0, <3>1
    <3>3. q * BYTES >= area
      BY <3>1, <3>2, <1>1
    <3> HIDE DEF area
    <3> QED
      BY <1>0, <1>1, <2>1, <2>2, <2>3, <3>3
  <2>5. q \in Word
    BY <1>0, <2>2, <2>4 DEF Word
  <2>6. n = q * BYTES + r
    BY <2>2, <2>3
  <2> QED
    BY <2>2, <2>5, <2>6 DEF q, r
<1>6. W - 1 \in Word /\ BYTES - 1 \in 0 .. BYTES - 1
  BY <1>0 DEF Word
<1>7. ASSUME NEW i \in Word, NEW k \in 0 .. BYTES - 1, i * BYTES + k = CAP_BYTE
      PROVE  i = W - 1 /\ k = BYTES - 1
  <2>1. ((i * BYTES + k) \div BYTES) = i /\ ((i * BYTES + k) % BYTES) = k
    BY <1>4
  <2>2. (CAP_BYTE \div BYTES) = W - 1 /\ (CAP_BYTE % BYTES) = BYTES - 1
    <3> DEFINE i0 == W - 1
               k0 == BYTES - 1
    <3>1. i0 \in Word /\ k0 \in 0 .. BYTES - 1 /\ CAP_BYTE = i0 * BYTES + k0
      BY <1>3, <1>6
    <3> HIDE DEF i0, k0
    <3>2. ((i0 * BYTES + k0) \div BYTES) = i0 /\ ((i0 * BYTES + k0) % BYTES) = k0
      BY <1>4, <3>1
    <3> QED
      BY <3>1, <3>2 DEF i0, k0
  <2> QED
    BY <1>7, <2>1, <2>2
<1> HIDE DEF area
<1> QED
  BY <1>2, <1>3, <1>4, <1>5, <1>6, <1>7 DEF area

LEMMA ChunkFacts ==
  ASSUME NEW byte \in Fields, NEW i \in Word
  PROVE  /\ Chunk(byte, i) \in Bytes
         /\ \A k \in 0 .. BYTES - 1 : Chunk(byte, i)[k] = byte[i * BYTES + k]
         /\ Pack(byte)[i] = WordOf(Chunk(byte, i))
<1>1. \A k \in 0 .. BYTES - 1 : byte[i * BYTES + k] \in 0 .. FIELD - 1
  BY Positions DEF Fields
<1>2. Chunk(byte, i) \in Bytes
  BY <1>1 DEF Chunk, Bytes
<1>3. \A k \in 0 .. BYTES - 1 : Chunk(byte, i)[k] = byte[i * BYTES + k]
  BY DEF Chunk
<1>4. Pack(byte)[i] = WordOf(Chunk(byte, i))
  BY DEF Pack, Chunk
<1> QED
  BY <1>2, <1>3, <1>4

LEMMA PackIsFunction ==
  ASSUME NEW byte
  PROVE  Pack(byte) = [i \in Word |-> Pack(byte)[i]]
BY DEF Pack

(* Reading a field back.                                                   *)
LEMMA ByteOfPack ==
  ASSUME NEW byte \in Fields, NEW n \in Field
  PROVE  Byte(Pack(byte), n) = byte[n]
<1> DEFINE i == n \div BYTES
           k == n % BYTES
<1>1. i \in Word /\ k \in 0 .. BYTES - 1 /\ n = i * BYTES + k
  BY Positions
<1>2. Byte(Pack(byte), n) = ((Pack(byte)[i] \div Place[k]) % FIELD)
  BY DEF Byte
<1> HIDE DEF i, k
<1>3. ((WordOf(Chunk(byte, i)) \div Place[k]) % FIELD) = Chunk(byte, i)[k]
  BY <1>1, ChunkFacts, ByteOfWord
<1> QED
  BY <1>1, <1>2, <1>3, ChunkFacts

LEMMA SamePack ==
  ASSUME NEW d \in Fields, NEW e \in Fields, \A i \in Word : Pack(d)[i] = Pack(e)[i]
  PROVE  d = e
<1>1. ASSUME NEW n \in Field PROVE d[n] = e[n]
  <2>1. Pack(d) = Pack(e)
    <3>1. [i \in Word |-> Pack(d)[i]] = [i \in Word |-> Pack(e)[i]]
      BY Zenon
    <3> QED
      BY <3>1, PackIsFunction, Zenon
  <2> QED
    BY <2>1, ByteOfPack
<1>2. d = [n \in Field |-> d[n]] /\ e = [n \in Field |-> e[n]]
  BY DEF Fields
<1>3. [n \in Field |-> d[n]] = [n \in Field |-> e[n]]
  BY <1>1, Zenon
<1> QED
  BY <1>2, <1>3, Zenon

(* From the last word down, words compare as all fields do from the top.   *)
LEMMA OrderOfPacks ==
  ASSUME NEW d \in Fields, NEW e \in Fields
  PROVE  (\E i \in Word : /\ Pack(d)[i] < Pack(e)[i]
                          /\ \A j \in Word : j > i => Pack(d)[j] = Pack(e)[j])
           <=> Before(d, e, CAP_BYTE + 1)
<1>0. BYTES \in Nat /\ BYTES > 0 /\ W \in Nat /\ CAP_BYTE \in Nat
  BY Sizes, Positions
<1>1. ASSUME NEW i \in Word, Pack(d)[i] < Pack(e)[i],
             \A j \in Word : j > i => Pack(d)[j] = Pack(e)[j]
      PROVE  Before(d, e, CAP_BYTE + 1)
  <2>1. WordOf(Chunk(d, i)) < WordOf(Chunk(e, i))
    BY <1>1, ChunkFacts
  <2>2. Before(Chunk(d, i), Chunk(e, i), BYTES)
    BY <2>1, ChunkFacts, OrderOfWords
  <2>3. PICK k \in 0 .. BYTES - 1 :
          /\ Chunk(d, i)[k] < Chunk(e, i)[k]
          /\ \A l \in (k + 1) .. (BYTES - 1) : Chunk(d, i)[l] = Chunk(e, i)[l]
    BY <2>2 DEF Before
  <2> DEFINE n == i * BYTES + k
  <2>4. n \in Field /\ d[n] < e[n]
    BY <2>3, ChunkFacts, Positions
  <2>5. ASSUME NEW m \in Field, m > n PROVE d[m] = e[m]
    <3> DEFINE j == m \div BYTES
               l == m % BYTES
    <3>1. j \in Word /\ l \in 0 .. BYTES - 1 /\ m = j * BYTES + l
      BY Positions
    <3> HIDE DEF j, l
    <3>2. d[m] = Chunk(d, j)[l] /\ e[m] = Chunk(e, j)[l]
      BY <3>1, ChunkFacts
    <3>3. CASE j = i
      <4>1. l > k
        <5> DEFINE x == i * BYTES
        <5>1. x + l > x + k /\ x \in Nat
          BY <1>0, <2>5, <3>1, <3>3 DEF Word
        <5> HIDE DEF x
        <5> QED
          BY <1>0, <3>1, <5>1
      <4> QED
        BY <1>0, <2>3, <3>1, <3>2, <3>3, <4>1
    <3>4. CASE j > i
      <4>1. WordOf(Chunk(d, j)) = WordOf(Chunk(e, j))
        BY <1>1, <3>1, <3>4, ChunkFacts
      <4>2. Chunk(d, j) = Chunk(e, j)
        BY <3>1, <4>1, ChunkFacts, SameWord
      <4> QED
        BY <3>2, <4>2
    <3>5. CASE j < i
      <4> DEFINE r == i - (j + 1)
                 x == j * BYTES
                 y == i * BYTES
      <4>1. r \in Nat /\ i = j + 1 + r /\ j \in Nat /\ i \in Nat
        BY <1>0, <3>1, <3>5 DEF Word
      <4> HIDE DEF r
      <4>2. (j + 1 + r) * BYTES = j * BYTES + BYTES + r * BYTES /\ r * BYTES \in Nat
        BY <1>0, <4>1
      <4>3. y >= x + BYTES /\ x \in Nat /\ y \in Nat
        BY <1>0, <4>1, <4>2
      <4>4. x + l > y + k
        BY <2>5, <3>1
      <4> HIDE DEF x, y
      <4> QED
        BY <1>0, <3>1, <4>3, <4>4
    <3> QED
      BY <1>0, <3>1, <3>3, <3>4, <3>5 DEF Word
  <2> HIDE DEF n
  <2>6. n \in 0 .. (CAP_BYTE + 1) - 1
        /\ \A m \in (n + 1) .. ((CAP_BYTE + 1) - 1) : m \in Field /\ m > n
    BY <1>0, <2>4 DEF Field
  <2> QED
    BY <2>4, <2>5, <2>6 DEF Before
<1>2. ASSUME Before(d, e, CAP_BYTE + 1)
      PROVE  \E i \in Word : /\ Pack(d)[i] < Pack(e)[i]
                             /\ \A j \in Word : j > i => Pack(d)[j] = Pack(e)[j]
  <2>1. PICK n \in 0 .. (CAP_BYTE + 1) - 1 :
          d[n] < e[n] /\ \A m \in (n + 1) .. ((CAP_BYTE + 1) - 1) : d[m] = e[m]
    BY <1>2 DEF Before
  <2>2. n \in Field /\ \A m \in Field : m > n => d[m] = e[m]
    BY <1>0, <2>1 DEF Field
  <2> DEFINE i == n \div BYTES
             k == n % BYTES
  <2>3. i \in Word /\ k \in 0 .. BYTES - 1 /\ n = i * BYTES + k
    BY <2>2, Positions
  <2> HIDE DEF i, k
  <2>4. i \in Nat /\ i * BYTES \in Nat
    BY <1>0, <2>3 DEF Word
  <2>5. Pack(d)[i] < Pack(e)[i]
    <3>1. Chunk(d, i)[k] < Chunk(e, i)[k]
      BY <2>1, <2>3, ChunkFacts
    <3>2. ASSUME NEW l \in (k + 1) .. (BYTES - 1) PROVE Chunk(d, i)[l] = Chunk(e, i)[l]
      <4>1. l \in 0 .. BYTES - 1 /\ l > k
        BY <1>0, <2>3
      <4>2. i * BYTES + l \in Field
        BY <2>3, <4>1, Positions
      <4>3. i * BYTES + l > n
        <5> DEFINE x == i * BYTES
        <5>1. x \in Nat /\ n = x + k
          BY <2>3, <2>4
        <5> HIDE DEF x
        <5>2. x + l > n
          BY <1>0, <2>3, <4>1, <5>1
        <5> QED
          BY <5>2 DEF x
      <4> QED
        BY <2>2, <2>3, <4>1, <4>2, <4>3, ChunkFacts
    <3>3. Before(Chunk(d, i), Chunk(e, i), BYTES)
      BY <2>3, <3>1, <3>2 DEF Before
    <3> QED
      BY <2>3, <3>3, ChunkFacts, OrderOfWords
  <2>6. ASSUME NEW j \in Word, j > i PROVE Pack(d)[j] = Pack(e)[j]
    <3>1. ASSUME NEW l \in 0 .. BYTES - 1 PROVE d[j * BYTES + l] = e[j * BYTES + l]
      <4> DEFINE r == j - (i + 1)
                 x == i * BYTES
                 y == j * BYTES
      <4>1. r \in Nat /\ j = i + 1 + r
        BY <1>0, <2>4, <2>6 DEF Word
      <4> HIDE DEF r
      <4>2. (i + 1 + r) * BYTES = i * BYTES + BYTES + r * BYTES /\ r * BYTES \in Nat
        BY <1>0, <2>4, <4>1
      <4>3. y >= x + BYTES /\ x \in Nat /\ y \in Nat /\ n = x + k
        BY <1>0, <2>3, <2>4, <4>1, <4>2
      <4>4. y + l \in Field
        BY Positions
      <4> HIDE DEF x, y
      <4>5. y + l > n
        BY <1>0, <2>3, <4>3
      <4>6. d[y + l] = e[y + l]
        BY <2>2, <4>4, <4>5
      <4> QED
        BY <4>6 DEF y
    <3>2. Chunk(d, j) = Chunk(e, j)
      BY <3>1, Zenon DEF Chunk
    <3> QED
      BY <3>2, ChunkFacts
  <2> QED
    BY <2>3, <2>5, <2>6
<1> QED
  BY <1>1, <1>2

(* Masking the last field of all out and setting it anew.                  *)
LEMMA LastByteSet ==
  ASSUME NEW d \in Fields, NEW c \in 0 .. FIELD - 1
  PROVE  LET e == [d EXCEPT ![CAP_BYTE] = c]
             p == Place[BYTES - 1]
         IN  /\ e \in Fields
             /\ [Pack(d) EXCEPT ![W - 1] = (@ % p) + c * p] = Pack(e)
<1> DEFINE e == [d EXCEPT ![CAP_BYTE] = c]
           p == Place[BYTES - 1]
           u == (Pack(d)[W - 1] % p) + c * p
<1>1. CAP_BYTE \in Field
  BY Positions DEF Field
<1>2. e \in Fields /\ e[CAP_BYTE] = c /\ \A n \in Field : n # CAP_BYTE => e[n] = d[n]
  BY <1>1 DEF Fields
<1> HIDE DEF e
<1>3. W - 1 \in Word /\ BYTES - 1 \in 0 .. BYTES - 1
  BY Positions
<1>4. u = Pack(e)[W - 1]
  <2> DEFINE i == W - 1
             k == BYTES - 1
             x == Chunk(d, i)
             y == Chunk(e, i)
  <2>1. x \in Bytes /\ y \in Bytes /\ Pack(d)[i] = WordOf(x) /\ Pack(e)[i] = WordOf(y)
    BY <1>2, <1>3, ChunkFacts
  <2>2. \A l \in 0 .. BYTES - 1 : y[l] = IF l = k THEN c ELSE x[l]
    <3>1. \A l \in 0 .. BYTES - 1 : /\ i * BYTES + l \in Field
                                    /\ i * BYTES + l = CAP_BYTE <=> l = k
      BY <1>3, Positions
    <3>2. \A l \in 0 .. BYTES - 1 : y[l] = e[i * BYTES + l] /\ x[l] = d[i * BYTES + l]
      BY <1>2, <1>3, ChunkFacts
    <3> HIDE DEF i, k, x, y
    <3> QED
      BY <1>2, <3>1, <3>2
  <2>3. y = [x EXCEPT ![k] = c]
    <3>1. y = [l \in 0 .. BYTES - 1 |-> y[l]]
      BY <2>1 DEF Bytes
    <3>2. [x EXCEPT ![k] = c] = [l \in 0 .. BYTES - 1 |-> IF l = k THEN c ELSE x[l]]
      <4> HIDE DEF x, k
      <4> QED
        BY <2>1 DEF Bytes
    <3>3. [l \in 0 .. BYTES - 1 |-> y[l]] = [l \in 0 .. BYTES - 1 |-> IF l = k THEN c ELSE x[l]]
      <4> HIDE DEF x, y, k
      <4> QED
        BY <2>2, Zenon
    <3> HIDE DEF x, y, k
    <3> QED
      BY <3>1, <3>2, <3>3, Zenon
  <2> HIDE DEF x, y
  <2>4. (WordOf(x) % p) + c * p = WordOf([x EXCEPT ![k] = c])
    BY <2>1, LastFieldSet
  <2> QED
    BY <2>1, <2>3, <2>4
<1>5. ASSUME NEW i \in Word, i # W - 1 PROVE Pack(d)[i] = Pack(e)[i]
  <2>1. \A k \in 0 .. BYTES - 1 : i * BYTES + k \in Field /\ i * BYTES + k # CAP_BYTE
    BY <1>5, Positions
  <2>2. \A k \in 0 .. BYTES - 1 : d[i * BYTES + k] = e[i * BYTES + k]
    BY <1>2, <2>1
  <2>3. Chunk(d, i) = Chunk(e, i)
    BY <2>2, Zenon DEF Chunk
  <2> QED
    BY <1>2, <2>3, ChunkFacts
<1>6. [Pack(d) EXCEPT ![W - 1] = u] = Pack(e)
  <2> DEFINE x == Pack(d)
             y == Pack(e)
             z == [x EXCEPT ![W - 1] = u]
  <2>1. x = [i \in Word |-> x[i]] /\ y = [i \in Word |-> y[i]]
    BY PackIsFunction
  <2>2. u = y[W - 1] /\ \A i \in Word : i # W - 1 => x[i] = y[i]
    BY <1>4, <1>5
  <2> HIDE DEF x, y, u
  <2>3. z = [i \in Word |-> IF i = W - 1 THEN u ELSE x[i]]
    BY <1>3, <2>1
  <2>4. [i \in Word |-> IF i = W - 1 THEN u ELSE x[i]] = [i \in Word |-> y[i]]
    BY <2>2, Zenon
  <2> QED
    BY <2>1, <2>3, <2>4 DEF x, y
<1> QED
  BY <1>2, <1>6 DEF u, p, e

(* Adding all words adds all fields: no carry leaves a field, and the last *)
(* one loses its own.                                                      *)
LEMMA SumOfPacks ==
  ASSUME NEW d \in Fields, NEW e \in Fields,
         \A n \in Field : n # CAP_BYTE => d[n] + e[n] < FIELD
  PROVE  LET s == [n \in Field |-> (d[n] + e[n]) % FIELD]
         IN  /\ s \in Fields
             /\ [i \in Word |-> (Pack(d)[i] + Pack(e)[i]) % WORD] = Pack(s)
<1> DEFINE s == [n \in Field |-> (d[n] + e[n]) % FIELD]
<1>0. FIELD \in Nat /\ FIELD > 0 /\ BYTES \in Nat /\ BYTES > 0
  BY FieldFacts, Sizes
<1>1. s \in Fields
  <2>1. \A n \in Field : d[n] \in Nat /\ e[n] \in Nat
    BY <1>0 DEF Fields
  <2>2. \A n \in Field : ((d[n] + e[n]) % FIELD) \in 0 .. FIELD - 1
    BY <1>0, <2>1
  <2> QED
    BY <2>2 DEF Fields
<1>2. ASSUME NEW i \in Word PROVE ((Pack(d)[i] + Pack(e)[i]) % WORD) = Pack(s)[i]
  <2> DEFINE x == Chunk(d, i)
             y == Chunk(e, i)
             z == [k \in 0 .. BYTES - 1 |-> (x[k] + y[k]) % FIELD]
  <2>1. x \in Bytes /\ y \in Bytes /\ Pack(d)[i] = WordOf(x) /\ Pack(e)[i] = WordOf(y)
    BY ChunkFacts
  <2>2. \A k \in 0 .. BYTES - 1 : x[k] = d[i * BYTES + k] /\ y[k] = e[i * BYTES + k]
    BY ChunkFacts
  <2>3. ASSUME NEW k \in 0 .. BYTES - 2 PROVE x[k] + y[k] < FIELD
    <3>1. k \in 0 .. BYTES - 1 /\ k # BYTES - 1
      BY <1>0
    <3>2. i * BYTES + k \in Field /\ i * BYTES + k # CAP_BYTE
      BY <3>1, Positions
    <3> HIDE DEF x, y
    <3> QED
      BY <2>2, <3>1, <3>2
  <2>4. z = Chunk(s, i)
    <3>1. \A k \in 0 .. BYTES - 1 : s[i * BYTES + k] = ((d[i * BYTES + k] + e[i * BYTES + k]) % FIELD)
      BY Positions
    <3>2. \A k \in 0 .. BYTES - 1 : ((x[k] + y[k]) % FIELD) = s[i * BYTES + k]
      <4> HIDE DEF x, y, s
      <4> QED
        BY <2>2, <3>1
    <3> HIDE DEF x, y, s
    <3> QED
      BY <3>2, Zenon DEF Chunk
  <2> HIDE DEF x, y, s
  <2>5. ((WordOf(x) + WordOf(y)) % WORD) = WordOf(z)
    BY <2>1, <2>3, SumOfWords
  <2> QED
    BY <1>1, <2>1, <2>4, <2>5, ChunkFacts
<1>3. [i \in Word |-> (Pack(d)[i] + Pack(e)[i]) % WORD] = [i \in Word |-> Pack(s)[i]]
  <2> HIDE DEF s
  <2> QED
    BY <1>2, Zenon
<1> HIDE DEF s
<1>4. [i \in Word |-> (Pack(d)[i] + Pack(e)[i]) % WORD] = Pack(s)
  BY <1>3, PackIsFunction, Zenon
<1> QED
  BY <1>1, <1>4 DEF s

-----------------------------------------------------------------------------
(* Exponents.                                                              *)

(* The exponent vectors that fit, and the fields of their words.           *)
Small == [Vars -> 0 .. MAX_VAR_EXP]
FieldsOf(e) == [k \in Field |-> IF k = CAP_BYTE THEN Cap(Deg(e))
                                ELSE IF k \in VarBytes THEN e[k + NVars + 1 - CAP_BYTE]
                                ELSE 0]

LEMMA VariableBytes ==
  /\ CAP_BYTE \in Nat /\ CAP_BYTE >= NVars /\ CAP_BYTE \in Field
  /\ \A v \in Vars : ByteIndex(v) \in VarBytes /\ ByteIndex(v) + NVars + 1 - CAP_BYTE = v
  /\ \A k \in VarBytes : /\ k \in Field /\ k # CAP_BYTE /\ k + NVars + 1 - CAP_BYTE \in Vars
                         /\ ByteIndex(k + NVars + 1 - CAP_BYTE) = k
                         /\ k + NVars - CAP_BYTE = (k + NVars + 1 - CAP_BYTE) - 1
<1>1. NVars \in Nat /\ CAP_BYTE \in Nat /\ CAP_BYTE >= NVars
  <2>1. CAP_BYTE + 1 = W * BYTES /\ CAP_BYTE \in Nat /\ NVars < W * BYTES /\ NVars \in Nat
    BY Positions, Sizes
  <2> DEFINE area == W * BYTES
  <2>2. CAP_BYTE + 1 = area /\ NVars < area
    BY <2>1
  <2> HIDE DEF area
  <2> QED
    BY <2>1, <2>2
<1>2. CAP_BYTE \in Field
  BY <1>1 DEF Field
<1>3. \A v \in Vars : ByteIndex(v) \in VarBytes /\ ByteIndex(v) + NVars + 1 - CAP_BYTE = v
  BY <1>1 DEF Vars, VarBytes, ByteIndex
<1>4. \A k \in VarBytes : /\ k \in Field /\ k # CAP_BYTE /\ k + NVars + 1 - CAP_BYTE \in Vars
                          /\ ByteIndex(k + NVars + 1 - CAP_BYTE) = k
                          /\ k + NVars - CAP_BYTE = (k + NVars + 1 - CAP_BYTE) - 1
  BY <1>1 DEF Vars, VarBytes, ByteIndex, Field
<1> QED
  BY <1>1, <1>2, <1>3, <1>4

LEMMA SmallIsMonomial ==
  ASSUME NEW e \in Small
  PROVE  e \in Monomial /\ Deg(e) \in Nat /\ \A v \in Vars : e[v] \in 0 .. GUARD - 1
<1>1. e \in Monomial
  BY FieldFacts DEF Small, Monomial
<1>2. \A v \in Vars : e[v] \in 0 .. GUARD - 1
  BY FieldFacts DEF Small
<1> QED
  BY <1>1, <1>2, DegType

LEMMA CapFacts ==
  ASSUME NEW n \in Nat
  PROVE  /\ Cap(n) \in 0 .. FIELD - 1
         /\ Cap(n) = FIELD - 1 <=> n >= FIELD - 1
         /\ n < FIELD => Cap(n) = n
BY FieldFacts DEF Cap

LEMMA FieldsOfFacts ==
  ASSUME NEW e \in Small
  PROVE  /\ FieldsOf(e) \in Fields
         /\ FieldsOf(e)[CAP_BYTE] = Cap(Deg(e))
         /\ \A v \in Vars : FieldsOf(e)[ByteIndex(v)] = e[v]
         /\ \A k \in VarBytes : /\ FieldsOf(e)[k] = e[k + NVars + 1 - CAP_BYTE]
                                /\ FieldsOf(e)[k] \in 0 .. GUARD - 1
         /\ \A k \in Field : k # CAP_BYTE /\ k \notin VarBytes => FieldsOf(e)[k] = 0
<1>1. FieldsOf(e)[CAP_BYTE] = Cap(Deg(e))
  BY VariableBytes DEF FieldsOf
<1>2. ASSUME NEW k \in VarBytes
      PROVE  FieldsOf(e)[k] = e[k + NVars + 1 - CAP_BYTE] /\ FieldsOf(e)[k] \in 0 .. GUARD - 1
  <2>1. k \in Field /\ k # CAP_BYTE /\ k + NVars + 1 - CAP_BYTE \in Vars
    BY VariableBytes
  <2>2. FieldsOf(e)[k] = e[k + NVars + 1 - CAP_BYTE]
    BY <2>1 DEF FieldsOf
  <2> QED
    BY <2>1, <2>2, SmallIsMonomial
<1>3. \A v \in Vars : FieldsOf(e)[ByteIndex(v)] = e[v]
  BY <1>2, VariableBytes
<1>4. \A k \in Field : k # CAP_BYTE /\ k \notin VarBytes => FieldsOf(e)[k] = 0
  BY DEF FieldsOf
<1>5. ASSUME NEW k \in Field PROVE FieldsOf(e)[k] \in 0 .. FIELD - 1
  <2>1. CASE k = CAP_BYTE
    BY <1>1, <2>1, SmallIsMonomial, CapFacts
  <2>2. CASE k \in VarBytes
    BY <1>2, <2>2, FieldFacts
  <2>3. CASE k # CAP_BYTE /\ k \notin VarBytes
    BY <1>4, <2>3, FieldFacts
  <2> QED
    BY <2>1, <2>2, <2>3
<1>6. FieldsOf(e) \in Fields
  <2> DEFINE d == FieldsOf(e)
  <2>1. d = [k \in Field |-> d[k]]
    BY DEF FieldsOf
  <2>2. \A k \in Field : d[k] \in 0 .. FIELD - 1
    BY <1>5
  <2> HIDE DEF d
  <2>3. d \in Fields
    BY <2>1, <2>2 DEF Fields
  <2> QED
    BY <2>3 DEF d
<1> QED
  BY <1>1, <1>2, <1>3, <1>4, <1>6

(* Two sequences of fields that agree everywhere.                          *)
LEMMA SameFields ==
  ASSUME NEW d \in Fields, NEW e \in Fields, \A k \in Field : d[k] = e[k]
  PROVE  d = e
<1>1. d = [n \in Field |-> d[n]] /\ e = [n \in Field |-> e[n]]
  BY DEF Fields
<1>2. [n \in Field |-> d[n]] = [n \in Field |-> e[n]]
  BY Zenon
<1> QED
  BY <1>1, <1>2, Zenon

(* A small exponent is below the guard bit.                                *)
LEMMA BelowGuard ==
  ASSUME NEW n \in 0 .. GUARD - 1
  PROVE  (n % GUARD) = n
BY FieldFacts

LEMMA FromExponentsFacts ==
  ASSUME NEW e \in Small
  PROVE  /\ FromExponents(e).packed = Pack(FieldsOf(e))
         /\ FromExponents(e).sev = SevOf(e)
         /\ FromExponents(e).total_deg = Deg(e)
         /\ \A k \in Field : Byte(FromExponents(e).packed, k) = FieldsOf(e)[k]
         /\ \A k \in VarBytes : ExponentAt(FromExponents(e), k) = e[k + NVars + 1 - CAP_BYTE]
         /\ Exponents(FromExponents(e)) = e
<1> DEFINE t == FromExponents(e)
<1>1. t.packed = Pack(FieldsOf(e)) /\ t.sev = SevOf(e) /\ t.total_deg = Deg(e)
  BY DEF FromExponents, FieldsOf
<1> HIDE DEF t
<1>2. \A k \in Field : Byte(t.packed, k) = FieldsOf(e)[k]
  BY <1>1, FieldsOfFacts, ByteOfPack
<1>3. ASSUME NEW k \in VarBytes PROVE ExponentAt(t, k) = e[k + NVars + 1 - CAP_BYTE]
  <2>1. Byte(t.packed, k) = FieldsOf(e)[k]
    BY <1>2, VariableBytes
  <2>2. FieldsOf(e)[k] \in 0 .. GUARD - 1 /\ FieldsOf(e)[k] = e[k + NVars + 1 - CAP_BYTE]
    BY FieldsOfFacts
  <2> QED
    BY <2>1, <2>2, BelowGuard DEF ExponentAt
<1>4. ASSUME NEW v \in Vars PROVE ExponentAt(t, ByteIndex(v)) = e[v]
  BY <1>3, VariableBytes
<1>5. Exponents(t) = e
  <2>1. e = [v \in Vars |-> e[v]]
    BY DEF Small
  <2>2. [v \in Vars |-> ExponentAt(t, ByteIndex(v))] = [v \in Vars |-> e[v]]
    BY <1>4, Zenon
  <2> QED
    BY <2>1, <2>2, Zenon DEF Exponents
<1> QED
  BY <1>1, <1>2, <1>3, <1>5 DEF t

-----------------------------------------------------------------------------
(* The operations.                                                         *)

LEMMA WordSumFacts ==
  ASSUME NEW e \in Small, NEW f \in Small
  PROVE  LET s == [n \in Field |-> (FieldsOf(e)[n] + FieldsOf(f)[n]) % FIELD]
         IN  /\ s \in Fields
             /\ WordSums(FromExponents(e), FromExponents(f)) = Pack(s)
             /\ \A k \in VarBytes : s[k] = e[k + NVars + 1 - CAP_BYTE] + f[k + NVars + 1 - CAP_BYTE]
             /\ \A k \in Field : k # CAP_BYTE /\ k \notin VarBytes => s[k] = 0
<1> DEFINE d == FieldsOf(e)
           g == FieldsOf(f)
           s == [n \in Field |-> (d[n] + g[n]) % FIELD]
<1>0. GUARD \in Nat /\ GUARD > 0 /\ FIELD = 2 * GUARD
  BY FieldFacts
<1>1. d \in Fields /\ g \in Fields
  BY FieldsOfFacts
<1>2. ASSUME NEW k \in VarBytes
      PROVE  /\ d[k] = e[k + NVars + 1 - CAP_BYTE] /\ d[k] \in 0 .. GUARD - 1
             /\ g[k] = f[k + NVars + 1 - CAP_BYTE] /\ g[k] \in 0 .. GUARD - 1
             /\ k \in Field
  BY FieldsOfFacts, VariableBytes
<1>3. ASSUME NEW k \in Field, k # CAP_BYTE, k \notin VarBytes PROVE d[k] = 0 /\ g[k] = 0
  BY <1>3, FieldsOfFacts
<1> HIDE DEF d, g
<1>4. ASSUME NEW n \in Field, n # CAP_BYTE
      PROVE  d[n] + g[n] \in Nat /\ d[n] + g[n] < FIELD
  <2>1. CASE n \in VarBytes
    BY <1>0, <1>2, <2>1
  <2>2. CASE n \notin VarBytes
    BY <1>0, <1>3, <1>4, <2>2
  <2> QED
    BY <2>1, <2>2
<1>5. s \in Fields /\ [i \in Word |-> (Pack(d)[i] + Pack(g)[i]) % WORD] = Pack(s)
  BY <1>1, <1>4, SumOfPacks
<1>6. WordSums(FromExponents(e), FromExponents(f)) = [i \in Word |-> (Pack(d)[i] + Pack(g)[i]) % WORD]
  <2>1. FromExponents(e).packed = Pack(d) /\ FromExponents(f).packed = Pack(g)
    BY FromExponentsFacts DEF d, g
  <2> QED
    BY <2>1 DEF WordSums
<1>7. ASSUME NEW n \in Field, n # CAP_BYTE PROVE s[n] = d[n] + g[n]
  <2> DEFINE z == d[n] + g[n]
  <2>1. s[n] = (z % FIELD)
    OBVIOUS
  <2>2. z \in Nat /\ z < FIELD
    BY <1>4, <1>7
  <2> HIDE DEF z, s
  <2>3. (z % FIELD) = z
    BY <1>0, <2>2
  <2> QED
    BY <2>1, <2>3 DEF z
<1> HIDE DEF s
<1>8. \A k \in VarBytes : s[k] = e[k + NVars + 1 - CAP_BYTE] + f[k + NVars + 1 - CAP_BYTE]
  BY <1>2, <1>7, VariableBytes
<1>9. \A k \in Field : k # CAP_BYTE /\ k \notin VarBytes => s[k] = 0
  BY <1>3, <1>7
<1> QED
  BY <1>5, <1>6, <1>8, <1>9 DEF s, d, g

(* Every overflow, and nothing else, sets a guard bit.                     *)
LEMMA OverflowIsSeen ==
  ASSUME NEW e \in Small, NEW f \in Small
  PROVE  Overflows(FromExponents(e), FromExponents(f)) <=> Mul(e, f) \notin Small
<1> DEFINE s == [n \in Field |-> (FieldsOf(e)[n] + FieldsOf(f)[n]) % FIELD]
           x == WordSums(FromExponents(e), FromExponents(f))
<1>1. /\ s \in Fields /\ x = Pack(s)
      /\ \A k \in VarBytes : s[k] = e[k + NVars + 1 - CAP_BYTE] + f[k + NVars + 1 - CAP_BYTE]
  BY WordSumFacts
<1> HIDE DEF s, x
<1>2. \A k \in VarBytes : Byte(x, k) = e[k + NVars + 1 - CAP_BYTE] + f[k + NVars + 1 - CAP_BYTE]
  BY <1>1, ByteOfPack, VariableBytes
<1>3. Overflows(FromExponents(e), FromExponents(f)) <=> \E k \in VarBytes : Byte(x, k) >= GUARD
  BY DEF Overflows, x
<1>4. (\E k \in VarBytes : Byte(x, k) >= GUARD) <=> \E v \in Vars : e[v] + f[v] >= GUARD
  <2>1. ASSUME NEW k \in VarBytes, Byte(x, k) >= GUARD PROVE \E v \in Vars : e[v] + f[v] >= GUARD
    BY <1>2, <2>1, VariableBytes
  <2>2. ASSUME NEW v \in Vars, e[v] + f[v] >= GUARD PROVE \E k \in VarBytes : Byte(x, k) >= GUARD
    <3>1. ByteIndex(v) \in VarBytes /\ Byte(x, ByteIndex(v)) = e[v] + f[v]
      <4>1. ByteIndex(v) \in VarBytes /\ ByteIndex(v) + NVars + 1 - CAP_BYTE = v
        BY VariableBytes
      <4>2. Byte(x, ByteIndex(v)) = e[ByteIndex(v) + NVars + 1 - CAP_BYTE]
                                    + f[ByteIndex(v) + NVars + 1 - CAP_BYTE]
        BY <1>2, <4>1
      <4> QED
        BY <4>1, <4>2
    <3> QED
      BY <2>2, <3>1
  <2> QED
    BY <2>1, <2>2
<1>5. (\E v \in Vars : e[v] + f[v] >= GUARD) <=> Mul(e, f) \notin Small
  <2>1. GUARD \in Nat /\ MAX_VAR_EXP = GUARD - 1
    BY FieldFacts
  <2>2. \A v \in Vars : e[v] \in Nat /\ f[v] \in Nat
    BY SmallIsMonomial, <2>1
  <2>3. Mul(e, f) \in Small <=> \A v \in Vars : e[v] + f[v] \in 0 .. GUARD - 1
    BY <2>1 DEF Small, Mul
  <2> QED
    BY <2>1, <2>2, <2>3
<1> QED
  BY <1>3, <1>4, <1>5

LEMMA ProductIsExact ==
  ASSUME NEW e \in Small, NEW f \in Small, Mul(e, f) \in Small
  PROVE  Product(FromExponents(e), FromExponents(f)) = FromExponents(Mul(e, f))
<1> DEFINE m == Mul(e, f)
           s == [n \in Field |-> (FieldsOf(e)[n] + FieldsOf(f)[n]) % FIELD]
           x == WordSums(FromExponents(e), FromExponents(f))
           c == Cap(Deg(m))
           d == [s EXCEPT ![CAP_BYTE] = c]
           p == Place[BYTES - 1]
<1>1. /\ s \in Fields /\ x = Pack(s)
      /\ \A k \in VarBytes : s[k] = e[k + NVars + 1 - CAP_BYTE] + f[k + NVars + 1 - CAP_BYTE]
      /\ \A k \in Field : k # CAP_BYTE /\ k \notin VarBytes => s[k] = 0
  BY WordSumFacts
<1>2. e \in Monomial /\ f \in Monomial /\ Deg(e) \in Nat /\ Deg(f) \in Nat
      /\ Deg(m) = Deg(e) + Deg(f) /\ m \in Small /\ Deg(m) \in Nat
  BY SmallIsMonomial, DegMul
<1>3. c \in 0 .. FIELD - 1
  BY <1>2, CapFacts
<1> HIDE DEF s, x, c
<1>4. d \in Fields /\ [x EXCEPT ![W - 1] = (@ % p) + c * p] = Pack(d)
  BY <1>1, <1>3, LastByteSet
<1>5. d = FieldsOf(m)
  <2>1. FieldsOf(m) \in Fields
    BY <1>2, FieldsOfFacts
  <2>2. ASSUME NEW k \in Field PROVE d[k] = FieldsOf(m)[k]
    <3>1. d[k] = IF k = CAP_BYTE THEN c ELSE s[k]
      BY <1>1 DEF Fields
    <3>2. CASE k = CAP_BYTE
      BY <1>2, <3>1, <3>2, FieldsOfFacts DEF c
    <3>3. CASE k \in VarBytes
      <4> DEFINE v == k + NVars + 1 - CAP_BYTE
      <4>1. v \in Vars /\ k # CAP_BYTE
        BY <3>3, VariableBytes
      <4>2. FieldsOf(m)[k] = m[v] /\ s[k] = e[v] + f[v]
        BY <1>1, <1>2, <3>3, FieldsOfFacts
      <4> HIDE DEF v
      <4>3. m[v] = e[v] + f[v]
        BY <4>1 DEF Mul
      <4> QED
        BY <3>1, <4>1, <4>2, <4>3
    <3>4. CASE k # CAP_BYTE /\ k \notin VarBytes
      BY <1>1, <1>2, <3>1, <3>4, FieldsOfFacts
    <3> QED
      BY <3>2, <3>3, <3>4
  <2> HIDE DEF d, m
  <2> QED
    BY <1>4, <2>1, <2>2, SameFields
<1>6. SevOf(m) = SevOf(e) \cup SevOf(f)
  <2>1. \A v \in Vars : e[v] \in Nat /\ f[v] \in Nat /\ m[v] = e[v] + f[v]
    BY <1>2 DEF Mul, Monomial
  <2>2. \A v \in Vars : m[v] > 0 <=> e[v] > 0 \/ f[v] > 0
    BY <2>1
  <2> HIDE DEF m
  <2> QED
    BY <2>2, Zenon DEF SevOf
<1>7. Product(FromExponents(e), FromExponents(f)) =
        [packed |-> Pack(FieldsOf(m)), sev |-> SevOf(e) \cup SevOf(f), total_deg |-> Deg(m)]
  <2>1. FromExponents(e).total_deg + FromExponents(f).total_deg = Deg(m)
    BY <1>2, FromExponentsFacts
  <2>2. FromExponents(e).sev = SevOf(e) /\ FromExponents(f).sev = SevOf(f)
    BY FromExponentsFacts
  <2>3. [x EXCEPT ![W - 1] = (@ % p) + Cap(Deg(m)) * p] = Pack(FieldsOf(m))
    BY <1>4, <1>5 DEF c
  <2> HIDE DEF m
  <2> QED
    BY <2>1, <2>2, <2>3 DEF Product, x
<1>8. FromExponents(m) = [packed |-> Pack(FieldsOf(m)), sev |-> SevOf(m), total_deg |-> Deg(m)]
  BY DEF FromExponents, FieldsOf
<1> QED
  BY <1>6, <1>7, <1>8

LEMMA DividesIsExact ==
  ASSUME NEW e \in Small, NEW f \in Small
  PROVE  /\ PackedDivides(FromExponents(f), FromExponents(e)) <=> Divides(f, e)
         /\ Divides(f, e) => FromExponents(f).total_deg <= FromExponents(e).total_deg
         /\ Divides(f, e) => FromExponents(f).sev \subseteq FromExponents(e).sev
<1>1. PackedDivides(FromExponents(f), FromExponents(e)) <=> Divides(f, e)
  <2> DEFINE v(k) == k + NVars + 1 - CAP_BYTE
  <2>1. \A k \in VarBytes : /\ ExponentAt(FromExponents(f), k) = f[v(k)]
                            /\ ExponentAt(FromExponents(e), k) = e[v(k)]
    BY FromExponentsFacts
  <2>2. PackedDivides(FromExponents(f), FromExponents(e)) <=> \A k \in VarBytes : f[v(k)] <= e[v(k)]
    BY <2>1 DEF PackedDivides
  <2>3. /\ \A k \in VarBytes : v(k) \in Vars
        /\ \A u \in Vars : ByteIndex(u) \in VarBytes /\ v(ByteIndex(u)) = u
    BY VariableBytes
  <2> HIDE DEF v
  <2> QED
    BY <2>2, <2>3 DEF Divides
<1>2. ASSUME Divides(f, e) PROVE FromExponents(f).total_deg <= FromExponents(e).total_deg
  BY <1>2, SmallIsMonomial, DivFacts, FromExponentsFacts
<1>3. ASSUME Divides(f, e) PROVE FromExponents(f).sev \subseteq FromExponents(e).sev
  <2>1. \A v \in Vars : f[v] > 0 => e[v] > 0
    <3>1. \A v \in Vars : f[v] \in Nat /\ e[v] \in Nat /\ f[v] <= e[v]
      BY <1>3, SmallIsMonomial DEF Divides, Monomial
    <3> QED
      BY <3>1
  <2>2. SevOf(f) \subseteq SevOf(e)
    BY <2>1, Zenon DEF SevOf
  <2> QED
    BY <2>2, FromExponentsFacts
<1> QED
  BY <1>1, <1>2, <1>3

LEMMA QuotientIsExact ==
  ASSUME NEW e \in Small, NEW f \in Small, Divides(f, e)
  PROVE  /\ Div(e, f) \in Small
         /\ Quotient(FromExponents(e), FromExponents(f)) = FromExponents(Div(e, f))
<1> DEFINE m == Div(e, f)
           t == FromExponents(e)
           u == FromExponents(f)
           x(k) == ExponentAt(t, k) - ExponentAt(u, k)
           total == t.total_deg - u.total_deg
           d == [k \in Field |-> IF k = CAP_BYTE THEN Cap(total)
                                 ELSE IF k \in VarBytes THEN x(k) ELSE 0]
<1>1. \A v \in Vars : e[v] \in Nat /\ f[v] \in Nat /\ f[v] <= e[v] /\ e[v] <= MAX_VAR_EXP
                      /\ m[v] = e[v] - f[v]
  BY SmallIsMonomial, FieldFacts DEF Divides, Div, Small
<1>2. m \in Small
  <2>1. m = [v \in Vars |-> m[v]]
    BY DEF Div
  <2>2. \A v \in Vars : m[v] \in 0 .. MAX_VAR_EXP
    BY <1>1, FieldFacts
  <2> HIDE DEF m
  <2> QED
    BY <2>1, <2>2 DEF Small
<1>3. Deg(m) = total
  <2>1. Deg(m) + Deg(f) = Deg(e) /\ Deg(m) \in Nat /\ Deg(f) \in Nat
    BY <1>2, SmallIsMonomial, DivFacts
  <2>2. total = Deg(e) - Deg(f)
    BY FromExponentsFacts
  <2> HIDE DEF total, m
  <2> QED
    BY <2>1, <2>2
<1>4. ASSUME NEW k \in VarBytes
      PROVE  x(k) = m[k + NVars + 1 - CAP_BYTE] /\ k + NVars + 1 - CAP_BYTE \in Vars
  <2>1. ExponentAt(t, k) = e[k + NVars + 1 - CAP_BYTE] /\ ExponentAt(u, k) = f[k + NVars + 1 - CAP_BYTE]
    BY FromExponentsFacts
  <2>2. k + NVars + 1 - CAP_BYTE \in Vars
    BY VariableBytes
  <2> HIDE DEF t, u, m
  <2> QED
    BY <1>1, <2>1, <2>2
<1> HIDE DEF x, t, u, total, m
<1>5. d = FieldsOf(m)
  <2> DEFINE g == FieldsOf(m)
  <2>1. \A k \in Field : d[k] = g[k]
    BY <1>3, <1>4 DEF FieldsOf
  <2>2. d = [k \in Field |-> d[k]] /\ g = [k \in Field |-> g[k]]
    BY DEF FieldsOf
  <2>3. [k \in Field |-> d[k]] = [k \in Field |-> g[k]]
    <3> HIDE DEF d, g
    <3> QED
      BY <2>1, Zenon
  <2> HIDE DEF d, g
  <2> QED
    BY <2>2, <2>3, Zenon DEF g
<1>6. {(k + NVars - CAP_BYTE) % SEV_BITS : k \in {l \in VarBytes : x(l) > 0}} = SevOf(m)
  <2> DEFINE sev == {(k + NVars - CAP_BYTE) % SEV_BITS : k \in {l \in VarBytes : x(l) > 0}}
  <2>1. ASSUME NEW z \in sev PROVE z \in SevOf(m)
    <3>1. PICK k \in VarBytes : x(k) > 0 /\ z = ((k + NVars - CAP_BYTE) % SEV_BITS)
      OBVIOUS
    <3> DEFINE v == k + NVars + 1 - CAP_BYTE
    <3>2. v \in Vars /\ k + NVars - CAP_BYTE = v - 1 /\ m[v] > 0
      BY <1>4, <3>1, VariableBytes
    <3> HIDE DEF v, sev
    <3>3. z = ((v - 1) % SEV_BITS)
      BY <3>1, <3>2
    <3> QED
      BY <3>2, <3>3 DEF SevOf
  <2>2. ASSUME NEW z \in SevOf(m) PROVE z \in sev
    <3>1. PICK v \in Vars : m[v] > 0 /\ z = ((v - 1) % SEV_BITS)
      BY DEF SevOf
    <3> DEFINE k == ByteIndex(v)
    <3>2. k \in VarBytes /\ k + NVars + 1 - CAP_BYTE = v /\ k + NVars - CAP_BYTE = v - 1
      <4>1. k \in VarBytes /\ k + NVars + 1 - CAP_BYTE = v
        BY VariableBytes
      <4>2. k + NVars - CAP_BYTE = (k + NVars + 1 - CAP_BYTE) - 1
        BY <4>1, VariableBytes
      <4> HIDE DEF k
      <4> QED
        BY <4>1, <4>2
    <3> HIDE DEF k
    <3>3. x(k) = m[v]
      BY <1>4, <3>2
    <3>4. z = ((k + NVars - CAP_BYTE) % SEV_BITS)
      BY <3>1, <3>2
    <3> QED
      BY <3>1, <3>2, <3>3, <3>4
  <2> HIDE DEF sev
  <2>3. sev = SevOf(m)
    BY <2>1, <2>2
  <2> QED
    BY <2>3 DEF sev
<1>7. Quotient(t, u) =
        [packed |-> Pack(d),
         sev |-> {(k + NVars - CAP_BYTE) % SEV_BITS : k \in {l \in VarBytes : x(l) > 0}},
         total_deg |-> total]
  BY DEF Quotient, x, total
<1>8. FromExponents(m) = [packed |-> Pack(FieldsOf(m)), sev |-> SevOf(m), total_deg |-> Deg(m)]
  BY DEF FromExponents, FieldsOf
<1> HIDE DEF d
<1>9. Quotient(t, u) = FromExponents(m)
  BY <1>3, <1>5, <1>6, <1>7, <1>8
<1> QED
  BY <1>2, <1>9 DEF t, u, m

LEMMA LcmIsExact ==
  ASSUME NEW e \in Small, NEW f \in Small
  PROVE  /\ Lcm(e, f) \in Small
         /\ PackedLcm(FromExponents(e), FromExponents(f)) = FromExponents(Lcm(e, f))
<1>1. Lcm(e, f) \in Small
  BY FieldFacts DEF Lcm, Small
<1>2. Exponents(FromExponents(e)) = e /\ Exponents(FromExponents(f)) = f
  BY FromExponentsFacts
<1>3. PackedLcm(FromExponents(e), FromExponents(f)) = FromExponents(Lcm(e, f))
  BY <1>2 DEF PackedLcm, Lcm
<1> QED
  BY <1>1, <1>3

-----------------------------------------------------------------------------
(* The registers.                                                          *)

LEMMA PackedFacts ==
  ASSUME NEW t \in Packed
  PROVE  Exponents(t) \in Small /\ t = FromExponents(Exponents(t))
<1>1. PICK e \in Small : t = FromExponents(e)
  BY DEF Packed, Small
<1>2. Exponents(t) = e
  BY <1>1, FromExponentsFacts
<1> QED
  BY <1>1, <1>2

LEMMA SmallIsPacked ==
  ASSUME NEW e \in Small
  PROVE  FromExponents(e) \in Packed
BY DEF Packed, Small

(* The inductive invariant: the registers hold monomials.                  *)
Registers == a \in Packed /\ b \in Packed

(* The exponents after a step are those of the words after it.             *)
LEMMA NextExponents ==
  Exponents(a)' = Exponents(a') /\ Exponents(b)' = Exponents(b')
BY DEF Exponents, ExponentAt, Byte

(* The exact registers compute with the same monomials.                    *)
LEMMA ExactOperators ==
  /\ Exact!Fitting = Small
  /\ \A x, y : /\ Exact!Mul(x, y) = Mul(x, y) /\ Exact!Div(x, y) = Div(x, y)
               /\ Exact!Lcm(x, y) = Lcm(x, y)
               /\ Exact!Divides(x, y) <=> Divides(x, y)
BY DEF Exact!Fitting, Exact!Vars, Exact!Mul, Exact!Div, Exact!Lcm, Exact!Divides,
       Small, Vars, Mul, Div, Lcm, Divides

(* What a step does to exponents is a step of the exact registers.         *)
LEMMA StepIsExact ==
  ASSUME Registers, [Next]_vars
  PROVE  /\ Registers'
         /\ [Exact!MulExact \/ Exact!DivExact \/ Exact!LcmExact \/ Exact!DividesExact
               \/ Exact!Swap]_<<Exponents(a), Exponents(b), outcome>>
<1> DEFINE e == Exponents(a)
           f == Exponents(b)
           Taken == Exact!MulExact \/ Exact!DivExact \/ Exact!LcmExact
                      \/ Exact!DividesExact \/ Exact!Swap
<1>1. e \in Small /\ f \in Small /\ a = FromExponents(e) /\ b = FromExponents(f)
  BY PackedFacts DEF Registers
<1>2. Exponents(a)' = Exponents(a') /\ Exponents(b)' = Exponents(b')
  BY NextExponents
(* A step that stores the packed g in a, and leaves b. *)
<1>3. ASSUME NEW g \in Small, a' = FromExponents(g), b' = b
      PROVE  Registers' /\ Exponents(a)' = g /\ Exponents(b)' = f
  <2>1. a' \in Packed /\ b' \in Packed
    BY <1>3, SmallIsPacked DEF Registers
  <2>2. Exponents(a') = g
    BY <1>3, FromExponentsFacts
  <2> QED
    BY <1>2, <1>3, <2>1, <2>2 DEF Registers
(* A step that only answers. *)
<1>4. ASSUME a' = a, b' = b
      PROVE  Registers' /\ Exponents(a)' = e /\ Exponents(b)' = f
  BY <1>2, <1>4 DEF Registers
<1>5. CASE MulBy
  <2>1. Mul(e, f) \in Small
    BY <1>1, <1>5, OverflowIsSeen DEF MulBy
  <2>2. a' = FromExponents(Mul(e, f)) /\ b' = b /\ outcome' = "ok"
    BY <1>1, <1>5, <2>1, ProductIsExact DEF MulBy, Become
  <2>3. Registers' /\ Exponents(a)' = Mul(e, f) /\ Exponents(b)' = f
    BY <1>3, <2>1, <2>2
  <2>4. Exact!MulExact
    BY <2>1, <2>2, <2>3, ExactOperators DEF Exact!MulExact, Exact!Become
  <2> QED
    BY <2>3, <2>4
<1>6. CASE MulPanics
  <2>1. Mul(e, f) \notin Small
    BY <1>1, <1>6, OverflowIsSeen DEF MulPanics
  <2>2. a' = a /\ b' = b /\ outcome' = "panic"
    BY <1>6 DEF MulPanics, Answer
  <2>3. Registers' /\ Exponents(a)' = e /\ Exponents(b)' = f
    BY <1>4, <2>2
  <2>4. Exact!MulExact
    BY <2>1, <2>2, <2>3, ExactOperators DEF Exact!MulExact, Exact!Answer
  <2> QED
    BY <2>3, <2>4
<1>7. CASE DivBy
  <2>1. Divides(f, e)
    BY <1>1, <1>7, DividesIsExact DEF DivBy
  <2>2. Div(e, f) \in Small /\ a' = FromExponents(Div(e, f)) /\ b' = b /\ outcome' = "ok"
    BY <1>1, <1>7, <2>1, QuotientIsExact DEF DivBy, Become
  <2>3. Registers' /\ Exponents(a)' = Div(e, f) /\ Exponents(b)' = f
    BY <1>3, <2>2
  <2>4. Exact!DivExact
    BY <2>1, <2>2, <2>3, ExactOperators DEF Exact!DivExact, Exact!Become
  <2> QED
    BY <2>3, <2>4
<1>8. CASE DivNone
  <2>1. ~Divides(f, e)
    BY <1>1, <1>8, DividesIsExact DEF DivNone
  <2>2. a' = a /\ b' = b /\ outcome' = "none"
    BY <1>8 DEF DivNone, Answer
  <2>3. Registers' /\ Exponents(a)' = e /\ Exponents(b)' = f
    BY <1>4, <2>2
  <2>4. Exact!DivExact
    BY <2>1, <2>2, <2>3, ExactOperators DEF Exact!DivExact, Exact!Answer
  <2> QED
    BY <2>3, <2>4
<1>9. CASE LcmWith
  <2>1. Lcm(e, f) \in Small /\ a' = FromExponents(Lcm(e, f)) /\ b' = b /\ outcome' = "ok"
    BY <1>1, <1>9, LcmIsExact DEF LcmWith, Become
  <2>2. Registers' /\ Exponents(a)' = Lcm(e, f) /\ Exponents(b)' = f
    BY <1>3, <2>1
  <2>3. Exact!LcmExact
    BY <2>1, <2>2, ExactOperators DEF Exact!LcmExact, Exact!Become
  <2> QED
    BY <2>2, <2>3
<1>10. CASE Divide
  <2>1. a.sev \subseteq b.sev /\ PackedDivides(a, b) <=> Divides(e, f)
    BY <1>1, DividesIsExact
  <2>2. a' = a /\ b' = b /\ outcome' = (IF Divides(e, f) THEN "divides" ELSE "none")
    BY <1>10, <2>1 DEF Divide, Answer
  <2>3. Registers' /\ Exponents(a)' = e /\ Exponents(b)' = f
    BY <1>4, <2>2
  <2>4. Exact!DividesExact
    BY <2>2, <2>3, ExactOperators DEF Exact!DividesExact, Exact!Answer
  <2> QED
    BY <2>3, <2>4
<1>11. CASE Swap
  <2>1. a' = b /\ b' = a /\ outcome' = "ok"
    BY <1>11 DEF Swap
  <2>2. Registers' /\ Exponents(a)' = f /\ Exponents(b)' = e
    BY <1>2, <2>1 DEF Registers
  <2>3. Exact!Swap
    BY <2>1, <2>2 DEF Exact!Swap
  <2> QED
    BY <2>2, <2>3
<1>12. CASE UNCHANGED vars
  <2>1. a' = a /\ b' = b /\ outcome' = outcome
    BY <1>12 DEF vars
  <2>2. Registers' /\ Exponents(a)' = e /\ Exponents(b)' = f
    BY <1>4, <2>1
  <2> QED
    BY <2>1, <2>2
<1> QED
  BY <1>5, <1>6, <1>7, <1>8, <1>9, <1>10, <1>11, <1>12 DEF Next

LEMMA InitIsExact == Init => Registers /\ Exact!Init
<1> SUFFICES ASSUME Init PROVE Registers /\ Exact!Init
  OBVIOUS
<1>1. Registers /\ outcome = "ok"
  BY DEF Init, Registers
<1>2. Exponents(a) \in Small /\ Exponents(b) \in Small
  BY <1>1, PackedFacts DEF Registers
<1> QED
  BY <1>1, <1>2, ExactOperators DEF Exact!Init

LEMMA RegistersAlways == Spec => []Registers
<1>1. Init => Registers
  BY InitIsExact
<1>2. Registers /\ [Next]_vars => Registers'
  BY StepIsExact
<1> QED
  BY <1>1, <1>2, PTL DEF Spec

(* Whatever operations a monomial comes from, its words, its short         *)
(* exponent vector and its degree are those of its exponents: what         *)
(* assert_canonical (monomial.rs:452-494) asks of one monomial at a time,  *)
(* for every width of a field and every number of words and variables.     *)
THEOREM MonomialsAreCanonical == Spec => []TypeOK
<1>1. Registers => TypeOK
  BY PackedFacts DEF Registers, TypeOK
<1> QED
  BY <1>1, RegistersAlways, PTL

(* The operations on words (monomial.rs:236-340) are the exact operations  *)
(* on exponent vectors: mul panics in a debug build exactly when an        *)
(* exponent does not fit, div and divides answer as on the exponents, and  *)
(* no short exponent vector rejects a divisor.                             *)
THEOREM MonomialsAreExact == Spec => ImplementsExact
<1>1. Registers /\ [Next]_vars =>
        [Exact!MulExact \/ Exact!DivExact \/ Exact!LcmExact \/ Exact!DividesExact
           \/ Exact!Swap]_(Exact!vars)
  BY StepIsExact DEF Exact!vars
<1> QED
  BY <1>1, InitIsExact, RegistersAlways, PTL DEF Spec, ImplementsExact, Exact!Spec

-----------------------------------------------------------------------------
(* The orders.                                                             *)

(* Flipping the exponents, field by field.                                 *)
Flip(d) == [k \in Field |-> IF k \in VarBytes THEN d[k] + MAX_VAR_EXP - 2 * (d[k] % GUARD)
                            ELSE d[k]]

(* The fields of monomials: no guard bit is set.                           *)
Guarded(d) ==
  /\ d \in Fields
  /\ \A k \in VarBytes : d[k] \in 0 .. GUARD - 1

LEMMA FlipFacts ==
  ASSUME NEW d, Guarded(d)
  PROVE  /\ Flip(d) \in Fields
         /\ \A k \in VarBytes : Flip(d)[k] = MAX_VAR_EXP - d[k]
         /\ \A k \in Field : k \notin VarBytes => Flip(d)[k] = d[k]
         /\ \A i \in Word : Flipped(Pack(d), i) = Pack(Flip(d))[i]
<1>0. d \in Fields /\ GUARD \in Nat /\ GUARD > 0 /\ FIELD = 2 * GUARD /\ MAX_VAR_EXP = GUARD - 1
  BY FieldFacts DEF Guarded
<1>1. ASSUME NEW k \in VarBytes
      PROVE  Flip(d)[k] = MAX_VAR_EXP - d[k] /\ Flip(d)[k] \in 0 .. FIELD - 1
  <2> DEFINE x == d[k]
  <2>1. x \in 0 .. GUARD - 1 /\ k \in Field
    BY VariableBytes DEF Guarded
  <2>2. Flip(d)[k] = x + MAX_VAR_EXP - 2 * (x % GUARD)
    BY <2>1 DEF Flip
  <2> HIDE DEF x
  <2>3. (x % GUARD) = x
    BY <2>1, BelowGuard
  <2>4. Flip(d)[k] = MAX_VAR_EXP - x
    BY <1>0, <2>1, <2>2, <2>3
  <2>5. MAX_VAR_EXP - x \in 0 .. FIELD - 1
    BY <1>0, <2>1
  <2> QED
    BY <2>4, <2>5 DEF x
<1>2. ASSUME NEW k \in Field, k \notin VarBytes
      PROVE  Flip(d)[k] = d[k] /\ Flip(d)[k] \in 0 .. FIELD - 1
  BY <1>0, <1>2 DEF Flip, Fields
<1>3. Flip(d) \in Fields
  <2> DEFINE g == Flip(d)
  <2>1. g = [k \in Field |-> g[k]]
    BY DEF Flip
  <2>2. \A k \in Field : g[k] \in 0 .. FIELD - 1
    BY <1>1, <1>2
  <2> HIDE DEF g
  <2>3. g \in Fields
    BY <2>1, <2>2 DEF Fields
  <2> QED
    BY <2>3 DEF g
<1>4. ASSUME NEW i \in Word PROVE Flipped(Pack(d), i) = Pack(Flip(d))[i]
  <2> DEFINE x == Pack(d)
             g == [k \in Field |->
                     IF k \in VarBytes THEN Byte(x, k) + MAX_VAR_EXP - 2 * (Byte(x, k) % GUARD)
                     ELSE Byte(x, k)]
  <2>1. \A k \in Field : Byte(x, k) = d[k]
    BY <1>0, ByteOfPack
  <2>2. Flipped(x, i) = Pack(g)[i]
    BY DEF Flipped
  <2>3. g = Flip(d)
    <3> HIDE DEF x
    <3> QED
      BY <2>1, Zenon DEF Flip
  <2> HIDE DEF g
  <2> QED
    BY <2>2, <2>3
<1> QED
  BY <1>1, <1>2, <1>3, <1>4

(* Comparing words from the last one down.                                 *)
LEMMA WordsDownwards ==
  ASSUME NEW d, NEW e, Guarded(d), Guarded(e)
  PROVE  WordsLess(Pack(d), Pack(e), Downwards) <=> Before(Flip(d), Flip(e), CAP_BYTE + 1)
<1>0. W \in Nat /\ W > 0
  BY Sizes
<1> DEFINE x == Pack(Flip(d))
           y == Pack(Flip(e))
           u(i) == Flipped(Pack(d), i)
           v(i) == Flipped(Pack(e), i)
<1>1. \A i \in Word : u(i) = x[i] /\ v(i) = y[i]
  BY FlipFacts
<1>2. (\E i \in Word : x[i] < y[i] /\ \A j \in Word : j > i => x[j] = y[j])
        <=> Before(Flip(d), Flip(e), CAP_BYTE + 1)
  BY FlipFacts, OrderOfPacks
<1>3. WordsLess(Pack(d), Pack(e), Downwards) <=>
        \E n \in 1 .. W : /\ u(W - n) < v(W - n)
                          /\ \A m \in 1 .. n - 1 : u(W - m) = v(W - m)
  <2>1. DOMAIN Downwards = 1 .. W /\ \A n \in 1 .. W : Downwards[n] = W - n
    BY DEF Downwards
  <2>2. \A n \in 1 .. W : \A m \in 1 .. n - 1 : m \in 1 .. W
    BY <1>0
  <2> DEFINE o == Downwards
  <2>3. WordsLess(Pack(d), Pack(e), o) <=>
          \E n \in DOMAIN o : u(o[n]) < v(o[n]) /\ \A m \in 1 .. n - 1 : u(o[m]) = v(o[m])
    BY DEF WordsLess
  <2> HIDE DEF u, v, o
  <2> QED
    BY <2>1, <2>2, <2>3 DEF o
<1> HIDE DEF x, y, u, v
<1>4. ASSUME NEW n \in 1 .. W, u(W - n) < v(W - n), \A m \in 1 .. n - 1 : u(W - m) = v(W - m)
      PROVE  \E i \in Word : x[i] < y[i] /\ \A j \in Word : j > i => x[j] = y[j]
  <2>1. W - n \in Word /\ x[W - n] < y[W - n]
    BY <1>0, <1>1, <1>4 DEF Word
  <2>2. ASSUME NEW j \in Word, j > W - n PROVE x[j] = y[j]
    <3>1. W - j \in 1 .. n - 1 /\ W - (W - j) = j
      BY <1>0, <2>2 DEF Word
    <3>2. u(W - (W - j)) = v(W - (W - j))
      BY <1>4, <3>1
    <3>3. u(j) = v(j)
      BY <3>1, <3>2
    <3> QED
      BY <1>1, <3>3
  <2> QED
    BY <2>1, <2>2
<1>5. ASSUME NEW i \in Word, x[i] < y[i], \A j \in Word : j > i => x[j] = y[j]
      PROVE  \E n \in 1 .. W : /\ u(W - n) < v(W - n)
                               /\ \A m \in 1 .. n - 1 : u(W - m) = v(W - m)
  <2> DEFINE n == W - i
  <2>1. n \in 1 .. W /\ W - n = i
    BY <1>0 DEF Word
  <2>2. u(W - n) < v(W - n)
    BY <1>1, <1>5, <2>1
  <2>3. ASSUME NEW m \in 1 .. n - 1 PROVE u(W - m) = v(W - m)
    <3>1. W - m \in Word /\ W - m > i
      BY <1>0, <2>1 DEF Word
    <3> QED
      BY <1>1, <1>5, <3>1
  <2> HIDE DEF n
  <2> QED
    BY <2>1, <2>2, <2>3
<1> QED
  BY <1>2, <1>3, <1>4, <1>5

LEMMA MonomialFields ==
  ASSUME NEW e \in Small
  PROVE  Guarded(FieldsOf(e)) /\ FromExponents(e).packed = Pack(FieldsOf(e))
BY FieldsOfFacts, FromExponentsFacts DEF Guarded

(* Below the degree byte, flipped fields compare as exponents do from the  *)
(* last variable, the larger exponent first.                               *)
LEMMA OrderOfExponents ==
  ASSUME NEW e \in Small, NEW f \in Small
  PROVE  Before(Flip(FieldsOf(e)), Flip(FieldsOf(f)), CAP_BYTE) <=>
           \E v \in Vars : e[v] > f[v] /\ \A w \in (v + 1) .. NVars : e[w] = f[w]
<1> DEFINE x == Flip(FieldsOf(e))
           y == Flip(FieldsOf(f))
           var(k) == k + NVars + 1 - CAP_BYTE
<1>0. NVars \in Nat /\ CAP_BYTE \in Nat /\ CAP_BYTE >= NVars /\ GUARD \in Nat
      /\ MAX_VAR_EXP = GUARD - 1
  BY VariableBytes, Sizes, FieldFacts
<1>1. ASSUME NEW k \in VarBytes
      PROVE  /\ x[k] = MAX_VAR_EXP - e[var(k)] /\ y[k] = MAX_VAR_EXP - f[var(k)]
             /\ var(k) \in Vars /\ e[var(k)] \in Nat /\ f[var(k)] \in Nat
  <2>1. x[k] = MAX_VAR_EXP - FieldsOf(e)[k] /\ y[k] = MAX_VAR_EXP - FieldsOf(f)[k]
    BY MonomialFields, FlipFacts
  <2>2. FieldsOf(e)[k] = e[var(k)] /\ FieldsOf(f)[k] = f[var(k)] /\ var(k) \in Vars
    BY FieldsOfFacts, VariableBytes
  <2> HIDE DEF x, y, var
  <2>3. e[var(k)] \in Nat /\ f[var(k)] \in Nat
    BY <1>0, <2>2, SmallIsMonomial
  <2> QED
    BY <2>1, <2>2, <2>3
<1>2. ASSUME NEW k \in 0 .. CAP_BYTE - 1, k \notin VarBytes PROVE x[k] = 0 /\ y[k] = 0
  <2>1. k \in Field /\ k # CAP_BYTE
    BY <1>0 DEF Field
  <2>2. FieldsOf(e)[k] = 0 /\ FieldsOf(f)[k] = 0
    BY <1>2, <2>1, FieldsOfFacts
  <2>3. x[k] = FieldsOf(e)[k] /\ y[k] = FieldsOf(f)[k]
    BY <1>2, <2>1, MonomialFields, FlipFacts
  <2> QED
    BY <2>2, <2>3
<1> HIDE DEF x, y
<1>3. ASSUME NEW k \in 0 .. CAP_BYTE - 1, x[k] < y[k],
             \A l \in (k + 1) .. (CAP_BYTE - 1) : x[l] = y[l]
      PROVE  \E v \in Vars : e[v] > f[v] /\ \A w \in (v + 1) .. NVars : e[w] = f[w]
  <2>1. k \in VarBytes
    BY <1>2, <1>3
  <2>2. e[var(k)] > f[var(k)] /\ var(k) \in Vars
    <3>1. x[k] = MAX_VAR_EXP - e[var(k)] /\ y[k] = MAX_VAR_EXP - f[var(k)]
          /\ var(k) \in Vars /\ e[var(k)] \in Nat /\ f[var(k)] \in Nat
      BY <1>1, <2>1
    <3> HIDE DEF var
    <3> QED
      BY <1>0, <1>3, <3>1
  <2>3. ASSUME NEW w \in (var(k) + 1) .. NVars PROVE e[w] = f[w]
    <3> DEFINE l == w + CAP_BYTE - NVars - 1
    <3>1. l \in VarBytes /\ l \in (k + 1) .. (CAP_BYTE - 1) /\ var(l) = w
      BY <1>0, <2>1, <2>2 DEF VarBytes, Vars
    <3> HIDE DEF l, var
    <3>2. x[l] = MAX_VAR_EXP - e[w] /\ y[l] = MAX_VAR_EXP - f[w] /\ e[w] \in Nat /\ f[w] \in Nat
      BY <1>1, <3>1
    <3>3. x[l] = y[l]
      BY <1>3, <3>1
    <3> QED
      BY <1>0, <3>2, <3>3
  <2> HIDE DEF var
  <2> QED
    BY <2>2, <2>3
<1>4. ASSUME NEW v \in Vars, e[v] > f[v], \A w \in (v + 1) .. NVars : e[w] = f[w]
      PROVE  \E k \in 0 .. CAP_BYTE - 1 :
               x[k] < y[k] /\ \A l \in (k + 1) .. (CAP_BYTE - 1) : x[l] = y[l]
  <2> DEFINE k == v + CAP_BYTE - NVars - 1
  <2>1. k \in VarBytes /\ k \in 0 .. CAP_BYTE - 1 /\ var(k) = v
    BY <1>0 DEF VarBytes, Vars
  <2>2. x[k] < y[k]
    <3> HIDE DEF k, var
    <3>1. x[k] = MAX_VAR_EXP - e[v] /\ y[k] = MAX_VAR_EXP - f[v] /\ e[v] \in Nat /\ f[v] \in Nat
      BY <1>1, <2>1
    <3> QED
      BY <1>0, <1>4, <3>1
  <2>3. ASSUME NEW l \in (k + 1) .. (CAP_BYTE - 1) PROVE x[l] = y[l]
    <3>1. l \in VarBytes /\ var(l) \in (v + 1) .. NVars
      BY <1>0 DEF VarBytes, Vars
    <3> HIDE DEF k, var
    <3>2. x[l] = MAX_VAR_EXP - e[var(l)] /\ y[l] = MAX_VAR_EXP - f[var(l)]
      BY <1>1, <3>1
    <3>3. e[var(l)] = f[var(l)]
      BY <1>4, <3>1
    <3> QED
      BY <3>2, <3>3
  <2> HIDE DEF k
  <2> QED
    BY <2>1, <2>2, <2>3
<1> QED
  BY <1>3, <1>4 DEF Before, x, y

(* The comparison of keys, in terms of exponents.                          *)
LEMMA KeyOrder ==
  ASSUME NEW e \in Small, NEW f \in Small
  PROVE  KeyLess(FromExponents(e), FromExponents(f)) <=>
           \/ Cap(Deg(e)) < Cap(Deg(f))
           \/ /\ Cap(Deg(e)) = Cap(Deg(f))
              /\ \E v \in Vars : e[v] > f[v] /\ \A w \in (v + 1) .. NVars : e[w] = f[w]
<1> DEFINE x == Flip(FieldsOf(e))
           y == Flip(FieldsOf(f))
<1>1. KeyLess(FromExponents(e), FromExponents(f)) <=> Before(x, y, CAP_BYTE + 1)
  BY MonomialFields, WordsDownwards DEF KeyLess
<1>2. CAP_BYTE \in Nat /\ CAP_BYTE \in Field /\ CAP_BYTE \notin VarBytes
  BY VariableBytes
<1>3. x[CAP_BYTE] = Cap(Deg(e)) /\ y[CAP_BYTE] = Cap(Deg(f))
  BY <1>2, MonomialFields, FlipFacts, FieldsOfFacts
<1>4. Cap(Deg(e)) \in Nat /\ Cap(Deg(f)) \in Nat
  BY SmallIsMonomial, CapFacts, FieldFacts
<1>5. Before(x, y, CAP_BYTE) <=>
        \E v \in Vars : e[v] > f[v] /\ \A w \in (v + 1) .. NVars : e[w] = f[w]
  BY OrderOfExponents
<1> HIDE DEF x, y
<1>6. Before(x, y, CAP_BYTE + 1) <=>
        x[CAP_BYTE] < y[CAP_BYTE] \/ (x[CAP_BYTE] = y[CAP_BYTE] /\ Before(x, y, CAP_BYTE))
  BY <1>2, <1>3, <1>4, BeforeStep
<1> QED
  BY <1>1, <1>3, <1>5, <1>6

LEMMA SaturatedMeans ==
  ASSUME NEW e \in Small
  PROVE  /\ Saturated(FromExponents(e)) <=> Deg(e) >= FIELD - 1
         /\ ~Saturated(FromExponents(e)) => Cap(Deg(e)) = Deg(e)
<1>1. Byte(FromExponents(e).packed, CAP_BYTE) = Cap(Deg(e))
  BY VariableBytes, FromExponentsFacts, FieldsOfFacts
<1>2. Deg(e) \in Nat /\ FIELD \in Nat
  BY SmallIsMonomial, FieldFacts
<1> QED
  BY <1>1, <1>2, CapFacts DEF Saturated

(* Below the cap words and keys compare as monomials.                      *)
LEMMA BelowCap ==
  ASSUME NEW e \in Small, NEW f \in Small,
         ~Saturated(FromExponents(e)), ~Saturated(FromExponents(f))
  PROVE  /\ CmpLess(FromExponents(e), FromExponents(f)) <=> Less(e, f)
         /\ KeyLess(FromExponents(e), FromExponents(f)) <=> Less(e, f)
<1>1. Cap(Deg(e)) = Deg(e) /\ Cap(Deg(f)) = Deg(f)
  BY SaturatedMeans
<1>2. KeyLess(FromExponents(e), FromExponents(f)) <=> Less(e, f)
  BY <1>1, KeyOrder DEF Less
<1>3. CmpLess(FromExponents(e), FromExponents(f)) <=> KeyLess(FromExponents(e), FromExponents(f))
  BY DEF CmpLess, KeyLess
<1> QED
  BY <1>2, <1>3

-----------------------------------------------------------------------------
(* Two different monomials are never equal in an order.                    *)

(* An order of all words is total: only equal words are not apart.         *)
LEMMA WordsApart ==
  ASSUME NEW d, NEW e, Guarded(d), Guarded(e), NEW o, NEW N \in Nat,
         DOMAIN o = 1 .. N, \A i \in Word : \E n \in 1 .. N : o[n] = i,
         \A n \in 1 .. N : o[n] \in Word
  PROVE  Flip(d) = Flip(e) <=> ~WordsLess(Pack(d), Pack(e), o) /\ ~WordsLess(Pack(e), Pack(d), o)
<1> DEFINE x == Pack(Flip(d))
           y == Pack(Flip(e))
           u(i) == Flipped(Pack(d), i)
           v(i) == Flipped(Pack(e), i)
<1>1. \A i \in Word : u(i) = x[i] /\ v(i) = y[i]
  BY FlipFacts
<1>2. /\ WordsLess(Pack(d), Pack(e), o) <=>
           \E n \in 1 .. N : u(o[n]) < v(o[n]) /\ \A m \in 1 .. n - 1 : u(o[m]) = v(o[m])
      /\ WordsLess(Pack(e), Pack(d), o) <=>
           \E n \in 1 .. N : v(o[n]) < u(o[n]) /\ \A m \in 1 .. n - 1 : v(o[m]) = u(o[m])
  BY DEF WordsLess
<1>3. \A i \in Word : x[i] \in Nat /\ y[i] \in Nat
  <2>1. \A i \in Word : /\ Chunk(Flip(d), i) \in Bytes /\ x[i] = WordOf(Chunk(Flip(d), i))
                        /\ Chunk(Flip(e), i) \in Bytes /\ y[i] = WordOf(Chunk(Flip(e), i))
    BY FlipFacts, ChunkFacts
  <2> HIDE DEF x, y
  <2> QED
    BY <2>1, WordBounds
<1>4. Flip(d) = Flip(e) => \A i \in Word : x[i] = y[i]
  OBVIOUS
<1>5. (\A i \in Word : x[i] = y[i]) => Flip(d) = Flip(e)
  BY FlipFacts, SamePack
<1> HIDE DEF x, y, u, v
<1>6. ASSUME \A i \in Word : x[i] = y[i]
      PROVE  ~WordsLess(Pack(d), Pack(e), o) /\ ~WordsLess(Pack(e), Pack(d), o)
  <2>1. \A n \in 1 .. N : u(o[n]) = v(o[n]) /\ u(o[n]) \in Nat
    BY <1>1, <1>3, <1>6
  <2>2. \A n \in 1 .. N : ~(u(o[n]) < v(o[n])) /\ ~(v(o[n]) < u(o[n]))
    BY <2>1
  <2> QED
    BY <1>2, <2>2
<1>7. ASSUME NEW i \in Word, x[i] # y[i]
      PROVE  WordsLess(Pack(d), Pack(e), o) \/ WordsLess(Pack(e), Pack(d), o)
  <2> DEFINE T == {n \in 1 .. N : x[o[n]] # y[o[n]]}
  <2>1. T \in SUBSET Nat /\ T # {}
    BY <1>7
  <2>2. PICK n \in T : \A m \in T : n <= m
    <3> HIDE DEF T
    <3> QED
      BY <2>1, LeastNatural
  <2>3. n \in 1 .. N /\ x[o[n]] # y[o[n]]
    OBVIOUS
  <2>4. ASSUME NEW m \in 1 .. n - 1 PROVE u(o[m]) = v(o[m])
    <3>1. m \in 1 .. N /\ m < n
      BY <2>3
    <3>2. m \notin T
      <4> HIDE DEF T
      <4> QED
        BY <2>2, <2>3, <3>1
    <3>3. x[o[m]] = y[o[m]]
      BY <3>1, <3>2
    <3> QED
      BY <1>1, <3>1, <3>3
  <2> HIDE DEF T
  <2>5. u(o[n]) < v(o[n]) \/ v(o[n]) < u(o[n])
    BY <1>1, <1>3, <2>3
  <2> QED
    BY <1>2, <2>3, <2>4, <2>5
<1> QED
  BY <1>4, <1>5, <1>6, <1>7

LEMMA BothOrders ==
  /\ DOMAIN Downwards = 1 .. W /\ DOMAIN TopWordLast = 1 .. W
  /\ \A n \in 1 .. W : Downwards[n] \in Word /\ TopWordLast[n] \in Word
  /\ \A i \in Word : (\E n \in 1 .. W : Downwards[n] = i) /\ \E n \in 1 .. W : TopWordLast[n] = i
<1>0. W \in Nat /\ W > 0
  BY Sizes
<1>1. \A n \in 1 .. W : Downwards[n] = W - n /\ TopWordLast[n] = IF n = W THEN W - 1 ELSE W - 1 - n
  BY DEF Downwards, TopWordLast
<1>2. ASSUME NEW i \in Word PROVE \E n \in 1 .. W : Downwards[n] = i
  <2>1. W - i \in 1 .. W /\ W - (W - i) = i
    BY <1>0 DEF Word
  <2> QED
    BY <1>1, <2>1
<1>3. ASSUME NEW i \in Word PROVE \E n \in 1 .. W : TopWordLast[n] = i
  <2>1. CASE i = W - 1
    <3>1. W \in 1 .. W /\ TopWordLast[W] = i
      BY <1>0, <1>1, <2>1
    <3> QED
      BY <3>1
  <2>2. CASE i # W - 1
    <3>1. W - 1 - i \in 1 .. W /\ W - 1 - i # W /\ W - 1 - (W - 1 - i) = i
      BY <1>0, <2>2 DEF Word
    <3>2. TopWordLast[W - 1 - i] = i
      BY <1>1, <3>1
    <3> QED
      BY <3>1, <3>2
  <2> QED
    BY <2>1, <2>2
<1>4. \A n \in 1 .. W : Downwards[n] \in Word /\ TopWordLast[n] \in Word
  BY <1>0, <1>1 DEF Word
<1>5. DOMAIN Downwards = 1 .. W /\ DOMAIN TopWordLast = 1 .. W
  BY DEF Downwards, TopWordLast
<1> QED
  BY <1>2, <1>3, <1>4, <1>5

(* Words without the degree byte.                                          *)
LEMMA UncappedFacts ==
  ASSUME NEW e \in Small
  PROVE  LET d == [FieldsOf(e) EXCEPT ![CAP_BYTE] = 0]
         IN  Guarded(d) /\ Uncapped(FromExponents(e).packed) = Pack(d)
<1> DEFINE g == FieldsOf(e)
           d == [g EXCEPT ![CAP_BYTE] = 0]
           p == Place[BYTES - 1]
<1>1. g \in Fields /\ FromExponents(e).packed = Pack(g) /\ 0 \in 0 .. FIELD - 1
  BY FieldsOfFacts, MonomialFields, FieldFacts
<1>2. \A k \in VarBytes : g[k] \in 0 .. GUARD - 1 /\ k \in Field /\ k # CAP_BYTE
  BY FieldsOfFacts, VariableBytes
<1> HIDE DEF g
<1>3. d \in Fields /\ [Pack(g) EXCEPT ![W - 1] = (@ % p) + 0 * p] = Pack(d)
  BY <1>1, LastByteSet
<1>4. Uncapped(Pack(g)) = Pack(d)
  <2> DEFINE q == Pack(g)[W - 1] % p
  <2>1. q + 0 * p = q
    <3>1. Pack(g)[W - 1] \in Nat /\ p \in Nat /\ p > 0
      <4>1. W - 1 \in Word /\ BYTES - 1 \in 0 .. BYTES
        BY Positions, Sizes
      <4> QED
        BY <1>1, <4>1, ChunkFacts, WordBounds, PlaceFacts
    <3>2. q \in Nat
      BY <3>1
    <3> HIDE DEF q, p
    <3> QED
      BY <3>1, <3>2
  <2>2. [Pack(g) EXCEPT ![W - 1] = q + 0 * p] = Pack(d)
    BY <1>3
  <2> HIDE DEF d
  <2>3. [Pack(g) EXCEPT ![W - 1] = q] = Pack(d)
    <3> HIDE DEF q, p
    <3> QED
      BY <2>1, <2>2
  <2> QED
    BY <2>3 DEF Uncapped
<1>5. Guarded(d)
  <2>1. \A k \in VarBytes : d[k] = g[k]
    BY <1>1, <1>2 DEF Fields
  <2> HIDE DEF d
  <2> QED
    BY <1>2, <1>3, <2>1 DEF Guarded
<1> QED
  BY <1>1, <1>4, <1>5 DEF g

(* Flipped fields that agree are those of equal exponents.                 *)
LEMMA SameFlip ==
  ASSUME NEW d, NEW g, Guarded(d), Guarded(g), NEW e \in Small, NEW f \in Small,
         \A k \in VarBytes : d[k] = e[k + NVars + 1 - CAP_BYTE] /\ g[k] = f[k + NVars + 1 - CAP_BYTE],
         Flip(d) = Flip(g)
  PROVE  e = f
<1>1. ASSUME NEW v \in Vars PROVE e[v] = f[v]
  <2> DEFINE k == ByteIndex(v)
  <2>1. k \in VarBytes /\ k + NVars + 1 - CAP_BYTE = v
    BY VariableBytes
  <2> HIDE DEF k
  <2>2. d[k] = e[v] /\ g[k] = f[v]
    <3>1. d[k] = e[k + NVars + 1 - CAP_BYTE] /\ g[k] = f[k + NVars + 1 - CAP_BYTE]
      BY <2>1
    <3> QED
      BY <2>1, <3>1
  <2>3. MAX_VAR_EXP - d[k] = MAX_VAR_EXP - g[k]
    BY <2>1, FlipFacts
  <2>4. d[k] \in Nat /\ g[k] \in Nat /\ MAX_VAR_EXP \in Int
    BY <2>1, FieldFacts DEF Guarded
  <2> QED
    BY <2>2, <2>3, <2>4
<1>2. e = [v \in Vars |-> e[v]] /\ f = [v \in Vars |-> f[v]]
  BY DEF Small
<1>3. [v \in Vars |-> e[v]] = [v \in Vars |-> f[v]]
  BY <1>1, Zenon
<1> QED
  BY <1>2, <1>3, Zenon

LEMMA KeysApart ==
  ASSUME NEW e \in Small, NEW f \in Small
  PROVE  e = f <=> /\ ~KeyLess(FromExponents(e), FromExponents(f))
                   /\ ~KeyLess(FromExponents(f), FromExponents(e))
<1> DEFINE d == FieldsOf(e)
           g == FieldsOf(f)
<1>1. Guarded(d) /\ Guarded(g) /\ FromExponents(e).packed = Pack(d) /\ FromExponents(f).packed = Pack(g)
  BY MonomialFields
<1>2. \A k \in VarBytes : d[k] = e[k + NVars + 1 - CAP_BYTE] /\ g[k] = f[k + NVars + 1 - CAP_BYTE]
  BY FieldsOfFacts
<1>3. e = f => d = g
  OBVIOUS
<1> HIDE DEF d, g
<1>4. Flip(d) = Flip(g) <=> ~WordsLess(Pack(d), Pack(g), Downwards) /\ ~WordsLess(Pack(g), Pack(d), Downwards)
  BY <1>1, Sizes, BothOrders, WordsApart
<1>5. Flip(d) = Flip(g) => e = f
  BY <1>1, <1>2, SameFlip
<1> QED
  BY <1>1, <1>3, <1>4, <1>5 DEF KeyLess

LEMMA MonomialsApart ==
  ASSUME NEW e \in Small, NEW f \in Small
  PROVE  e = f <=> /\ ~CmpLess(FromExponents(e), FromExponents(f))
                   /\ ~CmpLess(FromExponents(f), FromExponents(e))
<1> DEFINE t == FromExponents(e)
           u == FromExponents(f)
<1>1. CASE ~Saturated(t) /\ ~Saturated(u)
  <2>1. CmpLess(t, u) <=> KeyLess(t, u)
    BY <1>1 DEF CmpLess, KeyLess
  <2>2. CmpLess(u, t) <=> KeyLess(u, t)
    BY <1>1 DEF CmpLess, KeyLess
  <2> QED
    BY <2>1, <2>2, KeysApart
<1>2. CASE Saturated(t) \/ Saturated(u)
  <2> DEFINE d == [FieldsOf(e) EXCEPT ![CAP_BYTE] = 0]
             g == [FieldsOf(f) EXCEPT ![CAP_BYTE] = 0]
             x == Uncapped(t.packed)
             y == Uncapped(u.packed)
  <2>1. Guarded(d) /\ Guarded(g) /\ x = Pack(d) /\ y = Pack(g)
    BY UncappedFacts
  <2>2. ASSUME NEW k \in VarBytes
        PROVE  d[k] = e[k + NVars + 1 - CAP_BYTE] /\ g[k] = f[k + NVars + 1 - CAP_BYTE]
    <3>1. k \in Field /\ k # CAP_BYTE
      BY VariableBytes
    <3>2. FieldsOf(e) \in Fields /\ FieldsOf(f) \in Fields
          /\ FieldsOf(e)[k] = e[k + NVars + 1 - CAP_BYTE]
          /\ FieldsOf(f)[k] = f[k + NVars + 1 - CAP_BYTE]
      BY FieldsOfFacts
    <3>3. d[k] = FieldsOf(e)[k] /\ g[k] = FieldsOf(f)[k]
      BY <3>1, <3>2 DEF Fields
    <3> QED
      BY <3>2, <3>3
  <2>3. e = f => d = g
    OBVIOUS
  <2>4. t.total_deg = Deg(e) /\ u.total_deg = Deg(f) /\ Deg(e) \in Nat /\ Deg(f) \in Nat
    BY FromExponentsFacts, SmallIsMonomial
  <2>5. CmpLess(t, u) <=> Deg(e) < Deg(f) \/ (Deg(e) = Deg(f) /\ WordsLess(x, y, TopWordLast))
    BY <1>2, <2>4 DEF CmpLess
  <2>6. CmpLess(u, t) <=> Deg(f) < Deg(e) \/ (Deg(f) = Deg(e) /\ WordsLess(y, x, TopWordLast))
    BY <1>2, <2>4 DEF CmpLess
  <2> HIDE DEF d, g, x, y, t, u
  <2>7. Flip(d) = Flip(g) <=> ~WordsLess(x, y, TopWordLast) /\ ~WordsLess(y, x, TopWordLast)
    BY <2>1, Sizes, BothOrders, WordsApart
  <2>8. Flip(d) = Flip(g) => e = f
    BY <2>1, <2>2, SameFlip
  <2>9. e = f <=> ~CmpLess(t, u) /\ ~CmpLess(u, t)
    BY <2>3, <2>4, <2>5, <2>6, <2>7, <2>8
  <2> QED
    BY <2>9 DEF t, u
<1> QED
  BY <1>1, <1>2

(* While no degree byte is saturated, the words, and the keys that the     *)
(* reducer's heap compares (monomial.rs:82-104, 345-379), are in the       *)
(* degree reverse lexicographic order; and in every case, saturated ones   *)
(* included, two monomials that neither comparison tells apart are one, so *)
(* that terms of equal keys may be added up (reducer.rs:428-474).          *)
THEOREM OrdersAreSound == Spec => []OrdersSound
<1>1. Registers => OrdersSound
  <2> SUFFICES ASSUME Registers PROVE OrdersSound
    OBVIOUS
  <2> DEFINE e == Exponents(a)
             f == Exponents(b)
  <2>1. e \in Small /\ f \in Small /\ a = FromExponents(e) /\ b = FromExponents(f)
    BY PackedFacts DEF Registers
  <2> HIDE DEF e, f
  <2>2. OrderBelowCap
    <3>1. SUFFICES ASSUME ~Saturated(a), ~Saturated(b)
                   PROVE  /\ CmpLess(a, b) <=> Less(e, f)
                          /\ KeyLess(a, b) <=> Less(e, f)
                          /\ ElimKeyLess(a, b) <=> ElimLess(a, b)
      BY DEF OrderBelowCap, e, f
    <3>2. (CmpLess(a, b) <=> Less(e, f)) /\ (KeyLess(a, b) <=> Less(e, f))
      BY <2>1, <3>1, BelowCap
    <3>3. ElimKeyLess(a, b) <=> ElimLess(a, b)
      BY <3>2, Zenon DEF ElimKeyLess, ElimLess
    <3> QED
      BY <3>2, <3>3
  <2>3. OrdersTotal
    <3>1. e = f <=> ~CmpLess(a, b) /\ ~CmpLess(b, a)
      BY <2>1, MonomialsApart
    <3>2. e = f <=> ~KeyLess(a, b) /\ ~KeyLess(b, a)
      BY <2>1, KeysApart
    <3> QED
      BY <3>1, <3>2 DEF OrdersTotal, e, f
  <2> QED
    BY <2>2, <2>3 DEF OrdersSound
<1> QED
  BY <1>1, RegistersAlways, PTL
=============================================================================

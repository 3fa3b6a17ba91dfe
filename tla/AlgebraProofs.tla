---------------------------- MODULE AlgebraProofs ----------------------------
(***************************************************************************)
(* Facts about the operators the drivers are built from, for every number  *)
(* of variables: degrees add up, the monomial order is total, the leading  *)
(* monomial bounds the degrees of a polynomial, the criteria only drop     *)
(* pairs.  The recursive definitions are met by induction on an initial    *)
(* segment of the naturals, which follows from the least element of a set. *)
(* The second half is about the sequences of terms that the polynomial     *)
(* backends work on: what sorting, adding up and multiplying out keep, and *)
(* which polynomial a sequence stands for.                                 *)
(***************************************************************************)
EXTENDS GebauerMoeller, TermLists, FiniteSetTheorems, SequenceTheorems, TLAPS

(* Every nonempty set of natural numbers has a least element.              *)
LEMMA LeastNatural ==
  ASSUME NEW T \in SUBSET Nat, T # {}
  PROVE  \E n \in T : \A m \in T : n <= m
<1> DEFINE R == OpToRel(<, Nat)
<1>1. IsWellFoundedOn(R, Nat)
  BY NatLessThanWellFounded
<1>2. \A x, y \in Nat : <<x, y>> \in R <=> x < y
  BY DEF OpToRel
<1> HIDE DEF R
<1>3. PICK n \in T : \A y \in T : ~(<<y, n>> \in R)
  BY <1>1, WFMin
<1>4. ASSUME NEW m \in T PROVE n <= m
  <2>1. n \in Nat /\ m \in Nat
    OBVIOUS
  <2>2. ~(m < n)
    BY <1>2, <1>3, <2>1
  <2> QED
    BY <2>1, <2>2
<1> QED
  BY <1>4

(* Induction up to N: what holds of 0 and is passed on holds of all.       *)
LEMMA InductionUpTo ==
  ASSUME NEW N \in Nat, NEW S, 0 \in S, \A k \in 1 .. N : k - 1 \in S => k \in S
  PROVE  \A k \in 0 .. N : k \in S
<1> SUFFICES ASSUME NEW l \in 0 .. N, l \notin S PROVE FALSE
  OBVIOUS
<1> DEFINE T == {k \in 0 .. N : k \notin S}
<1>1. T \in SUBSET Nat /\ T # {}
  <2>1. l \in T
    OBVIOUS
  <2> QED
    BY <2>1
<1> HIDE DEF T
<1>2. PICK n \in T : \A m \in T : n <= m
  BY <1>1, LeastNatural
<1>3. n \in 0 .. N /\ n \notin S /\ n # 0
  BY <1>2 DEF T
<1>4. n - 1 \in 0 .. N /\ n - 1 \notin T
  BY <1>2, <1>3
<1> QED
  BY <1>3, <1>4 DEF T

(* A nonempty finite interval's subset has a largest element.              *)
LEMMA LargestUpTo ==
  ASSUME NEW N \in Nat, NEW T \in SUBSET (0 .. N), T # {}
  PROVE  \E n \in T : \A m \in T : m <= n
<1> DEFINE U == {N - m : m \in T}
<1>1. U \in SUBSET Nat /\ U # {}
  OBVIOUS
<1>2. PICK u \in U : \A m \in U : u <= m
  <2> HIDE DEF U
  <2> QED
    BY <1>1, LeastNatural
<1>3. PICK n \in T : u = N - n
  OBVIOUS
<1>4. ASSUME NEW m \in T PROVE m <= n
  <2>1. N - m \in U /\ m \in 0 .. N /\ n \in 0 .. N
    OBVIOUS
  <2>2. N - n <= N - m
    BY <1>2, <1>3, <2>1
  <2> QED
    BY <2>1, <2>2
<1> QED
  BY <1>4

-----------------------------------------------------------------------------
(* Degrees.                                                                *)

(* The sums of the exponents of a up to each variable.                     *)
Sums(a) == CHOOSE f : f = [v \in 0 .. NVars |-> IF v = 0 THEN 0 ELSE f[v - 1] + a[v]]

LEMMA SumsDefined ==
  ASSUME NEW a
  PROVE  Sums(a) = [v \in 0 .. NVars |-> IF v = 0 THEN 0 ELSE Sums(a)[v - 1] + a[v]]
<1> DEFINE IsSum(f, n) == f = [v \in 0 .. n |-> IF v = 0 THEN 0 ELSE f[v - 1] + a[v]]
           S == {n \in 0 .. NVars : \E f : IsSum(f, n)}
<1>0. NVars \in Nat
  BY NVarsAssumption
<1>1. 0 \in S
  <2> DEFINE f == [v \in 0 .. 0 |-> 0]
  <2>1. IsSum(f, 0)
    OBVIOUS
  <2> HIDE DEF f
  <2> QED
    BY <1>0, <2>1
<1>2. ASSUME NEW k \in 1 .. NVars, k - 1 \in S
      PROVE  k \in S
  <2>1. PICK f : IsSum(f, k - 1)
    BY <1>2
  <2> DEFINE g == [v \in 0 .. k |-> IF v = k THEN f[k - 1] + a[k] ELSE f[v]]
  <2>2. \A v \in 0 .. k - 1 : g[v] = f[v] /\ f[v] = IF v = 0 THEN 0 ELSE f[v - 1] + a[v]
    BY <2>1
  <2>3. \A v \in 0 .. k : g[v] = IF v = 0 THEN 0 ELSE g[v - 1] + a[v]
    BY <2>2
  <2>4. g = [v \in 0 .. k |-> g[v]]
    OBVIOUS
  <2> HIDE DEF g
  <2>5. IsSum(g, k)
    BY <2>3, <2>4
  <2> QED
    BY <1>0, <2>5
<1>3. NVars \in S
  <2> HIDE DEF S
  <2> QED
    BY <1>0, <1>1, <1>2, InductionUpTo
<1>4. \E f : IsSum(f, NVars)
  BY <1>3
<1> QED
  BY <1>4 DEF Sums

LEMMA DegIsSum == \A a : Deg(a) = Sums(a)[NVars]
BY DEF Deg, Sums

LEMMA SumsStep ==
  ASSUME NEW a
  PROVE  /\ Sums(a)[0] = 0
         /\ \A v \in 1 .. NVars : Sums(a)[v] = Sums(a)[v - 1] + a[v]
<1>1. NVars \in Nat
  BY NVarsAssumption
<1> DEFINE s == Sums(a)
<1>2. s = [v \in 0 .. NVars |-> IF v = 0 THEN 0 ELSE s[v - 1] + a[v]]
  BY SumsDefined
<1> HIDE DEF s
<1>3. \A v \in 0 .. NVars : s[v] = IF v = 0 THEN 0 ELSE s[v - 1] + a[v]
  BY <1>2
<1>4. s[0] = 0 /\ \A v \in 1 .. NVars : s[v] = s[v - 1] + a[v]
  BY <1>1, <1>3
<1> QED
  BY <1>4 DEF s

(* A degree is a natural number.                                           *)
LEMMA DegType ==
  ASSUME NEW a \in Monomial
  PROVE  Deg(a) \in Nat
<1> DEFINE S == {k \in 0 .. NVars : Sums(a)[k] \in Nat}
<1>1. NVars \in Nat
  BY NVarsAssumption
<1>2. 0 \in S
  BY <1>1, SumsStep
<1>3. ASSUME NEW k \in 1 .. NVars, k - 1 \in S PROVE k \in S
  <2>1. Sums(a)[k] = Sums(a)[k - 1] + a[k] /\ a[k] \in Nat
    BY SumsStep DEF Monomial, Vars
  <2> QED
    BY <1>1, <1>3, <2>1
<1>4. NVars \in S
  <2> HIDE DEF S
  <2> QED
    BY <1>1, <1>2, <1>3, InductionUpTo
<1> QED
  BY <1>4, DegIsSum

(* The degree of a product is the sum of the degrees.                      *)
LEMMA DegMul ==
  ASSUME NEW a \in Monomial, NEW b \in Monomial
  PROVE  Mul(a, b) \in Monomial /\ Deg(Mul(a, b)) = Deg(a) + Deg(b)
<1> DEFINE c == Mul(a, b)
           S == {k \in 0 .. NVars : /\ Sums(a)[k] \in Nat /\ Sums(b)[k] \in Nat
                                    /\ Sums(c)[k] = Sums(a)[k] + Sums(b)[k]}
<1>1. NVars \in Nat
  BY NVarsAssumption
<1>2. c \in Monomial /\ \A v \in 1 .. NVars : c[v] = a[v] + b[v]
  BY DEF Mul, Monomial, Vars
<1> HIDE DEF c
<1>3. 0 \in S
  BY <1>1, SumsStep
<1>4. ASSUME NEW k \in 1 .. NVars, k - 1 \in S PROVE k \in S
  <2>1. /\ Sums(a)[k] = Sums(a)[k - 1] + a[k] /\ a[k] \in Nat
        /\ Sums(b)[k] = Sums(b)[k - 1] + b[k] /\ b[k] \in Nat
        /\ Sums(c)[k] = Sums(c)[k - 1] + c[k] /\ c[k] = a[k] + b[k]
    BY <1>2, SumsStep DEF Monomial, Vars
  <2> QED
    BY <1>1, <1>4, <2>1
<1>5. NVars \in S
  <2> HIDE DEF S
  <2> QED
    BY <1>1, <1>3, <1>4, InductionUpTo
<1> QED
  BY <1>2, <1>5, DegIsSum DEF c

LEMMA DegOne == One \in Monomial
BY DEF One, Monomial

(* Division undoes multiplication, and subtracts the degrees.              *)
LEMMA DivFacts ==
  ASSUME NEW a \in Monomial, NEW b \in Monomial, Divides(b, a)
  PROVE  /\ Div(a, b) \in Monomial
         /\ Deg(Div(a, b)) + Deg(b) = Deg(a)
         /\ Deg(b) <= Deg(a)
<1> DEFINE c == Div(a, b)
<1>1. \A v \in Vars : a[v] \in Nat /\ b[v] \in Nat /\ b[v] <= a[v]
  BY DEF Divides, Monomial
<1>2. c \in Monomial
  BY <1>1 DEF Div, Monomial
<1>3. \A v \in Vars : c[v] + b[v] = a[v]
  BY <1>1 DEF Div
<1>4. a = [v \in Vars |-> a[v]]
  BY DEF Monomial
<1> HIDE DEF c
<1>5. Mul(c, b) = a
  BY <1>3, <1>4 DEF Mul
<1>6. Deg(c) \in Nat /\ Deg(b) \in Nat /\ Deg(a) = Deg(c) + Deg(b)
  BY <1>2, <1>5, DegMul, DegType
<1> QED
  BY <1>2, <1>6 DEF c

(* Divisibility is reflexive and transitive.                               *)
LEMMA DividesOrder ==
  /\ \A a \in Monomial : Divides(a, a)
  /\ \A a, b, c \in Monomial : Divides(a, b) /\ Divides(b, c) => Divides(a, c)
BY DEF Divides, Monomial

(* The least common multiple is a common multiple.                         *)
LEMMA LcmFacts ==
  ASSUME NEW a \in Monomial, NEW b \in Monomial
  PROVE  Lcm(a, b) \in Monomial /\ Divides(a, Lcm(a, b)) /\ Divides(b, Lcm(a, b))
BY DEF Lcm, Divides, Monomial

-----------------------------------------------------------------------------
(* The monomial order.                                                     *)

(* Two different monomials have a last variable where they differ.         *)
LEMMA LastDifference ==
  ASSUME NEW a \in Monomial, NEW b \in Monomial, a # b
  PROVE  \E v \in Vars : a[v] # b[v] /\ \A w \in (v + 1) .. NVars : a[w] = b[w]
<1> DEFINE T == {v \in Vars : a[v] # b[v]}
<1>1. NVars \in Nat
  BY NVarsAssumption
<1>2. T \in SUBSET (0 .. NVars)
  BY <1>1 DEF Vars
<1>3. T # {}
  BY DEF Monomial
<1>4. PICK v \in T : \A m \in T : m <= v
  <2> HIDE DEF T
  <2> QED
    BY <1>1, <1>2, <1>3, LargestUpTo
<1>5. ASSUME NEW w \in (v + 1) .. NVars PROVE a[w] = b[w]
  <2>1. w \in Vars /\ ~(w <= v)
    BY <1>1, <1>2 DEF Vars
  <2> QED
    BY <1>4, <2>1
<1> QED
  BY <1>5

LEMMA LessTotal ==
  ASSUME NEW a \in Monomial, NEW b \in Monomial
  PROVE  a = b \/ Less(a, b) \/ Less(b, a)
<1> SUFFICES ASSUME a # b PROVE Less(a, b) \/ Less(b, a)
  OBVIOUS
<1>1. Deg(a) \in Nat /\ Deg(b) \in Nat
  BY DegType
<1>2. PICK v \in Vars : a[v] # b[v] /\ \A w \in (v + 1) .. NVars : a[w] = b[w]
  BY LastDifference
<1>3. a[v] \in Nat /\ b[v] \in Nat
  BY DEF Monomial
<1>4. CASE Deg(a) # Deg(b)
  BY <1>1, <1>4 DEF Less
<1>5. CASE Deg(a) = Deg(b) /\ a[v] > b[v]
  BY <1>2, <1>5 DEF Less
<1>6. CASE Deg(a) = Deg(b) /\ b[v] > a[v]
  BY <1>2, <1>6 DEF Less
<1> QED
  BY <1>2, <1>3, <1>4, <1>5, <1>6

LEMMA LessTransitive ==
  ASSUME NEW a \in Monomial, NEW b \in Monomial, NEW c \in Monomial,
         Less(a, b), Less(b, c)
  PROVE  Less(a, c)
<1>1. Deg(a) \in Nat /\ Deg(b) \in Nat /\ Deg(c) \in Nat /\ NVars \in Nat
  BY DegType, NVarsAssumption
<1>2. CASE Deg(a) # Deg(b) \/ Deg(b) # Deg(c)
  BY <1>1, <1>2 DEF Less
<1>3. CASE Deg(a) = Deg(b) /\ Deg(b) = Deg(c)
  <2>1. PICK v \in Vars : a[v] > b[v] /\ \A w \in (v + 1) .. NVars : a[w] = b[w]
    BY <1>1, <1>3 DEF Less
  <2>2. PICK u \in Vars : b[u] > c[u] /\ \A w \in (u + 1) .. NVars : b[w] = c[w]
    BY <1>1, <1>3 DEF Less
  <2>3. /\ v \in 1 .. NVars /\ u \in 1 .. NVars
        /\ a[v] \in Nat /\ b[v] \in Nat /\ c[v] \in Nat
        /\ a[u] \in Nat /\ b[u] \in Nat /\ c[u] \in Nat
    BY DEF Monomial, Vars
  <2>4. CASE v = u
    <3>1. a[v] > c[v] /\ \A w \in (v + 1) .. NVars : a[w] = c[w]
      BY <2>1, <2>2, <2>3, <2>4
    <3> QED
      BY <1>3, <3>1 DEF Less
  <2>5. CASE v > u
    <3>1. a[v] > c[v] /\ \A w \in (v + 1) .. NVars : a[w] = c[w]
      BY <1>1, <2>1, <2>2, <2>3, <2>5
    <3> QED
      BY <1>3, <3>1 DEF Less
  <2>6. CASE u > v
    <3>1. a[u] > c[u] /\ \A w \in (u + 1) .. NVars : a[w] = c[w]
      BY <1>1, <2>1, <2>2, <2>3, <2>6
    <3> QED
      BY <1>3, <3>1 DEF Less
  <2> QED
    BY <2>3, <2>4, <2>5, <2>6
<1> QED
  BY <1>2, <1>3

(* A finite nonempty set of monomials has a largest one.                   *)
LEMMA MaximumExists ==
  ASSUME NEW S \in SUBSET Monomial, IsFiniteSet(S), S # {}
  PROVE  Maxima(S) # {}
<1>1. PICK n \in Nat : ExistsBijection(1 .. n, S)
  BY FS_NatBijection
<1>2. PICK f \in Bijection(1 .. n, S) : TRUE
  BY <1>1 DEF ExistsBijection
<1>3. f \in [1 .. n -> S] /\ \A s \in S : \E k \in 1 .. n : f[k] = s
  BY <1>2 DEF Bijection, Injection, Surjection
<1> DEFINE top(i, k) == \A j \in 1 .. k : f[j] = f[i] \/ Less(f[j], f[i])
           G == {k \in 0 .. n : k = 0 \/ \E i \in 1 .. k : top(i, k)}
<1>4. 0 \in G
  OBVIOUS
<1>5. ASSUME NEW k \in 1 .. n, k - 1 \in G PROVE k \in G
  <2>1. CASE k = 1
    <3>1. top(1, k)
      BY <2>1
    <3> QED
      BY <2>1, <3>1
  <2>2. CASE k # 1
    <3>1. PICK i \in 1 .. k - 1 : top(i, k - 1)
      BY <1>5, <2>2
    <3>2. /\ i \in 1 .. n /\ f[i] \in Monomial /\ f[k] \in Monomial
          /\ \A j \in 1 .. k : j = k \/ j \in 1 .. k - 1
          /\ \A j \in 1 .. k : f[j] \in Monomial
      BY <1>3
    <3>3. CASE f[k] = f[i] \/ Less(f[k], f[i])
      <4>1. top(i, k)
        BY <3>1, <3>2, <3>3
      <4> QED
        BY <4>1
    <3>4. CASE Less(f[i], f[k])
      <4>1. top(k, k)
        BY <3>1, <3>2, <3>4, LessTransitive
      <4> QED
        BY <4>1
    <3> QED
      BY <3>2, <3>3, <3>4, LessTotal
  <2> QED
    BY <2>1, <2>2
<1>6. n \in G
  <2> HIDE DEF G
  <2> QED
    BY <1>4, <1>5, InductionUpTo
<1>7. n # 0
  BY <1>3
<1>8. PICK i \in 1 .. n : top(i, n)
  BY <1>6, <1>7
<1>9. f[i] \in Maxima(S)
  BY <1>3, <1>8 DEF Maxima
<1> QED
  BY <1>9

-----------------------------------------------------------------------------
(* Polynomials.                                                            *)

(* A polynomial with a finite support whose degrees the leading monomial   *)
(* bounds; what the degree arguments need.                                 *)
Graded(p) ==
  /\ LM(p) \in Monomial
  /\ IsFiniteSet(Support(p)) /\ Support(p) \subseteq Monomial
  /\ \A u \in Support(p) : Deg(u) <= Deg(LM(p))

LEMMA ZeroFacts == Graded(Zero) /\ Support(Zero) = {}
<1>1. Support(Zero) = {}
  BY DEF Support, Zero
<1>2. LM(Zero) = One
  BY DEF LM, Zero
<1> QED
  BY <1>1, <1>2, DegOne, FS_EmptySet DEF Graded

(* The leading monomial of a list of terms is the largest of them.         *)
LEMMA PolyIsGraded ==
  ASSUME NEW terms, IsFiniteSet(DOMAIN terms), DOMAIN terms \subseteq Monomial
  PROVE  Support(Poly(terms)) = DOMAIN terms /\ Graded(Poly(terms))
<1> DEFINE p == Poly(terms)
           top == Maxima(DOMAIN terms)
<1>1. Support(p) = DOMAIN terms
  BY DEF Poly, Support
<1>2. LM(p) = IF top = {} THEN One ELSE CHOOSE m \in top : TRUE
  BY DEF Poly, LM
<1>3. CASE top = {}
  <2>1. DOMAIN terms = {}
    BY <1>3, MaximumExists
  <2> QED
    BY <1>1, <1>2, <1>3, <2>1, DegOne DEF Graded
<1>4. CASE top # {}
  <2>1. LM(p) \in top
    BY <1>2, <1>4
  <2>2. LM(p) \in DOMAIN terms /\ \A u \in DOMAIN terms : u = LM(p) \/ Less(u, LM(p))
    BY <2>1 DEF Maxima
  <2>3. \A u \in Monomial : Deg(u) \in Nat
    BY DegType
  <2>4. \A u \in DOMAIN terms : Deg(u) <= Deg(LM(p))
    BY <2>2, <2>3 DEF Less
  <2> QED
    BY <1>1, <2>2, <2>4 DEF Graded
<1> QED
  BY <1>1, <1>3, <1>4

(* The leading monomial is that of a term, unless there is none.           *)
Led(p) == p # Zero => LM(p) \in Support(p)

LEMMA PolyIsLed ==
  ASSUME NEW terms, IsFiniteSet(DOMAIN terms), DOMAIN terms \subseteq Monomial,
         terms = [m \in DOMAIN terms |-> terms[m]]
  PROVE  Led(Poly(terms))
<1> DEFINE p == Poly(terms)
           top == Maxima(DOMAIN terms)
<1>1. p = [terms |-> terms, lm |-> IF top = {} THEN One ELSE CHOOSE m \in top : TRUE]
  BY DEF Poly
<1>2. CASE top = {}
  <2>1. DOMAIN terms = {}
    BY <1>2, MaximumExists
  <2>2. terms = << >>
    BY <2>1
  <2> QED
    BY <1>1, <1>2, <2>2 DEF Led, Zero
<1>3. CASE top # {}
  <2>1. LM(p) \in top
    BY <1>1, <1>3 DEF LM
  <2> QED
    BY <1>1, <2>1 DEF Led, Maxima, Support
<1> QED
  BY <1>2, <1>3

LEMMA MonicIsGraded ==
  ASSUME NEW p
  PROVE  /\ LM(Monic(p)) = LM(p) /\ Support(Monic(p)) = Support(p)
         /\ Graded(p) => Graded(Monic(p))
<1>1. LM(Monic(p)) = LM(p) /\ Support(Monic(p)) = Support(p)
  BY DEF Monic, LM, Support
<1> QED
  BY <1>1 DEF Graded

(* p - c m q has terms of p and of m q only.                               *)
LEMMA SubtractIsGraded ==
  ASSUME NEW p, NEW q, NEW m \in Monomial, NEW c, Graded(p), Graded(q)
  PROVE  /\ Graded(MinusMMultP(p, m, c, q)) /\ Led(MinusMMultP(p, m, c, q))
         /\ \A u \in Support(MinusMMultP(p, m, c, q)) :
              u \in Support(p) \/ Deg(u) <= Deg(m) + Deg(LM(q))
<1> DEFINE shifted == {Mul(m, u) : u \in Support(q)}
           diff(t) == (Coef(p, t) + (P - c) * (IF t \in shifted THEN q.terms[Div(t, m)]
                                                                ELSE 0)) % P
           D == {u \in Support(p) \cup shifted : diff(u) # 0}
           terms == [t \in D |-> diff(t)]
<1>1. MinusMMultP(p, m, c, q) = Poly(terms)
  BY DEF MinusMMultP
<1>2. shifted \subseteq Monomial
  BY DegMul DEF Graded
<1>3. IsFiniteSet(shifted)
  <2> DEFINE f == [u \in Support(q) |-> Mul(m, u)]
  <2>1. IsFiniteSet(Support(q))
    BY DEF Graded
  <2>2. f \in Surjection(Support(q), shifted)
    BY DEF Surjection
  <2> HIDE DEF f, shifted
  <2> QED
    BY <2>1, <2>2, FS_Surjection
<1>4. \A t \in shifted : Deg(t) <= Deg(m) + Deg(LM(q))
  <2> SUFFICES ASSUME NEW u \in Support(q)
               PROVE  Deg(Mul(m, u)) <= Deg(m) + Deg(LM(q))
    OBVIOUS
  <2>1. u \in Monomial /\ LM(q) \in Monomial /\ Deg(u) <= Deg(LM(q))
    BY DEF Graded
  <2>2. Deg(m) \in Nat /\ Deg(u) \in Nat /\ Deg(LM(q)) \in Nat
    BY <2>1, DegType
  <2> QED
    BY <2>1, <2>2, DegMul
<1> HIDE DEF shifted
<1>5. D \subseteq Support(p) \cup shifted
  OBVIOUS
<1>6. IsFiniteSet(Support(p) \cup shifted) /\ Support(p) \subseteq Monomial
  BY <1>3, FS_Union DEF Graded
<1>7. DOMAIN terms = D /\ terms = [t \in DOMAIN terms |-> terms[t]]
  OBVIOUS
<1> HIDE DEF D, terms, diff
<1>8. IsFiniteSet(D) /\ D \subseteq Monomial
  BY <1>2, <1>5, <1>6, FS_Subset
<1>9. Support(Poly(terms)) = D /\ Graded(Poly(terms)) /\ Led(Poly(terms))
  BY <1>7, <1>8, PolyIsGraded, PolyIsLed
<1> QED
  BY <1>1, <1>4, <1>5, <1>9

(* Both products of an S-polynomial have the degree of the lcm.            *)
LEMMA SPolyIsGraded ==
  ASSUME NEW f, NEW g, NEW lcm \in Monomial, Graded(f), Graded(g),
         Divides(LM(f), lcm), Divides(LM(g), lcm)
  PROVE  /\ Graded(SPoly(f, g, lcm)) /\ Led(SPoly(f, g, lcm))
         /\ \A u \in Support(SPoly(f, g, lcm)) : Deg(u) <= Deg(lcm)
<1> DEFINE a == Div(lcm, LM(f))
           b == Div(lcm, LM(g))
           p == MinusMMultP(Zero, a, P - LC(g), f)
<1>1. /\ a \in Monomial /\ Deg(a) + Deg(LM(f)) = Deg(lcm)
      /\ b \in Monomial /\ Deg(b) + Deg(LM(g)) = Deg(lcm)
  BY DivFacts DEF Graded
<1> HIDE DEF a, b
<1>2. Graded(p) /\ \A u \in Support(p) : Deg(u) <= Deg(lcm)
  BY <1>1, SubtractIsGraded, ZeroFacts
<1>3. SPoly(f, g, lcm) = MinusMMultP(p, b, LC(f), g)
  BY DEF SPoly, a, b
<1> HIDE DEF p
<1> QED
  BY <1>1, <1>2, <1>3, SubtractIsGraded

(* The scan finds an active element that divides m when there is one.      *)
LEMMA FirstDivisorFacts ==
  ASSUME NEW polys, DOMAIN polys \subseteq Nat, NEW redundant, NEW m,
         Divisors(polys, redundant, m) # {}
  PROVE  /\ FirstDivisor(polys, redundant, m) \in DOMAIN polys
         /\ Divides(LM(polys[FirstDivisor(polys, redundant, m)]), m)
<1> DEFINE ds == Divisors(polys, redundant, m)
<1>1. ds \in SUBSET Nat /\ ds # {}
  BY DEF Divisors
<1>2. \E n \in ds : \A k \in ds : n <= k
  <2> HIDE DEF ds
  <2> QED
    BY <1>1, LeastNatural
<1>3. FirstDivisor(polys, redundant, m) \in ds
  BY <1>2 DEF FirstDivisor
<1> QED
  BY <1>3 DEF Divisors

(* A turn of the reducer: the degrees stay below the raised sugar, and     *)
(* below that of the leading term that is cancelled.                       *)
LEMMA ReduceIsGraded ==
  ASSUME NEW polys, DOMAIN polys \subseteq Nat, NEW redundant, NEW o,
         Reducible(polys, redundant, o.poly),
         \A i \in DOMAIN polys : Graded(polys[i]),
         Graded(o.poly), o.sugar \in Nat,
         \A u \in Support(o.poly) : Deg(u) <= o.sugar
  PROVE  LET r == ReduceOnce(polys, redundant, o)
         IN  /\ Graded(r.poly) /\ Led(r.poly)
             /\ r.sugar \in Nat /\ o.sugar <= r.sugar
             /\ \A u \in Support(r.poly) : Deg(u) <= r.sugar /\ Deg(u) <= Deg(LM(o.poly))
<1> DEFINE i == FirstDivisor(polys, redundant, LM(o.poly))
           s == polys[i]
           m == Div(LM(o.poly), LM(s))
           d == Deg(LM(s)) + Deg(m)
           r == ReduceOnce(polys, redundant, o)
<1>1. i \in DOMAIN polys /\ Divides(LM(s), LM(o.poly))
  BY FirstDivisorFacts DEF Reducible
<1>2. r.poly = MinusMMultP(o.poly, m, LC(o.poly), s)
  BY DEF ReduceOnce, LObject, CancelLeading
<1>3. r.sugar = IF d > o.sugar THEN d ELSE o.sugar
  BY DEF ReduceOnce, LObject
<1>4. Graded(s) /\ LM(s) \in Monomial /\ LM(o.poly) \in Monomial
  BY <1>1 DEF Graded
<1> HIDE DEF i, s
<1>5. /\ m \in Monomial /\ Deg(m) \in Nat /\ Deg(LM(s)) \in Nat
      /\ Deg(m) + Deg(LM(s)) = Deg(LM(o.poly))
  BY <1>1, <1>4, DivFacts, DegType
<1> HIDE DEF m, r
<1>6. Graded(r.poly) /\ Led(r.poly)
  BY <1>2, <1>4, <1>5, SubtractIsGraded
<1>7. r.sugar \in Nat /\ o.sugar <= r.sugar
  BY <1>3, <1>5
<1>8. ASSUME NEW u \in Support(r.poly) PROVE Deg(u) <= r.sugar /\ Deg(u) <= Deg(LM(o.poly))
  <2>1. Deg(u) \in Nat
    BY <1>6, DegType DEF Graded
  <2>2. CASE u \in Support(o.poly)
    <3>1. Deg(u) <= o.sugar /\ Deg(u) <= Deg(LM(o.poly))
      BY <2>2 DEF Graded
    <3> QED
      BY <1>3, <1>5, <2>1, <3>1
  <2>3. CASE Deg(u) <= Deg(m) + Deg(LM(s))
    BY <1>3, <1>5, <2>1, <2>3
  <2> QED
    BY <1>2, <1>4, <1>5, <2>2, <2>3, SubtractIsGraded
<1> QED
  BY <1>6, <1>7, <1>8 DEF r

(* Taking a leading term off leaves some of the terms.                     *)
LEMMA DropIsGraded ==
  ASSUME NEW p, Graded(p)
  PROVE  /\ Graded(DropLeading(p)) /\ Led(DropLeading(p))
         /\ Support(DropLeading(p)) \subseteq Support(p)
<1> DEFINE terms == [m \in Support(p) \ {LM(p)} |-> p.terms[m]]
<1>1. /\ DOMAIN terms = Support(p) \ {LM(p)}
      /\ terms = [m \in DOMAIN terms |-> terms[m]]
  OBVIOUS
<1>2. DropLeading(p) = Poly(terms)
  BY DEF DropLeading
<1> HIDE DEF terms
<1>3. IsFiniteSet(DOMAIN terms) /\ DOMAIN terms \subseteq Monomial
  BY <1>1, FS_Subset DEF Graded
<1> QED
  BY <1>1, <1>2, <1>3, PolyIsGraded, PolyIsLed

(* A parked term is one term more; it must not be larger than the first.   *)
LEMMA ParkIsGraded ==
  ASSUME NEW p, Graded(p), NEW c, NEW m \in Monomial,
         p # Zero => Deg(m) <= Deg(LM(p))
  PROVE  /\ Graded(ParkTerm(p, c, m))
         /\ Support(ParkTerm(p, c, m)) = Support(p) \cup {m}
         /\ Deg(m) <= Deg(LM(ParkTerm(p, c, m)))
<1> DEFINE q == ParkTerm(p, c, m)
<1>1. Support(q) = Support(p) \cup {m} /\ LM(q) = IF p = Zero THEN m ELSE LM(p)
  BY DEF ParkTerm, WithTerm, Support, LM
<1>2. IsFiniteSet(Support(q)) /\ Support(q) \subseteq Monomial
  BY <1>1, FS_AddElement DEF Graded
<1>3. p = Zero => Support(q) = {m}
  BY <1>1, ZeroFacts
<1>4. LM(q) \in Monomial /\ Deg(m) <= Deg(LM(q))
  BY <1>1, DegType DEF Graded
<1>5. \A u \in Support(q) : Deg(u) <= Deg(LM(q))
  BY <1>1, <1>3, <1>4 DEF Graded
<1> QED
  BY <1>1, <1>2, <1>4, <1>5 DEF Graded

(* What an input is required to be. *)
LEMMA PolynomialIsGraded ==
  ASSUME NEW p, IsPolynomial(p)
  PROVE  Graded(p) /\ Led(p)
<1> DEFINE terms == p.terms
<1>1. /\ IsFiniteSet(DOMAIN terms) /\ DOMAIN terms \subseteq Monomial
      /\ terms \in [DOMAIN terms -> 1 .. P - 1]
      /\ p = Poly(terms)
  BY DEF IsPolynomial
<1> HIDE DEF terms
<1>2. terms = [m \in DOMAIN terms |-> terms[m]]
  BY <1>1
<1> QED
  BY <1>1, <1>2, PolyIsGraded, PolyIsLed

(* The order is strict and compatible with multiplication.                 *)
LEMMA LessIrreflexive ==
  ASSUME NEW a \in Monomial
  PROVE  ~Less(a, a)
<1>1. Deg(a) \in Nat /\ \A v \in Vars : a[v] \in Nat
  BY DegType DEF Monomial
<1> QED
  BY <1>1 DEF Less

LEMMA LessMul ==
  ASSUME NEW m \in Monomial, NEW a \in Monomial, NEW b \in Monomial, Less(a, b)
  PROVE  Less(Mul(m, a), Mul(m, b))
<1>1. /\ Deg(a) \in Nat /\ Deg(b) \in Nat /\ Deg(m) \in Nat
      /\ Deg(Mul(m, a)) = Deg(m) + Deg(a) /\ Deg(Mul(m, b)) = Deg(m) + Deg(b)
  BY DegType, DegMul
<1>2. \A v \in Vars : /\ a[v] \in Nat /\ b[v] \in Nat /\ m[v] \in Nat
                      /\ Mul(m, a)[v] = m[v] + a[v] /\ Mul(m, b)[v] = m[v] + b[v]
  BY DEF Mul, Monomial
<1>3. \A v \in Vars : \A w \in (v + 1) .. NVars : w \in Vars
  BY NVarsAssumption DEF Vars
<1>4. CASE Deg(a) < Deg(b)
  BY <1>1, <1>4 DEF Less
<1>5. CASE Deg(a) = Deg(b) /\ \E v \in Vars : /\ a[v] > b[v]
                                              /\ \A w \in (v + 1) .. NVars : a[w] = b[w]
  <2>1. PICK v \in Vars : a[v] > b[v] /\ \A w \in (v + 1) .. NVars : a[w] = b[w]
    BY <1>5
  <2>2. Mul(m, a)[v] > Mul(m, b)[v]
    BY <1>2, <2>1
  <2>3. \A w \in (v + 1) .. NVars : Mul(m, a)[w] = Mul(m, b)[w]
    BY <1>2, <1>3, <2>1
  <2>4. Deg(Mul(m, a)) = Deg(Mul(m, b))
    BY <1>1, <1>5
  <2> QED
    BY <2>2, <2>3, <2>4 DEF Less
<1> QED
  BY <1>4, <1>5 DEF Less

(* A product with one factor taken out is the other factor.                *)
LEMMA DivMul ==
  ASSUME NEW a \in Monomial, NEW m \in Monomial
  PROVE  Div(Mul(m, a), m) = a
<1>1. \A v \in Vars : a[v] \in Nat /\ m[v] \in Nat
  BY DEF Monomial
<1>2. a = [v \in Vars |-> a[v]]
  BY DEF Monomial
<1>3. \A v \in Vars : Mul(m, a)[v] - m[v] = a[v]
  BY <1>1 DEF Mul
<1> QED
  BY <1>2, <1>3 DEF Div

LEMMA MulDiv ==
  ASSUME NEW a \in Monomial, NEW b \in Monomial, Divides(b, a)
  PROVE  Mul(Div(a, b), b) = a
<1>1. \A v \in Vars : a[v] \in Nat /\ b[v] \in Nat /\ b[v] <= a[v]
  BY DEF Monomial, Divides
<1>2. a = [v \in Vars |-> a[v]]
  BY DEF Monomial
<1>3. \A v \in Vars : Div(a, b)[v] + b[v] = a[v]
  BY <1>1 DEF Div
<1> QED
  BY <1>2, <1>3 DEF Mul

LEMMA MulOne ==
  ASSUME NEW a \in Monomial
  PROVE  Mul(One, a) = a
BY DEF Mul, One, Monomial

-----------------------------------------------------------------------------
(* Polynomials.                                                            *)

LEMMA PolyIsPolynomial ==
  ASSUME NEW D, IsFiniteSet(D), D \subseteq Monomial, NEW terms \in [D -> 1 .. P - 1]
  PROVE  IsPolynomial(Poly(terms)) /\ Poly(terms).terms = terms /\ Support(Poly(terms)) = D
<1>1. Poly(terms).terms = terms /\ DOMAIN terms = D
  BY DEF Poly
<1> QED
  BY <1>1 DEF IsPolynomial, Support

LEMMA ZeroIsPolynomial == IsPolynomial(Zero)
<1>1. Zero.terms = << >> /\ DOMAIN << >> = {}
  BY DEF Zero
<1>2. Zero = Poly(<< >>)
  BY <1>1 DEF Zero, Poly, Maxima
<1> QED
  BY <1>1, <1>2, FS_EmptySet DEF IsPolynomial

(* The leading term of a polynomial is its largest term.                   *)
LEMMA LeadingIsLargest ==
  ASSUME NEW p, IsPolynomial(p), p # Zero
  PROVE  /\ LM(p) \in Support(p) /\ LM(p) \in Monomial
         /\ LC(p) \in 1 .. P - 1
         /\ \A u \in Support(p) : u = LM(p) \/ Less(u, LM(p))
<1> DEFINE top == Maxima(Support(p))
<1>1. LM(p) \in Support(p) /\ LM(p) \in Monomial
  BY PolynomialIsGraded DEF Led, Graded
<1>2. LC(p) \in 1 .. P - 1
  BY <1>1 DEF IsPolynomial, LC, LM, Support
<1>3. IsFiniteSet(Support(p)) /\ Support(p) \in SUBSET Monomial /\ Support(p) # {}
  BY <1>1 DEF IsPolynomial, Support
<1>4. top # {}
  BY <1>3, MaximumExists
<1>5. LM(p) = IF top = {} THEN One ELSE CHOOSE m \in top : TRUE
  BY DEF IsPolynomial, Poly, LM, Support
<1>6. LM(p) \in top
  BY <1>4, <1>5
<1> QED
  BY <1>1, <1>2, <1>6 DEF Maxima

LEMMA DropIsPolynomial ==
  ASSUME NEW p, IsPolynomial(p)
  PROVE  /\ IsPolynomial(DropLeading(p))
         /\ Support(DropLeading(p)) = Support(p) \ {LM(p)}
<1> DEFINE terms == [m \in Support(p) \ {LM(p)} |-> p.terms[m]]
<1>1. IsFiniteSet(Support(p)) /\ Support(p) \subseteq Monomial
  BY DEF IsPolynomial, Support
<1>2. terms \in [Support(p) \ {LM(p)} -> 1 .. P - 1]
  BY DEF IsPolynomial, Support
<1>3. IsFiniteSet(Support(p) \ {LM(p)})
  BY <1>1, FS_Subset
<1> HIDE DEF terms
<1>4. DropLeading(p) = Poly(terms)
  BY DEF DropLeading, terms
<1> QED
  BY <1>1, <1>2, <1>3, <1>4, PolyIsPolynomial

(* The coefficient of t in p - c m q.                                      *)
Difference(p, m, c, q, t) ==
  (Coef(p, t) + (P - c) * (IF t \in {Mul(m, u) : u \in Support(q)}
                           THEN q.terms[Div(t, m)] ELSE 0)) % P

LEMMA SubtractIsPolynomial ==
  ASSUME NEW p, NEW q, NEW m \in Monomial, NEW c \in Int, IsPolynomial(p), IsPolynomial(q)
  PROVE  /\ IsPolynomial(MinusMMultP(p, m, c, q))
         /\ \A t : t \in Support(MinusMMultP(p, m, c, q))
                   <=> /\ t \in Support(p) \/ \E u \in Support(q) : t = Mul(m, u)
                       /\ Difference(p, m, c, q, t) # 0
<1> DEFINE shifted == {Mul(m, u) : u \in Support(q)}
           D == {t \in Support(p) \cup shifted : Difference(p, m, c, q, t) # 0}
           terms == [t \in D |-> Difference(p, m, c, q, t)]
<1>1. MinusMMultP(p, m, c, q) = Poly(terms)
  BY DEF MinusMMultP, Difference
<1>2. shifted \subseteq Monomial
  BY DegMul DEF IsPolynomial, Support
<1>3. IsFiniteSet(shifted)
  <2> DEFINE f == [u \in Support(q) |-> Mul(m, u)]
  <2>1. IsFiniteSet(Support(q))
    BY DEF IsPolynomial, Support
  <2>2. f \in Surjection(Support(q), shifted)
    BY DEF Surjection
  <2> HIDE DEF f, shifted
  <2> QED
    BY <2>1, <2>2, FS_Surjection
<1>4. IsFiniteSet(Support(p)) /\ Support(p) \subseteq Monomial
  BY DEF IsPolynomial, Support
<1>5. IsFiniteSet(D) /\ D \subseteq Monomial
  <2>1. IsFiniteSet(Support(p) \cup shifted)
    BY <1>3, <1>4, FS_Union
  <2>2. D \subseteq Support(p) \cup shifted
    OBVIOUS
  <2> HIDE DEF D, shifted
  <2> QED
    BY <1>2, <1>4, <2>1, <2>2, FS_Subset
<1>6. ASSUME NEW t PROVE Difference(p, m, c, q, t) \in 0 .. P - 1
  <2>1. Coef(p, t) \in Int
    BY PAssumption DEF Coef, IsPolynomial, Support
  <2>2. (IF t \in shifted THEN q.terms[Div(t, m)] ELSE 0) \in Int
    <3>1. CASE t \in shifted
      <4>1. PICK u \in Support(q) : t = Mul(m, u)
        BY <3>1
      <4>2. Div(t, m) = u
        BY <4>1, DivMul DEF IsPolynomial, Support
      <4> QED
        BY <3>1, <4>2, PAssumption DEF IsPolynomial, Support
    <3> QED
      BY <3>1
  <2> DEFINE x == Coef(p, t)
             y == IF t \in shifted THEN q.terms[Div(t, m)] ELSE 0
  <2>3. Difference(p, m, c, q, t) = (x + (P - c) * y) % P
    BY DEF Difference
  <2>4. x \in Int /\ y \in Int
    BY <2>1, <2>2
  <2> HIDE DEF x, y
  <2>5. (P - c) * y \in Int /\ P \in Nat /\ P > 0
    BY <2>4, PAssumption
  <2> QED
    BY <2>3, <2>4, <2>5
<1>7. terms \in [D -> 1 .. P - 1]
  <2>1. \A t \in D : Difference(p, m, c, q, t) \in 1 .. P - 1
    BY <1>6, PAssumption
  <2> HIDE DEF D
  <2> QED
    BY <2>1
<1> HIDE DEF terms
<1>8. IsPolynomial(Poly(terms)) /\ Support(Poly(terms)) = D
  BY <1>5, <1>7, PolyIsPolynomial
<1>9. \A t : t \in D <=> /\ t \in Support(p) \/ \E u \in Support(q) : t = Mul(m, u)
                         /\ Difference(p, m, c, q, t) # 0
  <2> DEFINE ok(t) == Difference(p, m, c, q, t) # 0
  <2>1. \A t : t \in shifted <=> \E u \in Support(q) : t = Mul(m, u)
    OBVIOUS
  <2>2. D = {t \in Support(p) \cup shifted : ok(t)}
    OBVIOUS
  <2> HIDE DEF ok, shifted, D
  <2>3. \A t : t \in D <=> /\ t \in Support(p) \/ \E u \in Support(q) : t = Mul(m, u)
                           /\ ok(t)
    BY <2>1, <2>2
  <2> QED
    BY <2>3 DEF ok
<1>10. Support(MinusMMultP(p, m, c, q)) = D /\ IsPolynomial(MinusMMultP(p, m, c, q))
  BY <1>1, <1>8
<1> HIDE DEF D
<1> QED
  BY <1>9, <1>10, Zenon

-----------------------------------------------------------------------------
(* Remainders.                                                             *)

LEMMA ModFacts ==
  ASSUME NEW a \in Int
  PROVE  (a % P) \in 0 .. P - 1 /\ \E k \in Int : a = k * P + (a % P)
<1>1. P \in Nat /\ P > 0
  BY PAssumption
<1>2. a \div P \in Int /\ a = P * (a \div P) + (a % P)
  BY <1>1
<1>3. (a % P) \in 0 .. P - 1
  BY <1>1
<1> QED
  BY <1>1, <1>2, <1>3

LEMMA ModUnique ==
  ASSUME NEW x \in 0 .. P - 1, NEW y \in 0 .. P - 1, NEW k \in Int, x = y + k * P
  PROVE  x = y
<1>0. P \in Nat /\ P > 0
  BY PAssumption
<1>1. CASE k >= 1
  <2>1. k * P >= P
    BY <1>0, <1>1
  <2> QED
    BY <1>0, <2>1
<1>2. CASE k <= -1
  <2>1. k * P <= -P
    BY <1>0, <1>2
  <2> QED
    BY <1>0, <2>1
<1>3. CASE k = 0
  BY <1>0, <1>3
<1> QED
  BY <1>1, <1>2, <1>3

(* Two numbers a multiple of P apart have the same remainder.              *)
LEMMA ModSame ==
  ASSUME NEW a \in Int, NEW b \in Int, NEW k \in Int, a = b + k * P
  PROVE  (a % P) = (b % P)
<1>0. P \in Nat
  BY PAssumption
<1>1. PICK i \in Int : a = i * P + (a % P)
  BY ModFacts
<1>2. PICK j \in Int : b = j * P + (b % P)
  BY ModFacts
<1> DEFINE x == a % P
           y == b % P
           l == j + k - i
<1>3. x \in 0 .. P - 1 /\ y \in 0 .. P - 1 /\ l \in Int
  BY ModFacts
<1>4. a = i * P + x /\ b = j * P + y
  BY <1>1, <1>2
<1> HIDE DEF x, y
<1>5. x = y + l * P
  <2>1. x \in Int /\ y \in Int
    BY <1>0, <1>3
  <2>2. x = j * P + y + k * P - i * P
    BY <1>0, <1>4, <2>1
  <2> QED
    BY <1>0, <2>1, <2>2
<1>6. x = y
  BY <1>3, <1>5, ModUnique
<1> QED
  BY <1>6 DEF x, y

LEMMA ModAdd ==
  ASSUME NEW a \in Int, NEW b \in Int
  PROVE  (((a % P) + b) % P) = ((a + b) % P)
<1>0. P \in Nat
  BY PAssumption
<1>1. PICK k \in Int : a = k * P + (a % P)
  BY ModFacts
<1> DEFINE x == a % P
           s == a + b
           r == x + b
<1>2. a = k * P + x /\ x \in Int
  BY <1>0, <1>1, ModFacts
<1> HIDE DEF x
<1>3. s \in Int /\ r \in Int /\ s = r + k * P
  BY <1>0, <1>2
<1> HIDE DEF s, r
<1>4. (s % P) = (r % P)
  BY <1>3, ModSame
<1> QED
  BY <1>4 DEF s, r, x

(* Adding k and then taking away v leaves k.                               *)
LEMMA ModCancel ==
  ASSUME NEW v \in Int, NEW k \in Int
  PROVE  ((((v + k) % P) + (P - 1) * v) % P) = (k % P)
<1>0. P \in Nat
  BY PAssumption
<1> DEFINE s == v + k
           t == (P - 1) * v
           u == s + t
<1>1. s \in Int /\ t \in Int /\ u \in Int /\ u = k + v * P
  BY <1>0
<1> HIDE DEF s, t
<1>2. (((s % P) + t) % P) = (u % P)
  BY <1>1, ModAdd
<1> HIDE DEF u
<1>3. (u % P) = (k % P)
  BY <1>1, ModSame
<1> QED
  BY <1>2, <1>3 DEF s, t

LEMMA ModSmall ==
  ASSUME NEW a \in 0 .. P - 1
  PROVE  (a % P) = a
<1>0. P \in Nat /\ P > 0
  BY PAssumption
<1> QED
  BY <1>0

-----------------------------------------------------------------------------
(* Coefficients.                                                           *)

LEMMA CoefFacts ==
  ASSUME NEW p, IsPolynomial(p)
  PROVE  /\ \A t : Coef(p, t) \in 0 .. P - 1
         /\ \A t : Coef(p, t) # 0 <=> t \in Support(p)
         /\ \A t \in Support(p) : Coef(p, t) = p.terms[t]
<1>1. \A t \in Support(p) : p.terms[t] \in 1 .. P - 1
  BY DEF IsPolynomial, Support
<1>2. 0 \in 0 .. P - 1 /\ \A x \in 1 .. P - 1 : x \in 0 .. P - 1 /\ x # 0
  BY PAssumption
<1> QED
  BY <1>1, <1>2 DEF Coef

(* A polynomial is what its coefficients are.                              *)
LEMMA SamePolynomial ==
  ASSUME NEW p, NEW q, IsPolynomial(p), IsPolynomial(q),
         \A t \in Monomial : Coef(p, t) = Coef(q, t)
  PROVE  p = q
<1>1. Support(p) \subseteq Monomial /\ Support(q) \subseteq Monomial
  BY DEF IsPolynomial, Support
<1>2. /\ \A t : Coef(p, t) # 0 <=> t \in Support(p)
      /\ \A t \in Support(p) : Coef(p, t) = p.terms[t]
  BY CoefFacts
<1>3. /\ \A t : Coef(q, t) # 0 <=> t \in Support(q)
      /\ \A t \in Support(q) : Coef(q, t) = q.terms[t]
  BY CoefFacts
<1>4. Support(p) = Support(q)
  BY <1>1, <1>2, <1>3
<1>5. \A t \in Support(p) : p.terms[t] = q.terms[t]
  BY <1>1, <1>2, <1>3, <1>4
<1>6. /\ p.terms = [t \in Support(p) |-> p.terms[t]]
      /\ q.terms = [t \in Support(q) |-> q.terms[t]]
  BY DEF IsPolynomial, Support
<1>7. p.terms = q.terms
  BY <1>4, <1>5, <1>6
<1>8. p = Poly(p.terms) /\ q = Poly(q.terms)
  BY DEF IsPolynomial
<1> QED
  BY <1>7, <1>8

(* The polynomial with given coefficients.                                 *)
LEMMA PolyOf ==
  ASSUME NEW D, IsFiniteSet(D), D \subseteq Monomial,
         NEW f, \A t \in D : f[t] \in 0 .. P - 1
  PROVE  /\ IsPolynomial(Poly([t \in {u \in D : f[u] # 0} |-> f[t]]))
         /\ \A t : Coef(Poly([u \in {w \in D : f[w] # 0} |-> f[u]]), t)
                   = IF t \in D THEN f[t] ELSE 0
<1> DEFINE E == {u \in D : f[u] # 0}
           terms == [t \in E |-> f[t]]
<1>1. IsFiniteSet(E) /\ E \subseteq Monomial
  <2>1. E \subseteq D
    OBVIOUS
  <2> HIDE DEF E
  <2> QED
    BY <2>1, FS_Subset
<1>2. \A t \in E : f[t] \in 1 .. P - 1
  BY PAssumption
<1>3. terms \in [E -> 1 .. P - 1]
  <2> HIDE DEF E
  <2> QED
    BY <1>2
<1> HIDE DEF terms
<1>4. /\ IsPolynomial(Poly(terms)) /\ Poly(terms).terms = terms
      /\ Support(Poly(terms)) = E
  BY <1>1, <1>3, PolyIsPolynomial
<1>5. \A t : Coef(Poly(terms), t) = IF t \in D THEN f[t] ELSE 0
  <2>1. \A t : Coef(Poly(terms), t) = IF t \in E THEN f[t] ELSE 0
    BY <1>4 DEF Coef, terms
  <2> QED
    BY <2>1
<1> QED
  BY <1>4, <1>5 DEF terms

(* The coefficient of t in m q.                                            *)
Multiple(m, q, t) ==
  IF t \in {Mul(m, u) : u \in Support(q)} THEN q.terms[Div(t, m)] ELSE 0

LEMMA MultipleFacts ==
  ASSUME NEW q, IsPolynomial(q), NEW m \in Monomial
  PROVE  /\ \A t : Multiple(m, q, t) \in 0 .. P - 1
         /\ \A u \in Monomial : Multiple(m, q, Mul(m, u)) = Coef(q, u)
         /\ \A t : Multiple(m, q, t) # 0 => \E u \in Support(q) : t = Mul(m, u)
<1>1. Support(q) \subseteq Monomial
  BY DEF IsPolynomial, Support
<1>2. ASSUME NEW u \in Support(q)
      PROVE  Multiple(m, q, Mul(m, u)) = Coef(q, u)
  <2>1. Div(Mul(m, u), m) = u
    BY <1>1, DivMul
  <2>2. Multiple(m, q, Mul(m, u)) = q.terms[Div(Mul(m, u), m)]
    BY DEF Multiple
  <2> QED
    BY <2>1, <2>2 DEF Coef
<1>3. ASSUME NEW u \in Monomial, u \notin Support(q)
      PROVE  Multiple(m, q, Mul(m, u)) = Coef(q, u)
  <2>1. ASSUME NEW w \in Support(q), Mul(m, w) = Mul(m, u) PROVE FALSE
    <3>1. Div(Mul(m, w), m) = w /\ Div(Mul(m, u), m) = u
      BY <1>1, DivMul
    <3> QED
      BY <1>3, <2>1, <3>1
  <2> QED
    BY <1>3, <2>1 DEF Multiple, Coef
<1>4. \A t : (\E u \in Support(q) : t = Mul(m, u)) \/ Multiple(m, q, t) = 0
  BY DEF Multiple
<1>5. \A u \in Monomial : Multiple(m, q, Mul(m, u)) = Coef(q, u)
  BY <1>2, <1>3
<1>6. \A t : Multiple(m, q, t) \in 0 .. P - 1
  <2>1. 0 \in 0 .. P - 1
    BY PAssumption
  <2>2. \A u : Coef(q, u) \in 0 .. P - 1
    BY CoefFacts
  <2> QED
    BY <1>1, <1>4, <1>5, <2>1, <2>2
<1> QED
  BY <1>4, <1>5, <1>6

LEMMA MultipleOfOne ==
  ASSUME NEW q, IsPolynomial(q), NEW t \in Monomial
  PROVE  Multiple(One, q, t) = Coef(q, t)
<1>1. Mul(One, t) = t /\ One \in Monomial
  BY MulOne, DegOne
<1> QED
  BY <1>1, MultipleFacts

LEMMA SubtractCoef ==
  ASSUME NEW p, NEW q, NEW m \in Monomial, NEW c \in Int, IsPolynomial(p), IsPolynomial(q)
  PROVE  \A t : Coef(MinusMMultP(p, m, c, q), t)
                 = ((Coef(p, t) + (P - c) * Multiple(m, q, t)) % P)
<1> DEFINE r == MinusMMultP(p, m, c, q)
           shifted == {Mul(m, u) : u \in Support(q)}
           D == Support(p) \cup shifted
           f == [t \in D |-> Difference(p, m, c, q, t)]
<1>1. \A t : Difference(p, m, c, q, t) = ((Coef(p, t) + (P - c) * Multiple(m, q, t)) % P)
  BY DEF Difference, Multiple
<1>2. \A t : Difference(p, m, c, q, t) \in 0 .. P - 1
  <2>1. ASSUME NEW t PROVE Difference(p, m, c, q, t) \in 0 .. P - 1
    <3> DEFINE a == Coef(p, t) + (P - c) * Multiple(m, q, t)
    <3>1. Coef(p, t) \in 0 .. P - 1 /\ Multiple(m, q, t) \in 0 .. P - 1 /\ P \in Nat
      BY CoefFacts, MultipleFacts, PAssumption
    <3>2. a \in Int
      BY <3>1
    <3> HIDE DEF a
    <3>3. (a % P) \in 0 .. P - 1
      BY <3>2, ModFacts
    <3> QED
      BY <1>1, <3>3 DEF a
  <2> QED
    BY <2>1
<1>3. \A t : t \in Support(r)
               <=> /\ t \in Support(p) \/ \E u \in Support(q) : t = Mul(m, u)
                   /\ Difference(p, m, c, q, t) # 0
  <2> HIDE DEF shifted, D, f
  <2> DEFINE n == MinusMMultP(p, m, c, q)
  <2>1. m \in Monomial /\ c \in Int /\ IsPolynomial(p) /\ IsPolynomial(q)
    OBVIOUS
  <2>2. \A t : t \in Support(n) => t \in Support(p) \/ \E u \in Support(q) : t = Mul(m, u)
    BY ONLY <2>1, SubtractIsPolynomial
  <2>6. \A t : t \in Support(n) => Difference(p, m, c, q, t) # 0
    BY ONLY <2>1, SubtractIsPolynomial
  <2>3. \A t \in Support(p) : Difference(p, m, c, q, t) # 0 => t \in Support(n)
    BY ONLY <2>1, SubtractIsPolynomial
  <2>4. \A u \in Support(q) :
          Difference(p, m, c, q, Mul(m, u)) # 0 => Mul(m, u) \in Support(n)
    BY ONLY <2>1, SubtractIsPolynomial
  <2> HIDE DEF n
  <2>5. \A t : t \in Support(n)
                 <=> /\ t \in Support(p) \/ \E u \in Support(q) : t = Mul(m, u)
                     /\ Difference(p, m, c, q, t) # 0
    BY ONLY <2>2, <2>3, <2>4, <2>6
  <2> QED
    BY <2>5 DEF n
<1>4. r.terms = [t \in {u \in D : Difference(p, m, c, q, u) # 0} |-> Difference(p, m, c, q, t)]
  BY DEF MinusMMultP, Difference, Poly
<1>5. \A t \in Support(r) : Coef(r, t) = Difference(p, m, c, q, t)
  <2>1. \A t \in Support(r) : r.terms[t] = Difference(p, m, c, q, t)
    <3> HIDE DEF r, D
    <3> QED
      BY <1>4 DEF Support
  <2> HIDE DEF r
  <2> QED
    BY <2>1 DEF Coef
<1>6. ASSUME NEW t, t \notin Support(r) PROVE Difference(p, m, c, q, t) = 0 /\ Coef(r, t) = 0
  <2>0. Coef(r, t) = 0
    BY <1>6 DEF Coef
  <2>1. CASE t \in Support(p) \/ \E u \in Support(q) : t = Mul(m, u)
    <3> HIDE DEF r
    <3> QED
      BY <1>3, <1>6, <2>0, <2>1
  <2>2. CASE ~(t \in Support(p) \/ \E u \in Support(q) : t = Mul(m, u))
    <3>1. Coef(p, t) = 0 /\ Multiple(m, q, t) = 0
      BY <2>2 DEF Coef, Multiple
    <3>2. (P - c) * 0 = 0 /\ 0 + 0 = 0 /\ 0 \in 0 .. P - 1
      BY PAssumption
    <3>3. Difference(p, m, c, q, t) = (0 % P)
      BY <1>1, <3>1, <3>2
    <3> QED
      BY <2>0, <3>2, <3>3, ModSmall
  <2> QED
    BY <2>1, <2>2
<1>7. \A t : Coef(r, t) = Difference(p, m, c, q, t)
  BY <1>5, <1>6
<1> QED
  BY <1>1, <1>7

(* Without its leading term a polynomial keeps its other terms.            *)
LEMMA DropCoef ==
  ASSUME NEW p, IsPolynomial(p)
  PROVE  \A t : Coef(DropLeading(p), t) = IF t = LM(p) THEN 0 ELSE Coef(p, t)
<1> DEFINE d == DropLeading(p)
<1>1. Support(d) = Support(p) \ {LM(p)}
  BY DropIsPolynomial
<1>2. d.terms = [m \in Support(p) \ {LM(p)} |-> p.terms[m]]
  BY DEF DropLeading, Poly
<1> HIDE DEF d
<1> QED
  BY <1>1, <1>2 DEF Coef, d

(* A cursor that moves past its term loses it.                             *)
LEMMA MultipleDrop ==
  ASSUME NEW p, IsPolynomial(p), p # Zero, NEW m \in Monomial
  PROVE  \A t : Multiple(m, DropLeading(p), t)
                = IF t = Mul(m, LM(p)) THEN 0 ELSE Multiple(m, p, t)
<1> DEFINE d == DropLeading(p)
<1>1. /\ IsPolynomial(d) /\ \A u : Coef(d, u) = IF u = LM(p) THEN 0 ELSE Coef(p, u)
      /\ Support(d) \subseteq Support(p) /\ Support(p) \subseteq Monomial /\ LM(p) \in Monomial
  BY DropIsPolynomial, DropCoef, LeadingIsLargest DEF IsPolynomial, Support
<1> HIDE DEF d
<1>2. ASSUME NEW u \in Monomial
      PROVE  Multiple(m, d, Mul(m, u))
             = IF Mul(m, u) = Mul(m, LM(p)) THEN 0 ELSE Multiple(m, p, Mul(m, u))
  <2>1. Multiple(m, d, Mul(m, u)) = Coef(d, u)
    BY <1>1, MultipleFacts
  <2>2. Multiple(m, p, Mul(m, u)) = Coef(p, u)
    BY <1>1, MultipleFacts
  <2>3. Mul(m, u) = Mul(m, LM(p)) => u = LM(p)
    BY <1>1, DivMul
  <2> QED
    BY <1>1, <2>1, <2>2, <2>3
<1>3. ASSUME NEW t, \A u \in Monomial : t # Mul(m, u)
      PROVE  Multiple(m, d, t) = 0 /\ Multiple(m, p, t) = 0
  BY <1>1, <1>3 DEF Multiple
<1>4. ASSUME NEW t PROVE Multiple(m, d, t) = IF t = Mul(m, LM(p)) THEN 0 ELSE Multiple(m, p, t)
  BY <1>2, <1>3
<1> QED
  BY <1>4 DEF d

(* Every term of a multiple is its largest or below it.                    *)
LEMMA MultipleBelow ==
  ASSUME NEW p, IsPolynomial(p), NEW m \in Monomial, NEW t, Multiple(m, p, t) # 0
  PROVE  /\ p # Zero /\ t \in Monomial
         /\ t = Mul(m, LM(p)) \/ Less(t, Mul(m, LM(p)))
<1>1. PICK u \in Support(p) : t = Mul(m, u)
  BY MultipleFacts
<1>2. p # Zero
  BY <1>1, ZeroFacts
<1>3. u \in Monomial /\ LM(p) \in Monomial /\ (u = LM(p) \/ Less(u, LM(p)))
  BY <1>1, <1>2, LeadingIsLargest DEF IsPolynomial, Support
<1> QED
  BY <1>1, <1>2, <1>3, LessMul, DegMul

(* What is above every other monomial leads.                               *)
LEMMA LeadingIs ==
  ASSUME NEW p, IsPolynomial(p), NEW m \in Monomial, Coef(p, m) # 0,
         \A t \in Monomial : Coef(p, t) # 0 => t = m \/ Less(t, m)
  PROVE  p # Zero /\ LM(p) = m /\ LC(p) = Coef(p, m)
<1>1. m \in Support(p) /\ Support(p) \subseteq Monomial
  BY CoefFacts DEF IsPolynomial, Support
<1>2. p # Zero
  BY <1>1, ZeroFacts
<1>3. LM(p) \in Support(p) /\ \A u \in Support(p) : u = LM(p) \/ Less(u, LM(p))
  BY <1>2, LeadingIsLargest
<1>4. LM(p) = m \/ Less(LM(p), m)
  BY <1>1, <1>3, CoefFacts
<1>5. LM(p) = m
  <2>1. ASSUME Less(LM(p), m), Less(m, LM(p)) PROVE FALSE
    <3>1. Less(m, m)
      BY <1>1, <1>3, <2>1, LessTransitive
    <3> QED
      BY <3>1, LessIrreflexive
  <2> QED
    BY <1>1, <1>3, <1>4, <2>1
<1> QED
  BY <1>1, <1>2, <1>5 DEF LC, LM, Coef

LEMMA ZeroCoef ==
  /\ IsPolynomial(Zero) /\ \A t : Coef(Zero, t) = 0
  /\ \A p : IsPolynomial(p) /\ (\A t \in Monomial : Coef(p, t) = 0) => p = Zero
<1>1. IsPolynomial(Zero) /\ \A t : Coef(Zero, t) = 0
  BY ZeroIsPolynomial, ZeroFacts DEF Coef
<1> QED
  BY <1>1, SamePolynomial

-----------------------------------------------------------------------------
(* Objects, pairs and their criteria.                                      *)

(* A working polynomial whose sugar bounds its degrees.                    *)
Sweet(o) ==
  /\ Graded(o.poly) /\ o.sugar \in Nat
  /\ \A u \in Support(o.poly) : Deg(u) <= o.sugar

LEMMA SweetFacts ==
  /\ Sweet(NoObject)
  /\ \A o : Sweet(o) => Sweet(MonicObject(o))
<1>1. Sweet(NoObject)
  BY ZeroFacts DEF Sweet, NoObject, LObject
<1>2. ASSUME NEW o, Sweet(o) PROVE Sweet(MonicObject(o))
  BY <1>2, MonicIsGraded DEF Sweet, MonicObject, LObject
<1> QED
  BY <1>1, <1>2

-----------------------------------------------------------------------------
(* Pairs and criteria.                                                     *)

(* An S-pair of two elements.                                              *)
PairIn(ps, p) ==
  /\ p.i \in DOMAIN ps /\ p.j \in DOMAIN ps
  /\ p.lcm = Lcm(LM(ps[p.i]), LM(ps[p.j]))
  /\ p.sugar \in Nat /\ Deg(p.lcm) <= p.sugar

(* The S-polynomial of a pair starts with the pair's sugar.                *)
LEMMA SPolyIsSweet ==
  ASSUME NEW ps, NEW p, PairIn(ps, p), \A i \in DOMAIN ps : Graded(ps[i])
  PROVE  LET s == SPoly(ps[p.i], ps[p.j], p.lcm)
         IN  Sweet(LObject(s, p.sugar)) /\ Led(s)
<1> DEFINE f == ps[p.i]
           g == ps[p.j]
           lcm == p.lcm
           s == SPoly(f, g, lcm)
<1>1. Graded(f) /\ Graded(g) /\ lcm = Lcm(LM(f), LM(g))
  BY DEF PairIn
<1>2. p.sugar \in Nat /\ Deg(lcm) <= p.sugar
  BY DEF PairIn
<1> HIDE DEF f, g, lcm
<1>3. lcm \in Monomial /\ Divides(LM(f), lcm) /\ Divides(LM(g), lcm) /\ Deg(lcm) \in Nat
  BY <1>1, LcmFacts, DegType DEF Graded
<1>4. Graded(s) /\ Led(s) /\ \A u \in Support(s) : Deg(u) <= Deg(lcm)
  BY <1>1, <1>3, SPolyIsGraded
<1> HIDE DEF s
<1>5. \A u \in Support(s) : Deg(u) <= p.sugar
  <2>1. \A u \in Support(s) : Deg(u) \in Nat
    BY <1>4, DegType DEF Graded
  <2> QED
    BY <1>2, <1>3, <1>4, <2>1
<1>6. Sweet(LObject(s, p.sugar)) /\ Led(s)
  BY <1>2, <1>4, <1>5 DEF Sweet, LObject
<1> QED
  BY <1>6 DEF s, f, g, lcm

(* The sugar of a new pair is at least the degree of its lcm.              *)
LEMMA MkPairFacts ==
  ASSUME NEW polys, NEW s, NEW h, NEW hSugar \in Nat, NEW arrival,
         LM(polys[s]) \in Monomial, LM(polys[h]) \in Monomial
  PROVE  LET p == MkPair(polys, s, h, hSugar, arrival)
         IN  /\ p = [i |-> s, j |-> h, lcm |-> p.lcm, sugar |-> p.sugar,
                     arrival |-> arrival]
             /\ p.lcm = Lcm(LM(polys[s]), LM(polys[h])) /\ p.lcm \in Monomial
             /\ p.sugar \in Nat /\ Deg(p.lcm) <= p.sugar
<1> DEFINE p == MkPair(polys, s, h, hSugar, arrival)
           lcm == Lcm(LM(polys[s]), LM(polys[h]))
           side == hSugar + (Deg(lcm) - Deg(LM(polys[h])))
<1>1. p = [i |-> s, j |-> h, lcm |-> lcm,
           sugar |-> IF side > Deg(lcm) THEN side ELSE Deg(lcm), arrival |-> arrival]
  BY DEF MkPair
<1>2. lcm \in Monomial /\ Deg(lcm) \in Nat /\ Deg(LM(polys[h])) \in Nat
  BY LcmFacts, DegType
<1> QED
  BY <1>1, <1>2

LEMMA NewPairFacts ==
  ASSUME NEW polys, NEW s \in DOMAIN polys, NEW h \in DOMAIN polys,
         NEW hSugar \in Nat, NEW arrival,
         LM(polys[s]) \in Monomial, LM(polys[h]) \in Monomial
  PROVE  /\ PairIn(polys, MkPair(polys, s, h, hSugar, arrival))
         /\ MkPair(polys, s, h, hSugar, arrival).j = h
         /\ MkPair(polys, s, h, hSugar, arrival).arrival = arrival
<1> DEFINE p == MkPair(polys, s, h, hSugar, arrival)
<1>1. /\ p.i = s /\ p.j = h /\ p.arrival = arrival
      /\ p.lcm = Lcm(LM(polys[s]), LM(polys[h]))
  BY DEF MkPair
<1>2. p.sugar \in Nat /\ Deg(p.lcm) <= p.sugar
  BY MkPairFacts
<1> HIDE DEF p
<1>3. PairIn(polys, p)
  BY <1>1, <1>2 DEF PairIn
<1> QED
  BY <1>1, <1>3 DEF p

(* A nonempty sequence without its head.                                   *)
LEMMA TailSeq ==
  ASSUME NEW S, NEW s \in Seq(S), s # << >>
  PROVE  /\ Tail(s) \in Seq(S)
         /\ \A k \in DOMAIN Tail(s) : k + 1 \in DOMAIN s /\ Tail(s)[k] = s[k + 1]
OBVIOUS

(* The partners of element h are older elements.                           *)
PartnersUpTo(polys, redundant, h) ==
  CHOOSE f : f = [s \in 0 .. h - 1 |->
                    IF s = 0 THEN << >>
                    ELSE IF ~redundant[s] /\ ~Coprime(LM(polys[s]), LM(polys[h]))
                    THEN Append(f[s - 1], s) ELSE f[s - 1]]

LEMMA PartnersAreOlder ==
  ASSUME NEW polys, NEW redundant, NEW h \in Nat, h > 0
  PROVE  Partners(polys, redundant, h) \in Seq(1 .. h - 1)
<1> DEFINE n == h - 1
           kept(s) == ~redundant[s] /\ ~Coprime(LM(polys[s]), LM(polys[h]))
           IsPart(f, l) == f = [s \in 0 .. l |->
                                  IF s = 0 THEN << >>
                                  ELSE IF kept(s) THEN Append(f[s - 1], s) ELSE f[s - 1]]
           u == PartnersUpTo(polys, redundant, h)
<1>0. n \in Nat
  OBVIOUS
<1>1. IsPart(u, n)
  <2> DEFINE S == {l \in 0 .. n : \E f : IsPart(f, l)}
  <2>1. 0 \in S
    <3> DEFINE f == [s \in 0 .. 0 |-> << >>]
    <3> HIDE DEF n
    <3>1. IsPart(f, 0)
      OBVIOUS
    <3> HIDE DEF f
    <3> QED
      BY <1>0, <3>1
  <2>2. ASSUME NEW k \in 1 .. n, k - 1 \in S
        PROVE  k \in S
    <3>1. PICK f : IsPart(f, k - 1)
      BY <2>2
    <3> DEFINE g == [s \in 0 .. k |->
                       IF s = k THEN IF kept(k) THEN Append(f[k - 1], k) ELSE f[k - 1]
                       ELSE f[s]]
    <3> HIDE DEF n, kept
    <3>2. \A s \in 0 .. k - 1 :
            f[s] = IF s = 0 THEN << >>
                   ELSE IF kept(s) THEN Append(f[s - 1], s) ELSE f[s - 1]
      BY <3>1
    <3>3. \A s \in 0 .. k :
            g[s] = IF s = 0 THEN << >>
                   ELSE IF kept(s) THEN Append(g[s - 1], s) ELSE g[s - 1]
      BY <3>2
    <3>4. g = [s \in 0 .. k |-> g[s]]
      OBVIOUS
    <3> HIDE DEF g
    <3>5. IsPart(g, k)
      BY <3>3, <3>4
    <3> QED
      BY <1>0, <3>5
  <2>3. n \in S
    <3> HIDE DEF S, n
    <3> QED
      BY <1>0, <2>1, <2>2, InductionUpTo
  <2>4. \E f : IsPart(f, n)
    BY <2>3
  <2> QED
    BY <2>4 DEF PartnersUpTo
<1>2. Partners(polys, redundant, h) = u[n]
  BY DEF Partners, PartnersUpTo
<1> HIDE DEF u, n, kept
<1>3. \A s \in 0 .. n :
        u[s] = IF s = 0 THEN << >>
               ELSE IF kept(s) THEN Append(u[s - 1], s) ELSE u[s - 1]
  BY <1>1
<1> DEFINE G == {s \in 0 .. n : u[s] \in Seq(1 .. n)}
<1>4. 0 \in G
  <2>1. 0 \in 0 .. n
    BY <1>0
  <2>2. u[0] = << >>
    BY <1>3, <2>1
  <2>3. << >> \in Seq(1 .. n)
    OBVIOUS
  <2> QED
    BY <2>1, <2>2, <2>3
<1>5. ASSUME NEW k \in 1 .. n, k - 1 \in G PROVE k \in G
  <2>1. u[k - 1] \in Seq(1 .. n) /\ k \in 0 .. n /\ k # 0
    BY <1>0, <1>5
  <2>2. u[k] = IF kept(k) THEN Append(u[k - 1], k) ELSE u[k - 1]
    BY <1>3, <2>1
  <2>3. Append(u[k - 1], k) \in Seq(1 .. n)
    BY <2>1
  <2>4. u[k] \in Seq(1 .. n)
    BY <2>1, <2>2, <2>3, Zenon
  <2> QED
    BY <2>1, <2>4
<1>6. n \in G
  <2> HIDE DEF G
  <2> QED
    BY <1>0, <1>4, <1>5, InductionUpTo
<1>7. u[n] \in Seq(1 .. n)
  BY <1>6
<1> QED
  BY <1>2, <1>7 DEF n

(* Swap-removal shortens a sequence by one and brings in nothing new.      *)
LEMMA SwapRemoveFacts ==
  ASSUME NEW S, NEW s \in Seq(S), Len(s) > 0, NEW k
  PROVE  SwapRemove(s, k) \in Seq(S) /\ Len(SwapRemove(s, k)) = Len(s) - 1
<1> DEFINE front == SubSeq(s, 1, Len(s) - 1)
           swapped == [front EXCEPT ![k] = s[Len(s)]]
<1>1. front \in Seq(S) /\ Len(front) = Len(s) - 1 /\ s[Len(s)] \in S
  <2>1. Len(s) \in Nat /\ s[Len(s)] \in S
    OBVIOUS
  <2>2. \A i \in 1 .. Len(s) - 1 : s[i] \in S
    BY <2>1
  <2>3. front = [i \in 1 .. Len(s) - 1 |-> s[i]]
    BY <2>1
  <2>4. front \in [1 .. Len(s) - 1 -> S]
    BY <2>2, <2>3
  <2> HIDE DEF front
  <2>5. Len(s) - 1 \in Nat
    BY <2>1
  <2>6. front \in Seq(S) /\ Len(front) = Len(s) - 1
    BY <2>4, <2>5, SeqDef, LenProperties
  <2> QED
    BY <2>1, <2>6
<1> HIDE DEF front
<1>2. swapped \in Seq(S) /\ Len(swapped) = Len(front)
  <2>1. swapped = [i \in 1 .. Len(front) |-> IF i = k THEN s[Len(s)] ELSE front[i]]
    BY <1>1
  <2>2. \A i \in 1 .. Len(front) : front[i] \in S
    BY <1>1
  <2>3. swapped \in [1 .. Len(front) -> S]
    BY <1>1, <2>1, <2>2
  <2> HIDE DEF swapped
  <2>4. Len(front) \in Nat
    BY <1>1
  <2> QED
    BY <2>3, <2>4, SeqDef, LenProperties
<1> HIDE DEF swapped
<1>3. SwapRemove(s, k) = IF k = Len(s) THEN front ELSE swapped
  BY DEF SwapRemove, front, swapped
<1> QED
  BY <1>1, <1>2, <1>3

(* The candidates that are left after k positions have been looked at.     *)
ChainCritBUpTo(b) ==
  CHOOSE f : f = [k \in 0 .. Len(b) |->
                    IF k = 0 THEN b
                    ELSE IF ChainImplied(b, Len(b) + 1 - k)
                         THEN SwapRemove(f[k - 1], Len(b) + 1 - k) ELSE f[k - 1]]

(* The criterion inside B keeps some of the candidates.                    *)
LEMMA ChainCritBFacts ==
  ASSUME NEW S, NEW b \in Seq(S)
  PROVE  ChainCritB(b) \in Seq(S)
<1> DEFINE n == Len(b)
           drop(k) == ChainImplied(b, n + 1 - k)
           less(t, k) == SwapRemove(t, n + 1 - k)
           IsPart(f, l) == f = [k \in 0 .. l |->
                                  IF k = 0 THEN b
                                  ELSE IF drop(k) THEN less(f[k - 1], k) ELSE f[k - 1]]
           u == ChainCritBUpTo(b)
<1>0. n \in Nat
  OBVIOUS
<1>1. IsPart(u, n)
  <2> DEFINE T == {l \in 0 .. n : \E f : IsPart(f, l)}
  <2>1. 0 \in T
    <3> DEFINE f == [k \in 0 .. 0 |-> b]
    <3> HIDE DEF n, drop, less
    <3>1. IsPart(f, 0)
      OBVIOUS
    <3> HIDE DEF f
    <3> QED
      BY <1>0, <3>1
  <2>2. ASSUME NEW k \in 1 .. n, k - 1 \in T
        PROVE  k \in T
    <3>1. PICK f : IsPart(f, k - 1)
      BY <2>2
    <3> DEFINE g == [l \in 0 .. k |->
                       IF l = k THEN IF drop(k) THEN less(f[k - 1], k) ELSE f[k - 1]
                       ELSE f[l]]
    <3> HIDE DEF n, drop, less
    <3>2. \A l \in 0 .. k - 1 :
            f[l] = IF l = 0 THEN b
                   ELSE IF drop(l) THEN less(f[l - 1], l) ELSE f[l - 1]
      BY <3>1
    <3>3. \A l \in 0 .. k :
            g[l] = IF l = 0 THEN b
                   ELSE IF drop(l) THEN less(g[l - 1], l) ELSE g[l - 1]
      BY <3>2
    <3>4. g = [l \in 0 .. k |-> g[l]]
      OBVIOUS
    <3> HIDE DEF g
    <3>5. IsPart(g, k)
      BY <3>3, <3>4
    <3> QED
      BY <1>0, <3>5
  <2>3. n \in T
    <3> HIDE DEF T, n
    <3>1. \A k \in 0 .. n : k \in T
      BY <1>0, <2>1, <2>2, InductionUpTo, Zenon
    <3> QED
      BY <1>0, <3>1
  <2>4. \E f : IsPart(f, n)
    BY <2>3
  <2> QED
    BY <2>4 DEF ChainCritBUpTo
<1>2. ChainCritB(b) = u[n]
  BY DEF ChainCritB, ChainCritBUpTo
<1>3. \A t \in Seq(S) : \A k :
        Len(t) > 0 => less(t, k) \in Seq(S) /\ Len(less(t, k)) = Len(t) - 1
  BY SwapRemoveFacts
<1>4. b \in Seq(S) /\ Len(b) = n
  OBVIOUS
<1> HIDE DEF u, n, drop, less
<1>5. \A k \in 0 .. n :
        u[k] = IF k = 0 THEN b
               ELSE IF drop(k) THEN less(u[k - 1], k) ELSE u[k - 1]
  BY <1>1
<1> DEFINE G == {k \in 0 .. n : u[k] \in Seq(S) /\ Len(u[k]) >= n - k}
<1>6. 0 \in G
  BY <1>0, <1>4, <1>5
<1>7. ASSUME NEW k \in 1 .. n, k - 1 \in G PROVE k \in G
  <2> DEFINE t == u[k - 1]
  <2>1. t \in Seq(S) /\ Len(t) >= n - k + 1 /\ k \in 0 .. n /\ k # 0 /\ Len(t) \in Nat
    BY <1>0, <1>7
  <2>2. u[k] = IF drop(k) THEN less(t, k) ELSE t
    BY <1>5, <2>1
  <2> HIDE DEF t
  <2>3. less(t, k) \in Seq(S) /\ Len(less(t, k)) = Len(t) - 1
    BY <1>0, <1>3, <2>1
  <2>4. u[k] \in Seq(S) /\ Len(u[k]) >= n - k
    BY <1>0, <2>1, <2>2, <2>3
  <2> QED
    BY <2>1, <2>4
<1>8. n \in G
  <2> HIDE DEF G
  <2>1. \A k \in 0 .. n : k \in G
    BY <1>0, <1>6, <1>7, InductionUpTo, Zenon
  <2> QED
    BY <1>0, <2>1
<1>9. u[n] \in Seq(S)
  BY <1>8
<1> QED
  BY <1>2, <1>9

-----------------------------------------------------------------------------
(* The queue.                                                              *)

(* Every nonempty set of numbers that a field of pairs takes has a least.  *)
LEMMA LeastField ==
  ASSUME NEW m, m # {}, NEW f, \A p \in m : f[p] \in Nat
  PROVE  \E p \in m : \A q \in m : f[p] <= f[q]
<1> DEFINE values == {f[p] : p \in m}
<1>1. values \in SUBSET Nat /\ values # {}
  OBVIOUS
<1>2. PICK v \in values : \A x \in values : v <= x
  <2> HIDE DEF values
  <2> QED
    BY <1>1, LeastNatural
<1> QED
  BY <1>2

(* What the order of the queue looks at are numbers, and two pairs differ  *)
(* in the arrival or an index: then there is a best pair.                  *)
LEMMA NextPairExists ==
  ASSUME NEW l, l # {},
         \A p \in l : /\ p.sugar \in Nat /\ p.arrival \in Nat
                      /\ p.i \in Nat /\ p.j \in Nat,
         \A p, q \in l : p.arrival = q.arrival /\ p.i = q.i /\ p.j = q.j => p = q
  PROVE  NextPair(l) \in l
<1> DEFINE sugarOf == [p \in l |-> p.sugar]
<1>1. PICK a \in l : \A q \in l : a.sugar <= q.sugar
  <2>1. \A p \in l : sugarOf[p] = p.sugar
    OBVIOUS
  <2> HIDE DEF sugarOf
  <2> QED
    BY <2>1, LeastField
<1> DEFINE l1 == {p \in l : p.sugar = a.sugar}
           arrivalOf == [p \in l1 |-> p.arrival]
<1>2. PICK b \in l1 : \A q \in l1 : b.arrival <= q.arrival
  <2>1. l1 # {} /\ \A p \in l1 : arrivalOf[p] = p.arrival /\ p.arrival \in Nat
    OBVIOUS
  <2> HIDE DEF l1, arrivalOf
  <2> QED
    BY <2>1, LeastField
<1> DEFINE l2 == {p \in l1 : p.arrival = b.arrival}
           iOf == [p \in l2 |-> p.i]
<1>3. PICK c \in l2 : \A q \in l2 : c.i <= q.i
  <2>1. l2 # {} /\ \A p \in l2 : iOf[p] = p.i /\ p.i \in Nat
    OBVIOUS
  <2> HIDE DEF l2, iOf
  <2> QED
    BY <2>1, LeastField
<1> DEFINE l3 == {p \in l2 : p.i = c.i}
           jOf == [p \in l3 |-> p.j]
<1>4. PICK d \in l3 : \A q \in l3 : d.j <= q.j
  <2>1. l3 # {} /\ \A p \in l3 : jOf[p] = p.j /\ p.j \in Nat
    OBVIOUS
  <2> HIDE DEF l3, jOf
  <2>2. \E p \in l3 : \A q \in l3 : jOf[p] <= jOf[q]
    BY ONLY <2>1, LeastField
  <2> QED
    BY ONLY <2>1, <2>2
<1>5. d \in l /\ d.sugar = a.sugar /\ d.arrival = b.arrival /\ d.i = c.i
  BY <1>4
<1>6. ASSUME NEW q \in l PROVE q = d \/ PairBefore(d, q)
  <2>1. /\ d.sugar \in Nat /\ d.arrival \in Nat /\ d.i \in Nat /\ d.j \in Nat
        /\ q.sugar \in Nat /\ q.arrival \in Nat /\ q.i \in Nat /\ q.j \in Nat
    BY <1>5
  <2>2. d.sugar <= q.sugar
    BY <1>1, <1>5
  <2>3. q.sugar = d.sugar => d.arrival <= q.arrival
    BY <1>2, <1>5
  <2>4. q.sugar = d.sugar /\ q.arrival = d.arrival => d.i <= q.i
    BY <1>3, <1>5
  <2>5. q.sugar = d.sugar /\ q.arrival = d.arrival /\ q.i = d.i => d.j <= q.j
    BY <1>4, <1>5
  <2>6. q.arrival = d.arrival /\ q.i = d.i /\ q.j = d.j => q = d
    BY <1>5
  <2> HIDE DEF l3
  <2> QED
    BY <2>1, <2>2, <2>3, <2>4, <2>5, <2>6 DEF PairBefore
<1> QED
  BY <1>5, <1>6 DEF NextPair

-----------------------------------------------------------------------------
(* Sums over finite sets.                                                  *)

Pick(s) == CHOOSE x \in s : TRUE

(* The sums of v over the subsets of S, as the fold computes them.         *)
SumsOver(v, S) ==
  CHOOSE iter : iter = [s \in SUBSET S |->
                          IF s = {} THEN 0 ELSE v[Pick(s)] + iter[s \ {Pick(s)}]]

LEMMA PickFacts ==
  ASSUME NEW S, IsFiniteSet(S), NEW s \in SUBSET S, s # {}
  PROVE  /\ Pick(s) \in s /\ IsFiniteSet(s)
         /\ Cardinality(s) \in Nat /\ Cardinality(s) > 0
         /\ s \ {Pick(s)} \in SUBSET S
         /\ Cardinality(s \ {Pick(s)}) = Cardinality(s) - 1
<1>1. Pick(s) \in s
  BY DEF Pick
<1>2. IsFiniteSet(s)
  BY FS_Subset
<1>3. Cardinality(s) \in Nat /\ Cardinality(s) # 0
  BY <1>2, FS_CardinalityType, FS_EmptySet
<1>4. Cardinality(s \ {Pick(s)}) = Cardinality(s) - 1
  BY <1>1, <1>2, FS_RemoveElement
<1> QED
  BY <1>1, <1>2, <1>3, <1>4

LEMMA SumsOverDefined ==
  ASSUME NEW v, NEW S, IsFiniteSet(S)
  PROVE  \A s \in SUBSET S :
           SumsOver(v, S)[s] = IF s = {} THEN 0
                               ELSE v[Pick(s)] + SumsOver(v, S)[s \ {Pick(s)}]
<1> DEFINE n == Cardinality(S)
           rest(s) == s \ {Pick(s)}
           upTo(k) == {s \in SUBSET S : Cardinality(s) <= k}
           plus(s, x) == v[Pick(s)] + x
           IsSum(f, k) ==
             f = [s \in upTo(k) |-> IF s = {} THEN 0 ELSE plus(s, f[rest(s)])]
           T == {k \in 0 .. n : \E f : IsSum(f, k)}
<1>1. n \in Nat
  BY FS_CardinalityType
<1>2. upTo(n) = SUBSET S
  BY FS_Subset
<1>3. \A s \in SUBSET S : s # {} => /\ Cardinality(s) \in Nat /\ Cardinality(s) > 0
                                    /\ rest(s) \in SUBSET S
                                    /\ Cardinality(rest(s)) = Cardinality(s) - 1
  BY PickFacts
<1>3a. Cardinality({}) = 0 /\ {} \in SUBSET S
  BY FS_EmptySet
<1> HIDE DEF n, rest, plus
<1>4. 0 \in T
  <2> DEFINE f == [s \in upTo(0) |-> 0]
  <2>1. \A s \in upTo(0) : s = {}
    BY <1>3
  <2>2. IsSum(f, 0)
    BY <2>1
  <2> HIDE DEF f, upTo
  <2> QED
    BY <1>1, <2>2
<1>5. ASSUME NEW k \in 1 .. n, k - 1 \in T
      PROVE  k \in T
  <2>1. PICK f : IsSum(f, k - 1)
    BY <1>5
  <2> DEFINE g == [s \in upTo(k) |->
                     IF s \in upTo(k - 1) THEN f[s] ELSE plus(s, f[rest(s)])]
  <2>2. \A s \in upTo(k - 1) : f[s] = IF s = {} THEN 0 ELSE plus(s, f[rest(s)])
    BY <2>1
  <2>3. \A s \in upTo(k) : s # {} => rest(s) \in upTo(k - 1) /\ rest(s) \in upTo(k)
    BY <1>1, <1>3
  <2>4. {} \in upTo(k - 1)
    BY <1>1, <1>3a
  <2>5. \A s \in upTo(k - 1) : s \in upTo(k)
    <3>1. \A s \in SUBSET S : Cardinality(s) \in Nat
      BY <1>3, <1>3a
    <3> QED
      BY <1>1, <3>1
  <2> HIDE DEF upTo
  <2>6. \A s \in upTo(k) : g[s] = IF s = {} THEN 0 ELSE plus(s, g[rest(s)])
    BY <2>2, <2>3, <2>4, <2>5
  <2>7. g = [s \in upTo(k) |-> g[s]]
    OBVIOUS
  <2> HIDE DEF g
  <2>8. IsSum(g, k)
    BY <2>6, <2>7
  <2> QED
    BY <1>1, <2>8
<1>6. n \in T
  <2> HIDE DEF T
  <2> QED
    BY <1>1, <1>4, <1>5, InductionUpTo
<1>7. \E f : f = [s \in SUBSET S |-> IF s = {} THEN 0 ELSE plus(s, f[rest(s)])]
  <2>1. PICK f : IsSum(f, n)
    BY <1>6
  <2> HIDE DEF upTo
  <2> QED
    BY <1>2, <2>1
<1> DEFINE u == SumsOver(v, S)
<1>8. u = [s \in SUBSET S |-> IF s = {} THEN 0 ELSE plus(s, u[rest(s)])]
  BY <1>7 DEF SumsOver, plus, rest
<1> HIDE DEF u
<1>9. \A s \in SUBSET S : u[s] = IF s = {} THEN 0 ELSE plus(s, u[rest(s)])
  BY <1>8
<1> QED
  BY <1>9 DEF u, plus, rest

LEMMA SumsOverType ==
  ASSUME NEW v, NEW S, IsFiniteSet(S), \A x \in S : v[x] \in Nat
  PROVE  SumsOver(v, S)[S] \in Nat
<1> DEFINE n == Cardinality(S)
           f == SumsOver(v, S)
           T == {k \in 0 .. n : \A s \in SUBSET S : Cardinality(s) <= k => f[s] \in Nat}
<1>1. n \in Nat
  BY FS_CardinalityType
<1>2. \A s \in SUBSET S : f[s] = IF s = {} THEN 0 ELSE v[Pick(s)] + f[s \ {Pick(s)}]
  BY SumsOverDefined
<1>2a. f[{}] = 0 /\ \A s \in SUBSET S : s # {} => f[s] = v[Pick(s)] + f[s \ {Pick(s)}]
  BY <1>2
<1>3. \A s \in SUBSET S :
        s # {} => /\ Pick(s) \in S /\ s \ {Pick(s)} \in SUBSET S
                  /\ Cardinality(s) \in Nat /\ Cardinality(s) > 0
                  /\ Cardinality(s \ {Pick(s)}) = Cardinality(s) - 1
  BY PickFacts
<1>3a. \A s \in SUBSET S : s # {} => Cardinality(s) \in Nat /\ Cardinality(s) > 0
  BY PickFacts
<1> HIDE DEF n, f
<1>4. 0 \in T
  <2> HIDE DEF T
  <2>1. ASSUME NEW s \in SUBSET S, Cardinality(s) <= 0 PROVE f[s] \in Nat
    <3>1. s = {}
      BY <1>3a, <2>1
    <3> QED
      BY <1>2a, <3>1
  <2> QED
    BY <1>1, <2>1 DEF T
<1>5. ASSUME NEW k \in 1 .. n, k - 1 \in T PROVE k \in T
  <2>0. k \in 1 .. n /\ \A s \in SUBSET S : Cardinality(s) <= k - 1 => f[s] \in Nat
    BY <1>5
  <2> HIDE DEF T
  <2>1. ASSUME NEW s \in SUBSET S, Cardinality(s) <= k PROVE f[s] \in Nat
    <3>1. CASE s = {}
      BY <1>2a, <3>1
    <3>2. CASE s # {}
      <4> DEFINE r == s \ {Pick(s)}
      <4>1. /\ r \in SUBSET S /\ Cardinality(r) <= k - 1
            /\ v[Pick(s)] \in Nat /\ f[s] = v[Pick(s)] + f[r]
        BY <1>1, <1>2a, <1>3, <2>1, <3>2
      <4> HIDE DEF r
      <4>2. f[r] \in Nat
        BY <2>0, <4>1
      <4> QED
        BY <4>1, <4>2
    <3> QED
      BY <3>1, <3>2
  <2> QED
    BY <1>1, <2>0, <2>1 DEF T
<1>6. n \in T
  <2> HIDE DEF T
  <2> QED
    BY <1>1, <1>4, <1>5, InductionUpTo
<1>7. f[S] \in Nat
  BY <1>1, <1>6 DEF n
<1> QED
  BY <1>7 DEF f

(* Sums over subsets on which the summands agree are equal.                *)
LEMMA SumsAgree ==
  ASSUME NEW v, NEW w, NEW S, NEW T, IsFiniteSet(S), IsFiniteSet(T),
         NEW s, s \in SUBSET S, s \in SUBSET T, \A x \in s : v[x] = w[x]
  PROVE  SumsOver(v, S)[s] = SumsOver(w, T)[s]
<1> DEFINE n == Cardinality(s)
           f == SumsOver(v, S)
           g == SumsOver(w, T)
           K == {k \in 0 .. n : \A r \in SUBSET s : Cardinality(r) <= k => f[r] = g[r]}
<1>0. IsFiniteSet(s) /\ n \in Nat
  BY FS_Subset, FS_CardinalityType
<1>1. \A r \in SUBSET s : r \in SUBSET S /\ r \in SUBSET T
  OBVIOUS
<1>2. \A r \in SUBSET S : f[r] = IF r = {} THEN 0 ELSE v[Pick(r)] + f[r \ {Pick(r)}]
  BY SumsOverDefined
<1>3. \A r \in SUBSET T : g[r] = IF r = {} THEN 0 ELSE w[Pick(r)] + g[r \ {Pick(r)}]
  BY SumsOverDefined
<1>4. \A r \in SUBSET s :
        r # {} => /\ Pick(r) \in s /\ r \ {Pick(r)} \in SUBSET s
                  /\ Cardinality(r) \in Nat /\ Cardinality(r) > 0
                  /\ Cardinality(r \ {Pick(r)}) = Cardinality(r) - 1
  BY <1>0, PickFacts
<1>4a. \A r \in SUBSET s : r # {} => Cardinality(r) \in Nat /\ Cardinality(r) > 0
  BY <1>0, PickFacts
<1> HIDE DEF n, f, g
<1>5. ASSUME NEW r \in SUBSET s, r = {} PROVE f[r] = g[r]
  BY <1>1, <1>2, <1>3, <1>5
<1>6. 0 \in K
  <2>1. ASSUME NEW r \in SUBSET s, Cardinality(r) <= 0 PROVE f[r] = g[r]
    <3>1. r = {}
      BY <1>4a, <2>1
    <3> QED
      BY <1>5, <3>1
  <2> QED
    BY <1>0, <2>1
<1>7. ASSUME NEW k \in 1 .. n, k - 1 \in K PROVE k \in K
  <2>0. k \in 1 .. n /\ \A r \in SUBSET s : Cardinality(r) <= k - 1 => f[r] = g[r]
    BY <1>7
  <2> HIDE DEF K
  <2>1. ASSUME NEW r \in SUBSET s, Cardinality(r) <= k PROVE f[r] = g[r]
    <3>1. CASE r # {}
      <4> DEFINE d == r \ {Pick(r)}
      <4>1. d \in SUBSET s /\ Cardinality(d) <= k - 1 /\ Pick(r) \in s
        BY <1>0, <1>4, <2>0, <2>1, <3>1
      <4>2. f[r] = v[Pick(r)] + f[d] /\ g[r] = w[Pick(r)] + g[d]
        BY <1>1, <1>2, <1>3, <3>1
      <4> HIDE DEF d
      <4>3. f[d] = g[d] /\ v[Pick(r)] = w[Pick(r)]
        BY <2>0, <4>1
      <4> QED
        BY <4>2, <4>3
    <3> QED
      BY <1>5, <3>1
  <2> QED
    BY <1>0, <2>0, <2>1 DEF K
<1>8. n \in K
  <2> HIDE DEF K
  <2> QED
    BY <1>0, <1>6, <1>7, InductionUpTo
<1> QED
  BY <1>0, <1>8 DEF n, f, g

Total(v, S) == SumsOver(v, S)[S]

LEMMA TotalType ==
  ASSUME NEW v, NEW S, IsFiniteSet(S), \A x \in S : v[x] \in Nat
  PROVE  Total(v, S) \in Nat
BY SumsOverType DEF Total

LEMMA TotalEmpty == \A v : Total(v, {}) = 0
<1>1. IsFiniteSet({}) /\ {} \in SUBSET {}
  BY FS_EmptySet
<1> QED
  BY <1>1, SumsOverDefined DEF Total

LEMMA TotalAgree ==
  ASSUME NEW v, NEW w, NEW S, IsFiniteSet(S), \A x \in S : v[x] = w[x]
  PROVE  Total(v, S) = Total(w, S)
BY SumsAgree DEF Total

LEMMA TotalPick ==
  ASSUME NEW v, NEW S, IsFiniteSet(S), S # {}
  PROVE  Total(v, S) = v[Pick(S)] + Total(v, S \ {Pick(S)})
<1> DEFINE R == S \ {Pick(S)}
<1>1. SumsOver(v, S)[S] = v[Pick(S)] + SumsOver(v, S)[R]
  BY SumsOverDefined
<1>2. IsFiniteSet(R) /\ R \in SUBSET S /\ R \in SUBSET R
  BY FS_Subset
<1> HIDE DEF R
<1>3. SumsOver(v, S)[R] = SumsOver(v, R)[R]
  BY <1>2, SumsAgree
<1> QED
  BY <1>1, <1>3 DEF Total, R

(* Any element may be taken out of a sum first.                            *)
LEMMA TotalStep ==
  ASSUME NEW v, NEW S, IsFiniteSet(S), \A x \in S : v[x] \in Nat, NEW x \in S
  PROVE  Total(v, S) = v[x] + Total(v, S \ {x})
<1> DEFINE n == Cardinality(S)
           K == {k \in 0 .. n : \A r \in SUBSET S : \A y \in r :
                   Cardinality(r) <= k => Total(v, r) = v[y] + Total(v, r \ {y})}
<1>0. n \in Nat
  BY FS_CardinalityType
<1>1. \A r \in SUBSET S : r # {} => /\ Pick(r) \in r /\ Cardinality(r) > 0
                                    /\ Cardinality(r) \in Nat
  BY PickFacts
<1>2. ASSUME NEW r \in SUBSET S, NEW y \in r
      PROVE  /\ r \ {y} \in SUBSET S /\ IsFiniteSet(r) /\ IsFiniteSet(r \ {y})
             /\ Cardinality(r) \in Nat /\ Cardinality(r \ {y}) = Cardinality(r) - 1
             /\ Total(v, r \ {y}) \in Nat /\ v[y] \in Nat
  <2>1. r \ {y} \in SUBSET S /\ IsFiniteSet(r) /\ IsFiniteSet(r \ {y})
    BY FS_Subset
  <2>2. Cardinality(r) \in Nat /\ Cardinality(r \ {y}) = Cardinality(r) - 1
    BY <2>1, FS_CardinalityType, FS_RemoveElement
  <2>3. Total(v, r \ {y}) \in Nat
    <3> DEFINE d == r \ {y}
    <3>1. IsFiniteSet(d) /\ \A z \in d : v[z] \in Nat
      BY <2>1
    <3> HIDE DEF d
    <3>2. Total(v, d) \in Nat
      BY <3>1, TotalType
    <3> QED
      BY <3>2 DEF d
  <2> QED
    BY <2>1, <2>2, <2>3
<1>3. \A r \in SUBSET S : r # {} => Total(v, r) = v[Pick(r)] + Total(v, r \ {Pick(r)})
  <2>1. \A r \in SUBSET S : IsFiniteSet(r)
    BY FS_Subset
  <2> QED
    BY <2>1, TotalPick
<1> HIDE DEF n
<1>4. 0 \in K
  BY <1>0, <1>1
<1>5. ASSUME NEW k \in 1 .. n, k - 1 \in K PROVE k \in K
  <2>0. k \in 1 .. n /\ \A r \in SUBSET S : \A y \in r :
          Cardinality(r) <= k - 1 => Total(v, r) = v[y] + Total(v, r \ {y})
    BY <1>5
  <2> HIDE DEF K
  <2>1. ASSUME NEW r \in SUBSET S, NEW y \in r, Cardinality(r) <= k
        PROVE  Total(v, r) = v[y] + Total(v, r \ {y})
    <3> DEFINE z == Pick(r)
               ry == r \ {y}
               rz == r \ {z}
               both == ry \ {z}
    <3>1. z \in r /\ Total(v, r) = v[z] + Total(v, rz)
      BY <1>1, <1>3
    <3>2. CASE y = z
      BY <3>1, <3>2
    <3>3. CASE y # z
      <4>1. y \in rz /\ z \in ry /\ rz \ {y} = both /\ ry \in SUBSET S /\ rz \in SUBSET S
        BY <3>1, <3>3
      <4>2. Cardinality(ry) <= k - 1 /\ Cardinality(rz) <= k - 1
        <5>1. /\ Cardinality(ry) = Cardinality(r) - 1 /\ Cardinality(rz) = Cardinality(r) - 1
              /\ Cardinality(r) \in Nat
          BY <1>2, <3>1
        <5> QED
          BY <1>0, <2>0, <2>1, <5>1
      <4> HIDE DEF z, ry, rz, both
      <4>3. Total(v, ry) = v[z] + Total(v, both)
        BY <2>0, <4>1, <4>2 DEF both
      <4>4. Total(v, rz) = v[y] + Total(v, both)
        BY <2>0, <4>1, <4>2
      <4>5. v[y] \in Nat /\ v[z] \in Nat /\ Total(v, both) \in Nat
        BY <1>2, <3>1, <4>1 DEF both
      <4>6. Total(v, r) = v[y] + Total(v, ry)
        BY <3>1, <4>3, <4>4, <4>5
      <4> QED
        BY <4>6 DEF ry
    <3> QED
      BY <3>2, <3>3
  <2> QED
    BY <1>0, <2>0, <2>1 DEF K
<1>6. n \in K
  <2> HIDE DEF K
  <2> QED
    BY <1>0, <1>4, <1>5, InductionUpTo
<1>7. S \in SUBSET S /\ n <= n
  BY <1>0
<1> QED
  BY <1>6, <1>7 DEF n

(* One summand is exchanged for another.                                   *)
LEMMA TotalChange ==
  ASSUME NEW v, NEW w, NEW S, IsFiniteSet(S), NEW x \in S,
         \A y \in S : v[y] \in Nat /\ w[y] \in Nat,
         \A y \in S \ {x} : w[y] = v[y]
  PROVE  \E rest \in Nat : Total(v, S) = v[x] + rest /\ Total(w, S) = w[x] + rest
<1> DEFINE R == S \ {x}
<1>1. Total(v, S) = v[x] + Total(v, R) /\ Total(w, S) = w[x] + Total(w, R)
  BY TotalStep
<1>2. IsFiniteSet(R) /\ \A y \in R : w[y] = v[y] /\ v[y] \in Nat
  BY FS_Subset
<1> HIDE DEF R
<1>3. Total(w, R) = Total(v, R) /\ Total(v, R) \in Nat
  BY <1>2, TotalAgree, TotalType
<1> QED
  BY <1>1, <1>3

(* Summands that are zero may be left out.                                 *)
LEMMA TotalExtra ==
  ASSUME NEW v, NEW S, IsFiniteSet(S), NEW T, T \subseteq S,
         \A x \in S : v[x] \in Nat, \A x \in S : x \notin T => v[x] = 0
  PROVE  Total(v, S) = Total(v, T)
<1> DEFINE E == S \ T
           n == Cardinality(E)
           K == {k \in 0 .. n : \A R \in SUBSET E :
                   Cardinality(R) <= k => Total(v, T \cup R) = Total(v, T)}
<1>0. IsFiniteSet(E) /\ n \in Nat /\ T \cup E = S /\ E \in SUBSET E
  BY FS_Subset, FS_CardinalityType
<1>1. \A R \in SUBSET E : R # {} => /\ Pick(R) \in R /\ R \ {Pick(R)} \in SUBSET E
                                    /\ Cardinality(R) \in Nat /\ Cardinality(R) > 0
                                    /\ Cardinality(R \ {Pick(R)}) = Cardinality(R) - 1
  BY <1>0, PickFacts
<1>2. T \cup {} = T
  OBVIOUS
<1>3. ASSUME NEW R \in SUBSET E, R # {}
      PROVE  Total(v, T \cup R) = Total(v, T \cup (R \ {Pick(R)}))
  <2> DEFINE x == Pick(R)
             A == T \cup R
             B == T \cup (R \ {x})
  <2>1. x \in A /\ v[x] = 0 /\ A \ {x} = B
    BY <1>1, <1>3
  <2>2. IsFiniteSet(A) /\ IsFiniteSet(B) /\ (\A y \in A : v[y] \in Nat)
        /\ (\A y \in B : v[y] \in Nat)
    BY FS_Subset
  <2> HIDE DEF x, A, B
  <2>3. Total(v, A) = v[x] + Total(v, B) /\ Total(v, B) \in Nat
    BY <2>1, <2>2, TotalStep, TotalType
  <2>4. Total(v, A) = Total(v, B)
    BY <2>1, <2>3
  <2> QED
    BY <2>4 DEF A, B, x
<1> HIDE DEF n, E
<1>4. 0 \in K
  <2>1. \A R \in SUBSET E : R # {} => Cardinality(R) \in Nat /\ Cardinality(R) > 0
    BY <1>1
  <2>2. ASSUME NEW R \in SUBSET E, Cardinality(R) <= 0
        PROVE  Total(v, T \cup R) = Total(v, T)
    <3>1. R = {}
      BY <2>1, <2>2
    <3> QED
      BY <1>2, <3>1
  <2> QED
    BY <1>0, <2>2
<1>5. ASSUME NEW k \in 1 .. n, k - 1 \in K PROVE k \in K
  <2>0. k \in 1 .. n /\ \A R \in SUBSET E :
          Cardinality(R) <= k - 1 => Total(v, T \cup R) = Total(v, T)
    BY <1>5
  <2> HIDE DEF K
  <2>1. ASSUME NEW R \in SUBSET E, Cardinality(R) <= k
        PROVE  Total(v, T \cup R) = Total(v, T)
    <3>1. CASE R = {}
      BY <1>2, <3>1
    <3>2. CASE R # {}
      <4> DEFINE d == R \ {Pick(R)}
      <4>1. d \in SUBSET E /\ Cardinality(d) <= k - 1
        BY <1>0, <1>1, <2>0, <2>1, <3>2
      <4>2. Total(v, T \cup R) = Total(v, T \cup d)
        BY <1>3, <3>2
      <4> HIDE DEF d
      <4>3. Total(v, T \cup d) = Total(v, T)
        BY <2>0, <4>1
      <4> QED
        BY <4>2, <4>3
    <3> QED
      BY <3>1, <3>2
  <2> QED
    BY <1>0, <2>0, <2>1 DEF K
<1>6. n \in K
  <2> HIDE DEF K
  <2> QED
    BY <1>0, <1>4, <1>5, InductionUpTo
<1>7. n <= n
  BY <1>0
<1>8. Total(v, T \cup E) = Total(v, T)
  BY <1>0, <1>6, <1>7 DEF n
<1> QED
  BY <1>0, <1>8

-----------------------------------------------------------------------------
(* Ranks.                                                                  *)

LEMMA UpToFacts ==
  ASSUME NEW n \in Nat
  PROVE  IsFiniteSet(1 .. n) /\ Cardinality(1 .. n) = n
<1>1. /\ IsFiniteSet(1 .. n)
      /\ Cardinality(1 .. n) = IF 1 > n THEN 0 ELSE n - 1 + 1
  BY FS_Interval
<1>. QED  BY <1>1

(* In a finite set with a total order every rank is taken once; f[a] are   *)
(* the elements before a.                                                  *)
LEMMA RankExists ==
  ASSUME NEW S, IsFiniteSet(S), NEW f,
         \A a \in S : f[a] \subseteq S /\ a \notin f[a],
         \A a, b \in S : a = b \/ a \in f[b] \/ b \in f[a],
         \A a, b \in S : b \in f[a] => f[b] \subseteq f[a]
  PROVE  /\ \A k \in 1 .. Cardinality(S) : \E a \in S : Cardinality(f[a]) = k - 1
         /\ \A a, b \in S : Cardinality(f[a]) = Cardinality(f[b]) => a = b
         /\ \A a \in S : Cardinality(f[a]) \in 0 .. Cardinality(S) - 1
<1> DEFINE N == Cardinality(S)
           g == [a \in S |-> Cardinality(f[a]) + 1]
<1>1. N \in Nat
  BY FS_CardinalityType
<1>2. ASSUME NEW a \in S
      PROVE  IsFiniteSet(f[a]) /\ Cardinality(f[a]) \in 0 .. N - 1
  <2>1. IsFiniteSet(S \ {a}) /\ Cardinality(S \ {a}) = N - 1
    BY FS_RemoveElement
  <2>2. f[a] \in SUBSET (S \ {a})
    OBVIOUS
  <2>3. IsFiniteSet(f[a]) /\ Cardinality(f[a]) <= Cardinality(S \ {a})
    BY <2>1, <2>2, FS_Subset
  <2>4. Cardinality(f[a]) \in Nat
    BY <2>3, FS_CardinalityType
  <2>. QED  BY <2>1, <2>3, <2>4, <1>1
<1>3. ASSUME NEW a \in S, NEW b \in S, b \in f[a]
      PROVE  Cardinality(f[a]) # Cardinality(f[b])
  <2>1. f[b] \in SUBSET f[a] /\ f[b] # f[a]
    BY <1>3
  <2>. QED  BY <2>1, <1>2, FS_Subset
<1>4. \A a, b \in S : Cardinality(f[a]) = Cardinality(f[b]) => a = b
  BY <1>3
<1>5. g \in Injection(S, 1 .. N)
  <2>1. g \in [S -> 1 .. N]
    BY <1>1, <1>2
  <2>2. ASSUME NEW a \in S, NEW b \in S, g[a] = g[b] PROVE a = b
    <3>1. Cardinality(f[a]) = Cardinality(f[b])
      BY <1>1, <1>2, <2>2
    <3>. QED  BY <3>1, <1>4
  <2>. QED  BY <2>1, <2>2 DEF Injection, IsInjective
<1>6. g \in Surjection(S, 1 .. N)
  BY <1>1, <1>5, UpToFacts, FS_Injection
<1>7. ASSUME NEW k \in 1 .. N
      PROVE  \E a \in S : Cardinality(f[a]) = k - 1
  <2>1. PICK a \in S : g[a] = k
    BY <1>6 DEF Surjection
  <2>. QED  BY <2>1, <1>1, <1>2
<1>. QED  BY <1>2, <1>4, <1>7

(* P is prime: a product of coefficients other than zero is not zero.      *)
LEMMA NoZeroProduct ==
  ASSUME NEW c \in 1 .. P - 1, NEW d \in 1 .. P - 1
  PROVE  (c * d) % P # 0
<1>0. P \in Nat /\ P > 1
  BY PAssumption
<1>1. PICK e \in 1 .. P - 1 : (c * e) % P = 1
  BY PAssumption
<1>2. SUFFICES ASSUME (c * d) % P = 0 PROVE FALSE
  OBVIOUS
<1> DEFINE a == c * d
           b == c * e
<1>3. a \in Int /\ b \in Int
  BY <1>0
<1>4. PICK k \in Int : a = k * P + (a % P)
  BY <1>3, ModFacts
<1>5. PICK l \in Int : b = l * P + (b % P)
  BY <1>3, ModFacts
<1>6. a = k * P /\ b = l * P + 1
  <2>1. k * P \in Int /\ l * P \in Int
    BY <1>0
  <2>. QED  BY <1>1, <1>2, <1>4, <1>5, <2>1
<1>7. a * e = b * d
  BY <1>0
<1> HIDE DEF a, b
<1>8. d = (k * e - l * d) * P
  <2>1. (k * P) * e = (k * e) * P /\ (l * P + 1) * d = (l * d) * P + d
    BY <1>0
  <2>2. (k * e - l * d) * P = (k * e) * P - (l * d) * P
    BY <1>0
  <2>3. (k * e) * P \in Int /\ (l * d) * P \in Int
    BY <1>0
  <2>. QED  BY <1>0, <1>6, <1>7, <2>1, <2>2, <2>3
<1> DEFINE j == k * e - l * d
<1>9. j \in Int /\ d = 0 + j * P
  BY <1>0, <1>8
<1> HIDE DEF j
<1>10. (d % P) = (0 % P)
  <2>1. d \in Int /\ 0 \in Int
    OBVIOUS
  <2>. QED  BY <2>1, <1>9, ModSame, Zenon
<1>11. (d % P) = d /\ (0 % P) = 0
  BY <1>0, ModSmall
<1>. QED  BY <1>10, <1>11

-----------------------------------------------------------------------------
(* Sequences, one after the other.                                        *)

LEMMA SameSeq ==
  ASSUME NEW S, NEW s \in Seq(S), NEW T, NEW t \in Seq(T), Len(s) = Len(t),
         \A k \in 1 .. Len(s) : s[k] = t[k]
  PROVE  s = t
<1>1. s = [k \in 1 .. Len(s) |-> s[k]] /\ t = [k \in 1 .. Len(t) |-> t[k]]
  OBVIOUS
<1>2. [k \in 1 .. Len(s) |-> s[k]] = [k \in 1 .. Len(t) |-> t[k]]
  OBVIOUS
<1>. QED  BY <1>1, <1>2, Zenon

LEMMA SeqOver ==
  ASSUME NEW S, NEW s \in Seq(S), NEW T, \A k \in DOMAIN s : s[k] \in T
  PROVE  s \in Seq(T)
OBVIOUS

(* w is s followed by u. *)
Joins(w, s, u) ==
  /\ Len(s) \in Nat /\ Len(u) \in Nat /\ Len(w) = Len(s) + Len(u)
  /\ \A k \in 1 .. Len(s) : k \in 1 .. Len(w) /\ w[k] = s[k]
  /\ \A k \in 1 .. Len(u) : Len(s) + k \in 1 .. Len(w) /\ w[Len(s) + k] = u[k]
  /\ \A k \in 1 .. Len(w) : k \in 1 .. Len(s) \/ \E j \in 1 .. Len(u) : k = Len(s) + j

LEMMA ConcatFacts ==
  ASSUME NEW S, NEW s \in Seq(S), NEW T, NEW u \in Seq(T)
  PROVE  s \o u \in Seq(S \cup T) /\ Joins(s \o u, s, u)
<1>1. s \in Seq(S \cup T) /\ u \in Seq(S \cup T) /\ Len(s) \in Nat /\ Len(u) \in Nat
  OBVIOUS
<1>2. s \o u \in Seq(S \cup T) /\ Len(s \o u) = Len(s) + Len(u)
  BY <1>1
<1>3. \A k \in 1 .. Len(s) : k \in 1 .. Len(s \o u) /\ (s \o u)[k] = s[k]
  BY <1>1, <1>2
<1>4. ASSUME NEW k \in 1 .. Len(u)
      PROVE  Len(s) + k \in 1 .. Len(s \o u) /\ (s \o u)[Len(s) + k] = u[k]
  BY <1>1, <1>2
<1>5. ASSUME NEW k \in 1 .. Len(s \o u), k \notin 1 .. Len(s)
      PROVE  \E j \in 1 .. Len(u) : k = Len(s) + j
  <2>1. k - Len(s) \in 1 .. Len(u) /\ k = Len(s) + (k - Len(s))
    BY <1>1, <1>2, <1>5
  <2>. QED  BY <2>1
<1>. QED  BY <1>1, <1>2, <1>3, <1>4, <1>5 DEF Joins

LEMMA EmptyConcat ==
  ASSUME NEW S, NEW s \in Seq(S)
  PROVE  << >> \o s = s
<1> DEFINE e == << >>
           w == e \o s
<1>1. e \in Seq({}) /\ Len(e) = 0
  OBVIOUS
<1>2. w \in Seq({} \cup S) /\ Joins(w, e, s)
  BY <1>1, ConcatFacts, Zenon
<1> HIDE DEF e, w
<1>3. w \in Seq(S) /\ Len(w) = Len(s)
  BY <1>1, <1>2 DEF Joins
<1>4. \A k \in 1 .. Len(s) : w[k] = s[k]
  <2>1. \A k \in 1 .. Len(s) : w[Len(e) + k] = s[k]
    BY <1>2 DEF Joins
  <2>2. \A k \in 1 .. Len(s) : Len(e) + k = k
    BY <1>1
  <2>. QED  BY <2>1, <2>2
<1>5. w = s
  BY <1>3, <1>4, SameSeq
<1>. QED  BY <1>5 DEF w, e

-----------------------------------------------------------------------------
(* Sequences of terms.                                                     *)

IsTerms(s) == s \in Seq(TermSpace) /\ CanonicalTerms(s)

LEMMA TermFacts ==
  ASSUME NEW t \in TermSpace
  PROVE  t.c \in 0 .. P - 1 /\ t.m \in Monomial
BY DEF TermSpace

LEMMA WithCoefficient ==
  ASSUME NEW t \in TermSpace, NEW d \in 0 .. P - 1
  PROVE  /\ [t EXCEPT !.c = d] \in TermSpace
         /\ [t EXCEPT !.c = d].c = d /\ [t EXCEPT !.c = d].m = t.m
         /\ d = t.c => [t EXCEPT !.c = d] = t
BY DEF TermSpace

LEMMA WithMonomial ==
  ASSUME NEW t \in TermSpace, NEW m \in Monomial
  PROVE  /\ [t EXCEPT !.m = m] \in TermSpace
         /\ [t EXCEPT !.m = m].m = m /\ [t EXCEPT !.m = m].c = t.c
         /\ m = t.m => [t EXCEPT !.m = m] = t
BY DEF TermSpace

LEMMA TermAt ==
  ASSUME NEW s \in Seq(TermSpace), NEW k \in DOMAIN s
  PROVE  s[k] \in TermSpace /\ s[k].c \in 0 .. P - 1 /\ s[k].m \in Monomial
<1>1. s[k] \in TermSpace
  OBVIOUS
<1>. QED  BY <1>1, TermFacts

(* A sequence made from another, position by position. *)
LEMMA MappedSeq ==
  ASSUME NEW S, NEW s \in Seq(S), NEW f, DOMAIN f = DOMAIN s, f = [k \in DOMAIN f |-> f[k]],
         NEW T, \A k \in DOMAIN s : f[k] \in T
  PROVE  f \in Seq(T) /\ Len(f) = Len(s)
<1>1. Len(s) \in Nat /\ DOMAIN f = 1 .. Len(s)
  OBVIOUS
<1>2. f \in [1 .. Len(s) -> T]
  BY <1>1
<1>. QED  BY <1>1, <1>2

LEMMA NegatedTerms ==
  ASSUME NEW s \in Seq(TermSpace)
  PROVE  /\ Negated(s) \in Seq(TermSpace) /\ Len(Negated(s)) = Len(s)
         /\ IsTerms(s) => IsTerms(Negated(s))
<1>0. P \in Nat /\ P > 1
  BY PAssumption
<1>1. ASSUME NEW k \in DOMAIN s
      PROVE  /\ [s[k] EXCEPT !.c = (P - @) % P] \in TermSpace
             /\ [s[k] EXCEPT !.c = (P - @) % P].m = s[k].m
             /\ s[k].c # 0 => [s[k] EXCEPT !.c = (P - @) % P].c # 0
  <2>1. s[k] \in TermSpace /\ s[k].c \in 0 .. P - 1
    BY TermAt
  <2> DEFINE d == (P - s[k].c) % P
  <2>2. d \in 0 .. P - 1
    <3>1. P - s[k].c \in Int
      BY <1>0, <2>1
    <3>. QED  BY <3>1, ModFacts
  <2>3. s[k].c # 0 => d # 0
    <3>1. CASE s[k].c # 0
      <4>1. P - s[k].c \in 1 .. P - 1
        BY <1>0, <2>1, <3>1
      <4>2. d = P - s[k].c
        BY <4>1, ModSmall
      <4>. QED  BY <4>1, <4>2
    <3>. QED  BY <3>1
  <2> HIDE DEF d
  <2>4. [s[k] EXCEPT !.c = (P - @) % P] = [s[k] EXCEPT !.c = d]
    BY DEF d
  <2>6. /\ [s[k] EXCEPT !.c = d] \in TermSpace
        /\ [s[k] EXCEPT !.c = d].c = d /\ [s[k] EXCEPT !.c = d].m = s[k].m
        /\ d = s[k].c => [s[k] EXCEPT !.c = d] = s[k]
    BY <2>1, <2>2, WithCoefficient, Zenon
  <2>. QED  BY <2>1, <2>2, <2>3, <2>4, <2>6, Zenon
<1>2. /\ Negated(s) \in Seq(TermSpace) /\ Len(Negated(s)) = Len(s)
      /\ \A k \in DOMAIN s : Negated(s)[k].m = s[k].m /\ (s[k].c # 0 => Negated(s)[k].c # 0)
  <2> DEFINE f == Negated(s)
  <2>1. \A k \in DOMAIN s : f[k] = [s[k] EXCEPT !.c = (P - @) % P]
    BY DEF Negated
  <2>2. DOMAIN f = DOMAIN s /\ f = [k \in DOMAIN f |-> f[k]]
    BY DEF Negated
  <2> HIDE DEF f
  <2>3. \A k \in DOMAIN s : /\ f[k] \in TermSpace
                            /\ f[k].m = s[k].m /\ (s[k].c # 0 => f[k].c # 0)
    BY <1>1, <2>1, Zenon
  <2>4. f \in Seq(TermSpace) /\ Len(f) = Len(s)
    BY <2>2, <2>3, MappedSeq
  <2>. QED  BY <2>3, <2>4 DEF f
<1>3. ASSUME IsTerms(s) PROVE CanonicalTerms(Negated(s))
  <2> DEFINE f == Negated(s)
  <2>1. /\ Len(f) = Len(s) /\ Len(s) \in Nat /\ DOMAIN s = 1 .. Len(s) /\ DOMAIN f = 1 .. Len(f)
        /\ \A k \in 1 .. Len(s) : f[k].m = s[k].m /\ f[k].c # 0
    BY <1>2, <1>3 DEF IsTerms, CanonicalTerms
  <2> HIDE DEF f
  <2>2. \A k \in 2 .. Len(s) : k \in 1 .. Len(s) /\ k - 1 \in 1 .. Len(s) /\ Less(s[k].m, s[k - 1].m)
    BY <1>3, <2>1 DEF IsTerms, CanonicalTerms
  <2>3. CanonicalTerms(f)
    BY <2>1, <2>2 DEF CanonicalTerms
  <2>. QED  BY <2>3 DEF f
<1>. QED  BY <1>2, <1>3 DEF IsTerms

LEMMA ScaledTerms ==
  ASSUME NEW s \in Seq(TermSpace), NEW c \in 0 .. P - 1
  PROVE  /\ Scaled(c, s) \in Seq(TermSpace) /\ Len(Scaled(c, s)) = Len(s)
         /\ IsTerms(s) /\ c # 0 => IsTerms(Scaled(c, s))
         /\ c = 1 => Scaled(c, s) = s
<1>0. P \in Nat /\ P > 1
  BY PAssumption
<1>1. ASSUME NEW k \in DOMAIN s
      PROVE  /\ [s[k] EXCEPT !.c = (c * @) % P] \in TermSpace
             /\ [s[k] EXCEPT !.c = (c * @) % P].m = s[k].m
             /\ s[k].c # 0 /\ c # 0 => [s[k] EXCEPT !.c = (c * @) % P].c # 0
             /\ c = 1 => [s[k] EXCEPT !.c = (c * @) % P] = s[k]
  <2>1. s[k] \in TermSpace /\ s[k].c \in 0 .. P - 1
    BY TermAt
  <2> DEFINE d == (c * s[k].c) % P
  <2>2. d \in 0 .. P - 1
    <3>1. c * s[k].c \in Int
      BY <1>0, <2>1
    <3>. QED  BY <3>1, ModFacts
  <2>3. s[k].c # 0 /\ c # 0 => d # 0
    <3>1. CASE s[k].c # 0 /\ c # 0
      <4>1. s[k].c \in 1 .. P - 1 /\ c \in 1 .. P - 1
        BY <1>0, <2>1, <3>1
      <4>. QED  BY <4>1, NoZeroProduct
    <3>. QED  BY <3>1
  <2>5. c = 1 => d = s[k].c
    BY <1>0, <2>1, ModSmall
  <2> HIDE DEF d
  <2>4. [s[k] EXCEPT !.c = (c * @) % P] = [s[k] EXCEPT !.c = d]
    BY DEF d
  <2>6. /\ [s[k] EXCEPT !.c = d] \in TermSpace
        /\ [s[k] EXCEPT !.c = d].c = d /\ [s[k] EXCEPT !.c = d].m = s[k].m
        /\ d = s[k].c => [s[k] EXCEPT !.c = d] = s[k]
    BY <2>1, <2>2, WithCoefficient, Zenon
  <2>. QED  BY <2>1, <2>2, <2>3, <2>4, <2>5, <2>6, Zenon
<1>2. /\ Scaled(c, s) \in Seq(TermSpace) /\ Len(Scaled(c, s)) = Len(s)
      /\ \A k \in DOMAIN s : /\ Scaled(c, s)[k].m = s[k].m
                             /\ (s[k].c # 0 /\ c # 0 => Scaled(c, s)[k].c # 0)
                             /\ c = 1 => Scaled(c, s)[k] = s[k]
  <2> DEFINE f == Scaled(c, s)
  <2>1. \A k \in DOMAIN s : f[k] = [s[k] EXCEPT !.c = (c * @) % P]
    BY DEF Scaled
  <2>2. DOMAIN f = DOMAIN s /\ f = [k \in DOMAIN f |-> f[k]]
    BY DEF Scaled
  <2> HIDE DEF f
  <2>3. \A k \in DOMAIN s : /\ f[k] \in TermSpace
                            /\ f[k].m = s[k].m /\ (s[k].c # 0 /\ c # 0 => f[k].c # 0)
                            /\ c = 1 => f[k] = s[k]
    BY <1>1, <2>1, Zenon
  <2>4. f \in Seq(TermSpace) /\ Len(f) = Len(s)
    BY <2>2, <2>3, MappedSeq
  <2>. QED  BY <2>3, <2>4 DEF f
<1>3. ASSUME IsTerms(s), c # 0 PROVE CanonicalTerms(Scaled(c, s))
  <2> DEFINE f == Scaled(c, s)
  <2>1. /\ Len(f) = Len(s) /\ Len(s) \in Nat /\ DOMAIN s = 1 .. Len(s) /\ DOMAIN f = 1 .. Len(f)
        /\ \A k \in 1 .. Len(s) : f[k].m = s[k].m /\ f[k].c # 0
    BY <1>2, <1>3 DEF IsTerms, CanonicalTerms
  <2> HIDE DEF f
  <2>2. \A k \in 2 .. Len(s) : k \in 1 .. Len(s) /\ k - 1 \in 1 .. Len(s) /\ Less(s[k].m, s[k - 1].m)
    BY <1>3, <2>1 DEF IsTerms, CanonicalTerms
  <2>3. CanonicalTerms(f)
    BY <2>1, <2>2 DEF CanonicalTerms
  <2>. QED  BY <2>3 DEF f
<1>4. ASSUME c = 1 PROVE Scaled(c, s) = s
  BY <1>2, <1>4, SameSeq
<1>. QED  BY <1>2, <1>3, <1>4 DEF IsTerms

LEMMA ShiftedTerms ==
  ASSUME NEW s \in Seq(TermSpace), NEW m \in Monomial
  PROVE  /\ Shifted(m, s) \in Seq(TermSpace) /\ Len(Shifted(m, s)) = Len(s)
         /\ IsTerms(s) => IsTerms(Shifted(m, s))
         /\ m = One => Shifted(m, s) = s
<1>1. ASSUME NEW k \in DOMAIN s
      PROVE  /\ [s[k] EXCEPT !.m = Mul(m, @)] \in TermSpace
             /\ [s[k] EXCEPT !.m = Mul(m, @)].m = Mul(m, s[k].m)
             /\ [s[k] EXCEPT !.m = Mul(m, @)].c = s[k].c
             /\ m = One => [s[k] EXCEPT !.m = Mul(m, @)] = s[k]
  <2>1. s[k] \in TermSpace /\ s[k].m \in Monomial
    BY TermAt
  <2> DEFINE w == Mul(m, s[k].m)
  <2>2. w \in Monomial /\ (m = One => w = s[k].m)
    BY <2>1, DegMul, MulOne
  <2> HIDE DEF w
  <2>3. [s[k] EXCEPT !.m = Mul(m, @)] = [s[k] EXCEPT !.m = w] /\ w = Mul(m, s[k].m)
    BY DEF w
  <2>4. /\ [s[k] EXCEPT !.m = w] \in TermSpace
        /\ [s[k] EXCEPT !.m = w].m = w /\ [s[k] EXCEPT !.m = w].c = s[k].c
        /\ w = s[k].m => [s[k] EXCEPT !.m = w] = s[k]
    BY <2>1, <2>2, WithMonomial, Zenon
  <2>. QED  BY <2>2, <2>3, <2>4, Zenon
<1>2. /\ Shifted(m, s) \in Seq(TermSpace) /\ Len(Shifted(m, s)) = Len(s)
      /\ \A k \in DOMAIN s : /\ Shifted(m, s)[k].m = Mul(m, s[k].m)
                             /\ Shifted(m, s)[k].c = s[k].c
                             /\ m = One => Shifted(m, s)[k] = s[k]
  <2> DEFINE f == Shifted(m, s)
  <2>1. \A k \in DOMAIN s : f[k] = [s[k] EXCEPT !.m = Mul(m, @)]
    BY DEF Shifted
  <2>2. DOMAIN f = DOMAIN s /\ f = [k \in DOMAIN f |-> f[k]]
    BY DEF Shifted
  <2> HIDE DEF f
  <2>3. \A k \in DOMAIN s : /\ f[k] \in TermSpace
                            /\ f[k].m = Mul(m, s[k].m) /\ f[k].c = s[k].c
                            /\ m = One => f[k] = s[k]
    BY <1>1, <2>1, Zenon
  <2>4. f \in Seq(TermSpace) /\ Len(f) = Len(s)
    BY <2>2, <2>3, MappedSeq
  <2>. QED  BY <2>3, <2>4 DEF f
<1>3. ASSUME IsTerms(s) PROVE CanonicalTerms(Shifted(m, s))
  <2>1. ASSUME NEW k \in 2 .. Len(s)
        PROVE  Less(Mul(m, s[k].m), Mul(m, s[k - 1].m))
    <3>1. Less(s[k].m, s[k - 1].m)
      BY <1>3 DEF IsTerms, CanonicalTerms
    <3>2. s[k].m \in Monomial /\ s[k - 1].m \in Monomial
      <4>1. s[k] \in TermSpace /\ s[k - 1] \in TermSpace
        OBVIOUS
      <4>. QED  BY <4>1 DEF TermSpace
    <3>. QED  BY <3>1, <3>2, LessMul
  <2> DEFINE f == Shifted(m, s)
  <2>2. /\ Len(f) = Len(s) /\ Len(s) \in Nat /\ DOMAIN s = 1 .. Len(s) /\ DOMAIN f = 1 .. Len(f)
        /\ \A k \in 1 .. Len(s) : f[k].m = Mul(m, s[k].m) /\ f[k].c # 0
    BY <1>2, <1>3 DEF IsTerms, CanonicalTerms
  <2> HIDE DEF f
  <2>3. \A k \in 2 .. Len(s) : k \in 1 .. Len(s) /\ k - 1 \in 1 .. Len(s)
    BY <2>2
  <2>4. CanonicalTerms(f)
    BY <2>1, <2>2, <2>3 DEF CanonicalTerms
  <2>. QED  BY <2>4 DEF f
<1>4. ASSUME m = One PROVE Shifted(m, s) = s
  BY <1>2, <1>4, SameSeq
<1>. QED  BY <1>2, <1>3, <1>4 DEF IsTerms

LEMMA TailTerms ==
  ASSUME NEW s, IsTerms(s), s # << >>
  PROVE  IsTerms(Tail(s)) /\ Len(Tail(s)) = Len(s) - 1
<1>1. s \in Seq(TermSpace) /\ Len(s) \in Nat \ {0}
  BY DEF IsTerms
<1>2. Tail(s) \in Seq(TermSpace) /\ Len(Tail(s)) = Len(s) - 1
      /\ \A k \in 1 .. Len(Tail(s)) : k + 1 \in 2 .. Len(s) /\ Tail(s)[k] = s[k + 1]
  BY <1>1
<1>3. ASSUME NEW k \in 2 .. Len(Tail(s)) PROVE Less(Tail(s)[k].m, Tail(s)[k - 1].m)
  <2>1. k + 1 \in 2 .. Len(s) /\ (k + 1) - 1 = (k - 1) + 1 /\ k - 1 \in 1 .. Len(Tail(s))
    BY <1>1, <1>2
  <2>2. Less(s[k + 1].m, s[(k + 1) - 1].m)
    BY <2>1 DEF IsTerms, CanonicalTerms
  <2>. QED  BY <1>2, <2>1, <2>2
<1>. QED  BY <1>2, <1>3, <1>1 DEF IsTerms, CanonicalTerms

(* Earlier terms are larger. *)
LEMMA TermsDescend ==
  ASSUME NEW s, IsTerms(s)
  PROVE  \A k, l \in 1 .. Len(s) : k < l => Less(s[l].m, s[k].m)
<1>1. s \in Seq(TermSpace) /\ Len(s) \in Nat
  BY DEF IsTerms
<1>2. \A k \in 1 .. Len(s) : s[k].m \in Monomial
  BY <1>1, TermAt
<1>3. SUFFICES ASSUME NEW k \in 1 .. Len(s) PROVE \A l \in 1 .. Len(s) : k < l => Less(s[l].m, s[k].m)
  OBVIOUS
<1> DEFINE S == {n \in Nat : k + n + 1 \in 1 .. Len(s) => Less(s[k + n + 1].m, s[k].m)}
<1>4. 0 \in S
  <2>1. ASSUME k + 0 + 1 \in 1 .. Len(s) PROVE Less(s[k + 0 + 1].m, s[k].m)
    <3>1. k + 1 \in 2 .. Len(s) /\ (k + 1) - 1 = k /\ k + 0 + 1 = k + 1
      BY <1>1, <2>1
    <3>2. Less(s[k + 1].m, s[(k + 1) - 1].m)
      BY <3>1 DEF IsTerms, CanonicalTerms
    <3>. QED  BY <3>1, <3>2
  <2>. QED  BY <2>1
<1>5. ASSUME NEW n \in 1 .. Len(s), n - 1 \in S PROVE n \in S
  <2>1. ASSUME k + n + 1 \in 1 .. Len(s) PROVE Less(s[k + n + 1].m, s[k].m)
    <3>1. /\ k + n + 1 \in 2 .. Len(s) /\ (k + n + 1) - 1 = k + n /\ k + (n - 1) + 1 = k + n
          /\ k + n \in 1 .. Len(s)
      BY <1>1, <2>1
    <3>2. Less(s[k + n + 1].m, s[(k + n + 1) - 1].m)
      BY <3>1 DEF IsTerms, CanonicalTerms
    <3>3. Less(s[k + n].m, s[k].m)
      BY <1>5, <3>1
    <3>4. Less(s[k + n + 1].m, s[k + n].m)
      BY <3>1, <3>2
    <3>. QED  BY <1>2, <2>1, <3>1, <3>3, <3>4, LessTransitive
  <2>. QED  BY <2>1
<1>6. \A n \in 0 .. Len(s) : n \in S
  <2> HIDE DEF S
  <2>. QED  BY <1>1, <1>4, <1>5, InductionUpTo
<1>7. ASSUME NEW l \in 1 .. Len(s), k < l PROVE Less(s[l].m, s[k].m)
  <2>1. l - k - 1 \in 0 .. Len(s) /\ k + (l - k - 1) + 1 = l
    BY <1>1, <1>7
  <2>. QED  BY <1>6, <2>1
<1>. QED  BY <1>7

-----------------------------------------------------------------------------
(* Recursive functions over an interval.                                   *)

RunsBy(N, S, base, step, f) ==
  /\ f \in [0 .. N -> S] /\ f[0] = base
  /\ \A n \in 1 .. N : f[n] = step[n][f[n - 1]]

Steps(N, S, step) == \A n \in 1 .. N : \A s \in S : step[n][s] \in S

LEMMA RunExists ==
  ASSUME NEW N \in Nat, NEW S, NEW base \in S, NEW step, Steps(N, S, step)
  PROVE  \E f : RunsBy(N, S, base, step, f)
<1>0. \A n \in 1 .. N : \A s \in S : step[n][s] \in S
  BY DEF Steps
<1> DEFINE Runs(k) == {f \in [0 .. k -> S] : f[0] = base /\ \A n \in 1 .. k : f[n] = step[n][f[n - 1]]}
           T == {k \in 0 .. N : Runs(k) # {}}
<1>1. 0 \in T
  <2> DEFINE g == [n \in 0 .. 0 |-> base]
  <2>1. g \in Runs(0)
    OBVIOUS
  <2>. QED  BY <2>1
<1>2. ASSUME NEW k \in 1 .. N, k - 1 \in T PROVE k \in T
  <2>1. PICK f \in [0 .. k - 1 -> S] : f[0] = base /\ \A n \in 1 .. k - 1 : f[n] = step[n][f[n - 1]]
    BY <1>2
  <2>2. k - 1 \in 0 .. k - 1 /\ 0 \in 0 .. k - 1 /\ k \in 1 .. N
    OBVIOUS
  <2> DEFINE e == step[k][f[k - 1]]
             g == [n \in 0 .. k |-> IF n = k THEN e ELSE f[n]]
  <2>3. e \in S
    BY <1>0, <2>1, <2>2
  <2>4. \A n \in 0 .. k : n = k \/ n \in 0 .. k - 1
    OBVIOUS
  <2> HIDE DEF e
  <2>5. g \in [0 .. k -> S]
    BY <2>1, <2>3, <2>4
  <2>6. g[0] = base
    BY <2>1, <2>2
  <2>7. ASSUME NEW n \in 1 .. k PROVE g[n] = step[n][g[n - 1]]
    <3>1. g[n - 1] = f[n - 1]
      OBVIOUS
    <3>2. CASE n = k
      BY <3>1, <3>2 DEF e
    <3>3. CASE n # k
      <4>1. n \in 1 .. k - 1 /\ g[n] = f[n]
        BY <3>3
      <4>. QED  BY <2>1, <3>1, <4>1
    <3>. QED  BY <3>2, <3>3
  <2> HIDE DEF g
  <2>8. g \in Runs(k)
    BY <2>5, <2>6, <2>7
  <2>. QED  BY <2>8
<1>3. \A k \in 0 .. N : k \in T
  <2> HIDE DEF T
  <2>. QED  BY <1>1, <1>2, InductionUpTo
<1>4. N \in T
  <2>1. N \in 0 .. N
    OBVIOUS
  <2> HIDE DEF T
  <2>. QED  BY <1>3, <2>1
<1>. QED  BY <1>4 DEF RunsBy

-----------------------------------------------------------------------------
(* What is left of a sequence.                                             *)

(* What is left of s from position i on. *)
RestOf(s, i) == SubSeq(s, i, Len(s))

LEMMA RestOfFacts ==
  ASSUME NEW S, NEW s \in Seq(S), NEW i \in 1 .. Len(s) + 1
  PROVE  /\ RestOf(s, i) \in Seq(S) /\ Len(RestOf(s, i)) = Len(s) + 1 - i
         /\ \A k \in 1 .. Len(s) + 1 - i : RestOf(s, i)[k] = s[i + k - 1]
         /\ RestOf(s, i) = << >> <=> i = Len(s) + 1
<1>1. Len(s) \in Nat
  OBVIOUS
<1>2. RestOf(s, i) \in Seq(S) /\ Len(RestOf(s, i)) = Len(s) + 1 - i
  BY <1>1 DEF RestOf
<1>3. \A k \in 1 .. Len(s) + 1 - i : RestOf(s, i)[k] = s[i + k - 1]
  BY <1>1 DEF RestOf
<1>. QED  BY <1>1, <1>2, <1>3

LEMMA RestAll ==
  ASSUME NEW S, NEW s \in Seq(S)
  PROVE  RestOf(s, 1) = s /\ RestOf(s, Len(s) + 1) = << >>
<1>1. Len(s) \in Nat /\ 1 \in 1 .. Len(s) + 1 /\ Len(s) + 1 \in 1 .. Len(s) + 1
  OBVIOUS
<1>2. /\ RestOf(s, 1) \in Seq(S) /\ Len(RestOf(s, 1)) = Len(s)
      /\ \A k \in 1 .. Len(s) : RestOf(s, 1)[k] = s[k]
  BY <1>1, RestOfFacts
<1>3. RestOf(s, 1) = s
  BY <1>2, SameSeq
<1>4. RestOf(s, Len(s) + 1) = << >>
  BY <1>1, RestOfFacts
<1>. QED  BY <1>3, <1>4

LEMMA RestStep ==
  ASSUME NEW S, NEW s \in Seq(S), NEW i \in 1 .. Len(s)
  PROVE  /\ RestOf(s, i) # << >> /\ RestOf(s, i)[1] = s[i]
         /\ i + 1 \in 1 .. Len(s) + 1
         /\ Tail(RestOf(s, i)) = RestOf(s, i + 1)
<1>1. Len(s) \in Nat /\ i \in 1 .. Len(s) + 1 /\ i + 1 \in 1 .. Len(s) + 1 /\ i # Len(s) + 1
  OBVIOUS
<1> DEFINE w == RestOf(s, i)
           v == RestOf(s, i + 1)
<1>2. /\ w \in Seq(S) /\ Len(w) = Len(s) + 1 - i /\ w # << >>
      /\ \A k \in 1 .. Len(s) + 1 - i : w[k] = s[i + k - 1]
  BY <1>1, RestOfFacts
<1>3. /\ v \in Seq(S) /\ Len(v) = Len(s) + 1 - (i + 1)
      /\ \A k \in 1 .. Len(s) + 1 - (i + 1) : v[k] = s[(i + 1) + k - 1]
  BY <1>1, RestOfFacts
<1> HIDE DEF w, v
<1>4. w[1] = s[i]
  <2>1. 1 \in 1 .. Len(s) + 1 - i /\ i + 1 - 1 = i
    BY <1>1
  <2>. QED  BY <1>2, <2>1
<1>5. Tail(w) \in Seq(S) /\ Len(Tail(w)) = Len(v) /\ \A k \in 1 .. Len(Tail(w)) : Tail(w)[k] = w[k + 1]
  BY <1>1, <1>2, <1>3
<1>6. \A k \in 1 .. Len(Tail(w)) : Tail(w)[k] = v[k]
  <2>1. SUFFICES ASSUME NEW k \in 1 .. Len(Tail(w)) PROVE Tail(w)[k] = v[k]
    OBVIOUS
  <2>2. k + 1 \in 1 .. Len(s) + 1 - i /\ i + (k + 1) - 1 = (i + 1) + k - 1 /\ k \in 1 .. Len(s) + 1 - (i + 1)
    BY <1>1, <1>3, <1>5, <2>1
  <2>. QED  BY <1>2, <1>3, <1>5, <2>2
<1>7. Tail(w) = v
  BY <1>3, <1>5, <1>6, SameSeq
<1>. QED  BY <1>1, <1>2, <1>4, <1>7 DEF w, v

(* Taking the first term of w over to o. *)
LEMMA AppendHead ==
  ASSUME NEW S, NEW w \in Seq(S), w # << >>, NEW o \in Seq(S)
  PROVE  /\ Append(o, w[1]) \o Tail(w) = o \o w
         /\ w[1] \in S /\ Tail(w) \in Seq(S) /\ Append(o, w[1]) \in Seq(S)
         /\ Len(Tail(w)) = Len(w) - 1
<1>1. w[1] \in S /\ Tail(w) \in Seq(S) /\ Len(w) \in Nat /\ Len(w) > 0
  OBVIOUS
<1> DEFINE a == Append(o, w[1]) \o Tail(w)
           b == o \o w
<1>2. a \in Seq(S) /\ b \in Seq(S) /\ Len(a) = Len(b)
  BY <1>1
<1>3. \A k \in 1 .. Len(a) : a[k] = b[k]
  <2>1. SUFFICES ASSUME NEW k \in 1 .. Len(a) PROVE a[k] = b[k]
    OBVIOUS
  <2>2. Len(o) \in Nat /\ Len(Append(o, w[1])) = Len(o) + 1 /\ Len(a) = Len(o) + Len(w)
    BY <1>1
  <2>3. CASE k <= Len(o)
    BY <1>1, <2>2, <2>3
  <2>4. CASE k = Len(o) + 1
    BY <1>1, <2>2, <2>4
  <2>5. CASE k > Len(o) + 1
    <3>1. a[k] = Tail(w)[k - (Len(o) + 1)]
      BY <1>1, <2>2, <2>5
    <3>2. Tail(w)[k - (Len(o) + 1)] = w[(k - (Len(o) + 1)) + 1] /\ (k - (Len(o) + 1)) + 1 = k - Len(o)
      BY <1>1, <2>2, <2>5
    <3>3. b[k] = w[k - Len(o)]
      BY <1>1, <2>2, <2>5
    <3>. QED  BY <3>1, <3>2, <3>3
  <2>6. k <= Len(o) \/ k = Len(o) + 1 \/ k > Len(o) + 1
    <3>1. k \in Nat /\ Len(o) \in Nat
      BY <1>2
    <3>. QED  BY <3>1
  <2> HIDE DEF a, b
  <2>. QED  BY <2>6, <2>3, <2>4, <2>5, Zenon
<1> HIDE DEF a, b
<1>4. a = b
  BY <1>2, <1>3, SameSeq
<1>. QED  BY <1>1, <1>4 DEF a, b

(* The terms still to come are below those of the output. *)
EndsAbove(o, l) == o # << >> /\ l # << >> => Less(l[1].m, o[Len(o)].m)

Descends(o, l, r) == IsTerms(o) /\ IsTerms(l) /\ IsTerms(r) /\ EndsAbove(o, l) /\ EndsAbove(o, r)

LEMMA AppendTerms ==
  ASSUME NEW s, IsTerms(s), NEW t \in TermSpace, t.c # 0, s # << >> => Less(t.m, s[Len(s)].m)
  PROVE  /\ IsTerms(Append(s, t)) /\ Append(s, t) # << >>
         /\ Append(s, t)[Len(Append(s, t))] = t
<1> DEFINE w == Append(s, t)
<1>1. s \in Seq(TermSpace) /\ Len(s) \in Nat
  BY DEF IsTerms
<1>2. /\ w \in Seq(TermSpace) /\ Len(w) = Len(s) + 1 /\ w[Len(s) + 1] = t /\ w # << >>
      /\ \A k \in 1 .. Len(s) : w[k] = s[k]
  <2>1. w \in Seq(TermSpace) /\ Len(w) = Len(s) + 1 /\ w[Len(s) + 1] = t
    BY <1>1
  <2>2. \A k \in 1 .. Len(s) : w[k] = s[k]
    BY <1>1
  <2>3. w # << >>
    BY <1>1, <2>1
  <2>. QED  BY <2>1, <2>2, <2>3
<1>3. (\A k \in 1 .. Len(s) : s[k].c # 0) /\ (\A k \in 2 .. Len(s) : Less(s[k].m, s[k - 1].m))
  BY <1>1 DEF IsTerms, CanonicalTerms
<1> HIDE DEF w
<1>4. \A k \in DOMAIN w : w[k].c # 0
  <2>1. \A k \in DOMAIN w : k \in 1 .. Len(s) \/ k = Len(s) + 1
    BY <1>1, <1>2
  <2>. QED  BY <1>2, <1>3, <2>1
<1>5. ASSUME NEW k \in 2 .. Len(w) PROVE Less(w[k].m, w[k - 1].m)
  <2>1. CASE k = Len(s) + 1
    <3>1. k - 1 = Len(s) /\ Len(s) \in 1 .. Len(s) /\ s # << >>
      BY <1>1, <2>1
    <3>. QED  BY <1>2, <2>1, <3>1
  <2>2. CASE k # Len(s) + 1
    <3>1. k \in 2 .. Len(s) /\ k - 1 \in 1 .. Len(s) /\ k \in 1 .. Len(s)
      BY <1>1, <1>2, <2>2
    <3>. QED  BY <1>2, <1>3, <3>1
  <2>. QED  BY <2>1, <2>2
<1>6. IsTerms(w)
  BY <1>2, <1>4, <1>5 DEF IsTerms, CanonicalTerms
<1>. QED  BY <1>2, <1>6 DEF w

LEMMA HeadTail ==
  ASSUME NEW l, IsTerms(l), l # << >>
  PROVE  /\ l[1] \in TermSpace /\ l[1].c # 0 /\ l[1].m \in Monomial
         /\ IsTerms(Tail(l)) /\ (Tail(l) # << >> => Less(Tail(l)[1].m, l[1].m))
<1>1. l \in Seq(TermSpace) /\ Len(l) \in Nat /\ Len(l) > 0 /\ 1 \in DOMAIN l
  BY DEF IsTerms
<1>2. l[1] \in TermSpace /\ l[1].m \in Monomial
  BY <1>1, TermAt
<1>3. l[1].c # 0
  BY <1>1 DEF IsTerms, CanonicalTerms
<1>4. ASSUME Tail(l) # << >> PROVE Less(Tail(l)[1].m, l[1].m)
  <2>1. Len(l) >= 2 /\ Tail(l)[1] = l[2] /\ 2 \in 2 .. Len(l) /\ 2 - 1 = 1
    BY <1>1, <1>4
  <2>2. Less(l[2].m, l[2 - 1].m)
    BY <2>1 DEF IsTerms, CanonicalTerms
  <2>. QED  BY <2>1, <2>2
<1>. QED  BY <1>2, <1>3, <1>4, TailTerms

LEMMA AboveTail ==
  ASSUME NEW o, IsTerms(o), NEW l, IsTerms(l), l # << >>, EndsAbove(o, l)
  PROVE  EndsAbove(o, Tail(l))
<1>1. SUFFICES ASSUME o # << >>, Tail(l) # << >> PROVE Less(Tail(l)[1].m, o[Len(o)].m)
  BY DEF EndsAbove
<1>2. Less(Tail(l)[1].m, l[1].m) /\ Less(l[1].m, o[Len(o)].m) /\ l[1].m \in Monomial /\ IsTerms(Tail(l))
  BY <1>1, HeadTail DEF EndsAbove
<1>3. Tail(l)[1].m \in Monomial
  BY <1>1, <1>2, HeadTail
<1>4. o[Len(o)].m \in Monomial
  <2>1. o \in Seq(TermSpace) /\ Len(o) \in DOMAIN o
    BY <1>1 DEF IsTerms
  <2>. QED  BY <2>1, TermAt
<1>. QED  BY <1>2, <1>3, <1>4, LessTransitive

LEMMA OrderedTake ==
  ASSUME NEW o, NEW l, NEW r, Descends(o, l, r), l # << >>, NEW t \in TermSpace, t.c # 0, t.m = l[1].m,
         r # << >> => Less(r[1].m, l[1].m)
  PROVE  Descends(Append(o, t), Tail(l), r)
<1>1. IsTerms(o) /\ IsTerms(l) /\ IsTerms(r) /\ EndsAbove(o, l) /\ EndsAbove(o, r)
  BY DEF Descends
<1>2. /\ IsTerms(Append(o, t)) /\ Append(o, t)[Len(Append(o, t))] = t
  BY <1>1, AppendTerms DEF EndsAbove
<1>3. IsTerms(Tail(l)) /\ (Tail(l) # << >> => Less(Tail(l)[1].m, l[1].m))
  BY <1>1, HeadTail
<1>4. EndsAbove(Append(o, t), Tail(l)) /\ EndsAbove(Append(o, t), r)
  BY <1>2, <1>3 DEF EndsAbove
<1>. QED  BY <1>1, <1>2, <1>3, <1>4 DEF Descends

LEMMA OrderedSwap ==
  ASSUME NEW o, NEW l, NEW r, Descends(o, l, r)
  PROVE  Descends(o, r, l)
BY DEF Descends

-----------------------------------------------------------------------------
(* from_terms and mul.                                                     *)

(* Where the terms ahead of position k are. *)
Ahead(ts, k) == {l \in DOMAIN ts : \/ Less(ts[k].m, ts[l].m)
                                   \/ ts[l].m = ts[k].m /\ l < k}

LEMMA AheadRanks ==
  ASSUME NEW ts \in Seq(TermSpace)
  PROVE  /\ \A n \in 1 .. Len(ts) : \E k \in DOMAIN ts : Cardinality(Ahead(ts, k)) = n - 1
         /\ \A k, l \in DOMAIN ts : Less(ts[k].m, ts[l].m) => Cardinality(Ahead(ts, l)) < Cardinality(Ahead(ts, k))
<1> DEFINE D == DOMAIN ts
           f == [k \in D |-> Ahead(ts, k)]
<1>1. Len(ts) \in Nat /\ D = 1 .. Len(ts)
  OBVIOUS
<1>2. IsFiniteSet(D) /\ Cardinality(D) = Len(ts)
  BY <1>1, UpToFacts
<1>3. \A k \in D : ts[k].m \in Monomial /\ k \in Nat
  BY <1>1, TermAt
<1>4. \A k \in D : f[k] = Ahead(ts, k) /\ f[k] \subseteq D
  BY DEF Ahead
<1>5. ASSUME NEW k \in D PROVE k \notin f[k]
  <2>1. ~Less(ts[k].m, ts[k].m) /\ ~(k < k)
    BY <1>3, LessIrreflexive
  <2>. QED  BY <1>4, <2>1 DEF Ahead
<1>6. ASSUME NEW k \in D, NEW l \in D PROVE k = l \/ k \in f[l] \/ l \in f[k]
  <2>1. ts[k].m = ts[l].m \/ Less(ts[k].m, ts[l].m) \/ Less(ts[l].m, ts[k].m)
    BY <1>3, LessTotal
  <2>2. k = l \/ k < l \/ l < k
    BY <1>3
  <2>. QED  BY <1>4, <2>1, <2>2 DEF Ahead
<1>7. ASSUME NEW k \in D, NEW l \in D, l \in f[k] PROVE f[l] \subseteq f[k]
  <2>1. SUFFICES ASSUME NEW p \in D, p \in f[l] PROVE p \in f[k]
    BY <1>4
  <2>2. Less(ts[k].m, ts[l].m) \/ (ts[l].m = ts[k].m /\ l < k)
    BY <1>4, <1>7 DEF Ahead
  <2>3. Less(ts[l].m, ts[p].m) \/ (ts[p].m = ts[l].m /\ p < l)
    BY <1>4, <2>1 DEF Ahead
  <2>4. Less(ts[k].m, ts[p].m) \/ (ts[p].m = ts[k].m /\ p < k)
    <3>1. ts[k].m \in Monomial /\ ts[l].m \in Monomial /\ ts[p].m \in Monomial /\ k \in Nat /\ l \in Nat /\ p \in Nat
      BY <1>3
    <3>2. CASE Less(ts[k].m, ts[l].m) /\ Less(ts[l].m, ts[p].m)
      BY <3>1, <3>2, LessTransitive
    <3>3. CASE ts[p].m = ts[l].m /\ p < l
      BY <2>2, <3>1, <3>3
    <3>4. CASE ts[l].m = ts[k].m /\ l < k
      BY <2>3, <3>1, <3>4
    <3>. QED  BY <2>2, <2>3, <3>2, <3>3, <3>4
  <2>. QED  BY <1>4, <2>4 DEF Ahead
<1> HIDE DEF f
<1>8. /\ \A n \in 1 .. Cardinality(D) : \E k \in D : Cardinality(f[k]) = n - 1
      /\ \A k, l \in D : Cardinality(f[k]) = Cardinality(f[l]) => k = l
      /\ \A k \in D : Cardinality(f[k]) \in 0 .. Cardinality(D) - 1
  <2>1. /\ \A k \in D : f[k] \subseteq D /\ k \notin f[k]
        /\ \A k, l \in D : k = l \/ k \in f[l] \/ l \in f[k]
        /\ \A k, l \in D : l \in f[k] => f[l] \subseteq f[k]
    BY <1>4, <1>5, <1>6, <1>7
  <2> HIDE DEF D
  <2>. QED  BY <1>2, <2>1, RankExists, Zenon
<1>9. ASSUME NEW k \in D, NEW l \in D, Less(ts[k].m, ts[l].m)
      PROVE  Cardinality(f[l]) < Cardinality(f[k])
  <2>1. l \in f[k]
    BY <1>4, <1>9 DEF Ahead
  <2>2. f[l] \subseteq f[k] /\ l \notin f[l]
    BY <1>5, <1>7, <2>1
  <2>3. IsFiniteSet(f[k])
    BY <1>2, <1>4, FS_Subset
  <2>4. Cardinality(f[l]) <= Cardinality(f[k]) /\ f[l] # f[k]
    BY <2>1, <2>2, <2>3, FS_Subset
  <2>5. Cardinality(f[l]) # Cardinality(f[k])
    BY <1>8, <2>4
  <2>6. Cardinality(f[l]) \in Nat /\ Cardinality(f[k]) \in Nat
    BY <1>8, <1>2, <1>1
  <2>. QED  BY <2>4, <2>5, <2>6
<1>. QED  BY <1>1, <1>2, <1>4, <1>8, <1>9

LEMMA SortedFacts ==
  ASSUME NEW ts \in Seq(TermSpace)
  PROVE  /\ Sorted(ts) \in Seq(TermSpace) /\ Len(Sorted(ts)) = Len(ts)
         /\ \A k, l \in 1 .. Len(ts) : k < l => ~Less(Sorted(ts)[k].m, Sorted(ts)[l].m)
<1> DEFINE g == [n \in 1 .. Len(ts) |-> CHOOSE k \in DOMAIN ts : Cardinality(Ahead(ts, k)) = n - 1]
           w == Sorted(ts)
<1>1. Len(ts) \in Nat /\ DOMAIN ts = 1 .. Len(ts)
  OBVIOUS
<1>2. \A n \in 1 .. Len(ts) : g[n] \in DOMAIN ts /\ Cardinality(Ahead(ts, g[n])) = n - 1
  <2>1. SUFFICES ASSUME NEW n \in 1 .. Len(ts)
                 PROVE  g[n] \in DOMAIN ts /\ Cardinality(Ahead(ts, g[n])) = n - 1
    OBVIOUS
  <2>2. \E k \in DOMAIN ts : Cardinality(Ahead(ts, k)) = n - 1
    BY AheadRanks
  <2>3. g[n] = CHOOSE k \in DOMAIN ts : Cardinality(Ahead(ts, k)) = n - 1
    OBVIOUS
  <2> HIDE DEF g
  <2>. QED  BY <2>2, <2>3
<1>3. w = [n \in DOMAIN ts |-> ts[CHOOSE k \in DOMAIN ts : Cardinality(Ahead(ts, k)) = n - 1]]
  BY DEF Sorted, Ahead
<1>4. DOMAIN w = DOMAIN ts /\ w = [n \in DOMAIN w |-> w[n]] /\ \A n \in DOMAIN ts : w[n] = ts[g[n]]
  BY <1>1, <1>3
<1> HIDE DEF w, g
<1>5. \A n \in DOMAIN ts : w[n] \in TermSpace
  BY <1>1, <1>2, <1>4
<1>6. w \in Seq(TermSpace) /\ Len(w) = Len(ts)
  BY <1>4, <1>5, MappedSeq
<1>7. ASSUME NEW k \in 1 .. Len(ts), NEW l \in 1 .. Len(ts), k < l, Less(w[k].m, w[l].m) PROVE FALSE
  <2>1. Less(ts[g[k]].m, ts[g[l]].m)
    BY <1>1, <1>4, <1>7
  <2>2. Cardinality(Ahead(ts, g[l])) < Cardinality(Ahead(ts, g[k]))
    BY <1>2, <2>1, AheadRanks
  <2>3. l - 1 < k - 1
    BY <1>2, <2>2
  <2>. QED  BY <1>1, <1>7, <2>3
<1>. QED  BY <1>6, <1>7 DEF w

LEMMA FrontTerms ==
  ASSUME NEW s, IsTerms(s), s # << >>
  PROVE  /\ IsTerms(Front(s)) /\ Last(s) \in TermSpace /\ s[Len(s)] = Last(s)
         /\ Front(s) # << >> => Less(Last(s).m, Front(s)[Len(Front(s))].m)
<1> DEFINE w == Front(s)
<1>1. s \in Seq(TermSpace) /\ Len(s) \in Nat /\ Len(s) > 0
  BY DEF IsTerms
<1>2. w \in Seq(TermSpace) /\ Len(w) = Len(s) - 1 /\ \A k \in 1 .. Len(s) - 1 : w[k] = s[k]
  <2>1. Len(s) - 1 \in Nat /\ Len(s) - 1 <= Len(s) /\ w = SubSeq(s, 1, Len(s) - 1)
    BY <1>1 DEF Front
  <2>2. w \in Seq(TermSpace) /\ Len(w) = Len(s) - 1
    <3> DEFINE n == Len(s) - 1
    <3>1. n \in Nat /\ n <= Len(s) /\ w = SubSeq(s, 1, n)
      BY <2>1
    <3> HIDE DEF n, w
    <3>2. Len(SubSeq(s, 1, n)) = n
      BY ONLY <1>1, <3>1
    <3>3. \A k \in 1 .. n : SubSeq(s, 1, n)[k] = s[k] /\ s[k] \in TermSpace
      BY ONLY <1>1, <3>1
    <3>4. SubSeq(s, 1, n) \in Seq(TermSpace)
      BY ONLY <1>1, <3>1
    <3>. QED  BY <3>1, <3>2, <3>4 DEF n
  <2>3. \A k \in 1 .. Len(s) - 1 : w[k] = s[k]
    BY <1>1, <2>1
  <2>. QED  BY <2>2, <2>3
<1>3. (\A k \in 1 .. Len(s) : s[k].c # 0) /\ (\A k \in 2 .. Len(s) : Less(s[k].m, s[k - 1].m))
  BY <1>1 DEF IsTerms, CanonicalTerms
<1> HIDE DEF w
<1>4. IsTerms(w)
  <2>1. \A k \in DOMAIN w : k \in 1 .. Len(s) /\ w[k] = s[k]
    BY <1>1, <1>2
  <2>2. \A k \in 2 .. Len(w) : k \in 2 .. Len(s) /\ w[k] = s[k] /\ w[k - 1] = s[k - 1]
    BY <1>1, <1>2
  <2>. QED  BY <1>2, <1>3, <2>1, <2>2 DEF IsTerms, CanonicalTerms
<1>5. ASSUME w # << >> PROVE Less(s[Len(s)].m, w[Len(w)].m)
  <2>1. Len(s) \in 2 .. Len(s) /\ Len(w) = Len(s) - 1 /\ w[Len(w)] = s[Len(s) - 1]
    BY <1>1, <1>2, <1>5
  <2>. QED  BY <1>3, <2>1
<1>. QED  BY <1>1, <1>4, <1>5 DEF w, Last

(* One turn of the loop of from_terms. *)
KeptStep(t, so) ==
  IF t.c = 0 THEN so
  ELSE IF so = << >> \/ so[Len(so)].m # t.m THEN Append(so, t)
  ELSE IF (t.c + Last(so).c) % P = 0 THEN Front(so)
  ELSE Append(Front(so), [t EXCEPT !.c = (@ + Last(so).c) % P])

NotBelow(so, m) == so # << >> => ~Less(so[Len(so)].m, m)

LEMMA KeptTerms ==
  ASSUME NEW so, IsTerms(so), NEW t \in TermSpace, NotBelow(so, t.m)
  PROVE  IsTerms(KeptStep(t, so)) /\ NotBelow(KeptStep(t, so), t.m)
<1>1. t.m \in Monomial /\ t.c \in 0 .. P - 1 /\ ~Less(t.m, t.m) /\ P \in Nat
  BY TermFacts, LessIrreflexive, PAssumption
<1>2. CASE t.c = 0
  BY <1>2 DEF KeptStep
<1>3. CASE t.c # 0 /\ (so = << >> \/ so[Len(so)].m # t.m)
  <2>1. so # << >> => Less(t.m, so[Len(so)].m)
    <3>1. SUFFICES ASSUME so # << >> PROVE Less(t.m, so[Len(so)].m)
      OBVIOUS
    <3>2. so[Len(so)].m \in Monomial
      BY <3>1, FrontTerms, TermFacts
    <3>. QED  BY <1>1, <1>3, <3>1, <3>2, LessTotal DEF NotBelow
  <2>2. KeptStep(t, so) = Append(so, t)
    BY <1>3 DEF KeptStep
  <2>3. IsTerms(Append(so, t)) /\ Append(so, t)[Len(Append(so, t))] = t
    BY <1>3, <2>1, AppendTerms
  <2>. QED  BY <1>1, <2>2, <2>3 DEF NotBelow
<1>4. CASE t.c # 0 /\ so # << >> /\ so[Len(so)].m = t.m
  <2> DEFINE d == (t.c + Last(so).c) % P
             u == [t EXCEPT !.c = (@ + Last(so).c) % P]
  <2>1. /\ IsTerms(Front(so)) /\ Last(so) \in TermSpace /\ Last(so).m = t.m
        /\ Front(so) # << >> => Less(t.m, Front(so)[Len(Front(so))].m)
    BY <1>4, FrontTerms
  <2>2. d \in 0 .. P - 1
    <3>1. Last(so).c \in 0 .. P - 1
      BY <2>1, TermFacts
    <3>2. t.c + Last(so).c \in Int
      BY <1>1, <3>1
    <3>. QED  BY <3>2, ModFacts
  <2>3. u = [t EXCEPT !.c = d]
    OBVIOUS
  <2>4. CASE d = 0
    <3>1. KeptStep(t, so) = Front(so)
      BY <1>4, <2>4 DEF KeptStep
    <3>2. NotBelow(Front(so), t.m)
      <4>1. SUFFICES ASSUME Front(so) # << >>, Less(Front(so)[Len(Front(so))].m, t.m) PROVE FALSE
        BY DEF NotBelow
      <4>2. Front(so)[Len(Front(so))].m \in Monomial
        BY <2>1, <4>1, FrontTerms, TermFacts
      <4>. QED  BY <1>1, <2>1, <4>1, <4>2, LessTransitive
    <3>. QED  BY <2>1, <3>1, <3>2
  <2>5. CASE d # 0
    <3>1. KeptStep(t, so) = Append(Front(so), u)
      BY <1>4, <2>5, Zenon DEF KeptStep
    <3> HIDE DEF d, u
    <3>2. u \in TermSpace /\ u.c = d /\ u.m = t.m
      BY <2>2, <2>3, WithCoefficient, Zenon
    <3>3. IsTerms(Append(Front(so), u)) /\ Append(Front(so), u)[Len(Append(Front(so), u))] = u
      BY <2>1, <2>5, <3>2, AppendTerms
    <3>. QED  BY <1>1, <3>1, <3>2, <3>3 DEF NotBelow
  <2>. QED  BY <2>4, <2>5
<1>. QED  BY <1>2, <1>3, <1>4

LEMMA KeptTyped ==
  ASSUME NEW so \in Seq(TermSpace), NEW t \in TermSpace
  PROVE  KeptStep(t, so) \in Seq(TermSpace)
<1>1. Append(so, t) \in Seq(TermSpace)
  OBVIOUS
<1>2. ASSUME so # << >> PROVE Front(so) \in Seq(TermSpace) /\ Last(so) \in TermSpace
  BY <1>2 DEF Front, Last
<1>3. ASSUME so # << >> PROVE [t EXCEPT !.c = (@ + Last(so).c) % P] \in TermSpace
  <2> DEFINE d == (t.c + Last(so).c) % P
  <2>1. d \in 0 .. P - 1
    <3>1. t.c \in 0 .. P - 1 /\ Last(so).c \in 0 .. P - 1
      BY <1>2, <1>3, TermFacts
    <3>2. t.c + Last(so).c \in Int
      BY <3>1, PAssumption
    <3>. QED  BY <3>2, ModFacts
  <2>2. [t EXCEPT !.c = (@ + Last(so).c) % P] = [t EXCEPT !.c = d]
    OBVIOUS
  <2> HIDE DEF d
  <2>3. [t EXCEPT !.c = d] \in TermSpace
    BY <2>1, WithCoefficient, Zenon
  <2>. QED  BY <2>2, <2>3
<1>4. ASSUME so # << >> PROVE Append(Front(so), [t EXCEPT !.c = (@ + Last(so).c) % P]) \in Seq(TermSpace)
  <2> DEFINE u == [t EXCEPT !.c = (@ + Last(so).c) % P]
             q == Front(so)
  <2>1. u \in TermSpace /\ q \in Seq(TermSpace)
    BY <1>2, <1>3, <1>4
  <2> HIDE DEF u, q
  <2>2. Append(q, u) \in Seq(TermSpace)
    BY <2>1
  <2>. QED  BY <2>2 DEF u, q
<1>. QED  BY <1>1, <1>2, <1>4, Zenon DEF KeptStep

KeptRun(w) ==
  CHOOSE f : f = [n \in 0 .. Len(w) |->
                    IF n = 0 THEN << >>
                    ELSE LET so == f[n - 1]
                             t  == w[n]
                         IN  IF t.c = 0 THEN so
                             ELSE IF so = << >> \/ so[Len(so)].m # t.m THEN Append(so, t)
                             ELSE IF (t.c + Last(so).c) % P = 0 THEN Front(so)
                             ELSE Append(Front(so), [t EXCEPT !.c = (@ + Last(so).c) % P])]

LEMMA KeptFacts ==
  ASSUME NEW w \in Seq(TermSpace)
  PROVE  /\ KeptRun(w)[0] = << >>
         /\ \A n \in 1 .. Len(w) : KeptRun(w)[n] = KeptStep(w[n], KeptRun(w)[n - 1])
<1> DEFINE N == Len(w)
           body(f) == [n \in 0 .. N |-> IF n = 0 THEN << >> ELSE KeptStep(w[n], f[n - 1])]
           step == [n \in 1 .. N |-> [s \in Seq(TermSpace) |-> KeptStep(w[n], s)]]
<1>1. N \in Nat /\ << >> \in Seq(TermSpace)
  OBVIOUS
<1>2. \A n \in 1 .. N : \A s \in Seq(TermSpace) :
        step[n][s] \in Seq(TermSpace) /\ step[n][s] = KeptStep(w[n], s)
  BY KeptTyped
<1>3. PICK g : RunsBy(N, Seq(TermSpace), << >>, step, g)
  <2>1. Steps(N, Seq(TermSpace), step)
    BY <1>2 DEF Steps
  <2> HIDE DEF step, N
  <2>. QED  BY <1>1, <2>1, RunExists
<1>4. \A n \in 0 .. N : n = 0 \/ (n \in 1 .. N /\ n - 1 \in 0 .. N)
  BY <1>1
<1>5. g = body(g)
  <2> HIDE DEF step, N
  <2>1. g \in [0 .. N -> Seq(TermSpace)] /\ g[0] = << >> /\ \A n \in 1 .. N : g[n] = step[n][g[n - 1]]
    BY <1>3 DEF RunsBy
  <2>2. \A n \in 1 .. N : g[n] = KeptStep(w[n], g[n - 1])
    BY <1>2, <1>4, <2>1
  <2>. QED  BY <1>4, <2>1, <2>2
<1> DEFINE h == KeptRun(w)
<1>6. h = body(h)
  <2>1. h = CHOOSE f : f = body(f)
    BY DEF KeptRun, KeptStep
  <2> HIDE DEF body, h
  <2>. QED  BY <1>5, <2>1
<1> HIDE DEF h, N
<1>7. DOMAIN h = 0 .. N /\ 0 \in 0 .. N /\ \A n \in 1 .. N : n \in 0 .. N /\ n # 0
  BY <1>1, <1>6
<1>8. h[0] = << >>
  BY <1>6, <1>7
<1>9. \A n \in 1 .. N : h[n] = KeptStep(w[n], h[n - 1])
  BY <1>6, <1>7
<1>. QED  BY <1>8, <1>9 DEF h, N

LEMMA SurvivingTerms ==
  ASSUME NEW ts \in Seq(TermSpace)
  PROVE  IsTerms(Surviving(ts)) /\ (ts = << >> => Surviving(ts) = << >>)
<1> DEFINE w == Sorted(ts)
           N == Len(w)
           f == KeptRun(w)
           S == {n \in 0 .. N : IsTerms(f[n]) /\ \A l \in 1 .. N : n <= l => NotBelow(f[n], w[l].m)}
<1>1. w \in Seq(TermSpace) /\ N = Len(ts) /\ N \in Nat
  BY SortedFacts
<1>2. \A k, l \in 1 .. N : k < l => ~Less(w[k].m, w[l].m)
  BY <1>1, SortedFacts
<1>3. f[0] = << >> /\ \A n \in 1 .. N : f[n] = KeptStep(w[n], f[n - 1])
  BY <1>1, KeptFacts
<1>4. Surviving(ts) = f[N]
  BY DEF Surviving, KeptRun
<1> HIDE DEF w, f
<1>5. 0 \in S
  <2>1. IsTerms(f[0])
    BY <1>3 DEF IsTerms, CanonicalTerms
  <2>. QED  BY <1>1, <1>3, <2>1 DEF NotBelow
<1>6. ASSUME NEW n \in 1 .. N, n - 1 \in S PROVE n \in S
  <2>1. IsTerms(f[n - 1]) /\ NotBelow(f[n - 1], w[n].m)
    BY <1>1, <1>6
  <2>2. w[n] \in TermSpace /\ w[n].m \in Monomial
    BY <1>1, TermAt
  <2>3. IsTerms(f[n]) /\ NotBelow(f[n], w[n].m)
    BY <1>3, <2>1, <2>2, KeptTerms
  <2>4. ASSUME NEW l \in 1 .. N, n <= l PROVE NotBelow(f[n], w[l].m)
    <3>1. CASE n = l
      BY <2>3, <3>1
    <3>2. CASE n # l
      <4>1. ~Less(w[n].m, w[l].m) /\ w[l].m \in Monomial
        <5>1. n < l
          BY <1>1, <2>4, <3>2
        <5>2. w[l].m \in Monomial
          BY <1>1, TermAt
        <5>. QED  BY <1>2, <5>1, <5>2
      <4>2. SUFFICES ASSUME f[n] # << >>, Less(f[n][Len(f[n])].m, w[l].m) PROVE FALSE
        BY DEF NotBelow
      <4>3. f[n][Len(f[n])].m \in Monomial /\ ~Less(f[n][Len(f[n])].m, w[n].m)
        BY <2>3, <4>2, FrontTerms, TermFacts DEF NotBelow
      <4>4. w[n].m = f[n][Len(f[n])].m \/ Less(w[n].m, f[n][Len(f[n])].m)
        BY <2>2, <4>3, LessTotal
      <4>5. Less(w[n].m, w[l].m)
        BY <2>2, <4>1, <4>2, <4>3, <4>4, LessTransitive
      <4>. QED  BY <4>1, <4>5
    <3>. QED  BY <3>1, <3>2
  <2>. QED  BY <1>1, <2>3, <2>4
<1>7. \A n \in 0 .. N : n \in S
  <2> HIDE DEF S, N
  <2>. QED  BY <1>1, <1>5, <1>6, InductionUpTo
<1>8. IsTerms(f[N])
  <2>1. N \in S
    BY <1>1, <1>7
  <2>. QED  BY <2>1
<1>9. ASSUME ts = << >> PROVE f[N] = << >>
  BY <1>1, <1>3, <1>9
<1>. QED  BY <1>4, <1>8, <1>9

FlattenRun(s) ==
  CHOOSE f : f = [i \in 1 .. Len(s) |-> IF i = 1 THEN s[i] ELSE f[i - 1] \o s[i]]

(* FlattenSeq adds one row after the other. *)
LEMMA FlattenFacts ==
  ASSUME NEW S, NEW s \in Seq(Seq(S)), Len(s) # 0
  PROVE  \E h : /\ FlattenSeq(s) = h[Len(s)] /\ h[1] = s[1]
                /\ \A n \in 1 .. Len(s) : h[n] \in Seq(S)
                /\ \A n \in 2 .. Len(s) : h[n] = h[n - 1] \o s[n]
<1> DEFINE N == Len(s)
           body(f) == [i \in 1 .. N |-> IF i = 1 THEN s[i] ELSE f[i - 1] \o s[i]]
           step == [n \in 1 .. N - 1 |-> [u \in Seq(S) |-> u \o s[n + 1]]]
           h == FlattenRun(s)
<1>1. N \in Nat /\ N >= 1 /\ N - 1 \in Nat /\ 1 \in 1 .. N /\ N \in 1 .. N
  OBVIOUS
<1>2. \A i \in 1 .. N : s[i] \in Seq(S)
  OBVIOUS
<1>3. \A n \in 1 .. N - 1 : \A u \in Seq(S) : step[n][u] \in Seq(S) /\ step[n][u] = u \o s[n + 1]
  <2>1. SUFFICES ASSUME NEW n \in 1 .. N - 1, NEW u \in Seq(S)
                 PROVE  step[n][u] \in Seq(S) /\ step[n][u] = u \o s[n + 1]
    OBVIOUS
  <2>2. n + 1 \in 1 .. N
    BY <1>1
  <2>3. s[n + 1] \in Seq(S)
    BY <1>2, <2>2
  <2>4. u \o s[n + 1] \in Seq(S)
    BY <2>3
  <2>5. step[n][u] = u \o s[n + 1]
    OBVIOUS
  <2>. QED  BY <2>4, <2>5
<1>4. PICK g : RunsBy(N - 1, Seq(S), s[1], step, g)
  <2>1. Steps(N - 1, Seq(S), step)
    BY <1>3 DEF Steps
  <2>2. s[1] \in Seq(S)
    BY <1>1, <1>2
  <2> DEFINE a == N - 1
             b == s[1]
             T == Seq(S)
  <2>3. a \in Nat /\ b \in T /\ Steps(a, T, step)
    BY <1>1, <2>1, <2>2
  <2> HIDE DEF step, N, a, b, T
  <2>4. \E g : RunsBy(a, T, b, step, g)
    BY <2>3, RunExists
  <2>. QED  BY <2>4 DEF a, b, T
<1>5. /\ g \in [0 .. N - 1 -> Seq(S)] /\ g[0] = s[1]
      /\ \A n \in 1 .. N - 1 : g[n] = step[n][g[n - 1]]
  BY <1>4 DEF RunsBy
<1>6. \A n \in 1 .. N - 1 : g[n] = g[n - 1] \o s[n + 1] /\ n - 1 \in 0 .. N - 1
  <2>1. SUFFICES ASSUME NEW n \in 1 .. N - 1 PROVE g[n] = g[n - 1] \o s[n + 1] /\ n - 1 \in 0 .. N - 1
    OBVIOUS
  <2>2. n - 1 \in 0 .. N - 1
    BY <1>1
  <2>3. g[n - 1] \in Seq(S)
    BY <1>5, <2>2
  <2> HIDE DEF step, N
  <2>. QED  BY <1>3, <1>5, <2>2, <2>3
<1> DEFINE e == [i \in 1 .. N |-> g[i - 1]]
<1>7. e = body(e)
  <2>1. SUFFICES ASSUME NEW i \in 1 .. N PROVE e[i] = IF i = 1 THEN s[i] ELSE e[i - 1] \o s[i]
    OBVIOUS
  <2>2. CASE i = 1
    BY <1>1, <1>5, <2>2
  <2>3. CASE i # 1
    <3>1. i - 1 \in 1 .. N - 1 /\ i - 1 \in 1 .. N /\ (i - 1) + 1 = i
      BY <1>1, <2>3
    <3>2. g[i - 1] = g[(i - 1) - 1] \o s[(i - 1) + 1]
      BY <1>6, <3>1
    <3>3. e[i] = g[i - 1] /\ e[i - 1] = g[(i - 1) - 1]
      BY <3>1
    <3>. QED  BY <2>3, <3>1, <3>2, <3>3
  <2>. QED  BY <2>2, <2>3
<1>8. h = body(h)
  <2>1. h = CHOOSE f : f = body(f)
    BY DEF FlattenRun
  <2> HIDE DEF body, h, e
  <2>. QED  BY <1>7, <2>1
<1>9. FlattenSeq(s) = h[N]
  BY DEF FlattenSeq, FlattenRun
<1> DEFINE T == {n \in 0 .. N - 1 : h[n + 1] \in Seq(S)}
<1> HIDE DEF h, step, N
<1>10. \A i \in 1 .. N : h[i] = IF i = 1 THEN s[i] ELSE h[i - 1] \o s[i]
  BY <1>8
<1>11. 0 \in T
  <2>1. h[1] = s[1] /\ 0 + 1 = 1
    BY <1>1, <1>10
  <2>. QED  BY <1>1, <1>2, <2>1
<1>12. ASSUME NEW n \in 1 .. N - 1, n - 1 \in T PROVE n \in T
  <2>1. n + 1 \in 1 .. N /\ n + 1 # 1 /\ (n + 1) - 1 = n /\ n \in 0 .. N - 1 /\ (n - 1) + 1 = n
    BY <1>1
  <2>2. h[n + 1] = h[(n + 1) - 1] \o s[n + 1]
    BY <1>10, <2>1
  <2>3. h[n] \in Seq(S)
    BY <1>12, <2>1
  <2>4. s[n + 1] \in Seq(S)
    BY <1>2, <2>1
  <2>5. h[n] \o s[n + 1] \in Seq(S)
    BY <2>3, <2>4
  <2>. QED  BY <2>1, <2>2, <2>5
<1>13. \A n \in 0 .. N - 1 : n \in T
  <2> DEFINE a == N - 1
  <2>1. a \in Nat /\ \A n \in 1 .. a : n - 1 \in T => n \in T
    BY <1>1, <1>12
  <2> HIDE DEF T, a
  <2>2. \A n \in 0 .. a : n \in T
    BY <1>11, <2>1, InductionUpTo
  <2>. QED  BY <2>2 DEF a
<1>14. ASSUME NEW n \in 1 .. N PROVE h[n] \in Seq(S)
  <2> DEFINE m == n - 1
  <2>1. m \in 0 .. N - 1 /\ m + 1 = n
    BY <1>1
  <2> HIDE DEF m
  <2>2. m \in T
    BY <1>13, <2>1, Zenon
  <2>. QED  BY <2>1, <2>2
<1>15. h[1] = s[1]
  BY <1>1, <1>10
<1>16. \A n \in 2 .. N : h[n] = h[n - 1] \o s[n]
  <2>1. \A n \in 2 .. N : n \in 1 .. N /\ n # 1
    BY <1>1
  <2>. QED  BY <1>10, <2>1
<1>. QED  BY <1>9, <1>14, <1>15, <1>16 DEF N

LEMMA FlattenTyped ==
  ASSUME NEW S, NEW s \in Seq(Seq(S))
  PROVE  FlattenSeq(s) \in Seq(S)
<1>1. CASE Len(s) = 0
  <2>1. s = << >> /\ FlattenSeq(s) = s
    BY <1>1 DEF FlattenSeq
  <2>2. << >> \in Seq(S)
    OBVIOUS
  <2>. QED  BY <2>1, <2>2, Zenon
<1>2. CASE Len(s) # 0
  <2>1. Len(s) \in 1 .. Len(s)
    BY <1>2
  <2>2. FlattenSeq(s) \in Seq(S)
    BY <1>2, <2>1, FlattenFacts
  <2>. QED  BY <2>2
<1>. QED  BY <1>1, <1>2

LEMMA ProductTerms ==
  ASSUME NEW ts \in Seq(TermSpace), NEW us \in Seq(TermSpace)
  PROVE  /\ Products(ts, us) \in Seq(TermSpace)
         /\ ts = << >> \/ us = << >> => Products(ts, us) = << >>
<1> DEFINE row(k) == Scaled(ts[k].c, Shifted(ts[k].m, us))
           s == [k \in DOMAIN ts |-> row(k)]
<1>1. ASSUME NEW k \in DOMAIN ts
      PROVE  row(k) \in Seq(TermSpace) /\ Len(row(k)) = Len(us)
  <2>1. ts[k].c \in 0 .. P - 1 /\ ts[k].m \in Monomial
    BY TermAt
  <2>2. Shifted(ts[k].m, us) \in Seq(TermSpace) /\ Len(Shifted(ts[k].m, us)) = Len(us)
    BY <2>1, ShiftedTerms
  <2>. QED  BY <2>1, <2>2, ScaledTerms
<1>2. Products(ts, us) = FlattenSeq(s)
  BY DEF Products
<1>3. DOMAIN s = DOMAIN ts /\ s = [k \in DOMAIN s |-> s[k]]
      /\ \A k \in DOMAIN ts : s[k] \in Seq(TermSpace) /\ Len(s[k]) = Len(us)
  BY <1>1
<1> HIDE DEF s
<1>4. s \in Seq(Seq(TermSpace)) /\ Len(s) = Len(ts)
  BY <1>3, MappedSeq
<1>5. Products(ts, us) \in Seq(TermSpace)
  BY <1>2, <1>4, FlattenTyped
<1>6. ASSUME ts = << >> PROVE Products(ts, us) = << >>
  <2>1. Len(s) = 0 /\ s = << >>
    BY <1>4, <1>6
  <2>. QED  BY <1>2, <2>1 DEF FlattenSeq
<1>7. ASSUME us = << >> PROVE Products(ts, us) = << >>
  <2>1. \A k \in DOMAIN ts : s[k] \in Seq({})
    <3>1. \A k \in DOMAIN ts : s[k] = << >>
      BY <1>3, <1>7
    <3>2. << >> \in Seq({})
      OBVIOUS
    <3>. QED  BY <3>1, <3>2, Zenon
  <2>2. s \in Seq(Seq({}))
    BY <1>3, <2>1, MappedSeq
  <2>3. Products(ts, us) \in Seq({})
    BY <1>2, <2>2, FlattenTyped
  <2>. QED  BY <2>3
<1>. QED  BY <1>5, <1>6, <1>7

-----------------------------------------------------------------------------
(* Inverses.                                                               *)

LEMMA InvertFacts ==
  ASSUME NEW c \in 1 .. P - 1
  PROVE  Invert(c) \in 1 .. P - 1
BY PAssumption DEF Invert

(* What monic gives. *)
MonicOf(s) ==
  IF s = << >> \/ s[1].c = 1 THEN s ELSE Scaled(Invert(s[1].c), s)

LEMMA ShiftedHead ==
  ASSUME NEW r \in Seq(TermSpace), r # << >>, NEW m \in Monomial
  PROVE  /\ Shifted(m, r) # << >> /\ Tail(Shifted(m, r)) = Shifted(m, Tail(r))
         /\ Shifted(m, r)[1].c = r[1].c /\ Shifted(m, r)[1].m = Mul(m, r[1].m)
         /\ Tail(r) \in Seq(TermSpace) /\ r[1] \in TermSpace
         /\ Mul(m, r[1].m) \in Monomial
<1> DEFINE v == Shifted(m, r)
<1>1. Len(r) \in Nat /\ Len(r) > 0 /\ 1 \in DOMAIN r /\ r[1] \in TermSpace /\ Tail(r) \in Seq(TermSpace)
  OBVIOUS
<1>2. v \in Seq(TermSpace) /\ Len(v) = Len(r)
  BY ShiftedTerms
<1>3. \A k \in DOMAIN r : v[k] = [r[k] EXCEPT !.m = Mul(m, @)]
  BY DEF Shifted
<1>4. v[1].c = r[1].c /\ v[1].m = Mul(m, r[1].m)
  <2>1. v[1] = [r[1] EXCEPT !.m = Mul(m, @)]
    BY <1>1, <1>3
  <2>. QED  BY <1>1, <2>1 DEF TermSpace
<1>5. v[1] \in TermSpace
  BY <1>1, <1>2
<1>6. Tail(v) = Shifted(m, Tail(r))
  <2>0. v # << >>
    BY <1>1, <1>2
  <2>1. /\ Tail(r) \in Seq(TermSpace) /\ Len(Tail(r)) = Len(r) - 1
        /\ \A k \in 1 .. Len(r) - 1 : Tail(r)[k] = r[k + 1]
    BY <1>1
  <2>2. /\ Tail(v) \in Seq(TermSpace) /\ Len(Tail(v)) = Len(r) - 1
        /\ \A k \in 1 .. Len(r) - 1 : Tail(v)[k] = v[k + 1]
    BY <1>1, <1>2, <2>0
  <2>3. /\ Shifted(m, Tail(r)) \in Seq(TermSpace) /\ Len(Shifted(m, Tail(r))) = Len(r) - 1
    BY <2>1, ShiftedTerms
  <2>4. \A k \in 1 .. Len(r) - 1 : v[k + 1] = [r[k + 1] EXCEPT !.m = Mul(m, @)]
    BY <1>1, <1>3
  <2>5. \A k \in 1 .. Len(r) - 1 : Shifted(m, Tail(r))[k] = [Tail(r)[k] EXCEPT !.m = Mul(m, @)]
    BY <2>1 DEF Shifted
  <2>6. \A k \in 1 .. Len(r) - 1 : Shifted(m, Tail(r))[k] = Tail(v)[k]
    BY <2>1, <2>2, <2>4, <2>5
  <2> DEFINE w1 == Tail(v)
             w2 == Shifted(m, Tail(r))
             N == Len(r) - 1
  <2>7. /\ w1 \in Seq(TermSpace) /\ w2 \in Seq(TermSpace) /\ Len(w1) = N /\ Len(w2) = N
        /\ \A k \in 1 .. N : w2[k] = w1[k]
    BY <2>2, <2>3, <2>6
  <2> HIDE DEF w1, w2, N
  <2>8. w1 = w2
    BY <2>7
  <2>. QED  BY <2>8 DEF w1, w2
<1>. QED  BY <1>1, <1>2, <1>4, <1>5, <1>6, TermFacts

-----------------------------------------------------------------------------
(* Sequences without repetitions.                                          *)

LEMMA JoinedOnce ==
  ASSUME NEW S, NEW s \in Seq(S), NEW t \in Seq(S), IsInjective(s), IsInjective(t),
         \A i \in DOMAIN s, j \in DOMAIN t : s[i] # t[j]
  PROVE  /\ s \o t \in Seq(S) /\ IsInjective(s \o t)
         /\ Range(s \o t) = Range(s) \cup Range(t)
<1> DEFINE w == s \o t
<1>1. w \in Seq(S) /\ Joins(w, s, t)
  <2>1. w \in Seq(S \cup S) /\ Joins(w, s, t)
    BY ConcatFacts
  <2>. QED  BY <2>1
<1> HIDE DEF w
<1>2. /\ Len(s) \in Nat /\ Len(t) \in Nat /\ DOMAIN w = 1 .. Len(w)
      /\ DOMAIN s = 1 .. Len(s) /\ DOMAIN t = 1 .. Len(t)
  BY <1>1
<1>3. /\ \A k \in DOMAIN s : k \in DOMAIN w /\ w[k] = s[k]
      /\ \A k \in DOMAIN t : Len(s) + k \in DOMAIN w /\ w[Len(s) + k] = t[k]
      /\ \A k \in DOMAIN w : k \in DOMAIN s \/ \E j \in DOMAIN t : k = Len(s) + j
  BY <1>1, <1>2 DEF Joins
<1>4. ASSUME NEW k \in DOMAIN w, NEW l \in DOMAIN w, w[k] = w[l]
      PROVE  k = l
  <2>1. CASE k \in DOMAIN s /\ l \in DOMAIN s
    BY <1>3, <1>4, <2>1 DEF IsInjective
  <2>2. CASE k \in DOMAIN s /\ \E j \in DOMAIN t : l = Len(s) + j
    BY <1>3, <1>4, <2>2
  <2>3. CASE l \in DOMAIN s /\ \E j \in DOMAIN t : k = Len(s) + j
    BY <1>3, <1>4, <2>3
  <2>4. CASE (\E j \in DOMAIN t : k = Len(s) + j) /\ (\E j \in DOMAIN t : l = Len(s) + j)
    <3>1. PICK i \in DOMAIN t : k = Len(s) + i
      BY <2>4
    <3>2. PICK j \in DOMAIN t : l = Len(s) + j
      BY <2>4
    <3>3. t[i] = t[j]
      BY <1>3, <1>4, <3>1, <3>2
    <3>4. i = j
      BY <3>3 DEF IsInjective
    <3>. QED  BY <3>1, <3>2, <3>4
  <2>. QED  BY <1>3, <2>1, <2>2, <2>3, <2>4
<1>5. IsInjective(w)
  BY <1>4 DEF IsInjective
<1>6. Range(w) = Range(s) \cup Range(t)
  <2>1. ASSUME NEW a \in Range(w) PROVE a \in Range(s) \cup Range(t)
    <3>1. PICK k \in DOMAIN w : a = w[k]
      BY DEF Range
    <3>2. CASE k \in DOMAIN s
      BY <1>3, <3>1, <3>2 DEF Range
    <3>3. CASE \E j \in DOMAIN t : k = Len(s) + j
      BY <1>3, <3>1, <3>3 DEF Range
    <3>. QED  BY <1>3, <3>2, <3>3
  <2>2. ASSUME NEW a \in Range(s) PROVE a \in Range(w)
    <3>1. PICK k \in DOMAIN s : a = s[k]
      BY DEF Range
    <3>. QED  BY <1>3, <3>1 DEF Range
  <2>3. ASSUME NEW a \in Range(t) PROVE a \in Range(w)
    <3>1. PICK k \in DOMAIN t : a = t[k]
      BY DEF Range
    <3>. QED  BY <1>3, <3>1 DEF Range
  <2>. QED  BY <2>1, <2>2, <2>3
<1>. QED  BY <1>1, <1>5, <1>6 DEF w

-----------------------------------------------------------------------------
(* Sums over sets that correspond.                                         *)

Corresponds(S, T, f) ==
  /\ \A j \in S : f[j] \in T
  /\ \A j, l \in S : f[j] = f[l] => j = l
  /\ \A z \in T : \E j \in S : f[j] = z

LEMMA TotalMoved ==
  ASSUME NEW S, IsFiniteSet(S), NEW T, IsFiniteSet(T), NEW f, Corresponds(S, T, f),
         NEW v, NEW w, \A j \in S : v[j] = w[f[j]] /\ v[j] \in Nat
  PROVE  Total(v, S) = Total(w, T)
<1> DEFINE n == Cardinality(S)
           I(R) == {f[j] : j \in R}
           K == {k \in 0 .. n : \A R \in SUBSET S : Cardinality(R) <= k => Total(v, R) = Total(w, I(R))}
<1>0. n \in Nat /\ \A R \in SUBSET S : IsFiniteSet(R) /\ Cardinality(R) \in Nat
  BY FS_CardinalityType, FS_Subset
<1>1. \A R \in SUBSET S : I(R) \in SUBSET T /\ IsFiniteSet(I(R))
  <2>1. \A R \in SUBSET S : I(R) \in SUBSET T
    BY DEF Corresponds
  <2>. QED  BY <2>1, FS_Subset
<1>2. \A R \in SUBSET S : R # {} => /\ Pick(R) \in R /\ R \ {Pick(R)} \in SUBSET S
                                    /\ Cardinality(R) > 0
                                    /\ Cardinality(R \ {Pick(R)}) = Cardinality(R) - 1
  BY PickFacts
<1>2a. \A R \in SUBSET S : R # {} => Cardinality(R) > 0
  BY <1>2
<1>3. ASSUME NEW R \in SUBSET S, R # {}
      PROVE  LET j == Pick(R) IN
             /\ Total(v, R) = v[j] + Total(v, R \ {j})
             /\ Total(w, I(R)) = v[j] + Total(w, I(R \ {j}))
  <2> DEFINE j == Pick(R)
             A == I(R)
             B == I(R \ {j})
  <2>1. j \in R /\ j \in S /\ v[j] = w[f[j]]
    BY <1>2, <1>3
  <2>2. f[j] \in A /\ A \ {f[j]} = B
    BY <2>1 DEF Corresponds
  <2>3. \A z \in A : w[z] \in Nat
    <3>1. ASSUME NEW z \in A PROVE w[z] \in Nat
      <4>1. PICK l \in R : z = f[l]
        OBVIOUS
      <4>. QED  BY <4>1
    <3>. QED  BY <3>1
  <2>4. IsFiniteSet(A) /\ IsFiniteSet(R)
    BY <1>0, <1>1
  <2>5. \A l \in R : v[l] \in Nat
    OBVIOUS
  <2> HIDE DEF j, A, B
  <2>6. Total(v, R) = v[j] + Total(v, R \ {j})
    BY <2>1, <2>4, <2>5, TotalStep
  <2>7. Total(w, A) = w[f[j]] + Total(w, A \ {f[j]})
    BY <2>2, <2>3, <2>4, TotalStep
  <2>. QED  BY <2>1, <2>2, <2>6, <2>7 DEF j, A, B
<1> HIDE DEF n
<1>4. 0 \in K
  <2>1. ASSUME NEW R \in SUBSET S, Cardinality(R) <= 0 PROVE Total(v, R) = Total(w, I(R))
    <3>1. R = {}
      <4>1. Cardinality(R) \in Nat
        BY <1>0
      <4>. QED  BY <1>2a, <2>1, <4>1
    <3>2. I(R) = {}
      BY <3>1
    <3>. QED  BY <3>1, <3>2, TotalEmpty
  <2>. QED  BY <1>0, <2>1
<1>5. ASSUME NEW k \in 1 .. n, k - 1 \in K PROVE k \in K
  <2>0. k \in 1 .. n /\ \A R \in SUBSET S : Cardinality(R) <= k - 1 => Total(v, R) = Total(w, I(R))
    BY <1>5
  <2>1. ASSUME NEW R \in SUBSET S, Cardinality(R) <= k PROVE Total(v, R) = Total(w, I(R))
    <3>1. CASE R = {}
      <4>1. I(R) = {}
        BY <3>1
      <4>. QED  BY <3>1, <4>1, TotalEmpty
    <3>2. CASE R # {}
      <4> DEFINE D == R \ {Pick(R)}
      <4>1. D \in SUBSET S /\ Cardinality(D) <= k - 1
        BY <1>0, <1>2, <2>0, <2>1, <3>2
      <4>2. Total(v, R) = v[Pick(R)] + Total(v, D) /\ Total(w, I(R)) = v[Pick(R)] + Total(w, I(D))
        BY <1>3, <3>2
      <4> HIDE DEF D, I
      <4>. QED  BY <2>0, <4>1, <4>2
    <3>. QED  BY <3>1, <3>2
  <2> HIDE DEF I
  <2>. QED  BY <1>0, <2>0, <2>1
<1>6. n \in K
  <2> HIDE DEF K
  <2>. QED  BY <1>0, <1>4, <1>5, InductionUpTo
<1>7. Total(v, S) = Total(w, I(S))
  <2>1. S \in SUBSET S /\ Cardinality(S) <= n
    BY <1>0 DEF n
  <2> HIDE DEF I
  <2>. QED  BY <1>6, <2>1
<1>8. I(S) = T
  BY DEF Corresponds
<1>. QED  BY <1>7, <1>8

-----------------------------------------------------------------------------
(* The coefficient of a monomial in a sequence of terms that need not be   *)
(* sorted, as a number that has not been reduced modulo P.                 *)

Weights(s, t) == [k \in DOMAIN s |-> IF s[k].m = t THEN s[k].c ELSE 0]

CoefSum(s, t) == Total(Weights(s, t), DOMAIN s)

CoefPart(e, t) == IF e.m = t THEN e.c ELSE 0

LEMMA WeightsFacts ==
  ASSUME NEW s \in Seq(TermSpace), NEW t
  PROVE  /\ IsFiniteSet(DOMAIN s) /\ DOMAIN s = 1 .. Len(s) /\ Len(s) \in Nat
         /\ \A k \in DOMAIN s : /\ Weights(s, t)[k] = CoefPart(s[k], t) /\ Weights(s, t)[k] \in Nat
                                /\ CoefPart(s[k], t) \in 0 .. P - 1
         /\ CoefSum(s, t) \in Nat
<1>1. DOMAIN s = 1 .. Len(s) /\ Len(s) \in Nat
  OBVIOUS
<1>2. IsFiniteSet(DOMAIN s)
  BY <1>1, UpToFacts
<1>3. ASSUME NEW k \in DOMAIN s
      PROVE  /\ Weights(s, t)[k] = CoefPart(s[k], t) /\ Weights(s, t)[k] \in Nat
             /\ CoefPart(s[k], t) \in 0 .. P - 1
  <2>1. s[k].c \in 0 .. P - 1 /\ P > 1 /\ P \in Nat
    BY <1>1, TermAt, TermFacts, PAssumption
  <2>. QED  BY <2>1 DEF Weights, CoefPart
<1>. QED  BY <1>1, <1>2, <1>3, TotalType DEF CoefSum

LEMMA SumOfNone == \A t : CoefSum(<< >>, t) = 0
BY TotalEmpty DEF CoefSum

LEMMA SumAppend ==
  ASSUME NEW s \in Seq(TermSpace), NEW e \in TermSpace, NEW t
  PROVE  CoefSum(Append(s, e), t) = CoefSum(s, t) + CoefPart(e, t)
<1> DEFINE w == Append(s, e)
           n == Len(s)
           v == Weights(w, t)
<1>1. /\ w \in Seq(TermSpace) /\ n \in Nat /\ DOMAIN w = 1 .. n + 1 /\ DOMAIN s = 1 .. n
      /\ w[n + 1] = e /\ \A k \in 1 .. n : w[k] = s[k]
  OBVIOUS
<1> HIDE DEF w
<1>2. IsFiniteSet(DOMAIN w) /\ \A k \in DOMAIN w : v[k] \in Nat /\ v[k] = CoefPart(w[k], t)
  BY <1>1, WeightsFacts
<1>3. n + 1 \in DOMAIN w /\ DOMAIN w \ {n + 1} = DOMAIN s
  BY <1>1
<1>4. Total(v, DOMAIN w) = CoefPart(e, t) + Total(v, DOMAIN s)
  <2>1. Total(v, DOMAIN w) = v[n + 1] + Total(v, DOMAIN w \ {n + 1})
    <3> HIDE DEF v
    <3>. QED  BY <1>2, <1>3, TotalStep
  <2>. QED  BY <1>1, <1>2, <1>3, <2>1
<1>5. Total(v, DOMAIN s) = Total(Weights(s, t), DOMAIN s)
  <2>1. \A k \in DOMAIN s : v[k] = Weights(s, t)[k]
    <3>1. \A k \in DOMAIN s : k \in DOMAIN w /\ w[k] = s[k] /\ Weights(s, t)[k] = CoefPart(s[k], t)
      BY <1>1, WeightsFacts
    <3>. QED  BY <1>2, <3>1
  <2>2. IsFiniteSet(DOMAIN s)
    BY WeightsFacts
  <2> HIDE DEF v
  <2>. QED  BY <2>1, <2>2, TotalAgree
<1>6. CoefSum(s, t) \in Nat /\ CoefPart(e, t) \in Nat
  <2>1. CoefPart(e, t) \in Nat
    BY <1>1, <1>2, <1>3
  <2>. QED  BY <2>1, WeightsFacts
<1>. QED  BY <1>4, <1>5, <1>6 DEF CoefSum, w

LEMMA SumHead ==
  ASSUME NEW s \in Seq(TermSpace), s # << >>, NEW t
  PROVE  CoefSum(s, t) = CoefPart(s[1], t) + CoefSum(Tail(s), t)
<1> DEFINE n == Len(s)
           w == Tail(s)
           v == Weights(s, t)
           f == [k \in 2 .. n |-> k - 1]
<1>1. /\ n \in Nat /\ n >= 1 /\ DOMAIN s = 1 .. n /\ w \in Seq(TermSpace)
      /\ DOMAIN w = 1 .. n - 1 /\ \A k \in 1 .. n - 1 : w[k] = s[k + 1]
  OBVIOUS
<1> HIDE DEF w, n
<1>2. IsFiniteSet(DOMAIN s) /\ \A k \in DOMAIN s : v[k] \in Nat /\ v[k] = CoefPart(s[k], t)
  BY WeightsFacts
<1>3. 1 \in DOMAIN s /\ DOMAIN s \ {1} = 2 .. n
  BY <1>1
<1>4. Total(v, DOMAIN s) = CoefPart(s[1], t) + Total(v, 2 .. n)
  <2>1. Total(v, DOMAIN s) = v[1] + Total(v, DOMAIN s \ {1})
    <3> HIDE DEF v
    <3>. QED  BY <1>2, <1>3, TotalStep
  <2>. QED  BY <1>2, <1>3, <2>1
<1>5. Total(v, 2 .. n) = Total(Weights(w, t), DOMAIN w)
  <2>1. Corresponds(2 .. n, DOMAIN w, f)
    <3>1. \A j \in 2 .. n : f[j] = j - 1 /\ j - 1 \in 1 .. n - 1
      BY <1>1
    <3>2. \A z \in 1 .. n - 1 : z + 1 \in 2 .. n /\ f[z + 1] = z
      BY <1>1
    <3>3. \A j, l \in 2 .. n : f[j] = f[l] => j = l
      BY <3>1, <1>1
    <3>4. DOMAIN w = 1 .. n - 1
      BY <1>1
    <3> HIDE DEF f
    <3>5. /\ \A j \in 2 .. n : f[j] \in DOMAIN w
          /\ \A z \in DOMAIN w : \E j \in 2 .. n : f[j] = z
      BY <3>1, <3>2, <3>4
    <3>. QED  BY ONLY <3>3, <3>5 DEF Corresponds
  <2>2. \A j \in 2 .. n : v[j] = Weights(w, t)[f[j]] /\ v[j] \in Nat
    <3>1. ASSUME NEW j \in 2 .. n PROVE v[j] = Weights(w, t)[f[j]] /\ v[j] \in Nat
      <4>1. f[j] = j - 1 /\ j - 1 \in DOMAIN w /\ w[j - 1] = s[j] /\ j \in DOMAIN s
        BY <1>1
      <4>2. Weights(w, t)[j - 1] = CoefPart(w[j - 1], t)
        BY <1>1, <4>1, WeightsFacts
      <4>. QED  BY <1>2, <4>1, <4>2
    <3>. QED  BY <3>1
  <2>3. IsFiniteSet(2 .. n) /\ IsFiniteSet(DOMAIN w)
    BY <1>1, <1>2, <1>3, FS_Subset, WeightsFacts
  <2> DEFINE S == 2 .. n
             T == DOMAIN w
             b == Weights(w, t)
  <2> HIDE DEF v, f
  <2>4. /\ IsFiniteSet(S) /\ IsFiniteSet(T) /\ Corresponds(S, T, f)
        /\ \A j \in S : v[j] = b[f[j]] /\ v[j] \in Nat
    BY <2>1, <2>2, <2>3
  <2> HIDE DEF S, T, b
  <2>5. Total(v, S) = Total(b, T)
    BY <2>4, TotalMoved
  <2>. QED  BY <2>5 DEF S, T, b
<1>. QED  BY <1>4, <1>5 DEF CoefSum, w

-----------------------------------------------------------------------------
(* The polynomial that a canonical sequence of terms stands for.           *)

LEMMA DistinctMonomials ==
  ASSUME NEW s, IsTerms(s)
  PROVE  \A k, l \in 1 .. Len(s) : s[k].m = s[l].m => k = l
<1>1. s \in Seq(TermSpace) /\ Len(s) \in Nat
  BY DEF IsTerms
<1>2. SUFFICES ASSUME NEW k \in 1 .. Len(s), NEW l \in 1 .. Len(s), s[k].m = s[l].m, k < l
               PROVE  FALSE
  BY <1>1
<1>3. Less(s[l].m, s[k].m) /\ s[k].m \in Monomial
  BY <1>1, <1>2, TermsDescend, TermAt
<1>. QED  BY <1>2, <1>3, LessIrreflexive

(* A sum over one index is the weight there.                              *)
LEMMA SingleTotal ==
  ASSUME NEW v, NEW k, v[k] \in Nat
  PROVE  Total(v, {k}) = v[k]
<1>1. \A T : IsFiniteSet(T) /\ (\A l \in T : v[l] \in Nat)
               => \A l \in T : Total(v, T) = v[l] + Total(v, T \ {l})
  BY TotalStep
<1>2. IsFiniteSet({k}) /\ (\A l \in {k} : v[l] \in Nat) /\ k \in {k} /\ {k} \ {k} = {}
  BY FS_Singleton
<1>3. Total(v, {k}) = v[k] + Total(v, {})
  BY <1>1, <1>2
<1>4. Total(v, {}) = 0
  BY TotalEmpty
<1>. QED  BY <1>3, <1>4

LEMMA CanonicalSum ==
  ASSUME NEW s, IsTerms(s)
  PROVE  /\ \A k \in 1 .. Len(s) : CoefSum(s, s[k].m) = s[k].c /\ s[k].c \in 1 .. P - 1
         /\ \A t : (\A k \in 1 .. Len(s) : s[k].m # t) => CoefSum(s, t) = 0
<1>1. s \in Seq(TermSpace) /\ Len(s) \in Nat /\ DOMAIN s = 1 .. Len(s)
  BY DEF IsTerms
<1>2. \A t : IsFiniteSet(DOMAIN s) /\ \A k \in DOMAIN s : /\ Weights(s, t)[k] = CoefPart(s[k], t)
                                                         /\ Weights(s, t)[k] \in Nat
  BY <1>1, WeightsFacts
<1>3. ASSUME NEW k \in 1 .. Len(s) PROVE CoefSum(s, s[k].m) = s[k].c /\ s[k].c \in 1 .. P - 1
  <2> DEFINE t == s[k].m
             v == Weights(s, t)
             D == DOMAIN s
             T == {k}
  <2>1. \A l \in D : l # k => v[l] = 0
    <3>1. ASSUME NEW l \in D, l # k PROVE v[l] = 0
      <4>1. s[l].m # t
        BY <1>1, <3>1, DistinctMonomials
      <4>. QED  BY <1>2, <4>1 DEF CoefPart
    <3>. QED  BY <3>1
  <2>2. v[k] = s[k].c /\ k \in D /\ \A l \in D : v[l] \in Nat
    BY <1>1, <1>2 DEF CoefPart
  <2>3. IsFiniteSet(D) /\ T \subseteq D /\ \A l \in D : l \notin T => v[l] = 0
    BY <1>1, <1>2, <2>1
  <2> HIDE DEF t, v, D
  <2>4. Total(v, D) = Total(v, T)
    <3> HIDE DEF T
    <3>. QED  BY <2>2, <2>3, TotalExtra
  <2>5. Total(v, T) = v[k]
    <3>1. v[k] \in Nat
      BY <2>2
    <3>. QED  BY <3>1, SingleTotal
  <2>6. CoefSum(s, t) = s[k].c
    BY <2>2, <2>4, <2>5 DEF CoefSum, v, D
  <2>7. s[k].c \in 1 .. P - 1
    <3>1. s[k].c \in 0 .. P - 1 /\ s[k].c # 0 /\ P \in Nat
      BY <1>1, TermAt, TermFacts, PAssumption DEF IsTerms, CanonicalTerms
    <3>. QED  BY <3>1
  <2>. QED  BY <2>6, <2>7 DEF t
<1>4. ASSUME NEW t, \A k \in 1 .. Len(s) : s[k].m # t PROVE CoefSum(s, t) = 0
  <2> DEFINE v == Weights(s, t)
             D == DOMAIN s
             T == {}
  <2>1. \A k \in D : v[k] = 0 /\ v[k] \in Nat
    BY <1>1, <1>2, <1>4 DEF CoefPart
  <2>2. IsFiniteSet(D) /\ T \subseteq D
    BY <1>2
  <2> HIDE DEF v, D
  <2>3. Total(v, D) = Total(v, T)
    <3> HIDE DEF T
    <3>. QED  BY <2>1, <2>2, TotalExtra
  <2>. QED  BY <2>3, TotalEmpty DEF CoefSum, v, D
<1>. QED  BY <1>3, <1>4

LEMMA TermsValueFacts ==
  ASSUME NEW s, IsTerms(s)
  PROVE  /\ IsPolynomial(ValueOf(s))
         /\ \A t : Coef(ValueOf(s), t) = CoefSum(s, t) /\ CoefSum(s, t) \in 0 .. P - 1
         /\ Support(ValueOf(s)) = {s[k].m : k \in 1 .. Len(s)}
<1> DEFINE M == {s[k].m : k \in DOMAIN s}
           at(m) == CHOOSE k \in DOMAIN s : s[k].m = m
           terms == [m \in M |-> s[at(m)].c]
           f == [k \in DOMAIN s |-> s[k].m]
<1>1. s \in Seq(TermSpace) /\ Len(s) \in Nat /\ DOMAIN s = 1 .. Len(s)
  BY DEF IsTerms
<1>2. M \subseteq Monomial
  BY <1>1, TermAt
<1>3. IsFiniteSet(M)
  <2>1. IsFiniteSet(DOMAIN s)
    BY <1>1, UpToFacts
  <2>2. f \in Surjection(DOMAIN s, M)
    BY DEF Surjection
  <2> HIDE DEF f, M
  <2>. QED  BY <2>1, <2>2, FS_Surjection
<1>4. ASSUME NEW k \in 1 .. Len(s) PROVE s[k].m \in M /\ at(s[k].m) = k
  <2>1. s[k].m \in M
    BY <1>1
  <2>2. at(s[k].m) \in DOMAIN s /\ s[at(s[k].m)].m = s[k].m
    BY <1>1
  <2> HIDE DEF at
  <2>. QED  BY <1>1, <2>1, <2>2, DistinctMonomials
<1>5. ASSUME NEW m \in M PROVE terms[m] = CoefSum(s, m) /\ terms[m] \in 1 .. P - 1
  <2>1. PICK k \in 1 .. Len(s) : m = s[k].m
    BY <1>1
  <2>2. terms[m] = s[k].c
    <3>1. terms[m] = s[at(m)].c
      OBVIOUS
    <3> HIDE DEF terms, at
    <3>. QED  BY <1>4, <2>1, <3>1
  <2>. QED  BY <2>1, <2>2, CanonicalSum
<1>6. terms \in [M -> 1 .. P - 1]
  <2> DEFINE g(m) == s[at(m)].c
  <2>1. \A m \in M : g(m) \in 1 .. P - 1
    BY <1>5
  <2>2. terms = [m \in M |-> g(m)]
    OBVIOUS
  <2> HIDE DEF terms, g, M
  <2>. QED  BY <2>1, <2>2
<1>7. ValueOf(s) = Poly(terms)
  BY DEF ValueOf
<1> HIDE DEF terms
<1>8. IsPolynomial(Poly(terms)) /\ Poly(terms).terms = terms /\ Support(Poly(terms)) = M
  <2> HIDE DEF M
  <2>. QED  BY <1>2, <1>3, <1>6, PolyIsPolynomial
<1>9. ASSUME NEW t PROVE Coef(ValueOf(s), t) = CoefSum(s, t) /\ CoefSum(s, t) \in 0 .. P - 1
  <2>0. P \in Nat /\ P > 1
    BY PAssumption
  <2>1. CASE t \in M
    BY <1>5, <1>7, <1>8, <2>0, <2>1 DEF Coef
  <2>2. CASE t \notin M
    <3>1. CoefSum(s, t) = 0
      BY <1>1, <2>2, CanonicalSum
    <3>. QED  BY <1>7, <1>8, <2>0, <2>2, <3>1 DEF Coef
  <2>. QED  BY <2>1, <2>2
<1>10. Support(ValueOf(s)) = {s[k].m : k \in 1 .. Len(s)}
  BY <1>1, <1>7, <1>8
<1>. QED  BY <1>7, <1>8, <1>9, <1>10

(* Sequences with the same coefficients stand for the same polynomial.     *)
LEMMA ValueIs ==
  ASSUME NEW s, IsTerms(s), NEW p, IsPolynomial(p), \A t \in Monomial : CoefSum(s, t) = Coef(p, t)
  PROVE  ValueOf(s) = p
<1>1. IsPolynomial(ValueOf(s)) /\ \A t \in Monomial : Coef(ValueOf(s), t) = Coef(p, t)
  BY TermsValueFacts
<1>. QED  BY <1>1, SamePolynomial

LEMMA NoTerms == IsTerms(<< >>) /\ ValueOf(<< >>) = Zero
<1>1. IsTerms(<< >>)
  BY DEF IsTerms, CanonicalTerms
<1>2. IsPolynomial(Zero) /\ \A t : Coef(Zero, t) = 0 /\ CoefSum(<< >>, t) = 0
  BY ZeroCoef, SumOfNone
<1>. QED  BY <1>1, <1>2, ValueIs

(* The first term leads. *)
LEMMA ValueLeads ==
  ASSUME NEW s, IsTerms(s), s # << >>
  PROVE  /\ ValueOf(s) # Zero /\ LM(ValueOf(s)) = s[1].m /\ LC(ValueOf(s)) = s[1].c
         /\ s[1].c \in 1 .. P - 1
<1>1. s \in Seq(TermSpace) /\ Len(s) \in Nat /\ 1 \in 1 .. Len(s)
  BY DEF IsTerms
<1>2. CoefSum(s, s[1].m) = s[1].c /\ s[1].c \in 1 .. P - 1 /\ s[1].m \in Monomial
  BY <1>1, CanonicalSum, TermAt
<1>3. IsPolynomial(ValueOf(s)) /\ \A t : Coef(ValueOf(s), t) = CoefSum(s, t)
  BY TermsValueFacts
<1>4. ASSUME NEW t \in Monomial, Coef(ValueOf(s), t) # 0 PROVE t = s[1].m \/ Less(t, s[1].m)
  <2>1. PICK k \in 1 .. Len(s) : t = s[k].m
    BY <1>3, <1>4, CanonicalSum
  <2>2. k = 1 \/ 1 < k
    BY <1>1
  <2>. QED  BY <1>1, <2>1, <2>2, TermsDescend
<1>5. Coef(ValueOf(s), s[1].m) # 0
  BY <1>2, <1>3
<1>6. ValueOf(s) # Zero /\ LM(ValueOf(s)) = s[1].m /\ LC(ValueOf(s)) = Coef(ValueOf(s), s[1].m)
  BY <1>2, <1>3, <1>4, <1>5, LeadingIs
<1>. QED  BY <1>2, <1>3, <1>6

-----------------------------------------------------------------------------
(* Residues.                                                               *)

LEMMA ModInside ==
  ASSUME NEW a \in Int, NEW b \in Int
  PROVE  (a + (b % P)) % P = (a + b) % P
<1>1. (b % P) \in Int
  BY ModFacts, PAssumption
<1> DEFINE r == b % P
<1>2. r \in Int /\ (r + a) % P = (b + a) % P
  BY <1>1, ModAdd
<1> HIDE DEF r
<1>3. a + r = r + a /\ a + b = b + a
  BY <1>2
<1>4. (a + r) % P = (a + b) % P
  BY <1>2, <1>3
<1>. QED  BY <1>4 DEF r

(* What is taken from both operands goes to the output, reduced.           *)
MergeTaken(k, a, b, c, p, q, d) == ((a + d) + b + k * c) % P = (a + (p + b) + k * (q + c)) % P

LEMMA SumTaken ==
  ASSUME NEW k \in Int, NEW a \in Int, NEW b \in Int, NEW c \in Int,
         NEW p \in Int, NEW q \in Int, NEW d \in Int, d = (p + k * q) % P
  PROVE  MergeTaken(k, a, b, c, p, q, d)
<1> DEFINE g == k * q
           h == k * c
           e == p + g
           f == a + b + h
<1>1. g \in Int /\ h \in Int /\ k * (q + c) = g + h
  OBVIOUS
<1>2. d = (p + g) % P
  OBVIOUS
<1> HIDE DEF g, h
<1>3. e \in Int /\ f \in Int
  BY <1>1
<1>4. a + (p + b) + (g + h) = f + e /\ (a + d) + b + h = f + d
  BY <1>1
<1>5. (f + d) % P = (f + e) % P
  <2>1. d = (e % P)
    BY <1>2
  <2>2. (f + (e % P)) % P = (f + e) % P
    BY <1>3, ModInside
  <2> HIDE DEF e, f
  <2>. QED  BY <2>1, <2>2
<1>6. ((a + d) + b + h) % P = (a + (p + b) + k * (q + c)) % P
  <2> HIDE DEF e, f
  <2>. QED  BY <1>1, <1>4, <1>5
<1>. QED  BY <1>6 DEF MergeTaken, h

LEMMA PartTyped ==
  ASSUME NEW e \in TermSpace, NEW t
  PROVE  CoefPart(e, t) \in 0 .. P - 1 /\ CoefPart(e, t) \in Int
<1>1. e.c \in 0 .. P - 1 /\ P \in Nat /\ P > 1
  BY TermFacts, PAssumption
<1>. QED  BY <1>1 DEF CoefPart

LEMMA HeadTyped ==
  ASSUME NEW s \in Seq(TermSpace), s # << >>
  PROVE  s[1] \in TermSpace /\ Tail(s) \in Seq(TermSpace)
OBVIOUS

-----------------------------------------------------------------------------
(* The values of changed sequences.                                        *)

(* A multiple of p with the coefficients c times those of m p. *)
Times(c, m, p) == MinusMMultP(Zero, m, P - c, p)

LEMMA PlusFacts ==
  ASSUME NEW p, NEW q, IsPolynomial(p), IsPolynomial(q), NEW m \in Monomial, NEW k \in Int
  PROVE  /\ IsPolynomial(MinusMMultP(p, m, P - k, q))
         /\ \A t : Coef(MinusMMultP(p, m, P - k, q), t) = ((Coef(p, t) + k * Multiple(m, q, t)) % P)
<1> DEFINE c == P - k
<1>1. c \in Int /\ P - c = k
  BY PAssumption
<1> HIDE DEF c
<1>2. \A t : Coef(MinusMMultP(p, m, c, q), t) = ((Coef(p, t) + (P - c) * Multiple(m, q, t)) % P)
  BY <1>1, SubtractCoef
<1>3. IsPolynomial(MinusMMultP(p, m, c, q))
  BY <1>1, SubtractIsPolynomial
<1>4. P - c = k
  BY <1>1
<1>. QED  BY <1>2, <1>3, <1>4 DEF c

LEMMA TimesFacts ==
  ASSUME NEW p, IsPolynomial(p), NEW m \in Monomial, NEW k \in Int
  PROVE  /\ IsPolynomial(Times(k, m, p))
         /\ \A t : Coef(Times(k, m, p), t) = ((k * Multiple(m, p, t)) % P)
<1>1. IsPolynomial(Zero) /\ \A t : Coef(Zero, t) = 0
  BY ZeroCoef
<1>2. /\ IsPolynomial(Times(k, m, p))
      /\ \A t : Coef(Times(k, m, p), t) = ((Coef(Zero, t) + k * Multiple(m, p, t)) % P)
  BY <1>1, PlusFacts DEF Times
<1>3. ASSUME NEW t PROVE Coef(Times(k, m, p), t) = ((k * Multiple(m, p, t)) % P)
  <2> DEFINE z == Multiple(m, p, t)
             g == k * z
  <2>1. z \in 0 .. P - 1
    BY MultipleFacts
  <2>2. z \in Int
    BY <2>1, PAssumption
  <2> HIDE DEF z
  <2>3. g \in Int
    BY <2>2
  <2> HIDE DEF g
  <2>4. 0 + g = g
    BY <2>3
  <2>5. Coef(Times(k, m, p), t) = (Coef(Zero, t) + g) % P
    BY <1>2 DEF g, z
  <2>. QED  BY <1>1, <2>4, <2>5 DEF g, z
<1>. QED  BY <1>2, <1>3

LEMMA ShiftedAt ==
  ASSUME NEW s \in Seq(TermSpace), NEW m \in Monomial
  PROVE  \A k \in 1 .. Len(s) : Shifted(m, s)[k].m = Mul(m, s[k].m) /\ Shifted(m, s)[k].c = s[k].c
<1>1. DOMAIN s = 1 .. Len(s)
  OBVIOUS
<1>2. ASSUME NEW k \in 1 .. Len(s)
      PROVE  Shifted(m, s)[k].m = Mul(m, s[k].m) /\ Shifted(m, s)[k].c = s[k].c
  <2>1. Shifted(m, s)[k] = [s[k] EXCEPT !.m = Mul(m, @)]
    BY <1>1 DEF Shifted
  <2>2. s[k] \in TermSpace /\ s[k].m \in Monomial
    BY <1>1, TermAt
  <2> DEFINE n == Mul(m, s[k].m)
  <2>3. n \in Monomial /\ Shifted(m, s)[k] = [s[k] EXCEPT !.m = n]
    BY <2>1, <2>2, DegMul
  <2> HIDE DEF n
  <2>4. [s[k] EXCEPT !.m = n].m = n /\ [s[k] EXCEPT !.m = n].c = s[k].c
    BY <2>2, <2>3, WithMonomial
  <2>. QED  BY <2>3, <2>4 DEF n
<1>. QED  BY <1>2

LEMMA ShiftedSum ==
  ASSUME NEW s, IsTerms(s), NEW m \in Monomial, NEW t
  PROVE  CoefSum(Shifted(m, s), t) = Multiple(m, ValueOf(s), t)
<1> DEFINE w == Shifted(m, s)
           p == ValueOf(s)
<1>1. s \in Seq(TermSpace) /\ Len(s) \in Nat /\ IsTerms(w) /\ Len(w) = Len(s)
  BY ShiftedTerms DEF IsTerms
<1>2. \A k \in 1 .. Len(s) : w[k].m = Mul(m, s[k].m) /\ w[k].c = s[k].c
  BY <1>1, ShiftedAt
<1>3. /\ IsPolynomial(p) /\ \A u : Coef(p, u) = CoefSum(s, u)
      /\ Support(p) = {s[k].m : k \in 1 .. Len(s)}
  BY TermsValueFacts
<1> HIDE DEF w, p
<1>4. CASE \E k \in 1 .. Len(s) : w[k].m = t
  <2>1. PICK k \in 1 .. Len(s) : w[k].m = t
    BY <1>4
  <2>2. CoefSum(w, w[k].m) = w[k].c /\ CoefSum(s, s[k].m) = s[k].c
    BY <1>1, CanonicalSum
  <2>3. s[k].m \in Monomial
    BY <1>1, TermAt
  <2>4. Multiple(m, p, Mul(m, s[k].m)) = Coef(p, s[k].m)
    BY <1>3, <2>3, MultipleFacts
  <2>. QED  BY <1>2, <1>3, <2>1, <2>2, <2>4 DEF w, p
<1>5. CASE ~\E k \in 1 .. Len(s) : w[k].m = t
  <2>1. CoefSum(w, t) = 0
    BY <1>1, <1>5, CanonicalSum
  <2>2. Multiple(m, p, t) = 0
    <3>1. ASSUME Multiple(m, p, t) # 0 PROVE FALSE
      <4>1. PICK u \in Support(p) : t = Mul(m, u)
        BY <1>3, <3>1, MultipleFacts
      <4>2. PICK k \in 1 .. Len(s) : u = s[k].m
        BY <1>3
      <4>. QED  BY <1>2, <1>5, <4>1, <4>2
    <3>. QED  BY <3>1
  <2>. QED  BY <2>1, <2>2 DEF w, p
<1>. QED  BY <1>4, <1>5

(* Term by term: w has the monomials of s and the coefficients g of them.  *)
LEMMA MappedValue ==
  ASSUME NEW s, IsTerms(s), NEW w, IsTerms(w), Len(w) = Len(s), NEW g, g[0] = 0,
         \A k \in 1 .. Len(s) : w[k].m = s[k].m /\ w[k].c = g[s[k].c]
  PROVE  \A t : CoefSum(w, t) = g[CoefSum(s, t)]
<1>1. /\ \A k \in 1 .. Len(s) : CoefSum(s, s[k].m) = s[k].c
      /\ \A t : (\A k \in 1 .. Len(s) : s[k].m # t) => CoefSum(s, t) = 0
      /\ \A k \in 1 .. Len(s) : CoefSum(w, w[k].m) = w[k].c
      /\ \A t : (\A k \in 1 .. Len(s) : w[k].m # t) => CoefSum(w, t) = 0
  BY CanonicalSum
<1>2. ASSUME NEW t PROVE CoefSum(w, t) = g[CoefSum(s, t)]
  <2>1. CASE \E k \in 1 .. Len(s) : s[k].m = t
    BY <1>1, <2>1
  <2>2. CASE ~\E k \in 1 .. Len(s) : s[k].m = t
    BY <1>1, <2>2
  <2>. QED  BY <2>1, <2>2
<1>. QED  BY <1>2

LEMMA ScaledAt ==
  ASSUME NEW s \in Seq(TermSpace), NEW c \in 0 .. P - 1
  PROVE  \A k \in 1 .. Len(s) : Scaled(c, s)[k].m = s[k].m /\ Scaled(c, s)[k].c = (c * s[k].c) % P
<1>1. DOMAIN s = 1 .. Len(s)
  OBVIOUS
<1>2. ASSUME NEW k \in 1 .. Len(s)
      PROVE  Scaled(c, s)[k].m = s[k].m /\ Scaled(c, s)[k].c = (c * s[k].c) % P
  <2> DEFINE b == c * s[k].c
             d == b % P
  <2>1. Scaled(c, s)[k] = [s[k] EXCEPT !.c = d]
    BY <1>1 DEF Scaled
  <2>2. s[k] \in TermSpace /\ s[k].c \in 0 .. P - 1
    BY <1>1, TermAt
  <2>3. b \in Int
    BY <2>2, PAssumption
  <2> HIDE DEF b
  <2>4. d \in 0 .. P - 1
    BY <2>3, ModFacts
  <2> HIDE DEF d
  <2>5. [s[k] EXCEPT !.c = d].c = d /\ [s[k] EXCEPT !.c = d].m = s[k].m
    BY <2>2, <2>4, WithCoefficient
  <2>. QED  BY <2>1, <2>5 DEF d, b
<1>. QED  BY <1>2

LEMMA NegatedAt ==
  ASSUME NEW s \in Seq(TermSpace)
  PROVE  \A k \in 1 .. Len(s) : Negated(s)[k].m = s[k].m /\ Negated(s)[k].c = ((P - s[k].c) % P)
<1>1. DOMAIN s = 1 .. Len(s)
  OBVIOUS
<1>2. ASSUME NEW k \in 1 .. Len(s)
      PROVE  Negated(s)[k].m = s[k].m /\ Negated(s)[k].c = ((P - s[k].c) % P)
  <2> DEFINE b == P - s[k].c
             d == b % P
  <2>1. Negated(s)[k] = [s[k] EXCEPT !.c = d]
    BY <1>1 DEF Negated
  <2>2. s[k] \in TermSpace /\ s[k].c \in 0 .. P - 1
    BY <1>1, TermAt
  <2>3. b \in Int
    BY <2>2, PAssumption
  <2> HIDE DEF b
  <2>4. d \in 0 .. P - 1
    BY <2>3, ModFacts
  <2> HIDE DEF d
  <2>5. [s[k] EXCEPT !.c = d].c = d /\ [s[k] EXCEPT !.c = d].m = s[k].m
    BY <2>2, <2>4, WithCoefficient
  <2>. QED  BY <2>1, <2>5 DEF d, b
<1>. QED  BY <1>2

(* neg, scale and shift multiply. *)
LEMMA NegatedValue ==
  ASSUME NEW s, IsTerms(s)
  PROVE  ValueOf(Negated(s)) = Times(P - 1, One, ValueOf(s))
<1> DEFINE w == Negated(s)
           p == ValueOf(s)
           g == [c \in 0 .. P - 1 |-> (P - c) % P]
<1>1. s \in Seq(TermSpace) /\ IsTerms(w) /\ Len(w) = Len(s) /\ Len(s) \in Nat /\ DOMAIN s = 1 .. Len(s)
  BY NegatedTerms DEF IsTerms
<1>2. \A k \in 1 .. Len(s) : w[k].m = s[k].m /\ w[k].c = ((P - s[k].c) % P) /\ s[k].c \in 0 .. P - 1
  BY <1>1, NegatedAt, TermAt
<1>3. P \in Nat /\ P > 1 /\ P - 1 \in Int
  BY PAssumption
<1>4. g[0] = 0
  <2>1. P = 0 + 1 * P
    BY <1>3
  <2>2. (P % P) = (0 % P)
    BY <1>3, <2>1, ModSame
  <2>3. (0 % P) = 0
    BY <1>3, ModSmall
  <2>4. 0 \in 0 .. P - 1 /\ P - 0 = P
    BY <1>3
  <2>. QED  BY <2>2, <2>3, <2>4
<1>5. \A k \in 1 .. Len(s) : w[k].m = s[k].m /\ w[k].c = g[s[k].c]
  BY <1>2
<1>6. IsPolynomial(p) /\ \A t : Coef(p, t) = CoefSum(s, t) /\ CoefSum(s, t) \in 0 .. P - 1
  BY TermsValueFacts
<1>7. \A t : CoefSum(w, t) = g[CoefSum(s, t)]
  <2> HIDE DEF w, g
  <2>. QED  BY <1>1, <1>4, <1>5, MappedValue
<1>8. /\ IsPolynomial(Times(P - 1, One, p))
      /\ \A t : Coef(Times(P - 1, One, p), t) = (((P - 1) * Multiple(One, p, t)) % P)
  <2> HIDE DEF p
  <2>. QED  BY <1>3, <1>6, DegOne, TimesFacts
<1>9. ASSUME NEW t \in Monomial PROVE CoefSum(w, t) = Coef(Times(P - 1, One, p), t)
  <2> DEFINE c == CoefSum(s, t)
             a == (P - 1) * c
             b == P - c
  <2>1. Multiple(One, p, t) = c /\ c \in 0 .. P - 1
    BY <1>6, MultipleOfOne
  <2>2. CoefSum(w, t) = (b % P)
    <3>1. CoefSum(w, t) = g[c]
      BY <1>7
    <3> HIDE DEF c, w
    <3>. QED  BY <2>1, <3>1
  <2>3. (b % P) = (a % P)
    <3> HIDE DEF c
    <3>1. a \in Int /\ b \in Int /\ 1 - c \in Int
      BY <1>3, <2>1
    <3>2. b = a + (1 - c) * P
      BY <1>3, <2>1
    <3> HIDE DEF a, b
    <3>. QED  BY <3>1, <3>2, ModSame
  <2>4. Coef(Times(P - 1, One, p), t) = (a % P)
    BY <1>8, <2>1
  <2>. QED  BY <2>2, <2>3, <2>4
<1>10. ValueOf(w) = Times(P - 1, One, p)
  <2> HIDE DEF w, p
  <2>. QED  BY <1>1, <1>8, <1>9, ValueIs
<1>. QED  BY <1>10

LEMMA ScaledCoef ==
  ASSUME NEW s, IsTerms(s), NEW c \in 1 .. P - 1
  PROVE  /\ IsTerms(Scaled(c, s))
         /\ \A t : CoefSum(Scaled(c, s), t) = ((c * CoefSum(s, t)) % P)
<1> DEFINE w == Scaled(c, s)
           g == [d \in 0 .. P - 1 |-> (c * d) % P]
<1>3. P \in Nat /\ P > 1 /\ c \in Int /\ c \in 0 .. P - 1 /\ c # 0
  BY PAssumption
<1>1. s \in Seq(TermSpace) /\ IsTerms(w) /\ Len(w) = Len(s) /\ Len(s) \in Nat /\ DOMAIN s = 1 .. Len(s)
  BY <1>3, ScaledTerms DEF IsTerms
<1>2. \A k \in 1 .. Len(s) : w[k].m = s[k].m /\ w[k].c = ((c * s[k].c) % P) /\ s[k].c \in 0 .. P - 1
  BY <1>1, <1>3, ScaledAt, TermAt
<1>4. g[0] = 0
  <2>1. (0 % P) = 0
    BY <1>3, ModSmall
  <2>2. 0 \in 0 .. P - 1 /\ c * 0 = 0
    BY <1>3
  <2>. QED  BY <2>1, <2>2
<1>5. \A k \in 1 .. Len(s) : w[k].m = s[k].m /\ w[k].c = g[s[k].c]
  BY <1>2
<1>6. \A t : CoefSum(s, t) \in 0 .. P - 1
  BY TermsValueFacts
<1>7. \A t : CoefSum(w, t) = g[CoefSum(s, t)]
  <2> HIDE DEF w, g
  <2>. QED  BY <1>1, <1>4, <1>5, MappedValue
<1>8. \A t : CoefSum(w, t) = ((c * CoefSum(s, t)) % P)
  <2> HIDE DEF w
  <2>. QED  BY <1>6, <1>7
<1>. QED  BY <1>1, <1>8

LEMMA ScaledValue ==
  ASSUME NEW s, IsTerms(s), NEW c \in 1 .. P - 1
  PROVE  ValueOf(Scaled(c, s)) = Times(c, One, ValueOf(s))
<1> DEFINE w == Scaled(c, s)
           p == ValueOf(s)
<1>1. IsTerms(w) /\ \A t : CoefSum(w, t) = ((c * CoefSum(s, t)) % P)
  BY ScaledCoef
<1>2. IsPolynomial(p) /\ \A t : Coef(p, t) = CoefSum(s, t)
  BY TermsValueFacts
<1>3. c \in Int
  BY PAssumption
<1> HIDE DEF w, p
<1>4. IsPolynomial(Times(c, One, p)) /\ \A t : Coef(Times(c, One, p), t) = ((c * Multiple(One, p, t)) % P)
  BY <1>2, <1>3, DegOne, TimesFacts
<1>5. \A t \in Monomial : Multiple(One, p, t) = CoefSum(s, t)
  BY <1>2, MultipleOfOne
<1>6. \A t \in Monomial : CoefSum(w, t) = Coef(Times(c, One, p), t)
  BY <1>1, <1>4, <1>5
<1>7. ValueOf(w) = Times(c, One, p)
  BY <1>1, <1>4, <1>6, ValueIs
<1>. QED  BY <1>7 DEF w, p

LEMMA ShiftedValue ==
  ASSUME NEW s, IsTerms(s), NEW m \in Monomial
  PROVE  ValueOf(Shifted(m, s)) = Times(1, m, ValueOf(s))
<1> DEFINE w == Shifted(m, s)
           p == ValueOf(s)
<1>1. IsTerms(w) /\ \A t : CoefSum(w, t) = Multiple(m, p, t)
  BY ShiftedSum, ShiftedTerms DEF IsTerms
<1>2. IsPolynomial(p)
  BY TermsValueFacts
<1> HIDE DEF w, p
<1>3. IsPolynomial(Times(1, m, p)) /\ \A t : Coef(Times(1, m, p), t) = ((1 * Multiple(m, p, t)) % P)
  BY <1>2, TimesFacts
<1>4. ASSUME NEW t PROVE CoefSum(w, t) = Coef(Times(1, m, p), t)
  <2> DEFINE z == Multiple(m, p, t)
  <2>1. z \in 0 .. P - 1
    BY <1>2, MultipleFacts
  <2>2. (z % P) = z /\ 1 * z = z
    <3> HIDE DEF z
    <3>. QED  BY <2>1, ModSmall, PAssumption
  <2>. QED  BY <1>1, <1>3, <2>2
<1>5. ValueOf(w) = Times(1, m, p)
  BY <1>1, <1>3, <1>4, ValueIs
<1>. QED  BY <1>5 DEF w, p

(* add, sub and sub_mul_term when they need no merge. *)
LEMMA PlusNothing ==
  ASSUME NEW p, IsPolynomial(p), NEW m \in Monomial, NEW k \in Int
  PROVE  MinusMMultP(p, m, P - k, Zero) = p
<1>1. IsPolynomial(Zero) /\ \A t : Coef(Zero, t) = 0
  BY ZeroCoef
<1> DEFINE r == MinusMMultP(p, m, P - k, Zero)
<1>2. IsPolynomial(r) /\ \A t : Coef(r, t) = ((Coef(p, t) + k * Multiple(m, Zero, t)) % P)
  BY <1>1, PlusFacts
<1> HIDE DEF r
<1>3. ASSUME NEW t PROVE Coef(r, t) = Coef(p, t)
  <2> DEFINE c == Coef(p, t)
  <2>1. Multiple(m, Zero, t) = 0
    BY ZeroFacts DEF Multiple
  <2>2. c \in 0 .. P - 1
    BY CoefFacts
  <2>3. c + k * 0 = c /\ (c % P) = c
    <3> HIDE DEF c
    <3>. QED  BY <2>2, ModSmall, PAssumption
  <2>. QED  BY <1>2, <2>1, <2>3
<1>4. r = p
  BY <1>2, <1>3, SamePolynomial
<1>. QED  BY <1>4 DEF r

LEMMA PlusOne ==
  ASSUME NEW p, IsPolynomial(p)
  PROVE  Times(1, One, p) = p
<1>1. IsPolynomial(Times(1, One, p)) /\ \A t : Coef(Times(1, One, p), t) = ((1 * Multiple(One, p, t)) % P)
  BY DegOne, TimesFacts
<1>2. ASSUME NEW t \in Monomial PROVE Coef(Times(1, One, p), t) = Coef(p, t)
  <2> DEFINE c == Coef(p, t)
  <2>1. Multiple(One, p, t) = c
    BY MultipleOfOne
  <2>2. c \in 0 .. P - 1
    BY CoefFacts
  <2>3. 1 * c = c /\ (c % P) = c
    <3> HIDE DEF c
    <3>. QED  BY <2>2, ModSmall, PAssumption
  <2>. QED  BY <1>1, <2>1, <2>3
<1>. QED  BY <1>1, <1>2, SamePolynomial

LEMMA MonicCoefs ==
  ASSUME NEW p, IsPolynomial(p), p # Zero
  PROVE  /\ IsPolynomial(Monic(p))
         /\ \A t : Coef(Monic(p), t) = ((Invert(LC(p)) * Coef(p, t)) % P)
<1> DEFINE a == Invert(LC(p))
           terms == [t \in Support(p) |-> (a * p.terms[t]) % P]
<1>1. LC(p) \in 1 .. P - 1 /\ P \in Nat /\ P > 1
  BY LeadingIsLargest, PAssumption
<1>2. a \in 1 .. P - 1
  BY <1>1, InvertFacts
<1>3. /\ IsFiniteSet(Support(p)) /\ Support(p) \subseteq Monomial
      /\ \A t \in Support(p) : p.terms[t] \in 1 .. P - 1
      /\ p = Poly(p.terms)
  BY DEF IsPolynomial, Support
<1> HIDE DEF a
<1>4. \A t \in Support(p) : ((a * p.terms[t]) % P) \in 1 .. P - 1
  <2>1. SUFFICES ASSUME NEW t \in Support(p) PROVE ((a * p.terms[t]) % P) \in 1 .. P - 1
    OBVIOUS
  <2> DEFINE d == p.terms[t]
             e == a * d
  <2>2. d \in 1 .. P - 1
    BY <1>3
  <2>3. (e % P) # 0
    BY <1>2, <2>2, NoZeroProduct
  <2>4. e \in Int
    <3> HIDE DEF d
    <3>. QED  BY <1>1, <1>2, <2>2
  <2> HIDE DEF e, d
  <2>5. (e % P) \in 0 .. P - 1
    BY <2>4, ModFacts
  <2>6. (e % P) \in 1 .. P - 1
    BY <2>3, <2>5
  <2>. QED  BY <2>6 DEF e, d
<1>5. terms \in [Support(p) -> 1 .. P - 1]
  BY <1>4
<1>6. Monic(p) = Poly(terms)
  <2>1. LM(p) = (IF Maxima(Support(p)) = {} THEN One ELSE CHOOSE m \in Maxima(Support(p)) : TRUE)
    BY <1>3 DEF Poly, LM, Support
  <2>2. DOMAIN terms = Support(p)
    OBVIOUS
  <2>3. Monic(p) = [terms |-> terms, lm |-> LM(p)]
    BY DEF Monic, a
  <2> HIDE DEF terms
  <2>. QED  BY <2>1, <2>2, <2>3 DEF Poly
<1>7. IsPolynomial(Poly(terms)) /\ Poly(terms).terms = terms /\ Support(Poly(terms)) = Support(p)
  <2> HIDE DEF terms
  <2>. QED  BY <1>3, <1>5, PolyIsPolynomial
<1>8. ASSUME NEW t PROVE Coef(Monic(p), t) = ((a * Coef(p, t)) % P)
  <2>1. CASE t \in Support(p)
    BY <1>6, <1>7, <2>1 DEF Coef
  <2>2. CASE t \notin Support(p)
    <3>1. Coef(Monic(p), t) = 0 /\ Coef(p, t) = 0
      BY <1>6, <1>7, <2>2 DEF Coef
    <3>2. a * 0 = 0 /\ (0 % P) = 0
      BY <1>1, <1>2, ModSmall
    <3>. QED  BY <3>1, <3>2
  <2>. QED  BY <2>1, <2>2
<1>. QED  BY <1>6, <1>7, <1>8 DEF a

LEMMA InvertOne == Invert(1) = 1
<1>1. P \in Nat /\ P > 1 /\ 1 \in 1 .. P - 1
  BY PAssumption
<1> DEFINE d == Invert(1)
<1>2. d \in 1 .. P - 1 /\ (1 * d) % P = 1
  BY <1>1, PAssumption DEF Invert
<1> HIDE DEF d
<1>3. 1 * d = d /\ d \in 0 .. P - 1
  BY <1>1, <1>2
<1>4. (d % P) = d
  BY <1>3, ModSmall
<1>5. d = 1
  BY <1>2, <1>3, <1>4
<1>. QED  BY <1>5 DEF d

LEMMA MonicValue ==
  ASSUME NEW s, IsTerms(s)
  PROVE  ValueOf(MonicOf(s)) = IF ValueOf(s) = Zero THEN Zero ELSE Monic(ValueOf(s))
<1> DEFINE p == ValueOf(s)
<1>1. CASE s = << >>
  BY <1>1, NoTerms DEF MonicOf
<1>2. CASE s # << >>
  <2>1. p # Zero /\ LC(p) = s[1].c /\ s[1].c \in 1 .. P - 1
    BY <1>2, ValueLeads
  <2>2. IsPolynomial(p) /\ \A t : Coef(p, t) = CoefSum(s, t) /\ CoefSum(s, t) \in 0 .. P - 1
    BY TermsValueFacts
  <2> HIDE DEF p
  <2> DEFINE a == Invert(LC(p))
  <2>3. IsPolynomial(Monic(p)) /\ \A t : Coef(Monic(p), t) = ((a * Coef(p, t)) % P)
    BY <2>1, <2>2, MonicCoefs
  <2>4. CASE s[1].c = 1
    <3>1. a = 1 /\ MonicOf(s) = s
      BY <2>1, <2>4, InvertOne DEF MonicOf
    <3>2. ASSUME NEW t PROVE CoefSum(s, t) = Coef(Monic(p), t)
      <4> DEFINE c == CoefSum(s, t)
      <4>1. c \in 0 .. P - 1 /\ Coef(Monic(p), t) = ((1 * c) % P)
        BY <2>2, <2>3, <3>1
      <4> HIDE DEF c
      <4>2. 1 * c = c /\ (c % P) = c
        BY <4>1, ModSmall, PAssumption
      <4>. QED  BY <4>1, <4>2 DEF c
    <3>3. ValueOf(s) = Monic(p)
      BY <2>3, <3>2, ValueIs
    <3>. QED  BY <2>1, <3>1, <3>3 DEF p
  <2>5. CASE s[1].c # 1
    <3>1. MonicOf(s) = Scaled(a, s)
      BY <1>2, <2>1, <2>5 DEF MonicOf
    <3>2. a \in 1 .. P - 1
      BY <2>1, InvertFacts
    <3> HIDE DEF a
    <3>3. IsTerms(Scaled(a, s)) /\ \A t : CoefSum(Scaled(a, s), t) = ((a * CoefSum(s, t)) % P)
      BY <3>2, ScaledCoef
    <3>4. \A t : CoefSum(Scaled(a, s), t) = Coef(Monic(p), t)
      BY <2>2, <2>3, <3>3
    <3>5. ValueOf(Scaled(a, s)) = Monic(p)
      BY <2>3, <3>3, <3>4, ValueIs
    <3>. QED  BY <2>1, <3>1, <3>5 DEF p
  <2>. QED  BY <2>4, <2>5
<1>. QED  BY <1>1, <1>2

LEMMA TailValue ==
  ASSUME NEW s, IsTerms(s), s # << >>
  PROVE  ValueOf(Tail(s)) = DropLeading(ValueOf(s))
<1> DEFINE p == ValueOf(s)
           w == Tail(s)
<1>1. p # Zero /\ LM(p) = s[1].m /\ LC(p) = s[1].c
  BY ValueLeads
<1>2. IsPolynomial(p) /\ \A t : Coef(p, t) = CoefSum(s, t) /\ CoefSum(s, t) \in 0 .. P - 1
  BY TermsValueFacts
<1>3. s \in Seq(TermSpace) /\ IsTerms(w) /\ w \in Seq(TermSpace) /\ 1 \in 1 .. Len(s)
  BY TailTerms DEF IsTerms
<1>4. IsPolynomial(DropLeading(p)) /\ \A t : Coef(DropLeading(p), t) = IF t = LM(p) THEN 0 ELSE Coef(p, t)
  BY <1>2, DropIsPolynomial, DropCoef
<1>5. ASSUME NEW t PROVE CoefSum(w, t) = Coef(DropLeading(p), t)
  <2>1. CoefSum(s, t) = CoefPart(s[1], t) + CoefSum(w, t) /\ CoefSum(w, t) \in Nat
    BY <1>3, SumHead, WeightsFacts
  <2>2. CASE t = s[1].m
    <3>1. CoefSum(s, t) = s[1].c /\ CoefPart(s[1], t) = s[1].c /\ s[1].c \in 1 .. P - 1
      BY <1>3, <2>2, CanonicalSum DEF CoefPart
    <3>2. s[1].c \in Nat
      BY <3>1, PAssumption
    <3> HIDE DEF w
    <3>3. CoefSum(w, t) = 0
      BY <2>1, <3>1, <3>2
    <3>. QED  BY <1>1, <1>4, <2>2, <3>3
  <2>3. CASE t # s[1].m
    <3>1. CoefPart(s[1], t) = 0
      BY <2>3 DEF CoefPart
    <3> HIDE DEF w
    <3>2. CoefSum(w, t) = CoefSum(s, t)
      BY <2>1, <3>1
    <3>. QED  BY <1>1, <1>2, <1>4, <2>3, <3>2
  <2>. QED  BY <2>2, <2>3
<1>6. ValueOf(w) = DropLeading(p)
  <2> HIDE DEF w, p
  <2>. QED  BY <1>3, <1>4, <1>5, ValueIs
<1>. QED  BY <1>6

-----------------------------------------------------------------------------
(* from_terms keeps the sum.                                               *)

(* Sorting puts every term somewhere. *)
LEMMA SortedSum ==
  ASSUME NEW ts \in Seq(TermSpace), NEW t
  PROVE  CoefSum(Sorted(ts), t) = CoefSum(ts, t)
<1> DEFINE D == DOMAIN ts
           f == [k \in D |-> Ahead(ts, k)]
           g == [n \in D |-> CHOOSE k \in D : Cardinality(Ahead(ts, k)) = n - 1]
           w == Sorted(ts)
<1>1. Len(ts) \in Nat /\ D = 1 .. Len(ts)
  OBVIOUS
<1>2. IsFiniteSet(D) /\ Cardinality(D) = Len(ts)
  BY <1>1, UpToFacts
<1>3. \A k \in D : ts[k].m \in Monomial /\ k \in Nat
  BY <1>1, TermAt
<1>4. \A k \in D : f[k] = Ahead(ts, k) /\ f[k] \subseteq D
  BY DEF Ahead
<1>5. ASSUME NEW k \in D PROVE k \notin f[k]
  <2>1. ~Less(ts[k].m, ts[k].m) /\ ~(k < k)
    BY <1>3, LessIrreflexive
  <2>. QED  BY <2>1 DEF Ahead
<1>6. ASSUME NEW k \in D, NEW l \in D PROVE k = l \/ k \in f[l] \/ l \in f[k]
  <2>1. ts[k].m = ts[l].m \/ Less(ts[k].m, ts[l].m) \/ Less(ts[l].m, ts[k].m)
    BY <1>3, LessTotal
  <2>2. k = l \/ k < l \/ l < k
    BY <1>3
  <2>. QED  BY <2>1, <2>2 DEF Ahead
<1>7. ASSUME NEW k \in D, NEW l \in D, l \in f[k] PROVE f[l] \subseteq f[k]
  <2>1. SUFFICES ASSUME NEW j \in f[l] PROVE j \in f[k]
    OBVIOUS
  <2>2. j \in D /\ k \in Nat /\ l \in Nat /\ j \in Nat
    BY <1>3, <1>4
  <2>3. Less(ts[k].m, ts[l].m) \/ (ts[l].m = ts[k].m /\ l < k)
    BY <1>4, <1>7 DEF Ahead
  <2>4. Less(ts[l].m, ts[j].m) \/ (ts[j].m = ts[l].m /\ j < l)
    BY <1>4 DEF Ahead
  <2>5. Less(ts[k].m, ts[l].m) /\ Less(ts[l].m, ts[j].m) => Less(ts[k].m, ts[j].m)
    BY <1>3, <2>2, LessTransitive
  <2>6. Less(ts[k].m, ts[j].m) \/ (ts[j].m = ts[k].m /\ j < k)
    BY <2>2, <2>3, <2>4, <2>5
  <2>. QED  BY <2>2, <2>6 DEF Ahead
<1> HIDE DEF f
<1>8. /\ \A n \in 1 .. Cardinality(D) : \E k \in D : Cardinality(f[k]) = n - 1
      /\ \A k, l \in D : Cardinality(f[k]) = Cardinality(f[l]) => k = l
      /\ \A k \in D : Cardinality(f[k]) \in 0 .. Cardinality(D) - 1
  <2>1. /\ \A k \in D : f[k] \subseteq D /\ k \notin f[k]
        /\ \A k, l \in D : k = l \/ k \in f[l] \/ l \in f[k]
        /\ \A k, l \in D : l \in f[k] => f[l] \subseteq f[k]
    BY <1>4, <1>5, <1>6, <1>7
  <2> HIDE DEF D
  <2>. QED  BY <1>2, <2>1, RankExists
<1>9. ASSUME NEW n \in D PROVE g[n] \in D /\ Cardinality(f[g[n]]) = n - 1
  <2>1. \E k \in D : Cardinality(Ahead(ts, k)) = n - 1
    BY <1>1, <1>2, <1>4, <1>8
  <2>2. g[n] = CHOOSE k \in D : Cardinality(Ahead(ts, k)) = n - 1
    OBVIOUS
  <2> HIDE DEF g
  <2>3. g[n] \in D /\ Cardinality(Ahead(ts, g[n])) = n - 1
    BY <2>1, <2>2
  <2>. QED  BY <1>4, <2>3
<1>10. w = [n \in D |-> ts[g[n]]]
  BY DEF Sorted, Ahead
<1>11. w \in Seq(TermSpace) /\ DOMAIN w = D
  BY <1>10, SortedFacts
<1> HIDE DEF g, w
<1>12. Corresponds(D, D, g)
  <2>1. \A j, l \in D : g[j] = g[l] => j = l
    <3>1. \A j \in D : Cardinality(f[g[j]]) = j - 1 /\ j \in Nat
      BY <1>3, <1>9
    <3>. QED  BY <3>1
  <2>2. ASSUME NEW k \in D PROVE \E j \in D : g[j] = k
    <3> DEFINE n == Cardinality(f[k]) + 1
    <3>1. n \in D /\ n - 1 = Cardinality(f[k])
      <4> DEFINE c == Cardinality(f[k])
      <4>1. c \in 0 .. Cardinality(D) - 1
        BY <1>8
      <4> HIDE DEF c
      <4>2. c + 1 \in 1 .. Cardinality(D) /\ (c + 1) - 1 = c
        BY <1>1, <1>2, <4>1
      <4>. QED  BY <1>1, <1>2, <4>2 DEF c
    <3> HIDE DEF n
    <3>2. Cardinality(f[g[n]]) = Cardinality(f[k]) /\ g[n] \in D
      BY <1>9, <3>1
    <3>3. g[n] = k
      BY <1>8, <3>2
    <3>. QED  BY <3>1, <3>3
  <2>. QED  BY <1>9, <2>1, <2>2 DEF Corresponds
<1> DEFINE v == Weights(w, t)
           b == Weights(ts, t)
<1>13. /\ \A k \in D : v[k] = CoefPart(w[k], t) /\ v[k] \in Nat
       /\ \A k \in D : b[k] = CoefPart(ts[k], t)
  BY <1>11, WeightsFacts
<1>14. \A k \in D : v[k] = b[g[k]] /\ v[k] \in Nat
  <2>1. SUFFICES ASSUME NEW k \in D PROVE v[k] = b[g[k]]
    BY <1>13
  <2>2. w[k] = ts[g[k]] /\ g[k] \in D
    BY <1>9, <1>10
  <2> HIDE DEF v, b
  <2>. QED  BY <1>13, <2>2
<1> HIDE DEF v, b, D
<1>15. Total(v, D) = Total(b, D)
  BY <1>2, <1>12, <1>14, TotalMoved
<1>. QED  BY <1>11, <1>15 DEF CoefSum, v, b, w, D

(* One turn of the loop of from_terms adds the term at hand.               *)
LEMMA KeptAdds ==
  ASSUME NEW so \in Seq(TermSpace), NEW e \in TermSpace, NEW t
  PROVE  (CoefSum(KeptStep(e, so), t) % P) = (CoefSum(so, t) + CoefPart(e, t)) % P
<1>0. /\ e.c \in 0 .. P - 1 /\ e.m \in Monomial /\ CoefPart(e, t) \in Int /\ CoefSum(so, t) \in Int
      /\ P \in Nat /\ P > 1
  BY TermFacts, PartTyped, WeightsFacts, PAssumption
<1>1. CASE e.c = 0
  <2>1. CoefPart(e, t) = 0 /\ KeptStep(e, so) = so
    BY <1>1 DEF CoefPart, KeptStep
  <2>2. CoefSum(so, t) + 0 = CoefSum(so, t)
    BY <1>0
  <2>. QED  BY <2>1, <2>2
<1>2. CASE e.c # 0 /\ (so = << >> \/ so[Len(so)].m # e.m)
  <2>1. KeptStep(e, so) = Append(so, e)
    BY <1>2 DEF KeptStep
  <2>. QED  BY <2>1, SumAppend
<1>3. CASE e.c # 0 /\ so # << >> /\ so[Len(so)].m = e.m
  <2> DEFINE n == Len(so)
             o == Front(so)
             l == Last(so)
             y2 == e.c + l.c
             h == y2 % P
             u == [e EXCEPT !.c = h]
  <2>1. n \in Nat /\ n >= 1 /\ o \in Seq(TermSpace) /\ l = so[n] /\ l \in TermSpace /\ so = Append(o, l)
    <3>1. n \in Nat /\ n >= 1
      BY <1>3
    <3>2. o \in Seq(TermSpace) /\ Len(o) = n - 1 /\ \A k \in 1 .. n - 1 : o[k] = so[k]
      <4> DEFINE i == n - 1
      <4>1. Front(so) = SubSeq(so, 1, i) /\ i \in Nat /\ i <= Len(so)
        BY <3>1 DEF Front
      <4> HIDE DEF i
      <4>2. Len(SubSeq(so, 1, i)) = i
        BY ONLY <4>1, so \in Seq(TermSpace)
      <4>3. \A k \in 1 .. i : SubSeq(so, 1, i)[k] = so[k]
        BY ONLY <4>1, so \in Seq(TermSpace)
      <4>4. SubSeq(so, 1, i) \in Seq(TermSpace)
        BY ONLY <4>1, so \in Seq(TermSpace)
      <4>. QED  BY <4>1, <4>2, <4>3, <4>4 DEF i
    <3>3. l = so[n] /\ l \in TermSpace
      BY <3>1 DEF Last
    <3> DEFINE a == Append(o, l)
    <3>4. a \in Seq(TermSpace) /\ Len(a) = n /\ \A k \in 1 .. n : a[k] = so[k]
      <4> HIDE DEF o, l
      <4>1. a \in Seq(TermSpace) /\ Len(a) = n
        BY <3>1, <3>2, <3>3
      <4>2. \A k \in 1 .. n : a[k] = so[k]
        BY <3>1, <3>2, <3>3
      <4>. QED  BY <4>1, <4>2
    <3>5. so = a
      <4> HIDE DEF a
      <4>. QED  BY <3>4, SameSeq
    <3>. QED  BY <3>1, <3>2, <3>3, <3>5
  <2>2. l.c \in 0 .. P - 1 /\ l.m = e.m /\ y2 \in Int
    <3>1. l.c \in 0 .. P - 1 /\ l.m = e.m
      BY <1>3, <2>1, TermFacts
    <3> HIDE DEF l
    <3>. QED  BY <1>0, <3>1
  <2>3. h \in 0 .. P - 1
    <3> HIDE DEF y2
    <3>. QED  BY <2>2, ModFacts
  <2>4. u \in TermSpace /\ u.c = h /\ u.m = e.m
    <3> HIDE DEF h
    <3>. QED  BY <2>3, WithCoefficient
  <2>5. KeptStep(e, so) = IF h = 0 THEN o ELSE Append(o, u)
    BY <1>3 DEF KeptStep
  <2> HIDE DEF o, l, n, u
  <2>6. CoefSum(so, t) = CoefSum(o, t) + CoefPart(l, t) /\ CoefSum(o, t) \in Int
    <3>0. o \in Seq(TermSpace) /\ l \in TermSpace
      BY <2>1
    <3>1. CoefSum(Append(o, l), t) = CoefSum(o, t) + CoefPart(l, t) /\ CoefSum(o, t) \in Int
      BY <3>0, SumAppend, WeightsFacts
    <3>. QED  BY <2>1, <3>1
  <2>7. CoefPart(l, t) \in Int /\ CoefPart(u, t) \in Int
    BY <2>1, <2>4, PartTyped
  <2>8. CoefPart(u, t) = ((CoefPart(e, t) + CoefPart(l, t)) % P)
    <3>1. CASE e.m = t
      BY <2>2, <2>4, <3>1 DEF CoefPart
    <3>2. CASE e.m # t
      <4>1. CoefPart(u, t) = 0 /\ CoefPart(e, t) = 0 /\ CoefPart(l, t) = 0
        BY <2>2, <2>4, <3>2 DEF CoefPart
      <4>2. (0 % P) = 0 /\ 0 + 0 = 0
        BY <1>0, ModSmall
      <4>. QED  BY <4>1, <4>2
    <3>. QED  BY <3>1, <3>2
  <2>9. CoefSum(KeptStep(e, so), t) = CoefSum(o, t) + CoefPart(u, t)
    <3>1. CASE h = 0
      <4>1. CoefPart(u, t) = 0
        BY <2>4, <3>1 DEF CoefPart
      <4>2. CoefSum(o, t) + 0 = CoefSum(o, t)
        BY <2>6
      <4> HIDE DEF h
      <4>. QED  BY <2>5, <3>1, <4>1, <4>2
    <3>2. CASE h # 0
      <4> HIDE DEF h
      <4>1. KeptStep(e, so) = Append(o, u)
        BY <2>5, <3>2
      <4>. QED  BY <2>1, <2>4, <4>1, SumAppend
    <3>. QED  BY <3>1, <3>2
  <2> DEFINE a == CoefSum(o, t)
             b == CoefPart(e, t) + CoefPart(l, t)
  <2>10. a \in Int /\ b \in Int /\ CoefSum(so, t) + CoefPart(e, t) = a + b
    BY <1>0, <2>6, <2>7
  <2>11. CoefSum(KeptStep(e, so), t) = a + (b % P)
    BY <2>8, <2>9
  <2> HIDE DEF a, b
  <2>12. (a + (b % P)) % P = (a + b) % P
    BY <2>10, ModInside
  <2>. QED  BY <2>10, <2>11, <2>12
<1>. QED  BY <1>1, <1>2, <1>3

(* The first n elements. *)
LEMMA UpTo ==
  ASSUME NEW S, NEW s \in Seq(S)
  PROVE  /\ SubSeq(s, 1, 0) = << >> /\ SubSeq(s, 1, Len(s)) = s
         /\ \A n \in 1 .. Len(s) : /\ SubSeq(s, 1, n - 1) \in Seq(S)
                                   /\ SubSeq(s, 1, n) = Append(SubSeq(s, 1, n - 1), s[n])
<1>1. Len(s) \in Nat
  OBVIOUS
<1>2. SubSeq(s, 1, 0) = << >>
  BY <1>1
<1>3. SubSeq(s, 1, Len(s)) = s
  BY <1>1, RestAll DEF RestOf
<1>4. ASSUME NEW n \in 1 .. Len(s)
      PROVE  /\ SubSeq(s, 1, n - 1) \in Seq(S)
             /\ SubSeq(s, 1, n) = Append(SubSeq(s, 1, n - 1), s[n])
  <2> DEFINE a == SubSeq(s, 1, n)
             b == SubSeq(s, 1, n - 1)
             c == Append(b, s[n])
  <2>1. n \in Nat /\ n >= 1 /\ n <= Len(s) /\ s[n] \in S
    BY <1>1
  <2>2. a \in Seq(S) /\ Len(a) = n /\ \A k \in 1 .. n : a[k] = s[k]
    BY <1>1, <2>1
  <2>3. b \in Seq(S) /\ Len(b) = n - 1 /\ \A k \in 1 .. n - 1 : b[k] = s[k]
    BY <1>1, <2>1
  <2> HIDE DEF a, b
  <2>4. c \in Seq(S) /\ Len(c) = n /\ \A k \in 1 .. n : c[k] = s[k]
    BY <2>1, <2>3
  <2> HIDE DEF c
  <2>5. a = c
    BY <2>2, <2>4, SameSeq
  <2>. QED  BY <2>3, <2>5 DEF a, b, c
<1>. QED  BY <1>2, <1>3, <1>4

LEMMA SurvivingSum ==
  ASSUME NEW ts \in Seq(TermSpace), NEW t
  PROVE  CoefSum(Surviving(ts), t) = (CoefSum(ts, t) % P)
<1> DEFINE w == Sorted(ts)
           N == Len(w)
           f == KeptRun(w)
           up(n) == SubSeq(w, 1, n)
           S == {n \in 0 .. N : f[n] \in Seq(TermSpace)
                                /\ (CoefSum(f[n], t) % P) = (CoefSum(up(n), t) % P)}
<1>1. w \in Seq(TermSpace) /\ N \in Nat /\ CoefSum(w, t) = CoefSum(ts, t)
  BY SortedFacts, SortedSum
<1>2. f[0] = << >> /\ \A n \in 1 .. N : f[n] = KeptStep(w[n], f[n - 1])
  BY <1>1, KeptFacts
<1>3. Surviving(ts) = f[N]
  BY DEF Surviving, KeptRun
<1>4. /\ up(0) = << >> /\ up(N) = w
      /\ \A n \in 1 .. N : up(n - 1) \in Seq(TermSpace) /\ up(n) = Append(up(n - 1), w[n])
  BY <1>1, UpTo
<1>5. \A n \in 1 .. N : w[n] \in TermSpace
  BY <1>1
<1> HIDE DEF w, f, up
<1>6. 0 \in S
  BY <1>1, <1>2, <1>4
<1>7. ASSUME NEW n \in 1 .. N, n - 1 \in S PROVE n \in S
  <2> DEFINE e == w[n]
             o == f[n - 1]
             q == up(n - 1)
  <2>1. o \in Seq(TermSpace) /\ (CoefSum(o, t) % P) = (CoefSum(q, t) % P) /\ n \in 0 .. N
    BY <1>1, <1>7
  <2>2. e \in TermSpace /\ q \in Seq(TermSpace) /\ f[n] = KeptStep(e, o) /\ up(n) = Append(q, e)
    BY <1>2, <1>4, <1>5
  <2> HIDE DEF e, o, q
  <2>3. f[n] \in Seq(TermSpace)
    BY <2>1, <2>2, KeptTyped
  <2>4. (CoefSum(f[n], t) % P) = (CoefSum(o, t) + CoefPart(e, t)) % P
    BY <2>1, <2>2, KeptAdds
  <2>5. CoefSum(up(n), t) = CoefSum(q, t) + CoefPart(e, t)
    BY <2>2, SumAppend
  <2> DEFINE a == CoefSum(o, t)
             b == CoefSum(q, t)
             d == CoefPart(e, t)
  <2>6. a \in Int /\ b \in Int /\ d \in Int
    BY <2>1, <2>2, WeightsFacts, PartTyped
  <2>7. (a % P) = (b % P)
    BY <2>1
  <2> HIDE DEF a, b, d
  <2>8. ((a + d) % P) = (((a % P) + d) % P) /\ ((b + d) % P) = (((b % P) + d) % P)
    BY <2>6, ModAdd
  <2>9. ((a + d) % P) = ((b + d) % P)
    BY <2>7, <2>8
  <2>10. (CoefSum(f[n], t) % P) = (CoefSum(up(n), t) % P)
    BY <2>4, <2>5, <2>9 DEF a, b, d
  <2>. QED  BY <2>1, <2>3, <2>10
<1>8. N \in S
  <2>1. \A n \in 0 .. N : n \in S
    <3> HIDE DEF S, N
    <3>. QED  BY <1>1, <1>6, <1>7, InductionUpTo
  <2>. QED  BY <1>1, <2>1
<1>9. (CoefSum(f[N], t) % P) = (CoefSum(ts, t) % P)
  BY <1>1, <1>4, <1>8
<1>10. CoefSum(Surviving(ts), t) \in 0 .. P - 1
  BY SurvivingTerms, TermsValueFacts
<1>11. (CoefSum(Surviving(ts), t) % P) = CoefSum(Surviving(ts), t)
  BY <1>10, ModSmall
<1>. QED  BY <1>3, <1>9, <1>11

-----------------------------------------------------------------------------
(* Products.                                                               *)

LEMMA AppendTwice ==
  ASSUME NEW S, NEW s \in Seq(S), NEW u \in Seq(S), NEW e \in S
  PROVE  s \o Append(u, e) = Append(s \o u, e) /\ s \o u \in Seq(S)
<1> DEFINE a == s \o Append(u, e)
           b == Append(s \o u, e)
           n == Len(s) + Len(u) + 1
<1>1. Len(s) \in Nat /\ Len(u) \in Nat /\ n \in Nat
  OBVIOUS
<1>2. a \in Seq(S) /\ Len(a) = n /\ b \in Seq(S) /\ Len(b) = n
  BY <1>1
<1>3. \A k \in 1 .. n : a[k] = b[k]
  BY <1>1
<1> HIDE DEF a, b
<1>4. a = b
  BY <1>2, <1>3, SameSeq
<1>. QED  BY <1>4 DEF a, b

LEMMA SumConcat ==
  ASSUME NEW s \in Seq(TermSpace), NEW u \in Seq(TermSpace), NEW t
  PROVE  CoefSum(s \o u, t) = CoefSum(s, t) + CoefSum(u, t)
<1> DEFINE N == Len(u)
           up(n) == SubSeq(u, 1, n)
           S == {n \in 0 .. N : up(n) \in Seq(TermSpace)
                                /\ CoefSum(s \o up(n), t) = CoefSum(s, t) + CoefSum(up(n), t)}
<1>1. N \in Nat /\ CoefSum(s, t) \in Nat
  BY WeightsFacts
<1>2. /\ up(0) = << >> /\ up(N) = u
      /\ \A n \in 1 .. N : up(n - 1) \in Seq(TermSpace) /\ up(n) = Append(up(n - 1), u[n])
  BY UpTo
<1>3. \A n \in 1 .. N : u[n] \in TermSpace
  OBVIOUS
<1> HIDE DEF up
<1>4. 0 \in S
  <2>1. s \o << >> = s /\ CoefSum(<< >>, t) = 0 /\ << >> \in Seq(TermSpace)
    BY SumOfNone
  <2>2. CoefSum(s, t) + 0 = CoefSum(s, t)
    BY <1>1
  <2> DEFINE o == up(0)
  <2>3. o = << >>
    BY <1>2
  <2> HIDE DEF o
  <2>4. o \in Seq(TermSpace) /\ s \o o = s /\ CoefSum(o, t) = 0
    BY <2>1, <2>3
  <2>5. o \in Seq(TermSpace) /\ CoefSum(s \o o, t) = CoefSum(s, t) + CoefSum(o, t)
    BY <2>2, <2>4
  <2>. QED  BY <1>1, <2>5 DEF o
<1>5. ASSUME NEW n \in 1 .. N, n - 1 \in S PROVE n \in S
  <2> DEFINE q == up(n - 1)
             e == u[n]
             w == s \o q
  <2>1. q \in Seq(TermSpace) /\ e \in TermSpace /\ up(n) = Append(q, e) /\ n \in 0 .. N
    BY <1>1, <1>2, <1>3
  <2>2. CoefSum(w, t) = CoefSum(s, t) + CoefSum(q, t)
    BY <1>5
  <2> HIDE DEF q, e
  <2>3. s \o Append(q, e) = Append(w, e) /\ w \in Seq(TermSpace) /\ Append(q, e) \in Seq(TermSpace)
    BY <2>1, AppendTwice
  <2> HIDE DEF w
  <2>4. CoefSum(Append(w, e), t) = CoefSum(w, t) + CoefPart(e, t)
    BY <2>1, <2>3, SumAppend
  <2>5. CoefSum(Append(q, e), t) = CoefSum(q, t) + CoefPart(e, t)
    BY <2>1, SumAppend
  <2>6. CoefSum(q, t) \in Nat /\ CoefPart(e, t) \in Int
    BY <2>1, WeightsFacts, PartTyped
  <2> DEFINE a == CoefSum(s, t)
             b == CoefSum(q, t)
             d == CoefPart(e, t)
  <2>7. (a + b) + d = a + (b + d)
    <3>1. a \in Int /\ b \in Int /\ d \in Int
      BY <1>1, <2>6
    <3> HIDE DEF a, b, d
    <3>. QED  BY <3>1
  <2>8. CoefSum(s \o up(n), t) = CoefSum(s, t) + CoefSum(up(n), t)
    BY <2>1, <2>2, <2>3, <2>4, <2>5, <2>7
  <2>. QED  BY <2>1, <2>3, <2>8
<1>6. \A n \in 0 .. N : n \in S
  <2> HIDE DEF S, N
  <2>. QED  BY <1>1, <1>4, <1>5, InductionUpTo
<1>. QED  BY <1>1, <1>2, <1>6

(* A row of the product. *)
LEMMA RowSum ==
  ASSUME NEW u, IsTerms(u), NEW c \in 1 .. P - 1, NEW m \in Monomial
  PROVE  /\ Scaled(c, Shifted(m, u)) \in Seq(TermSpace)
         /\ \A t : CoefSum(Scaled(c, Shifted(m, u)), t) = ((c * Multiple(m, ValueOf(u), t)) % P)
<1> DEFINE v == Shifted(m, u)
<1>1. IsTerms(v) /\ \A t : CoefSum(v, t) = Multiple(m, ValueOf(u), t)
  BY ShiftedTerms, ShiftedSum DEF IsTerms
<1> HIDE DEF v
<1>2. IsTerms(Scaled(c, v)) /\ \A t : CoefSum(Scaled(c, v), t) = ((c * CoefSum(v, t)) % P)
  BY <1>1, ScaledCoef
<1>3. Scaled(c, v) \in Seq(TermSpace)
  BY <1>2 DEF IsTerms
<1>. QED  BY <1>1, <1>2, <1>3 DEF v

(* What the terms of s contribute to the coefficient of t in the product.  *)
Contributions(s, q, t) == [k \in DOMAIN s |-> s[k].c * Multiple(s[k].m, q, t)]

LEMMA ContributionsFacts ==
  ASSUME NEW s, IsTerms(s), NEW q, IsPolynomial(q), NEW t
  PROVE  \A k \in DOMAIN s : /\ Contributions(s, q, t)[k] = s[k].c * Multiple(s[k].m, q, t)
                             /\ Contributions(s, q, t)[k] \in Nat
                             /\ s[k].m \in Monomial /\ s[k].c \in 1 .. P - 1
<1>1. SUFFICES ASSUME NEW k \in DOMAIN s
               PROVE  /\ s[k].c * Multiple(s[k].m, q, t) \in Nat
                      /\ s[k].m \in Monomial /\ s[k].c \in 1 .. P - 1
  BY DEF Contributions
<1>2. s \in Seq(TermSpace) /\ DOMAIN s = 1 .. Len(s)
  BY DEF IsTerms
<1>3. s[k].m \in Monomial /\ s[k].c \in 1 .. P - 1
  BY <1>2, TermAt, CanonicalSum
<1> DEFINE a == s[k].c
           b == Multiple(s[k].m, q, t)
<1>4. b \in 0 .. P - 1
  BY <1>3, MultipleFacts
<1>5. a \in Nat /\ b \in Nat
  BY <1>3, <1>4, PAssumption
<1> HIDE DEF a, b
<1>6. a * b \in Nat
  BY <1>5
<1>. QED  BY <1>3, <1>6 DEF a, b

LEMMA ProductSum ==
  ASSUME NEW s, IsTerms(s), NEW u, IsTerms(u), NEW t
  PROVE  (CoefSum(Products(s, u), t) % P) = (Total(Contributions(s, ValueOf(u), t), DOMAIN s) % P)
<1> DEFINE N == Len(s)
           q == ValueOf(u)
           v == Contributions(s, q, t)
           r == [k \in DOMAIN s |-> Scaled(s[k].c, Shifted(s[k].m, u))]
<1>1. s \in Seq(TermSpace) /\ u \in Seq(TermSpace) /\ DOMAIN s = 1 .. N /\ N \in Nat /\ P \in Nat /\ P > 1
  BY PAssumption DEF IsTerms
<1>2. IsPolynomial(q)
  BY TermsValueFacts
<1>3. \A k \in 1 .. N : /\ v[k] \in Nat /\ v[k] = s[k].c * Multiple(s[k].m, q, t)
                        /\ s[k].m \in Monomial /\ s[k].c \in 1 .. P - 1
  <2> HIDE DEF q
  <2>1. \A k \in DOMAIN s : /\ v[k] = s[k].c * Multiple(s[k].m, q, t)
                            /\ v[k] \in Nat
                            /\ s[k].m \in Monomial /\ s[k].c \in 1 .. P - 1
    BY ONLY <1>2, ContributionsFacts, IsTerms(s)
  <2> HIDE DEF v
  <2>. QED  BY <1>1, <2>1
<1>4. \A k \in 1 .. N : r[k] \in Seq(TermSpace) /\ CoefSum(r[k], t) = (v[k] % P)
  <2>1. SUFFICES ASSUME NEW k \in 1 .. N PROVE r[k] \in Seq(TermSpace) /\ CoefSum(r[k], t) = (v[k] % P)
    OBVIOUS
  <2> DEFINE c == s[k].c
             m == s[k].m
  <2>2. r[k] = Scaled(c, Shifted(m, u)) /\ c \in 1 .. P - 1 /\ m \in Monomial /\ v[k] = c * Multiple(m, q, t)
    BY <1>1, <1>3
  <2> HIDE DEF r, v, c, m
  <2>. QED  BY <2>2, RowSum
<1>5. CASE N = 0
  <2>1. Products(s, u) = << >> /\ DOMAIN s = {}
    <3>1. s = << >>
      BY <1>1, <1>5
    <3>2. Products(s, u) = << >>
      BY <1>1, <3>1, ProductTerms
    <3>3. 1 .. 0 = {}
      OBVIOUS
    <3>. QED  BY <1>1, <1>5, <3>2, <3>3
  <2>. QED  BY <2>1, TotalEmpty, SumOfNone
<1>6. CASE N # 0
  <2>1. Products(s, u) = FlattenSeq(r)
    BY DEF Products
  <2>2. r \in Seq(Seq(TermSpace)) /\ Len(r) = N
    <3>1. DOMAIN r = DOMAIN s /\ r = [k \in DOMAIN r |-> r[k]]
      OBVIOUS
    <3>2. \A k \in DOMAIN s : r[k] \in Seq(TermSpace)
      BY <1>1, <1>4
    <3> HIDE DEF r
    <3>. QED  BY <1>1, <3>1, <3>2, MappedSeq
  <2> HIDE DEF r, v, q
  <2>3. PICK h : /\ FlattenSeq(r) = h[N] /\ h[1] = r[1]
                 /\ \A n \in 1 .. N : h[n] \in Seq(TermSpace)
                 /\ \A n \in 2 .. N : h[n] = h[n - 1] \o r[n]
    <3>1. Len(r) # 0
      BY <1>6, <2>2
    <3>2. \E h : /\ FlattenSeq(r) = h[Len(r)] /\ h[1] = r[1]
                 /\ \A n \in 1 .. Len(r) : h[n] \in Seq(TermSpace)
                 /\ \A n \in 2 .. Len(r) : h[n] = h[n - 1] \o r[n]
      BY <2>2, <3>1, FlattenFacts
    <3>. QED  BY <2>2, <3>2
  <2> DEFINE g == [n \in 0 .. N |-> IF n = 0 THEN << >> ELSE h[n]]
             S == {n \in 0 .. N : (CoefSum(g[n], t) % P) = (Total(v, 1 .. n) % P)}
  <2>4. /\ g[0] = << >> /\ g[N] = h[N]
        /\ \A n \in 1 .. N : g[n - 1] \in Seq(TermSpace) /\ g[n] = g[n - 1] \o r[n]
    <3>1. g[0] = << >> /\ g[N] = h[N] /\ \A n \in 1 .. N : g[n] = h[n]
      BY <1>1, <1>6
    <3> HIDE DEF g
    <3>2. << >> \in Seq(TermSpace) /\ \A n \in 1 .. N : r[n] \in Seq(TermSpace)
      BY <1>4
    <3>3. ASSUME NEW n \in 1 .. N
          PROVE  g[n - 1] \in Seq(TermSpace) /\ g[n] = g[n - 1] \o r[n]
      <4>1. CASE n = 1
        <5> DEFINE e == r[1]
        <5>1. e \in Seq(TermSpace) /\ g[1] = e /\ g[1 - 1] = << >>
          BY <2>3, <3>1, <3>2, <4>1
        <5> HIDE DEF e
        <5>2. << >> \o e = e
          BY <5>1
        <5>. QED  BY <3>2, <4>1, <5>1, <5>2 DEF e
      <4>2. CASE n # 1
        <5>1. n \in 2 .. N /\ n - 1 \in 1 .. N
          BY <1>1, <4>2
        <5>. QED  BY <2>3, <3>1, <5>1
      <4>. QED  BY <4>1, <4>2
    <3>. QED  BY <3>1, <3>3
  <2> HIDE DEF g
  <2>5. \A n \in 0 .. N : IsFiniteSet(1 .. n) /\ (\A k \in 1 .. n : v[k] \in Nat) /\ Total(v, 1 .. n) \in Nat
    <3>1. SUFFICES ASSUME NEW n \in 0 .. N
                   PROVE  /\ IsFiniteSet(1 .. n) /\ (\A k \in 1 .. n : v[k] \in Nat)
                          /\ Total(v, 1 .. n) \in Nat
      OBVIOUS
    <3>2. n \in Nat /\ 1 .. n \subseteq 1 .. N
      BY <1>1
    <3>3. IsFiniteSet(1 .. n)
      BY <3>2, UpToFacts
    <3>4. \A k \in 1 .. n : v[k] \in Nat
      BY <1>3, <3>2
    <3>. QED  BY <3>3, <3>4, TotalType
  <2>6. 0 \in S
    <3>1. 1 .. 0 = {}
      OBVIOUS
    <3>2. Total(v, 1 .. 0) = 0 /\ CoefSum(g[0], t) = 0
      BY <2>4, <3>1, TotalEmpty, SumOfNone
    <3>. QED  BY <1>1, <3>2
  <2>7. ASSUME NEW n \in 1 .. N, n - 1 \in S PROVE n \in S
    <3> DEFINE o == g[n - 1]
               e == r[n]
               a == CoefSum(o, t)
               b == Total(v, 1 .. n - 1)
               d == v[n]
    <3>1. o \in Seq(TermSpace) /\ e \in Seq(TermSpace) /\ g[n] = o \o e /\ CoefSum(e, t) = (d % P)
      BY <1>4, <2>4
    <3>2. (a % P) = (b % P) /\ n \in 0 .. N /\ n - 1 \in 0 .. N
      BY <1>1, <2>7
    <3>3. CoefSum(g[n], t) = a + (d % P) /\ a \in Int
      <4> HIDE DEF o, e, d
      <4>. QED  BY <3>1, SumConcat, WeightsFacts
    <3>4. b \in Int /\ d \in Int
      BY <1>3, <2>5, <3>2
    <3>5. Total(v, 1 .. n) = d + b
      <4>1. n \in 1 .. n /\ (1 .. n) \ {n} = 1 .. n - 1
        BY <1>1
      <4>2. IsFiniteSet(1 .. n) /\ \A k \in 1 .. n : v[k] \in Nat
        BY <2>5, <3>2
      <4> DEFINE T == 1 .. n
      <4>3. n \in T /\ IsFiniteSet(T) /\ (\A k \in T : v[k] \in Nat) /\ T \ {n} = 1 .. n - 1
        BY <4>1, <4>2
      <4> HIDE DEF T
      <4>4. Total(v, T) = v[n] + Total(v, T \ {n})
        BY <4>3, TotalStep
      <4>. QED  BY <4>3, <4>4 DEF T
    <3> HIDE DEF o, e, a, b, d
    <3>6. (a + (d % P)) % P = (a + d) % P
      BY <3>3, <3>4, ModInside
    <3>7. ((a + d) % P) = (((a % P) + d) % P) /\ ((b + d) % P) = (((b % P) + d) % P)
      BY <3>3, <3>4, ModAdd
    <3>8. b + d = d + b
      BY <3>4
    <3>9. (CoefSum(g[n], t) % P) = (Total(v, 1 .. n) % P)
      BY <3>2, <3>3, <3>5, <3>6, <3>7, <3>8
    <3>. QED  BY <3>2, <3>9
  <2>8. N \in S
    <3>1. \A n \in 0 .. N : n \in S
      <4> HIDE DEF S, N
      <4>. QED  BY <1>1, <2>6, <2>7, InductionUpTo
    <3>. QED  BY <1>1, <3>1
  <2>. QED  BY <1>1, <2>1, <2>3, <2>4, <2>8 DEF v, q
<1>. QED  BY <1>5, <1>6

(* The pairs of monomials of p and q with product t, and what one gives.   *)
PairsAt(p, q, t) == {ab \in Support(p) \X Support(q) : Mul(ab[1], ab[2]) = t}

PairGives(p, q) == [ab \in Support(p) \X Support(q) |-> p.terms[ab[1]] * q.terms[ab[2]]]

(* One coefficient of the product: summed over the terms of s, or over the *)
(* pairs of monomials.                                                     *)
LEMMA ProductCoef ==
  ASSUME NEW s, IsTerms(s), NEW q, IsPolynomial(q), NEW t
  PROVE  /\ IsFiniteSet(PairsAt(ValueOf(s), q, t))
         /\ Total(Contributions(s, q, t), DOMAIN s)
            = Total(PairGives(ValueOf(s), q), PairsAt(ValueOf(s), q, t))
         /\ Total(Contributions(s, q, t), DOMAIN s) \in Nat
<1> DEFINE p == ValueOf(s)
           S == PairsAt(p, q, t)
           w == PairGives(p, q)
           v == Contributions(s, q, t)
           D == DOMAIN s
           A == {k \in D : Multiple(s[k].m, q, t) # 0}
           f == [k \in A |-> <<s[k].m, Div(t, s[k].m)>>]
<1>1. /\ IsPolynomial(p)
      /\ \A u : Coef(p, u) = CoefSum(s, u)
      /\ Support(p) = {s[k].m : k \in 1 .. Len(s)}
  BY TermsValueFacts
<1>2. D = 1 .. Len(s) /\ Len(s) \in Nat
  BY DEF IsTerms
<1>3. IsFiniteSet(D)
  BY <1>2, UpToFacts
<1>4. IsFiniteSet(Support(p)) /\ IsFiniteSet(Support(q)) /\ Support(p) \subseteq Monomial
      /\ Support(q) \subseteq Monomial
  <2> HIDE DEF p
  <2>. QED  BY <1>1 DEF IsPolynomial, Support
<1>5. IsFiniteSet(S)
  <2>1. IsFiniteSet(Support(p) \X Support(q))
    BY <1>4, FS_Product
  <2>2. S \subseteq Support(p) \X Support(q)
    BY DEF PairsAt
  <2>. QED  BY <2>1, <2>2, FS_Subset
<1>6. \A k \in D : /\ v[k] = s[k].c * Multiple(s[k].m, q, t)
                   /\ v[k] \in Nat
                   /\ s[k].m \in Monomial /\ s[k].c \in 1 .. P - 1
  BY ONLY IsTerms(s), IsPolynomial(q), ContributionsFacts
<1>7. \A k \in D : s[k].m \in Support(p) /\ p.terms[s[k].m] = s[k].c
  <2>1. ASSUME NEW k \in D PROVE s[k].m \in Support(p) /\ p.terms[s[k].m] = s[k].c
    <3>1. s[k].m \in Support(p)
      BY <1>1, <1>2
    <3>2. CoefSum(s, s[k].m) = s[k].c
      BY <1>2, CanonicalSum
    <3>3. Coef(p, s[k].m) = p.terms[s[k].m]
      BY <3>1 DEF Coef
    <3>. QED  BY <1>1, <3>1, <3>2, <3>3
  <2>. QED  BY <2>1
<1>8. \A k, l \in D : s[k].m = s[l].m => k = l
  BY <1>2, DistinctMonomials
<1>9. ASSUME NEW k \in A
      PROVE  /\ f[k] \in S /\ f[k] = <<s[k].m, Div(t, s[k].m)>>
             /\ w[f[k]] = s[k].c * Multiple(s[k].m, q, t)
  <2> DEFINE m == s[k].m
  <2>1. k \in D /\ m \in Monomial /\ Multiple(m, q, t) # 0
    BY <1>6
  <2>2. f[k] = <<m, Div(t, m)>>
    OBVIOUS
  <2>3. PICK u \in Support(q) : t = Mul(m, u)
    BY <2>1, MultipleFacts
  <2>4. u \in Monomial /\ Div(t, m) = u
    BY <1>4, <2>1, <2>3, DivMul
  <2>5. Multiple(m, q, t) = q.terms[u]
    <3>1. Multiple(m, q, Mul(m, u)) = Coef(q, u)
      BY <2>1, <2>4, MultipleFacts
    <3>. QED  BY <2>3, <3>1 DEF Coef
  <2>6. m \in Support(p) /\ p.terms[m] = s[k].c
    BY <1>7, <2>1
  <2> HIDE DEF m, p, f
  <2>7. <<m, u>> \in S
    BY <2>3, <2>6 DEF PairsAt
  <2>8. w[<<m, u>>] = p.terms[m] * q.terms[u]
    BY <2>3, <2>6 DEF PairGives
  <2>9. f[k] = <<m, u>>
    BY <2>2, <2>4
  <2> HIDE DEF S, w
  <2>. QED  BY <2>2, <2>4, <2>5, <2>6, <2>7, <2>8, <2>9 DEF m
<1>10. Corresponds(A, S, f)
  <2>1. \A j \in A : f[j] \in S
    BY <1>9
  <2>2. \A j, l \in A : f[j] = f[l] => j = l
    <3>1. \A j \in A : f[j][1] = s[j].m
      OBVIOUS
    <3> HIDE DEF f
    <3>. QED  BY <1>8, <3>1
  <2>3. ASSUME NEW z \in S PROVE \E j \in A : f[j] = z
    <3>1. z \in Support(p) \X Support(q) /\ Mul(z[1], z[2]) = t
      BY DEF PairsAt
    <3> HIDE DEF p, S
    <3>2. PICK a \in Support(p), b \in Support(q) : z = <<a, b>>
      BY <3>1
    <3>3. t = Mul(a, b) /\ a \in Monomial /\ b \in Monomial
      BY <1>4, <3>1, <3>2
    <3>4. PICK k \in D : s[k].m = a
      BY <1>1, <1>2, <3>2
    <3>5. Multiple(a, q, t) # 0
      <4>1. Multiple(a, q, t) = Coef(q, b)
        BY <3>3, MultipleFacts
      <4>2. Coef(q, b) = q.terms[b] /\ q.terms[b] # 0
        <5>1. q.terms[b] \in 1 .. P - 1
          BY <3>2 DEF IsPolynomial, Support
        <5>. QED  BY <3>2, <5>1, PAssumption DEF Coef
      <4>. QED  BY <4>1, <4>2
    <3>6. Div(t, a) = b
      BY <3>3, DivMul
    <3>. QED  BY <3>2, <3>4, <3>5, <3>6
  <2>. QED  BY <2>1, <2>2, <2>3 DEF Corresponds
<1>11. A \subseteq D /\ \A k \in D : k \notin A => v[k] = 0
  <2>1. ASSUME NEW k \in D, k \notin A PROVE v[k] = 0
    <3> DEFINE c == s[k].c
    <3>1. v[k] = c * Multiple(s[k].m, q, t) /\ Multiple(s[k].m, q, t) = 0
      BY <1>6, <2>1
    <3>2. c \in Int
      BY <1>6, PAssumption
    <3> HIDE DEF c, v
    <3>. QED  BY <3>1, <3>2
  <2>. QED  BY <2>1
<1>12. \A k \in A : v[k] = w[f[k]] /\ v[k] \in Nat
  BY <1>6, <1>9
<1>13. \A k \in D : v[k] \in Nat
  BY <1>6
<1>14. IsFiniteSet(A)
  BY <1>3, <1>11, FS_Subset
<1> HIDE DEF p, S, w, v, D, A, f
<1>15. Total(v, A) = Total(w, S)
  BY <1>5, <1>10, <1>12, <1>14, TotalMoved
<1>16. Total(v, D) = Total(v, A)
  BY <1>3, <1>11, <1>13, TotalExtra
<1>17. Total(v, D) \in Nat
  BY <1>3, <1>13, TotalType
<1>. QED  BY <1>5, <1>15, <1>16, <1>17 DEF p, S, w, v, D
=============================================================================

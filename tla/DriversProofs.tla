--------------------------- MODULE DriversProofs ---------------------------
(***************************************************************************)
(* What the two drivers that run on one thread keep true, for every        *)
(* sequence of inputs and every instance.                                  *)
(*   1. The serial driver with either reducer.  The antichain of its       *)
(*      active elements comes first, without any property of divisibility; *)
(*      what follows, of degrees, pairs and redundant elements, rests on   *)
(*      the algebra of AlgebraProofs.                                      *)
(*   2. The filtered and chunked scans, against scans of every element.    *)
(*   3. Elimination over sparse rows: one column at a time it reaches a    *)
(*      reduced echelon form.                                              *)
(*   4. The matrix driver: polynomials as rows, the phases of a batch, and *)
(*      what each phase may rely on.                                       *)
(***************************************************************************)
EXTENDS Drivers, SparseRows, AlgebraProofs

(* The arrays of SBasis are parallel.                                      *)
Shapes ==
  /\ \E S : polys \in Seq(S)
  /\ redundant \in Seq(BOOLEAN)
  /\ Len(redundant) = Len(polys)

(* Nothing active divides what is about to be inserted, nor the leading    *)
(* term that the heap reducer has parked.                                  *)
Irreducible ==
  /\ pc = "insert" => Divisors(polys, redundant, LM(lobj.poly)) = {}
  /\ survivor # Zero =>
       /\ pc = "reduce" /\ heap_reducer
       /\ Divisors(polys, redundant, LM(survivor)) = {}

BasisInv == Shapes /\ Irreducible /\ ActiveAntichain

-----------------------------------------------------------------------------

(* Making a polynomial monic, parking a smaller term and putting a leading *)
(* term back do what they do below the leading monomial.                   *)
LEMMA LeadersKept ==
  ASSUME NEW p, NEW c, NEW m
  PROVE  /\ LM(Monic(p)) = LM(p)
         /\ LM(ParkTerm(p, c, m)) = IF p = Zero THEN m ELSE LM(p)
         /\ LM(PrependLeading(c, m, p)) = m
BY DEF LM, Monic, ParkTerm, PrependLeading

LEMMA AppendFacts ==
  ASSUME NEW S, NEW s \in Seq(S), NEW v
  PROVE  /\ Append(s, v) \in Seq(S \cup {v})
         /\ Len(Append(s, v)) = Len(s) + 1
         /\ \A i \in 1 .. Len(s) : Append(s, v)[i] = s[i]
         /\ Append(s, v)[Len(s) + 1] = v
OBVIOUS

LEMMA AppendFlag ==
  ASSUME NEW s \in Seq(BOOLEAN)
  PROVE  \A i \in 1 .. Len(s) : Append(s, FALSE)[i] = s[i]
BY AppendFacts

LEMMA ReplaceSeq ==
  ASSUME NEW S, NEW s \in Seq(S), NEW i, NEW v
  PROVE  /\ [s EXCEPT ![i] = v] \in Seq(S \cup {v})
         /\ Len([s EXCEPT ![i] = v]) = Len(s)
<1> DEFINE g == [s EXCEPT ![i] = v]
<1>1. g = [k \in 1 .. Len(s) |-> IF k = i THEN v ELSE s[k]]
  OBVIOUS
<1>2. \A k \in 1 .. Len(s) : g[k] \in S \cup {v}
  BY <1>1
<1>3. g \in [1 .. Len(s) -> S \cup {v}]
  BY <1>1, <1>2
<1>4. g \in Seq(S \cup {v})
  BY <1>3, SeqDef, LenProperties
<1>5. Len(g) = Len(s)
  BY <1>3, <1>4, LenProperties
<1> QED
  BY <1>4, <1>5

LEMMA InitBasisInv == Init => BasisInv
<1> SUFFICES ASSUME Init PROVE BasisInv
  OBVIOUS
<1>1. polys = << >> /\ redundant = << >> /\ survivor = Zero /\ pc = "seed"
  BY DEF Init
<1>2. Shapes
  BY <1>1 DEF Shapes
<1> QED
  BY <1>1, <1>2 DEF BasisInv, Irreducible, ActiveAntichain

(* A step that leaves the basis alone and brings nothing to an insertion.  *)
LEMMA QuietKeepsBasisInv ==
  ASSUME BasisInv, UNCHANGED <<polys, redundant, survivor, heap_reducer>>,
         pc' = "insert" => pc = "insert" /\ lobj' = lobj,
         survivor = Zero \/ pc' = "reduce"
  PROVE  BasisInv'
BY DEF BasisInv, Shapes, Irreducible, ActiveAntichain

(* The remainder of a reduction goes to the insertion with the leading     *)
(* monomial it has.                                                        *)
LEMMA RemainderKeepsBasisInv ==
  ASSUME BasisInv, NEW o, Remainder(o),
         UNCHANGED <<polys, redundant, heap_reducer>>, survivor' = Zero,
         o.poly # Zero => Divisors(polys, redundant, LM(o.poly)) = {}
  PROVE  BasisInv'
<1>1. CASE o.poly = Zero
  BY <1>1 DEF Remainder, BasisInv, Shapes, Irreducible, ActiveAntichain
<1>2. CASE o.poly # Zero
  <2>1. lobj' = MonicObject(o)
    BY <1>2 DEF Remainder
  <2>2. LM(lobj'.poly) = LM(o.poly)
    BY <2>1, LeadersKept DEF MonicObject, LObject
  <2> QED
    BY <1>2, <2>2 DEF BasisInv, Shapes, Irreducible, ActiveAntichain, Divisors
<1> QED
  BY <1>1, <1>2

(* A new element: nothing active divides it, and what it divides is marked *)
(* in the same step.                                                       *)
LEMMA InsertKeepsBasisInv == BasisInv /\ Insert => BasisInv'
<1> SUFFICES ASSUME BasisInv, Insert PROVE BasisInv'
  OBVIOUS
<1> DEFINE n == Len(polys)
           ps == Append(polys, lobj.poly)
           flags == Append(redundant, FALSE)
<1>1. PICK S : polys \in Seq(S)
  BY DEF BasisInv, Shapes
<1>2. redundant \in Seq(BOOLEAN) /\ Len(redundant) = n /\ n \in Nat
  BY <1>1 DEF BasisInv, Shapes
<1>3. polys' = ps /\ redundant' = Cleared(ps, flags, n + 1)
  BY DEF Insert, Inserted
<1>4. /\ ps \in Seq(S \cup {lobj.poly}) /\ Len(ps) = n + 1
      /\ \A i \in 1 .. n : ps[i] = polys[i]
      /\ ps[n + 1] = lobj.poly
  BY <1>1, AppendFacts
<1>5. /\ flags \in Seq(BOOLEAN) /\ Len(flags) = n + 1
      /\ \A i \in 1 .. n : flags[i] = redundant[i]
  <2>1. flags \in Seq(BOOLEAN) /\ Len(flags) = n + 1
    BY <1>2
  <2>2. \A i \in 1 .. Len(redundant) : flags[i] = redundant[i]
    BY <1>2, AppendFlag, Zenon
  <2> QED
    BY <1>2, <2>1, <2>2, Zenon
<1>6. /\ DOMAIN flags = 1 .. n + 1 /\ DOMAIN polys = 1 .. n /\ DOMAIN ps = 1 .. n + 1
  BY <1>1, <1>4, <1>5
<1>7. redundant' = [i \in 1 .. n + 1 |-> flags[i] \/ i \in Covered(ps, flags, n + 1)]
  BY <1>3, <1>6 DEF Cleared
<1>8. redundant' \in [1 .. n + 1 -> BOOLEAN]
  BY <1>5, <1>7
<1>9. redundant' \in Seq(BOOLEAN) /\ Len(redundant') = n + 1
  BY <1>2, <1>8, SeqDef, LenProperties
<1>10. Shapes'
  BY <1>3, <1>4, <1>9 DEF Shapes
<1>11. Irreducible'
  BY DEF Insert, BasisInv, Irreducible
<1>12. ActiveAntichain'
  <2> SUFFICES ASSUME NEW i \in 1 .. n + 1, NEW k \in 1 .. n + 1, i # k,
                      ~redundant'[i], ~redundant'[k]
               PROVE  ~Divides(LM(ps[i]), LM(ps[k]))
    BY <1>3, <1>6, Zenon DEF ActiveAntichain
  <2> DEFINE covered == Covered(ps, flags, n + 1)
  <2>1. \A x \in 1 .. n : ~redundant'[x] => ~redundant[x] /\ x \notin covered
    <3> HIDE DEF covered
    <3>1. \A x \in 1 .. n : x \in 1 .. n + 1
      BY <1>2
    <3>2. \A x \in 1 .. n + 1 : redundant'[x] = (flags[x] \/ x \in covered)
      BY <1>7, Zenon DEF covered
    <3> QED
      BY ONLY <1>5, <3>1, <3>2, Zenon
  <2>2. CASE i \in 1 .. n /\ k \in 1 .. n
    BY <1>4, <1>6, <2>1, <2>2 DEF BasisInv, ActiveAntichain
  <2>3. CASE i \in 1 .. n /\ k = n + 1
    <3>1. Divisors(polys, redundant, LM(lobj.poly)) = {}
      BY DEF BasisInv, Irreducible, Insert
    <3> QED
      BY <1>4, <1>6, <2>1, <2>3, <3>1 DEF Divisors
  <2>4. CASE i = n + 1 /\ k \in 1 .. n
    <3>1. k \notin Covered(ps, flags, n + 1) /\ ~flags[k]
      BY <1>5, <2>1, <2>4, Zenon
    <3> QED
      BY <1>2, <2>4, <3>1 DEF Covered
  <2> QED
    BY <1>2, <2>2, <2>3, <2>4
<1> QED
  BY <1>10, <1>11, <1>12 DEF BasisInv

(* Tail reduction replaces an element by one with the same leader.         *)
LEMMA TailEndKeepsLeaders ==
  ASSUME Shapes, TailEnd
  PROVE  /\ \E S : polys' \in Seq(S)
         /\ Len(polys') = Len(polys)
         /\ DOMAIN polys' = DOMAIN polys
         /\ \A k \in DOMAIN polys : LM(polys'[k]) = LM(polys[k])
<1>1. PICK S : polys \in Seq(S)
  BY DEF Shapes
<1> DEFINE new == Monic(PrependLeading(LC(polys[tail.at]), LM(polys[tail.at]), tail.done))
<1>2. polys' = [polys EXCEPT ![tail.at] = new]
  BY DEF TailEnd, Replaced
<1> HIDE DEF new
<1>3. polys' \in Seq(S \cup {new}) /\ Len(polys') = Len(polys)
  BY <1>1, <1>2, ReplaceSeq, Zenon
<1>4. LM(new) = LM(polys[tail.at])
  BY LeadersKept DEF new
<1>5. polys' = [j \in 1 .. Len(polys) |-> IF j = tail.at THEN new ELSE polys[j]]
  <2>1. DOMAIN polys = 1 .. Len(polys)
    BY <1>1
  <2> QED
    BY <1>2, <2>1, Zenon
<1>6. ASSUME NEW k \in 1 .. Len(polys)
      PROVE  LM(polys'[k]) = LM(polys[k])
  <2>1. polys'[k] = IF k = tail.at THEN new ELSE polys[k]
    BY <1>5, Zenon
  <2>2. CASE k = tail.at
    BY <1>4, <2>1, <2>2, Zenon
  <2>3. CASE k # tail.at
    BY <2>1, <2>3, Zenon
  <2> QED
    BY <2>2, <2>3
<1> QED
  BY <1>1, <1>3, <1>6

LEMMA TailEndKeepsBasisInv == BasisInv /\ TailEnd => BasisInv'
<1> SUFFICES ASSUME BasisInv, TailEnd PROVE BasisInv'
  OBVIOUS
<1>1. Shapes'
  BY TailEndKeepsLeaders DEF TailEnd, BasisInv, Shapes
<1>2. Irreducible'
  BY DEF TailEnd, BasisInv, Irreducible
<1>3. ActiveAntichain'
  BY TailEndKeepsLeaders DEF TailEnd, BasisInv, ActiveAntichain
<1> QED
  BY <1>1, <1>2, <1>3 DEF BasisInv

LEMMA NextKeepsBasisInv == BasisInv /\ [Next]_vars => BasisInv'
<1> SUFFICES ASSUME BasisInv, [Next]_vars PROVE BasisInv'
  OBVIOUS
<1> USE DEF callVars, basisVars
<1>0. pc # "reduce" => survivor = Zero
  BY DEF BasisInv, Irreducible
<1>1. CASE SeedNext
  BY <1>0, <1>1, QuietKeepsBasisInv DEF SeedNext
<1>2. CASE SeedDone
  BY <1>0, <1>2, QuietKeepsBasisInv DEF SeedDone
<1>3. CASE PopPair
  BY <1>0, <1>3, QuietKeepsBasisInv DEF PopPair
<1>4. CASE PopNone
  BY <1>0, <1>4, QuietKeepsBasisInv DEF PopNone
<1>5. CASE Reduce
  BY <1>5, QuietKeepsBasisInv DEF Reduce
<1>6. CASE GeobucketDone
  <2>1. survivor' = Zero
    BY <1>6 DEF GeobucketDone, BasisInv, Irreducible
  <2>2. lobj.poly # Zero => Divisors(polys, redundant, LM(lobj.poly)) = {}
    BY <1>6 DEF GeobucketDone, Stuck, Reducible
  <2> QED
    BY <1>6, <2>1, <2>2, RemainderKeepsBasisInv DEF GeobucketDone
<1>7. CASE HeapEmit
  <2>1. Divisors(polys, redundant, LM(lobj.poly)) = {}
    BY <1>7 DEF HeapEmit, Stuck, Reducible
  <2>2. LM(survivor') = IF survivor = Zero THEN LM(lobj.poly) ELSE LM(survivor)
    BY <1>7, LeadersKept DEF HeapEmit
  <2>3. Divisors(polys, redundant, LM(survivor')) = {}
    BY <2>1, <2>2 DEF BasisInv, Irreducible
  <2> QED
    BY <1>7, <2>3 DEF HeapEmit, BasisInv, Shapes, Irreducible, ActiveAntichain, Divisors
<1>8. CASE HeapDone
  <2> DEFINE o == LObject(survivor, lobj.sugar)
  <2>1. o.poly = survivor
    BY DEF LObject
  <2>2. o.poly # Zero => Divisors(polys, redundant, LM(o.poly)) = {}
    BY <2>1 DEF BasisInv, Irreducible
  <2>3. Remainder(o) /\ survivor' = Zero /\ UNCHANGED <<polys, redundant, heap_reducer>>
    BY <1>8 DEF HeapDone
  <2> HIDE DEF o
  <2> QED
    BY <2>2, <2>3, RemainderKeepsBasisInv
<1>9. CASE Insert
  BY <1>9, InsertKeepsBasisInv
<1>10. CASE TailNext
  BY <1>0, <1>10, QuietKeepsBasisInv DEF TailNext
<1>11. CASE TailStep
  BY <1>0, <1>11, QuietKeepsBasisInv DEF TailStep
<1>12. CASE TailEnd
  BY <1>12, TailEndKeepsBasisInv
<1>13. CASE Finish
  BY <1>0, <1>13, QuietKeepsBasisInv DEF Finish
<1>14. CASE Returned \/ UNCHANGED vars
  BY <1>0, <1>14 DEF Returned, vars, BasisInv, Shapes, Irreducible, ActiveAntichain, Divisors
<1> QED
  BY <1>1, <1>2, <1>3, <1>4, <1>5, <1>6, <1>7, <1>8, <1>9, <1>10, <1>11, <1>12,
     <1>13, <1>14 DEF Next

LEMMA SpecBasisInv == Spec => []BasisInv
BY InitBasisInv, NextKeepsBasisInv, PTL DEF Spec

(* No active element's leading monomial ever divides that of another: the  *)
(* reducer protects the newcomer and clear_redundant_for marks the older   *)
(* elements it covers in the same call, so that only one of two candidates *)
(* for a division is ever active (bba.rs:105-113, 213-230).                *)
THEOREM BasisIsAntichain == Spec => []ActiveAntichain
<1>1. Spec => []BasisInv
  BY SpecBasisInv
<1>2. BasisInv => ActiveAntichain
  BY DEF BasisInv
<1> QED
  BY <1>1, <1>2, PTL

-----------------------------------------------------------------------------
(* Degrees, pairs and redundant elements.                                  *)

(* Elements are still added; tail_reduce_all has not begun.                *)
Seeking == pc \in {"seed", "pop", "reduce", "insert"}

(* Whatever an element divides, an active one divides.                     *)
Leaders ==
  /\ \A i \in DOMAIN polys : LM(polys[i]) \in Monomial
  /\ \A i \in DOMAIN polys : \E k \in ActiveIndices(polys, redundant) :
       Divides(LM(polys[k]), LM(polys[i]))

(* The degrees are bounded by the sugar, and what is still to be reduced   *)
(* by the first term that the heap reducer has parked.                     *)
Degrees ==
  /\ Seeking => \A i \in DOMAIN polys : Graded(polys[i])
  /\ \E S : input \in Seq(S)
  /\ \A k \in DOMAIN input : Graded(input[k]) /\ Led(input[k])
  /\ lobj = LObject(lobj.poly, lobj.sugar) /\ Sweet(lobj)
  /\ pc = "reduce" => Led(lobj.poly)
  /\ Graded(survivor) /\ \A u \in Support(survivor) : Deg(u) <= lobj.sugar
  /\ survivor # Zero => \A u \in Support(lobj.poly) : Deg(u) <= Deg(LM(survivor))

(* The queue holds S-pairs of the basis.  Arrivals may collide, but not    *)
(* among the pairs that were made for one element.                         *)
Queued ==
  /\ next_arrival \in Nat
  /\ \A p \in l_set : PairIn(polys, p) /\ p.arrival \in Nat
  /\ \A p, q \in l_set : p.arrival = q.arrival /\ p.j = q.j => p = q

WorkInv == Leaders /\ Degrees /\ Queued

-----------------------------------------------------------------------------

(* The steps that write to the basis, and those that write to the queue.   *)
LEMMA Writers ==
  ASSUME [Next]_vars
  PROVE  /\ UNCHANGED <<polys, redundant>> \/ TailEnd \/ Insert
         /\ UNCHANGED <<l_set, next_arrival>> \/ PopPair \/ Insert
<1> USE DEF basisVars
<1>1. CASE SeedNext \/ SeedDone \/ PopNone \/ Reduce \/ GeobucketDone \/ HeapEmit
           \/ HeapDone \/ TailNext \/ TailStep \/ Finish \/ UNCHANGED vars
  BY <1>1 DEF SeedNext, SeedDone, PopNone, Reduce, GeobucketDone, HeapEmit,
     HeapDone, TailNext, TailStep, Finish, vars
<1>2. CASE PopPair
  BY <1>2 DEF PopPair
<1>3. CASE TailEnd
  BY <1>3 DEF TailEnd
<1> QED
  BY <1>1, <1>2, <1>3 DEF Next, Returned

(* What an insertion appends, and that the newcomer is active.             *)
LEMMA InsertFacts ==
  ASSUME Shapes, Insert
  PROVE  /\ Len(polys) \in Nat /\ DOMAIN polys = 1 .. Len(polys)
         /\ DOMAIN polys' = 1 .. Len(polys) + 1
         /\ \A i \in 1 .. Len(polys) : polys'[i] = polys[i]
         /\ polys'[Len(polys) + 1] = lobj.poly
         /\ ~redundant'[Len(polys) + 1]
         /\ \A i \in 1 .. Len(polys) :
              ~redundant[i] => \/ ~redundant'[i]
                               \/ Divides(LM(lobj.poly), LM(polys[i]))
<1> DEFINE n == Len(polys)
           ps == Append(polys, lobj.poly)
           flags == Append(redundant, FALSE)
           covered == Covered(ps, flags, n + 1)
<1>1. PICK S : polys \in Seq(S)
  BY DEF Shapes
<1>2. redundant \in Seq(BOOLEAN) /\ Len(redundant) = n /\ n \in Nat
  BY <1>1 DEF Shapes
<1>3. polys' = ps /\ redundant' = Cleared(ps, flags, n + 1)
  BY DEF Insert, Inserted
<1>4. /\ Len(ps) = n + 1 /\ DOMAIN ps = 1 .. n + 1 /\ DOMAIN polys = 1 .. n
      /\ \A i \in 1 .. n : ps[i] = polys[i]
      /\ ps[n + 1] = lobj.poly
  BY <1>1, AppendFacts
<1>5. /\ DOMAIN flags = 1 .. n + 1
      /\ \A i \in 1 .. n : flags[i] = redundant[i]
      /\ flags[n + 1] = FALSE
  <2>1. DOMAIN flags = 1 .. n + 1 /\ flags[n + 1] = FALSE
    BY <1>2
  <2>2. \A i \in 1 .. Len(redundant) : flags[i] = redundant[i]
    BY <1>2, AppendFlag, Zenon
  <2> QED
    BY <1>2, <2>1, <2>2, Zenon
<1>6. redundant' = [i \in 1 .. n + 1 |-> flags[i] \/ i \in covered]
  BY <1>3, <1>5 DEF Cleared
<1>7. \A i \in covered : i \in 1 .. n /\ Divides(LM(lobj.poly), LM(polys[i]))
  BY <1>2, <1>4 DEF Covered
<1> HIDE DEF covered, flags, ps
<1>8. \A i \in 1 .. n + 1 : redundant'[i] = (flags[i] \/ i \in covered)
  BY <1>6, Zenon
<1>9. n + 1 \in 1 .. n + 1 /\ n + 1 \notin 1 .. n /\ \A i \in 1 .. n : i \in 1 .. n + 1
  BY <1>2
<1>10. ~redundant'[n + 1]
  BY ONLY <1>5, <1>7, <1>8, <1>9, Zenon
<1>11. ASSUME NEW i \in 1 .. n, ~redundant[i]
       PROVE  ~redundant'[i] \/ Divides(LM(lobj.poly), LM(polys[i]))
  BY ONLY <1>5, <1>7, <1>8, <1>9, <1>11, Zenon
<1> HIDE DEF n
<1> QED
  BY <1>2, <1>3, <1>4, <1>10, <1>11 DEF n

(* No element ever goes away or changes its leading monomial.              *)
LEMMA LeadersStay ==
  ASSUME Shapes, [Next]_vars
  PROVE  /\ DOMAIN polys \subseteq DOMAIN polys'
         /\ \A i \in DOMAIN polys : LM(polys'[i]) = LM(polys[i])
<1>1. CASE Insert
  <2>1. \A i \in 1 .. Len(polys) : i \in 1 .. Len(polys) + 1
    BY InsertFacts, <1>1
  <2> QED
    BY <1>1, <2>1, InsertFacts
<1>2. CASE TailEnd
  BY <1>2, TailEndKeepsLeaders
<1>3. CASE UNCHANGED <<polys, redundant>>
  BY <1>3
<1> QED
  BY <1>1, <1>2, <1>3, Writers

LEMMA PairStays ==
  ASSUME Shapes, [Next]_vars, NEW p, PairIn(polys, p)
  PROVE  PairIn(polys', p)
BY LeadersStay DEF PairIn

(* No element, redundant or not, divides what is about to be inserted.     *)
LEMMA NewLeader ==
  ASSUME BasisInv, WorkInv, Insert
  PROVE  /\ LM(lobj.poly) \in Monomial
         /\ \A i \in DOMAIN polys : ~Divides(LM(polys[i]), LM(lobj.poly))
<1>1. LM(lobj.poly) \in Monomial
  BY DEF WorkInv, Degrees, Sweet, Graded
<1>2. ASSUME NEW i \in DOMAIN polys, Divides(LM(polys[i]), LM(lobj.poly))
      PROVE  FALSE
  <2>1. PICK k \in ActiveIndices(polys, redundant) : Divides(LM(polys[k]), LM(polys[i]))
    BY DEF WorkInv, Leaders
  <2>2. Divides(LM(polys[k]), LM(lobj.poly))
    BY <1>1, <1>2, <2>1, DividesOrder DEF WorkInv, Leaders, ActiveIndices
  <2>3. Divisors(polys, redundant, LM(lobj.poly)) = {}
    BY DEF Insert, BasisInv, Irreducible
  <2> QED
    BY <2>1, <2>2, <2>3 DEF Divisors, ActiveIndices
<1> QED
  BY <1>1, <1>2

LEMMA NextKeepsLeaders ==
  ASSUME BasisInv, WorkInv, [Next]_vars
  PROVE  Leaders'
<1>1. CASE UNCHANGED <<polys, redundant>>
  BY <1>1 DEF WorkInv, Leaders, ActiveIndices
<1>2. CASE TailEnd
  BY <1>2, TailEndKeepsLeaders DEF TailEnd, WorkInv, Leaders, ActiveIndices, BasisInv
<1>3. CASE Insert
  <2> DEFINE n == Len(polys)
             m == LM(lobj.poly)
             active == ActiveIndices(polys, redundant)
             next == {i \in 1 .. n + 1 : ~redundant'[i]}
  <2>1. /\ n \in Nat /\ DOMAIN polys = 1 .. n /\ DOMAIN polys' = 1 .. n + 1
        /\ \A i \in 1 .. n : polys'[i] = polys[i]
        /\ polys'[n + 1] = lobj.poly
        /\ ~redundant'[n + 1]
        /\ \A i \in 1 .. n : ~redundant[i] => ~redundant'[i] \/ Divides(m, LM(polys[i]))
    BY <1>3, InsertFacts DEF BasisInv
  <2>2. m \in Monomial /\ \A i \in 1 .. n : LM(polys[i]) \in Monomial
    BY <1>3, <2>1, NewLeader DEF WorkInv, Leaders
  <2>3. n + 1 \in next /\ \A i \in active : i \in next \/ Divides(m, LM(polys[i]))
    BY <2>1 DEF ActiveIndices
  <2>4. active \subseteq 1 .. n
    BY <2>1 DEF ActiveIndices
  <2>5. ASSUME NEW i \in 1 .. n + 1
        PROVE  /\ LM(polys'[i]) \in Monomial
               /\ \E k \in next : Divides(LM(polys'[k]), LM(polys'[i]))
    <3>1. CASE i = n + 1
      BY <2>1, <2>2, <2>3, <3>1, DividesOrder
    <3>2. CASE i \in 1 .. n
      <4>1. PICK k \in active : Divides(LM(polys[k]), LM(polys[i]))
        BY <2>1, <3>2 DEF WorkInv, Leaders
      <4>2. CASE k \in next
        BY <2>1, <2>2, <2>4, <3>2, <4>1, <4>2
      <4>3. CASE Divides(m, LM(polys[k]))
        <5>1. Divides(m, LM(polys[i]))
          BY <2>2, <2>4, <3>2, <4>1, <4>3, DividesOrder
        <5> QED
          BY <2>1, <2>2, <2>3, <3>2, <5>1
      <4> QED
        BY <2>3, <4>1, <4>2, <4>3
    <3> QED
      BY <2>1, <3>1, <3>2
  <2>6. next = ActiveIndices(polys, redundant)'
    BY <2>1 DEF ActiveIndices
  <2> HIDE DEF next
  <2> QED
    BY <2>1, <2>5, <2>6 DEF Leaders
<1> QED
  BY <1>1, <1>2, <1>3, Writers

-----------------------------------------------------------------------------
(* The degrees.                                                            *)

(* The pair that is popped is one of the queue.                            *)
LEMMA NextPairQueued ==
  ASSUME BasisInv, WorkInv, l_set # {}
  PROVE  NextPair(l_set) \in l_set
<1>1. \A p \in l_set : /\ p.sugar \in Nat /\ p.arrival \in Nat
                       /\ p.i \in Nat /\ p.j \in Nat
  BY DEF WorkInv, Queued, PairIn, BasisInv, Shapes
<1>2. \A p, q \in l_set : p.arrival = q.arrival /\ p.i = q.i /\ p.j = q.j => p = q
  BY DEF WorkInv, Queued
<1> QED
  BY <1>1, <1>2, NextPairExists

(* A step that leaves the basis and the inputs alone.                      *)
LEMMA QuietKeepsDegrees ==
  ASSUME WorkInv, UNCHANGED <<polys, input>>, Seeking' => Seeking,
         lobj' = lobj \/ \E p, d : lobj' = LObject(p, d) /\ Sweet(lobj'),
         pc' = "reduce" => Led(lobj'.poly),
         survivor' = Zero
  PROVE  Degrees'
<1>0. lobj' = LObject(lobj'.poly, lobj'.sugar) /\ Sweet(lobj')
  <2>1. CASE lobj' = lobj
    BY <2>1 DEF WorkInv, Degrees
  <2>2. CASE \E p, d : lobj' = LObject(p, d) /\ Sweet(lobj')
    BY <2>2 DEF LObject
  <2> QED
    BY <2>1, <2>2
<1>1. Graded(survivor') /\ Support(survivor') = {}
  BY ZeroFacts
<1> QED
  BY <1>0, <1>1 DEF WorkInv, Degrees, Seeking

LEMMA ReduceKeepsDegrees == WorkInv /\ BasisInv /\ Reduce => Degrees'
<1> SUFFICES ASSUME WorkInv, BasisInv, Reduce PROVE Degrees'
  OBVIOUS
<1> DEFINE r == ReduceOnce(polys, redundant, lobj)
<1>1. /\ pc = "reduce" /\ Reducible(polys, redundant, lobj.poly) /\ lobj' = r
      /\ UNCHANGED <<polys, input, survivor, pc>>
  BY DEF Reduce, basisVars
<1>2. DOMAIN polys \subseteq Nat
  BY DEF BasisInv, Shapes
<1>3. /\ \A i \in DOMAIN polys : Graded(polys[i])
      /\ Graded(lobj.poly) /\ lobj.sugar \in Nat
      /\ \A u \in Support(lobj.poly) : Deg(u) <= lobj.sugar
      /\ lobj.poly # Zero => LM(lobj.poly) \in Support(lobj.poly)
      /\ survivor # Zero => \A u \in Support(lobj.poly) : Deg(u) <= Deg(LM(survivor))
      /\ Graded(survivor) /\ \A u \in Support(survivor) : Deg(u) <= lobj.sugar
  BY <1>1 DEF WorkInv, Degrees, Seeking, Sweet, Led
<1>4. /\ Graded(r.poly) /\ Led(r.poly)
      /\ r.sugar \in Nat /\ lobj.sugar <= r.sugar
      /\ \A u \in Support(r.poly) : Deg(u) <= r.sugar /\ Deg(u) <= Deg(LM(lobj.poly))
  BY <1>1, <1>2, <1>3, ReduceIsGraded
<1> HIDE DEF r
<1>5. /\ Sweet(r)
      /\ \A u \in Support(r.poly) \cup Support(survivor) : Deg(u) \in Nat
  BY <1>3, <1>4, DegType DEF Sweet, Graded
<1>6. \A u \in Support(survivor) : Deg(u) <= r.sugar
  BY <1>3, <1>4, <1>5
<1>7. survivor # Zero => \A u \in Support(r.poly) : Deg(u) <= Deg(LM(survivor))
  <2>1. Deg(LM(lobj.poly)) \in Nat /\ Deg(LM(survivor)) \in Nat
    BY <1>3, DegType DEF Graded
  <2>2. survivor # Zero => Deg(LM(lobj.poly)) <= Deg(LM(survivor))
    BY <1>1, <1>3 DEF Reducible
  <2> QED
    BY <1>4, <1>5, <2>1, <2>2
<1>8. /\ \A i \in DOMAIN polys' : Graded(polys'[i])
      /\ r = LObject(r.poly, r.sugar)
  BY <1>1, <1>3 DEF r, ReduceOnce, LObject
<1> QED
  BY <1>1, <1>3, <1>4, <1>5, <1>6, <1>7, <1>8 DEF WorkInv, Degrees

(* The heap reducer parks a term that is not larger than the first one.    *)
LEMMA HeapEmitKeepsDegrees == WorkInv /\ HeapEmit => Degrees'
<1> SUFFICES ASSUME WorkInv, HeapEmit PROVE Degrees'
  OBVIOUS
<1> DEFINE m == LM(lobj.poly)
           rest == DropLeading(lobj.poly)
           kept == ParkTerm(survivor, LC(lobj.poly), m)
<1>1. /\ pc = "reduce" /\ lobj.poly # Zero
      /\ survivor' = kept /\ lobj' = [lobj EXCEPT !.poly = rest]
      /\ UNCHANGED <<polys, input, pc>>
  BY DEF HeapEmit, Stuck, basisVars
<1>2. /\ \A i \in DOMAIN polys : Graded(polys[i])
      /\ Graded(lobj.poly) /\ lobj.sugar \in Nat
      /\ \A u \in Support(lobj.poly) : Deg(u) <= lobj.sugar
      /\ m \in Support(lobj.poly) /\ m \in Monomial
      /\ survivor # Zero => Deg(m) <= Deg(LM(survivor))
      /\ Graded(survivor) /\ \A u \in Support(survivor) : Deg(u) <= lobj.sugar
  BY <1>1 DEF WorkInv, Degrees, Seeking, Sweet, Led, Graded
<1>3. Graded(rest) /\ Led(rest) /\ Support(rest) \subseteq Support(lobj.poly)
  BY <1>2, DropIsGraded
<1>4. /\ Graded(kept) /\ Support(kept) = Support(survivor) \cup {m}
      /\ Deg(m) <= Deg(LM(kept))
  BY <1>2, ParkIsGraded
<1> HIDE DEF rest, kept
<1>5. /\ lobj'.poly = rest /\ lobj'.sugar = lobj.sugar
      /\ lobj' = LObject(rest, lobj.sugar)
  BY <1>1 DEF WorkInv, Degrees, LObject
<1>6. Sweet(lobj') /\ Led(lobj'.poly)
  BY <1>2, <1>3, <1>5 DEF Sweet
<1>7. \A u \in Support(kept) : Deg(u) <= lobj.sugar
  BY <1>2, <1>4
<1>8. \A u \in Support(rest) : Deg(u) <= Deg(LM(kept))
  <2>1. Deg(m) \in Nat /\ Deg(LM(kept)) \in Nat
    BY <1>2, <1>4, DegType DEF Graded
  <2>2. \A u \in Support(rest) : Deg(u) \in Nat /\ Deg(u) <= Deg(m)
    BY <1>2, <1>3, DegType DEF Graded
  <2> QED
    BY <1>4, <2>1, <2>2
<1> QED
  BY <1>1, <1>2, <1>4, <1>5, <1>6, <1>7, <1>8 DEF WorkInv, Degrees, Seeking

LEMMA RemainderKeepsDegrees ==
  ASSUME WorkInv, NEW o, Sweet(o), Remainder(o), pc = "reduce",
         UNCHANGED <<polys, input>>, survivor' = Zero
  PROVE  Degrees'
<1>1. CASE o.poly = Zero
  <2>1. lobj' = NoObject /\ pc' \in {"seed", "pop"}
    BY <1>1 DEF Remainder
  <2>2. Sweet(lobj') /\ \E p, d : lobj' = LObject(p, d)
    BY <2>1, SweetFacts DEF NoObject
  <2> QED
    BY <2>1, <2>2, QuietKeepsDegrees DEF Seeking
<1>2. CASE o.poly # Zero
  <2>1. lobj' = MonicObject(o) /\ pc' = "insert"
    BY <1>2 DEF Remainder
  <2>2. Sweet(lobj') /\ \E p, d : lobj' = LObject(p, d)
    BY <2>1, SweetFacts DEF MonicObject
  <2> QED
    BY <2>1, <2>2, QuietKeepsDegrees DEF Seeking
<1> QED
  BY <1>1, <1>2

LEMMA SeedNextKeepsDegrees == WorkInv /\ BasisInv /\ SeedNext => Degrees'
<1> SUFFICES ASSUME WorkInv, BasisInv, SeedNext PROVE Degrees'
  OBVIOUS
<1> DEFINE f == Head(input)
           o == LObject(f, Deg(LM(f)))
<1>1. /\ pc = "seed" /\ input # << >> /\ input' = Tail(input)
      /\ UNCHANGED <<polys, survivor>>
      /\ (pc' = pc /\ lobj' = lobj) \/ (pc' = "reduce" /\ lobj' = o)
  BY DEF SeedNext, basisVars
<1>2. PICK S : input \in Seq(S)
  BY DEF WorkInv, Degrees
<1>3. Tail(input) \in Seq(S) /\ \A k \in DOMAIN Tail(input) :
        k + 1 \in DOMAIN input /\ Tail(input)[k] = input[k + 1]
  BY <1>1, <1>2, TailSeq
<1>4. \A k \in DOMAIN input' : Graded(input'[k]) /\ Led(input'[k])
  BY <1>1, <1>3 DEF WorkInv, Degrees
<1>5. Graded(f) /\ Led(f)
  BY <1>1, <1>2 DEF WorkInv, Degrees
<1>6. Sweet(o) /\ o = LObject(o.poly, o.sugar) /\ Led(o.poly)
  BY <1>5, DegType DEF Sweet, LObject, Graded
<1>7. survivor = Zero /\ Support(survivor) = {} /\ Graded(survivor)
  BY <1>1, ZeroFacts DEF BasisInv, Irreducible
<1> HIDE DEF o, f
<1>8. Sweet(lobj') /\ lobj' = LObject(lobj'.poly, lobj'.sugar)
  BY <1>1, <1>6 DEF WorkInv, Degrees
<1>9. /\ \A i \in DOMAIN polys' : Graded(polys'[i])
      /\ pc' = "reduce" => Led(lobj'.poly)
      /\ input' \in Seq(S)
  BY <1>1, <1>3, <1>6 DEF WorkInv, Degrees, Seeking
<1> QED
  BY <1>1, <1>4, <1>7, <1>8, <1>9 DEF Degrees

LEMMA NextKeepsDegrees ==
  ASSUME BasisInv, WorkInv, [Next]_vars
  PROVE  Degrees'
<1> USE DEF callVars, basisVars
<1>0. pc # "reduce" => survivor = Zero
  BY DEF BasisInv, Irreducible
<1>1. CASE SeedNext
  BY <1>1, SeedNextKeepsDegrees
<1>2. CASE SeedDone \/ PopNone \/ TailNext \/ TailStep \/ Finish
  <2>1. /\ UNCHANGED <<polys, input, lobj, survivor>> /\ pc # "reduce" /\ pc' # "reduce"
        /\ Seeking' => Seeking
    BY <1>2 DEF SeedDone, PopNone, TailNext, TailStep, Finish, Seeking
  <2> QED
    BY <1>0, <2>1, QuietKeepsDegrees
<1>3. CASE PopPair
  <2> DEFINE p == NextPair(l_set)
             s == SPoly(polys[p.i], polys[p.j], p.lcm)
  <2>1. /\ pc = "pop" /\ UNCHANGED <<polys, input, survivor>>
        /\ \/ pc' = pc /\ lobj' = lobj
           \/ pc' = "reduce" /\ lobj' = LObject(s, p.sugar)
        /\ l_set # {}
    BY <1>3 DEF PopPair
  <2>2. p \in l_set
    BY <2>1, NextPairQueued
  <2>3. Sweet(LObject(s, p.sugar)) /\ Led(s)
    <3> HIDE DEF p
    <3>1. PairIn(polys, p) /\ \A i \in DOMAIN polys : Graded(polys[i])
      BY <2>1, <2>2 DEF WorkInv, Degrees, Queued, Seeking
    <3> QED
      BY <3>1, SPolyIsSweet
  <2>4. LObject(s, p.sugar).poly = s
    BY DEF LObject
  <2> HIDE DEF s, p
  <2>5. /\ lobj' = lobj \/ \E q, d : lobj' = LObject(q, d) /\ Sweet(lobj')
        /\ pc' = "reduce" => Led(lobj'.poly)
        /\ Seeking' => Seeking
    BY <2>1, <2>3, <2>4 DEF Seeking
  <2> QED
    BY <1>0, <2>1, <2>5, QuietKeepsDegrees
<1>4. CASE Reduce
  BY <1>4, ReduceKeepsDegrees
<1>5. CASE GeobucketDone
  <2>1. survivor' = Zero
    BY <1>5 DEF GeobucketDone, BasisInv, Irreducible
  <2>2. Sweet(lobj)
    BY DEF WorkInv, Degrees
  <2> QED
    BY <1>5, <2>1, <2>2, RemainderKeepsDegrees DEF GeobucketDone
<1>6. CASE HeapEmit
  BY <1>6, HeapEmitKeepsDegrees
<1>7. CASE HeapDone
  <2> DEFINE o == LObject(survivor, lobj.sugar)
  <2>1. Sweet(o)
    BY DEF WorkInv, Degrees, Sweet, LObject
  <2>2. Remainder(o) /\ survivor' = Zero /\ UNCHANGED <<polys, input>> /\ pc = "reduce"
    BY <1>7 DEF HeapDone
  <2> HIDE DEF o
  <2> QED
    BY <2>1, <2>2, RemainderKeepsDegrees
<1>8. CASE Insert
  <2>1. /\ pc = "insert" /\ lobj' = NoObject /\ pc' # "reduce"
        /\ UNCHANGED <<input, survivor>>
    BY <1>8 DEF Insert
  <2>2. survivor' = Zero /\ Graded(survivor') /\ Support(survivor') = {}
    BY <1>0, <2>1, ZeroFacts
  <2>3. Sweet(lobj') /\ lobj' = LObject(lobj'.poly, lobj'.sugar)
    BY <2>1, SweetFacts DEF NoObject, LObject
  <2>4. ASSUME NEW i \in DOMAIN polys' PROVE Graded(polys'[i])
    <3>1. /\ DOMAIN polys' = 1 .. Len(polys) + 1 /\ DOMAIN polys = 1 .. Len(polys)
          /\ \A k \in 1 .. Len(polys) : polys'[k] = polys[k]
          /\ polys'[Len(polys) + 1] = lobj.poly
          /\ Len(polys) \in Nat
      BY <1>8, InsertFacts DEF BasisInv
    <3>2. Graded(lobj.poly) /\ \A k \in DOMAIN polys : Graded(polys[k])
      BY <2>1 DEF WorkInv, Degrees, Sweet, Seeking
    <3>3. i \in 1 .. Len(polys) \/ i = Len(polys) + 1
      BY <3>1
    <3> QED
      BY <3>1, <3>2, <3>3
  <2> QED
    BY <2>1, <2>2, <2>3, <2>4 DEF WorkInv, Degrees
<1>9. CASE TailEnd
  <2>1. /\ UNCHANGED <<input, lobj, survivor>> /\ pc # "reduce"
        /\ pc' \notin {"reduce", "seed", "pop", "insert"}
    BY <1>9 DEF TailEnd
  <2> QED
    BY <1>0, <2>1, ZeroFacts DEF WorkInv, Degrees, Seeking
<1>10. CASE UNCHANGED vars
  BY <1>10 DEF vars, WorkInv, Degrees, Seeking
<1> QED
  BY <1>1, <1>2, <1>3, <1>4, <1>5, <1>6, <1>7, <1>8, <1>9, <1>10 DEF Next, Returned

-----------------------------------------------------------------------------
(* The queue.                                                              *)

(* The candidates of an insertion are S-pairs of the new element, and no   *)
(* two of them have the same arrival.                                      *)
LEMMA CandidateFacts ==
  ASSUME NEW ps, NEW h \in Nat, h > 0, DOMAIN ps = 1 .. h,
         \A i \in 1 .. h : LM(ps[i]) \in Monomial,
         NEW sugar \in Nat, next_arrival \in Nat
  PROVE  LET b == ChainCritB(Candidates(ps, h, sugar))
         IN  /\ Len(b) \in Nat /\ DOMAIN b = 1 .. Len(b)
             /\ \A k \in DOMAIN b :
                  PairIn(ps, b[k]) /\ b[k].arrival \in Nat /\ b[k].j = h
             /\ \A k, l \in DOMAIN b : b[k].arrival = b[l].arrival => b[k] = b[l]
<1> DEFINE partners == Partners(ps, redundant, h)
           mk(k) == MkPair(ps, partners[k], h, sugar, next_arrival + k - 1)
           C == {mk(k) : k \in DOMAIN partners}
           all == Candidates(ps, h, sugar)
           b == ChainCritB(all)
<1>1. partners \in Seq(1 .. h - 1)
  BY PartnersAreOlder
<1> HIDE DEF partners
<1>2. DOMAIN partners = 1 .. Len(partners) /\ Len(partners) \in Nat
  BY <1>1
<1>3. \A k \in DOMAIN partners : partners[k] \in 1 .. h - 1
  BY <1>1, <1>2, ElementOfSeq
<1>4. all = [k \in DOMAIN partners |-> mk(k)]
  BY DEF Candidates, partners
<1>5. ASSUME NEW k \in DOMAIN partners
      PROVE  /\ PairIn(ps, mk(k)) /\ mk(k).j = h
             /\ mk(k).arrival = next_arrival + k - 1 /\ mk(k).arrival \in Nat
  <2> DEFINE e == partners[k]
             a == next_arrival + k - 1
  <2>1. e \in DOMAIN ps /\ h \in DOMAIN ps /\ a \in Nat
    BY <1>2, <1>3
  <2> HIDE DEF e, a
  <2>2. LM(ps[e]) \in Monomial /\ LM(ps[h]) \in Monomial
    BY <2>1
  <2>3. /\ PairIn(ps, MkPair(ps, e, h, sugar, a))
        /\ MkPair(ps, e, h, sugar, a).j = h
        /\ MkPair(ps, e, h, sugar, a).arrival = a
    BY <2>1, <2>2, NewPairFacts
  <2> QED
    BY <2>1, <2>3 DEF e, a
<1> HIDE DEF mk
<1>6. all \in Seq(C)
  <2>1. \A k \in 1 .. Len(partners) : mk(k) \in C
    BY <1>2
  <2> HIDE DEF C
  <2>2. all \in [1 .. Len(partners) -> C]
    BY <1>2, <1>4, <2>1
  <2> QED
    BY <1>2, <2>2, SeqDef
<1>7. \A p \in C : PairIn(ps, p) /\ p.arrival \in Nat /\ p.j = h
  BY <1>5
<1>8. \A p, q \in C : p.arrival = q.arrival => p = q
  <2> SUFFICES ASSUME NEW k \in DOMAIN partners, NEW l \in DOMAIN partners,
                      mk(k).arrival = mk(l).arrival
               PROVE  mk(k) = mk(l)
    OBVIOUS
  <2>1. next_arrival + k - 1 = next_arrival + l - 1
    BY <1>5
  <2>2. k = l
    BY <1>2, <2>1
  <2> QED
    BY <2>2
<1> HIDE DEF C, all
<1>9. b \in Seq(C)
  BY <1>6, ChainCritBFacts
<1> HIDE DEF b
<1>10. Len(b) \in Nat /\ DOMAIN b = 1 .. Len(b) /\ \A k \in DOMAIN b : b[k] \in C
  BY <1>9
<1>11. /\ \A k \in DOMAIN b : PairIn(ps, b[k]) /\ b[k].arrival \in Nat /\ b[k].j = h
       /\ \A k, l \in DOMAIN b : b[k].arrival = b[l].arrival => b[k] = b[l]
  BY <1>7, <1>8, <1>10
<1> QED
  BY <1>10, <1>11 DEF b, all

LEMMA NextKeepsQueued ==
  ASSUME BasisInv, WorkInv, [Next]_vars
  PROVE  Queued'
<1>0. /\ next_arrival \in Nat
      /\ \A p \in l_set : PairIn(polys', p) /\ p.arrival \in Nat
      /\ \A p, q \in l_set : p.arrival = q.arrival /\ p.j = q.j => p = q
  BY PairStays DEF BasisInv, WorkInv, Queued
<1>1. CASE UNCHANGED <<l_set, next_arrival>>
  BY <1>0, <1>1 DEF Queued
<1>2. CASE PopPair
  BY <1>0, <1>2 DEF PopPair, Queued
<1>3. CASE Insert
  <2> DEFINE h == Len(polys) + 1
             b == ChainCritB(Candidates(polys', h, lobj.sugar))
  <2>1. /\ polys' = Append(polys, lobj.poly)
        /\ l_set' = InsertPairs(l_set \ ChainCritL(polys', l_set, h), b)
        /\ next_arrival' = next_arrival + Len(b)
    BY <1>3 DEF Insert, Inserted
  <2>2. h \in Nat /\ h > 0 /\ DOMAIN polys' = 1 .. h /\ DOMAIN polys = 1 .. h - 1
    BY <1>3, InsertFacts DEF BasisInv
  <2>3. \A i \in 1 .. h : LM(polys'[i]) \in Monomial
    BY <2>2, NextKeepsLeaders DEF Leaders
  <2>4. lobj.sugar \in Nat
    BY DEF WorkInv, Degrees, Sweet
  <2>5. /\ Len(b) \in Nat
        /\ \A k \in DOMAIN b :
             PairIn(polys', b[k]) /\ b[k].arrival \in Nat /\ b[k].j = h
        /\ \A k, l \in DOMAIN b : b[k].arrival = b[l].arrival => b[k] = b[l]
    <3> DEFINE ps == polys'
    <3> HIDE DEF h, ps
    <3>1. \A i \in 1 .. h : LM(ps[i]) \in Monomial
      BY <2>3 DEF ps
    <3>2. DOMAIN ps = 1 .. h
      BY <2>2 DEF ps
    <3>3. LET c == ChainCritB(Candidates(ps, h, lobj.sugar))
          IN  /\ Len(c) \in Nat /\ DOMAIN c = 1 .. Len(c)
              /\ \A k \in DOMAIN c :
                   PairIn(ps, c[k]) /\ c[k].arrival \in Nat /\ c[k].j = h
              /\ \A k, l \in DOMAIN c : c[k].arrival = c[l].arrival => c[k] = c[l]
      BY <1>0, <2>2, <2>4, <3>1, <3>2, CandidateFacts
    <3> QED
      BY <3>3 DEF ps
  <2> HIDE DEF b
  <2>6. \A p \in l_set' : p \in l_set \/ \E k \in DOMAIN b : p = b[k]
    BY <2>1 DEF InsertPairs
  <2>7. \A p \in l_set : p.j \in 1 .. h - 1
    BY <2>2 DEF WorkInv, Queued, PairIn
  <2>8. \A p \in l_set : p.j # h
    BY <2>2, <2>7
  <2> HIDE DEF h
  <2>9. ASSUME NEW p \in l_set', NEW q \in l_set', p.arrival = q.arrival, p.j = q.j
        PROVE  p = q
    BY <1>0, <2>5, <2>6, <2>8, <2>9
  <2>10. \A p \in l_set' : PairIn(polys', p) /\ p.arrival \in Nat
    BY <1>0, <2>5, <2>6
  <2>11. next_arrival' \in Nat
    BY <1>0, <2>1, <2>5
  <2> QED
    BY <2>9, <2>10, <2>11 DEF Queued
<1> QED
  BY <1>1, <1>2, <1>3, Writers

-----------------------------------------------------------------------------
(* The invariant and what it says.                                         *)

LEMMA InitWorkInv == Init => WorkInv
<1> SUFFICES ASSUME Init PROVE WorkInv
  OBVIOUS
<1>1. /\ DOMAIN polys = {} /\ l_set = {} /\ next_arrival = 0 /\ pc = "seed"
      /\ lobj = NoObject /\ survivor = Zero /\ input = given
  BY DEF Init
<1>2. given \in InputSeqs
  BY DEF Init
<1>3. (\E S : given \in Seq(S)) /\ \A k \in DOMAIN given : IsPolynomial(given[k])
  BY <1>2, InputSeqsAssumption
<1>4. \A k \in DOMAIN input : Graded(input[k]) /\ Led(input[k])
  <2> SUFFICES ASSUME NEW k \in DOMAIN given
               PROVE  Graded(given[k]) /\ Led(given[k])
    BY <1>1
  <2> DEFINE f == given[k]
  <2>1. IsPolynomial(f)
    BY <1>3
  <2> HIDE DEF f
  <2>2. Graded(f) /\ Led(f)
    BY <2>1, PolynomialIsGraded
  <2> QED
    BY <2>2 DEF f
<1>5. Degrees
  <2>1. lobj = LObject(lobj.poly, lobj.sugar) /\ Sweet(lobj)
    BY <1>1, SweetFacts DEF NoObject, LObject
  <2> QED
    BY <1>1, <1>3, <1>4, <2>1, ZeroFacts DEF Degrees
<1>6. Leaders /\ Queued
  BY <1>1 DEF Leaders, Queued
<1> QED
  BY <1>5, <1>6 DEF WorkInv

LEMMA SpecWorkInv == Spec => [](BasisInv /\ WorkInv)
<1>1. BasisInv /\ WorkInv /\ [Next]_vars => WorkInv'
  BY NextKeepsLeaders, NextKeepsDegrees, NextKeepsQueued DEF WorkInv
<1> QED
  BY <1>1, InitWorkInv, SpecBasisInv, PTL DEF Spec

(* The sugar of a working polynomial bounds the degree of its terms with   *)
(* either reducer, the terms that the heap reducer has parked included,    *)
(* and that of a queued pair the degree of its lcm (bba.rs:303-322,        *)
(* reducer.rs:349-413).                                                    *)
THEOREM SugarIsBound == Spec => []SugarBoundsDegree
<1>1. WorkInv => SugarBoundsDegree
  BY DEF WorkInv, Degrees, Queued, PairIn, Sweet, SugarBoundsDegree
<1> QED
  BY <1>1, SpecWorkInv, PTL

(* What a step appends, no earlier element divides.                        *)
LEMMA StepsGrowLeaders ==
  ASSUME BasisInv, WorkInv, [Next]_vars,
         NEW n \in DOMAIN polys' \ DOMAIN polys, NEW i \in DOMAIN polys
  PROVE  ~Divides(LM(polys[i]), LM(polys'[n]))
<1>1. CASE UNCHANGED <<polys, redundant>> \/ TailEnd
  BY <1>1, TailEndKeepsLeaders DEF BasisInv
<1>2. CASE Insert
  <2>1. n = Len(polys) + 1 /\ polys'[n] = lobj.poly
    BY <1>2, InsertFacts DEF BasisInv
  <2>. QED  BY <1>2, <2>1, NewLeader
<1>. QED  BY <1>1, <1>2, Writers

(* No element is ever inserted whose leading monomial an earlier one       *)
(* divides, redundant ones included: the reducer only looks at active      *)
(* elements, but what a redundant one divides an active one divides too    *)
(* (bba.rs:213-230, 401-434).                                              *)
THEOREM LeadersAlwaysGrow == Spec => LeadersGrow
<1>1. BasisInv /\ WorkInv /\ [Next]_vars =>
        [\A n \in DOMAIN polys' \ DOMAIN polys : \A i \in DOMAIN polys :
           ~Divides(LM(polys[i]), LM(polys'[n]))]_vars
  BY StepsGrowLeaders
<1> QED
  BY <1>1, SpecWorkInv, PTL DEF Spec, LeadersGrow

-----------------------------------------------------------------------------
(* The scans for a divisor.                                                *)

(* j is the first element of T from start on, or len + 1 when there is no  *)
(* such element.                                                           *)
First(T, len, start, j) ==
  /\ j \in start .. len + 1
  /\ j <= len => j \in T
  /\ \A k \in start .. j - 1 : k \notin T

FirstOf(T, len, start) == CHOOSE j : First(T, len, start, j)

LEMMA FirstExists ==
  ASSUME NEW len \in Nat, NEW T, NEW start \in 1 .. len + 1
  PROVE  First(T, len, start, FirstOf(T, len, start))
<1> DEFINE U == {j \in start .. len + 1 : j = len + 1 \/ j \in T}
<1>1. U \in SUBSET Nat /\ U # {}
  <2>1. len + 1 \in U
    OBVIOUS
  <2>. QED  BY <2>1
<1>2. PICK j \in U : \A k \in U : j <= k
  <2> HIDE DEF U
  <2>. QED  BY <1>1, LeastNatural
<1>3. First(T, len, start, j)
  <2>1. j \in start .. len + 1 /\ (j <= len => j \in T)
    OBVIOUS
  <2>2. ASSUME NEW k \in start .. j - 1, k \in T PROVE FALSE
    <3>1. k \in U
      BY <2>1, <2>2
    <3>. QED  BY <1>2, <2>1, <3>1
  <2>. QED  BY <2>1, <2>2 DEF First
<1>. QED  BY <1>3 DEF FirstOf

LEMMA FirstUnique ==
  ASSUME NEW len \in Nat, NEW T, NEW start \in 1 .. len + 1,
         NEW j, First(T, len, start, j), NEW k, First(T, len, start, k)
  PROVE  j = k
<1>1. j \in start .. len + 1 /\ k \in start .. len + 1
  BY DEF First
<1>2. ASSUME j < k PROVE FALSE
  BY <1>1, <1>2 DEF First
<1>3. ASSUME k < j PROVE FALSE
  BY <1>1, <1>3 DEF First
<1>. QED  BY <1>1, <1>2, <1>3

LEMMA FirstFrom ==
  ASSUME NEW len \in Nat, NEW T, NEW start \in 1 .. len + 1, NEW mid \in start .. len + 1,
         \A k \in start .. mid - 1 : k \notin T, NEW j, First(T, len, mid, j)
  PROVE  First(T, len, start, j)
BY DEF First

(* Induction from the end: what is passed on to the left holds everywhere. *)
LEMMA InductionDown ==
  ASSUME NEW len \in Nat, NEW start \in 1 .. len + 1, NEW S,
         \A j \in start .. len + 1 : (\A k \in j + 1 .. len + 1 : k \in S) => j \in S
  PROVE  \A j \in start .. len + 1 : j \in S
<1> DEFINE T == {j \in start .. len + 1 : j \notin S}
<1> SUFFICES ASSUME T # {} PROVE FALSE
  OBVIOUS
<1>1. T \in SUBSET (0 .. len + 1) /\ len + 1 \in Nat
  OBVIOUS
<1>2. PICK j \in T : \A k \in T : k <= j
  <2> HIDE DEF T
  <2>. QED  BY <1>1, LargestUpTo
<1>3. ASSUME NEW k \in j + 1 .. len + 1, k \notin S PROVE FALSE
  <2>1. k \in T
    BY <1>3
  <2>. QED  BY <1>2, <2>1
<1>. QED  BY <1>3

-----------------------------------------------------------------------------
(* Registers.                                                              *)

LEMMA TimesMonotone ==
  ASSUME NEW a \in Nat, NEW b \in Nat, NEW c \in Nat, a <= b
  PROVE  c * a <= c * b
<1>1. PICK d \in Nat : b = a + d
  <2>1. b - a \in Nat /\ b = a + (b - a)
    OBVIOUS
  <2>. QED  BY <2>1
<1>2. c * b = c * a + c * d /\ c * d \in Nat /\ c * a \in Nat
  BY <1>1
<1>. QED  BY <1>2

(* Every entry of a turn is in a lane of one of its registers.             *)
LEMMA LaneOf ==
  ASSUME NEW d \in 0 .. Lanes * Unroll - 1
  PROVE  \E r \in 0 .. Unroll - 1, l \in 0 .. Lanes - 1 : d = Lanes * r + l
<1>1. Lanes \in Nat /\ Lanes > 0 /\ Unroll \in Nat /\ d \in Nat /\ d < Lanes * Unroll
  <2>1. Lanes \in Nat /\ Lanes > 0 /\ Unroll \in Nat
    BY ScanAssumption
  <2>2. Lanes * Unroll \in Nat
    BY <2>1
  <2> DEFINE n == Lanes * Unroll
  <2> HIDE DEF n
  <2>3. d \in 0 .. n - 1 /\ n \in Nat
    BY <2>2 DEF n
  <2>4. d \in Nat /\ d < n
    BY <2>3
  <2>. QED  BY <2>1, <2>4 DEF n
<1> DEFINE r == d \div Lanes
           l == d % Lanes
<1>2. r \in Int /\ l \in 0 .. Lanes - 1 /\ d = Lanes * r + l
  BY <1>1
<1> HIDE DEF r, l
<1>3. r >= 0
  <2>1. ASSUME r <= -1 PROVE FALSE
    <3>1. Lanes * r <= -Lanes
      BY <1>1, <1>2, <2>1
    <3>. QED  BY <1>1, <1>2, <3>1
  <2>. QED  BY <1>2, <2>1
<1>4. r <= Unroll - 1
  <2>1. ASSUME r >= Unroll PROVE FALSE
    <3>1. Lanes * Unroll <= Lanes * r
      BY <1>1, <1>2, <1>3, <2>1, TimesMonotone
    <3>. QED  BY <1>1, <1>2, <3>1
  <2>. QED  BY <1>1, <1>2, <2>1
<1>. QED  BY <1>1, <1>2, <1>3, <1>4

(* A register of a turn lies between the ends of the turn.                 *)
LEMMA RegisterSpan ==
  ASSUME NEW r \in 0 .. Unroll - 1
  PROVE  Lanes * r \in Nat /\ Lanes * r + Lanes <= Lanes * Unroll /\ Lanes * Unroll \in Nat
<1>1. Lanes \in Nat /\ Unroll \in Nat /\ r + 1 <= Unroll /\ r + 1 \in Nat /\ r \in Nat
  BY ScanAssumption
<1>2. Lanes * (r + 1) <= Lanes * Unroll
  BY <1>1, TimesMonotone
<1>3. Lanes * (r + 1) = Lanes * r + Lanes /\ Lanes * r \in Nat /\ Lanes * Unroll \in Nat
  BY <1>1
<1>. QED  BY <1>2, <1>3

(* The entries at which hits is true.                                      *)
HitsOf(hits) == {i \in 1 .. Len(hits) : hits[i]}

(* The first lane with a hit, in a register with one.                      *)
LEMMA LaneFacts ==
  ASSUME NEW hits \in Seq(BOOLEAN), NEW j \in Nat \ {0}, j + Lanes <= Len(hits) + 1,
         RegisterHit(hits, j)
  PROVE  /\ FirstLane(hits, j) \in j .. j + Lanes - 1
         /\ FirstLane(hits, j) \in HitsOf(hits)
         /\ \A k \in j .. FirstLane(hits, j) - 1 : k \notin HitsOf(hits)
<1> DEFINE U == {l \in 0 .. Lanes - 1 : hits[j + l]}
           first == CHOOSE lane \in 0 .. Lanes - 1 : hits[j + lane] /\ \A l \in 0 .. lane - 1 : ~hits[j + l]
<1>0. Lanes \in Nat /\ Len(hits) \in Nat /\ DOMAIN hits = 1 .. Len(hits)
  BY ScanAssumption
<1>1. U \in SUBSET Nat /\ U # {}
  <2>1. PICK lane \in 0 .. Lanes - 1 : hits[j + lane]
    BY DEF RegisterHit
  <2>2. lane \in U
    BY <2>1
  <2>3. U \in SUBSET Nat
    BY <1>0
  <2>. QED  BY <2>2, <2>3
<1>2. PICK n \in U : \A l \in U : n <= l
  <2> HIDE DEF U
  <2>. QED  BY <1>1, LeastNatural
<1>3. n \in 0 .. Lanes - 1 /\ hits[j + n] /\ \A l \in 0 .. n - 1 : ~hits[j + l]
  <2>1. n \in 0 .. Lanes - 1 /\ hits[j + n]
    OBVIOUS
  <2>2. ASSUME NEW l \in 0 .. n - 1, hits[j + l] PROVE FALSE
    <3>1. l \in U
      BY <1>0, <2>1, <2>2
    <3>. QED  BY <1>2, <2>1, <3>1
  <2>. QED  BY <2>1, <2>2
<1>4. first \in 0 .. Lanes - 1 /\ hits[j + first] /\ \A l \in 0 .. first - 1 : ~hits[j + l]
  <2>. QED  BY <1>3, Zenon
<1> DEFINE e == FirstLane(hits, j)
<1>5. e = j + first
  BY DEF FirstLane
<1> HIDE DEF first, U, e
<1>6. e \in j .. j + Lanes - 1 /\ e \in 1 .. Len(hits) /\ hits[e]
  BY <1>0, <1>4, <1>5
<1>7. ASSUME NEW k \in j .. e - 1 PROVE k \notin HitsOf(hits)
  <2>1. k - j \in 0 .. first - 1 /\ j + (k - j) = k
    BY <1>0, <1>4, <1>5
  <2>2. ~hits[k]
    BY <1>4, <2>1
  <2>. QED  BY <2>2 DEF HitsOf
<1>8. e \in HitsOf(hits)
  BY <1>6 DEF HitsOf
<1>. QED  BY <1>6, <1>7, <1>8, Zenon DEF e

LEMMA NoLane ==
  ASSUME NEW hits \in Seq(BOOLEAN), NEW j \in Nat \ {0}, ~RegisterHit(hits, j)
  PROVE  \A k \in j .. j + Lanes - 1 : k \notin HitsOf(hits)
<1>1. ASSUME NEW k \in j .. j + Lanes - 1 PROVE ~hits[k]
  <2>1. k - j \in 0 .. Lanes - 1 /\ j + (k - j) = k
    BY ScanAssumption
  <2>. QED  BY <2>1 DEF RegisterHit
<1>. QED  BY <1>1 DEF HitsOf

LEMMA ScalarFinds ==
  ASSUME NEW hits \in Seq(BOOLEAN), NEW start \in 1 .. Len(hits) + 1
  PROVE  First(HitsOf(hits), Len(hits), start, ScalarMatch(hits, start))
<1> DEFINE from == {i \in start .. Len(hits) : hits[i]}
           j == ScalarMatch(hits, start)
<1>0. Len(hits) \in Nat
  OBVIOUS
<1>1. j = IF from = {} THEN Len(hits) + 1 ELSE CHOOSE i \in from : \A k \in from : i <= k
  BY DEF ScalarMatch
<1>2. \A k \in start .. Len(hits) : k \in HitsOf(hits) <=> k \in from
  BY <1>0 DEF HitsOf
<1>3. from \in SUBSET Nat
  BY <1>0
<1>4. \A k \in from : k \in start .. Len(hits)
  OBVIOUS
<1> HIDE DEF from, j
<1>5. CASE from = {}
  <2>1. j = Len(hits) + 1
    BY <1>1, <1>5
  <2>. QED  BY <1>0, <1>2, <1>5, <2>1 DEF First, j
<1>6. CASE from # {}
  <2>1. \E i \in from : \A k \in from : i <= k
    BY <1>3, <1>6, LeastNatural
  <2>2. j = CHOOSE i \in from : \A k \in from : i <= k
    BY <1>1, <1>6, Zenon
  <2>3. j \in from /\ \A k \in from : j <= k
    BY <2>1, <2>2, Zenon
  <2>4. j \in start .. Len(hits) /\ j \in HitsOf(hits)
    BY <1>2, <1>4, <2>3
  <2>5. ASSUME NEW k \in start .. j - 1, k \in HitsOf(hits) PROVE FALSE
    <3>1. k \in start .. Len(hits)
      BY <1>0, <2>4
    <3>2. k \in from
      BY <1>2, <2>5, <3>1
    <3>3. j <= k
      BY <2>3, <3>2
    <3>. QED  BY <1>0, <2>4, <3>3
  <2>. QED  BY <1>0, <2>4, <2>5 DEF First, j
<1>. QED  BY <1>5, <1>6

(* One turn of the vector loops; f has the answers from later starts.      *)
VectorTurn(hits, f, j) ==
  LET registers == {j + Lanes * r : r \in 0 .. Unroll - 1}
      hit       == {b \in registers : RegisterHit(hits, b)}
  IN  IF j + Lanes * Unroll <= Len(hits) + 1
      THEN IF hit = {} THEN f[j + Lanes * Unroll]
           ELSE FirstLane(hits, CHOOSE b \in hit : \A c \in hit : b <= c)
      ELSE IF j + Lanes <= Len(hits) + 1
      THEN IF RegisterHit(hits, j) THEN FirstLane(hits, j) ELSE f[j + Lanes]
      ELSE ScalarMatch(hits, j)

VectorRun(hits, start) ==
  CHOOSE f : f = [j \in start .. Len(hits) + 1 |-> VectorTurn(hits, f, j)]

LEMMA VectorMatchIs ==
  \A hits, start : VectorMatch(hits, start) = VectorRun(hits, start)[start]
BY DEF VectorMatch, VectorRun, VectorTurn

(* A turn that finds a hit in one of its registers.                        *)
LEMMA UnrolledHit ==
  ASSUME NEW hits \in Seq(BOOLEAN), NEW j \in 1 .. Len(hits) + 1,
         j + Lanes * Unroll <= Len(hits) + 1,
         NEW hit, hit = {b \in {j + Lanes * r : r \in 0 .. Unroll - 1} : RegisterHit(hits, b)},
         hit # {}
  PROVE  First(HitsOf(hits), Len(hits), j,
               FirstLane(hits, CHOOSE b \in hit : \A c \in hit : b <= c))
<1> DEFINE b == CHOOSE c \in hit : \A d \in hit : c <= d
           e == FirstLane(hits, b)
<1>0. /\ Lanes \in Nat /\ Lanes > 0 /\ Unroll \in Nat /\ Len(hits) \in Nat /\ j \in Nat /\ j > 0
      /\ Lanes * Unroll \in Nat
  BY ScanAssumption
<1>1. hit \in SUBSET Nat
  BY <1>0
<1>2. \E c \in hit : \A d \in hit : c <= d
  BY <1>1, LeastNatural
<1>3. b \in hit /\ \A d \in hit : b <= d
  BY <1>2
<1> HIDE DEF b
<1>4. PICK r \in 0 .. Unroll - 1 : b = j + Lanes * r
  BY <1>3
<1>5. RegisterHit(hits, b) /\ b \in Nat \ {0} /\ b >= j /\ b + Lanes <= j + Lanes * Unroll
  <2>1. Lanes * r \in Nat /\ Lanes * r + Lanes <= Lanes * Unroll
    BY RegisterSpan
  <2> DEFINE m == Lanes * r
             n == Lanes * Unroll
  <2> HIDE DEF m, n
  <2>2. b = j + m /\ m \in Nat /\ m + Lanes <= n /\ n \in Nat
    BY <1>0, <1>4, <2>1 DEF m, n
  <2>3. b \in Nat \ {0} /\ b >= j /\ b + Lanes <= j + n
    BY <1>0, <2>2
  <2>4. RegisterHit(hits, b)
    BY <1>3
  <2>. QED  BY <2>3, <2>4 DEF n
<1>6. b + Lanes <= Len(hits) + 1
  BY <1>0, <1>5
<1>7. /\ e \in b .. b + Lanes - 1 /\ e \in HitsOf(hits)
      /\ \A k \in b .. e - 1 : k \notin HitsOf(hits)
  BY <1>5, <1>6, LaneFacts
<1> HIDE DEF e
<1>8. ASSUME NEW k \in j .. b - 1 PROVE k \notin HitsOf(hits)
  <2> DEFINE n == Lanes * Unroll
             d == k - j
  <2>1. d \in 0 .. n - 1
    <3>1. n \in Nat /\ b + Lanes <= j + n
      BY <1>0, <1>5
    <3> HIDE DEF n
    <3>. QED  BY <1>0, <1>5, <3>1
  <2>2. PICK q \in 0 .. Unroll - 1, l \in 0 .. Lanes - 1 : d = Lanes * q + l
    BY <2>1, LaneOf
  <2> DEFINE c == j + Lanes * q
  <2>3. c \in Nat \ {0} /\ k \in c .. c + Lanes - 1 /\ c <= k
    <3>1. Lanes * q \in Nat
      BY RegisterSpan
    <3> DEFINE m == Lanes * q
    <3> HIDE DEF m
    <3>2. k - j = m + l /\ m \in Nat /\ c = j + m
      BY <2>2, <3>1 DEF m
    <3>. QED  BY <1>0, <3>2
  <2>4. c \notin hit
    BY <1>0, <1>3, <1>5, <2>3, SMTT(60)
  <2>5. ~RegisterHit(hits, c)
    BY <2>4
  <2> HIDE DEF c
  <2>. QED  BY <2>3, <2>5, NoLane
<1>9. ASSUME NEW k \in j .. e - 1 PROVE k \notin HitsOf(hits)
  <2>1. k \in j .. b - 1 \/ k \in b .. e - 1
    BY <1>0, <1>5, <1>7
  <2>. QED  BY <1>7, <1>8, <2>1
<1>10. e \in j .. Len(hits) + 1
  BY <1>0, <1>5, <1>6, <1>7
<1>11. First(HitsOf(hits), Len(hits), j, e)
  BY <1>7, <1>9, <1>10 DEF First
<1>. QED  BY <1>11 DEF e, b

(* A turn that finds none.                                                 *)
LEMMA UnrolledMiss ==
  ASSUME NEW hits \in Seq(BOOLEAN), NEW j \in 1 .. Len(hits) + 1,
         \A r \in 0 .. Unroll - 1 : ~RegisterHit(hits, j + Lanes * r)
  PROVE  \A k \in j .. j + Lanes * Unroll - 1 : k \notin HitsOf(hits)
<1>0. /\ Lanes \in Nat /\ Lanes > 0 /\ Unroll \in Nat /\ Len(hits) \in Nat /\ j \in Nat /\ j > 0
      /\ Lanes * Unroll \in Nat
  BY ScanAssumption
<1>1. ASSUME NEW k \in j .. j + Lanes * Unroll - 1 PROVE k \notin HitsOf(hits)
  <2> DEFINE n == Lanes * Unroll
             d == k - j
  <2>1. d \in 0 .. n - 1
    <3>1. n \in Nat /\ k \in j .. j + n - 1
      BY <1>0
    <3> HIDE DEF n
    <3>. QED  BY <1>0, <3>1
  <2>2. PICK q \in 0 .. Unroll - 1, l \in 0 .. Lanes - 1 : d = Lanes * q + l
    BY <2>1, LaneOf
  <2> DEFINE c == j + Lanes * q
  <2>3. c \in Nat \ {0} /\ k \in c .. c + Lanes - 1
    <3>1. Lanes * q \in Nat
      BY RegisterSpan
    <3> DEFINE m == Lanes * q
    <3> HIDE DEF m
    <3>2. k - j = m + l /\ m \in Nat /\ c = j + m /\ k \in Int
      BY <1>0, <2>2, <3>1 DEF m
    <3>. QED  BY <1>0, <3>2
  <2>4. ~RegisterHit(hits, c)
    OBVIOUS
  <2> HIDE DEF c
  <2>. QED  BY <2>3, <2>4, NoLane
<1>. QED  BY <1>1

LEMMA TurnFinds ==
  ASSUME NEW hits \in Seq(BOOLEAN), NEW j \in 1 .. Len(hits) + 1, NEW f,
         \A k \in j + 1 .. Len(hits) + 1 : First(HitsOf(hits), Len(hits), k, f[k])
  PROVE  First(HitsOf(hits), Len(hits), j, VectorTurn(hits, f, j))
<1> DEFINE hit == {b \in {j + Lanes * r : r \in 0 .. Unroll - 1} : RegisterHit(hits, b)}
           T == HitsOf(hits)
           len == Len(hits)
           v == VectorTurn(hits, f, j)
           n == Lanes * Unroll
<1>0. /\ Lanes \in Nat /\ Lanes > 0 /\ Unroll \in Nat /\ Unroll > 0 /\ len \in Nat /\ j \in Nat
      /\ j > 0 /\ n \in Nat
  BY ScanAssumption
<1>1. v = IF j + n <= len + 1
          THEN IF hit = {} THEN f[j + n]
               ELSE FirstLane(hits, CHOOSE b \in hit : \A c \in hit : b <= c)
          ELSE IF j + Lanes <= len + 1
          THEN IF RegisterHit(hits, j) THEN FirstLane(hits, j) ELSE f[j + Lanes]
          ELSE ScalarMatch(hits, j)
  BY DEF VectorTurn
<1>2. n > 0
  <2>1. Lanes * 1 <= Lanes * Unroll
    BY <1>0, TimesMonotone
  <2>. QED  BY <1>0, <2>1
<1>3. CASE j + n <= len + 1 /\ hit # {}
  <2>1. v = FirstLane(hits, CHOOSE b \in hit : \A c \in hit : b <= c)
    BY <1>1, <1>3, Zenon
  <2>. QED  BY <1>3, <2>1, UnrolledHit
<1>4. CASE j + n <= len + 1 /\ hit = {}
  <2>1. v = f[j + n]
    BY <1>1, <1>4, Zenon
  <2>2. \A r \in 0 .. Unroll - 1 : ~RegisterHit(hits, j + Lanes * r)
    BY <1>4
  <2>3. \A k \in j .. j + n - 1 : k \notin T
    BY <2>2, UnrolledMiss
  <2> HIDE DEF n, T, v
  <2>4. j + n \in j + 1 .. len + 1
    BY <1>0, <1>2, <1>4
  <2>5. First(T, len, j + n, v)
    BY <2>1, <2>4 DEF T
  <2>. QED  BY <1>0, <2>3, <2>4, <2>5, FirstFrom DEF T, v
<1>5. CASE ~(j + n <= len + 1) /\ j + Lanes <= len + 1 /\ RegisterHit(hits, j)
  <2> DEFINE e == FirstLane(hits, j)
  <2>1. v = e
    BY <1>1, <1>5, Zenon
  <2>2. /\ e \in j .. j + Lanes - 1 /\ e \in T
        /\ \A k \in j .. e - 1 : k \notin T
    BY <1>0, <1>5, LaneFacts
  <2> HIDE DEF e
  <2>3. e \in j .. len + 1
    BY <1>0, <1>5, <2>2
  <2>. QED  BY <2>1, <2>2, <2>3 DEF First
<1>6. CASE ~(j + n <= len + 1) /\ j + Lanes <= len + 1 /\ ~RegisterHit(hits, j)
  <2>1. v = f[j + Lanes]
    BY <1>1, <1>6, Zenon
  <2>2. \A k \in j .. j + Lanes - 1 : k \notin T
    BY <1>0, <1>6, NoLane
  <2> HIDE DEF n, T, v
  <2>3. j + Lanes \in j + 1 .. len + 1
    BY <1>0, <1>6
  <2>4. First(T, len, j + Lanes, v)
    BY <2>1, <2>3 DEF T
  <2>. QED  BY <1>0, <2>2, <2>3, <2>4, FirstFrom DEF T, v
<1>7. CASE ~(j + n <= len + 1) /\ ~(j + Lanes <= len + 1)
  <2>1. v = ScalarMatch(hits, j)
    BY <1>1, <1>7, Zenon
  <2>. QED  BY <2>1, ScalarFinds
<1>. QED  BY <1>3, <1>4, <1>5, <1>6, <1>7

LEMMA VectorRunIs ==
  ASSUME NEW hits \in Seq(BOOLEAN), NEW start \in 1 .. Len(hits) + 1
  PROVE  VectorRun(hits, start)
         = [j \in start .. Len(hits) + 1 |-> VectorTurn(hits, VectorRun(hits, start), j)]
<1> DEFINE D == start .. Len(hits) + 1
           f == [j \in D |-> FirstOf(HitsOf(hits), Len(hits), j)]
<1>1. Len(hits) \in Nat /\ \A j \in D : j \in 1 .. Len(hits) + 1 /\ \A k \in j + 1 .. Len(hits) + 1 : k \in D
  OBVIOUS
<1>2. \A j \in D : First(HitsOf(hits), Len(hits), j, f[j])
  BY <1>1, FirstExists
<1>3. f = [j \in D |-> f[j]]
  OBVIOUS
<1> HIDE DEF f, D
<1>4. ASSUME NEW j \in D PROVE f[j] = VectorTurn(hits, f, j)
  <2>1. \A k \in j + 1 .. Len(hits) + 1 : First(HitsOf(hits), Len(hits), k, f[k])
    BY <1>1, <1>2
  <2>2. j \in 1 .. Len(hits) + 1 /\ First(HitsOf(hits), Len(hits), j, f[j])
    BY <1>1, <1>2
  <2>3. First(HitsOf(hits), Len(hits), j, VectorTurn(hits, f, j))
    BY <2>1, <2>2, TurnFinds
  <2>. QED  BY <1>1, <2>2, <2>3, FirstUnique
<1>5. [j \in D |-> f[j]] = [j \in D |-> VectorTurn(hits, f, j)]
  BY <1>4
<1>6. \E g : g = [j \in D |-> VectorTurn(hits, g, j)]
  BY <1>3, <1>5, Zenon
<1>. QED  BY <1>6 DEF VectorRun, D

(* The vector loops find what the scalar loop finds.                       *)
LEMMA VectorFinds ==
  ASSUME NEW hits \in Seq(BOOLEAN), NEW start \in 1 .. Len(hits) + 1
  PROVE  First(HitsOf(hits), Len(hits), start, VectorMatch(hits, start))
<1> DEFINE f == VectorRun(hits, start)
           S == {j \in start .. Len(hits) + 1 : First(HitsOf(hits), Len(hits), j, f[j])}
<1>0. Len(hits) \in Nat
  OBVIOUS
<1>1. f = [j \in start .. Len(hits) + 1 |-> VectorTurn(hits, f, j)]
  BY VectorRunIs
<1> HIDE DEF f
<1>2. ASSUME NEW j \in start .. Len(hits) + 1, \A k \in j + 1 .. Len(hits) + 1 : k \in S
      PROVE  j \in S
  <2>1. f[j] = VectorTurn(hits, f, j)
    BY <1>1
  <2>2. j \in 1 .. Len(hits) + 1
    BY <1>0
  <2>3. \A k \in j + 1 .. Len(hits) + 1 : First(HitsOf(hits), Len(hits), k, f[k])
    BY <1>2
  <2>4. First(HitsOf(hits), Len(hits), j, f[j])
    BY <2>1, <2>2, <2>3, TurnFinds
  <2>. QED  BY <2>4
<1>3. start \in start .. Len(hits) + 1
  BY <1>0
<1>4. start \in S
  <2> HIDE DEF S
  <2>. QED  BY <1>0, <1>2, <1>3, InductionDown
<1>. QED  BY <1>4, VectorMatchIs DEF f

(* What divides a monomial passes the filter.                              *)
LEMMA SevDivides ==
  ASSUME NEW a \in Monomial, NEW b \in Monomial, Divides(a, b)
  PROVE  Sev(a) \subseteq Sev(b)
<1>1. ASSUME NEW v \in Vars, a[v] > 0 PROVE b[v] > 0
  BY <1>1 DEF Divides, Monomial
<1>. QED  BY <1>1 DEF Sev

LEMMA FlagsSeq ==
  ASSUME NEW n \in Nat, NEW f \in [1 .. n -> BOOLEAN]
  PROVE  f \in Seq(BOOLEAN) /\ Len(f) = n
BY SeqDef, LenProperties

SevsOf(ps) == [i \in DOMAIN ps |-> Sev(LM(ps[i]))]

LEMMA SubsetHitsFacts ==
  ASSUME NEW sevs, NEW n \in Nat, DOMAIN sevs = 1 .. n, NEW sev
  PROVE  /\ SubsetHits(sevs, sev) \in Seq(BOOLEAN) /\ Len(SubsetHits(sevs, sev)) = n
         /\ \A k \in 1 .. n : k \in HitsOf(SubsetHits(sevs, sev)) <=> sevs[k] \subseteq sev
<1> DEFINE f == SubsetHits(sevs, sev)
<1>1. f = [i \in 1 .. n |-> sevs[i] \subseteq sev]
  BY DEF SubsetHits
<1>2. f \in [1 .. n -> BOOLEAN]
  BY <1>1
<1>3. \A k \in 1 .. n : f[k] <=> sevs[k] \subseteq sev
  BY <1>1, Zenon
<1> HIDE DEF f
<1>4. f \in Seq(BOOLEAN) /\ Len(f) = n
  BY <1>2, FlagsSeq
<1>5. \A k \in 1 .. n : k \in HitsOf(f) <=> f[k]
  BY <1>4 DEF HitsOf
<1>. QED  BY <1>3, <1>4, <1>5 DEF f

LEMMA SupersetHitsFacts ==
  ASSUME NEW sevs, NEW n \in Nat, DOMAIN sevs = 1 .. n, NEW sev
  PROVE  /\ SupersetHits(sevs, sev) \in Seq(BOOLEAN) /\ Len(SupersetHits(sevs, sev)) = n
         /\ \A k \in 1 .. n : k \in HitsOf(SupersetHits(sevs, sev)) <=> sev \subseteq sevs[k]
<1> DEFINE f == SupersetHits(sevs, sev)
<1>1. f = [i \in 1 .. n |-> sev \subseteq sevs[i]]
  BY DEF SupersetHits
<1>2. f \in [1 .. n -> BOOLEAN]
  BY <1>1
<1>3. \A k \in 1 .. n : f[k] <=> sev \subseteq sevs[k]
  BY <1>1, Zenon
<1> HIDE DEF f
<1>4. f \in Seq(BOOLEAN) /\ Len(f) = n
  BY <1>2, FlagsSeq
<1>5. \A k \in 1 .. n : k \in HitsOf(f) <=> f[k]
  BY <1>4 DEF HitsOf
<1>. QED  BY <1>3, <1>4, <1>5 DEF f

(* The filtered scan passes over nothing that the exact test accepts.      *)
LEMMA SubsetScan ==
  ASSUME NEW sevs, NEW n \in Nat, DOMAIN sevs = 1 .. n, NEW sev, NEW start \in 1 .. n + 1
  PROVE  /\ FindSevMatch(sevs, sev, start) \in start .. n + 1
         /\ \A k \in start .. FindSevMatch(sevs, sev, start) - 1 : ~(sevs[k] \subseteq sev)
<1> DEFINE hits == SubsetHits(sevs, sev)
           j == VectorMatch(hits, start)
<1>1. /\ hits \in Seq(BOOLEAN) /\ Len(hits) = n
      /\ \A k \in 1 .. n : k \in HitsOf(hits) <=> sevs[k] \subseteq sev
  BY SubsetHitsFacts
<1> HIDE DEF hits
<1>2. First(HitsOf(hits), n, start, j)
  BY <1>1, VectorFinds
<1> HIDE DEF j
<1>3. j \in start .. n + 1 /\ \A k \in start .. j - 1 : k \in 1 .. n /\ k \notin HitsOf(hits)
  BY <1>2 DEF First
<1>4. FindSevMatch(sevs, sev, start) = j
  BY DEF FindSevMatch, j, hits
<1>. QED  BY <1>1, <1>3, <1>4

LEMMA SupersetScan ==
  ASSUME NEW sevs, NEW n \in Nat, DOMAIN sevs = 1 .. n, NEW sev, NEW start \in 1 .. n + 1
  PROVE  /\ FindSevSupersetMatch(sevs, sev, start) \in start .. n + 1
         /\ \A k \in start .. FindSevSupersetMatch(sevs, sev, start) - 1 :
              ~(sev \subseteq sevs[k])
<1> DEFINE hits == SupersetHits(sevs, sev)
           j == VectorMatch(hits, start)
<1>1. /\ hits \in Seq(BOOLEAN) /\ Len(hits) = n
      /\ \A k \in 1 .. n : k \in HitsOf(hits) <=> sev \subseteq sevs[k]
  BY SupersetHitsFacts
<1> HIDE DEF hits
<1>2. First(HitsOf(hits), n, start, j)
  BY <1>1, VectorFinds
<1> HIDE DEF j
<1>3. j \in start .. n + 1 /\ \A k \in start .. j - 1 : k \in 1 .. n /\ k \notin HitsOf(hits)
  BY <1>2 DEF First
<1>4. FindSevSupersetMatch(sevs, sev, start) = j
  BY DEF FindSevSupersetMatch, j, hits
<1>. QED  BY <1>1, <1>3, <1>4

-----------------------------------------------------------------------------
(* find_divisor_idx.                                                       *)

(* One entry that passes the filter; f has the answers from later starts.  *)
FindTurn(ps, flags, m, f, start) ==
  LET idx == FindSevMatch(SevsOf(ps), Sev(m), start)
  IN  IF idx > Len(ps) THEN Len(ps) + 1
      ELSE IF ~flags[idx] /\ Divides(LM(ps[idx]), m) THEN idx
      ELSE f[idx + 1]

FindRun(ps, flags, m) ==
  CHOOSE f : f = [start \in 1 .. Len(ps) + 1 |-> FindTurn(ps, flags, m, f, start)]

LEMMA FindDivisorIs ==
  \A ps, flags, m : FindDivisorIdx(ps, flags, m) = FindRun(ps, flags, m)[1]
BY DEF FindDivisorIdx, FindRun, FindTurn, SevsOf

(* The elements that are looked at have leading monomials.                 *)
Elements(ps) ==
  /\ \E S : ps \in Seq(S)
  /\ \A i \in DOMAIN ps : LM(ps[i]) \in Monomial

LEMMA FindTurnFinds ==
  ASSUME NEW ps, Elements(ps), NEW flags, NEW m \in Monomial, NEW start \in 1 .. Len(ps) + 1,
         NEW f,
         \A k \in start + 1 .. Len(ps) + 1 : First(Divisors(ps, flags, m), Len(ps), k, f[k])
  PROVE  First(Divisors(ps, flags, m), Len(ps), start, FindTurn(ps, flags, m, f, start))
<1> DEFINE n == Len(ps)
           sevs == SevsOf(ps)
           idx == FindSevMatch(sevs, Sev(m), start)
           T == Divisors(ps, flags, m)
           v == FindTurn(ps, flags, m, f, start)
<1>0. n \in Nat /\ DOMAIN ps = 1 .. n /\ \A i \in 1 .. n : LM(ps[i]) \in Monomial
  BY DEF Elements
<1>1. DOMAIN sevs = 1 .. n /\ \A k \in 1 .. n : sevs[k] = Sev(LM(ps[k]))
  BY <1>0 DEF SevsOf
<1> HIDE DEF sevs
<1>2. idx \in start .. n + 1 /\ \A k \in start .. idx - 1 : ~(sevs[k] \subseteq Sev(m))
  BY <1>0, <1>1, SubsetScan
<1>3. v = IF idx > n THEN n + 1
          ELSE IF ~flags[idx] /\ Divides(LM(ps[idx]), m) THEN idx
          ELSE f[idx + 1]
  BY DEF FindTurn, sevs
<1> HIDE DEF idx
<1>4. ASSUME NEW k \in start .. idx - 1 PROVE k \notin T
  <2>1. k \in 1 .. n
    BY <1>0, <1>2
  <2>2. ~Divides(LM(ps[k]), m)
    BY <1>0, <1>1, <1>2, <2>1, SevDivides
  <2>. QED  BY <2>2 DEF Divisors
<1>5. CASE idx > n
  <2>1. v = n + 1 /\ idx = n + 1
    BY <1>0, <1>2, <1>3, <1>5
  <2>. QED  BY <1>2, <1>4, <2>1 DEF First
<1>6. CASE ~(idx > n) /\ ~flags[idx] /\ Divides(LM(ps[idx]), m)
  <2>1. v = idx
    BY <1>3, <1>6, Zenon
  <2>2. idx \in T
    BY <1>0, <1>2, <1>6 DEF Divisors
  <2>. QED  BY <1>2, <1>4, <2>1, <2>2 DEF First
<1>7. CASE ~(idx > n) /\ ~(~flags[idx] /\ Divides(LM(ps[idx]), m))
  <2>1. v = f[idx + 1]
    BY <1>3, <1>7, Zenon
  <2>2. idx \notin T
    BY <1>7 DEF Divisors
  <2> HIDE DEF T, v, n
  <2>3. idx + 1 \in start + 1 .. n + 1 /\ idx + 1 \in start .. n + 1
    BY <1>0, <1>2, <1>7
  <2>4. First(T, n, idx + 1, v)
    BY <2>1, <2>3 DEF T, n
  <2> DEFINE mid == idx + 1
  <2>5. \A k \in start .. mid - 1 : k \notin T
    BY <1>0, <1>2, <1>4, <2>2
  <2>6. start \in 1 .. n + 1 /\ mid \in start .. n + 1 /\ First(T, n, mid, v)
    BY <2>3, <2>4 DEF n
  <2> HIDE DEF mid
  <2>7. First(T, n, start, v)
    BY <1>0, <2>5, <2>6, FirstFrom
  <2>. QED  BY <2>7 DEF T, v, n
<1>. QED  BY <1>5, <1>6, <1>7

LEMMA FindRunIs ==
  ASSUME NEW ps, Elements(ps), NEW flags, NEW m \in Monomial
  PROVE  FindRun(ps, flags, m)
         = [start \in 1 .. Len(ps) + 1 |-> FindTurn(ps, flags, m, FindRun(ps, flags, m), start)]
<1> DEFINE n == Len(ps)
           D == 1 .. n + 1
           T == Divisors(ps, flags, m)
           f == [j \in D |-> FirstOf(T, n, j)]
<1>1. n \in Nat
  BY DEF Elements
<1>2. \A j \in D : j \in 1 .. n + 1 /\ \A k \in j + 1 .. n + 1 : k \in D
  BY <1>1
<1>3. \A j \in D : First(T, n, j, f[j])
  BY <1>1, FirstExists
<1>4. f = [j \in D |-> f[j]]
  OBVIOUS
<1> HIDE DEF f, D, T
<1>5. ASSUME NEW j \in D PROVE f[j] = FindTurn(ps, flags, m, f, j)
  <2>1. \A k \in j + 1 .. n + 1 : First(T, n, k, f[k])
    BY <1>2, <1>3
  <2>2. j \in 1 .. n + 1 /\ First(T, n, j, f[j])
    BY <1>2, <1>3
  <2>3. First(T, n, j, FindTurn(ps, flags, m, f, j))
    BY <2>1, <2>2, FindTurnFinds DEF T
  <2>. QED  BY <1>1, <2>2, <2>3, FirstUnique
<1>6. [j \in D |-> f[j]] = [j \in D |-> FindTurn(ps, flags, m, f, j)]
  BY <1>5
<1>7. \E g : g = [j \in D |-> FindTurn(ps, flags, m, g, j)]
  BY <1>4, <1>6, Zenon
<1>. QED  BY <1>7 DEF FindRun, D

(* The scan ends at the first active divisor, or past the last element.    *)
LEMMA DivisorFound ==
  ASSUME NEW ps, Elements(ps), NEW flags, NEW m \in Monomial
  PROVE  First(Divisors(ps, flags, m), Len(ps), 1, FindDivisorIdx(ps, flags, m))
<1> DEFINE n == Len(ps)
           T == Divisors(ps, flags, m)
           f == FindRun(ps, flags, m)
           S == {j \in 1 .. n + 1 : First(T, n, j, f[j])}
<1>0. n \in Nat
  BY DEF Elements
<1>1. \A j \in 1 .. n + 1 : f[j] = FindTurn(ps, flags, m, f, j)
  BY FindRunIs
<1> HIDE DEF f
<1>2. ASSUME NEW j \in 1 .. n + 1, \A k \in j + 1 .. n + 1 : k \in S
      PROVE  j \in S
  <2>1. \A k \in j + 1 .. n + 1 : First(T, n, k, f[k])
    BY <1>2
  <2>2. First(T, n, j, f[j])
    BY <1>1, <2>1, FindTurnFinds
  <2>. QED  BY <2>2
<1>3. 1 \in 1 .. n + 1
  BY <1>0
<1>4. 1 \in S
  <2> HIDE DEF S
  <2>. QED  BY <1>0, <1>2, <1>3, InductionDown
<1>. QED  BY <1>4, FindDivisorIs DEF f

LEMMA FindsTheFirst ==
  ASSUME NEW ps, Elements(ps), NEW flags, NEW p, LM(p) \in Monomial, p # Zero
  PROVE  FindDivisorIdx(ps, flags, LM(p))
         = IF Reducible(ps, flags, p) THEN FirstDivisor(ps, flags, LM(p)) ELSE Len(ps) + 1
<1> DEFINE T == Divisors(ps, flags, LM(p))
           j == FindDivisorIdx(ps, flags, LM(p))
           n == Len(ps)
<1>0. n \in Nat /\ T \subseteq 1 .. n
  BY DEF Elements, Divisors
<1>1. First(T, n, 1, j)
  BY DivisorFound
<1>2. Reducible(ps, flags, p) <=> T # {}
  BY DEF Reducible
<1>3. FirstDivisor(ps, flags, LM(p)) = CHOOSE i \in T : \A k \in T : i <= k
  BY DEF FirstDivisor
<1> HIDE DEF T, j, n
<1>4. CASE T = {}
  <2>1. j = n + 1
    BY <1>0, <1>1, <1>4 DEF First
  <2>. QED  BY <1>2, <1>4, <2>1 DEF j, n
<1>5. CASE T # {}
  <2> DEFINE i == CHOOSE l \in T : \A k \in T : l <= k
  <2>0. PICK t \in T : t \in 1 .. n
    BY <1>0, <1>5
  <2>1. j \in T
    BY <1>0, <1>1, <2>0 DEF First
  <2>4. ASSUME NEW k \in T PROVE j <= k
    BY <1>0, <1>1 DEF First
  <2>2. i \in T /\ \A k \in T : i <= k
    BY <2>1, <2>4
  <2> HIDE DEF i
  <2>3. j = i
    BY <1>0, <2>1, <2>2, <2>4
  <2>. QED  BY <1>2, <1>3, <1>5, <2>3 DEF j, n, i
<1>. QED  BY <1>4, <1>5

-----------------------------------------------------------------------------
(* chain_crit_normal.                                                      *)

(* Candidate j implies candidate k: its lcm divides the other's, and of    *)
(* equal lcms the first one stays.                                         *)
Kills(b, j, k) ==
  j # k /\ IF b[k].lcm = b[j].lcm THEN k > j ELSE Divides(b[j].lcm, b[k].lcm)

KilledBy(b, i, marked) == {k \in DOMAIN b : k \notin marked /\ Kills(b, i, k)}

PairSevs(b) == [k \in DOMAIN b |-> Sev(b[k].lcm)]

(* The candidates are a sequence, and their lcms are monomials.            *)
Lcms(b) ==
  /\ Len(b) \in Nat /\ DOMAIN b = 1 .. Len(b)
  /\ \A k \in DOMAIN b : b[k].lcm \in Monomial

KillsOne(b, i, marked, j) ==
  /\ j # i /\ j \notin marked
  /\ IF b[j].lcm = b[i].lcm THEN j > i ELSE Divides(b[i].lcm, b[j].lcm)

MarkTurn(b, i, marked, f, start) ==
  LET j == FindSevSupersetMatch(PairSevs(b), Sev(b[i].lcm), start)
  IN  IF j > Len(b) THEN {} ELSE {k \in {j} : KillsOne(b, i, marked, k)} \cup f[j + 1]

MarkRun(b, i, marked) ==
  CHOOSE f : f = [start \in 1 .. Len(b) + 1 |-> MarkTurn(b, i, marked, f, start)]

LEMMA MarkedByIs ==
  \A b, i, marked : MarkedBy(b, i, marked) = MarkRun(b, i, marked)[1]
BY DEF MarkedBy, MarkRun, MarkTurn, PairSevs, KillsOne

LEMMA MarkTurnMarks ==
  ASSUME NEW b, Lcms(b), NEW i \in DOMAIN b, NEW marked, NEW start \in 1 .. Len(b) + 1, NEW f,
         \A l \in start + 1 .. Len(b) + 1 : f[l] = {k \in KilledBy(b, i, marked) : k >= l}
  PROVE  MarkTurn(b, i, marked, f, start) = {k \in KilledBy(b, i, marked) : k >= start}
<1> DEFINE n == Len(b)
           sevs == PairSevs(b)
           j == FindSevSupersetMatch(sevs, Sev(b[i].lcm), start)
           T == KilledBy(b, i, marked)
           v == MarkTurn(b, i, marked, f, start)
<1>0. /\ n \in Nat /\ DOMAIN b = 1 .. n /\ i \in 1 .. n
      /\ \A k \in 1 .. n : b[k].lcm \in Monomial
  BY DEF Lcms
<1>1. DOMAIN sevs = 1 .. n /\ \A k \in 1 .. n : sevs[k] = Sev(b[k].lcm)
  BY <1>0 DEF PairSevs
<1> HIDE DEF sevs
<1>2. j \in start .. n + 1 /\ \A k \in start .. j - 1 : ~(Sev(b[i].lcm) \subseteq sevs[k])
  BY <1>0, <1>1, SupersetScan
<1>3. v = IF j > n THEN {} ELSE {k \in {j} : KillsOne(b, i, marked, k)} \cup f[j + 1]
  BY DEF MarkTurn, sevs
<1> HIDE DEF j
<1>4. T \subseteq 1 .. n
  BY <1>0 DEF KilledBy
<1>5. ASSUME NEW k \in start .. j - 1 PROVE k \notin T
  <2>1. k \in 1 .. n
    BY <1>0, <1>2
  <2>2. ~Divides(b[i].lcm, b[k].lcm)
    BY <1>0, <1>1, <1>2, <2>1, SevDivides
  <2>3. b[k].lcm # b[i].lcm
    BY <1>0, <2>1, <2>2, DividesOrder
  <2>. QED  BY <2>2, <2>3 DEF KilledBy, Kills
<1>6. j \in 1 .. n => (KillsOne(b, i, marked, j) <=> j \in T)
  BY <1>0 DEF KillsOne, KilledBy, Kills
<1> HIDE DEF T, v
<1>7. CASE j > n
  <2>1. v = {}
    BY <1>3, <1>7
  <2>2. \A k \in T : ~(k >= start)
    BY <1>0, <1>2, <1>4, <1>5, <1>7
  <2>. QED  BY <2>1, <2>2 DEF T, v
<1>8. CASE ~(j > n)
  <2>1. j \in 1 .. n /\ j + 1 \in start + 1 .. n + 1
    BY <1>0, <1>2, <1>8
  <2>2. f[j + 1] = {k \in T : k >= j + 1}
    BY <2>1 DEF T
  <2>3. v = {k \in {j} : k \in T} \cup {k \in T : k >= j + 1}
    BY <1>3, <1>6, <1>8, <2>1, <2>2
  <2>4. ASSUME NEW k \in T PROVE k >= start <=> k = j \/ k >= j + 1
    BY <1>0, <1>2, <1>4, <1>5
  <2>5. v = {k \in T : k >= start}
    BY <2>3, <2>4
  <2>. QED  BY <2>5 DEF T, v
<1>. QED  BY <1>7, <1>8

LEMMA MarkRunIs ==
  ASSUME NEW b, Lcms(b), NEW i \in DOMAIN b, NEW marked
  PROVE  MarkRun(b, i, marked)
         = [start \in 1 .. Len(b) + 1 |-> MarkTurn(b, i, marked, MarkRun(b, i, marked), start)]
<1> DEFINE n == Len(b)
           D == 1 .. n + 1
           T == KilledBy(b, i, marked)
           f == [l \in D |-> {k \in T : k >= l}]
<1>1. n \in Nat
  BY DEF Lcms
<1>2. \A j \in D : j \in 1 .. n + 1 /\ \A k \in j + 1 .. n + 1 : k \in D
  BY <1>1
<1>3. f = [j \in D |-> f[j]] /\ \A j \in D : f[j] = {k \in T : k >= j}
  OBVIOUS
<1> HIDE DEF f, D, T
<1>5. ASSUME NEW j \in D PROVE f[j] = MarkTurn(b, i, marked, f, j)
  <2>1. \A k \in j + 1 .. n + 1 : f[k] = {l \in T : l >= k}
    BY <1>2, <1>3
  <2>2. j \in 1 .. n + 1
    BY <1>2
  <2>. QED  BY <1>3, <2>1, <2>2, MarkTurnMarks DEF T
<1>6. [j \in D |-> f[j]] = [j \in D |-> MarkTurn(b, i, marked, f, j)]
  BY <1>5
<1>7. \E g : g = [j \in D |-> MarkTurn(b, i, marked, g, j)]
  BY <1>3, <1>6, Zenon
<1>. QED  BY <1>7 DEF MarkRun, D

LEMMA MarksKilled ==
  ASSUME NEW b, Lcms(b), NEW i \in DOMAIN b, NEW marked
  PROVE  MarkedBy(b, i, marked) = KilledBy(b, i, marked)
<1> DEFINE n == Len(b)
           T == KilledBy(b, i, marked)
           f == MarkRun(b, i, marked)
           S == {j \in 1 .. n + 1 : f[j] = {k \in T : k >= j}}
<1>0. n \in Nat /\ DOMAIN b = 1 .. n
  BY DEF Lcms
<1>1. \A j \in 1 .. n + 1 : f[j] = MarkTurn(b, i, marked, f, j)
  BY MarkRunIs
<1> HIDE DEF f
<1>2. ASSUME NEW j \in 1 .. n + 1, \A k \in j + 1 .. n + 1 : k \in S
      PROVE  j \in S
  <2>1. \A k \in j + 1 .. n + 1 : f[k] = {l \in T : l >= k}
    BY <1>2
  <2>2. f[j] = {k \in T : k >= j}
    BY <1>1, <2>1, MarkTurnMarks
  <2>. QED  BY <2>2
<1>3. 1 \in 1 .. n + 1
  BY <1>0
<1>4. 1 \in S
  <2> HIDE DEF S
  <2>. QED  BY <1>0, <1>2, <1>3, InductionDown
<1>5. \A k \in T : k >= 1
  BY <1>0 DEF KilledBy
<1> HIDE DEF T
<1>6. f[1] = T
  BY <1>4, <1>5
<1>. QED  BY <1>6, MarkedByIs DEF f, T

(* What the candidates up to i imply.                                      *)
KilledUpTo(b, i) == {k \in DOMAIN b : \E j \in 1 .. i : Kills(b, j, k)}

(* A candidate that is implied itself implies nothing new.                 *)
LEMMA ImpliedImpliesNothing ==
  ASSUME NEW b, Lcms(b), NEW h \in DOMAIN b, NEW i \in DOMAIN b, NEW k \in DOMAIN b,
         Kills(b, h, i), Kills(b, i, k)
  PROVE  Kills(b, h, k)
<1> DEFINE H == b[h].lcm
           I == b[i].lcm
           K == b[k].lcm
<1>0. h \in Nat /\ i \in Nat /\ k \in Nat
  BY DEF Lcms
<1>1. H \in Monomial /\ I \in Monomial /\ K \in Monomial
  BY DEF Lcms
<1>2. /\ h # i /\ IF I = H THEN i > h ELSE Divides(H, I)
      /\ i # k /\ IF K = I THEN k > i ELSE Divides(I, K)
  BY DEF Kills
<1>3. Kills(b, h, k) <=> h # k /\ IF K = H THEN k > h ELSE Divides(H, K)
  BY DEF Kills
<1> HIDE DEF H, I, K
<1>4. Divides(H, I) /\ Divides(I, K) /\ Divides(H, K)
  BY <1>1, <1>2, DividesOrder
<1>5. CASE K = H
  <2>1. I = H
    BY <1>1, <1>4, <1>5 DEF Divides, Monomial
  <2>2. i > h /\ k > i
    BY <1>2, <1>5, <2>1
  <2>. QED  BY <1>0, <1>3, <1>5, <2>2
<1>6. CASE K # H
  <2>1. h # k
    BY <1>6 DEF H, K
  <2>. QED  BY <1>3, <1>4, <1>6, <2>1
<1>. QED  BY <1>5, <1>6

SweepTurn(b, f, i) ==
  IF i = 0 THEN {}
  ELSE LET marked == f[i - 1]
       IN  IF i \in marked THEN marked ELSE marked \cup MarkedBy(b, i, marked)

SweepRun(b) == CHOOSE f : f = [i \in 0 .. Len(b) |-> SweepTurn(b, f, i)]

LEMMA ChainSweepIs == \A b : ChainSweep(b) = SweepRun(b)[Len(b)]
BY DEF ChainSweep, SweepRun, SweepTurn

LEMMA SweepTurnMarks ==
  ASSUME NEW b, Lcms(b), NEW i \in 0 .. Len(b), NEW f,
         i > 0 => f[i - 1] = KilledUpTo(b, i - 1)
  PROVE  SweepTurn(b, f, i) = KilledUpTo(b, i)
<1>0. Len(b) \in Nat /\ DOMAIN b = 1 .. Len(b)
  BY DEF Lcms
<1>1. CASE i = 0
  BY <1>1 DEF SweepTurn, KilledUpTo
<1>2. CASE i > 0
  <2> DEFINE marked == KilledUpTo(b, i - 1)
             D == DOMAIN b
  <2>1. /\ f[i - 1] = marked /\ i \in D /\ ~(i = 0)
        /\ \A j : j \in 1 .. i <=> j \in 1 .. i - 1 \/ j = i
        /\ \A j \in 1 .. i : j \in D
    BY <1>0, <1>2
  <2>2. MarkedBy(b, i, marked) = KilledBy(b, i, marked)
    BY <2>1, MarksKilled
  <2>3. SweepTurn(b, f, i) = IF i \in marked THEN marked ELSE marked \cup KilledBy(b, i, marked)
    <3> HIDE DEF marked
    <3>. QED  BY <2>1, <2>2 DEF SweepTurn
  <2>4. \A k : k \in marked <=> k \in D /\ \E j \in 1 .. i - 1 : Kills(b, j, k)
    BY DEF KilledUpTo
  <2>5. \A k : k \in KilledBy(b, i, marked) <=> k \in D /\ k \notin marked /\ Kills(b, i, k)
    BY DEF KilledBy
  <2>6. \A k : k \in KilledUpTo(b, i) <=> k \in D /\ \E j \in 1 .. i : Kills(b, j, k)
    BY DEF KilledUpTo
  <2>7. i \in marked => \A k \in D : Kills(b, i, k) => k \in marked
    <3> SUFFICES ASSUME i \in marked, NEW k \in D, Kills(b, i, k) PROVE k \in marked
      OBVIOUS
    <3>1. PICK h \in 1 .. i - 1 : Kills(b, h, i)
      BY <2>4
    <3>2. h \in D
      BY <2>1
    <3>3. Kills(b, h, k)
      BY <2>1, <3>1, <3>2, ImpliedImpliesNothing
    <3>. QED  BY <2>4, <3>3
  <2> HIDE DEF marked, D
  <2>8. \A k : k \in KilledUpTo(b, i) <=> k \in marked \/ (k \in D /\ Kills(b, i, k))
    BY <2>1, <2>4, <2>6
  <2>9. CASE i \in marked
    <3>1. SweepTurn(b, f, i) = marked
      BY <2>3, <2>9, Zenon
    <3>. QED  BY <2>7, <2>8, <2>9, <3>1
  <2>10. CASE i \notin marked
    <3>1. SweepTurn(b, f, i) = marked \cup KilledBy(b, i, marked)
      BY <2>3, <2>10, Zenon
    <3>. QED  BY <2>5, <2>8, <3>1
  <2>. QED  BY <2>9, <2>10
<1>. QED  BY <1>0, <1>1, <1>2

LEMMA SweepRunIs ==
  ASSUME NEW b, Lcms(b)
  PROVE  SweepRun(b) = [i \in 0 .. Len(b) |-> SweepTurn(b, SweepRun(b), i)]
<1> DEFINE D == 0 .. Len(b)
           f == [i \in D |-> KilledUpTo(b, i)]
<1>1. \A i \in D : i > 0 => i - 1 \in D
  BY DEF Lcms
<1>2. f = [i \in D |-> f[i]] /\ \A i \in D : f[i] = KilledUpTo(b, i)
  OBVIOUS
<1>3. \A i \in D : i \in 0 .. Len(b)
  OBVIOUS
<1> HIDE DEF f, D
<1>4. \A i \in D : f[i] = SweepTurn(b, f, i)
  BY <1>1, <1>2, <1>3, SweepTurnMarks
<1>5. [i \in D |-> f[i]] = [i \in D |-> SweepTurn(b, f, i)]
  BY <1>4
<1>6. \E g : g = [i \in D |-> SweepTurn(b, g, i)]
  BY <1>2, <1>5, Zenon
<1>. QED  BY <1>6 DEF SweepRun, D

(* The sweep marks exactly the implied candidates.                         *)
LEMMA SweepMarks ==
  ASSUME NEW b, Lcms(b)
  PROVE  SweepMarksImplied(b)
<1> DEFINE n == Len(b)
           f == SweepRun(b)
           S == {i \in 0 .. n : f[i] = KilledUpTo(b, i)}
<1>0. n \in Nat /\ DOMAIN b = 1 .. n
  BY DEF Lcms
<1>1. \A i \in 0 .. n : f[i] = SweepTurn(b, f, i)
  BY SweepRunIs
<1> HIDE DEF f
<1>2. 0 \in S
  <2>1. f[0] = KilledUpTo(b, 0)
    BY <1>0, <1>1, SweepTurnMarks
  <2>. QED  BY <1>0, <2>1
<1>3. ASSUME NEW k \in 1 .. n, k - 1 \in S PROVE k \in S
  <2>1. f[k] = KilledUpTo(b, k)
    BY <1>0, <1>1, <1>3, SweepTurnMarks
  <2>. QED  BY <2>1
<1>4. \A k \in 0 .. n : k \in S
  <2> HIDE DEF S
  <2>. QED  BY <1>0, <1>2, <1>3, InductionUpTo
<1>5. ChainSweep(b) = KilledUpTo(b, n)
  <2>1. n \in S
    BY <1>0, <1>4
  <2>. QED  BY <2>1, ChainSweepIs DEF f
<1>6. ASSUME NEW k \in 1 .. n
      PROVE  (\E j \in 1 .. n : Kills(b, j, k)) <=> ChainImplied(b, k)
  <2>1. ASSUME NEW j \in 1 .. n
        PROVE  Kills(b, j, k) <=> /\ Divides(b[j].lcm, b[k].lcm)
                                  /\ b[j].lcm # b[k].lcm \/ j < k
    <3>1. b[j].lcm \in Monomial /\ b[k].lcm \in Monomial
      BY <1>0 DEF Lcms
    <3>2. CASE b[j].lcm = b[k].lcm
      <4>1. Divides(b[j].lcm, b[k].lcm)
        BY <3>1, <3>2, DividesOrder
      <4>. QED  BY <1>0, <3>2, <4>1 DEF Kills
    <3>3. CASE b[j].lcm # b[k].lcm
      <4>1. j # k
        BY <3>3
      <4>. QED  BY <3>3, <4>1 DEF Kills
    <3>. QED  BY <3>2, <3>3
  <2>. QED  BY <1>0, <2>1 DEF ChainImplied
<1>. QED  BY <1>0, <1>5, <1>6 DEF SweepMarksImplied, KilledUpTo


-----------------------------------------------------------------------------
(* The elements that the scans run over, in every phase of either driver.  *)

(* A polynomial with monomials only, its leading one included.             *)
Termed(p) == LM(p) \in Monomial /\ Support(p) \subseteq Monomial

TailAt(k, work, done) == [at |-> k, work |-> work, done |-> done]

(* Tail reduction works on an element, and with monomials.                 *)
Tails ==
  /\ \A i \in DOMAIN polys : Termed(polys[i])
  /\ tail = TailAt(tail.at, tail.work, tail.done)
  /\ pc \in {"finalise", "tail"} => tail.at \in Nat \ {0}
  /\ pc = "tail" => tail.at <= Len(polys) /\ Termed(tail.work) /\ Termed(tail.done)

LEMMA TermedFacts ==
  /\ Termed(Zero)
  /\ \A p : Graded(p) => Termed(p)
  /\ \A p : Termed(p) => Termed(Monic(p))
  /\ \A p, c : \A m \in Monomial :
       Termed(p) => Termed(ParkTerm(p, c, m)) /\ Termed(PrependLeading(c, m, p))
<1>1. Termed(Zero) /\ \A p : Graded(p) => Termed(p)
  BY ZeroFacts DEF Termed, Graded
<1>2. \A p : Termed(p) => Termed(Monic(p))
  BY MonicIsGraded DEF Termed
<1>3. ASSUME NEW p, NEW c, NEW m \in Monomial, Termed(p)
      PROVE  Termed(ParkTerm(p, c, m)) /\ Termed(PrependLeading(c, m, p))
  BY <1>3 DEF Termed, ParkTerm, PrependLeading, WithTerm, Support, LM
<1>. QED  BY <1>1, <1>2, <1>3

LEMMA PolyIsTermed ==
  ASSUME NEW terms, DOMAIN terms \subseteq Monomial
  PROVE  Termed(Poly(terms))
<1> DEFINE top == Maxima(DOMAIN terms)
<1>1. Poly(terms).terms = terms /\ Poly(terms).lm = IF top = {} THEN One ELSE CHOOSE m \in top : TRUE
  BY DEF Poly
<1>2. top \subseteq Monomial
  BY DEF Maxima
<1> HIDE DEF top
<1>3. Poly(terms).lm \in Monomial
  BY <1>1, <1>2, DegOne
<1>. QED  BY <1>1, <1>3 DEF Termed, LM, Support

LEMMA DropIsTermed ==
  ASSUME NEW p, Termed(p)
  PROVE  Termed(DropLeading(p))
BY PolyIsTermed DEF DropLeading, Termed

LEMMA CancelIsTermed ==
  ASSUME NEW ps, DOMAIN ps \subseteq Nat, \A i \in DOMAIN ps : Termed(ps[i]), NEW flags,
         NEW p, Termed(p), Reducible(ps, flags, p)
  PROVE  Termed(CancelLeading(ps, flags, p))
<1> DEFINE i == FirstDivisor(ps, flags, LM(p))
           q == ps[i]
           m == Div(LM(p), LM(q))
           c == LC(p)
           shifted == {Mul(m, u) : u \in Support(q)}
           diff(t) == (Coef(p, t) + (P - c) * (IF t \in shifted THEN q.terms[Div(t, m)]
                                                                ELSE 0)) % P
           terms == [t \in {u \in Support(p) \cup shifted : diff(u) # 0} |-> diff(t)]
<1>1. i \in DOMAIN ps /\ Divides(LM(q), LM(p))
  BY FirstDivisorFacts DEF Reducible
<1>2. Termed(q) /\ LM(q) \in Monomial /\ LM(p) \in Monomial
  BY <1>1 DEF Termed
<1>3. m \in Monomial
  BY <1>1, <1>2, DivFacts
<1>4. CancelLeading(ps, flags, p) = Poly(terms)
  BY DEF CancelLeading, MinusMMultP
<1> HIDE DEF m, q, i
<1>5. shifted \subseteq Monomial
  BY <1>2, <1>3, DegMul DEF Termed
<1>6. DOMAIN terms \subseteq Monomial
  BY <1>5 DEF Termed
<1>. QED  BY <1>4, <1>6, PolyIsTermed

LEMMA TailFields ==
  \A k, w, d : TailAt(k, w, d).at = k /\ TailAt(k, w, d).work = w /\ TailAt(k, w, d).done = d
BY DEF TailAt

(* The three ways in which the state of the tail reduction is written.     *)
TailMoved(t, x) == [t EXCEPT !.at = x]
TailWorked(t, x) == [t EXCEPT !.work = x]
TailWritten(t, x, y) == [t EXCEPT !.work = x, !.done = y]

LEMMA TailWrites ==
  ASSUME NEW k, NEW w, NEW d, NEW x, NEW y
  PROVE  /\ TailMoved(TailAt(k, w, d), x) = TailAt(x, w, d)
         /\ TailWorked(TailAt(k, w, d), x) = TailAt(k, x, d)
         /\ TailWritten(TailAt(k, w, d), x, y) = TailAt(k, x, y)
<1> DEFINE t == TailAt(k, w, d)
           Fields == {"at", "work", "done"}
<1>1. t = [f \in Fields |-> IF f = "at" THEN k ELSE IF f = "work" THEN w ELSE d]
  BY DEF TailAt
<1>2. TailWritten(t, x, y)
      = [f \in Fields |-> IF f = "at" THEN k ELSE IF f = "work" THEN x ELSE y]
  <2> HIDE DEF t
  <2>. QED  BY <1>1 DEF TailWritten
<1>3. TailAt(k, x, y)
      = [f \in Fields |-> IF f = "at" THEN k ELSE IF f = "work" THEN x ELSE y]
  BY DEF TailAt
<1>4. TailMoved(t, x) = TailAt(x, w, d) /\ TailWorked(t, x) = TailAt(k, x, d)
  BY DEF TailMoved, TailWorked, TailAt
<1>. QED  BY <1>2, <1>3, <1>4

LEMMA QuietKeepsTails ==
  ASSUME Tails, UNCHANGED <<polys, tail>>, pc' \in {"finalise", "tail"} => UNCHANGED pc
  PROVE  Tails'
BY DEF Tails

LEMMA TailNextKeepsTails ==
  ASSUME BasisInv, Tails, TailNext
  PROVE  Tails'
<1> DEFINE k == tail.at
           old == polys[k]
<1>1. /\ pc = "finalise" /\ k <= Len(polys) /\ UNCHANGED polys
      /\ \/ tail' = TailMoved(tail, k + 1) /\ pc' = pc
         \/ tail' = TailWritten(tail, DropLeading(old), Zero) /\ pc' = "tail"
  BY DEF TailNext, basisVars, TailMoved, TailWritten
<1>2. /\ k \in Nat \ {0} /\ tail = TailAt(k, tail.work, tail.done)
      /\ \A i \in DOMAIN polys : Termed(polys[i])
  BY <1>1 DEF Tails
<1>3. \/ tail' = TailAt(k + 1, tail.work, tail.done) /\ pc' = "finalise"
      \/ tail' = TailAt(k, DropLeading(old), Zero) /\ pc' = "tail"
  <2> DEFINE w == tail.work
             d == tail.done
             drop == DropLeading(old)
             t == TailAt(k, w, d)
  <2>1. tail = t
    BY <1>2
  <2>2. TailMoved(t, k + 1) = TailAt(k + 1, w, d) /\ TailWritten(t, drop, Zero) = TailAt(k, drop, Zero)
    BY TailWrites
  <2> HIDE DEF t, k, w, d, drop
  <2>3. CASE tail' = TailMoved(tail, k + 1) /\ pc' = pc
    BY <1>1, <2>1, <2>2, <2>3 DEF w, d
  <2>4. CASE tail' = TailWritten(tail, drop, Zero) /\ pc' = "tail"
    BY <2>1, <2>2, <2>4 DEF drop
  <2>. QED  BY <1>1, <2>3, <2>4 DEF drop
<1>4. k \in DOMAIN polys
  BY <1>1, <1>2 DEF BasisInv, Shapes
<1>5. Termed(DropLeading(old)) /\ Termed(Zero)
  BY <1>2, <1>4, DropIsTermed, TermedFacts
<1>6. CASE tail' = TailAt(k + 1, tail.work, tail.done) /\ pc' = "finalise"
  <2>1. tail'.at = k + 1 /\ tail' = TailAt(tail'.at, tail'.work, tail'.done)
    BY <1>6, TailFields
  <2>. QED  BY <1>1, <1>2, <1>6, <2>1 DEF Tails
<1>7. CASE tail' = TailAt(k, DropLeading(old), Zero) /\ pc' = "tail"
  <2>1. /\ tail'.at = k /\ tail'.work = DropLeading(old) /\ tail'.done = Zero
        /\ tail' = TailAt(tail'.at, tail'.work, tail'.done)
    BY <1>7, TailFields
  <2>. QED  BY <1>1, <1>2, <1>5, <1>7, <2>1 DEF Tails
<1>. QED  BY <1>3, <1>6, <1>7

LEMMA TailStepKeepsTails ==
  ASSUME BasisInv, Tails, TailStep
  PROVE  Tails'
<1> DEFINE k == tail.at
           w == tail.work
           d == tail.done
           cancelled == CancelLeading(polys, Hidden, w)
           rest == DropLeading(w)
           parked == ParkTerm(d, LC(w), LM(w))
<1>1. /\ pc = "tail" /\ w # Zero /\ UNCHANGED <<pc, polys>>
      /\ tail' = IF Reducible(polys, Hidden, w)
                 THEN TailWorked(tail, cancelled)
                 ELSE TailWritten(tail, rest, parked)
  BY DEF TailStep, basisVars, TailWorked, TailWritten
<1>2. /\ Termed(w) /\ Termed(d) /\ \A i \in DOMAIN polys : Termed(polys[i])
      /\ DOMAIN polys \subseteq Nat /\ k \in Nat \ {0} /\ k <= Len(polys)
      /\ tail = TailAt(k, w, d)
  BY <1>1 DEF Tails, BasisInv, Shapes
<1>3. Reducible(polys, Hidden, w) => Termed(cancelled)
  BY <1>2, CancelIsTermed
<1>4. Termed(rest) /\ Termed(parked)
  BY <1>2, DropIsTermed, TermedFacts DEF Termed
<1> HIDE DEF k, w, d, cancelled, rest, parked
<1>5. \E x, y : Termed(x) /\ Termed(y) /\ tail' = TailAt(k, x, y)
  <2>1. CASE Reducible(polys, Hidden, w)
    <3>1. tail' = TailWorked(TailAt(k, w, d), cancelled)
      BY <1>1, <1>2, <2>1, Zenon
    <3>2. tail' = TailAt(k, cancelled, d)
      BY <3>1, TailWrites
    <3>. QED  BY <1>2, <1>3, <2>1, <3>2
  <2>2. CASE ~Reducible(polys, Hidden, w)
    <3>1. tail' = TailWritten(TailAt(k, w, d), rest, parked)
      BY <1>1, <1>2, <2>2, Zenon
    <3>2. tail' = TailAt(k, rest, parked)
      BY <3>1, TailWrites
    <3>. QED  BY <1>4, <3>2
  <2>. QED  BY <2>1, <2>2
<1>6. PICK x, y : Termed(x) /\ Termed(y) /\ tail' = TailAt(k, x, y)
  BY <1>5
<1>7. /\ tail'.at = k /\ tail'.work = x /\ tail'.done = y
      /\ tail' = TailAt(tail'.at, tail'.work, tail'.done)
  BY <1>6, TailFields
<1>. QED  BY <1>1, <1>2, <1>6, <1>7 DEF Tails

LEMMA TailEndKeepsTails ==
  ASSUME BasisInv, Tails, TailEnd
  PROVE  Tails'
<1> DEFINE k == tail.at
           old == polys[k]
           new == Monic(PrependLeading(LC(old), LM(old), tail.done))
<1>1. /\ pc = "tail" /\ pc' = "finalise" /\ polys' = [polys EXCEPT ![k] = new]
      /\ tail' = TailAt(k + 1, Zero, Zero)
  BY DEF TailEnd, Replaced, TailAt
<1>2. /\ Termed(tail.done) /\ \A i \in DOMAIN polys : Termed(polys[i])
      /\ k \in Nat \ {0} /\ k \in DOMAIN polys
  BY <1>1 DEF Tails, BasisInv, Shapes
<1>3. Termed(new)
  BY <1>2, TermedFacts DEF Termed
<1> HIDE DEF new
<1>4. \A i \in DOMAIN polys' : Termed(polys'[i])
  BY <1>1, <1>2, <1>3
<1>5. tail'.at = k + 1 /\ tail' = TailAt(tail'.at, tail'.work, tail'.done)
  BY <1>1, TailFields
<1>. QED  BY <1>1, <1>2, <1>4, <1>5 DEF Tails

LEMMA NextKeepsTails ==
  ASSUME BasisInv, WorkInv, Tails, [Next]_vars
  PROVE  Tails'
<1> USE DEF callVars, basisVars
<1>1. CASE SeedNext \/ SeedDone \/ PopPair \/ Reduce \/ GeobucketDone \/ HeapEmit \/ HeapDone
           \/ Finish \/ UNCHANGED vars
  <2>1. UNCHANGED <<polys, tail>> /\ (pc' \in {"finalise", "tail"} => UNCHANGED pc)
    BY <1>1 DEF SeedNext, SeedDone, PopPair, Reduce, GeobucketDone, HeapEmit, HeapDone,
                Remainder, Finish, vars
  <2>. QED  BY <2>1, QuietKeepsTails
<1>2. CASE PopNone
  <2>1. /\ UNCHANGED polys /\ pc' = "finalise" /\ tail' = TailAt(1, Zero, Zero)
    BY <1>2 DEF PopNone, TailAt
  <2>2. tail'.at = 1 /\ tail' = TailAt(tail'.at, tail'.work, tail'.done)
    BY <2>1, TailFields
  <2>. QED  BY <2>1, <2>2 DEF Tails
<1>3. CASE Insert
  <2>1. /\ DOMAIN polys' = 1 .. Len(polys) + 1 /\ DOMAIN polys = 1 .. Len(polys)
        /\ \A k \in 1 .. Len(polys) : polys'[k] = polys[k]
        /\ polys'[Len(polys) + 1] = lobj.poly
        /\ Len(polys) \in Nat
    BY <1>3, InsertFacts DEF BasisInv
  <2>2. Termed(lobj.poly) /\ \A i \in DOMAIN polys : Termed(polys[i])
    BY TermedFacts DEF WorkInv, Degrees, Sweet, Tails
  <2>3. ASSUME NEW i \in DOMAIN polys' PROVE Termed(polys'[i])
    <3>1. i \in 1 .. Len(polys) \/ i = Len(polys) + 1
      BY <2>1
    <3>. QED  BY <2>1, <2>2, <3>1
  <2>4. UNCHANGED tail /\ pc' \notin {"finalise", "tail"}
    BY <1>3 DEF Insert
  <2>. QED  BY <2>3, <2>4 DEF Tails
<1>4. CASE TailNext
  BY <1>4, TailNextKeepsTails
<1>5. CASE TailStep
  BY <1>5, TailStepKeepsTails
<1>6. CASE TailEnd
  BY <1>6, TailEndKeepsTails
<1>. QED  BY <1>1, <1>2, <1>3, <1>4, <1>5, <1>6 DEF Next, Returned

-----------------------------------------------------------------------------
(* Both drivers.                                                           *)

SerialInv == BasisInv /\ WorkInv /\ Tails

LEMMA InitSerialInv == Init => SerialInv
<1> SUFFICES ASSUME Init PROVE SerialInv
  OBVIOUS
<1>1. DOMAIN polys = {} /\ pc = "seed" /\ tail = TailAt(0, Zero, Zero)
  BY DEF Init, TailAt
<1>2. tail = TailAt(tail.at, tail.work, tail.done)
  BY <1>1, TailFields
<1>. QED  BY <1>1, <1>2, InitBasisInv, InitWorkInv DEF SerialInv, Tails

(* The matrix driver does not touch the state of the serial one.           *)
LEMMA MatrixKeepsSerialInv ==
  ASSUME SerialInv, UNCHANGED serialOnly
  PROVE  SerialInv'
<1>1. UNCHANGED <<heap_reducer, input, polys, redundant, l_set, next_arrival, pc,
                  seeding, lobj, survivor, tail>>
  BY DEF serialOnly
<1>2. BasisInv'
  BY <1>1 DEF SerialInv, BasisInv, Shapes, Irreducible, ActiveAntichain
<1>3. Leaders' /\ Queued'
  BY <1>1 DEF SerialInv, WorkInv, Leaders, Queued, ActiveIndices
<1>4. Degrees'
  BY <1>1 DEF SerialInv, WorkInv, Degrees, Seeking
<1>5. Tails'
  BY <1>1 DEF SerialInv, Tails
<1>. QED  BY <1>2, <1>3, <1>4, <1>5 DEF SerialInv, WorkInv

LEMMA StepKeepsSerialInv ==
  ASSUME SerialInv, [DriversNext]_driversVars
  PROVE  SerialInv'
<1>1. CASE [Next]_vars
  <2>1. BasisInv'
    BY <1>1, NextKeepsBasisInv DEF SerialInv
  <2>2. WorkInv'
    BY <1>1, NextKeepsLeaders, NextKeepsDegrees, NextKeepsQueued DEF SerialInv, WorkInv
  <2>3. Tails'
    BY <1>1, NextKeepsTails DEF SerialInv
  <2>. QED  BY <2>1, <2>2, <2>3 DEF SerialInv
<1>2. CASE UNCHANGED serialOnly
  BY <1>2, MatrixKeepsSerialInv
<1>3. [Next]_vars \/ UNCHANGED serialOnly
  BY DEF DriversNext, BbaTurn, MatrixTurn, driversVars
<1>. QED  BY <1>1, <1>2, <1>3

LEMMA DriversSerialInv == DriversSpec => []SerialInv
<1>1. DriversInit => SerialInv
  BY InitSerialInv DEF DriversInit
<1>2. SerialInv /\ [DriversNext]_driversVars => SerialInv'
  BY StepKeepsSerialInv
<1>. QED  BY <1>1, <1>2, PTL DEF DriversSpec

-----------------------------------------------------------------------------

LEMMA CandidateLcms ==
  ASSUME NEW ps, NEW h \in Nat, h > 0, DOMAIN ps = 1 .. h,
         \A i \in 1 .. h : LM(ps[i]) \in Monomial, NEW sugar
  PROVE  Lcms(Candidates(ps, h, sugar))
<1> DEFINE partners == Partners(ps, redundant, h)
           n == Len(partners)
           mk(k) == MkPair(ps, partners[k], h, sugar, next_arrival + k - 1)
           b == Candidates(ps, h, sugar)
<1>1. partners \in Seq(1 .. h - 1)
  BY PartnersAreOlder
<1>2. b = [k \in DOMAIN partners |-> mk(k)]
  BY DEF Candidates
<1> HIDE DEF partners, b
<1>3. n \in Nat /\ DOMAIN partners = 1 .. n /\ \A k \in 1 .. n : partners[k] \in 1 .. h - 1
  BY <1>1, ElementOfSeq
<1>4. ASSUME NEW k \in 1 .. n PROVE mk(k).lcm \in Monomial
  <2> DEFINE e == partners[k]
  <2>1. e \in 1 .. h /\ h \in 1 .. h
    BY <1>3
  <2>2. LM(ps[e]) \in Monomial /\ LM(ps[h]) \in Monomial
    BY <2>1
  <2>3. mk(k).lcm = Lcm(LM(ps[e]), LM(ps[h]))
    BY DEF MkPair
  <2>. QED  BY <2>2, <2>3, LcmFacts
<1> HIDE DEF mk
<1>5. DOMAIN b = 1 .. n /\ \A k \in 1 .. n : b[k].lcm \in Monomial
  BY <1>2, <1>3, <1>4
<1>6. Len(b) = n
  <2>1. b \in [1 .. n -> {mk(k) : k \in 1 .. n}]
    BY <1>2, <1>3
  <2>2. b \in Seq({mk(k) : k \in 1 .. n})
    BY <1>3, <2>1, SeqDef
  <2>. QED  BY <1>3, <1>5, <2>2, LenProperties
<1>. QED  BY <1>3, <1>5, <1>6 DEF Lcms, b

LEMMA ScansAgree ==
  ASSUME SerialInv
  PROVE  ScansExact
<1>1. Elements(polys)
  BY DEF SerialInv, BasisInv, Shapes, Tails, Termed, Elements
<1>2. ASSUME pc = "reduce" PROVE FindsFirst(redundant, lobj.poly)
  <2>1. LM(lobj.poly) \in Monomial
    BY DEF SerialInv, WorkInv, Degrees, Sweet, Graded
  <2>. QED  BY <1>1, <2>1, FindsTheFirst DEF FindsFirst
<1>3. ASSUME pc = "tail" PROVE FindsFirst(Hidden, tail.work)
  <2>1. LM(tail.work) \in Monomial
    BY <1>3 DEF SerialInv, Tails, Termed
  <2>. QED  BY <1>1, <2>1, FindsTheFirst DEF FindsFirst
<1>4. SweepMarksImplied(Candidates(Append(polys, lobj.poly), Len(polys) + 1, lobj.sugar))
  <2> DEFINE n == Len(polys)
             ps == Append(polys, lobj.poly)
  <2>1. PICK S : polys \in Seq(S)
    BY DEF SerialInv, BasisInv, Shapes
  <2>2. /\ n \in Nat /\ DOMAIN polys = 1 .. n
        /\ Len(ps) = n + 1 /\ DOMAIN ps = 1 .. n + 1
        /\ \A i \in 1 .. n : ps[i] = polys[i]
        /\ ps[n + 1] = lobj.poly
    BY <2>1, AppendFacts
  <2>3. LM(lobj.poly) \in Monomial /\ \A i \in 1 .. n : LM(polys[i]) \in Monomial
    BY <1>1, <2>2 DEF SerialInv, WorkInv, Degrees, Sweet, Graded, Elements
  <2> HIDE DEF ps
  <2>4. ASSUME NEW i \in 1 .. n + 1 PROVE LM(ps[i]) \in Monomial
    <3>1. i \in 1 .. n \/ i = n + 1
      BY <2>2
    <3>. QED  BY <2>2, <2>3, <3>1
  <2>5. Lcms(Candidates(ps, n + 1, lobj.sugar))
    BY <2>2, <2>4, CandidateLcms
  <2>. QED  BY <2>5, SweepMarks DEF ps
<1>. QED  BY <1>2, <1>3, <1>4 DEF ScansExact

(* The filtered and chunked scans find what the scan of every element and  *)
(* the test of every candidate against every other find, at every scan of  *)
(* a call: nothing is lost in a tail or a lane or to a bit that variables  *)
(* share, and the order stays (bba.rs:401-434, simd.rs:54-142,             *)
(* gm.rs:148-203).                                                         *)
THEOREM ScansAreExact == DriversSpec => []ScansExact
<1>1. SerialInv => ScansExact
  BY ScansAgree
<1>. QED  BY <1>1, DriversSerialInv, PTL

-----------------------------------------------------------------------------
(* Sparse rows over the columns 1 .. n.                                    *)

IsRow(n, r) == DOMAIN r \subseteq 1 .. n /\ r \in [DOMAIN r -> 1 .. P - 1]

RowSet(n) == UNION {[D -> 1 .. P - 1] : D \in SUBSET (1 .. n)}

LEMMA RowSetIs ==
  ASSUME NEW n
  PROVE  \A r : r \in RowSet(n) <=> IsRow(n, r)
BY DEF RowSet, IsRow

LEMMA MinFacts ==
  ASSUME NEW T \in SUBSET Nat, T # {}
  PROVE  Min(T) \in T /\ \A x \in T : Min(T) <= x
<1>1. \E x \in T : \A y \in T : x <= y
  BY LeastNatural
<1>. QED  BY <1>1 DEF Min

LEMMA EmptyRowFacts ==
  /\ DOMAIN EmptyRow = {}
  /\ \A n : IsRow(n, EmptyRow)
  /\ \A n, r : IsRow(n, r) => (r = EmptyRow <=> DOMAIN r = {})
<1>1. DOMAIN EmptyRow = {}
  BY DEF EmptyRow
<1>2. \A n : IsRow(n, EmptyRow)
  BY <1>1 DEF IsRow, EmptyRow
<1>3. ASSUME NEW n, NEW r, IsRow(n, r), DOMAIN r = {}
      PROVE  r = EmptyRow
  <2>1. r = [x \in {} |-> r[x]]
    BY <1>3 DEF IsRow
  <2>2. EmptyRow = [x \in {} |-> EmptyRow[x]]
    BY <1>1 DEF EmptyRow
  <2>. QED  BY <2>1, <2>2
<1>. QED  BY <1>1, <1>2, <1>3

LEMMA RowLead ==
  ASSUME NEW n \in Nat, NEW r, IsRow(n, r), r # EmptyRow
  PROVE  /\ LeadingCol(r) \in DOMAIN r /\ LeadingCol(r) \in 1 .. n
         /\ \A c \in DOMAIN r : c \in 1 .. n /\ LeadingCol(r) <= c
         /\ r[LeadingCol(r)] \in 1 .. P - 1
<1>1. DOMAIN r # {} /\ DOMAIN r \in SUBSET Nat
  BY EmptyRowFacts DEF IsRow
<1>2. LeadingCol(r) \in DOMAIN r /\ \A c \in DOMAIN r : LeadingCol(r) <= c
  BY <1>1, MinFacts DEF LeadingCol
<1>. QED  BY <1>2 DEF IsRow

LEMMA LeadIs ==
  ASSUME NEW n \in Nat, NEW r, IsRow(n, r), NEW c \in DOMAIN r, \A d \in DOMAIN r : c <= d
  PROVE  r # EmptyRow /\ LeadingCol(r) = c
<1>1. r # EmptyRow
  BY EmptyRowFacts
<1>2. LeadingCol(r) \in DOMAIN r /\ LeadingCol(r) <= c /\ LeadingCol(r) \in 1 .. n /\ c \in 1 .. n
  BY <1>1, RowLead
<1>3. c <= LeadingCol(r)
  BY <1>2
<1>. QED  BY <1>1, <1>2, <1>3

LEMMA EntryFacts ==
  ASSUME NEW n, NEW r, IsRow(n, r), NEW c
  PROVE  Entry(r, c) \in 0 .. P - 1 /\ (Entry(r, c) # 0 <=> c \in DOMAIN r)
<1>1. P \in Nat /\ P > 1
  BY PAssumption
<1>. QED  BY <1>1 DEF Entry, IsRow

LEMMA InverseFacts ==
  ASSUME NEW c \in 1 .. P - 1
  PROVE  Invert(c) \in 1 .. P - 1 /\ (c * Invert(c)) % P = 1
BY PAssumption DEF Invert

LEMMA ScaleFacts ==
  ASSUME NEW n, NEW r, IsRow(n, r), NEW c \in 1 .. P - 1
  PROVE  /\ IsRow(n, Scale(r, c)) /\ DOMAIN Scale(r, c) = DOMAIN r
         /\ \A k \in DOMAIN r : Scale(r, c)[k] = (c * r[k]) % P
<1>0. P \in Nat /\ P > 1
  BY PAssumption
<1>1. Scale(r, c) = [k \in DOMAIN r |-> (c * r[k]) % P]
  BY <1>0 DEF Scale
<1>2. ASSUME NEW k \in DOMAIN r
      PROVE  (c * r[k]) % P \in 1 .. P - 1
  <2>1. r[k] \in 1 .. P - 1
    BY DEF IsRow
  <2>2. (c * r[k]) % P # 0
    BY <2>1, NoZeroProduct
  <2> DEFINE d == c * r[k]
  <2>3. d \in Int
    BY <1>0, <2>1
  <2> HIDE DEF d
  <2>4. (d % P) \in 0 .. P - 1
    BY <2>3, ModFacts
  <2>. QED  BY <1>0, <2>2, <2>4 DEF d
<1>. QED  BY <1>1, <1>2 DEF IsRow

LEMMA AxpyFacts ==
  ASSUME NEW n, NEW r, NEW s, IsRow(n, r), IsRow(n, s), NEW c \in 0 .. P - 1
  PROVE  /\ IsRow(n, Axpy(r, c, s))
         /\ DOMAIN Axpy(r, c, s) \subseteq DOMAIN r \cup DOMAIN s
         /\ \A k \in DOMAIN r \ DOMAIN s :
              k \in DOMAIN Axpy(r, c, s) /\ Axpy(r, c, s)[k] = r[k]
         /\ \A k \in DOMAIN s :
              s[k] = 1 /\ c = Entry(r, k) => k \notin DOMAIN Axpy(r, c, s)
<1>0. P \in Nat /\ P > 1
  BY PAssumption
<1> DEFINE value(k) == Entry(r, k) + (P - c) * Entry(s, k)
           diff(k) == value(k) % P
           D == {l \in DOMAIN r \cup DOMAIN s : diff(l) # 0}
<1>1. Axpy(r, c, s) = [k \in D |-> diff(k)]
  BY DEF Axpy
<1>2. ASSUME NEW k
      PROVE  value(k) \in Int /\ diff(k) \in 0 .. P - 1
  <2>1. Entry(r, k) \in 0 .. P - 1 /\ Entry(s, k) \in 0 .. P - 1
    BY EntryFacts
  <2>2. value(k) \in Int
    BY <1>0, <2>1
  <2> HIDE DEF value
  <2>. QED  BY <2>2, ModFacts
<1>3. ASSUME NEW k \in DOMAIN r \ DOMAIN s
      PROVE  k \in D /\ diff(k) = r[k]
  <2>1. Entry(r, k) = r[k] /\ Entry(s, k) = 0 /\ r[k] \in 1 .. P - 1
    BY DEF Entry, IsRow
  <2>2. value(k) = r[k]
    BY <1>0, <2>1
  <2>3. r[k] \in 0 .. P - 1 /\ r[k] # 0
    BY <1>0, <2>1
  <2>4. (r[k] % P) = r[k]
    BY <2>3, ModSmall
  <2> HIDE DEF value
  <2>. QED  BY <2>2, <2>3, <2>4
<1>4. ASSUME NEW k \in DOMAIN s, s[k] = 1, c = Entry(r, k)
      PROVE  k \notin D
  <2>1. Entry(s, k) = 1
    BY <1>4 DEF Entry
  <2>2. value(k) = P
    BY <1>0, <1>4, <2>1
  <2>3. (P % P) = 0
    BY <1>0
  <2> HIDE DEF value
  <2>. QED  BY <2>2, <2>3
<1> HIDE DEF diff
<1>5. IsRow(n, [k \in D |-> diff(k)])
  <2>1. D \subseteq 1 .. n
    BY DEF IsRow
  <2>2. \A k \in D : diff(k) \in 1 .. P - 1
    BY <1>0, <1>2
  <2> HIDE DEF D
  <2>. QED  BY <2>1, <2>2 DEF IsRow
<1>6. D \subseteq DOMAIN r \cup DOMAIN s
  OBVIOUS
<1> HIDE DEF D
<1>. QED  BY <1>1, <1>3, <1>4, <1>5, <1>6

LEMMA AxpyKeeps ==
  ASSUME NEW n, NEW r, NEW s, IsRow(n, r), IsRow(n, s), NEW c \in 0 .. P - 1,
         NEW k, k \in DOMAIN r, k \notin DOMAIN s
  PROVE  k \in DOMAIN Axpy(r, c, s) /\ Axpy(r, c, s)[k] = r[k]
<1>1. k \in DOMAIN r \ DOMAIN s
  OBVIOUS
<1>. QED  BY <1>1, AxpyFacts

-----------------------------------------------------------------------------
(* Elimination below the pivots.                                           *)

(* Row i is a pivot row: its leading entry is one and everything in the    *)
(* rows below lies to the right of it.                                     *)
PivotRow(rs, i) ==
  /\ rs[i] # EmptyRow /\ rs[i][LeadingCol(rs[i])] = 1
  /\ \A j \in DOMAIN rs : i < j => \A c \in DOMAIN rs[j] : LeadingCol(rs[i]) < c

LEMMA RowsFacts ==
  ASSUME NEW n, NEW rs \in Seq(RowSet(n))
  PROVE  /\ DOMAIN rs = 1 .. Len(rs) /\ Len(rs) \in Nat
         /\ \A i \in 1 .. Len(rs) : IsRow(n, rs[i])
<1>1. \A i \in 1 .. Len(rs) : rs[i] \in RowSet(n)
  BY ElementOfSeq
<1>. QED  BY <1>1, RowSetIs

LEMMA RowsAre ==
  ASSUME NEW n, NEW l \in Nat, NEW f, DOMAIN f = 1 .. l, f = [i \in DOMAIN f |-> f[i]],
         \A i \in 1 .. l : IsRow(n, f[i])
  PROVE  f \in Seq(RowSet(n)) /\ Len(f) = l
<1>1. f \in [1 .. l -> RowSet(n)]
  BY RowSetIs
<1>. QED  BY <1>1

LEMMA PivotSourceFacts ==
  ASSUME NEW n \in Nat, NEW rs \in Seq(RowSet(n)), NEW k \in Nat \ {0},
         NonzeroFrom(rs, k) # {}
  PROVE  LET src == PivotSource(rs, k)
         IN  /\ src \in k .. Len(rs) /\ k \in 1 .. Len(rs) /\ rs[src] # EmptyRow
             /\ \A i \in k .. Len(rs) : \A c \in DOMAIN rs[i] : LeadingCol(rs[src]) <= c
<1>0. /\ Len(rs) \in Nat
      /\ \A i \in k .. Len(rs) : i \in 1 .. Len(rs) /\ IsRow(n, rs[i])
  BY RowsFacts
<1> DEFINE T == NonzeroFrom(rs, k)
           cols == {LeadingCol(rs[i]) : i \in T}
           col == Min(cols)
           first == {i \in T : LeadingCol(rs[i]) = col}
<1>1. T \subseteq k .. Len(rs) /\ \A i \in k .. Len(rs) : i \in T <=> rs[i] # EmptyRow
  BY DEF NonzeroFrom
<1>2. \A i \in T : LeadingCol(rs[i]) \in 1 .. n
  BY <1>0, <1>1, RowLead
<1>3. PivotSource(rs, k) = Min(first)
  BY DEF PivotSource
<1> HIDE DEF T
<1>4. cols \in SUBSET Nat /\ cols # {}
  BY <1>2 DEF T
<1>5. col \in cols /\ \A c \in cols : col <= c
  BY <1>4, MinFacts
<1> HIDE DEF col
<1>6. first \in SUBSET Nat /\ first # {}
  BY <1>0, <1>1, <1>5
<1>7. Min(first) \in first
  BY <1>6, MinFacts
<1> DEFINE src == Min(first)
<1>8. src \in T /\ LeadingCol(rs[src]) = col
  BY <1>7
<1> HIDE DEF src, first
<1>9. src \in k .. Len(rs) /\ rs[src] # EmptyRow /\ k \in 1 .. Len(rs)
  BY <1>0, <1>1, <1>8
<1>10. ASSUME NEW i \in k .. Len(rs), NEW c \in DOMAIN rs[i]
       PROVE  LeadingCol(rs[src]) <= c
  <2>1. IsRow(n, rs[i]) /\ rs[i] # EmptyRow
    BY <1>0, EmptyRowFacts
  <2>2. LeadingCol(rs[i]) <= c /\ i \in T /\ LeadingCol(rs[i]) \in Nat /\ c \in Nat
    BY <1>1, <2>1, RowLead
  <2>3. col <= LeadingCol(rs[i]) /\ col \in Nat
    BY <1>4, <1>5, <2>2
  <2>. QED  BY <1>8, <2>2, <2>3
<1>. QED  BY <1>3, <1>9, <1>10 DEF src

LEMMA EliminateBelowKeeps ==
  ASSUME NEW n \in Nat, NEW rs \in Seq(RowSet(n)), NEW k \in Nat \ {0},
         NonzeroFrom(rs, k) # {}, \A i \in 1 .. k - 1 : PivotRow(rs, i)
  PROVE  LET new == EliminateBelow(rs, k)
         IN  /\ new \in Seq(RowSet(n)) /\ Len(new) = Len(rs)
             /\ \A i \in 1 .. k : PivotRow(new, i)
<1> DEFINE src == PivotSource(rs, k)
           up == Swapped(rs, k, src)
           col == LeadingCol(up[k])
           pivot == Scale(up[k], Invert(Entry(up[k], col)))
           new == EliminateBelow(rs, k)
<1>0. /\ DOMAIN rs = 1 .. Len(rs) /\ Len(rs) \in Nat
      /\ \A i \in 1 .. Len(rs) : IsRow(n, rs[i])
  BY RowsFacts
<1>1. /\ src \in k .. Len(rs) /\ k \in 1 .. Len(rs) /\ rs[src] # EmptyRow
      /\ \A i \in k .. Len(rs) : \A c \in DOMAIN rs[i] : LeadingCol(rs[src]) <= c
  BY PivotSourceFacts
<1>2. new = [i \in DOMAIN rs |-> IF i < k THEN up[i]
                                 ELSE IF i = k THEN pivot
                                 ELSE Axpy(up[i], Entry(up[i], col), pivot)]
  BY DEF EliminateBelow
<1> HIDE DEF src
<1>3. /\ up[k] = rs[src]
      /\ \A i \in 1 .. k - 1 : up[i] = rs[i]
      /\ \A i \in k .. Len(rs) : \E j \in k .. Len(rs) : up[i] = rs[j]
  BY <1>0, <1>1 DEF Swapped
<1> HIDE DEF up
<1>4. IsRow(n, up[k]) /\ up[k] # EmptyRow /\ col \in DOMAIN up[k] /\ col \in 1 .. n
  BY <1>0, <1>1, <1>3, RowLead
<1>5. Entry(up[k], col) \in 1 .. P - 1 /\ Entry(up[k], col) = up[k][col]
  BY <1>4 DEF Entry, IsRow
<1>6. \A i \in k .. Len(rs) : IsRow(n, up[i]) /\ \A c \in DOMAIN up[i] : col <= c
  <2>1. ASSUME NEW i \in k .. Len(rs)
        PROVE  IsRow(n, up[i]) /\ \A c \in DOMAIN up[i] : col <= c
    <3>1. PICK j \in k .. Len(rs) : up[i] = rs[j]
      BY <1>3
    <3>2. j \in 1 .. Len(rs)
      BY <1>1
    <3>. QED  BY <1>0, <1>1, <1>3, <3>1, <3>2
  <2>. QED  BY <2>1
<1> HIDE DEF col
<1>7. IsRow(n, pivot) /\ DOMAIN pivot = DOMAIN up[k] /\ pivot[col] = 1
  <2> DEFINE e == Entry(up[k], col)
             d == Invert(e)
  <2>0. e \in 1 .. P - 1 /\ e = up[k][col]
    BY <1>5
  <2>1. d \in 1 .. P - 1 /\ (e * d) % P = 1
    BY <2>0, InverseFacts
  <2>2. pivot = Scale(up[k], d)
    OBVIOUS
  <2> HIDE DEF d, e, pivot
  <2>3. /\ IsRow(n, pivot) /\ DOMAIN pivot = DOMAIN up[k]
        /\ pivot[col] = (d * up[k][col]) % P
    BY <1>4, <2>1, <2>2, ScaleFacts
  <2>4. d * e = e * d
    BY <2>0, <2>1, PAssumption
  <2>. QED  BY <2>0, <2>1, <2>3, <2>4
<1> HIDE DEF pivot
<1>8. ASSUME NEW i \in k + 1 .. Len(rs)
      PROVE  LET r == Axpy(up[i], Entry(up[i], col), pivot)
             IN  /\ IsRow(n, r) /\ DOMAIN r \subseteq DOMAIN up[i] \cup DOMAIN up[k]
                 /\ \A c \in DOMAIN r : col < c
  <2> DEFINE e == Entry(up[i], col)
             r == Axpy(up[i], e, pivot)
  <2>1. i \in k .. Len(rs) /\ k \in k .. Len(rs)
    BY <1>0, <1>1
  <2>2. IsRow(n, up[i]) /\ e \in 0 .. P - 1
    BY <1>6, <2>1, EntryFacts
  <2>3. /\ IsRow(n, r) /\ DOMAIN r \subseteq DOMAIN up[i] \cup DOMAIN pivot
        /\ col \notin DOMAIN r
    <3>1. col \in DOMAIN pivot /\ e = Entry(up[i], col)
      BY <1>4, <1>7
    <3> HIDE DEF e, r
    <3>2. /\ IsRow(n, Axpy(up[i], e, pivot))
          /\ DOMAIN Axpy(up[i], e, pivot) \subseteq DOMAIN up[i] \cup DOMAIN pivot
      BY <1>7, <2>2, AxpyFacts
    <3>3. pivot[col] = 1 /\ e = Entry(up[i], col) => col \notin DOMAIN Axpy(up[i], e, pivot)
      BY <1>7, <2>2, <3>1, AxpyFacts, ZenonT(60)
    <3>. QED  BY <1>7, <3>1, <3>2, <3>3 DEF r
  <2> HIDE DEF r
  <2>4. ASSUME NEW c \in DOMAIN r PROVE col < c
    <3>1. col <= c /\ c # col
      BY <1>6, <1>7, <2>1, <2>3
    <3>2. c \in 1 .. n
      BY <2>3 DEF IsRow
    <3>. QED  BY <1>4, <3>1, <3>2
  <2>. QED  BY <1>7, <2>3, <2>4 DEF r
<1>9. /\ DOMAIN new = 1 .. Len(rs) /\ new = [i \in DOMAIN new |-> new[i]]
      /\ \A i \in 1 .. k - 1 : new[i] = rs[i]
      /\ new[k] = pivot
      /\ \A i \in k + 1 .. Len(rs) : new[i] = Axpy(up[i], Entry(up[i], col), pivot)
  BY <1>0, <1>1, <1>2, <1>3
<1> HIDE DEF new
<1>10. \A i \in 1 .. Len(rs) : IsRow(n, new[i])
  <2>1. ASSUME NEW i \in 1 .. Len(rs) PROVE IsRow(n, new[i])
    <3>1. i \in 1 .. k - 1 \/ i = k \/ i \in k + 1 .. Len(rs)
      BY <1>1
    <3>. QED  BY <1>0, <1>7, <1>8, <1>9, <3>1
  <2>. QED  BY <2>1
<1>11. new \in Seq(RowSet(n)) /\ Len(new) = Len(rs)
  BY <1>0, <1>9, <1>10, RowsAre
<1>12. LeadingCol(new[k]) = col /\ new[k] # EmptyRow
  <2>1. \A d \in DOMAIN pivot : col <= d
    BY <1>0, <1>1, <1>6, <1>7
  <2>. QED  BY <1>4, <1>7, <1>9, <2>1, LeadIs
<1>13. PivotRow(new, k)
  <2>1. \A j \in DOMAIN new : k < j => \A c \in DOMAIN new[j] : col < c
    <3>1. ASSUME NEW j \in DOMAIN new, k < j PROVE j \in k + 1 .. Len(rs)
      BY <1>0, <1>1, <1>9, <3>1
    <3>. QED  BY <1>8, <1>9, <3>1
  <2>2. new[k][col] = 1
    BY <1>7, <1>9
  <2>. QED  BY <1>12, <2>1, <2>2 DEF PivotRow
<1>14. ASSUME NEW i \in 1 .. k - 1 PROVE PivotRow(new, i)
  <2>0. i \in 1 .. Len(rs) /\ i < k /\ new[i] = rs[i]
    BY <1>1, <1>9
  <2>1. /\ rs[i] # EmptyRow /\ rs[i][LeadingCol(rs[i])] = 1
        /\ \A j \in 1 .. Len(rs) : i < j => \A c \in DOMAIN rs[j] : LeadingCol(rs[i]) < c
    BY <1>0 DEF PivotRow
  <2>2. \A j \in k .. Len(rs) : \A c \in DOMAIN up[j] : LeadingCol(rs[i]) < c
    <3>1. \A j \in k .. Len(rs) : j \in 1 .. Len(rs) /\ i < j
      BY <1>1, <2>0
    <3>. QED  BY <1>3, <2>1, <3>1
  <2>3. ASSUME NEW j \in DOMAIN new, i < j, NEW c \in DOMAIN new[j]
        PROVE  LeadingCol(rs[i]) < c
    <3>0. j \in 1 .. k - 1 \/ j = k \/ j \in k + 1 .. Len(rs)
      BY <1>1, <1>9
    <3>1. k \in k .. Len(rs)
      BY <1>1
    <3>2. CASE j \in 1 .. k - 1
      BY <1>1, <1>9, <2>1, <2>3, <3>2
    <3>3. CASE j = k
      BY <1>7, <1>9, <2>2, <2>3, <3>1, <3>3
    <3>4. CASE j \in k + 1 .. Len(rs)
      <4>1. c \in DOMAIN up[j] \cup DOMAIN up[k] /\ j \in k .. Len(rs)
        BY <1>1, <1>8, <1>9, <2>3, <3>4
      <4>. QED  BY <2>2, <3>1, <4>1
    <3>. QED  BY <3>0, <3>2, <3>3, <3>4
  <2>. QED  BY <2>0, <2>1, <2>3 DEF PivotRow
<1>. QED
  <2>1. \A i \in 1 .. k : i = k \/ i \in 1 .. k - 1
    OBVIOUS
  <2>. QED  BY <1>11, <1>13, <1>14, <2>1 DEF new

-----------------------------------------------------------------------------
(* The end of the elimination, and the elimination above the pivots.       *)

LEMMA SelectedInterval ==
  ASSUME NEW s, NEW a \in Nat, NEW l \in Nat
  PROVE  Selected(s, a + 1 .. a + l) = [n \in 1 .. l |-> s[a + n]]
<1> DEFINE K == a + 1 .. a + l
<1>1. Cardinality(K) = l
  <2> DEFINE x == a + 1
             y == a + l
  <2>1. x \in Int /\ y \in Int /\ (x > y => l = 0) /\ y - x + 1 = l
    OBVIOUS
  <2> HIDE DEF x, y
  <2>2. Cardinality(x .. y) = l
    BY <2>1, FS_Interval
  <2>. QED  BY <2>2 DEF x, y
<1>2. ASSUME NEW k \in K
      PROVE  Cardinality({i \in K : i < k}) = k - (a + 1)
  <2>1. {i \in K : i < k} = a + 1 .. k - 1
    BY <1>2
  <2> DEFINE x == a + 1
             y == k - 1
  <2>2. x \in Int /\ y \in Int /\ (x > y => k - (a + 1) = 0) /\ y - x + 1 = k - (a + 1)
    BY <1>2
  <2> HIDE DEF x, y
  <2>3. Cardinality(x .. y) = k - (a + 1)
    BY <2>2, FS_Interval
  <2>. QED  BY <2>1, <2>3 DEF x, y
<1> DEFINE nth(n) == CHOOSE k \in K : Cardinality({i \in K : i < k}) = n - 1
<1>3. ASSUME NEW n \in 1 .. l
      PROVE  nth(n) = a + n
  <2>1. a + n \in K /\ (a + n) - (a + 1) = n - 1
    OBVIOUS
  <2>2. Cardinality({i \in K : i < a + n}) = n - 1
    BY <1>2, <2>1
  <2>3. nth(n) \in K /\ Cardinality({i \in K : i < nth(n)}) = n - 1
    BY <2>1, <2>2
  <2> HIDE DEF nth
  <2>4. nth(n) - (a + 1) = n - 1
    BY <1>2, <2>3
  <2>. QED  BY <2>3, <2>4
<1>4. Selected(s, K) = [n \in 1 .. l |-> s[nth(n)]]
  BY <1>1 DEF Selected
<1> HIDE DEF nth
<1>. QED  BY <1>3, <1>4

(* The first m rows are nonzero and the others are not. *)
NonzeroUpTo(rs, m) ==
  \A i \in DOMAIN rs : rs[i] # EmptyRow <=> i <= m

LEMMA NonzeroRows ==
  ASSUME NEW n, NEW rs \in Seq(RowSet(n)), NEW m \in 0 .. Len(rs), NonzeroUpTo(rs, m)
  PROVE  NonzeroFrom(rs, 1) = 1 .. m /\ Rank(rs) = m /\ ZerosLast(rs) = rs
<1>0. DOMAIN rs = 1 .. Len(rs) /\ Len(rs) \in Nat /\ m \in Nat /\ m <= Len(rs)
  BY RowsFacts
<1>1. NonzeroFrom(rs, 1) = 1 .. m
  BY <1>0 DEF NonzeroFrom, NonzeroUpTo
<1>2. Rank(rs) = m
  BY <1>0, <1>1, UpToFacts DEF Rank
<1>3. ZerosLast(rs) = Selected(rs, 1 .. m) \o Selected(rs, m + 1 .. Len(rs))
  <2>1. DOMAIN rs \ NonzeroFrom(rs, 1) = m + 1 .. Len(rs)
    BY <1>0, <1>1
  <2>. QED  BY <1>1, <2>1 DEF ZerosLast
<1> DEFINE f == [i \in 1 .. m |-> rs[i]]
           l == Len(rs) - m
           g == [i \in 1 .. l |-> rs[m + i]]
<1>4. Selected(rs, 1 .. m) = f
  <2>1. 0 + 1 = 1 /\ 0 + m = m /\ \A i \in 1 .. m : 0 + i = i
    BY <1>0
  <2> DEFINE z == 0
  <2>2. z \in Nat
    OBVIOUS
  <2> HIDE DEF z
  <2>3. Selected(rs, z + 1 .. z + m) = [i \in 1 .. m |-> rs[z + i]]
    BY <1>0, <2>2, SelectedInterval
  <2>. QED  BY <2>1, <2>3 DEF z
<1>5. Selected(rs, m + 1 .. Len(rs)) = g
  <2>1. l \in Nat /\ m + l = Len(rs)
    BY <1>0
  <2> HIDE DEF l
  <2>2. Selected(rs, m + 1 .. m + l) = [i \in 1 .. l |-> rs[m + i]]
    BY <1>0, <2>1, SelectedInterval
  <2>. QED  BY <2>1, <2>2
<1>6. f \o g = rs
  <2>1. f \in Seq(RowSet(n)) /\ Len(f) = m
    <3>1. \A i \in 1 .. m : rs[i] \in RowSet(n)
      BY <1>0, ElementOfSeq
    <3>. QED  BY <1>0, <3>1
  <2>2. g \in Seq(RowSet(n)) /\ Len(g) = l /\ l \in Nat
    <3>1. \A i \in 1 .. l : rs[m + i] \in RowSet(n)
      BY <1>0, ElementOfSeq
    <3>2. l \in Nat
      BY <1>0
    <3> HIDE DEF l
    <3>. QED  BY <3>1, <3>2
  <2>3. f \o g \in Seq(RowSet(n)) /\ Len(f \o g) = Len(rs)
    BY <1>0, <2>1, <2>2
  <2>4. ASSUME NEW i \in 1 .. Len(rs) PROVE (f \o g)[i] = rs[i]
    <3>1. CASE i <= m
      <4>1. i \in 1 .. m
        BY <3>1
      <4>2. (f \o g)[i] = f[i]
        BY <2>1, <2>2, <4>1
      <4>. QED  BY <4>1, <4>2
    <3>2. CASE i > m
      <4>1. i - m \in 1 .. l /\ m + (i - m) = i
        BY <1>0, <3>2
      <4>2. (f \o g)[i] = g[i - m]
        <5> HIDE DEF f, g
        <5>. QED  BY <1>0, <2>1, <2>2, <3>2
      <4>. QED  BY <4>1, <4>2
    <3>. QED  BY <1>0, <3>1, <3>2
  <2> HIDE DEF f, g
  <2>. QED  BY <1>0, <2>3, <2>4, SeqEqual
<1>. QED  BY <1>1, <1>2, <1>3, <1>4, <1>5, <1>6

(* What the elimination downwards leaves when no row is left. *)
LEMMA PivotsAreNonzero ==
  ASSUME NEW n \in Nat, NEW rs \in Seq(RowSet(n)), NEW k \in 1 .. Len(rs) + 1,
         \A i \in 1 .. k - 1 : PivotRow(rs, i), NonzeroFrom(rs, k) = {}
  PROVE  NonzeroUpTo(rs, k - 1) /\ k - 1 \in 0 .. Len(rs)
<1>1. DOMAIN rs = 1 .. Len(rs) /\ Len(rs) \in Nat
  BY RowsFacts
<1>2. ASSUME NEW i \in DOMAIN rs PROVE rs[i] # EmptyRow <=> i <= k - 1
  <2>1. CASE i <= k - 1
    <3>1. i \in 1 .. k - 1
      BY <1>1, <2>1
    <3>. QED  BY <2>1, <3>1 DEF PivotRow
  <2>2. CASE ~(i <= k - 1)
    <3>1. i \in k .. Len(rs)
      BY <1>1, <2>2
    <3>. QED  BY <2>2, <3>1 DEF NonzeroFrom
  <2>. QED  BY <2>1, <2>2
<1>3. k - 1 \in 0 .. Len(rs)
  BY <1>1
<1>. QED  BY <1>2, <1>3 DEF NonzeroUpTo

(* Back-substitution: the first m rows are the pivot rows, and the columns *)
(* of the pivots after row k are clear elsewhere.                          *)
ClearedAfter(rs, m, k) ==
  \A j \in k + 1 .. m : \A i \in 1 .. m \ {j} : LeadingCol(rs[j]) \notin DOMAIN rs[i]

Echelon(n, rs, m, k) ==
  /\ rs \in Seq(RowSet(n)) /\ m \in 0 .. Len(rs) /\ k \in 0 .. m /\ (m > 0 => k > 0)
  /\ NonzeroUpTo(rs, m) /\ \A i \in 1 .. m : PivotRow(rs, i)
  /\ ClearedAfter(rs, m, k)

LEMMA EliminateAboveKeeps ==
  ASSUME NEW n \in Nat, NEW rs, NEW m, NEW k, Echelon(n, rs, m, k), k > 1
  PROVE  Echelon(n, EliminateAbove(rs, k), m, k - 1)
<1> DEFINE col == LeadingCol(rs[k])
           new == EliminateAbove(rs, k)
<1>0. /\ DOMAIN rs = 1 .. Len(rs) /\ Len(rs) \in Nat /\ rs \in Seq(RowSet(n))
      /\ \A i \in 1 .. Len(rs) : IsRow(n, rs[i])
      /\ m \in 0 .. Len(rs) /\ k \in 1 .. m /\ k \in 1 .. Len(rs)
      /\ \A i \in 1 .. m : i \in 1 .. Len(rs) /\ PivotRow(rs, i)
  BY RowsFacts DEF Echelon
<1>1. /\ DOMAIN new = 1 .. Len(rs) /\ new = [i \in DOMAIN new |-> new[i]]
      /\ \A i \in 1 .. Len(rs) :
           new[i] = IF i < k THEN Axpy(rs[i], Entry(rs[i], col), rs[k]) ELSE rs[i]
  BY <1>0 DEF EliminateAbove
<1> HIDE DEF new
<1>2. rs[k] # EmptyRow /\ rs[k][col] = 1 /\ col \in DOMAIN rs[k]
  BY <1>0, RowLead DEF PivotRow
<1> HIDE DEF col
<1>3. ASSUME NEW i \in 1 .. k - 1
      PROVE  /\ IsRow(n, new[i]) /\ DOMAIN new[i] \subseteq DOMAIN rs[i] \cup DOMAIN rs[k]
             /\ col \notin DOMAIN new[i]
             /\ new[i] # EmptyRow /\ LeadingCol(new[i]) = LeadingCol(rs[i])
             /\ new[i][LeadingCol(rs[i])] = 1
  <2> DEFINE e == Entry(rs[i], col)
             r == Axpy(rs[i], e, rs[k])
             lead == LeadingCol(rs[i])
  <2>0. i \in 1 .. Len(rs) /\ i \in 1 .. m /\ i < k /\ k \in DOMAIN rs /\ new[i] = r
    BY <1>0, <1>1
  <2>1. IsRow(n, rs[i]) /\ IsRow(n, rs[k]) /\ e \in 0 .. P - 1 /\ e = Entry(rs[i], col)
    BY <1>0, <2>0, EntryFacts
  <2>2. /\ rs[i] # EmptyRow /\ rs[i][lead] = 1
        /\ \A c \in DOMAIN rs[k] : lead < c
    BY <1>0, <2>0 DEF PivotRow
  <2>3. lead \in DOMAIN rs[i] /\ lead \in 1 .. n /\ \A c \in DOMAIN rs[i] : lead <= c
    BY <2>1, <2>2, RowLead
  <2> HIDE DEF e, lead
  <2>4. lead \in DOMAIN rs[i] \ DOMAIN rs[k]
    BY <2>2, <2>3
  <2>5. IsRow(n, r) /\ DOMAIN r \subseteq DOMAIN rs[i] \cup DOMAIN rs[k]
    BY <2>1, AxpyFacts
  <2>6. lead \in DOMAIN r /\ r[lead] = 1
    <3>0. lead \in DOMAIN rs[i] /\ lead \notin DOMAIN rs[k]
      BY <2>4
    <3>1. lead \in DOMAIN r /\ r[lead] = rs[i][lead]
      BY <2>1, <3>0, AxpyKeeps
    <3> HIDE DEF r
    <3>. QED  BY <2>2, <2>4, <3>1
  <2>7. rs[k][col] = 1 /\ e = Entry(rs[i], col) => col \notin DOMAIN r
    BY <1>2, <2>1, AxpyFacts
  <2> HIDE DEF r
  <2>8. \A d \in DOMAIN r : lead <= d
    <3>1. ASSUME NEW d \in DOMAIN r PROVE lead <= d
      <4>1. d \in 1 .. n
        BY <2>5 DEF IsRow
      <4>2. d \in DOMAIN rs[i] => lead <= d
        BY <2>3
      <4>3. d \in DOMAIN rs[k] => lead < d
        BY <2>2
      <4>. QED  BY <2>3, <2>5, <4>1, <4>2, <4>3
    <3>. QED  BY <3>1
  <2>9. r # EmptyRow /\ LeadingCol(r) = lead
    BY <2>5, <2>6, <2>8, LeadIs
  <2>. QED  BY <1>2, <2>0, <2>1, <2>5, <2>6, <2>7, <2>9 DEF lead
<1>4. \A i \in k .. Len(rs) : new[i] = rs[i]
  BY <1>0, <1>1
<1>5. \A i \in 1 .. Len(rs) : i \in 1 .. k - 1 \/ i \in k .. Len(rs)
  BY <1>0
<1>6. ASSUME NEW i \in 1 .. Len(rs) PROVE IsRow(n, new[i])
  BY <1>0, <1>3, <1>4, <1>5
<1>7. new \in Seq(RowSet(n)) /\ Len(new) = Len(rs)
  BY <1>0, <1>1, <1>6, RowsAre, SMTT(60)
<1>8. NonzeroUpTo(new, m)
  <2>1. ASSUME NEW i \in 1 .. Len(rs) PROVE new[i] # EmptyRow <=> i <= m
    <3>1. CASE i \in 1 .. k - 1
      BY <1>0, <1>3, <3>1
    <3>2. CASE i \in k .. Len(rs)
      BY <1>0, <1>4, <3>2 DEF Echelon, NonzeroUpTo
    <3>. QED  BY <1>5, <3>1, <3>2
  <2>. QED  BY <1>1, <2>1 DEF NonzeroUpTo
<1>9. \A i \in 1 .. Len(rs) : i <= m =>
        LeadingCol(new[i]) = LeadingCol(rs[i]) /\ new[i] # EmptyRow
        /\ new[i][LeadingCol(rs[i])] = 1
  <2>1. ASSUME NEW i \in 1 .. Len(rs), i <= m
        PROVE  LeadingCol(new[i]) = LeadingCol(rs[i]) /\ new[i] # EmptyRow
               /\ new[i][LeadingCol(rs[i])] = 1
    <3>1. CASE i \in 1 .. k - 1
      BY <1>3, <3>1
    <3>2. CASE i \in k .. Len(rs)
      <4>1. i \in 1 .. m
        BY <1>0, <2>1
      <4>. QED  BY <1>0, <1>4, <3>2, <4>1 DEF PivotRow
    <3>. QED  BY <1>5, <3>1, <3>2
  <2>. QED  BY <2>1
<1>10. ASSUME NEW i \in 1 .. m PROVE PivotRow(new, i)
  <2>0. i \in 1 .. Len(rs) /\ i <= m
    BY <1>0
  <2>1. \A j \in 1 .. Len(rs) : i < j => \A c \in DOMAIN rs[j] : LeadingCol(rs[i]) < c
    BY <1>0 DEF PivotRow
  <2>2. ASSUME NEW j \in 1 .. Len(rs), i < j, NEW c \in DOMAIN new[j]
        PROVE  LeadingCol(rs[i]) < c
    <3>1. CASE j \in 1 .. k - 1
      <4>1. i < k
        BY <1>0, <2>0, <2>2, <3>1
      <4>. QED  BY <1>0, <1>3, <2>1, <2>2, <3>1, <4>1
    <3>2. CASE j \in k .. Len(rs)
      BY <1>4, <2>1, <2>2, <3>2
    <3>. QED  BY <1>5, <3>1, <3>2
  <2>. QED  BY <1>1, <1>9, <2>0, <2>2 DEF PivotRow
<1>11. ClearedAfter(new, m, k - 1)
  <2>1. ASSUME NEW j \in (k - 1) + 1 .. m, NEW i \in 1 .. m \ {j}
        PROVE  LeadingCol(new[j]) \notin DOMAIN new[i]
    <3>0. /\ j \in k .. m /\ j \in k .. Len(rs) /\ i \in 1 .. Len(rs) /\ i # j /\ j \in 1 .. m
          /\ i \in 1 .. m /\ k \in 1 .. m
      BY <1>0
    <3>1. LeadingCol(new[j]) = LeadingCol(rs[j])
      BY <1>4, <3>0
    <3>2. CASE j = k
      <4>1. CASE i \in 1 .. k - 1
        BY <1>3, <3>1, <3>2, <4>1 DEF col
      <4>2. CASE i \in k .. Len(rs)
        <5>1. k < i /\ k \in DOMAIN rs /\ i \in DOMAIN rs
          BY <1>0, <3>0, <3>2, <4>2
        <5>2. \A c \in DOMAIN rs[i] : LeadingCol(rs[k]) < c
          BY <1>0, <5>1 DEF PivotRow
        <5>3. col \in 1 .. n
          BY <1>0, <1>2 DEF IsRow
        <5>. QED  BY <1>4, <3>1, <3>2, <4>2, <5>2, <5>3 DEF col
      <4>. QED  BY <1>5, <3>0, <4>1, <4>2
    <3>3. CASE j # k
      <4>1. j \in k + 1 .. m /\ i \in 1 .. m \ {j} /\ k \in 1 .. m \ {j}
        BY <1>0, <3>0, <3>3
      <4>2. LeadingCol(rs[j]) \notin DOMAIN rs[i] /\ LeadingCol(rs[j]) \notin DOMAIN rs[k]
        BY <4>1 DEF Echelon, ClearedAfter
      <4>. QED  BY <1>3, <1>4, <1>5, <3>0, <3>1, <4>2
    <3>. QED  BY <3>2, <3>3
  <2>. QED  BY <2>1 DEF ClearedAfter
<1>12. k - 1 \in 0 .. m /\ (m > 0 => k - 1 > 0)
  BY <1>0
<1>. QED  BY <1>0, <1>7, <1>8, <1>10, <1>11, <1>12 DEF Echelon, new

LEMMA EchelonIsReduced ==
  ASSUME NEW n \in Nat, NEW rs, NEW m, NEW k, Echelon(n, rs, m, k), k <= 1
  PROVE  ReducedEchelon(rs)
<1>0. /\ DOMAIN rs = 1 .. Len(rs) /\ Len(rs) \in Nat /\ rs \in Seq(RowSet(n))
      /\ \A i \in 1 .. Len(rs) : IsRow(n, rs[i])
      /\ m \in 0 .. Len(rs)
      /\ \A i \in 1 .. m : i \in 1 .. Len(rs) /\ PivotRow(rs, i)
  BY RowsFacts DEF Echelon
<1>1. Rank(rs) = m
  BY NonzeroRows DEF Echelon
<1>2. \A i \in DOMAIN rs : \A c \in DOMAIN rs[i] : rs[i][c] # 0
  <2>1. 0 \notin 1 .. P - 1
    BY PAssumption
  <2>. QED  BY <1>0, <2>1 DEF IsRow
<1>3. ASSUME NEW i \in 1 .. m
      PROVE  rs[i] # EmptyRow /\ rs[i][LeadingCol(rs[i])] = 1
  BY <1>0 DEF PivotRow
<1>4. ASSUME NEW i \in 1 .. m, NEW j \in 1 .. m \ {i}
      PROVE  LeadingCol(rs[i]) \notin DOMAIN rs[j]
  <2>1. CASE i > k
    <3>1. i \in k + 1 .. m
      BY <2>1 DEF Echelon
    <3>. QED  BY <3>1 DEF Echelon, ClearedAfter
  <2>2. CASE i <= k
    <3>1. i = 1 /\ i < j /\ j \in DOMAIN rs
      BY <1>0, <2>2 DEF Echelon
    <3>2. \A c \in DOMAIN rs[j] : LeadingCol(rs[i]) < c
      BY <1>0, <3>1 DEF PivotRow
    <3>3. LeadingCol(rs[i]) \in 1 .. n
      BY <1>0, <1>3, RowLead
    <3>. QED  BY <3>2, <3>3
  <2>. QED  BY <2>1, <2>2 DEF Echelon
<1>5. ASSUME NEW i \in 1 .. m, i > 1
      PROVE  LeadingCol(rs[i - 1]) < LeadingCol(rs[i])
  <2>1. i - 1 \in 1 .. m /\ i - 1 < i /\ i \in DOMAIN rs
    BY <1>0, <1>5
  <2>2. LeadingCol(rs[i]) \in DOMAIN rs[i]
    BY <1>0, <1>3, RowLead
  <2>. QED  BY <1>0, <2>1, <2>2 DEF PivotRow
<1>. QED  BY <1>1, <1>2, <1>3, <1>4, <1>5 DEF ReducedEchelon

(* The algebra and the elimination that the matrix driver is built from    *)
(* are the ones of the lemmas above.                                       *)
LEMMA MatrixAlgebra ==
  /\ Matrix!Zero = Zero /\ Matrix!EmptyRow = EmptyRow
  /\ \A a : Matrix!Deg(a) = Deg(a)
  /\ \A a, b : /\ Matrix!Less(a, b) <=> Less(a, b)
               /\ Matrix!Divides(a, b) <=> Divides(a, b)
               /\ Matrix!Div(a, b) = Div(a, b) /\ Matrix!Lcm(a, b) = Lcm(a, b)
  /\ \A p : Matrix!LM(p) = LM(p) /\ Matrix!Support(p) = Support(p)
  /\ \A terms : Matrix!Poly(terms) = Poly(terms)
  /\ \A p : Matrix!Monic(p) = Monic(p)
  /\ \A p, m, c, q : Matrix!MinusMMultP(p, m, c, q) = MinusMMultP(p, m, c, q)
  /\ \A ps, flags, m : /\ Matrix!Divisors(ps, flags, m) = Divisors(ps, flags, m)
                       /\ Matrix!FirstDivisor(ps, flags, m) = FirstDivisor(ps, flags, m)
<1>1. \A a : Matrix!Deg(a) = Deg(a)
  BY DEF Matrix!Deg, Deg
<1>2. /\ \A a, b : Matrix!Less(a, b) <=> Less(a, b)
      /\ \A a, b : Matrix!Mul(a, b) = Mul(a, b) /\ Matrix!Div(a, b) = Div(a, b)
      /\ \A a, b : Matrix!Divides(a, b) <=> Divides(a, b)
      /\ \A a, b : Matrix!Lcm(a, b) = Lcm(a, b)
      /\ Matrix!One = One /\ Matrix!Zero = Zero /\ Matrix!EmptyRow = EmptyRow
      /\ \A p : Matrix!LM(p) = LM(p) /\ Matrix!LC(p) = LC(p) /\ Matrix!Support(p) = Support(p)
      /\ \A p, t : Matrix!Coef(p, t) = Coef(p, t)
  BY <1>1 DEF Matrix!Less, Less, Matrix!Vars, Vars, Matrix!Mul, Mul, Matrix!Div, Div,
    Matrix!Divides, Divides, Matrix!Lcm, Lcm, Matrix!One, One, Matrix!Zero, Zero,
    Matrix!EmptyRow, EmptyRow, Matrix!LM, LM, Matrix!LC, LC, Matrix!Support, Support,
    Matrix!Coef, Coef
<1>3. \A terms : Matrix!Poly(terms) = Poly(terms)
  BY <1>2 DEF Matrix!Poly, Poly, Matrix!Maxima, Maxima
<1>4. \A p : Matrix!Monic(p) = Monic(p)
  <2>1. \A c : Matrix!Invert(c) = Invert(c)
    BY DEF Matrix!Invert, Invert
  <2>2. ASSUME NEW p PROVE Matrix!Monic(p) = Monic(p)
    <3>1. Matrix!Invert(Matrix!LC(p)) = Invert(LC(p))
      BY <1>2, <2>1
    <3>. QED  BY <1>2, <3>1 DEF Matrix!Monic, Monic
  <2>. QED  BY <2>2
<1>5. \A p, m, c, q : Matrix!MinusMMultP(p, m, c, q) = MinusMMultP(p, m, c, q)
  BY <1>2, <1>3 DEF Matrix!MinusMMultP, MinusMMultP
<1>6. \A ps, flags, m : Matrix!Divisors(ps, flags, m) = Divisors(ps, flags, m)
  BY <1>2 DEF Matrix!Divisors, Divisors
<1>7. \A ps, flags, m : Matrix!FirstDivisor(ps, flags, m) = FirstDivisor(ps, flags, m)
  BY <1>6 DEF Matrix!FirstDivisor, FirstDivisor
<1>. QED  BY <1>1, <1>2, <1>3, <1>4, <1>5, <1>6, <1>7

LEMMA MatrixElimination ==
  /\ \A T : Matrix!Min(T) = Min(T)
  /\ \A r : Matrix!LeadingCol(r) = LeadingCol(r)
  /\ \A s, K : Matrix!Selected(s, K) = Selected(s, K)
  /\ \A rs, k : Matrix!NonzeroFrom(rs, k) = NonzeroFrom(rs, k)
  /\ \A rs, k : Matrix!EliminateBelow(rs, k) = EliminateBelow(rs, k)
  /\ \A rs : Matrix!ZerosLast(rs) = ZerosLast(rs) /\ Matrix!Rank(rs) = Rank(rs)
  /\ \A rs, k : Matrix!EliminateAbove(rs, k) = EliminateAbove(rs, k)
  /\ \A rs : Matrix!ReducedEchelon(rs) <=> ReducedEchelon(rs)
<1>1. /\ \A T : Matrix!Min(T) = Min(T)
      /\ Matrix!EmptyRow = EmptyRow
      /\ \A r, c : Matrix!Entry(r, c) = Entry(r, c)
      /\ \A s, i, k : Matrix!Swapped(s, i, k) = Swapped(s, i, k)
      /\ \A c : Matrix!Invert(c) = Invert(c)
  BY DEF Matrix!Min, Min, Matrix!EmptyRow, EmptyRow, Matrix!Entry, Entry,
    Matrix!Swapped, Swapped, Matrix!Invert, Invert
<1>2. /\ \A r : Matrix!LeadingCol(r) = LeadingCol(r)
      /\ \A r, c : Matrix!Scale(r, c) = Scale(r, c)
      /\ \A r, c, s : Matrix!Axpy(r, c, s) = Axpy(r, c, s)
      /\ \A rs, k : Matrix!NonzeroFrom(rs, k) = NonzeroFrom(rs, k)
  BY <1>1 DEF Matrix!LeadingCol, LeadingCol, Matrix!Scale, Scale, Matrix!Axpy, Axpy,
    Matrix!NonzeroFrom, NonzeroFrom
<1>9. \A S : Matrix!Cardinality(S) = Cardinality(S)
  BY DEF Matrix!Cardinality, Cardinality
<1>3. \A s, K : Matrix!Selected(s, K) = Selected(s, K)
  <2>1. ASSUME NEW s, NEW K PROVE Matrix!Selected(s, K) = Selected(s, K)
    <3> DEFINE nth(n) == CHOOSE k \in K : Cardinality({l \in K : l < k}) = n - 1
    <3>1. Selected(s, K) = [n \in 1 .. Cardinality(K) |-> s[nth(n)]]
      BY DEF Selected
    <3> DEFINE mth(n) == CHOOSE k \in K : Matrix!Cardinality({l \in K : l < k}) = n - 1
    <3>2. Matrix!Selected(s, K) = [n \in 1 .. Matrix!Cardinality(K) |-> s[mth(n)]]
      BY DEF Matrix!Selected
    <3>3. \A n : mth(n) = nth(n)
      BY <1>9
    <3> HIDE DEF nth, mth
    <3>. QED  BY <1>9, <3>1, <3>2, <3>3
  <2>. QED  BY <2>1
<1>4. \A rs, k : Matrix!PivotSource(rs, k) = PivotSource(rs, k)
  BY <1>1, <1>2 DEF Matrix!PivotSource, PivotSource
<1>5. \A rs, k : Matrix!EliminateBelow(rs, k) = EliminateBelow(rs, k)
  BY <1>1, <1>2, <1>4 DEF Matrix!EliminateBelow, EliminateBelow
<1>6. \A rs : Matrix!ZerosLast(rs) = ZerosLast(rs) /\ Matrix!Rank(rs) = Rank(rs)
  <2>1. ASSUME NEW rs PROVE Matrix!ZerosLast(rs) = ZerosLast(rs)
    <3>1. Matrix!NonzeroFrom(rs, 1) = NonzeroFrom(rs, 1)
      BY <1>2
    <3>. QED  BY <1>3, <3>1 DEF Matrix!ZerosLast, ZerosLast
  <2>2. ASSUME NEW rs PROVE Matrix!Rank(rs) = Rank(rs)
    <3>1. Matrix!NonzeroFrom(rs, 1) = NonzeroFrom(rs, 1)
      BY <1>2
    <3>. QED  BY <1>9, <3>1 DEF Matrix!Rank, Rank
  <2>. QED  BY <2>1, <2>2
<1>7. \A rs, k : Matrix!EliminateAbove(rs, k) = EliminateAbove(rs, k)
  BY <1>1, <1>2 DEF Matrix!EliminateAbove, EliminateAbove
<1>8. \A rs : Matrix!ReducedEchelon(rs) <=> ReducedEchelon(rs)
  BY <1>1, <1>2, <1>6 DEF Matrix!ReducedEchelon, ReducedEchelon
<1>. QED  BY <1>1, <1>2, <1>3, <1>5, <1>6, <1>7, <1>8

-----------------------------------------------------------------------------
(* Selections, sorted monomials and batches.                               *)

LEMMA MatrixCardinality == \A S : Matrix!Cardinality(S) = Cardinality(S)
BY DEF Matrix!Cardinality, Cardinality

LEMMA SelectedFacts ==
  ASSUME NEW s, NEW K \in SUBSET Nat, IsFiniteSet(K)
  PROVE  /\ Cardinality(K) \in Nat /\ DOMAIN Selected(s, K) = 1 .. Cardinality(K)
         /\ \A n \in 1 .. Cardinality(K) : \E k \in K : Selected(s, K)[n] = s[k]
         /\ Selected(s, K) = [n \in 1 .. Cardinality(K) |-> Selected(s, K)[n]]
<1> DEFINE f == [k \in K |-> {l \in K : l < k}]
           nth(n) == CHOOSE k \in K : Cardinality({l \in K : l < k}) = n - 1
<1>1. Cardinality(K) \in Nat
  BY FS_CardinalityType
<1>2. \A n \in 1 .. Cardinality(K) : \E k \in K : Cardinality(f[k]) = n - 1
  <2>1. \A k \in K : f[k] \subseteq K /\ k \notin f[k]
    OBVIOUS
  <2>2. \A k, l \in K : k = l \/ k \in f[l] \/ l \in f[k]
    OBVIOUS
  <2>3. \A k, l \in K : l \in f[k] => f[l] \subseteq f[k]
    <3>1. ASSUME NEW k \in K, NEW l \in K, l \in f[k], NEW i \in f[l]
          PROVE  i \in f[k]
      <4>1. k \in Nat /\ l \in Nat /\ i \in Nat /\ i \in K /\ i < l /\ l < k
        BY <3>1
      <4>. QED  BY <4>1
    <3>. QED  BY <3>1
  <2> HIDE DEF f
  <2>. QED  BY <2>1, <2>2, <2>3, RankExists
<1>3. \A n \in 1 .. Cardinality(K) : nth(n) \in K
  <2>1. \A k \in K : f[k] = {l \in K : l < k}
    OBVIOUS
  <2> HIDE DEF f
  <2>2. ASSUME NEW n \in 1 .. Cardinality(K) PROVE nth(n) \in K
    <3>1. \E k \in K : Cardinality({l \in K : l < k}) = n - 1
      BY <1>2, <2>1
    <3>. QED  BY <3>1
  <2>. QED  BY <2>2
<1>4. Selected(s, K) = [n \in 1 .. Cardinality(K) |-> s[nth(n)]]
  BY DEF Selected
<1> HIDE DEF nth
<1>. QED  BY <1>1, <1>3, <1>4

LEMMA DescendingFacts ==
  ASSUME NEW S \in SUBSET Monomial, IsFiniteSet(S)
  PROVE  LET d == Matrix!Descending(S)
         IN  /\ Cardinality(S) \in Nat /\ DOMAIN d = 1 .. Cardinality(S)
             /\ d = [n \in 1 .. Cardinality(S) |-> d[n]]
             /\ \A n \in DOMAIN d : d[n] \in S
             /\ \A m \in S : \E n \in DOMAIN d : d[n] = m
             /\ \A n, l \in DOMAIN d : n < l => Less(d[l], d[n])
<1> DEFINE f == [m \in S |-> {l \in S : Less(m, l)}]
           nth(n) == CHOOSE m \in S : Cardinality({l \in S : Less(m, l)}) = n - 1
           d == Matrix!Descending(S)
           N == Cardinality(S)
<1>1. N \in Nat
  BY FS_CardinalityType
<1>2. /\ \A a \in S : f[a] \subseteq S /\ a \notin f[a]
      /\ \A a, b \in S : a = b \/ a \in f[b] \/ b \in f[a]
      /\ \A a, b \in S : b \in f[a] => f[b] \subseteq f[a]
  <2>1. \A a \in S : a \in Monomial
    OBVIOUS
  <2>2. \A a \in S : f[a] \subseteq S /\ a \notin f[a]
    BY <2>1, LessIrreflexive
  <2>3. \A a, b \in S : a = b \/ a \in f[b] \/ b \in f[a]
    BY <2>1, LessTotal
  <2>4. \A a, b \in S : b \in f[a] => f[b] \subseteq f[a]
    <3>1. ASSUME NEW a \in S, NEW b \in S, b \in f[a], NEW c \in f[b]
          PROVE  c \in f[a]
      <4>1. Less(a, b) /\ Less(b, c) /\ c \in S
        BY <3>1
      <4>. QED  BY <2>1, <4>1, LessTransitive
    <3>. QED  BY <3>1
  <2>. QED  BY <2>2, <2>3, <2>4
<1>3. \A m \in S : f[m] = {l \in S : Less(m, l)}
  OBVIOUS
<1> HIDE DEF f
<1>4. /\ \A k \in 1 .. N : \E a \in S : Cardinality(f[a]) = k - 1
      /\ \A a, b \in S : Cardinality(f[a]) = Cardinality(f[b]) => a = b
      /\ \A a \in S : Cardinality(f[a]) \in 0 .. N - 1
  BY <1>2, RankExists
<1> HIDE DEF N
<1>5. \A n \in 1 .. N : nth(n) \in S /\ Cardinality(f[nth(n)]) = n - 1
  <2>1. ASSUME NEW n \in 1 .. N
        PROVE  nth(n) \in S /\ Cardinality(f[nth(n)]) = n - 1
    <3>1. \E m \in S : Cardinality({l \in S : Less(m, l)}) = n - 1
      BY <1>3, <1>4
    <3>2. nth(n) \in S /\ Cardinality({l \in S : Less(nth(n), l)}) = n - 1
      BY <3>1
    <3>. QED  BY <1>3, <3>2
  <2>. QED  BY <2>1
<1>6. d = [n \in 1 .. N |-> nth(n)]
  <2> DEFINE mth(n) == CHOOSE m \in S : Matrix!Cardinality({l \in S : Matrix!Less(m, l)}) = n - 1
  <2>1. d = [n \in 1 .. Matrix!Cardinality(S) |-> mth(n)]
    BY DEF Matrix!Descending
  <2>2. \A m : {l \in S : Matrix!Less(m, l)} = {l \in S : Less(m, l)}
    BY MatrixAlgebra
  <2>3. \A n : mth(n) = nth(n)
    BY <2>2, MatrixCardinality
  <2> HIDE DEF mth, nth, d
  <2>. QED  BY <2>1, <2>3, MatrixCardinality DEF N
<1> HIDE DEF nth, d
<1>7. /\ DOMAIN d = 1 .. N /\ \A n \in 1 .. N : d[n] = nth(n)
      /\ d = [n \in 1 .. N |-> d[n]]
  BY <1>6
<1>8. ASSUME NEW m \in S PROVE \E n \in 1 .. N : d[n] = m
  <2> DEFINE n == Cardinality(f[m]) + 1
  <2>1. n \in 1 .. N /\ Cardinality(f[m]) = n - 1
    BY <1>1, <1>4
  <2> HIDE DEF n
  <2>2. nth(n) = m
    BY <1>4, <1>5, <2>1
  <2>. QED  BY <1>7, <2>1, <2>2
<1>9. ASSUME NEW n \in 1 .. N, NEW l \in 1 .. N, n < l PROVE Less(d[l], d[n])
  <2> DEFINE a == nth(n)
             b == nth(l)
  <2>1. a \in S /\ b \in S /\ Cardinality(f[a]) = n - 1 /\ Cardinality(f[b]) = l - 1
    BY <1>5
  <2> HIDE DEF a, b
  <2>2. a # b
    BY <1>9, <2>1
  <2>3. b \notin f[a]
    <3>1. SUFFICES ASSUME b \in f[a] PROVE FALSE
      OBVIOUS
    <3>2. f[b] \in SUBSET f[a] /\ f[a] \in SUBSET S
      BY <1>2, <2>1, <3>1
    <3>3. IsFiniteSet(f[a])
      BY <3>2, FS_Subset
    <3>4. Cardinality(f[b]) <= Cardinality(f[a])
      BY <3>2, <3>3, FS_Subset
    <3>. QED  BY <1>9, <2>1, <3>4
  <2>4. a \in f[b]
    BY <1>2, <2>1, <2>2, <2>3
  <2>5. Less(b, a)
    BY <1>3, <2>1, <2>4
  <2>. QED  BY <1>7, <2>5 DEF a, b
<1>. QED  BY <1>1, <1>5, <1>7, <1>8, <1>9 DEF N, d

(* A pending pair. *)
Pending == [sugar : Nat, i : Nat, j : Nat]

LEMMA BatchFacts ==
  ASSUME NEW ps \in SUBSET Pending, IsFiniteSet(ps), ps # {}
  PROVE  \E l \in Nat : /\ DOMAIN Matrix!Batch(ps) = 1 .. l /\ Len(Matrix!Batch(ps)) = l
                        /\ \A k \in 1 .. l : Matrix!Batch(ps)[k] \in ps
<1> DEFINE sugars == {p.sugar : p \in ps}
           least == Min(sugars)
           later(p, q) == p.j > q.j \/ (p.j = q.j /\ p.i >= q.i)
           chosen == {p \in ps : p.sugar = least}
           place(p) == Cardinality({q \in chosen : later(q, p)})
           N == Cardinality(chosen)
           pick(n) == CHOOSE p \in chosen : place(p) = n
           f == [p \in chosen |-> {q \in chosen : later(q, p)} \ {p}]
<1>1. IsFiniteSet(chosen)
  BY FS_Subset
<1>2. N \in Nat
  BY <1>1, FS_CardinalityType
<1>3. \A p \in chosen : p \in Pending /\ p.sugar = least
  OBVIOUS
<1>4. Matrix!Batch(ps) = [n \in 1 .. N |-> pick(n)]
  <2> DEFINE mchosen == {p \in ps : p.sugar = Matrix!Min(sugars)}
             mplace(p) == Matrix!Cardinality({q \in mchosen : later(q, p)})
             mpick(n) == CHOOSE p \in mchosen : mplace(p) = n
  <2>0. Matrix!Batch(ps) = [n \in 1 .. Matrix!Cardinality(mchosen) |-> mpick(n)]
    BY DEF Matrix!Batch
  <2>1. mchosen = chosen
    BY MatrixElimination
  <2> HIDE DEF mchosen, chosen
  <2>3. \A p : mplace(p) = place(p)
    BY <2>1, MatrixCardinality
  <2> HIDE DEF place, mplace
  <2>4. \A n : mpick(n) = pick(n)
    BY <2>1, <2>3
  <2>5. Matrix!Cardinality(mchosen) = N
    BY <2>1, MatrixCardinality
  <2> HIDE DEF pick, mpick, N
  <2>. QED  BY <2>0, <2>4, <2>5
<1> HIDE DEF chosen, least
<1>5. /\ \A a \in chosen : f[a] \subseteq chosen /\ a \notin f[a]
      /\ \A a, b \in chosen : a = b \/ a \in f[b] \/ b \in f[a]
      /\ \A a, b \in chosen : b \in f[a] => f[b] \subseteq f[a]
  <2>0. \A p \in chosen : /\ p.i \in Nat /\ p.j \in Nat
                          /\ p = [sugar |-> least, i |-> p.i, j |-> p.j]
    BY <1>3 DEF Pending
  <2>1. \A p, q \in chosen : p.i = q.i /\ p.j = q.j => p = q
    BY <2>0
  <2>2. \A a \in chosen : f[a] = {q \in chosen : later(q, a)} \ {a}
    OBVIOUS
  <2> HIDE DEF f
  <2>3. \A a, b \in chosen : a = b \/ a \in f[b] \/ b \in f[a]
    BY <2>0, <2>2
  <2>4. ASSUME NEW a \in chosen, NEW b \in chosen, b \in f[a], NEW c \in f[b]
        PROVE  c \in f[a]
    <3>1. c \in chosen /\ later(c, b) /\ later(b, a) /\ c # b /\ b # a
      BY <2>2, <2>4
    <3>2. later(c, a)
      BY <2>0, <3>1
    <3>3. c # a
      BY <2>0, <2>1, <3>1
    <3>. QED  BY <2>2, <3>1, <3>2, <3>3
  <2>. QED  BY <2>2, <2>3, <2>4
<1>6. \A a \in chosen : place(a) = Cardinality(f[a]) + 1
  <2>1. ASSUME NEW a \in chosen PROVE place(a) = Cardinality(f[a]) + 1
    <3> DEFINE T == {q \in chosen : later(q, a)}
    <3>1. a.i \in Nat /\ a.j \in Nat
      BY <1>3 DEF Pending
    <3>2. a \in T /\ T \in SUBSET chosen
      BY <3>1
    <3>3. f[a] = T \ {a}
      OBVIOUS
    <3> HIDE DEF T, f
    <3>4. IsFiniteSet(T) /\ Cardinality(T) \in Nat
      BY <1>1, <3>2, FS_Subset, FS_CardinalityType
    <3>5. Cardinality(T \ {a}) = Cardinality(T) - 1
      BY <3>2, <3>4, FS_RemoveElement
    <3>. QED  BY <3>3, <3>4, <3>5 DEF T
  <2>. QED  BY <2>1
<1> HIDE DEF f
<1>7. \A k \in 1 .. Cardinality(chosen) : \E a \in chosen : Cardinality(f[a]) = k - 1
  BY <1>1, <1>5, RankExists
<1> HIDE DEF place
<1>8. \A n \in 1 .. N : pick(n) \in chosen
  <2>1. ASSUME NEW n \in 1 .. N PROVE pick(n) \in chosen
    <3>1. PICK a \in chosen : Cardinality(f[a]) = n - 1
      BY <1>7
    <3>2. place(a) = n
      BY <1>6, <3>1
    <3>. QED  BY <3>2
  <2>. QED  BY <2>1
<1> HIDE DEF pick, N
<1>9. /\ DOMAIN Matrix!Batch(ps) = 1 .. N
      /\ \A k \in 1 .. N : Matrix!Batch(ps)[k] \in chosen
  BY <1>4, <1>8
<1>10. Len(Matrix!Batch(ps)) = N
  BY <1>2, <1>4
<1>. QED  BY <1>2, <1>9, <1>10 DEF chosen

-----------------------------------------------------------------------------
(* Polynomials as rows and rows as polynomials.                            *)

LEMMA ShiftFacts ==
  ASSUME NEW p, IsPolynomial(p), p # Zero, NEW m \in Monomial
  PROVE  LET s == Matrix!Shift(p, m)
         IN  IsPolynomial(s) /\ s # Zero /\ LM(s) = Mul(m, LM(p))
<1> DEFINE s == Matrix!Shift(p, m)
           c == P - 1
<1>0. P \in Nat /\ P > 1 /\ c \in Int /\ P - c = 1
  BY PAssumption
<1>1. s = MinusMMultP(Zero, m, c, p)
  BY MatrixAlgebra DEF Matrix!Shift
<1> HIDE DEF c, s
<1>2. IsPolynomial(s)
  BY <1>0, <1>1, ZeroCoef, SubtractIsPolynomial
<1>3. \A t : Coef(s, t) = Multiple(m, p, t)
  <2>1. \A t : Coef(s, t) = ((Coef(Zero, t) + (P - c) * Multiple(m, p, t)) % P)
    BY <1>0, <1>1, ZeroCoef, SubtractCoef
  <2>2. ASSUME NEW t PROVE Coef(s, t) = Multiple(m, p, t)
    <3>1. Multiple(m, p, t) \in 0 .. P - 1
      BY MultipleFacts
    <3> DEFINE x == Multiple(m, p, t)
    <3>2. Coef(s, t) = ((0 + 1 * x) % P)
      BY <1>0, <2>1, ZeroCoef
    <3>3. x \in 0 .. P - 1
      BY <3>1
    <3> HIDE DEF x
    <3>4. 0 + 1 * x = x
      BY <1>0, <3>3
    <3>5. (x % P) = x
      BY <3>3, ModSmall
    <3>. QED  BY <3>2, <3>4, <3>5 DEF x
  <2>. QED  BY <2>2
<1> DEFINE top == Mul(m, LM(p))
<1>4. LM(p) \in Monomial /\ LM(p) \in Support(p) /\ top \in Monomial
  BY LeadingIsLargest, DegMul
<1>5. Coef(s, top) # 0
  <2>1. Multiple(m, p, top) = Coef(p, LM(p))
    BY <1>4, MultipleFacts
  <2>2. Coef(p, LM(p)) # 0
    BY <1>4, CoefFacts
  <2>. QED  BY <1>3, <2>1, <2>2
<1>6. \A t \in Monomial : Coef(s, t) # 0 => t = top \/ Less(t, top)
  BY <1>3, MultipleBelow
<1> HIDE DEF top
<1>7. s # Zero /\ LM(s) = top
  BY <1>2, <1>4, <1>5, <1>6, LeadingIs
<1>. QED  BY <1>2, <1>7 DEF s, top

LEMMA MonicIsPolynomial ==
  ASSUME NEW p, IsPolynomial(p), p # Zero
  PROVE  IsPolynomial(Monic(p)) /\ Monic(p) # Zero /\ LM(Monic(p)) = LM(p)
<1> DEFINE inv == Invert(LC(p))
           D == Support(p)
           terms == [m \in D |-> (inv * p.terms[m]) % P]
<1>0. /\ LC(p) \in 1 .. P - 1 /\ LM(p) \in D /\ IsFiniteSet(D) /\ D \subseteq Monomial
      /\ \A m \in D : p.terms[m] \in 1 .. P - 1
      /\ p = Poly(p.terms)
  BY LeadingIsLargest DEF IsPolynomial, Support
<1>1. inv \in 1 .. P - 1
  BY <1>0, InverseFacts
<1>2. Monic(p) = [terms |-> terms, lm |-> LM(p)]
  BY DEF Monic
<1> HIDE DEF inv
<1>3. terms \in [D -> 1 .. P - 1]
  <2>1. ASSUME NEW m \in D PROVE (inv * p.terms[m]) % P \in 1 .. P - 1
    <3> DEFINE a == p.terms[m]
    <3>1. a \in 1 .. P - 1 /\ P \in Nat
      BY <1>0, PAssumption
    <3> HIDE DEF a
    <3>2. (inv * a) % P # 0 /\ inv * a \in Int
      BY <1>1, <3>1, NoZeroProduct
    <3> DEFINE b == inv * a
    <3>3. b \in Int /\ (b % P) # 0
      BY <3>2
    <3> HIDE DEF b
    <3>4. (b % P) \in 1 .. P - 1
      BY <3>1, <3>3, ModFacts
    <3>. QED  BY <3>4 DEF a, b
  <2>. QED  BY <2>1
<1>7. DOMAIN terms = DOMAIN p.terms
  BY DEF Support
<1> HIDE DEF terms
<1>4. Poly(terms) = [terms |-> terms, lm |-> LM(p)]
  <2>1. \A t, u : DOMAIN t = DOMAIN u => Poly(t).lm = Poly(u).lm
    BY DEF Poly
  <2>2. \A t : Poly(t) = [terms |-> t, lm |-> Poly(t).lm]
    BY DEF Poly
  <2>3. Poly(p.terms).lm = LM(p)
    BY <1>0 DEF LM
  <2>. QED  BY <1>7, <2>1, <2>2, <2>3
<1>5. IsPolynomial(Monic(p)) /\ Support(Monic(p)) = D
  BY <1>0, <1>2, <1>3, <1>4, PolyIsPolynomial
<1>6. Support(Zero) = {}
  BY DEF Support, Zero
<1>. QED  BY <1>0, <1>2, <1>5, <1>6 DEF LM

(* The monomials of the columns. *)
Columns(mons) ==
  /\ mons \in Seq(Monomial)
  /\ \A c, d \in DOMAIN mons : c < d => Less(mons[d], mons[c])

LEMMA ColumnsFacts ==
  ASSUME NEW mons, Columns(mons)
  PROVE  /\ DOMAIN mons = 1 .. Len(mons) /\ Len(mons) \in Nat
         /\ \A c \in 1 .. Len(mons) : mons[c] \in Monomial
         /\ \A c, d \in 1 .. Len(mons) : c <= d => mons[d] = mons[c] \/ Less(mons[d], mons[c])
         /\ \A c, d \in 1 .. Len(mons) : mons[c] = mons[d] => c = d
<1>1. DOMAIN mons = 1 .. Len(mons) /\ Len(mons) \in Nat
  BY DEF Columns
<1>2. \A c \in 1 .. Len(mons) : mons[c] \in Monomial
  BY ElementOfSeq DEF Columns
<1>3. \A c, d \in 1 .. Len(mons) : c < d => Less(mons[d], mons[c])
  BY <1>1 DEF Columns
<1>4. \A c, d \in 1 .. Len(mons) : c <= d => mons[d] = mons[c] \/ Less(mons[d], mons[c])
  <2>1. ASSUME NEW c \in 1 .. Len(mons), NEW d \in 1 .. Len(mons), c <= d, c # d
        PROVE  c < d
    BY <1>1, <2>1
  <2>. QED  BY <1>3, <2>1
<1>5. \A c, d \in 1 .. Len(mons) : mons[c] = mons[d] => c = d
  <2>1. \A c, d \in 1 .. Len(mons) : c = d \/ c < d \/ d < c
    BY <1>1
  <2>2. \A c, d \in 1 .. Len(mons) : c < d => mons[c] # mons[d]
    BY <1>2, <1>3, LessIrreflexive
  <2>. QED  BY <2>1, <2>2
<1>. QED  BY <1>1, <1>2, <1>4, <1>5

LEMMA RowPolyFacts ==
  ASSUME Columns(sorted_mons), NEW r, IsRow(Len(sorted_mons), r), r # EmptyRow
  PROVE  LET p == Matrix!RowPoly(r)
         IN  IsPolynomial(p) /\ p # Zero /\ LM(p) = sorted_mons[LeadingCol(r)]
<1> DEFINE n == Len(sorted_mons)
           D == {sorted_mons[c] : c \in DOMAIN r}
           col(m) == CHOOSE c \in DOMAIN r : sorted_mons[c] = m
           terms == [m \in D |-> r[col(m)]]
           p == Matrix!RowPoly(r)
           top == sorted_mons[LeadingCol(r)]
<1>0. /\ n \in Nat /\ DOMAIN r \subseteq 1 .. n /\ \A c \in DOMAIN r : r[c] \in 1 .. P - 1
      /\ \A c \in 1 .. n : sorted_mons[c] \in Monomial
      /\ \A c, d \in 1 .. n : c <= d => \/ sorted_mons[d] = sorted_mons[c]
                                        \/ Less(sorted_mons[d], sorted_mons[c])
  BY ColumnsFacts DEF IsRow
<1>1. LeadingCol(r) \in DOMAIN r /\ \A c \in DOMAIN r : LeadingCol(r) <= c
  BY <1>0, RowLead
<1>2. p = Poly(terms)
  BY MatrixAlgebra DEF Matrix!RowPoly
<1> HIDE DEF p
<1>3. IsFiniteSet(D) /\ D \subseteq Monomial
  <2>1. IsFiniteSet(DOMAIN r)
    <3>1. IsFiniteSet(1 .. n) /\ DOMAIN r \in SUBSET (1 .. n)
      BY <1>0, UpToFacts
    <3>. QED  BY <3>1, FS_Subset
  <2> DEFINE f == [c \in DOMAIN r |-> sorted_mons[c]]
  <2>2. f \in Surjection(DOMAIN r, D)
    BY DEF Surjection
  <2>3. IsFiniteSet(D)
    <3> HIDE DEF f, D
    <3>. QED  BY <2>1, <2>2, FS_Surjection
  <2>. QED  BY <1>0, <2>3
<1>4. terms \in [D -> 1 .. P - 1]
  <2>1. \A m \in D : col(m) \in DOMAIN r
    OBVIOUS
  <2> HIDE DEF col
  <2>. QED  BY <1>0, <2>1
<1>5. top \in D /\ \A m \in D : m = top \/ Less(m, top)
  <2>1. top \in D
    BY <1>1
  <2>2. ASSUME NEW c \in DOMAIN r PROVE sorted_mons[c] = top \/ Less(sorted_mons[c], top)
    BY <1>0, <1>1
  <2>. QED  BY <2>1, <2>2
<1> HIDE DEF terms, D, top
<1>6. IsPolynomial(p) /\ Support(p) = D
  BY <1>2, <1>3, <1>4, PolyIsPolynomial
<1>7. p # Zero /\ LM(p) = top
  <2>1. top \in Monomial /\ Coef(p, top) # 0
    BY <1>3, <1>5, <1>6, CoefFacts
  <2>2. \A t \in Monomial : Coef(p, t) # 0 => t = top \/ Less(t, top)
    BY <1>5, <1>6, CoefFacts
  <2>. QED  BY <1>6, <2>1, <2>2, LeadingIs
<1>. QED  BY <1>6, <1>7 DEF p, top

LEMMA SumOfOne ==
  ASSUME NEW ps, NEW x, ps[x][1] \in Nat
  PROVE  Matrix!MapThenSumSet(LAMBDA k : ps[k][1], {x}) = ps[x][1]
<1> DEFINE S == {x}
           v == [k \in S |-> ps[k][1]]
<1>0. IsFiniteSet(S) /\ v[x] = ps[x][1] /\ x \in S
  BY FS_Singleton
<1>1. Total(v, S) = ps[x][1]
  <2>1. Total(v, S) = v[x] + Total(v, S \ {x})
    <3>1. \A y \in S : v[y] \in Nat
      OBVIOUS
    <3> HIDE DEF v, S
    <3>. QED  BY <1>0, <3>1, TotalStep
  <2>2. S \ {x} = {} /\ IsFiniteSet({})
    BY FS_EmptySet
  <2>3. Total(v, {}) = 0
    <3>1. SumsOver(v, {})[{}] = 0
      BY <2>2, SumsOverDefined
    <3>. QED  BY <3>1 DEF Total
  <2> HIDE DEF v, S
  <2>. QED  BY <1>0, <2>1, <2>2, <2>3
<1>2. Matrix!MapThenSumSet(LAMBDA k : ps[k][1], S) = Total(v, S)
  <2> DEFINE body(iter, s) == IF s = {} THEN 0 ELSE v[Pick(s)] + iter[s \ {Pick(s)}]
             full(iter, s) == IF s = {} THEN 0 ELSE ps[Pick(s)][1] + iter[s \ {Pick(s)}]
  <2>1. \A iter : \A s \in SUBSET S : body(iter, s) = full(iter, s)
    <3>1. \A s \in SUBSET S : s # {} => Pick(s) \in S
      BY DEF Pick
    <3>2. \A i \in S : v[i] = ps[i][1]
      OBVIOUS
    <3> HIDE DEF v, S
    <3> QED
      BY <3>1, <3>2
  <2> DEFINE Bodies(iter) == [s \in SUBSET S |-> body(iter, s)]
             Fulls(iter) == [s \in SUBSET S |-> full(iter, s)]
  <2>2. \A iter : Bodies(iter) = Fulls(iter)
    <3> HIDE DEF body, full
    <3> QED
      BY <2>1
  <2>3. SumsOver(v, S) = CHOOSE iter : iter = Bodies(iter)
    BY DEF SumsOver
  <2>4. Matrix!MapThenSumSet(LAMBDA k : ps[k][1], S) = (CHOOSE iter : iter = Fulls(iter))[S]
    BY DEF Matrix!MapThenSumSet, Matrix!MapThenFoldSet, Pick
  <2> HIDE DEF Bodies, Fulls
  <2> QED
    BY <2>2, <2>3, <2>4, Zenon DEF Total
<1>. QED  BY <1>1, <1>2

(* Entries of different columns. *)
Entries(n, l, ps) ==
  /\ DOMAIN ps = 1 .. l
  /\ \A k \in 1 .. l : ps[k][1] \in 1 .. P - 1 /\ ps[k][2] \in 1 .. n
  /\ \A k, j \in 1 .. l : ps[k][2] = ps[j][2] => k = j

LEMMA FromPairsFacts ==
  ASSUME NEW n \in Nat, NEW l \in Nat, NEW ps, Entries(n, l, ps)
  PROVE  /\ IsRow(n, Matrix!FromPairs(ps))
         /\ \A c : c \in DOMAIN Matrix!FromPairs(ps) <=> \E k \in 1 .. l : ps[k][2] = c
<1> DEFINE C == {ps[k][2] : k \in 1 .. l}
           here(c) == {k \in DOMAIN ps : ps[k][2] = c}
           sum(c) == Matrix!MapThenSumSet(LAMBDA k : ps[k][1], here(c)) % P
           D == {c \in C : sum(c) # 0}
<1>0. P \in Nat /\ P > 1
  BY PAssumption
<1>5. /\ DOMAIN ps = 1 .. l
      /\ \A k \in 1 .. l : ps[k][1] \in 1 .. P - 1 /\ ps[k][2] \in 1 .. n
      /\ \A k, j \in 1 .. l : ps[k][2] = ps[j][2] => k = j
  BY DEF Entries
<1>1. Matrix!FromPairs(ps) = [c \in D |-> sum(c)]
  BY <1>5 DEF Matrix!FromPairs
<1>2. ASSUME NEW x \in 1 .. l PROVE sum(ps[x][2]) \in 1 .. P - 1
  <2> DEFINE a == ps[x][1]
  <2>1. here(ps[x][2]) = {x}
    BY <1>5
  <2>2. a \in Nat /\ a \in 0 .. P - 1 /\ a # 0
    BY <1>0, <1>5
  <2>3. Matrix!MapThenSumSet(LAMBDA k : ps[k][1], {x}) = a
    BY <2>2, SumOfOne
  <2>4. sum(ps[x][2]) = (a % P)
    BY <2>1, <2>3
  <2> HIDE DEF a, sum
  <2>5. (a % P) = a
    BY <2>2, ModSmall
  <2>. QED  BY <1>0, <2>2, <2>4, <2>5
<1> HIDE DEF sum
<1>3. D = C /\ \A c \in C : sum(c) \in 1 .. P - 1
  <2>1. \A c \in C : sum(c) \in 1 .. P - 1
    BY <1>2
  <2>2. 0 \notin 1 .. P - 1
    OBVIOUS
  <2>. QED  BY <2>1, <2>2
<1>4. C \subseteq 1 .. n
  BY <1>5
<1>6. \A c : c \in C <=> \E k \in 1 .. l : ps[k][2] = c
  OBVIOUS
<1> HIDE DEF C, D
<1>. QED  BY <1>1, <1>3, <1>4, <1>6 DEF IsRow

ColumnOf(mons, m) == CHOOSE c \in DOMAIN mons : mons[c] = m

(* The entries of the row of p. *)
EntriesOf(mons, p) ==
  LET ms == Matrix!Descending(Support(p))
  IN  [k \in DOMAIN ms |-> <<p.terms[ms[k]], ColumnOf(mons, ms[k])>>]

LEMMA RowOfFacts ==
  ASSUME NEW mons, Columns(mons), NEW p, IsPolynomial(p), p # Zero,
         \A m \in Support(p) : \E c \in DOMAIN mons : mons[c] = m
  PROVE  LET r == Matrix!FromPairs(EntriesOf(mons, p))
         IN  IsRow(Len(mons), r) /\ r # EmptyRow /\ mons[LeadingCol(r)] = LM(p)
<1> DEFINE n == Len(mons)
           ms == Matrix!Descending(Support(p))
           l == Cardinality(Support(p))
           ps == EntriesOf(mons, p)
           r == Matrix!FromPairs(ps)
<1>0. /\ DOMAIN mons = 1 .. n /\ n \in Nat
      /\ \A c \in 1 .. n : mons[c] \in Monomial
      /\ \A c, d \in 1 .. n : c <= d => mons[d] = mons[c] \/ Less(mons[d], mons[c])
      /\ \A c, d \in 1 .. n : mons[c] = mons[d] => c = d
  BY ColumnsFacts
<1>1. /\ IsFiniteSet(Support(p)) /\ Support(p) \in SUBSET Monomial
      /\ \A m \in Support(p) : p.terms[m] \in 1 .. P - 1
  BY DEF IsPolynomial, Support
<1>2. /\ l \in Nat /\ DOMAIN ms = 1 .. l
      /\ \A k \in 1 .. l : ms[k] \in Support(p)
      /\ \A m \in Support(p) : \E k \in 1 .. l : ms[k] = m
      /\ \A k, j \in 1 .. l : k < j => Less(ms[j], ms[k])
  BY <1>1, DescendingFacts
<1>3. \A m \in Support(p) : ColumnOf(mons, m) \in 1 .. n /\ mons[ColumnOf(mons, m)] = m
  BY <1>0 DEF ColumnOf
<1>4. /\ DOMAIN ps = 1 .. l
      /\ \A k \in 1 .. l : ps[k][1] = p.terms[ms[k]] /\ ps[k][2] = ColumnOf(mons, ms[k])
  BY <1>2 DEF EntriesOf
<1> HIDE DEF ps, ms, l, n
<1>5. \A k \in 1 .. l : ps[k][1] \in 1 .. P - 1 /\ ps[k][2] \in 1 .. n
  BY <1>1, <1>2, <1>3, <1>4
<1>6. ASSUME NEW k \in 1 .. l, NEW j \in 1 .. l, ps[k][2] = ps[j][2]
      PROVE  k = j
  <2>1. ms[k] = ms[j] /\ ms[k] \in Monomial
    BY <1>1, <1>2, <1>3, <1>4, <1>6
  <2>2. ~(k < j) /\ ~(j < k)
    BY <1>2, <2>1, LessIrreflexive
  <2>. QED  BY <1>2, <2>2
<1> HIDE DEF r
<1>7. IsRow(n, r) /\ \A x : x \in DOMAIN r <=> \E k \in 1 .. l : ps[k][2] = x
  <2>1. \A k, j \in 1 .. l : ps[k][2] = ps[j][2] => k = j
    BY <1>6
  <2>2. n \in Nat /\ l \in Nat /\ Entries(n, l, ps)
    BY <1>0, <1>2, <1>4, <1>5, <2>1 DEF Entries
  <2>3. \A x \in Nat, y \in Nat : \A z : Entries(x, y, z) => IsRow(x, Matrix!FromPairs(z))
    BY FromPairsFacts
  <2>4. \A x \in Nat, y \in Nat : \A z : Entries(x, y, z) =>
          \A d : d \in DOMAIN Matrix!FromPairs(z) <=> \E k \in 1 .. y : z[k][2] = d
    BY FromPairsFacts
  <2>5. IsRow(n, Matrix!FromPairs(ps))
    BY <2>2, <2>3
  <2>6. \A d : d \in DOMAIN Matrix!FromPairs(ps) <=> \E k \in 1 .. l : ps[k][2] = d
    BY <2>2, <2>4
  <2>. QED  BY <2>5, <2>6 DEF r
<1> DEFINE c == ColumnOf(mons, LM(p))
<1>8. LM(p) \in Support(p) /\ \A u \in Support(p) : u = LM(p) \/ Less(u, LM(p))
  BY LeadingIsLargest
<1>9. c \in DOMAIN r /\ c \in 1 .. n /\ mons[c] = LM(p)
  <2>1. PICK k \in 1 .. l : ms[k] = LM(p)
    BY <1>2, <1>8
  <2>2. ps[k][2] = c
    BY <1>4, <2>1
  <2>. QED  BY <1>3, <1>7, <1>8, <2>2
<1>10. ASSUME NEW d \in DOMAIN r PROVE c <= d
  <2>1. d \in 1 .. n /\ mons[d] \in Support(p)
    BY <1>2, <1>3, <1>4, <1>7
  <2>2. mons[d] = mons[c] \/ Less(mons[d], mons[c])
    BY <1>8, <1>9, <2>1
  <2>3. SUFFICES ASSUME d < c PROVE FALSE
    BY <1>0, <1>9, <2>1
  <2>4. d <= c /\ d # c
    BY <1>0, <1>9, <2>1, <2>3
  <2>5. mons[c] # mons[d]
    BY <1>0, <1>9, <2>1, <2>4
  <2>6. Less(mons[c], mons[d]) /\ Less(mons[d], mons[c])
    BY <1>0, <1>9, <2>1, <2>2, <2>4, <2>5
  <2>. QED  BY <1>0, <1>9, <2>1, <2>6, LessTransitive, LessIrreflexive
<1> HIDE DEF c
<1>11. r # EmptyRow /\ LeadingCol(r) = c
  BY <1>0, <1>7, <1>9, <1>10, LeadIs
<1>. QED  BY <1>7, <1>9, <1>11 DEF r, n, ps

-----------------------------------------------------------------------------
(* What the matrix driver knows at each of its phases.                     *)

PolySeq(s) ==
  (\E S : s \in Seq(S)) /\ \A k \in DOMAIN s : IsPolynomial(s[k]) /\ s[k] # Zero

DividedBy(bs, m) == \E i \in DOMAIN bs : Divides(LM(bs[i]), m)

PendingPairs(bs, ps) ==
  /\ IsFiniteSet(ps) /\ ps \subseteq Pending
  /\ \A p \in ps : p.i \in DOMAIN bs /\ p.j \in DOMAIN bs

(* Every covered monomial that the basis reduces leads a row, and the rows *)
(* that have had their turn are covered.                                   *)
RowsCover(bs, ps, cs, k) ==
  /\ PolySeq(ps) /\ k \in 1 .. Len(ps) + 1
  /\ \A m \in cs : DividedBy(bs, m) => \E n \in DOMAIN ps : LM(ps[n]) = m
  /\ \A n \in 1 .. k - 1 : Support(ps[n]) \subseteq cs \cup {LM(ps[n])}

(* A column whose monomial the basis reduces is a pivot of the input. *)
PivotsCover(bs, mons, cols) ==
  \A c \in DOMAIN mons : DividedBy(bs, mons[c]) => c \in cols

Started == matrix_pc \in {"select", "preprocess", "echelon", "rref"}

Assembled ==
  /\ Columns(sorted_mons)
  /\ rows \in Seq(RowSet(Len(sorted_mons)))
  /\ PivotsCover(basis, sorted_mons, input_pivot_cols)

MatrixInv ==
  /\ matrix_pc = "start" => given \in InputSeqs /\ basis = << >>
  /\ Started => PolySeq(basis) /\ PendingPairs(basis, pairs)
  /\ matrix_pc = "preprocess" => RowsCover(basis, row_polys, covered_leads, at)
  /\ matrix_pc \in {"echelon", "rref"} => Assembled
  /\ matrix_pc = "echelon" =>
       at \in 1 .. Len(rows) + 1 /\ \A i \in 1 .. at - 1 : PivotRow(rows, i)
  /\ matrix_pc = "rref" => \E m : Echelon(Len(sorted_mons), rows, m, at)
  /\ matrix_pc \in {"interreduce", "done"} => \E l \in Nat : DOMAIN basis = 1 .. l

LEMMA PolySeqFacts ==
  ASSUME NEW s, PolySeq(s)
  PROVE  /\ DOMAIN s = 1 .. Len(s) /\ Len(s) \in Nat
         /\ \A k \in 1 .. Len(s) : /\ IsPolynomial(s[k]) /\ s[k] # Zero
                                   /\ LM(s[k]) \in Monomial
<1>1. DOMAIN s = 1 .. Len(s) /\ Len(s) \in Nat
  BY DEF PolySeq
<1>. QED  BY <1>1, LeadingIsLargest DEF PolySeq

LEMMA PolySeqIs ==
  ASSUME NEW l \in Nat, NEW s, s = [k \in 1 .. l |-> s[k]],
         \A k \in 1 .. l : IsPolynomial(s[k]) /\ s[k] # Zero
  PROVE  PolySeq(s) /\ Len(s) = l /\ DOMAIN s = 1 .. l
<1> DEFINE S == {s[k] : k \in 1 .. l}
<1>1. s \in [1 .. l -> S]
  OBVIOUS
<1>2. s \in Seq(S) /\ Len(s) = l /\ DOMAIN s = 1 .. l
  <2> HIDE DEF S
  <2>. QED  BY <1>1
<1>. QED  BY <1>2 DEF PolySeq

LEMMA PolySeqConcat ==
  ASSUME NEW s, NEW t, PolySeq(s), PolySeq(t)
  PROVE  /\ PolySeq(s \o t) /\ Len(s \o t) = Len(s) + Len(t)
         /\ DOMAIN (s \o t) = 1 .. Len(s) + Len(t)
         /\ \A k \in 1 .. Len(s) : (s \o t)[k] = s[k]
         /\ \A k \in 1 .. Len(t) : (s \o t)[Len(s) + k] = t[k]
<1>1. PICK S : s \in Seq(S)
  BY DEF PolySeq
<1>2. PICK T : t \in Seq(T)
  BY DEF PolySeq
<1>3. s \in Seq(S \cup T) /\ t \in Seq(S \cup T)
  BY <1>1, <1>2, SeqMonotonic
<1>4. s \o t \in Seq(S \cup T) /\ Len(s \o t) = Len(s) + Len(t)
  BY <1>3
<1>5. /\ DOMAIN s = 1 .. Len(s) /\ Len(s) \in Nat /\ DOMAIN t = 1 .. Len(t) /\ Len(t) \in Nat
      /\ DOMAIN (s \o t) = 1 .. Len(s) + Len(t)
  BY <1>3, <1>4
<1>6. /\ \A k \in 1 .. Len(s) : (s \o t)[k] = s[k]
      /\ \A k \in 1 .. Len(t) : (s \o t)[Len(s) + k] = t[k]
  <2>1. \A k \in 1 .. Len(s) : (s \o t)[k] = s[k]
    BY <1>3, <1>5
  <2>2. ASSUME NEW k \in 1 .. Len(t) PROVE (s \o t)[Len(s) + k] = t[k]
    <3> DEFINE n == Len(s) + k
    <3>1. n \in 1 .. Len(s) + Len(t) /\ ~(n <= Len(s)) /\ n - Len(s) = k
      BY <1>5
    <3> HIDE DEF n
    <3>2. (s \o t)[n] = t[n - Len(s)]
      BY <1>3, <1>5, <3>1
    <3>. QED  BY <3>1, <3>2 DEF n
  <2>. QED  BY <2>1, <2>2
<1>7. ASSUME NEW k \in 1 .. Len(s) + Len(t)
      PROVE  IsPolynomial((s \o t)[k]) /\ (s \o t)[k] # Zero
  <2>1. CASE k \in 1 .. Len(s)
    BY <1>5, <1>6, <2>1 DEF PolySeq
  <2>2. CASE k \notin 1 .. Len(s)
    <3>1. k - Len(s) \in 1 .. Len(t) /\ Len(s) + (k - Len(s)) = k
      BY <1>5, <2>2
    <3>2. (s \o t)[k] = t[k - Len(s)]
      BY <1>6, <3>1
    <3>. QED  BY <1>5, <3>1, <3>2 DEF PolySeq
  <2>. QED  BY <2>1, <2>2
<1>. QED  BY <1>4, <1>5, <1>6, <1>7 DEF PolySeq

LEMMA PairsFromFacts ==
  ASSUME NEW bs, PolySeq(bs), NEW first \in Nat \ {0}
  PROVE  PendingPairs(bs, Matrix!PairsFrom(bs, first))
<1> DEFINE X == {x \in (DOMAIN bs) \X (first .. Len(bs)) : x[1] < x[2]}
           f == [x \in X |-> Matrix!PairItem(bs, x[1], x[2])]
           ps == Matrix!PairsFrom(bs, first)
<1>0. /\ DOMAIN bs = 1 .. Len(bs) /\ Len(bs) \in Nat
      /\ \A k \in 1 .. Len(bs) : LM(bs[k]) \in Monomial
  BY PolySeqFacts
<1>1. \A p : p \in ps <=> \E x \in X : f[x] = p
  BY DEF Matrix!PairsFrom
<1>2. ASSUME NEW x \in X
      PROVE  f[x] \in Pending /\ f[x].i \in DOMAIN bs /\ f[x].j \in DOMAIN bs
  <2> DEFINE a == LM(bs[x[1]])
             b == LM(bs[x[2]])
             d == Deg(Lcm(a, b))
  <2>1. x[1] \in DOMAIN bs /\ x[2] \in DOMAIN bs
    BY <1>0
  <2>2. a \in Monomial /\ b \in Monomial
    BY <1>0, <2>1
  <2>3. d \in Nat
    BY <2>2, LcmFacts, DegType
  <2>4. f[x] = [sugar |-> d, i |-> x[1], j |-> x[2]]
    BY MatrixAlgebra DEF Matrix!PairItem
  <2> HIDE DEF d, f
  <2>. QED  BY <1>0, <2>1, <2>3, <2>4 DEF Pending
<1>3. IsFiniteSet(X)
  <2>1. IsFiniteSet(DOMAIN bs) /\ IsFiniteSet(first .. Len(bs))
    BY <1>0, FS_Interval
  <2> DEFINE Y == (DOMAIN bs) \X (first .. Len(bs))
  <2>2. IsFiniteSet(Y)
    BY <2>1, FS_Product
  <2>3. X \in SUBSET Y
    OBVIOUS
  <2> HIDE DEF Y, X
  <2>. QED  BY <2>2, <2>3, FS_Subset
<1> HIDE DEF X, ps
<1>4. f \in Surjection(X, ps)
  BY <1>1 DEF Surjection
<1>5. IsFiniteSet(ps)
  <2> HIDE DEF f
  <2>. QED  BY <1>3, <1>4, FS_Surjection
<1> HIDE DEF f
<1>. QED  BY <1>1, <1>2, <1>5 DEF PendingPairs, ps

LEMMA SeedRowFacts ==
  ASSUME NEW bs, PolySeq(bs), NEW i \in DOMAIN bs, NEW k \in DOMAIN bs
  PROVE  LET s == Matrix!SeedRow(bs, i, k)
         IN  IsPolynomial(s) /\ s # Zero /\ LM(s) = Lcm(LM(bs[i]), LM(bs[k]))
<1> DEFINE a == LM(bs[i])
           b == LM(bs[k])
           c == Lcm(a, b)
           m == Div(c, a)
           s == Matrix!SeedRow(bs, i, k)
<1>1. IsPolynomial(bs[i]) /\ bs[i] # Zero /\ a \in Monomial /\ b \in Monomial
  BY PolySeqFacts
<1>2. c \in Monomial /\ Divides(a, c)
  BY <1>1, LcmFacts
<1>3. s = Matrix!Shift(bs[i], m)
  BY MatrixAlgebra DEF Matrix!SeedRow
<1> HIDE DEF a, b, c, s
<1>4. m \in Monomial /\ Mul(m, a) = c
  BY <1>1, <1>2, DivFacts, MulDiv
<1> HIDE DEF m
<1>5. IsPolynomial(s) /\ s # Zero /\ LM(s) = Mul(m, LM(bs[i]))
  BY <1>1, <1>3, <1>4, ShiftFacts
<1>. QED  BY <1>4, <1>5 DEF a, b, c, s

LEMMA StartKeepsMatrixInv ==
  ASSUME MatrixInv, Matrix!Start
  PROVE  MatrixInv'
<1> DEFINE K == {k \in DOMAIN given : given[k] # Zero}
           nonzero == Selected(given, K)
           monic == [k \in DOMAIN nonzero |-> Monic(nonzero[k])]
           l == Cardinality(K)
<1>1. /\ matrix_pc = "start"
      /\ basis' = [k \in DOMAIN nonzero |-> Matrix!Monic(nonzero[k])]
      /\ pairs' = Matrix!PairsFrom(basis', 1)
      /\ matrix_pc' = IF basis' = << >> THEN "done" ELSE "select"
  <2>1. /\ \A s, k : Matrix!Selected(s, k) = Selected(s, k)
        /\ Matrix!Zero = Zero
    BY MatrixAlgebra, MatrixElimination
  <2>. QED  BY <2>1 DEF Matrix!Start
<1>2. basis' = monic
  BY <1>1, MatrixAlgebra
<1>3. /\ K \in SUBSET Nat /\ IsFiniteSet(K)
      /\ \A k \in K : IsPolynomial(given[k]) /\ given[k] # Zero
  <2>1. given \in InputSeqs
    BY <1>1 DEF MatrixInv
  <2>2. DOMAIN given = 1 .. Len(given) /\ Len(given) \in Nat
        /\ \A k \in DOMAIN given : IsPolynomial(given[k])
    <3>1. /\ given \in Seq({given[k] : k \in DOMAIN given})
          /\ \A k \in DOMAIN given : IsPolynomial(given[k])
      BY <2>1, InputSeqsAssumption
    <3> DEFINE S == {given[k] : k \in DOMAIN given}
    <3>2. given \in Seq(S)
      BY <3>1
    <3> HIDE DEF S
    <3>3. DOMAIN given = 1 .. Len(given) /\ Len(given) \in Nat
      BY <3>2
    <3>. QED  BY <3>1, <3>3
  <2>3. K \in SUBSET (1 .. Len(given)) /\ IsFiniteSet(1 .. Len(given))
    BY <2>2, UpToFacts
  <2>4. IsFiniteSet(K)
    <3> HIDE DEF K
    <3>. QED  BY <2>3, FS_Subset
  <2>. QED  BY <2>2, <2>3, <2>4
<1> HIDE DEF K
<1>4. /\ l \in Nat /\ DOMAIN nonzero = 1 .. l
      /\ \A n \in 1 .. l : \E k \in K : nonzero[n] = given[k]
  BY <1>3, SelectedFacts
<1> HIDE DEF nonzero, l
<1>5. PolySeq(monic) /\ DOMAIN monic = 1 .. l
  <2>1. \A n \in 1 .. l : IsPolynomial(monic[n]) /\ monic[n] # Zero
    BY <1>3, <1>4, MonicIsPolynomial
  <2>2. monic = [n \in 1 .. l |-> monic[n]]
    BY <1>4
  <2> HIDE DEF monic
  <2>. QED  BY <1>4, <2>1, <2>2, PolySeqIs
<1> HIDE DEF monic
<1>6. PendingPairs(basis', pairs')
  <2>1. \A bs, k : PolySeq(bs) /\ k \in Nat \ {0} => PendingPairs(bs, Matrix!PairsFrom(bs, k))
    BY PairsFromFacts
  <2>2. 1 \in Nat \ {0} /\ PolySeq(basis')
    BY <1>2, <1>5
  <2>. QED  BY <1>1, <2>1, <2>2
<1>. QED  BY <1>1, <1>2, <1>4, <1>5, <1>6 DEF MatrixInv, Started

LEMMA SelectBatchKeepsMatrixInv ==
  ASSUME MatrixInv, Matrix!SelectBatch
  PROVE  MatrixInv'
<1> DEFINE b == Matrix!Batch(pairs)
           seed(n) == LET p == b[(n + 1) \div 2]
                      IN  IF n % 2 = 1 THEN Matrix!SeedRow(basis, p.i, p.j)
                                       ELSE Matrix!SeedRow(basis, p.j, p.i)
           lcm(k) == Lcm(LM(basis[b[k].i]), LM(basis[b[k].j]))
<1>0. /\ matrix_pc = "select" /\ pairs # {} /\ matrix_pc' = "preprocess" /\ at' = 1
      /\ UNCHANGED <<given, basis, rows, sorted_mons, input_pivot_cols, changed, out>>
  BY DEF Matrix!SelectBatch
<1>1. /\ pairs' = pairs \ {b[k] : k \in DOMAIN b}
      /\ row_polys' = [n \in 1 .. 2 * Len(b) |-> seed(n)]
      /\ covered_leads' = {lcm(k) : k \in DOMAIN b}
  BY MatrixAlgebra DEF Matrix!SelectBatch
<1>2. PolySeq(basis) /\ PendingPairs(basis, pairs)
  BY <1>0 DEF MatrixInv, Started
<1>3. PICK l \in Nat : DOMAIN b = 1 .. l /\ Len(b) = l /\ \A k \in 1 .. l : b[k] \in pairs
  BY <1>0, <1>2, BatchFacts DEF PendingPairs
<1>4. \A k \in 1 .. l : b[k].i \in DOMAIN basis /\ b[k].j \in DOMAIN basis
  BY <1>2, <1>3 DEF PendingPairs
<1> HIDE DEF b
<1> DEFINE w == 2 * l
<1>5. w \in Nat /\ \A n \in 1 .. w : (n + 1) \div 2 \in 1 .. l
  OBVIOUS
<1>6. \A n \in 1 .. w : IsPolynomial(seed(n)) /\ seed(n) # Zero
  <2>1. ASSUME NEW n \in 1 .. w PROVE IsPolynomial(seed(n)) /\ seed(n) # Zero
    <3> DEFINE k == (n + 1) \div 2
    <3>1. k \in 1 .. l
      BY <1>5
    <3>2. seed(n) \in {Matrix!SeedRow(basis, b[k].i, b[k].j),
                       Matrix!SeedRow(basis, b[k].j, b[k].i)}
      OBVIOUS
    <3> HIDE DEF k, seed
    <3>3. b[k].i \in DOMAIN basis /\ b[k].j \in DOMAIN basis
      BY <1>4, <3>1
    <3>. QED  BY <1>2, <3>2, <3>3, SeedRowFacts
  <2>. QED  BY <2>1
<1>7. \A k \in 1 .. l : 2 * k - 1 \in 1 .. w /\ LM(seed(2 * k - 1)) = lcm(k)
  <2>1. ASSUME NEW k \in 1 .. l
        PROVE  2 * k - 1 \in 1 .. w /\ LM(seed(2 * k - 1)) = lcm(k)
    <3>1. 2 * k - 1 \in 1 .. w /\ ((2 * k - 1) + 1) \div 2 = k /\ (2 * k - 1) % 2 = 1
      OBVIOUS
    <3>2. seed(2 * k - 1) = Matrix!SeedRow(basis, b[k].i, b[k].j)
      BY <3>1
    <3> HIDE DEF seed, w
    <3>. QED  BY <1>2, <1>4, <3>1, <3>2, SeedRowFacts
  <2>. QED  BY <2>1
<1>8. row_polys' = [n \in 1 .. w |-> seed(n)]
  BY <1>1, <1>3
<1> HIDE DEF seed, w, lcm
<1>9. PolySeq(row_polys') /\ Len(row_polys') = w /\ DOMAIN row_polys' = 1 .. w
  <2> DEFINE f == row_polys'
  <2>1. f = [n \in 1 .. w |-> f[n]] /\ \A n \in 1 .. w : IsPolynomial(f[n]) /\ f[n] # Zero
    BY <1>6, <1>8
  <2> HIDE DEF f
  <2>2. PolySeq(f) /\ Len(f) = w /\ DOMAIN f = 1 .. w
    BY <1>5, <2>1, PolySeqIs
  <2>. QED  BY <2>2 DEF f
<1>10. RowsCover(basis', row_polys', covered_leads', at')
  <2>1. \A m \in covered_leads' : \E n \in DOMAIN row_polys' : LM(row_polys'[n]) = m
    <3>1. ASSUME NEW k \in 1 .. l
          PROVE  \E n \in DOMAIN row_polys' : LM(row_polys'[n]) = lcm(k)
      <4>1. 2 * k - 1 \in DOMAIN row_polys' /\ row_polys'[2 * k - 1] = seed(2 * k - 1)
        BY <1>7, <1>8, <1>9
      <4>. QED  BY <1>7, <4>1
    <3>. QED  BY <1>1, <1>3, <3>1
  <2>2. at' \in 1 .. Len(row_polys') + 1 /\ \A n : n \notin 1 .. at' - 1
    BY <1>0, <1>5, <1>9
  <2>. QED  BY <1>9, <2>1, <2>2 DEF RowsCover
<1>11. PendingPairs(basis', pairs') /\ PolySeq(basis')
  <2>1. pairs' \in SUBSET pairs
    BY <1>1
  <2>2. IsFiniteSet(pairs')
    BY <1>2, <2>1, FS_Subset DEF PendingPairs
  <2>. QED  BY <1>0, <1>2, <2>1, <2>2 DEF PendingPairs
<1>. QED  BY <1>0, <1>10, <1>11 DEF MatrixInv

LEMMA SelectNoneKeepsMatrixInv ==
  ASSUME MatrixInv, Matrix!SelectNone
  PROVE  MatrixInv'
<1>1. matrix_pc = "select" /\ matrix_pc' = "interreduce" /\ basis' = basis
  BY DEF Matrix!SelectNone
<1>2. DOMAIN basis = 1 .. Len(basis) /\ Len(basis) \in Nat
  BY <1>1, PolySeqFacts DEF MatrixInv, Started
<1>. QED  BY <1>1, <1>2 DEF MatrixInv, Started

LEMMA ReducedBy ==
  \A m : Matrix!Divisors(basis, Matrix!NoneRedundant, m) # {} <=> DividedBy(basis, m)
BY MatrixAlgebra DEF Divisors, DividedBy, Matrix!NoneRedundant

LEMMA PreprocessKeepsMatrixInv ==
  ASSUME MatrixInv, Matrix!Preprocess
  PROVE  MatrixInv'
<1> DEFINE p == row_polys[at]
           S == {m \in Support(p) \ ({LM(p)} \cup covered_leads) : DividedBy(basis, m)}
           ms == Matrix!Descending(S)
           l == Cardinality(S)
           by(m) == basis[FirstDivisor(basis, Matrix!NoneRedundant, m)]
           shifted(m) == Matrix!Shift(by(m), Div(m, LM(by(m))))
           new == [k \in DOMAIN ms |-> shifted(ms[k])]
<1>0. /\ matrix_pc = "preprocess" /\ at <= Len(row_polys)
      /\ at' = at + 1
      /\ UNCHANGED <<given, matrix_pc, basis, pairs, rows, sorted_mons, input_pivot_cols,
                     changed, out>>
  BY DEF Matrix!Preprocess
<1>1. /\ PolySeq(basis) /\ PendingPairs(basis, pairs)
      /\ RowsCover(basis, row_polys, covered_leads, at)
  BY <1>0 DEF MatrixInv, Started
<1>2. /\ PolySeq(row_polys) /\ at \in 1 .. Len(row_polys)
      /\ DOMAIN row_polys = 1 .. Len(row_polys) /\ Len(row_polys) \in Nat
      /\ IsPolynomial(p)
  BY <1>0, <1>1, PolySeqFacts DEF RowsCover
<1>3. Matrix!Reductors(p) = ms
  <2>1. {m \in Matrix!Support(p) \ ({Matrix!LM(p)} \cup covered_leads) :
           Matrix!Divisors(basis, Matrix!NoneRedundant, m) # {}} = S
    BY MatrixAlgebra, ReducedBy
  <2>. QED  BY <2>1 DEF Matrix!Reductors
<1>4. /\ row_polys' = row_polys \o new
      /\ covered_leads' = covered_leads \cup (Support(p) \ {LM(p)})
  <2> DEFINE mby(m) == basis[Matrix!FirstDivisor(basis, Matrix!NoneRedundant, m)]
             mshifted(m) == Matrix!Shift(mby(m), Matrix!Div(m, Matrix!LM(mby(m))))
  <2>1. \A m : mshifted(m) = shifted(m)
    BY MatrixAlgebra
  <2>2. row_polys' = row_polys \o
          [k \in DOMAIN Matrix!Reductors(p) |-> mshifted(Matrix!Reductors(p)[k])]
    BY DEF Matrix!Preprocess
  <2>3. covered_leads' = covered_leads \cup (Matrix!Support(p) \ {Matrix!LM(p)})
    BY DEF Matrix!Preprocess
  <2> HIDE DEF mshifted, shifted, ms, p
  <2>. QED  BY <1>3, <2>1, <2>2, <2>3, MatrixAlgebra
<1>5. S \in SUBSET Monomial /\ IsFiniteSet(S)
  <2>1. IsFiniteSet(Support(p)) /\ Support(p) \in SUBSET Monomial
    BY <1>2 DEF IsPolynomial, Support
  <2>2. S \in SUBSET Support(p)
    OBVIOUS
  <2> HIDE DEF S, p
  <2>. QED  BY <2>1, <2>2, FS_Subset
<1>6. \A m \in S : IsPolynomial(shifted(m)) /\ shifted(m) # Zero /\ LM(shifted(m)) = m
  <2>1. ASSUME NEW m \in S
        PROVE  IsPolynomial(shifted(m)) /\ shifted(m) # Zero /\ LM(shifted(m)) = m
    <3> DEFINE b == by(m)
    <3>1. m \in Monomial /\ Divisors(basis, Matrix!NoneRedundant, m) # {}
      <4>1. DividedBy(basis, m) /\ m \in Monomial
        BY <1>5
      <4>. QED  BY <4>1, ReducedBy, MatrixAlgebra
    <3>2. DOMAIN basis \subseteq Nat
      BY <1>1, PolySeqFacts
    <3>3. /\ FirstDivisor(basis, Matrix!NoneRedundant, m) \in DOMAIN basis
          /\ Divides(LM(b), m)
      BY <3>1, <3>2, FirstDivisorFacts
    <3>4. IsPolynomial(b) /\ b # Zero /\ LM(b) \in Monomial
      BY <1>1, <3>3, PolySeqFacts
    <3> HIDE DEF b
    <3>5. Div(m, LM(b)) \in Monomial /\ Mul(Div(m, LM(b)), LM(b)) = m
      BY <3>1, <3>3, <3>4, DivFacts, MulDiv
    <3>6. LET s == Matrix!Shift(b, Div(m, LM(b)))
          IN  IsPolynomial(s) /\ s # Zero /\ LM(s) = m
      BY <3>4, <3>5, ShiftFacts
    <3>. QED  BY <3>6 DEF b
  <2>. QED  BY <2>1
<1>7. /\ l \in Nat /\ DOMAIN ms = 1 .. l
      /\ \A k \in 1 .. l : ms[k] \in S
      /\ \A m \in S : \E k \in 1 .. l : ms[k] = m
  BY <1>5, DescendingFacts, ZenonT(60)
<1> HIDE DEF ms, l
<1>8. PolySeq(new) /\ Len(new) = l /\ DOMAIN new = 1 .. l
  <2>1. new = [k \in 1 .. l |-> new[k]]
        /\ \A k \in 1 .. l : IsPolynomial(new[k]) /\ new[k] # Zero
    <3> HIDE DEF S, shifted
    <3>. QED  BY <1>6, <1>7
  <2> HIDE DEF new
  <2>. QED  BY <1>7, <2>1, PolySeqIs
<1>9. \A m \in S : \E k \in 1 .. l : LM(new[k]) = m
  <2> HIDE DEF S, shifted
  <2>1. \A k \in 1 .. l : new[k] = shifted(ms[k])
    BY <1>7
  <2> HIDE DEF new
  <2>. QED  BY <1>6, <1>7, <2>1
<1> HIDE DEF new
<1>10. /\ PolySeq(row_polys') /\ Len(row_polys') = Len(row_polys) + l
       /\ DOMAIN row_polys' = 1 .. Len(row_polys) + l
       /\ \A k \in 1 .. Len(row_polys) : row_polys'[k] = row_polys[k]
       /\ \A k \in 1 .. l : row_polys'[Len(row_polys) + k] = new[k]
  BY <1>2, <1>4, <1>8, PolySeqConcat
<1>11. ASSUME NEW m \in covered_leads', DividedBy(basis, m)
       PROVE  \E n \in DOMAIN row_polys' : LM(row_polys'[n]) = m
  <2>1. (\E n \in 1 .. Len(row_polys) : LM(row_polys[n]) = m) \/ m \in S
    <3>1. CASE m \in covered_leads
      BY <1>1, <1>2, <1>11, <3>1 DEF RowsCover
    <3>2. CASE m \notin covered_leads
      BY <1>4, <1>11, <3>2
    <3>. QED  BY <3>1, <3>2
  <2>2. ASSUME NEW n \in 1 .. Len(row_polys), LM(row_polys[n]) = m
        PROVE  \E k \in DOMAIN row_polys' : LM(row_polys'[k]) = m
    <3>1. n \in DOMAIN row_polys'
      BY <1>2, <1>7, <1>10
    <3>. QED  BY <1>10, <2>2, <3>1
  <2>3. ASSUME m \in S PROVE \E n \in DOMAIN row_polys' : LM(row_polys'[n]) = m
    <3>1. PICK k \in 1 .. l : LM(new[k]) = m
      BY <1>9, <2>3
    <3>2. Len(row_polys) + k \in DOMAIN row_polys'
      BY <1>2, <1>7, <1>10
    <3>. QED  BY <1>10, <3>1, <3>2
  <2>. QED  BY <2>1, <2>2, <2>3
<1>12. ASSUME NEW n \in 1 .. at' - 1
       PROVE  Support(row_polys'[n]) \subseteq covered_leads' \cup {LM(row_polys'[n])}
  <2>1. n \in 1 .. Len(row_polys) /\ (n \in 1 .. at - 1 \/ n = at)
    BY <1>0, <1>2
  <2>2. row_polys'[n] = row_polys[n]
    BY <1>10, <2>1
  <2>3. CASE n \in 1 .. at - 1
    BY <1>1, <1>4, <2>2, <2>3 DEF RowsCover
  <2>4. CASE n = at
    BY <1>4, <2>2, <2>4
  <2>. QED  BY <2>1, <2>3, <2>4
<1>13. at' \in 1 .. Len(row_polys') + 1
  BY <1>0, <1>2, <1>7, <1>10
<1>14. RowsCover(basis', row_polys', covered_leads', at')
  <2> HIDE DEF S, p
  <2>. QED  BY <1>0, <1>10, <1>11, <1>12, <1>13 DEF RowsCover
<1>. QED  BY <1>0, <1>1, <1>14 DEF MatrixInv, Started

LEMMA AssembleKeepsMatrixInv ==
  ASSUME MatrixInv, Matrix!Assemble
  PROVE  MatrixInv'
<1> DEFINE U == UNION {Support(row_polys[k]) : k \in DOMAIN row_polys}
           mons == Matrix!Descending(U)
           N == Cardinality(U)
           row(k) == Matrix!FromPairs(EntriesOf(mons, row_polys[k]))
<1>0. /\ matrix_pc = "preprocess" /\ at > Len(row_polys)
      /\ at' = 1 /\ matrix_pc' = "echelon"
      /\ UNCHANGED <<given, basis, pairs, row_polys, covered_leads, changed, out>>
  BY DEF Matrix!Assemble
<1>1. /\ PolySeq(basis) /\ PendingPairs(basis, pairs)
      /\ RowsCover(basis, row_polys, covered_leads, at)
  BY <1>0 DEF MatrixInv, Started
<1>2. /\ PolySeq(row_polys) /\ at = Len(row_polys) + 1
      /\ DOMAIN row_polys = 1 .. Len(row_polys) /\ Len(row_polys) \in Nat
      /\ \A k \in 1 .. Len(row_polys) : IsPolynomial(row_polys[k]) /\ row_polys[k] # Zero
  BY <1>0, <1>1, PolySeqFacts DEF RowsCover
<1>3. /\ sorted_mons' = mons
      /\ rows' = [k \in DOMAIN row_polys |-> row(k)]
  <2> DEFINE mset == UNION {Matrix!Support(row_polys[k]) : k \in DOMAIN row_polys}
             mmons == Matrix!Descending(mset)
             mentries(p) == LET ms == Matrix!Descending(Matrix!Support(p))
                            IN  [n \in DOMAIN ms |->
                                   <<p.terms[ms[n]], CHOOSE c \in DOMAIN mmons : mmons[c] = ms[n]>>]
  <2>1. /\ sorted_mons' = mmons
        /\ rows' = [k \in DOMAIN row_polys |-> Matrix!FromPairs(mentries(row_polys[k]))]
    BY DEF Matrix!Assemble
  <2>2. mset = U
    BY MatrixAlgebra
  <2> HIDE DEF mset, U
  <2>3. \A p : mentries(p) = EntriesOf(mons, p)
    BY <2>2, MatrixAlgebra DEF EntriesOf, ColumnOf
  <2> HIDE DEF mentries
  <2>. QED  BY <2>1, <2>2, <2>3
<1>4. input_pivot_cols' = {LeadingCol(rows'[k]) : k \in NonzeroFrom(rows', 1)}
  <2>1. \A rs, k : Matrix!NonzeroFrom(rs, k) = NonzeroFrom(rs, k)
    BY MatrixElimination
  <2>2. \A r : Matrix!LeadingCol(r) = LeadingCol(r)
    BY MatrixElimination
  <2>. QED  BY <2>1, <2>2 DEF Matrix!Assemble
<1>5. U \in SUBSET Monomial /\ IsFiniteSet(U)
  <2> DEFINE T == {Support(row_polys[k]) : k \in DOMAIN row_polys}
             f == [k \in DOMAIN row_polys |-> Support(row_polys[k])]
  <2>1. \A k \in DOMAIN row_polys :
          IsFiniteSet(Support(row_polys[k])) /\ Support(row_polys[k]) \in SUBSET Monomial
    BY <1>2 DEF IsPolynomial, Support
  <2>2. f \in Surjection(DOMAIN row_polys, T)
    BY DEF Surjection
  <2>3. IsFiniteSet(DOMAIN row_polys)
    BY <1>2, UpToFacts
  <2>4. IsFiniteSet(T)
    <3> HIDE DEF f, T
    <3>. QED  BY <2>2, <2>3, FS_Surjection
  <2>5. \A s \in T : IsFiniteSet(s) /\ s \in SUBSET Monomial
    BY <2>1
  <2>6. U = UNION T
    OBVIOUS
  <2> HIDE DEF T, U
  <2>. QED  BY <2>4, <2>5, <2>6, FS_UNION
<1>6. /\ N \in Nat /\ DOMAIN mons = 1 .. N
      /\ mons = [n \in 1 .. N |-> mons[n]]
      /\ \A n \in DOMAIN mons : mons[n] \in U
      /\ \A m \in U : \E n \in DOMAIN mons : mons[n] = m
      /\ \A n, l \in DOMAIN mons : n < l => Less(mons[l], mons[n])
  BY <1>5, DescendingFacts
<1>7. \A k \in 1 .. Len(row_polys) : \A m \in Support(row_polys[k]) : m \in U
  BY <1>2
<1>8. \A m \in U : \E k \in 1 .. Len(row_polys) : m \in Support(row_polys[k])
  BY <1>2
<1> HIDE DEF U, mons, N
<1>9. Columns(mons) /\ Len(mons) = N
  <2>1. mons \in [1 .. N -> Monomial]
    BY <1>5, <1>6
  <2>2. mons \in Seq(Monomial) /\ Len(mons) = N
    BY <1>6, <2>1
  <2>. QED  BY <1>6, <2>2 DEF Columns
<1>10. \A k \in 1 .. Len(row_polys) :
         /\ IsRow(N, row(k)) /\ row(k) # EmptyRow
         /\ mons[LeadingCol(row(k))] = LM(row_polys[k])
  <2>1. ASSUME NEW k \in 1 .. Len(row_polys)
        PROVE  /\ IsRow(N, row(k)) /\ row(k) # EmptyRow
               /\ mons[LeadingCol(row(k))] = LM(row_polys[k])
    <3> DEFINE p == row_polys[k]
    <3>1. IsPolynomial(p) /\ p # Zero
      BY <1>2
    <3>2. \A m \in Support(p) : \E c \in DOMAIN mons : mons[c] = m
      BY <1>6, <1>7
    <3> HIDE DEF p
    <3>3. LET r == Matrix!FromPairs(EntriesOf(mons, p))
          IN  IsRow(Len(mons), r) /\ r # EmptyRow /\ mons[LeadingCol(r)] = LM(p)
      BY <1>9, <3>1, <3>2, RowOfFacts
    <3>. QED  BY <1>9, <3>3 DEF p
  <2>. QED  BY <2>1
<1> HIDE DEF row
<1>11. /\ DOMAIN rows' = 1 .. Len(row_polys) /\ rows' \in Seq(RowSet(N))
       /\ Len(rows') = Len(row_polys)
       /\ \A k \in 1 .. Len(row_polys) : rows'[k] = row(k)
  <2> DEFINE f == rows'
             l == Len(row_polys)
  <2>1. /\ DOMAIN f = 1 .. l /\ f = [k \in DOMAIN f |-> f[k]]
        /\ \A k \in 1 .. l : f[k] = row(k)
    BY <1>2, <1>3
  <2>2. l \in Nat /\ \A k \in 1 .. l : IsRow(N, f[k])
    BY <1>2, <1>10, <2>1
  <2> HIDE DEF f, l
  <2>3. f \in Seq(RowSet(N)) /\ Len(f) = l
    BY <2>1, <2>2, RowsAre
  <2>. QED  BY <2>1, <2>3 DEF f, l
<1>12. ASSUME NEW c \in DOMAIN mons, DividedBy(basis, mons[c])
       PROVE  c \in input_pivot_cols'
  <2>1. PICK k \in 1 .. Len(row_polys) : mons[c] \in Support(row_polys[k])
    BY <1>6, <1>8
  <2>2. \E n \in 1 .. Len(row_polys) : LM(row_polys[n]) = mons[c]
    <3>1. CASE mons[c] = LM(row_polys[k])
      BY <3>1
    <3>2. CASE mons[c] # LM(row_polys[k])
      <4>1. k \in 1 .. at - 1
        BY <1>2
      <4>2. mons[c] \in covered_leads
        BY <1>1, <2>1, <3>2, <4>1 DEF RowsCover
      <4>. QED  BY <1>1, <1>2, <1>12, <4>2 DEF RowsCover
    <3>. QED  BY <3>1, <3>2
  <2>3. PICK n \in 1 .. Len(row_polys) : LM(row_polys[n]) = mons[c]
    BY <2>2
  <2> DEFINE r == row(n)
             d == LeadingCol(r)
  <2>4. IsRow(N, r) /\ r # EmptyRow /\ mons[d] = mons[c] /\ rows'[n] = r
    BY <1>10, <1>11, <2>3
  <2> HIDE DEF r
  <2>5. d \in 1 .. N
    BY <1>6, <2>4, RowLead
  <2>6. \A x, y \in 1 .. N : mons[x] = mons[y] => x = y
    BY <1>9, ColumnsFacts
  <2>7. d = c
    BY <1>6, <2>4, <2>5, <2>6
  <2>8. n \in NonzeroFrom(rows', 1)
    BY <1>2, <1>11, <2>4 DEF NonzeroFrom
  <2>. QED  BY <1>4, <2>4, <2>7, <2>8
<1>13. Assembled'
  <2>1. PivotsCover(basis', sorted_mons', input_pivot_cols')
    BY <1>0, <1>3, <1>12 DEF PivotsCover
  <2>2. Columns(sorted_mons') /\ rows' \in Seq(RowSet(Len(sorted_mons')))
    BY <1>3, <1>9, <1>11
  <2>. QED  BY <2>1, <2>2 DEF Assembled
<1>14. at' \in 1 .. Len(rows') + 1 /\ \A i : i \notin 1 .. at' - 1
  BY <1>0, <1>2, <1>11
<1>. QED  BY <1>0, <1>1, <1>13, <1>14 DEF MatrixInv, Started

LEMMA EchelonKeepsMatrixInv ==
  ASSUME MatrixInv, Matrix!Echelon
  PROVE  MatrixInv'
<1> DEFINE n == Len(sorted_mons)
<1>1. /\ matrix_pc = "echelon" /\ matrix_pc' = "echelon"
      /\ NonzeroFrom(rows, at) # {} /\ rows' = EliminateBelow(rows, at) /\ at' = at + 1
      /\ UNCHANGED <<given, basis, pairs, row_polys, covered_leads, sorted_mons,
                     input_pivot_cols, changed, out>>
  BY MatrixElimination DEF Matrix!Echelon
<1>2. /\ Columns(sorted_mons) /\ rows \in Seq(RowSet(n)) /\ n \in Nat
      /\ at \in 1 .. Len(rows) + 1 /\ \A i \in 1 .. at - 1 : PivotRow(rows, i)
  BY <1>1, ColumnsFacts DEF MatrixInv, Assembled
<1>3. at \in Nat \ {0} /\ at \in 1 .. Len(rows)
  <2>1. Len(rows) \in Nat
    BY <1>2
  <2>. QED  BY <1>1, <1>2, <2>1 DEF NonzeroFrom
<1> HIDE DEF n
<1>4. /\ rows' \in Seq(RowSet(n)) /\ Len(rows') = Len(rows)
      /\ \A i \in 1 .. at : PivotRow(rows', i)
  BY <1>1, <1>2, <1>3, EliminateBelowKeeps
<1>5. at' \in 1 .. Len(rows') + 1 /\ at' - 1 = at
  BY <1>1, <1>3, <1>4
<1>. QED  BY <1>1, <1>2, <1>4, <1>5 DEF MatrixInv, Assembled, Started, n

LEMMA EchelonDoneKeepsMatrixInv ==
  ASSUME MatrixInv, Matrix!EchelonDone
  PROVE  MatrixInv'
<1> DEFINE n == Len(sorted_mons)
           m == at - 1
<1>1. /\ matrix_pc = "echelon" /\ matrix_pc' = "rref"
      /\ NonzeroFrom(rows, at) = {} /\ rows' = ZerosLast(rows) /\ at' = Rank(rows)
      /\ UNCHANGED <<given, basis, pairs, row_polys, covered_leads, sorted_mons,
                     input_pivot_cols, changed, out>>
  BY MatrixElimination DEF Matrix!EchelonDone
<1>2. /\ Columns(sorted_mons) /\ rows \in Seq(RowSet(n)) /\ n \in Nat
      /\ at \in 1 .. Len(rows) + 1 /\ \A i \in 1 .. at - 1 : PivotRow(rows, i)
  BY <1>1, ColumnsFacts DEF MatrixInv, Assembled
<1> HIDE DEF n
<1>3. NonzeroUpTo(rows, m) /\ m \in 0 .. Len(rows) /\ m \in Nat
  BY <1>1, <1>2, PivotsAreNonzero
<1> HIDE DEF m
<1>4. Rank(rows) = m /\ ZerosLast(rows) = rows
  BY <1>2, <1>3, NonzeroRows
<1>5. Echelon(n, rows', m, at')
  <2>1. ClearedAfter(rows, m, m)
    BY <1>3 DEF ClearedAfter
  <2>2. \A i \in 1 .. m : PivotRow(rows, i)
    BY <1>2 DEF m
  <2>3. m \in 0 .. m /\ (m > 0 => m > 0)
    BY <1>3
  <2>. QED  BY <1>1, <1>2, <1>3, <1>4, <2>1, <2>2, <2>3 DEF Echelon
<1>. QED  BY <1>1, <1>2, <1>4, <1>5 DEF MatrixInv, Assembled, Started, n

LEMMA RrefKeepsMatrixInv ==
  ASSUME MatrixInv, Matrix!Rref
  PROVE  MatrixInv'
<1> DEFINE n == Len(sorted_mons)
<1>1. /\ matrix_pc = "rref" /\ matrix_pc' = "rref" /\ at > 1
      /\ rows' = EliminateAbove(rows, at) /\ at' = at - 1
      /\ UNCHANGED <<given, basis, pairs, row_polys, covered_leads, sorted_mons,
                     input_pivot_cols, changed, out>>
  BY MatrixElimination DEF Matrix!Rref
<1>2. Columns(sorted_mons) /\ n \in Nat
  BY <1>1, ColumnsFacts DEF MatrixInv, Assembled
<1>3. PICK m : Echelon(n, rows, m, at)
  BY <1>1 DEF MatrixInv
<1> HIDE DEF n
<1>4. Echelon(n, rows', m, at')
  BY <1>1, <1>2, <1>3, EliminateAboveKeeps
<1>5. rows' \in Seq(RowSet(n))
  BY <1>4 DEF Echelon
<1>. QED  BY <1>1, <1>2, <1>4, <1>5 DEF MatrixInv, Assembled, Started, n

(* The rows that are harvested become elements that no element divides.    *)
LEMMA HarvestFacts ==
  ASSUME MatrixInv, Matrix!Harvest
  PROVE  \E new : /\ basis' = basis \o new /\ PolySeq(new)
                  /\ \A k \in DOMAIN new : ~DividedBy(basis, LM(new[k]))
<1> DEFINE n == Len(sorted_mons)
           K == {k \in NonzeroFrom(rows, 1) : LeadingCol(rows[k]) \notin input_pivot_cols}
           l == Cardinality(K)
           kept == Selected(rows, K)
           poly(r) == Matrix!RowPoly(r)
           new == [k \in DOMAIN kept |-> Monic(poly(kept[k]))]
<1>1. matrix_pc = "rref" /\ Assembled
  BY DEF Matrix!Harvest, MatrixInv
<1>2. Matrix!Harvested(rows) = kept
  <2>1. {k \in Matrix!NonzeroFrom(rows, 1) : Matrix!LeadingCol(rows[k]) \notin input_pivot_cols} = K
    BY MatrixElimination
  <2>. QED  BY <2>1, MatrixElimination DEF Matrix!Harvested
<1>3. basis' = basis \o new
  <2>1. basis' = basis \o [k \in DOMAIN Matrix!Harvested(rows) |->
                             Matrix!Monic(poly(Matrix!Harvested(rows)[k]))]
    BY DEF Matrix!Harvest
  <2> HIDE DEF kept, poly
  <2>. QED  BY <1>2, <2>1, MatrixAlgebra
<1>4. /\ Columns(sorted_mons) /\ n \in Nat /\ DOMAIN sorted_mons = 1 .. n
      /\ DOMAIN rows = 1 .. Len(rows) /\ Len(rows) \in Nat
      /\ \A i \in 1 .. Len(rows) : IsRow(n, rows[i])
  BY <1>1, ColumnsFacts, RowsFacts DEF Assembled
<1>5. /\ K \in SUBSET (1 .. Len(rows)) /\ K \in SUBSET Nat
      /\ \A k \in K : rows[k] # EmptyRow /\ LeadingCol(rows[k]) \notin input_pivot_cols
  BY <1>4 DEF NonzeroFrom
<1> HIDE DEF K
<1>6. IsFiniteSet(K)
  BY <1>4, <1>5, UpToFacts, FS_Subset
<1>7. /\ l \in Nat /\ DOMAIN kept = 1 .. l
      /\ \A k \in 1 .. l : \E i \in K : kept[k] = rows[i]
  BY <1>5, <1>6, SelectedFacts
<1> HIDE DEF kept, l, n
<1>8. ASSUME NEW i \in K
      PROVE  LET p == Monic(poly(rows[i]))
             IN  IsPolynomial(p) /\ p # Zero /\ ~DividedBy(basis, LM(p))
  <2> DEFINE r == rows[i]
             q == poly(r)
  <2>1. IsRow(n, r) /\ r # EmptyRow /\ LeadingCol(r) \notin input_pivot_cols
    BY <1>4, <1>5
  <2>2. LeadingCol(r) \in 1 .. n
    BY <1>4, <2>1, RowLead
  <2> HIDE DEF r
  <2>3. IsPolynomial(q) /\ q # Zero /\ LM(q) = sorted_mons[LeadingCol(r)]
    BY <1>4, <2>1, RowPolyFacts DEF n
  <2>4. IsPolynomial(Monic(q)) /\ Monic(q) # Zero /\ LM(Monic(q)) = LM(q)
    BY <2>3, MonicIsPolynomial
  <2>5. ~DividedBy(basis, sorted_mons[LeadingCol(r)])
    BY <1>1, <1>4, <2>1, <2>2 DEF Assembled, PivotsCover
  <2> HIDE DEF q
  <2>. QED  BY <2>3, <2>4, <2>5 DEF q, r
<1>9. /\ DOMAIN new = 1 .. l /\ new = [k \in 1 .. l |-> new[k]]
      /\ \A k \in 1 .. l : \E i \in K : new[k] = Monic(poly(rows[i]))
  BY <1>7
<1> HIDE DEF new, poly
<1>10. \A k \in 1 .. l : /\ IsPolynomial(new[k]) /\ new[k] # Zero
                         /\ ~DividedBy(basis, LM(new[k]))
  BY <1>8, <1>9
<1>11. PolySeq(new)
  BY <1>7, <1>9, <1>10, PolySeqIs
<1>. QED  BY <1>3, <1>9, <1>10, <1>11

LEMMA HarvestKeepsMatrixInv ==
  ASSUME MatrixInv, Matrix!Harvest
  PROVE  MatrixInv'
<1>1. /\ matrix_pc = "rref" /\ matrix_pc' = "select"
      /\ pairs' = pairs \cup Matrix!PairsFrom(basis', Len(basis) + 1)
  BY DEF Matrix!Harvest
<1>2. PolySeq(basis) /\ PendingPairs(basis, pairs)
  BY <1>1 DEF MatrixInv, Started
<1>3. PICK new : basis' = basis \o new /\ PolySeq(new)
  BY HarvestFacts
<1> DEFINE first == Len(basis) + 1
           more == Matrix!PairsFrom(basis', first)
<1>4. /\ PolySeq(basis') /\ DOMAIN basis = 1 .. Len(basis) /\ Len(basis) \in Nat
      /\ Len(new) \in Nat /\ DOMAIN basis' = 1 .. Len(basis) + Len(new)
  BY <1>2, <1>3, PolySeqFacts, PolySeqConcat
<1>5. DOMAIN basis \subseteq DOMAIN basis' /\ first \in Nat \ {0}
  BY <1>4
<1> HIDE DEF first
<1>6. PendingPairs(basis', more)
  <2>1. \A bs, k : PolySeq(bs) /\ k \in Nat \ {0} => PendingPairs(bs, Matrix!PairsFrom(bs, k))
    BY PairsFromFacts
  <2>. QED  BY <1>4, <1>5, <2>1
<1>7. pairs' = pairs \cup more
  BY <1>1 DEF first
<1> HIDE DEF more
<1>8. PendingPairs(basis', pairs')
  <2>1. IsFiniteSet(pairs) /\ IsFiniteSet(more)
    BY <1>2, <1>6 DEF PendingPairs
  <2>2. IsFiniteSet(pairs')
    BY <1>7, <2>1, FS_Union
  <2>. QED  BY <1>2, <1>5, <1>6, <1>7, <2>2 DEF PendingPairs
<1>. QED  BY <1>1, <1>4, <1>8 DEF MatrixInv

(* Inter-reduction replaces elements, and a sweep drops some. *)
LEMMA InterReduceShrinks ==
  ASSUME MatrixInv, Matrix!InterReduceTerm \/ Matrix!InterReduceNext \/ Matrix!SweepDone
  PROVE  /\ matrix_pc = "interreduce" /\ matrix_pc' \in {"interreduce", "done"}
         /\ \E l \in Nat : DOMAIN basis' = 1 .. l
         /\ DOMAIN basis' \subseteq DOMAIN basis
<1>1. matrix_pc = "interreduce" /\ matrix_pc' \in {"interreduce", "done"}
  BY DEF Matrix!InterReduceTerm, Matrix!InterReduceNext, Matrix!SweepDone
<1>2. PICK n \in Nat : DOMAIN basis = 1 .. n
  BY <1>1 DEF MatrixInv
<1>3. CASE Matrix!InterReduceTerm \/ Matrix!InterReduceNext
  <2>1. DOMAIN basis' = DOMAIN basis
    BY <1>3 DEF Matrix!InterReduceTerm, Matrix!InterReduceNext
  <2>. QED  BY <1>1, <1>2, <2>1
<1>4. CASE Matrix!SweepDone
  <2> DEFINE K == {k \in DOMAIN basis : basis[k] # Zero}
             l == Cardinality(K)
  <2>1. basis' = Selected(basis, K)
    <3>1. Matrix!Zero = Zero /\ \A s, k : Matrix!Selected(s, k) = Selected(s, k)
      BY MatrixAlgebra, MatrixElimination
    <3>. QED  BY <1>4, <3>1 DEF Matrix!SweepDone
  <2>2. K \in SUBSET (1 .. n) /\ K \in SUBSET Nat
    BY <1>2
  <2> HIDE DEF K
  <2>3. IsFiniteSet(K) /\ l <= n
    <3>1. IsFiniteSet(1 .. n) /\ Cardinality(1 .. n) = n
      BY UpToFacts
    <3>. QED  BY <2>2, <3>1, FS_Subset
  <2>4. l \in Nat /\ DOMAIN basis' = 1 .. l
    BY <2>1, <2>2, <2>3, SelectedFacts
  <2> HIDE DEF l
  <2>. QED  BY <1>1, <1>2, <2>3, <2>4
<1>. QED  BY <1>3, <1>4

LEMMA NextKeepsMatrixInv ==
  ASSUME MatrixInv, Matrix!Next
  PROVE  MatrixInv'
<1>1. CASE Matrix!InterReduceTerm \/ Matrix!InterReduceNext \/ Matrix!SweepDone
  BY <1>1, InterReduceShrinks DEF MatrixInv, Started
<1>2. CASE Matrix!Returned
  BY <1>2 DEF Matrix!Returned, Matrix!vars, Matrix!matrixVars, MatrixInv, Started
<1>. QED  BY <1>1, <1>2, StartKeepsMatrixInv, SelectBatchKeepsMatrixInv,
            SelectNoneKeepsMatrixInv, PreprocessKeepsMatrixInv, AssembleKeepsMatrixInv,
            EchelonKeepsMatrixInv, EchelonDoneKeepsMatrixInv, RrefKeepsMatrixInv,
            HarvestKeepsMatrixInv DEF Matrix!Next

(* No step of the matrix driver adds an element that an older one divides. *)
LEMMA LeadersStayNew ==
  ASSUME MatrixInv, Matrix!Next
  PROVE  \A n \in DOMAIN basis' \ DOMAIN basis : \A i \in DOMAIN basis :
           ~Divides(LM(basis[i]), LM(basis'[n]))
<1>1. CASE Matrix!Start
  <2>1. basis = << >>
    BY <1>1 DEF Matrix!Start, MatrixInv
  <2>. QED  BY <2>1
<1>2. CASE Matrix!Harvest
  <2>1. PICK new : /\ basis' = basis \o new /\ PolySeq(new)
                   /\ \A k \in DOMAIN new : ~DividedBy(basis, LM(new[k]))
    BY <1>2, HarvestFacts
  <2>2. PolySeq(basis)
    BY <1>2 DEF Matrix!Harvest, MatrixInv, Started
  <2>3. /\ DOMAIN basis = 1 .. Len(basis) /\ Len(basis) \in Nat
        /\ DOMAIN new = 1 .. Len(new) /\ Len(new) \in Nat
        /\ DOMAIN basis' = 1 .. Len(basis) + Len(new)
        /\ \A k \in 1 .. Len(new) : basis'[Len(basis) + k] = new[k]
    BY <2>1, <2>2, PolySeqFacts, PolySeqConcat
  <2>4. ASSUME NEW n \in DOMAIN basis' \ DOMAIN basis, NEW i \in DOMAIN basis
        PROVE  ~Divides(LM(basis[i]), LM(basis'[n]))
    <3>1. n - Len(basis) \in 1 .. Len(new) /\ Len(basis) + (n - Len(basis)) = n
      BY <2>3
    <3>2. basis'[n] = new[n - Len(basis)]
      BY <2>3, <3>1
    <3>. QED  BY <2>1, <2>3, <3>1, <3>2 DEF DividedBy
  <2>. QED  BY <2>4
<1>3. CASE Matrix!InterReduceTerm \/ Matrix!InterReduceNext \/ Matrix!SweepDone
  BY <1>3, InterReduceShrinks
<1>4. CASE \/ Matrix!SelectBatch \/ Matrix!SelectNone \/ Matrix!Preprocess \/ Matrix!Assemble
           \/ Matrix!Echelon \/ Matrix!EchelonDone \/ Matrix!Rref \/ Matrix!Returned
  <2>1. basis' = basis
    BY <1>4 DEF Matrix!SelectBatch, Matrix!SelectNone, Matrix!Preprocess, Matrix!Assemble,
      Matrix!Echelon, Matrix!EchelonDone, Matrix!Rref, Matrix!Returned, Matrix!vars
  <2>. QED  BY <2>1
<1>. QED  BY <1>1, <1>2, <1>3, <1>4 DEF Matrix!Next

-----------------------------------------------------------------------------
(* The two drivers.                                                        *)

(* While the serial driver has the call the matrix one has not started.    *)
DriversMatrixInv ==
  /\ driver \in {"bba", "f4"}
  /\ IF driver = "f4" THEN MatrixInv ELSE matrix_pc = "start" /\ basis = << >>

LEMMA MatrixInvUnchanged ==
  ASSUME MatrixInv, UNCHANGED <<given, matrixOnly>>
  PROVE  MatrixInv'
BY DEF matrixOnly, MatrixInv, Started, Assembled, RowsCover, Columns

LEMMA StepKeepsMatrixInv ==
  ASSUME DriversMatrixInv, [DriversNext]_driversVars
  PROVE  DriversMatrixInv'
<1>1. CASE BbaTurn
  BY <1>1 DEF BbaTurn, DriversMatrixInv, matrixOnly
<1>2. CASE MatrixTurn
  <2>1. driver = "f4" /\ driver' = driver /\ Matrix!Next /\ MatrixInv
    BY <1>2 DEF MatrixTurn, DriversMatrixInv
  <2>. QED  BY <2>1, NextKeepsMatrixInv DEF DriversMatrixInv
<1>3. CASE UNCHANGED driversVars
  <2>1. UNCHANGED <<driver, given, matrixOnly>>
    BY <1>3 DEF driversVars, vars
  <2>. QED  BY <2>1, MatrixInvUnchanged DEF DriversMatrixInv, matrixOnly
<1>. QED  BY <1>1, <1>2, <1>3 DEF DriversNext

LEMMA DriversMatrix == DriversSpec => []DriversMatrixInv
<1>1. DriversInit => DriversMatrixInv
  BY DEF DriversInit, Matrix!Init, DriversMatrixInv, MatrixInv, Started
<1>2. DriversMatrixInv /\ [DriversNext]_driversVars => DriversMatrixInv'
  BY StepKeepsMatrixInv
<1>. QED  BY <1>1, <1>2, PTL DEF DriversSpec

(* What the matrix driver harvests is in reduced echelon form, whatever    *)
(* the batch and whatever the preprocessing put below it: every pivot is 1 *)
(* and alone in its column, and the pivots move to the right from row to   *)
(* row (gauss.rs:14-92, f4.rs:268-300).                                    *)
THEOREM HarvestedRowsAreReduced == DriversSpec => []HarvestedFromEchelon
<1>1. DriversMatrixInv => HarvestedFromEchelon
  <2>1. SUFFICES ASSUME DriversMatrixInv, matrix_pc = "rref", at <= 1
                 PROVE  Matrix!ReducedEchelon(rows)
    BY DEF HarvestedFromEchelon, Matrix!HarvestedFromEchelon
  <2>2. MatrixInv
    BY <2>1 DEF DriversMatrixInv
  <2>3. Len(sorted_mons) \in Nat
    BY <2>1, <2>2, ColumnsFacts DEF MatrixInv, Assembled
  <2>4. PICK m : Echelon(Len(sorted_mons), rows, m, at)
    BY <2>1, <2>2 DEF MatrixInv
  <2>5. ReducedEchelon(rows)
    BY <2>1, <2>3, <2>4, EchelonIsReduced
  <2>. QED  BY <2>5, MatrixElimination
<1>. QED  BY <1>1, DriversMatrix, PTL

(* Neither driver ever adds an element whose leading monomial an earlier   *)
(* one divides.  The serial one has reduced what it inserts; the matrix    *)
(* one has given every reducible monomial of the batch a row, and a row of *)
(* the reduced matrix that leads there is not harvested (bba.rs:213-230,   *)
(* f4.rs:242-266, 300-318).                                                *)
THEOREM LeadersStayIrreducible == DriversSpec => LeadersAlwaysNew
<1>1. SerialInv /\ [DriversNext]_driversVars =>
        [\A n \in DOMAIN polys' \ DOMAIN polys : \A i \in DOMAIN polys :
           ~Divides(LM(polys[i]), LM(polys'[n]))]_vars
  <2>1. ASSUME SerialInv, [DriversNext]_driversVars,
               NEW n \in DOMAIN polys' \ DOMAIN polys, NEW i \in DOMAIN polys
        PROVE  ~Divides(LM(polys[i]), LM(polys'[n]))
    <3>1. [Next]_vars \/ polys' = polys
      BY <2>1 DEF DriversNext, BbaTurn, MatrixTurn, driversVars, serialOnly
    <3>. QED  BY <2>1, <3>1, StepsGrowLeaders DEF SerialInv
  <2>. QED  BY <2>1
<1>2. DriversMatrixInv /\ [DriversNext]_driversVars =>
        [\A n \in DOMAIN basis' \ DOMAIN basis : \A i \in DOMAIN basis :
           basis # << >> => ~Matrix!Divides(Matrix!LM(basis[i]), Matrix!LM(basis'[n]))]_Matrix!vars
  <2>1. ASSUME DriversMatrixInv, [DriversNext]_driversVars,
               NEW n \in DOMAIN basis' \ DOMAIN basis, NEW i \in DOMAIN basis
        PROVE  ~Divides(LM(basis[i]), LM(basis'[n]))
    <3>1. (driver = "f4" /\ Matrix!Next) \/ basis' = basis
      BY <2>1 DEF DriversNext, BbaTurn, MatrixTurn, driversVars, matrixOnly
    <3>. QED  BY <2>1, <3>1, LeadersStayNew DEF DriversMatrixInv
  <2>. QED  BY <2>1, MatrixAlgebra
<1>. QED
  BY <1>1, <1>2, DriversSerialInv, DriversMatrix, PTL
    DEF DriversSpec, LeadersAlwaysNew, LeadersGrow, Matrix!LeadersAreNew
=============================================================================

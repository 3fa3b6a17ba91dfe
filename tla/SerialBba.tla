------------------------------ MODULE SerialBba ------------------------------
(***************************************************************************)
(* The single-threaded Buchberger driver: compute_gb_serial of             *)
(* src/src/bba.rs, with enterpairs of src/src/gm.rs and the two reducers a *)
(* build may dispatch to.  An initial state fixes the inputs and the       *)
(* reducer of the build; from there on the program is deterministic.  A    *)
(* step is one turn of a reducer's loop or one insertion, the whole of     *)
(* insert_and_generate_pairs_with_sugar.                                   *)
(***************************************************************************)
EXTENDS GebauerMoeller

CONSTANT InputSeqs     \* the sequences of input polynomials to start from

ASSUME InputSeqsAssumption ==
  \A s \in InputSeqs : /\ s \in Seq({s[k] : k \in DOMAIN s})
                        /\ \A k \in DOMAIN s : IsPolynomial(s[k])

VARIABLES
  heap_reducer,       \* the cargo feature: heap or geobucket reducer
  given,              \* the inputs of the call
  input,              \* the inputs that are still to be seeded
  polys, redundant,   \* SBasis: the elements and their flags
  l_set,              \* LSet: the set of live pairs
  next_arrival,
  pc,                 \* "seed", "pop", "reduce", "insert", "finalise", ...
  seeding,            \* whether the reduction at hand is of an input
  lobj,               \* the LObject being reduced
  survivor,           \* the heap reducer's survivor_terms
  tail,               \* the tail reduction: [at, work, done]
  out                 \* the returned basis, at "done"

callVars == <<heap_reducer, given>>
basisVars == <<polys, redundant>>
vars == <<heap_reducer, given, input, polys, redundant, l_set, next_arrival,
          pc, seeding, lobj, survivor, tail, out>>

Init ==
  /\ heap_reducer \in BOOLEAN
  /\ given \in InputSeqs
  /\ input = given
  /\ polys = << >> /\ redundant = << >>
  /\ l_set = {}
  /\ next_arrival = 0
  /\ pc = "seed"
  /\ seeding = TRUE
  /\ lobj = NoObject
  /\ survivor = Zero
  /\ tail = [at |-> 0, work |-> Zero, done |-> Zero]
  /\ out = << >>

-----------------------------------------------------------------------------
(* Where the work comes from.                                              *)

(* Take the next input; a zero polynomial is skipped. *)
SeedNext ==
  /\ pc = "seed" /\ input # << >>
  /\ input' = Tail(input)
  /\ IF Head(input) = Zero
     THEN UNCHANGED <<pc, lobj>>
     ELSE /\ lobj' = LObject(Head(input), Deg(LM(Head(input))))
          /\ pc' = "reduce"
  /\ UNCHANGED <<callVars, basisVars, l_set, next_arrival, seeding, survivor,
                 tail, out>>

SeedDone ==
  /\ pc = "seed" /\ input = << >>
  /\ pc' = "pop"
  /\ seeding' = FALSE
  /\ UNCHANGED <<callVars, input, basisVars, l_set, next_arrival, lobj,
                 survivor, tail, out>>

(* Pop the best pair and build its S-polynomial; a zero one is skipped.    *)
PopPair ==
  /\ pc = "pop" /\ l_set # {}
  /\ LET p == NextPair(l_set)
         s == SPoly(polys[p.i], polys[p.j], p.lcm)
     IN  /\ l_set' = l_set \ {p}
         /\ IF s = Zero
            THEN UNCHANGED <<pc, lobj>>
            ELSE lobj' = LObject(s, p.sugar) /\ pc' = "reduce"
  /\ UNCHANGED <<callVars, input, basisVars, next_arrival, seeding, survivor,
                 tail, out>>

PopNone ==
  /\ pc = "pop" /\ l_set = {}
  /\ tail' = [at |-> 1, work |-> Zero, done |-> Zero]
  /\ pc' = "finalise"
  /\ UNCHANGED <<callVars, input, basisVars, l_set, next_arrival, seeding,
                 lobj, survivor, out>>

-----------------------------------------------------------------------------
(* The reducers.                                                           *)

(* One turn that finds a divisor, the same in both.                        *)
Reduce ==
  /\ pc = "reduce"
  /\ Reducible(polys, redundant, lobj.poly)
  /\ lobj' = ReduceOnce(polys, redundant, lobj)
  /\ UNCHANGED <<callVars, input, basisVars, l_set, next_arrival, pc, seeding,
                 survivor, tail, out>>

Stuck == lobj.poly # Zero /\ ~Reducible(polys, redundant, lobj.poly)

(* Go on with the remainder o: back for more work when it is zero.         *)
Remainder(o) ==
  IF o.poly = Zero
  THEN lobj' = NoObject /\ pc' = IF seeding THEN "seed" ELSE "pop"
  ELSE lobj' = MonicObject(o) /\ pc' = "insert"

(* The geobucket reducer stops at the first leading term without divisor.  *)
GeobucketDone ==
  /\ pc = "reduce" /\ ~heap_reducer
  /\ lobj.poly = Zero \/ Stuck
  /\ Remainder(lobj)
  /\ UNCHANGED <<callVars, input, basisVars, l_set, next_arrival, seeding,
                 survivor, tail, out>>

(* The heap reducer moves such a term to the survivor and goes on with the *)
(* rest, so that its remainder is in normal form throughout.               *)
HeapEmit ==
  /\ pc = "reduce" /\ heap_reducer /\ Stuck
  /\ survivor' = ParkTerm(survivor, LC(lobj.poly), LM(lobj.poly))
  /\ lobj' = [lobj EXCEPT !.poly = DropLeading(@)]
  /\ UNCHANGED <<callVars, input, basisVars, l_set, next_arrival, pc, seeding,
                 tail, out>>

HeapDone ==
  /\ pc = "reduce" /\ heap_reducer /\ lobj.poly = Zero
  /\ Remainder(LObject(survivor, lobj.sugar))
  /\ survivor' = Zero
  /\ UNCHANGED <<callVars, input, basisVars, l_set, next_arrival, seeding,
                 tail, out>>

-----------------------------------------------------------------------------
(* insert_and_generate_pairs_with_sugar.                                   *)

(* SBasis::insert_no_clear: a new element, which nothing covers yet.       *)
Inserted(h) == [polys |-> Append(polys, h), redundant |-> Append(redundant, FALSE)]

(* The candidate pairs of the newest element h of ps: every one that       *)
(* survives the product criterion takes the next arrival.                  *)
Candidates(ps, h, sugar) ==
  LET partners == Partners(ps, redundant, h)
  IN  [k \in DOMAIN partners |->
         MkPair(ps, partners[k], h, sugar, next_arrival + k - 1)]

(* The flags after clear_redundant_for(h). *)
Cleared(ps, flags, h) ==
  [i \in DOMAIN flags |-> flags[i] \/ i \in Covered(ps, flags, h)]

(* Mutant of Insert: the flags are cleared before the pairs are made.      *)
InsertClearFirst ==
  /\ pc = "insert"
  /\ LET h     == Len(polys) + 1
         s     == Inserted(lobj.poly)
         flags == Cleared(s.polys, s.redundant, h)
         all   == Candidates(s.polys, h, lobj.sugar)
         b     == ChainCritB(SelectSeq(all, LAMBDA p : ~flags[p.i]))
     IN  /\ polys' = s.polys
         /\ l_set' = InsertPairs(l_set \ ChainCritL(s.polys, l_set, h), b)
         /\ next_arrival' = next_arrival + Len(b)
         /\ redundant' = flags
  /\ lobj' = NoObject
  /\ pc' = IF seeding THEN "seed" ELSE "pop"
  /\ UNCHANGED <<callVars, input, seeding, survivor, tail, out>>

(* Append the element, enter its pairs, then mark what it covers.  The     *)
(* arrivals advance by the number of pairs merged, not by the number of    *)
(* arrivals handed out.                                                    *)
Insert ==
  /\ pc = "insert"
  /\ LET h == Len(polys) + 1
         s == Inserted(lobj.poly)
         b == ChainCritB(Candidates(s.polys, h, lobj.sugar))
     IN  /\ polys' = s.polys
         /\ l_set' = InsertPairs(l_set \ ChainCritL(s.polys, l_set, h), b)
         /\ next_arrival' = next_arrival + Len(b)
         /\ redundant' = Cleared(s.polys, s.redundant, h)
  /\ lobj' = NoObject
  /\ pc' = IF seeding THEN "seed" ELSE "pop"
  /\ UNCHANGED <<callVars, input, seeding, survivor, tail, out>>

-----------------------------------------------------------------------------
(* tail_reduce_all and the sorted result.                                  *)

(* SBasis::set_redundant and SBasis::replace_poly. *)
SetRedundant(idx, flag) == [redundant EXCEPT ![idx] = flag]
Replaced(idx, new_poly) == [polys EXCEPT ![idx] = new_poly]

(* The flags while an element is tail-reduced: it must not reduce itself.  *)
Hidden == SetRedundant(tail.at, TRUE)

TailNext ==
  /\ pc = "finalise" /\ tail.at <= Len(polys)
  /\ IF redundant[tail.at]
     THEN tail' = [tail EXCEPT !.at = @ + 1] /\ UNCHANGED pc
     ELSE /\ tail' = [tail EXCEPT !.work = DropLeading(polys[tail.at]), !.done = Zero]
          /\ pc' = "tail"
  /\ UNCHANGED <<callVars, input, basisVars, l_set, next_arrival, seeding,
                 lobj, survivor, out>>

(* Cancel the leading term of the rest of the tail, or park it.            *)
TailStep ==
  /\ pc = "tail" /\ tail.work # Zero
  /\ tail' = IF Reducible(polys, Hidden, tail.work)
             THEN [tail EXCEPT !.work = CancelLeading(polys, Hidden, @)]
             ELSE [tail EXCEPT !.work = DropLeading(@),
                               !.done = ParkTerm(@, LC(tail.work), LM(tail.work))]
  /\ UNCHANGED <<callVars, input, basisVars, l_set, next_arrival, pc, seeding,
                 lobj, survivor, out>>

TailEnd ==
  /\ pc = "tail" /\ tail.work = Zero
  /\ LET old == polys[tail.at]
     IN  polys' = Replaced(tail.at, Monic(PrependLeading(LC(old), LM(old), tail.done)))
  /\ tail' = [at |-> tail.at + 1, work |-> Zero, done |-> Zero]
  /\ pc' = "finalise"
  /\ UNCHANGED <<callVars, input, redundant, l_set, next_arrival, seeding,
                 lobj, survivor, out>>

Finish ==
  /\ pc = "finalise" /\ tail.at > Len(polys)
  /\ out' = SortedActive(polys, redundant)
  /\ pc' = "done"
  /\ UNCHANGED <<callVars, input, basisVars, l_set, next_arrival, seeding,
                 lobj, survivor, tail>>

Returned == pc = "done" /\ UNCHANGED vars

Next ==
  \/ SeedNext \/ SeedDone \/ PopPair \/ PopNone
  \/ Reduce \/ GeobucketDone \/ HeapEmit \/ HeapDone
  \/ Insert
  \/ TailNext \/ TailStep \/ TailEnd \/ Finish
  \/ Returned

Spec == Init /\ [][Next]_vars

-----------------------------------------------------------------------------
(* Properties.                                                             *)

(* Outside of an insertion no active element's leading monomial divides    *)
(* that of another: the reducer protects the newcomer, clear_redundant_for *)
(* the older ones (bba.rs:105-113, sbasis.rs:200-219).                     *)
ActiveAntichain ==
  \A i, k \in DOMAIN polys :
    i # k /\ ~redundant[i] /\ ~redundant[k] => ~Divides(LM(polys[i]), LM(polys[k]))

(* The sugar of a working polynomial bounds the degree of its terms with   *)
(* either reducer, the parked terms included, and the sugar of a queued    *)
(* pair that of its lcm (bba.rs:303-322, reducer.rs:349-413).              *)
SugarBoundsDegree ==
  /\ \A m \in Support(lobj.poly) \cup Support(survivor) : Deg(m) <= lobj.sugar
  /\ \A p \in l_set : Deg(p.lcm) <= p.sugar

(* Of two queued pairs of equal sugar the older one comes out first        *)
(* (pair.rs:5-7 and 59-60); the pairs of an element are made when it is    *)
(* inserted, so that the smaller j is the older pair.                      *)
OlderFirst ==
  \A p, q \in l_set : p.sugar = q.sugar /\ p.j < q.j => PairBefore(p, q)

(* The driver terminates because no new leading monomial is a multiple of  *)
(* an earlier one, redundant elements included: the reducer only looks at  *)
(* active ones, but whatever a redundant element divides, a younger active *)
(* one divides too (bba.rs:213-230, 401-434).                              *)
LeadersGrow ==
  [][\A n \in DOMAIN polys' \ DOMAIN polys : \A i \in DOMAIN polys :
       ~Divides(LM(polys[i]), LM(polys'[n]))]_vars
=============================================================================

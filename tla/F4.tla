--------------------------------- MODULE F4 ---------------------------------
(***************************************************************************)
(* The matrix driver: compute_gb_f4 of src/src/f4.rs.  All pairs of the    *)
(* smallest lcm degree are taken at once; symbolic preprocessing collects  *)
(* the rows that reducing them needs, one reduced row-echelon form does    *)
(* the reductions, and rows with a new leading column become elements.     *)
(* There are no criteria and no sugar other than the degree of the lcm.    *)
(* A step is one row of the preprocessing, one pivot of the elimination,   *)
(* or one subtraction of the final inter-reduction.                        *)
(***************************************************************************)
EXTENDS SparseRows, Reduction

CONSTANT InputSeqs     \* the sequences of input polynomials to start from

VARIABLES
  given,               \* the inputs of the call
  pc,                  \* "start", "select", "preprocess", "echelon", ...
  basis,               \* the elements, monic; zeros only during inter_reduce
  pairs,               \* the heap of pending pairs [sugar, i, j], i < j
  row_polys,           \* the polynomials of the matrix
  covered_leads,       \* the monomials that need no further row
  rows,                \* the matrix, once it is assembled
  sorted_mons,         \* the monomial of each column, descending
  input_pivot_cols,    \* the leading columns of the assembled matrix
  at,                  \* the row, pivot or element whose turn it is
  changed,             \* whether this sweep of inter_reduce changed anything
  out                  \* the returned basis, at "done"

matrixVars == <<row_polys, covered_leads, rows, sorted_mons, input_pivot_cols>>
vars == <<given, pc, basis, pairs, matrixVars, at, changed, out>>

Init ==
  /\ given \in InputSeqs
  /\ pc = "start"
  /\ basis = << >> /\ pairs = {}
  /\ row_polys = << >> /\ covered_leads = {}
  /\ rows = << >> /\ sorted_mons = << >> /\ input_pivot_cols = {}
  /\ at = 0
  /\ changed = FALSE
  /\ out = << >>

-----------------------------------------------------------------------------
(* Pairs.                                                                  *)

PairItem(bs, i, j) ==
  [sugar |-> Deg(Lcm(LM(bs[i]), LM(bs[j]))), i |-> i, j |-> j]

(* The pairs of the elements from index first on with everything older.    *)
PairsFrom(bs, first) ==
  {PairItem(bs, ij[1], ij[2]) : ij \in {x \in (DOMAIN bs) \X (first .. Len(bs)) : x[1] < x[2]}}

(* Every pair of the smallest sugar, in the order the heap yields them:    *)
(* the larger j first, then the larger i.                                  *)
Batch(ps) ==
  LET least    == Min({p.sugar : p \in ps})
      later(p, q) == p.j > q.j \/ (p.j = q.j /\ p.i >= q.i)
      chosen   == {p \in ps : p.sugar = least}
      place(p) == Cardinality({q \in chosen : later(q, p)})
  IN  [n \in 1 .. Cardinality(chosen) |-> CHOOSE p \in chosen : place(p) = n]

Shift(p, m) == MinusMMultP(Zero, m, P - 1, p)

(* The two multiples of a pair's elements that meet in their lcm.          *)
SeedRow(bs, i, k) == Shift(bs[i], Div(Lcm(LM(bs[i]), LM(bs[k])), LM(bs[i])))

Start ==
  /\ pc = "start"
  /\ LET nonzero == Selected(given, {k \in DOMAIN given : given[k] # Zero})
         monic   == [k \in DOMAIN nonzero |-> Monic(nonzero[k])]
     IN  /\ basis' = monic
         /\ pairs' = PairsFrom(monic, 1)
         /\ pc' = IF monic = << >> THEN "done" ELSE "select"
  /\ UNCHANGED <<given, matrixVars, at, changed, out>>

SelectBatch ==
  /\ pc = "select" /\ pairs # {}
  /\ \E batch \in {Batch(pairs)} :
       LET seed(n) == LET p == batch[(n + 1) \div 2]
                      IN  IF n % 2 = 1 THEN SeedRow(basis, p.i, p.j)
                                       ELSE SeedRow(basis, p.j, p.i)
       IN  /\ pairs' = pairs \ {batch[k] : k \in DOMAIN batch}
           /\ row_polys' = [n \in 1 .. 2 * Len(batch) |-> seed(n)]
           /\ covered_leads' = {Lcm(LM(basis[batch[k].i]), LM(basis[batch[k].j])) :
                                  k \in DOMAIN batch}
  /\ at' = 1
  /\ pc' = "preprocess"
  /\ UNCHANGED <<given, basis, rows, sorted_mons, input_pivot_cols, changed, out>>

SelectNone ==
  /\ pc = "select" /\ pairs = {}
  /\ at' = 1 /\ changed' = FALSE
  /\ pc' = "interreduce"
  /\ UNCHANGED <<given, basis, pairs, matrixVars, out>>

-----------------------------------------------------------------------------
(* The matrix.                                                             *)

NoneRedundant == [k \in DOMAIN basis |-> FALSE]

Descending(S) ==
  [n \in 1 .. Cardinality(S) |->
     CHOOSE m \in S : Cardinality({l \in S : Less(m, l)}) = n - 1]

(* The monomials below the leading one of p that are met for the first     *)
(* time and that the basis can reduce.                                     *)
Reductors(p) ==
  Descending({m \in Support(p) \ ({LM(p)} \cup covered_leads) :
                Divisors(basis, NoneRedundant, m) # {}})

(* One row of symbolic preprocessing: each such monomial adds the multiple *)
(* of the first element whose leading monomial divides it.                 *)
Preprocess ==
  /\ pc = "preprocess" /\ at <= Len(row_polys)
  /\ \E ms \in {Reductors(row_polys[at])} :
       row_polys' = row_polys \o
         [k \in DOMAIN ms |->
            LET b == basis[FirstDivisor(basis, NoneRedundant, ms[k])]
            IN  Shift(b, Div(ms[k], LM(b)))]
  /\ covered_leads' = covered_leads \cup (Support(row_polys[at]) \ {LM(row_polys[at])})
  /\ at' = at + 1
  /\ UNCHANGED <<given, pc, basis, pairs, rows, sorted_mons, input_pivot_cols,
                 changed, out>>

(* The columns are all monomials of the rows in descending order.          *)
Assemble ==
  /\ pc = "preprocess" /\ at > Len(row_polys)
  /\ \E mons \in {Descending(UNION {Support(row_polys[k]) : k \in DOMAIN row_polys})} :
       LET col_index(m) == CHOOSE c \in DOMAIN mons : mons[c] = m
           entries(p)   == LET ms == Descending(Support(p))
                           IN  [n \in DOMAIN ms |-> <<p.terms[ms[n]], col_index(ms[n])>>]
       IN  /\ sorted_mons' = mons
           /\ rows' = [k \in DOMAIN row_polys |-> FromPairs(entries(row_polys[k]))]
  /\ input_pivot_cols' = {LeadingCol(rows'[k]) : k \in NonzeroFrom(rows', 1)}
  /\ at' = 1
  /\ pc' = "echelon"
  /\ UNCHANGED <<given, basis, pairs, row_polys, covered_leads, changed, out>>

Echelon ==
  /\ pc = "echelon" /\ NonzeroFrom(rows, at) # {}
  /\ rows' = EliminateBelow(rows, at)
  /\ at' = at + 1
  /\ UNCHANGED <<given, pc, basis, pairs, row_polys, covered_leads, sorted_mons,
                 input_pivot_cols, changed, out>>

EchelonDone ==
  /\ pc = "echelon" /\ NonzeroFrom(rows, at) = {}
  /\ rows' = ZerosLast(rows)
  /\ at' = Rank(rows)
  /\ pc' = "rref"
  /\ UNCHANGED <<given, basis, pairs, row_polys, covered_leads, sorted_mons,
                 input_pivot_cols, changed, out>>

(* Back-substitution, from the last pivot up to the second. *)
Rref ==
  /\ pc = "rref" /\ at > 1
  /\ rows' = EliminateAbove(rows, at)
  /\ at' = at - 1
  /\ UNCHANGED <<given, pc, basis, pairs, row_polys, covered_leads, sorted_mons,
                 input_pivot_cols, changed, out>>

(* Mutant of Harvested: every row of the result becomes an element.        *)
HarvestedAll(rs) == Selected(rs, NonzeroFrom(rs, 1))

(* The rows whose leading column no row of the input had.                  *)
Harvested(rs) ==
  Selected(rs, {k \in NonzeroFrom(rs, 1) : LeadingCol(rs[k]) \notin input_pivot_cols})

RowPoly(r) ==
  Poly([m \in {sorted_mons[c] : c \in DOMAIN r} |->
          r[CHOOSE c \in DOMAIN r : sorted_mons[c] = m]])

(* The new elements, each paired with everything before it. *)
Harvest ==
  /\ pc = "rref" /\ at <= 1
  /\ \E new \in {Harvested(rows)} :
       basis' = basis \o [k \in DOMAIN new |-> Monic(RowPoly(new[k]))]
  /\ pairs' = pairs \cup PairsFrom(basis', Len(basis) + 1)
  /\ row_polys' = << >> /\ covered_leads' = {}
  /\ rows' = << >> /\ sorted_mons' = << >> /\ input_pivot_cols' = {}
  /\ pc' = "select"
  /\ UNCHANGED <<given, at, changed, out>>

-----------------------------------------------------------------------------
(* inter_reduce and the sorted result.                                     *)

(* The elements that basis[at] is reduced by: the nonzero others.          *)
Others == [k \in DOMAIN basis |-> k = at \/ basis[k] = Zero]

(* The monomial of basis[at] that is cancelled next: the largest one that  *)
(* another element's leading monomial divides.                             *)
ReducibleTerms(p) == {m \in Support(p) : Divisors(basis, Others, m) # {}}

InterReduceTerm ==
  /\ pc = "interreduce" /\ at <= Len(basis)
  /\ ReducibleTerms(basis[at]) # {}
  /\ \E m \in Maxima(ReducibleTerms(basis[at])) :
       LET b == basis[FirstDivisor(basis, Others, m)]
       IN  basis' = [basis EXCEPT ![at] =
                       MinusMMultP(@, Div(m, LM(b)), Coef(@, m), b)]
  /\ changed' = TRUE
  /\ UNCHANGED <<given, pc, pairs, matrixVars, at, out>>

InterReduceNext ==
  /\ pc = "interreduce" /\ at <= Len(basis)
  /\ ReducibleTerms(basis[at]) = {}
  /\ basis' = [basis EXCEPT ![at] = IF @ = Zero THEN @ ELSE Monic(@)]
  /\ at' = at + 1
  /\ UNCHANGED <<given, pc, pairs, matrixVars, changed, out>>

(* Mutant of SweepDone: the next sweep starts with the flag of this one.   *)
SweepDoneSticky ==
  /\ pc = "interreduce" /\ at > Len(basis)
  /\ basis' = Selected(basis, {k \in DOMAIN basis : basis[k] # Zero})
  /\ IF changed
     THEN at' = 1 /\ UNCHANGED <<pc, out>>
     ELSE /\ out' = SortedActive(basis', [k \in DOMAIN basis' |-> FALSE])
          /\ pc' = "done"
          /\ UNCHANGED at
  /\ UNCHANGED <<given, pairs, matrixVars, changed>>

(* The end of a sweep: zeros are dropped; another sweep if anything        *)
(* changed, and else the elements are sorted ascending.                    *)
SweepDone ==
  /\ pc = "interreduce" /\ at > Len(basis)
  /\ basis' = Selected(basis, {k \in DOMAIN basis : basis[k] # Zero})
  /\ changed' = FALSE
  /\ IF changed
     THEN at' = 1 /\ UNCHANGED <<pc, out>>
     ELSE /\ out' = SortedActive(basis', [k \in DOMAIN basis' |-> FALSE])
          /\ pc' = "done"
          /\ UNCHANGED at
  /\ UNCHANGED <<given, pairs, matrixVars>>

Returned == pc = "done" /\ UNCHANGED vars

Next ==
  \/ Start \/ SelectBatch \/ SelectNone
  \/ Preprocess \/ Assemble \/ Echelon \/ EchelonDone \/ Rref \/ Harvest
  \/ InterReduceTerm \/ InterReduceNext \/ SweepDone
  \/ Returned

Spec == Init /\ [][Next]_vars

-----------------------------------------------------------------------------
(* Properties.                                                             *)

(* What row_echelon and rref leave behind when the rows are harvested      *)
(* (gauss.rs:14-29, 88-92): the harvest reads the leading columns of rows  *)
(* and takes every row for a monic polynomial that no other one can reduce.*)
HarvestedFromEchelon == pc = "rref" /\ at <= 1 => ReducedEchelon(rows)

(* The driver terminates because no harvested leading monomial is a        *)
(* multiple of a leading monomial that the batch could reduce with: the    *)
(* preprocessing has given every such monomial a row (f4.rs:242-266,       *)
(* 300-318).                                                               *)
LeadersAreNew ==
  [][\A n \in DOMAIN basis' \ DOMAIN basis : \A i \in DOMAIN basis :
       basis # << >> => ~Divides(LM(basis[i]), LM(basis'[n]))]_vars
=============================================================================

----------------------------- MODULE SparseRows -----------------------------
(***************************************************************************)
(* The sparse linear algebra of src/src/matrix over the field of P         *)
(* elements.  A SparseRow is the function from the columns of its entries  *)
(* to their nonzero values; a matrix is a sequence of rows.  Rows are      *)
(* numbered from 1 here and from 0 in the code.                            *)
(***************************************************************************)
EXTENDS Polynomials, FiniteSetsExt

EmptyRow == << >>

(* The elements of s at the positions K, in their order. *)
Selected(s, K) ==
  LET nth(n) == CHOOSE k \in K : Cardinality({l \in K : l < k}) = n - 1
  IN  [n \in 1 .. Cardinality(K) |-> s[nth(n)]]

(* SparseRow::from_pairs: entries of the same column are summed, zeros are *)
(* dropped.  The argument is a sequence of pairs <<value, column>>.        *)
FromPairs(pairs) ==
  LET at(c)  == {k \in DOMAIN pairs : pairs[k][2] = c}
      sum(c) == MapThenSumSet(LAMBDA k : pairs[k][1], at(c)) % P
  IN  [c \in {d \in {pairs[k][2] : k \in DOMAIN pairs} : sum(d) # 0} |-> sum(c)]

LeadingCol(r) == Min(DOMAIN r)

Entry(r, c) == IF c \in DOMAIN r THEN r[c] ELSE 0

Scale(r, c) == IF c = 0 THEN EmptyRow ELSE [k \in DOMAIN r |-> (c * r[k]) % P]

(* SparseRow::axpy, r - c * s; entries that cancel are dropped. *)
Axpy(r, c, s) ==
  LET diff(k) == (Entry(r, k) + (P - c) * Entry(s, k)) % P
  IN  [k \in {l \in DOMAIN r \cup DOMAIN s : diff(l) # 0} |-> diff(k)]

-----------------------------------------------------------------------------
(* Gaussian elimination.                                                   *)

NonzeroFrom(rows, k) == {i \in k .. Len(rows) : rows[i] # EmptyRow}

(* The row that becomes the k-th pivot row: of the nonzero rows from k on  *)
(* the first with the smallest leading column.                             *)
PivotSource(rows, k) ==
  LET col == Min({LeadingCol(rows[i]) : i \in NonzeroFrom(rows, k)})
  IN  Min({i \in NonzeroFrom(rows, k) : LeadingCol(rows[i]) = col})

Swapped(s, i, k) == [s EXCEPT ![i] = s[k], ![k] = s[i]]

(* One turn of row_echelon: bring the pivot row to position k, make its    *)
(* leading entry one and clear the column in the rows below.               *)
EliminateBelow(rows, k) ==
  LET at    == Swapped(rows, k, PivotSource(rows, k))
      col   == LeadingCol(at[k])
      pivot == Scale(at[k], Invert(Entry(at[k], col)))
  IN  [i \in DOMAIN rows |-> IF i < k THEN at[i]
                             ELSE IF i = k THEN pivot
                             ELSE Axpy(at[i], Entry(at[i], col), pivot)]

(* The end of row_echelon: the nonzero rows move up and keep their order.  *)
ZerosLast(rows) ==
  LET nonzero == NonzeroFrom(rows, 1)
  IN  Selected(rows, nonzero) \o Selected(rows, DOMAIN rows \ nonzero)

Rank(rows) == Cardinality(NonzeroFrom(rows, 1))

(* Mutant of EliminateAbove: only the row next to the pivot is cleared.    *)
EliminateAboveNext(rows, k) ==
  LET col == LeadingCol(rows[k])
  IN  [rows EXCEPT ![k - 1] = Axpy(@, Entry(@, col), rows[k])]

(* One turn of rref: clear the k-th pivot's column in the rows above it.   *)
EliminateAbove(rows, k) ==
  LET col == LeadingCol(rows[k])
  IN  [i \in DOMAIN rows |->
         IF i < k THEN Axpy(rows[i], Entry(rows[i], col), rows[k]) ELSE rows[i]]

(* Reduced row-echelon form: every pivot is one and alone in its column,   *)
(* the pivots move right from row to row, zero rows are at the bottom, and *)
(* no zero is stored.                                                      *)
ReducedEchelon(rows) ==
  /\ \A i \in DOMAIN rows : \A c \in DOMAIN rows[i] : rows[i][c] # 0
  /\ \A i \in 1 .. Rank(rows) :
       /\ rows[i] # EmptyRow
       /\ rows[i][LeadingCol(rows[i])] = 1
       /\ \A k \in 1 .. Rank(rows) \ {i} : LeadingCol(rows[i]) \notin DOMAIN rows[k]
       /\ i > 1 => LeadingCol(rows[i - 1]) < LeadingCol(rows[i])
=============================================================================

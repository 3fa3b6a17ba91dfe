--------------------------- MODULE PackedMonomial ---------------------------
(***************************************************************************)
(* The packed monomials of src/src/monomial.rs and the masks of            *)
(* src/src/ring.rs.  A word holds BYTES fields of BITS_PER_VAR bits (eight *)
(* of eight in the code).  The last field of the last word caches the      *)
(* total degree, saturated; the fields below it hold the exponents, the    *)
(* last variable's on top, of which the highest bit is a guard.            *)
(*                                                                         *)
(* The module has two registers and applies the operations to them, in a   *)
(* debug build: without debug assertions a product that does not fit is    *)
(* returned corrupted, which the contract of mul leaves to its callers.    *)
(***************************************************************************)
EXTENDS Monomials

CONSTANTS
  BITS_PER_VAR, BYTES,
  W,              \* words of a monomial
  SEV_BITS        \* width of the short exponent vector, 64 in the code

ASSUME PackingAssumption ==
  /\ BITS_PER_VAR \in Nat /\ BITS_PER_VAR > 1
  /\ BYTES \in Nat \ {0} /\ W \in Nat \ {0} /\ SEV_BITS \in Nat \ {0}
  /\ NVars < W * BYTES                      \* Ring::new

VARIABLES a, b, outcome

vars == <<a, b, outcome>>

TwoTo[n \in 0 .. BITS_PER_VAR] == IF n = 0 THEN 1 ELSE 2 * TwoTo[n - 1]

GUARD == TwoTo[BITS_PER_VAR - 1]
MAX_VAR_EXP == GUARD - 1
FIELD == TwoTo[BITS_PER_VAR]

(* What a one in a field of a word is worth, and the range of a word.      *)
Place[k \in 0 .. BYTES] == IF k = 0 THEN 1 ELSE FIELD * Place[k - 1]
WORD == Place[BYTES]

CAP_BYTE == W * BYTES - 1

Word == 0 .. W - 1
Field == 0 .. CAP_BYTE
VarBytes == (CAP_BYTE - NVars) .. (CAP_BYTE - 1)

(* Variables count from 1 here and from 0 in the code.                     *)
ByteIndex(v) == (v - 1) + CAP_BYTE - NVars

Byte(packed, k) == (packed[k \div BYTES] \div Place[k % BYTES]) % FIELD

(* The word with the given fields, the first one lowest.                   *)
WordOf(byte) ==
  LET upTo[k \in 0 .. BYTES] ==
        IF k = 0 THEN 0 ELSE upTo[k - 1] + byte[k - 1] * Place[k - 1]
  IN  upTo[BYTES]

(* The words with the given fields.                                        *)
Pack(byte) == [i \in Word |-> WordOf([k \in 0 .. BYTES - 1 |-> byte[i * BYTES + k]])]

Cap(total) == IF total < FIELD THEN total ELSE FIELD - 1

ExponentAt(t, k) == Byte(t.packed, k) % GUARD

Exponents(t) == [v \in Vars |-> ExponentAt(t, ByteIndex(v))]

SevOf(e) == {(v - 1) % SEV_BITS : v \in {u \in Vars : e[u] > 0}}

(* MonoTerm::from_exponents of exponents that fit.                         *)
FromExponents(e) ==
  [packed |-> Pack([k \in Field |-> IF k = CAP_BYTE THEN Cap(Deg(e))
                                    ELSE IF k \in VarBytes THEN e[k + NVars + 1 - CAP_BYTE]
                                    ELSE 0]),
   sev |-> SevOf(e),
   total_deg |-> Deg(e)]

(* MonoTerm::mul adds the words and sets the degree byte anew.             *)
WordSums(s, t) == [i \in Word |-> (s.packed[i] + t.packed[i]) % WORD]

(* Mutant of Overflows: the guard of the first variable is not in the mask. *)
OverflowsShort(s, t) == \E k \in VarBytes \ {CAP_BYTE - NVars} : Byte(WordSums(s, t), k) >= GUARD

(* Some guard bit is set.                                                  *)
Overflows(s, t) == \E k \in VarBytes : Byte(WordSums(s, t), k) >= GUARD

(* Mutant of Product: the saturated degree bytes are added up.             *)
ProductOfCaps(s, t) ==
  LET total == s.total_deg + t.total_deg
  IN  [packed |-> WordSums(s, t), sev |-> s.sev \cup t.sev, total_deg |-> total]

Product(s, t) ==
  LET total == s.total_deg + t.total_deg
      below == Place[BYTES - 1]
  IN  [packed |-> [WordSums(s, t) EXCEPT ![W - 1] = (@ % below) + Cap(total) * below],
       sev |-> s.sev \cup t.sev,
       total_deg |-> total]

PackedDivides(s, t) == \A k \in VarBytes : ExponentAt(s, k) <= ExponentAt(t, k)

(* MonoTerm::div when t divides s.                                         *)
Quotient(s, t) ==
  LET total == s.total_deg - t.total_deg
      e(k) == ExponentAt(s, k) - ExponentAt(t, k)
  IN  [packed |-> Pack([k \in Field |-> IF k = CAP_BYTE THEN Cap(total)
                                        ELSE IF k \in VarBytes THEN e(k) ELSE 0]),
       sev |-> {(k + NVars - CAP_BYTE) % SEV_BITS : k \in {l \in VarBytes : e(l) > 0}},
       total_deg |-> total]

PackedLcm(s, t) ==
  FromExponents([v \in Vars |-> LET m == Exponents(s)[v]
                                    n == Exponents(t)[v]
                                IN  IF m >= n THEN m ELSE n])

-----------------------------------------------------------------------------
(* The orders.                                                             *)

(* A word with the bits of the mask flipped: every exponent e becomes      *)
(* MAX_VAR_EXP - e.  The ring's mask has the used fields only, the const   *)
(* mask all of them; the unused ones are zero in every monomial.           *)
Flipped(packed, i) ==
  Pack([k \in Field |->
          IF k \in VarBytes THEN Byte(packed, k) + MAX_VAR_EXP - 2 * (Byte(packed, k) % GUARD)
          ELSE Byte(packed, k)])[i]

(* Of the words in the sequence order, the first that differ decide.       *)
WordsLess(s, t, order) ==
  \E n \in DOMAIN order :
    /\ Flipped(s, order[n]) < Flipped(t, order[n])
    /\ \A m \in 1 .. n - 1 : Flipped(s, order[m]) = Flipped(t, order[m])

Downwards == [n \in 1 .. W |-> W - n]

(* Mutant of TopWordLast: the last word is left out.                       *)
LowWordsOnly == [n \in 1 .. W - 1 |-> W - 1 - n]

(* The order of the words in the saturated branch: W - 2 down to 0, and    *)
(* then W - 1 without its degree byte.                                     *)
TopWordLast == [n \in 1 .. W |-> IF n = W THEN W - 1 ELSE W - 1 - n]

Saturated(t) == Byte(t.packed, CAP_BYTE) = FIELD - 1

Uncapped(packed) == [packed EXCEPT ![W - 1] = @ % Place[BYTES - 1]]

(* cmp_degrevlex_packed.                                                   *)
CmpLess(s, t) ==
  IF Saturated(s) \/ Saturated(t)
  THEN \/ s.total_deg < t.total_deg
       \/ /\ s.total_deg = t.total_deg
          /\ WordsLess(Uncapped(s.packed), Uncapped(t.packed), TopWordLast)
  ELSE WordsLess(s.packed, t.packed, Downwards)

(* Monomial::cmp_key, compared the way the heap compares it.               *)
KeyLess(s, t) == WordsLess(s.packed, t.packed, Downwards)

(* OddElimTerm: the sum of the odd-indexed exponents (counted from 0).     *)
BlockSum(t) == Deg([v \in Vars |-> IF v % 2 = 0 THEN Exponents(t)[v] ELSE 0])

ElimLess(s, t) ==
  \/ BlockSum(s) < BlockSum(t)
  \/ BlockSum(s) = BlockSum(t) /\ CmpLess(s, t)

ElimKeyLess(s, t) ==
  \/ BlockSum(s) < BlockSum(t)
  \/ BlockSum(s) = BlockSum(t) /\ KeyLess(s, t)

-----------------------------------------------------------------------------
(* Two registers.                                                          *)

Packed == {FromExponents(e) : e \in [Vars -> 0 .. MAX_VAR_EXP]}

Init == a \in Packed /\ b \in Packed /\ outcome = "ok"

Become(t) == a' = t /\ outcome' = "ok" /\ UNCHANGED b
Answer(o) == outcome' = o /\ UNCHANGED <<a, b>>

MulBy == ~Overflows(a, b) /\ Become(Product(a, b))

MulPanics == Overflows(a, b) /\ Answer("panic")

DivBy == PackedDivides(b, a) /\ b.total_deg <= a.total_deg /\ Become(Quotient(a, b))

DivNone == ~(PackedDivides(b, a) /\ b.total_deg <= a.total_deg) /\ Answer("none")

LcmWith == Become(PackedLcm(a, b))

(* The divisor test of find_divisor_idx and of the chain criteria: the     *)
(* short exponent vectors first.                                           *)
Divide ==
  Answer(IF a.sev \subseteq b.sev /\ PackedDivides(a, b) THEN "divides" ELSE "none")

Swap == a' = b /\ b' = a /\ outcome' = "ok"

Next == MulBy \/ MulPanics \/ DivBy \/ DivNone \/ LcmWith \/ Divide \/ Swap

Spec == Init /\ [][Next]_vars

-----------------------------------------------------------------------------
(* Properties.                                                             *)

(* assert_canonical (monomial.rs:452-494): the caches are those of the     *)
(* exponents, whichever operations a monomial comes from, so that equality *)
(* and hashing of the words is equality of the monomials.                  *)
TypeOK == a = FromExponents(Exponents(a)) /\ b = FromExponents(Exponents(b))

Exact == INSTANCE ExactMonomials WITH a <- Exponents(a), b <- Exponents(b)

(* The operations on words are the exact operations on exponents, every    *)
(* overflow is caught, and the short exponent vectors reject no divisor.   *)
ImplementsExact == Exact!Spec

(* While no degree byte is saturated, the comparison of the words, and of  *)
(* the keys that the reducer's heap compares, is the degree reverse        *)
(* lexicographic order (monomial.rs:82-104, 345-379).                      *)
OrderBelowCap ==
  ~Saturated(a) /\ ~Saturated(b) =>
    LET ea == Exponents(a)
        eb == Exponents(b)
    IN  /\ CmpLess(a, b) <=> Less(ea, eb)
        /\ KeyLess(a, b) <=> Less(ea, eb)
        /\ ElimKeyLess(a, b) <=> ElimLess(a, b)

(* Saturated or not, one of two different monomials is the smaller one,    *)
(* for the comparison as for the keys: pop_with_cancellation takes terms   *)
(* of equal keys for terms of one monomial (reducer.rs:428-474).           *)
OrdersTotal ==
  LET same == Exponents(a) = Exponents(b)
  IN  /\ same <=> ~CmpLess(a, b) /\ ~CmpLess(b, a)
      /\ same <=> ~KeyLess(a, b) /\ ~KeyLess(b, a)

(* What every sorted term list and every heap of terms rests on.           *)
OrdersSound == OrderBelowCap /\ OrdersTotal

(* The comparison is the graded reverse lexicographic order, as            *)
(* GrevLexTerm says of itself (monomial.rs:513).                           *)
GradedRevLex == CmpLess(a, b) <=> Less(Exponents(a), Exponents(b))
=============================================================================

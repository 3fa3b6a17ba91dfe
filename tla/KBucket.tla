------------------------------ MODULE KBucket ------------------------------
(***************************************************************************)
(* The geobucket of src/src/kbucket.rs: a polynomial kept as a sum of      *)
(* slots of growing capacity.  A step is one turn of the cascade of absorb *)
(* or of the scan of leading().  The value of the bucket is the sum of its *)
(* slots and of the polynomial a cascade still carries.                    *)
(*                                                                         *)
(* An empty slot and a slot with the zero polynomial are the same here,    *)
(* and so are all nonzero values of the mask of dirty slots: only whether  *)
(* it is zero is ever asked.                                               *)
(***************************************************************************)
EXTENDS Polynomials, FiniteSetsExt

CONSTANTS
  NUM_SLOTS, SLOT_BASE,
  Multipliers, Subtrahends,   \* the monomials and polynomials it is used with
  MaxDeg,                     \* bound of the model: the degree of the bucket
  Nothing                     \* no cached term, no question, no answer

ASSUME SlotsAssumption == NUM_SLOTS \in Nat \ {0} /\ SLOT_BASE \in Nat \ {0, 1}

ASSUME OperandsAssumption ==
  /\ Multipliers \subseteq Monomial
  /\ \A p \in Subtrahends : IsPolynomial(p)

ASSUME NothingAssumption == Nothing \notin {"leading", "extract"}

VARIABLES
  slots,     \* the polynomials
  lm_cache,  \* Nothing or [c, m, slot]
  dirty,     \* whether a slot changed since the cache was filled
  carry,     \* the polynomial a cascade has not placed yet
  asked,     \* the call in progress: "leading", "extract" or Nothing
  answer     \* its result, until the next call

vars == <<slots, lm_cache, dirty, carry, asked, answer>>

Slot == 0 .. NUM_SLOTS - 1
Coefficients == 1 .. P - 1

Terms(p) == Cardinality(Support(p))

(* What leading() and extract_leading() answer for zero; LObject keeps a   *)
(* coefficient of zero for it.                                             *)
None == [c |-> 0, m |-> One]

(* How many terms a slot may hold: SLOT_BASE to the power of its index.    *)
Capacity[i \in Slot] == IF i = 0 THEN 1 ELSE SLOT_BASE * Capacity[i - 1]

(* The smallest slot with room for n terms, or else the last.              *)
SlotForLen(n) ==
  CHOOSE i \in Slot : /\ i = NUM_SLOTS - 1 \/ Capacity[i] >= n
                      /\ \A k \in 0 .. i - 1 : Capacity[k] < n

Add(p, q) == MinusMMultP(p, One, P - 1, q)

(* KBucket::from_poly, and KBucket::new when p is zero.                    *)
FromPoly(p) == [i \in Slot |-> IF i = SlotForLen(Terms(p)) THEN p ELSE Zero]

Init ==
  /\ \E p \in Subtrahends \cup {Zero} : slots = FromPoly(p) /\ dirty = (p # Zero)
  /\ lm_cache = Nothing
  /\ carry = Zero
  /\ asked = Nothing /\ answer = Nothing

Idle == carry = Zero /\ asked = Nothing

(* Mutant of Place: no cascade.                                            *)
PlaceHere(i, merged) ==
  /\ slots' = [slots EXCEPT ![i] = merged] /\ carry' = Zero
  /\ dirty' = TRUE
  /\ lm_cache' = Nothing

(* Mutant of Place: the slot is read and not taken.                        *)
PlaceUntaken(i, merged) ==
  /\ IF SlotForLen(Terms(merged)) = i
     THEN slots' = [slots EXCEPT ![i] = merged] /\ carry' = Zero
     ELSE carry' = merged /\ UNCHANGED slots
  /\ dirty' = TRUE
  /\ lm_cache' = Nothing

(* The merged polynomial of slot i stays there or is carried on.           *)
Place(i, merged) ==
  /\ IF SlotForLen(Terms(merged)) = i
     THEN slots' = [slots EXCEPT ![i] = merged] /\ carry' = Zero
     ELSE slots' = [slots EXCEPT ![i] = Zero] /\ carry' = merged
  /\ dirty' = TRUE
  /\ lm_cache' = Nothing

(* minus_m_mult_p, which does nothing when c or p is zero.                 *)
Minus_m_mult_p(m, c, p) ==
  /\ Idle
  /\ LET i == SlotForLen(Terms(p))
     IN  Place(i, MinusMMultP(slots[i], m, c, p))
  /\ answer' = Nothing
  /\ UNCHANGED asked

(* One turn of the cascade: the carried polynomial meets a slot.           *)
Absorb ==
  /\ carry # Zero
  /\ LET i == SlotForLen(Terms(carry))
     IN  Place(i, Add(slots[i], carry))
  /\ UNCHANGED <<asked, answer>>

-----------------------------------------------------------------------------
(* The leading term.                                                       *)

Ask(call) ==
  /\ Idle
  /\ asked' = call
  /\ answer' = Nothing
  /\ UNCHANGED <<slots, lm_cache, dirty, carry>>

Cached == ~dirty /\ lm_cache # Nothing

(* The slots whose leading monomial is the largest, their leading          *)
(* coefficients summed, and the first of them.                             *)
Tops ==
  LET used == {i \in Slot : slots[i] # Zero}
  IN  {i \in used : \A k \in used : ~Less(LM(slots[i]), LM(slots[k]))}

TopSum == MapThenSumSet(LAMBDA i : LC(slots[i]), Tops) % P

Best == CHOOSE i \in Tops : \A k \in Tops : i <= k

Peeled(S) == [i \in Slot |-> IF i \in S THEN DropLeading(slots[i]) ELSE slots[i]]

(* Mutant of Peel: only the slot that the maximum was found in is peeled.  *)
PeelBest ==
  /\ asked # Nothing /\ ~Cached
  /\ Tops # {} /\ TopSum = 0
  /\ slots' = Peeled({Best})
  /\ lm_cache' = Nothing
  /\ UNCHANGED <<dirty, carry, asked, answer>>

(* The largest leading terms cancel: they are peeled off, and the scan     *)
(* begins again.                                                           *)
Peel ==
  /\ asked # Nothing /\ ~Cached
  /\ Tops # {} /\ TopSum = 0
  /\ slots' = Peeled(Tops)
  /\ lm_cache' = Nothing
  /\ UNCHANGED <<dirty, carry, asked, answer>>

(* The call ends with a leading term, which extract_leading removes from   *)
(* every slot that has it.                                                 *)
Deliver(term) ==
  /\ answer' = [c |-> term.c, m |-> term.m]
  /\ asked' = Nothing
  /\ IF asked = "leading"
     THEN lm_cache' = term /\ dirty' = FALSE /\ UNCHANGED slots
     ELSE /\ slots' = Peeled({i \in Slot : slots[i] # Zero /\ LM(slots[i]) = term.m})
          /\ lm_cache' = Nothing /\ dirty' = TRUE
  /\ UNCHANGED carry

FromCache ==
  /\ asked # Nothing /\ Cached
  /\ Deliver(lm_cache)

FromScan ==
  /\ asked # Nothing /\ ~Cached
  /\ Tops # {} /\ TopSum # 0
  /\ Deliver([c |-> TopSum, m |-> LM(slots[Best]), slot |-> Best])

NoTerm ==
  /\ asked # Nothing /\ ~Cached
  /\ Tops = {}
  /\ answer' = None
  /\ asked' = Nothing
  /\ dirty' = FALSE /\ lm_cache' = Nothing
  /\ UNCHANGED <<slots, carry>>

Fits(m, p) == Deg(m) + Deg(LM(p)) <= MaxDeg

Call ==
  \/ \E m \in Multipliers, c \in Coefficients, p \in Subtrahends :
       Fits(m, p) /\ Minus_m_mult_p(m, c, p)
  \/ Ask("leading") \/ Ask("extract")

Turn == Absorb \/ Peel \/ FromCache \/ FromScan \/ NoTerm

Next == Call \/ Turn

Spec == Init /\ [][Next]_vars

-----------------------------------------------------------------------------
(* Properties.                                                             *)

(* into_poly: the value of the bucket, with what a cascade carries.        *)
Value ==
  LET coef(t) == (Coef(carry, t) + MapThenSumSet(LAMBDA i : Coef(slots[i], t), Slot)) % P
      used == Support(carry) \cup UNION {Support(slots[i]) : i \in Slot}
  IN  Poly([t \in {u \in used : coef(u) # 0} |-> coef(t)])

(* assert_canonical (kbucket.rs:494-536): every slot is within its         *)
(* capacity (the last one takes what no other can), and the cache points   *)
(* at a slot with its monomial in front.                                   *)
TypeOK ==
  /\ \A i \in Slot : slots[i] # Zero => SlotForLen(Terms(slots[i])) <= i
  /\ lm_cache # Nothing =>
       /\ lm_cache.c \in Coefficients
       /\ slots[lm_cache.slot] # Zero /\ LM(slots[lm_cache.slot]) = lm_cache.m
  /\ asked \in {"leading", "extract", Nothing}

(* Every turn of a cascade that has to go on, whether to a larger slot or  *)
(* to a smaller one, leaves one slot less occupied, so that it ends within *)
(* NUM_SLOTS turns (kbucket.rs:210-216).                                   *)
Occupied == {i \in Slot : slots[i] # Zero}

CascadeShrinks ==
  [][carry # Zero /\ carry' # Zero
       => Cardinality(Occupied') < Cardinality(Occupied)]_vars

Exact == INSTANCE Accumulator WITH
           sum <- Value,
           asked <- IF carry # Zero THEN "subtract" ELSE asked
=============================================================================

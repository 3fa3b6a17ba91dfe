------------------------------ MODULE PolyList ------------------------------
(***************************************************************************)
(* The linked-list backend, src/src/poly/poly_list.rs: a polynomial is a   *)
(* handle on a chain of heap nodes, and the consuming operations splice    *)
(* the nodes of their operands into the result through raw pointers.  A    *)
(* caller holds two polynomials and stores the result of a call in the     *)
(* first.  A step is one turn of a merge loop, or the whole of a call      *)
(* that only walks one chain.                                              *)
(***************************************************************************)
EXTENDS TermLists

CONSTANTS
  InitialPolys,          \* what the caller starts with
  Multipliers,           \* the monomials it multiplies by
  TermSeqs,              \* the term sequences it builds polynomials from
  MaxDeg,                \* bound of the model: the ring's room for degrees
  MaxCalls               \* bound of the model: calls of one caller

(* from_descending_terms_unchecked is given canonical terms, from_terms    *)
(* any.                                                                    *)
ASSUME InputsAssumption ==
  /\ \A p \in InitialPolys : p \in Seq(TermSpace) /\ CanonicalTerms(p)
  /\ \A ts \in TermSeqs : ts \in Seq(TermSpace)
  /\ Multipliers \subseteq Monomial

VARIABLES
  mem,                   \* the live nodes: address -> [c, m, next]
  x, y,                  \* handles [head, len, lead]
  merge,                 \* the locals of a merge in progress, or << >>
  request,               \* the latest call
  calls

memVars == <<mem, x, y>>
vars == <<mem, x, y, merge, request, calls>>

Null == 0
Idle == merge = << >>

-----------------------------------------------------------------------------
(* Chains and handles.                                                     *)

(* The addresses of the chain that starts at a, cut off after more nodes   *)
(* than there are: a dangling or a cyclic chain is seen as such.           *)
Chain(mm, a) ==
  LET at[k \in 1 .. Cardinality(DOMAIN mm) + 1] ==
        IF k = 1 THEN a
        ELSE IF at[k - 1] \in DOMAIN mm THEN mm[at[k - 1]].next ELSE Null
  IN  [k \in 1 .. Cardinality({l \in DOMAIN at : at[l] # Null}) |-> at[k]]

Term(c, m) == [c |-> c, m |-> m]

Node(t, next) == [c |-> t.c, m |-> t.m, next |-> next]

(* iter. *)
Terms(mm, a) ==
  LET chain == Chain(mm, a)
  IN  [k \in DOMAIN chain |-> Term(mm[chain[k]].c, mm[chain[k]].m)]

(* refresh_cache. *)
LeadAt(mm, a) == IF a = Null THEN << >> ELSE <<mm[a].c, mm[a].m>>

Handle(mm, a, n) == [head |-> a, len |-> n, lead |-> LeadAt(mm, a)]

ZeroPoly == [head |-> Null, len |-> 0, lead |-> << >>]

IsZero(p) == p.head = Null

(* alloc. *)
WithNode(mm, a, t) == [b \in DOMAIN mm \cup {a} |-> IF b = a THEN Node(t, Null) ELSE mm[b]]

(* dealloc of a set of nodes. *)
Freed(mm, cells) == [b \in DOMAIN mm \ cells |-> mm[b]]

(* Drop. *)
Dropped(mm, p) == Freed(mm, Range(Chain(mm, p.head)))

(* The n least unused addresses.  Box::new may return any address that no  *)
(* live node has, one that was freed before included; which one it is does *)
(* not matter, as addresses are only compared with each other.             *)
FreshCells(mm, n) ==
  LET unused == (1 .. Cardinality(DOMAIN mm) + n) \ DOMAIN mm
  IN  [k \in 1 .. n |->
         CHOOSE a \in unused : Cardinality({b \in unused : b < a}) = k - 1]

(* A chain of fresh nodes for the sequence ts. *)
Linked(mm, ts) ==
  LET at == FreshCells(mm, Len(ts))
      node(k) == Node(ts[k], IF k = Len(ts) THEN Null ELSE at[k + 1])
  IN  [b \in DOMAIN mm \cup Range(at) |->
         IF b \in DOMAIN mm THEN mm[b] ELSE node(CHOOSE k \in DOMAIN at : at[k] = b)]

(* The first node of such a chain. *)
Placed(mm, ts) == IF ts = << >> THEN Null ELSE FreshCells(mm, Len(ts))[1]

Init ==
  /\ \E p \in InitialPolys, q \in InitialPolys :
       LET first == Linked(<< >>, p)
       IN  /\ mem = Linked(first, q)
           /\ x = Handle(mem, Placed(<< >>, p), Len(p))
           /\ y = Handle(mem, Placed(first, q), Len(q))
  /\ merge = << >>
  /\ request = [op |-> "none", c |-> 0, m |-> One, own |-> FALSE, ts |-> << >>]
  /\ calls = 0

-----------------------------------------------------------------------------
(* Calls.                                                                  *)

Request(op) == [op |-> op, c |-> 0, m |-> One, own |-> FALSE, ts |-> << >>]

Asked(r) ==
  /\ Idle /\ calls < MaxCalls
  /\ request' = r
  /\ calls' = calls + 1

(* x becomes a fresh polynomial of the terms ts, recorded as n of them,    *)
(* and what it was is dropped.                                             *)
Assign(ts, n) ==
  /\ mem' = Dropped(Linked(mem, ts), x)
  /\ x' = [head |-> Placed(mem, ts), len |-> n, lead |-> LeadAt(mem', Placed(mem, ts))]
  /\ UNCHANGED <<y, merge>>

(* The operand of a binary call on references, which may be x itself.      *)
Other(own) == IF own THEN x ELSE y

(* The locals of a merge of x with k times m times the chain at right; a   *)
(* chain is taken from its handle when the call owns it.                   *)
BeginMerge(k, m, right, takes_left, takes_right) ==
  /\ merge' = [k |-> k, m |-> m, left |-> x.head, right |-> right,
               head |-> Null, tail |-> Null, out_len |-> 0,
               takes_left |-> takes_left, takes_right |-> takes_right]
  /\ x' = IF takes_left THEN [x EXCEPT !.head = Null] ELSE x
  /\ y' = IF takes_right THEN ZeroPoly ELSE y
  /\ UNCHANGED mem

Add(own) ==
  /\ Asked([Request("add") EXCEPT !.own = own])
  /\ LET other == Other(own)
     IN  IF IsZero(other) THEN Assign(Terms(mem, x.head), x.len)
         ELSE IF IsZero(x) THEN Assign(Terms(mem, other.head), other.len)
         ELSE BeginMerge(1, One, other.head, FALSE, FALSE)

AddAssign ==
  /\ Asked(Request("add_assign"))
  /\ IF IsZero(y) THEN UNCHANGED <<memVars, merge>>
     ELSE IF IsZero(x) THEN Assign(Terms(mem, y.head), y.len)
     ELSE BeginMerge(1, One, y.head, FALSE, FALSE)

Sub(own) ==
  /\ Asked([Request("sub") EXCEPT !.own = own])
  /\ LET other == Other(own)
     IN  IF IsZero(other) THEN Assign(Terms(mem, x.head), x.len)
         ELSE IF IsZero(x) THEN Assign(Negated(Terms(mem, other.head)), other.len)
         ELSE BeginMerge(P - 1, One, other.head, FALSE, FALSE)

(* The caller's ring has room for the product. *)
DegOf(p) == IF IsZero(p) THEN 0 ELSE Deg(p.lead[2])
Fits(m, p) == Deg(m) + DegOf(p) <= MaxDeg

SubMulTerm(c, m, own) ==
  /\ Fits(m, Other(own))
  /\ Asked([Request("sub_mul_term") EXCEPT !.c = c, !.m = m, !.own = own])
  /\ IF c = 0 \/ IsZero(Other(own)) THEN Assign(Terms(mem, x.head), x.len)
     ELSE BeginMerge(P - c, m, Other(own).head, FALSE, FALSE)

(* y is moved into the call, and so is x. *)
AddConsuming ==
  /\ Asked(Request("add_consuming"))
  /\ IF IsZero(y) THEN UNCHANGED <<memVars, merge>>
     ELSE IF IsZero(x) THEN x' = y /\ y' = ZeroPoly /\ UNCHANGED <<mem, merge>>
     ELSE BeginMerge(1, One, y.head, TRUE, TRUE)

(* x is moved into the call, y only read. *)
SubMmMultQqConsuming(c, m) ==
  /\ Fits(m, y)
  /\ Asked([Request("sub_mm_mult_qq_consuming") EXCEPT !.c = c, !.m = m])
  /\ IF c = 0 \/ IsZero(y) THEN UNCHANGED <<memVars, merge>>
     ELSE BeginMerge(P - c, m, y.head, TRUE, FALSE)

CloneIntoY ==
  /\ Asked(Request("clone"))
  /\ LET ts == Terms(mem, x.head)
     IN  /\ mem' = Dropped(Linked(mem, ts), y)
         /\ y' = [head |-> Placed(mem, ts), len |-> x.len, lead |-> x.lead]
  /\ UNCHANGED <<x, merge>>

Neg ==
  /\ Asked(Request("neg"))
  /\ Assign(Negated(Terms(mem, x.head)), x.len)

ScaleBy(c) ==
  /\ Asked([Request("scale") EXCEPT !.c = c])
  /\ IF c = 0 THEN Assign(<< >>, 0) ELSE Assign(Scaled(c, Terms(mem, x.head)), x.len)

Shift(m) ==
  /\ Fits(m, x)
  /\ Asked([Request("shift") EXCEPT !.m = m])
  /\ Assign(Shifted(m, Terms(mem, x.head)), x.len)

(* monic inverts the cached leading coefficient. *)
MakeMonic ==
  /\ Asked(Request("monic"))
  /\ LET ts == Terms(mem, x.head)
     IN  IF IsZero(x) \/ x.lead[1] = 1 THEN Assign(ts, x.len)
         ELSE Assign(Scaled(Invert(x.lead[1]), ts), x.len)

DropLeadingTerm ==
  /\ Asked(Request("drop_leading"))
  /\ IF x.len <= 1 THEN Assign(<< >>, 0)
     ELSE Assign(Tail(Terms(mem, x.head)), x.len - 1)

DropLeadingInPlace ==
  /\ Asked(Request("drop_leading_in_place"))
  /\ IF IsZero(x) THEN UNCHANGED <<mem, x>>
     ELSE /\ mem' = Freed(mem, {x.head})
          /\ x' = Handle(mem', mem[x.head].next, x.len - 1)
  /\ UNCHANGED <<y, merge>>

FromTerms(ts) ==
  /\ Asked([Request("from_terms") EXCEPT !.ts = ts])
  /\ Assign(Surviving(ts), Len(Surviving(ts)))

Multiply ==
  /\ DegOf(x) + DegOf(y) <= MaxDeg
  /\ Asked(Request("mul"))
  /\ LET ts == Surviving(Products(Terms(mem, x.head), Terms(mem, y.head)))
     IN  Assign(ts, Len(ts))

-----------------------------------------------------------------------------
(* The merge loops of merge, merge_consuming, sub_mul_term and             *)
(* sub_mm_mult_qq_consuming.                                               *)

(* The terms at hand; that of the right chain comes multiplied. *)
LeftTerm  == Term(mem[merge.left].c, mem[merge.left].m)
RightTerm == Term((merge.k * mem[merge.right].c) % P, Mul(merge.m, mem[merge.right].m))

Both == ~Idle /\ merge.left # Null /\ merge.right # Null

(* The memory mm with node a, whose next is Null, behind the tail slot,    *)
(* and the locals after that.                                              *)
Attached(mm, a) == IF merge.tail = Null THEN mm ELSE [mm EXCEPT ![merge.tail].next = a]

Grown(a, n) == [merge EXCEPT !.head = IF @ = Null THEN a ELSE @, !.tail = a, !.out_len = @ + n]

(* The term t goes to the output, in node a when the call owns that and in *)
(* a fresh node otherwise.                                                 *)
Emit(owned, a, t, left, right) ==
  LET b == IF owned THEN a ELSE FreshCells(mem, 1)[1]
  IN  /\ mem' = Attached(WithNode(mem, b, t), b)
      /\ merge' = [Grown(b, 1) EXCEPT !.left = left, !.right = right]

LeftNext  == mem[merge.left].next
RightNext == mem[merge.right].next

TakeGreater ==
  /\ Both /\ Less(RightTerm.m, LeftTerm.m)
  /\ Emit(merge.takes_left, merge.left, LeftTerm, LeftNext, merge.right)
  /\ UNCHANGED <<x, y, request, calls>>

TakeLess ==
  /\ Both /\ Less(LeftTerm.m, RightTerm.m)
  /\ Emit(merge.takes_right, merge.right, RightTerm, merge.left, RightNext)
  /\ UNCHANGED <<x, y, request, calls>>

(* The nodes that a turn leaves behind: the right one of equal terms, and  *)
(* the left one too when they cancel.                                      *)
Spent(cancels) ==
  {a \in {merge.right} : merge.takes_right} \cup {a \in {merge.left} : merge.takes_left /\ cancels}

TotalCoeff == (LeftTerm.c + RightTerm.c) % P

(* Mutant of Combine: the nodes of terms that cancel are not released. *)
CombineLeaking ==
  /\ Both /\ LeftTerm.m = RightTerm.m
  /\ IF TotalCoeff = 0
     THEN /\ mem' = Freed(mem, Spent(FALSE))
          /\ merge' = [merge EXCEPT !.left = LeftNext, !.right = RightNext]
     ELSE LET b == IF merge.takes_left THEN merge.left ELSE FreshCells(mem, 1)[1]
          IN  /\ mem' = Freed(Attached(WithNode(mem, b, Term(TotalCoeff, LeftTerm.m)), b),
                              Spent(FALSE))
              /\ merge' = [Grown(b, 1) EXCEPT !.left = LeftNext, !.right = RightNext]
  /\ UNCHANGED <<x, y, request, calls>>

(* Equal terms: one term, or none when they cancel. *)
Combine ==
  /\ Both /\ LeftTerm.m = RightTerm.m
  /\ IF TotalCoeff = 0
     THEN /\ mem' = Freed(mem, Spent(TRUE))
          /\ merge' = [merge EXCEPT !.left = LeftNext, !.right = RightNext]
     ELSE LET b == IF merge.takes_left THEN merge.left ELSE FreshCells(mem, 1)[1]
          IN  /\ mem' = Freed(Attached(WithNode(mem, b, Term(TotalCoeff, LeftTerm.m)), b),
                              Spent(FALSE))
              /\ merge' = [Grown(b, 1) EXCEPT !.left = LeftNext, !.right = RightNext]
  /\ UNCHANGED <<x, y, request, calls>>

(* Mutant of Splice: the length of the spliced chain is counted from its   *)
(* second node.                                                            *)
SpliceShort(a) ==
  /\ mem' = Attached(mem, a)
  /\ merge' = [Grown(a, Len(Chain(mem, a)) - 1) EXCEPT !.left = Null, !.right = Null]

(* The whole of an owned chain behind the tail slot, its length by a walk. *)
Splice(a) ==
  /\ mem' = Attached(mem, a)
  /\ merge' = [Grown(a, Len(Chain(mem, a))) EXCEPT !.left = Null, !.right = Null]

RestOfLeft ==
  /\ ~Idle /\ merge.left # Null /\ merge.right = Null
  /\ IF merge.takes_left THEN Splice(merge.left)
     ELSE Emit(FALSE, merge.left, LeftTerm, LeftNext, Null)
  /\ UNCHANGED <<x, y, request, calls>>

RestOfRight ==
  /\ ~Idle /\ merge.left = Null /\ merge.right # Null
  /\ IF merge.takes_right THEN Splice(merge.right)
     ELSE Emit(FALSE, merge.right, RightTerm, Null, RightNext)
  /\ UNCHANGED <<x, y, request, calls>>

(* The chain leaves the sentinel slot; the caller's assignment drops the   *)
(* old x, which a consuming call has emptied.                              *)
FinishMerge ==
  /\ ~Idle /\ merge.left = Null /\ merge.right = Null
  /\ mem' = Dropped(mem, x)
  /\ x' = Handle(mem, merge.head, merge.out_len)
  /\ merge' = << >>
  /\ UNCHANGED <<y, request, calls>>

-----------------------------------------------------------------------------

Call ==
  \/ \E own \in BOOLEAN : Add(own) \/ Sub(own)
  \/ \E c \in 0 .. P - 1, m \in Multipliers :
       \/ \E own \in BOOLEAN : SubMulTerm(c, m, own)
       \/ SubMmMultQqConsuming(c, m)
  \/ AddAssign \/ AddConsuming
  \/ CloneIntoY \/ Neg \/ MakeMonic \/ DropLeadingTerm \/ DropLeadingInPlace \/ Multiply
  \/ \E c \in 0 .. P - 1 : ScaleBy(c)
  \/ \E m \in Multipliers : Shift(m)
  \/ \E ts \in TermSeqs : FromTerms(ts)

Turn == TakeGreater \/ TakeLess \/ Combine \/ RestOfLeft \/ RestOfRight \/ FinishMerge

-----------------------------------------------------------------------------
(* Properties.                                                             *)

(* The chains that are owned: those of the two handles, the output of a    *)
(* merge, and what a consuming merge has not used up of its operands.      *)
OwnedCells ==
  Chain(mem, x.head) \o Chain(mem, y.head)
    \o (IF Idle THEN << >>
        ELSE Chain(mem, merge.head)
               \o (IF merge.takes_left THEN Chain(mem, merge.left) ELSE << >>)
               \o (IF merge.takes_right THEN Chain(mem, merge.right) ELSE << >>))

(* The soundness argument of the splices and the contract of dealloc       *)
(* (poly_list.rs:809-834, node_pool.rs:28-34): every live node belongs to  *)
(* exactly one chain, at every turn: none is reachable from two places,    *)
(* freed while reachable, part of a cycle, or lost.                        *)
NodesOwnedOnce ==
  /\ IsInjective(OwnedCells)
  /\ Range(OwnedCells) = DOMAIN mem

(* assert_canonical (poly_list.rs:928-960). *)
ListCanonical(p) ==
  /\ CanonicalTerms(Terms(mem, p.head))
  /\ p.len = Len(Chain(mem, p.head))
  /\ p.lead = LeadAt(mem, p.head)
=============================================================================

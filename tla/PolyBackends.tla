---------------------------- MODULE PolyBackends ----------------------------
(***************************************************************************)
(* Both polynomial backends under the same caller.  A build has one of     *)
(* them, chosen by the cargo feature linked_list_poly (src/src/poly/mod.rs)*)
(* and everything else is written against their common surface.            *)
(***************************************************************************)
EXTENDS PolyList, PolyVec

VARIABLES vx, vy         \* the flat-array polynomials of the caller

backendVars == <<vars, vx, vy>>

BackendsInit ==
  /\ Init
  /\ vx = Vec(Terms(mem, x.head))
  /\ vy = Vec(Terms(mem, y.head))

(* What the flat-array backend returns for the call r; q is its operand.   *)
VecResult(r, q) ==
  CASE r.op \in {"add", "add_consuming"} -> VecAdd(vx, q)
    [] r.op = "add_assign" -> VecAddAssign(vx, q)
    [] r.op = "sub" -> VecSub(vx, q)
    [] r.op \in {"sub_mul_term", "sub_mm_mult_qq_consuming"} -> VecSubMulTerm(vx, r.c, r.m, q)
    [] r.op = "clone" -> vx
    [] r.op = "neg" -> VecNeg(vx)
    [] r.op = "scale" -> VecScale(r.c, vx)
    [] r.op = "shift" -> VecShift(r.m, vx)
    [] r.op = "mul" -> VecMul(vx, q)
    [] r.op = "monic" -> VecMonic(vx)
    [] r.op = "drop_leading" -> VecDropLeading(vx)
    [] r.op = "drop_leading_in_place" -> VecDropLeadingInPlace(vx)
    [] r.op = "from_terms" -> VecFromTerms(r.ts)

VecCall ==
  /\ vx' = VecResult(request', IF request'.own THEN vx ELSE vy)
  /\ vy' = CASE request'.op = "clone" -> VecClone(vx)
             [] request'.op = "add_consuming" -> VecZero
             [] OTHER -> vy

(* The caller has made its calls. *)
Quiet == Idle /\ calls = MaxCalls /\ UNCHANGED backendVars

BackendsNext ==
  \/ Call /\ VecCall
  \/ Turn /\ UNCHANGED <<vx, vy>>
  \/ Quiet

BackendsSpec == BackendsInit /\ [][BackendsNext]_backendVars

-----------------------------------------------------------------------------
(* Properties.                                                             *)

(* Between calls both representations are canonical, the cached leading    *)
(* terms and lengths included (poly_vec.rs:653-690, poly_list.rs:928-960); *)
(* every reader takes them for granted.                                    *)
Canonical ==
  /\ Idle => ListCanonical(x) /\ ListCanonical(y)
  /\ VecCanonical(vx) /\ VecCanonical(vy)

(* The feature flag changes nothing that a caller sees: after the same     *)
(* calls both backends hold the same terms and the same caches             *)
(* (mod.rs:18-22).                                                         *)
BackendsAgree ==
  Idle =>
    /\ Terms(mem, x.head) = Live(vx) /\ x.lead = vx.lead
    /\ Terms(mem, y.head) = Live(vy) /\ y.lead = vy.lead

Requests ==
  [op : {"add", "add_assign", "add_consuming", "sub", "sub_mul_term",
         "sub_mm_mult_qq_consuming", "clone", "neg", "scale", "shift", "mul",
         "monic", "drop_leading", "drop_leading_in_place", "from_terms"},
   c : 0 .. P - 1, m : Multipliers \cup {One}, own : BOOLEAN, ts : TermSeqs \cup {<< >>}]

Exact == INSTANCE PolyValues WITH
           InitialPolys <- {ValueOf(p) : p \in InitialPolys},
           x <- ValueOf(Live(vx)), y <- ValueOf(Live(vy))

(* The terms are those of the exact result of every call; with             *)
(* BackendsAgree this holds of the linked list as well, whatever it reuses.*)
ImplementsValues == Exact!Spec
=============================================================================

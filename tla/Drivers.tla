------------------------------ MODULE Drivers ------------------------------
(***************************************************************************)
(* The two drivers that run on one thread, side by side.  A build and its  *)
(* caller choose one of them for a call: compute_gb_serial with either     *)
(* reducer (SerialBba) or compute_gb_f4 (F4).  Every scan for a divisor is *)
(* also done the way the vector code does it (SevScan).                    *)
(***************************************************************************)
EXTENDS SerialBba, SevScan

VARIABLES
  driver,                               \* "bba" or "f4"
  matrix_pc, basis, pairs, row_polys, covered_leads, rows, sorted_mons,
  input_pivot_cols, at, changed         \* the state of F4

Matrix == INSTANCE F4 WITH pc <- matrix_pc

serialOnly == <<heap_reducer, input, polys, redundant, l_set, next_arrival, pc,
                seeding, lobj, survivor, tail>>
matrixOnly == <<matrix_pc, basis, pairs, row_polys, covered_leads, rows,
                sorted_mons, input_pivot_cols, at, changed>>
driversVars == <<driver, vars, matrixOnly>>

(* The matrix driver calls neither reducer. *)
DriversInit ==
  /\ driver \in {"bba", "f4"}
  /\ Init
  /\ Matrix!Init
  /\ driver = "f4" => ~heap_reducer

BbaTurn ==
  /\ driver = "bba"
  /\ Next
  /\ UNCHANGED <<driver, matrixOnly>>

MatrixTurn ==
  /\ driver = "f4"
  /\ Matrix!Next
  /\ UNCHANGED <<driver, serialOnly>>

DriversNext == BbaTurn \/ MatrixTurn

Done == IF driver = "bba" THEN pc = "done" ELSE matrix_pc = "done"

(* The one thread of a call goes on running: weak fairness of DriversNext, *)
(* which can take a step other than a stutter until the call is done.      *)
Fairness == []<>Done \/ []<><<TRUE>>_driversVars

DriversSpec == DriversInit /\ [][DriversNext]_driversVars /\ Fairness

-----------------------------------------------------------------------------
(* Properties.                                                             *)

(* What row_echelon and rref leave behind when the rows are harvested      *)
(* (gauss.rs:14-29, 88-92): the harvest reads the leading columns of rows  *)
(* and takes every row for a monic polynomial that no other one reduces.   *)
HarvestedFromEchelon == Matrix!HarvestedFromEchelon

(* Neither driver adds a leading monomial that is a multiple of an earlier *)
(* one, which is why there are finitely many elements.  In the serial one  *)
(* what a redundant element divides a younger active one divides too; in   *)
(* the matrix driver the preprocessing has given every monomial that the   *)
(* basis reduces a row (bba.rs:213-230, f4.rs:242-266, 300-318).           *)
LeadersAlwaysNew == LeadersGrow /\ Matrix!LeadersAreNew

(* Every call returns: the queue runs empty although insertions refill it, *)
(* every reduction ends, and so do the sweeps of the inter-reduction, one  *)
(* of which must find nothing to change (bba.rs:146-180, f4.rs:329-379).   *)
CallReturns == <>Done

(* A chunked scan over short exponent vectors finds the same element as    *)
(* the scan of every element in turn, with the flags of now and whatever   *)
(* the length of the basis (bba.rs:401-434, simd.rs:54-142).               *)
FindsFirst(flags, p) ==
  p # Zero =>
    FindDivisorIdx(polys, flags, LM(p)) =
      IF Reducible(polys, flags, p) THEN FirstDivisor(polys, flags, LM(p)) ELSE Len(polys) + 1

(* The sweep over the candidates marks the ones that another candidate     *)
(* implies, although a marked one is passed over: whatever implied it      *)
(* implies the same ones (gm.rs:148-203).                                  *)
SweepMarksImplied(b) == ChainSweep(b) = {k \in DOMAIN b : ChainImplied(b, k)}

(* The filtered and chunked scans lose nothing and reorder nothing: a tail *)
(* that is skipped, a lane taken out of order, or a shared bit taken for a *)
(* division would change which element reduces, leave a reducible term     *)
(* alone, or keep or drop another pair.                                    *)
ScansExact ==
  /\ pc = "reduce" => FindsFirst(redundant, lobj.poly)
  /\ pc = "tail" => FindsFirst(Hidden, tail.work)
  /\ pc = "insert" =>
       SweepMarksImplied(Candidates(Append(polys, lobj.poly), Len(polys) + 1, lobj.sugar))
=============================================================================

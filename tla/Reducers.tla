------------------------------ MODULE Reducers ------------------------------
(***************************************************************************)
(* The two reducers and the geobucket.  The cargo feature heap_reducer     *)
(* decides which reducer a build calls (src/src/bba.rs:256-265); both are  *)
(* always compiled.  A behaviour is one call of either, or a geobucket by  *)
(* itself, which any sequence of its calls may drive.                      *)
(***************************************************************************)
EXTENDS GeobucketReducer

(* Nothing is no term. *)
ASSUME LeaderAssumption == Nothing \notin [c : 1 .. P - 1, m : Monomial]

VARIABLES
  use,                                         \* "heap", "geobucket" or "bucket"
  reducers, heap, leader, survivor, returned   \* of the heap

Heap == INSTANCE ReducerHeap

heapOnly == <<reducers, heap, leader, survivor, returned>>
lobjOnly == <<pair, lead, step>>
reducersVars == <<use, vars, basis, sugar, heapOnly, lobjOnly>>

(* What a call does not use stays as it is. *)
HeapUnused ==
  reducers = << >> /\ heap = {} /\ leader = Nothing /\ survivor = << >> /\ returned = FALSE

LObjectUnused == pair = Nothing /\ lead = Nothing /\ step = Nothing

BucketUnused ==
  /\ slots = FromPoly(Zero) /\ lm_cache = Nothing /\ dirty = FALSE /\ carry = Zero
  /\ asked = Nothing /\ answer = Nothing

ReducersInit ==
  \/ use = "heap" /\ Heap!Init /\ BucketUnused /\ LObjectUnused
  \/ use = "geobucket" /\ LObjectInit /\ HeapUnused
  \/ use = "bucket" /\ Init /\ basis = << >> /\ sugar = 0 /\ HeapUnused /\ LObjectUnused

HeapTurn ==
  /\ use = "heap"
  /\ Heap!Next
  /\ UNCHANGED <<use, vars, lobjOnly>>

GeobucketTurn ==
  /\ use = "geobucket"
  /\ LObjectNext
  /\ UNCHANGED <<use, heapOnly>>

BucketTurn ==
  /\ use = "bucket"
  /\ Next
  /\ UNCHANGED <<use, basis, sugar, heapOnly, lobjOnly>>

ReducersNext == HeapTurn \/ GeobucketTurn \/ BucketTurn

ReducersSpec == ReducersInit /\ [][ReducersNext]_reducersVars

-----------------------------------------------------------------------------
(* Properties.                                                             *)

(* The heap holds the node of the current term of every reducer that is    *)
(* not exhausted, and no other, so that the leaders come out in strictly   *)
(* descending order, each once (reducer.rs:104-107, 349-413).              *)
HeapSound == use = "heap" => Heap!NodesCurrent /\ Heap!Descending

(* The heap and its slab take the turns of the exact reduction             *)
(* (reducer.rs:104-107, 349-413).                                          *)
HeapImplementsNormalForm ==
  /\ use = "heap" => Heap!Exact!Init
  /\ [][use = "heap" => [Heap!Exact!Next]_(Heap!Exact!vars)]_reducersVars

(* The geobucket and the copy of its leading term stand for the working    *)
(* polynomial: the other reducer subtracts what cancels the leading term   *)
(* of that moment, and no turn of a cascade or a scan comes in between     *)
(* (bba.rs:276-323, lobject.rs:125-144).                                   *)
GeobucketImplementsLeadingForm ==
  /\ use = "geobucket" => Exactly!Init
  /\ [][use = "geobucket" => [Exactly!Next]_(Exactly!vars)]_reducersVars

(* Whatever the slots hold, a geobucket answers as the polynomial it       *)
(* stands for, in whatever order it is called (kbucket.rs:226-264,         *)
(* 350-470).                                                               *)
BucketImplementsAccumulator ==
  /\ use = "bucket" => Exact!Init
  /\ [][use = "bucket" => [Exact!Next]_(Exact!vars)]_reducersVars
=============================================================================

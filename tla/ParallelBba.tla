---------------------------- MODULE ParallelBba ----------------------------
(***************************************************************************)
(* The multi-threaded Buchberger driver: compute_gb_parallel of            *)
(* src/src/parallel.rs on the shared state of src/src/computation.rs.      *)
(*                                                                         *)
(* The main thread seeds the basis with the reduced inputs, starts the     *)
(* workers, joins them and tail-reduces the result.  A worker pops a pair, *)
(* reduces its S-polynomial against whatever the shared basis holds at     *)
(* each turn, and inserts a nonzero remainder under insert_mutex.  A step  *)
(* of the model is a stretch of code that touches the shared state once:   *)
(* one divisor search with the local cancellation that follows it, one     *)
(* critical section under the L lock, one flag store.                      *)
(*                                                                         *)
(* A poll of the cancel flag that finds it clear is merged into the step   *)
(* that follows it: raising the flag commutes with that step.              *)
(*                                                                         *)
(* The redundancy flags are stored and loaded with Relaxed ordering.  A    *)
(* flag stored since the last push may still be read as clear by a thread  *)
(* that does not hold insert_mutex; older stores happen before the push,   *)
(* whose write locks order them before every later scan.                   *)
(***************************************************************************)
EXTENDS GebauerMoeller

CONSTANTS
  NumThreads,    \* worker threads to spawn
  Inputs,        \* the sequence of input polynomials
  MayCancel,     \* may the holder of a CancelHandle raise the flag?
  MayPanic       \* may a reduction panic (overflow assertion, expect)?

ASSUME NumThreadsAssumption == NumThreads \in Nat \ {0}
ASSUME InputsAssumption ==
  /\ Inputs \in Seq({Inputs[k] : k \in DOMAIN Inputs})
  /\ \A k \in DOMAIN Inputs : IsPolynomial(Inputs[k])
ASSUME SwitchAssumption == MayCancel \in BOOLEAN /\ MayPanic \in BOOLEAN

Main   == 0
Worker == 1 .. NumThreads
Thread == {Main} \cup Worker

(* The states of insert_mutex besides being held by a thread. *)
Free     == NumThreads + 1
Poisoned == NumThreads + 2

VARIABLES
  polys, redundant,   \* SharedSBasis: the elements and their flags
  settled,            \* the elements whose flag no thread can miss any more
  l_set,              \* SharedLSet: the set of live pairs
  next_arrival,       \* Computation::next_arrival
  in_flight,          \* Computation::in_flight
  cancel,             \* Computation::cancel
  insert_mutex,       \* a thread, Free or Poisoned
  pc,                 \* where each thread is
  pair,               \* the pair a worker popped and has not built yet
  lobj,               \* the LObject a thread is reducing
  h_idx,              \* the index of the element a thread has just pushed
  bset,               \* the candidate pairs of that element
  input,              \* the inputs that are still to be seeded
  tail,               \* finalise: [at, work, done], see below
  result,             \* "running", "ok", "cancelled" or "panicked"
  out                 \* the basis returned when the result is "ok"

basisVars == <<polys, redundant, settled>>
localVars == <<pair, lobj, h_idx, bset>>
mainVars  == <<input, tail, result, out>>
vars == <<polys, redundant, settled, l_set, next_arrival, in_flight, cancel,
          insert_mutex, pc, pair, lobj, h_idx, bset, input, tail, result, out>>

NoPair == [i |-> 0, j |-> 0]

Init ==
  /\ polys = << >> /\ redundant = << >> /\ settled = {}
  /\ l_set = {}
  /\ next_arrival = 0
  /\ in_flight = 0
  /\ cancel = FALSE
  /\ insert_mutex = Free
  /\ pc = [t \in Thread |-> IF t = Main THEN "seed" ELSE "unborn"]
  /\ pair = [t \in Thread |-> NoPair]
  /\ lobj = [t \in Thread |-> NoObject]
  /\ h_idx = [t \in Thread |-> 0]
  /\ bset = [t \in Thread |-> << >>]
  /\ input = Inputs
  /\ tail = [at |-> 0, work |-> Zero, done |-> Zero]
  /\ result = "running"
  /\ out = << >>

Goto(t, label) == pc' = [pc EXCEPT ![t] = label]

(* Where a thread goes after a reduction that needs no insertion and after *)
(* an insertion: the main thread to its next input, a worker to the        *)
(* decrement of in_flight.                                                 *)
Continue(t) == IF t = Main THEN "seed" ELSE "retire"

-----------------------------------------------------------------------------
(* The main thread before and after the workers.                           *)

(* Take the next input; a zero polynomial is skipped. *)
SeedNext ==
  /\ pc[Main] = "seed" /\ input # << >>
  /\ input' = Tail(input)
  /\ IF Head(input) = Zero
     THEN UNCHANGED <<pc, lobj>>
     ELSE /\ lobj' = [lobj EXCEPT ![Main] =
                        LObject(Head(input), Deg(LM(Head(input))))]
          /\ Goto(Main, "reduce")
  /\ UNCHANGED <<basisVars, l_set, next_arrival, in_flight, cancel,
                 insert_mutex, pair, h_idx, bset, tail, result, out>>

Flagged == {i \in DOMAIN redundant : redundant[i]}

(* All inputs are in: give up if cancelled, otherwise spawn the workers,   *)
(* which see all that the main thread has done.                            *)
Spawn ==
  /\ pc[Main] = "seed" /\ input = << >>
  /\ settled' = Flagged
  /\ IF cancel
     THEN Goto(Main, "done") /\ result' = "cancelled"
     ELSE /\ pc' = [t \in Thread |-> IF t = Main THEN "join" ELSE "top"]
          /\ UNCHANGED result
  /\ UNCHANGED <<polys, redundant, l_set, next_arrival, in_flight, cancel,
                 insert_mutex, localVars, input, tail, out>>

(* The handles are joined in spawn order; the first panicked one met makes *)
(* expect() panic in turn.                                                 *)
JoinPanicked ==
  /\ pc[Main] = "join"
  /\ \E w \in Worker : /\ pc[w] = "panicked"
                       /\ \A v \in 1 .. w - 1 : pc[v] = "done"
  /\ Goto(Main, "done")
  /\ result' = "panicked"
  /\ UNCHANGED <<basisVars, l_set, next_arrival, in_flight, cancel,
                 insert_mutex, localVars, input, tail, out>>

(* Mutant of JoinAll: a panicked worker is taken for a finished one. *)
JoinAllIgnoringPanics ==
  /\ pc[Main] = "join"
  /\ \A w \in Worker : pc[w] \in {"done", "panicked"}
  /\ Goto(Main, "finalise")
  /\ tail' = [at |-> 1, work |-> Zero, done |-> Zero]
  /\ UNCHANGED <<basisVars, l_set, next_arrival, in_flight, cancel,
                 insert_mutex, localVars, input, result, out>>

(* Mutant of JoinAll: without the final poll of the cancel flag. *)
JoinAllUnpolled ==
  /\ pc[Main] = "join"
  /\ \A w \in Worker : pc[w] = "done"
  /\ Goto(Main, "finalise")
  /\ tail' = [at |-> 1, work |-> Zero, done |-> Zero]
  /\ UNCHANGED <<basisVars, l_set, next_arrival, in_flight, cancel,
                 insert_mutex, localVars, input, result, out>>

(* Every worker has returned: the final poll, then the tail reduction. *)
JoinAll ==
  /\ pc[Main] = "join"
  /\ \A w \in Worker : pc[w] = "done"
  /\ IF cancel
     THEN Goto(Main, "done") /\ result' = "cancelled" /\ UNCHANGED tail
     ELSE /\ Goto(Main, "finalise")
          /\ tail' = [at |-> 1, work |-> Zero, done |-> Zero]
          /\ UNCHANGED result
  /\ UNCHANGED <<basisVars, l_set, next_arrival, in_flight, cancel,
                 insert_mutex, localVars, input, out>>

-----------------------------------------------------------------------------
(* finalise_basis, run by the main thread alone on the drained arrays:     *)
(* every active element keeps its leading term and has its tail brought to *)
(* normal form by the other active elements.  tail.at is the element,      *)
(* tail.work what is left of its tail and tail.done the terms parked.      *)

Hidden == [redundant EXCEPT ![tail.at] = TRUE]

TailNext ==
  /\ pc[Main] = "finalise" /\ tail.at <= Len(polys)
  /\ IF redundant[tail.at]
     THEN tail' = [tail EXCEPT !.at = @ + 1] /\ UNCHANGED pc
     ELSE /\ tail' = [tail EXCEPT !.work = DropLeading(polys[tail.at]), !.done = Zero]
          /\ Goto(Main, "tail")
  /\ UNCHANGED <<basisVars, l_set, next_arrival, in_flight, cancel,
                 insert_mutex, localVars, input, result, out>>

(* Cancel the leading term of the rest of the tail, or park it. *)
TailStep ==
  /\ pc[Main] = "tail" /\ tail.work # Zero
  /\ tail' = IF Reducible(polys, Hidden, tail.work)
             THEN [tail EXCEPT !.work = CancelLeading(polys, Hidden, @)]
             ELSE [tail EXCEPT !.work = DropLeading(@),
                               !.done = ParkTerm(@, LC(tail.work), LM(tail.work))]
  /\ UNCHANGED <<basisVars, l_set, next_arrival, in_flight, cancel,
                 insert_mutex, pc, localVars, input, result, out>>

TailEnd ==
  /\ pc[Main] = "tail" /\ tail.work = Zero
  /\ polys' = [polys EXCEPT ![tail.at] =
                 Monic(PrependLeading(LC(@), LM(@), tail.done))]
  /\ tail' = [at |-> tail.at + 1, work |-> Zero, done |-> Zero]
  /\ Goto(Main, "finalise")
  /\ UNCHANGED <<redundant, settled, l_set, next_arrival, in_flight, cancel,
                 insert_mutex, localVars, input, result, out>>

Active == {i \in DOMAIN polys : ~redundant[i]}

Finish ==
  /\ pc[Main] = "finalise" /\ tail.at > Len(polys)
  /\ out' = SortedActive(polys, redundant)
  /\ result' = "ok"
  /\ Goto(Main, "done")
  /\ UNCHANGED <<basisVars, l_set, next_arrival, in_flight, cancel,
                 insert_mutex, localVars, input, tail>>

-----------------------------------------------------------------------------
(* The worker loop.                                                        *)

(* The flag is polled at the top of the loop and after a failed pop. *)
ExitCancelled(w) ==
  /\ pc[w] = "top" /\ cancel
  /\ Goto(w, "done")
  /\ UNCHANGED <<basisVars, l_set, next_arrival, in_flight, cancel,
                 insert_mutex, localVars, mainVars>>

(* Mutant of Pop: the pair is not counted. *)
PopUncounted(w) ==
  /\ pc[w] = "top" /\ ~cancel
  /\ l_set # {}
  /\ pair' = [pair EXCEPT ![w] = NextPair(l_set)]
  /\ l_set' = l_set \ {NextPair(l_set)}
  /\ Goto(w, "build")
  /\ UNCHANGED <<basisVars, next_arrival, in_flight, cancel, insert_mutex,
                 lobj, h_idx, bset, mainVars>>

(* Under the L lock: take the best pair and count it as in flight. *)
Pop(w) ==
  /\ pc[w] = "top" /\ ~cancel
  /\ l_set # {}
  /\ pair' = [pair EXCEPT ![w] = NextPair(l_set)]
  /\ l_set' = l_set \ {NextPair(l_set)}
  /\ in_flight' = in_flight + 1
  /\ Goto(w, "build")
  /\ UNCHANGED <<basisVars, next_arrival, cancel, insert_mutex,
                 lobj, h_idx, bset, mainVars>>

(* Mutant of ExitDrained: an empty queue is taken for the end. *)
ExitOnEmptyQueue(w) ==
  /\ pc[w] = "top" /\ ~cancel
  /\ l_set = {}
  /\ Goto(w, "done")
  /\ UNCHANGED <<basisVars, l_set, next_arrival, in_flight, cancel,
                 insert_mutex, localVars, mainVars>>

(* Under the L lock: nothing queued and nothing in flight, so return. *)
ExitDrained(w) ==
  /\ pc[w] = "top" /\ ~cancel
  /\ l_set = {} /\ in_flight = 0
  /\ Goto(w, "done")
  /\ UNCHANGED <<basisVars, l_set, next_arrival, in_flight, cancel,
                 insert_mutex, localVars, mainVars>>

(* Nothing queued, but something is in flight: yield and look again. *)
Spin(w) ==
  /\ pc[w] = "top" /\ ~cancel
  /\ l_set = {} /\ in_flight # 0
  /\ UNCHANGED vars

(* Build the S-polynomial from the two elements' current polynomials. *)
Build(w) ==
  /\ pc[w] = "build"
  /\ LET s == SPoly(polys[pair[w].i], polys[pair[w].j], pair[w].lcm)
     IN  IF s = Zero
         THEN Goto(w, "retire") /\ UNCHANGED lobj
         ELSE /\ lobj' = [lobj EXCEPT ![w] = LObject(s, pair[w].sugar)]
              /\ Goto(w, "reduce")
  /\ pair' = [pair EXCEPT ![w] = NoPair]
  /\ UNCHANGED <<basisVars, l_set, next_arrival, in_flight, cancel,
                 insert_mutex, h_idx, bset, mainVars>>

(* Mutant of Retire: the decrement of in_flight is forgotten. *)
RetireUncounted(w) ==
  /\ pc[w] = "retire"
  /\ Goto(w, "top")
  /\ UNCHANGED <<basisVars, l_set, next_arrival, in_flight, cancel,
                 insert_mutex, localVars, mainVars>>

(* The pair is finished with, whatever came of it. *)
Retire(w) ==
  /\ pc[w] = "retire"
  /\ in_flight' = in_flight - 1
  /\ Goto(w, "top")
  /\ UNCHANGED <<basisVars, l_set, next_arrival, cancel, insert_mutex,
                 localVars, mainVars>>

-----------------------------------------------------------------------------
(* Reduction and insertion, by the main thread and by workers.             *)

(* The flags a scan by t may read: the current ones in the seed phase and  *)
(* under insert_mutex, otherwise any of the recent stores may be missing.  *)
Views(t) ==
  LET missable == IF t = Main \/ pc[t] = "final" THEN {} ELSE Flagged \ settled
  IN  {[i \in DOMAIN redundant |-> redundant[i] /\ i \notin missed] :
         missed \in SUBSET missable}

(* One turn of the loop: a search in the current basis that succeeds, and  *)
(* the cancellation.  "final" is the same loop under insert_mutex.         *)
Reduce(t) ==
  /\ pc[t] \in {"reduce", "final"} /\ ~cancel
  /\ \E flags \in Views(t) :
       /\ Reducible(polys, flags, lobj[t].poly)
       /\ lobj' = [lobj EXCEPT ![t] = ReduceOnce(polys, flags, @)]
  /\ UNCHANGED <<basisVars, l_set, next_arrival, in_flight, cancel,
                 insert_mutex, pc, pair, h_idx, bset, mainVars>>

(* The loop ends on zero, on a leading term without divisor, on cancel. *)
Reduced(t) ==
  cancel \/ \E flags \in Views(t) : ~Reducible(polys, flags, lobj[t].poly)

(* After the lock-free reduction.  The main thread tests for zero before   *)
(* it polls the flag, a worker after.  A worker that stops on the flag     *)
(* also decrements in_flight, and then returns.                            *)
ReduceDone(t) ==
  /\ pc[t] = "reduce" /\ Reduced(t)
  /\ IF lobj[t].poly = Zero
     THEN Goto(t, Continue(t)) /\ lobj' = [lobj EXCEPT ![t] = NoObject] /\ UNCHANGED result
     ELSE IF cancel
     THEN /\ Goto(t, IF t = Main THEN "done" ELSE "retire")
          /\ result' = IF t = Main THEN "cancelled" ELSE result
          /\ lobj' = [lobj EXCEPT ![t] = NoObject]
     ELSE /\ lobj' = [lobj EXCEPT ![t] = MonicObject(@)]
          /\ Goto(t, "lock")
          /\ UNCHANGED result
  /\ UNCHANGED <<basisVars, l_set, next_arrival, in_flight, cancel,
                 insert_mutex, pair, h_idx, bset, input, tail, out>>

(* Mutant of Lock: the insertions of two workers overlap. *)
LockShared(t) ==
  /\ pc[t] = "lock"
  /\ insert_mutex' = t
  /\ Goto(t, "final")
  /\ UNCHANGED <<basisVars, l_set, next_arrival, in_flight, cancel,
                 localVars, mainVars>>

Lock(t) ==
  /\ pc[t] = "lock" /\ insert_mutex = Free
  /\ insert_mutex' = t
  /\ Goto(t, "final")
  /\ UNCHANGED <<basisVars, l_set, next_arrival, in_flight, cancel,
                 localVars, mainVars>>

(* The guard is dropped. *)
Release(t) ==
  /\ insert_mutex' = Free
  /\ Goto(t, Continue(t))

(* Mutant of FinalDone: no second reduction under the mutex. *)
FinalSkipped(t) ==
  /\ pc[t] = "final"
  /\ Goto(t, "push")
  /\ UNCHANGED <<basisVars, l_set, next_arrival, in_flight, cancel,
                 insert_mutex, localVars, mainVars>>

(* reduce_survivor_final is over: bail out on zero, otherwise go on to     *)
(* push, also when the reduction only stopped because of the flag.         *)
FinalDone(t) ==
  /\ pc[t] = "final" /\ Reduced(t)
  /\ IF lobj[t].poly = Zero
     THEN Release(t) /\ lobj' = [lobj EXCEPT ![t] = NoObject]
     ELSE /\ lobj' = [lobj EXCEPT ![t] = MonicObject(@)]
          /\ Goto(t, "push")
          /\ UNCHANGED insert_mutex
  /\ UNCHANGED <<basisVars, l_set, next_arrival, in_flight, cancel,
                 pair, h_idx, bset, mainVars>>

(* Append the element under both write locks; it takes an arrival too. *)
Push(t) ==
  /\ pc[t] = "push"
  /\ next_arrival' = next_arrival + 1
  /\ polys' = Append(polys, lobj[t].poly)
  /\ redundant' = Append(redundant, FALSE)
  /\ settled' = Flagged
  /\ h_idx' = [h_idx EXCEPT ![t] = Len(polys) + 1]
  /\ Goto(t, "pairs")
  /\ UNCHANGED <<l_set, in_flight, cancel, insert_mutex, pair, lobj, bset,
                 mainVars>>

Candidates(t) ==
  LET h == h_idx[t]
      partners == Partners(polys, redundant, h)
  IN  [k \in DOMAIN partners |-> MkPair(polys, partners[k], h, lobj[t].sugar, 0)]

(* A locked thread that sees the flag drops the guard and returns. *)
InsertCancelled(t) ==
  /\ pc[t] \in {"pairs", "merge"} /\ cancel
  /\ Release(t)
  /\ lobj' = [lobj EXCEPT ![t] = NoObject]
  /\ h_idx' = [h_idx EXCEPT ![t] = 0]
  /\ bset' = [bset EXCEPT ![t] = << >>]
  /\ UNCHANGED <<basisVars, l_set, next_arrival, in_flight, cancel, pair,
                 mainVars>>

(* Snapshot the basis, build B, and run the criterion inside B. *)
MakePairs(t) ==
  /\ pc[t] = "pairs" /\ ~cancel
  /\ bset' = [bset EXCEPT ![t] = ChainCritB(Candidates(t))]
  /\ Goto(t, "merge")
  /\ UNCHANGED <<basisVars, l_set, next_arrival, in_flight, cancel,
                 insert_mutex, pair, lobj, h_idx, mainVars>>

(* Mutant of Stamped: the arrivals of a merge start again from zero. *)
StampedFromZero(b, first) ==
  [k \in DOMAIN b |-> [b[k] EXCEPT !.arrival = k - 1]]

Stamped(b, first) ==
  [k \in DOMAIN b |-> [b[k] EXCEPT !.arrival = first + k - 1]]

(* Under the L lock: drop the pairs h makes superfluous, then merge B with *)
(* arrivals taken in one block.                                            *)
Merge(t) ==
  /\ pc[t] = "merge" /\ ~cancel
  /\ l_set' = InsertPairs(l_set \ ChainCritL(polys, l_set, h_idx[t]),
                          Stamped(bset[t], next_arrival))
  /\ next_arrival' = next_arrival + Len(bset[t])
  /\ lobj' = [lobj EXCEPT ![t] = NoObject]
  /\ bset' = [bset EXCEPT ![t] = << >>]
  /\ Goto(t, "clear")
  /\ UNCHANGED <<basisVars, in_flight, cancel, insert_mutex, pair, h_idx,
                 mainVars>>

(* clear_redundant_for: one flag store, in index order. *)
Clear(t) ==
  /\ pc[t] = "clear"
  /\ \E i \in Covered(polys, redundant, h_idx[t]) :
       /\ \A k \in Covered(polys, redundant, h_idx[t]) : i <= k
       /\ redundant' = [redundant EXCEPT ![i] = TRUE]
  /\ UNCHANGED <<polys, settled, l_set, next_arrival, in_flight, cancel, insert_mutex,
                 pc, localVars, mainVars>>

ClearDone(t) ==
  /\ pc[t] = "clear"
  /\ Covered(polys, redundant, h_idx[t]) = {}
  /\ Release(t)
  /\ h_idx' = [h_idx EXCEPT ![t] = 0]
  /\ UNCHANGED <<basisVars, l_set, next_arrival, in_flight, cancel, pair,
                 lobj, bset, mainVars>>

-----------------------------------------------------------------------------
(* The environment.                                                        *)

(* CancelHandle::cancel, at any moment while the call is running. *)
Cancel ==
  /\ MayCancel /\ ~cancel /\ pc[Main] # "done"
  /\ cancel' = TRUE
  /\ UNCHANGED <<basisVars, l_set, next_arrival, in_flight, insert_mutex, pc,
                 localVars, mainVars>>

(* The monomial arithmetic of a reduction may panic: an overflow assertion *)
(* or an expect().  Unwinding poisons the mutex the thread holds and skips *)
(* the decrement of in_flight; the main thread's panic is the caller's.    *)
Die(t) ==
  /\ insert_mutex' = IF insert_mutex = t THEN Poisoned ELSE insert_mutex
  /\ Goto(t, IF t = Main THEN "done" ELSE "panicked")
  /\ result' = IF t = Main THEN "panicked" ELSE result
  /\ pair' = [pair EXCEPT ![t] = NoPair]
  /\ lobj' = [lobj EXCEPT ![t] = NoObject]
  /\ UNCHANGED <<basisVars, l_set, next_arrival, in_flight, cancel, h_idx,
                 bset, input, tail, out>>

Panic(t) == MayPanic /\ pc[t] \in {"build", "reduce", "final"} /\ Die(t)

(* lock().unwrap() on a mutex that a dead thread held. *)
LockPoisoned(t) == pc[t] = "lock" /\ insert_mutex = Poisoned /\ Die(t)

(* The call has returned. *)
Returned == pc[Main] = "done" /\ UNCHANGED vars

Insertion(t) ==
  \/ Reduce(t) \/ ReduceDone(t) \/ Lock(t) \/ LockPoisoned(t)
  \/ FinalDone(t) \/ Push(t)
  \/ InsertCancelled(t) \/ MakePairs(t) \/ Merge(t) \/ Clear(t) \/ ClearDone(t)

MainStep ==
  \/ SeedNext \/ Spawn \/ JoinPanicked \/ JoinAll
  \/ TailNext \/ TailStep \/ TailEnd \/ Finish
  \/ Insertion(Main)

WorkerStep(w) ==
  \/ ExitCancelled(w) \/ Pop(w) \/ ExitDrained(w) \/ Spin(w)
  \/ Build(w) \/ Retire(w)
  \/ Insertion(w)

Next ==
  \/ MainStep
  \/ \E w \in Worker : WorkerStep(w)
  \/ Cancel
  \/ \E t \in Thread : Panic(t)
  \/ Returned

Spec == Init /\ [][Next]_vars

(* Every thread that can take a step of its own eventually does: what an   *)
(* operating system gives.  The mutex needs no strong fairness because a   *)
(* thread takes it finitely often.                                         *)
FairSpec ==
  Spec /\ WF_vars(MainStep) /\ \A w \in Worker : WF_vars(WorkerStep(w))

-----------------------------------------------------------------------------
(* Properties.                                                             *)

Label == {"seed", "unborn", "top", "build", "reduce", "lock", "final", "push",
          "pairs", "merge", "clear", "retire", "join", "finalise", "tail",
          "done", "panicked"}

(* A worker holds a pair from the pop to the decrement of in_flight; a     *)
(* worker that died in between holds it for ever.                          *)
Holding ==
  {w \in Worker : pc[w] \in {"build", "reduce", "lock", "final", "push",
                             "pairs", "merge", "clear", "retire", "panicked"}}

(* The control state of the driver is well typed.                          *)
TypeOK ==
  /\ pc \in [Thread -> Label]
  /\ in_flight \in Nat
  /\ cancel \in BOOLEAN
  /\ insert_mutex \in Thread \cup {Free, Poisoned}
  /\ result \in {"running", "ok", "cancelled", "panicked"}

(* in_flight is exactly the number of workers that hold a pair, at every   *)
(* moment: it is raised and lowered on every path through the worker loop  *)
(* once (parallel.rs:166-259).                                             *)
InFlightExact == in_flight = Cardinality(Holding)

(* A worker that returns while nobody has raised the flag leaves nothing   *)
(* behind: no pair is queued and no other worker holds one, then and ever  *)
(* after (the termination test of pop_or_wait, parallel.rs:222-259).       *)
DrainedOnExit ==
  (\E w \in Worker : pc[w] = "done") /\ ~cancel => l_set = {} /\ Holding = {}

(* The section from the second reduction to the flag stores is exclusive:  *)
(* the thread in it is the one that holds insert_mutex (parallel.rs:384-504).*)
Critical == {"final", "push", "pairs", "merge", "clear"}

Exclusive == \A t \in Thread : pc[t] \in Critical <=> insert_mutex = t

(* The candidate pairs were built from a snapshot of the basis and are     *)
(* merged later; insert_mutex makes sure the snapshot is not stale by then.*)
SnapshotFresh ==
  \A t \in Thread : pc[t] = "merge" => bset[t] = ChainCritB(Candidates(t))

(* Between insertions no active element's leading monomial divides that of *)
(* another: the re-reduction under insert_mutex protects the newcomer, and *)
(* clear_redundant_for the older ones (computation.rs:291-297).            *)
ActiveAntichain ==
  insert_mutex \notin Thread /\ ~cancel =>
    \A i, k \in Active : i # k => ~Divides(LM(polys[i]), LM(polys[k]))

(* Marking an element redundant never loses a divisor: what it divides,    *)
(* some active element divides too.                                        *)
DivisorKept ==
  \A i \in DOMAIN polys : \E k \in Active : Divides(LM(polys[k]), LM(polys[i]))

(* The run terminates because no new leading monomial is a multiple of an  *)
(* earlier one, whichever workers inserted the two: that is what the       *)
(* second reduction under insert_mutex is for (computation.rs:281-297).    *)
LeadersGrow ==
  [][~cancel =>
       \A n \in DOMAIN polys' \ DOMAIN polys : \A i \in DOMAIN polys :
         ~Divides(LM(polys[i]), LM(polys'[n]))]_vars

(* The sugar of a working polynomial bounds the degree of its terms, and   *)
(* the sugar of a queued pair that of its lcm.                             *)
SugarBoundsDegree ==
  /\ \A t \in Thread : \A m \in Support(lobj[t].poly) : Deg(m) <= lobj[t].sugar
  /\ \A p \in l_set : Deg(p.lcm) <= p.sugar

(* A pair that enters the queue is younger than every pair waiting in it,  *)
(* so that the older of two pairs of equal sugar comes out first           *)
(* (pair.rs:59-60, computation.rs:269-273).                                *)
NewPairsAreYoungest ==
  [][\A p \in l_set, q \in l_set' \ l_set : p.arrival < q.arrival]_vars

(* A basis is never returned when a worker has died on the way.            *)
PanicNeverOk == (\E w \in Worker : pc[w] = "panicked") => result # "ok"

(* A flag raised at any time before the final poll is honoured: no basis   *)
(* is ever returned, however far the insertion it interrupted had come     *)
(* (parallel.rs:112-150; an interrupted insertion leaves an element whose  *)
(* pairs were never queued).                                               *)
CancelHonoured ==
  [](cancel /\ pc[Main] \notin {"finalise", "tail", "done"} => [](result # "ok"))

(* The call returns, whatever the schedule.                                *)
Termination == <>(pc[Main] = "done")

(* The comment on the join (parallel.rs:140-144): if a worker panics, the  *)
(* join sees it and the panic is propagated to the caller.                 *)
PanicPropagates ==
  (\E w \in Worker : pc[w] = "panicked") ~> (result = "panicked")

Seeding == pc[Main] \notin {"join", "finalise", "tail", "done"}

(* The pool that the workers implement.                                    *)
Pool == INSTANCE WorkPool WITH
          seeding <- Seeding,
          queue   <- l_set,
          busy    <- Holding,
          gone    <- {w \in Worker : pc[w] = "done"},
          aborted <- cancel

(* Every step of the driver is a step of the abstract pool or none of it:  *)
(* in particular a worker leaves only when no work can come any more.      *)
ImplementsPool == Pool!Spec
=============================================================================

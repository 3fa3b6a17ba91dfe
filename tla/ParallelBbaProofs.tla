------------------------- MODULE ParallelBbaProofs -------------------------
(***************************************************************************)
(* What holds of the parallel driver for every number of threads and every *)
(* input: the accounting of work in flight, the exclusion of insertions,   *)
(* what a returned result means, and what insert_mutex protects, that is   *)
(* the snapshot an insertion works from and the basis the insertions       *)
(* build.  None of this looks inside a polynomial.  What the threads do to *)
(* the set of pairs and to the degrees comes after it and rests on the     *)
(* facts of AlgebraProofs: the pairs in the queue are S-pairs of the basis *)
(* with distinct arrivals, the sugar bounds the degrees, the leading       *)
(* monomials only grow, and the workers implement the abstract pool.       *)
(***************************************************************************)
EXTENDS ParallelBba, AlgebraProofs

(* Where the main thread and a worker can be. *)
MainLabel ==
  {"seed", "reduce", "lock", "join", "finalise", "tail", "done"} \cup Critical
WorkerLabel ==
  {"unborn", "top", "build", "reduce", "lock", "retire", "done", "panicked"}
    \cup Critical

(* The workers exist only after the seed phase, and the main thread goes   *)
(* past the join only when every one of them has returned.                 *)
Phases ==
  /\ pc[Main] \in MainLabel
  /\ \A w \in Worker : pc[w] \in WorkerLabel
  /\ Seeding => \A w \in Worker : pc[w] = "unborn"
  /\ result # "running" => pc[Main] = "done"
  /\ pc[Main] \in {"finalise", "tail"} \/ result = "ok" =>
       \A w \in Worker : pc[w] = "done"

(* The inductive invariant. *)
IInv == TypeOK /\ Phases /\ Exclusive /\ InFlightExact /\ DrainedOnExit

-----------------------------------------------------------------------------

(* The threads, and the two states of the mutex that are no thread. *)
LEMMA ThreadFacts ==
  /\ Main \in Thread /\ Worker \subseteq Thread
  /\ Main \notin Worker
  /\ Thread = Worker \cup {Main}
  /\ Free \notin Thread /\ Poisoned \notin Thread /\ Free # Poisoned
  /\ IsFiniteSet(Worker)
<1>1. NumThreads \in Nat \ {0}
  BY NumThreadsAssumption DEF NumThreadsAssumption
<1>2. IsFiniteSet(Worker)
  BY <1>1, FS_Interval DEF Worker
<1> QED
  BY <1>1, <1>2 DEF Main, Thread, Worker, Free, Poisoned

(* The set of workers that hold a pair is finite, so that it can be        *)
(* counted.                                                                *)
LEMMA HoldingFinite == IsFiniteSet(Holding) /\ Holding \subseteq Worker
BY ThreadFacts, FS_Subset DEF Holding

LEMMA UnchangedKeepsIInv == IInv /\ UNCHANGED vars => IInv'
BY DEF IInv, TypeOK, Phases, Seeding, Exclusive, InFlightExact, DrainedOnExit,
       Holding, vars

LEMMA InitIInv == Init => IInv
<1> SUFFICES ASSUME Init PROVE IInv
  OBVIOUS
<1> USE ThreadFacts DEF Init
<1>1. TypeOK
  BY DEF TypeOK, Label
<1>2. Phases
  BY DEF Phases, MainLabel, WorkerLabel, Seeding
<1>3. Exclusive
  BY DEF Exclusive, Critical
<1>4. Holding = {}
  BY DEF Holding
<1>5. InFlightExact /\ DrainedOnExit
  BY <1>4, FS_EmptySet DEF InFlightExact, DrainedOnExit
<1> QED
  BY <1>1, <1>2, <1>3, <1>5 DEF IInv

-----------------------------------------------------------------------------

(* What the steps of a reduction and an insertion have in common.  The     *)
(* thread t is on its way with a pair, or seeding, and goes to label; only *)
(* its own hold on the mutex changes; nobody can have returned yet.        *)
LEMMA MoveKeepsIInv ==
  ASSUME IInv, NEW t \in Thread, NEW label,
         pc[t] \in {"build", "reduce", "lock"} \cup Critical,
         pc' = [pc EXCEPT ![t] = label],
         t = Main => label \in {"seed", "reduce", "lock", "done"} \cup Critical,
         t # Main => label \in {"reduce", "lock", "retire", "panicked"} \cup Critical,
         label \in Critical <=> insert_mutex' = t,
         insert_mutex' \in {t, Free, Poisoned} \/ insert_mutex' = insert_mutex,
         insert_mutex' # insert_mutex => insert_mutex \in {t, Free},
         result' = result \/ (label = "done" /\ result' \in {"cancelled", "panicked"}),
         in_flight' = in_flight, cancel' = cancel
  PROVE  IInv'
<1> USE ThreadFacts DEF IInv
<1>1. TypeOK'
  BY DEF TypeOK, Label, Critical
<1>2. \A u \in Thread : u # t => pc'[u] = pc[u]
  BY DEF TypeOK
<1>3. pc'[t] = label
  BY DEF TypeOK
<1>4. t = Main => \A w \in Worker : pc[w] = "unborn"
  BY DEF Phases, Seeding, Critical
<1>5. t # Main => t \in Holding
  BY DEF Holding, Critical
<1>6. Phases'
  BY <1>2, <1>3, <1>4 DEF Phases, MainLabel, WorkerLabel, Seeding, Critical
<1>7. Exclusive'
  BY <1>2, <1>3 DEF Exclusive, TypeOK
<1>8. Holding' = Holding
  BY <1>2, <1>3 DEF Holding, Critical
<1>9. InFlightExact'
  BY <1>8 DEF InFlightExact
<1>10. DrainedOnExit'
  BY <1>2, <1>3, <1>4, <1>5 DEF DrainedOnExit, Critical
<1> QED
  BY <1>1, <1>6, <1>7, <1>9, <1>10

(* Every step of an insertion, and every panic, is such a step.            *)
LEMMA InsertionKeepsIInv ==
  ASSUME IInv, NEW t \in Thread, Insertion(t) \/ Panic(t)
  PROVE  IInv'
<1> USE ThreadFacts DEF IInv, Goto, Continue, Release, Critical, mainVars, localVars
<1> DEFINE moves(label) ==
      /\ pc[t] \in {"build", "reduce", "lock"} \cup Critical
      /\ pc' = [pc EXCEPT ![t] = label]
      /\ t = Main => label \in {"seed", "reduce", "lock", "done"} \cup Critical
      /\ t # Main => label \in {"reduce", "lock", "retire", "panicked"} \cup Critical
      /\ label \in Critical <=> insert_mutex' = t
      /\ insert_mutex' \in {t, Free, Poisoned} \/ insert_mutex' = insert_mutex
      /\ insert_mutex' # insert_mutex => insert_mutex \in {t, Free}
      /\ result' = result \/ (label = "done" /\ result' \in {"cancelled", "panicked"})
      /\ in_flight' = in_flight /\ cancel' = cancel
<1>0. pc[t] \in Critical <=> insert_mutex = t
  BY DEF Exclusive
<1>1. CASE Reduce(t)
  <2>1. moves(pc[t])
    BY <1>0, <1>1 DEF Reduce, TypeOK
  <2> QED  BY <2>1, MoveKeepsIInv
<1>2. CASE ReduceDone(t)
  <2>1. moves(Continue(t)) \/ moves(IF t = Main THEN "done" ELSE "retire")
          \/ moves("lock")
    BY <1>0, <1>2 DEF ReduceDone
  <2> QED  BY <2>1, MoveKeepsIInv
<1>3. CASE Lock(t)
  <2>1. moves("final")
    BY <1>0, <1>3 DEF Lock
  <2> QED  BY <2>1, MoveKeepsIInv
<1>4. CASE FinalDone(t)
  <2>1. moves(Continue(t)) \/ moves("push")
    BY <1>0, <1>4 DEF FinalDone
  <2> QED  BY <2>1, MoveKeepsIInv
<1>5. CASE Push(t)
  <2>1. moves("pairs")
    BY <1>0, <1>5 DEF Push
  <2> QED  BY <2>1, MoveKeepsIInv
<1>6. CASE InsertCancelled(t)
  <2>1. moves(Continue(t))
    BY <1>0, <1>6 DEF InsertCancelled
  <2> QED  BY <2>1, MoveKeepsIInv
<1>7. CASE MakePairs(t)
  <2>1. moves("merge")
    BY <1>0, <1>7 DEF MakePairs
  <2> QED  BY <2>1, MoveKeepsIInv
<1>8. CASE Merge(t)
  <2>1. moves("clear")
    BY <1>0, <1>8 DEF Merge
  <2> QED  BY <2>1, MoveKeepsIInv
<1>9. CASE Clear(t)
  <2>1. moves("clear")
    BY <1>0, <1>9 DEF Clear, TypeOK
  <2> QED  BY <2>1, MoveKeepsIInv
<1>10. CASE ClearDone(t)
  <2>1. moves(Continue(t))
    BY <1>0, <1>10 DEF ClearDone
  <2> QED  BY <2>1, MoveKeepsIInv
<1>11. CASE LockPoisoned(t) \/ Panic(t)
  <2>1. moves(IF t = Main THEN "done" ELSE "panicked")
    BY <1>0, <1>11 DEF LockPoisoned, Panic, Die
  <2> QED  BY <2>1, MoveKeepsIInv
<1> QED
  BY <1>1, <1>2, <1>3, <1>4, <1>5, <1>6, <1>7, <1>8, <1>9, <1>10, <1>11
     DEF Insertion

-----------------------------------------------------------------------------

(* The worker loop around a reduction: what a step does to the workers     *)
(* that hold a pair, and to the count of them.                             *)
LEMMA WorkerLoopKeepsIInv ==
  ASSUME IInv, NEW w \in Worker,
         \/ ExitCancelled(w) \/ Pop(w) \/ ExitDrained(w) \/ Spin(w)
         \/ Build(w) \/ Retire(w)
  PROVE  IInv'
<1> USE ThreadFacts DEF IInv, Goto, mainVars, localVars
<1>0. /\ pc[w] # "unborn" => ~Seeding
      /\ pc[w] # "done" => pc[Main] \notin {"finalise", "tail"} /\ result # "ok"
      /\ pc[w] \in Critical <=> insert_mutex = w
  BY DEF Phases, Exclusive
<1>1. CASE ExitCancelled(w)
  <2>1. TypeOK' /\ Phases' /\ Exclusive'
    BY <1>0, <1>1 DEF ExitCancelled, TypeOK, Phases, Exclusive, Critical,
                      Label, WorkerLabel, Seeding
  <2>2. Holding' = Holding
    BY <1>1 DEF ExitCancelled, Holding, TypeOK
  <2>3. InFlightExact' /\ DrainedOnExit'
    BY <1>1, <2>2 DEF ExitCancelled, InFlightExact, DrainedOnExit
  <2> QED  BY <2>1, <2>3
<1>2. CASE Pop(w)
  <2>1. TypeOK' /\ Phases' /\ Exclusive'
    BY <1>0, <1>2 DEF Pop, TypeOK, Phases, Exclusive, Critical,
                      Label, WorkerLabel, Seeding
  <2>2. w \notin Holding /\ Holding' = Holding \cup {w}
    BY <1>2 DEF Pop, Holding, TypeOK
  <2>3. Cardinality(Holding') = Cardinality(Holding) + 1
    BY <2>2, HoldingFinite, FS_AddElement
  <2>4. InFlightExact'
    BY <1>2, <2>3 DEF Pop, InFlightExact
  <2>5. DrainedOnExit'
    BY <1>2 DEF Pop, DrainedOnExit, TypeOK
  <2> QED  BY <2>1, <2>4, <2>5
<1>3. CASE ExitDrained(w)
  <2>1. TypeOK' /\ Phases' /\ Exclusive'
    BY <1>0, <1>3 DEF ExitDrained, TypeOK, Phases, Exclusive, Critical,
                      Label, WorkerLabel, Seeding
  <2>2. Holding' = Holding
    BY <1>3 DEF ExitDrained, Holding, TypeOK
  <2>3. Holding = {}
    BY <1>3, HoldingFinite, FS_EmptySet DEF ExitDrained, InFlightExact
  <2>4. InFlightExact' /\ DrainedOnExit'
    BY <1>3, <2>2, <2>3 DEF ExitDrained, InFlightExact, DrainedOnExit
  <2> QED  BY <2>1, <2>4
<1>4. CASE Spin(w)
  BY <1>4, UnchangedKeepsIInv DEF Spin
<1>5. CASE Build(w)
  <2>1. \/ pc' = [pc EXCEPT ![w] = "retire"]
        \/ pc' = [pc EXCEPT ![w] = "reduce"]
    BY <1>5 DEF Build
  <2>2. w # Main /\ insert_mutex' = insert_mutex /\ insert_mutex # w
    BY <1>0, <1>5 DEF Build, Critical
  <2> QED
    BY <1>5, <2>1, <2>2, MoveKeepsIInv DEF Build, Critical
<1>6. CASE Retire(w)
  <2>1. w \in Holding /\ Holding' = Holding \ {w}
    BY <1>6 DEF Retire, Holding, TypeOK
  <2>2. /\ Cardinality(Holding) \in Nat
        /\ Cardinality(Holding') = Cardinality(Holding) - 1
        /\ Cardinality(Holding') \in Nat
    BY <2>1, HoldingFinite, FS_RemoveElement, FS_CardinalityType
  <2>3. InFlightExact' /\ in_flight' \in Nat
    BY <1>6, <2>2 DEF Retire, InFlightExact
  <2>4. TypeOK' /\ Phases' /\ Exclusive'
    BY <1>0, <1>6, <2>3 DEF Retire, TypeOK, Phases, Exclusive, Critical,
                            Label, WorkerLabel, Seeding
  <2>5. DrainedOnExit'
    BY <1>6, <2>1 DEF Retire, DrainedOnExit, TypeOK
  <2> QED  BY <2>3, <2>4, <2>5
<1> QED
  BY <1>1, <1>2, <1>3, <1>4, <1>5, <1>6

(* The main thread outside insertions.                                     *)
LEMMA MainKeepsIInv ==
  ASSUME IInv, \/ SeedNext \/ Spawn \/ JoinPanicked \/ JoinAll
               \/ TailNext \/ TailStep \/ TailEnd \/ Finish
  PROVE  IInv'
<1> USE ThreadFacts DEF IInv, Goto, mainVars, localVars
<1>0. \A w \in Worker : pc'[w] = pc[w] \/ (pc[w] = "unborn" /\ pc'[w] = "top")
  BY DEF SeedNext, Spawn, JoinPanicked, JoinAll, TailNext, TailStep, TailEnd,
         Finish, TypeOK, Phases, Seeding
<1>1. Holding' = Holding
  BY <1>0 DEF Holding
<1>2. /\ in_flight' = in_flight /\ l_set' = l_set /\ cancel' = cancel
      /\ insert_mutex' = insert_mutex
  BY DEF SeedNext, Spawn, JoinPanicked, JoinAll, TailNext, TailStep, TailEnd,
         Finish
<1>3. InFlightExact' /\ DrainedOnExit'
  BY <1>0, <1>1, <1>2 DEF InFlightExact, DrainedOnExit
<1>4. CASE SeedNext
  BY <1>2, <1>3, <1>4 DEF SeedNext, TypeOK, Phases, Exclusive, Critical, Label,
                          MainLabel, WorkerLabel, Seeding
<1>5. CASE Spawn
  BY <1>2, <1>3, <1>5 DEF Spawn, TypeOK, Phases, Exclusive, Critical, Label,
                          MainLabel, WorkerLabel, Seeding
<1>6. CASE JoinPanicked
  BY <1>2, <1>3, <1>6 DEF JoinPanicked, TypeOK, Phases, Exclusive, Critical,
                          Label, MainLabel, WorkerLabel, Seeding
<1>7. CASE JoinAll
  BY <1>2, <1>3, <1>7 DEF JoinAll, TypeOK, Phases, Exclusive, Critical, Label,
                          MainLabel, WorkerLabel, Seeding
<1>8. CASE TailNext \/ TailStep \/ TailEnd
  BY <1>2, <1>3, <1>8 DEF TailNext, TailStep, TailEnd, TypeOK, Phases,
                          Exclusive, Critical, Label, MainLabel, WorkerLabel, Seeding
<1>9. CASE Finish
  BY <1>2, <1>3, <1>9 DEF Finish, TypeOK, Phases, Exclusive, Critical, Label,
                          MainLabel, WorkerLabel, Seeding
<1> QED
  BY <1>4, <1>5, <1>6, <1>7, <1>8, <1>9

LEMMA NextKeepsIInv == IInv /\ [Next]_vars => IInv'
<1> SUFFICES ASSUME IInv, [Next]_vars PROVE IInv'
  OBVIOUS
<1>1. CASE MainStep
  BY <1>1, MainKeepsIInv, InsertionKeepsIInv, ThreadFacts DEF MainStep
<1>2. ASSUME NEW w \in Worker, WorkerStep(w) PROVE IInv'
  BY <1>2, WorkerLoopKeepsIInv, InsertionKeepsIInv, ThreadFacts DEF WorkerStep
<1>3. CASE Cancel
  BY <1>3 DEF Cancel, IInv, TypeOK, Phases, Seeding, Exclusive, InFlightExact,
              DrainedOnExit, Holding, localVars, mainVars
<1>4. ASSUME NEW t \in Thread, Panic(t) PROVE IInv'
  BY <1>4, InsertionKeepsIInv
<1>5. CASE UNCHANGED vars
  BY <1>5, UnchangedKeepsIInv
<1> QED
  BY <1>1, <1>2, <1>3, <1>4, <1>5 DEF Next, Returned

LEMMA SpecIInv == Spec => []IInv
BY InitIInv, NextKeepsIInv, PTL DEF Spec

-----------------------------------------------------------------------------
(* The results on control.                                                 *)

(* The control state stays in its type.                                    *)
THEOREM TypeCorrect == Spec => []TypeOK
BY SpecIInv, PTL DEF IInv

(* The counter in_flight never drifts from the number of workers that hold *)
(* a pair, on any path of the worker loop (parallel.rs:166-259).           *)
THEOREM InFlightCorrect == Spec => []InFlightExact
BY SpecIInv, PTL DEF IInv

(* No two threads are between the second reduction and the flag stores of  *)
(* an insertion at once (parallel.rs:384-504).                             *)
THEOREM InsertionsExclusive == Spec => []Exclusive
BY SpecIInv, PTL DEF IInv

(* The termination test is right for any number of workers: one that sees  *)
(* an empty queue and a zero counter under the L lock leaves nothing       *)
(* behind, and nothing appears later.                                      *)
THEOREM NothingLeftBehind == Spec => []DrainedOnExit
BY SpecIInv, PTL DEF IInv

(* A basis is never returned when a worker has panicked.                   *)
THEOREM PanicIsNeverOk == Spec => []PanicNeverOk
<1>1. IInv => PanicNeverOk
  BY DEF IInv, Phases, PanicNeverOk
<1> QED
  BY <1>1, SpecIInv, PTL

(* A call that saw the flag before its final poll can no longer succeed.   *)
Doomed == cancel /\ result # "ok" /\ pc[Main] \notin {"finalise", "tail"}

LEMMA DoomedIsStable == IInv /\ Doomed /\ [Next]_vars => Doomed'
<1> SUFFICES ASSUME IInv, Doomed, [Next]_vars PROVE Doomed'
  OBVIOUS
<1> USE ThreadFacts DEF Doomed, Goto, mainVars, localVars
<1>0. pc \in [Thread -> Label]
  BY DEF IInv, TypeOK
<1>1. ASSUME NEW t \in Thread, Insertion(t) PROVE Doomed'
  BY <1>0, <1>1 DEF Insertion, Reduce, ReduceDone, Lock, LockPoisoned, Die,
     FinalDone, Push, InsertCancelled, MakePairs, Merge, Clear, ClearDone,
     Release, Continue
<1>2. CASE MainStep
  BY <1>0, <1>1, <1>2 DEF MainStep, SeedNext, Spawn, JoinPanicked, JoinAll,
     TailNext, TailStep, TailEnd, Finish
<1>3. ASSUME NEW w \in Worker, WorkerStep(w) PROVE Doomed'
  BY <1>0, <1>1, <1>3 DEF WorkerStep, ExitCancelled, Pop, ExitDrained, Spin,
     Build, Retire, vars
<1>4. CASE Cancel \/ UNCHANGED vars
  BY <1>4 DEF Cancel, vars
<1>5. ASSUME NEW t \in Thread, Panic(t) PROVE Doomed'
  BY <1>0, <1>5 DEF Panic, Die
<1> QED
  BY <1>2, <1>3, <1>4, <1>5 DEF Next, Returned

(* A flag raised before the final poll is honoured, whatever state the     *)
(* insertion it interrupts leaves the basis in (parallel.rs:112-150).      *)
THEOREM CancelIsHonoured == Spec => CancelHonoured
<1>1. IInv /\ cancel /\ pc[Main] \notin {"finalise", "tail", "done"} => Doomed
  BY DEF IInv, Phases, Doomed
<1>2. Doomed => result # "ok"
  BY DEF Doomed
<1> QED
  BY <1>1, <1>2, SpecIInv, DoomedIsStable, PTL DEF Spec, CancelHonoured

-----------------------------------------------------------------------------
(* The basis and the snapshot.                                             *)

(* The two arrays of SharedSBasis are parallel, and every thread has its   *)
(* locals.                                                                 *)
Shapes ==
  /\ \E S : polys \in Seq(S)
  /\ redundant \in Seq(BOOLEAN)
  /\ Len(redundant) = Len(polys)
  /\ lobj = [t \in Thread |-> lobj[t]]
  /\ bset = [t \in Thread |-> bset[t]]
  /\ h_idx = [t \in Thread |-> h_idx[t]]

(* No older active element divides a newer one; a newer one divides an     *)
(* older one only if it is the last and its insertion is not yet over.     *)
Ordered ==
  ~cancel =>
    \A i, k \in Active : i < k =>
      /\ ~Divides(LM(polys[i]), LM(polys[k]))
      /\ \/ ~Divides(LM(polys[k]), LM(polys[i]))
         \/ k = Len(polys) /\ \E t \in Thread : pc[t] \in {"pairs", "merge", "clear"}

(* What the thread inside an insertion knows about the newest element.     *)
Newest ==
  \A t \in Thread :
    /\ pc[t] = "push" /\ ~cancel =>
         Divisors(polys, redundant, LM(lobj[t].poly)) = {}
    /\ pc[t] \in {"pairs", "merge", "clear"} => h_idx[t] = Len(polys)

BasisInv == Shapes /\ Ordered /\ Newest /\ SnapshotFresh

-----------------------------------------------------------------------------

(* Replacing the value of a function at one point, or of a sequence.       *)
LEMMA ExceptShape ==
  ASSUME NEW f, NEW D, f = [d \in D |-> f[d]], NEW x, NEW v, NEW g,
         g = [f EXCEPT ![x] = v]
  PROVE  g = [d \in D |-> g[d]]
OBVIOUS

LEMMA UpdateSeq ==
  ASSUME NEW S, NEW s \in Seq(S), NEW i, NEW v
  PROVE  /\ [s EXCEPT ![i] = v] \in Seq(S \cup {v})
         /\ Len([s EXCEPT ![i] = v]) = Len(s)
<1> DEFINE g == [s EXCEPT ![i] = v]
<1>1. g = [k \in 1 .. Len(s) |-> IF k = i THEN v ELSE s[k]]
  OBVIOUS
<1>2. \A k \in 1 .. Len(s) : g[k] \in S \cup {v}
  BY <1>1
<1>3. g \in [1 .. Len(s) -> S \cup {v}]
  BY <1>1, <1>2
<1>4. g \in Seq(S \cup {v})
  BY <1>3, SeqDef, LenProperties
<1>5. Len(g) = Len(s)
  BY <1>3, <1>4, LenProperties
<1> QED
  BY <1>4, <1>5

LEMMA AppendSeq ==
  ASSUME NEW S, NEW s \in Seq(S), NEW v
  PROVE  /\ Append(s, v) \in Seq(S \cup {v})
         /\ Len(Append(s, v)) = Len(s) + 1
         /\ \A i \in 1 .. Len(s) : Append(s, v)[i] = s[i]
         /\ Append(s, v)[Len(s) + 1] = v
OBVIOUS

LEMMA AppendFlag ==
  ASSUME NEW s \in Seq(BOOLEAN)
  PROVE  \A i \in 1 .. Len(s) : Append(s, FALSE)[i] = s[i]
BY AppendSeq

LEMMA InsertionKeepsShapes ==
  ASSUME Shapes, NEW t \in Thread, Insertion(t) \/ Panic(t)
  PROVE  Shapes'
<1> USE ExceptShape DEF basisVars, mainVars, localVars, Goto, Release, Continue
<1>1. CASE Reduce(t)
  BY <1>1 DEF Shapes, Reduce
<1>2. CASE ReduceDone(t)
  BY <1>2 DEF Shapes, ReduceDone
<1>3. CASE Lock(t) \/ LockPoisoned(t) \/ Panic(t)
  BY <1>3 DEF Shapes, Lock, LockPoisoned, Panic, Die
<1>4. CASE FinalDone(t)
  BY <1>4 DEF Shapes, FinalDone
<1>5. CASE Push(t)
  <2>1. PICK S : polys \in Seq(S)
    BY DEF Shapes
  <2>2. polys' \in Seq(S \cup {lobj[t].poly}) /\ Len(polys') = Len(polys) + 1
    BY <1>5, <2>1, AppendSeq DEF Push
  <2>3. redundant' \in Seq(BOOLEAN) /\ Len(redundant') = Len(redundant) + 1
    BY <1>5 DEF Push, Shapes
  <2> QED
    BY <1>5, <2>2, <2>3 DEF Push, Shapes
<1>6. CASE InsertCancelled(t)
  BY <1>6 DEF Shapes, InsertCancelled
<1>7. CASE MakePairs(t)
  BY <1>7 DEF Shapes, MakePairs
<1>8. CASE Merge(t)
  BY <1>8 DEF Shapes, Merge
<1>9. CASE Clear(t)
  <2>1. PICK i : redundant' = [redundant EXCEPT ![i] = TRUE]
    BY <1>9 DEF Clear
  <2>0. redundant \in Seq(BOOLEAN)
    BY DEF Shapes
  <2>2. /\ [redundant EXCEPT ![i] = TRUE] \in Seq(BOOLEAN \cup {TRUE})
        /\ Len([redundant EXCEPT ![i] = TRUE]) = Len(redundant)
    BY <2>0, UpdateSeq
  <2>3. BOOLEAN \cup {TRUE} = BOOLEAN
    OBVIOUS
  <2>4. redundant' \in Seq(BOOLEAN) /\ Len(redundant') = Len(redundant)
    BY <2>1, <2>2, <2>3
  <2> QED
    BY <1>9, <2>4 DEF Clear, Shapes
<1>10. CASE ClearDone(t)
  BY <1>10 DEF Shapes, ClearDone
<1> QED
  BY <1>1, <1>2, <1>3, <1>4, <1>5, <1>6, <1>7, <1>8, <1>9, <1>10 DEF Insertion

LEMMA NextKeepsShapes == Shapes /\ [Next]_vars => Shapes'
<1> SUFFICES ASSUME Shapes, [Next]_vars PROVE Shapes'
  OBVIOUS
<1> USE ThreadFacts, ExceptShape DEF basisVars, mainVars, localVars, Goto
<1>1. CASE SeedNext \/ Spawn \/ JoinPanicked \/ JoinAll \/ TailNext \/ TailStep \/ Finish
  BY <1>1 DEF Shapes, SeedNext, Spawn, JoinPanicked, JoinAll, TailNext,
              TailStep, Finish
<1>2. CASE TailEnd
  <2>1. PICK S : polys \in Seq(S)
    BY DEF Shapes
  <2>2. PICK v : polys' = [polys EXCEPT ![tail.at] = v]
    BY <1>2 DEF TailEnd
  <2>3. polys' \in Seq(S \cup {v}) /\ Len(polys') = Len(polys)
    BY <2>1, <2>2, UpdateSeq, Zenon
  <2> QED
    BY <1>2, <2>3 DEF Shapes, TailEnd
<1>3. ASSUME NEW t \in Thread, Insertion(t) \/ Panic(t) PROVE Shapes'
  BY <1>3, InsertionKeepsShapes
<1>4. ASSUME NEW w \in Worker, WorkerStep(w) PROVE Shapes'
  BY <1>3, <1>4 DEF Shapes, WorkerStep, ExitCancelled, Pop, ExitDrained, Spin,
                    Build, Retire, vars
<1>5. CASE Cancel \/ UNCHANGED vars
  BY <1>5 DEF Shapes, Cancel, vars
<1> QED
  BY <1>1, <1>2, <1>3, <1>4, <1>5 DEF Next, MainStep, Returned

(* Only the thread inside an insertion writes to the shared arrays.        *)
LEMMA OnlyOneInside ==
  ASSUME IInv, NEW t \in Thread, NEW u \in Thread,
         pc[t] \in Critical, pc[u] \in Critical
  PROVE  t = u
BY DEF IInv, Exclusive

(* A step is quiet for thread u when it brings u neither to "push" nor to  *)
(* "pairs", nor out of the section after it.                               *)
Quiet(u) ==
  /\ pc[u] = "clear" /\ ~cancel' => pc'[u] = "clear"
  /\ pc[u] \in {"pairs", "merge"} /\ ~cancel' => pc'[u] \in {"pairs", "merge", "clear"}
  /\ pc'[u] = "push" => pc[u] = "push" /\ lobj'[u] = lobj[u]
  /\ pc'[u] \in {"pairs", "merge", "clear"} =>
       pc[u] \in {"pairs", "merge", "clear"} /\ h_idx'[u] = h_idx[u]
  /\ pc'[u] = "merge" =>
       pc[u] = "merge" /\ bset'[u] = bset[u] /\ lobj'[u] = lobj[u]

(* A step that leaves the arrays alone and is quiet for every thread.       *)
LEMMA QuietKeepsBasisInv ==
  ASSUME IInv, BasisInv, UNCHANGED <<polys, redundant>>, cancel => cancel',
         Shapes',
         \A u \in Thread : Quiet(u)
  PROVE  BasisInv'
<1>2. Ordered'
  BY DEF BasisInv, Ordered, Active, Quiet
<1>3. Newest'
  BY DEF BasisInv, Newest, Quiet
<1>4. SnapshotFresh'
  <2> SUFFICES ASSUME NEW t \in Thread, pc'[t] = "merge"
               PROVE  bset'[t] = ChainCritB(Candidates(t)')
    BY DEF SnapshotFresh
  <2>1. Candidates(t)' = Candidates(t)
    BY DEF Candidates, Quiet
  <2> QED
    BY <2>1 DEF BasisInv, SnapshotFresh, Quiet
<1> QED
  BY <1>2, <1>3, <1>4 DEF BasisInv

LEMMA InsertionKeepsBasisInv ==
  ASSUME IInv, BasisInv, Shapes', NEW t \in Thread, Insertion(t) \/ Panic(t)
  PROVE  BasisInv'
<1> USE ThreadFacts DEF basisVars, mainVars, localVars, Goto, Release, Continue
<1>0. /\ Shapes
      /\ pc = [u \in Thread |-> pc[u]]
      /\ \A u \in Thread \ {t} : pc[t] \in Critical => pc[u] \notin Critical
  BY OnlyOneInside DEF BasisInv, IInv, TypeOK
<1>1. CASE Reduce(t)
  <2>1. Quiet(t)
    BY <1>0, <1>1 DEF Reduce, Quiet
  <2>2. \A u \in Thread \ {t} : Quiet(u)
    BY <1>0, <1>1 DEF Reduce, Quiet, Shapes
  <2> QED  BY <1>1, <2>1, <2>2, QuietKeepsBasisInv DEF Reduce
<1>2. CASE ReduceDone(t)
  <2>1. Quiet(t)
    BY <1>0, <1>2 DEF ReduceDone, Quiet
  <2>2. \A u \in Thread \ {t} : Quiet(u)
    BY <1>0, <1>2, ZenonT(60) DEF ReduceDone, Quiet, Shapes
  <2> QED  BY <1>2, <2>1, <2>2, QuietKeepsBasisInv DEF ReduceDone
<1>3. CASE Lock(t) \/ LockPoisoned(t) \/ Panic(t)
  <2>1. Quiet(t)
    BY <1>0, <1>3 DEF Lock, LockPoisoned, Panic, Die, Quiet
  <2>2. \A u \in Thread \ {t} : Quiet(u)
    BY <1>0, <1>3 DEF Lock, LockPoisoned, Panic, Die, Quiet, Shapes
  <2> QED
    BY <1>3, <2>1, <2>2, QuietKeepsBasisInv DEF Lock, LockPoisoned, Panic, Die
<1>4. CASE FinalDone(t)
  <2>1. CASE pc'[t] = "push"
    <3>1. Newest'
      <4>1. lobj'[t] = MonicObject(lobj[t]) /\ UNCHANGED <<polys, redundant, cancel, h_idx>>
        BY <1>0, <1>4, <2>1 DEF FinalDone, Shapes
      <4>2. ~cancel => Divisors(polys, redundant, LM(lobj[t].poly)) = {}
        <5> SUFFICES ASSUME ~cancel PROVE Divisors(polys, redundant, LM(lobj[t].poly)) = {}
          OBVIOUS
        <5>1. pc[t] = "final" /\ lobj[t].poly # Zero
          BY <1>0, <1>4, <2>1 DEF FinalDone, Continue
        <5>2. PICK flags \in Views(t) : ~Reducible(polys, flags, lobj[t].poly)
          BY <1>4 DEF FinalDone, Reduced
        <5>3. \A i \in DOMAIN redundant : flags[i] = redundant[i]
          BY <1>0, <5>1, <5>2 DEF Views, Shapes
        <5>4. DOMAIN redundant = DOMAIN polys
          BY <1>0 DEF Shapes
        <5> QED
          BY <5>1, <5>2, <5>3, <5>4 DEF Reducible, Divisors
      <4>3. LM(MonicObject(lobj[t]).poly) = LM(lobj[t].poly)
        BY DEF LM, MonicObject, LObject, Monic
      <4>4. \A u \in Thread \ {t} : pc'[u] \notin Critical
        BY <1>0, <1>4 DEF FinalDone, Critical
      <4> QED
        BY <2>1, <4>1, <4>2, <4>3, <4>4 DEF Newest, Critical
    <3>2. Ordered'
      BY <1>0, <1>4 DEF FinalDone, BasisInv, Ordered, Active, Critical
    <3>3. SnapshotFresh'
      <4>1. \A u \in Thread \ {t} : pc[u] # "merge" /\ pc'[u] = pc[u]
        BY <1>0, <1>4 DEF FinalDone, Critical
      <4> QED  BY <2>1, <4>1 DEF SnapshotFresh
    <3> QED
      BY <3>1, <3>2, <3>3 DEF BasisInv
  <2>2. CASE pc'[t] # "push"
    <3>1. Quiet(t)
      BY <1>0, <1>4, <2>2 DEF FinalDone, Quiet
    <3>2. \A u \in Thread \ {t} : Quiet(u)
      BY <1>0, <1>4, ZenonT(60) DEF FinalDone, Quiet, Shapes
    <3> QED  BY <1>4, <3>1, <3>2, QuietKeepsBasisInv DEF FinalDone
  <2> QED  BY <2>1, <2>2
<1>5. CASE Push(t)
  <2> DEFINE n == Len(polys)
  <2>1. \A u \in Thread \ {t} : pc[u] \notin Critical /\ pc'[u] \notin Critical
    BY <1>0, <1>5 DEF Push, Critical
  <2>2. pc'[t] = "pairs" /\ h_idx'[t] = n + 1
    BY <1>0, <1>5 DEF Push, Shapes
  <2>3. PICK S : polys \in Seq(S)
    BY <1>0 DEF Shapes
  <2>4. /\ n \in Nat /\ Len(polys') = n + 1 /\ DOMAIN polys = 1 .. n
        /\ DOMAIN polys' = 1 .. n + 1
        /\ \A i \in 1 .. n : polys'[i] = polys[i]
        /\ polys'[n + 1] = lobj[t].poly
    BY <1>5, <2>3, AppendSeq DEF Push
  <2>5. \A i \in 1 .. n : redundant'[i] = redundant[i]
    <3>1. redundant \in Seq(BOOLEAN) /\ Len(redundant) = n
      BY <1>0 DEF Shapes
    <3>2. \A i \in 1 .. Len(redundant) : Append(redundant, FALSE)[i] = redundant[i]
      BY <3>1, AppendFlag, Zenon
    <3>3. redundant' = Append(redundant, FALSE)
      BY <1>5 DEF Push
    <3> QED  BY ONLY <3>1, <3>2, <3>3
  <2>6. Newest'
    BY <2>1, <2>2, <2>4 DEF Newest, Critical
  <2>7. SnapshotFresh'
    BY <2>1, <2>2 DEF SnapshotFresh, Critical
  <2>8. Ordered'
    <3> SUFFICES ASSUME ~cancel, NEW i \in Active', NEW k \in Active', i < k
                 PROVE  /\ ~Divides(LM(polys'[i]), LM(polys'[k]))
                        /\ k # n + 1 => ~Divides(LM(polys'[k]), LM(polys'[i]))
      BY <1>5, <2>2, <2>4 DEF Push, Ordered
    <3>1. i \in 1 .. n /\ i \in Active /\ k \in 1 .. n + 1
      BY <2>4, <2>5 DEF Active
    <3>2. CASE k = n + 1
      <4>1. Divisors(polys, redundant, LM(lobj[t].poly)) = {}
        BY <1>5 DEF Push, BasisInv, Newest
      <4> QED
        BY <2>4, <3>1, <3>2, <4>1 DEF Divisors, Active
    <3>3. CASE k # n + 1
      <4>1. k \in 1 .. n /\ k \in Active
        BY <2>4, <2>5, <3>1, <3>3 DEF Active
      <4>2. \A u \in Thread : pc[u] \notin {"pairs", "merge", "clear"}
        BY <1>5, <2>1 DEF Push, Critical
      <4> QED
        BY <2>4, <3>1, <4>1, <4>2 DEF BasisInv, Ordered
    <3> QED  BY <3>2, <3>3
  <2> QED
    BY <2>6, <2>7, <2>8 DEF BasisInv
<1>6. CASE InsertCancelled(t)
  <2>1. Quiet(t)
    BY <1>0, <1>6 DEF InsertCancelled, Quiet
  <2>2. \A u \in Thread \ {t} : Quiet(u)
    BY <1>0, <1>6 DEF InsertCancelled, Quiet, Shapes
  <2> QED  BY <1>6, <2>1, <2>2, QuietKeepsBasisInv DEF InsertCancelled
<1>7. CASE MakePairs(t)
  <2>1. \A u \in Thread \ {t} : pc'[u] \notin Critical
    BY <1>0, <1>7 DEF MakePairs, Critical
  <2>2. pc'[t] = "merge" /\ bset'[t] = ChainCritB(Candidates(t))
    BY <1>0, <1>7 DEF MakePairs, Shapes
  <2>3. Candidates(t)' = Candidates(t)
    BY <1>7 DEF MakePairs, Candidates
  <2>4. SnapshotFresh'
    BY <2>1, <2>2, <2>3 DEF SnapshotFresh, Critical
  <2>5. Newest'
    BY <1>7, <2>1, <2>2 DEF MakePairs, BasisInv, Newest, Critical
  <2>6. Ordered'
    BY <1>7, <2>2 DEF MakePairs, BasisInv, Ordered, Active
  <2> QED
    BY <2>4, <2>5, <2>6 DEF BasisInv
<1>8. CASE Merge(t)
  <2>1. Quiet(t)
    BY <1>0, <1>8 DEF Merge, Quiet
  <2>2. \A u \in Thread \ {t} : Quiet(u)
    BY <1>0, <1>8 DEF Merge, Quiet, Shapes
  <2> QED  BY <1>8, <2>1, <2>2, QuietKeepsBasisInv DEF Merge
<1>9. CASE Clear(t)
  <2>1. PICK i : redundant' = [redundant EXCEPT ![i] = TRUE]
    BY <1>9 DEF Clear
  <2>2. Active' \subseteq Active
    BY <1>0, <1>9, <2>1 DEF Clear, Active, Shapes
  <2>3. \A u \in Thread : pc[u] \notin {"push", "merge"}
    BY <1>0, <1>9 DEF Clear, Critical
  <2>4. Newest' /\ SnapshotFresh'
    BY <1>9, <2>3 DEF Clear, BasisInv, Newest, SnapshotFresh
  <2>5. Ordered'
    BY <1>9, <2>2 DEF Clear, BasisInv, Ordered
  <2> QED
    BY <2>4, <2>5 DEF BasisInv
<1>10. CASE ClearDone(t)
  <2>1. \A u \in Thread : pc'[u] \notin Critical
    BY <1>0, <1>10 DEF ClearDone, Critical
  <2>2. Newest' /\ SnapshotFresh'
    BY <2>1 DEF Newest, SnapshotFresh, Critical
  <2>3. h_idx[t] = Len(polys)
    BY <1>10 DEF ClearDone, BasisInv, Newest
  <2>6. DOMAIN polys = 1 .. Len(polys) /\ Len(polys) \in Nat
    BY <1>0 DEF Shapes
  <2>4. \A i, k \in Active : i < k /\ k = Len(polys) => ~Divides(LM(polys[k]), LM(polys[i]))
    BY <1>10, <2>3, <2>6 DEF ClearDone, Covered, Active
  <2>5. Ordered'
    BY <1>10, <2>4 DEF ClearDone, BasisInv, Ordered, Active
  <2> QED
    BY <2>2, <2>5 DEF BasisInv
<1> QED
  BY <1>1, <1>2, <1>3, <1>4, <1>5, <1>6, <1>7, <1>8, <1>9, <1>10 DEF Insertion

(* A thread that stays where it is with what it has, or outside.           *)
LEMMA SameIsQuiet ==
  ASSUME NEW u,
         \/ pc[u] \notin Critical /\ pc'[u] \notin Critical
         \/ /\ pc'[u] = pc[u] /\ lobj'[u] = lobj[u]
            /\ bset'[u] = bset[u] /\ h_idx'[u] = h_idx[u]
  PROVE  Quiet(u)
BY DEF Quiet, Critical

LEMMA NextKeepsBasisInv == IInv /\ BasisInv /\ [Next]_vars => BasisInv'
<1> SUFFICES ASSUME IInv, BasisInv, [Next]_vars PROVE BasisInv'
  OBVIOUS
<1> USE ThreadFacts DEF basisVars, mainVars, localVars, Goto
<1>0. Shapes /\ Shapes' /\ pc = [u \in Thread |-> pc[u]]
  BY NextKeepsShapes DEF BasisInv, IInv, TypeOK
<1>1. CASE SeedNext \/ Spawn \/ JoinPanicked \/ JoinAll \/ TailNext \/ TailStep \/ Finish
  <2>1. UNCHANGED <<polys, redundant, cancel, h_idx, bset>>
    BY <1>1 DEF SeedNext, Spawn, JoinPanicked, JoinAll, TailNext, TailStep, Finish
  <2>2. pc[Main] \notin Critical /\ pc'[Main] \notin Critical
    BY <1>0, <1>1 DEF SeedNext, Spawn, JoinPanicked, JoinAll, TailNext, TailStep,
       Finish, Critical
  <2>3. \A u \in Worker : lobj'[u] = lobj[u]
    BY <1>0, <1>1 DEF SeedNext, Spawn, JoinPanicked, JoinAll, TailNext, TailStep,
       Finish, Shapes
  <2>4. CASE Spawn
    <3>1. \A u \in Worker : pc[u] = "unborn" /\ pc'[u] \in {"unborn", "top"}
      BY <1>0, <2>4 DEF Spawn, IInv, Phases, Seeding
    <3> QED
      BY <1>0, <2>1, <2>2, <3>1, SameIsQuiet, QuietKeepsBasisInv DEF Critical
  <2>5. CASE ~Spawn
    <3>1. \A u \in Worker : pc'[u] = pc[u]
      BY <1>0, <1>1, <2>5 DEF SeedNext, JoinPanicked, JoinAll, TailNext, TailStep,
         Finish
    <3>2. \A u \in Thread : Quiet(u)
      BY <2>1, <2>2, <2>3, <3>1, SameIsQuiet
    <3> QED
      BY <1>0, <2>1, <3>2, QuietKeepsBasisInv
  <2> QED  BY <2>4, <2>5
<1>2. CASE TailEnd
  <2>1. \A u \in Thread : pc[u] \notin Critical /\ pc'[u] \notin Critical
    BY <1>0, <1>2 DEF TailEnd, IInv, Phases, Critical
  <2>2. Newest' /\ SnapshotFresh'
    BY <2>1 DEF Newest, SnapshotFresh, Critical
  <2>3. DOMAIN polys' = DOMAIN polys /\ UNCHANGED <<redundant, cancel>>
    BY <1>2 DEF TailEnd
  <2>4. \A i \in DOMAIN polys : LM(polys'[i]) = LM(polys[i])
    BY <1>2 DEF TailEnd, LM, Monic, PrependLeading
  <2>5. Active' = Active
    BY <2>3 DEF Active
  <2>6. \A u \in Thread : pc[u] \notin {"pairs", "merge", "clear"}
    BY <2>1 DEF Critical
  <2>7. Ordered'
    BY <2>3, <2>4, <2>5, <2>6 DEF BasisInv, Ordered, Active
  <2> QED
    BY <1>0, <2>2, <2>7 DEF BasisInv
<1>3. ASSUME NEW t \in Thread, Insertion(t) \/ Panic(t) PROVE BasisInv'
  BY <1>0, <1>3, InsertionKeepsBasisInv
<1>4. ASSUME NEW w \in Worker, ExitCancelled(w) \/ Pop(w) \/ ExitDrained(w)
                               \/ Spin(w) \/ Build(w) \/ Retire(w)
      PROVE  BasisInv'
  <2>1. UNCHANGED <<polys, redundant, cancel, h_idx, bset>>
    BY <1>4 DEF ExitCancelled, Pop, ExitDrained, Spin, Build, Retire, vars
  <2>2. /\ pc[w] \notin Critical /\ pc'[w] \notin Critical
        /\ \A u \in Thread \ {w} : pc'[u] = pc[u] /\ lobj'[u] = lobj[u]
    BY <1>0, <1>4 DEF ExitCancelled, Pop, ExitDrained, Spin, Build, Retire, vars,
       Shapes, Critical
  <2>3. \A u \in Thread : Quiet(u)
    BY <2>1, <2>2, SameIsQuiet
  <2> QED  BY <1>0, <2>1, <2>3, QuietKeepsBasisInv
<1>5. CASE Cancel \/ UNCHANGED vars
  <2>1. \A u \in Thread : Quiet(u)
    BY <1>5 DEF Cancel, vars, Quiet
  <2> QED  BY <1>0, <1>5, <2>1, QuietKeepsBasisInv DEF Cancel, vars
<1> QED
  BY <1>1, <1>2, <1>3, <1>4, <1>5 DEF Next, MainStep, WorkerStep, Returned

LEMMA InitBasisInv == Init => BasisInv
<1> SUFFICES ASSUME Init PROVE BasisInv
  OBVIOUS
<1>1. << >> \in Seq({}) /\ << >> \in Seq(BOOLEAN)
  OBVIOUS
<1>2. Shapes
  BY <1>1 DEF Init, Shapes
<1>3. Ordered
  BY DEF Init, Ordered, Active
<1>4. \A t \in Thread : pc[t] \in {"seed", "unborn"}
  BY DEF Init
<1> QED
  BY <1>2, <1>3, <1>4 DEF BasisInv, Newest, SnapshotFresh

LEMMA SpecBasisInv == Spec => [](IInv /\ BasisInv)
BY InitIInv, NextKeepsIInv, InitBasisInv, NextKeepsBasisInv, PTL DEF Spec

-----------------------------------------------------------------------------

(* The candidate pairs an insertion merges are those of the basis as it    *)
(* still is: no other thread has changed it since the snapshot             *)
(* (parallel.rs:413-477).                                                  *)
THEOREM SnapshotIsFresh == Spec => []SnapshotFresh
BY SpecBasisInv, PTL DEF BasisInv

(* The claim of the documentation of insert_mutex (computation.rs:291-297):*)
(* between insertions, no two active elements' leading monomials divide    *)
(* one another.                                                            *)
THEOREM BasisIsAntichain == Spec => []ActiveAntichain
<1>1. IInv /\ BasisInv => ActiveAntichain
  <2> SUFFICES ASSUME IInv, BasisInv, insert_mutex \notin Thread, ~cancel,
                      NEW i \in Active, NEW k \in Active, i # k
               PROVE  ~Divides(LM(polys[i]), LM(polys[k]))
    BY DEF ActiveAntichain
  <2>1. \A t \in Thread : pc[t] \notin {"pairs", "merge", "clear"}
    BY DEF IInv, Exclusive, Critical
  <2>2. i < k \/ k < i
    BY DEF Active, BasisInv, Shapes
  <2> QED
    BY <2>1, <2>2 DEF BasisInv, Ordered
<1> QED
  BY <1>1, SpecBasisInv, PTL

-----------------------------------------------------------------------------
(* Polynomials are still reduced; finalise_basis has not begun.            *)
Running == pc[Main] \notin {"finalise", "tail"} /\ result # "ok"

(* The newest element is active, and covers for those it makes redundant.  *)
Leaders ==
  /\ \A i \in DOMAIN polys : LM(polys[i]) \in Monomial
  /\ polys # << >> => ~redundant[Len(polys)]
  /\ DivisorKept

Grades ==
  /\ Running => \A i \in DOMAIN polys : Graded(polys[i])
  /\ \A t \in Thread : Sweet(lobj[t])
  /\ \E S : input \in Seq(S)
  /\ \A k \in DOMAIN input : Graded(input[k])

Queued ==
  /\ next_arrival \in Nat
  /\ \A p \in l_set : PairIn(polys, p) /\ p.arrival \in Nat /\ p.arrival < next_arrival
  /\ \A p, q \in l_set : p.arrival = q.arrival => p = q
  /\ pair = [t \in Thread |-> pair[t]]
  /\ \A w \in Worker : pc[w] = "build" => PairIn(polys, pair[w])
  /\ \A t \in Thread : pc[t] \in {"pairs", "merge", "clear"} => polys # << >>

WorkInv == Leaders /\ Grades /\ Queued

-----------------------------------------------------------------------------

(* A thread with a polynomial or a pair in hand works before finalise.     *)
LEMMA AtWork ==
  ASSUME IInv, NEW t \in Thread,
         pc[t] \in {"build", "reduce", "lock"} \cup Critical
  PROVE  Running
BY ThreadFacts DEF IInv, Phases, Running, Critical

(* finalise_basis comes last.                                              *)
LEMMA RunningIsOver == IInv /\ [Next]_vars /\ Running' => Running
<1> SUFFICES ASSUME IInv, [Next]_vars, ~Running PROVE ~Running'
  OBVIOUS
<1> USE ThreadFacts DEF Running, Goto, mainVars, localVars
<1>0. /\ pc \in [Thread -> Label]
      /\ \A w \in Worker : pc[w] = "done"
      /\ pc[Main] \in {"finalise", "tail", "done"}
      /\ pc[Main] = "done" => result = "ok"
  BY DEF IInv, TypeOK, Phases
<1>1. ASSUME NEW t \in Thread, Insertion(t) PROVE ~Running'
  BY <1>0, <1>1 DEF Insertion, Reduce, ReduceDone, Lock, LockPoisoned,
     FinalDone, Push, InsertCancelled, MakePairs, Merge, Clear, ClearDone
<1>2. CASE MainStep
  BY <1>0, <1>1, <1>2 DEF MainStep, SeedNext, Spawn, JoinPanicked, JoinAll,
     TailNext, TailStep, TailEnd, Finish
<1>3. ASSUME NEW w \in Worker, WorkerStep(w) PROVE ~Running'
  BY <1>0, <1>1, <1>3 DEF WorkerStep, ExitCancelled, Pop, ExitDrained, Spin,
     Build, Retire
<1>4. ASSUME NEW t \in Thread, Panic(t) PROVE ~Running'
  BY <1>0, <1>4 DEF Panic
<1>5. CASE Cancel \/ UNCHANGED vars
  BY <1>5 DEF Cancel, vars
<1> QED
  BY <1>1, <1>2, <1>3, <1>4, <1>5 DEF Next, Returned

(* The steps that write to the basis, and those that write to the queue.   *)
LEMMA Writers ==
  ASSUME [Next]_vars
  PROVE  /\ \/ UNCHANGED <<polys, redundant>>
            \/ TailEnd
            \/ \E t \in Thread : Push(t) \/ Clear(t)
         /\ \/ UNCHANGED <<l_set, next_arrival>>
            \/ \E t \in Thread : Push(t) \/ Merge(t)
            \/ \E w \in Worker : Pop(w)
<1> USE DEF basisVars, mainVars, localVars
<1>1. ASSUME NEW t \in Thread, Insertion(t) \/ Panic(t)
      PROVE  /\ UNCHANGED <<polys, redundant>> \/ Push(t) \/ Clear(t)
             /\ UNCHANGED <<l_set, next_arrival>> \/ Push(t) \/ Merge(t)
  BY <1>1 DEF Insertion, Reduce, ReduceDone, Lock, LockPoisoned, Panic, Die,
     FinalDone, InsertCancelled, MakePairs, Merge, Clear, ClearDone
<1>2. ASSUME NEW w \in Worker, ExitCancelled(w) \/ Pop(w) \/ ExitDrained(w)
                               \/ Spin(w) \/ Build(w) \/ Retire(w)
      PROVE  /\ UNCHANGED <<polys, redundant>>
             /\ UNCHANGED <<l_set, next_arrival>> \/ Pop(w)
  BY <1>2 DEF ExitCancelled, Pop, ExitDrained, Spin, Build, Retire, vars
<1>3. CASE SeedNext \/ Spawn \/ JoinPanicked \/ JoinAll \/ TailNext \/ TailStep
           \/ TailEnd \/ Finish \/ Cancel \/ UNCHANGED vars
  BY <1>3 DEF SeedNext, Spawn, JoinPanicked, JoinAll, TailNext, TailStep,
     TailEnd, Finish, Cancel, vars
<1> QED
  BY <1>1, <1>2, <1>3, ThreadFacts DEF Next, MainStep, WorkerStep, Returned

(* No element ever goes away or changes its leading monomial.              *)
LEMMA LeadersStay ==
  ASSUME Shapes, [Next]_vars
  PROVE  /\ DOMAIN polys \subseteq DOMAIN polys'
         /\ \A i \in DOMAIN polys : LM(polys'[i]) = LM(polys[i])
         /\ polys # << >> => polys' # << >>
<1>1. PICK S : polys \in Seq(S)
  BY DEF Shapes
<1>2. CASE UNCHANGED <<polys, redundant>>
  BY <1>2
<1>3. CASE TailEnd
  <2>1. PICK v : polys' = [polys EXCEPT ![tail.at] = v]
    BY <1>3 DEF TailEnd
  <2>2. polys' \in Seq(S \cup {v}) /\ Len(polys') = Len(polys)
    BY <1>1, <2>1, UpdateSeq, Zenon
  <2>3. \A i \in DOMAIN polys : LM(polys'[i]) = LM(polys[i])
    BY <1>3 DEF TailEnd, LM, Monic, PrependLeading
  <2> QED
    BY <1>1, <2>2, <2>3
<1>4. ASSUME NEW t \in Thread, Push(t)
      PROVE  /\ DOMAIN polys \subseteq DOMAIN polys'
             /\ \A i \in DOMAIN polys : LM(polys'[i]) = LM(polys[i])
             /\ polys' # << >>
  BY <1>1, <1>4, AppendSeq DEF Push
<1>5. ASSUME NEW t \in Thread, Clear(t) PROVE polys' = polys
  BY <1>5 DEF Clear
<1> QED
  BY <1>2, <1>3, <1>4, <1>5, Writers

LEMMA PairStays ==
  ASSUME Shapes, [Next]_vars, NEW p, PairIn(polys, p)
  PROVE  PairIn(polys', p)
BY LeadersStay DEF PairIn

-----------------------------------------------------------------------------
(* The leading monomials.                                                  *)

(* What is pushed is a monomial that nothing divides.                      *)
LEMMA PushedLeader ==
  ASSUME BasisInv, Leaders, Grades, NEW t \in Thread, Push(t)
  PROVE  /\ LM(lobj[t].poly) \in Monomial
         /\ ~cancel => \A i \in DOMAIN polys : ~Divides(LM(polys[i]), LM(lobj[t].poly))
<1>1. LM(lobj[t].poly) \in Monomial
  BY DEF Grades, Sweet, Graded
<1>2. ASSUME ~cancel, NEW i \in DOMAIN polys, Divides(LM(polys[i]), LM(lobj[t].poly))
      PROVE  FALSE
  <2>1. PICK k \in Active : Divides(LM(polys[k]), LM(polys[i]))
    BY DEF Leaders, DivisorKept
  <2>2. Divides(LM(polys[k]), LM(lobj[t].poly))
    BY <1>1, <1>2, <2>1, DividesOrder DEF Leaders, Active
  <2>3. Divisors(polys, redundant, LM(lobj[t].poly)) = {}
    BY <1>2 DEF Push, BasisInv, Newest
  <2> QED
    BY <2>1, <2>2, <2>3 DEF Divisors, Active
<1> QED
  BY <1>1, <1>2

LEMMA NextKeepsLeaders ==
  ASSUME BasisInv, Leaders, Grades, Queued, [Next]_vars
  PROVE  Leaders'
<1>0. PICK S : polys \in Seq(S)
  BY DEF BasisInv, Shapes
<1> DEFINE n == Len(polys)
<1>1. /\ n \in Nat /\ DOMAIN polys = 1 .. n
      /\ redundant \in Seq(BOOLEAN) /\ Len(redundant) = n /\ DOMAIN redundant = 1 .. n
  BY <1>0 DEF BasisInv, Shapes
<1>2. CASE UNCHANGED <<polys, redundant>>
  BY <1>2 DEF Leaders, DivisorKept, Active
<1>3. CASE TailEnd
  <2>1. PICK v : polys' = [polys EXCEPT ![tail.at] = v]
    BY <1>3 DEF TailEnd
  <2>2. polys' \in Seq(S \cup {v}) /\ Len(polys') = n
    BY <1>0, <2>1, UpdateSeq, Zenon
  <2>3. DOMAIN polys' = 1 .. n /\ redundant' = redundant
    BY <1>3, <2>2 DEF TailEnd
  <2>4. \A i \in 1 .. n : LM(polys'[i]) = LM(polys[i])
    BY <1>1, LeadersStay DEF BasisInv
  <2>5. Active' = Active /\ Active \subseteq 1 .. n
    BY <1>1, <2>3 DEF Active
  <2>6. polys' # << >> => polys # << >>
    BY <1>0, <2>2
  <2> QED
    BY <1>1, <2>2, <2>3, <2>4, <2>5, <2>6 DEF Leaders, DivisorKept
<1>4. ASSUME NEW t \in Thread, Push(t) PROVE Leaders'
  <2> DEFINE m == LM(lobj[t].poly)
  <2>1. /\ Len(polys') = n + 1 /\ DOMAIN polys' = 1 .. n + 1
        /\ \A i \in 1 .. n : polys'[i] = polys[i]
        /\ polys'[n + 1] = lobj[t].poly
    BY <1>0, <1>4, AppendSeq DEF Push
  <2>2. /\ \A i \in 1 .. n : redundant'[i] = redundant[i]
        /\ redundant'[n + 1] = FALSE
    <3>1. redundant' = Append(redundant, FALSE)
      BY <1>4 DEF Push
    <3>2. \A i \in 1 .. Len(redundant) : Append(redundant, FALSE)[i] = redundant[i]
      BY <1>1, AppendFlag, Zenon
    <3>3. Append(redundant, FALSE)[Len(redundant) + 1] = FALSE
      BY <1>1
    <3> QED
      BY <1>1, <3>1, <3>2, <3>3, Zenon
  <2>3. m \in Monomial
    BY <1>4, PushedLeader
  <2>4. Active \subseteq Active' /\ n + 1 \in Active'
    BY <1>1, <2>1, <2>2 DEF Active
  <2>5. ASSUME NEW i \in 1 .. n + 1
        PROVE  /\ LM(polys'[i]) \in Monomial
               /\ \E k \in Active' : Divides(LM(polys'[k]), LM(polys'[i]))
    <3>1. CASE i = n + 1
      BY <2>1, <2>3, <2>4, <3>1, DividesOrder
    <3>2. CASE i # n + 1
      <4>1. i \in 1 .. n
        BY <1>1, <3>2
      <4>2. PICK k \in Active : Divides(LM(polys[k]), LM(polys[i]))
        BY <1>1, <4>1 DEF Leaders, DivisorKept
      <4>3. k \in 1 .. n /\ k \in Active'
        BY <1>1, <2>4 DEF Active
      <4> QED
        BY <1>1, <2>1, <4>1, <4>2, <4>3 DEF Leaders
    <3> QED
      BY <3>1, <3>2
  <2> QED
    BY <2>1, <2>2, <2>5 DEF Leaders, DivisorKept
<1>5. ASSUME NEW t \in Thread, Clear(t) PROVE Leaders'
  <2>1. polys' = polys
    BY <1>5 DEF Clear
  <2>2. PICK i \in Covered(polys, redundant, h_idx[t]) :
          redundant' = [redundant EXCEPT ![i] = TRUE]
    BY <1>5 DEF Clear
  <2>3. h_idx[t] = n /\ polys # << >> /\ n # 0
    BY <1>0, <1>5 DEF Clear, BasisInv, Newest, Queued
  <2>4. i \in 1 .. n - 1 /\ Divides(LM(polys[n]), LM(polys[i]))
    BY <2>2, <2>3 DEF Covered
  <2>5. \A k \in 1 .. n : k # i => redundant'[k] = redundant[k]
    BY <1>1, <2>2
  <2>6. ~redundant[n] /\ ~redundant'[n] /\ n \in 1 .. n
    BY <1>1, <2>3, <2>4, <2>5 DEF Leaders
  <2>7. DOMAIN redundant' = 1 .. n
    BY <1>1, <2>2
  <2>8. n \in Active' /\ \A k \in Active : k # i => k \in Active'
    BY <1>1, <2>1, <2>5, <2>6 DEF Active
  <2>9. ASSUME NEW j \in 1 .. n
        PROVE  \E k \in Active' : Divides(LM(polys[k]), LM(polys[j]))
    <3>1. PICK k \in Active : Divides(LM(polys[k]), LM(polys[j]))
      BY <1>1 DEF Leaders, DivisorKept
    <3>2. CASE k # i
      BY <2>8, <3>1, <3>2
    <3>3. CASE k = i
      <4>1. Divides(LM(polys[n]), LM(polys[j]))
        BY <1>1, <2>4, <2>6, <3>1, <3>3, DividesOrder DEF Leaders
      <4> QED
        BY <2>8, <4>1
    <3> QED
      BY <3>2, <3>3
  <2> QED
    BY <1>1, <2>1, <2>6, <2>9 DEF Leaders, DivisorKept
<1> QED
  BY <1>2, <1>3, <1>4, <1>5, Writers

-----------------------------------------------------------------------------
(* The degrees.                                                            *)

(* A working polynomial is replaced by one whose sugar bounds its degrees. *)
LEMMA LobjStep ==
  ASSUME IInv, BasisInv, WorkInv, [Next]_vars
  PROVE  \/ lobj' = lobj
         \/ \E t \in Thread : \E o : Sweet(o) /\ lobj' = [lobj EXCEPT ![t] = o]
<1> USE ThreadFacts DEF mainVars, localVars
<1> DEFINE becomes(t, o) == Sweet(o) /\ lobj' = [lobj EXCEPT ![t] = o]
<1>0. \A t \in Thread : Sweet(lobj[t]) /\ Sweet(MonicObject(lobj[t]))
  BY SweetFacts DEF WorkInv, Grades
<1>00. lobj = [t \in Thread |-> lobj[t]]
  BY DEF BasisInv, Shapes
<1>1. ASSUME NEW t \in Thread, Reduce(t)
      PROVE  \E o : becomes(t, o)
  <2>1. PICK flags : /\ Reducible(polys, flags, lobj[t].poly)
                     /\ lobj' = [lobj EXCEPT ![t] = ReduceOnce(polys, flags, lobj[t])]
    BY <1>1, <1>00 DEF Reduce
  <2>2. Running
    BY <1>1, AtWork DEF Reduce, Critical
  <2>3. \A i \in DOMAIN polys : Graded(polys[i])
    BY <2>2 DEF WorkInv, Grades
  <2>4. DOMAIN polys \subseteq Nat
    BY DEF BasisInv, Shapes
  <2>5. Sweet(ReduceOnce(polys, flags, lobj[t]))
    BY <1>0, <2>1, <2>3, <2>4, ReduceIsGraded DEF Sweet
  <2> QED
    BY <2>1, <2>5
<1>2. ASSUME NEW t \in Thread,
             \/ ReduceDone(t) \/ LockPoisoned(t) \/ Panic(t) \/ FinalDone(t)
             \/ InsertCancelled(t) \/ Merge(t)
      PROVE  lobj' = lobj \/ \E o : becomes(t, o)
  <2>1. \/ lobj' = lobj
        \/ lobj' = [lobj EXCEPT ![t] = NoObject]
        \/ lobj' = [lobj EXCEPT ![t] = MonicObject(lobj[t])]
    BY <1>2, <1>00 DEF ReduceDone, LockPoisoned, Panic, Die, FinalDone,
                InsertCancelled, Merge
  <2> QED
    BY <1>0, <2>1, SweetFacts
<1>3. ASSUME NEW t \in Thread,
             Lock(t) \/ Push(t) \/ MakePairs(t) \/ Clear(t) \/ ClearDone(t)
      PROVE  lobj' = lobj
  BY <1>3 DEF Lock, Push, MakePairs, Clear, ClearDone
<1>4. CASE SeedNext
  <2> DEFINE f == Head(input)
             o == LObject(f, Deg(LM(f)))
  <2>1. lobj' = lobj \/ lobj' = [lobj EXCEPT ![Main] = o]
    BY <1>4 DEF SeedNext
  <2>2. input # << >>
    BY <1>4 DEF SeedNext
  <2>3. Graded(f)
    BY <2>2 DEF WorkInv, Grades
  <2>4. Sweet(o)
    BY <2>3, DegType DEF Sweet, LObject, Graded
  <2> HIDE DEF o
  <2> QED
    BY <2>1, <2>4
<1>5. ASSUME NEW w \in Worker, Build(w) PROVE lobj' = lobj \/ \E o : becomes(w, o)
  <2> DEFINE p == pair[w]
             s == SPoly(polys[p.i], polys[p.j], p.lcm)
  <2>1. lobj' = lobj \/ lobj' = [lobj EXCEPT ![w] = LObject(s, p.sugar)]
    BY <1>5 DEF Build
  <2>2. PairIn(polys, p)
    BY <1>5 DEF Build, WorkInv, Queued
  <2>3. Running
    BY <1>5, AtWork DEF Build
  <2>4. Sweet(LObject(s, p.sugar))
    BY <2>2, <2>3, SPolyIsSweet DEF WorkInv, Grades
  <2> HIDE DEF s, p
  <2> QED
    BY <2>1, <2>4
<1>6. CASE \/ Spawn \/ JoinPanicked \/ JoinAll \/ TailNext \/ TailStep \/ TailEnd
           \/ Finish \/ Cancel \/ UNCHANGED vars
  BY <1>6 DEF Spawn, JoinPanicked, JoinAll, TailNext, TailStep, TailEnd, Finish,
              Cancel, vars
<1>7. ASSUME NEW w \in Worker, ExitCancelled(w) \/ Pop(w) \/ ExitDrained(w) \/ Spin(w)
                               \/ Retire(w)
      PROVE  lobj' = lobj
  BY <1>7 DEF ExitCancelled, Pop, ExitDrained, Spin, Retire, vars
<1> HIDE DEF becomes
<1>8. ASSUME NEW t \in Thread, Insertion(t) \/ Panic(t)
      PROVE  lobj' = lobj \/ \E u \in Thread : \E o : becomes(u, o)
  BY <1>1, <1>2, <1>3, <1>8 DEF Insertion
<1>9. lobj' = lobj \/ \E u \in Thread : \E o : becomes(u, o)
  BY <1>4, <1>5, <1>6, <1>7, <1>8 DEF Next, MainStep, WorkerStep, Returned, becomes
<1> QED
  BY <1>9 DEF becomes

(* The inputs only get fewer.                                              *)
LEMMA InputStep ==
  [Next]_vars => input' = input \/ (input # << >> /\ input' = Tail(input))
<1> SUFFICES ASSUME [Next]_vars
             PROVE  input' = input \/ (input # << >> /\ input' = Tail(input))
  OBVIOUS
<1> USE DEF mainVars, localVars
<1>1. ASSUME NEW t \in Thread, Insertion(t) \/ Panic(t) PROVE input' = input
  BY <1>1 DEF Insertion, Reduce, ReduceDone, Lock, LockPoisoned, Panic, Die,
     FinalDone, Push, InsertCancelled, MakePairs, Merge, Clear, ClearDone
<1>2. ASSUME NEW w \in Worker, WorkerStep(w) PROVE input' = input
  BY <1>1, <1>2, ThreadFacts DEF WorkerStep, ExitCancelled, Pop, ExitDrained,
     Spin, Build, Retire, vars
<1>3. CASE SeedNext
  BY <1>3 DEF SeedNext
<1>4. CASE Spawn \/ JoinPanicked \/ JoinAll \/ TailNext \/ TailStep
           \/ TailEnd \/ Finish \/ Cancel \/ UNCHANGED vars
  BY <1>4 DEF Spawn, JoinPanicked, JoinAll, TailNext, TailStep,
     TailEnd, Finish, Cancel, vars
<1> QED
  BY <1>1, <1>2, <1>3, <1>4, ThreadFacts DEF Next, MainStep, Returned

LEMMA NextKeepsGrades ==
  ASSUME IInv, BasisInv, WorkInv, [Next]_vars
  PROVE  Grades'
<1>1. \A t \in Thread : Sweet(lobj'[t])
  <2>0. lobj = [t \in Thread |-> lobj[t]] /\ \A t \in Thread : Sweet(lobj[t])
    BY DEF BasisInv, Shapes, WorkInv, Grades
  <2>1. CASE lobj' = lobj
    BY <2>0, <2>1
  <2>2. ASSUME NEW t \in Thread, NEW o, Sweet(o), lobj' = [lobj EXCEPT ![t] = o]
        PROVE  \A u \in Thread : Sweet(lobj'[u])
    BY <2>0, <2>2
  <2> QED
    BY <2>1, <2>2, LobjStep
<1>2. (\E S : input' \in Seq(S)) /\ \A k \in DOMAIN input' : Graded(input'[k])
  <2>1. PICK S : input \in Seq(S)
    BY DEF WorkInv, Grades
  <2>2. \A k \in DOMAIN input : Graded(input[k])
    BY DEF WorkInv, Grades
  <2>3. CASE input' = input
    BY <2>1, <2>2, <2>3
  <2>4. CASE input # << >> /\ input' = Tail(input)
    BY <2>1, <2>2, <2>4, TailSeq
  <2> QED
    BY <2>3, <2>4, InputStep
<1>3. ASSUME Running'
      PROVE  \A i \in DOMAIN polys' : Graded(polys'[i])
  <2>1. Running
    BY <1>3, RunningIsOver
  <2>2. \A i \in DOMAIN polys : Graded(polys[i])
    BY <2>1 DEF WorkInv, Grades
  <2>3. ~TailEnd
    BY <2>1 DEF Running, TailEnd
  <2>4. ASSUME NEW t \in Thread, Push(t)
        PROVE  \A i \in DOMAIN polys' : Graded(polys'[i])
    <3>1. PICK S : polys \in Seq(S)
      BY DEF BasisInv, Shapes
    <3>2. /\ DOMAIN polys' = 1 .. Len(polys) + 1 /\ DOMAIN polys = 1 .. Len(polys)
          /\ \A i \in 1 .. Len(polys) : polys'[i] = polys[i]
          /\ polys'[Len(polys) + 1] = lobj[t].poly
          /\ Len(polys) \in Nat
      BY <2>4, <3>1, AppendSeq DEF Push
    <3>3. Graded(lobj[t].poly)
      BY DEF WorkInv, Grades, Sweet
    <3>4. \A i \in 1 .. Len(polys) + 1 : i \in 1 .. Len(polys) \/ i = Len(polys) + 1
      BY <3>2
    <3> QED
      BY <2>2, <3>2, <3>3, <3>4
  <2>5. ASSUME NEW t \in Thread, Clear(t) PROVE polys' = polys
    BY <2>5 DEF Clear
  <2> QED
    BY <2>2, <2>3, <2>4, <2>5, Writers
<1> QED
  BY <1>1, <1>2, <1>3 DEF Grades, Sweet, Graded

-----------------------------------------------------------------------------
(* The queue.                                                              *)

(* The candidates of an insertion are S-pairs of the newest element.       *)
LEMMA CandidateFacts ==
  ASSUME BasisInv, WorkInv, NEW t \in Thread, pc[t] \in {"pairs", "merge", "clear"}
  PROVE  /\ Len(ChainCritB(Candidates(t))) \in Nat
         /\ DOMAIN ChainCritB(Candidates(t)) = 1 .. Len(ChainCritB(Candidates(t)))
         /\ \A k \in DOMAIN ChainCritB(Candidates(t)) :
              LET p == ChainCritB(Candidates(t))[k]
              IN  PairIn(polys, p) /\ p = [i |-> p.i, j |-> p.j, lcm |-> p.lcm,
                                    sugar |-> p.sugar, arrival |-> p.arrival]
<1> DEFINE n == Len(polys)
           partners == Partners(polys, redundant, n)
           mk(s) == MkPair(polys, s, n, lobj[t].sugar, 0)
           C == {mk(s) : s \in 1 .. n - 1}
           good(p) == PairIn(polys, p) /\ p = [i |-> p.i, j |-> p.j, lcm |-> p.lcm,
                                        sugar |-> p.sugar, arrival |-> p.arrival]
<1>1. h_idx[t] = n /\ polys # << >>
  BY DEF BasisInv, Newest, WorkInv, Queued
<1>2. n \in Nat /\ n > 0 /\ DOMAIN polys = 1 .. n
  BY <1>1 DEF BasisInv, Shapes
<1>3. partners \in Seq(1 .. n - 1)
  <2> HIDE DEF n
  <2> QED
    BY <1>2, PartnersAreOlder
<1>4. Candidates(t) = [k \in DOMAIN partners |-> mk(partners[k])]
  BY <1>1 DEF Candidates
<1> HIDE DEF n, partners, mk
<1>5. Candidates(t) \in Seq(C)
  <2>1. DOMAIN partners = 1 .. Len(partners) /\ Len(partners) \in Nat
    BY <1>3
  <2>2. \A k \in 1 .. Len(partners) : mk(partners[k]) \in C
    <3>1. \A k \in 1 .. Len(partners) : partners[k] \in 1 .. n - 1
      BY <1>3, ElementOfSeq
    <3> QED
      BY <3>1, Zenon
  <2> HIDE DEF C
  <2>3. Candidates(t) \in [1 .. Len(partners) -> C]
    BY <1>4, <2>1, <2>2
  <2> QED
    BY <2>1, <2>3, SeqDef
<1>6. \A p \in C : good(p)
  <2> SUFFICES ASSUME NEW s \in 1 .. n - 1 PROVE good(mk(s))
    OBVIOUS
  <2>1. s \in 1 .. n /\ n \in 1 .. n
    BY <1>2
  <2>2. LM(polys[s]) \in Monomial /\ LM(polys[n]) \in Monomial
    BY <1>2, <2>1 DEF WorkInv, Leaders
  <2>3. lobj[t].sugar \in Nat
    BY DEF WorkInv, Grades, Sweet
  <2> DEFINE p == mk(s)
  <2>0. p = MkPair(polys, s, n, lobj[t].sugar, 0)
    BY DEF mk
  <2> HIDE DEF p
  <2>4. /\ p = [i |-> s, j |-> n, lcm |-> p.lcm, sugar |-> p.sugar, arrival |-> 0]
        /\ p.lcm = Lcm(LM(polys[s]), LM(polys[n]))
        /\ p.sugar \in Nat /\ Deg(p.lcm) <= p.sugar
    BY <2>0, <2>2, <2>3, MkPairFacts
  <2>5. p.i = s /\ p.j = n /\ p.arrival = 0
    BY <2>4
  <2>6. PairIn(polys, p)
    BY <1>2, <2>1, <2>4, <2>5 DEF PairIn
  <2> QED
    BY <2>4, <2>5, <2>6 DEF p
<1>7. ChainCritB(Candidates(t)) \in Seq(C)
  BY <1>5, ChainCritBFacts
<1> DEFINE b == ChainCritB(Candidates(t))
<1> HIDE DEF C, b, good
<1>8. Len(b) \in Nat /\ DOMAIN b = 1 .. Len(b) /\ \A k \in DOMAIN b : b[k] \in C
  <2>1. b \in Seq(C)
    BY <1>7 DEF b
  <2> QED
    BY <2>1
<1>9. \A k \in DOMAIN b : good(b[k])
  BY <1>6, <1>8
<1> QED
  BY <1>8, <1>9 DEF b, good

(* A worker comes to build only by a pop, and to its pairs only by a push. *)
LEMMA PairStep ==
  ASSUME IInv, pair = [t \in Thread |-> pair[t]], [Next]_vars
  PROVE  /\ pair' = [t \in Thread |-> pair'[t]]
         /\ \A w \in Worker : pc'[w] = "build" =>
              Pop(w) \/ (pc[w] = "build" /\ pair'[w] = pair[w])
         /\ \A t \in Thread : pc'[t] \in {"pairs", "merge", "clear"} =>
              Push(t) \/ pc[t] \in {"pairs", "merge", "clear"}
<1> USE ThreadFacts DEF mainVars, localVars, Goto, Release, Continue
<1> DEFINE ok ==
      /\ pair' = [t \in Thread |-> pair'[t]]
      /\ \A w \in Worker : pc'[w] = "build" =>
           Pop(w) \/ (pc[w] = "build" /\ pair'[w] = pair[w])
      /\ \A t \in Thread : pc'[t] \in {"pairs", "merge", "clear"} =>
           Push(t) \/ pc[t] \in {"pairs", "merge", "clear"}
<1>0. pc \in [Thread -> Label]
  BY DEF IInv, TypeOK
<1>1. ASSUME NEW t \in Thread, NEW label, pc' = [pc EXCEPT ![t] = label],
             label \in {"pairs", "merge", "clear"} =>
               Push(t) \/ pc[t] \in {"pairs", "merge", "clear"},
             label = "build" => pc[t] = "build" /\ pair' = pair,
             pair' = pair \/ pair' = [pair EXCEPT ![t] = NoPair]
      PROVE  ok
  <2>1. \A u \in Thread : pc'[u] = IF u = t THEN label ELSE pc[u]
    BY <1>0, <1>1
  <2>2. \A u \in Thread : u # t => pair'[u] = pair[u]
    BY <1>1
  <2>3. pair' = [u \in Thread |-> pair'[u]]
    BY <1>1, ExceptShape
  <2> QED
    BY <1>1, <2>1, <2>2, <2>3
<1>2. ASSUME NEW t \in Thread, Insertion(t) \/ Panic(t) PROVE ok
  <2> HIDE DEF ok
  <2>1. CASE Reduce(t)
    <3>1. pc' = [pc EXCEPT ![t] = pc[t]] /\ pair' = pair /\ pc[t] \notin {"pairs", "merge", "clear"}
      BY <1>0, <2>1 DEF Reduce
    <3> QED
      BY <1>1, <3>1
  <2>2. CASE ReduceDone(t)
    <3>1. /\ pair' = pair
          /\ \E l \in {"seed", "retire", "done", "lock"} : pc' = [pc EXCEPT ![t] = l]
      BY <2>2 DEF ReduceDone
    <3> QED
      BY <1>1, <3>1
  <2>3. CASE Lock(t)
    BY <1>1, <2>3 DEF Lock
  <2>4. CASE FinalDone(t)
    <3>1. /\ pair' = pair
          /\ \E l \in {"seed", "retire", "push"} : pc' = [pc EXCEPT ![t] = l]
      BY <2>4 DEF FinalDone
    <3> QED
      BY <1>1, <3>1
  <2>5. CASE Push(t)
    <3>1. pair' = pair /\ pc' = [pc EXCEPT ![t] = "pairs"]
      BY <2>5 DEF Push
    <3> QED
      BY <1>1, <2>5, <3>1
  <2>6. CASE InsertCancelled(t) \/ ClearDone(t)
    <3>1. /\ pair' = pair
          /\ \E l \in {"seed", "retire"} : pc' = [pc EXCEPT ![t] = l]
      BY <2>6 DEF InsertCancelled, ClearDone
    <3> QED
      BY <1>1, <3>1
  <2>7. CASE MakePairs(t) \/ Merge(t)
    <3>1. /\ pair' = pair /\ pc[t] \in {"pairs", "merge"}
          /\ \E l \in {"merge", "clear"} : pc' = [pc EXCEPT ![t] = l]
      BY <2>7 DEF MakePairs, Merge
    <3> QED
      BY <1>1, <3>1
  <2>8. CASE Clear(t)
    <3>1. /\ pair' = pair /\ pc[t] = "clear"
          /\ pc' = [pc EXCEPT ![t] = "clear"]
      BY <1>0, <2>8 DEF Clear
    <3> QED
      BY <1>1, <3>1
  <2>9. CASE LockPoisoned(t) \/ Panic(t)
    <3>1. /\ pair' = [pair EXCEPT ![t] = NoPair]
          /\ \E l \in {"done", "panicked"} : pc' = [pc EXCEPT ![t] = l]
      BY <2>9 DEF LockPoisoned, Panic, Die
    <3> QED
      BY <1>1, <3>1
  <2> QED
    BY <1>2, <2>1, <2>2, <2>3, <2>4, <2>5, <2>6, <2>7, <2>8, <2>9 DEF Insertion
<1>3. ASSUME NEW w \in Worker, WorkerStep(w) PROVE ok
  <2>1. CASE ExitCancelled(w) \/ ExitDrained(w)
    <3>1. pair' = pair /\ pc' = [pc EXCEPT ![w] = "done"]
      BY <2>1 DEF ExitCancelled, ExitDrained
    <3> HIDE DEF ok
    <3> QED
      BY <1>1, <3>1
  <2>2. CASE Pop(w)
    <3>1. pc' = [pc EXCEPT ![w] = "build"] /\ pair' = [pair EXCEPT ![w] = NextPair(l_set)]
      BY <2>2 DEF Pop
    <3>2. \A u \in Thread : u # w => pc'[u] = pc[u] /\ pair'[u] = pair[u]
      BY <1>0, <3>1
    <3>3. pc'[w] = "build"
      BY <1>0, <3>1
    <3>4. pair' = [u \in Thread |-> pair'[u]]
      BY <3>1, ExceptShape
    <3> QED
      BY <2>2, <3>2, <3>3, <3>4
  <2>3. CASE Build(w)
    <3>1. /\ pair' = [pair EXCEPT ![w] = NoPair]
          /\ \E l \in {"retire", "reduce"} : pc' = [pc EXCEPT ![w] = l]
      BY <2>3 DEF Build
    <3> HIDE DEF ok
    <3> QED
      BY <1>1, <3>1
  <2>4. CASE Retire(w)
    <3>1. pair' = pair /\ pc' = [pc EXCEPT ![w] = "top"]
      BY <2>4 DEF Retire
    <3> HIDE DEF ok
    <3> QED
      BY <1>1, <3>1
  <2>5. CASE Spin(w)
    BY <2>5 DEF Spin, vars
  <2> HIDE DEF ok
  <2> QED
    BY <1>2, <1>3, <2>1, <2>2, <2>3, <2>4, <2>5 DEF WorkerStep
<1>4. ASSUME \/ SeedNext \/ JoinPanicked \/ JoinAll \/ TailNext \/ TailStep
             \/ TailEnd \/ Finish
      PROVE  ok
  <2>1. /\ pair' = pair
        /\ \/ pc' = pc
           \/ \E l \in {"reduce", "done", "finalise", "tail"} : pc' = [pc EXCEPT ![Main] = l]
    BY <1>4 DEF SeedNext, JoinPanicked, JoinAll, TailNext, TailStep, TailEnd, Finish
  <2>2. pc' = pc => ok
    BY <2>1
  <2> HIDE DEF ok
  <2>3. ASSUME NEW l \in {"reduce", "done", "finalise", "tail"},
               pc' = [pc EXCEPT ![Main] = l]
        PROVE  ok
    BY <1>1, <2>1, <2>3
  <2> QED
    BY <2>1, <2>2, <2>3
<1>5. ASSUME Spawn PROVE ok
  <2>1. pair' = pair /\ \A t \in Thread : pc'[t] \in {"join", "top", "done", "unborn"}
    BY <1>0, <1>5 DEF Spawn, IInv, Phases, Seeding
  <2> QED
    BY <2>1
<1>6. ASSUME Cancel \/ UNCHANGED vars PROVE ok
  BY <1>6 DEF Cancel, vars
<1> HIDE DEF ok
<1>7. ok
  BY <1>2, <1>3, <1>4, <1>5, <1>6 DEF Next, MainStep, Returned
<1> QED
  BY <1>7 DEF ok

(* The pair a worker takes is one of the queue, the best of it.            *)
LEMMA NextPairQueued ==
  ASSUME BasisInv, Queued, l_set # {}
  PROVE  NextPair(l_set) \in l_set
<1>1. \A p \in l_set : /\ p.sugar \in Nat /\ p.arrival \in Nat
                       /\ p.i \in Nat /\ p.j \in Nat
  BY DEF Queued, PairIn, BasisInv, Shapes
<1>2. \A p, q \in l_set : p.arrival = q.arrival /\ p.i = q.i /\ p.j = q.j => p = q
  BY DEF Queued
<1> QED
  BY <1>1, <1>2, NextPairExists

LEMMA NextKeepsQueued ==
  ASSUME IInv, BasisInv, WorkInv, [Next]_vars
  PROVE  Queued'
<1> DEFINE fits(l, next) ==
      /\ next \in Nat
      /\ \A p \in l : PairIn(polys', p) /\ p.arrival \in Nat /\ p.arrival < next
      /\ \A p, q \in l : p.arrival = q.arrival => p = q
<1>0. /\ next_arrival \in Nat
      /\ \A p \in l_set : PairIn(polys', p) /\ p.arrival \in Nat /\ p.arrival < next_arrival
      /\ \A p, q \in l_set : p.arrival = q.arrival => p = q
  BY PairStays DEF BasisInv, WorkInv, Queued
<1>1. fits(l_set', next_arrival')
  <2>1. CASE UNCHANGED <<l_set, next_arrival>>
    BY <1>0, <2>1
  <2>2. ASSUME NEW t \in Thread, Push(t) PROVE fits(l_set', next_arrival')
    BY <1>0, <2>2 DEF Push
  <2>3. ASSUME NEW w \in Worker, Pop(w) PROVE fits(l_set', next_arrival')
    BY <1>0, <2>3 DEF Pop
  <2>4. ASSUME NEW t \in Thread, Merge(t) PROVE fits(l_set', next_arrival')
    <3> DEFINE b == bset[t]
               new(k) == [b[k] EXCEPT !.arrival = next_arrival + k - 1]
    <3>1. pc[t] = "merge" /\ b = ChainCritB(Candidates(t))
      BY <2>4 DEF Merge, BasisInv, SnapshotFresh
    <3>2. /\ Len(b) \in Nat /\ DOMAIN b = 1 .. Len(b)
          /\ \A k \in DOMAIN b : PairIn(polys, b[k])
          /\ \A k \in DOMAIN b : b[k] = [i |-> b[k].i, j |-> b[k].j, lcm |-> b[k].lcm,
                                         sugar |-> b[k].sugar, arrival |-> b[k].arrival]
      BY <3>1, CandidateFacts
    <3>3. next_arrival' = next_arrival + Len(b)
      BY <2>4 DEF Merge
    <3>4. \A p \in l_set' : p \in l_set \/ \E k \in 1 .. Len(b) : p = new(k)
      <4>1. Stamped(b, next_arrival) = [k \in 1 .. Len(b) |-> new(k)]
        BY <3>2 DEF Stamped
      <4>2. l_set' = InsertPairs(l_set \ ChainCritL(polys, l_set, h_idx[t]),
                                 Stamped(b, next_arrival))
        BY <2>4 DEF Merge
      <4> HIDE DEF b, new
      <4> QED
        BY <4>1, <4>2 DEF InsertPairs
    <3> HIDE DEF b
    <3>5. ASSUME NEW k \in 1 .. Len(b)
          PROVE  /\ PairIn(polys', new(k))
                 /\ new(k).arrival = next_arrival + k - 1
      <4>1. /\ new(k).i = b[k].i /\ new(k).j = b[k].j /\ new(k).lcm = b[k].lcm
            /\ new(k).sugar = b[k].sugar /\ new(k).arrival = next_arrival + k - 1
        BY <3>2
      <4> DEFINE p == new(k)
      <4> HIDE DEF new
      <4>2. PairIn(polys, p)
        BY <3>2, <4>1 DEF PairIn
      <4>3. PairIn(polys', p)
        <5> HIDE DEF p
        <5> QED
          BY <4>2, PairStays DEF BasisInv
      <4> QED
        BY <4>1, <4>3
    <3> HIDE DEF new
    <3>6. ASSUME NEW k \in 1 .. Len(b)
          PROVE  /\ new(k).arrival \in Nat /\ new(k).arrival < next_arrival'
                 /\ next_arrival <= new(k).arrival
      BY <1>0, <3>2, <3>3, <3>5
    <3>7. ASSUME NEW p \in l_set'
          PROVE  PairIn(polys', p) /\ p.arrival \in Nat /\ p.arrival < next_arrival'
      <4>1. CASE p \in l_set
        BY <1>0, <3>2, <3>3, <4>1
      <4>2. CASE \E k \in 1 .. Len(b) : p = new(k)
        BY <3>5, <3>6, <4>2
      <4> QED
        BY <3>4, <4>1, <4>2
    <3>8. ASSUME NEW p \in l_set', NEW q \in l_set', p.arrival = q.arrival
          PROVE  p = q
      <4>1. CASE p \in l_set /\ q \in l_set
        BY <1>0, <3>8, <4>1
      <4>2. ASSUME NEW x \in l_set, NEW k \in 1 .. Len(b), x.arrival = new(k).arrival
            PROVE  FALSE
        BY <1>0, <3>6, <4>2
      <4>3. ASSUME NEW k \in 1 .. Len(b), NEW l \in 1 .. Len(b), p = new(k), q = new(l)
            PROVE  p = q
        <5>1. next_arrival + k - 1 = next_arrival + l - 1
          BY <3>5, <3>8, <4>3
        <5>2. k = l
          BY <1>0, <3>2, <5>1
        <5> QED
          BY <4>3, <5>2
      <4> QED
        BY <3>4, <3>8, <4>1, <4>2, <4>3
    <3> QED
      BY <1>0, <3>2, <3>3, <3>7, <3>8
  <2> HIDE DEF fits
  <2> QED
    BY <2>1, <2>2, <2>3, <2>4, Writers
<1>2. pair = [t \in Thread |-> pair[t]]
  BY DEF WorkInv, Queued
<1>3. ASSUME NEW w \in Worker, pc'[w] = "build" PROVE PairIn(polys', pair'[w])
  <2>1. CASE Pop(w)
    <3>1. pair'[w] = NextPair(l_set) /\ l_set # {}
      BY <1>2, <2>1, ThreadFacts DEF Pop
    <3>2. NextPair(l_set) \in l_set
      BY <3>1, NextPairQueued DEF WorkInv
    <3> QED
      BY <1>0, <3>1, <3>2
  <2>2. CASE pc[w] = "build" /\ pair'[w] = pair[w]
    <3>1. PairIn(polys, pair[w])
      BY <2>2 DEF WorkInv, Queued
    <3> QED
      BY <2>2, <3>1, PairStays DEF BasisInv
  <2> QED
    BY <1>2, <1>3, <2>1, <2>2, PairStep
<1>4. ASSUME NEW t \in Thread, pc'[t] \in {"pairs", "merge", "clear"} PROVE polys' # << >>
  <2>1. CASE Push(t)
    <3>1. PICK S : polys \in Seq(S)
      BY DEF BasisInv, Shapes
    <3> QED
      BY <2>1, <3>1 DEF Push
  <2>2. CASE pc[t] \in {"pairs", "merge", "clear"}
    BY <2>2, LeadersStay DEF BasisInv, WorkInv, Queued
  <2> QED
    BY <1>2, <1>4, <2>1, <2>2, PairStep
<1> QED
  BY <1>1, <1>2, <1>3, <1>4, PairStep DEF Queued

-----------------------------------------------------------------------------
(* The invariant and what it says.                                         *)

LEMMA InitWorkInv == Init => WorkInv
<1> SUFFICES ASSUME Init PROVE WorkInv
  OBVIOUS
<1>1. DOMAIN polys = {} /\ polys = << >> /\ l_set = {} /\ next_arrival = 0
  BY DEF Init
<1>2. Leaders
  BY <1>1 DEF Leaders, DivisorKept
<1>3. \A t \in Thread : Sweet(lobj[t])
  BY SweetFacts DEF Init
<1>4. ASSUME NEW k \in DOMAIN Inputs PROVE Graded(Inputs[k])
  <2> DEFINE f == Inputs[k]
  <2>1. IsPolynomial(f)
    BY InputsAssumption
  <2>2. Graded(f)
    BY <2>1, PolynomialIsGraded
  <2> QED
    BY <2>2 DEF f
<1>5. Grades
  <2>1. input = Inputs
    BY DEF Init
  <2>2. \E S : Inputs \in Seq(S)
    BY InputsAssumption
  <2> QED
    BY <1>1, <1>3, <1>4, <2>1, <2>2 DEF Grades
<1>6. \A t \in Thread : pc[t] \in {"seed", "unborn"}
  BY DEF Init
<1>7. pair = [t \in Thread |-> pair[t]]
  BY DEF Init
<1>8. Queued
  BY <1>1, <1>6, <1>7, ThreadFacts DEF Queued
<1> QED
  BY <1>2, <1>5, <1>8 DEF WorkInv

LEMMA NextKeepsWorkInv == IInv /\ BasisInv /\ WorkInv /\ [Next]_vars => WorkInv'
BY NextKeepsLeaders, NextKeepsGrades, NextKeepsQueued DEF WorkInv

LEMMA SpecWorkInv == Spec => [](IInv /\ BasisInv /\ WorkInv)
BY InitWorkInv, NextKeepsWorkInv, SpecBasisInv, PTL DEF Spec

(* What is reduced by an element that is then made redundant is reduced by *)
(* another one ever after: clear_redundant_for only marks what the newest  *)
(* element divides (parallel.rs:478-504, computation.rs:232-262).          *)
THEOREM DivisorsAreKept == Spec => []DivisorKept
BY SpecWorkInv, PTL DEF WorkInv, Leaders

(* The sugar of a polynomial is never below the degree of one of its       *)
(* terms, in any thread and at any turn of a reduction, so that a pair     *)
(* waits for all pairs of lower degree (parallel.rs:264-383, bba.rs:303).  *)
THEOREM SugarIsBound == Spec => []SugarBoundsDegree
<1>1. WorkInv => SugarBoundsDegree
  BY DEF WorkInv, Grades, Sweet, Queued, PairIn, SugarBoundsDegree
<1> QED
  BY <1>1, SpecWorkInv, PTL

(* No new leading monomial is a multiple of an earlier one, redundant ones *)
(* included, whichever workers inserted the two: the ascending chain that  *)
(* makes the driver terminate (computation.rs:281-297).                    *)
THEOREM LeadersAlwaysGrow == Spec => LeadersGrow
<1> DEFINE grown ==
      ~cancel => \A n \in DOMAIN polys' \ DOMAIN polys : \A i \in DOMAIN polys :
                   ~Divides(LM(polys[i]), LM(polys'[n]))
<1>1. ASSUME IInv, BasisInv, WorkInv, [Next]_vars
      PROVE  [grown]_vars
  <2>1. DOMAIN polys' = DOMAIN polys => grown
    OBVIOUS
  <2>2. ASSUME NEW t \in Thread, Push(t) PROVE grown
    <3>1. PICK S : polys \in Seq(S)
      BY <1>1 DEF BasisInv, Shapes
    <3>2. /\ DOMAIN polys' = 1 .. Len(polys) + 1 /\ DOMAIN polys = 1 .. Len(polys)
          /\ polys'[Len(polys) + 1] = lobj[t].poly
          /\ Len(polys) \in Nat
      BY <2>2, <3>1, AppendSeq DEF Push
    <3>3. \A n \in DOMAIN polys' \ DOMAIN polys : n = Len(polys) + 1
      BY <3>2
    <3> QED
      BY <1>1, <2>2, <3>2, <3>3, PushedLeader DEF WorkInv
  <2>3. ASSUME NEW t \in Thread, Clear(t) PROVE polys' = polys
    BY <2>3 DEF Clear
  <2>4. TailEnd => DOMAIN polys' = DOMAIN polys
    BY DEF TailEnd
  <2> HIDE DEF grown
  <2> QED
    BY <1>1, <2>1, <2>2, <2>3, <2>4, Writers
<1>2. [](IInv /\ BasisInv /\ WorkInv) /\ [][Next]_vars => [][grown]_vars
  <2> HIDE DEF grown
  <2> QED
    BY <1>1, PTL
<1> QED
  BY <1>2, SpecWorkInv, PTL DEF Spec, LeadersGrow

(* A pair that enters the queue is younger than all that wait in it: the   *)
(* arrivals of a merge are taken in one block under the L lock, above all  *)
(* that were ever taken (computation.rs:269-273, parallel.rs:455-477).     *)
THEOREM NewPairsComeLast == Spec => NewPairsAreYoungest
<1> DEFINE younger == \A p \in l_set, q \in l_set' \ l_set : p.arrival < q.arrival
<1>1. ASSUME IInv, BasisInv, WorkInv, [Next]_vars
      PROVE  younger
  <2>1. l_set' \subseteq l_set => younger
    OBVIOUS
  <2>2. ASSUME NEW t \in Thread, Push(t) PROVE l_set' = l_set
    BY <2>2 DEF Push
  <2>3. ASSUME NEW w \in Worker, Pop(w) PROVE l_set' \subseteq l_set
    BY <2>3 DEF Pop
  <2>4. ASSUME NEW t \in Thread, Merge(t) PROVE younger
    <3> DEFINE b == bset[t]
    <3>1. pc[t] = "merge" /\ b = ChainCritB(Candidates(t))
      BY <1>1, <2>4 DEF Merge, BasisInv, SnapshotFresh
    <3>2. /\ Len(b) \in Nat /\ DOMAIN b = 1 .. Len(b)
          /\ \A k \in DOMAIN b : b[k] = [i |-> b[k].i, j |-> b[k].j, lcm |-> b[k].lcm,
                                         sugar |-> b[k].sugar, arrival |-> b[k].arrival]
      BY <1>1, <3>1, CandidateFacts
    <3>3. l_set' = InsertPairs(l_set \ ChainCritL(polys, l_set, h_idx[t]),
                               Stamped(b, next_arrival))
      BY <2>4 DEF Merge
    <3> HIDE DEF b
    <3>4. \A q \in l_set' \ l_set : \E k \in 1 .. Len(b) :
            q = [b[k] EXCEPT !.arrival = next_arrival + k - 1]
      BY <3>2, <3>3 DEF InsertPairs, Stamped
    <3>5. next_arrival \in Nat /\ \A p \in l_set : p.arrival \in Nat /\ p.arrival < next_arrival
      BY <1>1 DEF WorkInv, Queued
    <3>6. ASSUME NEW q \in l_set' \ l_set PROVE q.arrival \in Nat /\ next_arrival <= q.arrival
      <4>1. PICK k \in 1 .. Len(b) : q = [b[k] EXCEPT !.arrival = next_arrival + k - 1]
        BY <3>4
      <4>2. q.arrival = next_arrival + k - 1
        BY <3>2, <4>1
      <4> QED
        BY <3>2, <3>5, <4>2
    <3> QED
      BY <3>5, <3>6
  <2> HIDE DEF younger
  <2> QED
    BY <1>1, <2>1, <2>2, <2>3, <2>4, Writers
<1>2. [](IInv /\ BasisInv /\ WorkInv) /\ [][Next]_vars => [][younger]_vars
  <2> HIDE DEF younger
  <2> QED
    BY <1>1, PTL
<1> QED
  BY <1>2, SpecWorkInv, PTL DEF Spec, NewPairsAreYoungest

-----------------------------------------------------------------------------
(* The workers implement the pool.                                         *)

(* The workers that have returned.                                         *)
Home == {w \in Worker : pc[w] = "done"}

(* A step of a reduction or an insertion moves its thread only.            *)
LEMMA InsertionMoves ==
  ASSUME NEW t \in Thread, Insertion(t) \/ Panic(t)
  PROVE  /\ pc[t] \in {"build", "reduce", "lock"} \cup Critical
         /\ cancel' = cancel
         /\ \/ pc' = pc
            \/ \E label :
                 /\ pc' = [pc EXCEPT ![t] = label]
                 /\ t = Main => label \in {"seed", "reduce", "lock", "done"} \cup Critical
                 /\ t # Main => label \in {"reduce", "lock", "retire", "panicked"} \cup Critical
                 /\ label = "done" => l_set' = l_set
<1> USE DEF Goto, Release, Continue, Critical
<1>1. CASE Reduce(t) \/ Clear(t)
  BY <1>1 DEF Reduce, Clear
<1>2. CASE ReduceDone(t)
  BY <1>2 DEF ReduceDone
<1>3. CASE Lock(t) \/ LockPoisoned(t) \/ Panic(t)
  BY <1>3 DEF Lock, LockPoisoned, Panic, Die
<1>4. CASE FinalDone(t) \/ Push(t)
  BY <1>4 DEF FinalDone, Push
<1>5. CASE InsertCancelled(t) \/ ClearDone(t)
  BY <1>5 DEF InsertCancelled, ClearDone
<1>6. CASE MakePairs(t) \/ Merge(t)
  BY <1>6 DEF MakePairs, Merge
<1> QED
  BY <1>1, <1>2, <1>3, <1>4, <1>5, <1>6 DEF Insertion

(* An insertion of the main thread seeds the pool, or opens it in vain.    *)
LEMMA MainFillsPool ==
  ASSUME IInv, Insertion(Main) \/ Panic(Main)
  PROVE  Pool!Seed \/ Pool!Open
<1> USE ThreadFacts
<1>0. pc \in [Thread -> Label] /\ Seeding
  <2>1. pc[Main] \in {"build", "reduce", "lock"} \cup Critical
    BY InsertionMoves
  <2> QED
    BY <2>1 DEF IInv, TypeOK, Seeding, Critical
<1>1. \A w \in Worker : pc[w] = "unborn" /\ pc'[w] = "unborn"
  BY <1>0, InsertionMoves DEF IInv, Phases
<1>2. UNCHANGED <<Holding, Home, cancel>>
  BY <1>1, InsertionMoves DEF Holding, Home
<1>3. pc'[Main] = "done" => pc[Main] # "done" /\ l_set' = l_set
  BY <1>0, InsertionMoves DEF Seeding
<1>4. pc'[Main] # "done" => Seeding'
  BY <1>0, InsertionMoves DEF Seeding, Critical
<1>5. CASE pc'[Main] = "done"
  <2>1. ~Seeding' /\ l_set' = l_set
    BY <1>3, <1>5 DEF Seeding
  <2>2. Pool!Open
    BY <1>0, <1>2, <2>1 DEF Pool!Open, Home
  <2> QED
    BY <2>2
<1>6. CASE pc'[Main] # "done"
  <2>1. Pool!Seed
    BY <1>0, <1>2, <1>4, <1>6 DEF Pool!Seed, Home
  <2> QED
    BY <2>1
<1> QED
  BY <1>5, <1>6

(* An insertion of a worker changes the queue and keeps the worker busy.   *)
LEMMA WorkerProduces ==
  ASSUME IInv, NEW w \in Worker, Insertion(w) \/ Panic(w)
  PROVE  Pool!Produce(w)
<1> USE ThreadFacts
<1>0. pc \in [Thread -> Label] /\ w # Main /\ w \in Thread
  BY DEF IInv, TypeOK
<1>1. pc[w] \in {"build", "reduce", "lock"} \cup Critical /\ w \in Holding
  BY <1>0, InsertionMoves DEF Holding, Critical
<1>2. /\ \A u \in Thread : u # w => pc'[u] = pc[u]
      /\ pc'[w] \in {"build", "reduce", "lock", "retire", "panicked"} \cup Critical
  BY <1>0, <1>1, InsertionMoves
<1>3. Holding' = Holding /\ Home' = Home /\ cancel' = cancel
  BY <1>0, <1>1, <1>2, InsertionMoves DEF Holding, Home, Critical
<1>4. Seeding' = Seeding
  BY <1>0, <1>2 DEF Seeding
<1> QED
  BY <1>1, <1>3, <1>4 DEF Pool!Produce, Home

(* The worker loop: take, finish, leave.                                   *)
LEMMA WorkerLoopInPool ==
  ASSUME IInv, BasisInv, WorkInv, NEW w \in Worker,
         ExitCancelled(w) \/ Pop(w) \/ ExitDrained(w) \/ Build(w) \/ Retire(w)
  PROVE  Pool!Take(w) \/ Pool!Produce(w) \/ Pool!Finish(w) \/ Pool!Leave(w)
<1> USE ThreadFacts DEF Goto, mainVars, localVars
<1>0. pc \in [Thread -> Label] /\ w # Main /\ w \in Thread /\ ~Seeding
  BY DEF IInv, TypeOK, Phases, ExitCancelled, Pop, ExitDrained, Build, Retire
<1>1. /\ \A u \in Thread : u # w => pc'[u] = pc[u]
      /\ Seeding' = Seeding /\ cancel' = cancel
  BY <1>0 DEF ExitCancelled, Pop, ExitDrained, Build, Retire, Seeding
<1>2. CASE ExitCancelled(w) \/ ExitDrained(w)
  <2>1. pc[w] = "top" /\ pc'[w] = "done" /\ l_set' = l_set
    BY <1>0, <1>2 DEF ExitCancelled, ExitDrained
  <2>2. w \notin Holding \cup Home /\ Holding' = Holding /\ Home' = Home \cup {w}
    BY <1>1, <2>1 DEF Holding, Home
  <2>3. cancel \/ (l_set = {} /\ Holding = {})
    <3>1. ExitDrained(w) => l_set = {} /\ Cardinality(Holding) = 0
      BY DEF ExitDrained, IInv, InFlightExact
    <3>2. Cardinality(Holding) = 0 => Holding = {}
      BY HoldingFinite, FS_EmptySet
    <3> QED
      BY <1>2, <3>1, <3>2 DEF ExitCancelled
  <2> QED
    BY <1>0, <1>1, <2>1, <2>2, <2>3 DEF Pool!Leave, Home
<1>3. CASE Pop(w)
  <2>1. pc[w] = "top" /\ pc'[w] = "build"
    BY <1>0, <1>3 DEF Pop
  <2>2. w \notin Holding \cup Home /\ Holding' = Holding \cup {w} /\ Home' = Home
    BY <1>1, <2>1 DEF Holding, Home
  <2>3. NextPair(l_set) \in l_set /\ l_set' = l_set \ {NextPair(l_set)}
    BY <1>3, NextPairQueued DEF Pop, WorkInv
  <2> QED
    BY <1>0, <1>1, <2>2, <2>3 DEF Pool!Take, Home
<1>4. CASE Build(w)
  <2>1. pc[w] = "build" /\ pc'[w] \in {"retire", "reduce"}
    BY <1>0, <1>4 DEF Build
  <2>2. w \in Holding /\ Holding' = Holding /\ Home' = Home
    BY <1>1, <2>1 DEF Holding, Home
  <2> QED
    BY <1>1, <2>2 DEF Pool!Produce, Home
<1>5. CASE Retire(w)
  <2>1. pc[w] = "retire" /\ pc'[w] = "top" /\ l_set' = l_set
    BY <1>0, <1>5 DEF Retire
  <2>2. w \in Holding /\ Holding' = Holding \ {w} /\ Home' = Home
    BY <1>1, <2>1 DEF Holding, Home
  <2> QED
    BY <1>1, <2>1, <2>2 DEF Pool!Finish, Home
<1> QED
  BY <1>2, <1>3, <1>4, <1>5

(* The main thread outside insertions opens the pool or does nothing to it.*)
LEMMA MainInPool ==
  ASSUME IInv, \/ SeedNext \/ Spawn \/ JoinPanicked \/ JoinAll
               \/ TailNext \/ TailStep \/ TailEnd \/ Finish
  PROVE  Pool!Open \/ UNCHANGED Pool!vars
<1> USE ThreadFacts DEF Goto, mainVars, localVars
<1>0. pc \in [Thread -> Label]
  BY DEF IInv, TypeOK
<1>1. \A w \in Worker : pc'[w] = pc[w] \/ (pc[w] = "unborn" /\ pc'[w] = "top")
  BY <1>0 DEF SeedNext, Spawn, JoinPanicked, JoinAll, TailNext, TailStep, TailEnd,
         Finish, IInv, Phases, Seeding
<1>2. UNCHANGED <<Holding, Home, cancel, l_set>>
  <2>1. UNCHANGED <<cancel, l_set>>
    BY DEF SeedNext, Spawn, JoinPanicked, JoinAll, TailNext, TailStep, TailEnd,
           Finish
  <2>2. UNCHANGED <<Holding, Home>>
    BY <1>1 DEF Holding, Home
  <2> QED
    BY <2>1, <2>2
<1>3. Seeding' => Seeding
  BY <1>0 DEF SeedNext, Spawn, JoinPanicked, JoinAll, TailNext, TailStep, TailEnd,
              Finish, Seeding
<1>4. CASE Seeding /\ ~Seeding'
  <2>1. Pool!Open
    BY <1>2, <1>4 DEF Pool!Open, Home
  <2> QED
    BY <2>1
<1>5. CASE Seeding' <=> Seeding
  <2>1. Seeding' = Seeding
    BY <1>5 DEF Seeding
  <2> QED
    BY <1>2, <2>1 DEF Pool!vars, Home
<1> QED
  BY <1>3, <1>4, <1>5

LEMMA StepInPool == IInv /\ BasisInv /\ WorkInv /\ [Next]_vars => [Pool!Next]_(Pool!vars)
<1> SUFFICES ASSUME IInv, BasisInv, WorkInv, [Next]_vars PROVE [Pool!Next]_(Pool!vars)
  OBVIOUS
<1>1. CASE MainStep
  <2>1. CASE Insertion(Main)
    BY <2>1, MainFillsPool DEF Pool!Next
  <2>2. CASE ~Insertion(Main)
    BY <1>1, <2>2, MainInPool DEF MainStep, Pool!Next
  <2> QED
    BY <2>1, <2>2
<1>2. ASSUME NEW w \in Worker, WorkerStep(w) PROVE [Pool!Next]_(Pool!vars)
  <2>1. CASE Spin(w)
    BY <2>1 DEF Spin, vars, Pool!vars, Seeding, Holding
  <2>2. CASE ~Spin(w)
    <3>1. Pool!Take(w) \/ Pool!Produce(w) \/ Pool!Finish(w) \/ Pool!Leave(w)
      BY <1>2, <2>2, WorkerLoopInPool, WorkerProduces DEF WorkerStep
    <3> QED
      BY <3>1 DEF Pool!Next
  <2> QED
    BY <2>1, <2>2
<1>3. CASE Cancel
  <2>1. Pool!Abort
    BY <1>3 DEF Cancel, Pool!Abort, Seeding, Holding
  <2> QED
    BY <2>1 DEF Pool!Next
<1>4. ASSUME NEW t \in Thread, Panic(t) PROVE [Pool!Next]_(Pool!vars)
  <2>1. CASE t = Main
    BY <1>4, <2>1, MainFillsPool DEF Pool!Next
  <2>2. CASE t \in Worker
    BY <1>4, <2>2, WorkerProduces DEF Pool!Next
  <2> QED
    BY <2>1, <2>2, ThreadFacts
<1>5. CASE UNCHANGED vars
  BY <1>5 DEF vars, Pool!vars, Seeding, Holding
<1> QED
  BY <1>1, <1>2, <1>3, <1>4, <1>5 DEF Next, Returned

(* The driver refines the pool of work: with counters, a lock and pairs    *)
(* instead of sets of busy and absent workers, a worker still leaves only  *)
(* when no work can come any more or the run is abandoned                  *)
(* (parallel.rs:166-259).                                                  *)
THEOREM PoolImplemented == Spec => ImplementsPool
<1>1. Init => Pool!Init
  <2> SUFFICES ASSUME Init PROVE Pool!Init
    OBVIOUS
  <2>1. /\ pc[Main] = "seed" /\ \A w \in Worker : pc[w] = "unborn"
        /\ l_set = {} /\ cancel = FALSE
    BY ThreadFacts DEF Init
  <2>2. Seeding = TRUE /\ Holding = {} /\ {w \in Worker : pc[w] = "done"} = {}
    BY <2>1 DEF Seeding, Holding
  <2> QED
    BY <2>1, <2>2 DEF Pool!Init
<1> QED
  BY <1>1, StepInPool, SpecWorkInv, PTL DEF Spec, ImplementsPool, Pool!Spec

(* What the pool itself promises, and so every implementation of it: a     *)
(* worker that goes home from a run that is not aborted leaves no work     *)
(* behind (the comment on pop_or_wait, parallel.rs:222-230).               *)
THEOREM PoolDrains == Pool!Spec => []Pool!Drained
<1> DEFINE PoolInv == Pool!Drained /\ (Seeding => Home = {})
<1>1. Pool!Init => PoolInv
  BY DEF Pool!Init, Pool!Drained, Home
<1>2. PoolInv /\ [Pool!Next]_(Pool!vars) => PoolInv'
  <2> SUFFICES ASSUME PoolInv, [Pool!Next]_(Pool!vars) PROVE PoolInv'
    OBVIOUS
  <2> USE DEF Pool!Drained, Home
  <2>1. CASE Pool!Seed \/ Pool!Open \/ Pool!Abort \/ UNCHANGED Pool!vars
    BY <2>1 DEF Pool!Seed, Pool!Open, Pool!Abort, Pool!vars
  <2>2. ASSUME NEW w \in Worker, Pool!Take(w) PROVE PoolInv'
    BY <2>2 DEF Pool!Take
  <2>3. ASSUME NEW w \in Worker, Pool!Produce(w) \/ Pool!Finish(w) PROVE PoolInv'
    BY <2>3 DEF Pool!Produce, Pool!Finish
  <2>4. ASSUME NEW w \in Worker, Pool!Leave(w) PROVE PoolInv'
    BY <2>4 DEF Pool!Leave
  <2> QED
    BY <2>1, <2>2, <2>3, <2>4 DEF Pool!Next
<1>3. PoolInv => Pool!Drained
  OBVIOUS
<1> HIDE DEF PoolInv
<1> QED
  BY <1>1, <1>2, <1>3, PTL DEF Pool!Spec
=============================================================================

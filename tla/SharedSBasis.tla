---------------------------- MODULE SharedSBasis ----------------------------
(***************************************************************************)
(* The shared basis of the parallel driver with its two read-write locks   *)
(* (SharedSBasis of src/src/computation.rs) and the ways the driver uses   *)
(* it (src/src/parallel.rs): an insertion reduces its element once more,   *)
(* pushes it, takes a snapshot of the flags and marks what the element     *)
(* covers, all under insert_mutex; a reduction searches a divisor;         *)
(* build_lobject_for_pair fetches one element.  A step is one acquisition  *)
(* or release of a lock, one append, or one load or store of a flag.       *)
(*                                                                         *)
(* An element is its leading monomial.  The locks are std::sync::RwLock of *)
(* a build where waiting writers go before new readers: the policy under   *)
(* which a second read by a thread that holds one can deadlock.  The flags *)
(* are sequentially consistent here; ParallelBba has what relaxed ordering *)
(* may add.                                                                *)
(***************************************************************************)
EXTENDS Monomials, Sequences

CONSTANTS
  Thread,
  Leaders,      \* the leading monomials of the elements and of the searches
  MaxInserts,   \* bound of the model: the number of insertions
  Nobody, Nothing, AllFlags

ASSUME LeadersAssumption == Leaders \subseteq Monomial
ASSUME MaxInsertsAssumption == MaxInserts \in Nat
ASSUME ThreadAssumption ==
  Nobody \notin Thread /\ Nothing \notin Leaders \cup {AllFlags} /\ AllFlags \notin Leaders

VARIABLES
  polys, redundant,   \* the arrays behind the two locks
  inner, flags,       \* the locks: [writer, readers]
  inserter,           \* the holder of insert_mutex
  pc,                 \* where each thread is
  op,                 \* what it is doing: "search" or "fetch", or the stage of its
                      \* insertion: "final", "push", "snapshot" or "clear"
  arg,                \* the monomial it pushes or searches a divisor of
  at,                 \* the index its loop has come to
  seen,               \* the flags a snapshot has read so far
  answer,             \* the result of a search or a snapshot
  begun,              \* the number of insertions begun
  cancel              \* the cancel flag

vars == <<polys, redundant, inner, flags, inserter, pc, op, arg, at, seen, answer,
          begun, cancel>>
arrays == <<polys, redundant>>
locals == <<arg, at, seen, answer, begun, cancel>>

Unlocked == [writer |-> Nobody, readers |-> {}]

Init ==
  /\ polys = << >> /\ redundant = << >>
  /\ inner = Unlocked /\ flags = Unlocked
  /\ inserter = Nobody
  /\ pc = [t \in Thread |-> "idle"]
  /\ op = [t \in Thread |-> "fetch"]
  /\ arg = [t \in Thread |-> Nothing]
  /\ at = [t \in Thread |-> 0]
  /\ seen = [t \in Thread |-> << >>]
  /\ answer = [t \in Thread |-> Nothing]
  /\ begun = 0 /\ cancel = FALSE

Goto(t, label) == pc' = [pc EXCEPT ![t] = label]

Writing(t) == op[t] = "push"

Searching(t) == op[t] \in {"search", "final"}

-----------------------------------------------------------------------------
(* The operations begin.                                                   *)

(* insert_and_enterpairs.                                                  *)
StartInsert(t, h) ==
  /\ pc[t] = "idle" /\ ~cancel /\ begun < MaxInserts
  /\ op' = [op EXCEPT ![t] = "final"]
  /\ arg' = [arg EXCEPT ![t] = h]
  /\ begun' = begun + 1
  /\ Goto(t, "mutex")
  /\ UNCHANGED <<arrays, inner, flags, inserter, at, seen, answer, cancel>>

(* Mutant of LockInsert: insertions overlap.                               *)
LockInsertShared(t) ==
  /\ pc[t] = "mutex"
  /\ inserter' = t
  /\ Goto(t, "inner")
  /\ UNCHANGED <<arrays, inner, flags, op, locals>>

LockInsert(t) ==
  /\ pc[t] = "mutex" /\ inserter = Nobody
  /\ inserter' = t
  /\ Goto(t, "inner")
  /\ UNCHANGED <<arrays, inner, flags, op, locals>>

(* One divisor search of reduce_lobject_parallel.                          *)
StartSearch(t, m) ==
  /\ pc[t] = "idle" /\ ~cancel
  /\ op' = [op EXCEPT ![t] = "search"]
  /\ arg' = [arg EXCEPT ![t] = m]
  /\ Goto(t, "inner")
  /\ UNCHANGED <<arrays, inner, flags, inserter, at, seen, answer, begun, cancel>>

(* SharedSBasis::poly, which reads nothing that could be in flux.          *)
StartFetch(t) ==
  /\ pc[t] = "idle"
  /\ op' = [op EXCEPT ![t] = "fetch"]
  /\ Goto(t, "inner")
  /\ UNCHANGED <<arrays, inner, flags, inserter, locals>>

-----------------------------------------------------------------------------
(* The locks.  A thread at "inner" or "flags" waits for that lock.         *)

Waits(t, lock) == pc[t] = lock

WaitingWriters(lock) == {w \in Thread : Waits(w, lock) /\ Writing(w)}

(* Lock l, named lock, as it is after t has got it.                        *)
Acquire(t, l, lock) ==
  IF Writing(t)
  THEN l = Unlocked /\ l' = [writer |-> t, readers |-> {}]
  ELSE /\ l.writer = Nobody /\ WaitingWriters(lock) = {}
       /\ l' = [l EXCEPT !.readers = @ \cup {t}]

Release(t, l) ==
  l' = IF Writing(t) THEN Unlocked ELSE [l EXCEPT !.readers = @ \ {t}]

(* A fetch only needs the first lock.                                      *)
AcquireInner(t) ==
  /\ Waits(t, "inner")
  /\ Acquire(t, inner, "inner")
  /\ Goto(t, IF op[t] = "fetch" THEN "drop_inner" ELSE "flags")
  /\ UNCHANGED <<arrays, flags, inserter, op, locals>>

AcquireFlags(t) ==
  /\ Waits(t, "flags")
  /\ Acquire(t, flags, "flags")
  /\ at' = [at EXCEPT ![t] = 1]
  /\ Goto(t, IF Writing(t) THEN "append" ELSE "scan")
  /\ UNCHANGED <<arrays, inner, inserter, op, arg, seen, answer, begun, cancel>>

(* The guards are dropped in the reverse order.                            *)
DropFlags(t) ==
  /\ pc[t] = "drop_flags"
  /\ Release(t, flags)
  /\ at' = [at EXCEPT ![t] = 0]
  /\ Goto(t, "drop_inner")
  /\ UNCHANGED <<arrays, inner, inserter, op, arg, seen, answer, begun, cancel>>

(* The operation goes on with stage next for the element m.                *)
Continue(t, next, m) ==
  /\ op' = [op EXCEPT ![t] = next]
  /\ arg' = [arg EXCEPT ![t] = m]
  /\ Goto(t, "inner")
  /\ UNCHANGED inserter

(* Mutant of Return: the mutex is kept.                                    *)
ReturnLocked(t) ==
  /\ op' = [op EXCEPT ![t] = "fetch"]
  /\ arg' = [arg EXCEPT ![t] = Nothing]
  /\ Goto(t, "idle")
  /\ UNCHANGED inserter

(* It returns, and an insertion drops the mutex.                           *)
Return(t) ==
  /\ op' = [op EXCEPT ![t] = "fetch"]
  /\ arg' = [arg EXCEPT ![t] = Nothing]
  /\ inserter' = IF inserter = t THEN Nobody ELSE inserter
  /\ Goto(t, "idle")

(* The last reduction goes on while there is a divisor, with a smaller     *)
(* leading monomial or with nothing; then come the push, the snapshot and  *)
(* the marks.                                                              *)
DropInner(t) ==
  /\ pc[t] = "drop_inner"
  /\ Release(t, inner)
  /\ CASE op[t] = "final" /\ answer[t] # 0 ->
            \/ Return(t)
            \/ \E m \in Leaders : Less(m, arg[t]) /\ Continue(t, "final", m)
       [] op[t] = "final" /\ answer[t] = 0 -> Continue(t, "push", arg[t])
       [] op[t] = "push" -> Continue(t, "snapshot", arg[t])
       [] op[t] = "snapshot" -> Continue(t, "clear", arg[t])
       [] OTHER -> Return(t)
  /\ answer' = [answer EXCEPT ![t] = Nothing]
  /\ UNCHANGED <<arrays, flags, at, seen, begun, cancel>>

(* A poll may still miss the flag: it is loaded relaxed, and the threads   *)
(* are past their polls when they wait for a lock.                         *)
Cancel ==
  /\ ~cancel
  /\ cancel' = TRUE
  /\ UNCHANGED <<arrays, inner, flags, inserter, pc, op, arg, at, seen, answer, begun>>

(* The last reduction sees the flag: the element is pushed as it is.       *)
FinalCancelled(t) ==
  /\ Waits(t, "inner") /\ op[t] = "final" /\ cancel
  /\ Continue(t, "push", arg[t])
  /\ UNCHANGED <<arrays, inner, flags, at, seen, answer, begun, cancel>>

(* An insertion that sees it before its snapshot or its marks returns.     *)
InsertCancelled(t) ==
  /\ Waits(t, "inner") /\ op[t] \in {"snapshot", "clear"} /\ cancel
  /\ Return(t)
  /\ UNCHANGED <<arrays, inner, flags, at, seen, answer, begun, cancel>>

-----------------------------------------------------------------------------
(* Under the locks.                                                        *)

(* Mutant of AppendPoly: the guards are dropped before the flag is there.  *)
AppendPolyUnlocking(t) ==
  /\ pc[t] = "append"
  /\ polys' = Append(polys, arg[t])
  /\ inner' = Unlocked /\ flags' = Unlocked
  /\ Goto(t, "flag")
  /\ UNCHANGED <<redundant, inserter, op, locals>>

(* SharedSBasis::push appends to the arrays behind inner, then to the flags. *)
AppendPoly(t) ==
  /\ pc[t] = "append"
  /\ polys' = Append(polys, arg[t])
  /\ Goto(t, "flag")
  /\ UNCHANGED <<redundant, inner, flags, inserter, op, locals>>

AppendFlag(t) ==
  /\ pc[t] = "flag"
  /\ redundant' = Append(redundant, FALSE)
  /\ Goto(t, "drop_flags")
  /\ UNCHANGED <<polys, inner, flags, inserter, op, locals>>

Hit(t) == ~redundant[at[t]] /\ Divides(polys[at[t]], arg[t])

(* Mutant of Search: the element found is fetched under a second guard of  *)
(* inner.                                                                  *)
SearchRefetching(t) ==
  /\ pc[t] = "scan" /\ Searching(t) /\ at[t] <= Len(polys)
  /\ IF Hit(t)
     THEN Goto(t, "inner") /\ UNCHANGED at
     ELSE at' = [at EXCEPT ![t] = @ + 1] /\ UNCHANGED pc
  /\ UNCHANGED <<arrays, inner, flags, inserter, op, arg, seen, answer, begun, cancel>>

(* One turn of the search: stop at the first active divisor.               *)
Search(t) ==
  /\ pc[t] = "scan" /\ Searching(t) /\ at[t] <= Len(polys)
  /\ IF Hit(t)
     THEN /\ answer' = [answer EXCEPT ![t] = at[t]]
          /\ Goto(t, "drop_flags") /\ UNCHANGED at
     ELSE /\ at' = [at EXCEPT ![t] = @ + 1]
          /\ UNCHANGED <<pc, answer>>
  /\ UNCHANGED <<arrays, inner, flags, inserter, op, arg, seen, begun, cancel>>

SearchEnd(t) ==
  /\ pc[t] = "scan" /\ Searching(t) /\ at[t] > Len(polys)
  /\ answer' = [answer EXCEPT ![t] = 0]
  /\ Goto(t, "drop_flags")
  /\ UNCHANGED <<arrays, inner, flags, inserter, op, arg, at, seen, begun, cancel>>

Snapshot(t) ==
  /\ pc[t] = "scan" /\ op[t] = "snapshot" /\ at[t] <= Len(polys)
  /\ seen' = [seen EXCEPT ![t] = Append(@, redundant[at[t]])]
  /\ at' = [at EXCEPT ![t] = @ + 1]
  /\ UNCHANGED <<arrays, inner, flags, inserter, pc, op, arg, answer, begun, cancel>>

(* Mutant of SnapshotEnd: the next snapshot is added to this one.          *)
SnapshotEndKept(t) ==
  /\ pc[t] = "scan" /\ op[t] = "snapshot" /\ at[t] > Len(polys)
  /\ answer' = [answer EXCEPT ![t] = seen[t]]
  /\ Goto(t, "drop_flags")
  /\ UNCHANGED <<arrays, inner, flags, inserter, op, arg, at, seen, begun, cancel>>

SnapshotEnd(t) ==
  /\ pc[t] = "scan" /\ op[t] = "snapshot" /\ at[t] > Len(polys)
  /\ answer' = [answer EXCEPT ![t] = seen[t]]
  /\ seen' = [seen EXCEPT ![t] = << >>]
  /\ Goto(t, "drop_flags")
  /\ UNCHANGED <<arrays, inner, flags, inserter, op, arg, at, begun, cancel>>

(* clear_redundant_for the element just pushed, the last of the basis: a   *)
(* load, and a store when an older active element is covered.              *)
Clear(t) ==
  /\ pc[t] = "scan" /\ op[t] = "clear" /\ at[t] < Len(polys)
  /\ redundant' =
       [redundant EXCEPT ![at[t]] = @ \/ Divides(arg[t], polys[at[t]])]
  /\ at' = [at EXCEPT ![t] = @ + 1]
  /\ UNCHANGED <<polys, inner, flags, inserter, pc, op, arg, seen, answer, begun, cancel>>

ClearEnd(t) ==
  /\ pc[t] = "scan" /\ op[t] = "clear" /\ at[t] >= Len(polys)
  /\ Goto(t, "drop_flags")
  /\ UNCHANGED <<arrays, inner, flags, inserter, op, locals>>

Step(t) ==
  \/ AcquireInner(t) \/ AcquireFlags(t) \/ DropFlags(t) \/ DropInner(t)
  \/ LockInsert(t) \/ FinalCancelled(t) \/ InsertCancelled(t)
  \/ AppendPoly(t) \/ AppendFlag(t)
  \/ Search(t) \/ SearchEnd(t) \/ Snapshot(t) \/ SnapshotEnd(t)
  \/ Clear(t) \/ ClearEnd(t)

Next ==
  \/ Cancel
  \/ \E t \in Thread :
       \/ \E m \in Leaders : StartInsert(t, m) \/ StartSearch(t, m)
       \/ StartFetch(t)
       \/ Step(t)

(* A thread in the middle of an operation that can go on eventually does.  *)
Spec == Init /\ [][Next]_vars /\ \A t \in Thread : WF_vars(Step(t))

-----------------------------------------------------------------------------
(* Properties.                                                             *)

Lock == [writer : Thread \cup {Nobody}, readers : SUBSET Thread]

(* The locks are well typed, a written lock has no readers, and the local  *)
(* loops stay within the basis.                                            *)
TypeOK ==
  /\ inner \in Lock /\ flags \in Lock
  /\ inner.writer # Nobody => inner.readers = {}
  /\ flags.writer # Nobody => flags.readers = {}
  /\ inserter \in Thread \cup {Nobody}
  /\ \A t \in Thread : at[t] \in 0 .. Len(polys) + 1 /\ Len(seen[t]) <= Len(polys)

(* A thread that has read the length under inner may use it as a bound on  *)
(* the flags, and the other way round: whoever holds a read guard of both  *)
(* sees arrays of the same length (computation.rs:38-42 and 54-60).        *)
InSync ==
  inner.readers \cap flags.readers # {} => Len(polys) = Len(redundant)

(* The threads that t must wait for before it gets the lock it is at: the  *)
(* holders that exclude it, and for a reader the writers that go first.    *)
WaitsFor(t) ==
  LET holders(l, lock) ==
        {u \in Thread : \/ u = l.writer
                        \/ Writing(t) /\ u \in l.readers
                        \/ ~Writing(t) /\ u \in WaitingWriters(lock)}
  IN  CASE Waits(t, "mutex") -> {inserter} \cap Thread
        [] Waits(t, "inner") -> holders(inner, "inner")
        [] Waits(t, "flags") -> holders(flags, "flags")
        [] OTHER -> {}

(* The order of the locks is a consistent one: no circle of threads wait   *)
(* for one another (computation.rs:107-109).                               *)
NoCircularWait ==
  \A S \in SUBSET Thread : (\A t \in S : WaitsFor(t) \cap S # {}) => S = {}

(* Every push, search and snapshot is over some time: no thread waits for  *)
(* ever, a writer in particular is not starved by searches that come and   *)
(* go (parallel.rs:275-277).                                               *)
OperationsEnd == \A t \in Thread : pc[t] # "idle" ~> pc[t] = "idle"

Atomic == INSTANCE AtomicBasis WITH
            polys <- SubSeq(polys, 1, Len(redundant)),
            asked <- [t \in Thread |->
                        IF pc[t] \notin {"flags", "scan"} THEN Nothing
                        ELSE IF Searching(t) THEN arg[t]
                        ELSE IF op[t] = "snapshot" THEN AllFlags ELSE Nothing]

(* To the driver every operation happens at one moment: a push when the    *)
(* flag is there, a search at its last load, whatever marks are stored     *)
(* while it runs, a snapshot because nobody else stores any then.          *)
ImplementsAtomic == Atomic!Spec
=============================================================================

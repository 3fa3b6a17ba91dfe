------------------------- MODULE SharedSBasisProofs -------------------------
(***************************************************************************)
(* The lock discipline of the shared basis for every number of threads and *)
(* every length: the two arrays agree whenever they can be seen, no circle *)
(* of threads can wait for one another, and every operation takes effect   *)
(* at one moment.                                                          *)
(***************************************************************************)
EXTENDS SharedSBasis, SequenceTheorems, TLAPS

Label == {"idle", "mutex", "inner", "flags", "append", "flag", "scan",
          "drop_flags", "drop_inner"}
Op == {"final", "push", "snapshot", "clear", "search", "fetch"}

(* Who holds which lock, read off the program counters.                    *)
Held ==
  \A t \in Thread :
    /\ inner.writer = t <=>
         Writing(t) /\ pc[t] \in {"flags", "append", "flag", "drop_flags", "drop_inner"}
    /\ t \in inner.readers <=>
         ~Writing(t) /\ pc[t] \in {"flags", "scan", "drop_flags", "drop_inner"}
    /\ flags.writer = t <=>
         Writing(t) /\ pc[t] \in {"append", "flag", "drop_flags"}
    /\ t \in flags.readers <=> ~Writing(t) /\ pc[t] \in {"scan", "drop_flags"}
    /\ inserter = t <=> op[t] \in {"final", "push", "snapshot", "clear"} /\ pc[t] # "mutex"

Typed ==
  /\ pc \in [Thread -> Label] /\ op \in [Thread -> Op]
  /\ arg \in [Thread -> Leaders \cup {Nothing}]
  /\ inner \in Lock /\ flags \in Lock /\ inserter \in Thread \cup {Nobody}
  /\ inner.writer # Nobody => inner.readers = {}
  /\ flags.writer # Nobody => flags.readers = {}
  /\ \A t \in Thread : /\ pc[t] = "idle" => op[t] = "fetch"
                       /\ pc[t] = "mutex" => op[t] = "final"
                       /\ pc[t] \in {"append", "flag"} => op[t] = "push"
                       /\ pc[t] = "scan" => op[t] # "push"
                       /\ op[t] \in {"final", "push"} => arg[t] \in Leaders

(* The flags are one behind between the two appends of a push.             *)
Lengths ==
  /\ polys \in Seq(Leaders) /\ redundant \in Seq(BOOLEAN)
  /\ (\A t \in Thread : pc[t] # "flag") => Len(polys) = Len(redundant)
  /\ \A t \in Thread : pc[t] = "flag" => Len(polys) = Len(redundant) + 1

LockInv == Typed /\ Held /\ Lengths

-----------------------------------------------------------------------------

(* Setting an entry keeps a sequence of flags one of the same length.      *)
LEMMA SetFlag ==
  ASSUME NEW s \in Seq(BOOLEAN), NEW i, NEW v \in BOOLEAN
  PROVE  /\ [s EXCEPT ![i] = v] \in Seq(BOOLEAN)
         /\ Len([s EXCEPT ![i] = v]) = Len(s)
<1> DEFINE g == [s EXCEPT ![i] = v]
<1>0. g = [k \in 1 .. Len(s) |-> IF k = i THEN v ELSE s[k]]
  OBVIOUS
<1>1. g \in [1 .. Len(s) -> BOOLEAN]
  <2>1. \A k \in 1 .. Len(s) : s[k] \in BOOLEAN
    BY ElementOfSeq
  <2>2. \A k \in 1 .. Len(s) : g[k] \in BOOLEAN
    BY <1>0, <2>1
  <2> QED
    BY <1>0, <2>2
<1>2. g \in Seq(BOOLEAN)
  BY <1>1, SeqDef, LenProperties
<1>3. Len(g) = Len(s)
  BY <1>1, <1>2, LenProperties
<1> QED
  BY <1>2, <1>3

LEMMA InitLockInv == Init => LockInv
<1> SUFFICES ASSUME Init PROVE LockInv
  OBVIOUS
<1>1. Typed /\ Held
  BY ThreadAssumption
     DEF Init, Typed, Held, Label, Op, Lock, Unlocked, Writing, ThreadAssumption
<1>2. Lengths
  BY DEF Init, Lengths
<1> QED
  BY <1>1, <1>2 DEF LockInv

LEMMA StepKeepsLockInv ==
  ASSUME LockInv, NEW t \in Thread, Step(t)
  PROVE  LockInv'
<1> USE ThreadAssumption DEF ThreadAssumption
<1>1. CASE AcquireInner(t)
  <2>1. Typed' /\ Held'
    BY <1>1 DEF LockInv, Typed, Held, AcquireInner, Acquire, Waits, WaitingWriters,
                Writing, Goto, Unlocked, Lock, Label, locals, arrays
  <2>2. Lengths'
    BY <1>1 DEF LockInv, Typed, Lengths, AcquireInner, Goto, arrays, Waits
  <2> QED  BY <2>1, <2>2 DEF LockInv
<1>2. CASE AcquireFlags(t)
  <2>1. Typed' /\ Held'
    BY <1>2 DEF LockInv, Typed, Held, AcquireFlags, Acquire, Waits, WaitingWriters,
                Writing, Goto, Unlocked, Lock, Label, locals, arrays
  <2>2. Lengths'
    BY <1>2 DEF LockInv, Typed, Lengths, AcquireFlags, Goto, arrays, Waits
  <2> QED  BY <2>1, <2>2 DEF LockInv
<1>3. CASE DropFlags(t)
  <2>1. Typed' /\ Held'
    BY <1>3 DEF LockInv, Typed, Held, DropFlags, Release, Writing, Goto, Unlocked, Lock,
                Label, arrays
  <2>2. Lengths'
    BY <1>3 DEF LockInv, Typed, Lengths, DropFlags, Goto, arrays
  <2> QED  BY <2>1, <2>2 DEF LockInv
<1>4. CASE DropInner(t)
  <2>1. Typed' /\ Held'
    BY <1>4 DEF LockInv, Typed, Held, DropInner, Continue, Return, Release, Writing,
                Goto, Unlocked, Lock, Label, Op, arrays
  <2>2. Lengths'
    BY <1>4 DEF LockInv, Typed, Lengths, DropInner, Continue, Return, Goto, arrays
  <2> QED  BY <2>1, <2>2 DEF LockInv
<1>5. CASE LockInsert(t) \/ FinalCancelled(t) \/ InsertCancelled(t)
  <2>1. Typed' /\ Held'
    BY <1>5 DEF LockInv, Typed, Held, LockInsert, FinalCancelled, InsertCancelled,
                Continue, Return, Waits, Writing,
                Goto, Label, Op, arrays, locals
  <2>2. Lengths'
    BY <1>5 DEF LockInv, Typed, Lengths, LockInsert, FinalCancelled, InsertCancelled,
                Continue, Return, Goto, arrays,
                Waits
  <2> QED  BY <2>1, <2>2 DEF LockInv
<1>6. CASE AppendPoly(t)
  <2>1. Typed' /\ Held'
    BY <1>6 DEF LockInv, Typed, Held, AppendPoly, Writing, Goto, Label, locals
  <2>2. \A u \in Thread : pc[u] # "flag"
    BY <1>6 DEF LockInv, Typed, Held, AppendPoly, Writing
  <2>3. Lengths'
    BY <1>6, <2>2 DEF LockInv, Typed, Lengths, AppendPoly, Goto
  <2> QED  BY <2>1, <2>3 DEF LockInv
<1>7. CASE AppendFlag(t)
  <2>1. Typed' /\ Held'
    BY <1>7 DEF LockInv, Typed, Held, AppendFlag, Writing, Goto, Label, locals
  <2>2. \A u \in Thread : pc[u] = "flag" => u = t
    BY <1>7 DEF LockInv, Typed, Held, AppendFlag, Writing
  <2>3. Lengths'
    BY <1>7, <2>2 DEF LockInv, Typed, Lengths, AppendFlag, Goto, Label
  <2> QED  BY <2>1, <2>3 DEF LockInv
<1>8. CASE Search(t) \/ SearchEnd(t) \/ Snapshot(t) \/ SnapshotEnd(t) \/ ClearEnd(t)
  <2>1. Typed' /\ Held'
    BY <1>8 DEF LockInv, Typed, Held, Search, SearchEnd, Snapshot, SnapshotEnd, ClearEnd,
                Writing, Goto, Label, locals, arrays
  <2>2. Lengths'
    BY <1>8 DEF LockInv, Typed, Lengths, Search, SearchEnd, Snapshot, SnapshotEnd,
                ClearEnd, Goto, arrays
  <2> QED  BY <2>1, <2>2 DEF LockInv
<1>9. CASE Clear(t)
  <2>1. Typed' /\ Held'
    BY <1>9 DEF LockInv, Typed, Held, Clear, Writing
  <2> DEFINE v == redundant[at[t]] \/ Divides(arg[t], polys[at[t]])
  <2>2. v \in BOOLEAN
    OBVIOUS
  <2>3. redundant' = [redundant EXCEPT ![at[t]] = v] /\ UNCHANGED <<polys, pc>>
    BY <1>9 DEF Clear
  <2>4. redundant' \in Seq(BOOLEAN) /\ Len(redundant') = Len(redundant)
    BY <2>2, <2>3, SetFlag DEF LockInv, Lengths
  <2>5. Lengths'
    BY <2>3, <2>4 DEF LockInv, Lengths
  <2> QED  BY <2>1, <2>5 DEF LockInv
<1> QED
  BY <1>1, <1>2, <1>3, <1>4, <1>5, <1>6, <1>7, <1>8, <1>9 DEF Step

LEMMA NextKeepsLockInv == LockInv /\ [Next]_vars => LockInv'
<1> SUFFICES ASSUME LockInv, [Next]_vars PROVE LockInv'
  OBVIOUS
<1>1. ASSUME NEW t \in Thread, NEW m \in Leaders, StartInsert(t, m)
      PROVE  LockInv'
  BY <1>1 DEF LockInv, Typed, Held, Lengths, StartInsert, Writing, Goto, Label, Op, arrays
<1>2. ASSUME NEW t \in Thread, NEW m \in Leaders, StartSearch(t, m)
      PROVE  LockInv'
  BY <1>2 DEF LockInv, Typed, Held, Lengths, StartSearch, Writing, Goto, Label, Op, arrays
<1>3. ASSUME NEW t \in Thread, StartFetch(t)
      PROVE  LockInv'
  BY <1>3 DEF LockInv, Typed, Held, Lengths, StartFetch, Writing, Goto, Label, Op,
              arrays, locals
<1>4. CASE Cancel \/ UNCHANGED vars
  BY <1>4 DEF LockInv, Typed, Held, Lengths, Writing, Cancel, vars, arrays
<1> QED
  BY <1>1, <1>2, <1>3, <1>4, StepKeepsLockInv DEF Next

LEMMA SpecLockInv == Spec => []LockInv
BY InitLockInv, NextKeepsLockInv, PTL DEF Spec

-----------------------------------------------------------------------------

(* A loop is at the index it has come to, and a snapshot has one flag for  *)
(* every index before.                                                     *)
Loops ==
  /\ at \in [Thread -> Nat] /\ seen \in [Thread -> Seq(BOOLEAN)]
  /\ \A t \in Thread :
       /\ at[t] <= Len(polys) + 1
       /\ pc[t] = "scan" => at[t] >= 1
       /\ pc[t] = "scan" /\ op[t] = "snapshot" => Len(seen[t]) = at[t] - 1
       /\ ~(pc[t] = "scan" /\ op[t] = "snapshot") => Len(seen[t]) = 0

LEMMA InitLoops == Init => Loops
BY DEF Init, Loops

LEMMA StepKeepsLoops ==
  ASSUME LockInv, LockInv', Loops, NEW t \in Thread, Step(t)
  PROVE  Loops'
<1>0. Len(polys) \in Nat /\ Len(polys') \in Nat /\ Len(redundant) \in Nat
  BY DEF LockInv, Lengths
<1>1. CASE AcquireInner(t)
  BY <1>0, <1>1 DEF Loops, LockInv, Typed, AcquireInner, Goto, Waits, arrays, locals
<1>2. CASE AcquireFlags(t)
  BY <1>0, <1>2 DEF Loops, LockInv, Typed, AcquireFlags, Goto, Waits, Label, arrays
<1>3. CASE DropFlags(t) \/ DropInner(t)
  <2>1. pc[t] # "scan" /\ (pc' = pc \/ \E x \in Label \ {"scan"} : pc' = [pc EXCEPT ![t] = x])
    BY <1>3 DEF DropFlags, DropInner, Continue, Return, Goto, Label
  <2>2. /\ at' = at \/ at' = [at EXCEPT ![t] = 0]
        /\ UNCHANGED <<polys, seen>>
    BY <1>3 DEF DropFlags, DropInner, arrays
  <2>3. op' = op \/ \E o \in Op : op' = [op EXCEPT ![t] = o]
    BY <1>3 DEF DropFlags, DropInner, Continue, Return, Op
  <2>4. at' \in [Thread -> Nat] /\ at'[t] \in {at[t], 0}
    BY <2>2 DEF Loops
  <2>5. pc'[t] # "scan" /\ Len(seen[t]) = 0
    BY <2>1 DEF Loops, LockInv, Typed
  <2>6. \A u \in Thread \ {t} : at'[u] = at[u] /\ pc'[u] = pc[u] /\ op'[u] = op[u]
    BY <2>1, <2>2, <2>3 DEF Loops, LockInv, Typed
  <2>7. at'[t] <= Len(polys) + 1
    BY <1>0, <2>4 DEF Loops
  <2>8. \A u \in Thread : at'[u] <= Len(polys) + 1
    BY <2>6, <2>7 DEF Loops
  <2> QED
    BY <2>2, <2>4, <2>5, <2>6, <2>8 DEF Loops
<1>4. CASE LockInsert(t) \/ FinalCancelled(t) \/ InsertCancelled(t)
  BY <1>0, <1>4 DEF Loops, LockInv, Typed, LockInsert, FinalCancelled, InsertCancelled,
                Continue, Return, Goto,
                    Waits, Label, arrays, locals
<1>5. CASE AppendPoly(t)
  <2>1. Len(polys') = Len(polys) + 1
    BY <1>5 DEF LockInv, Typed, Lengths, AppendPoly
  <2> QED
    BY <1>0, <1>5, <2>1 DEF Loops, LockInv, Typed, AppendPoly, Goto, Label, locals
<1>6. CASE AppendFlag(t)
  BY <1>0, <1>6 DEF Loops, LockInv, Typed, AppendFlag, Goto, Label, locals
<1>7. CASE Search(t) \/ SearchEnd(t) \/ ClearEnd(t)
  <2>1. CASE Search(t)
    <3>1. /\ pc[t] = "scan" /\ op[t] # "snapshot" /\ at[t] <= Len(polys)
          /\ UNCHANGED <<polys, op, seen>>
          /\ \/ UNCHANGED at /\ pc' = [pc EXCEPT ![t] = "drop_flags"]
             \/ UNCHANGED pc /\ at' = [at EXCEPT ![t] = @ + 1]
      BY <2>1 DEF Search, Searching, Goto, arrays
    <3>2. at' \in [Thread -> Nat] /\ at'[t] <= Len(polys) + 1 /\ at'[t] >= 1
      <4>1. CASE UNCHANGED at
        BY <3>1, <4>1 DEF Loops
      <4>2. CASE at' = [at EXCEPT ![t] = @ + 1]
        <5>1. at[t] \in Nat
          BY DEF Loops
        <5>2. at'[t] = at[t] + 1 /\ at' \in [Thread -> Nat]
          BY <4>2, <5>1 DEF Loops
        <5> QED
          BY <1>0, <3>1, <5>1, <5>2
      <4> QED
        BY <3>1, <4>1, <4>2
    <3>3. \A u \in Thread \ {t} : at'[u] = at[u] /\ pc'[u] = pc[u]
      BY <3>1 DEF LockInv, Typed, Loops
    <3> QED
      BY <3>1, <3>2, <3>3 DEF Loops
  <2>2. CASE SearchEnd(t) \/ ClearEnd(t)
    BY <1>0, <2>2 DEF Loops, LockInv, Typed, SearchEnd, Searching, ClearEnd, Goto, Label,
                      arrays, locals
  <2> QED
    BY <1>7, <2>1, <2>2
<1>8. CASE Snapshot(t)
  <2>1. inner.writer = Nobody
    BY <1>8 DEF LockInv, Typed, Held, Snapshot, Writing
  <2>2. Len(polys) = Len(redundant)
    BY <2>1, ThreadAssumption
       DEF LockInv, Typed, Held, Lengths, Writing, ThreadAssumption
  <2>3. redundant[at[t]] \in BOOLEAN
    BY <1>0, <1>8, <2>2, ElementOfSeq DEF LockInv, Lengths, Loops, Snapshot
  <2> DEFINE longer == Append(seen[t], redundant[at[t]])
  <2>4. longer \in Seq(BOOLEAN) /\ Len(longer) = Len(seen[t]) + 1
    BY <2>3 DEF Loops
  <2>5. seen' = [seen EXCEPT ![t] = longer]
    BY <1>8 DEF Snapshot
  <2> HIDE DEF longer
  <2>6. seen' \in [Thread -> Seq(BOOLEAN)]
    BY <2>4, <2>5 DEF Loops
  <2>7. /\ at' = [at EXCEPT ![t] = @ + 1] /\ at[t] <= Len(polys)
        /\ pc[t] = "scan" /\ op[t] = "snapshot"
        /\ UNCHANGED <<polys, pc, op>>
    BY <1>8 DEF Snapshot, arrays
  <2>8. at' \in [Thread -> Nat] /\ at'[t] = at[t] + 1 /\ seen'[t] = longer
    BY <2>5, <2>7 DEF Loops
  <2>9. \A u \in Thread \ {t} : at'[u] = at[u] /\ seen'[u] = seen[u]
    BY <2>5, <2>7 DEF Loops
  <2>10. Len(seen'[t]) = at'[t] - 1 /\ at'[t] >= 1 /\ at'[t] <= Len(polys') + 1
    BY <1>0, <2>4, <2>7, <2>8 DEF Loops
  <2> QED
    BY <2>6, <2>7, <2>8, <2>9, <2>10 DEF Loops
<1>9. CASE SnapshotEnd(t)
  BY <1>0, <1>9 DEF Loops, LockInv, Typed, SnapshotEnd, Goto, Label, arrays
<1>10. CASE Clear(t)
  BY <1>0, <1>10 DEF Loops, Clear
<1> QED
  BY <1>1, <1>2, <1>3, <1>4, <1>5, <1>6, <1>7, <1>8, <1>9, <1>10 DEF Step

LEMMA NextKeepsLoops == LockInv /\ LockInv' /\ Loops /\ [Next]_vars => Loops'
<1> SUFFICES ASSUME LockInv, LockInv', Loops, [Next]_vars PROVE Loops'
  OBVIOUS
<1>1. ASSUME NEW t \in Thread, NEW m \in Leaders, StartInsert(t, m) \/ StartSearch(t, m)
      PROVE  Loops'
  BY <1>1 DEF Loops, LockInv, Typed, StartInsert, StartSearch, Goto, Label, arrays
<1>2. ASSUME NEW t \in Thread, StartFetch(t)
      PROVE  Loops'
  BY <1>2 DEF Loops, LockInv, Typed, StartFetch, Goto, Label, arrays, locals
<1>3. CASE Cancel \/ UNCHANGED vars
  BY <1>3 DEF Loops, Cancel, vars, arrays
<1> QED
  BY <1>1, <1>2, <1>3, StepKeepsLoops DEF Next

LEMMA SpecLoops == Spec => []Loops
BY InitLoops, SpecLockInv, NextKeepsLoops, PTL DEF Spec

LEMMA LoopsTyped == LockInv /\ Loops => TypeOK
<1> SUFFICES ASSUME LockInv, Loops PROVE TypeOK
  OBVIOUS
<1>1. Len(polys) \in Nat
  BY DEF LockInv, Lengths
<1>2. \A t \in Thread : at[t] \in 0 .. Len(polys) + 1 /\ Len(seen[t]) <= Len(polys)
  BY <1>1 DEF Loops
<1> QED
  BY <1>2 DEF LockInv, Typed, TypeOK

-----------------------------------------------------------------------------

(* Threads that wait only ever wait for threads of a higher rank.          *)
Rank(t) ==
  CASE pc[t] = "mutex" -> 1
    [] pc[t] = "inner" -> IF Writing(t) THEN 3 ELSE 2
    [] pc[t] = "flags" -> IF Writing(t) THEN 5 ELSE 4
    [] OTHER -> 6

LEMMA WaitsUpwards ==
  ASSUME LockInv, NEW t \in Thread, NEW u \in WaitsFor(t)
  PROVE  u \in Thread /\ Rank(t) < Rank(u)
<1>0. Rank(t) \in 1 .. 6 /\ Rank(u) \in 1 .. 6
  BY DEF Rank
<1>1. CASE pc[t] = "mutex"
  <2>1. u \in Thread /\ u = inserter
    BY <1>1 DEF WaitsFor, Waits
  <2>2. pc[u] # "mutex"
    BY <2>1 DEF LockInv, Held
  <2> QED
    BY <1>1, <2>1, <2>2 DEF Rank
<1>2. CASE pc[t] = "inner"
  <2>1. /\ u \in Thread
        /\ \/ u = inner.writer
           \/ Writing(t) /\ u \in inner.readers
           \/ ~Writing(t) /\ pc[u] = "inner" /\ Writing(u)
    BY <1>2 DEF WaitsFor, Waits, WaitingWriters
  <2>2. CASE u = inner.writer \/ u \in inner.readers
    <3>1. pc[u] \notin {"mutex", "inner"}
      BY <2>1, <2>2 DEF LockInv, Held
    <3> QED
      BY <1>2, <2>1, <3>1 DEF Rank
  <2>3. CASE ~Writing(t) /\ pc[u] = "inner" /\ Writing(u)
    BY <1>2, <2>1, <2>3 DEF Rank
  <2> QED
    BY <2>1, <2>2, <2>3
<1>3. CASE pc[t] = "flags"
  <2>1. /\ u \in Thread
        /\ \/ u = flags.writer
           \/ Writing(t) /\ u \in flags.readers
           \/ ~Writing(t) /\ pc[u] = "flags" /\ Writing(u)
    BY <1>3 DEF WaitsFor, Waits, WaitingWriters
  <2>2. CASE u = flags.writer \/ u \in flags.readers
    <3>1. pc[u] \in {"scan", "append", "flag", "drop_flags"}
      BY <2>1, <2>2 DEF LockInv, Held
    <3> QED
      BY <1>3, <2>1, <3>1 DEF Rank
  <2>3. CASE ~Writing(t) /\ pc[u] = "flags" /\ Writing(u)
    BY <1>3, <2>1, <2>3 DEF Rank
  <2> QED
    BY <2>1, <2>2, <2>3
<1> QED
  BY <1>1, <1>2, <1>3 DEF WaitsFor, Waits

LEMMA NoCircle == LockInv => NoCircularWait
<1> SUFFICES ASSUME LockInv, NEW S \in SUBSET Thread,
                    \A t \in S : WaitsFor(t) \cap S # {}
             PROVE  S = {}
  BY DEF NoCircularWait
<1>1. \A t \in S : \E u \in S : Rank(t) < Rank(u)
  BY WaitsUpwards
<1>2. \A t \in S : Rank(t) \in 1 .. 6
  BY DEF Rank
<1>3. \A t \in S : Rank(t) # 6
  BY <1>1, <1>2
<1>4. \A t \in S : Rank(t) # 5
  BY <1>1, <1>2, <1>3
<1>5. \A t \in S : Rank(t) # 4
  BY <1>1, <1>2, <1>3, <1>4
<1>6. \A t \in S : Rank(t) # 3
  BY <1>1, <1>2, <1>3, <1>4, <1>5
<1>7. \A t \in S : Rank(t) # 2
  BY <1>1, <1>2, <1>3, <1>4, <1>5, <1>6
<1> QED
  BY <1>1, <1>2, <1>3, <1>4, <1>5, <1>6, <1>7

LEMMA GuardsInSync == LockInv => InSync
<1> SUFFICES ASSUME LockInv, NEW t \in inner.readers \cap flags.readers
             PROVE  Len(polys) = Len(redundant)
  BY DEF InSync
<1>1. t \in Thread
  BY DEF LockInv, Typed, Lock
<1>2. inner.writer = Nobody
  BY DEF LockInv, Typed
<1>3. \A u \in Thread : pc[u] # "flag"
  BY <1>2, ThreadAssumption DEF LockInv, Typed, Held, Writing, ThreadAssumption
<1> QED
  BY <1>3 DEF LockInv, Lengths

-----------------------------------------------------------------------------

(* No active element among the first n divides m.                          *)
NoDivisor(m, n) == \A i \in 1 .. n : redundant[i] \/ ~Divides(polys[i], m)

(* The element just pushed is the last one.                                *)
IsNewest(m) == Len(polys) > 0 /\ polys[Len(polys)] = m

(* How far each operation has come: a search has passed no active divisor  *)
(* and an element is pushed only after one that found none, or cancelled;  *)
(* a snapshot holds the flags as they still are, and what is marked is     *)
(* covered by the newest element.                                          *)
Doing(t) ==
  /\ op[t] = "search" => arg[t] \in Leaders
  /\ Searching(t) /\ pc[t] = "scan" => NoDivisor(arg[t], at[t] - 1)
  /\ op[t] = "final" /\ pc[t] \in {"drop_flags", "drop_inner"} /\ answer[t] = 0
       => NoDivisor(arg[t], Len(redundant))
  /\ op[t] = "push" /\ pc[t] \in {"inner", "flags", "append", "flag"}
       => cancel \/ NoDivisor(arg[t], Len(redundant))
  /\ op[t] = "push" /\ pc[t] \in {"flag", "drop_flags", "drop_inner"} => IsNewest(arg[t])
  /\ op[t] \in {"snapshot", "clear"} => IsNewest(arg[t])
  /\ op[t] = "snapshot" /\ pc[t] = "scan"
       => \A i \in 1 .. at[t] - 1 : seen[t][i] = redundant[i]

Operations == DOMAIN answer = Thread /\ \A t \in Thread : Doing(t)

BasisInv == LockInv /\ Loops /\ Operations

LEMMA InitOperations == Init => Operations
BY DEF Init, Operations, Doing, Searching

(* What is not t's own stays as it is when t takes a step.                 *)
LEMMA OthersUntouched ==
  ASSUME BasisInv, NEW t \in Thread, Step(t), NEW u \in Thread, u # t
  PROVE  /\ pc'[u] = pc[u] /\ op'[u] = op[u] /\ arg'[u] = arg[u] /\ at'[u] = at[u]
         /\ seen'[u] = seen[u] /\ answer'[u] = answer[u] /\ cancel' = cancel
<1> USE DEF BasisInv, LockInv, Typed, Loops, Operations
<1>1. CASE AcquireInner(t) \/ AcquireFlags(t) \/ DropFlags(t)
  BY <1>1 DEF AcquireInner, AcquireFlags, DropFlags, Goto, locals
<1>2. CASE DropInner(t)
  <2>1. /\ answer' = [answer EXCEPT ![t] = Nothing] /\ UNCHANGED <<at, seen, cancel>>
        /\ \E x, y, z : /\ pc' = [pc EXCEPT ![t] = x] /\ op' = [op EXCEPT ![t] = y]
                        /\ arg' = [arg EXCEPT ![t] = z]
    BY <1>2 DEF DropInner, Continue, Return, Goto
  <2> QED
    BY <2>1
<1>3. CASE LockInsert(t) \/ FinalCancelled(t) \/ InsertCancelled(t)
  BY <1>3 DEF LockInsert, FinalCancelled, InsertCancelled, Continue, Return, Goto, locals
<1>4. CASE AppendPoly(t) \/ AppendFlag(t)
  BY <1>4 DEF AppendPoly, AppendFlag, Goto, locals
<1>5. CASE Search(t) \/ SearchEnd(t) \/ Snapshot(t) \/ SnapshotEnd(t)
  BY <1>5 DEF Search, SearchEnd, Snapshot, SnapshotEnd, Goto
<1>6. CASE Clear(t) \/ ClearEnd(t)
  BY <1>6 DEF Clear, ClearEnd, Goto, locals
<1> QED
  BY <1>1, <1>2, <1>3, <1>4, <1>5, <1>6 DEF Step

(* Only the holder of insert_mutex changes the arrays.                     *)
LEMMA OthersKeepArrays ==
  ASSUME BasisInv, NEW t \in Thread, Step(t),
         NEW u \in Thread, u # t,
         op[u] \in {"final", "push", "snapshot", "clear"} /\ pc[u] # "mutex"
  PROVE  UNCHANGED <<polys, redundant>>
<1>1. inserter = u
  BY DEF BasisInv, LockInv, Held
<1>2. ~(op[t] \in {"push", "clear"} /\ pc[t] # "mutex")
  BY <1>1 DEF BasisInv, LockInv, Held
<1>3. ~AppendPoly(t) /\ ~AppendFlag(t) /\ ~Clear(t)
  BY <1>2 DEF AppendPoly, AppendFlag, Clear, BasisInv, LockInv, Typed
<1> QED
  BY <1>3 DEF Step, AcquireInner, AcquireFlags, DropFlags, DropInner, LockInsert,
              FinalCancelled, InsertCancelled, Search, SearchEnd, Snapshot, SnapshotEnd,
              ClearEnd, arrays

(* The arrays only grow, and a flag only goes up.                          *)
LEMMA ArraysGrow ==
  ASSUME BasisInv, [Next]_vars
  PROVE  /\ Len(polys) <= Len(polys') /\ Len(redundant) <= Len(redundant')
         /\ \A i \in 1 .. Len(polys) : polys'[i] = polys[i]
         /\ \A i \in 1 .. Len(redundant) : redundant[i] => redundant'[i]
<1>0. polys \in Seq(Leaders) /\ redundant \in Seq(BOOLEAN)
  BY DEF BasisInv, LockInv, Lengths
<1>1. CASE UNCHANGED arrays
  BY <1>0, <1>1 DEF arrays
<1>2. ASSUME NEW t \in Thread, AppendPoly(t)
      PROVE  polys' = Append(polys, arg[t]) /\ redundant' = redundant /\ arg[t] \in Leaders
  BY <1>2 DEF AppendPoly, BasisInv, LockInv, Typed
<1>3. ASSUME NEW t \in Thread, AppendFlag(t)
      PROVE  polys' = polys /\ redundant' = Append(redundant, FALSE)
  BY <1>3 DEF AppendFlag
<1>4. ASSUME NEW t \in Thread, Clear(t)
      PROVE  /\ polys' = polys /\ Len(redundant') = Len(redundant)
             /\ \A i \in 1 .. Len(redundant) : redundant[i] => redundant'[i]
  <2> DEFINE v == redundant[at[t]] \/ Divides(arg[t], polys[at[t]])
  <2>1. v \in BOOLEAN
    OBVIOUS
  <2>2. redundant' = [redundant EXCEPT ![at[t]] = v] /\ polys' = polys
    BY <1>4 DEF Clear
  <2>3. redundant[at[t]] => v
    OBVIOUS
  <2> HIDE DEF v
  <2>4. Len(redundant') = Len(redundant)
    BY <1>0, <2>1, <2>2, SetFlag
  <2> QED
    BY <1>0, <2>2, <2>3, <2>4
<1> QED
  <2>1. ASSUME NEW t \in Thread, AppendPoly(t) \/ AppendFlag(t) \/ Clear(t)
        PROVE  /\ Len(polys) <= Len(polys') /\ Len(redundant) <= Len(redundant')
               /\ \A i \in 1 .. Len(polys) : polys'[i] = polys[i]
               /\ \A i \in 1 .. Len(redundant) : redundant[i] => redundant'[i]
    <3>1. CASE AppendPoly(t)
      <4>1. polys' = Append(polys, arg[t]) /\ redundant' = redundant /\ arg[t] \in Leaders
        BY <1>2, <3>1
      <4> QED
        BY ONLY <1>0, <4>1
    <3>2. CASE AppendFlag(t)
      <4>1. polys' = polys /\ redundant' = Append(redundant, FALSE)
        BY <1>3, <3>2
      <4> QED
        BY ONLY <1>0, <4>1
    <3>3. CASE Clear(t)
      <4>1. /\ polys' = polys /\ Len(redundant') = Len(redundant)
            /\ \A i \in 1 .. Len(redundant) : redundant[i] => redundant'[i]
        BY <1>4, <3>3
      <4> QED
        BY ONLY <1>0, <4>1
    <3> QED
      BY <2>1, <3>1, <3>2, <3>3
  <2>2. \/ UNCHANGED arrays
        \/ \E t \in Thread : AppendPoly(t) \/ AppendFlag(t) \/ Clear(t)
    BY DEF Next, vars, arrays, Cancel, StartInsert, StartSearch, StartFetch, Step,
           AcquireInner, AcquireFlags, DropFlags, DropInner, LockInsert, FinalCancelled,
           InsertCancelled, Search, SearchEnd, Snapshot, SnapshotEnd, ClearEnd
  <2> QED
    BY <1>1, <2>1, <2>2

(* What has no active divisor keeps having none among the same elements.   *)
LEMMA NoDivisorStays ==
  ASSUME BasisInv, [Next]_vars, NEW m, NEW n \in Nat, n <= Len(redundant), NoDivisor(m, n)
  PROVE  NoDivisor(m, n)'
<1>1. Len(redundant) <= Len(polys) /\ Len(redundant) \in Nat /\ Len(polys) \in Nat
  BY DEF BasisInv, LockInv, Lengths
<1>2. \A i \in 1 .. n : i \in 1 .. Len(polys) /\ i \in 1 .. Len(redundant)
  BY <1>1
<1>3. \A i \in 1 .. n : polys'[i] = polys[i] /\ (redundant[i] => redundant'[i])
  BY <1>2, ArraysGrow
<1> QED
  BY <1>3, Zenon DEF NoDivisor

(* Nobody writes while a thread holds a read guard of inner.               *)
LEMMA ReaderInSync ==
  ASSUME BasisInv, NEW t \in Thread, ~Writing(t),
         pc[t] \in {"flags", "scan", "drop_flags", "drop_inner"}
  PROVE  /\ Len(polys) = Len(redundant)
         /\ polys \in Seq(Leaders) /\ redundant \in Seq(BOOLEAN)
<1>1. t \in inner.readers
  BY DEF BasisInv, LockInv, Held
<1>2. inner.writer = Nobody
  BY <1>1 DEF BasisInv, LockInv, Typed
<1>3. \A u \in Thread : pc[u] # "flag"
  BY <1>2, ThreadAssumption
     DEF BasisInv, LockInv, Typed, Held, Writing, ThreadAssumption
<1> QED
  BY <1>3 DEF BasisInv, LockInv, Lengths

LEMMA OthersKeepDoing ==
  ASSUME BasisInv, NEW t \in Thread, Step(t), NEW u \in Thread, u # t
  PROVE  Doing(u)'
<1>1. /\ pc'[u] = pc[u] /\ op'[u] = op[u] /\ arg'[u] = arg[u] /\ at'[u] = at[u]
      /\ seen'[u] = seen[u] /\ answer'[u] = answer[u] /\ cancel' = cancel
  BY OthersUntouched
<1>2. Doing(u)
  BY DEF BasisInv, Operations
<1>3. op[u] \in {"final", "push", "snapshot", "clear"} /\ pc[u] # "mutex"
        => UNCHANGED <<polys, redundant>>
  BY OthersKeepArrays
<1>4. (op[u] = "search" => arg[u] \in Leaders)'
  BY <1>1, <1>2 DEF Doing
<1>5. (Searching(u) /\ pc[u] = "scan" => NoDivisor(arg[u], at[u] - 1))'
  <2>1. SUFFICES ASSUME Searching(u), pc[u] = "scan"
                 PROVE  NoDivisor(arg[u], at[u] - 1)'
    BY <1>1 DEF Searching
  <2>2. NoDivisor(arg[u], at[u] - 1)
    BY <1>2, <2>1 DEF Doing
  <2>3. at[u] - 1 \in Nat /\ at[u] - 1 <= Len(redundant)
    <3>1. ~Writing(u)
      BY <2>1 DEF Searching, Writing
    <3>2. Len(polys) = Len(redundant) /\ Len(redundant) \in Nat
      BY <2>1, <3>1, ReaderInSync
    <3> QED
      BY <2>1, <3>2 DEF BasisInv, Loops
  <2> DEFINE m == arg[u]
             n == at[u] - 1
  <2>4. NoDivisor(m, n) /\ n \in Nat /\ n <= Len(redundant)
    BY <2>2, <2>3
  <2>5. [Next]_vars
    BY DEF Next
  <2>6. \A i \in 1 .. n : redundant'[i] \/ ~Divides(polys'[i], m)
    <3> HIDE DEF m, n
    <3> QED
      BY <2>4, <2>5, NoDivisorStays DEF NoDivisor
  <2> QED
    BY <1>1, <2>6 DEF NoDivisor
<1>6. (op[u] = "final" /\ pc[u] \in {"drop_flags", "drop_inner"} /\ answer[u] = 0
         => NoDivisor(arg[u], Len(redundant)))'
  BY <1>1, <1>2, <1>3 DEF Doing, NoDivisor
<1>7. (op[u] = "push" /\ pc[u] \in {"inner", "flags", "append", "flag"}
         => cancel \/ NoDivisor(arg[u], Len(redundant)))'
  BY <1>1, <1>2, <1>3 DEF Doing, NoDivisor
<1>8. (op[u] = "push" /\ pc[u] \in {"flag", "drop_flags", "drop_inner"} => IsNewest(arg[u]))'
  BY <1>1, <1>2, <1>3 DEF Doing, IsNewest
<1>9. (op[u] \in {"snapshot", "clear"} => IsNewest(arg[u]))'
  <2>1. op[u] \in {"snapshot", "clear"} => pc[u] # "mutex"
    BY DEF BasisInv, LockInv, Typed
  <2> QED
    BY <1>1, <1>2, <1>3, <2>1 DEF Doing, IsNewest
<1>10. (op[u] = "snapshot" /\ pc[u] = "scan"
          => \A i \in 1 .. at[u] - 1 : seen[u][i] = redundant[i])'
  BY <1>1, <1>2, <1>3 DEF Doing
<1> QED
  BY <1>4, <1>5, <1>6, <1>7, <1>8, <1>9, <1>10 DEF Doing

LEMMA StepKeepsDoing ==
  ASSUME BasisInv, NEW t \in Thread, Step(t)
  PROVE  Doing(t)'
<1>0. Doing(t) /\ DOMAIN answer = Thread
  BY DEF BasisInv, Operations
<1>1. CASE AcquireInner(t) \/ AcquireFlags(t)
  <2>1. /\ UNCHANGED <<arrays, op, arg, seen, answer, cancel>>
        /\ at' = at \/ at' = [at EXCEPT ![t] = 1]
        /\ \/ pc[t] = "inner" /\ pc' = [pc EXCEPT ![t] = IF op[t] = "fetch" THEN "drop_inner"
                                                         ELSE "flags"]
           \/ pc[t] = "flags" /\ at' = [at EXCEPT ![t] = 1]
                /\ pc' = [pc EXCEPT ![t] = IF Writing(t) THEN "append" ELSE "scan"]
    BY <1>1 DEF AcquireInner, AcquireFlags, Waits, Goto, locals
  <2>2. pc'[t] = "scan" => at'[t] = 1
    BY <2>1 DEF BasisInv, LockInv, Typed, Loops
  <2>3. /\ pc'[t] \in {"drop_inner", "flags", "append", "scan"} /\ pc[t] \in {"inner", "flags"}
        /\ pc'[t] = "drop_inner" => op[t] = "fetch"
    BY <2>1 DEF BasisInv, LockInv, Typed
  <2> QED
    BY <1>0, <2>1, <2>2, <2>3 DEF Doing, Searching, NoDivisor, IsNewest, arrays
<1>2. CASE DropFlags(t)
  <2>1. /\ UNCHANGED <<arrays, op, arg, seen, answer, cancel>>
        /\ pc[t] = "drop_flags" /\ pc' = [pc EXCEPT ![t] = "drop_inner"]
    BY <1>2 DEF DropFlags, Goto
  <2>2. pc'[t] = "drop_inner"
    BY <2>1 DEF BasisInv, LockInv, Typed
  <2> QED
    BY <1>0, <2>1, <2>2 DEF Doing, Searching, NoDivisor, IsNewest, arrays
<1>3. CASE DropInner(t)
  <2>1. UNCHANGED <<arrays, cancel>> /\ pc[t] = "drop_inner"
    BY <1>3 DEF DropInner
  <2>2. \/ op'[t] = "fetch"
        \/ op'[t] = "final" /\ pc'[t] = "inner"
        \/ op[t] = "final" /\ answer[t] = 0 /\ op'[t] = "push" /\ pc'[t] = "inner"
             /\ arg'[t] = arg[t]
        \/ op[t] = "push" /\ op'[t] = "snapshot" /\ pc'[t] = "inner" /\ arg'[t] = arg[t]
        \/ op[t] = "snapshot" /\ op'[t] = "clear" /\ pc'[t] = "inner" /\ arg'[t] = arg[t]
    BY <1>3 DEF DropInner, Continue, Return, Goto, BasisInv, LockInv, Typed
  <2> QED
    BY <1>0, <2>1, <2>2 DEF Doing, Searching, NoDivisor, IsNewest, arrays
<1>4. CASE LockInsert(t) \/ FinalCancelled(t) \/ InsertCancelled(t)
  <2>1. UNCHANGED <<arrays, cancel>>
    BY <1>4 DEF LockInsert, FinalCancelled, InsertCancelled, locals
  <2>2. \/ op'[t] = "fetch"
        \/ op'[t] = "final" /\ pc'[t] = "inner"
        \/ op'[t] = "push" /\ pc'[t] = "inner" /\ cancel
    BY <1>4 DEF LockInsert, FinalCancelled, InsertCancelled, Continue, Return, Goto,
                locals, BasisInv, LockInv, Typed
  <2> QED
    BY <1>0, <2>1, <2>2 DEF Doing, Searching, NoDivisor, IsNewest, arrays
<1>5. CASE AppendPoly(t)
  <2>1. /\ polys' = Append(polys, arg[t]) /\ UNCHANGED <<redundant, op, locals>>
        /\ pc[t] = "append" /\ pc' = [pc EXCEPT ![t] = "flag"]
    BY <1>5 DEF AppendPoly, Goto
  <2>2. pc'[t] = "flag" /\ op[t] = "push" /\ arg[t] \in Leaders /\ polys \in Seq(Leaders)
    BY <2>1 DEF BasisInv, LockInv, Typed, Lengths
  <2>3. IsNewest(arg[t])'
    BY <2>1, <2>2 DEF IsNewest, locals
  <2>4. cancel \/ NoDivisor(arg[t], Len(redundant))
    BY <1>0, <2>1, <2>2 DEF Doing
  <2>5. Len(polys) = Len(redundant)
    <3>1. inner.writer = t
      BY <2>1, <2>2 DEF BasisInv, LockInv, Held, Writing
    <3>2. \A u \in Thread : pc[u] # "flag"
      BY <2>1, <3>1 DEF BasisInv, LockInv, Typed, Held, Writing
    <3> QED
      BY <3>2 DEF BasisInv, LockInv, Lengths
  <2>6. (cancel \/ NoDivisor(arg[t], Len(redundant)))'
    <3>1. \A i \in 1 .. Len(polys) : polys'[i] = polys[i]
      BY <2>1, <2>2
    <3> QED
      BY <2>1, <2>4, <2>5, <3>1 DEF NoDivisor, locals
  <2> QED
    BY <2>1, <2>2, <2>3, <2>6 DEF Doing, Searching, locals
<1>6. CASE AppendFlag(t)
  <2>1. /\ UNCHANGED <<polys, op, locals>>
        /\ pc[t] = "flag" /\ pc' = [pc EXCEPT ![t] = "drop_flags"]
    BY <1>6 DEF AppendFlag, Goto
  <2>2. pc'[t] = "drop_flags" /\ op[t] = "push"
    BY <2>1 DEF BasisInv, LockInv, Typed
  <2> QED
    BY <1>0, <2>1, <2>2 DEF Doing, Searching, IsNewest, locals
<1>7. CASE Search(t)
  <2>1. /\ pc[t] = "scan" /\ Searching(t) /\ at[t] <= Len(polys)
        /\ UNCHANGED <<arrays, op, arg, seen, cancel>>
    BY <1>7 DEF Search
  <2>2. CASE Hit(t)
    <3>1. answer'[t] = at[t] /\ pc'[t] = "drop_flags" /\ at' = at
      BY <1>0, <1>7, <2>2 DEF Search, Goto, BasisInv, LockInv, Typed
    <3>2. at[t] # 0
      BY <2>1 DEF BasisInv, Loops
    <3> QED
      BY <1>0, <2>1, <3>1, <3>2 DEF Doing, Searching, arrays
  <2>3. CASE ~Hit(t)
    <3>1. at'[t] = at[t] + 1 /\ pc' = pc /\ at[t] \in Nat
      BY <1>7, <2>3 DEF Search, BasisInv, Loops
    <3>2. NoDivisor(arg[t], at[t] - 1)
      BY <1>0, <2>1 DEF Doing
    <3>3. NoDivisor(arg[t], at[t])
      BY <2>3, <3>1, <3>2 DEF NoDivisor, Hit
    <3>4. NoDivisor(arg[t], at[t] - 1)'
      <4>1. at'[t] - 1 = at[t]
        BY <3>1
      <4>2. \A i \in 1 .. at'[t] - 1 : redundant[i] \/ ~Divides(polys[i], arg[t])
        BY <3>3, <4>1 DEF NoDivisor
      <4> QED
        BY <2>1, <4>2 DEF NoDivisor, arrays
    <3> QED
      BY <1>0, <2>1, <3>1, <3>4 DEF Doing, Searching, arrays
  <2> QED
    BY <2>2, <2>3
<1>8. CASE SearchEnd(t)
  <2>1. /\ pc[t] = "scan" /\ Searching(t) /\ at[t] > Len(polys)
        /\ UNCHANGED <<arrays, op, arg, at, seen, cancel>>
        /\ pc'[t] = "drop_flags"
    BY <1>8 DEF SearchEnd, Goto, BasisInv, LockInv, Typed
  <2>2. NoDivisor(arg[t], at[t] - 1)
    BY <1>0, <2>1 DEF Doing
  <2>3. Len(polys) = Len(redundant) /\ Len(polys) \in Nat
    BY <2>1, ReaderInSync DEF Searching, Writing
  <2>4. \A i \in 1 .. Len(redundant) : i \in 1 .. at[t] - 1
    BY <2>1, <2>3 DEF BasisInv, Loops
  <2>5. NoDivisor(arg[t], Len(redundant))
    BY <2>2, <2>4 DEF NoDivisor
  <2> QED
    BY <1>0, <2>1, <2>5 DEF Doing, Searching, NoDivisor, arrays
<1>9. CASE Snapshot(t)
  <2>1. /\ pc[t] = "scan" /\ op[t] = "snapshot" /\ at[t] <= Len(polys)
        /\ UNCHANGED <<arrays, pc, op, arg, answer, cancel>>
        /\ seen'[t] = Append(seen[t], redundant[at[t]]) /\ at'[t] = at[t] + 1
    BY <1>9 DEF Snapshot, BasisInv, Loops
  <2>2. /\ seen[t] \in Seq(BOOLEAN) /\ Len(seen[t]) = at[t] - 1 /\ at[t] \in Nat
        /\ \A i \in 1 .. at[t] - 1 : seen[t][i] = redundant[i]
    BY <1>0, <2>1 DEF BasisInv, Loops, Doing
  <2>3. \A i \in 1 .. at'[t] - 1 : seen'[t][i] = redundant[i]
    <3>1. ASSUME NEW i \in 1 .. at[t] - 1 PROVE seen'[t][i] = redundant[i]
      <4>1. i \in 1 .. Len(seen[t])
        BY <2>2
      <4> QED
        BY <2>1, <2>2, <4>1
    <3>2. seen'[t][at[t]] = redundant[at[t]]
      <4>1. at[t] = Len(seen[t]) + 1
        BY <2>2
      <4> QED
        BY <2>1, <2>2, <4>1
    <3>3. \A i \in 1 .. at'[t] - 1 : i \in 1 .. at[t] - 1 \/ i = at[t]
      BY <2>1, <2>2
    <3> QED
      BY <3>1, <3>2, <3>3
  <2> QED
    BY <1>0, <2>1, <2>3 DEF Doing, Searching, IsNewest, arrays
<1>10. CASE SnapshotEnd(t) \/ ClearEnd(t)
  <2>1. /\ UNCHANGED <<arrays, op, arg, cancel>>
        /\ op[t] \in {"snapshot", "clear"} /\ pc' = [pc EXCEPT ![t] = "drop_flags"]
    BY <1>10 DEF SnapshotEnd, ClearEnd, Goto, locals
  <2>2. pc'[t] = "drop_flags"
    BY <2>1 DEF BasisInv, LockInv, Typed
  <2> QED
    BY <1>0, <2>1, <2>2 DEF Doing, Searching, IsNewest, arrays
<1>11. CASE Clear(t)
  <2>1. op[t] = "clear" /\ UNCHANGED <<polys, op, arg>>
    BY <1>11 DEF Clear
  <2> QED
    BY <1>0, <2>1 DEF Doing, Searching, IsNewest
<1> QED
  BY <1>1, <1>2, <1>3, <1>4, <1>5, <1>6, <1>7, <1>8, <1>9, <1>10, <1>11 DEF Step

LEMMA NextKeepsOperations == BasisInv /\ [Next]_vars => Operations'
<1> SUFFICES ASSUME BasisInv, [Next]_vars PROVE Operations'
  OBVIOUS
<1> USE DEF BasisInv, Operations
<1>1. ASSUME NEW t \in Thread, Step(t) PROVE Operations'
  <2>1. \A u \in Thread : Doing(u)'
    BY <1>1, OthersKeepDoing, StepKeepsDoing
  <2>2. DOMAIN answer' = Thread
    <3>1. CASE DropInner(t)
      BY <3>1 DEF DropInner
    <3>2. CASE ~DropInner(t)
      BY <1>1, <3>2 DEF Step, AcquireInner, AcquireFlags, DropFlags, LockInsert, FinalCancelled,
                        InsertCancelled, AppendPoly, AppendFlag, Search, SearchEnd, Snapshot,
                        SnapshotEnd, Clear, ClearEnd, locals
    <3> QED
      BY <3>1, <3>2
  <2> QED
    BY <2>1, <2>2
<1>2. ASSUME NEW t \in Thread, NEW m \in Leaders, StartInsert(t, m) \/ StartSearch(t, m)
      PROVE  Operations'
  <2>1. /\ UNCHANGED <<arrays, at, seen, answer, cancel>>
        /\ arg' = [arg EXCEPT ![t] = m]
        /\ \E o \in {"final", "search"} : op' = [op EXCEPT ![t] = o]
        /\ \E x \in {"mutex", "inner"} : pc' = [pc EXCEPT ![t] = x]
    BY <1>2 DEF StartInsert, StartSearch, Goto
  <2>2. arg'[t] \in Leaders /\ op'[t] \in {"final", "search"} /\ pc'[t] \in {"mutex", "inner"}
    BY <2>1 DEF LockInv, Typed
  <2>3. \A u \in Thread \ {t} : pc'[u] = pc[u] /\ op'[u] = op[u] /\ arg'[u] = arg[u]
    BY <2>1 DEF LockInv, Typed
  <2>4. ASSUME NEW u \in Thread PROVE Doing(u)'
    <3>1. CASE u = t
      BY <2>1, <2>2, <3>1 DEF Doing, Searching, arrays
    <3>2. CASE u # t
      BY <2>1, <2>3, <3>2 DEF Doing, Searching, NoDivisor, IsNewest, arrays
    <3> QED
      BY <3>1, <3>2
  <2> QED
    BY <2>1, <2>4
<1>3. ASSUME NEW t \in Thread, StartFetch(t)
      PROVE  Operations'
  <2>1. /\ UNCHANGED <<arrays, locals>>
        /\ op' = [op EXCEPT ![t] = "fetch"] /\ pc' = [pc EXCEPT ![t] = "inner"]
    BY <1>3 DEF StartFetch, Goto
  <2>2. \A u \in Thread \ {t} : pc'[u] = pc[u] /\ op'[u] = op[u]
    BY <2>1 DEF LockInv, Typed
  <2>3. op'[t] = "fetch"
    BY <2>1 DEF LockInv, Typed
  <2>4. ASSUME NEW u \in Thread PROVE Doing(u)'
    <3>1. CASE u = t
      BY <2>3, <3>1 DEF Doing, Searching
    <3>2. CASE u # t
      BY <2>1, <2>2, <3>2 DEF Doing, Searching, NoDivisor, IsNewest, arrays, locals
    <3> QED
      BY <3>1, <3>2
  <2> QED
    BY <2>1, <2>4 DEF locals
<1>4. CASE Cancel \/ UNCHANGED vars
  <2>1. /\ UNCHANGED <<arrays, pc, op, arg, at, seen, answer>> /\ (cancel => cancel')
    BY <1>4 DEF Cancel, vars, arrays
  <2> QED
    BY <2>1 DEF Doing, Searching, NoDivisor, IsNewest, arrays
<1> QED
  BY <1>1, <1>2, <1>3, <1>4 DEF Next

LEMMA SpecBasisInv == Spec => []BasisInv
<1>1. Init => Operations
  BY InitOperations
<1>2. LockInv /\ Loops /\ Operations /\ [Next]_vars => Operations'
  BY NextKeepsOperations DEF BasisInv
<1>3. Spec => []Operations
  BY <1>1, <1>2, SpecLockInv, SpecLoops, PTL DEF Spec
<1> QED
  BY <1>3, SpecLockInv, SpecLoops, PTL DEF BasisInv

-----------------------------------------------------------------------------

(* What the abstract basis sees: the elements whose flag is there, and the *)
(* question of each thread.                                                *)
Elements == SubSeq(polys, 1, Len(redundant))

Asking(t) ==
  IF pc[t] \notin {"flags", "scan"} THEN Nothing
  ELSE IF Searching(t) THEN arg[t]
  ELSE IF op[t] = "snapshot" THEN AllFlags ELSE Nothing

Asked == [t \in Thread |-> Asking(t)]

LEMMA ElementFacts ==
  ASSUME BasisInv
  PROVE  /\ Elements \in Seq(Leaders) /\ Len(Elements) = Len(redundant)
         /\ DOMAIN Elements = 1 .. Len(redundant)
         /\ \A i \in 1 .. Len(redundant) : Elements[i] = polys[i]
         /\ Len(redundant) \in Nat /\ Len(polys) \in Nat /\ Len(redundant) <= Len(polys)
<1>1. /\ polys \in Seq(Leaders) /\ Len(redundant) \in Nat /\ Len(polys) \in Nat
      /\ Len(redundant) <= Len(polys)
  BY DEF BasisInv, LockInv, Lengths
<1>2. /\ Elements \in Seq(Leaders) /\ Len(Elements) = Len(redundant)
      /\ \A i \in 1 .. Len(redundant) : Elements[i] = polys[i]
  BY <1>1 DEF Elements
<1> QED
  BY <1>1, <1>2

(* The first active divisor is the one the loop stops at, and there is none*)
(* if it does not stop.                                                    *)
LEMMA FirstFound ==
  ASSUME BasisInv, NEW m, NEW i \in 1 .. Len(redundant),
         NoDivisor(m, i - 1), ~redundant[i], Divides(polys[i], m)
  PROVE  Atomic!FirstActive(m) = i
<1> DEFINE ds == {k \in DOMAIN Elements : ~redundant[k] /\ Divides(Elements[k], m)}
<1>1. \A k : k \in ds <=> k \in 1 .. Len(redundant) /\ ~redundant[k] /\ Divides(polys[k], m)
  BY ElementFacts
<1>2. Len(redundant) \in Nat
  BY ElementFacts
<1>3. i \in ds /\ \A k \in ds : i <= k
  <2>1. \A k \in 1 .. Len(redundant) : k \in 1 .. i - 1 \/ i <= k
    BY <1>2
  <2> QED
    BY <1>1, <2>1 DEF NoDivisor
<1>4. \A k \in ds : (\A l \in ds : k <= l) => k = i
  <2>1. \A k \in ds : k \in Nat
    BY <1>1, <1>2
  <2> QED
    BY <1>3, <2>1
<1>5. Atomic!FirstActive(m) = IF ds = {} THEN 0 ELSE CHOOSE k \in ds : \A l \in ds : k <= l
  BY DEF Atomic!FirstActive, Atomic!Divides, Divides, Atomic!Vars, Vars, Elements
<1> HIDE DEF ds
<1> QED
  BY <1>3, <1>4, <1>5

LEMMA FirstMissing ==
  ASSUME BasisInv, NEW m, NoDivisor(m, Len(redundant))
  PROVE  Atomic!FirstActive(m) = 0
<1> DEFINE ds == {k \in DOMAIN Elements : ~redundant[k] /\ Divides(Elements[k], m)}
<1>1. ds = {}
  BY ElementFacts DEF NoDivisor
<1>2. Atomic!FirstActive(m) = IF ds = {} THEN 0 ELSE CHOOSE k \in ds : \A l \in ds : k <= l
  BY DEF Atomic!FirstActive, Atomic!Divides, Divides, Atomic!Vars, Vars, Elements
<1> HIDE DEF ds
<1> QED
  BY <1>1, <1>2

(* A step of one thread changes only its own question.                     *)
LEMMA OneAsks ==
  ASSUME BasisInv, NEW t \in Thread, NEW q,
         \A u \in Thread \ {t} : pc'[u] = pc[u] /\ op'[u] = op[u] /\ arg'[u] = arg[u],
         Asking(t)' = q
  PROVE  Asked' = [Asked EXCEPT ![t] = q]
<1>1. \A u \in Thread \ {t} : Asking(u)' = Asking(u)
  BY DEF Asking, Searching
<1>2. Asked' = [u \in Thread |-> Asking(u)']
  BY DEF Asked
<1>3. [Asked EXCEPT ![t] = q] = [u \in Thread |-> IF u = t THEN q ELSE Asking(u)]
  BY DEF Asked
<1> HIDE DEF Asking
<1> QED
  BY <1>1, <1>2, <1>3

LEMMA StillAsks ==
  ASSUME BasisInv, NEW t \in Thread,
         \A u \in Thread \ {t} : pc'[u] = pc[u] /\ op'[u] = op[u] /\ arg'[u] = arg[u],
         Asking(t)' = Asking(t)
  PROVE  Asked' = Asked
<1>1. Asked' = [Asked EXCEPT ![t] = Asking(t)]
  BY OneAsks
<1>2. [Asked EXCEPT ![t] = Asked[t]] = Asked
  BY DEF Asked
<1>3. Asked[t] = Asking(t)
  BY DEF Asked
<1> QED
  BY <1>1, <1>2, <1>3

(* Without a new flag there is no new element.                             *)
LEMMA SameElements ==
  ASSUME BasisInv, UNCHANGED polys, Len(redundant') = Len(redundant)
  PROVE  Elements' = Elements
BY DEF Elements

-----------------------------------------------------------------------------

(* A question begins with the acquisition of inner, or nothing is seen.    *)
LEMMA AcquireImplements ==
  ASSUME BasisInv, NEW t \in Thread, AcquireInner(t)
  PROVE  \/ \E q \in Leaders \cup {AllFlags} : Atomic!Ask(t, q)
         \/ UNCHANGED <<Elements, redundant, Asked, answer, cancel>>
<1>1. /\ UNCHANGED <<polys, redundant, op, arg, answer, cancel>> /\ pc[t] = "inner"
      /\ pc' = [pc EXCEPT ![t] = IF op[t] = "fetch" THEN "drop_inner" ELSE "flags"]
  BY DEF AcquireInner, Waits, Goto, arrays, locals
<1>2. Elements' = Elements
  BY <1>1, SameElements
<1>3. pc'[t] = (IF op[t] = "fetch" THEN "drop_inner" ELSE "flags")
      /\ \A u \in Thread \ {t} : pc'[u] = pc[u] /\ op'[u] = op[u] /\ arg'[u] = arg[u]
  BY <1>1 DEF BasisInv, LockInv, Typed
<1>4. Asked[t] = Nothing /\ Asking(t) = Nothing
  BY <1>1 DEF Asked, Asking
<1>5. CASE Searching(t) \/ op[t] = "snapshot"
  <2> DEFINE q == IF Searching(t) THEN arg[t] ELSE AllFlags
  <2>1. Asking(t)' = q /\ op[t] # "fetch"
    BY <1>1, <1>3, <1>5 DEF Asking, Searching
  <2>2. q \in Leaders \cup {AllFlags}
    BY DEF BasisInv, LockInv, Typed, Operations, Doing, Searching
  <2> HIDE DEF q
  <2>3. Asked' = [Asked EXCEPT ![t] = q]
    BY <1>3, <2>1, OneAsks
  <2>4. /\ Asked[t] = Nothing /\ Asked' = [Asked EXCEPT ![t] = q]
        /\ UNCHANGED <<Elements, redundant, answer, cancel>>
    BY <1>1, <1>2, <1>4, <2>3
  <2> QED
    BY <2>2, <2>4 DEF Atomic!Ask, Elements, Asked, Asking
<1>6. CASE ~(Searching(t) \/ op[t] = "snapshot")
  <2>1. Asking(t)' = Nothing
    BY <1>1, <1>6 DEF Asking, Searching
  <2>2. Asked' = Asked
    BY <1>3, <1>4, <2>1, StillAsks
  <2> QED
    BY <1>1, <1>2, <2>2
<1> QED
  BY <1>5, <1>6

(* The answer is given at the last load of a search or of a snapshot.      *)
LEMMA ReplyImplements ==
  ASSUME BasisInv, NEW t \in Thread, Step(t),
         UNCHANGED <<arrays, op, arg, cancel>>,
         pc[t] = "scan", Asking(t) # Nothing, pc' = [pc EXCEPT ![t] = "drop_flags"],
         answer' = [answer EXCEPT ![t] = IF Asking(t) = AllFlags THEN redundant
                                         ELSE Atomic!FirstActive(Asking(t))]
  PROVE  Atomic!Reply(t)
<1>1. Asked[t] = Asking(t)
  BY DEF Asked
<1>2. pc'[t] = "drop_flags" /\ \A u \in Thread \ {t} : pc'[u] = pc[u]
  BY DEF BasisInv, LockInv, Typed
<1>3. Asking(t)' = Nothing
  BY <1>2 DEF Asking
<1>4. Asked' = [Asked EXCEPT ![t] = Nothing]
  BY <1>2, <1>3, OneAsks
<1>5. Elements' = Elements
  BY SameElements DEF arrays
<1>6. /\ Asked[t] # Nothing
      /\ answer' = [answer EXCEPT ![t] = IF Asked[t] = AllFlags THEN redundant
                                         ELSE Atomic!FirstActive(Asked[t])]
      /\ Asked' = [Asked EXCEPT ![t] = Nothing]
      /\ UNCHANGED <<Elements, redundant, cancel>>
  BY <1>1, <1>4, <1>5 DEF arrays
<1> QED
  BY <1>6 DEF Atomic!Reply, Atomic!FirstActive, Elements, Asked, Asking

LEMMA SearchImplements ==
  ASSUME BasisInv, NEW t \in Thread, Search(t) \/ SearchEnd(t)
  PROVE  Atomic!Reply(t) \/ UNCHANGED <<Elements, redundant, Asked, answer, cancel>>
<1>1. /\ pc[t] = "scan" /\ Searching(t) /\ UNCHANGED <<arrays, op, arg, cancel>>
  BY DEF Search, SearchEnd
<1>2. Asking(t) = arg[t] /\ arg[t] \in Leaders
  BY <1>1 DEF Asking, Searching, BasisInv, LockInv, Typed, Operations, Doing
<1>3. Asking(t) # Nothing /\ Asking(t) # AllFlags
  BY <1>2, ThreadAssumption DEF ThreadAssumption
<1>4. NoDivisor(arg[t], at[t] - 1)
  BY <1>1 DEF BasisInv, Operations, Doing
<1>5. Len(polys) = Len(redundant) /\ Len(polys) \in Nat /\ at[t] \in Nat /\ at[t] >= 1
      /\ at[t] <= Len(polys) + 1
  BY <1>1, ReaderInSync DEF Searching, Writing, BasisInv, Loops
<1>6. Step(t)
  BY DEF Step
<1>7. CASE Search(t) /\ Hit(t)
  <2>1. /\ at[t] <= Len(polys) /\ answer' = [answer EXCEPT ![t] = at[t]]
        /\ pc' = [pc EXCEPT ![t] = "drop_flags"]
    BY <1>7 DEF Search, Goto
  <2>2. Atomic!FirstActive(arg[t]) = at[t]
    BY <1>4, <1>5, <1>7, <2>1, FirstFound DEF Hit
  <2> QED
    BY <1>1, <1>2, <1>3, <1>6, <2>1, <2>2, ReplyImplements
<1>8. CASE Search(t) /\ ~Hit(t)
  <2>1. UNCHANGED <<arrays, pc, op, arg, answer, cancel>>
    BY <1>8 DEF Search
  <2> QED
    BY <2>1 DEF Elements, Asked, Asking, Searching, arrays
<1>9. CASE SearchEnd(t)
  <2>1. /\ at[t] > Len(polys) /\ answer' = [answer EXCEPT ![t] = 0]
        /\ pc' = [pc EXCEPT ![t] = "drop_flags"]
    BY <1>9 DEF SearchEnd, Goto
  <2>2. NoDivisor(arg[t], Len(redundant))
    <3>1. at[t] - 1 = Len(redundant)
      BY <1>5, <2>1
    <3> QED
      BY <1>4, <3>1
  <2>3. Atomic!FirstActive(arg[t]) = 0
    BY <2>2, FirstMissing
  <2> QED
    BY <1>1, <1>2, <1>3, <1>6, <2>1, <2>3, ReplyImplements
<1> QED
  BY <1>7, <1>8, <1>9

LEMMA SnapshotImplements ==
  ASSUME BasisInv, NEW t \in Thread, Snapshot(t) \/ SnapshotEnd(t)
  PROVE  Atomic!Reply(t) \/ UNCHANGED <<Elements, redundant, Asked, answer, cancel>>
<1>1. CASE Snapshot(t)
  BY <1>1 DEF Snapshot, Elements, Asked, Asking, Searching, arrays
<1>2. CASE SnapshotEnd(t)
  <2>1. /\ pc[t] = "scan" /\ op[t] = "snapshot" /\ UNCHANGED <<arrays, op, arg, cancel>>
        /\ at[t] > Len(polys) /\ answer' = [answer EXCEPT ![t] = seen[t]]
        /\ pc' = [pc EXCEPT ![t] = "drop_flags"]
    BY <1>2 DEF SnapshotEnd, Goto
  <2>2. Asking(t) = AllFlags
    BY <2>1 DEF Asking, Searching
  <2>3. Len(polys) = Len(redundant) /\ redundant \in Seq(BOOLEAN)
    BY <2>1, ReaderInSync DEF Writing
  <2>4. /\ seen[t] \in Seq(BOOLEAN) /\ Len(seen[t]) = at[t] - 1 /\ at[t] \in Nat
        /\ at[t] <= Len(polys) + 1 /\ \A i \in 1 .. at[t] - 1 : seen[t][i] = redundant[i]
    BY <2>1 DEF BasisInv, Loops, Operations, Doing
  <2>5. Len(seen[t]) = Len(redundant)
    BY <2>1, <2>3, <2>4
  <2>6. seen[t] = redundant
    <3> DEFINE s == seen[t]
    <3>1. s \in Seq(BOOLEAN) /\ Len(s) = Len(redundant)
          /\ \A i \in 1 .. Len(s) : s[i] = redundant[i]
      BY <2>4, <2>5
    <3> HIDE DEF s
    <3>2. s = redundant
      BY <2>3, <3>1, SeqEqual
    <3> QED
      BY <3>2 DEF s
  <2>7. Asking(t) # Nothing /\ Step(t)
    BY <1>2, <2>2, ThreadAssumption DEF ThreadAssumption, Step
  <2> QED
    BY <2>1, <2>2, <2>6, <2>7, ReplyImplements
<1> QED
  BY <1>1, <1>2

(* The element is in the basis when its flag is.                           *)
LEMMA PushImplements ==
  ASSUME BasisInv, NEW t \in Thread, AppendFlag(t)
  PROVE  \E h \in Leaders : Atomic!Push(h)
<1>1. /\ pc[t] = "flag" /\ redundant' = Append(redundant, FALSE)
      /\ pc' = [pc EXCEPT ![t] = "drop_flags"] /\ UNCHANGED <<polys, op, arg, answer, cancel>>
  BY DEF AppendFlag, Goto, locals
<1>2. op[t] = "push" /\ arg[t] \in Leaders /\ Len(polys) = Len(redundant) + 1
  BY <1>1 DEF BasisInv, LockInv, Typed, Lengths
<1>3. (cancel \/ NoDivisor(arg[t], Len(redundant))) /\ IsNewest(arg[t])
  BY <1>1, <1>2 DEF BasisInv, Operations, Doing
<1>4. cancel \/ Atomic!FirstActive(arg[t]) = 0
  BY <1>3, FirstMissing
<1>5. Elements' = Append(Elements, arg[t])
  <2>1. polys \in Seq(Leaders) /\ redundant \in Seq(BOOLEAN)
    BY DEF BasisInv, LockInv, Lengths
  <2>2. Len(redundant') = Len(redundant) + 1 /\ Len(redundant) \in Nat
    BY <1>1, <2>1
  <2>3. polys[Len(redundant) + 1] = arg[t]
    BY <1>2, <1>3 DEF IsNewest
  <2> DEFINE n == Len(redundant)
  <2>4. SubSeq(polys, 1, n + 1) = Append(SubSeq(polys, 1, n), polys[n + 1])
    <3>1. n \in Nat /\ n + 1 = Len(polys)
      BY <1>2, <2>2
    <3> HIDE DEF n
    <3>2. SubSeq(polys, 1, n) \in Seq(Leaders) /\ Len(SubSeq(polys, 1, n)) = n
          /\ \A i \in 1 .. n : SubSeq(polys, 1, n)[i] = polys[i]
      BY <2>1, <3>1
    <3>3. SubSeq(polys, 1, n + 1) \in Seq(Leaders) /\ Len(SubSeq(polys, 1, n + 1)) = n + 1
          /\ \A i \in 1 .. n + 1 : SubSeq(polys, 1, n + 1)[i] = polys[i]
      BY <2>1, <3>1
    <3>4. polys[n + 1] \in Leaders
      BY <2>1, <3>1
    <3> DEFINE a == SubSeq(polys, 1, n)
               b == SubSeq(polys, 1, n + 1)
               c == Append(a, polys[n + 1])
    <3>5. /\ a \in Seq(Leaders) /\ Len(a) = n /\ b \in Seq(Leaders) /\ Len(b) = n + 1
          /\ \A i \in 1 .. n : a[i] = polys[i]
          /\ \A i \in 1 .. n + 1 : b[i] = polys[i]
      BY <3>2, <3>3
    <3>6. b = c
      <4> HIDE DEF a, b
      <4>1. c \in Seq(Leaders) /\ Len(c) = n + 1 /\ c[n + 1] = polys[n + 1]
            /\ \A i \in 1 .. n : c[i] = a[i]
        BY <3>1, <3>4, <3>5
      <4>2. \A i \in 1 .. n + 1 : c[i] = b[i]
        <5>1. \A i \in 1 .. n + 1 : i \in 1 .. n \/ i = n + 1
          BY <3>1
        <5> QED
          BY <3>5, <4>1, <5>1
      <4> HIDE DEF c
      <4> QED
        BY <3>5, <4>1, <4>2, SeqEqual
    <3> QED
      BY <3>6
  <2> QED
    BY <1>1, <2>2, <2>3, <2>4 DEF Elements
<1>6. Asked' = Asked
  <2>1. pc'[t] = "drop_flags" /\ \A u \in Thread \ {t} : pc'[u] = pc[u]
    BY <1>1 DEF BasisInv, LockInv, Typed
  <2>2. Asking(t)' = Asking(t)
    BY <1>1, <2>1 DEF Asking
  <2> QED
    BY <1>1, <2>1, <2>2, StillAsks
<1>7. /\ cancel \/ Atomic!FirstActive(arg[t]) = 0
      /\ Elements' = Append(Elements, arg[t]) /\ redundant' = Append(redundant, FALSE)
      /\ UNCHANGED <<Asked, answer, cancel>>
  BY <1>1, <1>4, <1>5, <1>6
<1> QED
  BY <1>2, <1>7 DEF Atomic!Push, Atomic!FirstActive, Elements, Asked, Asking

(* A store of a flag marks an older element the newest one covers.         *)
LEMMA ClearImplements ==
  ASSUME BasisInv, NEW t \in Thread, Clear(t)
  PROVE  \/ \E i \in DOMAIN Elements : Atomic!Mark(i)
         \/ UNCHANGED <<Elements, redundant, Asked, answer, cancel>>
<1> DEFINE i == at[t]
           v == redundant[i] \/ Divides(arg[t], polys[i])
<1>1. /\ pc[t] = "scan" /\ op[t] = "clear" /\ i < Len(polys)
      /\ redundant' = [redundant EXCEPT ![i] = v]
      /\ UNCHANGED <<polys, pc, op, arg, answer, cancel>>
  BY DEF Clear
<1>2. Len(polys) = Len(redundant) /\ redundant \in Seq(BOOLEAN)
  BY <1>1, ReaderInSync DEF Writing
<1>3. i \in 1 .. Len(redundant) /\ Len(redundant) \in Nat
  BY <1>1, <1>2 DEF BasisInv, Loops
<1>4. Len(polys) > 0 /\ polys[Len(polys)] = arg[t]
  BY <1>1 DEF BasisInv, Operations, Doing, IsNewest
<1>5. Asked' = Asked
  BY <1>1 DEF Asked, Asking, Searching
<1>6. Len(redundant') = Len(redundant)
  BY <1>1, <1>2, SetFlag
<1>7. Elements' = Elements
  BY <1>1, <1>6, SameElements
<1>8. CASE Divides(arg[t], polys[i])
  <2>1. redundant' = [redundant EXCEPT ![i] = TRUE]
    BY <1>1, <1>8
  <2>2. /\ i \in DOMAIN Elements /\ Len(polys) \in DOMAIN Elements
        /\ Elements[i] = polys[i] /\ Elements[Len(polys)] = arg[t]
    BY <1>2, <1>3, <1>4, ElementFacts
  <2>3. \E k \in DOMAIN Elements : i < k /\ Divides(Elements[k], Elements[i])
    BY <1>1, <1>8, <2>2
  <2> HIDE DEF i, v
  <2>4. i \in DOMAIN Elements /\ Atomic!Mark(i)
    BY <1>1, <1>5, <1>7, <2>1, <2>2, <2>3
       DEF Atomic!Mark, Atomic!Divides, Divides, Atomic!Vars, Vars, Elements, Asked, Asking
  <2> QED
    BY <2>4
<1>9. CASE ~Divides(arg[t], polys[i])
  <2>1. v = redundant[i]
    BY <1>2, <1>3, <1>9
  <2>2. redundant' = redundant
    BY <1>1, <1>2, <2>1
  <2> QED
    BY <1>1, <1>5, <1>7, <2>2
<1> QED
  BY <1>8, <1>9

(* Everything else is not seen, but for the end of an operation, when its  *)
(* answer is forgotten.                                                    *)
LEMMA RestImplements ==
  ASSUME BasisInv, NEW t \in Thread,
         \/ AcquireFlags(t) \/ DropFlags(t) \/ DropInner(t) \/ LockInsert(t)
         \/ FinalCancelled(t) \/ InsertCancelled(t) \/ AppendPoly(t) \/ ClearEnd(t)
  PROVE  Atomic!Forget(t) \/ UNCHANGED <<Elements, redundant, Asked, answer, cancel>>
<1>1. Step(t)
  BY DEF Step
<1>2. \A u \in Thread \ {t} : pc'[u] = pc[u] /\ op'[u] = op[u] /\ arg'[u] = arg[u]
  BY <1>1, OthersUntouched
<1>3. UNCHANGED <<redundant, cancel>>
  BY DEF AcquireFlags, DropFlags, DropInner, LockInsert, FinalCancelled, InsertCancelled,
         AppendPoly, ClearEnd, arrays, locals
<1>4. Elements' = Elements
  <2>1. CASE AppendPoly(t)
    <3>1. polys' = Append(polys, arg[t]) /\ arg[t] \in Leaders /\ polys \in Seq(Leaders)
          /\ Len(redundant) \in Nat /\ Len(redundant) <= Len(polys)
      BY <2>1, ElementFacts DEF AppendPoly, BasisInv, LockInv, Typed, Lengths
    <3>2. \A i \in 1 .. Len(redundant) : polys'[i] = polys[i]
      BY <3>1
    <3> DEFINE a == SubSeq(polys, 1, Len(redundant))
               b == SubSeq(polys', 1, Len(redundant))
    <3>3. /\ a \in Seq(Leaders) /\ Len(a) = Len(redundant)
          /\ \A i \in 1 .. Len(redundant) : a[i] = polys[i]
      BY <3>1
    <3>4. /\ b \in Seq(Leaders) /\ Len(b) = Len(redundant)
          /\ \A i \in 1 .. Len(redundant) : b[i] = polys'[i]
      <4>1. polys' \in Seq(Leaders) /\ Len(redundant) <= Len(polys')
        BY <3>1
      <4> QED
        BY <3>1, <4>1
    <3>5. b = a
      <4> HIDE DEF a, b
      <4> QED
        BY <3>2, <3>3, <3>4, SeqEqual
    <3> QED
      BY <1>3, <3>5 DEF Elements
  <2>2. CASE ~AppendPoly(t)
    <3>1. UNCHANGED polys
      BY <2>2 DEF AcquireFlags, DropFlags, DropInner, LockInsert, FinalCancelled,
                  InsertCancelled, ClearEnd, arrays
    <3> QED
      BY <1>3, <3>1, SameElements
  <2> QED
    BY <2>1, <2>2
<1>5. Asking(t)' = Asking(t)
  <2>1. CASE AcquireFlags(t)
    <3>1. pc[t] = "flags" /\ UNCHANGED <<op, arg>>
          /\ pc' = [pc EXCEPT ![t] = IF Writing(t) THEN "append" ELSE "scan"]
      BY <2>1 DEF AcquireFlags, Waits, Goto
    <3>2. pc'[t] = IF Writing(t) THEN "append" ELSE "scan"
      BY <3>1 DEF BasisInv, LockInv, Typed
    <3> QED
      BY <3>1, <3>2 DEF Asking, Writing, Searching
  <2>2. CASE ClearEnd(t)
    <3>1. op[t] = "clear" /\ pc' = [pc EXCEPT ![t] = "drop_flags"]
      BY <2>2 DEF ClearEnd, Goto
    <3>2. pc'[t] = "drop_flags"
      BY <3>1 DEF BasisInv, LockInv, Typed
    <3> QED
      BY <3>1, <3>2 DEF Asking, Searching
  <2>3. CASE ~AcquireFlags(t) /\ ~ClearEnd(t)
    <3>1. /\ pc[t] \in {"drop_flags", "drop_inner", "mutex", "inner", "append"}
          /\ \E x \in {"drop_inner", "inner", "idle", "flag"} : pc' = [pc EXCEPT ![t] = x]
      BY <2>3 DEF DropFlags, DropInner, LockInsert, FinalCancelled, InsertCancelled,
                  AppendPoly, Continue, Return, Goto, Waits
    <3>2. pc'[t] \notin {"flags", "scan"}
      BY <3>1 DEF BasisInv, LockInv, Typed
    <3> QED
      BY <3>1, <3>2 DEF Asking
  <2> QED
    BY <2>1, <2>2, <2>3
<1>6. Asked' = Asked
  BY <1>2, <1>5, StillAsks
<1>7. CASE DropInner(t)
  <2>1. answer' = [answer EXCEPT ![t] = Nothing]
    BY <1>7 DEF DropInner
  <2> QED
    BY <1>3, <1>4, <1>6, <2>1 DEF Atomic!Forget, Elements, Asked, Asking
<1>8. CASE ~DropInner(t)
  <2>1. answer' = answer
    BY <1>8 DEF AcquireFlags, DropFlags, LockInsert, FinalCancelled, InsertCancelled,
                AppendPoly, ClearEnd, locals
  <2> QED
    BY <1>3, <1>4, <1>6, <2>1
<1> QED
  BY <1>7, <1>8

LEMMA StepImplements ==
  BasisInv /\ [Next]_vars => [Atomic!Next]_<<Elements, redundant, Asked, answer, cancel>>
<1> SUFFICES ASSUME BasisInv, [Next]_vars
             PROVE  Atomic!Next \/ UNCHANGED <<Elements, redundant, Asked, answer, cancel>>
  OBVIOUS
<1>1. ASSUME NEW t \in Thread, NEW m,
             StartInsert(t, m) \/ StartSearch(t, m) \/ StartFetch(t)
      PROVE  UNCHANGED <<Elements, redundant, Asked, answer, cancel>>
  <2>1. /\ UNCHANGED <<polys, redundant, answer, cancel>> /\ pc[t] = "idle"
        /\ \E x \in {"mutex", "inner"} : pc' = [pc EXCEPT ![t] = x]
        /\ \E o \in Op : op' = [op EXCEPT ![t] = o]
        /\ arg' = arg \/ arg' = [arg EXCEPT ![t] = m]
    BY <1>1 DEF StartInsert, StartSearch, StartFetch, Goto, Op, arrays, locals
  <2>2. /\ pc'[t] \in {"mutex", "inner"}
        /\ \A u \in Thread \ {t} : pc'[u] = pc[u] /\ op'[u] = op[u] /\ arg'[u] = arg[u]
    BY <2>1 DEF BasisInv, LockInv, Typed
  <2>3. Asking(t)' = Asking(t)
    BY <2>1, <2>2 DEF Asking
  <2> QED
    BY <2>1, <2>2, <2>3, StillAsks, SameElements
<1>2. CASE Cancel
  <2>1. cancel' = TRUE /\ UNCHANGED <<polys, redundant, pc, op, arg, answer>>
    BY <1>2 DEF Cancel, arrays
  <2> QED
    BY <2>1 DEF Atomic!Next, Atomic!Cancel, Elements, Asked, Asking, Searching
<1>3. CASE UNCHANGED vars
  BY <1>3 DEF vars, Elements, Asked, Asking, Searching
<1>4. ASSUME NEW t \in Thread, Step(t)
      PROVE  Atomic!Next \/ UNCHANGED <<Elements, redundant, Asked, answer, cancel>>
  <2>1. CASE AcquireInner(t)
    BY <2>1, AcquireImplements DEF Atomic!Next
  <2>2. CASE Search(t) \/ SearchEnd(t)
    BY <2>2, SearchImplements DEF Atomic!Next
  <2>3. CASE Snapshot(t) \/ SnapshotEnd(t)
    BY <2>3, SnapshotImplements DEF Atomic!Next
  <2>4. CASE AppendFlag(t)
    BY <2>4, PushImplements DEF Atomic!Next
  <2>5. CASE Clear(t)
    BY <2>5, ClearImplements DEF Atomic!Next, Elements
  <2>6. CASE \/ AcquireFlags(t) \/ DropFlags(t) \/ DropInner(t) \/ LockInsert(t)
             \/ FinalCancelled(t) \/ InsertCancelled(t) \/ AppendPoly(t) \/ ClearEnd(t)
    BY <2>6, RestImplements DEF Atomic!Next
  <2> QED
    BY <1>4, <2>1, <2>2, <2>3, <2>4, <2>5, <2>6 DEF Step
<1> QED
  BY <1>1, <1>2, <1>3, <1>4 DEF Next

LEMMA InitImplements == Init => Atomic!Init
<1> SUFFICES ASSUME Init PROVE Atomic!Init
  OBVIOUS
<1>1. Elements = << >> /\ redundant = << >> /\ cancel = FALSE
  BY DEF Init, Elements
<1>2. Asked = [t \in Thread |-> Nothing] /\ answer = [t \in Thread |-> Nothing]
  BY DEF Init, Asked, Asking
<1> QED
  BY <1>1, <1>2 DEF Atomic!Init, Elements, Asked, Asking

-----------------------------------------------------------------------------

(* The locks are well typed, never written and read at once, and every     *)
(* loop of a search, a snapshot or a marking stays within the basis.       *)
THEOREM LocksTyped == Spec => []TypeOK
BY SpecLockInv, SpecLoops, LoopsTyped, PTL

(* No circle of threads ever waits for one another: the order insert_mutex,*)
(* inner, redundant is kept by every operation, and nobody takes a second  *)
(* guard of a lock it holds (computation.rs:107-122).                      *)
THEOREM LocksNeverCircular == Spec => []NoCircularWait
BY SpecLockInv, NoCircle, PTL

(* Whoever holds a guard of both locks sees arrays of the same length      *)
(* (computation.rs:38-42).                                                 *)
THEOREM ArraysInSync == Spec => []InSync
BY SpecLockInv, GuardsInSync, PTL

(* The push, the marks, the searches and the snapshots of the driver, each *)
(* a loop under two locks that others run between, happen at one moment    *)
(* each: no search that ran while flags went up or elements came in gives  *)
(* an answer that was never true (computation.rs:38-122).                  *)
THEOREM BasisIsAtomic == Spec => ImplementsAtomic
<1>1. BasisInv /\ [Next]_vars
        => [Atomic!Next]_<<SubSeq(polys, 1, Len(redundant)), redundant,
                           [t \in Thread |->
                              IF pc[t] \notin {"flags", "scan"} THEN Nothing
                              ELSE IF Searching(t) THEN arg[t]
                              ELSE IF op[t] = "snapshot" THEN AllFlags ELSE Nothing],
                           answer, cancel>>
  BY StepImplements DEF Elements, Asked, Asking
<1> QED
  BY <1>1, InitImplements, SpecBasisInv, PTL DEF Spec, ImplementsAtomic, Atomic!Spec
=============================================================================

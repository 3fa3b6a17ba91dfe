---------------------------- MODULE AtomicBasis ----------------------------
(***************************************************************************)
(* What SharedSBasis offers the parallel driver (src/src/computation.rs):  *)
(* a growing sequence of elements with redundancy flags, on which a push,  *)
(* a mark, a divisor search and a snapshot of the flags each happen at one *)
(* moment.  No locks, no loops: the steps that ParallelBba takes.          *)
(***************************************************************************)
EXTENDS Monomials, Sequences

CONSTANTS Thread, Leaders, Nothing, AllFlags

VARIABLES
  polys,       \* the leading monomials of the elements
  redundant,   \* their flags
  asked,       \* what each thread wants to know: a divisor of a monomial,
               \* AllFlags, or Nothing
  answer,      \* the answer each thread has got, until it is done with it
  cancel       \* the cancel flag

Init ==
  /\ polys = << >> /\ redundant = << >>
  /\ asked = [t \in Thread |-> Nothing]
  /\ answer = [t \in Thread |-> Nothing]
  /\ cancel = FALSE

(* The first active divisor of m, 0 if there is none.                      *)
FirstActive(m) ==
  LET ds == {i \in DOMAIN polys : ~redundant[i] /\ Divides(polys[i], m)}
  IN  IF ds = {} THEN 0 ELSE CHOOSE i \in ds : \A k \in ds : i <= k

(* The insertion reduces its element once more before it is pushed: no     *)
(* active element divides what enters, unless the run was cancelled.       *)
Push(h) ==
  /\ cancel \/ FirstActive(h) = 0
  /\ polys' = Append(polys, h)
  /\ redundant' = Append(redundant, FALSE)
  /\ UNCHANGED <<asked, answer, cancel>>

(* Only an element that a younger one covers is ever marked.               *)
Mark(i) ==
  /\ \E k \in DOMAIN polys : i < k /\ Divides(polys[k], polys[i])
  /\ redundant' = [redundant EXCEPT ![i] = TRUE]
  /\ UNCHANGED <<polys, asked, answer, cancel>>

Ask(t, q) ==
  /\ asked[t] = Nothing
  /\ asked' = [asked EXCEPT ![t] = q]
  /\ UNCHANGED <<polys, redundant, answer, cancel>>

Reply(t) ==
  /\ asked[t] # Nothing
  /\ answer' = [answer EXCEPT ![t] = IF asked[t] = AllFlags THEN redundant
                                     ELSE FirstActive(asked[t])]
  /\ asked' = [asked EXCEPT ![t] = Nothing]
  /\ UNCHANGED <<polys, redundant, cancel>>

Forget(t) ==
  /\ answer' = [answer EXCEPT ![t] = Nothing]
  /\ UNCHANGED <<polys, redundant, asked, cancel>>

Cancel ==
  /\ cancel' = TRUE
  /\ UNCHANGED <<polys, redundant, asked, answer>>

Next ==
  \/ Cancel
  \/ \E h \in Leaders : Push(h)
  \/ \E i \in DOMAIN polys : Mark(i)
  \/ \E t \in Thread :
       (\E q \in Leaders \cup {AllFlags} : Ask(t, q)) \/ Reply(t) \/ Forget(t)

Spec == Init /\ [][Next]_<<polys, redundant, asked, answer, cancel>>
=============================================================================

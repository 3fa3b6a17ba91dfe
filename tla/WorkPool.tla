------------------------------ MODULE WorkPool ------------------------------
(***************************************************************************)
(* What the worker threads of src/src/parallel.rs promise each other,      *)
(* without counters, locks or polynomials: a pool of work that the workers *)
(* drain, where working on an item may add to the pool, and where a worker *)
(* may go home only when it can know that no work will ever come again, or *)
(* when the run has been aborted.                                          *)
(***************************************************************************)

CONSTANT Worker

VARIABLES
  seeding,   \* the pool is still being filled; no worker has started
  queue,     \* the set of waiting items
  busy,      \* the workers that hold an item
  gone,      \* the workers that have gone home
  aborted    \* the run has been abandoned

vars == <<seeding, queue, busy, gone, aborted>>

Init ==
  /\ seeding = TRUE
  /\ queue = {}
  /\ busy = {}
  /\ gone = {}
  /\ aborted = FALSE

(* Before the workers start, the queue changes at will. *)
Seed ==
  /\ seeding
  /\ UNCHANGED <<seeding, busy, gone, aborted>>

Open ==
  /\ seeding
  /\ seeding' = FALSE
  /\ UNCHANGED <<queue, busy, gone, aborted>>

Take(w) ==
  /\ ~seeding
  /\ w \notin busy \cup gone
  /\ \E t \in queue : queue' = queue \ {t}
  /\ busy' = busy \cup {w}
  /\ UNCHANGED <<seeding, gone, aborted>>

(* A busy worker may add items and may discard waiting ones. *)
Produce(w) ==
  /\ w \in busy
  /\ UNCHANGED <<seeding, busy, gone, aborted>>

Finish(w) ==
  /\ w \in busy
  /\ busy' = busy \ {w}
  /\ UNCHANGED <<seeding, queue, gone, aborted>>

(* The heart of it: an empty queue is not enough, nobody may be busy. *)
Leave(w) ==
  /\ ~seeding
  /\ w \notin busy \cup gone
  /\ aborted \/ (queue = {} /\ busy = {})
  /\ gone' = gone \cup {w}
  /\ UNCHANGED <<seeding, queue, busy, aborted>>

Abort ==
  /\ aborted' = TRUE
  /\ UNCHANGED <<seeding, queue, busy, gone>>

Next ==
  \/ Seed \/ Open \/ Abort
  \/ \E w \in Worker : Take(w) \/ Produce(w) \/ Finish(w) \/ Leave(w)

Spec == Init /\ [][Next]_vars

(* Once a worker of a run that was not aborted has gone home, there is no  *)
(* work left, waiting or in progress.                                      *)
Drained == gone # {} /\ ~aborted => queue = {} /\ busy = {}
=============================================================================

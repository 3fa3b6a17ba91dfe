# A TLA+ model of ark-gb

ark-gb computes Gröbner bases over arkworks fields: Buchberger's algorithm with
the Gebauer-Möller criteria and the sugar strategy, as a serial driver, as a
driver with several worker threads, and as an F4 driver. This directory holds
TLA+ modules translated from its source, TLC configurations that check them on
small ideals, and proofs that TLAPS checks for every number of threads and every
input.

Source paths below are relative to `src/src/`.

## 1. The system

| Component | State | Operations | What makes it correct |
|---|---|---|---|
| Parallel driver (`parallel.rs`) | the threads' program counters and local objects | seed, spawn, pop, build, reduce, insert, join, tail-reduce, cancel | the reduced basis on every schedule; nobody leaves early; the call returns; cancellation is honoured |
| Shared state (`computation.rs`) | basis arrays and flags behind two read-write locks, queue behind a mutex, `next_arrival`, `in_flight`, `cancel`, `insert_mutex` | push, snapshot, clear, allocate arrivals | insertions are exclusive, the active basis is an antichain between them |
| Serial driver (`bba.rs`) | `SBasis`, `LSet`, arrival counter | the same loop with two reducers | the reduced basis for every order of the inputs |
| Criteria (`gm.rs`, `bset.rs`) | the candidate list B | product criterion, chain criterion inside B and on the queue | no needed pair is dropped |
| Pair queue (`lset.rs`, `pair.rs`) | heap with tombstones, index, live count | insert, pop, delete, contains | a plain set popped in order |
| Basis store (`sbasis.rs`) | parallel arrays of polynomials, sevs, degrees, flags | insert, replace, clear, set a flag | the active elements stay an antichain |
| Monomials (`monomial.rs`, `ring.rs`) | exponents in 7-bit fields of words | mul, div, lcm, divides, compare | the packed operations are the exact ones within the limits |
| Geobuckets (`kbucket.rs`) | slots of polynomials, a cached leading slot | absorb, subtract a multiple, leading, extract | the value is the sum of the slots |
| Reducer heap (`reducer.rs`) | a heap of cursors into multiples | push, pop with cancellation | the terms come out in order, each once |
| F4 (`f4.rs`, `matrix/`) | basis, pairs by sugar, matrix | select, preprocess, eliminate, insert | the reduced basis |
| Linked-list polynomials (`poly/poly_list.rs`) | chains of heap nodes, a cached length and leading term | arithmetic by merging two chains, in place or by copy | no node is lost, shared or read after it was freed; the result is that of the other backend |
| Flat-array polynomials (`poly/poly_vec.rs`) | two arrays, a cursor, a cached length and leading term | the same arithmetic | the exact result; caches in step |
| SIMD scans (`simd.rs`) | none | find an entry from a position on | the entry the scalar loop finds |
| Validation (`validate.rs`) | its own basis store | `is_groebner_basis` | accepts the drivers' results, notices a lost element |
| Field and ordering (`field.rs`, `ordering.rs`) | none | re-exports | |

How they interact. Both Buchberger drivers take pairs from the queue, build an
S-polynomial from two basis elements, reduce it by the basis, and insert a
nonzero remainder: append it, make its pairs with the older active elements,
drop what the criteria make superfluous, merge the rest into the queue, and mark
the older elements it covers as redundant. The parallel driver does the same
with worker threads that share one `Computation`: the queue behind a mutex, the
basis behind read-write locks, and a single `insert_mutex` around the whole
insertion, while pops and reductions run beside it.

What is hard: remainders that were irreducible when they were computed and are
no longer when they are inserted; pairs made from a snapshot of the basis;
redundancy flags that are stored and loaded with relaxed ordering; the test for
the end of the work, which must tell an empty queue from a finished run; a panic
or a cancellation in the middle of any of it. In the serial driver it is the
order in which pairs, queue and flags are updated, and a reducer's copy of a
leading term beside the bucket that owns it. In F4 it is the rows that symbolic
preprocessing must not forget and the leading columns that a harvest reads off
an eliminated matrix. In the linked list it is the owner of every node while a
merge is under way. `PROJECT.json` lists these under `hazards`, each at its
line.

## 2. The modules

| Module | Models | Used by |
|---|---|---|
| `Monomials` | exponent vectors, divisibility, lcm, degree reverse lexicographic order | all |
| `Polynomials` | sparse polynomials over the field of `P` elements, subtraction of a multiple, S-polynomials | all |
| `Pairs` | pairs and the order of the queue | drivers, `LSet` |
| `Reduction` | divisor search, one turn of a reducer, the elements a newcomer covers | drivers |
| `GebauerMoeller` | making pairs, the product and the chain criteria | drivers |
| `ParallelBba` | the parallel driver on the shared state | `MCParallelBba`, proofs |
| `WorkPool` | what the worker loop promises: the abstract specification `ParallelBba` implements | `ParallelBba` |
| `SerialBba` | the serial driver | `Drivers`, proofs |
| `F4`, `SparseRows` | the matrix driver; sparse rows and elimination | `Drivers` |
| `Validate` | the validator (recursive; only TLC uses it) | `MCDrivers` |
| `SevScan` | the filtered and chunked scans for a divisor, and the sweep of the chain criterion | `Drivers` |
| `Drivers` | both drivers on one thread side by side, and the scans | `MCDrivers`, proofs |
| `LSet`, `PairQueue` | the heap with tombstones, and the plain set it implements | `MCLSet`, proofs |
| `SharedSBasis` | the shared basis with its two read-write locks, a step per lock operation and flag | `MCSharedSBasis`, proofs |
| `AtomicBasis` | the basis without locks that `SharedSBasis` implements | `SharedSBasis` |
| `KBucket`, `Accumulator` | the geobucket, and the single polynomial it implements | `GeobucketReducer` |
| `GeobucketReducer`, `LeadingForm` | the reducer over a geobucket with its cached leading term, and the leading-term reduction it implements | `Reducers` |
| `ReducerHeap`, `NormalForm` | the heap of cursors, and the reduction term by term that it implements | `Reducers` |
| `Reducers` | one call of either reducer, or the geobucket by itself | `MCReducers`, proofs |
| `PolyList` | the linked-list polynomials, node by node | `PolyBackends` |
| `PolyVec` | the flat-array polynomials with their cursor and caches | `PolyBackends` |
| `TermLists` | sequences of terms, the notions both backends share | `PolyList`, `PolyVec` |
| `PolyBackends`, `PolyValues` | both backends under the same calls, and the exact polynomials they implement | `MCPolyBackends` |
| `PackedMonomial`, `ExactMonomials` | monomials in words, and the exponent vectors they implement | runs, proofs |
| `GroebnerRef` | the textbook algorithm, the reference for the results (recursive; only TLC uses it) | MC modules |
| `AlgebraProofs` | lemmas about `Monomials`, `Polynomials`, `TermLists`, `Reduction`, `GebauerMoeller` | the proofs below |
| `ParallelBbaProofs`, `SharedSBasisProofs`, `DriversProofs`, `LSetProofs`, `ReducerProofs`, `PackedMonomialProofs`, `PolyBackendsProofs` | proofs about the module each is named after (`ParallelBbaProofs` also about `WorkPool`, `DriversProofs` about `SerialBba`, `SevScan`, `SparseRows` and `F4`) | |

### State and actions of `ParallelBba`

`polys` and `redundant` are `SharedSBasis`; indices are 1-based in the model and
0-based in the code. `l_set` is the set of live pairs of the queue (that `LSet`
is such a set is the theorem `QueueImplemented`). `next_arrival`, `in_flight`,
`cancel` and `insert_mutex` are the fields of `Computation`; `insert_mutex` is a
thread, `Free` or `Poisoned`. `pc` says where each thread is, and `pair`,
`lobj`, `h_idx` and `bset` are its locals, reset to a default when they are dead
so that states that differ only in garbage are the same.

A step is a stretch of code that touches the shared state once:

* `SeedNext`, `Spawn`, `JoinAll`, `JoinPanicked`, `TailNext`, `TailStep`,
  `TailEnd`, `Finish`: `compute_gb_parallel` and `finalise_basis`. `Spawn`
  starts all workers at once: a worker that starts late is one whose first step
  comes late.
* `Pop`, `ExitDrained`, `Spin`, `ExitCancelled`: `pop_or_wait` and the poll at
  the top of the loop. The pop and the increment of `in_flight` happen under one
  lock and are one step; the decrement (`Retire`) is a step of its own.
* `Build`, `Reduce`, `ReduceDone`: the lock-free reduction, one turn of its loop
  at a time, against the basis as it is at that turn. A scan takes both read
  locks, so the arrays do not change under it; flags may be stored while it
  runs, but they only go from false to true, and reading them in index order is
  equivalent to reading all of them at the moment of the last load.
* `Lock`, `FinalDone`, `Push`, `MakePairs`, `Merge`, `Clear`, `ClearDone`,
  `InsertCancelled`: `insert_and_enterpairs`. Each flag store of
  `clear_redundant_for` is a step.
* `Cancel`, `Panic`, `LockPoisoned`: the environment. `Panic` stands for the
  overflow assertions of the monomial arithmetic in a reduction; unwinding
  poisons the mutex and skips the decrement. The switches `MayCancel` and
  `MayPanic` turn them on.

The relaxed flags. A flag stored since the last push may be missed by a worker
that does not hold `insert_mutex`: `Views` lets such a scan miss any subset of
those stores. A push takes the write locks, so that everything before it is
visible to every later scan; `settled` holds the elements whose flag can no
longer be missed. This allows slightly more than the memory model does (a worker
could miss its own stores). The cancel flag is loaded relaxed too, and is
sequentially consistent in the model: a late load is the same as a flag raised
late, and the final poll after the joins sees whatever any worker saw.

A poll of the cancel flag that finds it clear is merged with the next step:
raising the flag commutes with it. The poll of the reducer's loop that ends it
is merged with the poll that follows the loop.

### State and actions of `SerialBba`

The program is deterministic once its inputs and the reducer the build selected
are fixed, so `Init` chooses both. A step is one turn of a reducer's loop or one
insertion. The geobucket reducer stops at the first leading term without divisor
(`GeobucketDone`); the heap reducer moves that term to the survivor and goes on
(`HeapEmit`, `HeapDone`). The shortcut for single-term elements in
`tail_reduce_all` is `TailEnd` with an empty tail. `Inserted`, `SetRedundant`
and `Replaced` are the operations of `SBasis`; the arrays it caches beside the
polynomials (leading monomials, short exponent vectors, degrees) are written
together with them and are functions of them, so they are not variables.

### State and actions of `F4` and `SparseRows`

`basis`, `pairs`, `row_polys`, `covered_leads`, `rows`, `sorted_mons` and
`input_pivot_cols` are the locals of `compute_gb_f4`. A step is the selection of
a batch of pairs (`SelectBatch`), one row of symbolic preprocessing
(`Preprocess`), the assembly of the matrix, one pivot of `row_echelon`
(`Echelon`) or of `rref` (`Rref`), the harvest, or one subtraction of
`inter_reduce` (`InterReduceTerm`). A sparse row is the function from the
columns of its entries to their values. Rows come in the order the code puts
them in: by the heap's order of the pairs and, within a row, by descending
monomials. The hash sets are sets; their iteration order is not observable,
since columns are sorted.

### State and actions of `Drivers`

A behaviour is one call of `compute_gb_serial` with either reducer, or of
`compute_gb_f4`. `FindDivisorIdx` is the scan with short exponent vectors and
vector registers, `ChainSweep` the marking loop of `chain_crit_normal`; the
property `ScansExact` compares them with the plain definitions the drivers use,
on every basis a run comes to. So the drivers need not carry them.
`IsGroebnerBasis` is the validator on what a call returns.

### State and actions of `SharedSBasis`

`ParallelBba` reads and extends the basis at one moment; this module has what
happens behind that. An element is its leading monomial. A thread's operation
(`op`) is a search, a fetch, or an insertion in one of its stages: the last
reduction (`final`), the push, the snapshot, the marks. Every stage takes
`inner` and then, except a fetch, `redundant`, and drops them in the reverse
order; `AcquireInner`, `AcquireFlags`, `DropFlags`, `DropInner` are those steps,
and `Continue` and `Return` what follows the last. The appends of a push, the
loads of a search or a snapshot and the stores of the marks are steps of their
own. `insert_mutex` is `inserter`. A cancelled last reduction pushes its element
as it is (`reduce_survivor_final` polls only inside the reduction); a poll may
miss the flag. The locks follow the policy that makes the discipline hardest, in
which a reader waits for a waiting writer. With readers first there would be
fewer waits, but a push could starve: `OperationsEnd` rests on this policy,
which is that of the standard library's futex locks and is not promised by its
documentation. Not repeated here: what `reduce_survivor_final` computes (any
smaller leading monomial, or nothing), the pairs, and panics.

`ImplementsAtomic` maps a push to the append of its flag and a search to its
last load, and an `AtomicBasis` push needs that no active element divides what
enters, which relates the search under the mutex to the arrays at the moment of
the append.

### State and actions of `KBucket`

`slots`, `lm_cache` and `dirty` are the fields of the bucket; an empty slot and
one with the zero polynomial are the same, and of the mask only whether it is
zero is kept. A subtraction is `Minus_m_mult_p` and then one `Absorb` for each
turn of the cascade, with the polynomial that looks for a slot in `carry`. A
call of `leading` or `extract_leading` is `Ask`, one `Peel` for each scan whose
leading terms cancel, and `FromCache`, `FromScan` or `NoTerm`. `into_poly` is
`Value`, which is also the refinement mapping to `Accumulator`, and `is_zero` is
`leading`. `Capacity` is `slot_capacity` as a recursive function, as are the
other recursive definitions of the modules that have theorems.

### State and actions of `GeobucketReducer`

The bucket is that of `KBucket`. `pair` is what `from_spoly` starts from, `lead`
the copy of the leading term in the `LObject`, and `step` says where the call
is: subtracting the second product of the S-polynomial (`SpolyFirst`,
`SpolySecond`), asking the bucket for its leading term and storing the copy
(`Refresh`, `Refreshed`), looking for a divisor (`Probe`, `Irreducible`),
subtracting (`SubtractAndGo`), or back. Every call of a bucket operation runs
its cascade and its scans turn by turn. The copied leading monomial decides the
divisor and the multiple, so a copy that is behind subtracts the wrong one: that
is what the refinement of `LeadingForm` excludes. The cached short exponent
vector and degree are functions of the cached monomial.

### State and actions of `ReducerHeap`

`reducers` is the slab, where a cursor is the polynomial it has still to pass;
`heap` the nodes. `PopChain` is one turn of `pop_with_cancellation`, `Reduce`
and `Emit` the two answers of `find_divisor`. The key of a node is its monomial:
that keys compare and coincide as monomials do is what `OrdersSound` says of the
packed ones. The refinement mapping adds up what the cursors have not passed.
The turns of `NormalForm` are those `SerialBba` takes with the heap reducer
(`Reduce`, `HeapEmit`, `HeapDone`).

### State and actions of `PolyList`, `PolyVec` and `PolyBackends`

`mem` is the heap: a function from the addresses of the live nodes to their term
and their next pointer. Every node is a `Box` of its own (`node_pool.rs` forwards
to `Box::new` and `Box::from_raw` and keeps no free list), so addresses are not
bounded; a new node gets the least one that is not in use, which may have been
freed before. A caller owns two lists `x` and `y`. A call of an operation (`Call`)
reads off the request what it starts with; the operations that merge two chains
go on turn by turn (`Turn`): the larger head is appended, equal ones are
combined into one node or freed when they cancel, and the rest of an owned chain
is spliced in as a whole. An operation that consumes its operands takes their
nodes; one that does not copies. The flat-array backend answers the same calls
in one step each, with its own cursor over dead terms and its own caches. A new
node takes the smallest free address: which one it is cannot be observed. The order
in which a list's nodes are freed when it is dropped is left out.

### State and actions of `PackedMonomial`

Words are integers below `WORD`, and the arithmetic on them is that of the code:
one addition modulo `WORD` for each word in `mul`, a mask for the guards, words
compared as numbers after the flip. A word has `BYTES` fields of `BITS_PER_VAR`
bits, eight of eight in the code; `TwoTo` and `Place` are the powers that shifts
multiply and divide by, and `Byte` is a shift with a mask. Two registers `a` and
`b` hold monomials, and each operation is an action on them. `mul` is that of a
debug build; without debug assertions a product that does not fit is corrupted
silently, which the code leaves to its callers. The total degree is not bounded
by the width of `total_deg`, which only more than 33 million variables could
exceed.

### Data

A polynomial is the function from its support to its nonzero coefficients with
its leading monomial; sevs, cached degrees and the slots of a bucket are
functions of that value and appear nowhere. The coefficients are the integers
modulo a small prime `P`. Monomials are exact exponent vectors: that the packed
ones implement them within their limits is the subject of `PackedMonomial`.
`ChainImplied` describes by a quantifier the candidates the code's kill loop
marks: divisibility is transitive, so that a candidate implied by a killed one
is implied by a surviving one too.

## 3. The runs

| Run | Instance | Shows |
|---|---|---|
| `par_gb` | two workers, three variables, `x²y+z, y²z+x, xz²+2y` mod 3 | the result is the reduced basis on every schedule; snapshots fresh; active elements an antichain; no divisor lost; sugar bounds degrees; new pairs are the youngest; new leading monomials are never multiples of older ones |
| `par_pool` | three workers, two variables, cancellation and panics | `in_flight` is exact; the loop implements `WorkPool`; no basis is returned after a panic or a timely cancellation |
| `par_term` | two workers, cancellation, weak fairness | the call returns |
| `par_hang` | two workers, panics, weak fairness | finding 1 |
| `lset` | eight pairs, four insertions | the heap with tombstones implements the plain queue; its bookkeeping is canonical |
| `shared_basis` | three threads, two insertions, leading monomials `x²` and `x`, weak fairness | no circular wait; arrays in step under the guards; the locked basis implements the atomic one; every operation ends |
| `reducers` | the geobucket with slots for one, two and four terms; 220 working polynomials with two sugars each and the S-polynomials of two bases | the bucket answers as its value and its cascades end; one node per live cursor, leaders strictly descending; the heap reducer takes the turns of `NormalForm`, the geobucket reducer those of `LeadingForm` |
| `polys` | two calls on every pair of six polynomials in one variable | every node has one owner; both backends are canonical, agree, and return the exact polynomials |
| `packed` | two words of three fields of three bits, three variables | words stay canonical and are exact; order and keys agree below the cap; orders total |
| `packed_order` | the same | finding 3 |
| `drivers` | forty-seven input sequences, the serial driver with both reducers, F4, weak fairness | every call returns, with the reduced basis from either driver; the validator accepts it and nothing smaller; the scans are exact; sugar bounds degrees; matrices are harvested in reduced echelon form; new leading monomials are never multiples of old ones |
| `serial_arrival` | one input sequence | finding 2 |

Bounds. The ideals were chosen so that the interesting cases happen: in `par_gb`
both chain criteria and the product criterion drop pairs, elements become
redundant while others reduce, and remainders vanish in the second reduction.
Every property is broken by a plausible bug in the code on the same instance
(the mutants in `PROJECT.json`: a second reduction left out, a shared insertion
lock, a chain criterion without its guard, a decrement forgotten, a flag cleared
too early and so on). Three workers matter for the accounting only, where one
leaves while two others disagree about the end; two suffice for races on an
insertion, which is exclusive. `lset` needs four insertions: one to be replaced,
one replacing it, one before and one after in the order. In `shared_basis` three
threads are the least for a reader behind a waiting writer behind a reader; two
insertions are one that may cover or divide the other; `MaxInserts` bounds
insertions, and searches and fetches are not bounded. In `reducers`, `MaxDeg`
keeps the degree of a bucket under free calls at two, so that it has at most
three terms; with slots for one, two and four that is enough for cascades
upwards, downwards and of several turns, and for leaders that cancel between
slots. In `reducers` and `packed` the inputs are all those of a kind: every
polynomial with two or three of six monomials, every pair of monomials. In
`drivers`, short exponent vectors have two bits for three variables, so that two
of them share one; registers have two entries and a turn two registers, so that
the bases of several elements reach the unrolled loop, the single-register loop
and the scalar tail. Its inputs are four systems in every order of their
generators, one of them with a generator that another one covers, and a
duplicate, a zero, a constant and no input at all. In `polys`, `MaxCalls` is
two: after one call the caches and the heap are those of a result, not of a
constructor. The heap is not bounded; what the calls leave keeps it at nine
nodes. In `packed` the degree byte saturates at seven of at most nine, the
variables are in two words, two of them in one, and two variables share a bit of
the short exponent vector. The drivers are not bounded: the ideals are finite
problems, and every run explores all of its state space.

Fairness. `DriversSpec` assumes weak fairness of the one thread of a call; since
the drivers have a step until they are done, `Fairness` says this without
`ENABLED`. `Spec` of `SharedSBasis` assumes weak fairness of each thread inside
an operation; beginning one is never forced. `FairSpec` assumes weak fairness of
the main thread's steps and of each worker's, which is what an operating
system's scheduler gives. `insert_mutex` needs no strong fairness: a thread
takes it finitely often, because the basis grows finitely often. The
flag-raising environment and panics are never forced. `Termination`,
`PanicPropagates`, `OperationsEnd` and `CallReturns` are the liveness
properties; the safety runs of the parallel driver use `Spec`.

### Findings

1. `parallel.rs:140-144` says that a worker's panic makes `join()` return `Err`,
   which is propagated. The run `par_hang` shows a schedule where it never is:
   the unwinding worker does not lower `in_flight`, another worker spins in
   `pop_or_wait` for ever, and the main thread waits for that one.
2. `pair.rs:59-60` calls `arrival` a monotonic insertion counter that brings the
   older of two pairs of equal sugar out first. `enterpairs` gives out one
   number per candidate, but `bba.rs:229` advances the counter by the number of
   pairs merged. The run `serial_arrival` shows two queued pairs of different
   elements with the same number, and the younger in front. The result stays
   correct; only the order of selection is not what the comment says. The
   parallel driver stamps pairs when they are merged and does not have this.
3. `monomial.rs:513` calls `GrevLexTerm` the graded reverse lexicographic order.
   From total degree 255 on, `cmp_degrevlex_packed` takes a branch that compares
   the last word after the others (`monomial.rs:355-368`), although the last
   variables are in it and decide first. The run `packed_order` shows two
   monomials of equal degree in the wrong order. It needs more variables than
   fit the last word (seven). Below the cap the order is exact, and above it it
   is still total (both parts of `OrdersSound`), but multiplying two monomials
   across the cap can reverse their order, which the sorted term lists do not
   expect. The contract of `cmp_key` (`monomial.rs:84-92`) fails above the cap
   too.

Remarks without a run, met while modelling:

* `validate.rs:11-16` states an equivalence for membership and S-polynomials;
  the condition that the elements lie in the ideal of the input is not tested,
  so `{1}` is accepted for every input. `ValidatorAgrees` says what the
  validator does guarantee for the results of the drivers.
* `gauss.rs:22-29` breaks ties between rows by their original index; after the
  first swap it is the position at the moment, which `PivotSource` has.
* `f4.rs:323-327` argues that the inter-reduction ends because leading monomials
  decrease; most of its steps change only tails, and its sweeps repeat until
  none changes anything. That they end is `CallReturns`.
* `simd.rs:9-11` describes the filter as the candidate's bits being a subset of
  an entry's; the code tests the converse, which is the filter a divisor needs.
* The subtracting branch of `merge_consuming` in `poly_list.rs` has no caller.

## 4. The proofs

TLC's runs have small instances; the theorems hold for every value of the
constants: every number of threads and variables, every prime, every input, with
or without cancellation and panics. All are consequences of `Spec` (for the
reducers `ReducersSpec`, for the polynomial backends `BackendsSpec`, for the two
drivers together `DriversSpec`) and of the assumptions named in the modules:

| Assumption | Says | Because |
|---|---|---|
| `NVarsAssumption`, `NumThreadsAssumption`, `SlotsAssumption`, `MaxInsertsAssumption` | counts are numbers, positive where the code needs one, and the base of the slots' capacities is above one | `Ring::new`, `bba.rs`, `kbucket.rs` |
| `PAssumption` | `P` is a prime, so that every nonzero coefficient has an inverse | the coefficients are a field |
| `InputsAssumption`, `InputSeqsAssumption`, `WorkAssumption`, `OperandsAssumption`, `LeadersAssumption` | what is put in are polynomials and monomials | their types |
| `BasesAssumption` | the bases of the reducers are monic | asserted at `bba.rs:299-305`, `reducer.rs:340` and `365`; the drivers insert only monic elements |
| `PairAssumption` | a pair has two indices in ascending order and a sugar and an arrival that are numbers | `pair.rs`, `Pair::new` |
| `PackingAssumption` | fields of two bits at least, fewer variables than fields | `ring.rs`, `Ring::new` |
| `ScanAssumption` | registers, unrolled turns and short exponent vectors have at least one lane or bit | `simd.rs`, `monomial.rs` |
| `SwitchAssumption`, `ThreadAssumption`, `NothingAssumption`, `LeaderAssumption` | the model's own switches and markers are what they look like | |

### The parallel driver

In `ParallelBbaProofs` what needs no algebra comes first: `TypeCorrect`, `InFlightCorrect`,
`InsertionsExclusive`, `NothingLeftBehind`, `PanicIsNeverOk`,
`CancelIsHonoured`, `SnapshotIsFresh` and `BasisIsAntichain`. The inductive
invariant `IInv` joins the type invariant with `Phases` (workers exist only
after the seed phase, and the main thread passes the join only when all have
returned), `Exclusive`, `InFlightExact` and `DrainedOnExit`. None is inductive
alone: the count is exact only because a worker cannot be counted twice, and a
drained exit stays drained only because nothing is in flight, which needs the
count. `CancelHonoured` needs that the main thread polls after all workers are
gone. The antichain follows the comment at `computation.rs:291-297`: inside the
exclusive section only its owner writes to the arrays; the second reduction
leaves a remainder that no active element divides (here the scan is exact
because the thread holds the mutex); and the flag stores remove the older
elements it divides. `Newest` carries the half-done stage in which the newcomer
is already there and the elements it covers are not yet marked; cancellation
leaves the stage unfinished, which is why the invariant is conditional on it.

What needs the algebra comes second: `DivisorsAreKept`,
`SugarIsBound`, `LeadersAlwaysGrow`, `NewPairsComeLast`, and that the workers
implement the abstract pool (`PoolImplemented`), in which nobody leaves an
unaborted run before the work is done (`PoolDrains`). The invariant `WorkInv`
has three parts: `Leaders` (every element has an active one whose leading
monomial divides its own, which is kept because divisibility is transitive),
`Grades` (what every thread holds is canonical and bounded by its sugar) and
`Queued` (queued pairs are pairs of the basis with arrivals given out before). A
leading monomial that an older, redundant element divides would be divided by an
active one too, and the second reduction excludes that: so `Leaders` and the
exclusion of insertions give `LeadersGrow`.

`SharedSBasisProofs`: `LocksTyped`, `ArraysInSync`, `LocksNeverCircular`, and
`BasisIsAtomic`, the refinement of `AtomicBasis`. `Held` reads off every
thread's position which locks it holds; `Lengths` says the flags are one behind
exactly while a thread is between the two appends, which is then the writer. No
circle: a thread waits only for threads of a higher `Rank`, a function of its
position with six values, writers above readers at the same lock. For the
refinement `Loops` bounds the cursors of scans and marks, and `Operations` says
what each operation has found out so far, in terms of the arrays as they are
now: a scan that is under way can only have passed elements that still do not
divide, since flags only rise and leading monomials stay.

### The drivers on one thread

`DriversProofs` has four parts.

*The serial driver*: `BasisIsAntichain`, `SugarIsBound` and `LeadersAlwaysGrow`.
The antichain rests on `Shapes` (the arrays are parallel) and `Irreducible`:
nothing active divides what waits for its insertion, nor the leading term that
the heap reducer has parked, which is the one that will lead the remainder. That
the flags are stored in the same step as the append makes the serial case
unconditional. Since it is proved in general, no run repeats it. `WorkInv` has
the same three parts as in the parallel driver.

*The scans*: `ScansAreExact`, for every width of a short exponent vector, every
number of lanes and of registers in an unrolled turn. A scan is a recursive
function of its position, so the lemmas go from its end to its beginning
(`InductionDown`): if the turns after `j` find the first hit from their start
on, so does the turn at `j`. What the filter skips cannot divide, because a
division never leaves a bit set that the multiple has not. For the chain
criterion the invariant of the sweep is that what has been marked after `i`
candidates is what one of the first `i` implies, although the marked ones are
passed over: implication is transitive. `SerialInv` supplies that whatever is
scanned has monomials for leading terms.

*The elimination*: `PivotRow(rows, i)` says that row `i` begins with a 1 and
that every later row has its entries further to the right; `ClearedAfter` that
the columns of the pivots after `at` are empty in all other rows, and `Echelon`
is what `rref` keeps. Taking the leftmost leading column of the remaining rows
keeps the first (`EliminateBelowKeeps`). That a pivot has nothing in the columns
of earlier pivots keeps the second (`EliminateAboveKeeps`), and
`EchelonIsReduced` reads off the reduced form at the end. Both rest on
`AxpyFacts`: a row stays a row, without stored zeros.

*The matrix driver*: `HarvestedRowsAreReduced` and `LeadersStayIrreducible`.
`MatrixInv` says what each phase hands on to the next:

| Phase | What holds |
|---|---|
| `select` to `rref` | the basis is a sequence of nonzero polynomials, and the queued pairs are pairs of it |
| `preprocess` | the terms of the rows before `at` are covered, and every covered monomial that the basis reduces leads a row (`RowsCover`) |
| `echelon`, `rref` | the columns are monomials in descending order, the rows are rows over them, and every column that the basis reduces is among `input_pivot_cols` (`PivotsCover`) |
| `echelon` | the rows before `at` are pivots |
| `rref` | `Echelon` |
| `interreduce` | the basis is a sequence; elements are replaced and dropped, none is added |

So a harvested row leads in a column that is not an input pivot, hence at a
monomial that no element of the basis divides. That the preprocessing misses no
reducible monomial is where the argument of `f4.rs:242-266` lies: a monomial is
covered when it is first met, with a row if the basis reduces it, and a row
appended later has its turn later.

### The queue

`LSetProofs`: `QueueCanonical` and `QueueImplemented`. `QueueInv` adds that keys
are handed out once, so that a tombstone and the entry that replaced it are told
apart, and that the heap is finite, so that it has a smallest entry.

### The reducers

`ReducerProofs`, for every number of slots, every basis and every operand:

* `SlotsStayWithinCapacity`, `CascadesEnd`, `BucketIsAccumulator`. A polynomial
  is determined by its coefficients, and the value of the bucket by the sums of
  those of its slots and of the carry modulo `P`; a sum over a finite set does
  not depend on the order. Every turn of a cascade leaves these sums alone
  (`BucketInv`), and a cached leading term has the whole coefficient of its
  monomial and nothing in the bucket lies above it (`CacheInv`).
* `GeobucketReducesExactly`: `LObjectInv` and `LeadInv` say that the copy of the
  leading term is that of the bucket's value whenever the divisor search reads
  it.
* `LeadersDescend` and `HeapReducesExactly`: the heap has one node for each
  cursor that is not exhausted, with the cursor's current term (`HeapInv`).
  Popping a chain of equal keys takes the coefficient of that monomial in the
  sum of all cursors, and the multiple that is pushed lies below it (`RestInv`).

### Packed monomials

`PackedMonomialProofs`: `MonomialsAreCanonical`, `MonomialsAreExact`,
`OrdersAreSound`, for every width of the fields, every number of words and every
number of variables that fit. A word is a number in base `FIELD`. The lemmas are
facts about digits: a field read back is the field packed; two words of
exponents add field by field, because guards absorb the carry, so that the guard
mask sees exactly the overflows; two words compare as the highest field in which
they differ. Only the topmost field of the last word, the saturated degree, can
carry out of its field, and it is set anew. The invariant `Registers` is that a
register is what `from_exponents` makes of some exponents.

### The polynomial backends

`PolyBackendsProofs`: `NodesOwnedOnceHolds`, `CanonicalHolds`,
`BackendsAgreeHolds` and `RefinesValues`, for every number of calls
and all operands; they are the three invariants and the refinement that the run
`polys` checks. None of the invariants is inductive: in
the middle of a merge `x` is a handle whose chain has been taken away, and the
nodes of the output hang behind a tail pointer. `Inv` says, at every turn, which
sequences of addresses the chains are (`RestsAt` between calls, `MergesAt` in a
merge), that they are disjoint and cover the heap, which terms their nodes hold,
and how far the merge has come: the output and the rests of both operands are
what some turn of a merge by copy of the same operands makes of them (`Going`),
and the array already holds the result of that merge (`Progress`). The
chains are quantified sequences of any length, so `Inv` itself cannot be
evaluated by TLC; its consequences are, in `polys`. The lemmas on the heap say
what a chain is after a node is linked behind another, cut off, freed or spliced;
those on term sequences that negation, scaling by a nonzero constant and a
shift keep a sequence canonical, and so does a merge, that sorting and adding up
like terms makes it so, and that the two merge loops, turn by turn with owned
nodes and all at once with copied terms, are the same function. The case in
which an operand is the polynomial itself (`own`) needs that a merge that does
not consume its operands leaves their chains as they are.

`RefinesValues` is the refinement of `PolyValues`: every call of the caller has
the value that the exact operation has on the values of its operands, the turns
of a merge are stutters. The coefficient that a sequence of terms, sorted or not,
gives to a monomial is a sum over its places (`CoefSum`). That sum is what the
proofs follow: a turn of a merge takes the same from the sums of the rests as it
adds to the output's, adding up sorted neighbours keeps the sums modulo `P`, and
the double loop of a product has the sum over all pairs of monomials, in whatever
order they come (`TotalMoved`). A canonical sequence has each monomial once, so
its sums are the coefficients of its value, and two polynomials with the same
coefficients are equal. The dispatch on empty operands, on a zero or unit factor
and on a single term is shown to give what the exact operation gives there.

### The algebra

`AlgebraProofs` has the lemmas these share: the order of monomials is total and
transitive and multiplication preserves it, degrees add up, remainders modulo
`P`, what a subtraction does to coefficients, supports and leading monomials,
and that the criteria and the merge only ever drop pairs. Its second half is about
sequences of terms, for the two backends: sorting, adding up, scaling and
multiplying out keep them canonical and do to the sum of a monomial's
coefficients what the exact operation does. The library's theorems
for induction take an operator as parameter, which the installed provers cannot
instantiate; a recursive function over an initial segment of the naturals is
dealt with by the least element of the set of counterexamples, and a finite set
by its cardinality.

### Only model-checked

* That the drivers return the reduced Gröbner basis (`ResultIsReducedBasis` in
  `par_gb` and `drivers`): this needs Buchberger's criterion, and the reference
  it is compared with is recursive.
* `ValidatorAgrees`: the validator is a recursion over the terms of a polynomial
  with the tests of Buchberger's criterion at its end.
* That inter-reduction leaves a reduced basis, a part of `ResultIsReducedBasis`
  for the F4 driver.
* Liveness: `Termination`, `OperationsEnd`, `CallReturns`.


## 5. Not modelled

* Field and ordering: re-exports of arkworks and documentation. The field is the
  prime field of `P` elements, the order degree reverse lexicographic.
* `Matrix`' dense adapters, `transpose`, `mat_vec_mul` and `rank`: no driver
  calls them.
* The accessors of `SharedSBasis` that only tests call, which is why the shared
  computation state is listed as partly modelled; the arrival numbers that
  `SBasis` keeps for its elements, which nothing reads.
* A release build of the monomial arithmetic, in which a product that does not
  fit is corrupted silently; the code makes that its callers' obligation.
* Poisoning of the queue's lock: nothing panics while it is held except an
  `expect` in the chain criterion on a monomial that exists.
* The handle for cancelling a running `compute_gb_parallel`: the public
  interface hands none out yet (`bba.rs:69-73`). `Cancel` models what a holder
  could do.
* `compute_gb`'s dispatch on the environment variable for the thread count.
* How the allocator manages memory below `Box`; formatting, benchmarks
  and examples.

## 6. What is left

1. `Validate` and `GroebnerRef` as recursive functions, so that it can be proved
   that the validator accepts a basis only if every S-polynomial reduces to 0.

# UDBM: specification and verification

UDBM is the library that UPPAAL and its relatives use for *zones*: sets of
valuations of real-valued clocks given by bounds on clocks and on differences
of two clocks. A zone is a difference bound matrix (DBM); a union of zones is
a federation. The library is sequential C and C++. Its difficulty is not
concurrency, but invariants that every function relies on and restores by an
argument of its own: a matrix is kept *closed* (every bound is the tightest
one) without running a closure after each operation, matrices are shared
between handles and copied when written, and unions are kept small while
zones are removed and merged in place.

## The system

| part | source | state | operations |
|---|---|---|---|
| raw bounds | `include/dbm/constraints.h` | none | encode a bound and its strictness in an `int32_t`, add, negate, increment |
| DBM | `src/dbm.c`, `include/dbm/dbm.h` | the matrix of the caller, written in place | closures, constraining, intersection, delay, freeing, updates, relaxing, change of clocks, tests |
| extrapolation | `src/dbm.c` | the same, and tables of constants | four extrapolations, `dbm_closeLU` |
| handles `dbm_t` | `src/fed_dbm.cpp`, `include/dbm/inline_fed.h`, `src/DBMAllocator.*` | a pointer to a matrix with a reference count, or to none with the dimension in the pointer; a hash table of interned matrices; free lists | every operation of a DBM, on a private copy if the matrix is shared; `intern` |
| federations `fed_t` | `src/fed.cpp`, `include/dbm/fed.h`, `include/dbm/inline_fed.h` | a reference-counted list of `dbm_t` | union, intersection, reductions, subtraction, predecessors, relations, and the operations of a DBM on every zone |
| minimal graphs | `src/mingraph*.c` | an `int32_t` array with a header | reduce, write (five encodings), read, compare, unite |
| cache of minimal graphs | `src/mingraph_cache.cpp` | a table | only with `ENABLE_MINGRAPH_CACHE` |
| priced zones | `src/priced.cpp`, `src/infimum.cpp`, `src/pfed.cpp` | a DBM, a cost offset and one rate per clock | delay, updates, infimum, union |
| partitions | `src/partition.cpp` | a shared table from identifiers to disjoint federations | add, get, intersect |
| generators, printing, valuations | `src/gen.c`, `src/print.cpp`, `src/valuation.cpp` | none | test data and text |

Handles and federations call `dbm.c` on the matrices they own; an extrapolation
is called on every zone an exploration reaches; minimal graphs are written from
closed matrices and read back into them; a subtraction of zones negates the bounds of the
minimal graph of what it subtracts. Nothing runs concurrently, no message
is sent, and nothing is persisted. What is hard is:

* **a result must be closed without a closure.** Every function of `dbm.c`
  asserts `dbm_isValid` on its result in debug builds only, and most restore
  closedness by recomputing one row or one column (`dbm_downFrom`,
  `dbm_closeij`, `dbm_relaxDownClock`), which is right only for an input that
  earlier calls left closed;
* **numbers.** Sums of raws must fit in `int32_t`; a strictness bit is lost or
  kept by one subtraction; negated bounds are compared with `>=`;
* **entries are overwritten while they are read**: row `i` while `dbm[i,k]` is
  used, the first row while it decides what happens to the other rows;
* **"changed" counters and flags** pick no closure, a closure for one entry,
  for the touched clocks, or a full one;
* **a list of zones is a set, and its order is not.** Subtraction picks bounds by a
  heuristic, merging and reducing move zones about, and every shortcut ("this zone
  cannot matter") must be right for all the zones of the list together;
* **an operation must mean something**: a valuation is in the result exactly
  when the textbook says so.

`PROJECT.json` lists these as hazards, with the line where each one bites and
the properties that would notice it.

## Modules

| module | what it is |
|---|---|
| `Constraints` | the raw encoding: `raw = 2 * bound + weak`, sums, negation, the range of valid raws |
| `Dbm` | vocabulary: the matrix `D[i][j]`, one row and one pass of Floyd's algorithm, the tests of `dbm.c` |
| `Closure` | the abstract specification of a closing function: shortest paths, or "empty" |
| `DbmClose` | `dbm_close`, `dbm_closex`, `dbm_close1` as a state machine, one row of a pass per step |
| `DbmOps` | every other operation of `dbm.c` as a function from matrices to matrices |
| `Zones` | one zone under any sequence of calls of those operations |
| `Extrapolation` | the four extrapolations in the exploration of an automaton |
| `IntervalZones` | zones of at most one clock, as data for the modules of handles |
| `DbmValues` | the abstract specification of `dbm_t`: a handle is a value |
| `DbmSharing` | `dbm_t` with shared, counted, hashed blocks |
| `SharedWrites` | the matrix operations of `dbm_t` on a shared block, beside those of `Zones` on a private one |
| `MinReduction` | the minimal graph of a closed matrix |
| `MinGraph` | a zone that is packed, compared with and read back |
| `FedOps` | lists of zones: reductions, subtraction, merging, as functions from sequences to sequences |
| `Federation` | a federation under any sequence of calls |
| `DbmLemmas` | lemmas: the algebra of raws, induction, and a pass of Floyd's algorithm |
| `ZoneLemmas`, `ClosingLemmas` | lemmas: what each operation of `DbmOps` does to a closed matrix |
| `DbmCloseProofs`, `ZonesProofs`, `ExtrapolationProofs`, `DbmSharingProofs`, `SharedWritesProofs` | the theorems about `DbmClose`, `Zones`, `Extrapolation`, `DbmSharing` and `SharedWrites` |
| `MCDbmClose`, `MCZones`, `MCExtrapolation`, `MCDbmSharing`, `MCMinGraph`, `MCFederation` | instances for TLC |

`DbmOps` is what the rest is built of: `Zones`, `Extrapolation` and `MinReduction` extend it,
`SharedWrites` extends `Zones`, `MinGraph` and `FedOps` extend `MinReduction`, and
`Federation` extends `FedOps`.

Some definitions of a component are *mutants*: variants that contain a
plausible slip, marked as such in their comments. They are not part of any
specification; substituting one for the definition it varies makes the
property named in `PROJECT.json` fail, which shows that the property looks at
that code.

### Closure (`DbmClose`)

The state is the matrix `dbm`, the clock `k` of the current pass, the next row
`i`, the set `touched` of clocks whose pass has not begun, and the result `ret`.
The actions are the parts of the loops: `StartPass`, `SkipRow` (the test
`i != k`), `TightenRow` (the loop on `j`), `ExitEmpty` (a negative diagonal
entry), `Return`, and `AssertRaw` for the assertions of `dbm_addFiniteFinite`.
The loop on `j` is one step: it writes row `i` only, and reads row `k`, which
its own pass never writes, and `dbm[i,k]`, which the code saves before the loop.
The three functions differ in `touched` and in what they do on exit. The two
builds of the loop on `j` (`VECTORIZE_FLOYD`) compute the same row.

The initial matrix is any matrix with `<= 0` on its diagonal in which only paths
through touched clocks can tighten an entry; that is what the callers guarantee.

`Closure` says what a caller may rely on: in one step the matrix becomes the
matrix of shortest paths, or the call reports a negative cycle. The refinement
`ImplementsClosure` maps the matrix of an unfinished call to its input. Its
`Overflow` is allowed only for constants of at least `dbm_LE_OVERFLOW / dim`, so
a call with smaller constants never fails an assertion: the run shows it on a small instance,
`ClosureImplemented` for every `dim`.

Fairness: `WF_vars(Next)`. The loop runs to its end because nothing else runs.
`Termination` needs no more than that.

### Operations (`DbmOps`, `Zones`)

In `DbmOps` a loop that reads an entry it has written is a recursive function;
the others are one function. An operation that returns false leaves a matrix that
only `dbm_isEmpty` is asked about, and all of them are represented by `Empty`.
`CLOCKS_POSITIVE` is true, its only value unless a client changes it.
`dbm_constrain` leaves the closure to its caller, so the call of the model,
`ConstrainInTurn`, is the use that `dbm.h` prescribes: several constraints in turn, and
if none was refused one `dbm_closex` of the clocks that were touched. After a
refusal `dbm_constrain` does not mark the matrix either: the caller knows from the value
that was returned, and the matrix is `Empty` here too.

In `Zones`, a step from `call = NoCall` is one call, with the matrix before it in
`zone` and after it in `dbm`; `Return` makes the result the next zone. So the
operations are only ever applied to matrices that earlier operations left, as in
a client, and a matrix that is not closed would show in a later call.
The properties evaluate both matrices on a grid of valuations:

* `Canonical`: every result is a valid matrix, closed, non-empty, with positive clocks; it
  is also the type invariant;
* `ConstrainExact`, `DelayExact`, `FreeExact`, `UpdateExact`, `ClocksExact`,
  `RelaxExact`: a valuation is in the result exactly when the meaning of the
  operation says so. `dbm_up_stop` and `dbm_down_stop` are exact for up to three
  clocks; where two clocks run past a stopped one the exact result is not a zone,
  and the property asks for an over-approximation;
* `TestsExact`: the tests, which compare bounds, answer for sets of valuations.
  `dbm_haveIntersection` may say yes wrongly (`dbm.h:147`: "it *may* be non empty
  (not guaranteed)"), and never no.

### Extrapolation

The exploration resets and frees clocks, applies guards and delays, and
extrapolates every zone it reaches. `EqualsReference` compares the result with the
definition of the extrapolation followed by a *full* closure, which is also what
`test/test_extrapolation.c` compares it with on random matrices: the flags
`changed` and `diff`, and the clocks `dbm_closeLU` leaves out, lose nothing.
`Coarser` is the chain of inclusions that the test expects. `Sound` is the reason
why extrapolating is allowed: every valuation that is added is simulated by one of
the zone, where clocks may differ only beyond the constants they are compared with
(the LU-preorder). `TypeOK` bounds the constants, which is why the exploration is
finite: the closure adds constants of the tables up along a path, so a bound of either sign
is at most `dim - 1` times the largest of them. (That no lower bound gets below
`-Largest` is true of many tables, and false with guards that reach beyond them.)
`RoomAssumption`, `12 * (dim + 1) * (c + 1) <= dbm_LE_OVERFLOW` for every constant `c`, is what
keeps every sum of a step and of the closure after it within `raw_t`; the code only asserts
the sums one by one.

### Handles (`DbmValues`, `DbmSharing`)

`ptr` is `idbmPtr`: an address, or the dimension of an empty `dbm_t`. `heap` holds the
blocks: count, dimension, the bit that says "hashed", the matrix, and the stored minimal
graph, represented by the matrix it was computed from. `table` is the set of addresses that
are linked in the hash table. A call is one step. What it computes is the same on all
its paths, by the meaning of the operation; what differs is the block: `Lazy`
(copies a shared matrix only when it changes), `Copying` (always private),
`Constrain`, `ConstrainN`, `SetTo`, `Intersect`, `Union`, `CopyFrom`, `GetDBM`, `Assign`,
`SetDimension`, `ChangeClocks`, `Intern` and `GetMinGraph`. The allocator keeps one 1x1 matrix in
a handle of its own, `dbm1x1`. The zones are those of one clock, and the dimension 2 stands
for any greater one, because a count or a hash does not depend on what the zone is. Free
blocks are all alike, so a new block is any of them.

* `RefCounts`, `TableConsistent`, `MinGraphFresh` relate the blocks to the handles,
  to the hash table and to the stored graphs;
* `CallsMeanValues` says call by call that the step of `DbmSharing` is the step of the
  same name of `DbmValues`: the value of this handle changes as `fed.h` says, and no
  other value does;
* `ImplementsValues` is the refinement, with `value[h]` the dimension and zone of `h`.

`dbm_t::resize` and `dbm_t::changeClocks` to one clock overwrite the pointer without
giving up the reference to the old block (`fed_dbm.cpp:1571` and `:1589`). The history
variable `lost` counts these references, so that `RefCounts` can still be exact: the count
of a block is the number of its handles plus what it has lost. The run `sharing_leak` shows what it costs: a hashed block that no handle
leads to, where `inline_fed.h:47` says that the "hash table should be empty now
unless there have been leaks".

### Matrix operations of a handle (`SharedWrites`)

For a private block an operation of `dbm_t` calls the function of `dbm.c`, which is what
`Zones` says. For a shared one, `fed_dbm.cpp` has the operation a second time: a loop that
reads the shared matrix, copies it at the first entry that changes, and goes on in the copy
from the index it has reached (`Resumed`; in `ptr_freeAllDown` by a `goto` into two nested
loops). `SharedWrites` makes the calls of `Zones` on two handles with the same zone: `dbm`
is the result for the private one, `Outcome` what becomes of the shared one. It adds
`intersectionAxis` and `driftWiden` to the calls.

* `SameResult`: both handles have the same matrix afterwards, or both are empty; and
  `intersectionAxis`, which constrains pairs of clocks, is the intersection with the axis;
* `CopiesOnlyChanges`: the shared matrix is not copied for nothing, which is what the
  second version is for.

`makeUnbounded` has a run of its own, `unbounded_low`: it fills up to
`dbm + dim * (dim - 1)`, and so leaves the last row as the allocator returned it. Where
`intersectionAxis` returns false, its handle keeps a matrix that is marked as empty while
`isEmpty()` of the handle still says no (`fed_dbm.cpp:586`; `fed.h:414` says "@return
!isEmpty()"); its one caller, `fed_t::maxOnZero`, looks at the result only, and the model
represents both by `Empty`.

### Minimal graphs (`MinReduction`, `MinGraph`)

`dbm_analyzeForMinDBM` marks, in a closed matrix, a set of bounds from which a closure
computes the others: between classes of clocks that differ by a constant the bounds that no
third class implies, and within a class one cycle. A bit matrix is the set of its bits.

The state is the zone of a program, the graph it has packed (`NoGraph` if none), and as a
history the zone that graph came from. A packed graph is the record of what its header says
and the bounds that follow; `mingraph_encode` takes the shortest of three forms, in 32 or 16
bits. Bounds are narrowed and widened as the code does (`int16`, infinity is 32766). The
actions pack the zone with each choice of flags, exchange it for another one, read the
packed one back, or unite with it.

* `ReadsBack`: reading gives the zone that was packed, whichever bounds were left out and
  whichever clocks the closure after reading skips; so do the convex union with a packed
  zone and, here where zones have several clocks, `dbm_mingraphHasZero`;
* `SmallestGraph`: no smaller set of bounds closes to the zone ("the smallest number of
  constraints needed to represent the same zone", `mingraph.h`), against all sets of bounds;
* `SameBits`: the bit matrix recovered from a packed graph is the one of the analysis;
* `ComparisonsExact`: relations and equalities with a packed zone answer as those with the
  matrix do, and the approximate ones are wrong only as documented;
* `SizeIsAllocated`: the size computed from a header is the size that was allocated.

The run `mingraph_many` is a counterexample to the header's documentation:
`((size_t)mingraph[0]) >> 22` extends the sign of the first int, so that a number of bounds
between 512 and 1023 is not read as it was written. Since a bit matrix or couples must be
shorter than a copy, it takes a zone with many clocks to get there: the run has 26, of which
no bound implies another.

The runs have at least two clocks besides the reference, so one more difference is stated here
only. The packed zone of the reference clock alone is the integer 1, and `dbm_mingraphHasZero`
returns false for it (`mingraph_read.c:97`), although that zone is the point zero
(`mingraph.h:193`: "true if the mingraph contains zero").

### Federations (`FedOps`, `Federation`)

A federation is the sequence of its zones, in the order of the list, since the reductions
depend on it. Pointers into the list are indices, and where the code removes, moves or
appends a zone while it iterates, so does the recursion (`MergeFrom`, `ConvexFrom`,
`SplitBy`): with the same tests, in the same order, and with the same restarts. Zones are the
matrices of `DbmOps`, so that no operation on a zone is idealised. The overloads of an
operator for `fed_t`, `dbm_t` and `raw_t*` are one definition each. `restricted_merge` is the
flag of `fed.cpp`. A federation in the model is one handle; that
several `fed_t` may share a list, and copy it before they write, is the discipline that
`DbmSharing` shows for `dbm_t`, and is not modelled a second time.

`fed` is the list before a call, `result` after it. `Return` continues with the result, or
with an empty federation when its zones are not in the pool: the functions are total on all
matrices, but TLC explores those that are built from the pool.

* `ZonesValid`: no zone of a list is empty and all are closed;
* `SetOperationsExact`: union, intersection, difference and the others on sets of
  valuations, `subtractDown` as an over-approximation of what it says, and `+=` as what the
  code computes, the hull of all zones and the argument;
* `PiecesDisjoint`: a zone minus a zone is a union of disjoint zones within the first;
* `ReductionsKeepSet`: none of `reduce`, `mergeReduce` (three levels), `expensiveReduce`,
  `convexReduce`, `expensiveConvexReduce`, `partitionReduce` changes the set, or makes the
  list longer;
* `NothingRedundant`: after a reduction no zone is inside another one (after the expensive
  one, inside all the others together), and a union that compares zones keeps it so;
* `PredtExact`: `predt` is the set of valuations from which some delay leads into the
  federation without meeting the bad one before or then, for every bad federation, and for
  restrictions that contain the federation;
* `ComparisonsExact`: `exactRelation` is inclusion of sets, `relation` and `intersects` only
  err on the side that `fed.h` allows;
* `IncludedInPredtSound`: `isIncludedInPredt`, which avoids computing `predt`, never says
  yes for a federation that is not included. With at most one bad zone it says yes exactly if the
  federation is included and each zone of it lies in the past of one good zone. With several
  bad zones it also compares with what avoids each of them, and the property asks for no
  wrong yes only.

The operations of `fed_t` that treat each zone alone (delays, constraints, updates, freeing,
relaxing) apply the operation of `DbmOps` to every zone, and drop the zones that
become empty. What such an operation means for the valuations of a zone is what `Zones` checks and
`ZonesProofs` proves, so that the run for federations asks of them `ZonesValid` only.

Two of these properties state what the code does where `fed.h` says something else, and are
listed as findings. `operator+=` is documented to unify every zone with the argument, and to
give the hull of everything only after `convexHull()` (`fed.h:993`); the code calls
`convexHull()` itself (`fed.cpp:1430`, `1452`, `1469`), so two zones become one that is larger
than their two unions with the argument. `isIncludedInPredt` is documented to return true for a
federation that is included (`fed.h:1321`), but asks `*this <= downGood` with the comparison of
zones one by one (`fed.cpp:2967`; `2990` and `3010` for several bad zones, "false for
sure"): a zone that only the pasts of two good zones cover together gets a wrong no.

Two runs are counterexamples. `fed_subtract_down`: `subtractDown` is documented as
"Compute (*this -= arg).down()", and leaves out the subtraction of a zone if one zone of the
federation reaches above it in every clock. With two zones to subtract, the second
subtraction may remove what was above the first one, and with several zones in the federation
the others may not reach above it. `fed_predt_restrict`: with a restriction that does not
contain the federation, `down(good)` is cut before it is compared with the bad zone, so that
a bad zone outside of the restriction is not seen although the delays to the federation pass
through it.

## Runs

Times are for two workers.

| run | instance | what it shows | states | time |
|---|---|---|---|---|
| `close` | 3 clocks, bounds `<= -1`, `< 0`, `<= 1`, none; grid 1/3 | all properties of `DbmClose` but `TypeOK`, and that it implements `Closure` | 144,510 | 1 min |
| `close_large` | 3 clocks, bounds at the ends of the valid range | `TypeOK`: sums stay in `int32_t`, until `AssertRaw` | 330,000 | 20 s |
| `zones` | 3 clocks, every bound from `< -1` to `<= 1`; pairs of constraints from `<= -1` and `< 1`; second operands bounded by `> 0` or `>= 1`, `<= 1` and `x - y < 0` | every property of `Zones` and `SharedWrites` but one | 197,042 | 2 min |
| `unbounded_low` | the same | a violation: `UnboundedAsLow` | | 2 s |
| `extrapolation` | 3 clocks, four guards per pair, constants none, 0 and 1 | every property of `Extrapolation` | 18,899 | 1.5 min |
| `sharing` | 2 handles and `dbm1x1`, 2 points, at most 1 lost reference | `RefCounts`, `TableConsistent`, `MinGraphFresh`, `CallsMeanValues`, and the refinement `ImplementsValues` | 26,832 | 2 min |
| `sharing_leak` | the same | a violation: `TableEmptyAtEnd` | | 5 s |
| `mingraph` | 3 clocks, every closed matrix with lower bounds down to `<= -1`, upper bounds `<= 0`, `< 1`, `<= 1`, one that 16 bits do not hold, or none, and differences of those; ints of 4 bits | every property of `MinGraph` but one | 28,588 | 1 min |
| `mingraph_many` | one zone of 26 clocks, ints of 32 bits | a violation: `CountReadsBack` | | 5 s |
| `federation` | 3 clocks, a pool of 9 zones, second operands of at most 2 zones, federations of at most 3 | every property of `Federation` but two | 29,857 | 2.5 min |
| `fed_subtract_down`, `fed_predt_restrict` | the same | violations: `SubtractDownIsDown`, `PredtRestricted` | | 2 s |

Why the bounds are enough:

* Three clocks (the reference clock included) are the smallest number for which a
  closure has work to do, and two clocks besides the reference are enough to make
  a row, a column and a diagonal constraint interact. Paths of more
  than two edges between clocks need four clocks, which the proofs of the closure cover and
  the runs do not.
* The bounds include strict and weak, negative, zero and positive ones: a cycle can
  be negative by a constant or only by its strictness.
* With `n` clocks, a chain of strict bounds can need `n` distinct fractional parts:
  the grid has `n` points between two integers (`Grid`), and reaches past the
  largest constant that can occur (`Horizon`). In `Zones` the valuations compared
  are every other point, so that the witness of a projection can lie half-way; where a
  call drops several clocks at once, their values are looked for on a grid finer by `Fine`.
  `GridAssumption` says how fine and how large this is for any number of clocks, and
  the proofs show that it is enough.
* `MaxBound` in `Zones` stops a zone from being operated on when its constants
  have grown beyond it: the result is checked, and then the zone starts again. The
  constants grow with every increment, without a limit in the code.
* Handles: two handles and `dbm1x1` share a block in every way that two can, and three of
  them when a dimension is 1. `Address` has one block more than
  handles, the one that is written while the old one is read. `MaxLost` bounds the
  references that resizing has lost, each of which keeps a block for good. Handles are
  symmetric, but for `dbm1x1`.
* Minimal graphs: with the reference clock and two others a class can have one, two or all
  three clocks, and an edge can be implied through the third. `IntBits` is 32 in the code;
  with it couples are never shorter than a bit matrix for three clocks, so the run packs its
  bits into ints of 4 bits, with which each of the three forms is the shortest for some zone.
* Federations: the zones of the pool touch with and without their borders, overlap, contain
  one another, have convex unions in pairs or only all together, or leave a hole; one is a
  line, one has no upper bounds. Every branch of `convexReduce` and `expensiveConvexReduce` is taken in the run. A third
  zone in the federation is what makes a merge at levels 1 and 2 and `convexReduce` differ
  from comparing pairs; operations with an argument are applied to federations of at most two
  zones (`MaxOperand`), since they treat the zones one after the other. `predt` is restricted
  to one of four zones (`Restrictions`), one of which contains all bounded ones;
  `IncludedInPredtSound` takes federations with `MaxSize + 1` zones in total. Valuations are
  compared up to `Horizon`, above all constants; delays by steps of half the grid.

Deadlock checking is off for the runs of `DbmClose` only, where a call ends.

## Proofs

Four components have theorems, proved for every value of the constants that satisfies the
assumptions in their modules: the closing functions row by row, a zone under any sequence of
calls, the extrapolations in an exploration, and the handles that share matrices, with the
loops that they run on a matrix that is shared.

| module | theorem | states |
|---|---|---|
| `DbmCloseProofs` | `TypeCorrect` | `TypeOK`: the entries stay between `MinSum` and `dbm_LS_INFINITY` |
| | `PassInvariantHolds` | `PassInvariant`: the inductive invariant of the algorithm |
| | `ReturnsClosed`, `SolutionsPreserved`, `EmptyDetected` | `ClosedOnReturn`, `SameSolutions`, `EmptyIsRight` |
| | `ClosureImplemented` | `ImplementsClosure`: the refinement of `Closure` |
| `ZonesProofs` | `Closedness` | `Inv`: the inductive invariant of a zone between and after calls |
| | `AlwaysCanonical` | `Canonical`: `dbm_isValid` after every call |
| | `AlwaysConstrainExact`, `AlwaysDelayExact`, `AlwaysFreeExact`, `AlwaysUpdateExact`, `AlwaysClocksExact`, `AlwaysRelaxExact` | the property in the name: what a call means for valuations |
| | `AlwaysTestsExact` | `TestsExact`: what a test says of valuations |
| `ExtrapolationProofs` | `Extrapolating` | `Inv`: the inductive invariant of an exploration |
| | `ConstantsBounded` | `TypeOK`: the constants do not grow with the path |
| | `AlwaysCanonical` | `Canonical`: an extrapolated zone is closed and not empty |
| | `AlwaysEqualsReference` | `EqualsReference`: it is the definition, closed in full |
| | `AlwaysCoarser` | `Coarser`: the order of the four extrapolations |
| `DbmSharingProofs` | `SharingCorrect` | `SharingInvariant`: the inductive invariant of the handles |
| | `CountsExact` | `RefCounts`: a count is the number of handles and of references lost so far. So no handle has a freed block, a block that is written in place has one handle, and a block outlives its last handle only if a reference to it was overwritten |
| | `TableCorrect`, `GraphsFresh` | `TableConsistent`, `MinGraphFresh` |
| | `Refinement`, `EachCallCorrect` | `ImplementsValues`, `CallsMeanValues` |
| `SharedWritesProofs` | `HandlesAgree` | `HandleInv`: `Inv` of `Zones`, with `intersectionAxis` and `driftWiden` among the calls, and the two properties |
| | `AlwaysSameResult`, `AlwaysCopiesOnlyChanges` | `SameResult`, `CopiesOnlyChanges` |
| | `HandlesCanonical` | `Canonical`, with the calls of `dbm_t` |

### The closing functions

The assumptions are those of the modules: `dim` is a positive number, the values
are valid raws, the points have integer coordinates.

`PassInvariant` is needed because closedness is not inductive. During the pass for
`k`, the rows that are done are tight for paths through `k` and the others are not,
and the paths through clocks that had their pass before may be broken in between.
What holds at every step is that the matrix *as the pass for `k` will leave it*,
`PassVia(dbm, k)`, is tight for every clock that is not waiting, and that the rows
done so far are rows of that matrix. Tightness has to be the stronger
`ShortcutVia`, which also says that a bound is finite when a path bounds it:
`dbm_isClosed` skips infinite operands, so it is weaker. The step from one pass to
the next is the lemma that tightening through `k` keeps tightness through every
earlier clock, and rests on the arithmetic of raws in `DbmLemmas`: addition
of raws is monotone and associative, and agrees with addition of bounds on
valuations.

`ClosureImplemented` says that the three functions refine `Closure`. It takes two more
invariants, one for the values of the bounds and one for their size.

*Values.* `BoundsAreWalks`: while a call runs, each finite bound of the matrix is the sum of
a walk along finite bounds of the input, and no bound was lost or loosened. A walk may visit
a clock twice, and its sum (`Sum`) is a raw that can be cut and joined at any place;
tightening an entry joins two walks (`WalksMeet`).

* `Return`: the matrix is closed, so it is no looser than any walk (`ClosedBelowWalk`), and
  no cycle is negative. The walk of a bound can therefore be cut at each clock it visits
  twice until it is one of the simple paths of `Closure` (`SimpleWalk`), and the bound is
  the least weight (`PathAttains`, `TightestIs`).
* `ExitEmpty`: the negative diagonal entry is the sum of a walk back to its clock. Of the
  walks that return to their start with a negative sum, a shortest visits no other clock
  twice, which makes it a cycle of `Closure` (`NegativeCycleOfWalk`).
* `Weight` of `Closure` adds with `dbm_addRawRaw`, for which a partial sum that is
  `dbm_LS_INFINITY` by accident would end the path. In a simple path of a closed matrix the
  lemma `PathAttains` excludes that by the order of the bounds; a negative cycle is turned
  to start where its partial sums are greatest, and then none of them is positive
  (`TurnedWalk`).

*Size.* `EntriesAreShort`: if no constant reaches `dbm_LE_OVERFLOW / dim`, every entry is the
weight of a path through distinct clocks, each of which had its pass or needs none (`Spread`).
A pass in progress is described by the matrix it began with (`InPass`), since a half-done pass
is not spread; at its end `SpreadPass` applies, because no diagonal entry turned negative.
A path over distinct clocks has fewer than `dim` edges, so the operands of every sum are valid
raws and the assertion of `dbm_addFiniteFinite` cannot fail (`AssertsOnLarge`).

### A zone under any sequence of calls

`Canonical` is not inductive: it says nothing of the matrix that the next call gets, nothing
of the size of its constants, and `dbm_isClosed` is the weak form of closedness. `Inv`
strengthens it: the zone that is operated on is a zone below `Before`, its bounds are within
`MaxBound`, and the result is `Empty` or a zone below `After`, where

    IsZone(D, B) ==   D is a matrix of integers up to infinity, Closed(D),
                      -B < every finite entry < B, and no clock is negative

with `Closed` the strong form. The two bounds are needed for the assertions of
`dbm_addFiniteFinite`: an operation must not leave the range in which sums fit, and the
closing functions add along paths. The assumption `RoomAssumption`,
`(dim + 2) * (2 * MaxBound + 3) <= dbm_LE_OVERFLOW`, is what a caller has to grant.

* `ZoneLemmas` shows that the operations without a closure keep a zone. Most of them
  rename rows and columns, shift them, or forget them; they are instances of one lemma about
  a matrix that is *substituted* for another one (`SubstitutedIsZone`). The delays backwards
  and the relaxing of a clock compute minima over rows that they overwrite; for these a
  solution of the recursion is given explicitly and shown to be the one that the loop
  computes (`DownStopLowers`, `RelaxDownIsRelaxed`).
* `ClosingLemmas` shows that those with a closure leave the closure of the tightened matrix
  or find that it has no points: `dbm_close` and its relatives by the induction on passes
  that `PassInvariant` is about, `dbm_closeij` by showing that it computes the shortest paths
  through one edge, and `dbm_constrainN`, and `dbm_constrain` with the closure after it,
  by following what their flags say of the part of the matrix that is still closed.
* `ZonesProofs` puts them together, one lemma per action. What a call means comes from
  one fact about closed matrices, `Projection`: when all clocks but `k` fit each other, and
  `k` is allowed at the ends of an interval by the lower and the upper bounds respectively,
  some value of `k` within the interval fits them all. It is the least one that the lower
  bounds of `k` allow, and closedness is what makes it fit the upper ones. Delaying is moving
  the reference clock, so that `dbm_up` and `dbm_down` need nothing else.
* `ClocksExact` forgets several clocks at once, and `TestsExact` needs zones to *have*
  valuations: both rest on `PointExtends`. Clocks that fit each other extend to a point of
  the zone: each of the other clocks is put as low as the ones that are given let it, and
  above that by its rank, the number of the other clocks that it has to be strictly above
  (`Extension`). The given clocks are multiples of a step that no rank reaches. For a change of
  clocks they are the clocks that stay, and the step is that of `Valuations` on the grid finer
  by `Fine`; starting from the reference clock alone, a zone has a valuation (`SomeValuation`).
* A test compares bounds. That a bound is attained comes from adding a constraint: a zone
  has a valuation with `x_i - x_j` within `v` unless the opposite bound excludes it
  (`Satisfiable`), because `dbm_closeij` then leaves a zone, whose lower bounds are not too far
  below for the horizon (`LowerBounds`). `dbm_satisfies` is that lemma. If a bound of `D` is not
  smaller than that of `S`, the constraint opposite to the bound of `S` is satisfiable in `D`, and
  the valuation that satisfies it is not in `S`: so comparing bounds is comparing sets
  (`SubsetExact`), closed forms are unique (`SameZoneSameBounds`), and `dbm_relation` and the tests
  for equality follow.

The assumptions on the constants are the ranges that the code asserts or that the
specification of the grid needs; `Grid` is even because the valuations compared are even: a
strict lower bound has a point of the grid above it that is still below the next even point.
`GridAssumption` is about the valuations that the properties compare and says nothing of the
program: `Grid` and `Fine` make room for the ranks of `dim` clocks, and `Horizon` is beyond every
sum of constants along a path and the ranks.

### Extrapolations

None of the invariants is inductive: the next zone comes from an operation of `DbmOps` on the
extrapolated one, so it must be known that this is closed, and how large its constants are.
`Inv` says that `zone` is a zone below `Steps`, three times what an extrapolation can leave,
and that `dbm` is the extrapolation of it; that each step leads from a zone below
`Extrapolates` to one below `Steps` are the lemmas of `ZoneLemmas` and `ClosingLemmas` again.

* A reference (`Reference`, the definition in `EqualsReference`) *loosens* a zone: every entry
  is kept, raised to a constant of a table, or removed (`Loosened`). The zone is closed and
  below it, so its closure is not empty, and that closure is the *greatest* closed matrix below
  it (`GreatestBelow`, `LoosenedCloses`), of which there is one (`GreatestIsUnique`).
* Every extrapolation returns that matrix. A clock that `dbm_closeLU` leaves out has no finite
  entry in its row but those on the diagonal, so no path through it shortens anything
  (`InfiniteRow`, `ClosesIfChanged`). When `diff` stays false, what the diagonal loops leave is
  closed already (`NothingRemovedIsClosed`): the clocks that are beyond their constants have
  lost their rows, and no entry that was left needs them.
* `dbm_extrapolateLUBounds` does not compute its reference: for a clock `j` without an upper
  constant it copies column 0, as it has just been written, to column `j`, so that entries
  come out *below* the definition. `WrittenEntries` says which, `BelowReference` that nothing
  closed fits between the two, so that the greatest closed matrices are the same; and
  `NothingCutIsClosed` that a matrix in which `changed` stays false is the zone with columns
  copied, which is closed because those clocks have the bounds of the reference clock.
* `Coarser` follows: references that are ordered entry by entry (`ReferencesOrdered`) have
  ordered closures (`GreatestOrdered`). `ConstantsBounded` follows from what a closure can
  compute: a sum of at most `dim - 1` entries along a path (`BoundsOfPaths`).

### Handles

`SharingInvariant` adds to the properties of the runs what they rely on: the types, that a
block holds a zone of its dimension (`MatricesAreZones`), and that the allocator keeps its
handle on the 1x1 matrix (`AllocatorKeeps1x1`). `RefCounts` is why a write in place meets no
other handle, and `TableConsistent` needs it of every block that is freed, so that neither is
inductive alone. The proof is layered: lemmas about counting (how the number of handles on a
block changes when one moves), what a step that moves pointers does to counts, table and
graphs (`MoveStep`), what `incRef`, `decRef`, `setNew` and `setPtr` do, one lemma for each
shape of step (in place, copied, left, replaced, lost, interned, ...), and one for each call,
which shows the step of `DbmValues` and the invariant at once. The set of handles is any
finite set. `FreshBlock` is the pigeonhole argument behind `Address`: with one block more than
handles and nothing lost, there is always one to take. The lemmas before say what the
operations on zones of one clock return.

### The loops on a shared matrix

That two versions of an operation agree is not about reachable matrices, but about closed
ones: `ptr_down` skips a lower bound that is zero, and `ptr_freeClock` compares with the
bounds of the reference clock, because in a closed matrix nothing else can change. So the
proofs take any zone `D` below a bound `B` and show `Faithful`, once for each of the 18
operations that have a path of their own; `HandleInv` is inductive with nothing but the
invariant of `Zones`, once that is shown to survive the two calls that only `dbm_t` has.

* *Loops that look for a change first.* `Merged(D, R, at, n)` is the matrix when the loop has
  been at the index `n`: the result `R` at the entries that are written at `n` or before, and
  `D` at the others, where `at` says when an entry is written. `LoopIsFaithful` asks of a
  loop that its body leads from one of these matrices to the next (`Writes`), and that it
  stops at every index at which there is an entry to change (`Visits`); then it does not
  matter at which of them it began to write. What differs between the operations is why the
  entries that the body reads have the right value in `Merged`: they are in a row or column
  that it never writes, or were written with the value they had (`ptr_updateValue` reads the
  row 0 it has written, `ptr_relaxDownClock` the column).
* *Two nested loops* (`ptr_freeAllDown`, `ptr_convexUnion`, `ptr_relaxAll`) are one loop over
  the entries in their order (`EntryIndex`), which is why it may be entered in the middle.
* *Tightening.* The paths may test, count and close differently: `ptr_constrainN` compares all
  constraints with the old matrix, and closes once for all of them. Both paths leave the
  *greatest* closed matrix below the zone that obeys the constraints, or find that there is
  none (`ConstrainNGreatest`, `SomehowIsGreatest`), and there is only one (`GreatestIsOne`).
  The same argument shows that `intersectionAxis` is an intersection: below a zone, a closed
  matrix obeys `x_i - x_j <= 0` for the clocks but `x` exactly when it is below the matrix of
  the axis, since the bounds of `x_i - x` follow through the reference clock (`AxisBelow`).
* `driftWiden` tightens the lower bounds and loosens everything else. It is called on unbounded
  zones only, in which no path leads through the reference clock (`DriftWidenIsZone`).

### What is not proved

* *Liveness*: `Termination` holds under fairness, which is out of the prover's reach, as is
  `ENABLED`.
* `FedOps` consists of recursive operators over lists, and `MinGraph` needs
  `Bitwise`: both are out of the prover's reach.
* `Sound` relates an extrapolated zone to the one before by a simulation of valuations: for
  the grid of a run it needs the clocks' fractional parts, and stays with TLC.

## Not modelled

* **Handles.** `dbm_t::getMinDelay`, `getMaxDelay` and their relatives read a matrix and a
  point and change nothing. The free lists by dimension are one set of unused addresses.
* **Federations.** The reference count of a list and its copy before a write; `succt`,
  which is `predt` with the lower bounds exchanged for upper ones; `getValuation` and the
  delays, whose results are points in floating point; `resize`, `changeClocks` and
  `driftWiden`, which apply the operation of a zone to each zone.
* **Priced zones** (`priced.cpp`, `infimum.cpp`, `pfed.cpp`). A zone with an affine cost.
  The infimum is computed by a network flow with arbitrary rates; what it should be is a
  statement about real coordinates that a grid of valuations does not decide for the facets
  on which a cost is linear.
* **Partitions** (`partition.cpp`). A table from numbers to federations, shared and copied
  as the blocks of `dbm_t` are, over operations of federations that are modelled.
* **The cache of minimal graphs**, which no build enables, **generators** of random matrices
  for the tests, **printing** and **valuations**. The hash of a matrix is a number that only
  the table of the handles uses, and `dbm_copy` is an assignment.

What a continuation would take first: `Partition` over `Federation`; and the operations of
`FedOps` on lists rewritten as folds, so that `ZonesValid` can be proved from the lemmas about
zones.

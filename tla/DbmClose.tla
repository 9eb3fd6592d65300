------------------------------ MODULE DbmClose -------------------------------
(***************************************************************************)
(* The closure algorithms of src/dbm.c, one row of a pass at a time.       *)
(* dbm_close runs a pass of Floyd's algorithm for every clock k,           *)
(* dbm_closex for the touched clocks only, and dbm_close1 for one clock    *)
(* (dbm_constrainClock calls it for two clocks in turn).  A pass for k     *)
(* goes over the rows i, tightens row i with the paths through k, and      *)
(* stops the whole call as soon as a diagonal entry is negative.           *)
(*                                                                         *)
(* touched holds the clocks whose pass has not begun.  i = dim means that  *)
(* no pass is in progress.  The inner loop on j is one step: it writes     *)
(* only row i, reads row k, which its own pass never changes, and D[i][k], *)
(* which the code saves before the loop.                                   *)
(***************************************************************************)
EXTENDS Dbm

CONSTANTS
  Values,  \* the raws that occur in the matrix of a call
  Grid,    \* the points of the properties are multiples of 1 / Grid
  Points   \* the clock valuations that SameSolutions compares

ASSUME ValuesAssumption == Values \subseteq Raw
ASSUME GridAssumption == Grid \in Nat \ {0}
ASSUME PointsAssumption == Points \subseteq [Clk -> Int]

VARIABLES
  algo,     \* the function that was called
  input,    \* its matrix at the call (history, never read by the code)
  dbm,      \* the matrix, updated in place
  touched,  \* clocks still to run a pass for
  k,        \* clock of the current pass
  i,        \* next row of the current pass
  ret       \* "running", "closed" (true), "empty" (false), "overflow"

vars == <<algo, input, dbm, touched, k, i, ret>>

Pairs == {p \in Clk \X Clk : p[1] # p[2]}

\* The precondition of the three functions: the diagonal is "<= 0" and only
\* paths through touched clocks can tighten an entry.
Init ==
  /\ algo \in {"dbm_close", "dbm_closex", "dbm_close1"}
  /\ touched \in SUBSET Clk
  /\ algo = "dbm_close" => touched = Clk
  /\ \E f \in [Pairs -> Values] :
       input = [a \in Clk |-> [b \in Clk |->
                  IF a = b THEN dbm_LE_ZERO ELSE f[<<a, b>>]]]
  /\ \A c \in Clk \ touched : TightVia(input, c)
  /\ dbm = input
  /\ k = 0 /\ i = dim /\ ret = "running"

\* The assertions of dbm_addFiniteFinite on every sum that row a computes.
RowIsValid(D, a, c) ==
  D[a][c] # dbm_LS_INFINITY
    => /\ dbm_isValidRaw(D[a][c])
       /\ \A b \in Clk : dbm_isValidRaw(D[c][b])

\* The loop on k takes the touched clocks in increasing order.
StartPass ==
  /\ ret = "running" /\ i = dim
  /\ \E c \in touched :
       /\ \A other \in touched : c <= other
       /\ k' = c
       /\ touched' = touched \ {c}
  /\ i' = 0
  /\ UNCHANGED <<algo, input, dbm, ret>>

\* Mutant of SkipRow: the row index is not advanced before "continue".
SkipWithoutStep ==
  /\ ret = "running" /\ i < dim /\ i = k
  /\ UNCHANGED vars

\* Mutant of SkipRow: every row up to k is skipped.
SkipRowsUpToK ==
  /\ ret = "running" /\ i < dim /\ i <= k
  /\ i' = i + 1
  /\ UNCHANGED <<algo, input, dbm, touched, k, ret>>

\* Row k itself cannot change in the pass for k: the code skips it.
SkipRow ==
  /\ ret = "running" /\ i < dim /\ i = k
  /\ i' = i + 1
  /\ UNCHANGED <<algo, input, dbm, touched, k, ret>>

TightenRow ==
  /\ ret = "running" /\ i < dim /\ i # k
  /\ RowIsValid(dbm, i, k)
  /\ RowVia(dbm, i, k)[i] >= dbm_LE_ZERO
  /\ dbm' = [dbm EXCEPT ![i] = RowVia(dbm, i, k)]
  /\ i' = i + 1
  /\ UNCHANGED <<algo, input, touched, k, ret>>

\* Mutant of ExitEmpty: the zone is called empty as soon as a cycle weighs "<= 0".
ExitOnZeroCycle ==
  /\ ret = "running" /\ i < dim /\ i # k
  /\ RowIsValid(dbm, i, k)
  /\ RowVia(dbm, i, k)[i] <= dbm_LE_ZERO
  /\ dbm' = [dbm EXCEPT ![i] = RowVia(dbm, i, k), ![0][0] = -1]
  /\ ret' = "empty"
  /\ UNCHANGED <<algo, input, touched, k, i>>

\* The early exit: dbm_close and dbm_close1 also mark the matrix at dbm[0,0].
ExitEmpty ==
  /\ ret = "running" /\ i < dim /\ i # k
  /\ RowIsValid(dbm, i, k)
  /\ RowVia(dbm, i, k)[i] < dbm_LE_ZERO
  /\ LET tightened == [dbm EXCEPT ![i] = RowVia(dbm, i, k)]
     IN  dbm' = IF algo = "dbm_closex" THEN tightened
                ELSE [tightened EXCEPT ![0][0] = -1]
  /\ ret' = "empty"
  /\ UNCHANGED <<algo, input, touched, k, i>>

\* An operand of an addition is not a valid raw: the assertion of
\* dbm_addFiniteFinite fails and nothing more is said of the result.
AssertRaw ==
  /\ ret = "running" /\ i < dim /\ i # k
  /\ ~RowIsValid(dbm, i, k)
  /\ ret' = "overflow"
  /\ UNCHANGED <<algo, input, dbm, touched, k, i>>

\* Mutant of Return: the loop on k stops before the last clock.
ReturnBeforeLastClock ==
  /\ ret = "running" /\ i = dim /\ touched \subseteq {dim - 1}
  /\ ret' = "closed"
  /\ UNCHANGED <<algo, input, dbm, touched, k, i>>

Return ==
  /\ ret = "running" /\ i = dim /\ touched = {}
  /\ ret' = "closed"
  /\ UNCHANGED <<algo, input, dbm, touched, k, i>>

Next == StartPass \/ SkipRow \/ TightenRow \/ ExitEmpty \/ AssertRaw \/ Return

\* The call runs to its end: nothing else runs in this library.
Spec == Init /\ [][Next]_vars /\ WF_vars(Next)

-----------------------------------------------------------------------------

\* The smallest raw that two valid operands can add up to: int32_t holds it,
\* so no addition of an asserted pair wraps around.
MinSum == -2 * (dbm_LE_OVERFLOW - 1)

\* Type invariant; that the entries stay in MinSum .. dbm_LS_INFINITY is the
\* claim of the comment on dbm_isValidRaw: additions of valid raws fit in raw_t.
TypeOK ==
  /\ algo \in {"dbm_close", "dbm_closex", "dbm_close1"}
  /\ input \in Matrix
  /\ dbm \in [Clk -> [Clk -> MinSum .. dbm_LS_INFINITY]]
  /\ touched \in SUBSET Clk
  /\ k \in Clk /\ i \in 0 .. dim
  /\ ret \in {"running", "closed", "empty", "overflow"}

PassIsValid(D, c) == \A a \in Clk \ {c} : RowIsValid(D, a, c)

\* Why the algorithm works: between passes, no path through a clock that is not
\* waiting for its pass shortens an entry.  During the pass for k that is broken,
\* but the matrix the pass will end with has it (if no assertion fails), and the
\* rows done so far are the rows of that matrix.
PassInvariant ==
  /\ ret \in {"running", "closed"} =>
       /\ ZeroDiagonal(dbm)
       /\ i = dim => \A c \in Clk \ touched : ShortcutVia(dbm, c)
       /\ i < dim =>
            /\ ret = "running" /\ k \notin touched
            /\ \A a \in (0 .. i - 1) \ {k} :
                 RowIsValid(dbm, a, k) /\ RowVia(dbm, a, k) = dbm[a]
            /\ PassIsValid(dbm, k) =>
                 \A c \in Clk \ touched : ShortcutVia(PassVia(dbm, k), c)
  /\ ret = "closed" => touched = {}

\* A call that returns true leaves the matrix closed with "<= 0" on the diagonal,
\* although dbm_closex and dbm_close1 run a pass for some of the clocks only.
ClosedOnReturn ==
  ret = "closed" => dbm_isClosed(dbm) /\ ZeroDiagonal(dbm)

\* At every step the matrix describes the zone of the matrix of the call.
SameSolutions ==
  \A pt \in Points :
    dbm_isRealPointIncluded(pt, input, Grid)
      <=> dbm_isRealPointIncluded(pt, dbm, Grid)

\* A call that returns false was given an empty zone, and leaves a matrix in
\* which dbm_isEmpty sees it (dbm_closex does not mark dbm[0,0]).
EmptyIsRight ==
  ret = "empty" =>
    /\ dbm_isEmpty(dbm)
    /\ \A pt \in Points : ~dbm_isRealPointIncluded(pt, input, Grid)

\* The call returns (or its assertion fails).
Termination == <>(ret # "running")

\* The algorithm implements the specification of the closure: the result is the
\* matrix of shortest paths, false is returned for a negative cycle and nothing
\* else, and no sum overflows unless a constant is at least dbm_LE_OVERFLOW / dim.
Abstract == INSTANCE Closure WITH
  Inputs <- Matrix,
  dbm <- IF ret = "running" THEN input ELSE dbm

ImplementsClosure == Abstract!Spec

=============================================================================

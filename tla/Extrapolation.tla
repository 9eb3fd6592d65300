---------------------------- MODULE Extrapolation ----------------------------
(***************************************************************************)
(* The extrapolations of src/dbm.c, in the loop they are written for: the  *)
(* exploration of a timed automaton.  A step constrains, resets, frees or  *)
(* delays the zone, and the result is extrapolated with the largest        *)
(* constants that lower and upper bounds of each clock are compared with.  *)
(* Nothing else bounds the constants of the zones, as in the tools.        *)
(***************************************************************************)
EXTENDS DbmOps

CONSTANTS
  Raws,    \* raws of the guards
  Bounds,  \* the pairs [lower, upper] of tables: Clk -> {-dbm_INFINITY} \cup Nat
  Grid     \* the valuations are multiples of 1 / Grid

ASSUME RawsAssumption == Raws \subseteq Raw \ {dbm_LS_INFINITY}
ASSUME BoundsAssumption ==
  \A b \in Bounds :
    /\ b.lower[0] = 0 /\ b.upper[0] = 0
    /\ \A k \in Clk \ {0} : /\ b.lower[k] \in {-dbm_INFINITY} \cup Nat
                            /\ b.upper[k] \in {-dbm_INFINITY} \cup Nat
ASSUME GridAssumption == Grid \in Nat \ {0}

\* What the largest constant is taken of, with tables low and up.
ConstantsOf(low, up) ==
  {dbm_raw2bound(raw) : raw \in Raws} \cup {-dbm_raw2bound(raw) : raw \in Raws}
    \cup {low[k] : k \in Clk} \cup {up[k] : k \in Clk}

\* The sums along the paths of an extrapolated zone, and of what a step does to it, fit
\* in raw_t, which the closing functions assert of every sum.
ASSUME RoomAssumption ==
  \A b \in Bounds : \A c \in ConstantsOf(b.lower, b.upper) :
    c >= 0 => 12 * (dim + 1) * (c + 1) <= dbm_LE_OVERFLOW

VARIABLES
  algo,   \* the extrapolation that the exploration uses
  lower,  \* its tables; one table "max" is lower = upper
  upper,
  zone,   \* the zone before the extrapolation
  dbm     \* and after it

vars == <<algo, lower, upper, zone, dbm>>

-----------------------------------------------------------------------------

\* Mutant of dbm_closeLU: the reference clock is left out as well.
closeLUNotReference(D, low, up) ==
  CloseVia(D, {k \in Clk \ {0} : low[k] # -dbm_INFINITY \/ up[k] # -dbm_INFINITY})

\* dbm_close without the clocks that no bound concerns; it asserts that D is not empty.
dbm_closeLU(D, low, up) ==
  CloseVia(D, {k \in Clk : low[k] # -dbm_INFINITY \/ up[k] # -dbm_INFINITY})

\* The lower bound of a clock beyond its table entry: "> up", or none at all.
LowerBeyond(up, j) ==
  IF up[j] >= 0 THEN dbm_bound2raw(-up[j], dbm_STRICT) ELSE dbm_LE_ZERO

FirstRow(D, up) ==
  [j \in Clk |-> IF j # 0 /\ dbm_raw2bound(D[0][j]) < -up[j]
                 THEN LowerBeyond(up, j) ELSE D[0][j]]

\* Mutant of Loose: a bound equal to the table entry is removed too.
looseAtBound(D, low, i, j) ==
  dbm_raw2bound(D[i][j]) >= low[i] /\ dbm_raw2bound(D[i][j]) # dbm_INFINITY

\* Mutant of Loose: the differences between clocks are kept.
looseUpperBoundsOnly(D, low, i, j) ==
  j = 0 /\ dbm_raw2bound(D[i][j]) > low[i] /\ dbm_raw2bound(D[i][j]) # dbm_INFINITY

\* The upper bound or difference D[i][j] is finite and beyond the table entry of i.
Loose(D, low, i, j) ==
  dbm_raw2bound(D[i][j]) > low[i] /\ dbm_raw2bound(D[i][j]) # dbm_INFINITY

\* Column 0 of a row is written before the entries that copy it.
dbm_extrapolateLUBounds(D, low, up) ==
  LET Cut(i, j) ==
        IF Loose(D, low, i, j) THEN dbm_LS_INFINITY
        ELSE IF dbm_raw2bound(D[i][j]) < -up[j]
             THEN dbm_bound2raw(-up[j], dbm_STRICT) ELSE D[i][j]
      E == [i \in Clk |->
              IF i = 0 THEN FirstRow(D, up)
              ELSE [j \in Clk |-> IF i = j THEN D[i][j]
                                  ELSE IF up[j] = -dbm_INFINITY THEN Cut(i, 0)
                                  ELSE Cut(i, j)]]
      changed ==
        \/ \E j \in Clk \ {0} :
             dbm_raw2bound(D[0][j]) < -up[j] /\ up[j] > -dbm_INFINITY
        \/ \E i \in Clk \ {0}, j \in Clk :
             /\ i # j /\ up[j] # -dbm_INFINITY
             /\ IF Loose(D, low, i, j) THEN low[i] > -dbm_INFINITY
                ELSE dbm_raw2bound(D[i][j]) < -up[j]
  IN  IF changed THEN dbm_closeLU(E, low, up) ELSE E

\* The same loops with one table.
dbm_extrapolateMaxBounds(D, max) == dbm_extrapolateLUBounds(D, max, max)

\* Mutant of dbm_diagonalExtrapolateMaxBounds: only the rows are removed.
diagonalMaxRowsOnly(D, max) ==
  dbm_closeLU([i \in Clk |->
                 IF i = 0 THEN FirstRow(D, max)
                 ELSE [j \in Clk |->
                         IF i # j /\ \/ dbm_raw2bound(D[0][i]) < -max[i]
                                     \/ Loose(D, max, i, j)
                         THEN dbm_LS_INFINITY ELSE D[i][j]]], max, max)

\* A clock beyond its constant loses its row and column as its turn comes; diff
\* misses the entries that the turn of an earlier clock has already removed.
dbm_diagonalExtrapolateMaxBounds(D, max) ==
  LET Beyond(i) == i # 0 /\ dbm_raw2bound(D[0][i]) < -max[i]
      E == [i \in Clk |->
              IF i = 0 THEN FirstRow(D, max)
              ELSE [j \in Clk |->
                      IF i # j /\ (Beyond(i) \/ Beyond(j) \/ Loose(D, max, i, j))
                      THEN dbm_LS_INFINITY ELSE D[i][j]]]
      diff ==
        \E i \in Clk \ {0}, j \in Clk :
          /\ i # j /\ D[i][j] # dbm_LS_INFINITY
          /\ \/ Beyond(j) /\ ~(i < j /\ Beyond(i))
             \/ ~Beyond(i) /\ Loose(D, max, i, j)
  IN  IF diff THEN dbm_closeLU(E, max, max) ELSE E

\* Mutant of dbm_diagonalExtrapolateLUBounds: the first row is updated first, and
\* the tests on the lower bounds of the clocks read the new row.
diagonalLUFirstRowFirst(D, low, up) ==
  LET F == [D EXCEPT ![0] = FirstRow(D, up)]
      E == [i \in Clk |->
              IF i = 0 THEN F[0]
              ELSE [j \in Clk |->
                      IF i # j /\ \/ dbm_raw2bound(F[0][i]) < -low[i]
                                  \/ dbm_raw2bound(F[i][j]) > low[i]
                                  \/ dbm_raw2bound(F[0][j]) < -up[j]
                      THEN dbm_LS_INFINITY ELSE D[i][j]]]
  IN  dbm_closeLU(E, low, up)

\* The first row, which the tests read, is updated last.
dbm_diagonalExtrapolateLUBounds(D, low, up) ==
  LET Beyond(i) == dbm_raw2bound(D[0][i]) < -low[i]
      Removed(i, j) ==
        \/ Beyond(i)
        \/ dbm_raw2bound(D[i][j]) > low[i]
        \/ dbm_raw2bound(D[0][j]) < -up[j]
      E == [i \in Clk |->
              IF i = 0 THEN FirstRow(D, up)
              ELSE [j \in Clk |->
                      IF i # j /\ Removed(i, j) THEN dbm_LS_INFINITY ELSE D[i][j]]]
      diff ==
        \E i \in Clk \ {0}, j \in Clk :
          i # j /\ ~Beyond(i) /\ Removed(i, j) /\ D[i][j] # dbm_LS_INFINITY
  IN  IF diff THEN dbm_closeLU(E, low, up) ELSE E

Extrapolated(a, D, low, up) ==
  CASE a = "dbm_extrapolateMaxBounds" -> dbm_extrapolateMaxBounds(D, low)
    [] a = "dbm_diagonalExtrapolateMaxBounds" ->
         dbm_diagonalExtrapolateMaxBounds(D, low)
    [] a = "dbm_extrapolateLUBounds" -> dbm_extrapolateLUBounds(D, low, up)
    [] a = "dbm_diagonalExtrapolateLUBounds" ->
         dbm_diagonalExtrapolateLUBounds(D, low, up)

-----------------------------------------------------------------------------

MaxAlgos == {"dbm_extrapolateMaxBounds", "dbm_diagonalExtrapolateMaxBounds"}
LUAlgos == {"dbm_extrapolateLUBounds", "dbm_diagonalExtrapolateLUBounds"}

Init ==
  /\ algo \in MaxAlgos \cup LUAlgos
  /\ \E b \in Bounds : lower = b.lower /\ upper = b.upper
  /\ algo \in MaxAlgos => lower = upper
  /\ zone = dbm_zero
  /\ dbm = Extrapolated(algo, dbm_zero, lower, upper)

\* Z is the zone after a transition of the automaton; an empty one ends its path.
Reach(Z) ==
  /\ Z # Empty
  /\ zone' = Z
  /\ dbm' = Extrapolated(algo, Z, lower, upper)
  /\ UNCHANGED <<algo, lower, upper>>

Guard ==
  \E i, j \in Clk, raw \in Raws :
    i # j /\ Reach(dbm_constrain1(dbm, [i |-> i, j |-> j, value |-> raw]))

ResetClock == \E k \in Clk \ {0} : Reach(dbm_updateValue(dbm, k, 0))

FreeClock == \E k \in Clk \ {0} : Reach(dbm_freeClock(dbm, k))

Delay == Reach(dbm_up(dbm))

Next == Guard \/ ResetClock \/ FreeClock \/ Delay

Spec == Init /\ [][Next]_vars

-----------------------------------------------------------------------------

\* The largest constant of the guards and the tables.
Largest ==
  CHOOSE c \in ConstantsOf(lower, upper) : \A d \in ConstantsOf(lower, upper) : d <= c

\* Type invariant, and why the exploration ends: the constants of the extrapolated
\* zones do not grow, however long the path of the automaton is.  The closure adds them
\* up along a path, so a lower bound can get below every constant too.
TypeOK ==
  /\ zone \in Matrix
  /\ \A i, j \in Clk :
       \/ dbm[i][j] = dbm_LS_INFINITY
       \/ dbm_raw2bound(dbm[i][j]) \in -((dim - 1) * Largest) .. (dim - 1) * Largest

\* An extrapolated zone is closed and not empty, although some bounds are changed
\* without a closure and the closure skips clocks.
Canonical == dbm_isValid(dbm)

\* What the extrapolations compute by definition, closed in full, is what they
\* return; diff and changed never lose a closure that was needed.
EqualsReference ==
  LET Out(i, table) == dbm_raw2bound(zone[0][i]) < -table[i]
      diagonal == algo \in {"dbm_diagonalExtrapolateMaxBounds",
                            "dbm_diagonalExtrapolateLUBounds"}
      reference ==
        [i \in Clk |-> IF i = 0 THEN FirstRow(zone, upper) ELSE [j \in Clk |->
           IF i = j THEN zone[i][j]
           ELSE IF \/ dbm_raw2bound(zone[i][j]) > lower[i]
                   \/ diagonal /\ (Out(i, lower) \/ Out(j, upper))
           THEN dbm_LS_INFINITY
           ELSE IF ~diagonal /\ dbm_raw2bound(zone[i][j]) < -upper[j]
           THEN IF upper[j] >= 0 THEN dbm_bound2raw(-upper[j], dbm_STRICT)
                ELSE dbm_LS_INFINITY
           ELSE zone[i][j]]]
  IN  dbm = dbm_close(reference)

\* An extrapolation only adds valuations, and each is coarser than the one that
\* test_extrapolation.c puts before it.
Coarser ==
  LET max == [k \in Clk |-> RawMax(lower[k], upper[k])]
      m == dbm_extrapolateMaxBounds(zone, max)
      lu == dbm_extrapolateLUBounds(zone, lower, upper)
      dm == dbm_diagonalExtrapolateMaxBounds(zone, max)
      dlu == dbm_diagonalExtrapolateLUBounds(zone, lower, upper)
  IN  /\ dbm_isSubsetEq(zone, dbm)
      /\ dbm_isSubsetEq(zone, m)
      /\ dbm_isSubsetEq(m, lu) /\ dbm_isSubsetEq(lu, dlu)
      /\ dbm_isSubsetEq(m, dm) /\ dbm_isSubsetEq(dm, dlu)
      /\ dm = dbm_diagonalExtrapolateLUBounds(zone, max, max)

Valuations == {pt \in [Clk -> 0 .. (Largest + 2) * Grid] : pt[0] = 0}

In(pt, D) == dbm_isRealPointIncluded(pt, D, Grid)

\* The simulators of pt in D, in units of 1 / Grid: how[k] says whether clock k keeps
\* its value, or was smaller but above its lower constant, or was larger.
Simulators(pt, D, how) ==
  LET Upper(k) ==
        CASE how[k] = "same" -> dbm_bound2raw(pt[k], dbm_WEAK)
          [] how[k] = "smaller" -> dbm_bound2raw(pt[k], dbm_STRICT)
          [] how[k] = "larger" -> dbm_LS_INFINITY
      Lower(k) ==
        CASE how[k] = "same" -> dbm_bound2raw(-pt[k], dbm_WEAK)
          [] how[k] = "smaller" -> IF lower[k] = -dbm_INFINITY THEN dbm_LE_ZERO
                                   ELSE dbm_bound2raw(-lower[k] * Grid, dbm_STRICT)
          [] how[k] = "larger" -> dbm_bound2raw(-pt[k], dbm_STRICT)
      Scaled(raw) == IF raw = dbm_LS_INFINITY THEN raw
                     ELSE dbm_bound2raw(dbm_raw2bound(raw) * Grid, raw % 2)
      Box(i, j) == CASE i = j -> dbm_LE_ZERO
                     [] i # 0 /\ j = 0 -> Upper(i)
                     [] i = 0 /\ j # 0 -> Lower(j)
                     [] OTHER -> dbm_LS_INFINITY
  IN  [i \in Clk |-> [j \in Clk |-> RawMin(Scaled(D[i][j]), Box(i, j))]]

\* The automaton cannot tell the added valuations: each is simulated by a valuation
\* of the zone, where a clock may differ only beyond the constants it is compared
\* with (Behrmann, Bouyer, Larsen and Pelanek's LU-preorder).
Sound ==
  \A pt \in Valuations :
    In(pt, dbm) /\ ~In(pt, zone) =>
      \E how \in [Clk \ {0} -> {"same", "smaller", "larger"}] :
        /\ \A k \in Clk \ {0} :
             how[k] = "larger" => \/ upper[k] = -dbm_INFINITY
                                  \/ pt[k] > upper[k] * Grid
        /\ dbm_close(Simulators(pt, zone, how)) # Empty

=============================================================================

--------------------------------- MODULE Dbm ---------------------------------
(***************************************************************************)
(* Difference bound matrices: the vocabulary of src/dbm.c and              *)
(* include/dbm/dbm.h that every other module shares.  A matrix D holds in  *)
(* D[i][j] the raw bound on x_i - x_j; clock 0 is the reference clock.     *)
(***************************************************************************)
EXTENDS Constraints

CONSTANT dim  \* number of clocks, the reference clock included

ASSUME DimAssumption == dim \in Nat \ {0}

Clk == 0 .. dim - 1

Matrix == [Clk -> [Clk -> Raw]]

RawMin(x, y) == IF x < y THEN x ELSE y
RawMax(x, y) == IF x < y THEN y ELSE x

\* D with "<= 0" on the diagonal.
WithZeroDiagonal(D) ==
  [i \in Clk |-> [j \in Clk |-> IF i = j THEN dbm_LE_ZERO ELSE D[i][j]]]

-----------------------------------------------------------------------------
(* The step of Floyd's algorithm that every closing function repeats. *)

\* Mutant of RowVia: D[a][b] takes the bound on x_c - x_a for the one on x_a - x_c.
RowViaTransposed(D, a, c) ==
  [b \in Clk |-> RawMin(D[a][b], dbm_addRawRaw(D[c][a], D[c][b]))]

\* Row a of D after the paths through c have tightened it.
RowVia(D, a, c) ==
  [b \in Clk |-> RawMin(D[a][b], dbm_addRawRaw(D[a][c], D[c][b]))]

\* D after the pass for clock c; row c cannot change in it.
PassVia(D, c) ==
  [a \in Clk |-> IF a = c THEN D[a] ELSE RowVia(D, a, c)]

-----------------------------------------------------------------------------
(* The tests of dbm.c. *)

dbm_isDiagonalOK(D) == \A i \in Clk : D[i][i] <= dbm_LE_ZERO

ZeroDiagonal(D) == \A c \in Clk : D[c][c] = dbm_LE_ZERO

dbm_isEmpty(D) == \E i \in Clk : D[i][i] < dbm_LE_ZERO

\* D[i][j] is no looser than the path from i to j through k.
TightVia(D, k) ==
  \A i, j \in Clk :
    D[i][k] < dbm_LS_INFINITY /\ D[k][j] < dbm_LS_INFINITY
      => D[i][j] <= dbm_addFiniteFinite(D[i][k], D[k][j])

\* TightVia, and the bound from a to b is finite when the path through c is.
ShortcutVia(D, c) ==
  \A a, b \in Clk :
    D[a][c] # dbm_LS_INFINITY /\ D[c][b] # dbm_LS_INFINITY
      => /\ D[a][b] # dbm_LS_INFINITY
         /\ D[a][b] <= dbm_addFiniteFinite(D[a][c], D[c][b])

dbm_isClosed(D) == \A k \in Clk : TightVia(D, k)

dbm_isValid(D) ==
  /\ dbm_isClosed(D)
  /\ ~dbm_isEmpty(D)
  /\ \A j \in Clk : D[0][j] <= dbm_LE_ZERO

\* dbm_isPointIncluded: pt is an integer point.
dbm_isPointIncluded(pt, D) ==
  \A i, j \in Clk : dbm_bound2raw(pt[i] - pt[j], dbm_WEAK) <= D[i][j]

\* dbm_isRealPointIncluded: clock i of the point is pt[i] / g.
dbm_isRealPointIncluded(pt, D, g) ==
  \A i, j \in Clk : Within(pt[i] - pt[j], D[i][j], g)

=============================================================================

------------------------- MODULE ExtrapolationProofs --------------------------
(***************************************************************************)
(* The theorems of Extrapolation.  An extrapolation loosens the entries of *)
(* a zone one by one, and returns the greatest closed matrix below what    *)
(* comes out, although it runs the closure on some clocks only or not at   *)
(* all.  The zone is closed and below it, so the result is not empty; and  *)
(* its constants are sums of those of the tables.                          *)
(***************************************************************************)
EXTENDS Extrapolation, ClosingLemmas

-----------------------------------------------------------------------------
(* Zones and tables. *)

\* Tables with constants up to L, and room for what is computed with them.
AreTables(low, up, L) ==
  /\ L \in Nat /\ 12 * (dim + 1) * (L + 1) <= dbm_LE_OVERFLOW
  /\ 0 \in Clk /\ low[0] = 0 /\ up[0] = 0
  /\ \A k \in Clk : /\ low[k] = -dbm_INFINITY \/ low[k] \in 0 .. L
                    /\ up[k] = -dbm_INFINITY \/ up[k] \in 0 .. L

\* The constant of an entry, as the extrapolations read it.
bnd(D, i, j) == dbm_raw2bound(D[i][j])

\* Between what numbers the room puts the bounds of raws that are computed.
LEMMA RoomFor ==
  ASSUME NEW L \in Nat, 12 * (dim + 1) * (L + 1) <= dbm_LE_OVERFLOW
  PROVE  LET B == 2 * L + 2
             C == 2 * dim * L + 2
         IN  /\ B \in Nat /\ C \in Nat /\ (dim + 1) * B \in Nat
             /\ (dim + 1) * B <= dbm_LE_OVERFLOW
             /\ 3 * C <= dbm_LE_OVERFLOW /\ 6 * C <= dbm_LE_OVERFLOW
             /\ (dim - 1) * L \in Nat /\ L <= dim * L /\ (dim - 1) * L + L = dim * L
             /\ 2 * ((dim - 1) * L) + 1 < C /\ 2 * L + 1 < C /\ B <= C
             /\ L < dbm_LE_OVERFLOW
<1> DEFINE p == dim * L
<1>1. dim \in Nat /\ dim >= 1
  BY DimAssumption
<1>2. p \in Nat /\ (dim - 1) * L \in Nat /\ (dim - 1) * L + L = p
  BY <1>1
<1>3. L <= p
  BY <1>2
<1>4. 12 * (dim + 1) * (L + 1) = 12 * p + 12 * dim + 12 * L + 12
  BY <1>1
<1>5. 2 * dim * L = 2 * p /\ (dim + 1) * (2 * L + 2) = 2 * p + 2 * L + 2 * dim + 2
  BY <1>1
<1> HIDE DEF p
<1>6. 12 * p + 12 * dim + 12 * L + 12 <= dbm_LE_OVERFLOW
  BY <1>4
<1> QED
  BY <1>1, <1>2, <1>3, <1>5, <1>6, Infinity DEF p

\* The entries of a zone by their constants.
LEMMA ZoneBounds ==
  ASSUME NEW D, NEW A \in Nat, A <= dbm_LE_OVERFLOW, IsZone(D, A)
  PROVE  /\ \A i, j \in Clk : /\ bnd(D, i, j) \in Int
                              /\ 2 * bnd(D, i, j) <= D[i][j] /\ D[i][j] <= 2 * bnd(D, i, j) + 1
                              /\ bnd(D, i, j) <= dbm_INFINITY
                              /\ D[i][j] = dbm_LS_INFINITY <=> bnd(D, i, j) = dbm_INFINITY
                              /\ -dbm_INFINITY < bnd(D, i, j)
         /\ \A i \in Clk : D[i][i] = dbm_LE_ZERO /\ bnd(D, i, i) = 0
         /\ \A j \in Clk : D[0][j] <= dbm_LE_ZERO /\ bnd(D, 0, j) <= 0
<1>1. /\ \A i, j \in Clk : D[i][j] \in Int /\ D[i][j] <= dbm_LS_INFINITY
      /\ \A i, j \in Clk : D[i][j] # dbm_LS_INFINITY => -A < D[i][j] /\ D[i][j] < A
      /\ \A i \in Clk : D[i][i] = dbm_LE_ZERO
      /\ \A j \in Clk : D[0][j] <= dbm_LE_ZERO
      /\ 0 \in Clk
  BY ZoneEntries
<1>2. ASSUME NEW x \in Int, NEW b \in Int, b = dbm_raw2bound(x), x <= dbm_LS_INFINITY,
             x # dbm_LS_INFINITY => -A < x /\ x < A
      PROVE  /\ 2 * b <= x /\ x <= 2 * b + 1 /\ b <= dbm_INFINITY
             /\ x = dbm_LS_INFINITY <=> b = dbm_INFINITY
             /\ -dbm_INFINITY < b
             /\ x <= dbm_LE_ZERO => b <= 0
             /\ x = dbm_LE_ZERO => b = 0
  <2>1. x = 2 * b \/ x = 2 * b + 1
    BY <1>2, RawParts
  <2> QED
    BY <1>2, <2>1 DEF dbm_LS_INFINITY, dbm_INFINITY, dbm_LE_OVERFLOW, dbm_LE_ZERO
<1>3. \A i, j \in Clk : bnd(D, i, j) \in Int
  BY <1>1, RawParts DEF bnd
<1> QED
  BY <1>1, <1>2, <1>3 DEF bnd

\* In a zone no bound is below the lower bound of its column, or above the upper bound
\* of its row.
LEMMA ZoneOrder ==
  ASSUME NEW D, NEW A, IsZone(D, A), NEW i \in Clk, NEW j \in Clk
  PROVE  D[0][j] <= D[i][j] /\ D[i][j] <= D[i][0] /\ dbm_LE_ZERO <= D[i][0]
<1> DEFINE Sum(x, y) == dbm_addFiniteFinite(x, y)
<1>1. /\ \A k, l \in Clk : D[k][l] \in Int /\ D[k][l] <= dbm_LS_INFINITY
      /\ \A k \in Clk : D[k][k] = dbm_LE_ZERO
      /\ \A l \in Clk : D[0][l] <= dbm_LE_ZERO /\ D[0][l] # dbm_LS_INFINITY
      /\ \A k, l, m \in Clk : D[k][l] # dbm_LS_INFINITY /\ D[l][m] # dbm_LS_INFINITY
           => D[k][m] <= Sum(D[k][l], D[l][m])
      /\ 0 \in Clk
  BY ZoneEntries
<1>2. \A x, y \in Int : x <= dbm_LE_ZERO => Sum(x, y) <= y /\ Sum(y, x) <= y
  BY Infinity DEF dbm_addFiniteFinite, dbm_rawIsWeak
<1>3. \A x, y \in Int : Sum(x, y) \in Int
  BY AddParts
<1> HIDE DEF Sum
<1>4. ASSUME NEW m \in Clk PROVE D[0][m] <= D[i][m]
  <2>1. CASE D[i][m] = dbm_LS_INFINITY
    BY <1>1, <2>1
  <2>2. CASE D[i][m] # dbm_LS_INFINITY
    <3>1. D[0][m] <= Sum(D[0][i], D[i][m])
      BY <1>1, <2>2
    <3>2. Sum(D[0][i], D[i][m]) <= D[i][m] /\ Sum(D[0][i], D[i][m]) \in Int
      BY <1>1, <1>2, <1>3
    <3> QED
      BY <1>1, <3>1, <3>2
  <2> QED
    BY <2>1, <2>2
<1>5. D[i][j] <= D[i][0]
  <2>1. CASE D[i][0] = dbm_LS_INFINITY
    BY <1>1, <2>1
  <2>2. CASE D[i][0] # dbm_LS_INFINITY
    <3>1. D[i][j] <= Sum(D[i][0], D[0][j])
      BY <1>1, <2>2
    <3>2. Sum(D[i][0], D[0][j]) <= D[i][0] /\ Sum(D[i][0], D[0][j]) \in Int
      BY <1>1, <1>2, <1>3
    <3> QED
      BY <1>1, <3>1, <3>2
  <2> QED
    BY <2>1, <2>2
<1> QED
  BY <1>1, <1>4, <1>5

-----------------------------------------------------------------------------
(* What the loops of an extrapolation write, and what closing it gives. *)

\* E is a zone D with some entries loosened, and no constant above L.
Loosened(E, D, L) ==
  /\ E \in WideMatrix /\ ZeroDiagonal(E) /\ NoLooser(D, E)
  /\ \A j \in Clk : E[0][j] <= dbm_LE_ZERO
  /\ \A i, j \in Clk : E[i][j] # dbm_LS_INFINITY => bnd(E, i, j) \in -L .. L

\* X is the greatest closed matrix below E.
GreatestBelow(X, E) ==
  /\ X \in WideMatrix /\ Closed(X) /\ NoLooser(X, E)
  /\ \A F \in WideMatrix : Closed(F) /\ NoLooser(F, E) => NoLooser(F, X)

\* X is a zone that D is included in, with constants that are sums of dim - 1 of the tables.
Extends(X, D, L) ==
  /\ IsZone(X, 2 * dim * L + 2) /\ NoLooser(D, X)
  /\ \A i, j \in Clk :
       X[i][j] # dbm_LS_INFINITY => bnd(X, i, j) \in -((dim - 1) * L) .. (dim - 1) * L

\* A matrix with constants up to M is bounded by what is twice as large.
LEMMA BoundedByConstants ==
  ASSUME NEW E \in WideMatrix, NEW M \in Nat, NEW B \in Nat, 2 * M + 1 < B,
         \A i, j \in Clk : E[i][j] # dbm_LS_INFINITY => bnd(E, i, j) \in -M .. M
  PROVE  Bounded(E, B)
<1> SUFFICES ASSUME NEW i \in Clk, NEW j \in Clk, E[i][j] # dbm_LS_INFINITY
             PROVE  -B < E[i][j] /\ E[i][j] < B
  BY DEF Bounded
<1> DEFINE x == E[i][j]
           b == bnd(E, i, j)
<1>1. x \in Int /\ b \in Int /\ (x = 2 * b \/ x = 2 * b + 1)
  BY WideEntry, RawParts DEF bnd
<1>2. b \in -M .. M
  OBVIOUS
<1> HIDE DEF x, b
<1>3. -B < x /\ x < B
  BY <1>1, <1>2
<1> QED
  BY <1>3 DEF x

\* Closing it for some clocks, where the others shorten nothing.
LEMMA LoosenedCloses ==
  ASSUME NEW D, NEW A, IsZone(D, A), NEW L \in Nat,
         12 * (dim + 1) * (L + 1) <= dbm_LE_OVERFLOW,
         NEW E, Loosened(E, D, L), NEW touched \in SUBSET Clk,
         \A c \in Clk \ touched : ShortcutVia(E, c)
  PROVE  LET X == CloseVia(E, touched)
         IN  GreatestBelow(X, E) /\ Extends(X, D, L)
<1> DEFINE X == CloseVia(E, touched)
           B == 2 * L + 2
           C == 2 * dim * L + 2
           M == (dim - 1) * L
<1>1. /\ B \in Nat /\ C \in Nat /\ M \in Nat /\ (dim + 1) * B <= dbm_LE_OVERFLOW
      /\ 2 * M + 1 < C /\ 2 * L + 1 < B
  BY RoomFor
<1>2. /\ E \in WideMatrix /\ ZeroDiagonal(E) /\ NoLooser(D, E)
      /\ \A j \in Clk : E[0][j] <= dbm_LE_ZERO
      /\ \A i, j \in Clk : E[i][j] # dbm_LS_INFINITY => bnd(E, i, j) \in -L .. L
  BY DEF Loosened
<1>3. D \in WideMatrix /\ Closed(D)
  BY DEF IsZone
<1> HIDE DEF B, C, M
<1>4. Bounded(E, B)
  BY <1>1, <1>2, BoundedByConstants
<1>5. /\ X \in WideMatrix /\ Closed(X) /\ NoLooser(X, E) /\ NoLooser(D, X) /\ X # Empty
  BY <1>1, <1>2, <1>3, <1>4, CloseViaGreatest
<1>6. \A F \in WideMatrix : Closed(F) /\ NoLooser(F, E) => NoLooser(F, X)
  BY <1>1, <1>2, <1>4, CloseViaGreatest
<1>7. GreatestBelow(X, E)
  BY <1>5, <1>6 DEF GreatestBelow
<1>8. Spread(X, touched, BoundsWithin(L))
  <2>1. ASSUME NEW i \in Clk, NEW j \in Clk, E[i][j] # dbm_LS_INFINITY
        PROVE  <<E[i][j], 1>> \in BoundsWithin(L)
    <3>1. E[i][j] \in Int /\ dbm_raw2bound(E[i][j]) \in -L .. L
      BY <1>2, <2>1, WideEntry DEF bnd
    <3>2. 1 * L = L
      OBVIOUS
    <3> QED
      BY <3>1, <3>2 DEF BoundsWithin
  <2>2. Additive(BoundsWithin(L))
    BY WeightsAdd
  <2> QED
    BY <1>1, <1>2, <1>4, <1>5, <2>1, <2>2, CloseViaSpreads
<1> HIDE DEF X
<1>9. \A i, j \in Clk : X[i][j] # dbm_LS_INFINITY => bnd(X, i, j) \in -M .. M
  BY <1>5, <1>8, BoundsOfPaths DEF bnd, M, Closed
<1>10. Bounded(X, C)
  BY <1>1, <1>5, <1>9, BoundedByConstants
<1>11. \A j \in Clk : X[0][j] <= dbm_LE_ZERO
  <2> TAKE j \in Clk
  <2>1. 0 \in Clk
    BY DimAssumption DEF Clk
  <2>2. X[0][j] <= E[0][j] /\ E[0][j] <= dbm_LE_ZERO /\ X[0][j] \in Int /\ E[0][j] \in Int
    BY <1>2, <1>5, <2>1, WideEntry DEF NoLooser
  <2> QED
    BY <2>2, Infinity
<1>12. Extends(X, D, L)
  BY <1>5, <1>9, <1>10, <1>11 DEF Extends, IsZone, C, M
<1> QED
  BY <1>7, <1>12 DEF X

\* Where it is closed as it is, no closing is needed.
LEMMA LoosenedClosed ==
  ASSUME NEW D, NEW L \in Nat, 12 * (dim + 1) * (L + 1) <= dbm_LE_OVERFLOW,
         NEW E, Loosened(E, D, L), Closed(E)
  PROVE  GreatestBelow(E, E) /\ Extends(E, D, L)
<1> DEFINE C == 2 * dim * L + 2
           M == (dim - 1) * L
<1>1. /\ C \in Nat /\ M \in Nat /\ 2 * M + 1 < C
  BY RoomFor
<1>2. /\ E \in WideMatrix /\ ZeroDiagonal(E) /\ NoLooser(D, E)
      /\ \A j \in Clk : E[0][j] <= dbm_LE_ZERO
      /\ \A i, j \in Clk : E[i][j] # dbm_LS_INFINITY => bnd(E, i, j) \in -L .. L
  BY DEF Loosened
<1>3. GreatestBelow(E, E)
  <2>1. NoLooser(E, E)
    BY <1>2, WideEntry DEF NoLooser
  <2> QED
    BY <1>2, <2>1 DEF GreatestBelow
<1>4. ASSUME NEW i \in Clk, NEW j \in Clk, E[i][j] # dbm_LS_INFINITY
      PROVE  bnd(E, i, j) \in -M .. M
  <2>1. CASE i = j
    <3>1. bnd(E, i, j) = 0
      BY <1>2, <2>1 DEF bnd, ZeroDiagonal, dbm_raw2bound, dbm_LE_ZERO
    <3> HIDE DEF M
    <3> QED
      BY <1>1, <3>1
  <2>2. CASE i # j
    <3>1. dim - 1 \in Nat /\ 1 <= dim - 1
      BY <2>2, DimAssumption DEF Clk
    <3>2. 1 * L = L /\ 1 * L <= M
      BY <3>1, Multiples
    <3>3. bnd(E, i, j) \in -L .. L
      BY <1>2, <1>4
    <3> HIDE DEF M
    <3> QED
      BY <1>1, <3>2, <3>3
  <2> QED
    BY <2>1, <2>2
<1> HIDE DEF C, M
<1>5. Bounded(E, C)
  BY <1>1, <1>2, <1>4, BoundedByConstants
<1>6. Extends(E, D, L)
  BY <1>2, <1>4, <1>5 DEF Extends, IsZone, C, M
<1> QED
  BY <1>3, <1>6

\* A zone with some entries loosened is closed where, of a path of two of its entries,
\* the entry that the path shortcuts was not loosened.
LEMMA LoosenedIsClosed ==
  ASSUME NEW D \in WideMatrix, Closed(D), NEW E \in WideMatrix,
         ZeroDiagonal(E), NoLooser(D, E),
         \A a, c, b \in Clk :
           a # c /\ c # b /\ a # b
             /\ E[a][c] # dbm_LS_INFINITY /\ E[c][b] # dbm_LS_INFINITY
             => E[a][b] = D[a][b]
  PROVE  Closed(E)
<1> DEFINE Sum(x, y) == dbm_addFiniteFinite(x, y)
<1> SUFFICES ASSUME NEW a \in Clk, NEW c \in Clk, NEW b \in Clk,
                    E[a][c] # dbm_LS_INFINITY, E[c][b] # dbm_LS_INFINITY
             PROVE  E[a][b] # dbm_LS_INFINITY /\ E[a][b] <= Sum(E[a][c], E[c][b])
  BY DEF Closed, ShortcutVia
<1>1. \A i, j \in Clk : /\ D[i][j] \in Int /\ E[i][j] \in Int /\ D[i][j] <= E[i][j]
                        /\ D[i][j] <= dbm_LS_INFINITY /\ E[i][j] <= dbm_LS_INFINITY
  BY WideEntry DEF NoLooser
<1>2. /\ \A i \in Clk : D[i][i] = dbm_LE_ZERO /\ E[i][i] = dbm_LE_ZERO
      /\ \A i, k, j \in Clk : D[i][k] # dbm_LS_INFINITY /\ D[k][j] # dbm_LS_INFINITY
           => D[i][j] # dbm_LS_INFINITY /\ D[i][j] <= Sum(D[i][k], D[k][j])
  BY DEF Closed, ZeroDiagonal, ShortcutVia
<1>3. /\ \A x, y \in Int : Sum(x, y) \in Int
      /\ \A x \in Int : Sum(x, dbm_LE_ZERO) = x /\ Sum(dbm_LE_ZERO, x) = x
      /\ \A x, y, u, w \in Int : x <= u /\ y <= w => Sum(x, y) <= Sum(u, w)
  BY AddParts, AddZero, AddMonotone
<1> HIDE DEF Sum
<1>4. CASE a = c \/ c = b
  <2>1. E[a][b] \in Int /\ Sum(dbm_LE_ZERO, E[a][b]) = E[a][b]
        /\ Sum(E[a][b], dbm_LE_ZERO) = E[a][b]
    BY <1>1, <1>3
  <2>2. CASE a = c
    <3>1. Sum(E[a][c], E[c][b]) = E[a][b] /\ E[a][b] # dbm_LS_INFINITY
      BY <1>2, <2>1, <2>2
    <3> QED
      BY <2>1, <3>1
  <2>3. CASE c = b
    <3>1. Sum(E[a][c], E[c][b]) = E[a][b] /\ E[a][b] # dbm_LS_INFINITY
      BY <1>2, <2>1, <2>3
    <3> QED
      BY <2>1, <3>1
  <2> QED
    BY <1>4, <2>2, <2>3
<1>5. D[a][c] # dbm_LS_INFINITY /\ D[c][b] # dbm_LS_INFINITY
  BY <1>1, Infinity
<1>6. D[a][b] # dbm_LS_INFINITY /\ D[a][b] <= Sum(E[a][c], E[c][b])
  <2>1. D[a][b] <= Sum(D[a][c], D[c][b]) /\ D[a][b] # dbm_LS_INFINITY
    BY <1>2, <1>5
  <2>2. Sum(D[a][c], D[c][b]) <= Sum(E[a][c], E[c][b])
    BY <1>1, <1>3
  <2>3. Sum(D[a][c], D[c][b]) \in Int /\ Sum(E[a][c], E[c][b]) \in Int
    BY <1>1, <1>3
  <2> QED
    BY <1>1, <2>1, <2>2, <2>3
<1>7. a # c /\ c # b => E[a][b] = D[a][b]
  <2> SUFFICES ASSUME a # c, c # b PROVE E[a][b] = D[a][b]
    OBVIOUS
  <2>1. CASE a = b
    BY <1>2, <2>1
  <2>2. CASE a # b
    BY <2>2
  <2> QED
    BY <2>1, <2>2
<1> QED
  BY <1>4, <1>6, <1>7

\* There is one greatest closed matrix, also below two matrices one of which is below
\* the other, as long as no closed matrix is below one only.
LEMMA GreatestIsUnique ==
  ASSUME NEW X, NEW E, NEW Y, NEW R, GreatestBelow(X, E), GreatestBelow(Y, R),
         NoLooser(X, R), NoLooser(Y, E)
  PROVE  X = Y
<1>1. X \in WideMatrix /\ Y \in WideMatrix /\ NoLooser(X, Y) /\ NoLooser(Y, X)
  BY DEF GreatestBelow
<1>2. \A i, j \in Clk : X[i][j] = Y[i][j]
  <2> TAKE i, j \in Clk
  <2>1. X[i][j] \in Int /\ Y[i][j] \in Int /\ X[i][j] <= Y[i][j] /\ Y[i][j] <= X[i][j]
    BY <1>1, WideEntry DEF NoLooser
  <2> QED
    BY <2>1
<1> QED
  BY <1>1, <1>2 DEF WideMatrix

-----------------------------------------------------------------------------
(* The entries that extrapolations write, by definition. *)

\* The constant of the first row is beyond the table entry.
Out(D, table, k) == bnd(D, 0, k) < -table[k]

\* What an entry becomes that is neither in the first row nor on the diagonal.
EntryOf(diagonal, D, low, up, i, j) ==
  IF bnd(D, i, j) > low[i] \/ (diagonal /\ (Out(D, low, i) \/ Out(D, up, j)))
  THEN dbm_LS_INFINITY
  ELSE IF ~diagonal /\ bnd(D, i, j) < -up[j]
  THEN IF up[j] >= 0 THEN dbm_bound2raw(-up[j], dbm_STRICT) ELSE dbm_LS_INFINITY
  ELSE D[i][j]

\* The matrix of the definition, before it is closed.
Reference(diagonal, D, low, up) ==
  [i \in Clk |-> IF i = 0 THEN FirstRow(D, up)
                 ELSE [j \in Clk |-> IF i = j THEN D[i][j]
                                     ELSE EntryOf(diagonal, D, low, up, i, j)]]

\* A strict raw and its constant.
LEMMA StrictParts ==
  ASSUME NEW b \in Int
  PROVE  dbm_bound2raw(b, dbm_STRICT) = 2 * b /\ dbm_raw2bound(2 * b) = b
BY DEF dbm_bound2raw, dbm_STRICT, dbm_raw2bound

\* The first row is loosened, up to "<= 0".
LEMMA FirstRowEntry ==
  ASSUME NEW D, NEW A \in Nat, A <= dbm_LE_OVERFLOW, IsZone(D, A),
         NEW low, NEW up, NEW L, AreTables(low, up, L), NEW j \in Clk
  PROVE  LET r == FirstRow(D, up)[j]
         IN  /\ r \in Int /\ D[0][j] <= r /\ r <= dbm_LE_ZERO
             /\ dbm_raw2bound(r) \in -L .. L
             /\ j = 0 => r = D[0][j]
             /\ ~Out(D, up, j) => r = D[0][j]
<1> DEFINE r == FirstRow(D, up)[j]
           x == D[0][j]
           b == bnd(D, 0, j)
           u == up[j]
<1>1. /\ L \in Nat /\ (u = -dbm_INFINITY \/ u \in 0 .. L) /\ up[0] = 0 /\ 0 \in Clk
  BY DEF AreTables
<1>2. /\ x \in Int /\ x <= dbm_LE_ZERO /\ b \in Int /\ 2 * b <= x /\ x <= 2 * b + 1
      /\ b < dbm_INFINITY /\ -dbm_INFINITY < b /\ b <= 0
  <2>1. x \in Int /\ x # dbm_LS_INFINITY
    BY <1>1, ZoneEntries
  <2>2. b <= dbm_INFINITY /\ b # dbm_INFINITY
    BY <1>1, <2>1, ZoneBounds
  <2> QED
    BY <1>1, <2>1, <2>2, ZoneBounds DEF dbm_INFINITY
<1>3. r = IF j # 0 /\ b < -u
          THEN IF u >= 0 THEN dbm_bound2raw(-u, dbm_STRICT) ELSE dbm_LE_ZERO
          ELSE x
  BY DEF FirstRow, LowerBeyond, bnd
<1>4. ~Out(D, up, j) <=> ~(b < -u)
  BY DEF Out
<1>5. dbm_raw2bound(x) = b /\ dbm_raw2bound(dbm_LE_ZERO) = 0
  BY DEF bnd, dbm_raw2bound, dbm_LE_ZERO
<1>6. u \in Int => /\ dbm_bound2raw(-u, dbm_STRICT) = 2 * (-u)
                   /\ dbm_raw2bound(2 * (-u)) = -u
  BY StrictParts
<1>7. j = 0 => ~(b < -u)
  BY <1>1, ZoneBounds
<1> HIDE DEF r, x, b, u
<1>8. CASE j # 0 /\ b < -u /\ u = -dbm_INFINITY
  BY <1>1, <1>2, <1>3, <1>4, <1>5, <1>8, Infinity DEF dbm_INFINITY, r, x
<1>9. CASE j # 0 /\ b < -u /\ u \in 0 .. L
  <2>1. r = 2 * (-u) /\ dbm_raw2bound(r) = -u
    BY <1>3, <1>6, <1>9
  <2>2. x <= r /\ r <= dbm_LE_ZERO /\ r \in Int /\ dbm_raw2bound(r) \in -L .. L
    BY <1>1, <1>2, <1>9, <2>1, Infinity
  <2> QED
    BY <1>4, <1>9, <2>2 DEF r, x
<1>10. CASE j = 0 \/ ~(b < -u)
  <2>1. r = x
    BY <1>3, <1>10
  <2>2. ~(b < -u)
    BY <1>7, <1>10
  <2>3. b \in -L .. L
    BY <1>1, <1>2, <2>2 DEF dbm_INFINITY
  <2> QED
    BY <1>2, <1>5, <2>1, <2>3 DEF r, x
<1> QED
  BY <1>1, <1>8, <1>9, <1>10

\* The other entries are kept or loosened; of those that are kept no constant is above L.
LEMMA EntryLoosened ==
  ASSUME NEW D, NEW A \in Nat, A <= dbm_LE_OVERFLOW, IsZone(D, A),
         NEW low, NEW up, NEW L, AreTables(low, up, L), NEW diagonal \in BOOLEAN,
         NEW i \in Clk, NEW j \in Clk
  PROVE  LET e == EntryOf(diagonal, D, low, up, i, j)
         IN  /\ e \in Int /\ D[i][j] <= e /\ e <= dbm_LS_INFINITY
             /\ e # dbm_LS_INFINITY => dbm_raw2bound(e) \in -L .. L
<1> DEFINE e == EntryOf(diagonal, D, low, up, i, j)
           x == D[i][j]
           b == bnd(D, i, j)
           u == up[j]
           l == low[i]
           loose == b > l
           out == Out(D, low, i) \/ Out(D, up, j)
<1>1. /\ L \in Nat /\ L < dbm_LE_OVERFLOW
      /\ u = -dbm_INFINITY \/ u \in 0 .. L
      /\ l = -dbm_INFINITY \/ l \in 0 .. L
  BY RoomFor DEF AreTables
<1>2. /\ x \in Int /\ x <= dbm_LS_INFINITY /\ b \in Int /\ 2 * b <= x /\ x <= 2 * b + 1
      /\ b <= dbm_INFINITY /\ -dbm_INFINITY < b
      /\ dbm_raw2bound(x) = b
  BY ZoneEntries, ZoneBounds DEF bnd
<1>3. e = IF loose \/ (diagonal /\ out) THEN dbm_LS_INFINITY
          ELSE IF ~diagonal /\ b < -u
          THEN IF u >= 0 THEN dbm_bound2raw(-u, dbm_STRICT) ELSE dbm_LS_INFINITY
          ELSE x
  BY DEF EntryOf
<1>4. u \in Int => /\ dbm_bound2raw(-u, dbm_STRICT) = 2 * (-u)
                   /\ dbm_raw2bound(2 * (-u)) = -u
  BY StrictParts
<1>5. ~out => -u <= b
  <2> SUFFICES ASSUME ~out PROVE -u <= b
    OBVIOUS
  <2>1. D[0][j] <= D[i][j] /\ D[0][j] \in Int /\ 0 \in Clk
    BY ZoneOrder, ZoneEntries
  <2>2. bnd(D, 0, j) \in Int /\ D[0][j] <= 2 * bnd(D, 0, j) + 1 /\ 2 * bnd(D, 0, j) <= D[0][j]
    BY <2>1, ZoneBounds
  <2>3. ~(bnd(D, 0, j) < -u)
    BY DEF Out
  <2> HIDE DEF b, u
  <2>4. u \in Int
    BY <1>1 DEF dbm_INFINITY
  <2> QED
    BY <1>2, <2>1, <2>2, <2>3, <2>4
<1> DEFINE Kept == /\ e \in Int /\ x <= e /\ e <= dbm_LS_INFINITY
                   /\ e # dbm_LS_INFINITY => dbm_raw2bound(e) \in -L .. L
<1> SUFFICES Kept
  OBVIOUS
<1>9. loose \in BOOLEAN /\ out \in BOOLEAN
  BY DEF Out
<1> HIDE DEF e, x, b, u, l, loose, out, Kept
<1>6. CASE e = dbm_LS_INFINITY
  BY <1>2, <1>6, Infinity DEF Kept
<1>7. CASE ~loose /\ diagonal /\ out
  <2>1. e = dbm_LS_INFINITY
    BY <1>3, <1>7
  <2> QED
    BY <1>6, <2>1
<1>8. CASE loose
  <2>1. e = dbm_LS_INFINITY
    BY <1>3, <1>8
  <2> QED
    BY <1>6, <2>1
<1>10. CASE ~loose /\ ~diagonal /\ b < -u /\ u >= 0
  <2>1. u \in 0 .. L
    BY <1>1, <1>10 DEF dbm_INFINITY
  <2>2. e = 2 * (-u) /\ dbm_raw2bound(e) = -u
    BY <1>3, <1>4, <1>10, <2>1
  <2>3. x <= e /\ e <= dbm_LS_INFINITY /\ e \in Int /\ dbm_raw2bound(e) \in -L .. L
    BY <1>1, <1>2, <1>10, <2>1, <2>2, Infinity
  <2> QED
    BY <2>3 DEF Kept
<1>11. CASE ~loose /\ ~diagonal /\ b < -u /\ ~(u >= 0)
  <2>1. e = dbm_LS_INFINITY
    BY <1>3, <1>11
  <2> QED
    BY <1>6, <2>1
<1>12. CASE ~loose /\ e = x /\ -u <= b
  <2>1. b <= l
    BY <1>1, <1>2, <1>12 DEF loose, dbm_INFINITY
  <2>2. b \in -L .. L
    BY <1>1, <1>2, <1>12, <2>1 DEF dbm_INFINITY
  <2> QED
    BY <1>2, <1>12, <2>2 DEF Kept
<1>13. CASE ~loose /\ diagonal /\ ~out
  <2>1. e = x
    BY <1>3, <1>13
  <2> QED
    BY <1>5, <1>12, <1>13, <2>1
<1>14. CASE ~loose /\ ~diagonal /\ ~(b < -u)
  <2>1. e = x
    BY <1>3, <1>14
  <2>2. -u <= b
    BY <1>1, <1>2, <1>14 DEF dbm_INFINITY
  <2> QED
    BY <1>12, <1>14, <2>1, <2>2
<1> QED
  BY <1>7, <1>8, <1>10, <1>11, <1>13, <1>14

\* The matrix of the definition is a zone with entries loosened.
LEMMA ReferenceLoosened ==
  ASSUME NEW D, NEW A \in Nat, A <= dbm_LE_OVERFLOW, IsZone(D, A),
         NEW low, NEW up, NEW L, AreTables(low, up, L), NEW diagonal \in BOOLEAN
  PROVE  Loosened(Reference(diagonal, D, low, up), D, L)
<1> DEFINE R == Reference(diagonal, D, low, up)
<1>1. 0 \in Clk /\ L \in Nat
  BY DEF AreTables
<1>2. /\ R = [i \in Clk |-> [j \in Clk |-> R[i][j]]]
      /\ \A j \in Clk : R[0][j] = FirstRow(D, up)[j]
      /\ \A i \in Clk \ {0} : R[i][i] = D[i][i]
      /\ \A i \in Clk \ {0} : \A j \in Clk :
           i # j => R[i][j] = EntryOf(diagonal, D, low, up, i, j)
  BY <1>1 DEF Reference, FirstRow
<1> HIDE DEF R
<1>3. \A i \in Clk : /\ D[i][i] = dbm_LE_ZERO
                     /\ dbm_raw2bound(dbm_LE_ZERO) = 0
  BY ZoneEntries DEF dbm_raw2bound, dbm_LE_ZERO
<1>4. ZeroDiagonal(R)
  <2>1. R[0][0] = D[0][0]
    BY <1>1, <1>2, FirstRowEntry
  <2> QED
    BY <1>2, <1>3, <2>1 DEF ZeroDiagonal
<1>5. \A i, j \in Clk :
        /\ R[i][j] \in Int /\ D[i][j] <= R[i][j] /\ R[i][j] <= dbm_LS_INFINITY
        /\ R[i][j] # dbm_LS_INFINITY => dbm_raw2bound(R[i][j]) \in -L .. L
  <2> TAKE i, j \in Clk
  <2>1. CASE i = 0
    BY <1>1, <1>2, <2>1, FirstRowEntry, Infinity
  <2>2. CASE i # 0 /\ i = j
    BY <1>1, <1>2, <1>3, <2>2, Infinity
  <2>3. CASE i # 0 /\ i # j
    BY <1>2, <2>3, EntryLoosened
  <2> QED
    BY <2>1, <2>2, <2>3
<1>6. R \in WideMatrix
  BY <1>2, <1>5, EntriesType
<1>7. \A j \in Clk : R[0][j] <= dbm_LE_ZERO
  BY <1>2, FirstRowEntry
<1> QED
  BY <1>4, <1>5, <1>6, <1>7 DEF Loosened, NoLooser, bnd, R

-----------------------------------------------------------------------------
(* The diagonal extrapolations. *)

\* A clock that no other is bounded by shortens no path.
LEMMA InfiniteRow ==
  ASSUME NEW E \in WideMatrix, ZeroDiagonal(E), NEW c \in Clk,
         \A b \in Clk : c # b => E[c][b] = dbm_LS_INFINITY
  PROVE  ShortcutVia(E, c)
<1> SUFFICES ASSUME NEW a \in Clk, NEW b \in Clk,
                    E[a][c] # dbm_LS_INFINITY, E[c][b] # dbm_LS_INFINITY
             PROVE  /\ E[a][b] # dbm_LS_INFINITY
                    /\ E[a][b] <= dbm_addFiniteFinite(E[a][c], E[c][b])
  BY DEF ShortcutVia
<1>1. c = b /\ E[c][b] = dbm_LE_ZERO /\ E[a][c] \in Int
  BY WideEntry DEF ZeroDiagonal
<1>2. dbm_addFiniteFinite(E[a][c], dbm_LE_ZERO) = E[a][c]
  BY <1>1, AddZero
<1> QED
  BY <1>1, <1>2

\* Closing a loosened zone where it was changed, for the clocks with a table entry.
LEMMA ClosesIfChanged ==
  ASSUME NEW D, NEW A, IsZone(D, A), NEW low, NEW up, NEW L, AreTables(low, up, L),
         NEW E, Loosened(E, D, L), NEW changed \in BOOLEAN, ~changed => Closed(E),
         \A c \in Clk : low[c] = -dbm_INFINITY /\ up[c] = -dbm_INFINITY
           => ShortcutVia(E, c)
  PROVE  LET X == IF changed THEN dbm_closeLU(E, low, up) ELSE E
         IN  GreatestBelow(X, E) /\ Extends(X, D, L)
<1> DEFINE touched == {k \in Clk : low[k] # -dbm_INFINITY \/ up[k] # -dbm_INFINITY}
<1>1. L \in Nat /\ 12 * (dim + 1) * (L + 1) <= dbm_LE_OVERFLOW
  BY DEF AreTables
<1>2. touched \in SUBSET Clk /\ \A c \in Clk \ touched : ShortcutVia(E, c)
  OBVIOUS
<1>3. dbm_closeLU(E, low, up) = CloseVia(E, touched)
  BY DEF dbm_closeLU
<1> HIDE DEF touched
<1>4. CASE changed
  <2>1. GreatestBelow(CloseVia(E, touched), E) /\ Extends(CloseVia(E, touched), D, L)
    BY <1>1, <1>2, LoosenedCloses
  <2> QED
    BY <1>3, <1>4, <2>1
<1>5. CASE ~changed
  <2>1. GreatestBelow(E, E) /\ Extends(E, D, L)
    BY <1>1, <1>5, LoosenedClosed
  <2> QED
    BY <1>5, <2>1
<1> QED
  BY <1>4, <1>5

\* The row of a clock without a lower table entry is removed.
LEMMA ReferenceRow ==
  ASSUME NEW D, NEW A \in Nat, A <= dbm_LE_OVERFLOW, IsZone(D, A),
         NEW low, NEW up, NEW L, AreTables(low, up, L), NEW diagonal \in BOOLEAN,
         NEW c \in Clk, low[c] = -dbm_INFINITY, NEW j \in Clk
  PROVE  c # 0 /\ EntryOf(diagonal, D, low, up, c, j) = dbm_LS_INFINITY
<1>1. -dbm_INFINITY < bnd(D, c, j)
  BY ZoneBounds
<1>2. low[0] = 0
  BY DEF AreTables
<1>3. c # 0
  BY <1>2 DEF dbm_INFINITY
<1>4. dbm_INFINITY \in Int /\ bnd(D, c, j) \in Int
  BY ZoneBounds DEF dbm_INFINITY
<1>5. bnd(D, c, j) > low[c]
  BY <1>1, <1>4
<1> QED
  BY <1>3, <1>5 DEF EntryOf

\* No entry changes in the rows of the clocks within their table entries.
NothingRemoved(D, low, up) ==
  \A i \in Clk \ {0}, j \in Clk :
    i # j /\ D[i][j] # dbm_LS_INFINITY /\ ~Out(D, low, i)
      => ~(bnd(D, i, j) > low[i]) /\ ~Out(D, up, j)

\* Then what is removed, the rows of the other clocks, leaves the zone closed.
LEMMA NothingRemovedIsClosed ==
  ASSUME NEW D, NEW A \in Nat, A <= dbm_LE_OVERFLOW, IsZone(D, A),
         NEW low, NEW up, NEW L, AreTables(low, up, L), NothingRemoved(D, low, up)
  PROVE  Closed(Reference(TRUE, D, low, up))
<1> DEFINE R == Reference(TRUE, D, low, up)
<1>1. Loosened(R, D, L)
  BY ReferenceLoosened
<1>2. R \in WideMatrix /\ ZeroDiagonal(R) /\ NoLooser(D, R)
  BY <1>1 DEF Loosened
<1>3. D \in WideMatrix /\ Closed(D) /\ 0 \in Clk
  BY ZoneEntries DEF IsZone
<1>4. ASSUME NEW a \in Clk, NEW c \in Clk, NEW b \in Clk, a # c, c # b, a # b,
             R[a][c] # dbm_LS_INFINITY, R[c][b] # dbm_LS_INFINITY
      PROVE  R[a][b] = D[a][b]
  <2>1. \A i \in Clk \ {0} : \A j \in Clk :
          i # j => R[i][j] = EntryOf(TRUE, D, low, up, i, j)
    BY DEF Reference
  <2>2. \A j \in Clk : R[0][j] = FirstRow(D, up)[j]
    BY <1>3 DEF Reference
  <2>3. \A i, j \in Clk :
          /\ EntryOf(TRUE, D, low, up, i, j) # dbm_LS_INFINITY
               => ~(bnd(D, i, j) > low[i]) /\ ~Out(D, low, i) /\ ~Out(D, up, j)
          /\ ~(bnd(D, i, j) > low[i]) /\ ~Out(D, low, i) /\ ~Out(D, up, j)
               => EntryOf(TRUE, D, low, up, i, j) = D[i][j]
    BY DEF EntryOf
  <2>4. \A i, j \in Clk : ~Out(D, up, j) => FirstRow(D, up)[j] = D[0][j]
    BY FirstRowEntry
  <2> HIDE DEF R
  <2>5. ~Out(D, up, b)
    <3>1. CASE c # 0
      BY <1>4, <2>1, <2>3, <3>1
    <3>2. CASE c = 0
      <4>1. a # 0 /\ ~Out(D, low, a) /\ D[a][0] # dbm_LS_INFINITY
        BY <1>4, <2>1, <2>3, <3>2, <1>3
      <4>2. D[a][b] # dbm_LS_INFINITY
        BY <1>3, <4>1, ZoneEntries
      <4> QED
        BY <1>4, <4>1, <4>2 DEF NothingRemoved
    <3> QED
      BY <3>1, <3>2
  <2>6. CASE a = 0
    BY <2>2, <2>4, <2>5, <2>6
  <2>7. CASE a # 0
    <3>1. ~Out(D, low, a) /\ D[a][c] # dbm_LS_INFINITY
      BY <1>4, <2>1, <2>3, <2>7
    <3>2. D[c][b] # dbm_LS_INFINITY
      <4>1. D[c][b] <= R[c][b] /\ D[c][b] \in Int /\ R[c][b] \in Int
            /\ R[c][b] <= dbm_LS_INFINITY
        BY <1>2, <1>3, WideEntry DEF NoLooser
      <4> QED
        BY <1>4, <4>1, Infinity
    <3>3. D[a][b] # dbm_LS_INFINITY
      BY <3>1, <3>2, ZoneEntries
    <3>4. ~(bnd(D, a, b) > low[a])
      BY <1>4, <2>7, <3>1, <3>3 DEF NothingRemoved
    <3> QED
      BY <1>4, <2>1, <2>3, <2>5, <2>7, <3>1, <3>4
  <2> QED
    BY <2>6, <2>7
<1> HIDE DEF R
<1>5. Closed(R)
  BY <1>2, <1>3, <1>4, LoosenedIsClosed
<1> QED
  BY <1>5 DEF R

\* What both diagonal extrapolations do: close the reference, or leave it where nothing
\* was removed.
LEMMA DiagonalCloses ==
  ASSUME NEW D, NEW A \in Nat, A <= dbm_LE_OVERFLOW, IsZone(D, A),
         NEW low, NEW up, NEW L, AreTables(low, up, L),
         NEW diff \in BOOLEAN, ~diff => NothingRemoved(D, low, up)
  PROVE  LET R == Reference(TRUE, D, low, up)
             X == IF diff THEN dbm_closeLU(R, low, up) ELSE R
         IN  GreatestBelow(X, R) /\ Extends(X, D, L)
<1> DEFINE R == Reference(TRUE, D, low, up)
<1>1. Loosened(R, D, L)
  BY ReferenceLoosened
<1>2. R \in WideMatrix /\ ZeroDiagonal(R)
  BY <1>1 DEF Loosened
<1>3. ASSUME NEW c \in Clk, low[c] = -dbm_INFINITY
      PROVE  ShortcutVia(R, c)
  <2>1. \A j \in Clk : c # 0 /\ EntryOf(TRUE, D, low, up, c, j) = dbm_LS_INFINITY
    BY <1>3, ReferenceRow
  <2>2. \A j \in Clk : c # j => R[c][j] = dbm_LS_INFINITY
    BY <2>1 DEF Reference
  <2> HIDE DEF R
  <2> QED
    BY <1>2, <2>2, InfiniteRow
<1>4. ~diff => Closed(R)
  BY NothingRemovedIsClosed
<1> HIDE DEF R
<1>5. LET X == IF diff THEN dbm_closeLU(R, low, up) ELSE R
      IN  GreatestBelow(X, R) /\ Extends(X, D, L)
  BY <1>1, <1>3, <1>4, ClosesIfChanged
<1> QED
  BY <1>5 DEF R

\* The extrapolation with diagonal conditions and two tables gives the greatest closed
\* matrix below its definition: when diff stays false, there is nothing to close.
LEMMA DiagonalLUCloses ==
  ASSUME NEW D, NEW A \in Nat, A <= dbm_LE_OVERFLOW, IsZone(D, A),
         NEW low, NEW up, NEW L, AreTables(low, up, L)
  PROVE  LET X == dbm_diagonalExtrapolateLUBounds(D, low, up)
         IN  GreatestBelow(X, Reference(TRUE, D, low, up)) /\ Extends(X, D, L)
<1> DEFINE R == Reference(TRUE, D, low, up)
           X == dbm_diagonalExtrapolateLUBounds(D, low, up)
           diff == \E i \in Clk \ {0}, j \in Clk :
                     /\ i # j /\ ~Out(D, low, i) /\ D[i][j] # dbm_LS_INFINITY
                     /\ Out(D, low, i) \/ bnd(D, i, j) > low[i] \/ Out(D, up, j)
<1>1. R = [i \in Clk |->
             IF i = 0 THEN FirstRow(D, up)
             ELSE [j \in Clk |->
                     IF i # j /\ (Out(D, low, i) \/ bnd(D, i, j) > low[i] \/ Out(D, up, j))
                     THEN dbm_LS_INFINITY ELSE D[i][j]]]
  <2>1. \A i, j \in Clk :
          (IF i = j THEN D[i][j] ELSE EntryOf(TRUE, D, low, up, i, j))
            = IF i # j /\ (Out(D, low, i) \/ bnd(D, i, j) > low[i] \/ Out(D, up, j))
              THEN dbm_LS_INFINITY ELSE D[i][j]
    BY DEF EntryOf
  <2> QED
    BY <2>1 DEF Reference
<1>2. X = IF diff THEN dbm_closeLU(R, low, up) ELSE R
  BY <1>1 DEF dbm_diagonalExtrapolateLUBounds, Out, bnd
<1>3. diff \in BOOLEAN /\ (~diff => NothingRemoved(D, low, up))
  BY DEF NothingRemoved
<1> HIDE DEF diff, R, X
<1>4. GreatestBelow(X, R) /\ Extends(X, D, L)
  BY <1>2, <1>3, DiagonalCloses DEF R
<1> QED
  BY <1>4 DEF X, R

\* One table for both; diff misses the entries that were removed before, which a
\* clock within its table entry does not have.
LEMMA DiagonalMaxCloses ==
  ASSUME NEW D, NEW A \in Nat, A <= dbm_LE_OVERFLOW, IsZone(D, A),
         NEW max, NEW L, AreTables(max, max, L)
  PROVE  LET X == dbm_diagonalExtrapolateMaxBounds(D, max)
         IN  GreatestBelow(X, Reference(TRUE, D, max, max)) /\ Extends(X, D, L)
<1> DEFINE R == Reference(TRUE, D, max, max)
           X == dbm_diagonalExtrapolateMaxBounds(D, max)
           Beyond(i) == i # 0 /\ Out(D, max, i)
           diff == \E i \in Clk \ {0}, j \in Clk :
                     /\ i # j /\ D[i][j] # dbm_LS_INFINITY
                     /\ \/ Beyond(j) /\ ~(i < j /\ Beyond(i))
                        \/ ~Beyond(i) /\ Loose(D, max, i, j)
<1>1. ~Out(D, max, 0) /\ \A i, j \in Clk : /\ D[i][j] = dbm_LS_INFINITY
                                                <=> bnd(D, i, j) = dbm_INFINITY
  <2>1. bnd(D, 0, 0) = 0 /\ max[0] = 0
    BY ZoneBounds DEF AreTables
  <2>2. ~Out(D, max, 0)
    BY <2>1 DEF Out
  <2> QED
    BY <2>2, ZoneBounds
<1>2. \A i, j \in Clk :
        (IF i = j THEN D[i][j] ELSE EntryOf(TRUE, D, max, max, i, j))
          = IF i # j /\ (Beyond(i) \/ Beyond(j) \/ Loose(D, max, i, j))
            THEN dbm_LS_INFINITY ELSE D[i][j]
  BY <1>1 DEF EntryOf, Loose, bnd
<1>3. R = [i \in Clk |->
             IF i = 0 THEN FirstRow(D, max)
             ELSE [j \in Clk |->
                     IF i # j /\ (Beyond(i) \/ Beyond(j) \/ Loose(D, max, i, j))
                     THEN dbm_LS_INFINITY ELSE D[i][j]]]
  BY <1>2 DEF Reference
<1>4. X = IF diff THEN dbm_closeLU(R, max, max) ELSE R
  BY <1>3 DEF dbm_diagonalExtrapolateMaxBounds, Out, bnd
<1>5. diff \in BOOLEAN /\ (~diff => NothingRemoved(D, max, max))
  BY <1>1 DEF NothingRemoved, Loose, bnd
<1> HIDE DEF diff, R, X
<1>6. GreatestBelow(X, R) /\ Extends(X, D, L)
  BY <1>4, <1>5, DiagonalCloses DEF R
<1> QED
  BY <1>6 DEF X, R

-----------------------------------------------------------------------------
(* The extrapolations that keep the lower bounds of the clocks apart. *)

\* Their entries and their reference, and the row of a clock without a lower table entry.
EntryLU(D, low, up, i, j) == EntryOf(FALSE, D, low, up, i, j)

ReferenceLU(D, low, up) == Reference(FALSE, D, low, up)

\* The definition without diagonal conditions loosens a zone, and leaves no bound in the
\* row of a clock that has no lower constant.
LEMMA ReferenceLULoosened ==
  ASSUME NEW D, NEW A \in Nat, A <= dbm_LE_OVERFLOW, IsZone(D, A),
         NEW low, NEW up, NEW L, AreTables(low, up, L)
  PROVE  /\ Loosened(ReferenceLU(D, low, up), D, L)
         /\ \A c, j \in Clk : low[c] = -dbm_INFINITY
              => c # 0 /\ EntryLU(D, low, up, c, j) = dbm_LS_INFINITY
<1>1. Loosened(ReferenceLU(D, low, up), D, L)
  BY ReferenceLoosened DEF ReferenceLU
<1>2. ASSUME NEW c \in Clk, NEW j \in Clk, low[c] = -dbm_INFINITY
      PROVE  c # 0 /\ EntryLU(D, low, up, c, j) = dbm_LS_INFINITY
  BY <1>2, ReferenceRow DEF EntryLU
<1> QED
  BY <1>1, <1>2

\* The column that the loop reads for column j, which has no upper table entry.
Copied(up, j) == IF up[j] = -dbm_INFINITY THEN 0 ELSE j

\* What the loop leaves: column 0 stands for the columns without a table entry.
Written(D, low, up) ==
  [i \in Clk |-> IF i = 0 THEN FirstRow(D, up)
                 ELSE [j \in Clk |-> IF i = j THEN D[i][j]
                                     ELSE EntryLU(D, low, up, i, Copied(up, j))]]

\* An entry with an upper table entry, as the loop computes it.
LEMMA CutIsEntry ==
  ASSUME NEW D, NEW A \in Nat, A <= dbm_LE_OVERFLOW, IsZone(D, A),
         NEW low, NEW up, NEW L, AreTables(low, up, L),
         NEW i \in Clk, NEW j \in Clk, up[j] # -dbm_INFINITY
  PROVE  EntryLU(D, low, up, i, j) =
           IF Loose(D, low, i, j) THEN dbm_LS_INFINITY
           ELSE IF bnd(D, i, j) < -up[j]
                THEN dbm_bound2raw(-up[j], dbm_STRICT) ELSE D[i][j]
<1>1. up[j] \in 0 .. L /\ L \in Nat
  BY DEF AreTables
<1>2. /\ bnd(D, i, j) \in Int
      /\ D[i][j] = dbm_LS_INFINITY <=> bnd(D, i, j) = dbm_INFINITY
  BY ZoneBounds
<1>3. up[j] >= 0
  BY <1>1
<1>4. EntryLU(D, low, up, i, j) =
        IF bnd(D, i, j) > low[i] THEN dbm_LS_INFINITY
        ELSE IF bnd(D, i, j) < -up[j] THEN dbm_bound2raw(-up[j], dbm_STRICT) ELSE D[i][j]
  BY <1>3 DEF EntryLU, EntryOf
<1>5. ~(dbm_INFINITY < -up[j])
  BY <1>1 DEF dbm_INFINITY
<1>6. CASE bnd(D, i, j) = dbm_INFINITY
  BY <1>2, <1>4, <1>5, <1>6 DEF Loose, bnd
<1>7. CASE bnd(D, i, j) # dbm_INFINITY
  BY <1>4, <1>7 DEF Loose, bnd
<1> QED
  BY <1>6, <1>7

\* What is written is a zone with entries loosened, and not above the reference, which
\* has infinity where a column is copied.
LEMMA WrittenEntries ==
  ASSUME NEW D, NEW A \in Nat, A <= dbm_LE_OVERFLOW, IsZone(D, A),
         NEW low, NEW up, NEW L, AreTables(low, up, L)
  PROVE  LET E == Written(D, low, up)
             R == ReferenceLU(D, low, up)
         IN  /\ Loosened(E, D, L) /\ NoLooser(E, R)
             /\ \A i, j \in Clk : E[i][j] # R[i][j] => i # 0 /\ Copied(up, j) = 0 /\ i # j
                                                       /\ E[i][j] = R[i][0]
<1> DEFINE E == Written(D, low, up)
           R == ReferenceLU(D, low, up)
           s(j) == Copied(up, j)
           e(i, j) == EntryLU(D, low, up, i, j)
<1>1. /\ 0 \in Clk /\ L \in Nat /\ up[0] # -dbm_INFINITY
      /\ \A k \in Clk : low[k] = -dbm_INFINITY \/ low[k] \in 0 .. L
  BY DEF AreTables, dbm_INFINITY
<1>2. Loosened(R, D, L)
  BY ReferenceLULoosened
<1>3. /\ R \in WideMatrix /\ ZeroDiagonal(R) /\ NoLooser(D, R)
      /\ \A j \in Clk : R[0][j] <= dbm_LE_ZERO
      /\ \A i, j \in Clk : R[i][j] # dbm_LS_INFINITY => bnd(R, i, j) \in -L .. L
  BY <1>2 DEF Loosened
<1>4. \A j \in Clk : /\ s(j) \in Clk
                     /\ up[j] = -dbm_INFINITY => s(j) = 0
                     /\ up[j] # -dbm_INFINITY => s(j) = j
  BY <1>1 DEF Copied
<1>5. /\ \A i \in Clk \ {0} : \A j \in Clk :
           i # j => R[i][j] = e(i, j)
      /\ \A i \in Clk \ {0} : \A j \in Clk :
           i # j => E[i][j] = e(i, s(j))
      /\ \A i \in Clk : E[i][i] = R[i][i]
      /\ \A j \in Clk : E[0][j] = R[0][j]
  BY <1>1 DEF ReferenceLU, Reference, Written, EntryLU
<1>0. E = [i \in Clk |-> [j \in Clk |-> E[i][j]]]
  BY DEF Written, FirstRow
<1>6. ASSUME NEW i \in Clk \ {0}, NEW j \in Clk, up[j] = -dbm_INFINITY
      PROVE  e(i, j) = dbm_LS_INFINITY
  <2>1. bnd(D, i, j) \in Int /\ -dbm_INFINITY < bnd(D, i, j)
        /\ bnd(D, i, j) <= dbm_INFINITY /\ L < dbm_LE_OVERFLOW
    BY ZoneBounds, RoomFor DEF AreTables
  <2>2. /\ dbm_INFINITY \in Int /\ dbm_INFINITY = dbm_LE_OVERFLOW
        /\ -(-dbm_INFINITY) = dbm_INFINITY /\ ~(-dbm_INFINITY >= 0)
    <3>1. dbm_INFINITY \in Int /\ 0 < dbm_INFINITY /\ dbm_INFINITY = dbm_LE_OVERFLOW
      BY SMT DEF dbm_INFINITY, dbm_LE_OVERFLOW
    <3>2. \A x \in Int : 0 < x => -(-x) = x /\ ~(-x >= 0)
      BY SMT
    <3> QED
      BY <3>1, <3>2
  <2> DEFINE b == bnd(D, i, j)
             l == low[i]
  <2>3. b > l \/ b < dbm_INFINITY
    <3>1. (l = -dbm_INFINITY \/ l \in 0 .. L) /\ b \in Int /\ -dbm_INFINITY < b
          /\ b <= dbm_INFINITY
      BY <1>1, <2>1
    <3> HIDE DEF b, l
    <3> QED
      BY <1>1, <2>1, <2>2, <3>1
  <2>4. -up[j] = dbm_INFINITY /\ ~(up[j] >= 0)
    BY <1>6, <2>2
  <2> QED
    BY <2>3, <2>4 DEF EntryLU, EntryOf
<1> HIDE DEF E, R, s, e
<1>7. \A i \in Clk \ {0} : \A j \in Clk : i # j =>
        /\ E[i][j] = R[i][s(j)] /\ s(j) # i
        /\ E[i][j] # R[i][j] => s(j) = 0 /\ R[i][j] = dbm_LS_INFINITY
  <2> TAKE i \in Clk \ {0}
  <2> TAKE j \in Clk
  <2> SUFFICES ASSUME i # j
               PROVE  /\ E[i][j] = R[i][s(j)] /\ s(j) # i
                      /\ E[i][j] # R[i][j] => s(j) = 0 /\ R[i][j] = dbm_LS_INFINITY
    OBVIOUS
  <2>1. s(j) # i /\ E[i][j] = R[i][s(j)]
    BY <1>4, <1>5
  <2>2. CASE up[j] = -dbm_INFINITY
    <3>1. R[i][j] = dbm_LS_INFINITY /\ s(j) = 0
      BY <1>4, <1>5, <1>6, <2>2
    <3> QED
      BY <2>1, <3>1
  <2>3. CASE up[j] # -dbm_INFINITY
    BY <1>4, <2>1, <2>3
  <2> QED
    BY <2>2, <2>3, <2>1
<1>8. \A i, j \in Clk :
        /\ E[i][j] \in Int /\ E[i][j] <= R[i][j] /\ D[i][j] <= E[i][j]
        /\ E[i][j] # dbm_LS_INFINITY => bnd(E, i, j) \in -L .. L
  <2> TAKE i, j \in Clk
  <2>1. /\ R[i][j] \in Int /\ R[i][j] <= dbm_LS_INFINITY /\ D[i][j] <= R[i][j]
        /\ R[i][j] # dbm_LS_INFINITY => bnd(R, i, j) \in -L .. L
    BY <1>3, WideEntry DEF NoLooser
  <2>2. CASE i = 0 \/ i = j
    <3>1. E[i][j] = R[i][j]
      BY <1>5, <2>2
    <3>2. bnd(E, i, j) = bnd(R, i, j)
      BY <3>1 DEF bnd
    <3> QED
      BY <2>1, <3>1, <3>2
  <2>3. CASE i # 0 /\ i # j
    <3>1. E[i][j] = R[i][j] \/ (E[i][j] = R[i][0] /\ R[i][j] = dbm_LS_INFINITY)
      BY <1>7, <2>3
    <3>2. /\ R[i][0] \in Int /\ R[i][0] <= dbm_LS_INFINITY /\ D[i][0] <= R[i][0]
          /\ R[i][0] # dbm_LS_INFINITY => bnd(R, i, 0) \in -L .. L
      BY <1>1, <1>3, WideEntry DEF NoLooser
    <3>3. D[i][j] <= D[i][0] /\ D[i][j] \in Int /\ D[i][0] \in Int
      BY <1>1, ZoneOrder, ZoneEntries
    <3>4. CASE E[i][j] = R[i][j]
      BY <2>1, <3>4 DEF bnd
    <3>5. CASE E[i][j] = R[i][0] /\ R[i][j] = dbm_LS_INFINITY
      <4>1. bnd(E, i, j) = bnd(R, i, 0)
        BY <3>5 DEF bnd
      <4>2. D[i][j] <= E[i][j]
        BY <3>2, <3>3, <3>5
      <4> QED
        BY <3>2, <3>5, <4>1, <4>2
    <3> QED
      BY <3>1, <3>4, <3>5
  <2> QED
    BY <2>2, <2>3
<1>9. E \in WideMatrix
  <2>1. \A i, j \in Clk : E[i][j] \in Int /\ E[i][j] <= dbm_LS_INFINITY
    <3> TAKE i, j \in Clk
    <3>1. R[i][j] \in Int /\ R[i][j] <= dbm_LS_INFINITY /\ E[i][j] \in Int
          /\ E[i][j] <= R[i][j]
      BY <1>3, <1>8, WideEntry
    <3> QED
      BY <3>1, Infinity
  <2> QED
    BY <1>0, <2>1, EntriesType
<1>10. Loosened(E, D, L) /\ NoLooser(E, R)
  <2>1. ZeroDiagonal(E)
    BY <1>3, <1>5 DEF ZeroDiagonal
  <2>2. \A j \in Clk : E[0][j] <= dbm_LE_ZERO
    BY <1>3, <1>5
  <2>3. NoLooser(D, E) /\ NoLooser(E, R)
    BY <1>8 DEF NoLooser
  <2> QED
    BY <1>8, <1>9, <2>1, <2>2, <2>3 DEF Loosened
<1>11. \A i, j \in Clk : E[i][j] # R[i][j] => i # 0 /\ s(j) = 0 /\ i # j
                                              /\ E[i][j] = R[i][0]
  <2> TAKE i, j \in Clk
  <2> SUFFICES ASSUME E[i][j] # R[i][j]
               PROVE  i # 0 /\ s(j) = 0 /\ i # j /\ E[i][j] = R[i][0]
    OBVIOUS
  <2>1. i # 0 /\ i # j
    BY <1>5
  <2> QED
    BY <1>7, <2>1
<1> QED
  BY <1>10, <1>11 DEF E, R, s

\* No entry with an upper table entry changes, but in the rows without a lower one.
NothingCut(D, low, up) ==
  /\ \A j \in Clk \ {0} : up[j] # -dbm_INFINITY => ~Out(D, up, j)
  /\ \A i \in Clk \ {0}, j \in Clk : i # j /\ up[j] # -dbm_INFINITY =>
       IF Loose(D, low, i, j) THEN low[i] = -dbm_INFINITY ELSE ~(bnd(D, i, j) < -up[j])

\* Then the zone has only clocks renamed or freed.
LEMMA NothingCutIsClosed ==
  ASSUME NEW D, NEW A \in Nat, A <= dbm_LE_OVERFLOW, 2 * A <= dbm_LE_OVERFLOW, IsZone(D, A),
         NEW low, NEW up, NEW L, AreTables(low, up, L), NothingCut(D, low, up)
  PROVE  Closed(Written(D, low, up))
<1> DEFINE E == Written(D, low, up)
           free == {i \in Clk : low[i] = -dbm_INFINITY}
           r == [i \in Clk |-> i]
           s == [j \in Clk |-> Copied(up, j)]
           e(i, j) == EntryLU(D, low, up, i, j)
<1>1. /\ 0 \in Clk /\ L \in Nat /\ up[0] # -dbm_INFINITY /\ low[0] # -dbm_INFINITY
  BY DEF AreTables, dbm_INFINITY
<1>2. \A j \in Clk : /\ s[j] \in Clk /\ up[s[j]] # -dbm_INFINITY
                     /\ s[j] = j \/ (s[j] = 0 /\ up[j] = -dbm_INFINITY)
  BY <1>1 DEF Copied
<1>3. \A i, j \in Clk : /\ D[i][j] \in Int /\ D[i][i] = dbm_LE_ZERO
                        /\ D[0][j] <= dbm_LE_ZERO
  BY ZoneEntries
<1>4. /\ \A i \in Clk \ {0} : \A j \in Clk : i # j => E[i][j] = e(i, s[j])
      /\ \A i \in Clk \ {0} : E[i][i] = D[i][i]
      /\ \A j \in Clk : E[0][j] = FirstRow(D, up)[j]
  BY <1>1 DEF Written
<1>5. E = [i \in Clk |-> [j \in Clk |-> E[i][j]]]
  BY DEF Written, FirstRow
<1>6. \A i \in free : 0 # i /\ \A j \in Clk : e(i, j) = dbm_LS_INFINITY
  BY ReferenceLULoosened
<1>7. ASSUME NEW i \in Clk \ {0}, i \notin free, NEW j \in Clk, i # j,
             up[j] # -dbm_INFINITY
      PROVE  e(i, j) = D[i][j]
  <2>1. e(i, j) = IF Loose(D, low, i, j) THEN dbm_LS_INFINITY
                  ELSE IF bnd(D, i, j) < -up[j]
                       THEN dbm_bound2raw(-up[j], dbm_STRICT) ELSE D[i][j]
    BY <1>7, CutIsEntry
  <2>2. ~Loose(D, low, i, j) /\ ~(bnd(D, i, j) < -up[j])
    BY <1>7 DEF NothingCut
  <2> QED
    BY <2>1, <2>2
<1>8. ASSUME NEW j \in Clk
      PROVE  E[0][j] = D[0][s[j]]
  <2>1. CASE up[j] # -dbm_INFINITY
    <3>1. ~Out(D, up, j)
      <4>1. CASE j = 0
        <5>1. bnd(D, 0, 0) = 0 /\ up[0] = 0
          BY <1>1, ZoneBounds DEF AreTables
        <5> QED
          BY <4>1, <5>1 DEF Out
      <4>2. CASE j # 0
        BY <2>1, <4>2 DEF NothingCut
      <4> QED
        BY <4>1, <4>2
    <3>2. FirstRow(D, up)[j] = D[0][j]
      BY <3>1, FirstRowEntry
    <3> QED
      BY <1>2, <1>4, <2>1, <3>2
  <2>2. CASE up[j] = -dbm_INFINITY
    <3>1. s[j] = 0 /\ j # 0
      BY <1>1, <2>2 DEF Copied
    <3>2. bnd(D, 0, j) < dbm_INFINITY
      <4>1. bnd(D, 0, j) <= 0 /\ bnd(D, 0, j) \in Int
        BY <1>1, ZoneBounds
      <4>2. dbm_INFINITY \in Int /\ 0 < dbm_INFINITY
        BY SMT DEF dbm_INFINITY
      <4> QED
        BY <4>1, <4>2
    <3>3. -(-dbm_INFINITY) = dbm_INFINITY /\ ~(-dbm_INFINITY >= 0)
      <4>1. dbm_INFINITY \in Int /\ 0 < dbm_INFINITY
        BY SMT DEF dbm_INFINITY
      <4>2. \A x \in Int : 0 < x => -(-x) = x /\ ~(-x >= 0)
        BY SMT
      <4> QED
        BY <4>1, <4>2
    <3>4. FirstRow(D, up)[j] = dbm_LE_ZERO
      BY <2>2, <3>1, <3>2, <3>3 DEF FirstRow, LowerBeyond, bnd
    <3> QED
      BY <1>1, <1>3, <1>4, <3>1, <3>4
  <2> QED
    BY <2>1, <2>2
<1> HIDE DEF E, e
<1>9. ASSUME NEW i \in Clk \ free, NEW j \in Clk, i # j
      PROVE  E[i][j] = D[r[i]][s[j]]
  <2>1. CASE i = 0
    BY <1>8, <2>1
  <2>2. CASE i # 0
    <3>1. i # s[j]
      BY <1>2, <1>9, <2>2
    <3>2. e(i, s[j]) = D[i][s[j]]
      BY <1>2, <1>7, <2>2, <3>1
    <3> QED
      BY <1>4, <1>9, <2>2, <3>2
  <2> QED
    BY <2>1, <2>2
<1>10. Renamed(E, D, free, r, s)
  <2>1. \A i \in Clk : E[i][i] = dbm_LE_ZERO
    BY <1>1, <1>2, <1>3, <1>4, <1>8
  <2>2. \A i \in free : \A j \in Clk : i # j => E[i][j] = dbm_LS_INFINITY
    BY <1>2, <1>4, <1>6
  <2>3. \A k \in Clk \ free : D[s[k]][r[k]] <= dbm_LE_ZERO
    <3> TAKE k \in Clk \ free
    <3>1. r[k] = k /\ (s[k] = k \/ s[k] = 0)
      BY <1>2
    <3> HIDE DEF r, s
    <3> QED
      BY <1>3, <3>1, Infinity
  <2>4. 0 \notin free /\ r[0] = 0
    BY <1>1
  <2> HIDE DEF r, s, free
  <2> QED
    BY <1>5, <1>9, <2>1, <2>2, <2>3, <2>4 DEF Renamed
<1>11. free \in SUBSET Clk /\ r \in [Clk -> Clk] /\ s \in [Clk -> Clk]
  BY <1>2
<1> HIDE DEF r, s, free
<1>12. IsZone(E, 2 * A)
  BY <1>10, <1>11, RenamedIsZone
<1> QED
  BY <1>12 DEF IsZone, E

\* No closed matrix is below the reference without being below what is written.
LEMMA BelowReference ==
  ASSUME NEW D, NEW A \in Nat, A <= dbm_LE_OVERFLOW, IsZone(D, A),
         NEW low, NEW up, NEW L, AreTables(low, up, L),
         NEW F \in WideMatrix, Closed(F), NoLooser(F, ReferenceLU(D, low, up))
  PROVE  NoLooser(F, Written(D, low, up))
<1> DEFINE E == Written(D, low, up)
           R == ReferenceLU(D, low, up)
<1>1. /\ Loosened(E, D, L) /\ Loosened(R, D, L)
      /\ \A i, j \in Clk : E[i][j] # R[i][j] => E[i][j] = R[i][0]
  <2>1. Loosened(R, D, L)
    BY ReferenceLULoosened
  <2>2. /\ Loosened(E, D, L)
        /\ \A i, j \in Clk : E[i][j] # R[i][j] => i # 0 /\ Copied(up, j) = 0 /\ i # j
                                                  /\ E[i][j] = R[i][0]
    BY WrittenEntries
  <2> HIDE DEF E, R
  <2> QED
    BY <2>1, <2>2
<1>2. 0 \in Clk
  BY ZoneEntries
<1> HIDE DEF E, R
<1> SUFFICES ASSUME NEW i \in Clk, NEW j \in Clk, E[i][j] = R[i][0]
             PROVE  F[i][j] <= E[i][j]
  BY <1>1 DEF NoLooser, E, R
<1>3. /\ F[i][j] \in Int /\ F[i][j] <= dbm_LS_INFINITY
      /\ F[i][0] \in Int /\ F[0][j] \in Int
      /\ R[i][0] \in Int /\ R[i][0] <= dbm_LS_INFINITY /\ R[0][j] \in Int
  BY <1>1, <1>2, WideEntry DEF Loosened
<1>4. F[i][0] <= R[i][0] /\ F[0][j] <= R[0][j] /\ R[0][j] <= dbm_LE_ZERO
  BY <1>1, <1>2 DEF NoLooser, Loosened, R
<1>5. CASE R[i][0] = dbm_LS_INFINITY
  BY <1>3, <1>5
<1>6. CASE R[i][0] # dbm_LS_INFINITY
  <2>1. F[i][0] # dbm_LS_INFINITY /\ F[0][j] # dbm_LS_INFINITY /\ F[0][j] <= dbm_LE_ZERO
    BY <1>3, <1>4, <1>6, Infinity
  <2>2. F[i][j] <= dbm_addFiniteFinite(F[i][0], F[0][j])
    BY <1>2, <2>1 DEF Closed, ShortcutVia
  <2>3. dbm_addFiniteFinite(F[i][0], F[0][j]) <= dbm_addFiniteFinite(R[i][0], dbm_LE_ZERO)
    BY <1>3, <1>4, <2>1, Infinity, AddMonotone
  <2>4. dbm_addFiniteFinite(R[i][0], dbm_LE_ZERO) = R[i][0]
    BY <1>3, AddZero
  <2>5. dbm_addFiniteFinite(F[i][0], F[0][j]) \in Int
    BY <1>3, AddParts
  <2> QED
    BY <1>3, <2>2, <2>3, <2>4, <2>5
<1> QED
  BY <1>5, <1>6

\* Tighter bounds than tighter bounds.
LEMMA NoLooserTransitive ==
  ASSUME NEW X \in WideMatrix, NEW Y \in WideMatrix, NEW Z \in WideMatrix,
         NoLooser(X, Y), NoLooser(Y, Z)
  PROVE  NoLooser(X, Z)
<1> SUFFICES ASSUME NEW i \in Clk, NEW j \in Clk PROVE X[i][j] <= Z[i][j]
  BY DEF NoLooser
<1>1. X[i][j] \in Int /\ Y[i][j] \in Int /\ Z[i][j] \in Int
  BY WideEntry
<1>2. X[i][j] <= Y[i][j] /\ Y[i][j] <= Z[i][j]
  BY DEF NoLooser
<1> QED
  BY <1>1, <1>2

\* dbm_extrapolateLUBounds: column 0 is copied, and a closing that may be left out.
LEMMA LUCloses ==
  ASSUME NEW D, NEW A \in Nat, A <= dbm_LE_OVERFLOW, 2 * A <= dbm_LE_OVERFLOW, IsZone(D, A),
         NEW low, NEW up, NEW L, AreTables(low, up, L)
  PROVE  LET X == dbm_extrapolateLUBounds(D, low, up)
         IN  GreatestBelow(X, ReferenceLU(D, low, up)) /\ Extends(X, D, L)
<1> DEFINE R == ReferenceLU(D, low, up)
           E == Written(D, low, up)
           X == dbm_extrapolateLUBounds(D, low, up)
           changed ==
             \/ \E j \in Clk \ {0} : Out(D, up, j) /\ up[j] > -dbm_INFINITY
             \/ \E i \in Clk \ {0}, j \in Clk :
                  /\ i # j /\ up[j] # -dbm_INFINITY
                  /\ IF Loose(D, low, i, j) THEN low[i] > -dbm_INFINITY
                     ELSE bnd(D, i, j) < -up[j]
           Cut(i, j) == IF Loose(D, low, i, j) THEN dbm_LS_INFINITY
                        ELSE IF bnd(D, i, j) < -up[j]
                             THEN dbm_bound2raw(-up[j], dbm_STRICT) ELSE D[i][j]
<1>1. /\ 0 \in Clk /\ up[0] # -dbm_INFINITY
      /\ \A k \in Clk : /\ low[k] # -dbm_INFINITY => low[k] > -dbm_INFINITY
                        /\ up[k] # -dbm_INFINITY => up[k] > -dbm_INFINITY
  BY DEF AreTables, dbm_INFINITY
<1>2. \A i, j \in Clk :
        (IF up[j] = -dbm_INFINITY THEN Cut(i, 0) ELSE Cut(i, j))
          = EntryLU(D, low, up, i, Copied(up, j))
  <2> TAKE i, j \in Clk
  <2>1. Copied(up, j) \in Clk /\ up[Copied(up, j)] # -dbm_INFINITY
    BY <1>1 DEF Copied
  <2>2. EntryLU(D, low, up, i, Copied(up, j)) = Cut(i, Copied(up, j))
    BY <2>1, CutIsEntry
  <2>3. CASE up[j] = -dbm_INFINITY
    BY <2>2, <2>3 DEF Copied
  <2>4. CASE up[j] # -dbm_INFINITY
    BY <2>2, <2>4 DEF Copied
  <2> QED
    BY <2>3, <2>4
<1>3. E = [i \in Clk |->
             IF i = 0 THEN FirstRow(D, up)
             ELSE [j \in Clk |-> IF i = j THEN D[i][j]
                                 ELSE IF up[j] = -dbm_INFINITY THEN Cut(i, 0)
                                 ELSE Cut(i, j)]]
  <2> HIDE DEF Cut
  <2> QED
    BY <1>2 DEF Written
<1>4. X = IF changed THEN dbm_closeLU(E, low, up) ELSE E
  BY <1>3 DEF dbm_extrapolateLUBounds, Out, bnd
<1>5. changed \in BOOLEAN /\ (~changed => NothingCut(D, low, up))
  BY <1>1 DEF NothingCut
<1>6. ~changed => Closed(E)
  BY <1>5, NothingCutIsClosed
<1>7. Loosened(E, D, L) /\ NoLooser(E, R)
  BY WrittenEntries
<1>8. ASSUME NEW c \in Clk, low[c] = -dbm_INFINITY
      PROVE  ShortcutVia(E, c)
  <2>1. \A j \in Clk : c # 0 /\ EntryLU(D, low, up, c, j) = dbm_LS_INFINITY
    BY <1>8, ReferenceLULoosened
  <2>2. \A j \in Clk : Copied(up, j) \in Clk
    BY <1>1 DEF Copied
  <2>3. \A j \in Clk : c # j => E[c][j] = dbm_LS_INFINITY
    BY <2>1, <2>2 DEF Written
  <2> HIDE DEF E
  <2> QED
    BY <1>7, <2>3, InfiniteRow DEF Loosened
<1>9. \A F \in WideMatrix : Closed(F) /\ NoLooser(F, R) => NoLooser(F, E)
  BY BelowReference
<1>10. R \in WideMatrix
  BY ReferenceLULoosened DEF Loosened
<1> HIDE DEF changed, R, E, X
<1>11. GreatestBelow(X, E) /\ Extends(X, D, L)
  BY <1>4, <1>5, <1>6, <1>7, <1>8, ClosesIfChanged
<1>12. NoLooser(X, R)
  <2>1. X \in WideMatrix /\ E \in WideMatrix /\ NoLooser(X, E)
    BY <1>7, <1>11 DEF GreatestBelow, Loosened
  <2> QED
    BY <1>7, <1>10, <2>1, NoLooserTransitive
<1>13. GreatestBelow(X, R)
  BY <1>9, <1>11, <1>12 DEF GreatestBelow
<1> QED
  BY <1>11, <1>13 DEF R, X

-----------------------------------------------------------------------------
(* The extrapolations, and how they compare. *)

Diagonal(a) == a \in {"dbm_diagonalExtrapolateMaxBounds", "dbm_diagonalExtrapolateLUBounds"}

\* Each returns the greatest closed matrix below its reference.
LEMMA ExtrapolatedCloses ==
  ASSUME NEW D, NEW A \in Nat, A <= dbm_LE_OVERFLOW, 2 * A <= dbm_LE_OVERFLOW, IsZone(D, A),
         NEW low, NEW up, NEW L, AreTables(low, up, L),
         NEW a \in MaxAlgos \cup LUAlgos, a \in MaxAlgos => low = up
  PROVE  LET X == Extrapolated(a, D, low, up)
         IN  /\ GreatestBelow(X, Reference(Diagonal(a), D, low, up))
             /\ Extends(X, D, L)
<1> DEFINE X == Extrapolated(a, D, low, up)
           Good(Y, d) == GreatestBelow(Y, Reference(d, D, low, up)) /\ Extends(Y, D, L)
<1>1. Good(dbm_extrapolateLUBounds(D, low, up), FALSE)
  BY LUCloses DEF ReferenceLU
<1>2. Good(dbm_diagonalExtrapolateLUBounds(D, low, up), TRUE)
  BY DiagonalLUCloses
<1>3. low = up => Good(dbm_extrapolateMaxBounds(D, low), FALSE)
  BY <1>1 DEF dbm_extrapolateMaxBounds
<1>4. low = up => Good(dbm_diagonalExtrapolateMaxBounds(D, low), TRUE)
  BY DiagonalMaxCloses
<1> HIDE DEF Good
<1>5. CASE a = "dbm_extrapolateMaxBounds"
  <2>1. X = dbm_extrapolateMaxBounds(D, low) /\ Diagonal(a) = FALSE /\ low = up
    BY <1>5 DEF Extrapolated, Diagonal, MaxAlgos
  <2> QED
    BY <1>3, <2>1 DEF Good
<1>6. CASE a = "dbm_diagonalExtrapolateMaxBounds"
  <2>1. X = dbm_diagonalExtrapolateMaxBounds(D, low) /\ Diagonal(a) = TRUE /\ low = up
    BY <1>6 DEF Extrapolated, Diagonal, MaxAlgos
  <2> QED
    BY <1>4, <2>1 DEF Good
<1>7. CASE a = "dbm_extrapolateLUBounds"
  <2>1. X = dbm_extrapolateLUBounds(D, low, up) /\ Diagonal(a) = FALSE
    BY <1>7 DEF Extrapolated, Diagonal
  <2> QED
    BY <1>1, <2>1 DEF Good
<1>8. CASE a = "dbm_diagonalExtrapolateLUBounds"
  <2>1. X = dbm_diagonalExtrapolateLUBounds(D, low, up) /\ Diagonal(a) = TRUE
    BY <1>8 DEF Extrapolated, Diagonal
  <2> QED
    BY <1>2, <2>1 DEF Good
<1> QED
  BY <1>5, <1>6, <1>7, <1>8 DEF MaxAlgos, LUAlgos

\* Closing the reference for every clock returns the same.
LEMMA ReferenceCloses ==
  ASSUME NEW D, NEW A \in Nat, A <= dbm_LE_OVERFLOW, IsZone(D, A),
         NEW low, NEW up, NEW L, AreTables(low, up, L), NEW diagonal \in BOOLEAN,
         NEW X, GreatestBelow(X, Reference(diagonal, D, low, up))
  PROVE  X = dbm_close(Reference(diagonal, D, low, up))
<1> DEFINE R == Reference(diagonal, D, low, up)
<1>1. Loosened(R, D, L)
  BY ReferenceLoosened
<1>2. L \in Nat /\ 12 * (dim + 1) * (L + 1) <= dbm_LE_OVERFLOW
  BY DEF AreTables
<1>3. GreatestBelow(X, R)
  OBVIOUS
<1> HIDE DEF R
<1>4. GreatestBelow(CloseVia(R, Clk), R)
  BY <1>1, <1>2, LoosenedCloses
<1>5. NoLooser(X, R) /\ NoLooser(CloseVia(R, Clk), R)
  BY <1>3, <1>4 DEF GreatestBelow
<1>6. X = CloseVia(R, Clk)
  BY <1>3, <1>4, <1>5, GreatestIsUnique
<1> QED
  BY <1>6 DEF dbm_close, R

\* The closures of ordered references are ordered.
LEMMA GreatestOrdered ==
  ASSUME NEW X, NEW E \in WideMatrix, NEW Y, NEW R \in WideMatrix,
         GreatestBelow(X, E), GreatestBelow(Y, R), NoLooser(E, R)
  PROVE  NoLooser(X, Y)
<1>1. X \in WideMatrix /\ Closed(X) /\ NoLooser(X, E)
  BY DEF GreatestBelow
<1>2. NoLooser(X, R)
  BY <1>1, NoLooserTransitive
<1> QED
  BY <1>1, <1>2 DEF GreatestBelow

\* The entries of a reference get looser with smaller tables, and on the diagonals.
LEMMA EntriesOrdered ==
  ASSUME NEW D, NEW A \in Nat, A <= dbm_LE_OVERFLOW, IsZone(D, A), NEW L,
         NEW low, NEW up, AreTables(low, up, L),
         NEW low2, NEW up2, AreTables(low2, up2, L),
         \A k \in Clk : low[k] <= low2[k] /\ up[k] <= up2[k],
         NEW i \in Clk, NEW j \in Clk
  PROVE  /\ EntryOf(TRUE, D, low2, up2, i, j) <= EntryOf(TRUE, D, low, up, i, j)
         /\ EntryOf(FALSE, D, low2, up2, i, j) <= EntryOf(FALSE, D, low, up, i, j)
         /\ EntryOf(FALSE, D, low, up, i, j) <= EntryOf(TRUE, D, low, up, i, j)
         /\ FirstRow(D, up2)[j] <= FirstRow(D, up)[j]
<1> DEFINE x == D[i][j]
           b == bnd(D, i, j)
           z == D[0][j]
           c == bnd(D, 0, j)
           h == bnd(D, 0, i)
           l == low[i]
           l2 == low2[i]
           u == up[j]
           u2 == up2[j]
           d == EntryOf(TRUE, D, low, up, i, j)
           d2 == EntryOf(TRUE, D, low2, up2, i, j)
           e == EntryOf(FALSE, D, low, up, i, j)
           e2 == EntryOf(FALSE, D, low2, up2, i, j)
           f == FirstRow(D, up)[j]
           f2 == FirstRow(D, up2)[j]
<1>1. /\ 0 \in Clk /\ dbm_INFINITY \in Int /\ 0 < dbm_INFINITY /\ L \in Nat
      /\ \A k \in Clk : /\ low[k] = -dbm_INFINITY \/ low[k] \in 0 .. L
                        /\ up[k] = -dbm_INFINITY \/ up[k] \in 0 .. L
                        /\ low2[k] = -dbm_INFINITY \/ low2[k] \in 0 .. L
                        /\ up2[k] = -dbm_INFINITY \/ up2[k] \in 0 .. L
  <2>1. dbm_INFINITY \in Int /\ 0 < dbm_INFINITY
    BY SMT DEF dbm_INFINITY
  <2> QED
    BY <2>1 DEF AreTables
<1>2. /\ x \in Int /\ z \in Int /\ z <= x /\ x <= dbm_LS_INFINITY /\ z <= dbm_LE_ZERO
      /\ b \in Int /\ c \in Int /\ h \in Int /\ c <= b
  <2>1. /\ x \in Int /\ z \in Int /\ z <= x /\ x <= dbm_LS_INFINITY /\ z <= dbm_LE_ZERO
    BY <1>1, ZoneEntries, ZoneOrder
  <2>2. /\ b \in Int /\ c \in Int /\ h \in Int /\ 2 * c <= z /\ x <= 2 * b + 1
    BY <1>1, ZoneBounds
  <2> HIDE DEF x, z, b, c, h
  <2> QED
    BY <2>1, <2>2
<1>3. l <= l2 /\ u <= u2
  OBVIOUS
<1>4. /\ d \in Int /\ x <= d /\ d <= dbm_LS_INFINITY /\ d2 \in Int /\ d2 <= dbm_LS_INFINITY
      /\ e \in Int /\ x <= e /\ e <= dbm_LS_INFINITY /\ e2 \in Int /\ e2 <= dbm_LS_INFINITY
  BY EntryLoosened
<1>5. f \in Int /\ z <= f /\ f <= dbm_LE_ZERO /\ f2 \in Int /\ f2 <= dbm_LE_ZERO
  BY FirstRowEntry
<1>6. /\ d = IF b > l \/ h < -l \/ c < -u THEN dbm_LS_INFINITY ELSE x
      /\ d2 = IF b > l2 \/ h < -l2 \/ c < -u2 THEN dbm_LS_INFINITY ELSE x
  BY DEF EntryOf, Out
<1>7. /\ e = IF b > l THEN dbm_LS_INFINITY
             ELSE IF b < -u THEN IF u >= 0 THEN dbm_bound2raw(-u, dbm_STRICT)
                                 ELSE dbm_LS_INFINITY
             ELSE x
      /\ e2 = IF b > l2 THEN dbm_LS_INFINITY
              ELSE IF b < -u2 THEN IF u2 >= 0 THEN dbm_bound2raw(-u2, dbm_STRICT)
                                   ELSE dbm_LS_INFINITY
              ELSE x
  BY DEF EntryOf
<1>8. /\ f = IF j # 0 /\ c < -u
             THEN IF u >= 0 THEN dbm_bound2raw(-u, dbm_STRICT) ELSE dbm_LE_ZERO
             ELSE z
      /\ f2 = IF j # 0 /\ c < -u2
              THEN IF u2 >= 0 THEN dbm_bound2raw(-u2, dbm_STRICT) ELSE dbm_LE_ZERO
              ELSE z
  BY DEF FirstRow, LowerBeyond, bnd
<1>9. l \in Int /\ l2 \in Int /\ u \in Int /\ u2 \in Int
  BY <1>1
<1>10. dbm_bound2raw(-u, dbm_STRICT) = 2 * (-u) /\ dbm_bound2raw(-u2, dbm_STRICT) = 2 * (-u2)
  BY <1>9, StrictParts
<1> HIDE DEF x, b, z, c, h, l, l2, u, u2, d, d2, e, e2, f, f2
<1>11. d2 <= d
  BY <1>2, <1>3, <1>4, <1>6, <1>9
<1>12. e2 <= e
  <2>1. CASE b > l \/ (~(b < -u2) /\ ~(b > l2))
    BY <1>2, <1>3, <1>4, <1>7, <1>9, <2>1
  <2>2. CASE ~(b > l) /\ b < -u2
    <3>1. ~(b > l2) /\ b < -u
      BY <1>2, <1>3, <1>9, <2>2
    <3>2. u >= 0 => u2 >= 0
      BY <1>3, <1>9
    <3>3. u >= 0 => e2 = 2 * (-u2) /\ e = 2 * (-u)
      BY <1>7, <1>10, <2>2, <3>1, <3>2
    <3>4. ~(u >= 0) => e = dbm_LS_INFINITY
      BY <1>7, <2>2, <3>1
    <3> QED
      BY <1>3, <1>4, <1>9, <3>3, <3>4
  <2> QED
    BY <1>2, <1>3, <1>9, <2>1, <2>2
<1>13. e <= d
  BY <1>2, <1>4, <1>6, <1>7, <1>9
<1>14. f2 <= f
  <2>1. CASE j = 0 \/ ~(c < -u2)
    BY <1>5, <1>8, <2>1
  <2>2. CASE j # 0 /\ c < -u2
    <3>1. c < -u
      BY <1>2, <1>3, <1>9, <2>2
    <3>2. u >= 0 => u2 >= 0
      BY <1>3, <1>9
    <3>3. u >= 0 => f2 = 2 * (-u2) /\ f = 2 * (-u)
      BY <1>8, <1>10, <2>2, <3>1, <3>2
    <3>4. ~(u >= 0) => f = dbm_LE_ZERO
      BY <1>8, <2>2, <3>1
    <3> QED
      BY <1>3, <1>5, <1>9, <3>3, <3>4
  <2> QED
    BY <2>1, <2>2
<1> QED
  BY <1>11, <1>12, <1>13, <1>14 DEF d, d2, e, e2, f, f2

\* So are the references.
LEMMA ReferencesOrdered ==
  ASSUME NEW D, NEW A \in Nat, A <= dbm_LE_OVERFLOW, IsZone(D, A), NEW L,
         NEW low, NEW up, AreTables(low, up, L),
         NEW low2, NEW up2, AreTables(low2, up2, L),
         \A k \in Clk : low[k] <= low2[k] /\ up[k] <= up2[k]
  PROVE  /\ NoLooser(Reference(TRUE, D, low2, up2), Reference(TRUE, D, low, up))
         /\ NoLooser(Reference(FALSE, D, low2, up2), Reference(FALSE, D, low, up))
         /\ NoLooser(Reference(FALSE, D, low, up), Reference(TRUE, D, low, up))
<1> DEFINE Ordered(p, l, u, q, v, w) ==
             NoLooser(Reference(p, D, l, u), Reference(q, D, v, w))
<1>1. ASSUME NEW p, NEW q, NEW l, NEW u, NEW v, NEW w,
             \A i, j \in Clk : EntryOf(p, D, l, u, i, j) <= EntryOf(q, D, v, w, i, j),
             \A j \in Clk : FirstRow(D, u)[j] <= FirstRow(D, w)[j]
      PROVE  Ordered(p, l, u, q, v, w)
  <2> SUFFICES ASSUME NEW i \in Clk, NEW j \in Clk
               PROVE  Reference(p, D, l, u)[i][j] <= Reference(q, D, v, w)[i][j]
    BY DEF NoLooser
  <2>1. CASE i = 0
    BY <1>1, <2>1 DEF Reference
  <2>2. CASE i # 0 /\ i = j
    <3>1. D[i][j] \in Int
      BY ZoneEntries
    <3> QED
      BY <2>2, <3>1 DEF Reference
  <2>3. CASE i # 0 /\ i # j
    BY <1>1, <2>3 DEF Reference
  <2> QED
    BY <2>1, <2>2, <2>3
<1>2. \A i, j \in Clk :
        /\ EntryOf(TRUE, D, low2, up2, i, j) <= EntryOf(TRUE, D, low, up, i, j)
        /\ EntryOf(FALSE, D, low2, up2, i, j) <= EntryOf(FALSE, D, low, up, i, j)
        /\ EntryOf(FALSE, D, low, up, i, j) <= EntryOf(TRUE, D, low, up, i, j)
        /\ FirstRow(D, up2)[j] <= FirstRow(D, up)[j]
  BY EntriesOrdered
<1>3. \A j \in Clk : /\ FirstRow(D, up2)[j] <= FirstRow(D, up)[j]
                     /\ FirstRow(D, up)[j] <= FirstRow(D, up)[j]
  <2> TAKE j \in Clk
  <2>1. FirstRow(D, up2)[j] <= FirstRow(D, up)[j]
    BY <1>2
  <2>2. FirstRow(D, up)[j] \in Int
    BY FirstRowEntry
  <2> DEFINE f == FirstRow(D, up)[j]
  <2>3. f <= f
    <3> HIDE DEF f
    <3>1. f \in Int
      BY <2>2 DEF f
    <3> QED
      BY <3>1
  <2> QED
    BY <2>1, <2>3
<1> HIDE DEF Ordered
<1>4. Ordered(TRUE, low2, up2, TRUE, low, up)
  BY <1>1, <1>2, <1>3
<1>5. Ordered(FALSE, low2, up2, FALSE, low, up)
  BY <1>1, <1>2, <1>3
<1>6. Ordered(FALSE, low, up, TRUE, low, up)
  BY <1>1, <1>2, <1>3
<1> QED
  BY <1>4, <1>5, <1>6 DEF Ordered

-----------------------------------------------------------------------------
(* The exploration. *)

\* The constants that a step may leave in the zone, and an extrapolation in dbm.
Extrapolates == 2 * dim * Largest + 2
Steps == 3 * Extrapolates

\* The zone is one to extrapolate, with tables of Bounds, and dbm is what comes out.
Inv ==
  /\ algo \in MaxAlgos \cup LUAlgos
  /\ algo \in MaxAlgos => lower = upper
  /\ \E b \in Bounds : lower = b.lower /\ upper = b.upper
  /\ IsZone(zone, Steps)
  /\ dbm = Extrapolated(algo, zone, lower, upper)

\* The tables and the guards have constants up to Largest.
LEMMA TablesOfBounds ==
  ASSUME NEW b \in Bounds, lower = b.lower, upper = b.upper
  PROVE  /\ AreTables(lower, upper, Largest)
         /\ \A raw \in Raws : raw \in Int /\ -(2 * Largest + 2) < raw /\ raw < 2 * Largest + 2
<1> DEFINE T == ConstantsOf(lower, upper)
           S == {-c : c \in T}
<1>1. 0 \in Clk
  BY DimAssumption DEF Clk
<1>2. /\ lower[0] = 0 /\ upper[0] = 0
      /\ \A k \in Clk : /\ lower[k] = -dbm_INFINITY \/ lower[k] \in Nat
                        /\ upper[k] = -dbm_INFINITY \/ upper[k] \in Nat
  BY BoundsAssumption
<1>3. dbm_INFINITY \in Int /\ 0 < dbm_INFINITY
  BY SMT DEF dbm_INFINITY
<1>4. \A raw \in Raws : /\ raw \in Int /\ dbm_raw2bound(raw) \in Int
                        /\ raw = 2 * dbm_raw2bound(raw) \/ raw = 2 * dbm_raw2bound(raw) + 1
  BY RawsAssumption, RawParts DEF Raw
<1>5. /\ \A k \in Clk : lower[k] \in T /\ upper[k] \in T
      /\ \A raw \in Raws : dbm_raw2bound(raw) \in T /\ -dbm_raw2bound(raw) \in T
  BY DEF ConstantsOf
<1>6. T \in SUBSET Int
  BY <1>2, <1>3, <1>4 DEF ConstantsOf
<1>7. \A c \in T : c >= 0 => 12 * (dim + 1) * (c + 1) <= dbm_LE_OVERFLOW
  BY RoomAssumption
<1>8. Largest = CHOOSE c \in T : \A d \in T : d <= c
  BY DEF Largest
<1> HIDE DEF T
<1>9. \A c \in T : c <= dbm_LE_OVERFLOW
  <2> TAKE c \in T
  <2>1. c \in Int /\ dbm_LE_OVERFLOW \in Int /\ 0 <= dbm_LE_OVERFLOW
    BY <1>6, Infinity
  <2>2. CASE c >= 0
    <3>1. c \in Nat /\ 12 * (dim + 1) * (c + 1) <= dbm_LE_OVERFLOW
      BY <1>7, <2>1, <2>2
    <3>2. c < dbm_LE_OVERFLOW
      BY <3>1, RoomFor
    <3> QED
      BY <2>1, <3>2
  <2> QED
    BY <2>1, <2>2
<1>10. S \in SUBSET Int /\ S # {} /\ -dbm_LE_OVERFLOW \in Int
       /\ \A x \in S : -dbm_LE_OVERFLOW <= x
  <2>1. \A c \in T : -c \in Int /\ -dbm_LE_OVERFLOW <= -c
    BY <1>6, <1>9, Infinity
  <2>2. T # {}
    BY <1>1, <1>5
  <2> QED
    BY <2>1, <2>2, Infinity
<1>11. PICK x \in S : \A y \in S : x <= y
  BY <1>10, LeastInteger
<1>12. PICK c \in T : x = -c
  OBVIOUS
<1>13. \A d \in T : d <= c
  <2> TAKE d \in T
  <2>1. -d \in S /\ d \in Int /\ c \in Int
    BY <1>6
  <2>2. -c <= -d
    BY <1>11, <1>12, <2>1
  <2> QED
    BY <2>1, <2>2
<1>14. Largest \in T /\ \A d \in T : d <= Largest
  BY <1>8, <1>13
<1>15. Largest \in Nat
  <2>1. 0 \in T
    BY <1>1, <1>2, <1>5
  <2> QED
    BY <1>6, <1>14, <2>1
<1>16. 12 * (dim + 1) * (Largest + 1) <= dbm_LE_OVERFLOW
  BY <1>7, <1>14, <1>15
<1>17. \A k \in Clk : /\ lower[k] = -dbm_INFINITY \/ lower[k] \in 0 .. Largest
                      /\ upper[k] = -dbm_INFINITY \/ upper[k] \in 0 .. Largest
  BY <1>2, <1>5, <1>14, <1>15
<1>18. ASSUME NEW raw \in Raws
       PROVE  raw \in Int /\ -(2 * Largest + 2) < raw /\ raw < 2 * Largest + 2
  <2> DEFINE p == dbm_raw2bound(raw)
  <2>1. raw \in Int /\ p \in Int /\ (raw = 2 * p \/ raw = 2 * p + 1)
        /\ p <= Largest /\ -p <= Largest
    BY <1>4, <1>5, <1>14
  <2> HIDE DEF p
  <2> QED
    BY <1>15, <2>1
<1>19. AreTables(lower, upper, Largest)
  BY <1>1, <1>2, <1>15, <1>16, <1>17 DEF AreTables
<1> QED
  BY <1>18, <1>19

\* There is room for the constants of both.
LEMMA Rooms ==
  ASSUME AreTables(lower, upper, Largest)
  PROVE  /\ Largest \in Nat /\ Extrapolates \in Nat /\ Steps \in Nat
         /\ 3 * Extrapolates <= dbm_LE_OVERFLOW
         /\ Steps <= dbm_LE_OVERFLOW /\ 2 * Steps <= dbm_LE_OVERFLOW
         /\ 2 * Largest + 2 <= Extrapolates /\ 1 < Steps
         /\ Extrapolates <= Steps /\ 2 * Extrapolates <= Steps
<1> DEFINE L == Largest
           C == 2 * dim * L + 2
<1>1. L \in Nat /\ 12 * (dim + 1) * (L + 1) <= dbm_LE_OVERFLOW
  BY DEF AreTables
<1>2. /\ C \in Nat /\ 3 * C <= dbm_LE_OVERFLOW /\ 6 * C <= dbm_LE_OVERFLOW
      /\ 2 * L + 2 <= C
  <2> HIDE DEF L
  <2> QED
    BY <1>1, RoomFor
<1>3. Extrapolates = C /\ Steps = 3 * C
  BY DEF Extrapolates, Steps
<1> HIDE DEF L, C
<1>4. /\ L \in Nat /\ C \in Nat /\ 3 * C \in Nat /\ 2 * (3 * C) = 6 * C
      /\ 1 < 3 * C /\ C <= 3 * C /\ 2 * C <= 3 * C
  BY <1>1, <1>2
<1> QED
  BY <1>2, <1>3, <1>4, Infinity DEF L

\* What the invariant says of dbm.
LEMMA InvExtrapolates ==
  ASSUME Inv
  PROVE  /\ AreTables(lower, upper, Largest)
         /\ GreatestBelow(dbm, Reference(Diagonal(algo), zone, lower, upper))
         /\ Extends(dbm, zone, Largest)
         /\ IsZone(dbm, Extrapolates)
<1>1. AreTables(lower, upper, Largest)
  BY TablesOfBounds DEF Inv
<1>2. Steps \in Nat /\ Steps <= dbm_LE_OVERFLOW /\ 2 * Steps <= dbm_LE_OVERFLOW
  BY <1>1, Rooms
<1>3. /\ GreatestBelow(dbm, Reference(Diagonal(algo), zone, lower, upper))
      /\ Extends(dbm, zone, Largest)
  BY <1>1, <1>2, ExtrapolatedCloses DEF Inv
<1> QED
  BY <1>1, <1>3 DEF Extends, Extrapolates

\* The point at the origin is a zone with room for a step.
LEMMA InitInv == Init => Inv
<1> SUFFICES ASSUME Init PROVE Inv
  OBVIOUS
<1>1. PICK b \in Bounds : lower = b.lower /\ upper = b.upper
  BY DEF Init
<1>2. AreTables(lower, upper, Largest)
  BY <1>1, TablesOfBounds
<1>3. Steps \in Nat /\ dbm_LE_ZERO < Steps
  BY <1>2, Rooms, Infinity
<1>4. IsZone(dbm_zero, Steps)
  BY <1>3, InitAndZeroAreZones
<1> QED
  BY <1>1, <1>4 DEF Init, Inv

\* A step that reaches a zone extrapolates it with the same tables.
LEMMA ReachKeeps ==
  ASSUME Inv, NEW Z, Reach(Z), Z = Empty \/ IsZone(Z, Steps)
  PROVE  Inv'
<1>1. Largest' = Largest /\ Steps' = Steps
  BY DEF Reach, Largest, Steps, Extrapolates
<1>2. IsZone(Z, Steps)
  BY DEF Reach
<1>3. IsZone(zone, Steps)'
  BY <1>1, <1>2 DEF Reach, IsZone
<1> QED
  BY <1>3 DEF Reach, Inv

\* One disjunct of Next per step: what is reached is extrapolated again.
LEMMA NextKeeps ==
  ASSUME Inv, Next
  PROVE  Inv'
<1>1. AreTables(lower, upper, Largest) /\ IsZone(dbm, Extrapolates)
  BY InvExtrapolates
<1>2. /\ Largest \in Nat /\ Extrapolates \in Nat /\ Steps \in Nat
      /\ 3 * Extrapolates <= dbm_LE_OVERFLOW /\ 2 * Extrapolates <= dbm_LE_OVERFLOW
      /\ 2 * Largest + 2 <= Extrapolates
      /\ Extrapolates <= Steps /\ 2 * Extrapolates <= Steps /\ Steps = 3 * Extrapolates
  <2>1. /\ Largest \in Nat /\ Extrapolates \in Nat /\ Steps \in Nat
        /\ 3 * Extrapolates <= dbm_LE_OVERFLOW
        /\ 2 * Largest + 2 <= Extrapolates
        /\ Extrapolates <= Steps /\ 2 * Extrapolates <= Steps
    BY <1>1, Rooms
  <2> QED
    BY <2>1, Infinity DEF Steps
<1>3. CASE Guard
  <2>1. PICK i \in Clk, j \in Clk, raw \in Raws :
          i # j /\ Reach(dbm_constrain1(dbm, [i |-> i, j |-> j, value |-> raw]))
    BY <1>3 DEF Guard
  <2> DEFINE c == [i |-> i, j |-> j, value |-> raw]
             Z == dbm_constrain1(dbm, c)
             T == IF dbm[c.i][c.j] <= c.value THEN dbm ELSE [dbm EXCEPT ![c.i][c.j] = c.value]
  <2>2. raw \in Int /\ -(2 * Largest + 2) < raw /\ raw < 2 * Largest + 2
    BY TablesOfBounds DEF Inv
  <2>3. /\ c.i \in Clk /\ c.j \in Clk /\ c.i # c.j /\ c.value \in Int
        /\ -Extrapolates < c.value /\ c.value < Extrapolates
    BY <1>2, <2>1, <2>2
  <2>4. Reach(Z)
    BY <2>1
  <2> HIDE DEF c
  <2>5. ClosureOf(Z, T, 3 * Extrapolates)
    BY <1>1, <1>2, <2>3, Constrain1Closes
  <2>6. Z = Empty \/ IsZone(Z, Steps)
    BY <1>2, <2>5 DEF ClosureOf
  <2> HIDE DEF Z, T
  <2> QED
    BY <2>4, <2>6, ReachKeeps
<1>4. CASE ResetClock
  <2>1. PICK k \in Clk \ {0} : Reach(dbm_updateValue(dbm, k, 0))
    BY <1>4 DEF ResetClock
  <2>2. IsZone(dbm_updateValue(dbm, k, 0), 2 * Extrapolates)
    BY <1>1, <1>2, UpdateValueIsZone
  <2>3. IsZone(dbm_updateValue(dbm, k, 0), Steps)
    BY <1>2, <2>2, ZoneWithin
  <2> QED
    BY <2>1, <2>3, ReachKeeps
<1>5. CASE FreeClock
  <2>1. PICK k \in Clk \ {0} : Reach(dbm_freeClock(dbm, k))
    BY <1>5 DEF FreeClock
  <2>2. IsZone(dbm_freeClock(dbm, k), 2 * Extrapolates)
    BY <1>1, <1>2, FreeClockIsZone
  <2>3. IsZone(dbm_freeClock(dbm, k), Steps)
    BY <1>2, <2>2, ZoneWithin
  <2> QED
    BY <2>1, <2>3, ReachKeeps
<1>6. CASE Delay
  <2>1. Reach(dbm_up(dbm))
    BY <1>6 DEF Delay
  <2>2. IsZone(dbm_up(dbm), Extrapolates)
    BY <1>1, <1>2, UpIsZone
  <2>3. IsZone(dbm_up(dbm), Steps)
    BY <1>2, <2>2, ZoneWithin
  <2> QED
    BY <2>1, <2>3, ReachKeeps
<1> QED
  BY <1>3, <1>4, <1>5, <1>6 DEF Next

\* The zones of an exploration are ones to extrapolate: no step from an extrapolated zone
\* leaves room for a sum that does not fit, however long the exploration runs.
THEOREM Extrapolating == Spec => []Inv
<1>1. Inv /\ [Next]_vars => Inv'
  <2> SUFFICES ASSUME Inv, [Next]_vars PROVE Inv'
    OBVIOUS
  <2>1. CASE Next
    BY <2>1, NextKeeps
  <2>2. CASE UNCHANGED vars
    BY <2>2 DEF vars, Inv, Steps, Extrapolates, Largest, IsZone
  <2> QED
    BY <2>1, <2>2
<1> QED
  BY <1>1, InitInv, PTL DEF Spec

-----------------------------------------------------------------------------
(* The invariants of the exploration. *)

\* A zone with constants that a step may leave is a matrix of raws, and valid.
LEMMA SmallZoneIsValid ==
  ASSUME NEW D, NEW A \in Nat, A <= dbm_LE_OVERFLOW, IsZone(D, A)
  PROVE  D \in Matrix /\ dbm_isValid(D)
<1>1. /\ \A i, j \in Clk : D[i][j] \in Int /\ D[i][j] <= dbm_LS_INFINITY
      /\ \A i, j \in Clk : D[i][j] # dbm_LS_INFINITY => -A < D[i][j] /\ D[i][j] < A
      /\ \A i \in Clk : D[i][i] = dbm_LE_ZERO
      /\ \A j \in Clk : D[0][j] <= dbm_LE_ZERO
      /\ \A i, k, j \in Clk : D[i][k] # dbm_LS_INFINITY /\ D[k][j] # dbm_LS_INFINITY
           => /\ D[i][j] # dbm_LS_INFINITY
              /\ D[i][j] <= dbm_addFiniteFinite(D[i][k], D[k][j])
  BY ZoneEntries
<1>2. \A i, j \in Clk : D[i][j] \in Raw
  BY <1>1, Infinity DEF Raw, dbm_isValidRaw
<1>3. D \in Matrix
  BY <1>2 DEF IsZone, WideMatrix, Matrix
<1>4. dbm_isClosed(D)
  BY <1>1, Infinity DEF dbm_isClosed, TightVia
<1>5. ~dbm_isEmpty(D)
  BY <1>1, Infinity DEF dbm_isEmpty
<1> QED
  BY <1>1, <1>3, <1>4, <1>5 DEF dbm_isValid

\* TypeOK and Canonical are what GreatestBelow and the sums along paths say of dbm.
LEMMA InvType ==
  ASSUME Inv
  PROVE  TypeOK /\ Canonical
<1>1. /\ AreTables(lower, upper, Largest) /\ Extends(dbm, zone, Largest)
      /\ IsZone(dbm, Extrapolates) /\ IsZone(zone, Steps)
  BY InvExtrapolates DEF Inv
<1>2. /\ Extrapolates \in Nat /\ Extrapolates <= dbm_LE_OVERFLOW
      /\ Steps \in Nat /\ Steps <= dbm_LE_OVERFLOW
  <2>1. /\ Extrapolates \in Nat /\ Steps \in Nat /\ Steps <= dbm_LE_OVERFLOW
        /\ Extrapolates <= Steps
    BY <1>1, Rooms
  <2> QED
    BY <2>1, Infinity
<1>3. zone \in Matrix /\ dbm_isValid(dbm)
  BY <1>1, <1>2, SmallZoneIsValid
<1>4. \A i, j \in Clk :
        \/ dbm[i][j] = dbm_LS_INFINITY
        \/ dbm_raw2bound(dbm[i][j]) \in -((dim - 1) * Largest) .. (dim - 1) * Largest
  BY <1>1 DEF Extends, bnd
<1> QED
  BY <1>3, <1>4 DEF TypeOK, Canonical

\* TypeOK, of every behaviour: constants of extrapolated zones do not grow with the path.
THEOREM ConstantsBounded == Spec => []TypeOK
BY Extrapolating, InvType, PTL

\* Canonical, of every behaviour: what an extrapolation returns is closed and not empty,
\* although the closure skips clocks or is not run.
THEOREM AlwaysCanonical == Spec => []Canonical
BY Extrapolating, InvType, PTL

\* The definition in EqualsReference is Reference.
LEMMA InvEqualsReference ==
  ASSUME Inv
  PROVE  EqualsReference
<1> DEFINE R == Reference(Diagonal(algo), zone, lower, upper)
<1>1. AreTables(lower, upper, Largest) /\ GreatestBelow(dbm, R) /\ IsZone(zone, Steps)
  BY InvExtrapolates DEF Inv
<1>2. Steps \in Nat /\ Steps <= dbm_LE_OVERFLOW
  BY <1>1, Rooms
<1>3. Diagonal(algo) \in BOOLEAN
  BY DEF Diagonal
<1>4. dbm = dbm_close(R)
  BY <1>1, <1>2, <1>3, ReferenceCloses
<1>5. R = [i \in Clk |-> IF i = 0 THEN FirstRow(zone, upper) ELSE [j \in Clk |->
             IF i = j THEN zone[i][j]
             ELSE IF \/ dbm_raw2bound(zone[i][j]) > lower[i]
                     \/ Diagonal(algo) /\ (\/ dbm_raw2bound(zone[0][i]) < -lower[i]
                                           \/ dbm_raw2bound(zone[0][j]) < -upper[j])
             THEN dbm_LS_INFINITY
             ELSE IF ~Diagonal(algo) /\ dbm_raw2bound(zone[i][j]) < -upper[j]
             THEN IF upper[j] >= 0 THEN dbm_bound2raw(-upper[j], dbm_STRICT)
                  ELSE dbm_LS_INFINITY
             ELSE zone[i][j]]]
  BY DEF Reference, EntryOf, Out, bnd
<1> HIDE DEF R
<1> QED
  BY <1>4, <1>5 DEF EqualsReference, Diagonal

\* EqualsReference, of every behaviour: diff and changed never lose a closure that was
\* needed, and the clocks that dbm_closeLU skips shorten nothing.
THEOREM AlwaysEqualsReference == Spec => []EqualsReference
BY Extrapolating, InvEqualsReference, PTL

\* The larger of two tables is a table.
LEMMA LargerTable ==
  ASSUME NEW low, NEW up, NEW L, AreTables(low, up, L)
  PROVE  LET max == [k \in Clk |-> RawMax(low[k], up[k])]
         IN  AreTables(max, max, L) /\ \A k \in Clk : low[k] <= max[k] /\ up[k] <= max[k]
<1>1. /\ L \in Nat /\ 12 * (dim + 1) * (L + 1) <= dbm_LE_OVERFLOW
      /\ 0 \in Clk /\ low[0] = 0 /\ up[0] = 0
      /\ \A k \in Clk : /\ low[k] = -dbm_INFINITY \/ low[k] \in 0 .. L
                        /\ up[k] = -dbm_INFINITY \/ up[k] \in 0 .. L
  BY DEF AreTables
<1>2. dbm_INFINITY \in Int
  BY SMT DEF dbm_INFINITY
<1>3. \A k \in Clk : /\ RawMax(low[k], up[k]) \in {low[k], up[k]}
                     /\ low[k] <= RawMax(low[k], up[k]) /\ up[k] <= RawMax(low[k], up[k])
  <2> TAKE k \in Clk
  <2>1. low[k] \in Int /\ up[k] \in Int
    BY <1>1, <1>2
  <2>2. \A x, y \in Int : RawMax(x, y) \in {x, y} /\ x <= RawMax(x, y) /\ y <= RawMax(x, y)
    BY DEF RawMax
  <2> QED
    BY <2>1, <2>2
<1> DEFINE max == [k \in Clk |-> RawMax(low[k], up[k])]
<1>4. \A k \in Clk : max[k] \in {low[k], up[k]} /\ low[k] <= max[k] /\ up[k] <= max[k]
  BY <1>3
<1> HIDE DEF max
<1>5. max[0] = 0 /\ \A k \in Clk : max[k] = -dbm_INFINITY \/ max[k] \in 0 .. L
  BY <1>1, <1>4
<1> QED
  BY <1>1, <1>4, <1>5 DEF AreTables, max

\* References that are ordered entry by entry have closures that are.
LEMMA InvCoarser ==
  ASSUME Inv
  PROVE  Coarser
<1> DEFINE max == [k \in Clk |-> RawMax(lower[k], upper[k])]
           m == dbm_extrapolateMaxBounds(zone, max)
           lu == dbm_extrapolateLUBounds(zone, lower, upper)
           dm == dbm_diagonalExtrapolateMaxBounds(zone, max)
           dlu == dbm_diagonalExtrapolateLUBounds(zone, lower, upper)
           dm2 == dbm_diagonalExtrapolateLUBounds(zone, max, max)
           rm == Reference(FALSE, zone, max, max)
           rlu == Reference(FALSE, zone, lower, upper)
           rdm == Reference(TRUE, zone, max, max)
           rdlu == Reference(TRUE, zone, lower, upper)
           L == Largest
<1>1. /\ AreTables(lower, upper, L) /\ Extends(dbm, zone, L)
      /\ IsZone(zone, Steps)
  BY InvExtrapolates DEF Inv
<1>2. Steps \in Nat /\ Steps <= dbm_LE_OVERFLOW /\ 2 * Steps <= dbm_LE_OVERFLOW
  BY <1>1, Rooms
<1>3. AreTables(max, max, L) /\ \A k \in Clk : lower[k] <= max[k] /\ upper[k] <= max[k]
  BY <1>1, LargerTable
<1> HIDE DEF max, L
<1>4. GreatestBelow(m, rm) /\ Extends(m, zone, L)
  BY <1>1, <1>2, <1>3, LUCloses DEF dbm_extrapolateMaxBounds, ReferenceLU
<1>5. GreatestBelow(lu, rlu)
  BY <1>1, <1>2, LUCloses DEF ReferenceLU
<1>6. GreatestBelow(dm, rdm)
  BY <1>1, <1>2, <1>3, DiagonalMaxCloses
<1>7. GreatestBelow(dlu, rdlu)
  BY <1>1, <1>2, DiagonalLUCloses
<1>8. GreatestBelow(dm2, rdm)
  BY <1>1, <1>2, <1>3, DiagonalLUCloses
<1>9. /\ NoLooser(rdm, rdlu) /\ NoLooser(rm, rlu) /\ NoLooser(rlu, rdlu)
  BY <1>1, <1>2, <1>3, ReferencesOrdered
<1>10. NoLooser(rm, rdm)
  <2>1. \A k \in Clk : max[k] <= max[k] /\ max[k] <= max[k]
    <3>1. \A k \in Clk : max[k] \in Int
      BY <1>3 DEF AreTables, dbm_INFINITY
    <3> QED
      BY <3>1
  <2> QED
    BY <1>1, <1>2, <1>3, <2>1, ReferencesOrdered
<1>11. rm \in WideMatrix /\ rlu \in WideMatrix /\ rdm \in WideMatrix /\ rdlu \in WideMatrix
  <2>1. Loosened(rm, zone, L) /\ Loosened(rlu, zone, L)
    BY <1>1, <1>2, <1>3, ReferenceLoosened
  <2>2. Loosened(rdm, zone, L) /\ Loosened(rdlu, zone, L)
    BY <1>1, <1>2, <1>3, ReferenceLoosened
  <2> QED
    BY <2>1, <2>2 DEF Loosened
<1> HIDE DEF m, lu, dm, dlu, dm2, rm, rlu, rdm, rdlu
<1>12. /\ NoLooser(m, lu) /\ NoLooser(lu, dlu) /\ NoLooser(m, dm) /\ NoLooser(dm, dlu)
  BY <1>4, <1>5, <1>6, <1>7, <1>9, <1>10, <1>11, GreatestOrdered
<1>13. dm = dm2
  <2>1. NoLooser(dm, rdm) /\ NoLooser(dm2, rdm)
    BY <1>6, <1>8 DEF GreatestBelow
  <2> QED
    BY <1>6, <1>8, <2>1, GreatestIsUnique
<1>14. NoLooser(zone, dbm) /\ NoLooser(zone, m)
  BY <1>1, <1>4 DEF Extends
<1>15. /\ dbm_isSubsetEq(zone, dbm) /\ dbm_isSubsetEq(zone, m)
       /\ dbm_isSubsetEq(m, lu) /\ dbm_isSubsetEq(lu, dlu)
       /\ dbm_isSubsetEq(m, dm) /\ dbm_isSubsetEq(dm, dlu)
  BY <1>12, <1>14 DEF NoLooser, dbm_isSubsetEq
<1> QED
  BY <1>13, <1>15 DEF Coarser, m, lu, dm, dlu, dm2, max

\* Coarser, of every behaviour: the order of the four extrapolations.
THEOREM AlwaysCoarser == Spec => []Coarser
BY Extrapolating, InvCoarser, PTL

=============================================================================

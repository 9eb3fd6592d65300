------------------------------ MODULE ZoneLemmas ------------------------------
(***************************************************************************)
(* What the operations of src/dbm.c that do not tighten a zone do to it:   *)
(* a closed matrix with positive clocks stays one, without a closure       *)
(* being run, and its constants at most double.                            *)
(***************************************************************************)
EXTENDS DbmOps, DbmLemmas
-----------------------------------------------------------------------------
(* Zones. *)

\* What every call expects of a matrix and leaves: it is closed, its clocks are
\* positive, and its constants are below B.
IsZone(D, B) ==
  /\ D \in WideMatrix /\ Closed(D) /\ Bounded(D, B)
  /\ \A j \in Clk : D[0][j] <= dbm_LE_ZERO

\* A matrix given by its entries has the type of a matrix.
LEMMA EntriesType ==
  ASSUME NEW E, E = [i \in Clk |-> [j \in Clk |-> E[i][j]]],
         \A i, j \in Clk : E[i][j] \in Int /\ E[i][j] <= dbm_LS_INFINITY
  PROVE  E \in WideMatrix
<1>1. \A i \in Clk : E[i] = [j \in Clk |-> E[i][j]]
  OBVIOUS
<1> QED
  BY <1>1 DEF WideMatrix

\* The entries of a zone, with the sums of dbm_addFiniteFinite.
LEMMA ZoneEntries ==
  ASSUME NEW D, NEW B, IsZone(D, B)
  PROVE  /\ \A i, j \in Clk : D[i][j] \in Int /\ D[i][j] <= dbm_LS_INFINITY
         /\ \A i, j \in Clk : D[i][j] # dbm_LS_INFINITY => -B < D[i][j] /\ D[i][j] < B
         /\ \A i \in Clk : D[i][i] = dbm_LE_ZERO
         /\ \A j \in Clk : D[0][j] <= dbm_LE_ZERO /\ D[0][j] # dbm_LS_INFINITY
         /\ \A i, k, j \in Clk : D[i][k] # dbm_LS_INFINITY /\ D[k][j] # dbm_LS_INFINITY
              => /\ D[i][j] # dbm_LS_INFINITY
                 /\ D[i][j] <= dbm_addFiniteFinite(D[i][k], D[k][j])
         /\ 0 \in Clk
<1>1. 0 \in Clk
  BY DimAssumption DEF Clk
<1>2. \A i, j \in Clk : D[i][j] \in Int /\ D[i][j] <= dbm_LS_INFINITY
  BY WideEntry DEF IsZone
<1>3. \A j \in Clk : D[0][j] <= dbm_LE_ZERO /\ D[0][j] # dbm_LS_INFINITY
  BY <1>1, <1>2, Infinity DEF IsZone
<1> QED
  BY <1>1, <1>2, <1>3 DEF IsZone, Bounded, Closed, ZeroDiagonal, ShortcutVia

\* A matrix is a zone when its entries have these properties.
LEMMA ZoneFromEntries ==
  ASSUME NEW E, NEW B,
         E = [i \in Clk |-> [j \in Clk |-> E[i][j]]],
         \A i, j \in Clk :
           /\ E[i][j] \in Int /\ E[i][j] <= dbm_LS_INFINITY
           /\ E[i][j] # dbm_LS_INFINITY => -B < E[i][j] /\ E[i][j] < B,
         \A i \in Clk : E[i][i] = dbm_LE_ZERO,
         \A j \in Clk : E[0][j] <= dbm_LE_ZERO,
         \A i, k, j \in Clk :
           E[i][k] # dbm_LS_INFINITY /\ E[k][j] # dbm_LS_INFINITY
             => /\ E[i][j] # dbm_LS_INFINITY
                /\ E[i][j] <= dbm_addFiniteFinite(E[i][k], E[k][j])
  PROVE  IsZone(E, B)
<1>1. E \in WideMatrix
  BY EntriesType
<1>2. Bounded(E, B)
  BY DEF Bounded
<1>3. Closed(E)
  BY DEF Closed, ZeroDiagonal, ShortcutVia
<1> QED
  BY <1>1, <1>2, <1>3 DEF IsZone

\* The laws of the sums.
LEMMA SumLaws ==
  /\ \A x, y \in Int : dbm_addFiniteFinite(x, y) \in Int
  /\ \A x, y \in Int : dbm_addFiniteFinite(x, y) = dbm_addFiniteFinite(y, x)
  /\ \A x, y, z \in Int : dbm_addFiniteFinite(dbm_addFiniteFinite(x, y), z)
                            = dbm_addFiniteFinite(x, dbm_addFiniteFinite(y, z))
  /\ \A x \in Int : dbm_addFiniteFinite(dbm_LE_ZERO, x) = x
  /\ \A x, y, z \in Int :
       x <= y => /\ dbm_addFiniteFinite(x, z) <= dbm_addFiniteFinite(y, z)
                 /\ dbm_addFiniteFinite(z, x) <= dbm_addFiniteFinite(z, y)
<1>1. \A x, y \in Int : dbm_addFiniteFinite(x, y) = dbm_addFiniteFinite(y, x)
  BY DEF dbm_addFiniteFinite
<1>2. \A x, y, z \in Int :
       x <= y => /\ dbm_addFiniteFinite(x, z) <= dbm_addFiniteFinite(y, z)
                 /\ dbm_addFiniteFinite(z, x) <= dbm_addFiniteFinite(z, y)
  BY DEF dbm_addFiniteFinite, dbm_rawIsWeak
<1> QED
  BY <1>1, <1>2, AddParts, AddAssociative, AddZero

-----------------------------------------------------------------------------
(* Renaming, shifting and forgetting clocks. *)

\* Row i of E is row r[i] of D, column j is column s[j], each shifted by w; the rows
\* in free are infinite.  Every update and every change of the clocks is of this form.
Substituted(E, D, free, r, s, w) ==
  /\ E = [i \in Clk |-> [j \in Clk |-> E[i][j]]]
  /\ \A i \in Clk : E[i][i] = dbm_LE_ZERO
  /\ \A i \in free : \A j \in Clk : i # j => E[i][j] = dbm_LS_INFINITY
  /\ \A i \in Clk \ free : \A j \in Clk :
       i # j => E[i][j] = dbm_rawInc(D[r[i]][s[j]], 2 * (w[i] - w[j]))

\* It keeps a zone closed if the column that stands for a clock is no further than
\* the row that stands for it.
LEMMA SubstitutedIsZone ==
  ASSUME NEW D, NEW B \in Nat, IsZone(D, B), 2 * B <= dbm_LE_OVERFLOW, NEW E,
         NEW free \in SUBSET Clk, NEW r \in [Clk -> Clk], NEW s \in [Clk -> Clk],
         NEW w \in [Clk -> Int],
         \A i, j \in Clk : -B <= 2 * (w[i] - w[j]) /\ 2 * (w[i] - w[j]) <= B,
         Substituted(E, D, free, r, s, w),
         \A k \in Clk \ free : D[s[k]][r[k]] <= dbm_LE_ZERO,
         0 \notin free, \A j \in Clk : E[0][j] <= dbm_LE_ZERO
  PROVE  IsZone(E, 2 * B)
<1> DEFINE Sum(x, y) == dbm_addFiniteFinite(x, y)
           d(i, j) == D[r[i]][s[j]]
           m(k) == D[s[k]][r[k]]
           u(i, j) == 2 * (w[i] - w[j])
<1>1. /\ \A i, j \in Clk : D[i][j] \in Int /\ D[i][j] <= dbm_LS_INFINITY
      /\ \A i, j \in Clk : D[i][j] # dbm_LS_INFINITY => -B < D[i][j] /\ D[i][j] < B
      /\ \A i \in Clk : D[i][i] = dbm_LE_ZERO
      /\ \A i, k, j \in Clk : D[i][k] # dbm_LS_INFINITY /\ D[k][j] # dbm_LS_INFINITY
           => D[i][j] # dbm_LS_INFINITY /\ D[i][j] <= Sum(D[i][k], D[k][j])
  BY ZoneEntries
<1>2. \A i, j \in Clk : r[i] \in Clk /\ s[j] \in Clk /\ w[i] \in Int
  OBVIOUS
<1>3. \A i, j \in Clk : /\ u(i, j) \in Int /\ -B <= u(i, j) /\ u(i, j) <= B
  BY <1>2
<1>4. \A i, j, k \in Clk : u(i, k) + u(k, j) = u(i, j) /\ u(i, i) = 0
  BY <1>2
<1>20. \A i, j \in Clk : u(i, j) = 2 * (w[i] - w[j])
  OBVIOUS
<1>5. \A x, y \in Int, i, j, k \in Clk :
        Sum(x + u(i, k), y + u(k, j)) = Sum(x, y) + u(i, j)
  <2> TAKE x, y \in Int, i, j, k \in Clk
  <2> DEFINE a == w[i] - w[k]
             b == w[k] - w[j]
  <2>5. Sum(x, y) \in Int
    BY AddParts
  <2>6. a \in Int /\ b \in Int /\ 2 * a = u(i, k) /\ 2 * b = u(k, j)
    BY <1>2
  <2>2. a \in Int /\ b \in Int /\ 2 * a + 2 * b = u(i, j) /\ Sum(x, y) \in Int
    BY <1>4, <2>5, <2>6
  <2> HIDE DEF Sum, a, b
  <2>3. Sum(x + 2 * a, y + 2 * b) = Sum(x, y) + 2 * a + 2 * b
    BY <2>2 DEF Sum, dbm_addFiniteFinite, dbm_rawIsWeak
  <2>4. Sum(x, y) + 2 * a + 2 * b = Sum(x, y) + u(i, j)
    <3> DEFINE p == 2 * a
               q == 2 * b
    <3>1. p \in Int /\ q \in Int /\ p + q = u(i, j)
      BY <2>2
    <3> HIDE DEF p, q, u
    <3>2. Sum(x, y) + p + q = Sum(x, y) + u(i, j)
      BY <2>2, <3>1
    <3> QED
      BY <3>2 DEF p, q
  <2> QED
    BY <2>3, <2>4, <2>6
<1>6. /\ dbm_LS_INFINITY \in Int /\ dbm_LE_ZERO \in Int /\ dbm_LE_ZERO # dbm_LS_INFINITY
      /\ dbm_LS_INFINITY = 2 * dbm_LE_OVERFLOW /\ dbm_LE_OVERFLOW \in Int
      /\ dbm_LE_ZERO = 1 /\ dbm_LE_ZERO < dbm_LE_OVERFLOW /\ dbm_LE_ZERO < dbm_LS_INFINITY
  BY Infinity
<1> HIDE DEF Sum, u
<1>7. \A i, j \in Clk : /\ d(i, j) \in Int /\ d(i, j) <= dbm_LS_INFINITY
                        /\ d(i, j) # dbm_LS_INFINITY => -B < d(i, j) /\ d(i, j) < B
  BY <1>1, <1>2
\* An entry, when it is finite.
<1>8. \A i, j \in Clk : i # j /\ E[i][j] # dbm_LS_INFINITY =>
        /\ i \notin free /\ d(i, j) # dbm_LS_INFINITY
        /\ E[i][j] = d(i, j) + u(i, j)
  <2> TAKE i, j \in Clk
  <2> HAVE i # j /\ E[i][j] # dbm_LS_INFINITY
  <2>1. i \notin free
    BY DEF Substituted
  <2>2. E[i][j] = dbm_rawInc(d(i, j), u(i, j))
    BY <1>20, <2>1 DEF Substituted
  <2> QED
    BY <1>6, <1>7, <2>1, <2>2 DEF dbm_rawInc
<1>9. \A i \in Clk \ free, j \in Clk : i # j /\ d(i, j) # dbm_LS_INFINITY =>
        E[i][j] = d(i, j) + u(i, j) /\ E[i][j] # dbm_LS_INFINITY
  <2> TAKE i \in Clk \ free, j \in Clk
  <2> HAVE i # j /\ d(i, j) # dbm_LS_INFINITY
  <2>2. E[i][j] = dbm_rawInc(d(i, j), u(i, j))
    BY <1>20 DEF Substituted
  <2>3. -B < d(i, j) /\ d(i, j) < B /\ d(i, j) \in Int /\ u(i, j) \in Int /\ u(i, j) <= B
    BY <1>3, <1>7
  <2> HIDE DEF d
  <2> QED
    BY <1>6, <2>2, <2>3 DEF dbm_rawInc
<1>10. \A i, j \in Clk : i # j /\ i \notin free /\ d(i, j) = dbm_LS_INFINITY
         => E[i][j] = dbm_LS_INFINITY
  <2> TAKE i, j \in Clk
  <2> HAVE i # j /\ i \notin free /\ d(i, j) = dbm_LS_INFINITY
  <2>2. E[i][j] = dbm_rawInc(d(i, j), u(i, j))
    BY <1>20 DEF Substituted
  <2> QED
    BY <1>6, <2>2 DEF dbm_rawInc
<1>11. \A i \in Clk : E[i][i] = dbm_LE_ZERO
  BY DEF Substituted
<1>12. ASSUME NEW i \in Clk, NEW j \in Clk
       PROVE  /\ E[i][j] \in Int /\ E[i][j] <= dbm_LS_INFINITY
              /\ E[i][j] # dbm_LS_INFINITY => -(2 * B) < E[i][j] /\ E[i][j] < 2 * B
  <2>1. CASE i = j
    <3>1. 0 < B
      BY <1>1, <1>6
    <3> QED
      BY <1>6, <1>11, <2>1, <3>1
  <2>2. CASE E[i][j] = dbm_LS_INFINITY
    BY <1>6, <2>2
  <2>3. CASE i # j /\ E[i][j] # dbm_LS_INFINITY
    <3>1. E[i][j] = d(i, j) + u(i, j) /\ d(i, j) # dbm_LS_INFINITY
      BY <1>8, <2>3
    <3>2. -B < d(i, j) /\ d(i, j) < B /\ d(i, j) \in Int
          /\ u(i, j) \in Int /\ u(i, j) <= B /\ -B <= u(i, j)
      BY <1>3, <1>7, <3>1
    <3> HIDE DEF d
    <3> QED
      BY <1>6, <3>1, <3>2
  <2> QED
    BY <2>1, <2>2, <2>3
\* The path through the row and the column of k.
<1>13. ASSUME NEW i \in Clk, NEW k \in Clk \ free, NEW j \in Clk,
              d(i, k) # dbm_LS_INFINITY, d(k, j) # dbm_LS_INFINITY
       PROVE  d(i, j) # dbm_LS_INFINITY /\ d(i, j) <= Sum(d(i, k), d(k, j))
  <2> DEFINE x == D[r[i]][s[k]]
             y == D[s[k]][r[k]]
             z == D[r[k]][s[j]]
             t == D[r[i]][r[k]]
             o == D[r[i]][s[j]]
  <2>1. /\ x \in Int /\ y \in Int /\ z \in Int /\ t \in Int /\ o \in Int
        /\ x # dbm_LS_INFINITY /\ z # dbm_LS_INFINITY
        /\ y <= dbm_LE_ZERO /\ y # dbm_LS_INFINITY
    <3>1. y <= dbm_LE_ZERO /\ y \in Int
      BY <1>1, <1>2
    <3> QED
      BY <1>1, <1>2, <1>6, <1>13, <3>1
  <2>2. t # dbm_LS_INFINITY /\ t <= Sum(x, y)
    BY <1>1, <1>2, <2>1
  <2>3. o # dbm_LS_INFINITY /\ o <= Sum(t, z)
    BY <1>1, <1>2, <2>1, <2>2
  <2> HIDE DEF x, y, z, t, o
  <2>4. Sum(x, y) <= x
    <3>1. Sum(x, y) <= Sum(x, dbm_LE_ZERO) /\ Sum(x, dbm_LE_ZERO) = x
      BY <1>6, <2>1, SumLaws DEF Sum
    <3> QED
      BY <3>1
  <2>5. t <= x
    BY <2>1, <2>2, <2>4, SumLaws DEF Sum
  <2>6. Sum(t, z) <= Sum(x, z) /\ Sum(t, z) \in Int /\ Sum(x, z) \in Int
    BY <2>1, <2>5, SumLaws DEF Sum
  <2>7. o <= Sum(x, z)
    BY <2>1, <2>3, <2>6
  <2> QED
    BY <2>3, <2>7 DEF x, z, o
<1>14. ASSUME NEW i \in Clk, NEW k \in Clk, NEW j \in Clk,
              E[i][k] # dbm_LS_INFINITY, E[k][j] # dbm_LS_INFINITY
       PROVE  E[i][j] # dbm_LS_INFINITY /\ E[i][j] <= Sum(E[i][k], E[k][j])
  <2>1. CASE i = k
    <3>1. Sum(dbm_LE_ZERO, E[k][j]) = E[k][j] /\ E[k][j] \in Int
      BY <1>12, SumLaws DEF Sum
    <3> QED
      BY <1>11, <1>14, <2>1, <3>1
  <2>2. CASE k = j
    <3>1. Sum(E[i][k], dbm_LE_ZERO) = E[i][k]
      BY <1>6, <1>12, SumLaws DEF Sum
    <3> QED
      BY <1>11, <1>12, <1>14, <2>2, <3>1
  <2>3. CASE i # k /\ k # j
    <3>1. /\ i \notin free /\ k \notin free
          /\ d(i, k) # dbm_LS_INFINITY /\ d(k, j) # dbm_LS_INFINITY
          /\ E[i][k] = d(i, k) + u(i, k) /\ E[k][j] = d(k, j) + u(k, j)
      BY <1>8, <1>14, <2>3
    <3>2. d(i, j) # dbm_LS_INFINITY /\ d(i, j) <= Sum(d(i, k), d(k, j))
      BY <1>13, <3>1
    <3>3. d(i, k) \in Int /\ d(k, j) \in Int /\ d(i, j) \in Int /\ u(i, j) \in Int
          /\ Sum(d(i, k), d(k, j)) \in Int
      BY <1>3, <1>7, SumLaws DEF Sum
    <3>4. Sum(E[i][k], E[k][j]) = Sum(d(i, k), d(k, j)) + u(i, j)
      BY <1>5, <3>1, <3>3
    <3>5. CASE i # j
      <4>1. E[i][j] = d(i, j) + u(i, j) /\ E[i][j] # dbm_LS_INFINITY
        BY <1>9, <3>1, <3>2, <3>5
      <4> HIDE DEF d
      <4> QED
        BY <3>2, <3>3, <3>4, <4>1
    <3>6. CASE i = j
      <4>1. dbm_LE_ZERO <= d(i, i)
        <5> DEFINE x == D[r[i]][s[i]]
                   y == D[s[i]][r[i]]
        <5>1. x \in Int /\ y \in Int /\ y <= dbm_LE_ZERO /\ x # dbm_LS_INFINITY
          BY <1>1, <1>2, <3>1, <3>2, <3>6
        <5>2. y # dbm_LS_INFINITY
          BY <1>6, <5>1
        <5>3. dbm_LE_ZERO <= Sum(x, y)
          BY <1>1, <1>2, <5>1, <5>2
        <5> HIDE DEF x, y
        <5>4. Sum(x, y) <= Sum(x, dbm_LE_ZERO) /\ Sum(x, dbm_LE_ZERO) = x
          BY <1>6, <5>1, SumLaws DEF Sum
        <5>5. dbm_LE_ZERO <= x
          BY <1>6, <5>1, <5>3, <5>4, SumLaws DEF Sum
        <5> QED
          BY <5>5 DEF x
      <4>2. u(i, j) = 0
        BY <1>4, <3>6
      <4> HIDE DEF d
      <4> QED
        BY <1>6, <1>11, <3>2, <3>3, <3>4, <3>6, <4>1, <4>2
    <3> QED
      BY <3>5, <3>6
  <2> QED
    BY <2>1, <2>2, <2>3
<1>15. E = [i \in Clk |-> [j \in Clk |-> E[i][j]]]
  BY DEF Substituted
<1> QED
  BY <1>11, <1>12, <1>14, <1>15, ZoneFromEntries DEF Sum

\* The same without shifts.  Row 0 stays row 0.
Renamed(E, D, free, r, s) ==
  /\ E = [i \in Clk |-> [j \in Clk |-> E[i][j]]]
  /\ 0 \notin free /\ r[0] = 0
  /\ \A i \in Clk : E[i][i] = dbm_LE_ZERO
  /\ \A i \in free : \A j \in Clk : i # j => E[i][j] = dbm_LS_INFINITY
  /\ \A i \in Clk \ free : \A j \in Clk : i # j => E[i][j] = D[r[i]][s[j]]
  /\ \A k \in Clk \ free : D[s[k]][r[k]] <= dbm_LE_ZERO

\* A zone whose rows and columns are renamed is a zone, with free clocks above all others.
LEMMA RenamedIsZone ==
  ASSUME NEW D, NEW B \in Nat, IsZone(D, B), 2 * B <= dbm_LE_OVERFLOW, NEW E,
         NEW free \in SUBSET Clk, NEW r \in [Clk -> Clk], NEW s \in [Clk -> Clk],
         Renamed(E, D, free, r, s)
  PROVE  IsZone(E, 2 * B)
<1> DEFINE w == [i \in Clk |-> 0]
<1>1. /\ \A i, j \in Clk : D[i][j] \in Int /\ D[i][j] <= dbm_LS_INFINITY
      /\ \A j \in Clk : D[0][j] <= dbm_LE_ZERO
      /\ 0 \in Clk
  BY ZoneEntries
<1>2. w \in [Clk -> Int] /\ \A i, j \in Clk : 2 * (w[i] - w[j]) = 0
  OBVIOUS
<1>3. \A i, j \in Clk : -B <= 2 * (w[i] - w[j]) /\ 2 * (w[i] - w[j]) <= B
  BY <1>2
<1> HIDE DEF w
<1>8. /\ E = [i \in Clk |-> [j \in Clk |-> E[i][j]]]
      /\ 0 \notin free /\ r[0] = 0
      /\ \A i \in Clk : E[i][i] = dbm_LE_ZERO
      /\ \A i \in free : \A j \in Clk : i # j => E[i][j] = dbm_LS_INFINITY
      /\ \A i \in Clk \ free : \A j \in Clk : i # j => E[i][j] = D[r[i]][s[j]]
      /\ \A k \in Clk \ free : D[s[k]][r[k]] <= dbm_LE_ZERO
  BY DEF Renamed
<1>4. \A x \in Int : dbm_rawInc(x, 0) = x
  BY DEF dbm_rawInc
<1>5. \A i, j \in Clk : D[r[i]][s[j]] \in Int
  BY <1>1
<1>6. Substituted(E, D, free, r, s, w)
  BY <1>2, <1>4, <1>5, <1>8 DEF Substituted
<1>7. \A j \in Clk : E[0][j] <= dbm_LE_ZERO
  <2> TAKE j \in Clk
  <2>1. CASE j = 0
    BY <1>1, <1>8, <2>1, Infinity
  <2>2. CASE j # 0
    BY <1>1, <1>8, <2>2
  <2> QED
    BY <2>1, <2>2
<1> QED
  BY <1>2, <1>3, <1>6, <1>7, <1>8, SubstitutedIsZone

\* dbm_freeClock leaves a zone.
LEMMA FreeClockIsZone ==
  ASSUME NEW D, NEW B \in Nat, IsZone(D, B), 2 * B <= dbm_LE_OVERFLOW, NEW k \in Clk \ {0}
  PROVE  IsZone(dbm_freeClock(D, k), 2 * B)
<1> DEFINE E == dbm_freeClock(D, k)
           r == [i \in Clk |-> i]
           s == [j \in Clk |-> IF j = k THEN 0 ELSE j]
<1>1. /\ \A i \in Clk : D[i][i] = dbm_LE_ZERO
      /\ \A j \in Clk : D[0][j] <= dbm_LE_ZERO
      /\ 0 \in Clk
  BY ZoneEntries
<1>2. r \in [Clk -> Clk] /\ s \in [Clk -> Clk] /\ r[0] = 0 /\ {k} \in SUBSET Clk /\ 0 \notin {k}
  BY <1>1
<1>3. E = [i \in Clk |-> [j \in Clk |-> E[i][j]]]
  BY DEF dbm_freeClock
<1>4. \A i \in Clk : E[i][i] = dbm_LE_ZERO
  BY <1>1 DEF dbm_freeClock
<1>5. \A i \in {k} : \A j \in Clk : i # j => E[i][j] = dbm_LS_INFINITY
  BY DEF dbm_freeClock
<1>6. \A i \in Clk \ {k} : \A j \in Clk : i # j => E[i][j] = D[r[i]][s[j]]
  BY DEF dbm_freeClock
<1>7. \A m \in Clk \ {k} : D[s[m]][r[m]] <= dbm_LE_ZERO
  BY <1>1, Infinity
<1> HIDE DEF E, r, s
<1>8. Renamed(E, D, {k}, r, s)
  BY <1>2, <1>3, <1>4, <1>5, <1>6, <1>7 DEF Renamed
<1>11. IsZone(E, 2 * B)
  BY <1>2, <1>8, RenamedIsZone
<1> QED
  BY <1>11 DEF E

\* dbm_freeUp leaves a zone.
LEMMA FreeUpIsZone ==
  ASSUME NEW D, NEW B \in Nat, IsZone(D, B), 2 * B <= dbm_LE_OVERFLOW, NEW k \in Clk \ {0}
  PROVE  IsZone(dbm_freeUp(D, k), 2 * B)
<1> DEFINE E == dbm_freeUp(D, k)
           r == [i \in Clk |-> i]
<1>1. /\ \A i \in Clk : D[i][i] = dbm_LE_ZERO
      /\ 0 \in Clk /\ D \in [Clk -> [Clk -> {x \in Int : x <= dbm_LS_INFINITY}]]
  BY ZoneEntries DEF IsZone, WideMatrix
<1>2. r \in [Clk -> Clk] /\ r[0] = 0 /\ {k} \in SUBSET Clk /\ 0 \notin {k}
  BY <1>1
<1>3. E = [i \in Clk |-> [j \in Clk |-> E[i][j]]]
  BY <1>1 DEF dbm_freeUp
<1>4. \A i \in Clk : E[i][i] = dbm_LE_ZERO
  BY <1>1 DEF dbm_freeUp
<1>5. \A i \in {k} : \A j \in Clk : i # j => E[i][j] = dbm_LS_INFINITY
  BY <1>1 DEF dbm_freeUp
<1>6. \A i \in Clk \ {k} : \A j \in Clk : i # j => E[i][j] = D[r[i]][r[j]]
  BY <1>1 DEF dbm_freeUp
<1>7. \A m \in Clk \ {k} : D[r[m]][r[m]] <= dbm_LE_ZERO
  BY <1>1, Infinity
<1> HIDE DEF E, r
<1>8. Renamed(E, D, {k}, r, r)
  BY <1>2, <1>3, <1>4, <1>5, <1>6, <1>7 DEF Renamed
<1>11. IsZone(E, 2 * B)
  BY <1>2, <1>8, RenamedIsZone
<1> QED
  BY <1>11 DEF E

\* dbm_freeAllUp leaves a zone.
LEMMA FreeAllUpIsZone ==
  ASSUME NEW D, NEW B \in Nat, IsZone(D, B), 2 * B <= dbm_LE_OVERFLOW
  PROVE  IsZone(dbm_freeAllUp(D), 2 * B)
<1> DEFINE E == dbm_freeAllUp(D)
           r == [i \in Clk |-> i]
           free == Clk \ {0}
<1>1. (\A i \in Clk : D[i][i] = dbm_LE_ZERO) /\ 0 \in Clk
  BY ZoneEntries
<1>2. r \in [Clk -> Clk] /\ r[0] = 0 /\ free \in SUBSET Clk /\ 0 \notin free
  BY <1>1
<1>3. E = [i \in Clk |-> [j \in Clk |-> E[i][j]]]
  BY DEF dbm_freeAllUp
<1>4. \A i \in Clk : E[i][i] = dbm_LE_ZERO
  BY <1>1 DEF dbm_freeAllUp
<1>5. \A i \in free : \A j \in Clk : i # j => E[i][j] = dbm_LS_INFINITY
  BY DEF dbm_freeAllUp
<1>6. \A i \in Clk \ free : \A j \in Clk : i # j => E[i][j] = D[r[i]][r[j]]
  BY DEF dbm_freeAllUp
<1>7. \A m \in Clk \ free : D[r[m]][r[m]] <= dbm_LE_ZERO
  BY <1>1, Infinity
<1> HIDE DEF E, r, free
<1>8. Renamed(E, D, free, r, r)
  BY <1>2, <1>3, <1>4, <1>5, <1>6, <1>7 DEF Renamed
<1>11. IsZone(E, 2 * B)
  BY <1>2, <1>8, RenamedIsZone
<1> QED
  BY <1>11 DEF E

\* dbm_freeDown leaves a zone.
LEMMA FreeDownIsZone ==
  ASSUME NEW D, NEW B \in Nat, IsZone(D, B), 2 * B <= dbm_LE_OVERFLOW, NEW k \in Clk \ {0}
  PROVE  IsZone(dbm_freeDown(D, k), 2 * B)
<1> DEFINE E == dbm_freeDown(D, k)
           r == [i \in Clk |-> i]
           s == [j \in Clk |-> IF j = k THEN 0 ELSE j]
<1>1. /\ \A i \in Clk : D[i][i] = dbm_LE_ZERO
      /\ \A j \in Clk : D[0][j] <= dbm_LE_ZERO
      /\ 0 \in Clk
  BY ZoneEntries
<1>2. r \in [Clk -> Clk] /\ s \in [Clk -> Clk] /\ r[0] = 0
  BY <1>1
<1>3. E = [i \in Clk |-> [j \in Clk |-> E[i][j]]]
  BY DEF dbm_freeDown
<1>4. \A i \in Clk : E[i][i] = dbm_LE_ZERO
  BY <1>1 DEF dbm_freeDown
<1>6. \A i \in Clk \ {} : \A j \in Clk : i # j => E[i][j] = D[r[i]][s[j]]
  BY DEF dbm_freeDown
<1>7. \A m \in Clk \ {} : D[s[m]][r[m]] <= dbm_LE_ZERO
  BY <1>1, Infinity
<1> HIDE DEF E, r, s
<1>8. Renamed(E, D, {}, r, s)
  BY <1>2, <1>3, <1>4, <1>6, <1>7 DEF Renamed
<1>11. IsZone(E, 2 * B)
  BY <1>2, <1>8, RenamedIsZone
<1> QED
  BY <1>11 DEF E

\* dbm_freeAllDown leaves a zone.
LEMMA FreeAllDownIsZone ==
  ASSUME NEW D, NEW B \in Nat, IsZone(D, B), 2 * B <= dbm_LE_OVERFLOW
  PROVE  IsZone(dbm_freeAllDown(D), 2 * B)
<1> DEFINE E == dbm_freeAllDown(D)
           r == [i \in Clk |-> i]
           s == [j \in Clk |-> 0]
<1>1. /\ \A i \in Clk : D[i][i] = dbm_LE_ZERO
      /\ \A j \in Clk : D[0][j] <= dbm_LE_ZERO
      /\ 0 \in Clk
  BY ZoneEntries
<1>2. r \in [Clk -> Clk] /\ s \in [Clk -> Clk] /\ r[0] = 0
  BY <1>1
<1>3. E = [i \in Clk |-> [j \in Clk |-> E[i][j]]]
  BY DEF dbm_freeAllDown
<1>4. \A i \in Clk : E[i][i] = dbm_LE_ZERO
  BY <1>1 DEF dbm_freeAllDown
<1>6. \A i \in Clk \ {} : \A j \in Clk : i # j => E[i][j] = D[r[i]][s[j]]
  BY DEF dbm_freeAllDown
<1>7. \A m \in Clk \ {} : D[s[m]][r[m]] <= dbm_LE_ZERO
  BY <1>1
<1> HIDE DEF E, r, s
<1>8. Renamed(E, D, {}, r, s)
  BY <1>2, <1>3, <1>4, <1>6, <1>7 DEF Renamed
<1>11. IsZone(E, 2 * B)
  BY <1>2, <1>8, RenamedIsZone
<1> QED
  BY <1>11 DEF E

\* dbm_init frees every clock, dbm_zero makes them all equal to the reference.
LEMMA InitAndZeroAreZones ==
  ASSUME NEW B \in Nat, dbm_LE_ZERO < B
  PROVE  IsZone(dbm_init, B) /\ IsZone(dbm_zero, B)
<1>1. 0 \in Clk
  BY DimAssumption DEF Clk
<1>2. dbm_addFiniteFinite(dbm_LE_ZERO, dbm_LE_ZERO) = dbm_LE_ZERO
  BY Infinity, AddZero
<1>3. IsZone(dbm_init, B)
  <2>1. dbm_init = [i \in Clk |-> [j \in Clk |-> dbm_init[i][j]]]
    BY DEF dbm_init
  <2>2. \A i, j \in Clk : dbm_init[i][j] =
          IF i = 0 \/ i = j THEN dbm_LE_ZERO ELSE dbm_LS_INFINITY
    BY DEF dbm_init
  <2> QED
    BY <1>1, <1>2, <2>1, <2>2, Infinity, ZoneFromEntries
<1>4. IsZone(dbm_zero, B)
  <2>1. dbm_zero = [i \in Clk |-> [j \in Clk |-> dbm_zero[i][j]]]
    BY DEF dbm_zero
  <2>2. \A i, j \in Clk : dbm_zero[i][j] = dbm_LE_ZERO
    BY DEF dbm_zero
  <2> QED
    BY <1>1, <1>2, <2>1, <2>2, Infinity, ZoneFromEntries
<1> QED
  BY <1>3, <1>4

\* dbm_updateClock leaves a zone.
LEMMA UpdateClockIsZone ==
  ASSUME NEW D, NEW B \in Nat, IsZone(D, B), 2 * B <= dbm_LE_OVERFLOW,
         NEW i \in Clk \ {0}, NEW j \in Clk \ {0}
  PROVE  IsZone(dbm_updateClock(D, i, j), 2 * B)
<1> DEFINE E == dbm_updateClock(D, i, j)
           r == [c \in Clk |-> IF c = i THEN j ELSE c]
<1>1. (\A c \in Clk : D[c][c] = dbm_LE_ZERO) /\ 0 \in Clk
  BY ZoneEntries
<1>2. r \in [Clk -> Clk] /\ r[0] = 0
  BY <1>1
<1>3. E = [a \in Clk |-> [b \in Clk |-> E[a][b]]]
  BY DEF dbm_updateClock
<1>4. \A c \in Clk : E[c][c] = dbm_LE_ZERO
  BY <1>1 DEF dbm_updateClock
<1>6. \A a \in Clk \ {} : \A b \in Clk : a # b => E[a][b] = D[r[a]][r[b]]
  BY DEF dbm_updateClock
<1>7. \A m \in Clk \ {} : D[r[m]][r[m]] <= dbm_LE_ZERO
  BY <1>1, Infinity
<1> HIDE DEF E, r
<1>8. Renamed(E, D, {}, r, r)
  BY <1>2, <1>3, <1>4, <1>6, <1>7 DEF Renamed
<1>11. IsZone(E, 2 * B)
  BY <1>2, <1>8, RenamedIsZone
<1> QED
  BY <1>11 DEF E

\* dbm_swapClocks leaves a zone.
LEMMA SwapClocksIsZone ==
  ASSUME NEW D, NEW B \in Nat, IsZone(D, B), 2 * B <= dbm_LE_OVERFLOW,
         NEW x \in Clk \ {0}, NEW y \in Clk \ {0}
  PROVE  IsZone(dbm_swapClocks(D, x, y), 2 * B)
<1> DEFINE E == dbm_swapClocks(D, x, y)
           r == [c \in Clk |-> IF c = x THEN y ELSE IF c = y THEN x ELSE c]
<1>1. (\A c \in Clk : D[c][c] = dbm_LE_ZERO) /\ 0 \in Clk
  BY ZoneEntries
<1>2. r \in [Clk -> Clk] /\ r[0] = 0
  BY <1>1
<1>3. E = [a \in Clk |-> [b \in Clk |-> E[a][b]]]
  BY DEF dbm_swapClocks
<1>5. \A a, b \in Clk : E[a][b] = D[r[a]][r[b]]
  BY DEF dbm_swapClocks
<1> HIDE DEF E, r
<1>4. \A c \in Clk : E[c][c] = dbm_LE_ZERO
  BY <1>1, <1>2, <1>5
<1>7. \A m \in Clk \ {} : D[r[m]][r[m]] <= dbm_LE_ZERO
  BY <1>1, <1>2, Infinity
<1>8. Renamed(E, D, {}, r, r)
  BY <1>2, <1>3, <1>4, <1>5, <1>7 DEF Renamed
<1>11. IsZone(E, 2 * B)
  BY <1>2, <1>8, RenamedIsZone
<1> QED
  BY <1>11 DEF E

\* dbm_updateDBM, and dbm_shrinkExpand with its table.
LEMMA UpdateDBMIsZone ==
  ASSUME NEW D, NEW B \in Nat, IsZone(D, B), 2 * B <= dbm_LE_OVERFLOW,
         NEW cols \in [Clk -> Clk \cup {NoCol}], cols[0] = 0
  PROVE  IsZone(dbm_updateDBM(D, cols), 2 * B)
<1> DEFINE E == dbm_updateDBM(D, cols)
           r == [c \in Clk |-> IF cols[c] = NoCol THEN 0 ELSE cols[c]]
           free == {c \in Clk : cols[c] = NoCol}
<1>1. /\ \A c \in Clk : D[c][c] = dbm_LE_ZERO
      /\ 0 \in Clk
  BY ZoneEntries
<1>9. NoCol # 0
  BY DEF NoCol
<1>2. r \in [Clk -> Clk] /\ r[0] = 0 /\ free \in SUBSET Clk /\ 0 \notin free
  BY <1>1, <1>9
<1>10. DOMAIN cols = Clk
  OBVIOUS
<1>3. E = [a \in Clk |-> [b \in Clk |-> E[a][b]]]
  BY <1>10 DEF dbm_updateDBM
<1>4. \A c \in Clk : E[c][c] = dbm_LE_ZERO
  BY <1>10 DEF dbm_updateDBM
<1>5. \A i \in free : \A j \in Clk : i # j => E[i][j] = dbm_LS_INFINITY
  BY <1>10 DEF dbm_updateDBM
<1>6. \A a \in Clk \ free : \A b \in Clk : a # b => E[a][b] = D[r[a]][r[b]]
  BY <1>1, <1>10 DEF dbm_updateDBM
<1>7. \A m \in Clk \ free : D[r[m]][r[m]] <= dbm_LE_ZERO
  BY <1>1, <1>2, Infinity
<1> HIDE DEF E, r, free
<1>8. Renamed(E, D, free, r, r)
  BY <1>2, <1>3, <1>4, <1>5, <1>6, <1>7 DEF Renamed
<1>11. IsZone(E, 2 * B)
  BY <1>2, <1>8, RenamedIsZone
<1> QED
  BY <1>11 DEF E

\* Clock k stands for clock s; only its value is moved, by v.
Instead(k, s) == [c \in Clk |-> IF c = k THEN s ELSE c]
OnlyFor(k, v) == [c \in Clk |-> IF c = k THEN v ELSE 0]

\* dbm_updateValue puts the reference clock plus v instead of k.
LEMMA UpdateValueSubstitutes ==
  ASSUME NEW D, NEW B \in Nat, IsZone(D, B), 2 * B <= dbm_LE_OVERFLOW,
         NEW k \in Clk \ {0}, NEW v \in Nat, 2 * v <= B
  PROVE  LET r == Instead(k, 0)
         IN  Substituted(dbm_updateValue(D, k, v), D, {}, r, r, OnlyFor(k, v))
<1> DEFINE E == dbm_updateValue(D, k, v)
           r == Instead(k, 0)
           w == OnlyFor(k, v)
<1>1. /\ \A i, j \in Clk : D[i][j] \in Int /\ D[i][j] <= dbm_LS_INFINITY
      /\ \A i, j \in Clk : D[i][j] # dbm_LS_INFINITY => -B < D[i][j] /\ D[i][j] < B
      /\ \A c \in Clk : D[c][c] = dbm_LE_ZERO
      /\ \A j \in Clk : D[0][j] <= dbm_LE_ZERO /\ D[0][j] # dbm_LS_INFINITY
      /\ 0 \in Clk
  BY ZoneEntries
<1>2. r \in [Clk -> Clk] /\ w \in [Clk -> Int] /\ r[0] = 0 /\ w[0] = 0 /\ r[k] = 0 /\ w[k] = v
      /\ \A c \in Clk \ {k} : r[c] = c /\ w[c] = 0
  BY <1>1 DEF Instead, OnlyFor
<1>4. E = [a \in Clk |-> [b \in Clk |-> E[a][b]]]
  BY DEF dbm_updateValue
\* The two constants of the code, and what adding them does.
<1> DEFINE upper == dbm_bound2raw(v, dbm_WEAK)
           lower == dbm_bound2raw(-v, dbm_WEAK)
<1>5. /\ upper = 2 * v + 1 /\ lower = 1 - 2 * v
      /\ upper # dbm_LS_INFINITY /\ lower # dbm_LS_INFINITY
  BY Infinity DEF dbm_bound2raw, dbm_WEAK
<1>6. \A x \in Int : x <= dbm_LS_INFINITY =>
        /\ dbm_addRawRaw(upper, x) = dbm_rawInc(x, 2 * v)
        /\ dbm_addRawRaw(x, lower) = dbm_rawInc(x, -(2 * v))
  BY <1>5, Infinity DEF dbm_addRawRaw, dbm_rawInc, dbm_addFiniteFinite, dbm_rawIsWeak
<1>7. \A i, j \in Clk : E[i][j] =
         IF i = k /\ j = k THEN dbm_addRawRaw(upper, lower)
         ELSE IF i = k THEN IF j = 0 THEN upper ELSE dbm_addRawRaw(upper, D[0][j])
         ELSE IF j = k THEN IF i = 0 THEN lower ELSE dbm_addRawRaw(D[i][0], lower)
         ELSE D[i][j]
  BY DEF dbm_updateValue
<1> HIDE DEF E, r, w, upper, lower
<1>8. \A i \in Clk : E[i][i] = dbm_LE_ZERO
  <2>1. dbm_addRawRaw(upper, lower) = dbm_LE_ZERO
    BY <1>5, Infinity DEF dbm_addRawRaw, dbm_addFiniteFinite, dbm_rawIsWeak
  <2> QED
    BY <1>1, <1>7, <2>1
<1>9. ASSUME NEW i \in Clk, NEW j \in Clk, i # j
      PROVE  E[i][j] = dbm_rawInc(D[r[i]][r[j]], 2 * (w[i] - w[j]))
  <2>1. CASE i = k
    <3>1. r[i] = 0 /\ r[j] = j /\ 2 * (w[i] - w[j]) = 2 * v
      BY <1>2, <1>9, <2>1
    <3>2. upper = dbm_rawInc(D[0][0], 2 * v)
      BY <1>1, <1>5, Infinity DEF dbm_rawInc
    <3> QED
      BY <1>1, <1>6, <1>7, <1>9, <2>1, <3>1, <3>2
  <2>2. CASE i # k /\ j = k
    <3>1. r[i] = i /\ r[j] = 0 /\ 2 * (w[i] - w[j]) = -(2 * v)
      BY <1>2, <1>9, <2>2
    <3>2. lower = dbm_rawInc(D[0][0], -(2 * v))
      BY <1>1, <1>5, Infinity DEF dbm_rawInc
    <3> QED
      BY <1>1, <1>6, <1>7, <1>9, <2>2, <3>1, <3>2
  <2>3. CASE i # k /\ j # k
    <3>1. r[i] = i /\ r[j] = j /\ 2 * (w[i] - w[j]) = 0
      BY <1>2, <2>3
    <3>2. dbm_rawInc(D[i][j], 0) = D[i][j]
      BY <1>1 DEF dbm_rawInc
    <3> QED
      BY <1>7, <2>3, <3>1, <3>2
  <2> QED
    BY <2>1, <2>2, <2>3
<1>10. Substituted(E, D, {}, r, r, w)
  BY <1>4, <1>8, <1>9 DEF Substituted
<1> QED
  BY <1>10 DEF E, r, w

\* dbm_updateValue: clock k becomes v.
LEMMA UpdateValueIsZone ==
  ASSUME NEW D, NEW B \in Nat, IsZone(D, B), 2 * B <= dbm_LE_OVERFLOW,
         NEW k \in Clk \ {0}, NEW v \in Nat, 2 * v <= B
  PROVE  IsZone(dbm_updateValue(D, k, v), 2 * B)
<1> DEFINE E == dbm_updateValue(D, k, v)
           r == Instead(k, 0)
           w == OnlyFor(k, v)
<1>1. /\ \A c \in Clk : D[c][c] = dbm_LE_ZERO
      /\ \A j \in Clk : D[0][j] <= dbm_LE_ZERO
      /\ 0 \in Clk
  BY ZoneEntries
<1>2. r \in [Clk -> Clk] /\ w \in [Clk -> Int] /\ \A c \in Clk : w[c] = v \/ w[c] = 0
  BY <1>1 DEF Instead, OnlyFor
<1>3. \A j \in Clk : E[0][j] <= dbm_LE_ZERO
  <2>1. \A j \in Clk : E[0][j] = IF j = k THEN dbm_bound2raw(-v, dbm_WEAK) ELSE D[0][j]
    BY <1>1 DEF dbm_updateValue
  <2>2. dbm_bound2raw(-v, dbm_WEAK) <= dbm_LE_ZERO
    BY Infinity DEF dbm_bound2raw, dbm_WEAK
  <2> QED
    BY <1>1, <2>1, <2>2
<1>4. Substituted(E, D, {}, r, r, w)
  BY UpdateValueSubstitutes
<1> HIDE DEF E, r, w
<1>5. \A i, j \in Clk : -B <= 2 * (w[i] - w[j]) /\ 2 * (w[i] - w[j]) <= B
  BY <1>2
<1>6. \A c \in Clk \ {} : D[r[c]][r[c]] <= dbm_LE_ZERO
  BY <1>1, <1>2, Infinity
<1>7. IsZone(E, 2 * B)
  BY <1>2, <1>3, <1>4, <1>5, <1>6, SubstitutedIsZone
<1> QED
  BY <1>7 DEF E

\* dbm_update, with its three branches, puts clock j plus v instead of i.
LEMMA UpdateSubstitutes ==
  ASSUME NEW D, NEW B \in Nat, IsZone(D, B),
         NEW i \in Clk \ {0}, NEW j \in Clk \ {0}, NEW v \in Int
  PROVE  LET r == Instead(i, j)
         IN  Substituted(dbm_update(D, i, j, v), D, {}, r, r, OnlyFor(i, v))
<1> DEFINE E == dbm_update(D, i, j, v)
           r == Instead(i, j)
           w == OnlyFor(i, v)
<1>1. /\ \A a, b \in Clk : D[a][b] \in Int
      /\ \A c \in Clk : D[c][c] = dbm_LE_ZERO
      /\ 0 \in Clk
  BY ZoneEntries
<1>2. r \in [Clk -> Clk] /\ w \in [Clk -> Int] /\ r[0] = 0 /\ w[0] = 0 /\ r[i] = j /\ w[i] = v
      /\ \A c \in Clk \ {i} : r[c] = c /\ w[c] = 0
  BY <1>1 DEF Instead, OnlyFor
<1>4. E = [a \in Clk |-> [b \in Clk |-> E[a][b]]]
  BY DEF dbm_update, dbm_updateIncrement, dbm_updateClock
<1>5. \A x \in Int : /\ dbm_rawInc(x, 0) = x
                     /\ dbm_rawDec(x, 2 * v) = dbm_rawInc(x, -(2 * v))
  BY DEF dbm_rawInc, dbm_rawDec
<1>6. \A c \in Clk : E[c][c] = dbm_LE_ZERO
  BY <1>1 DEF dbm_update, dbm_updateIncrement, dbm_updateClock
<1>7. \A a, b \in Clk : a # b =>
        E[a][b] = IF a = i THEN dbm_rawInc(D[j][r[b]], 2 * v)
                  ELSE IF b = i THEN dbm_rawDec(D[a][j], 2 * v) ELSE D[a][b]
  <2>1. CASE i = j
    BY <1>2, <2>1 DEF dbm_update, dbm_updateIncrement
  <2>2. CASE i # j /\ v = 0
    BY <1>1, <1>2, <1>5, <2>2 DEF dbm_update, dbm_updateClock
  <2>3. CASE i # j /\ v # 0
    BY <1>2, <2>3 DEF dbm_update
  <2> QED
    BY <2>1, <2>2, <2>3
<1> HIDE DEF E, r, w
<1>8. ASSUME NEW a \in Clk, NEW b \in Clk, a # b
      PROVE  E[a][b] = dbm_rawInc(D[r[a]][r[b]], 2 * (w[a] - w[b]))
  <2>1. CASE a = i
    <3>1. r[a] = j /\ r[b] = b /\ 2 * (w[a] - w[b]) = 2 * v
      BY <1>2, <1>8, <2>1
    <3> QED
      BY <1>7, <1>8, <2>1, <3>1
  <2>2. CASE a # i /\ b = i
    <3>1. r[a] = a /\ r[b] = j /\ 2 * (w[a] - w[b]) = -(2 * v)
      BY <1>2, <1>8, <2>2
    <3> QED
      BY <1>1, <1>5, <1>7, <1>8, <2>2, <3>1
  <2>3. CASE a # i /\ b # i
    <3>1. r[a] = a /\ r[b] = b /\ 2 * (w[a] - w[b]) = 0
      BY <1>2, <2>3
    <3> QED
      BY <1>1, <1>5, <1>7, <1>8, <2>3, <3>1
  <2> QED
    BY <2>1, <2>2, <2>3
<1>9. Substituted(E, D, {}, r, r, w)
  BY <1>4, <1>6, <1>8 DEF Substituted
<1> QED
  BY <1>9 DEF E, r, w

\* dbm_update: clock i becomes clock j plus v, which the precondition keeps positive.
LEMMA UpdateIsZone ==
  ASSUME NEW D, NEW B \in Nat, IsZone(D, B), 2 * B <= dbm_LE_OVERFLOW,
         NEW i \in Clk \ {0}, NEW j \in Clk \ {0}, NEW v \in Int, -B <= 2 * v, 2 * v <= B,
         dbm_raw2bound(D[0][j]) <= v
  PROVE  IsZone(dbm_update(D, i, j, v), 2 * B)
<1> DEFINE E == dbm_update(D, i, j, v)
           r == Instead(i, j)
           w == OnlyFor(i, v)
<1>1. /\ \A a, b \in Clk : D[a][b] \in Int /\ D[a][b] <= dbm_LS_INFINITY
      /\ \A c \in Clk : D[c][c] = dbm_LE_ZERO
      /\ \A c \in Clk : D[0][c] <= dbm_LE_ZERO /\ D[0][c] # dbm_LS_INFINITY
      /\ 0 \in Clk
  BY ZoneEntries
<1>2. /\ r \in [Clk -> Clk] /\ w \in [Clk -> Int] /\ r[0] = 0 /\ w[0] = 0
      /\ r[i] = j /\ w[i] = v /\ \A c \in Clk \ {i} : r[c] = c /\ w[c] = 0
  BY <1>1 DEF Instead, OnlyFor
<1>3. Substituted(E, D, {}, r, r, w)
  BY UpdateSubstitutes
<1> HIDE DEF E, r, w
<1>4. \A a, b \in Clk : -B <= 2 * (w[a] - w[b]) /\ 2 * (w[a] - w[b]) <= B
  <2>1. \A c \in Clk : w[c] = v \/ w[c] = 0
    BY <1>2
  <2> QED
    BY <2>1
<1>5. \A c \in Clk \ {} : D[r[c]][r[c]] <= dbm_LE_ZERO
  BY <1>1, <1>2, Infinity
<1>6. ASSUME NEW b \in Clk PROVE E[0][b] <= dbm_LE_ZERO
  <2>1. CASE b = i
    <3>1. E[0][b] = dbm_rawInc(D[0][j], 2 * (0 - v))
      BY <1>1, <1>2, <1>3, <2>1 DEF Substituted
    <3>2. D[0][j] \in Int /\ D[0][j] < dbm_LS_INFINITY
      BY <1>1, Infinity
    <3>3. D[0][j] + 2 * (0 - v) <= dbm_LE_ZERO
      BY <3>2, Infinity DEF dbm_raw2bound
    <3> QED
      BY <3>1, <3>2, <3>3 DEF dbm_rawInc
  <2>2. CASE b # i /\ b # 0
    <3>1. E[0][b] = dbm_rawInc(D[r[0]][r[b]], 2 * (w[0] - w[b]))
      BY <1>1, <1>3, <2>2 DEF Substituted
    <3>2. r[0] = 0 /\ w[0] = 0 /\ r[b] = b /\ w[b] = 0
      BY <1>2, <2>2
    <3> QED
      BY <1>1, <3>1, <3>2 DEF dbm_rawInc
  <2>3. CASE b = 0
    BY <1>1, <1>3, <2>3, Infinity DEF Substituted
  <2> QED
    BY <2>1, <2>2, <2>3
<1>7. IsZone(E, 2 * B)
  BY <1>2, <1>3, <1>4, <1>5, <1>6, SubstitutedIsZone
<1> QED
  BY <1>7 DEF E

\* A clock's index among the active clocks is below their number, the reference's is 0.
LEMMA IndexRange ==
  ASSUME NEW active \in SUBSET (0 .. dim), 0 \in active, Cardinality(active) = dim
  PROVE  /\ \A c \in active : Index(active, c) \in Clk
         /\ Index(active, 0) = 0
<1>1. dim \in Nat /\ IsFiniteSet(0 .. dim)
  BY DimAssumption, FS_Interval
<1>2. IsFiniteSet(active)
  BY <1>1, FS_Subset
<1>3. ASSUME NEW c \in active PROVE Index(active, c) \in Clk
  <2> DEFINE below == {x \in active : x < c}
  <2>1. IsFiniteSet(below) /\ Cardinality(below) \in Nat
    BY <1>2, FS_Subset, FS_CardinalityType
  <2>2. below \subseteq active /\ below # active /\ below \in SUBSET active
    <3>1. ~(c < c)
      BY <1>1
    <3> QED
      BY <3>1
  <2> HIDE DEF below
  <2>3. Cardinality(below) < dim
    <3>1. Cardinality(below) <= Cardinality(active) /\ Cardinality(below) # Cardinality(active)
      BY <1>2, <2>2, FS_Subset
    <3> QED
      BY <1>1, <2>1, <3>1
  <2>4. Cardinality(below) \in Clk
    BY <1>1, <2>1, <2>3 DEF Clk
  <2> QED
    BY <2>4 DEF Index, below
<1>4. Index(active, 0) = 0
  <2>1. \A x \in active : ~(x < 0)
    BY <1>1
  <2>2. {x \in active : x < 0} = {}
    BY <2>1
  <2> QED
    BY <2>2, FS_EmptySet DEF Index
<1> QED
  BY <1>3, <1>4

\* Every index is that of some active clock, and only the reference has index 0.
LEMMA IndexOnto ==
  ASSUME NEW active \in SUBSET (0 .. dim), 0 \in active, Cardinality(active) = dim
  PROVE  /\ \A c \in active : Index(active, c) = 0 => c = 0
         /\ \A d \in Clk : \E c \in active : Index(active, c) = d
<1> DEFINE f == [c \in active |-> Index(active, c)]
<1>1. /\ dim \in Nat /\ IsFiniteSet(active) /\ IsFiniteSet(Clk) /\ Cardinality(Clk) = dim
      /\ \A c \in active : c \in Nat
  <2>1. dim \in Nat /\ IsFiniteSet(0 .. dim)
    BY DimAssumption, FS_Interval
  <2>2. IsFiniteSet(active)
    BY <2>1, FS_Subset
  <2>3. IsFiniteSet(Clk) /\ Cardinality(Clk) = dim
    BY FS_Interval, DimAssumption DEF Clk
  <2> QED
    BY <2>1, <2>2, <2>3
<1>2. f \in [active -> Clk]
  BY IndexRange
<1>3. ASSUME NEW c \in active, NEW d \in active, c < d
      PROVE  f[c] # f[d]
  <2> DEFINE S == {x \in active : x < c}
             T == {x \in active : x < d}
  <2>1. IsFiniteSet(T)
    BY <1>1, FS_Subset
  <2>2. c \in T /\ c \notin S /\ S \in SUBSET T
    <3>1. \A x \in active : x < c => x < d
      BY <1>1, <1>3
    <3>2. ~(c < c)
      BY <1>1
    <3> QED
      BY <1>3, <3>1, <3>2
  <2> HIDE DEF S, T
  <2>3. Cardinality(S) # Cardinality(T)
    BY <2>1, <2>2, FS_Subset
  <2> QED
    BY <2>3 DEF Index, S, T
<1>4. \A c, d \in active : f[c] = f[d] => c = d
  BY <1>1, <1>3
<1>5. f \in Injection(active, Clk)
  BY <1>2, <1>4 DEF Injection, IsInjective
<1>6. f \in Surjection(active, Clk)
  BY <1>1, <1>5, FS_Injection
<1>7. \A d \in Clk : \E c \in active : f[c] = d
  BY <1>6 DEF Surjection
<1>8. f[0] = 0
  BY IndexRange
<1>9. \A c \in active : f[c] = 0 => c = 0
  BY <1>4, <1>8
<1> QED
  BY <1>7, <1>9

\* dbm_shrinkExpand is dbm_updateDBM with a table of these indices.
LEMMA ShrinkExpandIsZone ==
  ASSUME NEW D, NEW B \in Nat, IsZone(D, B), 2 * B <= dbm_LE_OVERFLOW,
         NEW src \in SUBSET (0 .. dim), 0 \in src, Cardinality(src) = dim,
         NEW dst \in SUBSET (0 .. dim), 0 \in dst, Cardinality(dst) = dim
  PROVE  IsZone(dbm_shrinkExpand(D, src, dst), 2 * B)
<1> DEFINE at(d) == CHOOSE c \in dst : Index(dst, c) = d
           cols == dbm_computeTables(src, dst)
<1>1. 0 .. Cardinality(dst) - 1 = Clk /\ 0 \in Clk
  BY DimAssumption DEF Clk
<1>2. \A d \in Clk : at(d) \in dst /\ Index(dst, at(d)) = d
  BY IndexOnto
<1>3. at(0) = 0
  BY <1>1, <1>2, IndexOnto
<1>4. cols = [d \in Clk |-> IF at(d) \in src THEN Index(src, at(d)) ELSE NoCol]
  BY <1>1 DEF dbm_computeTables
<1> HIDE DEF at
<1>5. \A d \in Clk : at(d) \in src => Index(src, at(d)) \in Clk
  BY IndexRange
<1>6. cols \in [Clk -> Clk \cup {NoCol}]
  BY <1>4, <1>5
<1>7. cols[0] = 0
  BY <1>1, <1>3, <1>4, IndexRange
<1> HIDE DEF cols
<1>8. IsZone(dbm_updateDBM(D, cols), 2 * B)
  BY <1>6, <1>7, UpdateDBMIsZone
<1> QED
  BY <1>8 DEF dbm_shrinkExpand, cols

-----------------------------------------------------------------------------
(* Delay. *)

\* dbm_up_stop leaves a zone.
LEMMA UpStopIsZone ==
  ASSUME NEW D, NEW B \in Nat, IsZone(D, B), NEW stopped \in SUBSET (Clk \ {0})
  PROVE  IsZone(dbm_up_stop(D, stopped), B)
<1> DEFINE E == dbm_up_stop(D, stopped)
           fixed == stopped \cup {0}
<1>1. /\ \A i, j \in Clk : D[i][j] \in Int /\ D[i][j] <= dbm_LS_INFINITY
      /\ \A i, j \in Clk : D[i][j] # dbm_LS_INFINITY => -B < D[i][j] /\ D[i][j] < B
      /\ \A c \in Clk : D[c][c] = dbm_LE_ZERO
      /\ \A j \in Clk : D[0][j] <= dbm_LE_ZERO
      /\ \A i, k, j \in Clk : D[i][k] # dbm_LS_INFINITY /\ D[k][j] # dbm_LS_INFINITY
           => /\ D[i][j] # dbm_LS_INFINITY
              /\ D[i][j] <= dbm_addFiniteFinite(D[i][k], D[k][j])
      /\ 0 \in Clk
  BY ZoneEntries
<1>2. \A i, j \in Clk :
        E[i][j] = IF i \notin fixed /\ j \in fixed THEN dbm_LS_INFINITY ELSE D[i][j]
  BY DEF dbm_up_stop
<1>3. E = [i \in Clk |-> [j \in Clk |-> E[i][j]]]
  BY DEF dbm_up_stop
<1>4. 0 \in fixed
  OBVIOUS
<1> HIDE DEF E, fixed
<1>5. \A i, k, j \in Clk : E[i][k] # dbm_LS_INFINITY /\ E[k][j] # dbm_LS_INFINITY
        => E[i][k] = D[i][k] /\ E[k][j] = D[k][j] /\ E[i][j] = D[i][j]
  BY <1>2
<1>6. \A i, k, j \in Clk : E[i][k] # dbm_LS_INFINITY /\ E[k][j] # dbm_LS_INFINITY
        => /\ E[i][j] # dbm_LS_INFINITY
           /\ E[i][j] <= dbm_addFiniteFinite(E[i][k], E[k][j])
  BY <1>1, <1>5
<1>7. \A i, j \in Clk : /\ E[i][j] \in Int /\ E[i][j] <= dbm_LS_INFINITY
                        /\ E[i][j] # dbm_LS_INFINITY => -B < E[i][j] /\ E[i][j] < B
  BY <1>1, <1>2, Infinity
<1>8. \A i \in Clk : E[i][i] = dbm_LE_ZERO
  BY <1>1, <1>2
<1>9. \A j \in Clk : E[0][j] <= dbm_LE_ZERO
  BY <1>1, <1>2, <1>4
<1>10. IsZone(E, B)
  BY <1>3, <1>6, <1>7, <1>8, <1>9, ZoneFromEntries
<1> QED
  BY <1>10 DEF E

\* dbm_up is dbm_up_stop with no stopped clock.
LEMMA UpIsZone ==
  ASSUME NEW D, NEW B \in Nat, IsZone(D, B)
  PROVE  IsZone(dbm_up(D), B)
<1>1. dbm_up(D) = dbm_up_stop(D, {})
  BY DEF dbm_up, dbm_up_stop
<1> QED
  BY <1>1, UpStopIsZone

\* The least element of a set of integers that has one.
LEMMA LeastIsLeast ==
  ASSUME NEW T \in SUBSET Int, T # {}, NEW lo \in Int, \A x \in T : lo <= x
  PROVE  /\ Least(T) \in T /\ Least(T) \in Int /\ lo <= Least(T)
         /\ \A x \in T : Least(T) <= x
<1>1. \E x \in T : \A y \in T : x <= y
  BY LeastInteger
<1> QED
  BY <1>1 DEF Least

\* low[j] is the smallest of 0 and the bounds of the running clocks on clock j: the
\* lower bound of j after the running clocks went back as far as possible.
IsLowest(low, D, running) ==
  /\ low \in [running -> Int]
  /\ \A j \in running :
       /\ low[j] <= dbm_LE_ZERO
       /\ \A i \in running : low[j] <= D[i][j]
       /\ low[j] = dbm_LE_ZERO \/ \E i \in running : low[j] = D[i][j]

\* E is D with these lower bounds, and with what they imply for the bounds of the
\* stopped clocks on the running ones.
Lowered(E, D, running, low) ==
  /\ E = [i \in Clk |-> [j \in Clk |-> E[i][j]]]
  /\ \A i, j \in Clk :
       E[i][j] = IF j \in running /\ i \notin running
                 THEN dbm_addRawRaw(D[i][0], low[j]) ELSE D[i][j]

\* A lower bound is no looser than the path over another running clock.
LEMMA LowestPaths ==
  ASSUME NEW D, NEW B \in Nat, IsZone(D, B), NEW running \in SUBSET (Clk \ {0}),
         NEW low, IsLowest(low, D, running)
  PROVE  \A k, j \in running :
           D[k][j] # dbm_LS_INFINITY => low[j] <= dbm_addFiniteFinite(low[k], D[k][j])
<1> DEFINE Sum(x, y) == dbm_addFiniteFinite(x, y)
<1>1. /\ \A i, j \in Clk : D[i][j] \in Int
      /\ \A i, k, j \in Clk : D[i][k] # dbm_LS_INFINITY /\ D[k][j] # dbm_LS_INFINITY
           => D[i][j] # dbm_LS_INFINITY /\ D[i][j] <= Sum(D[i][k], D[k][j])
  BY ZoneEntries
<1>2. /\ \A x, y \in Int : Sum(x, y) \in Int
      /\ \A x \in Int : Sum(dbm_LE_ZERO, x) = x
  BY SumLaws
<1>3. \A j \in running :
        /\ low[j] \in Int /\ low[j] # dbm_LS_INFINITY
        /\ \A i \in running : low[j] <= D[i][j]
        /\ low[j] = dbm_LE_ZERO \/ \E i \in running : low[j] = D[i][j]
  BY Infinity DEF IsLowest
<1> SUFFICES ASSUME NEW k \in running, NEW j \in running, D[k][j] # dbm_LS_INFINITY
             PROVE  low[j] <= Sum(low[k], D[k][j])
  OBVIOUS
<1> HIDE DEF Sum
<1>4. k \in Clk /\ j \in Clk /\ D[k][j] \in Int /\ low[j] \in Int /\ low[k] \in Int
  BY <1>1, <1>3
<1>5. CASE low[k] = dbm_LE_ZERO
  BY <1>2, <1>3, <1>4, <1>5
<1>6. CASE \E m \in running : low[k] = D[m][k]
  <2>1. PICK m \in running : low[k] = D[m][k]
    BY <1>6
  <2>2. D[m][j] <= Sum(D[m][k], D[k][j]) /\ low[j] <= D[m][j] /\ D[m][j] \in Int
        /\ Sum(D[m][k], D[k][j]) \in Int
    BY <1>1, <1>2, <1>3, <1>4, <2>1
  <2> QED
    BY <1>4, <2>1, <2>2
<1> QED
  BY <1>3, <1>5, <1>6

\* A zone whose running clocks are lowered to these bounds is a zone.
LEMMA LoweredIsZone ==
  ASSUME NEW D, NEW B \in Nat, IsZone(D, B), 2 * B <= dbm_LE_OVERFLOW, NEW E, NEW low,
         NEW running \in SUBSET (Clk \ {0}),
         IsLowest(low, D, running), Lowered(E, D, running, low)
  PROVE  IsZone(E, 2 * B)
<1> DEFINE Sum(x, y) == dbm_addFiniteFinite(x, y)
<1>1. /\ \A i, j \in Clk : D[i][j] \in Int /\ D[i][j] <= dbm_LS_INFINITY
      /\ \A i, j \in Clk : D[i][j] # dbm_LS_INFINITY => -B < D[i][j] /\ D[i][j] < B
      /\ \A c \in Clk : D[c][c] = dbm_LE_ZERO
      /\ \A j \in Clk : D[0][j] <= dbm_LE_ZERO /\ D[0][j] # dbm_LS_INFINITY
      /\ \A i, k, j \in Clk : D[i][k] # dbm_LS_INFINITY /\ D[k][j] # dbm_LS_INFINITY
           => D[i][j] # dbm_LS_INFINITY /\ D[i][j] <= Sum(D[i][k], D[k][j])
      /\ 0 \in Clk
  BY ZoneEntries
<1>2. /\ \A x, y \in Int : Sum(x, y) \in Int
      /\ \A x, y, z \in Int : Sum(Sum(x, y), z) = Sum(x, Sum(y, z))
      /\ \A x \in Int : Sum(dbm_LE_ZERO, x) = x
      /\ \A x, y, z \in Int : x <= y => Sum(x, z) <= Sum(y, z) /\ Sum(z, x) <= Sum(z, y)
  BY SumLaws
<1>3. /\ \A j \in running :
           /\ low[j] \in Int /\ low[j] <= dbm_LE_ZERO /\ low[j] # dbm_LS_INFINITY
           /\ \A i \in running : low[j] <= D[i][j]
           /\ low[j] = dbm_LE_ZERO \/ \E i \in running : low[j] = D[i][j]
      /\ running \subseteq Clk /\ 0 \notin running
  BY Infinity DEF IsLowest
<1>4. dbm_LS_INFINITY \in Int /\ dbm_LE_ZERO \in Int /\ dbm_LE_ZERO < dbm_LS_INFINITY
      /\ dbm_LE_ZERO = 1 /\ dbm_LE_OVERFLOW \in Int
      /\ dbm_LS_INFINITY = 2 * dbm_LE_OVERFLOW
  BY Infinity
<1>5. \A i, j \in Clk : j \in running /\ i \notin running =>
        /\ D[i][0] = dbm_LS_INFINITY => E[i][j] = dbm_LS_INFINITY
        /\ D[i][0] # dbm_LS_INFINITY => E[i][j] = Sum(D[i][0], low[j])
  BY <1>3 DEF Lowered, dbm_addRawRaw
<1>6. \A i, j \in Clk : j \notin running \/ i \in running => E[i][j] = D[i][j]
  BY DEF Lowered
<1>7. \A j \in running : -B < low[j] /\ low[j] < B
  <2> TAKE j \in running
  <2>1. low[j] \in Int /\ (low[j] = dbm_LE_ZERO \/ \E i \in running : low[j] = D[i][j])
        /\ low[j] # dbm_LS_INFINITY
    BY <1>3
  <2>2. -B < dbm_LE_ZERO /\ dbm_LE_ZERO < B
    BY <1>1, <1>4
  <2> QED
    BY <1>1, <1>3, <2>1, <2>2
<1> HIDE DEF Sum
\* The bounds only got looser.
<1>8. \A j \in running : D[0][j] <= low[j]
  <2> TAKE j \in running
  <2>1. CASE low[j] = dbm_LE_ZERO
    BY <1>1, <1>3, <2>1
  <2>2. CASE \E i \in running : low[j] = D[i][j]
    <3>1. PICK i \in running : low[j] = D[i][j]
      BY <2>2
    <3>2. i \in Clk /\ j \in Clk /\ D[i][j] # dbm_LS_INFINITY
      BY <1>3, <3>1
    <3>3. D[0][j] <= Sum(D[0][i], D[i][j])
      BY <1>1, <3>2
    <3>4. Sum(D[0][i], D[i][j]) <= Sum(dbm_LE_ZERO, D[i][j])
          /\ Sum(dbm_LE_ZERO, D[i][j]) = D[i][j]
          /\ Sum(D[0][i], D[i][j]) \in Int
      BY <1>1, <1>2, <1>4, <3>2
    <3> QED
      BY <1>1, <3>1, <3>2, <3>3, <3>4
  <2> QED
    BY <1>3, <2>1, <2>2
<1>9. \A i, j \in Clk : D[i][j] \in Int /\ E[i][j] \in Int /\ E[i][j] <= dbm_LS_INFINITY
        /\ (E[i][j] # dbm_LS_INFINITY =>
              /\ -(2 * B) < E[i][j] /\ E[i][j] < 2 * B
              /\ D[i][j] # dbm_LS_INFINITY /\ D[i][j] <= E[i][j])
  <2> TAKE i, j \in Clk
  <2>1. CASE j \notin running \/ i \in running
    BY <1>1, <1>6, <2>1
  <2>2. CASE j \in running /\ i \notin running
    <3>1. CASE D[i][0] = dbm_LS_INFINITY
      BY <1>1, <1>4, <1>5, <2>2, <3>1
    <3>2. CASE D[i][0] # dbm_LS_INFINITY
      <4>1. E[i][j] = Sum(D[i][0], low[j])
        BY <1>5, <2>2, <3>2
      <4>2. /\ D[i][0] \in Int /\ low[j] \in Int /\ D[0][j] \in Int
            /\ -B < D[i][0] /\ D[i][0] < B /\ -B < low[j] /\ low[j] < B
        BY <1>1, <1>3, <1>7, <2>2, <3>2
      <4>3. E[i][j] \in Int /\ -(2 * B) < E[i][j] /\ E[i][j] < 2 * B
        BY <4>1, <4>2 DEF Sum, dbm_addFiniteFinite
      <4>4. D[i][j] # dbm_LS_INFINITY /\ D[i][j] <= Sum(D[i][0], D[0][j])
        BY <1>1, <3>2
      <4>5. Sum(D[i][0], D[0][j]) <= Sum(D[i][0], low[j]) /\ Sum(D[i][0], D[0][j]) \in Int
        BY <1>2, <1>8, <2>2, <4>2
      <4>6. D[i][j] <= E[i][j]
        BY <1>1, <4>1, <4>3, <4>4, <4>5
      <4>7. E[i][j] <= dbm_LS_INFINITY
        BY <1>4, <4>3
      <4> QED
        BY <1>1, <4>3, <4>4, <4>6, <4>7
    <3> QED
      BY <3>1, <3>2
  <2> QED
    BY <2>1, <2>2
<1>10. \A k, j \in running : D[k][j] # dbm_LS_INFINITY => low[j] <= Sum(low[k], D[k][j])
  BY LowestPaths DEF Sum
<1>11. ASSUME NEW i \in Clk, NEW k \in Clk, NEW j \in Clk,
              E[i][k] # dbm_LS_INFINITY, E[k][j] # dbm_LS_INFINITY
       PROVE  E[i][j] # dbm_LS_INFINITY /\ E[i][j] <= Sum(E[i][k], E[k][j])
  <2>1. /\ D[i][k] # dbm_LS_INFINITY /\ D[i][k] <= E[i][k]
        /\ D[k][j] # dbm_LS_INFINITY /\ D[k][j] <= E[k][j]
        /\ D[i][k] \in Int /\ E[i][k] \in Int /\ D[k][j] \in Int /\ E[k][j] \in Int
        /\ D[i][j] \in Int /\ E[i][j] \in Int
    BY <1>9, <1>11
  <2>2. CASE j \notin running \/ i \in running
    <3>1. E[i][j] = D[i][j] /\ D[i][j] # dbm_LS_INFINITY
          /\ D[i][j] <= Sum(D[i][k], D[k][j])
      BY <1>1, <1>6, <2>1, <2>2
    <3>2. /\ Sum(D[i][k], D[k][j]) <= Sum(E[i][k], D[k][j])
          /\ Sum(E[i][k], D[k][j]) <= Sum(E[i][k], E[k][j])
          /\ Sum(D[i][k], D[k][j]) \in Int /\ Sum(E[i][k], D[k][j]) \in Int
          /\ Sum(E[i][k], E[k][j]) \in Int
      BY <1>2, <2>1
    <3> QED
      BY <2>1, <3>1, <3>2
  <2>3. CASE j \in running /\ i \notin running /\ k \notin running
    <3>1. D[k][0] # dbm_LS_INFINITY /\ E[k][j] = Sum(D[k][0], low[j]) /\ E[i][k] = D[i][k]
      BY <1>5, <1>6, <1>11, <2>3
    <3>2. D[i][0] # dbm_LS_INFINITY /\ D[i][0] <= Sum(D[i][k], D[k][0])
      BY <1>1, <2>1, <3>1
    <3>3. E[i][j] = Sum(D[i][0], low[j]) /\ E[i][j] # dbm_LS_INFINITY
      <4>1. E[i][j] = Sum(D[i][0], low[j])
        BY <1>5, <2>3, <3>2
      <4>2. -B < D[i][0] /\ D[i][0] < B /\ -B < low[j] /\ low[j] < B
            /\ D[i][0] \in Int /\ low[j] \in Int
        BY <1>1, <1>3, <1>7, <2>3, <3>2
      <4>3. E[i][j] < 2 * B
        BY <4>1, <4>2 DEF Sum, dbm_addFiniteFinite
      <4> QED
        BY <1>4, <2>1, <4>1, <4>3
    <3>4. low[j] \in Int /\ D[i][0] \in Int /\ D[k][0] \in Int
      BY <1>1, <1>3, <2>3
    <3>5. Sum(D[i][0], low[j]) <= Sum(Sum(D[i][k], D[k][0]), low[j])
      BY <1>2, <2>1, <3>2, <3>4
    <3>6. Sum(Sum(D[i][k], D[k][0]), low[j]) = Sum(D[i][k], Sum(D[k][0], low[j]))
      BY <2>1, <3>4, AddAssociative DEF Sum
    <3> QED
      BY <3>1, <3>3, <3>5, <3>6
  <2>4. CASE j \in running /\ i \notin running /\ k \in running
    <3>1. D[i][0] # dbm_LS_INFINITY /\ E[i][k] = Sum(D[i][0], low[k]) /\ E[k][j] = D[k][j]
      BY <1>5, <1>6, <1>11, <2>4
    <3>2. low[j] \in Int /\ low[k] \in Int /\ D[i][0] \in Int
      BY <1>1, <1>3, <2>4
    <3>3. E[i][j] = Sum(D[i][0], low[j]) /\ E[i][j] # dbm_LS_INFINITY
      <4>1. E[i][j] = Sum(D[i][0], low[j])
        BY <1>5, <2>4, <3>1
      <4>2. -B < D[i][0] /\ D[i][0] < B /\ -B < low[j] /\ low[j] < B
        BY <1>1, <1>7, <2>4, <3>1
      <4>3. E[i][j] < 2 * B
        BY <3>2, <4>1, <4>2 DEF Sum, dbm_addFiniteFinite
      <4> QED
        BY <1>4, <2>1, <4>1, <4>3
    <3>4. low[j] <= Sum(low[k], D[k][j]) /\ Sum(low[k], D[k][j]) \in Int
      BY <1>2, <1>10, <2>1, <2>4, <3>2
    <3>5. Sum(D[i][0], low[j]) <= Sum(D[i][0], Sum(low[k], D[k][j]))
      BY <1>2, <3>2, <3>4
    <3>6. Sum(D[i][0], Sum(low[k], D[k][j])) = Sum(Sum(D[i][0], low[k]), D[k][j])
      BY <2>1, <3>2, AddAssociative DEF Sum
    <3> QED
      BY <3>1, <3>3, <3>5, <3>6
  <2> QED
    BY <2>2, <2>3, <2>4
<1>12. \A i \in Clk : E[i][i] = dbm_LE_ZERO
  BY <1>1, <1>6
<1>13. ASSUME NEW j \in Clk PROVE E[0][j] <= dbm_LE_ZERO
  <2>1. CASE j \notin running
    BY <1>1, <1>6, <2>1
  <2>2. CASE j \in running
    <3>1. E[0][j] = Sum(dbm_LE_ZERO, low[j])
      BY <1>1, <1>3, <1>4, <1>5, <2>2
    <3> QED
      BY <1>2, <1>3, <2>2, <3>1
  <2> QED
    BY <2>1, <2>2
<1>14. E = [i \in Clk |-> [j \in Clk |-> E[i][j]]]
  BY DEF Lowered
<1> QED
  BY <1>9, <1>11, <1>12, <1>13, <1>14, ZoneFromEntries DEF Sum

\* dbm_down leaves a zone.
LEMMA DownIsZone ==
  ASSUME NEW D, NEW B \in Nat, IsZone(D, B), 2 * B <= dbm_LE_OVERFLOW
  PROVE  IsZone(dbm_down(D), 2 * B)
<1> DEFINE E == dbm_down(D)
           running == Clk \ {0}
           low == [j \in running |-> E[0][j]]
           above(j) == {dbm_LE_ZERO} \cup {D[i][j] : i \in running}
<1>1. /\ \A i, j \in Clk : D[i][j] \in Int /\ D[i][j] <= dbm_LS_INFINITY
      /\ \A i, j \in Clk : D[i][j] # dbm_LS_INFINITY => -B < D[i][j] /\ D[i][j] < B
      /\ \A c \in Clk : D[c][c] = dbm_LE_ZERO
      /\ \A j \in Clk : D[0][j] <= dbm_LE_ZERO /\ D[0][j] # dbm_LS_INFINITY
      /\ \A i, k, j \in Clk : D[i][k] # dbm_LS_INFINITY /\ D[k][j] # dbm_LS_INFINITY
           => /\ D[i][j] # dbm_LS_INFINITY
              /\ D[i][j] <= dbm_addFiniteFinite(D[i][k], D[k][j])
      /\ 0 \in Clk
  BY ZoneEntries
<1>2. D \in [Clk -> [Clk -> Int]]
  BY DEF IsZone, WideMatrix
<1>3. \A j \in Clk : j >= 1 <=> j # 0
  BY DimAssumption DEF Clk
<1>4. \A j \in running : E[0][j] = IF D[0][j] < dbm_LE_ZERO THEN Least(above(j)) ELSE D[0][j]
  <2>1. {i \in Clk \ {0} : D[0][i] # dbm_LS_INFINITY} = running
    BY <1>1
  <2> QED
    BY <1>1, <1>2, <1>3, <2>1 DEF dbm_down, dbm_downFrom
<1>5. \A i, j \in Clk : i # 0 \/ j = 0 => E[i][j] = D[i][j]
  BY <1>1, <1>2, <1>3 DEF dbm_down, dbm_downFrom
<1>6. E = [i \in Clk |-> [j \in Clk |-> E[i][j]]]
  BY <1>1, <1>2 DEF dbm_down, dbm_downFrom
<1> HIDE DEF E
<1>7. ASSUME NEW j \in running
      PROVE  /\ E[0][j] \in Int /\ E[0][j] <= dbm_LE_ZERO
             /\ \A i \in running : E[0][j] <= D[i][j]
             /\ E[0][j] = dbm_LE_ZERO \/ \E i \in running : E[0][j] = D[i][j]
  <2>1. CASE D[0][j] < dbm_LE_ZERO
    <3>1. above(j) \in SUBSET Int /\ above(j) # {} /\ -B \in Int
          /\ \A x \in above(j) : -B <= x
      BY <1>1, Infinity
    <3>2. E[0][j] = Least(above(j))
      BY <1>4, <2>1
    <3>3. /\ E[0][j] \in above(j) /\ E[0][j] \in Int
          /\ \A x \in above(j) : E[0][j] <= x
      BY <3>1, <3>2, LeastIsLeast
    <3> QED
      BY <3>3
  <2>2. CASE ~(D[0][j] < dbm_LE_ZERO)
    <3>3. E[0][j] = D[0][j]
      BY <1>4, <2>2
    <3>4. j \in Clk /\ 0 \in Clk /\ D[0][j] \in Int /\ D[0][j] <= dbm_LE_ZERO
      BY <1>1
    <3>1. E[0][j] = D[0][j] /\ D[0][j] = dbm_LE_ZERO
      BY <2>2, <3>3, <3>4, Infinity
    <3>2. ASSUME NEW i \in running PROVE dbm_LE_ZERO <= D[i][j]
      <4>1. CASE D[i][j] = dbm_LS_INFINITY
        BY <4>1, Infinity
      <4>2. CASE D[i][j] # dbm_LS_INFINITY
        <5>1. D[0][j] <= dbm_addFiniteFinite(D[0][i], D[i][j])
          BY <1>1, <4>2
        <5>2. D[0][i] \in Int /\ D[i][j] \in Int /\ dbm_LE_ZERO \in Int /\ D[0][i] <= dbm_LE_ZERO
          BY <1>1, Infinity
        <5>3. /\ dbm_addFiniteFinite(D[0][i], D[i][j])
                   <= dbm_addFiniteFinite(dbm_LE_ZERO, D[i][j])
              /\ dbm_addFiniteFinite(dbm_LE_ZERO, D[i][j]) = D[i][j]
              /\ dbm_addFiniteFinite(D[0][i], D[i][j]) \in Int
          BY <5>2, SumLaws
        <5> QED
          BY <3>1, <5>1, <5>2, <5>3
      <4> QED
        BY <4>1, <4>2
    <3> QED
      BY <3>1, <3>2, Infinity
  <2> QED
    BY <2>1, <2>2
<1>8. IsLowest(low, D, running)
  BY <1>7 DEF IsLowest
<1>9. \A x \in Int : x # dbm_LS_INFINITY => dbm_addRawRaw(dbm_LE_ZERO, x) = x
  BY Infinity, SumLaws DEF dbm_addRawRaw
<1>10. \A j \in running : dbm_addRawRaw(D[0][0], low[j]) = E[0][j]
  BY <1>1, <1>7, <1>9, Infinity
<1>11. Lowered(E, D, running, low)
  <2>1. \A i, j \in Clk :
          E[i][j] = IF j \in running /\ i \notin running
                    THEN dbm_addRawRaw(D[i][0], low[j]) ELSE D[i][j]
    BY <1>5, <1>10
  <2> QED
    BY <1>6, <2>1 DEF Lowered
<1>12. running \in SUBSET (Clk \ {0})
  OBVIOUS
<1> HIDE DEF low, running
<1>13. IsZone(E, 2 * B)
  BY <1>8, <1>11, <1>12, LoweredIsZone
<1> QED
  BY <1>13 DEF E

\* What dbm_down_stop takes the least of for clock j, when f holds what it has lowered.
PathsTo(D, running, f, j) ==
  {dbm_LE_ZERO} \cup
    {dbm_addRawRaw(IF i < j THEN f[i] ELSE dbm_LE_ZERO, D[i][j]) : i \in running}

\* The recursion of dbm_down_stop, which uses lower bounds that it has already lowered,
\* computes the lower bounds that the old ones give.
LEMMA DownStopLower ==
  ASSUME NEW D, NEW B \in Nat, IsZone(D, B), NEW running \in SUBSET (Clk \ {0}),
         NEW low, IsLowest(low, D, running), NEW f,
         NEW j \in running, \A i \in running : i < j => f[i] = low[i]
  PROVE  low[j] = Least(PathsTo(D, running, f, j))
<1> DEFINE path(i) == dbm_addRawRaw(IF i < j THEN f[i] ELSE dbm_LE_ZERO, D[i][j])
           T == PathsTo(D, running, f, j)
<1>0. T = {dbm_LE_ZERO} \cup {path(i) : i \in running}
  BY DEF PathsTo
<1>1. /\ \A i, k \in Clk : D[i][k] \in Int /\ D[i][k] <= dbm_LS_INFINITY
      /\ running \subseteq Clk
  BY ZoneEntries
<1>2. \A i \in running :
        /\ low[i] \in Int /\ low[i] <= dbm_LE_ZERO /\ low[i] # dbm_LS_INFINITY
        /\ \A k \in running : low[i] <= D[k][i]
        /\ low[i] = dbm_LE_ZERO \/ \E k \in running : low[i] = D[k][i]
  BY Infinity DEF IsLowest
<1>3. \A i \in running : D[i][j] # dbm_LS_INFINITY =>
        low[j] <= dbm_addFiniteFinite(low[i], D[i][j])
  BY LowestPaths
<1>4. ASSUME NEW i \in running
      PROVE  path(i) \in Int /\ low[j] <= path(i) /\ path(i) <= D[i][j]
  <2>1. D[i][j] \in Int /\ low[i] \in Int /\ low[j] \in Int /\ low[j] <= dbm_LE_ZERO
        /\ low[i] # dbm_LS_INFINITY /\ low[i] <= dbm_LE_ZERO /\ dbm_LE_ZERO \in Int
        /\ low[j] <= D[i][j]
    BY <1>1, <1>2, Infinity
  <2>2. CASE D[i][j] = dbm_LS_INFINITY
    <3>1. path(i) = dbm_LS_INFINITY
      BY <2>2 DEF dbm_addRawRaw
    <3> QED
      BY <2>1, <2>2, <3>1, Infinity
  <2>3. CASE D[i][j] # dbm_LS_INFINITY /\ i < j
    <3>1. path(i) = dbm_addFiniteFinite(low[i], D[i][j])
      BY <2>1, <2>3 DEF dbm_addRawRaw
    <3>2. dbm_addFiniteFinite(low[i], D[i][j]) <= dbm_addFiniteFinite(dbm_LE_ZERO, D[i][j])
          /\ dbm_addFiniteFinite(dbm_LE_ZERO, D[i][j]) = D[i][j]
          /\ dbm_addFiniteFinite(low[i], D[i][j]) \in Int
      BY <2>1, SumLaws
    <3> QED
      BY <1>3, <2>3, <3>1, <3>2
  <2>4. CASE D[i][j] # dbm_LS_INFINITY /\ ~(i < j)
    <3>1. path(i) = dbm_addFiniteFinite(dbm_LE_ZERO, D[i][j])
      BY <2>4, Infinity DEF dbm_addRawRaw
    <3>2. path(i) = D[i][j]
      BY <2>1, <3>1, SumLaws
    <3> QED
      BY <2>1, <3>2
  <2> QED
    BY <2>2, <2>3, <2>4
<1> HIDE DEF path, T
<1>5. \A x \in T : x \in Int /\ low[j] <= x
  BY <1>0, <1>2, <1>4, Infinity
<1>6. low[j] \in T
  <2>1. CASE low[j] = dbm_LE_ZERO
    BY <1>0, <2>1
  <2>2. CASE \E k \in running : low[j] = D[k][j]
    <3>1. PICK k \in running : low[j] = D[k][j]
      BY <2>2
    <3>2. path(k) = low[j]
      <4>1. path(k) \in Int /\ low[j] \in Int /\ low[j] <= path(k) /\ path(k) <= low[j]
        BY <1>2, <1>4, <3>1
      <4> QED
        BY <4>1
    <3> QED
      BY <1>0, <3>2
  <2> QED
    BY <1>2, <2>1, <2>2
<1>7. T \in SUBSET Int /\ T # {} /\ low[j] \in Int
  BY <1>5, <1>6
<1>8. Least(T) \in T /\ Least(T) <= low[j] /\ low[j] <= Least(T) /\ Least(T) \in Int
  BY <1>5, <1>6, <1>7, LeastIsLeast
<1>9. low[j] = Least(T)
  BY <1>7, <1>8
<1> QED
  BY <1>9 DEF T

\* dbm_down_stop lowers the bounds of the running clocks to these bounds.
LEMMA DownStopLowers ==
  ASSUME NEW D, NEW B \in Nat, IsZone(D, B), NEW stopped \in SUBSET (Clk \ {0})
  PROVE  LET running == Clk \ (stopped \cup {0})
         IN  \E low : /\ IsLowest(low, D, running)
                      /\ Lowered(dbm_down_stop(D, stopped), D, running, low)
<1> DEFINE E == dbm_down_stop(D, stopped)
           running == Clk \ (stopped \cup {0})
           above(j) == {dbm_LE_ZERO} \cup {D[i][j] : i \in running}
           low == [j \in running |-> Least(above(j))]
<1>1. /\ \A i, j \in Clk : D[i][j] \in Int /\ D[i][j] <= dbm_LS_INFINITY
      /\ \A i, j \in Clk : D[i][j] # dbm_LS_INFINITY => -B < D[i][j] /\ D[i][j] < B
      /\ \A c \in Clk : D[c][c] = dbm_LE_ZERO
      /\ \A j \in Clk : D[0][j] <= dbm_LE_ZERO
      /\ 0 \in Clk
  BY ZoneEntries
<1>2. \A j \in running : low[j] = Least(above(j)) /\ DOMAIN low = running
  OBVIOUS
<1>3. ASSUME NEW j \in running
      PROVE  /\ low[j] \in Int /\ low[j] <= dbm_LE_ZERO
             /\ \A i \in running : low[j] <= D[i][j]
             /\ low[j] = dbm_LE_ZERO \/ \E i \in running : low[j] = D[i][j]
  <2>1. above(j) \in SUBSET Int /\ above(j) # {} /\ -B \in Int
        /\ \A x \in above(j) : -B <= x
    BY <1>1, Infinity
  <2>3. low[j] = Least(above(j))
    BY <1>2
  <2> DEFINE T == above(j)
  <2>5. T \in SUBSET Int /\ T # {} /\ -B \in Int /\ \A x \in T : -B <= x
    BY <2>1
  <2> HIDE DEF T
  <2>4. Least(T) \in T /\ Least(T) \in Int /\ \A x \in T : Least(T) <= x
    BY <2>5, LeastIsLeast
  <2>2. /\ low[j] \in above(j) /\ low[j] \in Int
        /\ \A x \in above(j) : low[j] <= x
    BY <2>3, <2>4 DEF T
  <2> HIDE DEF low
  <2> QED
    BY <2>2
<1>4. IsLowest(low, D, running)
  BY <1>3 DEF IsLowest
\* The function the operation defines is this one.
<1> DEFINE loose(j) == IF D[0][j] < dbm_LE_ZERO THEN dbm_LE_ZERO ELSE D[0][j]
           IsLower(g) ==
             g = [j \in running |->
                    Least({loose(j)} \cup
                          {dbm_addRawRaw(IF i < j THEN g[i] ELSE loose(i), D[i][j])
                             : i \in running})]
           lower == CHOOSE g : IsLower(g)
<1>5. \A j \in running : loose(j) = dbm_LE_ZERO
  BY <1>1, Infinity
<1>6. running \in SUBSET (Clk \ {0}) /\ \A j \in running : j \in Nat
  BY DimAssumption DEF Clk
<1>7. \A g : IsLower(g) <=> g = [j \in running |-> Least(PathsTo(D, running, g, j))]
  <2> TAKE g
  <2>1. \A j \in running :
          {loose(j)} \cup
             {dbm_addRawRaw(IF i < j THEN g[i] ELSE loose(i), D[i][j]) : i \in running}
          = PathsTo(D, running, g, j)
    BY <1>5 DEF PathsTo
  <2> HIDE DEF loose
  <2> QED
    BY <2>1
<1>8. E = [i \in Clk |-> [j \in Clk |->
             IF j \notin running THEN D[i][j]
             ELSE IF i = 0 THEN lower[j]
             ELSE IF i \in stopped /\ lower[j] # dbm_LS_INFINITY
                  THEN dbm_addRawRaw(D[i][0], lower[j])
             ELSE D[i][j]]]
  BY DEF dbm_down_stop
<1> HIDE DEF IsLower, low, running
<1>9. IsLower(low)
  <2>1. \A j \in running : low[j] = Least(PathsTo(D, running, low, j))
    BY <1>4, <1>6, DownStopLower
  <2>2. low = [j \in running |-> low[j]]
    BY DEF low
  <2> QED
    BY <1>7, <2>1, <2>2
<1>10. IsLower(lower)
  BY <1>9
<1> HIDE DEF lower
<1>11. \A j \in running : lower[j] = low[j]
  <2> DEFINE T == {j \in running : lower[j] # low[j]}
  <2> SUFFICES ASSUME T # {} PROVE FALSE
    OBVIOUS
  <2>1. PICK j \in T : \A i \in T : j <= i
    <3>1. T \in SUBSET Nat
      BY <1>6
    <3> QED
      BY <3>1, LeastNatural
  <2>2. \A i \in running : i < j => lower[i] = low[i]
    BY <1>6, <2>1
  <2>5. j \in running /\ lower[j] # low[j]
    BY <2>1
  <2> HIDE DEF T
  <2>3. low[j] = Least(PathsTo(D, running, lower, j))
    BY <1>4, <1>6, <2>2, <2>5, DownStopLower
  <2>4. lower[j] = Least(PathsTo(D, running, lower, j))
    BY <1>7, <1>10, <2>5
  <2> QED
    BY <2>3, <2>4, <2>5
<1>12. \A x \in Int : x # dbm_LS_INFINITY => dbm_addRawRaw(dbm_LE_ZERO, x) = x
  BY Infinity, SumLaws DEF dbm_addRawRaw
<1>13. \A j \in running : low[j] \in Int /\ low[j] # dbm_LS_INFINITY
  BY <1>3, Infinity
<1>14. Lowered(E, D, running, low)
  <2>1. E = [i \in Clk |-> [j \in Clk |-> E[i][j]]]
    BY <1>8
  <2>2. ASSUME NEW i \in Clk, NEW j \in Clk
        PROVE  E[i][j] = IF j \in running /\ i \notin running
                         THEN dbm_addRawRaw(D[i][0], low[j]) ELSE D[i][j]
    <3>1. E[i][j] = IF j \notin running THEN D[i][j]
             ELSE IF i = 0 THEN lower[j]
             ELSE IF i \in stopped /\ lower[j] # dbm_LS_INFINITY
                  THEN dbm_addRawRaw(D[i][0], lower[j])
             ELSE D[i][j]
      BY <1>8
    <3>2. i \notin running <=> i = 0 \/ i \in stopped
      BY DEF running
    <3>3. 0 \notin stopped
      OBVIOUS
    <3> HIDE DEF E
    <3> QED
      BY <1>1, <1>11, <1>12, <1>13, <3>1, <3>2, <3>3
  <2> QED
    BY <2>1, <2>2 DEF Lowered
<1> QED
  BY <1>4, <1>14 DEF running

\* dbm_down_stop leaves a zone.
LEMMA DownStopIsZone ==
  ASSUME NEW D, NEW B \in Nat, IsZone(D, B), 2 * B <= dbm_LE_OVERFLOW,
         NEW stopped \in SUBSET (Clk \ {0})
  PROVE  IsZone(dbm_down_stop(D, stopped), 2 * B)
<1> DEFINE running == Clk \ (stopped \cup {0})
<1>1. PICK low : /\ IsLowest(low, D, running)
                 /\ Lowered(dbm_down_stop(D, stopped), D, running, low)
  BY DownStopLowers
<1>2. running \in SUBSET (Clk \ {0})
  OBVIOUS
<1> HIDE DEF running
<1> QED
  BY <1>1, <1>2, LoweredIsZone

-----------------------------------------------------------------------------
(* Loosening. *)

\* dbm_convexUnion leaves a zone.
LEMMA ConvexUnionIsZone ==
  ASSUME NEW D, NEW S, NEW B \in Nat, IsZone(D, B), IsZone(S, B)
  PROVE  IsZone(dbm_convexUnion(D, S), B)
<1> DEFINE E == dbm_convexUnion(D, S)
           Sum(x, y) == dbm_addFiniteFinite(x, y)
<1>1. /\ \A i, j \in Clk : D[i][j] \in Int /\ D[i][j] <= dbm_LS_INFINITY
      /\ \A i, j \in Clk : D[i][j] # dbm_LS_INFINITY => -B < D[i][j] /\ D[i][j] < B
      /\ \A c \in Clk : D[c][c] = dbm_LE_ZERO
      /\ \A j \in Clk : D[0][j] <= dbm_LE_ZERO
      /\ \A i, k, j \in Clk : D[i][k] # dbm_LS_INFINITY /\ D[k][j] # dbm_LS_INFINITY
           => D[i][j] # dbm_LS_INFINITY /\ D[i][j] <= Sum(D[i][k], D[k][j])
      /\ 0 \in Clk
  BY ZoneEntries
<1>2. /\ \A i, j \in Clk : S[i][j] \in Int /\ S[i][j] <= dbm_LS_INFINITY
      /\ \A i, j \in Clk : S[i][j] # dbm_LS_INFINITY => -B < S[i][j] /\ S[i][j] < B
      /\ \A c \in Clk : S[c][c] = dbm_LE_ZERO
      /\ \A j \in Clk : S[0][j] <= dbm_LE_ZERO
      /\ \A i, k, j \in Clk : S[i][k] # dbm_LS_INFINITY /\ S[k][j] # dbm_LS_INFINITY
           => S[i][j] # dbm_LS_INFINITY /\ S[i][j] <= Sum(S[i][k], S[k][j])
  BY ZoneEntries
<1>3. /\ \A x, y \in Int : Sum(x, y) \in Int
      /\ \A x, y, u, v \in Int : x <= u /\ y <= v => Sum(x, y) <= Sum(u, v)
  BY SumLaws, AddMonotone
<1>4. E = [i \in Clk |-> [j \in Clk |-> E[i][j]]]
      /\ \A i, j \in Clk : E[i][j] = RawMax(D[i][j], S[i][j])
  BY DEF dbm_convexUnion, Entrywise
<1> HIDE DEF E, Sum
<1>5. \A i, j \in Clk :
        /\ E[i][j] \in Int /\ D[i][j] \in Int /\ S[i][j] \in Int
        /\ D[i][j] <= E[i][j] /\ S[i][j] <= E[i][j]
        /\ E[i][j] = D[i][j] \/ E[i][j] = S[i][j]
        /\ E[i][j] # dbm_LS_INFINITY
             => D[i][j] # dbm_LS_INFINITY /\ S[i][j] # dbm_LS_INFINITY
  <2> TAKE i, j \in Clk
  <2> DEFINE x == D[i][j]
             y == S[i][j]
             z == E[i][j]
  <2>1. /\ x \in Int /\ x <= dbm_LS_INFINITY /\ y \in Int /\ y <= dbm_LS_INFINITY
        /\ dbm_LS_INFINITY \in Int
    BY <1>1, <1>2, Infinity
  <2>2. z = RawMax(x, y)
    BY <1>4
  <2> HIDE DEF x, y, z
  <2>3. /\ z \in Int /\ x <= z /\ y <= z /\ (z = x \/ z = y)
        /\ z # dbm_LS_INFINITY => x # dbm_LS_INFINITY /\ y # dbm_LS_INFINITY
    BY <2>1, <2>2 DEF RawMax
  <2> QED
    BY <2>1, <2>3 DEF x, y, z
<1>6. ASSUME NEW i \in Clk, NEW k \in Clk, NEW j \in Clk,
             E[i][k] # dbm_LS_INFINITY, E[k][j] # dbm_LS_INFINITY
      PROVE  E[i][j] # dbm_LS_INFINITY /\ E[i][j] <= Sum(E[i][k], E[k][j])
  <2>1. /\ D[i][j] # dbm_LS_INFINITY /\ D[i][j] <= Sum(D[i][k], D[k][j])
        /\ S[i][j] # dbm_LS_INFINITY /\ S[i][j] <= Sum(S[i][k], S[k][j])
    BY <1>1, <1>2, <1>5, <1>6
  <2>2. /\ Sum(D[i][k], D[k][j]) <= Sum(E[i][k], E[k][j])
        /\ Sum(S[i][k], S[k][j]) <= Sum(E[i][k], E[k][j])
        /\ Sum(E[i][k], E[k][j]) \in Int /\ Sum(D[i][k], D[k][j]) \in Int
        /\ Sum(S[i][k], S[k][j]) \in Int
    BY <1>3, <1>5
  <2> QED
    BY <1>5, <2>1, <2>2
<1>7. IsZone(E, B)
  <2>1. \A i, j \in Clk :
          /\ E[i][j] \in Int /\ E[i][j] <= dbm_LS_INFINITY
          /\ E[i][j] # dbm_LS_INFINITY => -B < E[i][j] /\ E[i][j] < B
    BY <1>1, <1>2, <1>5
  <2>2. \A i \in Clk : E[i][i] = dbm_LE_ZERO
    BY <1>1, <1>2, <1>5
  <2>3. \A j \in Clk : E[0][j] <= dbm_LE_ZERO
    BY <1>1, <1>2, <1>5
  <2> QED
    BY <1>4, <1>6, <2>1, <2>2, <2>3, ZoneFromEntries DEF Sum
<1> QED
  BY <1>7 DEF E

\* What weakening does to a raw, and to a sum.
LEMMA WeakRaw ==
  /\ \A x \in Int : /\ dbm_weakRaw(x) \in Int
                    /\ x <= dbm_weakRaw(x) /\ dbm_weakRaw(x) <= x + 1
                    /\ x <= dbm_LE_ZERO => dbm_weakRaw(x) <= dbm_LE_ZERO
                    /\ dbm_rawIsWeak(x) => dbm_weakRaw(x) = x
  /\ \A x, y, z \in Int : x <= dbm_addFiniteFinite(y, z)
       => dbm_weakRaw(x) <= dbm_addFiniteFinite(dbm_weakRaw(y), dbm_weakRaw(z))
BY DEF dbm_weakRaw, dbm_rawIsStrict, dbm_rawIsWeak, dbm_addFiniteFinite, dbm_LE_ZERO

\* The weak version of a zone is closed: a sum of weak raws is weak.
LEMMA WeakenedIsZone ==
  ASSUME NEW D, NEW B \in Nat, IsZone(D, B), B < dbm_LE_OVERFLOW
  PROVE  IsZone(Weakened(D), B + 1)
<1> DEFINE E == Weakened(D)
           Sum(x, y) == dbm_addFiniteFinite(x, y)
<1>1. /\ \A i, j \in Clk : D[i][j] \in Int /\ D[i][j] <= dbm_LS_INFINITY
      /\ \A i, j \in Clk : D[i][j] # dbm_LS_INFINITY => -B < D[i][j] /\ D[i][j] < B
      /\ \A c \in Clk : D[c][c] = dbm_LE_ZERO
      /\ \A j \in Clk : D[0][j] <= dbm_LE_ZERO /\ D[0][j] # dbm_LS_INFINITY
      /\ \A i, k, j \in Clk : D[i][k] # dbm_LS_INFINITY /\ D[k][j] # dbm_LS_INFINITY
           => D[i][j] # dbm_LS_INFINITY /\ D[i][j] <= Sum(D[i][k], D[k][j])
      /\ 0 \in Clk
  BY ZoneEntries
<1>2. E = [i \in Clk |-> [j \in Clk |-> E[i][j]]]
      /\ \A i, j \in Clk : E[i][j] =
           IF D[i][j] = dbm_LS_INFINITY THEN D[i][j] ELSE dbm_weakRaw(D[i][j])
  BY DEF Weakened
<1> HIDE DEF E
<1>3. \A i, j \in Clk : D[i][j] # dbm_LS_INFINITY =>
        /\ E[i][j] = dbm_weakRaw(D[i][j]) /\ E[i][j] \in Int /\ E[i][j] # dbm_LS_INFINITY
        /\ -(B + 1) < E[i][j] /\ E[i][j] < B + 1
  <2> TAKE i, j \in Clk
  <2> HAVE D[i][j] # dbm_LS_INFINITY
  <2>1. -B < D[i][j] /\ D[i][j] < B /\ D[i][j] \in Int
    BY <1>1
  <2>2. E[i][j] = dbm_weakRaw(D[i][j])
    BY <1>2
  <2>3. E[i][j] \in Int /\ D[i][j] <= E[i][j] /\ E[i][j] <= D[i][j] + 1
    BY <2>1, <2>2, WeakRaw
  <2>4. B \in Nat /\ dbm_LS_INFINITY \in Int /\ B < dbm_LS_INFINITY
    BY Infinity
  <2> QED
    BY <2>1, <2>2, <2>3, <2>4
<1>4. \A i, j \in Clk : /\ E[i][j] \in Int /\ E[i][j] <= dbm_LS_INFINITY
                        /\ E[i][j] # dbm_LS_INFINITY
                             => -(B + 1) < E[i][j] /\ E[i][j] < B + 1
  <2> TAKE i, j \in Clk
  <2>1. CASE D[i][j] = dbm_LS_INFINITY
    BY <1>2, <2>1, Infinity
  <2>2. CASE D[i][j] # dbm_LS_INFINITY
    <3>1. B + 1 <= dbm_LS_INFINITY /\ dbm_LS_INFINITY \in Int
      BY Infinity
    <3> QED
      BY <1>3, <2>2, <3>1
  <2> QED
    BY <2>1, <2>2
<1>5. dbm_weakRaw(dbm_LE_ZERO) = dbm_LE_ZERO
  BY DEF dbm_weakRaw, dbm_rawIsStrict, dbm_LE_ZERO
<1>6. \A c \in Clk : E[c][c] = dbm_LE_ZERO
  BY <1>1, <1>2, <1>5
<1>7. \A j \in Clk : E[0][j] <= dbm_LE_ZERO
  BY <1>1, <1>3, WeakRaw
<1>8. ASSUME NEW i \in Clk, NEW k \in Clk, NEW j \in Clk,
             E[i][k] # dbm_LS_INFINITY, E[k][j] # dbm_LS_INFINITY
      PROVE  E[i][j] # dbm_LS_INFINITY /\ E[i][j] <= Sum(E[i][k], E[k][j])
  <2>1. D[i][k] # dbm_LS_INFINITY /\ D[k][j] # dbm_LS_INFINITY
    BY <1>2, <1>8
  <2>2. /\ D[i][j] # dbm_LS_INFINITY /\ D[i][j] <= Sum(D[i][k], D[k][j])
        /\ D[i][j] \in Int /\ D[i][k] \in Int /\ D[k][j] \in Int
    BY <1>1, <2>1
  <2>3. dbm_weakRaw(D[i][j]) <= Sum(dbm_weakRaw(D[i][k]), dbm_weakRaw(D[k][j]))
    BY <2>2, WeakRaw
  <2> QED
    BY <1>3, <2>1, <2>2, <2>3
<1>9. IsZone(E, B + 1)
  BY <1>2, <1>4, <1>6, <1>7, <1>8, ZoneFromEntries DEF Sum
<1> QED
  BY <1>9 DEF E

\* E is D but for column c, whose bounds are at least those of D, at most weak, and
\* the weak ones of the paths through the other clocks, or one of those.
RelaxedTo(E, D, c) ==
  /\ E = [i \in Clk |-> [j \in Clk |-> E[i][j]]]
  /\ \A i, j \in Clk : j # c => E[i][j] = D[i][j]
  /\ E[c][c] = dbm_LE_ZERO
  /\ \A i \in Clk :
       /\ E[i][c] \in Int /\ D[i][c] <= E[i][c] /\ E[i][c] <= dbm_LS_INFINITY
       /\ D[i][c] # dbm_LS_INFINITY
            => E[i][c] # dbm_LS_INFINITY /\ E[i][c] <= dbm_weakRaw(D[i][c])
       /\ \A j \in Clk \ {c} :
            D[i][j] # dbm_LS_INFINITY /\ D[j][c] # dbm_LS_INFINITY
              => E[i][c] <= dbm_addFiniteFinite(D[i][j], dbm_weakRaw(D[j][c]))
       /\ E[i][c] # dbm_LS_INFINITY =>
            \/ E[i][c] = dbm_weakRaw(D[i][c])
            \/ \E j \in Clk \ {c} :
                 /\ D[i][j] # dbm_LS_INFINITY /\ D[j][c] # dbm_LS_INFINITY
                 /\ E[i][c] = dbm_addFiniteFinite(D[i][j], dbm_weakRaw(D[j][c]))

\* A closed matrix stays closed when a column is relaxed.
LEMMA RelaxedToCloses ==
  ASSUME NEW D \in WideMatrix, NEW E, NEW c \in Clk, Closed(D), RelaxedTo(E, D, c)
  PROVE  Closed(E)
<1> DEFINE Sum(x, y) == dbm_addFiniteFinite(x, y)
<1>1. \A i, j \in Clk : D[i][j] \in Int /\ D[i][j] <= dbm_LS_INFINITY
  BY WideEntry
<1>2. \A x, y, z \in Clk :
        D[x][z] # dbm_LS_INFINITY /\ D[z][y] # dbm_LS_INFINITY
          => D[x][y] # dbm_LS_INFINITY /\ D[x][y] <= Sum(D[x][z], D[z][y])
  BY DEF Closed, ShortcutVia
<1>3. \A x \in Clk : D[x][x] = dbm_LE_ZERO
  BY DEF Closed, ZeroDiagonal
<1>4. /\ \A x, y \in Int : Sum(x, y) \in Int
      /\ \A x, y, z \in Int : Sum(Sum(x, y), z) = Sum(x, Sum(y, z))
      /\ \A x, y, z \in Int : x <= y => Sum(x, z) <= Sum(y, z) /\ Sum(z, x) <= Sum(z, y)
      /\ \A x \in Int : Sum(dbm_LE_ZERO, x) = x /\ Sum(x, dbm_LE_ZERO) = x
  BY SumLaws, AddZero
<1>5. /\ \A i, j \in Clk : j # c => E[i][j] = D[i][j]
      /\ E[c][c] = dbm_LE_ZERO
      /\ \A i \in Clk :
           /\ E[i][c] \in Int /\ D[i][c] <= E[i][c] /\ E[i][c] <= dbm_LS_INFINITY
           /\ D[i][c] # dbm_LS_INFINITY
                => E[i][c] # dbm_LS_INFINITY /\ E[i][c] <= dbm_weakRaw(D[i][c])
           /\ \A j \in Clk \ {c} :
                D[i][j] # dbm_LS_INFINITY /\ D[j][c] # dbm_LS_INFINITY
                  => E[i][c] <= Sum(D[i][j], dbm_weakRaw(D[j][c]))
           /\ E[i][c] # dbm_LS_INFINITY =>
                \/ E[i][c] = dbm_weakRaw(D[i][c])
                \/ \E j \in Clk \ {c} :
                     /\ D[i][j] # dbm_LS_INFINITY /\ D[j][c] # dbm_LS_INFINITY
                     /\ E[i][c] = Sum(D[i][j], dbm_weakRaw(D[j][c]))
  BY DEF RelaxedTo
<1>6. \A x \in Int : dbm_weakRaw(x) \in Int
  BY WeakRaw
<1>7. dbm_LS_INFINITY \in Int /\ dbm_LE_ZERO \in Int
  BY Infinity
<1> HIDE DEF Sum
<1>8. \A i, j \in Clk : /\ E[i][j] \in Int /\ D[i][j] <= E[i][j]
                        /\ E[i][j] # dbm_LS_INFINITY => D[i][j] # dbm_LS_INFINITY
  BY <1>1, <1>5, <1>7
<1>9. ZeroDiagonal(E)
  BY <1>3, <1>5 DEF ZeroDiagonal
<1>10. ASSUME NEW k \in Clk PROVE ShortcutVia(E, k)
  <2> SUFFICES ASSUME NEW i \in Clk, NEW j \in Clk,
                      E[i][k] # dbm_LS_INFINITY, E[k][j] # dbm_LS_INFINITY
               PROVE  E[i][j] # dbm_LS_INFINITY /\ E[i][j] <= Sum(E[i][k], E[k][j])
    BY DEF ShortcutVia, Sum
  <2>1. /\ D[i][k] \in Int /\ D[k][j] \in Int /\ D[i][j] \in Int
        /\ E[i][k] \in Int /\ E[k][j] \in Int /\ E[i][j] \in Int
        /\ D[i][k] <= E[i][k] /\ D[k][j] <= E[k][j]
        /\ D[i][k] # dbm_LS_INFINITY /\ D[k][j] # dbm_LS_INFINITY
    BY <1>1, <1>8
  <2>2. D[i][j] # dbm_LS_INFINITY /\ D[i][j] <= Sum(D[i][k], D[k][j])
    BY <1>2, <2>1
  <2>3. D[i][j] <= Sum(E[i][k], E[k][j])
    <3>1. /\ Sum(D[i][k], D[k][j]) <= Sum(E[i][k], D[k][j])
          /\ Sum(E[i][k], D[k][j]) <= Sum(E[i][k], E[k][j])
          /\ Sum(D[i][k], D[k][j]) \in Int /\ Sum(E[i][k], D[k][j]) \in Int
          /\ Sum(E[i][k], E[k][j]) \in Int
      BY <1>4, <2>1
    <3> QED
      BY <2>1, <2>2, <3>1
  <2>4. CASE j # c \/ i = j
    <3>1. E[i][j] = D[i][j]
      BY <1>3, <1>5, <2>4
    <3> QED
      BY <2>2, <2>3, <3>1
  <2>5. CASE j = c /\ k = c
    <3>1. Sum(E[i][k], E[k][j]) = E[i][j]
      BY <1>4, <1>5, <2>1, <2>5
    <3> QED
      BY <2>1, <2>5, <3>1
  <2>6. CASE j = c /\ k # c
    <3>1. E[i][k] = D[i][k] /\ E[i][c] # dbm_LS_INFINITY
      BY <1>5, <2>2, <2>6
    <3>2. CASE E[k][c] = dbm_weakRaw(D[k][c])
      BY <1>5, <2>1, <2>6, <3>1, <3>2
    <3>3. CASE \E m \in Clk \ {c} :
                 /\ D[k][m] # dbm_LS_INFINITY /\ D[m][c] # dbm_LS_INFINITY
                 /\ E[k][c] = Sum(D[k][m], dbm_weakRaw(D[m][c]))
      <4>1. PICK m \in Clk \ {c} :
                 /\ D[k][m] # dbm_LS_INFINITY /\ D[m][c] # dbm_LS_INFINITY
                 /\ E[k][c] = Sum(D[k][m], dbm_weakRaw(D[m][c]))
        BY <3>3
      <4> DEFINE x == D[i][k]
                 y == D[k][m]
                 z == dbm_weakRaw(D[m][c])
                 u == D[i][m]
      <4>2. x \in Int /\ y \in Int /\ z \in Int /\ u \in Int
        BY <1>1, <1>6
      <4>3. u # dbm_LS_INFINITY /\ u <= Sum(x, y)
        BY <1>2, <2>1, <4>1
      <4>4. E[i][c] <= Sum(u, z)
        BY <1>5, <4>1, <4>3
      <4>5. E[k][c] = Sum(y, z) /\ E[i][k] = x
        BY <3>1, <4>1
      <4> HIDE DEF x, y, z, u
      <4>7. Sum(x, y) \in Int /\ Sum(y, z) \in Int
        BY <1>4, <4>2
      <4>8. Sum(u, z) <= Sum(Sum(x, y), z)
        BY <1>4, <4>2, <4>3, <4>7
      <4>9. Sum(Sum(x, y), z) = Sum(x, Sum(y, z))
        BY <4>2, AddAssociative DEF Sum
      <4>6. Sum(u, z) <= Sum(x, Sum(y, z))
            /\ Sum(u, z) \in Int /\ Sum(x, Sum(y, z)) \in Int
        BY <1>4, <4>2, <4>7, <4>8, <4>9
      <4> QED
        BY <2>1, <2>6, <3>1, <4>4, <4>5, <4>6
    <3> QED
      BY <1>5, <2>6, <3>2, <3>3
  <2> QED
    BY <2>4, <2>5, <2>6
<1> QED
  BY <1>9, <1>10 DEF Closed

\* dbm_relaxDownClock relaxes a column in this way: the loop over the other clocks
\* keeps the least of the paths.
LEMMA RelaxDownIsRelaxed ==
  ASSUME NEW D \in WideMatrix, NEW c \in Clk, NEW B \in Nat, Closed(D), Bounded(D, B),
         B < dbm_LE_OVERFLOW
  PROVE  RelaxedTo(dbm_relaxDownClock(D, c), D, c)
<1> DEFINE Sum(x, y) == dbm_addFiniteFinite(x, y)
           E == dbm_relaxDownClock(D, c)
           W(j) == Weakened(D)[j][c]
           L(i) == {dbm_weakRaw(D[i][c])} \cup
                     {dbm_addRawRaw(D[i][j], W(j)) : j \in Clk \ {c}}
<1>1. \A i, j \in Clk : D[i][j] \in Int /\ D[i][j] <= dbm_LS_INFINITY
  BY WideEntry
<1>2. \A x, y, z \in Clk :
        D[x][z] # dbm_LS_INFINITY /\ D[z][y] # dbm_LS_INFINITY
          => D[x][y] # dbm_LS_INFINITY /\ D[x][y] <= Sum(D[x][z], D[z][y])
  BY DEF Closed, ShortcutVia
<1>3. \A x \in Clk : D[x][x] = dbm_LE_ZERO
  BY DEF Closed, ZeroDiagonal
<1>4. /\ \A x, y \in Int : Sum(x, y) \in Int
      /\ \A x, y, z \in Int : x <= y => Sum(x, z) <= Sum(y, z) /\ Sum(z, x) <= Sum(z, y)
      /\ \A x \in Int : Sum(dbm_LE_ZERO, x) = x
  BY SumLaws
<1>5. \A x \in Int : /\ dbm_weakRaw(x) \in Int /\ x <= dbm_weakRaw(x)
                     /\ dbm_weakRaw(x) <= x + 1 /\ (dbm_rawIsWeak(x) => dbm_weakRaw(x) = x)
  BY WeakRaw
<1>6. /\ dbm_LS_INFINITY \in Int /\ dbm_LE_ZERO \in Int
      /\ dbm_LE_OVERFLOW \in Int /\ dbm_LE_OVERFLOW < dbm_LS_INFINITY
  BY Infinity
<1>7. \A j \in Clk : W(j) = IF D[j][c] = dbm_LS_INFINITY THEN dbm_LS_INFINITY
                            ELSE dbm_weakRaw(D[j][c])
  BY DEF Weakened
<1>8. \A j \in Clk : W(j) \in Int /\ (W(j) = dbm_LS_INFINITY <=> D[j][c] = dbm_LS_INFINITY)
  <2> TAKE j \in Clk
  <2>1. CASE D[j][c] = dbm_LS_INFINITY
    BY <1>6, <1>7, <2>1
  <2>2. CASE D[j][c] # dbm_LS_INFINITY
    <3>1. D[j][c] < B /\ D[j][c] \in Int
      BY <1>1, <2>2 DEF Bounded
    <3>2. dbm_weakRaw(D[j][c]) \in Int /\ dbm_weakRaw(D[j][c]) <= D[j][c] + 1
      BY <1>5, <3>1
    <3> QED
      BY <1>6, <1>7, <2>2, <3>1, <3>2
  <2> QED
    BY <2>1, <2>2
<1>9. /\ E = [i \in Clk |-> [j \in Clk |-> E[i][j]]]
      /\ \A i, j \in Clk : j # c => E[i][j] = D[i][j]
      /\ \A i \in Clk : E[i][c] =
           IF D[i][c] = dbm_LS_INFINITY \/ dbm_rawIsWeak(D[i][c]) THEN D[i][c]
           ELSE Least(L(i))
  BY DEF dbm_relaxDownClock, WideMatrix
<1> HIDE DEF Sum, E, W
<1>10. dbm_rawIsWeak(dbm_LE_ZERO)
  BY DEF dbm_rawIsWeak, dbm_LE_ZERO
<1>11. E[c][c] = dbm_LE_ZERO
  BY <1>3, <1>9, <1>10
<1>12. ASSUME NEW i \in Clk, NEW j \in Clk,
              D[i][j] # dbm_LS_INFINITY, D[j][c] # dbm_LS_INFINITY
       PROVE  /\ D[i][c] # dbm_LS_INFINITY /\ W(j) = dbm_weakRaw(D[j][c])
              /\ Sum(D[i][j], W(j)) \in Int /\ D[i][c] <= Sum(D[i][j], W(j))
              /\ dbm_addRawRaw(D[i][j], W(j)) = Sum(D[i][j], W(j))
  <2>1. D[i][j] \in Int /\ D[j][c] \in Int /\ D[i][c] \in Int
        /\ W(j) = dbm_weakRaw(D[j][c]) /\ W(j) \in Int /\ D[j][c] <= W(j)
    BY <1>1, <1>5, <1>7, <1>8, <1>12
  <2>2. D[i][c] # dbm_LS_INFINITY /\ D[i][c] <= Sum(D[i][j], D[j][c])
    BY <1>2, <1>12
  <2>3. Sum(D[i][j], D[j][c]) <= Sum(D[i][j], W(j)) /\ Sum(D[i][j], D[j][c]) \in Int
        /\ Sum(D[i][j], W(j)) \in Int
    BY <1>4, <2>1
  <2>4. dbm_addRawRaw(D[i][j], W(j)) = Sum(D[i][j], W(j))
    BY <1>8, <1>12 DEF dbm_addRawRaw, Sum
  <2> QED
    BY <2>1, <2>2, <2>3, <2>4
<1>13. ASSUME NEW i \in Clk
       PROVE  /\ E[i][c] \in Int /\ D[i][c] <= E[i][c] /\ E[i][c] <= dbm_LS_INFINITY
              /\ D[i][c] # dbm_LS_INFINITY
                   => E[i][c] # dbm_LS_INFINITY /\ E[i][c] <= dbm_weakRaw(D[i][c])
              /\ \A j \in Clk \ {c} :
                   D[i][j] # dbm_LS_INFINITY /\ D[j][c] # dbm_LS_INFINITY
                     => E[i][c] <= Sum(D[i][j], dbm_weakRaw(D[j][c]))
              /\ E[i][c] # dbm_LS_INFINITY =>
                   \/ E[i][c] = dbm_weakRaw(D[i][c])
                   \/ \E j \in Clk \ {c} :
                        /\ D[i][j] # dbm_LS_INFINITY /\ D[j][c] # dbm_LS_INFINITY
                        /\ E[i][c] = Sum(D[i][j], dbm_weakRaw(D[j][c]))
  <2>1. CASE D[i][c] = dbm_LS_INFINITY
    <3>1. E[i][c] = dbm_LS_INFINITY
      BY <1>9, <2>1
    <3> QED
      BY <1>6, <1>12, <2>1, <3>1
  <2>2. CASE D[i][c] # dbm_LS_INFINITY /\ dbm_rawIsWeak(D[i][c])
    <3>1. E[i][c] = D[i][c] /\ dbm_weakRaw(D[i][c]) = D[i][c]
      BY <1>1, <1>5, <1>9, <2>2
    <3>2. \A j \in Clk \ {c} :
            D[i][j] # dbm_LS_INFINITY /\ D[j][c] # dbm_LS_INFINITY
              => E[i][c] <= Sum(D[i][j], dbm_weakRaw(D[j][c]))
      BY <1>12, <3>1
    <3> QED
      BY <1>1, <2>2, <3>1, <3>2
  <2>3. CASE D[i][c] # dbm_LS_INFINITY /\ ~dbm_rawIsWeak(D[i][c])
    <3>1. E[i][c] = Least(L(i))
      BY <1>9, <2>3
    <3> DEFINE T == L(i)
    <3>2. \A x \in T : x \in Int /\ D[i][c] <= x
      <4> TAKE x \in T
      <4>1. CASE x = dbm_weakRaw(D[i][c])
        BY <1>1, <1>5, <4>1
      <4>2. CASE \E j \in Clk \ {c} : x = dbm_addRawRaw(D[i][j], W(j))
        <5>1. PICK j \in Clk \ {c} : x = dbm_addRawRaw(D[i][j], W(j))
          BY <4>2
        <5>2. CASE D[i][j] # dbm_LS_INFINITY /\ D[j][c] # dbm_LS_INFINITY
          BY <1>12, <5>1, <5>2
        <5>3. CASE ~(D[i][j] # dbm_LS_INFINITY /\ D[j][c] # dbm_LS_INFINITY)
          <6>1. x = dbm_LS_INFINITY
            BY <1>8, <5>1, <5>3 DEF dbm_addRawRaw
          <6> QED
            BY <1>1, <1>6, <6>1
        <5> QED
          BY <5>2, <5>3
      <4> QED
        BY <4>1, <4>2
    <3>3. dbm_weakRaw(D[i][c]) \in T
      OBVIOUS
    <3>4. D[i][c] \in Int
      BY <1>1
    <3>5. \A j \in Clk \ {c} : dbm_addRawRaw(D[i][j], W(j)) \in T
      OBVIOUS
    <3>6. \A x \in T : \/ x = dbm_weakRaw(D[i][c])
                       \/ \E j \in Clk \ {c} : x = dbm_addRawRaw(D[i][j], W(j))
      OBVIOUS
    <3>7. E[i][c] = Least(T)
      BY <3>1
    <3> HIDE DEF T
    <3>8. T \in SUBSET Int /\ T # {}
      BY <3>2, <3>3
    <3>9. E[i][c] \in T /\ E[i][c] \in Int /\ D[i][c] <= E[i][c]
          /\ \A x \in T : E[i][c] <= x
      BY <3>2, <3>4, <3>7, <3>8, LeastIsLeast
    <3>10. E[i][c] <= dbm_weakRaw(D[i][c])
      BY <3>3, <3>9
    <3>11. E[i][c] < dbm_LS_INFINITY
      <4>1. D[i][c] < B /\ dbm_weakRaw(D[i][c]) <= D[i][c] + 1
            /\ dbm_weakRaw(D[i][c]) \in Int
        BY <1>1, <1>5, <2>3 DEF Bounded
      <4> QED
        BY <1>6, <3>4, <3>9, <3>10, <4>1
    <3>12. \A j \in Clk \ {c} :
            D[i][j] # dbm_LS_INFINITY /\ D[j][c] # dbm_LS_INFINITY
              => E[i][c] <= Sum(D[i][j], dbm_weakRaw(D[j][c]))
      BY <1>12, <3>5, <3>9
    <3>13. \/ E[i][c] = dbm_weakRaw(D[i][c])
           \/ \E j \in Clk \ {c} :
                /\ D[i][j] # dbm_LS_INFINITY /\ D[j][c] # dbm_LS_INFINITY
                /\ E[i][c] = Sum(D[i][j], dbm_weakRaw(D[j][c]))
      <4>1. CASE \E j \in Clk \ {c} : E[i][c] = dbm_addRawRaw(D[i][j], W(j))
        <5>1. PICK j \in Clk \ {c} : E[i][c] = dbm_addRawRaw(D[i][j], W(j))
          BY <4>1
        <5>2. D[i][j] # dbm_LS_INFINITY /\ W(j) # dbm_LS_INFINITY
          BY <1>6, <3>9, <3>11, <5>1 DEF dbm_addRawRaw
        <5> QED
          BY <1>8, <1>12, <5>1, <5>2
      <4> QED
        BY <3>6, <3>9, <4>1
    <3> QED
      BY <1>6, <3>9, <3>10, <3>11, <3>12, <3>13
  <2> QED
    BY <2>1, <2>2, <2>3
<1> QED
  BY <1>9, <1>11, <1>13 DEF RelaxedTo, E, Sum

\* Relaxing moves a bound by one raw at most.
LEMMA RelaxedToBounds ==
  ASSUME NEW D \in WideMatrix, NEW E, NEW c \in Clk, NEW B \in Nat, Bounded(D, B),
         RelaxedTo(E, D, c)
  PROVE  E \in WideMatrix /\ Bounded(E, B + 1)
<1>1. \A i, j \in Clk : D[i][j] \in Int /\ D[i][j] <= dbm_LS_INFINITY
  BY WideEntry
<1>2. /\ E = [i \in Clk |-> [j \in Clk |-> E[i][j]]]
      /\ \A i, j \in Clk : j # c => E[i][j] = D[i][j]
      /\ \A i \in Clk :
           /\ E[i][c] \in Int /\ D[i][c] <= E[i][c] /\ E[i][c] <= dbm_LS_INFINITY
           /\ D[i][c] # dbm_LS_INFINITY
                => E[i][c] # dbm_LS_INFINITY /\ E[i][c] <= dbm_weakRaw(D[i][c])
  BY DEF RelaxedTo
<1>3. \A i, j \in Clk : E[i][j] \in Int /\ E[i][j] <= dbm_LS_INFINITY
  BY <1>1, <1>2
<1>4. E \in WideMatrix
  BY <1>2, <1>3, EntriesType
<1>5. ASSUME NEW i \in Clk, NEW j \in Clk, E[i][j] # dbm_LS_INFINITY
      PROVE  -(B + 1) < E[i][j] /\ E[i][j] < B + 1
  <2>1. CASE j # c
    <3>1. E[i][j] = D[i][j] /\ D[i][j] \in Int /\ -B < D[i][j] /\ D[i][j] < B
      BY <1>1, <1>2, <1>5, <2>1 DEF Bounded
    <3> QED
      BY <3>1
  <2>2. CASE j = c
    <3>1. D[i][c] # dbm_LS_INFINITY
      <4>1. D[i][c] <= E[i][c] /\ E[i][c] <= dbm_LS_INFINITY /\ E[i][c] \in Int
            /\ E[i][c] # dbm_LS_INFINITY
        BY <1>2, <1>5, <2>2
      <4>2. dbm_LS_INFINITY \in Int
        BY Infinity
      <4> QED
        BY <4>1, <4>2
    <3>2. D[i][c] \in Int /\ -B < D[i][c] /\ D[i][c] < B
      BY <1>1, <3>1 DEF Bounded
    <3>3. dbm_weakRaw(D[i][c]) \in Int /\ dbm_weakRaw(D[i][c]) <= D[i][c] + 1
      BY <3>2, WeakRaw
    <3>4. D[i][c] <= E[i][c] /\ E[i][c] \in Int /\ E[i][c] <= dbm_weakRaw(D[i][c])
      BY <1>2, <3>1
    <3> QED
      BY <2>2, <3>2, <3>3, <3>4
  <2> QED
    BY <2>1, <2>2
<1> QED
  BY <1>4, <1>5 DEF Bounded

\* A relaxed column admits the points of the weak one: the strict bounds that stay
\* follow from others.
LEMMA RelaxedToPoints ==
  ASSUME NEW D \in WideMatrix, NEW E, NEW c \in Clk, NEW B \in Nat, Bounded(D, B),
         B < dbm_LE_OVERFLOW, RelaxedTo(E, D, c),
         NEW pt \in [Clk -> Int], NEW g \in Nat \ {0}
  PROVE  dbm_isRealPointIncluded(pt, E, g)
           <=> \A i, j \in Clk :
                 Within(pt[i] - pt[j], IF j = c THEN Weakened(D)[i][j] ELSE D[i][j], g)
<1> DEFINE W(i, j) == IF j = c THEN Weakened(D)[i][j] ELSE D[i][j]
<1>1. \A i, j \in Clk : D[i][j] \in Int /\ D[i][j] <= dbm_LS_INFINITY
  BY WideEntry
<1>2. /\ \A i, j \in Clk : j # c => E[i][j] = D[i][j]
      /\ \A i \in Clk :
           /\ E[i][c] \in Int /\ D[i][c] <= E[i][c]
           /\ D[i][c] # dbm_LS_INFINITY
                => E[i][c] # dbm_LS_INFINITY /\ E[i][c] <= dbm_weakRaw(D[i][c])
           /\ E[i][c] # dbm_LS_INFINITY =>
                \/ E[i][c] = dbm_weakRaw(D[i][c])
                \/ \E j \in Clk \ {c} :
                     /\ D[i][j] # dbm_LS_INFINITY /\ D[j][c] # dbm_LS_INFINITY
                     /\ E[i][c] = dbm_addFiniteFinite(D[i][j], dbm_weakRaw(D[j][c]))
  BY DEF RelaxedTo
<1>3. /\ \A i, j \in Clk : j # c => W(i, j) = D[i][j]
      /\ \A i \in Clk : D[i][c] = dbm_LS_INFINITY => W(i, c) = dbm_LS_INFINITY
      /\ \A i \in Clk : D[i][c] # dbm_LS_INFINITY => W(i, c) = dbm_weakRaw(D[i][c])
  BY DEF Weakened
<1>4. /\ dbm_LS_INFINITY \in Int /\ dbm_LE_OVERFLOW \in Int
      /\ dbm_LE_OVERFLOW < dbm_LS_INFINITY
  BY Infinity
<1>5. \A i, j \in Clk : pt[i] - pt[j] \in Int
  OBVIOUS
<1> HIDE DEF W
<1>6. \A i \in Clk : D[i][c] # dbm_LS_INFINITY =>
        dbm_weakRaw(D[i][c]) \in Int /\ dbm_weakRaw(D[i][c]) < dbm_LS_INFINITY
  <2> TAKE i \in Clk
  <2> HAVE D[i][c] # dbm_LS_INFINITY
  <2>1. D[i][c] \in Int /\ D[i][c] < B
    BY <1>1 DEF Bounded
  <2>2. dbm_weakRaw(D[i][c]) \in Int /\ dbm_weakRaw(D[i][c]) <= D[i][c] + 1
    BY <2>1, WeakRaw
  <2> QED
    BY <1>4, <2>1, <2>2
<1>7. ASSUME dbm_isRealPointIncluded(pt, E, g), NEW i \in Clk, NEW j \in Clk
      PROVE  Within(pt[i] - pt[j], W(i, j), g)
  <2>1. Within(pt[i] - pt[j], E[i][j], g)
    BY <1>7 DEF dbm_isRealPointIncluded
  <2>2. CASE j # c
    BY <1>2, <1>3, <2>1, <2>2
  <2>3. CASE j = c /\ D[i][c] = dbm_LS_INFINITY
    <3>1. W(i, j) = dbm_LS_INFINITY
      BY <1>3, <2>3
    <3> QED
      BY <1>4, <3>1 DEF Within
  <2>4. CASE j = c /\ D[i][c] # dbm_LS_INFINITY
    <3>1. W(i, j) = dbm_weakRaw(D[i][c]) /\ E[i][j] <= dbm_weakRaw(D[i][c])
          /\ E[i][j] \in Int /\ dbm_weakRaw(D[i][c]) \in Int
      BY <1>2, <1>3, <1>6, <2>4
    <3> QED
      BY <1>5, <2>1, <3>1, WithinMonotone
  <2> QED
    BY <2>2, <2>3, <2>4
<1>8. ASSUME \A i, j \in Clk : Within(pt[i] - pt[j], W(i, j), g),
             NEW i \in Clk, NEW j \in Clk
      PROVE  Within(pt[i] - pt[j], E[i][j], g)
  <2>1. CASE j # c
    BY <1>2, <1>3, <1>8, <2>1
  <2>2. CASE j = c /\ E[i][c] = dbm_LS_INFINITY
    BY <1>4, <2>2 DEF Within
  <2>3. CASE j = c /\ E[i][c] # dbm_LS_INFINITY
    <3>1. D[i][c] # dbm_LS_INFINITY \/
          \E k \in Clk \ {c} :
                     /\ D[i][k] # dbm_LS_INFINITY /\ D[k][c] # dbm_LS_INFINITY
                     /\ E[i][c] = dbm_addFiniteFinite(D[i][k], dbm_weakRaw(D[k][c]))
      <4>1. D[i][c] = dbm_LS_INFINITY => dbm_LS_INFINITY <= E[i][c]
        BY <1>2
      <4>2. ASSUME E[i][c] = dbm_weakRaw(D[i][c]), D[i][c] = dbm_LS_INFINITY
            PROVE  FALSE
        <5>1. dbm_weakRaw(dbm_LS_INFINITY) = dbm_LS_INFINITY + 1
          BY DEF dbm_weakRaw, dbm_rawIsStrict, dbm_LS_INFINITY
        <5>2. E[i][c] <= dbm_LS_INFINITY
          BY <2>3 DEF RelaxedTo
        <5> QED
          BY <1>4, <4>2, <5>1, <5>2
      <4> QED
        BY <1>2, <2>3, <4>2
    <3>2. CASE D[i][c] # dbm_LS_INFINITY /\ E[i][c] = dbm_weakRaw(D[i][c])
      BY <1>3, <1>8, <2>3, <3>2
    <3>3. CASE \E k \in Clk \ {c} :
                 /\ D[i][k] # dbm_LS_INFINITY /\ D[k][c] # dbm_LS_INFINITY
                 /\ E[i][c] = dbm_addFiniteFinite(D[i][k], dbm_weakRaw(D[k][c]))
      <4>1. PICK k \in Clk \ {c} :
                 /\ D[i][k] # dbm_LS_INFINITY /\ D[k][c] # dbm_LS_INFINITY
                 /\ E[i][c] = dbm_addFiniteFinite(D[i][k], dbm_weakRaw(D[k][c]))
        BY <3>3
      <4> DEFINE x == D[i][k]
                 y == dbm_weakRaw(D[k][c])
      <4>2. x \in Int /\ x < dbm_LS_INFINITY /\ y \in Int /\ y < dbm_LS_INFINITY
        BY <1>1, <1>4, <1>6, <4>1
      <4>3. Within(pt[i] - pt[k], x, g) /\ Within(pt[k] - pt[c], y, g)
        BY <1>3, <1>8, <4>1
      <4>4. E[i][c] = dbm_addFiniteFinite(x, y)
        BY <4>1
      <4> HIDE DEF x, y
      <4>5. Within((pt[i] - pt[k]) + (pt[k] - pt[c]), dbm_addFiniteFinite(x, y), g)
        BY <1>5, <4>2, <4>3, WithinAdd
      <4>6. (pt[i] - pt[k]) + (pt[k] - pt[c]) = pt[i] - pt[c]
        OBVIOUS
      <4> QED
        BY <2>3, <4>4, <4>5, <4>6
    <3> QED
      BY <1>2, <2>3, <3>1, <3>2, <3>3
  <2> QED
    BY <2>1, <2>2, <2>3
<1> QED
  BY <1>7, <1>8 DEF W, dbm_isRealPointIncluded

\* D with rows and columns exchanged.
Transposed(D) == [i \in Clk |-> [j \in Clk |-> D[j][i]]]

\* Transposing a matrix negates its points, and changes nothing else.
LEMMA TransposedMatrix ==
  ASSUME NEW D \in WideMatrix
  PROVE  /\ Transposed(D) \in WideMatrix
         /\ \A i, j \in Clk : Transposed(D)[i][j] = D[j][i]
         /\ Transposed(Transposed(D)) = D
         /\ Closed(D) => Closed(Transposed(D))
         /\ \A B : Bounded(D, B) => Bounded(Transposed(D), B)
<1> DEFINE E == Transposed(D)
           Sum(x, y) == dbm_addFiniteFinite(x, y)
<1>1. \A i, j \in Clk : D[i][j] \in Int /\ D[i][j] <= dbm_LS_INFINITY
  BY WideEntry
<1>2. E \in WideMatrix /\ \A i, j \in Clk : E[i][j] = D[j][i]
  BY <1>1 DEF Transposed, WideMatrix
<1>3. Transposed(E) = D
  BY DEF Transposed, WideMatrix
<1>4. ASSUME Closed(D) PROVE Closed(E)
  <2>1. \A x, y, z \in Clk :
          D[x][z] # dbm_LS_INFINITY /\ D[z][y] # dbm_LS_INFINITY
            => D[x][y] # dbm_LS_INFINITY /\ D[x][y] <= Sum(D[x][z], D[z][y])
    BY <1>4 DEF Closed, ShortcutVia
  <2>2. ZeroDiagonal(E)
    BY <1>2, <1>4 DEF Closed, ZeroDiagonal
  <2>3. \A x, y \in Int : Sum(x, y) = Sum(y, x)
    BY SumLaws
  <2> HIDE DEF E, Sum
  <2>4. \A x, y, z \in Clk :
          E[x][z] # dbm_LS_INFINITY /\ E[z][y] # dbm_LS_INFINITY
            => E[x][y] # dbm_LS_INFINITY /\ E[x][y] <= Sum(E[x][z], E[z][y])
    BY <1>1, <1>2, <2>1, <2>3
  <2> QED
    BY <2>2, <2>4 DEF Closed, ShortcutVia, Sum
<1>5. ASSUME NEW B, Bounded(D, B) PROVE Bounded(E, B)
  BY <1>2, <1>5 DEF Bounded
<1> QED
  BY <1>2, <1>3, <1>4, <1>5

\* dbm_relaxUpClock is dbm_relaxDownClock of the transposed matrix.
LEMMA RelaxUpIsTransposed ==
  ASSUME NEW D \in WideMatrix, NEW c \in Clk
  PROVE  dbm_relaxUpClock(D, c) = Transposed(dbm_relaxDownClock(Transposed(D), c))
<1> DEFINE F == dbm_relaxDownClock(Transposed(D), c)
           L(i) == {dbm_weakRaw(D[c][i])} \cup
                     {dbm_addRawRaw(D[j][i], Weakened(D)[c][j]) : j \in Clk \ {c}}
           M(i) == {dbm_weakRaw(Transposed(D)[i][c])} \cup
                     {dbm_addRawRaw(Transposed(D)[i][j], Weakened(Transposed(D))[j][c])
                        : j \in Clk \ {c}}
<1>1. \A i, j \in Clk : Transposed(D)[i][j] = D[j][i]
  BY DEF Transposed
<1>2. \A i, j \in Clk : Weakened(Transposed(D))[i][j] = Weakened(D)[j][i]
  BY <1>1 DEF Weakened
<1>3. \A i \in Clk : M(i) = L(i)
  BY <1>1, <1>2
<1>4. \A i, j \in Clk : Transposed(D)[i] \in [Clk -> Int]
  BY <1>1, WideEntry DEF Transposed
<1>5. \A i, j \in Clk :
        F[i][j] = IF j # c THEN D[j][i]
                  ELSE IF D[c][i] = dbm_LS_INFINITY \/ dbm_rawIsWeak(D[c][i]) THEN D[c][i]
                  ELSE Least(M(i))
  BY <1>1, <1>4 DEF dbm_relaxDownClock
<1>6. \A i, j \in Clk :
        dbm_relaxUpClock(D, c)[j][i] =
          IF j # c THEN D[j][i]
          ELSE IF D[c][i] = dbm_LS_INFINITY \/ dbm_rawIsWeak(D[c][i]) THEN D[c][i]
          ELSE Least(L(i))
  BY DEF dbm_relaxUpClock, WideMatrix
<1>7. dbm_relaxUpClock(D, c)
        = [j \in Clk |-> [i \in Clk |-> dbm_relaxUpClock(D, c)[j][i]]]
  BY DEF dbm_relaxUpClock, WideMatrix
<1> HIDE DEF F, L, M
<1>8. \A i, j \in Clk : dbm_relaxUpClock(D, c)[j][i] = F[i][j]
  BY <1>3, <1>5, <1>6
<1>9. Transposed(F) = [j \in Clk |-> [i \in Clk |-> F[i][j]]]
  BY DEF Transposed
<1> QED
  BY <1>7, <1>8, <1>9 DEF F

\* dbm_relaxDownClock and dbm_relaxUpClock keep a zone closed, and move its bounds
\* by one raw at most.
LEMMA RelaxDownIsZone ==
  ASSUME NEW D, NEW B \in Nat, IsZone(D, B), B < dbm_LE_OVERFLOW, NEW c \in Clk
  PROVE  IsZone(dbm_relaxDownClock(D, c), B + 1)
<1> DEFINE E == dbm_relaxDownClock(D, c)
<1>1. D \in WideMatrix /\ Closed(D) /\ Bounded(D, B)
  BY DEF IsZone
<1>2. RelaxedTo(E, D, c)
  BY <1>1, RelaxDownIsRelaxed
<1> HIDE DEF E
<1>3. E \in WideMatrix /\ Bounded(E, B + 1) /\ Closed(E)
  BY <1>1, <1>2, RelaxedToBounds, RelaxedToCloses
<1>4. \A j \in Clk : E[0][j] <= dbm_LE_ZERO
  <2>1. \A j \in Clk : D[0][j] \in Int /\ D[0][j] <= dbm_LE_ZERO
                       /\ D[0][j] # dbm_LS_INFINITY /\ 0 \in Clk
    BY ZoneEntries
  <2>2. \A j \in Clk : j # c => E[0][j] <= dbm_LE_ZERO
    BY <1>2, <2>1 DEF RelaxedTo
  <2>3. E[0][c] \in Int /\ E[0][c] <= dbm_weakRaw(D[0][c])
    BY <1>2, <2>1 DEF RelaxedTo
  <2>4. dbm_weakRaw(D[0][c]) <= dbm_LE_ZERO /\ dbm_weakRaw(D[0][c]) \in Int
    BY <2>1, WeakRaw
  <2>5. E[0][c] <= dbm_LE_ZERO
    BY <2>3, <2>4, Infinity
  <2> QED
    BY <2>2, <2>5
<1> QED
  BY <1>3, <1>4 DEF IsZone, E

\* dbm_relaxUpClock leaves a zone.
LEMMA RelaxUpIsZone ==
  ASSUME NEW D, NEW B \in Nat, IsZone(D, B), B < dbm_LE_OVERFLOW, NEW c \in Clk
  PROVE  IsZone(dbm_relaxUpClock(D, c), B + 1)
<1> DEFINE T == Transposed(D)
           F == dbm_relaxDownClock(T, c)
           E == Transposed(F)
<1>1. D \in WideMatrix /\ Closed(D) /\ Bounded(D, B)
  BY DEF IsZone
<1>2. T \in WideMatrix /\ Closed(T) /\ Bounded(T, B)
      /\ \A i, j \in Clk : T[i][j] = D[j][i]
  BY <1>1, TransposedMatrix
<1> HIDE DEF T
<1>3. RelaxedTo(F, T, c)
  BY <1>2, RelaxDownIsRelaxed
<1> HIDE DEF F
<1>4. F \in WideMatrix /\ Bounded(F, B + 1) /\ Closed(F)
  BY <1>2, <1>3, RelaxedToBounds, RelaxedToCloses
<1>5. E \in WideMatrix /\ Bounded(E, B + 1) /\ Closed(E)
      /\ \A i, j \in Clk : E[i][j] = F[j][i]
  BY <1>4, TransposedMatrix
<1> HIDE DEF E
<1>6. \A j \in Clk : E[0][j] <= dbm_LE_ZERO
  <2>1. \A j \in Clk : D[0][j] \in Int /\ D[0][j] <= dbm_LE_ZERO
                       /\ D[0][j] # dbm_LS_INFINITY /\ 0 \in Clk
    BY ZoneEntries
  <2>2. ASSUME NEW j \in Clk PROVE F[j][0] <= dbm_LE_ZERO
    <3>1. T[j][0] = D[0][j]
      BY <1>2, <2>1
    <3>2. CASE c # 0
      <4>1. F[j][0] = T[j][0]
        BY <1>3, <2>1, <3>2 DEF RelaxedTo
      <4> QED
        BY <2>1, <3>1, <4>1
    <3>3. CASE c = 0
      <4>1. F[j][0] \in Int /\ F[j][0] <= dbm_weakRaw(T[j][0])
        BY <1>3, <2>1, <3>1, <3>3 DEF RelaxedTo
      <4>2. dbm_weakRaw(D[0][j]) <= dbm_LE_ZERO /\ dbm_weakRaw(D[0][j]) \in Int
        BY <2>1, WeakRaw
      <4> QED
        BY <3>1, <4>1, <4>2, Infinity
    <3> QED
      BY <3>2, <3>3
  <2> QED
    BY <1>5, <2>1, <2>2
<1>7. IsZone(E, B + 1)
  BY <1>5, <1>6 DEF IsZone
<1>8. dbm_relaxUpClock(D, c) = E
  BY <1>1, RelaxUpIsTransposed DEF E, F, T
<1> QED
  BY <1>7, <1>8

\* The points of both.
LEMMA RelaxDownPoints ==
  ASSUME NEW D, NEW B \in Nat, IsZone(D, B), B < dbm_LE_OVERFLOW, NEW c \in Clk,
         NEW pt \in [Clk -> Int], NEW g \in Nat \ {0}
  PROVE  dbm_isRealPointIncluded(pt, dbm_relaxDownClock(D, c), g)
           <=> \A i, j \in Clk :
                 Within(pt[i] - pt[j], IF j = c THEN Weakened(D)[i][j] ELSE D[i][j], g)
<1>1. D \in WideMatrix /\ Closed(D) /\ Bounded(D, B)
  BY DEF IsZone
<1>2. RelaxedTo(dbm_relaxDownClock(D, c), D, c)
  BY <1>1, RelaxDownIsRelaxed
<1> QED
  BY <1>1, <1>2, RelaxedToPoints

\* dbm_relaxUpClock makes the bounds on the differences from c weak, and nothing else.
LEMMA RelaxUpPoints ==
  ASSUME NEW D, NEW B \in Nat, IsZone(D, B), B < dbm_LE_OVERFLOW, NEW c \in Clk,
         NEW pt \in [Clk -> Int], NEW g \in Nat \ {0}
  PROVE  dbm_isRealPointIncluded(pt, dbm_relaxUpClock(D, c), g)
           <=> \A i, j \in Clk :
                 Within(pt[i] - pt[j], IF i = c THEN Weakened(D)[i][j] ELSE D[i][j], g)
<1> DEFINE T == Transposed(D)
           F == dbm_relaxDownClock(T, c)
           neg == [k \in Clk |-> -pt[k]]
           W(i, j) == IF i = c THEN Weakened(D)[i][j] ELSE D[i][j]
           V(i, j) == IF j = c THEN Weakened(T)[i][j] ELSE T[i][j]
<1>1. D \in WideMatrix /\ Closed(D) /\ Bounded(D, B)
  BY DEF IsZone
<1>2. T \in WideMatrix /\ Closed(T) /\ Bounded(T, B)
      /\ \A i, j \in Clk : T[i][j] = D[j][i]
  BY <1>1, TransposedMatrix
<1>3. neg \in [Clk -> Int] /\ \A i, j \in Clk : neg[i] - neg[j] = pt[j] - pt[i]
  OBVIOUS
<1>4. \A i, j \in Clk : V(i, j) = W(j, i)
  BY <1>2 DEF Weakened
<1>5. dbm_relaxUpClock(D, c) = Transposed(F)
  BY <1>1, RelaxUpIsTransposed
<1> HIDE DEF neg, T, W
<1>6. RelaxedTo(F, T, c)
  BY <1>2, RelaxDownIsRelaxed
<1>7. dbm_isRealPointIncluded(neg, F, g)
        <=> \A i, j \in Clk : Within(neg[i] - neg[j], V(i, j), g)
  <2> HIDE DEF F
  <2> QED
    BY <1>2, <1>3, <1>6, RelaxedToPoints
<1> HIDE DEF V
<1>8. dbm_isRealPointIncluded(neg, F, g)
        <=> \A i, j \in Clk : Within(neg[i] - neg[j], F[i][j], g)
  BY DEF dbm_isRealPointIncluded
<1>9. \A i, j \in Clk : Transposed(F)[i][j] = F[j][i]
  BY DEF Transposed
<1> HIDE DEF F
<1>10. dbm_isRealPointIncluded(pt, Transposed(F), g)
         <=> \A i, j \in Clk : Within(pt[j] - pt[i], F[i][j], g)
  BY <1>9 DEF dbm_isRealPointIncluded
<1>11. (\A i, j \in Clk : Within(pt[j] - pt[i], F[i][j], g))
         <=> \A i, j \in Clk : Within(pt[j] - pt[i], W(j, i), g)
  BY <1>3, <1>4, <1>7, <1>8
<1>12. dbm_isRealPointIncluded(pt, dbm_relaxUpClock(D, c), g)
         <=> \A i, j \in Clk : Within(pt[i] - pt[j], W(i, j), g)
  BY <1>5, <1>10, <1>11
<1> QED
  BY <1>12 DEF W

-----------------------------------------------------------------------------
(* Points of a zone.  In a closed matrix, values of some clocks that satisfy the *)
(* bounds between them extend to values of all clocks.                           *)

\* The numbers that are so many steps of s.
Multiple(n, s) == \E m \in Int : n = m * s

\* Steps add up, and two numbers of steps that differ are a step apart.
LEMMA MultipleLaws ==
  ASSUME NEW s \in Nat \ {0}, NEW a \in Int, NEW b \in Int, Multiple(a, s), Multiple(b, s)
  PROVE  Multiple(a - b, s) /\ Multiple(a + b, s) /\ Multiple(-a, s) /\ (a < b => a + s <= b)
<1>1. PICK m \in Int : a = m * s
  BY DEF Multiple
<1>2. PICK n \in Int : b = n * s
  BY DEF Multiple
<1>3. a - b = (m - n) * s /\ a + b = (m + n) * s /\ -a = (-m) * s
  BY <1>1, <1>2
<1>4. m - n \in Int /\ m + n \in Int /\ -m \in Int
  BY <1>1, <1>2
<1>5. ASSUME a < b
      PROVE  a + s <= b
  <2>1. CASE m < n
    <3>1. PICK d \in Nat : n = m + 1 + d
      <4>1. n - m - 1 \in Nat /\ n = m + 1 + (n - m - 1)
        BY <1>1, <1>2, <2>1
      <4> QED  BY <4>1
    <3>2. (m + 1 + d) * s = m * s + s + d * s /\ d * s >= 0
      BY <1>1
    <3> QED  BY <1>1, <1>2, <3>1, <3>2
  <2>2. CASE ~(m < n)
    <3>1. PICK d \in Nat : m = n + d
      <4>1. m - n \in Nat /\ m = n + (m - n)
        BY <1>1, <1>2, <2>2
      <4> QED  BY <4>1
    <3>2. (n + d) * s = n * s + d * s /\ d * s >= 0
      BY <1>2
    <3> QED  BY <1>1, <1>2, <3>1, <3>2, <1>5
  <2> QED  BY <2>1, <2>2
<1> QED  BY <1>3, <1>4, <1>5 DEF Multiple

\* The values of some clocks extend to all clocks.
\* A smaller set has fewer elements.
LEMMA FewerElements ==
  ASSUME NEW S, IsFiniteSet(S), NEW T, T \subseteq S, T # S
  PROVE  Cardinality(T) < Cardinality(S)
<1>1. T \in SUBSET S
  OBVIOUS
<1>2. /\ IsFiniteSet(T) /\ Cardinality(T) <= Cardinality(S)
      /\ Cardinality(S) = Cardinality(T) => S = T
  BY <1>1, FS_Subset
<1>3. Cardinality(S) \in Nat /\ Cardinality(T) \in Nat
  BY <1>2, FS_CardinalityType
<1> QED  BY <1>2, <1>3

\* W has the limits of a closed matrix in multiples of s, t those that are strict, and
\* F the pairs that have one.
Limits(F, W, t, s, lo) ==
  /\ \A k \in Clk : k \in F[k] /\ k \in F[0] /\ W[k][k] = 0 /\ t[k][k] = 0
  /\ \A i, k, j \in Clk :
       k \in F[i] /\ j \in F[k]
         => /\ j \in F[i]
            /\ \/ W[i][j] < W[i][k] + W[k][j]
               \/ /\ W[i][j] = W[i][k] + W[k][j]
                  /\ t[i][k] <= t[i][j] /\ t[k][j] <= t[i][j]
  /\ \A i, j \in Clk : j \in F[i] => lo <= W[i][j] /\ Multiple(W[i][j], s)

\* The clocks of K are at multiples of s, which keep the limits between them.
Placed(K, p, F, W, t, s, hi) ==
  /\ \A c \in K : p[c] <= hi /\ Multiple(p[c], s)
  /\ \A c, d \in K : d \in F[c] => p[c] - p[d] + t[c][d] <= W[c][d]

\* Clocks at multiples of s leave room for the other clocks, if there are fewer of them
\* than s: each is put as low as the first ones let it, and above that by the number of
\* clocks that it is strictly above.
LEMMA Extension ==
  ASSUME NEW F \in [Clk -> SUBSET Clk], NEW W \in [Clk -> [Clk -> Int]],
         NEW t \in [Clk -> [Clk -> {0, 1}]], NEW s \in Nat \ {0}, NEW lo \in Int,
         Limits(F, W, t, s, lo),
         NEW K \in SUBSET Clk, 0 \in K, Cardinality(Clk \ K) < s,
         NEW p \in [Clk -> Int], NEW hi \in Int, Placed(K, p, F, W, t, s, hi)
  PROVE  \E q \in [Clk -> Int] :
           /\ \A c \in K : q[c] = p[c]
           /\ \A i, j \in Clk : j \in F[i] => q[i] - q[j] + t[i][j] <= W[i][j]
           /\ \A k \in Clk :
                /\ p[0] - W[0][k] <= q[k]
                /\ \E c \in K :
                     k \in F[c] /\ q[k] <= p[c] - W[c][k] + Cardinality(Clk \ K)
<1> DEFINE drop == Clk \ K
           S(k) == {W[c][k] - p[c] : c \in {c \in K : k \in F[c]}}
           Low(k) == -Least(S(k))
           L == [k \in Clk |-> Low(k)]
           Str(k) == \E c \in K : k \in F[c] /\ L[k] = p[c] - W[c][k] /\ t[c][k] = 1
           Prec(k, l) == l \in F[k] /\ L[k] - L[l] = W[k][l] /\ t[k][l] = 1
           R == [l \in Clk |-> {k \in drop : Prec(k, l)} \cup {x \in {0} : Str(l)}]
           m == Cardinality(drop)
           q == [k \in Clk |-> L[k] + Cardinality(R[k])]
<1>0. /\ \A k \in Clk : k \in F[k] /\ k \in F[0] /\ W[k][k] = 0 /\ t[k][k] = 0
      /\ \A i, j \in Clk : j \in F[i] => lo <= W[i][j] /\ Multiple(W[i][j], s)
      /\ \A c \in K : p[c] <= hi /\ Multiple(p[c], s)
  BY DEF Limits, Placed
<1>a. ASSUME NEW i \in Clk, NEW k \in Clk, NEW j \in Clk, k \in F[i], j \in F[k]
      PROVE  /\ j \in F[i]
             /\ \/ W[i][j] < W[i][k] + W[k][j]
                \/ /\ W[i][j] = W[i][k] + W[k][j]
                   /\ t[i][k] <= t[i][j] /\ t[k][j] <= t[i][j]
  BY <1>a DEF Limits
<1>b. ASSUME NEW c \in K, NEW d \in K, d \in F[c]
      PROVE  p[c] - p[d] + t[c][d] <= W[c][d]
  BY <1>b DEF Placed
<1>1. /\ 0 \in Clk /\ K \subseteq Clk /\ drop \subseteq Clk /\ 0 \notin drop
      /\ IsFiniteSet(Clk) /\ IsFiniteSet(drop) /\ m \in Nat
      /\ dim \in Nat \ {0}
  <2>1. 0 \in Clk /\ dim \in Nat \ {0} /\ IsFiniteSet(Clk)
    BY DimAssumption, FS_Interval DEF Clk
  <2>2. drop \subseteq Clk
    OBVIOUS
  <2>3. IsFiniteSet(drop)
    BY <2>1, <2>2, FS_Subset
  <2> QED  BY <2>1, <2>2, <2>3, FS_CardinalityType
<1>2. \A i, j \in Clk : W[i][j] \in Int /\ t[i][j] \in Int /\ 0 <= t[i][j] /\ t[i][j] <= 1 /\ p[i] \in Int /\ F[i] \subseteq Clk
  OBVIOUS
<1>30. ASSUME NEW k \in Clk
      PROVE  /\ Low(k) \in Int
             /\ \A c \in K : k \in F[c] => p[c] - W[c][k] <= Low(k)
             /\ \E c \in K : k \in F[c] /\ Low(k) = p[c] - W[c][k]
  <2>1. S(k) \in SUBSET Int
    BY <1>2
  <2>2. S(k) # {}
    <3>1. W[0][k] - p[0] \in S(k)
      BY <1>0
    <3> QED  BY <3>1
  <2>3. \A x \in S(k) : lo - hi <= x
    <3> SUFFICES ASSUME NEW c \in K, k \in F[c]
                 PROVE  lo - hi <= W[c][k] - p[c]
      OBVIOUS
    <3>1. lo <= W[c][k] /\ p[c] <= hi /\ W[c][k] \in Int /\ p[c] \in Int
      BY <1>0, <1>1, <1>2
    <3> QED  BY <3>1
  <2>4. /\ Least(S(k)) \in S(k) /\ Least(S(k)) \in Int
        /\ \A x \in S(k) : Least(S(k)) <= x
    <3> HIDE DEF S
    <3>1. lo - hi \in Int
      OBVIOUS
    <3> QED  BY <2>1, <2>2, <2>3, <3>1, LeastIsLeast
  <2>5. \A c \in K : k \in F[c] => Least(S(k)) <= W[c][k] - p[c]
    BY <2>4
  <2>6. \E c \in K : k \in F[c] /\ Least(S(k)) = W[c][k] - p[c]
    BY <2>4
  <2> HIDE DEF S
  <2>7. Low(k) \in Int
    BY <2>4
  <2>8. \A c \in K : k \in F[c] => p[c] - W[c][k] <= Low(k)
    BY <2>4, <2>5, <1>1, <1>2
  <2>9. \E c \in K : k \in F[c] /\ Low(k) = p[c] - W[c][k]
    BY <2>4, <2>6, <1>1, <1>2
  <2> QED  BY <2>7, <2>8, <2>9
<1>31. \A k \in Clk : L[k] = Low(k)
  OBVIOUS
<1> HIDE DEF Low
<1>3. ASSUME NEW k \in Clk
      PROVE  /\ L[k] \in Int
             /\ \A c \in K : k \in F[c] => p[c] - W[c][k] <= L[k]
             /\ \E c \in K : k \in F[c] /\ L[k] = p[c] - W[c][k]
  BY <1>30, <1>31
<1> HIDE DEF L, S
<1>4. \A k \in Clk : Multiple(L[k], s)
  <2> SUFFICES ASSUME NEW k \in Clk
               PROVE  Multiple(L[k], s)
    OBVIOUS
  <2>1. PICK c \in K : k \in F[c] /\ L[k] = p[c] - W[c][k]
    BY <1>3
  <2>2. Multiple(p[c], s) /\ Multiple(W[c][k], s) /\ p[c] \in Int /\ W[c][k] \in Int
    BY <1>0, <1>1, <1>2, <2>1
  <2> QED  BY <2>1, <2>2, MultipleLaws
<1>5. \A k, l \in Clk : l \in F[k] => L[k] - L[l] <= W[k][l]
  <2> SUFFICES ASSUME NEW k \in Clk, NEW l \in Clk, l \in F[k]
               PROVE  L[k] - L[l] <= W[k][l]
    OBVIOUS
  <2>1. PICK c \in K : k \in F[c] /\ L[k] = p[c] - W[c][k]
    BY <1>3
  <2>2. /\ L[k] \in Int /\ L[l] \in Int /\ p[c] \in Int /\ W[c][k] \in Int /\ W[k][l] \in Int
        /\ W[c][l] \in Int /\ c \in Clk
    BY <1>1, <1>2, <1>3
  <2>3. /\ l \in F[c]
        /\ W[c][l] < W[c][k] + W[k][l] \/ W[c][l] = W[c][k] + W[k][l]
    BY <2>1, <2>2, <1>a
  <2>4. p[c] - W[c][l] <= L[l]
    BY <1>3, <2>3
  <2> QED  BY <2>1, <2>2, <2>3, <2>4
\* Along a tight bound, what is before its first clock is before its second one.
<1>6. ASSUME NEW k \in Clk, NEW l \in Clk, l \in F[k], L[k] - L[l] = W[k][l]
      PROVE  R[k] \subseteq R[l]
  <2>1. ASSUME NEW x \in Clk, k \in F[x], L[x] - L[k] = W[x][k], t[x][k] = 1
        PROVE  l \in F[x] /\ L[x] - L[l] = W[x][l] /\ t[x][l] = 1
    <3>1. /\ l \in F[x]
          /\ \/ W[x][l] < W[x][k] + W[k][l]
             \/ /\ W[x][l] = W[x][k] + W[k][l]
                /\ t[x][k] <= t[x][l] /\ t[k][l] <= t[x][l]
      BY <1>6, <2>1, <1>a
    <3>2. L[x] - L[l] <= W[x][l]
      BY <3>1, <1>5
    <3>3. /\ L[x] \in Int /\ L[k] \in Int /\ L[l] \in Int /\ W[x][k] \in Int
          /\ W[k][l] \in Int /\ W[x][l] \in Int /\ t[x][l] \in Int /\ t[x][l] <= 1
      BY <1>2, <1>3
    <3>4. L[x] - L[l] = W[x][k] + W[k][l]
      BY <1>6, <2>1, <3>3
    <3> QED  BY <2>1, <3>1, <3>2, <3>3, <3>4
  <2>2. ASSUME NEW c \in K, k \in F[c], L[k] = p[c] - W[c][k], t[c][k] = 1
        PROVE  l \in F[c] /\ L[l] = p[c] - W[c][l] /\ t[c][l] = 1
    <3>1. /\ l \in F[c]
          /\ \/ W[c][l] < W[c][k] + W[k][l]
             \/ /\ W[c][l] = W[c][k] + W[k][l]
                /\ t[c][k] <= t[c][l] /\ t[k][l] <= t[c][l]
      BY <1>1, <1>6, <2>2, <1>a
    <3>2. p[c] - W[c][l] <= L[l]
      BY <3>1, <1>3
    <3>3. /\ p[c] \in Int /\ L[k] \in Int /\ L[l] \in Int /\ W[c][k] \in Int
          /\ W[k][l] \in Int /\ W[c][l] \in Int /\ t[c][l] \in Int /\ t[c][l] <= 1
      BY <1>1, <1>2, <1>3
    <3> QED  BY <1>6, <2>2, <3>1, <3>2, <3>3
  <2>3. \A x \in drop : Prec(x, k) => Prec(x, l)
    BY <1>1, <2>1
  <2>4. Str(k) => Str(l)
    BY <2>2
  <2> HIDE DEF Prec, Str, drop
  <2> QED  BY <2>3, <2>4
<1>6a. \A l \in Clk : R[l] = {k \in drop : Prec(k, l)} \cup {x \in {0} : Str(l)}
  OBVIOUS
<1>7. \A l \in Clk : IsFiniteSet(R[l]) /\ Cardinality(R[l]) \in Nat
  <2> SUFFICES ASSUME NEW l \in Clk
               PROVE  IsFiniteSet(R[l]) /\ Cardinality(R[l]) \in Nat
    OBVIOUS
  <2>1. R[l] \subseteq Clk
    BY <1>1
  <2>2. IsFiniteSet(R[l])
    BY <2>1, <1>1, FS_Subset
  <2> QED  BY <2>2, FS_CardinalityType
\* A clock is not before itself, so at most m clocks are before one that is dropped.
<1>8. \A l \in Clk : ~Prec(l, l)
  BY <1>0
<1>9. \A l \in drop : Cardinality(R[l]) <= m
  <2> SUFFICES ASSUME NEW l \in drop
               PROVE  Cardinality(R[l]) <= m
    OBVIOUS
  <2>1. R[l] \subseteq (drop \ {l}) \cup {0}
    <3>1. \A x \in drop : Prec(x, l) => x # l
      BY <1>1, <1>8
    <3>2. R[l] = {k \in drop : Prec(k, l)} \cup {x \in {0} : Str(l)}
      BY <1>1, <1>6a
    <3> HIDE DEF Prec, Str, drop, R
    <3> QED  BY <3>1, <3>2
  <2>2. IsFiniteSet(drop \ {l}) /\ Cardinality(drop \ {l}) = m - 1
    BY <1>1, FS_RemoveElement
  <2>3. /\ IsFiniteSet((drop \ {l}) \cup {0})
        /\ Cardinality((drop \ {l}) \cup {0}) = (m - 1) + 1
    <3>1. 0 \notin drop \ {l}
      BY <1>1
    <3> QED  BY <2>2, <3>1, FS_AddElement
  <2>4. Cardinality(R[l]) <= Cardinality((drop \ {l}) \cup {0})
    BY <2>1, <2>3, FS_Subset
  <2> QED  BY <2>3, <2>4, <1>1
\* Nothing is before a clock that has its value already.
<1>10. ASSUME NEW c \in K
       PROVE  L[c] = p[c] /\ R[c] = {} /\ Cardinality(R[c]) = 0
  <2>1. c \in Clk /\ c \in F[c] /\ W[c][c] = 0 /\ p[c] \in Int /\ L[c] \in Int
    BY <1>0, <1>1, <1>2, <1>3
  <2>2. p[c] <= L[c]
    <3>1. p[c] - W[c][c] <= L[c]
      BY <1>3, <2>1
    <3> QED  BY <2>1, <3>1
  <2>3. \A d \in K : c \in F[d] => p[d] - p[c] + t[d][c] <= W[d][c]
    BY <1>b
  <2>4. L[c] = p[c]
    <3>1. PICK d \in K : c \in F[d] /\ L[c] = p[d] - W[d][c]
      BY <1>3, <2>1
    <3>2. p[d] \in Int /\ W[d][c] \in Int /\ t[d][c] \in Int /\ 0 <= t[d][c]
      BY <1>1, <1>2, <2>1
    <3>3. p[d] - p[c] + t[d][c] <= W[d][c]
      BY <2>3, <3>1
    <3> HIDE DEF R, m, drop, Prec, Str, q
    <3>4. L[c] <= p[c]
      BY <2>1, <3>1, <3>2, <3>3
    <3>5. \A x, y \in Int : x <= y /\ y <= x => x = y
      OBVIOUS
    <3> QED  BY <2>1, <2>2, <3>4, <3>5
  <2>5. ~Str(c)
    <3> SUFFICES ASSUME NEW d \in K, c \in F[d], L[c] = p[d] - W[d][c], t[d][c] = 1
                 PROVE  FALSE
      OBVIOUS
    <3>1. p[d] - p[c] + t[d][c] <= W[d][c]
      BY <2>3
    <3>2. p[d] \in Int /\ W[d][c] \in Int /\ t[d][c] \in Int /\ 0 <= t[d][c]
      BY <1>1, <1>2, <2>1
    <3> QED  BY <2>1, <2>4, <3>1, <3>2
  <2>6. \A x \in drop : ~Prec(x, c)
    <3> SUFFICES ASSUME NEW x \in drop, c \in F[x], L[x] - L[c] = W[x][c], t[x][c] = 1
                 PROVE  FALSE
      OBVIOUS
    <3>1. PICK d \in K : x \in F[d] /\ L[x] = p[d] - W[d][x]
      BY <1>1, <1>3
    <3>2. /\ c \in F[d]
          /\ \/ W[d][c] < W[d][x] + W[x][c]
             \/ /\ W[d][c] = W[d][x] + W[x][c]
                /\ t[d][x] <= t[d][c] /\ t[x][c] <= t[d][c]
      BY <1>1, <2>1, <3>1, <1>a
    <3>3. p[d] - p[c] + t[d][c] <= W[d][c]
      BY <2>3, <3>2
    <3>4. /\ p[d] \in Int /\ W[d][c] \in Int /\ t[d][c] \in Int /\ 0 <= t[d][c] /\ W[d][x] \in Int
          /\ W[x][c] \in Int
      BY <1>1, <1>2, <2>1
    <3> QED  BY <2>1, <2>4, <3>1, <3>2, <3>3, <3>4
  <2>7. R[c] = {}
    <3> HIDE DEF Prec, Str, drop
    <3> QED  BY <2>5, <2>6
  <2> QED  BY <2>4, <2>7, FS_EmptySet
<1>11. q \in [Clk -> Int]
  <2> HIDE DEF R
  <2>1. \A k \in Clk : L[k] + Cardinality(R[k]) \in Int
    BY <1>3, <1>7
  <2> QED  BY <2>1
<1>12. \A k \in Clk : q[k] = L[k] + Cardinality(R[k]) /\ Cardinality(R[k]) <= m
  <2> SUFFICES ASSUME NEW k \in Clk
               PROVE  q[k] = L[k] + Cardinality(R[k]) /\ Cardinality(R[k]) <= m
    OBVIOUS
  <2>1. k \in K \/ k \in drop
    OBVIOUS
  <2>2. m \in Nat
    BY <1>1
  <2> HIDE DEF R, drop, m
  <2> QED  BY <1>9, <1>10, <2>1, <2>2
<1> HIDE DEF q
<1>13. \A c \in K : q[c] = p[c]
  <2> SUFFICES ASSUME NEW c \in K
               PROVE  q[c] = p[c]
    OBVIOUS
  <2>1. c \in Clk /\ p[c] \in Int
    BY <1>1, <1>2
  <2>2. q[c] = L[c] + Cardinality(R[c])
    BY <2>1, <1>12
  <2>3. L[c] = p[c] /\ Cardinality(R[c]) = 0
    BY <1>10
  <2> HIDE DEF R
  <2> QED  BY <2>1, <2>2, <2>3
<1>14. ASSUME NEW i \in Clk, NEW j \in Clk, j \in F[i]
       PROVE  q[i] - q[j] + t[i][j] <= W[i][j]
  <2>1. /\ q[i] = L[i] + Cardinality(R[i]) /\ q[j] = L[j] + Cardinality(R[j])
        /\ L[i] \in Int /\ L[j] \in Int /\ W[i][j] \in Int /\ t[i][j] \in Int /\ 0 <= t[i][j] /\ t[i][j] <= 1
        /\ Cardinality(R[i]) \in Nat /\ Cardinality(R[j]) \in Nat
        /\ Cardinality(R[i]) <= m /\ m < s /\ m \in Nat /\ s \in Nat
        /\ L[i] - L[j] <= W[i][j]
    BY <1>1, <1>2, <1>3, <1>5, <1>7, <1>12, <1>14
  <2>2. CASE L[i] - L[j] < W[i][j]
    <3>1. Multiple(L[i], s) /\ Multiple(L[j], s) /\ Multiple(W[i][j], s)
      BY <1>0, <1>4, <1>14
    <3> HIDE DEF R, m, drop
    <3>2. Multiple(L[i] - L[j], s) /\ L[i] - L[j] \in Int
      <4>1. L[i] \in Int /\ L[j] \in Int /\ s \in Nat \ {0}
        BY <2>1
      <4> HIDE DEF Prec, Str
      <4>2. Multiple(L[i] - L[j], s)
        BY <3>1, <4>1, MultipleLaws
      <4> QED  BY <4>1, <4>2
    <3>3. L[i] - L[j] + s <= W[i][j]
      <4>1. W[i][j] \in Int
        BY <2>1
      <4> QED  BY <3>1, <3>2, <4>1, <2>2, MultipleLaws
    <3> QED  BY <3>3, <2>1
  <2>3. CASE L[i] - L[j] = W[i][j] /\ t[i][j] = 0
    <3>1. R[i] \subseteq R[j]
      BY <1>6, <1>14, <2>3
    <3>2. Cardinality(R[i]) <= Cardinality(R[j])
      BY <3>1, <1>7, FS_Subset
    <3> HIDE DEF R, m
    <3> QED  BY <3>2, <2>1, <2>3
  <2>4. CASE L[i] - L[j] = W[i][j] /\ t[i][j] = 1
    <3>1. Cardinality(R[i]) < Cardinality(R[j])
      <4>1. R[i] \subseteq R[j]
        BY <1>6, <1>14, <2>4
      <4>2. R[i] # R[j]
        <5>1. CASE i \in drop
          <6>1. Prec(i, j)
            BY <1>14, <2>4
          <6>2. i \in R[j]
            <7> HIDE DEF Prec, Str, drop
            <7> QED  BY <5>1, <6>1
          <6>3. i \notin R[i]
            <7>1. i # 0 /\ ~Prec(i, i)
              BY <5>1, <1>1, <1>8
            <7> HIDE DEF Prec, Str, drop
            <7> QED  BY <7>1
          <6> QED  BY <6>2, <6>3
        <5>2. CASE i \in K
          <6>1. L[i] = p[i] /\ R[i] = {}
            BY <5>2, <1>10
          <6>2. p[i] \in Int
            BY <1>2
          <6>3. L[j] = p[i] - W[i][j]
            BY <6>1, <6>2, <2>1, <2>4
          <6>4. Str(j)
            BY <5>2, <6>3, <1>14, <2>4
          <6>5. 0 \in R[j]
            <7> HIDE DEF Prec, Str, drop
            <7> QED  BY <6>4
          <6> QED  BY <6>1, <6>5
        <5> QED  BY <5>1, <5>2
      <4> HIDE DEF R
      <4> QED  BY <4>1, <4>2, <1>7, FewerElements
    <3> HIDE DEF R, m
    <3> QED  BY <3>1, <2>1, <2>4
  <2> HIDE DEF R, m, drop, Prec, Str
  <2>5. t[i][j] = 0 \/ t[i][j] = 1
    BY <2>1
  <2>6. L[i] - L[j] < W[i][j] \/ L[i] - L[j] = W[i][j]
    <3>1. \A x, y \in Int : x <= y => x < y \/ x = y
      OBVIOUS
    <3>2. L[i] - L[j] \in Int /\ W[i][j] \in Int /\ L[i] - L[j] <= W[i][j]
      BY <2>1
    <3> QED  BY <3>1, <3>2
  <2> QED  BY <2>2, <2>3, <2>4, <2>5, <2>6
<1>15. ASSUME NEW k \in Clk
       PROVE  /\ p[0] - W[0][k] <= q[k]
              /\ \E c \in K : k \in F[c] /\ q[k] <= p[c] - W[c][k] + Cardinality(Clk \ K)
  <2>1. PICK c \in K : k \in F[c] /\ L[k] = p[c] - W[c][k]
    BY <1>3
  <2>2. p[0] - W[0][k] <= L[k]
    BY <1>0, <1>3
  <2>3. m \in Nat /\ p[0] \in Int /\ W[0][k] \in Int /\ 0 \in Clk
    BY <1>1, <1>2
  <2> HIDE DEF R, drop
  <2>4. /\ q[k] = L[k] + Cardinality(R[k]) /\ Cardinality(R[k]) <= m
        /\ Cardinality(R[k]) \in Nat /\ L[k] \in Int
    BY <1>3, <1>7, <1>12
  <2>5. p[0] - W[0][k] <= q[k]
    BY <2>2, <2>3, <2>4
  <2>6. q[k] <= p[c] - W[c][k] + m
    BY <2>1, <2>3, <2>4
  <2> QED  BY <2>1, <2>5, <2>6 DEF drop
<1> QED  BY <1>11, <1>13, <1>14, <1>15

\* A finite raw as a limit in multiples of 1 / g, and whether the limit is strict.
LEMMA FiniteLimit ==
  ASSUME NEW x \in Int, x < dbm_LS_INFINITY, NEW d \in Int, NEW g \in Nat \ {0}
  PROVE  /\ dbm_raw2bound(x) \in Int /\ dbm_raw2bound(x) * g \in Int /\ 1 - (x % 2) \in {0, 1}
         /\ Within(d, x, g) <=> d + (1 - (x % 2)) <= dbm_raw2bound(x) * g
<1>1. x \div 2 \in Int /\ (x % 2 = 0 \/ x % 2 = 1) /\ dbm_LS_INFINITY \in Int
  BY DEF dbm_LS_INFINITY
<1>2. (x \div 2) * g \in Int
  BY <1>1
<1>3. PICK w \in Int : w = (x \div 2) * g
  BY <1>2
<1>4. Within(d, x, g) <=> (x % 2 = 1 /\ d <= w) \/ d < w
  BY <1>1, <1>3 DEF Within, dbm_rawIsWeak, dbm_raw2bound
<1>5. (x % 2 = 1 /\ d <= w) \/ d < w <=> d + (1 - (x % 2)) <= w
  BY <1>1
<1> QED  BY <1>1, <1>2, <1>3, <1>4, <1>5 DEF dbm_raw2bound

\* The limits of a raw that is no larger than the sum of two raws.
LEMMA LimitOfSum ==
  ASSUME NEW x \in Int, NEW y \in Int, NEW z \in Int, z <= dbm_addFiniteFinite(x, y)
  PROVE  LET b(r) == dbm_raw2bound(r)
         IN  \/ b(z) < b(x) + b(y)
             \/ b(z) = b(x) + b(y) /\ z % 2 <= x % 2 /\ z % 2 <= y % 2
<1>1. /\ x = 2 * (x \div 2) + (x % 2) /\ y = 2 * (y \div 2) + (y % 2) /\ z = 2 * (z \div 2) + (z % 2)
      /\ x % 2 \in {0, 1} /\ y % 2 \in {0, 1} /\ z % 2 \in {0, 1}
      /\ x \div 2 \in Int /\ y \div 2 \in Int /\ z \div 2 \in Int
  OBVIOUS
<1>2. z <= (x + y) - (IF x % 2 = 1 \/ y % 2 = 1 THEN 1 ELSE 0)
  BY DEF dbm_addFiniteFinite, dbm_rawIsWeak
<1> QED  BY <1>1, <1>2 DEF dbm_raw2bound

\* A limit that is smaller, or the same, is so at every scale.
LEMMA ScaledLimits ==
  ASSUME NEW a \in Int, NEW b \in Int, NEW c \in Int, NEW g \in Nat \ {0}
  PROVE  /\ a * g \in Int /\ b * g \in Int /\ c * g \in Int
         /\ a < b + c => a * g < b * g + c * g
         /\ a = b + c => a * g = b * g + c * g
<1>1. a * g \in Int /\ b * g \in Int /\ c * g \in Int /\ (b + c) * g = b * g + c * g
  OBVIOUS
<1>2. ASSUME a < b + c
      PROVE  a * g < b * g + c * g
  <2>1. PICK n \in Nat : b + c = a + 1 + n
    <3>1. b + c - a - 1 \in Nat /\ b + c = a + 1 + (b + c - a - 1)
      BY <1>2
    <3> QED  BY <3>1
  <2>2. (a + 1 + n) * g = a * g + g + n * g /\ n * g >= 0
    OBVIOUS
  <2> QED  BY <1>1, <2>1, <2>2
<1> QED  BY <1>1, <1>2

\* The clocks of K, put at multiples of s where the bounds between them hold, are those of
\* a point of the zone, in which no clock is negative or far above the lower bounds.
LEMMA PointExtends ==
  ASSUME NEW D, NEW B \in Nat, IsZone(D, B),
         NEW g \in Nat \ {0}, NEW s \in Nat \ {0}, Multiple(g, s),
         NEW K \in SUBSET Clk, 0 \in K, Cardinality(Clk \ K) < s,
         NEW p \in [Clk -> Int], p[0] = 0, NEW hi \in Int,
         \A c \in K : p[c] <= hi /\ Multiple(p[c], s),
         \A c, d \in K : Within(p[c] - p[d], D[c][d], g)
  PROVE  \E q \in [Clk -> Int] :
           /\ \A c \in K : q[c] = p[c]
           /\ dbm_isRealPointIncluded(q, D, g)
           /\ \A k \in Clk :
                /\ 0 <= q[k]
                /\ \E c \in K :
                     /\ D[c][k] # dbm_LS_INFINITY
                     /\ q[k] <= p[c] - dbm_raw2bound(D[c][k]) * g + Cardinality(Clk \ K)
<1> DEFINE F == [i \in Clk |-> {j \in Clk : D[i][j] # dbm_LS_INFINITY}]
           W == [i \in Clk |-> [j \in Clk |-> dbm_raw2bound(D[i][j]) * g]]
           t == [i \in Clk |-> [j \in Clk |-> 1 - (D[i][j] % 2)]]
           lo == (-B) * g
<1>1. /\ \A i, j \in Clk : D[i][j] \in Int /\ D[i][j] <= dbm_LS_INFINITY
      /\ \A i, j \in Clk : D[i][j] # dbm_LS_INFINITY => -B < D[i][j] /\ D[i][j] < B
      /\ \A i \in Clk : D[i][i] = dbm_LE_ZERO
      /\ \A j \in Clk : D[0][j] <= dbm_LE_ZERO /\ D[0][j] # dbm_LS_INFINITY
      /\ \A i, k, j \in Clk : D[i][k] # dbm_LS_INFINITY /\ D[k][j] # dbm_LS_INFINITY
           => /\ D[i][j] # dbm_LS_INFINITY
              /\ D[i][j] <= dbm_addFiniteFinite(D[i][k], D[k][j])
      /\ 0 \in Clk
  BY ZoneEntries
<1>2. \A i, j \in Clk : /\ dbm_raw2bound(D[i][j]) \in Int
                        /\ dbm_raw2bound(D[i][j]) * g \in Int
                        /\ 1 - (D[i][j] % 2) \in {0, 1}
  <2> SUFFICES ASSUME NEW i \in Clk, NEW j \in Clk
               PROVE  /\ dbm_raw2bound(D[i][j]) \in Int
                      /\ dbm_raw2bound(D[i][j]) * g \in Int
                      /\ 1 - (D[i][j] % 2) \in {0, 1}
    OBVIOUS
  <2>1. D[i][j] \in Int
    BY <1>1
  <2>2. \A x \in Int : x \div 2 \in Int /\ 1 - (x % 2) \in {0, 1}
    OBVIOUS
  <2>3. \A x \in Int : x * g \in Int
    OBVIOUS
  <2> QED  BY <2>1, <2>2, <2>3 DEF dbm_raw2bound
<1>3. F \in [Clk -> SUBSET Clk] /\ W \in [Clk -> [Clk -> Int]] /\ t \in [Clk -> [Clk -> {0, 1}]]
  BY <1>2
<1>4. lo \in Int
  OBVIOUS
<1>5. \A i, j \in Clk : /\ j \in F[i] <=> D[i][j] # dbm_LS_INFINITY
                        /\ W[i][j] = dbm_raw2bound(D[i][j]) * g
                        /\ t[i][j] = 1 - (D[i][j] % 2)
  OBVIOUS
<1>6. \A i, j \in Clk : D[i][j] # dbm_LS_INFINITY => D[i][j] < dbm_LS_INFINITY
  BY <1>1 DEF dbm_LS_INFINITY
<1> HIDE DEF F, W, t
<1>7. Limits(F, W, t, s, lo)
  <2>1. ASSUME NEW k \in Clk
        PROVE  k \in F[k] /\ k \in F[0] /\ W[k][k] = 0 /\ t[k][k] = 0
    <3>1. D[k][k] = 1 /\ D[k][k] # dbm_LS_INFINITY /\ D[0][k] # dbm_LS_INFINITY
      BY <1>1 DEF dbm_LE_ZERO, dbm_LS_INFINITY
    <3>2. dbm_raw2bound(1) = 0 /\ 1 - (1 % 2) = 0 /\ 0 * g = 0
      BY DEF dbm_raw2bound
    <3>3. k \in F[k] /\ k \in F[0]
      BY <1>1, <1>5, <3>1
    <3>4. W[k][k] = dbm_raw2bound(D[k][k]) * g /\ t[k][k] = 1 - (D[k][k] % 2)
      BY <1>5
    <3> QED  BY <3>1, <3>2, <3>3, <3>4
  <2>2. ASSUME NEW i \in Clk, NEW k \in Clk, NEW j \in Clk, k \in F[i], j \in F[k]
        PROVE  /\ j \in F[i]
               /\ \/ W[i][j] < W[i][k] + W[k][j]
                  \/ /\ W[i][j] = W[i][k] + W[k][j]
                     /\ t[i][k] <= t[i][j] /\ t[k][j] <= t[i][j]
    <3>1. /\ D[i][j] # dbm_LS_INFINITY
          /\ D[i][j] <= dbm_addFiniteFinite(D[i][k], D[k][j])
      BY <1>1, <1>5, <2>2
    <3>2. D[i][j] \in Int /\ D[i][k] \in Int /\ D[k][j] \in Int
      BY <1>1
    <3> DEFINE b(r) == dbm_raw2bound(r)
    <3>3. \/ b(D[i][j]) < b(D[i][k]) + b(D[k][j])
          \/ /\ b(D[i][j]) = b(D[i][k]) + b(D[k][j])
             /\ D[i][j] % 2 <= D[i][k] % 2 /\ D[i][j] % 2 <= D[k][j] % 2
      BY <3>1, <3>2, LimitOfSum
    <3>4. b(D[i][j]) \in Int /\ b(D[i][k]) \in Int /\ b(D[k][j]) \in Int
      BY <1>2
    <3> HIDE DEF b
    <3>5. /\ b(D[i][j]) < b(D[i][k]) + b(D[k][j])
               => b(D[i][j]) * g < b(D[i][k]) * g + b(D[k][j]) * g
          /\ b(D[i][j]) = b(D[i][k]) + b(D[k][j])
               => b(D[i][j]) * g = b(D[i][k]) * g + b(D[k][j]) * g
      BY <3>4, ScaledLimits
    <3>6. /\ W[i][j] = b(D[i][j]) * g /\ W[i][k] = b(D[i][k]) * g /\ W[k][j] = b(D[k][j]) * g
          /\ t[i][j] = 1 - (D[i][j] % 2) /\ t[i][k] = 1 - (D[i][k] % 2) /\ t[k][j] = 1 - (D[k][j] % 2)
          /\ j \in F[i]
      BY <1>5, <3>1 DEF b
    <3>7. D[i][j] % 2 \in Int /\ D[i][k] % 2 \in Int /\ D[k][j] % 2 \in Int
      BY <3>2
    <3>8. \A x, y \in Int : x <= y => 1 - y <= 1 - x
      OBVIOUS
    <3>9. CASE b(D[i][j]) < b(D[i][k]) + b(D[k][j])
      BY <3>5, <3>6, <3>9
    <3>10. CASE /\ b(D[i][j]) = b(D[i][k]) + b(D[k][j])
                /\ D[i][j] % 2 <= D[i][k] % 2 /\ D[i][j] % 2 <= D[k][j] % 2
      <4>1. W[i][j] = W[i][k] + W[k][j]
        BY <3>5, <3>6, <3>10
      <4>2. /\ 1 - (D[i][k] % 2) <= 1 - (D[i][j] % 2)
            /\ 1 - (D[k][j] % 2) <= 1 - (D[i][j] % 2)
        BY <3>7, <3>8, <3>10
      <4>3. t[i][k] <= t[i][j] /\ t[k][j] <= t[i][j]
        BY <3>6, <4>2
      <4> QED  BY <4>1, <4>3, <3>6
    <3> QED  BY <3>3, <3>9, <3>10
  <2>3. ASSUME NEW i \in Clk, NEW j \in Clk, j \in F[i]
        PROVE  lo <= W[i][j] /\ Multiple(W[i][j], s)
    <3>1. -B < D[i][j] /\ D[i][j] \in Int
      BY <1>1, <1>5, <2>3
    <3>2. -B <= dbm_raw2bound(D[i][j]) /\ dbm_raw2bound(D[i][j]) \in Int
      BY <3>1 DEF dbm_raw2bound
    <3>3. \A x \in Int : -B <= x => (-B) * g <= x * g
      <4> SUFFICES ASSUME NEW x \in Int, -B <= x
                   PROVE  (-B) * g <= x * g
        OBVIOUS
      <4>1. -B = x \/ -B < x + 0
        OBVIOUS
      <4>2. -B \in Int /\ 0 \in Int /\ 0 * g = 0
        OBVIOUS
      <4>3. -B < x + 0 => (-B) * g < x * g + 0 * g
        BY <4>2, ScaledLimits
      <4>4. (-B) * g \in Int /\ x * g \in Int
        OBVIOUS
      <4> QED  BY <4>1, <4>2, <4>3, <4>4
    <3>4. PICK n \in Int : g = n * s
      BY DEF Multiple
    <3>5. \A x \in Int : x * (n * s) = (x * n) * s /\ x * n \in Int
      BY <3>4
    <3>6. W[i][j] = (dbm_raw2bound(D[i][j]) * n) * s /\ dbm_raw2bound(D[i][j]) * n \in Int
      BY <1>5, <3>2, <3>4, <3>5
    <3>7. Multiple(W[i][j], s)
      BY <3>6 DEF Multiple
    <3> QED  BY <3>2, <3>3, <3>7, <1>5
  <2> QED  BY <2>1, <2>2, <2>3 DEF Limits
<1>8. ASSUME NEW i \in Clk, NEW j \in Clk, NEW d \in Int
      PROVE  j \in F[i] => (Within(d, D[i][j], g) <=> d + t[i][j] <= W[i][j])
  <2>1. ASSUME j \in F[i]
        PROVE  Within(d, D[i][j], g) <=> d + t[i][j] <= W[i][j]
    <3>1. D[i][j] \in Int /\ D[i][j] < dbm_LS_INFINITY
      BY <1>1, <1>5, <1>6, <2>1
    <3>2. Within(d, D[i][j], g) <=> d + (1 - (D[i][j] % 2)) <= dbm_raw2bound(D[i][j]) * g
      BY <3>1, FiniteLimit
    <3> QED  BY <3>2, <1>5
  <2> QED  BY <2>1
<1>9. Placed(K, p, F, W, t, s, hi)
  <2>1. ASSUME NEW c \in K, NEW d \in K, d \in F[c]
        PROVE  p[c] - p[d] + t[c][d] <= W[c][d]
    <3>1. c \in Clk /\ d \in Clk /\ p[c] - p[d] \in Int /\ Within(p[c] - p[d], D[c][d], g)
      OBVIOUS
    <3> QED  BY <3>1, <2>1, <1>8
  <2> QED  BY <2>1 DEF Placed
<1>10. PICK q \in [Clk -> Int] :
         /\ \A c \in K : q[c] = p[c]
         /\ \A i, j \in Clk : j \in F[i] => q[i] - q[j] + t[i][j] <= W[i][j]
         /\ \A k \in Clk :
              /\ p[0] - W[0][k] <= q[k]
              /\ \E c \in K : k \in F[c] /\ q[k] <= p[c] - W[c][k] + Cardinality(Clk \ K)
  BY <1>3, <1>4, <1>7, <1>9, Extension
<1>11. dbm_isRealPointIncluded(q, D, g)
  <2> SUFFICES ASSUME NEW i \in Clk, NEW j \in Clk
               PROVE  Within(q[i] - q[j], D[i][j], g)
    BY DEF dbm_isRealPointIncluded
  <2>1. CASE j \in F[i]
    <3>1. q[i] - q[j] \in Int /\ q[i] - q[j] + t[i][j] <= W[i][j]
      BY <1>10, <2>1
    <3> QED  BY <3>1, <2>1, <1>8
  <2>2. CASE j \notin F[i]
    <3>1. D[i][j] = dbm_LS_INFINITY
      BY <2>2, <1>5
    <3> QED  BY <3>1 DEF Within, dbm_LS_INFINITY
  <2> QED  BY <2>1, <2>2
<1>12. ASSUME NEW k \in Clk
       PROVE  /\ 0 <= q[k]
              /\ \E c \in K :
                   /\ D[c][k] # dbm_LS_INFINITY
                   /\ q[k] <= p[c] - dbm_raw2bound(D[c][k]) * g + Cardinality(Clk \ K)
  <2>1. W[0][k] <= 0 /\ W[0][k] \in Int
    <3>1. D[0][k] \in Int /\ D[0][k] <= 1
      BY <1>1 DEF dbm_LE_ZERO
    <3>2. PICK r \in Int : r = dbm_raw2bound(D[0][k])
      BY <1>1, <1>2
    <3>3. r <= 0
      BY <3>1, <3>2 DEF dbm_raw2bound
    <3>4. r * g <= 0 /\ r * g \in Int
      <4>1. -r \in Nat /\ (-r) * g >= 0 /\ r * g = -((-r) * g)
        BY <3>3
      <4> QED  BY <4>1
    <3> QED  BY <3>2, <3>4, <1>1, <1>5
  <2>2. 0 <= q[k]
    BY <1>10, <2>1
  <2>3. PICK c \in K : k \in F[c] /\ q[k] <= p[c] - W[c][k] + Cardinality(Clk \ K)
    BY <1>10
  <2>4. W[c][k] = dbm_raw2bound(D[c][k]) * g /\ D[c][k] # dbm_LS_INFINITY
    BY <1>5, <2>3
  <2> QED  BY <2>2, <2>3, <2>4
<1> QED  BY <1>10, <1>11, <1>12

=============================================================================

---------------------------- MODULE ClosingLemmas -----------------------------
(***************************************************************************)
(* What the closing functions and the operations of src/dbm.c that         *)
(* tighten a zone do: the result is empty or closed, its constants are     *)
(* bounded, and it has the points of the tightened matrix.                 *)
(***************************************************************************)
EXTENDS ZoneLemmas
-----------------------------------------------------------------------------
(* dbm_close, dbm_closex and dbm_close1. *)

\* One pass of the loop on the clocks, with its early exit.
ClosePass(E, c, touched) ==
  IF E = Empty \/ c \notin touched THEN E
  ELSE IF dbm_isEmpty(PassVia(E, c)) THEN Empty ELSE PassVia(E, c)

\* The matrix that stands for no zone has a negative diagonal, so a zone is not it.
LEMMA EmptyIsNegative ==
  /\ Empty \in WideMatrix
  /\ NoPoints(Empty)
  /\ \A D : ZeroDiagonal(D) => D # Empty
<1>1. 0 \in Clk
  BY DimAssumption DEF Clk
<1>2. Empty[0][0] = -1 /\ -1 < dbm_LE_ZERO
  BY <1>1, Infinity DEF Empty
<1>3. Empty \in WideMatrix
  BY Infinity DEF Empty, WideMatrix
<1>4. NoPoints(Empty)
  BY <1>1, <1>2, NegativeDiagonal
<1> QED
  BY <1>1, <1>2, <1>3, <1>4, Infinity DEF ZeroDiagonal

\* The matrices after each pass.
LEMMA CloseRuns ==
  ASSUME NEW D \in WideMatrix, NEW touched \in SUBSET Clk
  PROVE  \E after \in [0 .. dim -> WideMatrix] :
           /\ after[0] = D
           /\ \A n \in 1 .. dim :
                after[n] = ClosePass(after[n - 1], n - 1, touched)
           /\ CloseVia(D, touched) = after[dim]
<1> DEFINE step == [p \in Nat \X WideMatrix |-> ClosePass(p[2], p[1] - 1, touched)]
<1>1. dim \in Nat
  BY DimAssumption
<1>2. step \in [Nat \X WideMatrix -> WideMatrix]
  <2>1. ASSUME NEW n \in Nat, NEW E \in WideMatrix
        PROVE  ClosePass(E, n - 1, touched) \in WideMatrix
    BY PassType, EmptyIsNegative DEF ClosePass
  <2> QED
    BY <2>1
<1>3. \A n \in Nat, E \in WideMatrix : step[<<n, E>>] = ClosePass(E, n - 1, touched)
  OBVIOUS
<1> HIDE DEF step
<1>4. PICK f \in [0 .. dim -> WideMatrix] : Runs(f, dim, D, step)
  BY <1>1, <1>2, Recursion
<1>5. f = [n \in 0 .. dim |-> IF n = 0 THEN D ELSE ClosePass(f[n - 1], n - 1, touched)]
  <2>1. ASSUME NEW n \in 0 .. dim, n # 0
        PROVE  step[<<n, f[n - 1]>>] = ClosePass(f[n - 1], n - 1, touched)
    <3>1. n \in Nat /\ n - 1 \in 0 .. dim
      BY <1>1, <2>1
    <3> QED
      BY <1>3, <3>1
  <2>2. [n \in 0 .. dim |-> IF n = 0 THEN D ELSE step[<<n, f[n - 1]>>]]
          = [n \in 0 .. dim |->
               IF n = 0 THEN D ELSE ClosePass(f[n - 1], n - 1, touched)]
    BY <2>1
  <2> QED
    BY <1>4, <2>2 DEF Runs
<1> DEFINE IsRun(a) ==
             a = [n \in 0 .. dim |->
                    IF n = 0 THEN D ELSE ClosePass(a[n - 1], n - 1, touched)]
           after == CHOOSE a : IsRun(a)
<1>6. IsRun(after)
  BY <1>5
<1>7. CloseVia(D, touched) = after[dim]
  BY DEF CloseVia, ClosePass
<1> HIDE DEF after
<1>8. DOMAIN after = 0 .. dim /\ after[0] = D
  BY <1>1, <1>6
<1>9. \A n \in 1 .. dim : after[n] = ClosePass(after[n - 1], n - 1, touched)
  BY <1>1, <1>6
<1>10. \A n \in 0 .. dim : after[n] \in WideMatrix
  <2> DEFINE S == {n \in Nat : n <= dim => after[n] \in WideMatrix}
  <2>1. 0 \in S
    BY <1>8
  <2>2. ASSUME NEW n \in Nat, n \in S PROVE n + 1 \in S
    <3> SUFFICES ASSUME n + 1 <= dim PROVE after[n + 1] \in WideMatrix
      OBVIOUS
    <3>1. n + 1 \in 1 .. dim /\ (n + 1) - 1 = n /\ after[n] \in WideMatrix
      BY <1>1, <2>2
    <3>2. after[n + 1] = ClosePass(after[n], n, touched)
      BY <1>9, <3>1
    <3> QED
      BY <3>1, <3>2, PassType, EmptyIsNegative DEF ClosePass
  <2> HIDE DEF S
  <2>3. \A n \in Nat : n \in S
    BY <2>1, <2>2, Induction
  <2> QED
    BY <1>1, <2>3 DEF S
<1>11. after \in [0 .. dim -> WideMatrix]
  BY <1>6, <1>8, <1>10
<1> QED
  BY <1>7, <1>8, <1>9, <1>11

\* What holds of the matrix E before the pass for clock n: no path through a clock
\* that is done, or was not touched, shortens an entry.
ClosedUpTo(E, n, D, touched, B) ==
  /\ E \in WideMatrix /\ ZeroDiagonal(E)
  /\ \A c \in Clk : c \notin touched \/ c < n => ShortcutVia(E, c)
  /\ Spread(E, {c \in touched : c < n}, RawsBelow(B))
  /\ NoLooser(E, D) /\ SamePoints(D, E)

\* One pass keeps it, or shows that D has no points.
LEMMA ClosePassStep ==
  ASSUME NEW D \in WideMatrix, NEW E, NEW touched \in SUBSET Clk, NEW n \in Clk,
         NEW B \in Nat, (dim + 1) * B <= dbm_LE_OVERFLOW,
         ClosedUpTo(E, n, D, touched, B)
  PROVE  LET F == ClosePass(E, n, touched)
         IN  \/ F = Empty /\ NoPoints(D)
             \/ ClosedUpTo(F, n + 1, D, touched, B)
<1> DEFINE F == ClosePass(E, n, touched)
           P == PassVia(E, n)
<1>1. /\ E \in WideMatrix /\ ZeroDiagonal(E) /\ E # Empty
      /\ \A c \in Clk : c \notin touched \/ c < n => ShortcutVia(E, c)
      /\ Spread(E, {c \in touched : c < n}, RawsBelow(B))
      /\ NoLooser(E, D) /\ SamePoints(D, E)
  BY EmptyIsNegative DEF ClosedUpTo
<1>2. \A c \in Clk : c \in Nat /\ n \in Nat
  BY DimAssumption DEF Clk
<1>3. CASE n \notin touched
  <2>1. F = E
    BY <1>3 DEF ClosePass
  <2>2. \A c \in Clk : c < n + 1 => c < n \/ c = n
    BY <1>2
  <2>3. \A c \in Clk : c \notin touched \/ c < n + 1 => ShortcutVia(E, c)
    BY <1>1, <1>3, <2>2
  <2>4. \A c \in Clk : c < n => c < n + 1
    BY <1>2
  <2>5. {c \in touched : c < n} = {c \in touched : c < n + 1}
    BY <1>3, <2>2, <2>4
  <2>6. ClosedUpTo(E, n + 1, D, touched, B)
    BY <1>1, <2>3, <2>5 DEF ClosedUpTo
  <2> QED
    BY <2>1, <2>6
<1>4. CASE n \in touched
  <2>1. F = IF dbm_isEmpty(P) THEN Empty ELSE P
    BY <1>1, <1>4 DEF ClosePass
  <2>2. SumsFinite(E, n)
    <3>1. {c \in touched : c < n} \in SUBSET Clk
      OBVIOUS
    <3>2. Bounded(E, (dim + 1) * B) /\ (dim + 1) * B \in Nat
      BY <1>1, <3>1, BoundsOfSpread, DimAssumption
    <3> QED
      BY <1>1, <3>2, SumsOfBounded
  <2>3. \A pt \in [Clk -> Int], g \in Nat \ {0} :
          dbm_isRealPointIncluded(pt, P, g) <=> dbm_isRealPointIncluded(pt, D, g)
    BY <1>1, <2>2, PassSolutions DEF SamePoints
  <2>4. P \in WideMatrix
    BY <1>1, PassType
  <2>5. \A a, b \in Clk : P[a][b] \in Int /\ P[a][b] <= E[a][b]
    BY <1>1, <2>2, PassEntry
  <2>6. CASE dbm_isEmpty(P)
    <3>1. NoPoints(P)
      BY <2>5, <2>6, NegativeDiagonal DEF dbm_isEmpty
    <3>2. NoPoints(D)
      BY <2>3, <3>1 DEF NoPoints
    <3> QED
      BY <2>1, <2>6, <3>2
  <2>7. CASE ~dbm_isEmpty(P)
    <3>1. ZeroDiagonal(P)
      BY <1>1, <2>5, <2>7, Infinity DEF ZeroDiagonal, dbm_isEmpty
    <3>2. \A c \in Clk : c \notin touched \/ c < n + 1 => ShortcutVia(P, c)
      <4>1. \A c \in Clk : c < n + 1 => c < n \/ c = n
        BY <1>2
      <4>2. \A c \in Clk : c \notin touched \/ c < n + 1 => c = n \/ ShortcutVia(E, c)
        BY <1>1, <4>1
      <4> HIDE DEF P
      <4>3. \A c \in Clk : c = n \/ ShortcutVia(E, c) => ShortcutVia(P, c)
        BY <1>1, <2>2, PassExtends DEF P
      <4> QED
        BY <4>2, <4>3
    <3>3. Spread(P, {c \in touched : c < n + 1}, RawsBelow(B))
      <4> DEFINE done == {c \in touched : c < n}
      <4>1. /\ done \in SUBSET Clk /\ n \notin done
            /\ {c \in touched : c < n + 1} = done \cup {n}
        BY <1>2, <1>4
      <4>2. \A m \in done : ShortcutVia(E, m)
        BY <1>1
      <4>3. Spread(E, done, RawsBelow(B))
        BY <1>1
      <4> HIDE DEF done
      <4>4. Spread(P, done \cup {n}, RawsBelow(B))
        BY <1>1, <2>2, <3>1, <4>1, <4>2, <4>3, SpreadPass, WeightsAdd
      <4> QED
        BY <4>1, <4>4
    <3>4. NoLooser(P, D)
      <4>1. \A a, b \in Clk : D[a][b] \in Int /\ E[a][b] \in Int /\ E[a][b] <= D[a][b]
        BY <1>1, WideEntry DEF NoLooser
      <4> QED
        BY <2>5, <4>1 DEF NoLooser
    <3>5. SamePoints(D, P)
      BY <2>3 DEF SamePoints
    <3>6. ClosedUpTo(P, n + 1, D, touched, B)
      BY <2>4, <3>1, <3>2, <3>3, <3>4, <3>5 DEF ClosedUpTo
    <3> QED
      BY <2>1, <2>7, <3>6
  <2> QED
    BY <2>6, <2>7
<1> QED
  BY <1>3, <1>4

\* Induction on the passes.  P has the pairs of a matrix and a number of passes that each
\* pass keeps; canEnd says whether a pass may show that there are no points.
LEMMA PassesKeep ==
  ASSUME NEW D \in WideMatrix, NEW touched \in SUBSET Clk, NEW B \in Nat,
         (dim + 1) * B <= dbm_LE_OVERFLOW,
         Bounded(D, B), ZeroDiagonal(D),
         \A c \in Clk \ touched : ShortcutVia(D, c),
         NEW P, <<D, 0>> \in P, NEW canEnd \in BOOLEAN,
         \A n \in Clk, E \in WideMatrix :
           ClosedUpTo(E, n, D, touched, B) /\ <<E, n>> \in P
             => IF ClosePass(E, n, touched) = Empty THEN canEnd
                ELSE <<ClosePass(E, n, touched), n + 1>> \in P
  PROVE  LET E == CloseVia(D, touched)
         IN  \/ canEnd /\ E = Empty /\ NoPoints(D)
             \/ ClosedUpTo(E, dim, D, touched, B) /\ <<E, dim>> \in P
<1>1. PICK after \in [0 .. dim -> WideMatrix] :
        /\ after[0] = D
        /\ \A n \in 1 .. dim : after[n] = ClosePass(after[n - 1], n - 1, touched)
        /\ CloseVia(D, touched) = after[dim]
  BY CloseRuns
<1> DEFINE Good(n) == \/ canEnd /\ after[n] = Empty /\ NoPoints(D)
                      \/ ClosedUpTo(after[n], n, D, touched, B) /\ <<after[n], n>> \in P
           S == {n \in Nat : n <= dim => Good(n)}
<1>2. dim \in Nat
  BY DimAssumption
<1>3. 0 \in S
  <2>1. \A c \in Clk : ~(c < 0)
    BY DimAssumption DEF Clk
  <2>2. \A c \in Clk : c \notin touched \/ c < 0 => ShortcutVia(D, c)
    BY <2>1
  <2>3. Spread(D, {c \in touched : c < 0}, RawsBelow(B))
    BY SpreadFromBounds
  <2>4. NoLooser(D, D) /\ SamePoints(D, D)
    BY WideEntry DEF NoLooser, SamePoints
  <2> QED
    BY <1>1, <2>2, <2>3, <2>4 DEF ClosedUpTo
<1>4. ASSUME NEW n \in Nat, n \in S PROVE n + 1 \in S
  <2> SUFFICES ASSUME n + 1 <= dim PROVE Good(n + 1)
    OBVIOUS
  <2>1. /\ n + 1 \in 1 .. dim /\ (n + 1) - 1 = n /\ n \in Clk
        /\ Good(n)
    BY <1>2, <1>4 DEF Clk
  <2>2. after[n + 1] = ClosePass(after[n], n, touched)
    BY <1>1, <2>1
  <2>3. CASE canEnd /\ after[n] = Empty /\ NoPoints(D)
    BY <2>2, <2>3 DEF ClosePass
  <2>4. CASE ClosedUpTo(after[n], n, D, touched, B) /\ <<after[n], n>> \in P
    <3>1. \/ after[n + 1] = Empty /\ NoPoints(D)
          \/ ClosedUpTo(after[n + 1], n + 1, D, touched, B)
      BY <2>1, <2>2, <2>4, ClosePassStep
    <3>2. ClosedUpTo(after[n + 1], n + 1, D, touched, B) => after[n + 1] # Empty
      BY EmptyIsNegative DEF ClosedUpTo
    <3>3. after[n] \in WideMatrix
      BY <1>1, <1>2, <2>1
    <3>4. IF after[n + 1] = Empty THEN canEnd ELSE <<after[n + 1], n + 1>> \in P
      BY <2>1, <2>2, <2>4, <3>3
    <3> QED
      BY <3>1, <3>2, <3>4
  <2> QED
    BY <2>1, <2>3, <2>4
<1> HIDE DEF S
<1>5. dim \in S
  BY <1>2, <1>3, <1>4, Induction
<1>6. Good(dim)
  BY <1>2, <1>5 DEF S
<1> QED
  BY <1>1, <1>6

\* The closing functions, for every matrix and every set of touched clocks: the result
\* is closed, has the points of the argument and entries that raw_t holds, or the
\* argument has no points.
LEMMA CloseViaCloses ==
  ASSUME NEW D \in WideMatrix, NEW touched \in SUBSET Clk, NEW B \in Nat,
         (dim + 1) * B <= dbm_LE_OVERFLOW,
         Bounded(D, B), ZeroDiagonal(D),
         \A c \in Clk \ touched : ShortcutVia(D, c)
  PROVE  LET E == CloseVia(D, touched)
         IN  \/ E = Empty /\ NoPoints(D)
             \/ /\ E \in WideMatrix /\ Closed(E) /\ Bounded(E, (dim + 1) * B)
                /\ NoLooser(E, D) /\ SamePoints(D, E)
<1>1. \/ CloseVia(D, touched) = Empty /\ NoPoints(D)
      \/ ClosedUpTo(CloseVia(D, touched), dim, D, touched, B)
  <2> DEFINE P == WideMatrix \X Nat
  <2>1. <<D, 0>> \in P
    OBVIOUS
  <2>2. \A n \in Clk, E \in WideMatrix :
          IF ClosePass(E, n, touched) = Empty THEN TRUE
          ELSE <<ClosePass(E, n, touched), n + 1>> \in P
    <3>1. \A n \in Clk : n + 1 \in Nat
      BY DimAssumption DEF Clk
    <3>2. \A n \in Clk, E \in WideMatrix : ClosePass(E, n, touched) \in WideMatrix
      BY PassType, EmptyIsNegative DEF ClosePass
    <3> QED
      BY <3>1, <3>2
  <2> HIDE DEF P
  <2> QED
    BY <2>1, <2>2, PassesKeep
<1>6. CASE CloseVia(D, touched) = Empty /\ NoPoints(D)
  BY <1>6
<1>7. CASE ClosedUpTo(CloseVia(D, touched), dim, D, touched, B)
  <2> DEFINE E == CloseVia(D, touched)
  <2>1. \A c \in Clk : c < dim
    BY DimAssumption DEF Clk
  <2>2. {c \in touched : c < dim} \in SUBSET Clk
    OBVIOUS
  <2>3. Closed(E) /\ E \in WideMatrix /\ NoLooser(E, D) /\ SamePoints(D, E)
    BY <1>7, <2>1 DEF ClosedUpTo, Closed
  <2>4. Spread(E, {c \in touched : c < dim}, RawsBelow(B))
    BY <1>7 DEF ClosedUpTo
  <2>5. Bounded(E, (dim + 1) * B)
    BY <2>2, <2>3, <2>4, BoundsOfSpread
  <2> QED
    BY <2>3, <2>5
<1> QED
  BY <1>1, <1>6, <1>7

\* Where the entries are as light as W says, the paths are: the result is spread.
LEMMA CloseViaSpreads ==
  ASSUME NEW D \in WideMatrix, NEW touched \in SUBSET Clk, NEW B \in Nat,
         (dim + 1) * B <= dbm_LE_OVERFLOW,
         Bounded(D, B), ZeroDiagonal(D),
         \A c \in Clk \ touched : ShortcutVia(D, c),
         NEW W, Additive(W),
         \A a, b \in Clk : D[a][b] # dbm_LS_INFINITY => <<D[a][b], 1>> \in W
  PROVE  LET E == CloseVia(D, touched) IN E = Empty \/ Spread(E, touched, W)
<1> DEFINE done(n) == {c \in touched : c < n}
           P == {p \in WideMatrix \X Nat : Spread(p[1], done(p[2]), W)}
<1>1. <<D, 0>> \in P
  BY SpreadFromEdges
<1>2. ASSUME NEW n \in Clk, NEW E \in WideMatrix,
             ClosedUpTo(E, n, D, touched, B), <<E, n>> \in P
      PROVE  IF ClosePass(E, n, touched) = Empty THEN TRUE
             ELSE <<ClosePass(E, n, touched), n + 1>> \in P
  <2> SUFFICES ASSUME ClosePass(E, n, touched) # Empty
               PROVE  <<ClosePass(E, n, touched), n + 1>> \in P
    OBVIOUS
  <2> DEFINE F == ClosePass(E, n, touched)
  <2>1. \A c \in Clk : c \in Nat /\ n \in Nat /\ n + 1 \in Nat
    BY DimAssumption DEF Clk
  <2>2. F \in WideMatrix
    BY PassType, EmptyIsNegative DEF ClosePass
  <2>3. /\ ZeroDiagonal(E) /\ E # Empty
        /\ \A c \in Clk : c \notin touched \/ c < n => ShortcutVia(E, c)
        /\ Spread(E, done(n), RawsBelow(B))
    BY <1>2, EmptyIsNegative DEF ClosedUpTo
  <2>4. Spread(E, done(n), W)
    BY <1>2
  <2>5. \A c \in Clk : c < n + 1 <=> c < n \/ c = n
    BY <2>1
  <2>6. Spread(F, done(n + 1), W)
    <3>1. CASE n \notin touched
      <4>1. F = E /\ done(n + 1) = done(n)
        BY <2>5, <3>1 DEF ClosePass
      <4> QED
        BY <2>4, <4>1
    <3>2. CASE n \in touched
      <4> DEFINE S == done(n)
      <4>1. F = PassVia(E, n) /\ ~dbm_isEmpty(F)
        BY <2>3, <3>2 DEF ClosePass
      <4>2. /\ S \in SUBSET Clk /\ n \notin S /\ done(n + 1) = S \cup {n}
            /\ \A m \in S : ShortcutVia(E, m)
        BY <2>1, <2>3, <2>5, <3>2
      <4> HIDE DEF S
      <4>3. SumsFinite(E, n)
        <5>1. Spread(E, S, RawsBelow(B))
          BY <2>3 DEF S
        <5>2. Bounded(E, (dim + 1) * B) /\ (dim + 1) * B \in Nat
          BY <4>2, <5>1, BoundsOfSpread, DimAssumption
        <5> QED
          BY <5>2, SumsOfBounded
      <4>4. ZeroDiagonal(F)
        <5>1. \A a \in Clk : F[a][a] \in Int /\ F[a][a] <= E[a][a] /\ E[a][a] = dbm_LE_ZERO
          BY <2>3, <4>1, <4>3, PassEntry DEF ZeroDiagonal
        <5> QED
          BY <4>1, <5>1, Infinity DEF ZeroDiagonal, dbm_isEmpty
      <4>5. Spread(E, S, W)
        BY <2>4 DEF S
      <4> HIDE DEF F
      <4>6. Spread(F, S \cup {n}, W)
        BY <2>3, <4>1, <4>2, <4>3, <4>4, <4>5, SpreadPass
      <4> QED
        BY <4>2, <4>6
    <3> QED
      BY <3>1, <3>2
  <2> HIDE DEF F, done
  <2>7. <<F, n + 1>> \in P
    BY <2>1, <2>2, <2>6
  <2> QED
    BY <2>7 DEF F
<1> HIDE DEF P
<1>3. \/ CloseVia(D, touched) = Empty
      \/ <<CloseVia(D, touched), dim>> \in P
  BY <1>1, <1>2, PassesKeep
<1>4. done(dim) = touched
  <2>1. \A c \in Clk : c < dim
    BY DimAssumption DEF Clk
  <2> QED
    BY <2>1
<1> QED
  BY <1>3, <1>4 DEF P

\* A closed matrix below a matrix stays below it in a pass.
LEMMA PassAbove ==
  ASSUME NEW F \in WideMatrix, Closed(F), NEW E \in WideMatrix, ZeroDiagonal(E),
         NEW c \in Clk, SumsFinite(E, c), NoLooser(F, E)
  PROVE  NoLooser(F, PassVia(E, c))
<1> SUFFICES ASSUME NEW a \in Clk, NEW b \in Clk PROVE F[a][b] <= PassVia(E, c)[a][b]
  BY DEF NoLooser
<1> DEFINE Sum(x, y) == dbm_addFiniteFinite(x, y)
           p == PassVia(E, c)[a][b]
<1>1. \/ p = E[a][b]
      \/ /\ E[a][c] # dbm_LS_INFINITY /\ E[c][b] # dbm_LS_INFINITY
         /\ p = Sum(E[a][c], E[c][b])
  BY PassEntry
<1>2. \A x, y \in Clk : /\ F[x][y] \in Int /\ F[x][y] <= E[x][y] /\ E[x][y] \in Int
                        /\ E[x][y] <= dbm_LS_INFINITY
  BY WideEntry DEF NoLooser
<1> HIDE DEF p, Sum
<1>3. CASE p = E[a][b]
  BY <1>2, <1>3 DEF p
<1>4. CASE /\ E[a][c] # dbm_LS_INFINITY /\ E[c][b] # dbm_LS_INFINITY
           /\ p = Sum(E[a][c], E[c][b])
  <2> DEFINE ac == F[a][c]
             cb == F[c][b]
  <2>1. /\ ac \in Int /\ cb \in Int /\ ac <= E[a][c] /\ cb <= E[c][b]
        /\ E[a][c] \in Int /\ E[c][b] \in Int /\ F[a][b] \in Int
    BY <1>2
  <2>2. ac # dbm_LS_INFINITY /\ cb # dbm_LS_INFINITY
    BY <1>2, <1>4, Infinity
  <2>3. F[a][b] <= Sum(ac, cb)
    BY <2>2 DEF Closed, ShortcutVia, Sum
  <2> HIDE DEF ac, cb
  <2>4. Sum(ac, cb) <= Sum(E[a][c], E[c][b])
    BY <2>1, AddMonotone DEF Sum
  <2>5. Sum(ac, cb) \in Int /\ Sum(E[a][c], E[c][b]) \in Int
    BY <2>1, AddParts DEF Sum
  <2>6. F[a][b] <= p
    BY <1>4, <2>1, <2>3, <2>4, <2>5
  <2> QED
    BY <2>6 DEF p
<1> QED
  BY <1>1, <1>3, <1>4

\* The closing functions return the greatest closed matrix below the argument: where
\* there is a closed matrix below it, the argument is not empty.
LEMMA CloseViaGreatest ==
  ASSUME NEW D \in WideMatrix, NEW touched \in SUBSET Clk, NEW B \in Nat,
         (dim + 1) * B <= dbm_LE_OVERFLOW,
         Bounded(D, B), ZeroDiagonal(D),
         \A c \in Clk \ touched : ShortcutVia(D, c),
         NEW F \in WideMatrix, Closed(F), NoLooser(F, D)
  PROVE  LET E == CloseVia(D, touched)
         IN  /\ E \in WideMatrix /\ Closed(E) /\ Bounded(E, (dim + 1) * B)
             /\ NoLooser(E, D) /\ NoLooser(F, E) /\ E # Empty
<1> DEFINE P == {p \in WideMatrix \X Nat : NoLooser(F, p[1])}
<1>1. <<D, 0>> \in P
  OBVIOUS
<1>2. ASSUME NEW n \in Clk, NEW E \in WideMatrix,
             ClosedUpTo(E, n, D, touched, B), <<E, n>> \in P
      PROVE  IF ClosePass(E, n, touched) = Empty THEN FALSE
             ELSE <<ClosePass(E, n, touched), n + 1>> \in P
  <2> DEFINE G == PassVia(E, n)
  <2>1. ZeroDiagonal(E) /\ E # Empty /\ NoLooser(F, E) /\ n + 1 \in Nat
    BY <1>2, EmptyIsNegative, DimAssumption DEF ClosedUpTo, Clk
  <2>2. SumsFinite(E, n)
    <3> DEFINE S == {c \in touched : c < n}
    <3>1. S \in SUBSET Clk /\ Spread(E, S, RawsBelow(B))
      BY <1>2 DEF ClosedUpTo
    <3> HIDE DEF S
    <3>2. Bounded(E, (dim + 1) * B) /\ (dim + 1) * B \in Nat
      BY <3>1, BoundsOfSpread, DimAssumption
    <3> QED
      BY <3>2, SumsOfBounded
  <2>3. G \in WideMatrix /\ NoLooser(F, G)
    BY <2>1, <2>2, PassType, PassAbove
  <2> HIDE DEF G
  <2>4. ~dbm_isEmpty(G) /\ G # Empty
    <3>1. \A a \in Clk : F[a][a] = dbm_LE_ZERO /\ F[a][a] <= G[a][a] /\ G[a][a] \in Int
      BY <2>3, WideEntry DEF Closed, ZeroDiagonal, NoLooser
    <3>2. \A a \in Clk : ~(G[a][a] < dbm_LE_ZERO)
      BY <3>1, Infinity
    <3>3. 0 \in Clk /\ Empty[0][0] < dbm_LE_ZERO
      BY DimAssumption, Infinity DEF Clk, Empty
    <3> QED
      BY <3>2, <3>3 DEF dbm_isEmpty
  <2>5. ClosePass(E, n, touched) = IF n \notin touched THEN E ELSE G
    BY <2>1, <2>4 DEF ClosePass, G
  <2> QED
    BY <2>1, <2>3, <2>4, <2>5
<1> HIDE DEF P
<1>3. /\ ClosedUpTo(CloseVia(D, touched), dim, D, touched, B)
      /\ <<CloseVia(D, touched), dim>> \in P
  BY <1>1, <1>2, PassesKeep
<1>4. CloseVia(D, touched) # Empty
  BY <1>3, EmptyIsNegative DEF ClosedUpTo
<1> QED
  BY <1>3, <1>4, CloseViaCloses DEF P

-----------------------------------------------------------------------------
(* dbm_closeij. *)

\* E is D where every path may go through an edge from b to a that weighs v.
ThroughEdge(E, D, b, a, v) ==
  \A i, j \in Clk :
    /\ E[i][j] \in Int /\ E[i][j] <= D[i][j]
    /\ D[i][b] # dbm_LS_INFINITY /\ D[a][j] # dbm_LS_INFINITY
         => /\ E[i][j] # dbm_LS_INFINITY
            /\ E[i][j] <= dbm_addFiniteFinite(dbm_addFiniteFinite(D[i][b], v), D[a][j])
    /\ \/ E[i][j] = D[i][j]
       \/ /\ D[i][b] # dbm_LS_INFINITY /\ D[a][j] # dbm_LS_INFINITY
          /\ E[i][j] = dbm_addFiniteFinite(dbm_addFiniteFinite(D[i][b], v), D[a][j])

\* The cycle of a new bound and the opposite one, which TooTight tests.
LEMMA NotTooTight ==
  ASSUME NEW D, NEW b, NEW a, D[b][a] \in Int, D[a][b] \in Int, ~TooTight(D, b, a)
  PROVE  dbm_LE_ZERO <= dbm_addFiniteFinite(D[b][a], D[a][b])
BY Infinity DEF TooTight, dbm_negRaw, dbm_addFiniteFinite

\* Sums of two and of three bounded raws do not reach infinity.
LEMMA ThreeSums ==
  ASSUME NEW x \in Int, NEW y \in Int, NEW z \in Int, NEW B \in Nat,
         3 * B <= dbm_LE_OVERFLOW,
         -B < x, x < B, -B < y, y < B, -B < z, z < B
  PROVE  LET s == dbm_addFiniteFinite(x, y)
             t == dbm_addFiniteFinite(s, z)
         IN  /\ s \in Int /\ t \in Int
             /\ s < dbm_LS_INFINITY /\ t < dbm_LS_INFINITY
             /\ -(2 * B) < s /\ s < 2 * B
             /\ -(3 * B) < t /\ t < 3 * B
<1> DEFINE s == dbm_addFiniteFinite(x, y)
           t == dbm_addFiniteFinite(s, z)
<1>1. s \in Int /\ x + y - 1 <= s /\ s <= x + y
  BY DEF dbm_addFiniteFinite
<1> HIDE DEF s
<1>2. t \in Int /\ s + z - 1 <= t /\ t <= s + z
  BY <1>1 DEF dbm_addFiniteFinite
<1> HIDE DEF t
<1>3. -(2 * B) < s /\ s < 2 * B /\ -(3 * B) < t /\ t < 3 * B
  BY <1>1, <1>2
<1>4. s < dbm_LS_INFINITY /\ t < dbm_LS_INFINITY
  BY <1>1, <1>2, <1>3, Infinity
<1> QED
  BY <1>1, <1>2, <1>3, <1>4 DEF s, t

\* With the edge, a closed matrix stays closed: no path takes the edge twice.
LEMMA ThroughEdgeCloses ==
  ASSUME NEW D \in WideMatrix, NEW E, NEW b \in Clk, NEW a \in Clk, NEW v \in Int,
         Closed(D), ThroughEdge(E, D, b, a, v),
         D[a][b] # dbm_LS_INFINITY => dbm_LE_ZERO <= dbm_addFiniteFinite(v, D[a][b])
  PROVE  Closed(E)
<1> DEFINE Sum(x, y) == dbm_addFiniteFinite(x, y)
<1>1. \A x, y \in Clk : D[x][y] \in Int /\ D[x][y] <= dbm_LS_INFINITY
  BY WideEntry
<1>2. \A x, y \in Clk :
        /\ E[x][y] \in Int /\ E[x][y] <= D[x][y]
        /\ D[x][b] # dbm_LS_INFINITY /\ D[a][y] # dbm_LS_INFINITY
             => /\ E[x][y] # dbm_LS_INFINITY
                /\ E[x][y] <= Sum(Sum(D[x][b], v), D[a][y])
        /\ \/ E[x][y] = D[x][y]
           \/ /\ D[x][b] # dbm_LS_INFINITY /\ D[a][y] # dbm_LS_INFINITY
              /\ E[x][y] = Sum(Sum(D[x][b], v), D[a][y])
  BY DEF ThroughEdge
<1>3. \A x, y, z \in Clk :
        D[x][z] # dbm_LS_INFINITY /\ D[z][y] # dbm_LS_INFINITY
          => D[x][y] # dbm_LS_INFINITY /\ D[x][y] <= Sum(D[x][z], D[z][y])
  BY DEF Closed, ShortcutVia
<1>4. \A x, y \in Int : Sum(x, y) \in Int
  BY AddParts
<1>5. \A x \in Clk : D[x][x] = dbm_LE_ZERO
  BY DEF Closed, ZeroDiagonal
<1>6. \A x, y, z \in Int : Sum(Sum(x, y), z) = Sum(x, Sum(y, z))
  BY AddAssociative
<1>7. \A x, y, z \in Int :
        x <= y => Sum(x, z) <= Sum(y, z) /\ Sum(z, x) <= Sum(z, y)
  BY DEF Sum, dbm_addFiniteFinite, dbm_rawIsWeak
<1>8. \A x \in Int : Sum(dbm_LE_ZERO, x) = x /\ Sum(x, dbm_LE_ZERO) = x
  BY AddZero DEF Sum
<1>12. \A x, y, z, w, u \in Int :
         Sum(Sum(x, y), Sum(Sum(z, w), u)) = Sum(x, Sum(Sum(Sum(y, z), w), u))
  BY AddFive
<1>9. D[a][b] # dbm_LS_INFINITY => dbm_LE_ZERO <= Sum(v, D[a][b])
  OBVIOUS
<1> HIDE DEF Sum
<1>10. ZeroDiagonal(E)
  <2> SUFFICES ASSUME NEW c \in Clk PROVE E[c][c] = dbm_LE_ZERO
    BY DEF ZeroDiagonal
  <2>1. CASE E[c][c] = D[c][c]
    BY <1>5, <2>1
  <2>2. CASE /\ D[c][b] # dbm_LS_INFINITY /\ D[a][c] # dbm_LS_INFINITY
             /\ E[c][c] = Sum(Sum(D[c][b], v), D[a][c])
    <3> DEFINE cb == D[c][b]
               ac == D[a][c]
               ab == D[a][b]
    <3>1. cb \in Int /\ ac \in Int /\ ab \in Int /\ dbm_LE_ZERO \in Int
      BY <1>1, Infinity
    <3>2. ab # dbm_LS_INFINITY /\ ab <= Sum(ac, cb)
      BY <1>3, <2>2
    <3>3. dbm_LE_ZERO <= Sum(v, ab)
      BY <1>9, <3>2
    <3> HIDE DEF cb, ac, ab
    <3>4. Sum(v, ab) <= Sum(v, Sum(ac, cb))
      BY <1>4, <1>7, <3>1, <3>2
    <3>5. Sum(v, Sum(ac, cb)) = Sum(Sum(cb, v), ac)
      BY <3>1 DEF Sum, dbm_addFiniteFinite, dbm_rawIsWeak
    <3>6. dbm_LE_ZERO <= Sum(Sum(cb, v), ac)
      <4>1. Sum(v, ab) \in Int /\ Sum(ac, cb) \in Int
        BY <1>4, <3>1
      <4>2. Sum(v, Sum(ac, cb)) \in Int
        BY <1>4, <4>1
      <4> QED
        BY <3>1, <3>3, <3>4, <3>5, <4>1, <4>2
    <3>7. E[c][c] = Sum(Sum(cb, v), ac) /\ E[c][c] <= dbm_LE_ZERO /\ E[c][c] \in Int
      BY <1>2, <1>5, <2>2 DEF cb, ac
    <3> QED
      BY <3>1, <3>6, <3>7
  <2> QED
    BY <1>2, <2>1, <2>2
<1>11. ASSUME NEW c \in Clk PROVE ShortcutVia(E, c)
  <2> SUFFICES ASSUME NEW x \in Clk, NEW y \in Clk,
                      E[x][c] # dbm_LS_INFINITY, E[c][y] # dbm_LS_INFINITY
               PROVE  E[x][y] # dbm_LS_INFINITY /\ E[x][y] <= Sum(E[x][c], E[c][y])
    BY DEF ShortcutVia, Sum
  <2> DEFINE Edge(p, q) == /\ D[p][b] # dbm_LS_INFINITY /\ D[a][q] # dbm_LS_INFINITY
                           /\ E[p][q] = Sum(Sum(D[p][b], v), D[a][q])
  <2>0. /\ D[x][y] \in Int /\ D[x][c] \in Int /\ D[c][y] \in Int /\ E[x][y] \in Int
        /\ D[x][b] \in Int /\ D[c][b] \in Int /\ D[a][c] \in Int /\ D[a][y] \in Int
        /\ D[a][b] \in Int /\ dbm_LS_INFINITY \in Int
        /\ E[x][y] <= D[x][y] /\ D[x][y] <= dbm_LS_INFINITY
    BY <1>1, <1>2, Infinity
  <2>1. CASE E[x][c] = D[x][c] /\ E[c][y] = D[c][y]
    <3>1. D[x][y] # dbm_LS_INFINITY /\ D[x][y] <= Sum(D[x][c], D[c][y])
      BY <1>3, <2>1
    <3>2. Sum(D[x][c], D[c][y]) \in Int
      BY <1>4, <2>0
    <3> QED
      BY <2>0, <2>1, <3>1, <3>2
  <2>2. CASE E[x][c] = D[x][c] /\ Edge(c, y)
    <3>1. D[x][b] # dbm_LS_INFINITY /\ D[x][b] <= Sum(D[x][c], D[c][b])
      BY <1>3, <2>2
    <3>2. E[x][y] # dbm_LS_INFINITY /\ E[x][y] <= Sum(Sum(D[x][b], v), D[a][y])
      BY <1>2, <2>2, <3>1
    <3>3. Sum(D[x][b], Sum(v, D[a][y])) <= Sum(Sum(D[x][c], D[c][b]), Sum(v, D[a][y]))
      BY <1>4, <1>7, <2>0, <3>1
    <3>4. /\ Sum(Sum(D[x][b], v), D[a][y]) = Sum(D[x][b], Sum(v, D[a][y]))
          /\ Sum(Sum(D[x][c], D[c][b]), Sum(v, D[a][y]))
               = Sum(D[x][c], Sum(Sum(D[c][b], v), D[a][y]))
      BY <2>0, AddAssociative, AddFour DEF Sum
    <3>5. /\ Sum(Sum(D[x][b], v), D[a][y]) \in Int
          /\ Sum(D[x][c], Sum(Sum(D[c][b], v), D[a][y])) \in Int
      BY <1>4, <2>0
    <3> QED
      BY <2>0, <2>2, <3>2, <3>3, <3>4, <3>5
  <2>3. CASE Edge(x, c) /\ E[c][y] = D[c][y]
    <3>1. D[a][y] # dbm_LS_INFINITY /\ D[a][y] <= Sum(D[a][c], D[c][y])
      BY <1>3, <2>3
    <3>2. E[x][y] # dbm_LS_INFINITY /\ E[x][y] <= Sum(Sum(D[x][b], v), D[a][y])
      BY <1>2, <2>3, <3>1
    <3>3. Sum(Sum(D[x][b], v), D[a][y])
            <= Sum(Sum(D[x][b], v), Sum(D[a][c], D[c][y]))
      BY <1>4, <1>7, <2>0, <3>1
    <3>4. Sum(Sum(D[x][b], v), Sum(D[a][c], D[c][y]))
            = Sum(Sum(Sum(D[x][b], v), D[a][c]), D[c][y])
      BY <2>0, AddFour DEF Sum
    <3>5. /\ Sum(Sum(D[x][b], v), D[a][y]) \in Int
          /\ Sum(Sum(Sum(D[x][b], v), D[a][c]), D[c][y]) \in Int
      BY <1>4, <2>0
    <3> QED
      BY <2>0, <2>3, <3>2, <3>3, <3>4, <3>5
  <2>4. CASE Edge(x, c) /\ Edge(c, y)
    <3> DEFINE p == Sum(D[x][b], v)
               q == Sum(D[a][c], D[c][b])
    <3>1. D[a][b] # dbm_LS_INFINITY /\ D[a][b] <= q
      BY <1>3, <2>4
    <3>2. E[x][y] # dbm_LS_INFINITY /\ E[x][y] <= Sum(p, D[a][y])
      BY <1>2, <2>4
    <3>3. p \in Int /\ q \in Int /\ Sum(v, D[a][b]) \in Int /\ Sum(v, q) \in Int
          /\ dbm_LE_ZERO \in Int
      BY <1>4, <2>0, Infinity
    <3>4. E[x][c] = Sum(p, D[a][c]) /\ E[c][y] = Sum(Sum(D[c][b], v), D[a][y])
      BY <2>4
    <3>10. q = Sum(D[a][c], D[c][b])
      OBVIOUS
    <3> HIDE DEF p, q
    <3>5. Sum(Sum(p, D[a][c]), Sum(Sum(D[c][b], v), D[a][y]))
            = Sum(p, Sum(Sum(q, v), D[a][y]))
      <4> DEFINE r == D[a][c]
                 s == D[c][b]
                 u == D[a][y]
      <4>1. p \in Int /\ r \in Int /\ s \in Int /\ u \in Int /\ v \in Int /\ q = Sum(r, s)
        BY <2>0, <3>3, <3>10
      <4> HIDE DEF r, s, u
      <4>2. Sum(Sum(p, r), Sum(Sum(s, v), u)) = Sum(p, Sum(Sum(Sum(r, s), v), u))
        BY <1>12, <4>1
      <4> QED
        BY <4>1, <4>2 DEF r, s, u
    <3>6. dbm_LE_ZERO <= Sum(q, v)
      <4>1. Sum(v, D[a][b]) <= Sum(v, q)
        BY <1>7, <2>0, <3>1, <3>3
      <4>2. Sum(v, q) = Sum(q, v)
        BY <3>3 DEF Sum, dbm_addFiniteFinite
      <4> QED
        BY <1>9, <3>1, <3>3, <4>1, <4>2
    <3>7. D[a][y] <= Sum(Sum(q, v), D[a][y])
      <4>1. Sum(q, v) \in Int
        BY <1>4, <3>3
      <4>2. Sum(dbm_LE_ZERO, D[a][y]) <= Sum(Sum(q, v), D[a][y])
        BY <1>7, <2>0, <3>3, <3>6, <4>1
      <4> QED
        BY <1>8, <2>0, <4>2
    <3>8. Sum(p, D[a][y]) <= Sum(p, Sum(Sum(q, v), D[a][y]))
      BY <1>4, <1>7, <2>0, <3>3, <3>7
    <3>9. Sum(p, D[a][y]) \in Int /\ Sum(p, Sum(Sum(q, v), D[a][y])) \in Int
      BY <1>4, <2>0, <3>3
    <3> QED
      BY <2>0, <3>2, <3>4, <3>5, <3>8, <3>9
  <2> QED
    BY <1>2, <2>1, <2>2, <2>3, <2>4
<1> QED
  BY <1>10, <1>11 DEF Closed

\* The points of E are those of D that satisfy the edge.
LEMMA ThroughEdgePoints ==
  ASSUME NEW D \in WideMatrix, NEW E, NEW b \in Clk, NEW a \in Clk, NEW v \in Int,
         NEW B \in Nat, 3 * B <= dbm_LE_OVERFLOW, Bounded(D, B), -B < v, v < B,
         ZeroDiagonal(D), ThroughEdge(E, D, b, a, v),
         NEW pt \in [Clk -> Int], NEW g \in Nat \ {0}
  PROVE  dbm_isRealPointIncluded(pt, E, g)
           <=> dbm_isRealPointIncluded(pt, D, g) /\ Within(pt[b] - pt[a], v, g)
<1> DEFINE Sum(x, y) == dbm_addFiniteFinite(x, y)
<1>1. \A x, y \in Clk : D[x][y] \in Int /\ D[x][y] <= dbm_LS_INFINITY
  BY WideEntry
<1>2. \A x, y \in Clk : pt[x] - pt[y] \in Int
  OBVIOUS
<1>3. \A x, y \in Clk : E[x][y] \in Int /\ E[x][y] <= D[x][y]
  BY DEF ThroughEdge
<1>4. ASSUME dbm_isRealPointIncluded(pt, E, g)
      PROVE  dbm_isRealPointIncluded(pt, D, g) /\ Within(pt[b] - pt[a], v, g)
  <2>1. dbm_isRealPointIncluded(pt, D, g)
    BY <1>1, <1>2, <1>3, <1>4, WithinMonotone DEF dbm_isRealPointIncluded
  <2>2. E[b][a] <= v
    <3>1. D[b][b] = dbm_LE_ZERO /\ D[a][a] = dbm_LE_ZERO /\ dbm_LE_ZERO # dbm_LS_INFINITY
      BY Infinity DEF ZeroDiagonal
    <3>2. E[b][a] <= Sum(Sum(dbm_LE_ZERO, v), dbm_LE_ZERO)
      BY <3>1 DEF ThroughEdge
    <3> QED
      BY <3>2, AddZero
  <2>3. Within(pt[b] - pt[a], E[b][a], g)
    BY <1>4 DEF dbm_isRealPointIncluded
  <2> QED
    BY <1>2, <1>3, <2>1, <2>2, <2>3, WithinMonotone
<1>5. ASSUME dbm_isRealPointIncluded(pt, D, g), Within(pt[b] - pt[a], v, g)
      PROVE  dbm_isRealPointIncluded(pt, E, g)
  <2> SUFFICES ASSUME NEW x \in Clk, NEW y \in Clk
               PROVE  Within(pt[x] - pt[y], E[x][y], g)
    BY DEF dbm_isRealPointIncluded
  <2>1. CASE E[x][y] = D[x][y]
    BY <1>5, <2>1 DEF dbm_isRealPointIncluded
  <2>2. CASE /\ D[x][b] # dbm_LS_INFINITY /\ D[a][y] # dbm_LS_INFINITY
             /\ E[x][y] = Sum(Sum(D[x][b], v), D[a][y])
             /\ E[x][y] # D[x][y]
    <3> DEFINE s == Sum(D[x][b], v)
               d == pt[x] - pt[a]
               e == pt[a] - pt[y]
    <3>1. /\ Within(pt[x] - pt[b], D[x][b], g) /\ Within(e, D[a][y], g)
      BY <1>5 DEF dbm_isRealPointIncluded
    <3>2. /\ D[x][b] \in Int /\ D[x][b] < dbm_LS_INFINITY
          /\ D[a][y] \in Int /\ D[a][y] < dbm_LS_INFINITY
      BY <1>1, <2>2, Infinity
    <3>3. s \in Int
      BY <3>2, AddParts
    <3>8. s < dbm_LS_INFINITY
      <4>1. -B < D[x][b] /\ D[x][b] < B /\ -B < 0 /\ 0 < B
        BY <2>2 DEF Bounded
      <4> QED
        BY <3>2, <4>1, ThreeSums
    <3>10. v < dbm_LS_INFINITY
      BY Infinity
    <3>4. Within((pt[x] - pt[b]) + (pt[b] - pt[a]), s, g)
      BY <1>2, <1>5, <3>1, <3>2, <3>10, WithinAdd
    <3>5. (pt[x] - pt[b]) + (pt[b] - pt[a]) = d /\ d \in Int /\ e \in Int
          /\ d + e = pt[x] - pt[y]
      OBVIOUS
    <3>6. E[x][y] = Sum(s, D[a][y])
      BY <2>2
    <3> HIDE DEF s, d, e
    <3>7. Within(d, s, g)
      BY <3>4, <3>5
    <3>9. Within(d + e, Sum(s, D[a][y]), g)
      BY <3>1, <3>2, <3>3, <3>5, <3>7, <3>8, WithinAdd
    <3> QED
      BY <3>5, <3>6, <3>9
  <2> QED
    BY <2>1, <2>2 DEF ThroughEdge
<1> QED
  BY <1>4, <1>5

\* Tightening one edge at most triples the constants.
LEMMA ThroughEdgeBounds ==
  ASSUME NEW D \in WideMatrix, NEW E, NEW b \in Clk, NEW a \in Clk, NEW v \in Int,
         NEW B \in Nat, 3 * B <= dbm_LE_OVERFLOW, Bounded(D, B), -B < v, v < B,
         ThroughEdge(E, D, b, a, v)
  PROVE  Bounded(E, 3 * B)
<1> SUFFICES ASSUME NEW x \in Clk, NEW y \in Clk, E[x][y] # dbm_LS_INFINITY
             PROVE  -(3 * B) < E[x][y] /\ E[x][y] < 3 * B
  BY DEF Bounded
<1>1. CASE E[x][y] = D[x][y]
  <2>1. D[x][y] \in Int /\ -B < D[x][y] /\ D[x][y] < B
    BY <1>1, WideEntry DEF Bounded
  <2> QED
    BY <1>1, <2>1
<1>2. CASE /\ D[x][b] # dbm_LS_INFINITY /\ D[a][y] # dbm_LS_INFINITY
           /\ E[x][y] = dbm_addFiniteFinite(dbm_addFiniteFinite(D[x][b], v), D[a][y])
  <2>1. /\ D[x][b] \in Int /\ -B < D[x][b] /\ D[x][b] < B
        /\ D[a][y] \in Int /\ -B < D[a][y] /\ D[a][y] < B
    BY <1>2, WideEntry DEF Bounded
  <2> QED
    BY <1>2, <2>1, ThreeSums
<1> QED
  BY <1>1, <1>2 DEF ThroughEdge

\* dbm_closeij lets every path through the tightened bound, and nothing else.
LEMMA CloseijIsThroughEdge ==
  ASSUME NEW D \in WideMatrix, NEW b \in Clk, NEW a \in Clk, b # a, NEW v \in Int,
         NEW B \in Nat, 3 * B <= dbm_LE_OVERFLOW, Bounded(D, B), -B < v, v < B,
         Closed(D), v < D[b][a],
         D[a][b] # dbm_LS_INFINITY => dbm_LE_ZERO <= dbm_addFiniteFinite(v, D[a][b])
  PROVE  LET E == dbm_closeij([D EXCEPT ![b][a] = v], b, a)
         IN  ThroughEdge(E, D, b, a, v) /\ E \in [Clk -> [Clk -> Int]]
<1> DEFINE Sum(x, y) == dbm_addFiniteFinite(x, y)
           T == [D EXCEPT ![b][a] = v]
           E == dbm_closeij(T, b, a)
           IsThrough(e, x, y) ==
             /\ e \in Int /\ e <= D[x][y]
             /\ D[x][b] # dbm_LS_INFINITY /\ D[a][y] # dbm_LS_INFINITY
                  => e # dbm_LS_INFINITY /\ e <= Sum(Sum(D[x][b], v), D[a][y])
             /\ \/ e = D[x][y]
                \/ /\ D[x][b] # dbm_LS_INFINITY /\ D[a][y] # dbm_LS_INFINITY
                   /\ e = Sum(Sum(D[x][b], v), D[a][y])
<1>1. \A x, y \in Clk : D[x][y] \in Int /\ D[x][y] <= dbm_LS_INFINITY
  BY WideEntry
<1>2. \A x, y, z \in Clk :
        D[x][z] # dbm_LS_INFINITY /\ D[z][y] # dbm_LS_INFINITY
          => D[x][y] # dbm_LS_INFINITY /\ D[x][y] <= Sum(D[x][z], D[z][y])
  BY DEF Closed, ShortcutVia
<1>3. \A x \in Clk : D[x][x] = dbm_LE_ZERO
  BY DEF Closed, ZeroDiagonal
<1>4. \A x, y \in Int : Sum(x, y) \in Int
  BY AddParts
<1>5. \A x, y, z \in Int :
        x <= y => Sum(x, z) <= Sum(y, z) /\ Sum(z, x) <= Sum(z, y)
  BY DEF Sum, dbm_addFiniteFinite, dbm_rawIsWeak
<1>6. \A x \in Int : Sum(dbm_LE_ZERO, x) = x /\ Sum(x, dbm_LE_ZERO) = x
  BY AddZero DEF Sum
<1>7. D[a][b] # dbm_LS_INFINITY => dbm_LE_ZERO <= Sum(v, D[a][b])
  OBVIOUS
<1>8. \A x, y \in Clk :
        /\ D[x][b] # dbm_LS_INFINITY => Sum(D[x][b], v) < dbm_LS_INFINITY
        /\ D[a][y] # dbm_LS_INFINITY => Sum(v, D[a][y]) < dbm_LS_INFINITY
        /\ D[x][b] # dbm_LS_INFINITY /\ D[a][y] # dbm_LS_INFINITY
             => Sum(Sum(D[x][b], v), D[a][y]) < dbm_LS_INFINITY
  <2> TAKE x, y \in Clk
  <2>1. D[x][b] # dbm_LS_INFINITY =>
          D[x][b] \in Int /\ -B < D[x][b] /\ D[x][b] < B /\ -B < 0 /\ 0 < B
    BY <1>1 DEF Bounded
  <2>2. D[a][y] # dbm_LS_INFINITY =>
          D[a][y] \in Int /\ -B < D[a][y] /\ D[a][y] < B /\ -B < 0 /\ 0 < B
    BY <1>1 DEF Bounded
  <2> QED
    BY <2>1, <2>2, ThreeSums
<1>9. T[b][a] = v /\ \A x, y \in Clk : x # b \/ y # a => T[x][y] = D[x][y]
  BY DEF WideMatrix
<1>10. T \in [Clk -> [Clk -> Int]]
  BY Infinity DEF WideMatrix
<1>11. D[a][a] = dbm_LE_ZERO /\ D[b][b] = dbm_LE_ZERO /\ dbm_LE_ZERO \in Int
       /\ dbm_LS_INFINITY \in Int /\ dbm_LE_ZERO < dbm_LS_INFINITY /\ v < dbm_LS_INFINITY
  BY <1>3, Infinity
<1> HIDE DEF T, Sum
<1>12. CASE dim <= 2
  <2>1. E = T
    BY <1>12 DEF dbm_closeij
  <2>2. Clk \subseteq {a, b}
    BY <1>12, DimAssumption DEF Clk
  <2>3. ASSUME NEW x \in Clk, NEW y \in Clk PROVE IsThrough(T[x][y], x, y)
    <3>1. CASE x = b /\ y = a
      <4>1. T[x][y] = v /\ Sum(Sum(D[x][b], v), D[a][y]) = v
        BY <1>6, <1>9, <1>11, <3>1
      <4> QED
        BY <1>1, <1>11, <3>1, <4>1
    <3>2. CASE x = b /\ y = b
      <4>1. T[x][y] = dbm_LE_ZERO
        BY <1>9, <1>11, <3>2
      <4>2. Sum(Sum(D[x][b], v), D[a][y]) = Sum(v, D[a][b])
        BY <1>6, <1>11, <3>2
      <4> QED
        BY <1>7, <1>11, <3>2, <4>1, <4>2
    <3>3. CASE x = a /\ y = a
      <4>1. T[x][y] = dbm_LE_ZERO
        BY <1>9, <1>11, <3>3
      <4>2. Sum(Sum(D[x][b], v), D[a][y]) = Sum(D[a][b], v)
        BY <1>1, <1>4, <1>6, <1>11, <3>3
      <4>3. Sum(D[a][b], v) = Sum(v, D[a][b])
        BY <1>1 DEF Sum, dbm_addFiniteFinite
      <4> QED
        BY <1>7, <1>11, <3>3, <4>1, <4>2, <4>3
    <3>4. CASE x = a /\ y = b
      <4> DEFINE u == D[a][b]
      <4>1. T[x][y] = u /\ u \in Int
        BY <1>1, <1>9, <3>4
      <4>2. CASE u # dbm_LS_INFINITY
        <5>1. dbm_LE_ZERO <= Sum(v, u)
          BY <1>7, <4>2
        <5>3. Sum(v, u) = Sum(u, v)
          BY <4>1 DEF Sum, dbm_addFiniteFinite
        <5> HIDE DEF u
        <5>2. Sum(dbm_LE_ZERO, u) <= Sum(Sum(u, v), u)
          BY <1>4, <1>5, <1>11, <4>1, <5>1, <5>3
        <5>4. u <= Sum(Sum(u, v), u)
          BY <1>6, <4>1, <5>2
        <5> QED
          BY <3>4, <4>1, <4>2, <5>4 DEF u
      <4>3. CASE u = dbm_LS_INFINITY
        BY <1>11, <3>4, <4>1, <4>3
      <4> QED
        BY <4>2, <4>3
    <3> QED
      BY <2>2, <3>1, <3>2, <3>3, <3>4
  <2>4. ThroughEdge(E, D, b, a, v)
    BY <2>1, <2>3 DEF ThroughEdge, Sum
  <2> QED
    BY <1>10, <2>1, <2>4 DEF T
<1>13. CASE ~(dim <= 2)
  <2> DEFINE R == [T EXCEPT ![b] = RowVia(T, b, a)]
             ia(x) == dbm_addRawRaw(R[x][b], T[b][a])
  <2>1. E = [x \in Clk |->
               IF ia(x) < R[x][a]
               THEN [y \in Clk |-> RawMin(R[x][y], dbm_addRawRaw(ia(x), R[a][y]))]
               ELSE R[x]]
    BY <1>13 DEF dbm_closeij
  <2>2. \A x \in Clk \ {b} : \A y \in Clk : R[x][y] = D[x][y]
    BY <1>9, <1>10
  <2>3. \A y \in Clk : R[b][y] = RawMin(T[b][y], dbm_addRawRaw(v, D[a][y]))
    BY <1>9, <1>10 DEF RowVia
  <2>4. R \in [Clk -> [Clk -> Int]]
    <3>1. ASSUME NEW y \in Clk PROVE RowVia(T, b, a)[y] \in Int
      <4>1. T[b][y] \in Int /\ T[b][a] \in Int /\ T[a][y] \in Int
        BY <1>10
      <4>2. dbm_addRawRaw(T[b][a], T[a][y]) \in Int
        BY <1>4, <1>11, <4>1 DEF dbm_addRawRaw, Sum
      <4> QED
        BY <4>1, <4>2 DEF RowVia, RawMin
    <3>2. RowVia(T, b, a) \in [Clk -> Int]
      BY <3>1 DEF RowVia
    <3> QED
      BY <1>10, <3>2
  <2> HIDE DEF R
  <2>5. ASSUME NEW y \in Clk PROVE IsThrough(R[b][y], b, y)
    <3>1. Sum(Sum(D[b][b], v), D[a][y]) = Sum(v, D[a][y])
      BY <1>6, <1>11
    <3>2. CASE y = a
      <4>1. D[a][y] = dbm_LE_ZERO /\ T[b][y] = v /\ Sum(v, D[a][y]) = v
        BY <1>6, <1>9, <1>11, <3>2
      <4>2. dbm_addRawRaw(v, D[a][y]) = v
        BY <1>11, <4>1 DEF dbm_addRawRaw, Sum
      <4>3. R[b][y] = v
        BY <2>3, <4>1, <4>2 DEF RawMin
      <4> QED
        BY <1>1, <1>11, <3>1, <3>2, <4>1, <4>3
    <3>3. CASE y # a
      <4>1. T[b][y] = D[b][y]
        BY <1>9, <3>3
      <4>2. CASE D[a][y] = dbm_LS_INFINITY
        <5>1. R[b][y] = RawMin(D[b][y], dbm_LS_INFINITY)
          BY <2>3, <4>1, <4>2 DEF dbm_addRawRaw
        <5> QED
          BY <1>1, <1>11, <4>2, <5>1 DEF RawMin
      <4>3. CASE D[a][y] # dbm_LS_INFINITY
        <5> DEFINE s == Sum(v, D[a][y])
        <5>1. R[b][y] = RawMin(D[b][y], s)
          BY <1>11, <2>3, <4>1, <4>3 DEF dbm_addRawRaw, Sum
        <5>2. s \in Int /\ s < dbm_LS_INFINITY /\ D[b][y] \in Int
          BY <1>1, <1>4, <1>8, <4>3
        <5> HIDE DEF s
        <5> QED
          BY <1>11, <3>1, <4>3, <5>1, <5>2 DEF RawMin, s
      <4> QED
        BY <4>2, <4>3
    <3> QED
      BY <3>2, <3>3
  <2>6. ASSUME NEW y \in Clk PROVE E[b][y] = R[b][y]
    <3>1. R[b][a] = v
      <4>1. Sum(Sum(D[b][b], v), D[a][a]) = v
        BY <1>6, <1>11
      <4>2. T[b][a] = v /\ dbm_addRawRaw(v, D[a][a]) = v
        BY <1>6, <1>9, <1>11 DEF dbm_addRawRaw, Sum
      <4> QED
        BY <2>3, <4>2 DEF RawMin
    <3>2. R[b][b] = dbm_LE_ZERO
      <4>1. Sum(Sum(D[b][b], v), D[a][b]) = Sum(v, D[a][b])
        BY <1>6, <1>11
      <4>2. IsThrough(R[b][b], b, b)
        BY <2>5
      <4> QED
        BY <1>7, <1>11, <4>1, <4>2
    <3>3. ia(b) = v
      BY <1>6, <1>9, <1>11, <3>2 DEF dbm_addRawRaw, Sum
    <3> QED
      BY <2>1, <3>1, <3>3
  <2>7. ASSUME NEW x \in Clk, x # b, NEW y \in Clk PROVE IsThrough(E[x][y], x, y)
    <3>1. R[x][y] = D[x][y] /\ R[x][a] = D[x][a] /\ R[x][b] = D[x][b] /\ R[a][y] = D[a][y]
      BY <2>2, <2>7
    <3>2. ia(x) = dbm_addRawRaw(D[x][b], v)
      BY <1>9, <3>1
    <3>3. E[x][y] = IF ia(x) < R[x][a]
                    THEN RawMin(R[x][y], dbm_addRawRaw(ia(x), R[a][y])) ELSE R[x][y]
      BY <2>1
    <3>4. /\ D[x][y] \in Int /\ D[x][a] \in Int /\ D[x][b] \in Int /\ D[a][y] \in Int
          /\ D[x][a] <= dbm_LS_INFINITY /\ D[x][y] <= dbm_LS_INFINITY
      BY <1>1
    <3>5. CASE D[x][b] = dbm_LS_INFINITY
      <4>1. ia(x) = dbm_LS_INFINITY
        BY <3>2, <3>5 DEF dbm_addRawRaw
      <4>2. E[x][y] = D[x][y]
        BY <1>11, <3>1, <3>3, <3>4, <4>1
      <4> QED
        BY <3>4, <3>5, <4>2
    <3>6. CASE D[x][b] # dbm_LS_INFINITY
      <4> DEFINE s == Sum(D[x][b], v)
                 t == Sum(s, D[a][y])
      <4>1. ia(x) = s
        BY <1>11, <3>2, <3>6 DEF dbm_addRawRaw, Sum
      <4>2. s \in Int /\ s < dbm_LS_INFINITY /\ t \in Int
            /\ (D[a][y] # dbm_LS_INFINITY => t < dbm_LS_INFINITY)
        BY <1>4, <1>8, <3>4, <3>6
      <4>3. CASE s < D[x][a]
        <5>1. E[x][y] = RawMin(D[x][y], dbm_addRawRaw(s, D[a][y]))
          BY <3>1, <3>3, <4>1, <4>3
        <5>2. CASE D[a][y] = dbm_LS_INFINITY
          <6>1. E[x][y] = D[x][y]
            BY <1>11, <3>4, <5>1, <5>2 DEF dbm_addRawRaw, RawMin
          <6> QED
            BY <3>4, <5>2, <6>1
        <5>3. CASE D[a][y] # dbm_LS_INFINITY
          <6>1. dbm_addRawRaw(s, D[a][y]) = t
            BY <1>11, <4>2, <5>3 DEF dbm_addRawRaw, Sum
          <6>2. t = Sum(Sum(D[x][b], v), D[a][y])
            OBVIOUS
          <6> HIDE DEF s, t
          <6>3. E[x][y] = IF D[x][y] < t THEN D[x][y] ELSE t
            BY <5>1, <6>1 DEF RawMin
          <6> QED
            BY <1>11, <3>4, <3>6, <4>2, <5>3, <6>2, <6>3
        <5> QED
          BY <5>2, <5>3
      <4>4. CASE ~(s < D[x][a])
        <5>1. E[x][y] = D[x][y]
          BY <3>1, <3>3, <4>1, <4>4
        <5>2. ASSUME D[a][y] # dbm_LS_INFINITY
              PROVE  D[x][y] # dbm_LS_INFINITY /\ D[x][y] <= t
          <6>1. D[x][a] # dbm_LS_INFINITY /\ D[x][a] <= s
            BY <1>11, <3>4, <4>2, <4>4
          <6>2. D[x][y] # dbm_LS_INFINITY /\ D[x][y] <= Sum(D[x][a], D[a][y])
            BY <1>2, <5>2, <6>1
          <6>3. Sum(D[x][a], D[a][y]) <= t /\ Sum(D[x][a], D[a][y]) \in Int
            BY <1>4, <1>5, <3>4, <4>2, <6>1
          <6> HIDE DEF t
          <6> QED
            BY <3>4, <4>2, <6>2, <6>3
        <5> QED
          BY <3>4, <3>6, <5>1, <5>2
      <4> QED
        BY <4>3, <4>4
    <3> QED
      BY <3>5, <3>6
  <2>8. ASSUME NEW x \in Clk, NEW y \in Clk PROVE IsThrough(E[x][y], x, y)
    BY <2>5, <2>6, <2>7
  <2>9. ThroughEdge(E, D, b, a, v)
    BY <2>8 DEF ThroughEdge, Sum
  <2>10. E \in [Clk -> [Clk -> Int]]
    <3>1. \A x, y \in Clk : E[x][y] \in Int
      BY <2>8
    <3>2. E = [x \in Clk |-> [y \in Clk |-> E[x][y]]]
      BY <2>1, <2>4
    <3> HIDE DEF E
    <3> QED
      BY <3>1, <3>2
  <2> QED
    BY <2>9, <2>10 DEF T
<1> QED
  BY <1>12, <1>13
-----------------------------------------------------------------------------
(* Tightening. *)

\* E is the zone of the points of T: no zone, or a closed matrix below B.
ClosureOf(E, T, B) == SamePoints(T, E) /\ (E = Empty \/ IsZone(E, B))

\* The bound on a zone may be loosened.
LEMMA ZoneWithin ==
  ASSUME NEW D, NEW A \in Int, NEW B \in Int, A <= B, IsZone(D, A)
  PROVE  IsZone(D, B)
<1>1. \A i, j \in Clk : D[i][j] # dbm_LS_INFINITY =>
        D[i][j] \in Int /\ -A < D[i][j] /\ D[i][j] < A
  BY WideEntry DEF IsZone, Bounded
<1>2. Bounded(D, B)
  <2> SUFFICES ASSUME NEW i \in Clk, NEW j \in Clk, D[i][j] # dbm_LS_INFINITY
               PROVE  -B < D[i][j] /\ D[i][j] < B
    BY DEF Bounded
  <2>1. D[i][j] \in Int /\ -A < D[i][j] /\ D[i][j] < A
    BY <1>1
  <2> QED
    BY <2>1
<1> QED
  BY <1>2 DEF IsZone

\* The bound on a closure may be loosened.
LEMMA ClosureWithin ==
  ASSUME NEW E, NEW T, NEW A \in Int, NEW B \in Int, A <= B, ClosureOf(E, T, A)
  PROVE  ClosureOf(E, T, B)
BY ZoneWithin DEF ClosureOf

\* The closing functions need this much room for the sums.
LEMMA Room ==
  ASSUME NEW B \in Nat
  PROVE  /\ (dim + 1) * B \in Nat /\ (dim + 2) * B \in Nat
         /\ B <= (dim + 1) * B /\ (dim + 1) * B <= (dim + 2) * B
         /\ 2 * B <= (dim + 2) * B /\ 3 * B <= (dim + 2) * B
<1>1. dim \in Nat /\ 1 <= dim + 1 /\ dim + 1 <= dim + 2 /\ 2 <= dim + 2 /\ 3 <= dim + 2
      /\ dim + 1 \in Nat /\ dim + 2 \in Nat
  BY DimAssumption
<1>2. 1 * B <= (dim + 1) * B /\ (dim + 1) * B \in Nat /\ 1 * B = B
  BY <1>1, Multiples
<1>3. (dim + 1) * B <= (dim + 2) * B /\ (dim + 2) * B \in Nat
  BY <1>1, Multiples
<1>4. 2 * B <= (dim + 2) * B
  BY <1>1, Multiples
<1>5. 3 * B <= (dim + 2) * B
  BY <1>1, Multiples
<1> QED
  BY <1>2, <1>3, <1>4, <1>5

\* The room there is, for a bound and for the product that bounds a closure.
LEMMA RoomWithin ==
  ASSUME NEW B \in Nat, (dim + 2) * B <= dbm_LE_OVERFLOW
  PROVE  /\ (dim + 1) * B \in Int /\ (dim + 2) * B \in Int /\ 3 * B \in Int
         /\ (dim + 1) * B <= (dim + 2) * B /\ B <= (dim + 2) * B /\ 3 * B <= (dim + 2) * B
         /\ (dim + 1) * B <= dbm_LE_OVERFLOW /\ 3 * B <= dbm_LE_OVERFLOW
         /\ B <= dbm_LE_OVERFLOW
<1> DEFINE p == (dim + 1) * B
           q == (dim + 2) * B
           r == 3 * B
<1>1. p \in Int /\ q \in Int /\ r \in Int /\ p <= q /\ B <= q /\ r <= q
  BY Room
<1>2. q <= dbm_LE_OVERFLOW /\ dbm_LE_OVERFLOW \in Int
  BY Infinity
<1> HIDE DEF p, q, r
<1>3. p <= dbm_LE_OVERFLOW /\ r <= dbm_LE_OVERFLOW /\ B <= dbm_LE_OVERFLOW
  BY <1>1, <1>2
<1> QED
  BY <1>1, <1>3 DEF p, q, r

\* A zone is the closure of itself.
LEMMA ZoneIsClosure ==
  ASSUME NEW D, NEW B, IsZone(D, B)
  PROVE  ClosureOf(D, D, B)
BY DEF ClosureOf, SamePoints

\* Two opposite bounds that exclude each other leave no point.
LEMMA TooTightIsEmpty ==
  ASSUME NEW T \in WideMatrix, NEW B \in Nat, Bounded(T, B), B <= dbm_LE_OVERFLOW,
         NEW i \in Clk, NEW j \in Clk, TooTight(T, i, j)
  PROVE  NoPoints(T)
<1> DEFINE x == T[i][j]
           y == T[j][i]
<1>1. x \in Int /\ y \in Int /\ x <= dbm_LS_INFINITY /\ y <= dbm_LS_INFINITY
      /\ (x # dbm_LS_INFINITY => -B < x /\ x < B)
      /\ (y # dbm_LS_INFINITY => -B < y /\ y < B)
  BY WideEntry DEF Bounded
<1>2. 1 - x >= y
  BY DEF TooTight, dbm_negRaw
<1> HIDE DEF x, y
<1>3. x < dbm_LS_INFINITY /\ y < dbm_LS_INFINITY
  BY <1>1, <1>2, Infinity
<1>4. dbm_addFiniteFinite(x, y) < dbm_LE_ZERO /\ dbm_addFiniteFinite(x, y) \in Int
  BY <1>1, <1>2 DEF dbm_addFiniteFinite, dbm_LE_ZERO, dbm_rawIsWeak
<1> SUFFICES ASSUME NEW pt \in [Clk -> Int], NEW g \in Nat \ {0},
                    dbm_isRealPointIncluded(pt, T, g)
             PROVE  FALSE
  BY DEF NoPoints
<1>5. Within(pt[i] - pt[j], x, g) /\ Within(pt[j] - pt[i], y, g)
  BY DEF dbm_isRealPointIncluded, x, y
<1>6. pt[i] - pt[j] \in Int /\ pt[j] - pt[i] \in Int
      /\ (pt[i] - pt[j]) + (pt[j] - pt[i]) = 0
  OBVIOUS
<1>7. Within((pt[i] - pt[j]) + (pt[j] - pt[i]), dbm_addFiniteFinite(x, y), g)
  BY <1>1, <1>3, <1>5, <1>6, WithinAdd
<1> QED
  BY <1>4, <1>6, <1>7, WithinZero

\* Emptiness, as an operation reports it.
LEMMA EmptyClosure ==
  ASSUME NEW T, NEW B, NoPoints(T)
  PROVE  ClosureOf(Empty, T, B)
BY EmptyIsNegative DEF ClosureOf, SamePoints, NoPoints

\* T is the matrix D with some bounds on the clocks of touched tightened.
Tighter(T, D, touched) ==
  /\ T \in WideMatrix /\ ZeroDiagonal(T) /\ NoLooser(T, D)
  /\ \A i, j \in Clk : i \notin touched \/ j \notin touched => T[i][j] = D[i][j]

\* The paths through the other clocks shorten nothing.
LEMMA UntouchedShortcuts ==
  ASSUME NEW D, NEW B \in Nat, IsZone(D, B), NEW touched \in SUBSET Clk,
         NEW T, Tighter(T, D, touched)
  PROVE  \A c \in Clk \ touched : ShortcutVia(T, c)
<1>1. /\ \A i, j \in Clk : D[i][j] \in Int /\ D[i][j] <= dbm_LS_INFINITY
      /\ \A i, k, j \in Clk : D[i][k] # dbm_LS_INFINITY /\ D[k][j] # dbm_LS_INFINITY
           => /\ D[i][j] # dbm_LS_INFINITY
              /\ D[i][j] <= dbm_addFiniteFinite(D[i][k], D[k][j])
  BY ZoneEntries
<1>2. /\ \A i, j \in Clk : T[i][j] \in Int /\ T[i][j] <= D[i][j]
      /\ \A i, j \in Clk : i \notin touched \/ j \notin touched => T[i][j] = D[i][j]
  BY WideEntry DEF Tighter, NoLooser
<1>3. \A x, y \in Int : dbm_addFiniteFinite(x, y) \in Int
  BY AddParts
<1>4. ASSUME NEW c \in Clk \ touched PROVE ShortcutVia(T, c)
  <2> SUFFICES ASSUME NEW i \in Clk, NEW j \in Clk,
                      T[i][c] # dbm_LS_INFINITY, T[c][j] # dbm_LS_INFINITY
               PROVE  /\ T[i][j] # dbm_LS_INFINITY
                      /\ T[i][j] <= dbm_addFiniteFinite(T[i][c], T[c][j])
    BY DEF ShortcutVia
  <2>1. T[i][c] = D[i][c] /\ T[c][j] = D[c][j]
    BY <1>2
  <2>2. /\ D[i][j] # dbm_LS_INFINITY
        /\ D[i][j] <= dbm_addFiniteFinite(D[i][c], D[c][j])
    BY <1>1, <2>1
  <2>3. dbm_addFiniteFinite(D[i][c], D[c][j]) \in Int /\ D[i][j] \in Int
        /\ T[i][j] \in Int /\ T[i][j] <= D[i][j] /\ D[i][j] <= dbm_LS_INFINITY
    BY <1>1, <1>2, <1>3
  <2> QED
    BY <2>1, <2>2, <2>3, Infinity
<1> QED
  BY <1>4

\* Closing for the touched clocks is enough.
LEMMA CloseTightened ==
  ASSUME NEW D, NEW B \in Nat, IsZone(D, B), (dim + 1) * B <= dbm_LE_OVERFLOW,
         NEW touched \in SUBSET Clk, NEW T, Tighter(T, D, touched), Bounded(T, B)
  PROVE  ClosureOf(CloseVia(T, touched), T, (dim + 1) * B)
<1>1. /\ \A i, j \in Clk : D[i][j] \in Int /\ D[i][j] <= dbm_LS_INFINITY
      /\ \A j \in Clk : D[0][j] <= dbm_LE_ZERO
      /\ \A i, k, j \in Clk : D[i][k] # dbm_LS_INFINITY /\ D[k][j] # dbm_LS_INFINITY
           => /\ D[i][j] # dbm_LS_INFINITY
              /\ D[i][j] <= dbm_addFiniteFinite(D[i][k], D[k][j])
      /\ 0 \in Clk
  BY ZoneEntries
<1>2. /\ T \in WideMatrix /\ ZeroDiagonal(T)
      /\ \A i, j \in Clk : T[i][j] \in Int /\ T[i][j] <= D[i][j]
      /\ \A i, j \in Clk : i \notin touched \/ j \notin touched => T[i][j] = D[i][j]
  BY WideEntry DEF Tighter, NoLooser
<1>3. \A x, y \in Int : dbm_addFiniteFinite(x, y) \in Int
  BY AddParts
<1>4. \A c \in Clk \ touched : ShortcutVia(T, c)
  BY UntouchedShortcuts
<1> DEFINE E == CloseVia(T, touched)
<1>5. \/ E = Empty /\ NoPoints(T)
      \/ /\ E \in WideMatrix /\ Closed(E) /\ Bounded(E, (dim + 1) * B)
         /\ NoLooser(E, T) /\ SamePoints(T, E)
  BY <1>2, <1>4, CloseViaCloses
<1> HIDE DEF E
<1>6. CASE E = Empty /\ NoPoints(T)
  BY <1>6, EmptyClosure DEF E
<1>7. CASE /\ E \in WideMatrix /\ Closed(E) /\ Bounded(E, (dim + 1) * B)
           /\ NoLooser(E, T) /\ SamePoints(T, E)
  <2>1. \A j \in Clk : E[0][j] <= dbm_LE_ZERO
    <3> TAKE j \in Clk
    <3>1. E[0][j] <= T[0][j] /\ T[0][j] <= D[0][j] /\ D[0][j] <= dbm_LE_ZERO
          /\ E[0][j] \in Int /\ T[0][j] \in Int /\ D[0][j] \in Int
      BY <1>1, <1>2, <1>7, WideEntry DEF NoLooser
    <3> QED
      BY <3>1, Infinity
  <2>2. ClosureOf(E, T, (dim + 1) * B)
    BY <1>7, <2>1 DEF ClosureOf, IsZone
  <2> QED
    BY <2>2 DEF E
<1> QED
  BY <1>5, <1>6, <1>7

\* dbm_closeij is enough for one tightened bound.
LEMMA CloseOne ==
  ASSUME NEW D, NEW B \in Nat, IsZone(D, B), 3 * B <= dbm_LE_OVERFLOW,
         NEW b \in Clk, NEW a \in Clk, b # a, NEW v \in Int, -B < v, v < B,
         v < D[b][a]
  PROVE  LET T == [D EXCEPT ![b][a] = v]
         IN  /\ TooTight(T, b, a) => NoPoints(T)
             /\ ~TooTight(T, b, a) => ClosureOf(dbm_closeij(T, b, a), T, 3 * B)
<1> DEFINE T == [D EXCEPT ![b][a] = v]
           E == dbm_closeij(T, b, a)
<1>1. /\ D \in WideMatrix /\ Closed(D) /\ Bounded(D, B) /\ ZeroDiagonal(D)
      /\ \A j \in Clk : D[0][j] <= dbm_LE_ZERO
  BY DEF IsZone, Closed
<1>2. \A i, j \in Clk : D[i][j] \in Int /\ D[i][j] <= dbm_LS_INFINITY
  BY <1>1, WideEntry
<1>3. \A i, j \in Clk : T[i][j] = IF i = b /\ j = a THEN v ELSE D[i][j]
  BY <1>1 DEF WideMatrix
<1>4. T \in WideMatrix
  <2>1. v <= dbm_LS_INFINITY
    BY <1>2, Infinity
  <2>2. D[b] \in [Clk -> {x \in Int : x <= dbm_LS_INFINITY}]
    BY <1>1 DEF WideMatrix
  <2> QED
    BY <1>1, <2>1, <2>2 DEF WideMatrix
<1>5. Bounded(T, B)
  BY <1>1, <1>3 DEF Bounded
<1> HIDE DEF T
<1>6. TooTight(T, b, a) => NoPoints(T)
  <2>1. B <= dbm_LE_OVERFLOW
    BY Infinity
  <2> QED
    BY <1>4, <1>5, <2>1, TooTightIsEmpty
<1>7. ASSUME ~TooTight(T, b, a) PROVE ClosureOf(E, T, 3 * B)
  <2>1. T[b][a] = v /\ T[a][b] = D[a][b]
    BY <1>3
  <2>2. dbm_LE_ZERO <= dbm_addFiniteFinite(v, D[a][b])
    BY <1>2, <1>7, <2>1, NotTooTight
  <2>3. ThroughEdge(E, D, b, a, v) /\ E \in [Clk -> [Clk -> Int]]
    BY <1>1, <2>2, CloseijIsThroughEdge DEF T
  <2> HIDE DEF E
  <2>4. Closed(E)
    BY <1>1, <2>2, <2>3, ThroughEdgeCloses
  <2>5. Bounded(E, 3 * B)
    BY <1>1, <2>3, ThroughEdgeBounds
  <2>6. \A i, j \in Clk : E[i][j] \in Int /\ E[i][j] <= D[i][j]
    BY <2>3 DEF ThroughEdge
  <2>7. E \in WideMatrix
    <3>1. \A i, j \in Clk : E[i][j] \in Int /\ E[i][j] <= dbm_LS_INFINITY
      BY <1>2, <2>6, Infinity
    <3> QED
      BY <2>3, <3>1, EntriesType
  <2>8. \A j \in Clk : E[0][j] <= dbm_LE_ZERO
    <3> TAKE j \in Clk
    <3>1. 0 \in Clk
      BY DimAssumption DEF Clk
    <3>2. E[0][j] <= D[0][j] /\ D[0][j] <= dbm_LE_ZERO
          /\ E[0][j] \in Int /\ D[0][j] \in Int
      BY <1>1, <1>2, <2>6, <3>1
    <3> QED
      BY <3>2, Infinity
  <2>9. SamePoints(T, E)
    <3> SUFFICES ASSUME NEW pt \in [Clk -> Int], NEW g \in Nat \ {0}
                 PROVE  dbm_isRealPointIncluded(pt, E, g)
                          <=> dbm_isRealPointIncluded(pt, T, g)
      BY DEF SamePoints
    <3>1. dbm_isRealPointIncluded(pt, E, g)
            <=> dbm_isRealPointIncluded(pt, D, g) /\ Within(pt[b] - pt[a], v, g)
      BY <1>1, <2>3, ThroughEdgePoints
    <3>2. \A i, j \in Clk : pt[i] - pt[j] \in Int
      OBVIOUS
    <3>3. Within(pt[b] - pt[a], v, g) => Within(pt[b] - pt[a], D[b][a], g)
      <4>1. v <= D[b][a] /\ D[b][a] \in Int
        BY <1>2
      <4> QED
        BY <3>2, <4>1, WithinMonotone
    <3>4. dbm_isRealPointIncluded(pt, T, g)
            <=> dbm_isRealPointIncluded(pt, D, g) /\ Within(pt[b] - pt[a], v, g)
      BY <1>3, <3>3 DEF dbm_isRealPointIncluded
    <3> QED
      BY <3>1, <3>4
  <2>10. IsZone(E, 3 * B)
    BY <2>4, <2>5, <2>7, <2>8 DEF IsZone
  <2> QED
    BY <2>9, <2>10 DEF ClosureOf
<1> QED
  BY <1>6, <1>7 DEF T

\* The matrix of the smaller bounds.
LEMMA SmallerBounds ==
  ASSUME NEW D, NEW B \in Nat, IsZone(D, B),
         NEW S \in WideMatrix, Bounded(S, B), ZeroDiagonal(S)
  PROVE  LET T == Entrywise(RawMin, D, S)
         IN  /\ T \in WideMatrix /\ Bounded(T, B) /\ ZeroDiagonal(T) /\ NoLooser(T, D)
             /\ \A i, j \in Clk :
                  T[i][j] = IF D[i][j] > S[i][j] THEN S[i][j] ELSE D[i][j]
<1> DEFINE T == Entrywise(RawMin, D, S)
<1>1. D \in WideMatrix /\ Bounded(D, B) /\ ZeroDiagonal(D)
  BY DEF IsZone, Closed
<1>2. \A i, j \in Clk : /\ D[i][j] \in Int /\ D[i][j] <= dbm_LS_INFINITY
                        /\ S[i][j] \in Int /\ S[i][j] <= dbm_LS_INFINITY
  BY <1>1, WideEntry
<1>3. T = [i \in Clk |-> [j \in Clk |-> T[i][j]]]
      /\ \A i, j \in Clk : T[i][j] = RawMin(D[i][j], S[i][j])
  BY DEF Entrywise
<1> HIDE DEF T
<1>4. ASSUME NEW i \in Clk, NEW j \in Clk
      PROVE  /\ T[i][j] = IF D[i][j] > S[i][j] THEN S[i][j] ELSE D[i][j]
             /\ T[i][j] \in Int /\ T[i][j] <= dbm_LS_INFINITY /\ T[i][j] <= D[i][j]
             /\ T[i][j] = D[i][j] \/ T[i][j] = S[i][j]
  <2> DEFINE x == D[i][j]
             y == S[i][j]
             z == T[i][j]
  <2>1. x \in Int /\ y \in Int /\ x <= dbm_LS_INFINITY /\ y <= dbm_LS_INFINITY
        /\ dbm_LS_INFINITY \in Int /\ z = RawMin(x, y)
    BY <1>2, <1>3, Infinity
  <2> HIDE DEF x, y, z
  <2>2. /\ z = IF x > y THEN y ELSE x
        /\ z \in Int /\ z <= dbm_LS_INFINITY /\ z <= x /\ (z = x \/ z = y)
    BY <2>1 DEF RawMin
  <2> QED
    BY <2>2 DEF x, y, z
<1>5. T \in WideMatrix
  BY <1>3, <1>4, EntriesType
<1>6. Bounded(T, B)
  BY <1>1, <1>4 DEF Bounded
<1>7. ZeroDiagonal(T)
  BY <1>1, <1>4 DEF ZeroDiagonal
<1>8. NoLooser(T, D)
  BY <1>4 DEF NoLooser
<1> QED
  BY <1>4, <1>5, <1>6, <1>7, <1>8 DEF T

-----------------------------------------------------------------------------
(* Two algorithms agree when each returns the greatest closed matrix below the same *)
(* bounds: there is only one. *)

\* The closed matrices whose bounds are no looser than those of T.
ClosedBelow(T) == {F \in WideMatrix : Closed(F) /\ NoLooser(F, T)}

\* X is the greatest of C, and Empty when C has no matrix.
Greatest(X, C) ==
  IF X = Empty THEN C = {} ELSE X \in C /\ \A F \in C : NoLooser(F, X)

\* Two matrices that are no looser than each other are the same.
LEMMA NoLooserBoth ==
  ASSUME NEW X \in WideMatrix, NEW Y \in WideMatrix, NoLooser(X, Y), NoLooser(Y, X)
  PROVE  X = Y
<1>1. \A i, j \in Clk : X[i][j] = Y[i][j]
  BY WideEntry DEF NoLooser
<1>2. X = [i \in Clk |-> [j \in Clk |-> X[i][j]]] /\ Y = [i \in Clk |-> [j \in Clk |-> Y[i][j]]]
  BY DEF WideMatrix
<1>3. [i \in Clk |-> [j \in Clk |-> X[i][j]]] = [i \in Clk |-> [j \in Clk |-> Y[i][j]]]
  BY <1>1
<1> QED
  BY <1>2, <1>3

\* There is only one greatest matrix.
LEMMA GreatestIsOne ==
  ASSUME NEW C \in SUBSET WideMatrix, NEW X, NEW Y, Greatest(X, C), Greatest(Y, C)
  PROVE  X = Y
<1>1. CASE X = Empty \/ Y = Empty
  BY <1>1 DEF Greatest
<1>2. CASE X # Empty /\ Y # Empty
  <2>1. X \in C /\ Y \in C /\ NoLooser(X, Y) /\ NoLooser(Y, X)
    BY <1>2 DEF Greatest
  <2> QED
    BY <2>1, NoLooserBoth
<1> QED
  BY <1>1, <1>2

\* A zone is the greatest closed matrix below itself.
LEMMA ZoneIsGreatest ==
  ASSUME NEW D, NEW B, IsZone(D, B)
  PROVE  Greatest(D, ClosedBelow(D))
<1>1. D \in WideMatrix /\ Closed(D) /\ D # Empty
  BY EmptyIsNegative DEF IsZone, Closed
<1>2. NoLooser(D, D)
  BY <1>1, WideEntry DEF NoLooser
<1> QED
  BY <1>1, <1>2 DEF Greatest, ClosedBelow

\* The edges of a closed matrix in the other direction: where two bounds exclude each
\* other there is no closed matrix.
LEMMA TooTightHasNone ==
  ASSUME NEW T \in WideMatrix, NEW B \in Nat, Bounded(T, B), B <= dbm_LE_OVERFLOW,
         NEW i \in Clk, NEW j \in Clk, TooTight(T, i, j)
  PROVE  ClosedBelow(T) = {}
<1> DEFINE x == T[i][j]
           y == T[j][i]
<1>1. x \in Int /\ y \in Int /\ x <= dbm_LS_INFINITY /\ y <= dbm_LS_INFINITY
      /\ (x # dbm_LS_INFINITY => -B < x /\ x < B)
      /\ (y # dbm_LS_INFINITY => -B < y /\ y < B)
  BY WideEntry DEF Bounded
<1>2. 1 - x >= y
  BY DEF TooTight, dbm_negRaw
<1> HIDE DEF x, y
<1>3. x < dbm_LS_INFINITY /\ y < dbm_LS_INFINITY
  BY <1>1, <1>2, Infinity
<1>4. dbm_addFiniteFinite(x, y) < dbm_LE_ZERO /\ dbm_addFiniteFinite(x, y) \in Int
  BY <1>1, <1>2 DEF dbm_addFiniteFinite, dbm_LE_ZERO, dbm_rawIsWeak
<1> SUFFICES ASSUME NEW F \in WideMatrix, Closed(F), NoLooser(F, T)
             PROVE  FALSE
  BY DEF ClosedBelow
<1> DEFINE p == F[i][j]
           q == F[j][i]
<1>5. p \in Int /\ q \in Int /\ p <= x /\ q <= y /\ F[i][i] = dbm_LE_ZERO
  BY WideEntry DEF NoLooser, x, y, Closed, ZeroDiagonal
<1>6. p # dbm_LS_INFINITY /\ q # dbm_LS_INFINITY
  BY <1>1, <1>3, <1>5, Infinity
<1>7. F[i][i] <= dbm_addFiniteFinite(p, q)
  BY <1>6 DEF Closed, ShortcutVia
<1> HIDE DEF p, q
<1>8. dbm_addFiniteFinite(p, q) <= dbm_addFiniteFinite(x, y)
      /\ dbm_addFiniteFinite(p, q) \in Int
  BY <1>1, <1>5, AddMonotone, AddParts
<1> QED
  BY <1>4, <1>5, <1>7, <1>8, Infinity

\* The closing functions leave the greatest closed matrix below a tightened zone.
LEMMA CloseIsGreatest ==
  ASSUME NEW D, NEW B \in Nat, IsZone(D, B), (dim + 1) * B <= dbm_LE_OVERFLOW,
         NEW touched \in SUBSET Clk, NEW T, Tighter(T, D, touched), Bounded(T, B)
  PROVE  Greatest(CloseVia(T, touched), ClosedBelow(T))
<1> DEFINE E == CloseVia(T, touched)
<1>1. T \in WideMatrix /\ ZeroDiagonal(T)
  BY DEF Tighter
<1>2. \A c \in Clk \ touched : ShortcutVia(T, c)
  BY UntouchedShortcuts
<1>3. \/ E = Empty
      \/ E \in WideMatrix /\ Closed(E) /\ NoLooser(E, T)
  BY <1>1, <1>2, CloseViaCloses
<1>4. \A F \in WideMatrix : Closed(F) /\ NoLooser(F, T) => NoLooser(F, E) /\ E # Empty
  BY <1>1, <1>2, CloseViaGreatest
<1> HIDE DEF E
<1>5. CASE E = Empty
  BY <1>4, <1>5 DEF Greatest, ClosedBelow, E
<1>6. CASE E # Empty
  <2>1. E \in ClosedBelow(T)
    BY <1>3, <1>6 DEF ClosedBelow
  <2>2. \A F \in ClosedBelow(T) : NoLooser(F, E)
    BY <1>4 DEF ClosedBelow
  <2> QED
    BY <1>6, <2>1, <2>2 DEF Greatest, E
<1> QED
  BY <1>5, <1>6

\* dbm_closeij leaves the greatest closed matrix below a zone with one tightened bound.
LEMMA CloseOneIsGreatest ==
  ASSUME NEW D, NEW B \in Nat, IsZone(D, B), 3 * B <= dbm_LE_OVERFLOW,
         NEW b \in Clk, NEW a \in Clk, b # a, NEW v \in Int, -B < v, v < B,
         v < D[b][a]
  PROVE  LET T == [D EXCEPT ![b][a] = v]
         IN  /\ TooTight(T, b, a) => ClosedBelow(T) = {}
             /\ ~TooTight(T, b, a) => Greatest(dbm_closeij(T, b, a), ClosedBelow(T))
<1> DEFINE T == [D EXCEPT ![b][a] = v]
           E == dbm_closeij(T, b, a)
           Sum(x, y) == dbm_addFiniteFinite(x, y)
<1>1. /\ D \in WideMatrix /\ Closed(D) /\ Bounded(D, B) /\ ZeroDiagonal(D)
  BY DEF IsZone, Closed
<1>2. \A i, j \in Clk : D[i][j] \in Int /\ D[i][j] <= dbm_LS_INFINITY
  BY <1>1, WideEntry
<1>3. \A i, j \in Clk : T[i][j] = IF i = b /\ j = a THEN v ELSE D[i][j]
  BY <1>1 DEF WideMatrix
<1>4. T \in WideMatrix
  <2>1. v <= dbm_LS_INFINITY
    BY <1>2, Infinity
  <2>2. D[b] \in [Clk -> {x \in Int : x <= dbm_LS_INFINITY}]
    BY <1>1 DEF WideMatrix
  <2> QED
    BY <1>1, <2>1, <2>2 DEF WideMatrix
<1>5. Bounded(T, B)
  BY <1>1, <1>3 DEF Bounded
<1> HIDE DEF T
<1>6. TooTight(T, b, a) => ClosedBelow(T) = {}
  <2>1. B <= dbm_LE_OVERFLOW
    BY Infinity
  <2> QED
    BY <1>4, <1>5, <2>1, TooTightHasNone
<1>7. ASSUME ~TooTight(T, b, a) PROVE Greatest(E, ClosedBelow(T))
  <2>1. T[b][a] = v /\ T[a][b] = D[a][b]
    BY <1>3
  <2>2. dbm_LE_ZERO <= dbm_addFiniteFinite(v, D[a][b])
    BY <1>2, <1>7, <2>1, NotTooTight
  <2>3. ThroughEdge(E, D, b, a, v) /\ E \in [Clk -> [Clk -> Int]]
    BY <1>1, <2>2, CloseijIsThroughEdge DEF T
  <2> HIDE DEF E
  <2>4. Closed(E)
    BY <1>1, <2>2, <2>3, ThroughEdgeCloses
  <2>5. \A i, j \in Clk : E[i][j] \in Int /\ E[i][j] <= D[i][j]
    BY <2>3 DEF ThroughEdge
  <2>6. E \in WideMatrix
    <3>1. \A i, j \in Clk : E[i][j] \in Int /\ E[i][j] <= dbm_LS_INFINITY
      BY <1>2, <2>5, Infinity
    <3> QED
      BY <2>3, <3>1, EntriesType
  <2>7. E[b][a] <= v
    <3>1. D[b][b] = dbm_LE_ZERO /\ D[a][a] = dbm_LE_ZERO
      BY <1>1 DEF ZeroDiagonal
    <3>2. E[b][a] <= Sum(Sum(D[b][b], v), D[a][a])
      BY <2>3, <3>1, Infinity DEF ThroughEdge
    <3>3. Sum(Sum(dbm_LE_ZERO, v), dbm_LE_ZERO) = v
      BY AddZero
    <3> QED
      BY <3>1, <3>2, <3>3
  <2>8. NoLooser(E, T)
    BY <1>3, <2>5, <2>7 DEF NoLooser
  <2>9. ASSUME NEW F \in WideMatrix, Closed(F), NoLooser(F, T)
        PROVE  NoLooser(F, E)
    <3> SUFFICES ASSUME NEW i \in Clk, NEW j \in Clk PROVE F[i][j] <= E[i][j]
      BY DEF NoLooser
    <3>1. \A x, y \in Clk : F[x][y] \in Int /\ F[x][y] <= T[x][y] /\ T[x][y] \in Int
      BY <1>4, <2>9, WideEntry DEF NoLooser
    <3>2. \A x, y \in Clk : F[x][y] <= D[x][y]
      BY <1>2, <1>3, <3>1
    <3>3. F[b][a] <= v
      BY <1>3, <3>1
    <3>4. CASE E[i][j] = D[i][j]
      BY <3>2, <3>4
    <3>5. CASE /\ D[i][b] # dbm_LS_INFINITY /\ D[a][j] # dbm_LS_INFINITY
               /\ E[i][j] = Sum(Sum(D[i][b], v), D[a][j])
      <4> DEFINE x == F[i][b]
                 y == F[b][a]
                 z == F[a][j]
                 w == F[i][a]
      <4>1. x \in Int /\ y \in Int /\ z \in Int /\ w \in Int /\ F[i][j] \in Int
            /\ D[i][b] \in Int /\ D[a][j] \in Int /\ v < dbm_LS_INFINITY
            /\ D[i][b] <= dbm_LS_INFINITY /\ D[a][j] <= dbm_LS_INFINITY
        BY <1>2, <3>1, Infinity
      <4>2. x <= D[i][b] /\ y <= v /\ z <= D[a][j]
        BY <3>2, <3>3
      <4>3. x # dbm_LS_INFINITY /\ y # dbm_LS_INFINITY /\ z # dbm_LS_INFINITY
        BY <3>5, <4>1, <4>2, Infinity
      <4>4. w # dbm_LS_INFINITY /\ w <= Sum(x, y)
        BY <2>9, <4>3 DEF Closed, ShortcutVia
      <4>5. F[i][j] <= Sum(w, z)
        BY <2>9, <4>3, <4>4 DEF Closed, ShortcutVia
      <4> HIDE DEF x, y, z, w
      <4>6. Sum(x, y) \in Int /\ Sum(D[i][b], v) \in Int /\ Sum(x, y) <= Sum(D[i][b], v)
        BY <4>1, <4>2, AddParts, AddMonotone
      <4>7. w <= Sum(D[i][b], v)
        BY <4>1, <4>4, <4>6
      <4>8. Sum(w, z) <= Sum(Sum(D[i][b], v), D[a][j]) /\ Sum(w, z) \in Int
            /\ Sum(Sum(D[i][b], v), D[a][j]) \in Int
        BY <4>1, <4>2, <4>6, <4>7, AddMonotone, AddParts
      <4> QED
        BY <3>5, <4>1, <4>5, <4>8
    <3> QED
      BY <2>3, <3>4, <3>5 DEF ThroughEdge
  <2>10. E # Empty
    BY <2>4, EmptyIsNegative DEF Closed
  <2>11. E \in ClosedBelow(T)
    BY <2>4, <2>6, <2>8 DEF ClosedBelow
  <2> QED
    BY <2>9, <2>10, <2>11 DEF Greatest, ClosedBelow
<1> QED
  BY <1>6, <1>7 DEF T

\* T is D with one bound tightened, the one that last names.
OneBound(T, D, last, B) ==
  \E b, a \in Clk, v \in Int :
    /\ b # a /\ -B < v /\ v < B /\ v < D[b][a]
    /\ T = [D EXCEPT ![b][a] = v] /\ last = <<b, a>> /\ ~TooTight(T, b, a)

\* How an operation closes the matrix T, which is D with tightened bounds: it gives up where
\* two bounds exclude each other, or picks a closure by the number of tightened bounds.
ClosedSomehow(E, T, D, B) ==
  \/ /\ E = Empty /\ T \in WideMatrix /\ Bounded(T, B)
     /\ \E i, j \in Clk : TooTight(T, i, j)
  \/ E = T /\ T = D
  \/ \E last : OneBound(T, D, last, B) /\ E = dbm_closeij(T, last[1], last[2])
  \/ \E touched \in SUBSET Clk :
       Tighter(T, D, touched) /\ Bounded(T, B) /\ E = CloseVia(T, touched)

\* Each of them is right.
LEMMA SomehowCloses ==
  ASSUME NEW D, NEW B \in Nat, IsZone(D, B), (dim + 2) * B <= dbm_LE_OVERFLOW,
         NEW E, NEW T, ClosedSomehow(E, T, D, B)
  PROVE  ClosureOf(E, T, (dim + 2) * B)
<1>1. /\ (dim + 1) * B \in Int /\ (dim + 2) * B \in Int /\ 3 * B \in Int
      /\ (dim + 1) * B <= (dim + 2) * B /\ B <= (dim + 2) * B /\ 3 * B <= (dim + 2) * B
      /\ (dim + 1) * B <= dbm_LE_OVERFLOW /\ 3 * B <= dbm_LE_OVERFLOW
      /\ B <= dbm_LE_OVERFLOW
  BY RoomWithin
<1>2. CASE /\ E = Empty /\ T \in WideMatrix /\ Bounded(T, B)
           /\ \E i, j \in Clk : TooTight(T, i, j)
  <2>1. NoPoints(T)
    BY <1>1, <1>2, TooTightIsEmpty
  <2> QED
    BY <1>2, <2>1, EmptyClosure
<1>3. CASE E = T /\ T = D
  BY <1>1, <1>3, ZoneIsClosure, ClosureWithin
<1>4. CASE \E last : OneBound(T, D, last, B) /\ E = dbm_closeij(T, last[1], last[2])
  <2>1. PICK last : OneBound(T, D, last, B) /\ E = dbm_closeij(T, last[1], last[2])
    BY <1>4
  <2>2. PICK b \in Clk, a \in Clk, v \in Int :
          /\ b # a /\ -B < v /\ v < B /\ v < D[b][a]
          /\ T = [D EXCEPT ![b][a] = v] /\ last = <<b, a>> /\ ~TooTight(T, b, a)
    BY <2>1 DEF OneBound
  <2>3. E = dbm_closeij(T, b, a)
    BY <2>1, <2>2
  <2> DEFINE M == [D EXCEPT ![b][a] = v]
  <2>4. ~TooTight(M, b, a) => ClosureOf(dbm_closeij(M, b, a), M, 3 * B)
    BY <1>1, <2>2, CloseOne
  <2>5. M = T
    BY <2>2
  <2> HIDE DEF M
  <2>6. ClosureOf(E, T, 3 * B)
    BY <2>2, <2>3, <2>4, <2>5
  <2> QED
    BY <1>1, <2>6, ClosureWithin
<1>5. CASE \E touched \in SUBSET Clk :
             Tighter(T, D, touched) /\ Bounded(T, B) /\ E = CloseVia(T, touched)
  <2>1. ClosureOf(E, T, (dim + 1) * B)
    BY <1>1, <1>5, CloseTightened
  <2> QED
    BY <1>1, <2>1, ClosureWithin
<1> QED
  BY <1>2, <1>3, <1>4, <1>5 DEF ClosedSomehow

\* And each leaves the greatest closed matrix.
LEMMA SomehowIsGreatest ==
  ASSUME NEW D, NEW B \in Nat, IsZone(D, B), (dim + 2) * B <= dbm_LE_OVERFLOW,
         NEW E, NEW T, ClosedSomehow(E, T, D, B)
  PROVE  Greatest(E, ClosedBelow(T))
<1>1. (dim + 1) * B <= dbm_LE_OVERFLOW /\ 3 * B <= dbm_LE_OVERFLOW /\ B <= dbm_LE_OVERFLOW
  BY RoomWithin
<1>2. CASE /\ E = Empty /\ T \in WideMatrix /\ Bounded(T, B)
           /\ \E i, j \in Clk : TooTight(T, i, j)
  BY <1>1, <1>2, TooTightHasNone DEF Greatest
<1>3. CASE E = T /\ T = D
  BY <1>3, ZoneIsGreatest
<1>4. CASE \E last : OneBound(T, D, last, B) /\ E = dbm_closeij(T, last[1], last[2])
  <2>1. PICK last : OneBound(T, D, last, B) /\ E = dbm_closeij(T, last[1], last[2])
    BY <1>4
  <2>2. PICK b \in Clk, a \in Clk, v \in Int :
          /\ b # a /\ -B < v /\ v < B /\ v < D[b][a]
          /\ T = [D EXCEPT ![b][a] = v] /\ last = <<b, a>> /\ ~TooTight(T, b, a)
    BY <2>1 DEF OneBound
  <2>3. E = dbm_closeij(T, b, a)
    BY <2>1, <2>2
  <2> DEFINE M == [D EXCEPT ![b][a] = v]
  <2>4. ~TooTight(M, b, a) => Greatest(dbm_closeij(M, b, a), ClosedBelow(M))
    BY <1>1, <2>2, CloseOneIsGreatest
  <2>5. M = T
    BY <2>2
  <2> HIDE DEF M
  <2> QED
    BY <2>2, <2>3, <2>4, <2>5
<1>5. CASE \E touched \in SUBSET Clk :
             Tighter(T, D, touched) /\ Bounded(T, B) /\ E = CloseVia(T, touched)
  BY <1>1, <1>5, CloseIsGreatest
<1> QED
  BY <1>2, <1>3, <1>4, <1>5 DEF ClosedSomehow

\* TightenedBy closes the matrix of the smaller bounds in one of these ways.
LEMMA TightenedByWays ==
  ASSUME NEW D, NEW B \in Nat, IsZone(D, B), (dim + 2) * B <= dbm_LE_OVERFLOW,
         NEW S \in WideMatrix, Bounded(S, B), ZeroDiagonal(S)
  PROVE  ClosedSomehow(TightenedBy(D, S), Entrywise(RawMin, D, S), D, B)
<1> DEFINE T == Entrywise(RawMin, D, S)
           tight == {p \in Clk \X Clk : D[p[1]][p[2]] > S[p[1]][p[2]]}
           touched == UNION {{p[1], p[2]} : p \in tight}
<1>1. /\ T \in WideMatrix /\ Bounded(T, B) /\ ZeroDiagonal(T) /\ NoLooser(T, D)
      /\ \A i, j \in Clk : T[i][j] = IF D[i][j] > S[i][j] THEN S[i][j] ELSE D[i][j]
  BY SmallerBounds
<1>2. \A i, j \in Clk : D[i][j] \in Int /\ S[i][j] \in Int
  BY WideEntry DEF IsZone
<1>3. D \in WideMatrix /\ Bounded(D, B) /\ ZeroDiagonal(D)
  BY DEF IsZone, Closed
<1>4. /\ (dim + 1) * B \in Int /\ (dim + 2) * B \in Int /\ 3 * B \in Int
      /\ (dim + 1) * B <= (dim + 2) * B /\ B <= (dim + 2) * B /\ 3 * B <= (dim + 2) * B
      /\ (dim + 1) * B <= dbm_LE_OVERFLOW /\ 3 * B <= dbm_LE_OVERFLOW
      /\ B <= dbm_LE_OVERFLOW
  BY Room, Infinity, SMTT(30)
<1>5. \A p \in tight : p[1] \in Clk /\ p[2] \in Clk /\ D[p[1]][p[2]] > S[p[1]][p[2]]
  OBVIOUS
<1>6. \A i, j \in Clk : <<i, j>> \notin tight => T[i][j] = D[i][j]
  BY <1>1
<1>7. TightenedBy(D, S) =
        IF \E p \in tight : TooTight(T, p[1], p[2]) THEN Empty
        ELSE IF tight = {} THEN T
        ELSE IF Cardinality(tight) = 1
             THEN LET p == CHOOSE q \in tight : TRUE IN dbm_closeij(T, p[1], p[2])
        ELSE CloseVia(T, touched)
  BY DEF TightenedBy, dbm_closex
<1>8. CASE \E p \in tight : TooTight(T, p[1], p[2])
  <2>1. \E i, j \in Clk : TooTight(T, i, j)
    BY <1>5, <1>8
  <2>2. TightenedBy(D, S) = Empty
    BY <1>7, <1>8
  <2> HIDE DEF T
  <2> QED
    BY <1>1, <2>1, <2>2 DEF ClosedSomehow, T
<1>9. CASE ~(\E p \in tight : TooTight(T, p[1], p[2])) /\ tight = {}
  <2>1. T = D
    <3>1. \A i, j \in Clk : T[i][j] = D[i][j]
      BY <1>6, <1>9
    <3> HIDE DEF T
    <3>2. T = [i \in Clk |-> [j \in Clk |-> T[i][j]]]
          /\ D = [i \in Clk |-> [j \in Clk |-> D[i][j]]]
      BY <1>1, <1>3 DEF WideMatrix
    <3>3. [i \in Clk |-> [j \in Clk |-> T[i][j]]] = [i \in Clk |-> [j \in Clk |-> D[i][j]]]
      BY <3>1
    <3> QED
      BY <3>2, <3>3
  <2>2. TightenedBy(D, S) = T
    BY <1>7, <1>9
  <2> HIDE DEF T
  <2> QED
    BY <2>1, <2>2 DEF ClosedSomehow, T
<1> HIDE DEF T
<1>10. CASE /\ ~(\E p \in tight : TooTight(T, p[1], p[2])) /\ tight # {}
            /\ Cardinality(tight) = 1
  <2>1. IsFiniteSet(tight)
    <3>1. IsFiniteSet(Clk \X Clk)
      BY ClocksFinite, FS_Product
    <3> QED
      BY <3>1, FS_Subset
  <2> DEFINE p == CHOOSE q \in tight : TRUE
  <2>2. p \in tight /\ tight = {p}
    <3>1. \E q : tight = {q}
      BY <1>10, <2>1, FS_Singleton
    <3> QED
      BY <3>1
  <2>12. p \in Clk \X Clk
    BY <2>2
  <2> HIDE DEF p, tight
  <2>3. PICK b \in Clk, a \in Clk : p = <<b, a>> /\ p[1] = b /\ p[2] = a
    BY <2>12
  <2>4. D[b][a] > S[b][a]
    BY <1>5, <2>2, <2>3
  <2>5. b # a
    BY <1>2, <1>3, <2>4, Infinity DEF ZeroDiagonal
  <2> DEFINE v == S[b][a]
  <2>6. v \in Int /\ v < D[b][a]
    BY <1>2, <2>4
  <2>7. -B < v /\ v < B
    <3>1. v # dbm_LS_INFINITY
      <4>1. D[b][a] <= dbm_LS_INFINITY /\ D[b][a] \in Int
        BY <1>3, WideEntry
      <4> QED
        BY <2>6, <4>1, Infinity
    <3> QED
      BY <3>1 DEF Bounded
  <2>8. T = [D EXCEPT ![b][a] = v]
    <3>1. \A i, j \in Clk : T[i][j] = [D EXCEPT ![b][a] = v][i][j]
      <4> TAKE i, j \in Clk
      <4>1. CASE i = b /\ j = a
        <5>1. T[b][a] = S[b][a]
          BY <1>1, <2>4
        <5> QED
          BY <1>3, <4>1, <5>1 DEF WideMatrix
      <4>2. CASE ~(i = b /\ j = a)
        <5>1. <<i, j>> \notin tight
          <6>1. <<i, j>> # <<b, a>>
            BY <4>2
          <6> QED
            BY <2>2, <2>3, <6>1
        <5>2. T[i][j] = D[i][j]
          BY <1>6, <5>1
        <5> QED
          BY <1>3, <4>2, <5>2 DEF WideMatrix
      <4> QED
        BY <4>1, <4>2
    <3> DEFINE R == [D EXCEPT ![b][a] = v]
    <3>2. T = [i \in Clk |-> [j \in Clk |-> T[i][j]]]
      BY <1>1 DEF WideMatrix
    <3>3. R = [i \in Clk |-> [j \in Clk |-> R[i][j]]]
      BY <1>3 DEF WideMatrix
    <3> HIDE DEF R
    <3>4. [i \in Clk |-> [j \in Clk |-> T[i][j]]] = [i \in Clk |-> [j \in Clk |-> R[i][j]]]
      BY <3>1 DEF R
    <3>5. T = R
      BY <3>2, <3>3, <3>4
    <3> QED
      BY <3>5 DEF R
  <2>9. TightenedBy(D, S) = dbm_closeij(T, b, a) /\ ~TooTight(T, b, a)
    <3>1. TightenedBy(D, S) = dbm_closeij(T, p[1], p[2])
      BY <1>7, <1>10 DEF p
    <3>2. p[1] = b /\ p[2] = a
      BY <2>3
    <3>3. ~TooTight(T, p[1], p[2])
      BY <1>10, <2>2
    <3> QED
      BY <3>1, <3>2, <3>3
  <2> HIDE DEF v, p, tight
  <2>10. OneBound(T, D, <<b, a>>, B)
    BY <2>5, <2>6, <2>7, <2>8, <2>9 DEF OneBound
  <2>11. ClosedSomehow(dbm_closeij(T, b, a), T, D, B)
    <3>1. <<b, a>>[1] = b /\ <<b, a>>[2] = a
      OBVIOUS
    <3> QED
      BY <2>10, <3>1 DEF ClosedSomehow
  <2> QED
    BY <2>9, <2>11 DEF T
<1>11. CASE /\ ~(\E p \in tight : TooTight(T, p[1], p[2])) /\ tight # {}
            /\ Cardinality(tight) # 1
  <2>1. touched \in SUBSET Clk
    BY <1>5
  <2>2. \A i, j \in Clk : i \notin touched \/ j \notin touched => T[i][j] = D[i][j]
    <3> SUFFICES ASSUME NEW i \in Clk, NEW j \in Clk, i \notin touched \/ j \notin touched
                 PROVE  <<i, j>> \notin tight
      BY <1>6
    <3>1. ASSUME <<i, j>> \in tight PROVE FALSE
      <4> DEFINE q == <<i, j>>
      <4>1. {q[1], q[2]} \subseteq touched
        BY <3>1
      <4> QED
        BY <4>1
    <3> QED
      BY <3>1
  <2>3. TightenedBy(D, S) = CloseVia(T, touched)
    BY <1>7, <1>11
  <2> HIDE DEF tight, touched
  <2>4. Tighter(T, D, touched)
    BY <1>1, <2>2 DEF Tighter
  <2> QED
    BY <1>1, <2>1, <2>3, <2>4 DEF T, ClosedSomehow
<1> QED
  BY <1>8, <1>9, <1>10, <1>11 DEF T

\* Whichever closure is picked, TightenedBy gives the zone of the smaller bounds.
LEMMA TightenedByCloses ==
  ASSUME NEW D, NEW B \in Nat, IsZone(D, B), (dim + 2) * B <= dbm_LE_OVERFLOW,
         NEW S \in WideMatrix, Bounded(S, B), ZeroDiagonal(S)
  PROVE  ClosureOf(TightenedBy(D, S), Entrywise(RawMin, D, S), (dim + 2) * B)
BY TightenedByWays, SomehowCloses

\* A difference satisfies the smaller of two raws when it satisfies both.
LEMMA WithinMin ==
  ASSUME NEW x \in Int, NEW y \in Int, NEW d \in Int, NEW g \in Nat \ {0}
  PROVE  Within(d, RawMin(x, y), g) <=> Within(d, x, g) /\ Within(d, y, g)
<1>1. CASE x < y
  <2>1. RawMin(x, y) = x
    BY <1>1 DEF RawMin
  <2>2. Within(d, x, g) => Within(d, y, g)
    BY <1>1, WithinMonotone
  <2> QED
    BY <2>1, <2>2
<1>2. CASE ~(x < y)
  <2>1. RawMin(x, y) = y /\ y <= x
    BY <1>2 DEF RawMin
  <2>2. Within(d, y, g) => Within(d, x, g)
    BY <2>1, WithinMonotone
  <2> QED
    BY <2>1, <2>2
<1> QED
  BY <1>1, <1>2

\* The points of the smaller bounds are the common points.
LEMMA SmallerBoundsPoints ==
  ASSUME NEW D \in WideMatrix, NEW S \in WideMatrix,
         NEW pt \in [Clk -> Int], NEW g \in Nat \ {0}
  PROVE  dbm_isRealPointIncluded(pt, Entrywise(RawMin, D, S), g)
           <=> dbm_isRealPointIncluded(pt, D, g) /\ dbm_isRealPointIncluded(pt, S, g)
<1> DEFINE T == Entrywise(RawMin, D, S)
<1>1. \A i, j \in Clk :
        Within(pt[i] - pt[j], T[i][j], g)
          <=> Within(pt[i] - pt[j], D[i][j], g) /\ Within(pt[i] - pt[j], S[i][j], g)
  <2> TAKE i, j \in Clk
  <2> DEFINE x == D[i][j]
             y == S[i][j]
             z == T[i][j]
             d == pt[i] - pt[j]
  <2>1. x \in Int /\ y \in Int /\ d \in Int
    BY WideEntry
  <2>2. z = RawMin(x, y)
    BY DEF Entrywise
  <2> HIDE DEF x, y, z, d
  <2>3. Within(d, z, g) <=> Within(d, x, g) /\ Within(d, y, g)
    BY <2>1, <2>2, WithinMin
  <2> QED
    BY <2>3 DEF x, y, z, d
<1> HIDE DEF T
<1>2. dbm_isRealPointIncluded(pt, T, g)
           <=> dbm_isRealPointIncluded(pt, D, g) /\ dbm_isRealPointIncluded(pt, S, g)
  BY <1>1 DEF dbm_isRealPointIncluded
<1> QED
  BY <1>2 DEF T

\* dbm_constrain1.
LEMMA Constrain1Closes ==
  ASSUME NEW D, NEW B \in Nat, IsZone(D, B), 3 * B <= dbm_LE_OVERFLOW, NEW c,
         c.i \in Clk, c.j \in Clk, c.i # c.j, c.value \in Int,
         -B < c.value, c.value < B
  PROVE  LET T == IF D[c.i][c.j] <= c.value THEN D ELSE [D EXCEPT ![c.i][c.j] = c.value]
         IN  ClosureOf(dbm_constrain1(D, c), T, 3 * B)
<1> DEFINE T == [D EXCEPT ![c.i][c.j] = c.value]
<1>1. D[c.i][c.j] \in Int
  BY WideEntry DEF IsZone
<1>2. CASE D[c.i][c.j] <= c.value
  <2>1. dbm_constrain1(D, c) = D
    BY <1>2 DEF dbm_constrain1
  <2>2. ClosureOf(D, D, 3 * B)
    BY ZoneIsClosure, ClosureWithin
  <2> QED
    BY <1>2, <2>1, <2>2
<1>3. CASE ~(D[c.i][c.j] <= c.value)
  <2>1. c.value < D[c.i][c.j]
    BY <1>1, <1>3
  <2>2. /\ TooTight(T, c.i, c.j) => NoPoints(T)
        /\ ~TooTight(T, c.i, c.j) => ClosureOf(dbm_closeij(T, c.i, c.j), T, 3 * B)
    BY <2>1, CloseOne
  <2>3. dbm_constrain1(D, c) = IF TooTight(T, c.i, c.j) THEN Empty
                               ELSE dbm_closeij(T, c.i, c.j)
    BY <1>3 DEF dbm_constrain1
  <2> QED
    BY <1>3, <2>2, <2>3, EmptyClosure
<1> QED
  BY <1>2, <1>3

\* A tightened entry is a constraint on the points.
LEMMA TightenedEntryPoints ==
  ASSUME NEW D \in WideMatrix, NEW b \in Clk, NEW a \in Clk, NEW v \in Int,
         NEW pt \in [Clk -> Int], NEW g \in Nat \ {0}
  PROVE  LET T == IF D[b][a] <= v THEN D ELSE [D EXCEPT ![b][a] = v]
         IN  dbm_isRealPointIncluded(pt, T, g)
               <=> dbm_isRealPointIncluded(pt, D, g) /\ Within(pt[b] - pt[a], v, g)
<1>1. \A i, j \in Clk : D[i][j] \in Int /\ pt[i] - pt[j] \in Int
  BY WideEntry
<1>2. CASE D[b][a] <= v
  <2>1. Within(pt[b] - pt[a], D[b][a], g) => Within(pt[b] - pt[a], v, g)
    BY <1>1, <1>2, WithinMonotone
  <2> QED
    BY <1>2, <2>1 DEF dbm_isRealPointIncluded
<1>3. CASE ~(D[b][a] <= v)
  <2> DEFINE T == [D EXCEPT ![b][a] = v]
  <2>1. \A i, j \in Clk : T[i][j] = IF i = b /\ j = a THEN v ELSE D[i][j]
    BY DEF WideMatrix
  <2> HIDE DEF T
  <2>2. v <= D[b][a]
    BY <1>1, <1>3
  <2>3. Within(pt[b] - pt[a], v, g) => Within(pt[b] - pt[a], D[b][a], g)
    BY <1>1, <2>2, WithinMonotone
  <2>4. dbm_isRealPointIncluded(pt, T, g)
               <=> dbm_isRealPointIncluded(pt, D, g) /\ Within(pt[b] - pt[a], v, g)
    BY <2>1, <2>3 DEF dbm_isRealPointIncluded
  <2> QED
    BY <1>3, <2>4 DEF T
<1> QED
  BY <1>2, <1>3

\* A constraint with a value between -B and B.
IsConstraint(c, B) ==
  c.i \in Clk /\ c.j \in Clk /\ c.i # c.j
    /\ c.value \in Int /\ -B < c.value /\ c.value < B

\* The states of such a computation.
ConstrainStates ==
  [dbm : WideMatrix, changed : Nat, touched : SUBSET Clk, last : Clk \X Clk]

\* One constraint: the type of the state.
LEMMA ConstrainStepType ==
  ASSUME NEW s \in ConstrainStates, NEW c, NEW B \in Nat, B <= dbm_LE_OVERFLOW,
         IsConstraint(c, B)
  PROVE  dbm_constrain(s, c) \in ConstrainStates
<1> DEFINE E == [s.dbm EXCEPT ![c.i][c.j] = c.value]
<1>1. s.dbm \in WideMatrix /\ s.changed \in Nat /\ s.touched \in SUBSET Clk
  BY DEF ConstrainStates
<1>2. c.i \in Clk /\ c.j \in Clk /\ c.value \in Int /\ c.value <= dbm_LS_INFINITY
  BY Infinity DEF IsConstraint
<1>3. E \in WideMatrix
  <2>1. s.dbm[c.i] \in [Clk -> {x \in Int : x <= dbm_LS_INFINITY}]
    BY <1>1, <1>2 DEF WideMatrix
  <2> QED
    BY <1>1, <1>2, <2>1 DEF WideMatrix
<1>4. Empty \in WideMatrix
  BY EmptyIsNegative
<1> HIDE DEF E
<1>5. CASE s.dbm = Empty \/ s.dbm[c.i][c.j] <= c.value
  BY <1>5 DEF dbm_constrain
<1>6. CASE ~(s.dbm = Empty \/ s.dbm[c.i][c.j] <= c.value)
  <2> DEFINE m == IF TooTight(E, c.i, c.j) THEN Empty ELSE E
  <2>1. m \in WideMatrix
    BY <1>3, <1>4
  <2>2. dbm_constrain(s, c) =
           [dbm |-> m, changed |-> s.changed + 1,
            touched |-> s.touched \cup {c.i, c.j}, last |-> <<c.i, c.j>>]
    BY <1>6 DEF dbm_constrain, E
  <2> HIDE DEF m
  <2>3. s.changed + 1 \in Nat /\ s.touched \cup {c.i, c.j} \in SUBSET Clk
        /\ <<c.i, c.j>> \in Clk \X Clk
    BY <1>1, <1>2
  <2> QED
    BY <2>1, <2>2, <2>3 DEF ConstrainStates
<1> QED
  BY <1>5, <1>6

\* The states after each constraint.
LEMMA ConstrainRuns ==
  ASSUME NEW D \in WideMatrix, NEW B \in Nat, B <= dbm_LE_OVERFLOW,
         NEW cs, Len(cs) \in Nat, \A n \in 1 .. Len(cs) : IsConstraint(cs[n], B)
  PROVE  \E state \in [0 .. Len(cs) -> ConstrainStates] :
           /\ state[0] = ConstrainStart(D)
           /\ \A n \in 1 .. Len(cs) : state[n] = dbm_constrain(state[n - 1], cs[n])
           /\ ConstrainAll(D, cs) = state[Len(cs)]
<1> DEFINE len == Len(cs)
           start == ConstrainStart(D)
           step == [p \in Nat \X ConstrainStates |->
                      IF p[1] \in 1 .. len THEN dbm_constrain(p[2], cs[p[1]]) ELSE p[2]]
<1>1. start \in ConstrainStates
  BY DimAssumption DEF ConstrainStart, ConstrainStates, Clk
<1>2. step \in [Nat \X ConstrainStates -> ConstrainStates]
  <2>1. ASSUME NEW n \in Nat, NEW s \in ConstrainStates, n \in 1 .. len
        PROVE  dbm_constrain(s, cs[n]) \in ConstrainStates
    BY <2>1, ConstrainStepType
  <2> QED
    BY <2>1
<1>3. \A n \in 1 .. len, s \in ConstrainStates : step[<<n, s>>] = dbm_constrain(s, cs[n])
  OBVIOUS
<1> HIDE DEF step, start
<1>4. PICK f \in [0 .. len -> ConstrainStates] : Runs(f, len, start, step)
  <2>1. len \in Nat
    OBVIOUS
  <2> HIDE DEF len
  <2> QED
    BY <1>1, <1>2, <2>1, Recursion
<1>5. f = [n \in 0 .. len |-> IF n = 0 THEN start ELSE dbm_constrain(f[n - 1], cs[n])]
  <2>1. ASSUME NEW n \in 0 .. len, n # 0
        PROVE  step[<<n, f[n - 1]>>] = dbm_constrain(f[n - 1], cs[n])
    <3>1. n \in 1 .. len /\ n - 1 \in 0 .. len
      BY <2>1
    <3> QED
      BY <1>3, <3>1
  <2>2. [n \in 0 .. len |-> IF n = 0 THEN start ELSE step[<<n, f[n - 1]>>]]
          = [n \in 0 .. len |-> IF n = 0 THEN start ELSE dbm_constrain(f[n - 1], cs[n])]
    BY <2>1
  <2> QED
    BY <1>4, <2>2 DEF Runs
<1> DEFINE IsRun(a) ==
             a = [n \in 0 .. len |-> IF n = 0 THEN start ELSE dbm_constrain(a[n - 1], cs[n])]
           state == CHOOSE a : IsRun(a)
<1>6. IsRun(state)
  BY <1>5
<1>7. ConstrainAll(D, cs) = state[len]
  BY DEF ConstrainAll, start
<1> HIDE DEF state
<1>8. DOMAIN state = 0 .. len /\ state[0] = start
  BY <1>6
<1>9. \A n \in 1 .. len : state[n] = dbm_constrain(state[n - 1], cs[n])
  BY <1>6
<1>10. \A n \in 0 .. len : state[n] \in ConstrainStates
  <2> DEFINE S == {n \in Nat : n <= len => state[n] \in ConstrainStates}
  <2>1. 0 \in S
    BY <1>1, <1>8
  <2>2. ASSUME NEW n \in Nat, n \in S PROVE n + 1 \in S
    <3> SUFFICES ASSUME n + 1 <= len PROVE state[n + 1] \in ConstrainStates
      OBVIOUS
    <3>1. n + 1 \in 1 .. len /\ (n + 1) - 1 = n /\ state[n] \in ConstrainStates
      BY <2>2
    <3>2. state[n + 1] = dbm_constrain(state[n], cs[n + 1])
      BY <1>9, <3>1
    <3> QED
      BY <3>1, <3>2, ConstrainStepType
  <2> HIDE DEF S
  <2>3. \A n \in Nat : n \in S
    BY <2>1, <2>2, Induction
  <2> QED
    BY <2>3 DEF S
<1>11. state \in [0 .. len -> ConstrainStates]
  BY <1>6, <1>8, <1>10
<1> QED
  BY <1>7, <1>8, <1>9, <1>11 DEF start

\* What the loop knows of its matrix.
Constraining(s, D, B) ==
  \/ s.dbm = Empty
  \/ /\ Tighter(s.dbm, D, s.touched) /\ Bounded(s.dbm, B)
     /\ s.changed = 0 => s.dbm = D
     /\ s.changed = 1 => OneBound(s.dbm, D, s.last, B)

\* One constraint is one step of such a computation.
LEMMA ConstrainStepKeeps ==
  ASSUME NEW D, NEW B \in Nat, IsZone(D, B), B <= dbm_LE_OVERFLOW, NEW c, IsConstraint(c, B),
         NEW s \in ConstrainStates, Constraining(s, D, B)
  PROVE  LET F == dbm_constrain(s, c)
         IN  /\ Constraining(F, D, B)
             /\ \A pt \in [Clk -> Int], g \in Nat \ {0} :
                  dbm_isRealPointIncluded(pt, F.dbm, g)
                    <=> dbm_isRealPointIncluded(pt, s.dbm, g)
                        /\ Within(pt[c.i] - pt[c.j], c.value, g)
<1> DEFINE F == dbm_constrain(s, c)
           T == [s.dbm EXCEPT ![c.i][c.j] = c.value]
           t == s.touched \cup {c.i, c.j}
<1>1. /\ c.i \in Clk /\ c.j \in Clk /\ c.i # c.j /\ c.value \in Int
      /\ -B < c.value /\ c.value < B /\ c.value < dbm_LS_INFINITY
  BY Infinity DEF IsConstraint
<1>2. s.dbm \in WideMatrix /\ s.changed \in Nat
  BY DEF ConstrainStates
<1>3. \A i, j \in Clk : s.dbm[i][j] \in Int /\ s.dbm[i][j] <= dbm_LS_INFINITY
  BY <1>2, WideEntry
<1>4. \A pt \in [Clk -> Int], g \in Nat \ {0} : ~dbm_isRealPointIncluded(pt, Empty, g)
  BY EmptyIsNegative DEF NoPoints
<1>5. CASE s.dbm = Empty
  <2>1. F = s
    BY <1>5 DEF dbm_constrain
  <2> QED
    BY <1>4, <1>5, <2>1
<1>6. CASE s.dbm # Empty /\ s.dbm[c.i][c.j] <= c.value
  <2>1. F = s
    BY <1>6 DEF dbm_constrain
  <2>2. \A pt \in [Clk -> Int], g \in Nat \ {0} :
                  dbm_isRealPointIncluded(pt, s.dbm, g)
                    <=> dbm_isRealPointIncluded(pt, s.dbm, g)
                        /\ Within(pt[c.i] - pt[c.j], c.value, g)
    <3> DEFINE M == s.dbm
               b == c.i
               a == c.j
               v == c.value
    <3>1. M \in WideMatrix /\ b \in Clk /\ a \in Clk /\ v \in Int /\ M[b][a] <= v
      BY <1>1, <1>2, <1>6
    <3> HIDE DEF M, b, a, v
    <3>2. \A pt \in [Clk -> Int], g \in Nat \ {0} :
            dbm_isRealPointIncluded(pt, M, g)
              <=> dbm_isRealPointIncluded(pt, M, g) /\ Within(pt[b] - pt[a], v, g)
      BY <3>1, TightenedEntryPoints
    <3> QED
      BY <3>2 DEF M, b, a, v
  <2> QED
    BY <2>1, <2>2
<1>7. CASE s.dbm # Empty /\ ~(s.dbm[c.i][c.j] <= c.value)
  <2>1. /\ F.dbm = (IF TooTight(T, c.i, c.j) THEN Empty ELSE T)
        /\ F.changed = s.changed + 1 /\ F.touched = t /\ F.last = <<c.i, c.j>>
    BY <1>7 DEF dbm_constrain
  <2> HIDE DEF F
  <2>2. \A pt \in [Clk -> Int], g \in Nat \ {0} :
                  dbm_isRealPointIncluded(pt, T, g)
                    <=> dbm_isRealPointIncluded(pt, s.dbm, g)
                        /\ Within(pt[c.i] - pt[c.j], c.value, g)
    BY <1>1, <1>2, <1>7, TightenedEntryPoints
  <2>3. /\ Tighter(s.dbm, D, s.touched) /\ Bounded(s.dbm, B)
        /\ s.changed = 0 => s.dbm = D
    BY <1>7 DEF Constraining
  <2>4. \A i, j \in Clk : T[i][j] = IF i = c.i /\ j = c.j THEN c.value ELSE s.dbm[i][j]
    BY <1>2 DEF WideMatrix
  <2>5. T \in WideMatrix
    <3>1. s.dbm[c.i] \in [Clk -> {x \in Int : x <= dbm_LS_INFINITY}]
      BY <1>1, <1>2 DEF WideMatrix
    <3>2. c.value <= dbm_LS_INFINITY
      BY <1>1, Infinity
    <3> QED
      BY <1>1, <1>2, <3>1, <3>2 DEF WideMatrix
  <2>6. Bounded(T, B)
    BY <1>1, <2>3, <2>4 DEF Bounded
  <2>12. \A i, j \in Clk : D[i][j] \in Int
    BY WideEntry DEF IsZone
  <2>13. c.value < s.dbm[c.i][c.j]
    BY <1>1, <1>3, <1>7
  <2>7. Tighter(T, D, t)
    <3>1. ZeroDiagonal(T)
      BY <1>1, <2>3, <2>4 DEF Tighter, ZeroDiagonal
    <3>2. NoLooser(T, D)
      <4> SUFFICES ASSUME NEW i \in Clk, NEW j \in Clk PROVE T[i][j] <= D[i][j]
        BY DEF NoLooser
      <4>1. s.dbm[i][j] <= D[i][j] /\ s.dbm[i][j] \in Int /\ D[i][j] \in Int
        BY <1>3, <2>3, <2>12 DEF Tighter, NoLooser
      <4> QED
        BY <1>1, <2>4, <2>13, <4>1
    <3>3. \A i, j \in Clk : i \notin t \/ j \notin t => T[i][j] = D[i][j]
      <4> HIDE DEF T
      <4> QED
        BY <2>3, <2>4 DEF Tighter
    <3> QED
      BY <2>5, <3>1, <3>2, <3>3 DEF Tighter
  <2>8. CASE TooTight(T, c.i, c.j)
    <3>1. NoPoints(T)
      BY <1>1, <2>5, <2>6, <2>8, TooTightIsEmpty
    <3>2. F.dbm = Empty
      BY <2>1, <2>8
    <3>3. Constraining(F, D, B)
      BY <3>2 DEF Constraining
    <3>4. \A pt \in [Clk -> Int], g \in Nat \ {0} :
            dbm_isRealPointIncluded(pt, F.dbm, g)
              <=> dbm_isRealPointIncluded(pt, T, g)
      BY <1>4, <3>1, <3>2 DEF NoPoints
    <3> QED
      BY <2>2, <3>3, <3>4 DEF F
  <2>9. CASE ~TooTight(T, c.i, c.j)
    <3>1. F.dbm = T
      BY <2>1, <2>9
    <3>2. F.changed # 0
      BY <1>2, <2>1
    <3>3. F.changed = 1 => OneBound(F.dbm, D, F.last, B)
      <4> SUFFICES ASSUME F.changed = 1 PROVE OneBound(F.dbm, D, F.last, B)
        OBVIOUS
      <4>1. s.dbm = D
        BY <1>2, <2>1, <2>3
      <4>2. c.value < D[c.i][c.j] /\ T = [D EXCEPT ![c.i][c.j] = c.value]
        BY <2>13, <4>1
      <4> HIDE DEF T
      <4> QED
        BY <1>1, <2>1, <2>9, <3>1, <4>2 DEF OneBound
    <3>4. Tighter(F.dbm, D, F.touched) /\ Bounded(F.dbm, B)
      BY <2>1, <2>6, <2>7, <3>1
    <3>5. Constraining(F, D, B)
      BY <3>2, <3>3, <3>4 DEF Constraining
    <3> QED
      BY <2>2, <3>1, <3>5 DEF F
  <2> QED
    BY <2>8, <2>9
<1> QED
  BY <1>5, <1>6, <1>7

\* A closed matrix stays below the matrix if it satisfies the constraint.
LEMMA ConstrainStepBelow ==
  ASSUME NEW D, NEW B \in Nat, IsZone(D, B), B <= dbm_LE_OVERFLOW, NEW c, IsConstraint(c, B),
         NEW s \in ConstrainStates, Constraining(s, D, B),
         NEW F \in WideMatrix, Closed(F)
  PROVE  NoLooser(F, dbm_constrain(s, c).dbm)
           <=> NoLooser(F, s.dbm) /\ F[c.i][c.j] <= c.value
<1> DEFINE T == [s.dbm EXCEPT ![c.i][c.j] = c.value]
<1>1. /\ c.i \in Clk /\ c.j \in Clk /\ c.i # c.j /\ c.value \in Int
      /\ -B < c.value /\ c.value < B /\ c.value <= dbm_LS_INFINITY
  BY Infinity DEF IsConstraint
<1>2. s.dbm \in WideMatrix
  BY DEF ConstrainStates
<1>3. \A i, j \in Clk : /\ s.dbm[i][j] \in Int /\ s.dbm[i][j] <= dbm_LS_INFINITY
                        /\ F[i][j] \in Int
  BY <1>2, WideEntry
<1>4. ~NoLooser(F, Empty)
  <2>1. 0 \in Clk
    BY DimAssumption DEF Clk
  <2>2. F[0][0] = 1 /\ Empty[0][0] = -1
    BY <2>1 DEF Closed, ZeroDiagonal, Empty, dbm_LE_ZERO
  <2> QED
    BY <2>1, <2>2 DEF NoLooser
<1>5. CASE s.dbm = Empty
  BY <1>4, <1>5 DEF dbm_constrain
<1>6. CASE s.dbm # Empty /\ s.dbm[c.i][c.j] <= c.value
  <2>1. dbm_constrain(s, c) = s
    BY <1>6 DEF dbm_constrain
  <2>2. NoLooser(F, s.dbm) => F[c.i][c.j] <= s.dbm[c.i][c.j]
    BY <1>1 DEF NoLooser
  <2> QED
    BY <1>1, <1>3, <1>6, <2>1, <2>2
<1>7. CASE s.dbm # Empty /\ ~(s.dbm[c.i][c.j] <= c.value)
  <2>1. dbm_constrain(s, c).dbm = IF TooTight(T, c.i, c.j) THEN Empty ELSE T
    BY <1>7 DEF dbm_constrain
  <2>2. \A i, j \in Clk : T[i][j] = IF i = c.i /\ j = c.j THEN c.value ELSE s.dbm[i][j]
    BY <1>2 DEF WideMatrix
  <2>3. T \in WideMatrix
    <3>1. s.dbm[c.i] \in [Clk -> {x \in Int : x <= dbm_LS_INFINITY}]
      BY <1>1, <1>2 DEF WideMatrix
    <3> QED
      BY <1>1, <1>2, <3>1 DEF WideMatrix
  <2>4. Bounded(T, B)
    <3>1. Bounded(s.dbm, B)
      BY <1>7 DEF Constraining
    <3> QED
      BY <1>1, <2>2, <3>1 DEF Bounded
  <2> HIDE DEF T
  <2>5. NoLooser(F, T) <=> NoLooser(F, s.dbm) /\ F[c.i][c.j] <= c.value
    <3>1. c.value < s.dbm[c.i][c.j] /\ F[c.i][c.j] \in Int /\ s.dbm[c.i][c.j] \in Int
      BY <1>1, <1>3, <1>7
    <3>2. F[c.i][c.j] <= c.value => F[c.i][c.j] <= s.dbm[c.i][c.j]
      BY <1>1, <3>1
    <3>3. T[c.i][c.j] = c.value
      BY <1>1, <2>2
    <3> QED
      BY <1>1, <2>2, <3>2, <3>3 DEF NoLooser
  <2>6. TooTight(T, c.i, c.j) => ~NoLooser(F, T)
    BY <1>1, <2>3, <2>4, TooTightHasNone DEF ClosedBelow
  <2> QED
    BY <1>4, <2>1, <2>5, <2>6
<1> QED
  BY <1>5, <1>6, <1>7

\* The points of D that satisfy the first n constraints.
Satisfies(pt, g, D, cs, n) ==
  /\ dbm_isRealPointIncluded(pt, D, g)
  /\ \A m \in 1 .. n : Within(pt[cs[m].i] - pt[cs[m].j], cs[m].value, g)

\* F satisfies the first n constraints.
Obeys(F, cs, n) == \A m \in 1 .. n : F[cs[m].i][cs[m].j] <= cs[m].value

\* After any number of constraints, before the closure: the points of D, and the closed
\* matrices below D, that satisfy the constraints.
LEMMA ConstrainAllMeans ==
  ASSUME NEW D, NEW B \in Nat, IsZone(D, B), (dim + 2) * B <= dbm_LE_OVERFLOW,
         NEW cs, Len(cs) \in Nat, \A n \in 1 .. Len(cs) : IsConstraint(cs[n], B)
  PROVE  LET end == ConstrainAll(D, cs)
         IN  /\ Constraining(end, D, B) /\ end \in ConstrainStates
             /\ \A pt \in [Clk -> Int], g \in Nat \ {0} :
                  dbm_isRealPointIncluded(pt, end.dbm, g) <=> Satisfies(pt, g, D, cs, Len(cs))
             /\ \A F \in WideMatrix :
                  Closed(F) =>
                    (NoLooser(F, end.dbm) <=> NoLooser(F, D) /\ Obeys(F, cs, Len(cs)))
<1> DEFINE len == Len(cs)
<1>1. B <= dbm_LE_OVERFLOW
  BY RoomWithin
<1>2. D \in WideMatrix /\ Bounded(D, B) /\ ZeroDiagonal(D)
  BY DEF IsZone, Closed
<1>3. PICK state \in [0 .. len -> ConstrainStates] :
           /\ state[0] = ConstrainStart(D)
           /\ \A n \in 1 .. len : state[n] = dbm_constrain(state[n - 1], cs[n])
           /\ ConstrainAll(D, cs) = state[len]
  BY <1>1, <1>2, ConstrainRuns
<1> DEFINE Good(n) ==
             /\ Constraining(state[n], D, B)
             /\ \A pt \in [Clk -> Int], g \in Nat \ {0} :
                  dbm_isRealPointIncluded(pt, state[n].dbm, g)
                    <=> Satisfies(pt, g, D, cs, n)
             /\ \A F \in WideMatrix :
                  Closed(F) => (NoLooser(F, state[n].dbm) <=> NoLooser(F, D) /\ Obeys(F, cs, n))
           S == {n \in Nat : n <= len => Good(n)}
<1>4. 0 \in S
  <2>1. state[0].dbm = D /\ state[0].changed = 0 /\ state[0].touched = {}
    BY <1>3 DEF ConstrainStart
  <2>2. \A i, j \in Clk : D[i][j] \in Int
    BY <1>2, WideEntry
  <2>3. Tighter(D, D, {})
    BY <1>2, <2>2 DEF Tighter, NoLooser
  <2>4. Constraining(state[0], D, B)
    BY <1>2, <2>1, <2>3 DEF Constraining
  <2>5. \A pt, g : Satisfies(pt, g, D, cs, 0) <=> dbm_isRealPointIncluded(pt, D, g)
    BY DEF Satisfies
  <2>6. \A F : Obeys(F, cs, 0)
    BY DEF Obeys
  <2> QED
    BY <2>1, <2>4, <2>5, <2>6
<1>5. ASSUME NEW n \in Nat, n \in S PROVE n + 1 \in S
  <2> SUFFICES ASSUME n + 1 <= len PROVE Good(n + 1)
    OBVIOUS
  <2>1. n + 1 \in 1 .. len /\ (n + 1) - 1 = n /\ n \in 0 .. len /\ Good(n)
    BY <1>5
  <2> DEFINE c == cs[n + 1]
  <2>2. state[n + 1] = dbm_constrain(state[n], c) /\ state[n] \in ConstrainStates
        /\ IsConstraint(c, B)
    BY <1>3, <2>1
  <2>3. /\ Constraining(state[n + 1], D, B)
        /\ \A pt \in [Clk -> Int], g \in Nat \ {0} :
             dbm_isRealPointIncluded(pt, state[n + 1].dbm, g)
               <=> dbm_isRealPointIncluded(pt, state[n].dbm, g)
                   /\ Within(pt[c.i] - pt[c.j], c.value, g)
    <3> HIDE DEF c
    <3> QED
      BY <1>1, <2>1, <2>2, ConstrainStepKeeps
  <2>4. \A pt, g : Satisfies(pt, g, D, cs, n + 1)
                     <=> Satisfies(pt, g, D, cs, n) /\ Within(pt[c.i] - pt[c.j], c.value, g)
    <3>1. \A m : m \in 1 .. n + 1 <=> m \in 1 .. n \/ m = n + 1
      OBVIOUS
    <3> QED
      BY <3>1 DEF Satisfies
  <2>5. ASSUME NEW F \in WideMatrix, Closed(F)
        PROVE  NoLooser(F, state[n + 1].dbm)
                 <=> NoLooser(F, state[n].dbm) /\ F[c.i][c.j] <= c.value
    <3> HIDE DEF c
    <3> QED
      BY <1>1, <2>1, <2>2, <2>5, ConstrainStepBelow
  <2>6. \A F : Obeys(F, cs, n + 1) <=> Obeys(F, cs, n) /\ F[c.i][c.j] <= c.value
    <3>1. \A m : m \in 1 .. n + 1 <=> m \in 1 .. n \/ m = n + 1
      OBVIOUS
    <3> QED
      BY <3>1 DEF Obeys
  <2> HIDE DEF c
  <2>7. \A F \in WideMatrix :
          Closed(F) => (NoLooser(F, state[n + 1].dbm) <=> NoLooser(F, D) /\ Obeys(F, cs, n + 1))
    BY <2>1, <2>5, <2>6
  <2> QED
    BY <2>1, <2>3, <2>4, <2>7
<1> HIDE DEF S
<1>6. len \in S
  BY <1>4, <1>5, Induction
<1>7. Good(len) /\ state[len] \in ConstrainStates
  BY <1>6 DEF S
<1> QED
  BY <1>3, <1>7

\* The matrix that is closed has these points and these matrices below it, in whichever of
\* the ways it is closed.
LEMMA ConstrainWays ==
  ASSUME NEW D, NEW B \in Nat, IsZone(D, B), (dim + 2) * B <= dbm_LE_OVERFLOW,
         NEW cs, Len(cs) \in Nat, \A n \in 1 .. Len(cs) : IsConstraint(cs[n], B),
         NEW E, E = dbm_constrainN(D, cs) \/ E = dbm_constrainThenClose(D, cs)
  PROVE  \E T :
           /\ (E = Empty /\ T = Empty) \/ ClosedSomehow(E, T, D, B)
           /\ \A pt \in [Clk -> Int], g \in Nat \ {0} :
                dbm_isRealPointIncluded(pt, T, g) <=> Satisfies(pt, g, D, cs, Len(cs))
           /\ \A F \in WideMatrix :
                Closed(F) => (NoLooser(F, T) <=> NoLooser(F, D) /\ Obeys(F, cs, Len(cs)))
<1> DEFINE len == Len(cs)
           end == ConstrainAll(D, cs)
<1>1. /\ Constraining(end, D, B) /\ end \in ConstrainStates
      /\ \A pt \in [Clk -> Int], g \in Nat \ {0} :
           dbm_isRealPointIncluded(pt, end.dbm, g) <=> Satisfies(pt, g, D, cs, len)
      /\ \A F \in WideMatrix :
           Closed(F) => (NoLooser(F, end.dbm) <=> NoLooser(F, D) /\ Obeys(F, cs, len))
  BY ConstrainAllMeans
<1>2. \/ end.dbm = Empty /\ E = Empty
      \/ end.dbm # Empty /\ end.changed = 0 /\ E = end.dbm
      \/ end.dbm # Empty /\ end.changed = 1
           /\ E = dbm_closeij(end.dbm, end.last[1], end.last[2])
      \/ end.dbm # Empty /\ E = CloseVia(end.dbm, end.touched)
  BY DEF dbm_constrainN, dbm_constrainThenClose, dbm_closex
<1> HIDE DEF end
<1>3. (E = Empty /\ end.dbm = Empty) \/ ClosedSomehow(E, end.dbm, D, B)
  <2>1. CASE end.dbm = Empty /\ E = Empty
    BY <2>1
  <2>2. CASE end.dbm # Empty /\ end.changed = 0 /\ E = end.dbm
    BY <1>1, <2>2 DEF Constraining, ClosedSomehow
  <2>3. CASE end.dbm # Empty /\ end.changed = 1
               /\ E = dbm_closeij(end.dbm, end.last[1], end.last[2])
    BY <1>1, <2>3 DEF Constraining, ClosedSomehow
  <2>4. CASE end.dbm # Empty /\ E = CloseVia(end.dbm, end.touched)
    <3>1. Tighter(end.dbm, D, end.touched) /\ Bounded(end.dbm, B)
      BY <1>1, <2>4 DEF Constraining
    <3>2. end.touched \in SUBSET Clk
      BY <1>1 DEF ConstrainStates
    <3> QED
      BY <2>4, <3>1, <3>2 DEF ClosedSomehow
  <2> QED
    BY <1>2, <2>1, <2>2, <2>3, <2>4
<1> QED
  BY <1>1, <1>3

\* What it leaves is a zone with the points that satisfy the constraints.
LEMMA ConstrainCloses ==
  ASSUME NEW D, NEW B \in Nat, IsZone(D, B), (dim + 2) * B <= dbm_LE_OVERFLOW,
         NEW cs, Len(cs) \in Nat, \A n \in 1 .. Len(cs) : IsConstraint(cs[n], B),
         NEW E, E = dbm_constrainN(D, cs) \/ E = dbm_constrainThenClose(D, cs)
  PROVE  /\ E = Empty \/ IsZone(E, (dim + 2) * B)
         /\ \A pt \in [Clk -> Int], g \in Nat \ {0} :
              dbm_isRealPointIncluded(pt, E, g) <=> Satisfies(pt, g, D, cs, Len(cs))
<1>1. PICK T : /\ (E = Empty /\ T = Empty) \/ ClosedSomehow(E, T, D, B)
               /\ \A pt \in [Clk -> Int], g \in Nat \ {0} :
                    dbm_isRealPointIncluded(pt, T, g) <=> Satisfies(pt, g, D, cs, Len(cs))
  BY ConstrainWays
<1>2. ClosureOf(E, T, (dim + 2) * B)
  BY <1>1, SomehowCloses, EmptyIsNegative, EmptyClosure
<1> QED
  BY <1>1, <1>2 DEF ClosureOf, SamePoints

\* dbm_close1 is one pass.
LEMMA OnePass ==
  ASSUME NEW D \in WideMatrix, NEW c \in Clk
  PROVE  CloseVia(D, {c}) = ClosePass(D, c, {c})
<1>1. PICK after \in [0 .. dim -> WideMatrix] :
        /\ after[0] = D
        /\ \A n \in 1 .. dim : after[n] = ClosePass(after[n - 1], n - 1, {c})
        /\ CloseVia(D, {c}) = after[dim]
  <2> DEFINE one == {c}
  <2>1. one \in SUBSET Clk
    OBVIOUS
  <2> HIDE DEF one
  <2>2. \E after \in [0 .. dim -> WideMatrix] :
           /\ after[0] = D
           /\ \A n \in 1 .. dim : after[n] = ClosePass(after[n - 1], n - 1, one)
           /\ CloseVia(D, one) = after[dim]
    BY <2>1, CloseRuns
  <2> QED
    BY <2>2 DEF one
<1> DEFINE P == ClosePass(D, c, {c})
           Good(n) == after[n] = IF n <= c THEN D ELSE P
           S == {n \in Nat : n <= dim => Good(n)}
<1>2. dim \in Nat /\ c \in Nat /\ c < dim
  BY DimAssumption DEF Clk
<1>3. 0 \in S
  BY <1>1, <1>2
<1> HIDE DEF P
<1>4. ASSUME NEW n \in Nat, n \in S PROVE n + 1 \in S
  <2> SUFFICES ASSUME n + 1 <= dim PROVE Good(n + 1)
    OBVIOUS
  <2>1. n + 1 \in 1 .. dim /\ (n + 1) - 1 = n /\ Good(n)
    BY <1>2, <1>4
  <2>2. after[n + 1] = ClosePass(after[n], n, {c})
    BY <1>1, <2>1
  <2>3. CASE n < c
    <3>1. after[n + 1] = after[n] /\ after[n] = D
      BY <1>2, <2>1, <2>2, <2>3 DEF ClosePass
    <3> QED
      BY <1>2, <2>3, <3>1
  <2>4. CASE n = c
    <3>1. after[n] = D
      BY <1>2, <2>1, <2>4
    <3>2. after[n + 1] = P
      BY <2>2, <2>4, <3>1 DEF P
    <3> QED
      BY <1>2, <2>4, <3>2
  <2>5. CASE n > c
    <3>1. after[n + 1] = after[n] /\ after[n] = P
      BY <1>2, <2>1, <2>2, <2>5 DEF ClosePass
    <3> QED
      BY <1>2, <2>5, <3>1
  <2> QED
    BY <1>2, <2>3, <2>4, <2>5
<1> HIDE DEF S
<1>5. dim \in S
  BY <1>2, <1>3, <1>4, Induction
<1> QED
  BY <1>1, <1>2, <1>5 DEF S, P

\* A tightened zone before the passes for its touched clocks.
LEMMA TighterBefore ==
  ASSUME NEW D, NEW B \in Nat, IsZone(D, B), NEW touched \in SUBSET Clk,
         NEW T, Tighter(T, D, touched), Bounded(T, B)
  PROVE  ClosedUpTo(T, 0, T, touched, B)
<1>1. T \in WideMatrix /\ ZeroDiagonal(T)
  BY DEF Tighter
<1>2. \A c \in Clk : c \notin touched \/ c < 0 => ShortcutVia(T, c)
  <2>1. \A c \in Clk : ~(c < 0)
    BY DimAssumption DEF Clk
  <2>2. \A c \in Clk \ touched : ShortcutVia(T, c)
    BY UntouchedShortcuts
  <2> QED
    BY <2>1, <2>2
<1>3. Spread(T, {c \in touched : c < 0}, RawsBelow(B))
  BY <1>1, SpreadFromBounds
<1>4. NoLooser(T, T) /\ SamePoints(T, T)
  BY <1>1, WideEntry DEF NoLooser, SamePoints
<1> QED
  BY <1>1, <1>2, <1>3, <1>4 DEF ClosedUpTo

\* What a matrix that is closed for all clocks means for a tightened zone.
LEMMA ClosedIsClosure ==
  ASSUME NEW D, NEW A, IsZone(D, A), NEW touched \in SUBSET Clk,
         NEW T, Tighter(T, D, touched), NEW B \in Nat, NEW E, NEW n \in Int,
         ClosedUpTo(E, n, T, touched, B), \A c \in touched : c < n
  PROVE  ClosureOf(E, T, (dim + 1) * B)
<1>1. /\ E \in WideMatrix /\ ZeroDiagonal(E) /\ NoLooser(E, T) /\ SamePoints(T, E)
      /\ \A c \in Clk : ShortcutVia(E, c)
      /\ Spread(E, {c \in touched : c < n}, RawsBelow(B))
  BY DEF ClosedUpTo
<1>2. {c \in touched : c < n} \in SUBSET Clk
  OBVIOUS
<1>3. Bounded(E, (dim + 1) * B)
  BY <1>1, <1>2, BoundsOfSpread
<1>4. \A j \in Clk : E[0][j] <= dbm_LE_ZERO
  <2> TAKE j \in Clk
  <2>1. 0 \in Clk
    BY DimAssumption DEF Clk
  <2>2. D \in WideMatrix /\ T \in WideMatrix /\ NoLooser(T, D) /\ D[0][j] <= dbm_LE_ZERO
    BY DEF IsZone, Tighter
  <2>3. E[0][j] <= T[0][j] /\ T[0][j] <= D[0][j]
        /\ E[0][j] \in Int /\ T[0][j] \in Int /\ D[0][j] \in Int
    BY <1>1, <2>1, <2>2, WideEntry DEF NoLooser
  <2> QED
    BY <2>2, <2>3, Infinity
<1> QED
  BY <1>1, <1>3, <1>4 DEF ClosureOf, IsZone, Closed

\* Writing one entry of a matrix.
Shaped(D) == D = [i \in Clk |-> [j \in Clk |-> D[i][j]]]

Changed(E, D, b, a, v) == E = [D EXCEPT ![b][a] = v]

\* Changing one entry leaves the others.
LEMMA ChangedEntry ==
  ASSUME NEW D, Shaped(D), NEW b \in Clk, NEW a \in Clk, NEW v,
         NEW E, Changed(E, D, b, a, v)
  PROVE  /\ Shaped(E)
         /\ \A i, j \in Clk : E[i][j] = IF i = b /\ j = a THEN v ELSE D[i][j]
<1>1. DOMAIN D = Clk /\ \A i \in Clk : D[i] = [j \in Clk |-> D[i][j]]
  BY DEF Shaped
<1>2. E = [i \in Clk |-> IF i = b THEN [D[b] EXCEPT ![a] = v] ELSE D[i]]
  BY <1>1 DEF Changed
<1>3. \A i, j \in Clk : E[i][j] = IF i = b /\ j = a THEN v ELSE D[i][j]
  BY <1>1, <1>2
<1>4. ASSUME NEW i \in Clk PROVE E[i] = [j \in Clk |-> E[i][j]]
  <2>1. CASE i = b
    <3>1. E[b] = [j \in Clk |-> IF j = a THEN v ELSE D[b][j]]
      BY <1>1, <1>2
    <3> QED
      BY <2>1, <3>1
  <2>2. CASE i # b
    <3>1. E[i] = D[i]
      BY <1>2, <2>2
    <3> QED
      BY <1>1, <3>1
  <2> QED
    BY <2>1, <2>2
<1>5. E = [i \in Clk |-> E[i]]
  BY <1>2
<1>6. E = [i \in Clk |-> [j \in Clk |-> E[i][j]]]
  BY <1>4, <1>5
<1> QED
  BY <1>3, <1>6 DEF Shaped

\* A zone with the bounds of a clock tightened to a value.
AtValue(D, k, value) ==
  [i \in Clk |-> [j \in Clk |->
     IF i = k /\ j = 0 THEN RawMin(D[k][0], dbm_bound2raw(value, dbm_WEAK))
     ELSE IF i = 0 /\ j = k THEN RawMin(D[0][k], dbm_bound2raw(-value, dbm_WEAK))
     ELSE D[i][j]]]

\* dbm_constrainClock leaves the closure of the zone at one value of a clock.
LEMMA ConstrainClockCloses ==
  ASSUME NEW D, NEW B \in Nat, IsZone(D, B), (dim + 2) * B <= dbm_LE_OVERFLOW,
         NEW k \in Clk, k # 0, NEW value \in Int,
         -B < 2 * value, 2 * value + 1 < B, -B < -(2 * value), 1 - 2 * value < B
  PROVE  ClosureOf(dbm_constrainClock(D, k, value), AtValue(D, k, value), (dim + 2) * B)
<1> DEFINE upper == dbm_bound2raw(value, dbm_WEAK)
           lower == dbm_bound2raw(-value, dbm_WEAK)
           U == [D EXCEPT ![k][0] = RawMin(@, upper)]
           L == [U EXCEPT ![0][k] = RawMin(@, lower)]
           T == AtValue(D, k, value)
           both == {0, k}
<1>1. /\ upper \in Int /\ lower \in Int /\ -B < upper /\ upper < B /\ -B < lower /\ lower < B
  BY DEF dbm_bound2raw, dbm_WEAK
<1>2. /\ (dim + 1) * B \in Int /\ (dim + 2) * B \in Int
      /\ (dim + 1) * B <= (dim + 2) * B /\ B <= (dim + 2) * B
      /\ (dim + 1) * B <= dbm_LE_OVERFLOW /\ B <= dbm_LE_OVERFLOW
  BY RoomWithin
<1>3. D \in WideMatrix /\ Bounded(D, B) /\ ZeroDiagonal(D)
  BY DEF IsZone, Closed
<1>4. 0 \in Clk /\ both \in SUBSET Clk
  BY DimAssumption DEF Clk
<1>5. \A i, j \in Clk : D[i][j] \in Int /\ D[i][j] <= dbm_LS_INFINITY
  BY <1>3, WideEntry
<1> HIDE DEF upper, lower
<1>6. /\ \A i, j \in Clk : U[i][j] = IF i = k /\ j = 0 THEN RawMin(D[k][0], upper)
                                     ELSE D[i][j]
      /\ \A i, j \in Clk : L[i][j] = IF i = k /\ j = 0 THEN RawMin(D[k][0], upper)
                                     ELSE IF i = 0 /\ j = k THEN RawMin(D[0][k], lower)
                                     ELSE D[i][j]
      /\ L = [i \in Clk |-> [j \in Clk |-> L[i][j]]]
  <2>1. Shaped(D)
    BY <1>3 DEF WideMatrix, Shaped
  <2>2. /\ Shaped(U)
        /\ \A i, j \in Clk : U[i][j] = IF i = k /\ j = 0 THEN RawMin(D[k][0], upper)
                                       ELSE D[i][j]
    <3> DEFINE u == RawMin(D[k][0], upper)
    <3>1. Changed(U, D, k, 0, u)
      BY DEF Changed
    <3> HIDE DEF u, U
    <3>2. /\ Shaped(U)
          /\ \A i, j \in Clk : U[i][j] = IF i = k /\ j = 0 THEN u ELSE D[i][j]
      BY <1>4, <2>1, <3>1, ChangedEntry
    <3> QED
      BY <3>2 DEF u
  <2> HIDE DEF U
  <2>3. /\ Shaped(L)
        /\ \A i, j \in Clk : L[i][j] = IF i = 0 /\ j = k THEN RawMin(U[0][k], lower)
                                       ELSE U[i][j]
    <3> DEFINE u == RawMin(U[0][k], lower)
    <3>1. Changed(L, U, 0, k, u)
      BY DEF Changed
    <3> HIDE DEF u, L
    <3>2. /\ Shaped(L)
          /\ \A i, j \in Clk : L[i][j] = IF i = 0 /\ j = k THEN u ELSE U[i][j]
      BY <1>4, <2>2, <3>1, ChangedEntry
    <3> QED
      BY <3>2 DEF u
  <2> HIDE DEF L
  <2>4. U[0][k] = D[0][k]
    BY <1>4, <2>2
  <2> QED
    BY <2>2, <2>3, <2>4 DEF Shaped
<1> HIDE DEF L, U
<1>7. L = T
  BY <1>6 DEF AtValue, upper, lower
<1>8. ASSUME NEW x \in Int, NEW y \in Int
      PROVE  /\ RawMin(x, y) \in Int /\ RawMin(x, y) <= x /\ RawMin(x, y) <= y
             /\ RawMin(x, y) = x \/ RawMin(x, y) = y
             /\ ~(x > y) => RawMin(x, y) = x
  BY DEF RawMin
<1>9. /\ L[k][0] = U[k][0] /\ L[0][k] \in Int /\ L[0][k] <= U[0][k] /\ U[k][0] \in Int
      /\ U[0][k] \in Int
  BY <1>1, <1>4, <1>5, <1>6, <1>8
<1>10. \A i, j \in Clk : /\ L[i][j] \in Int /\ L[i][j] <= D[i][j]
                         /\ L[i][j] # D[i][j] => L[i][j] = upper \/ L[i][j] = lower
  BY <1>1, <1>4, <1>5, <1>6, <1>8
<1>11. L \in WideMatrix
  <2>1. \A i, j \in Clk : L[i][j] \in Int /\ L[i][j] <= dbm_LS_INFINITY
    BY <1>5, <1>10, Infinity
  <2> QED
    BY <1>6, <2>1, EntriesType
<1>12. Bounded(L, B)
  BY <1>1, <1>3, <1>10 DEF Bounded
<1>13. Tighter(L, D, both)
  <2>1. ZeroDiagonal(L)
    BY <1>3, <1>6 DEF ZeroDiagonal
  <2>2. NoLooser(L, D)
    BY <1>10 DEF NoLooser
  <2>3. \A i, j \in Clk : i \notin both \/ j \notin both => L[i][j] = D[i][j]
    BY <1>6
  <2> QED
    BY <1>11, <2>1, <2>2, <2>3 DEF Tighter
<1> DEFINE Tight == \/ D[k][0] > upper /\ TooTight(U, k, 0)
                    \/ U[0][k] > lower /\ TooTight(L, 0, k)
           C == dbm_close1(L, 0)
           F == dbm_close1(C, k)
<1>14. dbm_constrainClock(D, k, value) =
         IF Tight THEN Empty ELSE IF L = D THEN D ELSE IF C = Empty THEN Empty ELSE F
  BY DEF dbm_constrainClock, upper, lower, U, L
<1>15. CASE Tight
  <2>1. TooTight(U, k, 0) => TooTight(L, k, 0)
    BY <1>9 DEF TooTight, dbm_negRaw
  <2>2. TooTight(L, k, 0) \/ TooTight(L, 0, k)
    BY <1>15, <2>1
  <2>3. NoPoints(L)
    BY <1>2, <1>4, <1>11, <1>12, <2>2, TooTightIsEmpty
  <2> HIDE DEF T
  <2> QED
    BY <1>7, <1>14, <1>15, <2>3, EmptyClosure DEF T
<1>16. CASE ~Tight /\ L = D
  <2> HIDE DEF T
  <2>1. ClosureOf(D, D, (dim + 2) * B)
    BY <1>2, ZoneIsClosure, ClosureWithin
  <2>2. dbm_constrainClock(D, k, value) = D
    BY <1>14, <1>16
  <2> QED
    BY <1>7, <1>16, <2>1, <2>2 DEF T
<1>17. CASE ~Tight /\ L # D
  <2>1. ClosedUpTo(L, 0, L, both, B)
    BY <1>4, <1>12, <1>13, TighterBefore
  <2>2. C = ClosePass(L, 0, both)
    <3>1. C = ClosePass(L, 0, {0})
      BY <1>4, <1>11, OnePass DEF dbm_close1
    <3> QED
      BY <3>1 DEF ClosePass
  <2> HIDE DEF C
  <2>3. \/ C = Empty /\ NoPoints(L)
        \/ ClosedUpTo(C, 0 + 1, L, both, B)
    <3> HIDE DEF both
    <3> QED
      BY <1>2, <1>4, <1>11, <2>1, <2>2, ClosePassStep
  <2>4. CASE C = Empty
    <3>1. NoPoints(L)
      <4>1. ClosedUpTo(C, 0 + 1, L, both, B) => C # Empty
        BY EmptyIsNegative DEF ClosedUpTo
      <4> QED
        BY <2>3, <2>4, <4>1
    <3>2. dbm_constrainClock(D, k, value) = Empty
      BY <1>14, <1>17, <2>4
    <3> HIDE DEF T
    <3> QED
      BY <1>7, <3>1, <3>2, EmptyClosure DEF T
  <2>5. CASE C # Empty
    <3>1. ClosedUpTo(C, 1, L, both, B)
      BY <2>3, <2>5
    <3>2. k \in Nat /\ 1 <= k
      BY DimAssumption DEF Clk
    <3>3. \A c \in both : c < k <=> c < 1
      BY <3>2
    <3>4. {c \in both : c < k} = {c \in both : c < 1}
      BY <3>3
    <3>5. \A c \in Clk : c \notin both \/ c < k => c \notin both \/ c < 1
      BY <3>3
    <3>6. ClosedUpTo(C, k, L, both, B)
      <4> HIDE DEF both
      <4> QED
        BY <3>1, <3>4, <3>5 DEF ClosedUpTo
    <3>7. F = ClosePass(C, k, both)
      <4>1. C \in WideMatrix
        BY <3>1 DEF ClosedUpTo
      <4>2. F = ClosePass(C, k, {k})
        BY <4>1, OnePass DEF dbm_close1
      <4> QED
        BY <4>2 DEF ClosePass
    <3>8. \A c \in both : c < k + 1
      BY <3>2
    <3> HIDE DEF F, T, both
    <3>9. \/ F = Empty /\ NoPoints(L)
          \/ ClosedUpTo(F, k + 1, L, both, B)
      BY <1>2, <1>4, <1>11, <3>6, <3>7, ClosePassStep
    <3>10. dbm_constrainClock(D, k, value) = F
      BY <1>14, <1>17, <2>5
    <3>11. CASE F = Empty /\ NoPoints(L)
      BY <1>7, <3>10, <3>11, EmptyClosure DEF T
    <3>12. CASE ClosedUpTo(F, k + 1, L, both, B)
      <4>1. ClosureOf(F, L, (dim + 1) * B)
        BY <1>4, <1>13, <3>2, <3>8, <3>12, ClosedIsClosure
      <4>2. ClosureOf(F, L, (dim + 2) * B)
        BY <1>2, <4>1, ClosureWithin
      <4> QED
        BY <1>7, <3>10, <4>2 DEF T
    <3> QED
      BY <3>9, <3>11, <3>12
  <2> QED
    BY <2>4, <2>5
<1> QED
  BY <1>15, <1>16, <1>17

\* What strictness does to a raw.
LEMMA StrictRaw ==
  /\ \A x \in Int : /\ dbm_strictRaw(x) \in Int
                    /\ x - 1 <= dbm_strictRaw(x) /\ dbm_strictRaw(x) <= x
  /\ dbm_strictRaw(dbm_LS_INFINITY) = dbm_LS_INFINITY
BY DEF dbm_strictRaw, dbm_rawIsWeak, dbm_LS_INFINITY

\* The intersection with a matrix that differs from the zone by one raw at most.
LEMMA TightenCloses ==
  ASSUME NEW D, NEW B \in Nat, IsZone(D, B), (dim + 2) * (B + 1) <= dbm_LE_OVERFLOW,
         NEW S, S = [i \in Clk |-> [j \in Clk |-> S[i][j]]],
         \A i, j \in Clk : S[i][j] = D[i][j] \/ (i # j /\ S[i][j] = dbm_strictRaw(D[i][j]))
  PROVE  ClosureOf(TightenedBy(D, S), Entrywise(RawMin, D, S), (dim + 2) * (B + 1))
<1>1. D \in WideMatrix /\ Bounded(D, B) /\ ZeroDiagonal(D)
  BY DEF IsZone, Closed
<1>2. ASSUME NEW i \in Clk, NEW j \in Clk
      PROVE  /\ S[i][j] \in Int /\ S[i][j] <= dbm_LS_INFINITY
             /\ S[i][j] # dbm_LS_INFINITY => -(B + 1) < S[i][j] /\ S[i][j] < B + 1
  <2>1. D[i][j] \in Int /\ D[i][j] <= dbm_LS_INFINITY
        /\ (D[i][j] # dbm_LS_INFINITY => -B < D[i][j] /\ D[i][j] < B)
    BY <1>1, WideEntry DEF Bounded
  <2>2. CASE D[i][j] = dbm_LS_INFINITY
    <3>1. S[i][j] = dbm_LS_INFINITY
      BY <2>2, StrictRaw
    <3> QED
      BY <3>1, Infinity
  <2>3. CASE D[i][j] # dbm_LS_INFINITY
    <3> DEFINE x == D[i][j]
               y == S[i][j]
    <3>1. x \in Int /\ x <= dbm_LS_INFINITY /\ -B < x /\ x < B
      BY <2>1, <2>3
    <3>2. y = x \/ y = dbm_strictRaw(x)
      OBVIOUS
    <3> HIDE DEF x, y
    <3>3. y \in Int /\ x - 1 <= y /\ y <= x
      BY <3>1, <3>2, StrictRaw
    <3>4. y <= dbm_LS_INFINITY /\ -(B + 1) < y /\ y < B + 1
      BY <3>1, <3>3, Infinity
    <3> QED
      BY <3>3, <3>4 DEF y
  <2> QED
    BY <2>2, <2>3
<1>3. S \in WideMatrix
  BY <1>2, EntriesType
<1>4. Bounded(S, B + 1)
  BY <1>2 DEF Bounded
<1>5. ZeroDiagonal(S)
  BY <1>1 DEF ZeroDiagonal
<1>6. IsZone(D, B + 1)
  BY ZoneWithin
<1> DEFINE A == B + 1
<1>7. A \in Nat /\ IsZone(D, A) /\ (dim + 2) * A <= dbm_LE_OVERFLOW /\ Bounded(S, A)
  BY <1>4, <1>6
<1> HIDE DEF A
<1>8. ClosureOf(TightenedBy(D, S), Entrywise(RawMin, D, S), (dim + 2) * A)
  BY <1>3, <1>5, <1>7, TightenedByCloses
<1> QED
  BY <1>8 DEF A

\* Stricter bounds stay raws.
LEMMA StricterType ==
  ASSUME NEW D \in WideMatrix, NEW S, S = [i \in Clk |-> [j \in Clk |-> S[i][j]]],
         \A i, j \in Clk : S[i][j] = D[i][j] \/ S[i][j] = dbm_strictRaw(D[i][j])
  PROVE  S \in WideMatrix
<1>1. ASSUME NEW i \in Clk, NEW j \in Clk
      PROVE  S[i][j] \in Int /\ S[i][j] <= dbm_LS_INFINITY
  <2> DEFINE x == D[i][j]
             y == S[i][j]
  <2>1. x \in Int /\ x <= dbm_LS_INFINITY /\ (y = x \/ y = dbm_strictRaw(x))
    BY WideEntry
  <2> HIDE DEF x, y
  <2>2. y \in Int /\ y <= x
    BY <2>1, StrictRaw
  <2>3. y \in Int /\ y <= dbm_LS_INFINITY
    BY <2>1, <2>2, Infinity
  <2> QED
    BY <2>3 DEF y
<1> QED
  BY <1>1, EntriesType

\* dbm_tightenDown and dbm_tightenUp, for a time point with pt[0] = 0.
LEMMA TightenDownCloses ==
  ASSUME NEW D, NEW B \in Nat, IsZone(D, B), (dim + 2) * (B + 1) <= dbm_LE_OVERFLOW
  PROVE  /\ dbm_tightenDown(D) = Empty \/ IsZone(dbm_tightenDown(D), (dim + 2) * (B + 1))
         /\ \A pt \in [Clk -> Int], g \in Nat \ {0} :
              dbm_isRealPointIncluded(pt, dbm_tightenDown(D), g)
                <=> /\ dbm_isRealPointIncluded(pt, D, g)
                    /\ \A k \in Clk \ {0} :
                         Within(pt[0] - pt[k], dbm_strictRaw(D[0][k]), g)
<1> DEFINE S == [D EXCEPT ![0] = [j \in Clk |->
                   IF j = 0 THEN D[0][0] ELSE dbm_strictRaw(D[0][j])]]
           T == Entrywise(RawMin, D, S)
           E == dbm_tightenDown(D)
<1>1. D \in WideMatrix
  BY DEF IsZone
<1>2. 0 \in Clk
  BY DimAssumption DEF Clk
<1>3. /\ S = [i \in Clk |-> [j \in Clk |-> S[i][j]]]
      /\ \A i, j \in Clk : S[i][j] = IF i = 0 /\ j # 0 THEN dbm_strictRaw(D[i][j])
                                     ELSE D[i][j]
  <2>1. DOMAIN D = Clk /\ \A i \in Clk : D[i] = [j \in Clk |-> D[i][j]]
    BY <1>1 DEF WideMatrix
  <2>2. S = [i \in Clk |-> [j \in Clk |->
               IF i = 0 /\ j # 0 THEN dbm_strictRaw(D[i][j]) ELSE D[i][j]]]
    BY <1>2, <2>1
  <2> QED
    BY <2>2
<1>4. E = TightenedBy(D, S)
  BY DEF dbm_tightenDown
<1> HIDE DEF S, E
<1>5. \A i, j \in Clk : S[i][j] = D[i][j] \/ (i # j /\ S[i][j] = dbm_strictRaw(D[i][j]))
  BY <1>3
<1>6. ClosureOf(E, T, (dim + 2) * (B + 1))
  BY <1>3, <1>4, <1>5, TightenCloses
<1>7. S \in WideMatrix
  BY <1>1, <1>3, <1>5, StricterType
<1>8. \A pt \in [Clk -> Int], g \in Nat \ {0} :
        dbm_isRealPointIncluded(pt, E, g)
          <=> dbm_isRealPointIncluded(pt, D, g) /\ dbm_isRealPointIncluded(pt, S, g)
  BY <1>1, <1>6, <1>7, SmallerBoundsPoints DEF ClosureOf, SamePoints
<1>9. \A pt \in [Clk -> Int], g \in Nat \ {0} :
        dbm_isRealPointIncluded(pt, E, g)
          <=> /\ dbm_isRealPointIncluded(pt, D, g)
              /\ \A i, j \in Clk : i = 0 /\ j # 0 =>
                    Within(pt[i] - pt[j], dbm_strictRaw(D[i][j]), g)
  BY <1>3, <1>8, SMTT(30) DEF dbm_isRealPointIncluded
<1> QED
  BY <1>2, <1>6, <1>9 DEF E, ClosureOf

\* dbm_tightenUp leaves the closure of the zone with strict upper bounds.
LEMMA TightenUpCloses ==
  ASSUME NEW D, NEW B \in Nat, IsZone(D, B), (dim + 2) * (B + 1) <= dbm_LE_OVERFLOW
  PROVE  /\ dbm_tightenUp(D) = Empty \/ IsZone(dbm_tightenUp(D), (dim + 2) * (B + 1))
         /\ \A pt \in [Clk -> Int], g \in Nat \ {0} :
              dbm_isRealPointIncluded(pt, dbm_tightenUp(D), g)
                <=> /\ dbm_isRealPointIncluded(pt, D, g)
                    /\ \A k \in Clk \ {0} :
                         Within(pt[k] - pt[0], dbm_strictRaw(D[k][0]), g)
<1> DEFINE S == [i \in Clk |-> [j \in Clk |->
                    IF i # 0 /\ j = 0 THEN dbm_strictRaw(D[i][0]) ELSE D[i][j]]]
           T == Entrywise(RawMin, D, S)
           E == dbm_tightenUp(D)
<1>1. D \in WideMatrix
  BY DEF IsZone
<1>2. 0 \in Clk
  BY DimAssumption DEF Clk
<1>3. /\ S = [i \in Clk |-> [j \in Clk |-> S[i][j]]]
      /\ \A i, j \in Clk : S[i][j] = IF i # 0 /\ j = 0 THEN dbm_strictRaw(D[i][j])
                                     ELSE D[i][j]
  OBVIOUS
<1>4. E = TightenedBy(D, S)
  BY DEF dbm_tightenUp
<1> HIDE DEF S, E
<1>5. \A i, j \in Clk : S[i][j] = D[i][j] \/ (i # j /\ S[i][j] = dbm_strictRaw(D[i][j]))
  BY <1>3
<1>6. ClosureOf(E, T, (dim + 2) * (B + 1))
  BY <1>3, <1>4, <1>5, TightenCloses
<1>7. S \in WideMatrix
  BY <1>1, <1>3, <1>5, StricterType
<1>8. \A pt \in [Clk -> Int], g \in Nat \ {0} :
        dbm_isRealPointIncluded(pt, E, g)
          <=> dbm_isRealPointIncluded(pt, D, g) /\ dbm_isRealPointIncluded(pt, S, g)
  BY <1>1, <1>6, <1>7, SmallerBoundsPoints DEF ClosureOf, SamePoints
<1>9. \A pt \in [Clk -> Int], g \in Nat \ {0} :
        dbm_isRealPointIncluded(pt, E, g)
          <=> /\ dbm_isRealPointIncluded(pt, D, g)
              /\ \A i, j \in Clk : i # 0 /\ j = 0 =>
                    Within(pt[i] - pt[j], dbm_strictRaw(D[i][j]), g)
  <2> TAKE pt \in [Clk -> Int], g \in Nat \ {0}
  <2>1. (\A i, j \in Clk : Within(pt[i] - pt[j], D[i][j], g))
          => ((\A i, j \in Clk : Within(pt[i] - pt[j], S[i][j], g))
                <=> \A i, j \in Clk : i # 0 /\ j = 0 =>
                      Within(pt[i] - pt[j], dbm_strictRaw(D[i][j]), g))
    BY <1>3
  <2> QED
    BY <1>8, <2>1 DEF dbm_isRealPointIncluded
<1> QED
  BY <1>2, <1>6, <1>9 DEF E, ClosureOf

\* dbm_intersection and dbm_relaxedIntersection with the matrix of another zone.
LEMMA IntersectionCloses ==
  ASSUME NEW D, NEW S, NEW B \in Nat, IsZone(D, B), IsZone(S, B),
         (dim + 2) * B <= dbm_LE_OVERFLOW
  PROVE  /\ dbm_intersection(D, S) = Empty \/ IsZone(dbm_intersection(D, S), (dim + 2) * B)
         /\ \A pt \in [Clk -> Int], g \in Nat \ {0} :
              dbm_isRealPointIncluded(pt, dbm_intersection(D, S), g)
                <=> dbm_isRealPointIncluded(pt, D, g) /\ dbm_isRealPointIncluded(pt, S, g)
<1>1. /\ D \in WideMatrix /\ S \in WideMatrix /\ Bounded(S, B) /\ ZeroDiagonal(S)
  BY DEF IsZone, Closed
<1>2. ClosureOf(dbm_intersection(D, S), Entrywise(RawMin, D, S), (dim + 2) * B)
  BY <1>1, TightenedByCloses DEF dbm_intersection
<1> QED
  BY <1>1, <1>2, SmallerBoundsPoints DEF ClosureOf, SamePoints

\* dbm_relaxedIntersection leaves the closure of the intersection of the weakened zones.
LEMMA RelaxedIntersectionCloses ==
  ASSUME NEW D, NEW S, NEW B \in Nat, IsZone(D, B), IsZone(S, B),
         (dim + 2) * (B + 1) <= dbm_LE_OVERFLOW
  PROVE  LET E == dbm_relaxedIntersection(D, S)
         IN  /\ E = Empty \/ IsZone(E, (dim + 2) * (B + 1))
             /\ \A pt \in [Clk -> Int], g \in Nat \ {0} :
                  dbm_isRealPointIncluded(pt, E, g)
                    <=> /\ dbm_isRealPointIncluded(pt, Weakened(D), g)
                        /\ dbm_isRealPointIncluded(pt, Weakened(S), g)
<1> DEFINE A == B + 1
           V == Weakened(D)
           W == Weakened(S)
<1>1. A \in Nat /\ (dim + 2) * A <= dbm_LE_OVERFLOW
  OBVIOUS
<1>2. B < dbm_LE_OVERFLOW
  <2> HIDE DEF A
  <2>1. A <= dbm_LE_OVERFLOW
    BY <1>1, RoomWithin
  <2> QED
    BY <2>1, Infinity DEF A
<1>3. IsZone(V, A) /\ IsZone(W, A)
  BY <1>2, WeakenedIsZone
<1>4. dbm_relaxedIntersection(D, S) = dbm_intersection(V, W)
  BY DEF dbm_relaxedIntersection, dbm_intersection
<1> HIDE DEF A, V, W
<1>5. /\ dbm_intersection(V, W) = Empty \/ IsZone(dbm_intersection(V, W), (dim + 2) * A)
      /\ \A pt \in [Clk -> Int], g \in Nat \ {0} :
              dbm_isRealPointIncluded(pt, dbm_intersection(V, W), g)
                <=> dbm_isRealPointIncluded(pt, V, g) /\ dbm_isRealPointIncluded(pt, W, g)
  BY <1>1, <1>3, IntersectionCloses
<1> QED
  BY <1>4, <1>5 DEF A, V, W

=============================================================================

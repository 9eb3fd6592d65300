--------------------------- MODULE DbmCloseProofs ----------------------------
(***************************************************************************)
(* The closure algorithms are right for every number of clocks and every   *)
(* matrix of valid raws: Spec => [](TypeOK /\ ClosedOnReturn /\            *)
(* SameSolutions /\ EmptyIsRight), and Spec => ImplementsClosure.  The     *)
(* inductive invariant is PassInvariant; the refinement also needs         *)
(* BoundsAreWalks and EntriesAreShort.                                     *)
(***************************************************************************)
EXTENDS DbmClose, DbmLemmas, Sequences

\* The matrices that the algorithms go through: entries of raw_t, not always valid.
Matrices == [Clk -> [Clk -> MinSum .. dbm_LS_INFINITY]]

\* A valid raw is one of raw_t.
LEMMA RawInRange ==
  ASSUME NEW x \in Raw
  PROVE  x \in MinSum .. dbm_LS_INFINITY
<1>1. x \in Int /\ dbm_isValidRaw(x)
  BY DEF Raw
<1>2. MinSum <= x /\ x <= dbm_LS_INFINITY
  BY <1>1, SMT DEF dbm_isValidRaw, MinSum, dbm_LE_OVERFLOW, dbm_LS_INFINITY
<1>3. MinSum \in Int /\ dbm_LS_INFINITY \in Int
  BY SMT DEF MinSum, dbm_LE_OVERFLOW, dbm_LS_INFINITY
<1> QED
  BY <1>1, <1>2, <1>3

\* What one tightened entry is, when its row passes the assertions.
LEMMA RowEntry ==
  ASSUME NEW D \in Matrices, NEW a \in Clk, NEW c \in Clk, NEW b \in Clk,
         RowIsValid(D, a, c)
  PROVE  /\ RowVia(D, a, c)[b] \in MinSum .. dbm_LS_INFINITY
         /\ RowVia(D, a, c)[b] <= D[a][b]
         /\ D[a][c] # dbm_LS_INFINITY /\ D[c][b] # dbm_LS_INFINITY
              => /\ RowVia(D, a, c)[b] # dbm_LS_INFINITY
                 /\ RowVia(D, a, c)[b]
                      <= dbm_addFiniteFinite(D[a][c], D[c][b])
         /\ \/ RowVia(D, a, c)[b] = D[a][b]
            \/ /\ D[a][c] # dbm_LS_INFINITY /\ D[c][b] # dbm_LS_INFINITY
               /\ RowVia(D, a, c)[b] = dbm_addFiniteFinite(D[a][c], D[c][b])
<1>1. D[a][b] \in MinSum .. dbm_LS_INFINITY /\ D[a][c] \in MinSum .. dbm_LS_INFINITY
      /\ D[c][b] \in MinSum .. dbm_LS_INFINITY
  BY DEF Matrices
<1>2. MinSum \in Int /\ dbm_LS_INFINITY \in Int
  BY SMT DEF MinSum, dbm_LE_OVERFLOW, dbm_LS_INFINITY
<1>3. RowVia(D, a, c)[b] = RawMin(D[a][b], dbm_addRawRaw(D[a][c], D[c][b]))
  BY DEF RowVia
<1>4. CASE D[a][c] = dbm_LS_INFINITY \/ D[c][b] = dbm_LS_INFINITY
  BY <1>1, <1>2, <1>3, <1>4 DEF RawMin, dbm_addRawRaw
<1>5. CASE D[a][c] # dbm_LS_INFINITY /\ D[c][b] # dbm_LS_INFINITY
  <2> DEFINE s == dbm_addFiniteFinite(D[a][c], D[c][b])
  <2>1. dbm_addRawRaw(D[a][c], D[c][b]) = s
    BY <1>5 DEF dbm_addRawRaw
  <2>2. dbm_isValidRaw(D[a][c]) /\ dbm_isValidRaw(D[c][b])
    BY <1>5 DEF RowIsValid
  <2>3. D[a][c] \in Int /\ D[c][b] \in Int
    BY <1>1, <1>2
  <2>4. s \in Int
    BY <2>3, AddParts
  <2>5. s >= MinSum /\ s < dbm_LS_INFINITY
    BY <1>5, <2>2, <2>3, AddValid DEF MinSum
  <2> HIDE DEF s
  <2>6. RowVia(D, a, c)[b] = IF D[a][b] < s THEN D[a][b] ELSE s
    BY <1>3, <2>1 DEF RawMin
  <2>7. s = dbm_addFiniteFinite(D[a][c], D[c][b])
    BY DEF s
  <2> QED
    BY <1>1, <1>2, <1>5, <2>4, <2>5, <2>6, <2>7
<1> QED
  BY <1>4, <1>5

\* The same for every entry of a whole pass; the row of c stays as it is.
LEMMA ValidPassEntry ==
  ASSUME NEW D \in Matrices, NEW c \in Clk, NEW a \in Clk, NEW b \in Clk,
         ZeroDiagonal(D), PassIsValid(D, c)
  PROVE  LET E == PassVia(D, c)
         IN  /\ E[a][b] \in MinSum .. dbm_LS_INFINITY
             /\ E[a][b] <= D[a][b]
             /\ D[a][c] # dbm_LS_INFINITY /\ D[c][b] # dbm_LS_INFINITY
                  => /\ E[a][b] # dbm_LS_INFINITY
                     /\ E[a][b] <= dbm_addFiniteFinite(D[a][c], D[c][b])
             /\ \/ E[a][b] = D[a][b]
                \/ /\ D[a][c] # dbm_LS_INFINITY /\ D[c][b] # dbm_LS_INFINITY
                   /\ E[a][b] = dbm_addFiniteFinite(D[a][c], D[c][b])
<1>1. CASE a = c
  <2>1. PassVia(D, c)[a][b] = D[c][b]
    BY <1>1 DEF PassVia
  <2>2. D[c][b] \in MinSum .. dbm_LS_INFINITY
    BY DEF Matrices
  <2>3. MinSum \in Int /\ dbm_LS_INFINITY \in Int
    BY SMT DEF MinSum, dbm_LE_OVERFLOW, dbm_LS_INFINITY
  <2>4. dbm_addFiniteFinite(D[c][c], D[c][b]) = D[c][b]
    BY <2>2, <2>3, AddZero DEF ZeroDiagonal
  <2> QED
    BY <1>1, <2>1, <2>2, <2>3, <2>4
<1>2. CASE a # c
  <2>1. RowIsValid(D, a, c)
    BY <1>2 DEF PassIsValid
  <2>2. PassVia(D, c)[a][b] = RowVia(D, a, c)[b]
    BY <1>2 DEF PassVia
  <2> QED
    BY <2>1, <2>2, RowEntry
<1> QED
  BY <1>1, <1>2

\* A pass for c keeps every shortcut it found and adds those through c: the step
\* of Floyd's algorithm.
LEMMA ValidPassExtends ==
  ASSUME NEW D \in Matrices, NEW c \in Clk, NEW e \in Clk,
         ZeroDiagonal(D), PassIsValid(D, c),
         e = c \/ ShortcutVia(D, e)
  PROVE  ShortcutVia(PassVia(D, c), e)
<1> DEFINE E == PassVia(D, c)
           Sum(x, y) == dbm_addFiniteFinite(x, y)
<1> SUFFICES ASSUME NEW a \in Clk, NEW b \in Clk,
                    E[a][e] # dbm_LS_INFINITY, E[e][b] # dbm_LS_INFINITY
             PROVE  /\ E[a][b] # dbm_LS_INFINITY
                    /\ E[a][b] <= Sum(E[a][e], E[e][b])
  BY DEF ShortcutVia
<1>1. MinSum \in Int /\ dbm_LS_INFINITY \in Int
  BY SMT DEF MinSum, dbm_LE_OVERFLOW, dbm_LS_INFINITY
<1>2. \A x, y \in Clk : D[x][y] \in Int /\ D[x][y] <= dbm_LS_INFINITY
  BY <1>1 DEF Matrices
<1>3. \A x, y \in Clk :
        /\ E[x][y] \in Int
        /\ E[x][y] <= D[x][y]
        /\ D[x][c] # dbm_LS_INFINITY /\ D[c][y] # dbm_LS_INFINITY
             => /\ E[x][y] # dbm_LS_INFINITY
                /\ E[x][y] <= Sum(D[x][c], D[c][y])
        /\ \/ E[x][y] = D[x][y]
           \/ /\ D[x][c] # dbm_LS_INFINITY /\ D[c][y] # dbm_LS_INFINITY
              /\ E[x][y] = Sum(D[x][c], D[c][y])
  BY <1>1, ValidPassEntry
<1>4. D[c][c] = dbm_LE_ZERO /\ dbm_LE_ZERO # dbm_LS_INFINITY /\ dbm_LE_ZERO \in Int
  BY SMT DEF ZeroDiagonal, dbm_LE_ZERO, dbm_LS_INFINITY
<1>10. \A x, y \in Int : Sum(x, y) \in Int
  BY AddParts
<1> HIDE DEF E, Sum
<1>5. CASE e = c
  <2>1. E[a][c] = D[a][c] /\ E[c][b] = D[c][b]
    BY <1>2, <1>3, <1>4, AddZero DEF Sum
  <2> QED
    BY <1>3, <1>5, <2>1
<1>6. CASE ShortcutVia(D, e) /\ E[a][e] = D[a][e] /\ E[e][b] = D[e][b]
  <2>1. D[a][b] # dbm_LS_INFINITY /\ D[a][b] <= Sum(D[a][e], D[e][b])
    BY <1>6 DEF ShortcutVia, Sum
  <2>2. /\ E[a][b] \in Int /\ D[a][b] \in Int /\ Sum(D[a][e], D[e][b]) \in Int
        /\ E[a][b] <= D[a][b] /\ D[a][b] <= dbm_LS_INFINITY
    BY <1>2, <1>3, <1>10
  <2> QED
    BY <1>1, <1>6, <2>1, <2>2
<1>7. CASE /\ ShortcutVia(D, e) /\ E[e][b] = D[e][b]
           /\ D[a][c] # dbm_LS_INFINITY /\ D[c][e] # dbm_LS_INFINITY
           /\ E[a][e] = Sum(D[a][c], D[c][e])
  <2>1. D[c][b] # dbm_LS_INFINITY /\ D[c][b] <= Sum(D[c][e], D[e][b])
    BY <1>7 DEF ShortcutVia, Sum
  <2>2. Sum(D[a][c], D[c][b]) <= Sum(Sum(D[a][c], D[c][e]), D[e][b])
    BY <1>2, <2>1, AddPrefix DEF Sum
  <2>3. E[a][b] # dbm_LS_INFINITY /\ E[a][b] <= Sum(D[a][c], D[c][b])
    BY <1>3, <1>7, <2>1
  <2>4. /\ E[a][b] \in Int /\ Sum(D[a][c], D[c][b]) \in Int
        /\ Sum(Sum(D[a][c], D[c][e]), D[e][b]) \in Int
    BY <1>2, <1>3, <1>10
  <2> QED
    BY <1>7, <2>2, <2>3, <2>4
<1>8. CASE /\ ShortcutVia(D, e) /\ E[a][e] = D[a][e]
           /\ D[e][c] # dbm_LS_INFINITY /\ D[c][b] # dbm_LS_INFINITY
           /\ E[e][b] = Sum(D[e][c], D[c][b])
  <2>1. D[a][c] # dbm_LS_INFINITY /\ D[a][c] <= Sum(D[a][e], D[e][c])
    BY <1>8 DEF ShortcutVia, Sum
  <2>2. Sum(D[a][c], D[c][b]) <= Sum(D[a][e], Sum(D[e][c], D[c][b]))
    BY <1>2, <2>1, AddSuffix DEF Sum
  <2>3. E[a][b] # dbm_LS_INFINITY /\ E[a][b] <= Sum(D[a][c], D[c][b])
    BY <1>3, <1>8, <2>1
  <2>4. /\ E[a][b] \in Int /\ Sum(D[a][c], D[c][b]) \in Int
        /\ Sum(D[a][e], Sum(D[e][c], D[c][b])) \in Int
    BY <1>2, <1>3, <1>10
  <2> QED
    BY <1>8, <2>2, <2>3, <2>4
<1>9. CASE /\ ShortcutVia(D, e)
           /\ D[a][c] # dbm_LS_INFINITY /\ D[c][e] # dbm_LS_INFINITY
           /\ E[a][e] = Sum(D[a][c], D[c][e])
           /\ D[e][c] # dbm_LS_INFINITY /\ D[c][b] # dbm_LS_INFINITY
           /\ E[e][b] = Sum(D[e][c], D[c][b])
  <2>1. dbm_LE_ZERO <= Sum(D[c][e], D[e][c])
    BY <1>4, <1>9 DEF ShortcutVia, Sum
  <2>2. Sum(D[a][c], D[c][b])
          <= Sum(Sum(D[a][c], D[c][e]), Sum(D[e][c], D[c][b]))
    BY <1>2, <2>1, AddDetour DEF Sum
  <2>3. E[a][b] # dbm_LS_INFINITY /\ E[a][b] <= Sum(D[a][c], D[c][b])
    BY <1>3, <1>9
  <2>4. /\ E[a][b] \in Int /\ Sum(D[a][c], D[c][b]) \in Int
        /\ Sum(Sum(D[a][c], D[c][e]), Sum(D[e][c], D[c][b])) \in Int
    BY <1>2, <1>3, <1>10
  <2> QED
    BY <1>9, <2>2, <2>3, <2>4
<1> QED
  BY <1>3, <1>5, <1>6, <1>7, <1>8, <1>9

-----------------------------------------------------------------------------

\* One iteration of the loop on rows leaves the pass where it was going: the
\* operands of the other rows, and the matrix the pass will end with, are the same.
LEMMA RowStep ==
  ASSUME NEW D \in Matrices, NEW r \in Clk, NEW c \in Clk, r # c,
         ZeroDiagonal(D), RowIsValid(D, r, c)
  PROVE  LET E == [D EXCEPT ![r] = RowVia(D, r, c)]
         IN  /\ E \in Matrices
             /\ RowVia(E, r, c) = E[r]
             /\ \A a \in Clk : RowIsValid(E, a, c) <=> RowIsValid(D, a, c)
             /\ \A a \in Clk : RowVia(E, a, c) = RowVia(D, a, c)
             /\ PassVia(E, c) = PassVia(D, c)
<1> DEFINE E == [D EXCEPT ![r] = RowVia(D, r, c)]
           Row == RowVia(D, r, c)
<1>1. MinSum \in Int /\ dbm_LS_INFINITY \in Int
  BY SMT DEF MinSum, dbm_LE_OVERFLOW, dbm_LS_INFINITY
<1>2. \A x, y \in Clk : D[x][y] \in Int /\ D[x][y] <= dbm_LS_INFINITY
  BY <1>1 DEF Matrices
<1>3. Row \in [Clk -> MinSum .. dbm_LS_INFINITY]
  <2>1. \A b \in Clk : Row[b] \in MinSum .. dbm_LS_INFINITY
    BY RowEntry
  <2> QED
    BY <2>1 DEF RowVia
<1>4. E \in Matrices
  BY <1>3 DEF Matrices
<1>5. E[c] = D[c] /\ E[r] = Row /\ \A a \in Clk \ {r} : E[a] = D[a]
  BY DEF Matrices
<1>6. Row[c] = D[r][c]
  <2>1. D[c][c] = dbm_LE_ZERO
    BY DEF ZeroDiagonal
  <2>2. dbm_addFiniteFinite(D[r][c], dbm_LE_ZERO) = D[r][c]
    BY <1>2, AddZero
  <2> QED
    BY <2>1, <2>2, RowEntry
<1> HIDE DEF E
<1>7. \A a \in Clk : E[a][c] = D[a][c]
  BY <1>5, <1>6
<1>8. \A a \in Clk : RowIsValid(E, a, c) <=> RowIsValid(D, a, c)
  BY <1>5, <1>7 DEF RowIsValid
<1>9. \A a \in Clk \ {r} : RowVia(E, a, c) = RowVia(D, a, c)
  BY <1>5 DEF RowVia
<1>10. RowVia(E, r, c) = Row
  <2>1. \A b \in Clk :
          RawMin(E[r][b], dbm_addRawRaw(E[r][c], E[c][b])) = Row[b]
    <3> TAKE b \in Clk
    <3> DEFINE s == dbm_addRawRaw(D[r][c], D[c][b])
    <3>1. Row[b] = RawMin(D[r][b], s)
      BY DEF RowVia
    <3>2. s \in Int
      BY <1>1, <1>2, AddParts DEF dbm_addRawRaw
    <3>3. E[r][b] = Row[b] /\ dbm_addRawRaw(E[r][c], E[c][b]) = s
      BY <1>5, <1>7
    <3> HIDE DEF s, Row
    <3>4. RawMin(RawMin(D[r][b], s), s) = RawMin(D[r][b], s)
      BY <1>2, <3>2 DEF RawMin
    <3> QED
      BY <3>1, <3>3, <3>4
  <2>2. RowVia(E, r, c) = [b \in Clk |-> Row[b]]
    BY <2>1 DEF RowVia
  <2> QED
    BY <2>2, <1>3
<1>11. \A a \in Clk : RowVia(E, a, c) = RowVia(D, a, c)
  BY <1>9, <1>10
<1>12. PassVia(E, c) = PassVia(D, c)
  BY <1>5, <1>11 DEF PassVia
<1> QED
  BY <1>4, <1>5, <1>8, <1>10, <1>11, <1>12 DEF E

\* A pass is over when every row is tight: the matrix is the one it was going to.
LEMMA PassEnd ==
  ASSUME NEW D \in Matrices, NEW c \in Clk,
         \A a \in Clk \ {c} : RowVia(D, a, c) = D[a]
  PROVE  PassVia(D, c) = D
BY DEF PassVia, Matrices

\* The matrices of the calls.
LEMMA InputType ==
  ASSUME Init
  PROVE  /\ input \in Matrix /\ dbm = input
         /\ ZeroDiagonal(input)
         /\ \A c \in Clk \ touched : TightVia(input, c)
<1>1. dbm_LE_ZERO \in Raw
  BY SMT DEF Raw, dbm_isValidRaw, dbm_LE_ZERO, dbm_LS_INFINITY, dbm_LE_OVERFLOW
<1>2. PICK f \in [Pairs -> Values] :
        input = [a \in Clk |-> [b \in Clk |->
                   IF a = b THEN dbm_LE_ZERO ELSE f[<<a, b>>]]]
  BY DEF Init
<1>3. \A a, b \in Clk : a # b => f[<<a, b>>] \in Raw
  BY ValuesAssumption DEF Pairs
<1>5. input \in Matrix
  BY <1>1, <1>2, <1>3 DEF Matrix
<1>6. ZeroDiagonal(input)
  BY <1>2 DEF ZeroDiagonal
<1> QED
  BY <1>5, <1>6 DEF Init

\* So the matrix of a call is one of those.
LEMMA MatrixInRange ==
  ASSUME NEW D \in Matrix
  PROVE  D \in Matrices
BY RawInRange DEF Matrix, Matrices

\* Type correctness: no tightening leaves the range of raw_t.
LEMMA TypeInit == Init => TypeOK
<1> SUFFICES ASSUME Init PROVE TypeOK
  OBVIOUS
<1>1. input \in Matrix /\ dbm \in Matrices
  BY InputType, MatrixInRange
<1>2. 0 \in Clk /\ dim \in 0 .. dim
  BY DimAssumption DEF Clk
<1> QED
  BY <1>1, <1>2 DEF Init, TypeOK, Matrices

\* Each step keeps the types.
LEMMA TypeStep == TypeOK /\ [Next]_vars => TypeOK'
<1> SUFFICES ASSUME TypeOK, [Next]_vars PROVE TypeOK'
  OBVIOUS
<1>1. dim \in Nat \ {0} /\ dbm \in Matrices
  BY DimAssumption DEF TypeOK, Matrices
<1>2. CASE StartPass
  BY <1>1, <1>2 DEF StartPass, TypeOK
<1>3. CASE SkipRow
  BY <1>1, <1>3 DEF SkipRow, TypeOK
<1>4. ASSUME i \in Clk, RowIsValid(dbm, i, k)
      PROVE  [dbm EXCEPT ![i] = RowVia(dbm, i, k)] \in Matrices
  <2>1. \A b \in Clk : RowVia(dbm, i, k)[b] \in MinSum .. dbm_LS_INFINITY
    BY <1>1, <1>4, RowEntry DEF TypeOK
  <2>2. RowVia(dbm, i, k) \in [Clk -> MinSum .. dbm_LS_INFINITY]
    BY <2>1 DEF RowVia
  <2> QED
    BY <1>1, <2>2 DEF Matrices
<1>5. CASE TightenRow
  <2>1. i \in Clk /\ i + 1 \in 0 .. dim
    BY <1>1, <1>5 DEF TightenRow, TypeOK, Clk
  <2> QED
    BY <1>4, <1>5, <2>1 DEF TightenRow, TypeOK, Matrices
<1>6. CASE ExitEmpty
  <2>1. i \in Clk /\ 0 \in Clk
    BY <1>1, <1>6 DEF ExitEmpty, TypeOK, Clk
  <2>2. -1 \in MinSum .. dbm_LS_INFINITY
    <3>1. MinSum \in Int /\ dbm_LS_INFINITY \in Int
      BY SMT DEF MinSum, dbm_LE_OVERFLOW, dbm_LS_INFINITY
    <3>2. MinSum <= -1 /\ -1 <= dbm_LS_INFINITY
      BY SMT DEF MinSum, dbm_LE_OVERFLOW, dbm_LS_INFINITY
    <3> QED
      BY <3>1, <3>2
  <2> DEFINE tightened == [dbm EXCEPT ![i] = RowVia(dbm, i, k)]
  <2>3. tightened \in Matrices
    BY <1>4, <1>6, <2>1 DEF ExitEmpty
  <2>4. dbm' = tightened \/ dbm' = [tightened EXCEPT ![0][0] = -1]
    BY <1>6 DEF ExitEmpty
  <2> HIDE DEF tightened
  <2>5. dbm' \in Matrices
    BY <2>1, <2>2, <2>3, <2>4 DEF Matrices
  <2> QED
    BY <1>6, <2>5 DEF ExitEmpty, TypeOK, Matrices
<1>7. CASE AssertRaw
  BY <1>7 DEF AssertRaw, TypeOK
<1>8. CASE Return
  BY <1>8 DEF Return, TypeOK
<1>9. CASE UNCHANGED vars
  BY <1>9 DEF vars, TypeOK
<1> QED
  BY <1>2, <1>3, <1>5, <1>6, <1>7, <1>8, <1>9 DEF Next

\* Every behaviour of the closure functions is well typed: in particular no sum
\* of asserted operands leaves raw_t (the comment on dbm_isValidRaw).
THEOREM TypeCorrect == Spec => []TypeOK
BY TypeInit, TypeStep, PTL DEF Spec

-----------------------------------------------------------------------------

\* A valid matrix that is tight through c also has the finite bounds through c.
LEMMA ShortcutOfTight ==
  ASSUME NEW D \in Matrix, NEW c \in Clk, TightVia(D, c)
  PROVE  ShortcutVia(D, c)
<1> SUFFICES ASSUME NEW a \in Clk, NEW b \in Clk,
                    D[a][c] # dbm_LS_INFINITY, D[c][b] # dbm_LS_INFINITY
             PROVE  /\ D[a][b] # dbm_LS_INFINITY
                    /\ D[a][b] <= dbm_addFiniteFinite(D[a][c], D[c][b])
  BY DEF ShortcutVia
<1>1. \A x, y \in Clk : D[x][y] \in Int /\ dbm_isValidRaw(D[x][y])
  BY DEF Matrix, Raw
<1>2. \A x, y \in Clk : D[x][y] \in MinSum .. dbm_LS_INFINITY
  BY RawInRange DEF Matrix
<1>3. MinSum \in Int /\ dbm_LS_INFINITY \in Int
  BY SMT DEF MinSum, dbm_LE_OVERFLOW, dbm_LS_INFINITY
<1>4. D[a][c] < dbm_LS_INFINITY /\ D[c][b] < dbm_LS_INFINITY
  BY <1>2, <1>3
<1>5. D[a][b] <= dbm_addFiniteFinite(D[a][c], D[c][b])
  BY <1>4 DEF TightVia
<1>6. /\ dbm_addFiniteFinite(D[a][c], D[c][b]) < dbm_LS_INFINITY
      /\ dbm_addFiniteFinite(D[a][c], D[c][b]) \in Int
  BY <1>1, AddValid, AddParts
<1> QED
  BY <1>1, <1>3, <1>5, <1>6

\* With "<= 0" on the diagonal, ShortcutVia is the test that dbm_isClosed makes.
LEMMA TightOfShortcut ==
  ASSUME NEW D, NEW c \in Clk, ShortcutVia(D, c),
         \A a, b \in Clk : D[a][b] \in Int
  PROVE  TightVia(D, c)
<1> SUFFICES ASSUME NEW a \in Clk, NEW b \in Clk,
                    D[a][c] < dbm_LS_INFINITY, D[c][b] < dbm_LS_INFINITY
             PROVE  D[a][b] <= dbm_addFiniteFinite(D[a][c], D[c][b])
  BY DEF TightVia
<1>1. dbm_LS_INFINITY \in Int
  BY SMT DEF dbm_LS_INFINITY
<1>2. D[a][c] # dbm_LS_INFINITY /\ D[c][b] # dbm_LS_INFINITY
  BY <1>1
<1> QED
  BY <1>2 DEF ShortcutVia

\* Before the first pass, the clocks that are not touched shorten nothing.
LEMMA PassInit == Init => PassInvariant
<1> SUFFICES ASSUME Init PROVE PassInvariant
  OBVIOUS
<1>1. input \in Matrix /\ dbm = input /\ ZeroDiagonal(input)
  BY InputType
<1>2. \A c \in Clk \ touched : ShortcutVia(dbm, c)
  BY <1>1, InputType, ShortcutOfTight
<1>3. i = dim /\ ret = "running" /\ ~(dim < dim)
  BY DimAssumption DEF Init
<1> QED
  BY <1>1, <1>2, <1>3 DEF PassInvariant

\* Each step keeps the invariant of the passes.
LEMMA PassStep == TypeOK /\ PassInvariant /\ [Next]_vars => PassInvariant'
<1> SUFFICES ASSUME TypeOK, PassInvariant, [Next]_vars PROVE PassInvariant'
  OBVIOUS
<1>1. /\ dim \in Nat \ {0} /\ dbm \in Matrices
      /\ k \in Clk /\ i \in 0 .. dim /\ touched \in SUBSET Clk
  BY DimAssumption DEF TypeOK, Matrices
<1>2. CASE StartPass
  <2>1. /\ ret = "running" /\ i = dim /\ i' = 0 /\ 0 < dim
        /\ k' \in touched /\ touched' = touched \ {k'}
        /\ dbm' = dbm /\ ret' = "running"
    BY <1>1, <1>2 DEF StartPass
  <2>2. ZeroDiagonal(dbm) /\ \A c \in Clk \ touched : ShortcutVia(dbm, c)
    BY <2>1 DEF PassInvariant
  <2>3. ASSUME PassIsValid(dbm, k'), NEW c \in Clk \ touched'
        PROVE  ShortcutVia(PassVia(dbm, k'), c)
    BY <1>1, <2>1, <2>2, <2>3, ValidPassExtends
  <2>4. (0 .. i' - 1) \ {k'} = {} /\ i' # dim
    BY <1>1, <2>1
  <2> QED
    BY <1>1, <2>1, <2>2, <2>3, <2>4 DEF PassInvariant
<1>3. ASSUME NEW E \in Matrices, dbm' = E, i \in Clk, i' = i + 1,
             ret = "running", ret' = "running", k' = k, touched' = touched,
             ZeroDiagonal(E), PassVia(E, k) = PassVia(dbm, k),
             PassIsValid(E, k) <=> PassIsValid(dbm, k),
             \A a \in (0 .. i) \ {k} : RowIsValid(E, a, k) /\ RowVia(E, a, k) = E[a]
      PROVE  PassInvariant'
  <2>1. /\ k \notin touched
        /\ PassIsValid(E, k) =>
             \A c \in Clk \ touched : ShortcutVia(PassVia(E, k), c)
    BY <1>1, <1>3 DEF PassInvariant, Clk
  <2>2. CASE i' < dim
    <3>1. 0 .. i' - 1 = 0 .. i /\ i' # dim
      BY <1>1, <1>3, <2>2
    <3> QED
      BY <1>3, <2>1, <2>2, <3>1 DEF PassInvariant
  <2>3. CASE ~(i' < dim)
    <3>1. i' = dim /\ 0 .. i = Clk
      BY <1>1, <1>3, <2>3 DEF Clk
    <3>2. PassIsValid(E, k)
      BY <1>3, <3>1 DEF PassIsValid
    <3>3. PassVia(E, k) = E
      BY <1>1, <1>3, <3>1, PassEnd
    <3>4. \A c \in Clk \ touched : ShortcutVia(E, c)
      BY <2>1, <3>2, <3>3
    <3> QED
      BY <1>3, <2>3, <3>1, <3>4 DEF PassInvariant
  <2> QED
    BY <2>2, <2>3
<1>4. CASE SkipRow
  <2>1. /\ ret = "running" /\ i = k /\ i < dim /\ i' = i + 1
        /\ dbm' = dbm /\ ret' = "running" /\ k' = k /\ touched' = touched
    BY <1>4 DEF SkipRow
  <2>2. (0 .. i) \ {k} = (0 .. i - 1) \ {k} /\ i \in Clk
    BY <1>1, <2>1
  <2>3. /\ ZeroDiagonal(dbm)
        /\ \A a \in (0 .. i) \ {k} :
             RowIsValid(dbm, a, k) /\ RowVia(dbm, a, k) = dbm[a]
    BY <2>1, <2>2 DEF PassInvariant
  <2> QED
    BY <1>1, <1>3, <2>1, <2>2, <2>3
<1>5. CASE TightenRow
  <2> DEFINE E == [dbm EXCEPT ![i] = RowVia(dbm, i, k)]
  <2>1. /\ ret = "running" /\ i # k /\ i < dim /\ i' = i + 1
        /\ dbm' = E /\ ret' = "running" /\ k' = k /\ touched' = touched
        /\ RowIsValid(dbm, i, k) /\ RowVia(dbm, i, k)[i] >= dbm_LE_ZERO
    BY <1>5 DEF TightenRow
  <2>2. i \in Clk
    BY <1>1, <2>1 DEF Clk
  <2>3. /\ ZeroDiagonal(dbm)
        /\ \A a \in (0 .. i - 1) \ {k} :
             RowIsValid(dbm, a, k) /\ RowVia(dbm, a, k) = dbm[a]
    BY <2>1 DEF PassInvariant
  <2>4. /\ E \in Matrices /\ RowVia(E, i, k) = E[i]
        /\ \A a \in Clk : RowIsValid(E, a, k) <=> RowIsValid(dbm, a, k)
        /\ \A a \in Clk : RowVia(E, a, k) = RowVia(dbm, a, k)
        /\ PassVia(E, k) = PassVia(dbm, k)
    <3>1. /\ dbm \in Matrices /\ i \in Clk /\ k \in Clk /\ i # k
          /\ ZeroDiagonal(dbm) /\ RowIsValid(dbm, i, k)
      BY <1>1, <2>1, <2>2, <2>3
    <3> QED
      BY <3>1, RowStep, Zenon
  <2>5. E[i] = RowVia(dbm, i, k) /\ \A a \in Clk \ {i} : E[a] = dbm[a]
    BY <1>1, <2>2 DEF Matrices
  <2>6. E[i][i] = dbm_LE_ZERO
    <3>1. E[i][i] <= dbm_LE_ZERO
      BY <1>1, <2>1, <2>2, <2>3, <2>5, RowEntry DEF ZeroDiagonal
    <3>2. E[i][i] >= dbm_LE_ZERO
      BY <2>1, <2>5
    <3>3. E[i][i] \in Int /\ dbm_LE_ZERO \in Int
      <4>1. MinSum \in Int /\ dbm_LS_INFINITY \in Int /\ dbm_LE_ZERO \in Int
        BY SMT DEF MinSum, dbm_LE_OVERFLOW, dbm_LS_INFINITY, dbm_LE_ZERO
      <4> QED
        BY <2>2, <2>4, <4>1 DEF Matrices
    <3> QED
      BY <3>1, <3>2, <3>3
  <2> HIDE DEF E
  <2>7. ZeroDiagonal(E)
    BY <2>3, <2>5, <2>6 DEF ZeroDiagonal
  <2>8. PassIsValid(E, k) <=> PassIsValid(dbm, k)
    BY <2>4 DEF PassIsValid
  <2>9. \A a \in (0 .. i) \ {k} : RowIsValid(E, a, k) /\ RowVia(E, a, k) = E[a]
    <3> TAKE a \in (0 .. i) \ {k}
    <3>1. CASE a = i
      BY <2>1, <2>2, <2>4, <3>1
    <3>2. CASE a # i
      <4>1. a \in (0 .. i - 1) \ {k} /\ a \in Clk \ {i}
        BY <1>1, <2>1, <3>2 DEF Clk
      <4> QED
        BY <2>3, <2>4, <2>5, <4>1
    <3> QED
      BY <3>1, <3>2
  <2> QED
    BY <1>3, <2>1, <2>2, <2>4, <2>7, <2>8, <2>9
<1>6. CASE ExitEmpty
  BY <1>6 DEF ExitEmpty, PassInvariant
<1>7. CASE AssertRaw
  BY <1>7 DEF AssertRaw, PassInvariant
<1>8. CASE Return
  BY <1>1, <1>8 DEF Return, PassInvariant
<1>9. CASE UNCHANGED vars
  BY <1>9 DEF vars, PassInvariant
<1> QED
  BY <1>2, <1>4, <1>5, <1>6, <1>7, <1>8, <1>9 DEF Next

\* Floyd's invariant holds in every state of every call (the loops of dbm_close,
\* dbm_closex and dbm_close1).
THEOREM PassInvariantHolds == Spec => []PassInvariant
<1>1. TypeOK /\ PassInvariant /\ [Next]_vars => TypeOK' /\ PassInvariant'
  BY TypeStep, PassStep
<1> QED
  BY TypeInit, PassInit, <1>1, PTL DEF Spec

\* A call that returns true has closed its matrix, for every dim, every matrix of
\* valid raws and every set of touched clocks that meets the precondition.
THEOREM ReturnsClosed == Spec => []ClosedOnReturn
<1>1. TypeOK /\ PassInvariant => ClosedOnReturn
  <2> SUFFICES ASSUME TypeOK, PassInvariant, ret = "closed"
               PROVE  dbm_isClosed(dbm) /\ ZeroDiagonal(dbm)
    BY DEF ClosedOnReturn
  <2>1. MinSum \in Int /\ dbm_LS_INFINITY \in Int
    BY SMT DEF MinSum, dbm_LE_OVERFLOW, dbm_LS_INFINITY
  <2>2. \A a, b \in Clk : dbm[a][b] \in Int
    BY <2>1 DEF TypeOK
  <2>3. i = dim /\ touched = {}
    BY DimAssumption DEF TypeOK, PassInvariant
  <2>4. \A c \in Clk : ShortcutVia(dbm, c)
    BY <2>3 DEF PassInvariant
  <2>5. dbm_isClosed(dbm)
    BY <2>2, <2>4, TightOfShortcut DEF dbm_isClosed
  <2> QED
    BY <2>5 DEF PassInvariant
<1> QED
  BY TypeCorrect, PassInvariantHolds, <1>1, PTL

-----------------------------------------------------------------------------

\* Tightening a row keeps every point of the zone and adds none.
LEMMA RowSolutions ==
  ASSUME NEW D \in Matrices, NEW r \in Clk, NEW c \in Clk,
         RowIsValid(D, r, c), NEW pt \in [Clk -> Int]
  PROVE  dbm_isRealPointIncluded(pt, [D EXCEPT ![r] = RowVia(D, r, c)], Grid)
           <=> dbm_isRealPointIncluded(pt, D, Grid)
<1> DEFINE E == [D EXCEPT ![r] = RowVia(D, r, c)]
<1>1. MinSum \in Int /\ dbm_LS_INFINITY \in Int
  BY SMT DEF MinSum, dbm_LE_OVERFLOW, dbm_LS_INFINITY
<1>2. \A x, y \in Clk : D[x][y] \in Int /\ D[x][y] <= dbm_LS_INFINITY
  BY <1>1 DEF Matrices
<1>3. E[r] = RowVia(D, r, c) /\ \A a \in Clk \ {r} : E[a] = D[a]
  BY DEF Matrices
<1>4. \A b \in Clk : E[r][b] \in Int /\ E[r][b] <= D[r][b]
  BY <1>1, <1>3, RowEntry
<1>5. \A x, y \in Clk : pt[x] - pt[y] \in Int
  OBVIOUS
<1>6. Grid \in Nat \ {0}
  BY GridAssumption
<1> HIDE DEF E
<1>7. ASSUME dbm_isRealPointIncluded(pt, E, Grid)
      PROVE  dbm_isRealPointIncluded(pt, D, Grid)
  <2> SUFFICES ASSUME NEW a \in Clk, NEW b \in Clk
               PROVE  Within(pt[a] - pt[b], D[a][b], Grid)
    BY DEF dbm_isRealPointIncluded
  <2>1. Within(pt[a] - pt[b], E[a][b], Grid)
    BY <1>7 DEF dbm_isRealPointIncluded
  <2>2. CASE a = r
    BY <1>2, <1>4, <1>5, <1>6, <2>1, <2>2, WithinMonotone
  <2>3. CASE a # r
    BY <1>3, <2>1, <2>3
  <2> QED
    BY <2>2, <2>3
<1>8. ASSUME dbm_isRealPointIncluded(pt, D, Grid)
      PROVE  dbm_isRealPointIncluded(pt, E, Grid)
  <2> SUFFICES ASSUME NEW a \in Clk, NEW b \in Clk
               PROVE  Within(pt[a] - pt[b], E[a][b], Grid)
    BY DEF dbm_isRealPointIncluded
  <2>1. /\ Within(pt[a] - pt[b], D[a][b], Grid)
        /\ Within(pt[a] - pt[c], D[a][c], Grid)
        /\ Within(pt[c] - pt[b], D[c][b], Grid)
    BY <1>8 DEF dbm_isRealPointIncluded
  <2>2. CASE E[a][b] = D[a][b]
    BY <2>1, <2>2
  <2>3. CASE /\ D[a][c] # dbm_LS_INFINITY /\ D[c][b] # dbm_LS_INFINITY
             /\ E[a][b] = dbm_addFiniteFinite(D[a][c], D[c][b])
    <3>1. D[a][c] < dbm_LS_INFINITY /\ D[c][b] < dbm_LS_INFINITY
      BY <1>1, <1>2, <2>3
    <3>2. Within((pt[a] - pt[c]) + (pt[c] - pt[b]), E[a][b], Grid)
      BY <1>2, <1>5, <1>6, <2>1, <2>3, <3>1, WithinAdd
    <3>3. (pt[a] - pt[c]) + (pt[c] - pt[b]) = pt[a] - pt[b]
      OBVIOUS
    <3> QED
      BY <3>2, <3>3
  <2> QED
    BY <1>3, <2>2, <2>3, RowEntry
<1> QED
  BY <1>7, <1>8 DEF E

\* A negative diagonal excludes every point.
LEMMA NegativeIsEmpty ==
  ASSUME NEW D, NEW c \in Clk, D[c][c] \in Int, D[c][c] < dbm_LE_ZERO,
         NEW pt \in [Clk -> Int]
  PROVE  ~dbm_isRealPointIncluded(pt, D, Grid)
<1>1. pt[c] - pt[c] = 0
  OBVIOUS
<1>2. ~Within(pt[c] - pt[c], D[c][c], Grid)
  BY <1>1, WithinZero, GridAssumption
<1> QED
  BY <1>2 DEF dbm_isRealPointIncluded

\* What ExitEmpty leaves behind: a matrix without points, marked for dbm_isEmpty.
LEMMA ExitMarks ==
  ASSUME TypeOK, ExitEmpty
  PROVE  /\ dbm_isEmpty(dbm')
         /\ \A pt \in Points : ~dbm_isRealPointIncluded(pt, dbm', Grid)
         /\ \A pt \in Points : ~dbm_isRealPointIncluded(pt, dbm, Grid)
<1> DEFINE tightened == [dbm EXCEPT ![i] = RowVia(dbm, i, k)]
<1>1. /\ dbm \in Matrices /\ i \in Clk /\ k \in Clk /\ 0 \in Clk
      /\ RowIsValid(dbm, i, k)
  BY DimAssumption, SMTT(30) DEF ExitEmpty, TypeOK, Matrices, Clk
<1>2. /\ MinSum \in Int /\ dbm_LS_INFINITY \in Int /\ dbm_LE_ZERO \in Int
      /\ -1 < dbm_LE_ZERO
  BY SMT DEF MinSum, dbm_LE_OVERFLOW, dbm_LS_INFINITY, dbm_LE_ZERO
<1>3. tightened[i][i] \in Int /\ tightened[i][i] < dbm_LE_ZERO
  <2>1. tightened[i] = RowVia(dbm, i, k)
    BY <1>1 DEF Matrices
  <2>2. RowVia(dbm, i, k)[i] \in Int
    BY <1>1, <1>2, RowEntry
  <2> QED
    BY <2>1, <2>2 DEF ExitEmpty
<1>4. \A pt \in Points : ~dbm_isRealPointIncluded(pt, tightened, Grid)
  BY <1>1, <1>3, NegativeIsEmpty, PointsAssumption
<1>5. \A pt \in Points : ~dbm_isRealPointIncluded(pt, dbm, Grid)
  BY <1>1, <1>4, RowSolutions, PointsAssumption
<1>6. tightened \in [Clk -> [Clk -> Int]]
  <2>1. \A b \in Clk : RowVia(dbm, i, k)[b] \in Int
    BY <1>1, <1>2, RowEntry
  <2>2. RowVia(dbm, i, k) \in [Clk -> Int]
    BY <2>1 DEF RowVia
  <2>3. dbm \in [Clk -> [Clk -> Int]]
    BY <1>1, <1>2 DEF Matrices
  <2> QED
    BY <2>2, <2>3
<1>7. dbm' = tightened \/ dbm' = [tightened EXCEPT ![0][0] = -1]
  BY DEF ExitEmpty
<1> HIDE DEF tightened
<1>8. CASE dbm' = tightened
  BY <1>1, <1>3, <1>4, <1>5, <1>8 DEF dbm_isEmpty
<1>9. CASE dbm' = [tightened EXCEPT ![0][0] = -1]
  <2>1. dbm'[0][0] = -1
    BY <1>1, <1>6, <1>9
  <2>2. dbm'[0][0] \in Int /\ dbm'[0][0] < dbm_LE_ZERO
    BY <1>2, <2>1
  <2>3. \A pt \in Points : ~dbm_isRealPointIncluded(pt, dbm', Grid)
    BY <1>1, <2>2, NegativeIsEmpty, PointsAssumption
  <2> QED
    BY <1>1, <1>5, <2>2, <2>3 DEF dbm_isEmpty
<1> QED
  BY <1>7, <1>8, <1>9

\* Each step keeps the points.
LEMMA SolutionsStep == TypeOK /\ SameSolutions /\ [Next]_vars => SameSolutions'
<1> SUFFICES ASSUME TypeOK, SameSolutions, [Next]_vars PROVE SameSolutions'
  OBVIOUS
<1>1. CASE dbm' = dbm /\ input' = input
  BY <1>1 DEF SameSolutions
<1>2. CASE TightenRow
  <2>1. /\ dbm \in Matrices /\ i \in Clk /\ k \in Clk /\ input' = input
        /\ RowIsValid(dbm, i, k)
        /\ dbm' = [dbm EXCEPT ![i] = RowVia(dbm, i, k)]
    <3>1. dbm \in Matrices /\ k \in Clk /\ i \in 0 .. dim
      BY DEF TypeOK, Matrices
    <3>2. i < dim
      BY <1>2 DEF TightenRow
    <3>3. i \in Clk
      BY <3>1, <3>2, DimAssumption DEF Clk
    <3>4. /\ RowIsValid(dbm, i, k) /\ input' = input
          /\ dbm' = [dbm EXCEPT ![i] = RowVia(dbm, i, k)]
      BY <1>2 DEF TightenRow
    <3> QED
      BY <3>1, <3>3, <3>4
  <2>2. \A pt \in Points : dbm_isRealPointIncluded(pt, dbm', Grid)
                              <=> dbm_isRealPointIncluded(pt, dbm, Grid)
    BY <2>1, RowSolutions, PointsAssumption
  <2> QED
    BY <2>1, <2>2 DEF SameSolutions
<1>3. CASE ExitEmpty
  BY <1>3, ExitMarks DEF SameSolutions, ExitEmpty
<1> QED
  BY <1>1, <1>2, <1>3
     DEF Next, vars, StartPass, SkipRow, AssertRaw, Return

\* The closure never gains or loses a point, in any state of any call.
THEOREM SolutionsPreserved == Spec => []SameSolutions
<1>1. Init => SameSolutions
  BY InputType DEF SameSolutions
<1>2. TypeOK /\ SameSolutions /\ [Next]_vars => SameSolutions'
  BY SolutionsStep
<1> QED
  BY TypeCorrect, <1>1, <1>2, PTL DEF Spec

\* A call turns "empty" at ExitEmpty only.
LEMMA EmptyStep ==
  TypeOK /\ SameSolutions /\ EmptyIsRight /\ [Next]_vars => EmptyIsRight'
<1> SUFFICES ASSUME TypeOK, SameSolutions, EmptyIsRight, [Next]_vars
             PROVE  EmptyIsRight'
  OBVIOUS
<1>1. CASE ret = "running" /\ ret' # "empty"
  BY <1>1 DEF EmptyIsRight
<1>2. CASE ExitEmpty
  BY <1>2, ExitMarks DEF EmptyIsRight, SameSolutions, ExitEmpty
<1>3. CASE UNCHANGED vars
  BY <1>3 DEF EmptyIsRight, vars
<1> QED
  BY <1>1, <1>2, <1>3
     DEF Next, StartPass, SkipRow, TightenRow, AssertRaw, Return

\* A call that returns false was given an empty zone, and marks its matrix.
THEOREM EmptyDetected == Spec => []EmptyIsRight
<1>1. Init => EmptyIsRight
  BY DEF Init, EmptyIsRight
<1>2. TypeOK /\ SameSolutions /\ EmptyIsRight /\ [Next]_vars => EmptyIsRight'
  BY EmptyStep
<1> QED
  BY TypeCorrect, SolutionsPreserved, <1>1, <1>2, PTL DEF Spec

-----------------------------------------------------------------------------
(***************************************************************************)
(* The closure functions implement the specification of Closure.  Its      *)
(* Weight adds up a path with dbm_addRawRaw, for which a sum that happens  *)
(* to be dbm_LS_INFINITY is no path; the proof adds up walks with          *)
(* dbm_addFiniteFinite, where every sum can be taken apart and put         *)
(* together again, and shows that the walks that matter stay clear of it.  *)
(***************************************************************************)

\* p walks from p[1] to p[n] along finite bounds of D, which u adds up.
IsWalk(D, n, p, u) ==
  /\ n \in Nat /\ n >= 1
  /\ p \in [1 .. n -> Clk] /\ u \in [1 .. n -> Int]
  /\ \A x \in 1 .. n - 1 : D[p[x]][p[x + 1]] # dbm_LS_INFINITY
  /\ \A x \in 1 .. n - 1 : u[x + 1] = u[x] + dbm_raw2bound(D[p[x]][p[x + 1]])

\* The raw that the edges of the walk between its places m and n add up to.
WeakOn(D, p, m, n) == \A x \in m .. n - 1 : dbm_rawIsWeak(D[p[x]][p[x + 1]])
Sum(D, p, u, m, n) == 2 * (u[n] - u[m]) + (IF WeakOn(D, p, m, n) THEN 1 ELSE 0)

IsInts(D) == \A a, b \in Clk : D[a][b] \in Int

\* A raw is known by its two parts.
LEMMA SameParts ==
  ASSUME NEW x \in Int, NEW y \in Int, dbm_raw2bound(x) = dbm_raw2bound(y),
         dbm_rawIsWeak(x) <=> dbm_rawIsWeak(y)
  PROVE  x = y
BY RawParts

\* The two parts of a sum.
LEMMA SumParts ==
  ASSUME NEW D, NEW p, NEW u, NEW m, NEW n, u[m] \in Int, u[n] \in Int
  PROVE  /\ Sum(D, p, u, m, n) \in Int
         /\ dbm_raw2bound(Sum(D, p, u, m, n)) = u[n] - u[m]
         /\ dbm_rawIsWeak(Sum(D, p, u, m, n)) <=> WeakOn(D, p, m, n)
<1> DEFINE d == u[n] - u[m]
<1>1. d \in Int
  OBVIOUS
<1>2. CASE WeakOn(D, p, m, n)
  <2>1. Sum(D, p, u, m, n) = 2 * d + 1
    BY <1>2 DEF Sum
  <2> HIDE DEF d
  <2> QED
    BY <1>1, <1>2, <2>1 DEF dbm_raw2bound, dbm_rawIsWeak, d
<1>3. CASE ~WeakOn(D, p, m, n)
  <2>1. Sum(D, p, u, m, n) = 2 * d
    BY <1>1, <1>3 DEF Sum
  <2> HIDE DEF d
  <2> QED
    BY <1>1, <1>3, <2>1 DEF dbm_raw2bound, dbm_rawIsWeak, d
<1> QED
  BY <1>2, <1>3

\* A walk may be added up in two parts.
LEMMA SumSplits ==
  ASSUME NEW D, NEW n, NEW p, NEW u, IsWalk(D, n, p, u),
         NEW a \in 1 .. n, NEW b \in 1 .. n, NEW c \in 1 .. n, a <= b, b <= c
  PROVE  Sum(D, p, u, a, c)
           = dbm_addFiniteFinite(Sum(D, p, u, a, b), Sum(D, p, u, b, c))
<1> DEFINE s == dbm_addFiniteFinite(Sum(D, p, u, a, b), Sum(D, p, u, b, c))
<1>1. u[a] \in Int /\ u[b] \in Int /\ u[c] \in Int /\ n \in Nat
  BY DEF IsWalk
<1>2. WeakOn(D, p, a, c) <=> WeakOn(D, p, a, b) /\ WeakOn(D, p, b, c)
  <2>1. \A x : x \in a .. c - 1 <=> x \in a .. b - 1 \/ x \in b .. c - 1
    BY <1>1
  <2> QED
    BY <2>1 DEF WeakOn
<1>3. /\ Sum(D, p, u, a, b) \in Int /\ dbm_raw2bound(Sum(D, p, u, a, b)) = u[b] - u[a]
      /\ dbm_rawIsWeak(Sum(D, p, u, a, b)) <=> WeakOn(D, p, a, b)
  BY <1>1, SumParts
<1>4. /\ Sum(D, p, u, b, c) \in Int /\ dbm_raw2bound(Sum(D, p, u, b, c)) = u[c] - u[b]
      /\ dbm_rawIsWeak(Sum(D, p, u, b, c)) <=> WeakOn(D, p, b, c)
  BY <1>1, SumParts
<1>5. /\ Sum(D, p, u, a, c) \in Int /\ dbm_raw2bound(Sum(D, p, u, a, c)) = u[c] - u[a]
      /\ dbm_rawIsWeak(Sum(D, p, u, a, c)) <=> WeakOn(D, p, a, c)
  BY <1>1, SumParts
<1>6. /\ s \in Int /\ dbm_raw2bound(s) = u[c] - u[a]
      /\ dbm_rawIsWeak(s) <=> WeakOn(D, p, a, c)
  <2> DEFINE x == Sum(D, p, u, a, b)
             y == Sum(D, p, u, b, c)
  <2>1. x \in Int /\ y \in Int
    BY <1>3, <1>4
  <2> HIDE DEF x, y
  <2>2. /\ dbm_addFiniteFinite(x, y) \in Int
        /\ dbm_raw2bound(dbm_addFiniteFinite(x, y)) = dbm_raw2bound(x) + dbm_raw2bound(y)
        /\ dbm_rawIsWeak(dbm_addFiniteFinite(x, y)) <=> dbm_rawIsWeak(x) /\ dbm_rawIsWeak(y)
    BY <2>1, AddParts
  <2>3. u[c] - u[a] = (u[b] - u[a]) + (u[c] - u[b])
    BY <1>1
  <2> QED
    BY <1>2, <1>3, <1>4, <2>2, <2>3 DEF x, y
<1> HIDE DEF s
<1> QED
  BY <1>5, <1>6, SameParts DEF s

\* A walk along one edge weighs what the edge does.
LEMMA SumOfEdge ==
  ASSUME NEW D, IsInts(D), NEW n, NEW p, NEW u, IsWalk(D, n, p, u), NEW x \in 1 .. n - 1
  PROVE  Sum(D, p, u, x, x + 1) = D[p[x]][p[x + 1]]
<1>1. /\ x \in 1 .. n /\ x + 1 \in 1 .. n /\ x .. (x + 1) - 1 = {x} /\ n \in Nat
      /\ u[x] \in Int /\ u[x + 1] \in Int /\ p[x] \in Clk /\ p[x + 1] \in Clk
  BY DEF IsWalk
<1>2. u[x + 1] = u[x] + dbm_raw2bound(D[p[x]][p[x + 1]]) /\ D[p[x]][p[x + 1]] \in Int
  BY <1>1 DEF IsWalk, IsInts
<1>3. WeakOn(D, p, x, x + 1) <=> dbm_rawIsWeak(D[p[x]][p[x + 1]])
  BY <1>1 DEF WeakOn
<1>4. dbm_raw2bound(D[p[x]][p[x + 1]]) \in Int
  BY <1>2, RawParts
<1>5. /\ Sum(D, p, u, x, x + 1) \in Int
      /\ dbm_raw2bound(Sum(D, p, u, x, x + 1)) = u[x + 1] - u[x]
      /\ dbm_rawIsWeak(Sum(D, p, u, x, x + 1)) <=> WeakOn(D, p, x, x + 1)
  BY <1>1, SumParts
<1>6. u[x + 1] - u[x] = dbm_raw2bound(D[p[x]][p[x + 1]])
  BY <1>1, <1>2, <1>4
<1> QED
  BY <1>2, <1>3, <1>5, <1>6, SameParts

\* A walk that stays where it is weighs nothing.
LEMMA SumOfNothing ==
  ASSUME NEW D, NEW p, NEW u, NEW m \in Int, u[m] \in Int
  PROVE  Sum(D, p, u, m, m) = dbm_LE_ZERO
<1>1. m .. m - 1 = {}
  OBVIOUS
<1>2. WeakOn(D, p, m, m)
  BY <1>1 DEF WeakOn
<1> QED
  BY <1>2, Infinity DEF Sum

\* l places of a walk from place a on, and that a part of a walk is a walk.
Part(p, a, l) == [x \in 1 .. l |-> p[a + x - 1]]

\* A part of a walk is a walk.
LEMMA PartOfWalk ==
  ASSUME NEW D, NEW n, NEW p, NEW u, IsWalk(D, n, p, u),
         NEW a \in 1 .. n, NEW b \in 1 .. n, a <= b, NEW l \in Nat, l = b - a + 1
  PROVE  LET q == Part(p, a, l)
             v == Part(u, a, l)
         IN  /\ IsWalk(D, l, q, v)
             /\ \A x \in 1 .. l : q[x] = p[a + x - 1] /\ v[x] = u[a + x - 1]
             /\ Sum(D, q, v, 1, l) = Sum(D, p, u, a, b)
<1> DEFINE q == Part(p, a, l)
           v == Part(u, a, l)
<1>1. n \in Nat /\ l \in Nat /\ l >= 1 /\ a + l - 1 = b /\ a + 1 - 1 = a /\ 1 \in 1 .. l /\ l \in 1 .. l
  BY DEF IsWalk
<1>2. \A x \in 1 .. l : a + x - 1 \in 1 .. n
  BY <1>1
<1>3. \A x \in 1 .. l - 1 : x \in 1 .. l /\ x + 1 \in 1 .. l /\ a + x - 1 \in 1 .. n - 1
                           /\ a + (x + 1) - 1 = (a + x - 1) + 1
  BY <1>1
<1>4. \A x \in 1 .. l : q[x] = p[a + x - 1] /\ v[x] = u[a + x - 1]
  BY DEF Part
<1>5. q \in [1 .. l -> Clk] /\ v \in [1 .. l -> Int]
  BY <1>2 DEF IsWalk, Part
<1> HIDE DEF q, v
<1>6. \A x \in 1 .. l - 1 : q[x] = p[a + x - 1] /\ q[x + 1] = p[(a + x - 1) + 1]
                            /\ v[x] = u[a + x - 1] /\ v[x + 1] = u[(a + x - 1) + 1]
  BY <1>3, <1>4
<1>7. IsWalk(D, l, q, v)
  BY <1>1, <1>3, <1>5, <1>6 DEF IsWalk
<1>8. WeakOn(D, q, 1, l) <=> WeakOn(D, p, a, b)
  <2>1. WeakOn(D, p, a, b) => WeakOn(D, q, 1, l)
    <3>1. \A x \in 1 .. l - 1 : a + x - 1 \in a .. b - 1
      BY <1>1
    <3> QED
      BY <1>6, <3>1 DEF WeakOn
  <2>2. WeakOn(D, q, 1, l) => WeakOn(D, p, a, b)
    <3>1. \A y \in a .. b - 1 : y - a + 1 \in 1 .. l - 1 /\ a + (y - a + 1) - 1 = y
      BY <1>1
    <3> QED
      BY <1>6, <3>1 DEF WeakOn
  <2> QED
    BY <2>1, <2>2
<1>9. Sum(D, q, v, 1, l) = Sum(D, p, u, a, b)
  <2>1. v[1] = u[a] /\ v[l] = u[b]
    BY <1>1, <1>4
  <2> QED
    BY <1>8, <2>1 DEF Sum
<1> QED
  BY <1>4, <1>7, <1>9 DEF q, v

\* The walk r, t takes the edges of the walk p, u and then those of q, v.
IsJoined(n, p, u, m, q, v, r, t) ==
  /\ \A x \in 1 .. n : r[x] = p[x] /\ t[x] = u[x]
  /\ \A x \in 1 .. m : r[n + x - 1] = q[x] /\ t[n + x - 1] = u[n] + v[x] - v[1]

\* Two walks that meet make one.
LEMMA JoinedWalk ==
  ASSUME NEW D, IsInts(D), NEW n, NEW p, NEW u, IsWalk(D, n, p, u),
         NEW m, NEW q, NEW v, IsWalk(D, m, q, v), p[n] = q[1],
         NEW l, l = n + m - 1
  PROVE  \E r, t : /\ IsWalk(D, l, r, t)
                   /\ IsJoined(n, p, u, m, q, v, r, t)
                   /\ Sum(D, r, t, 1, l)
                        = dbm_addFiniteFinite(Sum(D, p, u, 1, n), Sum(D, q, v, 1, m))
<1> DEFINE r == [x \in 1 .. l |-> IF x <= n THEN p[x] ELSE q[x - n + 1]]
           t == [x \in 1 .. l |-> IF x <= n THEN u[x] ELSE u[n] + v[x - n + 1] - v[1]]
<1>1. /\ n \in Nat /\ m \in Nat /\ l \in Nat /\ n >= 1 /\ m >= 1 /\ l >= n
      /\ 1 \in 1 .. n /\ n \in 1 .. n /\ 1 \in 1 .. m /\ m \in 1 .. m
      /\ 1 \in 1 .. l /\ n \in 1 .. l /\ l \in 1 .. l /\ n + 1 - 1 = n /\ n + m - 1 = l
  BY DEF IsWalk
<1>2. \A x \in 1 .. l : x > n => x - n + 1 \in 1 .. m
  BY <1>1
<1>3. /\ \A x \in 1 .. n : p[x] \in Clk /\ u[x] \in Int
      /\ \A x \in 1 .. m : q[x] \in Clk /\ v[x] \in Int
  BY DEF IsWalk
<1>4. r \in [1 .. l -> Clk] /\ t \in [1 .. l -> Int]
  <2>1. \A x \in 1 .. l : x <= n => x \in 1 .. n
    BY <1>1
  <2>2. \A x \in 1 .. l : ~(x <= n) => x - n + 1 \in 1 .. m
    BY <1>1, <1>2
  <2> QED
    BY <1>1, <1>3, <2>1, <2>2
<1>5. \A x \in 1 .. n : r[x] = p[x] /\ t[x] = u[x]
  BY <1>1
<1>6. \A x \in 1 .. m : r[n + x - 1] = q[x] /\ t[n + x - 1] = u[n] + v[x] - v[1]
  <2> TAKE x \in 1 .. m
  <2>1. CASE x = 1
    BY <1>1, <1>3, <1>5, <2>1
  <2>2. CASE x # 1
    <3>1. n + x - 1 \in 1 .. l /\ ~(n + x - 1 <= n) /\ (n + x - 1) - n + 1 = x
      BY <1>1, <2>2
    <3> QED
      BY <3>1
  <2> QED
    BY <2>1, <2>2
<1> HIDE DEF r, t
<1>7. \A x \in 1 .. l - 1 : \/ x \in 1 .. n - 1
                            \/ \E y \in 1 .. m - 1 : x = n + y - 1
  <2> TAKE x \in 1 .. l - 1
  <2>1. CASE x < n
    BY <1>1, <2>1
  <2>2. CASE x >= n
    <3>1. x - n + 1 \in 1 .. m - 1 /\ x = n + (x - n + 1) - 1
      BY <1>1, <2>2
    <3> QED
      BY <3>1
  <2> QED
    BY <1>1, <2>1, <2>2
<1>8. \A x \in 1 .. n - 1 : x \in 1 .. n /\ x + 1 \in 1 .. n /\ x \in 1 .. l - 1
  BY <1>1
<1>9. \A y \in 1 .. m - 1 : y \in 1 .. m /\ y + 1 \in 1 .. m /\ n + y - 1 \in 1 .. l - 1
                           /\ (n + y - 1) + 1 = n + (y + 1) - 1
  BY <1>1
<1>10. \A x \in 1 .. n - 1 : /\ r[x] = p[x] /\ r[x + 1] = p[x + 1]
                             /\ t[x] = u[x] /\ t[x + 1] = u[x + 1]
  BY <1>5, <1>8
<1>11. \A y \in 1 .. m - 1 : /\ r[n + y - 1] = q[y] /\ r[(n + y - 1) + 1] = q[y + 1]
                             /\ t[n + y - 1] = u[n] + v[y] - v[1]
                             /\ t[(n + y - 1) + 1] = u[n] + v[y + 1] - v[1]
  BY <1>6, <1>9
<1>12. ASSUME NEW x \in 1 .. l - 1
       PROVE  /\ D[r[x]][r[x + 1]] # dbm_LS_INFINITY
              /\ t[x + 1] = t[x] + dbm_raw2bound(D[r[x]][r[x + 1]])
  <2>1. CASE x \in 1 .. n - 1
    BY <1>10, <2>1 DEF IsWalk
  <2>2. ASSUME NEW y \in 1 .. m - 1, x = n + y - 1
        PROVE  /\ D[r[x]][r[x + 1]] # dbm_LS_INFINITY
               /\ t[x + 1] = t[x] + dbm_raw2bound(D[r[x]][r[x + 1]])
    <3> DEFINE e == dbm_raw2bound(D[q[y]][q[y + 1]])
    <3>1. D[q[y]][q[y + 1]] # dbm_LS_INFINITY /\ v[y + 1] = v[y] + e
      BY DEF IsWalk
    <3>2. e \in Int
      BY <1>3, <1>9, RawParts DEF IsInts
    <3> HIDE DEF e
    <3>3. u[n] + v[y + 1] - v[1] = (u[n] + v[y] - v[1]) + e
      BY <1>1, <1>3, <1>9, <3>1, <3>2
    <3> QED
      BY <1>11, <2>2, <3>1, <3>3 DEF e
  <2> QED
    BY <1>7, <2>1, <2>2
<1>13. IsWalk(D, l, r, t)
  BY <1>1, <1>4, <1>12 DEF IsWalk
<1>14. Sum(D, r, t, 1, l) = dbm_addFiniteFinite(Sum(D, r, t, 1, n), Sum(D, r, t, n, l))
  BY <1>1, <1>13, SumSplits
<1>15. Sum(D, r, t, 1, n) = Sum(D, p, u, 1, n)
  <2>1. WeakOn(D, r, 1, n) <=> WeakOn(D, p, 1, n)
    BY <1>10 DEF WeakOn
  <2> QED
    BY <1>1, <1>5, <2>1 DEF Sum
<1>16. Sum(D, r, t, n, l) = Sum(D, q, v, 1, m)
  <2>1. WeakOn(D, r, n, l) => WeakOn(D, q, 1, m)
    <3>1. \A y \in 1 .. m - 1 : n + y - 1 \in n .. l - 1
      BY <1>1
    <3> QED
      BY <1>11, <3>1 DEF WeakOn
  <2>2. WeakOn(D, q, 1, m) => WeakOn(D, r, n, l)
    <3>1. \A x \in n .. l - 1 : x - n + 1 \in 1 .. m - 1 /\ n + (x - n + 1) - 1 = x
      BY <1>1
    <3> QED
      BY <1>11, <3>1 DEF WeakOn
  <2>3. t[n] = u[n] /\ t[l] = u[n] + v[m] - v[1]
    BY <1>1, <1>5, <1>6
  <2>4. t[l] - t[n] = v[m] - v[1]
    BY <1>1, <1>3, <2>3
  <2> QED
    BY <2>1, <2>2, <2>4 DEF Sum
<1>17. IsJoined(n, p, u, m, q, v, r, t)
  BY <1>5, <1>6 DEF IsJoined
<1> QED
  BY <1>13, <1>14, <1>15, <1>16, <1>17

\* The abstract specification computes with the same raws, on the same clocks.
LEMMA AbstractRaws ==
  /\ Abstract!dbm_LE_ZERO = dbm_LE_ZERO
  /\ Abstract!dbm_LE_OVERFLOW = dbm_LE_OVERFLOW
  /\ Abstract!dbm_LS_INFINITY = dbm_LS_INFINITY
  /\ Abstract!Clk = Clk
  /\ \A x, y : Abstract!dbm_addRawRaw(x, y) = dbm_addRawRaw(x, y)
<1>1. \A x, y : Abstract!dbm_addFiniteFinite(x, y) = dbm_addFiniteFinite(x, y)
  BY DEF Abstract!dbm_addFiniteFinite, Abstract!dbm_rawIsWeak, dbm_addFiniteFinite, dbm_rawIsWeak
<1>2. Abstract!dbm_LS_INFINITY = dbm_LS_INFINITY
  BY DEF Abstract!dbm_LS_INFINITY, dbm_LS_INFINITY
<1>3. \A x, y : Abstract!dbm_addRawRaw(x, y) = dbm_addRawRaw(x, y)
  BY <1>1, <1>2 DEF Abstract!dbm_addRawRaw, dbm_addRawRaw
<1> QED
  BY <1>2, <1>3 DEF Abstract!dbm_LE_ZERO, dbm_LE_ZERO, Abstract!dbm_LE_OVERFLOW, dbm_LE_OVERFLOW,
                    Abstract!Clk, Clk

\* What Weight of the abstract specification adds up, one edge at a time.
LEMMA WeightSteps ==
  ASSUME NEW D, IsInts(D), NEW n \in Nat, n >= 1, NEW p \in [1 .. n -> Clk]
  PROVE  \E w : /\ \A x \in 1 .. n : w[x] \in Int
                /\ w[1] = dbm_LE_ZERO
                /\ \A x \in 1 .. n - 1 : w[x + 1] = dbm_addRawRaw(w[x], D[p[x]][p[x + 1]])
                /\ Abstract!Weight(D, p) = w[n]
<1> DEFINE edge(x) == D[p[x - 1]][p[x]]
           IsUpTo(f) == f = [x \in 1 .. n |-> IF x = 1 THEN dbm_LE_ZERO
                                              ELSE dbm_addRawRaw(f[x - 1], edge(x))]
           upTo == CHOOSE f : IsUpTo(f)
           step == [q \in Nat \X Int |->
                      IF q[1] \in 1 .. n - 1 THEN dbm_addRawRaw(q[2], edge(q[1] + 1)) ELSE q[2]]
<1>1. Len(p) = n
  OBVIOUS
<1>2. \A x \in 1 .. n - 1 : edge(x + 1) \in Int
  <2> TAKE x \in 1 .. n - 1
  <2>1. (x + 1) - 1 = x /\ x \in 1 .. n /\ x + 1 \in 1 .. n
    OBVIOUS
  <2>2. p[x] \in Clk /\ p[x + 1] \in Clk
    BY <2>1
  <2> QED
    BY <2>1, <2>2 DEF IsInts
<1> HIDE DEF edge
<1>3. \A x, y \in Int : dbm_addRawRaw(x, y) \in Int
  BY AddParts, Infinity DEF dbm_addRawRaw
<1>4. step \in [Nat \X Int -> Int]
  BY <1>2, <1>3
<1>5. PICK f \in [0 .. n - 1 -> Int] : Runs(f, n - 1, dbm_LE_ZERO, step)
  <2>1. n - 1 \in Nat /\ dbm_LE_ZERO \in Int
    BY Infinity
  <2> HIDE DEF step
  <2> QED
    BY <1>4, <2>1, Recursion
<1> DEFINE g == [x \in 1 .. n |-> f[x - 1]]
<1>6. \A x \in 1 .. n : x - 1 \in 0 .. n - 1 /\ g[x] = f[x - 1] /\ g[x] \in Int
  OBVIOUS
<1>7. /\ f[0] = dbm_LE_ZERO
      /\ \A x \in 1 .. n - 1 : f[x] = step[<<x, f[x - 1]>>]
  <2> HIDE DEF step
  <2>1. f = [x \in 0 .. n - 1 |-> IF x = 0 THEN dbm_LE_ZERO ELSE step[<<x, f[x - 1]>>]]
    BY <1>5 DEF Runs
  <2>2. \A x \in 0 .. n - 1 : f[x] = IF x = 0 THEN dbm_LE_ZERO ELSE step[<<x, f[x - 1]>>]
    BY <2>1
  <2>3. 0 \in 0 .. n - 1 /\ \A x \in 1 .. n - 1 : x \in 0 .. n - 1 /\ x # 0
    OBVIOUS
  <2> QED
    BY <2>2, <2>3
<1>8. \A x \in 1 .. n - 1 : g[x + 1] = dbm_addRawRaw(g[x], edge(x + 1))
  <2> TAKE x \in 1 .. n - 1
  <2>1. x \in 1 .. n /\ x + 1 \in 1 .. n /\ (x + 1) - 1 = x /\ x \in Nat
    OBVIOUS
  <2>2. g[x] = f[x - 1] /\ g[x + 1] = f[x] /\ g[x] \in Int
    BY <1>6, <2>1
  <2> HIDE DEF g
  <2>3. step[<<x, g[x]>>] = dbm_addRawRaw(g[x], edge(x + 1))
    BY <2>1, <2>2
  <2> QED
    BY <1>7, <2>2, <2>3
<1>9. g[1] = dbm_LE_ZERO
  BY <1>6, <1>7
<1>10. IsUpTo(g)
  <2>1. \A x \in 1 .. n : g[x] = IF x = 1 THEN dbm_LE_ZERO
                                 ELSE dbm_addRawRaw(g[x - 1], edge(x))
    <3> TAKE x \in 1 .. n
    <3>1. CASE x = 1
      BY <1>9, <3>1
    <3>2. CASE x # 1
      <4>1. x - 1 \in 1 .. n - 1 /\ (x - 1) + 1 = x
        BY <3>2
      <4> HIDE DEF g
      <4> QED
        BY <1>8, <3>2, <4>1
    <3> QED
      BY <3>1, <3>2
  <2> QED
    BY <2>1
<1>11. IsUpTo(upTo)
  BY <1>10
<1>12. Abstract!Weight(D, p) = upTo[n]
  BY <1>1, AbstractRaws DEF Abstract!Weight, edge
<1> HIDE DEF upTo, g
<1>13. upTo[1] = dbm_LE_ZERO /\ \A x \in 1 .. n : x # 1 => upTo[x] = dbm_addRawRaw(upTo[x - 1], edge(x))
  BY <1>11
<1>14. \A x \in 1 .. n - 1 : upTo[x + 1] = dbm_addRawRaw(upTo[x], D[p[x]][p[x + 1]])
  <2> TAKE x \in 1 .. n - 1
  <2>1. x + 1 \in 1 .. n /\ x + 1 # 1 /\ (x + 1) - 1 = x
    OBVIOUS
  <2> QED
    BY <1>13, <2>1 DEF edge
<1>15. \A x \in 1 .. n : upTo[x] \in Int
  <2> DEFINE S == {h \in Nat : h + 1 \in 1 .. n => upTo[h + 1] \in Int}
  <2>1. 0 \in S
    BY <1>13, Infinity
  <2>2. ASSUME NEW h \in Nat, h \in S PROVE h + 1 \in S
    <3> SUFFICES ASSUME (h + 1) + 1 \in 1 .. n PROVE upTo[(h + 1) + 1] \in Int
      OBVIOUS
    <3>1. h + 1 \in 1 .. n - 1 /\ h + 1 \in 1 .. n
      OBVIOUS
    <3>2. upTo[h + 1] \in Int
      BY <2>2, <3>1
    <3>3. D[p[h + 1]][p[(h + 1) + 1]] \in Int
      BY <3>1 DEF IsInts
    <3> QED
      BY <1>3, <1>14, <3>1, <3>2, <3>3
  <2> HIDE DEF S
  <2>3. \A h \in Nat : h \in S
    BY <2>1, <2>2, Induction
  <2> QED
    <3> TAKE x \in 1 .. n
    <3>1. x - 1 \in Nat /\ (x - 1) + 1 = x
      OBVIOUS
    <3> QED
      BY <2>3, <3>1 DEF S
<1> QED
  BY <1>12, <1>13, <1>14, <1>15

\* Every path has a weight.
LEMMA WeightIsInt ==
  ASSUME NEW D, IsInts(D), NEW n \in Nat, n >= 1, NEW p \in [1 .. n -> Clk]
  PROVE  Abstract!Weight(D, p) \in Int
<1>1. PICK w : (\A x \in 1 .. n : w[x] \in Int) /\ Abstract!Weight(D, p) = w[n]
  BY WeightSteps
<1> QED
  BY <1>1

\* A walk that stays finite in every prefix weighs its sum.
LEMMA WeightOfWalk ==
  ASSUME NEW D, IsInts(D), NEW n, NEW p, NEW u, IsWalk(D, n, p, u),
         \A x \in 1 .. n - 1 : Sum(D, p, u, 1, x) # dbm_LS_INFINITY
  PROVE  Abstract!Weight(D, p) = Sum(D, p, u, 1, n)
<1>1. n \in Nat /\ n >= 1 /\ p \in [1 .. n -> Clk] /\ 1 \in 1 .. n
  BY DEF IsWalk
<1>2. PICK w : /\ w[1] = dbm_LE_ZERO
               /\ \A x \in 1 .. n - 1 : w[x + 1] = dbm_addRawRaw(w[x], D[p[x]][p[x + 1]])
               /\ Abstract!Weight(D, p) = w[n]
  BY <1>1, WeightSteps
<1> DEFINE S == {h \in Nat : h + 1 \in 1 .. n => w[h + 1] = Sum(D, p, u, 1, h + 1)}
<1>3. 0 \in S
  <2>1. u[1] \in Int
    BY <1>1 DEF IsWalk
  <2>2. Sum(D, p, u, 1, 1) = dbm_LE_ZERO
    BY <2>1, SumOfNothing
  <2> QED
    BY <1>2, <2>2
<1>4. ASSUME NEW h \in Nat, h \in S PROVE h + 1 \in S
  <2> SUFFICES ASSUME (h + 1) + 1 \in 1 .. n PROVE w[(h + 1) + 1] = Sum(D, p, u, 1, (h + 1) + 1)
    OBVIOUS
  <2> DEFINE x == h + 1
  <2>1. x \in 1 .. n - 1 /\ x \in 1 .. n /\ x + 1 \in 1 .. n
    BY <1>1
  <2>2. w[x] = Sum(D, p, u, 1, x)
    BY <1>4, <2>1
  <2> HIDE DEF x
  <2>3. w[x] # dbm_LS_INFINITY /\ D[p[x]][p[x + 1]] # dbm_LS_INFINITY
    BY <2>1, <2>2 DEF IsWalk
  <2>4. w[x + 1] = dbm_addFiniteFinite(w[x], D[p[x]][p[x + 1]])
    BY <1>2, <2>1, <2>3 DEF dbm_addRawRaw
  <2>5. Sum(D, p, u, 1, x + 1)
          = dbm_addFiniteFinite(Sum(D, p, u, 1, x), Sum(D, p, u, x, x + 1))
    BY <1>1, <2>1, SumSplits
  <2>6. Sum(D, p, u, x, x + 1) = D[p[x]][p[x + 1]]
    BY <2>1, SumOfEdge
  <2> QED
    BY <2>2, <2>4, <2>5, <2>6 DEF x
<1> HIDE DEF S
<1>5. \A h \in Nat : h \in S
  BY <1>3, <1>4, Induction
<1>6. n - 1 \in Nat /\ (n - 1) + 1 = n /\ n \in 1 .. n
  BY <1>1
<1> QED
  BY <1>2, <1>5, <1>6 DEF S

\* The closed matrix E is no looser than D.
Closes(E, D) ==
  /\ IsInts(D) /\ IsInts(E)
  /\ Closed(E)
  /\ \A a, b \in Clk : D[a][b] # dbm_LS_INFINITY => E[a][b] # dbm_LS_INFINITY /\ E[a][b] <= D[a][b]

\* A closed matrix is no looser than a walk.
LEMMA ClosedBelowWalk ==
  ASSUME NEW D, NEW E, Closes(E, D), NEW n, NEW p, NEW u, IsWalk(D, n, p, u),
         NEW a \in 1 .. n, NEW b \in 1 .. n, a <= b
  PROVE  E[p[a]][p[b]] # dbm_LS_INFINITY /\ E[p[a]][p[b]] <= Sum(D, p, u, a, b)
<1>1. n \in Nat /\ (\A x \in 1 .. n : p[x] \in Clk /\ u[x] \in Int)
  BY DEF IsWalk
<1>2. \A c, d \in Clk : D[c][d] \in Int /\ E[c][d] \in Int
  BY DEF Closes, IsInts
<1> DEFINE P(x) == E[p[a]][p[x]] # dbm_LS_INFINITY /\ E[p[a]][p[x]] <= Sum(D, p, u, a, x)
           S == {h \in Nat : a + h \in 1 .. n => P(a + h)}
<1>3. 0 \in S
  <2>1. Sum(D, p, u, a, a) = dbm_LE_ZERO /\ E[p[a]][p[a]] = dbm_LE_ZERO
    BY <1>1, SumOfNothing DEF Closes, Closed, ZeroDiagonal
  <2>2. P(a)
    BY <2>1, Infinity
  <2> HIDE DEF P
  <2> QED
    BY <2>2
<1>4. ASSUME NEW h \in Nat, h \in S PROVE h + 1 \in S
  <2> SUFFICES ASSUME a + (h + 1) \in 1 .. n PROVE P(a + (h + 1))
    OBVIOUS
  <2> DEFINE x == a + h
             s == Sum(D, p, u, a, x)
             d == D[p[x]][p[x + 1]]
             e == E[p[x]][p[x + 1]]
             f == E[p[a]][p[x]]
             t == Sum(D, p, u, a, x + 1)
  <2>1. x \in 1 .. n - 1 /\ x \in 1 .. n /\ x + 1 \in 1 .. n /\ a <= x /\ x <= x + 1 /\ a + (h + 1) = x + 1
    BY <1>1
  <2>2. f # dbm_LS_INFINITY /\ f <= s
    BY <1>4, <2>1
  <2> HIDE DEF x
  <2>3. p[a] \in Clk /\ p[x] \in Clk /\ p[x + 1] \in Clk /\ f \in Int /\ e \in Int /\ d \in Int
    BY <1>1, <1>2, <2>1
  <2>4. d # dbm_LS_INFINITY
    BY <2>1 DEF IsWalk
  <2>5. e # dbm_LS_INFINITY /\ e <= d
    BY <2>3, <2>4 DEF Closes
  <2>6. t = dbm_addFiniteFinite(s, Sum(D, p, u, x, x + 1))
    BY <2>1, SumSplits
  <2>7. Sum(D, p, u, x, x + 1) = d
    BY <2>1, SumOfEdge DEF Closes
  <2>8. s \in Int
    BY <1>1, <2>1, SumParts
  <2>9. E[p[a]][p[x + 1]] # dbm_LS_INFINITY
        /\ E[p[a]][p[x + 1]] <= dbm_addFiniteFinite(f, e)
    BY <2>2, <2>3, <2>5 DEF Closes, Closed, ShortcutVia
  <2>10. E[p[a]][p[x + 1]] \in Int
    BY <1>2, <2>3
  <2> HIDE DEF s, d, e, f, t
  <2>11. dbm_addFiniteFinite(f, e) <= dbm_addFiniteFinite(s, d)
    BY <2>2, <2>3, <2>5, <2>8, AddMonotone
  <2>12. dbm_addFiniteFinite(f, e) \in Int /\ dbm_addFiniteFinite(s, d) \in Int
    BY <2>3, <2>8, AddParts
  <2>13. E[p[a]][p[x + 1]] <= t
    BY <2>6, <2>7, <2>9, <2>10, <2>11, <2>12
  <2> QED
    BY <2>1, <2>9, <2>13 DEF t
<1> HIDE DEF S
<1>5. \A h \in Nat : h \in S
  BY <1>3, <1>4, Induction
<1>6. b - a \in Nat /\ a + (b - a) = b
  BY <1>1
<1> QED
  BY <1>5, <1>6 DEF S

\* A closed matrix is no looser than a path of the abstract specification.
LEMMA ClosedBelowPath ==
  ASSUME NEW D, NEW E, Closes(E, D), NEW n \in Nat, n >= 1, NEW p \in [1 .. n -> Clk]
  PROVE  \/ Abstract!Weight(D, p) = dbm_LS_INFINITY
         \/ E[p[1]][p[n]] # dbm_LS_INFINITY /\ E[p[1]][p[n]] <= Abstract!Weight(D, p)
<1>1. \A c, d \in Clk : D[c][d] \in Int /\ E[c][d] \in Int
  BY DEF Closes, IsInts
<1>2. PICK w : /\ \A x \in 1 .. n : w[x] \in Int
               /\ w[1] = dbm_LE_ZERO
               /\ \A x \in 1 .. n - 1 : w[x + 1] = dbm_addRawRaw(w[x], D[p[x]][p[x + 1]])
               /\ Abstract!Weight(D, p) = w[n]
  BY WeightSteps DEF Closes
<1> DEFINE P(x) == \/ w[x] = dbm_LS_INFINITY
                   \/ E[p[1]][p[x]] # dbm_LS_INFINITY /\ E[p[1]][p[x]] <= w[x]
           S == {h \in Nat : h + 1 \in 1 .. n => P(h + 1)}
<1>3. 0 \in S
  <2>1. E[p[1]][p[1]] = dbm_LE_ZERO
    BY DEF Closes, Closed, ZeroDiagonal
  <2>2. P(1)
    BY <1>2, <2>1, Infinity
  <2> HIDE DEF P
  <2> QED
    BY <2>2
<1>4. ASSUME NEW h \in Nat, h \in S PROVE h + 1 \in S
  <2> SUFFICES ASSUME (h + 1) + 1 \in 1 .. n PROVE P((h + 1) + 1)
    OBVIOUS
  <2> DEFINE x == h + 1
             d == D[p[x]][p[x + 1]]
             e == E[p[x]][p[x + 1]]
             f == E[p[1]][p[x]]
  <2>1. x \in 1 .. n - 1 /\ x \in 1 .. n /\ x + 1 \in 1 .. n /\ 1 \in 1 .. n
    OBVIOUS
  <2>2. P(x)
    BY <1>4, <2>1
  <2> HIDE DEF x, P
  <2>3. p[1] \in Clk /\ p[x] \in Clk /\ p[x + 1] \in Clk /\ w[x] \in Int /\ w[x + 1] \in Int
    BY <1>2, <2>1
  <2>4. f \in Int /\ e \in Int /\ d \in Int /\ E[p[1]][p[x + 1]] \in Int
    BY <1>1, <2>3
  <2>5. w[x + 1] = dbm_addRawRaw(w[x], d)
    BY <1>2, <2>1
  <2>6. CASE w[x] = dbm_LS_INFINITY \/ d = dbm_LS_INFINITY
    BY <2>5, <2>6 DEF x, P, dbm_addRawRaw
  <2>7. CASE w[x] # dbm_LS_INFINITY /\ d # dbm_LS_INFINITY
    <3>1. w[x + 1] = dbm_addFiniteFinite(w[x], d)
      BY <2>5, <2>7 DEF dbm_addRawRaw
    <3>2. e # dbm_LS_INFINITY /\ e <= d
      BY <2>3, <2>7 DEF Closes
    <3>3. f # dbm_LS_INFINITY /\ f <= w[x]
      BY <2>2, <2>7 DEF P
    <3>4. E[p[1]][p[x + 1]] # dbm_LS_INFINITY
          /\ E[p[1]][p[x + 1]] <= dbm_addFiniteFinite(f, e)
      BY <2>3, <3>2, <3>3 DEF Closes, Closed, ShortcutVia
    <3> HIDE DEF d, e, f
    <3>5. dbm_addFiniteFinite(f, e) <= dbm_addFiniteFinite(w[x], d)
      BY <2>3, <2>4, <3>2, <3>3, AddMonotone
    <3>6. dbm_addFiniteFinite(f, e) \in Int
      BY <2>4, AddParts
    <3>7. E[p[1]][p[x + 1]] <= w[x + 1]
      BY <2>3, <2>4, <3>1, <3>4, <3>5, <3>6
    <3> QED
      BY <3>4, <3>7 DEF x, P
  <2> QED
    BY <2>6, <2>7
<1> HIDE DEF S
<1>5. \A h \in Nat : h \in S
  BY <1>3, <1>4, Induction
<1>6. n - 1 \in Nat /\ (n - 1) + 1 = n /\ n \in 1 .. n
  OBVIOUS
<1> QED
  BY <1>2, <1>5, <1>6 DEF S

\* A path of the abstract specification visits no clock twice, but for a cycle's end.
IsSimple(n, p) == \A x, y \in 1 .. n : x < y /\ p[x] = p[y] => x = 1 /\ y = n

\* The number of its edges is at most the number of clocks.
LEMMA SimpleIsShort ==
  ASSUME NEW n \in Nat, n >= 2, NEW p \in [1 .. n -> Clk], IsSimple(n, p)
  PROVE  n <= dim + 1
<1> SUFFICES ASSUME n - 1 > dim PROVE FALSE
  BY DimAssumption
<1> DEFINE f == [x \in 1 .. n - 1 |-> p[x]]
<1>1. f \in [1 .. n - 1 -> Clk]
  OBVIOUS
<1>2. IsFiniteSet(1 .. n - 1) /\ Cardinality(1 .. n - 1) = n - 1
  <2>1. 1 \in Int /\ n - 1 \in Int /\ ~(1 > n - 1)
    OBVIOUS
  <2> QED
    BY <2>1, FS_Interval
<1>3. IsFiniteSet(Clk) /\ Cardinality(Clk) \in Nat /\ Cardinality(Clk) <= dim
  BY ClocksFinite
<1>4. Cardinality(Clk) < Cardinality(1 .. n - 1)
  BY <1>2, <1>3, DimAssumption
<1>5. \E x, y \in 1 .. n - 1 : x # y /\ f[x] = f[y]
  <2> DEFINE S == 1 .. n - 1
  <2> HIDE DEF S, f
  <2>1. f \in [S -> Clk] /\ IsFiniteSet(S) /\ Cardinality(Clk) < Cardinality(S)
    BY <1>1, <1>2, <1>4 DEF S
  <2>2. \E x, y \in S : x # y /\ f[x] = f[y]
    BY <1>3, <2>1, FS_PigeonHole
  <2> QED
    BY <2>2 DEF S
<1>6. PICK x \in 1 .. n - 1, y \in 1 .. n - 1 : x # y /\ f[x] = f[y]
  BY <1>5
<1>7. x \in 1 .. n /\ y \in 1 .. n /\ x # n /\ y # n /\ p[x] = p[y] /\ (x < y \/ y < x)
  BY <1>6
<1> QED
  BY <1>7 DEF IsSimple

\* The paths of the abstract specification.
LEMMA PathsAre ==
  ASSUME NEW a \in Clk, NEW b \in Clk
  PROVE  /\ \A p \in Abstract!Paths[a][b] :
              \E n \in Nat : /\ n >= 2 /\ p \in [1 .. n -> Clk] /\ IsSimple(n, p)
                             /\ p[1] = a /\ p[n] = b
         /\ \A n \in Nat : \A p \in [1 .. n -> Clk] :
              n >= 2 /\ IsSimple(n, p) /\ p[1] = a /\ p[n] = b => p \in Abstract!Paths[a][b]
<1> DEFINE Walks == UNION {[1 .. n -> Clk] : n \in 2 .. dim + 1}
           Simple(p) == \A m, n \in 1 .. Len(p) : m < n /\ p[m] = p[n] => m = 1 /\ n = Len(p)
<1>1. Abstract!Paths[a][b] = {p \in Walks : Simple(p) /\ p[1] = a /\ p[Len(p)] = b}
  BY AbstractRaws DEF Abstract!Paths
<1>2. \A n \in Nat : \A p \in [1 .. n -> Clk] : Len(p) = n
  OBVIOUS
<1>3. \A n \in Nat : \A p \in [1 .. n -> Clk] : Simple(p) <=> IsSimple(n, p)
  BY <1>2 DEF IsSimple
<1>4. \A p \in Walks : \E n \in Nat : n >= 2 /\ p \in [1 .. n -> Clk]
  BY DimAssumption
<1>5. \A n \in Nat : \A p \in [1 .. n -> Clk] : n >= 2 /\ n <= dim + 1 => p \in Walks
  <2> SUFFICES ASSUME NEW n \in Nat, NEW p \in [1 .. n -> Clk], n >= 2, n <= dim + 1
               PROVE  p \in Walks
    OBVIOUS
  <2>1. n \in 2 .. dim + 1
    BY DimAssumption
  <2> QED
    BY <2>1
<1> HIDE DEF Walks, Simple
<1>6. ASSUME NEW p \in Abstract!Paths[a][b]
      PROVE  \E n \in Nat : /\ n >= 2 /\ p \in [1 .. n -> Clk] /\ IsSimple(n, p)
                            /\ p[1] = a /\ p[n] = b
  <2>1. p \in Walks /\ Simple(p) /\ p[1] = a /\ p[Len(p)] = b
    BY <1>1
  <2>2. PICK n \in Nat : n >= 2 /\ p \in [1 .. n -> Clk]
    BY <1>4, <2>1
  <2>3. Len(p) = n /\ IsSimple(n, p)
    BY <1>2, <1>3, <2>1, <2>2
  <2> QED
    BY <2>1, <2>2, <2>3
<1>7. ASSUME NEW n \in Nat, NEW p \in [1 .. n -> Clk],
             n >= 2, IsSimple(n, p), p[1] = a, p[n] = b
      PROVE  p \in Abstract!Paths[a][b]
  <2>1. n <= dim + 1
    BY <1>7, SimpleIsShort
  <2>2. p \in Walks /\ Simple(p) /\ Len(p) = n
    BY <1>2, <1>3, <1>5, <1>7, <2>1
  <2> QED
    BY <1>1, <1>7, <2>2
<1> QED
  BY <1>6, <1>7

\* A walk that comes back to a clock is a cycle and a shorter walk with the same ends.
LEMMA CutWalk ==
  ASSUME NEW D, IsInts(D), NEW n, NEW p, NEW u, IsWalk(D, n, p, u),
         NEW a \in 1 .. n, NEW b \in 1 .. n, a < b, p[a] = p[b]
  PROVE  /\ \E q, v : /\ IsWalk(D, b - a + 1, q, v)
                      /\ q[1] = p[a] /\ q[b - a + 1] = p[a]
                      /\ Sum(D, q, v, 1, b - a + 1) = Sum(D, p, u, a, b)
         /\ \E r, t : /\ IsWalk(D, n - (b - a), r, t)
                      /\ r[1] = p[1] /\ r[n - (b - a)] = p[n]
                      /\ Sum(D, r, t, 1, n - (b - a))
                           = dbm_addFiniteFinite(Sum(D, p, u, 1, a), Sum(D, p, u, b, n))
<1> DEFINE l == b - a + 1
           k2 == n - b + 1
           m == n - (b - a)
           q == Part(p, a, l)
           v == Part(u, a, l)
           q1 == Part(p, 1, a)
           v1 == Part(u, 1, a)
           q2 == Part(p, b, k2)
           v2 == Part(u, b, k2)
<1>1. /\ n \in Nat /\ a \in Nat /\ l \in Nat /\ k2 \in Nat
      /\ 1 \in 1 .. n /\ n \in 1 .. n /\ 1 <= a /\ a <= b /\ b <= n
      /\ 1 \in 1 .. l /\ l \in 1 .. l /\ 1 \in 1 .. a /\ a \in 1 .. a
      /\ 1 \in 1 .. k2 /\ k2 \in 1 .. k2
  BY DEF IsWalk
<1>2. /\ l = b - a + 1 /\ k2 = n - b + 1 /\ m = a + k2 - 1 /\ a = a - 1 + 1
      /\ a + 1 - 1 = a /\ a + l - 1 = b /\ 1 + 1 - 1 = 1 /\ 1 + a - 1 = a
      /\ b + 1 - 1 = b /\ b + k2 - 1 = n
  BY <1>1
<1> HIDE DEF l, k2, m, q, v, q1, v1, q2, v2
<1>3. /\ IsWalk(D, l, q, v)
      /\ \A x \in 1 .. l : q[x] = p[a + x - 1] /\ v[x] = u[a + x - 1]
      /\ Sum(D, q, v, 1, l) = Sum(D, p, u, a, b)
  BY <1>1, <1>2, PartOfWalk DEF q, v
<1>4. q[1] = p[a] /\ q[l] = p[a]
  BY <1>1, <1>2, <1>3
<1>5. /\ IsWalk(D, a, q1, v1)
      /\ \A x \in 1 .. a : q1[x] = p[1 + x - 1] /\ v1[x] = u[1 + x - 1]
      /\ Sum(D, q1, v1, 1, a) = Sum(D, p, u, 1, a)
  BY <1>1, <1>2, PartOfWalk DEF q1, v1
<1>6. /\ IsWalk(D, k2, q2, v2)
      /\ \A x \in 1 .. k2 : q2[x] = p[b + x - 1] /\ v2[x] = u[b + x - 1]
      /\ Sum(D, q2, v2, 1, k2) = Sum(D, p, u, b, n)
  BY <1>1, <1>2, PartOfWalk DEF q2, v2
<1>7. q1[1] = p[1] /\ q1[a] = p[a] /\ q2[1] = p[b] /\ q2[k2] = p[n]
  BY <1>1, <1>2, <1>5, <1>6
<1>8. PICK r, t : /\ IsWalk(D, m, r, t)
                  /\ IsJoined(a, q1, v1, k2, q2, v2, r, t)
                  /\ Sum(D, r, t, 1, m)
                       = dbm_addFiniteFinite(Sum(D, q1, v1, 1, a), Sum(D, q2, v2, 1, k2))
  BY <1>2, <1>5, <1>6, <1>7, JoinedWalk
<1>9. r[1] = p[1] /\ r[m] = p[n]
  BY <1>1, <1>2, <1>7, <1>8 DEF IsJoined
<1>10. \E g, h : /\ IsWalk(D, l, g, h) /\ g[1] = p[a] /\ g[l] = p[a]
                 /\ Sum(D, g, h, 1, l) = Sum(D, p, u, a, b)
  BY <1>3, <1>4
<1>11. \E g, h : /\ IsWalk(D, m, g, h) /\ g[1] = p[1] /\ g[m] = p[n]
                 /\ Sum(D, g, h, 1, m)
                      = dbm_addFiniteFinite(Sum(D, p, u, 1, a), Sum(D, p, u, b, n))
  BY <1>5, <1>6, <1>8, <1>9
<1> QED
  BY <1>10, <1>11 DEF l, m

\* The edges of a walk may be added up in any order.
LEMMA AddCommutes ==
  ASSUME NEW x \in Int, NEW y \in Int
  PROVE  dbm_addFiniteFinite(x, y) = dbm_addFiniteFinite(y, x)
BY DEF dbm_addFiniteFinite, dbm_rawIsWeak

\* The sum of a walk that comes back to a clock.
LEMMA SumOfCut ==
  ASSUME NEW D, IsInts(D), NEW n, NEW p, NEW u, IsWalk(D, n, p, u),
         NEW a \in 1 .. n, NEW b \in 1 .. n, a < b
  PROVE  LET s1 == Sum(D, p, u, 1, a)
             s2 == Sum(D, p, u, a, b)
             s3 == Sum(D, p, u, b, n)
         IN  /\ s1 \in Int /\ s2 \in Int /\ s3 \in Int
             /\ Sum(D, p, u, 1, n)
                  = dbm_addFiniteFinite(dbm_addFiniteFinite(s1, s3), s2)
<1> DEFINE s1 == Sum(D, p, u, 1, a)
           s2 == Sum(D, p, u, a, b)
           s3 == Sum(D, p, u, b, n)
<1>1. /\ n \in Nat /\ 1 \in 1 .. n /\ n \in 1 .. n /\ 1 <= a /\ a <= b /\ b <= n /\ a <= n
      /\ u[1] \in Int /\ u[a] \in Int /\ u[b] \in Int /\ u[n] \in Int
  BY DEF IsWalk
<1>2. s1 \in Int /\ s2 \in Int /\ s3 \in Int
  BY <1>1, SumParts
<1>3. Sum(D, p, u, 1, n) = dbm_addFiniteFinite(s1, Sum(D, p, u, a, n))
  BY <1>1, SumSplits
<1>4. Sum(D, p, u, a, n) = dbm_addFiniteFinite(s2, s3)
  BY <1>1, SumSplits
<1> HIDE DEF s1, s2, s3
<1>5. dbm_addFiniteFinite(s2, s3) = dbm_addFiniteFinite(s3, s2)
  BY <1>2, AddCommutes
<1>6. dbm_addFiniteFinite(s1, dbm_addFiniteFinite(s3, s2))
        = dbm_addFiniteFinite(dbm_addFiniteFinite(s1, s3), s2)
  BY <1>2, AddAssociative
<1>7. Sum(D, p, u, 1, n) = dbm_addFiniteFinite(dbm_addFiniteFinite(s1, s3), s2)
  BY <1>3, <1>4, <1>5, <1>6
<1> QED
  BY <1>2, <1>7 DEF s1, s2, s3

\* A walk no longer than the closed matrix allows need not visit a clock twice.
LEMMA SimpleWalk ==
  ASSUME NEW D, NEW E, Closes(E, D), NEW a \in Clk, NEW b \in Clk, a # b,
         NEW n0, NEW p0, NEW u0, IsWalk(D, n0, p0, u0), p0[1] = a, p0[n0] = b,
         Sum(D, p0, u0, 1, n0) <= E[a][b]
  PROVE  \E n, p, u : /\ n \in Nat /\ n >= 2 /\ IsWalk(D, n, p, u) /\ IsSimple(n, p)
                      /\ p[1] = a /\ p[n] = b
                      /\ Sum(D, p, u, 1, n) <= E[a][b]
<1> DEFINE Fits(n) == \E p, u : /\ IsWalk(D, n, p, u) /\ p[1] = a /\ p[n] = b
                                /\ Sum(D, p, u, 1, n) <= E[a][b]
           T == {n \in Nat : Fits(n)}
<1>0. IsInts(D) /\ IsInts(E) /\ E[a][b] \in Int
  BY DEF Closes, IsInts
<1>1. n0 \in T
  BY DEF IsWalk
<1>2. PICK n \in T : \A m \in T : n <= m
  BY <1>1, LeastNatural
<1>3. n \in Nat
  OBVIOUS
<1>4. PICK p, u : /\ IsWalk(D, n, p, u) /\ p[1] = a /\ p[n] = b
                  /\ Sum(D, p, u, 1, n) <= E[a][b]
  OBVIOUS
<1>5. n >= 2
  BY <1>3, <1>4 DEF IsWalk
<1>6. ASSUME NEW x \in 1 .. n, NEW y \in 1 .. n, x < y, p[x] = p[y]
      PROVE  FALSE
  <2> DEFINE s1 == Sum(D, p, u, 1, x)
             s2 == Sum(D, p, u, x, y)
             s3 == Sum(D, p, u, y, n)
             m == n - (y - x)
  <2>1. PICK r, t : /\ IsWalk(D, m, r, t) /\ r[1] = a /\ r[m] = b
                    /\ Sum(D, r, t, 1, m) = dbm_addFiniteFinite(s1, s3)
    BY <1>0, <1>4, <1>6, CutWalk
  <2>2. /\ s1 \in Int /\ s2 \in Int /\ s3 \in Int
        /\ Sum(D, p, u, 1, n) = dbm_addFiniteFinite(dbm_addFiniteFinite(s1, s3), s2)
    BY <1>0, <1>4, <1>6, SumOfCut
  <2>3. dbm_LE_ZERO <= s2
    <3>1. E[p[x]][p[y]] <= s2
      BY <1>4, <1>6, ClosedBelowWalk
    <3>2. E[p[x]][p[y]] = dbm_LE_ZERO
      BY <1>4, <1>6 DEF IsWalk, Closes, Closed, ZeroDiagonal
    <3> QED
      BY <3>1, <3>2
  <2>4. m \in Nat /\ m < n
    BY <1>3, <1>6
  <2> HIDE DEF s1, s2, s3, m
  <2> DEFINE s == dbm_addFiniteFinite(s1, s3)
  <2>5. s \in Int
    BY <2>2, AddParts
  <2> HIDE DEF s
  <2>6. s <= dbm_addFiniteFinite(s, s2)
    <3>1. dbm_addFiniteFinite(s, dbm_LE_ZERO) = s
      BY <2>5, AddZero
    <3>2. dbm_addFiniteFinite(s, dbm_LE_ZERO) <= dbm_addFiniteFinite(s, s2)
      BY <2>2, <2>3, <2>5, AddMonotone, Infinity
    <3> QED
      BY <3>1, <3>2
  <2>7. Sum(D, r, t, 1, m) <= E[a][b]
    <3>1. dbm_addFiniteFinite(s, s2) <= E[a][b] /\ Sum(D, r, t, 1, m) = s
      BY <1>4, <2>1, <2>2 DEF s
    <3>2. dbm_addFiniteFinite(s, s2) \in Int
      BY <2>2, <2>5, AddParts
    <3> QED
      BY <1>0, <2>5, <2>6, <3>1, <3>2
  <2>8. m \in T
    BY <2>1, <2>4, <2>7
  <2> HIDE DEF T
  <2> QED
    BY <1>2, <1>3, <2>4, <2>8
<1>7. IsSimple(n, p)
  BY <1>6 DEF IsSimple
<1> QED
  BY <1>3, <1>4, <1>5, <1>7

\* A looser raw has no smaller bound, and only infinity has that of infinity.
LEMMA BoundsOrdered ==
  /\ \A x, y \in Int : x <= y => dbm_raw2bound(x) <= dbm_raw2bound(y)
  /\ \A x \in Int : x < dbm_LS_INFINITY => dbm_raw2bound(x) < dbm_raw2bound(dbm_LS_INFINITY)
  /\ \A x \in Int : dbm_raw2bound(x) \in Int
<1>1. dbm_LS_INFINITY \in Int /\ dbm_LS_INFINITY % 2 = 0
  BY SMT DEF dbm_LS_INFINITY
<1>2. \A x, y \in Int : x <= y => x \div 2 <= y \div 2
  OBVIOUS
<1>3. \A x, y \in Int : x < y /\ y % 2 = 0 => x \div 2 < y \div 2
  OBVIOUS
<1> QED
  BY <1>1, <1>2, <1>3 DEF dbm_raw2bound

\* Each bound of the closed matrix that a walk realises is the weight of a path.
LEMMA PathAttains ==
  ASSUME NEW D, NEW E, Closes(E, D), NEW a \in Clk, NEW b \in Clk, a # b,
         \A c, d \in Clk : E[c][d] <= dbm_LS_INFINITY,
         NEW n0, NEW p0, NEW u0, IsWalk(D, n0, p0, u0), p0[1] = a, p0[n0] = b,
         Sum(D, p0, u0, 1, n0) = E[a][b]
  PROVE  \E p \in Abstract!Paths[a][b] : Abstract!Weight(D, p) = E[a][b]
<1>0. IsInts(D) /\ IsInts(E) /\ E[a][b] \in Int
  BY DEF Closes, IsInts
<1>1. Sum(D, p0, u0, 1, n0) <= E[a][b]
  BY <1>0
<1>2. PICK n, p, u : /\ n \in Nat /\ n >= 2 /\ IsWalk(D, n, p, u) /\ IsSimple(n, p)
                     /\ p[1] = a /\ p[n] = b
                     /\ Sum(D, p, u, 1, n) <= E[a][b]
  BY <1>1, SimpleWalk
<1>3. /\ 1 \in 1 .. n /\ n \in 1 .. n /\ p \in [1 .. n -> Clk]
      /\ \A x \in 1 .. n : p[x] \in Clk /\ u[x] \in Int /\ 1 <= x /\ x <= n
  BY <1>2 DEF IsWalk
<1>4. p \in Abstract!Paths[a][b]
  BY <1>2, <1>3, PathsAre
<1>5. Sum(D, p, u, 1, n) = E[a][b]
  <2>1. E[a][b] <= Sum(D, p, u, 1, n)
    BY <1>2, <1>3, ClosedBelowWalk
  <2>2. Sum(D, p, u, 1, n) \in Int
    BY <1>3, SumParts
  <2> QED
    BY <1>0, <1>2, <2>1, <2>2
<1>6. ASSUME NEW x \in 1 .. n - 1 PROVE Sum(D, p, u, 1, x) # dbm_LS_INFINITY
  <2> DEFINE s == Sum(D, p, u, 1, x)
             t == Sum(D, p, u, x, n)
             e == E[a][p[x]]
             f == E[p[x]][b]
  <2>1. x \in 1 .. n /\ p[x] \in Clk /\ u[x] \in Int
    BY <1>2, <1>3
  <2>2. s \in Int /\ t \in Int
    BY <1>3, <2>1, SumParts
  <2>3. E[a][b] = dbm_addFiniteFinite(s, t)
    BY <1>2, <1>3, <1>5, <2>1, SumSplits
  <2>4. e # dbm_LS_INFINITY /\ e <= s
    BY <1>2, <1>3, <2>1, ClosedBelowWalk
  <2>5. f # dbm_LS_INFINITY /\ f <= t
    BY <1>2, <1>3, <2>1, ClosedBelowWalk
  <2>6. e \in Int /\ f \in Int /\ e < dbm_LS_INFINITY
    BY <1>0, <2>1, <2>4, Infinity DEF IsInts
  <2>7. E[a][b] <= dbm_addFiniteFinite(e, f)
    BY <2>1, <2>4, <2>5 DEF Closes, Closed, ShortcutVia
  <2> HIDE DEF s, t, e, f
  <2>8. /\ dbm_raw2bound(dbm_addFiniteFinite(s, t)) = dbm_raw2bound(s) + dbm_raw2bound(t)
        /\ dbm_raw2bound(dbm_addFiniteFinite(e, f)) = dbm_raw2bound(e) + dbm_raw2bound(f)
        /\ dbm_addFiniteFinite(e, f) \in Int
    BY <2>2, <2>6, AddParts
  <2>9. dbm_raw2bound(s) + dbm_raw2bound(t) <= dbm_raw2bound(e) + dbm_raw2bound(f)
    <3>1. dbm_raw2bound(E[a][b]) <= dbm_raw2bound(dbm_addFiniteFinite(e, f))
      BY <1>0, <2>7, <2>8, BoundsOrdered
    <3> QED
      BY <2>3, <2>8, <3>1
  <2>10. dbm_raw2bound(f) <= dbm_raw2bound(t)
    BY <2>2, <2>5, <2>6, BoundsOrdered
  <2>11. dbm_raw2bound(e) < dbm_raw2bound(dbm_LS_INFINITY)
    BY <2>6, BoundsOrdered
  <2>12. /\ dbm_raw2bound(s) \in Int /\ dbm_raw2bound(t) \in Int /\ dbm_raw2bound(e) \in Int
         /\ dbm_raw2bound(f) \in Int /\ dbm_raw2bound(dbm_LS_INFINITY) \in Int
    BY <2>2, <2>6, BoundsOrdered, Infinity
  <2>13. dbm_raw2bound(s) < dbm_raw2bound(dbm_LS_INFINITY)
    BY <2>9, <2>10, <2>11, <2>12
  <2>14. s # dbm_LS_INFINITY
    BY <2>12, <2>13
  <2> QED
    BY <2>14 DEF s
<1>7. Abstract!Weight(D, p) = E[a][b]
  BY <1>0, <1>2, <1>5, <1>6, WeightOfWalk
<1> QED
  BY <1>4, <1>7

\* A closed matrix with "<= 0" on the diagonal is one of a matrix without negative cycle.
LEMMA NoNegativeCycle ==
  ASSUME NEW D, NEW E, Closes(E, D)
  PROVE  ~Abstract!HasNegativeCycle(D)
<1> SUFFICES ASSUME NEW a \in Clk, NEW p \in Abstract!Paths[a][a],
                    Abstract!Weight(D, p) < dbm_LE_ZERO
             PROVE  FALSE
  BY AbstractRaws DEF Abstract!HasNegativeCycle
<1>1. PICK n \in Nat : n >= 2 /\ p \in [1 .. n -> Clk] /\ p[1] = a /\ p[n] = a
  BY PathsAre
<1>2. E[a][a] = dbm_LE_ZERO
  BY DEF Closes, Closed, ZeroDiagonal
<1>3. \/ Abstract!Weight(D, p) = dbm_LS_INFINITY
      \/ E[p[1]][p[n]] <= Abstract!Weight(D, p)
  BY <1>1, ClosedBelowPath
<1>4. Abstract!Weight(D, p) \in Int
  BY <1>1, WeightIsInt DEF Closes
<1> QED
  BY <1>1, <1>2, <1>3, <1>4, Infinity

\* Every finite bound of E is what a walk of at least one edge of D adds up to.
HasWalk(D, a, b, x) ==
  \E n, p, u : /\ IsWalk(D, n, p, u) /\ n >= 2 /\ p[1] = a /\ p[n] = b
               /\ Sum(D, p, u, 1, n) = x

Realised(E, D) ==
  \A a, b \in Clk : E[a][b] # dbm_LS_INFINITY => HasWalk(D, a, b, E[a][b])

\* A closed matrix whose bounds are sums of walks is the tightest.
LEMMA TightestIs ==
  ASSUME NEW D, NEW E, E \in Matrices, Closes(E, D), Realised(E, D)
  PROVE  E = Abstract!Tightest(D)
<1>0. \A a, b \in Clk : E[a][b] \in Int /\ E[a][b] <= dbm_LS_INFINITY
  <2>1. MinSum \in Int /\ dbm_LS_INFINITY \in Int
    BY SMT DEF MinSum, dbm_LE_OVERFLOW, dbm_LS_INFINITY
  <2> QED
    BY <2>1 DEF Matrices
<1>1. ASSUME NEW a \in Clk, NEW b \in Clk, a # b
      PROVE  Abstract!ShortestPath(D, a, b) = E[a][b]
  <2> DEFINE weights == {Abstract!Weight(D, p) : p \in Abstract!Paths[a][b]}
  <2>1. ASSUME NEW p \in Abstract!Paths[a][b]
        PROVE  /\ Abstract!Weight(D, p) \in Int
               /\ \/ Abstract!Weight(D, p) = dbm_LS_INFINITY
                  \/ E[a][b] # dbm_LS_INFINITY /\ E[a][b] <= Abstract!Weight(D, p)
    <3>1. PICK n \in Nat : n >= 2 /\ p \in [1 .. n -> Clk] /\ p[1] = a /\ p[n] = b
      BY PathsAre
    <3>2. Abstract!Weight(D, p) \in Int
      BY <3>1, WeightIsInt DEF Closes
    <3>3. \/ Abstract!Weight(D, p) = dbm_LS_INFINITY
          \/ E[p[1]][p[n]] # dbm_LS_INFINITY /\ E[p[1]][p[n]] <= Abstract!Weight(D, p)
      BY <3>1, ClosedBelowPath
    <3> QED
      BY <3>1, <3>2, <3>3
  <2>2. \A w \in weights : w \in Int /\ E[a][b] <= w
    BY <1>0, <2>1
  <2>3. E[a][b] \in weights
    <3>1. CASE E[a][b] = dbm_LS_INFINITY
      <4> DEFINE p == [x \in 1 .. 2 |-> IF x = 1 THEN a ELSE b]
      <4>1. p \in [1 .. 2 -> Clk] /\ p[1] = a /\ p[2] = b
        OBVIOUS
      <4> HIDE DEF p, weights
      <4>2. IsSimple(2, p)
        BY DEF IsSimple
      <4>3. p \in Abstract!Paths[a][b]
        <5> DEFINE n == 2
        <5>1. n \in Nat /\ n >= 2 /\ p \in [1 .. n -> Clk] /\ IsSimple(n, p)
              /\ p[1] = a /\ p[n] = b
          BY <4>1, <4>2
        <5> HIDE DEF n
        <5> QED
          BY <5>1, PathsAre
      <4>4. Abstract!Weight(D, p) = dbm_LS_INFINITY
        BY <2>1, <3>1, <4>3
      <4> QED
        BY <3>1, <4>3, <4>4 DEF weights
    <3>2. CASE E[a][b] # dbm_LS_INFINITY
      <4>1. PICK n, p, u : /\ IsWalk(D, n, p, u) /\ p[1] = a /\ p[n] = b
                           /\ Sum(D, p, u, 1, n) = E[a][b]
        BY <3>2 DEF Realised, HasWalk
      <4>2. \E q \in Abstract!Paths[a][b] : Abstract!Weight(D, q) = E[a][b]
        BY <1>0, <1>1, <4>1, PathAttains
      <4> QED
        BY <4>2
    <3> QED
      BY <3>1, <3>2
  <2>4. Abstract!ShortestPath(D, a, b) = CHOOSE w \in weights : \A x \in weights : w <= x
    BY DEF Abstract!ShortestPath
  <2> HIDE DEF weights
  <2>5. \A w \in weights : (\A x \in weights : w <= x) => w = E[a][b]
    <3> SUFFICES ASSUME NEW w \in weights, \A x \in weights : w <= x PROVE w = E[a][b]
      OBVIOUS
    <3> DEFINE e == E[a][b]
    <3>1. w <= e /\ e <= w /\ w \in Int /\ e \in Int
      BY <1>0, <2>2, <2>3
    <3> HIDE DEF e
    <3>2. w = e
      BY <3>1
    <3> QED
      BY <3>2 DEF e
  <2> QED
    BY <2>2, <2>3, <2>4, <2>5
<1>2. \A a \in Clk : E[a][a] = dbm_LE_ZERO
  BY DEF Closes, Closed, ZeroDiagonal
<1>3. Abstract!Tightest(D) =
        [a \in Clk |-> [b \in Clk |-> IF a = b THEN dbm_LE_ZERO
                                      ELSE Abstract!ShortestPath(D, a, b)]]
  BY AbstractRaws DEF Abstract!Tightest, Abstract!WithZeroDiagonal
<1>4. \A a, b \in Clk :
        E[a][b] = IF a = b THEN dbm_LE_ZERO ELSE Abstract!ShortestPath(D, a, b)
  BY <1>1, <1>2
<1>5. E = [a \in Clk |-> [b \in Clk |-> E[a][b]]]
  BY DEF Matrices
<1> QED
  BY <1>3, <1>4, <1>5

\* A walk has a place where the sum of its bounds is greatest.
LEMMA GreatestPlace ==
  ASSUME NEW n \in Nat, n >= 1, NEW u \in [1 .. n -> Int]
  PROVE  \E m \in 1 .. n : \A x \in 1 .. n : u[x] <= u[m]
<1> DEFINE P(h) == \E m \in 1 .. h : \A x \in 1 .. h : u[x] <= u[m]
           S == {h \in Nat : h + 1 \in 1 .. n => P(h + 1)}
<1>1. 0 \in S
  <2>1. 1 \in 1 .. 1 /\ \A x \in 1 .. 1 : x = 1
    OBVIOUS
  <2>2. u[1] <= u[1]
    OBVIOUS
  <2>3. P(1)
    BY <2>1, <2>2
  <2> HIDE DEF P
  <2> QED
    BY <2>3
<1>2. ASSUME NEW h \in Nat, h \in S PROVE h + 1 \in S
  <2> SUFFICES ASSUME (h + 1) + 1 \in 1 .. n PROVE P((h + 1) + 1)
    OBVIOUS
  <2> DEFINE g == h + 1
  <2>1. g \in 1 .. n /\ g + 1 \in 1 .. n /\ g \in Nat
    OBVIOUS
  <2>2. PICK m \in 1 .. g : \A x \in 1 .. g : u[x] <= u[m]
    BY <1>2, <2>1
  <2> HIDE DEF g
  <2>3. m \in 1 .. n /\ u[m] \in Int /\ u[g + 1] \in Int
    BY <2>1
  <2>4. \A x \in 1 .. g + 1 : x \in 1 .. g \/ x = g + 1
    BY <2>1
  <2>5. \A x \in 1 .. g + 1 : u[x] \in Int
    BY <2>1
  <2>6. CASE u[g + 1] <= u[m]
    <3>1. m \in 1 .. g + 1 /\ \A x \in 1 .. g + 1 : u[x] <= u[m]
      BY <2>1, <2>2, <2>4, <2>6
    <3> QED
      BY <3>1 DEF g
  <2>7. CASE u[m] <= u[g + 1]
    <3>1. g + 1 \in 1 .. g + 1 /\ \A x \in 1 .. g : x \in 1 .. g + 1
      BY <2>1
    <3>2. \A x \in 1 .. g + 1 : u[x] <= u[g + 1]
      BY <2>2, <2>3, <2>4, <2>5, <2>7, <3>1
    <3> QED
      BY <3>1, <3>2 DEF g
  <2> QED
    BY <2>3, <2>6, <2>7
<1> HIDE DEF S
<1>3. \A h \in Nat : h \in S
  BY <1>1, <1>2, Induction
<1>4. n - 1 \in Nat /\ (n - 1) + 1 = n /\ n \in 1 .. n
  OBVIOUS
<1> QED
  BY <1>3, <1>4 DEF S

\* A walk that returns to its start may start at any of its places; from the one with the
\* greatest sum on, no prefix has a positive bound.
LEMMA TurnedWalk ==
  ASSUME NEW D, IsInts(D), NEW n, NEW p, NEW u, IsWalk(D, n, p, u), p[1] = p[n],
         u[n] <= u[1]
  PROVE  \E r, t : /\ IsWalk(D, n, r, t) /\ r[1] = r[n]
                   /\ Sum(D, r, t, 1, n) = Sum(D, p, u, 1, n)
                   /\ \A x \in 1 .. n : t[x] <= t[1]
<1>1. n \in Nat /\ n >= 1 /\ p \in [1 .. n -> Clk] /\ u \in [1 .. n -> Int]
      /\ 1 \in 1 .. n /\ n \in 1 .. n
  BY DEF IsWalk
<1>2. PICK m \in 1 .. n : \A x \in 1 .. n : u[x] <= u[m]
  BY <1>1, GreatestPlace
<1> DEFINE l == n - m + 1
           q1 == Part(p, m, l)
           v1 == Part(u, m, l)
           q2 == Part(p, 1, m)
           v2 == Part(u, 1, m)
<1>3. /\ l \in Nat /\ m \in Nat /\ 1 <= m /\ m <= n
      /\ 1 \in 1 .. l /\ l \in 1 .. l /\ 1 \in 1 .. m /\ m \in 1 .. m
      /\ l = n - m + 1 /\ m = m - 1 + 1 /\ n = l + m - 1
      /\ m + 1 - 1 = m /\ m + l - 1 = n /\ 1 + 1 - 1 = 1 /\ 1 + m - 1 = m
  BY <1>1
<1> HIDE DEF l, q1, v1, q2, v2
<1>4. /\ IsWalk(D, l, q1, v1)
      /\ \A x \in 1 .. l : q1[x] = p[m + x - 1] /\ v1[x] = u[m + x - 1]
      /\ Sum(D, q1, v1, 1, l) = Sum(D, p, u, m, n)
  <2>1. IsWalk(D, n, p, u) /\ m \in 1 .. n /\ n \in 1 .. n /\ m <= n /\ l \in Nat /\ l = n - m + 1
    BY <1>1, <1>3
  <2> QED
    BY ONLY <2>1, PartOfWalk DEF q1, v1
<1>5. /\ IsWalk(D, m, q2, v2)
      /\ \A x \in 1 .. m : q2[x] = p[1 + x - 1] /\ v2[x] = u[1 + x - 1]
      /\ Sum(D, q2, v2, 1, m) = Sum(D, p, u, 1, m)
  BY <1>1, <1>3, PartOfWalk DEF q2, v2
<1>6. /\ q1[1] = p[m] /\ q1[l] = p[n] /\ q2[1] = p[1] /\ q2[m] = p[m]
      /\ v1[1] = u[m] /\ v1[l] = u[n] /\ v2[1] = u[1]
  BY <1>3, <1>4, <1>5
<1>7. PICK r, t : /\ IsWalk(D, n, r, t)
                  /\ IsJoined(l, q1, v1, m, q2, v2, r, t)
                  /\ Sum(D, r, t, 1, n)
                       = dbm_addFiniteFinite(Sum(D, q1, v1, 1, l), Sum(D, q2, v2, 1, m))
  <2>1. /\ IsInts(D) /\ IsWalk(D, l, q1, v1) /\ IsWalk(D, m, q2, v2)
        /\ q1[l] = q2[1] /\ n = l + m - 1
    BY <1>3, <1>4, <1>5, <1>6
  <2> QED
    BY <2>1, JoinedWalk
<1>15. /\ \A x \in 1 .. l : r[x] = q1[x] /\ t[x] = v1[x]
       /\ \A x \in 1 .. m :
            r[l + x - 1] = q2[x] /\ t[l + x - 1] = v1[l] + v2[x] - v2[1]
  BY <1>7 DEF IsJoined
<1>8. r[1] = r[n] /\ t[1] = u[m]
  BY <1>3, <1>6, <1>15
<1>9. Sum(D, r, t, 1, n) = Sum(D, p, u, 1, n)
  <2>1. Sum(D, p, u, 1, n) = dbm_addFiniteFinite(Sum(D, p, u, 1, m), Sum(D, p, u, m, n))
    BY <1>1, <1>3, SumSplits
  <2>2. Sum(D, p, u, 1, m) \in Int /\ Sum(D, p, u, m, n) \in Int
    BY <1>1, SumParts
  <2> QED
    BY <1>4, <1>5, <1>7, <2>1, <2>2, AddCommutes
<1>10. ASSUME NEW x \in 1 .. n PROVE t[x] <= t[1]
  <2>1. CASE x <= l
    <3>1. x \in 1 .. l /\ m + x - 1 \in 1 .. n
      BY <1>3, <2>1
    <3> QED
      BY <1>2, <1>4, <1>15, <1>8, <3>1
  <2>2. CASE x > l
    <3> DEFINE y == x - l + 1
    <3>1. y \in 1 .. m /\ l + y - 1 = x /\ 1 + y - 1 = y /\ y \in 1 .. n
      BY <1>3, <2>2
    <3> HIDE DEF y
    <3>2. t[x] = u[n] + u[y] - u[1]
      BY <1>5, <1>6, <1>15, <3>1
    <3>3. u[n] \in Int /\ u[y] \in Int /\ u[1] \in Int /\ u[m] \in Int /\ u[y] <= u[m]
      BY <1>1, <1>2, <3>1
    <3> QED
      BY <1>8, <3>2, <3>3
  <2> QED
    BY <1>3, <2>1, <2>2
<1> QED
  BY <1>7, <1>8, <1>9, <1>10

\* A walk that returns to its start with a negative sum has a cycle among its clocks that
\* the abstract specification weighs as negative.
LEMMA NegativeCycleOfWalk ==
  ASSUME NEW D, IsInts(D), NEW n0, NEW p0, NEW u0, IsWalk(D, n0, p0, u0), n0 >= 2,
         p0[1] = p0[n0], Sum(D, p0, u0, 1, n0) < dbm_LE_ZERO
  PROVE  Abstract!HasNegativeCycle(D)
<1> DEFINE Fits(n) == \E p, u : /\ IsWalk(D, n, p, u) /\ n >= 2 /\ p[1] = p[n]
                                /\ Sum(D, p, u, 1, n) < dbm_LE_ZERO
           T == {n \in Nat : Fits(n)}
<1>1. n0 \in T
  BY DEF IsWalk
<1>2. PICK n \in T : \A m \in T : n <= m
  BY <1>1, LeastNatural
<1>3. PICK p, u : /\ IsWalk(D, n, p, u) /\ n >= 2 /\ p[1] = p[n]
                  /\ Sum(D, p, u, 1, n) < dbm_LE_ZERO
  OBVIOUS
<1>4. n \in Nat /\ 1 \in 1 .. n /\ n \in 1 .. n
  BY <1>3 DEF IsWalk
<1>5. u[n] <= u[1]
  <2>1. u[1] \in Int /\ u[n] \in Int
    BY <1>3, <1>4 DEF IsWalk
  <2>2. dbm_raw2bound(Sum(D, p, u, 1, n)) = u[n] - u[1] /\ Sum(D, p, u, 1, n) \in Int
    BY <2>1, SumParts
  <2>3. dbm_raw2bound(Sum(D, p, u, 1, n)) <= 0
    BY <1>3, <2>2, Infinity DEF dbm_raw2bound
  <2> QED
    BY <2>1, <2>2, <2>3
<1>6. PICK r, t : /\ IsWalk(D, n, r, t) /\ r[1] = r[n]
                  /\ Sum(D, r, t, 1, n) = Sum(D, p, u, 1, n)
                  /\ \A x \in 1 .. n : t[x] <= t[1]
  BY <1>3, <1>5, TurnedWalk
<1> HIDE DEF T
<1>7. /\ r \in [1 .. n -> Clk] /\ r[1] \in Clk /\ r[n] \in Clk
      /\ \A x \in 1 .. n : t[x] \in Int
  BY <1>4, <1>6 DEF IsWalk
<1>8. ASSUME NEW x \in 1 .. n, NEW y \in 1 .. n, x < y, r[x] = r[y], ~(x = 1 /\ y = n)
      PROVE  FALSE
  <2> DEFINE s1 == Sum(D, r, t, 1, x)
             s2 == Sum(D, r, t, x, y)
             s3 == Sum(D, r, t, y, n)
             m1 == y - x + 1
             m2 == n - (y - x)
             s == dbm_addFiniteFinite(s1, s3)
  <2>1. /\ m1 \in Nat /\ m1 >= 2 /\ m1 < n
        /\ m2 \in Nat /\ m2 >= 2 /\ m2 < n
    BY <1>4, <1>8
  <2>2. /\ \E q, v : IsWalk(D, m1, q, v) /\ q[1] = r[x] /\ q[m1] = r[x] /\ Sum(D, q, v, 1, m1) = s2
        /\ \E q, v : IsWalk(D, m2, q, v) /\ q[1] = r[1] /\ q[m2] = r[n] /\ Sum(D, q, v, 1, m2) = s
    BY <1>6, <1>8, CutWalk
  <2>3. /\ s1 \in Int /\ s2 \in Int /\ s3 \in Int
        /\ Sum(D, r, t, 1, n) = dbm_addFiniteFinite(s, s2)
    BY <1>6, <1>8, SumOfCut
  <2>4. s \in Int
    BY <2>3, AddParts
  <2> HIDE DEF s1, s2, s3, m1, m2, s
  <2>5. ~(s2 < dbm_LE_ZERO)
    <3> SUFFICES ASSUME s2 < dbm_LE_ZERO PROVE FALSE
      OBVIOUS
    <3>1. m1 \in T
      BY <2>1, <2>2 DEF T
    <3> QED
      BY <1>2, <1>4, <2>1, <3>1
  <2>6. ~(s < dbm_LE_ZERO)
    <3> SUFFICES ASSUME s < dbm_LE_ZERO PROVE FALSE
      OBVIOUS
    <3>1. m2 \in T
      BY <1>6, <2>1, <2>2 DEF T
    <3> QED
      BY <1>2, <1>4, <2>1, <3>1
  <2>7. dbm_LE_ZERO <= s /\ dbm_LE_ZERO <= s2 /\ dbm_LE_ZERO \in Int
    BY <2>3, <2>4, <2>5, <2>6, Infinity
  <2>8. dbm_addFiniteFinite(dbm_LE_ZERO, dbm_LE_ZERO) <= dbm_addFiniteFinite(s, s2)
    BY <2>3, <2>4, <2>7, AddMonotone
  <2>9. dbm_addFiniteFinite(dbm_LE_ZERO, dbm_LE_ZERO) = dbm_LE_ZERO
    BY <2>7, AddZero
  <2>10. dbm_addFiniteFinite(s, s2) < dbm_LE_ZERO /\ dbm_addFiniteFinite(s, s2) \in Int
    BY <1>3, <1>6, <2>3, <2>4, AddParts
  <2> QED
    BY <2>7, <2>8, <2>9, <2>10
<1>9. IsSimple(n, r)
  BY <1>8 DEF IsSimple
<1>10. r \in Abstract!Paths[r[1]][r[1]]
  BY <1>3, <1>4, <1>6, <1>7, <1>9, PathsAre
<1>11. ASSUME NEW x \in 1 .. n - 1 PROVE Sum(D, r, t, 1, x) # dbm_LS_INFINITY
  <2>1. x \in 1 .. n /\ t[x] \in Int /\ t[1] \in Int /\ t[x] <= t[1]
    BY <1>4, <1>6, <1>7
  <2>2. Sum(D, r, t, 1, x) <= 1
    BY <2>1 DEF Sum
  <2>3. Sum(D, r, t, 1, x) \in Int
    BY <2>1, SumParts
  <2> QED
    BY <2>2, <2>3, Infinity
<1>12. Abstract!Weight(D, r) = Sum(D, r, t, 1, n)
  BY <1>6, <1>11, WeightOfWalk
<1>13. Abstract!Weight(D, r) < dbm_LE_ZERO
  BY <1>3, <1>6, <1>12
<1> QED
  BY <1>7, <1>10, <1>13, AbstractRaws DEF Abstract!HasNegativeCycle

\* An edge is a walk of two places.
LEMMA EdgeWalk ==
  ASSUME NEW D, IsInts(D), NEW a \in Clk, NEW b \in Clk, D[a][b] # dbm_LS_INFINITY
  PROVE  HasWalk(D, a, b, D[a][b])
<1> DEFINE w == dbm_raw2bound(D[a][b])
           p == [x \in 1 .. 2 |-> IF x = 1 THEN a ELSE b]
           u == [x \in 1 .. 2 |-> IF x = 1 THEN 0 ELSE w]
<1>1. w \in Int
  BY RawParts DEF IsInts
<1> HIDE DEF w
<1>2. p \in [1 .. 2 -> Clk] /\ u \in [1 .. 2 -> Int]
  BY <1>1
<1>3. p[1] = a /\ p[1 + 1] = b /\ p[2] = b /\ u[1] = 0 /\ u[1 + 1] = w
  OBVIOUS
<1> HIDE DEF p, u
<1>4. \A x \in 1 .. 2 - 1 : x = 1
  OBVIOUS
<1>5. \A x \in 1 .. 2 - 1 : /\ D[p[x]][p[x + 1]] # dbm_LS_INFINITY
                            /\ u[x + 1] = u[x] + dbm_raw2bound(D[p[x]][p[x + 1]])
  <2> TAKE x \in 1 .. 2 - 1
  <2>1. x = 1 /\ p[x] = a /\ p[x + 1] = b /\ u[x] = 0 /\ u[x + 1] = w
    BY <1>3, <1>4
  <2> QED
    BY <1>1, <2>1 DEF w
<1>6. IsWalk(D, 2, p, u)
  BY <1>2, <1>5 DEF IsWalk
<1>7. Sum(D, p, u, 1, 2) = D[a][b]
  <2>1. Sum(D, p, u, 1, 1 + 1) = D[p[1]][p[1 + 1]]
    BY <1>6, SumOfEdge
  <2> QED
    BY <1>3, <2>1
<1> QED
  BY <1>3, <1>6, <1>7 DEF HasWalk

\* Walks that meet add up to a walk.
LEMMA WalksMeet ==
  ASSUME NEW D, IsInts(D), NEW a, NEW b, NEW c, NEW x, NEW y,
         HasWalk(D, a, c, x), HasWalk(D, c, b, y)
  PROVE  HasWalk(D, a, b, dbm_addFiniteFinite(x, y))
<1>1. PICK n, p, u : /\ IsWalk(D, n, p, u) /\ n >= 2 /\ p[1] = a /\ p[n] = c
                     /\ Sum(D, p, u, 1, n) = x
  BY DEF HasWalk
<1>2. PICK m, q, v : /\ IsWalk(D, m, q, v) /\ m >= 2 /\ q[1] = c /\ q[m] = b
                     /\ Sum(D, q, v, 1, m) = y
  BY DEF HasWalk
<1> DEFINE l == n + m - 1
<1>3. l = n + m - 1
  OBVIOUS
<1>4. n \in Nat /\ m \in Nat
  BY <1>1, <1>2 DEF IsWalk
<1>5. l >= 2 /\ 1 \in 1 .. n /\ m \in 1 .. m /\ n + m - 1 = l
  BY <1>1, <1>2, <1>4
<1> HIDE DEF l
<1>6. PICK r, t : /\ IsWalk(D, l, r, t)
                  /\ IsJoined(n, p, u, m, q, v, r, t)
                  /\ Sum(D, r, t, 1, l)
                       = dbm_addFiniteFinite(Sum(D, p, u, 1, n), Sum(D, q, v, 1, m))
  BY <1>1, <1>2, <1>3, JoinedWalk
<1>7. r[1] = a /\ r[l] = b
  BY <1>1, <1>2, <1>5, <1>6 DEF IsJoined
<1> QED
  BY <1>1, <1>2, <1>5, <1>6, <1>7 DEF HasWalk

\* The bounds of a matrix are those of its edges.
LEMMA RealisedByEdges ==
  ASSUME NEW D, IsInts(D)
  PROVE  Realised(D, D)
BY EdgeWalk DEF Realised

\* E has lost no finite bound of D and loosened none.
StaysBelow(E, D) ==
  \A a, b \in Clk : D[a][b] # dbm_LS_INFINITY => E[a][b] # dbm_LS_INFINITY /\ E[a][b] <= D[a][b]

\* Tightening a row puts walks together and loosens nothing.
LEMMA RealisedRow ==
  ASSUME NEW D, IsInts(D), NEW E \in Matrices, Realised(E, D), StaysBelow(E, D),
         NEW r \in Clk, NEW c \in Clk, RowIsValid(E, r, c)
  PROVE  LET F == [E EXCEPT ![r] = RowVia(E, r, c)]
         IN  Realised(F, D) /\ StaysBelow(F, D)
<1> DEFINE F == [E EXCEPT ![r] = RowVia(E, r, c)]
<1>1. F[r] = RowVia(E, r, c) /\ \A a \in Clk \ {r} : F[a] = E[a]
  BY DEF Matrices
<1>6. MinSum \in Int /\ dbm_LS_INFINITY \in Int
  BY SMT DEF MinSum, dbm_LE_OVERFLOW, dbm_LS_INFINITY
<1>2. \A a, b \in Clk : E[a][b] \in Int /\ E[a][b] <= dbm_LS_INFINITY
  BY <1>6 DEF Matrices
<1> HIDE DEF F
<1>3. ASSUME NEW a \in Clk, NEW b \in Clk
      PROVE  /\ F[a][b] \in Int /\ F[a][b] <= E[a][b]
             /\ \/ F[a][b] = E[a][b]
                \/ /\ E[a][c] # dbm_LS_INFINITY /\ E[c][b] # dbm_LS_INFINITY
                   /\ F[a][b] = dbm_addFiniteFinite(E[a][c], E[c][b])
  <2>1. CASE a = r
    <3>1. /\ RowVia(E, r, c)[b] \in MinSum .. dbm_LS_INFINITY
          /\ RowVia(E, r, c)[b] <= E[r][b]
          /\ \/ RowVia(E, r, c)[b] = E[r][b]
             \/ /\ E[r][c] # dbm_LS_INFINITY /\ E[c][b] # dbm_LS_INFINITY
                /\ RowVia(E, r, c)[b] = dbm_addFiniteFinite(E[r][c], E[c][b])
      BY RowEntry
    <3>2. RowVia(E, r, c)[b] \in Int
      BY <1>6, <3>1
    <3> QED
      BY <1>1, <2>1, <3>1, <3>2
  <2>2. CASE a # r
    BY <1>1, <1>2, <2>2
  <2> QED
    BY <2>1, <2>2
<1>4. Realised(F, D)
  <2> SUFFICES ASSUME NEW a \in Clk, NEW b \in Clk, F[a][b] # dbm_LS_INFINITY
               PROVE  HasWalk(D, a, b, F[a][b])
    BY DEF Realised
  <2>1. CASE F[a][b] = E[a][b]
    BY <2>1 DEF Realised
  <2>2. CASE /\ E[a][c] # dbm_LS_INFINITY /\ E[c][b] # dbm_LS_INFINITY
             /\ F[a][b] = dbm_addFiniteFinite(E[a][c], E[c][b])
    <3>1. HasWalk(D, a, c, E[a][c]) /\ HasWalk(D, c, b, E[c][b])
      BY <2>2 DEF Realised
    <3> QED
      BY <2>2, <3>1, WalksMeet
  <2> QED
    BY <1>3, <2>1, <2>2
<1>5. StaysBelow(F, D)
  <2> SUFFICES ASSUME NEW a \in Clk, NEW b \in Clk, D[a][b] # dbm_LS_INFINITY
               PROVE  F[a][b] # dbm_LS_INFINITY /\ F[a][b] <= D[a][b]
    BY DEF StaysBelow
  <2>1. E[a][b] # dbm_LS_INFINITY /\ E[a][b] <= D[a][b] /\ D[a][b] \in Int
    BY DEF StaysBelow, IsInts
  <2>2. E[a][b] \in Int /\ E[a][b] <= dbm_LS_INFINITY /\ F[a][b] \in Int /\ F[a][b] <= E[a][b]
    BY <1>2, <1>3
  <2> QED
    BY <2>1, <2>2, Infinity
<1> QED
  BY <1>4, <1>5 DEF F

\* While a call runs, each bound of its matrix is the sum of a walk of the matrix it was
\* called with, and no bound is lost or loosened.
BoundsAreWalks ==
  ret \in {"running", "closed"} => Realised(dbm, input) /\ StaysBelow(dbm, input)

\* The matrices of a call have integers.
LEMMA CallInts ==
  ASSUME TypeOK
  PROVE  IsInts(input) /\ IsInts(dbm) /\ dbm \in Matrices /\ StaysBelow(input, input)
<1>1. dbm \in Matrices /\ input \in Matrix
  BY DEF TypeOK, Matrices
<1>2. input \in Matrices
  BY <1>1, MatrixInRange
<1>3. MinSum \in Int /\ dbm_LS_INFINITY \in Int
  BY SMT DEF MinSum, dbm_LE_OVERFLOW, dbm_LS_INFINITY
<1>4. IsInts(input) /\ IsInts(dbm)
  BY <1>1, <1>2, <1>3 DEF Matrices, IsInts
<1> QED
  BY <1>1, <1>4 DEF StaysBelow, IsInts

\* A call starts with the edges of its matrix.
LEMMA WalksInit == Init => BoundsAreWalks
<1> SUFFICES ASSUME Init PROVE Realised(input, input) /\ StaysBelow(input, input) /\ dbm = input
  BY DEF BoundsAreWalks
<1>1. TypeOK
  BY TypeInit
<1>2. dbm = input
  BY InputType
<1> QED
  BY <1>1, <1>2, CallInts, RealisedByEdges

\* Each step puts walks together or leaves them alone.
LEMMA WalksStep == TypeOK /\ BoundsAreWalks /\ [Next]_vars => BoundsAreWalks'
<1> SUFFICES ASSUME TypeOK, BoundsAreWalks, [Next]_vars PROVE BoundsAreWalks'
  OBVIOUS
<1>1. CASE UNCHANGED <<input, dbm>> /\ ret \in {"running", "closed"}
  BY <1>1 DEF BoundsAreWalks
<1>2. CASE TightenRow
  <2>1. /\ Realised(dbm, input) /\ StaysBelow(dbm, input) /\ input' = input
        /\ i \in Clk /\ k \in Clk /\ RowIsValid(dbm, i, k)
        /\ dbm' = [dbm EXCEPT ![i] = RowVia(dbm, i, k)]
    BY <1>2, DimAssumption DEF TightenRow, BoundsAreWalks, TypeOK, Clk
  <2>2. Realised(dbm', input) /\ StaysBelow(dbm', input)
    BY <2>1, CallInts, RealisedRow
  <2> QED
    BY <2>1, <2>2 DEF BoundsAreWalks
<1>3. CASE ExitEmpty
  BY <1>3 DEF ExitEmpty, BoundsAreWalks
<1>4. CASE AssertRaw
  BY <1>4 DEF AssertRaw, BoundsAreWalks
<1>5. CASE StartPass \/ SkipRow \/ Return
  BY <1>1, <1>5 DEF StartPass, SkipRow, Return
<1>6. CASE UNCHANGED vars
  BY <1>6 DEF vars, BoundsAreWalks
<1> QED
  BY <1>2, <1>3, <1>4, <1>5, <1>6 DEF Next

\* A call that returns true leaves the tightest matrix, and had no negative cycle.
LEMMA ReturnsTightest ==
  ASSUME TypeOK, PassInvariant, BoundsAreWalks, Return
  PROVE  ~Abstract!HasNegativeCycle(input) /\ dbm = Abstract!Tightest(input)
<1>1. ret = "running" /\ i = dim /\ touched = {}
  BY DEF Return
<1>2. ZeroDiagonal(dbm) /\ \A c \in Clk : ShortcutVia(dbm, c)
  BY <1>1 DEF PassInvariant
<1>3. Realised(dbm, input) /\ StaysBelow(dbm, input)
  BY <1>1 DEF BoundsAreWalks
<1>4. dbm \in Matrices /\ Closes(dbm, input)
  BY <1>2, <1>3, CallInts DEF Closes, Closed, StaysBelow
<1> QED
  BY <1>3, <1>4, NoNegativeCycle, TightestIs

\* A call that returns false had a negative cycle.
LEMMA ExitNegative ==
  ASSUME TypeOK, PassInvariant, BoundsAreWalks, ExitEmpty
  PROVE  Abstract!HasNegativeCycle(input)
<1>1. /\ ret = "running" /\ i \in Clk /\ k \in Clk /\ RowIsValid(dbm, i, k)
      /\ RowVia(dbm, i, k)[i] < dbm_LE_ZERO
  BY DimAssumption DEF ExitEmpty, TypeOK, Clk
<1>2. dbm[i][i] = dbm_LE_ZERO
  BY <1>1 DEF PassInvariant, ZeroDiagonal
<1>3. dbm \in Matrices /\ IsInts(input) /\ Realised(dbm, input)
  BY <1>1, CallInts DEF BoundsAreWalks
<1> DEFINE x == dbm_addFiniteFinite(dbm[i][k], dbm[k][i])
<1>4. /\ dbm[i][k] # dbm_LS_INFINITY /\ dbm[k][i] # dbm_LS_INFINITY
      /\ x < dbm_LE_ZERO
  <2>1. \/ RowVia(dbm, i, k)[i] = dbm[i][i]
        \/ /\ dbm[i][k] # dbm_LS_INFINITY /\ dbm[k][i] # dbm_LS_INFINITY
           /\ RowVia(dbm, i, k)[i] = dbm_addFiniteFinite(dbm[i][k], dbm[k][i])
    BY <1>1, <1>3, RowEntry
  <2>2. ~(dbm_LE_ZERO < dbm_LE_ZERO)
    BY Infinity
  <2> QED
    BY <1>1, <1>2, <2>1, <2>2
<1>5. HasWalk(input, i, k, dbm[i][k]) /\ HasWalk(input, k, i, dbm[k][i])
  BY <1>1, <1>3, <1>4 DEF Realised
<1>6. HasWalk(input, i, i, x)
  BY <1>3, <1>5, WalksMeet
<1> HIDE DEF x
<1>7. PICK n, p, u : /\ IsWalk(input, n, p, u) /\ n >= 2 /\ p[1] = i /\ p[n] = i
                     /\ Sum(input, p, u, 1, n) = x
  BY <1>6 DEF HasWalk
<1>8. p[1] = p[n] /\ Sum(input, p, u, 1, n) < dbm_LE_ZERO
  BY <1>4, <1>7
<1> QED
  BY <1>3, <1>7, <1>8, NegativeCycleOfWalk

\* The constants that the abstract specification allows are below this limit.
Limit == dbm_LE_OVERFLOW \div dim

\* The matrices of a call are wide.
LEMMA MatricesAreWide ==
  ASSUME NEW D \in Matrices
  PROVE  D \in WideMatrix
<1>1. MinSum \in Int /\ dbm_LS_INFINITY \in Int
  BY SMT DEF MinSum, dbm_LE_OVERFLOW, dbm_LS_INFINITY
<1> QED
  BY <1>1 DEF Matrices, WideMatrix

\* A path over distinct clocks, with constants below the limit, stays a valid raw.
LEMMA NoLargeConstant ==
  ASSUME NEW D, IsInts(D), ZeroDiagonal(D), ~Abstract!HasLargeConstant(D)
  PROVE  /\ Limit \in Nat /\ 1 < Limit /\ dim * Limit <= dbm_LE_OVERFLOW
         /\ Bounded(D, Limit)
<1>1. dim \in Nat \ {0} /\ 0 \in Clk /\ dbm_LE_OVERFLOW \in Nat
  BY DimAssumption DEF Clk, dbm_LE_OVERFLOW
<1>2. Limit \in Int /\ dim * Limit <= dbm_LE_OVERFLOW /\ 0 <= Limit
  BY <1>1 DEF Limit
<1>3. \A a, b \in Clk : D[a][b] # dbm_LS_INFINITY => ~(D[a][b] >= Limit) /\ ~(-D[a][b] >= Limit)
  BY AbstractRaws DEF Abstract!HasLargeConstant, Limit
<1>4. D[0][0] = 1 /\ D[0][0] # dbm_LS_INFINITY
  BY <1>1, Infinity DEF ZeroDiagonal
<1>5. ~(1 >= Limit)
  BY <1>1, <1>3, <1>4
<1>6. Bounded(D, Limit)
  <2> SUFFICES ASSUME NEW a \in Clk, NEW b \in Clk, D[a][b] # dbm_LS_INFINITY
               PROVE  -Limit < D[a][b] /\ D[a][b] < Limit
    BY DEF Bounded
  <2>1. D[a][b] \in Int /\ ~(D[a][b] >= Limit) /\ ~(-D[a][b] >= Limit)
    BY <1>3 DEF IsInts
  <2> QED
    BY <1>2, <2>1
<1> QED
  BY <1>2, <1>5, <1>6

\* There are dim clocks.
LEMMA AllClocks == IsFiniteSet(Clk) /\ Cardinality(Clk) = dim
BY FS_Interval, DimAssumption DEF Clk

\* A matrix with "<= 0" on the diagonal has no path of more than dim - 1 edges.
LEMMA BoundsOfSpreadZone ==
  ASSUME NEW D \in WideMatrix, NEW done \in SUBSET Clk, NEW B \in Nat, 1 < B,
         ZeroDiagonal(D), Spread(D, done, RawsBelow(B))
  PROVE  Bounded(D, dim * B)
<1> SUFFICES ASSUME NEW a \in Clk, NEW b \in Clk, D[a][b] # dbm_LS_INFINITY
             PROVE  -(dim * B) < D[a][b] /\ D[a][b] < dim * B
  BY DEF Bounded
<1>1. D[a][b] \in Int /\ dim \in Nat /\ 1 <= dim
  BY WideEntry, DimAssumption
<1>2. PICK K \in SUBSET (done \ {a, b}) : <<D[a][b], Cardinality(K) + 1>> \in RawsBelow(B)
  BY DEF Spread
<1>3. Cardinality(K) + 1 \in Nat /\ (a # b => Cardinality(K) + 1 <= dim)
  <2>1. K \subseteq Clk \ {a}
    BY <1>2
  <2>3. IsFiniteSet(Clk \ {a}) /\ Cardinality(Clk \ {a}) = dim - 1
    BY AllClocks, FS_RemoveElement
  <2>4. IsFiniteSet(K) /\ Cardinality(K) <= dim - 1
    BY <2>1, <2>3, FS_Subset
  <2>5. Cardinality(K) \in Nat
    BY <2>4, FS_CardinalityType
  <2> QED
    BY <1>1, <2>4, <2>5
<1> DEFINE n == IF a = b THEN 1 ELSE Cardinality(K) + 1
           p == n * B
           q == dim * B
<1>4. n \in Nat /\ n <= dim
  BY <1>1, <1>3
<1>5. -p < D[a][b] /\ D[a][b] < p
  <2>1. CASE a = b
    <3>1. D[a][b] = 1 /\ p = B
      BY <2>1, Infinity DEF ZeroDiagonal
    <3> QED
      BY <3>1
  <2>2. CASE a # b
    BY <1>2, <2>2 DEF RawsBelow
  <2> QED
    BY <2>1, <2>2
<1> HIDE DEF n
<1>6. p \in Nat /\ q \in Nat /\ p <= q
  BY <1>1, <1>4, Multiples
<1> HIDE DEF p, q
<1>7. -q < D[a][b] /\ D[a][b] < q
  BY <1>1, <1>5, <1>6
<1> QED
  BY <1>7 DEF q

\* E is what the pass for c has made of D when it is about to do row r; the entries of D
\* are paths through the clocks of done.
InPass(D, E, c, r, done) ==
  /\ D \in Matrices /\ ZeroDiagonal(D)
  /\ \A m \in done : ShortcutVia(D, m)
  /\ Spread(D, done, RawsBelow(Limit))
  /\ \A a \in Clk : E[a] = IF a < r /\ a # c THEN RowVia(D, a, c) ELSE D[a]

\* A row that is about to be tightened, and the row of c, are still those of D.
LEMMA InPassRow ==
  ASSUME NEW D, NEW E, NEW c \in Clk, NEW r \in Clk, NEW done, InPass(D, E, c, r, done)
  PROVE  E[r] = D[r] /\ E[c] = D[c] /\ RowVia(E, r, c) = RowVia(D, r, c)
<1>1. r \in Int
  BY DEF Clk
<1>2. E[r] = D[r] /\ E[c] = D[c]
  BY <1>1 DEF InPass
<1> QED
  BY <1>2 DEF RowVia

\* Its sums are valid.
LEMMA InPassValid ==
  ASSUME NEW D, NEW E, NEW c \in Clk, NEW r \in Clk, NEW done \in SUBSET Clk,
         InPass(D, E, c, r, done),
         Limit \in Nat, 1 < Limit, dim * Limit <= dbm_LE_OVERFLOW
  PROVE  RowIsValid(E, r, c)
<1>1. D \in WideMatrix /\ Bounded(D, dim * Limit)
  BY MatricesAreWide, BoundsOfSpreadZone DEF InPass
<1>2. E[r] = D[r] /\ E[c] = D[c]
  BY InPassRow
<1> DEFINE q == dim * Limit
<1>3. q \in Int /\ q <= dbm_LE_OVERFLOW
  BY DimAssumption
<1> HIDE DEF q
<1>4. ASSUME NEW a \in Clk, NEW b \in Clk PROVE dbm_isValidRaw(D[a][b])
  <2>1. D[a][b] \in Int
    BY <1>1, WideEntry
  <2>2. D[a][b] # dbm_LS_INFINITY => -q < D[a][b] /\ D[a][b] < q
    BY <1>1 DEF Bounded, q
  <2> QED
    BY <1>3, <2>1, <2>2, Infinity DEF dbm_isValidRaw
<1> QED
  BY <1>2, <1>4 DEF RowIsValid

\* The row of c is skipped, the others are tightened.
LEMMA InPassNext ==
  ASSUME NEW D, NEW E \in Matrices, NEW c \in Clk, NEW r \in Clk, NEW done,
         InPass(D, E, c, r, done)
  PROVE  /\ r = c => InPass(D, E, c, r + 1, done)
         /\ r # c => InPass(D, [E EXCEPT ![r] = RowVia(E, r, c)], c, r + 1, done)
<1>1. r \in Int /\ \A a \in Clk : a \in Int /\ (a < r + 1 <=> a < r \/ a = r)
  BY DEF Clk
<1>2. r = c => InPass(D, E, c, r + 1, done)
  BY <1>1 DEF InPass
<1> DEFINE F == [E EXCEPT ![r] = RowVia(E, r, c)]
<1>3. F[r] = RowVia(E, r, c) /\ \A a \in Clk \ {r} : F[a] = E[a]
  BY DEF Matrices
<1>4. RowVia(E, r, c) = RowVia(D, r, c)
  BY InPassRow
<1> HIDE DEF F
<1>5. ASSUME r # c PROVE InPass(D, F, c, r + 1, done)
  <2>1. ASSUME NEW a \in Clk
        PROVE  F[a] = IF a < r + 1 /\ a # c THEN RowVia(D, a, c) ELSE D[a]
    <3>1. CASE a = r
      BY <1>1, <1>3, <1>4, <1>5, <3>1
    <3>2. CASE a # r
      <4>1. F[a] = E[a] /\ (a < r + 1 <=> a < r)
        BY <1>1, <1>3, <3>2
      <4> QED
        BY <4>1 DEF InPass
    <3> QED
      BY <3>1, <3>2
  <2> QED
    BY <2>1 DEF InPass
<1> QED
  BY <1>2, <1>5 DEF F

\* At its end the pass has made paths through c too.
LEMMA InPassEnds ==
  ASSUME NEW D, NEW E \in Matrices, NEW c \in Clk, NEW done \in SUBSET Clk, c \notin done,
         InPass(D, E, c, dim, done), ZeroDiagonal(E),
         Limit \in Nat, 1 < Limit, dim * Limit <= dbm_LE_OVERFLOW
  PROVE  Spread(E, done \cup {c}, RawsBelow(Limit))
<1>1. D \in WideMatrix /\ Bounded(D, dim * Limit)
  BY MatricesAreWide, BoundsOfSpreadZone DEF InPass
<1> DEFINE B == dim * Limit
<1>2. B \in Nat /\ B <= dbm_LE_OVERFLOW /\ Bounded(D, B)
  BY <1>1, DimAssumption
<1> HIDE DEF B
<1>3. SumsFinite(D, c)
  BY <1>1, <1>2, SumsOfBounded
<1>4. E = PassVia(D, c)
  <2>1. \A a \in Clk : E[a] = IF a = c THEN D[a] ELSE RowVia(D, a, c)
    <3>1. \A a \in Clk : a < dim
      BY DimAssumption DEF Clk
    <3> QED
      BY <3>1 DEF InPass
  <2>2. E = [a \in Clk |-> E[a]]
    BY DEF Matrices
  <2> QED
    BY <2>1, <2>2 DEF PassVia
<1>5. /\ ZeroDiagonal(D) /\ \A m \in done : ShortcutVia(D, m)
      /\ Spread(D, done, RawsBelow(Limit))
  BY DEF InPass
<1> QED
  BY <1>1, <1>3, <1>4, <1>5, SpreadPass, WeightsAdd

\* Where no constant reaches the limit, every entry is the weight of a path through
\* clocks that had their pass or need none, each of them once.
EntriesAreShort ==
  ret = "running" /\ ~Abstract!HasLargeConstant(input) =>
    /\ i = dim => Spread(dbm, Clk \ touched, RawsBelow(Limit))
    /\ i < dim => \E D : InPass(D, dbm, k, i, (Clk \ touched) \ {k})

\* The matrix of a call, where no constant reaches the limit.
LEMMA CallIsSmall ==
  ASSUME NEW D \in Matrix, ZeroDiagonal(D), ~Abstract!HasLargeConstant(D)
  PROVE  /\ Limit \in Nat /\ 1 < Limit /\ dim * Limit <= dbm_LE_OVERFLOW
         /\ Bounded(D, Limit) /\ D \in WideMatrix
<1>1. D \in Matrices /\ D \in WideMatrix
  BY MatrixInRange, MatricesAreWide
<1>2. MinSum \in Int /\ dbm_LS_INFINITY \in Int
  BY SMT DEF MinSum, dbm_LE_OVERFLOW, dbm_LS_INFINITY
<1>3. IsInts(D)
  BY <1>1, <1>2 DEF Matrices, IsInts
<1> QED
  BY <1>1, <1>3, NoLargeConstant

\* What no step changes: the call was made with valid raws and "<= 0" on the diagonal.
InputIsZoned == input \in Matrix /\ ZeroDiagonal(input)

\* The entries of a call are its constants.
LEMMA ShortInit == Init => InputIsZoned /\ EntriesAreShort
<1> SUFFICES ASSUME Init PROVE InputIsZoned /\ EntriesAreShort
  OBVIOUS
<1>1. InputIsZoned /\ dbm = input
  BY InputType DEF InputIsZoned
<1>2. i = dim /\ dim \in Nat
  BY DimAssumption DEF Init
<1>3. ASSUME ~Abstract!HasLargeConstant(input)
      PROVE  Spread(dbm, Clk \ touched, RawsBelow(Limit))
  <2>1. Limit \in Nat /\ Bounded(input, Limit) /\ input \in WideMatrix
    BY <1>1, <1>3, CallIsSmall DEF InputIsZoned
  <2> QED
    BY <1>1, <2>1, SpreadFromBounds
<1> QED
  BY <1>1, <1>2, <1>3 DEF EntriesAreShort

\* Every step keeps the entries short.
LEMMA ShortStep ==
  ASSUME TypeOK, PassInvariant, PassInvariant', InputIsZoned, EntriesAreShort, [Next]_vars
  PROVE  InputIsZoned' /\ EntriesAreShort'
<1> DEFINE done == (Clk \ touched) \ {k}
<1>1. /\ dim \in Nat /\ k \in Clk /\ i \in 0 .. dim /\ (i < dim => i \in Clk)
      /\ dbm \in Matrices /\ touched \in SUBSET Clk
  BY DimAssumption DEF TypeOK, Matrices, Clk
<1>2. input' = input
  BY DEF Next, StartPass, SkipRow, TightenRow, ExitEmpty, AssertRaw, Return, vars
<1>3. InputIsZoned'
  BY <1>2 DEF InputIsZoned
<1> SUFFICES ASSUME ret' = "running", ~Abstract!HasLargeConstant(input)
             PROVE  /\ i' = dim => Spread(dbm', Clk \ touched', RawsBelow(Limit))
                    /\ i' < dim => \E D : InPass(D, dbm', k', i', (Clk \ touched') \ {k'})
  BY <1>2, <1>3 DEF EntriesAreShort
<1>4. Limit \in Nat /\ 1 < Limit /\ dim * Limit <= dbm_LE_OVERFLOW
  BY CallIsSmall DEF InputIsZoned
<1>5. ASSUME ret = "running", NEW D, InPass(D, dbm', k, i + 1, done),
             i' = i + 1, k' = k, touched' = touched, i < dim
      PROVE  /\ i' = dim => Spread(dbm', Clk \ touched', RawsBelow(Limit))
             /\ i' < dim => \E E : InPass(E, dbm', k', i', (Clk \ touched') \ {k'})
  <2>1. CASE i + 1 = dim
    <3>1. k \notin touched /\ ZeroDiagonal(dbm')
      BY <1>5 DEF PassInvariant
    <3>2. dbm' \in Matrices
      BY TypeStep DEF TypeOK, Matrices
    <3>3. done \in SUBSET Clk /\ k \notin done /\ done \cup {k} = Clk \ touched
      BY <1>1, <3>1
    <3>4. InPass(D, dbm', k, dim, done)
      BY <1>5, <2>1
    <3> HIDE DEF done
    <3>5. Spread(dbm', done \cup {k}, RawsBelow(Limit))
      BY <1>1, <1>4, <3>1, <3>2, <3>3, <3>4, InPassEnds
    <3> QED
      BY <1>1, <1>5, <2>1, <3>3, <3>5
  <2>2. CASE i + 1 # dim
    BY <1>5, <2>2
  <2> QED
    BY <2>1, <2>2
<1>6. CASE StartPass
  <2>1. /\ ret = "running" /\ i = dim /\ i' = 0 /\ dbm' = dbm
        /\ k' \in touched /\ touched' = touched \ {k'}
    BY <1>6 DEF StartPass
  <2>2. (Clk \ touched') \ {k'} = Clk \ touched
    BY <1>1, <2>1
  <2>3. ZeroDiagonal(dbm) /\ \A m \in Clk \ touched : ShortcutVia(dbm, m)
    BY <2>1 DEF PassInvariant
  <2>4. Spread(dbm, Clk \ touched, RawsBelow(Limit))
    BY <2>1 DEF EntriesAreShort
  <2>5. \A a \in Clk : ~(a < 0)
    BY DEF Clk
  <2>6. InPass(dbm, dbm, k', 0, Clk \ touched)
    BY <1>1, <2>3, <2>4, <2>5 DEF InPass
  <2>7. 0 # dim
    BY DimAssumption
  <2> QED
    BY <2>1, <2>2, <2>6, <2>7
<1>7. CASE SkipRow
  <2>1. /\ ret = "running" /\ i < dim /\ i = k /\ i' = i + 1
        /\ dbm' = dbm /\ k' = k /\ touched' = touched
    BY <1>7 DEF SkipRow
  <2>2. PICK D : InPass(D, dbm, k, i, done)
    BY <2>1 DEF EntriesAreShort
  <2> HIDE DEF done
  <2>3. InPass(D, dbm', k, i + 1, done)
    BY <1>1, <2>1, <2>2, InPassNext
  <2> QED
    BY <1>5, <2>1, <2>3
<1>8. CASE TightenRow
  <2>1. /\ ret = "running" /\ i < dim /\ i # k /\ i' = i + 1
        /\ dbm' = [dbm EXCEPT ![i] = RowVia(dbm, i, k)] /\ k' = k /\ touched' = touched
    BY <1>8 DEF TightenRow
  <2>2. PICK D : InPass(D, dbm, k, i, done)
    BY <2>1 DEF EntriesAreShort
  <2> HIDE DEF done
  <2>3. InPass(D, dbm', k, i + 1, done)
    BY <1>1, <2>1, <2>2, InPassNext
  <2> QED
    BY <1>5, <2>1, <2>3
<1>9. CASE ExitEmpty \/ AssertRaw \/ Return
  BY <1>9 DEF ExitEmpty, AssertRaw, Return
<1>10. CASE UNCHANGED vars
  BY <1>10 DEF vars, EntriesAreShort
<1> QED
  BY <1>6, <1>7, <1>8, <1>9, <1>10 DEF Next

\* An assertion fails for a large constant only.
LEMMA AssertsOnLarge ==
  ASSUME TypeOK, InputIsZoned, EntriesAreShort, AssertRaw
  PROVE  Abstract!HasLargeConstant(input)
<1> SUFFICES ASSUME ~Abstract!HasLargeConstant(input) PROVE FALSE
  OBVIOUS
<1> DEFINE done == (Clk \ touched) \ {k}
<1>1. /\ ret = "running" /\ i < dim /\ i \in Clk /\ k \in Clk
      /\ done \in SUBSET Clk /\ ~RowIsValid(dbm, i, k)
  BY DimAssumption DEF TypeOK, AssertRaw, Clk
<1>2. PICK D : InPass(D, dbm, k, i, done)
  BY <1>1 DEF EntriesAreShort
<1>3. Limit \in Nat /\ 1 < Limit /\ dim * Limit <= dbm_LE_OVERFLOW
  BY CallIsSmall DEF InputIsZoned
<1> HIDE DEF done
<1> QED
  BY <1>1, <1>2, <1>3, InPassValid

\* The initial states are those of the abstract specification.
LEMMA AbstractInit == Init => Abstract!Init
<1> SUFFICES ASSUME Init PROVE Abstract!Init
  OBVIOUS
<1>1. input \in Matrix /\ ret = "running"
  BY InputType DEF Init
<1> QED
  BY <1>1 DEF Abstract!Init

\* Each step is one of the abstract specification, or leaves its state alone.
LEMMA AbstractStep ==
  ASSUME TypeOK, PassInvariant, BoundsAreWalks, InputIsZoned, EntriesAreShort, [Next]_vars
  PROVE  [Abstract!Next]_(Abstract!vars)
<1>1. CASE StartPass \/ SkipRow \/ TightenRow
  <2>1. ret = "running" /\ ret' = ret /\ input' = input
    BY <1>1 DEF StartPass, SkipRow, TightenRow
  <2> QED
    BY <2>1 DEF Abstract!vars
<1>2. CASE ExitEmpty
  <2>1. ret = "running" /\ ret' = "empty"
    BY <1>2 DEF ExitEmpty
  <2>2. Abstract!HasNegativeCycle(input)
    BY <1>2, ExitNegative
  <2>3. Abstract!ReportEmpty
    BY <2>1, <2>2 DEF Abstract!ReportEmpty
  <2> QED
    BY <2>3 DEF Abstract!Next
<1>3. CASE AssertRaw
  <2>1. ret = "running" /\ ret' = "overflow"
    BY <1>3 DEF AssertRaw
  <2>2. Abstract!HasLargeConstant(input)
    BY <1>3, AssertsOnLarge
  <2>3. Abstract!Overflow
    BY <2>1, <2>2 DEF Abstract!Overflow
  <2> QED
    BY <2>3 DEF Abstract!Next
<1>4. CASE Return
  <2>1. ret = "running" /\ ret' = "closed" /\ dbm' = dbm
    BY <1>4 DEF Return
  <2>2. ~Abstract!HasNegativeCycle(input) /\ dbm = Abstract!Tightest(input)
    BY <1>4, ReturnsTightest
  <2>3. Abstract!Close
    BY <2>1, <2>2 DEF Abstract!Close
  <2> QED
    BY <2>3 DEF Abstract!Next
<1>5. CASE UNCHANGED vars
  BY <1>5 DEF vars, Abstract!vars
<1> QED
  BY <1>1, <1>2, <1>3, <1>4, <1>5 DEF Next

\* The closure functions implement their specification (src/dbm.c: dbm_close, dbm_closex,
\* dbm_close1), for every dim and every matrix and touched set that meets the
\* precondition: they leave the weights of the shortest paths, return false for a
\* negative cycle and nothing else, and no sum leaves the valid raws unless a constant is
\* at least dbm_LE_OVERFLOW / dim.
THEOREM ClosureImplemented == Spec => ImplementsClosure
<1> DEFINE Invariant == /\ TypeOK /\ PassInvariant /\ BoundsAreWalks
                        /\ InputIsZoned /\ EntriesAreShort
<1>1. Init => Invariant /\ Abstract!Init
  BY TypeInit, PassInit, WalksInit, ShortInit, AbstractInit
<1>2. Invariant /\ [Next]_vars => Invariant'
  BY TypeStep, PassStep, WalksStep, ShortStep
<1>3. Invariant /\ [Next]_vars => [Abstract!Next]_(Abstract!vars)
  BY AbstractStep
<1> HIDE DEF Invariant
<1> QED
  BY <1>1, <1>2, <1>3, PTL DEF Spec, ImplementsClosure, Abstract!Spec

=============================================================================

------------------------------ MODULE DbmLemmas ------------------------------
(***************************************************************************)
(* What the proofs about matrices share: the algebra of raw bounds,        *)
(* induction and recursion on the clocks, and what one pass of Floyd's     *)
(* algorithm does to a matrix of integers.                                 *)
(***************************************************************************)
EXTENDS Dbm, TLAPS, FiniteSetTheorems, WellFoundedInduction

-----------------------------------------------------------------------------
(* Raws.  dbm_addFiniteFinite is a commutative monoid on the finite raws with unit *)
(* dbm_LE_ZERO, monotone, without overflow on valid raws, and sound for the meaning *)
(* of a raw on clock differences. *)

\* A raw is twice its bound, plus one when it is weak.
LEMMA RawParts ==
  ASSUME NEW x \in Int
  PROVE  /\ dbm_raw2bound(x) \in Int
         /\ dbm_rawIsWeak(x) => x = 2 * dbm_raw2bound(x) + 1
         /\ ~dbm_rawIsWeak(x) => x = 2 * dbm_raw2bound(x)
BY DEF dbm_raw2bound, dbm_rawIsWeak

\* Adding raws adds the bounds; the sum is weak when both are (the comment
\* "+ constraints - excess bit" on dbm_addRawRaw).
LEMMA AddParts ==
  ASSUME NEW x \in Int, NEW y \in Int
  PROVE  /\ dbm_addFiniteFinite(x, y) \in Int
         /\ dbm_raw2bound(dbm_addFiniteFinite(x, y))
              = dbm_raw2bound(x) + dbm_raw2bound(y)
         /\ dbm_rawIsWeak(dbm_addFiniteFinite(x, y))
              <=> dbm_rawIsWeak(x) /\ dbm_rawIsWeak(y)
BY DEF dbm_addFiniteFinite, dbm_raw2bound, dbm_rawIsWeak

\* A looser operand gives a looser sum.
LEMMA AddMonotone ==
  ASSUME NEW x \in Int, NEW y \in Int, NEW u \in Int, NEW w \in Int,
         x <= u, y <= w
  PROVE  dbm_addFiniteFinite(x, y) <= dbm_addFiniteFinite(u, w)
BY DEF dbm_addFiniteFinite, dbm_rawIsWeak

\* A path may be added up in any order.
LEMMA AddAssociative ==
  ASSUME NEW x \in Int, NEW y \in Int, NEW z \in Int
  PROVE  dbm_addFiniteFinite(dbm_addFiniteFinite(x, y), z)
           = dbm_addFiniteFinite(x, dbm_addFiniteFinite(y, z))
BY DEF dbm_addFiniteFinite, dbm_rawIsWeak

\* "<= 0" adds nothing.
LEMMA AddZero ==
  ASSUME NEW x \in Int
  PROVE  /\ dbm_addFiniteFinite(x, dbm_LE_ZERO) = x
         /\ dbm_addFiniteFinite(dbm_LE_ZERO, x) = x
BY DEF dbm_addFiniteFinite, dbm_rawIsWeak, dbm_LE_ZERO

\* Prefixing, and suffixing, a step that is no longer than the two it replaces.
LEMMA AddPrefix ==
  ASSUME NEW x \in Int, NEW y \in Int, NEW z \in Int, NEW w \in Int,
         w <= dbm_addFiniteFinite(y, z)
  PROVE  dbm_addFiniteFinite(x, w)
           <= dbm_addFiniteFinite(dbm_addFiniteFinite(x, y), z)
<1>1. dbm_addFiniteFinite(x, w) <= dbm_addFiniteFinite(x, dbm_addFiniteFinite(y, z))
  BY AddMonotone, AddParts
<1> QED
  BY <1>1, AddAssociative

\* A bound no looser than a path stays so when an edge is added at the end of both.
LEMMA AddSuffix ==
  ASSUME NEW x \in Int, NEW y \in Int, NEW z \in Int, NEW w \in Int,
         w <= dbm_addFiniteFinite(x, y)
  PROVE  dbm_addFiniteFinite(w, z)
           <= dbm_addFiniteFinite(x, dbm_addFiniteFinite(y, z))
<1>1. dbm_addFiniteFinite(w, z) <= dbm_addFiniteFinite(dbm_addFiniteFinite(x, y), z)
  BY AddMonotone, AddParts
<1> QED
  BY <1>1, AddAssociative

\* The order in which the edges of a longer path are added does not matter.
LEMMA AddFour ==
  ASSUME NEW x \in Int, NEW y \in Int, NEW z \in Int, NEW w \in Int
  PROVE  LET Sum(p, q) == dbm_addFiniteFinite(p, q)
         IN  /\ Sum(Sum(x, y), Sum(z, w)) = Sum(Sum(Sum(x, y), z), w)
             /\ Sum(Sum(x, y), Sum(z, w)) = Sum(x, Sum(Sum(y, z), w))
<1> DEFINE Sum(p, q) == dbm_addFiniteFinite(p, q)
<1>1. \A p, q \in Int : Sum(p, q) \in Int
  BY AddParts
<1>2. \A p, q, r \in Int : Sum(Sum(p, q), r) = Sum(p, Sum(q, r))
  BY AddAssociative
<1> HIDE DEF Sum
<1>3. Sum(x, y) \in Int /\ Sum(z, w) \in Int /\ Sum(y, z) \in Int
  BY <1>1
<1>4. Sum(Sum(Sum(x, y), z), w) = Sum(Sum(x, y), Sum(z, w))
  BY <1>2, <1>3
<1>5. Sum(Sum(x, y), Sum(z, w)) = Sum(x, Sum(y, Sum(z, w)))
  BY <1>2, <1>3
<1>6. Sum(y, Sum(z, w)) = Sum(Sum(y, z), w)
  BY <1>2
<1> QED
  BY <1>4, <1>5, <1>6 DEF Sum

\* So may a path of five edges.
LEMMA AddFive ==
  ASSUME NEW x \in Int, NEW y \in Int, NEW z \in Int, NEW w \in Int, NEW u \in Int
  PROVE  LET Sum(p, q) == dbm_addFiniteFinite(p, q)
         IN  Sum(Sum(x, y), Sum(Sum(z, w), u)) = Sum(x, Sum(Sum(Sum(y, z), w), u))
<1> DEFINE Sum(p, q) == dbm_addFiniteFinite(p, q)
<1>1. Sum(z, w) \in Int /\ Sum(y, z) \in Int
  BY AddParts
<1>2. Sum(Sum(x, y), Sum(Sum(z, w), u)) = Sum(x, Sum(Sum(y, Sum(z, w)), u))
  BY <1>1, AddFour
<1>3. Sum(y, Sum(z, w)) = Sum(Sum(y, z), w)
  BY AddAssociative
<1> QED
  BY <1>2, <1>3

\* A detour that does not gain anything leaves the path no shorter.
LEMMA AddDetour ==
  ASSUME NEW x \in Int, NEW y \in Int, NEW z \in Int, NEW w \in Int,
         dbm_LE_ZERO <= dbm_addFiniteFinite(y, z)
  PROVE  dbm_addFiniteFinite(x, w)
           <= dbm_addFiniteFinite(dbm_addFiniteFinite(x, y),
                                  dbm_addFiniteFinite(z, w))
<1>1. dbm_LE_ZERO \in Int
  BY DEF dbm_LE_ZERO
<1>2. w <= dbm_addFiniteFinite(y, dbm_addFiniteFinite(z, w))
  BY <1>1, AddSuffix, AddZero
<1> QED
  BY <1>2, AddPrefix, AddParts

\* A sum of valid finite raws stays below infinity and inside raw_t.
LEMMA AddValid ==
  ASSUME NEW x \in Int, NEW y \in Int,
         x # dbm_LS_INFINITY, y # dbm_LS_INFINITY,
         dbm_isValidRaw(x), dbm_isValidRaw(y)
  PROVE  /\ dbm_addFiniteFinite(x, y) >= -2 * (dbm_LE_OVERFLOW - 1)
         /\ dbm_addFiniteFinite(x, y) < dbm_LS_INFINITY
BY DEF dbm_addFiniteFinite, dbm_rawIsWeak, dbm_isValidRaw, dbm_LE_OVERFLOW,
       dbm_LS_INFINITY

\* Scaling to the grid keeps strict inequalities.
LEMMA ScaleStrict ==
  ASSUME NEW p \in Int, NEW q \in Int, NEW g \in Nat \ {0}, p < q
  PROVE  p * g \in Int /\ q * g \in Int /\ p * g < q * g
OBVIOUS

\* Scaling to the grid keeps sums.
LEMMA ScaleAdd ==
  ASSUME NEW p \in Int, NEW q \in Int, NEW g \in Nat \ {0}
  PROVE  p * g \in Int /\ q * g \in Int /\ (p + q) * g = p * g + q * g
OBVIOUS

\* A looser raw admits every difference that a tighter one admits.
LEMMA WithinMonotone ==
  ASSUME NEW x \in Int, NEW y \in Int, NEW d \in Int, NEW g \in Nat \ {0},
         x <= y, Within(d, x, g)
  PROVE  Within(d, y, g)
<1> DEFINE p == dbm_raw2bound(x)
           q == dbm_raw2bound(y)
<1>1. CASE x >= dbm_LS_INFINITY
  BY <1>1 DEF Within, dbm_LS_INFINITY
<1>2. CASE p = q /\ ~(x >= dbm_LS_INFINITY)
  BY <1>2, RawParts DEF Within
<1>3. CASE p < q /\ ~(x >= dbm_LS_INFINITY)
  <2>1. p \in Int /\ q \in Int
    BY RawParts
  <2>2. p * g \in Int /\ q * g \in Int /\ p * g < q * g
    BY <2>1, <1>3, ScaleStrict
  <2>3. d <= p * g
    BY <1>3, <2>2 DEF Within
  <2> QED
    BY <2>2, <2>3 DEF Within
<1>4. p <= q
  BY RawParts
<1> QED
  BY <1>1, <1>2, <1>3, <1>4, RawParts

\* The triangle inequality behind every tightening: differences within two raws
\* add up to a difference within their sum.
LEMMA WithinAdd ==
  ASSUME NEW x \in Int, NEW y \in Int, NEW d \in Int, NEW e \in Int,
         NEW g \in Nat \ {0},
         x < dbm_LS_INFINITY, y < dbm_LS_INFINITY,
         Within(d, x, g), Within(e, y, g)
  PROVE  Within(d + e, dbm_addFiniteFinite(x, y), g)
<1> DEFINE p == dbm_raw2bound(x)
           q == dbm_raw2bound(y)
           r == dbm_addFiniteFinite(x, y)
<1>1. p \in Int /\ q \in Int
  BY RawParts
<1>2. p * g \in Int /\ q * g \in Int /\ (p + q) * g = p * g + q * g
  BY <1>1, ScaleAdd
<1>3. dbm_raw2bound(r) = p + q
      /\ (dbm_rawIsWeak(r) <=> dbm_rawIsWeak(x) /\ dbm_rawIsWeak(y))
  BY AddParts
<1>4. d <= p * g /\ (d < p * g \/ dbm_rawIsWeak(x))
  BY <1>2 DEF Within, dbm_LS_INFINITY
<1>5. e <= q * g /\ (e < q * g \/ dbm_rawIsWeak(y))
  BY <1>2 DEF Within, dbm_LS_INFINITY
<1>6. d + e <= (p + q) * g
      /\ (d + e < (p + q) * g \/ dbm_rawIsWeak(r))
  BY <1>2, <1>3, <1>4, <1>5
<1> QED
  BY <1>3, <1>6 DEF Within

\* Only a raw below "<= 0" excludes the difference 0.
LEMMA WithinZero ==
  ASSUME NEW x \in Int, NEW g \in Nat \ {0}, x < dbm_LE_ZERO
  PROVE  ~Within(0, x, g)
BY RawParts DEF Within, dbm_LE_ZERO, dbm_LS_INFINITY

-----------------------------------------------------------------------------
(* Induction.  The sets stand for the properties of numbers. *)

\* A non-empty set of naturals has a least element.
LEMMA LeastNatural ==
  ASSUME NEW T \in SUBSET Nat, T # {}
  PROVE  \E n \in T : \A m \in T : n <= m
<1> DEFINE R == OpToRel(<, Nat)
<1>1. IsWellFoundedOn(R, Nat)
  BY NatLessThanWellFounded
<1>2. \A x, y \in Nat : <<y, x>> \in R <=> y < x
  BY DEF OpToRel
<1> HIDE DEF R
<1>3. PICK n \in T : \A y \in T : ~(<<y, n>> \in R)
  BY <1>1, WFMin
<1>4. \A m \in T : m \in Nat /\ n \in Nat /\ ~(m < n)
  BY <1>2, <1>3
<1>5. \A m \in T : n <= m
  BY <1>4
<1> QED
  BY <1>5

\* A set with 0, and with n + 1 when it has n, has every natural.
LEMMA Induction ==
  ASSUME NEW S, 0 \in S, \A n \in Nat : n \in S => n + 1 \in S
  PROVE  \A n \in Nat : n \in S
<1> SUFFICES ASSUME Nat \ S # {} PROVE FALSE
  OBVIOUS
<1>1. PICK n \in Nat \ S : \A m \in Nat \ S : n <= m
  BY LeastNatural
<1>2. n - 1 \in S /\ n - 1 \in Nat
  BY <1>1
<1> QED
  BY <1>1, <1>2

\* A set of integers with a lower bound has a least element.
LEMMA LeastInteger ==
  ASSUME NEW T \in SUBSET Int, T # {}, NEW lo \in Int, \A x \in T : lo <= x
  PROVE  \E x \in T : \A y \in T : x <= y
<1> DEFINE S == {x - lo : x \in T}
<1>1. S \in SUBSET Nat /\ S # {}
  <2>1. \A x \in T : x - lo \in Nat
    OBVIOUS
  <2> QED
    BY <2>1
<1>2. PICK n \in S : \A m \in S : n <= m
  BY <1>1, LeastNatural
<1>3. PICK x \in T : n = x - lo
  BY <1>2
<1>4. \A y \in T : y - lo \in S
  OBVIOUS
<1>5. \A y \in T : x - lo <= y - lo
  BY <1>2, <1>3, <1>4
<1>6. \A y \in T : x <= y
  BY <1>5
<1> QED
  BY <1>6

\* f holds the values after each of the steps 1 .. m of a loop that starts from first.
Runs(f, m, first, step) ==
  f = [n \in 0 .. m |-> IF n = 0 THEN first ELSE step[<<n, f[n - 1]>>]]

\* Every loop has such a function.
LEMMA Recursion ==
  ASSUME NEW V, NEW first \in V, NEW step \in [Nat \X V -> V], NEW m \in Nat
  PROVE  \E f \in [0 .. m -> V] : Runs(f, m, first, step)
<1> DEFINE Follows(n, f) == Runs(f, n, first, step)
           S == {n \in Nat : \E f \in [0 .. n -> V] : Follows(n, f)}
<1>1. 0 \in S
  <2> DEFINE f == [l \in 0 .. 0 |-> first]
  <2>1. f \in [0 .. 0 -> V] /\ Follows(0, f)
    BY DEF Runs
  <2> QED
    BY <2>1
<1>2. ASSUME NEW n \in Nat, n \in S PROVE n + 1 \in S
  <2>1. PICK f \in [0 .. n -> V] : Follows(n, f)
    BY <1>2
  <2> DEFINE next == step[<<n + 1, f[n]>>]
             h == [l \in 0 .. n + 1 |-> IF l = n + 1 THEN next ELSE f[l]]
  <2>2. next \in V
    OBVIOUS
  <2>3. h \in [0 .. n + 1 -> V]
    BY <2>2
  <2>4. h[n + 1] = next /\ \A l \in 0 .. n : h[l] = f[l]
    OBVIOUS
  <2> HIDE DEF h
  <2>5. ASSUME NEW l \in 0 .. n + 1
        PROVE  h[l] = IF l = 0 THEN first ELSE step[<<l, h[l - 1]>>]
    <3>1. CASE l = n + 1
      BY <2>4, <3>1
    <3>2. CASE l = 0
      <4>1. 0 \in 0 .. n /\ l # n + 1
        BY <3>2
      <4>2. f[0] = first
        BY <2>1, <4>1 DEF Runs
      <4> QED
        BY <2>4, <3>2, <4>1, <4>2
    <3>3. CASE l # n + 1 /\ l # 0
      <4>1. l \in 0 .. n /\ l - 1 \in 0 .. n
        BY <3>3
      <4>2. f[l] = step[<<l, f[l - 1]>>]
        BY <2>1, <3>3, <4>1 DEF Runs
      <4> QED
        BY <2>4, <3>3, <4>1, <4>2
    <3> QED
      BY <3>1, <3>2, <3>3
  <2>6. Follows(n + 1, h)
    BY <2>3, <2>5 DEF Runs
  <2>7. \E k \in [0 .. n + 1 -> V] : Follows(n + 1, k)
    BY <2>3, <2>6
  <2> HIDE DEF Follows
  <2> QED
    BY <2>7
<1> HIDE DEF S
<1>3. m \in S
  BY <1>1, <1>2, Induction
<1> QED
  BY <1>3 DEF S

-----------------------------------------------------------------------------
(* A pass of Floyd's algorithm. *)

\* Matrices of integers none of which is above infinity: what the sums of valid
\* raws stay in.
WideMatrix == [Clk -> [Clk -> {x \in Int : x <= dbm_LS_INFINITY}]]

\* No sum that the pass for c computes reaches infinity.
SumsFinite(D, c) ==
  \A a, b \in Clk :
    D[a][c] # dbm_LS_INFINITY /\ D[c][b] # dbm_LS_INFINITY
      => dbm_addFiniteFinite(D[a][c], D[c][b]) < dbm_LS_INFINITY

\* The constants of constraints.h, and their order.
LEMMA Infinity ==
  /\ dbm_LS_INFINITY \in Int /\ dbm_LE_ZERO \in Int /\ dbm_LE_OVERFLOW \in Int
  /\ dbm_LE_ZERO = 1 /\ dbm_LE_ZERO < dbm_LS_INFINITY
  /\ dbm_LE_ZERO < dbm_LE_OVERFLOW
  /\ dbm_LS_INFINITY = 2 * dbm_LE_OVERFLOW
BY SMT DEF dbm_LS_INFINITY, dbm_LE_ZERO, dbm_LE_OVERFLOW

\* The entries of a wide matrix are integers up to infinity.
LEMMA WideEntry ==
  ASSUME NEW D \in WideMatrix, NEW a \in Clk, NEW b \in Clk
  PROVE  D[a][b] \in Int /\ D[a][b] <= dbm_LS_INFINITY
BY DEF WideMatrix

\* What the pass for c does to one entry.
LEMMA PassEntry ==
  ASSUME NEW D \in WideMatrix, NEW c \in Clk, NEW a \in Clk, NEW b \in Clk,
         ZeroDiagonal(D), SumsFinite(D, c)
  PROVE  LET E == PassVia(D, c)
         IN  /\ E[a][b] \in Int
             /\ E[a][b] <= D[a][b]
             /\ D[a][c] # dbm_LS_INFINITY /\ D[c][b] # dbm_LS_INFINITY
                  => /\ E[a][b] # dbm_LS_INFINITY
                     /\ E[a][b] <= dbm_addFiniteFinite(D[a][c], D[c][b])
             /\ \/ E[a][b] = D[a][b]
                \/ /\ D[a][c] # dbm_LS_INFINITY /\ D[c][b] # dbm_LS_INFINITY
                   /\ E[a][b] = dbm_addFiniteFinite(D[a][c], D[c][b])
<1> DEFINE s == dbm_addFiniteFinite(D[a][c], D[c][b])
<1>1. /\ D[a][b] \in Int /\ D[a][c] \in Int /\ D[c][b] \in Int
      /\ D[a][b] <= dbm_LS_INFINITY
  BY WideEntry
<1>2. s \in Int
  BY <1>1, AddParts
<1>3. CASE a = c
  <2>1. PassVia(D, c)[a][b] = D[a][b]
    BY <1>3 DEF PassVia
  <2>2. s = D[a][b]
    BY <1>1, <1>3, AddZero DEF ZeroDiagonal
  <2> QED
    BY <1>1, <1>3, <2>1, <2>2
<1>4. CASE a # c
  <2>1. PassVia(D, c)[a][b] = RawMin(D[a][b], dbm_addRawRaw(D[a][c], D[c][b]))
    BY <1>4 DEF PassVia, RowVia
  <2>2. CASE D[a][c] = dbm_LS_INFINITY \/ D[c][b] = dbm_LS_INFINITY
    <3>1. PassVia(D, c)[a][b] = RawMin(D[a][b], dbm_LS_INFINITY)
      BY <2>1, <2>2 DEF dbm_addRawRaw
    <3> QED
      BY <1>1, <2>2, <3>1, Infinity DEF RawMin
  <2>3. CASE D[a][c] # dbm_LS_INFINITY /\ D[c][b] # dbm_LS_INFINITY
    <3>1. PassVia(D, c)[a][b] = RawMin(D[a][b], s)
      BY <2>1, <2>3 DEF dbm_addRawRaw
    <3>2. s < dbm_LS_INFINITY
      BY <2>3 DEF SumsFinite
    <3>3. s = dbm_addFiniteFinite(D[a][c], D[c][b])
      OBVIOUS
    <3> HIDE DEF s
    <3> QED
      BY <1>1, <1>2, <2>3, <3>1, <3>2, <3>3, Infinity DEF RawMin
  <2> QED
    BY <2>2, <2>3
<1> QED
  BY <1>3, <1>4

\* A pass of Floyd's algorithm leaves a wide matrix.
LEMMA PassType ==
  ASSUME NEW D \in WideMatrix, NEW c \in Clk
  PROVE  PassVia(D, c) \in WideMatrix
<1> DEFINE E == PassVia(D, c)
<1>1. ASSUME NEW a \in Clk, NEW b \in Clk
      PROVE  E[a][b] \in {x \in Int : x <= dbm_LS_INFINITY}
  <2> DEFINE s == dbm_addRawRaw(D[a][c], D[c][b])
  <2>1. D[a][b] \in Int /\ D[a][b] <= dbm_LS_INFINITY /\ D[a][c] \in Int /\ D[c][b] \in Int
    BY WideEntry
  <2>2. s \in Int
    BY <2>1, Infinity, AddParts DEF dbm_addRawRaw
  <2>3. E[a][b] = D[a][b] \/ E[a][b] = RawMin(D[a][b], s)
    BY DEF PassVia, RowVia
  <2> HIDE DEF s, E
  <2> QED
    BY <2>1, <2>2, <2>3, Infinity DEF RawMin
<1>2. E = [a \in Clk |-> [b \in Clk |-> E[a][b]]]
  BY DEF PassVia, RowVia, WideMatrix
<1> HIDE DEF E
<1>3. E \in WideMatrix
  BY <1>1, <1>2 DEF WideMatrix
<1> QED
  BY <1>3 DEF E

\* A pass for c keeps every shortcut it found and adds those through c: the step
\* of Floyd's algorithm.
LEMMA PassExtends ==
  ASSUME NEW D \in WideMatrix, NEW c \in Clk, NEW e \in Clk,
         ZeroDiagonal(D), SumsFinite(D, c),
         e = c \/ ShortcutVia(D, e)
  PROVE  ShortcutVia(PassVia(D, c), e)
<1> DEFINE E == PassVia(D, c)
           Sum(x, y) == dbm_addFiniteFinite(x, y)
<1> SUFFICES ASSUME NEW a \in Clk, NEW b \in Clk,
                    E[a][e] # dbm_LS_INFINITY, E[e][b] # dbm_LS_INFINITY
             PROVE  /\ E[a][b] # dbm_LS_INFINITY
                    /\ E[a][b] <= Sum(E[a][e], E[e][b])
  BY DEF ShortcutVia
<1>1. dbm_LS_INFINITY \in Int
  BY Infinity
<1>2. \A x, y \in Clk : D[x][y] \in Int /\ D[x][y] <= dbm_LS_INFINITY
  BY WideEntry
<1>3. \A x, y \in Clk :
        /\ E[x][y] \in Int
        /\ E[x][y] <= D[x][y]
        /\ D[x][c] # dbm_LS_INFINITY /\ D[c][y] # dbm_LS_INFINITY
             => /\ E[x][y] # dbm_LS_INFINITY
                /\ E[x][y] <= Sum(D[x][c], D[c][y])
        /\ \/ E[x][y] = D[x][y]
           \/ /\ D[x][c] # dbm_LS_INFINITY /\ D[c][y] # dbm_LS_INFINITY
              /\ E[x][y] = Sum(D[x][c], D[c][y])
  BY PassEntry
<1>4. D[c][c] = dbm_LE_ZERO /\ dbm_LE_ZERO # dbm_LS_INFINITY /\ dbm_LE_ZERO \in Int
  BY Infinity DEF ZeroDiagonal
<1>10. \A x, y \in Int : Sum(x, y) \in Int
  BY AddParts
<1> HIDE DEF E, Sum
<1>5. CASE e = c
  <2>1. E[a][c] = D[a][c] /\ E[c][b] = D[c][b]
    BY <1>2, <1>3, <1>4, AddZero DEF Sum
  <2> QED
    BY <1>3, <1>5, <2>1
<1>6. CASE ShortcutVia(D, e) /\ E[a][e] = D[a][e] /\ E[e][b] = D[e][b]
  <2>1. D[a][b] # dbm_LS_INFINITY /\ D[a][b] <= Sum(D[a][e], D[e][b])
    BY <1>6 DEF ShortcutVia, Sum
  <2>2. /\ E[a][b] \in Int /\ D[a][b] \in Int /\ Sum(D[a][e], D[e][b]) \in Int
        /\ E[a][b] <= D[a][b] /\ D[a][b] <= dbm_LS_INFINITY
    BY <1>2, <1>3, <1>10
  <2> QED
    BY <1>1, <1>6, <2>1, <2>2
<1>7. CASE /\ ShortcutVia(D, e) /\ E[e][b] = D[e][b]
           /\ D[a][c] # dbm_LS_INFINITY /\ D[c][e] # dbm_LS_INFINITY
           /\ E[a][e] = Sum(D[a][c], D[c][e])
  <2>1. D[c][b] # dbm_LS_INFINITY /\ D[c][b] <= Sum(D[c][e], D[e][b])
    BY <1>7 DEF ShortcutVia, Sum
  <2>2. Sum(D[a][c], D[c][b]) <= Sum(Sum(D[a][c], D[c][e]), D[e][b])
    BY <1>2, <2>1, AddPrefix DEF Sum
  <2>3. E[a][b] # dbm_LS_INFINITY /\ E[a][b] <= Sum(D[a][c], D[c][b])
    BY <1>3, <1>7, <2>1
  <2>4. /\ E[a][b] \in Int /\ Sum(D[a][c], D[c][b]) \in Int
        /\ Sum(Sum(D[a][c], D[c][e]), D[e][b]) \in Int
    BY <1>2, <1>3, <1>10
  <2> QED
    BY <1>7, <2>2, <2>3, <2>4
<1>8. CASE /\ ShortcutVia(D, e) /\ E[a][e] = D[a][e]
           /\ D[e][c] # dbm_LS_INFINITY /\ D[c][b] # dbm_LS_INFINITY
           /\ E[e][b] = Sum(D[e][c], D[c][b])
  <2>1. D[a][c] # dbm_LS_INFINITY /\ D[a][c] <= Sum(D[a][e], D[e][c])
    BY <1>8 DEF ShortcutVia, Sum
  <2>2. Sum(D[a][c], D[c][b]) <= Sum(D[a][e], Sum(D[e][c], D[c][b]))
    BY <1>2, <2>1, AddSuffix DEF Sum
  <2>3. E[a][b] # dbm_LS_INFINITY /\ E[a][b] <= Sum(D[a][c], D[c][b])
    BY <1>3, <1>8, <2>1
  <2>4. /\ E[a][b] \in Int /\ Sum(D[a][c], D[c][b]) \in Int
        /\ Sum(D[a][e], Sum(D[e][c], D[c][b])) \in Int
    BY <1>2, <1>3, <1>10
  <2> QED
    BY <1>8, <2>2, <2>3, <2>4
<1>9. CASE /\ ShortcutVia(D, e)
           /\ D[a][c] # dbm_LS_INFINITY /\ D[c][e] # dbm_LS_INFINITY
           /\ E[a][e] = Sum(D[a][c], D[c][e])
           /\ D[e][c] # dbm_LS_INFINITY /\ D[c][b] # dbm_LS_INFINITY
           /\ E[e][b] = Sum(D[e][c], D[c][b])
  <2>1. dbm_LE_ZERO <= Sum(D[c][e], D[e][c])
    BY <1>4, <1>9 DEF ShortcutVia, Sum
  <2>2. Sum(D[a][c], D[c][b])
          <= Sum(Sum(D[a][c], D[c][e]), Sum(D[e][c], D[c][b]))
    BY <1>2, <2>1, AddDetour DEF Sum
  <2>3. E[a][b] # dbm_LS_INFINITY /\ E[a][b] <= Sum(D[a][c], D[c][b])
    BY <1>3, <1>9
  <2>4. /\ E[a][b] \in Int /\ Sum(D[a][c], D[c][b]) \in Int
        /\ Sum(Sum(D[a][c], D[c][e]), Sum(D[e][c], D[c][b])) \in Int
    BY <1>2, <1>3, <1>10
  <2> QED
    BY <1>9, <2>2, <2>3, <2>4
<1> QED
  BY <1>3, <1>5, <1>6, <1>7, <1>8, <1>9

\* A pass keeps every point of the zone and adds none.
LEMMA PassSolutions ==
  ASSUME NEW D \in WideMatrix, NEW c \in Clk, ZeroDiagonal(D), SumsFinite(D, c),
         NEW pt \in [Clk -> Int], NEW g \in Nat \ {0}
  PROVE  dbm_isRealPointIncluded(pt, PassVia(D, c), g)
           <=> dbm_isRealPointIncluded(pt, D, g)
<1> DEFINE E == PassVia(D, c)
<1>1. \A x, y \in Clk : D[x][y] \in Int /\ D[x][y] <= dbm_LS_INFINITY
  BY WideEntry
<1>2. \A x, y \in Clk :
        /\ E[x][y] \in Int
        /\ E[x][y] <= D[x][y]
        /\ \/ E[x][y] = D[x][y]
           \/ /\ D[x][c] # dbm_LS_INFINITY /\ D[c][y] # dbm_LS_INFINITY
              /\ E[x][y] = dbm_addFiniteFinite(D[x][c], D[c][y])
  BY PassEntry
<1>3. \A x, y \in Clk : pt[x] - pt[y] \in Int
  OBVIOUS
<1> HIDE DEF E
<1>4. ASSUME dbm_isRealPointIncluded(pt, E, g)
      PROVE  dbm_isRealPointIncluded(pt, D, g)
  BY <1>1, <1>2, <1>3, <1>4, WithinMonotone DEF dbm_isRealPointIncluded
<1>5. ASSUME dbm_isRealPointIncluded(pt, D, g)
      PROVE  dbm_isRealPointIncluded(pt, E, g)
  <2> SUFFICES ASSUME NEW a \in Clk, NEW b \in Clk
               PROVE  Within(pt[a] - pt[b], E[a][b], g)
    BY DEF dbm_isRealPointIncluded
  <2>1. /\ Within(pt[a] - pt[b], D[a][b], g)
        /\ Within(pt[a] - pt[c], D[a][c], g)
        /\ Within(pt[c] - pt[b], D[c][b], g)
    BY <1>5 DEF dbm_isRealPointIncluded
  <2>2. CASE E[a][b] = D[a][b]
    BY <2>1, <2>2
  <2>3. CASE /\ D[a][c] # dbm_LS_INFINITY /\ D[c][b] # dbm_LS_INFINITY
             /\ E[a][b] = dbm_addFiniteFinite(D[a][c], D[c][b])
    <3>1. D[a][c] < dbm_LS_INFINITY /\ D[c][b] < dbm_LS_INFINITY
      BY <1>1, <2>3, Infinity
    <3>2. Within((pt[a] - pt[c]) + (pt[c] - pt[b]), E[a][b], g)
      BY <1>1, <1>3, <2>1, <2>3, <3>1, WithinAdd
    <3>3. (pt[a] - pt[c]) + (pt[c] - pt[b]) = pt[a] - pt[b]
      OBVIOUS
    <3> QED
      BY <3>2, <3>3
  <2> QED
    BY <1>2, <2>2, <2>3
<1> QED
  BY <1>4, <1>5 DEF E

-----------------------------------------------------------------------------
(* What closing functions promise. *)

Closed(D) == ZeroDiagonal(D) /\ \A c \in Clk : ShortcutVia(D, c)

\* E has the bounds of D, or tighter ones.
NoLooser(E, D) == \A a, b \in Clk : E[a][b] <= D[a][b]

\* At every granularity, E and D are satisfied by the same points; D by none.
SamePoints(D, E) ==
  \A pt \in [Clk -> Int], g \in Nat \ {0} :
    dbm_isRealPointIncluded(pt, E, g) <=> dbm_isRealPointIncluded(pt, D, g)

NoPoints(D) ==
  \A pt \in [Clk -> Int], g \in Nat \ {0} : ~dbm_isRealPointIncluded(pt, D, g)

\* A negative diagonal excludes every point.
LEMMA NegativeDiagonal ==
  ASSUME NEW D, NEW c \in Clk, D[c][c] \in Int, D[c][c] < dbm_LE_ZERO
  PROVE  NoPoints(D)
<1> SUFFICES ASSUME NEW pt \in [Clk -> Int], NEW g \in Nat \ {0}
             PROVE  ~dbm_isRealPointIncluded(pt, D, g)
  BY DEF NoPoints
<1>1. pt[c] - pt[c] = 0
  OBVIOUS
<1>2. ~Within(pt[c] - pt[c], D[c][c], g)
  BY <1>1, WithinZero
<1> QED
  BY <1>2 DEF dbm_isRealPointIncluded

-----------------------------------------------------------------------------
(* How large entries grow.  An entry is the weight of a path, and as long as no *)
(* cycle is negative a path through n clocks need not visit one of them twice.  *)

\* The clocks of K lie on a path from a to b that weighs D[a][b].
OnPath(D, a, b, K) ==
  \A m \in K : /\ D[a][m] # dbm_LS_INFINITY /\ D[m][b] # dbm_LS_INFINITY
               /\ dbm_addFiniteFinite(D[a][m], D[m][b]) <= D[a][b]

\* W says what a path may weigh: <<x, n>> is in it when n edges may weigh x.  Putting
\* one path after another is what it must allow.
Additive(W) ==
  \A x, y \in Int, n, m \in Nat :
    <<x, n>> \in W /\ <<y, m>> \in W => <<dbm_addFiniteFinite(x, y), n + m>> \in W

\* The edges have raws between -B and B, or bounds from -L to L.
RawsBelow(B) == {p \in Int \X Nat : -(p[2] * B) < p[1] /\ p[1] < p[2] * B}
BoundsWithin(L) ==
  {p \in Int \X Nat : dbm_raw2bound(p[1]) \in -(p[2] * L) .. p[2] * L}

\* Every entry is the weight of a path through some other clocks of done.
Spread(D, done, W) ==
  \A a, b \in Clk : D[a][b] # dbm_LS_INFINITY =>
    \E K \in SUBSET (done \ {a, b}) :
      OnPath(D, a, b, K) /\ <<D[a][b], Cardinality(K) + 1>> \in W

\* The finite entries of D are between -B and B.
Bounded(D, B) ==
  \A a, b \in Clk : D[a][b] # dbm_LS_INFINITY => -B < D[a][b] /\ D[a][b] < B

\* Clk is a finite set of dim clocks, and so are its subsets.
LEMMA ClocksFinite ==
  ASSUME NEW K \in SUBSET Clk
  PROVE  IsFiniteSet(K) /\ Cardinality(K) \in Nat /\ Cardinality(K) <= dim
<1>1. IsFiniteSet(Clk) /\ Cardinality(Clk) = dim
  BY FS_Interval, DimAssumption DEF Clk
<1>2. IsFiniteSet(K) /\ Cardinality(K) <= Cardinality(Clk)
  BY <1>1, FS_Subset
<1>3. Cardinality(K) \in Nat
  BY <1>2, FS_CardinalityType
<1> QED
  BY <1>1, <1>2, <1>3

\* Multiplication by a natural number is monotone and distributes.
LEMMA Multiples ==
  ASSUME NEW m \in Nat, NEW n \in Nat, NEW B \in Nat
  PROVE  /\ m * B \in Nat /\ n * B \in Nat
         /\ (m + n) * B = m * B + n * B
         /\ m <= n => m * B <= n * B
<1>1. m * B \in Nat /\ n * B \in Nat /\ (m + n) * B = m * B + n * B
  OBVIOUS
<1>2. ASSUME m <= n PROVE m * B <= n * B
  <2>1. n - m \in Nat
    BY <1>2
  <2> DEFINE d == n - m
  <2>2. d \in Nat /\ n = m + d
    BY <2>1
  <2> HIDE DEF d
  <2>3. (m + d) * B = m * B + d * B /\ d * B \in Nat
    BY <2>2
  <2> QED
    BY <1>1, <2>2, <2>3
<1> QED
  BY <1>1, <1>2

\* Raws and bounds add up along a path.
LEMMA WeightsAdd ==
  ASSUME NEW B \in Nat
  PROVE  Additive(RawsBelow(B)) /\ Additive(BoundsWithin(B))
<1> SUFFICES ASSUME NEW x \in Int, NEW y \in Int, NEW n \in Nat, NEW m \in Nat
             PROVE  /\ <<x, n>> \in RawsBelow(B) /\ <<y, m>> \in RawsBelow(B)
                         => <<dbm_addFiniteFinite(x, y), n + m>> \in RawsBelow(B)
                    /\ <<x, n>> \in BoundsWithin(B) /\ <<y, m>> \in BoundsWithin(B)
                         => <<dbm_addFiniteFinite(x, y), n + m>> \in BoundsWithin(B)
  BY DEF Additive
<1> DEFINE s == dbm_addFiniteFinite(x, y)
           p == n * B
           q == m * B
<1>1. p \in Nat /\ q \in Nat /\ (n + m) * B = p + q /\ n + m \in Nat
  BY Multiples
<1>2. s \in Int /\ x + y - 1 <= s /\ s <= x + y
  BY DEF dbm_addFiniteFinite
<1>3. /\ dbm_raw2bound(x) \in Int /\ dbm_raw2bound(y) \in Int
      /\ dbm_raw2bound(s) = dbm_raw2bound(x) + dbm_raw2bound(y)
  BY AddParts, RawParts
<1> HIDE DEF p, q, s
<1>4. -p < x /\ x < p /\ -q < y /\ y < q => -(p + q) < s /\ s < p + q
  BY <1>1, <1>2
<1>5. dbm_raw2bound(x) \in -p .. p /\ dbm_raw2bound(y) \in -q .. q
        => dbm_raw2bound(s) \in -(p + q) .. p + q
  BY <1>1, <1>3
<1>6. <<x, n>> \in RawsBelow(B) /\ <<y, m>> \in RawsBelow(B)
        => <<s, n + m>> \in RawsBelow(B)
  BY <1>1, <1>2, <1>4 DEF RawsBelow, p, q
<1>7. <<x, n>> \in BoundsWithin(B) /\ <<y, m>> \in BoundsWithin(B)
        => <<s, n + m>> \in BoundsWithin(B)
  BY <1>1, <1>2, <1>5 DEF BoundsWithin, p, q
<1> QED
  BY <1>6, <1>7 DEF s

\* Every entry is a path of one edge.
LEMMA SpreadFromEdges ==
  ASSUME NEW D, NEW done, NEW W,
         \A a, b \in Clk : D[a][b] # dbm_LS_INFINITY => <<D[a][b], 1>> \in W
  PROVE  Spread(D, done, W)
<1>1. Cardinality({}) + 1 = 1
  BY FS_EmptySet
<1> SUFFICES ASSUME NEW a \in Clk, NEW b \in Clk, D[a][b] # dbm_LS_INFINITY
             PROVE  \E K \in SUBSET (done \ {a, b}) :
                      OnPath(D, a, b, K) /\ <<D[a][b], Cardinality(K) + 1>> \in W
  BY DEF Spread
<1>2. OnPath(D, a, b, {}) /\ {} \in SUBSET (done \ {a, b})
  BY DEF OnPath
<1> QED
  BY <1>1, <1>2

\* The entries of a bounded matrix are paths of one bounded edge.
LEMMA SpreadFromBounds ==
  ASSUME NEW D \in WideMatrix, NEW done, NEW B \in Nat, Bounded(D, B)
  PROVE  Spread(D, done, RawsBelow(B))
<1>1. ASSUME NEW a \in Clk, NEW b \in Clk, D[a][b] # dbm_LS_INFINITY
      PROVE  <<D[a][b], 1>> \in RawsBelow(B)
  <2>1. D[a][b] \in Int /\ -B < D[a][b] /\ D[a][b] < B
    BY <1>1, WideEntry DEF Bounded
  <2> QED
    BY <2>1 DEF RawsBelow
<1> QED
  BY <1>1, SpreadFromEdges

\* A path visits no clock twice, so it has fewer edges than there are clocks.
LEMMA BoundsOfPaths ==
  ASSUME NEW D \in WideMatrix, NEW done \in SUBSET Clk, NEW L \in Nat,
         ZeroDiagonal(D), Spread(D, done, BoundsWithin(L)),
         NEW a \in Clk, NEW b \in Clk, D[a][b] # dbm_LS_INFINITY
  PROVE  dbm_raw2bound(D[a][b]) \in -((dim - 1) * L) .. (dim - 1) * L
<1>1. dim - 1 \in Nat /\ (dim - 1) * L \in Nat
  BY DimAssumption, Multiples
<1>2. CASE a = b
  BY <1>1, <1>2 DEF ZeroDiagonal, dbm_raw2bound, dbm_LE_ZERO
<1>3. CASE a # b
  <2>1. PICK K \in SUBSET (done \ {a, b}) : <<D[a][b], Cardinality(K) + 1>> \in BoundsWithin(L)
    BY DEF Spread
  <2> DEFINE n == Cardinality(K) + 1
  <2>2. n \in Nat /\ n <= dim - 1
    <3>1. IsFiniteSet(Clk) /\ Cardinality(Clk) = dim
      BY FS_Interval, DimAssumption DEF Clk
    <3>2. IsFiniteSet(Clk \ {a}) /\ Cardinality(Clk \ {a}) = dim - 1
      BY <3>1, FS_RemoveElement
    <3>3. /\ IsFiniteSet((Clk \ {a}) \ {b})
          /\ Cardinality((Clk \ {a}) \ {b}) = dim - 1 - 1
      BY <1>3, <3>2, FS_RemoveElement
    <3>4. K \subseteq (Clk \ {a}) \ {b}
      OBVIOUS
    <3>5. IsFiniteSet(K) /\ Cardinality(K) <= Cardinality((Clk \ {a}) \ {b})
      BY <3>3, <3>4, FS_Subset
    <3>6. Cardinality(K) \in Nat
      BY <3>5, FS_CardinalityType
    <3> QED
      BY <3>3, <3>5, <3>6, DimAssumption
  <2> HIDE DEF n
  <2>3. n * L \in Nat /\ n * L <= (dim - 1) * L
    BY <1>1, <2>2, Multiples
  <2>4. dbm_raw2bound(D[a][b]) \in -(n * L) .. n * L
    BY <2>1 DEF BoundsWithin, n
  <2> QED
    BY <1>1, <2>3, <2>4
<1> QED
  BY <1>2, <1>3

\* A spread matrix has entries below dim + 1 times the bound.
LEMMA BoundsOfSpread ==
  ASSUME NEW D \in WideMatrix, NEW done \in SUBSET Clk, NEW B \in Nat,
         Spread(D, done, RawsBelow(B))
  PROVE  Bounded(D, (dim + 1) * B)
<1> SUFFICES ASSUME NEW a \in Clk, NEW b \in Clk, D[a][b] # dbm_LS_INFINITY
             PROVE  -((dim + 1) * B) < D[a][b] /\ D[a][b] < (dim + 1) * B
  BY DEF Bounded
<1>1. PICK K \in SUBSET done : /\ -((Cardinality(K) + 1) * B) < D[a][b]
                               /\ D[a][b] < (Cardinality(K) + 1) * B
  BY DEF Spread, RawsBelow
<1>2. Cardinality(K) \in Nat /\ Cardinality(K) <= dim /\ dim \in Nat
  BY ClocksFinite, DimAssumption
<1> DEFINE p == (Cardinality(K) + 1) * B
           q == (dim + 1) * B
<1>3. p \in Nat /\ q \in Nat /\ p <= q
  <2>1. Cardinality(K) + 1 \in Nat /\ dim + 1 \in Nat /\ Cardinality(K) + 1 <= dim + 1
    BY <1>2
  <2> QED
    BY <2>1, Multiples
<1>4. -p < D[a][b] /\ D[a][b] < p
  BY <1>1
<1>5. D[a][b] \in Int
  BY WideEntry
<1> HIDE DEF p, q
<1>6. -q < D[a][b] /\ D[a][b] < q
  BY <1>3, <1>4, <1>5
<1> QED
  BY <1>6 DEF q

\* Sums of two bounded entries do not reach infinity.
LEMMA SumsOfBounded ==
  ASSUME NEW D \in WideMatrix, NEW c \in Clk, NEW B \in Nat, Bounded(D, B),
         B <= dbm_LE_OVERFLOW
  PROVE  SumsFinite(D, c)
<1> SUFFICES ASSUME NEW a \in Clk, NEW b \in Clk,
                    D[a][c] # dbm_LS_INFINITY, D[c][b] # dbm_LS_INFINITY
             PROVE  dbm_addFiniteFinite(D[a][c], D[c][b]) < dbm_LS_INFINITY
  BY DEF SumsFinite
<1>1. D[a][c] \in Int /\ D[c][b] \in Int
  BY WideEntry
<1>2. D[a][c] < B /\ D[c][b] < B
  BY DEF Bounded
<1> QED
  BY <1>1, <1>2, Infinity DEF dbm_addFiniteFinite

\* A pass for c keeps the matrix spread, if no cycle turns out negative: where the
\* path through c is the shorter one, its two halves have no clock in common.
LEMMA SpreadPass ==
  ASSUME NEW D \in WideMatrix, NEW c \in Clk, NEW done \in SUBSET Clk, NEW W, Additive(W),
         ZeroDiagonal(D), SumsFinite(D, c), c \notin done,
         \A m \in done : ShortcutVia(D, m),
         ZeroDiagonal(PassVia(D, c)),
         Spread(D, done, W)
  PROVE  Spread(PassVia(D, c), done \cup {c}, W)
<1> DEFINE E == PassVia(D, c)
           Sum(x, y) == dbm_addFiniteFinite(x, y)
           Fits(x, K) == <<x, Cardinality(K) + 1>> \in W
<1> SUFFICES ASSUME NEW a \in Clk, NEW b \in Clk, E[a][b] # dbm_LS_INFINITY
             PROVE  \E K \in SUBSET ((done \cup {c}) \ {a, b}) :
                      OnPath(E, a, b, K) /\ Fits(E[a][b], K)
  BY DEF Spread
<1>1. \A x, y \in Clk : D[x][y] \in Int /\ D[x][y] <= dbm_LS_INFINITY
  BY WideEntry
<1>2. \A x, y \in Clk :
        /\ E[x][y] \in Int
        /\ E[x][y] <= D[x][y]
        /\ D[x][c] # dbm_LS_INFINITY /\ D[c][y] # dbm_LS_INFINITY
             => /\ E[x][y] # dbm_LS_INFINITY
                /\ E[x][y] <= Sum(D[x][c], D[c][y])
        /\ \/ E[x][y] = D[x][y]
           \/ /\ D[x][c] # dbm_LS_INFINITY /\ D[c][y] # dbm_LS_INFINITY
              /\ E[x][y] = Sum(D[x][c], D[c][y])
  BY PassEntry
<1>3. \A x, y \in Int : Sum(x, y) \in Int
  BY AddParts
<1>4. \A x, y \in Clk : D[x][y] # dbm_LS_INFINITY => E[x][y] # dbm_LS_INFINITY
  BY <1>1, <1>2, Infinity
<1>5. \A m \in Clk : E[m][m] = dbm_LE_ZERO
  BY DEF ZeroDiagonal
<1>6. \A x, y, u, w \in Int : x <= u /\ y <= w => Sum(x, y) <= Sum(u, w)
  BY AddMonotone
<1>7. \A x, y, z \in Int : Sum(Sum(x, y), z) = Sum(x, Sum(y, z))
  BY AddAssociative
<1>11. \A x, y, z, u \in Int : Sum(x, y) <= u => Sum(Sum(x, y), z) <= Sum(u, z)
  BY DEF Sum, dbm_addFiniteFinite, dbm_rawIsWeak
<1>12. \A x, y, z, u \in Int : Sum(x, y) <= u => Sum(z, Sum(x, y)) <= Sum(z, u)
  BY DEF Sum, dbm_addFiniteFinite, dbm_rawIsWeak
<1>8. \A x \in Int : Sum(dbm_LE_ZERO, x) = x /\ Sum(x, dbm_LE_ZERO) = x
  BY AddZero
<1>13. \A x, y \in Clk : D[x][c] # dbm_LS_INFINITY /\ D[c][x] # dbm_LS_INFINITY
                           => dbm_LE_ZERO <= Sum(D[x][c], D[c][x])
  BY <1>2, <1>5
<1> HIDE DEF E, Sum
<1>9. CASE E[a][b] = D[a][b]
  <2>1. PICK K \in SUBSET (done \ {a, b}) : OnPath(D, a, b, K) /\ Fits(D[a][b], K)
    BY <1>9 DEF Spread
  <2>2. ASSUME NEW m \in K
        PROVE  /\ E[a][m] # dbm_LS_INFINITY /\ E[m][b] # dbm_LS_INFINITY
               /\ Sum(E[a][m], E[m][b]) <= E[a][b]
    <3>1. /\ m \in Clk /\ D[a][m] # dbm_LS_INFINITY /\ D[m][b] # dbm_LS_INFINITY
          /\ Sum(D[a][m], D[m][b]) <= D[a][b]
      BY <2>1 DEF OnPath, Sum
    <3>2. Sum(E[a][m], E[m][b]) <= Sum(D[a][m], D[m][b])
      BY <1>1, <1>2, <1>6, <3>1
    <3>3. /\ Sum(E[a][m], E[m][b]) \in Int /\ Sum(D[a][m], D[m][b]) \in Int
          /\ D[a][b] \in Int
      BY <1>1, <1>2, <1>3, <3>1
    <3> QED
      BY <1>4, <1>9, <3>1, <3>2, <3>3
  <2>3. OnPath(E, a, b, K)
    BY <2>2 DEF OnPath, Sum
  <2> QED
    BY <1>9, <2>1, <2>3
<1>10. CASE /\ D[a][c] # dbm_LS_INFINITY /\ D[c][b] # dbm_LS_INFINITY
            /\ E[a][b] = Sum(D[a][c], D[c][b]) /\ E[a][b] # D[a][b]
  <2>1. PICK K \in SUBSET (done \ {a, c}) : OnPath(D, a, c, K) /\ Fits(D[a][c], K)
    BY <1>10 DEF Spread
  <2>2. PICK L \in SUBSET (done \ {c, b}) : OnPath(D, c, b, L) /\ Fits(D[c][b], L)
    BY <1>10 DEF Spread
  <2>10. c # a /\ c # b
    <3>1. D[a][a] = dbm_LE_ZERO /\ D[b][b] = dbm_LE_ZERO
      BY DEF ZeroDiagonal
    <3> QED
      BY <1>1, <1>8, <1>10, <3>1
  <2>3. \A m \in K : /\ m \in Clk /\ D[a][m] # dbm_LS_INFINITY
                     /\ D[m][c] # dbm_LS_INFINITY
                     /\ Sum(D[a][m], D[m][c]) <= D[a][c]
    BY <2>1 DEF OnPath, Sum
  <2>4. \A m \in L : /\ m \in Clk /\ D[c][m] # dbm_LS_INFINITY
                     /\ D[m][b] # dbm_LS_INFINITY
                     /\ Sum(D[c][m], D[m][b]) <= D[c][b]
    BY <2>2 DEF OnPath, Sum
  <2>5. ASSUME NEW m \in K, m \in L PROVE FALSE
    <3> DEFINE am == D[a][m]
               mc == D[m][c]
               cm == D[c][m]
               mb == D[m][b]
    <3>1. /\ am \in Int /\ mc \in Int /\ cm \in Int /\ mb \in Int
          /\ D[a][c] \in Int /\ D[c][b] \in Int /\ D[a][b] \in Int /\ E[a][b] \in Int
          /\ E[a][b] <= D[a][b]
      BY <1>1, <1>2, <2>3, <2>5
    <3>2. dbm_LE_ZERO <= Sum(mc, cm)
      BY <1>2, <1>5, <2>3, <2>4, <2>5
    <3>3. D[a][b] <= Sum(am, mb)
      BY <2>3, <2>4, <2>5 DEF ShortcutVia, Sum
    <3>4. Sum(Sum(am, mc), Sum(cm, mb)) <= Sum(D[a][c], D[c][b])
      BY <1>3, <1>6, <2>3, <2>4, <2>5, <3>1
    <3> HIDE DEF am, mc, cm, mb
    <3>5. Sum(am, mb) <= Sum(Sum(am, mc), Sum(cm, mb))
      BY <3>1, <3>2, AddDetour DEF Sum
    <3>6. /\ Sum(am, mb) \in Int /\ Sum(Sum(am, mc), Sum(cm, mb)) \in Int
          /\ Sum(D[a][c], D[c][b]) \in Int
      BY <1>3, <3>1
    <3> QED
      BY <1>10, <3>1, <3>3, <3>4, <3>5, <3>6
  <2>11. b \notin K
    <3> SUFFICES ASSUME b \in K PROVE FALSE
      OBVIOUS
    <3> DEFINE ab == D[a][b]
               bc == D[b][c]
               cb == D[c][b]
    <3>1. /\ ab # dbm_LS_INFINITY /\ bc # dbm_LS_INFINITY
          /\ Sum(ab, bc) <= D[a][c]
      BY <2>3
    <3>2. /\ ab \in Int /\ bc \in Int /\ cb \in Int /\ D[a][c] \in Int /\ E[a][b] \in Int
          /\ E[a][b] <= ab
      BY <1>1, <1>2
    <3>3. dbm_LE_ZERO <= Sum(bc, cb)
      BY <1>10, <1>13, <3>1
    <3>4. E[a][b] = Sum(D[a][c], cb) /\ E[a][b] # ab
      BY <1>10
    <3> HIDE DEF ab, bc, cb
    <3>5. Sum(Sum(ab, bc), cb) <= Sum(D[a][c], cb)
      BY <1>11, <3>1, <3>2
    <3>6. Sum(ab, dbm_LE_ZERO) <= Sum(ab, Sum(bc, cb))
      <4>1. dbm_LE_ZERO \in Int
        BY Infinity
      <4>2. Sum(bc, cb) \in Int
        BY <1>3, <3>2
      <4>3. ab \in Int /\ ab <= ab
        BY <3>2
      <4> QED
        BY <1>6, <3>3, <4>1, <4>2, <4>3
    <3>7. Sum(ab, dbm_LE_ZERO) = ab /\ Sum(Sum(ab, bc), cb) = Sum(ab, Sum(bc, cb))
      BY <1>7, <1>8, <3>2
    <3>8. Sum(ab, Sum(bc, cb)) \in Int
      BY <1>3, <3>2
    <3> QED
      BY <3>2, <3>4, <3>5, <3>6, <3>7, <3>8
  <2>12. a \notin L
    <3> SUFFICES ASSUME a \in L PROVE FALSE
      OBVIOUS
    <3> DEFINE ab == D[a][b]
               ac == D[a][c]
               ca == D[c][a]
    <3>1. /\ ca # dbm_LS_INFINITY /\ ab # dbm_LS_INFINITY
          /\ Sum(ca, ab) <= D[c][b]
      BY <2>4
    <3>2. /\ ab \in Int /\ ac \in Int /\ ca \in Int /\ D[c][b] \in Int /\ E[a][b] \in Int
          /\ E[a][b] <= ab
      BY <1>1, <1>2
    <3>3. dbm_LE_ZERO <= Sum(ac, ca)
      BY <1>10, <1>13, <3>1
    <3>4. E[a][b] = Sum(ac, D[c][b]) /\ E[a][b] # ab
      BY <1>10
    <3> HIDE DEF ab, ac, ca
    <3>5. Sum(ac, Sum(ca, ab)) <= Sum(ac, D[c][b])
      BY <1>12, <3>1, <3>2
    <3>6. Sum(dbm_LE_ZERO, ab) <= Sum(Sum(ac, ca), ab)
      <4>1. dbm_LE_ZERO \in Int
        BY Infinity
      <4>2. Sum(ac, ca) \in Int
        BY <1>3, <3>2
      <4>3. ab \in Int /\ ab <= ab
        BY <3>2
      <4> QED
        BY <1>6, <3>3, <4>1, <4>2, <4>3
    <3>7. Sum(dbm_LE_ZERO, ab) = ab /\ Sum(Sum(ac, ca), ab) = Sum(ac, Sum(ca, ab))
      BY <1>7, <1>8, <3>2
    <3>8. Sum(ac, Sum(ca, ab)) \in Int
      BY <1>3, <3>2
    <3> QED
      BY <3>2, <3>4, <3>5, <3>6, <3>7, <3>8
  <2> DEFINE M == (K \cup {c}) \cup L
  <2>6. /\ M \in SUBSET ((done \cup {c}) \ {a, b})
        /\ Cardinality(K) \in Nat /\ Cardinality(L) \in Nat
        /\ Cardinality(M) = Cardinality(K) + 1 + Cardinality(L)
    <3>1. /\ IsFiniteSet(K) /\ IsFiniteSet(L)
          /\ Cardinality(K) \in Nat /\ Cardinality(L) \in Nat
      BY ClocksFinite
    <3>2. IsFiniteSet(K \cup {c}) /\ Cardinality(K \cup {c}) = Cardinality(K) + 1
      BY <3>1, FS_AddElement
    <3>3. (K \cup {c}) \cap L = {}
      BY <2>5
    <3>4. Cardinality((K \cup {c}) \cap L) = 0
      BY <3>3, FS_EmptySet
    <3>5. Cardinality(M) = Cardinality(K \cup {c}) + Cardinality(L)
                             - Cardinality((K \cup {c}) \cap L)
      BY <3>1, <3>2, FS_Union
    <3>6. a \notin M /\ b \notin M
      BY <2>10, <2>11, <2>12
    <3> QED
      BY <3>1, <3>2, <3>4, <3>5, <3>6
  <2>7. Fits(E[a][b], M)
    <3> DEFINE n == Cardinality(K) + 1
               m == Cardinality(L) + 1
    <3>1. n \in Nat /\ m \in Nat /\ Cardinality(M) + 1 = n + m
      BY <2>6
    <3>2. <<D[a][c], n>> \in W /\ <<D[c][b], m>> \in W
      BY <2>1, <2>2
    <3>3. D[a][c] \in Int /\ D[c][b] \in Int
      BY <1>1
    <3> HIDE DEF n, m, M
    <3>4. <<Sum(D[a][c], D[c][b]), n + m>> \in W
      BY <3>1, <3>2, <3>3 DEF Additive, Sum
    <3> QED
      BY <1>10, <3>1, <3>4
  <2>8. ASSUME NEW m \in M
        PROVE  /\ E[a][m] # dbm_LS_INFINITY /\ E[m][b] # dbm_LS_INFINITY
               /\ Sum(E[a][m], E[m][b]) <= E[a][b]
    <3>1. CASE m = c
      <4>1. Sum(E[a][c], E[c][b]) <= Sum(D[a][c], D[c][b])
        BY <1>1, <1>2, <1>6
      <4> QED
        BY <1>4, <1>10, <3>1, <4>1
    <3>2. CASE m \in K
      <4>1. /\ m \in Clk /\ E[a][m] <= D[a][m] /\ E[m][b] <= Sum(D[m][c], D[c][b])
            /\ E[a][m] # dbm_LS_INFINITY /\ E[m][b] # dbm_LS_INFINITY
        BY <1>2, <1>4, <1>10, <2>3, <3>2
      <4>2. /\ D[a][m] \in Int /\ D[m][c] \in Int /\ D[c][b] \in Int /\ D[a][c] \in Int
            /\ E[a][m] \in Int /\ E[m][b] \in Int
        BY <1>1, <1>2, <4>1
      <4>3. Sum(E[a][m], E[m][b]) <= Sum(D[a][m], Sum(D[m][c], D[c][b]))
        BY <1>3, <1>6, <4>1, <4>2
      <4>4. Sum(D[a][m], Sum(D[m][c], D[c][b])) <= Sum(D[a][c], D[c][b])
        <5>1. Sum(Sum(D[a][m], D[m][c]), D[c][b]) <= Sum(D[a][c], D[c][b])
          BY <1>11, <2>3, <3>2, <4>2
        <5> QED
          BY <1>7, <4>2, <5>1
      <4>5. /\ Sum(E[a][m], E[m][b]) \in Int /\ Sum(D[a][c], D[c][b]) \in Int
            /\ Sum(D[a][m], Sum(D[m][c], D[c][b])) \in Int
        BY <1>3, <4>2
      <4> QED
        BY <1>10, <4>1, <4>3, <4>4, <4>5
    <3>3. CASE m \in L
      <4>1. /\ m \in Clk /\ E[m][b] <= D[m][b] /\ E[a][m] <= Sum(D[a][c], D[c][m])
            /\ E[a][m] # dbm_LS_INFINITY /\ E[m][b] # dbm_LS_INFINITY
        BY <1>2, <1>4, <1>10, <2>4, <3>3
      <4>2. /\ D[m][b] \in Int /\ D[c][m] \in Int /\ D[c][b] \in Int /\ D[a][c] \in Int
            /\ E[a][m] \in Int /\ E[m][b] \in Int
        BY <1>1, <1>2, <4>1
      <4>3. Sum(E[a][m], E[m][b]) <= Sum(Sum(D[a][c], D[c][m]), D[m][b])
        BY <1>3, <1>6, <4>1, <4>2
      <4>4. Sum(Sum(D[a][c], D[c][m]), D[m][b]) <= Sum(D[a][c], D[c][b])
        <5>1. Sum(D[a][c], Sum(D[c][m], D[m][b])) <= Sum(D[a][c], D[c][b])
          BY <1>12, <2>4, <3>3, <4>2
        <5> QED
          BY <1>7, <4>2, <5>1
      <4>5. /\ Sum(E[a][m], E[m][b]) \in Int /\ Sum(D[a][c], D[c][b]) \in Int
            /\ Sum(Sum(D[a][c], D[c][m]), D[m][b]) \in Int
        BY <1>3, <4>2
      <4> QED
        BY <1>10, <4>1, <4>3, <4>4, <4>5
    <3> QED
      BY <3>1, <3>2, <3>3
  <2>9. OnPath(E, a, b, M)
    BY <2>8 DEF OnPath, Sum
  <2> HIDE DEF M
  <2> QED
    BY <2>6, <2>7, <2>9
<1> QED
  BY <1>2, <1>9, <1>10

=============================================================================

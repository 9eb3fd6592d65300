----------------------------- MODULE ZonesProofs ------------------------------
(***************************************************************************)
(* The theorems of Zones.  Every call leaves a closed matrix whose         *)
(* constants leave room for the next call, which is the inductive          *)
(* invariant; and what a call gives is, in clock valuations, what it       *)
(* should be.                                                              *)
(***************************************************************************)
EXTENDS Zones, ClosingLemmas

-----------------------------------------------------------------------------
(* The invariant. *)

\* The bound on the constants of a zone that is operated on, and on those of a result.
Before == 2 * MaxBound + 2
After == (dim + 2) * (2 * MaxBound + 3)

\* What the operations return: Empty, or a closed matrix whose constants are bounded.
Legal(E) == E = Empty \/ IsZone(E, After)

\* The two bounds are numbers, and leave the room that the operations need.
LEMMA Bounds ==
  /\ Before \in Nat /\ After \in Nat /\ MaxBound \in Nat
  /\ 2 * Before <= After /\ Before + 1 <= After /\ 3 * Before <= After /\ Before <= After
  /\ (dim + 2) * Before <= After /\ (dim + 2) * (Before + 1) = After
  /\ (dim + 2) * Before \in Nat /\ 3 * Before \in Nat
  /\ After <= dbm_LE_OVERFLOW /\ Before < dbm_LE_OVERFLOW
  /\ (dim + 2) * (Before + 1) <= dbm_LE_OVERFLOW /\ (dim + 2) * Before <= dbm_LE_OVERFLOW
  /\ 2 * Before <= dbm_LE_OVERFLOW /\ 3 * Before <= dbm_LE_OVERFLOW
  /\ dbm_LE_ZERO < Before
<1>1. MaxBound \in Nat /\ dim \in Nat /\ dim >= 1
  BY BoundsAssumption, DimAssumption
<1>2. Before \in Nat /\ Before + 1 \in Nat /\ dim + 2 \in Nat /\ 2 <= Before
      /\ After = (dim + 2) * (Before + 1) /\ Before + 1 = 2 * MaxBound + 3
  BY <1>1 DEF Before, After
<1>3. (dim + 2) * Before \in Nat /\ 3 * (Before + 1) \in Nat /\ After \in Nat
  BY <1>2
<1>4. (dim + 2) * Before <= After
  <2>1. Before * (dim + 2) <= (Before + 1) * (dim + 2)
    BY <1>2, Multiples
  <2> QED
    BY <2>1, <1>2
<1>5. 3 * (Before + 1) <= After
  BY <1>1, <1>2, Multiples
<1>6. After <= dbm_LE_OVERFLOW
  BY RoomAssumption DEF After
<1> QED
  BY <1>1, <1>2, <1>3, <1>4, <1>5, <1>6, Infinity

\* A valid matrix of the program whose constants are in bounds is a zone to operate on.
LEMMA ValidIsZone ==
  ASSUME NEW D \in Matrix, dbm_isValid(D), dbm_isDiagonalOK(D), InBounds(D)
  PROVE  IsZone(D, Before)
<1>1. \A i, j \in Clk : /\ D[i][j] \in Int /\ D[i][j] <= dbm_LS_INFINITY
                        /\ D[i][j] # dbm_LS_INFINITY => D[i][j] < dbm_LE_OVERFLOW
  BY Infinity DEF Matrix, Raw, dbm_isValidRaw
<1>2. D = [i \in Clk |-> [j \in Clk |-> D[i][j]]]
  BY DEF Matrix
<1>3. \A i, j \in Clk : D[i][j] # dbm_LS_INFINITY => -Before < D[i][j] /\ D[i][j] < Before
  <2> SUFFICES ASSUME NEW i \in Clk, NEW j \in Clk, D[i][j] # dbm_LS_INFINITY
               PROVE  -Before < D[i][j] /\ D[i][j] < Before
    OBVIOUS
  <2> DEFINE x == D[i][j]
  <2>1. x \in Int /\ x \div 2 \in Int /\ -MaxBound <= x \div 2 /\ x \div 2 <= MaxBound
    BY <1>1, Bounds DEF InBounds, dbm_raw2bound
  <2> HIDE DEF x
  <2>2. 2 * (x \div 2) <= x /\ x <= 2 * (x \div 2) + 1
    BY <2>1
  <2>3. -Before < x /\ x < Before
    BY <2>1, <2>2, Bounds DEF Before
  <2> QED
    BY <2>3 DEF x
<1>4. \A i \in Clk : D[i][i] = dbm_LE_ZERO
  <2> SUFFICES ASSUME NEW i \in Clk PROVE D[i][i] = dbm_LE_ZERO
    OBVIOUS
  <2>1. ~(D[i][i] < dbm_LE_ZERO) /\ D[i][i] <= dbm_LE_ZERO
    BY DEF dbm_isValid, dbm_isEmpty, dbm_isDiagonalOK
  <2> QED
    BY <2>1, <1>1, Infinity
<1>5. \A j \in Clk : D[0][j] <= dbm_LE_ZERO
  BY DEF dbm_isValid
<1>6. \A i, k, j \in Clk :
        D[i][k] # dbm_LS_INFINITY /\ D[k][j] # dbm_LS_INFINITY
          => /\ D[i][j] # dbm_LS_INFINITY
             /\ D[i][j] <= dbm_addFiniteFinite(D[i][k], D[k][j])
  <2> SUFFICES ASSUME NEW i \in Clk, NEW k \in Clk, NEW j \in Clk,
                      D[i][k] # dbm_LS_INFINITY, D[k][j] # dbm_LS_INFINITY
               PROVE  /\ D[i][j] # dbm_LS_INFINITY
                      /\ D[i][j] <= dbm_addFiniteFinite(D[i][k], D[k][j])
    OBVIOUS
  <2>1. D[i][k] < dbm_LE_OVERFLOW /\ D[k][j] < dbm_LE_OVERFLOW
        /\ D[i][k] \in Int /\ D[k][j] \in Int /\ D[i][j] \in Int
    BY <1>1
  <2>2. D[i][j] <= dbm_addFiniteFinite(D[i][k], D[k][j])
    BY <2>1, Infinity DEF dbm_isValid, dbm_isClosed, TightVia
  <2>3. dbm_addFiniteFinite(D[i][k], D[k][j]) < dbm_LS_INFINITY
        /\ dbm_addFiniteFinite(D[i][k], D[k][j]) \in Int
    BY <2>1, Infinity DEF dbm_addFiniteFinite
  <2> QED
    BY <2>1, <2>2, <2>3, Infinity
<1> QED
  BY <1>1, <1>2, <1>3, <1>4, <1>5, <1>6, ZoneFromEntries

\* A zone whose constants leave room is a valid matrix of the program, and not empty.
LEMMA ZoneIsValid ==
  ASSUME NEW D, IsZone(D, After)
  PROVE  D \in Matrix /\ dbm_isValid(D) /\ D # Empty
<1>1. /\ \A i, j \in Clk : D[i][j] \in Int /\ D[i][j] <= dbm_LS_INFINITY
      /\ \A i, j \in Clk : D[i][j] # dbm_LS_INFINITY => -After < D[i][j] /\ D[i][j] < After
      /\ \A i \in Clk : D[i][i] = dbm_LE_ZERO
      /\ \A j \in Clk : D[0][j] <= dbm_LE_ZERO
      /\ \A i, k, j \in Clk : D[i][k] # dbm_LS_INFINITY /\ D[k][j] # dbm_LS_INFINITY
           => /\ D[i][j] # dbm_LS_INFINITY
              /\ D[i][j] <= dbm_addFiniteFinite(D[i][k], D[k][j])
  BY ZoneEntries
<1>2. \A i, j \in Clk : D[i][j] \in Raw
  BY <1>1, Bounds, Infinity DEF Raw, dbm_isValidRaw
<1>3. D \in Matrix
  BY <1>2 DEF IsZone, WideMatrix, Matrix
<1>4. dbm_isClosed(D)
  BY <1>1, Infinity DEF dbm_isClosed, TightVia
<1>5. ~dbm_isEmpty(D)
  BY <1>1, Infinity DEF dbm_isEmpty
<1>6. D # Empty
  BY EmptyIsNegative DEF IsZone, Closed
<1> QED
  BY <1>1, <1>3, <1>4, <1>5, <1>6 DEF dbm_isValid

\* Every zone that operations take as a second operand is one to operate on.
LEMMA OthersAreZones ==
  ASSUME NEW S \in Others
  PROVE  IsZone(S, Before)
BY OthersAssumption, ValidIsZone

\* A zone with smaller constants than a legal one is legal.
LEMMA LegalWithin ==
  ASSUME NEW E, NEW A \in Int, A <= After, E = Empty \/ IsZone(E, A)
  PROVE  Legal(E)
BY Bounds, ZoneWithin DEF Legal

\* The pieces of a constraint that is applied are within bounds.
LEMMA ConstraintBounds ==
  ASSUME NEW c \in Constraints
  PROVE  IsConstraint(c, Before)
<1>1. c.i \in Clk /\ c.j \in Clk /\ c.i # c.j /\ c.value \in Raws
  BY DEF Constraints
<1>2. c.value \in -(2 * MaxBound) .. 2 * MaxBound + 1
  BY <1>1, RawsAssumption
<1> QED
  BY <1>1, <1>2, Bounds DEF Before, IsConstraint

\* dbm_constrain1: the result is legal, and has the valuations that satisfy c.
LEMMA Constrain1Result ==
  ASSUME NEW D, IsZone(D, Before), NEW c \in Constraints
  PROVE  LET E == dbm_constrain1(D, c)
         IN  /\ Legal(E)
             /\ \A pt \in [Clk -> Int] :
                  In(pt, E) <=> In(pt, D) /\ Within(pt[c.i] - pt[c.j], c.value, Grid)
<1> DEFINE E == dbm_constrain1(D, c)
           T == IF D[c.i][c.j] <= c.value THEN D ELSE [D EXCEPT ![c.i][c.j] = c.value]
<1>1. c.i \in Clk /\ c.j \in Clk /\ c.i # c.j
      /\ c.value \in Int /\ -Before < c.value /\ c.value < Before
  BY ConstraintBounds DEF IsConstraint
<1>2. ClosureOf(E, T, 3 * Before)
  BY <1>1, Bounds, Constrain1Closes
<1>3. \A pt \in [Clk -> Int] :
        dbm_isRealPointIncluded(pt, T, Grid)
          <=> dbm_isRealPointIncluded(pt, D, Grid)
              /\ Within(pt[c.i] - pt[c.j], c.value, Grid)
  BY <1>1, BoundsAssumption, TightenedEntryPoints DEF IsZone
<1> HIDE DEF E, T
<1>4. Legal(E)
  BY <1>2, Bounds, LegalWithin DEF ClosureOf
<1>5. \A pt \in [Clk -> Int] :
        dbm_isRealPointIncluded(pt, E, Grid) <=> dbm_isRealPointIncluded(pt, T, Grid)
  BY <1>2, BoundsAssumption DEF ClosureOf, SamePoints
<1>6. \A pt \in [Clk -> Int] :
        In(pt, E) <=> In(pt, D) /\ Within(pt[c.i] - pt[c.j], c.value, Grid)
  BY <1>3, <1>5 DEF In
<1> QED
  BY <1>4, <1>6 DEF E

\* dbm_constrainN, or dbm_constrain in turn: the result is legal, and has the valuations
\* that satisfy c and d.
LEMMA ConstrainTwoResult ==
  ASSUME NEW D, IsZone(D, Before), NEW c \in Pairs, NEW d \in Pairs,
         NEW E, E = dbm_constrainN(D, <<c, d>>) \/ E = dbm_constrainThenClose(D, <<c, d>>)
  PROVE  LET cs == <<c, d>>
         IN  /\ Legal(E)
             /\ \A pt \in [Clk -> Int] :
                  In(pt, E)
                    <=> /\ In(pt, D)
                        /\ \A n \in DOMAIN cs :
                             Within(pt[cs[n].i] - pt[cs[n].j], cs[n].value, Grid)
<1> DEFINE cs == <<c, d>>
<1>1. Len(cs) = 2 /\ DOMAIN cs = 1 .. 2 /\ cs[1] = c /\ cs[2] = d
  OBVIOUS
<1>2. IsConstraint(c, Before) /\ IsConstraint(d, Before)
  BY PairsAssumption, ConstraintBounds
<1>3. \A n \in 1 .. Len(cs) : IsConstraint(cs[n], Before)
  BY <1>1, <1>2
<1>4. Len(cs) \in Nat /\ DOMAIN cs = 1 .. Len(cs)
  BY <1>1
<1>5. E = dbm_constrainN(D, cs) \/ E = dbm_constrainThenClose(D, cs)
  OBVIOUS
<1> HIDE DEF cs
<1>6. /\ E = Empty \/ IsZone(E, (dim + 2) * Before)
      /\ \A pt \in [Clk -> Int], g \in Nat \ {0} :
           dbm_isRealPointIncluded(pt, E, g) <=> Satisfies(pt, g, D, cs, Len(cs))
  BY <1>3, <1>4, <1>5, Bounds, ConstrainCloses
<1>7. Legal(E)
  BY <1>6, Bounds, LegalWithin
<1>8. \A pt \in [Clk -> Int] :
        In(pt, E)
          <=> /\ In(pt, D)
              /\ \A n \in DOMAIN cs :
                   Within(pt[cs[n].i] - pt[cs[n].j], cs[n].value, Grid)
  BY <1>4, <1>6, BoundsAssumption DEF In, Satisfies
<1> QED
  BY <1>7, <1>8 DEF cs

\* The valuations within a matrix with row-column pair (clock, 0) set to a value.
LEMMA AtValuePoints ==
  ASSUME NEW D \in WideMatrix, NEW k \in Clk \ {0}, NEW v \in Int, v <= MaxBound,
         -v <= MaxBound, NEW pt \in [Clk -> Int], pt[0] = 0
  PROVE  In(pt, AtValue(D, k, v)) <=> In(pt, D) /\ pt[k] = v * Grid
<1> DEFINE E == AtValue(D, k, v)
           u == dbm_bound2raw(v, dbm_WEAK)
           l == dbm_bound2raw(-v, dbm_WEAK)
<1>1. /\ \A i, j \in Clk : D[i][j] \in Int
      /\ 0 \in Clk /\ k \in Clk /\ Grid \in Nat /\ Grid # 0
      /\ u \in Int /\ l \in Int /\ u < dbm_LS_INFINITY /\ l < dbm_LS_INFINITY
  BY WideEntry, BoundsAssumption, DimAssumption, Bounds, Infinity
     DEF Clk, dbm_bound2raw, dbm_WEAK, Before
<1>2. Within(pt[k] - pt[0], u, Grid) <=> pt[k] <= v * Grid
  <2>1. dbm_rawIsWeak(u) /\ dbm_raw2bound(u) = v
    BY DEF dbm_rawIsWeak, dbm_raw2bound, dbm_bound2raw, dbm_WEAK
  <2>2. v * Grid \in Int /\ pt[k] - pt[0] = pt[k] /\ pt[k] \in Int
    BY <1>1
  <2> HIDE DEF u
  <2> QED
    BY <1>1, <2>1, <2>2, Infinity DEF Within
<1>3. Within(pt[0] - pt[k], l, Grid) <=> v * Grid <= pt[k]
  <2>1. dbm_rawIsWeak(l) /\ dbm_raw2bound(l) = -v
    BY DEF dbm_rawIsWeak, dbm_raw2bound, dbm_bound2raw, dbm_WEAK
  <2>2. v * Grid \in Int /\ pt[0] - pt[k] = -pt[k] /\ pt[k] \in Int /\ (-v) * Grid = -(v * Grid)
    BY <1>1
  <2> HIDE DEF l
  <2> QED
    BY <1>1, <2>1, <2>2, Infinity DEF Within
<1> HIDE DEF u, l
<1>4. \A i, j \in Clk : E[i][j] = IF i = k /\ j = 0 THEN RawMin(D[k][0], u)
                                 ELSE IF i = 0 /\ j = k THEN RawMin(D[0][k], l)
                                 ELSE D[i][j]
  BY DEF AtValue, u, l
<1> HIDE DEF E
<1>5. \A i, j \in Clk :
        Within(pt[i] - pt[j], E[i][j], Grid)
          <=> /\ Within(pt[i] - pt[j], D[i][j], Grid)
              /\ i = k /\ j = 0 => Within(pt[k] - pt[0], u, Grid)
              /\ i = 0 /\ j = k => Within(pt[0] - pt[k], l, Grid)
  <2> SUFFICES ASSUME NEW i \in Clk, NEW j \in Clk
               PROVE  Within(pt[i] - pt[j], E[i][j], Grid)
                        <=> /\ Within(pt[i] - pt[j], D[i][j], Grid)
                            /\ i = k /\ j = 0 => Within(pt[k] - pt[0], u, Grid)
                            /\ i = 0 /\ j = k => Within(pt[0] - pt[k], l, Grid)
    OBVIOUS
  <2>1. k # 0 /\ pt[i] - pt[j] \in Int /\ D[i][j] \in Int /\ Grid \in Nat \ {0}
    BY <1>1
  <2>2. CASE i = k /\ j = 0
    <3>1. E[i][j] = RawMin(D[i][j], u)
      BY <1>4, <2>2
    <3>2. Within(pt[i] - pt[j], RawMin(D[i][j], u), Grid)
            <=> Within(pt[i] - pt[j], D[i][j], Grid) /\ Within(pt[i] - pt[j], u, Grid)
      BY <1>1, <2>1, WithinMin
    <3> QED
      BY <2>1, <2>2, <3>1, <3>2
  <2>3. CASE i = 0 /\ j = k
    <3>1. E[i][j] = RawMin(D[i][j], l)
      BY <1>4, <2>1, <2>3
    <3>2. Within(pt[i] - pt[j], RawMin(D[i][j], l), Grid)
            <=> Within(pt[i] - pt[j], D[i][j], Grid) /\ Within(pt[i] - pt[j], l, Grid)
      BY <1>1, <2>1, WithinMin
    <3> QED
      BY <2>1, <2>3, <3>1, <3>2
  <2>4. CASE ~(i = k /\ j = 0) /\ ~(i = 0 /\ j = k)
    <3>1. E[i][j] = D[i][j]
      BY <1>4, <2>4
    <3> QED
      BY <2>4, <3>1
  <2> QED
    BY <2>2, <2>3, <2>4
<1>6. In(pt, E) <=> /\ In(pt, D) /\ Within(pt[k] - pt[0], u, Grid)
                    /\ Within(pt[0] - pt[k], l, Grid)
  BY <1>1, <1>5 DEF In, dbm_isRealPointIncluded
<1>7. v * Grid \in Int /\ pt[k] \in Int
  BY <1>1
<1> QED
  BY <1>2, <1>3, <1>6, <1>7 DEF E

\* dbm_constrainClock: the result is legal, and has the valuations with k at v.
LEMMA ConstrainClockResult ==
  ASSUME NEW D, IsZone(D, Before), NEW k \in Clocks, NEW v \in Times, v >= 0
  PROVE  LET E == dbm_constrainClock(D, k, v)
         IN  /\ Legal(E)
             /\ \A pt \in [Clk -> Int] : pt[0] = 0 =>
                  (In(pt, E) <=> In(pt, D) /\ pt[k] = v * Grid)
<1> DEFINE E == dbm_constrainClock(D, k, v)
<1>1. k \in Clk /\ k # 0 /\ v \in Int /\ v <= MaxBound /\ 0 <= v
  BY TimesAssumption, Bounds DEF Clocks
<1>2. -Before < 2 * v /\ 2 * v + 1 < Before /\ -Before < -(2 * v) /\ 1 - 2 * v < Before
  BY <1>1, Bounds DEF Before
<1>3. ClosureOf(E, AtValue(D, k, v), (dim + 2) * Before)
  BY <1>1, <1>2, Bounds, ConstrainClockCloses
<1>4. \A pt \in [Clk -> Int] : pt[0] = 0 =>
        (In(pt, AtValue(D, k, v)) <=> In(pt, D) /\ pt[k] = v * Grid)
  BY <1>1, Bounds, AtValuePoints DEF IsZone
<1> HIDE DEF E
<1>5. Legal(E)
  BY <1>3, Bounds, LegalWithin DEF ClosureOf
<1>6. \A pt \in [Clk -> Int] : In(pt, E) <=> In(pt, AtValue(D, k, v))
  BY <1>3, BoundsAssumption DEF ClosureOf, SamePoints, In
<1>7. \A pt \in [Clk -> Int] : pt[0] = 0 =>
        (In(pt, E) <=> In(pt, D) /\ pt[k] = v * Grid)
  BY <1>4, <1>6
<1> QED
  BY <1>5, <1>7 DEF E

\* dbm_intersection: the result is legal, and has the common valuations.
LEMMA IntersectionResult ==
  ASSUME NEW D, IsZone(D, Before), NEW S \in Others
  PROVE  LET E == dbm_intersection(D, S)
         IN  /\ Legal(E)
             /\ \A pt \in [Clk -> Int] : In(pt, E) <=> In(pt, D) /\ In(pt, S)
<1> DEFINE E == dbm_intersection(D, S)
<1>1. /\ E = Empty \/ IsZone(E, (dim + 2) * Before)
      /\ \A pt \in [Clk -> Int], g \in Nat \ {0} :
           dbm_isRealPointIncluded(pt, E, g)
             <=> dbm_isRealPointIncluded(pt, D, g) /\ dbm_isRealPointIncluded(pt, S, g)
  BY OthersAreZones, Bounds, IntersectionCloses
<1> HIDE DEF E
<1>2. Legal(E)
  BY <1>1, Bounds, LegalWithin
<1>3. \A pt \in [Clk -> Int] : In(pt, E) <=> In(pt, D) /\ In(pt, S)
  BY <1>1, BoundsAssumption DEF In
<1> QED
  BY <1>2, <1>3 DEF E

\* dbm_relaxedIntersection: the same of the weak versions of the zones.
LEMMA RelaxedIntersectionResult ==
  ASSUME NEW D, IsZone(D, Before), NEW S \in Others
  PROVE  LET E == dbm_relaxedIntersection(D, S)
         IN  /\ Legal(E)
             /\ \A pt \in [Clk -> Int] :
                  In(pt, E) <=> In(pt, Weakened(D)) /\ In(pt, Weakened(S))
<1> DEFINE E == dbm_relaxedIntersection(D, S)
<1>1. /\ E = Empty \/ IsZone(E, (dim + 2) * (Before + 1))
      /\ \A pt \in [Clk -> Int], g \in Nat \ {0} :
           dbm_isRealPointIncluded(pt, E, g)
             <=> /\ dbm_isRealPointIncluded(pt, Weakened(D), g)
                 /\ dbm_isRealPointIncluded(pt, Weakened(S), g)
  BY OthersAreZones, Bounds, RelaxedIntersectionCloses
<1> HIDE DEF E
<1>2. Legal(E)
  BY <1>1, Bounds DEF Legal
<1>3. \A pt \in [Clk -> Int] :
        In(pt, E) <=> In(pt, Weakened(D)) /\ In(pt, Weakened(S))
  BY <1>1, BoundsAssumption DEF In
<1> QED
  BY <1>2, <1>3 DEF E

\* dbm_tightenDown: the result is legal, and strictly above the lower bounds.
LEMMA TightenDownResult ==
  ASSUME NEW D, IsZone(D, Before)
  PROVE  LET E == dbm_tightenDown(D)
         IN  /\ Legal(E)
             /\ \A pt \in [Clk -> Int] : pt[0] = 0 =>
                  (In(pt, E) <=> /\ In(pt, D)
                                 /\ \A k \in Clocks :
                                      Within(-pt[k], dbm_strictRaw(D[0][k]), Grid))
<1> DEFINE E == dbm_tightenDown(D)
<1>1. /\ E = Empty \/ IsZone(E, (dim + 2) * (Before + 1))
      /\ \A pt \in [Clk -> Int], g \in Nat \ {0} :
           dbm_isRealPointIncluded(pt, E, g)
             <=> /\ dbm_isRealPointIncluded(pt, D, g)
                 /\ \A k \in Clk \ {0} : Within(pt[0] - pt[k], dbm_strictRaw(D[0][k]), g)
  BY Bounds, TightenDownCloses
<1> HIDE DEF E
<1>2. Legal(E)
  BY <1>1, Bounds DEF Legal
<1>3. \A pt \in [Clk -> Int] : pt[0] = 0 => \A k \in Clk \ {0} : pt[0] - pt[k] = -pt[k]
  OBVIOUS
<1>4. \A pt \in [Clk -> Int] : pt[0] = 0 =>
        (In(pt, E) <=> /\ In(pt, D)
                       /\ \A k \in Clocks :
                            Within(-pt[k], dbm_strictRaw(D[0][k]), Grid))
  <2> SUFFICES ASSUME NEW pt \in [Clk -> Int], pt[0] = 0
               PROVE  In(pt, E) <=> /\ In(pt, D)
                                    /\ \A k \in Clocks :
                                         Within(-pt[k], dbm_strictRaw(D[0][k]), Grid)
    OBVIOUS
  <2>1. \A k \in Clk \ {0} : pt[0] - pt[k] = -pt[k]
    BY <1>3
  <2>2. In(pt, E) <=> /\ In(pt, D)
                      /\ \A k \in Clk \ {0} :
                           Within(pt[0] - pt[k], dbm_strictRaw(D[0][k]), Grid)
    BY <1>1, BoundsAssumption DEF In
  <2> QED
    BY <2>1, <2>2 DEF Clocks
<1> QED
  BY <1>2, <1>4 DEF E

\* dbm_tightenUp: the result is legal, and strictly below the upper bounds.
LEMMA TightenUpResult ==
  ASSUME NEW D, IsZone(D, Before)
  PROVE  LET E == dbm_tightenUp(D)
         IN  /\ Legal(E)
             /\ \A pt \in [Clk -> Int] : pt[0] = 0 =>
                  (In(pt, E) <=> /\ In(pt, D)
                                 /\ \A k \in Clocks :
                                      Within(pt[k], dbm_strictRaw(D[k][0]), Grid))
<1> DEFINE E == dbm_tightenUp(D)
<1>1. /\ E = Empty \/ IsZone(E, (dim + 2) * (Before + 1))
      /\ \A pt \in [Clk -> Int], g \in Nat \ {0} :
           dbm_isRealPointIncluded(pt, E, g)
             <=> /\ dbm_isRealPointIncluded(pt, D, g)
                 /\ \A k \in Clk \ {0} : Within(pt[k] - pt[0], dbm_strictRaw(D[k][0]), g)
  BY Bounds, TightenUpCloses
<1> HIDE DEF E
<1>2. Legal(E)
  BY <1>1, Bounds DEF Legal
<1>3. \A pt \in [Clk -> Int] : pt[0] = 0 => \A k \in Clk \ {0} : pt[k] - pt[0] = pt[k]
  OBVIOUS
<1>4. \A pt \in [Clk -> Int] : pt[0] = 0 =>
        (In(pt, E) <=> /\ In(pt, D)
                       /\ \A k \in Clocks :
                            Within(pt[k], dbm_strictRaw(D[k][0]), Grid))
  <2> SUFFICES ASSUME NEW pt \in [Clk -> Int], pt[0] = 0
               PROVE  In(pt, E) <=> /\ In(pt, D)
                                    /\ \A k \in Clocks :
                                         Within(pt[k], dbm_strictRaw(D[k][0]), Grid)
    OBVIOUS
  <2>1. \A k \in Clk \ {0} : pt[k] - pt[0] = pt[k]
    BY <1>3
  <2>2. In(pt, E) <=> /\ In(pt, D)
                      /\ \A k \in Clk \ {0} :
                           Within(pt[k] - pt[0], dbm_strictRaw(D[k][0]), Grid)
    BY <1>1, BoundsAssumption DEF In
  <2> QED
    BY <2>1, <2>2 DEF Clocks
<1> QED
  BY <1>2, <1>4 DEF E

\* Delay keeps a zone, with clocks stopped or not.
LEMMA DelayLegal ==
  ASSUME NEW D, IsZone(D, Before)
  PROVE  /\ Legal(dbm_up(D)) /\ Legal(dbm_down(D))
         /\ \A stopped \in SUBSET Clocks :
              Legal(dbm_up_stop(D, stopped)) /\ Legal(dbm_down_stop(D, stopped))
<1>1. Legal(dbm_up(D)) /\ Legal(dbm_down(D))
  BY Bounds, UpIsZone, DownIsZone, ZoneWithin DEF Legal
<1>2. \A stopped \in SUBSET Clocks :
        Legal(dbm_up_stop(D, stopped)) /\ Legal(dbm_down_stop(D, stopped))
  BY Bounds, UpStopIsZone, DownStopIsZone, ZoneWithin DEF Legal, Clocks
<1> QED
  BY <1>1, <1>2

\* So does forgetting what is known of clocks.
LEMMA FreeLegal ==
  ASSUME NEW D, IsZone(D, Before)
  PROVE  /\ \A k \in Clocks : /\ Legal(dbm_freeClock(D, k)) /\ Legal(dbm_freeUp(D, k))
                              /\ Legal(dbm_freeDown(D, k))
         /\ Legal(dbm_freeAllUp(D)) /\ Legal(dbm_freeAllDown(D))
<1>1. \A k \in Clocks : Legal(dbm_freeClock(D, k))
  BY Bounds, FreeClockIsZone, ZoneWithin DEF Legal, Clocks
<1>2. \A k \in Clocks : Legal(dbm_freeUp(D, k))
  BY Bounds, FreeUpIsZone, ZoneWithin DEF Legal, Clocks
<1>3. \A k \in Clocks : Legal(dbm_freeDown(D, k))
  BY Bounds, FreeDownIsZone, ZoneWithin DEF Legal, Clocks
<1>4. Legal(dbm_freeAllUp(D)) /\ Legal(dbm_freeAllDown(D))
  BY Bounds, FreeAllUpIsZone, FreeAllDownIsZone, ZoneWithin DEF Legal
<1> QED
  BY <1>1, <1>2, <1>3, <1>4

\* The zone without constraints and the origin are zones to operate on.
LEMMA InitBefore ==
  IsZone(dbm_init, Before) /\ IsZone(dbm_zero, Before)
BY Bounds, InitAndZeroAreZones

\* Updates of clocks keep a zone, as long as no clock becomes negative.
LEMMA UpdateLegal ==
  ASSUME NEW D, IsZone(D, Before)
  PROVE  /\ \A k \in Clocks, v \in Times : v >= 0 => Legal(dbm_updateValue(D, k, v))
         /\ \A i, j \in Clocks, v \in Times :
              dbm_raw2bound(D[0][j]) <= v => Legal(dbm_update(D, i, j, v))
         /\ \A x, y \in Clocks : Legal(dbm_swapClocks(D, x, y))
<1>1. \A v \in Times : v \in Int /\ -Before <= 2 * v /\ 2 * v <= Before
  BY TimesAssumption, Bounds DEF Before
<1>2. \A k \in Clocks, v \in Times : v >= 0 => Legal(dbm_updateValue(D, k, v))
  <2> SUFFICES ASSUME NEW k \in Clocks, NEW v \in Times, v >= 0
               PROVE  Legal(dbm_updateValue(D, k, v))
    OBVIOUS
  <2>1. v \in Nat /\ 2 * v <= Before /\ k \in Clk \ {0}
    BY <1>1 DEF Clocks
  <2>2. IsZone(dbm_updateValue(D, k, v), 2 * Before)
    BY <2>1, Bounds, UpdateValueIsZone
  <2> QED
    BY <2>2, Bounds, ZoneWithin DEF Legal
<1>3. \A i, j \in Clocks, v \in Times :
        dbm_raw2bound(D[0][j]) <= v => Legal(dbm_update(D, i, j, v))
  <2> SUFFICES ASSUME NEW i \in Clocks, NEW j \in Clocks, NEW v \in Times,
                      dbm_raw2bound(D[0][j]) <= v
               PROVE  Legal(dbm_update(D, i, j, v))
    OBVIOUS
  <2>1. i \in Clk \ {0} /\ j \in Clk \ {0}
    BY DEF Clocks
  <2>2. IsZone(dbm_update(D, i, j, v), 2 * Before)
    BY <1>1, <2>1, Bounds, UpdateIsZone
  <2> QED
    BY <2>2, Bounds, ZoneWithin DEF Legal
<1>4. \A x, y \in Clocks : Legal(dbm_swapClocks(D, x, y))
  BY Bounds, SwapClocksIsZone, ZoneWithin DEF Legal, Clocks
<1> QED
  BY <1>2, <1>3, <1>4

\* Changes of the set of clocks keep a zone.
LEMMA ClocksLegal ==
  ASSUME NEW D, IsZone(D, Before)
  PROVE  /\ \A src, dst \in ActiveSets : Legal(dbm_shrinkExpand(D, src, dst))
         /\ \A cols \in [Clk -> Clk \cup {NoCol}] :
              cols[0] = 0 => Legal(dbm_updateDBM(D, cols))
<1>1. \A src, dst \in ActiveSets : Legal(dbm_shrinkExpand(D, src, dst))
  BY Bounds, ShrinkExpandIsZone, ZoneWithin DEF Legal, ActiveSets
<1>2. \A cols \in [Clk -> Clk \cup {NoCol}] : cols[0] = 0 => Legal(dbm_updateDBM(D, cols))
  BY Bounds, UpdateDBMIsZone, ZoneWithin DEF Legal
<1> QED
  BY <1>1, <1>2

\* Loosening bounds keeps a zone.
LEMMA LooseningLegal ==
  ASSUME NEW D, IsZone(D, Before)
  PROVE  /\ \A S \in Others : Legal(dbm_convexUnion(D, S))
         /\ Legal(dbm_relaxAll(D))
         /\ \A k \in Clk : Legal(dbm_relaxDownClock(D, k)) /\ Legal(dbm_relaxUpClock(D, k))
<1>1. \A S \in Others : Legal(dbm_convexUnion(D, S))
  BY Bounds, OthersAreZones, ConvexUnionIsZone, ZoneWithin DEF Legal
<1>2. Legal(dbm_relaxAll(D))
  BY Bounds, WeakenedIsZone, ZoneWithin DEF Legal, dbm_relaxAll
<1>3. \A k \in Clk : Legal(dbm_relaxDownClock(D, k)) /\ Legal(dbm_relaxUpClock(D, k))
  BY Bounds, RelaxDownIsZone, RelaxUpIsZone, ZoneWithin DEF Legal
<1> QED
  BY <1>1, <1>2, <1>3

\* The inductive invariant: the zone that is operated on, and the matrix that the call
\* returned, are closed with bounded constants, and ret tells whether there is one.
Inv ==
  /\ IsZone(zone, Before) /\ InBounds(zone)
  /\ Legal(dbm)
  /\ ret = (dbm # Empty)

\* The constants of the zone without constraints are in bounds.
LEMMA InitInBounds == InBounds(dbm_init)
<1>1. \A i, j \in Clk : dbm_init[i][j] = dbm_LE_ZERO \/ dbm_init[i][j] = dbm_LS_INFINITY
  BY DEF dbm_init
<1>2. dbm_raw2bound(dbm_LE_ZERO) = 0
  BY Infinity DEF dbm_raw2bound
<1>3. 0 \in -MaxBound .. MaxBound
  BY BoundsAssumption
<1> QED
  BY <1>1, <1>2, <1>3 DEF InBounds

\* Initially.
LEMMA InitInv == Init => Inv
<1> SUFFICES ASSUME Init PROVE Inv
  OBVIOUS
<1>1. IsZone(dbm_init, Before) /\ IsZone(dbm_init, After)
  BY InitBefore, Bounds, ZoneWithin
<1>2. dbm_init # Empty
  BY <1>1, ZoneIsValid
<1> QED
  BY <1>1, <1>2, InitInBounds DEF Init, Inv, Legal

\* A call whose result is legal.
LEMMA CallKeeps ==
  ASSUME Inv, NEW c, NEW E, Call(c, E), Legal(E)
  PROVE  Inv'
BY DEF Inv, Call

\* Return hands the matrix on only when there is one and its constants are in bounds.
LEMMA ReturnKeeps ==
  ASSUME Inv, Return
  PROVE  Inv'
<1>1. IsZone(dbm_init, Before)
  BY InitBefore
<1>2. IsZone(zone', Before) /\ InBounds(zone')
  <2>1. CASE ret /\ InBounds(dbm)
    <3>1. IsZone(dbm, After) /\ zone' = dbm
      BY <2>1 DEF Inv, Legal, Return
    <3>2. dbm \in Matrix /\ dbm_isValid(dbm)
      BY <3>1, ZoneIsValid
    <3>3. dbm_isDiagonalOK(dbm)
      BY <3>1, ZoneEntries, Infinity DEF dbm_isDiagonalOK
    <3> QED
      BY <2>1, <3>1, <3>2, <3>3, ValidIsZone
  <2>2. CASE ~(ret /\ InBounds(dbm))
    BY <1>1, <2>2, InitInBounds DEF Return
  <2> QED
    BY <2>1, <2>2
<1>3. IsZone(dbm', After) /\ dbm' = zone'
  BY <1>2, Bounds, ZoneWithin DEF Return
<1>4. dbm' # Empty
  BY <1>3, ZoneIsValid
<1> QED
  BY <1>2, <1>3, <1>4 DEF Inv, Legal, Return

\* Every call keeps the invariant.
LEMMA NextKeeps ==
  ASSUME Inv, Next
  PROVE  Inv'
<1> IsZone(zone, Before)
  BY DEF Inv
<1>1. CASE Constrain1
  BY <1>1, Constrain1Result, CallKeeps DEF Constrain1
<1>2. CASE ConstrainN \/ ConstrainInTurn
  BY <1>2, ConstrainTwoResult, CallKeeps DEF ConstrainN, ConstrainInTurn
<1>3. CASE ConstrainClock
  BY <1>3, ConstrainClockResult, CallKeeps DEF ConstrainClock
<1>4. CASE Intersection
  BY <1>4, IntersectionResult, CallKeeps DEF Intersection
<1>5. CASE RelaxedIntersection
  BY <1>5, RelaxedIntersectionResult, CallKeeps DEF RelaxedIntersection
<1>6. CASE Tighten
  BY <1>6, TightenDownResult, TightenUpResult, CallKeeps DEF Tighten
<1>7. CASE Delay
  BY <1>7, DelayLegal, CallKeeps DEF Delay
<1>8. CASE DelayStopped
  BY <1>8, DelayLegal, CallKeeps DEF DelayStopped
<1>9. CASE Free
  BY <1>9, FreeLegal, CallKeeps DEF Free
<1>10. CASE FreeAll
  BY <1>10, FreeLegal, CallKeeps DEF FreeAll
<1>11. CASE Reset
  BY <1>11, InitBefore, Bounds, ZoneWithin, CallKeeps DEF Reset, Legal
<1>12. CASE UpdateValue
  BY <1>12, UpdateLegal, CallKeeps DEF UpdateValue
<1>13. CASE Update
  BY <1>13, UpdateLegal, CallKeeps DEF Update
<1>14. CASE SwapClocks
  BY <1>14, UpdateLegal, CallKeeps DEF SwapClocks
<1>15. CASE ShrinkExpand
  BY <1>15, ClocksLegal, CallKeeps DEF ShrinkExpand
<1>16. CASE UpdateDBM
  BY <1>16, ClocksLegal, CallKeeps DEF UpdateDBM
<1>17. CASE ConvexUnion
  BY <1>17, LooseningLegal, CallKeeps DEF ConvexUnion
<1>18. CASE Relax
  BY <1>18, LooseningLegal, CallKeeps DEF Relax
<1>19. CASE Return
  BY <1>19, ReturnKeeps
<1> QED
  BY <1>1, <1>2, <1>3, <1>4, <1>5, <1>6, <1>7, <1>8, <1>9, <1>10, <1>11, <1>12, <1>13,
     <1>14, <1>15, <1>16, <1>17, <1>18, <1>19 DEF Next

\* The invariant of every behaviour.
THEOREM Closedness == Spec => []Inv
<1>1. Inv /\ [Next]_vars => Inv'
  <2> SUFFICES ASSUME Inv, [Next]_vars PROVE Inv'
    OBVIOUS
  <2>1. CASE Next
    BY <2>1, NextKeeps
  <2>2. CASE UNCHANGED vars
    BY <2>2 DEF vars, Inv
  <2> QED
    BY <2>1, <2>2
<1> QED
  BY <1>1, InitInv, PTL DEF Spec

\* The invariant implies the assertion of the code.
LEMMA InvCanonical ==
  ASSUME Inv
  PROVE  Canonical
<1>1. Empty \in Matrix
  BY Infinity DEF Empty, Matrix, Raw, dbm_isValidRaw
<1>2. CASE dbm = Empty
  BY <1>1, <1>2 DEF Inv, Canonical
<1>3. CASE dbm # Empty
  BY <1>3, ZoneIsValid DEF Inv, Legal, Canonical
<1> QED
  BY <1>2, <1>3

\* Canonical, of every behaviour.
THEOREM AlwaysCanonical == Spec => []Canonical
BY Closedness, InvCanonical, PTL

-----------------------------------------------------------------------------
(* Constraining and relaxing. *)

\* The calls that each property is about, and the others.
ConstrainOps ==
  {"dbm_constrain1", "dbm_constrainN", "dbm_constrain", "dbm_constrainClock", "dbm_intersection",
   "dbm_relaxedIntersection", "dbm_tightenDown", "dbm_tightenUp"}
DelayOps == {"dbm_up", "dbm_down", "dbm_up_stop", "dbm_down_stop"}
FreeOps == {"dbm_freeClock", "dbm_freeUp", "dbm_freeDown", "dbm_freeAllUp", "dbm_freeAllDown"}
UpdateOps == {"dbm_init", "dbm_zero", "dbm_updateValue", "dbm_update", "dbm_swapClocks"}
RelaxOps == {"dbm_relaxDownClock", "dbm_relaxUpClock"}
OtherOps == {"dbm_shrinkExpand", "dbm_updateDBM", "dbm_convexUnion", "dbm_relaxAll", "none"}

\* The names of the calls tell the actions apart.
LEMMA CallNames ==
  /\ \/ Constrain1 \/ ConstrainN \/ ConstrainInTurn \/ ConstrainClock \/ Intersection
     \/ RelaxedIntersection \/ Tighten
     => call'.op \in ConstrainOps
  /\ Delay \/ DelayStopped => call'.op \in DelayOps
  /\ Free \/ FreeAll => call'.op \in FreeOps
  /\ Reset \/ UpdateValue \/ Update \/ SwapClocks => call'.op \in UpdateOps
  /\ Relax => call'.op \in RelaxOps \cup OtherOps
  /\ ShrinkExpand \/ UpdateDBM \/ ConvexUnion \/ Return => call'.op \in OtherOps
<1>1. Constrain1 \/ ConstrainClock \/ Intersection \/ RelaxedIntersection \/ Tighten
        => call'.op \in ConstrainOps
  BY DEF Constrain1, ConstrainClock, Intersection, RelaxedIntersection, Tighten, Call,
         ConstrainOps
<1>2. ConstrainN \/ ConstrainInTurn => call'.op \in ConstrainOps
  <2> SUFFICES ASSUME ConstrainN \/ ConstrainInTurn
               PROVE  call'.op \in ConstrainOps
    OBVIOUS
  <2>1. PICK cs : \/ Call([op |-> "dbm_constrainN", cs |-> cs], dbm_constrainN(zone, cs))
                  \/ Call([op |-> "dbm_constrain", cs |-> cs],
                          dbm_constrainThenClose(zone, cs))
    BY DEF ConstrainN, ConstrainInTurn
  <2> QED
    BY <2>1 DEF Call, ConstrainOps
<1>3. Delay \/ DelayStopped => call'.op \in DelayOps
  BY DEF Delay, DelayStopped, Call, DelayOps
<1>4. Free \/ FreeAll => call'.op \in FreeOps
  BY DEF Free, FreeAll, Call, FreeOps
<1>5. Reset \/ UpdateValue \/ Update \/ SwapClocks => call'.op \in UpdateOps
  BY DEF Reset, UpdateValue, Update, SwapClocks, Call, UpdateOps
<1>6. Relax => call'.op \in RelaxOps \cup OtherOps
  BY DEF Relax, Call, RelaxOps, OtherOps
<1>7. ShrinkExpand \/ UpdateDBM \/ ConvexUnion \/ Return => call'.op \in OtherOps
  BY DEF ShrinkExpand, UpdateDBM, ConvexUnion, Return, NoCall, Call, OtherOps
<1> QED
  BY <1>1, <1>2, <1>3, <1>4, <1>5, <1>6, <1>7

\* The valuations compared are points whose reference clock is 0.
LEMMA ValuationsArePoints ==
  ASSUME NEW pt \in Valuations
  PROVE  pt \in [Clk -> Int] /\ pt[0] = 0
<1>1. PICK n \in [Clocks -> 0 .. Horizon \div 2] :
        pt = [k \in Clk |-> IF k = 0 THEN 0 ELSE 2 * n[k]]
  BY DEF Valuations
<1>2. \A k \in Clk : k # 0 => n[k] \in Int
  BY <1>1 DEF Clocks
<1>3. 0 \in Clk
  BY DimAssumption DEF Clk
<1> QED
  BY <1>1, <1>2, <1>3

\* ConstrainExact says nothing of the other calls.
LEMMA OtherCalls ==
  ASSUME call'.op \notin ConstrainOps
  PROVE  ConstrainExact'
BY DEF ConstrainExact, Gives, ConstrainOps

\* dbm_constrain1 keeps the valuations that satisfy the constraint.
LEMMA Constrain1Exact ==
  ASSUME Inv, Constrain1
  PROVE  ConstrainExact'
<1>1. PICK c \in Constraints :
        Call([op |-> "dbm_constrain1", c |-> c], dbm_constrain1(zone, c))
  BY DEF Constrain1
<1>2. call'.op = "dbm_constrain1" /\ call'.c = c /\ zone' = zone
      /\ dbm' = dbm_constrain1(zone, c)
  BY <1>1 DEF Call
<1>3. \A pt \in Valuations :
        In(pt, dbm') <=> In(pt, zone') /\ Within(pt[call'.c.i] - pt[call'.c.j], call'.c.value, Grid)
  BY <1>2, Constrain1Result, ValuationsArePoints DEF Inv
<1> QED
  BY <1>2, <1>3 DEF ConstrainExact, Gives

\* dbm_constrainN, or dbm_constrain in turn, keeps the valuations that satisfy all
\* constraints.
LEMMA ConstrainTwoExact ==
  ASSUME Inv, ConstrainN \/ ConstrainInTurn
  PROVE  ConstrainExact'
<1>1. PICK c, d \in Pairs :
        \/ Call([op |-> "dbm_constrainN", cs |-> <<c, d>>], dbm_constrainN(zone, <<c, d>>))
        \/ Call([op |-> "dbm_constrain", cs |-> <<c, d>>],
                dbm_constrainThenClose(zone, <<c, d>>))
  BY DEF ConstrainN, ConstrainInTurn
<1> DEFINE cs == <<c, d>>
<1>2. /\ call'.op = "dbm_constrainN" \/ call'.op = "dbm_constrain"
      /\ call'.cs = cs /\ zone' = zone
      /\ dbm' = dbm_constrainN(zone, cs) \/ dbm' = dbm_constrainThenClose(zone, cs)
  BY <1>1 DEF Call
<1>3. \A pt \in [Clk -> Int] :
        In(pt, dbm')
          <=> /\ In(pt, zone)
              /\ \A n \in DOMAIN cs : Within(pt[cs[n].i] - pt[cs[n].j], cs[n].value, Grid)
  BY <1>2, ConstrainTwoResult DEF Inv
<1> HIDE DEF cs
<1>4. \A pt \in Valuations :
        In(pt, dbm')
          <=> /\ In(pt, zone')
              /\ \A n \in DOMAIN call'.cs :
                   Within(pt[call'.cs[n].i] - pt[call'.cs[n].j], call'.cs[n].value, Grid)
  BY <1>2, <1>3, ValuationsArePoints
<1> QED
  BY <1>2, <1>4 DEF ConstrainExact, Gives

\* dbm_constrainClock keeps the valuations with this value of the clock.
LEMMA ConstrainClockExact ==
  ASSUME Inv, ConstrainClock
  PROVE  ConstrainExact'
<1>1. PICK k \in Clocks, v \in Times :
        v >= 0 /\ Call([op |-> "dbm_constrainClock", k |-> k, value |-> v],
                       dbm_constrainClock(zone, k, v))
  BY DEF ConstrainClock
<1>2. call'.op = "dbm_constrainClock" /\ call'.k = k /\ call'.value = v /\ zone' = zone
      /\ dbm' = dbm_constrainClock(zone, k, v)
  BY <1>1 DEF Call
<1>3. \A pt \in Valuations :
        In(pt, dbm') <=> In(pt, zone') /\ pt[call'.k] = call'.value * Grid
  BY <1>1, <1>2, ConstrainClockResult, ValuationsArePoints DEF Inv
<1> QED
  BY <1>2, <1>3 DEF ConstrainExact, Gives

\* The intersections keep the valuations of both zones, weakened or not.
LEMMA IntersectionExact ==
  ASSUME Inv, Intersection \/ RelaxedIntersection
  PROVE  ConstrainExact'
<1>1. CASE Intersection
  <2>1. PICK S \in Others :
          Call([op |-> "dbm_intersection", src |-> S], dbm_intersection(zone, S))
    BY <1>1 DEF Intersection
  <2>2. call'.op = "dbm_intersection" /\ call'.src = S /\ zone' = zone
        /\ dbm' = dbm_intersection(zone, S)
    BY <2>1 DEF Call
  <2>3. \A pt \in Valuations : In(pt, dbm') <=> In(pt, zone') /\ In(pt, call'.src)
    BY <2>2, IntersectionResult, ValuationsArePoints DEF Inv
  <2> QED
    BY <2>2, <2>3 DEF ConstrainExact, Gives
<1>2. CASE RelaxedIntersection
  <2>1. PICK S \in Others :
          Call([op |-> "dbm_relaxedIntersection", src |-> S],
               dbm_relaxedIntersection(zone, S))
    BY <1>2 DEF RelaxedIntersection
  <2>2. call'.op = "dbm_relaxedIntersection" /\ call'.src = S /\ zone' = zone
        /\ dbm' = dbm_relaxedIntersection(zone, S)
    BY <2>1 DEF Call
  <2>3. \A pt \in Valuations :
          In(pt, dbm') <=> In(pt, Weakened(zone')) /\ In(pt, Weakened(call'.src))
    BY <2>2, RelaxedIntersectionResult, ValuationsArePoints DEF Inv
  <2> QED
    BY <2>2, <2>3 DEF ConstrainExact, Gives
<1> QED
  BY <1>1, <1>2

\* The tightenings keep the valuations off the faces of the zone.
LEMMA TightenExact ==
  ASSUME Inv, Tighten
  PROVE  ConstrainExact'
<1>1. CASE Call([op |-> "dbm_tightenDown"], dbm_tightenDown(zone))
  <2>1. call'.op = "dbm_tightenDown" /\ zone' = zone /\ dbm' = dbm_tightenDown(zone)
    BY <1>1 DEF Call
  <2>2. \A pt \in Valuations :
          In(pt, dbm') <=> In(pt, zone') /\ \A k \in Clocks :
                             Within(-pt[k], dbm_strictRaw(zone'[0][k]), Grid)
    BY <2>1, TightenDownResult, ValuationsArePoints DEF Inv
  <2> QED
    BY <2>1, <2>2 DEF ConstrainExact, Gives
<1>2. CASE Call([op |-> "dbm_tightenUp"], dbm_tightenUp(zone))
  <2>1. call'.op = "dbm_tightenUp" /\ zone' = zone /\ dbm' = dbm_tightenUp(zone)
    BY <1>2 DEF Call
  <2>2. \A pt \in Valuations :
          In(pt, dbm') <=> In(pt, zone') /\ \A k \in Clocks :
                             Within(pt[k], dbm_strictRaw(zone'[k][0]), Grid)
    BY <2>1, TightenUpResult, ValuationsArePoints DEF Inv
  <2> QED
    BY <2>1, <2>2 DEF ConstrainExact, Gives
<1> QED
  BY <1>1, <1>2 DEF Tighten

\* A call that constrains a zone keeps exactly the valuations that satisfy the
\* constraints, whatever calls came before it.
THEOREM AlwaysConstrainExact == Spec => []ConstrainExact
<1>1. Init => ConstrainExact
  BY DEF Init, NoCall, ConstrainExact, Gives
<1>2. Inv /\ ConstrainExact /\ [Next]_vars => ConstrainExact'
  <2> SUFFICES ASSUME Inv, ConstrainExact, [Next]_vars PROVE ConstrainExact'
    OBVIOUS
  <2>1. CASE Constrain1
    BY <2>1, Constrain1Exact
  <2>2. CASE ConstrainN \/ ConstrainInTurn
    BY <2>2, ConstrainTwoExact
  <2>3. CASE ConstrainClock
    BY <2>3, ConstrainClockExact
  <2>4. CASE Intersection \/ RelaxedIntersection
    BY <2>4, IntersectionExact
  <2>5. CASE Tighten
    BY <2>5, TightenExact
  <2>6. CASE Next /\ ~Constrain1 /\ ~ConstrainN /\ ~ConstrainInTurn /\ ~ConstrainClock
                   /\ ~Intersection /\ ~RelaxedIntersection /\ ~Tighten
    <3>1. call'.op \in DelayOps \cup FreeOps \cup UpdateOps \cup RelaxOps \cup OtherOps
      BY <2>6, CallNames DEF Next
    <3> QED
      BY <3>1, OtherCalls DEF ConstrainOps, DelayOps, FreeOps, UpdateOps, RelaxOps, OtherOps
  <2>7. CASE UNCHANGED vars
    BY <2>7 DEF vars, ConstrainExact, Gives
  <2> QED
    BY <2>1, <2>2, <2>3, <2>4, <2>5, <2>6, <2>7
<1> QED
  BY <1>1, <1>2, Closedness, PTL DEF Spec

\* RelaxExact says nothing of the other calls.
LEMMA OtherCallsRelax ==
  ASSUME call'.op \notin RelaxOps
  PROVE  RelaxExact'
BY DEF RelaxExact, Gives, RelaxOps

\* Relaxing a clock weakens one row or one column.
LEMMA RelaxCallsExact ==
  ASSUME Inv, Relax
  PROVE  RelaxExact'
<1>1. CASE Call([op |-> "dbm_relaxAll"], dbm_relaxAll(zone))
  BY <1>1, OtherCallsRelax DEF Call, RelaxOps
<1> SUFFICES ASSUME NEW k \in Clk,
                    \/ Call([op |-> "dbm_relaxDownClock", k |-> k], dbm_relaxDownClock(zone, k))
                    \/ Call([op |-> "dbm_relaxUpClock", k |-> k], dbm_relaxUpClock(zone, k))
             PROVE  RelaxExact'
  BY <1>1 DEF Relax
<1>2. Before < dbm_LE_OVERFLOW /\ Before \in Nat /\ Grid \in Nat \ {0} /\ IsZone(zone, Before)
  BY Bounds, BoundsAssumption DEF Inv
<1>3. CASE Call([op |-> "dbm_relaxDownClock", k |-> k], dbm_relaxDownClock(zone, k))
  <2>1. call'.op = "dbm_relaxDownClock" /\ call'.k = k /\ zone' = zone
        /\ dbm' = dbm_relaxDownClock(zone, k)
    BY <1>3 DEF Call
  <2>2. \A pt \in Valuations :
          In(pt, dbm') <=> \A i, j \in Clk :
            Within(pt[i] - pt[j], IF j = k THEN Weakened(zone)[i][j] ELSE zone[i][j], Grid)
    <3> SUFFICES ASSUME NEW pt \in Valuations
                 PROVE  In(pt, dbm') <=> \A i, j \in Clk :
                          Within(pt[i] - pt[j],
                                 IF j = k THEN Weakened(zone)[i][j] ELSE zone[i][j], Grid)
      OBVIOUS
    <3>1. pt \in [Clk -> Int]
      BY ValuationsArePoints
    <3> QED
      BY <1>2, <2>1, <3>1, RelaxDownPoints DEF In
  <2> QED
    BY <2>1, <2>2 DEF RelaxExact, Gives
<1>4. CASE Call([op |-> "dbm_relaxUpClock", k |-> k], dbm_relaxUpClock(zone, k))
  <2>1. call'.op = "dbm_relaxUpClock" /\ call'.k = k /\ zone' = zone
        /\ dbm' = dbm_relaxUpClock(zone, k)
    BY <1>4 DEF Call
  <2>2. \A pt \in Valuations :
          In(pt, dbm') <=> \A i, j \in Clk :
            Within(pt[i] - pt[j], IF i = k THEN Weakened(zone)[i][j] ELSE zone[i][j], Grid)
    <3> SUFFICES ASSUME NEW pt \in Valuations
                 PROVE  In(pt, dbm') <=> \A i, j \in Clk :
                          Within(pt[i] - pt[j],
                                 IF i = k THEN Weakened(zone)[i][j] ELSE zone[i][j], Grid)
      OBVIOUS
    <3>1. pt \in [Clk -> Int]
      BY ValuationsArePoints
    <3> QED
      BY <1>2, <2>1, <3>1, RelaxUpPoints DEF In
  <2> QED
    BY <2>1, <2>2 DEF RelaxExact, Gives
<1> QED
  BY <1>3, <1>4

\* A call that relaxes a clock adds exactly the valuations on the faces that it makes weak,
\* whatever calls came before it.
THEOREM AlwaysRelaxExact == Spec => []RelaxExact
<1>1. Init => RelaxExact
  BY DEF Init, NoCall, RelaxExact, Gives
<1>2. Inv /\ RelaxExact /\ [Next]_vars => RelaxExact'
  <2> SUFFICES ASSUME Inv, RelaxExact, [Next]_vars PROVE RelaxExact'
    OBVIOUS
  <2>1. CASE Relax
    BY <2>1, RelaxCallsExact
  <2>2. CASE Next /\ ~Relax
    <3>1. call'.op \in ConstrainOps \cup DelayOps \cup FreeOps \cup UpdateOps \cup OtherOps
      BY <2>2, CallNames DEF Next
    <3> QED
      BY <3>1, OtherCallsRelax DEF ConstrainOps, DelayOps, FreeOps, UpdateOps, RelaxOps, OtherOps
  <2>3. CASE UNCHANGED vars
    BY <2>3 DEF vars, RelaxExact, Gives
  <2> QED
    BY <2>1, <2>2, <2>3
<1> QED
  BY <1>1, <1>2, Closedness, PTL DEF Spec

-----------------------------------------------------------------------------
(* The value of one clock among the others. *)

Even(n) == \E m \in Int : n = 2 * m

\* When t is the least number with p - t within x, and p - q is within the sum of x and
\* y, then t - q is within y.  All numbers but t are even: a strict limit of t is not
\* next to another one.
LEMMA LeastFits ==
  ASSUME NEW x \in Int, NEW y \in Int, NEW p \in Int, NEW q \in Int, NEW t \in Int,
         NEW g \in Nat \ {0}, g % 2 = 0, Even(p), Even(q),
         ~Within(p - (t - 1), x, g),
         dbm_addFiniteFinite(x, y) < dbm_LS_INFINITY,
         Within(p - q, dbm_addFiniteFinite(x, y), g)
  PROVE  Within(t - q, y, g)
<1> DEFINE b == dbm_raw2bound(x)
           c == dbm_raw2bound(y)
           s == dbm_addFiniteFinite(x, y)
<1>1. /\ b \in Int /\ c \in Int /\ s \in Int
      /\ dbm_raw2bound(s) = b + c
      /\ dbm_rawIsWeak(s) <=> dbm_rawIsWeak(x) /\ dbm_rawIsWeak(y)
  BY RawParts, AddParts
<1>2. g \in Int /\ g = 2 * (g \div 2) /\ g \div 2 \in Int
  OBVIOUS
<1> HIDE DEF b, c, s
<1>3. b * g \in Int /\ c * g \in Int /\ (b + c) * g = b * g + c * g
  BY <1>1, ScaleAdd
<1>4. Even(b * g) /\ Even(c * g)
  <2> DEFINE h == g \div 2
  <2>1. h \in Int /\ g = 2 * h
    BY <1>2
  <2> HIDE DEF h
  <2>2. b * h \in Int /\ c * h \in Int /\ b * g = 2 * (b * h) /\ c * g = 2 * (c * h)
    BY <1>1, <2>1
  <2> QED
    BY <2>2 DEF Even
<1> DEFINE bg == b * g
           cg == c * g
<1>5. bg \in Int /\ cg \in Int /\ (b + c) * g = bg + cg /\ Even(bg) /\ Even(cg)
  BY <1>3, <1>4
<1>6. /\ IF dbm_rawIsWeak(x) THEN p - (t - 1) > bg ELSE p - (t - 1) >= bg
      /\ IF dbm_rawIsWeak(x) /\ dbm_rawIsWeak(y) THEN p - q <= bg + cg ELSE p - q < bg + cg
  <2>1. ~(s >= dbm_LS_INFINITY)
    BY <1>1, Infinity DEF s
  <2>2. IF dbm_rawIsWeak(x) THEN ~(p - (t - 1) <= bg) ELSE ~(p - (t - 1) < bg)
    BY DEF Within, b
  <2>3. IF dbm_rawIsWeak(x) /\ dbm_rawIsWeak(y) THEN p - q <= (b + c) * g \/ p - q < (b + c) * g
        ELSE p - q < (b + c) * g
    BY <1>1, <2>1 DEF Within, s
  <2> HIDE DEF bg, cg
  <2> QED
    BY <1>5, <2>2, <2>3
<1> HIDE DEF bg, cg
<1>7. IF dbm_rawIsWeak(y) THEN t - q <= cg ELSE t - q < cg
  BY <1>5, <1>6 DEF Even
<1> QED
  BY <1>7 DEF Within, cg, c

\* pt with clock k at t satisfies the bounds of D on the other clocks, on the
\* differences to k, and on the differences from k.
Apart(pt, D, k) == \A i, j \in Clk \ {k} : Within(pt[i] - pt[j], D[i][j], Grid)
Above(pt, D, k, t) == \A i \in Clk \ {k} : Within(pt[i] - t, D[i][k], Grid)
Below(pt, D, k, t) == \A j \in Clk \ {k} : Within(t - pt[j], D[k][j], Grid)

\* These bounds are all the bounds.
LEMMA WithClockAt ==
  ASSUME NEW D \in WideMatrix, ZeroDiagonal(D), NEW pt \in [Clk -> Int], NEW k \in Clk,
         NEW t \in Int
  PROVE  In([pt EXCEPT ![k] = t], D)
           <=> Apart(pt, D, k) /\ Above(pt, D, k, t) /\ Below(pt, D, k, t)
<1> DEFINE q == [pt EXCEPT ![k] = t]
<1>1. q[k] = t /\ \A i \in Clk \ {k} : q[i] = pt[i]
  OBVIOUS
<1>2. Within(q[k] - q[k], D[k][k], Grid)
  <2>1. q[k] - q[k] = 0 /\ D[k][k] = 1
    BY <1>1, Infinity DEF ZeroDiagonal
  <2>2. 0 * Grid = 0
    BY BoundsAssumption
  <2>3. dbm_rawIsWeak(1) /\ dbm_raw2bound(1) = 0
    BY DEF dbm_rawIsWeak, dbm_raw2bound
  <2> HIDE DEF q
  <2> QED
    BY <2>1, <2>2, <2>3 DEF Within
<1> HIDE DEF q
<1>3. In(q, D) <=> \A i, j \in Clk : Within(q[i] - q[j], D[i][j], Grid)
  BY DEF In, dbm_isRealPointIncluded
<1>4. ASSUME In(q, D)
      PROVE  Apart(pt, D, k) /\ Above(pt, D, k, t) /\ Below(pt, D, k, t)
  BY <1>1, <1>3, <1>4 DEF Apart, Above, Below
<1>5. ASSUME Apart(pt, D, k), Above(pt, D, k, t), Below(pt, D, k, t)
      PROVE  In(q, D)
  <2> SUFFICES ASSUME NEW i \in Clk, NEW j \in Clk
               PROVE  Within(q[i] - q[j], D[i][j], Grid)
    BY <1>3
  <2>1. CASE i = k /\ j = k
    BY <1>2, <2>1
  <2>2. CASE i = k /\ j # k
    BY <1>1, <1>5, <2>2 DEF Below
  <2>3. CASE i # k /\ j = k
    BY <1>1, <1>5, <2>3 DEF Above
  <2>4. CASE i # k /\ j # k
    BY <1>1, <1>5, <2>4 DEF Apart
  <2> QED
    BY <2>1, <2>2, <2>3, <2>4
<1> QED
  BY <1>4, <1>5 DEF q

\* A clock of a closed matrix has a value when the other clocks do: the least one that
\* the bounds on the differences to it allow.
LEMMA Projection ==
  ASSUME NEW D, IsZone(D, Before), NEW pt \in [Clk -> Int], NEW k \in Clk,
         \A i \in Clk \ {k} : Even(pt[i]), Apart(pt, D, k),
         NEW low \in Int, NEW high \in Int, low <= high,
         Below(pt, D, k, low), Above(pt, D, k, high)
  PROVE  \E t \in low .. high : In([pt EXCEPT ![k] = t], D)
<1> DEFINE T == {t \in low .. high : Above(pt, D, k, t)}
<1>1. high \in T /\ T \in SUBSET Int /\ \A t \in T : low <= t
  OBVIOUS
<1>2. PICK t \in T : \A u \in T : t <= u
  <2> HIDE DEF T
  <2> QED
    BY <1>1, LeastInteger
<1>3. t \in low .. high /\ t \in Int /\ Above(pt, D, k, t)
  BY <1>2
<1>4. Below(pt, D, k, t)
  <2>1. CASE t = low
    BY <2>1
  <2>2. CASE t # low
    <3>1. t - 1 \in low .. high /\ t - 1 \notin T
      BY <1>1, <1>2, <1>3, <2>2
    <3>2. PICK i \in Clk \ {k} : ~Within(pt[i] - (t - 1), D[i][k], Grid)
      BY <3>1 DEF Above
    <3> SUFFICES ASSUME NEW j \in Clk \ {k}
                 PROVE  Within(t - pt[j], D[k][j], Grid)
      BY DEF Below
    <3> DEFINE x == D[i][k]
               y == D[k][j]
    <3>3. x \in Int /\ y \in Int /\ x <= dbm_LS_INFINITY /\ y <= dbm_LS_INFINITY
          /\ D[i][j] \in Int
      BY ZoneEntries
    <3>4. x # dbm_LS_INFINITY
      BY <3>2, Infinity DEF Within
    <3>5. CASE y = dbm_LS_INFINITY
      BY <3>5, Infinity DEF Within
    <3>6. CASE y # dbm_LS_INFINITY
      <4>1. D[i][j] <= dbm_addFiniteFinite(x, y)
        BY <3>4, <3>6, ZoneEntries
      <4>2. dbm_addFiniteFinite(x, y) \in Int /\ dbm_addFiniteFinite(x, y) < dbm_LS_INFINITY
        <5>1. x < Before /\ y < Before
          BY <3>4, <3>6, ZoneEntries
        <5> HIDE DEF x, y
        <5> QED
          BY <3>3, <5>1, Bounds, Infinity DEF dbm_addFiniteFinite
      <4>3. Within(pt[i] - pt[j], D[i][j], Grid)
        BY DEF Apart
      <4>4. pt[i] \in Int /\ pt[j] \in Int /\ Grid \in Nat \ {0} /\ Grid % 2 = 0
            /\ Even(pt[i]) /\ Even(pt[j])
        BY BoundsAssumption
      <4>5. Within(pt[i] - pt[j], dbm_addFiniteFinite(x, y), Grid)
        <5> DEFINE z == dbm_addFiniteFinite(x, y)
                   d == pt[i] - pt[j]
        <5>1. z \in Int /\ d \in Int /\ D[i][j] <= z /\ Within(d, D[i][j], Grid)
          BY <4>1, <4>2, <4>3, <4>4
        <5> HIDE DEF z, d, x, y
        <5>2. Within(d, z, Grid)
          BY <3>3, <4>4, <5>1, WithinMonotone
        <5> QED
          BY <5>2 DEF z, d
      <4> HIDE DEF x, y
      <4> DEFINE p == pt[i]
                 q == pt[j]
      <4>6. ~Within(p - (t - 1), x, Grid)
        BY <3>2 DEF x
      <4>7. /\ Within(p - q, dbm_addFiniteFinite(x, y), Grid)
            /\ p \in Int /\ q \in Int /\ Even(p) /\ Even(q)
        BY <4>4, <4>5
      <4> HIDE DEF p, q
      <4>8. Within(t - q, y, Grid)
        BY <1>3, <3>3, <4>2, <4>4, <4>6, <4>7, LeastFits
      <4> QED
        BY <4>8 DEF q, y
    <3> QED
      BY <3>5, <3>6
  <2> QED
    BY <2>1, <2>2
<1>5. In([pt EXCEPT ![k] = t], D)
  BY <1>3, <1>4, WithClockAt DEF IsZone, Closed
<1> QED
  BY <1>3, <1>5

\* A smaller difference is within the bounds of a larger one.
LEMMA WithinLess ==
  ASSUME NEW d \in Int, NEW e \in Int, NEW x \in Int, NEW g \in Nat \ {0},
         d <= e, Within(e, x, g)
  PROVE  Within(d, x, g)
<1> DEFINE b == dbm_raw2bound(x) * g
<1>1. b \in Int
  BY RawParts, ScaleAdd
<1> HIDE DEF b
<1>2. x >= dbm_LS_INFINITY \/ (dbm_rawIsWeak(x) /\ e <= b) \/ e < b
  BY DEF Within, b
<1>3. x >= dbm_LS_INFINITY \/ (dbm_rawIsWeak(x) /\ d <= b) \/ d < b
  BY <1>1, <1>2
<1> QED
  BY <1>3 DEF Within, b

\* The last of the values that the witnesses of a projection are sought in.
LastMoment == Horizon + MaxBound * Grid + 1

\* The valuations are even, start with the reference clock and end before the horizon.
LEMMA ValuationValues ==
  ASSUME NEW pt \in Valuations
  PROVE  /\ pt \in [Clk -> Int] /\ pt[0] = 0 /\ 0 \in Clk
         /\ \A i \in Clk : /\ pt[i] \in Int /\ Even(pt[i])
                           /\ 0 <= pt[i] /\ pt[i] <= Horizon
         /\ LastMoment \in Int /\ Horizon <= LastMoment /\ Moments = 0 .. LastMoment
         /\ Horizon \in Nat /\ 0 <= LastMoment
<1>1. PICK n \in [Clocks -> 0 .. Horizon \div 2] :
        pt = [k \in Clk |-> IF k = 0 THEN 0 ELSE 2 * n[k]]
  BY DEF Valuations
<1>2. Horizon \in Nat /\ MaxBound * Grid \in Nat
  BY BoundsAssumption
<1>3. ASSUME NEW i \in Clk
      PROVE  pt[i] \in Int /\ Even(pt[i]) /\ 0 <= pt[i] /\ pt[i] <= Horizon
  <2>1. CASE i = 0
    BY <1>1, <1>2, <2>1 DEF Even
  <2>2. CASE i # 0
    <3>1. pt[i] = 2 * n[i] /\ n[i] \in 0 .. Horizon \div 2
      BY <1>1, <2>2 DEF Clocks
    <3> QED
      BY <1>2, <3>1 DEF Even
  <2> QED
    BY <2>1, <2>2
<1>4. LastMoment \in Int /\ Horizon <= LastMoment /\ Moments = 0 .. LastMoment
  BY <1>2 DEF LastMoment, Moments
<1> QED
  BY <1>2, <1>3, <1>4, ValuationsArePoints, DimAssumption DEF Clk

\* The last moment is after every limit that the constants of a zone set.
LEMMA LastMomentFits ==
  ASSUME NEW D \in WideMatrix, InBounds(D), NEW pt \in [Clk -> Int], NEW k \in Clk,
         \A i \in Clk : pt[i] <= Horizon
  PROVE  Above(pt, D, k, LastMoment)
<1> SUFFICES ASSUME NEW i \in Clk \ {k}
             PROVE  Within(pt[i] - LastMoment, D[i][k], Grid)
  BY DEF Above
<1> DEFINE x == D[i][k]
           b == dbm_raw2bound(x)
<1>1. x \in Int /\ x <= dbm_LS_INFINITY /\ pt[i] \in Int /\ pt[i] <= Horizon
      /\ (x # dbm_LS_INFINITY => b \in -MaxBound .. MaxBound)
  BY WideEntry DEF InBounds
<1>2. MaxBound \in Nat /\ Grid \in Nat \ {0} /\ Horizon \in Nat
  BY BoundsAssumption
<1>3. CASE x = dbm_LS_INFINITY
  BY <1>3, Infinity DEF Within
<1>4. CASE x # dbm_LS_INFINITY
  <2>1. b \in Int /\ -MaxBound <= b /\ MaxBound \in Int
    BY <1>1, <1>2, <1>4
  <2> HIDE DEF x, b
  <2>2. (b + MaxBound) * Grid = b * Grid + MaxBound * Grid /\ b * Grid \in Int
        /\ MaxBound * Grid \in Int /\ b + MaxBound \in Nat
    BY <1>2, <2>1, ScaleAdd
  <2>3. (b + MaxBound) * Grid \in Nat
    BY <1>2, <2>2
  <2>4. pt[i] - LastMoment < b * Grid
    BY <1>1, <1>2, <2>2, <2>3 DEF LastMoment
  <2> QED
    BY <2>4 DEF Within, b, x
<1> QED
  BY <1>3, <1>4

\* No bound of a zone keeps a clock above 0 when the other clocks fit.
LEMMA OriginFits ==
  ASSUME NEW D, IsZone(D, Before), NEW pt \in [Clk -> Int], pt[0] = 0,
         NEW k \in Clk, k # 0, Apart(pt, D, k)
  PROVE  Below(pt, D, k, 0)
<1> SUFFICES ASSUME NEW j \in Clk \ {k}
             PROVE  Within(0 - pt[j], D[k][j], Grid)
  BY DEF Below
<1> DEFINE x == D[0][k]
           y == D[k][j]
           z == D[0][j]
           d == 0 - pt[j]
<1>1. /\ x \in Int /\ y \in Int /\ z \in Int /\ d \in Int
      /\ x <= dbm_LE_ZERO /\ x # dbm_LS_INFINITY /\ 0 \in Clk
      /\ y # dbm_LS_INFINITY => z <= dbm_addFiniteFinite(x, y)
  BY ZoneEntries
<1>2. Within(d, z, Grid)
  BY <1>1 DEF Apart
<1> HIDE DEF x, y, z, d
<1>3. CASE y = dbm_LS_INFINITY
  BY <1>3, Infinity DEF Within, y
<1>4. CASE y # dbm_LS_INFINITY
  <2>1. dbm_addFiniteFinite(x, y) <= y
    BY <1>1, Infinity, SumLaws
  <2>2. z <= y
    BY <1>1, <1>4, <2>1, SumLaws
  <2>3. Within(d, y, Grid)
    BY <1>1, <1>2, <2>2, BoundsAssumption, WithinMonotone
  <2> QED
    BY <2>3 DEF d, y
<1> QED
  BY <1>3, <1>4

\* Some value of a clock completes a valuation of the other clocks to one of the zone.
LEMMA SomeMoment ==
  ASSUME NEW D, IsZone(D, Before), InBounds(D), NEW pt \in Valuations, NEW k \in Clocks
  PROVE  (\E t \in Moments : In([pt EXCEPT ![k] = t], D)) <=> Apart(pt, D, k)
<1>1. k \in Clk /\ k # 0 /\ D \in WideMatrix /\ ZeroDiagonal(D)
  BY DEF Clocks, IsZone, Closed
<1>2. /\ pt \in [Clk -> Int] /\ pt[0] = 0
      /\ \A i \in Clk : pt[i] \in Int /\ Even(pt[i]) /\ pt[i] <= Horizon
      /\ LastMoment \in Int /\ Moments = 0 .. LastMoment /\ 0 <= LastMoment
  BY ValuationValues
<1>3. ASSUME NEW t \in Moments, In([pt EXCEPT ![k] = t], D)
      PROVE  Apart(pt, D, k)
  <2>1. t \in Int
    BY <1>2
  <2> QED
    BY <1>1, <1>2, <1>3, <2>1, WithClockAt
<1>4. ASSUME Apart(pt, D, k)
      PROVE  \E t \in Moments : In([pt EXCEPT ![k] = t], D)
  <2>1. Below(pt, D, k, 0) /\ Above(pt, D, k, LastMoment)
    BY <1>1, <1>2, <1>4, OriginFits, LastMomentFits
  <2> QED
    BY <1>1, <1>2, <1>4, <2>1, Projection
<1> QED
  BY <1>3, <1>4

-----------------------------------------------------------------------------
(* Freeing clocks. *)

\* No clock differs from itself, and no difference is beyond infinity.
LEMMA SelfFits ==
  /\ \A d \in Int : d <= 0 => Within(d, dbm_LE_ZERO, Grid)
  /\ \A d : Within(d, dbm_LS_INFINITY, Grid)
<1>1. dbm_rawIsWeak(dbm_LE_ZERO) /\ dbm_raw2bound(dbm_LE_ZERO) = 0
  BY Infinity DEF dbm_rawIsWeak, dbm_raw2bound
<1>2. 0 * Grid = 0
  BY BoundsAssumption
<1> QED
  BY <1>1, <1>2, Infinity DEF Within

\* A valuation is in the zone when clock k fits the others.
LEMMA InParts ==
  ASSUME NEW D \in WideMatrix, ZeroDiagonal(D), NEW pt \in [Clk -> Int], NEW k \in Clk
  PROVE  In(pt, D)
           <=> Apart(pt, D, k) /\ Above(pt, D, k, pt[k]) /\ Below(pt, D, k, pt[k])
<1>1. [pt EXCEPT ![k] = pt[k]] = pt /\ pt[k] \in Int
  OBVIOUS
<1> QED
  BY <1>1, WithClockAt

\* dbm_freeClock forgets the bounds of k.
LEMMA FreeClockPoints ==
  ASSUME NEW D, IsZone(D, Before), NEW pt \in Valuations, NEW k \in Clocks
  PROVE  In(pt, dbm_freeClock(D, k)) <=> Apart(pt, D, k)
<1> DEFINE E == dbm_freeClock(D, k)
<1>1. k \in Clk /\ k # 0
  BY DEF Clocks
<1>2. \A i, j \in Clk : E[i][j] = IF i = j THEN D[i][j] ELSE IF i = k THEN dbm_LS_INFINITY
                                 ELSE IF j = k THEN D[i][0] ELSE D[i][j]
  BY DEF dbm_freeClock
<1>3. /\ pt[0] = 0 /\ 0 \in Clk
      /\ \A i \in Clk : pt[i] \in Int /\ 0 <= pt[i]
  BY ValuationValues
<1>4. /\ \A i, j \in Clk : D[i][j] \in Int
      /\ D[k][k] = dbm_LE_ZERO
  BY <1>1, ZoneEntries
<1> HIDE DEF E
<1>5. ASSUME In(pt, E)
      PROVE  Apart(pt, D, k)
  BY <1>2, <1>5 DEF In, dbm_isRealPointIncluded, Apart
<1>6. ASSUME Apart(pt, D, k)
      PROVE  In(pt, E)
  <2> SUFFICES ASSUME NEW i \in Clk, NEW j \in Clk
               PROVE  Within(pt[i] - pt[j], E[i][j], Grid)
    BY DEF In, dbm_isRealPointIncluded
  <2>1. CASE i # k /\ j # k
    BY <1>2, <1>6, <2>1 DEF Apart
  <2>2. CASE i = k /\ j = k
    BY <1>1, <1>2, <1>3, <1>4, <2>2, SelfFits
  <2>3. CASE i = k /\ j # k
    BY <1>2, <2>3, SelfFits
  <2>4. CASE i # k /\ j = k
    <3>1. E[i][j] = D[i][0] /\ Within(pt[i] - pt[0], D[i][0], Grid)
      BY <1>1, <1>2, <1>3, <1>6, <2>4 DEF Apart
    <3>2. pt[i] - pt[j] <= pt[i] - pt[0] /\ pt[i] - pt[j] \in Int /\ pt[i] - pt[0] \in Int
      BY <1>3
    <3> QED
      BY <1>3, <1>4, <3>1, <3>2, WithinLess, BoundsAssumption
  <2> QED
    BY <2>1, <2>2, <2>3, <2>4
<1> QED
  BY <1>5, <1>6 DEF E

\* dbm_freeUp forgets the bounds on the differences from k.
LEMMA FreeUpPoints ==
  ASSUME NEW D, IsZone(D, Before), NEW pt \in Valuations, NEW k \in Clocks
  PROVE  In(pt, dbm_freeUp(D, k)) <=> Apart(pt, D, k) /\ Above(pt, D, k, pt[k])
<1> DEFINE E == dbm_freeUp(D, k)
<1>1. k \in Clk /\ k # 0 /\ D \in WideMatrix
  BY DEF Clocks, IsZone
<1>2. \A i, j \in Clk : E[i][j] = IF i = k /\ j # k THEN dbm_LS_INFINITY ELSE D[i][j]
  BY <1>1 DEF dbm_freeUp, WideMatrix
<1>3. \A i \in Clk : pt[i] \in Int
  BY ValuationValues
<1>4. D[k][k] = dbm_LE_ZERO
  BY <1>1, ZoneEntries
<1> HIDE DEF E
<1>5. ASSUME In(pt, E)
      PROVE  Apart(pt, D, k) /\ Above(pt, D, k, pt[k])
  BY <1>1, <1>2, <1>5 DEF In, dbm_isRealPointIncluded, Apart, Above
<1>6. ASSUME Apart(pt, D, k), Above(pt, D, k, pt[k])
      PROVE  In(pt, E)
  <2> SUFFICES ASSUME NEW i \in Clk, NEW j \in Clk
               PROVE  Within(pt[i] - pt[j], E[i][j], Grid)
    BY DEF In, dbm_isRealPointIncluded
  <2>1. CASE i # k
    BY <1>2, <1>6, <2>1 DEF Apart, Above
  <2>2. CASE i = k /\ j = k
    BY <1>2, <1>3, <1>4, <2>2, SelfFits
  <2>3. CASE i = k /\ j # k
    BY <1>2, <2>3, SelfFits
  <2> QED
    BY <2>1, <2>2, <2>3
<1> QED
  BY <1>5, <1>6 DEF E

\* dbm_freeDown forgets the bounds on the differences to k, but for the sign of k.
LEMMA FreeDownPoints ==
  ASSUME NEW D, IsZone(D, Before), NEW pt \in Valuations, NEW k \in Clocks
  PROVE  In(pt, dbm_freeDown(D, k)) <=> Apart(pt, D, k) /\ Below(pt, D, k, pt[k])
<1> DEFINE E == dbm_freeDown(D, k)
<1>1. k \in Clk /\ k # 0
  BY DEF Clocks
<1>2. \A i, j \in Clk : E[i][j] = IF j = k /\ i # k THEN D[i][0] ELSE D[i][j]
  BY DEF dbm_freeDown
<1>3. /\ pt[0] = 0 /\ 0 \in Clk
      /\ \A i \in Clk : pt[i] \in Int /\ 0 <= pt[i]
  BY ValuationValues
<1>4. /\ \A i, j \in Clk : D[i][j] \in Int
      /\ D[k][k] = dbm_LE_ZERO
  BY <1>1, ZoneEntries
<1> HIDE DEF E
<1>5. ASSUME In(pt, E)
      PROVE  Apart(pt, D, k) /\ Below(pt, D, k, pt[k])
  BY <1>1, <1>2, <1>5 DEF In, dbm_isRealPointIncluded, Apart, Below
<1>6. ASSUME Apart(pt, D, k), Below(pt, D, k, pt[k])
      PROVE  In(pt, E)
  <2> SUFFICES ASSUME NEW i \in Clk, NEW j \in Clk
               PROVE  Within(pt[i] - pt[j], E[i][j], Grid)
    BY DEF In, dbm_isRealPointIncluded
  <2>1. CASE j # k
    BY <1>2, <1>6, <2>1 DEF Apart, Below
  <2>2. CASE i = k /\ j = k
    BY <1>2, <1>3, <1>4, <2>2, SelfFits
  <2>3. CASE i # k /\ j = k
    <3>1. E[i][j] = D[i][0] /\ Within(pt[i] - pt[0], D[i][0], Grid)
      BY <1>1, <1>2, <1>3, <1>6, <2>3 DEF Apart
    <3>2. pt[i] - pt[j] <= pt[i] - pt[0] /\ pt[i] - pt[j] \in Int /\ pt[i] - pt[0] \in Int
      BY <1>3
    <3> QED
      BY <1>3, <1>4, <3>1, <3>2, WithinLess, BoundsAssumption
  <2> QED
    BY <2>1, <2>2, <2>3
<1> QED
  BY <1>5, <1>6 DEF E

\* A clock may have been smaller: some value up to its own completes the others.
LEMMA SomeMomentBefore ==
  ASSUME NEW D, IsZone(D, Before), NEW pt \in Valuations, NEW k \in Clocks
  PROVE  (\E t \in 0 .. pt[k] : In([pt EXCEPT ![k] = t], D))
           <=> Apart(pt, D, k) /\ Above(pt, D, k, pt[k])
<1>1. k \in Clk /\ k # 0 /\ D \in WideMatrix /\ ZeroDiagonal(D)
  BY DEF Clocks, IsZone, Closed
<1>2. /\ pt \in [Clk -> Int] /\ pt[0] = 0
      /\ \A i \in Clk : pt[i] \in Int /\ Even(pt[i]) /\ 0 <= pt[i]
  BY ValuationValues
<1>3. ASSUME NEW t \in 0 .. pt[k], In([pt EXCEPT ![k] = t], D)
      PROVE  Apart(pt, D, k) /\ Above(pt, D, k, pt[k])
  <2>1. t \in Int /\ t <= pt[k]
    BY <1>1, <1>2
  <2>2. Apart(pt, D, k) /\ Above(pt, D, k, t)
    BY <1>1, <1>2, <1>3, <2>1, WithClockAt
  <2>3. ASSUME NEW i \in Clk \ {k}
        PROVE  Within(pt[i] - pt[k], D[i][k], Grid)
    <3>1. Within(pt[i] - t, D[i][k], Grid) /\ D[i][k] \in Int
      BY <1>1, <2>2, WideEntry DEF Above
    <3>2. pt[i] - pt[k] \in Int /\ pt[i] - t \in Int /\ pt[i] - pt[k] <= pt[i] - t
      BY <1>1, <1>2, <2>1
    <3> QED
      BY <3>1, <3>2, WithinLess, BoundsAssumption
  <2> QED
    BY <2>2, <2>3 DEF Above
<1>4. ASSUME Apart(pt, D, k), Above(pt, D, k, pt[k])
      PROVE  \E t \in 0 .. pt[k] : In([pt EXCEPT ![k] = t], D)
  <2>1. Below(pt, D, k, 0)
    BY <1>1, <1>2, <1>4, OriginFits
  <2>2. pt[k] \in Int /\ 0 <= pt[k] /\ 0 \in Int
    BY <1>1, <1>2
  <2> QED
    BY <1>1, <1>2, <1>4, <2>1, <2>2, Projection
<1> QED
  BY <1>3, <1>4

\* A clock may have been larger.
LEMMA SomeMomentAfter ==
  ASSUME NEW D, IsZone(D, Before), InBounds(D), NEW pt \in Valuations, NEW k \in Clk
  PROVE  (\E t \in Moments : t >= pt[k] /\ In([pt EXCEPT ![k] = t], D))
           <=> Apart(pt, D, k) /\ Below(pt, D, k, pt[k])
<1>1. k \in Clk /\ D \in WideMatrix /\ ZeroDiagonal(D)
  BY DEF IsZone, Closed
<1>2. /\ pt \in [Clk -> Int] /\ pt[0] = 0
      /\ \A i \in Clk : pt[i] \in Int /\ Even(pt[i]) /\ 0 <= pt[i] /\ pt[i] <= Horizon
      /\ LastMoment \in Int /\ Moments = 0 .. LastMoment /\ Horizon <= LastMoment
      /\ Horizon \in Nat
  BY ValuationValues
<1>3. ASSUME NEW t \in Moments, t >= pt[k], In([pt EXCEPT ![k] = t], D)
      PROVE  Apart(pt, D, k) /\ Below(pt, D, k, pt[k])
  <2>1. t \in Int /\ pt[k] <= t
    BY <1>1, <1>2, <1>3
  <2>2. Apart(pt, D, k) /\ Below(pt, D, k, t)
    BY <1>1, <1>2, <1>3, <2>1, WithClockAt
  <2>3. ASSUME NEW j \in Clk \ {k}
        PROVE  Within(pt[k] - pt[j], D[k][j], Grid)
    <3>1. Within(t - pt[j], D[k][j], Grid) /\ D[k][j] \in Int
      BY <1>1, <2>2, WideEntry DEF Below
    <3>2. pt[k] - pt[j] \in Int /\ t - pt[j] \in Int /\ pt[k] - pt[j] <= t - pt[j]
      BY <1>1, <1>2, <2>1
    <3> QED
      BY <3>1, <3>2, WithinLess, BoundsAssumption
  <2> QED
    BY <2>2, <2>3 DEF Below
<1>4. ASSUME Apart(pt, D, k), Below(pt, D, k, pt[k])
      PROVE  \E t \in Moments : t >= pt[k] /\ In([pt EXCEPT ![k] = t], D)
  <2>1. Above(pt, D, k, LastMoment)
    BY <1>1, <1>2, LastMomentFits
  <2>2. pt[k] \in Int /\ pt[k] <= LastMoment /\ 0 <= pt[k]
    BY <1>1, <1>2
  <2>3. \E t \in pt[k] .. LastMoment : In([pt EXCEPT ![k] = t], D)
    BY <1>1, <1>2, <1>4, <2>1, <2>2, Projection
  <2>4. \A t \in pt[k] .. LastMoment : t \in Moments /\ t >= pt[k]
    BY <1>2, <2>2
  <2> QED
    BY <2>3, <2>4
<1> QED
  BY <1>3, <1>4

\* Freeing up one clock after the other is dbm_freeAllUp.
LEMMA FreeUpOneByOne ==
  ASSUME NEW D, IsZone(D, Before)
  PROVE  LET each[k \in Clk] == IF k = 0 THEN D ELSE dbm_freeUp(each[k - 1], k)
         IN  dbm_freeAllUp(D) = each[dim - 1]
<1> DEFINE Step(f) == [k \in Clk |-> IF k = 0 THEN D ELSE dbm_freeUp(f[k - 1], k)]
           Freed(k) == [i \in Clk |-> [j \in Clk |->
                          IF i \in 1 .. k /\ i # j THEN dbm_LS_INFINITY ELSE D[i][j]]]
           all == [k \in Clk |-> Freed(k)]
           each == CHOOSE f : f = Step(f)
<1>1. D = [i \in Clk |-> [j \in Clk |-> D[i][j]]]
  BY DEF IsZone, WideMatrix
<1>2. 0 \in Clk /\ dim - 1 \in Clk /\ dim \in Nat
  BY DimAssumption DEF Clk
<1>3. Freed(0) = D
  BY <1>1
<1>4. ASSUME NEW k \in Clk, k # 0
      PROVE  k - 1 \in Clk /\ Freed(k) = dbm_freeUp(Freed(k - 1), k)
  <2>1. k \in Nat /\ k - 1 \in Clk
    BY <1>4, DimAssumption DEF Clk
  <2> DEFINE F == Freed(k - 1)
             G == dbm_freeUp(F, k)
  <2>2. \A i, j \in Clk : F[i][j] = IF i \in 1 .. k - 1 /\ i # j THEN dbm_LS_INFINITY ELSE D[i][j]
    OBVIOUS
  <2>3. F = [i \in Clk |-> [j \in Clk |-> F[i][j]]]
    OBVIOUS
  <2> HIDE DEF F
  <2>4. G = [i \in Clk |-> [j \in Clk |-> IF i = k /\ j # k THEN dbm_LS_INFINITY ELSE F[i][j]]]
    <3>1. G = [i \in Clk |-> IF i = k THEN [j \in Clk |-> IF j = k THEN F[k][k] ELSE dbm_LS_INFINITY]
                             ELSE F[i]]
      BY <2>3 DEF dbm_freeUp
    <3>2. \A i \in Clk : F[i] = [j \in Clk |-> F[i][j]]
      BY <2>3
    <3> QED
      BY <3>1, <3>2
  <2>5. \A i, j \in Clk : (IF i = k /\ j # k THEN dbm_LS_INFINITY ELSE F[i][j])
                            = IF i \in 1 .. k /\ i # j THEN dbm_LS_INFINITY ELSE D[i][j]
    <3> SUFFICES ASSUME NEW i \in Clk, NEW j \in Clk
                 PROVE  (IF i = k /\ j # k THEN dbm_LS_INFINITY ELSE F[i][j])
                            = IF i \in 1 .. k /\ i # j THEN dbm_LS_INFINITY ELSE D[i][j]
      OBVIOUS
    <3>1. i \in Int /\ (i \in 1 .. k <=> i = k \/ i \in 1 .. k - 1) /\ k \notin 1 .. k - 1
      BY <1>2, <1>4, <2>1 DEF Clk
    <3> QED
      BY <2>2, <3>1
  <2>6. G = Freed(k)
    BY <2>4, <2>5
  <2> QED
    BY <2>1, <2>6 DEF F
<1>5. all = Step(all)
  <2> HIDE DEF Freed
  <2> QED
    BY <1>2, <1>3, <1>4
<1>6. each = Step(each)
  <2> HIDE DEF Step, all
  <2> QED
    BY <1>5
<1>7. \A k \in Clk : each[k] = Freed(k)
  <2> DEFINE S == {n \in Nat : n \in Clk => each[n] = Freed(n)}
  <2> HIDE DEF Freed, each
  <2>1. 0 \in S
    BY <1>2, <1>3, <1>6
  <2>2. ASSUME NEW n \in Nat, n \in S
        PROVE  n + 1 \in S
    <3> SUFFICES ASSUME n + 1 \in Clk PROVE each[n + 1] = Freed(n + 1)
      OBVIOUS
    <3>1. n \in Clk /\ (n + 1) - 1 = n /\ n + 1 # 0
      BY <1>2 DEF Clk
    <3>2. each[n + 1] = dbm_freeUp(each[n], n + 1)
      BY <1>6, <3>1
    <3> QED
      BY <1>4, <2>2, <3>1, <3>2
  <2> HIDE DEF S
  <2>3. \A n \in Nat : n \in S
    BY <2>1, <2>2, Induction
  <2> QED
    BY <1>2, <2>3 DEF S, Clk
<1>8. Freed(dim - 1) = dbm_freeAllUp(D)
  <2>1. \A i \in Clk : i \in 1 .. dim - 1 <=> i # 0
    BY <1>2 DEF Clk
  <2>2. \A i \in Clk : D[i][i] = dbm_LE_ZERO
    BY ZoneEntries
  <2> QED
    BY <2>1, <2>2 DEF dbm_freeAllUp
<1>9. dbm_freeAllUp(D) = each[dim - 1]
  BY <1>2, <1>7, <1>8
<1> QED
  BY <1>9

\* Freeing down one clock after the other is dbm_freeAllDown.
LEMMA FreeDownOneByOne ==
  ASSUME NEW D, IsZone(D, Before)
  PROVE  LET each[k \in Clk] == IF k = 0 THEN D ELSE dbm_freeDown(each[k - 1], k)
         IN  dbm_freeAllDown(D) = each[dim - 1]
<1> DEFINE Step(f) == [k \in Clk |-> IF k = 0 THEN D ELSE dbm_freeDown(f[k - 1], k)]
           Freed(k) == [i \in Clk |-> [j \in Clk |->
                          IF j \in 1 .. k /\ i # j THEN D[i][0] ELSE D[i][j]]]
           all == [k \in Clk |-> Freed(k)]
           each == CHOOSE f : f = Step(f)
<1>1. D = [i \in Clk |-> [j \in Clk |-> D[i][j]]]
  BY DEF IsZone, WideMatrix
<1>2. 0 \in Clk /\ dim - 1 \in Clk /\ dim \in Nat
  BY DimAssumption DEF Clk
<1>3. Freed(0) = D
  BY <1>1
<1>4. ASSUME NEW k \in Clk, k # 0
      PROVE  k - 1 \in Clk /\ Freed(k) = dbm_freeDown(Freed(k - 1), k)
  <2>1. k \in Nat /\ k - 1 \in Clk
    BY <1>4, DimAssumption DEF Clk
  <2> DEFINE F == Freed(k - 1)
  <2>2. \A i, j \in Clk : F[i][j] = IF j \in 1 .. k - 1 /\ i # j THEN D[i][0] ELSE D[i][j]
    OBVIOUS
  <2> HIDE DEF F
  <2>3. \A i, j \in Clk : (IF j = k /\ i # k THEN F[i][0] ELSE F[i][j])
                            = IF j \in 1 .. k /\ i # j THEN D[i][0] ELSE D[i][j]
    <3> SUFFICES ASSUME NEW i \in Clk, NEW j \in Clk
                 PROVE  (IF j = k /\ i # k THEN F[i][0] ELSE F[i][j])
                            = IF j \in 1 .. k /\ i # j THEN D[i][0] ELSE D[i][j]
      OBVIOUS
    <3>1. j \in Int /\ (j \in 1 .. k <=> j = k \/ j \in 1 .. k - 1) /\ k \notin 1 .. k - 1
          /\ 0 \notin 1 .. k - 1 /\ 0 \in Clk
      BY <1>2, <1>4, <2>1 DEF Clk
    <3> QED
      BY <2>2, <3>1
  <2>4. dbm_freeDown(F, k) = Freed(k)
    BY <2>3 DEF dbm_freeDown
  <2> QED
    BY <2>1, <2>4 DEF F
<1>5. all = Step(all)
  <2> HIDE DEF Freed
  <2> QED
    BY <1>2, <1>3, <1>4
<1>6. each = Step(each)
  <2> HIDE DEF Step, all
  <2> QED
    BY <1>5
<1>7. \A k \in Clk : each[k] = Freed(k)
  <2> DEFINE S == {n \in Nat : n \in Clk => each[n] = Freed(n)}
  <2> HIDE DEF Freed, each
  <2>1. 0 \in S
    BY <1>2, <1>3, <1>6
  <2>2. ASSUME NEW n \in Nat, n \in S
        PROVE  n + 1 \in S
    <3> SUFFICES ASSUME n + 1 \in Clk PROVE each[n + 1] = Freed(n + 1)
      OBVIOUS
    <3>1. n \in Clk /\ (n + 1) - 1 = n /\ n + 1 # 0
      BY <1>2 DEF Clk
    <3>2. each[n + 1] = dbm_freeDown(each[n], n + 1)
      BY <1>6, <3>1
    <3> QED
      BY <1>4, <2>2, <3>1, <3>2
  <2> HIDE DEF S
  <2>3. \A n \in Nat : n \in S
    BY <2>1, <2>2, Induction
  <2> QED
    BY <1>2, <2>3 DEF S, Clk
<1>8. Freed(dim - 1) = dbm_freeAllDown(D)
  <2>1. \A j \in Clk : j \in 1 .. dim - 1 <=> j # 0
    BY <1>2 DEF Clk
  <2> QED
    BY <2>1 DEF dbm_freeAllDown
<1>9. dbm_freeAllDown(D) = each[dim - 1]
  BY <1>2, <1>7, <1>8
<1> QED
  BY <1>9

\* FreeExact says nothing of the other calls.
LEMMA OtherCallsFree ==
  ASSUME call'.op \notin FreeOps
  PROVE  FreeExact'
BY DEF FreeExact, Gives, FreeOps

\* Freeing one clock forgets it, or lets it grow or shrink.
LEMMA FreeCallsExact ==
  ASSUME Inv, Free
  PROVE  FreeExact'
<1>1. PICK k \in Clocks :
        \/ Call([op |-> "dbm_freeClock", k |-> k], dbm_freeClock(zone, k))
        \/ Call([op |-> "dbm_freeUp", k |-> k], dbm_freeUp(zone, k))
        \/ Call([op |-> "dbm_freeDown", k |-> k], dbm_freeDown(zone, k))
  BY DEF Free
<1>2. IsZone(zone, Before) /\ InBounds(zone) /\ k \in Clk
  BY DEF Inv, Clocks
<1>3. CASE Call([op |-> "dbm_freeClock", k |-> k], dbm_freeClock(zone, k))
  <2>1. call'.op = "dbm_freeClock" /\ call'.k = k /\ zone' = zone
        /\ dbm' = dbm_freeClock(zone, k)
    BY <1>3 DEF Call
  <2>2. \A pt \in Valuations :
          In(pt, dbm') <=> \E t \in Moments : In([pt EXCEPT ![call'.k] = t], zone')
    BY <1>2, <2>1, FreeClockPoints, SomeMoment
  <2> QED
    BY <2>1, <2>2 DEF FreeExact, Gives
<1>4. CASE Call([op |-> "dbm_freeUp", k |-> k], dbm_freeUp(zone, k))
  <2>1. call'.op = "dbm_freeUp" /\ call'.k = k /\ zone' = zone
        /\ dbm' = dbm_freeUp(zone, k)
    BY <1>4 DEF Call
  <2>2. \A pt \in Valuations :
          In(pt, dbm') <=> \E t \in 0 .. pt[call'.k] : In([pt EXCEPT ![call'.k] = t], zone')
    BY <1>2, <2>1, FreeUpPoints, SomeMomentBefore
  <2> QED
    BY <2>1, <2>2 DEF FreeExact, Gives
<1>5. CASE Call([op |-> "dbm_freeDown", k |-> k], dbm_freeDown(zone, k))
  <2>1. call'.op = "dbm_freeDown" /\ call'.k = k /\ zone' = zone
        /\ dbm' = dbm_freeDown(zone, k)
    BY <1>5 DEF Call
  <2>2. \A pt \in Valuations :
          In(pt, dbm') <=> \E t \in Moments : t >= pt[call'.k] /\
                             In([pt EXCEPT ![call'.k] = t], zone')
    <3> SUFFICES ASSUME NEW pt \in Valuations
                 PROVE  In(pt, dbm') <=> \E t \in Moments : t >= pt[k] /\
                                           In([pt EXCEPT ![k] = t], zone)
      BY <2>1
    <3>1. In(pt, dbm') <=> Apart(pt, zone, k) /\ Below(pt, zone, k, pt[k])
      BY <1>2, <2>1, FreeDownPoints
    <3> QED
      BY <1>2, <3>1, SomeMomentAfter
  <2> QED
    BY <2>1, <2>2 DEF FreeExact, Gives
<1> QED
  BY <1>1, <1>3, <1>4, <1>5

\* Freeing all clocks frees one after the other.
LEMMA FreeAllCallsExact ==
  ASSUME Inv, FreeAll
  PROVE  FreeExact'
<1>1. IsZone(zone, Before)
  BY DEF Inv
<1>2. CASE Call([op |-> "dbm_freeAllUp"], dbm_freeAllUp(zone))
  <2>1. call'.op = "dbm_freeAllUp" /\ zone' = zone /\ dbm' = dbm_freeAllUp(zone')
    BY <1>2 DEF Call
  <2>2. LET each[k \in Clk] == IF k = 0 THEN zone' ELSE dbm_freeUp(each[k - 1], k)
        IN  dbm' = each[dim - 1]
    BY <1>1, <2>1, FreeUpOneByOne
  <2> QED
    BY <2>1, <2>2 DEF FreeExact, Gives
<1>3. CASE Call([op |-> "dbm_freeAllDown"], dbm_freeAllDown(zone))
  <2>1. call'.op = "dbm_freeAllDown" /\ zone' = zone /\ dbm' = dbm_freeAllDown(zone')
    BY <1>3 DEF Call
  <2>2. LET each[k \in Clk] == IF k = 0 THEN zone' ELSE dbm_freeDown(each[k - 1], k)
        IN  dbm' = each[dim - 1]
    BY <1>1, <2>1, FreeDownOneByOne
  <2> QED
    BY <2>1, <2>2 DEF FreeExact, Gives
<1> QED
  BY <1>2, <1>3 DEF FreeAll

\* A call that frees clocks leaves exactly the valuations that the freed clocks reach,
\* whatever calls came before it.
THEOREM AlwaysFreeExact == Spec => []FreeExact
<1>1. Init => FreeExact
  BY DEF Init, NoCall, FreeExact, Gives
<1>2. Inv /\ FreeExact /\ [Next]_vars => FreeExact'
  <2> SUFFICES ASSUME Inv, FreeExact, [Next]_vars PROVE FreeExact'
    OBVIOUS
  <2>1. CASE Free
    BY <2>1, FreeCallsExact
  <2>2. CASE FreeAll
    BY <2>2, FreeAllCallsExact
  <2>3. CASE UNCHANGED vars
    BY <2>3 DEF vars, FreeExact, Gives
  <2>4. CASE Next /\ ~Free /\ ~FreeAll
    <3>1. call'.op \in ConstrainOps \cup DelayOps \cup UpdateOps \cup RelaxOps \cup OtherOps
      BY <2>4, CallNames DEF Next
    <3> QED
      BY <3>1, OtherCallsFree DEF ConstrainOps, DelayOps, FreeOps, UpdateOps, RelaxOps, OtherOps
  <2> QED
    BY <2>1, <2>2, <2>3, <2>4
<1> QED
  BY <1>1, <1>2, Closedness, PTL DEF Spec

-----------------------------------------------------------------------------
(* Assigning clocks. *)

\* A bound moved by an integer is the bound on a difference moved by it.
LEMMA WithinInc ==
  ASSUME NEW x \in Int, x <= dbm_LS_INFINITY, NEW w \in Int, NEW d \in Int,
         NEW g \in Nat \ {0},
         x # dbm_LS_INFINITY => x + 2 * w < dbm_LS_INFINITY
  PROVE  Within(d, dbm_rawInc(x, 2 * w), g) <=> Within(d - w * g, x, g)
<1>1. CASE x = dbm_LS_INFINITY
  BY <1>1, Infinity DEF dbm_rawInc, Within
<1>2. CASE x # dbm_LS_INFINITY
  <2> DEFINE b == dbm_raw2bound(x)
             y == x + 2 * w
  <2>1. dbm_rawInc(x, 2 * w) = y /\ y \in Int /\ y < dbm_LS_INFINITY /\ x < dbm_LS_INFINITY
    BY <1>2, Infinity DEF dbm_rawInc
  <2>2. b \in Int /\ dbm_raw2bound(y) = b + w /\ (dbm_rawIsWeak(y) <=> dbm_rawIsWeak(x))
    BY DEF dbm_raw2bound, dbm_rawIsWeak
  <2> HIDE DEF b, y
  <2>3. (b + w) * g = b * g + w * g /\ b * g \in Int /\ w * g \in Int
    BY <2>2, ScaleAdd
  <2>4. Within(d, y, g) <=> \/ dbm_rawIsWeak(x) /\ d <= b * g + w * g
                            \/ d < b * g + w * g
    BY <2>1, <2>2, <2>3, Infinity DEF Within
  <2>5. Within(d - w * g, x, g) <=> \/ dbm_rawIsWeak(x) /\ d - w * g <= b * g
                                    \/ d - w * g < b * g
    BY <2>1, Infinity DEF Within, b
  <2> QED
    BY <2>1, <2>3, <2>4, <2>5
<1> QED
  BY <1>1, <1>2

\* The valuations of a matrix in which clock i is clock r[i] plus w[i].
LEMMA SubstitutedPoints ==
  ASSUME NEW D, IsZone(D, Before), NEW E, NEW r \in [Clk -> Clk], NEW w \in [Clk -> Int],
         \A i, j \in Clk : 2 * (w[i] - w[j]) <= Before,
         Substituted(E, D, {}, r, r, w), NEW pt \in [Clk -> Int]
  PROVE  In(pt, E) <=> \A i, j \in Clk :
           Within((pt[i] - w[i] * Grid) - (pt[j] - w[j] * Grid), D[r[i]][r[j]], Grid)
<1>1. \A i, j \in Clk :
        /\ D[i][j] \in Int /\ D[i][j] <= dbm_LS_INFINITY
        /\ D[i][j] # dbm_LS_INFINITY => D[i][j] < Before
  BY ZoneEntries
<1>2. Grid \in Nat \ {0} /\ Before \in Nat /\ 2 * Before <= dbm_LE_OVERFLOW
  BY BoundsAssumption, Bounds
<1>3. ASSUME NEW i \in Clk, NEW j \in Clk
      PROVE  Within(pt[i] - pt[j], E[i][j], Grid)
               <=> Within((pt[i] - w[i] * Grid) - (pt[j] - w[j] * Grid), D[r[i]][r[j]], Grid)
  <2> DEFINE x == D[r[i]][r[j]]
             d == pt[i] - pt[j]
             e == (pt[i] - w[i] * Grid) - (pt[j] - w[j] * Grid)
             v == w[i] - w[j]
  <2>1. x \in Int /\ x <= dbm_LS_INFINITY /\ (x # dbm_LS_INFINITY => x < Before)
    BY <1>1
  <2>2. d \in Int /\ v \in Int /\ 2 * v <= Before /\ w[i] \in Int /\ w[j] \in Int
        /\ pt[i] \in Int /\ pt[j] \in Int
    OBVIOUS
  <2>3. e = d - v * Grid /\ e \in Int
    <3>1. (v + w[j]) * Grid = v * Grid + w[j] * Grid /\ v * Grid \in Int
          /\ w[j] * Grid \in Int /\ v + w[j] = w[i]
      BY <1>2, <2>2, ScaleAdd
    <3> QED
      BY <2>2, <3>1
  <2>4. CASE i = j
    <3>1. E[i][j] = dbm_LE_ZERO /\ x = dbm_LE_ZERO /\ d = 0 /\ e = 0
      <4>1. E[i][j] = dbm_LE_ZERO /\ x = dbm_LE_ZERO
        BY <2>4, ZoneEntries DEF Substituted
      <4>2. w[i] * Grid \in Int
        BY <1>2, <2>2
      <4> QED
        BY <2>2, <2>4, <4>1, <4>2
    <3> QED
      BY <3>1
  <2>5. CASE i # j
    <3>1. E[i][j] = dbm_rawInc(x, 2 * v)
      BY <2>5 DEF Substituted
    <3> HIDE DEF x, d, e, v
    <3>2. x # dbm_LS_INFINITY => x + 2 * v < dbm_LS_INFINITY
      BY <1>2, <2>1, <2>2, Infinity
    <3>3. Within(d, dbm_rawInc(x, 2 * v), Grid) <=> Within(d - v * Grid, x, Grid)
      BY <1>2, <2>1, <2>2, <3>2, WithinInc
    <3>4. Within(d, E[i][j], Grid) <=> Within(e, x, Grid)
      BY <2>3, <3>1, <3>3
    <3> QED
      BY <3>4 DEF d, e, x
  <2> QED
    BY <2>4, <2>5
<1> QED
  BY <1>3 DEF In, dbm_isRealPointIncluded

\* Clock k becomes another clock, the reference clock included, plus a value.
LEMMA AssignedPoints ==
  ASSUME NEW D, IsZone(D, Before), NEW E, NEW pt \in [Clk -> Int],
         NEW k \in Clk, NEW s \in Clk, s # k, NEW v \in Int,
         -Before <= 2 * v, 2 * v <= Before,
         Substituted(E, D, {}, Instead(k, s), Instead(k, s), OnlyFor(k, v))
  PROVE  In(pt, E) <=> pt[k] = pt[s] + v * Grid /\ Apart(pt, D, k)
<1> DEFINE r == Instead(k, s)
           w == OnlyFor(k, v)
           p(i) == pt[i] - w[i] * Grid
<1>1. /\ r \in [Clk -> Clk] /\ w \in [Clk -> Int] /\ r[k] = s /\ w[k] = v
      /\ \A i \in Clk \ {k} : r[i] = i /\ w[i] = 0
  BY DEF Instead, OnlyFor
<1> HIDE DEF r, w
<1>2. Grid \in Nat \ {0} /\ Grid \in Int /\ v * Grid \in Int /\ 0 * Grid = 0
  BY BoundsAssumption
<1>3. p(k) = pt[k] - v * Grid /\ \A i \in Clk \ {k} : p(i) = pt[i]
  BY <1>1, <1>2
<1>4. In(pt, E) <=> \A i, j \in Clk : Within(p(i) - p(j), D[r[i]][r[j]], Grid)
  <2>1. Substituted(E, D, {}, r, r, w)
    BY DEF r, w
  <2>2. \A i, j \in Clk : 2 * (w[i] - w[j]) <= Before
    <3>1. \A i \in Clk : w[i] = v \/ w[i] = 0
      BY <1>1
    <3> QED
      BY <3>1, Bounds
  <2> QED
    BY <1>1, <2>1, <2>2, SubstitutedPoints
<1> HIDE DEF p
<1>5. D[s][s] = dbm_LE_ZERO /\ \A i \in Clk : pt[i] \in Int
  BY ZoneEntries
<1>6. ASSUME In(pt, E)
      PROVE  pt[k] = pt[s] + v * Grid /\ Apart(pt, D, k)
  <2>1. Apart(pt, D, k)
    BY <1>1, <1>3, <1>4, <1>6 DEF Apart
  <2>2. Within(p(k) - p(s), D[s][s], Grid) /\ Within(p(s) - p(k), D[s][s], Grid)
    BY <1>1, <1>4, <1>6
  <2>3. p(k) \in Int /\ p(s) \in Int /\ p(s) = pt[s]
    BY <1>2, <1>3, <1>5
  <2>4. \A d \in Int : Within(d, dbm_LE_ZERO, Grid) => d <= 0
    <3>1. dbm_rawIsWeak(dbm_LE_ZERO) /\ dbm_raw2bound(dbm_LE_ZERO) = 0
          /\ ~(dbm_LE_ZERO >= dbm_LS_INFINITY)
      BY Infinity DEF dbm_rawIsWeak, dbm_raw2bound
    <3> QED
      BY <1>2, <3>1 DEF Within
  <2>5. p(k) - p(s) <= 0 /\ p(s) - p(k) <= 0
    BY <1>5, <2>2, <2>3, <2>4
  <2>6. pt[k] = pt[s] + v * Grid
    BY <1>2, <1>3, <1>5, <2>3, <2>5
  <2> QED
    BY <2>1, <2>6
<1>7. ASSUME pt[k] = pt[s] + v * Grid, Apart(pt, D, k)
      PROVE  In(pt, E)
  <2>1. \A i \in Clk : r[i] \in Clk \ {k} /\ p(i) = pt[r[i]]
    <3>1. p(k) = pt[s]
      <4> DEFINE m == v * Grid
      <4>1. m \in Int /\ p(k) = pt[k] - m /\ pt[k] = pt[s] + m
        BY <1>2, <1>3, <1>7
      <4> HIDE DEF m
      <4> QED
        BY <1>5, <4>1
    <3> QED
      BY <1>1, <1>3, <3>1
  <2> QED
    BY <1>4, <1>7, <2>1 DEF Apart
<1> QED
  BY <1>6, <1>7

\* dbm_updateValue: clock k has the value, and had some other before.
LEMMA UpdateValuePoints ==
  ASSUME NEW D, IsZone(D, Before), NEW pt \in Valuations, NEW k \in Clocks,
         NEW v \in Times, v >= 0
  PROVE  In(pt, dbm_updateValue(D, k, v)) <=> pt[k] = v * Grid /\ Apart(pt, D, k)
<1>1. /\ v \in Nat /\ v \in Int /\ 2 * v <= Before /\ -Before <= 2 * v
      /\ k \in Clk /\ k # 0 /\ k \in Clk \ {0}
  BY TimesAssumption, Bounds DEF Before, Clocks
<1>2. pt \in [Clk -> Int] /\ pt[0] = 0 /\ 0 \in Clk
  BY ValuationValues
<1>3. Substituted(dbm_updateValue(D, k, v), D, {}, Instead(k, 0), Instead(k, 0), OnlyFor(k, v))
  BY <1>1, Bounds, UpdateValueSubstitutes
<1>4. In(pt, dbm_updateValue(D, k, v)) <=> pt[k] = pt[0] + v * Grid /\ Apart(pt, D, k)
  BY <1>1, <1>2, <1>3, AssignedPoints
<1>5. pt[0] + v * Grid = v * Grid
  BY <1>1, <1>2, BoundsAssumption
<1> QED
  BY <1>4, <1>5

\* dbm_update from another clock.
LEMMA UpdateOtherPoints ==
  ASSUME NEW D, IsZone(D, Before), NEW pt \in Valuations, NEW i \in Clocks, NEW j \in Clocks,
         i # j, NEW v \in Times
  PROVE  In(pt, dbm_update(D, i, j, v)) <=> pt[i] = pt[j] + v * Grid /\ Apart(pt, D, i)
<1>1. /\ v \in Int /\ 2 * v <= Before /\ -Before <= 2 * v
      /\ i \in Clk /\ j \in Clk /\ i \in Clk \ {0} /\ j \in Clk \ {0}
  BY TimesAssumption, Bounds DEF Before, Clocks
<1>2. pt \in [Clk -> Int]
  BY ValuationValues
<1>3. Substituted(dbm_update(D, i, j, v), D, {}, Instead(i, j), Instead(i, j), OnlyFor(i, v))
  BY <1>1, Bounds, UpdateSubstitutes
<1> QED
  BY <1>1, <1>2, <1>3, AssignedPoints

\* dbm_update of a clock from itself.
LEMMA UpdateSelfPoints ==
  ASSUME NEW D, IsZone(D, Before), NEW pt \in Valuations, NEW i \in Clocks, NEW v \in Times
  PROVE  In(pt, dbm_update(D, i, i, v)) <=> In([pt EXCEPT ![i] = @ - v * Grid], D)
<1> DEFINE r == Instead(i, i)
           w == OnlyFor(i, v)
           q == [pt EXCEPT ![i] = @ - v * Grid]
<1>1. /\ v \in Int /\ 2 * v <= Before /\ -Before <= 2 * v
      /\ i \in Clk /\ i \in Clk \ {0}
  BY TimesAssumption, Bounds DEF Before, Clocks
<1>2. pt \in [Clk -> Int]
  BY ValuationValues
<1>3. Substituted(dbm_update(D, i, i, v), D, {}, r, r, w)
  BY <1>1, Bounds, UpdateSubstitutes
<1>4. /\ r \in [Clk -> Clk] /\ w \in [Clk -> Int] /\ w[i] = v
      /\ \A c \in Clk : r[c] = c
      /\ \A c \in Clk \ {i} : w[c] = 0
  BY <1>1 DEF Instead, OnlyFor
<1> HIDE DEF r, w
<1>5. v * Grid \in Int /\ 0 * Grid = 0
  BY <1>1, BoundsAssumption
<1>6. \A c \in Clk : q[c] = pt[c] - w[c] * Grid
  BY <1>1, <1>2, <1>4, <1>5
<1> HIDE DEF q
<1>7. \A a, b \in Clk : 2 * (w[a] - w[b]) <= Before
  <2>1. \A c \in Clk : w[c] = v \/ w[c] = 0
    BY <1>4
  <2> QED
    BY <1>1, <2>1, Bounds
<1>8. In(pt, dbm_update(D, i, i, v)) <=> \A a, b \in Clk :
        Within((pt[a] - w[a] * Grid) - (pt[b] - w[b] * Grid), D[r[a]][r[b]], Grid)
  BY <1>2, <1>3, <1>4, <1>7, SubstitutedPoints
<1>9. In(pt, dbm_update(D, i, i, v)) <=> In(q, D)
  BY <1>4, <1>6, <1>8 DEF In, dbm_isRealPointIncluded
<1> QED
  BY <1>9 DEF q

\* dbm_swapClocks exchanges two clocks, which may be the same.
LEMMA SwapPoints ==
  ASSUME NEW D, NEW pt \in Valuations, NEW x \in Clocks, NEW y \in Clocks
  PROVE  In(pt, dbm_swapClocks(D, x, y))
           <=> In([pt EXCEPT ![x] = pt[y], ![y] = pt[x]], D)
<1> DEFINE E == dbm_swapClocks(D, x, y)
           o(c) == IF c = x THEN y ELSE IF c = y THEN x ELSE c
           q == [pt EXCEPT ![x] = pt[y], ![y] = pt[x]]
<1>1. x \in Clk /\ y \in Clk /\ pt \in [Clk -> Int]
  BY ValuationValues DEF Clocks
<1>2. \A c \in Clk : q[c] = pt[o(c)] /\ o(c) \in Clk /\ o(o(c)) = c
  BY <1>1
<1>3. \A i, j \in Clk : E[i][j] = D[o(i)][o(j)]
  BY DEF dbm_swapClocks
<1> HIDE DEF E, o, q
<1>4. In(pt, E) <=> \A i, j \in Clk : Within(pt[i] - pt[j], D[o(i)][o(j)], Grid)
  BY <1>3 DEF In, dbm_isRealPointIncluded
<1>5. In(q, D) <=> \A i, j \in Clk : Within(pt[o(i)] - pt[o(j)], D[i][j], Grid)
  BY <1>2 DEF In, dbm_isRealPointIncluded
<1>6. ASSUME In(pt, E) PROVE In(q, D)
  <2> SUFFICES ASSUME NEW i \in Clk, NEW j \in Clk
               PROVE  Within(pt[o(i)] - pt[o(j)], D[i][j], Grid)
    BY <1>5
  <2>1. Within(pt[o(i)] - pt[o(j)], D[o(o(i))][o(o(j))], Grid)
    BY <1>2, <1>4, <1>6
  <2> QED
    BY <1>2, <2>1
<1>7. ASSUME In(q, D) PROVE In(pt, E)
  <2> SUFFICES ASSUME NEW i \in Clk, NEW j \in Clk
               PROVE  Within(pt[i] - pt[j], D[o(i)][o(j)], Grid)
    BY <1>4
  <2>1. Within(pt[o(o(i))] - pt[o(o(j))], D[o(i)][o(j)], Grid)
    BY <1>2, <1>5, <1>7
  <2> QED
    BY <1>2, <2>1
<1>8. In(pt, E) <=> In(q, D)
  BY <1>6, <1>7
<1> QED
  BY <1>8 DEF E, q

\* dbm_init has every valuation, dbm_zero only the origin.
LEMMA ResetPoints ==
  ASSUME NEW pt \in Valuations
  PROVE  /\ In(pt, dbm_init)
         /\ In(pt, dbm_zero) <=> \A k \in Clk : pt[k] = 0
<1>1. /\ pt[0] = 0 /\ 0 \in Clk
      /\ \A i \in Clk : pt[i] \in Int /\ 0 <= pt[i]
  BY ValuationValues
<1>2. \A i, j \in Clk : dbm_init[i][j] = IF i = 0 \/ i = j THEN dbm_LE_ZERO ELSE dbm_LS_INFINITY
  BY DEF dbm_init
<1>3. \A i, j \in Clk : dbm_zero[i][j] = dbm_LE_ZERO
  BY DEF dbm_zero
<1>4. \A i, j \in Clk : pt[i] - pt[j] \in Int /\ (i = 0 \/ i = j => pt[i] - pt[j] <= 0)
  BY <1>1
<1>5. In(pt, dbm_init)
  BY <1>2, <1>4, SelfFits DEF In, dbm_isRealPointIncluded
<1>6. \A d \in Int : Within(d, dbm_LE_ZERO, Grid) <=> d <= 0
  <2>1. dbm_rawIsWeak(dbm_LE_ZERO) /\ dbm_raw2bound(dbm_LE_ZERO) = 0
        /\ ~(dbm_LE_ZERO >= dbm_LS_INFINITY)
    BY Infinity DEF dbm_rawIsWeak, dbm_raw2bound
  <2>2. 0 * Grid = 0
    BY BoundsAssumption
  <2> QED
    BY <2>1, <2>2 DEF Within
<1>7. In(pt, dbm_zero) <=> \A i, j \in Clk : pt[i] - pt[j] <= 0
  BY <1>3, <1>4, <1>6 DEF In, dbm_isRealPointIncluded
<1>8. In(pt, dbm_zero) <=> \A k \in Clk : pt[k] = 0
  <2>1. ASSUME In(pt, dbm_zero), NEW k \in Clk PROVE pt[k] = 0
    <3>1. pt[k] - pt[0] <= 0
      BY <1>1, <1>7, <2>1
    <3> QED
      BY <1>1, <3>1
  <2>2. ASSUME \A k \in Clk : pt[k] = 0 PROVE In(pt, dbm_zero)
    BY <1>7, <2>2
  <2> QED
    BY <2>1, <2>2
<1> QED
  BY <1>5, <1>8

\* UpdateExact says nothing of the other calls.
LEMMA OtherCallsUpdate ==
  ASSUME call'.op \notin UpdateOps
  PROVE  UpdateExact'
BY DEF UpdateExact, Gives, UpdateOps

\* dbm_init has every valuation, dbm_zero the origin.
LEMMA ResetExact ==
  ASSUME Inv, Reset
  PROVE  UpdateExact'
<1>1. CASE Call([op |-> "dbm_init"], dbm_init)
  <2>1. call'.op = "dbm_init" /\ \A pt \in Valuations : In(pt, dbm')
    BY <1>1, ResetPoints DEF Call
  <2> QED
    BY <2>1 DEF UpdateExact, Gives
<1>2. CASE Call([op |-> "dbm_zero"], dbm_zero)
  <2>1. call'.op = "dbm_zero"
        /\ \A pt \in Valuations : In(pt, dbm') <=> \A k \in Clk : pt[k] = 0
    BY <1>2, ResetPoints DEF Call
  <2> QED
    BY <2>1 DEF UpdateExact, Gives
<1> QED
  BY <1>1, <1>2 DEF Reset

\* dbm_updateValue sets one clock.
LEMMA UpdateValueExact ==
  ASSUME Inv, UpdateValue
  PROVE  UpdateExact'
<1>1. PICK k \in Clocks, v \in Times :
        v >= 0 /\ Call([op |-> "dbm_updateValue", k |-> k, value |-> v],
                       dbm_updateValue(zone, k, v))
  BY DEF UpdateValue
<1>2. call'.op = "dbm_updateValue" /\ call'.k = k /\ call'.value = v /\ zone' = zone
      /\ dbm' = dbm_updateValue(zone, k, v)
  BY <1>1 DEF Call
<1>3. \A pt \in Valuations :
        In(pt, dbm') <=> /\ pt[call'.k] = call'.value * Grid
                         /\ \E t \in Moments : In([pt EXCEPT ![call'.k] = t], zone')
  BY <1>1, <1>2, UpdateValuePoints, SomeMoment DEF Inv
<1> QED
  BY <1>2, <1>3 DEF UpdateExact, Gives

\* dbm_update sets one clock to another one plus a value.
LEMMA UpdateCallsExact ==
  ASSUME Inv, Update
  PROVE  UpdateExact'
<1>1. PICK i, j \in Clocks, v \in Times :
        Call([op |-> "dbm_update", i |-> i, j |-> j, value |-> v], dbm_update(zone, i, j, v))
  BY DEF Update
<1>2. call'.op = "dbm_update" /\ call'.i = i /\ call'.j = j /\ call'.value = v
      /\ zone' = zone /\ dbm' = dbm_update(zone, i, j, v)
  BY <1>1 DEF Call
<1>3. ASSUME i = j, NEW pt \in Valuations
      PROVE  In(pt, dbm') <=> In([pt EXCEPT ![i] = @ - v * Grid], zone)
  BY <1>2, <1>3, UpdateSelfPoints DEF Inv
<1>4. ASSUME i # j, NEW pt \in Valuations
      PROVE  In(pt, dbm') <=> /\ pt[i] = pt[j] + v * Grid
                              /\ \E t \in Moments : In([pt EXCEPT ![i] = t], zone)
  <2>1. IsZone(zone, Before) /\ InBounds(zone)
    BY DEF Inv
  <2>2. In(pt, dbm') <=> pt[i] = pt[j] + v * Grid /\ Apart(pt, zone, i)
    BY <1>2, <1>4, <2>1, UpdateOtherPoints
  <2>3. (\E t \in Moments : In([pt EXCEPT ![i] = t], zone)) <=> Apart(pt, zone, i)
    BY <2>1, SomeMoment
  <2> QED
    BY <2>2, <2>3
<1>5. \A pt \in Valuations :
        In(pt, dbm') <=>
          IF call'.i = call'.j
          THEN In([pt EXCEPT ![call'.i] = @ - call'.value * Grid], zone')
          ELSE /\ pt[call'.i] = pt[call'.j] + call'.value * Grid
               /\ \E t \in Moments : In([pt EXCEPT ![call'.i] = t], zone')
  BY <1>2, <1>3, <1>4
<1> QED
  BY <1>2, <1>5 DEF UpdateExact, Gives

\* dbm_swapClocks swaps two clocks.
LEMMA SwapExact ==
  ASSUME Inv, SwapClocks
  PROVE  UpdateExact'
<1>1. PICK x, y \in Clocks :
        Call([op |-> "dbm_swapClocks", x |-> x, y |-> y], dbm_swapClocks(zone, x, y))
  BY DEF SwapClocks
<1>2. call'.op = "dbm_swapClocks" /\ call'.x = x /\ call'.y = y /\ zone' = zone
      /\ dbm' = dbm_swapClocks(zone, x, y)
  BY <1>1 DEF Call
<1>3. \A pt \in Valuations :
        In(pt, dbm')
          <=> In([pt EXCEPT ![call'.x] = pt[call'.y], ![call'.y] = pt[call'.x]], zone')
  BY <1>2, SwapPoints
<1> QED
  BY <1>2, <1>3 DEF UpdateExact, Gives

\* A call that assigns clocks leaves exactly the valuations after the assignment, whatever
\* calls came before it.
THEOREM AlwaysUpdateExact == Spec => []UpdateExact
<1>1. Init => UpdateExact
  BY DEF Init, NoCall, UpdateExact, Gives
<1>2. Inv /\ UpdateExact /\ [Next]_vars => UpdateExact'
  <2> SUFFICES ASSUME Inv, UpdateExact, [Next]_vars PROVE UpdateExact'
    OBVIOUS
  <2>1. CASE Reset
    BY <2>1, ResetExact
  <2>2. CASE UpdateValue
    BY <2>2, UpdateValueExact
  <2>3. CASE Update
    BY <2>3, UpdateCallsExact
  <2>4. CASE SwapClocks
    BY <2>4, SwapExact
  <2>5. CASE UNCHANGED vars
    BY <2>5 DEF vars, UpdateExact, Gives
  <2>6. CASE Next /\ ~Reset /\ ~UpdateValue /\ ~Update /\ ~SwapClocks
    <3>1. call'.op \in ConstrainOps \cup DelayOps \cup FreeOps \cup RelaxOps \cup OtherOps
      BY <2>6, CallNames DEF Next
    <3> QED
      BY <3>1, OtherCallsUpdate DEF ConstrainOps, DelayOps, FreeOps, UpdateOps, RelaxOps, OtherOps
  <2> QED
    BY <2>1, <2>2, <2>3, <2>4, <2>5, <2>6
<1> QED
  BY <1>1, <1>2, Closedness, PTL DEF Spec

-----------------------------------------------------------------------------
(* Delaying. *)

\* Moving every clock by d is moving the reference clock by -d.
LEMMA MovedTogether ==
  ASSUME NEW D, NEW pt \in [Clk -> Int], pt[0] = 0, 0 \in Clk, NEW d \in Int
  PROVE  In(Moved(pt, Clocks, d), D) <=> In([pt EXCEPT ![0] = -d], D)
<1> DEFINE p == Moved(pt, Clocks, d)
           q == [pt EXCEPT ![0] = -d]
<1>1. \A c \in Clk : /\ p[c] = IF c = 0 THEN 0 ELSE pt[c] + d
                     /\ q[c] = IF c = 0 THEN -d ELSE pt[c]
                     /\ pt[c] \in Int
  BY DEF Moved, Clocks
<1> HIDE DEF p, q
<1>2. \A i, j \in Clk : p[i] - p[j] = q[i] - q[j]
  BY <1>1
<1>3. In(p, D) <=> In(q, D)
  BY <1>2 DEF In, dbm_isRealPointIncluded
<1> QED
  BY <1>3 DEF p, q

\* Moving no clock changes nothing.
LEMMA MovedNone ==
  ASSUME NEW pt \in [Clk -> Int], NEW d
  PROVE  Moved(pt, {}, d) = pt
BY DEF Moved

\* With at most one clock running, there is none or there is one.
LEMMA FewClocks ==
  ASSUME NEW running \in SUBSET Clocks, Cardinality(running) <= 1
  PROVE  running = {} \/ \E k \in Clocks : running = {k}
<1>1. running \in SUBSET Clk
  BY DEF Clocks
<1>2. IsFiniteSet(running) /\ Cardinality(running) \in Nat
  BY <1>1, ClocksFinite
<1>3. Cardinality(running) = 0 \/ Cardinality(running) = 1
  BY <1>2
<1>4. Cardinality(running) = 0 => running = {}
  BY <1>2, FS_EmptySet
<1>5. Cardinality(running) = 1 => \E k : running = {k}
  BY <1>2, FS_Singleton
<1> QED
  BY <1>3, <1>4, <1>5

\* The first value of the reference clock is before every limit that the zone sets.
LEMMA FirstMomentFits ==
  ASSUME NEW D, IsZone(D, Before), InBounds(D), NEW pt \in Valuations
  PROVE  Below(pt, D, 0, -LastMoment)
<1> SUFFICES ASSUME NEW j \in Clk \ {0}
             PROVE  Within(-LastMoment - pt[j], D[0][j], Grid)
  BY DEF Below
<1> DEFINE x == D[0][j]
           b == dbm_raw2bound(x)
<1>1. /\ x \in Int /\ x <= dbm_LS_INFINITY /\ x # dbm_LS_INFINITY
      /\ pt[j] \in Int /\ 0 <= pt[j] /\ 0 \in Clk
  BY ZoneEntries, ValuationValues
<1>2. MaxBound \in Nat /\ Grid \in Nat \ {0} /\ Horizon \in Nat
  BY BoundsAssumption
<1>3. b \in Int /\ -MaxBound <= b
  BY <1>1, <1>2 DEF InBounds
<1> HIDE DEF x, b
<1>4. (b + MaxBound) * Grid = b * Grid + MaxBound * Grid /\ b * Grid \in Int
      /\ MaxBound * Grid \in Int /\ b + MaxBound \in Nat
  BY <1>2, <1>3, ScaleAdd
<1>5. (b + MaxBound) * Grid \in Nat
  BY <1>2, <1>4
<1>6. -LastMoment - pt[j] < b * Grid
  BY <1>1, <1>2, <1>4, <1>5 DEF LastMoment
<1> QED
  BY <1>6 DEF Within, b, x

\* A zone has a valuation after a common delay of at least 0 when the differences
\* between clocks and the lower bounds fit.
LEMMA SomePast ==
  ASSUME NEW D, IsZone(D, Before), InBounds(D), NEW pt \in Valuations
  PROVE  (\E d \in Moments : In(Moved(pt, Clocks, (-1) * d), D))
           <=> Apart(pt, D, 0) /\ Below(pt, D, 0, 0)
<1>1. pt \in [Clk -> Int] /\ pt[0] = 0 /\ 0 \in Clk /\ Moments = 0 .. LastMoment
      /\ LastMoment \in Int
  BY ValuationValues
<1>2. \A d \in Moments : d >= 0 /\ d \in Int
  BY <1>1
<1>3. ASSUME NEW d \in Moments
      PROVE  In(Moved(pt, Clocks, (-1) * d), D) <=> In([pt EXCEPT ![0] = d], D)
  <2>1. (-1) * d \in Int /\ -((-1) * d) = d
    BY <1>2
  <2> QED
    BY <1>1, <2>1, MovedTogether
<1>4. (\E t \in Moments : t >= pt[0] /\ In([pt EXCEPT ![0] = t], D))
        <=> Apart(pt, D, 0) /\ Below(pt, D, 0, pt[0])
  BY <1>1, SomeMomentAfter
<1> QED
  BY <1>1, <1>2, <1>3, <1>4

\* It has one before such a delay when the differences and the upper bounds fit.
LEMMA SomeFuture ==
  ASSUME NEW D, IsZone(D, Before), InBounds(D), NEW pt \in Valuations
  PROVE  (\E d \in Moments : In(Moved(pt, Clocks, 1 * d), D))
           <=> Apart(pt, D, 0) /\ Above(pt, D, 0, 0)
<1>1. /\ pt \in [Clk -> Int] /\ pt[0] = 0 /\ 0 \in Clk /\ Moments = 0 .. LastMoment
      /\ LastMoment \in Int /\ 0 <= LastMoment
      /\ \A i \in Clk : pt[i] \in Int /\ Even(pt[i])
  BY ValuationValues
<1>2. D \in WideMatrix /\ ZeroDiagonal(D)
  BY DEF IsZone, Closed
<1>3. ASSUME NEW d \in Moments
      PROVE  /\ d \in Int /\ 0 <= d
             /\ In(Moved(pt, Clocks, 1 * d), D) <=> In([pt EXCEPT ![0] = -d], D)
  <2>1. d \in Int /\ 0 <= d /\ 1 * d = d
    BY <1>1
  <2> QED
    BY <1>1, <2>1, MovedTogether
<1>4. ASSUME NEW d \in Moments, In([pt EXCEPT ![0] = -d], D)
      PROVE  Apart(pt, D, 0) /\ Above(pt, D, 0, 0)
  <2>1. d \in Int /\ 0 <= d /\ -d \in Int
    BY <1>1
  <2>2. Apart(pt, D, 0) /\ Above(pt, D, 0, -d)
    BY <1>1, <1>2, <1>4, <2>1, WithClockAt
  <2>3. ASSUME NEW i \in Clk \ {0}
        PROVE  Within(pt[i] - 0, D[i][0], Grid)
    <3>1. Within(pt[i] - (-d), D[i][0], Grid) /\ D[i][0] \in Int
      BY <1>1, <1>2, <2>2, WideEntry DEF Above
    <3>2. pt[i] - 0 \in Int /\ pt[i] - (-d) \in Int /\ pt[i] - 0 <= pt[i] - (-d)
      BY <1>1, <2>1
    <3> QED
      BY <3>1, <3>2, WithinLess, BoundsAssumption
  <2> QED
    BY <2>2, <2>3 DEF Above
<1>5. ASSUME Apart(pt, D, 0), Above(pt, D, 0, 0)
      PROVE  \E d \in Moments : In([pt EXCEPT ![0] = -d], D)
  <2>1. Below(pt, D, 0, -LastMoment)
    BY FirstMomentFits
  <2>2. -LastMoment \in Int /\ 0 \in Int /\ -LastMoment <= 0
    BY <1>1
  <2>3. PICK t \in -LastMoment .. 0 : In([pt EXCEPT ![0] = t], D)
    BY <1>1, <1>5, <2>1, <2>2, Projection
  <2>4. -t \in Moments /\ -(-t) = t
    BY <1>1, <2>2
  <2> QED
    BY <2>3, <2>4
<1> QED
  BY <1>3, <1>4, <1>5

\* dbm_up keeps the differences and the lower bounds.
LEMMA UpPoints ==
  ASSUME NEW D, IsZone(D, Before), NEW pt \in Valuations
  PROVE  In(pt, dbm_up(D)) <=> Apart(pt, D, 0) /\ Below(pt, D, 0, 0)
<1> DEFINE E == dbm_up(D)
<1>1. \A i, j \in Clk : E[i][j] = IF i # 0 /\ j = 0 THEN dbm_LS_INFINITY ELSE D[i][j]
  BY DEF dbm_up
<1>2. /\ pt[0] = 0 /\ 0 \in Clk
      /\ \A i \in Clk : pt[i] \in Int
  BY ValuationValues
<1>3. D[0][0] = dbm_LE_ZERO
  BY <1>2, ZoneEntries
<1> HIDE DEF E
<1>4. ASSUME In(pt, E)
      PROVE  Apart(pt, D, 0) /\ Below(pt, D, 0, 0)
  BY <1>1, <1>2, <1>4 DEF In, dbm_isRealPointIncluded, Apart, Below
<1>5. ASSUME Apart(pt, D, 0), Below(pt, D, 0, 0)
      PROVE  In(pt, E)
  <2> SUFFICES ASSUME NEW i \in Clk, NEW j \in Clk
               PROVE  Within(pt[i] - pt[j], E[i][j], Grid)
    BY DEF In, dbm_isRealPointIncluded
  <2>1. CASE i # 0 /\ j = 0
    BY <1>1, <2>1, SelfFits
  <2>2. CASE i = 0 /\ j = 0
    BY <1>1, <1>2, <1>3, <2>2, SelfFits
  <2>3. CASE j # 0
    BY <1>1, <1>2, <1>5, <2>3 DEF Apart, Below
  <2> QED
    BY <2>1, <2>2, <2>3
<1> QED
  BY <1>4, <1>5 DEF E

\* dbm_down keeps the differences and the upper bounds: the lower bounds that it leaves
\* follow from them, because no clock is negative.
LEMMA DownPoints ==
  ASSUME NEW D, IsZone(D, Before), NEW pt \in Valuations
  PROVE  In(pt, dbm_down(D)) <=> Apart(pt, D, 0) /\ Above(pt, D, 0, 0)
<1> DEFINE E == dbm_down(D)
           path(j) == {dbm_LE_ZERO} \cup
                        {D[i][j] : i \in {i \in Clk \ {0} : D[0][i] # dbm_LS_INFINITY}}
<1>1. /\ pt[0] = 0 /\ 0 \in Clk /\ D \in WideMatrix
      /\ \A i \in Clk : pt[i] \in Int /\ 0 <= pt[i]
  BY ValuationValues DEF IsZone
<1>2. /\ \A i, j \in Clk : D[i][j] \in Int
      /\ \A i, j \in Clk : D[i][j] # dbm_LS_INFINITY => -Before < D[i][j]
      /\ \A j \in Clk : D[0][j] <= dbm_LE_ZERO /\ D[0][j] # dbm_LS_INFINITY
      /\ D[0][0] = dbm_LE_ZERO
  BY ZoneEntries
<1>3. /\ \A i \in Clk \ {0} : \A j \in Clk : E[i][j] = D[i][j]
      /\ \A j \in Clk : E[0][j] = IF j >= 1 /\ D[0][j] < dbm_LE_ZERO
                                  THEN Least(path(j)) ELSE D[0][j]
  <2>1. DOMAIN D = Clk
    BY <1>1 DEF WideMatrix
  <2> QED
    BY <1>1, <2>1 DEF dbm_down, dbm_downFrom
<1>4. ASSUME NEW j \in Clk
      PROVE  \/ Least(path(j)) = dbm_LE_ZERO
             \/ \E i \in Clk \ {0} : Least(path(j)) = D[i][j]
  <2> DEFINE T == path(j)
  <2>1. -Before \in Int /\ -Before <= dbm_LE_ZERO /\ dbm_LE_ZERO \in Int
        /\ -Before <= dbm_LS_INFINITY
    BY Bounds, Infinity
  <2>2. T \in SUBSET Int /\ T # {} /\ \A x \in T : -Before <= x
    BY <1>2, <2>1
  <2>3. Least(T) \in T
    <3> HIDE DEF T
    <3> QED
      BY <2>1, <2>2, LeastIsLeast
  <2> QED
    BY <2>3
<1>5. ASSUME NEW j \in Clk
      PROVE  E[0][j] = dbm_LE_ZERO \/ \E i \in Clk \ {0} : E[0][j] = D[i][j]
  <2>1. D[0][j] \in Int /\ D[0][j] <= dbm_LE_ZERO /\ dbm_LE_ZERO \in Int
        /\ j \in Int /\ (j >= 1 <=> j # 0)
    BY <1>1, <1>2, Infinity, DimAssumption DEF Clk
  <2>2. E[0][j] = IF j >= 1 /\ D[0][j] < dbm_LE_ZERO THEN Least(path(j)) ELSE D[0][j]
    BY <1>3
  <2> HIDE DEF E, path
  <2> QED
    BY <1>2, <1>4, <2>1, <2>2
<1> HIDE DEF E, path
<1>6. ASSUME In(pt, E)
      PROVE  Apart(pt, D, 0) /\ Above(pt, D, 0, 0)
  BY <1>1, <1>3, <1>6 DEF In, dbm_isRealPointIncluded, Apart, Above
<1>7. ASSUME Apart(pt, D, 0), Above(pt, D, 0, 0)
      PROVE  In(pt, E)
  <2> SUFFICES ASSUME NEW i \in Clk, NEW j \in Clk
               PROVE  Within(pt[i] - pt[j], E[i][j], Grid)
    BY DEF In, dbm_isRealPointIncluded
  <2>1. CASE i # 0
    BY <1>1, <1>3, <1>7, <2>1 DEF Apart, Above
  <2>2. CASE i = 0 /\ j = 0
    <3>1. E[0][0] = dbm_LE_ZERO
      BY <1>1, <1>2, <1>3, Infinity
    <3> QED
      BY <1>1, <2>2, <3>1, SelfFits
  <2>3. CASE i = 0 /\ j # 0
    <3>1. pt[i] - pt[j] \in Int /\ pt[i] - pt[j] <= 0
      BY <1>1, <2>3
    <3>2. CASE E[0][j] = dbm_LE_ZERO
      BY <2>3, <3>1, <3>2, SelfFits
    <3>3. CASE \E k \in Clk \ {0} : E[0][j] = D[k][j]
      <4>1. PICK k \in Clk \ {0} : E[0][j] = D[k][j]
        BY <3>3
      <4>2. Within(pt[k] - pt[j], D[k][j], Grid) /\ D[k][j] \in Int
        BY <1>2, <1>7, <2>3 DEF Apart
      <4>3. pt[k] - pt[j] \in Int /\ pt[i] - pt[j] <= pt[k] - pt[j]
        BY <1>1, <2>3
      <4> QED
        BY <2>3, <3>1, <4>1, <4>2, <4>3, WithinLess, BoundsAssumption
    <3> QED
      BY <1>5, <3>2, <3>3
  <2> QED
    BY <2>1, <2>2, <2>3
<1> QED
  BY <1>6, <1>7 DEF E

\* The clocks of a moved valuation.
LEMMA MovedValues ==
  ASSUME NEW pt \in Valuations, NEW stopped \in SUBSET Clocks, NEW d \in Int
  PROVE  LET p == Moved(pt, Clocks \ stopped, d)
         IN  \A c \in Clk : /\ pt[c] \in Int /\ 0 <= pt[c]
                            /\ p[c] = IF c \in stopped \cup {0} THEN pt[c] ELSE pt[c] + d
BY ValuationValues DEF Moved, Clocks

\* dbm_up_stop keeps the valuations that the running clocks reach by a common delay.
LEMMA UpStopKeeps ==
  ASSUME NEW D, IsZone(D, Before), NEW pt \in Valuations, NEW stopped \in SUBSET Clocks,
         NEW d \in Moments, In(Moved(pt, Clocks \ stopped, (-1) * d), D)
  PROVE  In(pt, dbm_up_stop(D, stopped))
<1> DEFINE E == dbm_up_stop(D, stopped)
           m == (-1) * d
           p == Moved(pt, Clocks \ stopped, m)
<1>1. \A i, j \in Clk :
        E[i][j] = IF i \notin stopped \cup {0} /\ j \in stopped \cup {0}
                  THEN dbm_LS_INFINITY ELSE D[i][j]
  BY DEF dbm_up_stop
<1>2. d \in Int /\ 0 <= d
  BY ValuationValues
<1>3. \A c \in Clk : /\ pt[c] \in Int
                     /\ p[c] = IF c \in stopped \cup {0} THEN pt[c] ELSE pt[c] - d
  <2>1. m \in Int /\ \A x \in Int : x + m = x - d
    BY <1>2
  <2> HIDE DEF m
  <2>2. \A c \in Clk : /\ pt[c] \in Int
                       /\ p[c] = IF c \in stopped \cup {0} THEN pt[c] ELSE pt[c] + m
    BY <2>1, MovedValues
  <2> QED
    BY <2>1, <2>2
<1>4. \A i, j \in Clk : Within(p[i] - p[j], D[i][j], Grid) /\ D[i][j] \in Int
  BY ZoneEntries DEF In, dbm_isRealPointIncluded
<1> HIDE DEF E, p
<1> SUFFICES ASSUME NEW i \in Clk, NEW j \in Clk
             PROVE  Within(pt[i] - pt[j], E[i][j], Grid)
  BY DEF In, dbm_isRealPointIncluded, E
<1>5. CASE i \notin stopped \cup {0} /\ j \in stopped \cup {0}
  BY <1>1, <1>5, SelfFits
<1>6. CASE ~(i \notin stopped \cup {0} /\ j \in stopped \cup {0})
  <2>1. pt[i] - pt[j] \in Int /\ p[i] - p[j] \in Int /\ pt[i] - pt[j] <= p[i] - p[j]
    BY <1>2, <1>3, <1>6
  <2>2. E[i][j] = D[i][j]
    BY <1>1, <1>6
  <2> QED
    BY <1>4, <2>1, <2>2, WithinLess, BoundsAssumption
<1> QED
  BY <1>5, <1>6

\* When all clocks run, or at most one, it adds no other valuation.
LEMMA UpStopExact ==
  ASSUME NEW D, IsZone(D, Before), InBounds(D), NEW pt \in Valuations,
         NEW stopped \in SUBSET Clocks, In(pt, dbm_up_stop(D, stopped)),
         stopped = {} \/ Cardinality(Clocks \ stopped) <= 1
  PROVE  \E d \in Moments : In(Moved(pt, Clocks \ stopped, (-1) * d), D)
<1> DEFINE E == dbm_up_stop(D, stopped)
<1>1. \A i, j \in Clk :
        Within(pt[i] - pt[j], IF i \notin stopped \cup {0} /\ j \in stopped \cup {0}
                              THEN dbm_LS_INFINITY ELSE D[i][j], Grid)
  BY DEF dbm_up_stop, In, dbm_isRealPointIncluded
<1>2. /\ pt \in [Clk -> Int] /\ pt[0] = 0 /\ 0 \in Clk /\ Moments = 0 .. LastMoment
      /\ LastMoment \in Int /\ Horizon \in Nat /\ Horizon <= LastMoment
      /\ \A i \in Clk : pt[i] \in Int /\ 0 <= pt[i] /\ pt[i] <= Horizon
  BY ValuationValues
<1>3. CASE stopped = {}
  <2>1. Apart(pt, D, 0) /\ Below(pt, D, 0, 0)
    BY <1>1, <1>2, <1>3 DEF Apart, Below
  <2>2. Clocks \ stopped = Clocks
    BY <1>3
  <2> QED
    BY <2>1, <2>2, SomePast
<1>4. CASE Clocks \ stopped = {}
  <2>1. \A i \in Clk : i \in stopped \cup {0}
    BY <1>4 DEF Clocks
  <2>2. In(pt, D)
    BY <1>1, <2>1 DEF In, dbm_isRealPointIncluded
  <2>3. 0 \in Moments /\ (-1) * 0 \in Int
    BY <1>2
  <2>4. Moved(pt, {}, (-1) * 0) = pt
    BY <1>2, <2>3, MovedNone
  <2> QED
    BY <1>4, <2>2, <2>3, <2>4
<1>5. ASSUME NEW k \in Clocks, Clocks \ stopped = {k}
      PROVE  \E d \in Moments : In(Moved(pt, Clocks \ stopped, (-1) * d), D)
  <2>1. k \in Clk /\ \A i \in Clk : i \in stopped \cup {0} <=> i # k
    BY <1>5 DEF Clocks
  <2>2. Apart(pt, D, k) /\ Above(pt, D, k, pt[k])
    BY <1>1, <2>1 DEF Apart, Above
  <2>3. PICK t \in 0 .. pt[k] : In([pt EXCEPT ![k] = t], D)
    BY <2>2, SomeMomentBefore
  <2> DEFINE d == pt[k] - t
  <2>4. d \in Moments /\ d \in Int /\ t \in Int /\ pt[k] \in Int /\ t = pt[k] - d
    BY <1>2, <2>1
  <2> HIDE DEF d
  <2> DEFINE m == (-1) * d
  <2>6. m \in Int /\ t = pt[k] + m
    BY <2>4
  <2> HIDE DEF m
  <2>5. Moved(pt, {k}, m) = [pt EXCEPT ![k] = t]
    BY <1>2, <2>1, <2>4, <2>6 DEF Moved
  <2> QED
    BY <1>5, <2>3, <2>4, <2>5 DEF m
<1> QED
  BY <1>3, <1>4, <1>5, FewClocks

\* dbm_down_stop keeps the valuations from which the running clocks reach the zone by a
\* common delay: the lower bounds that it leaves follow from the bounds of the zone and
\* from the running clocks not being negative.
LEMMA DownStopKeeps ==
  ASSUME NEW D, IsZone(D, Before), NEW pt \in Valuations, NEW stopped \in SUBSET Clocks,
         NEW d \in Moments, In(Moved(pt, Clocks \ stopped, 1 * d), D)
  PROVE  In(pt, dbm_down_stop(D, stopped))
<1> DEFINE E == dbm_down_stop(D, stopped)
           p == Moved(pt, Clocks \ stopped, 1 * d)
           running == Clk \ (stopped \cup {0})
<1>1. PICK low : IsLowest(low, D, running) /\ Lowered(E, D, running, low)
  BY Bounds, DownStopLowers DEF Clocks
<1>2. d \in Int /\ 0 <= d /\ pt[0] = 0 /\ 0 \in Clk
  BY ValuationValues
<1>3. \A c \in Clk : /\ pt[c] \in Int /\ 0 <= pt[c]
                     /\ p[c] = IF c \in running THEN pt[c] + d ELSE pt[c]
  BY <1>2, MovedValues
<1>4. /\ \A i, j \in Clk : Within(p[i] - p[j], D[i][j], Grid) /\ D[i][j] \in Int
                           /\ D[i][j] <= dbm_LS_INFINITY
  BY ZoneEntries DEF In, dbm_isRealPointIncluded
<1>5. 0 \notin running /\ running \subseteq Clk
  OBVIOUS
<1> HIDE DEF E, p, running
<1>6. ASSUME NEW j \in running
      PROVE  /\ low[j] \in Int /\ low[j] # dbm_LS_INFINITY /\ low[j] <= dbm_LE_ZERO
             /\ Within(0 - pt[j], low[j], Grid)
  <2>1. /\ low[j] \in Int /\ low[j] # dbm_LS_INFINITY /\ low[j] <= dbm_LE_ZERO
        /\ low[j] = dbm_LE_ZERO \/ \E i \in running : low[j] = D[i][j]
    BY <1>1, Infinity DEF IsLowest
  <2>2. 0 - pt[j] \in Int /\ 0 - pt[j] <= 0
    BY <1>3, <1>5
  <2>3. CASE low[j] = dbm_LE_ZERO
    BY <2>1, <2>2, <2>3, SelfFits
  <2>4. CASE \E i \in running : low[j] = D[i][j]
    <3>1. PICK i \in running : low[j] = D[i][j]
      BY <2>4
    <3>2. /\ p[i] - p[j] \in Int /\ 0 - pt[j] <= p[i] - p[j]
          /\ Within(p[i] - p[j], D[i][j], Grid)
      BY <1>2, <1>3, <1>4, <1>5
    <3>3. Within(0 - pt[j], low[j], Grid)
      BY <2>1, <2>2, <3>1, <3>2, WithinLess, BoundsAssumption
    <3> QED
      BY <2>1, <3>3
  <2> QED
    BY <2>1, <2>3, <2>4
<1> SUFFICES ASSUME NEW i \in Clk, NEW j \in Clk
             PROVE  Within(pt[i] - pt[j], E[i][j], Grid)
  BY DEF In, dbm_isRealPointIncluded, E
<1>7. CASE j \in running /\ i \notin running
  <2>1. E[i][j] = dbm_addRawRaw(D[i][0], low[j])
    BY <1>1, <1>7 DEF Lowered
  <2>2. CASE D[i][0] = dbm_LS_INFINITY
    BY <2>1, <2>2, SelfFits DEF dbm_addRawRaw
  <2>3. CASE D[i][0] # dbm_LS_INFINITY
    <3>1. E[i][j] = dbm_addFiniteFinite(D[i][0], low[j])
      BY <1>6, <1>7, <2>1, <2>3 DEF dbm_addRawRaw
    <3>2. Within(pt[i], D[i][0], Grid)
      BY <1>2, <1>3, <1>4, <1>5, <1>7
    <3>3. D[i][0] < dbm_LS_INFINITY /\ low[j] < dbm_LS_INFINITY
      BY <1>2, <1>4, <1>6, <1>7, <2>3, Infinity
    <3>4. Within(pt[i] + (0 - pt[j]), dbm_addFiniteFinite(D[i][0], low[j]), Grid)
      BY <1>2, <1>3, <1>4, <1>6, <1>7, <3>2, <3>3, WithinAdd, BoundsAssumption
    <3>5. pt[i] + (0 - pt[j]) = pt[i] - pt[j]
      BY <1>3
    <3> QED
      BY <3>1, <3>4, <3>5
  <2> QED
    BY <2>2, <2>3
<1>8. CASE ~(j \in running /\ i \notin running)
  <2>1. E[i][j] = D[i][j]
    BY <1>1, <1>8 DEF Lowered
  <2>2. pt[i] - pt[j] \in Int /\ p[i] - p[j] \in Int /\ pt[i] - pt[j] <= p[i] - p[j]
    BY <1>2, <1>3, <1>8
  <2> QED
    BY <1>4, <2>1, <2>2, WithinLess, BoundsAssumption
<1> QED
  BY <1>7, <1>8

\* When all clocks run, or at most one, it adds no other valuation.
LEMMA DownStopExact ==
  ASSUME NEW D, IsZone(D, Before), InBounds(D), NEW pt \in Valuations,
         NEW stopped \in SUBSET Clocks, In(pt, dbm_down_stop(D, stopped)),
         stopped = {} \/ Cardinality(Clocks \ stopped) <= 1
  PROVE  \E d \in Moments : In(Moved(pt, Clocks \ stopped, 1 * d), D)
<1>1. \A i, j \in Clk : j \in stopped \cup {0} \/ i \notin stopped \cup {0} =>
        Within(pt[i] - pt[j], D[i][j], Grid)
  <2> DEFINE running == Clk \ (stopped \cup {0})
  <2>1. PICK low : Lowered(dbm_down_stop(D, stopped), D, running, low)
    BY Bounds, DownStopLowers DEF Clocks
  <2> QED
    BY <2>1 DEF Lowered, In, dbm_isRealPointIncluded
<1>2. /\ pt \in [Clk -> Int] /\ pt[0] = 0 /\ 0 \in Clk /\ Moments = 0 .. LastMoment
      /\ LastMoment \in Int /\ 0 <= LastMoment /\ Horizon \in Nat
      /\ \A i \in Clk : pt[i] \in Int /\ 0 <= pt[i]
  BY ValuationValues
<1>3. CASE stopped = {}
  <2>1. Apart(pt, D, 0) /\ Above(pt, D, 0, 0)
    BY <1>1, <1>2, <1>3 DEF Apart, Above
  <2>2. Clocks \ stopped = Clocks
    BY <1>3
  <2> QED
    BY <2>1, <2>2, SomeFuture
<1>4. CASE Clocks \ stopped = {}
  <2>1. \A i \in Clk : i \in stopped \cup {0}
    BY <1>4 DEF Clocks
  <2>2. In(pt, D)
    BY <1>1, <2>1 DEF In, dbm_isRealPointIncluded
  <2>3. 0 \in Moments /\ 1 * 0 \in Int
    BY <1>2
  <2>4. Moved(pt, {}, 1 * 0) = pt
    BY <1>2, <2>3, MovedNone
  <2> QED
    BY <1>4, <2>2, <2>3, <2>4
<1>5. ASSUME NEW k \in Clocks, Clocks \ stopped = {k}
      PROVE  \E d \in Moments : In(Moved(pt, Clocks \ stopped, 1 * d), D)
  <2>1. k \in Clk /\ \A i \in Clk : i \in stopped \cup {0} <=> i # k
    BY <1>5 DEF Clocks
  <2>2. Apart(pt, D, k) /\ Below(pt, D, k, pt[k])
    BY <1>1, <2>1 DEF Apart, Below
  <2>3. PICK t \in Moments : t >= pt[k] /\ In([pt EXCEPT ![k] = t], D)
    BY <2>1, <2>2, SomeMomentAfter
  <2> DEFINE d == t - pt[k]
  <2>4. d \in Moments /\ d \in Int /\ t \in Int /\ pt[k] \in Int /\ t = pt[k] + d
    BY <1>2, <2>1, <2>3
  <2> HIDE DEF d
  <2>6. 1 * d = d
    BY <2>4
  <2>5. Moved(pt, {k}, d) = [pt EXCEPT ![k] = t]
    BY <1>2, <2>1, <2>4 DEF Moved
  <2> QED
    BY <1>5, <2>3, <2>4, <2>5, <2>6
<1> QED
  BY <1>3, <1>4, <1>5, FewClocks

\* A step of another call leaves nothing to be said of the delays.
LEMMA OtherCallsDelay ==
  ASSUME call'.op \notin DelayOps
  PROVE  DelayExact'
BY DEF DelayExact, Gives, DelayOps

\* dbm_up and dbm_down are exact.
LEMMA DelayCallsExact ==
  ASSUME Inv, Delay
  PROVE  DelayExact'
<1>1. IsZone(zone, Before) /\ InBounds(zone)
  BY DEF Inv
<1>2. CASE Call([op |-> "dbm_up"], dbm_up(zone))
  <2>1. call'.op = "dbm_up" /\ zone' = zone /\ dbm' = dbm_up(zone)
    BY <1>2 DEF Call
  <2>2. \A pt \in Valuations :
          In(pt, dbm') <=> \E d \in Moments : In(Moved(pt, Clocks, (-1) * d), zone')
    BY <1>1, <2>1, UpPoints, SomePast
  <2> QED
    BY <2>1, <2>2 DEF DelayExact, Gives
<1>3. CASE Call([op |-> "dbm_down"], dbm_down(zone))
  <2>1. call'.op = "dbm_down" /\ zone' = zone /\ dbm' = dbm_down(zone)
    BY <1>3 DEF Call
  <2>2. \A pt \in Valuations :
          In(pt, dbm') <=> \E d \in Moments : In(Moved(pt, Clocks, 1 * d), zone')
    BY <1>1, <2>1, DownPoints, SomeFuture
  <2> QED
    BY <2>1, <2>2 DEF DelayExact, Gives
<1> QED
  BY <1>2, <1>3 DEF Delay

\* dbm_up_stop and dbm_down_stop never lose a valuation, and are exact when all clocks
\* run or at most one does.
LEMMA DelayStoppedExact ==
  ASSUME Inv, DelayStopped
  PROVE  DelayExact'
<1>1. IsZone(zone, Before) /\ InBounds(zone)
  BY DEF Inv
<1> SUFFICES ASSUME NEW stopped \in SUBSET Clocks,
                    \/ Call([op |-> "dbm_up_stop", stopped |-> stopped],
                            dbm_up_stop(zone, stopped))
                    \/ Call([op |-> "dbm_down_stop", stopped |-> stopped],
                            dbm_down_stop(zone, stopped))
             PROVE  DelayExact'
  BY DEF DelayStopped
<1> DEFINE expressible == stopped = {} \/ Cardinality(Clocks \ stopped) <= 1
<1>2. CASE Call([op |-> "dbm_up_stop", stopped |-> stopped], dbm_up_stop(zone, stopped))
  <2>1. call'.op = "dbm_up_stop" /\ call'.stopped = stopped /\ zone' = zone
        /\ dbm' = dbm_up_stop(zone, stopped)
    BY <1>2 DEF Call
  <2>2. ASSUME NEW pt \in Valuations
        PROVE  /\ (\E d \in Moments : In(Moved(pt, Clocks \ call'.stopped, (-1) * d), zone'))
                    => In(pt, dbm')
               /\ In(pt, dbm') /\ (call'.stopped = {} \/ Cardinality(Clocks \ call'.stopped) <= 1)
                    => \E d \in Moments : In(Moved(pt, Clocks \ call'.stopped, (-1) * d), zone')
    BY <1>1, <2>1, UpStopKeeps, UpStopExact
  <2> QED
    BY <2>1, <2>2 DEF DelayExact, Gives
<1>3. CASE Call([op |-> "dbm_down_stop", stopped |-> stopped], dbm_down_stop(zone, stopped))
  <2>1. call'.op = "dbm_down_stop" /\ call'.stopped = stopped /\ zone' = zone
        /\ dbm' = dbm_down_stop(zone, stopped)
    BY <1>3 DEF Call
  <2>2. ASSUME NEW pt \in Valuations
        PROVE  /\ (\E d \in Moments : In(Moved(pt, Clocks \ call'.stopped, 1 * d), zone'))
                    => In(pt, dbm')
               /\ In(pt, dbm') /\ (call'.stopped = {} \/ Cardinality(Clocks \ call'.stopped) <= 1)
                    => \E d \in Moments : In(Moved(pt, Clocks \ call'.stopped, 1 * d), zone')
    BY <1>1, <2>1, DownStopKeeps, DownStopExact
  <2> QED
    BY <2>1, <2>2 DEF DelayExact, Gives
<1> QED
  BY <1>2, <1>3

\* After a delay, the zone has the valuations that a delay of the running clocks leads
\* to or comes from.
THEOREM AlwaysDelayExact == Spec => []DelayExact
<1>1. Init => DelayExact
  BY DEF Init, NoCall, DelayExact, Gives
<1>2. Inv /\ DelayExact /\ [Next]_vars => DelayExact'
  <2> SUFFICES ASSUME Inv, DelayExact, [Next]_vars PROVE DelayExact'
    OBVIOUS
  <2>1. CASE Delay
    BY <2>1, DelayCallsExact
  <2>2. CASE DelayStopped
    BY <2>2, DelayStoppedExact
  <2>3. CASE Next /\ ~Delay /\ ~DelayStopped
    <3>1. call'.op \in ConstrainOps \cup FreeOps \cup UpdateOps \cup RelaxOps \cup OtherOps
      BY <2>3, CallNames DEF Next
    <3> QED
      BY <3>1, OtherCallsDelay DEF ConstrainOps, DelayOps, FreeOps, UpdateOps, RelaxOps, OtherOps
  <2>4. CASE UNCHANGED vars
    BY <2>4 DEF vars, DelayExact, Gives
  <2> QED
    BY <2>1, <2>2, <2>3, <2>4
<1> QED
  BY <1>1, <1>2, Closedness, PTL DEF Spec

-----------------------------------------------------------------------------
(* Tests.  A zone has a valuation where two bounds meet, so comparing bounds is  *)
(* comparing zones.                                                          *)

\* The difference of two clocks is within a raw, or the opposite one is within its negation.
LEMMA WithinNegated ==
  ASSUME NEW x \in Int, x < dbm_LS_INFINITY, dbm_negRaw(x) < dbm_LS_INFINITY,
         NEW d \in Int, NEW g \in Nat \ {0}
  PROVE  /\ dbm_negRaw(x) \in Int /\ dbm_negRaw(dbm_negRaw(x)) = x
         /\ Within(-d, dbm_negRaw(x), g) <=> ~Within(d, x, g)
<1> DEFINE y == dbm_negRaw(x)
           b == dbm_raw2bound(x)
           c == dbm_raw2bound(y)
<1>1. y = 1 - x /\ y \in Int /\ 1 - y = x /\ -d \in Int
  BY DEF dbm_negRaw
<1>2. /\ b \in Int /\ c \in Int /\ c = -b
      /\ x % 2 \in {0, 1} /\ y % 2 = 1 - (x % 2)
  BY <1>1 DEF dbm_raw2bound
<1>3. b * g \in Int /\ c * g = -(b * g)
  BY <1>2
<1>4. Within(d, x, g) <=> d + (1 - (x % 2)) <= b * g
  BY FiniteLimit DEF b
<1>5. Within(-d, y, g) <=> -d + (1 - (y % 2)) <= c * g
  BY <1>1, FiniteLimit DEF c, y
<1>6. PICK w \in Int : w = b * g
  BY <1>3
<1>7. Within(-d, y, g) <=> -d + (x % 2) <= -w
  BY <1>2, <1>3, <1>5, <1>6
<1>8. Within(d, x, g) <=> d + (1 - (x % 2)) <= w
  BY <1>4, <1>6
<1>9. -d + (x % 2) <= -w <=> ~(d + (1 - (x % 2)) <= w)
  BY <1>2, <1>6
<1> HIDE DEF y
<1>10. dbm_negRaw(y) = x
  BY <1>1 DEF dbm_negRaw
<1> QED
  BY <1>1, <1>7, <1>8, <1>9, <1>10 DEF y

\* A finer grid says the same of a difference.
LEMMA WithinScaled ==
  ASSUME NEW x \in Int, NEW d \in Int, NEW g \in Nat \ {0}, NEW f \in Nat \ {0}
  PROVE  /\ f * g \in Nat \ {0} /\ f * d \in Int
         /\ Within(f * d, x, f * g) <=> Within(d, x, g)
<1> DEFINE b == dbm_raw2bound(x)
<1>1. b \in Int /\ b * g \in Int /\ b * (f * g) \in Int /\ f * d \in Int /\ f * g \in Nat \ {0}
  <2>1. b \in Int
    BY RawParts
  <2> HIDE DEF b
  <2> QED
    BY <2>1
<1> HIDE DEF b
<1>2. PICK w \in Int : w = b * g
  BY <1>1
<1>3. b * (f * g) = w * f /\ f * d = d * f
  BY <1>1, <1>2
<1>4. /\ d < w => d * f < w * f
      /\ w < d => w * f < d * f
      /\ d * f \in Int /\ w * f \in Int
  BY <1>2, ScaleStrict
<1>5. d < w \/ d = w \/ w < d
  BY <1>2
<1>6. /\ d < w <=> d * f < w * f
      /\ d <= w <=> d * f <= w * f
  BY <1>2, <1>4, <1>5
<1> QED
  BY <1>1, <1>2, <1>3, <1>6 DEF Within, b

\* A zone whose lower bounds are below dim - 1 constants has one of the valuations.
LEMMA SomeValuation ==
  ASSUME NEW E, NEW B \in Nat, IsZone(E, B),
         \A k \in Clk : -((dim - 1) * MaxBound) <= dbm_raw2bound(E[0][k])
  PROVE  \E pt \in Valuations : In(pt, E)
<1> DEFINE g == Grid \div 2
           K == {0}
           p == [k \in Clk |-> 0]
           top == (dim - 1) * MaxBound
<1>1. /\ g \in Nat \ {0} /\ Grid = 2 * g /\ dim <= g /\ dim \in Nat \ {0} /\ 0 \in Clk
      /\ MaxBound \in Nat /\ Horizon \in Nat /\ Grid \in Nat \ {0}
      /\ top \in Nat
  BY BoundsAssumption, GridAssumption, DimAssumption DEF Clk
<1>2. Cardinality(Clk \ K) = dim - 1
  <2>1. IsFiniteSet(Clk) /\ Cardinality(Clk) = dim
    BY DimAssumption, FS_Interval DEF Clk
  <2> QED
    BY <1>1, <2>1, FS_RemoveElement
<1>3. Multiple(g, g) /\ Multiple(0, g)
  <2>1. g = 1 * g /\ 0 = 0 * g
    BY <1>1
  <2> QED
    BY <2>1 DEF Multiple
<1>4. /\ p \in [Clk -> Int] /\ p[0] = 0 /\ K \in SUBSET Clk
      /\ \A c \in K : p[c] <= 0 /\ Multiple(p[c], g)
  BY <1>1, <1>3
<1>5. \A c, d \in K : Within(p[c] - p[d], E[c][d], g)
  <2>1. E[0][0] = dbm_LE_ZERO
    BY <1>1, ZoneEntries
  <2>2. Within(0, dbm_LE_ZERO, g)
    <3>1. dbm_rawIsWeak(dbm_LE_ZERO) /\ dbm_raw2bound(dbm_LE_ZERO) = 0 /\ 0 * g = 0
      BY <1>1 DEF dbm_rawIsWeak, dbm_raw2bound, dbm_LE_ZERO
    <3> QED
      BY <3>1 DEF Within
  <2> QED
    BY <1>1, <2>1, <2>2
<1>6. Cardinality(Clk \ K) < g
  BY <1>1, <1>2
<1> HIDE DEF p, g, K
<1>7. PICK q \in [Clk -> Int] :
        /\ \A c \in K : q[c] = p[c]
        /\ dbm_isRealPointIncluded(q, E, g)
        /\ \A k \in Clk :
             /\ 0 <= q[k]
             /\ \E c \in K :
                  /\ E[c][k] # dbm_LS_INFINITY
                  /\ q[k] <= p[c] - dbm_raw2bound(E[c][k]) * g + Cardinality(Clk \ K)
  <2>1. 0 \in K
    BY DEF K
  <2> QED
    BY <1>1, <1>3, <1>4, <1>5, <1>6, <2>1, PointExtends
<1>8. \A k \in Clk : 0 <= q[k] /\ q[k] <= top * g + (dim - 1)
  <2> SUFFICES ASSUME NEW k \in Clk
               PROVE  0 <= q[k] /\ q[k] <= top * g + (dim - 1)
    OBVIOUS
  <2>1. q[k] <= 0 - dbm_raw2bound(E[0][k]) * g + (dim - 1)
    BY <1>2, <1>7, <1>1 DEF K, p
  <2>2. E[0][k] \in Int
    BY <1>1, ZoneEntries
  <2>3. PICK b \in Int : b = dbm_raw2bound(E[0][k])
    BY <2>2, RawParts
  <2>4. -top <= b
    BY <2>3
  <2> HIDE DEF top
  <2>5. -top * g <= b * g /\ -top * g \in Int /\ b * g \in Int
    <3>1. -top < b => (-top) * g < b * g
      BY <1>1, ScaleStrict
    <3>2. -top = b \/ -top < b
      BY <1>1, <2>4
    <3> QED
      BY <1>1, <3>1, <3>2
  <2>6. -(b * g) <= top * g /\ top * g \in Int
    BY <1>1, <2>5
  <2> QED
    BY <1>1, <1>7, <2>1, <2>3, <2>5, <2>6
<1>9. 2 * (top * g + (dim - 1)) <= Horizon
  <2>1. (dim - 1) * (MaxBound * Grid + 2) = top * Grid + 2 * (dim - 1)
    BY <1>1
  <2>2. top * Grid = 2 * (top * g)
    BY <1>1
  <2> QED
    BY <1>1, <2>1, <2>2, GridAssumption
<1>10. \A k \in Clk : q[k] \in 0 .. Horizon \div 2
  <2> SUFFICES ASSUME NEW k \in Clk
               PROVE  q[k] \in 0 .. Horizon \div 2
    OBVIOUS
  <2>1. PICK m \in Int : m = top * g + (dim - 1)
    BY <1>1
  <2>2. q[k] \in Int /\ 0 <= q[k] /\ q[k] <= m /\ 2 * m <= Horizon
    BY <1>8, <1>9, <2>1
  <2> QED
    BY <2>2, <1>1
<1> DEFINE n == [k \in Clocks |-> q[k]]
           pt == [k \in Clk |-> IF k = 0 THEN 0 ELSE 2 * n[k]]
<1>11. n \in [Clocks -> 0 .. Horizon \div 2]
  BY <1>10 DEF Clocks
<1>12. pt \in Valuations
  <2>1. \A f \in [Clocks -> 0 .. Horizon \div 2] :
          [k \in Clk |-> IF k = 0 THEN 0 ELSE 2 * f[k]] \in Valuations
    BY DEF Valuations
  <2> HIDE DEF n
  <2> QED
    BY <1>11, <2>1
<1>13. \A k \in Clk : pt[k] = 2 * q[k]
  <2>1. q[0] = 0
    BY <1>1, <1>7 DEF K, p
  <2> QED
    BY <2>1 DEF Clocks
<1>14. In(pt, E)
  <2> SUFFICES ASSUME NEW i \in Clk, NEW j \in Clk
               PROVE  Within(pt[i] - pt[j], E[i][j], Grid)
    BY DEF In, dbm_isRealPointIncluded
  <2>1. Within(q[i] - q[j], E[i][j], g)
    BY <1>7 DEF dbm_isRealPointIncluded
  <2>2. q[i] - q[j] \in Int /\ E[i][j] \in Int
    BY ZoneEntries
  <2>3. Within(2 * (q[i] - q[j]), E[i][j], 2 * g)
    BY <1>1, <2>1, <2>2, WithinScaled
  <2>4. pt[i] - pt[j] = 2 * (q[i] - q[j])
    <3> HIDE DEF pt
    <3>1. pt[i] = 2 * q[i] /\ pt[j] = 2 * q[j] /\ q[i] \in Int /\ q[j] \in Int
      BY <1>13
    <3> QED
      BY <3>1
  <2> QED
    BY <1>1, <2>3, <2>4
<1> QED
  BY <1>12, <1>14

\* The constants that a constraint may have.
Constant(v) == v \in Int /\ -(2 * MaxBound) <= v /\ v <= 2 * MaxBound + 1

\* The lower bounds of a zone after a constraint: no path of bounds passes a clock twice,
\* so three constants are only added up when there are three clocks.
LEMMA LowerBounds ==
  ASSUME NEW D, IsZone(D, Before), InBounds(D), NEW i \in Clk, NEW j \in Clk, i # j,
         NEW v, Constant(v),
         D[j][i] # dbm_LS_INFINITY => dbm_LE_ZERO <= dbm_addFiniteFinite(v, D[j][i]),
         NEW E, ThroughEdge(E, D, i, j, v), NEW k \in Clk
  PROVE  -((dim - 1) * MaxBound) <= dbm_raw2bound(E[0][k])
<1> DEFINE M == MaxBound
           b(x) == dbm_raw2bound(x)
           Sum(x, y) == dbm_addFiniteFinite(x, y)
<1>1. M \in Nat /\ dim \in Nat \ {0} /\ 0 \in Clk /\ 2 <= dim
  <2>1. i \in 0 .. dim - 1 /\ j \in 0 .. dim - 1 /\ dim \in Nat \ {0}
    BY DimAssumption DEF Clk
  <2>2. 2 <= dim
    BY <2>1
  <2> QED
    BY <2>1, <2>2, BoundsAssumption DEF Clk
<1>2. \A c, d \in Clk : D[c][d] \in Int
  BY ZoneEntries
<1>3. \A c, d \in Clk : D[c][d] # dbm_LS_INFINITY => -M <= b(D[c][d])
  BY DEF InBounds
<1>4. /\ \A c \in Clk : D[c][c] = dbm_LE_ZERO
      /\ \A c \in Clk : D[0][c] # dbm_LS_INFINITY
  BY ZoneEntries
<1>5. v \in Int /\ -M <= b(v) /\ b(v) \in Int
  BY <1>1 DEF Constant, dbm_raw2bound
<1>6. \A x, y \in Int : Sum(x, y) \in Int /\ b(Sum(x, y)) = b(x) + b(y) /\ b(x) \in Int
  BY AddParts, RawParts
<1>7. \A x \in Int : Sum(dbm_LE_ZERO, x) = x /\ Sum(x, dbm_LE_ZERO) = x
  BY AddZero
<1>8. \A x, y \in Int : x <= y => b(x) <= b(y)
  BY DEF dbm_raw2bound
<1>15. \A x, y, z \in Int : z <= Sum(x, y) => b(z) <= b(x) + b(y)
  <2> SUFFICES ASSUME NEW x \in Int, NEW y \in Int, NEW z \in Int, z <= Sum(x, y)
               PROVE  b(z) <= b(x) + b(y)
    OBVIOUS
  <2>1. /\ \/ b(z) < b(x) + b(y)
           \/ b(z) = b(x) + b(y)
        /\ b(x) \in Int /\ b(y) \in Int /\ b(z) \in Int
    BY LimitOfSum, RawParts
  <2> HIDE DEF b
  <2> QED
    BY <2>1
<1>16. b(1) = 0
  BY DEF dbm_raw2bound
<1>9. M <= (dim - 1) * M /\ (dim - 1) * M \in Nat
  <2>1. 1 \in Nat /\ dim - 1 \in Nat /\ 1 <= dim - 1 /\ 1 * M = M
    BY <1>1
  <2> HIDE DEF M
  <2> QED
    BY <1>1, <2>1, Multiples
<1>10. 3 <= dim => 2 * M <= (dim - 1) * M
  <2>1. 2 \in Nat /\ dim - 1 \in Nat /\ (3 <= dim => 2 <= dim - 1)
    BY <1>1
  <2> HIDE DEF M
  <2> QED
    BY <1>1, <2>1, Multiples
<1>11. 4 <= dim => 3 * M <= (dim - 1) * M
  <2>1. 3 \in Nat /\ dim - 1 \in Nat /\ (4 <= dim => 3 <= dim - 1)
    BY <1>1
  <2> HIDE DEF M
  <2> QED
    BY <1>1, <2>1, Multiples
<1> HIDE DEF M, b, Sum
<1>12. CASE E[0][k] = D[0][k]
  <2>1. -M <= b(D[0][k]) /\ b(D[0][k]) \in Int
    BY <1>1, <1>2, <1>3, <1>4, <1>6
  <2> QED
    BY <1>1, <1>9, <1>12, <2>1 DEF b, M
<1>13. CASE /\ D[0][i] # dbm_LS_INFINITY /\ D[j][k] # dbm_LS_INFINITY
            /\ E[0][k] = Sum(Sum(D[0][i], v), D[j][k])
  <2>1. /\ D[0][i] \in Int /\ D[j][k] \in Int /\ Sum(D[0][i], v) \in Int
        /\ -M <= b(D[0][i]) /\ -M <= b(D[j][k])
        /\ b(D[0][i]) \in Int /\ b(D[j][k]) \in Int
    BY <1>1, <1>2, <1>3, <1>5, <1>6, <1>13
  <2>2. b(E[0][k]) = b(D[0][i]) + b(v) + b(D[j][k])
    BY <1>5, <1>6, <1>13, <2>1
  <2>3. CASE i = 0
    <3>1. b(D[0][i]) = 0
      BY <1>1, <1>4, <2>3 DEF b, dbm_LE_ZERO, dbm_raw2bound
    <3>2. CASE j = k
      <4>1. b(D[j][k]) = 0
        BY <1>1, <1>4, <3>2 DEF b, dbm_LE_ZERO, dbm_raw2bound
      <4> QED
        BY <1>1, <1>5, <1>9, <2>2, <3>1, <4>1 DEF b, M
    <3>3. CASE k = 0
      <4>1. D[j][0] # dbm_LS_INFINITY /\ D[j][0] \in Int
        BY <1>13, <3>3, <2>1
      <4>2. 1 <= Sum(v, D[j][0])
        BY <2>3, <4>1 DEF Sum, dbm_LE_ZERO
      <4>3. 0 <= b(v) + b(D[j][0])
        <5>1. b(1) <= b(v) + b(D[j][0])
          BY <1>15, <1>5, <4>1, <4>2
        <5> QED
          BY <5>1, <1>16
      <4> QED
        BY <1>1, <1>5, <1>9, <2>1, <2>2, <3>1, <3>3, <4>3 DEF b, M
    <3>4. CASE j # k /\ k # 0
      <4>1. 3 <= dim
        <5>1. j \in 0 .. dim - 1 /\ k \in 0 .. dim - 1 /\ j # 0
          BY <2>3 DEF Clk
        <5> QED
          BY <5>1, <3>4, <1>1
      <4> QED
        BY <1>1, <1>5, <1>9, <1>10, <2>1, <2>2, <3>1, <4>1 DEF b, M
    <3> QED
      BY <3>2, <3>3, <3>4
  <2>4. CASE j = k /\ i # 0
    <3>1. b(D[j][k]) = 0
      BY <1>1, <1>4, <2>4 DEF b, dbm_LE_ZERO, dbm_raw2bound
    <3>2. CASE j # 0
      <4>1. 3 <= dim
        <5>1. j \in 0 .. dim - 1 /\ i \in 0 .. dim - 1
          BY DEF Clk
        <5> QED
          BY <5>1, <3>2, <2>4, <1>1
      <4> QED
        BY <1>1, <1>5, <1>9, <1>10, <2>1, <2>2, <3>1, <4>1 DEF b, M
    <3>3. CASE j = 0
      <4>1. 1 <= Sum(v, D[0][i])
        BY <1>1, <1>4, <3>3 DEF Sum, dbm_LE_ZERO
      <4>2. 0 <= b(v) + b(D[0][i])
        <5>1. b(1) <= b(v) + b(D[0][i])
          BY <1>15, <1>5, <2>1, <4>1
        <5> QED
          BY <5>1, <1>16
      <4> QED
        BY <1>1, <1>5, <1>9, <2>1, <2>2, <3>1, <4>2 DEF b, M
    <3> QED
      BY <3>2, <3>3
  <2>5. CASE j # k /\ i # 0 /\ j = 0
    <3>1. 1 <= Sum(v, D[0][i])
      BY <1>1, <1>4, <2>5 DEF Sum, dbm_LE_ZERO
    <3>2. 0 <= b(v) + b(D[0][i])
      <4>1. b(1) <= b(v) + b(D[0][i])
        BY <1>15, <1>5, <2>1, <3>1
      <4> QED
        BY <4>1, <1>16
    <3> QED
      BY <1>1, <1>5, <1>9, <2>1, <2>2, <3>2 DEF b, M
  <2>6. CASE j # k /\ i # 0 /\ j # 0 /\ i = k
    <3>1. D[j][i] # dbm_LS_INFINITY /\ D[j][i] = D[j][k]
      BY <1>13, <2>6
    <3>2. 1 <= Sum(v, D[j][k])
      BY <3>1 DEF Sum, dbm_LE_ZERO
    <3>3. 0 <= b(v) + b(D[j][k])
      <4>1. b(1) <= b(v) + b(D[j][k])
        BY <1>15, <1>5, <2>1, <3>2
      <4> QED
        BY <4>1, <1>16
    <3> QED
      BY <1>1, <1>5, <1>9, <2>1, <2>2, <3>3 DEF b, M
  <2>7. CASE j # k /\ i # 0 /\ j # 0 /\ i # k /\ k = 0
    <3>1. 3 <= dim
      <4>1. j \in 0 .. dim - 1 /\ i \in 0 .. dim - 1
        BY DEF Clk
      <4> QED
        BY <4>1, <2>7, <1>1
    <3>2. D[j][0] # dbm_LS_INFINITY /\ D[j][k] = D[j][0]
      BY <1>13, <2>7
    <3>3. /\ D[j][i] # dbm_LS_INFINITY /\ D[j][i] \in Int
          /\ D[j][i] <= Sum(D[j][0], D[0][i])
      BY <1>1, <1>2, <1>4, <3>2, ZoneEntries DEF Sum
    <3>4. 1 <= Sum(v, D[j][i])
      BY <3>3 DEF Sum, dbm_LE_ZERO
    <3>5. 0 <= b(v) + b(D[j][i])
      <4>1. b(1) <= b(v) + b(D[j][i])
        BY <1>15, <1>5, <3>3, <3>4
      <4> QED
        BY <4>1, <1>16
    <3>6. b(D[j][i]) <= b(D[j][0]) + b(D[0][i])
      BY <1>15, <2>1, <3>2, <3>3
    <3>7. b(D[j][i]) \in Int
      BY <1>6, <3>3
    <3> QED
      BY <1>1, <1>5, <1>9, <2>1, <2>2, <3>2, <3>5, <3>6, <3>7 DEF b, M
  <2>8. CASE j # k /\ i # 0 /\ j # 0 /\ i # k /\ k # 0
    <3>1. 4 <= dim
      <4>1. j \in 0 .. dim - 1 /\ i \in 0 .. dim - 1 /\ k \in 0 .. dim - 1
        BY DEF Clk
      <4> QED
        BY <4>1, <2>8, <1>1
    <3> QED
      BY <1>1, <1>5, <1>9, <1>11, <2>1, <2>2, <3>1 DEF b, M
  <2> QED
    BY <2>3, <2>4, <2>5, <2>6, <2>7, <2>8
<1>14. \/ E[0][k] = D[0][k]
       \/ /\ D[0][i] # dbm_LS_INFINITY /\ D[j][k] # dbm_LS_INFINITY
          /\ E[0][k] = Sum(Sum(D[0][i], v), D[j][k])
  BY <1>1 DEF ThroughEdge, Sum
<1> QED
  BY <1>12, <1>13, <1>14

\* The constants that zones have are among them, and their negations.
LEMMA ConstantsOfZone ==
  ASSUME NEW D, NEW B, IsZone(D, B), InBounds(D), NEW i \in Clk, NEW j \in Clk,
         D[i][j] # dbm_LS_INFINITY
  PROVE  Constant(D[i][j]) /\ Constant(dbm_negRaw(D[i][j]))
<1>1. PICK x \in Int : x = D[i][j]
  BY ZoneEntries
<1>2. MaxBound \in Nat
  BY BoundsAssumption
<1>3. dbm_raw2bound(x) \in -MaxBound .. MaxBound
  BY <1>1 DEF InBounds
<1>4. -MaxBound <= x \div 2 /\ x \div 2 <= MaxBound /\ x \div 2 \in Int
  BY <1>2, <1>3 DEF dbm_raw2bound
<1>5. x = 2 * (x \div 2) + (x % 2) /\ x % 2 \in {0, 1}
  OBVIOUS
<1>6. -(2 * MaxBound) <= x /\ x <= 2 * MaxBound + 1
  BY <1>2, <1>4, <1>5
<1> QED
  BY <1>1, <1>2, <1>6 DEF Constant, dbm_negRaw

\* A zone has a valuation that satisfies a constraint when the opposite bound does not
\* exclude it.
LEMMA Satisfiable ==
  ASSUME NEW D, IsZone(D, Before), InBounds(D), NEW i \in Clk, NEW j \in Clk, i # j,
         NEW v, Constant(v), D[i][j] > v => dbm_negRaw(v) < D[j][i]
  PROVE  \E pt \in Valuations : In(pt, D) /\ Within(pt[i] - pt[j], v, Grid)
<1>1. /\ MaxBound \in Nat /\ dim \in Nat \ {0} /\ 0 \in Clk /\ 2 <= dim /\ Grid \in Nat \ {0}
  <2>1. i \in 0 .. dim - 1 /\ j \in 0 .. dim - 1 /\ dim \in Nat \ {0}
    BY DimAssumption DEF Clk
  <2>2. 2 <= dim
    BY <2>1
  <2> QED
    BY <2>1, <2>2, BoundsAssumption DEF Clk
<1>2. v \in Int /\ -Before < v /\ v < Before
  BY <1>1 DEF Constant, Before
<1>3. D[i][j] \in Int /\ D[j][i] \in Int /\ D \in WideMatrix /\ Closed(D) /\ Bounded(D, Before)
      /\ ZeroDiagonal(D)
  BY ZoneEntries DEF IsZone, Closed
<1>4. CASE D[i][j] <= v
  <2>1. \A k \in Clk : -((dim - 1) * MaxBound) <= dbm_raw2bound(D[0][k])
    <3> SUFFICES ASSUME NEW k \in Clk
                 PROVE  -((dim - 1) * MaxBound) <= dbm_raw2bound(D[0][k])
      OBVIOUS
    <3>1. -MaxBound <= dbm_raw2bound(D[0][k]) /\ dbm_raw2bound(D[0][k]) \in Int
      BY <1>1, ZoneEntries, RawParts DEF InBounds
    <3>2. MaxBound <= (dim - 1) * MaxBound /\ (dim - 1) * MaxBound \in Nat
      <4>1. 1 \in Nat /\ dim - 1 \in Nat /\ 1 <= dim - 1 /\ 1 * MaxBound = MaxBound
        BY <1>1
      <4> QED
        BY <1>1, <4>1, Multiples
    <3> QED
      BY <1>1, <3>1, <3>2
  <2>2. PICK pt \in Valuations : In(pt, D)
    BY <2>1, Bounds, SomeValuation
  <2>3. Within(pt[i] - pt[j], D[i][j], Grid) /\ pt[i] - pt[j] \in Int
    BY <2>2, ValuationValues DEF In, dbm_isRealPointIncluded
  <2> QED
    BY <1>1, <1>2, <1>3, <1>4, <2>2, <2>3, WithinMonotone
<1>5. CASE v < D[i][j]
  <2> DEFINE E == dbm_closeij([D EXCEPT ![i][j] = v], i, j)
  <2>1. dbm_negRaw(v) < D[j][i]
    BY <1>2, <1>3, <1>5
  <2>2. dbm_LE_ZERO <= dbm_addFiniteFinite(v, D[j][i])
    BY <1>2, <1>3, <2>1 DEF dbm_negRaw, dbm_LE_ZERO, dbm_addFiniteFinite
  <2>3. ThroughEdge(E, D, i, j, v) /\ E \in [Clk -> [Clk -> Int]]
    BY <1>2, <1>3, <1>5, <2>2, Bounds, CloseijIsThroughEdge
  <2> HIDE DEF E
  <2>4. Closed(E)
    BY <1>2, <1>3, <2>2, <2>3, ThroughEdgeCloses
  <2>5. Bounded(E, 3 * Before)
    BY <1>2, <1>3, <2>3, Bounds, ThroughEdgeBounds
  <2>6. \A c, d \in Clk : E[c][d] \in Int /\ E[c][d] <= D[c][d]
    BY <2>3 DEF ThroughEdge
  <2>7. E \in WideMatrix /\ \A d \in Clk : E[0][d] <= dbm_LE_ZERO
    <3>1. \A c, d \in Clk : D[c][d] \in Int /\ D[c][d] <= dbm_LS_INFINITY
      BY ZoneEntries
    <3>2. \A c, d \in Clk : E[c][d] <= dbm_LS_INFINITY
      BY <2>6, <3>1, Infinity
    <3>3. E = [c \in Clk |-> [d \in Clk |-> E[c][d]]]
      BY <2>3
    <3>4. E \in WideMatrix
      BY <2>6, <3>2, <3>3, EntriesType
    <3>5. \A d \in Clk : D[0][d] \in Int /\ D[0][d] <= dbm_LE_ZERO
      BY <1>1, ZoneEntries
    <3>6. \A d \in Clk : E[0][d] <= dbm_LE_ZERO
      BY <1>1, <2>6, <3>5, Infinity
    <3> QED
      BY <3>4, <3>6
  <2>8. IsZone(E, 3 * Before) /\ 3 * Before \in Nat
    BY <2>4, <2>5, <2>7, Bounds DEF IsZone
  <2>9. \A k \in Clk : -((dim - 1) * MaxBound) <= dbm_raw2bound(E[0][k])
    BY <2>2, <2>3, LowerBounds
  <2>10. PICK pt \in Valuations : In(pt, E)
    BY <2>8, <2>9, SomeValuation
  <2>11. pt \in [Clk -> Int]
    BY ValuationValues
  <2>12. In(pt, D) /\ Within(pt[i] - pt[j], v, Grid)
    BY <1>1, <1>2, <1>3, <2>3, <2>10, <2>11, Bounds, ThroughEdgePoints DEF In
  <2> QED
    BY <2>12
<1> QED
  BY <1>2, <1>3, <1>4, <1>5

\* Opposite bounds exclude each other: the points of one zone are not within the other.
LEMMA Excluded ==
  ASSUME NEW x \in Int, x < dbm_LS_INFINITY, dbm_negRaw(x) < dbm_LS_INFINITY,
         NEW y \in Int, y <= dbm_negRaw(x), NEW d \in Int, NEW g \in Nat \ {0},
         Within(-d, y, g)
  PROVE  ~Within(d, x, g)
<1>1. dbm_negRaw(x) \in Int /\ -d \in Int
  BY DEF dbm_negRaw
<1>2. Within(-d, dbm_negRaw(x), g)
  BY <1>1, WithinMonotone
<1> QED
  BY <1>2, WithinNegated

\* The constants of constraints and their negations are finite.
LEMMA ConstantFinite ==
  ASSUME NEW v, Constant(v)
  PROVE  /\ v \in Int /\ dbm_negRaw(v) \in Int /\ Constant(dbm_negRaw(v))
         /\ v < dbm_LS_INFINITY /\ dbm_negRaw(v) < dbm_LS_INFINITY
         /\ dbm_negRaw(dbm_negRaw(v)) = v
<1>1. 2 * MaxBound + 1 < dbm_LS_INFINITY /\ MaxBound \in Nat
  BY Bounds, Infinity DEF Before, dbm_LE_OVERFLOW, dbm_LS_INFINITY
<1> QED
  BY <1>1, Infinity DEF Constant, dbm_negRaw

\* The difference of two clocks of a valuation.
LEMMA Differences ==
  ASSUME NEW pt \in Valuations, NEW i \in Clk, NEW j \in Clk
  PROVE  pt[i] - pt[j] \in Int /\ pt[j] - pt[i] = -(pt[i] - pt[j])
<1>1. pt[i] \in Int /\ pt[j] \in Int
  BY ValuationValues
<1> QED
  BY <1>1

\* dbm_satisfies compares two bounds, and says whether a valuation satisfies a constraint.
LEMMA SatisfiesExact ==
  ASSUME NEW D, IsZone(D, Before), InBounds(D), NEW c \in Constraints
  PROVE  dbm_satisfies(D, c)
           <=> \E pt \in ZoneOf(D) : Within(pt[c.i] - pt[c.j], c.value, Grid)
<1>1. /\ c.i \in Clk /\ c.j \in Clk /\ c.i # c.j /\ Constant(c.value) /\ Grid \in Nat \ {0}
  <2>1. c.i \in Clk /\ c.j \in Clk /\ c.i # c.j /\ c.value \in Raws
    BY DEF Constraints
  <2>2. \A v \in Raws : Constant(v)
    BY RawsAssumption, BoundsAssumption DEF Constant
  <2> QED
    BY <2>1, <2>2, BoundsAssumption
<1> DEFINE i == c.i
           j == c.j
           v == c.value
<1>2. /\ v \in Int /\ dbm_negRaw(v) \in Int /\ D[i][j] \in Int /\ D[j][i] \in Int
      /\ v < dbm_LS_INFINITY /\ dbm_negRaw(v) < dbm_LS_INFINITY
  BY <1>1, ConstantFinite, ZoneEntries
<1>3. ASSUME dbm_satisfies(D, c)
      PROVE  \E pt \in ZoneOf(D) : Within(pt[c.i] - pt[c.j], c.value, Grid)
  <2>1. D[i][j] > v => dbm_negRaw(v) < D[j][i]
    BY <1>2, <1>3 DEF dbm_satisfies
  <2>2. PICK pt \in Valuations : In(pt, D) /\ Within(pt[i] - pt[j], v, Grid)
    BY <1>1, <2>1, Satisfiable
  <2> QED
    BY <2>2 DEF ZoneOf
<1>4. ASSUME NEW pt \in ZoneOf(D), Within(pt[i] - pt[j], v, Grid)
      PROVE  dbm_satisfies(D, c)
  <2>1. pt \in Valuations /\ In(pt, D)
    BY <1>4 DEF ZoneOf
  <2>2. Within(pt[j] - pt[i], D[j][i], Grid)
    BY <1>1, <2>1 DEF In, dbm_isRealPointIncluded
  <2>3. pt[i] - pt[j] \in Int /\ Within(-(pt[i] - pt[j]), D[j][i], Grid)
    BY <1>1, <2>1, <2>2, Differences
  <2>4. ~(D[j][i] <= dbm_negRaw(v))
    BY <1>1, <1>2, <1>4, <2>3, Excluded
  <2> QED
    BY <1>2, <2>4 DEF dbm_satisfies
<1> QED
  BY <1>3, <1>4

\* Smaller bounds give a smaller zone, and only they do: a bound that is not smaller is
\* exceeded by a valuation.
LEMMA SubsetExact ==
  ASSUME NEW D, IsZone(D, Before), InBounds(D), NEW S, IsZone(S, Before), InBounds(S)
  PROVE  dbm_isSubsetEq(D, S) <=> ZoneOf(D) \subseteq ZoneOf(S)
<1>1. \A i, j \in Clk : D[i][j] \in Int /\ S[i][j] \in Int /\ D[i][j] <= dbm_LS_INFINITY
  BY ZoneEntries
<1>2. Grid \in Nat \ {0}
  BY BoundsAssumption
<1>3. ASSUME dbm_isSubsetEq(D, S), NEW pt \in ZoneOf(D)
      PROVE  pt \in ZoneOf(S)
  <2>1. pt \in Valuations /\ In(pt, D)
    BY DEF ZoneOf
  <2>2. \A i, j \in Clk : Within(pt[i] - pt[j], S[i][j], Grid)
    <3> SUFFICES ASSUME NEW i \in Clk, NEW j \in Clk
                 PROVE  Within(pt[i] - pt[j], S[i][j], Grid)
      OBVIOUS
    <3>1. Within(pt[i] - pt[j], D[i][j], Grid) /\ D[i][j] <= S[i][j]
      BY <1>3, <2>1 DEF In, dbm_isRealPointIncluded, dbm_isSubsetEq
    <3>2. pt[i] - pt[j] \in Int
      BY <2>1, Differences
    <3> QED
      BY <1>1, <1>2, <3>1, <3>2, WithinMonotone
  <2> QED
    BY <2>1, <2>2 DEF ZoneOf, In, dbm_isRealPointIncluded
<1>4. ASSUME ~dbm_isSubsetEq(D, S)
      PROVE  \E pt \in ZoneOf(D) : pt \notin ZoneOf(S)
  <2>1. PICK i \in Clk, j \in Clk : S[i][j] < D[i][j]
    BY <1>1, <1>4 DEF dbm_isSubsetEq
  <2>2. i # j
    <3>1. S[i][i] = dbm_LE_ZERO /\ D[i][i] = dbm_LE_ZERO
      BY ZoneEntries
    <3> QED
      BY <1>1, <2>1, <3>1
  <2>3. S[i][j] # dbm_LS_INFINITY
    BY <1>1, <2>1, Infinity
  <2> DEFINE x == S[i][j]
             v == dbm_negRaw(x)
  <2>4. Constant(x) /\ Constant(v)
    BY <2>3, ConstantsOfZone
  <2>5. /\ x \in Int /\ v \in Int /\ x < dbm_LS_INFINITY /\ v < dbm_LS_INFINITY
        /\ dbm_negRaw(v) = x
    BY <2>4, ConstantFinite
  <2> HIDE DEF v
  <2>6. PICK pt \in Valuations : In(pt, D) /\ Within(pt[j] - pt[i], v, Grid)
    <3>1. D[j][i] > v => dbm_negRaw(v) < D[i][j]
      BY <2>1, <2>5
    <3> QED
      BY <2>2, <2>4, <3>1, Satisfiable
  <2>7. pt[i] - pt[j] \in Int /\ Within(-(pt[i] - pt[j]), v, Grid)
    BY <2>6, Differences
  <2>8. v <= dbm_negRaw(x)
    BY <2>5 DEF v
  <2>9. dbm_negRaw(x) < dbm_LS_INFINITY
    BY <2>5 DEF v
  <2>10. ~Within(pt[i] - pt[j], x, Grid)
    BY <1>2, <2>5, <2>7, <2>8, <2>9, Excluded
  <2>11. ~In(pt, S)
    BY <2>10 DEF In, dbm_isRealPointIncluded
  <2> QED
    BY <2>6, <2>11 DEF ZoneOf
<1> QED
  BY <1>3, <1>4

\* Closed forms are unique: zones with the same valuations have the same bounds.
LEMMA SameZoneSameBounds ==
  ASSUME NEW D, IsZone(D, Before), InBounds(D), NEW S, IsZone(S, Before), InBounds(S)
  PROVE  D = S <=> ZoneOf(D) = ZoneOf(S)
<1>1. ASSUME ZoneOf(D) = ZoneOf(S) PROVE D = S
  <2>1. dbm_isSubsetEq(D, S) /\ dbm_isSubsetEq(S, D)
    BY <1>1, SubsetExact
  <2> QED
    BY <2>1, NoLooserBoth DEF dbm_isSubsetEq, NoLooser, IsZone
<1> QED
  BY <1>1

\* dbm_relation compares the bounds, and answers for the zones.
LEMMA RelationExact ==
  ASSUME NEW D, IsZone(D, Before), InBounds(D), NEW S, IsZone(S, Before), InBounds(S)
  PROVE  dbm_relation(D, S) =
           IF ZoneOf(D) = ZoneOf(S) THEN "equal"
           ELSE IF ZoneOf(D) \subseteq ZoneOf(S) THEN "subset"
           ELSE IF ZoneOf(S) \subseteq ZoneOf(D) THEN "superset" ELSE "different"
<1>1. /\ dbm_isSubsetEq(D, S) <=> ZoneOf(D) \subseteq ZoneOf(S)
      /\ dbm_isSubsetEq(S, D) <=> ZoneOf(S) \subseteq ZoneOf(D)
      /\ D = S <=> ZoneOf(D) = ZoneOf(S)
  BY SubsetExact, SameZoneSameBounds
<1> QED
  BY <1>1 DEF dbm_relation

\* When dbm_haveIntersection says no, the zones have no common valuation.
LEMMA DisjointExact ==
  ASSUME NEW D, IsZone(D, Before), InBounds(D), NEW S, IsZone(S, Before), InBounds(S),
         ~dbm_haveIntersection(D, S)
  PROVE  ZoneOf(D) \cap ZoneOf(S) = {}
<1>1. ASSUME NEW pt \in ZoneOf(D), pt \in ZoneOf(S) PROVE FALSE
  <2>1. pt \in Valuations /\ In(pt, D) /\ In(pt, S)
    BY <1>1 DEF ZoneOf
  <2>2. \A i, j \in Clk : D[i][j] \in Int /\ S[i][j] \in Int
    BY ZoneEntries
  <2>3. Grid \in Nat \ {0}
    BY BoundsAssumption
  <2>4. ASSUME NEW i \in Clk, NEW j \in Clk, NEW X, NEW Y, IsZone(X, Before), InBounds(X),
               In(pt, X), In(pt, Y), X[i][j] # dbm_LS_INFINITY,
               Y[j][i] \in Int
        PROVE  dbm_negRaw(X[i][j]) < Y[j][i]
    <3>1. /\ X[i][j] \in Int /\ X[i][j] < dbm_LS_INFINITY
          /\ dbm_negRaw(X[i][j]) \in Int /\ dbm_negRaw(X[i][j]) < dbm_LS_INFINITY
      BY <2>4, ConstantsOfZone, ConstantFinite
    <3>2. Within(pt[i] - pt[j], X[i][j], Grid) /\ Within(pt[j] - pt[i], Y[j][i], Grid)
      BY <2>4 DEF In, dbm_isRealPointIncluded
    <3>3. pt[i] - pt[j] \in Int /\ pt[j] - pt[i] = -(pt[i] - pt[j])
      BY <2>1, Differences
    <3>4. ~(Y[j][i] <= dbm_negRaw(X[i][j]))
      BY <2>3, <2>4, <3>1, <3>2, <3>3, Excluded
    <3> QED
      BY <2>4, <3>1, <3>4
  <2>5. dbm_haveIntersection(D, S)
    <3> SUFFICES ASSUME NEW i \in Clk \ {0}, NEW j \in 0 .. i - 1
                 PROVE  /\ D[i][j] # dbm_LS_INFINITY => dbm_negRaw(D[i][j]) < S[j][i]
                        /\ S[i][j] # dbm_LS_INFINITY => dbm_negRaw(S[i][j]) < D[j][i]
      BY DEF dbm_haveIntersection
    <3>1. j \in Clk
      BY DimAssumption DEF Clk
    <3> QED
      BY <2>1, <2>2, <2>4, <3>1
  <2> QED
    BY <2>5
<1> QED
  BY <1>1

\* The valuation in which all clocks are 0.
LEMMA Origin ==
  [c \in Clk |-> 0] \in Valuations
<1> DEFINE n == [k \in Clocks |-> 0]
<1>1. n \in [Clocks -> 0 .. Horizon \div 2]
  <2>1. Horizon \in Nat
    BY BoundsAssumption
  <2>2. 0 \in 0 .. Horizon \div 2
    BY <2>1
  <2> QED
    BY <2>2
<1>2. \A f \in [Clocks -> 0 .. Horizon \div 2] :
        [k \in Clk |-> IF k = 0 THEN 0 ELSE 2 * f[k]] \in Valuations
  BY DEF Valuations
<1>3. [k \in Clk |-> IF k = 0 THEN 0 ELSE 2 * n[k]] = [c \in Clk |-> 0]
  <2>1. \A k \in Clk \ {0} : 2 * n[k] = 0
    BY DEF Clocks
  <2> QED
    BY <2>1
<1> QED
  BY <1>1, <1>2, <1>3

\* dbm_hasZero looks at the lower bounds alone: the others follow.
LEMMA HasZeroExact ==
  ASSUME NEW D, IsZone(D, Before)
  PROVE  dbm_hasZero(D) <=> [c \in Clk |-> 0] \in ZoneOf(D)
<1> DEFINE o == [c \in Clk |-> 0]
<1>1. /\ \A i, j \in Clk : D[i][j] \in Int /\ D[i][j] <= dbm_LS_INFINITY
      /\ 0 \in Clk /\ Grid \in Nat \ {0}
      /\ \A i \in Clk : D[0][i] <= dbm_LE_ZERO /\ D[0][i] # dbm_LS_INFINITY
      /\ D[0][0] = dbm_LE_ZERO
  BY ZoneEntries, BoundsAssumption
<1>2. o \in ZoneOf(D) <=> \A i, j \in Clk : dbm_LE_ZERO <= D[i][j]
  <2>1. o \in ZoneOf(D) <=> \A i, j \in Clk : Within(o[i] - o[j], D[i][j], Grid)
    BY Origin DEF ZoneOf, In, dbm_isRealPointIncluded
  <2>2. \A i, j \in Clk : o[i] - o[j] = 0
    OBVIOUS
  <2>3. \A i, j \in Clk : Within(o[i] - o[j], D[i][j], Grid) <=> dbm_LE_ZERO <= D[i][j]
    <3> SUFFICES ASSUME NEW i \in Clk, NEW j \in Clk
                 PROVE  Within(0, D[i][j], Grid) <=> dbm_LE_ZERO <= D[i][j]
      BY <2>2
    <3>1. D[i][j] < dbm_LE_ZERO => ~Within(0, D[i][j], Grid)
      BY <1>1, WithinZero
    <3>2. dbm_LE_ZERO <= D[i][j] => Within(0, D[i][j], Grid)
      BY <1>1, SelfFits, Infinity, WithinMonotone
    <3> QED
      BY <1>1, <3>1, <3>2, Infinity
  <2> QED
    BY <2>1, <2>3
<1>3. ASSUME dbm_hasZero(D), NEW i \in Clk, NEW j \in Clk
      PROVE  dbm_LE_ZERO <= D[i][j]
  <2>1. \A k \in Clk : D[0][k] = dbm_LE_ZERO
    BY <1>1, <1>3, Infinity DEF dbm_hasZero
  <2>2. CASE D[i][j] = dbm_LS_INFINITY
    BY <2>2, Infinity
  <2>3. CASE D[i][j] # dbm_LS_INFINITY
    <3>1. D[0][j] <= dbm_addFiniteFinite(D[0][i], D[i][j])
      BY <1>1, <2>3, ZoneEntries
    <3>2. D[0][j] <= D[i][j]
      BY <1>1, <2>1, <3>1, AddZero
    <3> QED
      BY <2>1, <3>2
  <2> QED
    BY <2>2, <2>3
<1>4. ASSUME \A i, j \in Clk : dbm_LE_ZERO <= D[i][j]
      PROVE  dbm_hasZero(D)
  BY <1>1, <1>4, Infinity DEF dbm_hasZero
<1> QED
  BY <1>2, <1>3, <1>4

\* The bounds of the origin are constants of a zone.
LEMMA ZeroInBounds ==
  InBounds(dbm_zero)
<1>1. MaxBound \in Nat /\ dbm_raw2bound(dbm_LE_ZERO) = 0
  BY BoundsAssumption DEF dbm_raw2bound, dbm_LE_ZERO
<1>2. dbm_raw2bound(dbm_LE_ZERO) \in -MaxBound .. MaxBound
  BY <1>1
<1> QED
  BY <1>2 DEF InBounds, dbm_zero

\* The tests for the two zones that calls start from.
LEMMA InitAndZeroExact ==
  ASSUME NEW D, IsZone(D, Before), InBounds(D)
  PROVE  /\ dbm_isEqualToInit(D) <=> ZoneOf(D) = Valuations
         /\ dbm_isEqualToZero(D) <=> ZoneOf(D) = {[c \in Clk |-> 0]}
<1>1. ZoneOf(dbm_init) = Valuations
  BY ResetPoints DEF ZoneOf
<1>2. ZoneOf(dbm_zero) = {[c \in Clk |-> 0]}
  <2>1. ASSUME NEW pt \in Valuations
        PROVE  (\A k \in Clk : pt[k] = 0) <=> pt = [c \in Clk |-> 0]
    BY ValuationValues
  <2> QED
    BY <2>1, ResetPoints, Origin DEF ZoneOf
<1>3. /\ IsZone(dbm_init, Before) /\ InBounds(dbm_init)
      /\ IsZone(dbm_zero, Before) /\ InBounds(dbm_zero)
  BY InitBefore, InitInBounds, ZeroInBounds
<1>4. D = dbm_init <=> ZoneOf(D) = ZoneOf(dbm_init)
  BY <1>3, SameZoneSameBounds
<1>5. D = dbm_zero <=> ZoneOf(D) = ZoneOf(dbm_zero)
  BY <1>3, SameZoneSameBounds
<1> QED
  BY <1>1, <1>2, <1>4, <1>5 DEF dbm_isEqualToInit, dbm_isEqualToZero

\* No zone is without valuations.
LEMMA ZoneHasValuation ==
  ASSUME NEW D, IsZone(D, Before), InBounds(D)
  PROVE  \E pt \in Valuations : In(pt, D)
<1>1. MaxBound \in Nat /\ dim \in Nat \ {0} /\ 0 \in Clk
  BY DimAssumption, BoundsAssumption DEF Clk
<1>2. ASSUME NEW k \in Clk
      PROVE  -((dim - 1) * MaxBound) <= dbm_raw2bound(D[0][k])
  <2>1. -MaxBound <= dbm_raw2bound(D[0][k]) /\ dbm_raw2bound(D[0][k]) \in Int
    BY <1>1, ZoneEntries, RawParts DEF InBounds
  <2>2. (dim - 1) * MaxBound \in Nat
    BY <1>1
  <2>3. CASE k = 0
    <3>1. dbm_raw2bound(D[0][0]) = 0
      BY <1>1, ZoneEntries DEF dbm_raw2bound, dbm_LE_ZERO
    <3> QED
      BY <2>2, <2>3, <3>1
  <2>4. CASE k # 0
    <3>1. 1 \in Nat /\ dim - 1 \in Nat /\ 1 <= dim - 1 /\ 1 * MaxBound = MaxBound
      BY <1>1, <2>4 DEF Clk
    <3>2. MaxBound <= (dim - 1) * MaxBound
      BY <1>1, <3>1, Multiples
    <3> QED
      BY <1>1, <2>1, <2>2, <3>2
  <2> QED
    BY <2>3, <2>4
<1> QED
  BY <1>2, Bounds, SomeValuation

\* dbm_isUnbounded looks for upper bounds.  A clock that has one is not beyond the horizon.
LEMMA UnboundedExact ==
  ASSUME NEW D, IsZone(D, Before), InBounds(D)
  PROVE  dbm_isUnbounded(D)
           <=> \E pt \in ZoneOf(D) : In(Moved(pt, Clocks, 2 * Horizon), D)
<1>1. /\ MaxBound \in Nat /\ Grid \in Nat \ {0} /\ Horizon \in Nat /\ 0 \in Clk
      /\ 2 * Horizon \in Nat /\ dim \in Nat \ {0}
      /\ \A i, j \in Clk : D[i][j] \in Int
  BY BoundsAssumption, DimAssumption, ZoneEntries
<1>2. ASSUME dbm_isUnbounded(D)
      PROVE  \E pt \in ZoneOf(D) : In(Moved(pt, Clocks, 2 * Horizon), D)
  <2>1. PICK pt \in Valuations : In(pt, D)
    BY ZoneHasValuation
  <2> DEFINE h == 2 * Horizon
             q == Moved(pt, Clocks, h)
  <2>2. /\ \A i \in Clk : pt[i] \in Int
        /\ \A i \in Clk : q[i] = IF i = 0 THEN pt[i] ELSE pt[i] + h
    BY <2>1, ValuationValues DEF Moved, Clocks
  <2> HIDE DEF q, h
  <2>3. ASSUME NEW i \in Clk, NEW j \in Clk
        PROVE  Within(q[i] - q[j], D[i][j], Grid)
    <3>1. CASE i # 0 /\ j = 0
      BY <3>1, <1>2, SelfFits DEF dbm_isUnbounded
    <3>2. CASE i = 0 \/ j # 0
      <4>1. q[i] - q[j] \in Int /\ pt[i] - pt[j] \in Int /\ q[i] - q[j] <= pt[i] - pt[j]
        BY <1>1, <2>2, <3>2 DEF h
      <4>2. Within(pt[i] - pt[j], D[i][j], Grid)
        BY <2>1 DEF In, dbm_isRealPointIncluded
      <4> QED
        BY <1>1, <4>1, <4>2, WithinLess
    <3> QED
      BY <3>1, <3>2
  <2> QED
    BY <2>1, <2>3 DEF ZoneOf, In, dbm_isRealPointIncluded, q, h
<1>3. ASSUME NEW pt \in ZoneOf(D), In(Moved(pt, Clocks, 2 * Horizon), D), NEW k \in Clk \ {0}
      PROVE  D[k][0] = dbm_LS_INFINITY
  <2> SUFFICES ASSUME D[k][0] # dbm_LS_INFINITY PROVE FALSE
    OBVIOUS
  <2>1. pt \in Valuations
    BY DEF ZoneOf
  <2>2. pt[k] \in Int /\ 0 <= pt[k] /\ pt[0] = 0
    BY <2>1, ValuationValues
  <2> DEFINE q == Moved(pt, Clocks, 2 * Horizon)
  <2>3. q[k] = pt[k] + 2 * Horizon /\ q[0] = 0
    BY <1>1, <2>2 DEF Moved, Clocks
  <2>4. Within(q[k] - q[0], D[k][0], Grid)
    BY <1>1, <1>3 DEF In, dbm_isRealPointIncluded
  <2>5. PICK d \in Int : d = q[k] - q[0] /\ 2 * Horizon <= d
    BY <1>1, <2>2, <2>3
  <2>11. Within(d, D[k][0], Grid)
    BY <2>4, <2>5
  <2>6. PICK b \in Int : b = dbm_raw2bound(D[k][0]) /\ b <= MaxBound
    BY <1>1, RawParts DEF InBounds
  <2>7. D[k][0] < dbm_LS_INFINITY
    BY <1>1, ZoneEntries, Infinity
  <2>8. d <= b * Grid /\ b * Grid \in Int
    <3>1. PICK w \in Int : w = b * Grid
      BY <1>1
    <3>2. d <= w \/ d < w
      BY <1>1, <2>6, <2>7, <2>11, <3>1, Infinity DEF Within
    <3> QED
      BY <3>1, <3>2
  <2>9. b * Grid <= MaxBound * Grid /\ MaxBound * Grid \in Nat
    <3>1. b < MaxBound => b * Grid < MaxBound * Grid
      BY <1>1, <2>6, ScaleStrict
    <3>2. MaxBound * Grid \in Nat
      BY <1>1
    <3> QED
      BY <1>1, <2>6, <2>8, <3>1, <3>2
  <2>10. MaxBound * Grid + 2 <= Horizon
    <3> DEFINE m == MaxBound * Grid + 2
    <3>1. 1 \in Nat /\ dim - 1 \in Nat /\ 1 <= dim - 1 /\ m \in Nat
      BY <1>1, <2>9 DEF Clk
    <3> HIDE DEF m
    <3>2. 1 * m <= (dim - 1) * m /\ 1 * m = m /\ (dim - 1) * m \in Nat
      BY <3>1, Multiples
    <3>3. (dim - 1) * m <= Horizon
      BY GridAssumption DEF m
    <3>4. m <= Horizon
      BY <1>1, <3>1, <3>2, <3>3
    <3> QED
      BY <3>4 DEF m
  <2> QED
    BY <1>1, <2>5, <2>8, <2>9, <2>10
<1> QED
  BY <1>2, <1>3 DEF dbm_isUnbounded

\* The tests for freed clocks look at the entries that freeing writes.
LEMMA FreedExact ==
  ASSUME NEW D, IsZone(D, Before)
  PROVE  /\ dbm_isFreedAllUp(D) <=> dbm_freeAllUp(D) = D
         /\ dbm_testFreeAllDown(D) <=> dbm_freeAllDown(D) = D
<1>1. /\ D = [i \in Clk |-> [j \in Clk |-> D[i][j]]]
      /\ \A i \in Clk : D[i] = [j \in Clk |-> D[i][j]]
      /\ 0 \in Clk /\ D[0][0] = dbm_LE_ZERO
  BY ZoneEntries DEF IsZone, WideMatrix
<1>2. dbm_isFreedAllUp(D) <=> dbm_freeAllUp(D) = D
  <2>1. ASSUME NEW i \in Clk \ {0}
        PROVE  dbm_init[i] = [j \in Clk |-> IF i = j THEN dbm_LE_ZERO ELSE dbm_LS_INFINITY]
    BY DEF dbm_init
  <2>2. ASSUME dbm_isFreedAllUp(D) PROVE dbm_freeAllUp(D) = D
    <3>1. ASSUME NEW i \in Clk, NEW j \in Clk
          PROVE  D[i][j] = IF i = 0 THEN D[0][j]
                           ELSE IF i = j THEN dbm_LE_ZERO ELSE dbm_LS_INFINITY
      <4>1. i # 0 => D[i] = dbm_init[i]
        BY <2>2 DEF dbm_isFreedAllUp
      <4>2. i # 0 => D[i] = [l \in Clk |-> IF i = l THEN dbm_LE_ZERO ELSE dbm_LS_INFINITY]
        BY <2>1, <4>1
      <4> QED
        BY <4>2
    <3>2. [i \in Clk |-> [j \in Clk |-> D[i][j]]] = dbm_freeAllUp(D)
      BY <3>1 DEF dbm_freeAllUp
    <3> QED
      BY <1>1, <3>2
  <2>3. ASSUME dbm_freeAllUp(D) = D PROVE dbm_isFreedAllUp(D)
    <3>1. ASSUME NEW i \in Clk \ {0} PROVE D[i] = dbm_init[i]
      <4>1. dbm_freeAllUp(D)[i] = [j \in Clk |-> IF i = j THEN dbm_LE_ZERO ELSE dbm_LS_INFINITY]
        BY DEF dbm_freeAllUp
      <4> QED
        BY <2>1, <2>3, <4>1
    <3> QED
      BY <1>1, <3>1 DEF dbm_isFreedAllUp
  <2> QED
    BY <2>2, <2>3
<1>3. dbm_testFreeAllDown(D) <=> dbm_freeAllDown(D) = D
  <2>1. ASSUME dbm_testFreeAllDown(D) PROVE dbm_freeAllDown(D) = D
    <3>1. ASSUME NEW i \in Clk, NEW j \in Clk
          PROVE  D[i][j] = IF i = j THEN D[i][j] ELSE D[i][0]
      BY <2>1 DEF dbm_testFreeAllDown
    <3>2. [i \in Clk |-> [j \in Clk |-> D[i][j]]] = dbm_freeAllDown(D)
      BY <3>1 DEF dbm_freeAllDown
    <3> QED
      BY <1>1, <3>2
  <2>2. ASSUME dbm_freeAllDown(D) = D PROVE dbm_testFreeAllDown(D)
    <3>1. ASSUME NEW i \in Clk, NEW j \in Clk, i # j PROVE D[i][j] = D[i][0]
      <4>1. dbm_freeAllDown(D)[i][j] = D[i][0]
        BY <3>1 DEF dbm_freeAllDown
      <4> QED
        BY <2>2, <4>1
    <3> QED
      BY <3>1 DEF dbm_testFreeAllDown
  <2> QED
    BY <2>1, <2>2
<1> QED
  BY <1>2, <1>3

\* Every test answers for the zone and the valuations.
LEMMA TestsFromInv ==
  ASSUME Inv
  PROVE  TestsExact
<1>1. IsZone(zone, Before) /\ InBounds(zone)
  BY DEF Inv
<1>2. \A S \in Others : IsZone(S, Before) /\ InBounds(S)
  BY OthersAreZones, OthersAssumption
<1>3. ASSUME NEW other \in OtherZones
      PROVE  /\ dbm_relation(zone, other.dbm) =
                  IF ZoneOf(zone) = other.zone THEN "equal"
                  ELSE IF ZoneOf(zone) \subseteq other.zone THEN "subset"
                  ELSE IF other.zone \subseteq ZoneOf(zone) THEN "superset" ELSE "different"
             /\ dbm_isSubsetEq(zone, other.dbm) <=> ZoneOf(zone) \subseteq other.zone
             /\ ~dbm_haveIntersection(zone, other.dbm) => ZoneOf(zone) \cap other.zone = {}
  <2>1. PICK S \in Others : other = [dbm |-> S, zone |-> ZoneOf(S)]
    BY DEF OtherZones
  <2>2. other.dbm = S /\ other.zone = ZoneOf(S)
    BY <2>1
  <2> QED
    BY <1>1, <1>2, <2>2, RelationExact, SubsetExact, DisjointExact
<1>4. \A c \in Constraints :
        dbm_satisfies(zone, c)
          <=> \E pt \in ZoneOf(zone) : Within(pt[c.i] - pt[c.j], c.value, Grid)
  BY <1>1, SatisfiesExact
<1>5. /\ dbm_hasZero(zone) <=> [c \in Clk |-> 0] \in ZoneOf(zone)
      /\ dbm_isEqualToInit(zone) <=> ZoneOf(zone) = Valuations
      /\ dbm_isEqualToZero(zone) <=> ZoneOf(zone) = {[c \in Clk |-> 0]}
      /\ dbm_isUnbounded(zone) <=>
           \E pt \in ZoneOf(zone) : In(Moved(pt, Clocks, 2 * Horizon), zone)
      /\ dbm_isFreedAllUp(zone) <=> dbm_freeAllUp(zone) = zone
      /\ dbm_testFreeAllDown(zone) <=> dbm_freeAllDown(zone) = zone
  BY <1>1, HasZeroExact, InitAndZeroExact, UnboundedExact, FreedExact
<1> QED
  BY <1>3, <1>4, <1>5 DEF TestsExact

\* The tests compare bounds, and answer for the sets of valuations, of every zone that
\* calls lead to.
THEOREM AlwaysTestsExact == Spec => []TestsExact
<1>1. Spec => []Inv
  BY Closedness
<1> QED
  BY <1>1, TestsFromInv, PTL

-----------------------------------------------------------------------------
(* Changes of the clocks. *)

\* A table of clocks, as updateDBM takes it: the reference clock comes from itself alone.
IsTable(cols) ==
  cols \in [Clk -> Clk \cup {NoCol}] /\ cols[0] = 0 /\ \A k \in Clocks : cols[k] # 0

\* The clocks that have a column, a clock that has column k, and the columns of none.
WithColumn(cols) == {d \in Clk : cols[d] # NoCol}
ComesFrom(cols, k) == CHOOSE d \in WithColumn(cols) : cols[d] = k
Dropped(cols) == Clk \ {cols[d] : d \in WithColumn(cols)}

\* A clock of a valuation before the change, with the values old for the dropped clocks.
Earlier(pt, cols, old) ==
  [k \in Clk |-> IF k \in Dropped(cols) THEN old[k] ELSE Fine * pt[ComesFrom(cols, k)]]

\* What Recolumned says, in these terms.
LEMMA RecolumnedMeaning ==
  ASSUME NEW pt, NEW D, NEW cols
  PROVE  Recolumned(pt, D, cols) <=>
           /\ \A d, e \in WithColumn(cols) : cols[d] = cols[e] => pt[d] = pt[e]
           /\ \E old \in [Dropped(cols) -> FineMoments] :
                dbm_isRealPointIncluded(Earlier(pt, cols, old), D, Fine * Grid)
BY DEF Recolumned, WithColumn, ComesFrom, Dropped, Earlier

\* The entries of a table.
LEMMA TableEntries ==
  ASSUME NEW cols, IsTable(cols)
  PROVE  /\ 0 \in Clk /\ 0 \in WithColumn(cols) /\ 0 \notin Dropped(cols)
         /\ ComesFrom(cols, 0) = 0
         /\ \A d \in WithColumn(cols) : d \in Clk /\ cols[d] \in Clk \ Dropped(cols)
         /\ \A k \in Clk \ Dropped(cols) :
              ComesFrom(cols, k) \in WithColumn(cols) /\ cols[ComesFrom(cols, k)] = k
         /\ \A d \in Clk : d \in WithColumn(cols) <=> cols[d] # NoCol
<1>1. 0 \in Clk /\ NoCol \notin Clk /\ 0 # NoCol
  BY DimAssumption DEF Clk, NoCol
<1>2. 0 \in WithColumn(cols)
  BY <1>1 DEF IsTable, WithColumn
<1>3. \A d \in WithColumn(cols) : d \in Clk /\ cols[d] \in Clk \ Dropped(cols)
  BY <1>1 DEF IsTable, WithColumn, Dropped
<1>4. \A k \in Clk \ Dropped(cols) :
        ComesFrom(cols, k) \in WithColumn(cols) /\ cols[ComesFrom(cols, k)] = k
  <2> SUFFICES ASSUME NEW k \in Clk \ Dropped(cols)
               PROVE  ComesFrom(cols, k) \in WithColumn(cols) /\ cols[ComesFrom(cols, k)] = k
    OBVIOUS
  <2>1. \E d \in WithColumn(cols) : cols[d] = k
    BY DEF Dropped
  <2> QED
    BY <2>1 DEF ComesFrom
<1>5. 0 \notin Dropped(cols)
  BY <1>2, <1>3 DEF IsTable
<1>6. ComesFrom(cols, 0) = 0
  <2>1. ComesFrom(cols, 0) \in Clk /\ cols[ComesFrom(cols, 0)] = 0
    BY <1>1, <1>3, <1>4, <1>5
  <2> QED
    BY <2>1 DEF IsTable, Clocks
<1>7. \A d \in Clk : d \in WithColumn(cols) <=> cols[d] # NoCol
  BY DEF WithColumn
<1> QED
  BY <1>1, <1>2, <1>3, <1>4, <1>5, <1>6, <1>7

\* The bounds that dbm_updateDBM writes.
LEMMA UpdateDBMEntries ==
  ASSUME NEW D, NEW cols, IsTable(cols), NEW i \in Clk, NEW j \in Clk
  PROVE  dbm_updateDBM(D, cols)[i][j] =
           IF i = j THEN dbm_LE_ZERO
           ELSE IF cols[i] = NoCol THEN dbm_LS_INFINITY
           ELSE IF cols[j] # NoCol THEN D[cols[i]][cols[j]]
           ELSE IF i = 0 THEN dbm_LE_ZERO ELSE D[cols[i]][0]
<1>1. DOMAIN cols = Clk
  BY DEF IsTable
<1> QED
  BY <1>1 DEF dbm_updateDBM

\* The differences of the clocks that are kept, on both grids.
LEMMA KeptDifferences ==
  ASSUME NEW pt \in Valuations, NEW d \in Clk, NEW e \in Clk, NEW x \in Int
  PROVE  /\ Fine * pt[d] \in Int /\ Fine * pt[e] \in Int
         /\ Within(Fine * pt[d] - Fine * pt[e], x, Fine * Grid)
              <=> Within(pt[d] - pt[e], x, Grid)
<1>1. Fine \in Nat \ {0} /\ Grid \in Nat \ {0} /\ pt[d] \in Int /\ pt[e] \in Int
  BY BoundsAssumption, ValuationValues
<1>2. PICK a \in Int, b \in Int : a = pt[d] /\ b = pt[e]
  BY <1>1
<1>3. Fine * a - Fine * b = Fine * (a - b) /\ a - b \in Int /\ Fine * a \in Int /\ Fine * b \in Int
  BY <1>1
<1>4. Within(Fine * (a - b), x, Fine * Grid) <=> Within(a - b, x, Grid)
  BY <1>1, <1>3, WithinScaled
<1> QED
  BY <1>2, <1>3, <1>4

\* The valuations of the changed matrix come from those of the zone.
LEMMA RecolumnedThenIn ==
  ASSUME NEW D, IsZone(D, Before), NEW cols, IsTable(cols), NEW pt \in Valuations,
         Recolumned(pt, D, cols)
  PROVE  In(pt, dbm_updateDBM(D, cols))
<1>1. PICK old \in [Dropped(cols) -> FineMoments] :
        dbm_isRealPointIncluded(Earlier(pt, cols, old), D, Fine * Grid)
  BY RecolumnedMeaning
<1> DEFINE r == Earlier(pt, cols, old)
           U == dbm_updateDBM(D, cols)
<1>2. \A c, k \in Clk : Within(r[c] - r[k], D[c][k], Fine * Grid)
  BY <1>1 DEF dbm_isRealPointIncluded
<1>3. \A d \in WithColumn(cols) : r[cols[d]] = Fine * pt[d]
  <2> SUFFICES ASSUME NEW d \in WithColumn(cols) PROVE r[cols[d]] = Fine * pt[d]
    OBVIOUS
  <2>1. cols[d] \in Clk \ Dropped(cols)
    BY TableEntries
  <2>2. /\ ComesFrom(cols, cols[d]) \in WithColumn(cols)
        /\ cols[ComesFrom(cols, cols[d])] = cols[d]
    BY <2>1, TableEntries
  <2>3. pt[ComesFrom(cols, cols[d])] = pt[d]
    BY <2>2, RecolumnedMeaning
  <2> QED
    BY <2>1, <2>3 DEF Earlier
<1> HIDE DEF r
<1>4. \A i, j \in Clk : D[i][j] \in Int
  BY ZoneEntries
<1>5. \A d, e \in WithColumn(cols) : Within(pt[d] - pt[e], D[cols[d]][cols[e]], Grid)
  <2> SUFFICES ASSUME NEW d \in WithColumn(cols), NEW e \in WithColumn(cols)
               PROVE  Within(pt[d] - pt[e], D[cols[d]][cols[e]], Grid)
    OBVIOUS
  <2>1. d \in Clk /\ e \in Clk /\ cols[d] \in Clk /\ cols[e] \in Clk
    BY TableEntries
  <2>2. Within(Fine * pt[d] - Fine * pt[e], D[cols[d]][cols[e]], Fine * Grid)
    BY <1>2, <1>3, <2>1
  <2> QED
    BY <1>4, <2>1, <2>2, KeptDifferences
<1>6. ASSUME NEW i \in Clk, NEW j \in Clk
      PROVE  Within(pt[i] - pt[j], U[i][j], Grid)
  <2>1. /\ pt[i] \in Int /\ pt[j] \in Int /\ 0 <= pt[j] /\ pt[0] = 0 /\ 0 \in Clk
        /\ pt[i] - pt[j] \in Int /\ pt[i] - pt[0] \in Int /\ pt[i] - pt[j] <= pt[i] - pt[0]
        /\ pt[i] - pt[i] = 0
    BY ValuationValues
  <2>2. CASE i = j
    <3>1. U[i][j] = dbm_LE_ZERO
      BY <2>2, UpdateDBMEntries
    <3> QED
      BY <2>1, <2>2, <3>1, SelfFits
  <2>3. CASE i # j /\ cols[i] = NoCol
    <3>1. U[i][j] = dbm_LS_INFINITY
      BY <2>3, UpdateDBMEntries
    <3> QED
      BY <3>1, SelfFits
  <2>4. CASE i # j /\ cols[i] # NoCol /\ cols[j] # NoCol
    <3>1. U[i][j] = D[cols[i]][cols[j]]
      BY <2>4, UpdateDBMEntries
    <3>2. i \in WithColumn(cols) /\ j \in WithColumn(cols)
      BY <2>4, TableEntries
    <3> QED
      BY <1>5, <3>1, <3>2
  <2>5. CASE i # j /\ cols[i] # NoCol /\ cols[j] = NoCol /\ i = 0
    <3>1. U[i][j] = dbm_LE_ZERO
      <4>1. U[i][j] = IF i = j THEN dbm_LE_ZERO
                      ELSE IF cols[i] = NoCol THEN dbm_LS_INFINITY
                      ELSE IF cols[j] # NoCol THEN D[cols[i]][cols[j]]
                      ELSE IF i = 0 THEN dbm_LE_ZERO ELSE D[cols[i]][0]
        BY UpdateDBMEntries
      <4> QED
        BY <2>5, <4>1
    <3>2. pt[i] - pt[j] <= 0
      BY <2>1, <2>5
    <3> QED
      BY <2>1, <3>1, <3>2, SelfFits
  <2>6. CASE i # j /\ cols[i] # NoCol /\ cols[j] = NoCol /\ i # 0
    <3>1. U[i][j] = D[cols[i]][0]
      BY <2>6, UpdateDBMEntries
    <3>2. i \in WithColumn(cols) /\ 0 \in WithColumn(cols) /\ cols[0] = 0 /\ cols[i] \in Clk
      BY <2>6, TableEntries DEF IsTable
    <3>3. Within(pt[i] - pt[0], D[cols[i]][0], Grid)
      BY <1>5, <3>2
    <3>4. D[cols[i]][0] \in Int /\ Grid \in Nat \ {0}
      BY <1>4, <2>1, <3>2, BoundsAssumption
    <3> QED
      BY <2>1, <3>1, <3>3, <3>4, WithinLess
  <2> QED
    BY <2>2, <2>3, <2>4, <2>5, <2>6
<1> QED
  BY <1>6 DEF In, dbm_isRealPointIncluded

\* Clocks whose valuations are even leave room for the dropped ones on the finer grid; the
\* reference clock alone does so at every step.
LEMMA RoomForDropped ==
  ASSUME NEW cols, IsTable(cols), NEW pt \in Valuations
  PROVE  \E s \in Nat \ {0} :
           /\ Multiple(Fine * Grid, s) /\ Cardinality(Dropped(cols)) < s
           /\ \A k \in Clk \ Dropped(cols) : Multiple(Fine * pt[ComesFrom(cols, k)], s)
<1> DEFINE X == Dropped(cols)
           g == Fine * Grid
<1>1. /\ Fine \in Nat \ {0} /\ Grid \in Nat \ {0} /\ dim \in Nat \ {0}
      /\ g \in Nat \ {0} /\ Grid <= g /\ dim < g /\ dim <= 2 * Fine + 1
  <2>1. /\ Fine \in Nat \ {0} /\ Grid \in Nat \ {0} /\ dim \in Nat \ {0}
        /\ 2 * dim <= Grid /\ dim <= 2 * Fine + 1
    BY BoundsAssumption, GridAssumption, DimAssumption
  <2>2. 1 * Grid <= Fine * Grid /\ 1 * Grid = Grid /\ Fine * Grid \in Nat
    BY <2>1, Multiples
  <2> QED
    BY <2>1, <2>2
<1>2. /\ 0 \in Clk /\ 0 \notin X /\ X \subseteq Clk \ {0}
      /\ IsFiniteSet(Clk) /\ Cardinality(Clk) = dim
      /\ IsFiniteSet(X) /\ Cardinality(X) \in Nat
      /\ IsFiniteSet(Clk \ {0}) /\ Cardinality(Clk \ {0}) = dim - 1
  <2>1. IsFiniteSet(Clk) /\ Cardinality(Clk) = dim
    BY DimAssumption, FS_Interval DEF Clk
  <2>2. 0 \in Clk /\ 0 \notin X /\ X \in SUBSET Clk
    BY TableEntries DEF Dropped
  <2>3. IsFiniteSet(Clk \ {0}) /\ Cardinality(Clk \ {0}) = dim - 1
    BY <2>1, <2>2, FS_RemoveElement
  <2>4. IsFiniteSet(X) /\ Cardinality(X) \in Nat
    BY <2>2, ClocksFinite
  <2> QED
    BY <2>1, <2>2, <2>3, <2>4
<1>3. CASE X = Clk \ {0}
  <2>1. Cardinality(X) < g
    BY <1>1, <1>2, <1>3
  <2>2. Multiple(g, g)
    <3>1. g = 1 * g
      BY <1>1
    <3> QED
      BY <3>1 DEF Multiple
  <2>3. \A k \in Clk \ X : Multiple(Fine * pt[ComesFrom(cols, k)], g)
    <3> SUFFICES ASSUME NEW k \in Clk \ X
                 PROVE  Multiple(Fine * pt[ComesFrom(cols, k)], g)
      OBVIOUS
    <3>1. k = 0 /\ ComesFrom(cols, k) = 0
      BY <1>3, TableEntries
    <3>2. pt[ComesFrom(cols, k)] = 0
      BY <3>1, ValuationValues
    <3>3. Fine * 0 = 0 * g
      BY <1>1
    <3> QED
      BY <3>2, <3>3 DEF Multiple
  <2> QED
    BY <1>1, <2>1, <2>2, <2>3
<1>4. CASE X # Clk \ {0}
  <2> DEFINE s == 2 * Fine
  <2>1. s \in Nat \ {0} /\ Cardinality(X) < s
    <3>1. Cardinality(X) < Cardinality(Clk \ {0})
      BY <1>2, <1>4, FewerElements
    <3> QED
      BY <1>1, <1>2, <3>1
  <2>2. Multiple(g, s)
    <3>1. PICK h \in Int : Grid = 2 * h
      <4>1. Grid = 2 * (Grid \div 2) /\ Grid \div 2 \in Int
        BY BoundsAssumption
      <4> QED
        BY <4>1
    <3>2. Fine * (2 * h) = h * (2 * Fine)
      BY <1>1
    <3> QED
      BY <3>1, <3>2 DEF Multiple
  <2>3. \A k \in Clk \ X : Multiple(Fine * pt[ComesFrom(cols, k)], s)
    <3> SUFFICES ASSUME NEW k \in Clk \ X
                 PROVE  Multiple(Fine * pt[ComesFrom(cols, k)], s)
      OBVIOUS
    <3>1. ComesFrom(cols, k) \in Clk
      BY TableEntries
    <3>2. PICK m \in Int : pt[ComesFrom(cols, k)] = 2 * m
      BY <3>1, ValuationValues DEF Even
    <3>3. Fine * (2 * m) = m * (2 * Fine)
      BY <1>1
    <3> QED
      BY <3>2, <3>3 DEF Multiple
  <2> QED
    BY <2>1, <2>2, <2>3
<1> QED
  BY <1>3, <1>4

\* The values that the dropped clocks may have had are among the ones tried.
LEMMA OldValueFits ==
  ASSUME NEW D, IsZone(D, Before), InBounds(D), NEW c \in Clk, NEW k \in Clk,
         D[c][k] # dbm_LS_INFINITY, NEW x \in Int, x <= Fine * Horizon,
         NEW n \in Nat, n <= dim, NEW t \in Int, 0 <= t,
         t <= x - dbm_raw2bound(D[c][k]) * (Fine * Grid) + n
  PROVE  t \in FineMoments
<1>1. /\ Fine \in Nat \ {0} /\ Grid \in Nat \ {0} /\ Horizon \in Nat /\ MaxBound \in Nat
      /\ dim \in Nat
  BY BoundsAssumption, DimAssumption
<1>2. PICK g \in Nat \ {0} : g = Fine * Grid
  <2>1. 1 * Grid <= Fine * Grid /\ 1 * Grid = Grid /\ Fine * Grid \in Nat
    BY <1>1, Multiples
  <2> QED
    BY <1>1, <2>1
<1>3. PICK b \in Int : b = dbm_raw2bound(D[c][k]) /\ -MaxBound <= b
  BY ZoneEntries, RawParts, <1>1 DEF InBounds
<1>4. -(b * g) <= MaxBound * g /\ b * g \in Int /\ MaxBound * g \in Int
  <2>1. -MaxBound < b => (-MaxBound) * g < b * g
    BY <1>1, <1>2, ScaleStrict
  <2>2. (-MaxBound) * g = -(MaxBound * g) /\ b * g \in Int /\ MaxBound * g \in Int
    BY <1>1, <1>2, <1>3
  <2>3. -MaxBound = b \/ -MaxBound < b
    BY <1>1, <1>3
  <2>4. PICK v \in Int, w \in Int, z \in Int : v = b * g /\ w = MaxBound * g /\ z = (-MaxBound) * g
    BY <2>2
  <2>5. z = -w /\ z <= v
    BY <1>1, <2>1, <2>2, <2>3, <2>4
  <2> QED
    BY <2>4, <2>5
<1>5. Fine * (Horizon + MaxBound * Grid) = Fine * Horizon + MaxBound * (Fine * Grid)
  BY <1>1
<1>6. PICK h \in Int : h = Fine * Horizon
  BY <1>1
<1>7. PICK w \in Int, v \in Int : w = MaxBound * g /\ v = b * g /\ -v <= w
  BY <1>4
<1>8. t <= x - v + n /\ x <= h
  BY <1>2, <1>3, <1>6, <1>7
<1>9. t <= h + w + dim
  BY <1>1, <1>6, <1>7, <1>8
<1> QED
  BY <1>1, <1>2, <1>5, <1>6, <1>7, <1>9 DEF FineMoments

\* Two clocks with the same column are the same clock.
LEMMA SameColumn ==
  ASSUME NEW D, IsZone(D, Before), NEW cols, IsTable(cols), NEW pt \in Valuations,
         In(pt, dbm_updateDBM(D, cols)),
         NEW d \in WithColumn(cols), NEW e \in WithColumn(cols), cols[d] = cols[e]
  PROVE  pt[d] = pt[e]
<1> DEFINE U == dbm_updateDBM(D, cols)
<1>1. d \in Clk /\ e \in Clk /\ cols[d] # NoCol /\ cols[e] # NoCol /\ cols[d] \in Clk
  BY TableEntries
<1>2. U[d][e] = dbm_LE_ZERO /\ U[e][d] = dbm_LE_ZERO
  <2>1. D[cols[d]][cols[d]] = dbm_LE_ZERO
    BY <1>1, ZoneEntries
  <2> QED
    BY <1>1, <2>1, UpdateDBMEntries
<1>3. pt[d] \in Int /\ pt[e] \in Int
  BY <1>1, ValuationValues
<1>4. Within(pt[d] - pt[e], dbm_LE_ZERO, Grid) /\ Within(pt[e] - pt[d], dbm_LE_ZERO, Grid)
  BY <1>1, <1>2 DEF In, dbm_isRealPointIncluded
<1>5. \A n \in Int : Within(n, dbm_LE_ZERO, Grid) => n <= 0
  <2>1. dbm_raw2bound(dbm_LE_ZERO) = 0 /\ dbm_LE_ZERO < dbm_LS_INFINITY /\ 0 * Grid = 0
    BY BoundsAssumption DEF dbm_raw2bound, dbm_LE_ZERO, dbm_LS_INFINITY
  <2> QED
    BY <2>1, Infinity DEF Within
<1>6. pt[d] - pt[e] <= 0 /\ pt[e] - pt[d] <= 0
  BY <1>3, <1>4, <1>5
<1> QED
  BY <1>3, <1>6

\* A valuation of the changed matrix is completed to one of the zone: the dropped clocks
\* are put above the others, which are apart enough.
LEMMA InThenRecolumned ==
  ASSUME NEW D, IsZone(D, Before), InBounds(D), NEW cols, IsTable(cols),
         NEW pt \in Valuations, In(pt, dbm_updateDBM(D, cols))
  PROVE  Recolumned(pt, D, cols)
<1> DEFINE X == Dropped(cols)
           K == Clk \ X
           g == Fine * Grid
           p == [k \in Clk |-> IF k \in X THEN 0 ELSE Fine * pt[ComesFrom(cols, k)]]
           hi == Fine * Horizon
           U == dbm_updateDBM(D, cols)
<1>1. /\ Fine \in Nat \ {0} /\ Grid \in Nat \ {0} /\ Horizon \in Nat /\ hi \in Int
      /\ g \in Nat \ {0} /\ Before \in Nat
  <2>1. Fine \in Nat \ {0} /\ Grid \in Nat \ {0} /\ Horizon \in Nat
    BY BoundsAssumption
  <2>2. 1 * Grid <= Fine * Grid /\ 1 * Grid = Grid /\ Fine * Grid \in Nat
    BY <2>1, Multiples
  <2> QED
    BY <2>1, <2>2, Bounds
<1>2. PICK s \in Nat \ {0} :
        /\ Multiple(g, s) /\ Cardinality(X) < s
        /\ \A k \in K : Multiple(Fine * pt[ComesFrom(cols, k)], s)
  BY RoomForDropped
<1>3. Clk \ K = X /\ K \in SUBSET Clk /\ 0 \in K
  BY TableEntries DEF Dropped
<1>4. \A k \in K : /\ p[k] = Fine * pt[ComesFrom(cols, k)] /\ p[k] \in Int /\ p[k] <= hi
                   /\ ComesFrom(cols, k) \in Clk
  <2> SUFFICES ASSUME NEW k \in K
               PROVE  /\ p[k] = Fine * pt[ComesFrom(cols, k)] /\ p[k] \in Int /\ p[k] <= hi
                      /\ ComesFrom(cols, k) \in Clk
    OBVIOUS
  <2>1. ComesFrom(cols, k) \in Clk
    BY TableEntries
  <2>2. PICK n \in Nat : n = pt[ComesFrom(cols, k)] /\ n <= Horizon
    BY <2>1, ValuationValues
  <2>3. n * Fine <= Horizon * Fine /\ n * Fine = Fine * n /\ Horizon * Fine = Fine * Horizon
    BY <1>1, <2>2, Multiples
  <2>4. p[k] = Fine * n /\ Fine * n \in Int
    BY <1>1, <2>2
  <2> QED
    BY <2>1, <2>2, <2>3, <2>4
<1>5. p \in [Clk -> Int] /\ p[0] = 0
  <2>1. p[0] = Fine * 0
    BY <1>3, <1>4, TableEntries, ValuationValues
  <2>2. \A k \in Clk : p[k] \in Int
    BY <1>4
  <2> QED
    BY <1>1, <2>1, <2>2
<1>6. \A c, d \in K : Within(p[c] - p[d], D[c][d], g)
  <2> SUFFICES ASSUME NEW c \in K, NEW d \in K
               PROVE  Within(p[c] - p[d], D[c][d], g)
    OBVIOUS
  <2> DEFINE a == ComesFrom(cols, c)
             b == ComesFrom(cols, d)
  <2>1. a \in Clk /\ b \in Clk /\ cols[a] = c /\ cols[b] = d /\ cols[a] # NoCol /\ cols[b] # NoCol
    BY TableEntries
  <2>2. D[c][d] \in Int /\ D[c][c] = dbm_LE_ZERO
    BY ZoneEntries
  <2> HIDE DEF a, b
  <2>3. Within(pt[a] - pt[b], D[c][d], Grid)
    <3>1. CASE a = b
      <4>1. U[a][a] = dbm_LE_ZERO /\ D[c][d] = dbm_LE_ZERO
        BY <2>1, <2>2, <3>1, UpdateDBMEntries
      <4> QED
        BY <2>1, <3>1, <4>1 DEF In, dbm_isRealPointIncluded
    <3>2. CASE a # b
      <4>1. U[a][b] = D[c][d]
        BY <2>1, <3>2, UpdateDBMEntries
      <4> QED
        BY <2>1, <4>1 DEF In, dbm_isRealPointIncluded
    <3> QED
      BY <3>1, <3>2
  <2>4. Within(Fine * pt[a] - Fine * pt[b], D[c][d], Fine * Grid)
    BY <2>1, <2>2, <2>3, KeptDifferences
  <2>5. p[c] = Fine * pt[a] /\ p[d] = Fine * pt[b]
    BY <1>4 DEF a, b
  <2> QED
    BY <2>4, <2>5
<1>7. \A c \in K : p[c] <= hi /\ Multiple(p[c], s)
  BY <1>2, <1>4
<1> HIDE DEF p, hi, g
<1>8. PICK q \in [Clk -> Int] :
        /\ \A c \in K : q[c] = p[c]
        /\ dbm_isRealPointIncluded(q, D, g)
        /\ \A k \in Clk :
             /\ 0 <= q[k]
             /\ \E c \in K :
                  /\ D[c][k] # dbm_LS_INFINITY
                  /\ q[k] <= p[c] - dbm_raw2bound(D[c][k]) * g + Cardinality(Clk \ K)
  <2> HIDE DEF K
  <2>1. Cardinality(Clk \ K) < s
    BY <1>2, <1>3
  <2> QED
    BY <1>1, <1>2, <1>3, <1>5, <1>6, <1>7, <2>1, PointExtends
<1> DEFINE old == [k \in X |-> q[k]]
<1>9. old \in [X -> FineMoments]
  <2> SUFFICES ASSUME NEW k \in X PROVE q[k] \in FineMoments
    OBVIOUS
  <2>1. k \in Clk
    BY DEF Dropped
  <2>2. PICK c \in K :
          /\ D[c][k] # dbm_LS_INFINITY
          /\ q[k] <= p[c] - dbm_raw2bound(D[c][k]) * g + Cardinality(Clk \ K)
    BY <1>8, <2>1
  <2>3. Cardinality(X) \in Nat /\ Cardinality(X) <= dim
    BY ClocksFinite DEF Dropped
  <2>4. q[k] \in Int /\ 0 <= q[k] /\ p[c] \in Int /\ p[c] <= hi
    BY <1>4, <1>8, <2>1
  <2> QED
    BY <1>3, <2>1, <2>2, <2>3, <2>4, OldValueFits DEF hi, g
<1>10. Earlier(pt, cols, old) = q
  <2>1. \A k \in Clk : q[k] = IF k \in X THEN old[k] ELSE Fine * pt[ComesFrom(cols, k)]
    BY <1>4, <1>8
  <2> QED
    BY <1>8, <2>1 DEF Earlier
<1>11. \A d, e \in WithColumn(cols) : cols[d] = cols[e] => pt[d] = pt[e]
  BY SameColumn
<1> QED
  BY <1>8, <1>9, <1>10, <1>11, RecolumnedMeaning DEF g

\* Changing the clocks keeps the valuations of those that stay.
LEMMA UpdateDBMPoints ==
  ASSUME NEW D, IsZone(D, Before), InBounds(D), NEW cols, IsTable(cols),
         NEW pt \in Valuations
  PROVE  In(pt, dbm_updateDBM(D, cols)) <=> Recolumned(pt, D, cols)
BY InThenRecolumned, RecolumnedThenIn

\* The table that dbm_computeTables fills in.
LEMMA TablesComputed ==
  ASSUME NEW src \in ActiveSets, NEW dst \in ActiveSets
  PROVE  dbm_computeTables(src, dst) = ActiveCols(src, dst) /\ IsTable(ActiveCols(src, dst))
<1> DEFINE at(d) == CHOOSE c \in dst : Index(dst, c) = d
           cols == ActiveCols(src, dst)
<1>1. /\ src \in SUBSET (0 .. dim) /\ 0 \in src /\ Cardinality(src) = dim
      /\ dst \in SUBSET (0 .. dim) /\ 0 \in dst /\ Cardinality(dst) = dim
  BY DEF ActiveSets
<1>2. 0 .. Cardinality(dst) - 1 = Clk /\ 0 \in Clk
  BY <1>1, DimAssumption DEF Clk
<1>3. \A d \in Clk : at(d) \in dst /\ Index(dst, at(d)) = d
  BY <1>1, IndexOnto
<1>4. at(0) = 0
  BY <1>1, <1>2, <1>3, IndexOnto
<1>5. cols = [d \in Clk |-> IF at(d) \in src THEN Index(src, at(d)) ELSE NoCol]
  BY DEF ActiveCols
<1>6. dbm_computeTables(src, dst) = cols
  BY <1>2, <1>5 DEF dbm_computeTables
<1> HIDE DEF at, cols
<1>7. \A d \in Clk : at(d) \in src => Index(src, at(d)) \in Clk
  BY <1>1, IndexRange
<1>8. cols \in [Clk -> Clk \cup {NoCol}]
  BY <1>5, <1>7
<1>9. cols[0] = 0
  BY <1>1, <1>2, <1>4, <1>5, IndexRange
<1>10. \A k \in Clocks : cols[k] # 0
  <2> SUFFICES ASSUME NEW k \in Clocks, cols[k] = 0 PROVE FALSE
    OBVIOUS
  <2>1. k \in Clk /\ k # 0
    BY DEF Clocks
  <2>2. at(k) \in src /\ Index(src, at(k)) = 0
    BY <1>5, <2>1 DEF NoCol
  <2>3. at(k) = 0
    BY <1>1, <2>2, IndexOnto
  <2>4. Index(dst, at(k)) = k /\ Index(dst, 0) = 0
    BY <1>1, <1>3, <2>1, IndexRange
  <2> QED
    BY <2>1, <2>3, <2>4
<1> QED
  BY <1>6, <1>8, <1>9, <1>10 DEF IsTable, cols

ClockOps == {"dbm_shrinkExpand", "dbm_updateDBM"}

\* ClocksExact says nothing of the other calls.
LEMMA OtherCallsClocks ==
  ASSUME call'.op \notin ClockOps
  PROVE  ClocksExact'
BY DEF ClocksExact, Gives, ClockOps

\* dbm_updateDBM keeps the clocks of the table.
LEMMA UpdateDBMExact ==
  ASSUME Inv, UpdateDBM
  PROVE  ClocksExact'
<1>1. PICK cols \in [Clk -> Clk \cup {NoCol}] :
        /\ cols[0] = 0 /\ \A k \in Clocks : cols[k] # 0
        /\ Call([op |-> "dbm_updateDBM", cols |-> cols], dbm_updateDBM(zone, cols))
  BY DEF UpdateDBM
<1>2. /\ call'.op = "dbm_updateDBM" /\ call'.cols = cols /\ zone' = zone
      /\ dbm' = dbm_updateDBM(zone, cols)
  BY <1>1 DEF Call
<1>3. IsTable(cols) /\ IsZone(zone, Before) /\ InBounds(zone)
  BY <1>1 DEF IsTable, Inv
<1>4. \A pt \in Valuations : In(pt, dbm') <=> Recolumned(pt, zone', call'.cols)
  BY <1>2, <1>3, UpdateDBMPoints
<1> QED
  BY <1>2, <1>4 DEF ClocksExact, Gives

\* dbm_shrinkExpand keeps the clocks that both sets have.
LEMMA ShrinkExpandExact ==
  ASSUME Inv, ShrinkExpand
  PROVE  ClocksExact'
<1>1. PICK src \in ActiveSets, dst \in ActiveSets :
        Call([op |-> "dbm_shrinkExpand", src |-> src, dst |-> dst],
             dbm_shrinkExpand(zone, src, dst))
  BY DEF ShrinkExpand
<1> DEFINE cols == ActiveCols(src, dst)
<1>2. /\ call'.op = "dbm_shrinkExpand" /\ call'.src = src /\ call'.dst = dst /\ zone' = zone
      /\ dbm' = dbm_shrinkExpand(zone, src, dst)
  BY <1>1 DEF Call
<1>3. IsTable(cols) /\ dbm_shrinkExpand(zone, src, dst) = dbm_updateDBM(zone, cols)
  BY TablesComputed DEF dbm_shrinkExpand
<1>4. IsZone(zone, Before) /\ InBounds(zone)
  BY DEF Inv
<1> HIDE DEF cols
<1>5. \A pt \in Valuations : In(pt, dbm') <=> Recolumned(pt, zone', cols)
  BY <1>2, <1>3, <1>4, UpdateDBMPoints
<1>6. \A pt \in Valuations :
        In(pt, dbm') <=> Recolumned(pt, zone', ActiveCols(call'.src, call'.dst))
  BY <1>2, <1>5 DEF cols
<1> QED
  BY <1>2, <1>6 DEF ClocksExact, Gives

\* A call that changes the clocks leaves the valuations of the clocks that stay, with any
\* values of the new ones, whatever calls came before it.
THEOREM AlwaysClocksExact == Spec => []ClocksExact
<1>1. Init => ClocksExact
  BY DEF Init, NoCall, ClocksExact, Gives
<1>2. Inv /\ ClocksExact /\ [Next]_vars => ClocksExact'
  <2> SUFFICES ASSUME Inv, ClocksExact, [Next]_vars PROVE ClocksExact'
    OBVIOUS
  <2>1. CASE ShrinkExpand
    BY <2>1, ShrinkExpandExact
  <2>2. CASE UpdateDBM
    BY <2>2, UpdateDBMExact
  <2>3. CASE ConvexUnion \/ Relax \/ Return
    <3>1. call'.op \notin ClockOps
      BY <2>3 DEF ConvexUnion, Relax, Return, Call, NoCall, ClockOps
    <3> QED
      BY <3>1, OtherCallsClocks
  <2>4. CASE Next /\ ~(ShrinkExpand \/ UpdateDBM \/ ConvexUnion \/ Relax \/ Return)
    <3>1. call'.op \in ConstrainOps \cup DelayOps \cup FreeOps \cup UpdateOps
      BY <2>4, CallNames DEF Next
    <3> QED
      BY <3>1, OtherCallsClocks DEF ConstrainOps, DelayOps, FreeOps, UpdateOps, ClockOps
  <2>5. CASE UNCHANGED vars
    BY <2>5 DEF vars, ClocksExact, Gives
  <2> QED
    BY <2>1, <2>2, <2>3, <2>4, <2>5
<1> QED
  BY <1>1, <1>2, Closedness, PTL DEF Spec

=============================================================================

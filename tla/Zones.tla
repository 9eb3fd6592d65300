-------------------------------- MODULE Zones --------------------------------
(***************************************************************************)
(* A zone under any sequence of calls of src/dbm.c.  A call takes the      *)
(* matrix of the zone, which the calls before it left closed, and leaves a *)
(* new one; Return makes it the zone of the next call, or starts again     *)
(* from dbm_init when the call returned false or its constants are out of  *)
(* bounds.  The properties say what a call means for clock valuations.     *)
(***************************************************************************)
EXTENDS DbmOps

CONSTANTS
  Raws,     \* raws of the constraints that are applied
  Pairs,    \* the constraints that dbm_constrainN is given two of, and dbm_constrain in turn
  Times,    \* the values that clocks are set to and incremented by
  Others,   \* the second operands of binary operations
  MaxBound, \* a zone with a larger constant is not operated on
  Grid,     \* the valuations are multiples of 1 / Grid
  Horizon,  \* they reach Horizon / Grid; see Valuations
  Fine      \* the values of forgotten clocks are multiples of 1 / (Fine * Grid)

Clocks == Clk \ {0}

Constraints == {c \in [i : Clk, j : Clk, value : Raws] : c.i # c.j}

InBounds(D) ==
  \A i, j \in Clk :
    D[i][j] # dbm_LS_INFINITY => dbm_raw2bound(D[i][j]) \in -MaxBound .. MaxBound

\* The valuations compared are even, and so is Grid: half-way between two of them, or
\* between one and a limit that a bound sets to it, is a multiple of 1 / Grid.
\* The constants of the calls are those of the zones, and the sum of a path that the
\* closing functions may follow fits in raw_t, which they assert of every sum.
ASSUME BoundsAssumption ==
  /\ MaxBound \in Nat /\ Grid \in Nat \ {0} /\ Grid % 2 = 0 /\ Horizon \in Nat
  /\ Fine \in Nat \ {0}
\* Enough valuations to tell zones apart: strict bounds that follow from each other keep
\* that many clocks apart, between two integers or between the valuations of other clocks,
\* and the clocks are beyond all constants of a path of bounds.
ASSUME GridAssumption ==
  /\ 2 * dim <= Grid /\ dim <= 2 * Fine + 1
  /\ (dim - 1) * (MaxBound * Grid + 2) <= Horizon
ASSUME RoomAssumption == (dim + 2) * (2 * MaxBound + 3) <= dbm_LE_OVERFLOW
ASSUME RawsAssumption == Raws \subseteq -(2 * MaxBound) .. 2 * MaxBound + 1
ASSUME PairsAssumption == Pairs \subseteq Constraints
ASSUME TimesAssumption == Times \subseteq -MaxBound .. MaxBound
ASSUME OthersAssumption ==
  \A S \in Others :
    S \in Matrix /\ dbm_isValid(S) /\ dbm_isDiagonalOK(S) /\ InBounds(S)

VARIABLES
  zone,  \* the matrix at the call
  call,  \* the call, a record, or NoCall between calls
  dbm,   \* the matrix after it
  ret    \* what it returns (TRUE when it returns nothing)

vars == <<zone, call, dbm, ret>>

NoCall == [op |-> "none"]

Init ==
  /\ zone = dbm_init /\ dbm = dbm_init
  /\ call = NoCall /\ ret = TRUE

Call(c, result) ==
  /\ call = NoCall
  /\ call' = c /\ dbm' = result
  /\ ret' = (result # Empty)
  /\ UNCHANGED zone

Return ==
  /\ call # NoCall
  /\ zone' = IF ret /\ InBounds(dbm) THEN dbm ELSE dbm_init
  /\ dbm' = zone' /\ call' = NoCall /\ ret' = TRUE

Constrain1 ==
  \E c \in Constraints :
    Call([op |-> "dbm_constrain1", c |-> c], dbm_constrain1(zone, c))

ConstrainN ==
  \E c, d \in Pairs :
    Call([op |-> "dbm_constrainN", cs |-> <<c, d>>], dbm_constrainN(zone, <<c, d>>))

\* Two calls of dbm_constrain and the closure that must follow them.
ConstrainInTurn ==
  \E c, d \in Pairs :
    Call([op |-> "dbm_constrain", cs |-> <<c, d>>], dbm_constrainThenClose(zone, <<c, d>>))

ConstrainClock ==
  \E k \in Clocks, v \in Times : v >= 0 /\
    Call([op |-> "dbm_constrainClock", k |-> k, value |-> v],
         dbm_constrainClock(zone, k, v))

Intersection ==
  \E S \in Others :
    Call([op |-> "dbm_intersection", src |-> S], dbm_intersection(zone, S))

RelaxedIntersection ==
  \E S \in Others :
    Call([op |-> "dbm_relaxedIntersection", src |-> S],
         dbm_relaxedIntersection(zone, S))

Tighten ==
  \/ Call([op |-> "dbm_tightenDown"], dbm_tightenDown(zone))
  \/ Call([op |-> "dbm_tightenUp"], dbm_tightenUp(zone))

Delay ==
  \/ Call([op |-> "dbm_up"], dbm_up(zone))
  \/ Call([op |-> "dbm_down"], dbm_down(zone))

DelayStopped ==
  \E stopped \in SUBSET Clocks :
    \/ Call([op |-> "dbm_up_stop", stopped |-> stopped], dbm_up_stop(zone, stopped))
    \/ Call([op |-> "dbm_down_stop", stopped |-> stopped], dbm_down_stop(zone, stopped))

Free ==
  \E k \in Clocks :
    \/ Call([op |-> "dbm_freeClock", k |-> k], dbm_freeClock(zone, k))
    \/ Call([op |-> "dbm_freeUp", k |-> k], dbm_freeUp(zone, k))
    \/ Call([op |-> "dbm_freeDown", k |-> k], dbm_freeDown(zone, k))

FreeAll ==
  \/ Call([op |-> "dbm_freeAllUp"], dbm_freeAllUp(zone))
  \/ Call([op |-> "dbm_freeAllDown"], dbm_freeAllDown(zone))

Reset ==
  \/ Call([op |-> "dbm_init"], dbm_init)
  \/ Call([op |-> "dbm_zero"], dbm_zero)

UpdateValue ==
  \E k \in Clocks, v \in Times : v >= 0 /\
    Call([op |-> "dbm_updateValue", k |-> k, value |-> v], dbm_updateValue(zone, k, v))

\* A negative value must not exceed the lower bound of clock j: the documented
\* precondition of dbm_update and dbm_updateIncrement.
Update ==
  \E i, j \in Clocks, v \in Times :
    /\ dbm_raw2bound(zone[0][j]) <= v
    /\ Call([op |-> "dbm_update", i |-> i, j |-> j, value |-> v],
            dbm_update(zone, i, j, v))

SwapClocks ==
  \E x, y \in Clocks :
    Call([op |-> "dbm_swapClocks", x |-> x, y |-> y], dbm_swapClocks(zone, x, y))

\* The clocks of an automaton are 0 .. dim; the zone has all of them but one.
ActiveSets == {active \in SUBSET (0 .. dim) : 0 \in active /\ Cardinality(active) = dim}

ShrinkExpand ==
  \E src, dst \in ActiveSets : src # dst /\
    Call([op |-> "dbm_shrinkExpand", src |-> src, dst |-> dst],
         dbm_shrinkExpand(zone, src, dst))

\* The caller's own table: a clock may be dropped, moved, duplicated or added.
UpdateDBM ==
  \E cols \in [Clk -> Clk \cup {NoCol}] :
    /\ cols[0] = 0 /\ \A k \in Clocks : cols[k] # 0
    /\ Call([op |-> "dbm_updateDBM", cols |-> cols], dbm_updateDBM(zone, cols))

ConvexUnion ==
  \E S \in Others :
    Call([op |-> "dbm_convexUnion", src |-> S], dbm_convexUnion(zone, S))

Relax ==
  \/ Call([op |-> "dbm_relaxAll"], dbm_relaxAll(zone))
  \/ \E k \in Clk :
       \/ Call([op |-> "dbm_relaxDownClock", k |-> k], dbm_relaxDownClock(zone, k))
       \/ Call([op |-> "dbm_relaxUpClock", k |-> k], dbm_relaxUpClock(zone, k))

Next ==
  \/ Constrain1 \/ ConstrainN \/ ConstrainInTurn \/ ConstrainClock \/ Intersection
  \/ RelaxedIntersection \/ Tighten \/ Delay \/ DelayStopped \/ Free \/ FreeAll
  \/ Reset \/ UpdateValue \/ Update \/ SwapClocks \/ ShrinkExpand \/ UpdateDBM
  \/ ConvexUnion \/ Relax \/ Return

Spec == Init /\ [][Next]_vars

-----------------------------------------------------------------------------

\* The type invariant and the assertion dbm_isValid at the end of every operation: a
\* matrix holds valid raws only, so the assertion of dbm_addFiniteFinite holds in the next
\* call, and the result is closed, not empty, and has positive clocks, without a closure
\* having been run.
Canonical == dbm \in Matrix /\ (ret => dbm_isValid(dbm))

\* The valuations compared are multiples of 2 / Grid, with three of them between
\* two integers for three clocks; the witness of a projection lies half-way.
Valuations ==
  {[k \in Clk |-> IF k = 0 THEN 0 ELSE 2 * n[k]] : n \in [Clocks -> 0 .. Horizon \div 2]}

\* No bound of a zone asks for a clock further than this from a valuation.
Moments == 0 .. Horizon + MaxBound * Grid + 1

In(pt, D) == dbm_isRealPointIncluded(pt, D, Grid)

Moved(pt, running, d) == [c \in Clk |-> IF c \in running THEN pt[c] + d ELSE pt[c]]

\* After c, the zone has the valuations for which accepted holds.
Gives(op, accepted(_)) ==
  call.op = op => \A pt \in Valuations : In(pt, dbm) <=> accepted(pt)

\* What a tightening call keeps are the valuations that satisfy the constraints; it
\* returns false when there is none.
ConstrainExact ==
  LET Sat(pt, c) == Within(pt[c.i] - pt[c.j], c.value, Grid)
      one(pt) == In(pt, zone) /\ Sat(pt, call.c)
      all(pt) == In(pt, zone) /\ \A n \in DOMAIN call.cs : Sat(pt, call.cs[n])
      clock(pt) == In(pt, zone) /\ pt[call.k] = call.value * Grid
      both(pt) == In(pt, zone) /\ In(pt, call.src)
      weak(pt) == In(pt, Weakened(zone)) /\ In(pt, Weakened(call.src))
      above(pt) == In(pt, zone) /\ \A k \in Clocks :
                     Within(-pt[k], dbm_strictRaw(zone[0][k]), Grid)
      below(pt) == In(pt, zone) /\ \A k \in Clocks :
                     Within(pt[k], dbm_strictRaw(zone[k][0]), Grid)
  IN  /\ Gives("dbm_constrain1", one)
      /\ Gives("dbm_constrainN", all)
      /\ Gives("dbm_constrain", all)
      /\ Gives("dbm_constrainClock", clock)
      /\ Gives("dbm_intersection", both)
      /\ Gives("dbm_relaxedIntersection", weak)
      /\ Gives("dbm_tightenDown", above)
      /\ Gives("dbm_tightenUp", below)

\* Delaying moves the running clocks by one common amount and no other clock.  Where
\* two clocks run past a stopped one, the exact zone may bound x - y + z, which no
\* matrix can say: then the result only contains it.
DelayExact ==
  LET From(pt, running, sign) ==
        \E d \in Moments : In(Moved(pt, running, sign * d), zone)
      past(pt) == From(pt, Clocks, -1)
      future(pt) == From(pt, Clocks, 1)
      pastOfRunning(pt) == From(pt, Clocks \ call.stopped, -1)
      futureOfRunning(pt) == From(pt, Clocks \ call.stopped, 1)
      expressible(stopped) == stopped = {} \/ Cardinality(Clocks \ stopped) <= 1
  IN  /\ Gives("dbm_up", past)
      /\ Gives("dbm_down", future)
      /\ call.op = "dbm_up_stop" =>
           \A pt \in Valuations : /\ pastOfRunning(pt) => In(pt, dbm)
                                  /\ In(pt, dbm) /\ expressible(call.stopped)
                                       => pastOfRunning(pt)
      /\ call.op = "dbm_down_stop" =>
           \A pt \in Valuations : /\ futureOfRunning(pt) => In(pt, dbm)
                                  /\ In(pt, dbm) /\ expressible(call.stopped)
                                       => futureOfRunning(pt)

\* Freeing forgets a clock altogether, or lets it only grow, or only shrink; freeing
\* all clocks is freeing one after the other.
FreeExact ==
  LET clock(pt) == \E t \in Moments : In([pt EXCEPT ![call.k] = t], zone)
      up(pt) == \E t \in 0 .. pt[call.k] : In([pt EXCEPT ![call.k] = t], zone)
      down(pt) == \E t \in Moments : t >= pt[call.k] /\
                    In([pt EXCEPT ![call.k] = t], zone)
      OneByOne(free(_, _)) ==
        LET each[k \in Clk] == IF k = 0 THEN zone ELSE free(each[k - 1], k)
        IN  each[dim - 1]
  IN  /\ Gives("dbm_freeClock", clock)
      /\ Gives("dbm_freeUp", up)
      /\ Gives("dbm_freeDown", down)
      /\ call.op = "dbm_freeAllUp" => dbm = OneByOne(dbm_freeUp)
      /\ call.op = "dbm_freeAllDown" => dbm = OneByOne(dbm_freeDown)

\* An update assigns to one clock; the others keep their values and differences.
UpdateExact ==
  LET Assigned(pt, k) == \E t \in Moments : In([pt EXCEPT ![k] = t], zone)
      anyone(pt) == TRUE
      origin(pt) == \A k \in Clk : pt[k] = 0
      value(pt) == pt[call.k] = call.value * Grid /\ Assigned(pt, call.k)
      sum(pt) ==
        IF call.i = call.j
        THEN In([pt EXCEPT ![call.i] = @ - call.value * Grid], zone)
        ELSE pt[call.i] = pt[call.j] + call.value * Grid /\ Assigned(pt, call.i)
      swapped(pt) ==
        In([pt EXCEPT ![call.x] = pt[call.y], ![call.y] = pt[call.x]], zone)
  IN  /\ Gives("dbm_init", anyone)
      /\ Gives("dbm_zero", origin)
      /\ Gives("dbm_updateValue", value)
      /\ Gives("dbm_update", sum)
      /\ Gives("dbm_swapClocks", swapped)

\* The same for the clocks that a change of clocks forgets, of which there may be many.
FineMoments == 0 .. Fine * (Horizon + MaxBound * Grid) + dim

\* A valuation before the clocks were changed: clock d was clock cols[d], and the clocks
\* that are no clock's column had any value.
Recolumned(pt, D, cols) ==
  LET moved == {d \in Clk : cols[d] # NoCol}
      dropped == Clk \ {cols[d] : d \in moved}
      from(k) == CHOOSE d \in moved : cols[d] = k
  IN  /\ \A d, e \in moved : cols[d] = cols[e] => pt[d] = pt[e]
      /\ \E old \in [dropped -> FineMoments] :
           dbm_isRealPointIncluded(
             [k \in Clk |-> IF k \in dropped THEN old[k] ELSE Fine * pt[from(k)]],
             D, Fine * Grid)

\* The column of each clock when the active clocks change.
ActiveCols(src, dst) ==
  LET clockAt(d) == CHOOSE c \in dst : Index(dst, c) = d
  IN  [d \in Clk |-> IF clockAt(d) \in src THEN Index(src, clockAt(d)) ELSE NoCol]

\* Clocks that a change of clocks keeps, or moves, keep their values and differences;
\* the others may have had any value, and new clocks have any.
ClocksExact ==
  LET updated(pt) == Recolumned(pt, zone, call.cols)
      changed(pt) == Recolumned(pt, zone, ActiveCols(call.src, call.dst))
  IN  /\ Gives("dbm_updateDBM", updated)
      /\ Gives("dbm_shrinkExpand", changed)

\* Relaxing a clock makes the bounds of one row or one column weak; bounds that
\* other bounds imply stay strict, so no valuation but those on the faces is added.
RelaxExact ==
  LET Relaxed(i, j) ==
        IF \/ call.op = "dbm_relaxDownClock" /\ j = call.k
           \/ call.op = "dbm_relaxUpClock" /\ i = call.k
        THEN Weakened(zone)[i][j] ELSE zone[i][j]
      faces(pt) == \A i, j \in Clk : Within(pt[i] - pt[j], Relaxed(i, j), Grid)
  IN  /\ Gives("dbm_relaxDownClock", faces)
      /\ Gives("dbm_relaxUpClock", faces)

ZoneOf(D) == {pt \in Valuations : In(pt, D)}
OtherZones == {[dbm |-> S, zone |-> ZoneOf(S)] : S \in Others}

\* The tests compare bounds, and answer for the sets of valuations: closed forms
\* are unique.  dbm_haveIntersection is only promised to be right when it says no.
TestsExact ==
  call = NoCall =>
    LET mine == ZoneOf(zone)
        origin == [c \in Clk |-> 0]
    IN  /\ \A other \in OtherZones :
             /\ dbm_relation(zone, other.dbm) =
                  IF mine = other.zone THEN "equal"
                  ELSE IF mine \subseteq other.zone THEN "subset"
                  ELSE IF other.zone \subseteq mine THEN "superset" ELSE "different"
             /\ dbm_isSubsetEq(zone, other.dbm) <=> mine \subseteq other.zone
             /\ ~dbm_haveIntersection(zone, other.dbm) => mine \cap other.zone = {}
        /\ \A c \in Constraints :
             dbm_satisfies(zone, c)
               <=> \E pt \in mine : Within(pt[c.i] - pt[c.j], c.value, Grid)
        /\ dbm_hasZero(zone) <=> origin \in mine
        /\ dbm_isEqualToInit(zone) <=> mine = Valuations
        /\ dbm_isEqualToZero(zone) <=> mine = {origin}
        /\ dbm_isUnbounded(zone) <=>
             \E pt \in mine : In(Moved(pt, Clocks, 2 * Horizon), zone)
        /\ dbm_isFreedAllUp(zone) <=> dbm_freeAllUp(zone) = zone
        /\ dbm_testFreeAllDown(zone) <=> dbm_freeAllDown(zone) = zone

=============================================================================

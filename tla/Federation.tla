----------------------------- MODULE Federation -----------------------------
(***************************************************************************)
(* A federation under any sequence of calls of fed_t (src/fed.cpp).  A     *)
(* call computes a new list of zones; Return makes it the federation of    *)
(* the next call, or starts again from an empty one when it is too large   *)
(* or has zones that are not in the pool.  The properties say what calls   *)
(* mean for sets of clock valuations, whatever the zones of the lists.     *)
(***************************************************************************)
EXTENDS FedOps

CONSTANTS
  Zones,      \* the pool of zones that federations are built from
  Args,       \* the federations that are second operands
  Restrictions, \* the zones that predt may be restricted to
  Bounds,     \* raws of constraints
  MaxSize,    \* federations with more zones are only reduced, or not operated on
  MaxOperand, \* those with more are not operated on with an argument
  Horizon     \* valuations are compared up to Horizon, above all constants

ASSUME ZonesAssumption == \A D \in Zones \cup Restrictions : D \in Matrix /\ dbm_isValid(D)
ASSUME ArgsAssumption == Args \subseteq Seq(Zones)
ASSUME FedAssumption == MaxOperand <= MaxSize /\ Horizon \in Nat

VARIABLES
  fed,    \* the list of zones before the call
  call,   \* the call, a record, or NoCall between calls
  result  \* the list after it

vars == <<fed, call, result>>

NoCall == [op |-> "none"]
Clocks == Clk \ {0}

-----------------------------------------------------------------------------
(* Set operations. *)

\* Mutant of removeIncludedIn: a zone that contains the new one does not count.
removeIncludedInAlways(f, S) ==
  [list |-> SelectSeq(f, LAMBDA D : ~dbm_isSubsetEq(D, S)), argNotIncluded |-> TRUE]

removeIncludedIn(f, S) ==
  [list |-> SelectSeq(f, LAMBDA D : ~dbm_isSubsetEq(D, S)),
   argNotIncluded |-> \A n \in DOMAIN f : ~(dbm_isSubsetEq(S, f[n]) /\ f[n] # S)]

\* operator |=
OrDbm(f, S) ==
  IF f = <<>> THEN Single(S)
  ELSE IF S = Empty THEN f
  ELSE LET removed == removeIncludedIn(f, S)
       IN  IF removed.argNotIncluded THEN <<S>> \o removed.list ELSE removed.list

OrFed(f, g) == IF f = <<>> THEN g ELSE FoldLeft(OrDbm, f, g)

\* operator &=: the first zone of g goes last.
AndDbm(f, S) == IF S = Empty THEN <<>> ELSE mergeReduce(intersection(f, S), 0, 0)

AndFed(f, g) ==
  IF g = <<>> \/ f = <<>> THEN <<>>
  ELSE steal(FoldLeft(LAMBDA s, S : steal(s, intersection(Reverse(f), S)), <<>>, Tail(g)),
             intersection(f, g[1]))

\* operator +=
convexHull(f) == IF f = <<>> THEN f ELSE <<HullOf(f)>>

PlusFed(f, g) ==
  IF g = <<>> THEN convexHull(f)
  ELSE IF f = <<>> THEN <<HullOf(g)>> ELSE <<dbm_convexUnion(HullOf(f), HullOf(g))>>

\* fed_t::removeIncludedIn(fed_t)
removeIncludedInFed(f, g) == SelectSeq(f, LAMBDA D : ~OneContains(g, D))

-----------------------------------------------------------------------------
(* Operations on every zone. *)

up(f) == [n \in DOMAIN f |-> dbm_up(f[n])]
down(f) == [n \in DOMAIN f |-> dbm_down(f[n])]
freeClock(f, k) == [n \in DOMAIN f |-> dbm_freeClock(f[n], k)]
freeUp(f, k) == [n \in DOMAIN f |-> dbm_freeUp(f[n], k)]
freeDown(f, k) == [n \in DOMAIN f |-> dbm_freeDown(f[n], k)]
updateValue(f, k, v) == [n \in DOMAIN f |-> dbm_updateValue(f[n], k, v)]
updateClock(f, x, y) == IF x = y THEN f ELSE [n \in DOMAIN f |-> dbm_updateClock(f[n], x, y)]
swapClocks(f, x, y) == [n \in DOMAIN f |-> dbm_swapClocks(f[n], x, y)]
relaxUp(f) == [n \in DOMAIN f |-> dbm_relaxDownClock(f[n], 0)]
relaxDown(f) == [n \in DOMAIN f |-> dbm_relaxUpClock(f[n], 0)]
constrain(f, c) == NonEmpty([n \in DOMAIN f |-> dbm_constrain1(f[n], c)])
tightenDown(f) == NonEmpty([n \in DOMAIN f |-> dbm_tightenDown(f[n])])
tightenUp(f) == NonEmpty([n \in DOMAIN f |-> dbm_tightenUp(f[n])])

\* isUnbounded, getUnbounded and getBounded.
getUnbounded(f) == FoldLeft(OrDbm, <<>>, SelectSeq(f, dbm_isUnbounded))
getBounded(f) == FoldLeft(OrDbm, <<>>, SelectSeq(f, LAMBDA D : ~dbm_isUnbounded(D)))

-----------------------------------------------------------------------------
(* Temporal predecessors. *)

\* "Find one DBM of *this s.t. all upper bounds of dbm2 are strictly less".
canSkipSubtract(f, S) == \E n \in DOMAIN f : \A i \in Clocks : f[n][i][0] > S[i][0]

subtractDown(f, g) ==
  down(FoldLeft(LAMBDA s, S : IF s = <<>> \/ canSkipSubtract(s, S) THEN s
                              ELSE ptr_subtract(s, S), f, g))

\* D of which only what is in restrict counts, if there is a restriction.
Restricted(D, restrict) ==
  IF D = Empty \/ restrict = Empty THEN D ELSE dbm_intersection(D, restrict)
RestrictedFed(f, restrict) == IF restrict = Empty THEN f ELSE AndDbm(f, restrict)

\* Mutant of PredtOf: delays that end in the good zone before the bad one are lost.
predtOfNoWayBefore(good, bad, restrict) ==
  LET downGood == Restricted(dbm_down(good), restrict)
      downBad == Restricted(dbm_down(bad), restrict)
  IN  IF downGood # Empty /\ dbm_haveIntersection(downGood, bad)
      THEN MinusDbm(Single(downGood), downBad) ELSE Single(downGood)

\* Mutant of PredtOf: the bad zone is not extended to its past.
predtOfNoDownBad(good, bad, restrict) ==
  MinusDbm(Single(Restricted(dbm_down(good), restrict)), bad)

\* One zone that avoids another: down(good) - down(bad), and the ways into the part of
\* good that is before bad.
PredtOf(good, bad, restrict) ==
  LET downGood == Restricted(dbm_down(good), restrict)
      downBad == Restricted(dbm_down(bad), restrict)
      before == IF downBad = Empty THEN Empty ELSE dbm_intersection(downBad, good)
  IN  IF downGood # Empty /\ dbm_haveIntersection(downGood, bad)
      THEN steal(MinusDbm(Single(downGood), downBad),
                 RestrictedFed(down(SubtractDbm(before, bad)), restrict))
      ELSE Single(downGood)

\* "predt(union good, union bad) = union_good intersection_bad predt(good, bad)": a bad
\* zone that down(good) does not reach is passed over after the first one.
Reaches(downGood, bad) == downGood # Empty /\ dbm_haveIntersection(downGood, bad)

AvoidAll(good, g, restrict) ==
  FoldLeft(LAMBDA s, bad : IF s # <<>> /\ Reaches(Restricted(dbm_down(good), restrict), bad)
                           THEN AndFed(s, PredtOf(good, bad, restrict)) ELSE s,
           PredtOf(good, g[1], restrict), Tail(g))

predt(f, g, restrict) ==
  IF g = <<>> THEN RestrictedFed(down(f), restrict)
  ELSE FoldLeft(LAMBDA s, good : steal(s, AvoidAll(good, g, restrict)), <<>>, f)

\* Mutant of AvoidOne: what of good lies beyond the bad zone counts as before it.
avoidOneBeyond(good, S) ==
  unionWith(MinusDbm(down(good), dbm_down(S)), down(MinusDbm(good, S)))

\* predt(good, S) of isIncludedInPredt.
AvoidOne(good, S) ==
  unionWith(MinusDbm(down(good), dbm_down(S)), down(MinusDbm(AndDbm(good, dbm_down(S)), S)))

\* Without computing predt(good, bad) in full; operator <= compares zones one by one.
Within1(f, g) == \A n \in DOMAIN f : OneContains(g, f[n])

isIncludedInPredt(f, good, bad) ==
  LET parts == [n \in DOMAIN bad |-> AvoidOne(good, bad[n])]
  IN  \/ f = <<>>
      \/ /\ good # <<>> /\ Within1(f, down(good))
         /\ \/ bad = <<>>
            \/ /\ Len(bad) > 1 => \A n \in DOMAIN parts : Within1(f, parts[n])
               /\ isSubtractionEmpty(f, FoldLeft(AndFed, parts[1], Tail(parts)))

-----------------------------------------------------------------------------
(* Tests. *)

Relation(subset, superset) ==
  CASE subset /\ superset -> "equal" [] subset /\ ~superset -> "subset"
    [] ~subset /\ superset -> "superset" [] ~subset /\ ~superset -> "different"

\* Zones against zones: an inclusion that holds only for unions of zones is missed.
relation(f, g) ==
  CASE f = <<>> -> IF g = <<>> THEN "equal" ELSE "subset"
    [] f # <<>> /\ g = <<>> -> "superset"
    [] f # <<>> /\ g # <<>> -> Relation(\A n \in DOMAIN f : OneContains(g, f[n]),
                                        \A m \in DOMAIN g : OneContains(f, g[m]))

exactRelation(f, g) == Relation(isSubtractionEmpty(f, g), isSubtractionEmpty(g, f))

intersects(f, g) ==
  \E n \in DOMAIN f, m \in DOMAIN g : dbm_haveIntersection(f[n], g[m])

satisfies(f, c) == \E n \in DOMAIN f : dbm_satisfies(f[n], c)

-----------------------------------------------------------------------------

Init == fed = <<>> /\ call = NoCall /\ result = <<>>

Call(c, list) ==
  /\ call = NoCall
  /\ call' = c /\ result' = list
  /\ UNCHANGED fed

Return ==
  /\ call # NoCall
  /\ fed' = IF Len(result) <= MaxSize /\ ToSet(result) \subseteq Zones THEN result ELSE <<>>
  /\ result' = fed' /\ call' = NoCall

\* Federations are built zone by zone: |=, and add, which compares nothing.
Add ==
  \E D \in Zones :
    /\ Len(fed) < MaxSize
    /\ \/ Call([op |-> "|=", arg |-> <<D>>], OrDbm(fed, D))
       \/ Call([op |-> "add", arg |-> <<D>>], <<D>> \o fed)

\* Operations with a second federation.
SetOperation ==
  \E g \in Args :
    /\ Len(fed) <= MaxOperand
    /\ \/ Call([op |-> "|=", arg |-> g], OrFed(fed, g))
       \/ Call([op |-> "unionWith", arg |-> g], unionWith(fed, g))
       \/ Call([op |-> "append", arg |-> g], append(fed, g))
       \/ Call([op |-> "steal", arg |-> g], steal(fed, g))
       \/ Call([op |-> "+=", arg |-> g], PlusFed(fed, g))
       \/ Call([op |-> "&=", arg |-> g], AndFed(fed, g))
       \/ Call([op |-> "-=", arg |-> g], MinusFed(fed, g))
       \/ Call([op |-> "removeIncludedIn", arg |-> g], removeIncludedInFed(fed, g))

SubtractDown ==
  \E g \in Args :
    /\ Len(fed) <= MaxOperand
    /\ Call([op |-> "subtractDown", arg |-> g], subtractDown(fed, g))

Predt ==
  \E g \in Args, restrict \in Restrictions \cup {Empty} :
    /\ Len(fed) <= MaxOperand
    /\ Call([op |-> "predt", arg |-> g, restrict |-> restrict], predt(fed, g, restrict))

\* Operations on every zone.
Constrain ==
  /\ Len(fed) <= MaxOperand
  /\ \/ \E c \in [i : Clk, j : Clk, value : Bounds] :
          c.i # c.j /\ Call([op |-> "constrain", c |-> c], constrain(fed, c))
     \/ Call([op |-> "tightenDown"], tightenDown(fed))
     \/ Call([op |-> "tightenUp"], tightenUp(fed))

Delay ==
  /\ Len(fed) <= MaxOperand
  /\ \/ Call([op |-> "up"], up(fed))
     \/ Call([op |-> "down"], down(fed))
     \/ Call([op |-> "relaxUp"], relaxUp(fed))
     \/ Call([op |-> "relaxDown"], relaxDown(fed))

Update ==
  /\ Len(fed) <= MaxOperand
  /\ \E k \in Clocks, x \in Clocks :
       \/ Call([op |-> "freeClock", k |-> k], freeClock(fed, k))
       \/ Call([op |-> "freeUp", k |-> k], freeUp(fed, k))
       \/ Call([op |-> "freeDown", k |-> k], freeDown(fed, k))
       \/ Call([op |-> "updateValue", k |-> k], updateValue(fed, k, 1))
       \/ Call([op |-> "updateClock", k |-> k, x |-> x], updateClock(fed, k, x))
       \/ Call([op |-> "swapClocks", k |-> k, x |-> x], swapClocks(fed, k, x))

Select ==
  /\ Len(fed) <= MaxOperand
  /\ \/ Call([op |-> "getUnbounded"], getUnbounded(fed))
     \/ Call([op |-> "getBounded"], getBounded(fed))

Reduce ==
  \/ Call([op |-> "reduce"], reduce(fed))
  \/ \E level \in 0 .. 2 :
       Call([op |-> "mergeReduce", level |-> level], mergeReduce(fed, 0, level))
  \/ Call([op |-> "expensiveReduce"], expensiveReduce(fed))
  \/ Call([op |-> "convexReduce"], convexReduce(fed))
  \/ Call([op |-> "expensiveConvexReduce"], expensiveConvexReduce(fed))
  \/ Call([op |-> "partitionReduce"], partitionReduce(fed))

Next ==
  \/ Add \/ SetOperation \/ SubtractDown \/ Predt \/ Constrain \/ Delay \/ Update \/ Select
  \/ Reduce \/ Return

Spec == Init /\ [][Next]_vars

-----------------------------------------------------------------------------
(* Clock valuations.  With two clocks, multiples of 1/3 have every order of fractional *)
(* parts; delays are multiples of 1/6, which reach between and onto all their bounds. *)

Moments == 0 .. 6 * Horizon

Valuations == {pt \in [Clk -> {2 * n : n \in 0 .. 3 * Horizon}] : pt[0] = 0}

In(pt, D) == dbm_isRealPointIncluded(pt, D, 6)

Points(f) == {pt \in Valuations : \E n \in DOMAIN f : In(pt, f[n])}

\* Where clocks may be after a delay, and which of these points each zone of the pool has.
Delayed(pt, d) == [k \in Clk |-> IF k = 0 THEN 0 ELSE pt[k] + d]
Reached == {Delayed(pt, d) : pt \in Valuations, d \in Moments}
PoolPoints == [D \in Zones |-> {pt \in Reached : In(pt, D)}]
Has(f, pt) == \E n \in DOMAIN f : pt \in PoolPoints[f[n]]

\* The type invariant and isOK: no zone of a list is empty, and all are closed, although
\* nothing is closed again after a reduction or a subtraction.
ZonesValid ==
  /\ fed \in Seq(Zones) /\ Len(fed) <= MaxSize
  /\ \A n \in DOMAIN result : result[n] \in Matrix /\ dbm_isValid(result[n])

\* The set operations mean what they say, however the zones overlap, in whatever order
\* they are split and merged.  The clause for += disagrees with fed.h:993 ("Every DBM of the
\* federation is unified with the argument. To get the convex hull of everything, call
\* this->convexHull() += arg"): without that call too, the code leaves the hull of everything.
SetOperationsExact ==
  call # NoCall /\ "arg" \in DOMAIN call /\ call.op # "predt" =>
    LET mine == Points(fed)
        other == Points(call.arg)
    IN  CASE call.op \in {"|=", "add", "unionWith", "append", "steal"} ->
               Points(result) = mine \cup other
          [] call.op = "+=" ->
               Points(result) = Points(IF Len(fed \o call.arg) = 0 THEN <<>>
                                       ELSE <<HullOf(fed \o call.arg)>>)
          [] call.op = "&=" -> Points(result) = mine \cap other
          [] call.op = "-=" -> Points(result) = mine \ other
          [] call.op = "removeIncludedIn" ->
               Points(result) \subseteq mine /\ mine \subseteq Points(result) \cup other
          [] call.op = "subtractDown" -> Points(down(MinusFed(fed, call.arg))) \subseteq Points(result)

\* A zone minus a zone is a union of disjoint zones, all inside of the first one.
PiecesDisjoint ==
  call.op = "-=" /\ Len(fed) = 1 =>
    /\ \A n \in DOMAIN result : dbm_isSubsetEq(result[n], fed[1])
    /\ Len(call.arg) = 1 =>
         \A n, m \in DOMAIN result : n # m => dbm_intersection(result[n], result[m]) = Empty

\* Reductions change the list and not the set, and never make the list longer.
ReductionsKeepSet ==
  call.op \in {"reduce", "mergeReduce", "expensiveReduce", "convexReduce",
               "expensiveConvexReduce", "partitionReduce"} =>
    Points(result) = Points(fed) /\ Len(result) <= Len(fed)

\* What a reduction leaves has no zone that another one contains or, after the expensive
\* one, that the others contain together; a union that compares zones adds none.
Irredundant(f) == \A n, m \in DOMAIN f : n # m => ~dbm_isSubsetEq(f[n], f[m])

NothingRedundant ==
  /\ call.op \in {"reduce", "mergeReduce", "&="} => Irredundant(result)
  /\ call.op \in {"|=", "unionWith", "steal"} /\ Irredundant(fed) /\ Irredundant(call.arg) =>
       Irredundant(result)
  /\ call.op = "expensiveReduce" /\ Len(result) > 1 =>
       \A n \in DOMAIN result :
         ~(Points(<<result[n]>>) \subseteq Points(RemoveAt(result, n)))

\* predt: the valuations from which a delay leads into the federation, and on the way
\* there, its end included, never into the bad one.  A restriction that contains the
\* federation is applied to the result.
Leads(pt, good, bad) ==
  \E d \in Moments :
    /\ Has(good, Delayed(pt, d))
    /\ \A e \in 0 .. d : ~Has(bad, Delayed(pt, e))

PredtExact ==
  call.op = "predt" /\ (call.restrict = Empty \/ AllWithin(fed, call.restrict)) =>
    Points(result) = {pt \in IF call.restrict = Empty THEN Valuations ELSE Points(<<call.restrict>>) :
                        Leads(pt, fed, call.arg)}

\* With a restriction that the federation is not inside of: "the points in the resulting
\* federation may delay ... until they belong to this federation without entering bad".
PredtRestricted ==
  call.op = "predt" /\ call.restrict # Empty =>
    \A pt \in Points(result) : Leads(pt, fed, call.arg)

\* "Compute (*this -= arg).down()".
SubtractDownIsDown ==
  call.op = "subtractDown" => Points(result) = Points(down(MinusFed(fed, call.arg)))

\* Comparisons: relation and intersects may only miss what is true of the sets, the exact
\* ones are right, although they split zones only as far as they must.
ComparisonsExact ==
  call = NoCall /\ Len(fed) <= MaxOperand =>
    LET mine == Points(fed)
    IN  \A g \in Args :
          LET other == Points(g)
          IN  /\ exactRelation(fed, g) = Relation(mine \subseteq other, other \subseteq mine)
              /\ relation(fed, g) \in {"equal", "subset"} => mine \subseteq other
              /\ relation(fed, g) \in {"equal", "superset"} => other \subseteq mine
              /\ ~intersects(fed, g) => mine \cap other = {}

PredtPoints == [p \in Args \X Args |-> Points(predt(p[1], p[2], Empty))]

PredtHas(f, good, bad) == Points(f) \subseteq PredtPoints[good, bad]

\* Every zone of the federation has its points in the past of one and the same good zone.
EachBelowOne(good) ==
  \A n \in DOMAIN fed : \E m \in DOMAIN good : PredtHas(<<fed[n]>>, <<good[m]>>, <<>>)

SmallBad(good) == {bad \in Args : Len(fed \o good \o bad) <= MaxSize + 1}

\* isIncludedInPredt says yes only for a federation that is included.  With at most one bad
\* zone, the only reason for a wrong no is a zone that the pasts of the good zones cover
\* together and none of them alone, for which fed.h:1321 ("@return true if this fed_t is
\* included in predt(good,bad)") promises a yes.
IncludedInPredtSound ==
  call = NoCall /\ Len(fed) <= MaxOperand =>
    \A good \in Args : \A bad \in SmallBad(good) :
      LET yes == isIncludedInPredt(fed, good, bad)
      IN  /\ yes => PredtHas(fed, good, bad)
          /\ Len(bad) <= 1 => (yes <=> PredtHas(fed, good, bad) /\ EachBelowOne(good))

=============================================================================

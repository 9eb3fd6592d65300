------------------------------- MODULE FedOps -------------------------------
(***************************************************************************)
(* Federations (src/fed.cpp): a union of zones as a list of matrices.  The *)
(* operations are functions from sequences to sequences, whose order is    *)
(* that of the list, since reductions and subtractions depend on it.       *)
(***************************************************************************)
EXTENDS MinReduction, SequencesExt

CONSTANT restricted_merge  \* merge only zones that have most bounds in common

\* The list of a matrix that an operation may have left empty.
Single(D) == IF D = Empty THEN <<>> ELSE <<D>>

NonEmpty(f) == SelectSeq(f, LAMBDA D : D # Empty)

AllWithin(f, D) == \A n \in DOMAIN f : dbm_isSubsetEq(f[n], D)
OneContains(f, D) == \E n \in DOMAIN f : dbm_isSubsetEq(D, f[n])

-----------------------------------------------------------------------------
(* dbmlist_t: lists that are appended, united and reduced. *)

\* The shorter of two lists goes first.
append(f, g) == IF Len(f) > Len(g) THEN g \o f ELSE f \o g

\* Each zone of f against those of g until one contains it; zones of g that are
\* contained are dropped on the way.
removeIncluded(f, g) ==
  FoldLeft(LAMBDA s, D :
             LET containing == {m \in DOMAIN s.g : dbm_isSubsetEq(D, s.g[m])}
                 end == IF containing = {} THEN Len(s.g) + 1 ELSE Least(containing)
             IN  [f |-> IF containing = {} THEN Append(s.f, D) ELSE s.f,
                  g |-> SelectSeq(SubSeq(s.g, 1, end - 1),
                                  LAMBDA S : ~dbm_isSubsetEq(S, D))
                          \o SubSeq(s.g, end, Len(s.g))],
           [f |-> <<>>, g |-> g], f)

appendParts(s) == append(s.f, s.g)
unionWith(f, g) == appendParts(removeIncluded(f, g))

\* Mutant of reduce: of two equal zones both are removed.
RECURSIVE reduceEqualBoth(_)
reduceEqualBoth(f) ==
  IF f = <<>> THEN f
  ELSE LET D == Head(f)
           others == SelectSeq(Tail(f), LAMBDA S : ~dbm_isSubsetEq(S, D))
       IN  IF OneContains(Tail(f), D) THEN reduceEqualBoth(others)
           ELSE <<D>> \o reduceEqualBoth(others)

\* A zone drops those after it that it contains, until one contains it.
RECURSIVE reduce(_)
reduce(f) ==
  IF f = <<>> THEN f
  ELSE LET D == Head(f)
           rest == Tail(f)
           containing == {m \in DOMAIN rest : D # rest[m] /\ dbm_isSubsetEq(D, rest[m])}
           end == IF containing = {} THEN Len(rest) + 1 ELSE Least(containing)
           others == SelectSeq(SubSeq(rest, 1, end - 1), LAMBDA S : ~dbm_isSubsetEq(S, D))
                       \o SubSeq(rest, end, Len(rest))
       IN  IF containing = {} THEN <<D>> \o reduce(others) ELSE reduce(others)

\* Mutant of intersection: zones that become empty stay in the list.
intersectionKeepsEmpty(f, S) == [n \in DOMAIN f |-> dbm_intersection(f[n], S)]

\* Every bound of arg, whatever zone it is; duplicates go in the mergeReduce that always
\* follows.
intersection(f, S) == NonEmpty([n \in DOMAIN f |-> dbm_intersection(f[n], S)])

-----------------------------------------------------------------------------
(* Subtraction of zones. *)

dbm_tighten(D, i, j, c) == dbm_closeij([D EXCEPT ![i][j] = c], i, j)

\* How much a bound of S would split D, or infinity if it is outside of it.
worstValue(D, S, i, j) ==
  LET value == dbm_weakRaw(S[i][j])
      outside(a, b) == /\ a # dbm_LS_INFINITY /\ b # dbm_LS_INFINITY
                       /\ value >= dbm_weakRaw(a) + dbm_weakRaw(b)
  IN  IF \E k \in Clk \ {i, j} : outside(D[i][k], S[k][j]) \/ outside(S[i][k], D[k][j])
      THEN dbm_LS_INFINITY ELSE value - D[i][j]

SplitValue(D, S, i, j) ==
  IF D[i][j] = dbm_LS_INFINITY THEN -dbm_LS_INFINITY ELSE worstValue(D, S, i, j)

\* indices[k] = indices[--nbConstraints]
SwapOut(indices, k) ==
  SubSeq([indices EXCEPT ![k] = indices[Len(indices)]], 1, Len(indices) - 1)

\* The indices from k on whose bound in S does not tighten D are dropped.
RECURSIVE Tightening(_, _, _, _)
Tightening(D, S, indices, k) ==
  IF k > Len(indices) THEN indices
  ELSE IF S[indices[k][1]][indices[k][2]] >= D[indices[k][1]][indices[k][2]]
  THEN Tightening(D, S, SwapOut(indices, k), k)
  ELSE Tightening(D, S, indices, k + 1)

\* Mutant of Remainder: the pieces overlap (NDISJOINT_SUBTRACTION).
remainderIsAll(D, S, i, j) == D

\* What is still to be split, on the side of the bound where S is.
Remainder(D, S, i, j) == dbm_tighten(D, i, j, S[i][j])

\* The bound that splits D least is next, the first of them if there are several.
BestIndex(D, S, indices) ==
  LET value == [k \in DOMAIN indices |-> SplitValue(D, S, indices[k][1], indices[k][2])]
  IN  Least({k \in DOMAIN indices : \A m \in DOMAIN indices : value[k] <= value[m]})

\* The loop of internSubtract: D is what is left of the zone, which may be outside of S.
RECURSIVE SplitBy(_, _, _, _), SplitBest(_, _, _, _), SplitOff(_, _, _, _, _)
SplitBy(D, S, indices, pieces) ==
  IF \E k \in DOMAIN indices :
       dbm_negRaw(S[indices[k][1]][indices[k][2]]) >= D[indices[k][2]][indices[k][1]]
  THEN <<D>> \o pieces
  ELSE SplitBest(D, S, Tightening(D, S, indices, 1), pieces)

SplitBest(D, S, kept, pieces) ==
  IF kept = <<>> THEN pieces
  ELSE LET best == BestIndex(D, S, kept)
       IN  SplitOff(D, S, kept[best], SwapOut(kept, best), pieces)

SplitOff(D, S, p, rest, pieces) ==
  LET more == <<dbm_tighten(D, p[2], p[1], dbm_negRaw(S[p[1]][p[2]]))>> \o pieces
  IN  IF rest = <<>> THEN more ELSE SplitBy(Remainder(D, S, p[1], p[2]), S, rest, more)

\* Row by row.
AsSequence(bits) ==
  SelectSeq([n \in 1 .. dim * dim |-> <<(n - 1) \div dim, (n - 1) % dim>>], LAMBDA p : p \in bits)

internSubtract(D, S, bits) ==
  SplitBy(D, S, AsSequence({p \in bits : S[p[1]][p[2]] < D[p[1]][p[2]]}), <<>>)

\* The bounds that subtraction negates.
MinBits(S) == dbm_cleanBitMatrix(S, dbm_analyzeForMinDBM(S))

\* fed_t::subtract, of two zones.
SubtractDbm(D, S) ==
  IF D = Empty \/ dim <= 1 THEN <<>>
  ELSE IF S # Empty /\ dbm_haveIntersection(D, S) THEN internSubtract(D, S, MinBits(S))
  ELSE <<D>>

ptr_subtract(f, S) ==
  LET bits == MinBits(S)
  IN  IF dim <= 1 THEN <<>>
      ELSE FoldLeft(LAMBDA s, D : IF dbm_haveIntersection(D, S)
                                  THEN unionWith(s, internSubtract(D, S, bits))
                                  ELSE <<D>> \o s, <<>>, f)

\* operator -=
MinusDbm(f, S) == IF f = <<>> \/ S = Empty THEN f ELSE ptr_subtract(f, S)

MinusFed(f, g) == FoldLeft(MinusDbm, f, g)

\* Mutant of isDbmSubtractionEmpty: a zone that several zones cover together is missed.
dbmSubtractionEmptyByOne(D, g) == g # <<>> /\ (dim <= 1 \/ OneContains(g, D))

\* fed_t::isSubtractionEmpty: a zone, or a federation, minus a federation.
isDbmSubtractionEmpty(D, g) ==
  /\ g # <<>>
  /\ \/ dim <= 1 \/ OneContains(g, D)
     \/ (Len(g) > 1 /\ MinusFed(<<D>>, g) = <<>>)

isSubtractionEmpty(f, g) ==
  \/ f = <<>>
  \/ /\ g # <<>> /\ Len(f) = 1
     /\ isDbmSubtractionEmpty(f[1], g)
  \/ /\ g # <<>> /\ Len(f) > 1
     /\ AllWithin(f, g[1]) \/ (Len(g) > 1 /\ MinusFed(f, g) = <<>>)

-----------------------------------------------------------------------------
(* Merging two zones into their convex union, which needs subtractions. *)

\* fed_checkWeakAdd: two bounds that exclude each other, and would if they were weak.
fed_checkWeakAdd(cij, cji) ==
  /\ cij # dbm_LS_INFINITY /\ cji # dbm_LS_INFINITY
  /\ cij + cji - (IF dbm_rawIsWeak(cij) /\ dbm_rawIsWeak(cji) THEN 1 ELSE 0) < dbm_LE_ZERO

\* "No intersection for sure".
Apart(D, S) == \E i, j \in Clk : i # j /\ fed_checkWeakAdd(D[i][j], S[j][i])

SamePairs(D, S) ==
  {i \in Clk : \E j \in 0 .. i - 1 : D[i][j] = S[i][j] /\ D[j][i] = S[j][i]}

Mergeable(D, S, level) ==
  LET nbOK == Cardinality(SamePairs(D, S)) + (IF dim <= 2 THEN 1 ELSE 0)
  IN  IF level # 0 \/ ~restricted_merge THEN nbOK > 0 ELSE nbOK + 2 >= dim

\* Mutant of SafeMerge: what the union adds may be in any zone, S or not.
safeMergeIfSmall(f, i, j, level) ==
  Len(MinusDbm(<<dbm_convexUnion(f[i], f[j])>>, f[i])) <= 1

\* Each zone of left is in one of the others (level 1), or in all of them together.
LeftIn(left, zones, level) ==
  IF level = 1 THEN \A m \in DOMAIN left : OneContains(zones, left[m])
  ELSE MinusFed(left, zones) = <<>>

\* What a union adds to a zone is in the zone D or, at level 1 and 2, in other zones.
ExcessIn(excess, D, zones, level) ==
  \/ AllWithin(excess, D)
  \/ level > 0 /\ LeftIn(MinusDbm(excess, D), zones, level)

\* The convex union of f[i] and f[j] is no more than the zones of f.
SafeMerge(f, i, j, level) ==
  LET others == SelectSeq([n \in DOMAIN f |-> n], LAMBDA n : n \notin {i, j})
  IN  ExcessIn(MinusDbm(<<dbm_convexUnion(f[i], f[j])>>, f[i]), f[j],
               [n \in DOMAIN others |-> f[others[n]]], level)

\* The zone at i against the zone at j, for all j before i, starting over after a merge.
RECURSIVE MergeFrom(_, _, _, _)
MergeFrom(f, i, j, level) ==
  IF i > Len(f) THEN f
  ELSE IF j = i THEN MergeFrom(f, i + 1, 1, level)
  ELSE IF Apart(f[i], f[j]) THEN MergeFrom(f, i, j + 1, level)
  ELSE IF dbm_isSubsetEq(f[i], f[j]) THEN MergeFrom(RemoveAt(f, i), i, 1, level)
  ELSE IF dbm_isSubsetEq(f[j], f[i]) THEN MergeFrom(RemoveAt(f, j), i - 1, j, level)
  ELSE IF Mergeable(f[i], f[j], level) /\ SafeMerge(f, i, j, level)
  THEN MergeFrom(RemoveAt([f EXCEPT ![i] = dbm_convexUnion(f[i], f[j])], j), i - 1, 1, level)
  ELSE MergeFrom(f, i, j + 1, level)

\* skip: zones at the front that are reduced already.
mergeReduce(f, skip, level) == IF Len(f) > 1 THEN MergeFrom(f, skip + 1, 1, level) ELSE f

\* appendEnd and incremental reduction.
steal(f, g) == mergeReduce(f \o g, Len(f), 0)

-----------------------------------------------------------------------------
(* The other reductions. *)

\* Each zone against all the others together.
RECURSIVE ExpensiveFrom(_, _)
ExpensiveFrom(f, n) ==
  LET rest == RemoveAt(f, n)
  IN  IF n > Len(f) \/ Len(f) <= 1 THEN f
      ELSE IF AllWithin(rest, f[n]) THEN <<f[n]>>
      ELSE IF isDbmSubtractionEmpty(f[n], rest) THEN ExpensiveFrom(rest, n)
      ELSE ExpensiveFrom(f, n + 1)

expensiveReduce(f) == ExpensiveFrom(f, 1)

Compatible(D, S) == dim <= 2 \/ \E i, j \in Clk : i # j /\ D[i][j] = S[i][j]
SymCompatible(D, S) == dim <= 2 \/ SamePairs(D, S) # {}

\* The convex union of two zones is no more than the zones.
Merges(D, S) == MinusDbm(MinusDbm(<<dbm_convexUnion(D, S)>>, D), S) = <<>>

\* Mutant of ConvexFits: the union of the zones replaces them if it adds one piece.
convexFitsUpToOne(convex, D, removed) ==
  Len(MinusFed(MinusDbm(<<convex>>, D), removed)) <= 1

ConvexFits(convex, D, removed) == MinusFed(MinusDbm(<<convex>>, D), removed) = <<>>

\* The zone at i takes the zones after it that have a bound in common with it into
\* removed, convex being the union of all of them.  If convex is more than the zones, the
\* zones are replaced by what is left of convex when the excess is subtracted, if these
\* are not more; otherwise they are put back.
RECURSIVE ConvexStart(_, _), ConvexFrom(_, _, _, _, _), ConvexEnd(_, _, _, _)
RECURSIVE ConvexOr(_, _, _, _, _), ConvexLess(_, _, _, _, _), ConvexBack(_, _, _, _)

ConvexStart(f, i) == IF i > Len(f) THEN f ELSE ConvexFrom(f, i, i + 1, f[i], <<>>)

ConvexFrom(f, i, j, convex, removed) ==
  LET D == f[i]
      S == f[j]
  IN  IF j > Len(f) THEN ConvexEnd(f, i, convex, removed)
      ELSE IF Apart(D, S) THEN ConvexFrom(f, i, j + 1, convex, removed)
      ELSE IF dbm_isSubsetEq(D, S) THEN ConvexStart(RemoveAt(f, i) \o removed, i)
      ELSE IF dbm_isSubsetEq(S, D) THEN ConvexFrom(RemoveAt(f, j), i, j, convex, removed)
      ELSE IF SymCompatible(D, S) /\ Merges(D, S)
      THEN ConvexStart(RemoveAt([f EXCEPT ![i] = dbm_convexUnion(D, S)], j) \o removed, i)
      ELSE IF Compatible(D, S)
      THEN ConvexFrom(RemoveAt(f, j), i, j, dbm_convexUnion(convex, S), <<S>> \o removed)
      ELSE ConvexFrom(f, i, j + 1, convex, removed)

\* Zones of the list that convex contains are removed too.
ConvexEnd(f, i, convex, removed) ==
  LET after == SubSeq(f, i + 1, Len(f))
      inside == SelectSeq(after, LAMBDA Z : dbm_isSubsetEq(Z, convex))
      outside == SelectSeq(after, LAMBDA Z : ~dbm_isSubsetEq(Z, convex))
  IN  IF removed = <<>> THEN ConvexStart(f, i + 1)
      ELSE ConvexOr(SubSeq(f, 1, i), outside, convex,
                    mergeReduce(Reverse(inside) \o removed, 0, 0), i)

\* convex, or what is left of it.
ConvexOr(front, outside, convex, all, i) ==
  LET excess == MinusFed(MinusDbm(<<convex>>, front[i]), all)
  IN  IF ConvexFits(convex, front[i], all)
      THEN ConvexStart([front EXCEPT ![i] = convex] \o outside, i)
      ELSE ConvexLess(front, outside, all, i,
             mergeReduce(MinusFed(<<convex>>, mergeReduce(excess, 0, 0)), 0, 0))

ConvexLess(front, outside, all, i, new) ==
  IF Len(new) <= Len(all) THEN ConvexStart(SubSeq(front, 1, i - 1) \o outside \o new, i)
  ELSE ConvexBack(front, outside, i, expensiveReduce(<<front[i]>> \o all))

ConvexBack(front, outside, i, reduced) ==
  IF reduced[1] = front[i] THEN ConvexStart(front \o outside \o Tail(reduced), i + 1)
  ELSE ConvexStart(SubSeq(front, 1, i - 1) \o outside \o reduced, i)

convexReduce(f) == IF Len(f) <= 1 THEN f ELSE ConvexStart(f, 1)

HullOf(f) == FoldLeft(dbm_convexUnion, f[1], Tail(f))

\* The convex union without its excess, if that takes fewer zones.
Fewer(f, new) == IF Len(new) < Len(f) THEN new ELSE f

HullWithout(f, excess) ==
  LET new == MinusFed(<<HullOf(f)>>, excess)
  IN  IF Len(excess) > Len(f) \/ Len(new) >= 3 * (Len(excess) + Len(f)) THEN f
      ELSE Fewer(f, mergeReduce(new, 0, 0))

expensiveConvexReduce(f) ==
  LET excess == MinusFed(<<HullOf(f)>>, f)
  IN  IF Len(f) <= 1 \/ Len(excess) > 5 * Len(f) THEN f
      ELSE HullWithout(f, mergeReduce(excess, 0, 0))

\* The zones of rest that touch those of part from n on, or each other, move to part.
RECURSIVE Connected(_, _, _)
Connected(part, rest, n) ==
  LET touches(S) == dbm_relaxedIntersection(part[n], S) # Empty
  IN  IF n > Len(part) THEN [part |-> part, rest |-> rest]
      ELSE Connected(part \o SelectSeq(rest, touches),
                     SelectSeq(rest, LAMBDA S : ~touches(S)), n + 1)

RECURSIVE ReducedParts(_, _)
ReducedParts(f, reduced) ==
  LET split == Connected(<<Head(f)>>, Tail(f), 1)
  IN  IF f = <<>> THEN reduced
      ELSE ReducedParts(split.rest,
             append(reduced, expensiveConvexReduce(convexReduce(split.part))))

partitionReduce(f) ==
  IF Len(f) <= 1 THEN f
  ELSE IF Len(f) = 2 THEN convexReduce(f) ELSE ReducedParts(f, <<>>)

=============================================================================

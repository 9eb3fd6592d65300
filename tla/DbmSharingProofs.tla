--------------------------- MODULE DbmSharingProofs ---------------------------
(***************************************************************************)
(* Sharing is correct for every set of handles, every allocator that has a *)
(* block to spare and every largest point: the reference counts are exact, *)
(* the hash table and the stored graphs agree with the blocks, and each    *)
(* call means for the values what DbmValues says.                          *)
(***************************************************************************)
EXTENDS DbmSharing, FiniteSetTheorems, TLAPS

-----------------------------------------------------------------------------
(* The zones of one clock, for every MaxPoint: what the operators return. *)

\* The ends of an interval are its least and its greatest point.
LEMMA IntervalEnds ==
  ASSUME NEW lo \in Points, NEW hi \in Points, lo <= hi
  PROVE  /\ Min(Interval(lo, hi)) = lo
         /\ Max(Interval(lo, hi)) = hi
         /\ Interval(lo, hi) # {}
<1>1. lo \in Interval(lo, hi) /\ hi \in Interval(lo, hi)
  BY PointAssumption DEF Points, Interval
<1>2. \A p \in Interval(lo, hi) : p \in Int /\ lo <= p /\ p <= hi
  BY PointAssumption DEF Points, Interval
<1>3. Min(Interval(lo, hi)) = lo
  <2> DEFINE least == CHOOSE x \in Interval(lo, hi) : \A y \in Interval(lo, hi) : x <= y
  <2>1. least \in Interval(lo, hi) /\ \A y \in Interval(lo, hi) : least <= y
    BY <1>1, <1>2
  <2>2. least = lo
    <3> HIDE DEF least
    <3> QED BY <1>1, <1>2, <2>1 DEF Points
  <2> QED BY <2>2 DEF Min
<1>4. Max(Interval(lo, hi)) = hi
  <2> DEFINE greatest == CHOOSE x \in Interval(lo, hi) : \A y \in Interval(lo, hi) : x >= y
  <2>1. greatest \in Interval(lo, hi) /\ \A y \in Interval(lo, hi) : greatest >= y
    BY <1>1, <1>2
  <2>2. greatest = hi
    <3> HIDE DEF greatest
    <3> QED BY <1>1, <1>2, <2>1 DEF Points
  <2> QED BY <2>2 DEF Max
<1> QED BY <1>1, <1>3, <1>4

\* A zone with a clock is an interval that has points.
LEMMA ZoneEnds ==
  ASSUME NEW zone \in Zones(2)
  PROVE  \E lo, hi \in Points : lo <= hi /\ zone = Interval(lo, hi)
<1>1. PICK lo, hi \in Points : zone = Interval(lo, hi) /\ zone # {}
  BY DEF Zones
<1>2. lo <= hi
  BY <1>1, PointAssumption DEF Interval, Points
<1> QED BY <1>1, <1>2

\* An interval between two points is a zone.
LEMMA IntervalIsZone ==
  ASSUME NEW lo \in Points, NEW hi \in Points, lo <= hi
  PROVE  Interval(lo, hi) \in Zones(2)
BY IntervalEnds DEF Zones

\* The zone without clocks.
LEMMA ZoneOfDimensionOne == Zones(1) = {{0}} /\ 0 \in Points /\ {0} = Interval(0, 0)
BY PointAssumption DEF Zones, Points, Interval

\* No zone is empty.
LEMMA ZonesAreInhabited ==
  ASSUME NEW dim \in Dims
  PROVE  {} \notin Zones(dim)
BY DEF Dims, Zones

\* setZero and setInit make zones.
LEMMA InitialZones ==
  ASSUME NEW dim \in Dims
  PROVE  {0} \in Zones(dim) /\ dbm_init(dim) \in Zones(dim)
<1>1. CASE dim = 1
  BY <1>1 DEF Zones, dbm_init
<1>2. CASE dim = 2
  <2>1. {0} = Interval(0, 0) /\ Points = Interval(0, MaxPoint)
    BY PointAssumption DEF Interval, Points
  <2>2. 0 \in Points /\ MaxPoint \in Points /\ 0 <= MaxPoint
    BY PointAssumption DEF Points
  <2> QED BY <1>2, <2>1, <2>2, IntervalIsZone DEF dbm_init
<1> QED BY <1>1, <1>2 DEF Dims

\* What two zones have in common is a zone or nothing.
LEMMA ZoneIntersection ==
  ASSUME NEW dim \in Dims, NEW z \in Zones(dim), NEW c \in Zones(dim)
  PROVE  z \cap c \in Zones(dim) \cup {{}}
<1>1. CASE dim = 1
  BY <1>1 DEF Zones
<1>2. CASE dim = 2
  <2>1. PICK lo, hi \in Points : lo <= hi /\ z = Interval(lo, hi)
    BY <1>2, ZoneEnds
  <2>2. PICK low, high \in Points : low <= high /\ c = Interval(low, high)
    BY <1>2, ZoneEnds
  <2>3. PICK l \in Points : l >= lo /\ l >= low /\ l \in {lo, low}
    BY PointAssumption DEF Points
  <2>4. PICK h \in Points : h <= hi /\ h <= high /\ h \in {hi, high}
    BY PointAssumption DEF Points
  <2>5. z \cap c = Interval(l, h)
    BY <2>1, <2>2, <2>3, <2>4, PointAssumption DEF Interval, Points
  <2> QED BY <1>2, <2>5 DEF Zones
<1> QED BY <1>1, <1>2 DEF Dims

\* The hull of points that have a least and a greatest one.
LEMMA HullEnds ==
  ASSUME NEW S \in SUBSET Points, NEW lo \in S, NEW hi \in S,
         \A p \in S : lo <= p /\ p <= hi
  PROVE  Hull(S) = Interval(lo, hi)
<1>1. Min(S) = lo
  <2> DEFINE least == CHOOSE x \in S : \A y \in S : x <= y
  <2>1. least \in S /\ \A y \in S : least <= y
    OBVIOUS
  <2>2. least = lo
    <3> HIDE DEF least
    <3> QED BY <2>1, PointAssumption DEF Points
  <2> QED BY <2>2 DEF Min
<1>2. Max(S) = hi
  <2> DEFINE greatest == CHOOSE x \in S : \A y \in S : x >= y
  <2>0. \A y \in S : hi >= y
    BY PointAssumption DEF Points
  <2>1. greatest \in S /\ \A y \in S : greatest >= y
    BY <2>0
  <2>2. greatest = hi
    <3> HIDE DEF greatest
    <3> QED BY <2>0, <2>1, PointAssumption DEF Points
  <2> QED BY <2>2 DEF Max
<1> QED BY <1>1, <1>2 DEF Hull

\* A zone is its own hull.
LEMMA HullOfZone ==
  ASSUME NEW dim \in Dims, NEW z \in Zones(dim)
  PROVE  Hull(z) = z
<1>1. \E lo, hi \in Points : lo <= hi /\ z = Interval(lo, hi)
  <2>1. CASE dim = 1
    <3>1. z = {0}
      BY <2>1 DEF Zones
    <3>2. 0 \in Points /\ 0 <= 0 /\ z = Interval(0, 0)
      BY <3>1, ZoneOfDimensionOne
    <3> QED BY <3>2
  <2>2. CASE dim = 2
    BY <2>2, ZoneEnds
  <2> QED BY <2>1, <2>2 DEF Dims
<1>2. PICK lo, hi \in Points : lo <= hi /\ z = Interval(lo, hi)
  BY <1>1
<1>3. lo \in z /\ hi \in z /\ z \in SUBSET Points /\ \A p \in z : lo <= p /\ p <= hi
  BY <1>2, PointAssumption DEF Interval, Points
<1> QED BY <1>2, <1>3, HullEnds

\* The convex union of two zones is a zone.
LEMMA HullOfUnion ==
  ASSUME NEW dim \in Dims, NEW z \in Zones(dim), NEW c \in Zones(dim)
  PROVE  Hull(z \cup c) \in Zones(dim)
<1>1. CASE dim = 1
  BY <1>1, HullOfZone DEF Zones
<1>2. CASE dim = 2
  <2>1. PICK lo, hi \in Points : lo <= hi /\ z = Interval(lo, hi)
    BY <1>2, ZoneEnds
  <2>2. PICK low, high \in Points : low <= high /\ c = Interval(low, high)
    BY <1>2, ZoneEnds
  <2>3. PICK l \in Points : l <= lo /\ l <= low /\ l \in {lo, low}
    BY PointAssumption DEF Points
  <2>4. PICK h \in Points : h >= hi /\ h >= high /\ h \in {hi, high}
    BY PointAssumption DEF Points
  <2>5. /\ z \cup c \in SUBSET Points
        /\ l \in z \cup c /\ h \in z \cup c
        /\ \A p \in z \cup c : l <= p /\ p <= h
        /\ l <= h
    BY <2>1, <2>2, <2>3, <2>4, PointAssumption DEF Interval, Points
  <2>6. Hull(z \cup c) = Interval(l, h)
    BY <2>5, HullEnds
  <2> QED BY <1>2, <2>5, <2>6, IntervalIsZone
<1> QED BY <1>1, <1>2 DEF Dims

\* up, down, freeClock and updateValue lead from zones to zones.
LEMMA LazyImage ==
  ASSUME NEW dim \in Dims, NEW z \in Zones(dim), NEW op \in LazyOps
  PROVE  Image(op, dim, z) \in Zones(dim)
<1>1. CASE dim = 1
  BY <1>1 DEF Image
<1>2. CASE dim = 2
  <2>1. PICK lo, hi \in Points : lo <= hi /\ z = Interval(lo, hi)
    BY <1>2, ZoneEnds
  <2>2. Min(z) = lo /\ Max(z) = hi
    BY <2>1, IntervalEnds
  <2>3. /\ 0 \in Points /\ MaxPoint \in Points
        /\ lo <= MaxPoint /\ 0 <= hi /\ 0 <= MaxPoint
    BY PointAssumption DEF Points
  <2>4. CASE op = <<"up", 0>>
    BY <1>2, <2>2, <2>3, <2>4, IntervalIsZone DEF Image
  <2>5. CASE op = <<"down", 0>>
    BY <1>2, <2>2, <2>3, <2>5, IntervalIsZone DEF Image
  <2>6. CASE op = <<"freeClock", 0>>
    <3>1. Image(op, dim, z) = Interval(0, MaxPoint)
      BY <1>2, <2>6, PointAssumption DEF Image, Interval, Points
    <3> QED BY <1>2, <2>3, <3>1, IntervalIsZone
  <2>7. CASE op \in {"updateValue"} \X Points
    <3>1. PICK v \in Points : op = <<"updateValue", v>>
      BY <2>7
    <3>2. Image(op, dim, z) = {v}
      BY <1>2, <3>1 DEF Image
    <3>3. {v} = Interval(v, v) /\ v <= v
      BY PointAssumption DEF Interval, Points
    <3> QED BY <1>2, <3>2, <3>3, IntervalIsZone
  <2> QED BY <2>4, <2>5, <2>6, <2>7 DEF LazyOps
<1> QED BY <1>1, <1>2 DEF Dims

\* tightenDown, tightenUp and updateIncrement lead to zones or to nothing.
LEMMA CopyImage ==
  ASSUME NEW dim \in Dims, NEW z \in Zones(dim), NEW op \in CopyOps, Applies(op, dim, z)
  PROVE  Image(op, dim, z) \in Zones(dim) \cup {{}}
<1>1. CASE dim = 1
  BY <1>1 DEF Image
<1>2. CASE dim = 2
  <2>1. PICK lo, hi \in Points : lo <= hi /\ z = Interval(lo, hi)
    BY <1>2, ZoneEnds
  <2>2. Min(z) = lo /\ Max(z) = hi
    BY <2>1, IntervalEnds
  <2>3. CASE op = <<"tightenDown", 0>>
    <3>1. Image(op, dim, z) = z \ {lo}
      BY <1>2, <2>2, <2>3 DEF Image
    <3>2. CASE lo = hi
      <4>1. z \ {lo} = {}
        BY <2>1, <3>2, PointAssumption DEF Interval, Points
      <4> QED BY <3>1, <4>1
    <3>3. CASE lo # hi
      <4>1. lo + 1 \in Points /\ lo + 1 <= hi /\ z \ {lo} = Interval(lo + 1, hi)
        BY <2>1, <3>3, PointAssumption DEF Interval, Points
      <4> QED BY <1>2, <3>1, <4>1, IntervalIsZone
    <3> QED BY <3>2, <3>3
  <2>4. CASE op = <<"tightenUp", 0>>
    <3>1. Image(op, dim, z) = z \ {hi}
      BY <1>2, <2>2, <2>4 DEF Image
    <3>2. CASE lo = hi
      <4>1. z \ {hi} = {}
        BY <2>1, <3>2, PointAssumption DEF Interval, Points
      <4> QED BY <3>1, <4>1
    <3>3. CASE lo # hi
      <4>1. hi - 1 \in Points /\ lo <= hi - 1 /\ z \ {hi} = Interval(lo, hi - 1)
        BY <2>1, <3>3, PointAssumption DEF Interval, Points
      <4> QED BY <1>2, <3>1, <4>1, IntervalIsZone
    <3> QED BY <3>2, <3>3
  <2>5. CASE op = <<"updateIncrement", 1>>
    <3>1. hi < MaxPoint
      BY <2>2, <2>5 DEF Applies
    <3>2. Image(op, dim, z) = {p + 1 : p \in z}
      BY <1>2, <2>5 DEF Image
    <3>3. \A q \in Interval(lo + 1, hi + 1) : q - 1 \in z /\ q = (q - 1) + 1
      BY <2>1, <3>1, PointAssumption DEF Interval, Points
    <3>4. \A p \in z : p + 1 \in Interval(lo + 1, hi + 1)
      BY <2>1, <3>1, PointAssumption DEF Interval, Points
    <3>5. {p + 1 : p \in z} = Interval(lo + 1, hi + 1)
      BY <3>3, <3>4
    <3>6. lo + 1 \in Points /\ hi + 1 \in Points /\ lo + 1 <= hi + 1
      BY <2>1, <3>1, PointAssumption DEF Points
    <3> QED BY <1>2, <3>2, <3>5, <3>6, IntervalIsZone
  <2> QED BY <2>3, <2>4, <2>5 DEF CopyOps
<1> QED BY <1>1, <1>2 DEF Dims

\* changeClocks and resize make zones of the new dimension.
LEMMA ResizedZones ==
  ASSUME NEW old \in Dims, NEW dim \in Dims, NEW z \in Zones(old)
  PROVE  Resized(old, z, dim) \subseteq Zones(dim)
<1>1. CASE old = 2 /\ dim = 2
  <2>1. Points = dbm_init(2)
    BY DEF dbm_init
  <2> QED BY <1>1, <2>1, InitialZones DEF Resized
<1>2. CASE ~(old = 2 /\ dim = 2)
  BY <1>2, InitialZones DEF Resized
<1> QED BY <1>1, <1>2

-----------------------------------------------------------------------------
(* Counting the handles of a block. *)

\* There are finitely many handles, and at least one block.
LEMMA Finiteness ==
  /\ IsFiniteSet(Handles)
  /\ Address # {}
<1>1. IsFiniteSet(Handles)
  BY HandleAssumption, FS_AddElement DEF Handles
<1>2. Cardinality(Handles) \in Nat
  BY <1>1, FS_CardinalityType
<1>3. Address # {}
  BY <1>2, AddressAssumption, FS_EmptySet
<1> QED BY <1>1, <1>3

\* The handles of a block can be counted.
LEMMA UsersAreFinite ==
  ASSUME NEW a
  PROVE  IsFiniteSet(Users(a)) /\ Cardinality(Users(a)) \in Nat
<1>1. Users(a) \in SUBSET Handles
  BY DEF Users
<1> QED BY <1>1, Finiteness, FS_Subset, FS_CardinalityType

\* A pointer change moves one handle: its new block has one more, its old one has one
\* less, and no other block notices.
LEMMA UsersMove ==
  ASSUME ptr \in [Handles -> Dims \cup Address],
         NEW h \in Handles, NEW x,
         ptr' = [ptr EXCEPT ![h] = x],
         NEW a \in Address
  PROVE  Cardinality(Users(a)') =
           Cardinality(Users(a)) + (IF x = a THEN 1 ELSE 0) - (IF ptr[h] = a THEN 1 ELSE 0)
<1>1. CASE x = a
  <2>1. Users(a)' = Users(a) \cup {h}
    BY <1>1 DEF Users
  <2>2. h \in Users(a) <=> ptr[h] = a
    BY DEF Users
  <2>3. Cardinality(Users(a) \cup {h}) =
          IF h \in Users(a) THEN Cardinality(Users(a)) ELSE Cardinality(Users(a)) + 1
    BY UsersAreFinite, FS_AddElement
  <2> QED BY <1>1, <2>1, <2>2, <2>3, UsersAreFinite
<1>2. CASE x # a
  <2>1. Users(a)' = Users(a) \ {h}
    BY <1>2 DEF Users
  <2>2. h \in Users(a) <=> ptr[h] = a
    BY DEF Users
  <2>3. Cardinality(Users(a) \ {h}) =
          IF h \in Users(a) THEN Cardinality(Users(a)) - 1 ELSE Cardinality(Users(a))
    BY UsersAreFinite, FS_RemoveElement
  <2> QED BY <1>2, <2>1, <2>2, <2>3, UsersAreFinite
<1> QED BY <1>1, <1>2

\* The block of a handle is counted, and one that is not shared has no other handle.
LEMMA UsedBlocks ==
  ASSUME TypeOK, RefCounts, NEW h \in Handles, ~IsEmpty(h)
  PROVE  /\ ptr[h] \in Address
         /\ heap[ptr[h]].count >= 1
         /\ heap[ptr[h]].count = 1 => lost[ptr[h]] = 0 /\ Users(ptr[h]) = {h}
<1>1. ptr[h] \in Address /\ h \in Users(ptr[h])
  BY DEF IsEmpty, Users
<1>2. heap[ptr[h]].count = Cardinality(Users(ptr[h])) + lost[ptr[h]]
  BY <1>1 DEF RefCounts
<1>3. lost[ptr[h]] \in Nat
  BY <1>1 DEF TypeOK
<1>4. Cardinality(Users(ptr[h])) \in Nat /\ Cardinality(Users(ptr[h])) # 0
  BY <1>1, UsersAreFinite, FS_EmptySet
<1>5. ASSUME heap[ptr[h]].count = 1 PROVE Users(ptr[h]) = {h}
  <2>1. Cardinality(Users(ptr[h])) = 1
    BY <1>2, <1>3, <1>4, <1>5
  <2>2. PICK g : Users(ptr[h]) = {g}
    BY <2>1, UsersAreFinite, FS_Singleton
  <2> QED BY <1>1, <2>2
<1> QED BY <1>1, <1>2, <1>3, <1>4, <1>5

\* alloc returns a block that no handle, and not the table, has.
LEMMA FreshBlock ==
  ASSUME TypeOK, RefCounts, TableConsistent, Unused # {}
  PROVE  /\ Fresh \in Address
         /\ heap[Fresh].count = 0
         /\ Fresh \notin table
         /\ lost[Fresh] = 0
         /\ \A h \in Handles : ptr[h] # Fresh
<1>1. Fresh \in Unused
  BY DEF Fresh
<1>2. Fresh \in Address /\ heap[Fresh].count = 0
  BY <1>1 DEF Unused
<1>3. heap[Fresh].count = Cardinality(Users(Fresh)) + lost[Fresh] /\ lost[Fresh] \in Nat
  BY <1>2 DEF RefCounts, TypeOK
<1>4. Users(Fresh) = {} /\ lost[Fresh] = 0
  BY <1>2, <1>3, UsersAreFinite, FS_EmptySet
<1>5. Fresh \notin table
  BY <1>2 DEF TableConsistent
<1> QED BY <1>2, <1>4, <1>5 DEF Users

-----------------------------------------------------------------------------

\* What the handles of the program hold.
Value == [h \in Handle |-> [dim |-> Dim(h), zone |-> Zone(h)]]

\* Handle h gets the pointer x, and the counts follow it and what is lost, which is l next.
Repoints(h, x, l) ==
  /\ ptr' = [ptr EXCEPT ![h] = x]
  /\ \A a \in Address :
       heap'[a].count = heap[a].count + (IF x = a THEN 1 ELSE 0)
                          - (IF ptr[h] = a THEN 1 ELSE 0) + (l[a] - lost[a])

\* The types of the blocks and of the pointers to them.
BlocksOK ==
  /\ ptr \in [Handles -> Dims \cup Address]
  /\ heap \in [Address -> Block]
  /\ table \in SUBSET Address

\* The blocks F, which no other handle than h has, leave the table and hold a new zone;
\* the others keep what they hold.
Renews(h, F) ==
  /\ table' = table \ F
  /\ \A g \in Handles \ {h} : ptr[g] \notin F
  /\ \A a \in F : ~heap'[a].hashed
  /\ \A a \in F : heap'[a].matrix \in Zones(heap'[a].dim)
  /\ \A a \in Address \ F : heap'[a].hashed = heap[a].hashed
  /\ \A a \in Address \ F : heap'[a].dim = heap[a].dim
  /\ \A a \in Address \ F : heap'[a].matrix = heap[a].matrix
  /\ \A a \in Address : heap'[a].minGraph \in {NoGraph, heap'[a].matrix}
  /\ \A a \in table \ F : heap'[a].count > 0

\* Counts stay exact when they follow the pointer that changes, and what is lost.
LEMMA CountsFollow ==
  ASSUME TypeOK, RefCounts,
         NEW h \in Handles, NEW x, Repoints(h, x, lost'), lost' \in [Address -> Nat]
  PROVE  RefCounts'
<1> USE DEF Repoints
<1>1. SUFFICES ASSUME NEW a \in Address
               PROVE  heap'[a].count = Cardinality(Users(a)') + lost'[a]
  BY DEF RefCounts
<1>2. heap[a].count = Cardinality(Users(a)) + lost[a]
  BY DEF RefCounts
<1>3. Cardinality(Users(a)') =
        Cardinality(Users(a)) + (IF x = a THEN 1 ELSE 0) - (IF ptr[h] = a THEN 1 ELSE 0)
  <2>1. ptr \in [Handles -> Dims \cup Address] /\ ptr' = [ptr EXCEPT ![h] = x]
    BY DEF TypeOK
  <2> HIDE DEF Repoints
  <2> QED
    BY <2>1, UsersMove, Zenon
<1>4. /\ Cardinality(Users(a)) \in Nat
      /\ lost[a] \in Nat /\ lost'[a] \in Nat
  BY UsersAreFinite DEF TypeOK
<1>5. heap'[a].count = heap[a].count + (IF x = a THEN 1 ELSE 0)
                         - (IF ptr[h] = a THEN 1 ELSE 0) + (lost'[a] - lost[a])
  OBVIOUS
<1> QED BY <1>2, <1>3, <1>4, <1>5

\* The other handles keep their values when their blocks keep what they hold.
LEMMA ValuesFollow ==
  ASSUME TypeOK,
         NEW h \in Handle, NEW x, ptr' = [ptr EXCEPT ![h] = x],
         \A g \in Handle \ {h} : ~IsEmpty(g) =>
           /\ heap'[ptr[g]].dim = heap[ptr[g]].dim
           /\ heap'[ptr[g]].matrix = heap[ptr[g]].matrix
  PROVE  Value' = [Value EXCEPT ![h] = [dim |-> Dim(h)', zone |-> Zone(h)']]
<1>1. \A g \in Handle \ {h} : ptr'[g] = ptr[g]
  BY DEF TypeOK, Handles
<1>2. \A g \in Handle \ {h} : Dim(g)' = Dim(g) /\ Zone(g)' = Zone(g)
  BY <1>1 DEF Dim, Zone, IsEmpty
<1> QED BY <1>2 DEF Value

\* A zone that is written belongs to the type of the blocks.
LEMMA ZonesAreZones ==
  ASSUME NEW dim \in Dims, NEW zone \in Zones(dim)
  PROVE  zone \in AllZones
BY DEF AllZones

\* Such a step keeps the invariant, and changes the value of this handle only.
LEMMA BlocksFollow ==
  ASSUME SharingInvariant, BlocksOK',
         NEW h \in Handle, NEW x, NEW l \in [Address -> Nat], Repoints(h, x, l),
         NEW F \in SUBSET Address, Renews(h, F)
  PROVE  /\ lost' = l => SharingInvariant'
         /\ Value' = [Value EXCEPT ![h] = [dim |-> Dim(h)', zone |-> Zone(h)']]
<1> USE DEF Renews
<1>1. TypeOK /\ RefCounts /\ TableConsistent /\ MinGraphFresh /\ MatricesAreZones
        /\ AllocatorKeeps1x1
  BY DEF SharingInvariant
<1>2. h \in Handles /\ dbm1x1 \in Handles \ {h}
  BY HandleAssumption DEF Handles
<1>3. ASSUME lost' = l PROVE TypeOK' /\ RefCounts'
  <2>1. TypeOK'
    BY <1>3 DEF TypeOK, BlocksOK
  <2>2. Repoints(h, x, lost') /\ lost' \in [Address -> Nat]
    BY <1>3
  <2> QED BY <1>1, <1>2, <2>1, <2>2, CountsFollow
<1>4. TableConsistent'
  <2>1. table' = {a \in Address : heap'[a].hashed}
    BY <1>1 DEF TableConsistent, TypeOK
  <2>2. \A a \in table' : heap'[a].count > 0
    OBVIOUS
  <2>3. \A a, b \in table' :
          heap'[a].dim = heap'[b].dim /\ heap'[a].matrix = heap'[b].matrix => a = b
    <3>1. \A a \in table' : a \in table /\ a \in Address \ F
      BY <1>1 DEF TypeOK
    <3>2. \A a \in table' : heap'[a].dim = heap[a].dim /\ heap'[a].matrix = heap[a].matrix
      BY <3>1
    <3> QED BY <1>1, <3>1, <3>2 DEF TableConsistent
  <2> QED BY <2>1, <2>2, <2>3 DEF TableConsistent
<1>5. MinGraphFresh'
  BY DEF MinGraphFresh
<1>6. MatricesAreZones'
  <2>1. ASSUME NEW a \in Address PROVE heap'[a].matrix \in Zones(heap'[a].dim)
    BY <1>1 DEF MatricesAreZones
  <2> QED BY <2>1 DEF MatricesAreZones
<1>7. AllocatorKeeps1x1'
  <2>1. ptr'[dbm1x1] = ptr[dbm1x1] /\ ptr[dbm1x1] \notin F
    BY <1>1, <1>2 DEF TypeOK, Repoints
  <2> QED BY <1>1, <2>1 DEF AllocatorKeeps1x1
<1>8. Value' = [Value EXCEPT ![h] = [dim |-> Dim(h)', zone |-> Zone(h)']]
  <2>1. \A g \in Handle \ {h} : ~IsEmpty(g) => ptr[g] \in Address \ F
    BY DEF IsEmpty, Handles
  <2>2. \A g \in Handle \ {h} : ~IsEmpty(g) =>
           /\ heap'[ptr[g]].dim = heap[ptr[g]].dim
           /\ heap'[ptr[g]].matrix = heap[ptr[g]].matrix
    BY <2>1
  <2> QED BY <1>1, <2>2, ValuesFollow DEF Repoints
<1> QED BY <1>3, <1>4, <1>5, <1>6, <1>7, <1>8 DEF SharingInvariant

-----------------------------------------------------------------------------

\* The invariant holds next, if l is what is lost then, and h is the one handle with a new
\* value.
Becoming(h, dim, zone, l) ==
  /\ lost' = l => SharingInvariant'
  /\ Value' = [Value EXCEPT ![h] = [dim |-> dim, zone |-> zone]]

\* BlocksFollow with the value that the new pointer gives.
LEMMA MoveStep ==
  ASSUME SharingInvariant, BlocksOK',
         NEW h \in Handle, NEW x, NEW l \in [Address -> Nat], Repoints(h, x, l),
         NEW F \in SUBSET Address, Renews(h, F),
         NEW dim, NEW zone,
         IF x \in Address THEN heap'[x].dim = dim /\ heap'[x].matrix = zone
         ELSE x = dim /\ zone = {}
  PROVE  Becoming(h, dim, zone, l)
<1>1. ptr'[h] = x
  BY DEF Repoints, SharingInvariant, TypeOK, Handles
<1>2. Dim(h)' = dim /\ Zone(h)' = zone
  BY <1>1 DEF Dim, Zone, IsEmpty
<1>3. /\ lost' = l => SharingInvariant'
      /\ Value' = [Value EXCEPT ![h] = [dim |-> Dim(h)', zone |-> Zone(h)']]
  BY BlocksFollow
<1> QED BY <1>2, <1>3 DEF Becoming

\* A handle has a block, which holds a zone of its dimension, or is empty.
LEMMA HandleFacts ==
  ASSUME SharingInvariant, NEW h \in Handle
  PROVE  /\ h \in Handles /\ h # dbm1x1
         /\ Dim(h) \in Dims
         /\ ~IsEmpty(h) =>
              /\ ptr[h] \in Address /\ ptr[h] \notin Dims
              /\ heap[ptr[h]].count \in Nat /\ heap[ptr[h]].count >= 1
              /\ Dim(h) = heap[ptr[h]].dim
              /\ Zone(h) = heap[ptr[h]].matrix
              /\ Zone(h) \in Zones(Dim(h))
         /\ IsEmpty(h) => ptr[h] \in Dims /\ Dim(h) = ptr[h] /\ Zone(h) = {}
<1>1. TypeOK /\ RefCounts /\ MatricesAreZones
  BY DEF SharingInvariant
<1>2. h \in Handles /\ h # dbm1x1
  BY HandleAssumption DEF Handles
<1>3. ptr[h] \in Dims \cup Address
  BY <1>1, <1>2 DEF TypeOK
<1>4. CASE IsEmpty(h)
  BY <1>2, <1>3, <1>4 DEF IsEmpty, Dim, Zone
<1>5. CASE ~IsEmpty(h)
  <2>1. ptr[h] \in Address /\ ptr[h] \notin Dims
    BY <1>5, HandleAssumption DEF IsEmpty
  <2>2. heap[ptr[h]].count \in Nat /\ heap[ptr[h]].dim \in Dims
    BY <1>1, <2>1 DEF TypeOK, Block
  <2>3. heap[ptr[h]].count >= 1
    BY <1>1, <1>2, <1>5, UsedBlocks
  <2>4. Dim(h) = heap[ptr[h]].dim /\ Zone(h) = heap[ptr[h]].matrix
    BY <1>5 DEF Dim, Zone
  <2>5. heap[ptr[h]].matrix \in Zones(heap[ptr[h]].dim)
    BY <1>1, <2>1 DEF MatricesAreZones
  <2> QED BY <1>2, <1>5, <2>1, <2>2, <2>3, <2>4, <2>5
<1> QED BY <1>4, <1>5


-----------------------------------------------------------------------------

\* What Now is, and what Becomes makes of the variables.
State == [ptr : [Handles -> Dims \cup Address], heap : [Address -> Block],
          table : SUBSET Address]

LEMMA NowIsState ==
  ASSUME TypeOK
  PROVE  Now \in State /\ Now.ptr = ptr /\ Now.heap = heap /\ Now.table = table
BY DEF TypeOK, Now, State

LEMMA BecomesState ==
  ASSUME NEW s \in State, Becomes(s)
  PROVE  BlocksOK' /\ ptr' = s.ptr /\ heap' = s.heap /\ table' = s.table
BY DEF BlocksOK, Becomes, State

\* The block at a is in t what it is in s, but for the count.
Keeps(s, t, a) ==
  /\ t.heap[a].hashed = s.heap[a].hashed
  /\ t.heap[a].dim = s.heap[a].dim
  /\ t.heap[a].matrix = s.heap[a].matrix
  /\ t.heap[a].minGraph = s.heap[a].minGraph

\* The blocks that decRef on a frees.
Last(s, a) == IF s.heap[a].count = 1 THEN {a} ELSE {}

\* decRef frees the block of the last handle, and counts one handle less for another.
LEMMA DecRefEffect ==
  ASSUME NEW s \in State, NEW a \in Address, s.heap[a].count >= 1,
         NEW t, t = DecRef(s, a)
  PROVE  /\ t \in State
         /\ t.ptr = s.ptr
         /\ t.table = s.table \ Last(s, a)
         /\ t.heap[a].count = s.heap[a].count - 1
         /\ \A b \in Address \ {a} : t.heap[b] = s.heap[b]
         /\ \A b \in Address \ Last(s, a) : Keeps(s, t, b)
         /\ \A b \in Last(s, a) : t.heap[b] = Freed
<1>1. CASE s.heap[a].count = 1
  <2>1. t = [s EXCEPT !.heap[a] = Freed, !.table = @ \ {a}]
    BY <1>1 DEF DecRef, Remove
  <2>2. Freed \in Block
    BY DEF Freed, Block, Dims, AllZones, Zones, NoGraph
  <2>3. Freed.count = 0
    BY DEF Freed
  <2> HIDE DEF Freed
  <2>4. s.ptr \in [Handles -> Dims \cup Address] /\ s.heap \in [Address -> Block]
          /\ s.table \in SUBSET Address
    BY DEF State
  <2>5. t = [ptr |-> s.ptr, heap |-> [s.heap EXCEPT ![a] = Freed], table |-> s.table \ {a}]
    BY <2>1 DEF State
  <2>6. [s.heap EXCEPT ![a] = Freed] \in [Address -> Block]
    BY <2>2, <2>4
  <2>7. t \in State
    BY <2>4, <2>5, <2>6 DEF State
  <2>8. t.heap[a] = Freed /\ \A b \in Address \ {a} : t.heap[b] = s.heap[b]
    BY <2>4, <2>5
  <2>9. t.ptr = s.ptr /\ t.table = s.table \ {a}
    BY <2>5
  <2> QED BY <1>1, <2>3, <2>7, <2>8, <2>9 DEF Keeps, Last
<1>2. CASE s.heap[a].count # 1
  <2>1. t = [s EXCEPT !.heap[a].count = @ - 1]
    BY <1>2 DEF DecRef
  <2>2. s.heap[a] \in Block /\ s.heap[a].count - 1 \in Nat
    BY <1>2 DEF State, Block
  <2>3. /\ t.heap[a] = [s.heap[a] EXCEPT !.count = @ - 1]
        /\ \A b \in Address \ {a} : t.heap[b] = s.heap[b]
        /\ t.ptr = s.ptr /\ t.table = s.table
    BY <2>1 DEF State
  <2>4. t \in State
    <3>1. [s.heap[a] EXCEPT !.count = @ - 1] \in Block
      BY <2>2 DEF Block
    <3>2. t.heap = [s.heap EXCEPT ![a] = [s.heap[a] EXCEPT !.count = @ - 1]]
      BY <2>1 DEF State
    <3>3. t.heap \in [Address -> Block]
      BY <3>1, <3>2 DEF State
    <3> QED BY <2>1, <3>3 DEF State
  <2>5. \A b \in Address : Keeps(s, t, b)
    BY <2>2, <2>3 DEF Keeps, Block
  <2>6. t.heap[a].count = s.heap[a].count - 1
    BY <2>2, <2>3 DEF Block
  <2> QED BY <1>2, <2>3, <2>4, <2>5, <2>6 DEF Last
<1> QED BY <1>1, <1>2

\* incRef.
LEMMA IncRefEffect ==
  ASSUME NEW s \in State, NEW a \in Address, NEW t, t = IncRef(s, a)
  PROVE  /\ t \in State
         /\ t.ptr = s.ptr
         /\ t.table = s.table
         /\ t.heap[a].count = s.heap[a].count + 1
         /\ \A b \in Address \ {a} : t.heap[b] = s.heap[b]
         /\ \A b \in Address : Keeps(s, t, b)
<1>1. t = [s EXCEPT !.heap[a].count = @ + 1]
  BY DEF IncRef
<1>2. s.heap[a] \in Block /\ s.heap[a].count + 1 \in Nat
  BY DEF State, Block
<1>3. /\ t.heap[a] = [s.heap[a] EXCEPT !.count = @ + 1]
      /\ \A b \in Address \ {a} : t.heap[b] = s.heap[b]
      /\ t.ptr = s.ptr /\ t.table = s.table
  BY <1>1 DEF State
<1>4. t \in State
  BY <1>1, <1>2, SMTT(30) DEF State, Block
<1>5. \A b \in Address : Keeps(s, t, b)
  BY <1>2, <1>3 DEF Keeps, Block
<1>6. t.heap[a].count = s.heap[a].count + 1
  BY <1>2, <1>3 DEF Block
<1> QED BY <1>3, <1>4, <1>5, <1>6

\* An assignment to idbmPtr.
LEMMA SetPtrEffect ==
  ASSUME NEW s \in State, NEW h \in Handles, NEW x \in Dims \cup Address,
         NEW t, t = SetPtr(s, h, x)
  PROVE  /\ t \in State
         /\ t.ptr = [s.ptr EXCEPT ![h] = x]
         /\ t.heap = s.heap
         /\ t.table = s.table
BY DEF SetPtr, State

\* setNew.
LEMMA SetNewEffect ==
  ASSUME NEW s \in State, NEW h \in Handles, Fresh \in Address,
         NEW dim \in Dims, NEW zone \in Zones(dim),
         NEW t, t = SetNew(s, h, dim, zone)
  PROVE  /\ t \in State
         /\ t.ptr = [s.ptr EXCEPT ![h] = Fresh]
         /\ t.table = s.table
         /\ \A b \in Address \ {Fresh} : t.heap[b] = s.heap[b]
         /\ t.heap[Fresh] = [count |-> 1, dim |-> dim, hashed |-> FALSE,
                             matrix |-> zone, minGraph |-> NoGraph]
<1> DEFINE block == [count |-> 1, dim |-> dim, hashed |-> FALSE,
                     matrix |-> zone, minGraph |-> NoGraph]
<1>1. block \in Block
  BY ZonesAreZones DEF Block
<1>2. t = [s EXCEPT !.ptr[h] = Fresh, !.heap[Fresh] = block]
  BY DEF SetNew
<1> HIDE DEF block
<1>3. /\ t \in State
      /\ t.ptr = [s.ptr EXCEPT ![h] = Fresh]
      /\ t.table = s.table
      /\ \A b \in Address \ {Fresh} : t.heap[b] = s.heap[b]
      /\ t.heap[Fresh] = block
  <2>1. s.ptr \in [Handles -> Dims \cup Address] /\ s.heap \in [Address -> Block]
          /\ s.table \in SUBSET Address
    BY DEF State
  <2>2. t = [ptr |-> [s.ptr EXCEPT ![h] = Fresh], heap |-> [s.heap EXCEPT ![Fresh] = block],
             table |-> s.table]
    BY <1>2 DEF State
  <2>3. /\ [s.ptr EXCEPT ![h] = Fresh] \in [Handles -> Dims \cup Address]
        /\ [s.heap EXCEPT ![Fresh] = block] \in [Address -> Block]
    BY <1>1, <2>1
  <2>4. t \in State
    BY <2>1, <2>2, <2>3 DEF State
  <2> QED BY <2>1, <2>2, <2>4
<1> QED BY <1>3 DEF block

-----------------------------------------------------------------------------

\* The parts of the invariant, and the state that the operations start from.
LEMMA InvariantParts ==
  ASSUME SharingInvariant
  PROVE  /\ TypeOK /\ RefCounts /\ TableConsistent /\ MinGraphFresh
         /\ MatricesAreZones /\ AllocatorKeeps1x1
         /\ Now \in State /\ Now.ptr = ptr /\ Now.heap = heap /\ Now.table = table
         /\ ptr \in [Handles -> Dims \cup Address] /\ lost \in [Address -> Nat]
         /\ \A a \in Address : heap[a].count \in Nat /\ lost[a] \in Nat
         /\ \A a \in table : a \in Address /\ heap[a].count > 0
         /\ \A a \in Address : heap[a].minGraph \in {NoGraph, heap[a].matrix}
         /\ \A a \in Address : heap[a].matrix \in Zones(heap[a].dim)
BY NowIsState
DEF SharingInvariant, TypeOK, MinGraphFresh, MatricesAreZones, TableConsistent, Block

\* The only handle of a block that is not shared.
LEMMA SoleHandle ==
  ASSUME SharingInvariant, NEW h \in Handle, ~IsEmpty(h), heap[ptr[h]].count = 1,
         NEW g \in Handles \ {h}
  PROVE  ptr[g] # ptr[h]
<1>1. Users(ptr[h]) = {h}
  BY InvariantParts, HandleFacts, UsedBlocks
<1> QED BY <1>1 DEF Users

\* A write in place: the block leaves the table, and forgets the graph of its old matrix.
LEMMA InPlaceStep ==
  ASSUME SharingInvariant, NEW h \in Handle, ~IsEmpty(h), Sole(h),
         NEW zone \in Zones(Dim(h)), Becomes(InPlace(h, zone))
  PROVE  Becoming(h, Dim(h), zone, lost)
<1> DEFINE p == ptr[h]
           block == [heap[p] EXCEPT !.minGraph = NoGraph, !.hashed = FALSE, !.matrix = zone]
<1>1. p \in Address /\ heap[p] \in Block /\ Dim(h) = heap[p].dim /\ zone \in AllZones
        /\ h \in Handles
  BY InvariantParts, HandleFacts, ZonesAreZones DEF TypeOK
<1>2. /\ ptr' = ptr
      /\ heap' = [heap EXCEPT ![p] = block]
      /\ table' = table \ {p}
  BY <1>1, InvariantParts DEF Becomes, InPlace, TryMutable, Now, TypeOK
<1>3. /\ block \in Block
      /\ block.count = heap[p].count /\ block.dim = heap[p].dim
      /\ ~block.hashed /\ block.matrix = zone /\ block.minGraph = NoGraph
  BY <1>1 DEF Block, NoGraph
<1> HIDE DEF block
<1>4. heap'[p] = block /\ \A a \in Address \ {p} : heap'[a] = heap[a]
  BY <1>1, <1>2, InvariantParts DEF TypeOK
<1>5. BlocksOK'
  BY <1>2, <1>3, InvariantParts DEF TypeOK, BlocksOK
<1>6. Repoints(h, p, lost)
  BY <1>1, <1>2, <1>3, <1>4, InvariantParts DEF Repoints
<1>7. \A g \in Handles \ {h} : ptr[g] # p
  BY SoleHandle DEF Sole
<1>8. Renews(h, {p})
  BY <1>1, <1>2, <1>3, <1>4, <1>7, InvariantParts DEF Renews
<1> QED BY <1>1, <1>3, <1>4, <1>5, <1>6, <1>8, InvariantParts, MoveStep

\* dbm_t::icopy and inew: the handle leaves its shared block for a fresh one.
LEMMA CopiedStep ==
  ASSUME SharingInvariant, Unused # {},
         NEW h \in Handle, ~IsEmpty(h), ~Sole(h),
         NEW zone \in Zones(Dim(h)), Becomes(Copied(h, zone))
  PROVE  Becoming(h, Dim(h), zone, lost)
<1> DEFINE p == ptr[h]
           s == DecRef(Now, p)
           t == SetNew(s, h, Dim(h), zone)
<1>1. h \in Handles /\ p \in Address /\ heap[p].count > 1 /\ Dim(h) \in Dims
  BY HandleFacts DEF Sole
<1>2. /\ Fresh \in Address /\ heap[Fresh].count = 0 /\ Fresh \notin table
      /\ lost[Fresh] = 0 /\ \A g \in Handles : ptr[g] # Fresh
  BY InvariantParts, FreshBlock
<1>3. Last(Now, p) = {}
  BY <1>1, InvariantParts DEF Last
<1>4. /\ s \in State /\ s.ptr = ptr /\ s.table = table
      /\ s.heap[p].count = heap[p].count - 1
      /\ \A a \in Address \ {p} : s.heap[a] = heap[a]
      /\ \A a \in Address : Keeps(Now, s, a)
  <2>1. Now.heap[p].count >= 1
    BY <1>1, InvariantParts
  <2>2. /\ s \in State /\ s.ptr = Now.ptr /\ s.table = Now.table \ Last(Now, p)
        /\ s.heap[p].count = Now.heap[p].count - 1
        /\ \A a \in Address \ {p} : s.heap[a] = Now.heap[a]
        /\ \A a \in Address \ Last(Now, p) : Keeps(Now, s, a)
    BY <1>1, <2>1, InvariantParts, DecRefEffect
  <2> QED BY <1>3, <2>2, InvariantParts
<1> HIDE DEF s
<1>5. /\ t \in State /\ t.ptr = [ptr EXCEPT ![h] = Fresh] /\ t.table = table
      /\ \A a \in Address \ {Fresh} : t.heap[a] = s.heap[a]
      /\ t.heap[Fresh] = [count |-> 1, dim |-> Dim(h), hashed |-> FALSE,
                          matrix |-> zone, minGraph |-> NoGraph]
  BY <1>1, <1>2, <1>4, SetNewEffect
<1>6. Becomes(t)
  BY DEF Copied, s
<1> HIDE DEF t
<1>7. BlocksOK' /\ ptr' = t.ptr /\ heap' = t.heap /\ table' = t.table
  BY <1>5, <1>6, BecomesState
<1>8. Repoints(h, Fresh, lost)
  BY <1>1, <1>2, <1>4, <1>5, <1>7, InvariantParts DEF Repoints
<1>9. Renews(h, {Fresh})
  BY <1>1, <1>2, <1>4, <1>5, <1>7, InvariantParts DEF Renews, Keeps
<1> QED BY <1>2, <1>5, <1>7, <1>8, <1>9, InvariantParts, MoveStep

\* The handle leaves its block for a number.
LEMMA LeaveStep ==
  ASSUME SharingInvariant, NEW h \in Handle, ~IsEmpty(h), NEW dim \in Dims,
         Becomes(SetPtr(DecRef(Now, ptr[h]), h, dim))
  PROVE  Becoming(h, dim, {}, lost)
<1> DEFINE p == ptr[h]
           s == DecRef(Now, p)
           t == SetPtr(s, h, dim)
           F == Last(Now, p)
<1>1. h \in Handles /\ p \in Address /\ heap[p].count >= 1 /\ dim \notin Address
  BY HandleFacts, HandleAssumption
<1>2. /\ s \in State /\ s.ptr = ptr /\ s.table = table \ F
      /\ s.heap[p].count = heap[p].count - 1
      /\ \A a \in Address \ {p} : s.heap[a] = heap[a]
      /\ \A a \in Address \ F : Keeps(Now, s, a)
      /\ \A a \in F : s.heap[a] = Freed
  <2>1. Now.heap[p].count >= 1
    BY <1>1, InvariantParts
  <2>2. /\ s \in State /\ s.ptr = Now.ptr /\ s.table = Now.table \ F
        /\ s.heap[p].count = Now.heap[p].count - 1
        /\ \A a \in Address \ {p} : s.heap[a] = Now.heap[a]
        /\ \A a \in Address \ F : Keeps(Now, s, a)
        /\ \A a \in F : s.heap[a] = Freed
    BY <1>1, <2>1, InvariantParts, DecRefEffect
  <2> QED BY <2>2, InvariantParts
<1> HIDE DEF s
<1>3. t \in State /\ t.ptr = [ptr EXCEPT ![h] = dim] /\ t.heap = s.heap /\ t.table = s.table
  BY <1>1, <1>2, SetPtrEffect
<1>4. Becomes(t)
  BY DEF s
<1> HIDE DEF t
<1>5. BlocksOK' /\ ptr' = t.ptr /\ heap' = t.heap /\ table' = t.table
  BY <1>3, <1>4, BecomesState
<1>6. Repoints(h, dim, lost)
  BY <1>1, <1>2, <1>3, <1>5, InvariantParts DEF Repoints
<1>7. F \in SUBSET Address /\ \A g \in Handles \ {h} : ptr[g] \notin F
  BY <1>1, SoleHandle, InvariantParts DEF Last
<1>8. Renews(h, F)
  <2>1. \A a \in F : heap'[a] = Freed
    BY <1>2, <1>3, <1>5
  <2>2. \A a \in table \ F : heap'[a].count > 0
    BY <1>1, <1>2, <1>3, <1>5, InvariantParts DEF Last
  <2>3. Freed.matrix \in Zones(Freed.dim) /\ ~Freed.hashed /\ Freed.minGraph = NoGraph
    BY DEF Freed, Zones
  <2> HIDE DEF F
  <2> QED BY <1>2, <1>3, <1>5, <1>7, <2>1, <2>2, <2>3, InvariantParts DEF Renews, Keeps
<1> HIDE DEF F
<1> QED BY <1>1, <1>5, <1>6, <1>7, <1>8, InvariantParts, MoveStep

\* An empty handle gets another number.
LEMMA NumberStep ==
  ASSUME SharingInvariant, NEW h \in Handle, IsEmpty(h), NEW dim \in Dims,
         Becomes(SetPtr(Now, h, dim))
  PROVE  Becoming(h, dim, {}, lost)
<1>1. h \in Handles /\ ptr[h] \notin Address /\ dim \notin Address
  BY HandleFacts, HandleAssumption DEF IsEmpty
<1> DEFINE t == SetPtr(Now, h, dim)
<1>2. t \in State /\ t.ptr = [ptr EXCEPT ![h] = dim] /\ t.heap = heap /\ t.table = table
  <2>1. t \in State /\ t.ptr = [Now.ptr EXCEPT ![h] = dim] /\ t.heap = Now.heap
          /\ t.table = Now.table
    BY <1>1, InvariantParts, SetPtrEffect
  <2> QED BY <2>1, InvariantParts
<1> HIDE DEF t
<1>3. BlocksOK' /\ ptr' = t.ptr /\ heap' = t.heap /\ table' = t.table
  BY <1>2, BecomesState DEF t
<1>4. Repoints(h, dim, lost)
  BY <1>1, <1>2, <1>3, InvariantParts DEF Repoints
<1>5. Renews(h, {})
  BY <1>2, <1>3, InvariantParts DEF Renews
<1> QED BY <1>1, <1>3, <1>4, <1>5, InvariantParts, MoveStep

\* An empty handle gets a fresh block.
LEMMA NewStep ==
  ASSUME SharingInvariant, Unused # {},
         NEW h \in Handle, IsEmpty(h),
         NEW zone \in Zones(Dim(h)), Becomes(SetNew(Now, h, Dim(h), zone))
  PROVE  Becoming(h, Dim(h), zone, lost)
<1> DEFINE t == SetNew(Now, h, Dim(h), zone)
<1>1. h \in Handles /\ ptr[h] \notin Address /\ Dim(h) \in Dims
  BY HandleFacts DEF IsEmpty
<1>2. /\ Fresh \in Address /\ heap[Fresh].count = 0 /\ Fresh \notin table
      /\ lost[Fresh] = 0 /\ \A g \in Handles : ptr[g] # Fresh
  BY InvariantParts, FreshBlock
<1>3. /\ t \in State /\ t.ptr = [ptr EXCEPT ![h] = Fresh] /\ t.table = table
      /\ \A a \in Address \ {Fresh} : t.heap[a] = heap[a]
      /\ t.heap[Fresh] = [count |-> 1, dim |-> Dim(h), hashed |-> FALSE,
                          matrix |-> zone, minGraph |-> NoGraph]
  <2>1. /\ t \in State /\ t.ptr = [Now.ptr EXCEPT ![h] = Fresh] /\ t.table = Now.table
        /\ \A a \in Address \ {Fresh} : t.heap[a] = Now.heap[a]
        /\ t.heap[Fresh] = [count |-> 1, dim |-> Dim(h), hashed |-> FALSE,
                            matrix |-> zone, minGraph |-> NoGraph]
    BY <1>1, <1>2, InvariantParts, SetNewEffect
  <2> QED BY <2>1, InvariantParts
<1> HIDE DEF t
<1>4. BlocksOK' /\ ptr' = t.ptr /\ heap' = t.heap /\ table' = t.table
  BY <1>3, BecomesState DEF t
<1>5. Repoints(h, Fresh, lost)
  BY <1>1, <1>2, <1>3, <1>4, InvariantParts DEF Repoints
<1>6. Renews(h, {Fresh})
  BY <1>1, <1>2, <1>3, <1>4, InvariantParts DEF Renews
<1> QED BY <1>2, <1>3, <1>4, <1>5, <1>6, InvariantParts, MoveStep

\* An empty handle gets the block of another one.
LEMMA NewCopyStep ==
  ASSUME SharingInvariant, NEW h \in Handle, IsEmpty(h),
         NEW q \in Address, Becomes(NewCopy(Now, h, q))
  PROVE  Becoming(h, heap[q].dim, heap[q].matrix, lost)
<1> DEFINE s == IncRef(Now, q)
           t == SetPtr(s, h, q)
<1>1. h \in Handles /\ ptr[h] \notin Address
  BY HandleFacts DEF IsEmpty
<1>2. /\ s \in State /\ s.ptr = ptr /\ s.table = table
      /\ s.heap[q].count = heap[q].count + 1
      /\ \A a \in Address \ {q} : s.heap[a] = heap[a]
      /\ \A a \in Address : Keeps(Now, s, a)
  <2>1. /\ s \in State /\ s.ptr = Now.ptr /\ s.table = Now.table
        /\ s.heap[q].count = Now.heap[q].count + 1
        /\ \A a \in Address \ {q} : s.heap[a] = Now.heap[a]
        /\ \A a \in Address : Keeps(Now, s, a)
    BY InvariantParts, IncRefEffect
  <2> QED BY <2>1, InvariantParts
<1>3. Becomes(t)
  BY DEF NewCopy
<1> HIDE DEF s
<1>4. t \in State /\ t.ptr = [ptr EXCEPT ![h] = q] /\ t.heap = s.heap /\ t.table = table
  BY <1>1, <1>2, SetPtrEffect
<1> HIDE DEF t
<1>5. BlocksOK' /\ ptr' = t.ptr /\ heap' = t.heap /\ table' = t.table
  BY <1>3, <1>4, BecomesState
<1>6. Repoints(h, q, lost)
  BY <1>1, <1>2, <1>4, <1>5, InvariantParts DEF Repoints
<1>7. Renews(h, {})
  BY <1>2, <1>4, <1>5, InvariantParts DEF Renews, Keeps
<1>8. heap'[q].dim = heap[q].dim /\ heap'[q].matrix = heap[q].matrix
  BY <1>2, <1>4, <1>5, InvariantParts DEF Keeps
<1> QED BY <1>5, <1>6, <1>7, <1>8, InvariantParts, MoveStep

\* A handle that has a block gets the block of another one: "first in case a = a".
LEMMA AssignedStep ==
  ASSUME SharingInvariant, NEW h \in Handle, ~IsEmpty(h),
         NEW q \in Address, heap[q].count >= 1,
         Becomes(SetPtr(DecRef(IncRef(Now, q), ptr[h]), h, q))
  PROVE  Becoming(h, heap[q].dim, heap[q].matrix, lost)
<1> DEFINE p == ptr[h]
           r == IncRef(Now, q)
           s == DecRef(r, p)
           t == SetPtr(s, h, q)
           F == Last(r, p)
<1>1. h \in Handles /\ p \in Address /\ heap[p].count >= 1
  BY HandleFacts
<1>2. /\ r \in State /\ r.ptr = ptr /\ r.table = table
      /\ r.heap[q].count = heap[q].count + 1
      /\ \A a \in Address \ {q} : r.heap[a] = heap[a]
      /\ \A a \in Address : Keeps(Now, r, a)
  <2>1. /\ r \in State /\ r.ptr = Now.ptr /\ r.table = Now.table
        /\ r.heap[q].count = Now.heap[q].count + 1
        /\ \A a \in Address \ {q} : r.heap[a] = Now.heap[a]
        /\ \A a \in Address : Keeps(Now, r, a)
    BY InvariantParts, IncRefEffect
  <2> QED BY <2>1, InvariantParts
<1> HIDE DEF r
<1>3. r.heap[p].count >= 1
  BY <1>1, <1>2, InvariantParts
<1>4. /\ s \in State /\ s.ptr = ptr /\ s.table = table \ F
      /\ s.heap[p].count = r.heap[p].count - 1
      /\ \A a \in Address \ {p} : s.heap[a] = r.heap[a]
      /\ \A a \in Address \ F : Keeps(r, s, a)
      /\ \A a \in F : s.heap[a] = Freed
  BY <1>1, <1>2, <1>3, DecRefEffect
<1>5. Becomes(t)
  BY DEF r
<1> HIDE DEF s
<1>6. t \in State /\ t.ptr = [ptr EXCEPT ![h] = q] /\ t.heap = s.heap /\ t.table = s.table
  BY <1>1, <1>4, SetPtrEffect
<1> HIDE DEF t
<1>7. BlocksOK' /\ ptr' = t.ptr /\ heap' = t.heap /\ table' = t.table
  BY <1>5, <1>6, BecomesState
<1>8. Repoints(h, q, lost)
  BY <1>1, <1>2, <1>4, <1>6, <1>7, InvariantParts DEF Repoints
<1>9. F = {} \/ (F = {p} /\ p # q /\ heap[p].count = 1)
  BY <1>1, <1>2, InvariantParts DEF Last
<1>10. F \in SUBSET Address /\ q \notin F /\ \A g \in Handles \ {h} : ptr[g] \notin F
  BY <1>1, <1>9, SoleHandle
<1>11. Renews(h, F)
  <2>1. \A a \in F : heap'[a] = Freed
    BY <1>4, <1>6, <1>7
  <2>2. \A a \in table \ F : heap'[a].count > 0
    <3>1. p \notin F => r.heap[p].count > 1
      BY <1>1, <1>2, InvariantParts DEF Last
    <3> QED BY <1>1, <1>2, <1>4, <1>6, <1>7, <3>1, InvariantParts
  <2>3. Freed.matrix \in Zones(Freed.dim) /\ ~Freed.hashed /\ Freed.minGraph = NoGraph
    BY DEF Freed, Zones
  <2>4. \A a \in Address \ F : Keeps(Now, t, a)
    BY <1>2, <1>4, <1>6 DEF Keeps
  <2> HIDE DEF F
  <2> QED BY <1>4, <1>6, <1>7, <1>10, <2>1, <2>2, <2>3, <2>4, InvariantParts
      DEF Renews, Keeps
<1>12. heap'[q].dim = heap[q].dim /\ heap'[q].matrix = heap[q].matrix
  BY <1>2, <1>4, <1>6, <1>7, <1>10, InvariantParts DEF Keeps
<1> HIDE DEF F
<1> QED BY <1>7, <1>8, <1>10, <1>11, <1>12, InvariantParts, MoveStep

\* resize and changeClocks: a fresh block of the new dimension, then the old one is left.
LEMMA ReplacedStep ==
  ASSUME SharingInvariant, Unused # {},
         NEW h \in Handle, ~IsEmpty(h), NEW dim \in Dims, NEW zone \in Zones(dim),
         Becomes(DecRef(SetNew(Now, h, dim, zone), ptr[h]))
  PROVE  Becoming(h, dim, zone, lost)
<1> DEFINE p == ptr[h]
           s == SetNew(Now, h, dim, zone)
           t == DecRef(s, p)
           F == Last(s, p)
<1>1. h \in Handles /\ p \in Address /\ heap[p].count >= 1
  BY HandleFacts
<1>2. /\ Fresh \in Address /\ heap[Fresh].count = 0 /\ Fresh \notin table
      /\ lost[Fresh] = 0 /\ \A g \in Handles : ptr[g] # Fresh
  BY InvariantParts, FreshBlock
<1>3. /\ s \in State /\ s.ptr = [ptr EXCEPT ![h] = Fresh] /\ s.table = table
      /\ \A a \in Address \ {Fresh} : s.heap[a] = heap[a]
      /\ s.heap[Fresh] = [count |-> 1, dim |-> dim, hashed |-> FALSE,
                          matrix |-> zone, minGraph |-> NoGraph]
  <2>1. /\ s \in State /\ s.ptr = [Now.ptr EXCEPT ![h] = Fresh] /\ s.table = Now.table
        /\ \A a \in Address \ {Fresh} : s.heap[a] = Now.heap[a]
        /\ s.heap[Fresh] = [count |-> 1, dim |-> dim, hashed |-> FALSE,
                            matrix |-> zone, minGraph |-> NoGraph]
    BY <1>1, <1>2, InvariantParts, SetNewEffect
  <2> QED BY <2>1, InvariantParts
<1> HIDE DEF s
<1>4. p # Fresh /\ s.heap[p] = heap[p]
  BY <1>1, <1>2, <1>3
<1>5. /\ t \in State /\ t.ptr = s.ptr /\ t.table = s.table \ F
      /\ t.heap[p].count = s.heap[p].count - 1
      /\ \A a \in Address \ {p} : t.heap[a] = s.heap[a]
      /\ \A a \in Address \ F : Keeps(s, t, a)
      /\ \A a \in F : t.heap[a] = Freed
  BY <1>1, <1>3, <1>4, DecRefEffect
<1>6. Becomes(t)
  BY DEF s
<1> HIDE DEF t
<1>7. BlocksOK' /\ ptr' = t.ptr /\ heap' = t.heap /\ table' = t.table
  BY <1>5, <1>6, BecomesState
<1>8. Repoints(h, Fresh, lost)
  BY <1>1, <1>2, <1>3, <1>4, <1>5, <1>7, InvariantParts DEF Repoints
<1>9. F = {} \/ (F = {p} /\ heap[p].count = 1)
  BY <1>4 DEF Last
<1>10. /\ F \cup {Fresh} \in SUBSET Address
       /\ Fresh \notin F
       /\ \A g \in Handles \ {h} : ptr[g] \notin F \cup {Fresh}
  BY <1>1, <1>2, <1>4, <1>9, SoleHandle
<1>11. Renews(h, F \cup {Fresh})
  <2>1. \A a \in F : heap'[a] = Freed
    BY <1>5, <1>7
  <2>2. \A a \in table \ F : heap'[a].count > 0
    <3>1. p \notin F => heap[p].count > 1
      BY <1>1, <1>4, InvariantParts DEF Last
    <3> QED BY <1>1, <1>2, <1>3, <1>4, <1>5, <1>7, <3>1, InvariantParts
  <2>3. Freed.matrix \in Zones(Freed.dim) /\ ~Freed.hashed /\ Freed.minGraph = NoGraph
    BY DEF Freed, Zones
  <2>4. heap'[Fresh] = s.heap[Fresh]
    BY <1>2, <1>4, <1>5, <1>7
  <2>5. \A a \in Address \ (F \cup {Fresh}) : Keeps(Now, t, a)
    BY <1>3, <1>5, InvariantParts DEF Keeps
  <2>6. /\ ~heap'[Fresh].hashed
        /\ heap'[Fresh].matrix \in Zones(heap'[Fresh].dim)
        /\ heap'[Fresh].minGraph = NoGraph
    BY <1>3, <2>4
  <2>7. table' = table \ (F \cup {Fresh})
    BY <1>2, <1>3, <1>5, <1>7
  <2> HIDE DEF F
  <2> QED BY <1>7, <1>10, <2>1, <2>2, <2>3, <2>5, <2>6, <2>7, InvariantParts
      DEF Renews, Keeps
<1>12. heap'[Fresh].dim = dim /\ heap'[Fresh].matrix = zone
  BY <1>2, <1>3, <1>4, <1>5, <1>7
<1> HIDE DEF F
<1> QED BY <1>2, <1>7, <1>8, <1>10, <1>11, <1>12, InvariantParts, MoveStep

\* resize and changeClocks to dimension 1: a reference to the old block is lost.
LEMMA LostStep ==
  ASSUME SharingInvariant, NEW h \in Handle, ~IsEmpty(h),
         Becomes(NewCopy(Now, h, ptr[dbm1x1]))
  PROVE  Becoming(h, 1, {0}, [lost EXCEPT ![ptr[h]] = @ + 1])
<1> DEFINE p == ptr[h]
           q == ptr[dbm1x1]
           s == IncRef(Now, q)
           t == SetPtr(s, h, q)
           l == [lost EXCEPT ![p] = @ + 1]
<1>1. h \in Handles /\ p \in Address
  BY HandleFacts
<1>2. q \in Address /\ heap[q].dim = 1 /\ heap[q].matrix = {0}
  <2>1. q \in Address /\ heap[q].dim = 1
    BY InvariantParts DEF AllocatorKeeps1x1
  <2>2. heap[q].matrix \in Zones(1)
    BY <2>1, InvariantParts
  <2> QED BY <2>1, <2>2, ZoneOfDimensionOne
<1>3. /\ s \in State /\ s.ptr = ptr /\ s.table = table
      /\ s.heap[q].count = heap[q].count + 1
      /\ \A a \in Address \ {q} : s.heap[a] = heap[a]
      /\ \A a \in Address : Keeps(Now, s, a)
  <2>1. /\ s \in State /\ s.ptr = Now.ptr /\ s.table = Now.table
        /\ s.heap[q].count = Now.heap[q].count + 1
        /\ \A a \in Address \ {q} : s.heap[a] = Now.heap[a]
        /\ \A a \in Address : Keeps(Now, s, a)
    BY <1>2, InvariantParts, IncRefEffect
  <2> QED BY <2>1, InvariantParts
<1>4. Becomes(t)
  BY DEF NewCopy
<1> HIDE DEF s
<1>5. t \in State /\ t.ptr = [ptr EXCEPT ![h] = q] /\ t.heap = s.heap /\ t.table = table
  BY <1>1, <1>2, <1>3, SetPtrEffect
<1> HIDE DEF t
<1>6. l \in [Address -> Nat] /\ \A a \in Address : l[a] - lost[a] = IF p = a THEN 1 ELSE 0
  BY <1>1, InvariantParts
<1> HIDE DEF l
<1>7. BlocksOK' /\ ptr' = t.ptr /\ heap' = t.heap /\ table' = t.table
  BY <1>4, <1>5, BecomesState
<1>8. Repoints(h, q, l)
  <2>1. ASSUME NEW a \in Address
        PROVE  heap'[a].count = heap[a].count + (IF q = a THEN 1 ELSE 0)
                                  - (IF p = a THEN 1 ELSE 0) + (l[a] - lost[a])
    <3>1. heap'[a].count = heap[a].count + (IF q = a THEN 1 ELSE 0)
      BY <1>2, <1>3, <1>5, <1>7, InvariantParts
    <3>2. l[a] - lost[a] = IF p = a THEN 1 ELSE 0
      BY <1>6
    <3>3. heap[a].count \in Nat
      BY InvariantParts
    <3> HIDE DEF p, q
    <3> QED BY <3>1, <3>2, <3>3
  <2> QED BY <1>5, <1>7, <2>1 DEF Repoints
<1>9. Renews(h, {})
  BY <1>2, <1>3, <1>5, <1>7, InvariantParts DEF Renews, Keeps
<1>10. heap'[q].dim = 1 /\ heap'[q].matrix = {0}
  BY <1>2, <1>3, <1>5, <1>7, InvariantParts DEF Keeps
<1>11. Becoming(h, 1, {0}, l)
  BY <1>2, <1>6, <1>7, <1>8, <1>9, <1>10, MoveStep
<1> QED BY <1>11 DEF l

\* intern: the handle moves to the equal block of the table, which gets its graph.
LEMMA InternedStep ==
  ASSUME SharingInvariant, NEW h \in Handle, ~IsEmpty(h), ~heap[ptr[h]].hashed,
         NEW q \in Twins(ptr[h]), NEW graph \in {heap[q].minGraph, heap[ptr[h]].minGraph},
         Becomes([DecRef(NewCopy(Now, h, q), ptr[h]) EXCEPT !.heap[q].minGraph = graph])
  PROVE  Becoming(h, Dim(h), Zone(h), lost)
<1> DEFINE p == ptr[h]
           r == IncRef(Now, q)
           s == SetPtr(r, h, q)
           t == DecRef(s, p)
           F == Last(s, p)
           block == [t.heap[q] EXCEPT !.minGraph = graph]
<1>1. h \in Handles /\ p \in Address /\ heap[p].count >= 1
        /\ Dim(h) = heap[p].dim /\ Zone(h) = heap[p].matrix
  BY HandleFacts
<1>2. q \in table /\ q \in Address /\ q # p /\ heap[q].dim = heap[p].dim
        /\ heap[q].matrix = heap[p].matrix
  BY InvariantParts DEF Twins
<1>3. /\ r \in State /\ r.ptr = ptr /\ r.table = table
      /\ r.heap[q].count = heap[q].count + 1
      /\ \A a \in Address \ {q} : r.heap[a] = heap[a]
      /\ \A a \in Address : Keeps(Now, r, a)
  <2>1. /\ r \in State /\ r.ptr = Now.ptr /\ r.table = Now.table
        /\ r.heap[q].count = Now.heap[q].count + 1
        /\ \A a \in Address \ {q} : r.heap[a] = Now.heap[a]
        /\ \A a \in Address : Keeps(Now, r, a)
    BY <1>2, InvariantParts, IncRefEffect
  <2> QED BY <2>1, InvariantParts
<1>4. Becomes([t EXCEPT !.heap[q].minGraph = graph])
  BY DEF NewCopy
<1> HIDE DEF r
<1>5. s \in State /\ s.ptr = [ptr EXCEPT ![h] = q] /\ s.heap = r.heap /\ s.table = table
  BY <1>1, <1>2, <1>3, SetPtrEffect
<1> HIDE DEF s
<1>6. s.heap[p].count >= 1 /\ s.heap[p] = heap[p]
  BY <1>1, <1>2, <1>3, <1>5
<1>7. /\ t \in State /\ t.ptr = s.ptr /\ t.table = s.table \ F
      /\ t.heap[p].count = s.heap[p].count - 1
      /\ \A a \in Address \ {p} : t.heap[a] = s.heap[a]
      /\ \A a \in Address \ F : Keeps(s, t, a)
      /\ \A a \in F : t.heap[a] = Freed
  BY <1>1, <1>5, <1>6, DecRefEffect
<1> HIDE DEF t
<1>8. graph \in {NoGraph, heap[q].matrix}
  BY <1>1, <1>2, InvariantParts
<1>9. /\ ptr' = t.ptr /\ table' = t.table
      /\ heap' = [t.heap EXCEPT ![q] = block]
  BY <1>2, <1>4, <1>7 DEF Becomes, State
<1>10. /\ block \in Block /\ block.count = t.heap[q].count
       /\ block.hashed = t.heap[q].hashed /\ block.dim = t.heap[q].dim
       /\ block.matrix = t.heap[q].matrix /\ block.minGraph = graph
  <2>1. t.heap[q] \in Block
    BY <1>2, <1>7 DEF State
  <2>2. graph \in AllZones \cup {NoGraph}
    BY <1>1, <1>2, InvariantParts DEF TypeOK, Block
  <2> QED BY <2>1, <2>2 DEF Block
<1> HIDE DEF block
<1>11. heap'[q] = block /\ \A a \in Address \ {q} : heap'[a] = t.heap[a]
  BY <1>2, <1>7, <1>9 DEF State
<1>12. BlocksOK'
  BY <1>7, <1>9, <1>10, InvariantParts DEF BlocksOK, State
<1>13. Repoints(h, q, lost)
  BY <1>1, <1>2, <1>3, <1>5, <1>6, <1>7, <1>9, <1>10, <1>11, InvariantParts DEF Repoints
<1>14. F = {} \/ (F = {p} /\ heap[p].count = 1)
  BY <1>6 DEF Last
<1>15. F \in SUBSET Address /\ q \notin F /\ \A g \in Handles \ {h} : ptr[g] \notin F
  BY <1>1, <1>2, <1>14, SoleHandle
<1>16. Renews(h, F)
  <2>1. \A a \in F : heap'[a] = Freed
    BY <1>7, <1>11, <1>15
  <2>2. \A a \in table \ F : heap'[a].count > 0
    <3>1. p \notin F => heap[p].count > 1
      BY <1>1, <1>6, InvariantParts DEF Last
    <3> QED BY <1>1, <1>2, <1>3, <1>5, <1>6, <1>7, <1>10, <1>11, <3>1, InvariantParts
  <2>3. Freed.matrix \in Zones(Freed.dim) /\ ~Freed.hashed /\ Freed.minGraph = NoGraph
    BY DEF Freed, Zones
  <2>4. \A a \in Address \ F : Keeps(Now, t, a)
    BY <1>3, <1>5, <1>7 DEF Keeps
  <2>5. \A a \in Address \ F :
          /\ heap'[a].hashed = heap[a].hashed
          /\ heap'[a].dim = heap[a].dim
          /\ heap'[a].matrix = heap[a].matrix
    BY <1>10, <1>11, <2>4, InvariantParts DEF Keeps
  <2>6. \A a \in Address \ F : heap'[a].minGraph \in {NoGraph, heap[a].matrix}
    BY <1>8, <1>10, <1>11, <2>4, InvariantParts DEF Keeps
  <2>7. table' = table \ F
    BY <1>5, <1>7, <1>9
  <2> HIDE DEF F
  <2>8. \A a \in Address : heap'[a].minGraph \in {NoGraph, heap'[a].matrix}
    BY <2>1, <2>3, <2>5, <2>6
  <2> QED BY <1>15, <2>1, <2>2, <2>3, <2>5, <2>7, <2>8 DEF Renews
<1>17. heap'[q].dim = Dim(h) /\ heap'[q].matrix = Zone(h)
  <2>1. Keeps(Now, t, q)
    BY <1>2, <1>3, <1>5, <1>7, <1>15 DEF Keeps
  <2> QED BY <1>1, <1>2, <1>10, <1>11, <2>1, InvariantParts DEF Keeps
<1> HIDE DEF F
<1> QED BY <1>2, <1>12, <1>13, <1>15, <1>16, <1>17, InvariantParts, MoveStep

\* Nothing is done.
LEMMA NothingStep ==
  ASSUME SharingInvariant, UNCHANGED vars
  PROVE  SharingInvariant' /\ Value' = Value
BY DEF vars, SharingInvariant, TypeOK, RefCounts, TableConsistent, MinGraphFresh,
       MatricesAreZones, AllocatorKeeps1x1, Value, Users, Dim, Zone, IsEmpty

\* getMinDBM: the block gets the graph of its own matrix.
LEMMA GraphStep ==
  ASSUME SharingInvariant, NEW h \in Handle, ~IsEmpty(h),
         Becomes([Now EXCEPT !.heap[ptr[h]].minGraph = Zone(h)])
  PROVE  Becoming(h, Dim(h), Zone(h), lost)
<1> DEFINE p == ptr[h]
           block == [heap[p] EXCEPT !.minGraph = Zone(h)]
<1>1. h \in Handles /\ p \in Address /\ heap[p] \in Block
        /\ Dim(h) = heap[p].dim /\ Zone(h) = heap[p].matrix
  BY HandleFacts, InvariantParts DEF TypeOK
<1>2. ptr' = ptr /\ heap' = [heap EXCEPT ![p] = block] /\ table' = table
  BY <1>1, InvariantParts DEF Becomes, Now, TypeOK
<1>3. /\ block \in Block /\ block.count = heap[p].count
      /\ block.hashed = heap[p].hashed /\ block.dim = heap[p].dim
      /\ block.matrix = heap[p].matrix /\ block.minGraph = heap[p].matrix
  BY <1>1 DEF Block
<1> HIDE DEF block
<1>4. heap'[p] = block /\ \A a \in Address \ {p} : heap'[a] = heap[a]
  BY <1>1, <1>2, InvariantParts DEF TypeOK
<1>5. BlocksOK'
  BY <1>2, <1>3, InvariantParts DEF TypeOK, BlocksOK
<1>6. Repoints(h, p, lost)
  BY <1>1, <1>2, <1>3, <1>4, InvariantParts DEF Repoints
<1>7. Renews(h, {})
  BY <1>1, <1>2, <1>3, <1>4, InvariantParts DEF Renews
<1> QED BY <1>1, <1>3, <1>4, <1>5, <1>6, <1>7, InvariantParts, MoveStep

\* intern: the block enters the table, which has no equal one.
LEMMA HashedStep ==
  ASSUME SharingInvariant, NEW h \in Handle, ~IsEmpty(h), Twins(ptr[h]) = {},
         Becomes([Now EXCEPT !.heap[ptr[h]].hashed = TRUE, !.table = @ \cup {ptr[h]}])
  PROVE  (UNCHANGED lost => SharingInvariant') /\ Value' = Value
<1> DEFINE p == ptr[h]
           block == [heap[p] EXCEPT !.hashed = TRUE]
<1>1. h \in Handles /\ p \in Address /\ heap[p] \in Block /\ heap[p].count >= 1
  BY HandleFacts, InvariantParts DEF TypeOK
<1>2. ptr' = ptr /\ heap' = [heap EXCEPT ![p] = block] /\ table' = table \cup {p}
  BY <1>1, InvariantParts DEF Becomes, Now, TypeOK
<1>3. /\ block \in Block /\ block.count = heap[p].count
      /\ block.hashed /\ block.dim = heap[p].dim
      /\ block.matrix = heap[p].matrix /\ block.minGraph = heap[p].minGraph
  BY <1>1 DEF Block
<1> HIDE DEF block
<1>4. heap'[p] = block /\ \A a \in Address \ {p} : heap'[a] = heap[a]
  BY <1>1, <1>2, InvariantParts DEF TypeOK
<1>5. \A a \in Address :
        /\ heap'[a].count = heap[a].count
        /\ heap'[a].dim = heap[a].dim
        /\ heap'[a].matrix = heap[a].matrix
        /\ heap'[a].minGraph = heap[a].minGraph
  BY <1>1, <1>3, <1>4
<1>6. ASSUME UNCHANGED lost PROVE TypeOK'
  BY <1>1, <1>2, <1>3, <1>6, InvariantParts DEF TypeOK
<1>7. ASSUME UNCHANGED lost PROVE RefCounts'
  BY <1>2, <1>5, <1>7, InvariantParts DEF RefCounts, Users
<1>8. TableConsistent'
  <2>1. table' = {a \in Address : heap'[a].hashed}
    BY <1>1, <1>2, <1>3, <1>4, InvariantParts DEF TableConsistent
  <2>2. \A a \in table' : heap'[a].count > 0
    BY <1>1, <1>2, <1>5, InvariantParts
  <2>3. \A a \in table \ {p} : ~(heap[a].dim = heap[p].dim /\ heap[a].matrix = heap[p].matrix)
    BY DEF Twins
  <2>4. \A a, b \in table' : heap'[a].dim = heap'[b].dim /\ heap'[a].matrix = heap'[b].matrix
                               => a = b
    BY <1>1, <1>2, <1>5, <2>3, InvariantParts DEF TableConsistent
  <2> QED BY <2>1, <2>2, <2>4 DEF TableConsistent
<1>9. MinGraphFresh' /\ MatricesAreZones' /\ AllocatorKeeps1x1'
  BY <1>2, <1>5, InvariantParts DEF MinGraphFresh, MatricesAreZones, AllocatorKeeps1x1
<1>10. Value' = Value
  BY <1>2, <1>5 DEF Value, Dim, Zone, IsEmpty
<1> QED BY <1>6, <1>7, <1>8, <1>9, <1>10 DEF SharingInvariant

-----------------------------------------------------------------------------

\* DbmValues computes with the same zones.
LEMMA SameZones ==
  /\ \A dim : Values!Zones(dim) = Zones(dim)
  /\ \A S : Values!Hull(S) = Hull(S)
  /\ \A op, dim, zone : Values!Image(op, dim, zone) = Image(op, dim, zone)
  /\ \A op, dim, zone : Values!Applies(op, dim, zone) <=> Applies(op, dim, zone)
  /\ \A old, zone, dim : Values!Resized(old, zone, dim) = Resized(old, zone, dim)
BY DEF Values!Zones, Zones, Values!Hull, Hull, Values!Image, Image, Values!Applies, Applies,
       Values!Resized, Resized, Values!Interval, Interval, Values!Points, Points,
       Values!Min, Min, Values!Max, Max, Values!dbm_init, dbm_init

\* A new zone of the same dimension is what Get of DbmValues means.
LEMMA GetsZone ==
  ASSUME NEW h \in Handle, NEW zone, NEW l, Becoming(h, Dim(h), zone, l)
  PROVE  Values!Get(h, zone) /\ (lost' = l => SharingInvariant')
<1>1. Value' = [Value EXCEPT ![h].zone = zone]
  BY DEF Becoming, Value
<1> QED BY <1>1 DEF Values!Get, Value, Becoming

\* Nothing done is Get of the zone that the handle has.
LEMMA GetsOwnZone ==
  ASSUME SharingInvariant, NEW h \in Handle, Becomes(Now)
  PROVE  Values!Get(h, Zone(h)) /\ (UNCHANGED lost => SharingInvariant')
<1>1. ptr' = ptr /\ heap' = heap /\ table' = table
  BY DEF Becomes, Now
<1>2. UNCHANGED lost => SharingInvariant'
  BY <1>1, NothingStep DEF vars
<1>3. Value' = Value
  BY <1>1 DEF Value, Dim, Zone, IsEmpty
<1>4. Value = [Value EXCEPT ![h].zone = Zone(h)]
  BY DEF Value
<1> QED BY <1>2, <1>3, <1>4 DEF Values!Get, Value

\* getCopy and getNew, as one.
LEMMA WrittenStep ==
  ASSUME SharingInvariant, Unused # {}, NEW h \in Handle, ~IsEmpty(h),
         NEW zone \in Zones(Dim(h)), Becomes(Written(h, zone))
  PROVE  Becoming(h, Dim(h), zone, lost)
BY InPlaceStep, CopiedStep DEF Written

\* empty, emptyImmutable and emptyMutable.
LEMMA EmptiedStep ==
  ASSUME SharingInvariant, NEW h \in Handle, ~IsEmpty(h), Becomes(Emptied(h))
  PROVE  Becoming(h, Dim(h), {}, lost)
BY LeaveStep, HandleFacts DEF Emptied

\* A lazy operation on a zone is the operation on the value, whichever block it is in.
LEMMA LazyCall ==
  ASSUME SharingInvariant, Unused # {}, NEW h \in Handle, NEW op \in LazyOps, Lazy(h, op)
  PROVE  Values!Transform(h, op) /\ (UNCHANGED lost => SharingInvariant')
<1> DEFINE zone == Image(op, Dim(h), Zone(h))
<1>1. ~IsEmpty(h) /\ Applies(op, Dim(h), Zone(h))
  BY DEF Lazy
<1>2. Becomes(IF Sole(h) THEN InPlace(h, zone)
              ELSE IF zone = Zone(h) THEN Now ELSE Copied(h, zone))
  BY DEF Lazy
<1>3. zone \in Zones(Dim(h))
  BY <1>1, HandleFacts, LazyImage
<1> HIDE DEF zone
<1>4. Values!Get(h, zone) /\ (UNCHANGED lost => SharingInvariant')
  <2>1. CASE Sole(h)
    BY <1>1, <1>2, <1>3, <2>1, InPlaceStep, GetsZone
  <2>2. CASE ~Sole(h) /\ zone = Zone(h)
    BY <1>2, <2>2, GetsOwnZone
  <2>3. CASE ~Sole(h) /\ zone # Zone(h)
    BY <1>1, <1>2, <1>3, <2>3, CopiedStep, GetsZone
  <2> QED BY <2>1, <2>2, <2>3
<1> QED BY <1>1, <1>4, SameZones DEF Values!Transform, Value, zone

\* An operation on a private copy, which is released when the zone gets empty.
LEMMA CopyingCall ==
  ASSUME SharingInvariant, Unused # {}, NEW h \in Handle, NEW op \in CopyOps, Copying(h, op)
  PROVE  Values!Transform(h, op) /\ (UNCHANGED lost => SharingInvariant')
<1> DEFINE zone == Image(op, Dim(h), Zone(h))
<1>1. ~IsEmpty(h) /\ Applies(op, Dim(h), Zone(h))
  BY DEF Copying
<1>2. Becomes(IF zone = {} THEN Emptied(h) ELSE Written(h, zone))
  BY DEF Copying
<1>3. zone \in Zones(Dim(h)) \cup {{}}
  BY <1>1, HandleFacts, CopyImage
<1> HIDE DEF zone
<1>4. Values!Get(h, zone) /\ (UNCHANGED lost => SharingInvariant')
  <2>1. CASE zone = {}
    BY <1>1, <1>2, <2>1, EmptiedStep, GetsZone
  <2>2. CASE zone # {}
    BY <1>1, <1>2, <1>3, <2>2, WrittenStep, GetsZone
  <2> QED BY <2>1, <2>2
<1> QED BY <1>1, <1>4, SameZones DEF Values!Transform, Value, zone

\* A constraint, or several, cut the zone of the handle.
LEMMA ConstrainCall ==
  ASSUME SharingInvariant, Unused # {}, NEW h \in Handle, NEW c \in Zones(Dim(h)),
         Constrain(h, c) \/ ConstrainN(h, c)
  PROVE  Values!Constrain(h, c) /\ (UNCHANGED lost => SharingInvariant')
<1> DEFINE zone == Zone(h) \cap c
<1>1. Values!Get(h, zone) /\ (UNCHANGED lost => SharingInvariant')
  <2>1. CASE IsEmpty(h)
    <3>1. Becomes(Now)
      BY <2>1 DEF Constrain, ConstrainN
    <3>2. zone = Zone(h)
      BY <2>1, HandleFacts
    <3> QED BY <3>1, <3>2, GetsOwnZone
  <2>2. CASE ~IsEmpty(h)
    <3>1. zone \in Zones(Dim(h)) \cup {{}}
      BY <2>2, HandleFacts, ZoneIntersection
    <3>2. \/ zone = Zone(h) /\ Becomes(Now)
          \/ zone = {} /\ Becomes(Emptied(h))
          \/ zone # {} /\ Becomes(Written(h, zone))
          \/ zone # {} /\ Sole(h) /\ Becomes(InPlace(h, zone))
          \/ zone # {} /\ ~Sole(h) /\ Becomes(Copied(h, zone))
      BY <2>2 DEF Constrain, ConstrainN
    <3> HIDE DEF zone
    <3>3. CASE zone = Zone(h) /\ Becomes(Now)
      BY <3>3, GetsOwnZone
    <3>4. CASE zone = {} /\ Becomes(Emptied(h))
      BY <2>2, <3>4, EmptiedStep, GetsZone
    <3>5. CASE zone # {} /\ Becomes(Written(h, zone))
      BY <2>2, <3>1, <3>5, WrittenStep, GetsZone
    <3>6. CASE zone # {} /\ Sole(h) /\ Becomes(InPlace(h, zone))
      BY <2>2, <3>1, <3>6, InPlaceStep, GetsZone
    <3>7. CASE zone # {} /\ ~Sole(h) /\ Becomes(Copied(h, zone))
      BY <2>2, <3>1, <3>7, CopiedStep, GetsZone
    <3> QED BY <3>2, <3>3, <3>4, <3>5, <3>6, <3>7
  <2> QED BY <2>1, <2>2
<1> QED BY <1>1, SameZones DEF Values!Constrain, Value

\* A matrix is written: copyFrom, getDBM, and setZero and setInit.
LEMMA SetValueCall ==
  ASSUME SharingInvariant, Unused # {}, NEW h \in Handle, NEW zone \in Zones(Dim(h)),
         CopyFrom(h, zone) \/ GetDBM(h, zone) \/ SetTo(h, zone)
  PROVE  Values!SetValue(h, zone) /\ (UNCHANGED lost => SharingInvariant')
<1>1. Values!Get(h, zone) /\ (UNCHANGED lost => SharingInvariant')
  <2>1. CASE IsEmpty(h) /\ Becomes(SetNew(Now, h, Dim(h), zone))
    BY <2>1, NewStep, GetsZone
  <2>2. CASE IsEmpty(h) /\ Dim(h) = 1 /\ Becomes(NewCopy(Now, h, ptr[dbm1x1]))
    <3>1. /\ ptr[dbm1x1] \in Address
          /\ heap[ptr[dbm1x1]].dim = 1
      BY InvariantParts DEF AllocatorKeeps1x1
    <3>2. heap[ptr[dbm1x1]].matrix \in Zones(1)
      BY <3>1, InvariantParts
    <3>3. heap[ptr[dbm1x1]].matrix = zone
      BY <2>2, <3>2, ZoneOfDimensionOne
    <3>4. Becoming(h, Dim(h), zone, lost)
      BY <2>2, <3>1, <3>3, NewCopyStep
    <3> QED BY <3>4, GetsZone
  <2>3. CASE ~IsEmpty(h) /\ zone = Zone(h) /\ Becomes(Now)
    BY <2>3, GetsOwnZone
  <2>4. CASE ~IsEmpty(h) /\ Becomes(Written(h, zone))
    BY <2>4, WrittenStep, GetsZone
  <2>5. CASE ~IsEmpty(h) /\ Sole(h) /\ Becomes(InPlace(h, zone))
    BY <2>5, InPlaceStep, GetsZone
  <2>6. CASE ~IsEmpty(h) /\ ~Sole(h) /\ Becomes(Copied(h, zone))
    BY <2>6, CopiedStep, GetsZone
  <2> QED BY <2>1, <2>2, <2>3, <2>4, <2>5, <2>6 DEF CopyFrom, GetDBM, SetTo
<1> QED BY <1>1, SameZones DEF Values!SetValue, Value

\* A handle becomes empty, of another dimension or its own.
LEMMA SetDimensionCall ==
  ASSUME SharingInvariant, NEW h \in Handle, NEW dim \in Dims, SetDimension(h, dim)
  PROVE  Values!SetDimension(h, dim) /\ (UNCHANGED lost => SharingInvariant')
<1>1. Becoming(h, dim, {}, lost)
  BY LeaveStep, NumberStep DEF SetDimension
<1> QED BY <1>1 DEF Becoming, Values!SetDimension, Value

\* A handle gets what another one has.
LEMMA AssignedValue ==
  ASSUME SharingInvariant, NEW h \in Handle, NEW arg \in Handle, Becomes(Assigned(h, arg))
  PROVE  Becoming(h, Dim(arg), Zone(arg), lost)
<1>1. CASE IsEmpty(arg) /\ IsEmpty(h)
  BY <1>1, HandleFacts, NumberStep DEF Assigned
<1>2. CASE IsEmpty(arg) /\ ~IsEmpty(h)
  <2>1. Becomes(SetPtr(DecRef(Now, ptr[h]), h, ptr[arg]))
    BY <1>2 DEF Assigned
  <2> QED BY <1>2, <2>1, HandleFacts, LeaveStep
<1>3. CASE ~IsEmpty(arg) /\ IsEmpty(h)
  <2>1. Becomes(NewCopy(Now, h, ptr[arg]))
    BY <1>3 DEF Assigned, NewCopy
  <2> QED BY <1>3, <2>1, HandleFacts, NewCopyStep
<1>4. CASE ~IsEmpty(arg) /\ ~IsEmpty(h)
  <2>1. Becomes(SetPtr(DecRef(IncRef(Now, ptr[arg]), ptr[h]), h, ptr[arg]))
    BY <1>4 DEF Assigned
  <2> QED BY <1>4, <2>1, HandleFacts, AssignedStep
<1> QED BY <1>1, <1>2, <1>3, <1>4

LEMMA AssignCall ==
  ASSUME SharingInvariant, NEW h \in Handle, NEW arg \in Handle, Assign(h, arg)
  PROVE  Values!Assign(h, arg) /\ (UNCHANGED lost => SharingInvariant')
<1>1. Becoming(h, Dim(arg), Zone(arg), lost)
  BY AssignedValue DEF Assign
<1>2. Value[arg] = [dim |-> Dim(arg), zone |-> Zone(arg)]
  BY DEF Value
<1> QED BY <1>1, <1>2 DEF Becoming, Values!Assign, Value

\* operator&=: the zone in common, in place, in the block of the argument, or in a new one.
LEMMA IntersectCall ==
  ASSUME SharingInvariant, Unused # {}, NEW h \in Handle, NEW arg \in Handle,
         Intersect(h, arg)
  PROVE  Values!Intersection(h, arg) /\ (UNCHANGED lost => SharingInvariant')
<1> DEFINE zone == Zone(h) \cap Zone(arg)
<1>1. Dim(h) = Dim(arg)
  BY DEF Intersect
<1>2. Values!Get(h, zone) /\ (UNCHANGED lost => SharingInvariant')
  <2>1. CASE IsEmpty(h)
    <3>1. Becomes(Now) /\ zone = Zone(h)
      BY <2>1, HandleFacts DEF Intersect
    <3> QED BY <3>1, GetsOwnZone
  <2>2. CASE ~IsEmpty(h)
    <3>1. zone \in Zones(Dim(h)) \cup {{}}
      BY <1>1, <2>2, HandleFacts, ZoneIntersection
    <3>2. \/ zone = {} /\ Becomes(Emptied(h))
          \/ zone # {} /\ Sole(h) /\ Becomes(InPlace(h, zone))
          \/ zone = Zone(h) /\ Becomes(Now)
          \/ zone = Zone(arg) /\ Becomes(Assigned(h, arg))
          \/ zone # {} /\ ~Sole(h) /\ Becomes(Copied(h, zone))
      BY <2>2 DEF Intersect
    <3> HIDE DEF zone
    <3>3. CASE zone = {} /\ Becomes(Emptied(h))
      BY <2>2, <3>3, EmptiedStep, GetsZone
    <3>4. CASE zone # {} /\ Sole(h) /\ Becomes(InPlace(h, zone))
      BY <2>2, <3>1, <3>4, InPlaceStep, GetsZone
    <3>5. CASE zone = Zone(h) /\ Becomes(Now)
      BY <3>5, GetsOwnZone
    <3>6. CASE zone = Zone(arg) /\ Becomes(Assigned(h, arg))
      <4>1. Becoming(h, Dim(h), zone, lost)
        BY <1>1, <3>6, AssignedValue
      <4> QED BY <4>1, GetsZone
    <3>7. CASE zone # {} /\ ~Sole(h) /\ Becomes(Copied(h, zone))
      BY <2>2, <3>1, <3>7, CopiedStep, GetsZone
    <3> QED BY <3>2, <3>3, <3>4, <3>5, <3>6, <3>7
  <2> QED BY <2>1, <2>2
<1> QED BY <1>1, <1>2 DEF Values!Intersection, Value

\* operator+=: the convex union, in place or in a new block, or the block of the argument.
LEMMA UnionCall ==
  ASSUME SharingInvariant, Unused # {}, NEW h \in Handle, NEW arg \in Handle, Union(h, arg)
  PROVE  Values!ConvexUnion(h, arg) /\ (UNCHANGED lost => SharingInvariant')
<1> DEFINE hull == Hull(Zone(h) \cup Zone(arg))
           zone == IF Zone(h) \cup Zone(arg) = {} THEN {} ELSE hull
<1>1. Dim(h) = Dim(arg)
  BY DEF Union
<1>2. Values!Get(h, zone) /\ (UNCHANGED lost => SharingInvariant')
  <2>1. CASE IsEmpty(arg)
    <3>1. Becomes(Now) /\ Zone(arg) = {}
      BY <2>1, HandleFacts DEF Union
    <3>2. CASE IsEmpty(h)
      <4>1. zone = Zone(h)
        BY <3>1, <3>2, HandleFacts
      <4> QED BY <3>1, <4>1, GetsOwnZone
    <3>3. CASE ~IsEmpty(h)
      <4>1. Zone(h) \cup Zone(arg) = Zone(h) /\ Hull(Zone(h)) = Zone(h)
        BY <3>1, <3>3, HandleFacts, HullOfZone
      <4>2. Zone(h) # {}
        BY <3>3, HandleFacts, ZonesAreInhabited
      <4>3. zone = Zone(h)
        BY <4>1, <4>2
      <4> QED BY <3>1, <4>3, GetsOwnZone
    <3> QED BY <3>2, <3>3
  <2>2. CASE ~IsEmpty(arg)
    <3>1. Zone(arg) \in Zones(Dim(h)) /\ Zone(arg) # {}
      BY <1>1, <2>2, HandleFacts, ZonesAreInhabited
    <3>2. zone = hull
      BY <3>1
    <3>3. CASE IsEmpty(h)
      <4>1. Becomes(NewCopy(Now, h, ptr[arg]))
        BY <2>2, <3>3 DEF Union
      <4>2. Becoming(h, Dim(h), Zone(arg), lost)
        BY <1>1, <2>2, <3>3, <4>1, HandleFacts, NewCopyStep
      <4>3. Zone(h) \cup Zone(arg) = Zone(arg) /\ Hull(Zone(arg)) = Zone(arg)
        BY <3>1, <3>3, HandleFacts, HullOfZone
      <4>4. zone = Zone(arg)
        BY <3>2, <4>3
      <4> QED BY <4>2, <4>4, GetsZone
    <3>4. CASE ~IsEmpty(h)
      <4>1. hull \in Zones(Dim(h))
        BY <3>1, <3>4, HandleFacts, HullOfUnion
      <4>2. \/ Sole(h) /\ Becomes(InPlace(h, hull))
            \/ hull = Zone(h) /\ Becomes(Now)
            \/ ~Sole(h) /\ Becomes(Copied(h, hull))
        BY <2>2, <3>4 DEF Union
      <4> HIDE DEF hull, zone
      <4>3. CASE Sole(h) /\ Becomes(InPlace(h, hull))
        BY <3>2, <3>4, <4>1, <4>3, InPlaceStep, GetsZone
      <4>4. CASE hull = Zone(h) /\ Becomes(Now)
        BY <3>2, <4>4, GetsOwnZone
      <4>5. CASE ~Sole(h) /\ Becomes(Copied(h, hull))
        BY <3>2, <3>4, <4>1, <4>5, CopiedStep, GetsZone
      <4> QED BY <4>2, <4>3, <4>4, <4>5
    <3> QED BY <3>3, <3>4
  <2> QED BY <2>1, <2>2
<1> QED BY <1>1, <1>2, SameZones DEF Values!ConvexUnion, Value

\* intern and getMinDBM change no value.
LEMMA InternCall ==
  ASSUME SharingInvariant, NEW h \in Handle, Intern(h)
  PROVE  Value' = Value /\ (UNCHANGED lost => SharingInvariant')
<1>1. ~IsEmpty(h) /\ ~heap[ptr[h]].hashed
  BY DEF Intern
<1>2. CASE Twins(ptr[h]) = {}
  <2>1. Becomes([Now EXCEPT !.heap[ptr[h]].hashed = TRUE, !.table = @ \cup {ptr[h]}])
    BY <1>2 DEF Intern
  <2> QED BY <1>1, <1>2, <2>1, HashedStep
<1>3. CASE Twins(ptr[h]) # {}
  <2>1. PICK q \in Twins(ptr[h]) :
          Becomes([DecRef(NewCopy(Now, h, q), ptr[h]) EXCEPT
                     !.heap[q].minGraph = IF heap[q].minGraph = NoGraph
                                          THEN heap[ptr[h]].minGraph
                                          ELSE heap[q].minGraph])
    BY <1>3 DEF Intern
  <2> DEFINE graph == IF heap[q].minGraph = NoGraph THEN heap[ptr[h]].minGraph
                      ELSE heap[q].minGraph
  <2>2. graph \in {heap[q].minGraph, heap[ptr[h]].minGraph}
    OBVIOUS
  <2>3. Becomes([DecRef(NewCopy(Now, h, q), ptr[h]) EXCEPT !.heap[q].minGraph = graph])
    BY <2>1
  <2> HIDE DEF graph
  <2>4. Becoming(h, Dim(h), Zone(h), lost)
    BY <1>1, <2>2, <2>3, InternedStep
  <2> QED BY <2>4 DEF Becoming, Value
<1> QED BY <1>2, <1>3

LEMMA GetMinGraphCall ==
  ASSUME SharingInvariant, NEW h \in Handle, GetMinGraph(h)
  PROVE  Value' = Value /\ (UNCHANGED lost => SharingInvariant')
<1>1. ~IsEmpty(h)
  BY DEF GetMinGraph
<1>2. CASE Becomes(Now)
  <2>1. Values!Get(h, Zone(h)) /\ (UNCHANGED lost => SharingInvariant')
    BY <1>2, GetsOwnZone
  <2> QED BY <2>1 DEF Values!Get, Value
<1>3. CASE Becomes([Now EXCEPT !.heap[ptr[h]].minGraph = Zone(h)])
  <2>1. Becoming(h, Dim(h), Zone(h), lost)
    BY <1>1, <1>3, GraphStep
  <2> QED BY <2>1 DEF Becoming, Value
<1> QED BY <1>2, <1>3 DEF GetMinGraph

\* resize and changeClocks make the zone of the new clocks, and lose a reference when
\* there are none.
LEMMA ChangeClocksCall ==
  ASSUME SharingInvariant, Unused # {}, NEW h \in Handle, NEW dim \in NewDims,
         NEW zone \in AllZones \cup {{}}, ChangeClocks(h, dim, zone)
  PROVE  Values!ChangeClocks(h, dim, zone) /\ SharingInvariant'
<1>1. /\ zone \in IF IsEmpty(h) THEN {{}} ELSE Resized(Dim(h), Zone(h), dim)
      /\ lost' = IF IsEmpty(h) \/ dim > 1 THEN lost ELSE [lost EXCEPT ![ptr[h]] = @ + 1]
      /\ Becomes(IF IsEmpty(h) THEN SetPtr(Now, h, dim)
                 ELSE IF dim = 1 THEN NewCopy(Now, h, ptr[dbm1x1])
                 ELSE DecRef(SetNew(Now, h, dim, zone), ptr[h]))
  BY Zenon DEF ChangeClocks
<1>2. dim \in Dims
  BY DimsAssumption DEF Dims
<1>3. Becoming(h, dim, zone, lost')
  <2>1. CASE IsEmpty(h)
    <3>1. Becoming(h, dim, {}, lost)
      BY <1>1, <1>2, <2>1, NumberStep
    <3> QED BY <1>1, <2>1, <3>1
  <2>2. CASE ~IsEmpty(h) /\ dim = 1
    <3>1. Becoming(h, 1, {0}, [lost EXCEPT ![ptr[h]] = @ + 1])
      BY <1>1, <2>2, LostStep
    <3>2. zone = {0}
      BY <1>1, <2>2 DEF Resized, dbm_init
    <3> QED BY <1>1, <2>2, <3>1, <3>2
  <2>3. CASE ~IsEmpty(h) /\ dim = 2
    <3>1. zone \in Zones(dim)
      BY <1>1, <1>2, <2>3, HandleFacts, ResizedZones
    <3>2. Becoming(h, dim, zone, lost)
      BY <1>1, <1>2, <2>3, <3>1, ReplacedStep
    <3> QED BY <1>1, <2>3, <3>2
  <2> QED BY <1>2, <2>1, <2>2, <2>3 DEF Dims
<1>4. Zone(h) = {} <=> IsEmpty(h)
  BY HandleFacts, ZonesAreInhabited
<1> QED BY <1>1, <1>3, <1>4, SameZones DEF Becoming, Values!ChangeClocks, Value

-----------------------------------------------------------------------------

\* DBMAllocator's block is the one block in use; a dbm_t has none.
LEMMA InitSharing == Init => SharingInvariant
<1> SUFFICES ASSUME Init PROVE SharingInvariant
  OBVIOUS
<1> DEFINE a == CHOOSE b \in Address : TRUE
           block == [count |-> 1, dim |-> 1, hashed |-> TRUE, matrix |-> {0},
                     minGraph |-> NoGraph]
<1>1. a \in Address
  BY Finiteness
<1>2. /\ heap = [b \in Address |-> IF b = a THEN block ELSE Freed]
      /\ table = {a}
      /\ lost = [b \in Address |-> 0]
      /\ ptr \in [Handles -> Dims \cup {a}]
      /\ ptr[dbm1x1] = a /\ \A h \in Handle : ptr[h] \in Dims
  BY DEF Init
<1> HIDE DEF a
<1>3. {0} \in Zones(1) /\ {0} \in AllZones
  BY DEF Zones, AllZones, Dims
<1>4. /\ block \in Block /\ block.count = 1 /\ block.dim = 1 /\ block.hashed
      /\ block.matrix = {0} /\ block.minGraph = NoGraph
  BY <1>3 DEF Block, Dims
<1>5. /\ Freed \in Block /\ Freed.count = 0 /\ Freed.dim = 1 /\ ~Freed.hashed
      /\ Freed.matrix = {0} /\ Freed.minGraph = NoGraph
  BY <1>3 DEF Freed, Block, Dims
<1> HIDE DEF block
<1>6. heap[a] = block /\ \A b \in Address \ {a} : heap[b] = Freed
  BY <1>1, <1>2
<1>7. TypeOK
  BY <1>1, <1>2, <1>4, <1>5 DEF TypeOK
<1>8. RefCounts
  <2>1. SUFFICES ASSUME NEW b \in Address PROVE heap[b].count = Cardinality(Users(b)) + lost[b]
    BY DEF RefCounts
  <2>2. dbm1x1 \in Handles /\ \A h \in Handles \ {dbm1x1} : ptr[h] \notin Address
    BY <1>2, HandleAssumption DEF Handles
  <2>3. CASE b = a
    <3>1. Users(b) = {dbm1x1}
      BY <1>1, <1>2, <2>2, <2>3 DEF Users
    <3>2. Cardinality(Users(b)) = 1
      BY <3>1, FS_Singleton
    <3> QED BY <1>2, <1>4, <1>6, <2>3, <3>2
  <2>4. CASE b # a
    <3>1. Users(b) = {}
      BY <1>2, <2>2, <2>4 DEF Users
    <3>2. Cardinality(Users(b)) = 0
      BY <3>1, FS_EmptySet
    <3> QED BY <1>2, <1>5, <1>6, <2>4, <3>2
  <2> QED BY <2>3, <2>4
<1>9. TableConsistent
  BY <1>1, <1>2, <1>4, <1>5, <1>6 DEF TableConsistent
<1>10. MinGraphFresh
  BY <1>4, <1>5, <1>6 DEF MinGraphFresh
<1>11. MatricesAreZones
  BY <1>3, <1>4, <1>5, <1>6 DEF MatricesAreZones
<1>12. AllocatorKeeps1x1
  BY <1>1, <1>2, <1>4, <1>6 DEF AllocatorKeeps1x1
<1> QED BY <1>7, <1>8, <1>9, <1>10, <1>11, <1>12 DEF SharingInvariant

\* The calls of the program, as Next offers them.
LEMMA NextIsACall ==
  ASSUME SharingInvariant, Next
  PROVE  SharingInvariant' /\ (Values!Next \/ Value' = Value)
<1>1. PICK h \in Handle :
        \/ Unused # {} /\ Resizes(h)
        \/ /\ \/ Unused # {} /\ Writes(h)
              \/ \E arg \in Handle : Assign(h, arg)
              \/ \E dim \in Dims : SetDimension(h, dim)
              \/ Intern(h)
              \/ GetMinGraph(h)
           /\ UNCHANGED lost
  BY DEF Next
<1>2. CASE Unused # {} /\ Resizes(h)
  <2>1. PICK dim \in NewDims, zone \in AllZones \cup {{}} : ChangeClocks(h, dim, zone)
    BY <1>2 DEF Resizes
  <2>2. Values!ChangeClocks(h, dim, zone) /\ SharingInvariant'
    BY <1>2, <2>1, ChangeClocksCall
  <2>3. Values!AllZones = AllZones
    BY SameZones DEF Values!AllZones, AllZones, Values!Dims, Dims
  <2> QED BY <2>2, <2>3 DEF Values!Next
<1>3. CASE Unused # {} /\ Writes(h) /\ UNCHANGED lost
  <2>1. CASE \E op \in LazyOps : Lazy(h, op)
    <3>1. PICK op \in LazyOps : Lazy(h, op)
      BY <2>1
    <3>2. Values!Transform(h, op) /\ SharingInvariant'
      BY <1>3, <3>1, LazyCall
    <3>3. op \in Values!LazyOps
      BY <3>1 DEF LazyOps, Values!LazyOps, Points, Values!Points
    <3> QED BY <3>2, <3>3 DEF Values!Next
  <2>2. CASE \E op \in CopyOps : Copying(h, op)
    <3>1. PICK op \in CopyOps : Copying(h, op)
      BY <2>2
    <3>2. Values!Transform(h, op) /\ SharingInvariant'
      BY <1>3, <3>1, CopyingCall
    <3>3. op \in Values!CopyOps
      BY <3>1 DEF CopyOps, Values!CopyOps
    <3> QED BY <3>2, <3>3 DEF Values!Next
  <2>3. CASE \E zone \in AllZones : \/ Constrain(h, zone) \/ ConstrainN(h, zone)
                                    \/ CopyFrom(h, zone) \/ GetDBM(h, zone)
                                    \/ SetTo(h, zone)
    <3>1. PICK zone \in AllZones : \/ Constrain(h, zone) \/ ConstrainN(h, zone)
                                   \/ CopyFrom(h, zone) \/ GetDBM(h, zone)
                                   \/ SetTo(h, zone)
      BY <2>3
    <3>2. zone \in Zones(Dim(h))
      BY <3>1, HandleFacts, InitialZones DEF Constrain, ConstrainN, CopyFrom, GetDBM, SetTo
    <3>3. /\ Values!Constrain(h, zone) \/ Values!SetValue(h, zone)
          /\ SharingInvariant'
      BY <1>3, <3>1, <3>2, ConstrainCall, SetValueCall
    <3>4. Values!AllZones = AllZones
      BY SameZones DEF Values!AllZones, AllZones, Values!Dims, Dims
    <3> QED BY <3>3, <3>4 DEF Values!Next
  <2>4. CASE \E arg \in Handle : Intersect(h, arg) \/ Union(h, arg)
    <3>1. PICK arg \in Handle : Intersect(h, arg) \/ Union(h, arg)
      BY <2>4
    <3>2. /\ Values!Intersection(h, arg) \/ Values!ConvexUnion(h, arg)
          /\ SharingInvariant'
      BY <1>3, <3>1, IntersectCall, UnionCall
    <3> QED BY <3>2 DEF Values!Next
  <2> QED BY <1>3, <2>1, <2>2, <2>3, <2>4 DEF Writes
<1>4. CASE (\E arg \in Handle : Assign(h, arg)) /\ UNCHANGED lost
  BY <1>4, AssignCall DEF Values!Next
<1>5. CASE (\E dim \in Dims : SetDimension(h, dim)) /\ UNCHANGED lost
  BY <1>5, SetDimensionCall DEF Values!Next, Values!Dims, Dims
<1>6. CASE (Intern(h) \/ GetMinGraph(h)) /\ UNCHANGED lost
  BY <1>6, InternCall, GetMinGraphCall
<1> QED BY <1>1, <1>2, <1>3, <1>4, <1>5, <1>6

\* The sharing invariant is inductive, for every number of handles and of blocks.
THEOREM SharingCorrect == Spec => []SharingInvariant
<1>1. SharingInvariant /\ [Next]_vars => SharingInvariant'
  BY NextIsACall, NothingStep
<1> QED BY <1>1, InitSharing, PTL DEF Spec

\* No handle points to a block that was freed.
NoneFreedInUse ==
  \A h \in Handles : ~IsEmpty(h) => ptr[h] \in Address /\ heap[ptr[h]].count >= 1

\* A block that a handle may write in place, tryMutable, has no other handle, and none of
\* its references was overwritten.
SoleIsAlone ==
  \A h \in Handles : ~IsEmpty(h) /\ Sole(h) => Users(ptr[h]) = {h} /\ lost[ptr[h]] = 0

\* A block that is not freed and has no handle left is one with an overwritten reference.
LeakedOnlyIfLost ==
  \A a \in Address : heap[a].count >= 1 /\ Users(a) = {} => lost[a] >= 1

\* idbm_t: the reference count of a block is the number of its handles and of the
\* references to it that resize and changeClocks overwrote.  Hence no block is freed
\* before its last handle is gone, none is written in place while another handle has it,
\* and a block outlives its handles only if a reference to it was overwritten.
THEOREM CountsExact ==
  Spec => [](RefCounts /\ NoneFreedInUse /\ SoleIsAlone /\ LeakedOnlyIfLost)
<1>1. ASSUME SharingInvariant
      PROVE  RefCounts /\ NoneFreedInUse /\ SoleIsAlone /\ LeakedOnlyIfLost
  <2>1. TypeOK /\ RefCounts
    BY <1>1 DEF SharingInvariant
  <2>2. NoneFreedInUse /\ SoleIsAlone
    BY <2>1, UsedBlocks DEF NoneFreedInUse, SoleIsAlone, Sole
  <2>3. LeakedOnlyIfLost
    <3> SUFFICES ASSUME NEW a \in Address, heap[a].count >= 1, Users(a) = {}
                 PROVE  lost[a] >= 1
      BY DEF LeakedOnlyIfLost
    <3>1. heap[a].count = Cardinality(Users(a)) + lost[a] /\ lost[a] \in Nat
      BY <2>1 DEF RefCounts, TypeOK
    <3>2. Cardinality(Users(a)) = 0
      BY FS_EmptySet
    <3> QED BY <3>1, <3>2
  <2> QED BY <2>1, <2>2, <2>3
<1> QED BY <1>1, SharingCorrect, PTL

\* dbm_table: the table links the live blocks that are marked, no two of them equal.
THEOREM TableCorrect == Spec => []TableConsistent
<1>1. SharingInvariant => TableConsistent
  BY DEF SharingInvariant
<1> QED BY <1>1, SharingCorrect, PTL

\* getMinDBM: a stored minimal graph is that of the matrix it is stored with.
THEOREM GraphsFresh == Spec => []MinGraphFresh
<1>1. SharingInvariant => MinGraphFresh
  BY DEF SharingInvariant
<1> QED BY <1>1, SharingCorrect, PTL

\* fed.h: sharing cannot be seen.  Every behaviour of dbm_t is one of DbmValues.
THEOREM Refinement == Spec => ImplementsValues
<1>1. Init => Values!Init
  <2> SUFFICES ASSUME Init PROVE Value \in [Handle -> [dim : Dims, zone : {{}}]]
    BY DEF Values!Init, Value, Values!Dims, Dims
  <2>1. \A h \in Handle : IsEmpty(h) /\ ptr[h] \in Dims
    BY Finiteness, HandleAssumption DEF Init, IsEmpty
  <2> QED BY <2>1 DEF Value, Dim, Zone
<1>2. SharingInvariant /\ [Next]_vars => [Values!Next]_(Values!vars)
  BY NextIsACall, NothingStep DEF Values!vars, Value
<1> QED BY <1>1, <1>2, SharingCorrect, PTL DEF Spec, ImplementsValues, Values!Spec

\* Each call of dbm_t is the call of DbmValues that fed.h promises.
THEOREM EachCallCorrect == Spec => CallsMeanValues
<1> DEFINE Means ==
      Unused # {} =>
        \A h \in Handle :
          /\ \A op \in LazyOps : Lazy(h, op) => Values!Transform(h, op)
          /\ \A op \in CopyOps : Copying(h, op) => Values!Transform(h, op)
          /\ \A zone \in Zones(Dim(h)) :
               /\ Constrain(h, zone) \/ ConstrainN(h, zone) => Values!Constrain(h, zone)
               /\ CopyFrom(h, zone) \/ GetDBM(h, zone) \/ SetTo(h, zone)
                    => Values!SetValue(h, zone)
          /\ \A arg \in Handle :
               /\ Intersect(h, arg) => Values!Intersection(h, arg)
               /\ Union(h, arg) => Values!ConvexUnion(h, arg)
               /\ Assign(h, arg) => Values!Assign(h, arg)
          /\ \A dim \in Dims : SetDimension(h, dim) => Values!SetDimension(h, dim)
          /\ \A dim \in NewDims, zone \in AllZones \cup {{}} :
               ChangeClocks(h, dim, zone) => Values!ChangeClocks(h, dim, zone)
          /\ Intern(h) \/ GetMinGraph(h) => UNCHANGED Values!vars
<1>1. SharingInvariant => Means
  BY LazyCall, CopyingCall, ConstrainCall, SetValueCall, IntersectCall, UnionCall,
     AssignCall, SetDimensionCall, ChangeClocksCall, InternCall, GetMinGraphCall
  DEF Values!vars, Value
<1>2. SharingInvariant /\ [Next]_vars => [Means]_vars
  BY <1>1
<1> HIDE DEF Means
<1>3. Spec => [][Means]_vars
  BY <1>2, SharingCorrect, PTL DEF Spec
<1> QED BY <1>3 DEF CallsMeanValues, Means

=============================================================================

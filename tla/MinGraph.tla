------------------------------ MODULE MinGraph ------------------------------
(***************************************************************************)
(* Zones packed into arrays of integers (src/mingraph*.c): all the bounds, *)
(* or those of the minimal graph together with a bit matrix or with the    *)
(* couples of their clocks, each in 32 or in 16 bits, whatever is shortest.*)
(*                                                                         *)
(* A program packs its zone, works on another one, compares it with the    *)
(* packed one, and reads the packed one back.  A packed graph is a record  *)
(* of what its header says and of the bounds after it; where the indices   *)
(* of the bounds are in the array is left out.                             *)
(***************************************************************************)
EXTENDS MinReduction, Bitwise, FiniteSetsExt

CONSTANTS
  Zones,    \* the closed matrices that the program packs
  Others,   \* the ones it compares with what it has packed
  IntBits   \* bits of an int of the array, 32 in the code

ASSUME ZonesAssumption == \A D \in Zones \cup Others : D \in Matrix /\ dbm_isValid(D)
ASSUME IntBitsAssumption == IntBits \in Nat \ {0}

VARIABLES
  dbm,    \* the zone of the program
  graph,  \* the graph it has packed, or NoGraph
  saved   \* history: the zone that graph was packed from

vars == <<dbm, graph, saved>>

-----------------------------------------------------------------------------
(* The integers of the array: src/mingraph_coding.h. *)

dbm_LS_INF16 == 32766

\* The conversion to int16_t keeps 16 bits.
int16(n) == ((n + 32768) % 65536) - 32768

mingraph_raw32to16(raw) == IF raw = dbm_LS_INFINITY THEN dbm_LS_INF16 ELSE int16(raw)

mingraph_raw16to32(raw) == IF raw = dbm_LS_INF16 THEN dbm_LS_INFINITY ELSE raw

Pack(raw, coded16) == IF coded16 THEN mingraph_raw32to16(raw) ELSE raw
Unpack(raw, coded16) == IF coded16 THEN mingraph_raw16to32(raw) ELSE raw

bits2intsize(n) == (n + IntBits - 1) \div IntBits

\* Half an int for each of n bounds in 16 bits, rounded up.
IntsFor(n, coded16) == IF coded16 THEN (n + 1) \div 2 ELSE n

\* ADD_BITS of every finite bound: the bits of n, or of ~n for a negative n.
dbm_getMaxRange(D) ==
  LET absNot(n) == IF n < 0 THEN -n - 1 ELSE n
      addBits(max, p) == IF D[p[1]][p[2]] = dbm_LS_INFINITY THEN max
                         ELSE absNot(D[p[1]][p[2]]) | max
  IN  FoldSet(LAMBDA p, max : addBits(max, p), 0, Pairs)

MaxShortCount == 1023  \* 0x3ff

-----------------------------------------------------------------------------
(* Writing: src/mingraph_write.c. *)

NoGraph == [kind |-> "none"]

\* kind and coded16 are the type; nsaved is the field 0xffc00000 of the first int, and
\* more the second int, which says the number of bounds when there are too many.
Graph(kind, coded16, D, bits, ints) ==
  LET many == kind # "copy" /\ Cardinality(bits) > MaxShortCount
  IN  [kind |-> kind, coded16 |-> coded16, dim |-> dim, many |-> many,
       nsaved |-> IF kind = "copy" \/ many THEN 0 ELSE Cardinality(bits),
       more |-> IF many THEN Cardinality(bits) ELSE 0,
       bounds |-> [p \in bits |-> Pack(D[p[1]][p[2]], coded16)],
       allocated |-> ints]

\* A zone of which only the dimension is known.
Trivial(D) == Graph("couples", FALSE, D, {}, 1)

SizeIfCopy(coded16) == 1 + IntsFor(dim * (dim - 1), coded16)

Copy(D, coded16) == Graph("copy", coded16, D, Pairs, SizeIfCopy(coded16))

BitsPerIndex == IF dim <= 16 THEN 4 ELSE IF dim <= 256 THEN 8 ELSE 16

\* The shortest of the three forms.
mingraph_encode(D, bits, coded16) ==
  LET cnt == Cardinality(bits)
      header == (IF cnt > MaxShortCount THEN 2 ELSE 1) + IntsFor(cnt, coded16)
      sizeIfBitMatrix == header + bits2intsize(dim * dim)
      sizeIfCouplesij == header + bits2intsize(cnt * 2 * BitsPerIndex)
  IN  IF SizeIfCopy(coded16) <= sizeIfBitMatrix /\ SizeIfCopy(coded16) <= sizeIfCouplesij
      THEN Copy(D, coded16)
      ELSE IF SizeIfCopy(coded16) > sizeIfBitMatrix /\ sizeIfCouplesij >= sizeIfBitMatrix
      THEN Graph("bitmatrix", coded16, D, bits, sizeIfBitMatrix)
      ELSE Graph("couples", coded16, D, bits, sizeIfCouplesij)

\* Two bounds and no choice: the flags are ignored.
mingraph_writeMinDBMDim2(D) ==
  IF dim = 1 THEN Graph("copy", FALSE, D, {}, 1)
  ELSE IF D[0][1] = dbm_LE_ZERO /\ D[1][0] = dbm_LS_INFINITY THEN Trivial(D)
  ELSE Copy(D, dbm_getMaxRange(D) < dbm_LS_INF16)

dbm_writeAnalyzedDBM(D, bits, tryConstraints16) ==
  LET clean == dbm_cleanBitMatrix(D, bits)
      coded16 == tryConstraints16 /\ dbm_getMaxRange(D) < dbm_LS_INF16
  IN  IF clean = {} THEN Trivial(D)
      ELSE IF dim <= 2 THEN mingraph_writeMinDBMDim2(D)
      ELSE mingraph_encode(D, clean, coded16)

dbm_writeToMinDBM(D, minimizeGraph, tryConstraints16) ==
  IF dim <= 2 THEN mingraph_writeMinDBMDim2(D)
  ELSE IF minimizeGraph
  THEN dbm_writeAnalyzedDBM(D, dbm_analyzeForMinDBM(D), tryConstraints16)
  ELSE Copy(D, tryConstraints16 /\ dbm_getMaxRange(D) < dbm_LS_INF16)

-----------------------------------------------------------------------------
(* Reading: src/mingraph_read.c, src/mingraph.c. *)

\* ((size_t)mingraph[0]) >> 22: the first int is signed, so that a field that sets its
\* highest bit gets 42 bits longer; 2^42 is left out of this number here.
mingraph_getNbConstraints(g) ==
  IF g.many THEN g.more
  ELSE IF g.nsaved < 512 THEN g.nsaved ELSE g.nsaved - 1024

\* Mutant of dbm_getSizeOfMinDBM: one index for each couple.
sizeOfOneIndex(g) ==
  LET cnt == mingraph_getNbConstraints(g)
      header == (IF g.many THEN 2 ELSE 1) + IntsFor(cnt, g.coded16)
  IN  CASE g.kind = "copy" -> 1 + IntsFor(g.dim * (g.dim - 1), g.coded16)
        [] g.kind = "bitmatrix" -> header + bits2intsize(g.dim * g.dim)
        [] g.kind = "couples" -> header + bits2intsize(cnt * BitsPerIndex)

dbm_getSizeOfMinDBM(g) ==
  LET cnt == mingraph_getNbConstraints(g)
      header == (IF g.many THEN 2 ELSE 1) + IntsFor(cnt, g.coded16)
  IN  CASE g.kind = "copy" -> 1 + IntsFor(g.dim * (g.dim - 1), g.coded16)
        [] g.kind = "bitmatrix" -> header + bits2intsize(g.dim * g.dim)
        [] g.kind = "couples" -> header + bits2intsize(cnt * 2 * BitsPerIndex)

\* Of a zone with no clock but the reference, the one integer 1; the form without bounds
\* that dbm_writeAnalyzedDBM gives it is read like those of other dimensions.
OnlyReference(g) == g.dim = 1 /\ g.kind = "copy"

Bound(g, p) == Unpack(g.bounds[p], g.coded16)

\* The bounds of g written over those of D.
Written(g, D) ==
  [i \in Clk |-> [j \in Clk |->
     IF <<i, j>> \in DOMAIN g.bounds THEN Bound(g, <<i, j>>) ELSE D[i][j]]]

\* Mutant of Touched: the reference clock is taken for untouched.
touchedClocks(g) == UNION {{p[1], p[2]} \ {0} : p \in DOMAIN g.bounds}

\* "Lower bounds on clock j do not cause it to be invalidated."
Touched(g) == UNION {{p[1], p[2]} : p \in {q \in DOMAIN g.bounds : q[1] # 0}}

dbm_readFromMinDBM(g) ==
  IF g.kind = "copy" THEN WithZeroDiagonal(Written(g, dbm_init))
  ELSE dbm_closex(Written(g, dbm_init), Touched(g))

\* Mutant of mingraph_addMissingConstraints: without the cycle of the reference clock.
addMissingNotCycle(bits, D) ==
  LET others == Representatives(D) \ {0}
  IN  bits \cup {<<0, q>> : q \in {q \in others :
                   /\ D[0][q] = dbm_LE_ZERO
                   /\ \A r \in others \ {q} : ~ImpliedVia(D, 0, r, q)}}

\* Those of the bounds "0 <= x" that writing removed and that are in the minimal graph.
mingraph_addMissingConstraints(bits, D) ==
  LET others == Representatives(D) \ {0}
  IN  bits
        \cup {<<0, q>> : q \in {q \in others :
                /\ D[0][q] = dbm_LE_ZERO
                /\ \A r \in others \ {q} : ~ImpliedVia(D, 0, r, q)}}
        \cup (IF After(D, 0, 0) = {} THEN {} ELSE {<<0, Least(After(D, 0, 0))>>})

\* buffer: the unpacked matrix, if the caller has it, or what reading gives.  The couples
\* are closed in full here.
dbm_getBitMatrixFromMinDBM(g, buffer) ==
  CASE OnlyReference(g) -> {}
    [] ~OnlyReference(g) /\ g.kind = "copy" -> dbm_analyzeForMinDBM(buffer)
    [] g.kind = "couples" /\ DOMAIN g.bounds = {} -> {<<0, i>> : i \in Clk \ {0}}
    [] g.kind # "copy" /\ DOMAIN g.bounds # {} ->
         mingraph_addMissingConstraints(DOMAIN g.bounds, buffer)

BufferOf(g) ==
  IF g.kind = "couples" THEN dbm_close(Written(g, dbm_init)) ELSE dbm_readFromMinDBM(g)

dbm_mingraphHasZero(g) ==
  /\ ~OnlyReference(g)
  /\ \A p \in DOMAIN g.bounds :
       (g.kind = "copy" => p[1] = 0 \/ p = <<1, 0>>) => Bound(g, p) >= dbm_LE_ZERO

-----------------------------------------------------------------------------
(* Comparing without unpacking: src/mingraph_equal.c, src/mingraph_relation.c. *)

Answer(rel, exact) == [rel |-> rel, exact |-> exact]

\* Row by row.
Before(p, q) == p[1] * dim + p[2] < q[1] * dim + q[2]

\* Mutant of RelationWithMinimal: a smaller bound anywhere makes "different" exact.
relationStrictAnywhere(D, g) ==
  LET less == {p \in DOMAIN g.bounds : D[p[1]][p[2]] < Bound(g, p)}
      greater == {p \in DOMAIN g.bounds : D[p[1]][p[2]] > Bound(g, p)}
  IN  IF greater = {} THEN Answer("subset", less # {}) ELSE Answer("different", TRUE)

\* The bounds that are stored are compared until one is greater in D: only if one before
\* it is smaller are the zones different for certain.
RelationWithMinimal(D, g) ==
  LET less == {p \in DOMAIN g.bounds : D[p[1]][p[2]] < Bound(g, p)}
      greater == {p \in DOMAIN g.bounds : D[p[1]][p[2]] > Bound(g, p)}
      first == CHOOSE p \in greater : \A q \in greater : p = q \/ Before(p, q)
  IN  IF greater = {} THEN Answer("subset", less # {})
      ELSE Answer("different", \E p \in less : Before(p, first))

\* All bounds; "superset" and "equal" only if the caller gives a buffer.
RelationWithCopy(D, g, hasBuffer) ==
  LET less == {p \in Pairs : D[p[1]][p[2]] < Bound(g, p)}
      greater == {p \in Pairs : D[p[1]][p[2]] > Bound(g, p)}
  IN  CASE greater = {} /\ hasBuffer /\ less = {} -> Answer("equal", TRUE)
        [] greater = {} /\ ~(hasBuffer /\ less = {}) -> Answer("subset", hasBuffer)
        [] greater # {} /\ less = {} /\ hasBuffer -> Answer("superset", TRUE)
        [] greater # {} /\ ~(less = {} /\ hasBuffer) -> Answer("different", hasBuffer)

RelationWith(D, g, hasBuffer) ==
  IF g.kind = "copy" THEN RelationWithCopy(D, g, hasBuffer) ELSE RelationWithMinimal(D, g)

dbm_relationWithMinDBM(D, g, hasBuffer) ==
  LET answer == RelationWith(D, g, hasBuffer)
  IN  IF OnlyReference(g) THEN IF hasBuffer THEN "equal" ELSE "subset"
      ELSE IF ~hasBuffer \/ answer.exact THEN answer.rel
      ELSE dbm_relation(D, dbm_readFromMinDBM(g))

dbm_approxRelationWithMinDBM(D, g, hasBuffer) ==
  LET answer == RelationWith(D, g, hasBuffer)
  IN  IF OnlyReference(g) THEN IF hasBuffer THEN "equal" ELSE "subset"
      ELSE IF ~hasBuffer \/ answer.rel = "subset" \/ answer.exact THEN answer.rel
      ELSE dbm_relation(D, dbm_readFromMinDBM(g))

\* bits: the result of the analysis of D, which is cleaned before it is compared.
dbm_isAnalyzedDBMEqualToMinDBM(D, bits, g) ==
  LET same(p) == D[p[1]][p[2]] = Bound(g, p)
  IN  CASE g.kind = "copy" -> \A p \in Pairs : same(p)
        [] g.kind = "couples" /\ DOMAIN g.bounds = {} -> dbm_isEqualToInit(D)
        [] g.kind # "copy" /\ DOMAIN g.bounds # {} ->
             /\ dbm_cleanBitMatrix(D, bits) = DOMAIN g.bounds
             /\ \A p \in DOMAIN g.bounds : same(p)

dbm_isEqualToMinDBM(D, g) ==
  dbm_isAnalyzedDBMEqualToMinDBM(D, dbm_analyzeForMinDBM(D), g)

dbm_isUnpackedEqualToMinDBM(D, g) ==
  IF g.kind = "copy" THEN \A p \in Pairs : D[p[1]][p[2]] = Bound(g, p)
  ELSE D = dbm_readFromMinDBM(g)

dbm_convexUnionWithMinDBM(D, g) ==
  IF g.dim = 1 THEN D
  ELSE IF g.kind = "copy" THEN [i \in Clk |-> [j \in Clk |->
         IF i # j THEN RawMax(D[i][j], Bound(g, <<i, j>>)) ELSE D[i][j]]]
  ELSE IF mingraph_getNbConstraints(g) = 0 THEN dbm_init
  ELSE dbm_convexUnion(D, dbm_readFromMinDBM(g))

-----------------------------------------------------------------------------

Init == dbm \in Zones /\ graph = NoGraph /\ saved = dbm

Save ==
  /\ graph = NoGraph
  /\ \E minimizeGraph, tryConstraints16 \in BOOLEAN :
       graph' = dbm_writeToMinDBM(dbm, minimizeGraph, tryConstraints16)
  /\ saved' = dbm /\ UNCHANGED dbm

\* After an analysis of the caller's, who may have cleaned its result already.
SaveAnalyzed ==
  /\ graph = NoGraph
  /\ \E tryConstraints16 \in BOOLEAN, clean \in BOOLEAN :
       LET bits == dbm_analyzeForMinDBM(dbm)
       IN  graph' = dbm_writeAnalyzedDBM(dbm, IF clean THEN dbm_cleanBitMatrix(dbm, bits)
                                              ELSE bits, tryConstraints16)
  /\ saved' = dbm /\ UNCHANGED dbm

\* Meanwhile the program has another zone.
Work == graph # NoGraph /\ dbm' \in Others /\ UNCHANGED <<graph, saved>>

\* The packed zone is given up after it was read, or united with dbm.
Read ==
  /\ graph # NoGraph
  /\ dbm' = dbm_readFromMinDBM(graph)
  /\ saved' = dbm' /\ graph' = NoGraph

ConvexUnion ==
  /\ graph # NoGraph
  /\ dbm' = dbm_convexUnionWithMinDBM(dbm, graph)
  /\ saved' = dbm' /\ graph' = NoGraph

Next == Save \/ SaveAnalyzed \/ Work \/ Read \/ ConvexUnion

Spec == Init /\ [][Next]_vars

-----------------------------------------------------------------------------

\* What is read back is the zone that was packed, in every form, whatever bounds were
\* left out and whichever clocks the closure after reading skips.
ReadsBack ==
  graph # NoGraph =>
    /\ dbm_readFromMinDBM(graph) = saved
    /\ dbm_convexUnionWithMinDBM(dbm, graph) = dbm_convexUnion(dbm, saved)
    /\ dbm_mingraphHasZero(graph) <=> dbm_hasZero(saved)

\* "the smallest number of constraints needed to represent the same zone": no smaller set
\* of bounds closes to the zone of the program.
SmallestGraph ==
  graph = NoGraph =>
    \A bits \in SUBSET Pairs :
      dbm_close([i \in Clk |-> [j \in Clk |->
        IF i = j \/ <<i, j>> \in bits THEN dbm[i][j] ELSE dbm_LS_INFINITY]]) = dbm
        => Cardinality(bits) >= Cardinality(dbm_analyzeForMinDBM(dbm))

\* "the resulting bitMatrix is the same as the one given by dbm_analyzeForMinDBM(A)":
\* bounds removed by packing come back exactly where the analysis had them.
SameBits ==
  graph # NoGraph =>
    /\ BufferOf(graph) = saved
    /\ dbm_getBitMatrixFromMinDBM(graph, BufferOf(graph)) = dbm_analyzeForMinDBM(saved)

\* Comparisons with the packed zone answer as comparisons with the zone do, although
\* most of its bounds are not there; without a buffer they only tell "subset" from the rest.
ComparisonsExact ==
  graph # NoGraph =>
    LET rel == dbm_relation(dbm, saved)
        inside == IF rel \in {"subset", "equal"} THEN "subset" ELSE "different"
    IN  /\ dbm_relationWithMinDBM(dbm, graph, TRUE) = rel
        /\ dbm_relationWithMinDBM(dbm, graph, FALSE) = inside
        /\ dbm_approxRelationWithMinDBM(dbm, graph, TRUE)
             \in {rel} \cup (IF rel = "equal" THEN {"subset"} ELSE {})
        /\ dbm_approxRelationWithMinDBM(dbm, graph, FALSE) = inside
        /\ dbm_isEqualToMinDBM(dbm, graph) <=> rel = "equal"
        /\ dbm_isUnpackedEqualToMinDBM(dbm, graph) <=> rel = "equal"

\* The size that is computed from a header is the size that writing allocated, in the form
\* that was chosen there.
SizeIsAllocated ==
  graph # NoGraph => dbm_getSizeOfMinDBM(graph) = graph.allocated

\* "The maximal number of constraints we can store there is 0x3ff": what was written in
\* the header is read.
CountReadsBack ==
  graph # NoGraph /\ graph.kind # "copy" =>
    mingraph_getNbConstraints(graph) = Cardinality(DOMAIN graph.bounds)

=============================================================================

----------------------------- MODULE SharedWrites -----------------------------
(***************************************************************************)
(* The matrix operations of dbm_t in src/fed_dbm.cpp.  On a private block  *)
(* they call src/dbm.c, which is what Zones says.  A block that is shared  *)
(* is read first, by a loop of their own; at the first entry that changes  *)
(* they copy the block and continue in the copy, from where they are.      *)
(*                                                                         *)
(* The calls of Zones are made on two handles with the same zone: dbm is   *)
(* the result for the one that has its own block, Outcome what becomes of  *)
(* the other one.                                                          *)
(***************************************************************************)
EXTENDS Zones

-----------------------------------------------------------------------------
(* The outcomes for a handle with a shared block. *)

Kept(D) == [block |-> "shared", dbm |-> D]
Copied(D) == [block |-> "copy", dbm |-> D]
Gone == [block |-> "none", dbm |-> Empty]

CopiedOrGone(D) == IF D = Empty THEN Gone ELSE Copied(D)

\* The loop over first .. last that looks for an index at which D needs a change,
\* copies there, and goes on writing in the copy from this index.
Resumed(D, first, last, needed(_), write(_, _)) ==
  LET indices == {n \in first .. last : needed(n)}
      from == Least(indices)
      written[n \in from - 1 .. last] == IF n < from THEN D ELSE write(written[n - 1], n)
  IN  IF indices = {} THEN Kept(D) ELSE Copied(written[last])

\* The same, where the index runs over the entries of the matrix, row by row.
ResumedEntries(D, first, last, needed(_, _), write(_, _, _)) ==
  LET neededAt(n) == needed(n \div dim, n % dim)
      writeAt(E, n) == write(E, n \div dim, n % dim)
  IN  Resumed(D, first, last, neededAt, writeAt)

-----------------------------------------------------------------------------
(* Delay and freeing. *)

ptr_up(D) ==
  LET needed(i) == D[i][0] # dbm_LS_INFINITY
      write(E, i) == [E EXCEPT ![i][0] = dbm_LS_INFINITY]
  IN  Resumed(D, 1, dim - 1, needed, write)

\* Mutant of ptr_down: the lower bounds after the first one are not looked at.
downOneClock(D) ==
  LET lower(j) == Least({dbm_LE_ZERO} \cup {D[i][j] : i \in Clocks})
      changed == {j \in Clocks : D[0][j] < dbm_LE_ZERO /\ D[0][j] # lower(j)}
      first == Least(changed)
  IN  IF changed = {} THEN Kept(D) ELSE Copied([D EXCEPT ![0][first] = lower(first)])

\* The first lower bound is written here, the others by dbm_downFrom.
ptr_down(D) ==
  LET lower(j) == Least({dbm_LE_ZERO} \cup {D[i][j] : i \in Clocks})
      changed == {j \in Clocks : D[0][j] < dbm_LE_ZERO /\ D[0][j] # lower(j)}
      first == Least(changed)
  IN  IF changed = {} THEN Kept(D)
      ELSE Copied(dbm_downFrom([D EXCEPT ![0][first] = lower(first)], first + 1))

ptr_freeClock(D, k) ==
  LET needed(i) == i # k /\ (D[k][i] # dbm_LS_INFINITY \/ D[i][k] # D[i][0])
      write(E, i) == IF i = k THEN E
                     ELSE [E EXCEPT ![k][i] = dbm_LS_INFINITY, ![i][k] = E[i][0]]
  IN  Resumed(D, 0, dim - 1, needed, write)

ptr_freeUp(D, k) ==
  LET needed(j) == j # k /\ D[k][j] # dbm_LS_INFINITY
      write(E, j) == IF j = k THEN E ELSE [E EXCEPT ![k][j] = dbm_LS_INFINITY]
  IN  Resumed(D, 0, dim - 1, needed, write)

ptr_freeDown(D, k) ==
  LET needed(i) == i # k /\ D[i][k] # D[i][0]
      write(E, i) == IF i = k THEN E ELSE [E EXCEPT ![i][k] = E[i][0]]
  IN  Resumed(D, 0, dim - 1, needed, write)

ptr_freeAllUp(D) == IF dbm_isFreedAllUp(D) THEN Kept(D) ELSE Copied(dbm_freeAllUp(D))

\* dbm_testFreeAllDown says where to enter the two loops: "goto cont_j".
ptr_freeAllDown(D) ==
  LET needed(i, j) == j # 0 /\ i # j /\ D[i][j] # D[i][0]
      write(E, i, j) == IF j = 0 \/ i = j THEN E ELSE [E EXCEPT ![i][j] = E[i][0]]
  IN  ResumedEntries(D, 0, dim * dim - 1, needed, write)

-----------------------------------------------------------------------------
(* Updates. *)

\* Mutant of ptr_updateValue: the first row and column are read in the old matrix.
updateValueFromOld(D, k, v) ==
  LET dk0 == dbm_bound2raw(v, dbm_WEAK)
      d0k == dbm_bound2raw(-v, dbm_WEAK)
      needed(i) == \/ D[k][i] # dbm_addRawRaw(dk0, D[0][i])
                   \/ D[i][k] # dbm_addRawRaw(D[i][0], d0k)
      write(E, i) == [E EXCEPT ![k][i] = dbm_addRawRaw(dk0, D[0][i]),
                               ![i][k] = dbm_addRawRaw(D[i][0], d0k)]
  IN  Resumed(D, 0, dim - 1, needed, write)

\* At i = k the entry on the diagonal is written, from entries that were written at 0.
ptr_updateValue(D, k, v) ==
  LET dk0 == dbm_bound2raw(v, dbm_WEAK)
      d0k == dbm_bound2raw(-v, dbm_WEAK)
      dki(E, i) == dbm_addRawRaw(dk0, E[0][i])
      dik(E, i) == dbm_addRawRaw(E[i][0], d0k)
      needed(i) == D[k][i] # dki(D, i) \/ D[i][k] # dik(D, i)
      write(E, i) == [E EXCEPT ![k][i] = dki(E, i), ![i][k] = dik(E, i)]
  IN  Resumed(D, 0, dim - 1, needed, write)

ptr_updateClock(D, i, j) ==
  LET needed(k) == k # i /\ (D[i][k] # D[j][k] \/ D[k][i] # D[k][j])
      write(E, k) == IF k = i THEN E ELSE [E EXCEPT ![i][k] = E[j][k], ![k][i] = E[k][j]]
  IN  Resumed(D, 0, dim - 1, needed, write)

ptr_update(D, i, j, v) ==
  LET dik(E, k) == dbm_rawInc(E[j][k], 2 * v)
      dki(E, k) == dbm_rawDec(E[k][j], 2 * v)
      needed(k) == k # i /\ (D[i][k] # dik(D, k) \/ D[k][i] # dki(D, k))
      write(E, k) == IF k = i THEN E ELSE [E EXCEPT ![i][k] = dik(E, k), ![k][i] = dki(E, k)]
  IN  Resumed(D, 0, dim - 1, needed, write)

update(D, i, j, v) ==
  IF i = j THEN IF v = 0 THEN Kept(D) ELSE Copied(dbm_updateIncrement(D, i, v))
  ELSE IF v = 0 THEN ptr_updateClock(D, i, j) ELSE ptr_update(D, i, j, v)

\* Clocks that are equal need no swap.
ptr_swapClocks(D, x, y) ==
  IF D[x][y] = dbm_LE_ZERO /\ D[y][x] = dbm_LE_ZERO THEN Kept(D)
  ELSE Copied(dbm_swapClocks(D, x, y))

-----------------------------------------------------------------------------
(* Constraining. *)

ptr_constrain1(D, c) ==
  IF D[c.i][c.j] <= c.value THEN Kept(D)
  ELSE IF dbm_negRaw(c.value) >= D[c.j][c.i] THEN Gone
  ELSE Copied(dbm_closeij([D EXCEPT ![c.i][c.j] = c.value], c.i, c.j))

\* Both new bounds are tested against each other, before either is written.
ptr_constrainClock(D, k, value) ==
  LET newUp == RawMin(D[k][0], dbm_bound2raw(value, dbm_WEAK))
      newLo == RawMin(D[0][k], dbm_bound2raw(-value, dbm_WEAK))
      closed == dbm_close1([D EXCEPT ![k][0] = newUp, ![0][k] = newLo], 0)
  IN  IF newUp = D[k][0] /\ newLo = D[0][k] THEN Kept(D)
      ELSE IF dbm_negRaw(newUp) >= newLo \/ closed = Empty THEN Gone
      ELSE CopiedOrGone(dbm_close1(closed, k))

\* Each constraint is tested against the old matrix only; the good ones are written, and
\* whether they exclude each other is left to dbm_closex.
ptr_constrainN(D, cs) ==
  LET good == {k \in DOMAIN cs : D[cs[k].i][cs[k].j] > cs[k].value}
      one == CHOOSE k \in good : TRUE
      written[n \in 0 .. Len(cs)] ==
        IF n = 0 THEN D
        ELSE IF n \in good
             THEN [written[n - 1] EXCEPT ![cs[n].i][cs[n].j] = RawMin(@, cs[n].value)]
        ELSE written[n - 1]
  IN  IF \E k \in good : dbm_negRaw(cs[k].value) >= D[cs[k].j][cs[k].i] THEN Gone
      ELSE IF good = {} THEN Kept(D)
      ELSE IF Cardinality(good) = 1
           THEN Copied(dbm_closeij(written[Len(cs)], cs[one].i, cs[one].j))
      ELSE CopiedOrGone(dbm_closex(written[Len(cs)], UNION {{cs[k].i, cs[k].j} : k \in good}))

\* Mutant of ptr_intersection: a matrix inside the argument is copied for nothing.
intersectionCopiesSubset(D, S) ==
  CASE dbm_relation(D, S) = "superset" -> Copied(S)
    [] dbm_relation(D, S) # "superset" -> CopiedOrGone(dbm_intersection(D, S))

\* ptr_intersectionIsArg, and the copy of the argument where it says so.
ptr_intersection(D, S) ==
  CASE dbm_relation(D, S) = "different" ->
         IF ~dbm_haveIntersection(D, S) THEN Gone ELSE CopiedOrGone(dbm_intersection(D, S))
    [] dbm_relation(D, S) = "superset" -> Copied(S)
    [] dbm_relation(D, S) \in {"subset", "equal"} -> Kept(D)

-----------------------------------------------------------------------------
(* Loosening. *)

\* dbm[0,0] and the last entry of the diagonal are left out.
ptr_convexUnion(D, S) ==
  LET needed(i, j) == D[i][j] < S[i][j]
      write(E, i, j) == [E EXCEPT ![i][j] = RawMax(@, S[i][j])]
  IN  ResumedEntries(D, 1, dim * dim - 2, needed, write)

ptr_relaxAll(D) ==
  LET needed(i, j) == dbm_rawIsStrict(D[i][j]) /\ D[i][j] # dbm_LS_INFINITY
      write(E, i, j) == IF E[i][j] = dbm_LS_INFINITY THEN E
                        ELSE [E EXCEPT ![i][j] = dbm_weakRaw(@)]
  IN  ResumedEntries(D, 1, dim * dim - 2, needed, write)

\* The matrix is read where the loop has written it: the block that is shared, until the
\* first bound gets weak, and then the copy.
Relaxed(D, weakens(_, _), weaken(_, _)) ==
  LET after[n \in -1 .. dim - 1] ==
        IF n = -1 THEN D
        ELSE IF weakens(after[n - 1], n) THEN weaken(after[n - 1], n) ELSE after[n - 1]
  IN  IF \E n \in Clk : weakens(after[n - 1], n) THEN Copied(after[dim - 1]) ELSE Kept(D)

\* A strict bound gets weak if no path through another clock keeps it strict.
ptr_relaxDownClock(D, clock) ==
  LET weakens(E, i) ==
        /\ E[i][clock] < dbm_LS_INFINITY /\ dbm_rawIsStrict(E[i][clock])
        /\ \A j \in Clk \ {clock} :
             dbm_addRawRaw(E[i][j], Weakened(E)[j][clock]) >= dbm_weakRaw(E[i][clock])
      weaken(E, i) == [E EXCEPT ![i][clock] = dbm_weakRaw(@)]
  IN  Relaxed(D, weakens, weaken)

ptr_relaxUpClock(D, clock) ==
  LET weakens(E, i) ==
        /\ E[clock][i] < dbm_LS_INFINITY /\ dbm_rawIsStrict(E[clock][i])
        /\ \A j \in Clk \ {clock} :
             dbm_addRawRaw(E[j][i], Weakened(E)[clock][j]) >= dbm_weakRaw(E[clock][i])
      weaken(E, i) == [E EXCEPT ![clock][i] = dbm_weakRaw(@)]
  IN  Relaxed(D, weakens, weaken)

-----------------------------------------------------------------------------
(* Operations that only exist for dbm_t, and always write in a private block. *)

\* x_i - x_j <= 0 for all clocks but x, row by row.
axis(x) ==
  LET skipping(c, n) == IF n < c THEN n ELSE n + 1  \* the n-th clock that is not c
      row(n) == n \div (dim - 2)
      column(n) == skipping(row(n), n % (dim - 2))
      pair(n) == [i |-> skipping(x, row(n)), j |-> skipping(x, column(n)), value |-> dbm_LE_ZERO]
  IN  [n \in 1 .. (dim - 1) * (dim - 2) |-> pair(n - 1)]

\* The bounds are written and closed as dbm_constrainN does it.  Where they leave nothing
\* the matrix is marked and false returned, but the handle keeps the matrix: the caller
\* must give it up.
intersectionAxis(D, x) == dbm_constrainN(D, axis(x))

\* "<= b" becomes "< b + 1", a lower bound ">= b" becomes "> b".
driftWiden(D) ==
  [i \in Clk |-> [j \in Clk |->
     IF i # j /\ dbm_rawIsWeak(D[i][j])
     THEN IF i = 0 THEN dbm_strictRaw(D[0][j]) ELSE D[i][j] + 1
     ELSE D[i][j]]]

\* The fill stops one row early: lastRow is what the allocated memory held.
makeUnbounded(low, lastRow) ==
  [i \in Clk |-> [j \in Clk |->
     IF i = j THEN dbm_LE_ZERO
     ELSE IF i = 0 THEN IF low[j] = -dbm_INFINITY THEN dbm_LE_ZERO
                        ELSE dbm_bound2raw(-low[j], dbm_STRICT)
     ELSE IF i = dim - 1 THEN lastRow[j] ELSE dbm_LS_INFINITY]]

-----------------------------------------------------------------------------

\* What the call does to a handle with a shared block; the calls that have no path of
\* their own for it first make the block private.
Outcome ==
  CASE call.op = "dbm_up" -> ptr_up(zone)
    [] call.op = "dbm_down" -> ptr_down(zone)
    [] call.op = "dbm_freeClock" -> ptr_freeClock(zone, call.k)
    [] call.op = "dbm_freeUp" -> ptr_freeUp(zone, call.k)
    [] call.op = "dbm_freeDown" -> ptr_freeDown(zone, call.k)
    [] call.op = "dbm_freeAllUp" -> ptr_freeAllUp(zone)
    [] call.op = "dbm_freeAllDown" -> ptr_freeAllDown(zone)
    [] call.op = "dbm_updateValue" -> ptr_updateValue(zone, call.k, call.value)
    [] call.op = "dbm_update" -> update(zone, call.i, call.j, call.value)
    [] call.op = "dbm_swapClocks" -> ptr_swapClocks(zone, call.x, call.y)
    [] call.op = "dbm_constrain1" -> ptr_constrain1(zone, call.c)
    [] call.op = "dbm_constrainClock" -> ptr_constrainClock(zone, call.k, call.value)
    [] call.op = "dbm_constrainN" -> ptr_constrainN(zone, call.cs)
    [] call.op = "dbm_intersection" -> ptr_intersection(zone, call.src)
    [] call.op = "dbm_convexUnion" -> ptr_convexUnion(zone, call.src)
    [] call.op = "dbm_relaxAll" -> ptr_relaxAll(zone)
    [] call.op = "dbm_relaxDownClock" -> ptr_relaxDownClock(zone, call.k)
    [] call.op = "dbm_relaxUpClock" -> ptr_relaxUpClock(zone, call.k)
    [] OTHER -> [block |-> IF dbm = Empty THEN "none" ELSE "private", dbm |-> dbm]

IntersectionAxis ==
  \E x \in Clocks : Call([op |-> "intersectionAxis", x |-> x], intersectionAxis(zone, x))

DriftWiden == dbm_isUnbounded(zone) /\ Call([op |-> "driftWiden"], driftWiden(zone))

\* The memory is new, or that of the zone of a handle that is gone.
MakeUnbounded ==
  \E low \in [Clocks -> {v \in Times : v >= 0} \cup {-dbm_INFINITY}],
     lastRow \in {dbm_init[dim - 1], zone[dim - 1]} :
    Call([op |-> "makeUnbounded", low |-> low], makeUnbounded(low, lastRow))

HandleSpec == Init /\ [][Next \/ IntersectionAxis \/ DriftWiden]_vars

UnboundedSpec == Init /\ [][Next \/ MakeUnbounded]_vars

-----------------------------------------------------------------------------

\* A call does the same to a handle whether its block is shared or not, although one
\* path is a loop of fed_dbm.cpp and the other a function of dbm.c; and intersectionAxis,
\* which constrains pairs of clocks one by one, leaves what the intersection with the
\* matrix of the axis leaves.
SameResult ==
  LET matrix == [i \in Clk |-> [j \in Clk |->
                   IF i = call.x /\ j # call.x THEN dbm_LS_INFINITY ELSE dbm_LE_ZERO]]
  IN  /\ Outcome.dbm = dbm
      /\ Outcome.block = "none" <=> dbm = Empty
      /\ call.op = "intersectionAxis" => dbm = dbm_intersection(zone, matrix)

\* "Try to avoid changing this DBM whenever possible": a shared matrix is copied only
\* by a call that changes it, but for a swap of clocks with the same bounds.
CopiesOnlyChanges ==
  Outcome.block = "copy" /\ Outcome.dbm = zone => call.op = "dbm_swapClocks"

\* makeUnbounded: "an unbounded DBM with the lower bounds set to low (strict constraints)".
UnboundedAsLow ==
  call.op = "makeUnbounded" =>
    /\ dbm_isUnbounded(dbm)
    /\ \A k \in Clocks : call.low[k] # -dbm_INFINITY =>
         dbm[0][k] = dbm_bound2raw(-call.low[k], dbm_STRICT)

=============================================================================

------------------------------- MODULE DbmOps --------------------------------
(***************************************************************************)
(* The operations of src/dbm.c and include/dbm/dbm.h as functions from     *)
(* matrices to matrices.  Every operation but the closing ones keeps its   *)
(* result closed without running a closure, which is what makes them hard. *)
(*                                                                         *)
(* A loop that writes an entry it reads later is a recursive function; the *)
(* others read only entries that they have not written, or have written    *)
(* with the value they had, and are written as one function.  Clocks are   *)
(* positive: the other branch of CLOCKS_POSITIVE is never taken.           *)
(***************************************************************************)
EXTENDS Dbm, Sequences, FiniteSets

\* Every operation that returns false leaves a matrix of which only
\* dbm_isEmpty is ever asked; one such matrix stands for all of them.
Empty == [i \in Clk |-> [j \in Clk |-> -1]]

Entrywise(f(_, _), D, S) == [i \in Clk |-> [j \in Clk |-> f(D[i][j], S[i][j])]]

-----------------------------------------------------------------------------
(* Closing: dbm_close and its relatives as a fold of passes (DbmClose models *)
(* them step by step), and dbm_closeij for one tightened bound.              *)

CloseVia(D, touched) ==
  LET after[n \in 0 .. dim] ==
        IF n = 0 THEN D
        ELSE LET E == after[n - 1]
                 P == PassVia(E, n - 1)
             IN  IF E = Empty \/ n - 1 \notin touched THEN E
                 ELSE IF dbm_isEmpty(P) THEN Empty ELSE P
  IN  after[dim]

dbm_close(D) == CloseVia(D, Clk)
dbm_closex(D, touched) == CloseVia(D, touched)
dbm_close1(D, k) == CloseVia(D, {k})

\* Mutant of dbm_closeij: only the bounds of b are recomputed.
closeijOneRow(D, b, a) == [D EXCEPT ![b] = RowVia(D, b, a)]

\* D[b][a] was tightened.  Row b goes through a first; then a row whose bound to a
\* improves through b goes through a too.  Row a does not change.
dbm_closeij(D, b, a) ==
  IF dim <= 2 THEN D
  ELSE LET E == [D EXCEPT ![b] = RowVia(D, b, a)]
           ia(i) == dbm_addRawRaw(E[i][b], D[b][a])
       IN  [i \in Clk |->
              IF ia(i) < E[i][a]
              THEN [j \in Clk |-> RawMin(E[i][j], dbm_addRawRaw(ia(i), E[a][j]))]
              ELSE E[i]]

-----------------------------------------------------------------------------
(* Constraining. *)

\* Mutant of TooTight: off by one, so that a bound may not touch the opposite one.
tooTightByOne(D, i, j) == dbm_negRaw(D[i][j]) >= D[j][i] - 1

\* The test after every tightening: D[i][j] and D[j][i] exclude each other.
TooTight(D, i, j) == dbm_negRaw(D[i][j]) >= D[j][i]

\* D tightened by S, and the closure the code picks by the number of bounds that S
\* changed.
TightenedBy(D, S) ==
  LET E == Entrywise(RawMin, D, S)
      tight == {p \in Clk \X Clk : D[p[1]][p[2]] > S[p[1]][p[2]]}
  IN  IF \E p \in tight : TooTight(E, p[1], p[2]) THEN Empty
      ELSE IF tight = {} THEN E
      ELSE IF Cardinality(tight) = 1
           THEN LET p == CHOOSE q \in tight : TRUE IN dbm_closeij(E, p[1], p[2])
      ELSE dbm_closex(E, UNION {{p[1], p[2]} : p \in tight})

dbm_intersection(D, S) == TightenedBy(D, S)

\* dbm_intersection of the weak versions.
Weakened(D) ==
  [i \in Clk |-> [j \in Clk |->
     IF D[i][j] = dbm_LS_INFINITY THEN D[i][j] ELSE dbm_weakRaw(D[i][j])]]

dbm_relaxedIntersection(D, S) == TightenedBy(Weakened(D), Weakened(S))

dbm_constrain1(D, c) ==
  IF D[c.i][c.j] <= c.value THEN D
  ELSE LET E == [D EXCEPT ![c.i][c.j] = c.value]
       IN  IF TooTight(E, c.i, c.j) THEN Empty ELSE dbm_closeij(E, c.i, c.j)

\* Constraints that are applied before a closure: the matrix, how many bounds changed, the
\* clocks of these bounds, and the last of them.  The matrix is Empty from the constraint on
\* at which dbm_constrain returned false.
ConstrainStart(D) == [dbm |-> D, changed |-> 0, touched |-> {}, last |-> <<0, 0>>]

dbm_constrain(s, c) ==
  IF s.dbm = Empty \/ s.dbm[c.i][c.j] <= c.value THEN s
  ELSE LET E == [s.dbm EXCEPT ![c.i][c.j] = c.value]
       IN  [dbm |-> IF TooTight(E, c.i, c.j) THEN Empty ELSE E,
            changed |-> s.changed + 1,
            touched |-> s.touched \cup {c.i, c.j},
            last |-> <<c.i, c.j>>]

ConstrainAll(D, cs) ==
  LET state[n \in 0 .. Len(cs)] ==
        IF n = 0 THEN ConstrainStart(D) ELSE dbm_constrain(state[n - 1], cs[n])
  IN  state[Len(cs)]

\* "apply constraints: dbm_constrain(...); if not empty dbm_close(dbm, dim, touched)": the
\* closure is dbm_closex, also if no bound changed.
dbm_constrainThenClose(D, cs) ==
  LET end == ConstrainAll(D, cs)
  IN  IF end.dbm = Empty THEN Empty ELSE dbm_closex(end.dbm, end.touched)

\* The array cs in one call, with the closure that the number of changed bounds asks for.
dbm_constrainN(D, cs) ==
  LET end == ConstrainAll(D, cs)
  IN  IF end.dbm = Empty \/ end.changed = 0 THEN end.dbm
      ELSE IF end.changed = 1 THEN dbm_closeij(end.dbm, end.last[1], end.last[2])
      ELSE dbm_closex(end.dbm, end.touched)

\* clock == value: two passes, for the reference clock and for clock.
dbm_constrainClock(D, clock, value) ==
  LET upper == dbm_bound2raw(value, dbm_WEAK)
      lower == dbm_bound2raw(-value, dbm_WEAK)
      U == [D EXCEPT ![clock][0] = RawMin(@, upper)]
      L == [U EXCEPT ![0][clock] = RawMin(@, lower)]
  IN  IF \/ D[clock][0] > upper /\ TooTight(U, clock, 0)
         \/ U[0][clock] > lower /\ TooTight(L, 0, clock)
      THEN Empty
      ELSE IF L = D THEN D
      ELSE LET C == dbm_close1(L, 0)
           IN  IF C = Empty THEN Empty ELSE dbm_close1(C, clock)

\* Every weak lower (upper) bound becomes strict.
dbm_tightenDown(D) ==
  TightenedBy(D, [D EXCEPT ![0] = [j \in Clk |->
                    IF j = 0 THEN D[0][0] ELSE dbm_strictRaw(D[0][j])]])

dbm_tightenUp(D) ==
  TightenedBy(D, [i \in Clk |-> [j \in Clk |->
                    IF i # 0 /\ j = 0 THEN dbm_strictRaw(D[i][0]) ELSE D[i][j]]])

-----------------------------------------------------------------------------
(* Delay. *)

dbm_up(D) ==
  [i \in Clk |-> [j \in Clk |->
     IF i # 0 /\ j = 0 THEN dbm_LS_INFINITY ELSE D[i][j]]]

\* Mutant of dbm_up_stop: running clocks stay tied to the stopped ones.
upStopKeepsDiagonals(D, stopped) ==
  [i \in Clk |-> [j \in Clk |->
     IF i \notin stopped \cup {0} /\ j = 0 THEN dbm_LS_INFINITY ELSE D[i][j]]]

dbm_up_stop(D, stopped) ==
  [i \in Clk |-> [j \in Clk |->
     IF i \notin stopped \cup {0} /\ j \in stopped \cup {0}
     THEN dbm_LS_INFINITY ELSE D[i][j]]]

\* The smallest raw of a non-empty finite set.
Least(raws) == CHOOSE x \in raws : \A y \in raws : x <= y

\* Mutant of dbm_downFrom: the lower bounds that other clocks impose are lost.
downToZero(D, from) ==
  [D EXCEPT ![0] = [j \in Clk |-> IF j >= from THEN dbm_LE_ZERO ELSE D[0][j]]]

\* Lower bounds go down to 0, or as far as the other clocks let them.
dbm_downFrom(D, from) ==
  [D EXCEPT ![0] = [j \in Clk |->
     IF j >= from /\ D[0][j] < dbm_LE_ZERO
     THEN Least({dbm_LE_ZERO} \cup
                {D[i][j] : i \in {i \in Clk \ {0} : D[0][i] # dbm_LS_INFINITY}})
     ELSE D[0][j]]]

dbm_down(D) == dbm_downFrom(D, 1)

\* Clock j is tightened with the running clocks, of which those before j have been
\* tightened already; then its diagonals with the stopped clocks are recomputed.
dbm_down_stop(D, stopped) ==
  LET running == Clk \ (stopped \cup {0})
      loose(j) == IF D[0][j] < dbm_LE_ZERO THEN dbm_LE_ZERO ELSE D[0][j]
      lower[j \in running] ==
        Least({loose(j)} \cup
              {dbm_addRawRaw(IF i < j THEN lower[i] ELSE loose(i), D[i][j]) : i \in running})
  IN  [i \in Clk |-> [j \in Clk |->
         IF j \notin running THEN D[i][j]
         ELSE IF i = 0 THEN lower[j]
         ELSE IF i \in stopped /\ lower[j] # dbm_LS_INFINITY
              THEN dbm_addRawRaw(D[i][0], lower[j])
         ELSE D[i][j]]]

-----------------------------------------------------------------------------
(* Forgetting what is known of clocks. *)

dbm_freeClock(D, k) ==
  [i \in Clk |-> [j \in Clk |->
     IF i = j THEN D[i][j]
     ELSE IF i = k THEN dbm_LS_INFINITY
     ELSE IF j = k THEN D[i][0] ELSE D[i][j]]]

\* Mutant of dbm_freeUp: only the bound to the reference clock is removed.
freeUpBoundOnly(D, k) == [D EXCEPT ![k][0] = dbm_LS_INFINITY]

dbm_freeUp(D, k) ==
  [D EXCEPT ![k] = [j \in Clk |-> IF j = k THEN D[k][k] ELSE dbm_LS_INFINITY]]

dbm_freeAllUp(D) ==
  [i \in Clk |-> [j \in Clk |->
     IF i = 0 THEN D[0][j] ELSE IF i = j THEN dbm_LE_ZERO ELSE dbm_LS_INFINITY]]

dbm_freeDown(D, k) ==
  [i \in Clk |-> [j \in Clk |-> IF j = k /\ i # k THEN D[i][0] ELSE D[i][j]]]

dbm_freeAllDown(D) ==
  [i \in Clk |-> [j \in Clk |-> IF i = j THEN D[i][j] ELSE D[i][0]]]

-----------------------------------------------------------------------------
(* Updates of clocks. *)

dbm_init ==
  [i \in Clk |-> [j \in Clk |->
     IF i = 0 \/ i = j THEN dbm_LE_ZERO ELSE dbm_LS_INFINITY]]

dbm_zero == [i \in Clk |-> [j \in Clk |-> dbm_LE_ZERO]]

dbm_updateValue(D, k, value) ==
  LET upper == dbm_bound2raw(value, dbm_WEAK)
      lower == dbm_bound2raw(-value, dbm_WEAK)
  IN  [i \in Clk |-> [j \in Clk |->
         IF i = k /\ j = k THEN dbm_addRawRaw(upper, lower)
         ELSE IF i = k THEN IF j = 0 THEN upper ELSE dbm_addRawRaw(upper, D[0][j])
         ELSE IF j = k THEN IF i = 0 THEN lower ELSE dbm_addRawRaw(D[i][0], lower)
         ELSE D[i][j]]]

\* Mutant of dbm_updateClock: column i is left as it was.
updateClockRowOnly(D, i, j) == [D EXCEPT ![i] = [D[j] EXCEPT ![i] = dbm_LE_ZERO]]

dbm_updateClock(D, i, j) ==
  LET src(k) == IF k = i THEN j ELSE k
  IN  [a \in Clk |-> [b \in Clk |-> IF a = b THEN D[a][b] ELSE D[src(a)][src(b)]]]

dbm_updateIncrement(D, k, value) ==
  [i \in Clk |-> [j \in Clk |->
     IF i = j THEN D[i][j]
     ELSE IF i = k THEN dbm_rawInc(D[i][j], 2 * value)
     ELSE IF j = k THEN dbm_rawDec(D[i][j], 2 * value) ELSE D[i][j]]]

dbm_update(D, i, j, value) ==
  IF i = j THEN dbm_updateIncrement(D, i, value)
  ELSE IF value = 0 THEN dbm_updateClock(D, i, j)
  ELSE [a \in Clk |-> [b \in Clk |->
          IF a = i /\ b = i THEN dbm_LE_ZERO
          ELSE IF a = i THEN dbm_rawInc(D[j][b], 2 * value)
          ELSE IF b = i THEN dbm_rawDec(D[a][j], 2 * value) ELSE D[a][b]]]

\* Columns first, rows second.
dbm_swapClocks(D, x, y) ==
  LET other(c) == IF c = x THEN y ELSE IF c = y THEN x ELSE c
  IN  [i \in Clk |-> [j \in Clk |-> D[other(i)][other(j)]]]

-----------------------------------------------------------------------------
(* Changing the set of clocks.  Clocks outside a matrix have numbers of their own, *)
(* of which a matrix holds a set, the reference 0 included, in increasing order.   *)

NoCol == -1  \* ~0: no column of the source

\* The index that clock c of a set of active clocks has in its matrix.
Index(active, c) == Cardinality({x \in active : x < c})

\* Mutant of dbm_computeTables: the source index moves on only for clocks that stay.
colsOfCommonClocks(src, dst) ==
  [d \in 0 .. Cardinality(dst) - 1 |->
     LET c == CHOOSE c \in dst : Index(dst, c) = d
     IN  IF c \in src THEN Index(src \cap dst, c) ELSE NoCol]

\* cols: where each index of the destination comes from in the source.
dbm_computeTables(src, dst) ==
  [d \in 0 .. Cardinality(dst) - 1 |->
     LET c == CHOOSE c \in dst : Index(dst, c) = d
     IN  IF c \in src THEN Index(src, c) ELSE NoCol]

\* Clocks with a column keep their bounds; new clocks are free.
dbm_updateDBM(D, cols) ==
  [i \in DOMAIN cols |-> [j \in DOMAIN cols |->
     IF i = j THEN dbm_LE_ZERO
     ELSE IF cols[i] = NoCol THEN dbm_LS_INFINITY
     ELSE IF cols[j] # NoCol THEN D[cols[i]][cols[j]]
     ELSE IF i = 0 THEN dbm_LE_ZERO ELSE D[cols[i]][0]]]

dbm_shrinkExpand(D, src, dst) == dbm_updateDBM(D, dbm_computeTables(src, dst))

-----------------------------------------------------------------------------
(* Loosening bounds. *)

dbm_convexUnion(D, S) == Entrywise(RawMax, D, S)

dbm_relaxAll(D) == Weakened(D)

\* Mutant of dbm_relaxDownClock: the bounds of the other clocks on the relaxed one
\* are taken as strict as they were.
relaxDownFromStrict(D, clock) ==
  [i \in Clk |-> [D[i] EXCEPT ![clock] =
     IF @ = dbm_LS_INFINITY \/ dbm_rawIsWeak(@) THEN @
     ELSE Least({dbm_weakRaw(@)} \cup
                {dbm_addRawRaw(D[i][j], D[j][clock]) : j \in Clk \ {clock}})]]

\* The strict bounds on the differences to clock (from clock) become weak, except
\* one that a strict bound D[i][j] still implies.  The code stops at the first such
\* j: D is closed, so every one of them gives the bound back the value it had.
dbm_relaxDownClock(D, clock) ==
  [i \in Clk |-> [D[i] EXCEPT ![clock] =
     IF @ = dbm_LS_INFINITY \/ dbm_rawIsWeak(@) THEN @
     ELSE Least({dbm_weakRaw(@)} \cup
                {dbm_addRawRaw(D[i][j], Weakened(D)[j][clock]) : j \in Clk \ {clock}})]]

dbm_relaxUpClock(D, clock) ==
  [D EXCEPT ![clock] = [i \in Clk |->
     IF D[clock][i] = dbm_LS_INFINITY \/ dbm_rawIsWeak(D[clock][i]) THEN D[clock][i]
     ELSE Least({dbm_weakRaw(D[clock][i])} \cup
                {dbm_addRawRaw(D[j][i], Weakened(D)[clock][j]) : j \in Clk \ {clock}})]]

-----------------------------------------------------------------------------
(* Tests. *)

dbm_hasZero(D) == \A i \in Clk \ {0} : D[0][i] >= dbm_LE_ZERO

dbm_isEqualToInit(D) == D = dbm_init

dbm_isEqualToZero(D) == D = dbm_zero

\* The first row is not looked at, except for its diagonal entry.
dbm_isFreedAllUp(D) ==
  D[0][0] = dbm_LE_ZERO /\ \A i \in Clk \ {0} : D[i] = dbm_init[i]

dbm_testFreeAllDown(D) ==
  \A i \in Clk, j \in Clk \ {0} : i # j => D[i][j] = D[i][0]

dbm_isUnbounded(D) == \A i \in Clk \ {0} : D[i][0] = dbm_LS_INFINITY

dbm_isSubsetEq(D, S) == \A i, j \in Clk : D[i][j] <= S[i][j]

dbm_relation(D, S) ==
  IF D = S THEN "equal"
  ELSE IF dbm_isSubsetEq(S, D) THEN "superset"
  ELSE IF dbm_isSubsetEq(D, S) THEN "subset" ELSE "different"

\* Mutant of dbm_haveIntersection: bounds of the same direction are compared.
haveIntersectionAnyOrder(D, S) ==
  \A i, j \in Clk : i # j => dbm_negRaw(D[i][j]) < S[i][j]

\* An upper bound of one zone against the lower bound of the other.
dbm_haveIntersection(D, S) ==
  \A i \in Clk \ {0} : \A j \in 0 .. i - 1 :
    /\ D[i][j] # dbm_LS_INFINITY => dbm_negRaw(D[i][j]) < S[j][i]
    /\ S[i][j] # dbm_LS_INFINITY => dbm_negRaw(S[i][j]) < D[j][i]

dbm_satisfies(D, c) == ~(D[c.i][c.j] > c.value /\ dbm_negRaw(c.value) >= D[c.j][c.i])

=============================================================================

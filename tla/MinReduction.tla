---------------------------- MODULE MinReduction ----------------------------
(***************************************************************************)
(* The minimal graph of a closed matrix (src/mingraph_write.c): a smallest *)
(* set of its bounds from which a closure computes the others.  A bit      *)
(* matrix of the code is the set of the pairs of clocks whose bit is set.  *)
(***************************************************************************)
EXTENDS DbmOps

Pairs == {p \in Clk \X Clk : p[1] # p[2]}

\* x_i - x_j is a constant.  The test is on bounds: D is closed and not empty, so two
\* that add up to zero are both weak.
SameClass(D, i, j) == dbm_raw2bound(D[i][j]) = -dbm_raw2bound(D[j][i])

\* first .. end: the smallest clock of each class.
Representatives(D) == {i \in Clk : \A j \in 0 .. i - 1 : ~SameClass(D, i, j)}

\* next: a class in increasing order, of which p is the first.
After(D, p, i) == {j \in Clk : j > i /\ SameClass(D, p, j)}

\* D[i][j] is no tighter than the path from i to j through r.
ImpliedVia(D, i, r, j) ==
  /\ D[i][r] < dbm_LS_INFINITY /\ D[r][j] < dbm_LS_INFINITY
  /\ D[i][j] >= dbm_addFiniteFinite(D[i][r], D[r][j])

\* Mutant of ConciseEdges: a bound that equals a path is kept.
conciseIfEqual(D) ==
  LET reps == Representatives(D)
  IN  {e \in reps \X reps :
         /\ e[1] # e[2] /\ D[e[1]][e[2]] < dbm_LS_INFINITY
         /\ \A r \in reps \ {e[1], e[2]} :
              ~(ImpliedVia(D, e[1], r, e[2])
                  /\ D[e[1]][e[2]] > dbm_addFiniteFinite(D[e[1]][r], D[r][e[2]]))}

\* Between the classes: the bounds that no path through a third class implies.
ConciseEdges(D) ==
  LET reps == Representatives(D)
  IN  {e \in reps \X reps :
         /\ e[1] # e[2] /\ D[e[1]][e[2]] < dbm_LS_INFINITY
         /\ \A r \in reps \ {e[1], e[2]} : ~ImpliedVia(D, e[1], r, e[2])}

\* Within a class: one cycle, first -> next -> ... -> last -> first.
ZeroCycles(D) ==
  {e \in Pairs : \E p \in Representatives(D) :
     /\ SameClass(D, p, e[1]) /\ SameClass(D, p, e[2])
     /\ IF After(D, p, e[1]) = {} THEN e[2] = p ELSE e[2] = Least(After(D, p, e[1]))}

dbm_analyzeForMinDBM(D) ==
  CASE dim = 1 -> {}
    [] dim = 2 -> {p \in Pairs : p = <<1, 0>> => D[1][0] # dbm_LS_INFINITY}
    [] dim > 2 -> ConciseEdges(D) \cup ZeroCycles(D)

\* The bounds that only say that a clock is positive.
dbm_cleanBitMatrix(D, bits) ==
  {p \in bits : ~(p[1] = 0 /\ D[0][p[2]] >= dbm_LE_ZERO)}

=============================================================================

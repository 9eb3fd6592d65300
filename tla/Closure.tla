------------------------------- MODULE Closure -------------------------------
(***************************************************************************)
(* What the closure functions of src/dbm.c promise, without an algorithm:  *)
(* one step turns the matrix of a call into the tightest matrix with the   *)
(* same solutions, the weights of its shortest paths, or reports that it   *)
(* has a negative cycle.  Only a matrix with a constant so large that a    *)
(* path of dim - 1 edges leaves the valid raws may end in "overflow".      *)
(***************************************************************************)
EXTENDS Dbm, Sequences

CONSTANT Inputs  \* the matrices the functions are called with

VARIABLES dbm, ret

vars == <<dbm, ret>>

\* Paths[i][j]: from i to j over distinct clocks; i = j gives the simple cycles.
Paths ==
  LET Walks == UNION {[1 .. n -> Clk] : n \in 2 .. dim + 1}
      Simple(p) == \A m, n \in 1 .. Len(p) :
                     m < n /\ p[m] = p[n] => m = 1 /\ n = Len(p)
  IN  [i \in Clk |-> [j \in Clk |->
         {p \in Walks : Simple(p) /\ p[1] = i /\ p[Len(p)] = j}]]

Weight(D, p) ==
  LET upTo[n \in 1 .. Len(p)] ==
        IF n = 1 THEN dbm_LE_ZERO
        ELSE dbm_addRawRaw(upTo[n - 1], D[p[n - 1]][p[n]])
  IN  upTo[Len(p)]

HasNegativeCycle(D) ==
  \E i \in Clk : \E p \in Paths[i][i] : Weight(D, p) < dbm_LE_ZERO

\* The tightest bound on x_i - x_j that every solution of D satisfies.
ShortestPath(D, i, j) ==
  LET weights == {Weight(D, p) : p \in Paths[i][j]}
  IN  CHOOSE w \in weights : \A x \in weights : w <= x

Tightest(D) ==
  WithZeroDiagonal([i \in Clk |-> [j \in Clk |-> ShortestPath(D, i, j)]])

HasLargeConstant(D) ==
  \E i, j \in Clk : /\ D[i][j] # dbm_LS_INFINITY
                    /\ \/ D[i][j] >= dbm_LE_OVERFLOW \div dim
                       \/ -D[i][j] >= dbm_LE_OVERFLOW \div dim

Init == dbm \in Inputs /\ ret = "running"

Close ==
  /\ ret = "running" /\ ~HasNegativeCycle(dbm)
  /\ ret' = "closed" /\ dbm' = Tightest(dbm)

ReportEmpty ==
  /\ ret = "running" /\ HasNegativeCycle(dbm)
  /\ ret' = "empty"

Overflow ==
  /\ ret = "running" /\ HasLargeConstant(dbm)
  /\ ret' = "overflow"

Next == Close \/ ReportEmpty \/ Overflow

Spec == Init /\ [][Next]_vars

=============================================================================

------------------------------- MODULE MCZones -------------------------------
(* Instances of Zones and SharedWrites for TLC. *)
EXTENDS SharedWrites

\* "< -1" to "<= 1": every bound with a constant of at most 1.
MCRaws == -2 .. 3

\* Every bound "<= -1" and "< 1", so that a pair can be given twice, or contradict.
MCPairs == {c \in [i : Clk, j : Clk, value : {-1, 2}] : c.i # c.j}

MCTimes == {-1, 0, 1}

\* The zones with lower bounds "> 0" or ">= 1", upper bounds "<= 1" and differences
\* "< 0", each of them or none.
MCOthers ==
  LET Entries(i, j) == IF i = j THEN {1} ELSE IF i = 0 THEN {-1, 0, 1}
                       ELSE IF j = 0 THEN {3, dbm_LS_INFINITY} ELSE {0, dbm_LS_INFINITY}
  IN  {D \in [Clk -> [Clk -> {-1, 0, 1, 3, dbm_LS_INFINITY}]] :
         (\A i, j \in Clk : D[i][j] \in Entries(i, j)) /\ dbm_isValid(D)}

=============================================================================

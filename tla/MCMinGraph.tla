----------------------------- MODULE MCMinGraph -----------------------------
(* Instances of MinGraph for TLC. *)
EXTENDS MinGraph, TLC

ClosedOver(lower, upper, diff) ==
  LET Matrix3(l, u, d) == (0 :> (0 :> 1 @@ 1 :> l[1] @@ 2 :> l[2]))
                       @@ (1 :> (0 :> u[1] @@ 1 :> 1 @@ 2 :> d[1]))
                       @@ (2 :> (0 :> u[2] @@ 1 :> d[2] @@ 2 :> 1))
  IN  {D \in {Matrix3(l, u, d) : l \in lower \X lower, u \in upper \X upper, d \in diff \X diff} :
         dbm_isValid(D)}

\* Lower bounds "x >= 0" to "x >= 1", upper bounds "x <= 0" to "x <= 1" and one that
\* 16 bits do not hold, and the differences between them.
MCZones == ClosedOver({-1, 0, 1}, {1, 2, 3, 40001, dbm_LS_INFINITY},
                      {-1, 0, 1, 2, 3, 40001, dbm_LS_INFINITY})

MCOthers == ClosedOver({-1, 1}, {1, 3, dbm_LS_INFINITY}, {0, 1, dbm_LS_INFINITY})

\* 26 clocks: "x > 0", "x < 75", and "x - y <= 49" for 20 of the clocks:
\* 530 bounds that no others imply, which a bit matrix stores in the fewest integers.
MCManyBounds ==
  {[i \in Clk |-> [j \in Clk |->
      IF i = j THEN 1 ELSE IF i = 0 THEN 0 ELSE IF j = 0 THEN 150
      ELSE IF i <= 20 THEN 99 ELSE 150]]}

=============================================================================

-------------------------- MODULE MCExtrapolation ---------------------------
(* Instances of Extrapolation for TLC. *)
EXTENDS Extrapolation

\* "< -2", "<= -1", "< 1" and "<= 2".
MCRaws == {-4, -1, 2, 5}

Tables == {t \in [Clk -> {-dbm_INFINITY, 0, 1}] : t[0] = 0}

\* Every table as "max"; for lower and upper, an upper table of 1 or of no bound.
MCBounds ==
  {b \in [lower : Tables, upper : Tables] :
     b.lower = b.upper \/ \A k \in Clk \ {0} : b.upper[k] # 0}

=============================================================================

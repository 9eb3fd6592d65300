----------------------------- MODULE MCDbmClose ------------------------------
(* Instances of DbmClose for TLC. *)
EXTENDS DbmClose

\* "<= -1", "< 0", "<= 1" and no bound: negative cycles, zero cycles that a
\* strict bound empties, and paths through every clock.
MCValues == {-1, 0, 3, dbm_LS_INFINITY}

\* With Grid = 3 the three clocks can have distinct fractional parts, which a
\* chain of strict bounds needs; differences reach 4/3.
MCPoints == {pt \in [Clk -> 0 .. 4] : \E c \in Clk : pt[c] = 0}

\* The smallest raws, strict and weak, and the largest that may be added:
\* their sums reach the ends of raw_t.
MCValuesLarge ==
  {1 - dbm_LE_OVERFLOW, 2 - dbm_LE_OVERFLOW, -1,
   dbm_LE_OVERFLOW - 1, dbm_LS_INFINITY}

\* Points around the largest constants.
MCPointsLarge ==
  {pt \in [Clk -> {0, 1, dbm_OVERFLOW - 1, dbm_OVERFLOW}] : pt[0] = 0}

=============================================================================

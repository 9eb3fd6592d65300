---------------------------- MODULE MCDbmSharing -----------------------------
(* Instances of DbmSharing for TLC. *)
EXTENDS DbmSharing, TLC

\* Handles are alike, but for dbm1x1.
Symmetry == Permutations(Handle)

=============================================================================

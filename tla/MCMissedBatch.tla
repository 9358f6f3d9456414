--------------------------- MODULE MCMissedBatch ---------------------------
(* Rows of two kinds tell a reordering from the order of acceptance. *)
EXTENDS MissedBatch
CONSTANTS a1, a2
TwoAlerts == {a1, a2}
=============================================================================

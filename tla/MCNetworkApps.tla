--------------------------- MODULE MCNetworkApps ----------------------------
(* An instance of NetworkApps for TLC. *)
EXTENDS NetworkApps

CONSTANTS j1, j2, j3
ThreeJoins == {j1, j2, j3}
=============================================================================

--------------------------- MODULE MCJoinProtocol ---------------------------
(* Instances of JoinProtocol for TLC. *)
EXTENDS JoinProtocol

CONSTANTS h1, h2, h3
ThreeHandlers == {h1, h2, h3}
=============================================================================

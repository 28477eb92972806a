----------------------------- MODULE MCRegistry -----------------------------
(* Instances of Registry for TLC. *)
EXTENDS Registry, TLC

CONSTANTS u1, u2, u3, u4, u5, w1, w2

FourIDs == {u1, u2, u3, u4}
FiveIDs == {u1, u2, u3, u4, u5}
OneWorker == {w1}
TwoWorkers == {w1, w2}

(* The pool's subnets have two addresses each.  An operator may force the   *)
(* first one, in its own spelling or in another one that is not compared    *)
(* equal, or half of the second.                                            *)
PoolAndSpelling == {1, 9}
EveryForm == {1, 8, 9}
CoversTwoEach ==
    [s \in 1 .. 9 |-> CASE s = 9 -> {1, 2} [] s = 8 -> {3} [] OTHER -> {2 * s - 1, 2 * s}]

(* Identifiers and workers are interchangeable. *)
IDSymmetry == Permutations(UUID) \cup Permutations(Workers)
=============================================================================

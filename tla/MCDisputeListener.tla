------------------------- MODULE MCDisputeListener -------------------------
(* Two arbitrators, both needed, and two polls, of one process or of two. *)
EXTENDS DisputeListener, TLC

CONSTANTS p1, p2, A, B
MCOwners == {[p \in Polls |-> A], [p \in Polls |-> IF p = p1 THEN A ELSE B]}
Symmetry == Permutations(PoolMembers)
=============================================================================

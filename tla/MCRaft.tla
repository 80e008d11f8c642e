------------------------------- MODULE MCRaft -------------------------------
(* Raft from empty disks, for TLC. *)
EXTENDS RaftRefinement, TLC

\* The model tells nodes apart only by equality.
Symmetry == Permutations(Node)

=============================================================================

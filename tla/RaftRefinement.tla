---------------------------- MODULE RaftRefinement ----------------------------
(* The cluster of Raft as an implementation of ReplicatedLog. *)
EXTENDS RaftLogInvariant

\* The entries node i has committed.
Committed(i) == SubSeq(log[i], 1, commitIndex[i])

RL == INSTANCE ReplicatedLog WITH known <- [i \in Node |-> Committed(i)]

\* Leaders only ever extend the one committed log, and what a node hands to its
\* applier is a prefix of it that grows until the process dies (advanceCommit,
\* the commit step of onAppendEntries, the constructor).
ImplementsReplicatedLog == RL!Spec

=============================================================================

---------------------------- MODULE MCRaftDisks ----------------------------
(***************************************************************************)
(* The cluster of Raft started not from empty disks but from what earlier  *)
(* terms left on them, every process having been restarted: logs that      *)
(* diverge take more elections to build than TLC can afford to explore.    *)
(***************************************************************************)
EXTENDS RaftRefinement

CONSTANTS
  A, B, C,  \* the three nodes
  Disks     \* the names of the disk contents to start from

ASSUME DisksAssumption == Node = {A, B, C} /\ Cardinality(Node) = 3

OfNodes(a, b, c) == [i \in Node |-> CASE i = A -> a [] i = B -> b [] i = C -> c]
N(t) == [term |-> t, command |-> NoOp]
X(t) == [term |-> t, command |-> CHOOSE c \in Command : TRUE]

\* A won a term with the vote of C, then B won the next with the vote of C.
\*   "forked": each of A and B kept its no-op and a command to itself.
\*   "overruled": A kept its no-op and a command to itself; B replicated its
\*     no-op to C and committed it, then took a command.
\*   "suffix": A replicated its no-op to all and committed it, then took a
\*     command that it alone holds; B kept its own no-op to itself.
\* MaxTerm leaves two more elections after "forked" and one after the others, and
\* there are faults only after "overruled".
Logs(disk) ==
  CASE disk = "forked" -> OfNodes(<<N(1), X(1)>>, <<N(2), X(2)>>, <<>>)
    [] disk = "overruled" -> OfNodes(<<N(2), X(2)>>, <<N(3), X(3)>>, <<N(3)>>)
    [] disk = "suffix" -> OfNodes(<<N(2), X(2)>>, <<N(2), N(3)>>, <<N(2)>>)

CommittedBefore(disk) ==
  CASE disk = "forked" -> <<>>
    [] disk = "overruled" -> <<N(3)>>
    [] disk = "suffix" -> <<N(2)>>

InitFromDisks == \E disk \in Disks :
  LET t == IF disk = "forked" THEN 1 ELSE 2
  IN  /\ log = Logs(disk)
      /\ committed = CommittedBefore(disk)
      /\ faults = IF disk = "overruled" THEN 0 ELSE MaxFaults
      /\ currentTerm = OfNodes(t, t + 1, t + 1)
      /\ votedFor = OfNodes(A, B, B)
      /\ role = [i \in Node |-> "follower"]
      /\ commitIndex = [i \in Node |-> 0]
      /\ leaderHint = [i \in Node |-> None]
      /\ votesReceived = [i \in Node |-> 0]
      /\ nextIndex = [i \in Node |-> [p \in Node |-> 1]]
      /\ matchIndex = [i \in Node |-> [p \in Node |-> 0]]
      /\ voteReq = {} /\ voteRep = {} /\ appReq = {} /\ appRep = {}
      /\ votes = {[voter |-> A, term |-> t, candidate |-> A],
                  [voter |-> C, term |-> t, candidate |-> A],
                  [voter |-> B, term |-> t + 1, candidate |-> B],
                  [voter |-> C, term |-> t + 1, candidate |-> B]}
      /\ elected = {[term |-> t, node |-> A], [term |-> t + 1, node |-> B]}

SpecFromDisks == InitFromDisks /\ [][Next]_vars
FairSpecFromDisks == SpecFromDisks /\ Fairness

=============================================================================

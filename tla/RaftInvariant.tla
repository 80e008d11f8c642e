---------------------------- MODULE RaftInvariant ----------------------------
(***************************************************************************)
(* The inductive invariant behind ElectionSafety, ElectedByMajority,       *)
(* LeaderHintTruthful, IndexesInLog and TypeOK.                            *)
(***************************************************************************)
EXTENDS Raft

\* No node has a call out for a term it has not reached.
CallsWithinTerm ==
  /\ \A m \in voteReq : m.term <= currentTerm[m.from]
  /\ \A r \in voteRep : r.term <= currentTerm[r.from]

\* The vote sender of (i, j) for term t still waits for its answer.
VotePending(i, j, t) ==
  \/ \E m \in voteReq : m.live /\ m.from = i /\ m.to = j /\ m.term = t
  \/ \E r \in voteRep : r.from = i /\ r.to = j /\ r.term = t

\* A, B: calls or replies of one vote sender.
SameCall(a, b) == a.from = b.from /\ a.to = b.to /\ a.term = b.term

\* A vote sender makes one call, which ends in one reply.
OneReplyPerCall ==
  /\ \A r, s \in voteRep : SameCall(r, s) => r = s
  /\ \A m \in voteReq, r \in voteRep : ~(m.live /\ SameCall(m, r))
  /\ \A m, n \in voteReq : (m.live /\ n.live /\ SameCall(m, n)) => m = n

\* The meta file remembers the one vote of the current term.
VotesRemembered ==
  /\ \A v \in votes :
       /\ v.term <= currentTerm[v.voter]
       /\ v.term = currentTerm[v.voter] => votedFor[v.voter] = v.candidate
  /\ \A v, w \in votes :
       (v.voter = w.voter /\ v.term = w.term) => v.candidate = w.candidate
  /\ \A r \in voteRep :
       r.granted => [voter |-> r.to, term |-> r.term, candidate |-> r.from] \in votes

\* The nodes whose votes candidate i can have counted: their votes are cast and
\* no vote sender is still waiting for them.
Countable(i) ==
  {j \in Voters(currentTerm[i], i) : ~VotePending(i, j, currentTerm[i])}

\* Each vote is counted at most once.
VotesCountedOnce ==
  \A i \in Node :
    role[i] = "candidate" => votesReceived[i] <= Cardinality(Countable(i))

\* An election is won with the votes of a majority.
WonByMajority ==
  \A e \in elected : /\ e.term <= currentTerm[e.node]
                     /\ Cardinality(Voters(e.term, e.node)) >= Majority

\* Leaders, their calls, and the nodes that know of them, against the history.
LeadersElected ==
  /\ \A i \in Node :
       LET win == [term |-> currentTerm[i], node |-> i]
       IN  /\ role[i] = "leader" => win \in elected
           /\ role[i] = "candidate" => win \notin elected
  /\ \A m \in appReq : [term |-> m.term, node |-> m.from] \in elected
  /\ \A r \in appRep : [term |-> r.term, node |-> r.from] \in elected
  /\ LeaderHintTruthful

\* What a leader has sent for its term is within its log, and an empty prefix
\* has the term of the sentinel.
CallsInLog ==
  /\ \A m \in appReq :
       /\ (role[m.from] = "leader" /\ currentTerm[m.from] = m.term)
            => m.prevLogIndex + Len(m.entries) <= Len(log[m.from])
       /\ m.prevLogIndex = 0 => m.prevLogTerm = 0
  /\ \A r \in appRep :
       (role[r.from] = "leader" /\ currentTerm[r.from] = r.term)
         => r.match <= Len(log[r.from])

\* The inductive invariant of elections.
ElectionInv ==
  /\ TypeOK
  /\ CallsWithinTerm
  /\ OneReplyPerCall
  /\ VotesRemembered
  /\ VotesCountedOnce
  /\ WonByMajority
  /\ LeadersElected
  /\ IndexesInLog
  /\ CallsInLog

=============================================================================

------------------------- MODULE RaftElectionProofs -------------------------
(***************************************************************************)
(* Every step of Raft keeps the parts of the inductive invariant that are  *)
(* about terms, votes, leaders and their indices, and the replicators make *)
(* one call at a time.                                                     *)
(***************************************************************************)
EXTENDS RaftStepProofs

USE DEF persistent, leaderVars, voteCalls, appCalls, history

-----------------------------------------------------------------------------
(* Each conjunct of the invariant that is about elections.                 *)

\* The reply to a vote request: of the same call, and granted only with the vote
\* on record.
LEMMA NewReply ==
  ASSUME NEW m, OnRequestVote(m), NEW r \in voteRep', r \notin voteRep
  PROVE  /\ m.live
         /\ SameCall(r, m)
         /\ r.granted => votes' = votes \cup {[voter |-> m.to, term |-> m.term,
                                              candidate |-> m.from]}
<1> DEFINE granted == m.term >= currentTerm[m.to] /\ GrantsVote(m.to, m)
<1>1. voteRep' = voteRep \cup VoteReplyTo(m, currentTerm'[m.to], granted)
  BY Zenon DEF OnRequestVote
<1>2. granted => votes' = votes \cup {[voter |-> m.to, term |-> m.term,
                                      candidate |-> m.from]}
  BY Zenon DEF OnRequestVote
<1> HIDE DEF granted
<1>3. /\ m.live
      /\ r = [from |-> m.from, to |-> m.to, term |-> m.term,
              rterm |-> currentTerm'[m.to], granted |-> granted]
  BY Zenon, <1>1 DEF VoteReplyTo
<1> QED BY Zenon, <1>2, <1>3 DEF SameCall

\* No step leaves a vote call of a term its caller has not reached.
LEMMA CallsWithinTermStep ==
  ASSUME TypeOK, TypeOK', [Next]_vars, CallsWithinTerm
  PROVE  CallsWithinTerm'
<1>1. ASSUME CallsDropped PROVE CallsWithinTerm'
  <2>1. ASSUME NEW m \in voteReq' PROVE m.term <= currentTerm'[m.from]
    <3>1. PICK n \in voteReq : SameCall(m, n)
      BY Zenon, <1>1 DEF CallsDropped
    <3>2. m.from = n.from /\ m.term = n.term
      BY Zenon, <3>1 DEF SameCall
    <3>3. n.from \in Node /\ n.term \in Nat /\ n.term <= currentTerm[n.from]
      BY Zenon, FieldTypes DEF CallsWithinTerm
    <3> QED BY <3>2, <3>3, TermTypes
  <2>2. ASSUME NEW r \in voteRep' PROVE r.term <= currentTerm'[r.from]
    <3>1. r \in voteRep
      BY Zenon, <1>1 DEF CallsDropped
    <3>2. r.from \in Node /\ r.term \in Nat /\ r.term <= currentTerm[r.from]
      BY Zenon, <3>1, FieldTypes DEF CallsWithinTerm
    <3> QED BY <3>2, TermTypes
  <2> QED BY Zenon, <2>1, <2>2 DEF CallsWithinTerm
<1>2. ASSUME NEW i \in Node, StartElection(i) PROVE CallsWithinTerm'
  <2>1. currentTerm' = [currentTerm EXCEPT ![i] = currentTerm[i] + 1]
    BY Zenon, <1>2 DEF StartElection
  <2>2. currentTerm'[i] = currentTerm[i] + 1
    BY Zenon, <2>1 DEF TypeOK
  <2>3. ASSUME NEW m \in voteReq' PROVE m.term <= currentTerm'[m.from]
    <3>1. CASE m \in voteReq
      <4>1. m.from \in Node /\ m.term \in Nat /\ m.term <= currentTerm[m.from]
        BY Zenon, <3>1, FieldTypes DEF CallsWithinTerm
      <4> QED BY <4>1, TermTypes
    <3>2. CASE m \notin voteReq
      <4>1. m.from = i /\ m.term = currentTerm[i] + 1
        BY <1>2, <3>2, NewCalls DEF VoteRequestTo
      <4> QED BY <2>2, <4>1, TermTypes
    <3> QED BY Zenon, <3>1, <3>2
  <2>4. ASSUME NEW r \in voteRep' PROVE r.term <= currentTerm'[r.from]
    <3>1. r \in voteRep
      BY Zenon, <1>2 DEF StartElection
    <3>2. r.from \in Node /\ r.term \in Nat /\ r.term <= currentTerm[r.from]
      BY Zenon, <3>1, FieldTypes DEF CallsWithinTerm
    <3> QED BY <3>2, TermTypes
  <2> QED BY Zenon, <2>3, <2>4 DEF CallsWithinTerm
<1>3. ASSUME NEW i \in Node, CrashInElection(i) PROVE CallsWithinTerm'
  BY Zenon, <1>1, <1>3, RebootDrops DEF CrashInElection
<1>4. ASSUME NEW m \in voteReq, OnRequestVote(m) PROVE CallsWithinTerm'
  <2>0. m.from \in Node /\ m.term \in Nat /\ m.term <= currentTerm[m.from]
    BY Zenon, FieldTypes DEF CallsWithinTerm
  <2>1. ASSUME NEW n \in voteReq' PROVE n.term <= currentTerm'[n.from]
    <3>1. n \in voteReq
      BY Zenon, <1>4 DEF OnRequestVote
    <3>2. n.from \in Node /\ n.term \in Nat /\ n.term <= currentTerm[n.from]
      BY Zenon, <3>1, FieldTypes DEF CallsWithinTerm
    <3> QED BY <3>2, TermTypes
  <2>2. ASSUME NEW r \in voteRep' PROVE r.term <= currentTerm'[r.from]
    <3>1. r \in voteRep \/ (r.from = m.from /\ r.term = m.term)
      <4>1. r \notin voteRep => SameCall(r, m)
        BY Zenon, <1>4, NewReply
      <4> QED BY Zenon, <4>1 DEF SameCall
    <3>2. CASE r \in voteRep
      <4>1. r.from \in Node /\ r.term \in Nat /\ r.term <= currentTerm[r.from]
        BY Zenon, <3>2, FieldTypes DEF CallsWithinTerm
      <4> QED BY <4>1, TermTypes
    <3>3. CASE r.from = m.from /\ r.term = m.term
      BY <2>0, <3>3, TermTypes
    <3> QED BY Zenon, <3>1, <3>2, <3>3
  <2> QED BY Zenon, <2>1, <2>2 DEF CallsWithinTerm
<1>5. ASSUME NEW r \in voteRep, OnVoteReply(r) PROVE CallsWithinTerm'
  <2>1. CallsDropped
    BY Zenon, <1>5 DEF OnVoteReply, CallsDropped, SameCall, SameEnd
  <2> QED BY Zenon, <1>1, <2>1
<1> QED BY Zenon, <1>1, <1>2, <1>3, <1>4, <1>5, ElectionSteps

\* No step leaves two replies to one vote call, or a call next to its reply.
LEMMA OneReplyPerCallStep ==
  ASSUME TypeOK, [Next]_vars, CallsWithinTerm, OneReplyPerCall
  PROVE  OneReplyPerCall'
<1>1. ASSUME CallsDropped PROVE OneReplyPerCall'
  BY Zenon, <1>1 DEF CallsDropped, OneReplyPerCall
<1>2. ASSUME NEW i \in Node, StartElection(i) PROVE OneReplyPerCall'
  <2>1. voteRep' = voteRep
    BY Zenon, <1>2 DEF StartElection
  <2>2. ASSUME NEW m \in voteReq', m \notin voteReq
        PROVE  /\ m.from = i /\ m.term = currentTerm[i] + 1
               /\ m = VoteRequestTo(i, m.to, currentTerm[i] + 1)
    BY <1>2, <2>2, NewCalls DEF VoteRequestTo
  <2>3. currentTerm[i] \in Nat
    BY Zenon DEF TypeOK
  <2>4. ASSUME NEW m \in voteReq', m \notin voteReq,
               NEW n \in voteReq \cup voteRep
        PROVE  ~SameCall(m, n) /\ ~SameCall(n, m)
    <3>1. n.from \in Node /\ n.term \in Nat /\ n.term <= currentTerm[n.from]
      BY Zenon, FieldTypes DEF CallsWithinTerm
    <3>2. m.from = i /\ m.term = currentTerm[i] + 1
      BY Zenon, <2>2, <2>4
    <3>3. n.from = i => n.term # currentTerm[i] + 1
      BY <2>3, <3>1
    <3> QED BY Zenon, <3>2, <3>3 DEF SameCall
  <2>5. ASSUME NEW m \in voteReq', NEW r \in voteRep'
        PROVE  ~(m.live /\ SameCall(m, r))
    BY Zenon, <2>1, <2>4 DEF OneReplyPerCall
  <2>6. ASSUME NEW m \in voteReq', NEW n \in voteReq',
               m.live, n.live, SameCall(m, n)
        PROVE  m = n
    <3>1. CASE m \in voteReq /\ n \in voteReq
      BY Zenon, <2>6, <3>1 DEF OneReplyPerCall
    <3>2. CASE m \notin voteReq /\ n \notin voteReq
      BY <2>2, <2>6, <3>2 DEF SameCall
    <3> QED BY Zenon, <2>4, <2>6, <3>1, <3>2
  <2> QED BY Zenon, <2>1, <2>5, <2>6 DEF OneReplyPerCall
<1>3. ASSUME NEW i \in Node, CrashInElection(i) PROVE OneReplyPerCall'
  BY Zenon, <1>1, <1>3, RebootDrops DEF CrashInElection
<1>4. ASSUME NEW m \in voteReq, OnRequestVote(m) PROVE OneReplyPerCall'
  <2>1. voteReq' = voteReq \ {m}
    BY Zenon, <1>4 DEF OnRequestVote
  <2>2. ASSUME NEW r \in voteRep', NEW s \in voteRep', SameCall(r, s)
        PROVE  r = s
    <3>1. CASE r \in voteRep /\ s \in voteRep
      BY Zenon, <2>2, <3>1 DEF OneReplyPerCall
    <3>2. CASE r \notin voteRep /\ s \in voteRep
      BY <1>4, <2>2, <3>2, NewReply DEF OneReplyPerCall, SameCall
    <3>3. CASE r \in voteRep /\ s \notin voteRep
      BY SMTT(20), <1>4, <2>2, <3>3, NewReply DEF OneReplyPerCall, SameCall
    <3>4. CASE r \notin voteRep /\ s \notin voteRep
      BY Zenon, <1>4, <3>4 DEF OnRequestVote, VoteReplyTo
    <3> QED BY Zenon, <3>1, <3>2, <3>3, <3>4
  <2>3. ASSUME NEW n \in voteReq', NEW r \in voteRep'
        PROVE  ~(n.live /\ SameCall(n, r))
    BY Zenon, <1>4, <2>1, NewReply DEF OneReplyPerCall, SameCall
  <2> QED BY Zenon, <2>1, <2>2, <2>3 DEF OneReplyPerCall
<1>5. ASSUME NEW r \in voteRep, OnVoteReply(r) PROVE OneReplyPerCall'
  <2>1. CallsDropped
    BY Zenon, <1>5 DEF OnVoteReply, CallsDropped, SameCall, SameEnd
  <2> QED BY Zenon, <1>1, <2>1
<1> QED BY ZenonT(40), <1>1, <1>2, <1>3, <1>4, <1>5, ElectionSteps

\* Every step keeps the votes a node gave in what it has persisted.
LEMMA VotesRememberedStep ==
  ASSUME TypeOK, TypeOK', [Next]_vars, VotesRemembered
  PROVE  VotesRemembered'
<1>0. /\ currentTerm \in [Node -> Nat]
      /\ votedFor \in [Node -> Node \cup {None}]
      /\ \A v \in votes : v.voter \in Node /\ v.term \in Nat /\ v.candidate \in Node
  BY ZenonT(40) DEF TypeOK
<1>1. ASSUME CallsDropped, UNCHANGED <<currentTerm, votedFor, votes>>
      PROVE  VotesRemembered'
  BY Zenon, <1>1 DEF CallsDropped, VotesRemembered
<1>2. ASSUME CallsDropped, NEW i \in Node, NEW t \in Nat, StepsDown(i, t)
      PROVE  VotesRemembered'
  <2>1. ASSUME NEW v \in votes
        PROVE  /\ v.term <= currentTerm'[v.voter]
               /\ v.term = currentTerm'[v.voter] => votedFor'[v.voter] = v.candidate
    BY <1>0, <1>2 DEF StepsDown, VotesRemembered
  <2>2. votes' = votes /\ voteRep' \subseteq voteRep
    BY Zenon, <1>2 DEF StepsDown, CallsDropped
  <2> QED BY Zenon, <2>1, <2>2 DEF VotesRemembered
<1>3. ASSUME NEW i \in Node, voteRep' \subseteq voteRep,
             currentTerm' = [currentTerm EXCEPT ![i] = currentTerm[i] + 1],
             votedFor' = [votedFor EXCEPT ![i] = i],
             votes' = votes \cup {[voter |-> i, term |-> currentTerm[i] + 1,
                                  candidate |-> i]}
      PROVE  VotesRemembered'
  <2>1. ASSUME NEW v \in votes'
        PROVE  /\ v.term <= currentTerm'[v.voter]
               /\ v.term = currentTerm'[v.voter] => votedFor'[v.voter] = v.candidate
    BY <1>0, <1>3 DEF VotesRemembered
  <2>2. ASSUME NEW v \in votes', NEW w \in votes',
               v.voter = w.voter, v.term = w.term
        PROVE  v.candidate = w.candidate
    BY <1>0, <1>3, <2>2 DEF VotesRemembered
  <2>3. \A r \in voteRep' : r.granted =>
          [voter |-> r.to, term |-> r.term, candidate |-> r.from] \in votes'
    BY Zenon, <1>3 DEF VotesRemembered
  <2> QED BY Zenon, <2>1, <2>2, <2>3 DEF VotesRemembered
<1>4. ASSUME NEW i \in Node, StartElection(i) PROVE VotesRemembered'
  <2>1. voteRep' \subseteq voteRep
    BY Zenon, <1>4 DEF StartElection
  <2> QED BY Zenon, <1>3, <1>4, <2>1 DEF StartElection
<1>5. ASSUME NEW i \in Node, CrashInElection(i) PROVE VotesRemembered'
  <2>1. voteRep' \subseteq voteRep
    BY Zenon, <1>5, RebootDrops DEF CrashInElection, CallsDropped
  <2> QED BY ZenonT(40), <1>3, <1>5, <2>1 DEF CrashInElection
<1>6. ASSUME NEW m \in voteReq, OnRequestVote(m) PROVE VotesRemembered'
  <2> DEFINE i == m.to
             new == [voter |-> i, term |-> m.term, candidate |-> m.from]
             granted == m.term >= currentTerm[i] /\ GrantsVote(i, m)
  <2>1. i \in Node /\ m.from \in Node /\ m.term \in Nat
    BY Zenon, FieldTypes
  <2>2. /\ currentTerm' = [currentTerm EXCEPT ![i] =
             IF m.term > currentTerm[i] THEN m.term ELSE @]
        /\ votedFor' = [votedFor EXCEPT ![i] =
             IF granted THEN m.from
                        ELSE IF m.term > currentTerm[i] THEN None ELSE @]
        /\ votes' = votes \cup IF granted THEN {new} ELSE {}
    BY Zenon, <1>6 DEF OnRequestVote
  <2>3. granted => /\ m.term >= currentTerm[i]
                   /\ m.term > currentTerm[i] \/ votedFor[i] \in {None, m.from}
    BY Zenon DEF GrantsVote
  <2> HIDE DEF granted
  <2>4. ASSUME NEW v \in votes, v.voter = i, granted, v.term = m.term
        PROVE  v.candidate = m.from
    <3>1. v.term <= currentTerm[i]
      BY Zenon, <2>4 DEF VotesRemembered
    <3>2. m.term = currentTerm[i]
      BY SMTT(20), <1>0, <2>1, <2>3, <2>4, <3>1
    <3>3. votedFor[i] = v.candidate
      BY ZenonT(40), <2>4, <3>2 DEF VotesRemembered
    <3>4. votedFor[i] \in {None, m.from}
      BY SMTT(20), <1>0, <2>1, <2>3, <2>4, <3>2
    <3> QED BY Zenon, <1>0, <3>3, <3>4, NodeAssumption
  <2>5. ASSUME NEW v \in votes
        PROVE  /\ v.term <= currentTerm'[v.voter]
               /\ v.term = currentTerm'[v.voter] => votedFor'[v.voter] = v.candidate
    <3>1. /\ v.term <= currentTerm[v.voter]
          /\ v.term = currentTerm[v.voter] => votedFor[v.voter] = v.candidate
      BY Zenon DEF VotesRemembered
    <3>2. CASE v.voter # i
      BY Zenon, <1>0, <2>1, <2>2, <3>1, <3>2
    <3>3. CASE v.voter = i /\ granted
      BY SMTT(20), <1>0, <2>1, <2>2, <2>3, <2>4, <3>1, <3>3
    <3>4. CASE v.voter = i /\ ~granted
      BY SMTT(20), <1>0, <2>1, <2>2, <3>1, <3>4
    <3> QED BY Zenon, <3>2, <3>3, <3>4
  <2>6. granted => /\ m.term <= currentTerm'[i]
                   /\ votedFor'[i] = m.from
    BY <1>0, <2>1, <2>2, <2>3
  <2>7. ASSUME NEW v \in votes', NEW w \in votes',
               v.voter = w.voter, v.term = w.term
        PROVE  v.candidate = w.candidate
    <3>1. CASE v \in votes /\ w \in votes
      BY Zenon, <2>7, <3>1 DEF VotesRemembered
    <3>2. CASE v \notin votes
      <4>1. granted /\ v = new
        BY Zenon, <2>2, <3>2
      <4> QED BY Zenon, <2>2, <2>4, <2>7, <4>1
    <3>3. CASE w \notin votes
      <4>1. granted /\ w = new
        BY Zenon, <2>2, <3>3
      <4> QED BY Zenon, <2>2, <2>4, <2>7, <4>1
    <3> QED BY Zenon, <3>1, <3>2, <3>3
  <2>8. ASSUME NEW r \in voteRep', r.granted
        PROVE  [voter |-> r.to, term |-> r.term, candidate |-> r.from] \in votes'
    <3>1. CASE r \in voteRep
      BY Zenon, <2>2, <2>8, <3>1 DEF VotesRemembered
    <3>2. CASE r \notin voteRep
      BY Zenon, <1>6, <2>8, <3>2, NewReply DEF SameCall
    <3> QED BY Zenon, <3>1, <3>2
  <2>9. ASSUME NEW v \in votes'
        PROVE  /\ v.term <= currentTerm'[v.voter]
               /\ v.term = currentTerm'[v.voter] => votedFor'[v.voter] = v.candidate
    BY <2>2, <2>5, <2>6
  <2> QED BY Zenon, <2>7, <2>8, <2>9 DEF VotesRemembered
<1>7. ASSUME NEW r \in voteRep, OnVoteReply(r), CountsVote(r.from, r),
             r.rterm <= currentTerm[r.from]
      PROVE  VotesRemembered'
  <2>1. ~(r.rterm > currentTerm[r.from])
    BY SMTT(20), <1>0, <1>7, FieldTypes
  <2>2. UNCHANGED <<currentTerm, votedFor, votes>> /\ CallsDropped
    BY Zenon, <1>7, <2>1 DEF OnVoteReply, CallsDropped, SameCall, SameEnd
  <2> QED BY Zenon, <1>1, <2>2
<1> QED BY Zenon, <1>1, <1>2, <1>4, <1>5, <1>6, <1>7, ElectionSteps

\* While a candidate's term and counter stay, so does what it can count.
LEMMA CountKept ==
  ASSUME SetFacts, NEW i \in Node, VotesCountedOnce, role[i] = "candidate",
         TypeOK, votes \subseteq votes', currentTerm'[i] = currentTerm[i],
         votesReceived'[i] = votesReceived[i],
         \A j \in Node : VotePending(i, j, currentTerm[i])'
                          => VotePending(i, j, currentTerm[i])
  PROVE  votesReceived'[i] <= Cardinality(Countable(i)')
<1>1. Countable(i) \subseteq Countable(i)' /\ Countable(i)' \in SUBSET Node
  BY ZenonT(40) DEF Countable, Voters
<1>2. /\ Cardinality(Countable(i)) \in Nat /\ Cardinality(Countable(i)') \in Nat
      /\ Cardinality(Countable(i)) <= Cardinality(Countable(i)')
  BY Zenon, <1>1, NodeSets
<1>3. votesReceived[i] <= Cardinality(Countable(i)) /\ votesReceived[i] \in Nat
  BY Zenon DEF VotesCountedOnce, TypeOK
<1> QED BY SMTT(20), <1>2, <1>3

\* Where calls are only dropped, no answer becomes pending.
LEMMA DroppedPending ==
  ASSUME CallsDropped, NEW i, NEW j, currentTerm'[i] = currentTerm[i]
  PROVE  VotePending(i, j, currentTerm[i])' => VotePending(i, j, currentTerm[i])
BY Zenon DEF CallsDropped, VotePending

\* Every step keeps votesReceived_ below the number of voters that have answered.
LEMMA VotesCountedOnceStep ==
  ASSUME SetFacts, TypeOK, TypeOK', [Next]_vars, CallsWithinTerm, OneReplyPerCall,
         VotesRemembered, VotesCountedOnce
  PROVE  VotesCountedOnce'
<1>0. /\ currentTerm \in [Node -> Nat] /\ role \in [Node -> {"follower", "candidate", "leader"}]
      /\ votesReceived \in [Node -> Nat]
  BY Zenon DEF TypeOK
<1> SUFFICES ASSUME NEW c \in Node, role'[c] = "candidate"
             PROVE  votesReceived'[c] <= Cardinality(Countable(c)')
  BY Zenon DEF VotesCountedOnce
<1>1. CASE CallsDropped /\ UNCHANGED <<role, currentTerm, votedFor,
                                      votesReceived, votes, elected>>
  BY Zenon, <1>1, CountKept, DroppedPending
<1>2. CASE CallsDropped /\ \E i \in Node : \E t \in Nat : StepsDown(i, t)
  <2>1. PICK i \in Node, t \in Nat : StepsDown(i, t)
    BY Zenon, <1>2
  <2>2. c # i /\ role[c] = "candidate"
    BY Zenon, <1>0, <2>1 DEF StepsDown
  <2>3. /\ currentTerm'[c] = currentTerm[c]
        /\ votesReceived'[c] = votesReceived[c]
        /\ votes' = votes
    BY Zenon, <1>0, <2>1, <2>2 DEF StepsDown
  <2> QED BY Zenon, <1>2, <2>2, <2>3, CountKept, DroppedPending
<1>3. ASSUME NEW i \in Node, StartElection(i)
      PROVE  votesReceived'[c] <= Cardinality(Countable(c)')
  <2>1. /\ currentTerm' = [currentTerm EXCEPT ![i] = currentTerm[i] + 1]
        /\ votesReceived' = [votesReceived EXCEPT ![i] = 1]
        /\ votes' = votes \cup {[voter |-> i, term |-> currentTerm[i] + 1,
                                 candidate |-> i]}
        /\ voteRep' = voteRep
    BY Zenon, <1>3 DEF StartElection
  <2>2. \A m \in voteReq' : \/ m \in voteReq
                            \/ /\ m.from = i /\ m.to # i
                               /\ m.term = currentTerm[i] + 1
    <3>1. ASSUME NEW m \in voteReq', m \notin voteReq
          PROVE  m.from = i /\ m.to # i /\ m.term = currentTerm[i] + 1
      <4>1. PICK p \in Node \ {i} : m = VoteRequestTo(i, p, currentTerm[i] + 1)
        BY Zenon, <1>3, <3>1, NewCalls
      <4> QED BY Zenon, <4>1 DEF VoteRequestTo
    <3> QED BY Zenon, <3>1
  <2>3. CASE c = i
    <3>1. currentTerm'[i] = currentTerm[i] + 1 /\ votesReceived'[i] = 1
      BY Zenon, <1>0, <2>1
    <3>2. ASSUME NEW n \in voteReq \cup voteRep
          PROVE  ~(n.from = i /\ n.term = currentTerm[i] + 1)
      <4>1. n.from \in Node /\ n.term \in Nat /\ n.term <= currentTerm[n.from]
        BY Zenon, FieldTypes DEF CallsWithinTerm
      <4> QED BY SMTT(20), <1>0, <4>1
    <3>3. ~VotePending(i, i, currentTerm[i])'
      BY ZenonT(40), <2>1, <2>2, <3>1, <3>2 DEF VotePending
    <3>4. i \in Countable(i)'
      BY SMTT(20), <2>1, <3>1, <3>3 DEF Countable, Voters
    <3>5. {i} \subseteq Countable(i)' /\ Countable(i)' \in SUBSET Node
      BY Zenon, <3>4 DEF Countable, Voters
    <3>6. Cardinality({i}) = 1
      BY Zenon DEF SetFacts
    <3>7. Cardinality(Countable(i)') >= 1
      BY Zenon, <3>5, <3>6, NodeSets
    <3> QED BY Zenon, <2>3, <3>1, <3>7
  <2>4. CASE c # i
    <3>1. /\ currentTerm'[c] = currentTerm[c]
          /\ votesReceived'[c] = votesReceived[c]
      BY Zenon, <1>0, <2>1, <2>4
    <3>2. role[c] = "candidate"
      BY ZenonT(40), <1>0, <1>3, <2>4 DEF StartElection, BecomeLeader
    <3>3. \A j \in Node : VotePending(c, j, currentTerm[c])'
                            => VotePending(c, j, currentTerm[c])
      BY ZenonT(40), <2>1, <2>2, <2>4, <3>1 DEF VotePending
    <3> QED BY Zenon, <2>1, <3>1, <3>2, <3>3, CountKept
  <2> QED BY Zenon, <2>3, <2>4
<1>4. ASSUME NEW i \in Node, CrashInElection(i)
      PROVE  votesReceived'[c] <= Cardinality(Countable(c)')
  <2>1. /\ CallsDropped
        /\ role' = [role EXCEPT ![i] = "follower"]
        /\ \A j \in Node \ {i} : votesReceived'[j] = votesReceived[j]
        /\ currentTerm' = [currentTerm EXCEPT ![i] = currentTerm[i] + 1]
        /\ votes \subseteq votes'
    BY Zenon, <1>4, RebootDrops DEF CrashInElection
  <2>2. c # i /\ role[c] = "candidate"
    BY Zenon, <1>0, <2>1
  <2>3. currentTerm'[c] = currentTerm[c] /\ votesReceived'[c] = votesReceived[c]
    BY Zenon, <1>0, <2>1, <2>2
  <2> QED BY ZenonT(40), <2>1, <2>2, <2>3, CountKept, DroppedPending
<1>5. ASSUME NEW m \in voteReq, OnRequestVote(m)
      PROVE  votesReceived'[c] <= Cardinality(Countable(c)')
  <2>1. m.to \in Node /\ m.term \in Nat
    BY Zenon, FieldTypes
  <2>2. /\ currentTerm' = [currentTerm EXCEPT ![m.to] =
             IF m.term > currentTerm[m.to] THEN m.term ELSE @]
        /\ role' = [role EXCEPT ![m.to] =
             IF m.term > currentTerm[m.to] THEN "follower" ELSE @]
        /\ votesReceived' = votesReceived
        /\ voteReq' = voteReq \ {m}
    BY Zenon, <1>5 DEF OnRequestVote
  <2>3. currentTerm'[c] = currentTerm[c] /\ role[c] = "candidate"
    BY Zenon, <1>0, <2>1, <2>2
  <2>4. \A j \in Node : VotePending(c, j, currentTerm[c])'
                          => VotePending(c, j, currentTerm[c])
    BY ZenonT(40), <1>5, <2>2, <2>3, NewReply DEF VotePending, SameCall
  <2>5. votes \subseteq votes'
    BY Zenon, HistoriesGrow
  <2> QED BY Zenon, <2>2, <2>3, <2>4, <2>5, CountKept
<1>6. ASSUME NEW r \in voteRep, OnVoteReply(r), CountsVote(r.from, r),
             r.rterm <= currentTerm[r.from]
      PROVE  votesReceived'[c] <= Cardinality(Countable(c)')
  <2> DEFINE i == r.from
  <2>1. i \in Node /\ r.to \in Node /\ ~(r.rterm > currentTerm[i])
    BY SMTT(30), <1>0, <1>6, FieldTypes
  <2>2. /\ UNCHANGED <<currentTerm, votes, voteReq>>
        /\ voteRep' = voteRep \ {r}
        /\ votesReceived' = [votesReceived EXCEPT ![i] = votesReceived[i] + 1]
    BY Zenon, <1>6, <2>1 DEF OnVoteReply
  <2>3. /\ role[i] = "candidate" /\ currentTerm[i] = r.term /\ r.granted
    BY ZenonT(40), <1>6 DEF CountsVote
  <2>4. role[c] = "candidate"
    BY ZenonT(40), <1>0, <1>6, <2>1, <2>3 DEF OnVoteReply, BecomeLeader
  <2>5. CallsDropped
    BY Zenon, <2>2 DEF CallsDropped, SameCall, SameEnd
  <2>6. CASE c # i
    <3>1. votesReceived'[c] = votesReceived[c]
      BY Zenon, <1>0, <2>2, <2>6
    <3> QED BY ZenonT(40), <2>2, <2>4, <2>5, <3>1, CountKept, DroppedPending
  <2>7. CASE c = i
    <3>1. VotePending(i, r.to, currentTerm[i])
      BY Zenon, <2>3 DEF VotePending
    <3>2. ~VotePending(i, r.to, currentTerm[i])'
      BY Zenon, <2>2, <2>3 DEF VotePending, OneReplyPerCall, SameCall
    <3>3. \A j \in Node \ {r.to} : VotePending(i, j, currentTerm[i])'
                                    <=> VotePending(i, j, currentTerm[i])
      BY Zenon, <2>2 DEF VotePending
    <3>4. [voter |-> r.to, term |-> r.term, candidate |-> r.from] \in votes
      BY Zenon, <2>3 DEF VotesRemembered
    <3>5. Countable(i)' = Countable(i) \cup {r.to} /\ r.to \notin Countable(i)
      BY ZenonT(40), <2>1, <2>2, <2>3, <3>1, <3>2, <3>3, <3>4 DEF Countable,
         Voters
    <3>6. Countable(i) \in SUBSET Node /\ Cardinality(Countable(i)) \in Nat
      <4>1. Countable(i) \in SUBSET Node
        BY Zenon DEF Countable, Voters
      <4> QED BY Zenon, <4>1, NodeSets
    <3>7. Cardinality(Countable(i)') = Cardinality(Countable(i)) + 1
      BY Zenon, <2>1, <3>5, <3>6 DEF SetFacts
    <3>8. votesReceived[i] <= Cardinality(Countable(i)) /\ votesReceived[i] \in Nat
      BY Zenon, <1>0, <2>1, <2>3 DEF VotesCountedOnce
    <3>9. votesReceived'[i] = votesReceived[i] + 1
      BY Zenon, <1>0, <2>1, <2>2
    <3> QED BY SMTT(20), <2>7, <3>6, <3>7, <3>8, <3>9
  <2> QED BY Zenon, <2>6, <2>7
<1> QED BY ZenonT(40), <1>1, <1>2, <1>3, <1>4, <1>5, <1>6, ElectionSteps

\* Every step keeps each elected leader backed by the votes of a majority.
LEMMA WonByMajorityStep ==
  ASSUME SetFacts, TypeOK, TypeOK', [Next]_vars, VotesRemembered, VotesCountedOnce,
         WonByMajority
  PROVE  WonByMajority'
<1>0. /\ currentTerm \in [Node -> Nat]
      /\ votesReceived \in [Node -> Nat]
      /\ \A e \in elected' : e.term \in Nat /\ e.node \in Node
  BY Zenon DEF TypeOK
<1>1. ASSUME NEW e \in elected
      PROVE  /\ e.term <= currentTerm'[e.node]
             /\ Cardinality(Voters(e.term, e.node)') >= Majority
  <2>1. e.term \in Nat /\ e.node \in Node
    BY Zenon, <1>0, HistoriesGrow
  <2>2. /\ e.term <= currentTerm[e.node]
        /\ Cardinality(Voters(e.term, e.node)) >= Majority
    BY Zenon DEF WonByMajority
  <2>3. /\ Voters(e.term, e.node) \subseteq Voters(e.term, e.node)'
        /\ Voters(e.term, e.node)' \in SUBSET Node
    BY Zenon, HistoriesGrow DEF Voters
  <2>4. /\ Cardinality(Voters(e.term, e.node)) \in Nat
        /\ Cardinality(Voters(e.term, e.node)') \in Nat
        /\ Cardinality(Voters(e.term, e.node))
             <= Cardinality(Voters(e.term, e.node)')
    BY Zenon, <2>3, NodeSets
  <2>5. e.term <= currentTerm'[e.node]
    BY SMTT(20), <2>1, <2>2, TermTypes
  <2>6. Cardinality(Voters(e.term, e.node)') >= Majority
    BY <2>2, <2>4, MajorityType
  <2> QED BY Zenon, <2>5, <2>6
<1>2. ASSUME elected' = elected PROVE WonByMajority'
  BY Zenon, <1>1, <1>2 DEF WonByMajority
<1>3. ASSUME NEW i \in Node, NEW n \in Nat, n >= Majority,
             n <= Cardinality(Voters(currentTerm[i], i)'),
             elected' = elected \cup {[term |-> currentTerm'[i], node |-> i]}
      PROVE  WonByMajority'
  <2>1. currentTerm'[i] <= currentTerm'[i]
    BY TermTypes
  <2>2. Cardinality(Voters(currentTerm[i], i)') \in Nat
    <3>1. Voters(currentTerm[i], i)' \in SUBSET Node
      BY Zenon DEF Voters
    <3> QED BY Zenon, <3>1, NodeSets
  <2>3. Cardinality(Voters(currentTerm[i], i)') >= Majority
    BY SMTT(20), <1>3, <2>2, MajorityType
  <2>4. ASSUME NEW e \in elected'
        PROVE  /\ e.term <= currentTerm'[e.node]
               /\ Cardinality(Voters(e.term, e.node)') >= Majority
    <3>1. CASE e \in elected
      BY Zenon, <1>1, <3>1
    <3>2. CASE e = [term |-> currentTerm'[i], node |-> i]
      <4>1. Voters(e.term, e.node)' = Voters(currentTerm[i], i)'
        BY Zenon, <3>2 DEF Voters
      <4> QED BY Zenon, <2>1, <2>3, <3>2, <4>1
    <3> QED BY Zenon, <1>3, <3>1, <3>2
  <2> QED BY Zenon, <2>4 DEF WonByMajority
<1>4. ASSUME NEW i \in Node, StartElection(i) PROVE WonByMajority'
  <2>1. CASE elected' = elected
    BY Zenon, <1>2, <2>1
  <2>2. CASE 1 >= Majority /\ BecomeLeader(i, currentTerm[i] + 1)
    <3>1. /\ currentTerm' = [currentTerm EXCEPT ![i] = currentTerm[i] + 1]
          /\ votes' = votes \cup {[voter |-> i, term |-> currentTerm[i] + 1,
                                   candidate |-> i]}
          /\ elected' = elected \cup {[term |-> currentTerm[i] + 1, node |-> i]}
      BY ZenonT(40), <1>4, <2>2 DEF StartElection, BecomeLeader
    <3>2. currentTerm'[i] = currentTerm[i] + 1
      BY Zenon, <1>0, <3>1
    <3>3. /\ {i} \subseteq Voters(currentTerm[i], i)'
          /\ Voters(currentTerm[i], i)' \in SUBSET Node
      BY <3>1, <3>2 DEF Voters
    <3>4. Cardinality({i}) = 1
      BY Zenon DEF SetFacts
    <3>5. 1 <= Cardinality(Voters(currentTerm[i], i)')
      BY Zenon, <3>3, <3>4, NodeSets
    <3> QED BY Zenon, <1>3, <2>2, <3>1, <3>2, <3>5
  <2> QED BY Zenon, <1>4, <2>1, <2>2 DEF StartElection
<1>5. ASSUME NEW i \in Node, CrashInElection(i) PROVE WonByMajority'
  BY Zenon, <1>2, <1>5, RebootDrops DEF CrashInElection
<1>6. ASSUME NEW m \in voteReq, OnRequestVote(m) PROVE WonByMajority'
  BY Zenon, <1>2, <1>6 DEF OnRequestVote
<1>7. ASSUME NEW r \in voteRep, OnVoteReply(r), CountsVote(r.from, r),
             r.rterm <= currentTerm[r.from]
      PROVE  WonByMajority'
  <2> DEFINE i == r.from
             count == votesReceived[i] + 1
  <2>1. i \in Node /\ r.to \in Node /\ ~(r.rterm > currentTerm[i])
    BY <1>0, <1>7, FieldTypes
  <2>2. CASE elected' = elected
    BY Zenon, <1>2, <2>2
  <2>3. CASE /\ count >= Majority
             /\ BecomeLeader(i, currentTerm[i])
             /\ UNCHANGED <<currentTerm, votedFor, votes>>
    <3>1. /\ role[i] = "candidate" /\ currentTerm[i] = r.term /\ r.granted
      BY Zenon, <1>7 DEF CountsVote
    <3>2. VotePending(i, r.to, currentTerm[i])
      BY Zenon, <3>1 DEF VotePending
    <3>3. [voter |-> r.to, term |-> r.term, candidate |-> r.from] \in votes
      BY ZenonT(40), <3>1 DEF VotesRemembered
    <3>4. /\ Countable(i) \cup {r.to} \subseteq Voters(currentTerm[i], i)
          /\ r.to \notin Countable(i)
          /\ Voters(currentTerm[i], i) \in SUBSET Node
      BY ZenonT(40), <2>1, <3>1, <3>2, <3>3 DEF Countable, Voters
    <3>5. Countable(i) \in SUBSET Node /\ Cardinality(Countable(i)) \in Nat
      BY Zenon, <3>4, NodeSets
    <3>6. Cardinality(Countable(i) \cup {r.to}) = Cardinality(Countable(i)) + 1
      BY Zenon, <2>1, <3>4, <3>5 DEF SetFacts
    <3>7. Cardinality(Countable(i) \cup {r.to})
            <= Cardinality(Voters(currentTerm[i], i))
      BY Zenon, <3>4, NodeSets
    <3>8. votesReceived[i] <= Cardinality(Countable(i)) /\ votesReceived[i] \in Nat
      BY Zenon, <1>0, <2>1, <3>1 DEF VotesCountedOnce
    <3>9. Cardinality(Voters(currentTerm[i], i)) \in Nat
      BY Zenon, <3>4, NodeSets
    <3>10. count \in Nat /\ count <= Cardinality(Voters(currentTerm[i], i))
      BY SMTT(20), <3>5, <3>6, <3>7, <3>8, <3>9
    <3>11. Voters(currentTerm[i], i)' = Voters(currentTerm[i], i)
      BY Zenon, <2>3 DEF Voters
    <3>12. elected' = elected \cup {[term |-> currentTerm'[i], node |-> i]}
      BY Zenon, <2>3 DEF BecomeLeader
    <3> HIDE DEF count, i
    <3> QED BY Zenon, <1>3, <2>1, <2>3, <3>10, <3>11, <3>12
  <2> QED BY ZenonT(40), <1>7, <2>1, <2>2, <2>3 DEF OnVoteReply
<1>8. ASSUME CallsDropped, NEW i \in Node, NEW t \in Nat, StepsDown(i, t)
      PROVE  WonByMajority'
  BY Zenon, <1>2, <1>8 DEF StepsDown
<1> QED BY Zenon, <1>2, <1>4, <1>5, <1>6, <1>7, <1>8, ElectionSteps

-----------------------------------------------------------------------------
(* Leaders and their calls.                                                *)

\* Leaders have won the election of their term, candidates have not.
LEMMA RolesElectedStep ==
  ASSUME TypeOK, TypeOK', [Next]_vars, WonByMajority, LeadersElected,
         NEW c \in Node
  PROVE  LET win == [term |-> currentTerm'[c], node |-> c]
         IN  /\ role'[c] = "leader" => win \in elected'
             /\ role'[c] = "candidate" => win \notin elected'
<1> DEFINE was == [term |-> currentTerm[c], node |-> c]
           win == [term |-> currentTerm'[c], node |-> c]
           OK == /\ role'[c] = "leader" => win \in elected'
                 /\ role'[c] = "candidate" => win \notin elected'
<1>0. /\ currentTerm \in [Node -> Nat]
      /\ role \in [Node -> {"follower", "candidate", "leader"}]
      /\ role[c] = "leader" => was \in elected
      /\ role[c] = "candidate" => was \notin elected
  BY Zenon DEF TypeOK, LeadersElected
<1>1. ASSUME role'[c] = role[c], currentTerm'[c] = currentTerm[c],
             was \in elected' <=> was \in elected
      PROVE  OK
  BY Zenon, <1>0, <1>1
<1>2. ASSUME role'[c] = "follower" PROVE OK
  BY Zenon, <1>2
<1>3. ASSUME NEW i \in Node, NEW t \in Nat, StepsDown(i, t) PROVE OK
  <2>1. CASE c = i
    BY Zenon, <1>0, <1>2, <1>3, <2>1 DEF StepsDown
  <2>2. CASE c # i
    <3>1. /\ role'[c] = role[c] /\ currentTerm'[c] = currentTerm[c]
          /\ elected' = elected
      BY Zenon, <1>0, <1>3, <2>2 DEF StepsDown
    <3> QED BY Zenon, <1>1, <3>1
  <2> QED BY Zenon, <2>1, <2>2
<1>4. ASSUME NEW i \in Node, StartElection(i) PROVE OK
  <2>1. currentTerm' = [currentTerm EXCEPT ![i] = currentTerm[i] + 1]
    BY Zenon, <1>4 DEF StartElection
  <2>2. \/ /\ role' = [role EXCEPT ![i] = "leader"]
           /\ elected' = elected \cup {[term |-> currentTerm[i] + 1, node |-> i]}
        \/ /\ role' = [role EXCEPT ![i] = "candidate"]
           /\ elected' = elected
    BY Zenon, <1>4 DEF StartElection, BecomeLeader
  <2>3. CASE c = i
    <3>1. currentTerm'[c] = currentTerm[c] + 1
      BY Zenon, <1>0, <2>1, <2>3
    <3>2. [term |-> currentTerm[c] + 1, node |-> c] \notin elected
      <4> SUFFICES ASSUME [term |-> currentTerm[c] + 1, node |-> c] \in elected
                   PROVE  FALSE
        BY Zenon
      <4>1. currentTerm[c] + 1 <= currentTerm[c]
        BY Zenon DEF WonByMajority
      <4> QED BY <1>0, <4>1
    <3> QED BY Zenon, <1>0, <2>2, <2>3, <3>1, <3>2
  <2>4. CASE c # i
    <3>1. role'[c] = role[c] /\ currentTerm'[c] = currentTerm[c]
      BY Zenon, <1>0, <2>1, <2>2, <2>4
    <3>2. was \in elected' <=> was \in elected
      BY Zenon, <2>2, <2>4
    <3> HIDE DEF OK
    <3> QED BY Zenon, <1>1, <3>1, <3>2
  <2> QED BY Zenon, <2>3, <2>4
<1>5. ASSUME NEW i \in Node, CrashInElection(i) PROVE OK
  <2>1. /\ role' = [role EXCEPT ![i] = "follower"]
        /\ currentTerm' = [currentTerm EXCEPT ![i] = currentTerm[i] + 1]
        /\ elected' = elected
    BY Zenon, <1>5, RebootDrops DEF CrashInElection
  <2>2. CASE c = i
    BY Zenon, <1>0, <1>2, <2>1, <2>2
  <2>3. CASE c # i
    BY Zenon, <1>0, <1>1, <2>1, <2>3
  <2> QED BY Zenon, <2>2, <2>3
<1>6. ASSUME NEW m \in voteReq, OnRequestVote(m) PROVE OK
  <2>1. m.to \in Node
    BY Zenon, FieldTypes
  <2>2. /\ currentTerm' = [currentTerm EXCEPT ![m.to] =
             IF m.term > currentTerm[m.to] THEN m.term ELSE @]
        /\ role' = [role EXCEPT ![m.to] =
             IF m.term > currentTerm[m.to] THEN "follower" ELSE @]
        /\ elected' = elected
    BY Zenon, <1>6 DEF OnRequestVote
  <2>3. CASE c = m.to /\ m.term > currentTerm[m.to]
    BY Zenon, <1>0, <1>2, <2>2, <2>3
  <2>4. CASE ~(c = m.to /\ m.term > currentTerm[m.to])
    BY Zenon, <1>0, <1>1, <2>1, <2>2, <2>4
  <2> QED BY Zenon, <2>3, <2>4
<1>7. ASSUME NEW r \in voteRep, OnVoteReply(r), CountsVote(r.from, r),
             r.rterm <= currentTerm[r.from]
      PROVE  OK
  <2>1. r.from \in Node /\ ~(r.rterm > currentTerm[r.from])
    BY <1>0, <1>7, FieldTypes
  <2>2. /\ currentTerm' = currentTerm
        /\ \/ /\ role' = [role EXCEPT ![r.from] = "leader"]
              /\ elected' = elected \cup
                   {[term |-> currentTerm[r.from], node |-> r.from]}
           \/ role' = role /\ elected' = elected
    BY Zenon, <1>7, <2>1 DEF OnVoteReply, BecomeLeader
  <2>3. CASE c = r.from
    BY Zenon, <1>0, <2>1, <2>2, <2>3
  <2>4. CASE c # r.from
    BY Zenon, <1>0, <1>1, <2>1, <2>2, <2>4
  <2> QED BY Zenon, <2>3, <2>4
<1>8. ASSUME UNCHANGED <<role, currentTerm, elected>> PROVE OK
  BY Zenon, <1>1, <1>8
<1>9. OK
  <2> HIDE DEF OK
  <2> QED BY Zenon, <1>3, <1>4, <1>5, <1>6, <1>7, <1>8, ElectionSteps
<1> QED BY Zenon, <1>9

\* AppendEntries calls, and what is left of them, have the term of an election
\* their sender has won.
LEMMA AppendCallsElectedStep ==
  ASSUME SetFacts, TypeOK, [Next]_vars, LeadersElected, IndexesInLog
  PROVE  /\ \A m \in appReq' : [term |-> m.term, node |-> m.from] \in elected'
         /\ \A r \in appRep' : [term |-> r.term, node |-> r.from] \in elected'
<1> DEFINE Won(m) == [term |-> m.term, node |-> m.from] \in elected'
<1>1. (\A m \in appReq : Won(m)) /\ (\A r \in appRep : Won(r))
  BY Zenon, HistoriesGrow DEF LeadersElected
<1>2. ASSUME NEW m \in appReq' PROVE Won(m)
  <2>1. CASE \E n \in appReq : SameArgs(m, n)
    BY Zenon, <1>1, <2>1 DEF SameArgs
  <2>2. CASE m \in appReq
    BY Zenon, <1>1, <2>2
  <2>3. CASE m \notin appReq /\ \E i, p \in Node : SendAppend(i, p)
    <3>1. PICK i \in Node, p \in Node : SendAppend(i, p)
      BY Zenon, <2>3
    <3>2. m.from = i /\ m.term = currentTerm[i] /\ role[i] = "leader"
      BY <2>3, <3>1, SentAppend
    <3> QED BY Zenon, <3>2, HistoriesGrow DEF LeadersElected
  <2> QED BY Zenon, <2>1, <2>2, <2>3, AppendCallsOrigin
<1>3. ASSUME NEW r \in appRep' PROVE Won(r)
  BY Zenon, <1>1, AppendCallsOrigin DEF Answers
<1> QED BY Zenon, <1>2, <1>3

\* A node names as leader the winner of its term.
LEMMA LeaderHintStep ==
  ASSUME TypeOK, TypeOK', [Next]_vars, LeadersElected
  PROVE  LeaderHintTruthful'
<1>0. /\ currentTerm \in [Node -> Nat]
      /\ leaderHint \in [Node -> Node \cup {None}]
      /\ LeaderHintTruthful
  BY Zenon DEF TypeOK, LeadersElected
<1> SUFFICES ASSUME NEW j \in Node, leaderHint'[j] # None
             PROVE  [term |-> currentTerm'[j], node |-> leaderHint'[j]] \in elected'
  BY Zenon DEF LeaderHintTruthful
<1> DEFINE OK == [term |-> currentTerm'[j], node |-> leaderHint'[j]] \in elected'
<1>1. ASSUME leaderHint'[j] = leaderHint[j], currentTerm'[j] = currentTerm[j]
      PROVE  OK
  BY Zenon, <1>0, <1>1, HistoriesGrow DEF LeaderHintTruthful
<1> DEFINE Only(i) == \A k \in Node \ {i} : /\ leaderHint'[k] = leaderHint[k]
                                             /\ currentTerm'[k] = currentTerm[k]
<1>2. ASSUME NEW i \in Node, Only(i), leaderHint'[i] = None
      PROVE  OK
  BY Zenon, <1>1, <1>2
<1>3. ASSUME NEW i \in Node, Only(i),
             [term |-> currentTerm'[i], node |-> leaderHint'[i]] \in elected'
      PROVE  OK
  BY Zenon, <1>1, <1>3
<1>4. ASSUME NEW i \in Node, StartElection(i) PROVE OK
  <2>1. /\ currentTerm' = [currentTerm EXCEPT ![i] = currentTerm[i] + 1]
        /\ \/ leaderHint' = [leaderHint EXCEPT ![i] = None]
           \/ /\ leaderHint' = [leaderHint EXCEPT ![i] = i]
              /\ elected' = elected \cup {[term |-> currentTerm[i] + 1, node |-> i]}
    BY Zenon, <1>4 DEF StartElection, BecomeLeader
  <2>2. /\ Only(i)
        /\ currentTerm'[i] = currentTerm[i] + 1
        /\ leaderHint'[i] = None \/ leaderHint'[i] = i
    BY Zenon, <1>0, <2>1
  <2>3. CASE leaderHint'[i] = None
    BY Zenon, <1>2, <2>2, <2>3
  <2>4. CASE leaderHint'[i] = i /\ i # None
    <3>1. elected' = elected \cup {[term |-> currentTerm[i] + 1, node |-> i]}
      BY Zenon, <1>0, <2>1, <2>4
    <3> QED BY Zenon, <1>3, <2>2, <2>4, <3>1
  <2> QED BY Zenon, <2>2, <2>3, <2>4
<1>5. ASSUME NEW m \in voteReq, OnRequestVote(m) PROVE OK
  <2>1. m.to \in Node
    BY Zenon, FieldTypes
  <2>2. /\ currentTerm' = [currentTerm EXCEPT ![m.to] =
             IF m.term > currentTerm[m.to] THEN m.term ELSE @]
        /\ leaderHint' = [leaderHint EXCEPT ![m.to] =
             IF m.term > currentTerm[m.to] THEN None ELSE @]
    BY Zenon, <1>5 DEF OnRequestVote
  <2>3. CASE m.term > currentTerm[m.to]
    <3>1. Only(m.to) /\ leaderHint'[m.to] = None
      BY Zenon, <1>0, <2>1, <2>2, <2>3
    <3> QED BY Zenon, <1>2, <2>1, <3>1
  <2>4. CASE ~(m.term > currentTerm[m.to])
    <3>1. leaderHint'[j] = leaderHint[j] /\ currentTerm'[j] = currentTerm[j]
      BY Zenon, <1>0, <2>1, <2>2, <2>4
    <3> QED BY Zenon, <1>1, <3>1
  <2> QED BY Zenon, <2>3, <2>4
<1>6. ASSUME NEW i \in Node, NEW t, BecomeFollower(i, t) PROVE OK
  <2>1. Only(i) /\ leaderHint'[i] = None
    BY Zenon, <1>0, <1>6 DEF BecomeFollower
  <2> QED BY Zenon, <1>2, <2>1
<1>7. ASSUME NEW r \in voteRep, OnVoteReply(r) PROVE OK
  <2>1. r.from \in Node
    BY Zenon, FieldTypes
  <2>2. CASE UNCHANGED <<currentTerm, leaderHint>>
    BY Zenon, <1>1, <2>2
  <2>3. CASE BecomeLeader(r.from, currentTerm[r.from]) /\ UNCHANGED currentTerm
    <3>1. /\ leaderHint' = [leaderHint EXCEPT ![r.from] = r.from]
          /\ elected' = elected \cup
               {[term |-> currentTerm[r.from], node |-> r.from]}
      BY Zenon, <2>3 DEF BecomeLeader
    <3>2. /\ Only(r.from) /\ leaderHint'[r.from] = r.from
          /\ currentTerm'[r.from] = currentTerm[r.from]
      BY Zenon, <1>0, <2>1, <2>3, <3>1
    <3> QED BY SMTT(20), <1>3, <2>1, <3>1, <3>2
  <2> HIDE DEF OK
  <2> QED BY Zenon, <1>6, <1>7, <2>1, <2>2, <2>3 DEF OnVoteReply
<1>8. ASSUME NEW m \in appReq, OnAppendEntries(m) PROVE OK
  <2>1. m.to \in Node /\ m.from \in Node
    BY Zenon, FieldTypes
  <2>2. \/ UNCHANGED <<currentTerm, leaderHint>>
        \/ /\ currentTerm' = [currentTerm EXCEPT ![m.to] = m.term]
           /\ leaderHint' = [leaderHint EXCEPT ![m.to] = m.from]
    BY <1>8, ZenonT(40) DEF OnAppendEntries
  <2>3. [term |-> m.term, node |-> m.from] \in elected'
    BY Zenon, HistoriesGrow DEF LeadersElected
  <2>4. CASE UNCHANGED <<currentTerm, leaderHint>>
    BY Zenon, <1>1, <2>4
  <2>5. CASE /\ currentTerm' = [currentTerm EXCEPT ![m.to] = m.term]
             /\ leaderHint' = [leaderHint EXCEPT ![m.to] = m.from]
    <3>1. /\ Only(m.to)
          /\ currentTerm'[m.to] = m.term /\ leaderHint'[m.to] = m.from
      BY Zenon, <1>0, <2>1, <2>5
    <3> QED BY Zenon, <1>3, <2>1, <2>3, <3>1
  <2> QED BY Zenon, <2>2, <2>4, <2>5
<1>9. ASSUME NEW r \in appRep, OnAppendReply(r) PROVE OK
  <2>1. r.from \in Node
    BY Zenon, FieldTypes
  <2>2. CASE UNCHANGED <<currentTerm, leaderHint>>
    BY Zenon, <1>1, <2>2
  <2> HIDE DEF OK
  <2> QED BY Zenon, <1>6, <1>9, <2>1, <2>2 DEF OnAppendReply
<1>10. ASSUME NEW i \in Node, Crash(i) \/ CrashInElection(i) PROVE OK
  <2>1. /\ leaderHint' = [leaderHint EXCEPT ![i] = None]
        /\ \/ currentTerm' = currentTerm
           \/ currentTerm' = [currentTerm EXCEPT ![i] = currentTerm[i] + 1]
    BY Zenon, <1>10 DEF Crash, CrashInElection, Reboot
  <2>2. Only(i) /\ leaderHint'[i] = None
    BY Zenon, <1>0, <2>1
  <2> QED BY Zenon, <1>2, <2>2
<1>11. ASSUME NEW m \in voteReq \cup appReq,
              CrashInStepDown(m) \/ CrashInAppend(m)
       PROVE  OK
  <2>1. m.to \in Node
    BY Zenon, FieldTypes
  <2>2. /\ leaderHint' = [leaderHint EXCEPT ![m.to] = None]
        /\ currentTerm' = [currentTerm EXCEPT ![m.to] = m.term]
    BY Zenon, <1>11 DEF CrashInStepDown, CrashInAppend, Reboot
  <2>3. Only(m.to) /\ leaderHint'[m.to] = None
    BY Zenon, <1>0, <2>1, <2>2
  <2> QED BY Zenon, <1>2, <2>1, <2>3
<1>12. ASSUME \/ \E i \in Node : \/ \E c \in Command : Submit(i, c)
                                 \/ RejectSubmit(i)
                                 \/ \E p \in Node : SendAppend(i, p)
              \/ VoteCallFails
              \/ AppendCallFails
              \/ UNCHANGED vars
       PROVE  OK
  <2>1. CASE \E i \in Node : \/ \E c \in Command : Submit(i, c)
                           \/ \E p \in Node : SendAppend(i, p)
    <3>1. ASSUME NEW i, NEW c, Submit(i, c)
          PROVE  UNCHANGED <<currentTerm, leaderHint>>
      BY Zenon, <3>1 DEF Submit
    <3>2. ASSUME NEW i, NEW p, SendAppend(i, p)
          PROVE  UNCHANGED <<currentTerm, leaderHint>>
      BY Zenon, <3>2 DEF SendAppend
    <3> QED BY Zenon, <1>1, <2>1, <3>1, <3>2
  <2>2. CASE VoteCallFails \/ AppendCallFails
    BY Zenon, <1>1, <2>2 DEF VoteCallFails, AppendCallFails
  <2>3. CASE (\E i \in Node : RejectSubmit(i)) \/ UNCHANGED vars
    BY Zenon, <1>1, <2>3 DEF RejectSubmit, vars
  <2> QED BY ZenonT(40), <1>12, <2>1, <2>2, <2>3
<1>13. OK
  <2> HIDE DEF OK
  <2> QED BY Zenon, <1>4, <1>5, <1>6, <1>7, <1>8, <1>9, <1>10, <1>11, <1>12
             DEF Next
<1> QED BY Zenon, <1>13

\* Every step keeps leaders, their calls and the hints to them among the elected.
LEMMA LeadersElectedStep ==
  ASSUME SetFacts, TypeOK, TypeOK', [Next]_vars, WonByMajority, LeadersElected,
         IndexesInLog
  PROVE  LeadersElected'
BY Zenon, RolesElectedStep, AppendCallsElectedStep, LeaderHintStep
   DEF LeadersElected

-----------------------------------------------------------------------------
(* The indices of a leader.                                                *)

\* A leader's indices stay within its log.
LEMMA IndexesInLogStep ==
  ASSUME SetFacts, TypeOK, TypeOK', [Next]_vars, WonByMajority, LeadersElected,
         IndexesInLog, CallsInLog
  PROVE  IndexesInLog'
<1> SUFFICES ASSUME NEW i \in Node, NEW p \in Node, role'[i] = "leader"
             PROVE  /\ nextIndex'[i][p] <= Len(log'[i]) + 1
                    /\ matchIndex'[i][p] <= Len(log'[i])
  BY Zenon DEF IndexesInLog
<1> DEFINE OK == /\ nextIndex'[i][p] <= Len(log'[i]) + 1
                 /\ matchIndex'[i][p] <= Len(log'[i])
<1>0. /\ nextIndex \in [Node -> [Node -> Nat \ {0}]]
      /\ matchIndex \in [Node -> [Node -> Nat]]
  BY ZenonT(40) DEF TypeOK
<1>1. log[i] \in Seq(Entry) /\ Len(log[i]) \in Nat /\ DOMAIN log = Node
  BY DEF TypeOK
<1>2. ASSUME role[i] = "leader"
      PROVE  /\ nextIndex[i][p] <= Len(log[i]) + 1
             /\ matchIndex[i][p] <= Len(log[i])
  BY Zenon, <1>2 DEF IndexesInLog
<1>3. ASSUME StaysLeader(i) PROVE OK
  BY Zenon, <1>2, <1>3 DEF StaysLeader
<1>4. ASSUME BecomesLeader(i) PROVE OK
  <2> DEFINE e == [term |-> currentTerm'[i], command |-> NoOp]
             lg == Append(log[i], e)
  <2>1. Len(lg) = Len(log[i]) + 1
    BY SMTT(20), <1>1
  <2>2. log' = [log EXCEPT ![i] = lg]
    BY Zenon, <1>4 DEF BecomesLeader, BecomeLeader
  <2>3. nextIndex' = [nextIndex EXCEPT ![i] = [q \in Node |-> Len(log[i]) + 1]]
    BY Zenon, <1>4 DEF BecomesLeader, BecomeLeader
  <2>4. matchIndex' = [matchIndex EXCEPT ![i] =
                         [q \in Node |-> IF q = i THEN Len(lg) ELSE 0]]
    BY Zenon, <1>4 DEF BecomesLeader, BecomeLeader
  <2> HIDE DEF lg
  <2>5. log'[i] = lg
    BY Zenon, <1>1, <2>2
  <2>6. nextIndex'[i][p] = Len(log[i]) + 1
    BY Zenon, <1>0, <2>3
  <2>7. matchIndex'[i][p] = IF p = i THEN Len(lg) ELSE 0
    BY Zenon, <1>0, <2>4
  <2> QED BY SMTT(20), <1>1, <2>1, <2>5, <2>6, <2>7
<1>5. ASSUME NEW c \in Command, Submit(i, c) PROVE OK
  <2> DEFINE lg == Append(log[i], [term |-> currentTerm[i], command |-> c])
  <2>1. Len(lg) = Len(log[i]) + 1
    BY <1>1
  <2>2. log' = [log EXCEPT ![i] = lg] /\ role[i] = "leader"
    BY Zenon, <1>5 DEF Submit
  <2>3. matchIndex' = [matchIndex EXCEPT ![i] = [matchIndex[i] EXCEPT ![i] = Len(lg)]]
    BY Zenon, <1>5 DEF Submit
  <2>4. nextIndex' = nextIndex
    BY Zenon, <1>5 DEF Submit
  <2> HIDE DEF lg
  <2>5. log'[i] = lg
    BY Zenon, <1>1, <2>2
  <2>6. matchIndex'[i][p] = Len(lg) \/ matchIndex'[i][p] = matchIndex[i][p]
    BY Zenon, <1>0, <2>3
  <2>7. nextIndex[i][p] \in Nat /\ matchIndex[i][p] \in Nat
    BY Zenon, <1>0
  <2> QED BY <1>1, <1>2, <2>1, <2>2, <2>4, <2>5, <2>6, <2>7
<1>6. ASSUME NEW r \in appRep, r.from = i, role[i] = "leader", OnAppendReply(r)
      PROVE  OK
  <2>1. r.to \in Node /\ r.match \in Nat /\ r.conflictIndex \in Nat
    BY Zenon, FieldTypes
  <2>2. CASE UNCHANGED <<log, nextIndex, matchIndex>>
    BY Zenon, <1>2, <1>6, <2>2
  <2> DEFINE mx == Max({matchIndex[i][r.to], r.match})
             bk == BackUp(r.conflictIndex, Len(log[i]))
  <2>3. CASE /\ currentTerm[i] = r.term
             /\ matchIndex' = [matchIndex EXCEPT ![i] =
                                  [matchIndex[i] EXCEPT ![r.to] = mx]]
             /\ nextIndex' = [nextIndex EXCEPT ![i][r.to] =
                                 [matchIndex[i] EXCEPT ![r.to] = mx][r.to] + 1]
             /\ log' = log
    <3>1. r.match <= Len(log[i])
      BY Zenon, <1>6, <2>3 DEF CallsInLog
    <3>2. matchIndex[i][r.to] \in Nat /\ matchIndex[i][r.to] <= Len(log[i])
      BY Zenon, <1>0, <1>6, <2>1 DEF IndexesInLog
    <3>3. mx \in Nat /\ mx <= Len(log[i])
      BY Zenon, <2>1, <3>1, <3>2, MaxOfTwo
    <3> HIDE DEF mx
    <3>4. [matchIndex[i] EXCEPT ![r.to] = mx][r.to] = mx
      BY Zenon, <1>0, <2>1
    <3>5. nextIndex'[i][p] = mx + 1 \/ nextIndex'[i][p] = nextIndex[i][p]
      BY Zenon, <1>0, <2>1, <2>3, <3>4
    <3>6. matchIndex'[i][p] = mx \/ matchIndex'[i][p] = matchIndex[i][p]
      BY Zenon, <1>0, <2>1, <2>3
    <3> QED BY <1>1, <1>2, <1>6, <2>3, <3>3, <3>5, <3>6
  <2>4. CASE /\ nextIndex' = [nextIndex EXCEPT ![i][r.to] = bk]
             /\ UNCHANGED <<log, matchIndex>>
    <3>1. bk \in 1..(Len(log[i]) + 1)
      BY ZenonT(40), <1>1, <2>1, BackUpIs
    <3> HIDE DEF bk
    <3>2. nextIndex'[i][p] = bk \/ nextIndex'[i][p] = nextIndex[i][p]
      BY Zenon, <1>0, <2>1, <2>4
    <3> QED BY SMTT(20), <1>1, <1>2, <1>6, <2>4, <3>1, <3>2
  <2>5. CASE BecomeFollower(i, r.rterm)
    BY Zenon, <2>2, <2>5 DEF BecomeFollower
  <2> HIDE DEF OK, mx, bk
  <2> QED BY Zenon, <1>6, <2>2, <2>3, <2>4, <2>5 DEF OnAppendReply, mx, bk
<1>7. OK
  <2> HIDE DEF OK
  <2> QED BY Zenon, <1>3, <1>4, <1>5, <1>6, LeaderSteps
<1> QED BY Zenon, <1>7

\* The log of a leader that was leader before in the same term has not shrunk,
\* and a new leader has no calls of its term yet.
LEMMA CallsInLogStep ==
  ASSUME SetFacts, TypeOK, TypeOK', [Next]_vars, WonByMajority, LeadersElected,
         IndexesInLog, CallsInLog
  PROVE  CallsInLog'
<1>0. log \in [Node -> Seq(Entry)] /\ log' \in [Node -> Seq(Entry)]
  BY Zenon DEF TypeOK
<1>1. ASSUME NEW i \in Node, role'[i] = "leader", NEW t,
             currentTerm'[i] = t, [term |-> t, node |-> i] \in elected
      PROVE  /\ role[i] = "leader" /\ currentTerm[i] = t
             /\ Len(log[i]) <= Len(log'[i])
  <2> DEFINE OK == /\ role[i] = "leader" /\ currentTerm[i] = t
                   /\ Len(log[i]) <= Len(log'[i])
  <2>0. log[i] \in Seq(Entry) /\ Len(log[i]) \in Nat /\ DOMAIN log = Node
    BY DEF TypeOK
  <2>1. CASE StaysLeader(i)
    BY SMTT(20), <1>1, <2>0, <2>1 DEF StaysLeader
  <2>2. CASE BecomesLeader(i)
    BY Zenon, <1>1, <2>2 DEF BecomesLeader
  <2>3. ASSUME NEW c \in Command, Submit(i, c) PROVE OK
    <3> DEFINE lg == Append(log[i], [term |-> currentTerm[i], command |-> c])
    <3>1. Len(lg) = Len(log[i]) + 1
      BY <2>0
    <3>2. /\ log' = [log EXCEPT ![i] = lg] /\ role[i] = "leader"
          /\ currentTerm' = currentTerm
      BY Zenon, <2>3 DEF Submit
    <3> HIDE DEF lg
    <3>3. log'[i] = lg
      BY Zenon, <2>0, <3>2
    <3> QED BY <1>1, <2>0, <3>1, <3>2, <3>3
  <2>4. ASSUME NEW r \in appRep, r.from = i, role[i] = "leader", OnAppendReply(r)
        PROVE  OK
    <3>1. log' = log
      BY Zenon, <2>4 DEF OnAppendReply, BecomeFollower
    <3>2. currentTerm' = currentTerm \/ BecomeFollower(i, r.rterm)
      BY Zenon, <2>4 DEF OnAppendReply
    <3>3. ~BecomeFollower(i, r.rterm)
      <4>1. role \in [Node -> {"follower", "candidate", "leader"}]
        BY Zenon DEF TypeOK
      <4> QED BY Zenon, <1>1, <4>1 DEF BecomeFollower
    <3> QED BY SMTT(20), <1>1, <2>0, <2>4, <3>1, <3>2, <3>3
  <2>5. OK
    <3> HIDE DEF OK
    <3> QED BY Zenon, <1>1, <2>1, <2>2, <2>3, <2>4, LeaderSteps DEF OK
  <2> QED BY Zenon, <2>5
<1>2. ASSUME NEW n \in appReq, NEW m, SameArgs(m, n)
      PROVE  /\ (role'[m.from] = "leader" /\ currentTerm'[m.from] = m.term)
                  => m.prevLogIndex + Len(m.entries) <= Len(log'[m.from])
             /\ m.prevLogIndex = 0 => m.prevLogTerm = 0
  <2>1. n.from \in Node /\ n.prevLogIndex \in Nat /\ Len(n.entries) \in Nat
    BY FieldTypes
  <2>2. [term |-> n.term, node |-> n.from] \in elected
    BY Zenon DEF LeadersElected
  <2>3. n.prevLogIndex = 0 => n.prevLogTerm = 0
    BY Zenon DEF CallsInLog
  <2>4. ASSUME role'[n.from] = "leader", currentTerm'[n.from] = n.term
        PROVE  n.prevLogIndex + Len(n.entries) <= Len(log'[n.from])
    <3>1. /\ role[n.from] = "leader" /\ currentTerm[n.from] = n.term
          /\ Len(log[n.from]) <= Len(log'[n.from])
      BY Zenon, <1>1, <2>1, <2>2, <2>4
    <3>2. n.prevLogIndex + Len(n.entries) <= Len(log[n.from])
      BY Zenon, <3>1 DEF CallsInLog
    <3>3. Len(log[n.from]) \in Nat /\ Len(log'[n.from]) \in Nat
      BY <1>0, <2>1
    <3> QED BY SMTT(20), <2>1, <3>1, <3>2, <3>3
  <2> QED BY Zenon, <1>2, <2>3, <2>4 DEF SameArgs
<1>3. ASSUME NEW m \in appReq'
      PROVE  /\ (role'[m.from] = "leader" /\ currentTerm'[m.from] = m.term)
                  => m.prevLogIndex + Len(m.entries) <= Len(log'[m.from])
             /\ m.prevLogIndex = 0 => m.prevLogTerm = 0
  <2>1. CASE m \in appReq \/ \E n \in appReq : SameArgs(m, n)
    BY Zenon, <1>2, <2>1 DEF SameArgs
  <2>2. CASE m \notin appReq /\ \E i, p \in Node : SendAppend(i, p)
    <3>1. PICK i \in Node, p \in Node : SendAppend(i, p)
      BY Zenon, <2>2
    <3>2. log' = log
      BY ZenonT(40), <3>1 DEF SendAppend
    <3> QED BY Zenon, <2>2, <3>1, <3>2, SentAppend
  <2> QED BY Zenon, <2>1, <2>2, AppendCallsOrigin
<1>4. ASSUME NEW r \in appRep', role'[r.from] = "leader",
             currentTerm'[r.from] = r.term
      PROVE  r.match <= Len(log'[r.from])
  <2>1. CASE r \in appRep
    <3>1. r.from \in Node /\ r.match \in Nat
      BY Zenon, <2>1, FieldTypes
    <3>2. [term |-> r.term, node |-> r.from] \in elected
      BY Zenon, <2>1 DEF LeadersElected
    <3>3. /\ role[r.from] = "leader" /\ currentTerm[r.from] = r.term
          /\ Len(log[r.from]) <= Len(log'[r.from])
      BY Zenon, <1>1, <1>4, <3>1, <3>2
    <3>4. r.match <= Len(log[r.from])
      BY Zenon, <2>1, <3>3 DEF CallsInLog
    <3>5. Len(log[r.from]) \in Nat /\ Len(log'[r.from]) \in Nat
      BY <1>0, <3>1
    <3> QED BY SMTT(20), <3>1, <3>3, <3>4, <3>5
  <2>2. ASSUME NEW m \in appReq, Answers(r, m)
        PROVE  r.match <= Len(log'[r.from])
    BY Zenon, <1>2, <1>4, <2>2 DEF Answers, SameArgs
  <2> QED BY Zenon, <2>1, <2>2, AppendCallsOrigin
<1> QED BY Zenon, <1>3, <1>4 DEF CallsInLog

\* The replicator of leader i for peer p waits for the answer to m, or has r.
Asks(m, i, p) == m.live /\ m.from = i /\ m.to = p /\ m.term = currentTerm[i]
Told(r, i, p) == r.from = i /\ r.to = p /\ r.term = currentTerm[i]

\* It makes one call at a time.
OneCall(i, p) ==
  /\ \A m, n \in appReq : Asks(m, i, p) /\ Asks(n, i, p) => m = n
  /\ \A r, s \in appRep : Told(r, i, p) /\ Told(s, i, p) => r = s
  /\ \A m \in appReq, r \in appRep : ~(Asks(m, i, p) /\ Told(r, i, p))

\* The call was made with the nextIndex_ of now; a rejection points below it; and
\* from the first confirmation on, nextIndex_ is the index after matchIndex_.
Rejected(r, i, p) == Told(r, i, p) /\ ~r.success /\ r.rterm = r.term
InStep(i, p) ==
  /\ \A m \in appReq : Asks(m, i, p) => m.prevLogIndex = nextIndex[i][p] - 1
  /\ \A r \in appRep : Rejected(r, i, p) =>
       /\ matchIndex[i][p] = 0
       /\ r.conflictIndex >= 1 /\ r.conflictIndex < nextIndex[i][p]
  /\ matchIndex[i][p] # 0 => nextIndex[i][p] = matchIndex[i][p] + 1

\* The inductive invariant of replicators.
ReplicatorInv ==
  /\ \A r \in appRep : r.from # r.to
  /\ \A i \in Node : role[i] = "leader" =>
       \A p \in Node \ {i} : OneCall(i, p) /\ InStep(i, p)

-----------------------------------------------------------------------------
(* The replicator of a leader for a peer, and its calls.                   *)

\* Calls are only given up or taken.
CallsEnd == (\A m \in appReq' : m.live => m \in appReq) /\ appRep' \subseteq appRep

\* What a caller leaves behind, nobody waits for.
LEMMA GivenUp ==
  ASSUME TypeOK, NEW C, NEW kept \in SUBSET appReq,
         appReq' \subseteq Abandoned(appReq, C, kept), appRep' \subseteq appRep
  PROVE  CallsEnd
<1>1. ASSUME NEW m \in appReq', m.live, m \notin appReq PROVE FALSE
  <2>1. PICK n \in kept : m = [n EXCEPT !.live = FALSE]
    BY Zenon, <1>1 DEF Abandoned
  <2>2. n \in AppendRequest
    BY Zenon DEF TypeOK
  <2> QED BY Zenon, <1>1, <2>1, <2>2 DEF AppendRequest
<1> QED BY Zenon, <1>1 DEF CallsEnd

\* A restart only ends calls.
LEMMA RebootEndsCalls ==
  ASSUME TypeOK, NEW i, Reboot(i)
  PROVE  CallsEnd
<1> DEFINE open == {m \in appReq : m.from = i /\ m.live}
<1>1. PICK kept \in SUBSET open :
        appReq' = {m \in Abandoned(appReq, open, kept) : m.to # i}
  BY Zenon DEF Reboot
<1>2. appRep' \subseteq appRep
  BY Zenon DEF Reboot
<1>3. /\ kept \in SUBSET appReq
      /\ appReq' \subseteq Abandoned(appReq, open, kept)
  BY Zenon, <1>1
<1> HIDE DEF open
<1> QED BY Zenon, <1>2, <1>3, GivenUp

\* So does a failed call.
LEMMA FailureEndsCalls ==
  ASSUME TypeOK, AppendCallFails
  PROVE  CallsEnd
<1>1. CASE \E r \in appRep : appRep' = appRep \ {r} /\ UNCHANGED appReq
  BY Zenon, <1>1 DEF CallsEnd
<1>2. ASSUME NEW m \in appReq, NEW kept \in SUBSET {m},
             appReq' = Abandoned(appReq, {m}, kept), UNCHANGED appRep
      PROVE  CallsEnd
  <2>1. kept \in SUBSET appReq /\ appReq' \subseteq Abandoned(appReq, {m}, kept)
    BY Zenon, <1>2
  <2> QED BY Zenon, <1>2, <2>1, GivenUp
<1> QED BY Zenon, <1>1, <1>2 DEF AppendCallFails

\* A step ends calls, makes one, or answers one.
LEMMA CallSteps ==
  ASSUME TypeOK, [Next]_vars
  PROVE  \/ CallsEnd
         \/ \E i, p \in Node : SendAppend(i, p)
         \/ \E m \in appReq : OnAppendEntries(m)
<1>1. ASSUME UNCHANGED <<appReq, appRep>> PROVE CallsEnd
  BY Zenon, <1>1 DEF CallsEnd
<1>2. ASSUME NEW r \in appRep, OnAppendReply(r) PROVE CallsEnd
  BY Zenon, <1>2 DEF OnAppendReply, CallsEnd
<1>3. ASSUME \/ \E i \in Node : Crash(i) \/ CrashInElection(i)
             \/ \E m \in voteReq \cup appReq : CrashInStepDown(m)
             \/ \E m \in appReq : CrashInAppend(m)
      PROVE  CallsEnd
  BY Zenon, <1>3, RebootEndsCalls DEF Crash, CrashInElection, CrashInStepDown,
     CrashInAppend
<1>4. ASSUME \/ \E i \in Node : \/ StartElection(i)
                                \/ \E c \in Command : Submit(i, c)
                                \/ RejectSubmit(i)
             \/ \E m \in voteReq : OnRequestVote(m)
             \/ \E q \in voteRep : OnVoteReply(q)
             \/ VoteCallFails \/ UNCHANGED vars
      PROVE  UNCHANGED <<appReq, appRep>>
  BY Zenon, <1>4 DEF StartElection, Submit, RejectSubmit, OnRequestVote,
     OnVoteReply,
     VoteCallFails, vars
<1> QED BY Zenon, <1>1, <1>2, <1>3, <1>4, FailureEndsCalls DEF Next

\* A new leader has made no call, and nobody has confirmed anything to it.
LEMMA NewLeaderIsIdle ==
  ASSUME ElectionInv, [Next]_vars, NEW i \in Node, NEW p \in Node, p # i,
         BecomesLeader(i)
  PROVE  /\ \A m \in appReq' : ~Asks(m, i, p)'
         /\ \A r \in appRep' : ~Told(r, i, p)'
         /\ matchIndex'[i][p] = 0
<1> DEFINE win == [term |-> currentTerm'[i], node |-> i]
<1>0. TypeOK /\ LeadersElected /\ matchIndex \in [Node -> [Node -> Nat]]
  BY Zenon DEF ElectionInv, TypeOK
<1>1. win \notin elected /\ win \in elected'
  BY Zenon DEF BecomesLeader, BecomeLeader
<1>2. ~ \E j, q \in Node : SendAppend(j, q)
  <2>1. ASSUME NEW j, NEW q, SendAppend(j, q) PROVE elected' = elected
    BY Zenon, <2>1 DEF SendAppend
  <2> QED BY Zenon, <1>1, <2>1
<1>3. ASSUME NEW m \in appReq', m.from = i, m.term = currentTerm'[i] PROVE FALSE
  <2>1. PICK n \in appReq : SameArgs(m, n)
    BY Zenon, <1>0, <1>2, <1>3, AppendCallsOrigin
  <2> QED BY Zenon, <1>0, <1>1, <1>3, <2>1 DEF SameArgs, LeadersElected
<1>4. ASSUME NEW r \in appRep', r.from = i, r.term = currentTerm'[i] PROVE FALSE
  <2>1. r \in appRep \/ \E m \in appReq : Answers(r, m)
    BY Zenon, <1>0, <1>4, AppendCallsOrigin
  <2> QED BY Zenon, <1>0, <1>1, <1>4, <2>1 DEF Answers, LeadersElected
<1>5. matchIndex'[i][p] = 0
  <2>1. PICK match : /\ match = [q \in Node |-> IF q = i
                                   THEN Len(Append(log[i], [term |-> currentTerm'[i],
                                                            command |-> NoOp]))
                                   ELSE 0]
                     /\ matchIndex' = [matchIndex EXCEPT ![i] = match]
    BY Zenon DEF BecomesLeader, BecomeLeader
  <2>2. match[p] = 0
    BY Zenon, <2>1
  <2> HIDE DEF win
  <2>3. matchIndex'[i] = match
    BY Zenon, <1>0, <2>1
  <2> QED BY Zenon, <2>2, <2>3
<1> QED BY Zenon, <1>3, <1>4, <1>5 DEF Asks, Told

\* Calls that end disturb nothing, as long as the indexes stay.
LEMMA EndKeeps ==
  ASSUME NEW i \in Node, NEW p \in Node, OneCall(i, p), InStep(i, p), CallsEnd,
         currentTerm'[i] = currentTerm[i], nextIndex'[i][p] = nextIndex[i][p],
         matchIndex'[i][p] = matchIndex[i][p]
  PROVE  OneCall(i, p)' /\ InStep(i, p)'
<1>1. /\ \A m \in appReq' : Asks(m, i, p)' => m \in appReq /\ Asks(m, i, p)
      /\ \A r \in appRep' : Told(r, i, p)' => r \in appRep /\ Told(r, i, p)
  BY Zenon DEF CallsEnd, Asks, Told
<1>2. OneCall(i, p)'
  BY Zenon, <1>1 DEF OneCall
<1>3. InStep(i, p)'
  BY Zenon, <1>1 DEF InStep, Rejected
<1> QED BY Zenon, <1>2, <1>3

\* A call is made when none is out, and from nextIndex_.
LEMMA SendKeeps ==
  ASSUME NEW i \in Node, NEW p \in Node, role[i] = "leader",
         OneCall(i, p), InStep(i, p),
         NEW j \in Node, NEW q \in Node, SendAppend(j, q)
  PROVE  OneCall(i, p)' /\ InStep(i, p)'
<1>1. /\ appRep' = appRep /\ currentTerm' = currentTerm
      /\ nextIndex' = nextIndex /\ matchIndex' = matchIndex
      /\ ~Replicating(j, q)
  BY Zenon DEF SendAppend
<1>2. PICK c : /\ appReq' = appReq \cup {c}
               /\ c = [from |-> j, to |-> q, term |-> currentTerm[j],
                       prevLogIndex |-> nextIndex[j][q] - 1,
                       prevLogTerm |-> TermAt(log[j], nextIndex[j][q] - 1),
                       entries |-> Batch(log[j], nextIndex[j][q] - 1 + 1, MaxBatch),
                       leaderCommit |-> commitIndex[j], live |-> TRUE]
  BY Zenon DEF SendAppend
<1>3. c.from = j /\ c.to = q /\ c.prevLogIndex = nextIndex[j][q] - 1
  BY Zenon, <1>2
<1>4. CASE j = i /\ q = p
  <2>1. /\ \A m \in appReq : ~Asks(m, i, p)
        /\ \A r \in appRep : ~Told(r, i, p)
    BY Zenon, <1>1, <1>4 DEF Replicating, Asks, Told
  <2>2. /\ \A m \in appReq' : Asks(m, i, p)' => m = c
        /\ \A r \in appRep' : ~Told(r, i, p)'
    BY Zenon, <1>1, <1>2, <2>1 DEF Asks, Told
  <2>3. OneCall(i, p)'
    BY Zenon, <2>2 DEF OneCall
  <2>4. InStep(i, p)'
    BY Zenon, <1>1, <1>3, <1>4, <2>2 DEF InStep, Rejected
  <2> QED BY Zenon, <2>3, <2>4
<1>5. CASE ~(j = i /\ q = p)
  <2>1. /\ \A m \in appReq' : Asks(m, i, p)' => m \in appReq /\ Asks(m, i, p)
        /\ \A r \in appRep' : Told(r, i, p)' => r \in appRep /\ Told(r, i, p)
    BY Zenon, <1>1, <1>2, <1>3, <1>5 DEF Asks, Told
  <2>2. OneCall(i, p)'
    BY Zenon, <2>1 DEF OneCall
  <2>3. InStep(i, p)'
    BY Zenon, <1>1, <2>1 DEF InStep, Rejected
  <2> QED BY Zenon, <2>2, <2>3
<1> QED BY Zenon, <1>4, <1>5

\* onAppendEntries answers a caller that waits, and rejects in the caller's term
\* only when the entry before the batch is not there.
LEMMA AnswerIs ==
  ASSUME TypeOK, NEW m \in appReq, OnAppendEntries(m), NEW r \in appRep', r \notin appRep
  PROVE  /\ m.live /\ Answers(r, m) /\ appRep' = appRep \cup {r}
         /\ \/ r.success
            \/ r.rterm # r.term
            \/ /\ ~Matches(log[m.to], m.prevLogIndex, m.prevLogTerm)
               /\ m.term >= currentTerm[m.to]
               /\ r.conflictIndex = ConflictIndex(log[m.to], m.prevLogIndex)
<1> DEFINE cx == ConflictIndex(log[m.to], m.prevLogIndex)
<1>0. m.term \in Nat /\ currentTerm[m.to] \in Nat
  BY Zenon, FieldTypes DEF TypeOK
<1>1. \/ /\ m.term < currentTerm[m.to]
         /\ appRep' = appRep \cup AppendReplyTo(m, currentTerm[m.to], FALSE, 0)
      \/ /\ m.term >= currentTerm[m.to]
         /\ ~Matches(log[m.to], m.prevLogIndex, m.prevLogTerm)
         /\ appRep' = appRep \cup AppendReplyTo(m, m.term, FALSE, cx)
      \/ appRep' = appRep \cup AppendReplyTo(m, m.term, TRUE, 0)
  BY ZenonT(40) DEF OnAppendEntries
<1>4. Answers(r, m)
  BY Zenon, NewAppendReply DEF Answers
<1> HIDE DEF cx
<1>5. ASSUME NEW t, NEW s, NEW x, appRep' = appRep \cup AppendReplyTo(m, t, s, x)
      PROVE  /\ m.live /\ appRep' = appRep \cup {r}
             /\ r.rterm = t /\ r.success = s /\ r.conflictIndex = x
  <2>1. PICK q : q = [from |-> m.from, to |-> m.to, term |-> m.term,
                      match |-> m.prevLogIndex + Len(m.entries), rterm |-> t,
                      success |-> s, conflictIndex |-> x]
    BY Zenon
  <2>2. q.rterm = t /\ q.success = s /\ q.conflictIndex = x
    BY Zenon, <2>1
  <2>3. AppendReplyTo(m, t, s, x) = IF m.live THEN {q} ELSE {}
    BY Zenon, <2>1 DEF AppendReplyTo
  <2>4. r \in AppendReplyTo(m, t, s, x)
    BY Zenon, <1>5
  <2>5. m.live
    BY Zenon, <2>3, <2>4
  <2>6. AppendReplyTo(m, t, s, x) = {q}
    BY Zenon, <2>3, <2>5
  <2>7. r = q
    BY Zenon, <2>4, <2>6
  <2> QED BY Zenon, <1>5, <2>2, <2>5, <2>6, <2>7
<1>6. CASE /\ m.term < currentTerm[m.to]
           /\ appRep' = appRep \cup AppendReplyTo(m, currentTerm[m.to], FALSE, 0)
  <2>1. m.live /\ appRep' = appRep \cup {r} /\ r.rterm = currentTerm[m.to]
    BY Zenon, <1>5, <1>6
  <2>2. r.rterm # r.term
    BY <1>0, <1>4, <1>6, <2>1 DEF Answers
  <2> QED BY Zenon, <1>4, <2>1, <2>2
<1>7. CASE /\ m.term >= currentTerm[m.to]
           /\ ~Matches(log[m.to], m.prevLogIndex, m.prevLogTerm)
           /\ appRep' = appRep \cup AppendReplyTo(m, m.term, FALSE, cx)
  <2>1. m.live /\ appRep' = appRep \cup {r} /\ r.conflictIndex = cx
    BY Zenon, <1>5, <1>7
  <2> QED BY Zenon, <1>4, <1>7, <2>1 DEF cx
<1>8. CASE appRep' = appRep \cup AppendReplyTo(m, m.term, TRUE, 0)
  <2>1. m.live /\ appRep' = appRep \cup {r} /\ r.success = TRUE
    BY Zenon, <1>5, <1>8
  <2> QED BY Zenon, <1>4, <2>1
<1> QED BY Zenon, <1>1, <1>6, <1>7, <1>8

\* A call that a peer rejects was made before the peer confirmed anything.
LEMMA RejectedUnconfirmed ==
  ASSUME ElectionInv, AckInv, NEW i \in Node, NEW p \in Node, p # i,
         role[i] = "leader", InStep(i, p), NEW m \in appReq, Asks(m, i, p),
         ~Matches(log[p], m.prevLogIndex, m.prevLogTerm), m.term >= currentTerm[p]
  PROVE  /\ matchIndex[i][p] = 0 /\ m.prevLogIndex # 0
         /\ m.prevLogIndex < nextIndex[i][p]
<1> DEFINE n == matchIndex[i][p]
           prev == m.prevLogIndex
<1>0. /\ n \in Nat /\ prev \in Nat /\ nextIndex[i][p] \in Nat
      /\ log[i] \in Seq(Entry) /\ log[p] \in Seq(Entry)
      /\ currentTerm[i] \in Nat /\ currentTerm[p] \in Nat /\ TypeOK
  BY Zenon, FieldTypes DEF ElectionInv, TypeOK
<1>1. /\ prev = nextIndex[i][p] - 1
      /\ m.from = i /\ m.term = currentTerm[i]
      /\ n # 0 => nextIndex[i][p] = n + 1
  BY Zenon DEF InStep, Asks
<1>2. TermAt(log[i], prev) = m.prevLogTerm
  BY Zenon, <1>1 DEF AckInv, CallsShowLog
<1>3. prev # 0
  <2>1. prev = 0 => m.prevLogTerm = 0
    BY Zenon DEF ElectionInv, CallsInLog
  <2> QED BY <1>0, <2>1 DEF Matches, TermAt
<1>4. n = 0
  <2> SUFFICES ASSUME n # 0 PROVE FALSE
    BY Zenon
  <2>1. prev = n
    BY <1>0, <1>1
  <2>2. n \in 1..Len(log[i]) /\ n >= n
    BY <1>0 DEF ElectionInv, IndexesInLog
  <2>3. Acked(i, p, n)
    BY Zenon, <2>2 DEF Acked
  <2>4. /\ currentTerm[p] >= currentTerm[i]
        /\ currentTerm[p] = currentTerm[i] => SameUpTo(log[i], log[p], n)
    BY Zenon, <2>2, <2>3 DEF AckInv, AcksTruthful
  <2>5. SameUpTo(log[i], log[p], n)
    BY <1>0, <1>1, <2>4
  <2> HIDE DEF n, prev
  <2>6. n <= Len(log[p]) /\ log[p][n] = log[i][n]
    BY <1>0, <2>2, <2>5 DEF SameUpTo
  <2>7. Matches(log[p], prev, m.prevLogTerm)
    BY Zenon, <1>0, <1>2, <1>3, <2>1, <2>6 DEF Matches, TermAt
  <2> QED BY Zenon, <2>7 DEF prev
<1>5. prev < nextIndex[i][p]
  BY <1>0, <1>1
<1> QED BY Zenon, <1>3, <1>4, <1>5

\* An answer takes the place of its call.
LEMMA AnswerKeeps ==
  ASSUME SetFacts, ElectionInv, AckInv, NEW i \in Node, NEW p \in Node, p # i,
         role[i] = "leader", OneCall(i, p), InStep(i, p),
         NEW m \in appReq, OnAppendEntries(m),
         currentTerm'[i] = currentTerm[i], nextIndex' = nextIndex,
         matchIndex' = matchIndex
  PROVE  OneCall(i, p)' /\ InStep(i, p)'
<1>0. TypeOK /\ appReq' = appReq \ {m}
  BY Zenon DEF ElectionInv, OnAppendEntries
<1>1. CASE appRep' \subseteq appRep
  <2>1. CallsEnd
    BY Zenon, <1>0, <1>1 DEF CallsEnd
  <2> QED BY Zenon, <2>1, EndKeeps
<1>2. ASSUME NEW r \in appRep', r \notin appRep
      PROVE  OneCall(i, p)' /\ InStep(i, p)'
  <2>1. /\ m.live /\ Answers(r, m) /\ appRep' = appRep \cup {r}
        /\ \/ r.success
           \/ r.rterm # r.term
           \/ /\ ~Matches(log[m.to], m.prevLogIndex, m.prevLogTerm)
              /\ m.term >= currentTerm[m.to]
              /\ r.conflictIndex = ConflictIndex(log[m.to], m.prevLogIndex)
    BY Zenon, <1>0, <1>2, AnswerIs
  <2>2. CASE Asks(m, i, p)
    <3>1. /\ \A n \in appReq' : ~Asks(n, i, p)'
          /\ \A s \in appRep' : Told(s, i, p)' => s = r
      <4>1. \A n \in appReq : Asks(n, i, p) => n = m
        BY Zenon, <2>2 DEF OneCall
      <4>2. \A s \in appRep : ~Told(s, i, p)
        BY Zenon, <2>2 DEF OneCall
      <4> QED BY Zenon, <1>0, <2>1, <4>1, <4>2 DEF Asks, Told
    <3>2. OneCall(i, p)'
      BY Zenon, <3>1 DEF OneCall
    <3>3. ASSUME Rejected(r, i, p)'
          PROVE  /\ matchIndex[i][p] = 0
                 /\ r.conflictIndex >= 1 /\ r.conflictIndex < nextIndex[i][p]
      <4>1. /\ ~Matches(log[p], m.prevLogIndex, m.prevLogTerm)
            /\ m.term >= currentTerm[p]
            /\ r.conflictIndex = ConflictIndex(log[p], m.prevLogIndex)
        BY Zenon, <2>1, <2>2, <3>3 DEF Rejected, Asks
      <4>2. /\ matchIndex[i][p] = 0 /\ m.prevLogIndex # 0
            /\ m.prevLogIndex < nextIndex[i][p]
        BY Zenon, <2>2, <4>1, RejectedUnconfirmed
      <4>3. /\ log[p] \in Seq(Entry) /\ m.prevLogIndex \in Nat
            /\ nextIndex[i][p] \in Nat
        BY Zenon, <1>0, FieldTypes DEF TypeOK
      <4>4. ConflictIndex(log[p], m.prevLogIndex) \in 1..m.prevLogIndex
        BY Zenon, <4>2, <4>3, ConflictIndexIs
      <4> QED BY <4>1, <4>2, <4>3, <4>4
    <3>4. InStep(i, p)'
      <4>1. \A s \in appRep' : Rejected(s, i, p)' => s = r
        BY Zenon, <3>1 DEF Rejected
      <4>2. matchIndex[i][p] # 0 => nextIndex[i][p] = matchIndex[i][p] + 1
        BY Zenon DEF InStep
      <4> QED BY Zenon, <3>1, <3>3, <4>1, <4>2 DEF InStep
    <3> QED BY Zenon, <3>2, <3>4
  <2>3. CASE ~Asks(m, i, p)
    <3>1. /\ \A n \in appReq' : Asks(n, i, p)' => n \in appReq /\ Asks(n, i, p)
          /\ \A s \in appRep' : Told(s, i, p)' => s \in appRep /\ Told(s, i, p)
      BY Zenon, <1>0, <2>1, <2>3 DEF Asks, Told, Answers
    <3>2. OneCall(i, p)'
      BY Zenon, <3>1 DEF OneCall
    <3>3. InStep(i, p)'
      BY Zenon, <3>1 DEF InStep, Rejected
    <3> QED BY Zenon, <3>2, <3>3
  <2> QED BY Zenon, <2>2, <2>3
<1> QED BY Zenon, <1>1, <1>2

\* A replicator that takes its answer has no call out, and keeps its indexes in
\* step.
LEMMA ReplyKeeps ==
  ASSUME ElectionInv, NEW i \in Node, NEW p \in Node, p # i,
         role[i] = "leader", role'[i] = "leader", OneCall(i, p), InStep(i, p),
         NEW r \in appRep, r.from = i, OnAppendReply(r)
  PROVE  OneCall(i, p)' /\ InStep(i, p)'
<1>0. /\ TypeOK /\ appReq' = appReq /\ appRep' = appRep \ {r}
      /\ matchIndex \in [Node -> [Node -> Nat]]
      /\ nextIndex \in [Node -> [Node -> Nat \ {0}]]
      /\ r.to \in Node /\ role \in [Node -> {"follower", "candidate", "leader"}]
  <2>1. TypeOK
    BY Zenon DEF ElectionInv
  <2>2. appReq' = appReq /\ appRep' = appRep \ {r}
    BY Zenon DEF OnAppendReply
  <2> QED BY Zenon, <2>1, <2>2, FieldTypes DEF TypeOK
<1>1. \/ UNCHANGED <<currentTerm, nextIndex, matchIndex>> /\ r.term # currentTerm[i]
      \/ /\ r.term = currentTerm[i] /\ currentTerm' = currentTerm
         /\ \E x : /\ matchIndex' = [matchIndex EXCEPT ![i] =
                        [matchIndex[i] EXCEPT ![r.to] = Max({@, r.match})]]
                   /\ x = [matchIndex[i] EXCEPT ![r.to] = Max({@, r.match})]
                   /\ nextIndex' = [nextIndex EXCEPT ![i][r.to] = x[r.to] + 1]
      \/ /\ r.term = currentTerm[i] /\ currentTerm' = currentTerm
         /\ Rejected(r, i, r.to) /\ matchIndex' = matchIndex
         /\ \E y : nextIndex' = [nextIndex EXCEPT ![i][r.to] = y]
  <2>1. ~BecomeFollower(i, r.rterm)
    BY Zenon, <1>0 DEF BecomeFollower
  <2> QED BY ZenonT(60), <2>1 DEF OnAppendReply, Rejected, Told
<1>2. CallsEnd /\ currentTerm' = currentTerm
  <2>1. CallsEnd
    BY Zenon, <1>0 DEF CallsEnd
  <2> QED BY Zenon, <1>1, <2>1
<1>3. ASSUME nextIndex'[i][p] = nextIndex[i][p], matchIndex'[i][p] = matchIndex[i][p]
      PROVE  OneCall(i, p)' /\ InStep(i, p)'
  BY Zenon, <1>2, <1>3, EndKeeps
<1>4. CASE UNCHANGED <<currentTerm, nextIndex, matchIndex>>
  BY Zenon, <1>3, <1>4
<1>5. ASSUME r.to # p,
             \/ matchIndex' = matchIndex
             \/ \E x : matchIndex' = [matchIndex EXCEPT ![i] =
                                        [matchIndex[i] EXCEPT ![r.to] = x]],
             \E y : nextIndex' = [nextIndex EXCEPT ![i][r.to] = y]
      PROVE  OneCall(i, p)' /\ InStep(i, p)'
  <2>1. nextIndex'[i][p] = nextIndex[i][p]
    BY <1>0, <1>5
  <2>2. matchIndex'[i][p] = matchIndex[i][p]
    BY <1>0, <1>5
  <2> QED BY Zenon, <1>3, <2>1, <2>2
<1>6. ASSUME Told(r, i, p),
             matchIndex'[i][p] # 0 => nextIndex'[i][p] = matchIndex'[i][p] + 1
      PROVE  OneCall(i, p)' /\ InStep(i, p)'
  <2>1. /\ \A m \in appReq' : ~Asks(m, i, p)'
        /\ \A s \in appRep' : ~Told(s, i, p)'
    <3>1. \A m \in appReq : ~Asks(m, i, p)
      BY Zenon, <1>6 DEF OneCall
    <3>2. \A s \in appRep : Told(s, i, p) => s = r
      BY Zenon, <1>6 DEF OneCall
    <3> QED BY Zenon, <1>0, <1>2, <3>1, <3>2 DEF Asks, Told
  <2> QED BY Zenon, <1>6, <2>1 DEF OneCall, InStep, Rejected
<1>7. ASSUME NEW x, r.term = currentTerm[i],
             matchIndex' = [matchIndex EXCEPT ![i] =
                [matchIndex[i] EXCEPT ![r.to] = Max({@, r.match})]],
             x = [matchIndex[i] EXCEPT ![r.to] = Max({@, r.match})],
             nextIndex' = [nextIndex EXCEPT ![i][r.to] = x[r.to] + 1]
      PROVE  OneCall(i, p)' /\ InStep(i, p)'
  <2>1. CASE r.to # p
    BY Zenon, <1>5, <1>7, <2>1
  <2>2. CASE r.to = p
    <3>1. matchIndex'[i] = x /\ nextIndex'[i][p] = x[p] + 1
      BY Zenon, <1>0, <1>7, <2>2
    <3> QED BY Zenon, <1>6, <1>7, <2>2, <3>1 DEF Told
  <2> QED BY Zenon, <2>1, <2>2
<1>8. ASSUME r.term = currentTerm[i], Rejected(r, i, r.to), matchIndex' = matchIndex,
             \E y : nextIndex' = [nextIndex EXCEPT ![i][r.to] = y]
      PROVE  OneCall(i, p)' /\ InStep(i, p)'
  <2>1. CASE r.to # p
    BY Zenon, <1>5, <1>8, <2>1
  <2>2. CASE r.to = p
    <3>1. matchIndex'[i][p] = 0
      BY Zenon, <1>8, <2>2 DEF InStep
    <3> QED BY Zenon, <1>6, <1>8, <2>2, <3>1 DEF Rejected
  <2> QED BY Zenon, <2>1, <2>2
<1> QED BY Zenon, <1>1, <1>4, <1>7, <1>8

\* One step of the whole node keeps its replicators as they should be.
LEMMA ReplicatorStep ==
  ASSUME SetFacts, ElectionInv, ElectionInv', AckInv, [Next]_vars, ReplicatorInv
  PROVE  ReplicatorInv'
<1>0. /\ TypeOK /\ TypeOK' /\ WonByMajority /\ LeadersElected
      /\ matchIndex \in [Node -> [Node -> Nat]]
  BY Zenon DEF ElectionInv, TypeOK
<1>1. ASSUME NEW r \in appRep' PROVE r.from # r.to
  <2>1. r \in appRep \/ \E m \in appReq : Answers(r, m)
    BY Zenon, <1>0, AppendCallsOrigin
  <2> QED BY Zenon, <2>1 DEF ReplicatorInv, Answers, AckInv, CallsShowLog
<1>2. ASSUME NEW i \in Node, role'[i] = "leader", NEW p \in Node, p # i
      PROVE  OneCall(i, p)' /\ InStep(i, p)'
  <2>1. role[i] = "leader" => OneCall(i, p) /\ InStep(i, p)
    BY Zenon, <1>2 DEF ReplicatorInv
  <2>2. CASE BecomesLeader(i)
    <3>1. /\ \A m \in appReq' : ~Asks(m, i, p)'
          /\ \A r \in appRep' : ~Told(r, i, p)'
          /\ matchIndex'[i][p] = 0
      BY Zenon, <1>2, <2>2, NewLeaderIsIdle
    <3> QED BY Zenon, <3>1 DEF OneCall, InStep, Rejected
  <2>3. ASSUME NEW c \in Command, Submit(i, c)
        PROVE  OneCall(i, p)' /\ InStep(i, p)'
    <3>1. /\ role[i] = "leader" /\ currentTerm' = currentTerm /\ nextIndex' = nextIndex
          /\ UNCHANGED <<appReq, appRep>>
          /\ \E x : matchIndex' = [matchIndex EXCEPT ![i] = [matchIndex[i] EXCEPT ![i] = x]]
      BY Zenon, <2>3 DEF Submit
    <3>2. CallsEnd /\ matchIndex'[i][p] = matchIndex[i][p]
      BY Zenon, <1>0, <1>2, <3>1 DEF CallsEnd
    <3> QED BY Zenon, <2>1, <3>1, <3>2, EndKeeps
  <2>4. ASSUME NEW r \in appRep, r.from = i, role[i] = "leader", OnAppendReply(r)
        PROVE  OneCall(i, p)' /\ InStep(i, p)'
    BY Zenon, <1>2, <2>1, <2>4, ReplyKeeps
  <2>5. CASE StaysLeader(i)
    <3>1. /\ role[i] = "leader" /\ currentTerm'[i] = currentTerm[i]
          /\ nextIndex'[i][p] = nextIndex[i][p] /\ matchIndex'[i][p] = matchIndex[i][p]
      BY Zenon, <2>5 DEF StaysLeader
    <3>2. CASE CallsEnd
      BY Zenon, <2>1, <3>1, <3>2, EndKeeps
    <3>3. ASSUME NEW j \in Node, NEW q \in Node, SendAppend(j, q)
          PROVE  OneCall(i, p)' /\ InStep(i, p)'
      BY Zenon, <2>1, <3>1, <3>3, SendKeeps
    <3>4. ASSUME NEW m \in appReq, OnAppendEntries(m)
          PROVE  OneCall(i, p)' /\ InStep(i, p)'
      <4>1. nextIndex' = nextIndex /\ matchIndex' = matchIndex
        BY Zenon, <3>4 DEF OnAppendEntries
      <4> QED BY Zenon, <1>2, <2>1, <3>1, <3>4, <4>1, AnswerKeeps
    <3> QED BY Zenon, <1>0, <3>2, <3>3, <3>4, CallSteps
  <2> QED BY Zenon, <1>0, <1>2, <2>2, <2>3, <2>4, <2>5, LeaderSteps
<1> QED BY Zenon, <1>1, <1>2 DEF ReplicatorInv

\* Without a fault, a reply leaves when its replicator takes it.
LEMMA ReplyTaken ==
  ASSUME TypeOK, [Next]_vars, NEW r \in appRep, r \notin appRep', faults' = faults
  PROVE  OnAppendReply(r)
<1>0. faults \in Nat
  BY Zenon DEF TypeOK
<1>1. ~Fault
  BY <1>0 DEF Fault
<1>2. ASSUME NEW i, Reboot(i) PROVE FALSE
  BY Zenon, <1>1, <1>2 DEF Reboot
<1>3. ASSUME \/ \E i \in Node : Crash(i) \/ CrashInElection(i)
             \/ \E m \in voteReq \cup appReq : CrashInStepDown(m)
             \/ \E m \in appReq : CrashInAppend(m)
             \/ AppendCallFails
      PROVE  FALSE
  BY Zenon, <1>1, <1>2, <1>3 DEF Crash, CrashInElection, CrashInStepDown,
     CrashInAppend, AppendCallFails
<1>4. ASSUME NEW m \in appReq, OnAppendEntries(m) PROVE FALSE
  BY Zenon, <1>4, AppendReplies
<1>5. ASSUME NEW q \in appRep, OnAppendReply(q) PROVE q = r
  BY Zenon, <1>5 DEF OnAppendReply
<1>6. ASSUME \/ \E i \in Node : \/ StartElection(i)
                                \/ \E c \in Command : Submit(i, c)
                                \/ RejectSubmit(i)
                                \/ \E p \in Node : SendAppend(i, p)
             \/ \E m \in voteReq : OnRequestVote(m)
             \/ \E q \in voteRep : OnVoteReply(q)
             \/ VoteCallFails \/ UNCHANGED vars
      PROVE  FALSE
  BY Zenon, <1>6 DEF StartElection, Submit, RejectSubmit, SendAppend,
     OnRequestVote,
     OnVoteReply, VoteCallFails, vars
<1> QED BY Zenon, <1>3, <1>4, <1>5, <1>6 DEF Next

\* A new cluster satisfies the invariant.
LEMMA ElectionInvInit == Init => ElectionInv
<1> SUFFICES ASSUME Init PROVE ElectionInv
  BY Zenon
<1>1. TypeOK
  BY SMTT(20) DEF Init, TypeOK
<1>2. CallsWithinTerm /\ OneReplyPerCall /\ VotesRemembered
  BY Zenon DEF Init, CallsWithinTerm, OneReplyPerCall, VotesRemembered
<1>3. VotesCountedOnce /\ WonByMajority
  BY Zenon DEF Init, VotesCountedOnce, WonByMajority
<1>4. LeadersElected /\ IndexesInLog /\ CallsInLog
  BY Zenon DEF Init, LeadersElected, LeaderHintTruthful, IndexesInLog,
     CallsInLog
<1> QED BY Zenon, <1>1, <1>2, <1>3, <1>4 DEF ElectionInv

=============================================================================

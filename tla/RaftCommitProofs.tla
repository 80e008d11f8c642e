-------------------------- MODULE RaftCommitProofs --------------------------
(***************************************************************************)
(* What the steps of Raft do to commit indexes, and that commit indexes    *)
(* cover decided entries only, in behaviours in which batches reach them.  *)
(***************************************************************************)
EXTENDS RaftSafetyProofs, RaftRefinement

USE DEF persistent, leaderVars, voteCalls, appCalls, history

-----------------------------------------------------------------------------
(* What a step does to commit indexes.                                     *)

\* Leader i has counted a majority for a new commit index.
Counts(i) ==
  LET n == commitIndex'[i]
  IN  /\ role'[i] = "leader" /\ n > commitIndex[i]
      /\ n \in 1..Len(log'[i]) /\ n <= Len(committed')
      /\ log'[i][n].term = currentTerm'[i]
      /\ Cardinality({p \in Node : matchIndex'[i][p] >= n}) >= Majority

\* The part of the inductive invariant that is about elections and commits.
SafetyInv == CandidatesShowLog /\ LeadersAnchored /\ CommittedDecided

\* The peer of call m accepts it and goes by its leaderCommit.
Hears(m, lg) ==
  /\ Accepts(m, lg)
  /\ m.prevLogIndex + Len(m.entries) <= Len(lg)
  /\ commitIndex'[m.to] = FollowerCommit(commitIndex[m.to], m.leaderCommit, Len(lg))

\* The ways in which the commit index of node i may change.
CommitStep(i) ==
  \/ commitIndex'[i] = 0 /\ committed' = committed
  \/ commitIndex'[i] = commitIndex[i] /\ committed' = committed
  \/ Counts(i)
  \/ \E m \in appReq : \E lg \in Seq(Entry) : m.to = i /\ Hears(m, lg)

\* Only the commit index of node i changes, if any.
OnlyCommitOf(i) ==
  CommitStep(i) /\ \A j \in Node \ {i} : commitIndex'[j] = commitIndex[j]

\* advanceCommit counts, or changes nothing.
LEMMA LeaderCounts ==
  ASSUME SetFacts, TypeOK, TypeOK', NEW i \in Node, NEW lg, NEW t, NEW match,
         LeaderCommits(i, lg, t, match), role'[i] = "leader",
         log'[i] = lg, currentTerm'[i] = t, matchIndex'[i] = match
  PROVE  OnlyCommitOf(i)
<1> DEFINE n == AdvanceCommit(lg, t, commitIndex[i], match, Majority)
<1>0. /\ commitIndex \in [Node -> Nat] /\ commitIndex[i] \in Nat
      /\ lg \in Seq(Entry) /\ DOMAIN match = Node /\ Len(committed) \in Nat
  BY DEF TypeOK
<1>1. /\ commitIndex' = [commitIndex EXCEPT ![i] = n]
      /\ committed' = IF n > commitIndex[i] /\ n > Len(committed)
                      THEN SubSeq(lg, 1, n) ELSE committed
  BY Zenon DEF LeaderCommits
<1>2. \/ n = commitIndex[i]
      \/ /\ n \in (commitIndex[i] + 1)..Len(lg)
         /\ lg[n].term = t
         /\ Cardinality({p \in DOMAIN match : match[p] >= n}) >= Majority
  <2>1. n = commitIndex[i] \/ Agreed(n, lg, t, commitIndex[i], match, Majority)
    BY Zenon, <1>0, AdvanceCommitIs
  <2> HIDE DEF n
  <2> QED BY Zenon, <2>1 DEF Agreed
<1> HIDE DEF n
<1>3. commitIndex'[i] = n /\ \A j \in Node \ {i} : commitIndex'[j] = commitIndex[j]
  BY Zenon, <1>0, <1>1
<1>4. CASE n = commitIndex[i]
  <2>1. committed' = committed
    BY <1>0, <1>1, <1>4
  <2> QED BY Zenon, <1>3, <1>4, <2>1 DEF OnlyCommitOf, CommitStep
<1>5. CASE n # commitIndex[i]
  <2>1. n \in 1..Len(lg) /\ n > commitIndex[i] /\ n \in 0..Len(lg)
    BY <1>0, <1>2, <1>5
  <2>2. n <= Len(committed')
    <3>1. Len(SubSeq(lg, 1, n)) = n
      BY Zenon, <1>0, <2>1, Beginning
    <3> QED BY <1>0, <1>1, <2>1, <3>1
  <2>3. Cardinality({p \in Node : matchIndex'[i][p] >= n}) >= Majority
    BY Zenon, <1>0, <1>2, <1>5
  <2>4. Counts(i)
    BY Zenon, <1>2, <1>3, <1>5, <2>1, <2>2, <2>3 DEF Counts
  <2> QED BY Zenon, <1>3, <2>4 DEF OnlyCommitOf, CommitStep
<1> QED BY Zenon, <1>4, <1>5

\* A node that accepts a call goes by its leaderCommit, unless it crashes.
LEMMA OnAppendEntriesHears ==
  ASSUME SetFacts, TypeOK, NEW m \in appReq, OnAppendEntries(m)
  PROVE  OnlyCommitOf(m.to)
<1> DEFINE i == m.to
           prev == m.prevLogIndex
           es == m.entries
           lg == Merge(log[i], prev, es)
<1>0. i \in Node /\ prev \in Nat /\ es \in Seq(Entry)
  BY Zenon, FieldTypes
<1>1. committed' = committed
  BY Zenon DEF OnAppendEntries
<1>2. CASE commitIndex' = commitIndex
  BY Zenon, <1>0, <1>1, <1>2 DEF OnlyCommitOf, CommitStep
<1>3. CASE /\ m.term >= currentTerm[i]
           /\ currentTerm' = [currentTerm EXCEPT ![i] = m.term]
           /\ role' = [role EXCEPT ![i] = "follower"]
           /\ Matches(log[i], prev, m.prevLogTerm)
           /\ log' = [log EXCEPT ![i] = lg]
           /\ commitIndex' = [commitIndex EXCEPT ![i] =
                                FollowerCommit(@, m.leaderCommit, Len(lg))]
  <2>1. /\ log[i] \in Seq(Entry) /\ prev \in 0..Len(log[i])
        /\ commitIndex \in [Node -> Nat]
    BY <1>0, <1>3 DEF TypeOK, Matches
  <2>2. lg \in Seq(Entry) /\ prev + Len(es) <= Len(lg) /\ Takes(log[i], prev, es, lg)
    BY Zenon, <1>0, <2>1, MergeTakesAll
  <2>3. UNCHANGED <<votes, elected, committed>>
    BY Zenon DEF OnAppendEntries
  <2>4. Accepts(m, lg)
    BY Zenon, <1>3, <2>2, <2>3 DEF Accepts
  <2> HIDE DEF lg
  <2>5. /\ commitIndex'[i] = FollowerCommit(commitIndex[i], m.leaderCommit, Len(lg))
        /\ \A j \in Node \ {i} : commitIndex'[j] = commitIndex[j]
    BY Zenon, <1>0, <1>3, <2>1
  <2>6. Hears(m, lg)
    BY Zenon, <2>2, <2>4, <2>5 DEF Hears
  <2> QED BY Zenon, <2>2, <2>5, <2>6 DEF OnlyCommitOf, CommitStep
<1>4. \/ commitIndex' = commitIndex
      \/ /\ m.term >= currentTerm[i]
         /\ currentTerm' = [currentTerm EXCEPT ![i] = m.term]
         /\ role' = [role EXCEPT ![i] = "follower"]
         /\ Matches(log[i], prev, m.prevLogTerm)
         /\ log' = [log EXCEPT ![i] = lg]
         /\ commitIndex' = [commitIndex EXCEPT ![i] =
                              FollowerCommit(@, m.leaderCommit, Len(lg))]
  BY ZenonT(40) DEF OnAppendEntries
<1> QED BY Zenon, <1>2, <1>3, <1>4

\* A step changes the commit index of one node at most.
LEMMA CommitSteps ==
  ASSUME SetFacts, TypeOK, TypeOK', [Next]_vars
  PROVE  \E i \in Node : OnlyCommitOf(i)
<1> DEFINE OK == \E i \in Node : OnlyCommitOf(i)
<1>0. /\ currentTerm \in [Node -> Nat] /\ commitIndex \in [Node -> Nat]
      /\ role \in [Node -> {"follower", "candidate", "leader"}]
      /\ DOMAIN log = Node /\ log = [j \in Node |-> log[j]]
      /\ DOMAIN matchIndex = Node /\ matchIndex = [j \in Node |-> matchIndex[j]]
  BY Zenon DEF TypeOK
<1>1. ASSUME commitIndex' = commitIndex, committed' = committed PROVE OK
  <2>1. PICK i \in Node : TRUE
    BY Zenon, NodeAssumption
  <2> QED BY Zenon, <1>1, <2>1 DEF OnlyCommitOf, CommitStep
<1>2. ASSUME NEW i \in Node, commitIndex' = [commitIndex EXCEPT ![i] = 0],
             committed' = committed
      PROVE  OK
  <2>1. commitIndex'[i] = 0 /\ \A j \in Node \ {i} : commitIndex'[j] = commitIndex[j]
    BY Zenon, <1>0, <1>2
  <2> QED BY Zenon, <1>2, <2>1 DEF OnlyCommitOf, CommitStep
<1>3. ASSUME NEW i \in Node, NEW t, BecomeLeader(i, t), currentTerm'[i] = t
      PROVE  OK
  <2> DEFINE lg == Append(log[i], [term |-> t, command |-> NoOp])
             match == [p \in Node |-> IF p = i THEN Len(lg) ELSE 0]
  <2>1. /\ LeaderCommits(i, lg, t, match)
        /\ log' = [log EXCEPT ![i] = lg]
        /\ matchIndex' = [matchIndex EXCEPT ![i] = match]
        /\ role' = [role EXCEPT ![i] = "leader"]
    BY Zenon, <1>3 DEF BecomeLeader
  <2> HIDE DEF lg, match
  <2>2. log'[i] = lg /\ matchIndex'[i] = match /\ role'[i] = "leader"
    BY Zenon, <1>0, <2>1
  <2> QED BY Zenon, <1>3, <2>1, <2>2, LeaderCounts
<1>4. ASSUME NEW i \in Node, StartElection(i) PROVE OK
  <2>1. currentTerm'[i] = currentTerm[i] + 1
    BY Zenon, <1>0, <1>4 DEF StartElection
  <2>2. \/ BecomeLeader(i, currentTerm[i] + 1)
        \/ commitIndex' = commitIndex /\ committed' = committed
    BY Zenon, <1>4 DEF StartElection
  <2> QED BY Zenon, <1>1, <1>3, <2>1, <2>2
<1>5. ASSUME NEW r \in voteRep, OnVoteReply(r) PROVE OK
  <2>1. r.from \in Node
    BY Zenon, FieldTypes
  <2>2. \/ commitIndex' = commitIndex /\ committed' = committed
        \/ BecomeLeader(r.from, currentTerm[r.from]) /\ UNCHANGED currentTerm
    BY Zenon, <1>5 DEF OnVoteReply, BecomeFollower
  <2> QED BY Zenon, <1>1, <1>3, <2>1, <2>2
<1>6. ASSUME NEW i \in Node, NEW c \in Command, Submit(i, c) PROVE OK
  <2> DEFINE lg == Append(log[i], [term |-> currentTerm[i], command |-> c])
             match == [matchIndex[i] EXCEPT ![i] = Len(lg)]
  <2>1. /\ LeaderCommits(i, lg, currentTerm[i], match)
        /\ log' = [log EXCEPT ![i] = lg]
        /\ matchIndex' = [matchIndex EXCEPT ![i] = match]
        /\ role[i] = "leader" /\ UNCHANGED <<role, currentTerm>>
    BY Zenon, <1>6 DEF Submit
  <2> HIDE DEF lg, match
  <2>2. /\ log'[i] = lg /\ matchIndex'[i] = match /\ role'[i] = "leader"
        /\ currentTerm'[i] = currentTerm[i]
    BY Zenon, <1>0, <2>1
  <2> QED BY Zenon, <2>1, <2>2, LeaderCounts
<1>7. ASSUME NEW r \in appRep, OnAppendReply(r) PROVE OK
  <2> DEFINE i == r.from
             match == [matchIndex[i] EXCEPT ![r.to] = Max({@, r.match})]
  <2>1. i \in Node
    BY Zenon, FieldTypes
  <2>2. \/ commitIndex' = commitIndex /\ committed' = committed
        \/ /\ LeaderCommits(i, log[i], currentTerm[i], match)
           /\ matchIndex' = [matchIndex EXCEPT ![i] = match]
           /\ role[i] = "leader"
           /\ UNCHANGED <<role, persistent>>
    BY ZenonT(40), <1>7 DEF OnAppendReply, BecomeFollower
  <2> HIDE DEF match
  <2>3. CASE /\ LeaderCommits(i, log[i], currentTerm[i], match)
             /\ matchIndex' = [matchIndex EXCEPT ![i] = match]
             /\ role[i] = "leader"
             /\ UNCHANGED <<role, persistent>>
    <3>1. log' = log /\ currentTerm' = currentTerm /\ role'[i] = "leader"
      BY Zenon, <2>3
    <3>2. matchIndex'[i] = match
      BY Zenon, <1>0, <2>1, <2>3
    <3> QED BY Zenon, <2>1, <2>3, <3>1, <3>2, LeaderCounts
  <2> QED BY Zenon, <1>1, <2>2, <2>3
<1>8. ASSUME NEW m \in appReq, OnAppendEntries(m) PROVE OK
  BY Zenon, <1>8, FieldTypes, OnAppendEntriesHears
<1>9. ASSUME \/ \E i \in Node : \/ RejectSubmit(i)
                                \/ \E p \in Node : SendAppend(i, p)
             \/ \E m \in voteReq : OnRequestVote(m)
             \/ VoteCallFails \/ AppendCallFails \/ UNCHANGED vars
      PROVE  commitIndex' = commitIndex /\ committed' = committed
  BY Zenon, <1>9 DEF RejectSubmit, SendAppend, OnRequestVote, VoteCallFails,
     AppendCallFails, vars
<1>10. ASSUME NEW i \in Node, Reboot(i) PROVE OK
  BY Zenon, <1>2, <1>10 DEF Reboot
<1>11. ASSUME \/ \E i \in Node : Crash(i) \/ CrashInElection(i)
              \/ \E m \in voteReq \cup appReq : CrashInStepDown(m)
              \/ \E m \in appReq : CrashInAppend(m)
       PROVE  \E i \in Node : Reboot(i)
  <2>1. \A m \in voteReq \cup appReq : m.to \in Node
    BY Zenon, FieldTypes
  <2> QED BY Zenon, <1>11, <2>1 DEF Crash, CrashInElection, CrashInStepDown,
             CrashInAppend
<1>12. OK
  <2> HIDE DEF OK
  <2> QED BY Zenon, <1>1, <1>4, <1>5, <1>6, <1>7, <1>8, <1>9, <1>10, <1>11
             DEF Next
<1> QED BY Zenon, <1>12

-----------------------------------------------------------------------------
(* Commit indexes cover decided entries only.                              *)

\* The steps that are considered here, and what they keep.
CommitStepsUnder ==
  StepsUnder /\ SafetyInv /\ SafetyInv' /\ BatchesReachCommit /\ CommitInv

\* What is decided stays decided, and stays where it is in the committed log.
LEMMA DecidedPersists ==
  ASSUME SetFacts, CommitStepsUnder, NEW n \in 1..Len(committed), Decided(n)
  PROVE  Decided(n)' /\ n <= Len(committed') /\ committed'[n] = committed[n]
<1>0. /\ TypeOK /\ TypeOK' /\ StepsUnder /\ LeadersAnchored' /\ CommittedDecided
  BY Zenon DEF CommitStepsUnder, StepsUnder, ElectionInv, SafetyInv
<1>1. PICK lg : lg = committed
  BY Zenon
<1>2. PICK lh : lh = committed'
  BY Zenon
<1>3. lg \in Seq(Entry) /\ lh \in Seq(Entry) /\ n \in 1..Len(lg) /\ n \in Nat \ {0}
  BY <1>0, <1>1, <1>2 DEF TypeOK
<1>4. SameUpTo(lg, lh, Len(lg))
  BY Zenon, <1>0, <1>1, <1>2, CommittedGrowsStep DEF CommittedGrows
<1>5. SameUpTo(lg, lh, n)
  BY <1>3, <1>4 DEF SameUpTo
<1>6. PICK A \in SUBSET Node : Cardinality(A) >= Majority /\ Anchored(lg, n, A)
  BY Zenon, <1>1 DEF Decided
<1>7. PathIn(lg, Created)
  BY Zenon, <1>0, <1>1, LogsArePaths DEF ArePaths
<1>8. Anchored(lg, n, A)'
  BY Zenon, <1>0, <1>3, <1>6, <1>7, DecidedStays
<1>9. Anchored(lh, n, A)'
  BY Zenon, <1>0, <1>3, <1>5, <1>8, AnchoredSameNext
<1>10. Decided(n)'
  BY Zenon, <1>2, <1>6, <1>9 DEF Decided
<1>11. n <= Len(lh) /\ lh[n] = lg[n]
  BY <1>3, <1>5 DEF SameUpTo
<1> QED BY Zenon, <1>1, <1>2, <1>10, <1>11

\* What is known to be decided stays so, for every later term too.
LEMMA KnownPersists ==
  ASSUME SetFacts, CommitStepsUnder, NEW x \in Nat, NEW t \in Nat, NEW u \in Nat, t <= u,
         KnownDecided(x, t)
  PROVE  KnownDecided(x, u)'
<1>0. /\ Len(committed) \in Nat /\ Len(committed') \in Nat
      /\ committed \in Seq(Entry)
  BY DEF CommitStepsUnder, StepsUnder, ElectionInv, TypeOK
<1>1. CASE x = 0
  BY <1>1 DEF KnownDecided
<1>2. CASE x > 0
  <2>1. PICK n \in x..Len(committed) : Decided(n) /\ committed[n].term <= t
    BY Zenon, <1>2 DEF KnownDecided
  <2>2. n \in 1..Len(committed)
    BY <1>0, <1>2
  <2>3. Decided(n)' /\ n <= Len(committed') /\ committed'[n] = committed[n]
    BY Zenon, <2>1, <2>2, DecidedPersists
  <2>4. committed[n].term \in Nat
    BY Zenon, <1>0, <2>2, EntryTerm
  <2>5. n \in x..Len(committed')
    BY <1>0, <2>1, <2>3
  <2>6. committed'[n].term <= u
    BY <2>1, <2>3, <2>4
  <2> QED BY Zenon, <2>3, <2>5, <2>6 DEF KnownDecided
<1> QED BY <1>1, <1>2

\* A call of the term in which something is decided, or of a later one, agrees.
LEMMA CallsAgreeWithDecided ==
  ASSUME TypeOK, NEW m \in appReq, NEW n, Decided(n), committed[n].term <= m.term,
         committed[n].term \in Nat
  PROVE  /\ m.prevLogIndex \in 1..n => m.prevLogTerm = committed[m.prevLogIndex].term
         /\ m.prevLogIndex > n => m.prevLogTerm >= committed[n].term
         /\ \A k \in DOMAIN m.entries : m.prevLogIndex + k <= n =>
              m.entries[k].term = committed[m.prevLogIndex + k].term
<1>1. CallAgrees(m, committed, n)
  BY Zenon, AnchoredParts DEF Decided
<1>2. m.term >= committed[n].term
  <2>1. m.term \in Nat
    BY Zenon, FieldTypes
  <2> QED BY Zenon, <2>1
<1> QED BY Zenon, <1>1, <1>2 DEF CallAgrees

\* The log of a node that accepts a call keeps what the node has committed.
LEMMA AcceptKeepsCommitted ==
  ASSUME CommitStepsUnder, NEW m \in appReq, NEW lg \in Seq(Entry), Accepts(m, lg)
  PROVE  SameUpTo(log[m.to], lg, commitIndex[m.to])
<1>0. TypeOK
  BY Zenon DEF CommitStepsUnder, StepsUnder, ElectionInv
<1>1. /\ m.to \in Node /\ m.prevLogIndex \in Nat /\ m.entries \in Seq(Entry)
      /\ m.term \in Nat
  BY Zenon, <1>0, FieldTypes
<1> DEFINE i == m.to
           x == commitIndex[i]
<1>2. /\ log[i] \in Seq(Entry) /\ x \in Nat /\ currentTerm[i] \in Nat
      /\ committed \in Seq(Entry)
  BY Zenon, <1>0, <1>1 DEF TypeOK
<1>3. /\ m.term >= currentTerm[i]
      /\ Takes(log[i], m.prevLogIndex, m.entries, lg)
  BY Zenon DEF Accepts
<1>4. SameUpTo(log[i], committed, x) /\ KnownDecided(x, currentTerm[i])
  BY Zenon, <1>1 DEF CommitStepsUnder, CommitInv, StateMachineSafety
<1> HIDE DEF x, i
<1>5. CASE x = 0
  <2>1. Len(log[i]) \in Nat /\ Len(lg) \in Nat
    BY <1>2
  <2>2. SameUpTo(log[i], lg, 0)
    BY <2>1 DEF SameUpTo
  <2> QED BY Zenon, <1>5, <2>2 DEF x, i
<1>6. CASE x > 0
  <2>1. PICK n \in x..Len(committed) : Decided(n) /\ committed[n].term <= currentTerm[i]
    BY Zenon, <1>4, <1>6 DEF KnownDecided
  <2>2. n \in 1..Len(committed)
    BY <1>2, <1>6
  <2>3. committed[n].term \in Nat
    BY Zenon, <1>2, <2>2, EntryTerm
  <2>4. committed[n].term <= m.term
    BY <1>1, <1>2, <1>3, <2>1, <2>3
  <2>5. \A k \in DOMAIN m.entries : m.prevLogIndex + k <= n =>
          m.entries[k].term = committed[m.prevLogIndex + k].term
    BY Zenon, <1>0, <2>1, <2>3, <2>4, CallsAgreeWithDecided
  <2>6. ASSUME NEW k \in 1..Len(m.entries), m.prevLogIndex + k <= x
        PROVE  m.entries[k].term = log[i][m.prevLogIndex + k].term
    <3>1. k \in DOMAIN m.entries /\ m.prevLogIndex + k <= n
      BY <1>1, <1>2, <2>2, <2>6
    <3>2. m.prevLogIndex + k \in 1..x
      BY <1>1, <1>2, <2>6
    <3>3. log[i][m.prevLogIndex + k] = committed[m.prevLogIndex + k]
      BY Zenon, <1>4, <3>2 DEF SameUpTo
    <3> QED BY Zenon, <2>5, <3>1, <3>3
  <2>7. x \in 0..Len(log[i])
    BY <1>2, <1>4 DEF SameUpTo
  <2>8. SameUpTo(log[i], lg, x)
    BY Zenon, <1>1, <1>2, <1>3, <2>6, <2>7, TakesKeeps
  <2> QED BY Zenon, <2>8 DEF x, i
<1> QED BY <1>2, <1>5, <1>6

\* A step keeps what a node has committed.
LEMMA KeepsCommitted ==
  ASSUME SetFacts, CommitStepsUnder, NEW i \in Node
  PROVE  SameUpTo(log[i], log'[i], commitIndex[i])
<1>0. /\ TypeOK /\ TypeOK' /\ ElectionInv /\ ElectionInv' /\ [Next]_vars
      /\ TermsReached /\ TermsReached'
  BY Zenon DEF CommitStepsUnder, StepsUnder, ElectionInv, MatchingInv
<1>1. /\ DOMAIN log = Node /\ log[i] \in Seq(Entry) /\ log'[i] \in Seq(Entry)
      /\ commitIndex[i] \in Nat
  BY Zenon, <1>0 DEF TypeOK
<1>2. commitIndex[i] <= Len(log[i])
  BY Zenon DEF CommitStepsUnder, CommitInv, StateMachineSafety, SameUpTo
<1>3. CASE SameUpTo(log[i], log'[i], Len(log[i]))
  BY <1>1, <1>2, <1>3 DEF SameUpTo
<1>4. CASE log'[i] = log[i]
  BY Zenon, <1>1, <1>2, <1>4 DEF SameUpTo
<1>5. ASSUME NEW j \in Node, Grows(j) PROVE SameUpTo(log[i], log'[i], commitIndex[i])
  <2>1. CASE j = i
    <3>1. SameUpTo(log[i], log'[i], Len(log[i]))
      BY Zenon, <1>0, <1>5, <2>1, GrowsItem
    <3> QED BY Zenon, <1>3, <3>1
  <2>2. CASE j # i
    <3>1. log'[i] = log[i]
      BY Zenon, <1>1, <1>5, <2>2 DEF Grows
    <3> QED BY Zenon, <1>4, <3>1
  <2> QED BY Zenon, <2>1, <2>2
<1>6. ASSUME NEW m \in appReq, NEW lg \in Seq(Entry), Accepts(m, lg)
      PROVE  SameUpTo(log[i], log'[i], commitIndex[i])
  <2>1. log' = [log EXCEPT ![m.to] = lg]
    BY Zenon, <1>6 DEF Accepts
  <2>2. CASE m.to = i
    <3>1. log'[i] = lg
      BY Zenon, <1>1, <2>1, <2>2
    <3> QED BY Zenon, <1>6, <2>2, <3>1, AcceptKeepsCommitted
  <2>3. CASE m.to # i
    <3>1. log'[i] = log[i]
      BY Zenon, <1>1, <2>1, <2>3
    <3> QED BY Zenon, <1>4, <3>1
  <2> QED BY Zenon, <2>2, <2>3
<1> QED BY Zenon, <1>0, <1>4, <1>5, <1>6, LogSteps

\* A node that accepts a call holds what the call declares committed.
LEMMA AcceptHoldsCommitted ==
  ASSUME SetFacts, CommitStepsUnder, NEW m \in appReq, NEW lg \in Seq(Entry), Hears(m, lg),
         NEW x \in Nat \ {0}, x = m.leaderCommit
  PROVE  SameUpTo(lg, committed, x)
<1>0. TypeOK /\ TypeOK' /\ MadeByLeaders'
  BY Zenon DEF CommitStepsUnder, StepsUnder, ElectionInv, MatchingInv
<1>1. /\ m.to \in Node /\ m.prevLogIndex \in Nat /\ m.entries \in Seq(Entry)
      /\ m.term \in Nat
  BY Zenon, <1>0, FieldTypes
<1> DEFINE i == m.to
           prev == m.prevLogIndex
           es == m.entries
<1>2. /\ log[i] \in Seq(Entry) /\ committed \in Seq(Entry) /\ DOMAIN log = Node
  BY Zenon, <1>0, <1>1 DEF TypeOK
<1>3. /\ m.term >= currentTerm[i] /\ Takes(log[i], prev, es, lg)
      /\ Matches(log[i], prev, m.prevLogTerm)
      /\ log' = [log EXCEPT ![i] = lg] /\ committed' = committed
      /\ prev + Len(es) <= Len(lg)
  BY Zenon DEF Hears, Accepts
<1>4. x <= prev + Len(es)
  BY Zenon DEF CommitStepsUnder, BatchesReachCommit
<1>5. KnownDecided(x, m.term)
  BY Zenon DEF CommitStepsUnder, CommitInv
<1>6. PICK n \in x..Len(committed) : Decided(n) /\ committed[n].term <= m.term
  BY <1>5 DEF KnownDecided
<1>7. n \in 1..Len(committed) /\ n \in Nat
  BY <1>2
<1>8. committed[n].term \in Nat
  BY Zenon, <1>2, <1>7, EntryTerm
<1>9. /\ prev \in 1..n => m.prevLogTerm = committed[prev].term
      /\ prev > n => m.prevLogTerm >= committed[n].term
      /\ \A k \in DOMAIN es : prev + k <= n => es[k].term = committed[prev + k].term
  BY Zenon, <1>0, <1>6, <1>8, CallsAgreeWithDecided
<1>10. /\ PathIn(lg, Created') /\ PathIn(committed, Created')
       /\ OneBranchPerTerm(Created')
  <2>1. log'[i] = lg
    BY Zenon, <1>1, <1>2, <1>3
  <2>2. /\ PathIn(log'[i], Created') /\ PathIn(committed', Created')
        /\ OneBranchPerTerm(Created')
    BY Zenon, <1>0, <1>1, LogsArePathsNext DEF ArePaths, MadeByLeaders
  <2> QED BY Zenon, <1>3, <2>1, <2>2
<1>11. SameUpTo(log[i], lg, prev)
  BY Zenon, <1>1, <1>2, <1>3, TakesPrefix
<1>12. prev > 0 => lg[prev].term = m.prevLogTerm
  <2>1. prev > 0 => prev \in 1..prev
    BY <1>1
  <2>2. prev > 0 => lg[prev] = log[i][prev]
    BY Zenon, <1>11, <2>1 DEF SameUpTo
  <2>3. TermAt(log[i], prev) = m.prevLogTerm
    BY Zenon, <1>3 DEF Matches
  <2>4. prev > 0 => TermAt(log[i], prev) = log[i][prev].term
    BY <1>1 DEF TermAt
  <2> QED BY Zenon, <2>2, <2>3, <2>4
<1> HIDE DEF i, prev, es
<1>13. ASSUME NEW y \in Nat, x <= y, y <= n, y <= Len(lg),
              lg[y].term = committed[y].term
       PROVE  SameUpTo(lg, committed, x)
  <2>1. y \in 1..Len(lg) /\ y <= Len(committed) /\ x \in 0..y
    BY <1>2, <1>7, <1>13
  <2>2. SameUpTo(lg, committed, y)
    BY Zenon, <1>10, <1>13, <2>1, PathsMatch
  <2> QED BY <1>2, <1>13, <2>1, <2>2 DEF SameUpTo
<1>14. ASSUME NEW y \in Nat, x <= y, y <= n, y <= prev + Len(es), y > prev
       PROVE  SameUpTo(lg, committed, x)
  <2>1. PICK k \in 1..Len(es) : prev + k = y
    <3>1. y - prev \in 1..Len(es) /\ prev + (y - prev) = y
      BY <1>1, <1>14 DEF prev, es
    <3> QED BY Zenon, <3>1
  <2>2. k \in DOMAIN es /\ prev + k <= n /\ y <= Len(lg) /\ prev + k <= Len(lg)
    BY <1>1, <1>3, <1>14, <2>1 DEF prev, es
  <2>3. es[k].term = committed[y].term
    BY Zenon, <1>9, <2>1, <2>2
  <2>4. lg[y].term = es[k].term
    <3>1. /\ es \in Seq(Entry) /\ prev \in Nat
          /\ log[i] \in Seq(Entry) /\ Takes(log[i], prev, es, lg)
      BY Zenon, <1>1, <1>2, <1>3 DEF prev, es
    <3>2. PICK old \in Seq(Entry) : Takes(old, prev, es, lg)
      BY Zenon, <3>1
    <3>3. prev + k <= Len(lg)
      BY Zenon, <2>2
    <3>4. lg[prev + k].term = es[k].term
      BY <3>1, <3>2, <3>3, TakesAll
    <3> QED BY Zenon, <2>1, <3>4
  <2> QED BY Zenon, <1>13, <1>14, <2>2, <2>3, <2>4
<1>15. CASE prev + Len(es) <= n /\ prev + Len(es) > prev
  BY <1>1, <1>4, <1>14, <1>15 DEF prev, es
<1>16. CASE n <= prev + Len(es) /\ n > prev
  BY <1>4, <1>7, <1>14, <1>16
<1>17. CASE prev <= n /\ prev >= x
  <2>1. prev \in 1..n /\ prev > 0 /\ prev <= Len(lg) /\ prev \in Nat
    BY <1>1, <1>2, <1>3, <1>7, <1>17 DEF prev, es
  <2>2. lg[prev].term = committed[prev].term
    BY Zenon, <1>9, <1>12, <2>1
  <2> QED BY Zenon, <1>13, <1>17, <2>1, <2>2
<1>18. CASE prev > n
  <2>1. /\ prev \in 1..Len(lg) /\ prev > 0 /\ prev >= n
    BY <1>1, <1>2, <1>3, <1>7, <1>18 DEF prev, es
  <2>2. lg[prev].term >= committed[n].term
    BY Zenon, <1>9, <1>12, <1>18, <2>1
  <2>3. NoneBeside(committed, n, Created')
    <3>1. Decided(n)'
      BY Zenon, <1>6, <1>7, DecidedPersists
    <3>2. PICK lh : lh = committed
      BY Zenon
    <3>3. PICK A \in SUBSET Node : Anchored(lh, n, A)'
      BY Zenon, <1>3, <3>1, <3>2 DEF Decided
    <3>4. NoneBeside(lh, n, Created')
      BY Zenon, <3>3, AnchoredPartsNext
    <3> QED BY Zenon, <3>2, <3>4
  <2>4. SameUpTo(committed, lg, n)
    BY Zenon, <1>7, <1>10, <2>1, <2>2, <2>3, PathContains
  <2> QED BY <1>2, <1>6, <1>7, <2>4 DEF SameUpTo
<1>19. prev \in Nat /\ Len(es) \in Nat
  BY <1>1 DEF prev, es
<1> QED BY <1>4, <1>6, <1>7, <1>15, <1>16, <1>17, <1>18, <1>19

\* What a node takes for committed is a prefix of the committed log, and decided.
NodeCommitted(i) ==
  /\ SameUpTo(log[i], committed, commitIndex[i])
  /\ KnownDecided(commitIndex[i], currentTerm[i])

\* A leader that has counted a majority holds the committed log up to there.
LEMMA CountsCommitted ==
  ASSUME SetFacts, CommitStepsUnder, NEW i \in Node, Counts(i)
  PROVE  NodeCommitted(i)'
<1>0. TypeOK' /\ StepsUnder /\ LeadersAnchored' /\ CommittedDecided'
  BY Zenon DEF CommitStepsUnder, StepsUnder, ElectionInv, SafetyInv
<1>1. PICK x : x = commitIndex'[i]
  BY Zenon
<1>2. PICK lg : lg = log'[i]
  BY Zenon
<1>3. PICK lh : lh = committed'
  BY Zenon
<1>4. /\ role'[i] = "leader" /\ x \in 1..Len(lg) /\ x <= Len(lh)
      /\ log'[i][x].term = currentTerm'[i]
      /\ Cardinality({p \in Node : matchIndex'[i][p] >= x}) >= Majority
  BY Zenon, <1>1, <1>2, <1>3 DEF Counts
<1>5. /\ lg \in Seq(Entry) /\ lh \in Seq(Entry) /\ currentTerm'[i] \in Nat
  BY Zenon, <1>0, <1>2, <1>3 DEF TypeOK
<1>6. x \in Nat \ {0} /\ Len(lh) \in 1..Len(lh) /\ x \in 0..x
  BY <1>4, <1>5
<1>7. PICK B \in SUBSET Node :
        /\ Cardinality(B) >= Majority
        /\ \A l : l = log'[i] => Anchored(l, x, B)'
  BY Zenon, <1>0, <1>2, <1>4, CommitsAnchored
<1>8. Anchored(lg, x, B)'
  BY Zenon, <1>2, <1>7
<1>9. PICK A \in SUBSET Node :
        Cardinality(A) >= Majority /\ Anchored(lh, Len(lh), A)'
  <2>1. committed' # <<>>
    BY <1>3, <1>6
  <2>2. Decided(Len(committed))'
    BY Zenon, <1>0, <2>1 DEF CommittedDecided
  <2> QED BY Zenon, <1>3, <2>2 DEF Decided
<1>10. SameUpTo(lg, lh, x)
  BY Zenon, <1>0, <1>4, <1>5, <1>6, <1>7, <1>8, <1>9, AnchoredAgree
<1>11. Anchored(lh, x, B)'
  BY Zenon, <1>0, <1>6, <1>8, <1>10, AnchoredSameNext
<1>12. Decided(x)'
  BY Zenon, <1>3, <1>7, <1>11 DEF Decided
<1>13. lh[x].term = currentTerm'[i]
  BY <1>2, <1>4, <1>6, <1>10 DEF SameUpTo
<1>14. x \in x..Len(committed') /\ committed'[x].term <= currentTerm'[i]
  BY <1>3, <1>4, <1>5, <1>6, <1>13
<1>15. KnownDecided(commitIndex[i], currentTerm[i])'
  BY Zenon, <1>1, <1>12, <1>14 DEF KnownDecided
<1> QED BY Zenon, <1>1, <1>2, <1>3, <1>10, <1>15 DEF NodeCommitted

\* A step keeps that for every node.
LEMMA NodeCommittedStep ==
  ASSUME SetFacts, CommitStepsUnder, NEW i \in Node
  PROVE  NodeCommitted(i)'
<1>0. /\ TypeOK /\ TypeOK' /\ [Next]_vars /\ NodeCommitted(i)
      /\ CommittedGrows
  <2>1. TypeOK /\ TypeOK' /\ [Next]_vars /\ LeadersAnchored' /\ CommittedDecided
    BY Zenon DEF CommitStepsUnder, StepsUnder, ElectionInv, SafetyInv
  <2>2. NodeCommitted(i)
    BY Zenon DEF CommitStepsUnder, CommitInv, StateMachineSafety, NodeCommitted
  <2>3. CommittedGrows
    BY Zenon, <2>1, CommittedGrowsStep DEF CommitStepsUnder
  <2> QED BY Zenon, <2>1, <2>2, <2>3
<1>1. /\ log[i] \in Seq(Entry) /\ log'[i] \in Seq(Entry) /\ commitIndex[i] \in Nat
      /\ committed \in Seq(Entry) /\ committed' \in Seq(Entry) /\ DOMAIN log = Node
      /\ commitIndex'[i] \in Nat
  BY Zenon, <1>0 DEF TypeOK
<1>2. /\ currentTerm[i] \in Nat /\ currentTerm'[i] \in Nat
      /\ currentTerm[i] <= currentTerm'[i]
  BY Zenon, <1>0, TermTypes
<1>3. CASE commitIndex'[i] = 0
  <2>1. SameUpTo(log'[i], committed', commitIndex'[i])
    BY <1>1, <1>3 DEF SameUpTo
  <2>2. KnownDecided(commitIndex[i], currentTerm[i])'
    BY <1>3 DEF KnownDecided
  <2> QED BY Zenon, <2>1, <2>2 DEF NodeCommitted
<1>4. CASE commitIndex'[i] = commitIndex[i]
  <2>1. PICK x : x = commitIndex[i]
    BY Zenon
  <2>2. SameUpTo(log[i], committed, x) /\ KnownDecided(x, currentTerm[i])
    BY Zenon, <1>0, <2>1 DEF NodeCommitted
  <2>3. SameUpTo(log[i], log'[i], x)
    BY Zenon, <2>1, KeepsCommitted
  <2>4. SameUpTo(log'[i], committed', x)
    <3>1. x \in 0..Len(committed) /\ Len(committed) \in Nat /\ Len(committed') \in Nat
      BY <1>1, <2>1, <2>2 DEF SameUpTo
    <3>2. SameUpTo(committed, committed', x)
      BY Zenon, <1>0, <3>1, SameShorter DEF CommittedGrows
    <3>3. SameUpTo(log'[i], log[i], x)
      BY Zenon, <2>3, SameSwapped
    <3> QED BY Zenon, <2>2, <3>2, <3>3, SameTrans
  <2>5. PICK u : u = currentTerm'[i]
    BY Zenon
  <2>6. PICK t : t = currentTerm[i]
    BY Zenon
  <2>7. KnownDecided(x, u)'
    BY Zenon, <1>1, <1>2, <2>1, <2>2, <2>5, <2>6, KnownPersists
  <2>8. KnownDecided(commitIndex[i], currentTerm[i])'
    BY Zenon, <1>4, <2>1, <2>5, <2>7
  <2> QED BY Zenon, <1>4, <2>1, <2>4, <2>8 DEF NodeCommitted
<1>5. CASE Counts(i)
  BY Zenon, <1>5, CountsCommitted
<1>6. ASSUME NEW m \in appReq, NEW lg \in Seq(Entry), m.to = i, Hears(m, lg),
             commitIndex'[i] # commitIndex[i]
      PROVE  NodeCommitted(i)'
  <2>1. /\ commitIndex'[i] = FollowerCommit(commitIndex[i], m.leaderCommit, Len(lg))
        /\ log' = [log EXCEPT ![i] = lg] /\ committed' = committed
        /\ currentTerm' = [currentTerm EXCEPT ![i] = m.term]
        /\ m.prevLogIndex + Len(m.entries) <= Len(lg)
    BY Zenon, <1>6 DEF Hears, Accepts
  <2>2. /\ m.leaderCommit \in Nat /\ m.prevLogIndex + Len(m.entries) \in Nat
        /\ m.term \in Nat
    <3>1. m \in AppendRequest
      BY Zenon, <1>0 DEF TypeOK
    <3> QED BY <3>1 DEF AppendRequest
  <2>3. m.leaderCommit <= m.prevLogIndex + Len(m.entries)
    BY Zenon DEF CommitStepsUnder, BatchesReachCommit
  <2>4. PICK x : x = m.leaderCommit
    BY Zenon
  <2>5. commitIndex'[i] = x /\ x \in Nat \ {0}
    <3>1. x \in Nat /\ Len(lg) \in Nat /\ x <= Len(lg)
      BY <2>1, <2>2, <2>3, <2>4
    <3>2. Min({x, Len(lg)}) = x
      BY Zenon, <3>1, MinOfTwo
    <3> QED BY <1>1, <1>6, <2>1, <2>4, <3>1, <3>2 DEF FollowerCommit
  <2>6. log'[i] = lg /\ currentTerm'[i] = m.term
    <3>1. currentTerm \in [Node -> Nat]
      BY Zenon, <1>0 DEF TypeOK
    <3> QED BY Zenon, <1>1, <2>1, <3>1
  <2>7. SameUpTo(lg, committed, x)
    BY Zenon, <1>6, <2>4, <2>5, AcceptHoldsCommitted
  <2>8. KnownDecided(x, m.term)
    BY Zenon, <2>4 DEF CommitStepsUnder, CommitInv
  <2>9. KnownDecided(x, m.term)'
    BY <2>2, <2>5, <2>8, KnownPersists
  <2>10. KnownDecided(commitIndex[i], currentTerm[i])'
    BY Zenon, <2>5, <2>6, <2>9
  <2> QED BY Zenon, <2>1, <2>5, <2>6, <2>7, <2>10 DEF NodeCommitted
<1>7. PICK j \in Node : OnlyCommitOf(j)
  BY Zenon, <1>0, CommitSteps
<1>8. CASE j # i
  BY Zenon, <1>4, <1>7, <1>8 DEF OnlyCommitOf
<1>9. CASE j = i
  BY Zenon, <1>3, <1>4, <1>5, <1>6, <1>7, <1>9 DEF OnlyCommitOf, CommitStep
<1> QED BY Zenon, <1>8, <1>9

\* A step keeps the invariant.
LEMMA CommitInvStep ==
  ASSUME SetFacts, CommitStepsUnder
  PROVE  CommitInv'
<1>0. /\ TypeOK /\ TypeOK' /\ [Next]_vars /\ IndexesInLog
      /\ \A i \in Node : KnownDecided(commitIndex[i], currentTerm[i])
      /\ \A m \in appReq : KnownDecided(m.leaderCommit, m.term)
  BY Zenon DEF CommitStepsUnder, StepsUnder, ElectionInv, CommitInv
<1>1. \A i \in Node : NodeCommitted(i)'
  BY Zenon, NodeCommittedStep
<1>2. StateMachineSafety' /\ \A i \in Node : KnownDecided(commitIndex[i], currentTerm[i])'
  BY Zenon, <1>1 DEF NodeCommitted, StateMachineSafety
<1>3. ASSUME NEW m \in appReq' PROVE KnownDecided(m.leaderCommit, m.term)'
  <2>1. /\ m.leaderCommit \in Nat /\ m.term \in Nat /\ m.term <= m.term
    <3>1. m \in AppendRequest
      BY Zenon, <1>0, <1>3 DEF TypeOK
    <3> QED BY <3>1 DEF AppendRequest
  <2>2. KnownDecided(m.leaderCommit, m.term)
    <3>1. CASE \E n \in appReq : SameArgs(m, n)
      BY Zenon, <1>0, <3>1 DEF SameArgs
    <3>2. ASSUME NEW i \in Node, NEW p \in Node, SendAppend(i, p), m \notin appReq
          PROVE  KnownDecided(m.leaderCommit, m.term)
      <4>1. m.leaderCommit = commitIndex[i] /\ m.term = currentTerm[i]
        BY Zenon, <1>0, <1>3, <3>2, SentAppend
      <4> QED BY Zenon, <1>0, <4>1
    <3>3. CASE m \in appReq
      BY Zenon, <1>0, <3>3
    <3> QED BY Zenon, <1>0, <1>3, <3>1, <3>2, <3>3, AppendCallsOrigin
  <2> QED BY Zenon, <2>1, <2>2, KnownPersists
<1> QED BY Zenon, <1>2, <1>3 DEF CommitInv

-----------------------------------------------------------------------------
(* Logs that fit in one batch.                                             *)

\* No log and no call goes beyond the bound on what leaders append.
LogsBounded ==
  /\ \A i \in Node : Len(log[i]) <= MaxLog
  /\ \A m \in appReq : m.prevLogIndex + Len(m.entries) <= MaxLog

\* A leader whose log fits in a batch sends all of it from prevLogIndex on.
LEMMA WholeLogSent ==
  ASSUME SetFacts, MaxLog <= MaxBatch, TypeOK, IndexesInLog, NEW i \in Node, NEW p \in Node,
         SendAppend(i, p), Len(log[i]) <= MaxLog, NEW m \in appReq', m \notin appReq
  PROVE  m.prevLogIndex + Len(m.entries) = Len(log[i])
<1> DEFINE prev == nextIndex[i][p] - 1
           lg == log[i]
           es == Batch(lg, prev + 1, MaxBatch)
<1>1. m.prevLogIndex = prev /\ m.entries = es /\ role[i] = "leader"
  BY DEF SendAppend
<1>2. /\ nextIndex[i][p] \in Nat \ {0} /\ lg \in Seq(Entry)
      /\ nextIndex[i][p] <= Len(lg) + 1
      /\ MaxLog \in Nat /\ MaxBatch \in Nat /\ Len(lg) \in Nat
  BY <1>1, BoundAssumption DEF TypeOK, IndexesInLog
<1> HIDE DEF lg
<1>3. prev \in 0..Len(lg)
  BY <1>2
<1> HIDE DEF prev
<1>4. Len(lg) \in Nat /\ prev + 1 + MaxBatch - 1 \in Nat
      /\ Len(lg) <= prev + 1 + MaxBatch - 1
  BY <1>2, <1>3 DEF lg
<1>5. Min({Len(lg), prev + 1 + MaxBatch - 1}) = Len(lg)
  BY Zenon, <1>4, MinOfTwo
<1>6. es = SubSeq(lg, prev + 1, Len(lg))
  BY Zenon, <1>5 DEF Batch
<1>7. Len(es) = Len(lg) - prev
  BY <1>2, <1>3, <1>6
<1> HIDE DEF es
<1> QED BY <1>1, <1>2, <1>3, <1>7 DEF lg

\* A step keeps logs and calls within the bound.
LEMMA LogsBoundedStep ==
  ASSUME SetFacts, ElectionInv, ElectionInv', [Next]_vars, LogsBounded
  PROVE  LogsBounded'
<1>0. /\ TypeOK /\ TypeOK' /\ IndexesInLog /\ WonByMajority /\ LeadersElected
  BY Zenon DEF ElectionInv
<1>1. /\ \A i \in Node : log[i] \in Seq(Entry) /\ Len(log[i]) \in Nat
      /\ \A i \in Node : log'[i] \in Seq(Entry) /\ Len(log'[i]) \in Nat
      /\ DOMAIN log = Node /\ MaxLog \in Nat
  BY <1>0, BoundAssumption DEF TypeOK
<1>2. ASSUME NEW j \in Node PROVE Len(log'[j]) <= MaxLog
  <2>1. CASE log'[j] = log[j]
    BY Zenon, <2>1 DEF LogsBounded
  <2>2. ASSUME NEW i \in Node, Grows(i) PROVE Len(log'[j]) <= MaxLog
    <3>1. PICK e \in Entry : log' = [log EXCEPT ![i] = Append(log[i], e)]
      BY Zenon, <2>2 DEF Grows
    <3>2. log'[i] = Append(log[i], e) /\ Len(log'[i]) = Len(log[i]) + 1
      BY <1>1, <3>1
    <3>3. Len(log[i]) < MaxLog
      <4>1. role'[i] = "leader" /\ log'[i] # log[i]
        BY <1>1, <2>2, <3>2 DEF Grows
      <4>2. CASE StaysLeader(i)
        BY Zenon, <4>1, <4>2 DEF StaysLeader
      <4>3. CASE BecomesLeader(i)
        BY Zenon, <4>3 DEF BecomesLeader, BecomeLeader
      <4>4. CASE \E c \in Command : Submit(i, c)
        BY Zenon, <4>4 DEF Submit
      <4>5. ASSUME NEW r \in appRep, OnAppendReply(r) PROVE log' = log
        BY Zenon, <4>5 DEF OnAppendReply, BecomeFollower
      <4> QED BY Zenon, <1>0, <4>1, <4>2, <4>3, <4>4, <4>5, LeaderSteps
    <3>4. CASE i = j
      BY <1>1, <3>2, <3>3, <3>4
    <3>5. CASE i # j
      BY Zenon, <1>1, <2>1, <3>1, <3>5
    <3> QED BY Zenon, <3>4, <3>5
  <2>3. ASSUME NEW m \in appReq, NEW lg \in Seq(Entry), Accepts(m, lg)
        PROVE  Len(log'[j]) <= MaxLog
    <3>1. /\ m.to \in Node /\ m.prevLogIndex \in Nat /\ m.entries \in Seq(Entry)
      BY Zenon, <1>0, FieldTypes
    <3>2. /\ log' = [log EXCEPT ![m.to] = lg]
          /\ Takes(log[m.to], m.prevLogIndex, m.entries, lg)
      BY Zenon, <2>3 DEF Accepts
    <3>3. CASE m.to # j
      BY Zenon, <1>1, <2>1, <3>1, <3>2, <3>3
    <3>4. CASE m.to = j
      <4>1. log'[j] = lg
        BY Zenon, <1>1, <3>2, <3>4
      <4>2. Len(log[j]) <= MaxLog /\ m.prevLogIndex + Len(m.entries) <= MaxLog
        BY Zenon DEF LogsBounded
      <4>3. PICK kept \in m.prevLogIndex..Len(log[j]) :
              \A k \in 1..Len(lg) : k > kept => k - m.prevLogIndex \in 1..Len(m.entries)
        BY Zenon, <3>2, <3>4 DEF Takes
      <4>4. Len(lg) <= kept \/ Len(lg) - m.prevLogIndex \in 1..Len(m.entries)
        BY <1>1, <3>1, <4>3
      <4>5. Len(m.entries) \in Nat /\ Len(lg) \in Nat
        BY <3>1
      <4> QED BY <1>1, <3>1, <4>1, <4>2, <4>3, <4>4, <4>5
    <3> QED BY Zenon, <3>3, <3>4
  <2> QED BY Zenon, <1>0, <2>1, <2>2, <2>3, LogSteps
<1>3. ASSUME NEW m \in appReq' PROVE m.prevLogIndex + Len(m.entries) <= MaxLog
  <2>1. CASE \E n \in appReq : SameArgs(m, n)
    BY Zenon, <2>1 DEF SameArgs, LogsBounded
  <2>2. ASSUME NEW i \in Node, NEW p \in Node, SendAppend(i, p), m \notin appReq
        PROVE  m.prevLogIndex + Len(m.entries) <= MaxLog
    <3>1. m.prevLogIndex + Len(m.entries) <= Len(log[i])
      BY Zenon, <1>0, <1>3, <2>2, SentAppend
    <3>2. Len(log[i]) <= MaxLog
      BY Zenon DEF LogsBounded
    <3>3. m.prevLogIndex \in Nat /\ Len(m.entries) \in Nat
      <4>1. m \in AppendRequest
        BY Zenon, <1>0, <1>3 DEF TypeOK
      <4> QED BY <4>1 DEF AppendRequest
    <3> QED BY <1>1, <3>1, <3>2, <3>3
  <2>3. CASE m \in appReq
    BY Zenon, <2>3 DEF LogsBounded
  <2> QED BY Zenon, <1>0, <1>3, <2>1, <2>2, <2>3, AppendCallsOrigin
<1> QED BY Zenon, <1>2, <1>3 DEF LogsBounded

\* When logs fit in one batch, no batch ends before the commit index.
LEMMA BatchesReachCommitStep ==
  ASSUME SetFacts, MaxLog <= MaxBatch, CommitStepsUnder, LogsBounded
  PROVE  BatchesReachCommit'
<1>0. TypeOK /\ [Next]_vars /\ IndexesInLog /\ BatchesReachCommit
  BY Zenon DEF CommitStepsUnder, StepsUnder, ElectionInv
<1> SUFFICES ASSUME NEW m \in appReq'
             PROVE  m.leaderCommit <= m.prevLogIndex + Len(m.entries)
  BY Zenon DEF BatchesReachCommit
<1>1. CASE \E n \in appReq : SameArgs(m, n)
  BY Zenon, <1>0, <1>1 DEF SameArgs, BatchesReachCommit
<1>2. ASSUME NEW i \in Node, NEW p \in Node, SendAppend(i, p), m \notin appReq
      PROVE  m.leaderCommit <= m.prevLogIndex + Len(m.entries)
  <2>1. m.prevLogIndex + Len(m.entries) = Len(log[i])
    BY Zenon, <1>0, <1>2, WholeLogSent DEF LogsBounded
  <2>2. m.leaderCommit = commitIndex[i]
    BY Zenon, <1>0, <1>2, SentAppend
  <2>3. commitIndex[i] <= Len(log[i])
    BY Zenon DEF CommitStepsUnder, CommitInv, StateMachineSafety, SameUpTo
  <2> QED BY Zenon, <2>1, <2>2, <2>3
<1>3. CASE m \in appReq
  BY Zenon, <1>0, <1>3 DEF BatchesReachCommit
<1> QED BY Zenon, <1>0, <1>1, <1>2, <1>3, AppendCallsOrigin

\* Initially nothing is committed.
LEMMA CommitInvInit == Init => CommitInv
<1> SUFFICES ASSUME Init PROVE CommitInv
  BY Zenon
<1>1. /\ appReq = {} /\ committed = <<>>
      /\ \A i \in Node : log[i] = <<>> /\ commitIndex[i] = 0
  BY Zenon DEF Init
<1>2. StateMachineSafety
  BY <1>1 DEF StateMachineSafety, SameUpTo
<1>3. \A i \in Node : KnownDecided(commitIndex[i], currentTerm[i])
  BY <1>1 DEF KnownDecided
<1> QED BY Zenon, <1>1, <1>2, <1>3 DEF CommitInv

-----------------------------------------------------------------------------
(* The steps of ReplicatedLog.                                             *)

\* Logs that agree up to n have the same beginning.
LEMMA SameBeginning ==
  ASSUME NEW s \in Seq(Entry), NEW t \in Seq(Entry), NEW n \in Nat,
         SameUpTo(s, t, n)
  PROVE  SubSeq(s, 1, n) = SubSeq(t, 1, n)
<1> DEFINE u == SubSeq(s, 1, n)
           v == SubSeq(t, 1, n)
<1>1. n \in 0..Len(s) /\ n \in 0..Len(t)
  BY DEF SameUpTo
<1>2. /\ u \in Seq(Entry) /\ Len(u) = n /\ SameUpTo(u, s, n)
      /\ v \in Seq(Entry) /\ Len(v) = n /\ SameUpTo(v, t, n)
  BY Zenon, <1>1, Beginning
<1> HIDE DEF u, v
<1>3. \A k \in 1..n : u[k] = v[k]
  BY Zenon, <1>2 DEF SameUpTo
<1>4. u = v
  BY <1>2, <1>3
<1> QED BY Zenon, <1>4 DEF u, v

\* What each node knows to be committed.
Known == [i \in Node |-> SubSeq(committed, 1, commitIndex[i])]

\* It is what the node has committed of its own log.
KnownIsCommitted == /\ [i \in Node |-> Committed(i)] = Known
                    /\ \A i \in Node : commitIndex[i] \in 0..Len(committed)

\* When commit indexes cover prefixes of the committed log.
LEMMA KnownOfLogs == TypeOK /\ StateMachineSafety => KnownIsCommitted
<1> SUFFICES ASSUME TypeOK, StateMachineSafety PROVE KnownIsCommitted
  BY Zenon
<1>1. ASSUME NEW i \in Node
      PROVE  /\ Committed(i) = SubSeq(committed, 1, commitIndex[i])
             /\ commitIndex[i] \in 0..Len(committed)
  <2>1. /\ log[i] \in Seq(Entry) /\ committed \in Seq(Entry) /\ commitIndex[i] \in Nat
    BY Zenon DEF TypeOK
  <2>2. SameUpTo(log[i], committed, commitIndex[i])
    BY Zenon DEF StateMachineSafety
  <2>3. SubSeq(log[i], 1, commitIndex[i]) = SubSeq(committed, 1, commitIndex[i])
    BY Zenon, <2>1, <2>2, SameBeginning
  <2>4. commitIndex[i] \in 0..Len(committed)
    BY <2>1, <2>2 DEF SameUpTo
  <2> QED BY Zenon, <2>3, <2>4 DEF Committed
<1> QED BY Zenon, <1>1 DEF KnownIsCommitted, Known

\* The same after the step.
LEMMA KnownOfLogsNext == TypeOK' /\ StateMachineSafety' => KnownIsCommitted'
BY KnownOfLogs, PTL

\* Of a commit index that changes nothing but a restart takes anything back.
LEMMA CommitIndexUp ==
  ASSUME SetFacts, CommitStepsUnder, NEW i \in Node, CommitStep(i)
  PROVE  \/ commitIndex'[i] = 0 /\ committed' = committed
         \/ commitIndex'[i] >= commitIndex[i]
<1>0. /\ TypeOK /\ commitIndex[i] \in Nat /\ commitIndex'[i] \in Nat
      /\ DOMAIN log = Node
  <2>1. TypeOK /\ TypeOK'
    BY Zenon DEF CommitStepsUnder, StepsUnder, ElectionInv
  <2>2. commitIndex[i] \in Nat /\ commitIndex'[i] \in Nat /\ DOMAIN log = Node
    BY Zenon, <2>1 DEF TypeOK
  <2> QED BY Zenon, <2>1, <2>2
<1>1. CASE commitIndex'[i] = commitIndex[i]
  BY <1>0, <1>1
<1>2. CASE Counts(i)
  <2>1. commitIndex'[i] > commitIndex[i]
    BY Zenon, <1>2 DEF Counts
  <2> QED BY <1>0, <2>1
<1>3. ASSUME NEW m \in appReq, NEW lg \in Seq(Entry), m.to = i, Hears(m, lg)
      PROVE  commitIndex'[i] >= commitIndex[i]
  <2>1. /\ commitIndex'[i] = FollowerCommit(commitIndex[i], m.leaderCommit, Len(lg))
        /\ Accepts(m, lg)
    BY Zenon, <1>3 DEF Hears
  <2>2. m.leaderCommit \in Nat
    <3>1. m \in AppendRequest
      BY Zenon, <1>0 DEF TypeOK
    <3> QED BY Zenon, <3>1 DEF AppendRequest
  <2>3. commitIndex[i] <= Len(lg) /\ Len(lg) \in Nat
    <3>1. SameUpTo(log[i], lg, commitIndex[i])
      BY Zenon, <1>3, <2>1, AcceptKeepsCommitted
    <3> QED BY <3>1 DEF SameUpTo
  <2>4. \/ Min({m.leaderCommit, Len(lg)}) = m.leaderCommit
        \/ Min({m.leaderCommit, Len(lg)}) = Len(lg)
    BY Zenon, <2>2, <2>3, MinOfTwo
  <2> QED BY <1>0, <2>1, <2>2, <2>3, <2>4 DEF FollowerCommit
<1> QED BY Zenon, <1>1, <1>2, <1>3 DEF CommitStep

\* What the nodes know changes at the node whose commit index changes.
LEMMA KnownSteps ==
  ASSUME SetFacts, CommitStepsUnder, CommitInv', NEW i \in Node, OnlyCommitOf(i)
  PROVE  Known' = [Known EXCEPT ![i] = SubSeq(committed', 1, commitIndex'[i])]
<1>0. /\ TypeOK /\ TypeOK' /\ CommittedGrows /\ KnownIsCommitted
  <2>1. TypeOK /\ TypeOK' /\ LeadersAnchored' /\ CommittedDecided /\ StateMachineSafety
    BY Zenon DEF CommitStepsUnder, StepsUnder, ElectionInv, SafetyInv, CommitInv
  <2>2. CommittedGrows
    BY Zenon, <2>1, CommittedGrowsStep DEF CommitStepsUnder
  <2> QED BY Zenon, <2>1, <2>2, KnownOfLogs
<1>1. committed \in Seq(Entry) /\ committed' \in Seq(Entry)
  BY Zenon, <1>0 DEF TypeOK
<1>2. ASSUME NEW j \in Node \ {i}
      PROVE  SubSeq(committed', 1, commitIndex'[j]) = SubSeq(committed, 1, commitIndex[j])
  <2>1. commitIndex'[j] = commitIndex[j]
    BY Zenon DEF OnlyCommitOf
  <2>2. commitIndex[j] \in 0..Len(committed)
    BY Zenon, <1>0 DEF KnownIsCommitted
  <2>3. commitIndex[j] \in Nat /\ Len(committed) \in Nat /\ Len(committed') \in Nat
    BY <1>1, <2>2
  <2>4. SameUpTo(committed, committed', commitIndex[j])
    BY Zenon, <1>0, <2>2, <2>3, SameShorter DEF CommittedGrows
  <2>5. SubSeq(committed, 1, commitIndex[j]) = SubSeq(committed', 1, commitIndex[j])
    BY Zenon, <1>1, <2>3, <2>4, SameBeginning
  <2> QED BY Zenon, <2>1, <2>5
<1> DEFINE f(j) == SubSeq(committed, 1, commitIndex[j])
           g(j) == SubSeq(committed', 1, commitIndex'[j])
<1>3. /\ Known = [j \in Node |-> f(j)] /\ Known' = [j \in Node |-> g(j)]
      /\ \A j \in Node \ {i} : g(j) = f(j)
  BY Zenon, <1>2 DEF Known
<1>4. g(i) = SubSeq(committed', 1, commitIndex'[i])
  BY Zenon
<1> HIDE DEF f, g
<1>5. Known' = [Known EXCEPT ![i] = g(i)]
  BY Zenon, <1>3
<1> QED BY Zenon, <1>4, <1>5

\* A step of the cluster extends the committed log, lets one node learn more of it
\* or forget it, or changes nothing of that.
LEMMA RefinementStep ==
  ASSUME SetFacts, CommitStepsUnder, CommitInv'
  PROVE  [RL!Next]_(RL!vars)
<1>0. /\ TypeOK /\ TypeOK' /\ [Next]_vars /\ CommittedGrows
      /\ KnownIsCommitted /\ KnownIsCommitted'
  <2>1. /\ TypeOK /\ TypeOK' /\ LeadersAnchored' /\ CommittedDecided
        /\ [Next]_vars /\ StateMachineSafety /\ StateMachineSafety'
    BY Zenon DEF CommitStepsUnder, StepsUnder, ElectionInv, SafetyInv, CommitInv
  <2>2. CommittedGrows
    BY Zenon, <2>1, CommittedGrowsStep DEF CommitStepsUnder
  <2> QED BY Zenon, <2>1, <2>2, KnownOfLogs, KnownOfLogsNext
<1>1. committed \in Seq(Entry) /\ committed' \in Seq(Entry)
  BY Zenon, <1>0 DEF TypeOK
<1>2. PICK i \in Node : OnlyCommitOf(i)
  BY Zenon, <1>0, CommitSteps
<1> DEFINE old == [j \in Node |-> Committed(j)]
           n == commitIndex'[i]
<1>3. /\ old' = [old EXCEPT ![i] = SubSeq(committed', 1, n)]
      /\ old = Known /\ DOMAIN old = Node
      /\ commitIndex[i] \in 0..Len(committed) /\ n \in 0..Len(committed')
  BY Zenon, <1>0, <1>2, KnownSteps DEF KnownIsCommitted
<1>4. old[i] = SubSeq(committed, 1, commitIndex[i]) /\ Len(old[i]) = commitIndex[i]
  <2>1. Len(SubSeq(committed, 1, commitIndex[i])) = commitIndex[i]
    BY Zenon, <1>1, <1>3, Beginning
  <2>2. Known[i] = SubSeq(committed, 1, commitIndex[i])
    BY Zenon DEF Known
  <2> QED BY Zenon, <1>3, <2>1, <2>2
<1>5. /\ RL!Extend(i) <=>
           /\ Len(committed') > Len(committed)
           /\ SubSeq(committed', 1, Len(committed)) = committed
           /\ committed' \in Seq(Entry)
           /\ old' = [old EXCEPT ![i] = committed']
      /\ RL!Learn(i) <=>
           /\ committed' = committed
           /\ \E x \in (Len(old[i]) + 1)..Len(committed) :
                old' = [old EXCEPT ![i] = SubSeq(committed, 1, x)]
      /\ RL!Forget(i) <=>
           /\ old[i] # <<>> /\ committed' = committed
           /\ old' = [old EXCEPT ![i] = <<>>]
      /\ RL!vars' = RL!vars <=> committed' = committed /\ old' = old
      /\ (RL!Extend(i) \/ RL!Learn(i) \/ RL!Forget(i)) => RL!Next
  BY Zenon DEF RL!Extend, RL!Learn, RL!Forget, RL!vars, RL!Next
<1> HIDE DEF old
<1>6. CASE committed' = committed
  <2>1. CASE n = commitIndex[i]
    <3>1. old' = [old EXCEPT ![i] = old[i]]
      BY Zenon, <1>3, <1>4, <1>6, <2>1
    <3>2. [old EXCEPT ![i] = old[i]] = old
      BY Zenon DEF old
    <3>3. old' = old
      BY Zenon, <3>1, <3>2
    <3> QED BY Zenon, <1>5, <1>6, <3>3
  <2>2. CASE n = 0 /\ n # commitIndex[i]
    <3>1. SubSeq(committed', 1, n) = <<>> /\ old[i] # <<>>
      BY <1>1, <1>3, <1>4, <2>2
    <3> QED BY Zenon, <1>3, <1>5, <1>6, <3>1
  <2>3. CASE n > commitIndex[i]
    <3>1. n \in (Len(old[i]) + 1)..Len(committed)
      BY <1>1, <1>3, <1>4, <1>6, <2>3
    <3>2. old' = [old EXCEPT ![i] = SubSeq(committed, 1, n)]
      BY Zenon, <1>3, <1>6
    <3> QED BY Zenon, <1>5, <1>6, <3>1, <3>2
  <2>4. n = 0 \/ n >= commitIndex[i]
    BY Zenon, <1>2, CommitIndexUp DEF OnlyCommitOf
  <2>5. n \in Nat /\ commitIndex[i] \in Nat
    BY <1>1, <1>3
  <2> QED BY <2>1, <2>2, <2>3, <2>4, <2>5
<1>7. CASE committed' # committed
  <2>1. PICK j \in Node : CommitsMore(j)
    BY Zenon, <1>0, <1>7, CommittedSteps
  <2>2. commitIndex'[j] > commitIndex[j] /\ commitIndex[j] \in Nat
    <3>1. commitIndex[j] \in Nat
      BY Zenon, <1>0 DEF TypeOK
    <3> QED BY Zenon, <2>1, <3>1 DEF CommitsMore
  <2>3. j = i
    <3>1. commitIndex'[j] # commitIndex[j]
      BY <2>2
    <3> QED BY Zenon, <1>2, <3>1 DEF OnlyCommitOf
  <2>4. n > Len(committed) /\ n \in 1..Len(log'[i]) /\ committed' = SubSeq(log'[i], 1, n)
    BY Zenon, <2>1, <2>3 DEF CommitsMore
  <2>5. Len(committed') = n
    <3>1. log'[i] \in Seq(Entry)
      BY Zenon, <1>0 DEF TypeOK
    <3>2. n \in 0..Len(log'[i])
      BY <2>4, <3>1
    <3> QED BY Zenon, <2>4, <3>1, <3>2, Beginning
  <2>6. SubSeq(committed', 1, n) = committed'
    BY Zenon, <1>1, <2>5, SubSeqWhole
  <2>7. SubSeq(committed', 1, Len(committed)) = committed
    <3>1. SubSeq(committed, 1, Len(committed)) = committed /\ Len(committed) \in Nat
      BY Zenon, <1>1, SubSeqWhole
    <3>2. SubSeq(committed, 1, Len(committed)) = SubSeq(committed', 1, Len(committed))
      BY Zenon, <1>0, <1>1, <3>1, SameBeginning DEF CommittedGrows
    <3> QED BY Zenon, <3>1, <3>2
  <2>8. old' = [old EXCEPT ![i] = committed']
    BY Zenon, <1>3, <2>6
  <2>9. Len(committed') > Len(committed)
    BY Zenon, <2>4, <2>5
  <2> QED BY Zenon, <1>1, <1>5, <2>7, <2>8, <2>9
<1> QED BY Zenon, <1>6, <1>7

=============================================================================

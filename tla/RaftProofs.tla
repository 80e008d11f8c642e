----------------------------- MODULE RaftProofs -----------------------------
(***************************************************************************)
(* The theorems: the invariants of Raft hold in every behaviour, and the   *)
(* cluster implements the replicated log.                                  *)
(***************************************************************************)
EXTENDS RaftElectionProofs, RaftCommitProofs, FiniteSetTheorems

USE DEF persistent, leaderVars, voteCalls, appCalls, history

\* The facts on which the lemmas rest, from the library's theorems.
LEMMA SetFactsHold == SetFacts
<1>1. ASSUME NEW T \in SUBSET Nat, T # {}
      PROVE  \E x \in T : \A y \in T : x <= y
  <2>1. IsWellFoundedOn(OpToRel(<, Nat), Nat)
    BY Zenon, NatLessThanWellFounded
  <2>2. PICK x \in T : \A y \in T : ~(<<y, x>> \in OpToRel(<, Nat))
    BY Zenon, <1>1, <2>1, WFMin
  <2>3. \A y \in T : ~(y < x)
    BY Zenon, <2>2 DEF OpToRel
  <2>4. \A y \in T : x <= y
    BY <2>3
  <2> QED BY Zenon, <2>4
<1>2. ASSUME NEW S \in SUBSET Node
      PROVE  IsFiniteSet(S) /\ Cardinality(S) \in Nat
  BY Zenon, NodeAssumption, FS_Subset, FS_CardinalityType
<1>3. ASSUME NEW S \in SUBSET Node, NEW T \in SUBSET S
      PROVE  Cardinality(T) <= Cardinality(S)
  BY Zenon, <1>2, FS_Subset
<1>4. ASSUME NEW S \in SUBSET Node, NEW i \in Node \ S
      PROVE  Cardinality(S \cup {i}) = Cardinality(S) + 1
  BY Zenon, <1>2, FS_AddElement
<1>5. \A i \in Node : Cardinality({i}) = 1
  BY Zenon, FS_Singleton
<1>6. ASSUME NEW Q \in SUBSET Node, NEW R \in SUBSET Node,
             Cardinality(Q) + Cardinality(R) > Cardinality(Node)
      PROVE  Q \cap R # {}
  <2>1. IsFiniteSet(Node)
    BY Zenon, NodeAssumption
  <2> QED BY Zenon, <1>6, <2>1, FS_MajoritiesIntersect
<1> QED BY Zenon, <1>1, <1>2, <1>3, <1>4, <1>5, <1>6 DEF SetFacts

USE SetFactsHold

-----------------------------------------------------------------------------
(* The inductive invariant and what follows from it.                       *)

\* The invariant behind the properties below holds in every reachable state,
\* for every cluster size and batch size, and whatever the handlers, lost calls
\* and crashes do in what order.
THEOREM ElectionInvariant == Spec => []ElectionInv
<1>1. ElectionInv /\ [Next]_vars => ElectionInv'
  <2> SUFFICES ASSUME ElectionInv, [Next]_vars PROVE ElectionInv'
    BY Zenon
  <2>0. /\ TypeOK /\ CallsWithinTerm /\ OneReplyPerCall /\ VotesRemembered
        /\ VotesCountedOnce /\ WonByMajority /\ LeadersElected
        /\ IndexesInLog /\ CallsInLog
    BY Zenon DEF ElectionInv
  <2>1. TypeOK'
    BY Zenon, <2>0, TypeStep
  <2>2. CallsWithinTerm'
    BY Zenon, <2>0, <2>1, CallsWithinTermStep
  <2>3. OneReplyPerCall'
    BY Zenon, <2>0, <2>1, OneReplyPerCallStep
  <2>4. VotesRemembered'
    BY Zenon, <2>0, <2>1, VotesRememberedStep
  <2>5. VotesCountedOnce'
    BY Zenon, <2>0, <2>1, <2>4, VotesCountedOnceStep
  <2>6. WonByMajority'
    BY Zenon, <2>0, <2>1, WonByMajorityStep
  <2>7. LeadersElected'
    BY Zenon, <2>0, <2>1, LeadersElectedStep
  <2>8. IndexesInLog'
    BY Zenon, <2>0, <2>1, IndexesInLogStep
  <2>9. CallsInLog'
    BY Zenon, <2>0, <2>1, CallsInLogStep
  <2> QED BY Zenon, <2>1, <2>2, <2>3, <2>4, <2>5, <2>6, <2>7, <2>8, <2>9
          DEF ElectionInv
<1> QED BY <1>1, ElectionInvInit, PTL DEF Spec

\* Types are kept: in particular the nextIndex_ that replicatorLoop decrements
\* in an unsigned type is never 0.
THEOREM TypeCorrect == Spec => []TypeOK
<1>1. ElectionInv => TypeOK
  BY Zenon DEF ElectionInv
<1> QED BY <1>1, ElectionInvariant, PTL

\* No two nodes ever lead in one term (startElection, onRequestVote and the
\* durability of votedFor_): their voters would share a node, which votes once.
THEOREM AtMostOneLeader == Spec => []ElectionSafety
BY OneWinner, ElectionInvariant, PTL

\* Every winner has the votes of a majority, cast in its term, although
\* votesReceived_ only counts replies and replies may be late or lost.
THEOREM MajorityVoted == Spec => []ElectedByMajority
<1>1. ElectionInv => ElectedByMajority
  BY Zenon DEF ElectionInv, WonByMajority, ElectedByMajority
<1> QED BY <1>1, ElectionInvariant, PTL

\* A node that names a leader (submit's redirect, status) names the winner of
\* its own term.
THEOREM HintsTruthful == Spec => []LeaderHintTruthful
<1>1. ElectionInv => LeaderHintTruthful
  BY Zenon DEF ElectionInv, LeadersElected
<1> QED BY <1>1, ElectionInvariant, PTL

\* The reads log_[next - 1] of replicatorLoop and log_[n] of advanceCommit are
\* within log_, whatever late reply the indices come from.
THEOREM LeaderReadsInLog == Spec => []IndexesInLog
<1>1. ElectionInv => IndexesInLog
  BY Zenon DEF ElectionInv
<1> QED BY <1>1, ElectionInvariant, PTL

-----------------------------------------------------------------------------
(* Entries are made by leaders, one branch per term.                       *)

\* Every entry of a log or a call was made by the leader of its term, after the
\* entries before it: the appends of becomeLeader and submit, and the copies
\* onAppendEntries makes of them.
THEOREM EntriesMadeByLeaders == Spec => []MatchingInv
<1>1. ElectionInv /\ ElectionInv' /\ [Next]_vars /\ MatchingInv => MatchingInv'
  <2> SUFFICES ASSUME ElectionInv, ElectionInv', [Next]_vars, MatchingInv
               PROVE  MatchingInv'
    BY Zenon
  <2>1. TermsReached'
    BY Zenon, TermsReachedStep DEF MatchingInv, ElectionInv
  <2>2. MadeByLeaders'
    BY Zenon, <2>1, MadeByLeadersStep DEF MatchingInv
  <2> QED BY Zenon, <2>1, <2>2 DEF MatchingInv
<1> QED BY <1>1, MatchingInit, ElectionInvariant, PTL DEF Spec

\* Two logs with an entry of the same term at the same index are the same up to
\* it: the consistency check of onAppendEntries, whatever calls are lost, late
\* or handled after a restart.
THEOREM LogsMatch == Spec => []LogMatching
<1>1. ElectionInv /\ MatchingInv => LogMatching
  <2> SUFFICES ASSUME ElectionInv, MatchingInv,
                      NEW i \in Node, NEW j \in Node,
                      NEW k \in DOMAIN log[i] \cap DOMAIN log[j],
                      log[i][k].term = log[j][k].term
               PROVE  SameUpTo(log[i], log[j], k)
    BY Zenon DEF LogMatching
  <2>1. TypeOK /\ OneBranchPerTerm(Created)
    BY Zenon DEF ElectionInv, MatchingInv, MadeByLeaders
  <2>2. PathIn(log[i], Created) /\ PathIn(log[j], Created)
    BY Zenon, <2>1, LogsArePaths DEF ArePaths
  <2>3. log[i] \in Seq(Entry) /\ log[j] \in Seq(Entry)
    BY Zenon, <2>1 DEF TypeOK
  <2>4. k \in 1..Len(log[i]) /\ k <= Len(log[j])
    BY <2>3
  <2> QED BY Zenon, <2>1, <2>2, <2>4, PathsMatch
<1> QED BY <1>1, EntriesMadeByLeaders, ElectionInvariant, PTL

-----------------------------------------------------------------------------
(* What peers have confirmed.                                              *)

\* A leader's calls show a piece of its log, and what a peer has confirmed to it
\* the peer holds (replicatorLoop, onAppendEntries).
THEOREM ConfirmationsTruthful == Spec => []AckInv
<1>1. Init => AckInv
  <2> SUFFICES ASSUME Init PROVE AckInv
    BY Zenon
  <2>1. appReq = {} /\ \A i \in Node : role[i] # "leader"
    BY Zenon DEF Init
  <2> QED BY Zenon, <2>1 DEF AckInv, CallsShowLog, AcksTruthful
<1>2. ElectionInv /\ ElectionInv' /\ MatchingInv' /\ [Next]_vars /\ AckInv => AckInv'
  <2> SUFFICES ASSUME ElectionInv, ElectionInv', MatchingInv', [Next]_vars, AckInv
               PROVE  AckInv'
    BY Zenon
  <2>1. CallsShowLog'
    BY Zenon, CallsShowLogStep DEF AckInv
  <2>2. AcksTruthful'
    BY Zenon, AcksTruthfulStep DEF AckInv, MatchingInv
  <2> QED BY Zenon, <2>1, <2>2 DEF AckInv
<1> QED BY <1>1, <1>2, EntriesMadeByLeaders, ElectionInvariant, PTL DEF Spec

\* A leader's matchIndex_ never claims more than the peer has in its log while
\* the peer is in the leader's term: late, lost and repeated calls of
\* replicatorLoop notwithstanding, and although onAppendEntries truncates.
THEOREM MatchIndexIsTruthful == Spec => []MatchIndexTruthful
<1>1. ElectionInv /\ AckInv => MatchIndexTruthful
  <2> SUFFICES ASSUME ElectionInv, AckInv, NEW i \in Node, NEW p \in Node,
                      role[i] = "leader", currentTerm[p] = currentTerm[i]
               PROVE  SameUpTo(log[i], log[p], matchIndex[i][p])
    BY Zenon DEF MatchIndexTruthful
  <2> DEFINE n == matchIndex[i][p]
  <2>0. n \in Nat /\ log[i] \in Seq(Entry) /\ log[p] \in Seq(Entry)
    BY Zenon DEF ElectionInv, TypeOK
  <2>1. n \in Nat /\ Len(log[i]) \in Nat /\ Len(log[p]) \in Nat
    BY <2>0
  <2>2. n <= Len(log[i])
    BY Zenon DEF ElectionInv, IndexesInLog
  <2>3. n >= n
    BY <2>1
  <2>4. Acked(i, p, n)
    BY Zenon, <2>3 DEF Acked
  <2> HIDE DEF n
  <2>5. CASE n = 0
    BY <2>1, <2>5 DEF SameUpTo, n
  <2>6. CASE n # 0
    <3>1. n \in 1..Len(log[i])
      BY <2>1, <2>2, <2>6
    <3> QED BY Zenon, <2>4, <3>1 DEF AckInv, AcksTruthful, n
  <2> QED BY Zenon, <2>5, <2>6
<1> QED BY <1>1, ConfirmationsTruthful, ElectionInvariant, PTL

\* Replicators make one call at a time, from the nextIndex_ they have now.
THEOREM ReplicatorsInStep == Spec => []ReplicatorInv
<1>1. Init => ReplicatorInv
  <2> SUFFICES ASSUME Init PROVE ReplicatorInv
    BY Zenon
  <2>1. appRep = {} /\ \A i \in Node : role[i] # "leader"
    BY Zenon DEF Init
  <2> QED BY Zenon, <2>1 DEF ReplicatorInv
<1>2. ElectionInv /\ ElectionInv' /\ AckInv /\ [Next]_vars /\ ReplicatorInv
        => ReplicatorInv'
  BY Zenon, ReplicatorStep
<1> QED BY <1>1, <1>2, ElectionInvariant, ConfirmationsTruthful, PTL DEF Spec

\* A rejection that a replicator acts on moves nextIndex_ strictly down and keeps
\* it above matchIndex_, so that its retries, which follow without a pause, come
\* to an end.
THEOREM RejectionsBackUp == Spec => RejectionBacksUp
<1> DEFINE Backs(r) ==
      (/\ r \notin appRep' /\ faults' = faults
       /\ role[r.from] = "leader" /\ currentTerm[r.from] = r.term
       /\ ~r.success /\ r.rterm = r.term)
      => /\ nextIndex'[r.from][r.to] < nextIndex[r.from][r.to]
         /\ matchIndex[r.from][r.to] < nextIndex'[r.from][r.to]
<1>1. ASSUME ElectionInv, ReplicatorInv, [Next]_vars, NEW r \in appRep
      PROVE  Backs(r)
  <2> SUFFICES ASSUME r \notin appRep', faults' = faults,
                      role[r.from] = "leader", currentTerm[r.from] = r.term,
                      ~r.success, r.rterm = r.term
               PROVE  /\ nextIndex'[r.from][r.to] < nextIndex[r.from][r.to]
                      /\ matchIndex[r.from][r.to] < nextIndex'[r.from][r.to]
    BY Zenon
  <2>0. TypeOK
    BY Zenon, <1>1 DEF ElectionInv
  <2>1. PICK i \in Node, p \in Node : i = r.from /\ p = r.to /\ p # i
    BY Zenon, <1>1, <2>0, FieldTypes DEF ReplicatorInv
  <2>2. /\ nextIndex \in [Node -> [Node -> Nat \ {0}]] /\ Len(log[i]) \in Nat
        /\ r.conflictIndex \in Nat /\ r.rterm \in Nat /\ currentTerm[i] \in Nat
    <3>1. r.conflictIndex \in Nat /\ r.rterm \in Nat
      BY Zenon, <2>0, FieldTypes
    <3>2. /\ nextIndex \in [Node -> [Node -> Nat \ {0}]] /\ log[i] \in Seq(Entry)
          /\ currentTerm[i] \in Nat
      BY Zenon, <2>0 DEF TypeOK
    <3> QED BY <3>1, <3>2
  <2>3. /\ matchIndex[i][p] = 0
        /\ r.conflictIndex >= 1 /\ r.conflictIndex < nextIndex[i][p]
    <3>1. InStep(i, p) /\ Rejected(r, i, p)
      BY Zenon, <1>1, <2>1 DEF ReplicatorInv, Rejected, Told
    <3> QED BY Zenon, <3>1 DEF InStep
  <2>4. OnAppendReply(r)
    BY Zenon, <1>1, <2>0, ReplyTaken
  <2>5. nextIndex' = [nextIndex EXCEPT ![i][p] = BackUp(r.conflictIndex, Len(log[i]))]
    <3>1. ~(r.rterm > currentTerm[i]) /\ role[i] = "leader" /\ currentTerm[i] = r.term
      BY <2>1, <2>2
    <3> QED BY ZenonT(60), <2>1, <2>4, <3>1 DEF OnAppendReply
  <2>6. nextIndex'[i][p] = BackUp(r.conflictIndex, Len(log[i]))
    BY Zenon, <2>2, <2>5
  <2>7. BackUp(r.conflictIndex, Len(log[i])) \in 1..r.conflictIndex
    <3>1. PICK c \in Nat, n \in Nat : c = r.conflictIndex /\ n = Len(log[i])
      BY Zenon, <2>2
    <3>2. c # 0
      BY <2>2, <2>3, <3>1
    <3>3. BackUp(c, n) \in 1..(n + 1) /\ BackUp(c, n) <= c
      BY Zenon, <3>2, BackUpIs
    <3>4. BackUp(c, n) \in 1..c
      BY <3>3
    <3> QED BY Zenon, <3>1, <3>4
  <2>8. nextIndex'[i][p] < nextIndex[i][p] /\ matchIndex[i][p] < nextIndex'[i][p]
    BY <2>2, <2>3, <2>6, <2>7
  <2> QED BY Zenon, <2>1, <2>8
<1>2. (\A r \in appRep : Backs(r)) <=>
        (\A r \in appRep :
           LET i == r.from
               p == r.to
           IN  (/\ r \notin appRep' /\ faults' = faults
                /\ role[i] = "leader" /\ currentTerm[i] = r.term
                /\ ~r.success /\ r.rterm = r.term)
               => /\ nextIndex'[i][p] < nextIndex[i][p]
                  /\ matchIndex[i][p] < nextIndex'[i][p])
  BY Zenon
<1> HIDE DEF Backs
<1>3. ElectionInv /\ ReplicatorInv /\ [Next]_vars => \A r \in appRep : Backs(r)
  BY Zenon, <1>1
<1> QED BY <1>2, <1>3, ElectionInvariant, ReplicatorsInStep, PTL
        DEF Spec, RejectionBacksUp

-----------------------------------------------------------------------------
(* Committed entries.                                                      *)

\* What advanceCommit has committed is held by a majority, and by every leader
\* and every candidate that can still win of a later term (onRequestVote's
\* comparison of logs).
THEOREM CommittedAnchored == Spec => []SafetyInv
<1>1. Init => SafetyInv
  <2> SUFFICES ASSUME Init PROVE SafetyInv
    BY Zenon
  <2>1. /\ voteReq = {} /\ votes = {} /\ committed = <<>>
        /\ \A i \in Node : role[i] # "leader"
    BY Zenon DEF Init
  <2> QED BY Zenon, <2>1
          DEF SafetyInv, CandidatesShowLog, LeadersAnchored, CommittedDecided
<1>2. (/\ ElectionInv /\ ElectionInv' /\ MatchingInv /\ MatchingInv'
       /\ AckInv /\ AckInv' /\ [Next]_vars /\ SafetyInv) => SafetyInv'
  <2> SUFFICES ASSUME ElectionInv, ElectionInv', MatchingInv, MatchingInv',
                      AckInv, AckInv', [Next]_vars, SafetyInv
               PROVE  SafetyInv'
    BY Zenon
  <2>0. CandidatesShowLog /\ LeadersAnchored /\ CommittedDecided /\ StepsUnder
    BY Zenon DEF SafetyInv, StepsUnder
  <2>1. CandidatesShowLog'
    BY Zenon, <2>0, CandidatesShowLogStep
  <2>2. LeadersAnchored'
    BY Zenon, <2>0, LeadersAnchoredStep
  <2>3. CommittedDecided'
    BY Zenon, <2>0, <2>2, CommittedDecidedStep
  <2> QED BY Zenon, <2>1, <2>2, <2>3 DEF SafetyInv
<1> QED BY <1>1, <1>2, ElectionInvariant, EntriesMadeByLeaders,
           ConfirmationsTruthful, PTL DEF Spec

\* The whole inductive invariant holds always, whatever is lost, late or crashed.
THEOREM RaftInvariant == Spec => []RaftInv
<1>1. ElectionInv /\ MatchingInv /\ AckInv /\ SafetyInv => RaftInv
  BY Zenon DEF RaftInv, MatchingInv, AckInv, SafetyInv
<1> QED BY <1>1, ElectionInvariant, EntriesMadeByLeaders, ConfirmationsTruthful,
           CommittedAnchored, PTL

\* The leader of the newest term holds every entry ever committed: the election
\* restriction of onRequestVote and the rule of advanceCommit that only entries
\* of the leader's own term are counted.
THEOREM LeaderHoldsCommitted == Spec => []LeaderCompleteness
<1>1. ElectionInv /\ MatchingInv /\ SafetyInv => LeaderCompleteness
  <2> SUFFICES ASSUME ElectionInv, MatchingInv, SafetyInv, NEW i \in Node,
                      role[i] = "leader", \A e \in elected : e.term <= currentTerm[i]
               PROVE  SameUpTo(committed, log[i], Len(committed))
    BY Zenon DEF LeaderCompleteness
  <2>0. TypeOK /\ MadeByLeaders /\ CommittedDecided
    BY Zenon DEF ElectionInv, MatchingInv, SafetyInv
  <2>1. committed \in Seq(Entry) /\ log[i] \in Seq(Entry) /\ currentTerm[i] \in Nat
    BY Zenon, <2>0 DEF TypeOK
  <2>2. CASE committed = <<>>
    BY <2>1, <2>2 DEF SameUpTo
  <2>3. CASE committed # <<>>
    <3> DEFINE n == Len(committed)
    <3>1. n \in 1..Len(committed)
      BY <2>1, <2>3
    <3>2. PathIn(committed, Created)
      BY Zenon, <2>0, LogsArePaths DEF ArePaths
    <3>3. PICK A \in SUBSET Node : Anchored(committed, n, A)
      BY Zenon, <2>0, <2>3 DEF CommittedDecided, Decided
    <3> HIDE DEF n
    <3>4. NoneBeside(committed, n, Created)
      BY Zenon, <3>3 DEF Anchored, NoneBeside
    <3>5. currentTerm[i] >= committed[n].term
      <4>1. /\ ItemAt(committed, n) \in Created /\ committed[n].term \in Nat
            /\ ItemAt(committed, n).entry = committed[n]
        BY <3>1, <3>2, OnPath
      <4>2. PICK e \in elected : e.term = committed[n].term
        BY Zenon, <2>0, <4>1 DEF MadeByLeaders
      <4> QED BY Zenon, <2>1, <4>1, <4>2
    <3>6. SameUpTo(committed, log[i], n)
      BY Zenon, <2>0, <3>1, <3>2, <3>4, <3>5, LeaderContains
    <3> QED BY Zenon, <3>6 DEF n
  <2> QED BY Zenon, <2>2, <2>3
<1> QED BY <1>1, ElectionInvariant, EntriesMadeByLeaders, CommittedAnchored, PTL

\* No leader ever commits anything but an extension of what leaders before it
\* have committed (advanceCommit, under every schedule of calls and crashes).
THEOREM CommittedOnlyGrows == Spec => [][CommittedGrows]_vars
<1>1. (/\ ElectionInv /\ ElectionInv' /\ MatchingInv /\ MatchingInv'
       /\ AckInv /\ AckInv' /\ SafetyInv /\ SafetyInv' /\ [Next]_vars)
        => [CommittedGrows]_vars
  <2> SUFFICES ASSUME ElectionInv, ElectionInv', MatchingInv, MatchingInv',
                      AckInv, AckInv', SafetyInv, SafetyInv', [Next]_vars
               PROVE  CommittedGrows
    BY Zenon
  <2>1. StepsUnder /\ LeadersAnchored' /\ CommittedDecided
    BY Zenon DEF SafetyInv, StepsUnder
  <2> QED BY Zenon, <2>1, CommittedGrowsStep
<1> QED BY <1>1, ElectionInvariant, EntriesMadeByLeaders,
           ConfirmationsTruthful, CommittedAnchored, PTL DEF Spec

-----------------------------------------------------------------------------
(* A leader commits all it may.                                            *)

\* In every reachable state a leader has committed all that its term and its
\* match indexes allow, for every cluster size, a cluster of one included: no
\* handler that moves matchIndex_ or the log forgets advanceCommit, and none
\* runs it too early.
THEOREM LeaderCommitsAll == Spec => []NothingLeftToCommit
<1>1. Init => NothingLeftToCommit
  BY Zenon DEF Init, NothingLeftToCommit
<1>2. ElectionInv /\ ElectionInv' /\ NothingLeftToCommit /\ [Next]_vars
        => NothingLeftToCommit'
  BY Zenon, NothingLeftStep DEF ElectionInv
<1> QED BY <1>1, <1>2, ElectionInvariant, PTL DEF Spec

-----------------------------------------------------------------------------
(* Commit indexes cover decided entries only.                              *)

\* As long as batches reach the commit index, what nodes and calls take for
\* committed is decided.
THEOREM OnlyDecidedCommitted == Spec /\ []BatchesReachCommit => []CommitInv
<1>1. (/\ ElectionInv /\ ElectionInv' /\ MatchingInv /\ MatchingInv'
       /\ AckInv /\ AckInv' /\ SafetyInv /\ SafetyInv' /\ BatchesReachCommit
       /\ [Next]_vars /\ CommitInv) => CommitInv'
  <2> SUFFICES ASSUME ElectionInv, ElectionInv', MatchingInv, MatchingInv',
                      AckInv, AckInv', SafetyInv, SafetyInv', BatchesReachCommit,
                      [Next]_vars, CommitInv
               PROVE  CommitInv'
    BY Zenon
  <2>1. CommitStepsUnder
    BY Zenon DEF CommitStepsUnder, StepsUnder, SafetyInv
  <2> QED BY Zenon, <2>1, CommitInvStep
<1> QED BY <1>1, CommitInvInit, ElectionInvariant, EntriesMadeByLeaders,
           ConfirmationsTruthful, CommittedAnchored, PTL DEF Spec

\* No two nodes apply different entries at one index, crashes and late calls
\* notwithstanding, as long as no AppendEntries call declares entries committed
\* that its batch of kMaxBatch entries leaves out.  The hypothesis is needed:
\* onAppendEntries takes leaderCommit up to the end of its log, and not of what
\* the call has shown to match.
THEOREM StateMachinesAgree == Spec /\ []BatchesReachCommit => []StateMachineSafety
<1>1. CommitInv => StateMachineSafety
  BY Zenon DEF CommitInv
<1> QED BY <1>1, OnlyDecidedCommitted, PTL

\* Nor does a node ever truncate or overwrite what it has committed.
THEOREM CommittedNeverChanges == Spec /\ []BatchesReachCommit => CommittedImmutable
<1>1. (/\ ElectionInv /\ ElectionInv' /\ MatchingInv /\ MatchingInv'
       /\ AckInv /\ AckInv' /\ SafetyInv /\ SafetyInv' /\ BatchesReachCommit
       /\ [Next]_vars /\ CommitInv)
        => [\A i \in Node : SameUpTo(log[i], log'[i], commitIndex[i])]_vars
  <2> SUFFICES ASSUME ElectionInv, ElectionInv', MatchingInv, MatchingInv',
                      AckInv, AckInv', SafetyInv, SafetyInv', BatchesReachCommit,
                      [Next]_vars, CommitInv
               PROVE  \A i \in Node : SameUpTo(log[i], log'[i], commitIndex[i])
    BY Zenon
  <2>1. CommitStepsUnder
    BY Zenon DEF CommitStepsUnder, StepsUnder, SafetyInv
  <2> QED BY Zenon, <2>1, KeepsCommitted
<1> QED BY <1>1, OnlyDecidedCommitted, ElectionInvariant, EntriesMadeByLeaders,
           ConfirmationsTruthful, CommittedAnchored, PTL DEF Spec, CommittedImmutable

-----------------------------------------------------------------------------
(* The cluster implements ReplicatedLog.                                   *)

\* As long as batches reach the commit index the cluster implements
\* ReplicatedLog: one committed log, which only grows, and of which each node
\* knows a prefix that grows until its process dies.
THEOREM ClusterIsReplicatedLog ==
  Spec /\ []BatchesReachCommit => ImplementsReplicatedLog
<1>1. Init => RL!Init
  <2> SUFFICES ASSUME Init PROVE RL!Init
    BY Zenon
  <2>1. /\ committed = <<>>
        /\ \A i \in Node : log[i] = <<>> /\ commitIndex[i] = 0
    BY Zenon DEF Init
  <2>2. <<>> \in Seq(Entry) /\ SubSeq(<<>>, 1, 0) = <<>>
    OBVIOUS
  <2>3. \A i \in Node : Committed(i) = <<>>
    BY Zenon, <2>1, <2>2 DEF Committed
  <2> QED BY Zenon, <2>1, <2>2, <2>3 DEF RL!Init
<1>2. (/\ ElectionInv /\ ElectionInv' /\ MatchingInv /\ MatchingInv'
       /\ AckInv /\ AckInv' /\ SafetyInv /\ SafetyInv' /\ BatchesReachCommit
       /\ [Next]_vars /\ CommitInv /\ CommitInv')
        => [RL!Next]_(RL!vars)
  <2> SUFFICES ASSUME ElectionInv, ElectionInv', MatchingInv, MatchingInv',
                      AckInv, AckInv', SafetyInv, SafetyInv', BatchesReachCommit,
                      [Next]_vars, CommitInv, CommitInv'
               PROVE  [RL!Next]_(RL!vars)
    BY Zenon
  <2>1. CommitStepsUnder
    BY Zenon DEF CommitStepsUnder, StepsUnder, SafetyInv
  <2> QED BY Zenon, <2>1, RefinementStep
<1> QED BY <1>1, <1>2, OnlyDecidedCommitted, ElectionInvariant,
           EntriesMadeByLeaders, ConfirmationsTruthful, CommittedAnchored, PTL
        DEF Spec, ImplementsReplicatedLog, RL!Spec

-----------------------------------------------------------------------------
(* Logs that fit in one batch.                                             *)

\* In a cluster whose logs fit in one batch of kMaxBatch entries no two nodes
\* ever apply different entries at one index.
THEOREM SafeWithinOneBatch ==
  ASSUME MaxLog <= MaxBatch
  PROVE  Spec => []StateMachineSafety
<1> DEFINE Inv == LogsBounded /\ BatchesReachCommit /\ CommitInv
<1>1. Init => Inv
  <2> SUFFICES ASSUME Init PROVE Inv
    BY Zenon
  <2>1. appReq = {} /\ \A i \in Node : log[i] = <<>>
    BY Zenon DEF Init
  <2>2. LogsBounded /\ BatchesReachCommit
    BY <2>1, BoundAssumption DEF LogsBounded, BatchesReachCommit
  <2> QED BY Zenon, <2>2, CommitInvInit
<1>2. (/\ ElectionInv /\ ElectionInv' /\ MatchingInv /\ MatchingInv'
       /\ AckInv /\ AckInv' /\ SafetyInv /\ SafetyInv'
       /\ [Next]_vars /\ Inv) => Inv'
  <2> SUFFICES ASSUME ElectionInv, ElectionInv', MatchingInv, MatchingInv',
                      AckInv, AckInv', SafetyInv, SafetyInv', [Next]_vars, Inv
               PROVE  Inv'
    BY Zenon
  <2>1. CommitStepsUnder /\ LogsBounded
    BY Zenon DEF CommitStepsUnder, StepsUnder, SafetyInv
  <2>2. LogsBounded'
    BY Zenon, <2>1, LogsBoundedStep
  <2>3. BatchesReachCommit'
    BY Zenon, <2>1, BatchesReachCommitStep
  <2>4. CommitInv'
    BY Zenon, <2>1, CommitInvStep
  <2> QED BY Zenon, <2>2, <2>3, <2>4
<1>3. Inv => StateMachineSafety
  BY Zenon DEF CommitInv
<1> HIDE DEF Inv
<1> QED BY <1>1, <1>2, <1>3, ElectionInvariant, EntriesMadeByLeaders,
           ConfirmationsTruthful, CommittedAnchored, PTL DEF Spec

=============================================================================

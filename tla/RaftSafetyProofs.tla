-------------------------- MODULE RaftSafetyProofs --------------------------
(***************************************************************************)
(* Every step of Raft keeps the parts of the inductive invariant that are  *)
(* about anchored entries.                                                 *)
(***************************************************************************)
EXTENDS RaftMatchingProofs

USE DEF persistent, leaderVars, voteCalls, appCalls, history

-----------------------------------------------------------------------------
(* Votes and the logs of candidates.                                       *)

\* Where a vote request comes from: it was there, with its caller or without, or
\* it is of an election that starts.
LEMMA VoteCallsOrigin ==
  ASSUME TypeOK, [Next]_vars, NEW m \in voteReq'
  PROVE  \/ \E n \in voteReq : SameCall(m, n) /\ SameEnd(m, n)
         \/ \E i \in Node : /\ StartElection(i) /\ log' = log
                            /\ \E p \in Node \ {i} :
                                 m = VoteRequestTo(i, p, currentTerm[i] + 1)
<1> DEFINE Old == \E n \in voteReq : SameCall(m, n) /\ SameEnd(m, n)
           New(i) == /\ StartElection(i) /\ log' = log
                     /\ \E p \in Node \ {i} :
                          m = VoteRequestTo(i, p, currentTerm[i] + 1)
<1>1. ASSUME m \in voteReq PROVE Old
  BY Zenon, <1>1 DEF SameCall, SameEnd
<1>2. ASSUME CallsDropped PROVE Old
  BY Zenon, <1>2 DEF CallsDropped
<1>3. ASSUME NEW i \in Node, StartElection(i) PROVE Old \/ New(i)
  <2>1. CASE m \in voteReq
    BY Zenon, <1>1, <2>1
  <2>2. CASE m \notin voteReq
    <3>1. \E p \in Node \ {i} : m = VoteRequestTo(i, p, currentTerm[i] + 1)
      BY Zenon, <1>3, <2>2, NewCalls
    <3>2. log' = log
      BY Zenon, <1>3, <2>2 DEF StartElection
    <3> QED BY Zenon, <1>3, <3>1, <3>2
  <2> QED BY Zenon, <2>1, <2>2
<1>4. ASSUME NEW i \in Node, CrashInElection(i) PROVE Old
  BY Zenon, <1>2, <1>4, RebootDrops DEF CrashInElection
<1>5. ASSUME NEW n \in voteReq, OnRequestVote(n) PROVE Old
  <2>1. m \in voteReq
    BY Zenon, <1>5 DEF OnRequestVote
  <2> QED BY Zenon, <1>1, <2>1
<1>6. ASSUME NEW r \in voteRep, OnVoteReply(r) PROVE Old
  <2>1. m \in voteReq
    BY Zenon, <1>6 DEF OnVoteReply
  <2> QED BY Zenon, <1>1, <2>1
<1>7. Old \/ \E i \in Node : New(i)
  <2> HIDE DEF Old, New
  <2> QED BY Zenon, <1>2, <1>3, <1>4, <1>5, <1>6, ElectionSteps
<1> QED BY Zenon, <1>7

\* Node m.to grants the vote that m asks for.
Grants(m) ==
  /\ log' = log
  /\ \A c \in Node : /\ role'[c] \in {role[c], "follower"}
                     /\ c # m.to => currentTerm'[c] = currentTerm[c]
  /\ UpToDate(m.lastLogTerm, m.lastLogIndex, log[m.to])

\* Where a vote comes from: it was cast before, is cast by a candidate for
\* itself, or is granted to a candidate.
LEMMA NewVotes ==
  ASSUME TypeOK, [Next]_vars, NEW v \in votes', v \notin votes
  PROVE  \/ v.voter = v.candidate /\ v.term = currentTerm'[v.candidate]
         \/ \E m \in voteReq :
              /\ v.voter = m.to /\ v.term = m.term /\ v.candidate = m.from
              /\ Grants(m)
<1> DEFINE Own == v.voter = v.candidate /\ v.term = currentTerm'[v.candidate]
           For(m) == /\ v.voter = m.to /\ v.term = m.term /\ v.candidate = m.from
                     /\ Grants(m)
<1>0. /\ currentTerm \in [Node -> Nat]
      /\ role \in [Node -> {"follower", "candidate", "leader"}]
  BY Zenon DEF TypeOK
<1>1. ASSUME NEW i \in Node, StartElection(i) \/ CrashInElection(i) PROVE Own
  <2>1. /\ votes' = votes \cup {[voter |-> i, term |-> currentTerm[i] + 1, candidate |-> i]}
        /\ currentTerm' = [currentTerm EXCEPT ![i] = currentTerm[i] + 1]
    BY Zenon, <1>1 DEF StartElection, CrashInElection
  <2>2. v = [voter |-> i, term |-> currentTerm[i] + 1, candidate |-> i]
    BY Zenon, <2>1
  <2>3. currentTerm'[i] = currentTerm[i] + 1
    BY Zenon, <1>0, <2>1
  <2> QED BY Zenon, <2>2, <2>3
<1>2. ASSUME NEW m \in voteReq, OnRequestVote(m) PROVE For(m)
  <2> DEFINE granted == m.term >= currentTerm[m.to] /\ GrantsVote(m.to, m)
  <2>0. m.to \in Node /\ m.from \in Node /\ m.term \in Nat
    BY Zenon, FieldTypes
  <2>1. /\ votes' = votes \cup
             (IF granted THEN {[voter |-> m.to, term |-> m.term, candidate |-> m.from]}
              ELSE {})
        /\ role' = [role EXCEPT ![m.to] =
             IF m.term > currentTerm[m.to] THEN "follower" ELSE @]
        /\ currentTerm' = [currentTerm EXCEPT ![m.to] =
             IF m.term > currentTerm[m.to] THEN m.term ELSE @]
        /\ log' = log
    BY Zenon, <1>2 DEF OnRequestVote
  <2> HIDE DEF granted
  <2>2. granted /\ v = [voter |-> m.to, term |-> m.term, candidate |-> m.from]
    BY Zenon, <2>1
  <2>3. UpToDate(m.lastLogTerm, m.lastLogIndex, log[m.to])
    BY Zenon, <2>2 DEF granted, GrantsVote
  <2>4. \A c \in Node : /\ role'[c] \in {role[c], "follower"}
                        /\ c # m.to => currentTerm'[c] = currentTerm[c]
    BY Zenon, <1>0, <2>0, <2>1
  <2> QED BY Zenon, <2>1, <2>2, <2>3, <2>4 DEF Grants
<1>3. ASSUME NEW r \in voteRep, OnVoteReply(r) PROVE votes' = votes
  BY ZenonT(30), <1>3 DEF OnVoteReply, BecomeFollower
<1>4. ASSUME NEW i \in Node, NEW t \in Nat, StepsDown(i, t) PROVE votes' = votes
  BY Zenon, <1>4 DEF StepsDown
<1>5. Own \/ \E m \in voteReq : For(m)
  <2> HIDE DEF Own, For
  <2> QED BY Zenon, <1>1, <1>2, <1>3, <1>4, ElectionSteps
<1> QED BY Zenon, <1>5

\* A candidate's log does not change while it is one.
LEMMA CandidateLog ==
  ASSUME SetFacts, TypeOK, TypeOK', [Next]_vars, IndexesInLog, NEW c \in Node, role'[c] = "candidate"
  PROVE  log'[c] = log[c]
<1>0. /\ DOMAIN log = Node /\ role \in [Node -> {"follower", "candidate", "leader"}]
  BY Zenon DEF TypeOK
<1>1. ASSUME NEW i \in Node, Grows(i) PROVE log'[c] = log[c]
  <2>1. PICK e \in Entry : log' = [log EXCEPT ![i] = Append(log[i], e)]
    BY Zenon, <1>1 DEF Grows
  <2>2. i # c
    BY Zenon, <1>1 DEF Grows
  <2> QED BY Zenon, <1>0, <2>1, <2>2
<1>2. ASSUME NEW m \in appReq, NEW lg, Accepts(m, lg) PROVE log'[c] = log[c]
  <2>1. /\ m.to \in Node /\ log' = [log EXCEPT ![m.to] = lg]
        /\ role' = [role EXCEPT ![m.to] = "follower"]
    BY Zenon, <1>2, FieldTypes DEF Accepts
  <2>2. m.to # c
    BY Zenon, <1>0, <2>1
  <2> QED BY Zenon, <1>0, <2>1, <2>2
<1> QED BY Zenon, <1>1, <1>2, LogSteps

\* A candidate after a step was one before, in the same term, or starts its
\* election.
LEMMA CandidateSteps ==
  ASSUME TypeOK, [Next]_vars, NEW c \in Node, role'[c] = "candidate"
  PROVE  \/ role[c] = "candidate" /\ currentTerm'[c] = currentTerm[c]
         \/ currentTerm'[c] = currentTerm[c] + 1
<1>0. currentTerm \in [Node -> Nat]
  BY Zenon DEF TypeOK
<1>1. ASSUME StartElection(c) PROVE currentTerm'[c] = currentTerm[c] + 1
  BY Zenon, <1>0, <1>1 DEF StartElection
<1> QED BY Zenon, <1>1, RoleSteps

\* Candidates go on showing the ends of their logs.
LEMMA CandidatesShowLogStep ==
  ASSUME SetFacts, ElectionInv, ElectionInv', [Next]_vars, CandidatesShowLog
  PROVE  CandidatesShowLog'
<1>0. TypeOK /\ TypeOK' /\ IndexesInLog /\ CallsWithinTerm
  BY Zenon DEF ElectionInv
<1>00. /\ \A j \in Node : /\ currentTerm[j] \in Nat /\ currentTerm'[j] \in Nat
                          /\ currentTerm[j] <= currentTerm'[j]
       /\ votes \in SUBSET [voter : Node, term : Nat, candidate : Node]
       /\ votes' \in SUBSET [voter : Node, term : Nat, candidate : Node]
  <2>1. /\ votes \in SUBSET [voter : Node, term : Nat, candidate : Node]
        /\ votes' \in SUBSET [voter : Node, term : Nat, candidate : Node]
    BY Zenon, <1>0 DEF TypeOK
  <2> QED BY Zenon, <1>0, <2>1, TermTypes
<1>1. ASSUME NEW m \in voteReq', role'[m.from] = "candidate", currentTerm'[m.from] = m.term
      PROVE  /\ m.lastLogIndex = Len(log'[m.from])
             /\ m.lastLogTerm = LastTerm(log'[m.from])
  <2>1. ASSUME NEW n \in voteReq, SameCall(m, n), SameEnd(m, n)
        PROVE  /\ m.lastLogIndex = Len(log'[m.from])
               /\ m.lastLogTerm = LastTerm(log'[m.from])
    <3>1. n.from \in Node /\ m.from = n.from /\ m.term = n.term /\ n.term \in Nat
      BY Zenon, <1>0, <2>1, FieldTypes DEF SameCall
    <3>2. m.term <= currentTerm[m.from]
      BY Zenon, <1>0, <3>1 DEF CallsWithinTerm
    <3>3. role[m.from] = "candidate" /\ currentTerm[m.from] = m.term
      BY <1>0, <1>00, <1>1, <3>1, <3>2, CandidateSteps
    <3>4. log'[m.from] = log[m.from]
      BY Zenon, <1>0, <1>1, <3>1, CandidateLog
    <3> QED BY Zenon, <2>1, <3>1, <3>3, <3>4 DEF CandidatesShowLog, SameEnd
  <2>2. ASSUME NEW i \in Node, log' = log, NEW p \in Node,
               m = VoteRequestTo(i, p, currentTerm[i] + 1)
        PROVE  /\ m.lastLogIndex = Len(log'[m.from])
               /\ m.lastLogTerm = LastTerm(log'[m.from])
    BY Zenon, <2>2 DEF VoteRequestTo
  <2> QED BY Zenon, <1>0, <2>1, <2>2, VoteCallsOrigin
<1>2. ASSUME NEW v \in votes' PROVE v.term <= currentTerm'[v.candidate]
  <2>0. v.candidate \in Node /\ v.term \in Nat
    BY Zenon, <1>00
  <2>1. CASE v \in votes
    <3>1. v.term <= currentTerm[v.candidate]
      BY Zenon, <2>1 DEF CandidatesShowLog
    <3> QED BY <1>00, <2>0, <3>1
  <2>2. CASE v \notin votes
    <3>1. ASSUME NEW m \in voteReq, v.term = m.term, v.candidate = m.from
          PROVE  v.term <= currentTerm'[v.candidate]
      <4>1. v.term <= currentTerm[v.candidate]
        BY Zenon, <1>0, <3>1 DEF CallsWithinTerm
      <4> QED BY <1>00, <2>0, <4>1
    <3>2. CASE v.term = currentTerm'[v.candidate]
      BY <2>0, <3>2
    <3> QED BY Zenon, <1>0, <2>2, <3>1, <3>2, NewVotes
  <2> QED BY Zenon, <2>1, <2>2
<1> QED BY Zenon, <1>1, <1>2 DEF CandidatesShowLog

-----------------------------------------------------------------------------
(* What is anchored stays anchored.                                        *)

\* The three parts of Anchored that change in their own ways; the fourth is
\* NoneBeside(lg, n, Created).
Held(lg, n, A) ==
  \A p \in A : currentTerm[p] >= lg[n].term /\ SameUpTo(lg, log[p], n)
VotesFollow(lg, n, A) ==
  \A v \in votes :
    (/\ v.voter \in A /\ v.term > lg[n].term
     /\ role[v.candidate] = "candidate" /\ currentTerm[v.candidate] = v.term)
      => SameUpTo(lg, log[v.candidate], n)
CallAgrees(m, lg, n) ==
  m.term >= lg[n].term =>
    /\ m.prevLogIndex \in 1..n => m.prevLogTerm = lg[m.prevLogIndex].term
    /\ m.prevLogIndex > n => m.prevLogTerm >= lg[n].term
    /\ \A k \in DOMAIN m.entries : m.prevLogIndex + k <= n =>
         m.entries[k].term = lg[m.prevLogIndex + k].term

\* Anchored is these parts.
LEMMA AnchoredParts ==
  ASSUME NEW lg, NEW n, NEW A
  PROVE  Anchored(lg, n, A) <=>
           /\ Held(lg, n, A) /\ VotesFollow(lg, n, A)
           /\ NoneBeside(lg, n, Created)
           /\ \A m \in appReq : CallAgrees(m, lg, n)
BY Zenon DEF Anchored, Held, VotesFollow, NoneBeside, CallAgrees

\* The same after a step.
LEMMA AnchoredPartsNext ==
  ASSUME NEW lg, NEW n, NEW A
  PROVE  Anchored(lg, n, A)' <=>
           /\ Held(lg, n, A)' /\ VotesFollow(lg, n, A)'
           /\ NoneBeside(lg, n, Created')
           /\ \A m \in appReq' : CallAgrees(m, lg, n)
BY Zenon DEF Anchored, Held, VotesFollow, NoneBeside, CallAgrees

\* A leader whose log reaches the term of an entry contains the log up to it.
LEMMA LeaderContains ==
  ASSUME SetFacts, ElectionInv, MadeByLeaders, NEW i \in Node, role[i] = "leader",
         NEW lg, PathIn(lg, Created), NEW n \in 1..Len(lg),
         NoneBeside(lg, n, Created), currentTerm[i] >= lg[n].term
  PROVE  SameUpTo(lg, log[i], n)
<1>0. TypeOK /\ OneBranchPerTerm(Created)
  BY Zenon DEF ElectionInv, MadeByLeaders
<1> DEFINE lh == log[i]
           k == Len(lh)
<1>1. PathIn(lh, Created)
  BY Zenon, <1>0, LogsArePaths DEF ArePaths
<1>2. k > 0 /\ LastTerm(lh) = currentTerm[i]
  BY Zenon DEF MadeByLeaders
<1>3. /\ ItemAt(lg, n) \in Created /\ ItemAt(lg, n).index = n
      /\ ItemAt(lg, n).entry = lg[n] /\ lg[n].term \in Nat
  BY OnPath
<1>4. lg[n].term = currentTerm[i] => n <= k
  BY Zenon, <1>3 DEF MadeByLeaders
<1>5. k \in Nat /\ n \in Nat /\ currentTerm[i] \in Nat
  <2>1. Len(lg) \in Nat
    BY DEF PathIn
  <2> QED BY <1>0, <2>1 DEF TypeOK
<1>6. k \in 1..k /\ lh[k].term = currentTerm[i]
  <2>1. k # 0 /\ k \in 1..k
    BY <1>2, <1>5
  <2> QED BY Zenon, <1>2, <2>1 DEF LastTerm, TermAt
<1>7. lh[k].term >= lg[n].term /\ (lh[k].term > lg[n].term \/ k >= n)
  BY <1>3, <1>4, <1>5, <1>6
<1> HIDE DEF lh, k
<1>8. SameUpTo(lg, lh, n)
  BY Zenon, <1>0, <1>1, <1>6, <1>7, PathContains DEF k
<1> QED BY Zenon, <1>8 DEF lh

\* Those who hold the log up to n do so after a step.
LEMMA HeldStep ==
  ASSUME SetFacts, ElectionInv, ElectionInv', [Next]_vars, NEW lg \in Seq(Entry),
         NEW n \in 1..Len(lg), NEW A \in SUBSET Node, Held(lg, n, A),
         \A m \in appReq : CallAgrees(m, lg, n)
  PROVE  Held(lg, n, A)'
<1>0. TypeOK /\ TypeOK' /\ IndexesInLog
  BY Zenon DEF ElectionInv
<1>00. /\ DOMAIN log = Node /\ \A j \in Node : log[j] \in Seq(Entry)
       /\ \A j \in Node : log'[j] \in Seq(Entry)
       /\ n \in Nat /\ lg[n].term \in Nat
  <2>1. lg[n].term \in Nat
    BY Zenon, EntryTerm
  <2> QED BY <1>0, <2>1 DEF TypeOK
<1> SUFFICES ASSUME NEW p \in A
             PROVE  currentTerm'[p] >= lg[n].term /\ SameUpTo(lg, log'[p], n)
  BY Zenon DEF Held
<1>1. p \in Node /\ currentTerm[p] >= lg[n].term /\ SameUpTo(lg, log[p], n)
  BY Zenon DEF Held
<1>2. currentTerm'[p] >= lg[n].term
  <2>1. /\ currentTerm[p] \in Nat /\ currentTerm'[p] \in Nat
        /\ currentTerm[p] <= currentTerm'[p]
    BY Zenon, <1>0, <1>1, TermTypes
  <2> QED BY <1>00, <1>1, <2>1
<1>3. SameUpTo(log[p], log'[p], n)
  <2>1. n \in 0..Len(log[p]) /\ \A k \in 1..n : lg[k] = log[p][k]
    BY <1>00, <1>1 DEF SameUpTo
  <2>2. CASE log'[p] = log[p]
    BY Zenon, <1>00, <1>1, <2>1, <2>2 DEF SameUpTo
  <2>3. ASSUME NEW j \in Node, Grows(j) PROVE SameUpTo(log[p], log'[p], n)
    <3>1. PICK e \in Entry : log' = [log EXCEPT ![j] = Append(log[j], e)]
      BY Zenon, <2>3 DEF Grows
    <3>2. CASE j # p
      BY Zenon, <1>00, <1>1, <2>2, <3>1, <3>2
    <3>3. CASE j = p
      <4>1. log'[p] = Append(log[p], e)
        BY Zenon, <1>00, <1>1, <3>1, <3>3
      <4>2. SameUpTo(log[p], log'[p], Len(log[p]))
        BY Zenon, <1>00, <1>1, <4>1, OneMore
      <4>3. Len(log[p]) \in Nat /\ Len(log'[p]) \in Nat
        BY <1>00, <1>1
      <4> QED BY Zenon, <2>1, <4>2, <4>3, SameShorter
    <3> QED BY Zenon, <3>2, <3>3
  <2>4. ASSUME NEW m \in appReq, NEW lg2 \in Seq(Entry), Accepts(m, lg2)
        PROVE  SameUpTo(log[p], log'[p], n)
    <3>1. /\ m.to \in Node /\ m.prevLogIndex \in Nat /\ m.entries \in Seq(Entry)
          /\ m.term \in Nat
      BY Zenon, <1>0, FieldTypes
    <3>2. /\ m.term >= currentTerm[m.to] /\ log' = [log EXCEPT ![m.to] = lg2]
          /\ Takes(log[m.to], m.prevLogIndex, m.entries, lg2)
      BY Zenon, <2>4 DEF Accepts
    <3>3. CASE m.to # p
      BY Zenon, <1>00, <1>1, <2>2, <3>1, <3>2, <3>3
    <3>4. CASE m.to = p
      <4>1. log'[p] = lg2
        BY Zenon, <1>00, <3>1, <3>2, <3>4
      <4>2. m.term >= lg[n].term
        <5>1. currentTerm[p] \in Nat
          BY Zenon, <1>0, <1>1 DEF TypeOK
        <5> QED BY <1>00, <1>1, <3>1, <3>2, <3>4, <5>1
      <4>3. \A k \in DOMAIN m.entries : m.prevLogIndex + k <= n =>
              m.entries[k].term = lg[m.prevLogIndex + k].term
        BY Zenon, <4>2 DEF CallAgrees
      <4>4. ASSUME NEW k \in 1..Len(m.entries), m.prevLogIndex + k <= n
            PROVE  m.entries[k].term = log[p][m.prevLogIndex + k].term
        <5>1. k \in DOMAIN m.entries /\ m.prevLogIndex + k \in 1..n
          BY <1>00, <3>1, <4>4
        <5> QED BY Zenon, <2>1, <4>3, <4>4, <5>1
      <4>5. log[p] \in Seq(Entry) /\ Takes(log[p], m.prevLogIndex, m.entries, lg2)
        BY Zenon, <1>00, <1>1, <3>2, <3>4
      <4>6. SameUpTo(log[p], lg2, n)
        BY Zenon, <2>1, <3>1, <4>4, <4>5, TakesKeeps
      <4> QED BY Zenon, <4>1, <4>6
    <3> QED BY Zenon, <3>3, <3>4
  <2> QED BY Zenon, <1>0, <2>2, <2>3, <2>4, LogSteps
<1>4. SameUpTo(lg, log'[p], n)
  BY Zenon, <1>1, <1>3, SameTrans
<1> QED BY Zenon, <1>2, <1>4

\* The last entry of a log that contains lg up to n has no lower a term.
LEMMA LastTermReaches ==
  ASSUME SetFacts, NEW S, OneBranchPerTerm(S), NEW lh, PathIn(lh, S), NEW lg,
         NEW n \in Nat \ {0}, SameUpTo(lg, lh, n), NEW k \in n..Len(lh)
  PROVE  /\ lh[k].term >= lg[n].term /\ lg[n].term \in Nat /\ lh[k].term \in Nat
<1>1. lh \in Seq(Entry) /\ Len(lh) \in Nat
  BY DEF PathIn
<1>2. n \in 1..k /\ k \in 1..Len(lh) /\ n \in 1..Len(lh)
  BY <1>1
<1>3. lh[n].term <= lh[k].term
  BY Zenon, <1>2, TermsGoUp
<1>4. lh[n] = lg[n]
  BY <1>2 DEF SameUpTo
<1>5. lh[n].term \in Nat /\ lh[k].term \in Nat
  BY Zenon, <1>1, <1>2, EntryTerm
<1> QED BY Zenon, <1>3, <1>4, <1>5

\* Whoever collects a vote of those who hold the log up to n holds it too.
LEMMA VotesFollowStep ==
  ASSUME SetFacts, ElectionInv, ElectionInv', [Next]_vars, MadeByLeaders, CandidatesShowLog,
         NEW lg, PathIn(lg, Created), NEW n \in 1..Len(lg), NEW A \in SUBSET Node,
         Held(lg, n, A), Held(lg, n, A)', VotesFollow(lg, n, A),
         NoneBeside(lg, n, Created)
  PROVE  VotesFollow(lg, n, A)'
<1>0. /\ TypeOK /\ TypeOK' /\ IndexesInLog /\ OneBranchPerTerm(Created)
      /\ VotesRemembered'
  BY Zenon DEF ElectionInv, MadeByLeaders
<1>00. /\ \A j \in Node : log[j] \in Seq(Entry)
       /\ \A j \in Node : currentTerm[j] \in Nat
       /\ votes' \in SUBSET [voter : Node, term : Nat, candidate : Node]
       /\ lg \in Seq(Entry) /\ n \in Nat \ {0}
  <2>1. lg \in Seq(Entry) /\ n \in Nat \ {0}
    BY DEF PathIn
  <2> QED BY Zenon, <1>0, <2>1 DEF TypeOK
<1>000. lg[n].term \in Nat
  BY Zenon, <1>00, EntryTerm
<1> SUFFICES ASSUME NEW v \in votes', v.voter \in A, v.term > lg[n].term,
                    role'[v.candidate] = "candidate",
                    currentTerm'[v.candidate] = v.term
             PROVE  SameUpTo(lg, log'[v.candidate], n)
  BY Zenon DEF VotesFollow
<1> DEFINE c == v.candidate
<1>1. c \in Node /\ v.term \in Nat
  BY Zenon, <1>00
<1>2. log'[c] = log[c]
  BY Zenon, <1>0, <1>1, CandidateLog
<1>3. CASE c \in A
  BY Zenon, <1>3 DEF Held
<1>4. CASE v \in votes
  <2>1. v.term <= currentTerm[c]
    BY Zenon, <1>4 DEF CandidatesShowLog
  <2>2. role[c] = "candidate" /\ currentTerm[c] = v.term
    BY <1>0, <1>00, <1>1, <2>1, CandidateSteps
  <2>3. SameUpTo(lg, log[c], n)
    BY Zenon, <1>4, <2>2 DEF VotesFollow
  <2> QED BY Zenon, <1>2, <2>3
<1>5. ASSUME c \notin A, NEW m \in voteReq, v.voter = m.to, v.term = m.term,
             c = m.from, Grants(m)
      PROVE  SameUpTo(lg, log[c], n)
  <2> DEFINE p == m.to
  <2>1. p \in A /\ p \in Node /\ c # p
    BY Zenon, <1>5
  <2>2. role[c] = "candidate" /\ currentTerm[c] = m.term
    BY Zenon, <1>1, <1>5, <2>1 DEF Grants
  <2>3. m.lastLogIndex = Len(log[c]) /\ m.lastLogTerm = LastTerm(log[c])
    BY Zenon, <1>5, <2>2 DEF CandidatesShowLog
  <2>4. UpToDate(LastTerm(log[c]), Len(log[c]), log[p])
    BY Zenon, <1>5, <2>3 DEF Grants
  <2>5. SameUpTo(lg, log[p], n)
    BY Zenon, <2>1 DEF Held
  <2> DEFINE lh == log[c]
             lp == log[p]
             k == Len(lh)
             kp == Len(lp)
  <2>6. lh \in Seq(Entry) /\ lp \in Seq(Entry) /\ k \in Nat /\ kp \in Nat
    BY <1>00, <1>1, <2>1
  <2>7. PathIn(lh, Created) /\ PathIn(lp, Created)
    BY Zenon, <1>0, <1>1, <2>1, LogsArePaths DEF ArePaths
  <2> HIDE DEF c, p
  <2>8. kp >= n /\ kp \in n..kp /\ kp # 0
    BY <1>00, <2>5, <2>6 DEF SameUpTo
  <2>9. lp[kp].term >= lg[n].term /\ lp[kp].term \in Nat
    BY Zenon, <1>0, <1>00, <2>5, <2>7, <2>8, LastTermReaches
  <2>10. LastTerm(lp) = lp[kp].term
    BY Zenon, <2>8 DEF LastTerm, TermAt
  <2>11. lg[n].term >= 1
    <3>1. ItemAt(lg, n) \in Created /\ ItemAt(lg, n).entry = lg[n]
      BY OnPath
    <3> QED BY Zenon, <1>0, <3>1 DEF OneBranchPerTerm
  <2>12. k # 0
    <3> SUFFICES ASSUME k = 0 PROVE FALSE
      BY Zenon
    <3>1. LastTerm(lh) = 0
      BY Zenon DEF LastTerm, TermAt
    <3>2. 0 > LastTerm(lp) \/ 0 = LastTerm(lp)
      BY Zenon, <2>4, <3>1 DEF UpToDate
    <3> QED BY <1>000, <2>9, <2>10, <2>11, <3>2
  <2>13. LastTerm(lh) = lh[k].term
    BY Zenon, <2>12 DEF LastTerm, TermAt
  <2>14. k \in 1..Len(lh) /\ lh[k].term \in Nat
    BY <2>6, <2>12, EntryTerm
  <2>15. lh[k].term >= lg[n].term /\ (lh[k].term > lg[n].term \/ k >= n)
    <3>1. lh[k].term > lp[kp].term \/ (lh[k].term = lp[kp].term /\ k >= kp)
      BY Zenon, <2>4, <2>10, <2>13 DEF UpToDate
    <3> HIDE DEF lh, lp, k, kp
    <3> QED BY <1>00, <1>000, <2>6, <2>8, <2>9, <2>14, <3>1
  <2> HIDE DEF k
  <2>16. SameUpTo(lg, lh, n)
    BY Zenon, <1>0, <2>7, <2>14, <2>15, PathContains
  <2> QED BY Zenon, <2>16 DEF lh
<1>6. CASE v \notin votes /\ c \notin A
  <2>1. v.voter # v.candidate
    BY Zenon, <1>6
  <2>2. \E m \in voteReq :
              /\ v.voter = m.to /\ v.term = m.term /\ v.candidate = m.from
              /\ Grants(m)
    BY Zenon, <1>0, <1>6, <2>1, NewVotes
  <2>3. SameUpTo(lg, log[c], n)
    BY Zenon, <1>5, <1>6, <2>2
  <2> QED BY Zenon, <1>2, <2>3
<1> QED BY Zenon, <1>3, <1>4, <1>6

\* Calls go on agreeing with the log up to n.
LEMMA CallsAgreeStep ==
  ASSUME SetFacts, ElectionInv, [Next]_vars, MadeByLeaders,
         NEW lg, PathIn(lg, Created), NEW n \in 1..Len(lg),
         NoneBeside(lg, n, Created), \A m \in appReq : CallAgrees(m, lg, n),
         NEW m \in appReq'
  PROVE  CallAgrees(m, lg, n)
<1>0. /\ TypeOK /\ OneBranchPerTerm(Created) /\ IndexesInLog
  BY Zenon DEF ElectionInv, MadeByLeaders
<1>1. CASE m \in appReq
  BY Zenon, <1>1
<1>2. CASE \E x \in appReq : SameArgs(m, x)
  BY Zenon, <1>2 DEF SameArgs, CallAgrees
<1>3. ASSUME m \notin appReq, NEW i \in Node, NEW p \in Node, SendAppend(i, p)
      PROVE  CallAgrees(m, lg, n)
  <2> SUFFICES ASSUME m.term >= lg[n].term
               PROVE  /\ m.prevLogIndex \in 1..n =>
                           m.prevLogTerm = lg[m.prevLogIndex].term
                      /\ m.prevLogIndex > n => m.prevLogTerm >= lg[n].term
                      /\ \A k \in DOMAIN m.entries : m.prevLogIndex + k <= n =>
                           m.entries[k].term = lg[m.prevLogIndex + k].term
    BY Zenon DEF CallAgrees
  <2> DEFINE prev == m.prevLogIndex
             es == m.entries
             lh == log[i]
  <2>1. /\ prev \in Nat /\ es \in Seq(Entry) /\ prev + Len(es) <= Len(lh)
        /\ m.prevLogTerm = TermAt(lh, prev) /\ m.term = currentTerm[i]
        /\ role[i] = "leader"
    BY <1>0, <1>3, SentAppend
  <2>2. \A k \in 1..Len(es) : es[k] = lh[prev + k]
    BY <1>0, <1>3, SentAppend
  <2>3. SameUpTo(lg, lh, n)
    BY Zenon, <2>1, LeaderContains
  <2>4. PathIn(lh, Created) /\ n \in Nat \ {0} /\ Len(lh) \in Nat
    <3>1. PathIn(lh, Created)
      BY Zenon, <1>0, LogsArePaths DEF ArePaths
    <3> QED BY <3>1 DEF PathIn
  <2> HIDE DEF prev, es, lh
  <2>5. \A k \in 1..n : lg[k] = lh[k]
    BY Zenon, <2>3 DEF SameUpTo
  <2>6. ASSUME prev \in 1..n PROVE m.prevLogTerm = lg[prev].term
    BY <2>1, <2>5, <2>6 DEF TermAt
  <2>7. ASSUME prev > n PROVE m.prevLogTerm >= lg[n].term
    <3>1. prev \in n..Len(lh) /\ prev # 0
      BY <2>1, <2>4, <2>7
    <3>2. lh[prev].term >= lg[n].term
      BY Zenon, <1>0, <2>3, <2>4, <3>1, LastTermReaches
    <3> QED BY Zenon, <2>1, <3>1, <3>2 DEF TermAt
  <2>8. ASSUME NEW k \in DOMAIN es, prev + k <= n
        PROVE  es[k].term = lg[prev + k].term
    <3>1. k \in 1..Len(es) /\ prev + k \in 1..n
      BY <2>1, <2>4, <2>8
    <3> QED BY Zenon, <2>2, <2>5, <3>1
  <2> QED BY Zenon, <2>6, <2>7, <2>8 DEF prev, es
<1> QED BY Zenon, <1>0, <1>1, <1>2, <1>3, AppendCallsOrigin

\* Whoever has been elected for a term beyond t has the vote of a node of B,
\* when B and those not beyond t are a majority.
LEMMA WinnerHasVoter ==
  ASSUME SetFacts, ElectionInv', NEW e \in elected', NEW t \in Nat, e.term > t,
         NEW B \in SUBSET Node, Cardinality(B \cup Open(t)') >= Majority
  PROVE  \E p \in B : [voter |-> p, term |-> e.term, candidate |-> e.node] \in votes'
<1> DEFINE Q == Voters(e.term, e.node)'
           R == B \cup Open(t)'
<1>1. Cardinality(Q) >= Majority
  BY Zenon DEF ElectionInv, WonByMajority
<1>2. Q \in SUBSET Node /\ R \in SUBSET Node
  BY Zenon DEF Voters, Open
<1> HIDE DEF Q, R
<1>3. Q \cap R # {}
  BY Zenon, <1>1, <1>2, MajoritiesMeet DEF R
<1>4. PICK p : p \in Q /\ p \in R
  BY Zenon, <1>3
<1>5. p \in Node /\ [voter |-> p, term |-> e.term, candidate |-> e.node] \in votes'
  BY Zenon, <1>4 DEF Q, Voters
<1>6. e.term <= currentTerm'[p]
  <2> DEFINE v == [voter |-> p, term |-> e.term, candidate |-> e.node]
  <2>1. v.term <= currentTerm'[v.voter]
    BY Zenon, <1>5 DEF ElectionInv, VotesRemembered
  <2> QED BY Zenon, <2>1
<1>7. p \notin Open(t)'
  <2>1. currentTerm'[p] \in Nat /\ e.term \in Nat
    BY Zenon, <1>5 DEF ElectionInv, TypeOK
  <2> QED BY <1>6, <2>1 DEF Open
<1> QED BY Zenon, <1>4, <1>5, <1>7 DEF R

\* A node that becomes leader was the candidate of its voters, or is its own.
LEMMA VotersOfNewLeader ==
  ASSUME ElectionInv, [Next]_vars, CandidatesShowLog, NEW i \in Node,
         BecomesLeader(i), role'[i] = "leader",
         NEW v \in votes', v.candidate = i, v.term = currentTerm'[i]
  PROVE  \/ v.voter = i
         \/ v \in votes /\ role[i] = "candidate" /\ currentTerm[i] = v.term
<1>0. TypeOK /\ LeadersElected
  BY Zenon DEF ElectionInv
<1>00. currentTerm[i] \in Nat /\ currentTerm \in [Node -> Nat]
  BY Zenon, <1>0 DEF TypeOK
<1>1. role[i] # "leader" \/ currentTerm'[i] # currentTerm[i]
  BY Zenon, <1>0 DEF LeadersElected, BecomesLeader
<1>2. CASE v \in votes
  <2>1. v.term <= currentTerm[i]
    BY Zenon, <1>2 DEF CandidatesShowLog
  <2>2. ASSUME StartElection(i) PROVE currentTerm'[i] = currentTerm[i] + 1
    BY Zenon, <1>00, <2>2 DEF StartElection
  <2>3. ~StartElection(i)
    BY <1>00, <2>1, <2>2
  <2> QED BY Zenon, <1>0, <1>1, <1>2, <2>3, RoleSteps
<1>3. ASSUME v \notin votes, v.voter # i PROVE FALSE
  <2>1. PICK m \in voteReq : Grants(m)
    BY Zenon, <1>0, <1>3, NewVotes
  <2>2. role'[i] \in {role[i], "follower"}
    BY Zenon, <2>1 DEF Grants
  <2>3. role[i] = "leader"
    BY Zenon, <2>2
  <2>4. ~StartElection(i)
    BY Zenon, <2>3 DEF StartElection
  <2> QED BY Zenon, <1>0, <1>1, <2>3, <2>4, RoleSteps
<1> QED BY Zenon, <1>2, <1>3

\* A leader that appends in a later term holds the log up to n.
LEMMA GrowsBeyond ==
  ASSUME SetFacts, ElectionInv, ElectionInv', [Next]_vars, MadeByLeaders, CandidatesShowLog,
         NEW lg, PathIn(lg, Created), NEW n \in 1..Len(lg), NEW A \in SUBSET Node,
         Held(lg, n, A), VotesFollow(lg, n, A), NoneBeside(lg, n, Created),
         Cardinality(A \cup Open(lg[n].term)') >= Majority,
         NEW i \in Node, Grows(i), currentTerm'[i] > lg[n].term
  PROVE  SameUpTo(lg, log[i], n)
<1>0. /\ TypeOK /\ TypeOK' /\ WonByMajority /\ LeadersElected /\ LeadersElected'
  BY Zenon DEF ElectionInv
<1>1. role'[i] = "leader"
  BY Zenon DEF Grows
<1>2. lg[n].term \in Nat /\ currentTerm[i] \in Nat
  <2>1. lg[n].term \in Nat
    BY Zenon, EntryTerm DEF PathIn
  <2> QED BY Zenon, <1>0, <2>1 DEF TypeOK
<1>3. CASE KeepsLeading(i)
  <2>1. role[i] = "leader" /\ currentTerm[i] >= lg[n].term
    BY <1>2, <1>3 DEF KeepsLeading
  <2> QED BY Zenon, <2>1, LeaderContains
<1>4. CASE BecomesLeader(i)
  <2> DEFINE e == [term |-> currentTerm'[i], node |-> i]
  <2>1. e \in elected'
    BY Zenon, <1>0, <1>1 DEF LeadersElected
  <2>2. e.term = currentTerm'[i] /\ e.node = i
    BY Zenon
  <2> HIDE DEF e
  <2>3. PICK p \in A : [voter |-> p, term |-> e.term, candidate |-> e.node] \in votes'
    BY Zenon, <1>2, <2>1, <2>2, WinnerHasVoter
  <2> DEFINE v == [voter |-> p, term |-> e.term, candidate |-> e.node]
  <2>4. v.voter = p /\ v.term = currentTerm'[i] /\ v.candidate = i /\ v \in votes'
    BY Zenon, <2>2, <2>3
  <2> HIDE DEF v
  <2>5. CASE p = i
    BY Zenon, <2>5 DEF Held
  <2>6. CASE v \in votes /\ role[i] = "candidate" /\ currentTerm[i] = v.term
    BY Zenon, <2>4, <2>6 DEF VotesFollow
  <2>7. \/ p = i
        \/ v \in votes /\ role[i] = "candidate" /\ currentTerm[i] = v.term
    BY Zenon, <1>1, <1>4, <2>4, VotersOfNewLeader
  <2> QED BY Zenon, <2>5, <2>6, <2>7
<1> QED BY Zenon, <1>0, <1>1, <1>3, <1>4, LeaderKeeps

\* Nothing of a later term comes beside the log up to n.
LEMMA NoneBesideStep ==
  ASSUME SetFacts, ElectionInv, ElectionInv', [Next]_vars, MadeByLeaders, TermsReached,
         TermsReached', CandidatesShowLog,
         NEW lg, PathIn(lg, Created), NEW n \in 1..Len(lg), NEW A \in SUBSET Node,
         Held(lg, n, A), VotesFollow(lg, n, A), NoneBeside(lg, n, Created),
         Cardinality(A \cup Open(lg[n].term)') >= Majority
  PROVE  NoneBeside(lg, n, Created')
<1>0. /\ TypeOK /\ TypeOK' /\ IndexesInLog /\ OneBranchPerTerm(Created)
  BY Zenon DEF ElectionInv, MadeByLeaders
<1> SUFFICES ASSUME NEW a \in Created', a.entry.term > lg[n].term
             PROVE  a.index > n /\ a.prev >= lg[n].term
  BY Zenon DEF NoneBeside
<1>1. CASE a \in Created
  BY Zenon, <1>1 DEF NoneBeside
<1>2. ASSUME NEW i \in Node, Grows(i), a = ItemAt(log'[i], Len(log'[i]))
      PROVE  a.index > n /\ a.prev >= lg[n].term
  <2>1. /\ a.index = Len(log[i]) + 1 /\ a.entry.term = currentTerm'[i]
        /\ a.prev = LastTerm(log[i]) /\ Len(log[i]) \in Nat
    BY Zenon, <1>2, GrowsItem
  <2>2. SameUpTo(lg, log[i], n)
    BY Zenon, <1>2, <2>1, GrowsBeyond
  <2>3. n \in Nat \ {0}
    BY DEF PathIn
  <2>4. Len(log[i]) \in n..Len(log[i]) /\ Len(log[i]) # 0
    BY <2>1, <2>2, <2>3 DEF SameUpTo
  <2>5. PathIn(log[i], Created)
    BY Zenon, <1>0, LogsArePaths DEF ArePaths
  <2>6. log[i][Len(log[i])].term >= lg[n].term
    BY Zenon, <1>0, <2>2, <2>3, <2>4, <2>5, LastTermReaches
  <2> QED BY <2>1, <2>3, <2>4, <2>6 DEF LastTerm, TermAt
<1> QED BY Zenon, <1>0, <1>1, <1>2, CreatedSteps

\* What is anchored stays anchored, as long as its holders and those who have not
\* gone past its term are a majority.
LEMMA AnchoredStep ==
  ASSUME SetFacts, ElectionInv, ElectionInv', [Next]_vars, MadeByLeaders, TermsReached,
         TermsReached', CandidatesShowLog,
         NEW lg, PathIn(lg, Created), NEW n \in 1..Len(lg), NEW A \in SUBSET Node,
         Anchored(lg, n, A), Cardinality(A \cup Open(lg[n].term)') >= Majority
  PROVE  Anchored(lg, n, A)'
<1>1. /\ Held(lg, n, A) /\ VotesFollow(lg, n, A) /\ NoneBeside(lg, n, Created)
      /\ \A m \in appReq : CallAgrees(m, lg, n)
  BY Zenon, AnchoredParts
<1>2. lg \in Seq(Entry)
  BY Zenon DEF PathIn
<1>3. Held(lg, n, A)'
  BY Zenon, <1>1, <1>2, HeldStep
<1>4. VotesFollow(lg, n, A)'
  BY Zenon, <1>1, <1>3, VotesFollowStep
<1>5. NoneBeside(lg, n, Created')
  BY Zenon, <1>1, NoneBesideStep
<1>6. \A m \in appReq' : CallAgrees(m, lg, n)
  BY Zenon, <1>1, CallsAgreeStep
<1> QED BY Zenon, <1>3, <1>4, <1>5, <1>6, AnchoredPartsNext

\* Anchoring is about the log up to n only.
LEMMA AnchoredSameNext ==
  ASSUME TypeOK', NEW lg, NEW lh, NEW n \in Nat \ {0}, SameUpTo(lg, lh, n), NEW A,
         Anchored(lg, n, A)'
  PROVE  Anchored(lh, n, A)'
<1>1. /\ Held(lg, n, A)' /\ VotesFollow(lg, n, A)' /\ NoneBeside(lg, n, Created')
      /\ \A m \in appReq' : CallAgrees(m, lg, n)
  BY Zenon, AnchoredPartsNext
<1>2. lg[n] = lh[n] /\ \A k \in 1..n : lg[k] = lh[k]
  BY DEF SameUpTo
<1>3. SameUpTo(lh, lg, n)
  BY Zenon, SameSwapped
<1>4. Held(lh, n, A)'
  BY Zenon, <1>1, <1>2, <1>3, SameTrans DEF Held
<1>5. VotesFollow(lh, n, A)'
  BY Zenon, <1>1, <1>2, <1>3, SameTrans DEF VotesFollow
<1>6. NoneBeside(lh, n, Created')
  BY Zenon, <1>1, <1>2 DEF NoneBeside
<1>7. ASSUME NEW m \in appReq' PROVE CallAgrees(m, lh, n)
  <2>0. m.prevLogIndex \in Nat /\ m.entries \in Seq(Entry)
    BY Zenon DEF TypeOK, AppendRequest
  <2>1. CallAgrees(m, lg, n)
    BY Zenon, <1>1
  <2>2. \A k \in DOMAIN m.entries : m.prevLogIndex + k <= n =>
          m.prevLogIndex + k \in 1..n
    BY <2>0
  <2> QED BY Zenon, <1>2, <2>1, <2>2 DEF CallAgrees
<1> QED BY Zenon, <1>4, <1>5, <1>6, <1>7, AnchoredPartsNext

\* Holders that have not gone past the term of the entry can be added.
LEMMA AnchoredWidenNext ==
  ASSUME ElectionInv', NEW lg, NEW n, lg[n].term \in Nat, NEW A,
         NEW B \in SUBSET Node, Anchored(lg, n, A)',
         \A p \in B : \/ p \in A
                      \/ currentTerm'[p] = lg[n].term /\ SameUpTo(lg, log'[p], n)
  PROVE  Anchored(lg, n, B)'
<1>0. /\ VotesRemembered'
      /\ votes' \in SUBSET [voter : Node, term : Nat, candidate : Node]
  BY Zenon DEF ElectionInv, TypeOK
<1>1. /\ Held(lg, n, A)' /\ VotesFollow(lg, n, A)' /\ NoneBeside(lg, n, Created')
      /\ \A m \in appReq' : CallAgrees(m, lg, n)
  BY Zenon, AnchoredPartsNext
<1>2. lg[n].term >= lg[n].term
  OBVIOUS
<1>3. Held(lg, n, B)'
  BY Zenon, <1>1, <1>2 DEF Held
<1>4. ASSUME NEW v \in votes', v.voter \in B, v.term > lg[n].term PROVE v.voter \in A
  <2>1. v.term <= currentTerm'[v.voter]
    BY Zenon, <1>0 DEF VotesRemembered
  <2>2. v.term \in Nat
    BY Zenon, <1>0
  <2> QED BY <1>4, <2>1, <2>2
<1>5. VotesFollow(lg, n, B)'
  BY Zenon, <1>1, <1>4 DEF VotesFollow
<1> QED BY Zenon, <1>1, <1>3, <1>5, AnchoredPartsNext

\* The entry that a leader has just appended is anchored, when those who have not
\* gone past its term are a majority: there is no later term.
LEMMA AnchoredAtEnd ==
  ASSUME SetFacts, ElectionInv, ElectionInv', [Next]_vars, MadeByLeaders', TermsReached,
         TermsReached', CallsShowLog', NEW i \in Node, Grows(i),
         NEW lg, lg = log'[i], NEW n, n = Len(lg), NEW B \in SUBSET {i},
         Cardinality(Open(lg[n].term)') >= Majority
  PROVE  Anchored(lg, n, B)'
<1> DEFINE t == lg[n].term
<1>0. /\ TypeOK /\ TypeOK' /\ LeadersElected /\ LeadersElected' /\ CallsInLog'
      /\ VotesRemembered'
  BY Zenon DEF ElectionInv
<1>1. /\ lg \in Seq(Entry) /\ n \in Nat \ {0}
      /\ t = currentTerm'[i] /\ t \in Nat /\ role'[i] = "leader"
  <2>1. /\ Len(log'[i]) = Len(log[i]) + 1 /\ LastTerm(log'[i]) = currentTerm'[i]
        /\ Len(log[i]) \in Nat /\ currentTerm'[i] \in Nat
    <3>1. ItemAt(log'[i], Len(log'[i])).index = Len(log[i]) + 1
      BY Zenon, GrowsItem
    <3>2. ItemAt(log'[i], Len(log'[i])).index = Len(log'[i])
      BY Zenon, GrowsItem
    <3>3. LastTerm(log'[i]) = currentTerm'[i] /\ Len(log[i]) \in Nat /\ currentTerm'[i] \in Nat
      BY Zenon, GrowsItem
    <3> QED BY Zenon, <3>1, <3>2, <3>3
  <2>2. n \in Nat \ {0}
    BY <2>1
  <2>3. t = currentTerm'[i]
    BY Zenon, <2>1, <2>2 DEF LastTerm, TermAt
  <2>4. lg \in Seq(Entry)
    BY Zenon, <1>0 DEF TypeOK
  <2> QED BY Zenon, <2>1, <2>2, <2>3, <2>4 DEF Grows
<1> HIDE DEF t
<1>2. ASSUME NEW e \in elected', e.term > t PROVE FALSE
  <2>1. PICK N \in SUBSET Node : N = {}
    BY Zenon
  <2>2. N \cup Open(t)' = Open(t)'
    BY Zenon, <2>1
  <2>3. Cardinality(N \cup Open(t)') >= Majority
    BY Zenon, <2>2 DEF t
  <2>4. \E p \in N : [voter |-> p, term |-> e.term, candidate |-> e.node] \in votes'
    BY Zenon, <1>1, <1>2, <2>3, WinnerHasVoter
  <2> QED BY Zenon, <2>1, <2>4
<1>3. Held(lg, n, B)'
  <2>1. SameUpTo(lg, log'[i], n)
    BY <1>1 DEF SameUpTo
  <2>2. currentTerm'[i] >= lg[n].term
    BY <1>1 DEF t
  <2> QED BY Zenon, <2>1, <2>2 DEF Held
<1>4. ASSUME NEW v \in votes', v.voter \in B PROVE ~(v.term > t)
  <2>1. v.term <= currentTerm'[v.voter] /\ v.term \in Nat
    BY Zenon, <1>0 DEF VotesRemembered, TypeOK
  <2>2. v.voter = i
    BY Zenon, <1>4
  <2> QED BY <1>1, <2>1, <2>2
<1>5. VotesFollow(lg, n, B)'
  BY Zenon, <1>4 DEF VotesFollow, t
<1>6. ASSUME NEW a \in Created' PROVE ~(a.entry.term > t)
  <2>1. PICK e \in elected' : e.term = a.entry.term
    BY Zenon DEF MadeByLeaders
  <2> QED BY Zenon, <1>2, <2>1
<1>7. NoneBeside(lg, n, Created')
  BY Zenon, <1>6 DEF NoneBeside, t
<1>8. ASSUME NEW m \in appReq', m.term >= t
      PROVE  /\ m.prevLogIndex \in 1..n => m.prevLogTerm = lg[m.prevLogIndex].term
             /\ m.prevLogIndex > n => m.prevLogTerm >= lg[n].term
             /\ \A k \in DOMAIN m.entries : m.prevLogIndex + k <= n =>
                  m.entries[k].term = lg[m.prevLogIndex + k].term
  <2> DEFINE e == [term |-> m.term, node |-> m.from]
             f == [term |-> currentTerm'[i], node |-> i]
  <2>1. e \in elected' /\ f \in elected'
    BY Zenon, <1>0, <1>1 DEF LeadersElected
  <2>2. m.term \in Nat /\ m.prevLogIndex \in Nat /\ m.entries \in Seq(Entry)
    BY Zenon, <1>0 DEF TypeOK, AppendRequest
  <2>3. m.term = t
    <3>1. ~(e.term > t)
      BY Zenon, <1>2, <2>1
    <3> QED BY <1>1, <1>8, <2>2, <3>1
  <2>4. ElectionSafety'
    BY OneWinner, PTL
  <2>5. m.from = i
    <3>1. e.term = f.term => e.node = f.node
      BY Zenon, <2>1, <2>4 DEF ElectionSafety
    <3> QED BY Zenon, <1>1, <2>3, <3>1
  <2>6. /\ TermAt(lg, m.prevLogIndex) = m.prevLogTerm
        /\ \A k \in DOMAIN m.entries : lg[m.prevLogIndex + k] = m.entries[k]
    BY Zenon, <1>1, <2>3, <2>5 DEF CallsShowLog
  <2>7. m.prevLogIndex + Len(m.entries) <= n
    BY Zenon, <1>0, <1>1, <2>3, <2>5 DEF CallsInLog
  <2>8. ~(m.prevLogIndex > n)
    BY <1>1, <2>2, <2>7
  <2>9. m.prevLogIndex \in 1..n => m.prevLogIndex # 0
    BY <1>1
  <2> QED BY Zenon, <2>6, <2>8, <2>9 DEF TermAt
<1>9. \A m \in appReq' : CallAgrees(m, lg, n)
  BY Zenon, <1>8 DEF CallAgrees, t
<1> QED BY Zenon, <1>3, <1>5, <1>7, <1>9, AnchoredPartsNext

\* A peer that confirms in this step is in the leader's term after it.
LEMMA ConfirmsInTerm ==
  ASSUME SetFacts, TypeOK, [Next]_vars, NEW i \in Node, NEW p \in Node, NEW n,
         Confirms(i, p, n)
  PROVE  currentTerm'[p] = currentTerm[i] /\ appRep' # appRep
<1>1. PICK r \in appRep' : /\ r \notin appRep
                           /\ r.from = i /\ r.to = p /\ r.term = currentTerm[i]
                           /\ r.success
  BY Zenon DEF Confirms
<1>2. PICK m \in appReq, lg \in Seq(Entry) : Answers(r, m) /\ Accepts(m, lg)
  BY Zenon, <1>1, SuccessSteps
<1>3. /\ currentTerm' = [currentTerm EXCEPT ![p] = currentTerm[i]]
  BY Zenon, <1>1, <1>2 DEF Answers, Accepts
<1>4. currentTerm \in [Node -> Nat]
  BY Zenon DEF TypeOK
<1> QED BY Zenon, <1>1, <1>3, <1>4

\* A leader has an entry of its term below the end of its log only when it has
\* led before.
LEMMA OldEntryOfTerm ==
  ASSUME SetFacts, ElectionInv, ElectionInv', [Next]_vars, MadeByLeaders, TermsReached,
         TermsReached', NEW i \in Node, role'[i] = "leader",
         NEW n \in 1..Len(log'[i]), log'[i][n].term = currentTerm'[i]
  PROVE  \/ KeepsLeading(i) /\ n \in 1..Len(log[i])
         \/ Grows(i) /\ n = Len(log'[i]) /\ n = Len(log[i]) + 1
<1>0. TypeOK /\ TypeOK' /\ WonByMajority /\ LeadersElected
  BY Zenon DEF ElectionInv
<1>1. CASE ~Grows(i)
  <2>1. role[i] = "leader" /\ currentTerm'[i] = currentTerm[i] /\ log'[i] = log[i]
    BY Zenon, <1>0, <1>1, LeaderLogs
  <2> QED BY Zenon, <2>1 DEF KeepsLeading
<1>2. CASE Grows(i)
  <2>1. /\ Len(log'[i]) = Len(log[i]) + 1 /\ Len(log[i]) \in Nat
        /\ SameUpTo(log[i], log'[i], Len(log[i]))
    <3>1. ItemAt(log'[i], Len(log'[i])).index = Len(log[i]) + 1
      BY Zenon, <1>2, GrowsItem
    <3>2. ItemAt(log'[i], Len(log'[i])).index = Len(log'[i])
      BY Zenon, <1>2, GrowsItem
    <3>3. Len(log[i]) \in Nat /\ SameUpTo(log[i], log'[i], Len(log[i]))
      BY Zenon, <1>2, GrowsItem
    <3> QED BY Zenon, <3>1, <3>2, <3>3
  <2>2. CASE n = Len(log'[i])
    BY Zenon, <1>2, <2>1, <2>2
  <2>3. CASE n \in 1..Len(log[i])
    <3> DEFINE a == ItemAt(log[i], n)
    <3>1. PathIn(log[i], Created)
      BY Zenon, <1>0, LogsArePaths DEF ArePaths
    <3>2. a \in Created /\ a.entry = log[i][n]
      BY <2>3, <3>1, OnPath
    <3>3. log[i][n] = log'[i][n]
      BY Zenon, <2>1, <2>3 DEF SameUpTo
    <3>4. a.entry.term = currentTerm'[i]
      BY Zenon, <3>2, <3>3
    <3> HIDE DEF a
    <3>5. role[i] = "leader" /\ currentTerm'[i] = currentTerm[i]
      BY Zenon, <1>2, <3>2, <3>4, GrowsAtTheEnd
    <3>6. [term |-> currentTerm'[i], node |-> i] \in elected
      BY Zenon, <1>0, <3>5 DEF LeadersElected
    <3>7. KeepsLeading(i)
      BY Zenon, <3>6, CallersKeepLeading
    <3> QED BY Zenon, <2>3, <3>7
  <2>4. n = Len(log'[i]) \/ n \in 1..Len(log[i])
    BY <2>1
  <2> QED BY Zenon, <2>2, <2>3, <2>4
<1> QED BY Zenon, <1>1, <1>2

\* What a leader may still get committed is anchored.
LEMMA LeadersAnchoredStep ==
  ASSUME SetFacts, ElectionInv, ElectionInv', [Next]_vars, MatchingInv, MatchingInv',
         AckInv, AckInv', CandidatesShowLog, LeadersAnchored
  PROVE  LeadersAnchored'
<1>0. /\ TypeOK /\ TypeOK' /\ MadeByLeaders /\ MadeByLeaders'
      /\ TermsReached /\ TermsReached' /\ CallsShowLog /\ CallsShowLog'
      /\ AcksTruthful /\ AcksTruthful'
  BY Zenon DEF ElectionInv, MatchingInv, AckInv
<1>00. \A j \in Node : /\ currentTerm[j] \in Nat /\ currentTerm'[j] \in Nat
                       /\ currentTerm[j] <= currentTerm'[j]
  BY Zenon, <1>0, TermTypes
<1> SUFFICES ASSUME NEW i \in Node, role'[i] = "leader",
                    NEW n \in 1..Len(log'[i]),
                    log'[i][n].term = currentTerm'[i],
                    Cardinality((Ackers(i, n) \cup Open(currentTerm[i]))') >= Majority
             PROVE  Anchored(log[i], n, Ackers(i, n))'
  BY Zenon DEF LeadersAnchored
<1>1. PICK lh : lh = log'[i]
  BY Zenon
<1>2. PICK B \in SUBSET Node : B = Ackers(i, n)'
  BY Zenon DEF Ackers
<1>3. PICK t \in Nat : t = currentTerm'[i]
  BY Zenon, <1>00
<1>4. lh \in Seq(Entry) /\ n \in Nat \ {0} /\ n \in 1..Len(lh) /\ lh[n].term = t
  <2>1. lh \in Seq(Entry)
    BY Zenon, <1>0, <1>1 DEF TypeOK
  <2> QED BY <1>1, <1>3, <2>1
<1>5. Cardinality(B \cup Open(t)') >= Majority
  <2>1. Open(t)' = {p \in Node : currentTerm'[p] <= currentTerm'[i]}
    BY Zenon, <1>3 DEF Open
  <2>2. (Ackers(i, n) \cup Open(currentTerm[i]))' = B \cup Open(t)'
    BY Zenon, <1>2, <2>1 DEF Open
  <2> QED BY Zenon, <2>2
<1>6. \A p \in B : Acked(i, p, n)'
  BY Zenon, <1>2 DEF Ackers
<1>7. i \in Open(t)'
  BY <1>3 DEF Open
<1>8. Anchored(lh, n, B)'
  <2>1. CASE KeepsLeading(i) /\ n \in 1..Len(log[i])
    <3>1. PICK lg : lg = log[i]
      BY Zenon
    <3>2. PICK A \in SUBSET Node : A = Ackers(i, n)
      BY Zenon DEF Ackers
    <3>3. /\ lg \in Seq(Entry) /\ PathIn(lg, Created) /\ n \in 1..Len(lg)
          /\ role[i] = "leader" /\ currentTerm[i] = t
      <4>1. PathIn(lg, Created)
        BY Zenon, <1>0, <3>1, LogsArePaths DEF ArePaths
      <4>2. role[i] = "leader" /\ currentTerm[i] = t
        BY Zenon, <1>3, <2>1 DEF KeepsLeading
      <4> QED BY Zenon, <2>1, <3>1, <4>1, <4>2 DEF PathIn
    <3>4. SameUpTo(lg, lh, n)
      <4>1. SameUpTo(lg, lh, Len(lg))
        BY Zenon, <1>0, <1>1, <2>1, <3>1, KeepsPrefix
      <4>2. Len(lg) \in Nat /\ Len(lh) \in Nat /\ n \in 0..Len(lg)
        BY <1>4, <3>3
      <4> QED BY Zenon, <4>1, <4>2, SameShorter
    <3>5. lg[n] = lh[n]
      BY <1>4, <3>4 DEF SameUpTo
    <3>6. \A p \in B : p \in A \/ currentTerm'[p] = t
      <4> SUFFICES ASSUME NEW p \in B, p # i, p \notin A PROVE currentTerm'[p] = t
        BY Zenon, <1>3
      <4>1. p \in Node /\ Acked(i, p, n)'
        BY Zenon, <1>6
      <4>2. ~Acked(i, p, n)
        BY Zenon, <3>2, <4>1 DEF Ackers
      <4>3. Confirms(i, p, n)
        BY Zenon, <1>4, <4>1, <4>2, AckedSteps
      <4> QED BY Zenon, <1>0, <3>3, <4>1, <4>3, ConfirmsInTerm
    <3>7. B \cup Open(t)' \subseteq A \cup Open(t)' /\ Open(t)' \in SUBSET Node
      <4>1. \A p \in Node : currentTerm'[p] = t => p \in Open(t)'
        BY DEF Open
      <4> QED BY Zenon, <3>6, <4>1 DEF Open
    <3>8. Cardinality(A \cup Open(t)') >= Majority
      <4> DEFINE S == A \cup Open(t)'
                 T == B \cup Open(t)'
      <4>1. S \in SUBSET Node /\ T \in SUBSET S
        BY Zenon, <3>7
      <4> HIDE DEF S, T
      <4>2. Cardinality(T) \in Nat /\ Cardinality(S) \in Nat /\ Cardinality(T) <= Cardinality(S)
        BY Zenon, <4>1, NodeSets
      <4> QED BY <1>5, <4>2, MajorityType DEF S, T
    <3>9. Cardinality(A \cup Open(t)) >= Majority
      <4> DEFINE S == A \cup Open(t)
                 T == A \cup Open(t)'
      <4>1. S \in SUBSET Node /\ T \in SUBSET S
        BY <1>00 DEF Open
      <4> HIDE DEF S, T
      <4>2. Cardinality(T) \in Nat /\ Cardinality(S) \in Nat /\ Cardinality(T) <= Cardinality(S)
        BY Zenon, <4>1, NodeSets
      <4> QED BY <3>8, <4>2, MajorityType DEF S, T
    <3>10. Anchored(lg, n, A)
      <4>1. Cardinality(Ackers(i, n) \cup Open(currentTerm[i])) >= Majority
        BY Zenon, <3>2, <3>3, <3>9
      <4>2. log[i][n].term = currentTerm[i] /\ n \in 1..Len(log[i])
        BY Zenon, <1>4, <2>1, <3>1, <3>3, <3>5
      <4>3. Anchored(log[i], n, Ackers(i, n))
        BY Zenon, <3>3, <4>1, <4>2 DEF LeadersAnchored
      <4> QED BY Zenon, <3>1, <3>2, <4>3
    <3>11. lg[n].term = t
      BY Zenon, <1>4, <3>5
    <3>12. Anchored(lg, n, A)'
      BY Zenon, <1>0, <3>3, <3>8, <3>10, <3>11, AnchoredStep
    <3>13. ASSUME NEW p \in B
           PROVE  p \in A \/ (currentTerm'[p] = lg[n].term /\ SameUpTo(lg, log'[p], n))
      <4> SUFFICES ASSUME p \notin A
                   PROVE  currentTerm'[p] = lg[n].term /\ SameUpTo(lg, log'[p], n)
        BY Zenon
      <4>1. currentTerm'[p] = currentTerm'[i] /\ p \in Node
        BY Zenon, <1>3, <3>6
      <4>2. SameUpTo(lh, log'[p], n)
        BY Zenon, <1>0, <1>1, <1>6, <4>1 DEF AcksTruthful
      <4>3. SameUpTo(lg, log'[p], n)
        BY Zenon, <3>4, <4>2, SameTrans
      <4> QED BY Zenon, <1>3, <3>11, <4>1, <4>3
    <3>14. Anchored(lg, n, B)'
      BY Zenon, <3>11, <3>12, <3>13, AnchoredWidenNext
    <3> QED BY Zenon, <1>0, <1>4, <3>4, <3>14, AnchoredSameNext
  <2>2. CASE Grows(i) /\ n = Len(log'[i]) /\ n = Len(log[i]) + 1
    <3>1. B \in SUBSET {i}
      <4> SUFFICES ASSUME NEW p \in B, p # i PROVE FALSE
        BY Zenon
      <4>1. p \in Node /\ Acked(i, p, n)'
        BY Zenon, <1>6
      <4>2. KeepsLeading(i) /\ (Acked(i, p, n) \/ Confirms(i, p, n))
        BY Zenon, <1>4, <4>1, AckedSteps
      <4>3. CASE Acked(i, p, n)
        <5>1. n \in 1..Len(log[i])
          BY ZenonT(30), <1>4, <4>1, <4>2, <4>3, AckedInLog DEF KeepsLeading
        <5>2. Len(log[i]) \in Nat
          BY <1>0 DEF TypeOK
        <5> QED BY <2>2, <5>1, <5>2
      <4>4. CASE Confirms(i, p, n)
        BY Zenon, <1>0, <2>2, <4>1, <4>4, ConfirmsInTerm DEF Grows
      <4> QED BY Zenon, <4>2, <4>3, <4>4
    <3>2. B \cup Open(t)' = Open(t)'
      BY Zenon, <1>7, <3>1
    <3>3. Cardinality(Open(lh[n].term)') >= Majority
      BY Zenon, <1>4, <1>5, <3>2
    <3> QED BY Zenon, <1>0, <1>1, <2>2, <3>1, <3>3, AnchoredAtEnd
  <2> QED BY Zenon, <1>0, <2>1, <2>2, OldEntryOfTerm
<1>9. Anchored(log[i], n, Ackers(i, n))'
  BY Zenon, <1>1, <1>2, <1>8 DEF Anchored
<1> QED BY Zenon, <1>9

-----------------------------------------------------------------------------
(* Committed entries.                                                      *)

\* A majority stays one when nodes are added.
LEMMA MajorityGrows ==
  ASSUME SetFacts, NEW S \in SUBSET Node, NEW T \in SUBSET Node, S \subseteq T,
         Cardinality(S) >= Majority
  PROVE  Cardinality(T) >= Majority
<1>1. Cardinality(S) \in Nat /\ Cardinality(T) \in Nat /\ Cardinality(S) <= Cardinality(T)
  BY Zenon, NodeSets
<1> QED BY <1>1, MajorityType

\* The assumptions that the steps of a behaviour satisfy.
StepsUnder ==
  /\ ElectionInv /\ ElectionInv' /\ [Next]_vars /\ MatchingInv /\ MatchingInv'
  /\ AckInv /\ AckInv' /\ CandidatesShowLog

\* What a majority has anchored stays so.
LEMMA DecidedStays ==
  ASSUME SetFacts, StepsUnder, NEW lg, PathIn(lg, Created), NEW n \in 1..Len(lg),
         NEW A \in SUBSET Node, Cardinality(A) >= Majority, Anchored(lg, n, A)
  PROVE  Anchored(lg, n, A)'
<1>1. /\ ElectionInv /\ ElectionInv' /\ [Next]_vars /\ MadeByLeaders /\ TermsReached
      /\ TermsReached' /\ CandidatesShowLog
  BY Zenon DEF StepsUnder, MatchingInv
<1>2. Cardinality(A \cup Open(lg[n].term)') >= Majority
  <2> DEFINE T == A \cup Open(lg[n].term)'
  <2>1. T \in SUBSET Node /\ A \subseteq T
    BY Zenon DEF Open
  <2> HIDE DEF T
  <2>2. Cardinality(T) >= Majority
    BY Zenon, <2>1, MajorityGrows
  <2> QED BY Zenon, <2>2 DEF T
<1> QED BY Zenon, <1>1, <1>2, AnchoredStep

\* Whatever a leader commits is anchored by those who have confirmed it.
LEMMA CommitsAnchored ==
  ASSUME SetFacts, StepsUnder, LeadersAnchored', NEW i \in Node, role'[i] = "leader",
         NEW n \in 1..Len(log'[i]), log'[i][n].term = currentTerm'[i],
         Cardinality({p \in Node : matchIndex'[i][p] >= n}) >= Majority
  PROVE  \E A \in SUBSET Node :
           /\ Cardinality(A) >= Majority
           /\ \A lg : lg = log'[i] => Anchored(lg, n, A)'
<1>1. PICK A \in SUBSET Node : A = Ackers(i, n)'
  BY Zenon DEF Ackers
<1>2. Cardinality(A) >= Majority
  <2> DEFINE S == {p \in Node : matchIndex'[i][p] >= n}
  <2>1. S \in SUBSET Node /\ S \subseteq A
    BY Zenon, <1>1 DEF Ackers, Acked
  <2> HIDE DEF S
  <2> QED BY Zenon, <2>1, MajorityGrows DEF S
<1>3. Anchored(log[i], n, Ackers(i, n))'
  <2> DEFINE T == (Ackers(i, n) \cup Open(currentTerm[i]))'
  <2>1. T \in SUBSET Node /\ A \subseteq T
    BY Zenon, <1>1 DEF Ackers, Open
  <2> HIDE DEF T
  <2>2. Cardinality(T) >= Majority
    BY Zenon, <1>2, <2>1, MajorityGrows
  <2> QED BY Zenon, <2>2 DEF LeadersAnchored, T
<1>4. ASSUME NEW lg, lg = log'[i] PROVE Anchored(lg, n, A)'
  BY Zenon, <1>1, <1>3, <1>4 DEF Anchored
<1> QED BY Zenon, <1>2, <1>4

\* The committed log is anchored by a majority.
LEMMA CommittedDecidedStep ==
  ASSUME SetFacts, StepsUnder, LeadersAnchored', CommittedDecided
  PROVE  CommittedDecided'
<1>0. TypeOK /\ TypeOK'
  BY Zenon DEF StepsUnder, ElectionInv
<1> SUFFICES ASSUME committed' # <<>> PROVE Decided(Len(committed))'
  BY Zenon DEF CommittedDecided
<1>1. PICK lh : lh = committed'
  BY Zenon
<1>2. PICK n : n = Len(lh)
  BY Zenon
<1>3. lh \in Seq(Entry) /\ n \in Nat \ {0} /\ n \in 1..Len(lh)
  <2>1. lh \in Seq(Entry) /\ lh # <<>>
    BY Zenon, <1>0, <1>1 DEF TypeOK
  <2> QED BY <1>2, <2>1
<1>4. \E A \in SUBSET Node : Cardinality(A) >= Majority /\ Anchored(lh, n, A)'
  <2>1. CASE committed' = committed
    <3>1. Decided(n)
      BY Zenon, <1>1, <1>2, <2>1 DEF CommittedDecided
    <3>2. PICK A \in SUBSET Node : Cardinality(A) >= Majority /\ Anchored(lh, n, A)
      BY Zenon, <1>1, <2>1, <3>1 DEF Decided
    <3>3. PathIn(lh, Created)
      BY Zenon, <1>0, <1>1, <2>1, LogsArePaths DEF ArePaths
    <3>4. Anchored(lh, n, A)'
      BY Zenon, <1>3, <3>2, <3>3, DecidedStays
    <3> QED BY Zenon, <3>2, <3>4
  <2>2. ASSUME NEW i \in Node, CommitsMore(i)
        PROVE  \E A \in SUBSET Node : Cardinality(A) >= Majority /\ Anchored(lh, n, A)'
    <3>1. PICK x : x = commitIndex'[i]
      BY Zenon
    <3>2. PICK lg : lg = log'[i]
      BY Zenon
    <3>3. /\ role'[i] = "leader" /\ x \in 1..Len(lg)
          /\ lh = SubSeq(lg, 1, x) /\ log'[i][x].term = currentTerm'[i]
          /\ Cardinality({p \in Node : matchIndex'[i][p] >= x}) >= Majority
      BY Zenon, <1>1, <2>2, <3>1, <3>2 DEF CommitsMore
    <3>4. lg \in Seq(Entry)
      BY Zenon, <1>0, <3>2 DEF TypeOK
    <3>5. Len(lh) = x /\ SameUpTo(lh, lg, x)
      <4>1. x \in 0..Len(lg)
        BY <3>3, <3>4
      <4> QED BY Zenon, <3>3, <3>4, <4>1, Beginning
    <3>6. PICK A \in SUBSET Node :
            /\ Cardinality(A) >= Majority
            /\ \A l : l = log'[i] => Anchored(l, x, A)'
      BY Zenon, <3>2, <3>3, CommitsAnchored
    <3>7. Anchored(lg, n, A)'
      BY Zenon, <1>2, <3>2, <3>5, <3>6
    <3>8. SameUpTo(lg, lh, n)
      BY Zenon, <1>2, <3>5, SameSwapped
    <3>9. Anchored(lh, n, A)'
      BY Zenon, <1>0, <1>3, <3>7, <3>8, AnchoredSameNext
    <3> QED BY Zenon, <3>6, <3>9
  <2>3. committed' = committed \/ \E i \in Node : CommitsMore(i)
    BY Zenon, <1>0, CommittedSteps DEF StepsUnder, ElectionInv
  <2> QED BY Zenon, <2>1, <2>2, <2>3
<1> QED BY Zenon, <1>1, <1>2, <1>4 DEF Decided, Anchored

\* Two logs that majorities have anchored do not contradict each other.
LEMMA AnchoredAgree ==
  ASSUME SetFacts, TypeOK', NEW lg \in Seq(Entry), NEW lh \in Seq(Entry),
         NEW n \in 1..Len(lg), NEW m \in 1..Len(lh), NEW k \in 0..n, k <= m,
         NEW A \in SUBSET Node, Cardinality(A) >= Majority, Anchored(lg, n, A)',
         NEW B \in SUBSET Node, Cardinality(B) >= Majority, Anchored(lh, m, B)'
  PROVE  SameUpTo(lg, lh, k)
<1>1. A \cap B # {}
  BY Zenon, MajoritiesMeet
<1>2. PICK p \in Node : p \in A /\ p \in B
  BY Zenon, <1>1
<1>3. Held(lg, n, A)' /\ Held(lh, m, B)'
  BY Zenon, AnchoredPartsNext
<1>4. SameUpTo(lg, log'[p], n) /\ SameUpTo(lh, log'[p], m)
  BY Zenon, <1>2, <1>3 DEF Held
<1>5. log'[p] \in Seq(Entry)
  BY Zenon, <1>2 DEF TypeOK
<1> QED BY <1>4, <1>5 DEF SameUpTo

\* A step never takes back or overwrites what some leader has committed.
CommittedGrows == SameUpTo(committed, committed', Len(committed))

\* In a step that satisfies the invariants.
LEMMA CommittedGrowsStep ==
  ASSUME SetFacts, StepsUnder, LeadersAnchored', CommittedDecided
  PROVE  CommittedGrows
<1>0. TypeOK /\ TypeOK'
  BY Zenon DEF StepsUnder, ElectionInv
<1>1. PICK lg : lg = committed
  BY Zenon
<1>2. PICK n : n = Len(lg)
  BY Zenon
<1>3. lg \in Seq(Entry) /\ n \in Nat
  <2>1. lg \in Seq(Entry)
    BY Zenon, <1>0, <1>1 DEF TypeOK
  <2> QED BY <1>2, <2>1
<1>4. SameUpTo(lg, committed', n)
  <2>1. CASE committed' = committed
    BY <1>1, <1>2, <1>3, <2>1 DEF SameUpTo
  <2>2. CASE n = 0
    <3>1. Len(committed') \in Nat
      BY <1>0 DEF TypeOK
    <3> QED BY <1>2, <1>3, <2>2, <3>1 DEF SameUpTo
  <2>3. ASSUME n # 0, NEW i \in Node, CommitsMore(i) PROVE SameUpTo(lg, committed', n)
    <3>1. PICK x : x = commitIndex'[i]
      BY Zenon
    <3>2. PICK lh : lh = log'[i]
      BY Zenon
    <3>3. /\ role'[i] = "leader" /\ x \in 1..Len(lh) /\ x > n
          /\ committed' = SubSeq(lh, 1, x) /\ log'[i][x].term = currentTerm'[i]
          /\ Cardinality({p \in Node : matchIndex'[i][p] >= x}) >= Majority
      BY Zenon, <1>1, <1>2, <2>3, <3>1, <3>2 DEF CommitsMore
    <3>4. lh \in Seq(Entry)
      BY Zenon, <1>0, <3>2 DEF TypeOK
    <3>5. /\ committed' \in Seq(Entry) /\ Len(committed') = x
          /\ SameUpTo(committed', lh, x)
      <4>1. x \in 0..Len(lh)
        BY <3>3, <3>4
      <4> QED BY Zenon, <3>3, <3>4, <4>1, Beginning
    <3>6. PICK B \in SUBSET Node :
            /\ Cardinality(B) >= Majority
            /\ \A l : l = log'[i] => Anchored(l, x, B)'
      BY Zenon, <3>2, <3>3, CommitsAnchored
    <3>7. Anchored(lh, x, B)'
      BY Zenon, <3>2, <3>6
    <3>8. Decided(n)
      <4>1. committed # <<>>
        BY Zenon, <1>1, <1>2, <2>3
      <4> QED BY Zenon, <1>1, <1>2, <4>1 DEF CommittedDecided
    <3>9. PICK A \in SUBSET Node : Cardinality(A) >= Majority /\ Anchored(lg, n, A)
      BY Zenon, <1>1, <3>8 DEF Decided
    <3>10. PathIn(lg, Created)
      BY Zenon, <1>0, <1>1, LogsArePaths DEF ArePaths
    <3>11. n \in 1..Len(lg) /\ n \in 0..n /\ n <= x
      BY <1>2, <1>3, <2>3, <3>3, <3>4
    <3>12. Anchored(lg, n, A)'
      BY Zenon, <3>9, <3>10, <3>11, DecidedStays
    <3>13. SameUpTo(lg, lh, n)
      BY Zenon, <1>0, <1>3, <3>3, <3>4, <3>6, <3>7, <3>9, <3>11, <3>12,
         AnchoredAgree
    <3> QED BY <1>3, <3>3, <3>4, <3>5, <3>11, <3>13 DEF SameUpTo
  <2>4. committed' = committed \/ \E i \in Node : CommitsMore(i)
    BY Zenon, <1>0, CommittedSteps DEF StepsUnder, ElectionInv
  <2> QED BY Zenon, <2>1, <2>2, <2>3, <2>4
<1> QED BY Zenon, <1>1, <1>2, <1>4 DEF CommittedGrows

=============================================================================

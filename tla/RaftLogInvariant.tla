-------------------------- MODULE RaftLogInvariant --------------------------
(***************************************************************************)
(* The inductive invariants behind LogMatching, MatchIndexTruthful,        *)
(* LeaderCompleteness, StateMachineSafety and CommittedImmutable.          *)
(***************************************************************************)
EXTENDS RaftInvariant

\* The entries es, found after an entry of term baseTerm at index base: each
\* with its index and with the term of the entry before it.
Items(base, baseTerm, es) ==
  {[index |-> base + k, entry |-> es[k],
    prev |-> IF k = 1 THEN baseTerm ELSE es[k - 1].term] : k \in 1..Len(es)}

\* Everything that is in a log, in an AppendEntries call or committed.
Created ==
  (UNION {Items(0, 0, log[i]) : i \in Node})
    \cup (UNION {Items(m.prevLogIndex, m.prevLogTerm, m.entries) : m \in appReq})
    \cup Items(0, 0, committed)

\* A term has one entry at an index, with one predecessor; its entries follow
\* one another; terms never go down along a log.
OneBranchPerTerm(S) ==
  /\ \A a \in S : 1 <= a.entry.term /\ a.prev <= a.entry.term
  /\ \A a, b \in S :
       a.entry.term = b.entry.term
         => /\ a.index = b.index => a = b
            /\ b.index < a.index => a.prev = a.entry.term

\* Entries are made by leaders, of their own term and at the end of their logs,
\* the first of them when they become leader.
MadeByLeaders ==
  /\ OneBranchPerTerm(Created)
  /\ \A a \in Created : \E e \in elected : e.term = a.entry.term
  /\ \A i \in Node : role[i] = "leader" =>
       /\ Len(log[i]) > 0 /\ LastTerm(log[i]) = currentTerm[i]
       /\ \A a \in Created :
            a.entry.term = currentTerm[i] => a.index <= Len(log[i])

\* No node and no call holds an entry of a term beyond its own, and elections
\* are for terms above 0.
TermsReached ==
  /\ \A i \in Node : role[i] # "follower" => currentTerm[i] > 0
  /\ \A i \in Node : \A k \in DOMAIN log[i] : log[i][k].term <= currentTerm[i]
  /\ \A m \in appReq : \A k \in DOMAIN m.entries : m.entries[k].term <= m.term

\* A leader's calls are to others and show a piece of its log, which it has only
\* appended to since.
CallsShowLog ==
  \A m \in appReq :
    /\ m.from # m.to
    /\ (role[m.from] = "leader" /\ currentTerm[m.from] = m.term)
         => /\ TermAt(log[m.from], m.prevLogIndex) = m.prevLogTerm
            /\ \A k \in DOMAIN m.entries :
                 log[m.from][m.prevLogIndex + k] = m.entries[k]

\* Peer p has confirmed to leader i that it holds i's log up to n: i knows, or
\* the reply is on its way.
Acked(i, p, n) ==
  \/ matchIndex[i][p] >= n
  \/ \E r \in appRep : /\ r.from = i /\ r.to = p /\ r.term = currentTerm[i]
                       /\ r.success /\ r.match >= n

\* What a peer has confirmed it has seen the term for, and holds while it is in
\* that term.
AcksTruthful ==
  \A i, p \in Node : role[i] = "leader" =>
    \A n \in 1..Len(log[i]) : Acked(i, p, n) =>
      /\ currentTerm[p] >= currentTerm[i]
      /\ currentTerm[p] = currentTerm[i] => SameUpTo(log[i], log[p], n)

\* A candidate's calls show the end of its log, and nobody voted for a node in a
\* term that node has not reached.
CandidatesShowLog ==
  /\ \A m \in voteReq :
       (role[m.from] = "candidate" /\ currentTerm[m.from] = m.term)
         => /\ m.lastLogIndex = Len(log[m.from])
            /\ m.lastLogTerm = LastTerm(log[m.from])
  /\ \A v \in votes : v.term <= currentTerm[v.candidate]

\* lg up to n is out of reach of later terms: the nodes of A hold it, whoever
\* collects their votes for a later term holds it, and so does everything that
\* later leaders have made or sent.
Anchored(lg, n, A) ==
  LET t == lg[n].term
  IN  /\ \A p \in A : currentTerm[p] >= t /\ SameUpTo(lg, log[p], n)
      /\ \A v \in votes :
           (/\ v.voter \in A /\ v.term > t
            /\ role[v.candidate] = "candidate"
            /\ currentTerm[v.candidate] = v.term)
             => SameUpTo(lg, log[v.candidate], n)
      /\ \A a \in Created : a.entry.term > t => a.index > n /\ a.prev >= t
      /\ \A m \in appReq : m.term >= t =>
           /\ m.prevLogIndex \in 1..n => m.prevLogTerm = lg[m.prevLogIndex].term
           /\ m.prevLogIndex > n => m.prevLogTerm >= t
           /\ \A k \in DOMAIN m.entries : m.prevLogIndex + k <= n =>
                m.entries[k].term = lg[m.prevLogIndex + k].term

\* The peers that have confirmed index n to leader i, and those that may still
\* do so because they have not gone past its term.
Ackers(i, n) == {p \in Node : Acked(i, p, n)}
Open(t) == {p \in Node : currentTerm[p] <= t}

\* Whatever a leader may still get committed is anchored by those who have
\* confirmed it.
LeadersAnchored ==
  \A i \in Node : role[i] = "leader" =>
    \A n \in 1..Len(log[i]) :
      (/\ log[i][n].term = currentTerm[i]
       /\ Cardinality(Ackers(i, n) \cup Open(currentTerm[i])) >= Majority)
        => Anchored(log[i], n, Ackers(i, n))

\* The first n committed entries are anchored by a majority.
Decided(n) ==
  \E A \in SUBSET Node :
    Cardinality(A) >= Majority /\ Anchored(committed, n, A)

CommittedDecided == committed # <<>> => Decided(Len(committed))

\* The inductive invariant: what elections rest on, and what makes the log that
\* leaders commit the only one (all of RaftNode, over crashes and late calls).
RaftInv ==
  /\ ElectionInv
  /\ MadeByLeaders
  /\ TermsReached
  /\ CallsShowLog
  /\ AcksTruthful
  /\ CandidatesShowLog
  /\ LeadersAnchored
  /\ CommittedDecided

\* No call leaves out entries that it declares committed: its batch goes from
\* prevLogIndex at least to leaderCommit.
BatchesReachCommit ==
  \A m \in appReq : m.leaderCommit <= m.prevLogIndex + Len(m.entries)

\* Up to x, which a node or a call of term t takes for committed, everything is
\* decided in no later term.
KnownDecided(x, t) ==
  x > 0 => \E n \in x..Len(committed) : Decided(n) /\ committed[n].term <= t

\* The inductive invariant of behaviours in which batches reach the commit index.
CommitInv ==
  /\ StateMachineSafety
  /\ \A i \in Node : KnownDecided(commitIndex[i], currentTerm[i])
  /\ \A m \in appReq : KnownDecided(m.leaderCommit, m.term)

=============================================================================

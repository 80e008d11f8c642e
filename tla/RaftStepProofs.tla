--------------------------- MODULE RaftStepProofs ---------------------------
(***************************************************************************)
(* What the operators on logs return, for logs of every length, and what   *)
(* the steps of Raft do: which variables they change and how, and where    *)
(* calls and replies come from.  Every step keeps the types, and leaves no *)
(* leader with an entry it could commit.                                   *)
(***************************************************************************)
EXTENDS RaftLogInvariant, TLAPS

\* What the proofs use of the natural numbers and of finite sets: a set of
\* naturals has a least element, and the sizes of sets of nodes are naturals
\* that grow by one with each node.  Stated as a hypothesis, for which
\* RaftProofs has the proof.
SetFacts ==
  /\ \A T \in SUBSET Nat : T # {} => \E x \in T : \A y \in T : x <= y
  /\ \A S \in SUBSET Node :
       /\ Cardinality(S) \in Nat
       /\ \A T \in SUBSET S : Cardinality(T) <= Cardinality(S)
       /\ \A i \in Node \ S : Cardinality(S \cup {i}) = Cardinality(S) + 1
  /\ \A i \in Node : Cardinality({i}) = 1
  /\ \A Q, R \in SUBSET Node :
       Cardinality(Q) + Cardinality(R) > Cardinality(Node) => Q \cap R # {}

\* A set of naturals that is not empty has a least element, and Min is it.
LEMMA MinIs ==
  ASSUME SetFacts, NEW T \in SUBSET Nat, T # {}
  PROVE  Min(T) \in T /\ \A y \in T : Min(T) <= y
<1>1. PICK x \in T : \A y \in T : x <= y
  BY Zenon DEF SetFacts
<1> QED BY Zenon, <1>1 DEF Min

\* A bounded set of naturals that is not empty has a greatest element, and Max
\* is it.
LEMMA MaxIs ==
  ASSUME SetFacts, NEW T \in SUBSET Nat, NEW b \in Nat, T # {}, \A x \in T : x <= b
  PROVE  Max(T) \in T /\ \A y \in T : Max(T) >= y
<1> DEFINE U == {n \in Nat : b - n \in T}
<1>1. PICK t \in T : TRUE
  BY Zenon
<1>2. b - t \in U
  <2>1. b - t \in Nat /\ b - (b - t) = t
    BY <1>1
  <2> QED BY Zenon, <2>1
<1>3. Min(U) \in U /\ \A y \in U : Min(U) <= y
  <2>1. U \in SUBSET Nat /\ U # {}
    BY Zenon, <1>2
  <2> HIDE DEF U
  <2> QED BY Zenon, <2>1, MinIs
<1> DEFINE x == b - Min(U)
<1>4. x \in T
  BY Zenon, <1>3
<1>5. ASSUME NEW y \in T PROVE x >= y
  <2>1. b - y \in U
    <3>1. b - y \in Nat /\ b - (b - y) = y
      OBVIOUS
    <3> QED BY Zenon, <3>1
  <2> QED BY <2>1, <1>3
<1> HIDE DEF x
<1> QED BY Zenon, <1>4, <1>5 DEF Max

\* A piece of a sequence.
LEMMA SubSeqIs ==
  ASSUME NEW S, NEW s \in Seq(S), NEW m \in Nat \ {0}, NEW n \in Nat,
         n <= Len(s)
  PROVE  /\ SubSeq(s, m, n) \in Seq(S)
         /\ Len(SubSeq(s, m, n)) = IF m <= n THEN n - m + 1 ELSE 0
         /\ \A k \in 1..(n - m + 1) : SubSeq(s, m, n)[k] = s[m + k - 1]
<1>1. SubSeq(s, m, n) \in Seq(S)
  OBVIOUS
<1>2. Len(SubSeq(s, m, n)) = IF m <= n THEN n - m + 1 ELSE 0
  OBVIOUS
<1>3. ASSUME NEW k \in 1..(n - m + 1)
      PROVE  SubSeq(s, m, n)[k] = s[m + k - 1]
  OBVIOUS
<1> QED BY Zenon, <1>1, <1>2, <1>3

\* The whole of it.
LEMMA SubSeqWhole ==
  ASSUME NEW S, NEW s \in Seq(S)
  PROVE  SubSeq(s, 1, Len(s)) = s /\ Len(s) \in Nat
OBVIOUS

\* Two sequences, one after the other.
LEMMA ConcatIs ==
  ASSUME NEW S, NEW s \in Seq(S), NEW t \in Seq(S)
  PROVE  /\ s \o t \in Seq(S)
         /\ Len(s \o t) = Len(s) + Len(t)
         /\ \A k \in 1..(Len(s) + Len(t)) :
              (s \o t)[k] = IF k <= Len(s) THEN s[k] ELSE t[k - Len(s)]
OBVIOUS

\* std::min.
LEMMA MinOfTwo ==
  ASSUME SetFacts, NEW a \in Nat, NEW b \in Nat
  PROVE  Min({a, b}) = IF a <= b THEN a ELSE b
BY MinIs, {a, b} \in SUBSET Nat, {a, b} # {}, Min({a, b}) \in {a, b}

\* std::max.
LEMMA MaxOfTwo ==
  ASSUME SetFacts, NEW a \in Nat, NEW b \in Nat
  PROVE  Max({a, b}) = IF a >= b THEN a ELSE b
<1>1. Max({a, b}) \in {a, b} /\ \A y \in {a, b} : Max({a, b}) >= y
  BY MaxIs, {a, b} \in SUBSET Nat, {a, b} # {}, a + b \in Nat,
     \A x \in {a, b} : x <= a + b
<1> QED BY <1>1

-----------------------------------------------------------------------------
(* The operators on logs.                                                  *)

\* A batch is the piece of the log that starts at next.
LEMMA BatchIs ==
  ASSUME SetFacts, NEW S, NEW lg \in Seq(S), NEW next \in 1..(Len(lg) + 1),
         NEW max \in Nat \ {0}
  PROVE  /\ Batch(lg, next, max) \in Seq(S)
         /\ next - 1 + Len(Batch(lg, next, max)) <= Len(lg)
         /\ \A k \in 1..Len(Batch(lg, next, max)) :
              Batch(lg, next, max)[k] = lg[next - 1 + k]
<1> DEFINE last == Min({Len(lg), next + max - 1})
<1>1. last \in Nat /\ last <= Len(lg)
  BY MinOfTwo
<1> HIDE DEF last
<1>3. /\ SubSeq(lg, next, last) \in Seq(S)
      /\ Len(SubSeq(lg, next, last))
           = IF next <= last THEN last - next + 1 ELSE 0
      /\ \A k \in 1..(last - next + 1) :
           SubSeq(lg, next, last)[k] = lg[next + k - 1]
  BY <1>1, SubSeqIs
<1>4. Batch(lg, next, max) = SubSeq(lg, next, last)
  BY Zenon DEF Batch, last
<1>5. next - 1 + Len(SubSeq(lg, next, last)) <= Len(lg)
  BY <1>1, <1>3
<1>6. ASSUME NEW k \in 1..Len(SubSeq(lg, next, last))
      PROVE  SubSeq(lg, next, last)[k] = lg[next - 1 + k]
  <2>1. k \in 1..(last - next + 1)
    BY <1>1, <1>3
  <2>2. next + k - 1 = next - 1 + k
    OBVIOUS
  <2> QED BY Zenon, <1>3, <2>1, <2>2
<1> QED BY Zenon, <1>3, <1>4, <1>5, <1>6

\* Accepting entries keeps a prefix of the log that reaches at least to prev,
\* and what is kept beyond it has the terms of the entries.
LEMMA KeptIs ==
  ASSUME SetFacts, NEW S, NEW lg \in Seq(S), NEW es \in Seq(S), NEW prev \in 0..Len(lg)
  PROVE  /\ Kept(lg, prev, es) \in prev..Len(lg)
         /\ \/ Kept(lg, prev, es) = Len(lg) /\ prev + Len(es) <= Len(lg)
            \/ Kept(lg, prev, es) < prev + Len(es)
         /\ \A k \in 1..(Kept(lg, prev, es) - prev) :
              k <= Len(es) => lg[prev + k].term = es[k].term
<1> DEFINE F == Fresh(lg, prev, es)
<1>1. CASE F = {}
  <2>1. \A k \in 1..Len(es) :
          prev + k <= Len(lg) /\ lg[prev + k].term = es[k].term
    BY <1>1 DEF Fresh
  <2>2. prev + Len(es) <= Len(lg)
    <3>1. CASE Len(es) = 0
      BY <3>1
    <3>2. CASE Len(es) # 0
      BY <3>2, <2>1, Len(es) \in 1..Len(es)
    <3> QED BY Zenon, <3>1, <3>2
  <2> QED BY <1>1, <2>1, <2>2 DEF Kept
<1>2. CASE F # {}
  <2> DEFINE f == Min(F)
  <2>1. F \in SUBSET Nat
    BY DEF Fresh
  <2>2. f \in F /\ \A k \in F : f <= k
    BY Zenon, <1>2, <2>1, MinIs
  <2>3. f \in 1..Len(es)
    BY Zenon, <2>2 DEF Fresh
  <2>4. Kept(lg, prev, es) = prev + f - 1
    BY Zenon, <1>2 DEF Kept
  <2> HIDE DEF f
  <2>5. \A k \in 1..(f - 1) :
          prev + k <= Len(lg) /\ lg[prev + k].term = es[k].term
    <3> TAKE k \in 1..(f - 1)
    <3>1. k \in 1..Len(es) /\ k \notin F
      BY <2>2, <2>3
    <3>2. ~(prev + k > Len(lg)) /\ lg[prev + k].term = es[k].term
      BY Zenon, <3>1 DEF Fresh
    <3> QED BY <3>2
  <2>6. prev + f - 1 <= Len(lg)
    <3>1. CASE f = 1
      BY <3>1
    <3>2. CASE f # 1
      <4>1. f - 1 \in 1..(f - 1)
        BY <2>3, <3>2
      <4>2. prev + (f - 1) <= Len(lg)
        BY Zenon, <2>5, <4>1
      <4> QED BY Zenon, <2>3, <4>2
    <3> QED BY Zenon, <3>1, <3>2
  <2> QED BY <2>3, <2>4, <2>5, <2>6
<1> QED BY Zenon, <1>1, <1>2

\* The log after an accepted AppendEntries: what was kept, then the new entries
\* at the indices the leader has them at.
LEMMA MergeIs ==
  ASSUME SetFacts, NEW S, NEW lg \in Seq(S), NEW es \in Seq(S), NEW prev \in 0..Len(lg)
  PROVE  LET new == Merge(lg, prev, es)
             kept == Kept(lg, prev, es)
         IN  /\ new \in Seq(S)
             /\ Len(new) = IF kept >= prev + Len(es) THEN kept
                                                     ELSE prev + Len(es)
             /\ \A k \in 1..kept : new[k] = lg[k]
             /\ \A k \in 1..Len(es) : prev + k > kept => new[prev + k] = es[k]
<1> DEFINE kept == Kept(lg, prev, es)
           s == SubSeq(lg, 1, kept)
           t == SubSeq(es, kept - prev + 1, Len(es))
<1>1. kept \in prev..Len(lg)
  BY Zenon, KeptIs
<1> HIDE DEF kept
<1>2. s \in Seq(S) /\ Len(s) = kept /\ \A k \in 1..kept : s[k] = lg[k]
  BY <1>1, SubSeqIs
<1>3. /\ t \in Seq(S)
      /\ Len(t) = IF kept - prev + 1 <= Len(es) THEN Len(es) - kept + prev ELSE 0
      /\ \A k \in 1..(Len(es) - kept + prev) : t[k] = es[kept - prev + k]
  <2>2. kept - prev + 1 \in Nat \ {0} /\ Len(es) \in Nat
    BY <1>1
  <2>3. /\ SubSeq(es, kept - prev + 1, Len(es)) \in Seq(S)
        /\ Len(SubSeq(es, kept - prev + 1, Len(es)))
             = IF kept - prev + 1 <= Len(es)
               THEN Len(es) - (kept - prev + 1) + 1 ELSE 0
        /\ \A k \in 1..(Len(es) - (kept - prev + 1) + 1) :
             SubSeq(es, kept - prev + 1, Len(es))[k] = es[kept - prev + 1 + k - 1]
    BY <2>2, SubSeqIs
  <2> QED BY <1>1, <2>3
<1> HIDE DEF s, t
<1>4. /\ s \o t \in Seq(S)
      /\ Len(s \o t) = Len(s) + Len(t)
      /\ \A k \in 1..(Len(s) + Len(t)) :
           (s \o t)[k] = IF k <= Len(s) THEN s[k] ELSE t[k - Len(s)]
  BY Zenon, <1>2, <1>3, ConcatIs
<1>5. Merge(lg, prev, es) = s \o t
  BY Zenon DEF Merge, kept, s, t
<1>6. ASSUME NEW k \in 1..Len(es), prev + k > kept
      PROVE  (s \o t)[prev + k] = es[k]
  <2>1. prev + k \in 1..(Len(s) + Len(t))
    BY <1>1, <1>2, <1>3, <1>6
  <2>2. (s \o t)[prev + k] = t[prev + k - kept]
    BY <2>1, <1>1, <1>2, <1>4, <1>6
  <2>3. /\ prev + k - kept \in 1..(Len(es) - kept + prev)
        /\ kept - prev + (prev + k - kept) = k
    BY <1>1, <1>6
  <2> QED BY Zenon, <1>3, <2>2, <2>3
<1>7. Len(s \o t) = IF kept >= prev + Len(es) THEN kept ELSE prev + Len(es)
  BY <1>1, <1>2, <1>3, <1>4
<1>8. \A k \in 1..kept : (s \o t)[k] = lg[k]
  BY <1>1, <1>2, <1>3, <1>4
<1> QED BY Zenon, <1>4, <1>5, <1>6, <1>7, <1>8 DEF kept

\* The hint of a rejection lies between 1 and prev.
LEMMA ConflictIndexIs ==
  ASSUME SetFacts, NEW S, NEW lg \in Seq(S), NEW prev \in Nat, prev # 0
  PROVE  ConflictIndex(lg, prev) \in 1..prev
<1>1. CASE prev > Len(lg)
  BY <1>1 DEF ConflictIndex
<1>2. CASE prev <= Len(lg)
  <2> DEFINE T == {c \in 1..prev : \A k \in c..prev : lg[k].term = lg[prev].term}
  <2>1. prev \in T
    OBVIOUS
  <2>2. T \in SUBSET Nat
    OBVIOUS
  <2>3. Min(T) \in T
    <3> HIDE DEF T
    <3> QED BY Zenon, <2>1, <2>2, MinIs
  <2> QED BY <1>2, <2>3 DEF ConflictIndex
<1> QED BY <1>1, <1>2

\* A majority holds the entry at n, which is of the given term and past commit.
Agreed(n, lg, term, commit, match, majority) ==
  /\ n \in (commit + 1)..Len(lg)
  /\ lg[n].term = term
  /\ Cardinality({p \in DOMAIN match : match[p] >= n}) >= majority

\* advanceCommit never moves back, and when it moves it moves to an index of
\* the log that a majority holds.
LEMMA AdvanceCommitIs ==
  ASSUME SetFacts, NEW S, NEW lg \in Seq(S), NEW term, NEW commit \in Nat, NEW match,
         NEW majority
  PROVE  LET n == AdvanceCommit(lg, term, commit, match, majority)
         IN  n = commit \/ Agreed(n, lg, term, commit, match, majority)
<1> DEFINE T == {n \in (commit + 1)..Len(lg) :
                   /\ \A k \in n..Len(lg) : lg[k].term = term
                   /\ Cardinality({p \in DOMAIN match : match[p] >= n})
                        >= majority}
<1>1. CASE T = {}
  BY Zenon, <1>1 DEF AdvanceCommit
<1>2. CASE T # {}
  <2>1. T \in SUBSET Nat /\ Len(lg) \in Nat /\ \A x \in T : x <= Len(lg)
    OBVIOUS
  <2>2. Max(T) \in T
    <3> HIDE DEF T
    <3> QED BY Zenon, <1>2, <2>1, MaxIs
  <2>3. AdvanceCommit(lg, term, commit, match, majority) = Max(T)
    BY Zenon, <1>2 DEF AdvanceCommit
  <2> DEFINE n == Max(T)
  <2> HIDE DEF n
  <2>4. /\ n \in (commit + 1)..Len(lg)
        /\ \A k \in n..Len(lg) : lg[k].term = term
        /\ Cardinality({p \in DOMAIN match : match[p] >= n}) >= majority
    BY Zenon, <2>2 DEF n
  <2>5. lg[n].term = term
    BY <2>4
  <2> QED BY Zenon, <2>3, <2>4, <2>5 DEF n, Agreed
<1> QED BY Zenon, <1>1, <1>2

\* A follower's new commitIndex_ is an index.
LEMMA FollowerCommitIs ==
  ASSUME SetFacts, NEW commit \in Nat, NEW leaderCommit \in Nat, NEW lastIndex \in Nat
  PROVE  FollowerCommit(commit, leaderCommit, lastIndex) \in Nat
BY Zenon, MinOfTwo DEF FollowerCommit

\* nextIndex_ stays within the log and one past it, and goes back to the hint.
LEMMA BackUpIs ==
  ASSUME SetFacts, NEW conflictIndex \in Nat, NEW lastIndex \in Nat
  PROVE  /\ BackUp(conflictIndex, lastIndex) \in 1..(lastIndex + 1)
         /\ conflictIndex # 0 => BackUp(conflictIndex, lastIndex) <= conflictIndex
<1>1. Max({conflictIndex, 1}) = IF conflictIndex >= 1 THEN conflictIndex ELSE 1
  BY Zenon, MaxOfTwo
<1>2. Max({conflictIndex, 1}) \in Nat
  BY <1>1
<1> QED BY <1>1, <1>2, MinOfTwo, lastIndex + 1 \in Nat DEF BackUp

-----------------------------------------------------------------------------
(* Majorities, and the fields that the proofs read.                        *)

USE DEF persistent, leaderVars, voteCalls, appCalls, history

\* majority() is at least one.
LEMMA MajorityType ==
  ASSUME SetFacts
  PROVE  Majority \in Nat \ {0}
<1>1. Cardinality(Node) \in Nat
  BY Zenon DEF SetFacts
<1>2. \A n \in Nat : n \div 2 + 1 \in Nat \ {0}
  OBVIOUS
<1> QED BY Zenon, <1>1, <1>2 DEF Majority

\* A set of nodes has a size, and a larger one has no fewer members.
LEMMA NodeSets ==
  ASSUME SetFacts, NEW S \in SUBSET Node
  PROVE  /\ Cardinality(S) \in Nat
         /\ \A T \in SUBSET S : Cardinality(T) \in Nat
                              /\ Cardinality(T) <= Cardinality(S)
BY Zenon DEF SetFacts

\* Two sets of nodes, each a majority, share a node.
LEMMA MajoritiesMeet ==
  ASSUME SetFacts, NEW Q \in SUBSET Node, NEW R \in SUBSET Node,
         Cardinality(Q) >= Majority, Cardinality(R) >= Majority
  PROVE  Q \cap R # {}
<1>1. /\ Cardinality(Q) \in Nat /\ Cardinality(R) \in Nat
      /\ Cardinality(Node) \in Nat
  BY Zenon DEF SetFacts
<1>2. \A n \in Nat : 2 * (n \div 2 + 1) > n
  OBVIOUS
<1>3. Cardinality(Q) + Cardinality(R) > Cardinality(Node)
  BY <1>1, <1>2 DEF Majority
<1> QED BY Zenon, <1>3 DEF SetFacts

\* The winner of a term is unique: two majorities share a node, which voted for
\* one of them only.
LEMMA OneWinner == SetFacts /\ ElectionInv => ElectionSafety
<1> SUFFICES ASSUME SetFacts, ElectionInv, NEW e \in elected, NEW f \in elected,
                    e.term = f.term
             PROVE  e.node = f.node
  BY Zenon DEF ElectionSafety
<1>1. /\ Voters(e.term, e.node) \in SUBSET Node
      /\ Voters(f.term, f.node) \in SUBSET Node
  BY Zenon DEF Voters
<1>2. /\ Cardinality(Voters(e.term, e.node)) >= Majority
      /\ Cardinality(Voters(f.term, f.node)) >= Majority
  BY Zenon DEF ElectionInv, WonByMajority
<1>3. PICK j \in Node : j \in Voters(e.term, e.node) \cap Voters(f.term, f.node)
  BY Zenon, <1>1, <1>2, MajoritiesMeet
<1>4. /\ [voter |-> j, term |-> e.term, candidate |-> e.node] \in votes
      /\ [voter |-> j, term |-> f.term, candidate |-> f.node] \in votes
  BY Zenon, <1>3 DEF Voters
<1>5. \A v, w \in votes :
        (v.voter = w.voter /\ v.term = w.term) => v.candidate = w.candidate
  BY Zenon DEF ElectionInv, VotesRemembered
<1> QED BY Zenon, <1>4, <1>5

\* The record fields that the proofs read.
LEMMA FieldTypes ==
  ASSUME TypeOK
  PROVE  /\ \A m \in voteReq : /\ m.from \in Node /\ m.to \in Node
                               /\ m.term \in Nat /\ m.live \in BOOLEAN
         /\ \A r \in voteRep : /\ r.from \in Node /\ r.to \in Node
                               /\ r.term \in Nat /\ r.rterm \in Nat
         /\ \A m \in appReq : /\ m.from \in Node /\ m.to \in Node
                              /\ m.term \in Nat /\ m.prevLogIndex \in Nat
                              /\ m.entries \in Seq(Entry)
         /\ \A r \in appRep : /\ r.from \in Node /\ r.to \in Node
                              /\ r.term \in Nat /\ r.rterm \in Nat
                              /\ r.match \in Nat /\ r.conflictIndex \in Nat
<1>1. /\ \A m \in voteReq : m \in VoteRequest
      /\ \A r \in voteRep : r \in VoteReply
      /\ \A m \in appReq : m \in AppendRequest
      /\ \A r \in appRep : r \in AppendReply
  BY Zenon DEF TypeOK
<1> QED BY Zenon, <1>1 DEF VoteRequest, VoteReply, AppendRequest, AppendReply

-----------------------------------------------------------------------------
(* What only grows.                                                        *)

\* Terms never go back, not even in a crash.
LEMMA TermsGrow ==
  ASSUME TypeOK, [Next]_vars, NEW j \in Node
  PROVE  currentTerm[j] <= currentTerm'[j]
<1>0. currentTerm \in [Node -> Nat] /\ currentTerm[j] \in Nat
  BY Zenon DEF TypeOK
<1>1. CASE UNCHANGED vars
  BY <1>0, <1>1 DEF vars
<1>2. ASSUME NEW i \in Node,
             StartElection(i) \/ Crash(i) \/ CrashInElection(i)
      PROVE  currentTerm[j] <= currentTerm'[j]
  BY <1>0, <1>2 DEF StartElection, Crash, CrashInElection
<1>3. ASSUME NEW m \in voteReq, OnRequestVote(m)
      PROVE  currentTerm[j] <= currentTerm'[j]
  BY <1>0, <1>3, FieldTypes DEF OnRequestVote
<1>4. ASSUME NEW r \in voteRep, OnVoteReply(r)
      PROVE  currentTerm[j] <= currentTerm'[j]
  <2>1. r.from \in Node /\ r.rterm \in Nat
    BY Zenon, FieldTypes
  <2> QED BY <1>0, <1>4, <2>1 DEF OnVoteReply, BecomeFollower
<1>5. ASSUME NEW m \in appReq, OnAppendEntries(m)
      PROVE  currentTerm[j] <= currentTerm'[j]
  <2>1. m.to \in Node /\ m.term \in Nat
    BY Zenon, FieldTypes
  <2>2. \/ currentTerm' = currentTerm
        \/ /\ m.term >= currentTerm[m.to]
           /\ currentTerm' = [currentTerm EXCEPT ![m.to] = m.term]
    BY Zenon, <1>5 DEF OnAppendEntries
  <2> QED BY <1>0, <2>1, <2>2
<1>6. ASSUME NEW r \in appRep, OnAppendReply(r)
      PROVE  currentTerm[j] <= currentTerm'[j]
  <2>1. r.from \in Node /\ r.rterm \in Nat
    BY Zenon, FieldTypes
  <2> QED BY <1>0, <1>6, <2>1 DEF OnAppendReply, BecomeFollower
<1>7. ASSUME NEW m \in voteReq \cup appReq, CrashInStepDown(m)
      PROVE  currentTerm[j] <= currentTerm'[j]
  BY <1>0, <1>7, FieldTypes DEF CrashInStepDown
<1>8. ASSUME NEW m \in appReq, CrashInAppend(m)
      PROVE  currentTerm[j] <= currentTerm'[j]
  BY <1>0, <1>8, FieldTypes DEF CrashInAppend
<1>9. ASSUME \/ \E i \in Node : \/ \E c \in Command : Submit(i, c)
                                \/ RejectSubmit(i)
                                \/ \E p \in Node : SendAppend(i, p)
             \/ VoteCallFails
             \/ AppendCallFails
      PROVE  currentTerm[j] <= currentTerm'[j]
  <2>1. currentTerm' = currentTerm
    BY Zenon, <1>9 DEF Submit, RejectSubmit, SendAppend, VoteCallFails,
                AppendCallFails, vars
  <2> QED BY <1>0, <2>1
<1> QED BY Zenon, <1>1, <1>2, <1>3, <1>4, <1>5, <1>6, <1>7, <1>8, <1>9 DEF Next

\* currentTerm_ is a number that no step lowers.
LEMMA TermTypes ==
  ASSUME TypeOK, TypeOK', [Next]_vars
  PROVE  \A j \in Node : /\ currentTerm[j] \in Nat
                         /\ currentTerm'[j] \in Nat
                         /\ currentTerm[j] <= currentTerm'[j]
BY ZenonT(40), TermsGrow DEF TypeOK

\* Votes and elections are never forgotten.
LEMMA HistoriesGrow ==
  ASSUME [Next]_vars
  PROVE  votes \subseteq votes' /\ elected \subseteq elected'
<1>1. CASE UNCHANGED vars
  BY Zenon, <1>1 DEF vars
<1>2. CASE Next
  <2>1. ASSUME NEW i \in Node, StartElection(i)
        PROVE  votes \subseteq votes' /\ elected \subseteq elected'
    BY Zenon, <2>1 DEF StartElection, BecomeLeader
  <2>2. ASSUME NEW i \in Node, Crash(i) \/ CrashInElection(i)
        PROVE  votes \subseteq votes' /\ elected \subseteq elected'
    BY Zenon, <2>2 DEF Crash, CrashInElection, Reboot
  <2>3. ASSUME NEW m, OnRequestVote(m) \/ OnAppendEntries(m)
        PROVE  votes \subseteq votes' /\ elected \subseteq elected'
    BY Zenon, <2>3 DEF OnRequestVote, OnAppendEntries
  <2>4. ASSUME NEW m, CrashInStepDown(m) \/ CrashInAppend(m)
        PROVE  votes \subseteq votes' /\ elected \subseteq elected'
    BY Zenon, <2>4 DEF CrashInStepDown, CrashInAppend, Reboot
  <2>5. ASSUME NEW r, OnVoteReply(r)
        PROVE  votes \subseteq votes' /\ elected \subseteq elected'
    BY Zenon, <2>5 DEF OnVoteReply, BecomeLeader, BecomeFollower
  <2>6. ASSUME NEW r, OnAppendReply(r)
        PROVE  votes \subseteq votes' /\ elected \subseteq elected'
    BY Zenon, <2>6 DEF OnAppendReply, BecomeFollower
  <2>7. ASSUME \/ \E i \in Node : \/ \E c \in Command : Submit(i, c)
                                  \/ RejectSubmit(i)
                                  \/ \E p \in Node : SendAppend(i, p)
               \/ VoteCallFails
               \/ AppendCallFails
        PROVE  votes \subseteq votes' /\ elected \subseteq elected'
    BY Zenon, <2>7 DEF Submit, RejectSubmit, SendAppend, VoteCallFails,
                AppendCallFails, vars
  <2> QED BY Zenon, <1>2, <2>1, <2>2, <2>3, <2>4, <2>5, <2>6, <2>7 DEF Next
<1> QED BY Zenon, <1>1, <1>2

-----------------------------------------------------------------------------
(* The steps, as far as elections are concerned.                           *)

\* Vote requests that show the same end of a log.
SameEnd(m, n) == m.lastLogIndex = n.lastLogIndex /\ m.lastLogTerm = n.lastLogTerm

\* Vote calls are only given up, or lose their callers.
CallsDropped ==
  /\ \A m \in voteReq' : /\ m.live => m \in voteReq
                         /\ \E n \in voteReq : SameCall(m, n) /\ SameEnd(m, n)
  /\ voteRep' \subseteq voteRep

\* Node i goes back to follower, in term t.
StepsDown(i, t) ==
  /\ t >= currentTerm[i]
  /\ currentTerm' = [currentTerm EXCEPT ![i] = t]
  /\ votedFor' = [votedFor EXCEPT ![i] = IF t > currentTerm[i] THEN None ELSE @]
  /\ role' = [role EXCEPT ![i] = "follower"]
  /\ \A j \in Node \ {i} : votesReceived'[j] = votesReceived[j]
  /\ UNCHANGED <<votes, elected>>

\* A caller that gives its calls up adds none, whatever the peers still process.
LEMMA AbandonedDrops ==
  ASSUME NEW C, NEW kept \in SUBSET voteReq,
         voteReq' \subseteq Abandoned(voteReq, C, kept),
         voteRep' \subseteq voteRep, TypeOK
  PROVE  CallsDropped
<1>1. ASSUME NEW m \in voteReq'
      PROVE  /\ m.live => m \in voteReq
             /\ \E n \in voteReq : SameCall(m, n) /\ SameEnd(m, n)
  <2>1. CASE m \in voteReq
    BY Zenon, <2>1 DEF SameCall, SameEnd
  <2>2. CASE m \notin voteReq
    <3>1. PICK n \in kept : m = [n EXCEPT !.live = FALSE]
      BY Zenon, <2>2 DEF Abandoned
    <3>2. n \in VoteRequest /\ n \in voteReq
      BY Zenon DEF TypeOK
    <3>3. SameCall(m, n) /\ SameEnd(m, n) /\ ~m.live
      BY Zenon, <3>1, <3>2 DEF SameCall, SameEnd, VoteRequest
    <3> QED BY Zenon, <3>2, <3>3
  <2> QED BY Zenon, <2>1, <2>2
<1> QED BY Zenon, <1>1 DEF CallsDropped

\* The process of a node that restarts takes its calls with it and leaves the
\* other nodes' counters alone.
LEMMA RebootDrops ==
  ASSUME TypeOK, NEW i \in Node, Reboot(i)
  PROVE  /\ CallsDropped
         /\ role' = [role EXCEPT ![i] = "follower"]
         /\ \A j \in Node \ {i} : votesReceived'[j] = votesReceived[j]
         /\ elected' = elected
<1> DEFINE open == {m \in voteReq : m.from = i /\ m.live}
<1>1. PICK kept \in SUBSET open :
        voteReq' = {m \in Abandoned(voteReq, open, kept) : m.to # i}
  BY Zenon DEF Reboot
<1>2. voteRep' \subseteq voteRep
  BY Zenon DEF Reboot
<1>3. /\ kept \in SUBSET voteReq
      /\ voteReq' \subseteq Abandoned(voteReq, open, kept)
  BY Zenon, <1>1
<1> HIDE DEF open
<1>4. CallsDropped
  BY Zenon, <1>2, <1>3, AbandonedDrops
<1>5. /\ role' = [role EXCEPT ![i] = "follower"]
      /\ votesReceived' = [votesReceived EXCEPT ![i] = 0]
      /\ elected' = elected
  BY Zenon DEF Reboot
<1>6. votesReceived \in [Node -> Nat]
  BY Zenon DEF TypeOK
<1> QED BY Zenon, <1>4, <1>5, <1>6

\* A step starts an election, casts a vote, counts a vote, makes a node step
\* down, or leaves the elections as they are.
LEMMA ElectionSteps ==
  ASSUME TypeOK, [Next]_vars
  PROVE  \/ \E i \in Node : StartElection(i) \/ CrashInElection(i)
         \/ \E m \in voteReq : OnRequestVote(m)
         \/ \E r \in voteRep : OnVoteReply(r) /\ CountsVote(r.from, r)
                                              /\ r.rterm <= currentTerm[r.from]
         \/ CallsDropped /\ \E i \in Node : \E t \in Nat : StepsDown(i, t)
         \/ CallsDropped /\ UNCHANGED <<role, currentTerm, votedFor,
                                       votesReceived, votes, elected>>
<1> DEFINE Quiet == CallsDropped /\ UNCHANGED <<role, currentTerm, votedFor,
                                               votesReceived, votes, elected>>
           Down == CallsDropped /\ \E i \in Node : \E t \in Nat : StepsDown(i, t)
           Counts(r) == OnVoteReply(r) /\ CountsVote(r.from, r)
                                       /\ r.rterm <= currentTerm[r.from]
<1>0. /\ currentTerm \in [Node -> Nat]
      /\ votedFor \in [Node -> Node \cup {None}]
  BY Zenon DEF TypeOK
<1>1. ASSUME UNCHANGED <<voteReq, voteRep>> PROVE CallsDropped
  BY Zenon, <1>1 DEF CallsDropped, SameCall, SameEnd
<1>2. ASSUME UNCHANGED vars PROVE Quiet
  BY Zenon, <1>1, <1>2 DEF vars
<1>3. ASSUME \/ \E i \in Node : \/ \E c \in Command : Submit(i, c)
                                \/ RejectSubmit(i)
                                \/ \E p \in Node : SendAppend(i, p)
             \/ AppendCallFails
      PROVE  Quiet
  BY ZenonT(40), <1>1, <1>3 DEF Submit, RejectSubmit, SendAppend,
     AppendCallFails, vars
<1>4. ASSUME VoteCallFails PROVE Quiet
  <2>1. UNCHANGED <<role, currentTerm, votedFor, votesReceived, votes, elected>>
    BY Zenon, <1>4 DEF VoteCallFails
  <2>2. CASE \E r \in voteRep : voteRep' = voteRep \ {r} /\ UNCHANGED voteReq
    BY Zenon, <2>1, <2>2 DEF CallsDropped, SameCall, SameEnd
  <2>3. CASE \E m \in voteReq : \E kept \in SUBSET {m} :
               /\ m.live
               /\ voteReq' = Abandoned(voteReq, {m}, kept)
               /\ UNCHANGED voteRep
    <3>1. PICK m \in voteReq : \E kept \in SUBSET {m} :
            voteReq' = Abandoned(voteReq, {m}, kept) /\ UNCHANGED voteRep
      BY Zenon, <2>3
    <3>2. PICK kept \in SUBSET {m} :
            voteReq' = Abandoned(voteReq, {m}, kept) /\ UNCHANGED voteRep
      BY Zenon, <3>1
    <3>3. CallsDropped
      BY Zenon, <3>2, AbandonedDrops
    <3> QED BY Zenon, <2>1, <3>3
  <2> QED BY Zenon, <1>4, <2>2, <2>3 DEF VoteCallFails
<1>5. ASSUME NEW i \in Node, Crash(i) PROVE Down
  <2>1. CallsDropped /\ StepsDown(i, currentTerm[i])
    BY <1>0, <1>5, RebootDrops DEF Crash, StepsDown
  <2> QED BY Zenon, <1>0, <2>1
<1>6. ASSUME NEW m \in voteReq \cup appReq, CrashInStepDown(m) PROVE Down
  <2>1. m.to \in Node /\ m.term \in Nat
    BY Zenon, FieldTypes
  <2>2. Reboot(m.to) /\ m.term > currentTerm[m.to]
    BY Zenon, <1>6 DEF CrashInStepDown
  <2>3. CallsDropped /\ StepsDown(m.to, m.term)
    BY <1>0, <1>6, <2>1, <2>2, RebootDrops DEF CrashInStepDown, StepsDown
  <2> QED BY Zenon, <2>1, <2>3
<1>7. ASSUME NEW m \in appReq, CrashInAppend(m) PROVE Down
  <2>1. m.to \in Node /\ m.term \in Nat
    BY Zenon, FieldTypes
  <2>2. Reboot(m.to)
    BY Zenon, <1>7 DEF CrashInAppend
  <2>3. CallsDropped /\ StepsDown(m.to, m.term)
    BY Zenon, <1>7, <2>1, <2>2, RebootDrops DEF CrashInAppend, StepsDown
  <2> QED BY Zenon, <2>1, <2>3
<1>8. ASSUME NEW m \in appReq, OnAppendEntries(m) PROVE Quiet \/ Down
  <2>1. m.to \in Node /\ m.term \in Nat
    BY Zenon, FieldTypes
  <2>2. CallsDropped
    BY Zenon, <1>1, <1>8 DEF OnAppendEntries
  <2>3. CASE m.term < currentTerm[m.to]
    <3>1. ~(m.term >= currentTerm[m.to])
      BY <1>0, <2>1, <2>3
    <3> QED BY ZenonT(40), <1>8, <2>2, <3>1 DEF OnAppendEntries
  <2>4. CASE m.term >= currentTerm[m.to]
    <3>1. ~(m.term < currentTerm[m.to])
      BY <1>0, <2>1, <2>4
    <3>2. StepsDown(m.to, m.term)
      BY ZenonT(40), <1>8, <2>4, <3>1 DEF OnAppendEntries, StepsDown
    <3> QED BY Zenon, <2>1, <2>2, <3>2
  <2> QED BY <1>0, <2>1, <2>3, <2>4
<1>9. ASSUME NEW r \in appRep, OnAppendReply(r) PROVE Quiet \/ Down
  <2>1. r.from \in Node /\ r.rterm \in Nat
    BY Zenon, FieldTypes
  <2>2. CallsDropped /\ UNCHANGED votesReceived
    BY Zenon, <1>1, <1>9 DEF OnAppendReply
  <2>3. CASE r.rterm > currentTerm[r.from] /\ BecomeFollower(r.from, r.rterm)
    <3>1. StepsDown(r.from, r.rterm)
      BY <1>0, <2>1, <2>2, <2>3 DEF StepsDown, BecomeFollower
    <3> QED BY Zenon, <2>1, <2>2, <3>1
  <2>4. CASE UNCHANGED <<role, currentTerm, votedFor, votes, elected>>
    BY Zenon, <2>2, <2>4
  <2> QED BY Zenon, <1>9, <2>3, <2>4 DEF OnAppendReply
<1>10. ASSUME NEW r \in voteRep, OnVoteReply(r) PROVE Quiet \/ Down \/ Counts(r)
  <2>1. r.from \in Node /\ r.rterm \in Nat
    BY Zenon, FieldTypes
  <2>2. CallsDropped
    BY Zenon, <1>10 DEF OnVoteReply, CallsDropped, SameCall, SameEnd
  <2>3. CASE /\ r.rterm > currentTerm[r.from] /\ BecomeFollower(r.from, r.rterm)
             /\ UNCHANGED votesReceived
    <3>1. StepsDown(r.from, r.rterm)
      BY <1>0, <2>1, <2>3 DEF StepsDown, BecomeFollower
    <3> QED BY Zenon, <2>1, <2>2, <3>1
  <2>4. CASE UNCHANGED <<role, currentTerm, votedFor, votesReceived, votes, elected>>
    BY Zenon, <2>2, <2>4
  <2>5. CASE r.rterm <= currentTerm[r.from] /\ CountsVote(r.from, r)
    BY Zenon, <1>10, <2>5
  <2> QED BY ZenonT(40), <1>10, <2>3, <2>4, <2>5 DEF OnVoteReply
<1> HIDE DEF Quiet, Down, Counts
<1>11. \/ \E i \in Node : StartElection(i) \/ CrashInElection(i)
       \/ \E m \in voteReq : OnRequestVote(m)
       \/ \E r \in voteRep : Counts(r)
       \/ Down
       \/ Quiet
  <2>1. CASE Next
    BY Zenon, <2>1, <1>3, <1>4, <1>5, <1>6, <1>7, <1>8, <1>9, <1>10 DEF Next
  <2>2. CASE UNCHANGED vars
    BY Zenon, <1>2, <2>2
  <2> QED BY Zenon, <2>1, <2>2
<1> QED BY Zenon, <1>11 DEF Quiet, Down, Counts

\* The calls of a new election, next to the ones that were there.
LEMMA NewCalls ==
  ASSUME NEW i \in Node, StartElection(i), NEW m \in voteReq', m \notin voteReq
  PROVE  \E p \in Node \ {i} : m = VoteRequestTo(i, p, currentTerm[i] + 1)
BY DEF StartElection

-----------------------------------------------------------------------------
(* The steps, as far as leaders and their calls are concerned.             *)

\* What onAppendEntries answers.
LEMMA AppendReplies ==
  ASSUME NEW m, OnAppendEntries(m)
  PROVE  \/ appRep' = appRep \cup AppendReplyTo(m, currentTerm[m.to], FALSE, 0)
         \/ appRep' = appRep \cup
              AppendReplyTo(m, m.term, FALSE,
                            ConflictIndex(log[m.to], m.prevLogIndex))
         \/ appRep' = appRep \cup AppendReplyTo(m, m.term, TRUE, 0)
BY ZenonT(40) DEF OnAppendEntries

\* A reply of onAppendEntries answers the request it was made for.
LEMMA NewAppendReply ==
  ASSUME NEW m, OnAppendEntries(m), NEW r \in appRep', r \notin appRep
  PROVE  /\ r.from = m.from /\ r.to = m.to /\ r.term = m.term
         /\ r.match = m.prevLogIndex + Len(m.entries)
<1> DEFINE Late == AppendReplyTo(m, currentTerm[m.to], FALSE, 0)
           Conflict == AppendReplyTo(m, m.term, FALSE,
                                     ConflictIndex(log[m.to], m.prevLogIndex))
           Done == AppendReplyTo(m, m.term, TRUE, 0)
           Fits(q) == /\ q.from = m.from /\ q.to = m.to /\ q.term = m.term
                      /\ q.match = m.prevLogIndex + Len(m.entries)
<1>1. \A q \in Late : Fits(q)
  BY DEF AppendReplyTo
<1>2. \A q \in Conflict : Fits(q)
  BY DEF AppendReplyTo
<1>3. \A q \in Done : Fits(q)
  BY DEF AppendReplyTo
<1>4. \/ appRep' = appRep \cup Late
      \/ appRep' = appRep \cup Conflict
      \/ appRep' = appRep \cup Done
  BY Zenon, AppendReplies
<1> HIDE DEF Late, Conflict, Done
<1> QED BY Zenon, <1>1, <1>2, <1>3, <1>4

\* The arguments of m that survive the loss of its caller.
SameArgs(m, n) ==
  /\ m.from = n.from /\ m.to = n.to /\ m.term = n.term
  /\ m.prevLogIndex = n.prevLogIndex /\ m.prevLogTerm = n.prevLogTerm
  /\ m.entries = n.entries /\ m.leaderCommit = n.leaderCommit

\* r is an answer to m.
Answers(r, m) == /\ r.from = m.from /\ r.to = m.to /\ r.term = m.term
                 /\ r.match = m.prevLogIndex + Len(m.entries)

\* An AppendEntries call was there before, with its caller or without, or is
\* sent by this step; a reply was there before, or answers a call that was.
LEMMA AppendCallsOrigin ==
  ASSUME TypeOK, [Next]_vars
  PROVE  /\ \/ \A m \in appReq' : \E n \in appReq : SameArgs(m, n)
            \/ \E i, p \in Node : SendAppend(i, p)
         /\ \A r \in appRep' : r \in appRep \/ \E m \in appReq : Answers(r, m)
<1> DEFINE Old(m) == \E n \in appReq : SameArgs(m, n)
           OldReply(r) == r \in appRep \/ \E m \in appReq : Answers(r, m)
           OK == (\A m \in appReq' : Old(m)) /\ (\A r \in appRep' : OldReply(r))
<1>0. (\A m \in appReq : Old(m)) /\ (\A r \in appRep : OldReply(r))
  BY Zenon DEF SameArgs
<1>1. ASSUME UNCHANGED <<appReq, appRep>> PROVE OK
  BY Zenon, <1>0, <1>1
<1>2. ASSUME NEW C, NEW kept \in SUBSET appReq,
             appReq' \subseteq Abandoned(appReq, C, kept), appRep' \subseteq appRep
      PROVE  OK
  <2>1. ASSUME NEW m \in appReq', m \notin appReq PROVE Old(m)
    <3>1. PICK n \in kept : m = [n EXCEPT !.live = FALSE]
      BY Zenon, <1>2, <2>1 DEF Abandoned
    <3>2. n \in AppendRequest /\ n \in appReq
      BY Zenon DEF TypeOK
    <3>3. SameArgs(m, n)
      BY Zenon, <3>1, <3>2 DEF AppendRequest, SameArgs
    <3> QED BY Zenon, <3>2, <3>3
  <2> QED BY Zenon, <1>0, <1>2, <2>1
<1>3. ASSUME NEW i \in Node, Reboot(i) PROVE OK
  <2> DEFINE open == {m \in appReq : m.from = i /\ m.live}
  <2> HIDE DEF OK
  <2>1. PICK kept \in SUBSET open :
          appReq' = {m \in Abandoned(appReq, open, kept) : m.to # i}
    BY <1>3, Zenon DEF Reboot
  <2>2. appRep' \subseteq appRep
    BY Zenon, <1>3 DEF Reboot
  <2>3. /\ kept \in SUBSET appReq
        /\ appReq' \subseteq Abandoned(appReq, open, kept)
    BY Zenon, <2>1
  <2> HIDE DEF open
  <2> QED BY Zenon, <1>2, <2>2, <2>3
<1>4. ASSUME AppendCallFails PROVE OK
  <2> HIDE DEF OK
  <2>1. CASE \E r \in appRep : appRep' = appRep \ {r} /\ UNCHANGED appReq
    BY Zenon, <1>0, <2>1 DEF OK
  <2>2. CASE \E m \in appReq : \E kept \in SUBSET {m} :
               /\ m.live
               /\ appReq' = Abandoned(appReq, {m}, kept)
               /\ UNCHANGED appRep
    <3>1. PICK m \in appReq : \E kept \in SUBSET {m} :
            appReq' = Abandoned(appReq, {m}, kept) /\ UNCHANGED appRep
      BY Zenon, <2>2
    <3>2. PICK kept \in SUBSET {m} :
            appReq' = Abandoned(appReq, {m}, kept) /\ UNCHANGED appRep
      BY Zenon, <3>1
    <3>3. kept \in SUBSET appReq
      BY Zenon, <3>1, <3>2
    <3> QED BY Zenon, <1>2, <3>2, <3>3
  <2>3. \/ \E r \in appRep : appRep' = appRep \ {r} /\ UNCHANGED appReq
        \/ \E m \in appReq : \E kept \in SUBSET {m} :
             /\ m.live
             /\ appReq' = Abandoned(appReq, {m}, kept)
             /\ UNCHANGED appRep
    BY Zenon, <1>4 DEF AppendCallFails
  <2> QED BY Zenon, <2>1, <2>2, <2>3
<1>5. ASSUME NEW i \in Node, NEW p \in Node, SendAppend(i, p)
      PROVE  \A r \in appRep' : OldReply(r)
  <2>1. appRep' = appRep
    BY Zenon, <1>5 DEF SendAppend
  <2> QED BY Zenon, <2>1
<1>6. ASSUME NEW m \in appReq, OnAppendEntries(m) PROVE OK
  <2>1. appReq' \subseteq appReq
    BY Zenon, <1>6 DEF OnAppendEntries
  <2>2. ASSUME NEW r \in appRep', r \notin appRep PROVE OldReply(r)
    BY Zenon, <1>6, <2>2, NewAppendReply DEF Answers
  <2> QED BY Zenon, <1>0, <2>1, <2>2
<1>7. ASSUME NEW r \in appRep, OnAppendReply(r) PROVE OK
  <2>1. appReq' = appReq /\ appRep' \subseteq appRep
    BY Zenon, <1>7 DEF OnAppendReply
  <2> QED BY Zenon, <1>0, <2>1
<1>8. ASSUME \/ \E i \in Node : \/ StartElection(i)
                                \/ \E c \in Command : Submit(i, c)
                                \/ RejectSubmit(i)
             \/ \E m \in voteReq : OnRequestVote(m)
             \/ \E r \in voteRep : OnVoteReply(r)
             \/ VoteCallFails
             \/ UNCHANGED vars
      PROVE  OK
  <2>1. ASSUME NEW i \in Node, StartElection(i) PROVE UNCHANGED <<appReq, appRep>>
    BY Zenon, <2>1 DEF StartElection
  <2>2. ASSUME NEW m, OnRequestVote(m) PROVE UNCHANGED <<appReq, appRep>>
    BY Zenon, <2>2 DEF OnRequestVote
  <2>3. ASSUME NEW r, OnVoteReply(r) PROVE UNCHANGED <<appReq, appRep>>
    BY Zenon, <2>3 DEF OnVoteReply
  <2>4. ASSUME NEW i, NEW c, Submit(i, c) PROVE UNCHANGED <<appReq, appRep>>
    BY Zenon, <2>4 DEF Submit
  <2>5. ASSUME (\E i \in Node : RejectSubmit(i)) \/ UNCHANGED vars
        PROVE  UNCHANGED <<appReq, appRep>>
    BY Zenon, <2>5 DEF RejectSubmit, vars
  <2>6. ASSUME VoteCallFails PROVE UNCHANGED <<appReq, appRep>>
    BY Zenon, <2>6 DEF VoteCallFails
  <2>7. UNCHANGED <<appReq, appRep>>
    BY Zenon, <1>8, <2>1, <2>2, <2>3, <2>4, <2>5, <2>6
  <2> HIDE DEF OK
  <2> QED BY Zenon, <1>1, <2>7
<1>9. ASSUME NEW i \in Node, Crash(i) \/ CrashInElection(i) PROVE OK
  <2> HIDE DEF OK
  <2> QED BY Zenon, <1>3, <1>9 DEF Crash, CrashInElection
<1>10. ASSUME NEW m \in voteReq \cup appReq, CrashInStepDown(m) PROVE OK
  <2> HIDE DEF OK
  <2> QED BY Zenon, <1>3, <1>10, FieldTypes DEF CrashInStepDown
<1>11. ASSUME NEW m \in appReq, CrashInAppend(m) PROVE OK
  <2> HIDE DEF OK
  <2> QED BY Zenon, <1>3, <1>11, FieldTypes DEF CrashInAppend
<1>12. OK \/ \E i, p \in Node : SendAppend(i, p) /\ \A r \in appRep' : OldReply(r)
  <2> HIDE DEF OK, OldReply
  <2> QED BY Zenon, <1>4, <1>5, <1>6, <1>7, <1>8, <1>9, <1>10, <1>11 DEF Next
<1> QED BY Zenon, <1>12

\* The call that replicatorLoop makes.
LEMMA SentAppend ==
  ASSUME SetFacts, TypeOK, IndexesInLog, NEW i \in Node, NEW p \in Node, SendAppend(i, p),
         NEW m \in appReq', m \notin appReq
  PROVE  /\ m.from = i /\ m.to = p /\ p # i
         /\ m.term = currentTerm[i] /\ role[i] = "leader"
         /\ m.prevLogIndex \in Nat /\ m.entries \in Seq(Entry)
         /\ m.prevLogIndex + Len(m.entries) <= Len(log[i])
         /\ m.prevLogTerm = TermAt(log[i], m.prevLogIndex)
         /\ m.prevLogIndex = 0 => m.prevLogTerm = 0
         /\ \A k \in 1..Len(m.entries) : m.entries[k] = log[i][m.prevLogIndex + k]
         /\ m.leaderCommit = commitIndex[i]
<1> DEFINE prev == nextIndex[i][p] - 1
           es == Batch(log[i], prev + 1, MaxBatch)
           tm == TermAt(log[i], prev)
<1>1. m = [from |-> i, to |-> p, term |-> currentTerm[i],
           prevLogIndex |-> prev, prevLogTerm |-> tm, entries |-> es,
           leaderCommit |-> commitIndex[i], live |-> TRUE]
  BY Zenon DEF SendAppend
<1>2. role[i] = "leader" /\ p # i
  BY Zenon DEF SendAppend
<1>3. nextIndex[i][p] \in 1..(Len(log[i]) + 1) /\ log[i] \in Seq(Entry)
  <2>1. nextIndex[i][p] \in Nat \ {0} /\ log[i] \in Seq(Entry)
    BY Zenon DEF TypeOK
  <2>2. nextIndex[i][p] <= Len(log[i]) + 1
    BY Zenon, <1>2 DEF IndexesInLog
  <2> QED BY <2>1, <2>2
<1>4. prev \in Nat /\ prev + 1 \in 1..(Len(log[i]) + 1) /\ (prev + 1) - 1 = prev
  BY <1>3
<1>5. prev = 0 => tm = 0
  BY Zenon DEF TermAt
<1> HIDE DEF prev
<1>6. /\ (prev + 1) - 1 + Len(es) <= Len(log[i]) /\ es \in Seq(Entry)
      /\ \A k \in 1..Len(es) : es[k] = log[i][(prev + 1) - 1 + k]
  <2>1. MaxBatch \in Nat \ {0}
    BY Zenon, BoundAssumption
  <2>2. (prev + 1) - 1 + Len(es) <= Len(log[i]) /\ es \in Seq(Entry)
    BY Zenon, <1>3, <1>4, <2>1, BatchIs
  <2>3. \A k \in 1..Len(es) : es[k] = log[i][(prev + 1) - 1 + k]
    BY ZenonT(30), <1>3, <1>4, <2>1, BatchIs
  <2> QED BY Zenon, <2>2, <2>3
<1> HIDE DEF es
<1>7. /\ prev + Len(es) <= Len(log[i])
      /\ \A k \in 1..Len(es) : es[k] = log[i][prev + k]
  BY Zenon, <1>4, <1>6
<1>8. /\ m.from = i /\ m.to = p /\ m.term = currentTerm[i]
      /\ m.prevLogIndex = prev /\ m.prevLogTerm = tm /\ m.entries = es
      /\ m.leaderCommit = commitIndex[i]
  <2> HIDE DEF tm
  <2> QED BY Zenon, <1>1
<1> QED BY Zenon, <1>2, <1>4, <1>5, <1>6, <1>7, <1>8

\* Node i stays leader and keeps its log and its indices.
StaysLeader(i) ==
  /\ role[i] = "leader" /\ currentTerm'[i] = currentTerm[i]
  /\ log'[i] = log[i]
  /\ nextIndex'[i] = nextIndex[i] /\ matchIndex'[i] = matchIndex[i]

\* Node i wins an election in this step.
BecomesLeader(i) ==
  /\ BecomeLeader(i, currentTerm'[i])
  /\ [term |-> currentTerm'[i], node |-> i] \notin elected

\* How a node comes to be leader after a step.
LEMMA LeaderSteps ==
  ASSUME TypeOK, [Next]_vars, WonByMajority, LeadersElected,
         NEW i \in Node, role'[i] = "leader"
  PROVE  \/ StaysLeader(i)
         \/ BecomesLeader(i)
         \/ \E c \in Command : Submit(i, c)
         \/ \E r \in appRep : r.from = i /\ role[i] = "leader" /\ OnAppendReply(r)
<1> DEFINE OK == \/ StaysLeader(i)
                 \/ BecomesLeader(i)
                 \/ \E c \in Command : Submit(i, c)
                 \/ \E r \in appRep : /\ r.from = i /\ role[i] = "leader"
                                      /\ OnAppendReply(r)
<1>0. /\ currentTerm \in [Node -> Nat]
      /\ role \in [Node -> {"follower", "candidate", "leader"}]
      /\ DOMAIN log = Node /\ log = [j \in Node |-> log[j]]
      /\ DOMAIN nextIndex = Node /\ nextIndex = [j \in Node |-> nextIndex[j]]
      /\ DOMAIN matchIndex = Node /\ matchIndex = [j \in Node |-> matchIndex[j]]
  BY Zenon DEF TypeOK
<1> DEFINE Same == /\ role'[i] = role[i] /\ currentTerm'[i] = currentTerm[i]
                   /\ log'[i] = log[i] /\ nextIndex'[i] = nextIndex[i]
                   /\ matchIndex'[i] = matchIndex[i]
<1>1. ASSUME Same PROVE OK
  BY Zenon, <1>1 DEF StaysLeader
<1>2. ASSUME role'[i] = "follower" PROVE FALSE
  BY Zenon, <1>2
<1>3. ASSUME NEW j \in Node, j # i, NEW t, BecomeLeader(j, t),
             currentTerm'[i] = currentTerm[i]
      PROVE  Same
  <2>1. role'[i] = role[i]
    BY Zenon, <1>0, <1>3 DEF BecomeLeader
  <2>2. log'[i] = log[i]
    BY Zenon, <1>0, <1>3 DEF BecomeLeader
  <2>3. nextIndex'[i] = nextIndex[i]
    BY Zenon, <1>0, <1>3 DEF BecomeLeader
  <2>4. matchIndex'[i] = matchIndex[i]
    BY Zenon, <1>0, <1>3 DEF BecomeLeader
  <2> QED BY Zenon, <1>3, <2>1, <2>2, <2>3, <2>4
<1>4. ASSUME NEW j \in Node, StartElection(j) PROVE OK
  <2>1. currentTerm' = [currentTerm EXCEPT ![j] = currentTerm[j] + 1]
    BY Zenon, <1>4 DEF StartElection
  <2>2. \/ BecomeLeader(j, currentTerm[j] + 1)
        \/ /\ role' = [role EXCEPT ![j] = "candidate"]
           /\ UNCHANGED <<log, leaderVars>>
    BY Zenon, <1>4 DEF StartElection
  <2>3. CASE j = i
    <3>1. currentTerm'[i] = currentTerm[i] + 1
      BY Zenon, <1>0, <2>1, <2>3
    <3>2. [term |-> currentTerm[i] + 1, node |-> i] \notin elected
      <4> SUFFICES ASSUME [term |-> currentTerm[i] + 1, node |-> i] \in elected
                   PROVE  FALSE
        BY Zenon
      <4>1. currentTerm[i] + 1 <= currentTerm[i]
        BY Zenon DEF WonByMajority
      <4> QED BY <1>0, <4>1
    <3>3. BecomeLeader(i, currentTerm[i] + 1)
      BY Zenon, <1>0, <2>2, <2>3
    <3> QED BY Zenon, <3>1, <3>2, <3>3 DEF BecomesLeader
  <2>4. CASE j # i
    <3>1. currentTerm'[i] = currentTerm[i]
      BY Zenon, <1>0, <2>1, <2>4
    <3>2. CASE BecomeLeader(j, currentTerm[j] + 1)
      BY Zenon, <1>1, <1>3, <2>4, <3>1, <3>2
    <3>3. CASE /\ role' = [role EXCEPT ![j] = "candidate"]
               /\ UNCHANGED <<log, leaderVars>>
      BY Zenon, <1>0, <1>1, <2>4, <3>1, <3>3
    <3> QED BY Zenon, <2>2, <3>2, <3>3
  <2> QED BY Zenon, <2>3, <2>4
<1>5. ASSUME NEW j \in Node, NEW t, BecomeFollower(j, t) PROVE OK
  <2>1. /\ role' = [role EXCEPT ![j] = "follower"]
        /\ currentTerm' = [currentTerm EXCEPT ![j] = t]
        /\ UNCHANGED <<log, nextIndex, matchIndex>>
    BY Zenon, <1>5 DEF BecomeFollower
  <2>2. CASE j = i
    BY Zenon, <1>0, <1>2, <2>1, <2>2
  <2>3. CASE j # i
    BY Zenon, <1>0, <1>1, <2>1, <2>3
  <2> QED BY Zenon, <2>2, <2>3
<1>6. ASSUME NEW r \in voteRep, OnVoteReply(r) PROVE OK
  <2>1. r.from \in Node
    BY Zenon, FieldTypes
  <2>2. CASE UNCHANGED <<role, currentTerm, log, leaderVars>>
    BY Zenon, <1>1, <2>2
  <2>3. CASE /\ CountsVote(r.from, r) /\ UNCHANGED currentTerm
             /\ BecomeLeader(r.from, currentTerm[r.from])
    <3>1. CASE r.from = i
      <4>1. role[i] = "candidate" /\ currentTerm'[i] = currentTerm[i]
        BY Zenon, <2>3, <3>1 DEF CountsVote
      <4>2. [term |-> currentTerm[i], node |-> i] \notin elected
        BY Zenon, <4>1 DEF LeadersElected
      <4> QED BY ZenonT(40), <2>3, <3>1, <4>1, <4>2 DEF BecomesLeader
    <3>2. CASE r.from # i
      BY Zenon, <1>1, <1>3, <2>1, <2>3, <3>2
    <3> QED BY Zenon, <3>1, <3>2
  <2> HIDE DEF OK
  <2> QED BY Zenon, <1>5, <1>6, <2>1, <2>2, <2>3 DEF OnVoteReply
<1>7. ASSUME NEW m \in voteReq, OnRequestVote(m) PROVE OK
  <2>1. m.to \in Node
    BY Zenon, FieldTypes
  <2>2. /\ currentTerm' = [currentTerm EXCEPT ![m.to] =
             IF m.term > currentTerm[m.to] THEN m.term ELSE @]
        /\ role' = [role EXCEPT ![m.to] =
             IF m.term > currentTerm[m.to] THEN "follower" ELSE @]
        /\ UNCHANGED <<log, nextIndex, matchIndex>>
    BY Zenon, <1>7 DEF OnRequestVote
  <2>3. CASE i = m.to /\ m.term > currentTerm[m.to]
    BY Zenon, <1>0, <1>2, <2>2, <2>3
  <2>4. CASE ~(i = m.to /\ m.term > currentTerm[m.to])
    BY Zenon, <1>0, <1>1, <2>1, <2>2, <2>4
  <2> QED BY Zenon, <2>3, <2>4
<1>8. ASSUME NEW m \in appReq, OnAppendEntries(m) PROVE OK
  <2>1. m.to \in Node
    BY Zenon, FieldTypes
  <2>2. CASE UNCHANGED <<role, currentTerm, log, leaderVars>>
    BY Zenon, <1>1, <2>2
  <2> DEFINE lg == Merge(log[m.to], m.prevLogIndex, m.entries)
             Accepts == /\ role' = [role EXCEPT ![m.to] = "follower"]
                        /\ currentTerm' = [currentTerm EXCEPT ![m.to] = m.term]
                        /\ (log' = log \/ log' = [log EXCEPT ![m.to] = lg])
                        /\ UNCHANGED leaderVars
  <2>3. UNCHANGED <<role, currentTerm, log, leaderVars>> \/ Accepts
    BY <1>8, ZenonT(40) DEF OnAppendEntries
  <2> HIDE DEF lg
  <2>4. CASE Accepts
    <3>1. CASE m.to = i
      BY Zenon, <1>0, <1>2, <2>4, <3>1
    <3>2. CASE m.to # i
      <4>1. role'[i] = role[i] /\ currentTerm'[i] = currentTerm[i]
        BY Zenon, <1>0, <2>1, <2>4, <3>2
      <4>2. log'[i] = log[i]
        BY Zenon, <1>0, <2>1, <2>4, <3>2
      <4>3. nextIndex' = nextIndex /\ matchIndex' = matchIndex
        BY Zenon, <2>4
      <4> QED BY Zenon, <1>1, <4>1, <4>2, <4>3
    <3> QED BY Zenon, <3>1, <3>2
  <2> QED BY Zenon, <2>2, <2>3, <2>4
<1>9. ASSUME NEW r \in appRep, OnAppendReply(r) PROVE OK
  <2>1. r.from \in Node
    BY Zenon, FieldTypes
  <2>2. CASE UNCHANGED <<role, currentTerm, log, leaderVars>>
    BY Zenon, <1>1, <2>2
  <2>3. CASE r.from = i /\ role[i] = "leader"
    BY Zenon, <1>9, <2>3
  <2> HIDE DEF OK
  <2>4. CASE r.from # i
    <3>1. /\ \/ nextIndex' = nextIndex
             \/ nextIndex' = [nextIndex EXCEPT ![r.from] = nextIndex'[r.from]]
          /\ \/ matchIndex' = matchIndex
             \/ matchIndex' = [matchIndex EXCEPT ![r.from] = matchIndex'[r.from]]
      BY Zenon, <1>0, <1>9, <2>1 DEF OnAppendReply, BecomeFollower
    <3>2. \/ BecomeFollower(r.from, r.rterm)
          \/ UNCHANGED <<role, currentTerm, log>>
      BY Zenon, <1>9 DEF OnAppendReply
    <3>3. nextIndex'[i] = nextIndex[i] /\ matchIndex'[i] = matchIndex[i]
      BY Zenon, <1>0, <2>1, <2>4, <3>1
    <3>4. CASE UNCHANGED <<role, currentTerm, log>>
      BY Zenon, <1>1, <3>3, <3>4
    <3> QED BY Zenon, <1>5, <2>1, <3>2, <3>4
  <2>5. CASE r.from = i /\ role[i] # "leader"
    BY Zenon, <1>9, <2>2, <2>5 DEF OnAppendReply
  <2> QED BY Zenon, <2>3, <2>4, <2>5
<1>10. ASSUME NEW j \in Node, Reboot(j),
              \A k \in Node \ {j} : /\ currentTerm'[k] = currentTerm[k]
                                   /\ log'[k] = log[k]
       PROVE  OK
  <2>1. CASE j = i
    BY Zenon, <1>0, <1>2, <1>10, <2>1 DEF Reboot
  <2>2. CASE j # i
    <3>1. currentTerm'[i] = currentTerm[i] /\ log'[i] = log[i]
      BY Zenon, <1>0, <1>10, <2>2
    <3>2. role'[i] = role[i]
      BY Zenon, <1>0, <1>10, <2>2 DEF Reboot
    <3>3. nextIndex'[i] = nextIndex[i]
      BY ZenonT(40), <1>0, <1>10, <2>2 DEF Reboot
    <3>4. matchIndex'[i] = matchIndex[i]
      BY Zenon, <1>0, <1>10, <2>2 DEF Reboot
    <3> QED BY Zenon, <1>1, <3>1, <3>2, <3>3, <3>4
  <2> QED BY Zenon, <2>1, <2>2
<1>11. ASSUME NEW j \in Node, Crash(j) \/ CrashInElection(j) PROVE OK
  <2> HIDE DEF OK
  <2>1. \/ UNCHANGED <<currentTerm, log>>
        \/ /\ currentTerm' = [currentTerm EXCEPT ![j] = currentTerm[j] + 1]
           /\ UNCHANGED log
    BY Zenon, <1>11 DEF Crash, CrashInElection
  <2>2. \A k \in Node \ {j} : currentTerm'[k] = currentTerm[k] /\ log'[k] = log[k]
    BY Zenon, <1>0, <2>1
  <2> QED BY Zenon, <1>10, <1>11, <2>2 DEF Crash, CrashInElection
<1>12. ASSUME NEW m \in voteReq \cup appReq, CrashInStepDown(m) PROVE OK
  <2>1. m.to \in Node
    BY Zenon, FieldTypes
  <2>2. \A k \in Node \ {m.to} : /\ currentTerm'[k] = currentTerm[k]
                                 /\ log'[k] = log[k]
    BY Zenon, <1>0, <1>12, <2>1 DEF CrashInStepDown
  <2> HIDE DEF OK
  <2> QED BY Zenon, <1>10, <1>12, <2>1, <2>2 DEF CrashInStepDown
<1>13. ASSUME NEW m \in appReq, CrashInAppend(m) PROVE OK
  <2>1. m.to \in Node
    BY Zenon, FieldTypes
  <2>2. \A k \in Node \ {m.to} : currentTerm'[k] = currentTerm[k]
    BY Zenon, <1>0, <1>13, <2>1 DEF CrashInAppend
  <2>3. \A k \in Node \ {m.to} : log'[k] = log[k]
    BY Zenon, <1>0, <1>13, <2>1 DEF CrashInAppend
  <2> HIDE DEF OK
  <2> QED BY Zenon, <1>10, <1>13, <2>1, <2>2, <2>3 DEF CrashInAppend
<1>14. ASSUME NEW j \in Node, NEW c \in Command, Submit(j, c) PROVE OK
  <2>1. CASE j = i
    BY Zenon, <1>14, <2>1
  <2>2. CASE j # i
    <3>1. UNCHANGED <<role, currentTerm, nextIndex>>
      BY Zenon, <1>14 DEF Submit
    <3>2. log'[i] = log[i]
      BY Zenon, <1>0, <1>14, <2>2 DEF Submit
    <3>3. matchIndex'[i] = matchIndex[i]
      BY Zenon, <1>0, <1>14, <2>2 DEF Submit
    <3> QED BY Zenon, <1>1, <3>1, <3>2, <3>3
  <2> QED BY Zenon, <2>1, <2>2
<1>15. ASSUME \/ \E j, p \in Node : SendAppend(j, p)
              \/ \E j \in Node : RejectSubmit(j)
              \/ VoteCallFails
              \/ AppendCallFails
              \/ UNCHANGED vars
       PROVE  OK
  <2>1. ASSUME NEW j, NEW p, SendAppend(j, p)
        PROVE  UNCHANGED <<role, currentTerm, log, leaderVars>>
    BY Zenon, <2>1 DEF SendAppend
  <2>2. ASSUME VoteCallFails \/ AppendCallFails
        PROVE  UNCHANGED <<role, currentTerm, log, leaderVars>>
    BY Zenon, <2>2 DEF VoteCallFails, AppendCallFails
  <2>3. ASSUME (\E j \in Node : RejectSubmit(j)) \/ UNCHANGED vars
        PROVE  UNCHANGED <<role, currentTerm, log, leaderVars>>
    BY Zenon, <2>3 DEF RejectSubmit, vars
  <2>4. UNCHANGED <<role, currentTerm, log, leaderVars>>
    BY Zenon, <1>15, <2>1, <2>2, <2>3
  <2> QED BY Zenon, <1>1, <2>4
<1>16. OK
  <2> HIDE DEF OK
  <2> QED BY Zenon, <1>4, <1>6, <1>7, <1>8, <1>9, <1>11, <1>12, <1>13, <1>14,
             <1>15
          DEF Next
<1> QED BY Zenon, <1>16

\* The part of the inductive invariant that is about confirmations.
AckInv == CallsShowLog /\ AcksTruthful

-----------------------------------------------------------------------------
(* Every step keeps the types.                                             *)

\* LeaderCommits keeps commitIndex and committed well typed.
LEMMA LeaderCommitsType ==
  ASSUME SetFacts, TypeOK, NEW i \in Node, NEW lg \in Seq(Entry), NEW term, NEW match,
         LeaderCommits(i, lg, term, match)
  PROVE  commitIndex' \in [Node -> Nat] /\ committed' \in Seq(Entry)
<1> DEFINE n == AdvanceCommit(lg, term, commitIndex[i], match, Majority)
<1>1. commitIndex[i] \in Nat
  BY Zenon DEF TypeOK
<1>2. n = commitIndex[i] \/ n \in (commitIndex[i] + 1)..Len(lg)
  BY Zenon, <1>1, AdvanceCommitIs DEF Agreed
<1>3. commitIndex' = [commitIndex EXCEPT ![i] = n]
  BY Zenon DEF LeaderCommits
<1>4. committed' = IF n > commitIndex[i] /\ n > Len(committed)
                   THEN SubSeq(lg, 1, n) ELSE committed
  BY Zenon DEF LeaderCommits
<1> HIDE DEF n
<1>5. n \in Nat
  BY <1>1, <1>2
<1>6. CASE committed' = committed
  BY Zenon, <1>3, <1>5, <1>6 DEF TypeOK
<1>7. CASE n > commitIndex[i] /\ committed' = SubSeq(lg, 1, n)
  <2>1. n \in 1..Len(lg)
    BY <1>1, <1>2, <1>7
  <2>2. SubSeq(lg, 1, n) \in Seq(Entry)
    BY <2>1
  <2> QED BY Zenon, <1>3, <1>5, <1>7, <2>2 DEF TypeOK
<1> QED BY Zenon, <1>4, <1>6, <1>7

\* becomeLeader sets variables to values of their types.
LEMMA BecomeLeaderType ==
  ASSUME SetFacts, TypeOK, NEW i \in Node, NEW term \in Nat, BecomeLeader(i, term)
  PROVE  /\ role' \in [Node -> {"follower", "candidate", "leader"}]
         /\ leaderHint' \in [Node -> Node \cup {None}]
         /\ nextIndex' \in [Node -> [Node -> Nat \ {0}]]
         /\ matchIndex' \in [Node -> [Node -> Nat]]
         /\ log' \in [Node -> Seq(Entry)]
         /\ commitIndex' \in [Node -> Nat]
         /\ committed' \in Seq(Entry)
         /\ elected' \in SUBSET [term : Nat, node : Node]
<1> DEFINE lg == Append(log[i], [term |-> term, command |-> NoOp])
           match == [p \in Node |-> IF p = i THEN Len(lg) ELSE 0]
<1>1. [term |-> term, command |-> NoOp] \in Entry /\ log[i] \in Seq(Entry)
  BY Zenon DEF TypeOK, Entry
<1>2. lg \in Seq(Entry) /\ Len(lg) \in Nat
  BY <1>1
<1>3. LeaderCommits(i, lg, term, match)
  BY Zenon DEF BecomeLeader
<1>4. commitIndex' \in [Node -> Nat] /\ committed' \in Seq(Entry)
  BY Zenon, <1>2, <1>3, LeaderCommitsType
<1>5. match \in [Node -> Nat]
  BY Zenon, <1>2
<1>6. /\ role' = [role EXCEPT ![i] = "leader"]
      /\ leaderHint' = [leaderHint EXCEPT ![i] = i]
      /\ nextIndex' = [nextIndex EXCEPT ![i] = [p \in Node |-> Len(log[i]) + 1]]
      /\ matchIndex' = [matchIndex EXCEPT ![i] = match]
      /\ log' = [log EXCEPT ![i] = lg]
      /\ elected' = elected \cup {[term |-> term, node |-> i]}
  BY Zenon DEF BecomeLeader
<1> HIDE DEF lg, match
<1>7. Len(log[i]) + 1 \in Nat \ {0}
  BY <1>1
<1>8. [p \in Node |-> Len(log[i]) + 1] \in [Node -> Nat \ {0}]
  BY Zenon, <1>7
<1>9. nextIndex' \in [Node -> [Node -> Nat \ {0}]]
  BY Zenon, <1>6, <1>8 DEF TypeOK
<1>10. matchIndex' \in [Node -> [Node -> Nat]]
  BY Zenon, <1>5, <1>6 DEF TypeOK
<1>11. log' \in [Node -> Seq(Entry)]
  BY Zenon, <1>2, <1>6 DEF TypeOK
<1>12. elected' \in SUBSET [term : Nat, node : Node]
  BY <1>6 DEF TypeOK
<1>13. /\ role' \in [Node -> {"follower", "candidate", "leader"}]
       /\ leaderHint' \in [Node -> Node \cup {None}]
  BY Zenon, <1>6 DEF TypeOK
<1> QED BY Zenon, <1>4, <1>9, <1>10, <1>11, <1>12, <1>13

\* Requests whose callers are gone are requests still.
LEMMA AbandonedType ==
  /\ \A S \in SUBSET VoteRequest : \A C : \A kept \in SUBSET S :
       Abandoned(S, C, kept) \in SUBSET VoteRequest
  /\ \A S \in SUBSET AppendRequest : \A C : \A kept \in SUBSET S :
       Abandoned(S, C, kept) \in SUBSET AppendRequest
<1>1. \A m \in VoteRequest : [m EXCEPT !.live = FALSE] \in VoteRequest
  BY Zenon DEF VoteRequest
<1>2. \A m \in AppendRequest : [m EXCEPT !.live = FALSE] \in AppendRequest
  BY Zenon DEF AppendRequest
<1> QED BY Zenon, <1>1, <1>2 DEF Abandoned

\* A restart sets variables to values of their types.
LEMMA RebootType ==
  ASSUME TypeOK, NEW i \in Node, Reboot(i)
  PROVE  /\ role' \in [Node -> {"follower", "candidate", "leader"}]
         /\ commitIndex' \in [Node -> Nat]
         /\ leaderHint' \in [Node -> Node \cup {None}]
         /\ votesReceived' \in [Node -> Nat]
         /\ nextIndex' \in [Node -> [Node -> Nat \ {0}]]
         /\ matchIndex' \in [Node -> [Node -> Nat]]
         /\ voteReq' \in SUBSET VoteRequest
         /\ voteRep' \in SUBSET VoteReply
         /\ appReq' \in SUBSET AppendRequest
         /\ appRep' \in SUBSET AppendReply
         /\ elected' \in SUBSET [term : Nat, node : Node]
         /\ committed' \in Seq(Entry)
         /\ faults' \in Nat
<1>1. /\ role' \in [Node -> {"follower", "candidate", "leader"}]
      /\ commitIndex' \in [Node -> Nat]
      /\ leaderHint' \in [Node -> Node \cup {None}]
      /\ votesReceived' \in [Node -> Nat]
  BY Zenon DEF Reboot, TypeOK
<1>2. nextIndex' \in [Node -> [Node -> Nat \ {0}]]
  <2>1. [p \in Node |-> 1] \in [Node -> Nat \ {0}]
    OBVIOUS
  <2> QED BY Zenon, <2>1 DEF Reboot, TypeOK
<1>3. matchIndex' \in [Node -> [Node -> Nat]]
  <2>1. [p \in Node |-> 0] \in [Node -> Nat]
    BY Zenon
  <2> QED BY Zenon, <2>1 DEF Reboot, TypeOK
<1>4. voteReq' \in SUBSET VoteRequest
  BY Zenon, AbandonedType DEF Reboot, TypeOK
<1>5. appReq' \in SUBSET AppendRequest
  BY Zenon, AbandonedType DEF Reboot, TypeOK
<1>6. /\ voteRep' \in SUBSET VoteReply
      /\ appRep' \in SUBSET AppendReply
      /\ elected' \in SUBSET [term : Nat, node : Node]
      /\ committed' \in Seq(Entry)
  BY Zenon DEF Reboot, TypeOK
<1>7. faults' \in Nat
  BY DEF Reboot, Fault, TypeOK
<1> QED BY Zenon, <1>1, <1>2, <1>3, <1>4, <1>5, <1>6, <1>7

\* The term at an index of a log is a number.
LEMMA TermAtType ==
  ASSUME NEW lg \in Seq(Entry), NEW k \in 0..Len(lg)
  PROVE  TermAt(lg, k) \in Nat
<1>1. CASE k = 0
  BY Zenon, <1>1 DEF TermAt
<1>2. CASE k # 0
  <2>1. lg[k] \in Entry
    BY <1>2
  <2> QED BY Zenon, <1>2, <2>1 DEF TermAt, Entry
<1> QED BY Zenon, <1>1, <1>2

\* startElection and the vote handlers keep the types.
LEMMA VoteStepsType ==
  ASSUME SetFacts, TypeOK
  PROVE  /\ \A i \in Node : StartElection(i) => TypeOK'
         /\ \A m \in voteReq : OnRequestVote(m) => TypeOK'
         /\ \A r \in voteRep : OnVoteReply(r) => TypeOK'
         /\ VoteCallFails => TypeOK'
<1>1. ASSUME NEW i \in Node, StartElection(i) PROVE TypeOK'
  <2> DEFINE term == currentTerm[i] + 1
  <2>1. term \in Nat
    BY DEF TypeOK
  <2>2. /\ currentTerm' \in [Node -> Nat]
        /\ votedFor' \in [Node -> Node \cup {None}]
        /\ votesReceived' \in [Node -> Nat]
    BY Zenon, <1>1, <2>1 DEF StartElection, TypeOK
  <2>3. votes' \in SUBSET [voter : Node, term : Nat, candidate : Node]
    BY <1>1, <2>1 DEF StartElection, TypeOK
  <2>4. UNCHANGED <<voteRep, appReq, appRep, faults>>
    BY Zenon, <1>1 DEF StartElection
  <2>5. CASE BecomeLeader(i, term) /\ UNCHANGED voteReq
    <3>1. /\ role' \in [Node -> {"follower", "candidate", "leader"}]
          /\ leaderHint' \in [Node -> Node \cup {None}]
          /\ nextIndex' \in [Node -> [Node -> Nat \ {0}]]
          /\ matchIndex' \in [Node -> [Node -> Nat]]
          /\ log' \in [Node -> Seq(Entry)]
          /\ commitIndex' \in [Node -> Nat]
          /\ committed' \in Seq(Entry)
          /\ elected' \in SUBSET [term : Nat, node : Node]
      BY Zenon, <2>1, <2>5, BecomeLeaderType
    <3> QED BY Zenon, <2>2, <2>3, <2>4, <2>5, <3>1 DEF TypeOK
  <2>6. CASE /\ role' = [role EXCEPT ![i] = "candidate"]
             /\ leaderHint' = [leaderHint EXCEPT ![i] = None]
             /\ voteReq' = voteReq \cup
                             {VoteRequestTo(i, p, term) : p \in Node \ {i}}
             /\ UNCHANGED <<log, commitIndex, leaderVars, elected, committed>>
    <3>1. log[i] \in Seq(Entry) /\ Len(log[i]) \in Nat
      BY DEF TypeOK
    <3>2. LastTerm(log[i]) \in Nat
      BY <3>1, TermAtType DEF LastTerm
    <3>3. \A p \in Node : VoteRequestTo(i, p, term) \in VoteRequest
      BY Zenon, <2>1, <3>1, <3>2 DEF VoteRequestTo, VoteRequest
    <3>4. voteReq' \in SUBSET VoteRequest
      BY Zenon, <2>6, <3>3 DEF TypeOK
    <3>5. /\ role' \in [Node -> {"follower", "candidate", "leader"}]
          /\ leaderHint' \in [Node -> Node \cup {None}]
      BY Zenon, <2>6 DEF TypeOK
    <3> QED BY Zenon, <2>2, <2>3, <2>4, <2>6, <3>4, <3>5 DEF TypeOK
  <2> QED BY Zenon, <1>1, <2>5, <2>6 DEF StartElection
<1>2. ASSUME NEW m \in voteReq, OnRequestVote(m) PROVE TypeOK'
  <2>1. m \in VoteRequest
    BY Zenon DEF TypeOK
  <2>2. /\ currentTerm' \in [Node -> Nat]
        /\ role' \in [Node -> {"follower", "candidate", "leader"}]
        /\ leaderHint' \in [Node -> Node \cup {None}]
    BY Zenon, <1>2, <2>1 DEF OnRequestVote, TypeOK, VoteRequest
  <2>3. votedFor' \in [Node -> Node \cup {None}]
    BY Zenon, <1>2, <2>1 DEF OnRequestVote, TypeOK, VoteRequest
  <2>4. votes' \in SUBSET [voter : Node, term : Nat, candidate : Node]
    <3> DEFINE v == [voter |-> m.to, term |-> m.term, candidate |-> m.from]
    <3>1. v \in [voter : Node, term : Nat, candidate : Node]
      BY Zenon, <2>1 DEF VoteRequest
    <3>2. votes' = votes \/ votes' = votes \cup {v}
      BY Zenon, <1>2 DEF OnRequestVote
    <3>3. votes \in SUBSET [voter : Node, term : Nat, candidate : Node]
      BY Zenon DEF TypeOK
    <3> HIDE DEF v
    <3> QED BY Zenon, <3>1, <3>2, <3>3
  <2>5. ASSUME NEW granted \in BOOLEAN
        PROVE  VoteReplyTo(m, currentTerm'[m.to], granted) \in SUBSET VoteReply
    BY <2>1, <2>2 DEF VoteReplyTo, VoteRequest, VoteReply
  <2>6. voteRep' \in SUBSET VoteReply
    <3> DEFINE granted == m.term >= currentTerm[m.to] /\ GrantsVote(m.to, m)
    <3>1. granted \in BOOLEAN
      BY Zenon
    <3>2. voteRep' = voteRep \cup VoteReplyTo(m, currentTerm'[m.to], granted)
      BY Zenon, <1>2 DEF OnRequestVote
    <3> HIDE DEF granted
    <3> QED BY Zenon, <2>5, <3>1, <3>2 DEF TypeOK
  <2>7. /\ voteReq' \in SUBSET VoteRequest
        /\ UNCHANGED <<log, commitIndex, votesReceived, nextIndex, matchIndex,
                       appReq, appRep, elected, committed, faults>>
    BY Zenon, <1>2 DEF OnRequestVote, TypeOK
  <2> QED BY Zenon, <2>2, <2>3, <2>4, <2>6, <2>7 DEF TypeOK
<1>3. ASSUME NEW r \in voteRep, OnVoteReply(r) PROVE TypeOK'
  <2>1. r \in VoteReply /\ r.from \in Node
    BY Zenon DEF TypeOK, VoteReply
  <2> DEFINE i == r.from
             count == votesReceived[i] + 1
  <2>2. /\ voteRep' \in SUBSET VoteReply
        /\ UNCHANGED <<voteReq, appReq, appRep, faults>>
    BY Zenon, <1>3 DEF OnVoteReply, TypeOK
  <2>3. CASE BecomeFollower(i, r.rterm) /\ UNCHANGED votesReceived
    <3>1. r.rterm \in Nat
      BY Zenon, <2>1 DEF VoteReply
    <3> QED BY Zenon, <2>1, <2>2, <2>3, <3>1 DEF BecomeFollower, TypeOK
  <2>4. CASE UNCHANGED <<role, persistent, commitIndex, leaderHint,
                         votesReceived, leaderVars, history>>
    BY Zenon, <2>2, <2>4 DEF TypeOK
  <2>5. CASE /\ votesReceived' = [votesReceived EXCEPT ![i] = count]
             /\ BecomeLeader(i, currentTerm[i])
             /\ UNCHANGED <<currentTerm, votedFor, votes>>
    <3>1. votesReceived' \in [Node -> Nat]
      BY <2>1, <2>5 DEF TypeOK
    <3>2. currentTerm[i] \in Nat
      BY Zenon, <2>1 DEF TypeOK
    <3>3. /\ role' \in [Node -> {"follower", "candidate", "leader"}]
          /\ leaderHint' \in [Node -> Node \cup {None}]
          /\ nextIndex' \in [Node -> [Node -> Nat \ {0}]]
          /\ matchIndex' \in [Node -> [Node -> Nat]]
          /\ log' \in [Node -> Seq(Entry)]
          /\ commitIndex' \in [Node -> Nat]
          /\ committed' \in Seq(Entry)
          /\ elected' \in SUBSET [term : Nat, node : Node]
      BY Zenon, <2>1, <2>5, <3>2, BecomeLeaderType
    <3> QED BY Zenon, <2>2, <2>5, <3>1, <3>3 DEF TypeOK
  <2>6. CASE /\ votesReceived' = [votesReceived EXCEPT ![i] = count]
             /\ UNCHANGED <<role, persistent, commitIndex, leaderHint,
                            leaderVars, history>>
    <3>1. votesReceived' \in [Node -> Nat]
      BY <2>1, <2>6 DEF TypeOK
    <3> QED BY ZenonT(40), <2>2, <2>6, <3>1 DEF TypeOK
  <2> QED BY Zenon, <1>3, <2>3, <2>4, <2>5, <2>6 DEF OnVoteReply
<1>4. ASSUME VoteCallFails PROVE TypeOK'
  <2>1. voteReq' \in SUBSET VoteRequest /\ voteRep' \in SUBSET VoteReply
    BY ZenonT(40), <1>4, AbandonedType DEF VoteCallFails, TypeOK
  <2>2. faults' \in Nat
    BY <1>4 DEF VoteCallFails, Fault, TypeOK
  <2> QED BY Zenon, <1>4, <2>1, <2>2 DEF VoteCallFails, TypeOK
<1> QED BY Zenon, <1>1, <1>2, <1>3, <1>4

\* submit, replicatorLoop and onAppendEntries keep the types.
LEMMA AppendStepsType ==
  ASSUME SetFacts, TypeOK, IndexesInLog, CallsInLog
  PROVE  /\ \A i \in Node : \A c \in Command : Submit(i, c) => TypeOK'
         /\ \A i, p \in Node : SendAppend(i, p) => TypeOK'
         /\ \A m \in appReq : OnAppendEntries(m) => TypeOK'
         /\ \A r \in appRep : OnAppendReply(r) => TypeOK'
         /\ AppendCallFails => TypeOK'
<1>1. ASSUME NEW i \in Node, NEW c \in Command, Submit(i, c) PROVE TypeOK'
  <2> DEFINE lg == Append(log[i], [term |-> currentTerm[i], command |-> c])
             match == [matchIndex[i] EXCEPT ![i] = Len(lg)]
  <2>1. [term |-> currentTerm[i], command |-> c] \in Entry /\ log[i] \in Seq(Entry)
    BY Zenon DEF TypeOK, Entry
  <2>2. lg \in Seq(Entry) /\ Len(lg) \in Nat
    BY <2>1
  <2>3. match \in [Node -> Nat]
    BY Zenon, <2>2 DEF TypeOK
  <2>4. /\ LeaderCommits(i, lg, currentTerm[i], match)
        /\ log' = [log EXCEPT ![i] = lg]
        /\ matchIndex' = [matchIndex EXCEPT ![i] = match]
        /\ UNCHANGED <<role, currentTerm, votedFor, leaderHint, votesReceived,
                       nextIndex, voteReq, voteRep, appReq, appRep, votes,
                       elected, faults>>
    BY Zenon, <1>1 DEF Submit
  <2>5. commitIndex' \in [Node -> Nat] /\ committed' \in Seq(Entry)
    BY Zenon, <2>2, <2>4, LeaderCommitsType
  <2> HIDE DEF lg, match
  <2> QED BY Zenon, <2>2, <2>3, <2>4, <2>5 DEF TypeOK
<1>2. ASSUME NEW i \in Node, NEW p \in Node, SendAppend(i, p) PROVE TypeOK'
  <2> DEFINE prev == nextIndex[i][p] - 1
             m == [from |-> i, to |-> p, term |-> currentTerm[i],
                   prevLogIndex |-> prev, prevLogTerm |-> TermAt(log[i], prev),
                   entries |-> Batch(log[i], prev + 1, MaxBatch),
                   leaderCommit |-> commitIndex[i], live |-> TRUE]
  <2>1. log[i] \in Seq(Entry) /\ nextIndex[i][p] \in Nat \ {0}
    BY Zenon DEF TypeOK
  <2>2. nextIndex[i][p] <= Len(log[i]) + 1
    BY Zenon, <1>2 DEF SendAppend, IndexesInLog
  <2>3. prev \in 0..Len(log[i]) /\ prev + 1 \in 1..(Len(log[i]) + 1)
    BY SMTT(30), <2>1, <2>2
  <2>4. appReq' = appReq \cup {m}
    BY ZenonT(40), <1>2 DEF SendAppend
  <2>5. UNCHANGED <<role, currentTerm, votedFor, log, commitIndex, leaderHint,
                    votesReceived, nextIndex, matchIndex, voteReq, voteRep,
                    appRep, votes, elected, committed, faults>>
    BY Zenon, <1>2 DEF SendAppend
  <2> HIDE DEF prev
  <2>6. TermAt(log[i], prev) \in Nat
    BY Zenon, <2>1, <2>3, TermAtType
  <2>7. Batch(log[i], prev + 1, MaxBatch) \in Seq(Entry)
    BY Zenon, <2>1, <2>3, BatchIs, BoundAssumption
  <2>8. m \in AppendRequest
    BY SMTT(20), <2>3, <2>6, <2>7 DEF AppendRequest, TypeOK
  <2> HIDE DEF m
  <2> QED BY ZenonT(40), <2>4, <2>5, <2>8 DEF TypeOK
<1>3. ASSUME NEW m \in appReq, OnAppendEntries(m) PROVE TypeOK'
  <2> DEFINE i == m.to
             lg == Merge(log[i], m.prevLogIndex, m.entries)
  <2>1. m \in AppendRequest /\ i \in Node /\ m.entries \in Seq(Entry)
    BY ZenonT(40) DEF TypeOK, AppendRequest
  <2>2. log[i] \in Seq(Entry) /\ m.prevLogIndex \in Nat /\ m.term \in Nat
    BY Zenon, <2>1 DEF TypeOK, AppendRequest
  <2>3. ASSUME NEW rterm \in Nat, NEW success \in BOOLEAN, NEW ci \in Nat
        PROVE  AppendReplyTo(m, rterm, success, ci) \in SUBSET AppendReply
    <3>1. m.prevLogIndex + Len(m.entries) \in Nat
      BY <2>1, <2>2
    <3> QED BY <2>1, <3>1 DEF AppendReplyTo, AppendRequest, AppendReply
  <2>4. /\ appReq' \in SUBSET AppendRequest
        /\ UNCHANGED <<votesReceived, nextIndex, matchIndex, voteReq, voteRep,
                       votes, elected, committed, faults>>
    BY Zenon, <1>3 DEF OnAppendEntries, TypeOK
  <2>5. CASE /\ appRep' = appRep \cup AppendReplyTo(m, currentTerm[i], FALSE, 0)
             /\ UNCHANGED <<role, persistent, commitIndex, leaderHint>>
    <3>1. appRep' \in SUBSET AppendReply
      BY Zenon, <2>1, <2>3, <2>5 DEF TypeOK
    <3> QED BY Zenon, <2>4, <2>5, <3>1 DEF TypeOK
  <2>6. CASE /\ currentTerm' = [currentTerm EXCEPT ![i] = m.term]
             /\ votedFor' = [votedFor EXCEPT ![i] =
                  IF m.term > currentTerm[i] THEN None ELSE @]
             /\ role' = [role EXCEPT ![i] = "follower"]
             /\ leaderHint' = [leaderHint EXCEPT ![i] = m.from]
             /\ \/ /\ ~Matches(log[i], m.prevLogIndex, m.prevLogTerm)
                   /\ appRep' = appRep \cup
                        AppendReplyTo(m, m.term, FALSE,
                                      ConflictIndex(log[i], m.prevLogIndex))
                   /\ UNCHANGED <<log, commitIndex>>
                \/ /\ Matches(log[i], m.prevLogIndex, m.prevLogTerm)
                   /\ appRep' = appRep \cup AppendReplyTo(m, m.term, TRUE, 0)
                   /\ log' = [log EXCEPT ![i] = lg]
                   /\ commitIndex' = [commitIndex EXCEPT ![i] =
                        FollowerCommit(@, m.leaderCommit, Len(lg))]
    <3>1. /\ currentTerm' \in [Node -> Nat]
          /\ role' \in [Node -> {"follower", "candidate", "leader"}]
          /\ leaderHint' \in [Node -> Node \cup {None}]
          /\ votedFor' \in [Node -> Node \cup {None}]
      BY Zenon, <2>1, <2>2, <2>6 DEF TypeOK, AppendRequest
    <3>2. CASE /\ ~Matches(log[i], m.prevLogIndex, m.prevLogTerm)
               /\ appRep' = appRep \cup
                    AppendReplyTo(m, m.term, FALSE,
                                  ConflictIndex(log[i], m.prevLogIndex))
               /\ UNCHANGED <<log, commitIndex>>
      <4>1. m.prevLogIndex # 0
        BY <2>2, <3>2 DEF Matches, TermAt, CallsInLog
      <4>2. ConflictIndex(log[i], m.prevLogIndex) \in Nat
        BY <2>2, <4>1, ConflictIndexIs
      <4>3. appRep' \in SUBSET AppendReply
        BY Zenon, <2>2, <2>3, <3>2, <4>2 DEF TypeOK
      <4> QED BY Zenon, <2>4, <3>1, <3>2, <4>3 DEF TypeOK
    <3>3. CASE /\ Matches(log[i], m.prevLogIndex, m.prevLogTerm)
               /\ appRep' = appRep \cup AppendReplyTo(m, m.term, TRUE, 0)
               /\ log' = [log EXCEPT ![i] = lg]
               /\ commitIndex' = [commitIndex EXCEPT ![i] =
                    FollowerCommit(@, m.leaderCommit, Len(lg))]
      <4>1. m.prevLogIndex \in 0..Len(log[i])
        BY <2>2, <3>3 DEF Matches
      <4>2. lg \in Seq(Entry)
        BY Zenon, <2>1, <2>2, <4>1, MergeIs
      <4> HIDE DEF lg
      <4>3. FollowerCommit(commitIndex[i], m.leaderCommit, Len(lg)) \in Nat
        <5>1. commitIndex[i] \in Nat /\ m.leaderCommit \in Nat /\ Len(lg) \in Nat
          BY <2>1, <4>2 DEF TypeOK, AppendRequest
        <5> QED BY Zenon, <5>1, FollowerCommitIs
      <4>4. appRep' \in SUBSET AppendReply
        BY ZenonT(40), <2>2, <2>3, <3>3 DEF TypeOK
      <4>5. log' \in [Node -> Seq(Entry)]
        BY Zenon, <2>1, <3>3, <4>2 DEF TypeOK
      <4>6. commitIndex' \in [Node -> Nat]
        BY Zenon, <2>1, <3>3, <4>3 DEF TypeOK
      <4> QED BY ZenonT(40), <2>4, <3>1, <4>4, <4>5, <4>6 DEF TypeOK
    <3> QED BY Zenon, <2>6, <3>2, <3>3
  <2> QED BY Zenon, <1>3, <2>5, <2>6 DEF OnAppendEntries
<1>4. ASSUME NEW r \in appRep, OnAppendReply(r) PROVE TypeOK'
  <2> DEFINE i == r.from
             match == [matchIndex[i] EXCEPT ![r.to] = Max({@, r.match})]
  <2>1. r \in AppendReply /\ i \in Node /\ r.to \in Node
    BY Zenon DEF TypeOK, AppendReply
  <2>2. /\ appRep' \in SUBSET AppendReply
        /\ UNCHANGED <<votesReceived, voteReq, voteRep, appReq, faults>>
    BY Zenon, <1>4 DEF OnAppendReply, TypeOK
  <2>3. matchIndex[i][r.to] \in Nat /\ r.match \in Nat
    BY Zenon, <2>1 DEF TypeOK, AppendReply
  <2>4. Max({matchIndex[i][r.to], r.match}) \in Nat
    BY Zenon, <2>3, MaxOfTwo
  <2>5. match \in [Node -> Nat]
    BY Zenon, <2>1, <2>4 DEF TypeOK
  <2>6. match[r.to] \in Nat
    BY Zenon, <2>1, <2>5
  <2>7. CASE UNCHANGED <<role, persistent, commitIndex, leaderHint, leaderVars,
                         history>>
    BY Zenon, <2>2, <2>7 DEF TypeOK
  <2>8. CASE BecomeFollower(i, r.rterm)
    <3>1. r.rterm \in Nat
      BY Zenon, <2>1 DEF AppendReply
    <3> QED BY Zenon, <2>1, <2>2, <2>8, <3>1 DEF BecomeFollower, TypeOK
  <2>9. CASE /\ matchIndex' = [matchIndex EXCEPT ![i] = match]
             /\ nextIndex' = [nextIndex EXCEPT ![i][r.to] = match[r.to] + 1]
             /\ LeaderCommits(i, log[i], currentTerm[i], match)
             /\ UNCHANGED <<role, persistent, leaderHint, votes, elected>>
    <3>1. log[i] \in Seq(Entry)
      BY Zenon, <2>1 DEF TypeOK
    <3>2. commitIndex' \in [Node -> Nat] /\ committed' \in Seq(Entry)
      BY Zenon, <2>1, <2>9, <3>1, LeaderCommitsType
    <3> HIDE DEF match
    <3>3. matchIndex' \in [Node -> [Node -> Nat]]
      BY Zenon, <2>1, <2>5, <2>9 DEF TypeOK
    <3>4. match[r.to] + 1 \in Nat \ {0}
      BY <2>6
    <3>5. nextIndex' \in [Node -> [Node -> Nat \ {0}]]
      BY Zenon, <2>1, <2>9, <3>4 DEF TypeOK
    <3> QED BY Zenon, <2>2, <2>9, <3>2, <3>3, <3>5 DEF TypeOK
  <2>10. CASE /\ nextIndex' = [nextIndex EXCEPT ![i][r.to] =
                   BackUp(r.conflictIndex, Len(log[i]))]
              /\ UNCHANGED <<role, persistent, commitIndex, leaderHint,
                             matchIndex, history>>
    <3>1. Len(log[i]) \in Nat /\ r.conflictIndex \in Nat
      BY <2>1 DEF TypeOK, AppendReply
    <3>2. BackUp(r.conflictIndex, Len(log[i])) \in Nat \ {0}
      <4>1. BackUp(r.conflictIndex, Len(log[i])) \in 1..(Len(log[i]) + 1)
        BY Zenon, <3>1, BackUpIs
      <4> QED BY <3>1, <4>1
    <3>3. nextIndex' \in [Node -> [Node -> Nat \ {0}]]
      BY Zenon, <2>1, <2>10, <3>2 DEF TypeOK
    <3> QED BY Zenon, <2>2, <2>10, <3>3 DEF TypeOK
  <2> QED BY Zenon, <1>4, <2>7, <2>8, <2>9, <2>10 DEF OnAppendReply
<1>5. ASSUME AppendCallFails PROVE TypeOK'
  <2>1. appReq' \in SUBSET AppendRequest /\ appRep' \in SUBSET AppendReply
    BY ZenonT(40), <1>5, AbandonedType DEF AppendCallFails, TypeOK
  <2>2. faults' \in Nat
    BY <1>5 DEF AppendCallFails, Fault, TypeOK
  <2> QED BY Zenon, <1>5, <2>1, <2>2 DEF AppendCallFails, TypeOK
<1> QED BY Zenon, <1>1, <1>2, <1>3, <1>4, <1>5

\* A crash keeps the types, whatever the handler had written.
LEMMA CrashesType ==
  ASSUME SetFacts, TypeOK
  PROVE  /\ \A i \in Node : Crash(i) => TypeOK'
         /\ \A i \in Node : CrashInElection(i) => TypeOK'
         /\ \A m \in voteReq \cup appReq : CrashInStepDown(m) => TypeOK'
         /\ \A m \in appReq : CrashInAppend(m) => TypeOK'
<1>1. ASSUME NEW i \in Node, Reboot(i),
             currentTerm' \in [Node -> Nat],
             votedFor' \in [Node -> Node \cup {None}],
             log' \in [Node -> Seq(Entry)],
             votes' \in SUBSET [voter : Node, term : Nat, candidate : Node]
      PROVE  TypeOK'
  BY Zenon, <1>1, RebootType DEF TypeOK
<1>2. ASSUME NEW i \in Node, Crash(i) PROVE TypeOK'
  BY ZenonT(40), <1>1, <1>2 DEF Crash, TypeOK
<1>3. ASSUME NEW i \in Node, CrashInElection(i) PROVE TypeOK'
  <2> DEFINE v == [voter |-> i, term |-> currentTerm[i] + 1, candidate |-> i]
  <2>1. /\ currentTerm' \in [Node -> Nat]
        /\ votedFor' \in [Node -> Node \cup {None}]
        /\ log' \in [Node -> Seq(Entry)]
        /\ Reboot(i)
    BY <1>3 DEF CrashInElection, TypeOK
  <2>2. v \in [voter : Node, term : Nat, candidate : Node]
    BY DEF TypeOK
  <2>3. votes' = votes \cup {v}
    BY Zenon, <1>3 DEF CrashInElection
  <2>4. votes' \in SUBSET [voter : Node, term : Nat, candidate : Node]
    <3> HIDE DEF v
    <3> QED BY Zenon, <2>2, <2>3 DEF TypeOK
  <2> QED BY Zenon, <1>1, <2>1, <2>4
<1>4. ASSUME NEW m \in voteReq \cup appReq, CrashInStepDown(m) PROVE TypeOK'
  <2>1. m.to \in Node /\ m.term \in Nat
    BY Zenon DEF TypeOK, VoteRequest, AppendRequest
  <2>2. /\ currentTerm' \in [Node -> Nat]
        /\ votedFor' \in [Node -> Node \cup {None}]
        /\ log' \in [Node -> Seq(Entry)]
        /\ votes' \in SUBSET [voter : Node, term : Nat, candidate : Node]
        /\ Reboot(m.to)
    BY Zenon, <1>4, <2>1 DEF CrashInStepDown, TypeOK
  <2> QED BY Zenon, <1>1, <2>1, <2>2
<1>5. ASSUME NEW m \in appReq, CrashInAppend(m) PROVE TypeOK'
  <2> DEFINE i == m.to
             kept == Kept(log[i], m.prevLogIndex, m.entries)
             lg == Merge(log[i], m.prevLogIndex, m.entries)
  <2>1. i \in Node /\ m.term \in Nat /\ m.entries \in Seq(Entry)
    BY Zenon DEF TypeOK, AppendRequest
  <2>2. log[i] \in Seq(Entry) /\ m.prevLogIndex \in Nat
    BY ZenonT(40), <2>1 DEF TypeOK, AppendRequest
  <2>3. m.prevLogIndex \in 0..Len(log[i])
    BY <1>5, <2>2 DEF CrashInAppend, Matches
  <2>4. lg \in Seq(Entry)
    BY Zenon, <2>1, <2>2, <2>3, MergeIs
  <2>5. kept \in Nat
    <3>1. kept \in m.prevLogIndex..Len(log[i])
      BY Zenon, <2>1, <2>2, <2>3, KeptIs
    <3> HIDE DEF kept
    <3> QED BY <2>2, <3>1
  <2>6. PICK n \in kept..(Len(lg) - 1) : log' = [log EXCEPT ![i] = SubSeq(lg, 1, n)]
    BY ZenonT(40), <1>5 DEF CrashInAppend
  <2>7. /\ Reboot(i)
        /\ currentTerm' = [currentTerm EXCEPT ![i] = m.term]
        /\ votedFor' = [votedFor EXCEPT ![i] =
             IF m.term > currentTerm[i] THEN None ELSE @]
        /\ votes' = votes
    BY Zenon, <1>5 DEF CrashInAppend
  <2> HIDE DEF kept, lg
  <2>8. n \in 0..Len(lg)
    BY <2>4, <2>5, <2>6
  <2>9. SubSeq(lg, 1, n) \in Seq(Entry)
    BY <2>4, <2>8
  <2>10. log' \in [Node -> Seq(Entry)]
    BY Zenon, <2>1, <2>6, <2>9 DEF TypeOK
  <2>11. /\ currentTerm' \in [Node -> Nat]
         /\ votedFor' \in [Node -> Node \cup {None}]
         /\ votes' \in SUBSET [voter : Node, term : Nat, candidate : Node]
    BY Zenon, <2>1, <2>7 DEF TypeOK
  <2> QED BY Zenon, <1>1, <2>1, <2>7, <2>10, <2>11
<1> QED BY Zenon, <1>2, <1>3, <1>4, <1>5

\* Every step keeps every variable in its type.
LEMMA TypeStep ==
  ASSUME SetFacts, TypeOK, IndexesInLog, CallsInLog, [Next]_vars
  PROVE  TypeOK'
<1>1. CASE UNCHANGED vars
  BY Zenon, <1>1 DEF vars, TypeOK
<1>2. ASSUME NEW i \in Node, RejectSubmit(i) PROVE TypeOK'
  BY Zenon, <1>2 DEF RejectSubmit, vars, TypeOK
<1> QED BY Zenon, <1>1, <1>2, VoteStepsType, AppendStepsType, CrashesType
           DEF Next

-----------------------------------------------------------------------------
(* A leader commits all it may.                                            *)

\* No index of lg above n that advanceCommit may take has a majority.
NoneAbove(n, lg, term, match) ==
  \A x \in (n + 1)..Len(lg) :
    (\A k \in x..Len(lg) : lg[k].term = term)
      => ~(Cardinality({p \in DOMAIN match : match[p] >= x}) >= Majority)

\* advanceCommit goes as far as it may: above the index it returns nothing is
\* left that it could have taken.
LEMMA AdvanceCommitIsMost ==
  ASSUME SetFacts, NEW S, NEW lg \in Seq(S), NEW term, NEW commit \in Nat, NEW match
  PROVE  NoneAbove(AdvanceCommit(lg, term, commit, match, Majority),
                   lg, term, match)
<1> DEFINE T == {n \in (commit + 1)..Len(lg) :
                   /\ \A k \in n..Len(lg) : lg[k].term = term
                   /\ Cardinality({p \in DOMAIN match : match[p] >= n})
                        >= Majority}
           n == AdvanceCommit(lg, term, commit, match, Majority)
<1>1. n = IF T = {} THEN commit ELSE Max(T)
  BY Zenon DEF AdvanceCommit
<1>2. T \in SUBSET Nat /\ Len(lg) \in Nat /\ \A x \in T : x <= Len(lg)
  OBVIOUS
<1>3. ASSUME NEW x \in (n + 1)..Len(lg),
             \A k \in x..Len(lg) : lg[k].term = term,
             Cardinality({p \in DOMAIN match : match[p] >= x}) >= Majority
      PROVE  FALSE
  <2>1. n \in Nat /\ n >= commit
    <3>1. n = commit \/ n \in (commit + 1)..Len(lg)
      BY Zenon, AdvanceCommitIs DEF Agreed
    <3> HIDE DEF n
    <3> QED BY <3>1
  <2>2. x \in (commit + 1)..Len(lg)
    <3> HIDE DEF n
    <3> QED BY <2>1, <1>3
  <2>3. x \in T
    BY Zenon, <1>3, <2>2
  <2>4. n = Max(T)
    BY Zenon, <1>1, <2>3
  <2>5. \A y \in T : Max(T) >= y
    <3> HIDE DEF T
    <3> QED BY Zenon, <1>2, <2>3, MaxIs
  <2>6. n >= x
    BY Zenon, <2>3, <2>4, <2>5
  <2> HIDE DEF n
  <2> QED BY <1>3, <2>1, <2>6
<1> QED BY Zenon, <1>3 DEF NoneAbove

\* In this step node i runs advanceCommit on the log, the term and the match
\* indexes that it has after the step.
Advances(i) ==
  commitIndex'[i] = AdvanceCommit(log'[i], currentTerm'[i], commitIndex[i],
                                  matchIndex'[i], Majority)

\* The only writes to commitIndex_ that a leader survives are advanceCommit's.
LEMMA CommitIndexSteps ==
  ASSUME TypeOK, [Next]_vars, NEW i \in Node, role'[i] = "leader"
  PROVE  commitIndex'[i] = commitIndex[i] \/ Advances(i)
<1> DEFINE OK == commitIndex'[i] = commitIndex[i] \/ Advances(i)
<1>0. /\ currentTerm \in [Node -> Nat] /\ commitIndex \in [Node -> Nat]
      /\ role \in [Node -> {"follower", "candidate", "leader"}]
      /\ DOMAIN log = Node /\ log = [j \in Node |-> log[j]]
      /\ DOMAIN matchIndex = Node /\ matchIndex = [j \in Node |-> matchIndex[j]]
  BY Zenon DEF TypeOK
<1>1. ASSUME commitIndex' = commitIndex PROVE OK
  BY Zenon, <1>1
<1>2. ASSUME NEW j \in Node, j # i, NEW lg, NEW t, NEW match,
             LeaderCommits(j, lg, t, match)
      PROVE  commitIndex'[i] = commitIndex[i]
  BY Zenon, <1>0, <1>2 DEF LeaderCommits
<1>3. ASSUME NEW lg, NEW t, NEW match, LeaderCommits(i, lg, t, match),
             log'[i] = lg, currentTerm'[i] = t, matchIndex'[i] = match
      PROVE  Advances(i)
  <2>1. commitIndex' = [commitIndex EXCEPT ![i] =
                          AdvanceCommit(lg, t, commitIndex[i], match, Majority)]
    BY Zenon, <1>3 DEF LeaderCommits
  <2> QED BY Zenon, <1>0, <1>3, <2>1 DEF Advances
<1>4. ASSUME NEW j \in Node, NEW t, BecomeLeader(j, t), currentTerm'[j] = t
      PROVE  OK
  <2> DEFINE lg == Append(log[j], [term |-> t, command |-> NoOp])
             match == [p \in Node |-> IF p = j THEN Len(lg) ELSE 0]
  <2>1. /\ LeaderCommits(j, lg, t, match)
        /\ log' = [log EXCEPT ![j] = lg]
        /\ matchIndex' = [matchIndex EXCEPT ![j] = match]
    BY Zenon, <1>4 DEF BecomeLeader
  <2> HIDE DEF lg, match
  <2>2. log'[j] = lg /\ matchIndex'[j] = match
    BY Zenon, <1>0, <2>1
  <2>3. CASE j = i
    BY Zenon, <1>3, <1>4, <2>1, <2>2, <2>3
  <2>4. CASE j # i
    BY Zenon, <1>2, <2>1, <2>4
  <2> QED BY Zenon, <2>3, <2>4
<1>5. ASSUME NEW j \in Node, StartElection(j) PROVE OK
  <2>1. currentTerm'[j] = currentTerm[j] + 1
    BY Zenon, <1>0, <1>5 DEF StartElection
  <2>2. BecomeLeader(j, currentTerm[j] + 1) \/ commitIndex' = commitIndex
    BY Zenon, <1>5 DEF StartElection
  <2> HIDE DEF OK
  <2> QED BY Zenon, <1>1, <1>4, <2>1, <2>2
<1>6. ASSUME NEW j \in Node, NEW c \in Command, Submit(j, c) PROVE OK
  <2> DEFINE lg == Append(log[j], [term |-> currentTerm[j], command |-> c])
             match == [matchIndex[j] EXCEPT ![j] = Len(lg)]
  <2>1. /\ LeaderCommits(j, lg, currentTerm[j], match)
        /\ log' = [log EXCEPT ![j] = lg]
        /\ matchIndex' = [matchIndex EXCEPT ![j] = match]
        /\ currentTerm' = currentTerm
    BY Zenon, <1>6 DEF Submit
  <2> HIDE DEF lg, match
  <2>2. log'[j] = lg /\ matchIndex'[j] = match /\ currentTerm'[j] = currentTerm[j]
    BY Zenon, <1>0, <2>1
  <2>3. CASE j = i
    BY Zenon, <1>3, <2>1, <2>2, <2>3
  <2>4. CASE j # i
    BY Zenon, <1>2, <2>1, <2>4
  <2> QED BY Zenon, <2>3, <2>4
<1>7. ASSUME NEW r \in appRep, OnAppendReply(r) PROVE OK
  <2> DEFINE match == [matchIndex[r.from] EXCEPT ![r.to] = Max({@, r.match})]
  <2>1. r.from \in Node
    BY Zenon, FieldTypes
  <2>2. \/ commitIndex' = commitIndex
        \/ /\ LeaderCommits(r.from, log[r.from], currentTerm[r.from], match)
           /\ matchIndex' = [matchIndex EXCEPT ![r.from] = match]
           /\ UNCHANGED persistent
    BY ZenonT(40), <1>7 DEF OnAppendReply, BecomeFollower
  <2> HIDE DEF match
  <2>3. CASE /\ LeaderCommits(r.from, log[r.from], currentTerm[r.from], match)
             /\ matchIndex' = [matchIndex EXCEPT ![r.from] = match]
             /\ UNCHANGED persistent
    <3>1. log' = log /\ currentTerm' = currentTerm
      BY Zenon, <2>3
    <3>2. matchIndex'[r.from] = match
      BY Zenon, <1>0, <2>1, <2>3
    <3>3. CASE r.from = i
      BY Zenon, <1>3, <2>3, <3>1, <3>2, <3>3
    <3>4. CASE r.from # i
      BY Zenon, <1>2, <2>1, <2>3, <3>4
    <3> QED BY Zenon, <3>3, <3>4
  <2> QED BY Zenon, <1>1, <2>2, <2>3
<1>8. ASSUME NEW r \in voteRep, OnVoteReply(r) PROVE OK
  <2>1. r.from \in Node
    BY Zenon, FieldTypes
  <2>2. \/ commitIndex' = commitIndex
        \/ /\ BecomeLeader(r.from, currentTerm[r.from])
           /\ UNCHANGED currentTerm
    BY Zenon, <1>8 DEF OnVoteReply, BecomeFollower
  <2> HIDE DEF OK
  <2> QED BY Zenon, <1>1, <1>4, <2>1, <2>2
<1>9. ASSUME NEW m \in appReq, OnAppendEntries(m) PROVE OK
  <2>1. m.to \in Node
    BY Zenon, FieldTypes
  <2> DEFINE n == FollowerCommit(commitIndex[m.to], m.leaderCommit,
                    Len(Merge(log[m.to], m.prevLogIndex, m.entries)))
  <2>2. \/ commitIndex' = commitIndex
        \/ /\ role' = [role EXCEPT ![m.to] = "follower"]
           /\ commitIndex' = [commitIndex EXCEPT ![m.to] = n]
    BY ZenonT(40), <1>9 DEF OnAppendEntries
  <2> HIDE DEF n
  <2> QED BY Zenon, <1>0, <2>1, <2>2
<1>10. ASSUME NEW j \in Node, Reboot(j) PROVE OK
  BY Zenon, <1>0, <1>10 DEF Reboot
<1>11. ASSUME NEW m \in voteReq \cup appReq,
              CrashInStepDown(m) \/ CrashInAppend(m)
       PROVE  OK
  <2>1. m.to \in Node
    BY Zenon, FieldTypes
  <2> HIDE DEF OK
  <2> QED BY Zenon, <1>10, <1>11, <2>1 DEF CrashInStepDown, CrashInAppend
<1>12. ASSUME \/ \E j \in Node : RejectSubmit(j)
              \/ \E j, p \in Node : SendAppend(j, p)
              \/ \E m \in voteReq : OnRequestVote(m)
              \/ VoteCallFails
              \/ AppendCallFails
              \/ UNCHANGED vars
       PROVE  commitIndex' = commitIndex
  BY Zenon, <1>12 DEF RejectSubmit, SendAppend, OnRequestVote, VoteCallFails,
     AppendCallFails, vars
<1> HIDE DEF OK
<1>13. ASSUME NEW j \in Node, Crash(j) \/ CrashInElection(j) PROVE OK
  BY Zenon, <1>10, <1>13 DEF Crash, CrashInElection
<1>14. OK
  BY Zenon, <1>1, <1>5, <1>6, <1>7, <1>8, <1>9, <1>11, <1>12, <1>13 DEF Next
<1> QED BY Zenon, <1>14 DEF OK

\* Node i stays leader with all that decides how far it may commit.
KeepsCommit(i) ==
  /\ role[i] = "leader" /\ currentTerm'[i] = currentTerm[i]
  /\ log'[i] = log[i] /\ matchIndex'[i] = matchIndex[i]
  /\ commitIndex'[i] = commitIndex[i]

\* Every handler that may let a leader commit more runs advanceCommit before it
\* releases the mutex.
LEMMA LeaderAdvances ==
  ASSUME TypeOK, [Next]_vars, WonByMajority, LeadersElected,
         NEW i \in Node, role'[i] = "leader"
  PROVE  KeepsCommit(i) \/ Advances(i)
<1> DEFINE OK == KeepsCommit(i) \/ Advances(i)
<1>0. /\ currentTerm \in [Node -> Nat] /\ commitIndex \in [Node -> Nat]
      /\ DOMAIN log = Node /\ log = [j \in Node |-> log[j]]
      /\ DOMAIN matchIndex = Node /\ matchIndex = [j \in Node |-> matchIndex[j]]
  BY Zenon DEF TypeOK
<1>1. commitIndex'[i] = commitIndex[i] \/ Advances(i)
  BY Zenon, CommitIndexSteps
<1>2. ASSUME NEW lg, NEW t, NEW match, LeaderCommits(i, lg, t, match),
             log'[i] = lg, currentTerm'[i] = t, matchIndex'[i] = match
      PROVE  OK
  <2>1. commitIndex' = [commitIndex EXCEPT ![i] =
                          AdvanceCommit(lg, t, commitIndex[i], match, Majority)]
    BY Zenon, <1>2 DEF LeaderCommits
  <2> QED BY Zenon, <1>0, <1>2, <2>1 DEF Advances
<1>3. CASE StaysLeader(i)
  BY Zenon, <1>1, <1>3 DEF StaysLeader, KeepsCommit
<1>4. CASE BecomesLeader(i)
  <2> DEFINE t == currentTerm'[i]
             lg == Append(log[i], [term |-> t, command |-> NoOp])
             match == [p \in Node |-> IF p = i THEN Len(lg) ELSE 0]
  <2>1. /\ LeaderCommits(i, lg, t, match)
        /\ log' = [log EXCEPT ![i] = lg]
        /\ matchIndex' = [matchIndex EXCEPT ![i] = match]
    BY Zenon, <1>4 DEF BecomesLeader, BecomeLeader
  <2> HIDE DEF lg, match
  <2>2. log'[i] = lg /\ matchIndex'[i] = match
    BY Zenon, <1>0, <2>1
  <2> QED BY Zenon, <1>2, <2>1, <2>2
<1>5. ASSUME NEW c \in Command, Submit(i, c) PROVE OK
  <2> DEFINE lg == Append(log[i], [term |-> currentTerm[i], command |-> c])
             match == [matchIndex[i] EXCEPT ![i] = Len(lg)]
  <2>1. /\ LeaderCommits(i, lg, currentTerm[i], match)
        /\ log' = [log EXCEPT ![i] = lg]
        /\ matchIndex' = [matchIndex EXCEPT ![i] = match]
        /\ currentTerm' = currentTerm
    BY Zenon, <1>5 DEF Submit
  <2> HIDE DEF lg, match
  <2>2. log'[i] = lg /\ matchIndex'[i] = match /\ currentTerm'[i] = currentTerm[i]
    BY Zenon, <1>0, <2>1
  <2> QED BY Zenon, <1>2, <2>1, <2>2
<1>6. ASSUME NEW r \in appRep, r.from = i, role[i] = "leader", OnAppendReply(r)
      PROVE  OK
  <2> DEFINE match == [matchIndex[i] EXCEPT ![r.to] = Max({@, r.match})]
  <2>1. \/ role' = [role EXCEPT ![i] = "follower"]
        \/ /\ LeaderCommits(i, log[i], currentTerm[i], match)
           /\ matchIndex' = [matchIndex EXCEPT ![i] = match]
           /\ UNCHANGED persistent
        \/ UNCHANGED <<persistent, matchIndex, commitIndex>>
    BY ZenonT(40), <1>6 DEF OnAppendReply, BecomeFollower
  <2> HIDE DEF match
  <2>2. CASE role' = [role EXCEPT ![i] = "follower"]
    <3>1. role'[i] = "follower"
      BY Zenon, <2>2 DEF TypeOK
    <3> QED BY Zenon, <3>1
  <2>3. CASE /\ LeaderCommits(i, log[i], currentTerm[i], match)
             /\ matchIndex' = [matchIndex EXCEPT ![i] = match]
             /\ UNCHANGED persistent
    <3>1. log' = log /\ currentTerm' = currentTerm
      BY Zenon, <2>3
    <3>2. matchIndex'[i] = match
      BY Zenon, <1>0, <2>3
    <3> QED BY Zenon, <1>2, <2>3, <3>1, <3>2
  <2>4. CASE UNCHANGED <<persistent, matchIndex, commitIndex>>
    BY Zenon, <1>6, <2>4 DEF KeepsCommit
  <2> QED BY Zenon, <2>1, <2>2, <2>3, <2>4
<1> HIDE DEF OK
<1>7. OK
  BY Zenon, <1>3, <1>4, <1>5, <1>6, LeaderSteps DEF OK
<1> QED BY Zenon, <1>7 DEF OK

\* A step leaves no leader behind with something to commit.
LEMMA NothingLeftStep ==
  ASSUME SetFacts, TypeOK, TypeOK', [Next]_vars, WonByMajority, LeadersElected,
         NothingLeftToCommit
  PROVE  NothingLeftToCommit'
<1>1. ASSUME NEW i \in Node, role'[i] = "leader",
             NEW n \in (commitIndex'[i] + 1)..Len(log'[i]),
             \A k \in n..Len(log'[i]) : log'[i][k].term = currentTerm'[i]
      PROVE  Cardinality({p \in Node : matchIndex'[i][p] >= n}) < Majority
  <2>1. CASE KeepsCommit(i)
    <3>1. Cardinality({p \in Node : matchIndex[i][p] >= n}) < Majority
      BY Zenon, <1>1, <2>1 DEF KeepsCommit, NothingLeftToCommit
    <3> QED BY Zenon, <2>1, <3>1 DEF KeepsCommit
  <2>2. CASE Advances(i)
    <3>1. /\ log'[i] \in Seq(Entry) /\ commitIndex[i] \in Nat
          /\ DOMAIN matchIndex'[i] = Node
      BY Zenon DEF TypeOK
    <3>2. NoneAbove(commitIndex'[i], log'[i], currentTerm'[i], matchIndex'[i])
      BY Zenon, <2>2, <3>1, AdvanceCommitIsMost DEF Advances
    <3> DEFINE H == {p \in Node : matchIndex'[i][p] >= n}
    <3>3. ~(Cardinality(H) >= Majority)
      BY Zenon, <1>1, <3>1, <3>2 DEF NoneAbove
    <3>4. Cardinality(H) \in Nat
      BY Zenon, NodeSets, H \in SUBSET Node
    <3> HIDE DEF H
    <3>5. Cardinality(H) < Majority
      BY <3>3, <3>4, MajorityType
    <3> QED BY Zenon, <3>5 DEF H
  <2> QED BY Zenon, <1>1, <2>1, <2>2, LeaderAdvances
<1> QED BY Zenon, <1>1 DEF NothingLeftToCommit

=============================================================================

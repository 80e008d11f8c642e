------------------------------ MODULE RaftLog ------------------------------
(***************************************************************************)
(* The pure part of raft.cpp: what RaftNode computes from one log, without *)
(* touching any other state.  A log is the sequence of entries from index  *)
(* 1 on; the sentinel {0, ""} that log_ keeps at index 0 is the value 0    *)
(* that TermAt gives for index 0.                                          *)
(***************************************************************************)
EXTENDS Integers, Sequences, FiniteSets, FiniteSetsExt

\* The sequences s and t both have a k-th element, the same one, for k up to n.
SameUpTo(s, t, n) ==
  n <= Len(s) /\ n <= Len(t) /\ \A k \in 1..n : s[k] = t[k]

\* log_[k].term, the sentinel included.
TermAt(lg, k) == IF k = 0 THEN 0 ELSE lg[k].term

\* RaftNode::lastLogTerm.
LastTerm(lg) == TermAt(lg, Len(lg))

\* Mutant: the length of the log decides, whatever the terms.
UpToDate_LengthOnly(lastTerm, lastIndex, lg) == lastIndex >= Len(lg)

\* logOk in onRequestVote: a candidate's last entry against the voter's log.
UpToDate(lastTerm, lastIndex, lg) ==
  \/ lastTerm > LastTerm(lg)
  \/ lastTerm = LastTerm(lg) /\ lastIndex >= Len(lg)

\* Mutant: an entry of another term at prev passes the check.
Matches_NoTerm(lg, prev, prevTerm) == prev <= Len(lg)

\* The consistency check of onAppendEntries.
Matches(lg, prev, prevTerm) ==
  prev <= Len(lg) /\ TermAt(lg, prev) = prevTerm

\* Mutant: a short log sends the leader back to where it already was.
ConflictIndex_Stuck(lg, prev) == prev + 1

\* The hint of a failed consistency check: one past the end of a log that is
\* too short, or the first index of the run of entries of the term found at
\* prev.
ConflictIndex(lg, prev) ==
  IF prev > Len(lg)
  THEN Len(lg) + 1
  ELSE Min({c \in 1..prev : \A k \in c..prev : lg[k].term = lg[prev].term})

\* The positions in es at which the first loop over args.entries stops: past
\* the end of the log, or at an entry of another term.
Fresh(lg, prev, es) ==
  {k \in 1..Len(es) : prev + k > Len(lg) \/ lg[prev + k].term # es[k].term}

\* The number of entries of lg that accepting es after prev leaves in place.
Kept(lg, prev, es) ==
  LET fresh == Fresh(lg, prev, es)
  IN  IF fresh = {} THEN Len(lg) ELSE prev + Min(fresh) - 1

\* Mutant: the log is always cut at prev, so a late retransmission undoes what
\* was appended since.
Merge_AlwaysCuts(lg, prev, es) == SubSeq(lg, 1, prev) \o es

\* The log after onAppendEntries accepts es: nothing happens when every entry
\* is already there, else the log is cut at the first divergence and the rest
\* of es is pushed back.
Merge(lg, prev, es) ==
  LET kept == Kept(lg, prev, es)
  IN  SubSeq(lg, 1, kept) \o SubSeq(es, kept - prev + 1, Len(es))

\* args.entries as replicatorLoop builds it, from next on and at most max long.
Batch(lg, next, max) == SubSeq(lg, next, Min({Len(lg), next + max - 1}))

\* Mutant: entries of earlier terms are committed by counting replicas.
AdvanceCommit_AnyTerm(lg, term, commit, match, majority) ==
  LET agreed == {n \in (commit + 1)..Len(lg) :
                   Cardinality({p \in DOMAIN match : match[p] >= n})
                     >= majority}
  IN  IF agreed = {} THEN commit ELSE Max(agreed)

\* Mutant: one replica short of a majority is enough.
AdvanceCommit_Minority(lg, term, commit, match, majority) ==
  AdvanceCommit_AnyTerm(lg, term, commit, match, majority - 1)

\* The new commitIndex_ of advanceCommit: the highest index above commit that
\* a majority holds, counting only down to the first entry of another term.
AdvanceCommit(lg, term, commit, match, majority) ==
  LET agreed == {n \in (commit + 1)..Len(lg) :
                   /\ \A k \in n..Len(lg) : lg[k].term = term
                   /\ Cardinality({p \in DOMAIN match : match[p] >= n})
                        >= majority}
  IN  IF agreed = {} THEN commit ELSE Max(agreed)

\* Mutant: once the leader commits more, the follower commits all of its log.
FollowerCommit_WholeLog(commit, leaderCommit, lastIndex) ==
  IF leaderCommit > commit THEN lastIndex ELSE commit

\* Mutant: the follower only ever takes over the leader's first commit.
FollowerCommit_Once(commit, leaderCommit, lastIndex) ==
  IF commit = 0 THEN Min({leaderCommit, lastIndex}) ELSE commit

\* The new commitIndex_ of a follower that accepted an AppendEntries.
FollowerCommit(commit, leaderCommit, lastIndex) ==
  IF leaderCommit > commit THEN Min({leaderCommit, lastIndex}) ELSE commit

\* Mutant: nextIndex_ is set to the index before the hint.
BackUp_OneFurther(conflictIndex, lastIndex) ==
  Min({conflictIndex, lastIndex + 1}) - 1

\* The new nextIndex_ after a failed AppendEntries reply.
BackUp(conflictIndex, lastIndex) ==
  Min({Max({conflictIndex, 1}), lastIndex + 1})

=============================================================================

----------------------------- MODULE LocalRaft -----------------------------
(***************************************************************************)
(* What RaftNode promises to the Server of one node: the part of raft.cpp  *)
(* a handler or the applier can tell apart, with the other nodes reduced   *)
(* to what they may do to this one.                                        *)
(*                                                                         *)
(* chosen is the sequence of entries the cluster has committed and         *)
(* appended the entries this node ever pushed back as a leader, each with  *)
(* its index and the term of the entry before it.  Neither is a variable   *)
(* of the code: they say which entries other nodes can hold.               *)
(***************************************************************************)
EXTENDS KVStore

CONSTANTS
  MaxTerm,    \* bound on terms
  MaxLog,     \* bound on the length of a log
  Foreign(_, _)
    \* the command at index n in the logs of the nodes that hold the entry
    \* another leader, that of term t, appended there (Log Matching: one)

VARIABLES
  term,       \* currentTerm_
  leading,    \* role_ is Leader
  log,        \* log_ from index 1 on
  commit,     \* commitIndex_
  chosen,     \* history: what the cluster has committed
  appended    \* history: what this node appended as a leader

raftVars == <<term, leading, log, commit, chosen, appended>>

TermAt(lg, k) == IF k = 0 THEN 0 ELSE lg[k].term

IsPrefixOf(s, t) == Len(s) <= Len(t) /\ \A k \in 1..Len(s) : s[k] = t[k]

\* The terms in which this node was the leader.
Led == {a.entry.term : a \in appended}

\* The entries that can stand at index n in the log of some node, after an
\* entry of term prevTerm: what this node appended there as a leader, or what
\* the leader of another term, at most t, did.
Possible(n, prevTerm, t) ==
  {a.entry : a \in {x \in appended : x.index = n /\ x.prev = prevTerm}}
    \cup {[term |-> f, cmd |-> Foreign(n, f)] :
            f \in (prevTerm..t) \ (Led \cup {0})}

RaftInit ==
  /\ term = 0
  /\ leading = FALSE
  /\ log = <<>>
  /\ commit = 0
  /\ chosen = <<>>
  /\ appended = {}

\* A leader pushes an entry back onto log_.
Push(t, cmd) ==
  /\ Len(log) < MaxLog
  /\ log' = Append(log, [term |-> t, cmd |-> cmd])
  /\ appended' = appended \cup {[index |-> Len(log) + 1,
                                 prev  |-> TermAt(log, Len(log)),
                                 entry |-> [term |-> t, cmd |-> cmd]]}

\* The node wins the election of a later term.  Its log then holds every
\* committed entry, and it appends the no-op of its term.
BecomeLeader(t) ==
  /\ ~leading
  /\ t > term
  /\ IsPrefixOf(chosen, log)
  /\ Push(t, NoOp)
  /\ term' = t
  /\ leading' = TRUE
  /\ UNCHANGED <<commit, chosen>>

\* A later term is heard of: becomeFollower.
StepDown(t) ==
  /\ t > term
  /\ term' = t
  /\ leading' = FALSE
  /\ UNCHANGED <<log, commit, chosen, appended>>

\* onAppendEntries accepts entry e after the first k entries from the leader
\* of the current term: what conflicts is cut off.  The leader's log holds
\* every committed entry.
Accept(k, e) ==
  /\ ~leading
  /\ k \in commit..Len(log)
  /\ k < MaxLog
  /\ k < Len(log) => log[k + 1].term # e.term
  /\ IF k < Len(chosen)
     THEN /\ IsPrefixOf(SubSeq(log, 1, k), chosen)
          /\ e = chosen[k + 1] /\ e.term <= term
     ELSE IsPrefixOf(chosen, log) /\ e \in Possible(k + 1, TermAt(log, k), term)
  /\ log' = Append(SubSeq(log, 1, k), e)
  /\ UNCHANGED <<term, leading, commit, chosen, appended>>

\* commitIndex_ advances: advanceCommit or onAppendEntries.
Commit(n) ==
  /\ n \in (commit + 1)..Len(chosen)
  /\ IsPrefixOf(SubSeq(chosen, 1, n), log)
  /\ commit' = n
  /\ UNCHANGED <<term, leading, log, chosen, appended>>

\* The cluster commits one more entry, of this node or of another.
Choose(e) ==
  /\ Len(chosen) < MaxLog
  /\ e \in Possible(Len(chosen) + 1, TermAt(chosen, Len(chosen)), MaxTerm)
  /\ chosen' = Append(chosen, e)
  /\ UNCHANGED <<term, leading, log, commit, appended>>

RaftStep ==
  \/ \E t \in 1..MaxTerm : BecomeLeader(t) \/ StepDown(t)
  \/ \E k \in 0..Len(log) :
       \E e \in Possible(k + 1, TermAt(log, k), term)
                  \cup {chosen[j] : j \in 1..Len(chosen)} : Accept(k, e)
  \/ \E n \in 1..Len(chosen) : Commit(n)
  \/ \E e \in Possible(Len(chosen) + 1, TermAt(chosen, Len(chosen)), MaxTerm) :
       Choose(e)

=============================================================================

-------------------------------- MODULE Raft --------------------------------
(***************************************************************************)
(* A cluster of RaftNodes (raft.cpp) joined by TcpTransport (transport.cpp) *)
(* and the raft side of Server (server.cpp), each over its own Storage.    *)
(*                                                                         *)
(* Every handler runs under RaftNode::mutex_ from its first read to its    *)
(* last write, so it is one action; the lock is dropped only around an RPC *)
(* and around applyFn_, which are the boundaries between actions here.     *)
(* Deadlines are abstracted: an election may start whenever the ticker     *)
(* would be allowed to start one.                                          *)
(*                                                                         *)
(* Storage is written through inside the handlers, so between two actions  *)
(* the disk holds exactly currentTerm, votedFor and log; a crash inside a  *)
(* handler, between two of its writes, is an action of its own.            *)
(***************************************************************************)
EXTENDS RaftLog

CONSTANTS
  Node,        \* the ids 0 .. clusterSize_ - 1
  None,        \* the -1 of votedFor_ and leaderHint_
  Command,     \* the client commands that may be submitted
  NoOp,        \* the empty command a new leader appends
  MaxBatch,    \* kMaxBatch
  MaxTerm,     \* bound: no election beyond this term
  MaxLog,      \* bound: no append by a leader beyond this length
  MaxCalls,    \* bound: calls that callers wait for at once
  MaxFaults    \* bound: failed calls and crashes

ASSUME NodeAssumption == IsFiniteSet(Node) /\ Node # {} /\ None \notin Node
ASSUME CommandAssumption == NoOp \notin Command
ASSUME BoundAssumption ==
  /\ MaxBatch \in Nat \ {0}
  /\ MaxTerm \in Nat
  /\ MaxLog \in Nat
  /\ MaxCalls \in Nat
  /\ MaxFaults \in Nat

VARIABLES
  role,           \* role_
  currentTerm,    \* currentTerm_, in memory and in the meta file
  votedFor,       \* votedFor_, in memory and in the meta file
  log,            \* log_ without its sentinel, in memory and in the WAL
  commitIndex,    \* commitIndex_
  leaderHint,     \* leaderHint_
  votesReceived,  \* votesReceived_
  nextIndex,      \* nextIndex_
  matchIndex,     \* matchIndex_
  voteReq,        \* RequestVote calls not yet handled by the peer
  voteRep,        \* their replies, not yet taken by the caller
  appReq,         \* AppendEntries calls not yet handled by the peer
  appRep,         \* their replies, not yet taken by the caller
  votes,          \* history: every vote ever granted
  elected,        \* history: every election ever won
  committed,      \* history: the longest log prefix a leader ever committed
  faults          \* the number of faults so far

persistent == <<currentTerm, votedFor, log>>
leaderVars == <<nextIndex, matchIndex>>
voteCalls == <<voteReq, voteRep>>
appCalls == <<appReq, appRep>>
history == <<votes, elected, committed>>
vars == <<role, persistent, commitIndex, leaderHint, votesReceived, leaderVars,
          voteCalls, appCalls, history, faults>>

Entry == [term : Nat, command : Command \cup {NoOp}]

\* A call: its arguments, and whether its caller still waits for the reply.
VoteRequest == [from : Node, to : Node, term : Nat, lastLogIndex : Nat,
                lastLogTerm : Nat, live : BOOLEAN]
AppendRequest == [from : Node, to : Node, term : Nat, prevLogIndex : Nat,
                  prevLogTerm : Nat, entries : Seq(Entry), leaderCommit : Nat,
                  live : BOOLEAN]

\* A reply, with those arguments that the waiting caller still uses.
VoteReply == [from : Node, to : Node, term : Nat, rterm : Nat,
              granted : BOOLEAN]
AppendReply == [from : Node, to : Node, term : Nat, match : Nat, rterm : Nat,
                success : BOOLEAN, conflictIndex : Nat]

\* RaftNode::majority.
Majority == Cardinality(Node) \div 2 + 1

-----------------------------------------------------------------------------
(* Transport: one TCP connection per call, so a request is handled at most  *)
(* once and its reply reaches only the thread that waits for it.            *)

\* The bound on calls leaves room for n more.
RoomFor(n) ==
  Cardinality({m \in voteReq : m.live}) + Cardinality(voteRep)
    + Cardinality({m \in appReq : m.live}) + Cardinality(appRep) + n <= MaxCalls

\* What is left of the requests S when those in C have lost their callers:
\* each is lost, or is in the peer's socket (in kept) and is handled unheard.
Abandoned(S, C, kept) ==
  (S \ C) \cup {[m EXCEPT !.live = FALSE] : m \in kept}

\* One more fault of the bounded number a behaviour may have.
Fault == faults < MaxFaults /\ faults' = faults + 1

\* call() returns nullopt to a vote sender, which ends: the request was lost,
\* or is handled after the timeout, or the reply was lost.
VoteCallFails ==
  /\ Fault
  /\ \/ \E m \in voteReq : \E kept \in SUBSET {m} :
          /\ m.live
          /\ voteReq' = Abandoned(voteReq, {m}, kept)
          /\ UNCHANGED voteRep
     \/ \E r \in voteRep : voteRep' = voteRep \ {r} /\ UNCHANGED voteReq
  /\ UNCHANGED <<role, persistent, commitIndex, leaderHint, votesReceived,
                 leaderVars, appCalls, history>>

\* call() returns nullopt to a replicator, which will build a new request.
AppendCallFails ==
  /\ Fault
  /\ \/ \E m \in appReq : \E kept \in SUBSET {m} :
          /\ m.live
          /\ appReq' = Abandoned(appReq, {m}, kept)
          /\ UNCHANGED appRep
     \/ \E r \in appRep : appRep' = appRep \ {r} /\ UNCHANGED appReq
  /\ UNCHANGED <<role, persistent, commitIndex, leaderHint, votesReceived,
                 leaderVars, voteCalls, history>>

-----------------------------------------------------------------------------
(* Elections.                                                               *)

\* Mutant: advanceCommit runs before matchIndex_ is updated.
LeaderCommits_Early(i, lg, term, match) ==
  /\ commitIndex' = [commitIndex EXCEPT ![i] =
       AdvanceCommit(lg, term, @, matchIndex[i], Majority)]
  /\ UNCHANGED committed

\* Leader i of the given term, with log lg and match indexes match, runs
\* advanceCommit: only here are entries decided, followers are told of them.
LeaderCommits(i, lg, term, match) ==
  LET n == AdvanceCommit(lg, term, commitIndex[i], match, Majority)
  IN  /\ commitIndex' = [commitIndex EXCEPT ![i] = n]
      /\ committed' = IF n > commitIndex[i] /\ n > Len(committed)
                      THEN SubSeq(lg, 1, n)
                      ELSE committed

\* becomeLeader, for a node whose term is term: the no-op is appended after
\* nextIndex_ is filled, and is committed at once in a cluster of one.
BecomeLeader(i, term) ==
  LET lg == Append(log[i], [term |-> term, command |-> NoOp])
      match == [p \in Node |-> IF p = i THEN Len(lg) ELSE 0]
  IN  /\ Len(log[i]) < MaxLog
      /\ role' = [role EXCEPT ![i] = "leader"]
      /\ leaderHint' = [leaderHint EXCEPT ![i] = i]
      /\ nextIndex' = [nextIndex EXCEPT ![i] = [p \in Node |-> Len(log[i]) + 1]]
      /\ matchIndex' = [matchIndex EXCEPT ![i] = match]
      /\ log' = [log EXCEPT ![i] = lg]
      /\ LeaderCommits(i, lg, term, match)
      /\ elected' = elected \cup {[term |-> term, node |-> i]}

\* The RequestVote call startElection makes to one peer.
VoteRequestTo(i, p, term) ==
  [from |-> i, to |-> p, term |-> term, lastLogIndex |-> Len(log[i]),
   lastLogTerm |-> LastTerm(log[i]), live |-> TRUE]

\* tickerLoop finds the deadline passed and runs startElection.
StartElection(i) ==
  LET term == currentTerm[i] + 1
  IN  /\ role[i] # "leader"
      /\ term <= MaxTerm
      /\ RoomFor(Cardinality(Node) - 1)
      /\ currentTerm' = [currentTerm EXCEPT ![i] = term]
      /\ votedFor' = [votedFor EXCEPT ![i] = i]
      /\ votes' = votes \cup {[voter |-> i, term |-> term, candidate |-> i]}
      /\ votesReceived' = [votesReceived EXCEPT ![i] = 1]
      /\ IF 1 >= Majority
         THEN BecomeLeader(i, term) /\ UNCHANGED voteReq
         ELSE /\ role' = [role EXCEPT ![i] = "candidate"]
              /\ leaderHint' = [leaderHint EXCEPT ![i] = None]
              /\ voteReq' = voteReq \cup
                              {VoteRequestTo(i, p, term) : p \in Node \ {i}}
              /\ UNCHANGED <<log, commitIndex, leaderVars, elected, committed>>
      /\ UNCHANGED <<voteRep, appCalls, faults>>

\* Mutant: votedFor_ is not consulted.
GrantsVote_Again(i, m) == UpToDate(m.lastLogTerm, m.lastLogIndex, log[i])

\* canVote and logOk of onRequestVote, for a request of term at least
\* currentTerm: becomeFollower has cleared the vote of an older term.
GrantsVote(i, m) ==
  /\ \/ m.term > currentTerm[i]
     \/ votedFor[i] \in {None, m.from}
  /\ UpToDate(m.lastLogTerm, m.lastLogIndex, log[i])

\* The reply of node m.to, sent back only when the caller still waits.
VoteReplyTo(m, rterm, granted) ==
  IF m.live
  THEN {[from |-> m.from, to |-> m.to, term |-> m.term, rterm |-> rterm,
         granted |-> granted]}
  ELSE {}

\* onRequestVote.
OnRequestVote(m) ==
  LET i == m.to
      newer == m.term > currentTerm[i]
      granted == m.term >= currentTerm[i] /\ GrantsVote(i, m)
  IN  /\ voteReq' = voteReq \ {m}
      /\ currentTerm' = [currentTerm EXCEPT ![i] = IF newer THEN m.term ELSE @]
      /\ votedFor' = [votedFor EXCEPT ![i] =
           IF granted THEN m.from ELSE IF newer THEN None ELSE @]
      /\ role' = [role EXCEPT ![i] = IF newer THEN "follower" ELSE @]
      /\ leaderHint' = [leaderHint EXCEPT ![i] = IF newer THEN None ELSE @]
      /\ votes' = votes \cup
           IF granted
           THEN {[voter |-> i, term |-> m.term, candidate |-> m.from]}
           ELSE {}
      /\ voteRep' = voteRep \cup VoteReplyTo(m, currentTerm'[i], granted)
      /\ UNCHANGED <<log, commitIndex, votesReceived, leaderVars, appCalls,
                     elected, committed, faults>>

\* Mutant: the leader hint of the old term is kept.
BecomeFollower_KeepsHint(i, term) ==
  /\ currentTerm' = [currentTerm EXCEPT ![i] = term]
  /\ votedFor' = [votedFor EXCEPT ![i] = None]
  /\ role' = [role EXCEPT ![i] = "follower"]
  /\ UNCHANGED <<log, commitIndex, leaderHint, leaderVars, history>>

\* becomeFollower(term) for a term above the node's own, as the reply handlers
\* call it.
BecomeFollower(i, term) ==
  /\ currentTerm' = [currentTerm EXCEPT ![i] = term]
  /\ votedFor' = [votedFor EXCEPT ![i] = None]
  /\ leaderHint' = [leaderHint EXCEPT ![i] = None]
  /\ role' = [role EXCEPT ![i] = "follower"]
  /\ UNCHANGED <<log, commitIndex, leaderVars, history>>

\* Mutant: a late vote from an earlier election counts too.
CountsVote_AnyElection(i, r) == role[i] = "candidate" /\ r.granted

\* A vote reply counts for the election it was asked in and no other.
CountsVote(i, r) ==
  role[i] = "candidate" /\ currentTerm[i] = r.term /\ r.granted

\* A vote sender gets its reply.
OnVoteReply(r) ==
  LET i == r.from
      count == votesReceived[i] + 1
  IN  /\ voteRep' = voteRep \ {r}
      /\ \/ /\ r.rterm > currentTerm[i]
            /\ BecomeFollower(i, r.rterm)
            /\ UNCHANGED votesReceived
         \/ /\ r.rterm <= currentTerm[i]
            /\ ~CountsVote(i, r)
            /\ UNCHANGED <<role, persistent, commitIndex, leaderHint,
                           votesReceived, leaderVars, history>>
         \/ /\ r.rterm <= currentTerm[i]
            /\ CountsVote(i, r)
            /\ votesReceived' = [votesReceived EXCEPT ![i] = count]
            /\ \/ /\ count >= Majority
                  /\ BecomeLeader(i, currentTerm[i])
                  /\ UNCHANGED <<currentTerm, votedFor, votes>>
               \/ /\ count < Majority
                  /\ UNCHANGED <<role, persistent, commitIndex, leaderHint,
                                 leaderVars, history>>
      /\ UNCHANGED <<voteReq, appCalls, faults>>

-----------------------------------------------------------------------------
(* Replication.                                                             *)

\* submit accepts a command.
Submit(i, c) ==
  LET lg == Append(log[i], [term |-> currentTerm[i], command |-> c])
      match == [matchIndex[i] EXCEPT ![i] = Len(lg)]
  IN  /\ role[i] = "leader"
      /\ Len(log[i]) < MaxLog
      /\ log' = [log EXCEPT ![i] = lg]
      /\ matchIndex' = [matchIndex EXCEPT ![i] = match]
      /\ LeaderCommits(i, lg, currentTerm[i], match)
      /\ UNCHANGED <<role, currentTerm, votedFor, leaderHint, votesReceived,
                     nextIndex, voteCalls, appCalls, votes, elected, faults>>

\* submit turns a command away: nothing changes, the caller gets leaderHint_.
RejectSubmit(i) == role[i] # "leader" /\ UNCHANGED vars

\* The replicator of (i, p) for i's current term is inside appendEntries().
Replicating(i, p) ==
  \/ \E m \in appReq : /\ m.live
                       /\ m.from = i /\ m.to = p /\ m.term = currentTerm[i]
  \/ \E r \in appRep : r.from = i /\ r.to = p /\ r.term = currentTerm[i]

\* replicatorLoop builds its arguments and makes the call.
SendAppend(i, p) ==
  LET prev == nextIndex[i][p] - 1
  IN  /\ role[i] = "leader"
      /\ p # i
      /\ ~Replicating(i, p)
      /\ RoomFor(1)
      /\ appReq' = appReq \cup
           {[from |-> i, to |-> p, term |-> currentTerm[i],
             prevLogIndex |-> prev, prevLogTerm |-> TermAt(log[i], prev),
             entries |-> Batch(log[i], prev + 1, MaxBatch),
             leaderCommit |-> commitIndex[i], live |-> TRUE]}
      /\ UNCHANGED <<role, persistent, commitIndex, leaderHint, votesReceived,
                     leaderVars, voteCalls, appRep, history, faults>>

\* Mutant: the caller takes the entry after the last one sent as matched.
AppendReplyTo_OneMore(m, rterm, success, conflictIndex) ==
  IF m.live
  THEN {[from |-> m.from, to |-> m.to, term |-> m.term,
         match |-> m.prevLogIndex + Len(m.entries) + 1, rterm |-> rterm,
         success |-> success, conflictIndex |-> conflictIndex]}
  ELSE {}

\* The reply of node m.to, sent back only when the caller still waits.
AppendReplyTo(m, rterm, success, conflictIndex) ==
  IF m.live
  THEN {[from |-> m.from, to |-> m.to, term |-> m.term,
         match |-> m.prevLogIndex + Len(m.entries), rterm |-> rterm,
         success |-> success, conflictIndex |-> conflictIndex]}
  ELSE {}

\* onAppendEntries.
OnAppendEntries(m) ==
  LET i == m.to
      newer == m.term > currentTerm[i]
      lg == Merge(log[i], m.prevLogIndex, m.entries)
  IN  /\ appReq' = appReq \ {m}
      /\ \/ /\ m.term < currentTerm[i]
            /\ appRep' = appRep \cup AppendReplyTo(m, currentTerm[i], FALSE, 0)
            /\ UNCHANGED <<role, persistent, commitIndex, leaderHint>>
         \/ /\ m.term >= currentTerm[i]
            /\ currentTerm' = [currentTerm EXCEPT ![i] = m.term]
            /\ votedFor' = [votedFor EXCEPT ![i] = IF newer THEN None ELSE @]
            /\ role' = [role EXCEPT ![i] = "follower"]
            /\ leaderHint' = [leaderHint EXCEPT ![i] = m.from]
            /\ \/ /\ ~Matches(log[i], m.prevLogIndex, m.prevLogTerm)
                  /\ appRep' = appRep \cup
                       AppendReplyTo(m, m.term, FALSE,
                                     ConflictIndex(log[i], m.prevLogIndex))
                  /\ UNCHANGED <<log, commitIndex>>
               \/ /\ Matches(log[i], m.prevLogIndex, m.prevLogTerm)
                  /\ appRep' = appRep \cup AppendReplyTo(m, m.term, TRUE, 0)
                  /\ log' = [log EXCEPT ![i] = lg]
                  /\ commitIndex' = [commitIndex EXCEPT ![i] =
                       FollowerCommit(@, m.leaderCommit, Len(lg))]
      /\ UNCHANGED <<votesReceived, leaderVars, voteCalls, history, faults>>

\* The replicator of r.term gets its reply: it retires when that term is over,
\* steps down on a higher one, and else moves nextIndex_ and matchIndex_.
OnAppendReply(r) ==
  LET i == r.from
      match == [matchIndex[i] EXCEPT ![r.to] = Max({@, r.match})]
      retired == role[i] # "leader" \/ currentTerm[i] # r.term
  IN  /\ appRep' = appRep \ {r}
      /\ \/ /\ retired
            /\ UNCHANGED <<role, persistent, commitIndex, leaderHint,
                           leaderVars, history>>
         \/ /\ ~retired
            /\ r.rterm > currentTerm[i]
            /\ BecomeFollower(i, r.rterm)
         \/ /\ ~retired
            /\ r.rterm = currentTerm[i]
            /\ r.success
            /\ matchIndex' = [matchIndex EXCEPT ![i] = match]
            /\ nextIndex' = [nextIndex EXCEPT ![i][r.to] = match[r.to] + 1]
            /\ LeaderCommits(i, log[i], currentTerm[i], match)
            /\ UNCHANGED <<role, persistent, leaderHint, votes, elected>>
         \/ /\ ~retired
            /\ r.rterm = currentTerm[i]
            /\ ~r.success
            /\ nextIndex' = [nextIndex EXCEPT ![i][r.to] =
                 BackUp(r.conflictIndex, Len(log[i]))]
            /\ UNCHANGED <<role, persistent, commitIndex, leaderHint,
                           matchIndex, history>>
      /\ UNCHANGED <<votesReceived, voteCalls, appReq, faults>>

-----------------------------------------------------------------------------
(* Crash and restart.                                                       *)

\* The process of node i dies and comes back: the constructor reads term,
\* vote and log from Storage and resets the rest.  Calls to i fail with their
\* connections.  Calls from i have no caller left: of those not yet handled,
\* the peers may still handle the ones in kept.
Reboot(i) ==
  /\ Fault
  /\ role' = [role EXCEPT ![i] = "follower"]
  /\ commitIndex' = [commitIndex EXCEPT ![i] = 0]
  /\ leaderHint' = [leaderHint EXCEPT ![i] = None]
  /\ votesReceived' = [votesReceived EXCEPT ![i] = 0]
  /\ nextIndex' = [nextIndex EXCEPT ![i] = [p \in Node |-> 1]]
  /\ matchIndex' = [matchIndex EXCEPT ![i] = [p \in Node |-> 0]]
  /\ LET open == {m \in voteReq : m.from = i /\ m.live}
     IN  \E kept \in SUBSET open :
           voteReq' = {m \in Abandoned(voteReq, open, kept) : m.to # i}
  /\ LET open == {m \in appReq : m.from = i /\ m.live}
     IN  \E kept \in SUBSET open :
           appReq' = {m \in Abandoned(appReq, open, kept) : m.to # i}
  /\ voteRep' = {r \in voteRep : r.from # i}
  /\ appRep' = {r \in appRep : r.from # i}
  /\ UNCHANGED <<elected, committed>>

\* A crash between two handlers.
Crash(i) == Reboot(i) /\ UNCHANGED <<persistent, votes>>

\* A crash inside startElection after saveMeta: no request has been sent and,
\* in a cluster of one, the no-op is not yet in the WAL.
CrashInElection(i) ==
  /\ currentTerm[i] < MaxTerm
  /\ role[i] # "leader"
  /\ currentTerm' = [currentTerm EXCEPT ![i] = @ + 1]
  /\ votedFor' = [votedFor EXCEPT ![i] = i]
  /\ votes' = votes \cup
       {[voter |-> i, term |-> currentTerm[i] + 1, candidate |-> i]}
  /\ Reboot(i)
  /\ UNCHANGED log

\* A crash inside onRequestVote or onAppendEntries after becomeFollower has
\* saved the new term.
CrashInStepDown(m) ==
  /\ m.term > currentTerm[m.to]
  /\ currentTerm' = [currentTerm EXCEPT ![m.to] = m.term]
  /\ votedFor' = [votedFor EXCEPT ![m.to] = None]
  /\ Reboot(m.to)
  /\ UNCHANGED <<log, votes>>

\* A crash inside onAppendEntries after truncateFrom and before the last of
\* the appends: the WAL holds the entries kept and some of the new ones.
CrashInAppend(m) ==
  LET i == m.to
      kept == Kept(log[i], m.prevLogIndex, m.entries)
      lg == Merge(log[i], m.prevLogIndex, m.entries)
  IN  /\ m.term >= currentTerm[i]
      /\ Matches(log[i], m.prevLogIndex, m.prevLogTerm)
      /\ currentTerm' = [currentTerm EXCEPT ![i] = m.term]
      /\ votedFor' = [votedFor EXCEPT ![i] =
           IF m.term > currentTerm[i] THEN None ELSE @]
      /\ \E n \in kept..(Len(lg) - 1) :
           log' = [log EXCEPT ![i] = SubSeq(lg, 1, n)]
      /\ Reboot(i)
      /\ UNCHANGED votes

-----------------------------------------------------------------------------
Init ==
  /\ role = [i \in Node |-> "follower"]
  /\ currentTerm = [i \in Node |-> 0]
  /\ votedFor = [i \in Node |-> None]
  /\ log = [i \in Node |-> <<>>]
  /\ commitIndex = [i \in Node |-> 0]
  /\ leaderHint = [i \in Node |-> None]
  /\ votesReceived = [i \in Node |-> 0]
  /\ nextIndex = [i \in Node |-> [p \in Node |-> 1]]
  /\ matchIndex = [i \in Node |-> [p \in Node |-> 0]]
  /\ voteReq = {} /\ voteRep = {}
  /\ appReq = {} /\ appRep = {}
  /\ votes = {}
  /\ elected = {}
  /\ committed = <<>>
  /\ faults = 0

Next ==
  \/ \E i \in Node : \/ StartElection(i)
                     \/ \E c \in Command : Submit(i, c)
                     \/ RejectSubmit(i)
                     \/ \E p \in Node : SendAppend(i, p)
                     \/ Crash(i)
                     \/ CrashInElection(i)
  \/ \E m \in voteReq : OnRequestVote(m) \/ CrashInStepDown(m)
  \/ \E r \in voteRep : OnVoteReply(r)
  \/ \E m \in appReq : \/ OnAppendEntries(m)
                       \/ CrashInStepDown(m)
                       \/ CrashInAppend(m)
  \/ \E r \in appRep : OnAppendReply(r)
  \/ VoteCallFails
  \/ AppendCallFails

Spec == Init /\ [][Next]_vars

\* The threads of the processes keep running: a replicator goes round its loop
\* at least once per heartbeat, the connection thread of a peer handles what
\* it has received, and a caller takes the reply that has come.  Nothing is
\* assumed of the ticker or of clients, and faults stay possible until
\* MaxFaults is spent.
Fairness ==
  \A i \in Node : \A p \in Node \ {i} :
    /\ WF_vars(SendAppend(i, p))
    /\ WF_vars(\E m \in appReq : /\ m.from = i /\ m.to = p
                                 /\ OnAppendEntries(m))
    /\ WF_vars(\E r \in appRep : /\ r.from = i /\ r.to = p
                                 /\ OnAppendReply(r))
    /\ WF_vars(\E m \in voteReq : /\ m.from = i /\ m.to = p
                                  /\ OnRequestVote(m))
    /\ WF_vars(\E r \in voteRep : /\ r.from = i /\ r.to = p
                                  /\ OnVoteReply(r))

FairSpec == Spec /\ Fairness

-----------------------------------------------------------------------------
(* Properties.                                                              *)

\* The nodes that voted for c in term t.
Voters(t, c) == {j \in Node : [voter |-> j, term |-> t, candidate |-> c] \in votes}

\* Every variable has its type; nextIndex_ in particular is never 0, which
\* replicatorLoop subtracts 1 from in an unsigned type.
TypeOK ==
  /\ role \in [Node -> {"follower", "candidate", "leader"}]
  /\ currentTerm \in [Node -> Nat]
  /\ votedFor \in [Node -> Node \cup {None}]
  /\ log \in [Node -> Seq(Entry)]
  /\ commitIndex \in [Node -> Nat]
  /\ leaderHint \in [Node -> Node \cup {None}]
  /\ votesReceived \in [Node -> Nat]
  /\ nextIndex \in [Node -> [Node -> Nat \ {0}]]
  /\ matchIndex \in [Node -> [Node -> Nat]]
  /\ voteReq \in SUBSET VoteRequest
  /\ voteRep \in SUBSET VoteReply
  /\ appReq \in SUBSET AppendRequest
  /\ appRep \in SUBSET AppendReply
  /\ votes \in SUBSET [voter : Node, term : Nat, candidate : Node]
  /\ elected \in SUBSET [term : Nat, node : Node]
  /\ committed \in Seq(Entry)
  /\ faults \in Nat

\* At most one node ever wins the election of a term, crashes, lost and late
\* calls notwithstanding (onRequestVote, startElection, becomeLeader).
ElectionSafety ==
  \A e, f \in elected : e.term = f.term => e.node = f.node

\* Two logs that hold an entry of the same term at the same index are the same
\* up to it (the consistency check and the truncation of onAppendEntries).
LogMatching ==
  \A i, j \in Node : \A k \in DOMAIN log[i] \cap DOMAIN log[j] :
    log[i][k].term = log[j][k].term => SameUpTo(log[i], log[j], k)

\* What a node has committed is a prefix of everything that was ever committed
\* anywhere: no two nodes apply different entries at one index, not even
\* after restarts (advanceCommit, the commit step of onAppendEntries).
StateMachineSafety ==
  \A i \in Node : SameUpTo(log[i], committed, commitIndex[i])

\* The leader of the newest term won so far holds every entry ever committed
\* (the election restriction of onRequestVote).
LeaderCompleteness ==
  \A i \in Node :
    (role[i] = "leader" /\ \A e \in elected : e.term <= currentTerm[i])
      => SameUpTo(committed, log[i], Len(committed))

\* A leader's matchIndex_ never claims more than the peer has on disk, as long
\* as the peer is still in the leader's term (replicatorLoop, and the rule of
\* onAppendEntries that a stale retransmission undoes nothing).
MatchIndexTruthful ==
  \A i, p \in Node :
    (role[i] = "leader" /\ currentTerm[p] = currentTerm[i])
      => SameUpTo(log[i], log[p], matchIndex[i][p])

\* The entries a leader reads for a peer exist: log_[next - 1] in replicatorLoop
\* and log_[n] in advanceCommit are never past the end of log_, however late
\* the replies are that nextIndex_ and matchIndex_ are computed from.
IndexesInLog ==
  \A i, p \in Node :
    role[i] = "leader" => /\ nextIndex[i][p] <= Len(log[i]) + 1
                          /\ matchIndex[i][p] <= Len(log[i])

\* votesReceived_ is a counter, yet no election is won without the votes of a
\* majority, cast in its term for its winner: late replies of earlier elections
\* do not count, and no reply counts twice (startElection's reply handler).
ElectedByMajority ==
  \A e \in elected : Cardinality(Voters(e.term, e.node)) >= Majority

\* A node that names a leader names the winner of its own term, so a client is
\* redirected to a node that did lead (every assignment to leaderHint_).
LeaderHintTruthful ==
  \A i \in Node :
    leaderHint[i] # None =>
      [term |-> currentTerm[i], node |-> leaderHint[i]] \in elected

\* A leader has committed everything it may: no index past commitIndex_, with
\* nothing but entries of its own term from there on, has a majority in
\* matchIndex_.  In a cluster of one that is the whole log, as soon as the
\* handler that appended to it returns (the calls of advanceCommit in submit,
\* becomeLeader and replicatorLoop).
NothingLeftToCommit ==
  \A i \in Node : role[i] = "leader" =>
    \A n \in (commitIndex[i] + 1)..Len(log[i]) :
      (\A k \in n..Len(log[i]) : log[i][k].term = currentTerm[i])
        => Cardinality({p \in Node : matchIndex[i][p] >= n}) < Majority

\* What a node has committed is never truncated or overwritten, crash or not
\* (the copy that applierLoop makes, onAppendEntries' truncateFrom).
CommittedImmutable ==
  [][\A i \in Node : SameUpTo(log[i], log'[i], commitIndex[i])]_vars

\* A rejection that the replicator acts on moves nextIndex_ strictly down, and
\* never to or below matchIndex_: its immediate retries come to an end.
RejectionBacksUp ==
  [][\A r \in appRep :
       LET i == r.from
           p == r.to
       IN  (/\ r \notin appRep' /\ faults' = faults
            /\ role[i] = "leader" /\ currentTerm[i] = r.term
            /\ ~r.success /\ r.rterm = r.term)
           => /\ nextIndex'[i][p] < nextIndex[i][p]
              /\ matchIndex[i][p] < nextIndex'[i][p]]_vars

\* A leader that stays leader brings every log to its own and gets all of it
\* committed everywhere, whatever it found on its peers (replicatorLoop with
\* its backup, its retries after failed calls, and its heartbeats, which carry
\* leaderCommit).
LeaderConverges ==
  \A i \in Node :
    <>[](role[i] = "leader") =>
      <>[](\A p \in Node : log[p] = log[i] /\ commitIndex[p] = Len(log[i]))

=============================================================================

------------------------------ MODULE Shutdown ------------------------------
(***************************************************************************)
(* The threads of one node from Server::run to ~Server: main, the two      *)
(* acceptors, the connection threads, and RaftNode's ticker, applier and   *)
(* detached threads, with the mutexes, condition variables and counters by *)
(* which Server::stop and RaftNode::stop bring them to an end.             *)
(*                                                                         *)
(* A critical section that does not block is one step.  A wait is several: *)
(* the predicate is tested with the mutex held ("test"), the thread blocks *)
(* and lets the mutex go ("block"), and only then ("wait") does a notify   *)
(* reach it.  The signal handler runs stop on the main thread, which is    *)
(* suspended meanwhile.                                                    *)
(*                                                                         *)
(* Of Raft there is only what starts, feeds and ends threads: whether this *)
(* node leads, and how far the last no-op and the entry of each client     *)
(* have come.  Each client sends one command.                              *)
(***************************************************************************)
EXTENDS Integers, FiniteSets

CONSTANTS
  Peers,         \* connections to the raft port
  Clients,       \* connections to the client port
  Traffic,       \* the sets of connections that may be made in one run
  Others,        \* the numbers of other nodes in the cluster to look at
  Workers,       \* slots for the detached threads of RaftNode
  MaxElections   \* bound on the elections this node starts

Conns == Peers \cup Clients
Ports == {"raft", "client"}
Entries == Clients \cup {"noop"}
Thread == {"main", "stop", "ticker", "applier"} \cup Ports \cup Conns \cup Workers

VARIABLES
  at,            \* where each thread is, and stop on the main thread
  asked,         \* when the signal came: "no", "early" or "running"
  stopping,      \* Server::stopping_, set as the listen fds are closed
  connThreads,   \* connThreads_
  waitMutex,     \* the holder of waitMutex_, between steps
  mutex,         \* the holder of mutex_, between steps
  halted,        \* RaftNode::stopping_
  inflight,      \* inflight_
  others,        \* clusterSize_ - 1
  term,          \* number of elections started
  leading,       \* role_ is Leader
  tenure,        \* the term a detached thread works for
  entry          \* how far the entry of each client, and the no-op, have come

server == <<asked, stopping>>
locks  == <<waitMutex, mutex>>
raft   == <<halted, inflight, others, term, leading, tenure>>
vars   == <<at, server, connThreads, locks, raft, entry>>

Free == "free"

\* Thread t goes on to the given place.
Goes(t, place) == at' = [at EXCEPT ![t] = place]

Init ==
  /\ \E open \in Traffic :
       at = [t \in Thread |-> CASE t = "main" -> "armed"
                                [] t \in Conns \ open -> "never"
                                [] OTHER -> "none"]
  /\ asked = "no" /\ stopping = FALSE
  /\ connThreads = 0 /\ inflight = 0
  /\ waitMutex = Free /\ mutex = Free
  /\ halted = FALSE /\ term = 0 /\ leading = FALSE
  /\ others \in Others
  /\ tenure = [w \in Workers |-> 0]
  /\ entry = [e \in Entries |-> "none"]

-----------------------------------------------------------------------------
(* Server::run on the main thread, and ~Server.                             *)

\* No signal handler is running on top of main.
MainRuns == at["stop"] \in {"none", "over"}

\* accept on a closed descriptor fails at once.  Whether the close also ends an
\* accept that is waiting is up to the platform: AcceptFails may happen or not.
Accepting == IF stopping THEN "returned" ELSE "accept"

\* RaftNode::start, which has mutex_ locked from its first line to its last,
\* and then the start of the acceptors.
Start ==
  /\ MainRuns
  /\ \/ at["main"] = "armed" /\ mutex = Free
        /\ Goes("main", "starting") /\ mutex' = "main"
     \/ /\ at["main"] = "starting"
        /\ at' = [t \in Thread |-> CASE t = "main" -> "joinRaft"
                                     [] t = "ticker" -> "tick"
                                     [] t = "applier" -> "lock"
                                     [] t \in Ports -> Accepting
                                     [] OTHER -> at[t]]
        /\ mutex' = Free
  /\ UNCHANGED <<server, connThreads, waitMutex, raft, entry>>

\* The joins of the acceptors, then the wait for connThreads_: connMutex_ is
\* held at "test" and "block".
Run ==
  /\ MainRuns
  /\ \/ at["main"] = "joinRaft" /\ at["raft"] = "returned"
        /\ Goes("main", "joinClient")
     \/ at["main"] = "joinClient" /\ at["client"] = "returned"
        /\ Goes("main", "test")
     \/ at["main"] = "test"
        /\ Goes("main", IF connThreads = 0 THEN "returned" ELSE "block")
     \/ at["main"] = "block" /\ Goes("main", "wait")
  /\ UNCHANGED <<server, connThreads, locks, raft, entry>>

\* The exchange of stopping_ and the two closes of stop.
BeginStop == stopping' = TRUE /\ Goes("stop", "lock")

\* SIGINT or SIGTERM: the handler calls stop, which returns at once when it has
\* been called before.
Signal ==
  /\ asked = "no" /\ at["main"] \notin {"destroyed", "aborted"}
  /\ asked' = IF at["main"] \in {"armed", "starting"} THEN "early" ELSE "running"
  /\ IF stopping THEN UNCHANGED <<stopping, at>> ELSE BeginStop
  /\ UNCHANGED <<connThreads, locks, raft, entry>>

\* ~Server: stop, if it has not run, and then the members.  A std::thread that
\* is still joinable ends the process, and RaftNode::stop joins only once.
Destroy ==
  /\ at["main"] = "returned"
  /\ \/ at["stop"] = "none" /\ BeginStop
     \/ /\ at["stop"] = "over"
        /\ Goes("main", IF at["ticker"] = "joined" THEN "destroyed"
                                                   ELSE "aborted")
        /\ UNCHANGED stopping
  /\ UNCHANGED <<asked, connThreads, locks, raft, entry>>

-----------------------------------------------------------------------------
(* The rest of Server::stop, with RaftNode::stop in it.                     *)

\* The places after notify_all on applyCv_, and on waitCv_.
ApplierNotified(places) ==
  [places EXCEPT !["applier"] = IF @ = "wait" THEN "lock" ELSE @]
HandlersNotified(places) ==
  [t \in Thread |-> IF t \in Clients /\ places[t] = "wait" THEN "woken"
                                                           ELSE places[t]]

\* Mutant: stopping_ is set and applyCv_ notified without mutex_.
HaltRaft_NoLock ==
  /\ at["stop"] = "lock"
  /\ halted' = TRUE
  /\ at' = ApplierNotified([at EXCEPT !["stop"] = "ticker"])
  /\ UNCHANGED <<server, connThreads, locks, inflight, others, term, leading,
                 tenure, entry>>

\* The critical section of RaftNode::stop.  replCv_ is only waited on with a
\* timeout: its notify is one way for that wait to end.
HaltRaft ==
  /\ at["stop"] = "lock" /\ mutex = Free
  /\ halted' = TRUE
  /\ at' = ApplierNotified([at EXCEPT !["stop"] = "ticker"])
  /\ UNCHANGED <<server, connThreads, locks, inflight, others, term, leading,
                 tenure, entry>>

\* The joins of ticker_ and applier_, where they are joinable; the wait for
\* inflight_ (inflightMutex_ is held at "test" and "block"); and the notify for
\* the handlers, which is sent without waitMutex_.
Stop ==
  /\ \/ \E t \in {"ticker", "applier"} :
          /\ at["stop"] = t /\ at[t] \in {"none", "returned"}
          /\ at' = [at EXCEPT
               ![t] = IF @ = "returned" THEN "joined" ELSE @,
               !["stop"] = IF t = "ticker" THEN "applier" ELSE "test"]
     \/ at["stop"] = "test"
        /\ Goes("stop", IF inflight = 0 THEN "notify" ELSE "block")
     \/ at["stop"] = "block" /\ Goes("stop", "wait")
     \/ /\ at["stop"] = "notify"
        /\ at' = HandlersNotified([at EXCEPT !["stop"] = "over"])
  /\ UNCHANGED <<server, connThreads, locks, raft, entry>>

-----------------------------------------------------------------------------
(* The acceptors and the connection threads.                                *)

Port(c) == IF c \in Peers THEN "raft" ELSE "client"

\* The head of the loop of a connection thread.
LoopHead == IF stopping THEN "over" ELSE "receive"

\* A connection comes in: the loop counts its thread, starts it and goes on.
Connect(c) ==
  /\ at[c] = "none" /\ at[Port(c)] = "accept"
  /\ at' = [at EXCEPT ![Port(c)] = Accepting, ![c] = LoopHead]
  /\ connThreads' = connThreads + 1
  /\ UNCHANGED <<server, locks, raft, entry>>

\* accept returns a negative number: any error ends the loop for good, and so
\* does the close, on a platform where it ends an accept that is waiting.
AcceptFails(p) ==
  /\ at[p] = "accept"
  /\ Goes(p, "returned")
  /\ UNCHANGED <<server, connThreads, locks, raft, entry>>

\* The body of a connection thread is over, by the test of stopping_ or because
\* the receive ends the connection, at the latest when the idle time has passed.
\* The last thread has to notify.
Leave(c) ==
  /\ at[c] \in {"receive", "over"}
  /\ connThreads' = connThreads - 1
  /\ Goes(c, IF connThreads = 1 THEN "tail" ELSE "none")
  /\ UNCHANGED <<server, locks, raft, entry>>

\* The last connection thread notifies run, under connMutex_.
NotifyMain(c) ==
  /\ at[c] = "tail" /\ at["main"] \notin {"test", "block"}
  /\ at' = [at EXCEPT ![c] = "none", !["main"] = IF @ = "wait" THEN "test" ELSE @]
  /\ UNCHANGED <<server, connThreads, locks, raft, entry>>

\* Some entries become committed as the threads go to the given places, and the
\* applier is told.  The no-op of the leader comes before what clients send it.
Commit(entries, places) ==
  \E S \in SUBSET {e \in Entries : entries[e] = "log"} :
    /\ S = {} \/ "noop" \in S \/ entries["noop"] # "log"
    /\ entry' = [e \in Entries |-> IF e \in S THEN "committed" ELSE entries[e]]
    /\ at' = IF S = {} THEN places ELSE ApplierNotified(places)

\* onRequestVote or onAppendEntries, stopping or not: the node may step down and
\* learn that entries are committed.
HandlePeer(c) ==
  /\ at[c] = "receive" /\ c \in Peers /\ mutex = Free
  /\ \/ Goes(c, LoopHead) /\ UNCHANGED <<leading, entry>>
     \/ leading' = FALSE /\ Commit(entry, [at EXCEPT ![c] = LoopHead])
  /\ UNCHANGED <<server, connThreads, locks, halted, inflight, others, term,
                 tenure>>

\* A client sends its command: executeCommand locks waitMutex_...
LockWait(c) ==
  /\ at[c] = "receive" /\ c \in Clients /\ entry[c] = "none"
  /\ waitMutex = Free
  /\ waitMutex' = c
  /\ Goes(c, "submit")
  /\ UNCHANGED <<server, connThreads, mutex, raft, entry>>

\* ... and calls submit under it, which locks mutex_.  In a cluster of one the
\* entry is committed at once.
Submit(c) ==
  /\ at[c] = "submit" /\ mutex = Free
  /\ IF halted \/ ~leading
     THEN /\ Goes(c, LoopHead)
          /\ waitMutex' = Free
          /\ entry' = [entry EXCEPT ![c] = "refused"]
     ELSE /\ IF others = 0
             THEN /\ entry' = [entry EXCEPT ![c] = "committed"]
                  /\ at' = ApplierNotified([at EXCEPT ![c] = "test"])
             ELSE entry' = [entry EXCEPT ![c] = "log"] /\ Goes(c, "test")
          /\ UNCHANGED waitMutex
  /\ UNCHANGED <<server, connThreads, mutex, raft>>

\* wait_for, with waitMutex_ held, tests its predicate: the handler answers, or
\* it blocks.
Test(c) ==
  /\ \/ at[c] = "test"
     \/ at[c] = "woken" /\ waitMutex = Free
  /\ IF stopping \/ entry[c] = "applied"
     THEN Goes(c, LoopHead) /\ waitMutex' = Free
     ELSE Goes(c, "block") /\ waitMutex' = c
  /\ UNCHANGED <<server, connThreads, mutex, raft, entry>>

\* The thread blocks, in one step with the release of waitMutex_.
Block(c) ==
  /\ at[c] = "block"
  /\ Goes(c, "wait") /\ waitMutex' = Free
  /\ UNCHANGED <<server, connThreads, mutex, raft, entry>>

\* Mutant: wait in place of wait_for.
TimeOut_Never(c) == FALSE /\ UNCHANGED vars

\* kCommitWait has passed: the handler answers whatever has come.
TimeOut(c) ==
  /\ at[c] = "wait" /\ c \in Clients /\ waitMutex = Free
  /\ Goes(c, LoopHead)
  /\ UNCHANGED <<server, connThreads, locks, raft, entry>>

-----------------------------------------------------------------------------
(* The threads of RaftNode.                                                 *)

\* Mutant: a thread counts itself, once it runs.
SpawnDetached_CountsLate(places, place, t) ==
  LET idle == {w \in Workers : at[w] = "none"}
      new  == CHOOSE F \in SUBSET idle : Cardinality(F) = others
  IN  /\ Cardinality(idle) >= others
      /\ at' = [x \in Thread |-> IF x \in new THEN place ELSE places[x]]
      /\ tenure' = [w \in Workers |-> IF w \in new THEN t ELSE tenure[w]]
      /\ UNCHANGED inflight

\* spawnDetached for each peer, as the other threads go to the given places.
SpawnDetached(places, place, t) ==
  LET idle == {w \in Workers : at[w] = "none"}
      new  == CHOOSE F \in SUBSET idle : Cardinality(F) = others
  IN  /\ Cardinality(idle) >= others
      /\ at' = [x \in Thread |-> IF x \in new THEN place ELSE places[x]]
      /\ tenure' = [w \in Workers |-> IF w \in new THEN t ELSE tenure[w]]
      /\ inflight' = inflight + others

\* A round of tickerLoop: it may find that an election is due.  A cluster of
\* one has its leader at once.
Tick ==
  /\ at["ticker"] = "tick" /\ mutex = Free
  /\ IF halted
     THEN /\ Goes("ticker", "returned")
          /\ UNCHANGED <<term, leading, tenure, inflight, entry>>
     ELSE /\ ~leading /\ term < MaxElections
          /\ term' = term + 1
          /\ IF others = 0
             THEN /\ leading' = TRUE
                  /\ entry' = [entry EXCEPT !["noop"] = "committed"]
                  /\ at' = ApplierNotified(at)
                  /\ UNCHANGED <<tenure, inflight>>
             ELSE /\ SpawnDetached(at, "vote", term + 1)
                  /\ UNCHANGED <<leading, entry>>
  /\ UNCHANGED <<server, connThreads, locks, halted, others>>

\* Mutant: the reply is handled without a look at stopping_.
Counts_WhileStopping(w) == ~leading /\ tenure[w] = term

\* A vote matters to the election it was asked for in, and not while stopping.
Counts(w) == ~halted /\ ~leading /\ tenure[w] = term

\* A vote sender has its reply, or none: it may step down, or make this node the
\* leader with a replicator for each peer, before its body is over.
VoteIn(w) ==
  /\ at[w] = "vote" /\ mutex = Free
  /\ \/ /\ Goes(w, "exit")
        /\ leading' \in IF halted THEN {leading} ELSE {leading, FALSE}
        /\ UNCHANGED <<tenure, inflight, entry>>
     \/ /\ Counts(w)
        /\ leading' = TRUE
        /\ entry' = [entry EXCEPT !["noop"] = "log"]
        /\ SpawnDetached([at EXCEPT ![w] = "exit"], "replicate", term)
  /\ UNCHANGED <<server, connThreads, locks, halted, others, term>>

\* The test that retires a replicator.
Retired(w) == halted \/ ~leading \/ tenure[w] # term

\* A round of replicatorLoop, from one release of mutex_ to the next: it retires,
\* or a reply of a higher term ends the lead, or a success may commit entries.
\* The call and the wait between two calls end by themselves.
Replicate(w) ==
  /\ at[w] = "replicate" /\ mutex = Free
  /\ \/ Retired(w) /\ Goes(w, "exit") /\ UNCHANGED <<leading, entry>>
     \/ ~Retired(w) /\ Goes(w, "exit") /\ leading' = FALSE /\ UNCHANGED entry
     \/ ~Retired(w) /\ Commit(entry, at) /\ UNCHANGED leading
  /\ UNCHANGED <<server, connThreads, locks, halted, inflight, others, term,
                 tenure>>

\* The body of a detached thread is over: the last one has to notify.
Exit(w) ==
  /\ at[w] = "exit"
  /\ inflight' = inflight - 1
  /\ tenure' = [tenure EXCEPT ![w] = 0]
  /\ Goes(w, IF inflight = 1 THEN "tail" ELSE "none")
  /\ UNCHANGED <<server, connThreads, locks, halted, others, term, leading, entry>>

\* It notifies waitDetachedThreads under inflightMutex_.
NotifyStop(w) ==
  /\ at[w] = "tail" /\ at["stop"] \notin {"test", "block"}
  /\ at' = [at EXCEPT ![w] = "none", !["stop"] = IF @ = "wait" THEN "test" ELSE @]
  /\ UNCHANGED <<server, connThreads, locks, raft, entry>>

\* Mutant: mutex_ stays locked while applyFn_ runs.
Copy_KeepsLock(e) ==
  /\ entry[e] = "committed" /\ (entry["noop"] = "committed" => e = "noop")
  /\ entry' = [entry EXCEPT ![e] = "copied"]
  /\ Goes("applier", "apply")
  /\ mutex' = "applier"

\* applierLoop copies a committed entry and gives mutex_ back for applyFn_.
Copy(e) ==
  /\ entry[e] = "committed" /\ (entry["noop"] = "committed" => e = "noop")
  /\ entry' = [entry EXCEPT ![e] = "copied"]
  /\ Goes("applier", "apply")
  /\ mutex' = Free

\* applierLoop gets mutex_, before its wait ("lock") or back from applyFn_
\* ("applied"): the inner loop goes on while there are committed entries, and
\* only then is stopping_ tested.  Or it blocks, and lets mutex_ go.
Applier ==
  LET more == \E e \in Entries : entry[e] = "committed"
  IN  /\ \/ /\ at["applier"] \in {"lock", "applied"}
            /\ mutex \in {Free, "applier"}
            /\ \/ /\ at["applier"] = "applied" \/ ~halted
                  /\ \E e \in Entries : Copy(e)
               \/ /\ halted /\ (at["applier"] = "applied" => ~more)
                  /\ Goes("applier", "returned") /\ mutex' = Free
                  /\ UNCHANGED entry
               \/ /\ ~halted /\ ~more
                  /\ Goes("applier", "block") /\ mutex' = "applier"
                  /\ UNCHANGED entry
         \/ /\ at["applier"] = "block"
            /\ Goes("applier", "wait") /\ mutex' = Free
            /\ UNCHANGED entry
      /\ UNCHANGED <<server, connThreads, waitMutex, raft>>

\* onApply, under waitMutex_: the handlers are told if the one of this entry
\* still waits.
OnApply ==
  \E e \in Entries :
    /\ at["applier"] = "apply" /\ entry[e] = "copied" /\ waitMutex = Free
    /\ entry' = [entry EXCEPT ![e] = "applied"]
    /\ LET places == [at EXCEPT !["applier"] = "applied"]
       IN  at' = IF e \in Clients /\ at[e] = "wait" THEN HandlersNotified(places)
                                                ELSE places
    /\ UNCHANGED <<server, connThreads, locks, raft>>

-----------------------------------------------------------------------------
MainThread == Start \/ Run \/ Destroy \/ HaltRaft \/ Stop
ConnThread(c) == \/ Leave(c) \/ HandlePeer(c) \/ LockWait(c) \/ Submit(c)
                 \/ Test(c) \/ Block(c) \/ TimeOut(c) \/ NotifyMain(c)
Detached(w) == VoteIn(w) \/ Replicate(w) \/ Exit(w) \/ NotifyStop(w)

Next ==
  \/ Signal
  \/ MainThread
  \/ \E p \in Ports : AcceptFails(p)
  \/ \E c \in Conns : Connect(c) \/ ConnThread(c)
  \/ Tick
  \/ \E w \in Workers : Detached(w)
  \/ Applier \/ OnApply

\* Every thread keeps running, and calls and waits with a timeout end.  Nobody
\* has to connect, to send a signal or to hold an election, and nothing has to
\* end an accept.
Spec ==
  /\ Init /\ [][Next]_vars
  /\ WF_vars(MainThread)
  /\ \A c \in Conns : WF_vars(ConnThread(c))
  /\ WF_vars(halted /\ Tick)
  /\ \A w \in Workers : WF_vars(Detached(w))
  /\ WF_vars(Applier \/ OnApply)

-----------------------------------------------------------------------------
(* Properties.                                                             *)

\* A signal that comes while the node runs ends it: no wait of stop or of run
\* misses its notify, and no thread that is waited for waits for another one.
\* Only an accept that nothing ends can keep the process (Server::stop,
\* Server::run, RaftNode::stop).
StopCompletes ==
  \/ <>[](\E p \in Ports : at[p] = "accept")
  \/ asked = "running" ~> at["main"] = "destroyed"

\* A client that waits for its command gets an answer: the notify of stop is
\* sent without waitMutex_ and may be missed, and the entry may be lost, but the
\* wait has a timeout (wait_for in executeCommand).
EveryoneAnswered ==
  \A c \in Clients : at[c] = "wait" ~> at[c] \in {"receive", "over"}

\* What is committed gets applied while the node runs: the applier misses no
\* notify, and its use of waitMutex_ crosses no handler's use of mutex_
\* (applierLoop, onApply, executeCommand).
CommittedGetsApplied ==
  \A e \in Entries : entry[e] = "committed" ~> (entry[e] = "applied" \/ halted)

\* Nothing works on an object that is gone: when RaftNode::stop returns, its
\* threads are over, and when run returns, those of the connections are.  Only
\* the notify of a counter's last thread can be left (waitDetachedThreads,
\* spawnDetached, run, ~Server).
DrainedBeforeDestroyed ==
  /\ at["stop"] \in {"notify", "over"} =>
       \A w \in Workers : at[w] \in {"none", "tail"}
  /\ at["main"] \in {"returned", "destroyed", "aborted"} =>
       \A c \in Conns : at[c] \in {"never", "none", "tail"}
  /\ at["main"] = "aborted" => asked = "early"

\* No detached thread is started once RaftNode is stopping, so the wait for them
\* comes to an end (the tests of stopping_ in tickerLoop and startElection).
NoLateSpawn == [][halted => inflight' <= inflight]_vars

\* The comment of raft.hpp: "Detached vote/replicator threads are tracked so
\* stop() can wait for them".  None of them uses the RaftNode after that.
DetachedDone ==
  at["stop"] \in {"notify", "over"} => \A w \in Workers : at[w] = "none"

=============================================================================

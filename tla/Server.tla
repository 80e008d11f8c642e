------------------------------- MODULE Server -------------------------------
(***************************************************************************)
(* server.cpp: the client handlers of one node, each executing one command *)
(* (executeCommand), the applier thread calling onApply, and the waiters_  *)
(* table through which they meet, over the RaftNode of LocalRaft.          *)
(*                                                                         *)
(* A handler holds waitMutex_ from before submit until it parks in         *)
(* wait_for, so registering is one step.  It holds it again from its       *)
(* wake-up to its answer, the second step.  onApply works on the store     *)
(* without the mutex and delivers under it: two steps of the applier.      *)
(***************************************************************************)
EXTENDS LocalRaft

CONSTANTS
  Handler,      \* the threads of handleClientConnection
  Command,      \* Command[h] is the command handler h executes
  MaxRestarts   \* bound on how often the process is killed and started again

ASSUME CommandAssumption == Command \in [Handler -> ClientCommand]

\* The commands of other leaders come from their own handlers.
ASSUME ForeignAssumption ==
  /\ NoOp \notin Handler
  /\ \A n \in 1..MaxLog, t \in 1..MaxTerm :
       Foreign(n, t) \in (ClientCommand \cup {NoOp}) \ Handler

ASSUME BoundsAssumption == {MaxTerm, MaxLog, MaxRestarts} \subseteq Nat

VARIABLES
  pc,           \* "idle", "parked" or "done", for each handler
  result,       \* the SubmitResult of each handler
  reply,        \* the answer each handler gave
  waiters,      \* waiters_: a function from indexes to PendingResults
  store,        \* store_
  lastApplied,  \* lastApplied_
  applying,     \* the entry onApply has executed and not yet delivered
  before,       \* history: who had been acknowledged when a handler started
  restarts      \* number of restarts so far

serverVars == <<pc, result, reply, waiters, store, lastApplied, applying,
                before, restarts>>
vars == <<raftVars, serverVars>>

None == [index |-> 0, term |-> 0]

\* PendingResult{}.
Pending == [applied |-> FALSE, term |-> 0,
            answer |-> [value |-> Missing, existed |-> FALSE]]

\* A reply without a result.
Plain(kind) == [kind |-> kind, answer |-> Pending.answer]

\* The commands of a log.  A handler's own stands for its Command.
CommandAt(lg, k) ==
  IF lg[k].cmd \in Handler THEN Command[lg[k].cmd] ELSE lg[k].cmd

Acked == {h \in Handler : reply[h].kind = "ok"}

Init ==
  /\ RaftInit
  /\ pc = [h \in Handler |-> "idle"]
  /\ result = [h \in Handler |-> None]
  /\ reply = [h \in Handler |-> Plain("none")]
  /\ waiters = <<>>
  /\ store = EmptyStore
  /\ lastApplied = 0
  /\ applying = None
  /\ before = [h \in Handler |-> {}]
  /\ restarts = 0

\* unordered_map::emplace: a slot that is already there is left alone.
Emplace(index) ==
  [k \in DOMAIN waiters \cup {index} |->
     IF k \in DOMAIN waiters THEN waiters[k] ELSE Pending]

\* Mutant: the slot is left behind.
Erase_Never(index) == waiters

Erase(index) == [k \in DOMAIN waiters \ {index} |-> waiters[k]]

\* executeCommand up to the wait, when raft_->submit accepts the command.
Register(h) ==
  /\ pc[h] = "idle"
  /\ leading
  /\ Push(term, h)
  /\ result' = [result EXCEPT ![h] = [index |-> Len(log) + 1, term |-> term]]
  /\ waiters' = Emplace(Len(log) + 1)
  /\ pc' = [pc EXCEPT ![h] = "parked"]
  /\ before' = [before EXCEPT ![h] = Acked]
  /\ UNCHANGED <<term, leading, commit, chosen, reply, store, lastApplied,
                 applying, restarts>>

\* executeCommand on a node that is not the leader.
Redirect(h) ==
  /\ pc[h] = "idle"
  /\ ~leading
  /\ pc' = [pc EXCEPT ![h] = "done"]
  /\ reply' = [reply EXCEPT ![h] = Plain("redirect")]
  /\ UNCHANGED <<raftVars, result, waiters, store, lastApplied, applying,
                 before, restarts>>

\* Mutant: whatever was applied at the index is taken for the command's result.
Outcome_AnyTerm(slot, submitted) ==
  IF slot.applied THEN [kind |-> "ok", answer |-> slot.answer]
                  ELSE Plain("timeout")

\* The answer made of a slot after the wait.
Outcome(slot, submitted) ==
  IF ~slot.applied THEN Plain("timeout")
  ELSE IF slot.term # submitted.term THEN Plain("lost")
  ELSE [kind |-> "ok", answer |-> slot.answer]

\* The predicate of wait_for.
Ready(h) ==
  /\ result[h].index \in DOMAIN waiters
  /\ waiters[result[h].index].applied

\* executeCommand after the wait, whichever way it ended.
Finish(h) ==
  LET index == result[h].index
      slot  == IF index \in DOMAIN waiters THEN waiters[index] ELSE Pending
  IN  /\ pc[h] = "parked"
      /\ reply' = [reply EXCEPT ![h] = Outcome(slot, result[h])]
      /\ waiters' = Erase(index)
      /\ pc' = [pc EXCEPT ![h] = "done"]
      /\ UNCHANGED <<raftVars, result, store, lastApplied, applying, before,
                     restarts>>

\* wait_for returns because the predicate holds.
Wake(h) == pc[h] = "parked" /\ Ready(h) /\ Finish(h)

\* kCommitWait has passed and the predicate does not hold.
TimeOut(h) == pc[h] = "parked" /\ ~Ready(h) /\ Finish(h)

\* applierLoop takes the next committed entry and onApply executes it.
Execute ==
  /\ applying = None
  /\ lastApplied < commit
  /\ LET n == lastApplied + 1
         c == CommandAt(log, n)
     IN  /\ store' = Apply(store, c)
         /\ applying' = [index |-> n, term |-> log[n].term,
                         answer |-> Answer(store, c)]
  /\ UNCHANGED <<raftVars, pc, result, reply, waiters, lastApplied, before,
                 restarts>>

\* Mutant: the slot gets the node's term in place of the entry's.
Delivered_CurrentTerm == [applied |-> TRUE, term |-> term,
                          answer |-> applying.answer]

\* What onApply writes in the slot of the index it has applied.
Delivered == [applied |-> TRUE, term |-> applying.term,
              answer |-> applying.answer]

\* The rest of onApply, under waitMutex_, and of the round of applierLoop.
Deliver ==
  /\ applying # None
  /\ waiters' = [k \in DOMAIN waiters |->
                   IF k = applying.index THEN Delivered ELSE waiters[k]]
  /\ lastApplied' = applying.index
  /\ applying' = None
  /\ UNCHANGED <<raftVars, pc, result, reply, store, before, restarts>>

\* The process dies: its handlers never answer, and the next one starts from
\* the log with an empty store.
Restart ==
  /\ restarts < MaxRestarts
  /\ restarts' = restarts + 1
  /\ leading' = FALSE
  /\ commit' = 0
  /\ pc' = [h \in Handler |-> IF pc[h] = "parked" THEN "done" ELSE pc[h]]
  /\ reply' = [h \in Handler |-> IF pc[h] = "parked" THEN Plain("closed")
                                                     ELSE reply[h]]
  /\ waiters' = <<>>
  /\ store' = EmptyStore
  /\ lastApplied' = 0
  /\ applying' = None
  /\ UNCHANGED <<term, log, chosen, appended, result, before>>

Next ==
  \/ RaftStep /\ UNCHANGED serverVars
  \/ \E h \in Handler : Register(h) \/ Redirect(h) \/ Wake(h) \/ TimeOut(h)
  \/ Execute
  \/ Deliver
  \/ Restart

Spec == Init /\ [][Next]_vars

-----------------------------------------------------------------------------
(* Properties.                                                             *)

\* The answer to an acknowledged command is what the log up to its index
\* says: a GET sees the last write before it, a DEL whether there was a value.
AnswerFromLog(h) ==
  LET n  == result[h].index
      c  == Command[h]
      at == ValueAfter([k \in 1..Len(chosen) |-> CommandAt(chosen, k)],
                       n - 1, c.key)
  IN  /\ c.op = "get" => reply[h].answer.value = at
      /\ c.op = "del" => (reply[h].answer.existed <=> at # Missing)

\* Operations are linearizable (README.md:37): a handler's command that was
\* acknowledged is committed at its index and nowhere else, its answer is that
\* of the log at this point, and it comes after every command acknowledged
\* before it was submitted.
Linearizable ==
  \A h \in Acked :
    /\ {k \in 1..Len(chosen) : chosen[k].cmd = h} = {result[h].index}
    /\ AnswerFromLog(h)
    /\ \A g \in before[h] : result[g].index < result[h].index

\* A command reported as lost (server.cpp:251-255) is not committed, now or
\* later, so that the client may submit it again.
LostIsDiscarded ==
  \A h \in Handler : reply[h].kind = "lost" =>
    \A k \in 1..Len(chosen) : chosen[k].cmd # h

\* The store holds, for every key, what the last write of the applied prefix
\* of the cluster's log left there, across restarts and changes of leader.
StoreIsLog ==
  LET applied == IF applying = None THEN lastApplied ELSE applying.index
      cs == [k \in 1..Len(chosen) |-> CommandAt(chosen, k)]
  IN  \A k \in Key : store[k] = ValueAfter(cs, applied, k)

\* waiters_ does not grow: each slot belongs to a handler that is parked.
SlotsInUse ==
  \A n \in DOMAIN waiters :
    \E h \in Handler : pc[h] = "parked" /\ result[h].index = n

\* The comment of executeCommand: "so the applier can't apply our index and
\* skip us".  A handler whose own entry has been delivered finds its slot.
NotSkipped ==
  \A h \in Handler :
    /\ pc[h] = "parked" /\ lastApplied >= result[h].index
    /\ log[result[h].index].cmd = h
    => Ready(h)

=============================================================================

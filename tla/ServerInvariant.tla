--------------------------- MODULE ServerInvariant ---------------------------
(***************************************************************************)
(* The inductive invariant of Server: what relates the waiters_ table, the *)
(* store and the answers of executeCommand to the log of the cluster.      *)
(***************************************************************************)
EXTENDS Server

Entry == [term : 1..MaxTerm, cmd : Handler \cup ClientCommand \cup {NoOp}]

Result == [value : Value \cup {Missing}, existed : BOOLEAN]

Slot == [applied : BOOLEAN, term : Nat, answer : Result]

Reply == [kind : {"none", "redirect", "timeout", "lost", "ok", "closed"},
          answer : Result]

RaftTypes ==
  /\ term \in 0..MaxTerm
  /\ leading \in BOOLEAN
  /\ log \in Seq(Entry)
  /\ commit \in Nat
  /\ chosen \in Seq(Entry)
  /\ appended \subseteq [index : Nat \ {0}, prev : Nat, entry : Entry]

ServerTypes ==
  /\ pc \in [Handler -> {"idle", "parked", "done"}]
  /\ result \in [Handler -> [index : Nat, term : Nat]]
  /\ reply \in [Handler -> Reply]
  /\ DOMAIN waiters \subseteq Nat \ {0}
  /\ waiters \in [DOMAIN waiters -> Slot]
  /\ store \in [Key -> Value \cup {Missing}]
  /\ lastApplied \in Nat
  /\ before \in [Handler -> SUBSET Handler]
  /\ restarts \in 0..MaxRestarts

TypeOK == RaftTypes /\ ServerTypes

\* Two logs have the same first n entries.
Agree(s, t, n) == n <= Len(s) /\ n <= Len(t) /\ \A k \in 1..n : s[k] = t[k]

\* commitIndex_ covers only committed entries, and the applier follows it.
\* The entry it is at, if any, is the next one.
CommitInv ==
  /\ Agree(log, chosen, commit)
  /\ lastApplied <= commit
  /\ \/ applying = None
     \/ /\ applying \in [index : Nat, term : Nat, answer : Result]
        /\ applying.index = lastApplied + 1
        /\ applying.index <= commit

\* What this node appended as a leader, it appended in terms up to its own and
\* once at each index of a term; in the term it still leads, nowhere beyond
\* the end of its log.
LedInv ==
  /\ \A k \in 1..Len(log) : log[k].term <= term
  /\ leading => term \in Led
  /\ \A a \in appended : a.entry.term <= term
  /\ \A a, b \in appended :
       a.index = b.index /\ a.entry.term = b.entry.term => a = b
  /\ leading => \A a \in appended : a.entry.term = term => a.index <= Len(log)

\* The command of a handler was appended once, where submit said.
SubmitInv ==
  /\ \A a \in appended : a.entry.cmd \in Handler =>
       /\ pc[a.entry.cmd] # "idle"
       /\ result[a.entry.cmd] = [index |-> a.index, term |-> a.entry.term]
  /\ \A h \in Handler : pc[h] # "done" => reply[h].kind = "none"
  /\ \A h \in Handler :
       pc[h] = "parked" =>
         \E a \in appended : a.index = result[h].index
                             /\ a.entry = [term |-> result[h].term, cmd |-> h]

\* The entries of the cluster that are of a term this node led, or hold a
\* command of one of its handlers, are those it appended.
ChosenInv ==
  \A k \in 1..Len(chosen) :
    chosen[k].term \in Led \/ chosen[k].cmd \in Handler =>
      \E a \in appended : a.index = k /\ a.entry = chosen[k]

CommandsOf(lg) == [k \in 1..Len(lg) |-> CommandAt(lg, k)]

\* r is what executing the command at index n of a log gives: a GET sees the
\* last write before it, a DEL whether there was a value.
AnswerIn(lg, n, r) ==
  LET c  == CommandAt(lg, n)
      at == ValueAfter(CommandsOf(lg), n - 1, c.key)
  IN  /\ c.op = "get" => r.value = at
      /\ c.op = "del" => (r.existed <=> at # Missing)

\* What the applier is about to deliver, and what it has delivered, is the term
\* and the answer of the entry at that index of the cluster's log.
SlotInv ==
  /\ applying # None => /\ applying.term = chosen[applying.index].term
                        /\ AnswerIn(chosen, applying.index, applying.answer)
  /\ \A n \in DOMAIN waiters : waiters[n].applied =>
       /\ n <= lastApplied
       /\ waiters[n].term = chosen[n].term
       /\ AnswerIn(chosen, n, waiters[n].answer)

\* A command that was acknowledged is in the cluster's log with its answer, and
\* this node's own log keeps it through restarts and truncations.  A command
\* submitted later has a larger index.  What was lost lost its place.
AckInv ==
  /\ \A h \in Acked :
       /\ result[h].index \in 1..Len(chosen)
       /\ chosen[result[h].index].cmd = h
       /\ AnswerIn(chosen, result[h].index, reply[h].answer)
       /\ Agree(log, chosen, result[h].index)
  /\ \A h \in Handler : \A g \in before[h] :
       pc[h] # "idle" /\ g \in Acked /\ result[g].index < result[h].index
  /\ \A h \in Handler : reply[h].kind = "lost" =>
       /\ result[h].index \in 1..Len(chosen)
       /\ chosen[result[h].index].cmd # h

ServerInv ==
  /\ TypeOK
  /\ CommitInv
  /\ LedInv
  /\ SubmitInv
  /\ ChosenInv
  /\ SlotInv
  /\ AckInv
  /\ StoreIsLog
  /\ SlotsInUse

=============================================================================

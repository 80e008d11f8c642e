---------------------------- MODULE ServerProofs ----------------------------
(***************************************************************************)
(* Proofs about server.cpp: executeCommand and onApply give linearizable   *)
(* operations, report as lost only what is never committed, leave no slot  *)
(* behind in waiters_, and keep the store equal to the applied prefix of   *)
(* the cluster's log.                                                      *)
(***************************************************************************)
EXTENDS ServerInvariant, WellFoundedInduction, TLAPS

-----------------------------------------------------------------------------
(* The store as a function of the log.                                     *)

\* A set of indexes that is not empty has a last one, and Max is it.
LEMMA LastIndex ==
  ASSUME NEW n \in Nat, NEW T \in SUBSET (1..n), T # {}
  PROVE  Max(T) \in T /\ \A y \in T : Max(T) >= y
<1> DEFINE U == {m \in Nat : \A y \in T : y <= m}
<1>1. n \in U
  OBVIOUS
<1>2. IsWellFoundedOn(OpToRel(<, Nat), Nat)
  BY Zenon, NatLessThanWellFounded
<1>3. PICK x \in U : \A y \in U : ~(<<y, x>> \in OpToRel(<, Nat))
  <2>1. U \in SUBSET Nat /\ U # {}
    BY <1>1
  <2> HIDE DEF U
  <2> QED BY Zenon, <1>2, <2>1, WFMin
<1>4. \A y \in U : ~(y < x)
  <2> HIDE DEF U
  <2>1. U \in SUBSET Nat
    BY DEF U
  <2> QED BY Zenon, <1>3, <2>1 DEF OpToRel
<1>5. x \in T
  <2> SUFFICES ASSUME x \notin T PROVE FALSE
    OBVIOUS
  <2>1. PICK z \in T : TRUE
    BY Zenon
  <2>2. x - 1 \in U
    BY <2>1
  <2> QED BY <1>4, <2>2
<1>6. \A y \in T : x >= y
  OBVIOUS
<1> HIDE DEF U
<1> QED BY Zenon, <1>5, <1>6 DEF Max

\* The value of a key after n commands depends on these n commands only.
LEMMA ValueKept ==
  ASSUME NEW s, NEW t, NEW n \in Nat, Agree(s, t, n),
         Len(s) \in Nat, Len(t) \in Nat, NEW k
  PROVE  ValueAfter(CommandsOf(s), n, k) = ValueAfter(CommandsOf(t), n, k)
<1> DEFINE cs == CommandsOf(s)
           ds == CommandsOf(t)
           W(c) == {j \in 1..n : c[j].op \in {"set", "del"} /\ c[j].key = k}
<1>1. \A j \in 1..n : cs[j] = ds[j]
  BY DEF Agree, CommandsOf, CommandAt
<1> HIDE DEF cs, ds
<1>2. W(cs) = W(ds)
  BY <1>1
<1>3. W(cs) # {} => Max(W(cs)) \in 1..n
  <2>1. W(cs) \in SUBSET (1..n)
    OBVIOUS
  <2> HIDE DEF W
  <2> QED BY Zenon, <2>1, LastIndex
<1>4. W(cs) # {} => cs[Max(W(cs))] = ds[Max(W(cs))]
  BY Zenon, <1>1, <1>3
<1>5. ValueAfter(cs, n, k) = ValueAfter(ds, n, k)
  BY Zenon, <1>2, <1>4 DEF ValueAfter
<1> QED BY Zenon, <1>5 DEF cs, ds

\* KVStore::set and KVStore::remove do to every key what the log says.
LEMMA ValueNext ==
  ASSUME NEW cs, NEW n \in Nat, cs[n + 1] \in ClientCommand \cup {NoOp},
         NEW st \in [Key -> Value \cup {Missing}],
         NEW k \in Key, st[k] = ValueAfter(cs, n, k)
  PROVE  Apply(st, cs[n + 1])[k] = ValueAfter(cs, n + 1, k)
<1> DEFINE W(m) == {j \in 1..m : cs[j].op \in {"set", "del"} /\ cs[j].key = k}
           c == cs[n + 1]
           writes == c.op \in {"set", "del"} /\ c.key = k
<1>1. CASE writes
  <2>1. W(n + 1) \in SUBSET (1..(n + 1)) /\ n + 1 \in W(n + 1)
    BY <1>1
  <2>2. Max(W(n + 1)) = n + 1
    <3> HIDE DEF W
    <3>1. n + 1 \in Nat
      OBVIOUS
    <3>2. Max(W(n + 1)) \in W(n + 1) /\ Max(W(n + 1)) >= n + 1
      BY Zenon, <2>1, <3>1, LastIndex
    <3> QED BY <2>1, <3>2
  <2>3. ValueAfter(cs, n + 1, k) = IF c.op = "del" THEN Missing ELSE c.value
    BY Zenon, <2>1, <2>2 DEF ValueAfter
  <2>4. Apply(st, c)[k] = IF c.op = "del" THEN Missing ELSE c.value
    BY <1>1 DEF Apply
  <2> QED BY Zenon, <2>3, <2>4
<1>2. CASE ~writes
  <2>1. W(n + 1) = W(n)
    BY <1>2
  <2>2. ValueAfter(cs, n + 1, k) = ValueAfter(cs, n, k)
    BY Zenon, <2>1 DEF ValueAfter
  <2>3. Apply(st, c)[k] = st[k]
    <3>1. CASE c = NoOp
      BY <3>1 DEF Apply, NoOp
    <3>2. CASE c \in ClientCommand
      BY <1>2, <3>2 DEF Apply, ClientCommand
    <3> QED BY Zenon, <3>1, <3>2
  <2> QED BY Zenon, <2>2, <2>3
<1> QED BY Zenon, <1>1, <1>2

\* An answer stays right when the log grows beyond its index.
LEMMA AnswerKept ==
  ASSUME NEW s, NEW t, NEW n \in Nat \ {0}, Agree(s, t, n),
         Len(s) \in Nat, Len(t) \in Nat, NEW r, AnswerIn(s, n, r)
  PROVE  AnswerIn(t, n, r)
<1>1. CommandAt(s, n) = CommandAt(t, n)
  BY DEF Agree, CommandAt
<1>2. n - 1 \in Nat /\ Agree(s, t, n - 1)
  BY DEF Agree
<1>3. \A k : ValueAfter(CommandsOf(s), n - 1, k) = ValueAfter(CommandsOf(t), n - 1, k)
  BY Zenon, <1>2, ValueKept
<1> QED BY Zenon, <1>1, <1>3 DEF AnswerIn

-----------------------------------------------------------------------------
(* The steps of RaftNode.                                                  *)

\* Types of the parts of the state.
LEMMA PartTypes ==
  ASSUME TypeOK
  PROVE  /\ term \in Nat /\ Len(log) \in Nat /\ Len(chosen) \in Nat
         /\ log \in Seq(Entry) /\ chosen \in Seq(Entry) /\ commit \in Nat
         /\ \A k \in 1..Len(log) : log[k] \in Entry /\ log[k].term \in Nat
         /\ \A k \in 1..Len(chosen) : chosen[k] \in Entry /\ chosen[k].term \in Nat
         /\ \A a \in appended : a.index \in Nat \ {0} /\ a.entry.term \in Nat
         /\ \A h \in Handler : result[h].index \in Nat /\ result[h].term \in Nat
         /\ lastApplied \in Nat
<1>1. \A e \in Entry : e.term \in Nat
  BY DEF Entry
<1>2. /\ term \in Nat /\ Len(log) \in Nat /\ Len(chosen) \in Nat
      /\ log \in Seq(Entry) /\ chosen \in Seq(Entry) /\ commit \in Nat
  BY BoundsAssumption DEF TypeOK, RaftTypes
<1>3. /\ \A k \in 1..Len(log) : log[k] \in Entry
      /\ \A k \in 1..Len(chosen) : chosen[k] \in Entry
  BY <1>2
<1>4. \A a \in appended : a.index \in Nat \ {0} /\ a.entry \in Entry
  BY DEF TypeOK, RaftTypes
<1>5. /\ \A h \in Handler : result[h].index \in Nat /\ result[h].term \in Nat
      /\ lastApplied \in Nat
  BY DEF TypeOK, ServerTypes
<1> QED BY Zenon, <1>1, <1>2, <1>3, <1>4, <1>5

\* An entry that another node can hold at index n was appended there by this
\* node, or it is of a term this node never led and of no handler of its.
LEMMA PossibleIs ==
  ASSUME TypeOK, NEW n \in 1..MaxLog, NEW p \in Nat, NEW t \in 0..MaxTerm,
         NEW e \in Possible(n, p, t)
  PROVE  /\ e \in Entry
         /\ \/ \E a \in appended : a.index = n /\ a.entry = e
            \/ e.term \notin Led /\ e.cmd \notin Handler /\ e.term <= t
<1>1. CASE e \in {a.entry : a \in {x \in appended : x.index = n /\ x.prev = p}}
  <2>1. PICK a \in appended : a.index = n /\ a.entry = e
    BY <1>1
  <2>2. a.entry \in Entry
    BY <2>1 DEF TypeOK, RaftTypes
  <2> QED BY Zenon, <2>1, <2>2
<1>2. CASE e \in {[term |-> f, cmd |-> Foreign(n, f)] :
                    f \in (p..t) \ (Led \cup {0})}
  <2>1. PICK f \in (p..t) \ (Led \cup {0}) : e = [term |-> f, cmd |-> Foreign(n, f)]
    BY <1>2
  <2>2. f \in 1..MaxTerm /\ f <= t /\ f \notin Led
    BY BoundsAssumption
  <2>3. Foreign(n, f) \in (ClientCommand \cup {NoOp}) \ Handler
    BY Zenon, <2>2, ForeignAssumption
  <2>4. e.term = f /\ e.cmd = Foreign(n, f)
    BY <2>1
  <2>5. e \in Entry
    BY <2>1, <2>2, <2>3 DEF Entry
  <2> QED BY <2>2, <2>3, <2>4, <2>5
<1> QED BY Zenon, <1>1, <1>2 DEF Possible

\* The terms of entries are naturals, and 0 stands before the first.
LEMMA TermAtIs ==
  ASSUME NEW lg \in Seq(Entry), NEW k \in 0..Len(lg)
  PROVE  TermAt(lg, k) \in Nat
<1>1. k # 0 => lg[k] \in Entry
  OBVIOUS
<1> QED BY <1>1 DEF TermAt, Entry

\* What push_back does to log_ and to what was appended.
LEMMA PushIs ==
  ASSUME TypeOK, NEW t \in 1..MaxTerm, NEW c \in Handler \cup {NoOp}, Push(t, c)
  PROVE  /\ log' \in Seq(Entry)
         /\ Len(log') = Len(log) + 1
         /\ \A k \in 1..Len(log) : log'[k] = log[k]
         /\ log'[Len(log) + 1] = [term |-> t, cmd |-> c]
         /\ \E a \in [index : Nat \ {0}, prev : Nat, entry : Entry] :
              /\ a.index = Len(log) + 1
              /\ a.entry = [term |-> t, cmd |-> c]
              /\ appended' = appended \cup {a}
<1> DEFINE e == [term |-> t, cmd |-> c]
           a == [index |-> Len(log) + 1, prev |-> TermAt(log, Len(log)), entry |-> e]
<1>1. log \in Seq(Entry) /\ Len(log) \in Nat
  BY DEF TypeOK, RaftTypes
<1>2. e \in Entry
  BY DEF Entry
<1>3. log' = Append(log, e) /\ appended' = appended \cup {a}
  BY Zenon DEF Push
<1>4. a \in [index : Nat \ {0}, prev : Nat, entry : Entry]
  <2>1. TermAt(log, Len(log)) \in Nat
    BY <1>1, TermAtIs
  <2> HIDE DEF e
  <2> QED BY <1>1, <1>2, <2>1
<1>5. a.index = Len(log) + 1 /\ a.entry = e
  BY Zenon
<1>6. \E b \in [index : Nat \ {0}, prev : Nat, entry : Entry] :
        b.index = Len(log) + 1 /\ b.entry = e /\ appended' = appended \cup {b}
  <2> HIDE DEF a, e
  <2> QED BY Zenon, <1>3, <1>4, <1>5
<1>7. /\ log' \in Seq(Entry) /\ Len(log') = Len(log) + 1
      /\ \A k \in 1..Len(log) : log'[k] = log[k]
      /\ log'[Len(log) + 1] = e
  <2> HIDE DEF e, a
  <2> QED BY <1>1, <1>2, <1>3
<1> QED BY Zenon, <1>6, <1>7

\* The node becomes the leader of a later term and appends its no-op.
LEMMA BecomeLeaderSteps ==
  ASSUME ServerInv, NEW t \in 1..MaxTerm, BecomeLeader(t), UNCHANGED serverVars
  PROVE  ServerInv'
<1>0. /\ TypeOK /\ CommitInv /\ LedInv /\ SubmitInv /\ ChosenInv /\ SlotInv
      /\ AckInv /\ StoreIsLog /\ SlotsInUse
  BY Zenon DEF ServerInv
<1>1. /\ t > term /\ IsPrefixOf(chosen, log) /\ Push(t, NoOp)
      /\ term' = t /\ leading' = TRUE /\ commit' = commit /\ chosen' = chosen
      /\ pc' = pc /\ result' = result /\ reply' = reply /\ waiters' = waiters
      /\ store' = store /\ lastApplied' = lastApplied /\ applying' = applying
      /\ before' = before /\ restarts' = restarts
  BY Zenon DEF BecomeLeader, serverVars
<1>2. /\ log' \in Seq(Entry) /\ Len(log') = Len(log) + 1
      /\ \A k \in 1..Len(log) : log'[k] = log[k]
      /\ log'[Len(log) + 1] = [term |-> t, cmd |-> NoOp]
  BY Zenon, <1>0, <1>1, PushIs
<1>3. PICK a \in [index : Nat \ {0}, prev : Nat, entry : Entry] :
              /\ a.index = Len(log) + 1
              /\ a.entry = [term |-> t, cmd |-> NoOp]
              /\ appended' = appended \cup {a}
  BY ZenonT(30), <1>0, <1>1, PushIs
<1>4. /\ a.entry.term = t /\ a.entry.cmd = NoOp /\ NoOp \notin Handler
  BY <1>3, ForeignAssumption
<1>5. /\ Len(log) \in Nat /\ Len(chosen) \in Nat /\ term \in Nat /\ t \in Nat
      /\ commit \in Nat
      /\ \A k \in 1..Len(log) : log[k].term \in Nat
      /\ \A k \in 1..Len(chosen) : chosen[k].term \in Nat
      /\ \A b \in appended : b.entry.term \in Nat
      /\ \A h \in Handler : result[h].index \in Nat
  BY <1>0, PartTypes
<1>6. Led' = Led \cup {t}
  BY <1>3, <1>4 DEF Led
<1>10. TypeOK'
  <2>1. RaftTypes'
    BY <1>0, <1>1, <1>2, <1>3 DEF TypeOK, RaftTypes
  <2>2. ServerTypes'
    BY Zenon, <1>0, <1>1 DEF TypeOK, ServerTypes
  <2> QED BY Zenon, <2>1, <2>2 DEF TypeOK
<1>11. CommitInv'
  BY <1>0, <1>1, <1>2, <1>5 DEF CommitInv, Agree
<1>12. LedInv'
  <2>1. \A k \in 1..Len(log') : log'[k].term <= term'
    <3>1. \A k \in 1..Len(log) : log'[k].term <= t
      BY <1>0, <1>1, <1>2, <1>5 DEF LedInv
    <3>2. log'[Len(log) + 1].term = t
      BY <1>2
    <3> QED BY <1>1, <1>2, <1>5, <3>1, <3>2
  <2>2. term' \in Led'
    BY Zenon, <1>1, <1>6
  <2>3. \A b \in appended : b.entry.term <= term /\ b.entry.term \in Nat
    BY Zenon, <1>0, <1>5 DEF LedInv
  <2>4. \A b \in appended : b.entry.term < t
    BY <1>1, <1>5, <2>3
  <2>5. \A b \in appended' : b.entry.term <= term'
    BY <1>1, <1>3, <1>4, <1>5, <2>3, <2>4
  <2>6. \A b \in appended : b.entry.term # t
    BY <1>5, <2>3, <2>4
  <2>7. \A b, d \in appended' :
          b.index = d.index /\ b.entry.term = d.entry.term => b = d
    BY Zenon, <1>0, <1>3, <1>4, <2>6 DEF LedInv
  <2>8. \A b \in appended' : b.entry.term = term' => b.index <= Len(log')
    <3>1. \A b \in appended' : b.entry.term = term' => b.index = Len(log) + 1
      BY Zenon, <1>1, <1>3, <2>6
    <3> QED BY <1>2, <1>5, <3>1
  <2> QED BY Zenon, <2>1, <2>2, <2>5, <2>7, <2>8 DEF LedInv
<1>13. SubmitInv'
  BY Zenon, <1>0, <1>1, <1>3, <1>4 DEF SubmitInv
<1>14. ChosenInv'
  <2>1. \A k \in 1..Len(chosen) : chosen[k].term # t
    <3>1. \A k \in 1..Len(chosen) : chosen[k].term <= term /\ chosen[k].term \in Nat
      BY <1>0, <1>1, <1>5 DEF IsPrefixOf, LedInv
    <3> QED BY <1>1, <1>5, <3>1
  <2>2. \A k \in 1..Len(chosen) : chosen[k].term \in Led' => chosen[k].term \in Led
    BY Zenon, <2>1, <1>6
  <2> QED BY Zenon, <1>0, <1>1, <1>3, <2>2 DEF ChosenInv
<1>15. SlotInv'
  BY Zenon, <1>0, <1>1 DEF SlotInv
<1>16. AckInv'
  <2>1. \A n \in Nat : Agree(log, chosen, n) => Agree(log', chosen', n)
    BY <1>1, <1>2, <1>5 DEF Agree
  <2> QED BY Zenon, <1>0, <1>1, <1>5, <2>1 DEF AckInv, Acked
<1>17. StoreIsLog'
  BY Zenon, <1>0, <1>1 DEF StoreIsLog
<1>18. SlotsInUse'
  BY Zenon, <1>0, <1>1 DEF SlotsInUse
<1> QED
  BY Zenon, <1>10, <1>11, <1>12, <1>13, <1>14, <1>15, <1>16, <1>17, <1>18
  DEF ServerInv

\* becomeFollower for a later term.
LEMMA StepDownSteps ==
  ASSUME ServerInv, NEW t \in 1..MaxTerm, StepDown(t), UNCHANGED serverVars
  PROVE  ServerInv'
<1>0. /\ TypeOK /\ CommitInv /\ LedInv /\ SubmitInv /\ ChosenInv /\ SlotInv
      /\ AckInv /\ StoreIsLog /\ SlotsInUse
  BY Zenon DEF ServerInv
<1>1. /\ t > term /\ term' = t /\ leading' = FALSE /\ log' = log
      /\ commit' = commit /\ chosen' = chosen /\ appended' = appended
      /\ pc' = pc /\ result' = result /\ reply' = reply /\ waiters' = waiters
      /\ store' = store /\ lastApplied' = lastApplied /\ applying' = applying
      /\ before' = before /\ restarts' = restarts
  BY Zenon DEF StepDown, serverVars
<1>5. /\ Len(log) \in Nat /\ Len(chosen) \in Nat /\ term \in Nat /\ commit \in Nat
      /\ \A j \in 1..Len(log) : log[j].term \in Nat
      /\ \A h \in Handler : result[h].index \in Nat
      /\ log \in Seq(Entry) /\ chosen \in Seq(Entry)
      /\ \A a \in appended : a.entry.term \in Nat
  BY Zenon, <1>0, PartTypes
<1>10. TypeOK'
  <2>1. RaftTypes'
    <3>1. t \in 0..MaxTerm
      BY BoundsAssumption
    <3> QED BY Zenon, <1>0, <1>1, <3>1 DEF TypeOK, RaftTypes
  <2>2. ServerTypes'
    BY Zenon, <1>0, <1>1 DEF TypeOK, ServerTypes
  <2> QED BY Zenon, <2>1, <2>2 DEF TypeOK
<1>11. CommitInv'
  BY Zenon, <1>0, <1>1 DEF CommitInv
<1>12. LedInv'
  <2>1. \A j \in 1..Len(log) : log[j].term <= t
    BY <1>0, <1>1, <1>5 DEF LedInv
  <2>2. \A a \in appended : a.entry.term <= t
    BY <1>0, <1>1, <1>5 DEF LedInv
  <2> QED BY Zenon, <1>0, <1>1, <2>1, <2>2 DEF LedInv
<1>13. SubmitInv'
  BY Zenon, <1>0, <1>1 DEF SubmitInv
<1>14. ChosenInv'
  BY Zenon, <1>0, <1>1 DEF ChosenInv, Led
<1>15. SlotInv'
  BY Zenon, <1>0, <1>1 DEF SlotInv
<1>16. AckInv'
  BY Zenon, <1>0, <1>1 DEF AckInv, Acked
<1>17. StoreIsLog'
  BY Zenon, <1>0, <1>1 DEF StoreIsLog
<1>18. SlotsInUse'
  BY Zenon, <1>0, <1>1 DEF SlotsInUse
<1> QED
  BY Zenon, <1>10, <1>11, <1>12, <1>13, <1>14, <1>15, <1>16, <1>17, <1>18
  DEF ServerInv

\* onAppendEntries takes an entry and cuts off what conflicts with it.  No
\* acknowledged command is cut off: the entry would be the one already there.
LEMMA AcceptSteps ==
  ASSUME ServerInv, NEW k \in 0..Len(log), NEW e, Accept(k, e),
         UNCHANGED serverVars
  PROVE  ServerInv'
<1>0. /\ TypeOK /\ CommitInv /\ LedInv /\ SubmitInv /\ ChosenInv /\ SlotInv
      /\ AckInv /\ StoreIsLog /\ SlotsInUse
  BY Zenon DEF ServerInv
<1>1. /\ ~leading /\ term' = term /\ leading' = leading /\ commit' = commit
      /\ chosen' = chosen /\ appended' = appended
      /\ k \in commit..Len(log) /\ k < MaxLog
      /\ k < Len(log) => log[k + 1].term # e.term
      /\ k < Len(chosen) => e = chosen[k + 1] /\ e.term <= term
      /\ ~(k < Len(chosen)) => e \in Possible(k + 1, TermAt(log, k), term)
      /\ log' = Append(SubSeq(log, 1, k), e)
      /\ pc' = pc /\ result' = result /\ reply' = reply /\ waiters' = waiters
      /\ store' = store /\ lastApplied' = lastApplied /\ applying' = applying
      /\ before' = before /\ restarts' = restarts
  BY Zenon DEF Accept, serverVars
<1>5. /\ Len(log) \in Nat /\ Len(chosen) \in Nat /\ term \in Nat /\ commit \in Nat
      /\ \A j \in 1..Len(log) : log[j].term \in Nat
      /\ \A h \in Handler : result[h].index \in Nat
      /\ log \in Seq(Entry) /\ chosen \in Seq(Entry)
  BY Zenon, <1>0, PartTypes
<1>6. e \in Entry /\ e.term <= term
  <2>1. CASE k < Len(chosen)
    <3>1. k + 1 \in 1..Len(chosen)
      BY <1>5, <2>1
    <3> QED BY <1>1, <1>5, <2>1, <3>1
  <2>2. CASE ~(k < Len(chosen))
    <3>1. k + 1 \in 1..MaxLog /\ TermAt(log, k) \in Nat /\ term \in 0..MaxTerm
      BY <1>0, <1>1, <1>5, TermAtIs, BoundsAssumption DEF TypeOK, RaftTypes
    <3>2. /\ e \in Entry
          /\ (\E a \in appended : a.entry = e) \/ e.term <= term
      BY Zenon, <1>0, <1>1, <2>2, <3>1, PossibleIs
    <3> QED BY Zenon, <1>0, <3>2 DEF LedInv
  <2> QED BY Zenon, <2>1, <2>2
<1>7. /\ log' \in Seq(Entry) /\ Len(log') = k + 1
      /\ \A j \in 1..k : log'[j] = log[j]
      /\ log'[k + 1] = e
  BY <1>1, <1>5, <1>6
<1>8. ASSUME NEW n \in Nat, Agree(log, chosen, n) PROVE Agree(log', chosen', n)
  <2>1. n <= k
    <3> SUFFICES ASSUME k < n PROVE FALSE
      BY <1>8
    <3>1. k < Len(log) /\ k < Len(chosen) /\ log[k + 1] = chosen[k + 1]
      BY <1>5, <1>8 DEF Agree
    <3> QED BY Zenon, <1>1, <3>1
  <2> QED BY <1>1, <1>5, <1>7, <1>8, <2>1 DEF Agree
<1>10. TypeOK'
  <2>1. RaftTypes'
    BY <1>0, <1>1, <1>7 DEF TypeOK, RaftTypes
  <2>2. ServerTypes'
    BY Zenon, <1>0, <1>1 DEF TypeOK, ServerTypes
  <2> QED BY Zenon, <2>1, <2>2 DEF TypeOK
<1>11. CommitInv'
  <2>1. Agree(log', chosen', commit)
    BY Zenon, <1>0, <1>5, <1>8 DEF CommitInv
  <2> QED BY Zenon, <1>0, <1>1, <2>1 DEF CommitInv
<1>12. LedInv'
  <2>1. \A j \in 1..Len(log') : log'[j].term <= term
    <3>1. \A j \in 1..k : log'[j].term <= term
      BY <1>0, <1>5, <1>7 DEF LedInv
    <3> QED BY <1>6, <1>7, <3>1
  <2> QED BY Zenon, <1>0, <1>1, <2>1 DEF LedInv
<1>13. SubmitInv'
  BY Zenon, <1>0, <1>1 DEF SubmitInv
<1>14. ChosenInv'
  BY Zenon, <1>0, <1>1 DEF ChosenInv, Led
<1>15. SlotInv'
  BY Zenon, <1>0, <1>1 DEF SlotInv
<1>16. AckInv'
  BY Zenon, <1>0, <1>1, <1>5, <1>8 DEF AckInv, Acked
<1>17. StoreIsLog'
  BY Zenon, <1>0, <1>1 DEF StoreIsLog
<1>18. SlotsInUse'
  BY Zenon, <1>0, <1>1 DEF SlotsInUse
<1> QED
  BY Zenon, <1>10, <1>11, <1>12, <1>13, <1>14, <1>15, <1>16, <1>17, <1>18
  DEF ServerInv

\* commitIndex_ advances over entries the cluster has committed.
LEMMA CommitSteps ==
  ASSUME ServerInv, NEW n \in 1..Len(chosen), Commit(n), UNCHANGED serverVars
  PROVE  ServerInv'
<1>0. /\ TypeOK /\ CommitInv /\ LedInv /\ SubmitInv /\ ChosenInv /\ SlotInv
      /\ AckInv /\ StoreIsLog /\ SlotsInUse
  BY Zenon DEF ServerInv
<1>1. /\ term' = term /\ leading' = leading /\ log' = log /\ chosen' = chosen
      /\ appended' = appended /\ commit' = n
      /\ n \in (commit + 1)..Len(chosen) /\ IsPrefixOf(SubSeq(chosen, 1, n), log)
      /\ pc' = pc /\ result' = result /\ reply' = reply /\ waiters' = waiters
      /\ store' = store /\ lastApplied' = lastApplied /\ applying' = applying
      /\ before' = before /\ restarts' = restarts
  BY Zenon DEF Commit, serverVars
<1>5. /\ Len(log) \in Nat /\ Len(chosen) \in Nat /\ term \in Nat /\ commit \in Nat
      /\ \A j \in 1..Len(log) : log[j].term \in Nat
      /\ \A h \in Handler : result[h].index \in Nat
      /\ log \in Seq(Entry) /\ chosen \in Seq(Entry)
      /\ lastApplied \in Nat
  BY Zenon, <1>0, PartTypes
<1>10. TypeOK'
  <2>1. RaftTypes'
    BY <1>0, <1>1 DEF TypeOK, RaftTypes
  <2>2. ServerTypes'
    BY Zenon, <1>0, <1>1 DEF TypeOK, ServerTypes
  <2> QED BY Zenon, <2>1, <2>2 DEF TypeOK
<1>11. CommitInv'
  <2>1. Agree(log, chosen, n)
    BY <1>1, <1>5 DEF IsPrefixOf, Agree
  <2>2. lastApplied <= n /\ \A x \in Nat : x <= commit => x <= n
    BY <1>0, <1>1, <1>5 DEF CommitInv
  <2>3. \A x \in [index : Nat, term : Nat, answer : Result] : x.index \in Nat
    OBVIOUS
  <2> QED BY Zenon, <1>0, <1>1, <2>1, <2>2, <2>3 DEF CommitInv
<1>12. LedInv'
  BY Zenon, <1>0, <1>1 DEF LedInv, Led
<1>13. SubmitInv'
  BY Zenon, <1>0, <1>1 DEF SubmitInv
<1>14. ChosenInv'
  BY Zenon, <1>0, <1>1 DEF ChosenInv, Led
<1>15. SlotInv'
  BY Zenon, <1>0, <1>1 DEF SlotInv
<1>16. AckInv'
  BY Zenon, <1>0, <1>1 DEF AckInv, Acked
<1>17. StoreIsLog'
  BY Zenon, <1>0, <1>1 DEF StoreIsLog
<1>18. SlotsInUse'
  BY Zenon, <1>0, <1>1 DEF SlotsInUse
<1> QED
  BY Zenon, <1>10, <1>11, <1>12, <1>13, <1>14, <1>15, <1>16, <1>17, <1>18
  DEF ServerInv

\* The cluster commits one more entry: the answers given so far stay right.
LEMMA ChooseSteps ==
  ASSUME ServerInv, NEW e, Choose(e), UNCHANGED serverVars
  PROVE  ServerInv'
<1>0. /\ TypeOK /\ CommitInv /\ LedInv /\ SubmitInv /\ ChosenInv /\ SlotInv
      /\ AckInv /\ StoreIsLog /\ SlotsInUse
  BY Zenon DEF ServerInv
<1>1. /\ term' = term /\ leading' = leading /\ log' = log /\ commit' = commit
      /\ appended' = appended /\ Len(chosen) < MaxLog
      /\ e \in Possible(Len(chosen) + 1, TermAt(chosen, Len(chosen)), MaxTerm)
      /\ chosen' = Append(chosen, e)
      /\ pc' = pc /\ result' = result /\ reply' = reply /\ waiters' = waiters
      /\ store' = store /\ lastApplied' = lastApplied /\ applying' = applying
      /\ before' = before /\ restarts' = restarts
  BY Zenon DEF Choose, serverVars
<1>5. /\ Len(log) \in Nat /\ Len(chosen) \in Nat /\ term \in Nat /\ commit \in Nat
      /\ \A j \in 1..Len(log) : log[j].term \in Nat
      /\ \A h \in Handler : result[h].index \in Nat
      /\ log \in Seq(Entry) /\ chosen \in Seq(Entry)
      /\ lastApplied \in Nat
  BY Zenon, <1>0, PartTypes
<1>6. /\ e \in Entry
      /\ \/ \E a \in appended : a.index = Len(chosen) + 1 /\ a.entry = e
         \/ e.term \notin Led /\ e.cmd \notin Handler
  <2>1. /\ Len(chosen) + 1 \in 1..MaxLog /\ TermAt(chosen, Len(chosen)) \in Nat
        /\ MaxTerm \in 0..MaxTerm
    BY <1>1, <1>5, TermAtIs, BoundsAssumption
  <2> QED BY Zenon, <1>0, <1>1, <2>1, PossibleIs
<1>7. /\ chosen' \in Seq(Entry) /\ Len(chosen') = Len(chosen) + 1
      /\ Len(chosen') \in Nat
      /\ \A j \in 1..Len(chosen) : chosen'[j] = chosen[j]
      /\ chosen'[Len(chosen) + 1] = e
  BY <1>1, <1>5, <1>6
<1>8. ASSUME NEW n \in 1..Len(chosen)
      PROVE  /\ n \in 1..Len(chosen') /\ chosen'[n] = chosen[n]
             /\ Agree(chosen, chosen', n)
             /\ \A r : AnswerIn(chosen, n, r) => AnswerIn(chosen', n, r)
  <2>1. n \in 1..Len(chosen') /\ chosen'[n] = chosen[n] /\ n \in Nat \ {0}
    BY <1>5, <1>7
  <2>2. Agree(chosen, chosen', n)
    BY <1>5, <1>7 DEF Agree
  <2> QED BY Zenon, <1>5, <1>7, <2>1, <2>2, AnswerKept
<1>9. ASSUME NEW n \in Nat, Agree(log, chosen, n) PROVE Agree(log', chosen', n)
  BY <1>1, <1>5, <1>7, <1>9 DEF Agree
<1>10. TypeOK'
  <2>1. RaftTypes'
    BY <1>0, <1>1, <1>7 DEF TypeOK, RaftTypes
  <2>2. ServerTypes'
    BY Zenon, <1>0, <1>1 DEF TypeOK, ServerTypes
  <2> QED BY Zenon, <2>1, <2>2 DEF TypeOK
<1>11. CommitInv'
  BY Zenon, <1>0, <1>1, <1>5, <1>9 DEF CommitInv
<1>12. LedInv'
  BY Zenon, <1>0, <1>1 DEF LedInv, Led
<1>13. SubmitInv'
  BY Zenon, <1>0, <1>1 DEF SubmitInv
<1>14. ChosenInv'
  <2>1. \A j \in 1..Len(chosen') : j \in 1..Len(chosen) \/ j = Len(chosen) + 1
    BY <1>5, <1>7
  <2>2. Led' = Led
    BY Zenon, <1>1 DEF Led
  <2>3. ASSUME NEW j \in 1..Len(chosen'),
               chosen'[j].term \in Led \/ chosen'[j].cmd \in Handler
        PROVE  \E a \in appended : a.index = j /\ a.entry = chosen'[j]
    <3>1. CASE j \in 1..Len(chosen)
      BY Zenon, <1>0, <1>7, <2>3, <3>1 DEF ChosenInv
    <3>2. CASE j = Len(chosen) + 1
      BY Zenon, <1>6, <1>7, <2>3, <3>2
    <3> QED BY Zenon, <2>1, <3>1, <3>2
  <2> QED BY Zenon, <1>1, <2>2, <2>3 DEF ChosenInv
<1>15. SlotInv'
  <2>1. applying # None => applying.index \in 1..Len(chosen)
    BY <1>0, <1>5 DEF CommitInv, Agree
  <2>2. \A n \in DOMAIN waiters : n <= lastApplied => n \in 1..Len(chosen)
    BY <1>0, <1>5 DEF CommitInv, Agree, TypeOK, ServerTypes
  <2> QED BY Zenon, <1>0, <1>1, <1>8, <2>1, <2>2 DEF SlotInv
<1>16. AckInv'
  BY ZenonT(30), <1>0, <1>1, <1>5, <1>8, <1>9 DEF AckInv, Acked
<1>17. StoreIsLog'
  <2> DEFINE applied == IF applying = None THEN lastApplied ELSE applying.index
  <2>1. PICK n \in Nat : n = applied /\ Agree(chosen, chosen', n)
    <3>1. applied \in Nat /\ applied <= Len(chosen)
      <4>1. CASE applying = None
        BY <1>0, <1>5, <4>1 DEF CommitInv, Agree
      <4>2. CASE applying # None
        BY <1>0, <1>5, <4>2 DEF CommitInv, Agree
      <4> QED BY Zenon, <4>1, <4>2
    <3> HIDE DEF applied
    <3>2. Agree(chosen, chosen', applied)
      BY <1>5, <1>7, <3>1 DEF Agree
    <3> QED BY Zenon, <3>1, <3>2
  <2>2. \A x : ValueAfter(CommandsOf(chosen), n, x)
                 = ValueAfter(CommandsOf(chosen'), n, x)
    <3>1. Len(chosen) \in Nat /\ Len(chosen') \in Nat /\ Agree(chosen, chosen', n)
      BY Zenon, <1>5, <1>7, <2>1
    <3> QED BY Zenon, <3>1, ValueKept
  <2>3. \A x \in Key : store[x] = ValueAfter(CommandsOf(chosen), n, x)
    BY Zenon, <1>0, <2>1 DEF StoreIsLog, CommandsOf
  <2>4. \A x \in Key : store[x] = ValueAfter(CommandsOf(chosen'), n, x)
    BY Zenon, <2>2, <2>3
  <2> QED BY Zenon, <1>1, <2>1, <2>4 DEF StoreIsLog, CommandsOf
<1>18. SlotsInUse'
  BY Zenon, <1>0, <1>1 DEF SlotsInUse
<1> QED
  BY Zenon, <1>10, <1>11, <1>12, <1>13, <1>14, <1>15, <1>16, <1>17, <1>18
  DEF ServerInv

-----------------------------------------------------------------------------
(* The handlers.                                                           *)

\* PendingResult{} and replies without a result.
LEMMA PendingTypes ==
  /\ Pending \in Slot /\ ~Pending.applied
  /\ \A kind \in {"none", "redirect", "timeout", "lost", "ok", "closed"} :
       Plain(kind) \in Reply /\ Plain(kind).kind = kind
BY DEF Pending, Slot, Result, Plain, Reply

\* What executeCommand does to waiters_ before the wait and after it.
LEMMA TableIs ==
  ASSUME TypeOK, NEW n \in Nat \ {0}
  PROVE  /\ DOMAIN Emplace(n) = DOMAIN waiters \cup {n}
         /\ \A j \in DOMAIN waiters : Emplace(n)[j] = waiters[j]
         /\ n \notin DOMAIN waiters => Emplace(n)[n] = Pending
         /\ DOMAIN Emplace(n) \subseteq Nat \ {0}
         /\ Emplace(n) \in [DOMAIN Emplace(n) -> Slot]
         /\ DOMAIN Erase(n) = DOMAIN waiters \ {n}
         /\ \A j \in DOMAIN waiters \ {n} : Erase(n)[j] = waiters[j]
         /\ DOMAIN Erase(n) \subseteq Nat \ {0}
         /\ Erase(n) \in [DOMAIN Erase(n) -> Slot]
<1>1. /\ DOMAIN waiters \subseteq Nat \ {0}
      /\ \A j \in DOMAIN waiters : waiters[j] \in Slot
  BY DEF TypeOK, ServerTypes
<1>2. Pending \in Slot
  BY Zenon, PendingTypes
<1> QED BY <1>1, <1>2 DEF Emplace, Erase

\* submit accepts the command: it is appended, after everything that was
\* acknowledged so far, and gets a slot that nothing was delivered to.
LEMMA RegisterSteps ==
  ASSUME ServerInv, NEW h \in Handler, Register(h)
  PROVE  ServerInv'
<1>0. /\ TypeOK /\ CommitInv /\ LedInv /\ SubmitInv /\ ChosenInv /\ SlotInv
      /\ AckInv /\ StoreIsLog /\ SlotsInUse
  BY Zenon DEF ServerInv
<1>1. /\ pc[h] = "idle" /\ leading /\ Push(term, h)
      /\ result' = [result EXCEPT ![h] = [index |-> Len(log) + 1, term |-> term]]
      /\ waiters' = Emplace(Len(log) + 1)
      /\ pc' = [pc EXCEPT ![h] = "parked"]
      /\ before' = [before EXCEPT ![h] = Acked]
      /\ term' = term /\ leading' = leading /\ commit' = commit
      /\ chosen' = chosen /\ reply' = reply /\ store' = store
      /\ lastApplied' = lastApplied /\ applying' = applying
      /\ restarts' = restarts
  BY Zenon DEF Register
<1>2. term \in 1..MaxTerm /\ term \in Led
  BY <1>0, <1>1 DEF LedInv, Led, TypeOK, RaftTypes, Entry
<1>3. /\ log' \in Seq(Entry) /\ Len(log') = Len(log) + 1
      /\ \A k \in 1..Len(log) : log'[k] = log[k]
      /\ log'[Len(log) + 1] = [term |-> term, cmd |-> h]
  BY Zenon, <1>0, <1>1, <1>2, PushIs
<1>4. PICK a \in [index : Nat \ {0}, prev : Nat, entry : Entry] :
              /\ a.index = Len(log) + 1
              /\ a.entry = [term |-> term, cmd |-> h]
              /\ appended' = appended \cup {a}
  BY ZenonT(30), <1>0, <1>1, <1>2, PushIs
<1>5. /\ Len(log) \in Nat /\ Len(chosen) \in Nat /\ term \in Nat /\ commit \in Nat
      /\ \A k \in 1..Len(log) : log[k].term \in Nat
      /\ \A b \in appended : b.index \in Nat \ {0}
      /\ \A g \in Handler : result[g].index \in Nat
      /\ Len(log) + 1 \in Nat \ {0}
  BY <1>0, PartTypes
<1>6. a.entry.term = term /\ a.entry.cmd = h
  BY <1>4
<1>7. Led' = Led
  BY Zenon, <1>2, <1>4, <1>6 DEF Led
<1>8. /\ result' \in [Handler -> [index : Nat, term : Nat]]
      /\ result'[h] = [index |-> Len(log) + 1, term |-> term]
      /\ result'[h].index = Len(log) + 1 /\ result'[h].term = term
      /\ \A g \in Handler \ {h} : result'[g] = result[g]
      /\ pc' \in [Handler -> {"idle", "parked", "done"}] /\ pc'[h] = "parked"
      /\ \A g \in Handler \ {h} : pc'[g] = pc[g]
      /\ before' \in [Handler -> SUBSET Handler] /\ before'[h] = Acked
      /\ \A g \in Handler \ {h} : before'[g] = before[g]
  BY <1>0, <1>1, <1>5 DEF TypeOK, ServerTypes, Acked
<1>9. /\ DOMAIN waiters' = DOMAIN waiters \cup {Len(log) + 1}
      /\ \A j \in DOMAIN waiters : waiters'[j] = waiters[j]
      /\ Len(log) + 1 \notin DOMAIN waiters => waiters'[Len(log) + 1] = Pending
      /\ DOMAIN waiters' \subseteq Nat \ {0}
      /\ waiters' \in [DOMAIN waiters' -> Slot]
  BY Zenon, <1>0, <1>1, <1>5, TableIs
<1>10. TypeOK'
  <2>1. RaftTypes'
    BY <1>0, <1>1, <1>3, <1>4 DEF TypeOK, RaftTypes
  <2>2. ServerTypes'
    BY Zenon, <1>0, <1>1, <1>8, <1>9 DEF TypeOK, ServerTypes
  <2> QED BY Zenon, <2>1, <2>2 DEF TypeOK
<1>11. CommitInv'
  BY <1>0, <1>1, <1>3, <1>5 DEF CommitInv, Agree
<1>12. LedInv'
  <2>1. \A k \in 1..Len(log') : log'[k].term <= term
    <3>1. \A k \in 1..Len(log) : log'[k].term <= term
      BY <1>0, <1>3, <1>5 DEF LedInv
    <3>2. log'[Len(log) + 1].term = term
      BY <1>3
    <3> QED BY <1>3, <1>5, <3>1, <3>2
  <2>2. \A b \in appended : b.entry.term = term => b.index <= Len(log)
    BY Zenon, <1>0, <1>1 DEF LedInv
  <2>3. \A b \in appended : b.entry.term = term =>
                              b.index # Len(log) + 1 /\ b.index <= Len(log) + 1
    BY <1>5, <2>2
  <2>4. \A b \in appended' : b.entry.term <= term
    BY <1>0, <1>4, <1>5, <1>6 DEF LedInv
  <2>5. \A b, d \in appended' :
          b.index = d.index /\ b.entry.term = d.entry.term => b = d
    BY Zenon, <1>0, <1>4, <1>6, <2>3 DEF LedInv
  <2>6. \A b \in appended' : b.entry.term = term => b.index <= Len(log')
    BY <1>3, <1>4, <1>5, <2>3
  <2> QED BY Zenon, <1>1, <1>2, <1>7, <2>1, <2>4, <2>5, <2>6 DEF LedInv
<1>13. SubmitInv'
  <2>1. ASSUME NEW b \in appended PROVE b.entry.cmd # h
    <3>1. b.entry.cmd \in Handler => pc[b.entry.cmd] # "idle"
      BY Zenon, <1>0 DEF SubmitInv
    <3> QED BY Zenon, <1>1, <3>1
  <2>2. "parked" # "idle" /\ "idle" # "done" /\ "parked" # "done"
    OBVIOUS
  <2>3. ASSUME NEW b \in appended', b.entry.cmd \in Handler
        PROVE  /\ pc'[b.entry.cmd] # "idle"
               /\ result'[b.entry.cmd] = [index |-> b.index, term |-> b.entry.term]
    <3>1. CASE b \in appended
      <4>1. /\ pc[b.entry.cmd] # "idle"
            /\ result[b.entry.cmd] = [index |-> b.index, term |-> b.entry.term]
        BY Zenon, <1>0, <2>3, <3>1 DEF SubmitInv
      <4>2. b.entry.cmd \in Handler \ {h}
        BY Zenon, <2>1, <2>3, <3>1
      <4> QED BY Zenon, <1>8, <4>1, <4>2
    <3>2. CASE b = a
      BY Zenon, <1>4, <1>6, <1>8, <2>2, <3>2
    <3> QED BY Zenon, <1>4, <3>1, <3>2
  <2>4. \A g \in Handler : pc'[g] # "done" => reply'[g].kind = "none"
    BY Zenon, <1>0, <1>1, <1>8, <2>2 DEF SubmitInv
  <2>5. ASSUME NEW g \in Handler, pc'[g] = "parked"
        PROVE  \E b \in appended' : /\ b.index = result'[g].index
                                    /\ b.entry = [term |-> result'[g].term, cmd |-> g]
    <3>1. CASE g = h
      BY Zenon, <1>4, <1>8, <3>1
    <3>2. CASE g # h
      <4>1. pc[g] = "parked" /\ result'[g] = result[g]
        BY Zenon, <1>8, <2>5, <3>2
      <4>2. PICK b \in appended : /\ b.index = result[g].index
                                  /\ b.entry = [term |-> result[g].term, cmd |-> g]
        BY Zenon, <1>0, <4>1 DEF SubmitInv
      <4> QED BY Zenon, <1>4, <4>1, <4>2
    <3> QED BY Zenon, <3>1, <3>2
  <2> QED BY Zenon, <2>3, <2>4, <2>5 DEF SubmitInv
<1>14. ChosenInv'
  BY Zenon, <1>0, <1>1, <1>4, <1>7 DEF ChosenInv
<1>15. SlotInv'
  <2>1. ASSUME NEW n \in DOMAIN waiters', waiters'[n].applied
        PROVE  n \in DOMAIN waiters /\ waiters'[n] = waiters[n]
    BY Zenon, <1>9, <2>1, PendingTypes
  <2> QED BY Zenon, <1>0, <1>1, <2>1 DEF SlotInv
<1>16. AckInv'
  <2>1. h \notin Acked /\ before[h] = {} /\ reply[h].kind # "lost"
    BY Zenon, <1>0, <1>1, "idle" # "done", "none" # "ok", "none" # "lost"
    DEF SubmitInv, AckInv, Acked
  <2>2. Acked' = Acked /\ Acked \subseteq Handler
    BY Zenon, <1>1 DEF Acked
  <2>3. \A n \in Nat : Agree(log, chosen, n) => Agree(log', chosen', n)
    BY <1>1, <1>3, <1>5 DEF Agree
  <2>4. ASSUME NEW g \in Acked'
        PROVE  /\ result'[g].index \in 1..Len(chosen')
               /\ chosen'[result'[g].index].cmd = g
               /\ AnswerIn(chosen', result'[g].index, reply'[g].answer)
               /\ Agree(log', chosen', result'[g].index)
    <3>1. g \in Acked /\ g \in Handler /\ result'[g] = result[g]
      BY Zenon, <1>8, <2>1, <2>2
    <3>2. /\ result[g].index \in 1..Len(chosen)
          /\ chosen[result[g].index].cmd = g
          /\ AnswerIn(chosen, result[g].index, reply[g].answer)
          /\ Agree(log, chosen, result[g].index)
      BY Zenon, <1>0, <3>1 DEF AckInv
    <3> QED BY Zenon, <1>1, <1>5, <2>3, <3>1, <3>2
  <2>5. ASSUME NEW g \in Handler, NEW f \in before'[g]
        PROVE  pc'[g] # "idle" /\ f \in Acked' /\ result'[f].index < result'[g].index
    <3>1. CASE g = h
      <4>1. f \in Acked /\ result'[f] = result[f] /\ f \in Handler
        BY Zenon, <1>8, <2>1, <2>2, <2>5, <3>1
      <4>2. result[f].index <= Len(log)
        BY Zenon, <1>0, <4>1 DEF AckInv, Agree
      <4>3. result'[f].index < result'[g].index
        BY <1>5, <1>8, <3>1, <4>1, <4>2
      <4>4. pc'[g] # "idle"
        BY <1>8, <3>1
      <4> QED BY Zenon, <2>2, <4>1, <4>3, <4>4
    <3>2. CASE g # h
      <4>1. f \in before[g] /\ pc'[g] = pc[g] /\ result'[g] = result[g]
        BY Zenon, <1>8, <2>5, <3>2
      <4>2. pc[g] # "idle" /\ f \in Acked /\ result[f].index < result[g].index
        BY Zenon, <1>0, <4>1 DEF AckInv
      <4> QED BY Zenon, <1>8, <2>1, <2>2, <4>1, <4>2
    <3> QED BY Zenon, <3>1, <3>2
  <2>6. ASSUME NEW g \in Handler, reply'[g].kind = "lost"
        PROVE  /\ result'[g].index \in 1..Len(chosen')
               /\ chosen'[result'[g].index].cmd # g
    BY Zenon, <1>0, <1>1, <1>8, <2>1, <2>6 DEF AckInv
  <2> QED BY Zenon, <2>4, <2>5, <2>6 DEF AckInv
<1>17. StoreIsLog'
  BY Zenon, <1>0, <1>1 DEF StoreIsLog
<1>18. SlotsInUse'
  <2>1. ASSUME NEW n \in DOMAIN waiters'
        PROVE  \E g \in Handler : pc'[g] = "parked" /\ result'[g].index = n
    <3>1. CASE n = Len(log) + 1
      BY Zenon, <1>8, <3>1
    <3>2. CASE n # Len(log) + 1
      <4>1. PICK g \in Handler : pc[g] = "parked" /\ result[g].index = n
        BY Zenon, <1>0, <1>9, <3>2 DEF SlotsInUse
      <4>2. g # h
        BY Zenon, <1>1, <4>1, "idle" # "parked"
      <4> QED BY Zenon, <1>8, <4>1, <4>2
    <3> QED BY Zenon, <3>1, <3>2
  <2> QED BY Zenon, <2>1 DEF SlotsInUse
<1> QED
  BY Zenon, <1>10, <1>11, <1>12, <1>13, <1>14, <1>15, <1>16, <1>17, <1>18
  DEF ServerInv

\* A node that is not the leader sends the client elsewhere.
LEMMA RedirectSteps ==
  ASSUME ServerInv, NEW h \in Handler, Redirect(h)
  PROVE  ServerInv'
<1>0. /\ TypeOK /\ CommitInv /\ LedInv /\ SubmitInv /\ ChosenInv /\ SlotInv
      /\ AckInv /\ StoreIsLog /\ SlotsInUse
  BY Zenon DEF ServerInv
<1>1. /\ pc[h] = "idle" /\ pc' = [pc EXCEPT ![h] = "done"]
      /\ reply' = [reply EXCEPT ![h] = Plain("redirect")]
      /\ term' = term /\ leading' = leading /\ log' = log /\ commit' = commit
      /\ chosen' = chosen /\ appended' = appended
      /\ result' = result /\ waiters' = waiters /\ store' = store
      /\ lastApplied' = lastApplied /\ applying' = applying
      /\ before' = before /\ restarts' = restarts
  BY Zenon DEF Redirect, raftVars
<1>2. Plain("redirect") \in Reply /\ Plain("redirect").kind = "redirect"
  BY PendingTypes
<1>3. /\ pc' \in [Handler -> {"idle", "parked", "done"}] /\ pc'[h] = "done"
      /\ \A g \in Handler \ {h} : pc'[g] = pc[g]
      /\ reply' \in [Handler -> Reply] /\ reply'[h] = Plain("redirect")
      /\ \A g \in Handler \ {h} : reply'[g] = reply[g]
  BY <1>0, <1>1, <1>2 DEF TypeOK, ServerTypes
<1>4. reply[h].kind = "none" /\ reply'[h].kind = "redirect"
  BY <1>0, <1>1, <1>2, <1>3 DEF SubmitInv
<1>5. Acked' = Acked /\ h \notin Acked
  BY <1>3, <1>4 DEF Acked
<1>10. TypeOK'
  BY Zenon, <1>0, <1>1, <1>3 DEF TypeOK, RaftTypes, ServerTypes
<1>11. CommitInv'
  BY Zenon, <1>0, <1>1 DEF CommitInv
<1>12. LedInv'
  BY Zenon, <1>0, <1>1 DEF LedInv, Led
<1>13. SubmitInv'
  <2>1. \A g \in Handler : pc[g] # "idle" => pc'[g] # "idle"
    BY Zenon, <1>1, <1>3
  <2>2. \A g \in Handler : pc'[g] # "done" => reply'[g].kind = "none"
    BY Zenon, <1>0, <1>3 DEF SubmitInv
  <2>3. \A g \in Handler : pc'[g] = "parked" => pc[g] = "parked"
    BY Zenon, <1>3
  <2> QED BY Zenon, <1>0, <1>1, <2>1, <2>2, <2>3 DEF SubmitInv
<1>14. ChosenInv'
  BY Zenon, <1>0, <1>1 DEF ChosenInv, Led
<1>15. SlotInv'
  BY Zenon, <1>0, <1>1 DEF SlotInv
<1>16. AckInv'
  <2>1. \A g \in Acked : reply'[g] = reply[g]
    BY Zenon, <1>3, <1>5 DEF Acked
  <2>2. \A g \in Handler : reply'[g].kind = "lost" => reply[g].kind = "lost"
    BY <1>3, <1>4
  <2>3. \A g \in Handler : pc[g] # "idle" => pc'[g] # "idle"
    BY Zenon, <1>1, <1>3
  <2> QED BY Zenon, <1>0, <1>1, <1>5, <2>1, <2>2, <2>3 DEF AckInv
<1>17. StoreIsLog'
  BY Zenon, <1>0, <1>1 DEF StoreIsLog
<1>18. SlotsInUse'
  <2>1. \A g \in Handler : pc[g] = "parked" => pc'[g] = "parked"
    BY Zenon, <1>1, <1>3
  <2> QED BY Zenon, <1>0, <1>1, <2>1 DEF SlotsInUse
<1> QED
  BY Zenon, <1>10, <1>11, <1>12, <1>13, <1>14, <1>15, <1>16, <1>17, <1>18
  DEF ServerInv

\* What the wait ended with: an acknowledged command is the one applied at its
\* index, and a lost one lost its index to the entry of another term.
LEMMA OutcomeIs ==
  ASSUME ServerInv, NEW h \in Handler, pc[h] = "parked", NEW slot,
         slot = IF result[h].index \in DOMAIN waiters
                THEN waiters[result[h].index] ELSE Pending
  PROVE  LET out == Outcome(slot, result[h])
         IN  /\ out \in Reply
             /\ out.kind \in {"lost", "ok"} =>
                  /\ result[h].index \in 1..Len(chosen)
                  /\ Agree(log, chosen, result[h].index)
             /\ out.kind = "ok" =>
                  /\ chosen[result[h].index].cmd = h
                  /\ AnswerIn(chosen, result[h].index, out.answer)
             /\ out.kind = "lost" => chosen[result[h].index].cmd # h
<1>0. /\ TypeOK /\ CommitInv /\ LedInv /\ SubmitInv /\ ChosenInv /\ SlotInv
      /\ AckInv /\ StoreIsLog /\ SlotsInUse
  BY Zenon DEF ServerInv
<1> DEFINE n == result[h].index
           out == Outcome(slot, result[h])
<1>1. /\ Len(log) \in Nat /\ Len(chosen) \in Nat /\ commit \in Nat
      /\ n \in Nat /\ lastApplied \in Nat
  BY Zenon, <1>0, PartTypes
<1>2. slot \in Slot
  BY Zenon, <1>0, PendingTypes DEF TypeOK, ServerTypes
<1>3. CASE ~slot.applied
  <2>1. out = Plain("timeout")
    BY Zenon, <1>3 DEF Outcome
  <2>2. out.kind = "timeout" /\ out \in Reply
    BY <2>1, PendingTypes
  <2> QED BY <2>2
<1>4. CASE slot.applied
  <2>1. /\ n \in DOMAIN waiters /\ slot = waiters[n]
    BY Zenon, <1>4, PendingTypes
  <2>2. /\ n <= lastApplied /\ slot.term = chosen[n].term
        /\ AnswerIn(chosen, n, slot.answer)
    BY Zenon, <1>0, <1>4, <2>1 DEF SlotInv
  <2>3. n \in 1..Len(chosen) /\ Agree(log, chosen, n)
    <3>1. n # 0
      BY <1>0, <2>1 DEF TypeOK, ServerTypes
    <3> HIDE DEF n
    <3> QED BY <1>0, <1>1, <2>2, <3>1 DEF CommitInv, Agree
  <2>4. chosen[n].cmd = h => chosen[n].term = result[h].term
    <3> SUFFICES ASSUME chosen[n].cmd = h PROVE chosen[n].term = result[h].term
      OBVIOUS
    <3>1. PICK a \in appended : a.index = n /\ a.entry = chosen[n]
      BY Zenon, <1>0, <2>3 DEF ChosenInv
    <3>2. a.entry.cmd = h
      BY Zenon, <3>1
    <3>3. result[a.entry.cmd] = [index |-> a.index, term |-> a.entry.term]
      BY Zenon, <1>0, <3>2 DEF SubmitInv
    <3> QED BY <3>1, <3>2, <3>3
  <2>5. chosen[n].term = result[h].term => chosen[n].cmd = h
    <3> SUFFICES ASSUME chosen[n].term = result[h].term PROVE chosen[n].cmd = h
      OBVIOUS
    <3>1. PICK a \in appended : /\ a.index = n
                                /\ a.entry = [term |-> result[h].term, cmd |-> h]
      BY Zenon, <1>0 DEF SubmitInv
    <3>2. a.entry.term = result[h].term /\ a.entry.cmd = h
      BY <3>1
    <3>3. chosen[n].term \in Led
      BY Zenon, <3>1, <3>2 DEF Led
    <3>4. PICK b \in appended : b.index = n /\ b.entry = chosen[n]
      BY Zenon, <1>0, <2>3, <3>3 DEF ChosenInv
    <3>5. a = b
      BY ZenonT(30), <1>0, <3>1, <3>2, <3>4 DEF LedInv
    <3> QED BY Zenon, <3>2, <3>4, <3>5
  <2>6. CASE slot.term # result[h].term
    <3>1. out = Plain("lost")
      BY Zenon, <1>4, <2>6 DEF Outcome
    <3>2. out.kind = "lost" /\ out \in Reply
      BY <3>1, PendingTypes
    <3>3. chosen[n].cmd # h
      BY Zenon, <2>2, <2>4, <2>6
    <3> QED BY <2>3, <3>2, <3>3
  <2>7. CASE slot.term = result[h].term
    <3>1. out = [kind |-> "ok", answer |-> slot.answer]
      BY Zenon, <1>4, <2>7 DEF Outcome
    <3>2. slot.answer \in Result
      BY <1>2 DEF Slot
    <3>3. /\ out.kind = "ok" /\ out.answer = slot.answer
          /\ out \in Reply
      BY <3>1, <3>2 DEF Reply
    <3>4. chosen[n].cmd = h
      BY Zenon, <2>2, <2>5, <2>7
    <3> QED BY <2>2, <2>3, <3>3, <3>4
  <2> QED BY Zenon, <2>6, <2>7
<1> QED BY Zenon, <1>3, <1>4

\* The handler answers and erases its slot.
LEMMA FinishSteps ==
  ASSUME ServerInv, NEW h \in Handler, Finish(h)
  PROVE  ServerInv'
<1>0. /\ TypeOK /\ CommitInv /\ LedInv /\ SubmitInv /\ ChosenInv /\ SlotInv
      /\ AckInv /\ StoreIsLog /\ SlotsInUse
  BY Zenon DEF ServerInv
<1> DEFINE n == result[h].index
           slot == IF n \in DOMAIN waiters THEN waiters[n] ELSE Pending
           out == Outcome(slot, result[h])
<1>1. /\ pc[h] = "parked" /\ pc' = [pc EXCEPT ![h] = "done"]
      /\ reply' = [reply EXCEPT ![h] = out] /\ waiters' = Erase(n)
      /\ term' = term /\ leading' = leading /\ log' = log /\ commit' = commit
      /\ chosen' = chosen /\ appended' = appended
      /\ result' = result /\ store' = store /\ lastApplied' = lastApplied
      /\ applying' = applying /\ before' = before /\ restarts' = restarts
  BY Zenon DEF Finish, raftVars
<1>2. /\ out \in Reply
      /\ out.kind = "ok" =>
           /\ n \in 1..Len(chosen) /\ Agree(log, chosen, n)
           /\ chosen[n].cmd = h /\ AnswerIn(chosen, n, out.answer)
      /\ out.kind = "lost" => n \in 1..Len(chosen) /\ chosen[n].cmd # h
  BY Zenon, <1>1, OutcomeIs
<1>3. n \in Nat \ {0}
  <2>1. PICK a \in appended : a.index = n
    BY Zenon, <1>0, <1>1 DEF SubmitInv
  <2> QED BY Zenon, <1>0, <2>1, PartTypes
<1> HIDE DEF n, out
<1>4. /\ pc' \in [Handler -> {"idle", "parked", "done"}] /\ pc'[h] = "done"
      /\ \A g \in Handler \ {h} : pc'[g] = pc[g]
      /\ reply' \in [Handler -> Reply] /\ reply'[h] = out
      /\ \A g \in Handler \ {h} : reply'[g] = reply[g]
  BY <1>0, <1>1, <1>2 DEF TypeOK, ServerTypes
<1>5. /\ DOMAIN waiters' = DOMAIN waiters \ {n}
      /\ \A j \in DOMAIN waiters \ {n} : waiters'[j] = waiters[j]
      /\ DOMAIN waiters' \subseteq Nat \ {0}
      /\ waiters' \in [DOMAIN waiters' -> Slot]
  BY Zenon, <1>0, <1>1, <1>3, TableIs
<1>6. reply[h].kind = "none"
  BY <1>0, <1>1 DEF SubmitInv
<1>7. /\ h \notin Acked /\ Acked \subseteq Acked'
      /\ \A g \in Acked' : g = h \/ g \in Acked
      /\ h \in Acked' => out.kind = "ok"
  BY <1>4, <1>6 DEF Acked
<1>10. TypeOK'
  BY Zenon, <1>0, <1>1, <1>4, <1>5 DEF TypeOK, RaftTypes, ServerTypes
<1>11. CommitInv'
  BY Zenon, <1>0, <1>1 DEF CommitInv
<1>12. LedInv'
  BY Zenon, <1>0, <1>1 DEF LedInv, Led
<1>13. SubmitInv'
  <2>1. \A g \in Handler : pc[g] # "idle" => pc'[g] # "idle"
    BY <1>4
  <2>2. \A g \in Handler : pc'[g] # "done" => reply'[g].kind = "none"
    BY Zenon, <1>0, <1>4 DEF SubmitInv
  <2>3. \A g \in Handler : pc'[g] = "parked" => pc[g] = "parked"
    BY <1>4
  <2> QED BY Zenon, <1>0, <1>1, <2>1, <2>2, <2>3 DEF SubmitInv
<1>14. ChosenInv'
  BY Zenon, <1>0, <1>1 DEF ChosenInv, Led
<1>15. SlotInv'
  BY Zenon, <1>0, <1>1, <1>5 DEF SlotInv
<1>16. AckInv'
  <2>1. \A g \in Acked : reply'[g] = reply[g]
    BY Zenon, <1>4, <1>7 DEF Acked
  <2>2. ASSUME NEW g \in Acked'
        PROVE  /\ result[g].index \in 1..Len(chosen)
               /\ chosen[result[g].index].cmd = g
               /\ AnswerIn(chosen, result[g].index, reply'[g].answer)
               /\ Agree(log, chosen, result[g].index)
    <3>1. CASE g = h
      BY Zenon, <1>2, <1>4, <1>7, <3>1 DEF n
    <3>2. CASE g \in Acked
      BY Zenon, <1>0, <2>1, <3>2 DEF AckInv
    <3> QED BY Zenon, <1>7, <3>1, <3>2
  <2>3. ASSUME NEW g \in Handler, reply'[g].kind = "lost"
        PROVE  /\ result[g].index \in 1..Len(chosen)
               /\ chosen[result[g].index].cmd # g
    <3>1. CASE g = h
      BY Zenon, <1>2, <1>4, <2>3, <3>1 DEF n
    <3>2. CASE g # h
      BY Zenon, <1>0, <1>4, <2>3, <3>2 DEF AckInv
    <3> QED BY Zenon, <3>1, <3>2
  <2>4. \A g \in Handler : pc[g] # "idle" => pc'[g] # "idle"
    BY <1>4
  <2>5. \A g \in Handler : \A f \in before[g] :
          pc'[g] # "idle" /\ f \in Acked' /\ result[f].index < result[g].index
    BY Zenon, <1>0, <1>7, <2>4 DEF AckInv
  <2> QED BY Zenon, <1>1, <2>2, <2>3, <2>5 DEF AckInv
<1>17. StoreIsLog'
  BY Zenon, <1>0, <1>1 DEF StoreIsLog
<1>18. SlotsInUse'
  <2>1. ASSUME NEW m \in DOMAIN waiters'
        PROVE  \E g \in Handler : pc'[g] = "parked" /\ result[g].index = m
    <3>1. m \in DOMAIN waiters /\ m # n
      BY Zenon, <1>5
    <3>2. PICK g \in Handler : pc[g] = "parked" /\ result[g].index = m
      BY Zenon, <1>0, <3>1 DEF SlotsInUse
    <3>3. g # h
      BY Zenon, <3>1, <3>2 DEF n
    <3> QED BY Zenon, <1>4, <3>2, <3>3
  <2> QED BY Zenon, <1>1, <2>1 DEF SlotsInUse
<1> QED
  BY Zenon, <1>10, <1>11, <1>12, <1>13, <1>14, <1>15, <1>16, <1>17, <1>18
  DEF ServerInv

-----------------------------------------------------------------------------
(* The applier and the restart.                                            *)

\* What onApply computes from a store and a command.
LEMMA ApplyTypes ==
  ASSUME NEW st \in [Key -> Value \cup {Missing}],
         NEW c \in ClientCommand \cup {NoOp}
  PROVE  /\ Apply(st, c) \in [Key -> Value \cup {Missing}]
         /\ Answer(st, c) \in Result
<1>1. CASE c = NoOp
  BY <1>1 DEF NoOp, Apply, Answer, Result
<1>2. CASE c \in [op : {"get", "del"}, key : Key]
  BY <1>2 DEF Apply, Answer, Result
<1>3. CASE c \in [op : {"set"}, key : Key, value : Value]
  BY <1>3 DEF Apply, Answer, Result
<1> QED BY Zenon, <1>1, <1>2, <1>3 DEF ClientCommand

\* The commands of the cluster's log.
LEMMA CommandIs ==
  ASSUME TypeOK, NEW n \in 1..Len(chosen)
  PROVE  /\ CommandAt(chosen, n) \in ClientCommand \cup {NoOp}
         /\ CommandsOf(chosen)[n] = CommandAt(chosen, n)
<1>1. chosen[n] \in Entry
  BY Zenon, PartTypes
<1>2. chosen[n].cmd \in Handler \cup ClientCommand \cup {NoOp}
  BY <1>1 DEF Entry
<1>3. \A h \in Handler : Command[h] \in ClientCommand
  BY Zenon, CommandAssumption
<1>4. CommandAt(chosen, n) \in ClientCommand \cup {NoOp}
  BY Zenon, <1>2, <1>3 DEF CommandAt
<1> QED BY Zenon, <1>4 DEF CommandsOf

\* onApply executes the next committed entry on the store: its answer and the
\* store after it are those of the cluster's log.
LEMMA ExecuteSteps ==
  ASSUME ServerInv, Execute
  PROVE  ServerInv'
<1>0. /\ TypeOK /\ CommitInv /\ LedInv /\ SubmitInv /\ ChosenInv /\ SlotInv
      /\ AckInv /\ StoreIsLog /\ SlotsInUse
  BY Zenon DEF ServerInv
<1> DEFINE n == lastApplied + 1
           c == CommandAt(log, n)
<1>1. /\ applying = None /\ lastApplied < commit /\ store' = Apply(store, c)
      /\ applying' = [index |-> n, term |-> log[n].term,
                      answer |-> Answer(store, c)]
      /\ term' = term /\ leading' = leading /\ log' = log /\ commit' = commit
      /\ chosen' = chosen /\ appended' = appended
      /\ pc' = pc /\ result' = result /\ reply' = reply /\ waiters' = waiters
      /\ lastApplied' = lastApplied /\ before' = before /\ restarts' = restarts
  BY Zenon DEF Execute, raftVars
<1>2. /\ lastApplied \in Nat /\ Len(chosen) \in Nat
      /\ \A k \in 1..Len(chosen) : chosen[k].term \in Nat
  BY Zenon, <1>0, PartTypes
<1>3. /\ n \in Nat \ {0} /\ n \in 1..Len(chosen) /\ n <= commit /\ log[n] = chosen[n]
      /\ n - 1 = lastApplied
  <2>1. commit \in Nat /\ Len(log) \in Nat
    BY Zenon, <1>0, PartTypes
  <2> QED BY <1>0, <1>1, <1>2, <2>1 DEF CommitInv, Agree
<1>4. c = CommandAt(chosen, n)
  BY Zenon, <1>3 DEF CommandAt
<1>5. c \in ClientCommand \cup {NoOp} /\ CommandsOf(chosen)[n] = c
  BY Zenon, <1>0, <1>3, <1>4, CommandIs
<1>6. store \in [Key -> Value \cup {Missing}]
  BY Zenon, <1>0 DEF TypeOK, ServerTypes
<1>7. Apply(store, c) \in [Key -> Value \cup {Missing}] /\ Answer(store, c) \in Result
  BY Zenon, <1>5, <1>6, ApplyTypes
<1>8. /\ applying' \in [index : Nat, term : Nat, answer : Result]
      /\ applying'.index = n /\ applying'.term = chosen[n].term
      /\ applying'.answer = Answer(store, c) /\ applying' # None
  <2>1. log[n].term = chosen[n].term /\ log[n].term \in Nat
    BY Zenon, <1>2, <1>3
  <2> HIDE DEF n, c
  <2>2. /\ applying' \in [index : Nat, term : Nat, answer : Result]
        /\ applying'.index = n /\ applying'.term = log[n].term
        /\ applying'.answer = Answer(store, c)
    BY <1>1, <1>3, <1>7, <2>1
  <2>3. None.index = 0
    BY DEF None
  <2> QED BY Zenon, <1>3, <2>1, <2>2, <2>3
<1>9. \A k \in Key : store[k] = ValueAfter(CommandsOf(chosen), lastApplied, k)
  BY Zenon, <1>0, <1>1 DEF StoreIsLog, CommandsOf
<1>10. TypeOK'
  BY Zenon, <1>0, <1>1, <1>7 DEF TypeOK, RaftTypes, ServerTypes
<1>11. CommitInv'
  BY Zenon, <1>0, <1>1, <1>3, <1>8 DEF CommitInv
<1>12. LedInv'
  BY Zenon, <1>0, <1>1 DEF LedInv, Led
<1>13. SubmitInv'
  BY Zenon, <1>0, <1>1 DEF SubmitInv
<1>14. ChosenInv'
  BY Zenon, <1>0, <1>1 DEF ChosenInv, Led
<1>15. SlotInv'
  <2>1. AnswerIn(chosen, n, Answer(store, c))
    <3> HIDE DEF n
    <3>1. c.op \in {"get", "del"} => c.key \in Key
      BY <1>5 DEF ClientCommand, NoOp
    <3>2. c.op \in {"get", "del"} =>
            store[c.key] = ValueAfter(CommandsOf(chosen), n - 1, c.key)
      BY Zenon, <1>3, <1>9, <3>1
    <3>3. /\ c.op = "get" => Answer(store, c).value = store[c.key]
          /\ c.op = "del" => (Answer(store, c).existed <=> store[c.key] # Missing)
      <4> HIDE DEF c
      <4> QED BY Zenon DEF Answer
    <3> QED BY Zenon, <1>4, <3>2, <3>3 DEF AnswerIn
  <2> QED BY Zenon, <1>0, <1>1, <1>8, <2>1 DEF SlotInv
<1>16. AckInv'
  BY Zenon, <1>0, <1>1 DEF AckInv, Acked
<1>17. StoreIsLog'
  <2>1. ASSUME NEW k \in Key
        PROVE  store'[k] = ValueAfter(CommandsOf(chosen), n, k)
    <3>1. store[k] = ValueAfter(CommandsOf(chosen), lastApplied, k)
      BY Zenon, <1>9
    <3> QED BY Zenon, <1>1, <1>2, <1>5, <1>6, <3>1, ValueNext
  <2> QED BY Zenon, <1>1, <1>8, <2>1 DEF StoreIsLog, CommandsOf
<1>18. SlotsInUse'
  BY Zenon, <1>0, <1>1 DEF SlotsInUse
<1> QED
  BY Zenon, <1>10, <1>11, <1>12, <1>13, <1>14, <1>15, <1>16, <1>17, <1>18
  DEF ServerInv

\* onApply delivers what it executed to whoever waits at that index.
LEMMA DeliverSteps ==
  ASSUME ServerInv, Deliver
  PROVE  ServerInv'
<1>0. /\ TypeOK /\ CommitInv /\ LedInv /\ SubmitInv /\ ChosenInv /\ SlotInv
      /\ AckInv /\ StoreIsLog /\ SlotsInUse
  BY Zenon DEF ServerInv
<1>1. /\ applying # None /\ lastApplied' = applying.index /\ applying' = None
      /\ waiters' = [k \in DOMAIN waiters |->
                       IF k = applying.index THEN Delivered ELSE waiters[k]]
      /\ term' = term /\ leading' = leading /\ log' = log /\ commit' = commit
      /\ chosen' = chosen /\ appended' = appended
      /\ pc' = pc /\ result' = result /\ reply' = reply /\ store' = store
      /\ before' = before /\ restarts' = restarts
  BY Zenon DEF Deliver, raftVars
<1>2. /\ applying \in [index : Nat, term : Nat, answer : Result]
      /\ applying.index = lastApplied + 1 /\ applying.index <= commit
  BY Zenon, <1>0, <1>1 DEF CommitInv
<1>3. /\ applying.index \in Nat
      /\ Delivered \in Slot /\ Delivered.term = applying.term
      /\ Delivered.answer = applying.answer
  BY <1>2 DEF Delivered, Slot
<1>4. /\ DOMAIN waiters' = DOMAIN waiters
      /\ \A k \in DOMAIN waiters :
           waiters'[k] = IF k = applying.index THEN Delivered ELSE waiters[k]
  BY Zenon, <1>1
<1>5. waiters' \in [DOMAIN waiters' -> Slot]
  <2>1. \A k \in DOMAIN waiters : waiters[k] \in Slot
    BY Zenon, <1>0 DEF TypeOK, ServerTypes
  <2> QED BY Zenon, <1>1, <1>3, <2>1
<1>10. TypeOK'
  BY Zenon, <1>0, <1>1, <1>3, <1>4, <1>5 DEF TypeOK, RaftTypes, ServerTypes
<1>11. CommitInv'
  BY Zenon, <1>0, <1>1, <1>2 DEF CommitInv
<1>12. LedInv'
  BY Zenon, <1>0, <1>1 DEF LedInv, Led
<1>13. SubmitInv'
  BY Zenon, <1>0, <1>1 DEF SubmitInv
<1>14. ChosenInv'
  BY Zenon, <1>0, <1>1 DEF ChosenInv, Led
<1>15. SlotInv'
  <2>1. ASSUME NEW n \in DOMAIN waiters, waiters'[n].applied
        PROVE  /\ n <= applying.index /\ waiters'[n].term = chosen[n].term
               /\ AnswerIn(chosen, n, waiters'[n].answer)
    <3>1. CASE n = applying.index
      <4>1. n <= applying.index
        BY <1>3, <3>1
      <4> QED BY Zenon, <1>0, <1>1, <1>3, <1>4, <3>1, <4>1 DEF SlotInv
    <3>2. CASE n # applying.index
      <4>1. waiters'[n] = waiters[n]
        BY Zenon, <1>4, <3>2
      <4>2. /\ n <= lastApplied /\ waiters[n].term = chosen[n].term
            /\ AnswerIn(chosen, n, waiters[n].answer)
        BY Zenon, <1>0, <2>1, <4>1 DEF SlotInv
      <4>3. n \in Nat /\ lastApplied \in Nat
        BY Zenon, <1>0 DEF TypeOK, ServerTypes
      <4>4. n <= applying.index
        BY <1>2, <4>2, <4>3
      <4> QED BY Zenon, <4>1, <4>2, <4>4
    <3> QED BY Zenon, <3>1, <3>2
  <2> QED BY Zenon, <1>1, <1>4, <2>1 DEF SlotInv
<1>16. AckInv'
  BY Zenon, <1>0, <1>1 DEF AckInv, Acked
<1>17. StoreIsLog'
  BY Zenon, <1>0, <1>1 DEF StoreIsLog
<1>18. SlotsInUse'
  BY Zenon, <1>0, <1>1, <1>4 DEF SlotsInUse
<1> QED
  BY Zenon, <1>10, <1>11, <1>12, <1>13, <1>14, <1>15, <1>16, <1>17, <1>18
  DEF ServerInv

\* The process is killed and started again: memory is gone, the log is not.
LEMMA RestartSteps ==
  ASSUME ServerInv, Restart
  PROVE  ServerInv'
<1>0. /\ TypeOK /\ CommitInv /\ LedInv /\ SubmitInv /\ ChosenInv /\ SlotInv
      /\ AckInv /\ StoreIsLog /\ SlotsInUse
  BY Zenon DEF ServerInv
<1>1. /\ restarts < MaxRestarts /\ restarts' = restarts + 1
      /\ leading' = FALSE /\ commit' = 0
      /\ pc' = [h \in Handler |-> IF pc[h] = "parked" THEN "done" ELSE pc[h]]
      /\ reply' = [h \in Handler |-> IF pc[h] = "parked" THEN Plain("closed")
                                                         ELSE reply[h]]
      /\ waiters' = <<>> /\ store' = EmptyStore /\ lastApplied' = 0
      /\ applying' = None /\ term' = term /\ log' = log /\ chosen' = chosen
      /\ appended' = appended /\ result' = result /\ before' = before
  BY Zenon DEF Restart
<1>2. Plain("closed") \in Reply /\ Plain("closed").kind = "closed"
  BY PendingTypes
<1>3. /\ pc' \in [Handler -> {"idle", "parked", "done"}]
      /\ reply' \in [Handler -> Reply]
      /\ \A h \in Handler : /\ pc'[h] # "parked"
                            /\ pc[h] # "idle" => pc'[h] # "idle"
                            /\ pc'[h] # "done" => pc[h] # "done"
  BY <1>0, <1>1, <1>2 DEF TypeOK, ServerTypes
<1>4. \A h \in Handler : /\ pc[h] = "parked" => reply[h].kind = "none"
                         /\ pc[h] # "parked" => reply'[h] = reply[h]
                         /\ pc[h] = "parked" => reply'[h] = Plain("closed")
  <2>1. \A h \in Handler : pc[h] = "parked" => pc[h] # "done"
    OBVIOUS
  <2> QED BY Zenon, <1>0, <1>1, <2>1 DEF SubmitInv
<1>5. \A h \in Handler : reply'[h].kind \in {"ok", "lost"} => reply'[h] = reply[h]
  BY <1>2, <1>4
<1>6. Acked' = Acked
  <2>1. \A h \in Handler : reply[h].kind = "ok" => reply'[h] = reply[h]
    BY <1>4
  <2> QED BY Zenon, <1>5, <2>1 DEF Acked
<1>7. DOMAIN waiters' = {}
  BY <1>1
<1>8. Len(log) \in Nat /\ Len(chosen) \in Nat
  BY Zenon, <1>0, PartTypes
<1>10. TypeOK'
  <2>1. RaftTypes'
    BY Zenon, <1>0, <1>1 DEF TypeOK, RaftTypes
  <2>2. waiters' \in [DOMAIN waiters' -> Slot]
    BY <1>1
  <2>3. restarts' \in 0..MaxRestarts
    BY <1>0, <1>1, BoundsAssumption DEF TypeOK, ServerTypes
  <2>4. store' \in [Key -> Value \cup {Missing}]
    BY <1>1 DEF EmptyStore
  <2>5. lastApplied' \in Nat
    BY <1>1
  <2>6. ServerTypes'
    BY Zenon, <1>0, <1>1, <1>3, <1>7, <2>2, <2>3, <2>4, <2>5 DEF TypeOK, ServerTypes
  <2> QED BY Zenon, <2>1, <2>6 DEF TypeOK
<1>11. CommitInv'
  BY <1>1, <1>8 DEF CommitInv, Agree
<1>12. LedInv'
  BY Zenon, <1>0, <1>1 DEF LedInv, Led
<1>13. SubmitInv'
  <2>1. \A h \in Handler : pc'[h] # "done" => reply'[h].kind = "none"
    BY <1>0, <1>1, <1>3, <1>4 DEF SubmitInv
  <2> QED BY Zenon, <1>0, <1>1, <1>3, <2>1 DEF SubmitInv
<1>14. ChosenInv'
  BY Zenon, <1>0, <1>1 DEF ChosenInv, Led
<1>15. SlotInv'
  BY Zenon, <1>1, <1>7 DEF SlotInv
<1>16. AckInv'
  <2>1. \A h \in Acked : reply'[h] = reply[h]
    BY <1>5, <1>6 DEF Acked
  <2>2. \A h \in Handler : reply'[h].kind = "lost" => reply[h].kind = "lost"
    BY <1>5
  <2> QED BY Zenon, <1>0, <1>1, <1>3, <1>6, <2>1, <2>2 DEF AckInv
<1>17. StoreIsLog'
  <2>1. \A cs, k : ValueAfter(cs, 0, k) = Missing
    BY DEF ValueAfter
  <2>2. \A k \in Key : store'[k] = Missing
    BY Zenon, <1>1 DEF EmptyStore
  <2> QED BY Zenon, <1>1, <2>1, <2>2 DEF StoreIsLog
<1>18. SlotsInUse'
  BY Zenon, <1>7 DEF SlotsInUse
<1> QED
  BY Zenon, <1>10, <1>11, <1>12, <1>13, <1>14, <1>15, <1>16, <1>17, <1>18
  DEF ServerInv

-----------------------------------------------------------------------------
(* The inductive invariant and what follows from it.                       *)

\* The state at the start: nothing was appended, committed or answered.
LEMMA ServerInvInit == Init => ServerInv
<1> SUFFICES ASSUME Init PROVE ServerInv
  OBVIOUS
<1>1. /\ term = 0 /\ leading = FALSE /\ log = <<>> /\ commit = 0 /\ chosen = <<>>
      /\ appended = {}
      /\ pc = [h \in Handler |-> "idle"] /\ result = [h \in Handler |-> None]
      /\ reply = [h \in Handler |-> Plain("none")] /\ waiters = <<>>
      /\ store = EmptyStore /\ lastApplied = 0 /\ applying = None
      /\ before = [h \in Handler |-> {}] /\ restarts = 0
  BY Zenon DEF Init, RaftInit
<1>2. Plain("none") \in Reply /\ Plain("none").kind = "none"
  BY PendingTypes
<1>3. /\ DOMAIN waiters = {} /\ Len(log) = 0 /\ Len(chosen) = 0
      /\ \A h \in Handler : pc[h] = "idle" /\ reply[h].kind = "none"
      /\ Acked = {} /\ \A h \in Handler : before[h] = {}
  BY <1>1, <1>2 DEF Acked
<1>10. TypeOK
  <2>1. RaftTypes
    <3>1. 0 \in 0..MaxTerm /\ 0 \in Nat /\ <<>> \in Seq(Entry)
      BY BoundsAssumption
    <3> QED BY Zenon, <1>1, <3>1 DEF RaftTypes
  <2>2. result \in [Handler -> [index : Nat, term : Nat]]
    BY <1>1 DEF None
  <2>3. reply \in [Handler -> Reply]
    BY <1>1, <1>2
  <2>4. store \in [Key -> Value \cup {Missing}]
    BY <1>1 DEF EmptyStore
  <2>5. waiters \in [DOMAIN waiters -> Slot]
    BY <1>1
  <2>6. ServerTypes
    BY <1>1, <1>3, <2>2, <2>3, <2>4, <2>5, BoundsAssumption DEF ServerTypes
  <2> QED BY Zenon, <2>1, <2>6 DEF TypeOK
<1>11. CommitInv
  BY <1>1, <1>3 DEF CommitInv, Agree
<1>12. LedInv
  BY <1>1, <1>3 DEF LedInv
<1>13. SubmitInv
  BY <1>1, <1>3 DEF SubmitInv
<1>14. ChosenInv
  BY <1>3 DEF ChosenInv
<1>15. SlotInv
  BY <1>1, <1>3 DEF SlotInv
<1>16. AckInv
  BY <1>3 DEF AckInv
<1>17. StoreIsLog
  <2>1. \A cs, k : ValueAfter(cs, 0, k) = Missing
    BY DEF ValueAfter
  <2>2. \A k \in Key : store[k] = Missing
    BY Zenon, <1>1 DEF EmptyStore
  <2> QED BY Zenon, <1>1, <2>1, <2>2 DEF StoreIsLog
<1>18. SlotsInUse
  BY Zenon, <1>3 DEF SlotsInUse
<1> QED
  BY Zenon, <1>10, <1>11, <1>12, <1>13, <1>14, <1>15, <1>16, <1>17, <1>18
  DEF ServerInv

\* The invariant behind the properties below holds in every reachable state,
\* for any number of handlers, whatever their commands, the other leaders, the
\* time-outs and the restarts do in what order.
THEOREM ServerInvAlways == Spec => []ServerInv
<1>1. ServerInv /\ [Next]_vars => ServerInv'
  <2> SUFFICES ASSUME ServerInv, [Next]_vars PROVE ServerInv'
    OBVIOUS
  <2>1. CASE RaftStep /\ UNCHANGED serverVars
    BY Zenon, <2>1, BecomeLeaderSteps, StepDownSteps, AcceptSteps, CommitSteps,
       ChooseSteps DEF RaftStep
  <2>2. ASSUME NEW h \in Handler, Register(h) \/ Redirect(h) \/ Wake(h) \/ TimeOut(h)
        PROVE  ServerInv'
    BY Zenon, <2>2, RegisterSteps, RedirectSteps, FinishSteps DEF Wake, TimeOut
  <2>3. CASE Execute
    BY Zenon, <2>3, ExecuteSteps
  <2>4. CASE Deliver
    BY Zenon, <2>4, DeliverSteps
  <2>5. CASE Restart
    BY Zenon, <2>5, RestartSteps
  <2>6. CASE UNCHANGED vars
    <3>1. /\ term' = term /\ leading' = leading /\ log' = log /\ commit' = commit
          /\ chosen' = chosen /\ appended' = appended /\ pc' = pc
          /\ result' = result /\ reply' = reply /\ waiters' = waiters
          /\ store' = store /\ lastApplied' = lastApplied
          /\ applying' = applying /\ before' = before /\ restarts' = restarts
      BY Zenon, <2>6 DEF vars, raftVars, serverVars
    <3>2. TypeOK' /\ CommitInv'
      BY Zenon, <3>1 DEF ServerInv, TypeOK, RaftTypes, ServerTypes, CommitInv
    <3>3. LedInv' /\ SubmitInv' /\ ChosenInv'
      BY Zenon, <3>1 DEF ServerInv, LedInv, Led, SubmitInv, ChosenInv
    <3>4. SlotInv' /\ SlotsInUse' /\ StoreIsLog'
      BY Zenon, <3>1 DEF ServerInv, SlotInv, SlotsInUse, StoreIsLog
    <3>5. AckInv'
      BY Zenon, <3>1 DEF ServerInv, AckInv, Acked
    <3> QED BY Zenon, <3>2, <3>3, <3>4, <3>5 DEF ServerInv
  <2> QED BY Zenon, <2>1, <2>2, <2>3, <2>4, <2>5, <2>6 DEF Next
<1> QED BY <1>1, ServerInvInit, PTL DEF Spec

\* A command of a handler stands in the cluster's log only where submit said.
LEMMA OnlyAtItsIndex ==
  ASSUME ServerInv, NEW h \in Handler, NEW k \in 1..Len(chosen), chosen[k].cmd = h
  PROVE  k = result[h].index
<1>1. PICK a \in appended : a.index = k /\ a.entry = chosen[k]
  BY Zenon DEF ServerInv, ChosenInv
<1>2. a.entry.cmd = h
  BY Zenon, <1>1
<1>3. result[a.entry.cmd] = [index |-> a.index, term |-> a.entry.term]
  BY Zenon, <1>2 DEF ServerInv, SubmitInv
<1> QED BY <1>1, <1>2, <1>3

\* Operations are linearizable: what executeCommand acknowledges is committed
\* once, at its index, with the answer the log gives there, after everything
\* acknowledged before it was submitted.
THEOREM OperationsLinearizable == Spec => []Linearizable
<1>1. ServerInv => Linearizable
  <2> SUFFICES ASSUME ServerInv, NEW h \in Acked
               PROVE  /\ {k \in 1..Len(chosen) : chosen[k].cmd = h} = {result[h].index}
                      /\ AnswerFromLog(h)
                      /\ \A g \in before[h] : result[g].index < result[h].index
    BY Zenon DEF Linearizable
  <2>1. h \in Handler
    BY Zenon DEF Acked
  <2>2. /\ result[h].index \in 1..Len(chosen)
        /\ chosen[result[h].index].cmd = h
        /\ AnswerIn(chosen, result[h].index, reply[h].answer)
        /\ \A g \in before[h] : result[g].index < result[h].index
    BY Zenon, <2>1 DEF ServerInv, AckInv
  <2>3. {k \in 1..Len(chosen) : chosen[k].cmd = h} = {result[h].index}
    BY Zenon, <2>1, <2>2, OnlyAtItsIndex
  <2>4. CommandAt(chosen, result[h].index) = Command[h]
    BY Zenon, <2>1, <2>2 DEF CommandAt
  <2>5. AnswerFromLog(h)
    BY Zenon, <2>2, <2>4 DEF AnswerFromLog, AnswerIn, CommandsOf
  <2> QED BY Zenon, <2>2, <2>3, <2>5
<1> QED BY <1>1, ServerInvAlways, PTL

\* What executeCommand reports as lost is never committed.
THEOREM LostNeverCommitted == Spec => []LostIsDiscarded
<1>1. ServerInv => LostIsDiscarded
  BY Zenon, OnlyAtItsIndex DEF ServerInv, AckInv, LostIsDiscarded
<1> QED BY <1>1, ServerInvAlways, PTL

\* store_ is what the applied prefix of the cluster's log makes of an empty
\* store.
THEOREM StoreFollowsLog == Spec => []StoreIsLog
<1>1. ServerInv => StoreIsLog
  BY Zenon DEF ServerInv
<1> QED BY <1>1, ServerInvAlways, PTL

\* waiters_ holds no slot that no handler waits for.
THEOREM NoSlotLeftBehind == Spec => []SlotsInUse
<1>1. ServerInv => SlotsInUse
  BY Zenon DEF ServerInv
<1> QED BY <1>1, ServerInvAlways, PTL

=============================================================================

------------------------------ MODULE KVStore ------------------------------
(***************************************************************************)
(* The replicated state machine of kv_store.cpp and what Server::onApply   *)
(* does with it: a store is a function from keys to values, Missing where  *)
(* the map has no such key.  A command is a record [op, key, value]; the   *)
(* no-op of a new leader is the command whose op is "noop".                *)
(***************************************************************************)
EXTENDS Integers, Sequences, FiniteSets, FiniteSetsExt

CONSTANTS
  Key,      \* keys of the store
  Value,    \* values clients write
  Missing   \* what is found under a key that is not in the map

ASSUME MissingAssumption == Missing \notin Value

\* std::unordered_map::data_ before anything was applied.
EmptyStore == [k \in Key |-> Missing]

\* struct Command: what a client can ask for.  Only SET uses the value.
ClientCommand == [op : {"get", "del"}, key : Key]
                   \cup [op : {"set"}, key : Key, value : Value]

\* What a node makes of an empty raw command.
NoOp == [op |-> "noop"]

\* Mutant: a value already there is kept, as emplace would.
Apply_KeepsFirst(store, cmd) ==
  IF cmd.op = "set" /\ store[cmd.key] = Missing
  THEN [store EXCEPT ![cmd.key] = cmd.value]
  ELSE store

\* The store after a command: KVStore::set and KVStore::remove.
Apply(store, cmd) ==
  CASE cmd.op = "set" -> [store EXCEPT ![cmd.key] = cmd.value]
    [] cmd.op = "del" -> [store EXCEPT ![cmd.key] = Missing]
    [] OTHER -> store

\* What onApply hands back: the result of KVStore::get, that of
\* KVStore::remove.
Answer(store, cmd) ==
  [value   |-> IF cmd.op = "get" THEN store[cmd.key] ELSE Missing,
   existed |-> cmd.op = "del" /\ store[cmd.key] # Missing]

\* The reference: after the first n commands of cs, key k holds what the last
\* command that writes k left there.
ValueAfter(cs, n, k) ==
  LET writes == {j \in 1..n : cs[j].op \in {"set", "del"} /\ cs[j].key = k}
  IN  IF writes = {} \/ cs[Max(writes)].op = "del"
      THEN Missing
      ELSE cs[Max(writes)].value

=============================================================================

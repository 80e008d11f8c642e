---------------------------- MODULE ReplicatedLog ----------------------------
(***************************************************************************)
(* What the raft layer promises to the servers above it: there is one      *)
(* committed log, it only grows, and what a node hands to its state        *)
(* machine is a prefix of it.  A node forgets how far it got when its      *)
(* process dies (commitIndex_ and lastApplied_ start from 0) and learns it *)
(* again.                                                                  *)
(***************************************************************************)
EXTENDS Integers, Sequences

CONSTANTS Node, Entry

VARIABLES
  committed,  \* the committed log
  known       \* known[i]: the prefix of it that node i knows is committed

vars == <<committed, known>>

\* A cluster starts with what its disks hold.
Init == committed \in Seq(Entry) /\ known = [i \in Node |-> <<>>]

\* Node i commits new entries.
Extend(i) ==
  /\ Len(committed') > Len(committed)
  /\ SubSeq(committed', 1, Len(committed)) = committed
  /\ committed' \in Seq(Entry)
  /\ known' = [known EXCEPT ![i] = committed']

\* Node i learns of more committed entries.
Learn(i) ==
  /\ UNCHANGED committed
  /\ \E n \in (Len(known[i]) + 1)..Len(committed) :
       known' = [known EXCEPT ![i] = SubSeq(committed, 1, n)]

\* The process of node i restarts.
Forget(i) ==
  /\ known[i] # <<>>
  /\ UNCHANGED committed
  /\ known' = [known EXCEPT ![i] = <<>>]

Next == \E i \in Node : Extend(i) \/ Learn(i) \/ Forget(i)

Spec == Init /\ [][Next]_vars

=============================================================================

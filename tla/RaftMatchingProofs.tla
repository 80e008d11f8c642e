------------------------- MODULE RaftMatchingProofs -------------------------
(***************************************************************************)
(* Logs as paths through the entries that were created, and what merging   *)
(* the entries of a call makes of one.  Every step of Raft keeps the parts *)
(* of the inductive invariant that are about entries, AppendEntries calls  *)
(* and confirmations.                                                      *)
(***************************************************************************)
EXTENDS RaftStepProofs

-----------------------------------------------------------------------------
(* Logs and their beginnings.                                              *)

\* The entries of logs have terms.
LEMMA EntryTerm ==
  ASSUME NEW lg \in Seq(Entry), NEW k \in 1..Len(lg)
  PROVE  lg[k] \in Entry /\ lg[k].term \in Nat
<1>1. lg[k] \in Entry
  OBVIOUS
<1> QED BY Zenon, <1>1 DEF Entry

\* The beginning of a log.
LEMMA Beginning ==
  ASSUME NEW lg \in Seq(Entry), NEW n \in 0..Len(lg)
  PROVE  /\ SubSeq(lg, 1, n) \in Seq(Entry) /\ Len(SubSeq(lg, 1, n)) = n
         /\ SameUpTo(SubSeq(lg, 1, n), lg, n)
<1>1. n \in Nat /\ Len(lg) \in Nat /\ n <= Len(lg)
  OBVIOUS
<1>2. /\ SubSeq(lg, 1, n) \in Seq(Entry)
      /\ Len(SubSeq(lg, 1, n)) = n
      /\ \A k \in 1..n : SubSeq(lg, 1, n)[k] = lg[k]
  BY <1>1, SubSeqIs
<1> QED BY <1>1, <1>2 DEF SameUpTo

\* A log with one more entry.
LEMMA OneMore ==
  ASSUME NEW lg \in Seq(Entry), NEW e \in Entry
  PROVE  /\ Append(lg, e) \in Seq(Entry) /\ Len(Append(lg, e)) = Len(lg) + 1
         /\ SameUpTo(lg, Append(lg, e), Len(lg))
         /\ Append(lg, e)[Len(lg) + 1] = e
BY DEF SameUpTo

\* Agreement up to n is agreement up to less.
LEMMA SameShorter ==
  ASSUME NEW s, NEW t, NEW n \in Nat, SameUpTo(s, t, n), NEW m \in 0..n,
         Len(s) \in Nat, Len(t) \in Nat
  PROVE  SameUpTo(s, t, m)
BY DEF SameUpTo

\* Agreement up to n is symmetric.
LEMMA SameSwapped ==
  ASSUME NEW s, NEW t, NEW n, SameUpTo(s, t, n)
  PROVE  SameUpTo(t, s, n)
BY Zenon DEF SameUpTo

\* Agreement up to n is transitive.
LEMMA SameTrans ==
  ASSUME NEW s, NEW t, NEW u, NEW n, SameUpTo(s, t, n), SameUpTo(t, u, n)
  PROVE  SameUpTo(s, u, n)
BY Zenon DEF SameUpTo

-----------------------------------------------------------------------------
(* Paths along the branches of a set S of items.                           *)

\* The entry of a log at an index, as an item.
ItemAt(lg, k) == [index |-> k, entry |-> lg[k], prev |-> TermAt(lg, k - 1)]

\* Every entry of lg is an item of S.
PathIn(lg, S) == lg \in Seq(Entry) /\ Items(0, 0, lg) \subseteq S

\* The items of a log are the entries with the terms before them.
LEMMA LogItems ==
  ASSUME NEW lg \in Seq(Entry)
  PROVE  Items(0, 0, lg) = {ItemAt(lg, k) : k \in 1..Len(lg)}
<1>1. ASSUME NEW k \in 1..Len(lg)
      PROVE  [index |-> 0 + k, entry |-> lg[k],
              prev |-> IF k = 1 THEN 0 ELSE lg[k - 1].term] = ItemAt(lg, k)
  <2>1. 0 + k = k /\ (k = 1 <=> k - 1 = 0)
    OBVIOUS
  <2> QED BY Zenon, <2>1 DEF ItemAt, TermAt
<1> QED BY Zenon, <1>1 DEF Items

\* What a path says about one index.
LEMMA OnPath ==
  ASSUME NEW S, NEW lg, PathIn(lg, S), NEW k \in 1..Len(lg)
  PROVE  /\ ItemAt(lg, k) \in S
         /\ ItemAt(lg, k).index = k
         /\ ItemAt(lg, k).entry = lg[k]
         /\ ItemAt(lg, k).prev = TermAt(lg, k - 1)
         /\ lg[k] \in Entry /\ lg[k].term \in Nat
<1>1. ItemAt(lg, k) \in S
  BY Zenon, LogItems DEF PathIn
<1>2. lg[k] \in Entry /\ lg[k].term \in Nat
  BY Zenon, EntryTerm DEF PathIn
<1> QED BY Zenon, <1>1, <1>2 DEF ItemAt

\* Logs that agree up to n have the same items up to n.
LEMMA SameItems ==
  ASSUME NEW lg, NEW lg2, NEW n, SameUpTo(lg, lg2, n), NEW k \in 1..n, n \in Nat
  PROVE  ItemAt(lg, k) = ItemAt(lg2, k)
<1>1. lg[k] = lg2[k] /\ (k - 1 = 0 \/ k - 1 \in 1..n)
  BY DEF SameUpTo
<1>2. TermAt(lg, k - 1) = TermAt(lg2, k - 1)
  BY Zenon, <1>1 DEF TermAt, SameUpTo
<1> QED BY Zenon, <1>1, <1>2 DEF ItemAt

\* Terms do not go down along a path.
LEMMA TermsGoUp ==
  ASSUME SetFacts, NEW S, OneBranchPerTerm(S), NEW lg, PathIn(lg, S),
         NEW k \in 1..Len(lg), NEW n \in 1..k
  PROVE  lg[n].term <= lg[k].term
<1> DEFINE T == {j \in n..k : lg[j].term > lg[k].term}
<1> SUFFICES ASSUME T # {} PROVE FALSE
  <2>1. n \in n..k /\ lg[n].term \in Nat /\ lg[k].term \in Nat
    BY EntryTerm DEF PathIn
  <2> QED BY <2>1
<1> DEFINE j == Max(T)
<1>1. j \in T /\ \A x \in T : j >= x
  <2>1. T \in SUBSET Nat /\ k \in Nat /\ \A x \in T : x <= k
    OBVIOUS
  <2> HIDE DEF T
  <2> QED BY Zenon, <2>1, MaxIs
<1>2. j \in n..k /\ lg[j].term > lg[k].term
  BY Zenon, <1>1
<1> HIDE DEF j
<1>3. j \in 1..Len(lg) /\ lg[j].term \in Nat /\ lg[k].term \in Nat /\ Len(lg) \in Nat
  BY <1>2, EntryTerm DEF PathIn
<1>4. j + 1 \in n..k
  BY <1>2, <1>3
<1>5. lg[j + 1].term <= lg[k].term
  <2>1. j + 1 \notin T
    BY <1>1, <1>2
  <2>2. j + 1 \in 1..Len(lg)
    BY <1>3, <1>4
  <2>3. lg[j + 1].term \in Nat
    BY Zenon, <2>2, EntryTerm DEF PathIn
  <2> QED BY <1>3, <1>4, <2>1, <2>3
<1>6. TermAt(lg, j) <= lg[j + 1].term
  <2>1. j + 1 \in 1..Len(lg) /\ (j + 1) - 1 = j
    BY <1>3, <1>4
  <2>2. ItemAt(lg, j + 1).prev <= ItemAt(lg, j + 1).entry.term
    BY Zenon, <2>1, OnPath DEF OneBranchPerTerm
  <2> QED BY <2>1, <2>2, OnPath
<1>7. TermAt(lg, j) = lg[j].term
  BY <1>3 DEF TermAt
<1>8. lg[j + 1].term \in Nat
  BY <1>3, <1>4, EntryTerm DEF PathIn
<1> QED BY <1>2, <1>3, <1>5, <1>6, <1>7, <1>8

\* Two paths that meet in a term at an index have been one path up to it.
LEMMA PathsMatch ==
  ASSUME SetFacts, NEW S, OneBranchPerTerm(S), NEW lg, PathIn(lg, S), NEW lh, PathIn(lh, S),
         NEW k \in 1..Len(lg), k <= Len(lh), lg[k].term = lh[k].term
  PROVE  SameUpTo(lg, lh, k)
<1>0. Len(lg) \in Nat /\ Len(lh) \in Nat
  BY DEF PathIn
<1> DEFINE T == {j \in 1..k : lg[j].term # lh[j].term}
<1>1. ASSUME NEW j \in 1..k, lg[j].term = lh[j].term
      PROVE  ItemAt(lg, j) = ItemAt(lh, j)
  <2>1. j \in 1..Len(lg) /\ j \in 1..Len(lh)
    BY <1>0
  <2>2. /\ ItemAt(lg, j) \in S /\ ItemAt(lg, j).index = j
        /\ ItemAt(lg, j).entry = lg[j]
    BY <2>1, OnPath
  <2>3. /\ ItemAt(lh, j) \in S /\ ItemAt(lh, j).index = j
        /\ ItemAt(lh, j).entry = lh[j]
    BY <2>1, OnPath
  <2> QED BY Zenon, <1>1, <2>2, <2>3 DEF OneBranchPerTerm
<1>2. T = {}
  <2> SUFFICES ASSUME T # {} PROVE FALSE
    BY Zenon
  <2> DEFINE j == Max(T)
  <2>1. j \in T /\ \A x \in T : j >= x
    <3>1. T \in SUBSET Nat /\ k \in Nat /\ \A x \in T : x <= k
      OBVIOUS
    <3> HIDE DEF T
    <3> QED BY Zenon, <3>1, MaxIs
  <2>2. j \in 1..k /\ lg[j].term # lh[j].term
    BY Zenon, <2>1
  <2> HIDE DEF j
  <2>3. j + 1 \in 1..k /\ (j + 1) - 1 = j /\ j # 0
    BY <2>2
  <2>4. j + 1 \notin T
    BY <2>1, <2>2
  <2>5. ItemAt(lg, j + 1) = ItemAt(lh, j + 1)
    BY Zenon, <1>1, <2>3, <2>4
  <2>6. TermAt(lg, j) = TermAt(lh, j)
    <3>1. /\ ItemAt(lg, j + 1).prev = TermAt(lg, j)
          /\ ItemAt(lh, j + 1).prev = TermAt(lh, j)
      BY Zenon, <2>3 DEF ItemAt
    <3> QED BY Zenon, <2>5, <3>1
  <2> QED BY Zenon, <2>2, <2>3, <2>6 DEF TermAt
<1>3. ASSUME NEW j \in 1..k PROVE lg[j] = lh[j]
  <2>1. j \in 1..Len(lg) /\ j \in 1..Len(lh)
    BY <1>0
  <2>2. ItemAt(lg, j) = ItemAt(lh, j)
    <3>1. lg[j].term = lh[j].term
      BY Zenon, <1>2
    <3> QED BY Zenon, <1>1, <3>1
  <2>3. ItemAt(lg, j).entry = lg[j] /\ ItemAt(lh, j).entry = lh[j]
    BY Zenon DEF ItemAt
  <2> QED BY Zenon, <2>2, <2>3
<1> QED BY <1>0, <1>3 DEF SameUpTo

\* A path that has a term at or after the index of an item of that term goes
\* through that item.
LEMMA PathThrough ==
  ASSUME SetFacts, NEW S, OneBranchPerTerm(S), NEW lg, PathIn(lg, S), NEW a \in S,
         NEW k \in 1..Len(lg), a.index \in 1..k, lg[k].term = a.entry.term
  PROVE  lg[a.index].term = a.entry.term
<1> DEFINE n == a.index
           T == {j \in n..k : lg[j].term # a.entry.term}
<1>0. Len(lg) \in Nat
  BY DEF PathIn
<1> SUFFICES ASSUME T # {} PROVE FALSE
  BY n \in n..k
<1> DEFINE j == Max(T)
<1>1. j \in T /\ \A x \in T : j >= x
  <2>1. T \in SUBSET Nat /\ k \in Nat /\ \A x \in T : x <= k
    OBVIOUS
  <2> HIDE DEF T
  <2> QED BY Zenon, <2>1, MaxIs
<1>2. j \in n..k /\ lg[j].term # a.entry.term
  BY Zenon, <1>1
<1> HIDE DEF j
<1>3. j + 1 \in n..k /\ (j + 1) - 1 = j /\ j # 0 /\ n < j + 1
  BY <1>2
<1>4. j + 1 \notin T
  BY <1>1, <1>2
<1>5. lg[j + 1].term = a.entry.term
  BY Zenon, <1>3, <1>4
<1>6. j + 1 \in 1..Len(lg)
  BY <1>0, <1>3
<1> DEFINE b == ItemAt(lg, j + 1)
<1>7. /\ b \in S /\ b.index = j + 1 /\ b.entry = lg[j + 1]
      /\ b.prev = TermAt(lg, j)
  BY <1>3, <1>6, OnPath
<1> HIDE DEF b
<1>8. b.prev = a.entry.term
  BY Zenon, <1>3, <1>5, <1>7 DEF OneBranchPerTerm
<1> QED BY Zenon, <1>2, <1>3, <1>7, <1>8 DEF TermAt

\* Nothing of a term beyond that of lg[n] is off the path of lg up to n.
NoneBeside(lg, n, S) ==
  \A a \in S : a.entry.term > lg[n].term => a.index > n /\ a.prev >= lg[n].term

\* A path that reaches the term of lg[n] at n or later, or a higher term
\* anywhere, contains lg up to n when nothing of a higher term is beside it.
LEMMA PathContains ==
  ASSUME SetFacts, NEW S, OneBranchPerTerm(S), NEW lg, PathIn(lg, S), NEW lh, PathIn(lh, S),
         NEW n \in 1..Len(lg), NoneBeside(lg, n, S),
         NEW k \in 1..Len(lh), lh[k].term >= lg[n].term,
         lh[k].term > lg[n].term \/ k >= n
  PROVE  SameUpTo(lg, lh, n)
<1> DEFINE t == lg[n].term
           T == {j \in 1..k : lh[j].term > t}
<1>0. /\ Len(lg) \in Nat /\ Len(lh) \in Nat /\ t \in Nat /\ lg[n] \in Entry
      /\ \A j \in 1..Len(lh) : lh[j].term \in Nat
  BY EntryTerm DEF PathIn
<1>1. ASSUME NEW j \in n..k, lh[j].term = t PROVE SameUpTo(lg, lh, n)
  <2>1. j \in 1..Len(lh) /\ n \in 1..j
    BY <1>0, <1>1
  <2> DEFINE a == ItemAt(lg, n)
  <2>2. a \in S /\ a.index = n /\ a.entry = lg[n]
    BY OnPath
  <2> HIDE DEF a
  <2>3. lh[n].term = t
    <3>1. lh[a.index].term = a.entry.term
      BY Zenon, <1>1, <2>1, <2>2, PathThrough
    <3> QED BY Zenon, <2>2, <3>1
  <2>4. n <= Len(lh)
    BY <1>0, <2>1
  <2> QED BY Zenon, <2>3, <2>4, PathsMatch
<1>2. CASE T = {}
  <2>1. k \in 1..k /\ lh[k].term \in Nat
    BY <1>0
  <2>2. ~(lh[k].term > t)
    BY Zenon, <1>2, <2>1
  <2>3. lh[k].term = t /\ k \in n..k
    BY <1>0, <2>1, <2>2
  <2> QED BY Zenon, <1>1, <2>3
<1>3. CASE T # {}
  <2> DEFINE j == Min(T)
  <2>1. j \in T /\ \A x \in T : j <= x
    <3>1. T \in SUBSET Nat
      OBVIOUS
    <3> HIDE DEF T
    <3> QED BY Zenon, <1>3, <3>1, MinIs
  <2>2. j \in 1..k /\ lh[j].term > t
    BY Zenon, <2>1
  <2> HIDE DEF j
  <2>3. j \in 1..Len(lh)
    BY <1>0, <2>2
  <2>4. j > n /\ TermAt(lh, j - 1) >= t
    <3>1. /\ ItemAt(lh, j) \in S /\ ItemAt(lh, j).index = j
          /\ ItemAt(lh, j).entry.term > lg[n].term
          /\ ItemAt(lh, j).prev = TermAt(lh, j - 1)
      <4>1. ItemAt(lh, j) \in S
        BY Zenon, <2>3, OnPath
      <4> QED BY Zenon, <2>2, <4>1 DEF ItemAt
    <3> QED BY Zenon, <3>1 DEF NoneBeside
  <2>5. j - 1 \in n..k /\ j - 1 \in 1..Len(lh) /\ j - 1 # 0 /\ j - 1 \in 1..k
    BY <1>0, <2>2, <2>4
  <2>6. ~(lh[j - 1].term > t)
    <3>1. j - 1 \notin T
      BY <2>1, <2>2
    <3> QED BY Zenon, <2>5, <3>1
  <2>7. lh[j - 1].term = t
    BY <1>0, <2>4, <2>5, <2>6 DEF TermAt
  <2> QED BY Zenon, <1>1, <2>5, <2>7
<1> QED BY Zenon, <1>2, <1>3

-----------------------------------------------------------------------------
(* The log of a node that accepts an AppendEntries.                        *)

\* The log is kept up to the first divergence and not a step further.
LEMMA KeptDiverges ==
  ASSUME SetFacts, NEW S, NEW lg \in Seq(S), NEW es \in Seq(S), NEW prev \in 0..Len(lg)
  PROVE  LET kept == Kept(lg, prev, es)
         IN  \/ kept = Len(lg) /\ prev + Len(es) <= kept
             \/ /\ kept < prev + Len(es)
                /\ kept < Len(lg) => lg[kept + 1].term # es[kept + 1 - prev].term
<1> DEFINE F == Fresh(lg, prev, es)
           kept == Kept(lg, prev, es)
<1>1. CASE F = {}
  <2>1. kept = Len(lg)
    BY Zenon, <1>1 DEF Kept
  <2>2. kept \in prev..Len(lg) /\ (kept < prev + Len(es) => kept - prev + 1 \in F)
    <3>1. kept - prev + 1 \in 1..Len(es) => kept - prev + 1 \in F
      BY <2>1 DEF Fresh
    <3> HIDE DEF F
    <3> QED BY <2>1, <3>1
  <2> QED BY <1>1, <2>1, <2>2
<1>2. CASE F # {}
  <2> DEFINE f == Min(F)
  <2>1. F \in SUBSET Nat
    BY DEF Fresh
  <2>2. f \in F
    BY Zenon, <1>2, <2>1, MinIs
  <2>3. kept = prev + f - 1
    BY Zenon, <1>2 DEF Kept
  <2>4. f \in 1..Len(es) /\ (prev + f > Len(lg) \/ lg[prev + f].term # es[f].term)
    BY Zenon, <2>2 DEF Fresh
  <2> HIDE DEF f, kept, F
  <2>5. kept < prev + Len(es) /\ kept + 1 = prev + f /\ kept + 1 - prev = f
    BY <2>3, <2>4
  <2>6. kept < Len(lg) => ~(prev + f > Len(lg))
    BY <2>3, <2>4, <2>5
  <2> QED BY Zenon, <2>4, <2>5, <2>6 DEF kept
<1> QED BY Zenon, <1>1, <1>2

\* lg is what accepting es after prev makes of the log old, perhaps cut short
\* by a crash: old is kept up to where es diverges, and entries of es follow.
Takes(old, prev, es, lg) ==
  \E kept \in prev..Len(old) :
    /\ kept <= Len(lg)
    /\ \A k \in 1..kept : lg[k] = old[k]
    /\ \A k \in 1..Len(lg) :
         k > kept => k - prev \in 1..Len(es) /\ lg[k] = es[k - prev]
    /\ \A k \in 1..Len(es) : prev + k <= kept => old[prev + k].term = es[k].term
    /\ \/ kept = Len(old) /\ Len(lg) = kept /\ prev + Len(es) <= kept
       \/ /\ kept < prev + Len(es)
          /\ kept < Len(old) => old[kept + 1].term # es[kept + 1 - prev].term

\* Merge, and every part of it that a crash may leave, is such a log.
LEMMA MergeTakes ==
  ASSUME SetFacts, NEW old \in Seq(Entry), NEW es \in Seq(Entry), NEW prev \in 0..Len(old),
         NEW n \in Kept(old, prev, es)..Len(Merge(old, prev, es))
  PROVE  LET lg == SubSeq(Merge(old, prev, es), 1, n)
         IN  /\ lg \in Seq(Entry) /\ Len(lg) = n
             /\ Takes(old, prev, es, lg)
<1> DEFINE new == Merge(old, prev, es)
           kept == Kept(old, prev, es)
           lg == SubSeq(new, 1, n)
<1>1. /\ new \in Seq(Entry)
      /\ Len(new) = IF kept >= prev + Len(es) THEN kept ELSE prev + Len(es)
      /\ \A k \in 1..kept : new[k] = old[k]
      /\ \A k \in 1..Len(es) : prev + k > kept => new[prev + k] = es[k]
  <2>1. new \in Seq(Entry)
    BY Zenon, MergeIs
  <2>2. Len(new) = IF kept >= prev + Len(es) THEN kept ELSE prev + Len(es)
    BY Zenon, MergeIs
  <2>3. \A k \in 1..kept : new[k] = old[k]
    BY MergeIs
  <2>4. \A k \in 1..Len(es) : prev + k > kept => new[prev + k] = es[k]
    BY MergeIs
  <2> QED BY Zenon, <2>1, <2>2, <2>3, <2>4
<1>2. /\ kept \in prev..Len(old)
      /\ \A k \in 1..(kept - prev) : k <= Len(es) => old[prev + k].term = es[k].term
  BY KeptIs
<1>3. \/ kept = Len(old) /\ prev + Len(es) <= kept
      \/ /\ kept < prev + Len(es)
         /\ kept < Len(old) => old[kept + 1].term # es[kept + 1 - prev].term
  BY Zenon, KeptDiverges
<1>4. n \in kept..Len(new)
  BY Zenon
<1>5. lg \in Seq(Entry) /\ Len(lg) = n /\ \A k \in 1..n : lg[k] = new[k]
  <2>1. new \in Seq(Entry)
    BY Zenon, <1>1, <1>2, <1>4
  <2>2. n \in Nat /\ n <= Len(new)
    BY <1>2, <1>4
  <2>3. SubSeq(new, 1, n) \in Seq(Entry) /\ Len(SubSeq(new, 1, n)) = n
    <3> HIDE DEF new
    <3> QED BY <2>1, <2>2, SubSeqIs
  <2>4. \A k \in 1..n : SubSeq(new, 1, n)[k] = new[k]
    <3> HIDE DEF new
    <3> QED BY <2>1, <2>2, SubSeqIs
  <2> QED BY Zenon, <2>3, <2>4
<1> HIDE DEF new, kept, lg
<1>6. Len(es) \in Nat /\ Len(old) \in Nat
  OBVIOUS
<1>7. \A k \in 1..kept : lg[k] = old[k]
  BY <1>1, <1>2, <1>4, <1>5
<1>8. ASSUME NEW k \in 1..Len(lg), k > kept
      PROVE  k - prev \in 1..Len(es) /\ lg[k] = es[k - prev]
  <2>1. k \in 1..n /\ k <= Len(new)
    BY <1>1, <1>2, <1>4, <1>5
  <2>2. k - prev \in 1..Len(es) /\ prev + (k - prev) = k
    BY <1>1, <1>2, <1>6, <1>8, <2>1
  <2>3. new[prev + (k - prev)] = es[k - prev]
    BY Zenon, <1>1, <1>8, <2>2
  <2> QED BY Zenon, <1>5, <2>1, <2>2, <2>3
<1>9. \A k \in 1..Len(es) : prev + k <= kept => old[prev + k].term = es[k].term
  BY <1>2
<1>10. kept = Len(old) /\ prev + Len(es) <= kept => Len(lg) = kept
  BY <1>1, <1>2, <1>4, <1>5, <1>6
<1>11. kept <= Len(lg)
  BY <1>2, <1>4, <1>5
<1>12. Takes(old, prev, es, lg)
  BY Zenon, <1>2, <1>3, <1>7, <1>8, <1>9, <1>10, <1>11 DEF Takes
<1> QED BY Zenon, <1>5, <1>12 DEF lg, new

\* Without a crash all of the entries are taken.
LEMMA MergeTakesAll ==
  ASSUME SetFacts, NEW old \in Seq(Entry), NEW es \in Seq(Entry), NEW prev \in 0..Len(old)
  PROVE  LET lg == Merge(old, prev, es)
         IN  /\ lg \in Seq(Entry)
             /\ prev + Len(es) <= Len(lg)
             /\ Takes(old, prev, es, lg)
<1> DEFINE kept == Kept(old, prev, es)
           lg == Merge(old, prev, es)
<1>1. kept \in prev..Len(old)
  BY Zenon, KeptIs
<1>2. lg \in Seq(Entry)
  BY Zenon, MergeIs
<1>3. Len(lg) = IF kept >= prev + Len(es) THEN kept ELSE prev + Len(es)
  BY Zenon, MergeIs
<1>4. prev + Len(es) <= Len(lg) /\ Len(lg) \in kept..Len(lg)
  <2> HIDE DEF lg, kept
  <2>1. Len(es) \in Nat /\ Len(old) \in Nat
    OBVIOUS
  <2> QED BY <1>1, <1>3, <2>1
<1>5. Takes(old, prev, es, SubSeq(lg, 1, Len(lg)))
  BY Zenon, <1>4, MergeTakes
<1>6. SubSeq(lg, 1, Len(lg)) = lg
  <2> HIDE DEF lg
  <2> QED BY Zenon, <1>2, SubSeqWhole
<1> QED BY Zenon, <1>2, <1>4, <1>5, <1>6

\* Where the entries agree in term with the old log, that log is kept.
LEMMA TakesKeeps ==
  ASSUME NEW old \in Seq(Entry), NEW es \in Seq(Entry), NEW lg \in Seq(Entry),
         NEW prev \in Nat, Takes(old, prev, es, lg), NEW n \in 0..Len(old),
         \A k \in 1..Len(es) : prev + k <= n => es[k].term = old[prev + k].term
  PROVE  SameUpTo(old, lg, n)
<1>1. PICK kept \in prev..Len(old) :
        /\ kept <= Len(lg)
        /\ \A k \in 1..kept : lg[k] = old[k]
        /\ \/ kept = Len(old)
           \/ /\ kept < prev + Len(es)
              /\ kept < Len(old) => old[kept + 1].term # es[kept + 1 - prev].term
  BY Zenon DEF Takes
<1>2. n <= kept
  <2> SUFFICES ASSUME kept < n PROVE FALSE
    BY <1>1
  <2>1. /\ kept < Len(old) /\ kept < prev + Len(es)
        /\ old[kept + 1].term # es[kept + 1 - prev].term
    BY <1>1
  <2>2. kept + 1 - prev \in 1..Len(es) /\ prev + (kept + 1 - prev) = kept + 1
    BY <1>1, <2>1
  <2> QED BY <2>1, <2>2
<1> QED BY <1>1, <1>2 DEF SameUpTo

\* A log that has taken all of the entries has their terms.
LEMMA TakesAll ==
  ASSUME NEW old \in Seq(Entry), NEW es \in Seq(Entry), NEW lg \in Seq(Entry),
         NEW prev \in Nat, Takes(old, prev, es, lg), NEW k \in 1..Len(es),
         prev + k <= Len(lg)
  PROVE  lg[prev + k].term = es[k].term
<1>1. PICK kept \in prev..Len(old) :
        /\ \A j \in 1..kept : lg[j] = old[j]
        /\ \A j \in 1..Len(lg) :
             j > kept => j - prev \in 1..Len(es) /\ lg[j] = es[j - prev]
        /\ \A j \in 1..Len(es) : prev + j <= kept => old[prev + j].term = es[j].term
  BY Zenon DEF Takes
<1>2. prev + k \in 1..Len(lg) /\ (prev + k) - prev = k
  OBVIOUS
<1>3. CASE prev + k <= kept
  BY <1>1, <1>2, <1>3
<1>4. CASE prev + k > kept
  BY Zenon, <1>1, <1>2, <1>4
<1> QED BY <1>1, <1>2, <1>3, <1>4

\* The part up to prev is not touched.
LEMMA TakesPrefix ==
  ASSUME NEW old \in Seq(Entry), NEW es \in Seq(Entry), NEW lg \in Seq(Entry),
         NEW prev \in Nat, Takes(old, prev, es, lg)
  PROVE  SameUpTo(old, lg, prev)
<1>1. PICK kept \in prev..Len(old) :
        kept <= Len(lg) /\ \A k \in 1..kept : lg[k] = old[k]
  BY Zenon DEF Takes
<1> QED BY <1>1 DEF SameUpTo

\* What a log takes is its own or among the entries.
LEMMA TakesFrom ==
  ASSUME NEW old \in Seq(Entry), NEW es \in Seq(Entry), NEW lg \in Seq(Entry),
         NEW prev \in Nat, Takes(old, prev, es, lg), NEW k \in 1..Len(lg)
  PROVE  \/ k \in 1..Len(old) /\ lg[k] = old[k]
         \/ \E j \in 1..Len(es) : lg[k] = es[j]
<1>1. PICK kept \in prev..Len(old) :
        /\ \A j \in 1..kept : lg[j] = old[j]
        /\ \A j \in 1..Len(lg) :
             j > kept => j - prev \in 1..Len(es) /\ lg[j] = es[j - prev]
  BY Zenon DEF Takes
<1>2. CASE k <= kept
  BY <1>1, <1>2
<1>3. CASE k > kept
  BY Zenon, <1>1, <1>3
<1> QED BY <1>1, <1>2, <1>3

\* A path that takes entries of a path of the same set, after a common term, is
\* a path.
LEMMA TakesPath ==
  ASSUME NEW S, NEW old, PathIn(old, S), NEW es \in Seq(Entry), NEW prev \in Nat,
         NEW prevTerm, Items(prev, prevTerm, es) \subseteq S,
         prev <= Len(old), TermAt(old, prev) = prevTerm,
         NEW lg \in Seq(Entry), Takes(old, prev, es, lg)
  PROVE  PathIn(lg, S)
<1>0. old \in Seq(Entry) /\ Len(old) \in Nat
  BY DEF PathIn
<1>1. PICK kept \in prev..Len(old) :
        /\ kept <= Len(lg)
        /\ \A k \in 1..kept : lg[k] = old[k]
        /\ \A k \in 1..Len(lg) :
             k > kept => k - prev \in 1..Len(es) /\ lg[k] = es[k - prev]
        /\ \A k \in 1..Len(es) : prev + k <= kept => old[prev + k].term = es[k].term
  BY Zenon DEF Takes
<1>2. ASSUME NEW k \in 1..Len(lg) PROVE ItemAt(lg, k) \in S
  <2>1. CASE k <= kept
    <3>1. TermAt(lg, k - 1) = TermAt(old, k - 1) /\ lg[k] = old[k]
      BY <1>1, <2>1 DEF TermAt
    <3>2. ItemAt(lg, k) = ItemAt(old, k)
      BY Zenon, <3>1 DEF ItemAt
    <3> QED BY <1>0, <1>1, <2>1, <3>2, OnPath
  <2>2. CASE k > kept
    <3> DEFINE j == k - prev
    <3>1. j \in 1..Len(es) /\ lg[k] = es[j] /\ prev + j = k
      BY <1>1, <2>2
    <3>2. TermAt(lg, k - 1) = IF j = 1 THEN prevTerm ELSE es[j - 1].term
      <4>1. CASE k - 1 > kept
        <5>1. k - 1 \in 1..Len(lg) /\ (k - 1) - prev = j - 1 /\ j # 1 /\ k - 1 # 0
          BY <1>1, <4>1
        <5>2. lg[k - 1] = es[j - 1]
          BY Zenon, <1>1, <4>1, <5>1
        <5> QED BY Zenon, <5>1, <5>2 DEF TermAt
      <4>2. CASE k - 1 = kept
        <5>1. TermAt(lg, k - 1) = TermAt(old, k - 1)
          BY <1>1, <4>2 DEF TermAt
        <5>2. CASE kept = prev
          <6>1. j = 1 /\ k - 1 = prev
            BY <1>1, <4>2, <5>2
          <6> QED BY Zenon, <5>1, <6>1
        <5>3. CASE kept > prev
          <6>1. /\ j - 1 \in 1..Len(es) /\ prev + (j - 1) = k - 1
                /\ prev + (j - 1) <= kept /\ j # 1 /\ k - 1 # 0
            BY <1>1, <3>1, <4>2, <5>3
          <6>2. old[k - 1].term = es[j - 1].term
            BY Zenon, <1>1, <6>1
          <6> QED BY Zenon, <5>1, <6>1, <6>2 DEF TermAt
        <5> QED BY <1>1, <5>2, <5>3
      <4> QED BY <1>1, <2>2, <4>1, <4>2
    <3> HIDE DEF j
    <3>3. ItemAt(lg, k) = [index |-> prev + j, entry |-> es[j],
                           prev |-> IF j = 1 THEN prevTerm ELSE es[j - 1].term]
      BY Zenon, <3>1, <3>2 DEF ItemAt
    <3>4. ItemAt(lg, k) \in Items(prev, prevTerm, es)
      BY Zenon, <3>1, <3>3 DEF Items
    <3> QED BY Zenon, <3>4
  <2> QED BY <1>1, <2>1, <2>2
<1>3. Items(0, 0, lg) = {ItemAt(lg, k) : k \in 1..Len(lg)}
  BY Zenon, LogItems
<1> QED BY Zenon, <1>2, <1>3 DEF PathIn

USE DEF persistent, leaderVars, voteCalls, appCalls, history

-----------------------------------------------------------------------------
(* The steps, as far as logs are concerned.                                *)

\* Node m.to accepts m, perhaps crashes in it, and has the log lg afterwards.
Accepts(m, lg) ==
  /\ m.term >= currentTerm[m.to]
  /\ Matches(log[m.to], m.prevLogIndex, m.prevLogTerm)
  /\ currentTerm' = [currentTerm EXCEPT ![m.to] = m.term]
  /\ role' = [role EXCEPT ![m.to] = "follower"]
  /\ lg \in Seq(Entry)
  /\ log' = [log EXCEPT ![m.to] = lg]
  /\ Takes(log[m.to], m.prevLogIndex, m.entries, lg)
  /\ UNCHANGED <<votes, elected, committed>>

\* Node i, leader after the step, appends an entry of its term.
Grows(i) ==
  /\ role'[i] = "leader"
  /\ \E e \in Entry : /\ e.term = currentTerm'[i]
                      /\ log' = [log EXCEPT ![i] = Append(log[i], e)]
  /\ UNCHANGED <<appReq, appRep, voteReq>>

\* becomeLeader appends the no-op.
LEMMA BecomeLeaderGrows ==
  ASSUME TypeOK, TypeOK', NEW i \in Node, NEW t, BecomeLeader(i, t),
         currentTerm'[i] = t, UNCHANGED <<appReq, appRep, voteReq>>
  PROVE  Grows(i)
<1>1. role \in [Node -> {"follower", "candidate", "leader"}] /\ t \in Nat
  BY Zenon DEF TypeOK
<1>2. /\ role' = [role EXCEPT ![i] = "leader"]
      /\ log' = [log EXCEPT ![i] = Append(log[i], [term |-> t, command |-> NoOp])]
  BY Zenon DEF BecomeLeader
<1>3. [term |-> t, command |-> NoOp] \in Entry
  BY Zenon, <1>1 DEF Entry
<1>4. role'[i] = "leader"
  BY Zenon, <1>1, <1>2
<1> DEFINE e == [term |-> t, command |-> NoOp]
<1>5. e.term = t
  BY Zenon
<1> QED BY Zenon, <1>2, <1>3, <1>4, <1>5 DEF Grows

\* onAppendEntries takes the log over, or leaves it alone.
LEMMA OnAppendEntriesTakes ==
  ASSUME SetFacts, TypeOK, NEW m \in appReq, OnAppendEntries(m)
  PROVE  \/ /\ log' = log
            /\ \A r \in appRep' : r.success => r \in appRep
         \/ \E lg \in Seq(Entry) :
              /\ Accepts(m, lg)
              /\ m.prevLogIndex + Len(m.entries) <= Len(lg)
<1> DEFINE i == m.to
           prev == m.prevLogIndex
           es == m.entries
           lg == Merge(log[i], prev, es)
<1>0. i \in Node /\ prev \in Nat /\ es \in Seq(Entry)
  BY Zenon, FieldTypes
<1>1. CASE /\ log' = log
           /\ \/ appRep' = appRep \cup AppendReplyTo(m, currentTerm[i], FALSE, 0)
              \/ appRep' = appRep \cup AppendReplyTo(m, m.term, FALSE,
                                                     ConflictIndex(log[i], prev))
  <2>1. \A x, c : \A r \in AppendReplyTo(m, x, FALSE, c) : r.success = FALSE
    BY DEF AppendReplyTo
  <2>2. ASSUME NEW r \in appRep', r.success PROVE r \in appRep
    <3> DEFINE L == AppendReplyTo(m, currentTerm[i], FALSE, 0)
               C == AppendReplyTo(m, m.term, FALSE, ConflictIndex(log[i], prev))
    <3>1. (\A q \in L : q.success = FALSE) /\ (\A q \in C : q.success = FALSE)
      BY Zenon, <2>1
    <3>2. appRep' = appRep \cup L \/ appRep' = appRep \cup C
      BY Zenon, <1>1
    <3> HIDE DEF L, C
    <3> QED BY Zenon, <2>2, <3>1, <3>2
  <2> QED BY Zenon, <1>1, <2>2
<1>2. CASE /\ m.term >= currentTerm[i]
           /\ currentTerm' = [currentTerm EXCEPT ![i] = m.term]
           /\ role' = [role EXCEPT ![i] = "follower"]
           /\ Matches(log[i], prev, m.prevLogTerm)
           /\ log' = [log EXCEPT ![i] = lg]
  <2>1. log[i] \in Seq(Entry) /\ prev \in 0..Len(log[i])
    BY <1>0, <1>2 DEF TypeOK, Matches
  <2>2. lg \in Seq(Entry) /\ prev + Len(es) <= Len(lg) /\ Takes(log[i], prev, es, lg)
    BY Zenon, <1>0, <2>1, MergeTakesAll
  <2>3. UNCHANGED <<votes, elected, committed>>
    BY Zenon DEF OnAppendEntries
  <2>4. Accepts(m, lg)
    BY Zenon, <1>2, <2>2, <2>3 DEF Accepts
  <2> QED BY Zenon, <2>2, <2>4
<1>3. \/ /\ log' = log
         /\ \/ appRep' = appRep \cup AppendReplyTo(m, currentTerm[i], FALSE, 0)
            \/ appRep' = appRep \cup AppendReplyTo(m, m.term, FALSE,
                                                   ConflictIndex(log[i], prev))
      \/ /\ m.term >= currentTerm[i]
         /\ currentTerm' = [currentTerm EXCEPT ![i] = m.term]
         /\ role' = [role EXCEPT ![i] = "follower"]
         /\ Matches(log[i], prev, m.prevLogTerm)
         /\ log' = [log EXCEPT ![i] = lg]
  BY ZenonT(40) DEF OnAppendEntries
<1> QED BY Zenon, <1>1, <1>2, <1>3

\* A crash inside onAppendEntries leaves a part of what would have been taken.
LEMMA CrashInAppendTakes ==
  ASSUME SetFacts, TypeOK, NEW m \in appReq, CrashInAppend(m)
  PROVE  \E lg \in Seq(Entry) : Accepts(m, lg)
<1> DEFINE i == m.to
           prev == m.prevLogIndex
           es == m.entries
           new == Merge(log[i], prev, es)
<1>0. i \in Node /\ prev \in Nat /\ es \in Seq(Entry)
  BY Zenon, FieldTypes
<1>1. /\ m.term >= currentTerm[i]
      /\ Matches(log[i], prev, m.prevLogTerm)
      /\ currentTerm' = [currentTerm EXCEPT ![i] = m.term]
      /\ Reboot(i) /\ UNCHANGED votes
  BY Zenon DEF CrashInAppend
<1>2. PICK n \in Kept(log[i], prev, es)..(Len(new) - 1) :
        log' = [log EXCEPT ![i] = SubSeq(new, 1, n)]
  BY Zenon DEF CrashInAppend
<1>3. log[i] \in Seq(Entry) /\ prev \in 0..Len(log[i])
  BY <1>0, <1>1 DEF TypeOK, Matches
<1>4. n \in Kept(log[i], prev, es)..Len(new)
  <2>1. new \in Seq(Entry)
    BY Zenon, <1>0, <1>3, MergeTakesAll
  <2>2. Len(new) \in Nat
    BY <2>1
  <2> DEFINE kept == Kept(log[i], prev, es)
  <2> HIDE DEF new, kept
  <2>3. n \in kept..Len(new)
    BY <1>2, <2>2 DEF kept
  <2> QED BY Zenon, <2>3 DEF kept
<1> DEFINE lg == SubSeq(new, 1, n)
<1>5. lg \in Seq(Entry) /\ Takes(log[i], prev, es, lg)
  BY Zenon, <1>0, <1>3, <1>4, MergeTakes
<1>6. role' = [role EXCEPT ![i] = "follower"] /\ UNCHANGED <<elected, committed>>
  BY Zenon, <1>1 DEF Reboot
<1>7. Accepts(m, lg)
  BY Zenon, <1>1, <1>2, <1>5, <1>6 DEF Accepts
<1> QED BY Zenon, <1>5, <1>7

\* Logs change only at the end of a leader's and in accepting a call.
LEMMA LogSteps ==
  ASSUME SetFacts, TypeOK, TypeOK', [Next]_vars
  PROVE  \/ log' = log
         \/ \E i \in Node : Grows(i)
         \/ \E m \in appReq : \E lg \in Seq(Entry) : Accepts(m, lg)
<1> DEFINE OK == \/ log' = log
                 \/ \E i \in Node : Grows(i)
                 \/ \E m \in appReq : \E lg \in Seq(Entry) : Accepts(m, lg)
<1>0. /\ currentTerm \in [Node -> Nat]
      /\ role \in [Node -> {"follower", "candidate", "leader"}]
  BY Zenon DEF TypeOK
<1>1. ASSUME log' = log PROVE OK
  BY Zenon, <1>1
<1>2. ASSUME NEW i \in Node, StartElection(i) PROVE OK
  <2>1. currentTerm'[i] = currentTerm[i] + 1
    BY Zenon, <1>0, <1>2 DEF StartElection
  <2>2. \/ log' = log
        \/ BecomeLeader(i, currentTerm[i] + 1) /\ UNCHANGED <<appReq, appRep, voteReq>>
    BY Zenon, <1>2 DEF StartElection
  <2> QED BY Zenon, <2>1, <2>2, BecomeLeaderGrows
<1>3. ASSUME NEW r \in voteRep, OnVoteReply(r) PROVE OK
  <2>1. r.from \in Node
    BY Zenon, FieldTypes
  <2>2. \/ log' = log
        \/ /\ BecomeLeader(r.from, currentTerm[r.from])
           /\ UNCHANGED <<currentTerm, appReq, appRep, voteReq>>
    BY Zenon, <1>3 DEF OnVoteReply, BecomeFollower
  <2> QED BY Zenon, <2>1, <2>2, BecomeLeaderGrows
<1>4. ASSUME NEW i \in Node, NEW c \in Command, Submit(i, c) PROVE OK
  <2> DEFINE e == [term |-> currentTerm[i], command |-> c]
  <2>1. /\ role[i] = "leader"
        /\ log' = [log EXCEPT ![i] = Append(log[i], e)]
        /\ UNCHANGED <<role, currentTerm, appReq, appRep, voteReq>>
    BY Zenon, <1>4 DEF Submit
  <2>2. e \in Entry /\ e.term = currentTerm[i]
    BY Zenon, <1>0 DEF Entry
  <2> QED BY Zenon, <2>1, <2>2 DEF Grows
<1>5. ASSUME NEW m \in appReq, OnAppendEntries(m) PROVE OK
  BY Zenon, <1>5, OnAppendEntriesTakes
<1>6. ASSUME NEW m \in appReq, CrashInAppend(m) PROVE OK
  BY Zenon, <1>6, CrashInAppendTakes
<1>7. ASSUME NEW r \in appRep, OnAppendReply(r) PROVE log' = log
  BY Zenon, <1>7 DEF OnAppendReply, BecomeFollower
<1>8. ASSUME \/ \E i \in Node : \/ RejectSubmit(i)
                                \/ \E p \in Node : SendAppend(i, p)
                                \/ Crash(i) \/ CrashInElection(i)
             \/ \E m \in voteReq \cup appReq : CrashInStepDown(m)
             \/ \E m \in voteReq : OnRequestVote(m)
             \/ VoteCallFails \/ AppendCallFails \/ UNCHANGED vars
      PROVE  log' = log
  BY Zenon, <1>8 DEF RejectSubmit, SendAppend, Crash, CrashInElection,
     CrashInStepDown,
     OnRequestVote, VoteCallFails, AppendCallFails, vars
<1>9. OK
  <2> HIDE DEF OK
  <2> QED BY Zenon, <1>1, <1>2, <1>3, <1>4, <1>5, <1>6, <1>7, <1>8 DEF Next
<1> QED BY Zenon, <1>9

\* A peer that confirms has taken all of the call.
LEMMA SuccessSteps ==
  ASSUME SetFacts, TypeOK, [Next]_vars, NEW r \in appRep', r.success, r \notin appRep
  PROVE  \E m \in appReq : \E lg \in Seq(Entry) :
           /\ Answers(r, m) /\ Accepts(m, lg)
           /\ m.prevLogIndex + Len(m.entries) <= Len(lg)
<1> DEFINE OK == \E m \in appReq : \E lg \in Seq(Entry) :
                   /\ Answers(r, m) /\ Accepts(m, lg)
                   /\ m.prevLogIndex + Len(m.entries) <= Len(lg)
<1>1. ASSUME NEW m \in appReq, OnAppendEntries(m) PROVE OK
  <2>1. Answers(r, m)
    BY Zenon, <1>1, NewAppendReply DEF Answers
  <2> QED BY Zenon, <1>1, <2>1, OnAppendEntriesTakes
<1>2. ASSUME NEW i, Reboot(i) PROVE OK
  BY Zenon, <1>2 DEF Reboot
<1>3. ASSUME NEW i \in Node, Crash(i) \/ CrashInElection(i) PROVE OK
  BY Zenon, <1>2, <1>3 DEF Crash, CrashInElection
<1>4. ASSUME NEW m, CrashInStepDown(m) \/ CrashInAppend(m) PROVE OK
  BY Zenon, <1>2, <1>4 DEF CrashInStepDown, CrashInAppend
<1>5. ASSUME NEW q \in appRep, OnAppendReply(q) PROVE OK
  BY Zenon, <1>5 DEF OnAppendReply
<1>6. ASSUME AppendCallFails PROVE OK
  BY Zenon, <1>6 DEF AppendCallFails
<1>7. ASSUME \/ \E i \in Node : \/ StartElection(i)
                                \/ \E c \in Command : Submit(i, c)
                                \/ RejectSubmit(i)
                                \/ \E p \in Node : SendAppend(i, p)
             \/ \E m \in voteReq : OnRequestVote(m)
             \/ \E q \in voteRep : OnVoteReply(q)
             \/ VoteCallFails \/ UNCHANGED vars
      PROVE  appRep' = appRep
  BY Zenon, <1>7 DEF StartElection, Submit, RejectSubmit, SendAppend,
     OnRequestVote,
     OnVoteReply, VoteCallFails, vars
<1>8. OK
  <2> HIDE DEF OK
  <2> QED BY Zenon, <1>1, <1>3, <1>4, <1>5, <1>6, <1>7 DEF Next
<1> QED BY Zenon, <1>8

\* Leader i commits more than anybody has before.
CommitsMore(i) ==
  LET n == commitIndex'[i]
  IN  /\ role'[i] = "leader"
      /\ n \in 1..Len(log'[i]) /\ n > Len(committed) /\ n > commitIndex[i]
      /\ committed' = SubSeq(log'[i], 1, n)
      /\ log'[i][n].term = currentTerm'[i]
      /\ Cardinality({p \in Node : matchIndex'[i][p] >= n}) >= Majority

\* What advanceCommit does to the committed log.
LEMMA LeaderCommitsMore ==
  ASSUME SetFacts, TypeOK, TypeOK', NEW i \in Node, NEW lg, NEW t, NEW match,
         LeaderCommits(i, lg, t, match), role'[i] = "leader",
         log'[i] = lg, currentTerm'[i] = t, matchIndex'[i] = match
  PROVE  committed' = committed \/ CommitsMore(i)
<1> DEFINE n == AdvanceCommit(lg, t, commitIndex[i], match, Majority)
<1>0. /\ commitIndex \in [Node -> Nat] /\ commitIndex[i] \in Nat
      /\ lg \in Seq(Entry) /\ DOMAIN match = Node /\ Len(committed) \in Nat
  <2>1. /\ commitIndex \in [Node -> Nat] /\ commitIndex[i] \in Nat
        /\ lg \in Seq(Entry) /\ DOMAIN match = Node /\ committed \in Seq(Entry)
    BY Zenon DEF TypeOK
  <2> QED BY <2>1
<1>1. /\ commitIndex' = [commitIndex EXCEPT ![i] = n]
      /\ \/ committed' = committed
         \/ /\ n > commitIndex[i] /\ n > Len(committed)
            /\ committed' = SubSeq(lg, 1, n)
  BY Zenon DEF LeaderCommits
<1>2. \/ n = commitIndex[i]
      \/ /\ n \in (commitIndex[i] + 1)..Len(lg)
         /\ lg[n].term = t
         /\ Cardinality({p \in DOMAIN match : match[p] >= n}) >= Majority
  <2>1. n = commitIndex[i] \/ Agreed(n, lg, t, commitIndex[i], match, Majority)
    BY Zenon, <1>0, AdvanceCommitIs
  <2> HIDE DEF n
  <2> QED BY Zenon, <2>1 DEF Agreed
<1> HIDE DEF n
<1>3. commitIndex'[i] = n
  BY Zenon, <1>0, <1>1
<1>4. CASE /\ n > commitIndex[i] /\ n > Len(committed)
           /\ committed' = SubSeq(lg, 1, n)
  <2>1. n # commitIndex[i]
    BY <1>0, <1>4
  <2>2. n \in 1..Len(lg)
    BY <1>0, <1>2, <2>1
  <2>3. Cardinality({p \in Node : matchIndex'[i][p] >= n}) >= Majority
    BY Zenon, <1>0, <1>2, <2>1
  <2> QED BY Zenon, <1>2, <1>3, <1>4, <2>1, <2>2, <2>3 DEF CommitsMore
<1> QED BY Zenon, <1>1, <1>4

\* Only a leader's advanceCommit commits.
LEMMA CommittedSteps ==
  ASSUME SetFacts, TypeOK, TypeOK', [Next]_vars
  PROVE  committed' = committed \/ \E i \in Node : CommitsMore(i)
<1> DEFINE OK == committed' = committed \/ \E i \in Node : CommitsMore(i)
<1>0. /\ currentTerm \in [Node -> Nat]
      /\ role \in [Node -> {"follower", "candidate", "leader"}]
      /\ DOMAIN log = Node /\ log = [j \in Node |-> log[j]]
      /\ DOMAIN matchIndex = Node /\ matchIndex = [j \in Node |-> matchIndex[j]]
  BY Zenon DEF TypeOK
<1>1. ASSUME committed' = committed PROVE OK
  BY Zenon, <1>1
<1>2. ASSUME NEW i \in Node, NEW t, BecomeLeader(i, t), currentTerm'[i] = t
      PROVE  OK
  <2> DEFINE lg == Append(log[i], [term |-> t, command |-> NoOp])
             match == [p \in Node |-> IF p = i THEN Len(lg) ELSE 0]
  <2>1. /\ LeaderCommits(i, lg, t, match)
        /\ log' = [log EXCEPT ![i] = lg]
        /\ matchIndex' = [matchIndex EXCEPT ![i] = match]
        /\ role' = [role EXCEPT ![i] = "leader"]
    BY Zenon, <1>2 DEF BecomeLeader
  <2> HIDE DEF lg, match
  <2>2. log'[i] = lg /\ matchIndex'[i] = match /\ role'[i] = "leader"
    BY Zenon, <1>0, <2>1
  <2> QED BY Zenon, <1>2, <2>1, <2>2, LeaderCommitsMore
<1>3. ASSUME NEW i \in Node, StartElection(i) PROVE OK
  <2>1. currentTerm'[i] = currentTerm[i] + 1
    BY Zenon, <1>0, <1>3 DEF StartElection
  <2>2. BecomeLeader(i, currentTerm[i] + 1) \/ committed' = committed
    BY Zenon, <1>3 DEF StartElection
  <2> QED BY Zenon, <1>1, <1>2, <2>1, <2>2
<1>4. ASSUME NEW r \in voteRep, OnVoteReply(r) PROVE OK
  <2>1. r.from \in Node
    BY Zenon, FieldTypes
  <2>2. \/ committed' = committed
        \/ BecomeLeader(r.from, currentTerm[r.from]) /\ UNCHANGED currentTerm
    BY Zenon, <1>4 DEF OnVoteReply, BecomeFollower
  <2> QED BY Zenon, <1>1, <1>2, <2>1, <2>2
<1>5. ASSUME NEW i \in Node, NEW c \in Command, Submit(i, c) PROVE OK
  <2> DEFINE lg == Append(log[i], [term |-> currentTerm[i], command |-> c])
             match == [matchIndex[i] EXCEPT ![i] = Len(lg)]
  <2>1. /\ LeaderCommits(i, lg, currentTerm[i], match)
        /\ log' = [log EXCEPT ![i] = lg]
        /\ matchIndex' = [matchIndex EXCEPT ![i] = match]
        /\ role[i] = "leader" /\ UNCHANGED <<role, currentTerm>>
    BY Zenon, <1>5 DEF Submit
  <2> HIDE DEF lg, match
  <2>2. /\ log'[i] = lg /\ matchIndex'[i] = match /\ role'[i] = "leader"
        /\ currentTerm'[i] = currentTerm[i]
    BY Zenon, <1>0, <2>1
  <2> QED BY Zenon, <2>1, <2>2, LeaderCommitsMore
<1>6. ASSUME NEW r \in appRep, OnAppendReply(r) PROVE OK
  <2> DEFINE i == r.from
             match == [matchIndex[i] EXCEPT ![r.to] = Max({@, r.match})]
  <2>1. i \in Node
    BY Zenon, FieldTypes
  <2>2. \/ committed' = committed
        \/ /\ LeaderCommits(i, log[i], currentTerm[i], match)
           /\ matchIndex' = [matchIndex EXCEPT ![i] = match]
           /\ role[i] = "leader"
           /\ UNCHANGED <<role, persistent>>
    BY ZenonT(40), <1>6 DEF OnAppendReply, BecomeFollower
  <2> HIDE DEF match
  <2>3. CASE /\ LeaderCommits(i, log[i], currentTerm[i], match)
             /\ matchIndex' = [matchIndex EXCEPT ![i] = match]
             /\ role[i] = "leader"
             /\ UNCHANGED <<role, persistent>>
    <3>1. log' = log /\ currentTerm' = currentTerm /\ role'[i] = "leader"
      BY Zenon, <2>3
    <3>2. matchIndex'[i] = match
      BY Zenon, <1>0, <2>1, <2>3
    <3> QED BY Zenon, <2>1, <2>3, <3>1, <3>2, LeaderCommitsMore
  <2> QED BY Zenon, <1>1, <2>2, <2>3
<1>7. ASSUME \/ \E i \in Node : \/ RejectSubmit(i)
                                \/ \E p \in Node : SendAppend(i, p)
                                \/ Crash(i) \/ CrashInElection(i)
             \/ \E m \in voteReq \cup appReq : CrashInStepDown(m)
             \/ \E m \in voteReq : OnRequestVote(m)
             \/ \E m \in appReq : OnAppendEntries(m) \/ CrashInAppend(m)
             \/ VoteCallFails \/ AppendCallFails \/ UNCHANGED vars
      PROVE  committed' = committed
  BY Zenon, <1>7 DEF RejectSubmit, SendAppend, Crash, CrashInElection,
     CrashInStepDown,
     OnRequestVote, OnAppendEntries, CrashInAppend, VoteCallFails, AppendCallFails,
     Reboot, vars
<1>8. OK
  <2> HIDE DEF OK
  <2> QED BY Zenon, <1>1, <1>3, <1>4, <1>5, <1>6, <1>7 DEF Next
<1> QED BY Zenon, <1>8

\* Node i stays leader, and at most appends to its log.
KeepsLeading(i) ==
  /\ role[i] = "leader" /\ currentTerm'[i] = currentTerm[i]
  /\ \/ log'[i] = log[i]
     \/ \E e \in Entry : e.term = currentTerm[i] /\ log'[i] = Append(log[i], e)

\* A node that leads after the step led before or has just become leader.
LEMMA LeaderKeeps ==
  ASSUME TypeOK, TypeOK', [Next]_vars, WonByMajority, LeadersElected,
         NEW i \in Node, role'[i] = "leader"
  PROVE  KeepsLeading(i) \/ BecomesLeader(i)
<1> DEFINE OK == KeepsLeading(i)
<1>0. /\ DOMAIN log = Node /\ log = [j \in Node |-> log[j]]
      /\ role \in [Node -> {"follower", "candidate", "leader"}]
      /\ currentTerm[i] \in Nat
  BY Zenon DEF TypeOK
<1>1. ASSUME StaysLeader(i) PROVE OK
  BY Zenon, <1>1 DEF StaysLeader, KeepsLeading
<1>3. ASSUME NEW c \in Command, Submit(i, c) PROVE OK
  <2> DEFINE e == [term |-> currentTerm[i], command |-> c]
  <2>1. /\ log' = [log EXCEPT ![i] = Append(log[i], e)] /\ role[i] = "leader"
        /\ currentTerm' = currentTerm
    BY Zenon, <1>3 DEF Submit
  <2>2. e \in Entry /\ e.term = currentTerm[i]
    BY Zenon, <1>0 DEF Entry
  <2> HIDE DEF e
  <2>3. log'[i] = Append(log[i], e)
    BY Zenon, <1>0, <2>1
  <2> QED BY Zenon, <2>1, <2>2, <2>3 DEF KeepsLeading
<1>2. ASSUME NEW r \in appRep, r.from = i, role[i] = "leader", OnAppendReply(r)
      PROVE  OK
  <2>1. log' = log
    BY Zenon, <1>2 DEF OnAppendReply, BecomeFollower
  <2>2. currentTerm' = currentTerm \/ BecomeFollower(i, r.rterm)
    BY Zenon, <1>2 DEF OnAppendReply
  <2>3. ~BecomeFollower(i, r.rterm)
    BY Zenon, <1>0 DEF BecomeFollower
  <2> QED BY Zenon, <1>2, <2>1, <2>2, <2>3 DEF KeepsLeading
<1> QED BY Zenon, <1>1, <1>2, <1>3, LeaderSteps

-----------------------------------------------------------------------------
(* What is created in a step.                                              *)

\* What is created is in a log, in a call or committed.
CreatedIsWhere ==
  \A a : a \in Created <=>
    \/ \E j \in Node : a \in Items(0, 0, log[j])
    \/ \E m \in appReq : a \in Items(m.prevLogIndex, m.prevLogTerm, m.entries)
    \/ a \in Items(0, 0, committed)

\* The definition of Created, element by element.
LEMMA CreatedWhere == CreatedIsWhere
<1> DEFINE L == {Items(0, 0, log[i]) : i \in Node}
           C == {Items(m.prevLogIndex, m.prevLogTerm, m.entries) : m \in appReq}
<1>1. Created = (UNION L) \cup (UNION C) \cup Items(0, 0, committed)
  BY Zenon DEF Created
<1>2. \A a : a \in UNION L <=> \E j \in Node : a \in Items(0, 0, log[j])
  BY Zenon
<1>3. \A a : a \in UNION C <=>
               \E m \in appReq : a \in Items(m.prevLogIndex, m.prevLogTerm, m.entries)
  BY Zenon
<1> HIDE DEF L, C
<1> QED BY Zenon, <1>1, <1>2, <1>3 DEF CreatedIsWhere

\* The same after a step.
LEMMA CreatedWhereNext == CreatedIsWhere'
BY CreatedWhere, PTL

\* All logs and the committed log are paths among what is created.
ArePaths ==
  /\ \A j \in Node : PathIn(log[j], Created)
  /\ PathIn(committed, Created)
  /\ \A m \in appReq :
       Items(m.prevLogIndex, m.prevLogTerm, m.entries) \subseteq Created

\* That holds by definition.
LEMMA LogsArePaths == TypeOK => ArePaths
<1> SUFFICES ASSUME TypeOK PROVE ArePaths
  BY Zenon
<1>1. (\A j \in Node : log[j] \in Seq(Entry)) /\ committed \in Seq(Entry)
  BY Zenon DEF TypeOK
<1> QED BY Zenon, <1>1, CreatedWhere DEF PathIn, ArePaths, CreatedIsWhere

\* And after a step.
LEMMA LogsArePathsNext == TypeOK' => ArePaths'
BY LogsArePaths, PTL

\* A step creates at most the entry that a leader appends.
LEMMA CreatedSteps ==
  ASSUME SetFacts, TypeOK, TypeOK', [Next]_vars, IndexesInLog, NEW a \in Created'
  PROVE  \/ a \in Created
         \/ \E i \in Node : Grows(i) /\ a = ItemAt(log'[i], Len(log'[i]))
<1> DEFINE New(x) == \/ x \in Created
                     \/ \E i \in Node : Grows(i) /\ x = ItemAt(log'[i], Len(log'[i]))
<1>0. /\ DOMAIN log = Node /\ \A j \in Node : log[j] \in Seq(Entry)
      /\ \A j \in Node : log'[j] \in Seq(Entry)
  BY Zenon DEF TypeOK
<1>1. ASSUME NEW j \in Node, NEW k \in 1..Len(log'[j]) PROVE New(ItemAt(log'[j], k))
  <2>1. CASE log'[j] = log[j]
    BY Zenon, <1>1, <2>1, LogsArePaths, OnPath DEF ArePaths
  <2>2. ASSUME NEW i \in Node, Grows(i) PROVE New(ItemAt(log'[j], k))
    <3>1. PICK e \in Entry : log' = [log EXCEPT ![i] = Append(log[i], e)]
      BY Zenon, <2>2 DEF Grows
    <3>2. CASE j # i
      <4>1. log'[j] = log[j]
        BY Zenon, <1>0, <3>1, <3>2
      <4> QED BY Zenon, <2>1, <4>1
    <3>3. CASE j = i
      <4>1. log'[i] = Append(log[i], e)
        BY Zenon, <1>0, <3>1
      <4>2. /\ Len(log'[i]) = Len(log[i]) + 1
            /\ SameUpTo(log[i], log'[i], Len(log[i]))
        BY ZenonT(30), <1>0, <4>1, OneMore
      <4>3. CASE k \in 1..Len(log[i])
        <5>1. ItemAt(log[i], k) = ItemAt(log'[i], k)
          BY <1>0, <4>2, <4>3, SameItems
        <5>2. ItemAt(log[i], k) \in Created
          BY Zenon, <4>3, LogsArePaths, OnPath DEF ArePaths
        <5> QED BY Zenon, <3>3, <5>1, <5>2
      <4>4. CASE k = Len(log'[i])
        BY Zenon, <2>2, <3>3, <4>4
      <4>5. k \in 1..Len(log[i]) \/ k = Len(log'[i])
        BY <1>0, <1>1, <3>3, <4>2
      <4> QED BY Zenon, <4>3, <4>4, <4>5
    <3> QED BY Zenon, <3>2, <3>3
  <2>3. ASSUME NEW m \in appReq, NEW lg \in Seq(Entry), Accepts(m, lg)
        PROVE  New(ItemAt(log'[j], k))
    <3>1. m.to \in Node /\ m.prevLogIndex \in Nat /\ m.entries \in Seq(Entry)
      BY Zenon, FieldTypes
    <3>2. /\ log' = [log EXCEPT ![m.to] = lg]
          /\ Takes(log[m.to], m.prevLogIndex, m.entries, lg)
          /\ m.prevLogIndex <= Len(log[m.to])
          /\ TermAt(log[m.to], m.prevLogIndex) = m.prevLogTerm
      BY Zenon, <2>3 DEF Accepts, Matches
    <3>3. CASE j # m.to
      <4>1. log'[j] = log[j]
        BY Zenon, <1>0, <3>1, <3>2, <3>3
      <4> QED BY Zenon, <2>1, <4>1
    <3>4. CASE j = m.to
      <4>1. log'[j] = lg
        BY Zenon, <1>0, <3>1, <3>2, <3>4
      <4>2. PathIn(log[m.to], Created) /\
            Items(m.prevLogIndex, m.prevLogTerm, m.entries) \subseteq Created
        BY Zenon, <3>1, LogsArePaths DEF ArePaths
      <4>3. PathIn(lg, Created)
        BY ZenonT(40), <3>1, <3>2, <4>2, TakesPath
      <4> QED BY Zenon, <1>1, <4>1, <4>3, OnPath
    <3> QED BY Zenon, <3>3, <3>4
  <2> QED BY Zenon, <2>1, <2>2, <2>3, LogSteps
<1>2. ASSUME NEW j \in Node PROVE \A x \in Items(0, 0, log'[j]) : New(x)
  <2>1. Items(0, 0, log'[j]) = {ItemAt(log'[j], k) : k \in 1..Len(log'[j])}
    BY Zenon, <1>0, LogItems
  <2> HIDE DEF New
  <2> QED BY Zenon, <1>1, <2>1
<1>3. \A x \in Items(0, 0, committed') : New(x)
  <2>1. CASE committed' = committed
    BY Zenon, <2>1, LogsArePaths DEF PathIn, ArePaths
  <2>2. ASSUME NEW i \in Node, CommitsMore(i)
        PROVE  \A x \in Items(0, 0, committed') : New(x)
    <3> DEFINE n == commitIndex'[i]
    <3>1. n \in 1..Len(log'[i]) /\ committed' = SubSeq(log'[i], 1, n)
      BY Zenon, <2>2 DEF CommitsMore
    <3> HIDE DEF n
    <3>2. n \in 0..Len(log'[i]) /\ n \in Nat
      BY <1>0, <3>1
    <3>3. /\ committed' \in Seq(Entry) /\ Len(committed') = n
          /\ SameUpTo(committed', log'[i], n)
      BY Zenon, <1>0, <3>1, <3>2, Beginning
    <3>4. ASSUME NEW k \in 1..Len(committed') PROVE New(ItemAt(committed', k))
      <4>1. k \in 1..n /\ k \in 1..Len(log'[i])
        BY <1>0, <3>1, <3>3
      <4>2. ItemAt(committed', k) = ItemAt(log'[i], k)
        BY Zenon, <3>2, <3>3, <4>1, SameItems
      <4> HIDE DEF New
      <4> QED BY Zenon, <1>1, <4>1, <4>2
    <3>5. Items(0, 0, committed') = {ItemAt(committed', k) : k \in 1..Len(committed')}
      BY Zenon, <3>3, LogItems
    <3> HIDE DEF New
    <3> QED BY Zenon, <3>4, <3>5
  <2> QED BY Zenon, <2>1, <2>2, CommittedSteps
<1>4. ASSUME NEW m \in appReq'
      PROVE  \A x \in Items(m.prevLogIndex, m.prevLogTerm, m.entries) : x \in Created
  <2>1. CASE m \in appReq
    BY Zenon, <2>1, LogsArePaths DEF ArePaths
  <2>2. CASE \E n \in appReq : SameArgs(m, n)
    BY Zenon, <2>2, LogsArePaths DEF SameArgs, ArePaths
  <2>3. ASSUME m \notin appReq, NEW i \in Node, NEW p \in Node, SendAppend(i, p)
        PROVE  \A x \in Items(m.prevLogIndex, m.prevLogTerm, m.entries) : x \in Created
    <3> DEFINE prev == m.prevLogIndex
               es == m.entries
    <3>1. /\ prev \in Nat /\ es \in Seq(Entry)
          /\ prev + Len(es) <= Len(log[i])
          /\ m.prevLogTerm = TermAt(log[i], prev)
          /\ \A k \in 1..Len(es) : es[k] = log[i][prev + k]
      BY <2>3, SentAppend
    <3>2. ASSUME NEW k \in 1..Len(es)
          PROVE  [index |-> prev + k, entry |-> es[k],
                  prev |-> IF k = 1 THEN m.prevLogTerm ELSE es[k - 1].term]
                   \in Created
      <4>1. prev + k \in 1..Len(log[i])
        BY <1>0, <3>1
      <4>2. (IF k = 1 THEN m.prevLogTerm ELSE es[k - 1].term)
              = TermAt(log[i], (prev + k) - 1)
        <5>1. CASE k = 1
          <6>1. (prev + k) - 1 = prev
            BY <3>1, <5>1
          <6> QED BY Zenon, <3>1, <5>1, <6>1
        <5>2. CASE k # 1
          <6>1. /\ (prev + k) - 1 = prev + (k - 1) /\ (prev + k) - 1 # 0
                /\ k - 1 \in 1..Len(es)
            BY <3>1, <5>2
          <6> QED BY Zenon, <3>1, <5>2, <6>1 DEF TermAt
        <5> QED BY Zenon, <5>1, <5>2
      <4>3. ItemAt(log[i], prev + k) \in Created
        BY Zenon, <4>1, LogsArePaths, OnPath DEF ArePaths
      <4> QED BY Zenon, <3>1, <4>2, <4>3 DEF ItemAt
    <3> QED BY Zenon, <3>2 DEF Items
  <2> QED BY Zenon, <2>1, <2>2, <2>3, AppendCallsOrigin
<1>5. New(a)
  <2>1. \/ \E j \in Node : a \in Items(0, 0, log'[j])
        \/ \E m \in appReq' : a \in Items(m.prevLogIndex, m.prevLogTerm, m.entries)
        \/ a \in Items(0, 0, committed')
    BY Zenon, CreatedWhereNext DEF CreatedIsWhere
  <2> QED BY Zenon, <1>2, <1>3, <1>4, <2>1
<1> QED BY Zenon, <1>5

\* The items of what there is have indexes and terms.
LEMMA CreatedTypes ==
  ASSUME TypeOK, NEW a \in Created
  PROVE  /\ a.index \in Nat \ {0} /\ a.entry \in Entry
         /\ a.entry.term \in Nat /\ a.prev \in Nat
<1> DEFINE OK == /\ a.index \in Nat \ {0} /\ a.entry \in Entry
                 /\ a.entry.term \in Nat /\ a.prev \in Nat
<1>1. ASSUME NEW base \in Nat, NEW baseTerm \in Nat, NEW es \in Seq(Entry),
             a \in Items(base, baseTerm, es)
      PROVE  OK
  <2>1. PICK k \in 1..Len(es) :
          a = [index |-> base + k, entry |-> es[k],
               prev |-> IF k = 1 THEN baseTerm ELSE es[k - 1].term]
    BY Zenon, <1>1 DEF Items
  <2>2. es[k] \in Entry /\ es[k].term \in Nat
    BY Zenon, <1>1, EntryTerm
  <2>3. ASSUME k # 1 PROVE es[k - 1].term \in Nat
    <3>1. k - 1 \in 1..Len(es)
      BY <1>1, <2>3
    <3> QED BY Zenon, <1>1, <3>1, EntryTerm
  <2> QED BY <1>1, <2>1, <2>2, <2>3
<1>2. /\ committed \in Seq(Entry) /\ \A i \in Node : log[i] \in Seq(Entry)
      /\ \A m \in appReq : /\ m.prevLogIndex \in Nat /\ m.prevLogTerm \in Nat
                           /\ m.entries \in Seq(Entry)
  BY Zenon DEF TypeOK, AppendRequest
<1> HIDE DEF OK
<1>3. ASSUME NEW i \in Node, a \in Items(0, 0, log[i]) PROVE OK
  BY Zenon, <1>1, <1>2, <1>3
<1>4. ASSUME NEW m \in appReq, a \in Items(m.prevLogIndex, m.prevLogTerm, m.entries)
      PROVE  OK
  BY Zenon, <1>1, <1>2, <1>4
<1>5. ASSUME a \in Items(0, 0, committed) PROVE OK
  BY Zenon, <1>1, <1>2, <1>5
<1>6. OK
  BY Zenon, <1>3, <1>4, <1>5, CreatedWhere DEF CreatedIsWhere
<1> QED BY Zenon, <1>6 DEF OK

\* A leader's log is what it was before, with the leader in the same term, or
\* grows.
LEMMA LeaderLogs ==
  ASSUME SetFacts, TypeOK, TypeOK', [Next]_vars, WonByMajority, LeadersElected,
         NEW j \in Node, role'[j] = "leader"
  PROVE  \/ Grows(j)
         \/ /\ role[j] = "leader" /\ currentTerm'[j] = currentTerm[j]
            /\ log'[j] = log[j]
<1>0. /\ DOMAIN log = Node /\ \A k \in Node : log[k] \in Seq(Entry)
      /\ role \in [Node -> {"follower", "candidate", "leader"}]
      /\ currentTerm'[j] \in Nat
  BY Zenon DEF TypeOK
<1>1. Grows(j) \/ log'[j] = log[j]
  <2>1. ASSUME NEW i \in Node, i # j, Grows(i) PROVE log'[j] = log[j]
    <3>1. PICK e \in Entry : log' = [log EXCEPT ![i] = Append(log[i], e)]
      BY Zenon, <2>1 DEF Grows
    <3> QED BY Zenon, <1>0, <2>1, <3>1
  <2>2. ASSUME NEW m \in appReq, NEW lg, Accepts(m, lg) PROVE log'[j] = log[j]
    <3>1. /\ m.to \in Node
          /\ role' = [role EXCEPT ![m.to] = "follower"]
          /\ log' = [log EXCEPT ![m.to] = lg]
      BY Zenon, <2>2, FieldTypes DEF Accepts
    <3>2. m.to # j
      BY Zenon, <1>0, <3>1
    <3> QED BY Zenon, <1>0, <3>1, <3>2
  <2> QED BY Zenon, <2>1, <2>2, LogSteps
<1>2. CASE log'[j] = log[j]
  <2>1. ~BecomesLeader(j)
    <3> SUFFICES ASSUME BecomesLeader(j) PROVE FALSE
      BY Zenon
    <3> DEFINE e == [term |-> currentTerm'[j], command |-> NoOp]
    <3>1. log' = [log EXCEPT ![j] = Append(log[j], e)]
      BY Zenon DEF BecomesLeader, BecomeLeader
    <3>2. e \in Entry
      BY Zenon, <1>0 DEF Entry
    <3> HIDE DEF e
    <3>3. log'[j] = Append(log[j], e)
      BY Zenon, <1>0, <3>1
    <3>4. Len(Append(log[j], e)) = Len(log[j]) + 1 /\ Len(log[j]) \in Nat
      BY <1>0, <3>2
    <3> QED BY <1>2, <3>3, <3>4
  <2> QED BY Zenon, <1>2, <2>1, LeaderKeeps DEF KeepsLeading
<1> QED BY Zenon, <1>1, <1>2

-----------------------------------------------------------------------------
(* Entries are made by leaders, one branch per term.                       *)

\* When a leader appends, what there is of its term already is in its log.
LEMMA GrowsAtTheEnd ==
  ASSUME SetFacts, ElectionInv, ElectionInv', [Next]_vars, MadeByLeaders,
         NEW i \in Node, Grows(i), NEW a \in Created,
         a.entry.term = currentTerm'[i]
  PROVE  /\ role[i] = "leader" /\ currentTerm'[i] = currentTerm[i]
         /\ a.index <= Len(log[i]) /\ LastTerm(log[i]) = currentTerm'[i]
<1> DEFINE win == [term |-> currentTerm'[i], node |-> i]
<1>1. win \in elected'
  BY Zenon DEF Grows, ElectionInv, LeadersElected
<1>2. PICK e \in elected : e.term = currentTerm'[i]
  BY Zenon DEF MadeByLeaders
<1>3. e \in elected' /\ e \in [term : Nat, node : Node]
  BY Zenon, <1>2, HistoriesGrow DEF ElectionInv, TypeOK
<1>4. ElectionSafety'
  BY OneWinner, PTL
<1>5. e.node = i
  BY Zenon, <1>1, <1>2, <1>3, <1>4 DEF ElectionSafety
<1>6. win \in elected
  <2>1. e = win
    BY Zenon, <1>2, <1>3, <1>5
  <2> QED BY Zenon, <1>2, <2>1
<1>7. KeepsLeading(i)
  BY Zenon, <1>6, LeaderKeeps DEF ElectionInv, BecomesLeader, Grows
<1> QED BY Zenon, <1>7 DEF KeepsLeading, MadeByLeaders

\* How the role of a node changes.
LEMMA RoleSteps ==
  ASSUME TypeOK, [Next]_vars, NEW c \in Node
  PROVE  \/ role'[c] = "follower"
         \/ role'[c] = role[c] /\ currentTerm'[c] = currentTerm[c]
         \/ StartElection(c)
         \/ /\ role[c] = "candidate" /\ role'[c] = "leader"
            /\ currentTerm'[c] = currentTerm[c]
<1> DEFINE OK == \/ role'[c] = "follower"
                 \/ role'[c] = role[c] /\ currentTerm'[c] = currentTerm[c]
                 \/ StartElection(c)
                 \/ /\ role[c] = "candidate" /\ role'[c] = "leader"
                    /\ currentTerm'[c] = currentTerm[c]
<1>0. /\ currentTerm \in [Node -> Nat]
      /\ role \in [Node -> {"follower", "candidate", "leader"}]
  BY Zenon DEF TypeOK
<1>1. ASSUME NEW i \in Node, StartElection(i) PROVE OK
  <2>1. CASE c = i
    BY Zenon, <1>1, <2>1
  <2>2. CASE c # i
    <3>1. /\ currentTerm' = [currentTerm EXCEPT ![i] = currentTerm[i] + 1]
          /\ \/ role' = [role EXCEPT ![i] = "leader"]
             \/ role' = [role EXCEPT ![i] = "candidate"]
      BY Zenon, <1>1 DEF StartElection, BecomeLeader
    <3> QED BY Zenon, <1>0, <2>2, <3>1
  <2> QED BY Zenon, <2>1, <2>2
<1>2. ASSUME NEW i \in Node, CrashInElection(i) PROVE OK
  <2>1. /\ role' = [role EXCEPT ![i] = "follower"]
        /\ currentTerm' = [currentTerm EXCEPT ![i] = currentTerm[i] + 1]
    BY Zenon, <1>2 DEF CrashInElection, Reboot
  <2> QED BY Zenon, <1>0, <2>1
<1>3. ASSUME NEW m \in voteReq, OnRequestVote(m) PROVE OK
  <2>1. /\ m.to \in Node
        /\ currentTerm' = [currentTerm EXCEPT ![m.to] =
             IF m.term > currentTerm[m.to] THEN m.term ELSE @]
        /\ role' = [role EXCEPT ![m.to] =
             IF m.term > currentTerm[m.to] THEN "follower" ELSE @]
    BY Zenon, <1>3, FieldTypes DEF OnRequestVote
  <2> QED BY Zenon, <1>0, <2>1
<1>4. ASSUME NEW r \in voteRep, OnVoteReply(r), CountsVote(r.from, r),
             r.rterm <= currentTerm[r.from]
      PROVE  OK
  <2>1. r.from \in Node /\ r.rterm \in Nat
    BY Zenon, FieldTypes
  <2>2. ~(r.rterm > currentTerm[r.from]) /\ role[r.from] = "candidate"
    BY <1>0, <1>4, <2>1 DEF CountsVote
  <2>3. /\ currentTerm' = currentTerm
        /\ role' = role \/ role' = [role EXCEPT ![r.from] = "leader"]
    BY Zenon, <1>4, <2>2 DEF OnVoteReply, BecomeLeader
  <2> QED BY Zenon, <1>0, <2>1, <2>2, <2>3
<1>5. ASSUME NEW i \in Node, NEW t \in Nat, StepsDown(i, t) PROVE OK
  <2>1. /\ role' = [role EXCEPT ![i] = "follower"]
        /\ currentTerm' = [currentTerm EXCEPT ![i] = t]
    BY Zenon, <1>5 DEF StepsDown
  <2> QED BY Zenon, <1>0, <2>1
<1>6. ASSUME UNCHANGED <<role, currentTerm>> PROVE OK
  BY Zenon, <1>6
<1>7. OK
  <2> HIDE DEF OK
  <2> QED BY Zenon, <1>1, <1>2, <1>3, <1>4, <1>5, <1>6, ElectionSteps
<1> QED BY Zenon, <1>7

\* Nobody holds an entry of a term it has not reached.
LEMMA TermsReachedStep ==
  ASSUME SetFacts, TypeOK, TypeOK', [Next]_vars, IndexesInLog, TermsReached
  PROVE  TermsReached'
<1>0. /\ DOMAIN log = Node /\ \A j \in Node : log[j] \in Seq(Entry)
      /\ \A j \in Node : log'[j] \in Seq(Entry)
      /\ currentTerm \in [Node -> Nat]
  BY Zenon DEF TypeOK
<1>1. ASSUME NEW i \in Node, role'[i] # "follower" PROVE currentTerm'[i] > 0
  <2>1. CASE StartElection(i)
    <3>1. currentTerm'[i] = currentTerm[i] + 1
      BY Zenon, <1>0, <2>1 DEF StartElection
    <3> QED BY <1>0, <3>1
  <2>2. CASE role[i] # "follower" /\ currentTerm'[i] = currentTerm[i]
    BY Zenon, <2>2 DEF TermsReached
  <2>3. role[i] # "follower" \/ StartElection(i)
    BY Zenon, <1>1, RoleSteps
  <2>4. currentTerm'[i] = currentTerm[i] \/ StartElection(i)
    BY Zenon, <1>1, RoleSteps
  <2> QED BY Zenon, <2>1, <2>2, <2>3, <2>4
<1>2. ASSUME NEW j \in Node, NEW k \in DOMAIN log'[j]
      PROVE  log'[j][k].term <= currentTerm'[j]
  <2>0. k \in 1..Len(log'[j]) /\ currentTerm[j] \in Nat /\ currentTerm'[j] \in Nat
        /\ currentTerm[j] <= currentTerm'[j]
    BY <1>0, TermTypes
  <2>1. ASSUME k \in 1..Len(log[j]), log'[j][k] = log[j][k]
        PROVE  log'[j][k].term <= currentTerm'[j]
    <3>1. log[j][k].term <= currentTerm[j] /\ log[j][k].term \in Nat
      BY <1>0, <2>1, EntryTerm DEF TermsReached
    <3> QED BY <2>0, <2>1, <3>1
  <2>2. CASE log'[j] = log[j]
    BY Zenon, <2>0, <2>1, <2>2
  <2>3. ASSUME NEW i \in Node, Grows(i) PROVE log'[j][k].term <= currentTerm'[j]
    <3>1. PICK e \in Entry : /\ e.term = currentTerm'[i]
                             /\ log' = [log EXCEPT ![i] = Append(log[i], e)]
      BY Zenon, <2>3 DEF Grows
    <3>2. CASE j # i
      BY Zenon, <1>0, <2>2, <3>1, <3>2
    <3>3. CASE j = i
      <4>1. log'[j] = Append(log[j], e)
        BY Zenon, <1>0, <3>1, <3>3
      <4>2. \/ k \in 1..Len(log[j]) /\ log'[j][k] = log[j][k]
            \/ log'[j][k] = e
        BY <1>0, <2>0, <4>1
      <4>3. CASE log'[j][k] = e
        BY <2>0, <3>1, <3>3, <4>3
      <4> QED BY Zenon, <2>1, <4>2, <4>3
    <3> QED BY Zenon, <3>2, <3>3
  <2>4. ASSUME NEW m \in appReq, NEW lg \in Seq(Entry), Accepts(m, lg)
        PROVE  log'[j][k].term <= currentTerm'[j]
    <3>1. /\ m.to \in Node /\ m.prevLogIndex \in Nat /\ m.entries \in Seq(Entry)
          /\ m.term \in Nat
      BY Zenon, FieldTypes
    <3>2. /\ log' = [log EXCEPT ![m.to] = lg]
          /\ Takes(log[m.to], m.prevLogIndex, m.entries, lg)
          /\ currentTerm' = [currentTerm EXCEPT ![m.to] = m.term]
      BY Zenon, <2>4 DEF Accepts
    <3>3. CASE j # m.to
      BY Zenon, <1>0, <2>2, <3>1, <3>2, <3>3
    <3>4. CASE j = m.to
      <4>1. log'[j] = lg /\ currentTerm'[j] = m.term
        BY Zenon, <1>0, <3>1, <3>2, <3>4
      <4>2. \/ k \in 1..Len(log[j]) /\ lg[k] = log[j][k]
            \/ \E x \in 1..Len(m.entries) : lg[k] = m.entries[x]
        <5>1. /\ k \in 1..Len(lg) /\ log[j] \in Seq(Entry) /\ lg \in Seq(Entry)
              /\ Takes(log[j], m.prevLogIndex, m.entries, lg)
          BY Zenon, <1>0, <2>0, <2>4, <3>2, <3>4, <4>1
        <5> QED BY ZenonT(30), <3>1, <5>1, TakesFrom
      <4>3. ASSUME NEW x \in 1..Len(m.entries), lg[k] = m.entries[x]
            PROVE  log'[j][k].term <= currentTerm'[j]
        <5>1. x \in DOMAIN m.entries
          BY <3>1
        <5>2. m.entries[x].term <= m.term
          BY Zenon, <5>1 DEF TermsReached
        <5> QED BY Zenon, <4>1, <4>3, <5>2
      <4> QED BY Zenon, <2>1, <4>1, <4>2, <4>3
    <3> QED BY Zenon, <3>3, <3>4
  <2> QED BY Zenon, <2>2, <2>3, <2>4, LogSteps
<1>3. ASSUME NEW m \in appReq', NEW k \in DOMAIN m.entries
      PROVE  m.entries[k].term <= m.term
  <2>1. CASE m \in appReq
    BY Zenon, <2>1 DEF TermsReached
  <2>2. CASE \E n \in appReq : SameArgs(m, n)
    BY Zenon, <2>2 DEF SameArgs, TermsReached
  <2>3. ASSUME m \notin appReq, NEW i \in Node, NEW p \in Node, SendAppend(i, p)
        PROVE  m.entries[k].term <= m.term
    <3>1. /\ m.prevLogIndex \in Nat /\ m.entries \in Seq(Entry)
          /\ m.prevLogIndex + Len(m.entries) <= Len(log[i])
          /\ m.term = currentTerm[i]
      BY Zenon, <2>3, SentAppend
    <3>2. \A x \in 1..Len(m.entries) : m.entries[x] = log[i][m.prevLogIndex + x]
      BY <2>3, SentAppend
    <3>3. k \in 1..Len(m.entries) /\ m.prevLogIndex + k \in DOMAIN log[i]
      BY <1>0, <3>1
    <3>4. log[i][m.prevLogIndex + k].term <= currentTerm[i]
      BY Zenon, <3>3 DEF TermsReached
    <3> QED BY Zenon, <3>1, <3>2, <3>3, <3>4
  <2> QED BY Zenon, <2>1, <2>2, <2>3, AppendCallsOrigin
<1> QED BY Zenon, <1>1, <1>2, <1>3 DEF TermsReached

\* The entry that a growing leader adds.
LEMMA GrowsItem ==
  ASSUME ElectionInv, ElectionInv', [Next]_vars, TermsReached, TermsReached',
         NEW i \in Node, Grows(i)
  PROVE  LET x == ItemAt(log'[i], Len(log'[i]))
         IN  /\ x.index = Len(log[i]) + 1 /\ x.index = Len(log'[i])
             /\ x.entry.term = currentTerm'[i] /\ currentTerm'[i] >= 1
             /\ x.prev = LastTerm(log[i]) /\ x.prev <= currentTerm'[i]
             /\ LastTerm(log'[i]) = currentTerm'[i]
             /\ Len(log[i]) \in Nat /\ currentTerm'[i] \in Nat
             /\ SameUpTo(log[i], log'[i], Len(log[i]))
<1>0. /\ DOMAIN log = Node /\ log[i] \in Seq(Entry) /\ Len(log[i]) \in Nat
      /\ currentTerm[i] \in Nat /\ currentTerm'[i] \in Nat
      /\ currentTerm[i] <= currentTerm'[i]
  <2>1. TypeOK /\ TypeOK'
    BY Zenon DEF ElectionInv
  <2>2. DOMAIN log = Node /\ log[i] \in Seq(Entry) /\ Len(log[i]) \in Nat
    BY <2>1 DEF TypeOK
  <2> QED BY Zenon, <2>1, <2>2, TermTypes
<1>1. PICK e \in Entry : /\ e.term = currentTerm'[i]
                         /\ log' = [log EXCEPT ![i] = Append(log[i], e)]
  BY Zenon DEF Grows
<1> DEFINE lg == log[i]
           new == log'[i]
<1>2. new = Append(lg, e)
  BY Zenon, <1>0, <1>1
<1> HIDE DEF lg, new
<1>3. /\ new \in Seq(Entry) /\ Len(new) = Len(lg) + 1 /\ new[Len(new)] = e
      /\ SameUpTo(lg, new, Len(lg)) /\ Len(new) # 0 /\ Len(new) - 1 = Len(lg)
  <2>1. lg \in Seq(Entry)
    BY Zenon, <1>0 DEF lg
  <2>2. new \in Seq(Entry) /\ Len(new) = Len(lg) + 1 /\ SameUpTo(lg, new, Len(lg))
    BY Zenon, <1>2, <2>1, OneMore
  <2> QED BY <1>2, <2>1, <2>2
<1>4. TermAt(new, Len(new) - 1) = LastTerm(lg)
  <2>1. CASE Len(lg) = 0
    BY Zenon, <1>3, <2>1 DEF TermAt, LastTerm
  <2>2. CASE Len(lg) # 0
    <3>1. Len(lg) \in 1..Len(lg)
      BY <1>0, <2>2 DEF lg
    <3>2. new[Len(lg)] = lg[Len(lg)]
      BY Zenon, <1>3, <3>1 DEF SameUpTo
    <3> QED BY Zenon, <1>3, <2>2, <3>2 DEF TermAt, LastTerm
  <2> QED BY Zenon, <2>1, <2>2
<1>5. LastTerm(lg) <= currentTerm'[i]
  <2>1. CASE Len(lg) = 0
    BY <1>0, <2>1 DEF TermAt, LastTerm
  <2>2. CASE Len(lg) # 0
    <3>1. Len(lg) \in 1..Len(lg) /\ DOMAIN lg = 1..Len(lg)
      BY <1>0, <2>2 DEF lg
    <3>2. lg[Len(lg)].term <= currentTerm[i] /\ lg[Len(lg)].term \in Nat
      BY Zenon, <1>0, <3>1, EntryTerm DEF TermsReached, lg
    <3>3. LastTerm(lg) = lg[Len(lg)].term
      BY Zenon, <2>2 DEF TermAt, LastTerm
    <3> QED BY <1>0, <3>2, <3>3
  <2> QED BY Zenon, <2>1, <2>2
<1>6. currentTerm'[i] >= 1
  <2>1. role'[i] # "follower"
    BY Zenon DEF Grows
  <2>2. currentTerm'[i] > 0
    BY Zenon, <2>1 DEF TermsReached
  <2> QED BY <1>0, <2>2
<1>7. LastTerm(new) = currentTerm'[i]
  BY Zenon, <1>1, <1>3 DEF LastTerm, TermAt
<1>8. ItemAt(new, Len(new)) = [index |-> Len(lg) + 1, entry |-> e, prev |-> LastTerm(lg)]
  BY Zenon, <1>3, <1>4 DEF ItemAt
<1> DEFINE x == ItemAt(new, Len(new))
<1>9. x.index = Len(lg) + 1 /\ x.entry = e /\ x.prev = LastTerm(lg)
  BY <1>8
<1> HIDE DEF x
<1>10. /\ x.index = Len(lg) + 1 /\ x.index = Len(new)
       /\ x.entry.term = currentTerm'[i] /\ currentTerm'[i] >= 1
       /\ x.prev = LastTerm(lg) /\ x.prev <= currentTerm'[i]
       /\ LastTerm(new) = currentTerm'[i]
       /\ Len(lg) \in Nat /\ currentTerm'[i] \in Nat
       /\ SameUpTo(lg, new, Len(lg))
  <2>1. Len(lg) \in Nat /\ currentTerm'[i] \in Nat
    BY Zenon, <1>0 DEF lg
  <2> QED BY Zenon, <1>1, <1>3, <1>5, <1>6, <1>7, <1>9, <2>1
<1> QED BY Zenon, <1>10 DEF x, lg, new

\* Entries stay one branch per term, made by its leader at the end of its log.
LEMMA MadeByLeadersStep ==
  ASSUME SetFacts, ElectionInv, ElectionInv', [Next]_vars, TermsReached, TermsReached',
         MadeByLeaders
  PROVE  MadeByLeaders'
<1>0. /\ TypeOK /\ TypeOK' /\ WonByMajority /\ LeadersElected /\ LeadersElected'
      /\ IndexesInLog
  BY Zenon DEF ElectionInv
<1>1. \A a \in Created' : \/ a \in Created
                          \/ \E i \in Node : Grows(i) /\ a = ItemAt(log'[i], Len(log'[i]))
  BY Zenon, <1>0, CreatedSteps
<1>2. CASE \E i \in Node : Grows(i)
  <2>0. PICK i \in Node : Grows(i)
    BY Zenon, <1>2
  <2> DEFINE x == ItemAt(log'[i], Len(log'[i]))
             t == currentTerm'[i]
  <2>1. \A j \in Node : j # i => ~Grows(j) /\ log'[j] = log[j]
    <3> SUFFICES ASSUME NEW j \in Node, j # i PROVE ~Grows(j) /\ log'[j] = log[j]
      BY Zenon
    <3>0. DOMAIN log = Node /\ log[j] \in Seq(Entry)
      BY Zenon, <1>0 DEF TypeOK
    <3>1. PICK e \in Entry : log' = [log EXCEPT ![i] = Append(log[i], e)]
      BY Zenon, <2>0 DEF Grows
    <3>2. log'[j] = log[j]
      BY Zenon, <3>0, <3>1
    <3>3. ASSUME Grows(j) PROVE FALSE
      <4>1. PICK f \in Entry : log' = [log EXCEPT ![j] = Append(log[j], f)]
        BY Zenon, <3>3 DEF Grows
      <4>2. log'[j] = Append(log[j], f)
        BY Zenon, <3>0, <4>1
      <4>3. Len(Append(log[j], f)) = Len(log[j]) + 1 /\ Len(log[j]) \in Nat
        BY <3>0
      <4> QED BY <3>2, <4>2, <4>3
    <3> QED BY Zenon, <3>2, <3>3
  <2>2. /\ x.index = Len(log[i]) + 1 /\ x.index = Len(log'[i])
        /\ x.entry.term = t /\ t >= 1 /\ t \in Nat /\ Len(log[i]) \in Nat
        /\ x.prev = LastTerm(log[i]) /\ x.prev <= t /\ LastTerm(log'[i]) = t
    BY Zenon, <2>0, GrowsItem
  <2>3. \A a \in Created' : a \in Created \/ a = x
    BY Zenon, <1>1, <2>1
  <2>4. \A a \in Created : a.entry.term = t =>
          /\ role[i] = "leader" /\ currentTerm'[i] = currentTerm[i]
          /\ a.index <= Len(log[i]) /\ LastTerm(log[i]) = t
    BY Zenon, <2>0, GrowsAtTheEnd
  <2>5. [term |-> t, node |-> i] \in elected'
    BY Zenon, <1>0, <2>0 DEF Grows, LeadersElected
  <2> HIDE DEF x, t
  <2>6. OneBranchPerTerm(Created)
    BY Zenon DEF MadeByLeaders
  <2>7. \A a \in Created' : 1 <= a.entry.term /\ a.prev <= a.entry.term
    BY Zenon, <2>2, <2>3, <2>6 DEF OneBranchPerTerm
  <2>8. ASSUME NEW a \in Created, a.entry.term = t
        PROVE  a.index # x.index /\ ~(x.index < a.index) /\ x.prev = x.entry.term
    <3>1. a.index <= Len(log[i]) /\ LastTerm(log[i]) = t
      BY Zenon, <2>4, <2>8
    <3>2. a.index \in Int
      BY <1>0, <2>8, CreatedTypes
    <3> QED BY <2>2, <3>1, <3>2
  <2>9. ~(x.index < x.index)
    BY <2>2
  <2>10. ASSUME NEW a \in Created', NEW b \in Created', a.entry.term = b.entry.term
         PROVE  /\ a.index = b.index => a = b
                /\ b.index < a.index => a.prev = a.entry.term
    BY Zenon, <2>2, <2>3, <2>6, <2>8, <2>9, <2>10 DEF OneBranchPerTerm
  <2>11. OneBranchPerTerm(Created)'
    BY Zenon, <2>7, <2>10 DEF OneBranchPerTerm
  <2>12. ASSUME NEW a \in Created' PROVE \E e \in elected' : e.term = a.entry.term
    <3>1. CASE a \in Created
      BY Zenon, <1>0, <3>1, HistoriesGrow DEF MadeByLeaders
    <3>2. CASE a = x
      BY Zenon, <2>2, <2>5, <3>2
    <3> QED BY Zenon, <2>3, <3>1, <3>2
  <2>13. ASSUME NEW j \in Node, role'[j] = "leader"
         PROVE  /\ Len(log'[j]) > 0 /\ LastTerm(log'[j]) = currentTerm'[j]
                /\ \A a \in Created' :
                     a.entry.term = currentTerm'[j] => a.index <= Len(log'[j])
    <3>1. CASE j = i
      <4>1. Len(log'[i]) > 0 /\ LastTerm(log'[i]) = currentTerm'[i]
        BY <2>2 DEF t
      <4>2. ASSUME NEW a \in Created', a.entry.term = t
            PROVE  a.index <= Len(log'[i])
        <5>1. CASE a = x
          BY <2>2, <5>1
        <5>2. CASE a \in Created
          <6>1. a.index <= Len(log[i]) /\ a.index \in Int
            BY <1>0, <2>4, <4>2, <5>2, CreatedTypes
          <6> QED BY <2>2, <6>1
        <5> QED BY Zenon, <2>3, <5>1, <5>2
      <4> QED BY Zenon, <3>1, <4>1, <4>2 DEF t
    <3>2. CASE j # i
      <4>1. role[j] = "leader" /\ currentTerm'[j] = currentTerm[j] /\ log'[j] = log[j]
        BY Zenon, <1>0, <2>1, <2>13, <3>2, LeaderLogs
      <4>2. [term |-> currentTerm'[j], node |-> j] \in elected'
        BY Zenon, <1>0, <2>13 DEF LeadersElected
      <4>3. ElectionSafety'
        BY OneWinner, PTL
      <4>4. currentTerm'[j] # t
        <5> SUFFICES ASSUME currentTerm'[j] = t PROVE FALSE
          BY Zenon
        <5> DEFINE e == [term |-> currentTerm'[j], node |-> j]
                   f == [term |-> t, node |-> i]
        <5>1. e.term = f.term => e.node = f.node
          BY Zenon, <2>5, <4>2, <4>3 DEF ElectionSafety
        <5> QED BY Zenon, <3>2, <5>1
      <4>5. \A a \in Created' : a.entry.term = currentTerm'[j] => a \in Created
        BY Zenon, <2>2, <2>3, <4>4
      <4> QED BY Zenon, <4>1, <4>5 DEF MadeByLeaders
    <3> QED BY Zenon, <3>1, <3>2
  <2> QED BY Zenon, <2>11, <2>12, <2>13 DEF MadeByLeaders
<1>3. CASE ~\E i \in Node : Grows(i)
  <2>1. \A a \in Created' : a \in Created
    BY Zenon, <1>1, <1>3
  <2>2. OneBranchPerTerm(Created)'
    BY Zenon, <2>1 DEF OneBranchPerTerm, MadeByLeaders
  <2>3. ASSUME NEW a \in Created' PROVE \E e \in elected' : e.term = a.entry.term
    BY Zenon, <1>0, <2>1, HistoriesGrow DEF MadeByLeaders
  <2>4. ASSUME NEW j \in Node, role'[j] = "leader"
        PROVE  /\ Len(log'[j]) > 0 /\ LastTerm(log'[j]) = currentTerm'[j]
               /\ \A a \in Created' :
                    a.entry.term = currentTerm'[j] => a.index <= Len(log'[j])
    <3>1. role[j] = "leader" /\ currentTerm'[j] = currentTerm[j] /\ log'[j] = log[j]
      BY Zenon, <1>0, <1>3, <2>4, LeaderLogs
    <3> QED BY Zenon, <2>1, <3>1 DEF MadeByLeaders
  <2> QED BY Zenon, <2>2, <2>3, <2>4 DEF MadeByLeaders
<1> QED BY Zenon, <1>2, <1>3

-----------------------------------------------------------------------------
(* What peers have confirmed.                                              *)

\* A log that a leader keeps or appends to has the old one as a prefix.
LEMMA KeepsPrefix ==
  ASSUME TypeOK, NEW i \in Node, KeepsLeading(i)
  PROVE  SameUpTo(log[i], log'[i], Len(log[i]))
<1>1. log[i] \in Seq(Entry)
  BY Zenon DEF TypeOK
<1>2. CASE log'[i] = log[i]
  BY <1>1, <1>2 DEF SameUpTo
<1>3. ASSUME NEW e \in Entry, log'[i] = Append(log[i], e)
      PROVE  SameUpTo(log[i], log'[i], Len(log[i]))
  BY Zenon, <1>1, <1>3, OneMore
<1> QED BY Zenon, <1>2, <1>3 DEF KeepsLeading

\* A leader with a call or a reply of its term about has not just been elected.
LEMMA CallersKeepLeading ==
  ASSUME ElectionInv, ElectionInv', [Next]_vars, NEW i \in Node,
         role'[i] = "leader", [term |-> currentTerm'[i], node |-> i] \in elected
  PROVE  KeepsLeading(i)
BY Zenon, LeaderKeeps DEF ElectionInv, BecomesLeader

\* Calls go on showing a piece of the leader's log.
LEMMA CallsShowLogStep ==
  ASSUME SetFacts, ElectionInv, ElectionInv', [Next]_vars, CallsShowLog
  PROVE  CallsShowLog'
<1> DEFINE Shows(m) == (role'[m.from] = "leader" /\ currentTerm'[m.from] = m.term)
             => /\ TermAt(log'[m.from], m.prevLogIndex) = m.prevLogTerm
                /\ \A k \in DOMAIN m.entries :
                     log'[m.from][m.prevLogIndex + k] = m.entries[k]
<1>0. TypeOK /\ TypeOK' /\ \A j \in Node : log[j] \in Seq(Entry)
  BY Zenon DEF ElectionInv, TypeOK
<1>1. ASSUME NEW m \in appReq', NEW n \in appReq, SameArgs(m, n)
      PROVE  m.from # m.to /\ Shows(m)
  <2>1. m.from # m.to
    BY Zenon, <1>1 DEF SameArgs, CallsShowLog
  <2>2. ASSUME role'[m.from] = "leader", currentTerm'[m.from] = m.term
        PROVE  /\ TermAt(log'[m.from], m.prevLogIndex) = m.prevLogTerm
               /\ \A k \in DOMAIN m.entries :
                    log'[m.from][m.prevLogIndex + k] = m.entries[k]
    <3> DEFINE i == n.from
               prev == n.prevLogIndex
               es == n.entries
    <3>1. /\ i \in Node /\ prev \in Nat /\ es \in Seq(Entry)
          /\ m.from = i /\ m.term = n.term
          /\ m.prevLogIndex = prev /\ m.entries = es /\ m.prevLogTerm = n.prevLogTerm
      BY Zenon, <1>0, <1>1, FieldTypes DEF SameArgs
    <3>2. [term |-> n.term, node |-> i] \in elected
      BY Zenon DEF ElectionInv, LeadersElected
    <3>3. KeepsLeading(i)
      BY Zenon, <2>2, <3>1, <3>2, CallersKeepLeading
    <3>4. role[i] = "leader" /\ currentTerm[i] = n.term
      BY Zenon, <2>2, <3>1, <3>3 DEF KeepsLeading
    <3>5. prev + Len(es) <= Len(log[i])
      BY Zenon, <3>4 DEF ElectionInv, CallsInLog
    <3>6. /\ TermAt(log[i], prev) = n.prevLogTerm
          /\ \A k \in DOMAIN es : log[i][prev + k] = es[k]
      BY Zenon, <3>4 DEF CallsShowLog
    <3>7. \A k \in 1..Len(log[i]) : log'[i][k] = log[i][k]
      BY Zenon, <1>0, <3>1, <3>3, KeepsPrefix DEF SameUpTo
    <3>8. log[i] \in Seq(Entry)
      BY Zenon, <1>0, <3>1
    <3> HIDE DEF i, prev, es
    <3>9. TermAt(log'[i], prev) = TermAt(log[i], prev)
      BY <3>1, <3>5, <3>7, <3>8 DEF TermAt
    <3>10. \A k \in DOMAIN es : prev + k \in 1..Len(log[i])
      BY <3>1, <3>5, <3>8
    <3> QED BY Zenon, <3>1, <3>6, <3>7, <3>9, <3>10
  <2> QED BY Zenon, <2>1, <2>2
<1>2. ASSUME NEW m \in appReq', m \notin appReq, NEW i \in Node, NEW p \in Node,
             SendAppend(i, p)
      PROVE  m.from # m.to /\ Shows(m)
  <2>1. /\ m.from = i /\ m.to = p /\ p # i
        /\ m.entries \in Seq(Entry)
        /\ m.prevLogTerm = TermAt(log[i], m.prevLogIndex)
    BY <1>0, <1>2, SentAppend DEF ElectionInv
  <2>2. \A k \in 1..Len(m.entries) : m.entries[k] = log[i][m.prevLogIndex + k]
    BY <1>0, <1>2, SentAppend DEF ElectionInv
  <2>3. log' = log
    BY Zenon, <1>2 DEF SendAppend
  <2>4. DOMAIN m.entries = 1..Len(m.entries)
    BY <2>1
  <2> QED BY Zenon, <2>1, <2>2, <2>3, <2>4
<1>3. ASSUME NEW m \in appReq, m \in appReq' PROVE m.from # m.to /\ Shows(m)
  <2>1. SameArgs(m, m)
    BY Zenon DEF SameArgs
  <2> HIDE DEF Shows
  <2> QED BY Zenon, <1>1, <1>3, <2>1
<1>4. ASSUME NEW m \in appReq' PROVE m.from # m.to /\ Shows(m)
  <2> HIDE DEF Shows
  <2> QED BY Zenon, <1>0, <1>1, <1>2, <1>3, AppendCallsOrigin
<1> QED BY Zenon, <1>4 DEF CallsShowLog

\* Peer p confirms n to i in this step.
Confirms(i, p, n) ==
  \E r \in appRep' : /\ r \notin appRep
                     /\ r.from = i /\ r.to = p /\ r.term = currentTerm[i]
                     /\ r.success /\ r.match >= n

\* Whatever is confirmed to a leader was confirmed before, to the same leader,
\* or is in this step.
LEMMA AckedSteps ==
  ASSUME SetFacts, ElectionInv, ElectionInv', [Next]_vars, NEW i \in Node, NEW p \in Node,
         p # i, role'[i] = "leader", NEW n \in Nat \ {0}, Acked(i, p, n)'
  PROVE  KeepsLeading(i) /\ (Acked(i, p, n) \/ Confirms(i, p, n))
<1> DEFINE win == [term |-> currentTerm'[i], node |-> i]
<1>0. /\ TypeOK /\ TypeOK' /\ WonByMajority /\ LeadersElected
      /\ \A j \in Node : log[j] \in Seq(Entry)
      /\ matchIndex \in [Node -> [Node -> Nat]]
  BY Zenon DEF ElectionInv, TypeOK
<1>1. ASSUME NEW r \in appRep', r.from = i, r.term = currentTerm'[i]
      PROVE  win \in elected
  <2>1. r \in appRep \/ \E m \in appReq : Answers(r, m)
    BY Zenon, <1>0, AppendCallsOrigin
  <2> QED BY Zenon, <1>0, <1>1, <2>1 DEF LeadersElected, Answers
<1>2. ASSUME BecomesLeader(i) PROVE matchIndex'[i][p] = 0
  <2>1. PICK match : /\ match = [q \in Node |-> IF q = i
                                   THEN Len(Append(log[i], [term |-> currentTerm'[i],
                                                            command |-> NoOp]))
                                   ELSE 0]
                     /\ matchIndex' = [matchIndex EXCEPT ![i] = match]
    BY Zenon, <1>2 DEF BecomesLeader, BecomeLeader
  <2>2. match[p] = 0
    BY Zenon, <2>1
  <2> HIDE DEF win
  <2>3. matchIndex'[i] = match
    BY Zenon, <1>0, <2>1
  <2> QED BY Zenon, <2>2, <2>3
<1>3. KeepsLeading(i)
  <2>1. CASE \E r \in appRep' : r.from = i /\ r.term = currentTerm'[i]
    BY Zenon, <1>1, <2>1, CallersKeepLeading
  <2>2. CASE matchIndex'[i][p] >= n
    <3>1. ~BecomesLeader(i)
      BY <1>2, <2>2
    <3> QED BY Zenon, <1>0, <3>1, LeaderKeeps
  <2> QED BY Zenon, <2>1, <2>2 DEF Acked
<1>4. currentTerm'[i] = currentTerm[i] /\ role[i] = "leader"
  BY Zenon, <1>3 DEF KeepsLeading
<1>5. ASSUME NEW r \in appRep', r.from = i, r.to = p, r.term = currentTerm'[i],
             r.success, r.match >= n
      PROVE  Acked(i, p, n) \/ Confirms(i, p, n)
  BY Zenon, <1>4, <1>5 DEF Acked, Confirms
<1>6. ASSUME matchIndex'[i][p] >= n PROVE Acked(i, p, n)
  <2>1. CASE matchIndex'[i][p] = matchIndex[i][p]
    BY Zenon, <1>6, <2>1 DEF Acked
  <2>2. CASE StaysLeader(i)
    BY Zenon, <2>1, <2>2 DEF StaysLeader
  <2>3. CASE BecomesLeader(i)
    BY <1>2, <1>6, <2>3
  <2>4. ASSUME NEW c \in Command, Submit(i, c) PROVE Acked(i, p, n)
    <3>1. PICK x : matchIndex' = [matchIndex EXCEPT ![i] = [matchIndex[i] EXCEPT ![i] = x]]
      BY Zenon, <2>4 DEF Submit
    <3>2. matchIndex'[i][p] = matchIndex[i][p]
      BY Zenon, <1>0, <3>1
    <3> QED BY Zenon, <2>1, <3>2
  <2>5. ASSUME NEW r \in appRep, r.from = i, OnAppendReply(r) PROVE Acked(i, p, n)
    <3>1. \/ matchIndex' = matchIndex
          \/ /\ currentTerm[i] = r.term /\ r.success
             /\ matchIndex' = [matchIndex EXCEPT ![i] =
                  [matchIndex[i] EXCEPT ![r.to] = Max({@, r.match})]]
      BY ZenonT(30), <1>4, <2>5 DEF OnAppendReply, BecomeFollower
    <3>2. CASE matchIndex' = matchIndex
      BY Zenon, <2>1, <3>2
    <3>3. ASSUME currentTerm[i] = r.term, r.success,
                 matchIndex' = [matchIndex EXCEPT ![i] =
                   [matchIndex[i] EXCEPT ![r.to] = Max({@, r.match})]]
          PROVE  Acked(i, p, n)
      <4>1. r.to \in Node /\ r.match \in Nat /\ matchIndex[i][r.to] \in Nat
        BY Zenon, <1>0, FieldTypes
      <4>2. CASE r.to # p
        <5>1. matchIndex'[i][p] = matchIndex[i][p]
          BY Zenon, <1>0, <3>3, <4>2
        <5> QED BY Zenon, <2>1, <5>1
      <4>3. CASE r.to = p
        <5>1. matchIndex'[i][p] = Max({matchIndex[i][p], r.match})
          BY Zenon, <1>0, <3>3, <4>3
        <5>2. Max({matchIndex[i][p], r.match}) \in {matchIndex[i][p], r.match}
          BY Zenon, <4>1, <4>3, MaxOfTwo
        <5>3. matchIndex[i][p] >= n \/ r.match >= n
          BY Zenon, <1>6, <5>1, <5>2
        <5> QED BY Zenon, <2>5, <3>3, <4>3, <5>3 DEF Acked
      <4> QED BY Zenon, <4>2, <4>3
    <3> QED BY Zenon, <3>1, <3>2, <3>3
  <2> QED BY Zenon, <1>0, <2>2, <2>3, <2>4, <2>5, LeaderSteps
<1>7. Acked(i, p, n) \/ Confirms(i, p, n)
  BY Zenon, <1>5, <1>6 DEF Acked
<1> QED BY Zenon, <1>3, <1>7

\* Confirmations are within the leader's log.
LEMMA AckedInLog ==
  ASSUME ElectionInv, NEW i \in Node, NEW p \in Node, role[i] = "leader",
         NEW n \in Nat \ {0}, Acked(i, p, n)
  PROVE  n \in 1..Len(log[i])
<1>0. Len(log[i]) \in Nat /\ matchIndex[i][p] \in Nat /\ TypeOK
  <2>1. TypeOK
    BY Zenon DEF ElectionInv
  <2>2. Len(log[i]) \in Nat /\ matchIndex[i][p] \in Nat
    BY <2>1 DEF TypeOK
  <2> QED BY Zenon, <2>1, <2>2
<1>1. CASE matchIndex[i][p] >= n
  <2>1. matchIndex[i][p] <= Len(log[i])
    BY Zenon DEF ElectionInv, IndexesInLog
  <2> QED BY <1>0, <1>1, <2>1
<1>2. ASSUME NEW r \in appRep, r.from = i, r.term = currentTerm[i], r.match >= n
      PROVE  n \in 1..Len(log[i])
  <2>1. r.match <= Len(log[i]) /\ r.match \in Nat
    BY Zenon, <1>0, <1>2, FieldTypes DEF ElectionInv, CallsInLog
  <2> QED BY <1>0, <1>2, <2>1
<1> QED BY Zenon, <1>1, <1>2 DEF Acked

\* A log that accepts a leader's call keeps what it has in common with the log
\* of that leader.
LEMMA AcceptKeepsCommon ==
  ASSUME ElectionInv, NEW m \in appReq, NEW lg, Accepts(m, lg), CallsShowLog,
         role[m.from] = "leader", currentTerm[m.from] = m.term,
         NEW n \in Nat, SameUpTo(log[m.from], log[m.to], n)
  PROVE  SameUpTo(log[m.to], lg, n)
<1> DEFINE prev == m.prevLogIndex
           es == m.entries
           old == log[m.to]
           llog == log[m.from]
<1>1. /\ m.to \in Node /\ m.from \in Node /\ prev \in Nat /\ es \in Seq(Entry)
      /\ old \in Seq(Entry) /\ llog \in Seq(Entry)
  <2>1. TypeOK
    BY Zenon DEF ElectionInv
  <2>2. m.to \in Node /\ m.from \in Node /\ prev \in Nat /\ es \in Seq(Entry)
    BY Zenon, <2>1, FieldTypes
  <2> QED BY Zenon, <2>1, <2>2 DEF TypeOK
<1>2. lg \in Seq(Entry) /\ Takes(old, prev, es, lg)
  BY Zenon DEF Accepts
<1>3. \A k \in DOMAIN es : llog[prev + k] = es[k]
  BY Zenon DEF CallsShowLog
<1>4. n <= Len(old) /\ \A k \in 1..n : llog[k] = old[k]
  BY Zenon DEF SameUpTo
<1> HIDE DEF prev, es, old, llog
<1>5. n \in 0..Len(old)
  BY <1>1, <1>4
<1>6. ASSUME NEW k \in 1..Len(es), prev + k <= n
      PROVE  es[k].term = old[prev + k].term
  <2>1. k \in DOMAIN es /\ prev + k \in 1..n
    BY <1>1, <1>6
  <2> QED BY Zenon, <1>3, <1>4, <2>1
<1>7. SameUpTo(old, lg, n)
  BY Zenon, <1>1, <1>2, <1>5, <1>6, TakesKeeps
<1> QED BY Zenon, <1>7 DEF old

\* What a leader's peer has confirmed it has seen the term for, and holds while
\* it is in that term.
LEMMA AcksTruthfulStep ==
  ASSUME SetFacts, ElectionInv, ElectionInv', [Next]_vars, MadeByLeaders', CallsShowLog,
         AcksTruthful
  PROVE  AcksTruthful'
<1> SUFFICES ASSUME NEW i \in Node, NEW p \in Node, role'[i] = "leader",
                    NEW n \in 1..Len(log'[i]), Acked(i, p, n)'
             PROVE  /\ currentTerm'[p] >= currentTerm'[i]
                    /\ currentTerm'[p] = currentTerm'[i]
                         => SameUpTo(log'[i], log'[p], n)
  BY Zenon DEF AcksTruthful
<1>0. /\ TypeOK /\ TypeOK' /\ IndexesInLog /\ LeadersElected
      /\ n \in Nat \ {0}
  BY DEF ElectionInv
<1>00. /\ DOMAIN log = Node /\ \A j \in Node : log[j] \in Seq(Entry)
       /\ \A j \in Node : log'[j] \in Seq(Entry)
       /\ currentTerm \in [Node -> Nat]
  BY Zenon, <1>0 DEF TypeOK
<1>000. \A j \in Node : /\ currentTerm[j] \in Nat /\ currentTerm'[j] \in Nat
                        /\ currentTerm[j] <= currentTerm'[j]
  BY Zenon, <1>0, TermTypes
<1>1. CASE p = i
  BY <1>00, <1>000, <1>1 DEF SameUpTo
<1>2. CASE p # i
  <2>1. KeepsLeading(i) /\ (Acked(i, p, n) \/ Confirms(i, p, n))
    BY Zenon, <1>0, <1>2, AckedSteps
  <2>2. role[i] = "leader" /\ currentTerm'[i] = currentTerm[i]
    BY Zenon, <2>1 DEF KeepsLeading
  <2>3. ASSUME Acked(i, p, n)
        PROVE  /\ currentTerm'[p] >= currentTerm'[i]
               /\ currentTerm'[p] = currentTerm'[i] => SameUpTo(log'[i], log'[p], n)
    <3>1. n \in 1..Len(log[i])
      BY Zenon, <1>0, <2>2, <2>3, AckedInLog
    <3>2. /\ currentTerm[p] >= currentTerm[i]
          /\ currentTerm[p] = currentTerm[i] => SameUpTo(log[i], log[p], n)
      BY Zenon, <2>2, <2>3, <3>1 DEF AcksTruthful
    <3>3. currentTerm'[p] >= currentTerm'[i]
      BY <1>000, <2>2, <3>2
    <3>4. ASSUME currentTerm'[p] = currentTerm'[i]
          PROVE  SameUpTo(log'[i], log'[p], n)
      <4>1. currentTerm[p] = currentTerm[i]
        BY <1>000, <2>2, <3>2, <3>4
      <4>2. SameUpTo(log[i], log[p], n)
        BY Zenon, <3>2, <4>1
      <4>3. SameUpTo(log[i], log'[i], n)
        <5>1. SameUpTo(log[i], log'[i], Len(log[i]))
          BY Zenon, <1>0, <2>1, KeepsPrefix
        <5> QED BY <1>00, <3>1, <5>1 DEF SameUpTo
      <4>4. SameUpTo(log[p], log'[p], n)
        <5>1. n \in 1..Len(log[p])
          BY <1>0, <4>2 DEF SameUpTo
        <5>2. CASE log'[p] = log[p]
          BY <1>00, <5>1, <5>2 DEF SameUpTo
        <5>3. ASSUME NEW j \in Node, Grows(j) PROVE SameUpTo(log[p], log'[p], n)
          <6>1. PICK e \in Entry : log' = [log EXCEPT ![j] = Append(log[j], e)]
            BY Zenon, <5>3 DEF Grows
          <6>2. CASE j # p
            BY Zenon, <1>00, <5>2, <6>1, <6>2
          <6>3. CASE j = p
            <7>1. log'[p] = Append(log[p], e)
              BY Zenon, <1>00, <6>1, <6>3
            <7>2. SameUpTo(log[p], log'[p], Len(log[p]))
              BY Zenon, <1>00, <7>1, OneMore
            <7>3. /\ Len(log[p]) \in Nat /\ Len(log'[p]) \in Nat
                  /\ n \in 0..Len(log[p])
              BY <1>00, <5>1
            <7> QED BY Zenon, <7>2, <7>3, SameShorter
          <6> QED BY Zenon, <6>2, <6>3
        <5>4. ASSUME NEW m \in appReq, NEW lg \in Seq(Entry), Accepts(m, lg)
              PROVE  SameUpTo(log[p], log'[p], n)
          <6>1. /\ m.to \in Node /\ m.from \in Node
                /\ log' = [log EXCEPT ![m.to] = lg]
                /\ currentTerm' = [currentTerm EXCEPT ![m.to] = m.term]
            BY Zenon, <1>0, <5>4, FieldTypes DEF Accepts
          <6>2. CASE m.to # p
            BY Zenon, <1>00, <5>2, <6>1, <6>2
          <6>3. CASE m.to = p
            <7>1. log'[p] = lg /\ currentTerm'[p] = m.term
              BY Zenon, <1>00, <6>1, <6>3
            <7>2. m.from = i
              <8> DEFINE e == [term |-> m.term, node |-> m.from]
                         f == [term |-> currentTerm[i], node |-> i]
              <8>1. e \in elected /\ f \in elected
                BY Zenon, <1>0, <2>2 DEF LeadersElected
              <8>2. e.term = f.term => e.node = f.node
                BY Zenon, <8>1, OneWinner DEF ElectionSafety
              <8> QED BY Zenon, <2>2, <3>4, <7>1, <8>2
            <7>3. SameUpTo(log[m.to], lg, n)
              BY Zenon, <1>0, <2>2, <3>4, <4>2, <5>4, <6>3, <7>1, <7>2,
                 AcceptKeepsCommon
            <7> QED BY Zenon, <6>3, <7>1, <7>3
          <6> QED BY Zenon, <6>2, <6>3
        <5> QED BY Zenon, <1>0, <5>2, <5>3, <5>4, LogSteps
      <4>5. SameUpTo(log'[i], log[i], n)
        BY Zenon, <4>3, SameSwapped
      <4>6. SameUpTo(log'[i], log[p], n)
        BY Zenon, <4>2, <4>5, SameTrans
      <4> QED BY Zenon, <4>4, <4>6, SameTrans
    <3> QED BY Zenon, <3>3, <3>4
  <2>4. ASSUME Confirms(i, p, n)
        PROVE  /\ currentTerm'[p] = currentTerm'[i]
               /\ SameUpTo(log'[i], log'[p], n)
    <3>1. PICK r \in appRep' : /\ r \notin appRep
                               /\ r.from = i /\ r.to = p /\ r.term = currentTerm[i]
                               /\ r.success /\ r.match >= n
      BY Zenon, <2>4 DEF Confirms
    <3>2. PICK m \in appReq, lg \in Seq(Entry) :
            /\ Answers(r, m) /\ Accepts(m, lg)
            /\ m.prevLogIndex + Len(m.entries) <= Len(lg)
      BY Zenon, <1>0, <3>1, SuccessSteps
    <3> DEFINE prev == m.prevLogIndex
               es == m.entries
               q == prev + Len(es)
    <3>3. /\ m.from = i /\ m.to = p /\ m.term = currentTerm[i] /\ q >= n
          /\ prev \in Nat /\ es \in Seq(Entry)
      BY Zenon, <1>0, <3>1, <3>2, FieldTypes DEF Answers
    <3>4. /\ log' = [log EXCEPT ![p] = lg]
          /\ currentTerm' = [currentTerm EXCEPT ![p] = m.term]
          /\ Takes(log[p], prev, es, lg)
          /\ Matches(log[p], prev, m.prevLogTerm)
      BY Zenon, <3>2, <3>3 DEF Accepts
    <3>5. log'[p] = lg /\ log'[i] = log[i] /\ currentTerm'[p] = currentTerm'[i]
      BY Zenon, <1>00, <1>2, <2>2, <3>3, <3>4
    <3>6. /\ TermAt(log[i], prev) = m.prevLogTerm
          /\ \A k \in DOMAIN es : log[i][prev + k] = es[k]
      BY Zenon, <2>2, <3>3 DEF CallsShowLog
    <3>7. q <= Len(log[i])
      BY Zenon, <2>2, <3>3 DEF ElectionInv, CallsInLog
    <3>8. q \in 1..Len(log[i]) /\ q <= Len(lg) /\ q \in Nat
      BY <1>0, <1>00, <3>2, <3>3, <3>7
    <3>9. lg[q].term = log[i][q].term
      <4>1. CASE Len(es) = 0
        <5>1. q = prev /\ prev # 0 /\ prev \in 1..prev
          BY <3>3, <3>8, <4>1
        <5>2. log[p][prev].term = log[i][prev].term
          BY Zenon, <3>4, <3>6, <5>1 DEF Matches, TermAt
        <5>3. SameUpTo(log[p], lg, prev)
          BY Zenon, <1>00, <3>3, <3>4, TakesPrefix
        <5>4. lg[prev] = log[p][prev]
          BY Zenon, <5>1, <5>3 DEF SameUpTo
        <5> QED BY Zenon, <5>1, <5>2, <5>4
      <4>2. CASE Len(es) # 0
        <5>1. Len(es) \in 1..Len(es) /\ Len(es) \in DOMAIN es
          BY <3>3, <4>2
        <5>2. lg[prev + Len(es)].term = es[Len(es)].term
          <6>1. log[p] \in Seq(Entry) /\ lg \in Seq(Entry) /\ prev + Len(es) <= Len(lg)
            BY Zenon, <1>00, <3>2
          <6> HIDE DEF prev, es
          <6> QED BY <3>3, <3>4, <5>1, <6>1, TakesAll
        <5> QED BY Zenon, <3>6, <5>1, <5>2
      <4> QED BY Zenon, <4>1, <4>2
    <3> HIDE DEF q, prev, es
    <3>10. SameUpTo(log'[i], log'[p], q)
      <4>1. PathIn(log'[i], Created') /\ PathIn(log'[p], Created')
        BY Zenon, <1>0, LogsArePathsNext DEF ArePaths
      <4>2. OneBranchPerTerm(Created')
        BY Zenon DEF MadeByLeaders, OneBranchPerTerm
      <4>3. q \in 1..Len(log'[i]) /\ q <= Len(log'[p]) /\ log'[i][q].term = log'[p][q].term
        BY Zenon, <3>5, <3>8, <3>9
      <4> QED BY Zenon, <4>1, <4>2, <4>3, PathsMatch
    <3>11. SameUpTo(log'[i], log'[p], n)
      BY <1>0, <1>00, <3>3, <3>8, <3>10 DEF SameUpTo
    <3> QED BY Zenon, <3>5, <3>11
  <2> QED BY <1>000, <2>1, <2>3, <2>4
<1> QED BY Zenon, <1>1, <1>2

\* The part of the inductive invariant that is about what there is.
MatchingInv == TermsReached /\ MadeByLeaders

\* It holds at the start.
LEMMA MatchingInit == Init => MatchingInv
<1> SUFFICES ASSUME Init PROVE MatchingInv
  BY Zenon
<1>1. /\ \A i \in Node : role[i] = "follower" /\ log[i] = <<>>
      /\ appReq = {} /\ committed = <<>>
  BY Zenon DEF Init
<1>2. TermsReached
  BY <1>1 DEF TermsReached
<1>3. \A base, baseTerm : Items(base, baseTerm, <<>>) = {}
  BY DEF Items
<1>4. \A a : a \notin Created
  BY Zenon, <1>1, <1>3, CreatedWhere DEF CreatedIsWhere
<1>5. \A i \in Node : role[i] # "leader"
  BY Zenon, <1>1
<1>6. MadeByLeaders
  BY Zenon, <1>4, <1>5 DEF MadeByLeaders, OneBranchPerTerm
<1> QED BY Zenon, <1>2, <1>6 DEF MatchingInv

=============================================================================

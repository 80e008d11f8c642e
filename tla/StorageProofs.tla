--------------------------- MODULE StorageProofs ---------------------------
(***************************************************************************)
(* Proofs about storage.cpp: what Raft was told is durable is found again  *)
(* after any number of kills, and after any number of losses of power; no  *)
(* crash of either kind, in any order, leaves files that load refuses, and *)
(* memory, file and file offset agree whenever no call is in progress.     *)
(***************************************************************************)
EXTENDS Storage, SequenceTheorems, WellFoundedInduction, TLAPS

\* A set of naturals that is not empty has a least element, and Min is it.
LEMMA MinIs ==
  ASSUME NEW T \in SUBSET Nat, T # {}
  PROVE  Min(T) \in T /\ \A y \in T : Min(T) <= y
<1>1. IsWellFoundedOn(OpToRel(<, Nat), Nat)
  BY Zenon, NatLessThanWellFounded
<1>2. PICK x \in T : \A y \in T : ~(<<y, x>> \in OpToRel(<, Nat))
  BY Zenon, <1>1, WFMin
<1>3. \A y \in T : ~(y < x)
  BY Zenon, <1>2 DEF OpToRel
<1>4. \A y \in T : x <= y
  BY <1>3
<1> QED BY Zenon, <1>4 DEF Min

\* A bounded set of naturals that is not empty has a greatest element, and Max
\* is it.
LEMMA MaxIs ==
  ASSUME NEW T \in SUBSET Nat, NEW b \in Nat, T # {}, \A x \in T : x <= b
  PROVE  Max(T) \in T /\ \A y \in T : Max(T) >= y
<1> DEFINE U == {n \in Nat : b - n \in T}
<1>1. PICK t \in T : TRUE
  BY Zenon
<1>2. b - t \in U
  <2>1. b - t \in Nat /\ b - (b - t) = t
    BY <1>1
  <2> QED BY <2>1
<1>3. Min(U) \in U /\ \A y \in U : Min(U) <= y
  <2>1. U \in SUBSET Nat /\ U # {}
    BY <1>2
  <2> HIDE DEF U
  <2> QED BY <2>1, MinIs
<1> DEFINE x == b - Min(U)
<1>4. x \in T
  BY <1>3
<1>5. ASSUME NEW y \in T PROVE x >= y
  <2>1. b - y \in U
    <3>1. b - y \in Nat /\ b - (b - y) = y
      OBVIOUS
    <3> QED BY <3>1
  <2> QED BY <2>1, <1>3
<1> HIDE DEF x
<1> QED BY Zenon, <1>4, <1>5 DEF Max

\* std::min.
LEMMA MinOfTwo ==
  ASSUME NEW a \in Nat, NEW b \in Nat
  PROVE  Min({a, b}) = IF a <= b THEN a ELSE b
BY MinIs, {a, b} \in SUBSET Nat, {a, b} # {}, Min({a, b}) \in {a, b}

\* std::max.
LEMMA MaxOfTwo ==
  ASSUME NEW a \in Nat, NEW b \in Nat
  PROVE  Max({a, b}) = IF a >= b THEN a ELSE b
<1>1. Max({a, b}) \in {a, b} /\ \A y \in {a, b} : Max({a, b}) >= y
  BY MaxIs, {a, b} \in SUBSET Nat, {a, b} # {}, a + b \in Nat,
     \A x \in {a, b} : x <= a + b
<1> QED BY <1>1

-----------------------------------------------------------------------------

Record == Entry \cup {Torn}

Inside == {"down", "scanned", "trimmed", "ready", "meta_opened",
           "meta_written", "meta_synced", "meta_renamed", "append_started",
           "append_written", "truncated"}

\* Types; no meta file that load or a loss of power can find is torn.
TypeOK ==
  /\ pc \in Inside
  /\ metaMem \in Nat /\ entries \in Seq(Entry) /\ pos \in Nat
  /\ meta \in metaDisk /\ metaDisk \subseteq Nat
  /\ wal \in walDisk /\ walDisk \subseteq Seq(Record)
  /\ savedMeta \in Nat /\ savedLog \in Seq(Entry)
  /\ kills \in Nat /\ losses \in Nat

\* Where saveMeta is: meta.tmp is complete before it is renamed, and the value in
\* memory is newer than the one in meta until then.
MetaCalls ==
  /\ pc \in {"scanned", "trimmed", "ready", "append_started", "append_written",
             "truncated", "meta_renamed"} => metaMem = meta
  /\ pc \in {"meta_opened", "meta_written", "meta_synced"} => metaMem > meta
  /\ pc \in {"meta_written", "meta_synced", "meta_renamed"} => tmp = metaMem
  /\ pc \in {"meta_synced", "meta_renamed"} => tmpDisk = {metaMem}

\* Where load, append and truncateFrom are: what wal holds, and the offset.
WalCalls ==
  /\ pc = "scanned" => entries = Recovered(wal)
  /\ pc \in {"trimmed", "ready", "meta_opened", "meta_written", "meta_synced",
             "meta_renamed"} => wal = entries
  /\ pc \in {"ready", "meta_opened", "meta_written", "meta_synced",
             "meta_renamed", "append_started"} => pos = Len(entries)
  /\ pc = "append_started" => arg \in Entry /\ wal = Append(entries, Torn)
  /\ pc = "append_written" => /\ arg \in Entry /\ wal = Append(entries, arg)
                              /\ pos = Len(entries) + 1
  /\ pc = "truncated" => /\ arg \in 1..Len(entries)
                         /\ wal = SubSeq(entries, 1, arg - 1)

\* With one kind of crash only, the files as the process sees them have what
\* Raft relies on.
FilesHold ==
  (kills = 0 \/ losses = 0) => meta >= savedMeta /\ IsPrefixOf(savedLog, wal)

\* Without kills, so does whatever a loss of power can leave, and outside of the
\* calls that write a file there is only one such content.
DisksHold ==
  kills = 0 =>
    /\ \A x \in metaDisk : x >= savedMeta
    /\ pc # "meta_renamed" => metaDisk = {meta} /\ (meta # 0 => walLinked)
    /\ \A w \in walDisk : IsPrefixOf(savedLog, w)
    /\ pc \notin {"trimmed", "append_started", "append_written", "truncated"}
         => walDisk = {wal}
    /\ pc \in {"append_started", "append_written"} => metaMem > 0
    /\ ~walLinked => walDisk = {<<>>}

\* The inductive invariant.
StorageInv == TypeOK /\ MetaCalls /\ WalCalls /\ FilesHold /\ DisksHold

-----------------------------------------------------------------------------
(* What the operators return.                                              *)

\* Entries are records.
LEMMA EntriesAreRecords ==
  /\ Entry \subseteq Record /\ Torn \in Record /\ Torn \notin Entry
  /\ Seq(Entry) \subseteq Seq(Record)
BY TornAssumption DEF Record

\* A sequence is a prefix of itself.
LEMMA PrefixSelf ==
  ASSUME NEW S, NEW s \in Seq(S)
  PROVE  IsPrefixOf(s, s)
BY DEF IsPrefixOf

\* Only the empty sequence is a prefix of the empty one.
LEMMA PrefixOfEmpty ==
  ASSUME NEW S, NEW s \in Seq(S), IsPrefixOf(s, <<>>)
  PROVE  s = <<>>
BY EmptySeq DEF IsPrefixOf

\* Prefixes of the same length are the same.
LEMMA PrefixWhole ==
  ASSUME NEW S, NEW s \in Seq(S), NEW t \in Seq(S), IsPrefixOf(s, t),
         Len(s) = Len(t)
  PROVE  s = t
BY DEF IsPrefixOf

\* A prefix is what is left when the rest is cut off.
LEMMA PrefixIsCut ==
  ASSUME NEW S, NEW s \in Seq(S), NEW t \in Seq(S), IsPrefixOf(s, t)
  PROVE  SubSeq(t, 1, Len(s)) = s
<1>1. Len(s) \in Nat /\ Len(s) <= Len(t) /\ Len(t) \in Nat
  BY DEF IsPrefixOf
<1>2. /\ SubSeq(t, 1, Len(s)) \in Seq(S) /\ Len(SubSeq(t, 1, Len(s))) = Len(s)
      /\ \A k \in 1..Len(s) : SubSeq(t, 1, Len(s))[k] = t[k]
  BY <1>1
<1> QED BY <1>1, <1>2 DEF IsPrefixOf

\* A prefix stays one when something is appended.
LEMMA PrefixOfAppend ==
  ASSUME NEW S, NEW s \in Seq(S), NEW t \in Seq(S), NEW r \in S,
         IsPrefixOf(s, t)
  PROVE  IsPrefixOf(s, Append(t, r))
BY DEF IsPrefixOf

\* Two sequences cut at m <= n, one a prefix of the other: prefixes still.
LEMMA PrefixOfCut ==
  ASSUME NEW S, NEW s \in Seq(S), NEW t \in Seq(S), IsPrefixOf(s, t),
         NEW n \in 0..Len(t), NEW m \in 0..n, m <= Len(s)
  PROVE  /\ SubSeq(s, 1, m) \in Seq(S)
         /\ IsPrefixOf(SubSeq(s, 1, m), t)
         /\ IsPrefixOf(SubSeq(s, 1, m), SubSeq(t, 1, n))
<1>1. PICK c, d : c = SubSeq(s, 1, m) /\ d = SubSeq(t, 1, n)
  BY Zenon
<1>2. m \in Nat /\ n \in Nat /\ m <= n /\ n <= Len(t)
  OBVIOUS
<1>3. c \in Seq(S) /\ Len(c) = m /\ \A k \in 1..m : c[k] = s[k]
  BY <1>1, <1>2
<1>4. Len(d) = n /\ \A k \in 1..n : d[k] = t[k]
  BY <1>1, <1>2
<1>5. \A k \in 1..m : k \in 1..n /\ s[k] = t[k]
  BY <1>2 DEF IsPrefixOf
<1>6. IsPrefixOf(c, t)
  BY <1>2, <1>3, <1>5 DEF IsPrefixOf
<1>7. IsPrefixOf(c, d)
  BY <1>2, <1>3, <1>4, <1>5 DEF IsPrefixOf
<1> QED BY Zenon, <1>1, <1>3, <1>6, <1>7

\* The scan of load keeps a prefix without torn records, and all of it.
LEMMA RecoveredIs ==
  ASSUME NEW file \in Seq(Record)
  PROVE  /\ Recovered(file) \in Seq(Entry)
         /\ IsPrefixOf(Recovered(file), file)
         /\ \A s \in Seq(Entry) :
              IsPrefixOf(s, file) => IsPrefixOf(s, Recovered(file))
<1> DEFINE T == {k \in 1..(Len(file) + 1) : k = Len(file) + 1 \/ file[k] = Torn}
<1>1. Min(T) \in T /\ \A k \in T : Min(T) <= k
  <2>1. T \in SUBSET Nat /\ Len(file) + 1 \in T
    OBVIOUS
  <2> HIDE DEF T
  <2> QED BY <2>1, MinIs
<1>2. PICK m \in T : m = Min(T) /\ \A k \in T : m <= k
  BY Zenon, <1>1
<1> DEFINE n == m - 1
<1>3. /\ n \in 0..Len(file) /\ n \in Nat
      /\ \A k \in 1..n : file[k] # Torn
      /\ n = Len(file) \/ file[n + 1] = Torn
  <2>1. \A k \in 1..n : k \in 1..(Len(file) + 1) /\ k < m
    BY <1>2
  <2>2. \A k \in 1..n : k \notin T
    BY <1>2, <2>1
  <2>3. \A k \in 1..n : file[k] # Torn
    BY Zenon, <2>1, <2>2
  <2> QED BY <1>2, <2>3
<1>4. Recovered(file) = SubSeq(file, 1, n)
  BY Zenon, <1>2 DEF Recovered
<1> HIDE DEF n
<1>5. /\ Len(SubSeq(file, 1, n)) = n
      /\ \A k \in 1..n : SubSeq(file, 1, n)[k] = file[k]
  BY <1>3
<1>6. SubSeq(file, 1, n) \in Seq(Entry)
  <2>1. \A k \in 1..n : file[k] \in Entry
    BY <1>3 DEF Record
  <2> QED BY <2>1, <1>3, SubSeqProperties
<1>7. ASSUME NEW s \in Seq(Entry), IsPrefixOf(s, file)
      PROVE  IsPrefixOf(s, SubSeq(file, 1, n))
  <2>1. Len(s) <= n
    <3> SUFFICES ASSUME Len(s) > n PROVE FALSE
      BY <1>3
    <3>1. n + 1 \in 1..Len(s) /\ s[n + 1] = file[n + 1] /\ file[n + 1] = Torn
      BY <1>3, <1>7 DEF IsPrefixOf
    <3> QED BY <3>1, EntriesAreRecords
  <2> QED BY <2>1, <1>3, <1>5, <1>7 DEF IsPrefixOf
<1>8. IsPrefixOf(SubSeq(file, 1, n), file)
  BY <1>3, <1>5 DEF IsPrefixOf
<1> QED BY Zenon, <1>4, <1>6, <1>7, <1>8

\* A write at the end appends, and the rest of a record replaces its torn start.
LEMMA WriteAtEnd ==
  ASSUME NEW file \in Seq(Record), NEW r \in Record, NEW q \in Record
  PROVE  /\ WriteAt(file, Len(file), r) = Append(file, r)
         /\ WriteAt(Append(file, q), Len(file), r) = Append(file, r)
<1>1. Len(file) \in Nat /\ Len(Append(file, q)) = Len(file) + 1
  OBVIOUS
<1>2. /\ Max({Len(file), Len(file) + 1}) = Len(file) + 1
      /\ Max({Len(file) + 1, Len(file) + 1}) = Len(file) + 1
  BY <1>1, MaxOfTwo
<1>3. PICK n \in Nat : n = Len(file) + 1
  BY <1>1
<1>4. \A k \in 1..n : k # n => k \in 1..Len(file) /\ k <= Len(file)
  BY <1>1, <1>3
<1>5. PICK f, g : f = Append(file, r) /\ g = Append(file, q)
  BY Zenon
<1>6. /\ f \in [1..n -> Record] /\ Len(g) = n
      /\ f[n] = r
      /\ \A k \in 1..n : k # n => f[k] = file[k] /\ g[k] = file[k]
  <2>1. f \in Seq(Record) /\ Len(f) = n /\ Len(g) = n
    BY <1>3, <1>5
  <2>2. f \in [1..n -> Record]
    BY <2>1, LenProperties
  <2>3. f[n] = r
    BY <1>3, <1>5
  <2>4. \A k \in 1..Len(file) : f[k] = file[k] /\ g[k] = file[k]
    BY <1>5
  <2> QED BY <1>4, <2>1, <2>2, <2>3, <2>4
<1>7. f = [k \in 1..n |-> IF k = n THEN r ELSE file[k]]
  BY <1>6
<1>8. WriteAt(file, Len(file), r) = [k \in 1..n |-> IF k = n THEN r ELSE file[k]]
  BY Zenon, <1>2, <1>3, <1>4 DEF WriteAt
<1>9. WriteAt(g, Len(file), r) = [k \in 1..n |-> IF k = n THEN r ELSE file[k]]
  <2>1. Len(file) + 1 = n /\ Max({Len(g), Len(file) + 1}) = n
    BY Zenon, <1>2, <1>3, <1>6
  <2>2. WriteAt(g, Len(file), r)
          = [k \in 1..n |-> CASE k = n -> r
                              [] k # n /\ k <= Len(g) -> g[k]
                              [] OTHER -> Torn]
    BY Zenon, <2>1 DEF WriteAt
  <2>3. \A k \in 1..n : k <= Len(g)
    BY <1>6
  <2> QED BY <2>2, <2>3, <1>6
<1> QED BY Zenon, <1>5, <1>7, <1>8, <1>9

-----------------------------------------------------------------------------
(* The invariant holds at the start and is kept by every step.             *)

USE DEF memory, metaFiles, walFile, history, crashes, StorageInv, Inside

\* A new node: no files but empty ones.
LEMMA InvInit == Init => StorageInv
<1> SUFFICES ASSUME Init PROVE StorageInv
  OBVIOUS
<1>1. <<>> \in Seq(Entry) /\ <<>> \in Seq(Record) /\ IsPrefixOf(<<>>, <<>>)
  BY DEF IsPrefixOf
<1>2. TypeOK
  BY <1>1 DEF Init, TypeOK
<1>3. MetaCalls /\ WalCalls
  BY DEF Init, MetaCalls, WalCalls
<1>4. FilesHold /\ DisksHold
  BY <1>1 DEF Init, FilesHold, DisksHold
<1> QED BY <1>2, <1>3, <1>4

\* load: a torn tail is cut, what is left is all that was saved, and meta is
\* never refused.
LEMMA LoadSteps ==
  ASSUME StorageInv, LoadScans \/ LoadTruncates \/ LoadReturns
  PROVE  StorageInv'
<1>1. /\ wal \in Seq(Record) /\ entries \in Seq(Record) /\ savedLog \in Seq(Record)
      /\ meta # Torn
  BY EntriesAreRecords, TornAssumption DEF TypeOK
<1>2. /\ Recovered(wal) \in Seq(Entry) /\ IsPrefixOf(Recovered(wal), wal)
      /\ IsPrefixOf(savedLog, wal) => IsPrefixOf(savedLog, Recovered(wal))
  BY <1>1, RecoveredIs DEF TypeOK
<1>3. CASE LoadScans
  <2>1. TypeOK'
    BY <1>1, <1>2, <1>3 DEF TypeOK, LoadScans
  <2>2. MetaCalls' /\ WalCalls'
    BY <1>1, <1>3 DEF MetaCalls, WalCalls, LoadScans
  <2>3. FilesHold' /\ DisksHold'
    BY <1>1, <1>3 DEF FilesHold, DisksHold, LoadScans
  <2> QED BY <2>1, <2>2, <2>3
<1>4. CASE LoadTruncates
  <2>1. entries = Recovered(wal) /\ wal' = SubSeq(wal, 1, Len(entries))
    BY <1>4 DEF WalCalls, LoadTruncates
  <2>2. wal' = entries
    BY <1>1, <1>2, <2>1, PrefixIsCut
  <2>3. TypeOK'
    BY Zenon, <1>1, <1>4, <2>2 DEF TypeOK, LoadTruncates
  <2>4. MetaCalls' /\ WalCalls'
    BY <1>4, <2>2 DEF MetaCalls, WalCalls, LoadTruncates
  <2>5. IsPrefixOf(savedLog, wal) => IsPrefixOf(savedLog, wal')
    BY Zenon, <1>2, <2>1, <2>2
  <2>6. FilesHold'
    BY <1>4, <2>5 DEF FilesHold, LoadTruncates
  <2>7. DisksHold'
    <3>1. kills = 0 => IsPrefixOf(savedLog, wal')
      BY <2>5 DEF DisksHold, TypeOK
    <3>2. walDisk' = walDisk \cup {wal'} /\ pc = "scanned" /\ pc' = "trimmed"
      BY <1>4 DEF LoadTruncates
    <3>3. kills = 0 /\ ~walLinked => entries = <<>>
      <4>1. kills = 0 /\ ~walLinked => wal = <<>>
        BY DEF DisksHold, TypeOK
      <4> QED BY <4>1, <1>1, <1>2, <2>1, PrefixOfEmpty
    <3> QED BY Zenon, <1>4, <2>2, <3>1, <3>2, <3>3 DEF DisksHold, LoadTruncates
  <2> QED BY <2>3, <2>4, <2>6, <2>7
<1>5. CASE LoadReturns
  <2>1. wal = entries
    <3>1. CASE pc = "scanned"
      BY <1>1, <1>2, <1>5, <3>1, PrefixWhole DEF WalCalls, LoadReturns
    <3>2. CASE pc = "trimmed"
      BY <3>2 DEF WalCalls
    <3> QED BY <1>5, <3>1, <3>2 DEF LoadReturns
  <2>2. savedMeta' \in Nat /\ (meta >= savedMeta => savedMeta' = meta)
    <3>1. savedMeta' = Max({savedMeta, meta})
      BY Zenon, <1>5 DEF MetaCalls, LoadReturns
    <3>2. savedMeta \in Nat /\ meta \in Nat
      BY DEF TypeOK
    <3> QED BY <3>1, <3>2, MaxOfTwo
  <2>3. /\ savedLog' \in {entries, savedLog}
        /\ IsPrefixOf(savedLog, wal) => savedLog' = wal
    BY <1>5, <2>1 DEF LoadReturns
  <2>4. IsPrefixOf(wal, wal)
    BY <1>1, PrefixSelf
  <2>5. TypeOK'
    BY <1>5, <2>2, <2>3 DEF TypeOK, LoadReturns, FsyncWal
  <2>6. MetaCalls' /\ WalCalls'
    BY <1>5, <2>1 DEF MetaCalls, WalCalls, LoadReturns
  <2>7. FilesHold'
    BY <1>5, <2>2, <2>3, <2>4 DEF FilesHold, LoadReturns, TypeOK
  <2>8. DisksHold'
    <3> SUFFICES ASSUME kills = 0 PROVE DisksHold'
      BY Zenon, <1>5 DEF DisksHold, LoadReturns
    <3>1. /\ meta >= savedMeta /\ IsPrefixOf(savedLog, wal) /\ metaDisk = {meta}
          /\ meta # 0 => walLinked
      BY <1>5 DEF FilesHold, DisksHold, LoadReturns
    <3>2. walDisk' = {wal} /\ (~walLinked => wal = <<>>)
      BY <1>5 DEF DisksHold, LoadReturns, FsyncWal, TypeOK
    <3> QED BY <1>5, <2>2, <2>3, <2>4, <3>1, <3>2 DEF DisksHold, LoadReturns, TypeOK
  <2> QED BY <2>5, <2>6, <2>7, <2>8
<1> QED BY <1>3, <1>4, <1>5

\* saveMeta: meta.tmp is whole on disk before it takes the place of meta.
LEMMA SaveMetaSteps ==
  ASSUME StorageInv,
         MetaOpens \/ MetaWrites \/ MetaSyncs \/ MetaRenames \/ MetaReturns
  PROVE  StorageInv'
<1>1. CASE MetaOpens
  <2>1. TypeOK'
    BY <1>1 DEF TypeOK, MetaCalls, MetaOpens
  <2>2. MetaCalls'
    BY <1>1 DEF TypeOK, MetaCalls, MetaOpens
  <2>3. WalCalls'
    BY <1>1 DEF WalCalls, MetaOpens
  <2>4. FilesHold'
    BY <1>1 DEF TypeOK, MetaCalls, FilesHold, MetaOpens
  <2>5. DisksHold'
    BY <1>1 DEF TypeOK, MetaCalls, FilesHold, DisksHold, MetaOpens
  <2> QED BY <2>1, <2>2, <2>3, <2>4, <2>5
<1>2. CASE MetaWrites
  <2>1. TypeOK'
    BY <1>2 DEF TypeOK, MetaCalls, MetaWrites
  <2>2. MetaCalls'
    BY <1>2 DEF TypeOK, MetaCalls, MetaWrites
  <2>3. WalCalls'
    BY <1>2 DEF WalCalls, MetaWrites
  <2>4. FilesHold'
    BY <1>2 DEF TypeOK, MetaCalls, FilesHold, MetaWrites
  <2>5. DisksHold'
    BY <1>2 DEF TypeOK, MetaCalls, FilesHold, DisksHold, MetaWrites
  <2> QED BY <2>1, <2>2, <2>3, <2>4, <2>5
<1>3. CASE MetaSyncs
  <2>1. TypeOK'
    BY <1>3 DEF TypeOK, MetaCalls, MetaSyncs, FsyncTmp
  <2>2. MetaCalls'
    BY <1>3 DEF TypeOK, MetaCalls, MetaSyncs, FsyncTmp
  <2>3. WalCalls'
    BY <1>3 DEF WalCalls, MetaSyncs
  <2>4. FilesHold'
    BY <1>3 DEF TypeOK, MetaCalls, FilesHold, MetaSyncs
  <2>5. DisksHold'
    BY <1>3 DEF TypeOK, MetaCalls, FilesHold, DisksHold, MetaSyncs, FsyncTmp
  <2> QED BY <2>1, <2>2, <2>3, <2>4, <2>5
<1>4. CASE MetaRenames
  <2>1. TypeOK'
    BY Zenon, <1>4 DEF TypeOK, MetaCalls, MetaRenames
  <2>2. MetaCalls'
    BY <1>4 DEF TypeOK, MetaCalls, MetaRenames
  <2>3. WalCalls'
    BY <1>4 DEF WalCalls, MetaRenames
  <2>4. FilesHold'
    BY <1>4 DEF TypeOK, MetaCalls, FilesHold, MetaRenames
  <2>5. DisksHold'
    BY <1>4 DEF TypeOK, MetaCalls, FilesHold, DisksHold, MetaRenames
  <2> QED BY <2>1, <2>2, <2>3, <2>4, <2>5
<1>5. CASE MetaReturns
  <2>1. TypeOK'
    BY <1>5 DEF TypeOK, MetaCalls, MetaReturns, FsyncDir
  <2>2. MetaCalls'
    BY <1>5 DEF TypeOK, MetaCalls, MetaReturns, FsyncDir
  <2>3. WalCalls'
    BY <1>5 DEF WalCalls, MetaReturns
  <2>4. FilesHold'
    BY <1>5 DEF TypeOK, MetaCalls, FilesHold, MetaReturns
  <2>5. DisksHold'
    BY <1>5 DEF TypeOK, MetaCalls, FilesHold, DisksHold, MetaReturns, FsyncDir
  <2> QED BY <2>1, <2>2, <2>3, <2>4, <2>5
<1> QED BY <1>1, <1>2, <1>3, <1>4, <1>5

\* append: the file only ever has a torn or whole record more than entries_, and
\* it is on disk, in a directory that knows the file, before Raft relies on it.
LEMMA AppendSteps ==
  ASSUME StorageInv, AppendStarts \/ AppendWrites \/ AppendReturns
  PROVE  StorageInv'
<1>1. /\ entries \in Seq(Record) /\ savedLog \in Seq(Record)
      /\ wal \in Seq(Record) /\ Torn \in Record /\ \A e \in Entry : e \in Record
  BY EntriesAreRecords DEF TypeOK
<1>2. CASE AppendStarts
  <2>1. wal = entries /\ wal' = Append(entries, Torn)
    <3>1. wal = entries /\ pos = Len(entries) /\ wal' = WriteAt(wal, pos, Torn)
      BY <1>2 DEF WalCalls, AppendStarts
    <3>2. wal' = WriteAt(entries, Len(entries), Torn)
      BY Zenon, <3>1
    <3> QED BY Zenon, <1>1, <3>1, <3>2, WriteAtEnd
  <2>2. wal' \in Seq(Record)
    BY <1>1, <2>1
  <2>3. IsPrefixOf(savedLog, wal) => IsPrefixOf(savedLog, wal')
    BY <1>1, <2>1, PrefixOfAppend
  <2>4. TypeOK'
    BY <1>2, <2>2 DEF TypeOK, AppendStarts
  <2>5. MetaCalls' /\ WalCalls'
    BY <1>2, <2>1 DEF MetaCalls, WalCalls, AppendStarts
  <2>6. FilesHold'
    BY <1>2, <2>3 DEF FilesHold, AppendStarts
  <2>7. DisksHold'
    <3> SUFFICES ASSUME kills = 0 PROVE DisksHold'
      BY <1>2 DEF DisksHold, AppendStarts
    <3>1. /\ walLinked /\ metaMem > 0 /\ walDisk = {wal} /\ metaDisk = {meta}
          /\ IsPrefixOf(savedLog, wal) /\ meta >= savedMeta
      BY <1>2 DEF DisksHold, FilesHold, MetaCalls, AppendStarts, TypeOK
    <3> QED BY <1>2, <2>3, <3>1 DEF DisksHold, AppendStarts
  <2> QED BY <2>4, <2>5, <2>6, <2>7
<1>3. CASE AppendWrites
  <2>1. /\ arg \in Entry /\ wal = Append(entries, Torn)
        /\ wal' = Append(entries, arg)
    <3>1. /\ arg \in Entry /\ wal = Append(entries, Torn) /\ pos = Len(entries)
          /\ wal' = WriteAt(wal, pos, arg)
      BY <1>3 DEF WalCalls, AppendWrites
    <3>2. wal' = WriteAt(Append(entries, Torn), Len(entries), arg)
      BY Zenon, <3>1
    <3> QED BY Zenon, <1>1, <3>1, <3>2, WriteAtEnd
  <2>2. wal' \in Seq(Record)
    BY <1>1, <2>1
  <2>3. IsPrefixOf(savedLog, wal) => IsPrefixOf(savedLog, wal')
    <3>1. Len(wal) = Len(entries) + 1 /\ Len(wal') = Len(entries) + 1
      BY <1>1, <2>1
    <3>2. \A k \in 1..Len(entries) : wal[k] = entries[k] /\ wal'[k] = entries[k]
      BY <1>1, <2>1
    <3>3. IsPrefixOf(savedLog, wal) => Len(savedLog) <= Len(entries)
      <4> SUFFICES ASSUME IsPrefixOf(savedLog, wal),
                          Len(savedLog) = Len(entries) + 1
                   PROVE  FALSE
        BY <1>1, <3>1 DEF IsPrefixOf
      <4>1. /\ Len(savedLog) \in 1..Len(savedLog)
            /\ savedLog[Len(savedLog)] = wal[Len(savedLog)]
        BY <1>1 DEF IsPrefixOf
      <4>2. wal[Len(savedLog)] = Torn
        BY <1>1, <2>1
      <4>3. savedLog[Len(savedLog)] \in Entry
        BY <4>1 DEF TypeOK
      <4> QED BY <4>1, <4>2, <4>3, EntriesAreRecords
    <3> QED BY <1>1, <3>1, <3>2, <3>3 DEF IsPrefixOf
  <2>4. TypeOK'
    BY <1>3, <2>2 DEF TypeOK, AppendWrites
  <2>5. MetaCalls' /\ WalCalls'
    BY <1>3, <2>1 DEF MetaCalls, WalCalls, AppendWrites
  <2>6. FilesHold'
    BY <1>3, <2>3 DEF FilesHold, AppendWrites
  <2>7. DisksHold'
    <3> SUFFICES ASSUME kills = 0 PROVE DisksHold'
      BY Zenon, <1>3 DEF DisksHold, AppendWrites
    <3>1. /\ walLinked /\ metaMem > 0 /\ metaDisk = {meta}
          /\ \A x \in metaDisk : x >= savedMeta
          /\ IsPrefixOf(savedLog, wal) /\ \A w \in walDisk : IsPrefixOf(savedLog, w)
      BY <1>3 DEF DisksHold, MetaCalls, AppendWrites, TypeOK
    <3> QED BY <1>3, <2>3, <3>1 DEF DisksHold, AppendWrites
  <2> QED BY <2>4, <2>5, <2>6, <2>7
<1>4. CASE AppendReturns
  <2>1. /\ arg \in Entry /\ wal = Append(entries, arg) /\ pos = Len(entries) + 1
        /\ entries' = wal /\ savedLog' = wal
    BY <1>4 DEF WalCalls, AppendReturns
  <2>2. entries' \in Seq(Entry) /\ Len(entries') = Len(entries) + 1
    <3>1. Append(entries, arg) \in Seq(Entry)
      BY <2>1 DEF TypeOK
    <3>2. Len(Append(entries, arg)) = Len(entries) + 1
      BY <1>1
    <3> QED BY <2>1, <3>1, <3>2
  <2>3. IsPrefixOf(wal, wal)
    BY <1>1, PrefixSelf
  <2>4. TypeOK'
    BY <1>1, <1>4, <2>1, <2>2 DEF TypeOK, AppendReturns, FsyncWal
  <2>5. MetaCalls' /\ WalCalls'
    BY <1>4, <2>1, <2>2 DEF MetaCalls, WalCalls, AppendReturns
  <2>6. FilesHold'
    BY <1>4, <2>1, <2>3 DEF FilesHold, AppendReturns
  <2>7. DisksHold'
    <3> SUFFICES ASSUME kills = 0 PROVE DisksHold'
      BY <1>4 DEF DisksHold, AppendReturns
    <3>1. /\ walLinked /\ metaDisk = {meta} /\ \A x \in metaDisk : x >= savedMeta
      BY <1>4 DEF DisksHold, MetaCalls, AppendReturns, TypeOK
    <3> QED BY <1>4, <2>1, <2>3, <3>1 DEF DisksHold, AppendReturns, FsyncWal
  <2> QED BY <2>4, <2>5, <2>6, <2>7
<1> QED BY <1>2, <1>3, <1>4

\* truncateFrom: Raft gives up no less than the file loses.
LEMMA TruncateSteps ==
  ASSUME StorageInv, TruncateCuts \/ TruncateReturns
  PROVE  StorageInv'
<1>1. /\ entries \in Seq(Record) /\ savedLog \in Seq(Record)
      /\ wal \in Seq(Record) /\ savedLog \in Seq(Entry) /\ entries \in Seq(Entry)
  BY EntriesAreRecords DEF TypeOK
<1>2. CASE TruncateCuts
  <2>1. PICK from \in 1..Len(entries) :
          /\ arg' = from /\ wal' = SubSeq(wal, 1, from - 1)
          /\ savedLog' = SubSeq(savedLog, 1, Min({from - 1, Len(savedLog)}))
    BY Zenon, <1>2 DEF TruncateCuts
  <2>2. PICK m : m = Min({from - 1, Len(savedLog)})
    BY Zenon
  <2>3. /\ from - 1 \in 0..Len(entries) /\ m \in 0..(from - 1) /\ m <= Len(savedLog)
    <3>1. from - 1 \in 0..Len(entries) /\ from - 1 \in Nat /\ Len(savedLog) \in Nat
      BY <1>1
    <3>2. m = IF from - 1 <= Len(savedLog) THEN from - 1 ELSE Len(savedLog)
      BY Zenon, <2>2, <3>1, MinOfTwo
    <3> QED BY <3>1, <3>2
  <2>4. wal = entries /\ savedLog' = SubSeq(savedLog, 1, m)
    <3>1. wal = entries
      BY <1>2 DEF WalCalls, TruncateCuts
    <3> QED BY Zenon, <2>1, <2>2, <3>1
  <2>5. wal' \in Seq(Record) /\ savedLog' \in Seq(Entry)
    <3>1. \A k \in 1..(from - 1) : wal[k] \in Record
      BY <1>1, <2>3, <2>4
    <3>2. \A k \in 1..m : savedLog[k] \in Entry
      BY <1>1, <2>3
    <3>3. SubSeq(wal, 1, from - 1) \in Seq(Record)
      BY <2>3, <3>1, SubSeqProperties
    <3>4. SubSeq(savedLog, 1, m) \in Seq(Entry)
      BY <2>3, <3>2, SubSeqProperties
    <3> QED BY Zenon, <2>1, <2>4, <3>3, <3>4
  <2>6. IsPrefixOf(savedLog, wal)
          => IsPrefixOf(savedLog', wal) /\ IsPrefixOf(savedLog', wal')
    <3> SUFFICES ASSUME IsPrefixOf(savedLog, wal)
                 PROVE  IsPrefixOf(savedLog', wal) /\ IsPrefixOf(savedLog', wal')
      OBVIOUS
    <3>1. /\ IsPrefixOf(SubSeq(savedLog, 1, m), wal)
          /\ IsPrefixOf(SubSeq(savedLog, 1, m), SubSeq(wal, 1, from - 1))
      BY <1>1, <2>3, <2>4, PrefixOfCut
    <3> QED BY Zenon, <2>1, <2>4, <3>1
  <2>7. TypeOK'
    BY Zenon, <1>2, <2>5 DEF TypeOK, TruncateCuts
  <2>8. MetaCalls' /\ WalCalls'
    BY <1>2, <2>1, <2>4 DEF MetaCalls, WalCalls, TruncateCuts
  <2>9. FilesHold'
    BY Zenon, <1>2, <2>6 DEF FilesHold, TruncateCuts
  <2>10. DisksHold'
    <3> SUFFICES ASSUME kills = 0 PROVE DisksHold'
      BY Zenon, <1>2 DEF DisksHold, TruncateCuts
    <3>1. /\ walDisk = {wal} /\ metaDisk = {meta} /\ \A x \in metaDisk : x >= savedMeta
          /\ IsPrefixOf(savedLog, wal) /\ (meta # 0 => walLinked)
      BY <1>2 DEF DisksHold, TruncateCuts
    <3>2. walLinked
      <4> SUFFICES ASSUME ~walLinked PROVE FALSE
        OBVIOUS
      <4>1. wal = <<>>
        BY <3>1 DEF DisksHold
      <4> QED BY <2>1, <2>4, <4>1
    <3> QED BY <1>2, <2>6, <3>1, <3>2 DEF DisksHold, TruncateCuts
  <2> QED BY <2>7, <2>8, <2>9, <2>10
<1>3. CASE TruncateReturns
  <2>1. /\ arg \in 1..Len(entries) /\ wal = SubSeq(entries, 1, arg - 1)
        /\ entries' = wal /\ pos' = arg - 1
    BY <1>3 DEF WalCalls, TruncateReturns, Seek
  <2>2. entries' \in Seq(Entry) /\ Len(entries') = arg - 1 /\ arg - 1 \in Nat
    <3>1. arg - 1 \in Nat /\ \A k \in 1..(arg - 1) : entries[k] \in Entry
      BY <1>1, <2>1
    <3>2. /\ SubSeq(entries, 1, arg - 1) \in Seq(Entry)
          /\ Len(SubSeq(entries, 1, arg - 1)) = arg - 1
      BY <1>1, <3>1, SubSeqProperties
    <3> QED BY Zenon, <2>1, <3>1, <3>2
  <2>3. TypeOK'
    BY <1>1, <1>3, <2>1, <2>2 DEF TypeOK, TruncateReturns, FsyncWal
  <2>4. MetaCalls' /\ WalCalls'
    BY <1>3, <2>1, <2>2 DEF MetaCalls, WalCalls, TruncateReturns
  <2>5. FilesHold'
    BY <1>3 DEF FilesHold, TruncateReturns
  <2>6. DisksHold'
    BY <1>3 DEF DisksHold, FilesHold, TruncateReturns, FsyncWal, TypeOK
  <2> QED BY <2>3, <2>4, <2>5, <2>6
<1> QED BY <1>2, <1>3

\* A kill leaves the files as they are, a loss of power one of the contents that
\* their unsynced writes allow.
LEMMA CrashSteps ==
  ASSUME StorageInv, Kill \/ PowerLoss
  PROVE  StorageInv'
<1>1. <<>> \in Seq(Entry) /\ <<>> \in Seq(Record)
  OBVIOUS
<1>2. CASE Kill
  <2>1. TypeOK'
    BY <1>1, <1>2 DEF TypeOK, Kill, Forgets
  <2>2. MetaCalls' /\ WalCalls'
    BY <1>2 DEF MetaCalls, WalCalls, Kill, Forgets
  <2>3. FilesHold' /\ DisksHold'
    BY <1>2 DEF TypeOK, FilesHold, DisksHold, Kill
  <2> QED BY <2>1, <2>2, <2>3
<1>3. CASE PowerLoss
  <2>1. /\ meta' \in metaDisk /\ wal' \in Seq(Record)
        /\ metaDisk' = {meta'} /\ walDisk' = {wal'}
    BY Zenon, <1>1, <1>3 DEF TypeOK, PowerLoss
  <2>2. TypeOK'
    BY <1>1, <1>3, <2>1 DEF TypeOK, PowerLoss, Forgets
  <2>3. MetaCalls' /\ WalCalls'
    BY <1>3 DEF MetaCalls, WalCalls, PowerLoss, Forgets
  <2>4. kills = 0 => /\ wal' \in walDisk /\ (~walLinked' => wal' = <<>>)
                     /\ IsPrefixOf(savedLog, wal') /\ meta' >= savedMeta
    <3> SUFFICES ASSUME kills = 0
                 PROVE  /\ wal' \in walDisk /\ (~walLinked' => wal' = <<>>)
                        /\ IsPrefixOf(savedLog, wal') /\ meta' >= savedMeta
      OBVIOUS
    <3>1. CASE walLinked'
      BY <1>3, <2>1, <3>1 DEF DisksHold, PowerLoss
    <3>2. CASE ~walLinked'
      <4>1. walDisk = {<<>>}
        BY Zenon, <1>3, <3>2 DEF DisksHold, PowerLoss
      <4> QED BY <1>3, <2>1, <3>2, <4>1 DEF DisksHold, PowerLoss
    <3> QED BY <3>1, <3>2
  <2>5. FilesHold'
    BY <1>3, <2>4 DEF FilesHold, PowerLoss, TypeOK
  <2>6. DisksHold'
    <3> SUFFICES ASSUME kills = 0 PROVE DisksHold'
      BY <1>3 DEF DisksHold, PowerLoss
    <3>1. pc' = "down" /\ (meta' # 0 => walLinked') /\ savedLog' = savedLog
          /\ savedMeta' = savedMeta
      BY Zenon, <1>3 DEF PowerLoss, Forgets
    <3> QED BY <2>1, <2>4, <3>1 DEF DisksHold
  <2> QED BY <2>2, <2>3, <2>5, <2>6
<1> QED BY <1>2, <1>3

-----------------------------------------------------------------------------
(* Theorems.                                                               *)

\* The inductive invariant holds always, with kills and losses of power in any
\* number and order.
THEOREM StorageInvariant == Spec => []StorageInv
<1> USE DEF StorageInv
<1>1. ASSUME StorageInv, UNCHANGED vars PROVE StorageInv'
  <2>1. TypeOK' /\ MetaCalls'
    BY <1>1 DEF vars, TypeOK, MetaCalls
  <2>2. WalCalls'
    BY <1>1 DEF vars, WalCalls
  <2>3. FilesHold' /\ DisksHold'
    BY <1>1 DEF vars, FilesHold, DisksHold
  <2> QED BY <2>1, <2>2, <2>3
<1> HIDE DEF StorageInv
<1>2. StorageInv /\ [Next]_vars => StorageInv'
  BY Zenon, <1>1, LoadSteps, SaveMetaSteps, AppendSteps, TruncateSteps, CrashSteps
     DEF Next
<1> QED BY InvInit, <1>2, PTL DEF Spec

\* No crash, of either kind and wherever it hits saveMeta, leaves a meta file
\* that load refuses.
THEOREM MetaNeverRefused == Spec => []NeverRefuses
<1>1. StorageInv => NeverRefuses
  BY DEF TypeOK, NeverRefuses
<1> QED BY <1>1, StorageInvariant, PTL

\* Outside of a call, wal, entries_ and the offset of walFd_ agree, after any
\* mixture of crashes.
THEOREM WalIsMemory == Spec => []WalMirrorsMemory
<1>1. StorageInv => WalMirrorsMemory
  BY DEF WalCalls, WalMirrorsMemory
<1> QED BY <1>1, StorageInvariant, PTL

\* As long as a node has met one kind of crash only, load finds what append,
\* saveMeta and earlier loads returned for.
THEOREM OneKindOfCrash ==
  Spec => []((kills = 0 \/ losses = 0) => LogSurvives /\ MetaSurvives)
<1>1. StorageInv => ((kills = 0 \/ losses = 0) => LogSurvives /\ MetaSurvives)
  BY DEF FilesHold, WalCalls, MetaCalls, LogSurvives, MetaSurvives
<1> QED BY <1>1, StorageInvariant, PTL

\* Behaviours without a mixture of crashes have one kind only.
LEMMA NotMixed ==
  ASSUME ~Mixed
  PROVE  Spec => [](kills = 0 \/ losses = 0)
<1>1. Init => kills = 0 \/ losses = 0
  BY DEF Init
<1>2. TypeOK /\ (kills = 0 \/ losses = 0) /\ [Next]_vars
        => (kills = 0 \/ losses = 0)'
  BY Zenon DEF Next, vars, LoadScans, LoadTruncates, LoadReturns, MetaOpens, MetaWrites,
         MetaSyncs, MetaRenames, MetaReturns, AppendStarts, AppendWrites,
         AppendReturns, TruncateCuts, TruncateReturns, Kill, PowerLoss
<1>3. StorageInv => TypeOK
  OBVIOUS
<1> QED BY <1>1, <1>2, <1>3, StorageInvariant, PTL DEF Spec

\* storage.hpp:22-26, with kills or with losses of power: every entry that append
\* returned for or load found is found again, up to the ones Raft truncated.
THEOREM LogIsDurable ==
  ASSUME ~Mixed
  PROVE  Spec => []LogSurvives
BY NotMixed, OneKindOfCrash, PTL

\* With kills or with losses of power, no term or vote that saveMeta returned for
\* is followed by an older one.
THEOREM MetaIsDurable ==
  ASSUME ~Mixed
  PROVE  Spec => []MetaSurvives
BY NotMixed, OneKindOfCrash, PTL

=============================================================================

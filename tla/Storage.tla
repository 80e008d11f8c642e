------------------------------ MODULE Storage ------------------------------
(***************************************************************************)
(* storage.cpp: the meta file and the write-ahead log of one node, at the  *)
(* granularity of system calls, with two kinds of crash.  A Kill loses the *)
(* process and its memory; what it wrote stays in the page cache.  A       *)
(* PowerLoss also loses what was never fsynced: a file then holds one of   *)
(* the contents its unsynced writes allow.                                 *)
(*                                                                         *)
(* A meta value is the number of the saveMeta that wrote it, 0 for none; a *)
(* WAL is a sequence of entries, or Torn for a record whose length or CRC  *)
(* check fails.  An exception of write or fsync is not caught anywhere and *)
(* ends the process: a Kill.                                               *)
(***************************************************************************)
EXTENDS Integers, Sequences, FiniteSets, FiniteSetsExt

CONSTANTS
  Entry,          \* log entries
  Torn,           \* a record or file whose checks fail
  MaxMeta,        \* bound on calls of saveMeta
  MaxLog,         \* bound on the length of the log
  MaxKills,       \* bound on kills
  MaxPowerLosses, \* bound on power losses
  Mixed           \* whether one behaviour may have both kinds of crash

ASSUME TornAssumption == Torn \notin Entry /\ Torn \notin Nat

VARIABLES
  pc,             \* where the process is; "ready" outside of any call
  arg,            \* the argument of the call in progress
  metaMem,        \* currentTerm_ and votedFor_
  entries,        \* entries_
  pos,            \* file offset of walFd_, in records
  meta,           \* content of the file meta, 0 when there is none
  metaDisk,       \* the contents a power loss can leave in meta
  tmp,            \* content of meta.tmp
  tmpDisk,        \* the contents a power loss can leave in meta.tmp
  wal,            \* content of the file wal
  walDisk,        \* the contents a power loss can leave in wal
  walLinked,      \* the directory entry of wal is on disk
  savedMeta,      \* history: the meta value that Raft relies on
  savedLog,       \* history: the log that Raft relies on
  kills, losses   \* number of crashes so far

memory == <<arg, metaMem, entries, pos>>
metaFiles == <<meta, metaDisk, tmp, tmpDisk>>
walFile == <<wal, walDisk>>
history == <<savedMeta, savedLog>>
crashes == <<kills, losses>>
vars == <<pc, memory, metaFiles, walFile, walLinked, history, crashes>>

IsPrefixOf(s, t) == Len(s) <= Len(t) /\ \A k \in 1..Len(s) : s[k] = t[k]

\* A file with record r written at offset p; a gap before it reads as zeros.
WriteAt(file, p, r) ==
  [k \in 1..Max({Len(file), p + 1}) |->
     CASE k = p + 1 -> r
       [] k # p + 1 /\ k <= Len(file) -> file[k]
       [] OTHER -> Torn]

\* Mutant: the last record is taken for a torn one.
Recovered_DropsLast(file) ==
  SubSeq(file, 1, Min({k \in 1..(Len(file) + 1) :
                         k >= Len(file) \/ file[k] = Torn}) - 1)

\* The scan of load: the records before the first one that fails its checks.
Recovered(file) ==
  SubSeq(file, 1, Min({k \in 1..(Len(file) + 1) :
                         k = Len(file) + 1 \/ file[k] = Torn}) - 1)

\* Mutant: fsync of wal is not called.
FsyncWal_Not == walDisk

\* What a power loss can leave of wal once it is fsynced.
FsyncWal == {wal}

\* Mutant: meta.tmp is renamed without having been fsynced.
FsyncTmp_Not == tmpDisk

\* What a power loss can leave of meta.tmp once it is fsynced.
FsyncTmp == {tmp}

\* Mutant: the directory is not fsynced after the rename.
FsyncDir_Not == metaDisk

\* What a power loss can leave in meta once the directory is fsynced: the file
\* that was renamed.
FsyncDir == tmpDisk

\* Mutant: the file offset stays where it was.
Seek_Not(offset) == pos

\* lseek.
Seek(offset) == offset

Init ==
  /\ pc = "down"
  /\ arg = 0 /\ metaMem = 0 /\ entries = <<>> /\ pos = 0
  /\ meta = 0 /\ metaDisk = {0}
  /\ tmp = Torn /\ tmpDisk = {Torn}
  /\ wal = <<>> /\ walDisk = {<<>>} /\ walLinked = FALSE
  /\ savedMeta = 0 /\ savedLog = <<>>
  /\ kills = 0 /\ losses = 0

\* load up to the end of the scan; wal exists from here on.  A meta file that
\* fails its checks makes it give up.
LoadScans ==
  /\ pc = "down"
  /\ IF meta = Torn
     THEN pc' = "refused" /\ UNCHANGED <<metaMem, entries>>
     ELSE pc' = "scanned" /\ metaMem' = meta /\ entries' = Recovered(wal)
  /\ UNCHANGED <<arg, pos, metaFiles, walFile, walLinked, history, crashes>>

\* ftruncate of a tail that was discarded.
LoadTruncates ==
  /\ pc = "scanned"
  /\ Len(entries) # Len(wal)
  /\ wal' = SubSeq(wal, 1, Len(entries))
  /\ walDisk' = walDisk \cup {wal'}
  /\ pc' = "trimmed"
  /\ UNCHANGED <<memory, metaFiles, walLinked, history, crashes>>

\* The fsync after it, if any, and lseek: load returns true.
LoadReturns ==
  /\ \/ pc = "scanned" /\ Len(entries) = Len(wal) /\ UNCHANGED walDisk
     \/ pc = "trimmed" /\ walDisk' = FsyncWal
  /\ pos' = Len(entries)
  /\ pc' = "ready"
  /\ savedMeta' = Max({savedMeta, metaMem})
  /\ savedLog' = IF IsPrefixOf(savedLog, entries) THEN entries ELSE savedLog
  /\ UNCHANGED <<arg, metaMem, entries, metaFiles, wal, walLinked, crashes>>

\* Mutant: meta itself is emptied and written again.
MetaOpens_InPlace ==
  /\ pc = "ready"
  /\ \E m \in (metaMem + 1)..MaxMeta : metaMem' = m
  /\ tmp' = Torn /\ meta' = Torn
  /\ pc' = "meta_opened"
  /\ UNCHANGED <<arg, entries, pos, metaDisk, tmpDisk, walFile, walLinked,
                 history, crashes>>

\* saveMeta: meta.tmp is created or emptied.
MetaOpens ==
  /\ pc = "ready"
  /\ \E m \in (metaMem + 1)..MaxMeta : metaMem' = m
  /\ tmp' = Torn
  /\ tmpDisk' = {Torn}
  /\ pc' = "meta_opened"
  /\ UNCHANGED <<arg, entries, pos, meta, metaDisk, walFile, walLinked,
                 history, crashes>>

MetaWrites ==
  /\ pc = "meta_opened"
  /\ tmp' = metaMem
  /\ tmpDisk' = tmpDisk \cup {metaMem}
  /\ pc' = "meta_written"
  /\ UNCHANGED <<memory, meta, metaDisk, walFile, walLinked, history, crashes>>

MetaSyncs ==
  /\ pc = "meta_written"
  /\ tmpDisk' = FsyncTmp
  /\ pc' = "meta_synced"
  /\ UNCHANGED <<memory, meta, metaDisk, tmp, walFile, walLinked, history,
                 crashes>>

\* rename: until the directory is fsynced, either file may be the one found.
MetaRenames ==
  /\ pc = "meta_synced"
  /\ meta' = tmp
  /\ metaDisk' = metaDisk \cup tmpDisk
  /\ pc' = "meta_renamed"
  /\ UNCHANGED <<memory, tmp, tmpDisk, walFile, walLinked, history, crashes>>

\* fsync of the directory, which also makes the entry of wal durable.
MetaReturns ==
  /\ pc = "meta_renamed"
  /\ metaDisk' = FsyncDir
  /\ walLinked' = TRUE
  /\ savedMeta' = metaMem
  /\ pc' = "ready"
  /\ UNCHANGED <<memory, meta, tmp, tmpDisk, walFile, savedLog, crashes>>

\* append: the first part of the record is written.  RaftNode appends in a
\* term above 0 only, hence after a saveMeta.
AppendStarts ==
  /\ pc = "ready"
  /\ metaMem > 0
  /\ Len(entries) < MaxLog
  /\ \E e \in Entry : arg' = e
  /\ wal' = WriteAt(wal, pos, Torn)
  /\ walDisk' = walDisk \cup {wal'}
  /\ pc' = "append_started"
  /\ UNCHANGED <<metaMem, entries, pos, metaFiles, walLinked, history, crashes>>

AppendWrites ==
  /\ pc = "append_started"
  /\ wal' = WriteAt(wal, pos, arg)
  /\ walDisk' = walDisk \cup {wal'}
  /\ pos' = pos + 1
  /\ pc' = "append_written"
  /\ UNCHANGED <<arg, metaMem, entries, metaFiles, walLinked, history, crashes>>

\* fsync, then the entry is added to memory and append returns.
AppendReturns ==
  /\ pc = "append_written"
  /\ walDisk' = FsyncWal
  /\ entries' = Append(entries, arg)
  /\ savedLog' = entries'
  /\ pc' = "ready"
  /\ UNCHANGED <<arg, metaMem, pos, metaFiles, wal, walLinked, savedMeta,
                 crashes>>

\* truncateFrom(from), when from is an index of the log: ftruncate.  Raft has
\* given up the entries from here on.
TruncateCuts ==
  /\ pc = "ready"
  /\ \E from \in 1..Len(entries) :
       /\ arg' = from
       /\ wal' = SubSeq(wal, 1, from - 1)
       /\ savedLog' = SubSeq(savedLog, 1, Min({from - 1, Len(savedLog)}))
  /\ walDisk' = walDisk \cup {wal'}
  /\ pc' = "truncated"
  /\ UNCHANGED <<metaMem, entries, pos, metaFiles, walLinked, savedMeta,
                 crashes>>

\* fsync, lseek, and the entries are dropped from memory.
TruncateReturns ==
  /\ pc = "truncated"
  /\ walDisk' = FsyncWal
  /\ pos' = Seek(arg - 1)
  /\ entries' = SubSeq(entries, 1, arg - 1)
  /\ pc' = "ready"
  /\ UNCHANGED <<arg, metaMem, metaFiles, wal, walLinked, history, crashes>>

\* The memory of a process that is gone.
Forgets ==
  /\ pc' = "down"
  /\ arg' = 0 /\ metaMem' = 0 /\ entries' = <<>> /\ pos' = 0

\* The process ends, between any two system calls.
Kill ==
  /\ pc # "down"
  /\ kills < MaxKills /\ (Mixed \/ losses = 0)
  /\ kills' = kills + 1
  /\ Forgets
  /\ UNCHANGED <<metaFiles, walFile, walLinked, history, losses>>

\* The machine goes down: each file is left with one of its possible contents,
\* and wal is gone if its directory entry never reached the disk.  Updates of
\* the directory reach it in order, as with a journal: with a renamed meta, wal
\* is there too.
PowerLoss ==
  /\ losses < MaxPowerLosses /\ (Mixed \/ kills = 0)
  /\ losses' = losses + 1
  /\ Forgets
  /\ meta' \in metaDisk
  /\ metaDisk' = {meta'}
  /\ tmp' = Torn /\ tmpDisk' = {Torn}
  /\ walLinked' = (walLinked \/ meta' # 0)
  /\ wal' \in walDisk \cup (IF walLinked' THEN {} ELSE {<<>>})
  /\ walDisk' = {wal'}
  /\ UNCHANGED <<history, kills>>

Next ==
  \/ LoadScans \/ LoadTruncates \/ LoadReturns
  \/ MetaOpens \/ MetaWrites \/ MetaSyncs \/ MetaRenames \/ MetaReturns
  \/ AppendStarts \/ AppendWrites \/ AppendReturns
  \/ TruncateCuts \/ TruncateReturns
  \/ Kill \/ PowerLoss

Spec == Init /\ [][Next]_vars

-----------------------------------------------------------------------------
(* Properties.                                                             *)

\* What storage.hpp:22-26 promises: after any crash, load finds every entry
\* that append returned for or that an earlier load handed to Raft, up to the
\* ones Raft has truncated itself.
LogSurvives == pc = "ready" => IsPrefixOf(savedLog, entries)

\* A term and a vote that saveMeta returned for, or that load found, are never
\* followed by older ones: a node does not vote twice after a crash.
MetaSurvives == pc = "ready" => metaMem >= savedMeta

\* No crash leaves a meta file that load refuses, which would keep the node
\* from ever starting again.
NeverRefuses == pc # "refused"

\* Outside of a call, the file holds the records of entries_ one after the
\* other and the next write goes to its end: offsets_ and walSize_ are right.
WalMirrorsMemory == pc = "ready" => wal = entries /\ pos = Len(entries)

=============================================================================

--------------------------- MODULE PosixEnvProofs ---------------------------
(***************************************************************************)
(* The promises of PosixEnv hold for any number of threads, files, limits, *)
(* calls of Schedule and processes.                                        *)
(***************************************************************************)
EXTENDS PosixEnv, FiniteSetTheorems, SequenceTheorems, TLAPS

USE EnvBounds

-----------------------------------------------------------------------------
(* The limits.                                                               *)
Openings == {"idle", "mmap?", "mmap+", "map", "mapped", "fd?", "fd+", "kept", "temporary"}

LimiterInv ==
    /\ opening \in [EnvThread -> Openings]
    /\ allowed \in [mmap : Int, fd : Int]
    /\ LimitsKept

\* A thread that moves between the states of a set, or outside it, leaves its
\* number as it is; one that enters or leaves it changes that number by one.
LEMMA WithMoves ==
    ASSUME opening \in [EnvThread -> Openings], NEW pcs,
           NEW t \in EnvThread, NEW pc, NEW next, At(t, pc, next)
    PROVE  /\ With(pcs) \in Nat /\ With(pcs)' \in Nat
           /\ pc \in pcs /\ next \in pcs => With(pcs)' = With(pcs)
           /\ pc \notin pcs /\ next \notin pcs => With(pcs)' = With(pcs)
           /\ pc \notin pcs /\ next \in pcs => With(pcs)' = With(pcs) + 1
           /\ pc \in pcs /\ next \notin pcs => With(pcs)' = With(pcs) - 1
<1> DEFINE in == {u \in EnvThread : opening[u] \in pcs}
           out == {u \in EnvThread : opening'[u] \in pcs}
<1>1. opening[t] = pc /\ \A u \in EnvThread : opening'[u] = IF u = t THEN next ELSE opening[u]
    BY DEF At
<1>2. IsFiniteSet(in) /\ IsFiniteSet(out)
    BY FS_Subset
<1>3. Cardinality(in) \in Nat /\ Cardinality(out) \in Nat
    BY <1>2, FS_CardinalityType
<1>4. pc \in pcs /\ next \in pcs => out = in
    BY <1>1
<1>5. pc \notin pcs /\ next \notin pcs => out = in
    BY <1>1
<1>6. pc \notin pcs /\ next \in pcs => Cardinality(out) = Cardinality(in) + 1
    <2>1. pc \notin pcs /\ next \in pcs => out = in \cup {t} /\ t \notin in
        BY <1>1
    <2> QED BY <2>1, <1>2, FS_AddElement
<1>7. pc \in pcs /\ next \notin pcs => Cardinality(out) = Cardinality(in) - 1
    <2>1. pc \in pcs /\ next \notin pcs => out = in \ {t} /\ t \in in
        BY <1>1
    <2> QED BY SMTT(20), <2>1, <1>2, FS_RemoveElement
<1> QED BY <1>3, <1>4, <1>5, <1>6, <1>7 DEF With

LEMMA LimiterStep ==
    ASSUME LimiterInv, [LimiterNext]_limiterVars
    PROVE  LimiterInv'
<1> USE DEF LimiterInv
<1> DEFINE Mapping == {"map", "mapped"}
<1>1. ASSUME NEW t \in EnvThread, NEW pc \in Openings, NEW next \in Openings, At(t, pc, next),
             pc \in Mapping <=> next \in Mapping, pc = "kept" <=> next = "kept",
             UNCHANGED allowed
      PROVE  LimiterInv'
    <2>1. With(Mapping)' = With(Mapping) /\ With({"kept"})' = With({"kept"})
        BY <1>1, WithMoves
    <2>2. opening' \in [EnvThread -> Openings]
        BY <1>1 DEF At
    <2> QED BY <1>1, <2>1, <2>2 DEF LimitsKept
<1>2. ASSUME NEW t \in EnvThread, NEW pc \in Openings, NEW next \in Openings, At(t, pc, next),
             pc \notin Mapping, next \in Mapping, pc # "kept", allowed.mmap > 0,
             allowed' = [allowed EXCEPT !.mmap = @ - 1]
      PROVE  LimiterInv'
    <2>1. With(Mapping)' = With(Mapping) + 1 /\ With({"kept"})' = With({"kept"})
        BY <1>2, WithMoves
    <2>2. With(Mapping) \in Nat /\ With({"kept"}) \in Nat
        BY <1>2, WithMoves
    <2>3. opening' \in [EnvThread -> Openings]
        BY <1>2 DEF At
    <2> QED BY <1>2, <2>1, <2>2, <2>3 DEF LimitsKept
<1>3. ASSUME NEW t \in EnvThread, NEW pc \in Openings, At(t, pc, "idle"), pc \in Mapping,
             allowed' = [allowed EXCEPT !.mmap = @ + 1]
      PROVE  LimiterInv'
    <2>1. With(Mapping)' = With(Mapping) - 1 /\ With({"kept"})' = With({"kept"})
        BY <1>3, WithMoves
    <2>2. With(Mapping) \in Nat /\ With({"kept"}) \in Nat
        BY <1>3, WithMoves
    <2>3. opening' \in [EnvThread -> Openings]
        BY <1>3 DEF At, Openings
    <2> QED BY <1>3, <2>1, <2>2, <2>3 DEF LimitsKept
<1>4. ASSUME NEW t \in EnvThread, At(t, "fd+", "kept"), allowed.fd > 0,
             allowed' = [allowed EXCEPT !.fd = @ - 1]
      PROVE  LimiterInv'
    <2>1. With(Mapping)' = With(Mapping) /\ With({"kept"})' = With({"kept"}) + 1
        BY <1>4, WithMoves
    <2>2. With(Mapping) \in Nat /\ With({"kept"}) \in Nat
        BY <1>4, WithMoves
    <2>3. opening' \in [EnvThread -> Openings]
        BY <1>4 DEF At, Openings
    <2> QED BY <1>4, <2>1, <2>2, <2>3 DEF LimitsKept
<1>5. ASSUME NEW t \in EnvThread, At(t, "kept", "idle"),
             allowed' = [allowed EXCEPT !.fd = @ + 1]
      PROVE  LimiterInv'
    <2>1. With(Mapping)' = With(Mapping) /\ With({"kept"})' = With({"kept"}) - 1
        BY <1>5, WithMoves
    <2>2. With(Mapping) \in Nat /\ With({"kept"}) \in Nat
        BY <1>5, WithMoves
    <2>3. opening' \in [EnvThread -> Openings]
        BY <1>5 DEF At, Openings
    <2> QED BY <1>5, <2>1, <2>2, <2>3 DEF LimitsKept
<1>6. ASSUME UNCHANGED limiterVars PROVE LimiterInv'
    BY <1>6 DEF limiterVars, LimitsKept, With
<1>7. ASSUME NEW t \in EnvThread, OpenFile(t) PROVE LimiterInv'
    BY <1>7, <1>1 DEF OpenFile, Openings
<1>8. ASSUME NEW t \in EnvThread, Look(t, "mmap", "fd?") PROVE LimiterInv'
    BY <1>8, <1>1 DEF Look, Looking, Taking, Openings
<1>9. ASSUME NEW t \in EnvThread, Acquire(t, "mmap", "map", "fd?") PROVE LimiterInv'
    <2>1. CASE allowed.mmap <= 0
        <3>1. At(t, "mmap+", "fd?") /\ UNCHANGED allowed
            BY <1>9, <2>1 DEF Acquire, Taking
        <3> QED BY <3>1, <1>1 DEF Openings
    <2>2. CASE allowed.mmap > 0
        <3>1. ~(allowed["mmap"] <= 0)
            BY <2>2
        <3>2. At(t, "mmap+", "map") /\ allowed' = [allowed EXCEPT !["mmap"] = @ - 1]
            BY <1>9, <3>1, Zenon DEF Acquire, Taking
        <3> QED BY <3>2, <2>2, <1>2 DEF Openings
    <2> QED BY <2>1, <2>2
<1>10. ASSUME NEW t \in EnvThread, MapFile(t) PROVE LimiterInv'
    BY <1>10, <1>1 DEF MapFile, Openings
<1>11. ASSUME NEW t \in EnvThread, Release(t, "mmap", "map") \/ Release(t, "mmap", "mapped")
       PROVE  LimiterInv'
    BY <1>11, <1>3 DEF Release, Openings
<1>12. ASSUME NEW t \in EnvThread, Look(t, "fd", "temporary") PROVE LimiterInv'
    BY <1>12, <1>1 DEF Look, Looking, Taking, Openings
<1>13. ASSUME NEW t \in EnvThread, Acquire(t, "fd", "kept", "temporary") PROVE LimiterInv'
    <2>1. CASE allowed.fd <= 0
        <3>1. At(t, "fd+", "temporary") /\ UNCHANGED allowed
            BY <1>13, <2>1 DEF Acquire, Taking
        <3> QED BY <3>1, <1>1 DEF Openings
    <2>2. CASE allowed.fd > 0
        <3>1. ~(allowed["fd"] <= 0)
            BY <2>2
        <3>2. At(t, "fd+", "kept") /\ allowed' = [allowed EXCEPT !["fd"] = @ - 1]
            BY <1>13, <3>1, Zenon DEF Acquire, Taking
        <3> QED BY <3>2, <2>2, <1>4
    <2> QED BY <2>1, <2>2
<1>14. ASSUME NEW t \in EnvThread, Release(t, "fd", "kept") PROVE LimiterInv'
    BY <1>14, <1>5 DEF Release
<1>15. ASSUME NEW t \in EnvThread, CloseTemporary(t) PROVE LimiterInv'
    BY <1>15, <1>1 DEF CloseTemporary, Openings
<1> QED BY <1>6, <1>7, <1>8, <1>9, <1>10, <1>11, <1>12, <1>13, <1>14, <1>15 DEF LimiterNext

-----------------------------------------------------------------------------
(* The queue.                                                                *)
QueueInv ==
    /\ queue \in Seq(Nat) /\ ran \in Seq(Nat)
    /\ bgthread \in {"none", "lock", "wait", "run"}
    /\ NoLostWakeup

LEMMA AppendToConcat ==
    ASSUME NEW s \in Seq(Nat), NEW t \in Seq(Nat), NEW n \in Nat
    PROVE  s \o Append(t, n) = Append(s \o t, n)
<1>1. s \o t \in Seq(Nat) /\ Append(t, n) \in Seq(Nat)
    BY ConcatProperties
<1>2. s \o Append(t, n) \in Seq(Nat) /\ Append(s \o t, n) \in Seq(Nat)
    BY <1>1, ConcatProperties
<1>3. Len(s \o Append(t, n)) = Len(Append(s \o t, n))
    BY <1>1, ConcatProperties, AppendProperties
<1>4. \A i \in 1..Len(s \o Append(t, n)) : (s \o Append(t, n))[i] = Append(s \o t, n)[i]
    BY <1>1
<1> QED BY <1>2, <1>3, <1>4, SeqEqual

LEMMA HeadToConcat ==
    ASSUME NEW s \in Seq(Nat), NEW t \in Seq(Nat), t # <<>>
    PROVE  Append(s, Head(t)) \o Tail(t) = s \o t
<1>1. Head(t) \in Nat /\ Tail(t) \in Seq(Nat) /\ Len(Tail(t)) = Len(t) - 1
    BY HeadTailProperties
<1>2. Append(s, Head(t)) \in Seq(Nat) /\ Len(Append(s, Head(t))) = Len(s) + 1
    BY <1>1
<1>3. Append(s, Head(t)) \o Tail(t) \in Seq(Nat) /\ s \o t \in Seq(Nat)
    BY <1>1, <1>2, ConcatProperties
<1>4. Len(Append(s, Head(t)) \o Tail(t)) = Len(s \o t)
    BY <1>1, <1>2, ConcatProperties
<1>5. \A i \in 1..Len(s \o t) : (Append(s, Head(t)) \o Tail(t))[i] = (s \o t)[i]
    BY <1>1, <1>2
<1> QED BY <1>3, <1>4, <1>5, SeqEqual

LEMMA QueueStep ==
    ASSUME QueueInv, [QueueNext]_queueVars
    PROVE  QueueInv'
<1> USE DEF QueueInv, NoLostWakeup
<1>1. CASE Schedule
    <2>1. Scheduled \in Nat
        BY DEF Scheduled
    <2>2. queue' \in Seq(Nat) /\ Scheduled' = Scheduled + 1 /\ ran' \in Seq(Nat)
        BY <1>1, <2>1 DEF Schedule, Scheduled
    <2>3. (ran \o queue)' = [i \in 1..Scheduled' |-> i]
        <3>1. (ran \o queue)' = Append(ran \o queue, Scheduled + 1)
            <4>1. queue' = Append(queue, Scheduled + 1) /\ ran' = ran
                BY <1>1 DEF Schedule
            <4>2. queue \in Seq(Nat) /\ ran \in Seq(Nat) /\ Scheduled + 1 \in Nat
                BY <2>1
            <4>3. ran \o Append(queue, Scheduled + 1) = Append(ran \o queue, Scheduled + 1)
                BY <4>2, AppendToConcat
            <4> QED BY <4>1, <4>3
        <3> QED BY <3>1, <2>1, <2>2
    <2>4. bgthread' \in {"lock", "run"}
        BY <1>1 DEF Schedule
    <2> QED BY <2>2, <2>3, <2>4
<1>2. CASE TakeItem
    <2>1. CASE queue = <<>>
        BY <1>2, <2>1 DEF TakeItem, Scheduled
    <2>2. CASE queue # <<>>
        <3>1. /\ ran' = Append(ran, Head(queue)) /\ queue' = Tail(queue)
              /\ bgthread' = "run"
            BY <1>2, <2>2 DEF TakeItem
        <3>2. Head(queue) \in Nat /\ Tail(queue) \in Seq(Nat)
            BY <2>2
        <3>3. Len(ran') = Len(ran) + 1 /\ Len(queue') = Len(queue) - 1
            BY <3>1, <3>2, <2>2
        <3>4. (ran \o queue)' = ran \o queue
            BY <3>1, <2>2, HeadToConcat
        <3> QED BY <3>1, <3>2, <3>3, <3>4 DEF Scheduled
    <2> QED BY <2>1, <2>2
<1>3. CASE ItemDone
    BY <1>3 DEF ItemDone, Scheduled
<1>4. CASE SpuriousWakeup
    BY <1>4 DEF SpuriousWakeup, Scheduled
<1>5. CASE UNCHANGED queueVars
    BY <1>5 DEF queueVars, Scheduled
<1> QED BY <1>1, <1>2, <1>3, <1>4, <1>5 DEF QueueNext

-----------------------------------------------------------------------------
(* The lock table: a caller that has inserted its process is the only one.    *)
Inserted == {c \in LockCaller : locker[c] \in {"inserted", "held", "refused"}}

LockInv ==
    /\ locker \in [LockCaller -> {"idle", "opened", "inserted", "held", "refused", "closing"}]
    /\ \A c \in Inserted : ProcessOf[c] \in locked_files
    /\ \A c, d \in Inserted : ProcessOf[c] = ProcessOf[d] => c = d

LEMMA LockStep ==
    ASSUME LockInv, [LockNext]_lockVars
    PROVE  LockInv'
<1> USE DEF LockInv, Inserted, Step
<1>1. ASSUME NEW c \in LockCaller, OpenLockFile(c) PROVE LockInv'
    BY <1>1 DEF OpenLockFile
<1>2. ASSUME NEW c \in LockCaller, InsertLock(c) PROVE LockInv'
    BY <1>2 DEF InsertLock
<1>3. ASSUME NEW c \in LockCaller, LockFcntl(c) PROVE LockInv'
    BY <1>3 DEF LockFcntl
<1>4. ASSUME NEW c \in LockCaller, LockRefused(c) PROVE LockInv'
    BY <1>4 DEF LockRefused
<1>5. ASSUME NEW c \in LockCaller, UnlockFile(c) PROVE LockInv'
    BY <1>5 DEF UnlockFile
<1>6. ASSUME NEW c \in LockCaller, CloseLockFile(c) PROVE LockInv'
    BY <1>6 DEF CloseLockFile
<1>7. CASE UNCHANGED lockVars
    BY <1>7 DEF lockVars
<1> QED BY <1>1, <1>2, <1>3, <1>4, <1>5, <1>6, <1>7 DEF LockNext

-----------------------------------------------------------------------------
(* The files.  A table that a record lists is closed and stable; the manifest *)
(* holds the records that were added, and its stable part those acknowledged. *)
FileState ==
    [made : BOOLEAN, named : BOOLEAN, open : BOOLEAN, ok : BOOLEAN,
     buffered : Nat, written : Nat, stable : Nat]

Ordered(f) ==
    /\ file[f].stable <= file[f].written /\ file[f].written <= file[f].buffered
    /\ ~file[f].made => ~file[f].open

Complete(t) == file[t].made /\ ~file[t].open /\ file[t].stable = TableSize

TableInv(t) ==
    /\ file[t].buffered <= TableSize
    /\ file[t].made /\ ~file[t].open /\ file[t].ok => file[t].stable = TableSize

FileTypeOK ==
    /\ file \in [TableFile \cup {"MANIFEST"} -> FileState]
    /\ records \in [list : Seq(TableFile), acked : Nat]

FileInv ==
    /\ FileTypeOK
    /\ \A f \in TableFile \cup {"MANIFEST"} : Ordered(f)
    /\ \A t \in TableFile : TableInv(t)
    /\ file["MANIFEST"].buffered = Len(records.list)
    /\ records.acked <= file["MANIFEST"].stable
    /\ \A i \in 1..Len(records.list) : Complete(records.list[i])
    /\ \A i \in 1..records.acked : file[records.list[i]].named

\* A step that replaces one file and no record, loses nothing of the file, and
\* writes no record.
LEMMA OneFile ==
    ASSUME FileInv, NEW f \in TableFile \cup {"MANIFEST"}, NEW r \in FileState,
           file' = [file EXCEPT ![f] = r], UNCHANGED records,
           file[f].stable <= r.stable, r.stable <= r.written, r.written <= r.buffered,
           ~r.made => ~r.open,
           f \in TableFile => r.buffered <= TableSize,
           f \in TableFile => (r.made /\ ~r.open /\ r.ok => r.stable = TableSize),
           f = "MANIFEST" => r.buffered = file[f].buffered,
           f \in TableFile => (Complete(f) => r.made /\ ~r.open /\ r.stable = TableSize),
           file[f].named => r.named
    PROVE  FileInv'
<1> DEFINE Files == TableFile \cup {"MANIFEST"}
<1>1. /\ file \in [Files -> FileState] /\ records \in [list : Seq(TableFile), acked : Nat]
      /\ "MANIFEST" \in Files
    BY DEF FileInv, FileTypeOK
<1>2. /\ file' \in [Files -> FileState] /\ file'[f] = r
      /\ \A g \in Files : g # f => file'[g] = file[g]
    BY <1>1
<1>3. \A g \in Files : Ordered(g)'
    BY <1>2 DEF FileInv, Ordered
<1>4. \A t \in TableFile : TableInv(t)'
    BY <1>2 DEF FileInv, TableInv
<1>5. \A t \in TableFile : Complete(t) => Complete(t)'
    BY <1>2 DEF Complete
<1>6. \A i \in 1..Len(records.list) : records.list[i] \in TableFile /\ Complete(records.list[i])
    BY <1>1 DEF FileInv
<1>7. \A i \in 1..Len(records.list) : Complete(records.list[i])'
    BY <1>5, <1>6
<1>8. /\ file'["MANIFEST"].buffered = file["MANIFEST"].buffered
      /\ file'["MANIFEST"].stable >= file["MANIFEST"].stable
    <2>1. CASE f = "MANIFEST"
        BY <1>2, <2>1
    <2>2. CASE f # "MANIFEST"
        BY <1>1, <1>2, <2>2 DEF FileState
    <2> QED BY <2>1, <2>2
<1>9. records.acked <= file'["MANIFEST"].stable
    BY <1>1, <1>2, <1>8 DEF FileInv, FileState
<1>10. \A i \in 1..records.acked : i \in 1..Len(records.list)
    BY <1>1 DEF FileInv, FileState, Ordered
<1>11. \A i \in 1..records.acked : file'[records.list[i]].named
    BY <1>1, <1>2, <1>6, <1>10 DEF FileInv
<1>12. FileTypeOK' /\ file'["MANIFEST"].buffered = Len(records.list)
    BY <1>1, <1>2, <1>8 DEF FileInv, FileTypeOK
<1> QED BY <1>3, <1>4, <1>7, <1>9, <1>11, <1>12 DEF FileInv

\* An error of a file that is open.
LEMMA OpenFileFails ==
    ASSUME FileInv, NEW f \in TableFile, file[f].open,
           file' = [file EXCEPT ![f].ok = FALSE], UNCHANGED records
    PROVE  FileInv'
<1> DEFINE r == [file[f] EXCEPT !.ok = FALSE]
<1>1. file[f] \in FileState /\ Ordered(f) /\ TableInv(f) /\ f # "MANIFEST"
    BY DEF FileInv, FileTypeOK
<1>2. file' = [file EXCEPT ![f] = r]
    OBVIOUS
<1>3. /\ r \in FileState /\ r.made = file[f].made /\ r.open /\ r.named = file[f].named
      /\ r.buffered = file[f].buffered /\ r.written = file[f].written /\ r.stable = file[f].stable
    <2>1. r \in FileState
        BY <1>1 DEF FileState
    <2>2. /\ r.made = file[f].made /\ r.open /\ r.named = file[f].named
          /\ r.buffered = file[f].buffered /\ r.written = file[f].written
          /\ r.stable = file[f].stable
        BY <1>1 DEF FileState
    <2> QED BY <2>1, <2>2
<1> HIDE DEF r
<1>4. /\ file[f].stable <= r.stable /\ r.stable <= r.written /\ r.written <= r.buffered
      /\ r.buffered <= TableSize /\ r.made
    BY <1>1, <1>3 DEF FileState, Ordered, TableInv, TableSize
<1> QED BY <1>1, <1>2, <1>3, <1>4, OneFile DEF Complete

\* A record lists a table that is complete.
LEMMA ManifestGrows ==
    ASSUME FileInv, NEW t \in TableFile, AddManifestRecord(t)
    PROVE  FileInv'
<1> DEFINE M == "MANIFEST"
           Files == TableFile \cup {M}
           r == [file[M] EXCEPT !.buffered = @ + 1, !.written = file[M].buffered + 1]
<1>1. /\ file \in [Files -> FileState] /\ M \in Files /\ M \notin TableFile
      /\ records \in [list : Seq(TableFile), acked : Nat]
    BY DEF FileInv, FileTypeOK
<1>2. /\ file' = [file EXCEPT ![M] = r]
      /\ records' = [records EXCEPT !.list = Append(records.list, t)]
      /\ file[t].made /\ ~file[t].open /\ file[t].ok
    BY DEF AddManifestRecord
<1>3. /\ r \in FileState /\ r.made = file[M].made /\ r.open = file[M].open
      /\ r.buffered = file[M].buffered + 1 /\ r.written = file[M].buffered + 1
      /\ r.stable = file[M].stable
    <2>1. file[M] \in FileState
        BY <1>1
    <2>2. r \in FileState
        <3>1. PICK n \in Nat : n = file[M].buffered + 1
            BY <2>1 DEF FileState
        <3>2. r = [file[M] EXCEPT !.buffered = n, !.written = n]
            BY <3>1
        <3> HIDE DEF r
        <3> QED BY <2>1, <3>2 DEF FileState
    <2>3. /\ r.made = file[M].made /\ r.open = file[M].open
          /\ r.buffered = file[M].buffered + 1 /\ r.written = file[M].buffered + 1
          /\ r.stable = file[M].stable
        BY <2>1 DEF FileState
    <2> QED BY <2>2, <2>3
<1> HIDE DEF r
<1>4. /\ file' \in [Files -> FileState] /\ file'[M] = r
      /\ \A u \in TableFile : file'[u] = file[u]
    BY <1>1, <1>2, <1>3
<1>5. /\ records' \in [list : Seq(TableFile), acked : Nat] /\ records'.acked = records.acked
      /\ records'.list = Append(records.list, t)
      /\ records.list \in Seq(TableFile)
    <2>1. records.list \in Seq(TableFile)
        BY <1>1
    <2>2. Append(records.list, t) \in Seq(TableFile)
        BY <2>1
    <2>3. records'.acked = records.acked /\ records'.list = Append(records.list, t)
        BY <1>1, <1>2
    <2>4. records' \in [list : Seq(TableFile), acked : Nat]
        BY <1>1, <1>2, <2>2
    <2> QED BY <2>1, <2>3, <2>4
<1>6. /\ Len(records'.list) = Len(records.list) + 1
      /\ \A i \in 1..Len(records.list) : records'.list[i] = records.list[i]
      /\ records'.list[Len(records.list) + 1] = t
    BY <1>5
<1>7. /\ \A u \in TableFile : Ordered(u)' /\ TableInv(u)' /\ (Complete(u) => Complete(u)')
      /\ Complete(t)
    BY <1>2, <1>4 DEF FileInv, Ordered, TableInv, Complete
<1>8. Ordered(M)'
    <2>1. Ordered(M)
        BY <1>1 DEF FileInv
    <2> QED BY <1>1, <1>3, <1>4, <2>1 DEF Ordered, FileState
<1>9. /\ file'[M].buffered = Len(records'.list)
      /\ records'.acked <= file'[M].stable
    BY <1>3, <1>4, <1>5, <1>6 DEF FileInv
<1>10. \A i \in 1..Len(records.list) : records.list[i] \in TableFile /\ Complete(records.list[i])
    BY <1>5 DEF FileInv
<1>11. (\A i \in 1..Len(records.list) : Complete(records.list[i]))'
    <2> DEFINE Whole(u) == file'[u].made /\ ~file'[u].open /\ file'[u].stable = TableSize
    <2>1. SUFFICES ASSUME NEW i \in 1..Len(records'.list) PROVE Whole(records'.list[i])
        BY DEF Complete
    <2>2. CASE i = Len(records.list) + 1
        <3>1. records'.list[i] = t
            BY <1>6, <2>2
        <3>2. Whole(t)
            BY <1>4, <1>7 DEF Complete
        <3> QED BY <3>1, <3>2
    <2>3. CASE i \in 1..Len(records.list)
        <3>1. records'.list[i] = records.list[i] /\ records.list[i] \in TableFile
            BY <1>6, <1>10, <2>3
        <3>2. file'[records.list[i]] = file[records.list[i]] /\ Complete(records.list[i])
            BY <1>4, <1>10, <2>3, <3>1
        <3>3. Whole(records.list[i])
            BY <3>2 DEF Complete
        <3> QED BY <3>1, <3>3
    <2> QED BY <1>5, <1>6, <2>2, <2>3
<1>12. (\A i \in 1..records.acked : file[records.list[i]].named)'
    <2>1. \A i \in 1..records.acked : i \in 1..Len(records.list)
        BY <1>1 DEF FileInv, FileState, Ordered
    <2>2. \A i \in 1..records.acked : file[records.list[i]].named
        BY DEF FileInv
    <2> QED BY <1>4, <1>5, <1>6, <1>10, <2>1, <2>2
<1>13. FileTypeOK'
    BY <1>4, <1>5 DEF FileTypeOK
<1>14. \A f \in Files : Ordered(f)'
    BY <1>7, <1>8
<1> QED BY <1>7, <1>9, <1>11, <1>12, <1>13, <1>14 DEF FileInv

\* Sync of the manifest syncs the directory first, and leaves the data and the state
\* of the tables.
LEMMA ManifestStep ==
    ASSUME FileInv, SyncFile("MANIFEST")
    PROVE  FileInv'
<1> DEFINE M == "MANIFEST"
<1>1. /\ DOMAIN file = TableFile \cup {M} /\ file[M] \in FileState
      /\ \A t \in TableFile : file[t] \in FileState
      /\ records \in [list : Seq(TableFile), acked : Nat]
      /\ M \notin TableFile
    BY DEF FileInv, FileTypeOK
<1> DEFINE named == SyncDirIfManifest(file, M)
<1>2. /\ named \in [TableFile \cup {M} -> FileState]
      /\ \A g \in TableFile \cup {M} : named[g] = [file[g] EXCEPT !.named = file[g].made]
    BY <1>1 DEF SyncDirIfManifest, FileState
<1>3. \A g \in TableFile \cup {M} :
        /\ named[g].made = file[g].made /\ named[g].open = file[g].open /\ named[g].ok = file[g].ok
        /\ named[g].buffered = file[g].buffered /\ named[g].written = file[g].written
        /\ named[g].stable = file[g].stable /\ named[g].named = file[g].made
    <2> TAKE g \in TableFile \cup {M}
    <2>1. file[g] \in FileState /\ named[g] = [file[g] EXCEPT !.named = file[g].made]
        BY <1>1, <1>2
    <2>2. /\ named[g].made = file[g].made /\ named[g].open = file[g].open
          /\ named[g].ok = file[g].ok /\ named[g].buffered = file[g].buffered
          /\ named[g].written = file[g].written /\ named[g].stable = file[g].stable
        BY <2>1 DEF FileState
    <2>3. named[g].named = file[g].made
        BY <2>1, Zenon DEF FileState
    <2> QED BY <2>2, <2>3
<1>4. PICK done \in {file, named} :
        /\ done \in [TableFile \cup {M} -> FileState]
        /\ \/ /\ done = named
              /\ file' = [done EXCEPT ![M].written = done[M].buffered, ![M].stable = done[M].buffered]
              /\ records' = [records EXCEPT !.acked = Len(records.list)]
           \/ /\ file' = [done EXCEPT ![M].ok = FALSE]
              /\ UNCHANGED records
    BY <1>1, <1>2 DEF SyncFile, SyncData, FileInv, FileTypeOK
<1>5. \A t \in TableFile : file'[t] = done[t]
    BY <1>1, <1>4
<1>6. \A t \in TableFile :
        /\ Ordered(t)' /\ TableInv(t)' /\ (Complete(t) => Complete(t)')
        /\ Complete(t) /\ file[t].named => file'[t].named
        /\ Complete(t) /\ done = named => file'[t].named
    BY SMTT(20), <1>1, <1>3, <1>4, <1>5 DEF FileInv, Ordered, TableInv, Complete
<1>7. /\ file' \in [TableFile \cup {M} -> FileState] /\ Ordered(M)'
      /\ file'[M].buffered = file[M].buffered
    <2>1. /\ done[M] \in FileState /\ done[M].buffered = file[M].buffered
          /\ done[M].made = file[M].made /\ done[M].open = file[M].open
          /\ done[M].written = file[M].written /\ done[M].stable = file[M].stable
          /\ Ordered(M)
        BY <1>1, <1>3, <1>4 DEF FileInv
    <2>2. CASE file' = [done EXCEPT ![M].written = done[M].buffered, ![M].stable = done[M].buffered]
        <3> DEFINE r == [done[M] EXCEPT !.written = done[M].buffered, !.stable = done[M].buffered]
        <3>1. file' = [done EXCEPT ![M] = r]
            BY <2>2
        <3>2. r \in FileState
            BY <2>1 DEF FileState
        <3>3. /\ r.made = done[M].made /\ r.open = done[M].open /\ r.buffered = done[M].buffered
              /\ r.written = done[M].buffered /\ r.stable = done[M].buffered
            BY <2>1 DEF FileState
        <3> HIDE DEF r
        <3>4. file' \in [TableFile \cup {M} -> FileState] /\ file'[M] = r
            BY <1>4, <3>1, <3>2
        <3> QED BY <2>1, <3>2, <3>3, <3>4 DEF Ordered, FileState
    <2>3. CASE file' = [done EXCEPT ![M].ok = FALSE]
        <3> DEFINE r == [done[M] EXCEPT !.ok = FALSE]
        <3>1. file' = [done EXCEPT ![M] = r]
            BY <2>3
        <3>2. r \in FileState
            BY <2>1 DEF FileState
        <3>3. /\ r.made = done[M].made /\ r.open = done[M].open /\ r.buffered = done[M].buffered
              /\ r.written = done[M].written /\ r.stable = done[M].stable
            BY <2>1 DEF FileState
        <3> HIDE DEF r
        <3>4. file' \in [TableFile \cup {M} -> FileState] /\ file'[M] = r
            BY <1>4, <3>1, <3>2
        <3> QED BY <2>1, <3>2, <3>3, <3>4 DEF Ordered, FileState
    <2> QED BY <1>4, <2>2, <2>3
<1>8. /\ records' \in [list : Seq(TableFile), acked : Nat] /\ records'.list = records.list
      /\ \/ records'.acked = records.acked /\ file'[M].stable = file[M].stable
         \/ /\ records'.acked = Len(records.list) /\ file'[M].stable = file[M].buffered
            /\ done = named
    BY <1>1, <1>3, <1>4 DEF FileState
<1>9. \A i \in 1..Len(records.list) : records.list[i] \in TableFile /\ Complete(records.list[i])
    BY <1>1 DEF FileInv
<1>10. /\ records'.acked <= file'[M].stable
       /\ \A i \in 1..records'.acked : file'[records.list[i]].named
    <2>1. records.acked <= Len(records.list)
        BY <1>1 DEF FileInv, Ordered, FileState
    <2> QED BY <1>1, <1>6, <1>8, <1>9, <2>1 DEF FileInv
<1> QED BY <1>6, <1>7, <1>8, <1>9, <1>10 DEF FileInv, FileTypeOK

LEMMA FileStep ==
    ASSUME FileInv, [FileNext]_fileVars
    PROVE  FileInv'
<1> DEFINE Files == TableFile \cup {"MANIFEST"}
<1>0. /\ DOMAIN file = Files
      /\ \A f \in Files : file[f] \in FileState /\ Ordered(f)
      /\ \A t \in TableFile : TableInv(t)
      /\ file \in [Files -> FileState]
      /\ records \in [list : Seq(TableFile), acked : Nat]
    BY DEF FileInv, FileTypeOK
<1>1. ASSUME NEW f \in Files, NewWritableFile(f) PROVE FileInv'
    <2> DEFINE r == [file[f] EXCEPT !.made = TRUE, !.open = TRUE]
    <2>1. file' = [file EXCEPT ![f] = r] /\ UNCHANGED records /\ ~file[f].made
        BY <1>1 DEF NewWritableFile
    <2>2. /\ r \in FileState /\ r.made /\ r.open /\ r.named = file[f].named
          /\ r.buffered = file[f].buffered /\ r.written = file[f].written /\ r.stable = file[f].stable
        <3>1. r \in FileState
            BY <1>0 DEF FileState
        <3>2. r.made /\ r.open
            BY <1>0 DEF FileState
        <3>3. /\ r.named = file[f].named /\ r.buffered = file[f].buffered
              /\ r.written = file[f].written /\ r.stable = file[f].stable
            BY <1>0 DEF FileState
        <3> QED BY <3>1, <3>2, <3>3
    <2> HIDE DEF r
    <2>3. /\ r.stable <= r.written /\ r.written <= r.buffered /\ r.stable = file[f].stable
          /\ f \in TableFile => r.buffered <= TableSize
          /\ f \in TableFile => ~Complete(f)
        BY <1>0, <2>1, <2>2 DEF Ordered, TableInv, Complete
    <2>4. file[f].stable <= r.stable
        BY <1>0, <2>3 DEF FileState
    <2> QED BY <2>1, <2>2, <2>3, <2>4, OneFile
<1>2. ASSUME NEW f \in Files, AppendData(f) PROVE FileInv'
    <2>1. /\ f \in TableFile /\ file[f].open /\ file[f].buffered < TableSize
          /\ UNCHANGED records
        BY <1>2 DEF AppendData
    <2>2. CASE file' = [file EXCEPT ![f].buffered = @ + 1]
        <3> DEFINE r == [file[f] EXCEPT !.buffered = @ + 1]
        <3>1. file' = [file EXCEPT ![f] = r]
            BY <2>2
        <3>2. /\ r \in FileState /\ r.made = file[f].made /\ r.open /\ r.named = file[f].named
              /\ r.buffered = file[f].buffered + 1
              /\ r.written = file[f].written /\ r.stable = file[f].stable
            <4>1. file[f] \in FileState
                BY <1>0
            <4>2. r \in FileState
                BY <4>1 DEF FileState
            <4>3. /\ r.made = file[f].made /\ r.open /\ r.named = file[f].named
                  /\ r.buffered = file[f].buffered + 1
                  /\ r.written = file[f].written /\ r.stable = file[f].stable
                BY <2>1, <4>1 DEF FileState
            <4> QED BY <4>2, <4>3
        <3> HIDE DEF r
        <3>3. /\ file[f].stable <= r.stable /\ r.stable <= r.written /\ r.written <= r.buffered
              /\ r.buffered <= TableSize /\ r.made
            BY <1>0, <2>1, <3>2 DEF FileState, Ordered, TableInv, TableSize
        <3> QED BY <2>1, <3>1, <3>2, <3>3, OneFile DEF Complete
    <2>3. CASE file' = [file EXCEPT ![f].ok = FALSE]
        BY <1>0, <2>1, <2>3, OpenFileFails
    <2> QED BY <1>2, <2>2, <2>3 DEF AppendData
<1>3. ASSUME NEW t \in TableFile, SyncFile(t) PROVE FileInv'
    <2>1. t # "MANIFEST" /\ file[t].open
        BY <1>3 DEF SyncFile
    <2>2. CASE file' = SyncData(file, t) /\ UNCHANGED records
        <3> DEFINE r == [file[t] EXCEPT !.written = file[t].buffered, !.stable = file[t].buffered]
        <3>1. file' = [file EXCEPT ![t] = r]
            BY <2>2 DEF SyncData
        <3>2. /\ r \in FileState /\ r.made = file[t].made /\ r.open /\ r.named = file[t].named
              /\ r.buffered = file[t].buffered
              /\ r.written = file[t].buffered /\ r.stable = file[t].buffered
            BY <1>0, <2>1 DEF FileState
        <3> HIDE DEF r
        <3>3. /\ file[t].stable <= r.stable /\ r.stable <= r.written /\ r.written <= r.buffered
              /\ r.buffered <= TableSize /\ r.made
            BY <1>0, <2>1, <3>2 DEF FileState, Ordered, TableInv, TableSize
        <3> QED BY <2>1, <2>2, <3>1, <3>2, <3>3, OneFile DEF Complete
    <2>3. CASE file' = [file EXCEPT ![t].ok = FALSE] /\ UNCHANGED records
        BY <1>0, <2>1, <2>3, OpenFileFails
    <2> QED BY <1>3, <2>1, <2>2, <2>3 DEF SyncFile, SyncDirIfManifest
<1>4. ASSUME NEW f \in Files, WriteBack(f) PROVE FileInv'
    <2>1. UNCHANGED records
        BY <1>4 DEF WriteBack
    <2>2. CASE file' = [file EXCEPT ![f].named = TRUE]
        <3> DEFINE r == [file[f] EXCEPT !.named = TRUE]
        <3>1. file' = [file EXCEPT ![f] = r]
            BY <2>2
        <3>2. /\ r \in FileState /\ r.made = file[f].made /\ r.open = file[f].open /\ r.ok = file[f].ok
              /\ r.named
              /\ r.buffered = file[f].buffered /\ r.written = file[f].written /\ r.stable = file[f].stable
            BY <1>0 DEF FileState
        <3> HIDE DEF r
        <3>3. /\ file[f].stable <= r.stable /\ r.stable <= r.written /\ r.written <= r.buffered
              /\ f \in TableFile => r.buffered <= TableSize
              /\ f \in TableFile => (r.made /\ ~r.open /\ r.ok => r.stable = TableSize)
              /\ ~r.made => ~r.open
            BY <1>0, <3>2 DEF FileState, Ordered, TableInv
        <3> QED BY <2>1, <3>1, <3>2, <3>3, OneFile DEF Complete
    <2>3. CASE file' = [file EXCEPT ![f].stable = @ + 1] /\ file[f].stable < file[f].written
        <3> DEFINE r == [file[f] EXCEPT !.stable = @ + 1]
        <3>1. file' = [file EXCEPT ![f] = r]
            BY <2>3
        <3>2. /\ r \in FileState /\ r.made = file[f].made /\ r.open = file[f].open /\ r.ok = file[f].ok
              /\ r.named = file[f].named
              /\ r.buffered = file[f].buffered /\ r.written = file[f].written
              /\ r.stable = file[f].stable + 1
            <4>1. file[f] \in FileState
                BY <1>0
            <4>2. r \in FileState
                BY <4>1 DEF FileState
            <4>3. /\ r.made = file[f].made /\ r.open = file[f].open /\ r.ok = file[f].ok
                  /\ r.named = file[f].named
                  /\ r.buffered = file[f].buffered /\ r.written = file[f].written
                  /\ r.stable = file[f].stable + 1
                BY <4>1 DEF FileState
            <4> QED BY <4>2, <4>3
        <3> HIDE DEF r
        <3>3. f \in TableFile => file[f].stable < TableSize
            BY <1>0, <2>3 DEF FileState, Ordered, TableInv, TableSize
        <3>4. /\ file[f].stable <= r.stable /\ r.stable <= r.written /\ r.written <= r.buffered
              /\ f \in TableFile => r.buffered <= TableSize
              /\ f \in TableFile => (r.made /\ ~r.open /\ r.ok => r.stable = TableSize)
              /\ f \in TableFile => ~Complete(f)
              /\ ~r.made => ~r.open
            BY <1>0, <2>3, <3>2, <3>3 DEF FileState, Ordered, TableInv, TableSize, Complete
        <3> QED BY <2>1, <3>1, <3>2, <3>4, OneFile
    <2> QED BY <1>4, <2>2, <2>3 DEF WriteBack
<1>5. ASSUME NEW t \in TableFile, AddManifestRecord(t) PROVE FileInv'
    BY <1>5, ManifestGrows
<1>6. ASSUME NEW t \in TableFile, CloseFile(t) PROVE FileInv'
    <2>1. PICK ok \in BOOLEAN : file' = [file EXCEPT ![t].open = FALSE, ![t].ok = ok]
        BY <1>6 DEF CloseFile
    <2> DEFINE r == [file[t] EXCEPT !.open = FALSE, !.ok = ok]
    <2>2. file' = [file EXCEPT ![t] = r] /\ file[t].stable = TableSize /\ UNCHANGED records
        BY <1>6, <2>1 DEF CloseFile
    <2>3. /\ r \in FileState /\ r.made = file[t].made /\ ~r.open /\ r.named = file[t].named
          /\ r.buffered = file[t].buffered /\ r.written = file[t].written /\ r.stable = file[t].stable
        BY <1>0 DEF FileState
    <2> HIDE DEF r
    <2>4. /\ file[t].stable <= r.stable /\ r.stable <= r.written /\ r.written <= r.buffered
          /\ r.buffered <= TableSize /\ r.stable = TableSize
        BY <1>0, <2>2, <2>3 DEF FileState, Ordered, TableInv
    <2> QED BY <1>0, <2>2, <2>3, <2>4, OneFile DEF Complete
<1>7. CASE UNCHANGED fileVars
    BY <1>7 DEF fileVars, FileInv, FileTypeOK, Ordered, TableInv, Complete
<1>8. ASSUME SyncFile("MANIFEST") PROVE FileInv'
    BY <1>8, ManifestStep
<1> QED BY <1>0, <1>1, <1>2, <1>3, <1>4, <1>5, <1>6, <1>7, <1>8 DEF FileNext

-----------------------------------------------------------------------------
LEMMA EnvInitially == EnvInit => LimiterInv /\ QueueInv /\ LockInv /\ FileInv
<1> SUFFICES ASSUME EnvInit PROVE LimiterInv /\ QueueInv /\ LockInv /\ FileInv
    OBVIOUS
<1> USE DEF EnvInit
<1>1. With({"map", "mapped"}) = 0 /\ With({"kept"}) = 0
    <2>1. {t \in EnvThread : opening[t] \in {"map", "mapped"}} = {}
        OBVIOUS
    <2>2. {t \in EnvThread : opening[t] \in {"kept"}} = {}
        OBVIOUS
    <2> QED BY <2>1, <2>2, FS_EmptySet DEF With
<1>2. LimiterInv
    BY <1>1 DEF LimiterInv, LimitsKept, Openings
<1>3. QueueInv
    BY DEF QueueInv, NoLostWakeup, Scheduled
<1>4. LockInv
    BY DEF LockInv, Inserted
<1>5. FileInv
    BY DEF FileInv, FileTypeOK, FileState, Ordered, TableInv, Complete, TableSize
<1> QED BY <1>2, <1>3, <1>4, <1>5

\* The limits on mapped and open tables are kept and no slot is lost, no scheduled
\* work is forgotten and it runs in order, two threads of a process never hold the
\* lock together, and what Sync acknowledged for the manifest survives.
THEOREM PromisesKept == EnvSpec => []EnvKeepsPromises
<1> DEFINE I == LimiterInv /\ QueueInv /\ LockInv /\ FileInv
<1>1. EnvInit => I
    BY EnvInitially
<1>2. I /\ [EnvNext]_envVars => I'
    BY LimiterStep, QueueStep, LockStep, FileStep
    DEF EnvNext, envVars, limiterVars, queueVars, lockVars, fileVars
<1>3. I => EnvKeepsPromises
    <2>1. LockInv => LockExcludesThreads
        BY DEF LockInv, Inserted, LockExcludesThreads
    <2>2. FileInv => SyncedTablesSurvive
        <3>1. ASSUME FileInv PROVE \A i \in 1..records.acked : i \in 1..Len(records.list)
            BY <3>1 DEF FileInv, FileTypeOK, FileState, Ordered
        <3> QED BY <3>1 DEF FileInv, Complete, SyncedTablesSurvive
    <2> QED BY <2>1, <2>2 DEF LimiterInv, QueueInv, EnvKeepsPromises
<1> HIDE DEF I
<1> QED BY <1>1, <1>2, <1>3, PTL DEF EnvSpec
=============================================================================

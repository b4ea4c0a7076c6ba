------------------------------ MODULE PosixEnv ------------------------------
(***************************************************************************)
(* What leveldb asks of the system (util/env_posix.cc): the limits on        *)
(* mapped and open tables, the queue of the background thread, the lock      *)
(* file, and the writable files with what of them is on the disk.  The four  *)
(* parts share nothing: each has its own next-state relation.                *)
(***************************************************************************)
EXTENDS Integers, Sequences, FiniteSets

CONSTANTS
    EnvThread,          \* threads that open tables
    mmap_limit, open_read_only_file_limit,
    MaxScheduled,       \* bound on the calls of Schedule
    Process,
    LockCaller,         \* threads that lock the database, and
    ProcessOf,          \* the process of each
    NoProcess,
    TableFile           \* files a manifest lists

ASSUME EnvBounds ==
    /\ {mmap_limit, open_read_only_file_limit, MaxScheduled} \subseteq Nat
    /\ ProcessOf \in [LockCaller -> Process] /\ NoProcess \notin Process
    /\ IsFiniteSet(EnvThread) /\ "MANIFEST" \notin TableFile

VARIABLES
    allowed,            \* allowed_ of the two Limiters
    opening,            \* what each thread does with a random-access file
    queue,              \* queue_
    bgthread,           \* where BGThread is
    ran,                \* the items it has taken, in order
    locked_files,       \* the processes whose lock table has the file
    owner,              \* the process the kernel gave the lock to
    locker,             \* where LockFile and UnlockFile are
    file,               \* the writable files
    records             \* records of the manifest, and how many Sync acknowledged

limiterVars == <<allowed, opening>>
queueVars == <<queue, bgthread, ran>>
lockVars == <<locked_files, owner, locker>>
fileVars == <<file, records>>
envVars == <<limiterVars, queueVars, lockVars, fileVars>>

EnvInit ==
    /\ allowed = [mmap |-> mmap_limit, fd |-> open_read_only_file_limit]
    /\ opening = [t \in EnvThread |-> "idle"]
    /\ queue = <<>> /\ bgthread = "none" /\ ran = <<>>
    /\ locked_files = {} /\ owner = NoProcess /\ locker = [c \in LockCaller |-> "idle"]
    /\ file = [f \in TableFile \cup {"MANIFEST"} |->
                 [made |-> FALSE, named |-> FALSE, open |-> FALSE, ok |-> TRUE,
                  buffered |-> 0, written |-> 0, stable |-> 0]]
    /\ records = [list |-> <<>>, acked |-> 0]

-----------------------------------------------------------------------------
(* Limiter, PosixRandomAccessFile and PosixMmapReadableFile.  A thread looks   *)
(* at allowed_ without the mutex before it takes the mutex.                    *)
Looking == [mmap |-> "mmap?", fd |-> "fd?"]
Taking == [mmap |-> "mmap+", fd |-> "fd+"]
At(t, pc, next) == opening[t] = pc /\ opening' = [opening EXCEPT ![t] = next]

OpenFile(t) == At(t, "idle", "mmap?") /\ UNCHANGED allowed

\* If the first look finds nothing the Limiter is not locked.
Look(t, kind, otherwise) ==
    /\ At(t, Looking[kind], IF allowed[kind] <= 0 THEN otherwise ELSE Taking[kind])
    /\ UNCHANGED allowed

\* Without the second look.
AcquireUnchecked(t, kind, next, otherwise) ==
    /\ At(t, Taking[kind], next)
    /\ allowed' = [allowed EXCEPT ![kind] = @ - 1]

Acquire(t, kind, next, otherwise) ==
    /\ At(t, Taking[kind], IF allowed[kind] <= 0 THEN otherwise ELSE next)
    /\ allowed' = [allowed EXCEPT ![kind] = IF @ <= 0 THEN @ ELSE @ - 1]

Release(t, kind, pc) ==
    /\ At(t, pc, "idle")
    /\ allowed' = [allowed EXCEPT ![kind] = @ + 1]

MapFile(t) == At(t, "map", "mapped") /\ UNCHANGED allowed
CloseTemporary(t) == At(t, "temporary", "idle") /\ UNCHANGED allowed

LimiterNext ==
    \E t \in EnvThread :
      \/ OpenFile(t)
      \/ Look(t, "mmap", "fd?")
      \/ Acquire(t, "mmap", "map", "fd?")
      \/ MapFile(t)
      \/ Release(t, "mmap", "map")          \* GetFileSize or mmap failed
      \/ Release(t, "mmap", "mapped")
      \/ Look(t, "fd", "temporary")
      \/ Acquire(t, "fd", "kept", "temporary")
      \/ Release(t, "fd", "kept")
      \/ CloseTemporary(t)

\* However the threads interleave, no more files are mapped or kept open than
\* the limits say, and a slot that was taken is given back, failures included.
With(pcs) == Cardinality({t \in EnvThread : opening[t] \in pcs})
LimitsKept ==
    /\ With({"map", "mapped"}) + allowed.mmap = mmap_limit /\ allowed.mmap >= 0
    /\ With({"kept"}) + allowed.fd = open_read_only_file_limit /\ allowed.fd >= 0

-----------------------------------------------------------------------------
(* Schedule and BGThread.                                                      *)
Scheduled == Len(ran) + Len(queue)

Schedule ==
    /\ Scheduled < MaxScheduled
    /\ bgthread' = CASE bgthread = "none" -> "lock"             \* pthread_create
                     [] bgthread = "wait" /\ queue = <<>> -> "lock"     \* the signal
                     [] OTHER -> bgthread
    /\ queue' = Append(queue, Scheduled + 1)
    /\ UNCHANGED ran

\* With the mutex: take the first item, or wait.
TakeItem ==
    /\ bgthread = "lock"
    /\ IF queue = <<>>
       THEN bgthread' = "wait" /\ UNCHANGED <<queue, ran>>
       ELSE /\ bgthread' = "run"
            /\ ran' = Append(ran, Head(queue))
            /\ queue' = Tail(queue)

ItemDone == bgthread = "run" /\ bgthread' = "lock" /\ UNCHANGED <<queue, ran>>
SpuriousWakeup == bgthread = "wait" /\ bgthread' = "lock" /\ UNCHANGED <<queue, ran>>

QueueNext == Schedule \/ TakeItem \/ ItemDone \/ SpuriousWakeup

\* Work that is scheduled is never left in the queue of a thread that sleeps,
\* although Schedule signals only an empty queue; and it runs in its order.
NoLostWakeup ==
    /\ queue # <<>> => bgthread \in {"lock", "run"}
    /\ ran \o queue = [i \in 1..Scheduled |-> i]

-----------------------------------------------------------------------------
(* LockFile and UnlockFile.  A lock of fcntl belongs to the process, and goes   *)
(* when the process closes any descriptor of the file.                          *)
Step(c, pc, next) == locker[c] = pc /\ locker' = [locker EXCEPT ![c] = next]
Closed(c) == owner' = IF owner = ProcessOf[c] THEN NoProcess ELSE owner

OpenLockFile(c) == Step(c, "idle", "opened") /\ UNCHANGED <<locked_files, owner>>

InsertLock(c) ==
    IF ProcessOf[c] \in locked_files
    THEN /\ Step(c, "opened", "idle")       \* already held by process
         /\ Closed(c)
         /\ UNCHANGED locked_files
    ELSE /\ Step(c, "opened", "inserted")
         /\ locked_files' = locked_files \cup {ProcessOf[c]}
         /\ UNCHANGED owner

LockFcntl(c) ==
    IF owner \in {NoProcess, ProcessOf[c]}
    THEN /\ Step(c, "inserted", "held")
         /\ owner' = ProcessOf[c]
         /\ UNCHANGED locked_files
    ELSE Step(c, "inserted", "refused") /\ UNCHANGED <<locked_files, owner>>

LockRefused(c) ==
    /\ Step(c, "refused", "idle")
    /\ Closed(c)
    /\ locked_files' = locked_files \ {ProcessOf[c]}

UnlockFile(c) ==
    /\ Step(c, "held", "closing")
    /\ owner' = IF owner = ProcessOf[c] THEN NoProcess ELSE owner
    /\ locked_files' = locked_files \ {ProcessOf[c]}

CloseLockFile(c) ==
    /\ Step(c, "closing", "idle")
    /\ Closed(c)
    /\ UNCHANGED locked_files

LockNext ==
    \E c \in LockCaller :
      \/ OpenLockFile(c)
      \/ InsertLock(c)
      \/ LockFcntl(c)
      \/ LockRefused(c)
      \/ UnlockFile(c)
      \/ CloseLockFile(c)

\* "Used to prevent concurrent access to the same db by multiple processes."
LockExcludesProcesses ==
    \A c, d \in LockCaller : locker[c] = "held" /\ locker[d] = "held" => c = d

\* Within a process the lock table is enough.
LockExcludesThreads ==
    \A c, d \in LockCaller :
      (ProcessOf[c] = ProcessOf[d] /\ locker[c] = "held" /\ locker[d] = "held") => c = d

-----------------------------------------------------------------------------
(* PosixWritableFile, with the kernel and the disk under it: data are in the   *)
(* buffer of the FILE, in the kernel, or stable; a name is in the directory    *)
(* on the disk or not.  The writer of a manifest record has synced and closed  *)
(* the table the record lists (BuildTable, FinishCompactionOutputFile).        *)
TableSize == 2

NewWritableFile(f) ==
    /\ ~file[f].made
    /\ file' = [file EXCEPT ![f].made = TRUE, ![f].open = TRUE]
    /\ UNCHANGED records

AppendData(f) ==
    /\ file[f].open /\ file[f].ok
    /\ f \in TableFile /\ file[f].buffered < TableSize
    /\ \E ok \in BOOLEAN :              \* a short write is an error
         file' = IF ok THEN [file EXCEPT ![f].buffered = @ + 1]
                 ELSE [file EXCEPT ![f].ok = FALSE]
    /\ UNCHANGED records

\* log::Writer::AddRecord appends and flushes.
AddManifestRecord(t) ==
    LET f == "MANIFEST" IN
    /\ file[f].open /\ file[f].ok
    /\ file[t].made /\ ~file[t].open /\ file[t].ok
    /\ t \notin {records.list[i] : i \in DOMAIN records.list}
    /\ records' = [records EXCEPT !.list = Append(@, t)]
    /\ file' = [file EXCEPT ![f].buffered = @ + 1, ![f].written = file[f].buffered + 1]

\* The steps of Sync, up to the one that fails.
SyncDirIfManifest(fs, f) ==
    IF f = "MANIFEST" THEN [g \in DOMAIN fs |-> [fs[g] EXCEPT !.named = fs[g].made]] ELSE fs

SyncData(fs, f) == [fs EXCEPT ![f].written = fs[f].buffered, ![f].stable = fs[f].buffered]

SyncFile(f) ==
    /\ file[f].open /\ file[f].ok
    /\ f \in TableFile => file[f].buffered = TableSize
    /\ \/ /\ file' = SyncData(SyncDirIfManifest(file, f), f)
          /\ records' = IF f = "MANIFEST" THEN [records EXCEPT !.acked = Len(records.list)] ELSE records
       \/ \E done \in {file, SyncDirIfManifest(file, f)} :
            /\ file' = [done EXCEPT ![f].ok = FALSE]
            /\ UNCHANGED records

\* The caller closes a table it has synced; an error here is an error of the table.
CloseFile(t) ==
    /\ file[t].open /\ file[t].ok /\ file[t].stable = TableSize
    /\ \E ok \in BOOLEAN : file' = [file EXCEPT ![t].open = FALSE, ![t].ok = ok]
    /\ UNCHANGED records

\* The kernel writes pages and directories when it likes.
WriteBack(f) ==
    /\ file[f].made
    /\ \/ ~file[f].named /\ file' = [file EXCEPT ![f].named = TRUE]
       \/ file[f].stable < file[f].written /\ file' = [file EXCEPT ![f].stable = @ + 1]
    /\ UNCHANGED records

FileNext ==
    \/ \E f \in DOMAIN file :
         NewWritableFile(f) \/ AppendData(f) \/ SyncFile(f) \/ WriteBack(f)
    \/ \E t \in TableFile : AddManifestRecord(t) \/ CloseFile(t)

\* What a manifest record says that Sync has acknowledged, a loss of power keeps:
\* the record, the name of the table and all of its data.
SyncedTablesSurvive ==
    /\ file["MANIFEST"].stable >= records.acked
    /\ \A i \in 1..records.acked :
         file[records.list[i]].named /\ file[records.list[i]].stable = TableSize

-----------------------------------------------------------------------------
(* All of it.                                                                  *)
EnvNext ==
    \/ LimiterNext /\ UNCHANGED <<queueVars, lockVars, fileVars>>
    \/ QueueNext /\ UNCHANGED <<limiterVars, lockVars, fileVars>>
    \/ LockNext /\ UNCHANGED <<limiterVars, queueVars, fileVars>>
    \/ FileNext /\ UNCHANGED <<limiterVars, queueVars, lockVars>>

EnvSpec == EnvInit /\ [][EnvNext]_envVars

\* What the database relies on.
EnvKeepsPromises == LimitsKept /\ NoLostWakeup /\ LockExcludesThreads /\ SyncedTablesSurvive
=============================================================================

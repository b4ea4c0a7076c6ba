------------------------------- MODULE DBImpl -------------------------------
(***************************************************************************)
(* A leveldb database (db/db_impl.cc) and the files it lives in: the queue *)
(* of writers and their groups, the log and the two memtables, readers and *)
(* snapshots, the background thread with its flushes, compactions and      *)
(* manifest records, the removal of files, crashes and recovery.           *)
(*                                                                         *)
(* An action is what a thread does from one release of mutex_ to the next, *)
(* or one step it takes without it.  A crash is a loss of power: a log     *)
(* keeps what was synced and any further prefix, the manifest its synced   *)
(* records and perhaps the one being written.  Closing the database is a   *)
(* crash that loses nothing.                                               *)
(***************************************************************************)
EXTENDS VersionSet

CONSTANTS
    Thread,             \* callers of Write
    Reader,             \* callers of Get, and iterators
    Handle,             \* snapshots a client can hold
    Batch,              \* what is written: sequences of [key, type]
    None,
    WriteBufferSize,    \* write_buffer_size, in entries
    GroupLimit,         \* max_size of BuildBatchGroup, in entries
    L0StopWritesTrigger,
    Ranges,             \* of user keys that a client asks to compact: <<lo, hi>>
    MaxSeq,             \* bound on sequence numbers
    Budget,             \* bounds on the steps that Bounded lists,
    TotalBudget         \* and on all of them together

Bounded == {"crash", "append", "sync", "table", "manifest", "force", "manual", "seek",
            "snapshot", "read"}

Operation == [key : UserKey, type : {"value", "deletion"}]

\* Who waits in writers_, and a BatchGroup: None is neither.
Request == [batch : Seq(Operation), sync : BOOLEAN]
Group == [members : Seq(Thread), sync : BOOLEAN, entries : Seq(Entry), left : Nat,
          step : {"log", "sync", "insert"}]

\* What DoCompactionWork is at.
CompactionState == [inputs : Compaction, base : Version, manual : BOOLEAN,
                    todo : Seq(SUBSET Entry), outputs : SUBSET File,
                    step : {"work", "record", "move"}]

\* A full level 0 is due for compaction.
ASSUME Triggers == LevelLimit[0] <= L0StopWritesTrigger

ASSUME NoneIsNothing == None \notin Request /\ None \notin Group /\ None \notin CompactionState

ASSUME Bounds ==
    /\ \A b \in Batch : b \in Seq(Operation) /\ b # <<>>
    /\ {WriteBufferSize, GroupLimit, L0StopWritesTrigger, MaxSeq} \subseteq Nat
    /\ Budget \in [Bounded -> Nat] /\ TotalBudget \in Nat

VARIABLES
    \* the files
    tables,             \* contents of the table files, by number
    logs,               \* records of the log files, by number; how many are synced
    manifest,           \* what a recovery may read in it: one thing unless a record failed
    descriptor,         \* whether the manifest is "whole", ends with a record that may be
                        \* "torn", or is "unreadable", since a record follows a torn one
    edit,               \* the record being written to it
    \* the process
    running,            \* "open", "opening", "down", or "trapped": a NULL dereference
    request,            \* the call of Write each thread is in
    writers,            \* writers_
    group,              \* the group at the head of the queue, once it is built
    mem, imm,           \* mem_ and imm_, as sets of entries
    logfile,            \* logfile_number_
    lastSequence, nextFile, logNumber, current, compactPointer, \* of versions_
    seek,               \* file_to_compact_ of the current version
    snapshots, readers,
    pendingOutputs,
    scheduled,          \* bg_compaction_scheduled_
    manual,             \* manual_compaction_, and its owner
    bgError,
    flush,              \* the number of the table CompactMemTable writes
    compaction,         \* the CompactionState of DoCompactionWork
    \* history
    spent,              \* how much of the budget
    hist,               \* the groups that were made visible and not lost
    synced              \* the ones acknowledged to a writer that asked for sync

\* Frames for UNCHANGED.
disk == <<tables, logs, manifest, descriptor, edit>>
writing == <<request, writers, group>>
memory == <<mem, imm, logfile, lastSequence>>
versions == <<nextFile, logNumber, current, compactPointer, seek>>
reading == <<snapshots, readers>>
background == <<pendingOutputs, scheduled, manual, bgError, flush, compaction>>
history == <<spent, hist, synced>>
vars == <<disk, running, writing, memory, versions, reading, background, history>>

Spend(kind) ==
    /\ spent[kind] < Budget[kind]
    /\ MapThenSumSet(LAMBDA k : spent[k], Bounded) < TotalBudget
    /\ spent' = [spent EXCEPT ![kind] = @ + 1]

-----------------------------------------------------------------------------
Newer(a, b) == IF a > b THEN a ELSE b

\* The files after env_->NewWritableFile, which empties a file that is there.
Written(files, number, content) ==
    [n \in DOMAIN files \cup {number} |-> IF n = number THEN content ELSE files[n]]
EmptyLog == [records |-> <<>>, synced |-> 0]

\* Mutant: the memtable being flushed is not looked at.
LookupPastImm(young, old, version, key, snapshot) ==
    LET inMem == Visible(young, key, snapshot)
    IN IF inMem # NoEntry THEN inMem ELSE VersionGet(version, key, snapshot)

\* DBImpl::Get: the memtables, the older one second, then the files.
Lookup(young, old, version, key, snapshot) ==
    LET inMem == Visible(young, key, snapshot)
        inImm == IF old = None THEN NoEntry ELSE Visible(old, key, snapshot)
    IN IF inMem # NoEntry THEN inMem
       ELSE IF inImm # NoEntry THEN inImm
       ELSE VersionGet(version, key, snapshot)

\* Mutant: a memtable that waits is no work.
NeedsWorkForFiles(old, man, version, hot) ==
    (man # None /\ man.armed) \/ SizeCompaction(version) \/ hot # None

\* MaybeScheduleCompaction, given what it will find.
NeedsWork(old, man, version, hot) ==
    \/ old # None
    \/ man # None /\ man.armed
    \/ SizeCompaction(version)
    \/ hot # None
Scheduled == ~bgError' /\ NeedsWork(imm', manual', current', seek')
MaybeScheduleCompaction == scheduled' = (scheduled \/ Scheduled)

\* Mutant: only the current version holds files.
LiveVersionsCurrentOnly == {current'}

\* AddLiveFiles: the versions somebody holds.
LiveVersions ==
    {current'} \cup {readers[r].version : r \in {x \in Reader : readers[x] # None}}
    \cup (IF compaction' = None THEN {} ELSE {compaction'.base})
Numbers(version) == {f.number : f \in UNION {version[l] : l \in Level}}

\* Mutant: tables being written are not spared.
DeleteObsoleteFilesPending ==
    IF bgError' THEN UNCHANGED <<tables, logs>> ELSE
    /\ LET live == UNION {Numbers(v) : v \in LiveVersions}
       IN tables' = Restrict(tables, live \cap DOMAIN tables)
    /\ logs' = Restrict(logs, {n \in DOMAIN logs : n >= logNumber'})

DeleteObsoleteFiles ==
    IF bgError' THEN UNCHANGED <<tables, logs>> ELSE
    /\ LET live == pendingOutputs' \cup UNION {Numbers(v) : v \in LiveVersions}
       IN tables' = Restrict(tables, live \cap DOMAIN tables)
    /\ logs' = Restrict(logs, {n \in DOMAIN logs : n >= logNumber'})

-----------------------------------------------------------------------------
\* Write: the caller joins the queue.  An empty batch is the NULL of
\* TEST_CompactMemTable.
Write(t, batch, sync) ==
    LET asked == FoldLeft(LAMBDA sum, w : sum + Len(request[w].batch), Len(batch), writers)
    IN /\ running = "open" /\ request[t] = None
       /\ lastSequence + asked <= MaxSeq
       /\ IF batch = <<>> THEN Spend("force") ELSE UNCHANGED spent
       /\ request' = [request EXCEPT ![t] = [batch |-> batch, sync |-> sync]]
       /\ writers' = Append(writers, t)
       /\ UNCHANGED <<disk, running, group, memory, versions, reading, background,
                      hist, synced>>

\* BuildBatchGroup: how many writers go together.
GroupLength ==
    LET first == request[writers[1]]
        Entries(n) == FoldLeft(LAMBDA sum, t : sum + Len(request[t].batch), 0,
                               SubSeq(writers, 1, n))
        Joins(i) == /\ request[writers[i]].sync => first.sync
                    /\ request[writers[i]].batch # <<>> => Entries(i) <= GroupLimit
    IN Max({n \in 1..Len(writers) : \A i \in 2..n : Joins(i)})

\* Numbered from lastSequence + 1.
BatchGroup(n) ==
    LET ops == FlattenSeq([i \in 1..n |-> request[writers[i]].batch])
    IN [members |-> SubSeq(writers, 1, n),
        sync |-> request[writers[1]].sync,
        entries |-> [i \in DOMAIN ops |-> [key |-> ops[i].key, type |-> ops[i].type,
                                           seq |-> lastSequence + i]],
        left |-> Len(ops),      \* entries not in the memtable yet
        step |-> "log"]

\* What history keeps of a group: its entries, and whether an earlier record of
\* the log failed half way.
Torn == <<>>
Done(g) == [entries |-> ToSet(g.entries),
            behind |-> Torn \in ToSet(logs[logfile].records)]

\* Mutant: all return, and only the leader leaves the queue.
ReturnLeader(members) ==
    /\ writers' = Tail(writers)
    /\ request' = [t \in Thread |-> IF t \in ToSet(members) THEN None ELSE request[t]]

\* The writers of a group return, and so does the one that leads it.
Return(members) ==
    /\ writers' = SubSeq(writers, Len(members) + 1, Len(writers))
    /\ request' = [t \in Thread |-> IF t \in ToSet(members) THEN None ELSE request[t]]

\* MakeRoomForWrite: the writer at the head, when it need not wait.
Leader(t) == running = "open" /\ writers # <<>> /\ Head(writers) = t /\ group = None
Full(t) == request[t].batch = <<>> \/ Cardinality(mem) > WriteBufferSize
MaySwitchMemTable == imm = None /\ Cardinality(current[0]) < L0StopWritesTrigger

SwitchMemTable ==
    /\ logs' = Written(logs, nextFile, EmptyLog)
    /\ logfile' = nextFile
    /\ nextFile' = nextFile + 1
    /\ imm' = mem
    /\ mem' = {}
    /\ UNCHANGED <<logNumber, current, compactPointer, seek, manual, bgError>>
    /\ MaybeScheduleCompaction

MakeRoomForWrite(t) ==
    IF Full(t) THEN MaySwitchMemTable /\ SwitchMemTable
    ELSE UNCHANGED <<logs, logfile, mem, imm, versions, scheduled, manual, bgError>>

\* The leader builds its group, or returns if there is nothing to write.
LeadGroup(t) ==
    /\ Leader(t) /\ ~bgError
    /\ MakeRoomForWrite(t)
    /\ IF request[t].batch = <<>>
       THEN Return(<<t>>) /\ UNCHANGED group
       ELSE group' = BatchGroup(GroupLength) /\ UNCHANGED <<request, writers>>
    /\ UNCHANGED <<tables, manifest, descriptor, edit, running, lastSequence, reading,
                   pendingOutputs, flush, compaction, history>>

\* The leader alone fails: after a background error, or for want of a new log.
LeaderFails(t) ==
    /\ Leader(t)
    /\ \/ bgError /\ UNCHANGED spent
       \/ ~bgError /\ Full(t) /\ MaySwitchMemTable /\ Spend("append")
    /\ Return(<<t>>)
    /\ UNCHANGED <<disk, running, group, memory, versions, reading, background, hist, synced>>

\* Mutant: the option sync is forgotten.
AddRecordOnly ==
    /\ group # None /\ group.step = "log"
    /\ logs' = [logs EXCEPT ![logfile].records = Append(@, group.entries)]
    /\ group' = [group EXCEPT !.step = "insert"]
    /\ UNCHANGED <<tables, manifest, descriptor, edit, running, request, writers, memory, versions,
                   reading, background, history>>

\* log_->AddRecord, without the mutex.
AddRecord ==
    /\ group # None /\ group.step = "log"
    /\ logs' = [logs EXCEPT ![logfile].records = Append(@, group.entries)]
    /\ group' = [group EXCEPT !.step = IF group.sync THEN "sync" ELSE "insert"]
    /\ UNCHANGED <<tables, manifest, descriptor, edit, running, request, writers, memory, versions,
                   reading, background, history>>

Sync ==
    /\ group # None /\ group.step = "sync"
    /\ logs' = [logs EXCEPT ![logfile].synced = Len(logs[logfile].records)]
    /\ group' = [group EXCEPT !.step = "insert"]
    /\ UNCHANGED <<tables, manifest, descriptor, edit, running, request, writers, memory, versions,
                   reading, background, history>>

\* A write that fails still uses up its sequence numbers.
GroupFails ==
    /\ lastSequence' = lastSequence + Len(group.entries)
    /\ Return(group.members)
    /\ group' = None
    /\ UNCHANGED <<tables, manifest, descriptor, edit, running, mem, imm, logfile, versions,
                   reading, pendingOutputs, scheduled, manual, flush, compaction, hist, synced>>

\* The record may be complete or torn; the next one follows it.
AddRecordFails ==
    /\ group # None /\ group.step = "log"
    /\ Spend("append")
    /\ \E record \in {group.entries, Torn} :
           logs' = [logs EXCEPT ![logfile].records = Append(@, record)]
    /\ GroupFails /\ UNCHANGED bgError

\* What it was to sync may or may not be there after a crash: no write may follow.
SyncFails ==
    /\ group # None /\ group.step = "sync"
    /\ Spend("sync")
    /\ bgError' = TRUE
    /\ GroupFails /\ UNCHANGED logs

\* InsertInto, one entry after the other; readers share the memtable.
InsertEntry ==
    /\ group # None /\ group.step = "insert" /\ group.left > 0
    /\ LET e == group.entries[Len(group.entries) - group.left + 1]
       IN /\ mem' = mem \cup {e}
          /\ readers' = [r \in Reader |->
                 IF readers[r] # None /\ readers[r].log = logfile
                 THEN [readers[r] EXCEPT !.mem = @ \cup {e}] ELSE readers[r]]
    /\ group' = [group EXCEPT !.left = @ - 1]
    /\ UNCHANGED <<disk, running, request, writers, imm, logfile, lastSequence, versions,
                   snapshots, background, history>>

\* Mutex again: SetLastSequence makes the group visible, and its writers return.
FinishWrite ==
    /\ group # None /\ group.step = "insert" /\ group.left = 0
    /\ lastSequence' = lastSequence + Len(group.entries)
    /\ Return(group.members)
    /\ group' = None
    /\ hist' = hist \cup {Done(group)}
    /\ synced' = IF group.sync THEN synced \cup {Done(group)} ELSE synced
    /\ UNCHANGED <<disk, running, mem, imm, logfile, versions, reading, background, spent>>

-----------------------------------------------------------------------------
GetSnapshot(h) ==
    /\ running = "open" /\ snapshots[h] = None /\ Spend("snapshot")
    /\ snapshots' = [snapshots EXCEPT ![h] = lastSequence]
    /\ UNCHANGED <<disk, running, writing, memory, versions, readers, background, hist, synced>>

ReleaseSnapshot(h) ==
    /\ snapshots[h] # None
    /\ snapshots' = [snapshots EXCEPT ![h] = None]
    /\ UNCHANGED <<disk, running, writing, memory, versions, readers, background, history>>

\* Get and NewIterator: what they read from without the mutex.
BeginRead(r, snapshot) ==
    /\ running = "open" /\ readers[r] = None /\ Spend("read")
    /\ snapshot \in {lastSequence} \cup {snapshots[h] : h \in Handle}
    /\ readers' = [readers EXCEPT ![r] = [snapshot |-> snapshot, log |-> logfile, mem |-> mem,
                                          imm |-> imm, version |-> current]]
    /\ UNCHANGED <<disk, running, writing, memory, versions, snapshots, background, hist, synced>>

\* UpdateStats, RecordReadSample: a read of a key that searched two files may
\* use up the seeks of the first one.
UpdateStats(version, key, snapshot) ==
    LET hit == {l \in Level : Searched(version, l, key, snapshot) # <<>>}
    IN /\ Len(SearchOrder(version, key, snapshot)) >= 2
       /\ seek' = IF seek = None /\ version = current
                  THEN <<Min(hit), Searched(version, Min(hit), key, snapshot)[1]>> ELSE seek

EndRead(r) ==
    /\ readers[r] # None
    /\ readers' = [readers EXCEPT ![r] = None]
    /\ \/ UNCHANGED <<seek, scheduled, spent>>
       \/ /\ Spend("seek")
          /\ \E key \in UserKey : UpdateStats(readers[r].version, key, readers[r].snapshot)
          /\ UNCHANGED <<bgError, imm, manual, current>>
          /\ MaybeScheduleCompaction
    /\ UNCHANGED <<disk, running, writing, memory, nextFile, logNumber, current, compactPointer,
                   snapshots, pendingOutputs, manual, bgError, flush, compaction, hist, synced>>

-----------------------------------------------------------------------------
\* TEST_CompactRange: a client asks for a range of a level.
RequestRange(level, lo, hi) ==
    /\ running = "open" /\ manual = None /\ Spend("manual")
    /\ manual' = [level |-> level, lo |-> lo, hi |-> hi, armed |-> FALSE, done |-> FALSE]
    /\ UNCHANGED <<disk, running, writing, memory, versions, reading, pendingOutputs, scheduled,
                   bgError, flush, compaction, hist, synced>>

ArmManual ==
    /\ running = "open" /\ manual # None /\ ~manual.armed /\ ~manual.done /\ ~bgError
    /\ manual' = [manual EXCEPT !.armed = TRUE]
    /\ UNCHANGED <<bgError, imm, current, seek>>
    /\ MaybeScheduleCompaction
    /\ UNCHANGED <<disk, running, writing, mem, logfile, lastSequence, nextFile, logNumber,
                   compactPointer, reading, pendingOutputs, flush, compaction, history>>

\* It returns when the range is done, or after an error: then it takes back
\* manual_compaction_, whatever the background thread is doing with it.
RangeReturns ==
    /\ running = "open" /\ manual # None /\ (manual.done \/ bgError)
    /\ manual' = None
    /\ UNCHANGED <<disk, running, writing, memory, versions, reading, pendingOutputs, scheduled,
                   bgError, flush, compaction, history>>

-----------------------------------------------------------------------------
\* The descriptor of a new database has one record.
NewDB == [version |-> NoFiles, logNumber |-> 0, nextFile |-> 2, lastSequence |-> 0,
               pointer |-> [l \in Level |-> NoEntry]]

\* A version edit and what it makes of a manifest.
NoEdit == [deleted |-> NoFiles, added |-> NoFiles, logNumber |-> logNumber,
           nextFile |-> nextFile, lastSequence |-> lastSequence, pointer |-> <<0, NoEntry>>]
Apply(m, e) ==
    [version |-> SaveTo(m.version, e.deleted, e.added),
     logNumber |-> e.logNumber, nextFile |-> e.nextFile, lastSequence |-> e.lastSequence,
     pointer |-> IF e.pointer[2] = NoEntry THEN m.pointer
                 ELSE [m.pointer EXCEPT ![e.pointer[1]] = e.pointer[2]]]

\* What a recovery may find, the record in flight included or not.
Outcomes == manifest \cup (IF edit = None THEN {} ELSE {Apply(m, edit) : m \in manifest})

\* A record that was written half way (log::Writer::EmitPhysicalRecord) is the end of
\* the manifest for its reader, but corrupts it when another one follows.
Followed == IF descriptor = "torn" THEN {"whole", "unreadable"} ELSE {descriptor}

\* The record is written and synced: LogAndApply installs the version.
AppendVersionTo(records) ==
    /\ manifest' = {Apply(m, edit) : m \in records}
    /\ current' = SaveTo(current, edit.deleted, edit.added)
    /\ logNumber' = edit.logNumber
    /\ edit' = None
    /\ seek' = None

AppendVersion == AppendVersionTo(manifest) /\ descriptor' \in Followed

\* What a new manifest begins with.
WriteSnapshot == [NewDB EXCEPT !.version = current, !.pointer = compactPointer]

\* The record failed, but may be there, or a part of it.
RecordFails ==
    /\ Spend("manifest")
    /\ manifest' = Outcomes
    /\ \E d \in Followed : descriptor' = IF d = "whole" THEN "torn" ELSE d
    /\ edit' = None
    /\ UNCHANGED <<current, logNumber, seek>>

\* Mutant: the end of BackgroundCall does not look for more work.
BackgroundEndsForGood == scheduled' = FALSE

\* The end of BackgroundCall: more work may have come up.
BackgroundEnds == scheduled' = Scheduled

-----------------------------------------------------------------------------
\* CompactMemTable, called first thing by BackgroundCompaction and, without a
\* look at bg_error_, in every turn of DoCompactionWork.
CompactMemTable ==
    /\ imm # None /\ flush = None
    /\ \/ scheduled /\ compaction = None /\ ~bgError
       \/ compaction # None /\ compaction.step = "work"
    /\ flush' = nextFile
    /\ nextFile' = nextFile + 1
    /\ pendingOutputs' = pendingOutputs \cup {nextFile}
    /\ UNCHANGED <<disk, running, writing, memory, logNumber, current, compactPointer, seek,
                   reading, scheduled, manual, bgError, compaction, history>>

\* The table is written; an empty one is not kept.
WriteLevel0Table ==
    /\ flush # None /\ edit = None
    /\ LET level == PickLevelForMemTableOutput(current, Smallest(imm).key, Largest(imm).key)
           f == NewFile(flush, imm)
           e == [NoEdit EXCEPT !.logNumber = logfile]
       IN IF imm = {} THEN edit' = e /\ UNCHANGED tables
          ELSE /\ edit' = [e EXCEPT !.added[level] = {f}]
               /\ tables' = Written(tables, flush, imm)
    /\ pendingOutputs' = pendingOutputs \ {flush}
    /\ UNCHANGED <<logs, manifest, descriptor, running, writing, memory, versions, reading,
                   scheduled, manual, bgError, flush, compaction, history>>

FlushInstalled ==
    /\ flush # None /\ edit # None
    /\ AppendVersion
    /\ imm' = None
    /\ flush' = None
    /\ UNCHANGED <<pendingOutputs, compaction, manual, bgError>>
    /\ DeleteObsoleteFiles
    /\ IF compaction = None THEN BackgroundEnds ELSE UNCHANGED scheduled
    /\ UNCHANGED <<running, writing, mem, logfile, lastSequence, nextFile, compactPointer,
                   reading, history>>

\* The table or its record fails: imm_ stays.
FlushFails ==
    /\ flush # None
    /\ IF edit = None
       THEN Spend("table") /\ UNCHANGED <<manifest, descriptor, edit, current, logNumber, seek>>
       ELSE RecordFails
    /\ flush' = None
    /\ bgError' = TRUE
    /\ pendingOutputs' = pendingOutputs \ {flush}
    /\ UNCHANGED <<imm, manual>>
    /\ IF compaction = None THEN BackgroundEnds ELSE UNCHANGED scheduled
    /\ UNCHANGED <<tables, logs, running, writing, mem, logfile, lastSequence, nextFile,
                   compactPointer, reading, compaction, hist, synced>>

-----------------------------------------------------------------------------
\* BackgroundCompaction when imm_ is NULL: the range that was asked for, or
\* what the current version needs.
Turn == scheduled /\ compaction = None /\ flush = None /\ imm = None /\ ~bgError
Armed == manual # None /\ manual.armed

OldestSnapshot ==
    LET held == {snapshots[h] : h \in Handle} \ {None}
    IN IF held = {} THEN lastSequence ELSE Min(held)

\* DoCompactionWork, up to the release of the mutex.
StartCompaction(c) ==
    /\ compaction' = [inputs |-> c, base |-> c.base, manual |-> Armed,
                      todo |-> CompactionOutputs(c, OldestSnapshot), outputs |-> {},
                      step |-> "work"]
    /\ compactPointer' = [compactPointer EXCEPT ![c.level] = PointerAfter(c)]
    /\ UNCHANGED <<edit, scheduled>>

\* The moved file keeps its number: only the record is written.
StartMove(c) ==
    /\ compaction' = [inputs |-> c, base |-> c.base, manual |-> FALSE,
                      todo |-> <<>>, outputs |-> {}, step |-> "move"]
    /\ compactPointer' = [compactPointer EXCEPT ![c.level] = PointerAfter(c)]
    /\ edit' = [NoEdit EXCEPT !.deleted[c.level] = c.mine, !.added[c.level + 1] = c.mine,
                              !.pointer = <<c.level, PointerAfter(c)>>]
    /\ UNCHANGED scheduled

CompactSomeFiles ==
    /\ Turn /\ ~Armed
    /\ SizeCompaction(current) \/ seek # None
    \* A file of the current version: a new version has no file_to_compact_.
    /\ \E pick \in {PickFile(current, compactPointer, seek)} :
       \E level \in 0..(NumLevels - 2) : \E f \in current[level] :
          /\ pick = <<level, f>>
          /\ \E c \in {PickCompaction(current, level, f)} :
                 IF IsTrivialMove(c) THEN StartMove(c) ELSE StartCompaction(c)
    /\ UNCHANGED <<tables, logs, manifest, descriptor, running, writing, memory, nextFile,
                   logNumber, current, seek, reading, pendingOutputs, manual, bgError, flush,
                   history>>

CompactRange ==
    /\ Turn /\ Armed
    /\ \E files \in {RangeInputs(current, manual.level, manual.lo, manual.hi)} :
          IF files = {}
          THEN /\ manual' = [manual EXCEPT !.done = TRUE, !.armed = FALSE]
               /\ UNCHANGED <<edit, compaction, compactPointer, imm, current, seek, bgError>>
               /\ BackgroundEnds
          ELSE /\ \E c \in {SetupOtherInputs(current, manual.level, files)} : StartCompaction(c)
               /\ UNCHANGED <<manual, imm, current, seek, bgError>>
    /\ UNCHANGED <<tables, logs, manifest, descriptor, running, writing, mem, logfile, lastSequence,
                   nextFile, logNumber, reading, pendingOutputs, flush, history>>

\* Nothing to do any more, or an error came in between.
NothingToDo ==
    /\ running = "open" /\ scheduled /\ compaction = None /\ flush = None
    /\ bgError \/ (imm = None /\ ~Armed /\ ~SizeCompaction(current) /\ seek = None)
    /\ UNCHANGED <<imm, manual, current, seek, bgError>>
    /\ BackgroundEnds
    /\ UNCHANGED <<disk, running, writing, mem, logfile, lastSequence, nextFile, logNumber,
                   compactPointer, reading, pendingOutputs, flush, compaction, history>>

\* OpenCompactionOutputFile to FinishCompactionOutputFile: one output.
CompactionOutput ==
    /\ compaction # None /\ compaction.step = "work" /\ compaction.todo # <<>>
    /\ flush = None
    /\ LET f == NewFile(nextFile, Head(compaction.todo))
       IN /\ tables' = Written(tables, f.number, f.entries)
          /\ compaction' = [compaction EXCEPT !.todo = Tail(@), !.outputs = @ \cup {f}]
    /\ nextFile' = nextFile + 1
    /\ pendingOutputs' = pendingOutputs \cup {nextFile}
    /\ UNCHANGED <<logs, manifest, descriptor, edit, running, writing, memory, logNumber, current,
                   compactPointer, seek, reading, scheduled, manual, bgError, flush, history>>

\* InstallCompactionResults, up to the record.
InstallCompactionResults ==
    /\ compaction # None /\ compaction.step = "work" /\ compaction.todo = <<>>
    /\ flush = None
    /\ LET c == compaction.inputs
       IN edit' = [NoEdit EXCEPT !.deleted[c.level] = c.mine, !.deleted[c.level + 1] = c.theirs,
                                 !.added[c.level + 1] = compaction.outputs,
                                 !.pointer = <<c.level, PointerAfter(c)>>]
    /\ compaction' = [compaction EXCEPT !.step = "record"]
    /\ UNCHANGED <<tables, logs, manifest, descriptor, running, writing, memory, versions, reading,
                   pendingOutputs, scheduled, manual, bgError, flush, history>>

\* The end of BackgroundCompaction: a range is done, or goes on after the files
\* that were compacted.
CompactionEnds(failed) ==
    /\ compaction' = None
    /\ pendingOutputs' = pendingOutputs \ {f.number : f \in compaction.outputs}
    /\ manual' = IF ~compaction.manual THEN manual
                 ELSE [manual EXCEPT !.armed = FALSE, !.done = failed,
                          !.lo = Last(InOrder(compaction.inputs.mine)).largest.key]
    /\ UNCHANGED imm
    /\ BackgroundEnds
    /\ UNCHANGED <<running, writing, mem, logfile, lastSequence, nextFile, compactPointer,
                   reading, flush, hist, synced>>

Cancelled == compaction.manual /\ ~Armed
CompactionInstalled ==
    /\ edit # None
    /\ compaction # None /\ compaction.step \in {"record", "move"} /\ ~Cancelled
    /\ AppendVersion
    /\ UNCHANGED <<bgError, spent>>
    /\ CompactionEnds(FALSE)
    /\ IF compaction.step = "record" THEN DeleteObsoleteFiles ELSE UNCHANGED <<tables, logs>>

\* An output or the record fails.
CompactionFails ==
    /\ compaction # None /\ flush = None /\ ~Cancelled
    /\ IF edit # None THEN RecordFails
       ELSE /\ compaction.todo # <<>> /\ Spend("table")
            /\ UNCHANGED <<manifest, descriptor, edit, current, logNumber, seek>>
    /\ bgError' = TRUE
    /\ CompactionEnds(TRUE)
    /\ UNCHANGED <<tables, logs>>

-----------------------------------------------------------------------------
\* After a loss of power a log is a prefix with at least the synced records.
\* What follows a torn record is read only if it lies in a later block.
Whole(records) ==
    FlattenSeq([i \in DOMAIN records |-> IF records[i] = Torn THEN <<>> ELSE <<records[i]>>])
BeforeTorn(records) ==
    SubSeq(records, 1, SelectInSeq(records \o <<Torn>>, LAMBDA x : x = Torn) - 1)
Readable(log) ==
    LET cut == {SubSeq(log.records, 1, n) : n \in log.synced..Len(log.records)}
    IN {Whole(r) : r \in cut} \cup {BeforeTorn(r) : r \in cut}

KeptRecords ==
    {kept \in [DOMAIN logs -> UNION {Readable(logs[n]) : n \in DOMAIN logs}] :
         \A n \in DOMAIN logs : kept[n] \in Readable(logs[n])}

\* The groups a recovery from log number first will find: those of the tables,
\* and those of the kept records, returned to their writers or not.
Surviving(first, kept) ==
    LET Replayed(records) ==
            UNION {{ToSet(r) : r \in ToSet(records[n]) \ {Torn}} :
                       n \in {m \in DOMAIN logs : m >= first}}
        all == Replayed([n \in DOMAIN logs |-> logs[n].records])
        found == Replayed(kept)
    IN {g \in hist : g.entries \notin all \ found}
       \cup {[entries |-> g, behind |-> FALSE] : g \in found \ {h.entries : h \in hist}}

Gone(state) ==
    /\ running' = state
    /\ edit' = None
    /\ request' = [t \in Thread |-> None] /\ writers' = <<>> /\ group' = None
    /\ mem' = {} /\ imm' = None /\ logfile' = 0 /\ lastSequence' = 0
    /\ nextFile' = 0 /\ logNumber' = 0 /\ current' = NoFiles
    /\ compactPointer' = [l \in Level |-> NoEntry] /\ seek' = None
    /\ snapshots' = [h \in Handle |-> None] /\ readers' = [r \in Reader |-> None]
    /\ pendingOutputs' = {} /\ scheduled' = FALSE /\ manual' = None /\ bgError' = FALSE
    /\ flush' = None /\ compaction' = None

Crash ==
    /\ running \in {"open", "opening"} /\ Spend("crash")
    /\ \E m \in Outcomes, kept \in KeptRecords :
           /\ manifest' = {m}
           /\ descriptor' \in IF descriptor = "torn" /\ edit = None THEN {"whole"} ELSE Followed
           /\ logs' = [n \in DOMAIN logs |-> [records |-> kept[n], synced |-> Len(kept[n])]]
           /\ hist' = Surviving(m.logNumber, kept)
    /\ Gone("down")
    /\ UNCHANGED <<tables, synced>>

\* The caller of TEST_CompactRange has taken manual_compaction_ back:
\* BackgroundCompaction writes through it all the same, whether its last output or
\* its record failed or not.  The model ends here, so these failures are not bounded.
NullManual ==
    /\ compaction # None /\ flush = None /\ Cancelled
    /\ IF edit # None
       THEN /\ manifest' \in {{Apply(m, edit) : m \in manifest}, Outcomes}
            /\ descriptor' \in Followed
       ELSE compaction.todo # <<>> /\ UNCHANGED <<manifest, descriptor>>
    /\ Gone("trapped")
    /\ UNCHANGED <<tables, logs, history>>

\* RecoverLogFile: the memtable goes to level 0 when it is full and at the end.
ToLevel0(w) ==
    [mem |-> {}, next |-> w.next + 1,
     files |-> w.files \cup {NewFile(w.next, w.mem)}]
RecoverLogFile(w, n) ==
    LET Replay(v, record) ==
            LET m == [v EXCEPT !.mem = @ \cup ToSet(record)]
            IN IF Cardinality(m.mem) > WriteBufferSize THEN ToLevel0(m) ELSE m
        records == logs[n].records
        replay[i \in 0..Len(records)] ==
            IF i = 0 THEN w ELSE Replay(replay[i - 1], records[i])
        end == replay[Len(records)]
        done == IF end.mem = {} THEN end ELSE ToLevel0(end)
    IN [done EXCEPT !.next = Newer(@, n + 1)]

\* The logs that are not in the tables yet, in the order of their numbers.
RecoverLogFiles(replayed, start) ==
    LET recover[n \in 0..Max(replayed \cup {0})] ==
          IF n = 0 THEN start
          ELSE IF n \in replayed THEN RecoverLogFile(recover[n - 1], n) ELSE recover[n - 1]
    IN  recover[Max(replayed \cup {0})]

\* VersionSet::Recover of what a manifest holds, up to the numbers it counts on from.
RecoverVersions(m) ==
    /\ current' = m.version /\ compactPointer' = m.pointer
    /\ logNumber' = m.logNumber
FirstFree(m) == m.nextFile + 1

\* DB::Open up to its manifest record.  An unreadable manifest and a missing table
\* are refused.
Recover ==
    /\ running = "down" /\ descriptor # "unreadable"
    /\ \E m \in manifest :
        LET replayed == {n \in DOMAIN logs : n >= m.logNumber}
            w == RecoverLogFiles(replayed, [mem |-> {}, files |-> {}, next |-> FirstFree(m)])
            seqs == UNION {{e.seq : e \in UNION {ToSet(r) : r \in ToSet(logs[n].records)}} :
                               n \in replayed}
        IN /\ Numbers(m.version) \subseteq DOMAIN tables
           /\ RecoverVersions(m)
           /\ lastSequence' = Max({m.lastSequence} \cup seqs)
           /\ logfile' = w.next
           /\ nextFile' = w.next + 1
           /\ logs' = Written(logs, w.next, EmptyLog)
           /\ tables' = [n \in {f.number : f \in w.files} \cup DOMAIN tables |->
                            IF \E f \in w.files : f.number = n
                            THEN (CHOOSE f \in w.files : f.number = n).entries ELSE tables[n]]
           /\ edit' = [deleted |-> NoFiles, added |-> [NoFiles EXCEPT ![0] = w.files],
                       logNumber |-> w.next, nextFile |-> w.next + 1,
                       lastSequence |-> lastSequence', pointer |-> <<0, NoEntry>>]
    /\ running' = "opening"
    /\ UNCHANGED <<manifest, descriptor, writing, mem, imm, seek, reading, background, history>>

\* The new manifest is current: the rest of DB::Open.
Opened ==
    /\ running = "opening"
    /\ AppendVersionTo({WriteSnapshot}) /\ descriptor' = "whole"
    /\ running' = "open"
    /\ UNCHANGED <<imm, manual, bgError, pendingOutputs, compaction>>
    /\ DeleteObsoleteFiles
    /\ MaybeScheduleCompaction
    /\ UNCHANGED <<writing, mem, logfile, lastSequence, nextFile, compactPointer, reading,
                   flush, history>>

\* The new manifest fails: CURRENT names the old one.
OpenFails ==
    /\ running = "opening" /\ Spend("manifest")
    /\ Gone("down")
    /\ UNCHANGED <<tables, logs, manifest, descriptor, hist, synced>>

-----------------------------------------------------------------------------
Init ==
    /\ tables = << >> /\ logs = << >> /\ edit = None
    /\ manifest = {NewDB} /\ descriptor = "whole"
    /\ running = "down"
    /\ request = [t \in Thread |-> None] /\ writers = <<>> /\ group = None
    /\ mem = {} /\ imm = None /\ logfile = 0 /\ lastSequence = 0
    /\ nextFile = 0 /\ logNumber = 0 /\ current = NoFiles
    /\ compactPointer = [l \in Level |-> NoEntry] /\ seek = None
    /\ snapshots = [h \in Handle |-> None] /\ readers = [r \in Reader |-> None]
    /\ pendingOutputs = {} /\ scheduled = FALSE /\ manual = None /\ bgError = FALSE
    /\ flush = None /\ compaction = None
    /\ spent = [k \in Bounded |-> 0] /\ hist = {} /\ synced = {}

Lead(t) == LeadGroup(t) \/ LeaderFails(t)
GroupStep == AddRecord \/ Sync \/ InsertEntry \/ FinishWrite
HeadOfQueue == (\E t \in Thread : Lead(t)) \/ GroupStep
Flush == CompactMemTable \/ WriteLevel0Table \/ FlushInstalled
StartTurn == CompactSomeFiles \/ CompactRange \/ NothingToDo
Compact ==
    \/ CompactionOutput \/ InstallCompactionResults \/ CompactionInstalled
    \/ NullManual
Background == Flush \/ StartTurn \/ Compact
Faults == AddRecordFails \/ SyncFails \/ FlushFails \/ CompactionFails \/ OpenFails \/ Crash

Next ==
    \/ \E t \in Thread, b \in Batch, sync \in BOOLEAN : Write(t, b, sync)
    \/ \E t \in Thread : Write(t, <<>>, FALSE)
    \/ \E t \in Thread : Lead(t)
    \/ GroupStep
    \/ \E h \in Handle : GetSnapshot(h) \/ ReleaseSnapshot(h)
    \/ \E r \in Reader, s \in 0..MaxSeq : BeginRead(r, s)
    \/ \E r \in Reader : EndRead(r)
    \/ \E l \in 0..(NumLevels - 2), range \in Ranges : RequestRange(l, range[1], range[2])
    \/ ArmManual \/ RangeReturns
    \/ Background
    \/ Recover \/ Opened
    \/ Faults

Spec == Init /\ [][Next]_vars

\* Threads run, disk operations end, the background thread gets its turns.
FairSpec ==
    /\ Spec
    /\ WF_vars(HeadOfQueue)
    /\ []<>~scheduled \/ []<><<Background>>_vars

-----------------------------------------------------------------------------
TypeOK ==
    /\ tables \in [DOMAIN tables -> SUBSET Entry]
    /\ DOMAIN logs \cup DOMAIN tables \subseteq Nat
    /\ \A n \in DOMAIN logs :
           /\ logs[n].synced \in 0..Len(logs[n].records)
           /\ \A r \in ToSet(logs[n].records) : ToSet(r) \subseteq Entry
    /\ running \in {"open", "opening", "down", "trapped"}
    /\ descriptor \in {"whole", "torn", "unreadable"}
    /\ ToSet(writers) = {t \in Thread : request[t] # None}
    /\ Len(writers) = Cardinality(ToSet(writers))
    /\ group # None => group.members = SubSeq(writers, 1, Len(group.members))
    /\ mem \subseteq Entry /\ (imm # None => imm \subseteq Entry)
    /\ \A f \in Files(current) : f = NewFile(f.number, f.entries)
    /\ compaction # None => compaction \in CompactionState
    /\ lastSequence \in 0..MaxSeq
    /\ {scheduled, bgError} \subseteq BOOLEAN
    /\ pendingOutputs \subseteq 1..nextFile

\* What a client gets for an entry: a deletion is the same as nothing.
Value(e) == IF e.type = "value" THEN e.seq ELSE 0
Newest(groups, key, snapshot) ==
    Visible(UNION {g.entries : g \in groups}, key, snapshot)

\* Whoever reads now, holds a snapshot or began to read earlier finds, in the
\* memtables and the version it goes by, what was newest at its sequence number,
\* whatever was written, flushed, compacted, moved, deleted or recovered since;
\* and the table files are still there.
OnDisk(f) == f.number \in DOMAIN tables /\ tables[f.number] = f.entries
Finds(young, old, version, snapshot) ==
    /\ \A key \in UserKey : Value(Lookup(young, old, version, key, snapshot))
                                = Value(Newest(hist, key, snapshot))
    /\ \A f \in Files(version) : OnDisk(f)
ReadsAreRight ==
    /\ running = "open" =>
           \A s \in ({lastSequence} \cup {snapshots[h] : h \in Handle}) \ {None} :
               Finds(mem, imm, current, s)
    /\ \A r \in Reader : readers[r] # None =>
           Finds(readers[r].mem, readers[r].imm, readers[r].version, readers[r].snapshot)

\* Whatever a crash leaves of the manifest, the tables it names are on disk
\* with the contents it means.
ManifestIsBacked == \A m \in Outcomes : \A f \in Files(m.version) : OnDisk(f)

\* The files of a level above 0 follow one another ("Must not overlap" in
\* VersionSet::Builder::MaybeAddFile), in any manifest a crash may leave.
Disjoint(version) ==
    \A l \in Level \ {0} : \A f, g \in version[l] :
        f # g => Before(f.largest, g.smallest) \/ Before(g.largest, f.smallest)
LevelsDisjoint == \A m \in Outcomes : Disjoint(m.version)

\* The same, as long as no manifest record failed.
LevelsDisjointUnlessFailed == spent["manifest"] = 0 => LevelsDisjoint

\* What does hold: while no client compacts a range either, neither the outputs
\* of a compaction nor a table that is flushed meanwhile overlap a level.
LevelsStayDisjoint == spent["manifest"] = 0 /\ spent["manual"] = 0 => LevelsDisjoint

\* A version that LogAndApply installed is "both saved to persistent state and
\* installed": the manifest that has its record can be read.
InstalledIsSaved == running = "open" => descriptor # "unreadable"

\* Every write that was acknowledged to a caller who asked for sync is kept
\* (WriteOptions::sync).
SyncedSurvive == synced \subseteq hist

\* The same of writes whose log had no torn record before them.
Durable == {g \in synced : ~g.behind} \subseteq hist

\* Nobody waits for a background thread that has no turn coming: bg_cv_ is
\* signalled at the end of a turn, and only a turn makes room.
Waiting == running = "open" /\ writers # <<>> /\ group = None
           /\ Full(Head(writers)) /\ ~MaySwitchMemTable
WorkIsScheduled ==
    /\ Waiting \/ (running = "open" /\ Armed) => scheduled \/ bgError
    /\ flush # None \/ compaction # None => scheduled

\* Levels are searched from 0 up: an entry lies above the older ones of its key.
NewerAbove ==
    running = "open" =>
        \A l, m \in Level : l < m =>
            \A e \in EntriesOf(current[l]), d \in EntriesOf(current[m]) :
                e.key = d.key => e.seq >= d.seq

\* Writers return, and a full memtable reaches a table unless an error stops it.
WritesReturn == \A t \in Thread : request[t] # None ~> request[t] = None
MemTableFlushed == imm # None ~> (imm = None \/ bgError)

-----------------------------------------------------------------------------
\* What the database is for its clients.
Reading(snapshot) ==
    [key \in UserKey |-> IF running = "open"
                         THEN Value(Lookup(mem, imm, current, key, snapshot))
                         ELSE Value(Newest(hist, key, snapshot))]
Store == INSTANCE KeyValueStore
    WITH log <- {g.entries : g \in hist},
         durable <- {g.entries : g \in {x \in synced : ~x.behind}},
         store <- Reading(IF running = "open" THEN lastSequence ELSE MaxSeq),
         views <- [h \in Handle |-> IF snapshots[h] = None THEN None ELSE Reading(snapshots[h])]
ImplementsStore == Store!Spec
=============================================================================

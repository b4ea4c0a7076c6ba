------------------------------- MODULE Repair -------------------------------
(***************************************************************************)
(* RepairDB: every log becomes a table, every table is scanned and, when a *)
(* part of it cannot be read, copied, and a new descriptor lists them all  *)
(* at level 0.  An entry is its sequence number.  A log is the set of      *)
(* entries that can be read from it.  A file cannot be opened, read,       *)
(* created, finished or renamed (a fault), the process may end between any *)
(* two steps, and repair may be run again.                                 *)
(***************************************************************************)
EXTENDS Integers, Sequences, FiniteSets, FiniteSetsExt, Functions

CONSTANTS
    RepairKeyOf,     \* the user key of each entry
    RepairDirs,      \* [logs, tables]: directories that databases left
    MaxRepairFaults,
    MaxRepairRuns

\* What can be read from files.
InLogs(logs) == UNION {logs[n] : n \in DOMAIN logs}
InTables(tables) == UNION {tables[n].read : n \in DOMAIN tables}
RepairEntries == DOMAIN RepairKeyOf

ASSUME RepairBounds ==
    /\ MaxRepairFaults \in Nat /\ MaxRepairRuns \in Nat
    /\ \A d \in RepairDirs : InLogs(d.logs) \cup InTables(d.tables) = RepairEntries

VARIABLES
    repLogs,      \* the log files: number -> entries
    repTables,    \* the table files: number -> [read, damaged]
    repLostLogs,  \* the same, in lost/
    repLostTables,
    repManifests, \* number -> the descriptor in it
    repCurrent,   \* the number CURRENT names, 0 when it names none
    repPc,
    logs_, table_numbers_, manifests_, tables_, next_file_number_,  \* Repairer
    repWork,      \* the file a step is about: [from, to, scanned, read]
    repFaults,    \* what failed, and in which run
    repRuns,
    repFound      \* what could be read in the directory when the run began
repDisk == <<repLogs, repTables, repLostLogs, repLostTables, repManifests, repCurrent>>
repMemory == <<logs_, table_numbers_, manifests_, tables_, next_file_number_>>
repVars == <<repDisk, repMemory, repPc, repWork, repFaults, repRuns, repFound>>

OlderDescriptor == [tables |-> {}, next |-> 0, last |-> 0]
NoWork == [from |-> 0, to |-> 0, scanned |-> {}, read |-> {}]
Partial == [read |-> {}, damaged |-> TRUE]

Put(f, n, file) == [k \in DOMAIN f \cup {n} |-> IF k = n THEN file ELSE f[k]]
Drop(f, n) == Restrict(f, DOMAIN f \ {n})
Keys(entries) == {RepairKeyOf[e] : e \in entries}
Largest(S) == Max({0} \cup S)

\* One thing the environment does not do.
Fails(call) ==
    /\ Len(repFaults) < MaxRepairFaults
    /\ repFaults' = Append(repFaults, [run |-> repRuns, call |-> call])
RepairFault == Fails("call")
NoRepairFault == repFaults' = repFaults

RepairInit ==
    /\ \E d \in RepairDirs : repLogs = d.logs /\ repTables = d.tables
    /\ repLostLogs = <<>> /\ repLostTables = <<>>
    /\ repManifests = [n \in {2} |-> OlderDescriptor] /\ repCurrent = 2
    /\ repPc = "idle" /\ repWork = NoWork
    /\ logs_ = {} /\ table_numbers_ = {} /\ manifests_ = {} /\ tables_ = {} /\ next_file_number_ = 1
    /\ repFaults = <<>> /\ repRuns = 0 /\ repFound = {}

-----------------------------------------------------------------------------
\* The number after those in use; manifests do not count.
NextNumberTaken == Largest(DOMAIN repLogs \cup DOMAIN repTables)
NextNumber == 1 + Largest(DOMAIN repLogs \cup DOMAIN repTables)

FindFiles ==
    /\ repPc \in {"idle", "failed", "done"} /\ repRuns < MaxRepairRuns
    /\ repRuns' = repRuns + 1
    /\ NoRepairFault
    /\ repFound' = InLogs(repLogs) \cup InTables(repTables)
    /\ logs_' = DOMAIN repLogs
    /\ table_numbers_' = DOMAIN repTables
    /\ manifests_' = DOMAIN repManifests
    /\ tables_' = {}
    /\ next_file_number_' = NextNumber
    /\ repPc' = "logs"
    /\ UNCHANGED <<repDisk, repWork>>

LogWork(log, read) == [NoWork EXCEPT !.from = log, !.to = next_file_number_, !.read = read]

\* ConvertLogToTable up to the new file, for the logs in the order of the
\* directory, which is any.  A read that fails is the end of the log.  A log that
\* cannot be opened, or holds nothing, or whose table cannot be created, is only
\* archived.
ConvertLogToTable(log) ==
    /\ repPc = "logs"
    /\ logs_' = logs_ \ {log}
    /\ \/ /\ \/ NoRepairFault /\ repWork' = LogWork(log, repLogs[log])
             \/ /\ RepairFault
                /\ \E unread \in repLogs[log] :
                       repWork' = LogWork(log, {e \in repLogs[log] : e < unread})
          /\ repWork'.read # {}
          /\ repTables' = Put(repTables, next_file_number_, Partial)
          /\ next_file_number_' = next_file_number_ + 1
          /\ repPc' = "build"
       \/ /\ \/ NoRepairFault /\ repLogs[log] = {} /\ next_file_number_' = next_file_number_ + 1
             \/ RepairFault /\ next_file_number_' \in next_file_number_ .. next_file_number_ + 1
          /\ repWork' = [NoWork EXCEPT !.from = log]
          /\ repPc' = "archive log"
          /\ UNCHANGED repTables
    /\ UNCHANGED <<repLogs, repLostLogs, repLostTables, repManifests, repCurrent,
                   table_numbers_, manifests_, tables_, repRuns, repFound>>

\* BuildTable: the file is finished, synced and opened, or deleted.
BuildTable ==
    /\ repPc = "build"
    /\ \/ /\ NoRepairFault
          /\ repTables' = Put(repTables, repWork.to, [read |-> repWork.read, damaged |-> FALSE])
          /\ table_numbers_' = table_numbers_ \cup {repWork.to}
       \/ /\ RepairFault
          /\ repTables' = Drop(repTables, repWork.to)
          /\ UNCHANGED table_numbers_
    /\ repPc' = "archive log"
    /\ UNCHANGED <<repLogs, repLostLogs, repLostTables, repManifests, repCurrent, logs_,
                   manifests_, tables_, next_file_number_, repWork, repRuns, repFound>>

\* ArchiveFile, which ignores its errors.
ArchiveLog ==
    /\ repPc = "archive log"
    /\ \/ /\ NoRepairFault
          /\ repLogs' = Drop(repLogs, repWork.from)
          /\ repLostLogs' = Put(repLostLogs, repWork.from, repLogs[repWork.from])
       \/ RepairFault /\ UNCHANGED <<repLogs, repLostLogs>>
    /\ repPc' = "logs" /\ repWork' = NoWork
    /\ UNCHANGED <<repTables, repLostTables, repManifests, repCurrent, repMemory, repRuns, repFound>>

-----------------------------------------------------------------------------
ArchiveTable(n) ==
    /\ repTables' = Drop(repTables, n)
    /\ repLostTables' = Put(repLostTables, n, repTables[n])

\* TableInfo: bounds by user key, and the largest sequence number.
MetaOf(n, read) == [number |-> n, keys |-> Keys(read), max_sequence |-> Largest(read)]

\* ScanTable, for one of the numbers found or made.
ScanTable(n) ==
    /\ repPc = "logs" /\ logs_ = {}
    /\ table_numbers_' = table_numbers_ \ {n}
    /\ \* It is read to its end.
       \/ /\ NoRepairFault /\ ~repTables[n].damaged
          /\ tables_' = tables_ \cup {MetaOf(n, repTables[n].read)}
          /\ UNCHANGED <<repTables, repLostTables, repPc, repWork>>
       \* A part of it cannot be read, or not this time: it goes to RepairTable.
       \/ /\ \E scanned \in SUBSET repTables[n].read :
                /\ IF scanned = repTables[n].read THEN NoRepairFault /\ repTables[n].damaged
                                                  ELSE Fails("scan")
                /\ repWork' = [NoWork EXCEPT !.from = n, !.scanned = scanned]
          /\ repPc' = "open copy"
          /\ UNCHANGED <<repTables, repLostTables, tables_>>
       \* Its size is not known: it is archived.
       \/ /\ RepairFault /\ ArchiveTable(n)
          /\ UNCHANGED <<tables_, repPc, repWork>>
    /\ UNCHANGED <<repLogs, repLostLogs, repManifests, repCurrent, logs_, manifests_,
                   next_file_number_, repRuns, repFound>>

\* RepairTable: a table whose copy cannot be created is left where it is.
OpenCopy ==
    /\ repPc = "open copy"
    /\ next_file_number_' = next_file_number_ + 1
    /\ \/ /\ NoRepairFault
          /\ repTables' = Put(repTables, next_file_number_, Partial)
          /\ repWork' = [repWork EXCEPT !.to = next_file_number_]
          /\ repPc' = "copy"
       \/ RepairFault /\ repWork' = NoWork /\ repPc' = "logs" /\ UNCHANGED repTables
    /\ UNCHANGED <<repLogs, repLostLogs, repLostTables, repManifests, repCurrent, logs_,
                   table_numbers_, manifests_, tables_, repRuns, repFound>>

\* What can be read, this time, is added to the copy; nobody asks for the status.
CopyTable ==
    /\ repPc = "copy"
    /\ \E read \in SUBSET repTables[repWork.from].read :
          /\ IF read = repTables[repWork.from].read THEN NoRepairFault ELSE RepairFault
          /\ repWork' = [repWork EXCEPT !.read = read]
    /\ repPc' = "archive table"
    /\ UNCHANGED <<repDisk, repMemory, repRuns, repFound>>

ArchiveSource ==
    /\ repPc = "archive table"
    /\ \/ NoRepairFault /\ ArchiveTable(repWork.from)
       \/ RepairFault /\ UNCHANGED <<repTables, repLostTables>>
    /\ repPc' = "finish copy"
    /\ UNCHANGED <<repLogs, repLostLogs, repManifests, repCurrent, repMemory, repWork, repRuns, repFound>>

\* The copy is finished and takes the place of the source, with the bounds and the
\* sequence number that the scan found; an empty one is left where it is, a bad one
\* deleted.
FinishCopy ==
    /\ repPc = "finish copy"
    /\ LET copied == [read |-> repWork.read, damaged |-> FALSE] IN
       \/ /\ NoRepairFault /\ repWork.read = {}
          /\ UNCHANGED <<repTables, tables_>>
       \/ /\ NoRepairFault /\ repWork.read # {}
          /\ repTables' = Drop(Put(repTables, repWork.from, copied), repWork.to)
          /\ tables_' = tables_ \cup {MetaOf(repWork.from, repWork.scanned)}
       \/ /\ RepairFault
          /\ repTables' = Drop(repTables, repWork.to)
          /\ UNCHANGED tables_
    /\ repPc' = "logs" /\ repWork' = NoWork
    /\ UNCHANGED <<repLogs, repLostLogs, repLostTables, repManifests, repCurrent, logs_,
                   table_numbers_, manifests_, next_file_number_, repRuns, repFound>>

-----------------------------------------------------------------------------
(* WriteDescriptor.                                                            *)
\* The descriptor is written to a temporary file.
WriteTemporary ==
    /\ repPc = "logs" /\ logs_ = {} /\ table_numbers_ = {}
    /\ \/ NoRepairFault /\ repPc' = "archive manifests"
       \/ RepairFault /\ repPc' = "failed"
    /\ UNCHANGED <<repDisk, repMemory, repWork, repRuns, repFound>>

ArchiveManifest(n) ==
    /\ repPc = "archive manifests"
    /\ manifests_' = manifests_ \ {n}
    /\ \/ NoRepairFault /\ repManifests' = Drop(repManifests, n)
       \/ RepairFault /\ UNCHANGED repManifests
    /\ UNCHANGED <<repLogs, repTables, repLostLogs, repLostTables, repCurrent, logs_,
                   table_numbers_, tables_, next_file_number_, repPc, repWork, repRuns, repFound>>

RECOVERED == [tables |-> tables_, next |-> next_file_number_,
              last |-> Largest({t.max_sequence : t \in tables_})]

InstallManifest ==
    /\ repPc = "archive manifests" /\ manifests_ = {}
    /\ \/ NoRepairFault /\ repManifests' = Put(repManifests, 1, RECOVERED) /\ repPc' = "set current"
       \/ RepairFault /\ UNCHANGED repManifests /\ repPc' = "failed"
    /\ UNCHANGED <<repLogs, repTables, repLostLogs, repLostTables, repCurrent, repMemory,
                   repWork, repRuns, repFound>>

SetCurrent ==
    /\ repPc = "set current"
    /\ \/ NoRepairFault /\ repCurrent' = 1 /\ repPc' = "done"
       \/ RepairFault /\ UNCHANGED repCurrent /\ repPc' = "failed"
    /\ UNCHANGED <<repLogs, repTables, repLostLogs, repLostTables, repManifests, repMemory,
                   repWork, repRuns, repFound>>

\* The process ends.
RepairCrash ==
    /\ repPc \notin {"idle", "failed", "done"}
    /\ repPc' = "idle" /\ repWork' = NoWork
    /\ logs_' = {} /\ table_numbers_' = {} /\ manifests_' = {} /\ tables_' = {}
    /\ next_file_number_' = 1
    /\ UNCHANGED <<repDisk, repFaults, repRuns, repFound>>

RepairNext ==
    \/ FindFiles
    \/ \E log \in logs_ : ConvertLogToTable(log)
    \/ BuildTable \/ ArchiveLog
    \/ \E n \in table_numbers_ : ScanTable(n)
    \/ OpenCopy \/ CopyTable \/ ArchiveSource \/ FinishCopy
    \/ WriteTemporary \/ InstallManifest \/ SetCurrent
    \/ \E n \in manifests_ : ArchiveManifest(n)
    \/ RepairCrash

-----------------------------------------------------------------------------
Listed == repManifests[repCurrent].tables
ListedEntries == UNION {repTables[t.number].read : t \in Listed}

FailedInThisRun == {f.call : f \in {g \in Range(repFaults) : g.run = repRuns}}

(* No run, however it ends, loses an entry that could be read: it is in some  *)
(* file of the directory or of lost/, unless calls failed twice (a file that   *)
(* was copied in part and is archived again replaces the whole one in lost/).  *)
(* After a run that succeeds CURRENT names its descriptor, whose tables exist  *)
(* and can be read, and no number is given twice.  Unless a read of a scan     *)
(* failed, and RepairTable listed what the copy read under what the scan had   *)
(* (repair.cc:367), the tables lie within their bounds and no later entry gets *)
(* an old sequence number; and when nothing failed, everything the run found   *)
(* is in them.                                                                 *)
RepairKeepsData ==
    /\ Len(repFaults) <= 1 =>
          RepairEntries \subseteq InLogs(repLogs) \cup InTables(repTables)
                                     \cup InLogs(repLostLogs) \cup InTables(repLostTables)
    /\ repPc = "done" =>
          /\ repCurrent = 1 /\ 1 \in DOMAIN repManifests
          /\ \A t \in Listed : t.number \in DOMAIN repTables /\ ~repTables[t.number].damaged
          /\ \A n \in DOMAIN repTables \cup DOMAIN repLogs : n < repManifests[1].next
          /\ "scan" \notin FailedInThisRun =>
                /\ \A t \in Listed : Keys(repTables[t.number].read) \subseteq t.keys
                /\ \A e \in ListedEntries : e <= repManifests[1].last
          /\ FailedInThisRun = {} => repFound \subseteq ListedEntries

\* Version::Get on level 0, "in order from newest to oldest": the entry of a key
\* that is found in the listed table with the largest number is the newest.
RepairReadsNewest ==
    repPc = "done" =>
        \A k \in Keys(ListedEntries) :
            LET holding == {t.number : t \in {u \in Listed : k \in u.keys}}
                Of(entries) == Max({e \in entries : RepairKeyOf[e] = k})
            IN  Of(repTables[Max(holding)].read) = Of(ListedEntries)
=============================================================================

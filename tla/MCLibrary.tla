----------------------------- MODULE MCLibrary ------------------------------
(***************************************************************************)
(* The parts under DBImpl, RepairDB, and nanopb, which share no state: a   *)
(* behaviour exercises one of them and leaves the others as they are.      *)
(***************************************************************************)
EXTENDS MemTable, TableCache, PosixEnv, LogFile, Table, DBIter, RecordFormats, Repair, MCNanopb

(* TableCache: the third file weighs two.                                      *)
ChargeOf == [f \in FileNumber |-> IF f = 3 THEN 2 ELSE 1]

(* PosixEnv: two callers in a process and one in another.                      *)
CallerProcess == [c \in LockCaller |-> IF c = "c3" THEN "p2" ELSE "p1"]

(* Table: keys that share prefixes; a hash of a byte.                          *)
TableKeys == {<<1>>, <<1, 1>>, <<1, 3>>, <<2, 2>>, <<3, 3>>}
HashOf == [k \in TableKeys |-> (37 * k[1] + 101 * (IF Len(k) > 1 THEN k[2] ELSE 0)) % 256]

(* RecordFormats: keys, edits and file names.                                  *)
BatchKeys == {<<>>, <<1>>, <<1, 2, 2>>, <<3, 3>>, <<1, 4>>}
BatchValues == {<<>>, <<9, 9>>}
NewFile(n) == <<0, n, 9, <<1, 1, 0>>, <<2, 0, 15>>>>
VersionEdits ==
    {[ClearedEdit EXCEPT !.comparator = c, !.log = n, !.prev = p, !.next = n, !.last = p,
                         !.pointers = q, !.deleted = d, !.files = f] :
        c \in {<<>>, <<<<7>>>>}, n \in {<<>>, <<200>>}, p \in {<<>>, <<9>>},
        q \in {<<>>, <<<<6, <<1, 0, 0>>>>>>}, d \in {{}, {<<0, 3>>}, {<<6, 200>>, <<1, 3>>, <<0, 250>>}},
        f \in {<<>>, <<NewFile(3)>>, <<NewFile(70), NewFile(4)>>}}
FileNames ==
    [prefix : {"", "MANIFEST-", "CURRENT", "LOCK"},
     digits : {<<0, 0, 9, 9>>} \cup UNION {[1..n -> {0, 2, 5, 6, 9}] : n \in 0..3},
     suffix : {"", ".log", ".sst", ".ldb", ".dbtmp", ".bak"}]

(* Repair: two logs, the newer one perhaps of a memtable that was being        *)
(* flushed, and tables of which a part, or all, cannot be read.                *)
RepairKeys == (1 :> "a") @@ (2 :> "b") @@ (3 :> "a")
TableOf(read, damaged) == [read |-> read, damaged |-> damaged]
Directories ==
    {[logs |-> (6 :> {1}) @@ (8 :> {3}), tables |-> 4 :> TableOf({2}, FALSE)],
     [logs |-> 8 :> {3}, tables |-> (4 :> TableOf({1}, TRUE)) @@ (7 :> TableOf({2}, FALSE))],
     [logs |-> (6 :> {}) @@ (8 :> {3}), tables |-> (5 :> TableOf({1, 2}, TRUE)) @@ (7 :> TableOf({}, TRUE))]}

CONSTANT Parts  \* those that are exercised
VARIABLE part

Init ==
    /\ part \in Parts
    /\ MemInit /\ CacheInit /\ EnvInit /\ LogInit /\ FormatsInit /\ PbInit
    /\ TableInit /\ (part = "table" \/ builder.blockSize = CHOOSE size \in BlockSize : TRUE)
    /\ RepairInit /\ (part = "repair" \/ DOMAIN repLogs = {8})
    /\ DBIterInit
    /\ part = "iterator" \/ /\ \A e \in Entries : e.user = 1 /\ e.type = "value"
                            /\ child[2] = {} /\ dbIter.sequence = IterEntries

Next ==
    /\ UNCHANGED part
    /\ \/ /\ part = "memtable" /\ MemNext
          /\ UNCHANGED <<cacheVars, envVars, logVars, tableVars, iterVars, formatVars, repVars, pbVars>>
       \/ /\ part = "cache" /\ CacheNext
          /\ UNCHANGED <<memVars, envVars, logVars, tableVars, iterVars, formatVars, repVars, pbVars>>
       \/ /\ \/ part = "limiter" /\ LimiterNext /\ UNCHANGED <<queueVars, lockVars, fileVars>>
             \/ part = "background" /\ QueueNext /\ UNCHANGED <<limiterVars, lockVars, fileVars>>
             \/ part = "locks" /\ LockNext /\ UNCHANGED <<limiterVars, queueVars, fileVars>>
             \/ part = "files" /\ FileNext /\ UNCHANGED <<limiterVars, queueVars, lockVars>>
          /\ UNCHANGED <<memVars, cacheVars, logVars, tableVars, iterVars, formatVars, repVars, pbVars>>
       \/ /\ part = "log" /\ LogNext
          /\ UNCHANGED <<memVars, cacheVars, envVars, tableVars, iterVars, formatVars, repVars, pbVars>>
       \/ /\ part = "table" /\ TableNext
          /\ UNCHANGED <<memVars, cacheVars, envVars, logVars, iterVars, formatVars, repVars, pbVars>>
       \/ /\ part = "iterator" /\ DBIterNext
          /\ UNCHANGED <<memVars, cacheVars, envVars, logVars, tableVars, formatVars, repVars, pbVars>>
       \/ /\ part = "formats" /\ FormatsNext
          /\ UNCHANGED <<memVars, cacheVars, envVars, logVars, tableVars, iterVars, repVars, pbVars>>
       \/ /\ part = "repair" /\ RepairNext
          /\ UNCHANGED <<memVars, cacheVars, envVars, logVars, tableVars, iterVars, formatVars, pbVars>>
       \/ /\ part = "nanopb" /\ PbNext
          /\ UNCHANGED <<memVars, cacheVars, envVars, logVars, tableVars, iterVars, formatVars, repVars>>
=============================================================================

----------------------------- MODULE TableCache -----------------------------
(***************************************************************************)
(* The cache of open tables (db/table_cache.cc) and the LRU cache it is     *)
(* made of (util/cache.cc): threads that look a table up, open it when it   *)
(* is missing and hold it while they read, and the eviction of tables whose *)
(* files are removed.  Every operation of the cache holds its mutex; the    *)
(* file is opened between two of them.                                      *)
(***************************************************************************)
EXTENDS Integers, FiniteSets, Sequences, SequencesExt

CONSTANTS
    CacheThread,
    FileNumber,         \* keys of the cache, natural numbers that are their own hash
    FileCharge,         \* what an entry counts for, by key
    CacheEntries,       \* the capacity of the cache
    kNumShards,         \* every key of the model is in one shard
    MinBuckets,         \* the length of a hash table without elements
    NoHandle

ASSUME CacheBounds ==
    /\ IsFiniteSet(FileNumber) /\ IsFiniteSet(CacheThread) /\ NoHandle \notin Nat
    /\ FileNumber \subseteq Nat /\ FileCharge \in [FileNumber -> Nat \ {0}]
    /\ CacheEntries \in Nat /\ {kNumShards, MinBuckets} \subseteq Nat \ {0}

VARIABLES
    cache,              \* an LRUCache: its entries, lists, hash table and usage_
    caller,             \* what each thread is doing
    removed             \* file numbers that were evicted because the file goes

cacheVars == <<cache, caller, removed>>

Capacity == (CacheEntries + kNumShards - 1) \div kNumShards

CacheInit ==
    /\ cache = [entry |-> <<>>, lru |-> <<>>, inUse |-> <<>>, usage |-> 0,
                list |-> [b \in 0..(MinBuckets - 1) |-> {}]]
    /\ caller = [t \in CacheThread |-> [pc |-> "idle", file |-> 0, handle |-> NoHandle]]
    /\ removed = {}

-----------------------------------------------------------------------------
(* HandleTable: a set of entries per bucket; no order among them matters.     *)
Bucket(c, key) == key % Cardinality(DOMAIN c.list)
LookupHandle(c, key) ==
    LET found == {e \in c.list[Bucket(c, key)] : c.entry[e].key = key}
    IN  IF found = {} THEN NoHandle ELSE CHOOSE e \in found : TRUE

Elems(c) == UNION {c.list[b] : b \in DOMAIN c.list}

\* The shortest length that fits.
ResizeTable(c) ==
    LET elems == Cardinality(Elems(c))
        fits == CHOOSE n \in {MinBuckets * 2^i : i \in 0..elems} :
                  n >= elems /\ (n = MinBuckets \/ n \div 2 < elems)
    IN  [c EXCEPT !.list = [b \in 0..(fits - 1) |->
                              {e \in Elems(c) : c.entry[e].key % fits = b}]]

\* The entry e takes the place of one with its key.
InsertHandle(c, e) ==
    LET key == c.entry[e].key
        old == LookupHandle(c, key)
        entered == [c EXCEPT !.list[Bucket(c, key)] = (@ \ {old}) \cup {e}]
    IN  IF old = NoHandle /\ Cardinality(Elems(entered)) > Cardinality(DOMAIN c.list)
        THEN ResizeTable(entered) ELSE entered

RemoveHandle(c, key) ==
    [c EXCEPT !.list[Bucket(c, key)] = @ \ {LookupHandle(c, key)}]

-----------------------------------------------------------------------------
(* LRUCache.                                                                 *)
LRURemove(c, e) ==
    [c EXCEPT !.lru = RemoveFirst(@, e), !.inUse = RemoveFirst(@, e)]

RefNoMove(c, e) == [c EXCEPT !.entry[e].refs = @ + 1]

Ref(c, e) ==
    LET moved == IF c.entry[e].refs = 1 /\ c.entry[e].inCache
                 THEN [LRURemove(c, e) EXCEPT !.inUse = Append(@, e)] ELSE c
    IN  [moved EXCEPT !.entry[e].refs = @ + 1]

Unref(c, e) ==
    LET less == [c EXCEPT !.entry[e].refs = @ - 1]
        now == less.entry[e]
    IN  CASE now.refs = 0 ->    \* the deleter closes the file
               [less EXCEPT !.entry = [d \in DOMAIN @ \ {e} |-> @[d]]]
          [] now.refs = 1 /\ now.inCache -> [LRURemove(less, e) EXCEPT !.lru = Append(@, e)]
          [] OTHER -> less

\* e left the hash table.
FinishErase(c, e) ==
    IF e = NoHandle THEN c
    ELSE Unref([LRURemove(c, e) EXCEPT !.entry[e].inCache = FALSE,
                                       !.usage = @ - c.entry[e].charge], e)

EraseKey(c, key) == FinishErase(RemoveHandle(c, key), LookupHandle(c, key))

\* The entry with the number e, which nothing uses, is allocated.
InsertEntry(c, e, key, charge) ==
    LET allocated == [c EXCEPT !.entry = [d \in DOMAIN @ \cup {e} |->
                        IF d = e THEN [key |-> key, charge |-> charge, refs |-> 1, inCache |-> FALSE]
                        ELSE @[d]]]
        old == LookupHandle(c, key)
        referenced == [allocated EXCEPT !.entry[e].refs = 2, !.entry[e].inCache = TRUE,
                                        !.inUse = Append(@, e), !.usage = @ + charge]
        entered == IF Capacity > 0 THEN FinishErase(InsertHandle(referenced, e), old) ELSE allocated
        Evicted(d, oldest) == IF d.usage > Capacity THEN EraseKey(d, d.entry[oldest].key) ELSE d
    IN  FoldLeft(Evicted, entered, entered.lru)

PruneAll(c) == FoldLeft(LAMBDA d, e : EraseKey(d, d.entry[e].key), c, c.lru)

-----------------------------------------------------------------------------
(* TableCache.  A thread that reads a file holds a version that lists it.    *)
EntryNumber == 1..(Cardinality(FileNumber) + Cardinality(CacheThread))
FreeEntry == CHOOSE e \in EntryNumber \ DOMAIN cache.entry :
               \A d \in EntryNumber \ DOMAIN cache.entry : e <= d

Holds(t, file, handle) ==
    caller' = [caller EXCEPT ![t] = [pc |-> "holding", file |-> file, handle |-> handle]]

FindTable(t, file) ==
    LET handle == LookupHandle(cache, file) IN
    /\ caller[t].pc = "idle" /\ file \notin removed
    /\ IF handle = NoHandle
       THEN /\ caller' = [caller EXCEPT ![t].pc = "opening", ![t].file = file]
            /\ UNCHANGED cache
       ELSE /\ cache' = Ref(cache, handle)
            /\ Holds(t, file, handle)
    /\ UNCHANGED removed

TableOpened(t) ==
    /\ caller[t].pc = "opening"
    /\ cache' = InsertEntry(cache, FreeEntry, caller[t].file, FileCharge[caller[t].file])
    /\ Holds(t, caller[t].file, FreeEntry)
    /\ UNCHANGED removed

CallerDone(t) == caller' = [caller EXCEPT ![t] = [pc |-> "idle", file |-> 0, handle |-> NoHandle]]

TableFailed(t) ==               \* errors are not cached
    /\ caller[t].pc = "opening"
    /\ CallerDone(t)
    /\ UNCHANGED <<cache, removed>>

ReleaseTable(t) ==              \* UnrefEntry, or the end of Get
    /\ caller[t].pc = "holding"
    /\ cache' = Unref(cache, caller[t].handle)
    /\ CallerDone(t)
    /\ UNCHANGED removed

\* DeleteObsoleteFiles: no version lists the file.
EvictTable(file) ==
    /\ file \notin removed
    /\ \A t \in CacheThread : caller[t].file # file
    /\ cache' = EraseKey(cache, file)
    /\ removed' = removed \cup {file}
    /\ UNCHANGED caller

PruneCache ==
    /\ cache' = PruneAll(cache)
    /\ UNCHANGED <<caller, removed>>

CacheNext ==
    \/ \E t \in CacheThread, file \in FileNumber : FindTable(t, file)
    \/ \E t \in CacheThread : TableOpened(t) \/ TableFailed(t) \/ ReleaseTable(t)
    \/ \E file \in FileNumber : EvictTable(file)
    \/ PruneCache

CacheSpec == CacheInit /\ [][CacheNext]_cacheVars

-----------------------------------------------------------------------------
\* The table a thread reads is open and is the one it asked for.
HeldAreOpen ==
    \A t \in CacheThread : caller[t].pc = "holding" =>
      /\ caller[t].handle \in DOMAIN cache.entry
      /\ cache.entry[caller[t].handle].key = caller[t].file

\* The references of an entry are its handles and the one of the cache, and an
\* entry without either is gone.
Handles(e) == {t \in CacheThread : caller[t].handle = e}
RefsCounted ==
    \A e \in DOMAIN cache.entry :
      /\ cache.entry[e].refs = Cardinality(Handles(e)) + (IF cache.entry[e].inCache THEN 1 ELSE 0)
      /\ cache.entry[e].refs > 0

\* The two lists and the hash table hold the entries of the cache, each once,
\* and usage_ is what they count for.
InCache == {e \in DOMAIN cache.entry : cache.entry[e].inCache}
ListsExact ==
    /\ ToSet(cache.lru) = {e \in InCache : cache.entry[e].refs = 1}
    /\ ToSet(cache.inUse) = {e \in InCache : cache.entry[e].refs > 1}
    /\ IsInjective(cache.lru) /\ IsInjective(cache.inUse)
    /\ InCache = {LookupHandle(cache, key) : key \in FileNumber} \ {NoHandle}
    /\ cache.usage = FoldFunctionOnSet(+, 0, [e \in InCache |-> cache.entry[e].charge], InCache)

\* A file that was evicted does not come back: its descriptor is closed.
RemovedAreClosed ==
    \A e \in DOMAIN cache.entry : cache.entry[e].key \notin removed

\* No table is used after its file was closed, and none stays open for good.
TablesAreKept == HeldAreOpen /\ RefsCounted /\ ListsExact /\ RemovedAreClosed
=============================================================================

------------------------------ MODULE MemTable ------------------------------
(***************************************************************************)
(* A memtable of leveldb (db/memtable.cc) and the skip list it is           *)
(* (db/skiplist.h): one writer, which the queue of DBImpl elects, and a     *)
(* reader that takes no lock.  An action is one store the reader can see,   *)
(* or one load of the reader.  A node is named by the sequence number of    *)
(* its entry.                                                               *)
(***************************************************************************)
EXTENDS Integers, FiniteSets

CONSTANTS
    MemUserKey,         \* user keys, integers
    MemEntries,         \* bound on the entries of a memtable
    kMaxHeight

ASSUME MemBounds ==
    MemUserKey \subseteq Int /\ MemEntries \in Nat /\ kMaxHeight \in Nat \ {0}

ListHead == 0
Null == MemEntries + 1
Garbage == MemEntries + 2           \* a link that was never written
Node == 1..MemEntries
Height == 1..kMaxHeight
ListLevel == 0..(kMaxHeight - 1)
NoFind == "none"

VARIABLES
    userKey,            \* user keys of the entries, in the order of their numbers
    link,               \* next_ of every node
    heights,            \* the values max_height_ has had
    insert,             \* the call of Insert under way
    visible,            \* the last sequence the writer has published
    iter                \* an Iterator, or a call of Get

memVars == <<userKey, link, heights, insert, visible, iter>>

Inserted == DOMAIN userKey
NoInsert == [node |-> Null, height |-> 1, level |-> 0, prev |-> <<>>, linked |-> FALSE]

\* The internal key of a node, and the order of InternalKeyComparator.
Internal(n) == [user |-> userKey[n], seq |-> n]
Before(a, b) == a.user < b.user \/ (a.user = b.user /\ a.seq > b.seq)
KeyIsAfterNode(key, n) == n # Null /\ Before(Internal(n), key)

MemInit ==
    /\ userKey = <<>>
    /\ link = [n \in {ListHead} |-> [l \in ListLevel |-> Null]]
    /\ heights = {1}
    /\ insert = NoInsert
    /\ visible = 0
    /\ iter = [find |-> NoFind, target |-> [user |-> 0, seq |-> 0], x |-> ListHead, level |-> -1,
               node |-> Null, seen |-> {}]

-----------------------------------------------------------------------------
(* The writer.                                                               *)

\* The loop of FindGreaterOrEqual on one level, for the writer, which nobody
\* disturbs: where it ends, by the node it begins at.
WalkTo(key, l) ==
    LET walk[x \in {n \in DOMAIN link : l \in DOMAIN link[n]}] ==
          IF KeyIsAfterNode(key, link[x][l]) THEN walk[link[x][l]] ELSE x
    IN  walk

\* FindGreaterOrEqual for the writer: prev[], from the highest level down.
FindPrev(key) ==
    LET prev[l \in ListLevel] ==
          WalkTo(key, l)[IF l = kMaxHeight - 1 THEN ListHead ELSE prev[l + 1]]
    IN  prev

\* Insert raises max_height_ without a barrier; the new levels of the head are Null.
RaisedTo(height) ==
    IF \A h \in heights : height > h THEN heights \cup {height} ELSE heights

\* MemTable::Add, up to the allocation of the node.
InsertBegins(user, height) ==
    LET n == Cardinality(Inserted) + 1 IN
    /\ insert = NoInsert
    /\ n \in Node
    /\ insert' = [node |-> n, height |-> height, level |-> 0, linked |-> FALSE,
                  prev |-> FindPrev([user |-> user, seq |-> n])]
    /\ userKey' = [m \in Inserted \cup {n} |-> IF m = n THEN user ELSE userKey[m]]
    /\ link' = [m \in DOMAIN link \cup {n} |->
                  IF m = n THEN [l \in 0..(height - 1) |-> Garbage] ELSE link[m]]
    /\ heights' = RaisedTo(height)
    /\ UNCHANGED <<visible, iter>>

\* x->NoBarrier_SetNext(i, ...)
LinkNode ==
    /\ insert # NoInsert /\ ~insert.linked
    /\ link' = [link EXCEPT ![insert.node][insert.level] = link[insert.prev[insert.level]][insert.level]]
    /\ insert' = [insert EXCEPT !.linked = TRUE]
    /\ UNCHANGED <<userKey, heights, visible, iter>>

\* prev[i]->SetNext(i, x)
PublishNode ==
    /\ insert # NoInsert /\ insert.linked
    /\ link' = [link EXCEPT ![insert.prev[insert.level]][insert.level] = insert.node]
    /\ insert' = IF insert.level + 1 = insert.height THEN NoInsert
                 ELSE [insert EXCEPT !.level = @ + 1, !.linked = FALSE]
    /\ UNCHANGED <<userKey, heights, visible, iter>>

\* The sequence number before the nodes that have it.
SetLastSequenceEarly ==
    /\ visible # Cardinality(Inserted)
    /\ visible' = Cardinality(Inserted)
    /\ UNCHANGED <<userKey, link, heights, insert, iter>>

\* DBImpl::Write: versions_->SetLastSequence(last_sequence), after the batch.
SetLastSequence ==
    /\ insert = NoInsert
    /\ visible # Cardinality(Inserted)
    /\ visible' = Cardinality(Inserted)
    /\ UNCHANGED <<userKey, link, heights, insert, iter>>

-----------------------------------------------------------------------------
(* The reader.                                                               *)

\* What a walk on the lowest level meets.
Reachable ==
    LET from[n \in DOMAIN link \cup {Null, Garbage}] ==
          IF n \in {Null, Garbage} THEN {} ELSE {n} \cup from[link[n][0]]
    IN  from[ListHead] \ {ListHead}

\* GetMaxHeight is a load without a barrier: it may return an older value.
FindBegins(find, target) ==
    \E height \in heights :
      iter' = [iter EXCEPT !.find = find, !.target = target, !.x = ListHead, !.level = height - 1,
                           !.node = Null, !.seen = Reachable]

ReaderIdle == iter.level = -1
MemValid == iter.node \in Node

MemSeek(user, seq) ==          \* MemTable::Get, and MemTableIterator::Seek
    ReaderIdle /\ FindBegins("GreaterOrEqual", [user |-> user, seq |-> seq])

MemSeekToLast ==
    ReaderIdle /\ FindBegins("Last", iter.target)

MemPrev ==
    ReaderIdle /\ MemValid /\ FindBegins("LessThan", Internal(iter.node))

\* MemSeekToFirst and Next are a single load.
MemSeekToFirst ==
    /\ ReaderIdle
    /\ iter' = [iter EXCEPT !.find = "First", !.seen = Reachable, !.node = link[ListHead][0]]

MemIterNext ==
    /\ ReaderIdle /\ MemValid
    /\ iter' = [iter EXCEPT !.find = "Next", !.target = Internal(iter.node), !.seen = Reachable,
                            !.node = link[iter.node][0]]

\* One turn of the loops of FindGreaterOrEqual, FindLessThan and FindLast.
FindStep ==
    LET next == link[iter.x][iter.level]
        goOn == IF iter.find = "Last" THEN next # Null ELSE KeyIsAfterNode(iter.target, next)
    IN  /\ ~ReaderIdle
        /\ next # Garbage
        /\ iter' = IF goOn THEN [iter EXCEPT !.x = next]
                   ELSE IF iter.level > 0 THEN [iter EXCEPT !.level = @ - 1]
                   ELSE [iter EXCEPT !.level = -1, !.x = ListHead,
                                     !.node = IF iter.find = "GreaterOrEqual" THEN next
                                              ELSE IF iter.x = ListHead THEN Null ELSE iter.x]

MemRead ==
    /\ \/ \E user \in MemUserKey, seq \in 0..visible : MemSeek(user, seq)
       \/ MemSeekToLast
       \/ MemPrev
       \/ MemSeekToFirst
       \/ MemIterNext
       \/ FindStep
    /\ UNCHANGED <<userKey, link, heights, insert, visible>>

MemNext ==
    \/ \E user \in MemUserKey, height \in Height : InsertBegins(user, height)
    \/ LinkNode
    \/ PublishNode
    \/ SetLastSequence
    \/ MemRead

MemSpec == MemInit /\ [][MemNext]_memVars

-----------------------------------------------------------------------------
\* No reader goes through a link that was not written yet.
NoGarbageRead ==
    ReaderIdle \/ link[iter.x][iter.level] # Garbage

\* Where an operation of the iterator may end, whatever is inserted meanwhile:
\* it passes over no entry that was in the list when it began.
After(n, key) == Before(key, Internal(n))
IteratorExact ==
    ReaderIdle =>
      LET n == iter.node
          key == iter.target
          From(m) == ~KeyIsAfterNode(key, m)
          NotPast(m) == n # Null /\ (m = n \/ Before(Internal(n), Internal(m)))
          NotBefore(m) == n # Null /\ (m = n \/ After(n, Internal(m)))
      IN  CASE iter.find = "GreaterOrEqual" ->
                 (n # Null => From(n)) /\ \A m \in iter.seen : From(m) => NotPast(m)
            [] iter.find = "Next" ->
                 (n # Null => After(n, key)) /\ \A m \in iter.seen : After(m, key) => NotPast(m)
            [] iter.find = "First" -> \A m \in iter.seen : NotPast(m)
            [] iter.find = "LessThan" ->
                 (n # Null => KeyIsAfterNode(key, n))
                 /\ \A m \in iter.seen : KeyIsAfterNode(key, m) => NotBefore(m)
            [] iter.find = "Last" -> \A m \in iter.seen : NotBefore(m)
            [] OTHER -> TRUE

\* MemTable::Get at a sequence number finds the newest entry of the user key
\* that is not newer, or finds that there is none.
GetExact ==
    (ReaderIdle /\ iter.find = "GreaterOrEqual") =>
      LET candidates == {m \in Inserted : userKey[m] = iter.target.user /\ m <= iter.target.seq}
      IN  IF candidates = {} THEN iter.node = Null \/ userKey[iter.node] # iter.target.user
          ELSE iter.node \in candidates /\ \A m \in candidates : m <= iter.node

\* What a reader without a lock may rely on while a group is inserted.
MemTableReads == NoGarbageRead /\ IteratorExact /\ GetExact
=============================================================================

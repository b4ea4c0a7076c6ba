------------------------------- MODULE Block -------------------------------
(***************************************************************************)
(* The blocks of a leveldb table (table/block_builder.cc, table/block.cc),  *)
(* and the order of their keys (util/comparator.cc).  A key is a sequence   *)
(* of bytes, of which kMaxByte is the largest.  A block is a sequence of     *)
(* entries, which leave out what their key shares with the one before, and   *)
(* of restart points: an offset is the number of entries before it.          *)
(***************************************************************************)
EXTENDS Integers, FiniteSets, Sequences, SequencesExt

CONSTANTS
    kMaxByte,
    BlockRestartInterval

ASSUME BlockBounds == kMaxByte \in Nat /\ BlockRestartInterval \in Nat \ {0}

-----------------------------------------------------------------------------
(* BytewiseComparator.                                                         *)
SharedLength(a, b) == Cardinality({n \in DOMAIN a \cap DOMAIN b : SubSeq(a, 1, n) = SubSeq(b, 1, n)})

KeyLess(a, b) ==
    LET n == SharedLength(a, b) IN
    n < Len(b) /\ (n < Len(a) => a[n + 1] < b[n + 1])

FindShortestSeparator(start, limit) ==
    LET n == SharedLength(start, limit) IN
    IF n < Len(start) /\ n < Len(limit) /\ start[n + 1] < kMaxByte /\ start[n + 1] + 1 < limit[n + 1]
    THEN Append(SubSeq(start, 1, n), start[n + 1] + 1)
    ELSE start

FindShortSuccessor(key) ==
    LET i == SelectInSeq(key, LAMBDA byte : byte # kMaxByte) IN
    IF i = 0 THEN key ELSE Append(SubSeq(key, 1, i - 1), key[i] + 1)

-----------------------------------------------------------------------------
(* BlockBuilder.                                                               *)
EmptyBlock == [entries |-> <<>>, restarts |-> <<0>>, counter |-> 0, lastKey |-> <<>>, size |-> 0]

BlockAdd(b, interval, key, value) ==
    LET restart == b.counter >= interval
        shared == IF restart THEN 0 ELSE SharedLength(b.lastKey, key)
    IN  [entries |-> Append(b.entries, [shared |-> shared, value |-> value,
                                        rest |-> SubSeq(key, shared + 1, Len(key))]),
         restarts |-> IF restart THEN Append(b.restarts, Len(b.entries)) ELSE b.restarts,
         counter |-> IF restart THEN 1 ELSE b.counter + 1,
         lastKey |-> key,
         size |-> b.size + 3 + Len(key) - shared + 1]

CurrentSizeEstimate(b) == b.size + 4 * Len(b.restarts) + 4

-----------------------------------------------------------------------------
(* Block::Iter.                                                                *)
Unpositioned(b) ==
    [block |-> b, current |-> Len(b.entries), restart |-> Len(b.restarts), key |-> <<>>, next |-> 0,
     ok |-> TRUE]
IterError == [block |-> EmptyBlock, current |-> 0, restart |-> 0, key |-> <<>>, next |-> 0, ok |-> FALSE]

BlockValid(it) == it.current < Len(it.block.entries)
BlockValue(it) == it.block.entries[it.current + 1].value

GetRestartPoint(it, index) == it.block.restarts[index + 1]
SeekToRestartPoint(it, index) ==
    [it EXCEPT !.key = <<>>, !.restart = index, !.next = GetRestartPoint(it, index)]

Invalidated(it) == [it EXCEPT !.current = Len(it.block.entries), !.restart = Len(it.block.restarts)]

ParseNextKey(it) ==
    IF it.next >= Len(it.block.entries) THEN Invalidated(it)
    ELSE LET entry == it.block.entries[it.next + 1]
             passed == {i \in it.restart..(Len(it.block.restarts) - 1) :
                          i > it.restart /\ GetRestartPoint(it, i) < it.next}
         IN  IF Len(it.key) < entry.shared THEN [Invalidated(it) EXCEPT !.ok = FALSE]
             ELSE [it EXCEPT !.current = it.next, !.next = it.next + 1,
                             !.key = SubSeq(@, 1, entry.shared) \o entry.rest,
                             !.restart = @ + Cardinality(passed)]

\* ParseNextKey until an entry that satisfies Test, or the end.
ParseUntil(it, Test(_)) ==
    LET parsed[n \in Nat] == IF n = 0 THEN it ELSE ParseNextKey(parsed[n - 1])
        enough == {n \in 1..(Len(it.block.entries) + 1) : ~BlockValid(parsed[n]) \/ Test(parsed[n])}
    IN  parsed[CHOOSE n \in enough : \A m \in enough : n <= m]

\* The binary search: the last restart point with a key before the target, or 0;
\* -1 if an entry there leaves something out.
RECURSIVE RestartBefore(_, _, _, _)
RestartBefore(it, target, left, right) ==
    IF left >= right THEN left
    ELSE LET mid == (left + right + 1) \div 2
             entry == it.block.entries[GetRestartPoint(it, mid) + 1]
         IN  IF entry.shared # 0 THEN -1
             ELSE IF KeyLess(entry.rest, target) THEN RestartBefore(it, target, mid, right)
             ELSE RestartBefore(it, target, left, mid - 1)

BlockSeek(it, target) ==
    LET index == RestartBefore(it, target, 0, Len(it.block.restarts) - 1) IN
    IF index = -1 THEN [Invalidated(it) EXCEPT !.ok = FALSE]
    ELSE ParseUntil(SeekToRestartPoint(it, index), LAMBDA p : ~KeyLess(p.key, target))

BlockSeekToFirst(it) == ParseNextKey(SeekToRestartPoint(it, 0))
BlockSeekToLast(it) ==
    ParseUntil(SeekToRestartPoint(it, Len(it.block.restarts) - 1),
               LAMBDA p : p.next >= Len(it.block.entries))

BlockNext(it) == ParseNextKey(it)

\* The last restart point before the current entry, and on from it.
BlockPrevFrom(it, before) ==
    IF before = {} THEN Invalidated(it)
    ELSE ParseUntil(SeekToRestartPoint(it, CHOOSE i \in before : \A j \in before : j <= i),
                    LAMBDA p : p.next >= it.current)
BlockPrev(it) ==
    BlockPrevFrom(it, {i \in 0..it.restart : i < Len(it.block.restarts)
                                             /\ GetRestartPoint(it, i) < it.current})
=============================================================================

------------------------------- MODULE Table -------------------------------
(***************************************************************************)
(* A table of leveldb: the builder (table/table_builder.cc,                  *)
(* table/filter_block.cc, util/bloom.cc), the blocks of the file             *)
(* (table/format.cc), and what reads it (table/table.cc,                     *)
(* table/two_level_iterator.cc).  Errors of Append stop the builder; a block *)
(* of the finished file may be unreadable.                                   *)
(***************************************************************************)
EXTENDS Block

CONSTANTS
    TableKey,           \* keys, and targets of lookups
    BlockSize,          \* the values of block_size
    kFilterBase,
    HashBits,           \* the width of a hash, 32 in the code
    KeyHash,            \* BloomHash of the keys
    BloomBitsPerKey, BloomProbes

ASSUME TableBounds ==
    /\ BlockSize \subseteq Nat /\ {kFilterBase, HashBits, BloomBitsPerKey, BloomProbes} \subseteq Nat \ {0}
    /\ KeyHash \in [TableKey -> 0..(2^HashBits - 1)]

VARIABLES
    builder,            \* TableBuilder::Rep
    blocks,             \* the blocks of the file, by offset
    footer,             \* the handle of the index block, or the metaindex block and it
    lost,               \* the offset of the block that cannot be read, or -1
    twoLevel            \* a TwoLevelIterator over the table

tableVars == <<builder, blocks, footer, lost, twoLevel>>

kBlockTrailerSize == 5
NoHandleYet == -1

-----------------------------------------------------------------------------
(* BloomFilterPolicy, and the filter block: a filter for every kFilterBase     *)
(* bytes of the file, of the keys of the blocks that begin there.              *)
Rotated(h) == (h \div 2^(HashBits \div 2)) + (h % 2^(HashBits \div 2)) * 2^(HashBits - HashBits \div 2)
Probes(key, bits) ==
    {((KeyHash[key] + j * Rotated(KeyHash[key])) % 2^HashBits) % bits : j \in 0..(BloomProbes - 1)}

CreateFilter(keys) ==
    LET wanted == Cardinality(keys) * BloomBitsPerKey
        bits == 8 * (((IF wanted < 64 THEN 64 ELSE wanted) + 7) \div 8)
    IN  [size |-> bits, set |-> UNION {Probes(key, bits) : key \in keys}]
NoFilterData == [size |-> 0, set |-> {}]
BloomMayMatch(filter, key) == filter.size > 0 /\ Probes(key, filter.size) \subseteq filter.set

\* GenerateFilter, once or as often as a block at the offset needs.
GenerateFilter(f) ==
    [keys |-> {}, list |-> Append(f.list, IF f.keys = {} THEN NoFilterData ELSE CreateFilter(f.keys))]
RECURSIVE StartBlock(_, _)
StartBlock(f, offset) ==
    IF offset \div kFilterBase > Len(f.list) THEN StartBlock(GenerateFilter(f), offset) ELSE f
FilterFinish(f) == IF f.keys = {} THEN f.list ELSE GenerateFilter(f).list

KeyMayMatch(list, offset, key) ==
    LET index == offset \div kFilterBase + 1 IN
    index \in DOMAIN list => BloomMayMatch(list[index], key)

-----------------------------------------------------------------------------
TableInit ==
    /\ \E size \in BlockSize :
         builder = [blockSize |-> size, offset |-> 0, ok |-> TRUE, data |-> EmptyBlock, index |-> EmptyBlock,
                    lastKey |-> <<>>, keys |-> {}, closed |-> FALSE, filter |-> [keys |-> {}, list |-> <<>>],
                    pending |-> NoHandleYet]
    /\ blocks = <<>> /\ footer = <<>> /\ lost = -1
    /\ twoLevel = [index |-> IterError, data |-> IterError, hasData |-> FALSE, handle |-> NoHandleYet, ok |-> TRUE]

\* The size in the file of a block that WriteBlock appends; restarts are Finish.
Extent(b) == CurrentSizeEstimate(b) + kBlockTrailerSize

\* Flush: the data block goes to the file, and its index entry is pending.
Flushed(r) ==
    IF r.data.entries = <<>> THEN r
    ELSE [r EXCEPT !.pending = r.offset, !.offset = @ + Extent(r.data), !.data = EmptyBlock,
                   !.filter = StartBlock(@, r.offset + Extent(r.data))]

IndexEntry(r, separator) ==
    IF r.pending = NoHandleYet THEN r
    ELSE [r EXCEPT !.index = BlockAdd(@, 1, separator, r.pending), !.pending = NoHandleYet]

\* TableBuilder::Add.  When the block is full it is written, which may fail.
TableAdd(key) ==
    LET r == IndexEntry(builder, FindShortestSeparator(builder.lastKey, key))
        added == [r EXCEPT !.filter.keys = @ \cup {key}, !.lastKey = key, !.keys = @ \cup {key},
                           !.data = BlockAdd(@, BlockRestartInterval, key, key)]
        full == CurrentSizeEstimate(added.data) >= builder.blockSize
    IN  /\ builder.ok /\ ~builder.closed
        /\ \A k \in builder.keys : KeyLess(k, key)
        /\ IF full
           THEN \/ /\ builder' = Flushed(added)
                   /\ blocks' = [o \in DOMAIN blocks \cup {added.offset} |->
                                   IF o = added.offset THEN added.data ELSE blocks[o]]
                \/ /\ builder' = [added EXCEPT !.ok = FALSE]
                   /\ UNCHANGED blocks
           ELSE builder' = added /\ UNCHANGED blocks
        /\ UNCHANGED <<footer, lost, twoLevel>>

\* The two handles of the footer; the model keeps what they point to.
Footer(metaindex, index, filter) == [metaindex |-> metaindex, index |-> index, filter |-> filter]

\* Finish: the last data block, the filter, metaindex and index blocks, the footer.
\* The caller removes a file that is not complete.
TableFinish ==
    LET r == Flushed(builder)
        all == IndexEntry(r, FindShortSuccessor(r.lastKey))
        meta == r.offset + 1        \* past the filter block, whose size nothing reads
    IN  /\ builder.ok /\ ~builder.closed
        /\ \/ /\ builder' = [all EXCEPT !.closed = TRUE]
              /\ blocks' = [o \in DOMAIN blocks \cup {builder.offset : e \in ToSet(builder.data.entries)} |->
                              IF o = builder.offset THEN builder.data ELSE blocks[o]]
              /\ footer' = <<Footer(meta, all.index, FilterFinish(r.filter))>>
           \/ /\ builder' = [builder EXCEPT !.ok = FALSE, !.closed = TRUE]
              /\ UNCHANGED <<blocks, footer>>
        /\ UNCHANGED <<lost, twoLevel>>

\* Table::Open and NewIterator; a data block may have been damaged.  Without its
\* metaindex or its filter block the table is read without a filter.
Opened == footer # <<>> /\ twoLevel.index # IterError
OpenTable ==
    /\ footer # <<>> /\ ~Opened
    /\ twoLevel' = [twoLevel EXCEPT !.index = Unpositioned(footer[1].index)]
    /\ lost' \in DOMAIN blocks \cup {-1}
    /\ \/ UNCHANGED footer
       \/ footer' = <<[footer[1] EXCEPT !.filter = <<>>]>>
    /\ UNCHANGED <<builder, blocks>>

-----------------------------------------------------------------------------
(* Table::BlockReader, and the TwoLevelIterator.                               *)
ReadBlock(handle) ==            \* the read fails or is short, or the block it gives
    IF handle = lost THEN [ok |-> FALSE] ELSE [ok |-> TRUE, block |-> blocks[handle]]
BlockReader(handle) ==
    LET read == ReadBlock(handle) IN IF read.ok THEN Unpositioned(read.block) ELSE IterError

\* The error of a block is forgotten when the iterator leaves it.
SaveNoError(t) == t
SaveError(t) == IF t.hasData /\ ~t.data.ok THEN [t EXCEPT !.ok = FALSE] ELSE t

SetDataIterator(t, data) == [SaveError(t) EXCEPT !.data = data, !.hasData = TRUE]
NoData(t) == [SaveError(t) EXCEPT !.hasData = FALSE]

InitDataBlock(t) ==
    IF ~BlockValid(t.index) THEN NoData(t)
    ELSE LET handle == BlockValue(t.index) IN
         IF t.hasData /\ handle = t.handle THEN t
         ELSE [SetDataIterator(t, BlockReader(handle)) EXCEPT !.handle = handle]

\* data_iter_, an IteratorWrapper, is moved, if there is one.
WithData(t, moved) == IF t.hasData THEN [t EXCEPT !.data = moved] ELSE t

\* Past blocks that have nothing more.
RECURSIVE SkipEmptyDataBlocks(_, _)
SkipEmptyDataBlocks(t, forward) ==
    IF t.hasData /\ BlockValid(t.data) THEN t
    ELSE IF ~BlockValid(t.index) THEN NoData(t)
    ELSE LET moved == InitDataBlock([t EXCEPT !.index = IF forward THEN BlockNext(@) ELSE BlockPrev(@)])
             entered == WithData(moved, IF forward THEN BlockSeekToFirst(moved.data) ELSE BlockSeekToLast(moved.data))
         IN  SkipEmptyDataBlocks(entered, forward)

SkipForward(t) == SkipEmptyDataBlocks(t, TRUE)
SkipBackward(t) == SkipEmptyDataBlocks(t, FALSE)

TwoLevelValid(t) == t.hasData /\ BlockValid(t.data)
TwoLevelSeek(t, target) ==
    LET at == InitDataBlock([t EXCEPT !.index = BlockSeek(@, target)])
    IN  SkipForward(WithData(at, BlockSeek(at.data, target)))
TwoLevelFirst(t) ==
    LET at == InitDataBlock([t EXCEPT !.index = BlockSeekToFirst(@)])
    IN  SkipForward(WithData(at, BlockSeekToFirst(at.data)))
TwoLevelLast(t) ==
    LET at == InitDataBlock([t EXCEPT !.index = BlockSeekToLast(@)])
    IN  SkipBackward(WithData(at, BlockSeekToLast(at.data)))
TwoLevelNext(t) == SkipForward(WithData(t, BlockNext(t.data)))
TwoLevelPrev(t) == SkipBackward(WithData(t, BlockPrev(t.data)))
TwoLevelOk(t) == t.index.ok /\ (t.hasData => t.data.ok) /\ t.ok

MoveIterator ==
    /\ Opened
    /\ twoLevel' \in {TwoLevelFirst(twoLevel), TwoLevelLast(twoLevel)}
                     \cup {TwoLevelSeek(twoLevel, key) : key \in TableKey}
                     \cup (IF TwoLevelValid(twoLevel) THEN {TwoLevelNext(twoLevel), TwoLevelPrev(twoLevel)} ELSE {})
    /\ UNCHANGED <<builder, blocks, footer, lost>>

\* Table::InternalGet: what the saver is called with, if it is, and the status.
InternalGet(key) ==
    LET index == BlockSeek(Unpositioned(footer[1].index), key)
        handle == BlockValue(index)
        data == BlockSeek(BlockReader(handle), key)
    IN  IF ~BlockValid(index) \/ ~KeyMayMatch(footer[1].filter, handle, key)
        THEN [saved |-> <<>>, ok |-> index.ok]
        ELSE [saved |-> IF BlockValid(data) THEN <<data.key>> ELSE <<>>, ok |-> data.ok /\ index.ok]

ApproximateOffsetOf(key) ==
    LET index == BlockSeek(Unpositioned(footer[1].index), key) IN
    IF BlockValid(index) THEN BlockValue(index) ELSE footer[1].metaindex

TableNext ==
    \/ \E key \in TableKey : TableAdd(key)
    \/ TableFinish
    \/ OpenTable
    \/ MoveIterator

-----------------------------------------------------------------------------
Stored == builder.keys
Readable == IF lost = -1 THEN Stored ELSE Stored \ {e.value : e \in ToSet(blocks[lost].entries)}

\* A lookup finds a key that is stored, filter or not, and takes no other key for
\* it; where the block of the key is lost it says so, and never that it is absent.
GetsExact ==
    \A key \in TableKey :
      LET got == InternalGet(key) IN
      /\ key \in Readable => got = [saved |-> <<key>>, ok |-> TRUE]
      /\ key \in Stored \ Readable => ~got.ok
      /\ got.saved # <<>> => got.saved[1] \in Stored /\ ~KeyLess(got.saved[1], key)

\* The iterator is at a stored key, with its value, wherever it was moved from; a
\* move goes to the nearest key that can be read, and passes over the keys of a
\* lost block only with an error in its status.
AtStored ==
    TwoLevelValid(twoLevel) => twoLevel.data.key \in Readable /\ BlockValue(twoLevel.data) = twoLevel.data.key

NearestAbove(t, keys) ==
    IF keys = {} THEN ~TwoLevelValid(t)
    ELSE TwoLevelValid(t) /\ t.data.key \in keys /\ \A k \in keys : ~KeyLess(k, t.data.key)
NearestBelow(t, keys) ==
    IF keys = {} THEN ~TwoLevelValid(t)
    ELSE TwoLevelValid(t) /\ t.data.key \in keys /\ \A k \in keys : ~KeyLess(t.data.key, k)
Moves(t, nearest, passed) == nearest /\ (passed \subseteq Readable \/ ~TwoLevelOk(t))

Between(low, high, keys) == {k \in keys : KeyLess(low, k) /\ KeyLess(k, high)}
MovesExact ==
    LET here == twoLevel.data.key
        first == TwoLevelFirst(twoLevel)
        last == TwoLevelLast(twoLevel)
        next == TwoLevelNext(twoLevel)
        prev == TwoLevelPrev(twoLevel)
        Low(t, keys) == {k \in keys : TwoLevelValid(t) => KeyLess(k, t.data.key)}
        High(t, keys) == {k \in keys : TwoLevelValid(t) => KeyLess(t.data.key, k)}
    IN  /\ Moves(first, NearestAbove(first, Readable), Low(first, Stored))
        /\ Moves(last, NearestBelow(last, Readable), High(last, Stored))
        /\ \A key \in TableKey :
             LET t == TwoLevelSeek(twoLevel, key)
                 From(keys) == {k \in keys : ~KeyLess(k, key)}
             IN  Moves(t, NearestAbove(t, From(Readable)), Low(t, From(Stored)))
        /\ TwoLevelValid(twoLevel) =>
             LET Above(keys) == {k \in keys : KeyLess(here, k)}
                 Below(keys) == {k \in keys : KeyLess(k, here)}
             IN  /\ Moves(next, NearestAbove(next, Above(Readable)), Low(next, Above(Stored)))
                 /\ Moves(prev, NearestBelow(prev, Below(Readable)), High(prev, Below(Stored)))

OffsetsAscend ==
    \A a, b \in TableKey : KeyLess(a, b) => ApproximateOffsetOf(a) <= ApproximateOffsetOf(b)

\* A table that was finished gives back what was put into it.
TableReadsBack == Opened => GetsExact /\ AtStored /\ MovesExact /\ OffsetsAscend
=============================================================================

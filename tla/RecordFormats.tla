--------------------------- MODULE RecordFormats ---------------------------
(***************************************************************************)
(* What leveldb writes and reads back: numbers (util/coding.cc), internal  *)
(* keys (db/dbformat.cc), write batches (db/write_batch.cc), version edits *)
(* (db/version_edit.cc) and file names (db/filename.cc).  A byte has       *)
(* kByte values of which the upper half has the bit that says "more        *)
(* follows"; a 32-bit number is Fixed32 bytes long and a 64-bit number     *)
(* Fixed64.  Each behaviour writes one item, may lose its end, and reads.  *)
(***************************************************************************)
EXTENDS Integers, FiniteSets, Sequences, SequencesExt

CONSTANTS
    kByte,       \* values of a byte
    Fixed32,     \* bytes of a uint32_t
    Fixed64,     \* bytes of a uint64_t
    UserKeys,    \* user keys: sequences of bytes
    Values,      \* values of a batch
    Sequences64, \* sequence numbers tried
    MaxOps,      \* operations of a batch
    Edits,       \* version edits tried
    Names,       \* names of files in the directory: [prefix, digits, suffix]
    MinDigits    \* the 6 of "%06llu"

ASSUME FormatBounds == /\ kByte \in Nat /\ kByte > 1 /\ kByte % 2 = 0
                       /\ {Fixed32, Fixed64, MinDigits} \subseteq Nat \ {0}

VARIABLES fmtItem, fmtBytes, fmtLost, fmtRead
formatVars == <<fmtItem, fmtBytes, fmtLost, fmtRead>>

Comparator == INSTANCE Block WITH kMaxByte <- kByte - 1, BlockRestartInterval <- 1

kNumLevels == 7
kTypeDeletion == 0
kTypeValue == 1

-----------------------------------------------------------------------------
(* Numbers.                                                                    *)
More == kByte \div 2
\* The number whose digits to a base are s, the lowest first.
RECURSIVE NumberOf(_, _)
NumberOf(s, base) == IF s = <<>> THEN 0 ELSE Head(s) + base * NumberOf(Tail(s), base)

EncodeFixed(v, width) == [i \in 1..width |-> (v \div kByte^(i - 1)) % kByte]
DecodeFixed(s) == NumberOf(s, kByte)

RECURSIVE VarintLength(_), EncodeVarint(_)
VarintLength(v) == IF v < More THEN 1 ELSE 1 + VarintLength(v \div More)
EncodeVarint(v) == IF v < More THEN <<v>> ELSE <<(v % More) + More>> \o EncodeVarint(v \div More)

\* The value at the head of s and what follows it; at most as many bytes are
\* looked at as a number of that width can take.
NotRead(s) == [ok |-> FALSE, value |-> 0, rest |-> s]
GetVarint(s, width) ==
    LET n == SelectInSeq(s, LAMBDA b : b < More)
    IN  IF n = 0 \/ n > VarintLength(kByte^width - 1) THEN NotRead(s)
        ELSE [ok |-> TRUE,
              value |-> NumberOf([i \in 1..n |-> s[i] % More], More) % kByte^width,
              rest |-> SubSeq(s, n + 1, Len(s))]

PutLengthPrefixedSlice(s) == EncodeVarint(Len(s)) \o s
GetLengthPrefixedSlice(s) ==
    LET len == GetVarint(s, Fixed32) IN
    IF ~len.ok \/ len.value > Len(len.rest) THEN NotRead(len.rest)
    ELSE [ok |-> TRUE, value |-> SubSeq(len.rest, 1, len.value),
          rest |-> SubSeq(len.rest, len.value + 1, Len(len.rest))]

-----------------------------------------------------------------------------
(* Internal keys.                                                              *)
kMaxSequenceNumber == kByte^(Fixed64 - 1) - 1
PackSequenceAndType(seq, t) == seq * kByte + t
AppendInternalKey(user, seq, t) == user \o EncodeFixed(PackSequenceAndType(seq, t), Fixed64)

ExtractUserKey(key) == SubSeq(key, 1, Len(key) - Fixed64)
PackedNumber(key) == DecodeFixed(SubSeq(key, Len(key) - Fixed64 + 1, Len(key)))
ParseInternalKey(key) ==
    IF Len(key) < Fixed64 THEN NotRead(key)
    ELSE LET num == PackedNumber(key) IN
         [ok |-> num % kByte <= kTypeValue, rest |-> <<>>,
          value |-> <<ExtractUserKey(key), num \div kByte, num % kByte>>]

\* Compare(a, b) < 0.
InternalLess(a, b) ==
    \/ Comparator!KeyLess(ExtractUserKey(a), ExtractUserKey(b))
    \/ ExtractUserKey(a) = ExtractUserKey(b) /\ PackedNumber(a) > PackedNumber(b)
\* start, or the shortened user key with the earliest number.
Shortened(start, short) ==
    IF Len(short) < Len(ExtractUserKey(start)) /\ Comparator!KeyLess(ExtractUserKey(start), short)
    THEN AppendInternalKey(short, kMaxSequenceNumber, kTypeValue)
    ELSE start
InternalShortestSeparator(start, limit) ==
    Shortened(start, Comparator!FindShortestSeparator(ExtractUserKey(start), ExtractUserKey(limit)))
InternalShortSuccessor(key) == Shortened(key, Comparator!FindShortSuccessor(ExtractUserKey(key)))

\* The memtable key of a LookupKey; its internal key is the prefixed slice.
LookupKey(user, seq) ==
    EncodeVarint(Len(user) + Fixed64) \o AppendInternalKey(user, seq, kTypeValue)

-----------------------------------------------------------------------------
(* Write batches: an operation is <<type, key, value>>.                        *)
kHeader == Fixed64 + Fixed32
ClearedBatch == [i \in 1..kHeader |-> 0]
BatchSequence(rep) == DecodeFixed(SubSeq(rep, 1, Fixed64))
Count(rep) == DecodeFixed(SubSeq(rep, Fixed64 + 1, kHeader))
SetCount(rep, n) == SubSeq(rep, 1, Fixed64) \o EncodeFixed(n, Fixed32) \o SubSeq(rep, kHeader + 1, Len(rep))
SetSequence(rep, seq) == EncodeFixed(seq, Fixed64) \o SubSeq(rep, Fixed64 + 1, Len(rep))

BatchPut(rep, key, value) ==
    SetCount(rep, Count(rep) + 1) \o <<kTypeValue>>
        \o PutLengthPrefixedSlice(key) \o PutLengthPrefixedSlice(value)
BatchDelete(rep, key) ==
    SetCount(rep, Count(rep) + 1) \o <<kTypeDeletion>> \o PutLengthPrefixedSlice(key)
\* As it would be if the operations were not counted.
BatchAppendUncounted(dst, src) == dst \o SubSeq(src, kHeader + 1, Len(src))
BatchAppend(dst, src) ==
    SetCount(dst, Count(dst) + Count(src)) \o SubSeq(src, kHeader + 1, Len(src))

\* What the inserter added to the memtable, and whether Iterate was content.
RECURSIVE Iterate(_, _, _)
Iterate(rep, input, added) ==
    IF input = <<>> THEN [ok |-> Len(added) = Count(rep), added |-> added]
    ELSE LET tag == Head(input)
             key == GetLengthPrefixedSlice(Tail(input))
             value == IF tag = kTypeValue THEN GetLengthPrefixedSlice(key.rest)
                                          ELSE [key EXCEPT !.value = <<>>]
             entry == <<key.value, BatchSequence(rep) + Len(added), tag, value.value>>
         IN  IF tag \in {kTypeValue, kTypeDeletion} /\ key.ok /\ value.ok
             THEN Iterate(rep, value.rest, Append(added, entry))
             ELSE [ok |-> FALSE, added |-> added]
InsertInto(rep) ==
    IF Len(rep) < kHeader THEN [ok |-> FALSE, added |-> <<>>]
    ELSE Iterate(rep, SubSeq(rep, kHeader + 1, Len(rep)), <<>>)

-----------------------------------------------------------------------------
(* Version edits: a number or a name that is not set is the empty sequence.    *)
kComparator == 1
kLogNumber == 2
kNextFileNumber == 3
kLastSequence == 4
kCompactPointer == 5
kDeletedFile == 6
kNewFile == 7
kPrevLogNumber == 9

ClearedEdit == [comparator |-> <<>>, log |-> <<>>, prev |-> <<>>, next |-> <<>>, last |-> <<>>,
                pointers |-> <<>>, deleted |-> {}, files |-> <<>>]

\* What follows a tag.
Layout(tag) ==
    CASE tag = kComparator -> <<"slice">>
      [] tag \in {kLogNumber, kPrevLogNumber, kNextFileNumber, kLastSequence} -> <<"number">>
      [] tag = kCompactPointer -> <<"level", "slice">>
      [] tag = kDeletedFile -> <<"level", "number">>
      [] tag = kNewFile -> <<"level", "number", "number", "slice", "slice">>

PutPart(kind, v) == IF kind = "slice" THEN PutLengthPrefixedSlice(v) ELSE EncodeVarint(v)
PutField(tag, parts) ==
    EncodeVarint(tag) \o FlattenSeq([i \in DOMAIN parts |-> PutPart(Layout(tag)[i], parts[i])])
PutFields(tag, fields) == FlattenSeq([i \in DOMAIN fields |-> PutField(tag, fields[i])])
PutOptional(tag, set) == PutFields(tag, [i \in DOMAIN set |-> <<set[i]>>])

PairLess(a, b) == a[1] < b[1] \/ (a[1] = b[1] /\ a[2] < b[2])
EncodeTo(edit) ==
    PutOptional(kComparator, edit.comparator) \o PutOptional(kLogNumber, edit.log)
        \o PutOptional(kPrevLogNumber, edit.prev) \o PutOptional(kNextFileNumber, edit.next)
        \o PutOptional(kLastSequence, edit.last) \o PutFields(kCompactPointer, edit.pointers)
        \o PutFields(kDeletedFile, SetToSortSeq(edit.deleted, PairLess))
        \o PutFields(kNewFile, edit.files)

GetPart(kind, s) ==
    CASE kind = "slice" -> GetLengthPrefixedSlice(s)
      [] kind = "number" -> GetVarint(s, Fixed64)
      [] kind = "level" -> LET v == GetVarint(s, Fixed32) IN [v EXCEPT !.ok = @ /\ v.value < kNumLevels]

\* The parts of a field, until one cannot be read.
RECURSIVE GetParts(_, _, _)
GetParts(layout, s, parts) ==
    IF layout = <<>> THEN [ok |-> TRUE, value |-> parts, rest |-> s]
    ELSE LET part == GetPart(Head(layout), s) IN
         IF part.ok THEN GetParts(Tail(layout), part.rest, Append(parts, part.value)) ELSE NotRead(s)

SetField(edit, tag, parts) ==
    CASE tag = kComparator -> [edit EXCEPT !.comparator = parts]
      [] tag = kLogNumber -> [edit EXCEPT !.log = parts]
      [] tag = kPrevLogNumber -> [edit EXCEPT !.prev = parts]
      [] tag = kNextFileNumber -> [edit EXCEPT !.next = parts]
      [] tag = kLastSequence -> [edit EXCEPT !.last = parts]
      [] tag = kCompactPointer -> [edit EXCEPT !.pointers = Append(@, parts)]
      [] tag = kDeletedFile -> [edit EXCEPT !.deleted = @ \cup {parts}]
      [] tag = kNewFile -> [edit EXCEPT !.files = Append(@, parts)]

RECURSIVE DecodeFields(_, _)
DecodeFields(edit, input) ==
    LET tag == GetVarint(input, Fixed32) IN
    IF ~tag.ok THEN [ok |-> input = <<>>, edit |-> edit]
    ELSE IF tag.value \notin 1..7 \cup {kPrevLogNumber} THEN [ok |-> FALSE, edit |-> edit]
    ELSE LET parts == GetParts(Layout(tag.value), tag.rest, <<>>) IN
         IF ~parts.ok THEN [ok |-> FALSE, edit |-> edit]
         ELSE DecodeFields(SetField(edit, tag.value, parts.value), parts.rest)
DecodeFrom(s) == DecodeFields(ClearedEdit, s)

-----------------------------------------------------------------------------
(* File names: a prefix, decimal digits and a suffix.                          *)
kMaxNumber == kByte^Fixed64 - 1

\* Too large a number fails, and so does none.
RECURSIVE Consume(_, _)
Consume(v, digits) ==
    IF digits = <<>> THEN [ok |-> TRUE, value |-> v]
    ELSE IF v > kMaxNumber \div 10 \/ (v = kMaxNumber \div 10 /\ Head(digits) > kMaxNumber % 10)
         THEN [ok |-> FALSE, value |-> v]
         ELSE Consume(v * 10 + Head(digits), Tail(digits))
ConsumeDecimalNumber(digits) ==
    LET num == Consume(0, digits) IN [num EXCEPT !.ok = @ /\ digits # <<>>]

NotOurs == [ok |-> FALSE, number |-> 0, type |-> ""]
ParseFileName(name) ==
    LET num == ConsumeDecimalNumber(name.digits)
        Of(type) == [ok |-> TRUE, number |-> num.value, type |-> type]
    IN  CASE name.digits = <<>> /\ name.prefix \in {"CURRENT", "LOCK", "LOG", "LOG.old"} /\ name.suffix = ""
                  -> [ok |-> TRUE, number |-> 0, type |-> name.prefix]
          [] name.prefix = "MANIFEST-" /\ num.ok /\ name.suffix = "" -> Of("MANIFEST-")
          [] name.prefix = "" /\ num.ok /\ name.suffix = ".log" -> Of("log")
          [] name.prefix = "" /\ num.ok /\ name.suffix \in {".sst", ".ldb"} -> Of("table")
          [] name.prefix = "" /\ num.ok /\ name.suffix = ".dbtmp" -> Of("temp")
          [] OTHER -> NotOurs

\* At least MinDigits digits.
RECURSIVE PaddedDigits(_, _)
PaddedDigits(n, width) ==
    IF n = 0 /\ width = 0 THEN <<>>
    ELSE Append(PaddedDigits(n \div 10, IF width = 0 THEN 0 ELSE width - 1), n % 10)
Digits(n) == PaddedDigits(n, MinDigits)
MakeFileName(number, suffix) == [prefix |-> "", digits |-> Digits(number), suffix |-> suffix]
LogFileName(number) == MakeFileName(number, ".log")
TableFileName(number) == MakeFileName(number, ".ldb")
SSTTableFileName(number) == MakeFileName(number, ".sst")
TempFileName(number) == MakeFileName(number, ".dbtmp")
DescriptorFileName(number) == [prefix |-> "MANIFEST-", digits |-> Digits(number), suffix |-> ""]

-----------------------------------------------------------------------------
(* The behaviours.                                                             *)
NoItem == [kind |-> "none"]
InternalKeys == {AppendInternalKey(u, s, t) : u \in UserKeys, s \in Sequences64, t \in {0, 1}}

FormatsInit == fmtItem = NoItem /\ fmtBytes = <<>> /\ fmtLost = 0 /\ fmtRead = NoItem

Start(what, bytes) ==
    /\ fmtItem' = what /\ fmtBytes' = bytes
    /\ UNCHANGED <<fmtLost, fmtRead>>

WriteNumber ==
    /\ fmtItem = NoItem
    /\ \E v \in 0..kMaxNumber, width \in {Fixed32, Fixed64} :
          /\ v < kByte^width
          /\ Start([kind |-> "number", value |-> v, width |-> width], EncodeVarint(v))

\* A table's index key, or a file's bounds: two keys and what shortens them.
WriteKeys ==
    /\ fmtItem = NoItem
    /\ \E a, b \in InternalKeys :
          /\ InternalLess(a, b)
          /\ Start([kind |-> "keys", a |-> a, b |-> b],
                   PutLengthPrefixedSlice(InternalShortestSeparator(a, b)))

WriteLookup ==
    /\ fmtItem = NoItem
    /\ \E a \in InternalKeys, u \in UserKeys, s \in Sequences64 :
          Start([kind |-> "lookup", a |-> a, user |-> u, seq |-> s], LookupKey(u, s))

WriteEdit ==
    /\ fmtItem = NoItem
    /\ \E edit \in Edits : Start([kind |-> "edit", edit |-> edit], EncodeTo(edit))

WriteName ==
    /\ fmtItem = NoItem
    /\ \E name \in Names : Start([kind |-> "name", name |-> name], <<>>)

\* A batch under construction; ops is what was asked of it.
NewBatch ==
    /\ fmtItem = NoItem
    /\ \E s \in Sequences64 :
          Start([kind |-> "batch", ops |-> <<>>, seq |-> s], SetSequence(ClearedBatch, s))
Asked(ops, bytes) ==
    /\ fmtItem.kind = "batch" /\ fmtLost = 0 /\ fmtRead = NoItem
    /\ Len(fmtItem.ops) + Len(ops) <= MaxOps
    /\ fmtItem' = [fmtItem EXCEPT !.ops = @ \o ops]
    /\ fmtBytes' = bytes
    /\ UNCHANGED <<fmtLost, fmtRead>>
PutOp == \E k \in UserKeys, v \in Values :
    Asked(<< <<kTypeValue, k, v>> >>, BatchPut(fmtBytes, k, v))
DeleteOp == \E k \in UserKeys : Asked(<< <<kTypeDeletion, k, <<>> >> >>, BatchDelete(fmtBytes, k))
\* BuildBatchGroup appends another writer's batch.
AppendOp == \E k, l \in UserKeys, v \in Values :
    Asked(<< <<kTypeDeletion, k, <<>> >>, <<kTypeValue, l, v>> >>,
          BatchAppend(fmtBytes, BatchPut(BatchDelete(ClearedBatch, k), l, v)))

\* The end of what was written is lost.
LoseEnd ==
    /\ fmtItem # NoItem /\ fmtRead = NoItem /\ fmtLost = 0
    /\ \E n \in 1..Len(fmtBytes) : fmtLost' = n
    /\ UNCHANGED <<fmtItem, fmtBytes, fmtRead>>

Left == SubSeq(fmtBytes, 1, Len(fmtBytes) - fmtLost)
Result ==
    CASE fmtItem.kind = "number" -> GetVarint(Left, fmtItem.width)
      [] fmtItem.kind \in {"keys", "lookup"} -> GetLengthPrefixedSlice(Left)
      [] fmtItem.kind = "batch" -> InsertInto(Left)
      [] fmtItem.kind = "edit" -> DecodeFrom(Left)
      [] fmtItem.kind = "name" -> ParseFileName(fmtItem.name)
ReadItem ==
    /\ fmtItem # NoItem /\ fmtRead = NoItem
    /\ fmtRead' = Result
    /\ UNCHANGED <<fmtItem, fmtBytes, fmtLost>>

FormatsNext ==
    \/ WriteNumber \/ WriteKeys \/ WriteLookup \/ WriteEdit \/ WriteName \/ NewBatch
    \/ PutOp \/ DeleteOp \/ AppendOp \/ LoseEnd \/ ReadItem

-----------------------------------------------------------------------------
WasRead(kind) == fmtRead # NoItem /\ fmtItem.kind = kind

NumberReadsBack ==
    WasRead("number") => /\ fmtRead.ok = (fmtLost = 0)
                         /\ fmtLost = 0 => fmtRead.value = fmtItem.value /\ fmtRead.rest = <<>>

\* A shortened key still separates, and a lookup finds exactly the entries of
\* its key that are no newer than its snapshot.
KeysKeepOrder ==
    /\ WasRead("keys") /\ fmtLost = 0 =>
          /\ ParseInternalKey(fmtRead.value).ok
          /\ ~InternalLess(fmtRead.value, fmtItem.a) /\ InternalLess(fmtRead.value, fmtItem.b)
          /\ ~InternalLess(InternalShortSuccessor(fmtItem.a), fmtItem.a)
    /\ WasRead("lookup") /\ fmtLost = 0 =>
          LET entry == ParseInternalKey(fmtItem.a).value
              looked == ParseInternalKey(fmtRead.value).value
          IN  /\ looked = <<fmtItem.user, fmtItem.seq, kTypeValue>>
              /\ entry[1] = fmtItem.user =>
                    (InternalLess(fmtItem.a, fmtRead.value) <=> entry[2] > fmtItem.seq)
    /\ (WasRead("keys") \/ WasRead("lookup")) /\ fmtLost # 0 => ~fmtRead.ok

\* A batch that lost its end is refused, but what precedes the loss was added.
BatchesReadBack ==
    WasRead("batch") =>
        /\ fmtRead.ok = (fmtLost = 0)
        /\ Len(fmtRead.added) <= Len(fmtItem.ops)
        /\ fmtLost = 0 => Len(fmtRead.added) = Len(fmtItem.ops)
        /\ \A i \in DOMAIN fmtRead.added :
              fmtRead.added[i] = <<fmtItem.ops[i][2], fmtItem.seq + i - 1, fmtItem.ops[i][1], fmtItem.ops[i][3]>>

\* An edit that lost whole fields reads as a smaller edit: only the log's own
\* framing tells.
EditsReadBack ==
    WasRead("edit") =>
        /\ fmtLost = 0 => fmtRead.ok /\ fmtRead.edit = fmtItem.edit
        /\ fmtRead.ok => EncodeTo(fmtRead.edit) = Left

NameReadsBack ==
    WasRead("name") =>
        /\ fmtRead.ok /\ fmtItem.name.digits # <<>> =>
              /\ fmtRead.number = NumberOf(Reverse(fmtItem.name.digits), 10)
              /\ fmtRead.number <= kMaxNumber
              /\ \E made \in {LogFileName(fmtRead.number), TableFileName(fmtRead.number),
                               SSTTableFileName(fmtRead.number), TempFileName(fmtRead.number),
                               DescriptorFileName(fmtRead.number)} :
                    /\ ParseFileName(made) = fmtRead
                    /\ made.prefix = fmtItem.name.prefix /\ made.suffix = fmtItem.name.suffix

(* What is written is read back, and what lost its end is never taken for     *)
(* something else: numbers, keys with their order, batches with their        *)
(* sequence numbers, version edits and file names.                            *)
FormatsReadBack == NumberReadsBack /\ KeysKeepOrder /\ BatchesReadBack /\ EditsReadBack /\ NameReadsBack
=============================================================================

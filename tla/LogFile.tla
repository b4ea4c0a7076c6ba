------------------------------ MODULE LogFile ------------------------------
(***************************************************************************)
(* The log format of leveldb (db/log_writer.cc, db/log_reader.cc), which is  *)
(* also that of the manifest: records are split into physical records that   *)
(* stay in a block, and a reader finds its way again after damage.           *)
(*                                                                           *)
(* A byte of the file is [of |-> p, at |-> i], byte i of the physical record *)
(* p; ZeroByte, in a trailer; or BadByte.  A checksum is right when the bytes *)
(* are those of one physical record.                                         *)
(***************************************************************************)
EXTENDS Integers, Sequences, SequencesExt

CONSTANTS
    kLogBlockSize, kHeaderSize,
    LogRecordSize,      \* lengths of records
    LogRecords          \* bound on how many are written

ASSUME LogBounds ==
    /\ kHeaderSize \in Nat \ {0} /\ kLogBlockSize \in Nat /\ kLogBlockSize > 2 * kHeaderSize
    /\ LogRecordSize \subseteq Nat /\ LogRecords \in Nat

ZeroByte == [of |-> 0, at |-> 0]
BadByte == [of |-> -1, at |-> 0]

VARIABLES
    bytes,              \* the file
    physical,           \* the physical records emitted: what each holds
    added,              \* the records of AddRecord: where each begins and ends
    writer,             \* block_offset_, and AddRecord under way
    damage,             \* what happened to the file
    reader              \* the Reader

logVars == <<bytes, physical, added, writer, damage, reader>>

LogInit ==
    /\ bytes = <<>> /\ physical = <<>> /\ added = <<>>
    /\ writer = [blockOffset |-> 0, left |-> -1, begin |-> FALSE]
    /\ damage = [kind |-> "none", at |-> 0]
    /\ reader = [pc |-> "unopened"]

Piece(r, from, n) == [i \in 1..n |-> <<r, from + i>>]
Content(r) == Piece(r, 0, added[r].size)

-----------------------------------------------------------------------------
(* Writer.                                                                     *)
Idle == writer.left = -1
Writing == damage.kind \in {"none", "torn"}

AddRecord(size) ==
    /\ reader.pc = "unopened" /\ Writing /\ Idle /\ Len(added) < LogRecords
    /\ added' = Append(added, [size |-> size, begin |-> -1, end |-> -1])
    /\ writer' = [writer EXCEPT !.left = size, !.begin = TRUE]
    /\ UNCHANGED <<bytes, physical, damage, reader>>

Leftover == kLogBlockSize - writer.blockOffset
Trailer == IF Leftover < kHeaderSize THEN [i \in 1..Leftover |-> ZeroByte] ELSE <<>>

\* A turn of the loop of AddRecord.  lost is what Append did not write: bytes of
\* the trailer, which nobody checks, or of the physical record.
Emit(lostTrailer, lost) ==
    LET offset == IF Leftover < kHeaderSize THEN 0 ELSE writer.blockOffset
        avail == kLogBlockSize - offset - kHeaderSize
        n == IF writer.left < avail THEN writer.left ELSE avail
        end == n = writer.left
        type == IF writer.begin THEN IF end THEN "full" ELSE "first"
                ELSE IF end THEN "last" ELSE "middle"
        r == Len(added)
        p == Len(physical) + 1
        trailer == SubSeq(Trailer, 1, Len(Trailer) - lostTrailer)
        start == Len(bytes) + Len(trailer)
    IN  /\ Writing /\ ~Idle
        /\ lostTrailer <= Len(Trailer) /\ lost <= kHeaderSize + n
        /\ physical' = Append(physical, [type |-> type, data |-> Piece(r, added[r].size - writer.left, n)])
        /\ bytes' = bytes \o trailer \o [i \in 1..(kHeaderSize + n - lost) |-> [of |-> p, at |-> i]]
        /\ added' = [added EXCEPT ![r].begin = IF writer.begin THEN start ELSE @,
                                  ![r].end = IF end /\ lost = 0 THEN start + kHeaderSize + n ELSE @]
        /\ writer' = [blockOffset |-> offset + kHeaderSize + n, begin |-> FALSE,
                      left |-> IF end \/ lost > 0 THEN -1 ELSE writer.left - n]
        /\ damage' = IF lostTrailer + lost > 0 THEN [kind |-> "torn", at |-> 0] ELSE damage
        /\ UNCHANGED reader

EmitPhysicalRecord == Emit(0, 0)

\* An error of Append: some of the bytes are in the file, block_offset_ counts all.
AppendFails ==
    /\ damage.kind = "none"
    /\ \E lostTrailer \in 0..kHeaderSize, lost \in 0..kLogBlockSize :
         lostTrailer + lost > 0 /\ Emit(lostTrailer, lost)

\* A crash leaves a prefix; a disk loses a byte, or a block cannot be read.
Damage ==
    /\ reader.pc = "unopened" /\ damage.kind = "none"
    /\ \/ \E n \in 0..(Len(bytes) - 1) :
            /\ bytes' = SubSeq(bytes, 1, n)
            /\ damage' = [kind |-> "cut", at |-> n]
            /\ writer' = [writer EXCEPT !.left = -1]
            /\ added' = IF Idle THEN added ELSE Front(added)
       \/ \E n \in DOMAIN bytes :
            /\ Idle
            /\ bytes' = [bytes EXCEPT ![n] = BadByte]
            /\ damage' = [kind |-> "bad", at |-> (n - 1) \div kLogBlockSize]
            /\ UNCHANGED <<writer, added>>
       \/ \E b \in 0..(Len(bytes) \div kLogBlockSize) :
            /\ Idle
            /\ damage' = [kind |-> "unreadable", at |-> b]
            /\ UNCHANGED <<bytes, writer, added>>
    /\ UNCHANGED <<physical, reader>>

-----------------------------------------------------------------------------
(* Reader.  buffer_ is the file from position pos to end_of_buffer_offset_.    *)

\* The constructor, and SkipToInitialBlock.
OpenReader(initial) ==
    LET inBlock == initial % kLogBlockSize
        block == initial - inBlock + (IF inBlock > kLogBlockSize - (kHeaderSize - 1) THEN kLogBlockSize ELSE 0)
        skip == IF initial = 0 THEN 0 ELSE block
    IN  /\ reader.pc = "unopened" /\ Idle
        /\ reader' = [pc |-> "reading", initial |-> initial, pos |-> skip, end |-> skip, eof |-> FALSE,
                      resyncing |-> initial > 0, fragmented |-> FALSE, scratch |-> <<>>, start |-> 0,
                      out |-> <<>>, reported |-> FALSE]
        /\ UNCHANGED <<bytes, physical, added, writer, damage>>

Cleared(r) == [r EXCEPT !.pos = r.end]
\* ReportDrop; the difference is unsigned.
Reported(r, size) ==
    [r EXCEPT !.reported = @ \/ r.pos < size \/ r.pos - size >= r.initial]

Unreadable(r) == damage.kind = "unreadable" /\ r.end \div kLogBlockSize >= damage.at

\* The next block, if what is left of this one is too short for a header.
Refill(r) ==
    IF r.end - r.pos >= kHeaderSize \/ r.eof THEN r
    ELSE LET most == r.end + kLogBlockSize
             end == IF r.end >= Len(bytes) THEN r.end ELSE IF most <= Len(bytes) THEN most ELSE Len(bytes)
         IN  [r EXCEPT !.pos = r.end, !.end = end, !.eof = end < most]

\* What ReadPhysicalRecord may return: a type, a fragment and the reader after it.
\* A header that is not one may say anything of the length and the type.
ReadPhysicalRecord(old) ==
    LET r == Refill(old)
        At(i) == bytes[r.pos + i]
        p == At(1).of
        Whole(n) == \A i \in 1..n : At(i) = [of |-> p, at |-> i]
        is == physical[p]
        size == kHeaderSize + Len(is.data)
        passed == [r EXCEPT !.pos = @ + size]
        Returns(type, then) == [type |-> type, data |-> <<>>, then |-> then]
        Bad(reports) == Returns("bad", IF reports THEN Reported(Cleared(r), r.end - r.pos) ELSE Cleared(r))
        TooLong == IF r.eof THEN Returns("eof", Cleared(r)) ELSE Bad(TRUE)
    IN  IF old.end - old.pos < kHeaderSize /\ ~old.eof /\ Unreadable(old)
        THEN {Returns("eof", [Reported(Cleared(old), kLogBlockSize) EXCEPT !.eof = TRUE])}
        ELSE IF r.end - r.pos < kHeaderSize THEN {Returns("eof", Cleared(r))}
        ELSE IF p <= 0 \/ ~Whole(kHeaderSize)
             THEN IF \A i \in 1..kHeaderSize : At(i) = ZeroByte THEN {Bad(FALSE)}
                  ELSE {TooLong, Bad(FALSE), Bad(TRUE)}
        ELSE IF size > r.end - r.pos THEN {TooLong}
        ELSE IF ~Whole(size) THEN {Bad(TRUE)}
        ELSE IF r.pos < r.initial THEN {Returns("bad", passed)}
        ELSE {[type |-> is.type, data |-> is.data, then |-> passed]}

ReturnRecord(r, data, start) ==
    [r EXCEPT !.out = Append(@, [data |-> data, start |-> start]), !.fragmented = FALSE, !.scratch = <<>>]

\* A bad record ends the logical record under way.
BadRecordIgnored(r) == r
BadRecord(r) ==
    IF r.fragmented THEN [Reported(r, Len(r.scratch)) EXCEPT !.fragmented = FALSE, !.scratch = <<>>] ELSE r

\* A turn of the loop of ReadRecord.
Turn(got) ==
    LET r == [got.then EXCEPT !.resyncing = @ /\ got.type = "middle"]
        start == r.pos - kHeaderSize - Len(got.data)
        unended == IF r.fragmented /\ r.scratch # <<>> THEN Reported(r, Len(r.scratch)) ELSE r
    IN  IF got.then.resyncing /\ got.type \in {"middle", "last"} THEN r ELSE
        CASE got.type = "full" -> ReturnRecord(unended, got.data, start)
          [] got.type = "first" ->
               [unended EXCEPT !.fragmented = TRUE, !.scratch = got.data, !.start = start]
          [] got.type = "middle" ->
               IF r.fragmented THEN [r EXCEPT !.scratch = @ \o got.data]
               ELSE Reported(r, Len(got.data))
          [] got.type = "last" ->
               IF r.fragmented THEN ReturnRecord(r, r.scratch \o got.data, r.start)
               ELSE Reported(r, Len(got.data))
          [] got.type = "bad" -> BadRecord(r)
          [] got.type = "eof" -> [r EXCEPT !.pc = "done", !.fragmented = FALSE, !.scratch = <<>>]

ReadTurn ==
    /\ reader.pc = "reading"
    /\ \E got \in ReadPhysicalRecord(reader) : reader' = Turn(got)
    /\ UNCHANGED <<bytes, physical, added, writer, damage>>

LogNext ==
    \/ \E size \in LogRecordSize : AddRecord(size)
    \/ EmitPhysicalRecord
    \/ AppendFails
    \/ Damage
    \/ \E initial \in 0..Len(bytes) : (initial > 0 => damage.kind = "none") /\ OpenReader(initial)
    \/ ReadTurn

-----------------------------------------------------------------------------
\* The records that a reader from the initial offset should return when the
\* file ends at end.
Expected(initial, end) ==
    LET kept == SelectSeq([r \in DOMAIN added |-> r], LAMBDA r :
                  added[r].begin >= initial /\ added[r].end \in 0..end)
    IN  [i \in DOMAIN kept |-> Content(kept[i])]
Got == [i \in DOMAIN reader.out |-> reader.out[i].data]

BlocksOf(r) == (added[r].begin \div kLogBlockSize) .. ((added[r].end - 1) \div kLogBlockSize)

\* Whatever happens to the file, what is returned was added, whole and in order.
NothingInvented ==
    \E kept \in SUBSET DOMAIN added :
      Got = LET s == SelectSeq([r \in DOMAIN added |-> r], LAMBDA r : r \in kept)
            IN  [i \in DOMAIN s |-> Content(s[i])]

\* A log that a crash has cut ends early, and nothing is reported as corrupt.
CutIsClean ==
    damage.kind \in {"none", "cut"} =>
      /\ Got = Expected(reader.initial, Len(bytes))
      /\ reader.initial = 0 => ~reader.reported
      /\ \A i \in DOMAIN reader.out :
           \E r \in DOMAIN added : reader.out[i] = [data |-> Content(r), start |-> added[r].begin]

\* A damaged block costs the records that have a part in it, and no other.
DamageIsLocal ==
    damage.kind = "bad" =>
      \A r \in DOMAIN added :
        damage.at \notin BlocksOf(r) => \E i \in DOMAIN Got : Got[i] = Content(r)

\* Recovery reads what the writer was told is in the log, or less.
LogReadsBack == reader.pc = "done" => NothingInvented /\ CutIsClean /\ DamageIsLocal
=============================================================================

------------------------------- MODULE Nanopb -------------------------------
(***************************************************************************)
(* nanopb as the pod is built: no PB_ENABLE_MALLOC, PB_FIELD_32BIT.  A     *)
(* message type is a sequence of fields (pb_field_t), a message maps tags  *)
(* to what the struct holds.  A byte is half as wide as a real one: half   *)
(* of its values say that a varint goes on, a uint32_t takes Pb32 bytes    *)
(* and a uint64_t Pb64.  Streams are buffers.  Each behaviour encodes a    *)
(* message, perhaps loses the end of it, and decodes with a message type   *)
(* that may be another version of the first.                               *)
(***************************************************************************)
EXTENDS Integers, FiniteSets, Sequences, SequencesExt

CONSTANTS
    kPbByte,    \* values of a byte
    Pb32, Pb64, \* bytes of a uint32_t and of a uint64_t
    PbWord,     \* bits of a word of fields_seen
    PbPairs,    \* a sequence of [from, to, messages]: the types of the encoder
                \* and of the decoder, and the messages
    PbBuffers,  \* sizes of the output buffer
    NoUnion     \* what the union of a oneof holds when nothing is set

ASSUME PbBounds == /\ kPbByte \in Nat /\ kPbByte % 2 = 0 /\ kPbByte > 8
                   /\ {Pb32, Pb64, PbWord} \subseteq Nat \ {0}

VARIABLES pbPair, pbOut, pbCut, pbResult
pbVars == <<pbPair, pbOut, pbCut, pbResult>>

-----------------------------------------------------------------------------
(* Fields.                                                                     *)
Field(tag, ltype, htype, size) ==
    [tag |-> tag, ltype |-> ltype, htype |-> htype, atype |-> "static", size |-> size, max |-> 0,
     sub |-> <<>>, default |-> <<>>]

Packable == {"VARINT", "UVARINT", "SVARINT", "FIXED32", "FIXED64"}
PB_WT_VARINT == 0
PB_WT_64BIT == 1
PB_WT_STRING == 2
PB_WT_32BIT == 5

\* The tags under which a message keeps which member of its oneof is set, and
\* the value of that member.
Which == 0
Union == -1

Zero(f) == IF f.ltype \in Packable THEN 0
           ELSE IF f.ltype = "FIXED_LENGTH_BYTES" THEN [i \in 1..f.size |-> 0] ELSE <<>>

RECURSIVE DefaultOf(_), SetToDefaults(_)
DefaultOf(f) ==
    IF f.ltype = "SUBMESSAGE" THEN SetToDefaults(f.sub)
    ELSE IF f.default # <<>> THEN f.default[1] ELSE Zero(f)
\* pb_message_set_to_defaults, as slots of a struct.
Slots(f) ==
    IF f.ltype = "EXTENSION" THEN
            [tag \in {e.tag : e \in ToSet(f.sub)} |->
                [has |-> FALSE, v |-> DefaultOf(CHOOSE e \in ToSet(f.sub) : e.tag = tag)]]
    ELSE IF f.htype = "REPEATED" \/ f.atype # "static" THEN [tag \in {f.tag} |-> <<>>]
    ELSE CASE f.htype = "ONEOF" -> [tag \in {Which, Union} |-> IF tag = Which THEN 0 ELSE NoUnion]
           [] f.htype = "OPTIONAL" -> [tag \in {f.tag} |-> [has |-> FALSE, v |-> DefaultOf(f)]]
           [] OTHER -> [tag \in {f.tag} |-> DefaultOf(f)]
SetToDefaults(fields) ==
    LET slots == {Slots(f) : f \in ToSet(fields)} IN
    [tag \in UNION {DOMAIN s : s \in slots} |-> (CHOOSE s \in slots : tag \in DOMAIN s)[tag]]

-----------------------------------------------------------------------------
(* Reading: [ok, v, rest], and what pb_decode_tag says besides.                *)
PbMore == kPbByte \div 2
PbFail(s) == [ok |-> FALSE, v |-> 0, rest |-> s]
PbDone(v, s) == [ok |-> TRUE, v |-> v, rest |-> s]
\* What follows when r went well.
Then(r, Next(_, _)) == IF r.ok THEN Next(r.v, r.rest) ELSE r
Signed(v, width) == IF v >= kPbByte^width \div 2 THEN v - kPbByte^width ELSE v

\* pb_read
PbRead(s, count) ==
    IF Len(s) < count THEN PbFail(s)
    ELSE PbDone(SubSeq(s, 1, count), SubSeq(s, count + 1, Len(s)))

RECURSIVE PbNumber(_, _)
PbNumber(s, base) == IF s = <<>> THEN 0 ELSE Head(s) + base * PbNumber(Tail(s), base)

\* The bytes up to the one that ends a varint; 0 when there is none.
VarintEnd(s) == SelectInSeq(s, LAMBDA b : b < PbMore)
\* A reader gives up when as many bits as the number has were read.
RECURSIVE MaxVarint(_)
MaxVarint(bound) == IF bound <= 1 THEN 0 ELSE 1 + MaxVarint((bound + PbMore - 1) \div PbMore)
VarintOf(s, n, limit, width) ==
    IF n = 0 \/ n > limit
    THEN PbFail(SubSeq(s, (IF Len(s) < limit THEN Len(s) ELSE limit) + 1, Len(s)))
    ELSE PbDone(PbNumber([i \in 1..n |-> s[i] % PbMore], PbMore) % kPbByte^width,
                SubSeq(s, n + 1, Len(s)))
\* pb_decode_varint32 and pb_decode_varint
DecodeVarint(s, width) == VarintOf(s, VarintEnd(s), MaxVarint(kPbByte^width), width)

\* pb_decode_tag: a tag that cannot be read is the end if nothing is left.
TagOf(t) ==
    [ok |-> t.ok /\ t.v # 0, eof |-> IF t.ok THEN t.v = 0 ELSE t.rest = <<>>,
     tag |-> t.v \div 8, wire |-> t.v % 8, rest |-> t.rest]
DecodeTag(s) == TagOf(DecodeVarint(s, Pb32))

\* pb_make_string_substream: v is the substream.
Substream(s) == Then(DecodeVarint(s, Pb32), LAMBDA size, rest : PbRead(rest, size))
\* What is read of a substream, and the stream closed.
OfSubstream(sub, ReadAll(_)) == Then(sub, LAMBDA bytes, rest : [ReadAll(bytes) EXCEPT !.rest = rest])

\* As it would be if it took a string for a varint.
SkipFieldLength(s, wire) ==
    IF wire = PB_WT_STRING THEN DecodeVarint(s, Pb32) ELSE
    CASE wire = PB_WT_VARINT -> IF VarintEnd(s) = 0 THEN PbFail(s)
                                ELSE PbDone(0, SubSeq(s, VarintEnd(s) + 1, Len(s)))
      [] wire = PB_WT_64BIT -> PbRead(s, Pb64)
      [] wire = PB_WT_32BIT -> PbRead(s, Pb32)
      [] OTHER -> PbFail(s)

\* pb_skip_field
SkipField(s, wire) ==
    CASE wire = PB_WT_VARINT -> IF VarintEnd(s) = 0 THEN PbFail(s)
                                ELSE PbDone(0, SubSeq(s, VarintEnd(s) + 1, Len(s)))
      [] wire = PB_WT_64BIT -> PbRead(s, Pb64)
      [] wire = PB_WT_STRING -> Substream(s)
      [] wire = PB_WT_32BIT -> PbRead(s, Pb32)
      [] OTHER -> PbFail(s)

-----------------------------------------------------------------------------
(* Decoding a value; old is what the struct held.                              *)
Clamped(v, rest, size, Cast(_, _)) ==
    IF Cast(v % kPbByte^size, size) = v THEN PbDone(v, rest) ELSE PbFail(rest)
Unsigned(v, width) == v

\* pb_dec_varint: what is not 64 bits wide is first cut to 32.
DecVarint(f, s) ==
    LET width == IF f.size = Pb64 THEN Pb64 ELSE Pb32 IN
    Then(DecodeVarint(s, Pb64),
         LAMBDA v, rest : Clamped(Signed(v % kPbByte^width, width), rest, f.size, Signed))
DecUvarint(f, s) ==
    Then(DecodeVarint(s, Pb64), LAMBDA v, rest : Clamped(v, rest, f.size, Unsigned))
DecSvarint(f, s) ==
    Then(DecodeVarint(s, Pb64), LAMBDA v, rest :
         Clamped(IF v % 2 = 1 THEN -(v \div 2) - 1 ELSE v \div 2, rest, f.size, Signed))
DecFixed(s, width) ==
    Then(PbRead(s, width), LAMBDA bytes, rest : PbDone(PbNumber(bytes, kPbByte), rest))

\* sizeof(pb_size_t) comes before the bytes; a string needs room for its NUL,
\* counted in a uint32_t.
DecBytes(f, s) ==
    Then(DecodeVarint(s, Pb32), LAMBDA size, rest :
         IF size + Pb32 <= f.size THEN PbRead(rest, size) ELSE PbFail(rest))
DecString(f, s) ==
    Then(DecodeVarint(s, Pb32), LAMBDA size, rest :
         LET alloc == (size + 1) % kPbByte^Pb32 IN
         IF alloc >= size /\ alloc <= f.size THEN PbRead(rest, size) ELSE PbFail(rest))
DecFixedLengthBytes(f, s) ==
    Then(DecodeVarint(s, Pb32), LAMBDA size, rest :
         IF size = 0 THEN PbDone(Zero(f), rest)
         ELSE IF size = f.size THEN PbRead(rest, f.size) ELSE PbFail(rest))

\* What the callbacks of this model add to what they had: "numbers" reads varints
\* until its substream is empty, "all" takes the bytes as they are.
RECURSIVE ReadNumbers(_, _)
ReadNumbers(s, got) ==
    Then(DecodeVarint(s, Pb64), LAMBDA v, rest :
         IF rest = <<>> THEN PbDone(Append(got, v), rest) ELSE ReadNumbers(rest, Append(got, v)))
Call(f, s, got) == IF f.call = "numbers" THEN ReadNumbers(s, got) ELSE PbDone(Append(got, s), <<>>)

\* read_raw_value: the bytes of one scalar.
ReadRawValue(s, wire) ==
    CASE wire = PB_WT_VARINT -> IF VarintEnd(s) \notin 1..MaxVarint(kPbByte^Pb64) THEN PbFail(s)
                                ELSE PbRead(s, VarintEnd(s))
      [] wire = PB_WT_64BIT -> PbRead(s, Pb64)
      [] wire = PB_WT_32BIT -> PbRead(s, Pb32)
      [] OTHER -> PbFail(s)

DecodeCallbackField(f, wire, s, old) ==
    IF f.call = "skip" THEN [SkipField(s, wire) EXCEPT !.v = old]
    ELSE OfSubstream(IF wire = PB_WT_STRING THEN Substream(s) ELSE ReadRawValue(s, wire),
                     LAMBDA bytes : Call(f, bytes, old))

-----------------------------------------------------------------------------
(* Decoding a message.  Shift is the word that a shift by its whole width      *)
(* gives, which C leaves open: all ones or zero.                               *)
Required(fields) == SelectSeq(fields, LAMBDA f : f.ltype # "EXTENSION" /\ f.htype = "REQUIRED")

\* fields_seen against the masks: whole words, then what remains of the last.
AllRequiredSeen(fields, seen, shift) ==
    LET count == Len(Required(fields))
        Word(w) == {i \in seen : (i - 1) \div PbWord = w}
        Full(w, bits) == Word(w) = (w * PbWord + 1)..(w * PbWord + bits)
    IN  count > 0 => /\ \A w \in 0..((count \div PbWord) - 1) : Full(w, PbWord)
                     /\ IF count % PbWord = 0
                        THEN Full(count \div PbWord, IF shift = "all ones" THEN PbWord ELSE 0)
                        ELSE Full(count \div PbWord, count % PbWord)

RECURSIVE DecodeNoInit(_, _, _, _, _), DecodeValue(_, _, _, _), DecodePacked(_, _, _, _)

\* func(stream, field, pData)
DecodeValue(f, s, old, shift) ==
    CASE f.ltype = "VARINT" -> DecVarint(f, s)
      [] f.ltype = "UVARINT" -> DecUvarint(f, s)
      [] f.ltype = "SVARINT" -> DecSvarint(f, s)
      [] f.ltype = "FIXED32" -> DecFixed(s, Pb32)
      [] f.ltype = "FIXED64" -> DecFixed(s, Pb64)
      [] f.ltype = "BYTES" -> DecBytes(f, s)
      [] f.ltype = "STRING" -> DecString(f, s)
      [] f.ltype = "FIXED_LENGTH_BYTES" -> DecFixedLengthBytes(f, s)
      [] f.ltype = "SUBMESSAGE" ->
            LET was == IF f.htype = "REPEATED" THEN SetToDefaults(f.sub) ELSE old IN
            OfSubstream(Substream(s), LAMBDA bytes : DecodeNoInit(f.sub, bytes, was, {}, shift))

DecodePacked(f, s, items, shift) ==
    IF s = <<>> THEN PbDone(items, s)
    ELSE Then(DecodeValue(f, s, 0, shift), LAMBDA v, rest :
              IF Len(items) < f.max THEN DecodePacked(f, rest, Append(items, v), shift) ELSE PbFail(rest))

\* v is the new content of the slot of the field.
DecodeStaticField(f, wire, s, m, shift) ==
    CASE f.htype \in {"REQUIRED", "SINGULAR"} -> DecodeValue(f, s, m[f.tag], shift)
      [] f.htype = "OPTIONAL" ->
            [DecodeValue(f, s, m[f.tag].v, shift) EXCEPT !.v = [has |-> TRUE, v |-> @]]
      [] f.htype = "REPEATED" /\ wire = PB_WT_STRING /\ f.ltype \in Packable ->
            OfSubstream(Substream(s), LAMBDA bytes : DecodePacked(f, bytes, m[f.tag], shift))
      [] f.htype = "REPEATED" /\ ~(wire = PB_WT_STRING /\ f.ltype \in Packable) ->
            IF Len(m[f.tag]) >= f.max THEN PbFail(s)
            ELSE [DecodeValue(f, s, 0, shift) EXCEPT !.v = Append(m[f.tag], @)]
      [] f.htype = "ONEOF" ->
            DecodeValue(f, s, IF f.ltype = "SUBMESSAGE" THEN SetToDefaults(f.sub) ELSE 0, shift)

\* The message after one field; a pointer needs PB_ENABLE_MALLOC.
DecodeField(f, wire, s, m, shift) ==
    Then(CASE f.atype = "static" -> DecodeStaticField(f, wire, s, m, shift)
           [] f.atype = "callback" -> DecodeCallbackField(f, wire, s, m[f.tag])
           [] f.atype = "pointer" -> PbFail(s),
         LAMBDA v, rest : PbDone(IF f.htype = "ONEOF" THEN [m EXCEPT ![Which] = f.tag, ![Union] = v]
                                 ELSE [m EXCEPT ![f.tag] = v], rest))

\* The field of a tag, or one of the extensions when the tag is in their range.
FieldsOfTag(fields, tag) ==
    LET known == {f \in ToSet(fields) : f.ltype # "EXTENSION" /\ f.tag = tag}
        extensions == {f \in ToSet(fields) : f.ltype = "EXTENSION" /\ tag >= f.tag}
    IN  IF known # {} THEN known
        ELSE UNION {{e \in ToSet(f.sub) : e.tag = tag} : f \in extensions}

DecodeNoInit(fields, s, m, seen, shift) ==
    LET t == DecodeTag(s)
        found == FieldsOfTag(fields, t.tag)
        f == CHOOSE g \in found : TRUE
        index == SelectInSeq(Required(fields), LAMBDA g : g.tag = t.tag)
        next == IF found = {} THEN [SkipField(t.rest, t.wire) EXCEPT !.v = m]
                ELSE DecodeField(f, t.wire, t.rest, m, shift)
    IN  IF s = <<>> \/ (~t.ok /\ t.eof)
        THEN IF AllRequiredSeen(fields, seen, shift) THEN PbDone(m, t.rest) ELSE PbFail(t.rest)
        ELSE IF ~t.ok THEN PbFail(t.rest)
        ELSE Then(next, LAMBDA v, rest :
                  DecodeNoInit(fields, rest, v, IF index = 0 THEN seen ELSE seen \cup {index}, shift))

PbDecode(fields, s, shift) == DecodeNoInit(fields, s, SetToDefaults(fields), {}, shift)
PbDecodeDelimited(fields, s, shift) ==
    OfSubstream(Substream(s), LAMBDA bytes : PbDecode(fields, bytes, shift))

-----------------------------------------------------------------------------
(* Writing: [ok, bytes].                                                       *)
NotWritten == [ok |-> FALSE, bytes |-> <<>>]
PbWritten(bytes) == [ok |-> TRUE, bytes |-> bytes]
Joined(parts) == IF \A i \in DOMAIN parts : parts[i].ok
                 THEN PbWritten(FlattenSeq([i \in DOMAIN parts |-> parts[i].bytes]))
                 ELSE NotWritten

RECURSIVE PbEncodeVarint(_)
PbEncodeVarint(v) == IF v < PbMore THEN <<v>> ELSE <<(v % PbMore) + PbMore>> \o PbEncodeVarint(v \div PbMore)
PbEncodeFixed(v, width) == [i \in 1..width |-> (v \div kPbByte^(i - 1)) % kPbByte]
Delimited(bytes) == PbEncodeVarint(Len(bytes)) \o bytes
EncodeTag(wire, tag) == PbEncodeVarint(tag * 8 + wire)
EncodeTagForField(f) ==
    EncodeTag(CASE f.ltype \in {"VARINT", "UVARINT", "SVARINT"} -> PB_WT_VARINT
                [] f.ltype = "FIXED32" -> PB_WT_32BIT
                [] f.ltype = "FIXED64" -> PB_WT_64BIT
                [] OTHER -> PB_WT_STRING, f.tag)

\* pb_enc_string: up to a NUL, or all that fits the field.
CString(f, v) ==
    LET nul == SelectInSeq(v, LAMBDA b : b = 0)
        end == IF nul = 0 THEN Len(v) ELSE nul - 1
    IN  SubSeq(v, 1, IF f.atype # "pointer" /\ end > f.size THEN f.size ELSE end)

RECURSIVE PbEncode(_, _), IsDefault(_, _)

EncodeValue(f, v) ==
    CASE f.ltype \in {"VARINT", "UVARINT"} -> PbWritten(PbEncodeVarint(v % kPbByte^Pb64))
      [] f.ltype = "SVARINT" -> PbWritten(PbEncodeVarint((IF v < 0 THEN -(2 * v) - 1 ELSE 2 * v) % kPbByte^Pb64))
      [] f.ltype = "FIXED32" -> PbWritten(PbEncodeFixed(v, Pb32))
      [] f.ltype = "FIXED64" -> PbWritten(PbEncodeFixed(v, Pb64))
      [] f.ltype = "BYTES" -> IF f.atype = "static" /\ Len(v) + Pb32 > f.size THEN NotWritten
                              ELSE PbWritten(Delimited(v))
      [] f.ltype = "STRING" -> PbWritten(Delimited(CString(f, v)))
      [] f.ltype = "FIXED_LENGTH_BYTES" -> PbWritten(Delimited(v))
      [] f.ltype = "SUBMESSAGE" ->
            LET sub == PbEncode(f.sub, v) IN
            IF sub.ok THEN PbWritten(Delimited(sub.bytes)) ELSE NotWritten

Tagged(f, v) == Joined(<<PbWritten(EncodeTagForField(f)), EncodeValue(f, v)>>)

EncodeArray(f, items) ==
    LET values == Joined([i \in DOMAIN items |-> EncodeValue(f, items[i])]) IN
    CASE items = <<>> -> PbWritten(<<>>)
      [] Len(items) > f.max -> NotWritten
      [] items # <<>> /\ Len(items) <= f.max /\ f.ltype \in Packable ->
            PbWritten(EncodeTag(PB_WT_STRING, f.tag) \o Delimited(values.bytes))
      [] OTHER -> Joined([i \in DOMAIN items |-> Tagged(f, items[i])])

\* pb_check_proto3_default_value: of an array only the first item is looked
\* at, of an optional field not whether it is set.  (The bytes of a member of a
\* union that is not the one set are taken for zero.)
IsDefault(f, m) ==
    LET data == IF f.htype = "ONEOF" THEN m[Union]
                ELSE IF f.htype = "OPTIONAL" THEN m[f.tag].v
                ELSE IF f.htype = "REPEATED" THEN m[f.tag][1]
                ELSE m[f.tag]
    IN  IF f.ltype = "EXTENSION" THEN f.sub = <<>>
        ELSE IF f.atype # "static" THEN m[f.tag] = <<>>
        ELSE \/ f.htype = "REPEATED" /\ m[f.tag] = <<>>
             \/ f.htype = "ONEOF" /\ m[Which] # f.tag
             \/ CASE f.ltype = "BYTES" -> data = <<>>
                  [] f.ltype = "STRING" -> CString(f, data) = <<>>
                  [] f.ltype = "FIXED_LENGTH_BYTES" -> f.size = 0
                  [] f.ltype = "SUBMESSAGE" -> \A i \in DOMAIN f.sub : IsDefault(f.sub[i], data)
                  [] OTHER -> data = 0

EncodeCallbackField(f, got) ==
    IF f.call = "skip" \/ got = <<>> THEN PbWritten(<<>>)
    ELSE PbWritten(EncodeTag(PB_WT_STRING, f.tag)
                   \o Delimited(FlattenSeq([i \in DOMAIN got |->
                        IF f.call = "numbers" THEN PbEncodeVarint(got[i]) ELSE got[i]])))

EncodeBasicField(f, m) ==
    CASE f.atype = "pointer" ->
            IF m[f.tag] # <<>> THEN Tagged(f, m[f.tag][1])
            ELSE IF f.htype = "REQUIRED" THEN NotWritten ELSE PbWritten(<<>>)
      [] f.atype = "static" /\ f.htype = "REQUIRED" -> Tagged(f, m[f.tag])
      [] f.atype = "static" /\ f.htype = "SINGULAR" ->
            IF IsDefault(f, m) THEN PbWritten(<<>>) ELSE Tagged(f, m[f.tag])
      [] f.atype = "static" /\ f.htype = "OPTIONAL" ->
            IF m[f.tag].has THEN Tagged(f, m[f.tag].v) ELSE PbWritten(<<>>)
      [] f.atype = "static" /\ f.htype = "REPEATED" -> EncodeArray(f, m[f.tag])
      [] f.atype = "static" /\ f.htype = "ONEOF" -> IF m[Which] = f.tag THEN Tagged(f, m[Union]) ELSE PbWritten(<<>>)

\* An extension has no has_ field: it is written when its value is not zero.
EncodeExtensionField(f, m) ==
    Joined([i \in DOMAIN f.sub |->
        IF IsDefault(f.sub[i], m) THEN PbWritten(<<>>) ELSE Tagged(f.sub[i], m[f.sub[i].tag].v)])

PbEncode(fields, m) ==
    Joined([i \in DOMAIN fields |->
        LET f == fields[i] IN
        IF f.ltype = "EXTENSION" THEN EncodeExtensionField(f, m)
        ELSE IF f.atype = "callback" THEN EncodeCallbackField(f, m[f.tag])
        ELSE EncodeBasicField(f, m)])

PbEncodeDelimited(fields, m) ==
    LET sub == PbEncode(fields, m) IN IF sub.ok THEN PbWritten(Delimited(sub.bytes)) ELSE NotWritten

\* pb_ostream_from_buffer and pb_write.
InBuffer(out, size) == IF out.ok /\ Len(out.bytes) <= size THEN out ELSE NotWritten

-----------------------------------------------------------------------------
(* The behaviours.                                                             *)
PbInit == pbPair = <<>> /\ pbOut = NotWritten /\ pbCut = 0 /\ pbResult = <<>>

EncodeMessage ==
    /\ pbPair = <<>>
    /\ \E i \in DOMAIN PbPairs, size \in PbBuffers, delimited \in BOOLEAN :
       \E message \in PbPairs[i].messages :
          /\ pbPair' = [from |-> PbPairs[i].from, message |-> message, to |-> PbPairs[i].to,
                        delimited |-> delimited]
          /\ pbOut' = InBuffer(IF delimited THEN PbEncodeDelimited(PbPairs[i].from, message)
                                            ELSE PbEncode(PbPairs[i].from, message), size)
    /\ UNCHANGED <<pbCut, pbResult>>

CutEnd ==
    /\ pbPair # <<>> /\ pbCut = 0 /\ pbResult = <<>>
    /\ \E n \in 1..Len(pbOut.bytes) : pbCut' = n
    /\ UNCHANGED <<pbPair, pbOut, pbResult>>

DecodeMessage ==
    /\ pbPair # <<>> /\ pbOut.ok /\ pbResult = <<>>
    /\ \E shift \in {"all ones", "zero"} :
          LET s == SubSeq(pbOut.bytes, 1, Len(pbOut.bytes) - pbCut) IN
          pbResult' = IF pbPair.delimited THEN PbDecodeDelimited(pbPair.to, s, shift)
                                          ELSE PbDecode(pbPair.to, s, shift)
    /\ UNCHANGED <<pbPair, pbOut, pbCut>>

PbNext == EncodeMessage \/ CutEnd \/ DecodeMessage

-----------------------------------------------------------------------------
\* What a decoder should make of what an encoder was given.
RECURSIVE AsRead(_, _)
AsReadValue(f, v) ==
    CASE f.ltype = "STRING" -> CString(f, v)
      [] f.ltype = "SUBMESSAGE" -> AsRead(f.sub, v)
      [] OTHER -> v
AsReadSlot(f, slot) ==
    CASE f.atype # "static" -> slot
      [] f.atype = "static" /\ f.htype = "OPTIONAL" ->
            IF slot.has THEN [slot EXCEPT !.v = AsReadValue(f, @)] ELSE [has |-> FALSE, v |-> DefaultOf(f)]
      [] f.atype = "static" /\ f.htype = "REPEATED" -> [i \in DOMAIN slot |-> AsReadValue(f, slot[i])]
      [] OTHER -> AsReadValue(f, slot)
\* The fields of a type, its extensions among them.
Members(fields) ==
    UNION {IF f.ltype = "EXTENSION" THEN ToSet(f.sub) ELSE {f} : f \in ToSet(fields)}
AsRead(fields, m) ==
    [tag \in DOMAIN m |->
        IF tag = Which THEN m[tag]
        ELSE IF tag = Union
             THEN IF m[Which] = 0 THEN NoUnion
                  ELSE AsReadValue(CHOOSE f \in Members(fields) : f.tag = m[Which], m[tag])
             ELSE LET f == CHOOSE f \in Members(fields) : f.tag = tag IN
                  IF \E e \in ToSet(fields) : e.ltype = "EXTENSION" /\ f \in ToSet(e.sub)
                  THEN IF IsDefault(f, m) THEN [has |-> FALSE, v |-> DefaultOf(f)] ELSE [m[tag] EXCEPT !.has = TRUE]
                  ELSE AsReadSlot(f, m[tag])]
PbExpected ==
    LET sent == AsRead(pbPair.from, pbPair.message)
        unset == SetToDefaults(pbPair.to)
    IN  [tag \in DOMAIN unset |-> IF tag \in DOMAIN sent THEN sent[tag] ELSE unset[tag]]

\* A submessage whose fields all pass for zero although it is not the default
\* is left out by pb_check_proto3_default_value.
PassesForZero(fields, m) ==
    \E f \in ToSet(fields) : /\ f.htype = "SINGULAR" /\ f.ltype = "SUBMESSAGE"
                             /\ IsDefault(f, m) /\ AsRead(f.sub, m[f.tag]) # SetToDefaults(f.sub)
\* As many required fields as fields_seen has bits in some of its words.
FillsWords(fields) == Len(Required(fields)) > 0 /\ Len(Required(fields)) % PbWord = 0

(* A message that was encoded is decoded as it was, by another version of its *)
(* type too, which skips the fields it does not know.  A message that lost    *)
(* its end is refused or lacks its last fields, never part of a value; with   *)
(* its length in front it is refused.                                          *)
CodecReadsBack ==
    pbResult # <<>> /\ ~PassesForZero(pbPair.from, pbPair.message) /\ ~FillsWords(pbPair.to) =>
        /\ pbCut = 0 =>
              /\ pbResult.ok <=> \A f \in ToSet(Required(pbPair.to)) : f.tag \in DOMAIN pbPair.message
              /\ pbResult.ok => pbResult.v = PbExpected /\ pbResult.rest = <<>>
        /\ pbCut # 0 /\ pbPair.delimited => ~pbResult.ok
        /\ pbResult.ok =>
              \A f \in Members(pbPair.to) : f.tag \in DOMAIN pbResult.v =>
                  \/ pbResult.v[f.tag] \in {SetToDefaults(pbPair.to)[f.tag], PbExpected[f.tag]}
                  \/ f.htype = "REPEATED" /\ IsPrefix(pbResult.v[f.tag], PbExpected[f.tag])
=============================================================================

---------------------------- MODULE DBImplProofs ----------------------------
(*******************************************************************************)
(* Why a database keeps what was acknowledged with sync, why no table goes     *)
(* while somebody needs it, why nobody waits for a background thread that      *)
(* sleeps, why the levels stay in order, and why a newer entry lies above the  *)
(* older ones: the proofs of Durable, ManifestIsBacked, HeldFiles,             *)
(* WorkIsScheduled, LevelsStayDisjoint and NewerAbove, for any number of       *)
(* threads, readers, batches, levels and failures.                             *)
(*                                                                             *)
(* DurableInv follows a record from the group it is built of to the log,       *)
(* to the tables of a manifest record, and to what a recovery reads.           *)
(* Sequence numbers tell records apart: what is counted by a manifest          *)
(* record is in its tables, what is not is in a log it names.                  *)
(*                                                                             *)
(* TablesInv follows a table from the number it is written under to the        *)
(* versions that name it.  Every version that is held or written down has      *)
(* its tables on disk, under numbers below the ones that are free; the         *)
(* files that are being written are spared by pendingOutputs, or belong to     *)
(* a flush that nothing removes files during.                                  *)
(*                                                                             *)
(* WorkInv says that whoever makes work for the background thread wakes it.    *)
(*                                                                             *)
(* OrderInv: the entries of the tables, the logs, the memtables and the        *)
(* group are told apart by their numbers, what a compaction took stays         *)
(* what it was while a flush goes on beside it, and its outputs follow one     *)
(* another.  It holds while no record of the manifest fails and no client      *)
(* compacts a range: either one can break it.                                  *)
(*                                                                             *)
(* LayerInv: the versions are layered, the logs that a manifest record         *)
(* names hold newer entries than its tables, the memtables lie in those        *)
(* logs, and what a compaction has still to write holds one entry of each      *)
(* key.  It asks for no snapshot besides: for one, a compaction keeps several  *)
(* entries of a key, which may come to lie in two files.                       *)
(*******************************************************************************)
EXTENDS DBImpl, VersionSetProofs

Record == Seq(Entry)
Log == [records : Seq(Record), synced : Nat]

\* The synced groups of Durable.
Lasting(groups) == {g \in groups : ~g.behind}

\* The entries of the records of a log are numbered up to b.
SeqsUpTo(records, b) == \A r \in ToSet(records) : \A e \in ToSet(r) : e.seq <= b

FilesOK(files) ==
    /\ files \in [DOMAIN files -> Log] /\ DOMAIN files \subseteq Nat
    /\ \A n \in DOMAIN files : files[n].synced <= Len(files[n].records)
    /\ \E b \in Nat : \A n \in DOMAIN files : n <= b /\ SeqsUpTo(files[n].records, b)

-----------------------------------------------------------------------------
\* What a recovery from log number first, which counts on from last, loses not:
\* no number above last is used in a log it skips, and a synced group with
\* numbers above last is in a log it reads.
Backed(files, lasting, first, last) ==
    /\ first \in Nat /\ last \in Nat
    /\ \A n \in DOMAIN files : n < first => SeqsUpTo(files[n].records, last)
    /\ \A g \in lasting :
           \/ \A e \in g.entries : e.seq <= last
           \/ \E n \in DOMAIN files :
                  n >= first /\ \E r \in ToSet(files[n].records) : ToSet(r) = g.entries
RecordOK(m, files, lasting) ==
    /\ m.nextFile \in Nat /\ m.logNumber < m.nextFile
    /\ Backed(files, lasting, m.logNumber, m.lastSequence)

\* Wherever these entries are in a log, they are synced and readable.
Safe(files, entries) ==
    \A n \in DOMAIN files : \A i \in 1..Len(files[n].records) :
        ToSet(files[n].records[i]) = entries =>
            i <= files[n].synced /\ \A j \in 1..i : files[n].records[j] # Torn

\* Only the records in pending, of the newest log, have numbers above last.
Counted(files, newest, pending, last) ==
    \A n \in DOMAIN files : \A r \in ToSet(files[n].records) :
        (n = newest /\ r \in pending) \/ \A e \in ToSet(r) : e.seq <= last

QueueOK ==
    /\ writers \in Seq(Thread)
    /\ request \in [Thread -> Request \cup {None}]
    /\ \A i \in 1..Len(writers) : request[writers[i]] # None
    /\ \A i, j \in 1..Len(writers) : writers[i] = writers[j] => i = j

IdleOK ==
    running # "open" =>
        /\ group = None /\ flush = None /\ compaction = None /\ ~scheduled
        /\ \A r \in Reader : readers[r] = None

\* The record of the group is in the log, but its numbers are not used up yet.
Pending == IF group # None /\ group.step # "log" THEN {group.entries} ELSE {}

GroupOK ==
    group # None =>
        /\ group \in Group /\ Len(group.members) <= Len(writers)
        /\ \A i \in 1..Len(group.members) : group.members[i] = writers[i]
        /\ group.entries # <<>>
        /\ \A i \in 1..Len(group.entries) : group.entries[i].seq = lastSequence + i
        /\ group.step # "log" => group.entries \in ToSet(logs[logfile].records)
        /\ group.step = "insert" /\ group.sync =>
               logs[logfile].synced = Len(logs[logfile].records)

Running == running \in {"open", "opening"}
NumbersOK ==
    Running =>
        /\ nextFile \in Nat /\ lastSequence \in Nat /\ logNumber \in Nat /\ logfile \in Nat
        /\ logfile < nextFile /\ logNumber <= logfile
        /\ logfile \in DOMAIN logs /\ \A n \in DOMAIN logs : n <= logfile
        /\ \A m \in manifest : m.logNumber <= logfile
        /\ edit # None \/ running = "opening" => edit.logNumber <= logfile
CountsOK ==
    Running => /\ Counted(logs, logfile, Pending, lastSequence)
               /\ \A g \in Lasting(synced) : \A e \in g.entries : e.seq <= lastSequence

ManifestOK ==
    /\ \A m \in manifest : RecordOK(m, logs, Lasting(synced))
    /\ edit # None \/ running = "opening" => RecordOK(edit, logs, Lasting(synced))
    /\ running \in {"down", "opening"} => \A m, k \in manifest : m = k

SyncedOK ==
    \A g \in Lasting(synced) :
        /\ g \in hist /\ g.entries # {} /\ g.entries \subseteq Entry
        /\ Safe(logs, g.entries)

\* Inductive.
DurableInv ==
    /\ FilesOK(logs) /\ QueueOK /\ IdleOK /\ GroupOK
    /\ NumbersOK /\ CountsOK /\ ManifestOK /\ SyncedOK

-----------------------------------------------------------------------------
LEMMA SumOfTwo ==
    \A a, b, c \in Nat : c = a + b => b <= c /\ \A d \in Nat : d <= a => d <= c
    OBVIOUS

\* Sequences of sequences: FlattenSeq keeps what they hold and is no shorter.
LEMMA ToSetConcat ==
    ASSUME NEW T, NEW s \in Seq(T), NEW t \in Seq(T)
    PROVE  /\ s \o t \in Seq(T)
           /\ \A x : x \in ToSet(s \o t) <=> x \in ToSet(s) \/ x \in ToSet(t)
           /\ Len(s \o t) = Len(s) + Len(t)
<1>1. /\ s \o t \in Seq(T) /\ Len(s \o t) = Len(s) + Len(t)
      /\ \A i \in 1..Len(s) : (s \o t)[i] = s[i]
      /\ \A i \in 1..Len(t) : (s \o t)[Len(s) + i] = t[i]
    OBVIOUS
<1>2. Len(s) \in Nat /\ Len(t) \in Nat /\ DOMAIN s = 1..Len(s) /\ DOMAIN t = 1..Len(t)
      /\ DOMAIN (s \o t) = 1..(Len(s) + Len(t))
    OBVIOUS
<1>3. ASSUME NEW i \in 1..(Len(s) + Len(t))
      PROVE  (s \o t)[i] \in ToSet(s) \/ (s \o t)[i] \in ToSet(t)
    <2>1. CASE i <= Len(s)
        BY <1>1, <1>2, <2>1 DEF ToSet
    <2>2. CASE i > Len(s)
        <3>1. i - Len(s) \in 1..Len(t) /\ Len(s) + (i - Len(s)) = i
            BY <1>2, <2>2
        <3>2. (s \o t)[i] = t[i - Len(s)]
            BY <1>1, <3>1
        <3> QED BY <1>2, <3>1, <3>2 DEF ToSet
    <2> QED BY <1>2, <2>1, <2>2
<1>4. \A i \in 1..Len(s) : i \in 1..(Len(s) + Len(t))
    BY <1>2
<1>5. \A i \in 1..Len(t) : Len(s) + i \in 1..(Len(s) + Len(t))
    BY <1>2
<1>6. \A x : x \in ToSet(s \o t) => x \in ToSet(s) \/ x \in ToSet(t)
    BY <1>2, <1>3 DEF ToSet
<1>7. \A x \in ToSet(s) : x \in ToSet(s \o t)
    BY <1>1, <1>2, <1>4 DEF ToSet
<1>8. \A x \in ToSet(t) : x \in ToSet(s \o t)
    BY <1>1, <1>2, <1>5 DEF ToSet
<1> QED BY <1>1, <1>6, <1>7, <1>8

LEMMA FlattenSeqFacts ==
    ASSUME NEW T, NEW ss \in Seq(Seq(T))
    PROVE  /\ FlattenSeq(ss) \in Seq(T)
           /\ \A x : x \in ToSet(FlattenSeq(ss)) <=> \E i \in 1..Len(ss) : x \in ToSet(ss[i])
           /\ \A i \in 1..Len(ss) : Len(ss[i]) <= Len(FlattenSeq(ss))
<1> DEFINE n == Len(ss)
           Flattens(h) == h = [i \in 1..n |-> IF i = 1 THEN ss[1] ELSE h[i - 1] \o ss[i]]
           Good(i, s) ==
               /\ s \in Seq(T)
               /\ \A x : x \in ToSet(s) <=> \E j \in 1..i : x \in ToSet(ss[j])
               /\ \A j \in 1..i : Len(ss[j]) <= Len(s)
<1>1. n \in Nat /\ \A i \in 1..n : ss[i] \in Seq(T)
    OBVIOUS
<1>2. CASE n = 0
    <2>1. FlattenSeq(ss) = ss /\ ss = <<>>
        BY <1>2 DEF FlattenSeq
    <2> QED BY <1>2, <2>1 DEF ToSet
<1>3. CASE n # 0
    <2>1. \E h : Flattens(h)
        <3> DEFINE step == [i \in 1..n |-> [s \in Seq(T) |-> s \o ss[i]]]
        <3>1. step \in [1..n -> [Seq(T) -> Seq(T)]]
            BY <1>1
        <3>2. PICK empty : empty = <<>> /\ empty \in Seq(T)
            BY EmptySeq
        <3>3. PICK f : IsFold(f, n, Seq(T), empty, step)
            <4> HIDE DEF step, n
            <4> QED BY <1>1, <3>1, <3>2, FoldExists
        <3> DEFINE h == [i \in 1..n |-> f[i]]
        <3>4. \A i \in 1..n : f[i - 1] \in Seq(T) /\ f[i] = f[i - 1] \o ss[i]
            <4>1. \A i \in 1..n : i - 1 \in 0..n
                BY <1>1
            <4> QED BY <3>3, <4>1 DEF IsFold
        <3>5. 1 \in 1..n /\ f[1] = ss[1]
            <4>1. 1 \in 1..n
                BY <1>1, <1>3
            <4>2. f[1 - 1] = <<>>
                BY <3>2, <3>3 DEF IsFold
            <4> HIDE DEF step
            <4>3. f[1] = <<>> \o ss[1]
                BY <3>4, <4>1, <4>2
            <4> QED BY <1>1, <4>1, <4>3
        <3>6. ASSUME NEW i \in 1..n, i # 1 PROVE f[i] = h[i - 1] \o ss[i]
            <4>1. i - 1 \in 1..n
                BY <1>1, <3>6
            <4> QED BY <3>4, <4>1
        <3>7. \A i \in 1..n : h[i] = IF i = 1 THEN ss[1] ELSE h[i - 1] \o ss[i]
            BY <3>5, <3>6
        <3>8. Flattens(h)
            BY <3>7
        <3> QED BY <3>8
    <2>2. PICK h : Flattens(h) /\ FlattenSeq(ss) = h[n]
        <3> DEFINE h == CHOOSE x : Flattens(x)
        <3>1. Flattens(h)
            BY <2>1
        <3>2. FlattenSeq(ss) = h[n]
            BY <1>3 DEF FlattenSeq
        <3> QED BY <3>1, <3>2
    <2>3. h[1] = ss[1] /\ \A i \in 1..n : i # 1 => h[i] = h[i - 1] \o ss[i]
        <3>1. 1 \in 1..n
            BY <1>1, <1>3
        <3>2. \A i \in 1..n : h[i] = IF i = 1 THEN ss[1] ELSE h[i - 1] \o ss[i]
            <4> HIDE DEF n
            <4> QED BY <2>2, Zenon
        <3> QED BY <3>1, <3>2
    <2>4. Good(1, h[1])
        BY <1>1, <1>3, <2>3
    <2>5. ASSUME NEW i \in 1..n, i # 1, Good(i - 1, h[i - 1]) PROVE Good(i, h[i])
        <3>1. ss[i] \in Seq(T) /\ h[i - 1] \in Seq(T) /\ h[i] = h[i - 1] \o ss[i]
            BY <1>1, <2>3, <2>5
        <3>2. /\ h[i] \in Seq(T)
              /\ \A x : x \in ToSet(h[i]) <=> x \in ToSet(h[i - 1]) \/ x \in ToSet(ss[i])
              /\ Len(h[i]) = Len(h[i - 1]) + Len(ss[i])
            BY <3>1, ToSetConcat
        <3>3. \A j : j \in 1..i <=> j \in 1..(i - 1) \/ j = i
            BY <1>1
        <3>4. \A x : x \in ToSet(h[i]) <=> \E j \in 1..i : x \in ToSet(ss[j])
            BY <2>5, <3>2, <3>3, Zenon
        <3>5. \A j \in 1..i : Len(ss[j]) <= Len(h[i])
            <4>1. \A j \in 1..(i - 1) : Len(ss[j]) <= Len(h[i - 1]) /\ Len(ss[j]) \in Nat
                BY <1>1, <2>5
            <4>2. Len(ss[i]) \in Nat /\ Len(h[i - 1]) \in Nat
                BY <3>1
            <4>3. ASSUME NEW j \in 1..i PROVE Len(ss[j]) <= Len(h[i])
                <5>0. Len(h[i]) = Len(h[i - 1]) + Len(ss[i]) /\ Len(h[i]) \in Nat
                    <6>1. h[i] \in Seq(T)
                        BY <3>2
                    <6>2. Len(h[i]) \in Nat
                        BY <6>1
                    <6> QED BY <3>2, <6>2, Zenon
                <5>1. CASE j \in 1..(i - 1)
                    <6>1. Len(ss[j]) <= Len(h[i - 1]) /\ Len(ss[j]) \in Nat
                        BY <4>1, <5>1
                    <6> QED BY <4>2, <5>0, <6>1, SumOfTwo
                <5>2. CASE j = i
                    BY <4>2, <5>0, <5>2, SumOfTwo
                <5> QED BY <3>3, <5>1, <5>2
            <4> QED BY <4>3
        <3> QED BY <3>2, <3>4, <3>5
    <2> DEFINE Right == {k \in Nat : k + 1 <= n => Good(k + 1, h[k + 1])}
    <2>6. 0 \in Right
        BY <2>4
    <2>7. ASSUME NEW k \in Right \cap Nat PROVE k + 1 \in Right
        <3> HIDE DEF Good
        <3>1. k \in Nat /\ (k + 1 <= n => Good(k + 1, h[k + 1]))
            OBVIOUS
        <3>2. k + 1 \in Nat /\ (k + 1) + 1 # 1 /\ ((k + 1) + 1) - 1 = k + 1
            BY <3>1
        <3>3. (k + 1) + 1 <= n => k + 1 <= n /\ (k + 1) + 1 \in 1..n
            BY <3>1, <1>1
        <3>4. (k + 1) + 1 <= n => Good((k + 1) + 1, h[(k + 1) + 1])
            BY <2>5, <3>1, <3>2, <3>3
        <3> QED BY <3>2, <3>4
    <2>8. Nat \subseteq Right
        <3> HIDE DEF Right
        <3> QED BY <2>6, <2>7, NumbersFromZero
    <2>9. Good(n, h[n])
        <3> HIDE DEF Good
        <3>1. n - 1 \in Nat /\ (n - 1) + 1 = n
            BY <1>1, <1>3
        <3>2. n - 1 \in Right
            <4> HIDE DEF Right
            <4> QED BY <2>8, <3>1
        <3> QED BY <3>1, <3>2, <1>1
    <2> QED BY <2>2, <2>9
<1> QED BY <1>2, <1>3

-----------------------------------------------------------------------------
\* What a log keeps: no torn record, and of the synced ones each that has no
\* torn one before it.
LEMMA WholeFacts ==
    ASSUME NEW rs \in Seq(Record)
    PROVE  Whole(rs) \in Seq(Record) /\ \A r : r \in ToSet(Whole(rs)) <=> r \in ToSet(rs) /\ r # Torn
<1> DEFINE ss == [i \in DOMAIN rs |-> IF rs[i] = Torn THEN <<>> ELSE <<rs[i]>>]
<1>1. DOMAIN rs = 1..Len(rs) /\ Len(rs) \in Nat /\ \A i \in 1..Len(rs) : rs[i] \in Record
    OBVIOUS
<1>2. ASSUME NEW i \in 1..Len(rs)
      PROVE  ss[i] \in Seq(Record) /\ \A r : r \in ToSet(ss[i]) <=> r = rs[i] /\ r # Torn
    <2>1. rs[i] \in Record /\ ss[i] = IF rs[i] = Torn THEN <<>> ELSE <<rs[i]>>
        BY <1>1
    <2>2. <<>> \in Seq(Record) /\ ToSet(<<>>) = {}
        BY EmptySeq DEF ToSet
    <2>3. <<rs[i]>> \in Seq(Record)
        BY <2>1
    <2>4. ToSet(<<rs[i]>>) = {rs[i]}
        BY DEF ToSet
    <2> HIDE DEF ss
    <2>5. CASE rs[i] = Torn
        BY <2>1, <2>2, <2>5
    <2>6. CASE rs[i] # Torn
        <3>1. ss[i] = <<rs[i]>>
            BY <2>1, <2>6
        <3> QED BY <2>3, <2>4, <2>6, <3>1
    <2> QED BY <2>5, <2>6
<1>3. ss \in Seq(Seq(Record)) /\ Len(ss) = Len(rs)
    <2> DEFINE S == Seq(Record)
    <2>1. \A i \in 1..Len(rs) : ss[i] \in S
        BY <1>2
    <2>2. DOMAIN ss = 1..Len(rs)
        BY <1>1
    <2>3. ss = [i \in 1..Len(rs) |-> ss[i]]
        BY <1>1
    <2> HIDE DEF S, ss
    <2>4. ss \in Seq(S)
        BY <1>1, <2>1, <2>3
    <2> QED BY <1>1, <2>2, <2>4 DEF S
<1>4. Whole(rs) = FlattenSeq(ss)
    BY DEF Whole
<1> HIDE DEF ss
<1>5. /\ FlattenSeq(ss) \in Seq(Record)
      /\ \A x : x \in ToSet(FlattenSeq(ss)) <=> \E i \in 1..Len(ss) : x \in ToSet(ss[i])
    BY <1>3, FlattenSeqFacts
<1>6. \A r : (\E i \in 1..Len(ss) : r \in ToSet(ss[i])) <=> r \in ToSet(rs) /\ r # Torn
    BY <1>1, <1>2, <1>3 DEF ToSet
<1> QED BY <1>4, <1>5, <1>6

LEMMA BeforeTornFacts ==
    ASSUME NEW rs \in Seq(Record)
    PROVE  \E k \in 0..Len(rs) :
               /\ BeforeTorn(rs) = SubSeq(rs, 1, k)
               /\ \A i \in 1..k : rs[i] # Torn
               /\ k < Len(rs) => rs[k + 1] = Torn
<1> DEFINE seq == rs \o <<Torn>>
           I == {i \in 1..Len(seq) : seq[i] = Torn}
           least == CHOOSE x \in I : \A y \in I : x <= y
<1>1. Torn \in Record /\ Len(rs) \in Nat
    BY EmptySeq DEF Torn, Record
<1>2. /\ Len(seq) = Len(rs) + 1 /\ seq[Len(rs) + 1] = Torn
      /\ \A i \in 1..Len(rs) : seq[i] = rs[i]
    <2>1. <<Torn>> \in Seq(Record) /\ Len(<<Torn>>) = 1 /\ <<Torn>>[1] = Torn
        BY <1>1
    <2> QED BY <1>1, <2>1
<1>3. Len(rs) + 1 \in I /\ I \subseteq 1..(Len(rs) + 1) /\ I \in SUBSET Nat
    <2>1. Len(rs) + 1 \in 1..Len(seq)
        BY <1>1, <1>2
    <2> QED BY <1>1, <1>2, <2>1
<1> HIDE DEF seq
<1>4. \E x \in I : \A y \in I : x <= y
    <2> HIDE DEF I
    <2> QED BY <1>3, LeastNumber
<1>5. least \in I /\ \A y \in I : least <= y
    <2> HIDE DEF I
    <2> QED BY <1>4
<1>6. SelectInSeq(seq, LAMBDA x : x = Torn) = least
    BY <1>3 DEF SelectInSeq, Min
<1>7. BeforeTorn(rs) = SubSeq(rs, 1, least - 1)
    BY <1>6 DEF BeforeTorn, seq
<1> HIDE DEF least
<1>8. least \in 1..(Len(rs) + 1) /\ seq[least] = Torn
    BY <1>3, <1>5
<1>9. least - 1 \in 0..Len(rs)
    BY <1>1, <1>8
<1>10. \A i \in 1..(least - 1) : rs[i] # Torn
    <2> SUFFICES ASSUME NEW i \in 1..(least - 1), rs[i] = Torn PROVE FALSE
        OBVIOUS
    <2>1. i \in 1..Len(rs) /\ i \in 1..Len(seq) /\ ~(least <= i)
        BY <1>1, <1>2, <1>8
    <2>2. i \in I
        BY <1>2, <2>1
    <2> QED BY <1>5, <2>1, <2>2
<1>11. least - 1 < Len(rs) => rs[(least - 1) + 1] = Torn
    <2> SUFFICES ASSUME least - 1 < Len(rs) PROVE rs[(least - 1) + 1] = Torn
        OBVIOUS
    <2>1. (least - 1) + 1 = least /\ least \in 1..Len(rs)
        BY <1>1, <1>8
    <2> QED BY <1>2, <1>8, <2>1
<1> QED BY <1>7, <1>9, <1>10, <1>11

LEMMA ReadableFacts ==
    ASSUME NEW log \in Log, log.synced <= Len(log.records), NEW rs \in Readable(log)
    PROVE  /\ rs \in Seq(Record)
           /\ \A r \in ToSet(rs) : r \in ToSet(log.records) /\ r # Torn
           /\ \A i \in 1..log.synced :
                  (\A j \in 1..i : log.records[j] # Torn) => log.records[i] \in ToSet(rs)
<1> DEFINE all == log.records
<1>1. all \in Seq(Record) /\ Len(all) \in Nat /\ log.synced \in 0..Len(all)
    BY DEF Log
<1>2. PICK n \in log.synced..Len(all) : rs = Whole(SubSeq(all, 1, n)) \/ rs = BeforeTorn(SubSeq(all, 1, n))
    BY DEF Readable
<1> DEFINE cut == SubSeq(all, 1, n)
<1>3. n \in 0..Len(all)
    BY <1>1
<1>4. cut \in Seq(Record) /\ Len(cut) = n /\ \A i \in 1..n : cut[i] = all[i]
    BY <1>1, <1>3
<1>5. DOMAIN all = 1..Len(all) /\ DOMAIN cut = 1..n
    BY <1>1, <1>4
<1>6. \A i \in 1..log.synced : i \in 1..n /\ i \in 1..Len(all)
    BY <1>1, <1>3
<1> HIDE DEF all, cut
<1>7. \A i \in 1..n : i \in 1..Len(all)
    BY <1>1, <1>3
<1>8. \A r \in ToSet(cut) : r \in ToSet(all)
    BY <1>4, <1>5, <1>7 DEF ToSet
<1>9. \A i \in 1..log.synced : all[i] \in ToSet(cut)
    BY <1>4, <1>5, <1>6 DEF ToSet
<1>10. CASE rs = Whole(cut)
    <2>1. /\ rs \in Seq(Record)
          /\ \A r : r \in ToSet(rs) <=> r \in ToSet(cut) /\ r # Torn
        BY <1>4, <1>10, WholeFacts
    <2>2. ASSUME NEW i \in 1..log.synced, \A j \in 1..i : all[j] # Torn
          PROVE  all[i] \in ToSet(rs)
        <3>1. i \in 1..i
            BY <1>1
        <3> QED BY <1>9, <2>1, <2>2, <3>1
    <2> QED BY <1>8, <2>1, <2>2 DEF all
<1>11. CASE rs = BeforeTorn(cut)
    <2>1. PICK k \in 0..n :
              /\ rs = SubSeq(cut, 1, k)
              /\ \A i \in 1..k : cut[i] # Torn
              /\ k < n => cut[k + 1] = Torn
        BY <1>4, <1>11, BeforeTornFacts
    <2>2. rs \in Seq(Record) /\ Len(rs) = k /\ \A i \in 1..k : rs[i] = cut[i]
        BY <1>3, <1>4, <2>1
    <2>3. DOMAIN rs = 1..k /\ \A i \in 1..k : i \in 1..n
        BY <1>3, <2>2
    <2>4. \A r \in ToSet(rs) : r \in ToSet(cut) /\ r # Torn
        BY <1>5, <2>1, <2>2, <2>3 DEF ToSet
    <2>5. ASSUME NEW i \in 1..log.synced, \A j \in 1..i : all[j] # Torn
          PROVE  all[i] \in ToSet(rs)
        <3>1. i <= k
            <4> SUFFICES ASSUME k < i PROVE FALSE
                BY <1>1, <2>1
            <4>1. k + 1 \in 1..i /\ k + 1 \in 1..n /\ k < n
                BY <1>3, <1>6
            <4> QED BY <1>4, <2>1, <2>5, <4>1
        <3>2. i \in 1..k /\ i \in 1..n
            BY <1>6, <3>1
        <3> QED BY <1>4, <2>2, <2>3, <3>2 DEF ToSet
    <2> QED BY <1>8, <2>2, <2>4, <2>5 DEF all
<1> QED BY <1>2, <1>10, <1>11 DEF all, cut

-----------------------------------------------------------------------------
\* Recovery takes a file number that no log it reads has, and writes tables (Made) under
\* numbers of their own from a on.
NumberedFrom(files, a, next) ==
    /\ IsFiniteSet(files)
    /\ \A f \in files : f.number \in Nat /\ a <= f.number /\ f.number < next
    /\ \A f, g \in files : f.number = g.number => f = g
Made(all) == {NewFile(k, es) : k \in Nat, es \in (SUBSET all) \ {{}}}
Work(a, b, all) ==
    {w \in [mem : SUBSET all, next : {k \in Nat : k >= b},
             files : SUBSET Made(all)] : NumberedFrom(w.files, a, w.next)}
ReplayOne(v, record) ==
    LET m == [v EXCEPT !.mem = @ \cup ToSet(record)]
    IN IF Cardinality(m.mem) > WriteBufferSize THEN ToLevel0(m) ELSE m

LEMMA MadeFacts ==
    ASSUME NEW all
    PROVE  \A f : f \in Made(all) <=> \E k \in Nat, es \in (SUBSET all) \ {{}} : f = NewFile(k, es)
BY DEF Made

LEMMA WorkFacts ==
    ASSUME NEW a \in Nat, NEW b \in Nat, NEW all, NEW w \in Work(a, b, all)
    PROVE  /\ w.next \in Nat /\ w.next >= b /\ w.mem \in SUBSET all
           /\ w.files \in SUBSET Made(all)
           /\ NumberedFrom(w.files, a, w.next)
           /\ w = [mem |-> w.mem, next |-> w.next, files |-> w.files]
BY DEF Work

LEMMA MemAdded ==
    ASSUME NEW w, NEW es, w = [mem |-> w.mem, next |-> w.next, files |-> w.files]
    PROVE  [w EXCEPT !.mem = @ \cup es] = [mem |-> w.mem \cup es, next |-> w.next, files |-> w.files]
<1>1. PICK p, q, s : w = [mem |-> p, next |-> q, files |-> s]
    OBVIOUS
<1> QED BY <1>1

LEMMA WorkMade ==
    ASSUME NEW a \in Nat, NEW b \in Nat, NEW all, NEW w,
           w = [mem |-> w.mem, next |-> w.next, files |-> w.files],
           w.next \in Nat, w.next >= b, w.mem \in SUBSET all,
           w.files \in SUBSET Made(all),
           NumberedFrom(w.files, a, w.next)
    PROVE  w \in Work(a, b, all)
<1>1. w.next \in {k \in Nat : k >= b}
    OBVIOUS
<1>2. w \in [mem : SUBSET all, next : {k \in Nat : k >= b}, files : SUBSET Made(all)]
    BY <1>1
<1> QED BY <1>2 DEF Work

LEMMA ToLevel0Facts ==
    ASSUME NEW a \in Nat, NEW b \in Nat, NEW all, a <= b, NEW w \in Work(a, b, all), w.mem # {}
    PROVE  ToLevel0(w) \in Work(a, b, all)
<1> DEFINE f == NewFile(w.next, w.mem)
           more == w.files \cup {f}
<1>1. /\ w.next \in Nat /\ w.next >= b /\ w.mem \in SUBSET all
      /\ w.files \in SUBSET Made(all)
      /\ NumberedFrom(w.files, a, w.next)
    BY WorkFacts
<1>2. w.next + 1 \in Nat /\ w.next + 1 >= b
    BY <1>1
<1>3. f \in Made(all)
    BY <1>1, MadeFacts
<1>4. f.number = w.next
    BY DEF NewFile
<1> HIDE DEF f
<1>5. NumberedFrom(more, a, w.next + 1)
    <2>1. IsFiniteSet(more)
        BY <1>1, FS_AddElement DEF NumberedFrom
    <2>2. \A g \in w.files : g.number \in Nat /\ a <= g.number /\ g.number < w.next
        BY <1>1 DEF NumberedFrom
    <2>3. \A g \in more : g.number \in Nat /\ a <= g.number /\ g.number < w.next + 1
        BY <1>1, <1>4, <2>2
    <2>4. \A g, h \in more : g.number = h.number => g = h
        BY <1>1, <1>4, <2>2 DEF NumberedFrom
    <2> QED BY <2>1, <2>3, <2>4 DEF NumberedFrom
<1>6. more \in SUBSET Made(all)
    BY <1>1, <1>3
<1> HIDE DEF more
<1>7. ToLevel0(w) = [mem |-> {}, next |-> w.next + 1, files |-> more]
    BY DEF ToLevel0, more, f
<1> QED BY <1>2, <1>5, <1>6, <1>7, WorkMade

LEMMA ReplayFacts ==
    ASSUME NEW a \in Nat, NEW b \in Nat, NEW all, a <= b, NEW w \in Work(a, b, all), NEW r \in Seq(all)
    PROVE  ReplayOne(w, r) \in Work(a, b, all)
<1> DEFINE m == [w EXCEPT !.mem = @ \cup ToSet(r)]
<1>1. ToSet(r) \in SUBSET all
    BY DEF ToSet
<1>2. m \in Work(a, b, all)
    <2>1. w.mem \cup ToSet(r) \in SUBSET all
        BY <1>1, WorkFacts
    <2>2. m = [mem |-> w.mem \cup ToSet(r), next |-> w.next, files |-> w.files]
        <3> DEFINE es == ToSet(r)
        <3>1. w = [mem |-> w.mem, next |-> w.next, files |-> w.files]
            BY WorkFacts
        <3> HIDE DEF es
        <3>2. [w EXCEPT !.mem = @ \cup es] = [mem |-> w.mem \cup es, next |-> w.next, files |-> w.files]
            BY <3>1, MemAdded
        <3> QED BY <3>2 DEF es
    <2> HIDE DEF m
    <2> QED BY <2>1, <2>2, WorkFacts, WorkMade
<1> HIDE DEF m
<1>3. Cardinality(m.mem) > WriteBufferSize => m.mem # {}
    <2>1. WriteBufferSize \in Nat /\ Cardinality({}) = 0
        BY FS_EmptySet, Bounds
    <2>2. ~(0 > WriteBufferSize)
        BY <2>1
    <2> QED BY <2>1, <2>2
<1>4. m.mem # {} => ToLevel0(m) \in Work(a, b, all)
    BY <1>2, ToLevel0Facts
<1> QED BY <1>2, <1>3, <1>4 DEF ReplayOne, m

LEMMA RecoverLogFileFacts ==
    ASSUME NEW a \in Nat, NEW b \in Nat, NEW all, a <= b, NEW w \in Work(a, b, all), NEW n \in Nat,
           logs[n].records \in Seq(Seq(all))
    PROVE  RecoverLogFile(w, n) \in Work(a, b, all) /\ RecoverLogFile(w, n).next > n
<1> DEFINE records == logs[n].records
           L == Len(records)
           Replays(h) == h = [i \in 0..L |-> IF i = 0 THEN w ELSE ReplayOne(h[i - 1], records[i])]
           replay == CHOOSE h : Replays(h)
           end == replay[L]
           done == IF end.mem = {} THEN end ELSE ToLevel0(end)
<1>1. L \in Nat /\ \A i \in 1..L : records[i] \in Seq(all)
    OBVIOUS
<1>2. RecoverLogFile(w, n) = [done EXCEPT !.next = Newer(@, n + 1)]
    BY DEF RecoverLogFile, ReplayOne
<1>3. \E h : Replays(h)
    <2> DEFINE step == [i \in 1..L |-> [v \in Work(a, b, all) |-> ReplayOne(v, records[i])]]
    <2>1. step \in [1..L -> [Work(a, b, all) -> Work(a, b, all)]]
        <3>1. \A i \in 1..L : \A v \in Work(a, b, all) : ReplayOne(v, records[i]) \in Work(a, b, all)
            BY <1>1, ReplayFacts
        <3> QED BY <3>1
    <2>2. PICK f : IsFold(f, L, Work(a, b, all), w, step)
        <3> HIDE DEF step, L
        <3> QED BY <1>1, <2>1, FoldExists
    <2>3. f \in [0..L -> Work(a, b, all)] /\ f[0] = w /\ \A i \in 1..L : f[i] = step[i][f[i - 1]]
        BY <2>2 DEF IsFold
    <2>4. \A i \in 1..L : i - 1 \in 0..L
        BY <1>1
    <2>5. \A i \in 1..L : f[i] = ReplayOne(f[i - 1], records[i])
        BY <2>3, <2>4
    <2>6. \A i \in 0..L : i # 0 => i \in 1..L
        BY <1>1
    <2>7. \A i \in 0..L : f[i] = IF i = 0 THEN w ELSE ReplayOne(f[i - 1], records[i])
        BY <2>3, <2>5, <2>6
    <2>8. f = [i \in 0..L |-> f[i]]
        BY <2>3
    <2> HIDE DEF L, records
    <2>9. Replays(f)
        BY <2>7, <2>8
    <2> QED BY <2>9
<1>4. Replays(replay)
    BY <1>3
<1> HIDE DEF replay
<1>5. \A i \in 0..L : replay[i] = IF i = 0 THEN w ELSE ReplayOne(replay[i - 1], records[i])
    <2> HIDE DEF L, records
    <2> QED BY <1>4, Zenon
<1>6. \A i \in 0..L : replay[i] \in Work(a, b, all)
    <2> DEFINE S == [i \in 0..L |-> Work(a, b, all)]
    <2>1. 0 \in 0..L /\ \A i \in 1..L : i \in 0..L /\ i - 1 \in 0..L /\ i # 0
        BY <1>1
    <2>2. replay[0] \in S[0]
        BY <1>5, <2>1
    <2>3. \A i \in 1..L : replay[i - 1] \in Work(a, b, all) => replay[i] \in Work(a, b, all)
        BY <1>1, <1>5, <2>1, ReplayFacts
    <2>4. \A i \in 1..L : replay[i - 1] \in S[i - 1] => replay[i] \in S[i]
        BY <2>1, <2>3
    <2>5. \A i \in 0..L : S[i] = Work(a, b, all)
        OBVIOUS
    <2> HIDE DEF S, L
    <2>6. \A i \in 0..L : replay[i] \in S[i]
        BY <1>1, <2>2, <2>4, FoldStays
    <2> QED BY <2>5, <2>6
<1>7. end \in Work(a, b, all)
    <2>1. L \in 0..L
        BY <1>1
    <2> QED BY <1>6, <2>1
<1> HIDE DEF end
<1>8. done \in Work(a, b, all)
    BY <1>7, ToLevel0Facts
<1> HIDE DEF done
<1>9. PICK k : k = Newer(done.next, n + 1)
    OBVIOUS
<1>10. done.next \in Nat /\ k \in Nat /\ k >= b /\ k > n /\ k >= done.next
    <2>1. done.next \in Nat /\ done.next >= b
        BY <1>8, WorkFacts
    <2> QED BY <1>9, <2>1 DEF Newer
<1>11. NumberedFrom(done.files, a, k)
    <2>1. NumberedFrom(done.files, a, done.next)
        BY <1>8, WorkFacts
    <2> QED BY <1>10, <2>1 DEF NumberedFrom
<1>12. [done EXCEPT !.next = k] = [mem |-> done.mem, next |-> k, files |-> done.files]
    BY <1>8, WorkFacts
<1>13. [done EXCEPT !.next = k] \in Work(a, b, all)
    <2>1. PICK x : x = [done EXCEPT !.next = k]
        OBVIOUS
    <2>2. x.mem = done.mem /\ x.next = k /\ x.files = done.files
          /\ x = [mem |-> done.mem, next |-> k, files |-> done.files]
        BY <1>12, <2>1
    <2>3. x = [mem |-> x.mem, next |-> x.next, files |-> x.files]
        BY <2>2
    <2>4. /\ x.mem \in SUBSET all /\ NumberedFrom(x.files, a, x.next)
          /\ x.next \in Nat /\ x.next >= b
        BY <1>8, <1>10, <1>11, <2>2, WorkFacts
    <2>5. x.files \in SUBSET Made(all)
        BY <1>8, <2>2, WorkFacts
    <2> QED BY <2>1, <2>3, <2>4, <2>5, WorkMade
<1>14. RecoverLogFile(w, n) = [done EXCEPT !.next = k]
    BY <1>2, <1>9
<1> QED BY <1>10, <1>12, <1>13, <1>14

LEMMA RecoverLogFilesFacts ==
    ASSUME NEW a \in Nat, NEW b \in Nat, NEW all, a <= b, NEW start \in Work(a, b, all), b > 0, NEW top \in Nat,
           NEW replayed \in SUBSET 0..top,
           \A n \in replayed : logs[n].records \in Seq(Seq(all))
    PROVE  /\ RecoverLogFiles(replayed, start) \in Work(a, b, all)
           /\ \A n \in replayed : RecoverLogFiles(replayed, start).next > n
<1> DEFINE m == Max(replayed \cup {0})
           Step(n, v) == IF n \in replayed THEN RecoverLogFile(v, n) ELSE v
           Recovers(h) == h = [n \in 0..m |-> IF n = 0 THEN start
                                 ELSE IF n \in replayed THEN RecoverLogFile(h[n - 1], n) ELSE h[n - 1]]
           recover == CHOOSE h : Recovers(h)
<1>1. m \in replayed \cup {0} /\ \A n \in replayed \cup {0} : m >= n
    <2> DEFINE R == replayed \cup {0}
    <2>1. R \in SUBSET 0..top /\ R # {}
        OBVIOUS
    <2> HIDE DEF R
    <2>2. \E n \in R : \A k \in R : k <= n
        BY <2>1, GreatestNumber
    <2>3. \A n, k \in R : k <= n <=> n >= k
        BY <2>1
    <2>4. \E n \in R : \A k \in R : n >= k
        BY <2>2, <2>3
    <2>5. m \in R /\ \A n \in R : m >= n
        BY <2>4 DEF Max, R
    <2> QED BY <2>5 DEF R
<1>2. RecoverLogFiles(replayed, start) = recover[m]
    BY DEF RecoverLogFiles
<1> HIDE DEF m
<1>3. m \in Nat
    <2>1. \A n \in replayed : n \in Nat
        OBVIOUS
    <2> QED BY <1>1, <2>1
<1>4. \A n \in 1..m : \A v \in Work(a, b, all) :
          Step(n, v) \in Work(a, b, all) /\ (n \in replayed => Step(n, v).next > n)
    <2>1. \A n \in replayed : n \in Nat
        OBVIOUS
    <2> QED BY <2>1, RecoverLogFileFacts
<1>5. \E h : Recovers(h)
    <2> DEFINE step == [n \in 1..m |-> [v \in Work(a, b, all) |-> Step(n, v)]]
    <2>1. step \in [1..m -> [Work(a, b, all) -> Work(a, b, all)]]
        BY <1>4
    <2>2. PICK f : IsFold(f, m, Work(a, b, all), start, step)
        <3> HIDE DEF step
        <3> QED BY <1>3, <2>1, FoldExists
    <2>3. f \in [0..m -> Work(a, b, all)] /\ f[0] = start /\ \A i \in 1..m : f[i] = step[i][f[i - 1]]
        BY <2>2 DEF IsFold
    <2>4. \A i \in 1..m : i - 1 \in 0..m
        BY <1>3
    <2>5. \A i \in 1..m : f[i] = Step(i, f[i - 1])
        BY <2>3, <2>4
    <2>6. \A i \in 0..m : i # 0 => i \in 1..m
        BY <1>3
    <2>7. \A i \in 0..m : f[i] = IF i = 0 THEN start ELSE Step(i, f[i - 1])
        BY <2>3, <2>5, <2>6
    <2>8. f = [i \in 0..m |-> f[i]]
        BY <2>3
    <2>9. Recovers(f)
        BY <2>7, <2>8
    <2> QED BY <2>9
<1>6. Recovers(recover)
    BY <1>5
<1> HIDE DEF recover
<1>7. \A n \in 0..m : recover[n] = IF n = 0 THEN start ELSE Step(n, recover[n - 1])
    BY <1>6, Zenon
<1> DEFINE Replayed(i) == {v \in Work(a, b, all) : \A n \in replayed : n <= i => v.next > n}
<1>8. \A i \in 0..m : recover[i] \in Replayed(i)
    <2> DEFINE S == [i \in 0..m |-> Replayed(i)]
    <2>1. 0 \in 0..m /\ \A i \in 1..m : i \in 0..m /\ i - 1 \in 0..m /\ i # 0
        BY <1>3
    <2>2. start \in Replayed(0)
        <3>1. start.next \in Nat /\ start.next > 0
            BY WorkFacts
        <3>2. \A n \in replayed : n <= 0 => n = 0
            OBVIOUS
        <3> QED BY <3>1, <3>2
    <2>3. ASSUME NEW i \in 1..m, recover[i - 1] \in Replayed(i - 1) PROVE recover[i] \in Replayed(i)
        <3>1. recover[i] = Step(i, recover[i - 1]) /\ recover[i - 1] \in Work(a, b, all)
            BY <1>7, <2>1, <2>3
        <3>2. recover[i] \in Work(a, b, all) /\ (i \in replayed => recover[i].next > i)
            BY <1>4, <3>1
        <3>3. recover[i].next >= recover[i - 1].next
            <4>1. CASE i \in replayed
                <5>1. i \in Nat /\ recover[i - 1].next \in Nat /\ recover[i - 1].next >= b
                    BY <3>1, WorkFacts
                <5>2. recover[i - 1] \in Work(a, recover[i - 1].next, all)
                    BY <3>1, <5>1, WorkFacts, WorkMade
                <5>3. RecoverLogFile(recover[i - 1], i) \in Work(a, recover[i - 1].next, all)
                    BY <4>1, <5>1, <5>2, RecoverLogFileFacts
                <5> QED BY <3>1, <4>1, <5>1, <5>3, WorkFacts
            <4>2. CASE i \notin replayed
                BY <3>1, <4>2, WorkFacts
            <4> QED BY <4>1, <4>2
        <3>4. ASSUME NEW n \in replayed, n <= i PROVE recover[i].next > n
            <4>1. recover[i].next \in Nat /\ recover[i - 1].next \in Nat
                BY <3>1, <3>2, WorkFacts
            <4>2. n = i \/ n <= i - 1
                BY <1>3, <3>4
            <4>3. n <= i - 1 => recover[i - 1].next > n
                BY <2>3
            <4>4. n \in Nat
                OBVIOUS
            <4> QED BY <3>2, <3>3, <4>1, <4>2, <4>3, <4>4
        <3> QED BY <3>2, <3>4
    <2>4. \A i \in 0..m : S[i] = Replayed(i)
        OBVIOUS
    <2>5. recover[0] = start
        BY <1>7, <2>1
    <2>6. recover[0] \in S[0]
        BY <2>1, <2>2, <2>4, <2>5
    <2> HIDE DEF S, Replayed
    <2>7. \A i \in 1..m : recover[i - 1] \in S[i - 1] => recover[i] \in S[i]
        BY <2>1, <2>3, <2>4
    <2>8. \A i \in 0..m : recover[i] \in S[i]
        BY <1>3, <2>6, <2>7, FoldStays
    <2> QED BY <2>4, <2>8
<1>9. recover[m] \in Replayed(m)
    <2>1. m \in 0..m
        BY <1>3
    <2> QED BY <1>8, <2>1
<1>10. \A n \in replayed : n <= m
    BY <1>1
<1>11. recover[m] \in Work(a, b, all)
    BY <1>9
<1>12. \A n \in replayed : recover[m].next > n
    BY <1>9, <1>10
<1> QED BY <1>2, <1>11, <1>12, Zenon

-----------------------------------------------------------------------------
\* What one operation on the log files does to the parts of the invariant.
LEMMA RecordFacts ==
    ASSUME NEW record \in Record
    PROVE  /\ Len(record) \in Nat /\ DOMAIN record = 1..Len(record)
           /\ \A i \in 1..Len(record) : record[i].seq \in Nat
           /\ \A e \in ToSet(record) : e.seq \in Nat
<1>1. Len(record) \in Nat /\ DOMAIN record = 1..Len(record)
      /\ \A i \in 1..Len(record) : record[i] \in Entry
    BY DEF Record
<1>2. \A e \in Entry : e.seq \in Nat
    BY DEF Entry
<1> QED BY <1>1, <1>2 DEF ToSet

LEMMA LogFacts ==
    ASSUME NEW files, FilesOK(files), NEW n \in DOMAIN files
    PROVE  /\ n \in Nat /\ files[n] \in Log /\ files[n].synced \in Nat
           /\ files[n].records \in Seq(Record) /\ Len(files[n].records) \in Nat
           /\ DOMAIN files[n].records = 1..Len(files[n].records)
           /\ files[n].synced <= Len(files[n].records)
           /\ \A r \in ToSet(files[n].records) : r \in Record /\ \A e \in ToSet(r) : e.seq \in Nat
<1>1. n \in Nat /\ files[n] \in Log /\ files[n].synced <= Len(files[n].records)
    BY DEF FilesOK
<1>2. files[n].synced \in Nat /\ files[n].records \in Seq(Record)
    BY <1>1 DEF Log
<1>3. \A r \in ToSet(files[n].records) : r \in Record
    BY <1>2 DEF ToSet
<1> QED BY <1>1, <1>2, <1>3, RecordFacts

LEMMA BackedTransfer ==
    ASSUME NEW files, NEW files2, NEW lasting, NEW first, NEW last,
           Backed(files, lasting, first, last),
           \A n \in DOMAIN files2 : n < first =>
               \A r \in ToSet(files2[n].records) : n \in DOMAIN files /\ r \in ToSet(files[n].records),
           \A n \in DOMAIN files : n >= first =>
               /\ n \in DOMAIN files2
               /\ \A r \in ToSet(files[n].records) : r \in ToSet(files2[n].records)
    PROVE  Backed(files2, lasting, first, last)
<1>1. ASSUME NEW n \in DOMAIN files2, n < first PROVE SeqsUpTo(files2[n].records, last)
    BY <1>1 DEF Backed, SeqsUpTo
<1>2. ASSUME NEW g \in lasting
      PROVE  \/ \A e \in g.entries : e.seq <= last
             \/ \E n \in DOMAIN files2 :
                    n >= first /\ \E r \in ToSet(files2[n].records) : ToSet(r) = g.entries
    <2>1. CASE \A e \in g.entries : e.seq <= last
        BY <2>1
    <2>2. CASE \E n \in DOMAIN files :
                   n >= first /\ \E r \in ToSet(files[n].records) : ToSet(r) = g.entries
        BY <2>2
    <2> QED BY <2>1, <2>2 DEF Backed
<1>3. first \in Nat /\ last \in Nat
    BY DEF Backed
<1> QED BY <1>1, <1>2, <1>3 DEF Backed

\* A new log.
LEMMA NewLogFacts ==
    ASSUME NEW files, FilesOK(files), NEW k \in Nat, k \notin DOMAIN files
    PROVE  LET files2 == Written(files, k, EmptyLog)
           IN  /\ FilesOK(files2)
               /\ DOMAIN files2 = DOMAIN files \cup {k}
               /\ files2[k].records = <<>> /\ ToSet(files2[k].records) = {}
               /\ \A n \in DOMAIN files : files2[n] = files[n]
               /\ \A es : Safe(files, es) => Safe(files2, es)
<1> DEFINE files2 == Written(files, k, EmptyLog)
<1>1. /\ DOMAIN files2 = DOMAIN files \cup {k} /\ files2[k] = EmptyLog
      /\ \A n \in DOMAIN files : files2[n] = files[n]
    BY DEF Written
<1>2. files2 = [n \in DOMAIN files2 |-> files2[n]]
    BY DEF Written
<1>3. EmptyLog.records = <<>> /\ EmptyLog.synced = 0 /\ ToSet(<<>>) = {} /\ Len(<<>>) = 0
    BY EmptySeq DEF EmptyLog, ToSet
<1>4. EmptyLog \in Log
    BY EmptySeq DEF EmptyLog, Log
<1> HIDE DEF files2
<1>5. FilesOK(files2)
    <2>1. files2 \in [DOMAIN files2 -> Log] /\ DOMAIN files2 \subseteq Nat
        <3>1. \A n \in DOMAIN files2 : files2[n] \in Log
            BY <1>1, <1>4 DEF FilesOK
        <3>2. DOMAIN files2 \subseteq Nat
            BY <1>1 DEF FilesOK
        <3> HIDE DEF Log
        <3> QED BY <1>2, <3>1, <3>2
    <2>2. \A n \in DOMAIN files2 : files2[n].synced <= Len(files2[n].records)
        BY <1>1, <1>3 DEF FilesOK
    <2>3. PICK b \in Nat : \A n \in DOMAIN files : n <= b /\ SeqsUpTo(files[n].records, b)
        BY DEF FilesOK
    <2>4. \E c \in Nat : b <= c /\ k <= c
        <3>1. b + k \in Nat /\ b <= b + k /\ k <= b + k
            OBVIOUS
        <3> QED BY <3>1
    <2>5. PICK c \in Nat : b <= c /\ k <= c
        BY <2>4
    <2>6. ASSUME NEW n \in DOMAIN files PROVE n <= c /\ SeqsUpTo(files[n].records, c)
        <3>1. n \in Nat /\ n <= b /\ SeqsUpTo(files[n].records, b)
            BY <2>3 DEF FilesOK
        <3>2. \A r \in ToSet(files[n].records) : \A e \in ToSet(r) : e.seq \in Nat
            BY LogFacts
        <3> QED BY <2>5, <3>1, <3>2 DEF SeqsUpTo
    <2>7. \A n \in DOMAIN files2 : n <= c /\ SeqsUpTo(files2[n].records, c)
        BY <1>1, <1>3, <2>5, <2>6 DEF SeqsUpTo
    <2> QED BY <2>1, <2>2, <2>7 DEF FilesOK
<1>6. ASSUME NEW es, Safe(files, es) PROVE Safe(files2, es)
    <2>1. \A i \in 1..Len(files2[k].records) : FALSE
        BY <1>1, <1>3
    <2> QED BY <1>1, <1>6, <2>1 DEF Safe
<1> QED BY <1>1, <1>3, <1>5, <1>6 DEF files2

\* The numbers of a record have a bound.
LEMMA NumbersBounded ==
    ASSUME NEW b \in Nat, NEW record \in Record
    PROVE  \E c \in Nat : b <= c /\ \A e \in ToSet(record) : e.seq <= c
<1> DEFINE T == {k \in Nat : k <= Len(record) =>
                     \E c \in Nat : b <= c /\ \A i \in 1..k : record[i].seq <= c}
<1>1. Len(record) \in Nat /\ \A i \in 1..Len(record) : record[i].seq \in Nat
    BY RecordFacts
<1>2. 0 \in T
    BY <1>1
<1>3. ASSUME NEW k \in T \cap Nat PROVE k + 1 \in T
    <2>0. k \in Nat /\ k + 1 \in Nat
        BY <1>3
    <2> SUFFICES ASSUME k + 1 <= Len(record)
                 PROVE  \E c \in Nat : b <= c /\ \A i \in 1..(k + 1) : record[i].seq <= c
        BY <2>0
    <2>1. PICK c \in Nat : b <= c /\ \A i \in 1..k : record[i].seq <= c
        BY <1>1, <2>0
    <2> HIDE DEF T
    <2>2. record[k + 1].seq \in Nat
        BY <1>1, <2>0
    <2>3. PICK d \in Nat : d = c + record[k + 1].seq
        BY <2>2
    <2>4. b <= d /\ c <= d /\ record[k + 1].seq <= d
        BY <2>1, <2>2, <2>3
    <2>5. ASSUME NEW i \in 1..(k + 1) PROVE record[i].seq <= d
        <3>1. CASE i = k + 1
            BY <2>4, <3>1
        <3>2. CASE i \in 1..k
            <4>1. record[i].seq \in Nat /\ record[i].seq <= c
                BY <1>1, <2>0, <2>1, <3>2
            <4> QED BY <2>4, <4>1
        <3> QED BY <2>0, <3>1, <3>2
    <2> QED BY <2>4, <2>5
<1> HIDE DEF T
<1>4. Len(record) \in T
    BY <1>1, <1>2, <1>3, NumbersFromZero
<1>5. PICK c \in Nat : b <= c /\ \A i \in 1..Len(record) : record[i].seq <= c
    BY <1>1, <1>4 DEF T
<1>6. DOMAIN record = 1..Len(record)
    BY RecordFacts
<1> QED BY <1>5, <1>6 DEF ToSet

\* A record at the end of a log.
Appended(files, file, record) ==
    [files EXCEPT ![file].records = Append(@, record)]

LEMMA AppendFacts ==
    ASSUME NEW files, FilesOK(files), NEW file \in DOMAIN files, NEW record \in Record
    PROVE  LET files2 == Appended(files, file, record)
           IN  /\ FilesOK(files2)
               /\ DOMAIN files2 = DOMAIN files
               /\ \A n \in DOMAIN files : n # file => files2[n] = files[n]
               /\ files2[file].synced = files[file].synced
               /\ \A r : r \in ToSet(files2[file].records)
                         <=> r \in ToSet(files[file].records) \/ r = record
               /\ \A es : Safe(files, es) /\ ToSet(record) # es => Safe(files2, es)
<1> DEFINE files2 == Appended(files, file, record)
           old == files[file].records
           new == files2[file].records
<1>1. old \in Seq(Record) /\ Len(old) \in Nat /\ files[file].synced \in Nat /\ files[file] \in Log
      /\ DOMAIN old = 1..Len(old) /\ files[file].synced <= Len(old)
    BY LogFacts
<1>2. /\ DOMAIN files2 = DOMAIN files
      /\ \A n \in DOMAIN files : n # file => files2[n] = files[n]
      /\ files2[file] = [files[file] EXCEPT !.records = Append(old, record)]
    BY DEF Appended, FilesOK
<1>3. new = Append(old, record) /\ files2[file].synced = files[file].synced
      /\ files2[file] = [records |-> Append(old, record), synced |-> files[file].synced]
    <2>1. files[file] \in [records : Seq(Record), synced : Nat]
        BY <1>1 DEF Log
    <2> HIDE DEF files2
    <2> QED BY <1>2, <2>1
<1>4. /\ new \in Seq(Record) /\ Len(new) = Len(old) + 1 /\ new[Len(old) + 1] = record
      /\ \A i \in 1..Len(old) : new[i] = old[i]
    <2> HIDE DEF new, old
    <2> QED BY <1>1, <1>3
<1>5. DOMAIN new = 1..(Len(old) + 1)
    <2> HIDE DEF new, old
    <2> QED BY <1>1, <1>4
<1>6. files2 = [n \in DOMAIN files2 |-> files2[n]]
    BY DEF Appended
<1>7. files2[file] \in Log
    BY <1>1, <1>3, <1>4 DEF Log
<1> HIDE DEF files2, new, old
<1>8. \A i : i \in 1..(Len(old) + 1) <=> i \in 1..Len(old) \/ i = Len(old) + 1
    BY <1>1
<1>9. \A r : r \in ToSet(new) <=> r \in ToSet(old) \/ r = record
    BY <1>1, <1>4, <1>5, <1>8 DEF ToSet
<1>10. FilesOK(files2)
    <2>1. files2 \in [DOMAIN files2 -> Log] /\ DOMAIN files2 \subseteq Nat
        <3>1. \A n \in DOMAIN files2 : files2[n] \in Log
            BY <1>2, <1>7 DEF FilesOK
        <3>2. DOMAIN files2 \subseteq Nat
            BY <1>2 DEF FilesOK
        <3> HIDE DEF Log
        <3> QED BY <1>6, <3>1, <3>2
    <2>2. \A n \in DOMAIN files2 : files2[n].synced <= Len(files2[n].records)
        <3>1. files2[file].synced <= Len(new)
            BY <1>1, <1>3, <1>4
        <3> QED BY <1>2, <3>1 DEF FilesOK, new
    <2>3. PICK b \in Nat : \A n \in DOMAIN files : n <= b /\ SeqsUpTo(files[n].records, b)
        BY DEF FilesOK
    <2>4. PICK c \in Nat : b <= c /\ \A e \in ToSet(record) : e.seq <= c
        BY NumbersBounded
    <2>5. ASSUME NEW n \in DOMAIN files PROVE n <= c /\ SeqsUpTo(files[n].records, c)
        <3>1. n \in Nat /\ n <= b /\ SeqsUpTo(files[n].records, b)
            BY <2>3 DEF FilesOK
        <3>2. \A r \in ToSet(files[n].records) : \A e \in ToSet(r) : e.seq \in Nat
            BY LogFacts
        <3> QED BY <2>4, <3>1, <3>2 DEF SeqsUpTo
    <2>6. SeqsUpTo(new, c)
        BY <1>9, <2>4, <2>5 DEF SeqsUpTo, old
    <2>7. \A n \in DOMAIN files2 : n <= c /\ SeqsUpTo(files2[n].records, c)
        BY <1>2, <2>5, <2>6 DEF new
    <2> QED BY <2>1, <2>2, <2>7 DEF FilesOK
<1>11. ASSUME NEW es, Safe(files, es), ToSet(record) # es PROVE Safe(files2, es)
    <2> SUFFICES ASSUME NEW n \in DOMAIN files, NEW i \in 1..Len(files2[n].records),
                        ToSet(files2[n].records[i]) = es
                 PROVE  i <= files2[n].synced /\ \A j \in 1..i : files2[n].records[j] # Torn
        BY <1>2 DEF Safe
    <2>1. CASE n # file
        BY <1>2, <1>11, <2>1 DEF Safe
    <2>2. CASE n = file
        <3>1. i \in 1..(Len(old) + 1) /\ ToSet(new[i]) = es
            BY <1>4, <2>2 DEF new
        <3>2. i # Len(old) + 1
            BY <1>4, <1>11, <3>1
        <3>3. i \in 1..Len(old) /\ new[i] = old[i]
            BY <1>4, <1>8, <3>1, <3>2
        <3>4. i <= files[file].synced /\ \A j \in 1..i : old[j] # Torn
            BY <1>11, <3>1, <3>3 DEF Safe, old
        <3>5. \A j \in 1..i : j \in 1..Len(old)
            BY <1>1, <3>3
        <3> QED BY <1>3, <1>4, <2>2, <3>4, <3>5 DEF new
    <2> QED BY <2>1, <2>2
<1> QED BY <1>2, <1>3, <1>9, <1>10, <1>11 DEF files2, new, old

\* A log is synced.
LEMMA SyncFacts ==
    ASSUME NEW files, FilesOK(files), NEW file \in DOMAIN files
    PROVE  LET files2 == [files EXCEPT ![file].synced = Len(files[file].records)]
           IN  /\ FilesOK(files2)
               /\ DOMAIN files2 = DOMAIN files
               /\ \A n \in DOMAIN files : files2[n].records = files[n].records
               /\ files2[file].synced = Len(files[file].records)
               /\ \A es : Safe(files, es) => Safe(files2, es)
<1> DEFINE files2 == [files EXCEPT ![file].synced = Len(files[file].records)]
<1>1. /\ DOMAIN files2 = DOMAIN files
      /\ \A n \in DOMAIN files : n # file => files2[n] = files[n]
      /\ files2[file] = [files[file] EXCEPT !.synced = Len(files[file].records)]
    BY DEF FilesOK
<1>2. files[file].records \in Seq(Record) /\ Len(files[file].records) \in Nat
      /\ files[file].synced \in Nat /\ files[file].synced <= Len(files[file].records)
      /\ files[file] \in Log
    BY LogFacts
<1>3. files2[file] = [records |-> files[file].records, synced |-> Len(files[file].records)]
      /\ files2[file].records = files[file].records
      /\ files2[file].synced = Len(files[file].records)
    <2>1. files[file] \in [records : Seq(Record), synced : Nat]
        BY <1>2 DEF Log
    <2> HIDE DEF files2
    <2> QED BY <1>1, <2>1
<1>4. files2 = [n \in DOMAIN files2 |-> files2[n]]
    OBVIOUS
<1> HIDE DEF files2
<1>5. \A n \in DOMAIN files : files2[n].records = files[n].records /\ files[n].synced <= files2[n].synced
                                /\ files[n].synced \in Nat /\ files2[n].synced \in Nat
    <2>1. ASSUME NEW n \in DOMAIN files, n # file
          PROVE  files2[n] = files[n] /\ files[n].synced <= files[n].synced /\ files[n].synced \in Nat
        <3>1. files[n].synced \in Nat
            BY LogFacts
        <3> QED BY <1>1, <2>1, <3>1
    <2> QED BY <1>2, <1>3, <2>1
<1>6. FilesOK(files2)
    <2>1. files2 \in [DOMAIN files2 -> Log] /\ DOMAIN files2 \subseteq Nat
        <3>1. files2[file] \in Log
            BY <1>2, <1>3 DEF Log
        <3>2. \A n \in DOMAIN files2 : files2[n] \in Log
            BY <1>1, <3>1 DEF FilesOK
        <3>3. DOMAIN files2 \subseteq Nat
            BY <1>1 DEF FilesOK
        <3> HIDE DEF Log
        <3> QED BY <1>4, <3>2, <3>3
    <2>2. \A n \in DOMAIN files2 : files2[n].synced <= Len(files2[n].records)
        <3>1. files2[file].synced <= Len(files2[file].records)
            BY <1>2, <1>3
        <3> QED BY <1>1, <3>1 DEF FilesOK
    <2> QED BY <1>1, <1>5, <2>1, <2>2 DEF FilesOK
<1>7. ASSUME NEW es, Safe(files, es) PROVE Safe(files2, es)
    <2> SUFFICES ASSUME NEW n \in DOMAIN files, NEW i \in 1..Len(files2[n].records),
                        ToSet(files2[n].records[i]) = es
                 PROVE  i <= files2[n].synced /\ \A j \in 1..i : files2[n].records[j] # Torn
        BY <1>1 DEF Safe
    <2>1. i \in 1..Len(files[n].records) /\ ToSet(files[n].records[i]) = es
        BY <1>5
    <2>2. i <= files[n].synced /\ \A j \in 1..i : files[n].records[j] # Torn
        BY <1>7, <2>1 DEF Safe
    <2>3. i \in Nat
        BY LogFacts, <2>1
    <2> QED BY <1>5, <2>2, <2>3
<1> QED BY <1>1, <1>3, <1>5, <1>6, <1>7 DEF files2

\* The logs before a number are removed.
LEMMA RestrictFacts ==
    ASSUME NEW files, FilesOK(files), NEW first
    PROVE  LET files2 == Restrict(files, {n \in DOMAIN files : n >= first})
           IN  /\ FilesOK(files2)
               /\ \A n : n \in DOMAIN files2 <=> n \in DOMAIN files /\ n >= first
               /\ \A n \in DOMAIN files2 : files2[n] = files[n]
               /\ \A es : Safe(files, es) => Safe(files2, es)
<1> DEFINE files2 == Restrict(files, {n \in DOMAIN files : n >= first})
<1>1. /\ \A n : n \in DOMAIN files2 <=> n \in DOMAIN files /\ n >= first
      /\ \A n \in DOMAIN files2 : files2[n] = files[n]
      /\ files2 = [n \in DOMAIN files2 |-> files2[n]]
    BY DEF Restrict
<1> HIDE DEF files2
<1>2. FilesOK(files2)
    <2>1. files2 \in [DOMAIN files2 -> Log] /\ DOMAIN files2 \subseteq Nat
        <3>1. \A n \in DOMAIN files2 : files2[n] \in Log /\ n \in Nat
            BY <1>1, LogFacts
        <3> HIDE DEF Log
        <3> QED BY <1>1, <3>1
    <2>2. \A n \in DOMAIN files2 : files2[n].synced <= Len(files2[n].records)
        BY <1>1, LogFacts
    <2> QED BY <1>1, <2>1, <2>2 DEF FilesOK
<1>3. ASSUME NEW es, Safe(files, es) PROVE Safe(files2, es)
    BY <1>1, <1>3 DEF Safe
<1> QED BY <1>1, <1>2, <1>3 DEF files2

\* A crash.
LEMMA CrashFacts ==
    ASSUME NEW files, FilesOK(files), NEW kept,
           \A n \in DOMAIN files : kept[n] \in Readable(files[n])
    PROVE  LET files2 == [n \in DOMAIN files |-> [records |-> kept[n], synced |-> Len(kept[n])]]
           IN  /\ FilesOK(files2)
               /\ \A es : Safe(files2, es)
               /\ \A n \in DOMAIN files : \A r \in ToSet(files[n].records) :
                      Safe(files, ToSet(r)) => r \in ToSet(kept[n])
               /\ \A lasting, first, last :
                      /\ Backed(files, lasting, first, last)
                      /\ \A g \in lasting : Safe(files, g.entries)
                      => Backed(files2, lasting, first, last)
<1> DEFINE files2 == [n \in DOMAIN files |-> [records |-> kept[n], synced |-> Len(kept[n])]]
<1>1. ASSUME NEW n \in DOMAIN files
      PROVE  /\ kept[n] \in Seq(Record)
             /\ \A r \in ToSet(kept[n]) : r \in ToSet(files[n].records) /\ r # Torn
             /\ \A i \in 1..files[n].synced :
                   (\A j \in 1..i : files[n].records[j] # Torn) => files[n].records[i] \in ToSet(kept[n])
    BY LogFacts, ReadableFacts
<1>2. DOMAIN files2 = DOMAIN files
      /\ \A n \in DOMAIN files : files2[n].records = kept[n] /\ files2[n].synced = Len(kept[n])
    OBVIOUS
<1>3. \A n \in DOMAIN files : Len(kept[n]) \in Nat /\ DOMAIN kept[n] = 1..Len(kept[n])
    BY <1>1
<1>4. \A n \in DOMAIN files : files2[n] \in Log
    BY <1>1, <1>3 DEF Log
<1>5. files2 = [n \in DOMAIN files2 |-> files2[n]]
    OBVIOUS
<1> HIDE DEF files2
<1>6. FilesOK(files2)
    <2>1. files2 \in [DOMAIN files2 -> Log] /\ DOMAIN files2 \subseteq Nat
        <3>1. DOMAIN files2 \subseteq Nat
            BY <1>2 DEF FilesOK
        <3> HIDE DEF Log
        <3> QED BY <1>2, <1>4, <1>5, <3>1
    <2>2. \A n \in DOMAIN files2 : files2[n].synced <= Len(files2[n].records)
        BY <1>2, <1>3
    <2>3. PICK b \in Nat : \A n \in DOMAIN files : n <= b /\ SeqsUpTo(files[n].records, b)
        BY DEF FilesOK
    <2>4. \A n \in DOMAIN files2 : n <= b /\ SeqsUpTo(files2[n].records, b)
        BY <1>1, <1>2, <2>3 DEF SeqsUpTo
    <2> QED BY <2>1, <2>2, <2>4 DEF FilesOK
<1>7. ASSUME NEW es PROVE Safe(files2, es)
    <2> SUFFICES ASSUME NEW n \in DOMAIN files, NEW i \in 1..Len(kept[n])
                 PROVE  i <= Len(kept[n]) /\ \A j \in 1..i : kept[n][j] # Torn
        BY <1>2 DEF Safe
    <2>1. i <= Len(kept[n]) /\ \A j \in 1..i : j \in 1..Len(kept[n])
        BY <1>3
    <2> QED BY <1>1, <1>3, <2>1 DEF ToSet
<1>8. ASSUME NEW n \in DOMAIN files, NEW r \in ToSet(files[n].records), Safe(files, ToSet(r))
      PROVE  r \in ToSet(kept[n])
    <2>1. PICK i \in 1..Len(files[n].records) : r = files[n].records[i]
        BY LogFacts DEF ToSet
    <2>2. i <= files[n].synced /\ \A j \in 1..i : files[n].records[j] # Torn
        BY <1>8, <2>1 DEF Safe
    <2>3. i \in 1..files[n].synced
        BY <2>2, LogFacts
    <2> QED BY <1>1, <2>1, <2>2, <2>3
<1>9. ASSUME NEW lasting, NEW first, NEW last, Backed(files, lasting, first, last),
             \A g \in lasting : Safe(files, g.entries)
      PROVE  Backed(files2, lasting, first, last)
    <2>1. ASSUME NEW n \in DOMAIN files2, n < first PROVE SeqsUpTo(files2[n].records, last)
        <3>1. SeqsUpTo(files[n].records, last)
            BY <1>2, <1>9, <2>1 DEF Backed
        <3> QED BY <1>1, <1>2, <3>1 DEF SeqsUpTo
    <2>2. ASSUME NEW g \in lasting
          PROVE  \/ \A e \in g.entries : e.seq <= last
                 \/ \E n \in DOMAIN files2 :
                        n >= first /\ \E r \in ToSet(files2[n].records) : ToSet(r) = g.entries
        <3>1. CASE \A e \in g.entries : e.seq <= last
            BY <3>1
        <3>2. CASE \E n \in DOMAIN files :
                       n >= first /\ \E r \in ToSet(files[n].records) : ToSet(r) = g.entries
            <4>1. PICK n \in DOMAIN files : n >= first
                      /\ \E r \in ToSet(files[n].records) : ToSet(r) = g.entries
                BY <3>2
            <4>2. PICK r \in ToSet(files[n].records) : ToSet(r) = g.entries
                BY <4>1
            <4>3. r \in ToSet(kept[n])
                BY <1>8, <1>9, <4>2
            <4> QED BY <1>2, <4>1, <4>2, <4>3
        <3> QED BY <1>9, <3>1, <3>2 DEF Backed
    <2> QED BY <1>9, <2>1, <2>2 DEF Backed
<1> QED BY <1>6, <1>7, <1>8, <1>9 DEF files2

-----------------------------------------------------------------------------
\* The queue: a group takes its first writers, in their order.
LEMMA GroupLengthFacts ==
    ASSUME writers \in Seq(Thread), writers # <<>>
    PROVE  GroupLength \in 1..Len(writers)
<1> DEFINE first == request[writers[1]]
           Entries(n) == FoldLeft(LAMBDA sum, t : sum + Len(request[t].batch), 0,
                                  SubSeq(writers, 1, n))
           Joins(i) == /\ request[writers[i]].sync => first.sync
                       /\ request[writers[i]].batch # <<>> => Entries(i) <= GroupLimit
           S == {n \in 1..Len(writers) : \A i \in 2..n : Joins(i)}
<1>1. GroupLength = Max(S)
    BY DEF GroupLength
<1> HIDE DEF Joins
<1>2. Len(writers) \in Nat /\ 1 <= Len(writers)
    BY EmptySeq
<1>3. 1 \in S
    BY <1>2
<1>4. S \in SUBSET 0..Len(writers) /\ S \subseteq 1..Len(writers)
    BY <1>2
<1> HIDE DEF S
<1>5. \E n \in S : \A k \in S : k <= n
    BY <1>2, <1>3, <1>4, GreatestNumber
<1>6. \A n, k \in S : k <= n <=> n >= k
    BY <1>2, <1>4
<1>7. \E n \in S : \A k \in S : n >= k
    BY <1>5, <1>6
<1>8. Max(S) \in S
    BY <1>7 DEF Max
<1> QED BY <1>1, <1>4, <1>8

LEMMA BatchGroupFacts ==
    ASSUME QueueOK, lastSequence \in Nat, NEW n \in 1..Len(writers), request[writers[1]].batch # <<>>
    PROVE  LET g == BatchGroup(n)
           IN  /\ g \in Group /\ g.step = "log" /\ g.entries # <<>>
               /\ g.left = Len(g.entries) /\ Len(g.members) <= Len(writers)
               /\ \A i \in 1..Len(g.members) : g.members[i] = writers[i]
               /\ \A i \in 1..Len(g.entries) : g.entries[i].seq = lastSequence + i
<1> DEFINE ss == [i \in 1..n |-> request[writers[i]].batch]
           ops == FlattenSeq(ss)
           entries == [i \in DOMAIN ops |-> [key |-> ops[i].key, type |-> ops[i].type,
                                             seq |-> lastSequence + i]]
           members == SubSeq(writers, 1, n)
<1>1. writers \in Seq(Thread) /\ Len(writers) \in Nat /\ n \in Nat /\ 1 <= n /\ n <= Len(writers)
    BY DEF QueueOK
<1>2. members \in Seq(Thread) /\ Len(members) = n /\ \A i \in 1..n : members[i] = writers[i]
    BY <1>1
<1>3. \A i \in 1..n : writers[i] \in Thread /\ request[writers[i]] \in Request
    <2>1. \A i \in 1..n : i \in 1..Len(writers)
        BY <1>1
    <2>2. \A i \in 1..Len(writers) : writers[i] \in Thread /\ request[writers[i]] # None
        BY DEF QueueOK
    <2>3. \A t \in Thread : request[t] \in Request \cup {None}
        BY DEF QueueOK
    <2> QED BY <2>1, <2>2, <2>3
<1>4. \A i \in 1..n : ss[i] \in Seq(Operation)
    BY <1>3 DEF Request
<1>5. ss \in Seq(Seq(Operation)) /\ Len(ss) = n
    <2> DEFINE S == Seq(Operation)
    <2>1. \A i \in 1..n : ss[i] \in S
        BY <1>4
    <2>2. ss = [i \in 1..n |-> ss[i]] /\ DOMAIN ss = 1..n
        OBVIOUS
    <2> HIDE DEF S, ss
    <2>3. ss \in Seq(S)
        BY <1>1, <2>1, <2>2
    <2> QED BY <1>1, <2>2, <2>3 DEF S
<1>6. 1 \in 1..n /\ ss[1] # <<>>
    BY <1>1
<1>7. BatchGroup(n) = [members |-> members, sync |-> request[writers[1]].sync,
                       entries |-> entries, left |-> Len(ops), step |-> "log"]
    BY DEF BatchGroup
<1>8. ops \in Seq(Operation) /\ Len(ss[1]) <= Len(ops)
    <2> HIDE DEF ss
    <2> QED BY <1>5, <1>6, FlattenSeqFacts
<1>9. Len(ss[1]) \in Nat /\ Len(ss[1]) # 0
    <2> HIDE DEF ss
    <2> QED BY <1>4, <1>6, EmptySeq
<1> HIDE DEF ss, ops
<1>10. Len(ops) \in Nat /\ Len(ops) # 0 /\ DOMAIN ops = 1..Len(ops)
    BY <1>8, <1>9
<1>11. \A i \in 1..Len(ops) : ops[i] \in Operation
    BY <1>8
<1>12. \A i \in 1..Len(ops) : entries[i] \in Entry /\ entries[i].seq = lastSequence + i
    BY <1>10, <1>11 DEF Entry, Operation
<1>13. entries \in Seq(Entry) /\ Len(entries) = Len(ops)
    <2>1. entries = [i \in 1..Len(ops) |-> entries[i]] /\ DOMAIN entries = 1..Len(ops)
        BY <1>10
    <2> HIDE DEF entries
    <2> QED BY <1>10, <1>12, <2>1
<1>14. entries # <<>>
    <2> HIDE DEF entries
    <2> QED BY <1>10, <1>13, EmptySeq
<1>15. request[writers[1]].sync \in BOOLEAN
    BY <1>3, <1>6 DEF Request
<1> HIDE DEF entries, members
<1>16. BatchGroup(n) \in Group
    BY <1>2, <1>7, <1>10, <1>13, <1>15 DEF Group
<1>17. BatchGroup(n).members = members /\ BatchGroup(n).entries = entries
       /\ BatchGroup(n).step = "log" /\ BatchGroup(n).left = Len(ops)
    BY <1>7
<1> QED BY <1>1, <1>2, <1>12, <1>13, <1>14, <1>16, <1>17

LEMMA ReturnFacts ==
    ASSUME QueueOK, NEW members \in Seq(Thread), Len(members) <= Len(writers),
           \A i \in 1..Len(members) : members[i] = writers[i], Return(members)
    PROVE  QueueOK'
<1>1. PICK k \in Nat : k = Len(members) /\ k <= Len(writers)
    OBVIOUS
<1>2. writers \in Seq(Thread) /\ Len(writers) \in Nat
    BY DEF QueueOK
<1>3. PICK n \in Nat : n = Len(writers) - k
    BY <1>1, <1>2
<1>4. writers' = SubSeq(writers, k + 1, Len(writers))
    BY <1>1 DEF Return
<1>5. writers' \in Seq(Thread) /\ Len(writers') = n /\ \A i \in 1..n : writers'[i] = writers[k + i]
    <2>1. k + 1 \in 1..(Len(writers) + 1)
        BY <1>1, <1>2
    <2>2. /\ SubSeq(writers, k + 1, Len(writers)) \in Seq(Thread)
          /\ Len(SubSeq(writers, k + 1, Len(writers))) = n
        BY <1>1, <1>2, <1>3, <2>1
    <2>3. ASSUME NEW i \in 1..n PROVE SubSeq(writers, k + 1, Len(writers))[i] = writers[k + i]
        <3>1. SubSeq(writers, k + 1, Len(writers))[i] = writers[(k + 1) + i - 1]
            BY <1>1, <1>2, <1>3, <2>1
        <3>2. (k + 1) + i - 1 = k + i
            OBVIOUS
        <3> QED BY <3>1, <3>2
    <2> QED BY <1>4, <2>2, <2>3
<1>6. \A i \in 1..n : k + i \in 1..Len(writers) /\ k < k + i
    BY <1>1, <1>2, <1>3
<1>7. request' = [t \in Thread |-> IF t \in ToSet(members) THEN None ELSE request[t]]
    BY DEF Return
<1>8. request' \in [Thread -> Request \cup {None}]
    BY <1>7 DEF QueueOK
<1>9. DOMAIN members = 1..k /\ \A j \in 1..k : j \in 1..Len(writers) /\ members[j] = writers[j]
    BY <1>1, <1>2
<1>10. \A i \in 1..Len(writers) : writers[i] \in Thread /\ request[writers[i]] # None
    BY DEF QueueOK
<1>11. ASSUME NEW i \in 1..n PROVE request'[writers'[i]] # None
    <2>1. writers[k + i] \notin ToSet(members)
        <3> SUFFICES ASSUME NEW j \in 1..k, writers[k + i] = members[j] PROVE FALSE
            BY <1>9 DEF ToSet
        <3>1. k + i = j
            BY <1>6, <1>9 DEF QueueOK
        <3> QED BY <3>1, <1>6
    <2> QED BY <1>5, <1>6, <1>7, <1>10, <2>1
<1>12. ASSUME NEW i \in 1..n, NEW j \in 1..n, writers'[i] = writers'[j] PROVE i = j
    <2>1. writers[k + i] = writers[k + j] /\ k + i \in 1..Len(writers) /\ k + j \in 1..Len(writers)
        BY <1>5, <1>6, <1>12
    <2>2. k + i = k + j
        BY <2>1 DEF QueueOK
    <2> QED BY <2>2
<1> QED BY <1>5, <1>8, <1>11, <1>12 DEF QueueOK

-----------------------------------------------------------------------------
\* Steps that leave the logs alone.
LEMMA FrameStep ==
    ASSUME DurableInv,
           UNCHANGED <<logs, manifest, edit, running, request, writers, group, logfile,
                       lastSequence, logNumber, hist, synced>>,
           nextFile' = nextFile \/ nextFile' = nextFile + 1,
           running = "open" \/ UNCHANGED <<flush, compaction, scheduled, readers>>
    PROVE  DurableInv'
<1>1. FilesOK(logs)'
    BY DEF DurableInv, FilesOK
<1>2. QueueOK'
    BY DEF DurableInv, QueueOK
<1>3. IdleOK'
    BY DEF DurableInv, IdleOK
<1>4. GroupOK'
    BY DEF DurableInv, GroupOK
<1>5. NumbersOK'
    BY DEF DurableInv, NumbersOK, Running
<1>6. CountsOK'
    BY DEF DurableInv, CountsOK, Running, Pending, Counted, Lasting
<1>7. ManifestOK'
    BY DEF DurableInv, ManifestOK, RecordOK, Backed, Lasting
<1>8. SyncedOK'
    BY DEF DurableInv, SyncedOK, Safe, Lasting
<1> QED BY <1>1, <1>2, <1>3, <1>4, <1>5, <1>6, <1>7, <1>8 DEF DurableInv

\* What a new edit counts on from now loses nothing.
LEMMA NowBacked ==
    ASSUME NumbersOK, CountsOK, Running, NEW first \in Nat, first <= logfile
    PROVE  Backed(logs, Lasting(synced), first, lastSequence)
<1>1. \A n \in DOMAIN logs : n < first => n # logfile
    BY DEF NumbersOK
<1>2. ASSUME NEW n \in DOMAIN logs, n < first PROVE SeqsUpTo(logs[n].records, lastSequence)
    BY <1>1, <1>2 DEF CountsOK, Counted, SeqsUpTo
<1>3. lastSequence \in Nat
    BY DEF NumbersOK
<1>4. \A g \in Lasting(synced) : \A e \in g.entries : e.seq <= lastSequence
    BY DEF CountsOK
<1> QED BY <1>2, <1>3, <1>4 DEF Backed

LEMMA EditStep ==
    ASSUME DurableInv, running = "open",
           UNCHANGED <<logs, manifest, running, request, writers, group, logfile,
                       lastSequence, nextFile, logNumber, hist, synced>>,
           edit'.nextFile = nextFile, edit'.lastSequence = lastSequence,
           edit'.logNumber \in {logNumber, logfile}
    PROVE  DurableInv'
<1> USE DEF DurableInv
<1>0. NumbersOK /\ CountsOK /\ Running
    BY DEF Running
<1>1. FilesOK(logs)'
    BY DEF FilesOK
<1>2. QueueOK'
    BY DEF QueueOK
<1>3. IdleOK'
    BY DEF IdleOK
<1>4. GroupOK'
    BY DEF GroupOK
<1>5. NumbersOK'
    BY DEF NumbersOK, Running
<1>6. CountsOK'
    BY DEF CountsOK, Running, Pending, Counted, Lasting
<1>7. ManifestOK'
    <2>1. PICK first \in Nat : first = edit'.logNumber /\ first <= logfile
        BY <1>0 DEF NumbersOK
    <2>2. Backed(logs, Lasting(synced), first, lastSequence)
        BY <1>0, <2>1, NowBacked
    <2>3. RecordOK(edit, logs, Lasting(synced))'
        <3>1. nextFile \in Nat /\ first < nextFile
            BY <1>0, <2>1 DEF NumbersOK
        <3> QED BY <2>1, <2>2, <3>1 DEF RecordOK, Backed, Lasting
    <2>4. \A m \in manifest' : RecordOK(m, logs, Lasting(synced))'
        BY DEF ManifestOK, RecordOK, Backed, Lasting
    <2> QED BY <2>3, <2>4 DEF ManifestOK
<1>8. SyncedOK'
    BY DEF SyncedOK, Safe, Lasting
<1> QED BY <1>1, <1>2, <1>3, <1>4, <1>5, <1>6, <1>7, <1>8

\* A record is written: the logs it does not name may go.
LEMMA RecordStep ==
    ASSUME DurableInv, (edit # None /\ running = "open") \/ running = "opening", running' = "open",
           UNCHANGED <<request, writers, group, logfile, lastSequence, nextFile, hist, synced>>,
           \A m \in manifest' : /\ m.logNumber = edit.logNumber /\ m.nextFile = edit.nextFile
                                /\ m.lastSequence = edit.lastSequence,
           logNumber' = edit.logNumber, edit' = None,
           logs' = logs \/ logs' = Restrict(logs, {n \in DOMAIN logs : n >= edit.logNumber})
    PROVE  DurableInv'
<1> USE DEF DurableInv
<1>1. /\ NumbersOK /\ CountsOK /\ Running
      /\ RecordOK(edit, logs, Lasting(synced)) /\ edit.logNumber <= logfile
    BY DEF Running, ManifestOK, NumbersOK
<1>2. PICK first : first = edit.logNumber
    OBVIOUS
<1>3. first \in Nat /\ first <= logfile /\ logfile \in Nat /\ logfile \in DOMAIN logs
    BY <1>1, <1>2 DEF RecordOK, Backed, NumbersOK
<1>4. /\ FilesOK(logs')
      /\ \A n \in DOMAIN logs' : n \in DOMAIN logs /\ logs'[n] = logs[n]
      /\ \A n \in DOMAIN logs : n >= first => n \in DOMAIN logs'
      /\ \A es : Safe(logs, es) => Safe(logs', es)
    <2>1. CASE logs' = logs
        BY <2>1
    <2>2. CASE logs' = Restrict(logs, {n \in DOMAIN logs : n >= first})
        <3>1. PICK files2 : files2 = Restrict(logs, {n \in DOMAIN logs : n >= first})
            OBVIOUS
        <3>2. /\ FilesOK(files2)
              /\ \A n : n \in DOMAIN files2 <=> n \in DOMAIN logs /\ n >= first
              /\ \A n \in DOMAIN files2 : files2[n] = logs[n]
              /\ \A es : Safe(logs, es) => Safe(files2, es)
            BY SMTT(30), <3>1, RestrictFacts
        <3>3. logs' = files2
            BY <2>2, <3>1, Zenon
        <3> QED BY <3>2, <3>3
    <2> QED BY <1>2, <2>1, <2>2
<1>5. logfile \in DOMAIN logs' /\ logs'[logfile] = logs[logfile]
    BY <1>3, <1>4
<1>6. Backed(logs', Lasting(synced), first, edit.lastSequence)
    <2>1. Backed(logs, Lasting(synced), first, edit.lastSequence)
        BY <1>1, <1>2 DEF RecordOK
    <2> QED BY <1>4, <2>1, BackedTransfer
<1>7. QueueOK'
    BY DEF QueueOK
<1>8. IdleOK'
    BY DEF IdleOK
<1>9. GroupOK'
    BY <1>5 DEF GroupOK
<1>10. NumbersOK'
    BY <1>1, <1>2, <1>3, <1>4, <1>5 DEF NumbersOK, Running
<1>11. CountsOK'
    BY <1>1, <1>4 DEF CountsOK, Pending, Counted, Lasting
<1>12. ManifestOK'
    <2>1. edit.nextFile \in Nat /\ edit.logNumber < edit.nextFile
        BY <1>1 DEF RecordOK
    <2>2. \A m \in manifest' : RecordOK(m, logs', Lasting(synced'))
        BY <1>2, <1>6, <2>1 DEF RecordOK
    <2> QED BY <2>2 DEF ManifestOK
<1>13. SyncedOK'
    <2>1. Lasting(synced)' = Lasting(synced)
        BY DEF Lasting
    <2>2. \A g \in Lasting(synced) : Safe(logs', g.entries)
        BY <1>4 DEF SyncedOK
    <2> QED BY <2>1, <2>2 DEF SyncedOK
<1> QED BY <1>4, <1>7, <1>8, <1>9, <1>10, <1>11, <1>12, <1>13

\* A record fails, and may be there.
LEMMA RecordFailsStep ==
    ASSUME DurableInv, running = "open", edit # None,
           UNCHANGED <<logs, running, request, writers, group, logfile, lastSequence, nextFile,
                       logNumber, hist, synced>>,
           manifest' = Outcomes, edit' = None
    PROVE  DurableInv'
<1> USE DEF DurableInv
<1>1. NumbersOK /\ Running /\ RecordOK(edit, logs, Lasting(synced)) /\ edit.logNumber <= logfile
    BY DEF Running, ManifestOK, NumbersOK
<1>2. ASSUME NEW m \in manifest'
      PROVE  m \in manifest \/ (/\ m.logNumber = edit.logNumber /\ m.nextFile = edit.nextFile
                               /\ m.lastSequence = edit.lastSequence)
    BY DEF Outcomes, Apply
<1>3. FilesOK(logs)'
    BY DEF FilesOK
<1>4. QueueOK'
    BY DEF QueueOK
<1>5. IdleOK'
    BY DEF IdleOK
<1>6. GroupOK'
    BY DEF GroupOK
<1>7. NumbersOK'
    BY <1>1, <1>2 DEF NumbersOK, Running
<1>8. CountsOK'
    BY DEF CountsOK, Running, Pending, Counted, Lasting
<1>9. ManifestOK'
    <2>1. \A m \in manifest' : RecordOK(m, logs, Lasting(synced))
        BY <1>1, <1>2 DEF ManifestOK, RecordOK
    <2>2. \A m \in manifest' : RecordOK(m, logs', Lasting(synced'))
        BY <2>1
    <2> QED BY <2>2 DEF ManifestOK
<1>10. SyncedOK'
    BY DEF SyncedOK, Safe, Lasting
<1> QED BY <1>3, <1>4, <1>5, <1>6, <1>7, <1>8, <1>9, <1>10

-----------------------------------------------------------------------------
\* Steps of writers.
LEMMA WriteStep ==
    ASSUME DurableInv, NEW t \in Thread, NEW batch \in Seq(Operation), NEW sync \in BOOLEAN,
           Write(t, batch, sync)
    PROVE  DurableInv'
<1> USE DEF DurableInv
<1>1. /\ running = "open" /\ request[t] = None
      /\ request' = [request EXCEPT ![t] = [batch |-> batch, sync |-> sync]]
      /\ writers' = Append(writers, t)
      /\ logs' = logs /\ manifest' = manifest /\ edit' = edit /\ running' = running
      /\ group' = group /\ logfile' = logfile /\ lastSequence' = lastSequence
      /\ nextFile' = nextFile /\ logNumber' = logNumber /\ hist' = hist /\ synced' = synced
    BY DEF Write, disk, memory, versions
<1>2. PICK r : r = [batch |-> batch, sync |-> sync]
    OBVIOUS
<1>3. r \in Request /\ r # None
    BY <1>2, NoneIsNothing DEF Request
<1>4. request' \in [Thread -> Request \cup {None}] /\ request'[t] = r
      /\ \A u \in Thread : u # t => request'[u] = request[u]
    BY <1>1, <1>2, <1>3 DEF QueueOK
<1>5. PICK n \in Nat : n = Len(writers)
    BY DEF QueueOK
<1>6. writers' \in Seq(Thread) /\ Len(writers') = n + 1 /\ writers'[n + 1] = t
      /\ \A i \in 1..n : writers'[i] = writers[i]
    BY <1>1, <1>5 DEF QueueOK
<1>7. \A i : i \in 1..(n + 1) <=> i \in 1..n \/ i = n + 1
    OBVIOUS
<1>8. \A i \in 1..n : writers[i] \in Thread /\ request[writers[i]] # None /\ writers[i] # t
    BY <1>1, <1>5 DEF QueueOK
<1>9. QueueOK'
    <2>1. \A i \in 1..(n + 1) : request'[writers'[i]] # None
        BY <1>3, <1>4, <1>6, <1>7, <1>8
    <2>2. ASSUME NEW i \in 1..(n + 1), NEW j \in 1..(n + 1), writers'[i] = writers'[j] PROVE i = j
        <3>1. CASE i \in 1..n /\ j \in 1..n
            BY <1>5, <1>6, <2>2, <3>1 DEF QueueOK
        <3>2. CASE i = n + 1 \/ j = n + 1
            BY <1>6, <1>7, <1>8, <2>2, <3>2
        <3> QED BY <1>7, <3>1, <3>2
    <2> QED BY <1>4, <1>6, <2>1, <2>2 DEF QueueOK
<1>10. IdleOK'
    BY <1>1 DEF IdleOK
<1>11. GroupOK'
    <2> SUFFICES ASSUME group # None PROVE GroupOK'
        BY <1>1 DEF GroupOK
    <2>1. PICK k \in Nat : k = Len(group.members) /\ k <= n
          /\ \A i \in 1..k : group.members[i] = writers[i]
        <3>1. group.members \in Seq(Thread)
            BY DEF GroupOK, Group
        <3>2. Len(group.members) \in Nat
            BY <3>1
        <3> QED BY <1>5, <3>2 DEF GroupOK
    <2>2. \A i \in 1..k : i \in 1..n
        BY <2>1
    <2>3. k <= n + 1 /\ \A i \in 1..k : group.members[i] = writers'[i]
        BY <1>6, <2>1, <2>2
    <2> QED BY <1>1, <1>6, <2>1, <2>3 DEF GroupOK
<1>12. NumbersOK'
    BY <1>1 DEF NumbersOK, Running
<1>13. CountsOK'
    BY <1>1 DEF CountsOK, Running, Pending
<1>14. ManifestOK'
    BY <1>1 DEF ManifestOK
<1>15. SyncedOK'
    BY <1>1 DEF SyncedOK
<1> QED BY <1>1, <1>9, <1>10, <1>11, <1>12, <1>13, <1>14, <1>15

\* A leader leaves the queue, or begins a group, perhaps with a new log.
LEMMA LeadStep ==
    ASSUME DurableInv, running = "open", group = None,
           UNCHANGED <<manifest, edit, running, lastSequence, logNumber, hist, synced>>,
           QueueOK', GroupOK', group' # None => group'.step = "log",
           \/ UNCHANGED <<logs, logfile, nextFile>>
           \/ /\ logs' = Written(logs, nextFile, EmptyLog) /\ logfile' = nextFile
              /\ nextFile' = nextFile + 1
    PROVE  DurableInv'
<1> USE DEF DurableInv
<1>1. NumbersOK /\ CountsOK /\ Running
    BY DEF Running
<1>2. IdleOK'
    BY DEF IdleOK
<1>3. Pending = {} /\ Pending' = {}
    BY DEF Pending
<1>4. /\ nextFile \in Nat /\ lastSequence \in Nat /\ logNumber \in Nat /\ logfile \in Nat
      /\ logfile < nextFile /\ logNumber <= logfile
      /\ logfile \in DOMAIN logs /\ \A n \in DOMAIN logs : n <= logfile /\ n \in Nat
      /\ \A m \in manifest : m.logNumber <= logfile
      /\ edit # None => edit.logNumber <= logfile
    BY <1>1 DEF NumbersOK, FilesOK
<1>5. CASE UNCHANGED <<logs, logfile, nextFile>>
    <2>1. NumbersOK'
        BY <1>5 DEF NumbersOK, Running
    <2>2. CountsOK'
        BY <1>3, <1>5 DEF CountsOK, Running
    <2>3. ManifestOK' /\ SyncedOK' /\ FilesOK(logs)'
        BY <1>5 DEF ManifestOK, SyncedOK
    <2> QED BY <1>2, <2>1, <2>2, <2>3
<1>6. CASE /\ logs' = Written(logs, nextFile, EmptyLog) /\ logfile' = nextFile
           /\ nextFile' = nextFile + 1
    <2>1. nextFile \notin DOMAIN logs
        BY <1>4
    <2>2. /\ FilesOK(logs')
          /\ DOMAIN logs' = DOMAIN logs \cup {nextFile}
          /\ ToSet(logs'[nextFile].records) = {}
          /\ \A n \in DOMAIN logs : logs'[n] = logs[n]
          /\ \A es : Safe(logs, es) => Safe(logs', es)
        BY <1>4, <1>6, <2>1, NewLogFacts
    <2>3. NumbersOK'
        <3>1. logfile' \in Nat /\ nextFile' \in Nat /\ logfile' < nextFile' /\ logfile <= logfile'
            BY <1>4, <1>6
        <3>2. logNumber <= logfile' /\ \A n \in DOMAIN logs' : n <= logfile'
            BY <1>4, <1>6, <2>2
        <3>3. ASSUME NEW m, RecordOK(m, logs, Lasting(synced)), m.logNumber <= logfile
              PROVE  m.logNumber <= logfile'
            <4>1. m.logNumber \in Nat
                BY <3>3 DEF RecordOK, Backed
            <4> QED BY <1>4, <3>1, <3>3, <4>1
        <3>4. \A m \in manifest : m.logNumber <= logfile'
            BY <1>4, <3>3 DEF ManifestOK
        <3>5. edit # None => edit.logNumber <= logfile'
            BY <1>4, <3>3 DEF ManifestOK
        <3> QED BY <1>4, <1>6, <2>2, <3>1, <3>2, <3>4, <3>5 DEF NumbersOK, Running
    <2>4. CountsOK'
        <3>1. Counted(logs', logfile', Pending', lastSequence)
            BY <1>1, <1>3, <2>2 DEF CountsOK, Counted
        <3> QED BY <1>1, <3>1 DEF CountsOK
    <2>5. ASSUME NEW m, RecordOK(m, logs, Lasting(synced)) PROVE RecordOK(m, logs', Lasting(synced))
        <3>1. PICK first, last : first = m.logNumber /\ last = m.lastSequence
            OBVIOUS
        <3>2. Backed(logs, Lasting(synced), first, last)
            BY <2>5, <3>1 DEF RecordOK
        <3>3. Backed(logs', Lasting(synced), first, last)
            BY <2>2, <3>2, BackedTransfer
        <3> QED BY <2>5, <3>1, <3>3 DEF RecordOK
    <2>6. ManifestOK'
        BY <2>5 DEF ManifestOK
    <2>7. SyncedOK'
        BY <2>2 DEF SyncedOK
    <2> QED BY <1>2, <2>2, <2>3, <2>4, <2>6, <2>7
<1> QED BY <1>5, <1>6

\* The numbers of a group are the next ones.
LEMMA GroupFacts ==
    ASSUME DurableInv, group # None
    PROVE  /\ running = "open" /\ group \in Group /\ group.entries \in Record /\ group.entries # Torn
           /\ lastSequence \in Nat /\ Len(group.entries) \in Nat
           /\ \A e \in ToSet(group.entries) : e.seq <= lastSequence + Len(group.entries)
           /\ \E e \in ToSet(group.entries) : ~(e.seq <= lastSequence)
           /\ \A g \in Lasting(synced) : g.entries # ToSet(group.entries) /\ g.entries # {}
<1> USE DEF DurableInv
<1>1. running = "open" /\ Running /\ group \in Group /\ group.entries # <<>>
    BY DEF IdleOK, GroupOK, Running
<1>2. lastSequence \in Nat
    BY <1>1 DEF NumbersOK
<1>3. PICK es \in Record : es = group.entries
    BY <1>1 DEF Group, Record
<1>4. Len(es) \in Nat /\ DOMAIN es = 1..Len(es)
    BY <1>3, RecordFacts
<1>5. Len(es) # 0
    <2>1. es \in Seq(Entry) /\ es # <<>>
        BY <1>1, <1>3 DEF Record
    <2> QED BY <2>1, EmptySeq
<1>6. \A i \in 1..Len(es) : es[i].seq = lastSequence + i
    BY <1>3 DEF GroupOK
<1>7. \A e \in ToSet(es) : e.seq <= lastSequence + Len(es)
    BY <1>2, <1>4, <1>6 DEF ToSet
<1>8. es[1] \in ToSet(es) /\ ~(es[1].seq <= lastSequence)
    <2>1. 1 \in 1..Len(es)
        BY <1>4, <1>5
    <2> QED BY <1>2, <1>4, <1>6, <2>1 DEF ToSet
<1>9. \A g \in Lasting(synced) : \A e \in g.entries : e.seq <= lastSequence
    BY <1>1 DEF CountsOK
<1>10. \A g \in Lasting(synced) : g.entries # {}
    BY DEF SyncedOK
<1> QED BY <1>1, <1>2, <1>3, <1>4, <1>7, <1>8, <1>9, <1>10 DEF Torn

\* What is added to the newest log harms nobody.
LEMMA AppendStep ==
    ASSUME DurableInv, group # None, NEW record \in {group.entries, Torn},
           logs' = Appended(logs, logfile, record), UNCHANGED <<manifest, edit, running, hist, synced>>
    PROVE  FilesOK(logs)' /\ ManifestOK' /\ SyncedOK'
<1> USE DEF DurableInv
<1>1. /\ running = "open" /\ Running /\ logfile \in DOMAIN logs
      /\ \A m \in manifest : m.logNumber <= logfile
      /\ edit # None => edit.logNumber <= logfile
    BY GroupFacts DEF Running, NumbersOK
<1>2. record \in Record /\ logfile \in Nat
    BY <1>1, GroupFacts, EmptySeq DEF Torn, Record, NumbersOK
<1>3. /\ FilesOK(logs')
      /\ DOMAIN logs' = DOMAIN logs
      /\ \A n \in DOMAIN logs : n # logfile => logs'[n] = logs[n]
      /\ \A r : r \in ToSet(logs'[logfile].records)
                <=> r \in ToSet(logs[logfile].records) \/ r = record
      /\ \A es : Safe(logs, es) /\ ToSet(record) # es => Safe(logs', es)
    BY <1>1, <1>2, AppendFacts
<1>4. \A g \in Lasting(synced) : ToSet(record) # g.entries
    <2>1. ToSet(Torn) = {}
        BY DEF Torn, ToSet
    <2> QED BY <2>1, GroupFacts
<1>5. ASSUME NEW m, RecordOK(m, logs, Lasting(synced)), m.logNumber <= logfile
      PROVE  RecordOK(m, logs', Lasting(synced))
    <2>1. PICK first, last : first = m.logNumber /\ last = m.lastSequence
        OBVIOUS
    <2>2. Backed(logs, Lasting(synced), first, last) /\ first \in Nat
        BY <1>5, <2>1 DEF RecordOK, Backed
    <2>3. ASSUME NEW n \in DOMAIN logs', n < first
          PROVE  n # logfile /\ n \in DOMAIN logs /\ logs'[n] = logs[n]
        BY <1>2, <1>3, <1>5, <2>1, <2>2, <2>3
    <2>4. \A n \in DOMAIN logs : \A r \in ToSet(logs[n].records) : r \in ToSet(logs'[n].records)
        BY <1>3
    <2>5. Backed(logs', Lasting(synced), first, last)
        BY <1>3, <2>2, <2>3, <2>4, BackedTransfer
    <2> QED BY <1>5, <2>1, <2>5 DEF RecordOK
<1>6. ManifestOK'
    BY <1>1, <1>5 DEF ManifestOK
<1>7. SyncedOK'
    BY <1>3, <1>4 DEF SyncedOK
<1> QED BY <1>3, <1>6, <1>7

-----------------------------------------------------------------------------
\* Steps of a group.
LEMMA GroupMoves ==
    ASSUME DurableInv, group # None, group' \in Group,
           group'.members = group.members, group'.entries = group.entries,
           UNCHANGED <<running, writers, lastSequence>>,
           group'.step # "log" => group.entries \in ToSet(logs'[logfile'].records),
           group'.step = "insert" /\ group'.sync => logs'[logfile'].synced = Len(logs'[logfile'].records)
    PROVE  GroupOK' /\ IdleOK' /\ group' # None
<1> USE DEF DurableInv
<1>1. group' # None
    BY NoneIsNothing
<1>2. GroupOK'
    BY <1>1 DEF GroupOK
<1>3. IdleOK'
    BY GroupFacts DEF IdleOK
<1> QED BY <1>1, <1>2, <1>3

LEMMA AddRecordStep == ASSUME DurableInv, AddRecord PROVE DurableInv'
<1> USE DEF DurableInv
<1>1. /\ group # None /\ group.step = "log"
      /\ logs' = Appended(logs, logfile, group.entries)
      /\ group' = [group EXCEPT !.step = IF group.sync THEN "sync" ELSE "insert"]
      /\ manifest' = manifest /\ edit' = edit /\ running' = running /\ request' = request
      /\ writers' = writers /\ logfile' = logfile /\ lastSequence' = lastSequence
      /\ nextFile' = nextFile /\ logNumber' = logNumber /\ hist' = hist /\ synced' = synced
    BY DEF AddRecord, memory, versions, history, Appended
<1>2. running = "open" /\ Running /\ group \in Group /\ group.entries \in Record
    BY <1>1, GroupFacts DEF Running
<1>3. logfile \in DOMAIN logs
    BY <1>2 DEF NumbersOK
<1>4. /\ DOMAIN logs' = DOMAIN logs
      /\ \A n \in DOMAIN logs : n # logfile => logs'[n] = logs[n]
      /\ \A r : r \in ToSet(logs'[logfile].records)
                <=> r \in ToSet(logs[logfile].records) \/ r = group.entries
    BY <1>1, <1>2, <1>3, AppendFacts
<1>5. FilesOK(logs)' /\ ManifestOK' /\ SyncedOK'
    BY <1>1, AppendStep
<1>6. /\ group' \in Group /\ group'.members = group.members /\ group'.entries = group.entries
      /\ group'.step # "log" /\ (group'.step = "insert" => ~group.sync) /\ group'.sync = group.sync
    BY <1>1, <1>2 DEF Group
<1>7. group.entries \in ToSet(logs'[logfile'].records)
    BY <1>1, <1>4
<1>8. GroupOK' /\ IdleOK' /\ group' # None
    BY <1>1, <1>6, <1>7, GroupMoves
<1>9. QueueOK'
    BY <1>1 DEF QueueOK
<1>10. NumbersOK'
    BY <1>1, <1>4 DEF NumbersOK, Running
<1>11. CountsOK'
    <2>1. Pending = {} /\ Pending' = {group.entries}
        BY <1>1, <1>6, <1>8 DEF Pending
    <2>2. Counted(logs, logfile, {}, lastSequence)
        BY <1>2, <2>1 DEF CountsOK
    <2>3. Counted(logs', logfile, {group.entries}, lastSequence)
        BY <1>4, <2>2 DEF Counted
    <2> QED BY <1>1, <1>2, <2>1, <2>3 DEF CountsOK
<1> QED BY <1>5, <1>8, <1>9, <1>10, <1>11

LEMMA SyncStep == ASSUME DurableInv, Sync PROVE DurableInv'
<1> USE DEF DurableInv
<1>1. /\ group # None /\ group.step = "sync"
      /\ logs' = [logs EXCEPT ![logfile].synced = Len(logs[logfile].records)]
      /\ group' = [group EXCEPT !.step = "insert"]
      /\ manifest' = manifest /\ edit' = edit /\ running' = running /\ request' = request
      /\ writers' = writers /\ logfile' = logfile /\ lastSequence' = lastSequence
      /\ nextFile' = nextFile /\ logNumber' = logNumber /\ hist' = hist /\ synced' = synced
    BY DEF Sync, memory, versions, history
<1>2. running = "open" /\ Running /\ group \in Group
    BY <1>1, GroupFacts DEF Running
<1>3. logfile \in DOMAIN logs
    BY <1>2 DEF NumbersOK
<1>4. /\ FilesOK(logs') /\ DOMAIN logs' = DOMAIN logs
      /\ \A n \in DOMAIN logs : logs'[n].records = logs[n].records
      /\ logs'[logfile].synced = Len(logs[logfile].records)
      /\ \A es : Safe(logs, es) => Safe(logs', es)
    BY <1>1, <1>3, SyncFacts
<1>5. /\ group' \in Group /\ group'.members = group.members /\ group'.entries = group.entries
      /\ group'.step = "insert"
    BY <1>1, <1>2 DEF Group
<1>6. group.entries \in ToSet(logs'[logfile'].records)
    BY <1>1, <1>3, <1>4 DEF GroupOK
<1>7. logs'[logfile'].synced = Len(logs'[logfile'].records)
    BY <1>1, <1>3, <1>4
<1>8. GroupOK' /\ IdleOK' /\ group' # None
    BY <1>1, <1>5, <1>6, <1>7, GroupMoves
<1>9. QueueOK'
    BY <1>1 DEF QueueOK
<1>10. NumbersOK'
    BY <1>1, <1>4 DEF NumbersOK, Running
<1>11. CountsOK'
    <2>1. Pending = {group.entries} /\ Pending' = {group.entries}
        BY <1>1, <1>5, <1>8 DEF Pending
    <2>2. Counted(logs', logfile, {group.entries}, lastSequence)
        BY <1>2, <1>4, <2>1 DEF CountsOK, Counted
    <2> QED BY <1>1, <1>2, <2>1, <2>2 DEF CountsOK
<1>12. ASSUME NEW m, RecordOK(m, logs, Lasting(synced)) PROVE RecordOK(m, logs', Lasting(synced))
    <2>1. PICK first, last : first = m.logNumber /\ last = m.lastSequence
        OBVIOUS
    <2>2. Backed(logs, Lasting(synced), first, last)
        BY <1>12, <2>1 DEF RecordOK
    <2>3. Backed(logs', Lasting(synced), first, last)
        BY <1>4, <2>2, BackedTransfer
    <2> QED BY <1>12, <2>1, <2>3 DEF RecordOK
<1>13. ManifestOK'
    BY <1>1, <1>12 DEF ManifestOK
<1>14. SyncedOK'
    BY <1>1, <1>4 DEF SyncedOK
<1> QED BY <1>4, <1>8, <1>9, <1>10, <1>11, <1>13, <1>14

LEMMA InsertEntryStep == ASSUME DurableInv, InsertEntry PROVE DurableInv'
<1> USE DEF DurableInv
<1>1. /\ group # None /\ group.step = "insert" /\ group.left > 0
      /\ group' = [group EXCEPT !.left = @ - 1]
      /\ logs' = logs /\ manifest' = manifest /\ edit' = edit /\ running' = running
      /\ request' = request /\ writers' = writers /\ logfile' = logfile
      /\ lastSequence' = lastSequence /\ nextFile' = nextFile /\ logNumber' = logNumber
      /\ hist' = hist /\ synced' = synced
    BY DEF InsertEntry, disk, versions, history
<1>2. group \in Group
    BY <1>1, GroupFacts
<1>3. group.left \in Nat /\ group.left - 1 \in Nat
    BY <1>1, <1>2 DEF Group
<1>4. /\ group' \in Group /\ group'.members = group.members /\ group'.entries = group.entries
      /\ group'.step = group.step /\ group'.sync = group.sync
    BY <1>1, <1>2, <1>3 DEF Group
<1>5. GroupOK' /\ IdleOK' /\ group' # None
    <2>1. group.entries \in ToSet(logs'[logfile'].records)
        BY <1>1 DEF GroupOK
    <2>2. group.sync => logs'[logfile'].synced = Len(logs'[logfile'].records)
        BY <1>1 DEF GroupOK
    <2> QED BY <1>1, <1>4, <2>1, <2>2, GroupMoves
<1>6. QueueOK'
    BY <1>1 DEF QueueOK
<1>7. NumbersOK'
    BY <1>1 DEF NumbersOK, Running
<1>8. CountsOK'
    <2>1. Pending' = Pending
        BY <1>1, <1>4, <1>5 DEF Pending
    <2> QED BY <1>1, <2>1 DEF CountsOK, Running
<1>9. FilesOK(logs)' /\ ManifestOK' /\ SyncedOK'
    BY <1>1 DEF ManifestOK, SyncedOK
<1> QED BY <1>5, <1>6, <1>7, <1>8, <1>9

\* The writers return: the numbers of the group are used up.
LEMMA GroupEnds ==
    ASSUME DurableInv, group # None,
           lastSequence' = lastSequence + Len(group.entries), Return(group.members), group' = None,
           UNCHANGED <<manifest, edit, running, logfile, nextFile, logNumber>>,
           FilesOK(logs)', ManifestOK', SyncedOK', DOMAIN logs' = DOMAIN logs,
           \A n \in DOMAIN logs : \A r \in ToSet(logs'[n].records) :
               r \in ToSet(logs[n].records) \/ r \in {group.entries, Torn},
           \A g \in Lasting(synced)' : g \in Lasting(synced) \/ g.entries = ToSet(group.entries)
    PROVE  DurableInv'
<1> USE DEF DurableInv
<1>1. /\ running = "open" /\ Running /\ group \in Group
      /\ lastSequence \in Nat /\ Len(group.entries) \in Nat
      /\ \A e \in ToSet(group.entries) : e.seq <= lastSequence'
    BY GroupFacts DEF Running
<1>2. QueueOK'
    <2>1. group.members \in Seq(Thread)
        BY <1>1 DEF Group
    <2> QED BY <2>1, ReturnFacts DEF GroupOK
<1>3. IdleOK' /\ GroupOK'
    BY <1>1 DEF IdleOK, GroupOK
<1>4. lastSequence' \in Nat /\ lastSequence <= lastSequence'
    BY <1>1
<1>5. NumbersOK'
    BY <1>1, <1>4 DEF NumbersOK
<1>6. ASSUME NEW n \in DOMAIN logs, NEW r \in ToSet(logs'[n].records), NEW e \in ToSet(r)
      PROVE  e.seq <= lastSequence'
    <2>1. CASE r = group.entries
        BY <1>1, <2>1
    <2>2. CASE r = Torn
        BY <2>2 DEF Torn, ToSet
    <2>3. CASE r \in ToSet(logs[n].records) /\ r # group.entries
        <3>1. r \notin Pending
            BY <2>3 DEF Pending
        <3>2. e.seq <= lastSequence
            BY <1>1, <2>3, <3>1 DEF CountsOK, Counted
        <3>3. e.seq \in Nat
            BY <2>3, LogFacts
        <3> QED BY <1>1, <1>4, <3>2, <3>3
    <2> QED BY <2>1, <2>2, <2>3
<1>7. ASSUME NEW g \in Lasting(synced)', NEW e \in g.entries PROVE e.seq <= lastSequence'
    <2>1. CASE g.entries = ToSet(group.entries)
        BY <1>1, <2>1
    <2>2. CASE g \in Lasting(synced)
        <3>1. e.seq <= lastSequence /\ lastSequence \in Nat
            BY <1>1, <2>2 DEF CountsOK
        <3>2. e.seq \in Nat
            BY <2>2 DEF SyncedOK, Entry
        <3> QED BY <1>4, <3>1, <3>2
    <2> QED BY <2>1, <2>2
<1>8. CountsOK'
    BY <1>6, <1>7 DEF CountsOK, Counted
<1> QED BY <1>2, <1>3, <1>5, <1>8

LEMMA AddRecordFailsStep == ASSUME DurableInv, AddRecordFails PROVE DurableInv'
<1>1. /\ group # None
      /\ \E record \in {group.entries, Torn} : logs' = Appended(logs, logfile, record)
      /\ lastSequence' = lastSequence + Len(group.entries) /\ Return(group.members) /\ group' = None
      /\ manifest' = manifest /\ edit' = edit /\ running' = running /\ logfile' = logfile
      /\ nextFile' = nextFile /\ logNumber' = logNumber /\ hist' = hist /\ synced' = synced
    BY DEF AddRecordFails, GroupFails, versions, Appended
<1>2. PICK record \in {group.entries, Torn} : logs' = Appended(logs, logfile, record)
    BY <1>1
<1>3. FilesOK(logs)' /\ ManifestOK' /\ SyncedOK'
    BY <1>1, <1>2, AppendStep
<1>4. logfile \in DOMAIN logs /\ record \in Record /\ FilesOK(logs)
    <2>1. running = "open" /\ group.entries \in Record
        BY <1>1, GroupFacts
    <2>2. Torn \in Record
        BY EmptySeq DEF Torn, Record
    <2> QED BY <2>1, <2>2 DEF DurableInv, NumbersOK, Running
<1>5. /\ DOMAIN logs' = DOMAIN logs
      /\ \A n \in DOMAIN logs : n # logfile => logs'[n] = logs[n]
      /\ \A r : r \in ToSet(logs'[logfile].records)
                <=> r \in ToSet(logs[logfile].records) \/ r = record
    BY <1>2, <1>4, AppendFacts
<1>6. \A n \in DOMAIN logs : \A r \in ToSet(logs'[n].records) :
          r \in ToSet(logs[n].records) \/ r \in {group.entries, Torn}
    BY <1>5
<1>7. Lasting(synced)' = Lasting(synced)
    BY <1>1 DEF Lasting
<1> QED BY <1>1, <1>3, <1>5, <1>6, <1>7, GroupEnds

LEMMA SyncFailsStep == ASSUME DurableInv, SyncFails PROVE DurableInv'
<1>1. /\ group # None /\ logs' = logs
      /\ lastSequence' = lastSequence + Len(group.entries) /\ Return(group.members) /\ group' = None
      /\ manifest' = manifest /\ edit' = edit /\ running' = running /\ logfile' = logfile
      /\ nextFile' = nextFile /\ logNumber' = logNumber /\ hist' = hist /\ synced' = synced
    BY DEF SyncFails, GroupFails, versions
<1>2. FilesOK(logs)' /\ ManifestOK' /\ SyncedOK'
    BY <1>1 DEF DurableInv, ManifestOK, SyncedOK
<1>3. Lasting(synced)' = Lasting(synced)
    BY <1>1 DEF Lasting
<1> QED BY <1>1, <1>2, <1>3, GroupEnds

LEMMA FinishWriteStep == ASSUME DurableInv, FinishWrite PROVE DurableInv'
<1> USE DEF DurableInv
<1>1. /\ group # None /\ group.step = "insert" /\ logs' = logs
      /\ lastSequence' = lastSequence + Len(group.entries) /\ Return(group.members) /\ group' = None
      /\ manifest' = manifest /\ edit' = edit /\ running' = running /\ logfile' = logfile
      /\ nextFile' = nextFile /\ logNumber' = logNumber
      /\ hist' = hist \cup {Done(group)}
      /\ synced' = IF group.sync THEN synced \cup {Done(group)} ELSE synced
    BY DEF FinishWrite, disk, versions
<1>2. PICK es : es = ToSet(group.entries)
    OBVIOUS
<1>3. /\ running = "open" /\ Running /\ group.entries \in Record
      /\ es # {} /\ \E e \in es : ~(e.seq <= lastSequence)
    BY <1>1, <1>2, GroupFacts DEF Running
<1>4. es \subseteq Entry
    BY <1>2, <1>3 DEF ToSet, Record
<1>5. /\ logfile \in DOMAIN logs /\ group.entries \in ToSet(logs[logfile].records)
      /\ group.sync => logs[logfile].synced = Len(logs[logfile].records)
      /\ \A m \in manifest : m.logNumber <= logfile
      /\ edit # None => edit.logNumber <= logfile
    BY <1>1, <1>3 DEF NumbersOK, GroupOK
<1>6. ASSUME NEW g \in Lasting(synced'), g \notin Lasting(synced)
      PROVE  /\ g \in hist' /\ g.entries = es /\ group.sync /\ Torn \notin ToSet(logs[logfile].records)
    <2>1. g \in synced' /\ g \notin synced /\ ~g.behind
        BY <1>6 DEF Lasting
    <2>2. PICK d : d = Done(group)
        OBVIOUS
    <2>3. group.sync /\ g = d
        <3>1. synced' = IF group.sync THEN synced \cup {d} ELSE synced
            BY <1>1, <2>2
        <3> QED BY <2>1, <3>1
    <2>4. d.entries = es /\ d.behind = (Torn \in ToSet(logs[logfile].records))
        BY <1>2, <2>2 DEF Done
    <2>5. d \in hist'
        BY <1>1, <2>2
    <2>6. Torn \notin ToSet(logs[logfile].records)
        BY <2>1, <2>3, <2>4
    <2> QED BY <2>3, <2>4, <2>5, <2>6
<1>7. ASSUME group.sync, Torn \notin ToSet(logs[logfile].records) PROVE Safe(logs, es)
    <2> SUFFICES ASSUME NEW n \in DOMAIN logs, NEW i \in 1..Len(logs[n].records),
                        ToSet(logs[n].records[i]) = es
                 PROVE  i <= logs[n].synced /\ \A j \in 1..i : logs[n].records[j] # Torn
        BY DEF Safe
    <2>1. /\ Len(logs[n].records) \in Nat
          /\ DOMAIN logs[n].records = 1..Len(logs[n].records)
        BY LogFacts
    <2>2. logs[n].records[i] \in ToSet(logs[n].records)
        BY <2>1 DEF ToSet
    <2>3. n = logfile
        BY <1>3, <2>2 DEF CountsOK, Counted
    <2>4. i <= logs[n].synced
        BY <1>5, <1>7, <2>1, <2>3
    <2>5. \A j \in 1..i : j \in 1..Len(logs[n].records)
        BY <2>1
    <2> QED BY <1>7, <2>1, <2>3, <2>4, <2>5 DEF ToSet
<1>8. ASSUME NEW m, RecordOK(m, logs, Lasting(synced)), m.logNumber <= logfile
      PROVE  RecordOK(m, logs, Lasting(synced'))
    <2>1. m.logNumber \in Nat /\ logfile \in Nat /\ logfile >= m.logNumber
        BY <1>3, <1>8 DEF RecordOK, Backed, NumbersOK
    <2>2. ASSUME NEW g \in Lasting(synced')
          PROVE  \/ \A e \in g.entries : e.seq <= m.lastSequence
                 \/ \E n \in DOMAIN logs :
                        n >= m.logNumber /\ \E r \in ToSet(logs[n].records) : ToSet(r) = g.entries
        <3>1. CASE g \in Lasting(synced)
            BY <1>8, <3>1 DEF RecordOK, Backed
        <3>2. CASE g \notin Lasting(synced)
            BY <1>2, <1>5, <1>6, <2>1, <3>2
        <3> QED BY <3>1, <3>2
    <2> QED BY <1>8, <2>2 DEF RecordOK, Backed
<1>9. ManifestOK'
    <2>1. \A m \in manifest : RecordOK(m, logs, Lasting(synced'))
        BY <1>5, <1>8 DEF ManifestOK
    <2>2. edit # None => RecordOK(edit, logs, Lasting(synced'))
        <3>1. PICK m : m = edit
            OBVIOUS
        <3> QED BY <1>5, <1>8, <3>1 DEF ManifestOK
    <2> QED BY <1>1, <1>3, <2>1, <2>2 DEF ManifestOK
<1>10. SyncedOK'
    <2>1. ASSUME NEW g \in Lasting(synced')
          PROVE  g \in hist' /\ g.entries # {} /\ g.entries \subseteq Entry /\ Safe(logs, g.entries)
        <3>1. CASE g \in Lasting(synced)
            BY <1>1, <3>1 DEF SyncedOK
        <3>2. CASE g \notin Lasting(synced)
            BY <1>3, <1>4, <1>6, <1>7, <3>2
        <3> QED BY <3>1, <3>2
    <2> QED BY <1>1, <2>1 DEF SyncedOK
<1>11. \A g \in Lasting(synced)' : g \in Lasting(synced) \/ g.entries = ToSet(group.entries)
    BY <1>2, <1>6
<1> QED BY <1>1, <1>9, <1>10, <1>11, GroupEnds

LEMMA LeaderFacts ==
    ASSUME QueueOK, NEW t \in Thread, writers # <<>>, Head(writers) = t, Return(<<t>>)
    PROVE  QueueOK'
<1>1. <<t>> \in Seq(Thread) /\ Len(<<t>>) = 1
    OBVIOUS
<1>2. Len(writers) \in Nat /\ 1 <= Len(writers) /\ Head(writers) = writers[1]
    BY EmptySeq DEF QueueOK
<1>3. \A i \in 1..1 : <<t>>[i] = writers[i]
    BY <1>2
<1> QED BY <1>1, <1>2, <1>3, ReturnFacts

LEMMA LeaderFailsStep == ASSUME DurableInv, NEW t \in Thread, LeaderFails(t) PROVE DurableInv'
<1>1. /\ running = "open" /\ writers # <<>> /\ Head(writers) = t /\ group = None /\ Return(<<t>>)
      /\ logs' = logs /\ manifest' = manifest /\ edit' = edit /\ running' = running
      /\ group' = group /\ logfile' = logfile /\ lastSequence' = lastSequence
      /\ nextFile' = nextFile /\ logNumber' = logNumber /\ hist' = hist /\ synced' = synced
    BY DEF LeaderFails, Leader, disk, memory, versions
<1>2. QueueOK'
    BY <1>1, LeaderFacts DEF DurableInv
<1>3. GroupOK'
    BY <1>1 DEF GroupOK
<1> QED BY <1>1, <1>2, <1>3, LeadStep

LEMMA LeadGroupStep == ASSUME DurableInv, NEW t \in Thread, LeadGroup(t) PROVE DurableInv'
<1>1. /\ running = "open" /\ writers # <<>> /\ Head(writers) = t /\ group = None
      /\ manifest' = manifest /\ edit' = edit /\ running' = running /\ lastSequence' = lastSequence
      /\ hist' = hist /\ synced' = synced
    BY DEF LeadGroup, Leader, history
<1>2. /\ logNumber' = logNumber
      /\ \/ UNCHANGED <<logs, logfile, nextFile>>
         \/ /\ logs' = Written(logs, nextFile, EmptyLog) /\ logfile' = nextFile
            /\ nextFile' = nextFile + 1
    BY DEF LeadGroup, MakeRoomForWrite, SwitchMemTable, versions
<1>3. CASE request[t].batch = <<>>
    <2>1. Return(<<t>>) /\ group' = group
        BY <1>3 DEF LeadGroup
    <2>2. QueueOK'
        BY <1>1, <2>1, LeaderFacts DEF DurableInv
    <2>3. GroupOK'
        BY <1>1, <2>1 DEF GroupOK
    <2> QED BY <1>1, <1>2, <2>1, <2>2, <2>3, LeadStep
<1>4. CASE request[t].batch # <<>>
    <2>1. group' = BatchGroup(GroupLength) /\ request' = request /\ writers' = writers
        BY <1>4 DEF LeadGroup
    <2>2. writers \in Seq(Thread) /\ QueueOK /\ lastSequence \in Nat
        BY <1>1 DEF DurableInv, QueueOK, NumbersOK, Running
    <2>3. writers[1] = t
        BY <1>1, <2>2, EmptySeq
    <2>4. PICK n \in 1..Len(writers) : n = GroupLength
        BY <1>1, <2>2, GroupLengthFacts
    <2>5. PICK g : g = BatchGroup(n)
        OBVIOUS
    <2>6. /\ g \in Group /\ g.step = "log" /\ g.entries # <<>>
          /\ Len(g.members) <= Len(writers)
          /\ \A i \in 1..Len(g.members) : g.members[i] = writers[i]
          /\ \A i \in 1..Len(g.entries) : g.entries[i].seq = lastSequence + i
        BY <1>4, <2>2, <2>3, <2>5, BatchGroupFacts
    <2>7. group' = g
        BY <2>1, <2>4, <2>5
    <2>8. GroupOK'
        BY <1>1, <2>1, <2>6, <2>7 DEF GroupOK
    <2>9. QueueOK'
        BY <2>1, <2>2 DEF QueueOK
    <2> QED BY <1>1, <1>2, <2>6, <2>7, <2>8, <2>9, LeadStep
<1> QED BY <1>3, <1>4

-----------------------------------------------------------------------------
\* Steps of readers and of the background thread.
LEMMA ReaderStep ==
    ASSUME DurableInv,
           \/ \E h \in Handle : GetSnapshot(h) \/ ReleaseSnapshot(h)
           \/ \E r \in Reader, s \in 0..MaxSeq : BeginRead(r, s)
           \/ \E r \in Reader : EndRead(r)
    PROVE  DurableInv'
<1> USE DEF disk, writing, memory, versions, background, history
<1>1. CASE \E h \in Handle : GetSnapshot(h) \/ ReleaseSnapshot(h)
    BY <1>1, FrameStep DEF GetSnapshot, ReleaseSnapshot
<1>2. CASE \E r \in Reader, s \in 0..MaxSeq : BeginRead(r, s)
    BY <1>2, FrameStep DEF BeginRead
<1>3. CASE \E r \in Reader : EndRead(r)
    <2>1. PICK r \in Reader : EndRead(r)
        BY <1>3
    <2>2. running = "open"
        BY <2>1 DEF EndRead, DurableInv, IdleOK
    <2> QED BY <2>1, <2>2, FrameStep DEF EndRead
<1> QED BY <1>1, <1>2, <1>3

LEMMA ManualStep ==
    ASSUME DurableInv,
           \/ \E l \in 0..(NumLevels - 2), range \in Ranges : RequestRange(l, range[1], range[2])
           \/ ArmManual \/ RangeReturns
    PROVE  DurableInv'
BY FrameStep DEF RequestRange, ArmManual, RangeReturns, disk, writing, memory, versions, history

LEMMA FlushStep == ASSUME DurableInv, Flush PROVE DurableInv'
<1> USE DEF writing, memory, versions, history, disk
<1>1. CASE CompactMemTable
    <2>1. running = "open"
        BY <1>1 DEF CompactMemTable, DurableInv, IdleOK
    <2> QED BY <1>1, <2>1, FrameStep DEF CompactMemTable
<1>2. CASE WriteLevel0Table
    <2>1. running = "open"
        BY <1>2 DEF WriteLevel0Table, DurableInv, IdleOK
    <2>2. /\ edit'.nextFile = nextFile /\ edit'.lastSequence = lastSequence
          /\ edit'.logNumber = logfile
        <3>1. PICK e : e = [NoEdit EXCEPT !.logNumber = logfile]
            OBVIOUS
        <3>2. /\ e.nextFile = nextFile /\ e.lastSequence = lastSequence /\ e.logNumber = logfile
              /\ e = [deleted |-> NoFiles, added |-> NoFiles, logNumber |-> logfile,
                      nextFile |-> nextFile, lastSequence |-> lastSequence, pointer |-> <<0, NoEntry>>]
            BY <3>1 DEF NoEdit
        <3>3. edit' = e \/ \E l, f : edit' = [e EXCEPT !.added[l] = {f}]
            BY <1>2, <3>1 DEF WriteLevel0Table
        <3> QED BY <3>2, <3>3
    <2> QED BY <1>2, <2>1, <2>2, EditStep DEF WriteLevel0Table
<1>3. CASE FlushInstalled
    <2>1. running = "open" /\ edit # None
        BY <1>3 DEF FlushInstalled, DurableInv, IdleOK
    <2>2. /\ manifest' = {Apply(m, edit) : m \in manifest} /\ logNumber' = edit.logNumber /\ edit' = None
          /\ \/ logs' = logs
             \/ logs' = Restrict(logs, {n \in DOMAIN logs : n >= logNumber'})
          /\ running' = running /\ request' = request /\ writers' = writers /\ group' = group
          /\ logfile' = logfile /\ lastSequence' = lastSequence /\ nextFile' = nextFile
          /\ hist' = hist /\ synced' = synced
        BY <1>3 DEF FlushInstalled, AppendVersion, AppendVersionTo, DeleteObsoleteFiles
    <2>3. \A m \in manifest' : /\ m.logNumber = edit.logNumber /\ m.nextFile = edit.nextFile
                               /\ m.lastSequence = edit.lastSequence
        BY <2>2 DEF Apply
    <2> QED BY <2>1, <2>2, <2>3, RecordStep
<1> QED BY <1>1, <1>2, <1>3 DEF Flush

LEMMA FlushFailsStep == ASSUME DurableInv, FlushFails PROVE DurableInv'
<1>1. running = "open"
    BY DEF FlushFails, DurableInv, IdleOK
<1> USE DEF FlushFails, RecordFails, writing
<1>2. CASE edit = None
    BY <1>1, <1>2, FrameStep
<1>3. CASE edit # None
    BY <1>1, <1>3, RecordFailsStep
<1> QED BY <1>2, <1>3

LEMMA CompactionEdit ==
    ASSUME NEW e, NEW a, NEW b, NEW x, NEW y, NEW z, NEW p, NEW c,
           e = [NoEdit EXCEPT !.deleted[a] = x, !.added[b] = y, !.pointer = p]
           \/ e = [NoEdit EXCEPT !.deleted[a] = x, !.deleted[c] = z, !.added[b] = y, !.pointer = p]
    PROVE  /\ e.nextFile = nextFile /\ e.lastSequence = lastSequence /\ e.logNumber = logNumber
BY DEF NoEdit

LEMMA StartTurnStep == ASSUME DurableInv, StartTurn PROVE DurableInv'
<1> USE DEF writing, memory, versions, history, disk
<1>1. CASE CompactSomeFiles
    <2>1. running = "open"
        BY <1>1 DEF CompactSomeFiles, Turn, DurableInv, IdleOK
    <2>2. PICK c : StartMove(c) \/ StartCompaction(c)
        BY <1>1 DEF CompactSomeFiles
    <2>3. CASE StartCompaction(c)
        BY <1>1, <2>1, <2>3, FrameStep DEF CompactSomeFiles, StartCompaction
    <2>4. CASE StartMove(c)
        <3>1. PICK e : e = [NoEdit EXCEPT !.deleted[c.level] = c.mine, !.added[c.level + 1] = c.mine,
                                          !.pointer = <<c.level, PointerAfter(c)>>]
            OBVIOUS
        <3>2. /\ e.nextFile = nextFile /\ e.lastSequence = lastSequence /\ e.logNumber = logNumber
            BY <3>1, CompactionEdit
        <3>3. edit' = e
            BY <2>4, <3>1 DEF StartMove
        <3> QED BY <1>1, <2>1, <3>2, <3>3, EditStep DEF CompactSomeFiles
    <2> QED BY <2>2, <2>3, <2>4
<1>2. CASE CompactRange
    <2>1. running = "open"
        BY <1>2 DEF CompactRange, Turn, DurableInv, IdleOK
    <2> QED BY <1>2, <2>1, FrameStep DEF CompactRange, StartCompaction
<1>3. CASE NothingToDo
    BY <1>3, FrameStep DEF NothingToDo
<1> QED BY <1>1, <1>2, <1>3 DEF StartTurn

LEMMA CompactStep == ASSUME DurableInv, CompactionOutput \/ InstallCompactionResults PROVE DurableInv'
<1> USE DEF writing, memory, versions, history
<1>1. running = "open"
    BY DEF CompactionOutput, InstallCompactionResults, DurableInv, IdleOK
<1>2. CASE CompactionOutput
    BY <1>1, <1>2, FrameStep DEF CompactionOutput
<1>3. CASE InstallCompactionResults
    <2>1. PICK c : c = compaction.inputs
        OBVIOUS
    <2>2. PICK e : e = [NoEdit EXCEPT !.deleted[c.level] = c.mine, !.deleted[c.level + 1] = c.theirs,
                                      !.added[c.level + 1] = compaction.outputs,
                                      !.pointer = <<c.level, PointerAfter(c)>>]
        OBVIOUS
    <2>3. /\ e.nextFile = nextFile /\ e.lastSequence = lastSequence /\ e.logNumber = logNumber
        BY <2>2, CompactionEdit
    <2>4. edit' = e
        BY <1>3, <2>1, <2>2 DEF InstallCompactionResults
    <2> QED BY <1>1, <1>3, <2>3, <2>4, EditStep DEF InstallCompactionResults
<1> QED BY <1>2, <1>3

LEMMA CompactionInstalledStep == ASSUME DurableInv, CompactionInstalled PROVE DurableInv'
<1>1. running = "open" /\ edit # None
    BY DEF CompactionInstalled, DurableInv, IdleOK
<1>2. /\ manifest' = {Apply(m, edit) : m \in manifest} /\ logNumber' = edit.logNumber /\ edit' = None
      /\ \/ logs' = logs
         \/ logs' = Restrict(logs, {n \in DOMAIN logs : n >= logNumber'})
      /\ running' = running /\ request' = request /\ writers' = writers /\ group' = group
      /\ logfile' = logfile /\ lastSequence' = lastSequence /\ nextFile' = nextFile
      /\ hist' = hist /\ synced' = synced
    BY DEF CompactionInstalled, AppendVersion, AppendVersionTo, DeleteObsoleteFiles,
       CompactionEnds, writing
<1>3. \A m \in manifest' : /\ m.logNumber = edit.logNumber /\ m.nextFile = edit.nextFile
                           /\ m.lastSequence = edit.lastSequence
    BY <1>2 DEF Apply
<1> QED BY <1>1, <1>2, <1>3, RecordStep

LEMMA CompactionFailsStep == ASSUME DurableInv, CompactionFails PROVE DurableInv'
<1>1. running = "open"
    BY DEF CompactionFails, DurableInv, IdleOK
<1> USE DEF CompactionFails, CompactionEnds, RecordFails, writing
<1>2. CASE edit = None
    BY <1>1, <1>2, FrameStep
<1>3. CASE edit # None
    BY <1>1, <1>3, RecordFailsStep
<1> QED BY <1>2, <1>3

-----------------------------------------------------------------------------
\* The process ends and comes back.
LEMMA GoneFacts ==
    ASSUME NEW state, state # "open", state # "opening", Gone(state)
    PROVE  /\ QueueOK' /\ IdleOK' /\ GroupOK' /\ NumbersOK' /\ CountsOK'
           /\ edit' = None /\ running' = state
<1> USE DEF Gone
<1>1. QueueOK'
    <2>1. <<>> \in Seq(Thread) /\ Len(<<>>) = 0
        BY EmptySeq
    <2> QED BY <2>1 DEF QueueOK
<1>2. IdleOK' /\ GroupOK'
    BY DEF IdleOK, GroupOK
<1>3. NumbersOK' /\ CountsOK'
    BY DEF NumbersOK, CountsOK, Running
<1> QED BY <1>1, <1>2, <1>3

\* The record in flight is as good as those there are.
LEMMA OutcomesOK ==
    ASSUME DurableInv, NEW m \in Outcomes PROVE RecordOK(m, logs, Lasting(synced))
<1>1. CASE m \in manifest
    BY <1>1 DEF DurableInv, ManifestOK
<1>2. CASE edit # None /\ \E k \in manifest : m = Apply(k, edit)
    <2>1. RecordOK(edit, logs, Lasting(synced))
        BY <1>2 DEF DurableInv, ManifestOK
    <2>2. m.nextFile = edit.nextFile /\ m.logNumber = edit.logNumber
          /\ m.lastSequence = edit.lastSequence
        BY <1>2 DEF Apply
    <2> QED BY <2>1, <2>2 DEF RecordOK
<1> QED BY <1>1, <1>2 DEF Outcomes

LEMMA NullManualStep == ASSUME DurableInv, NullManual PROVE DurableInv'
<1>1. /\ manifest' \subseteq Outcomes /\ Gone("trapped")
      /\ logs' = logs /\ hist' = hist /\ synced' = synced
    BY DEF NullManual, Outcomes, history
<1>2. /\ QueueOK' /\ IdleOK' /\ GroupOK' /\ NumbersOK' /\ CountsOK'
      /\ edit' = None /\ running' = "trapped"
    BY <1>1, GoneFacts
<1>4. \A m \in manifest' : RecordOK(m, logs, Lasting(synced))
    BY <1>1, OutcomesOK
<1>5. ManifestOK'
    BY <1>1, <1>2, <1>4 DEF ManifestOK
<1>6. SyncedOK' /\ FilesOK(logs)'
    BY <1>1 DEF DurableInv, SyncedOK
<1> QED BY <1>2, <1>5, <1>6 DEF DurableInv

LEMMA OpenFailsStep == ASSUME DurableInv, OpenFails PROVE DurableInv'
<1>1. /\ running = "opening" /\ Gone("down")
      /\ manifest' = manifest /\ logs' = logs /\ hist' = hist /\ synced' = synced
    BY DEF OpenFails
<1>2. /\ QueueOK' /\ IdleOK' /\ GroupOK' /\ NumbersOK' /\ CountsOK'
      /\ edit' = None /\ running' = "down"
    BY <1>1, GoneFacts
<1>3. ManifestOK'
    BY <1>1, <1>2 DEF DurableInv, ManifestOK
<1>4. SyncedOK' /\ FilesOK(logs)'
    BY <1>1 DEF DurableInv, SyncedOK
<1> QED BY <1>2, <1>3, <1>4 DEF DurableInv

\* A crash keeps the synced records, and history with them.
LEMMA CrashStep == ASSUME DurableInv, Crash PROVE DurableInv'
<1> USE DEF DurableInv
<1>1. PICK m \in Outcomes, kept \in KeptRecords :
          /\ manifest' = {m}
          /\ logs' = [n \in DOMAIN logs |-> [records |-> kept[n], synced |-> Len(kept[n])]]
          /\ hist' = Surviving(m.logNumber, kept)
    BY DEF Crash
<1>2. /\ QueueOK' /\ IdleOK' /\ GroupOK' /\ NumbersOK' /\ CountsOK'
      /\ edit' = None /\ running' = "down"
    BY GoneFacts DEF Crash
<1>3. synced' = synced
    BY DEF Crash
<1>4. RecordOK(m, logs, Lasting(synced))
    BY OutcomesOK
<1>5. \A n \in DOMAIN logs : kept[n] \in Readable(logs[n])
    BY DEF KeptRecords
<1>6. /\ FilesOK(logs')
      /\ \A es : Safe(logs', es)
      /\ \A n \in DOMAIN logs : \A r \in ToSet(logs[n].records) :
             Safe(logs, ToSet(r)) => r \in ToSet(kept[n])
      /\ \A lasting, first, last :
             /\ Backed(logs, lasting, first, last)
             /\ \A g \in lasting : Safe(logs, g.entries)
             => Backed(logs', lasting, first, last)
    BY <1>1, <1>5, CrashFacts
<1>7. \A g \in Lasting(synced) : Safe(logs, g.entries) /\ g \in hist
    BY DEF SyncedOK
<1>8. RecordOK(m, logs', Lasting(synced))
    <2>1. PICK first, last : first = m.logNumber /\ last = m.lastSequence
        OBVIOUS
    <2>2. Backed(logs, Lasting(synced), first, last)
        BY <1>4, <2>1 DEF RecordOK
    <2>3. Backed(logs', Lasting(synced), first, last)
        BY <1>6, <1>7, <2>2
    <2> QED BY <1>4, <2>1, <2>3 DEF RecordOK
<1>9. ManifestOK'
    BY <1>1, <1>2, <1>3, <1>8 DEF ManifestOK
<1>10. ASSUME NEW g \in Lasting(synced) PROVE g \in hist'
    <2> DEFINE Replayed(records) ==
                   UNION {{ToSet(r) : r \in ToSet(records[n]) \ {Torn}} :
                              n \in {k \in DOMAIN logs : k >= m.logNumber}}
               all == Replayed([n \in DOMAIN logs |-> logs[n].records])
               found == Replayed(kept)
    <2>1. g.entries \in all => g.entries \in found
        <3> SUFFICES ASSUME g.entries \in all PROVE g.entries \in found
            OBVIOUS
        <3>1. PICK n \in DOMAIN logs : n >= m.logNumber
                  /\ \E r \in ToSet(logs[n].records) : r # Torn /\ ToSet(r) = g.entries
            OBVIOUS
        <3>2. PICK r \in ToSet(logs[n].records) : r # Torn /\ ToSet(r) = g.entries
            BY <3>1
        <3>3. r \in ToSet(kept[n])
            BY <1>6, <1>7, <3>2
        <3> QED BY <3>1, <3>2, <3>3
    <2>2. hist' = {h \in hist : h.entries \notin all \ found}
                  \cup {[entries |-> es, behind |-> FALSE] : es \in found \ {h.entries : h \in hist}}
        BY <1>1 DEF Surviving
    <2> HIDE DEF all, found
    <2> QED BY <1>7, <2>1, <2>2
<1>11. SyncedOK'
    <2>1. \A g \in Lasting(synced) : g.entries # {} /\ g.entries \subseteq Entry
        BY DEF SyncedOK
    <2> QED BY <1>3, <1>6, <1>10, <2>1 DEF SyncedOK
<1> QED BY <1>2, <1>6, <1>9, <1>11

LEMMA OpenedStep == ASSUME DurableInv, Opened PROVE DurableInv'
<1>1. /\ running = "opening" /\ running' = "open"
      /\ manifest' = {Apply(WriteSnapshot, edit)} /\ logNumber' = edit.logNumber /\ edit' = None
      /\ \/ logs' = logs
         \/ logs' = Restrict(logs, {n \in DOMAIN logs : n >= logNumber'})
      /\ request' = request /\ writers' = writers /\ group' = group
      /\ logfile' = logfile /\ lastSequence' = lastSequence /\ nextFile' = nextFile
      /\ hist' = hist /\ synced' = synced
    BY DEF Opened, AppendVersionTo, DeleteObsoleteFiles, writing, history
<1>2. \A m \in manifest' : /\ m.logNumber = edit.logNumber /\ m.nextFile = edit.nextFile
                           /\ m.lastSequence = edit.lastSequence
    BY <1>1 DEF Apply
<1> QED BY <1>1, <1>2, RecordStep

\* The entries of the logs from number first on.
LoggedFrom(files, first) ==
    UNION {UNION {ToSet(r) : r \in ToSet(files[n].records)} :
               n \in {k \in DOMAIN files : k >= first}}

LEMMA SeqOver ==
    ASSUME NEW T, NEW s \in Seq(T), NEW all, \A i \in 1..Len(s) : s[i] \in all
    PROVE  s \in Seq(all)
OBVIOUS

LEMMA RecordsOver ==
    ASSUME NEW records \in Seq(Record), NEW all, \A r \in ToSet(records) : ToSet(r) \subseteq all
    PROVE  records \in Seq(Seq(all))
<1>1. ASSUME NEW i \in 1..Len(records) PROVE records[i] \in Seq(all)
    <2>1. records[i] \in Seq(Entry) /\ records[i] \in ToSet(records)
        BY DEF Record, ToSet
    <2>2. \A j \in 1..Len(records[i]) : records[i][j] \in all
        BY <2>1 DEF ToSet
    <2> QED BY <2>1, <2>2, SeqOver
<1> HIDE DEF Record
<1> QED BY <1>1, SeqOver

\* What a recovery makes of the logs, by the manifest it reads.
LEMMA RecoveryFacts ==
    ASSUME FilesOK(logs), ManifestOK, NEW m \in manifest, NEW replayed, NEW start,
           replayed = {n \in DOMAIN logs : n >= m.logNumber},
           start = [mem |-> {}, files |-> {}, next |-> FirstFree(m)]
    PROVE  /\ FirstFree(m) \in Nat /\ FirstFree(m) > m.logNumber /\ FirstFree(m) > m.nextFile
           /\ RecoverLogFiles(replayed, start) \in
                  Work(FirstFree(m), FirstFree(m), LoggedFrom(logs, m.logNumber))
           /\ \A n \in replayed : RecoverLogFiles(replayed, start).next > n
<1>1. PICK free, all : free = FirstFree(m) /\ all = LoggedFrom(logs, m.logNumber)
    OBVIOUS
<1>2. m.logNumber \in Nat /\ m.nextFile \in Nat /\ m.logNumber < m.nextFile
    BY DEF ManifestOK, RecordOK, Backed
<1>3. free \in Nat /\ free > m.logNumber /\ free > m.nextFile /\ free > 0 /\ free <= free
    BY <1>1, <1>2 DEF FirstFree
<1>4. PICK b \in Nat : \A n \in DOMAIN logs : n <= b /\ SeqsUpTo(logs[n].records, b)
    BY DEF FilesOK
<1>5. replayed \in SUBSET 0..b /\ \A n \in replayed : logs[n].records \in Seq(Seq(all))
    <2>1. \A n \in DOMAIN logs : n \in Nat /\ n <= b /\ logs[n].records \in Seq(Record)
        BY <1>4, LogFacts
    <2>2. ASSUME NEW n \in replayed PROVE logs[n].records \in Seq(Seq(all))
        <3>1. logs[n].records \in Seq(Record) /\ n \in {k \in DOMAIN logs : k >= m.logNumber}
            BY <2>1
        <3>2. \A r \in ToSet(logs[n].records) : ToSet(r) \subseteq all
            BY <1>1, <3>1 DEF LoggedFrom
        <3> QED BY <3>1, <3>2, RecordsOver
    <2> QED BY <2>1, <2>2
<1>6. start \in Work(free, free, all)
    <2>1. NumberedFrom({}, free, free)
        BY FS_EmptySet DEF NumberedFrom
    <2> QED BY <1>1, <1>3, <2>1, WorkMade
<1>7. /\ RecoverLogFiles(replayed, start) \in Work(free, free, all)
      /\ \A n \in replayed : RecoverLogFiles(replayed, start).next > n
    BY <1>3, <1>4, <1>5, <1>6, RecoverLogFilesFacts
<1> QED BY <1>1, <1>3, <1>7

\* The greatest sequence number a recovery finds.
LEMMA GreatestLogged ==
    ASSUME FilesOK(logs), NEW last \in Nat, NEW replayed \in SUBSET DOMAIN logs, NEW seqs,
           seqs = UNION {{e.seq : e \in UNION {ToSet(r) : r \in ToSet(logs[n].records)}} :
                             n \in replayed},
           NEW top, top = Max({last} \cup seqs)
    PROVE  /\ top \in Nat /\ last <= top
           /\ \A n \in replayed : \A r \in ToSet(logs[n].records) : \A e \in ToSet(r) :
                  e.seq <= top
<1>1. PICK b \in Nat : \A n \in DOMAIN logs : n <= b /\ SeqsUpTo(logs[n].records, b)
    BY DEF FilesOK
<1>2. \A n \in replayed : \A r \in ToSet(logs[n].records) : \A e \in ToSet(r) : e.seq \in seqs
    OBVIOUS
<1>3. \A x \in seqs : x \in Nat /\ x <= b
    <2> SUFFICES ASSUME NEW n \in DOMAIN logs, NEW r \in ToSet(logs[n].records), NEW e \in ToSet(r)
                 PROVE  e.seq \in Nat /\ e.seq <= b
        OBVIOUS
    <2> QED BY <1>1, LogFacts DEF SeqsUpTo
<1> DEFINE all == {last} \cup seqs
<1>4. PICK c \in Nat : c = b + last
    OBVIOUS
<1>5. all \in SUBSET 0..c /\ all # {} /\ all \in SUBSET Nat
    BY <1>3, <1>4
<1> HIDE DEF all
<1>6. \E x \in all : \A y \in all : y <= x
    BY <1>5, GreatestNumber
<1>7. \A x, y \in all : y <= x <=> x >= y
    BY <1>5
<1>8. \E x \in all : \A y \in all : x >= y
    BY <1>6, <1>7
<1>9. top \in all /\ \A y \in all : top >= y
    BY <1>8 DEF Max, all
<1>10. top \in Nat /\ \A y \in all : y <= top
    BY <1>5, <1>7, <1>9
<1> QED BY <1>2, <1>10 DEF all

\* A recovery reads every log the manifest names, and counts on from what it read.
LEMMA RecoverStep == ASSUME DurableInv, Recover PROVE DurableInv'
<1> USE DEF DurableInv
<1> DEFINE Start(m) == [mem |-> {}, files |-> {}, next |-> FirstFree(m)]
           Replayed(m) == {n \in DOMAIN logs : n >= m.logNumber}
           Seqs(m) == UNION {{e.seq : e \in UNION {ToSet(r) : r \in ToSet(logs[n].records)}} :
                                 n \in Replayed(m)}
<1>0. PICK m \in manifest :
          /\ logNumber' = m.logNumber
          /\ lastSequence' = Max({m.lastSequence} \cup Seqs(m))
          /\ logfile' = RecoverLogFiles(Replayed(m), Start(m)).next
          /\ nextFile' = RecoverLogFiles(Replayed(m), Start(m)).next + 1
          /\ logs' = Written(logs, RecoverLogFiles(Replayed(m), Start(m)).next, EmptyLog)
          /\ edit' = [deleted |-> NoFiles,
                      added |-> [NoFiles EXCEPT ![0] = RecoverLogFiles(Replayed(m), Start(m)).files],
                      logNumber |-> RecoverLogFiles(Replayed(m), Start(m)).next,
                      nextFile |-> RecoverLogFiles(Replayed(m), Start(m)).next + 1,
                      lastSequence |-> lastSequence', pointer |-> <<0, NoEntry>>]
    BY ZenonT(60) DEF Recover, RecoverVersions
<1>1. /\ logNumber' = m.logNumber
      /\ lastSequence' = Max({m.lastSequence} \cup Seqs(m))
      /\ logfile' = RecoverLogFiles(Replayed(m), Start(m)).next
      /\ nextFile' = RecoverLogFiles(Replayed(m), Start(m)).next + 1
      /\ logs' = Written(logs, RecoverLogFiles(Replayed(m), Start(m)).next, EmptyLog)
      /\ edit'.logNumber = RecoverLogFiles(Replayed(m), Start(m)).next
      /\ edit'.nextFile = RecoverLogFiles(Replayed(m), Start(m)).next + 1
      /\ edit'.lastSequence = lastSequence'
    <2> HIDE DEF Seqs, Start, Replayed
    <2> QED BY <1>0
<1>2. /\ running = "down" /\ running' = "opening" /\ manifest' = manifest /\ request' = request
      /\ writers' = writers /\ group' = group /\ flush' = flush /\ compaction' = compaction
      /\ scheduled' = scheduled /\ readers' = readers /\ hist' = hist /\ synced' = synced
    BY DEF Recover, writing, reading, background, history
<1>3. RecordOK(m, logs, Lasting(synced)) /\ \A k \in manifest : k = m
    BY <1>2 DEF ManifestOK
<1>4. PICK first, last : first = m.logNumber /\ last = m.lastSequence
    OBVIOUS
<1>5. /\ Backed(logs, Lasting(synced), first, last) /\ first \in Nat /\ last \in Nat
      /\ m.nextFile \in Nat /\ first < m.nextFile
    BY <1>3, <1>4 DEF RecordOK, Backed
<1>6. PICK b \in Nat : \A n \in DOMAIN logs : n <= b /\ SeqsUpTo(logs[n].records, b)
    BY DEF FilesOK
<1>7. PICK replayed : replayed = Replayed(m)
    OBVIOUS
<1>8. /\ replayed \in SUBSET 0..b /\ \A n : n \in replayed <=> n \in DOMAIN logs /\ n >= first
      /\ \A n \in replayed : logs[n].records \in Seq(Record)
    <2>1. \A n : n \in replayed <=> n \in DOMAIN logs /\ n >= first
        BY <1>4, <1>7
    <2>2. \A n \in DOMAIN logs : n \in Nat /\ n <= b /\ logs[n].records \in Seq(Record)
        BY <1>6, LogFacts
    <2> QED BY <2>1, <2>2
<1>9. PICK free : free = FirstFree(m)
    OBVIOUS
<1>10. free \in Nat /\ free > first /\ free > 0
    BY <1>4, <1>5, <1>9 DEF FirstFree
<1>11. PICK start : start = Start(m)
    OBVIOUS
<1>12. /\ RecoverLogFiles(replayed, start) \in Work(free, free, LoggedFrom(logs, m.logNumber))
       /\ \A n \in replayed : RecoverLogFiles(replayed, start).next > n
    BY <1>7, <1>9, <1>11, RecoveryFacts
<1>13. PICK k : k = RecoverLogFiles(replayed, start).next
    OBVIOUS
<1>14. k \in Nat /\ k >= free /\ \A n \in replayed : k > n
    BY <1>10, <1>12, <1>13, WorkFacts
<1>15. PICK top : top = Max({m.lastSequence} \cup Seqs(m))
    OBVIOUS
<1>16. /\ logNumber' = first /\ lastSequence' = top /\ logfile' = k /\ nextFile' = k + 1
       /\ logs' = Written(logs, k, EmptyLog)
       /\ edit'.logNumber = k /\ edit'.nextFile = k + 1 /\ edit'.lastSequence = top
    BY <1>1, <1>4, <1>7, <1>11, <1>13, <1>15
<1>17. /\ top \in Nat /\ last <= top
       /\ \A n \in replayed : \A r \in ToSet(logs[n].records) : \A e \in ToSet(r) : e.seq <= top
    <2>1. replayed \in SUBSET DOMAIN logs
        BY <1>7
    <2>2. PICK seqs : seqs = Seqs(m)
        OBVIOUS
    <2>3. seqs = UNION {{e.seq : e \in UNION {ToSet(r) : r \in ToSet(logs[n].records)}} :
                            n \in replayed}
        BY <1>7, <2>2
    <2> HIDE DEF Seqs, Start, Replayed
    <2>4. top = Max({last} \cup seqs)
        BY <1>4, <1>15, <2>2
    <2> QED BY <1>5, <2>1, <2>3, <2>4, GreatestLogged
<1> HIDE DEF Seqs, Start, Replayed
<1>20. \A n \in DOMAIN logs : n < k /\ n \in Nat
    <2>1. \A n \in DOMAIN logs : n \in Nat /\ (n < first \/ n \in replayed)
        BY <1>5, <1>8 DEF FilesOK
    <2> QED BY <1>5, <1>10, <1>14, <2>1
<1>21. /\ FilesOK(logs')
       /\ DOMAIN logs' = DOMAIN logs \cup {k}
       /\ ToSet(logs'[k].records) = {}
       /\ \A n \in DOMAIN logs : logs'[n] = logs[n]
       /\ \A es : Safe(logs, es) => Safe(logs', es)
    <2>1. k \notin DOMAIN logs
        BY <1>14, <1>20
    <2>2. PICK files2 : files2 = Written(logs, k, EmptyLog)
        OBVIOUS
    <2>3. FilesOK(logs)
        OBVIOUS
    <2>4. /\ FilesOK(files2)
          /\ DOMAIN files2 = DOMAIN logs \cup {k}
          /\ ToSet(files2[k].records) = {}
          /\ \A n \in DOMAIN logs : files2[n] = logs[n]
          /\ \A es : Safe(logs, es) => Safe(files2, es)
        BY <1>14, <2>1, <2>2, <2>3, NewLogFacts
    <2>5. logs' = files2
        BY <1>16, <2>2
    <2> QED BY <2>4, <2>5
\* Every number in a log is counted.
<1>22. ASSUME NEW n \in DOMAIN logs, NEW r \in ToSet(logs[n].records), NEW e \in ToSet(r)
       PROVE  e.seq <= top
    <2>1. CASE n \in replayed
        BY <1>17, <2>1
    <2>2. CASE n \notin replayed
        <3>1. n < first
            BY <1>5, <1>8, <1>20, <2>2
        <3>2. e.seq <= last
            BY <1>5, <3>1 DEF Backed, SeqsUpTo
        <3>3. e.seq \in Nat
            BY LogFacts
        <3> QED BY <1>5, <1>17, <3>2, <3>3
    <2> QED BY <2>1, <2>2
<1>23. ASSUME NEW g \in Lasting(synced), NEW e \in g.entries PROVE e.seq <= top
    <2>1. CASE \A d \in g.entries : d.seq <= last
        <3>1. e.seq \in Nat /\ e.seq <= last
            BY <2>1 DEF SyncedOK, Entry
        <3> QED BY <1>5, <1>17, <3>1
    <2>2. CASE \E n \in DOMAIN logs :
                   n >= first /\ \E r \in ToSet(logs[n].records) : ToSet(r) = g.entries
        BY <1>22, <2>2
    <2> QED BY <1>5, <2>1, <2>2 DEF Backed
<1>24. Backed(logs', Lasting(synced), first, last)
    <2>1. \A n \in DOMAIN logs' : n < first => n # k
        BY <1>5, <1>10, <1>14
    <2> QED BY <1>5, <1>21, <2>1, BackedTransfer
<1>25. Backed(logs', Lasting(synced), k, top)
    <2>1. ASSUME NEW n \in DOMAIN logs' PROVE SeqsUpTo(logs'[n].records, top)
        BY <1>21, <1>22 DEF SeqsUpTo
    <2> QED BY <1>14, <1>17, <1>23, <2>1 DEF Backed
<1>26. QueueOK'
    BY <1>2 DEF QueueOK
<1>27. IdleOK' /\ GroupOK'
    BY <1>2 DEF IdleOK, GroupOK
<1>28. NumbersOK'
    <2>1. k + 1 \in Nat /\ k < k + 1 /\ first <= k /\ k <= k /\ \A n \in DOMAIN logs' : n <= k
        BY <1>5, <1>10, <1>14, <1>20, <1>21
    <2>2. \A j \in manifest' : j.logNumber <= k
        BY <1>2, <1>3, <1>4, <2>1
    <2> QED BY <1>5, <1>14, <1>16, <1>17, <1>21, <2>1, <2>2 DEF NumbersOK
<1>29. CountsOK'
    <2>1. Counted(logs', logfile', Pending', top)
        BY <1>21, <1>22 DEF Counted
    <2>2. \A g \in Lasting(synced') : \A e \in g.entries : e.seq <= top
        BY <1>2, <1>23
    <2> QED BY <1>16, <2>1, <2>2 DEF CountsOK
<1>30. ManifestOK'
    <2>1. RecordOK(m, logs', Lasting(synced))
        BY <1>4, <1>5, <1>24 DEF RecordOK
    <2>2. RecordOK(edit', logs', Lasting(synced))
        BY <1>14, <1>16, <1>25 DEF RecordOK
    <2> QED BY <1>2, <1>3, <2>1, <2>2 DEF ManifestOK
<1>31. SyncedOK'
    BY <1>2, <1>21 DEF SyncedOK
<1> QED BY <1>21, <1>26, <1>27, <1>28, <1>29, <1>30, <1>31

-----------------------------------------------------------------------------
LEMMA DurableInit == ASSUME Init PROVE DurableInv
<1> USE DEF Init
<1>1. DOMAIN logs = {} /\ logs = [n \in {} |-> logs[n]]
    OBVIOUS
<1>2. FilesOK(logs)
    <2>1. logs \in [DOMAIN logs -> Log] /\ DOMAIN logs \subseteq Nat
        BY <1>1
    <2>2. \A n \in DOMAIN logs : FALSE
        BY <1>1
    <2> QED BY <2>1, <2>2 DEF FilesOK
<1>3. QueueOK
    <2>1. <<>> \in Seq(Thread) /\ Len(<<>>) = 0
        BY EmptySeq
    <2> QED BY <2>1 DEF QueueOK
<1>4. IdleOK /\ GroupOK /\ NumbersOK /\ CountsOK
    BY DEF IdleOK, GroupOK, NumbersOK, CountsOK, Running
<1>5. Lasting(synced) = {}
    BY DEF Lasting
<1>6. ManifestOK
    <2>1. RecordOK(NewDB, logs, {})
        BY <1>1 DEF RecordOK, Backed, NewDB
    <2> QED BY <1>5, <2>1 DEF ManifestOK
<1>7. SyncedOK
    BY <1>5 DEF SyncedOK
<1> QED BY <1>2, <1>3, <1>4, <1>6, <1>7 DEF DurableInv

LEMMA DurableNext == ASSUME DurableInv, [Next]_vars PROVE DurableInv'
<1>1. CASE \E t \in Thread, b \in Batch, sync \in BOOLEAN : Write(t, b, sync)
    BY <1>1, WriteStep, Bounds
<1>2. CASE \E t \in Thread : Write(t, <<>>, FALSE)
    <2>1. <<>> \in Seq(Operation) /\ FALSE \in BOOLEAN
        BY EmptySeq
    <2> QED BY <1>2, <2>1, WriteStep
<1>3. CASE \E t \in Thread : Lead(t)
    BY <1>3, LeadGroupStep, LeaderFailsStep DEF Lead
<1>4. CASE GroupStep
    BY <1>4, AddRecordStep, SyncStep, InsertEntryStep, FinishWriteStep DEF GroupStep
<1>5. CASE \/ \E h \in Handle : GetSnapshot(h) \/ ReleaseSnapshot(h)
           \/ \E r \in Reader, s \in 0..MaxSeq : BeginRead(r, s)
           \/ \E r \in Reader : EndRead(r)
    BY <1>5, ReaderStep
<1>6. CASE \/ \E l \in 0..(NumLevels - 2), range \in Ranges : RequestRange(l, range[1], range[2])
           \/ ArmManual \/ RangeReturns
    BY <1>6, ManualStep
<1>7. CASE Background
    BY <1>7, FlushStep, StartTurnStep, CompactStep, CompactionInstalledStep, NullManualStep
       DEF Background, Compact
<1>8. CASE Recover \/ Opened
    BY <1>8, RecoverStep, OpenedStep
<1>9. CASE Faults
    BY <1>9, AddRecordFailsStep, SyncFailsStep, FlushFailsStep, CompactionFailsStep, OpenFailsStep,
       CrashStep DEF Faults
<1>10. CASE UNCHANGED vars
    BY <1>10, FrameStep DEF vars, disk, writing, memory, versions, reading, background, history
<1> QED BY <1>1, <1>2, <1>3, <1>4, <1>5, <1>6, <1>7, <1>8, <1>9, <1>10 DEF Next

\* What was acknowledged to a writer that asked for sync is kept, whatever fails
\* or crashes later, unless a torn record lay before it in its log
\* (DBImpl::Write, RecoverLogFile, LogAndApply, DeleteObsoleteFiles).
THEOREM SyncedWritesAreKept == Spec => []Durable
<1>1. DurableInv => Durable
    BY DEF DurableInv, SyncedOK, Lasting, Durable
<1> QED BY <1>1, DurableInit, DurableNext, PTL DEF Spec

-----------------------------------------------------------------------------
\* The invariant of the tables.
\*
\* The files are on disk with the contents that are meant, under numbers below n.
StoredFiles(disc, files, n) ==
    /\ IsFiniteSet(files)
    /\ \A f \in files : /\ f.number \in Nat /\ f.number < n
                        /\ f.number \in DOMAIN disc /\ disc[f.number] = f.entries
Stored(disc, version, n) == \A l \in Level : StoredFiles(disc, version[l], n)
Absent(number, version) == \A l \in Level : \A f \in version[l] : f.number # number

ManifestStored == \A m \in manifest : Stored(tables, m.version, m.nextFile)
EditStored ==
    edit # None \/ running = "opening" =>
        /\ Stored(tables, edit.added, edit.nextFile)
        /\ edit.nextFile <= nextFile
        /\ \A m \in manifest : m.nextFile <= edit.nextFile
        /\ running = "opening" => Stored(tables, current, edit.nextFile)
CurrentStored ==
    Running => /\ Stored(tables, current, nextFile)
               /\ \A m \in manifest : m.nextFile <= nextFile
ReadersStored ==
    /\ DOMAIN readers = Reader
    /\ \A r \in Reader : readers[r] # None => Stored(tables, readers[r].version, nextFile)
OutputsStored ==
    compaction # None =>
        /\ StoredFiles(tables, compaction.outputs, nextFile)
        /\ \A f \in compaction.outputs : f.number \in pendingOutputs

\* The number of a table that a flush is to write is nobody else's.
FlushApart ==
    flush # None =>
        /\ flush \in Nat /\ flush < nextFile
        /\ compaction # None =>
               /\ compaction.step = "work"
               /\ \A f \in compaction.outputs : f.number # flush
        /\ edit = None =>
               /\ Absent(flush, current)
               /\ \A m \in manifest : Absent(flush, m.version)
               /\ \A r \in Reader : readers[r] # None => Absent(flush, readers[r].version)

\* Files are removed by what the process holds: that is what the manifest holds,
\* as long as no record failed.
HeldIsWritten ==
    running = "open" /\ ~bgError => \A m \in manifest : m.version = current

TablesInv ==
    /\ ManifestStored /\ EditStored /\ CurrentStored /\ ReadersStored /\ OutputsStored
    /\ FlushApart /\ HeldIsWritten

LEMMA FilesStay ==
    ASSUME NEW disc, NEW disc2, NEW files, NEW n \in Nat, NEW n2 \in Nat, n <= n2,
           StoredFiles(disc, files, n),
           \A f \in files : f.number \in DOMAIN disc =>
               f.number \in DOMAIN disc2 /\ disc2[f.number] = disc[f.number]
    PROVE  StoredFiles(disc2, files, n2)
BY DEF StoredFiles

LEMMA VersionStays ==
    ASSUME NEW disc, NEW disc2, NEW version, NEW n \in Nat, NEW n2 \in Nat, n <= n2,
           Stored(disc, version, n),
           \A l \in Level : \A f \in version[l] : f.number \in DOMAIN disc =>
               f.number \in DOMAIN disc2 /\ disc2[f.number] = disc[f.number]
    PROVE  Stored(disc2, version, n2)
BY FilesStay DEF Stored

LEMMA StoredApart ==
    ASSUME NEW disc, NEW version, NEW n \in Nat, Stored(disc, version, n), NEW k \in Nat, n <= k
    PROVE  Absent(k, version)
BY DEF Stored, StoredFiles, Absent

LEMMA StoredSaveTo ==
    ASSUME NEW disc, NEW n, NEW version, NEW deleted, NEW added,
           Stored(disc, version, n), Stored(disc, added, n)
    PROVE  Stored(disc, SaveTo(version, deleted, added), n)
<1> SUFFICES ASSUME NEW l \in Level
             PROVE  StoredFiles(disc, (version[l] \ deleted[l]) \cup added[l], n)
    BY DEF Stored, SaveTo
<1>1. StoredFiles(disc, version[l], n) /\ StoredFiles(disc, added[l], n)
    BY DEF Stored
<1>2. IsFiniteSet(version[l] \ deleted[l])
    BY <1>1, FS_Difference DEF StoredFiles
<1>3. IsFiniteSet((version[l] \ deleted[l]) \cup added[l])
    BY <1>1, <1>2, FS_Union DEF StoredFiles
<1> QED BY <1>1, <1>3 DEF StoredFiles

\* A version whose numbers are all live keeps its files.
LEMMA StoredRestrict ==
    ASSUME NEW disc, NEW live, NEW version, NEW n \in Nat,
           Stored(disc, version, n), Numbers(version) \subseteq live
    PROVE  Stored(Restrict(disc, live \cap DOMAIN disc), version, n)
<1>1. PICK disc2 : disc2 = Restrict(disc, live \cap DOMAIN disc)
    OBVIOUS
<1>2. /\ DOMAIN disc2 = live \cap DOMAIN disc
      /\ \A k \in DOMAIN disc2 : disc2[k] = disc[k]
    BY <1>1 DEF Restrict
<1>3. \A l \in Level : \A f \in version[l] : f.number \in live
    BY DEF Numbers
<1>4. Stored(disc2, version, n)
    BY <1>2, <1>3, VersionStays
<1> QED BY <1>1, <1>4

\* Files of no level, or of one.
LEMMA StoredOne ==
    ASSUME NEW disc, NEW files, NEW n, NEW l, StoredFiles(disc, files, n)
    PROVE  Stored(disc, [NoFiles EXCEPT ![l] = files], n) /\ Stored(disc, NoFiles, n)
<1>1. StoredFiles(disc, {}, n)
    BY FS_EmptySet DEF StoredFiles
<1>2. \A k \in Level : NoFiles[k] = {} /\ [NoFiles EXCEPT ![l] = files][k] \in {{}, files}
    BY DEF NoFiles
<1> QED BY <1>1, <1>2 DEF Stored

-----------------------------------------------------------------------------
\* A file that a manifest, the current version or a reader refers to.
Used(number) ==
    \/ \E m \in manifest : ~Absent(number, m.version)
    \/ Running /\ ~Absent(number, current)
    \/ \E r \in Reader : readers[r] # None /\ ~Absent(number, readers[r].version)

\* What the frames need: the bounds are numbers.
BoundsOK ==
    /\ \A m \in manifest : m.nextFile \in Nat
    /\ Running => nextFile \in Nat
    /\ edit # None \/ running = "opening" => edit.nextFile \in Nat
    /\ ~Running => \A r \in Reader : readers[r] = None

LEMMA DurableBounds == DurableInv => BoundsOK
BY DEF DurableInv, BoundsOK, NumbersOK, ManifestOK, RecordOK, IdleOK, Running

\* Steps that install no version and remove no file.
LEMMA HeldStay ==
    ASSUME TablesInv, BoundsOK, UNCHANGED <<manifest, running, current>>,
           nextFile' = nextFile \/ (Running /\ nextFile' = nextFile + 1),
           DOMAIN readers' = DOMAIN readers,
           \A r \in Reader : readers'[r] # None =>
               \/ running = "open" /\ readers'[r].version = current
               \/ readers[r] # None /\ readers'[r].version = readers[r].version,
           \A k \in DOMAIN tables : Used(k) => k \in DOMAIN tables' /\ tables'[k] = tables[k]
    PROVE  ManifestStored' /\ CurrentStored' /\ ReadersStored'
<1> USE DEF TablesInv
<1>1. ManifestStored'
    <2> SUFFICES ASSUME NEW m \in manifest PROVE Stored(tables', m.version, m.nextFile)
        BY DEF ManifestStored
    <2>1. m.nextFile \in Nat /\ Stored(tables, m.version, m.nextFile)
        BY DEF BoundsOK, ManifestStored
    <2>2. \A l \in Level : \A f \in m.version[l] : Used(f.number)
        BY DEF Used, Absent
    <2> QED BY <2>1, <2>2, VersionStays
<1>2. Running => nextFile \in Nat /\ nextFile' \in Nat /\ nextFile <= nextFile'
    BY DEF BoundsOK
<1>3. Running => Stored(tables', current, nextFile')
    <2> SUFFICES ASSUME Running PROVE Stored(tables', current, nextFile')
        OBVIOUS
    <2>1. Stored(tables, current, nextFile)
        BY DEF CurrentStored
    <2>2. \A l \in Level : \A f \in current[l] : Used(f.number)
        BY DEF Used, Absent
    <2> QED BY <1>2, <2>1, <2>2, VersionStays
<1>4. CurrentStored'
    <2>1. Running' <=> Running
        BY DEF Running
    <2>2. Running => \A m \in manifest : m.nextFile <= nextFile'
        BY <1>2 DEF CurrentStored, BoundsOK
    <2> QED BY <1>3, <2>1, <2>2 DEF CurrentStored
<1>5. ReadersStored'
    <2> SUFFICES ASSUME NEW r \in Reader, readers'[r] # None
                 PROVE  Stored(tables', readers'[r].version, nextFile')
        BY DEF ReadersStored
    <2>1. CASE running = "open" /\ readers'[r].version = current
        BY <1>3, <2>1 DEF Running
    <2>2. CASE readers[r] # None /\ readers'[r].version = readers[r].version
        <3>1. Running /\ Stored(tables, readers[r].version, nextFile)
            BY <2>2 DEF BoundsOK, ReadersStored
        <3>2. \A l \in Level : \A f \in readers[r].version[l] : Used(f.number)
            BY <2>2 DEF Used, Absent
        <3> QED BY <1>2, <2>2, <3>1, <3>2, VersionStays
    <2> QED BY <2>1, <2>2
<1> QED BY <1>1, <1>4, <1>5

LEMMA TablesFrame ==
    ASSUME TablesInv, BoundsOK,
           UNCHANGED <<tables, manifest, edit, running, current, flush, compaction, pendingOutputs>>,
           bgError => bgError',
           nextFile' = nextFile \/ (running = "open" /\ nextFile' = nextFile + 1),
           DOMAIN readers' = DOMAIN readers,
           \A r \in Reader : readers'[r] # None =>
               \/ running = "open" /\ readers'[r].version = current
               \/ readers[r] # None /\ readers'[r].version = readers[r].version
    PROVE  TablesInv'
<1>1. ManifestStored' /\ CurrentStored' /\ ReadersStored'
    BY HeldStay DEF Running
<1> USE DEF TablesInv
<1>2. running = "open" => nextFile \in Nat
    BY DEF BoundsOK, Running
<1>3. EditStored'
    <2>1. CASE nextFile' = nextFile
        BY <2>1 DEF EditStored
    <2>2. CASE running = "open" /\ nextFile' = nextFile + 1
        BY <1>2, <2>2 DEF EditStored, BoundsOK
    <2> QED BY <2>1, <2>2
<1>4. OutputsStored'
    <2>1. CASE nextFile' = nextFile
        BY <2>1 DEF OutputsStored
    <2>2. CASE running = "open" /\ nextFile' = nextFile + 1
        BY <1>2, <2>2, FilesStay DEF OutputsStored
    <2> QED BY <2>1, <2>2
<1>5. FlushApart'
    <2>1. flush # None => flush < nextFile'
        BY <1>2 DEF FlushApart
    <2> QED BY <2>1 DEF FlushApart
<1>6. HeldIsWritten'
    BY DEF HeldIsWritten
<1> QED BY <1>1, <1>3, <1>4, <1>5, <1>6

-----------------------------------------------------------------------------
\* The steps of a flush.
LEMMA UsedBelow ==
    ASSUME TablesInv, BoundsOK, Running, NEW k, Used(k)
    PROVE  k \in Nat /\ k < nextFile
<1> USE DEF TablesInv
<1>1. nextFile \in Nat
    BY DEF BoundsOK
<1>2. CASE \E m \in manifest : ~Absent(k, m.version)
    <2>1. PICK m \in manifest : ~Absent(k, m.version)
        BY <1>2
    <2>2. Stored(tables, m.version, m.nextFile) /\ m.nextFile \in Nat /\ m.nextFile <= nextFile
        BY DEF ManifestStored, CurrentStored, BoundsOK
    <2> QED BY <1>1, <2>1, <2>2 DEF Stored, StoredFiles, Absent
<1>3. CASE ~Absent(k, current)
    <2>1. Stored(tables, current, nextFile)
        BY DEF CurrentStored
    <2> QED BY <1>3, <2>1 DEF Stored, StoredFiles, Absent
<1>4. CASE \E r \in Reader : readers[r] # None /\ ~Absent(k, readers[r].version)
    <2>1. PICK r \in Reader : readers[r] # None /\ ~Absent(k, readers[r].version)
        BY <1>4
    <2>2. Stored(tables, readers[r].version, nextFile)
        BY <2>1 DEF ReadersStored
    <2> QED BY <2>1, <2>2 DEF Stored, StoredFiles, Absent
<1> QED BY <1>2, <1>3, <1>4 DEF Used

LEMMA CompactMemTableTables == ASSUME TablesInv, BoundsOK, IdleOK, CompactMemTable PROVE TablesInv'
<1> USE DEF TablesInv
<1>1. /\ running = "open" /\ Running /\ nextFile \in Nat /\ nextFile' = nextFile + 1
      /\ flush = None /\ flush' = nextFile /\ compaction' = compaction
      /\ compaction = None \/ compaction.step = "work"
      /\ pendingOutputs' = pendingOutputs \cup {nextFile}
      /\ tables' = tables /\ manifest' = manifest /\ edit' = edit /\ running' = running
      /\ current' = current /\ readers' = readers /\ bgError' = bgError
    BY DEF CompactMemTable, IdleOK, Running, BoundsOK, disk, reading
<1>2. ManifestStored' /\ CurrentStored' /\ ReadersStored'
    BY <1>1, HeldStay
<1>3. EditStored'
    BY <1>1 DEF EditStored, BoundsOK
<1>4. OutputsStored'
    <2>1. ASSUME compaction # None PROVE StoredFiles(tables, compaction.outputs, nextFile + 1)
        BY <1>1, <2>1, FilesStay DEF OutputsStored
    <2> QED BY <1>1, <2>1 DEF OutputsStored
<1>5. FlushApart'
    <2>1. \A k : Used(k) => k # nextFile
        BY <1>1, UsedBelow
    <2>2. Absent(nextFile, current) /\ \A m \in manifest : Absent(nextFile, m.version)
        BY <1>1, <2>1 DEF Used
    <2>3. \A r \in Reader : readers[r] # None => Absent(nextFile, readers[r].version)
        BY <2>1 DEF Used
    <2>4. compaction # None => \A f \in compaction.outputs : f.number # nextFile
        BY <1>1 DEF OutputsStored, StoredFiles
    <2> QED BY <1>1, <2>2, <2>3, <2>4 DEF FlushApart
<1>6. HeldIsWritten'
    BY <1>1 DEF HeldIsWritten
<1> QED BY <1>2, <1>3, <1>4, <1>5, <1>6

\* An edit is made: the files it adds are there.
LEMMA EditBegins ==
    ASSUME TablesInv, BoundsOK, running = "open", edit = None \/ flush = None,
           UNCHANGED <<manifest, running, current, readers, nextFile, bgError>>,
           \A k \in DOMAIN tables : Used(k) => k \in DOMAIN tables' /\ tables'[k] = tables[k],
           edit'.nextFile = nextFile, Stored(tables', edit'.added, nextFile),
           OutputsStored', flush' = flush,
           flush # None => compaction' = compaction
    PROVE  TablesInv'
<1> USE DEF TablesInv
<1>1. Running /\ nextFile \in Nat
    BY DEF Running, BoundsOK
<1>2. ManifestStored' /\ CurrentStored' /\ ReadersStored'
    BY HeldStay
<1>3. EditStored'
    BY <1>1 DEF EditStored, CurrentStored
<1>4. FlushApart'
    BY DEF FlushApart
<1>5. HeldIsWritten'
    BY DEF HeldIsWritten
<1> QED BY <1>2, <1>3, <1>4, <1>5

LEMMA WriteLevel0Tables == ASSUME TablesInv, BoundsOK, IdleOK, WriteLevel0Table PROVE TablesInv'
<1> USE DEF TablesInv
<1>1. /\ running = "open" /\ Running /\ flush # None /\ edit = None /\ flush' = flush
      /\ compaction' = compaction /\ pendingOutputs' = pendingOutputs \ {flush}
      /\ manifest' = manifest /\ running' = running /\ current' = current /\ readers' = readers
      /\ nextFile' = nextFile /\ bgError' = bgError
    BY DEF WriteLevel0Table, IdleOK, Running, versions, reading
<1>2. nextFile \in Nat /\ flush \in Nat /\ flush < nextFile
    BY <1>1 DEF BoundsOK, FlushApart
<1>3. PICK f : f = NewFile(flush, imm)
    OBVIOUS
<1>4. f.number = flush /\ f.entries = imm
    BY <1>3 DEF NewFile
<1>5. PICK e : e = [NoEdit EXCEPT !.logNumber = logfile]
    OBVIOUS
<1>6. e = [deleted |-> NoFiles, added |-> NoFiles, logNumber |-> logfile,
           nextFile |-> nextFile, lastSequence |-> lastSequence, pointer |-> <<0, NoEntry>>]
    BY <1>5 DEF NoEdit
<1>7. \/ edit' = e /\ tables' = tables
      \/ tables' = Written(tables, flush, imm) /\ \E l : edit' = [e EXCEPT !.added[l] = {f}]
    BY <1>3, <1>5 DEF WriteLevel0Table
<1>8. \A k \in DOMAIN tables : k # flush => k \in DOMAIN tables' /\ tables'[k] = tables[k]
    BY <1>7 DEF Written
<1>9. \A k : Used(k) => k # flush
    BY <1>1 DEF Used, FlushApart
<1>10. Stored(tables', edit'.added, nextFile) /\ edit'.nextFile = nextFile
    <2>1. CASE edit' = e
        <3>1. StoredFiles(tables', {}, nextFile)
            BY FS_EmptySet DEF StoredFiles
        <3> QED BY <1>6, <2>1, <3>1, StoredOne
    <2>2. CASE tables' = Written(tables, flush, imm) /\ \E l : edit' = [e EXCEPT !.added[l] = {f}]
        <3>1. PICK l : edit' = [e EXCEPT !.added[l] = {f}]
            BY <2>2
        <3>2. edit'.added = [NoFiles EXCEPT ![l] = {f}] /\ edit'.nextFile = nextFile
            BY <1>6, <3>1
        <3>3. flush \in DOMAIN tables' /\ tables'[flush] = imm
            BY <2>2 DEF Written
        <3>4. StoredFiles(tables', {f}, nextFile)
            BY <1>2, <1>4, <3>3, FS_Singleton DEF StoredFiles
        <3> QED BY <3>2, <3>4, StoredOne
    <2> QED BY <1>7, <2>1, <2>2
<1>11. OutputsStored'
    <2> SUFFICES ASSUME compaction # None
                 PROVE  /\ StoredFiles(tables', compaction.outputs, nextFile)
                        /\ \A g \in compaction.outputs : g.number \in pendingOutputs'
        BY <1>1 DEF OutputsStored
    <2>1. \A g \in compaction.outputs : g.number # flush
        BY <1>1 DEF FlushApart
    <2> QED BY <1>1, <1>2, <1>8, <2>1, FilesStay DEF OutputsStored
<1> QED BY <1>1, <1>8, <1>9, <1>10, <1>11, EditBegins

-----------------------------------------------------------------------------
\* The steps of a compaction.
LEMMA InputsOfLevel ==
    ASSUME NEW version, NEW level, NEW inputs \in SUBSET version[level]
    PROVE  /\ SetupOtherInputs(version, level, inputs).mine \in SUBSET version[level]
           /\ SetupOtherInputs(version, level, inputs).level = level
<1>1. \A lo, hi : GetOverlappingInputs(version, level, lo, hi) \in SUBSET version[level]
    BY DEF GetOverlappingInputs
<1> HIDE DEF GetOverlappingInputs
<1> QED BY <1>1 DEF SetupOtherInputs

\* Nothing but the compaction moves on.
LEMMA CompactionMoves ==
    ASSUME TablesInv, BoundsOK,
           UNCHANGED <<tables, manifest, edit, running, current, nextFile, readers>>,
           bgError => bgError', flush' = None, OutputsStored'
    PROVE  TablesInv'
<1>1. ManifestStored' /\ CurrentStored' /\ ReadersStored'
    BY HeldStay DEF TablesInv
<1>2. EditStored'
    BY DEF TablesInv, EditStored
<1>3. FlushApart' /\ HeldIsWritten'
    BY DEF TablesInv, FlushApart, HeldIsWritten
<1> QED BY <1>1, <1>2, <1>3 DEF TablesInv

LEMMA NoOutputs ==
    ASSUME compaction'.outputs = {}
    PROVE  OutputsStored'
<1>1. IsFiniteSet(compaction'.outputs)
    BY FS_EmptySet
<1> QED BY <1>1 DEF OutputsStored, StoredFiles

LEMMA StartTurnTables == ASSUME TablesInv, BoundsOK, IdleOK, StartTurn PROVE TablesInv'
<1>1. CASE CompactSomeFiles
    <2>1. /\ running = "open" /\ Running /\ flush = None /\ flush' = flush
          /\ tables' = tables /\ manifest' = manifest /\ running' = running /\ current' = current
          /\ readers' = readers /\ nextFile' = nextFile /\ bgError' = bgError
          /\ pendingOutputs' = pendingOutputs
        BY <1>1 DEF CompactSomeFiles, Turn, IdleOK, Running, memory, reading
    <2>2. PICK level \in 0..(NumLevels - 2) :
              \E f \in current[level] : \E c :
                  /\ c = PickCompaction(current, level, f)
                  /\ StartMove(c) \/ StartCompaction(c)
        BY <1>1 DEF CompactSomeFiles
    <2>3. PICK f \in current[level] :
              \E c : /\ c = PickCompaction(current, level, f)
                     /\ StartMove(c) \/ StartCompaction(c)
        BY <2>2
    <2>4. PICK c : c = PickCompaction(current, level, f) /\ (StartMove(c) \/ StartCompaction(c))
        BY <2>3
    <2>5. c.mine \in SUBSET current[level] /\ c.level = level
        <3>1. GetOverlappingInputs(current, 0, f.smallest.key, f.largest.key) \in SUBSET current[0]
            BY DEF GetOverlappingInputs
        <3>2. PICK inputs \in SUBSET current[level] : c = SetupOtherInputs(current, level, inputs)
            BY <2>4, <3>1 DEF PickCompaction
        <3> QED BY <3>2, InputsOfLevel
    <2>6. OutputsStored'
        <3>1. compaction'.outputs = {}
            BY <2>4 DEF StartMove, StartCompaction
        <3> QED BY <3>1, NoOutputs
    <2>7. CASE StartCompaction(c)
        BY <2>1, <2>6, <2>7, CompactionMoves DEF StartCompaction
    <2>8. CASE StartMove(c)
        <3>1. PICK e : e = [NoEdit EXCEPT !.deleted[c.level] = c.mine, !.added[c.level + 1] = c.mine,
                                          !.pointer = <<c.level, PointerAfter(c)>>]
            OBVIOUS
        <3>2. e.nextFile = nextFile /\ e.added = [NoFiles EXCEPT ![c.level + 1] = c.mine]
            BY <3>1 DEF NoEdit
        <3>3. edit' = e
            BY <2>8, <3>1 DEF StartMove
        <3>4. Stored(tables, current, nextFile) /\ level \in Level
            BY <2>1, Config DEF TablesInv, CurrentStored, Level
        <3>5. StoredFiles(tables, c.mine, nextFile)
            BY <2>5, <3>4, FS_Subset DEF Stored, StoredFiles
        <3>6. Stored(tables', edit'.added, nextFile)
            BY <2>1, <3>2, <3>3, <3>5, StoredOne
        <3> QED BY <2>1, <2>6, <3>2, <3>3, <3>6, EditBegins
    <2> QED BY <2>4, <2>7, <2>8
<1>2. CASE CompactRange
    <2>1. /\ running = "open" /\ flush = None /\ flush' = flush /\ compaction = None
          /\ tables' = tables /\ manifest' = manifest /\ running' = running /\ current' = current
          /\ readers' = readers /\ nextFile' = nextFile /\ bgError' = bgError
          /\ pendingOutputs' = pendingOutputs /\ edit' = edit
        BY <1>2 DEF CompactRange, StartCompaction, Turn, IdleOK, reading
    <2>2. compaction' = None \/ compaction'.outputs = {}
        BY <1>2, <2>1 DEF CompactRange, StartCompaction
    <2>3. OutputsStored'
        BY <2>2, NoOutputs DEF OutputsStored
    <2> QED BY <2>1, <2>3, CompactionMoves
<1>3. CASE NothingToDo
    BY <1>3, TablesFrame DEF NothingToDo, disk, reading
<1> QED BY <1>1, <1>2, <1>3 DEF StartTurn

LEMMA CompactionOutputTables == ASSUME TablesInv, BoundsOK, IdleOK, CompactionOutput PROVE TablesInv'
<1> USE DEF TablesInv
<1>1. PICK f : f = NewFile(nextFile, Head(compaction.todo))
    OBVIOUS
<1>2. f.number = nextFile
    BY <1>1 DEF NewFile
<1>3. /\ running = "open" /\ Running /\ compaction # None /\ nextFile' = nextFile + 1
      /\ tables' = Written(tables, nextFile, f.entries)
      /\ compaction'.outputs = compaction.outputs \cup {f}
      /\ pendingOutputs' = pendingOutputs \cup {nextFile} /\ flush = None /\ flush' = flush
      /\ manifest' = manifest /\ edit' = edit /\ running' = running /\ current' = current
      /\ readers' = readers /\ bgError' = bgError
    BY <1>1, <1>2 DEF CompactionOutput, IdleOK, Running, reading
<1>4. nextFile \in Nat
    BY <1>3 DEF BoundsOK
<1>5. /\ \A k \in DOMAIN tables : k # nextFile => k \in DOMAIN tables' /\ tables'[k] = tables[k]
      /\ nextFile \in DOMAIN tables' /\ tables'[nextFile] = f.entries
    BY <1>3 DEF Written
<1>6. \A k : Used(k) => k # nextFile
    BY <1>3, <1>4, UsedBelow
<1>7. ManifestStored' /\ CurrentStored' /\ ReadersStored'
    BY <1>3, <1>5, <1>6, HeldStay
<1>8. EditStored'
    <2> SUFFICES ASSUME edit # None
                 PROVE  /\ Stored(tables', edit.added, edit.nextFile) /\ edit.nextFile <= nextFile + 1
                        /\ \A m \in manifest : m.nextFile <= edit.nextFile
        BY <1>3 DEF EditStored
    <2>1. /\ Stored(tables, edit.added, edit.nextFile) /\ edit.nextFile \in Nat
          /\ edit.nextFile <= nextFile /\ \A m \in manifest : m.nextFile <= edit.nextFile
        BY DEF EditStored, BoundsOK
    <2>2. \A l \in Level : \A g \in edit.added[l] : g.number # nextFile
        BY <1>4, <2>1, StoredApart DEF Absent
    <2> QED BY <1>4, <1>5, <2>1, <2>2, VersionStays
<1>9. OutputsStored'
    <2>1. StoredFiles(tables, compaction.outputs, nextFile)
        BY <1>3 DEF OutputsStored
    <2>2. \A g \in compaction.outputs : g.number # nextFile
        BY <1>4, <2>1 DEF StoredFiles
    <2>3. StoredFiles(tables', compaction.outputs, nextFile + 1)
        BY <1>4, <1>5, <2>1, <2>2, FilesStay
    <2>4. IsFiniteSet(compaction.outputs \cup {f})
        BY <2>3, FS_AddElement DEF StoredFiles
    <2>5. StoredFiles(tables', compaction.outputs \cup {f}, nextFile + 1)
        BY <1>2, <1>4, <1>5, <2>3, <2>4 DEF StoredFiles
    <2> QED BY <1>2, <1>3, <2>5 DEF OutputsStored
<1>10. FlushApart' /\ HeldIsWritten'
    BY <1>3 DEF FlushApart, HeldIsWritten
<1> QED BY <1>7, <1>8, <1>9, <1>10

LEMMA InstallTables == ASSUME TablesInv, BoundsOK, IdleOK, InstallCompactionResults PROVE TablesInv'
<1>1. PICK c : c = compaction.inputs
    OBVIOUS
<1>2. PICK e : e = [NoEdit EXCEPT !.deleted[c.level] = c.mine, !.deleted[c.level + 1] = c.theirs,
                                  !.added[c.level + 1] = compaction.outputs,
                                  !.pointer = <<c.level, PointerAfter(c)>>]
    OBVIOUS
<1>3. e.nextFile = nextFile /\ e.added = [NoFiles EXCEPT ![c.level + 1] = compaction.outputs]
    BY <1>2 DEF NoEdit
<1>4. /\ running = "open" /\ Running /\ compaction # None /\ flush = None /\ flush' = flush
      /\ compaction'.outputs = compaction.outputs
      /\ tables' = tables /\ pendingOutputs' = pendingOutputs
      /\ manifest' = manifest /\ running' = running /\ current' = current
      /\ readers' = readers /\ nextFile' = nextFile /\ bgError' = bgError
    BY DEF InstallCompactionResults, IdleOK, Running, versions, reading
<1>5. edit' = e
    BY <1>1, <1>2 DEF InstallCompactionResults
<1>6. StoredFiles(tables, compaction.outputs, nextFile)
    BY <1>4 DEF TablesInv, OutputsStored
<1>7. Stored(tables', edit'.added, nextFile)
    BY <1>3, <1>4, <1>5, <1>6, StoredOne
<1>8. OutputsStored'
    BY <1>4 DEF TablesInv, OutputsStored
<1> QED BY <1>3, <1>4, <1>5, <1>7, <1>8, EditBegins

-----------------------------------------------------------------------------
\* Records of the manifest.
LEMMA OutcomesStored ==
    ASSUME TablesInv, BoundsOK, NEW m \in Outcomes
    PROVE  /\ m.nextFile \in Nat /\ Stored(tables, m.version, m.nextFile)
           /\ Running => m.nextFile <= nextFile
<1> USE DEF TablesInv
<1>1. CASE m \in manifest
    BY <1>1 DEF ManifestStored, BoundsOK, CurrentStored
<1>2. CASE edit # None /\ \E k \in manifest : m = Apply(k, edit)
    <2>1. PICK k \in manifest : m = Apply(k, edit)
        BY <1>2
    <2>2. m.nextFile = edit.nextFile /\ m.version = SaveTo(k.version, edit.deleted, edit.added)
        BY <2>1 DEF Apply
    <2>3. /\ edit.nextFile \in Nat /\ Stored(tables, edit.added, edit.nextFile)
          /\ edit.nextFile <= nextFile /\ k.nextFile <= edit.nextFile /\ k.nextFile \in Nat
        BY <1>2 DEF EditStored, BoundsOK
    <2>4. Stored(tables, k.version, edit.nextFile)
        BY <2>3, VersionStays DEF ManifestStored
    <2> QED BY <2>2, <2>3, <2>4, StoredSaveTo
<1> QED BY <1>1, <1>2 DEF Outcomes

\* A table or a record fails, and the record may be there.
LEMMA FailTables ==
    ASSUME TablesInv, BoundsOK, running = "open",
           manifest' \in {manifest, Outcomes}, edit' = None,
           UNCHANGED <<tables, running, current, nextFile, readers>>,
           bgError', flush' = None,
           compaction' = None \/ (compaction' = compaction /\ pendingOutputs' = pendingOutputs \ {flush}),
           compaction' = compaction => flush # None
    PROVE  TablesInv'
<1> USE DEF TablesInv
<1>1. Running /\ Running'
    BY DEF Running
<1>2. \A m \in manifest' : m \in Outcomes
    BY DEF Outcomes
<1>3. ManifestStored' /\ CurrentStored'
    BY <1>1, <1>2, OutcomesStored DEF ManifestStored, CurrentStored
<1>4. ReadersStored' /\ EditStored'
    BY DEF ReadersStored, EditStored
<1>5. OutputsStored'
    BY DEF OutputsStored, FlushApart
<1>6. FlushApart' /\ HeldIsWritten'
    BY DEF FlushApart, HeldIsWritten
<1> QED BY <1>3, <1>4, <1>5, <1>6

LEMMA FailsTables ==
    ASSUME TablesInv, BoundsOK, IdleOK, FlushFails \/ CompactionFails
    PROVE  TablesInv'
<1>1. CASE FlushFails
    <2>1. running = "open" /\ flush # None
        BY <1>1 DEF FlushFails, IdleOK
    <2>2. /\ manifest' \in {manifest, Outcomes} /\ edit' = None /\ tables' = tables
          /\ running' = running /\ current' = current /\ nextFile' = nextFile /\ readers' = readers
          /\ bgError' /\ flush' = None /\ compaction' = compaction
          /\ pendingOutputs' = pendingOutputs \ {flush}
        BY <1>1 DEF FlushFails, RecordFails, reading
    <2> QED BY <2>1, <2>2, FailTables
<1>2. CASE CompactionFails
    <2>1. running = "open" /\ flush = None /\ compaction # None
        BY <1>2 DEF CompactionFails, IdleOK
    <2>2. /\ manifest' \in {manifest, Outcomes} /\ edit' = None /\ tables' = tables
          /\ running' = running /\ current' = current /\ nextFile' = nextFile /\ readers' = readers
          /\ bgError' /\ flush' = flush /\ compaction' = None
        BY <1>2 DEF CompactionFails, CompactionEnds, RecordFails, reading
    <2> QED BY <2>1, <2>2, FailTables
<1> QED BY <1>1, <1>2

\* A record is written, its version is current, and files may go.
LEMMA RecordTables ==
    ASSUME TablesInv, BoundsOK, (running = "open" /\ edit # None) \/ running = "opening",
           NEW records, \A m \in records : Stored(tables, m.version, edit.nextFile),
           manifest' = {Apply(m, edit) : m \in records},
           current' = SaveTo(current, edit.deleted, edit.added),
           edit' = None, flush' = None, running' = "open",
           UNCHANGED <<nextFile, readers, bgError>>,
           ~bgError => \A m \in records : m.version = current,
           compaction' = None \/ (compaction' = compaction /\ pendingOutputs' = pendingOutputs),
           \/ tables' = tables
           \/ /\ ~bgError
              /\ tables' = Restrict(tables,
                     (pendingOutputs' \cup UNION {Numbers(v) : v \in LiveVersions}) \cap DOMAIN tables)
    PROVE  TablesInv'
<1> USE DEF TablesInv
<1>1. Running /\ nextFile \in Nat /\ edit.nextFile \in Nat /\ edit.nextFile <= nextFile
    BY DEF Running, BoundsOK, EditStored
<1>2. PICK live : live = pendingOutputs' \cup UNION {Numbers(v) : v \in LiveVersions}
    OBVIOUS
<1>3. /\ Numbers(current') \subseteq live
      /\ \A r \in Reader : readers[r] # None => Numbers(readers[r].version) \subseteq live
      /\ pendingOutputs' \subseteq live
    BY <1>2 DEF LiveVersions
<1>4. tables' = tables \/ (~bgError /\ tables' = Restrict(tables, live \cap DOMAIN tables))
    BY <1>2
<1>5. ASSUME NEW version, NEW n \in Nat, Stored(tables, version, n),
             tables' = tables \/ Numbers(version) \subseteq live
      PROVE  Stored(tables', version, n)
    BY <1>4, <1>5, StoredRestrict
<1>6. Stored(tables, edit.added, edit.nextFile)
    BY DEF EditStored
<1>7. ASSUME NEW m \in records
      PROVE  Stored(tables', SaveTo(m.version, edit.deleted, edit.added), edit.nextFile)
    <2>1. Stored(tables, SaveTo(m.version, edit.deleted, edit.added), edit.nextFile)
        BY <1>6, StoredSaveTo
    <2>2. tables' # tables => SaveTo(m.version, edit.deleted, edit.added) = current'
        BY <1>4
    <2> QED BY <1>1, <1>3, <1>5, <2>1, <2>2
<1>8. ManifestStored' /\ \A m \in manifest' : m.nextFile = edit.nextFile
    BY <1>7 DEF ManifestStored, Apply
<1>9. CurrentStored'
    <2>1. Stored(tables, current, nextFile)
        BY <1>1 DEF CurrentStored
    <2>2. Stored(tables, edit.added, nextFile)
        BY <1>1, <1>6, VersionStays
    <2>3. Stored(tables, current', nextFile)
        BY <2>1, <2>2, StoredSaveTo
    <2> QED BY <1>1, <1>3, <1>5, <1>8, <2>3 DEF CurrentStored
<1>10. ReadersStored'
    <2> SUFFICES ASSUME NEW r \in Reader, readers[r] # None
                 PROVE  Stored(tables', readers[r].version, nextFile)
        BY DEF ReadersStored
    <2> QED BY <1>1, <1>3, <1>5 DEF ReadersStored
<1>11. EditStored' /\ FlushApart'
    BY DEF EditStored, FlushApart
<1>12. OutputsStored'
    <2> SUFFICES ASSUME compaction' # None
                 PROVE  /\ StoredFiles(tables', compaction.outputs, nextFile)
                        /\ \A f \in compaction.outputs : f.number \in pendingOutputs'
        BY DEF OutputsStored
    <2>1. /\ StoredFiles(tables, compaction.outputs, nextFile)
          /\ \A f \in compaction.outputs : f.number \in pendingOutputs'
        BY DEF OutputsStored
    <2>2. CASE tables' = tables
        BY <2>1, <2>2
    <2>3. CASE tables' = Restrict(tables, live \cap DOMAIN tables)
        <3>1. \A f \in compaction.outputs : f.number \in DOMAIN tables =>
                  f.number \in DOMAIN tables' /\ tables'[f.number] = tables[f.number]
            BY <1>3, <2>1, <2>3 DEF Restrict
        <3> QED BY <1>1, <2>1, <3>1, FilesStay
    <2> QED BY <1>4, <2>1, <2>2, <2>3
<1>13. HeldIsWritten'
    BY DEF HeldIsWritten, Apply
<1> QED BY <1>8, <1>9, <1>10, <1>11, <1>12, <1>13

LEMMA ManifestBelowEdit ==
    ASSUME TablesInv, BoundsOK, edit # None, NEW m \in manifest
    PROVE  Stored(tables, m.version, edit.nextFile)
BY VersionStays DEF TablesInv, ManifestStored, EditStored, BoundsOK

LEMMA InstalledTables ==
    ASSUME TablesInv, BoundsOK, IdleOK, FlushInstalled \/ CompactionInstalled
    PROVE  TablesInv'
<1>1. running = "open" /\ edit # None
    BY DEF FlushInstalled, CompactionInstalled, IdleOK
<1>2. /\ manifest' = {Apply(m, edit) : m \in manifest}
      /\ current' = SaveTo(current, edit.deleted, edit.added)
      /\ edit' = None /\ running' = running
      /\ nextFile' = nextFile /\ readers' = readers /\ bgError' = bgError
    BY DEF FlushInstalled, CompactionInstalled, CompactionEnds, AppendVersion, AppendVersionTo,
       reading
<1>3. flush' = None
    BY DEF FlushInstalled, CompactionInstalled, CompactionEnds, TablesInv, FlushApart
<1>4. compaction' = None \/ (compaction' = compaction /\ pendingOutputs' = pendingOutputs)
    BY DEF FlushInstalled, CompactionInstalled, CompactionEnds
<1>5. \/ tables' = tables
      \/ /\ ~bgError
         /\ tables' = Restrict(tables,
                (pendingOutputs' \cup UNION {Numbers(v) : v \in LiveVersions}) \cap DOMAIN tables)
    BY <1>2 DEF FlushInstalled, CompactionInstalled, DeleteObsoleteFiles
<1>6. ~bgError => \A m \in manifest : m.version = current
    BY <1>1 DEF TablesInv, HeldIsWritten
<1>7. \A m \in manifest : Stored(tables, m.version, edit.nextFile)
    BY <1>1, ManifestBelowEdit
<1> QED BY <1>1, <1>2, <1>3, <1>4, <1>5, <1>6, <1>7, RecordTables

LEMMA OpenedTables == ASSUME TablesInv, BoundsOK, IdleOK, Opened PROVE TablesInv'
<1>1. PICK s : s = WriteSnapshot
    OBVIOUS
<1>2. s.version = current
    BY <1>1 DEF WriteSnapshot, NewDB
<1>3. PICK records : records = {s}
    OBVIOUS
<1>4. /\ running = "opening" /\ running' = "open" /\ edit' = None
      /\ manifest' = {Apply(m, edit) : m \in records}
      /\ current' = SaveTo(current, edit.deleted, edit.added)
      /\ nextFile' = nextFile /\ readers' = readers /\ bgError' = bgError
      /\ compaction' = compaction /\ pendingOutputs' = pendingOutputs /\ flush' = flush
    BY <1>3, <1>1 DEF Opened, AppendVersionTo, reading
<1>5. flush' = None
    BY <1>4 DEF IdleOK
<1>6. \/ tables' = tables
      \/ /\ ~bgError
         /\ tables' = Restrict(tables,
                (pendingOutputs' \cup UNION {Numbers(v) : v \in LiveVersions}) \cap DOMAIN tables)
    BY <1>4 DEF Opened, DeleteObsoleteFiles
<1>7. \A m \in records : Stored(tables, m.version, edit.nextFile) /\ m.version = current
    BY <1>3, <1>2, <1>4 DEF TablesInv, EditStored
<1> QED BY <1>4, <1>5, <1>6, <1>7, RecordTables

-----------------------------------------------------------------------------
\* The process ends.
LEMMA GoneTables ==
    ASSUME TablesInv, BoundsOK, NEW state \in {"down", "trapped"}, Gone(state),
           tables' = tables, manifest' \subseteq Outcomes
    PROVE  TablesInv'
<1>1. /\ running' = state /\ edit' = None /\ flush' = None /\ compaction' = None
      /\ DOMAIN readers' = Reader /\ \A r \in Reader : readers'[r] = None
    BY DEF Gone
<1>2. ManifestStored'
    BY OutcomesStored DEF ManifestStored
<1> QED BY <1>1, <1>2 DEF TablesInv, EditStored, CurrentStored, ReadersStored, OutputsStored,
                          FlushApart, HeldIsWritten, Running

LEMMA EndTables == ASSUME TablesInv, BoundsOK, Crash \/ NullManual \/ OpenFails PROVE TablesInv'
<1>1. CASE Crash
    BY <1>1, GoneTables DEF Crash
<1>2. CASE NullManual
    <2>1. manifest' \subseteq Outcomes
        BY <1>2 DEF NullManual, Outcomes
    <2> QED BY <1>2, <2>1, GoneTables DEF NullManual
<1>3. CASE OpenFails
    <2>1. manifest' \subseteq Outcomes
        BY <1>3 DEF OpenFails, Outcomes
    <2> QED BY <1>3, <2>1, GoneTables DEF OpenFails
<1> QED BY <1>1, <1>2, <1>3

\* A recovery writes its tables under numbers the manifest has not counted.
WithFiles(disc, files) ==
    [n \in {f.number : f \in files} \cup DOMAIN disc |->
        IF \E f \in files : f.number = n
        THEN (CHOOSE f \in files : f.number = n).entries ELSE disc[n]]

LEMMA RecoveredTables ==
    ASSUME NEW disc, NEW free \in Nat, NEW all, NEW w \in Work(free, free, all),
           NEW disc2, disc2 = WithFiles(disc, w.files)
    PROVE  /\ StoredFiles(disc2, w.files, w.next + 1) /\ w.next \in Nat /\ free <= w.next
           /\ \A k \in DOMAIN disc : k \in Nat /\ k < free =>
                  k \in DOMAIN disc2 /\ disc2[k] = disc[k]
<1>1. w.next \in Nat /\ free <= w.next /\ NumberedFrom(w.files, free, w.next)
    BY WorkFacts
<1>2. \A k \in DOMAIN disc : k \in Nat /\ k < free => k \in DOMAIN disc2 /\ disc2[k] = disc[k]
    BY <1>1 DEF NumberedFrom, WithFiles
<1>3. ASSUME NEW f \in w.files
      PROVE  /\ f.number \in Nat /\ f.number < w.next + 1
             /\ f.number \in DOMAIN disc2 /\ disc2[f.number] = f.entries
    <2>1. f.number \in DOMAIN disc2
        BY DEF WithFiles
    <2>2. disc2[f.number] = (CHOOSE g \in w.files : g.number = f.number).entries
        BY DEF WithFiles
    <2>3. (CHOOSE g \in w.files : g.number = f.number) = f
        BY <1>1 DEF NumberedFrom
    <2> QED BY <1>1, <2>1, <2>2, <2>3 DEF NumberedFrom
<1>4. IsFiniteSet(w.files)
    BY <1>1 DEF NumberedFrom
<1> QED BY <1>1, <1>2, <1>3, <1>4 DEF StoredFiles

LEMMA RecoverTables == ASSUME TablesInv, DurableInv, Recover PROVE TablesInv'
<1> DEFINE Start(m) == [mem |-> {}, files |-> {}, next |-> FirstFree(m)]
           Replayed(m) == {n \in DOMAIN logs : n >= m.logNumber}
           Edit(w) == [deleted |-> NoFiles, added |-> [NoFiles EXCEPT ![0] = w.files],
                       logNumber |-> w.next, nextFile |-> w.next + 1,
                       lastSequence |-> lastSequence', pointer |-> <<0, NoEntry>>]
<1>1. PICK m \in manifest :
          /\ current' = m.version
          /\ nextFile' = RecoverLogFiles(Replayed(m), Start(m)).next + 1
          /\ tables' = WithFiles(tables, RecoverLogFiles(Replayed(m), Start(m)).files)
          /\ edit' = Edit(RecoverLogFiles(Replayed(m), Start(m)))
    BY ZenonT(60) DEF Recover, RecoverVersions, WithFiles
<1>2. PICK w : w = RecoverLogFiles(Replayed(m), Start(m))
    OBVIOUS
<1>3. current' = m.version /\ nextFile' = w.next + 1 /\ tables' = WithFiles(tables, w.files) /\ edit' = Edit(w)
    <2> HIDE DEF Start, Replayed, Edit
    <2> QED BY <1>1, <1>2
<1>4. PICK free : free = FirstFree(m)
    OBVIOUS
<1>5. /\ m.nextFile \in Nat /\ free \in Nat /\ free > m.nextFile
      /\ w \in Work(free, free, LoggedFrom(logs, m.logNumber))
    <2>1. m.nextFile \in Nat
        BY DEF DurableInv, ManifestOK, RecordOK
    <2> HIDE DEF Edit
    <2> QED BY <1>2, <1>4, <2>1, RecoveryFacts DEF DurableInv
<1>6. /\ StoredFiles(tables', w.files, w.next + 1) /\ w.next \in Nat /\ free <= w.next
      /\ \A k \in DOMAIN tables : k \in Nat /\ k < free =>
             k \in DOMAIN tables' /\ tables'[k] = tables[k]
    <2> HIDE DEF Start, Replayed, Edit
    <2> QED BY <1>3, <1>5, RecoveredTables
<1>7. /\ edit'.nextFile = w.next + 1 /\ edit'.added = [NoFiles EXCEPT ![0] = w.files]
    BY <1>3
<1> HIDE DEF Start, Replayed, Edit
<1>8. /\ running = "down" /\ running' = "opening" /\ manifest' = manifest /\ flush' = flush
      /\ compaction' = compaction /\ readers' = readers
    BY DEF Recover, reading, background
<1>9. flush = None /\ compaction = None /\ \A r \in Reader : readers[r] = None
    BY <1>8 DEF DurableInv, IdleOK
<1>10. \A k \in manifest : k = m
    BY <1>8 DEF DurableInv, ManifestOK
<1>11. Stored(tables', m.version, m.nextFile)
    <2>1. Stored(tables, m.version, m.nextFile)
        BY DEF TablesInv, ManifestStored
    <2>2. \A l \in Level : \A f \in m.version[l] :
              f.number \in DOMAIN tables /\ f.number \in Nat /\ f.number < free
        BY <1>5, <2>1 DEF Stored, StoredFiles
    <2> QED BY <1>5, <1>6, <2>1, <2>2, VersionStays
<1>12. Stored(tables', m.version, w.next + 1) /\ m.nextFile <= w.next + 1 /\ w.next + 1 \in Nat
    <2>1. m.nextFile <= w.next + 1 /\ w.next + 1 \in Nat
        BY <1>5, <1>6
    <2> QED BY <1>5, <1>11, <2>1, VersionStays
<1>13. ManifestStored'
    BY <1>8, <1>10, <1>11 DEF ManifestStored
<1>14. EditStored'
    <2>1. Stored(tables', edit'.added, w.next + 1)
        BY <1>6, <1>7, StoredOne
    <2> QED BY <1>3, <1>7, <1>8, <1>10, <1>12, <2>1 DEF EditStored
<1>15. CurrentStored'
    BY <1>3, <1>8, <1>10, <1>12 DEF CurrentStored
<1>16. ReadersStored' /\ OutputsStored' /\ FlushApart' /\ HeldIsWritten'
    BY <1>8, <1>9 DEF TablesInv, ReadersStored, OutputsStored, FlushApart, HeldIsWritten
<1> QED BY <1>13, <1>14, <1>15, <1>16 DEF TablesInv

-----------------------------------------------------------------------------
LEMMA TablesInit == ASSUME Init PROVE TablesInv
<1>1. \A l \in Level : StoredFiles(tables, NoFiles[l], 2)
    BY FS_EmptySet DEF NoFiles, StoredFiles
<1>2. ManifestStored
    BY <1>1 DEF Init, ManifestStored, Stored, NewDB
<1> QED BY <1>2 DEF Init, TablesInv, EditStored, CurrentStored, ReadersStored, OutputsStored,
                    FlushApart, HeldIsWritten, Running

LEMMA TablesNext == ASSUME TablesInv, DurableInv, [Next]_vars PROVE TablesInv'
<1>0. BoundsOK /\ IdleOK
    BY DurableBounds DEF DurableInv
<1>1. ASSUME NEW t \in Thread, NEW b, NEW sync, Write(t, b, sync) PROVE TablesInv'
    <2>1. UNCHANGED <<disk, running, versions, reading, background>>
        BY <1>1 DEF Write
    <2> QED BY <1>0, <2>1, TablesFrame DEF disk, versions, reading, background
<1>2. CASE \E t \in Thread : Lead(t)
    BY <1>0, <1>2, TablesFrame DEF Lead, LeadGroup, LeaderFails, Leader, MakeRoomForWrite,
       SwitchMemTable, disk, versions, reading, background
<1>3. CASE GroupStep
    <2>1. UNCHANGED <<tables, manifest, edit, running, versions, background>>
        BY <1>3 DEF GroupStep, AddRecord, Sync, InsertEntry, FinishWrite, disk
    <2>2. DOMAIN readers = Reader
        BY DEF TablesInv, ReadersStored
    <2>3. /\ DOMAIN readers' = DOMAIN readers
          /\ \A r \in Reader : readers'[r] # None =>
              readers[r] # None /\ readers'[r].version = readers[r].version
        <3>1. CASE InsertEntry
            BY <2>2, <3>1 DEF InsertEntry
        <3>2. CASE AddRecord \/ Sync \/ FinishWrite
            BY <3>2 DEF AddRecord, Sync, FinishWrite, reading
        <3> QED BY <1>3, <3>1, <3>2 DEF GroupStep
    <2> QED BY <1>0, <2>1, <2>3, TablesFrame DEF versions, background
<1>4. CASE \/ \E h \in Handle : GetSnapshot(h) \/ ReleaseSnapshot(h)
           \/ \E r \in Reader, s \in 0..MaxSeq : BeginRead(r, s)
           \/ \E r \in Reader : EndRead(r)
    <2>1. UNCHANGED <<disk, running, nextFile, current, pendingOutputs, bgError, flush, compaction>>
        BY <1>4 DEF GetSnapshot, ReleaseSnapshot, BeginRead, EndRead, versions, background
    <2>2. DOMAIN readers = Reader
        BY DEF TablesInv, ReadersStored
    <2>3. DOMAIN readers' = DOMAIN readers
        BY <1>4 DEF GetSnapshot, ReleaseSnapshot, BeginRead, EndRead
    <2>4. \A r \in Reader : readers'[r] # None =>
              \/ running = "open" /\ readers'[r].version = current
              \/ readers'[r] = readers[r]
        <3>1. CASE \E h \in Handle : GetSnapshot(h) \/ ReleaseSnapshot(h)
            BY <3>1 DEF GetSnapshot, ReleaseSnapshot
        <3>2. CASE \E r \in Reader, s \in 0..MaxSeq : BeginRead(r, s)
            BY <2>2, <3>2 DEF BeginRead
        <3>3. CASE \E r \in Reader : EndRead(r)
            BY <2>2, <3>3 DEF EndRead
        <3> QED BY <1>4, <3>1, <3>2, <3>3
    <2> QED BY <1>0, <2>1, <2>3, <2>4, TablesFrame DEF disk
<1>5. CASE \/ \E l \in 0..(NumLevels - 2), range \in Ranges : RequestRange(l, range[1], range[2])
           \/ ArmManual \/ RangeReturns
    BY <1>0, <1>5, TablesFrame DEF RequestRange, ArmManual, RangeReturns, disk, versions, reading
<1>6. CASE Background
    BY <1>0, <1>6, CompactMemTableTables, WriteLevel0Tables, InstalledTables, StartTurnTables,
       CompactionOutputTables, InstallTables, EndTables DEF Background, Flush, Compact
<1>7. CASE Recover \/ Opened
    BY <1>0, <1>7, RecoverTables, OpenedTables
<1>8. CASE AddRecordFails \/ SyncFails
    BY <1>0, <1>8, TablesFrame DEF AddRecordFails, SyncFails, GroupFails, versions, reading
<1>9. CASE FlushFails \/ CompactionFails \/ OpenFails \/ Crash
    BY <1>0, <1>9, FailsTables, EndTables
<1>10. CASE UNCHANGED vars
    BY <1>0, <1>10, TablesFrame DEF vars, disk, versions, reading, background
<1> QED BY <1>1, <1>2, <1>3, <1>4, <1>5, <1>6, <1>7, <1>8, <1>9, <1>10 DEF Next, Faults

\* Whatever a crash leaves of the manifest, the tables it names are on disk with
\* the contents it means: none is removed or written over too early, and none is
\* named before it is there (VersionSet::LogAndApply, DBImpl::DeleteObsoleteFiles,
\* pending_outputs_).
THEOREM ManifestStaysBacked == Spec => []ManifestIsBacked
<1>1. DurableInv /\ TablesInv => ManifestIsBacked
    <2> SUFFICES ASSUME DurableInv, TablesInv, NEW m \in Outcomes, NEW l \in Level,
                        NEW f \in m.version[l]
                 PROVE  OnDisk(f)
        BY DEF ManifestIsBacked, Files
    <2>1. Stored(tables, m.version, m.nextFile)
        BY DurableBounds, OutcomesStored
    <2> QED BY <2>1 DEF Stored, StoredFiles, OnDisk
<1> QED BY <1>1, DurableInit, DurableNext, TablesInit, TablesNext, PTL DEF Spec

\* The table files of the version that is read, and of the versions that earlier
\* readers hold, stay on disk as they were (Version::Ref, AddLiveFiles).
HeldFiles ==
    /\ running = "open" => \A f \in Files(current) : OnDisk(f)
    /\ \A r \in Reader : readers[r] # None => \A f \in Files(readers[r].version) : OnDisk(f)

\* No step removes or rewrites a table that a reader or the current version uses.
THEOREM HeldFilesStay == Spec => []HeldFiles
<1>1. TablesInv => HeldFiles
    <2> SUFFICES ASSUME TablesInv PROVE HeldFiles
        OBVIOUS
    <2>1. ASSUME running = "open", NEW f \in Files(current) PROVE OnDisk(f)
        BY <2>1 DEF TablesInv, CurrentStored, Running, Files, OnDisk, Stored, StoredFiles
    <2>2. ASSUME NEW r \in Reader, readers[r] # None, NEW f \in Files(readers[r].version)
          PROVE  OnDisk(f)
        BY <2>2 DEF TablesInv, ReadersStored, Files, OnDisk, Stored, StoredFiles
    <2> QED BY <2>1, <2>2 DEF HeldFiles
<1> QED BY <1>1, DurableInit, DurableNext, TablesInit, TablesNext, PTL DEF Spec

-----------------------------------------------------------------------------
\* Whoever changes what the background thread looks for wakes it; what it has
\* begun is its turn.
Woken == running = "open" /\ NeedsWork(imm, manual, current, seek) => scheduled \/ bgError
InTurn == flush # None \/ compaction # None => scheduled
WorkInv == Woken /\ InTurn

LEMMA WorkFrame ==
    ASSUME WorkInv, UNCHANGED <<running, imm, manual, current, seek, scheduled, flush, compaction>>,
           bgError => bgError'
    PROVE  WorkInv'
BY DEF WorkInv, Woken, InTurn, NeedsWork

LEMMA Looked ==
    ASSUME MaybeScheduleCompaction \/ BackgroundEnds PROVE Woken'
BY DEF MaybeScheduleCompaction, BackgroundEnds, Scheduled, Woken, NeedsWork

LEMMA WorkNext == ASSUME WorkInv, TablesInv, IdleOK, [Next]_vars PROVE WorkInv'
<1>1. ASSUME NEW t \in Thread, NEW b, NEW sync, Write(t, b, sync) PROVE WorkInv'
    <2>1. UNCHANGED <<running, memory, versions, background>>
        BY <1>1 DEF Write
    <2> QED BY <2>1, WorkFrame DEF memory, versions, background
<1>2. CASE \E t \in Thread : Lead(t)
    <2>1. PICK t \in Thread : Lead(t)
        BY <1>2
    <2>2. CASE LeaderFails(t)
        BY <2>2, WorkFrame DEF LeaderFails, memory, versions, background
    <2>3. CASE LeadGroup(t) /\ ~Full(t)
        BY <2>3, WorkFrame DEF LeadGroup, MakeRoomForWrite, versions
    <2>4. CASE LeadGroup(t) /\ Full(t)
        <3>1. MaybeScheduleCompaction /\ flush' = flush /\ compaction' = compaction
            BY <2>4 DEF LeadGroup, MakeRoomForWrite, SwitchMemTable
        <3>2. InTurn'
            BY <3>1 DEF WorkInv, InTurn, MaybeScheduleCompaction
        <3> QED BY <3>1, <3>2, Looked DEF WorkInv
    <2> QED BY <2>1, <2>2, <2>3, <2>4 DEF Lead
<1>3. CASE GroupStep
    BY <1>3, WorkFrame DEF GroupStep, AddRecord, Sync, InsertEntry, FinishWrite, memory, versions,
       background
<1>4. CASE AddRecordFails \/ SyncFails
    BY <1>4, WorkFrame DEF AddRecordFails, SyncFails, GroupFails, versions
<1>5. CASE \/ \E h \in Handle : GetSnapshot(h) \/ ReleaseSnapshot(h)
           \/ \E r \in Reader, s \in 0..MaxSeq : BeginRead(r, s)
    BY <1>5, WorkFrame DEF GetSnapshot, ReleaseSnapshot, BeginRead, memory, versions, background
<1>6. CASE \E r \in Reader : EndRead(r)
    <2>1. /\ running' = running /\ imm' = imm /\ manual' = manual /\ current' = current
          /\ bgError' = bgError /\ flush' = flush /\ compaction' = compaction
          /\ (seek' = seek /\ scheduled' = scheduled) \/ MaybeScheduleCompaction
        BY <1>6 DEF EndRead, memory
    <2>2. CASE MaybeScheduleCompaction
        BY <2>1, <2>2, Looked DEF WorkInv, InTurn, MaybeScheduleCompaction
    <2> QED BY <2>1, <2>2, WorkFrame
<1>7. CASE \/ \E l \in 0..(NumLevels - 2), range \in Ranges : RequestRange(l, range[1], range[2])
           \/ RangeReturns
    <2>1. /\ running' = running /\ imm' = imm /\ current' = current /\ seek' = seek
          /\ scheduled' = scheduled /\ bgError' = bgError /\ flush' = flush
          /\ compaction' = compaction
        BY <1>7 DEF RequestRange, RangeReturns, memory, versions
    <2>2. manual' # None => ~manual'.armed
        BY <1>7 DEF RequestRange, RangeReturns
    <2> QED BY <2>1, <2>2 DEF WorkInv, Woken, InTurn, NeedsWork
<1>8. CASE ArmManual
    BY <1>8, Looked DEF ArmManual, WorkInv, InTurn, MaybeScheduleCompaction
<1>9. CASE CompactMemTable
    BY <1>9 DEF CompactMemTable, WorkInv, Woken, InTurn, NeedsWork, memory
<1>10. CASE WriteLevel0Table
    BY <1>10, WorkFrame DEF WriteLevel0Table, memory, versions
<1>11. CASE FlushInstalled \/ FlushFails
    <2>1. /\ flush' = None /\ compaction' = compaction /\ imm' \in {imm, None}
          /\ manual' = manual /\ running' = running
          /\ IF compaction = None THEN BackgroundEnds ELSE scheduled' = scheduled
        BY <1>11 DEF FlushInstalled, FlushFails
    <2>2. CASE compaction = None
        BY <2>1, <2>2, Looked DEF WorkInv, InTurn
    <2>3. CASE compaction # None
        BY <2>1, <2>3 DEF WorkInv, Woken, InTurn
    <2> QED BY <2>2, <2>3
<1>12. CASE CompactSomeFiles
    <2>1. scheduled /\ scheduled' = scheduled
        BY <1>12 DEF CompactSomeFiles, Turn, StartMove, StartCompaction
    <2> QED BY <2>1 DEF WorkInv, Woken, InTurn
<1>13. CASE CompactRange
    <2>1. CASE scheduled' = scheduled
        BY <1>13, <2>1 DEF CompactRange, Turn, WorkInv, Woken, InTurn
    <2>2. CASE BackgroundEnds /\ compaction' = compaction
        BY <1>13, <2>2, Looked DEF CompactRange, Turn, WorkInv, InTurn
    <2> QED BY <1>13, <2>1, <2>2 DEF CompactRange, StartCompaction
<1>14. CASE NothingToDo
    BY <1>14, Looked DEF NothingToDo, WorkInv, InTurn
<1>15. CASE CompactionOutput \/ InstallCompactionResults
    BY <1>15 DEF CompactionOutput, InstallCompactionResults, memory, versions, WorkInv, Woken,
       InTurn, NeedsWork
<1>16. CASE CompactionInstalled \/ CompactionFails
    <2>1. flush' = None /\ compaction' = None /\ BackgroundEnds
        BY <1>16 DEF CompactionInstalled, CompactionFails, CompactionEnds, TablesInv, FlushApart
    <2> QED BY <2>1, Looked DEF WorkInv, InTurn
<1>17. CASE Crash \/ NullManual \/ OpenFails
    <2>1. running' # "open" /\ flush' = None /\ compaction' = None
        BY <1>17 DEF Crash, NullManual, OpenFails, Gone
    <2> QED BY <2>1 DEF WorkInv, Woken, InTurn
<1>18. CASE Recover
    BY <1>18 DEF Recover, background, WorkInv, Woken, InTurn
<1>19. CASE Opened
    <2>1. MaybeScheduleCompaction /\ flush' = flush /\ compaction' = compaction
        BY <1>19 DEF Opened
    <2> QED BY <2>1, Looked DEF WorkInv, InTurn, MaybeScheduleCompaction
<1>20. CASE UNCHANGED vars
    BY <1>20, WorkFrame DEF vars, memory, versions, background
<1> QED BY <1>1, <1>2, <1>3, <1>4, <1>5, <1>6, <1>7, <1>8, <1>9, <1>10, <1>11, <1>12, <1>13, <1>14,
           <1>15, <1>16, <1>17, <1>18, <1>19, <1>20
        DEF Next, Background, Flush, StartTurn, Compact, Faults

\* Nobody waits for a background thread that has no turn coming: whatever fills
\* level 0, leaves a memtable to flush, arms a range or uses up the seeks of a
\* file schedules it, and a turn that ends looks again
\* (DBImpl::MaybeScheduleCompaction, MakeRoomForWrite, BackgroundCall).
THEOREM WaitersAreServed == Spec => []WorkIsScheduled
<1>1. ASSUME DurableInv, TablesInv, WorkInv PROVE WorkIsScheduled
    <2>1. ASSUME Waiting PROVE running = "open" /\ NeedsWork(imm, manual, current, seek)
        <3>1. running = "open"
            BY <2>1 DEF Waiting
        <3>2. CASE imm # None
            BY <3>1, <3>2 DEF NeedsWork
        <3>3. CASE ~(Cardinality(current[0]) < L0StopWritesTrigger)
            <4>1. 0 \in 0..(NumLevels - 2) /\ 0 \in Level /\ LevelLimit[0] \in Nat
                BY Config DEF Level
            <4>2. IsFiniteSet(current[0])
                BY <1>1, <3>1, <4>1 DEF TablesInv, CurrentStored, Running, Stored, StoredFiles
            <4>3. Cardinality(current[0]) \in Nat /\ L0StopWritesTrigger \in Nat
                BY <4>2, FS_CardinalityType, Bounds
            <4>4. Amount(current, 0) >= LevelLimit[0]
                BY <3>3, <4>1, <4>3, Triggers DEF Amount
            <4>5. SizeCompaction(current)
                BY <4>1, <4>4 DEF SizeCompaction
            <4> QED BY <3>1, <4>5 DEF NeedsWork
        <3> QED BY <2>1, <3>2, <3>3 DEF Waiting, MaySwitchMemTable
    <2>2. ASSUME running = "open", Armed PROVE NeedsWork(imm, manual, current, seek)
        BY <2>2 DEF Armed, NeedsWork
    <2> QED BY <1>1, <2>1, <2>2 DEF WorkIsScheduled, WorkInv, Woken, InTurn
<1>2. Init => WorkInv
    BY DEF Init, WorkInv, Woken, InTurn
<1>3. DurableInv => IdleOK
    BY DEF DurableInv
<1> QED BY <1>1, <1>2, <1>3, DurableInit, DurableNext, TablesInit, TablesNext, WorkNext, PTL
           DEF Spec

-----------------------------------------------------------------------------
\* Nothing is written twice, and what is below level 0 stays in order.
\*
\* What the process knows of, the group that is being written aside.
Held ==
    Contents(current) \cup LoggedFrom(logs, logNumber) \cup (IF imm = None THEN {} ELSE imm)
InGroup == IF group = None THEN {} ELSE ToSet(group.entries)
EditedVersion == SaveTo(current, edit.deleted, edit.added)

\* No record of the manifest failed, and no client asked for a range.
Calm == spent["manifest"] = 0 /\ spent["manual"] = 0

ManifestOrdered ==
    /\ manifest # {}
    /\ \A m \in manifest :
           /\ LevelsOK(m.version)
           /\ Apart(Contents(m.version) \cup LoggedFrom(logs, m.logNumber))
           /\ \A e \in Contents(m.version) : e.seq <= m.lastSequence
           /\ \A k \in manifest : k = m
           /\ Running => m.version = current /\ m.logNumber = logNumber
KnownApart ==
    Running =>
        /\ Apart(Held \cup mem \cup InGroup)
        /\ \A e \in Held \cup mem : e.seq <= lastSequence \/ e \in InGroup
        /\ \A e \in Contents(current) : e.seq <= lastSequence
        /\ imm # None => \A e \in imm : e.seq <= lastSequence
        /\ flush # None => imm # None
        /\ group # None => group.left <= Len(group.entries)
EditOrdered ==
    edit # None \/ running = "opening" =>
        /\ Running
        /\ LevelsOK(EditedVersion) /\ Contents(EditedVersion) \subseteq Held
        /\ \A e \in Contents(EditedVersion) : e.seq <= edit.lastSequence
        /\ edit.logNumber >= logNumber /\ edit.lastSequence <= lastSequence
        /\ running = "open" => flush # None \/ compaction # None

\* The outputs of a compaction, made and to be made, follow one another.
OutputsOrdered(taken, made, todo) ==
    /\ made \subseteq File /\ todo \in Seq(SUBSET taken)
    /\ \A f \in made : TableOK(f) /\ f.entries \subseteq taken
    /\ \A f, g \in made : f # g => Beside(f.entries, g.entries)
    /\ \A i \in 1..Len(todo) :
           /\ todo[i] # {}
           /\ \A j \in 1..Len(todo) : i < j => Precedes(todo[i], todo[j])
           /\ \A f \in made : Precedes(f.entries, todo[i])
CompactionOrdered ==
    compaction # None =>
        /\ compaction \in CompactionState /\ ~compaction.manual
        /\ compaction.step = "work" =>
               LET c == compaction.inputs
               IN /\ InputsOK(current, c) /\ (edit # None => InputsOK(EditedVersion, c))
                  /\ Solid(c.mine \cup c.theirs)
                  /\ OutputsOrdered(EntriesOf(c.mine \cup c.theirs), compaction.outputs,
                                    compaction.todo)
QuietOrdered ==
    /\ manual = None
    /\ ~Running => mem = {} /\ imm = None

Ordered == ManifestOrdered /\ KnownApart /\ EditOrdered /\ CompactionOrdered /\ QuietOrdered
OrderInv == spent \in [Bounded -> Nat] /\ (Calm => Ordered)

-----------------------------------------------------------------------------
\* The logs a recovery reads.
LEMMA LoggedLess ==
    ASSUME NEW files, FilesOK(files), NEW files2, NEW a \in Nat, NEW b \in Nat, a <= b,
           \A n \in DOMAIN files2 :
               n \in DOMAIN files
               /\ \A r \in ToSet(files2[n].records) : r \in ToSet(files[n].records)
    PROVE  LoggedFrom(files2, b) \subseteq LoggedFrom(files, a)
<1> SUFFICES ASSUME NEW n \in DOMAIN files2, n >= b, NEW r \in ToSet(files2[n].records),
                    NEW e \in ToSet(r)
             PROVE  e \in LoggedFrom(files, a)
    BY DEF LoggedFrom
<1>1. n \in DOMAIN files /\ n \in Nat /\ r \in ToSet(files[n].records)
    BY DEF FilesOK
<1>2. n \in {k \in DOMAIN files : k >= a}
    BY <1>1
<1> QED BY <1>1, <1>2 DEF LoggedFrom

LEMMA LoggedMore ==
    ASSUME NEW files, FilesOK(files), NEW file \in DOMAIN files, NEW record \in Record, NEW a
    PROVE  LET files2 == Appended(files, file, record)
           IN  /\ LoggedFrom(files, a) \subseteq LoggedFrom(files2, a)
               /\ LoggedFrom(files2, a) \subseteq LoggedFrom(files, a) \cup ToSet(record)
<1> DEFINE files2 == Appended(files, file, record)
<1>1. /\ DOMAIN files2 = DOMAIN files
      /\ \A n \in DOMAIN files : n # file => files2[n] = files[n]
      /\ \A r : r \in ToSet(files2[file].records)
                <=> r \in ToSet(files[file].records) \/ r = record
    BY AppendFacts
<1> HIDE DEF files2
<1>2. \A n \in DOMAIN files : \A r \in ToSet(files[n].records) : r \in ToSet(files2[n].records)
    BY <1>1
<1>3. \A n \in DOMAIN files : \A r \in ToSet(files2[n].records) :
          r \in ToSet(files[n].records) \/ r = record
    BY <1>1
<1>4. LoggedFrom(files, a) \subseteq LoggedFrom(files2, a)
    BY <1>1, <1>2 DEF LoggedFrom
<1>5. LoggedFrom(files2, a) \subseteq LoggedFrom(files, a) \cup ToSet(record)
    BY <1>1, <1>3 DEF LoggedFrom
<1> QED BY <1>4, <1>5 DEF files2

LEMMA LoggedNew ==
    ASSUME NEW files, FilesOK(files), NEW k \in Nat, k \notin DOMAIN files, NEW a
    PROVE  LoggedFrom(Written(files, k, EmptyLog), a) = LoggedFrom(files, a)
<1> DEFINE files2 == Written(files, k, EmptyLog)
<1>1. /\ DOMAIN files2 = DOMAIN files \cup {k} /\ ToSet(files2[k].records) = {}
      /\ \A n \in DOMAIN files : files2[n] = files[n]
    BY NewLogFacts
<1> HIDE DEF files2
<1>2. LoggedFrom(files, a) \subseteq LoggedFrom(files2, a)
    BY <1>1 DEF LoggedFrom
<1>3. LoggedFrom(files2, a) \subseteq LoggedFrom(files, a)
    BY <1>1 DEF LoggedFrom
<1> QED BY <1>2, <1>3 DEF files2

-----------------------------------------------------------------------------
\* What the kinds of steps do to the parts of the invariant.
LEMMA SpendFacts ==
    ASSUME spent \in [Bounded -> Nat], NEW kind \in Bounded, Spend(kind)
    PROVE  /\ spent' \in [Bounded -> Nat] /\ (Calm' => Calm)
           /\ kind \in {"manifest", "manual"} => ~Calm'
<1>1. spent' = [spent EXCEPT ![kind] = @ + 1]
    BY DEF Spend
<1>2. spent' \in [Bounded -> Nat]
    BY <1>1
<1>3. "manifest" \in Bounded /\ "manual" \in Bounded
    BY DEF Bounded
<1>4. \A k \in Bounded : spent'[k] = 0 => spent[k] = 0 /\ k # kind
    <2> SUFFICES ASSUME NEW k \in Bounded, spent'[k] = 0 PROVE spent[k] = 0 /\ k # kind
        OBVIOUS
    <2>1. spent[k] \in Nat /\ spent[k] + 1 # 0
        OBVIOUS
    <2>2. k = kind => spent'[k] = spent[k] + 1
        BY <1>1
    <2>3. k # kind => spent'[k] = spent[k]
        BY <1>1
    <2> QED BY <2>1, <2>2, <2>3
<1> QED BY <1>2, <1>3, <1>4 DEF Calm

\* Steps that write no manifest record and change no compaction: what is known may grow.
LEMMA KnownStep ==
    ASSUME Ordered, Running, KnownApart', Held \subseteq Held',
           UNCHANGED <<manifest, edit, running, logNumber, current, manual, flush, compaction>>,
           edit # None \/ running = "opening" => edit.lastSequence <= lastSequence'
    PROVE  Ordered'
<1> USE DEF Ordered
<1>1. Running'
    BY DEF Running
<1>2. ManifestOrdered'
    <2> SUFFICES ASSUME NEW m \in manifest
                 PROVE  /\ LevelsOK(m.version)
                        /\ Apart(Contents(m.version) \cup LoggedFrom(logs', m.logNumber))
                        /\ \A e \in Contents(m.version) : e.seq <= m.lastSequence
                        /\ \A k \in manifest : k = m
                        /\ m.version = current /\ m.logNumber = logNumber
        BY DEF ManifestOrdered
    <2>1. m.version = current /\ m.logNumber = logNumber
        BY DEF ManifestOrdered
    <2>2. Contents(m.version) \cup LoggedFrom(logs', m.logNumber) \subseteq Held'
        BY <2>1 DEF Held
    <2>3. Apart(Held' \cup mem' \cup InGroup')
        BY <1>1 DEF KnownApart
    <2>4. Apart(Contents(m.version) \cup LoggedFrom(logs', m.logNumber))
        BY <2>2, <2>3, ApartPart
    <2> QED BY <2>1, <2>4 DEF ManifestOrdered
<1>3. EditOrdered'
    <2>1. EditedVersion' = EditedVersion
        BY DEF EditedVersion
    <2> QED BY <1>1, <2>1 DEF EditOrdered
<1>4. CompactionOrdered'
    <2>1. EditedVersion' = EditedVersion
        BY DEF EditedVersion
    <2> QED BY <2>1 DEF CompactionOrdered
<1>5. QuietOrdered'
    BY <1>1 DEF QuietOrdered
<1> QED BY <1>2, <1>3, <1>4, <1>5

\* Steps that begin a record of the manifest, or go on with a compaction.
LEMMA OrderedEdit ==
    ASSUME Ordered, EditOrdered', CompactionOrdered',
           UNCHANGED <<logs, manifest, running, mem, imm, group, lastSequence, logNumber,
                       current, manual>>,
           flush' # None => imm # None
    PROVE  Ordered'
<1> USE DEF Ordered
<1>1. Running' = Running /\ Held' = Held /\ InGroup' = InGroup
    BY DEF Running, Held, InGroup
<1>2. ManifestOrdered'
    BY <1>1 DEF ManifestOrdered
<1>3. KnownApart'
    BY <1>1 DEF KnownApart
<1>4. QuietOrdered'
    BY <1>1 DEF QuietOrdered
<1> QED BY <1>2, <1>3, <1>4

LEMMA OrderedFrame ==
    ASSUME Ordered,
           UNCHANGED <<logs, manifest, edit, running, mem, imm, group, lastSequence, logNumber,
                       current, manual, compaction>>,
           flush' # None => imm # None,
           edit # None /\ running = "open" => flush' # None \/ compaction # None
    PROVE  Ordered'
<1>1. Running' = Running /\ Held' = Held /\ EditedVersion' = EditedVersion
    BY DEF Running, Held, EditedVersion
<1>2. EditOrdered'
    BY <1>1 DEF Ordered, EditOrdered
<1>3. CompactionOrdered'
    BY <1>1 DEF Ordered, CompactionOrdered
<1> QED BY <1>2, <1>3, OrderedEdit

\* Steps that install the version of the record that was written.
LEMMA OrderedInstall ==
    ASSUME Ordered, FilesOK(logs), Running, lastSequence \in Nat, logNumber \in Nat,
           edit # None \/ running = "opening", edit.logNumber \in Nat, edit.lastSequence \in Nat,
           UNCHANGED <<mem, group, lastSequence, manual>>,
           running' = "open", edit' = None, manifest' # {},
           current' = EditedVersion, logNumber' = edit.logNumber,
           \A m \in manifest' : /\ m.version = EditedVersion /\ m.logNumber = edit.logNumber
                                /\ m.lastSequence = edit.lastSequence
                                /\ \A k \in manifest' : k = m,
           \A n \in DOMAIN logs' : n \in DOMAIN logs /\ logs'[n] = logs[n],
           imm' = imm \/ imm' = None, flush' = None,
           compaction' = None \/ (edit # None /\ compaction' = compaction)
    PROVE  Ordered'
<1> USE DEF Ordered
<1>0. Running'
    BY DEF Running
<1>1. /\ LevelsOK(EditedVersion) /\ Contents(EditedVersion) \subseteq Held
      /\ \A e \in Contents(EditedVersion) : e.seq <= edit.lastSequence
      /\ edit.logNumber >= logNumber /\ edit.lastSequence <= lastSequence
    BY DEF EditOrdered
<1>2. LoggedFrom(logs', edit.logNumber) \subseteq LoggedFrom(logs, logNumber)
    BY <1>1, LoggedLess
<1>3. Held' \subseteq Held /\ InGroup' = InGroup
    <2>1. Held' = Contents(EditedVersion) \cup LoggedFrom(logs', edit.logNumber)
                  \cup (IF imm' = None THEN {} ELSE imm')
        BY DEF Held
    <2>2. (IF imm' = None THEN {} ELSE imm') \subseteq Held
        BY DEF Held
    <2>3. LoggedFrom(logs, logNumber) \subseteq Held
        BY DEF Held
    <2>4. InGroup' = InGroup
        BY DEF InGroup
    <2> QED BY <1>1, <1>2, <2>1, <2>2, <2>3, <2>4
<1>4. KnownApart'
    <2>1. Apart(Held \cup mem \cup InGroup)
        BY DEF KnownApart
    <2>2. Apart(Held' \cup mem' \cup InGroup')
        BY <1>3, <2>1, ApartPart
    <2>3. \A e \in Contents(EditedVersion) : e.seq \in Nat
        BY <1>1, <2>1 DEF Apart, Entry
    <2>4. \A e \in Contents(EditedVersion) : e.seq <= lastSequence
        BY <1>1, <2>3
    <2>5. \A e \in Held' \cup mem' : e.seq <= lastSequence \/ e \in InGroup
        BY <1>3 DEF KnownApart
    <2>6. imm' # None => \A e \in imm' : e.seq <= lastSequence
        BY DEF KnownApart
    <2> QED BY <1>3, <2>2, <2>4, <2>5, <2>6 DEF KnownApart
<1>5. ManifestOrdered'
    <2> SUFFICES ASSUME NEW m \in manifest'
                 PROVE  /\ LevelsOK(m.version)
                        /\ Apart(Contents(m.version) \cup LoggedFrom(logs', m.logNumber))
                        /\ \A e \in Contents(m.version) : e.seq <= m.lastSequence
                        /\ \A k \in manifest' : k = m
                        /\ m.version = current' /\ m.logNumber = logNumber'
        BY DEF ManifestOrdered
    <2>1. Contents(m.version) \cup LoggedFrom(logs', m.logNumber) \subseteq Held'
        BY DEF Held
    <2>2. Apart(Held' \cup mem' \cup InGroup')
        BY <1>0, <1>4 DEF KnownApart
    <2>3. Apart(Contents(m.version) \cup LoggedFrom(logs', m.logNumber))
        BY <2>1, <2>2, ApartPart
    <2> QED BY <1>1, <2>3
<1>6. EditOrdered'
    BY DEF EditOrdered
<1>7. CompactionOrdered'
    BY DEF CompactionOrdered
<1>8. QuietOrdered'
    BY <1>0 DEF QuietOrdered
<1> QED BY <1>4, <1>5, <1>6, <1>7, <1>8

-----------------------------------------------------------------------------
LEMMA CurrentOrdered ==
    ASSUME Ordered, Running
    PROVE  /\ VersionOK(current) /\ Contents(current) \subseteq Held /\ Apart(Held)
           /\ InGroup \cup mem \cup Held \subseteq Entry
<1>1. Contents(current) \subseteq Held /\ Apart(Held \cup mem \cup InGroup)
    BY DEF Ordered, KnownApart, Held
<1>2. Apart(Held) /\ Apart(Contents(current))
    BY <1>1, ApartPart
<1>3. LevelsOK(current)
    BY DEF Ordered, ManifestOrdered
<1> QED BY <1>1, <1>2, <1>3 DEF VersionOK, Apart

LEMMA RecordsAreNumbers ==
    ASSUME DurableInv, edit # None \/ running = "opening"
    PROVE  edit.lastSequence \in Nat /\ edit.logNumber \in Nat
BY DEF DurableInv, ManifestOK, RecordOK, Backed

\* The numbers of a group are new.
LEMMA NumberedApart ==
    ASSUME NEW S, Apart(S), NEW n \in Nat, \A e \in S : e.seq <= n,
           NEW es \in Seq(Entry), \A i \in 1..Len(es) : es[i].seq = n + i
    PROVE  Apart(S \cup ToSet(es))
<1> DEFINE T == ToSet(es)
<1>1. Len(es) \in Nat /\ DOMAIN es = 1..Len(es) /\ \A i \in 1..Len(es) : es[i] \in Entry
    OBVIOUS
<1>2. \A e \in T : \E i \in 1..Len(es) : e = es[i]
    BY <1>1 DEF ToSet
<1>3. T \subseteq Entry /\ S \subseteq Entry /\ IsFiniteSet(S)
    BY <1>1, <1>2 DEF Apart
<1>4. IsFiniteSet(T)
    <2> DEFINE f == [i \in 1..Len(es) |-> es[i]]
    <2>1. f \in [1..Len(es) -> T]
        BY <1>1 DEF ToSet
    <2>2. \A e \in T : \E i \in 1..Len(es) : f[i] = e
        BY <1>2
    <2> HIDE DEF f, T
    <2>3. f \in Surjection(1..Len(es), T)
        BY <2>1, <2>2 DEF Surjection
    <2>4. IsFiniteSet(1..Len(es))
        BY <1>1, FS_Interval
    <2> QED BY <2>3, <2>4, FS_Surjection
<1>5. \A d, e \in T : d.seq = e.seq => d = e
    <2> SUFFICES ASSUME NEW i \in 1..Len(es), NEW j \in 1..Len(es), es[i].seq = es[j].seq
                 PROVE  es[i] = es[j]
        BY <1>2
    <2>1. n + i = n + j
        OBVIOUS
    <2>2. i = j
        BY <1>1, <2>1
    <2> QED BY <2>2
<1>6. \A d \in S, e \in T : d.seq # e.seq
    <2> SUFFICES ASSUME NEW d \in S, NEW i \in 1..Len(es), d.seq = es[i].seq PROVE FALSE
        BY <1>2
    <2>1. d.seq \in Nat /\ d.seq <= n /\ d.seq = n + i /\ i > 0
        BY <1>1, <1>3 DEF Entry
    <2> QED BY <1>1, <2>1
<1>7. IsFiniteSet(S \cup T)
    BY <1>3, <1>4, FS_Union
<1> HIDE DEF T
<1>8. Apart(S \cup T)
    BY <1>3, <1>5, <1>6, <1>7 DEF Apart
<1> QED BY <1>8 DEF T

LEMMA LeadGroupOrdered ==
    ASSUME Ordered, DurableInv, NEW t \in Thread, LeadGroup(t)
    PROVE  Ordered'
<1>1. /\ running = "open" /\ Running /\ writers # <<>> /\ Head(writers) = t /\ group = None
      /\ running' = running /\ manifest' = manifest /\ edit' = edit /\ lastSequence' = lastSequence
      /\ flush' = flush /\ compaction' = compaction
    BY DEF LeadGroup, Leader, Running
<1>2. /\ lastSequence \in Nat /\ nextFile \in Nat /\ FilesOK(logs)
      /\ nextFile \notin DOMAIN logs /\ QueueOK /\ writers \in Seq(Thread)
    BY <1>1 DEF DurableInv, NumbersOK, FilesOK, QueueOK
<1>3. /\ logNumber' = logNumber /\ current' = current /\ manual' = manual
      /\ \/ logs' = logs /\ mem' = mem /\ imm' = imm
         \/ /\ imm = None /\ imm' = mem /\ mem' = {}
            /\ logs' = Written(logs, nextFile, EmptyLog)
    BY DEF LeadGroup, MakeRoomForWrite, MaySwitchMemTable, SwitchMemTable, versions
<1>4. LoggedFrom(logs', logNumber) = LoggedFrom(logs, logNumber)
    BY <1>2, <1>3, LoggedNew
<1>5. /\ InGroup = {} /\ Apart(Held \cup mem)
      /\ \A e \in Held \cup mem : e.seq <= lastSequence
      /\ \A e \in Contents(current) : e.seq <= lastSequence
    <2>1. InGroup = {}
        BY <1>1 DEF InGroup
    <2> QED BY <1>1, <2>1, ApartPart DEF Ordered, KnownApart
<1>6. /\ Held \subseteq Held' /\ Held' \cup mem' \subseteq Held \cup mem
      /\ imm' # None => \A e \in imm' : e.seq <= lastSequence
    <2>1. Held' = Contents(current) \cup LoggedFrom(logs, logNumber)
                  \cup (IF imm' = None THEN {} ELSE imm')
        BY <1>3, <1>4 DEF Held
    <2>2. CASE mem' = mem /\ imm' = imm
        BY <1>1, <2>1, <2>2 DEF Held, Ordered, KnownApart
    <2>3. CASE imm = None /\ imm' = mem /\ mem' = {}
        BY <1>5, <2>1, <2>3 DEF Held
    <2> QED BY <1>3, <2>2, <2>3
<1>7. flush' # None => imm' # None
    BY <1>1, <1>3 DEF Ordered, KnownApart
<1>8. Apart(Held' \cup mem')
    BY <1>5, <1>6, ApartPart
<1>9. Apart(Held' \cup mem' \cup InGroup') /\ (group' # None => group'.left <= Len(group'.entries))
    <2>1. CASE request[t].batch = <<>>
        <3>1. group' = None
            BY <1>1, <2>1 DEF LeadGroup
        <3>2. InGroup' = {}
            BY <3>1 DEF InGroup
        <3>3. Held' \cup mem' \cup InGroup' = Held' \cup mem'
            BY <3>2
        <3> QED BY <1>8, <3>1, <3>3
    <2>2. CASE request[t].batch # <<>>
        <3>1. group' = BatchGroup(GroupLength)
            BY <2>2 DEF LeadGroup
        <3>2. writers[1] = t
            BY <1>1, <1>2, EmptySeq
        <3>3. PICK n \in 1..Len(writers) : n = GroupLength
            BY <1>1, <1>2, GroupLengthFacts
        <3>4. PICK g : g = BatchGroup(n)
            OBVIOUS
        <3>5. /\ g \in Group
              /\ \A i \in 1..Len(g.entries) : g.entries[i].seq = lastSequence + i
            BY <1>2, <2>2, <3>2, <3>4, BatchGroupFacts
        <3>6. group' = g
            BY <3>1, <3>3, <3>4
        <3>7. g.entries \in Seq(Entry) /\ g # None
            BY <3>5, NoneIsNothing DEF Group
        <3>8. InGroup' = ToSet(g.entries)
            BY <3>6, <3>7 DEF InGroup
        <3>9. \A e \in Held' \cup mem' : e.seq <= lastSequence
            BY <1>5, <1>6
        <3>10. Apart((Held' \cup mem') \cup ToSet(g.entries))
            BY <1>2, <1>8, <3>5, <3>7, <3>9, NumberedApart
        <3>11. g.left <= Len(g.entries)
            <4>1. g.left = Len(g.entries) /\ g.left \in Nat
                BY <1>2, <2>2, <3>2, <3>4, <3>5, BatchGroupFacts DEF Group
            <4> QED BY <4>1
        <3> QED BY <3>6, <3>8, <3>10, <3>11
    <2> QED BY <2>1, <2>2
<1>10. \A e \in Held' \cup mem' : e.seq <= lastSequence'
    BY <1>1, <1>5, <1>6
<1>11. \A e \in Contents(current') : e.seq <= lastSequence'
    BY <1>1, <1>3, <1>5
<1>12. KnownApart'
    BY <1>1, <1>6, <1>7, <1>9, <1>10, <1>11 DEF KnownApart
<1>13. edit # None \/ running = "opening" => edit.lastSequence <= lastSequence'
    BY <1>1 DEF Ordered, EditOrdered
<1> QED BY <1>1, <1>3, <1>6, <1>12, <1>13, KnownStep


\* A group goes on: its entries reach the log, and the memtable.
LEMMA GroupGoesOn ==
    ASSUME Ordered, DurableInv, group # None, group' # None,
           group'.entries = group.entries, group'.left <= Len(group.entries),
           UNCHANGED <<manifest, edit, running, imm, lastSequence, logNumber, current, manual,
                       flush, compaction>>,
           mem' \subseteq mem \cup InGroup,
           LoggedFrom(logs, logNumber) \subseteq LoggedFrom(logs', logNumber),
           LoggedFrom(logs', logNumber) \subseteq LoggedFrom(logs, logNumber) \cup InGroup
    PROVE  Ordered'
<1>1. Running /\ Running'
    BY GroupFacts DEF Running
<1>2. InGroup' = InGroup
    BY DEF InGroup
<1>3. Held \subseteq Held' /\ Held' \subseteq Held \cup InGroup
    <2>1. Held' = Contents(current) \cup LoggedFrom(logs', logNumber)
                  \cup (IF imm = None THEN {} ELSE imm)
        BY DEF Held
    <2> QED BY <2>1 DEF Held
<1>4. Held' \cup mem' \cup InGroup' \subseteq Held \cup mem \cup InGroup
    BY <1>2, <1>3
<1>5. Apart(Held' \cup mem' \cup InGroup')
    BY <1>1, <1>4, ApartPart DEF Ordered, KnownApart
<1>6. \A e \in Held' \cup mem' : e.seq <= lastSequence \/ e \in InGroup
    BY <1>1, <1>3 DEF Ordered, KnownApart
<1>7. KnownApart'
    BY <1>1, <1>2, <1>5, <1>6 DEF Ordered, KnownApart
<1>8. edit # None \/ running = "opening" => edit.lastSequence <= lastSequence'
    BY DEF Ordered, EditOrdered
<1> QED BY <1>1, <1>3, <1>7, <1>8, KnownStep

\* A group is over: its numbers are used up, its entries in the log or not.
LEMMA GroupIsOver ==
    ASSUME Ordered, DurableInv, group # None, group' = None,
           lastSequence' = lastSequence + Len(group.entries),
           UNCHANGED <<manifest, edit, running, mem, imm, logNumber, current, manual,
                       flush, compaction>>,
           LoggedFrom(logs, logNumber) \subseteq LoggedFrom(logs', logNumber),
           LoggedFrom(logs', logNumber) \subseteq LoggedFrom(logs, logNumber) \cup InGroup
    PROVE  Ordered'
<1>1. /\ running = "open" /\ Running /\ Running'
      /\ lastSequence \in Nat /\ Len(group.entries) \in Nat
      /\ \A e \in ToSet(group.entries) : e.seq <= lastSequence'
    BY GroupFacts DEF Running
<1>2. InGroup' = {} /\ InGroup = ToSet(group.entries)
    BY DEF InGroup
<1>3. Held \subseteq Held' /\ Held' \subseteq Held \cup InGroup
    <2>1. Held' = Contents(current) \cup LoggedFrom(logs', logNumber)
                  \cup (IF imm = None THEN {} ELSE imm)
        BY DEF Held
    <2> QED BY <2>1 DEF Held
<1>4. Held' \cup mem' \cup InGroup' \subseteq Held \cup mem \cup InGroup
    BY <1>2, <1>3
<1>5. Apart(Held' \cup mem' \cup InGroup')
    BY <1>1, <1>4, ApartPart DEF Ordered, KnownApart
<1>6. InGroup \cup mem \cup Held \subseteq Entry
    BY <1>1, CurrentOrdered
<1>7. ASSUME NEW e \in Entry, e.seq <= lastSequence PROVE e.seq <= lastSequence'
    BY <1>1, <1>7 DEF Entry
<1>8. \A e \in Held' \cup mem' : e.seq <= lastSequence'
    <2>1. \A e \in Held \cup mem : e.seq <= lastSequence \/ e \in InGroup
        BY <1>1 DEF Ordered, KnownApart
    <2> QED BY <1>1, <1>2, <1>3, <1>6, <1>7, <2>1
<1>9. Contents(current) \subseteq Held /\ (imm # None => imm \subseteq Held)
    BY DEF Held
<1>10. /\ \A e \in Contents(current) : e.seq <= lastSequence'
       /\ imm # None => \A e \in imm : e.seq <= lastSequence'
    BY <1>3, <1>8, <1>9
<1>11. KnownApart'
    <2>1. flush # None => imm # None
        BY <1>1 DEF Ordered, KnownApart
    <2> QED BY <1>5, <1>8, <1>10, <2>1 DEF KnownApart
<1>12. edit # None \/ running = "opening" => edit.lastSequence <= lastSequence'
    BY <1>1, RecordsAreNumbers DEF Ordered, EditOrdered
<1> QED BY <1>1, <1>3, <1>11, <1>12, KnownStep

LEMMA GroupStepOrdered == ASSUME Ordered, DurableInv, GroupStep PROVE Ordered'
<1>1. group # None
    BY DEF GroupStep, AddRecord, Sync, InsertEntry, FinishWrite
<1>2. /\ running = "open" /\ group \in Group /\ group.entries \in Record /\ FilesOK(logs)
      /\ logfile \in DOMAIN logs /\ Len(group.entries) \in Nat /\ group.left \in Nat
      /\ group.left <= Len(group.entries) /\ InGroup = ToSet(group.entries)
    <2>1. running = "open" /\ group \in Group /\ group.entries \in Record
        BY <1>1, GroupFacts
    <2>2. FilesOK(logs) /\ logfile \in DOMAIN logs
        BY <2>1 DEF DurableInv, NumbersOK, Running
    <2>3. group.left \in Nat /\ Len(group.entries) \in Nat
        BY <1>1, <2>1, GroupFacts DEF Group
    <2>4. group.left <= Len(group.entries)
        BY <1>1, <2>1 DEF Ordered, KnownApart, Running
    <2> QED BY <1>1, <2>1, <2>2, <2>3, <2>4 DEF InGroup
<1> USE DEF disk, memory, versions, background
<1>3. CASE AddRecord
    <2>1. /\ logs' = Appended(logs, logfile, group.entries)
          /\ group' = [group EXCEPT !.step = IF group.sync THEN "sync" ELSE "insert"]
        BY <1>3 DEF AddRecord, Appended
    <2>2. group' \in Group /\ group'.entries = group.entries /\ group'.left = group.left
        BY <1>2, <2>1 DEF Group
    <2>3. group' # None
        BY <2>2, NoneIsNothing
    <2>4. /\ LoggedFrom(logs, logNumber) \subseteq LoggedFrom(logs', logNumber)
          /\ LoggedFrom(logs', logNumber) \subseteq LoggedFrom(logs, logNumber) \cup InGroup
        BY <1>2, <2>1, LoggedMore
    <2> QED BY <1>1, <1>2, <1>3, <2>2, <2>3, <2>4, GroupGoesOn DEF AddRecord
<1>4. CASE Sync
    <2>1. /\ logs' = [logs EXCEPT ![logfile].synced = Len(logs[logfile].records)]
          /\ group' = [group EXCEPT !.step = "insert"]
        BY <1>4 DEF Sync
    <2>2. group' \in Group /\ group'.entries = group.entries /\ group'.left = group.left
        BY <1>2, <2>1 DEF Group
    <2>3. group' # None
        BY <2>2, NoneIsNothing
    <2>4. DOMAIN logs' = DOMAIN logs /\ \A n \in DOMAIN logs : logs'[n].records = logs[n].records
        BY <1>2, <2>1, SyncFacts
    <2>5. LoggedFrom(logs', logNumber) = LoggedFrom(logs, logNumber)
        BY <2>4 DEF LoggedFrom
    <2> QED BY <1>1, <1>2, <1>4, <2>2, <2>3, <2>5, GroupGoesOn DEF Sync
<1>5. CASE InsertEntry
    <2>1. PICK e : e = group.entries[Len(group.entries) - group.left + 1]
        OBVIOUS
    <2>2. /\ group.left > 0 /\ mem' = mem \cup {e} /\ group' = [group EXCEPT !.left = @ - 1]
        BY <1>5, <2>1 DEF InsertEntry
    <2>3. PICK i \in Nat : i = Len(group.entries) - group.left + 1 /\ i \in 1..Len(group.entries)
        BY <1>2, <2>2
    <2>4. e \in InGroup
        BY <1>2, <2>1, <2>3 DEF ToSet, Record
    <2>5. group.left - 1 \in Nat /\ group.left - 1 <= Len(group.entries)
        BY <1>2, <2>2
    <2>6. group' \in Group /\ group'.entries = group.entries /\ group'.left = group.left - 1
        BY <1>2, <2>2, <2>5 DEF Group
    <2>7. group' # None
        BY <2>6, NoneIsNothing
    <2>8. logs' = logs /\ mem' \subseteq mem \cup InGroup
        BY <1>5, <2>2, <2>4 DEF InsertEntry
    <2> QED BY <1>1, <1>5, <2>5, <2>6, <2>7, <2>8, GroupGoesOn DEF InsertEntry
<1>6. CASE FinishWrite
    BY <1>1, <1>6, GroupIsOver DEF FinishWrite
<1> QED BY <1>3, <1>4, <1>5, <1>6 DEF GroupStep

LEMMA GroupFailsOrdered ==
    ASSUME Ordered, DurableInv, AddRecordFails \/ SyncFails
    PROVE  Ordered'
<1>1. /\ group # None /\ group' = None /\ lastSequence' = lastSequence + Len(group.entries)
      /\ UNCHANGED <<manifest, edit, running, mem, imm, logNumber, current, manual, flush,
                     compaction>>
    BY DEF AddRecordFails, SyncFails, GroupFails, versions
<1>2. /\ LoggedFrom(logs, logNumber) \subseteq LoggedFrom(logs', logNumber)
      /\ LoggedFrom(logs', logNumber) \subseteq LoggedFrom(logs, logNumber) \cup InGroup
    <2>1. CASE SyncFails
        BY <2>1 DEF SyncFails
    <2>2. CASE AddRecordFails
        <3>1. PICK record \in {group.entries, Torn} : logs' = Appended(logs, logfile, record)
            BY <2>2 DEF AddRecordFails, Appended
        <3>2. running = "open" /\ group.entries \in Record /\ Torn \in Record
            BY <1>1, GroupFacts, EmptySeq DEF Torn, Record
        <3>3. FilesOK(logs) /\ logfile \in DOMAIN logs /\ record \in Record
            BY <3>1, <3>2 DEF DurableInv, NumbersOK, Running
        <3>4. ToSet(record) \subseteq InGroup
            BY <1>1, <3>1 DEF InGroup, Torn, ToSet
        <3> QED BY <3>1, <3>3, <3>4, LoggedMore
    <2> QED BY <2>1, <2>2
<1> QED BY <1>1, <1>2, GroupIsOver

-----------------------------------------------------------------------------
\* Steps of clients and of the flush of a memtable.
LEMMA ClientOrdered ==
    ASSUME Ordered, DurableInv,
           \/ \E t \in Thread : \E b, sync : Write(t, b, sync)
           \/ \E t \in Thread : LeaderFails(t)
           \/ \E h \in Handle : GetSnapshot(h) \/ ReleaseSnapshot(h)
           \/ \E r \in Reader, s \in 0..MaxSeq : BeginRead(r, s)
           \/ \E r \in Reader : EndRead(r)
           \/ UNCHANGED vars
    PROVE  Ordered'
<1>1. UNCHANGED <<logs, manifest, edit, running, mem, imm, group, lastSequence, logNumber,
                  current, manual, compaction, flush>>
    BY DEF Write, LeaderFails, GetSnapshot, ReleaseSnapshot, BeginRead, EndRead, vars, disk,
       writing,
           memory, versions, background
<1>2. /\ flush # None => imm # None
      /\ edit # None /\ running = "open" => flush # None \/ compaction # None
    BY DEF Ordered, KnownApart, EditOrdered, DurableInv, IdleOK, Running
<1> QED BY <1>1, <1>2, OrderedFrame

LEMMA NoRanges ==
    ASSUME Ordered
    PROVE  ~ArmManual /\ ~RangeReturns /\ ~Armed /\ ~CompactRange /\ ~NullManual
<1>1. manual = None /\ (compaction # None => ~compaction.manual)
    BY DEF Ordered, QuietOrdered, CompactionOrdered
<1> QED BY <1>1 DEF ArmManual, RangeReturns, Armed, CompactRange, NullManual, Cancelled

\* The files of an edit that adds one, or none.
LEMMA SaveFacts ==
    ASSUME NEW v \in Version, NEW l \in Level, NEW files
    PROVE  /\ SaveTo(v, NoFiles, NoFiles) = v
           /\ SaveTo(v, NoFiles, [NoFiles EXCEPT ![l] = files]) = Joined(v, l, files)
<1>1. \A k \in Level :
          NoFiles[k] = {} /\ [NoFiles EXCEPT ![l] = files][k] = IF k = l THEN files ELSE {}
    BY DEF NoFiles
<1>2. v = [k \in Level |-> v[k]]
    BY DEF Version
<1> QED BY <1>1, <1>2 DEF SaveTo, Joined

LEMMA WriteLevel0TableOrdered ==
    ASSUME Ordered, DurableInv, TablesInv, WriteLevel0Table
    PROVE  Ordered'
<1>1. /\ flush # None /\ edit = None /\ running = "open" /\ Running /\ Running'
      /\ running' = running
      /\ UNCHANGED <<logs, manifest, mem, imm, group, lastSequence, logNumber, current, manual,
                     flush, compaction>>
    BY DEF WriteLevel0Table, DurableInv, IdleOK, Running, writing, memory, versions
<1>2. /\ VersionOK(current) /\ Contents(current) \subseteq Held /\ Apart(Held)
      /\ imm # None /\ imm \subseteq Held /\ Held' = Held
      /\ \A e \in Contents(current) \cup imm : e.seq <= lastSequence
    BY <1>1, CurrentOrdered DEF Held, Ordered, KnownApart
<1>3. flush \in Nat /\ lastSequence \in Nat /\ logfile >= logNumber
    BY <1>1 DEF TablesInv, FlushApart, DurableInv, NumbersOK
<1>4. PICK level, f, e :
          /\ f = NewFile(flush, imm)
          /\ level = PickLevelForMemTableOutput(current, f.smallest.key, f.largest.key)
          /\ e = [NoEdit EXCEPT !.logNumber = logfile]
    OBVIOUS
<1>5. e = [deleted |-> NoFiles, added |-> NoFiles, logNumber |-> logfile,
           nextFile |-> nextFile, lastSequence |-> lastSequence, pointer |-> <<0, NoEntry>>]
    BY <1>4 DEF NoEdit
<1>6. f.smallest = Smallest(imm) /\ f.largest = Largest(imm)
    BY <1>4 DEF NewFile
<1>7. \/ imm = {} /\ edit' = e
      \/ imm # {} /\ edit' = [e EXCEPT !.added[level] = {f}]
    BY <1>4, <1>6 DEF WriteLevel0Table
<1>8. edit'.logNumber = logfile /\ edit'.lastSequence = lastSequence
    BY <1>5, <1>7
<1>9. PICK w : w = EditedVersion'
    OBVIOUS
<1>10. w = SaveTo(current, edit'.deleted, edit'.added)
    BY <1>1, <1>9 DEF EditedVersion
<1>11. /\ LevelsOK(w) /\ Contents(w) \subseteq Contents(current) \cup imm
       /\ InputsStay(current, w)
    <2>1. LevelsOK(current) /\ current \in Version /\ 0 \in Level
        BY <1>2, LevelNumbers DEF VersionOK, LevelsOK
    <2>2. CASE imm = {} /\ edit' = e
        <3>1. w = current
            BY <1>5, <1>10, <2>1, <2>2, SaveFacts
        <3> QED BY <2>1, <3>1 DEF InputsStay
    <2>3. CASE imm # {} /\ edit' = [e EXCEPT !.added[level] = {f}]
        <3>1. level \in Level
            BY <1>4, PickLevelFacts
        <3>2. edit'.deleted = NoFiles /\ edit'.added = [NoFiles EXCEPT ![level] = {f}]
            BY <1>5, <2>3
        <3>3. w = Joined(current, level, {f})
            BY <1>10, <2>1, <3>1, <3>2, SaveFacts
        <3>4. Apart(Contents(current) \cup imm)
            BY <1>2, ApartPart
        <3>5. f = NewFile(flush, imm) /\ imm # {} /\ flush \in Nat
              /\ level = PickLevelForMemTableOutput(current, f.smallest.key, f.largest.key)
            BY <1>3, <1>4, <2>3
        <3>6. LevelsOK(w) /\ InputsStay(current, w)
            BY <2>1, <3>3, <3>4, <3>5, FlushOrdered
        <3>7. Contents(w) \subseteq Contents(current) \cup f.entries /\ f.entries = imm
            BY <3>3, <3>5, JoinedContents DEF NewFile
        <3> QED BY <3>6, <3>7
    <2> QED BY <1>7, <2>2, <2>3
<1>12. EditOrdered'
    <2>1. Contents(w) \subseteq Held' /\ \A e1 \in Contents(w) : e1.seq <= lastSequence
        BY <1>2, <1>11
    <2> QED BY <1>1, <1>3, <1>8, <1>9, <1>11, <2>1 DEF EditOrdered
<1>13. CompactionOrdered'
    <2>1. \A c : InputsOK(current, c) /\ Solid(c.mine \cup c.theirs) => InputsOK(EditedVersion', c)
        BY <1>9, <1>11 DEF InputsStay
    <2> QED BY <1>1, <2>1 DEF Ordered, CompactionOrdered
<1> QED BY <1>1, <1>2, <1>12, <1>13, OrderedEdit

\* The record of a flush or of a compaction is written.
LEMMA RecordInstalls ==
    ASSUME Ordered, DurableInv, running = "open", edit # None, AppendVersion,
           UNCHANGED <<running, mem, group, lastSequence, manual>>,
           imm' = imm \/ imm' = None, flush' = None,
           compaction' = None \/ compaction' = compaction,
           logs' = logs \/ logs' = Restrict(logs, {n \in DOMAIN logs : n >= logNumber'})
    PROVE  Ordered'
<1>1. Running /\ FilesOK(logs) /\ lastSequence \in Nat /\ logNumber \in Nat
    BY DEF Running, DurableInv, NumbersOK
<1>2. edit.logNumber \in Nat /\ edit.lastSequence \in Nat
    BY RecordsAreNumbers
<1>3. /\ manifest' = {Apply(m, edit) : m \in manifest} /\ current' = EditedVersion
      /\ logNumber' = edit.logNumber /\ edit' = None
    BY DEF AppendVersion, AppendVersionTo, EditedVersion
<1>4. /\ manifest # {}
      /\ \A m \in manifest : m.version = current /\ \A k \in manifest : k = m
    BY <1>1 DEF Ordered, ManifestOrdered
<1>5. \A m \in manifest : /\ Apply(m, edit).version = EditedVersion
                          /\ Apply(m, edit).logNumber = edit.logNumber
                          /\ Apply(m, edit).lastSequence = edit.lastSequence
    BY <1>4 DEF Apply, EditedVersion
<1>6. manifest' # {}
    BY <1>3, <1>4
<1>7. \A m \in manifest' : /\ m.version = EditedVersion /\ m.logNumber = edit.logNumber
                           /\ m.lastSequence = edit.lastSequence
                           /\ \A k \in manifest' : k = m
    BY <1>3, <1>4, <1>5
<1>8. \A n \in DOMAIN logs' : n \in DOMAIN logs /\ logs'[n] = logs[n]
    BY <1>1, RestrictFacts
<1> QED BY <1>1, <1>2, <1>3, <1>6, <1>7, <1>8, OrderedInstall

LEMMA FlushStepOrdered ==
    ASSUME Ordered, DurableInv, TablesInv, Flush
    PROVE  Ordered'
<1>1. running = "open" /\ Running
    BY DEF Flush, CompactMemTable, WriteLevel0Table, FlushInstalled, DurableInv, IdleOK, Running
<1>2. CASE CompactMemTable
    <2>1. edit # None /\ running = "open" => compaction # None
        BY <1>2 DEF CompactMemTable, Ordered, EditOrdered
    <2> QED BY <1>2, <2>1, OrderedFrame DEF CompactMemTable, disk, writing, memory
<1>3. CASE WriteLevel0Table
    BY <1>3, WriteLevel0TableOrdered
<1>4. CASE FlushInstalled
    <2>1. logs' = logs \/ logs' = Restrict(logs, {n \in DOMAIN logs : n >= logNumber'})
        BY <1>4 DEF FlushInstalled, DeleteObsoleteFiles
    <2> QED BY <1>1, <1>4, <2>1, RecordInstalls DEF FlushInstalled, writing
<1> QED BY <1>2, <1>3, <1>4 DEF Flush

LEMMA FlushFailsOrdered ==
    ASSUME Ordered, DurableInv, FlushFails, edit = None
    PROVE  Ordered'
<1>1. running = "open" /\ flush' = None
    BY DEF FlushFails, DurableInv, IdleOK
<1> QED BY <1>1, OrderedFrame DEF FlushFails, writing

-----------------------------------------------------------------------------
\* Compactions.
\*
\* The record of a compaction or of a move takes out the inputs and adds the outputs.
LEMMA ReplacedOrdered ==
    ASSUME Ordered, DurableInv, running = "open", compaction' # None,
           UNCHANGED <<logs, running, imm, lastSequence, logNumber, current>>,
           NEW c, InputsOK(current, c), NEW outs \in SUBSET File,
           \A f \in outs : TableOK(f) /\ f.entries \subseteq EntriesOf(c.mine \cup c.theirs),
           \A f, g \in outs : f # g => Beside(f.entries, g.entries),
           edit'.logNumber = logNumber, edit'.lastSequence = lastSequence,
           edit'.deleted[c.level + 1] = c.theirs,
           edit'.added = [NoFiles EXCEPT ![c.level + 1] = outs]
    PROVE  EditOrdered'
<1>1. /\ Running /\ Running' /\ Held' = Held /\ logNumber \in Nat /\ lastSequence \in Nat
    BY DEF Running, Held, DurableInv, NumbersOK
<1>2. /\ VersionOK(current) /\ Contents(current) \subseteq Held
      /\ \A e \in Contents(current) : e.seq <= lastSequence
    BY <1>1, CurrentOrdered DEF Ordered, KnownApart
<1>3. PICK w : w = EditedVersion'
    OBVIOUS
<1>4. w = [l \in Level |-> (current[l] \ edit'.deleted[l]) \cup edit'.added[l]]
    BY <1>3 DEF EditedVersion, SaveTo
<1>5. c.level + 1 \in Level
    BY LevelNumbers DEF InputsOK
<1>6. \A l \in Level : edit'.added[l] = IF l = c.level + 1 THEN outs ELSE {}
    BY <1>5 DEF NoFiles
<1>7. /\ w = [l \in Level |-> w[l]]
      /\ \A l \in Level : l # c.level + 1 => w[l] \subseteq current[l]
      /\ w[c.level + 1] = (current[c.level + 1] \ c.theirs) \cup outs
    BY <1>4, <1>5, <1>6
<1>8. LevelsOK(w) /\ Contents(w) \subseteq Contents(current)
    BY <1>2, <1>7, InstallOrdered
<1> QED BY <1>1, <1>2, <1>3, <1>8 DEF EditOrdered

MoveEdit(c) ==
    [NoEdit EXCEPT !.deleted[c.level] = c.mine, !.added[c.level + 1] = c.mine,
                   !.pointer = <<c.level, PointerAfter(c)>>]
MergeEdit(c, outputs) ==
    [NoEdit EXCEPT !.deleted[c.level] = c.mine, !.deleted[c.level + 1] = c.theirs,
                   !.added[c.level + 1] = outputs, !.pointer = <<c.level, PointerAfter(c)>>]

LEMMA CompactionEdits ==
    ASSUME NEW c, InputsOK(current, c), NEW e, NEW outs,
           (c.theirs = {} /\ outs = c.mine /\ e = MoveEdit(c)) \/ e = MergeEdit(c, outs)
    PROVE  /\ e.logNumber = logNumber /\ e.lastSequence = lastSequence
           /\ e.deleted[c.level] = c.mine /\ e.deleted[c.level + 1] = c.theirs
           /\ e.added = [NoFiles EXCEPT ![c.level + 1] = outs]
<1>1. /\ c.level \in Level /\ c.level + 1 \in Level /\ c.level # c.level + 1
    BY LevelNumbers DEF InputsOK
<1>2. /\ NoEdit.deleted = NoFiles /\ NoEdit.added = NoFiles
      /\ NoFiles[c.level + 1] = {} /\ DOMAIN NoFiles = Level
    BY <1>1 DEF NoEdit, NoFiles
<1> HIDE DEF NoFiles
<1>3. CASE c.theirs = {} /\ outs = c.mine /\ e = MoveEdit(c)
    BY <1>1, <1>2, <1>3 DEF NoEdit, MoveEdit
<1>4. CASE e = MergeEdit(c, outs)
    BY <1>1, <1>2, <1>4 DEF NoEdit, MergeEdit
<1> QED BY <1>3, <1>4

LEMMA FilesFinite ==
    ASSUME TablesInv, Running
    PROVE  IsFiniteSet(Files(current))
<1>1. \A l \in Level : IsFiniteSet(current[l])
    BY DEF TablesInv, CurrentStored, Stored, StoredFiles
<1>2. IsFiniteSet(Level)
    BY Config, FS_Interval DEF Level
<1> DEFINE levels == {current[l] : l \in Level}
<1>3. IsFiniteSet(levels)
    <2> DEFINE f == [l \in Level |-> current[l]]
    <2>1. f \in Surjection(Level, levels)
        BY DEF Surjection
    <2> HIDE DEF f, levels
    <2> QED BY <1>2, <2>1, FS_Surjection
<1>4. IsFiniteSet(UNION levels)
    BY <1>1, <1>3, FS_UNION
<1> QED BY <1>4 DEF Files

LEMMA StartTurnOrdered ==
    ASSUME Ordered, DurableInv, TablesInv, CompactSomeFiles
    PROVE  Ordered'
<1>1. /\ running = "open" /\ Running /\ flush = None /\ compaction = None /\ flush' = flush
      /\ UNCHANGED <<logs, manifest, running, mem, imm, group, lastSequence, logNumber, current,
                     manual>>
    BY DEF CompactSomeFiles, Turn, DurableInv, IdleOK, Running, memory, writing
<1>2. edit = None
    BY <1>1 DEF Ordered, EditOrdered
<1>3. VersionOK(current)
    BY <1>1, CurrentOrdered
<1>4. PICK level \in 0..(NumLevels - 2) :
          \E f \in current[level] : \E c :
              /\ c = PickCompaction(current, level, f)
              /\ IF IsTrivialMove(c) THEN StartMove(c) ELSE StartCompaction(c)
    BY DEF CompactSomeFiles
<1>5. PICK f \in current[level] :
          \E c : /\ c = PickCompaction(current, level, f)
                 /\ IF IsTrivialMove(c) THEN StartMove(c) ELSE StartCompaction(c)
    BY <1>4
<1>6. PICK c : /\ c = PickCompaction(current, level, f)
               /\ IF IsTrivialMove(c) THEN StartMove(c) ELSE StartCompaction(c)
    BY <1>5
<1>7. /\ InputsOK(current, c) /\ Solid(c.mine \cup c.theirs)
      /\ c.grandparents \subseteq Files(current) /\ c \in Compaction
    BY <1>3, <1>6, PickCompactionFacts
<1>8. /\ c.mine \cup c.theirs \subseteq Files(current) /\ IsFiniteSet(c.mine)
      /\ EntriesOf(c.mine \cup c.theirs) \subseteq Contents(current)
      /\ \A g \in c.mine : g \in File /\ TableOK(g)
    <2>1. c.level \in Level /\ c.level + 1 \in Level
        BY <1>7, LevelNumbers DEF InputsOK
    <2>2. c.mine \subseteq current[c.level] /\ c.theirs \subseteq current[c.level + 1]
        BY <1>7 DEF InputsOK
    <2>3. c.mine \cup c.theirs \subseteq Files(current)
        BY <2>1, <2>2 DEF Files
    <2>4. IsFiniteSet(current[c.level])
        BY <1>1, <2>1 DEF TablesInv, CurrentStored, Stored, StoredFiles
    <2>5. IsFiniteSet(c.mine)
        BY <2>2, <2>4, FS_Subset
    <2>6. EntriesOf(c.mine \cup c.theirs) \subseteq Contents(current)
        BY <2>3 DEF Contents, EntriesOf
    <2>7. \A g \in c.mine : g \in File /\ TableOK(g)
        <3>1. c.mine \subseteq File
            BY <1>7 DEF Compaction
        <3>2. \A g \in c.mine : FileOK(g)
            BY <1>3, <2>1, <2>2, VersionFiles
        <3> QED BY <3>1, <3>2 DEF FileOK
    <2> QED BY <2>3, <2>5, <2>6, <2>7
<1>9. /\ <<>> \in Seq(SUBSET Entry) /\ {} \in SUBSET File /\ c.base \in Version
      /\ c.base = current
    <2>1. c.base = current
        BY <1>6 DEF PickCompaction, SetupOtherInputs
    <2> QED BY <1>7, <2>1 DEF Compaction
<1>10. CASE IsTrivialMove(c)
    <2>1. StartMove(c)
        BY <1>6, <1>10
    <2>2. compaction' = [inputs |-> c, base |-> c.base, manual |-> FALSE,
                         todo |-> <<>>, outputs |-> {}, step |-> "move"]
        BY <2>1 DEF StartMove
    <2>3. compaction' \in CompactionState
        BY <1>7, <1>9, <2>2 DEF CompactionState
    <2>4. compaction' # None
        BY <2>3, NoneIsNothing
    <2>5. CompactionOrdered'
        BY <2>2, <2>3 DEF CompactionOrdered
    <2>6. c.theirs = {} /\ \E g : c.mine = {g}
        BY <1>8, <1>10, FS_Singleton DEF IsTrivialMove
    <2>7. PICK g : c.mine = {g}
        BY <2>6
    <2>8. g \in File /\ TableOK(g) /\ g.entries \subseteq EntriesOf(c.mine \cup c.theirs)
        BY <1>8, <2>7 DEF EntriesOf
    <2>9. edit' = MoveEdit(c)
        BY <2>1 DEF StartMove, MoveEdit
    <2>10. c.theirs = {} /\ edit' = MoveEdit(c)
        BY <2>6, <2>9
    <2>11. /\ edit'.logNumber = logNumber /\ edit'.lastSequence = lastSequence
           /\ edit'.deleted[c.level + 1] = c.theirs
           /\ edit'.added = [NoFiles EXCEPT ![c.level + 1] = c.mine]
        BY <1>7, <2>10, CompactionEdits
    <2>12. /\ c.mine \in SUBSET File
           /\ \A h \in c.mine :
                  TableOK(h) /\ h.entries \subseteq EntriesOf(c.mine \cup c.theirs)
           /\ \A h, k \in c.mine : h # k => Beside(h.entries, k.entries)
        BY <2>7, <2>8
    <2>13. EditOrdered'
        <3>1. UNCHANGED <<logs, running, imm, lastSequence, logNumber, current>>
            BY <1>1
        <3> HIDE DEF InputsOK, File, Entry
        <3> QED BY <1>1, <1>7, <2>4, <2>11, <2>12, <3>1, ReplacedOrdered
    <2> QED BY <1>1, <2>5, <2>13, OrderedEdit
<1>11. CASE ~IsTrivialMove(c)
    <2>1. StartCompaction(c) /\ manual = None
        BY <1>6, <1>11 DEF Ordered, QuietOrdered
    <2>2. PICK todo : todo = CompactionOutputs(c, OldestSnapshot)
        OBVIOUS
    <2>3. /\ compaction' = [inputs |-> c, base |-> c.base, manual |-> FALSE,
                            todo |-> todo, outputs |-> {}, step |-> "work"]
          /\ edit' = edit
        BY <2>1, <2>2 DEF StartCompaction, Armed
    <2>4. PICK taken : taken = EntriesOf(c.mine \cup c.theirs)
        OBVIOUS
    <2>5. Apart(taken)
        BY <1>3, <1>8, <2>4, ApartPart DEF VersionOK
    <2>6. IsFiniteSet(c.grandparents) /\ \A g \in c.grandparents : IsFiniteSet(g.entries)
        <3>3. IsFiniteSet(c.grandparents)
            BY <1>1, <1>7, FilesFinite, FS_Subset
        <3>4. \A g \in Files(current) : FileOK(g)
            BY <1>3, VersionFiles DEF Files
        <3> QED BY <1>7, <3>3, <3>4 DEF FileOK, Apart
    <2>7. /\ todo \in Seq(SUBSET taken)
          /\ \A i \in 1..Len(todo) :
                 /\ todo[i] # {}
                 /\ \A j \in 1..Len(todo) : i < j => Precedes(todo[i], todo[j])
        BY <2>2, <2>4, <2>5, <2>6, CompactionOutputsFacts
    <2>8. OutputsOrdered(taken, {}, todo)
        BY <2>7 DEF OutputsOrdered
    <2>9. compaction' \in CompactionState
        <3>1. taken \subseteq Entry
            BY <2>5 DEF Apart
        <3>2. todo \in Seq(SUBSET Entry)
            <4>1. SUBSET taken \subseteq SUBSET Entry
                BY <3>1
            <4> HIDE DEF Entry
            <4>2. \A i \in 1..Len(todo) : todo[i] \in SUBSET Entry
                BY <2>7, <4>1
            <4>3. /\ Len(todo) \in Nat /\ DOMAIN todo = 1..Len(todo)
                      /\ todo = [i \in 1..Len(todo) |-> todo[i]]
                BY <2>7
            <4> QED BY <4>2, <4>3
        <3> QED BY <1>7, <1>9, <2>3, <3>2 DEF CompactionState
    <2>10. CompactionOrdered'
        BY <1>1, <1>2, <1>7, <2>3, <2>4, <2>8, <2>9 DEF CompactionOrdered
    <2>11. EditOrdered'
        BY <1>1, <1>2, <2>3 DEF EditOrdered
    <2> QED BY <1>1, <2>10, <2>11, OrderedEdit
<1> QED BY <1>10, <1>11

\* One output follows those that were made, and the ones to come follow it.
LEMMA OutputMade ==
    ASSUME NEW taken, Apart(taken), NEW made, NEW todo, OutputsOrdered(taken, made, todo),
           todo # <<>>, NEW n \in Nat, NEW f, f = NewFile(n, Head(todo))
    PROVE  /\ f \in File /\ OutputsOrdered(taken, made \cup {f}, Tail(todo))
           /\ todo \in Seq(SUBSET Entry) => Tail(todo) \in Seq(SUBSET Entry)
<1>1. /\ todo \in Seq(SUBSET taken) /\ Len(todo) \in Nat /\ 1 \in 1..Len(todo)
      /\ Head(todo) = todo[1]
    <2>1. todo \in Seq(SUBSET taken)
        BY DEF OutputsOrdered
    <2> QED BY <2>1
<1>2. /\ Tail(todo) \in Seq(SUBSET taken) /\ Len(Tail(todo)) = Len(todo) - 1
      /\ \A i \in 1..(Len(todo) - 1) : Tail(todo)[i] = todo[i + 1] /\ i + 1 \in 1..Len(todo)
    BY <1>1
<1>3. todo[1] # {} /\ todo[1] \subseteq taken /\ Apart(todo[1])
    <2>1. todo[1] \in SUBSET taken
        BY <1>1
    <2> QED BY <1>1, <2>1, ApartPart DEF OutputsOrdered
<1>4. f \in File /\ TableOK(f) /\ f.entries = todo[1]
    BY <1>1, <1>3, NewFileType DEF NewFile
<1>5. \A g \in made : Beside(g.entries, f.entries) /\ Beside(f.entries, g.entries)
    BY <1>1, <1>4 DEF OutputsOrdered, Beside
<1>6. \A i \in 1..Len(todo) : 1 < i => Precedes(f.entries, todo[i])
    BY <1>1, <1>4 DEF OutputsOrdered
<1>7. ASSUME NEW i \in 1..Len(Tail(todo))
      PROVE  /\ Tail(todo)[i] # {}
             /\ \A j \in 1..Len(Tail(todo)) : i < j => Precedes(Tail(todo)[i], Tail(todo)[j])
             /\ \A g \in made \cup {f} : Precedes(g.entries, Tail(todo)[i])
    <2>1. i + 1 \in 1..Len(todo) /\ 1 < i + 1 /\ Tail(todo)[i] = todo[i + 1]
        BY <1>1, <1>2
    <2>2. /\ todo[i + 1] # {}
          /\ \A j \in 1..Len(todo) : i + 1 < j => Precedes(todo[i + 1], todo[j])
          /\ \A g \in made : Precedes(g.entries, todo[i + 1])
        BY <2>1 DEF OutputsOrdered
    <2>3. ASSUME NEW j \in 1..Len(Tail(todo)), i < j
          PROVE  Precedes(Tail(todo)[i], Tail(todo)[j])
        <3>1. j + 1 \in 1..Len(todo) /\ i + 1 < j + 1 /\ Tail(todo)[j] = todo[j + 1]
            BY <1>1, <1>2, <2>3
        <3> QED BY <2>1, <2>2, <3>1
    <2> QED BY <1>6, <2>1, <2>2, <2>3
<1>8. OutputsOrdered(taken, made \cup {f}, Tail(todo))
    <2>1. made \cup {f} \subseteq File
        BY <1>4 DEF OutputsOrdered
    <2>2. \A g \in made \cup {f} : TableOK(g) /\ g.entries \subseteq taken
        BY <1>3, <1>4 DEF OutputsOrdered
    <2>3. \A g, h \in made \cup {f} : g # h => Beside(g.entries, h.entries)
        BY <1>5 DEF OutputsOrdered
    <2> QED BY <1>2, <1>7, <2>1, <2>2, <2>3 DEF OutputsOrdered
<1>9. todo \in Seq(SUBSET Entry) => Tail(todo) \in Seq(SUBSET Entry)
    OBVIOUS
<1> QED BY <1>4, <1>8, <1>9

\* What a compaction takes is apart.
LEMMA TakenApart ==
    ASSUME Ordered, Running, NEW c, InputsOK(current, c)
    PROVE  Apart(EntriesOf(c.mine \cup c.theirs))
<1>1. VersionOK(current)
    BY CurrentOrdered
<1>2. c.level \in Level /\ c.level + 1 \in Level
    BY LevelNumbers DEF InputsOK
<1>3. EntriesOf(c.mine \cup c.theirs) \subseteq Contents(current)
    BY <1>2 DEF InputsOK, Contents, EntriesOf, Files
<1> QED BY <1>1, <1>3, ApartPart DEF VersionOK

LEMMA CompactionOutputOrdered ==
    ASSUME Ordered, DurableInv, CompactionOutput
    PROVE  Ordered'
<1>1. /\ running = "open" /\ Running /\ compaction # None /\ compaction.step = "work"
      /\ compaction.todo # <<>> /\ flush = None /\ flush' = flush
      /\ UNCHANGED <<logs, manifest, edit, running, mem, imm, group, lastSequence, logNumber,
                     current, manual>>
    BY DEF CompactionOutput, DurableInv, IdleOK, Running, memory, writing
<1>2. PICK c, f, made, todo :
          /\ c = compaction.inputs /\ made = compaction.outputs /\ todo = compaction.todo
          /\ f = NewFile(nextFile, Head(todo))
    OBVIOUS
<1>3. compaction' = [compaction EXCEPT !.todo = Tail(@), !.outputs = @ \cup {f}]
    BY <1>2 DEF CompactionOutput
<1>4. /\ compaction \in CompactionState /\ ~compaction.manual
      /\ InputsOK(current, c) /\ (edit # None => InputsOK(EditedVersion, c))
      /\ Solid(c.mine \cup c.theirs)
      /\ OutputsOrdered(EntriesOf(c.mine \cup c.theirs), made, todo)
    BY <1>1, <1>2 DEF Ordered, CompactionOrdered
<1>5. /\ made \subseteq File /\ todo \in Seq(SUBSET Entry)
      /\ compaction = [inputs |-> c, base |-> compaction.base, manual |-> compaction.manual,
                       todo |-> todo, outputs |-> made, step |-> "work"]
    BY <1>1, <1>2, <1>4 DEF CompactionState
<1>6. compaction' = [compaction EXCEPT !.todo = Tail(todo), !.outputs = made \cup {f}]
    BY <1>2, <1>3, <1>5
<1>7. nextFile \in Nat
    BY <1>1 DEF DurableInv, NumbersOK
<1>8. /\ f \in File /\ Tail(todo) \in Seq(SUBSET Entry)
      /\ OutputsOrdered(EntriesOf(c.mine \cup c.theirs), made \cup {f}, Tail(todo))
    BY <1>1, <1>2, <1>4, <1>5, <1>7, TakenApart, OutputMade
<1>9. /\ compaction'.inputs = c /\ compaction'.manual = compaction.manual
      /\ compaction'.step = "work" /\ compaction'.todo = Tail(todo)
      /\ compaction'.outputs = made \cup {f} /\ compaction' \in CompactionState
    <2>1. made \cup {f} \in SUBSET File
        BY <1>5, <1>8
    <2> HIDE DEF File, Entry, Compaction, Version
    <2> QED BY <1>1, <1>2, <1>4, <1>6, <1>8, <2>1 DEF CompactionState
<1>10. EditedVersion' = EditedVersion
    BY <1>1 DEF EditedVersion
<1>11. CompactionOrdered'
    BY <1>1, <1>4, <1>8, <1>9, <1>10 DEF CompactionOrdered
<1>12. compaction' # None /\ Running' = Running /\ Held' = Held
    BY <1>1, <1>9, NoneIsNothing DEF Running, Held
<1>13. EditOrdered'
    BY <1>1, <1>10, <1>12 DEF Ordered, EditOrdered
<1> QED BY <1>1, <1>11, <1>13, OrderedEdit

LEMMA InstallResultsOrdered ==
    ASSUME Ordered, DurableInv, InstallCompactionResults
    PROVE  Ordered'
<1>1. /\ running = "open" /\ Running /\ compaction # None /\ compaction.step = "work"
      /\ compaction.todo = <<>> /\ flush = None /\ flush' = flush
      /\ compaction' = [compaction EXCEPT !.step = "record"]
      /\ UNCHANGED <<logs, manifest, running, mem, imm, group, lastSequence, logNumber,
                     current, manual>>
    BY DEF InstallCompactionResults, DurableInv, IdleOK, Running, memory, versions, writing
<1>2. PICK c, made : c = compaction.inputs /\ made = compaction.outputs
    OBVIOUS
<1>3. edit' = MergeEdit(c, made)
    BY <1>2 DEF InstallCompactionResults, MergeEdit
<1>4. /\ compaction \in CompactionState /\ ~compaction.manual
      /\ InputsOK(current, c)
      /\ OutputsOrdered(EntriesOf(c.mine \cup c.theirs), made, <<>>)
    BY <1>1, <1>2 DEF Ordered, CompactionOrdered
<1>5. /\ edit'.logNumber = logNumber /\ edit'.lastSequence = lastSequence
      /\ edit'.deleted[c.level + 1] = c.theirs
      /\ edit'.added = [NoFiles EXCEPT ![c.level + 1] = made]
    BY <1>3, <1>4, CompactionEdits
<1>6. /\ compaction' \in CompactionState /\ compaction'.step = "record"
      /\ compaction'.manual = compaction.manual
    BY <1>1, <1>4 DEF CompactionState
<1>7. compaction' # None
    BY <1>6, NoneIsNothing
<1>8. CompactionOrdered'
    BY <1>4, <1>6 DEF CompactionOrdered
<1>9. /\ made \in SUBSET File
      /\ \A f \in made : TableOK(f) /\ f.entries \subseteq EntriesOf(c.mine \cup c.theirs)
      /\ \A f, g \in made : f # g => Beside(f.entries, g.entries)
    BY <1>4 DEF OutputsOrdered
<1>10. EditOrdered'
    <2>1. UNCHANGED <<logs, running, imm, lastSequence, logNumber, current>>
        BY <1>1
    <2> HIDE DEF InputsOK, File, Entry
    <2> QED BY <1>1, <1>4, <1>5, <1>7, <1>9, <2>1, ReplacedOrdered
<1> QED BY <1>1, <1>8, <1>10, OrderedEdit

LEMMA CompactionStepOrdered ==
    ASSUME Ordered, DurableInv, TablesInv, StartTurn \/ Compact
    PROVE  Ordered'
<1>1. CASE NothingToDo
    <2>1. edit # None /\ running = "open" => flush' # None \/ compaction # None
        BY <1>1 DEF NothingToDo, Ordered, EditOrdered
    <2>2. flush' # None => imm # None
        BY <1>1 DEF NothingToDo
    <2> QED BY <1>1, <2>1, <2>2, OrderedFrame DEF NothingToDo, disk, writing
<1>2. CASE CompactionInstalled
    <2>1. /\ running = "open" /\ compaction # None /\ flush' = flush
          /\ compaction.step # "work" /\ ~compaction.manual
        BY <1>2 DEF CompactionInstalled, CompactionEnds, DurableInv, IdleOK, Ordered,
                    CompactionOrdered
    <2>2. flush' = None
        BY <2>1 DEF TablesInv, FlushApart
    <2>3. /\ UNCHANGED <<running, mem, group, lastSequence, manual, imm>>
          /\ compaction' = None /\ edit # None /\ AppendVersion
          /\ logs' = logs \/ logs' = Restrict(logs, {n \in DOMAIN logs : n >= logNumber'})
        BY <1>2, <2>1 DEF CompactionInstalled, CompactionEnds, DeleteObsoleteFiles, writing
    <2> QED BY <2>1, <2>2, <2>3, RecordInstalls
<1> QED BY <1>1, <1>2, StartTurnOrdered, CompactionOutputOrdered, InstallResultsOrdered,
           NoRanges DEF StartTurn, Compact

LEMMA CompactionFailsOrdered ==
    ASSUME Ordered, DurableInv, CompactionFails, edit = None
    PROVE  Ordered'
<1>1. /\ compaction # None /\ flush = None /\ running = "open" /\ ~compaction.manual
      /\ UNCHANGED <<logs, manifest, edit, running, mem, imm, group, lastSequence, logNumber,
                     current, flush>>
      /\ compaction' = None
    BY DEF CompactionFails, CompactionEnds, DurableInv, IdleOK, Ordered, CompactionOrdered, writing
<1>2. manual' = manual
    BY <1>1 DEF CompactionFails, CompactionEnds
<1>3. EditOrdered' /\ CompactionOrdered'
    BY <1>1 DEF EditOrdered, CompactionOrdered
<1> QED BY <1>1, <1>2, <1>3, OrderedEdit

-----------------------------------------------------------------------------
\* Opening, crashes and recovery.
LEMMA OpenedOrdered ==
    ASSUME Ordered, DurableInv, Opened
    PROVE  Ordered'
<1>1. /\ running = "opening" /\ running' = "open" /\ Running
      /\ manifest' = {Apply(WriteSnapshot, edit)} /\ current' = EditedVersion
      /\ logNumber' = edit.logNumber /\ edit' = None
      /\ UNCHANGED <<mem, imm, group, lastSequence, manual, flush, compaction>>
      /\ logs' = logs \/ logs' = Restrict(logs, {n \in DOMAIN logs : n >= logNumber'})
    BY DEF Opened, AppendVersionTo, DeleteObsoleteFiles, EditedVersion, Running, writing
<1>2. flush = None /\ compaction = None /\ FilesOK(logs) /\ lastSequence \in Nat
      /\ logNumber \in Nat
    BY <1>1 DEF DurableInv, IdleOK, NumbersOK
<1>3. edit.logNumber \in Nat /\ edit.lastSequence \in Nat
    BY <1>1, RecordsAreNumbers
<1>4. /\ Apply(WriteSnapshot, edit).version = EditedVersion
      /\ Apply(WriteSnapshot, edit).logNumber = edit.logNumber
      /\ Apply(WriteSnapshot, edit).lastSequence = edit.lastSequence
    BY DEF Apply, WriteSnapshot, NewDB, EditedVersion
<1>5. /\ manifest' # {}
      /\ \A m \in manifest' : /\ m.version = EditedVersion /\ m.logNumber = edit.logNumber
                              /\ m.lastSequence = edit.lastSequence
                              /\ \A k \in manifest' : k = m
    BY <1>1, <1>4
<1>6. \A n \in DOMAIN logs' : n \in DOMAIN logs /\ logs'[n] = logs[n]
    <2>1. CASE logs' = logs
        BY <2>1
    <2>2. CASE logs' = Restrict(logs, {n \in DOMAIN logs : n >= logNumber'})
        <3>1. PICK first : first = logNumber'
            OBVIOUS
        <3> QED BY <1>2, <2>2, <3>1, RestrictFacts
    <2> QED BY <1>1, <2>1, <2>2
<1> QED BY <1>1, <1>2, <1>3, <1>5, <1>6, OrderedInstall

\* What may be read in the manifest: what is held, or what the edit makes of it.
LEMMA OutcomesOrdered ==
    ASSUME Ordered, DurableInv, NEW m \in Outcomes
    PROVE  /\ LevelsOK(m.version)
           /\ Apart(Contents(m.version) \cup LoggedFrom(logs, m.logNumber))
           /\ \A e \in Contents(m.version) : e.seq <= m.lastSequence
           /\ m.logNumber \in Nat
<1>1. CASE m \in manifest
    BY <1>1 DEF Ordered, ManifestOrdered, DurableInv, ManifestOK, RecordOK, Backed
<1>2. CASE edit # None /\ \E k \in manifest : m = Apply(k, edit)
    <2>1. /\ Running /\ LevelsOK(EditedVersion) /\ Contents(EditedVersion) \subseteq Held
          /\ \A e \in Contents(EditedVersion) : e.seq <= edit.lastSequence
          /\ edit.logNumber >= logNumber
        BY <1>2 DEF Ordered, EditOrdered
    <2>2. /\ m.version = EditedVersion /\ m.logNumber = edit.logNumber
          /\ m.lastSequence = edit.lastSequence
        <3>1. PICK k \in manifest : m = Apply(k, edit)
            BY <1>2
        <3>2. k.version = current
            BY <2>1 DEF Ordered, ManifestOrdered
        <3> QED BY <3>1, <3>2 DEF Apply, EditedVersion
    <2>3. edit.logNumber \in Nat /\ logNumber \in Nat /\ FilesOK(logs)
        BY <1>2, <2>1, RecordsAreNumbers DEF DurableInv, NumbersOK
    <2>4. LoggedFrom(logs, edit.logNumber) \subseteq LoggedFrom(logs, logNumber)
        BY <2>1, <2>3, LoggedLess
    <2>5. Apart(Held)
        BY <2>1, CurrentOrdered
    <2>6. Contents(EditedVersion) \cup LoggedFrom(logs, edit.logNumber) \subseteq Held
        BY <2>1, <2>4 DEF Held
    <2>7. Apart(Contents(EditedVersion) \cup LoggedFrom(logs, edit.logNumber))
        BY <2>5, <2>6, ApartPart
    <2> QED BY <2>1, <2>2, <2>3, <2>7
<1> QED BY <1>1, <1>2 DEF Outcomes

LEMMA CrashOrdered ==
    ASSUME Ordered, DurableInv, Crash
    PROVE  Ordered'
<1>1. PICK m \in Outcomes, kept \in KeptRecords :
          /\ manifest' = {m}
          /\ logs' = [n \in DOMAIN logs |-> [records |-> kept[n], synced |-> Len(kept[n])]]
    BY DEF Crash
<1>2. /\ running' = "down" /\ edit' = None /\ compaction' = None /\ manual' = None
      /\ mem' = {} /\ imm' = None
    BY DEF Crash, Gone
<1>3. FilesOK(logs)
    BY DEF DurableInv
<1>4. \A n \in DOMAIN logs' :
          n \in DOMAIN logs /\ \A r \in ToSet(logs'[n].records) : r \in ToSet(logs[n].records)
    <2> SUFFICES ASSUME NEW n \in DOMAIN logs, NEW r \in ToSet(kept[n])
                 PROVE  r \in ToSet(logs[n].records)
        BY <1>1
    <2>1. kept[n] \in Readable(logs[n])
        BY DEF KeptRecords
    <2>2. logs[n] \in Log /\ logs[n].synced <= Len(logs[n].records)
        BY <1>3, LogFacts DEF FilesOK
    <2> QED BY <2>1, <2>2, ReadableFacts
<1>5. /\ LevelsOK(m.version) /\ m.logNumber \in Nat
      /\ Apart(Contents(m.version) \cup LoggedFrom(logs, m.logNumber))
      /\ \A e \in Contents(m.version) : e.seq <= m.lastSequence
    BY OutcomesOrdered
<1>6. LoggedFrom(logs', m.logNumber) \subseteq LoggedFrom(logs, m.logNumber)
    <2>1. m.logNumber <= m.logNumber
        BY <1>5
    <2> QED BY <1>3, <1>4, <1>5, <2>1, LoggedLess
<1>7. Apart(Contents(m.version) \cup LoggedFrom(logs', m.logNumber))
    BY <1>5, <1>6, ApartPart
<1>8. ~Running'
    BY <1>2 DEF Running
<1>9. ManifestOrdered'
    BY <1>1, <1>5, <1>7, <1>8 DEF ManifestOrdered
<1>10. KnownApart' /\ EditOrdered' /\ CompactionOrdered' /\ QuietOrdered'
    BY <1>2, <1>8 DEF KnownApart, EditOrdered, CompactionOrdered, QuietOrdered
<1> QED BY <1>9, <1>10 DEF Ordered

\* The tables a recovery makes of the logs join level 0.
LEMMA RecoveredOrdered ==
    ASSUME NEW v, LevelsOK(v), NEW logged, Apart(Contents(v) \cup logged),
           NEW free \in Nat, NEW w \in Work(free, free, logged)
    PROVE  /\ LevelsOK(Joined(v, 0, w.files))
           /\ Contents(Joined(v, 0, w.files)) \subseteq Contents(v) \cup logged
<1> DEFINE joined == Joined(v, 0, w.files)
<1>1. /\ \A l \in Level : joined[l] = IF l = 0 THEN v[l] \cup w.files ELSE v[l]
      /\ joined = [l \in Level |-> joined[l]]
    BY DEF Joined
<1> HIDE DEF joined
<1>2. ASSUME NEW f \in w.files
      PROVE  f \in File /\ TableOK(f) /\ f.entries \subseteq logged
    <2>1. PICK k \in Nat, es \in (SUBSET logged) \ {{}} : f = NewFile(k, es)
        <3>1. f \in Made(logged)
            BY WorkFacts
        <3> QED BY <3>1, MadeFacts
    <2>2. Apart(es) /\ es # {}
        BY ApartPart
    <2>3. f.entries = es
        BY <2>1 DEF NewFile
    <2> QED BY <2>1, <2>2, <2>3, NewFileType
<1>3. ASSUME NEW l \in Level
      PROVE  /\ joined[l] \subseteq File /\ \A f \in joined[l] : TableOK(f)
             /\ l # 0 => joined[l] = v[l]
    <2>1. v[l] \subseteq File /\ \A f \in v[l] : TableOK(f)
        BY DEF LevelsOK, Version
    <2> QED BY <1>1, <1>2, <2>1
<1>4. joined \in Version
    BY <1>1, <1>3 DEF Version
<1>5. LevelsOK(joined)
    BY <1>3, <1>4 DEF LevelsOK
<1>6. Contents(joined) \subseteq Contents(v) \cup logged
    <2> SUFFICES ASSUME NEW l \in Level, NEW f \in joined[l], NEW e \in f.entries
                 PROVE  e \in Contents(v) \cup logged
        BY DEF Contents, EntriesOf, Files
    <2>1. f \in v[l] \/ f \in w.files
        BY <1>1
    <2> QED BY <1>2, <2>1 DEF Contents, EntriesOf, Files
<1> QED BY <1>5, <1>6 DEF joined

LEMMA RecoverOrdered ==
    ASSUME Ordered, DurableInv, DurableInv', Recover
    PROVE  Ordered'
<1> DEFINE Start(m) == [mem |-> {}, files |-> {}, next |-> FirstFree(m)]
           Replayed(m) == {n \in DOMAIN logs : n >= m.logNumber}
           Seqs(m) == UNION {{e.seq : e \in UNION {ToSet(r) : r \in ToSet(logs[n].records)}} :
                                 n \in Replayed(m)}
           Edit(w) == [deleted |-> NoFiles, added |-> [NoFiles EXCEPT ![0] = w.files],
                       logNumber |-> w.next, nextFile |-> w.next + 1,
                       lastSequence |-> lastSequence', pointer |-> <<0, NoEntry>>]
<1>1. PICK m \in manifest :
          /\ current' = m.version /\ logNumber' = m.logNumber
          /\ lastSequence' = Max({m.lastSequence} \cup Seqs(m))
          /\ logs' = Written(logs, RecoverLogFiles(Replayed(m), Start(m)).next, EmptyLog)
          /\ edit' = Edit(RecoverLogFiles(Replayed(m), Start(m)))
    BY ZenonT(60) DEF Recover, RecoverVersions
<1>2. PICK w, top, seqs, logged, after :
          /\ w = RecoverLogFiles(after, Start(m)) /\ seqs = Seqs(m)
          /\ top = Max({m.lastSequence} \cup seqs) /\ logged = LoggedFrom(logs, m.logNumber)
          /\ after = Replayed(m)
    OBVIOUS
<1>3. /\ current' = m.version /\ logNumber' = m.logNumber /\ lastSequence' = top
      /\ logs' = Written(logs, w.next, EmptyLog) /\ edit' = Edit(w)
    <2> HIDE DEF Start, Replayed, Edit, Seqs
    <2> QED BY <1>1, <1>2
<1>4. /\ edit'.deleted = NoFiles /\ edit'.added = [NoFiles EXCEPT ![0] = w.files]
      /\ edit'.logNumber = w.next /\ edit'.lastSequence = top
    BY <1>3
<1>5. /\ FirstFree(m) \in Nat /\ FirstFree(m) > m.logNumber
      /\ w \in Work(FirstFree(m), FirstFree(m), logged) /\ \A n \in after : w.next > n
    <2> HIDE DEF Edit, Seqs
    <2> QED BY <1>2, RecoveryFacts DEF DurableInv
<1>6. /\ m.logNumber \in Nat /\ m.lastSequence \in Nat /\ FilesOK(logs)
      /\ \A n : n \in after <=> n \in DOMAIN logs /\ n >= m.logNumber
    <2>1. \A n : n \in after <=> n \in DOMAIN logs /\ n >= m.logNumber
        BY <1>2
    <2> HIDE DEF Start, Replayed, Edit, Seqs
    <2> QED BY <2>1 DEF DurableInv, ManifestOK, RecordOK, Backed
<1>7. /\ top \in Nat /\ m.lastSequence <= top
      /\ \A n \in after : \A r \in ToSet(logs[n].records) : \A e \in ToSet(r) : e.seq <= top
    <2>1. seqs = UNION {{e.seq : e \in UNION {ToSet(r) : r \in ToSet(logs[n].records)}} :
                            n \in after}
        BY <1>2
    <2>2. after \in SUBSET DOMAIN logs
        BY <1>6
    <2> HIDE DEF Start, Replayed, Edit, Seqs
    <2> QED BY <1>2, <1>6, <2>1, <2>2, GreatestLogged
<1> HIDE DEF Start, Replayed, Edit, Seqs
<1>8. /\ running = "down" /\ running' = "opening" /\ ~Running /\ Running'
      /\ UNCHANGED <<manifest, mem, imm, group, flush, compaction, manual>>
    BY DEF Recover, Running, writing, background
<1>9. flush = None /\ compaction = None /\ group = None /\ mem = {} /\ imm = None /\ manual = None
    BY <1>8 DEF DurableInv, IdleOK, Ordered, QuietOrdered
<1>10. w.next \in Nat /\ w.next >= m.logNumber /\ w.next \notin DOMAIN logs
    <2>1. w.next \in Nat /\ w.next >= FirstFree(m)
        BY <1>5, WorkFacts
    <2>2. \A n \in DOMAIN logs : n \in Nat
        BY <1>6 DEF FilesOK
    <2> QED BY <1>5, <1>6, <2>1, <2>2
<1>11. LoggedFrom(logs', m.logNumber) = logged
    BY <1>2, <1>3, <1>6, <1>10, LoggedNew
<1>12. /\ LevelsOK(m.version) /\ Apart(Contents(m.version) \cup logged)
       /\ \A e \in Contents(m.version) : e.seq <= m.lastSequence
       /\ \A k \in manifest : k = m
    BY <1>2 DEF Ordered, ManifestOrdered
<1>13. \A e \in Contents(m.version) \cup logged : e.seq <= top
    <2>1. \A e \in logged : e.seq <= top
        <3> SUFFICES ASSUME NEW e \in LoggedFrom(logs, m.logNumber) PROVE e.seq <= top
            BY <1>2
        <3>1. PICK n \in DOMAIN logs :
                  n >= m.logNumber /\ \E r \in ToSet(logs[n].records) : e \in ToSet(r)
            BY DEF LoggedFrom
        <3> QED BY <1>6, <1>7, <3>1
    <2>2. \A e \in Contents(m.version) : e.seq \in Nat
        BY <1>12 DEF Apart, Entry
    <2> QED BY <1>6, <1>7, <1>12, <2>1, <2>2
<1>14. Held' = Contents(m.version) \cup logged /\ InGroup' = {}
    BY <1>3, <1>8, <1>9, <1>11 DEF Held, InGroup
<1>15. ManifestOrdered'
    <2>1. m.version = current' /\ m.logNumber = logNumber'
        BY <1>3
    <2> QED BY <1>8, <1>11, <1>12, <2>1 DEF ManifestOrdered
<1>16. KnownApart'
    BY <1>3, <1>8, <1>9, <1>12, <1>13, <1>14 DEF KnownApart
<1>17. EditOrdered'
    <2>1. m.version \in Version /\ 0 \in Level
        BY <1>12, LevelNumbers DEF LevelsOK
    <2>2. EditedVersion' = Joined(m.version, 0, w.files)
        BY <1>3, <1>4, <2>1, SaveFacts DEF EditedVersion
    <2>3. /\ LevelsOK(EditedVersion') /\ Contents(EditedVersion') \subseteq Held'
        BY <1>5, <1>12, <1>14, <2>2, RecoveredOrdered
    <2>4. \A e \in Contents(EditedVersion') : e.seq <= top
        BY <1>13, <1>14, <2>3
    <2> QED BY <1>3, <1>4, <1>7, <1>8, <1>10, <2>3, <2>4 DEF EditOrdered
<1>18. CompactionOrdered' /\ QuietOrdered'
    BY <1>8, <1>9 DEF CompactionOrdered, QuietOrdered
<1> QED BY <1>15, <1>16, <1>17, <1>18 DEF Ordered

-----------------------------------------------------------------------------
LEMMA SpentStep ==
    ASSUME [Next]_vars
    PROVE  spent' = spent \/ \E kind \in Bounded : Spend(kind)
<1> USE DEF history
<1>1. {"crash", "append", "sync", "table", "manifest", "force", "manual", "seek", "snapshot",
       "read"} \subseteq Bounded
    BY DEF Bounded
<1>2. CASE \/ \E t \in Thread : \E b, sync : Write(t, b, sync)
           \/ \E t \in Thread : Lead(t)
           \/ GroupStep
    BY <1>1, <1>2 DEF Write, Lead, LeadGroup, LeaderFails, GroupStep, AddRecord, Sync, InsertEntry,
                      FinishWrite
<1>3. CASE \/ \E h \in Handle : GetSnapshot(h) \/ ReleaseSnapshot(h)
           \/ \E r \in Reader, s \in 0..MaxSeq : BeginRead(r, s)
           \/ \E r \in Reader : EndRead(r)
           \/ \E l \in 0..(NumLevels - 2), range \in Ranges : RequestRange(l, range[1], range[2])
           \/ ArmManual \/ RangeReturns
    BY <1>1, <1>3 DEF GetSnapshot, ReleaseSnapshot, BeginRead, EndRead, RequestRange, ArmManual,
                      RangeReturns
<1>4. CASE Background
    BY <1>4 DEF Background, Flush, CompactMemTable, WriteLevel0Table, FlushInstalled, StartTurn,
                CompactSomeFiles, CompactRange, NothingToDo, Compact, CompactionOutput,
                InstallCompactionResults, CompactionInstalled, NullManual
<1>5. CASE Recover \/ Opened
    BY <1>5 DEF Recover, Opened
<1>6. CASE Faults
    BY <1>1, <1>6 DEF Faults, AddRecordFails, SyncFails, FlushFails, CompactionFails, RecordFails,
                      OpenFails, Crash
<1>7. CASE UNCHANGED vars
    BY <1>7 DEF vars
<1> QED BY <1>2, <1>3, <1>4, <1>5, <1>6, <1>7 DEF Next

LEMMA OrderInit == ASSUME Init PROVE OrderInv
<1> USE DEF Init
<1>1. spent \in [Bounded -> Nat]
    OBVIOUS
<1>2. LevelsOK(NoFiles) /\ Contents(NoFiles) = {}
    <2>1. NoFiles \in Version /\ \A l \in Level : NoFiles[l] = {}
        BY DEF NoFiles, Version
    <2>2. LevelsOK(NoFiles)
        BY <2>1 DEF LevelsOK
    <2>3. Files(NoFiles) = {}
        BY <2>1 DEF Files
    <2>4. Contents(NoFiles) = {}
        BY <2>3 DEF Contents, EntriesOf
    <2> QED BY <2>2, <2>4
<1>3. \A n : LoggedFrom(logs, n) = {}
    BY DEF LoggedFrom
<1>4. Apart({})
    BY FS_EmptySet DEF Apart
<1>5. ~Running
    BY DEF Running
<1>6. ManifestOrdered
    <2>1. NewDB.version = NoFiles
        BY DEF NewDB
    <2> QED BY <1>2, <1>3, <1>4, <1>5, <2>1 DEF ManifestOrdered
<1>7. KnownApart /\ EditOrdered /\ CompactionOrdered /\ QuietOrdered
    BY <1>5 DEF KnownApart, EditOrdered, CompactionOrdered, QuietOrdered
<1> QED BY <1>1, <1>6, <1>7 DEF OrderInv, Ordered

LEMMA OrderNext ==
    ASSUME OrderInv, DurableInv, DurableInv', TablesInv, [Next]_vars
    PROVE  OrderInv'
<1>1. spent' \in [Bounded -> Nat] /\ (Calm' => Calm)
    BY SpentStep, SpendFacts DEF OrderInv, Calm
<1>2. "manifest" \in Bounded /\ "manual" \in Bounded
    BY DEF Bounded
<1>3. ASSUME Spend("manifest") \/ Spend("manual") PROVE ~Calm'
    BY <1>2, <1>3, SpendFacts DEF OrderInv
<1> SUFFICES ASSUME Calm' PROVE Ordered'
    BY <1>1 DEF OrderInv
<1>4. Ordered
    BY <1>1 DEF OrderInv
<1>5. CASE \E t \in Thread, b \in Batch, sync \in BOOLEAN : Write(t, b, sync)
    BY <1>4, <1>5, ClientOrdered
<1>6. CASE \E t \in Thread : Write(t, <<>>, FALSE)
    BY <1>4, <1>6, ClientOrdered
<1>7. CASE \E t \in Thread : Lead(t)
    BY <1>4, <1>7, LeadGroupOrdered, ClientOrdered DEF Lead
<1>8. CASE GroupStep
    BY <1>4, <1>8, GroupStepOrdered
<1>9. CASE \/ \E h \in Handle : GetSnapshot(h) \/ ReleaseSnapshot(h)
           \/ \E r \in Reader, s \in 0..MaxSeq : BeginRead(r, s)
           \/ \E r \in Reader : EndRead(r)
           \/ UNCHANGED vars
    BY <1>4, <1>9, ClientOrdered
<1>10. CASE \/ \E l \in 0..(NumLevels - 2), range \in Ranges : RequestRange(l, range[1], range[2])
            \/ ArmManual \/ RangeReturns
    BY <1>3, <1>4, <1>10, NoRanges DEF RequestRange
<1>11. CASE Background
    BY <1>4, <1>11, FlushStepOrdered, CompactionStepOrdered DEF Background
<1>12. CASE Recover \/ Opened
    BY <1>4, <1>12, RecoverOrdered, OpenedOrdered
<1>13. CASE Faults
    <2>1. CASE FlushFails
        <3>1. edit = None
            BY <1>3, <2>1 DEF FlushFails, RecordFails
        <3> QED BY <1>4, <2>1, <3>1, FlushFailsOrdered
    <2>2. CASE CompactionFails
        <3>1. edit = None
            BY <1>3, <2>2 DEF CompactionFails, RecordFails
        <3> QED BY <1>4, <2>2, <3>1, CompactionFailsOrdered
    <2>3. ~OpenFails
        BY <1>3 DEF OpenFails
    <2> QED BY <1>4, <1>13, <2>1, <2>2, <2>3, GroupFailsOrdered, CrashOrdered DEF Faults
<1> QED BY <1>5, <1>6, <1>7, <1>8, <1>9, <1>10, <1>11, <1>12, <1>13 DEF Next

\* Tables whose entries follow one another do so by their ends.
LEMMA DisjointFacts ==
    ASSUME NEW v, VersionOK(v)
    PROVE  Disjoint(v)
<1> SUFFICES ASSUME NEW l \in Level \ {0}, NEW f \in v[l], NEW g \in v[l], f # g
             PROVE  Before(f.largest, g.smallest) \/ Before(g.largest, f.smallest)
    BY DEF Disjoint
<1>1. FileOK(f) /\ FileOK(g)
    BY VersionFiles
<1>2. /\ f.smallest \in f.entries /\ f.largest \in f.entries
      /\ g.smallest \in g.entries /\ g.largest \in g.entries
    BY <1>1, FileEnds
<1>3. Beside(f.entries, g.entries)
    BY DEF VersionOK, LevelsOK
<1> QED BY <1>2, <1>3 DEF Beside, Precedes

\* As long as no record of the manifest failed and no client compacted a range, the
\* files of a level above 0 follow one another in every manifest that a crash may
\* leave: neither a flush while a compaction is under way, nor the outputs of a
\* compaction, nor a recovery puts an overlap there (VersionSet::Builder,
\* PickLevelForMemTableOutput, SetupOtherInputs, DoCompactionWork).
THEOREM LevelsStayOrdered == Spec => []LevelsStayDisjoint
<1>1. OrderInv /\ DurableInv => LevelsStayDisjoint
    <2> SUFFICES ASSUME OrderInv, DurableInv, Calm, NEW m \in Outcomes PROVE Disjoint(m.version)
        BY DEF LevelsStayDisjoint, LevelsDisjoint, Calm
    <2>1. LevelsOK(m.version) /\ Apart(Contents(m.version) \cup LoggedFrom(logs, m.logNumber))
        BY OutcomesOrdered DEF OrderInv
    <2>2. VersionOK(m.version)
        BY <2>1, ApartPart DEF VersionOK
    <2> QED BY <2>2, DisjointFacts
<1>2. Init => OrderInv /\ DurableInv /\ TablesInv
    BY OrderInit, DurableInit, TablesInit
<1>3. OrderInv /\ DurableInv /\ TablesInv /\ [Next]_vars => (OrderInv /\ DurableInv /\ TablesInv)'
    BY OrderNext, DurableNext, TablesNext
<1> QED BY <1>1, <1>2, <1>3, PTL DEF Spec

-----------------------------------------------------------------------------
\* The newest entry of a key lies on top.
\*
\* The readers that a compaction has to think of are those of now.
Plain == Calm /\ spent["snapshot"] = 0
Unheld == \A h \in Handle : snapshots[h] = None

ManifestLayered ==
    \A m \in manifest : /\ Layered(m.version)
                        /\ After(LoggedFrom(logs, m.logNumber), Contents(m.version))
EditLayered ==
    edit # None \/ running = "opening" =>
        /\ Layered(EditedVersion)
        /\ After(LoggedFrom(logs, edit.logNumber), Contents(EditedVersion))
        /\ running = "open" /\ flush = None => edit.logNumber = logNumber

\* The memtables are in the logs, the newer one alone in the newest.
MemoryLayered ==
    Running =>
        /\ mem \subseteq LoggedFrom(logs, logfile)
        /\ imm # None => /\ running = "open" /\ imm \subseteq LoggedFrom(logs, logNumber)
                         /\ After(LoggedFrom(logs, logfile), imm)
CompactionLayered ==
    compaction # None /\ compaction.step = "work" =>
        LET c == compaction.inputs
        IN /\ RestOK(current, c) /\ (edit # None => RestOK(EditedVersion, c))
           /\ OneEach(EntriesOf(compaction.outputs) \cup Copied(compaction.todo))

Layers == ManifestLayered /\ EditLayered /\ MemoryLayered /\ CompactionLayered
LayerInv == (spent["snapshot"] = 0 => Unheld) /\ (Plain => Layers)

-----------------------------------------------------------------------------
\* A log grows by the entries of the group at most, and these are newer than all that
\* was counted.
LogsGrow ==
    \A a : /\ LoggedFrom(logs, a) \subseteq LoggedFrom(logs', a)
           /\ LoggedFrom(logs', a) \subseteq LoggedFrom(logs, a) \cup InGroup

LEMMA GroupIsNewer ==
    ASSUME DurableInv, NEW e \in InGroup
    PROVE  /\ group # None /\ running = "open" /\ Running
           /\ lastSequence \in Nat /\ e.seq \in Nat /\ e.seq > lastSequence
<1>1. group # None /\ e \in ToSet(group.entries)
    BY DEF InGroup
<1>2. running = "open" /\ group.entries \in Record /\ lastSequence \in Nat
    BY <1>1, GroupFacts
<1>3. PICK es \in Record : es = group.entries
    BY <1>2
<1>4. PICK i \in 1..Len(es) : e = es[i]
    BY <1>1, <1>3, RecordFacts DEF ToSet
<1>5. es[i].seq = lastSequence + i /\ es[i].seq \in Nat /\ i > 0 /\ i \in Nat
    BY <1>1, <1>3, RecordFacts DEF DurableInv, GroupOK
<1> QED BY <1>1, <1>2, <1>4, <1>5 DEF Running

\* What is counted stays below a log that grows.
LEMMA StaysBelow ==
    ASSUME DurableInv, LogsGrow, NEW a, NEW B, After(LoggedFrom(logs, a), B),
           InGroup # {} => \A b \in B : b.seq \in Nat /\ b.seq <= lastSequence
    PROVE  After(LoggedFrom(logs', a), B)
<1> SUFFICES ASSUME NEW e \in LoggedFrom(logs', a), NEW b \in B PROVE e.seq > b.seq
    BY DEF After
<1>1. CASE e \in LoggedFrom(logs, a)
    BY <1>1 DEF After
<1>2. CASE e \in InGroup
    BY <1>2, GroupIsNewer
<1> QED BY <1>1, <1>2 DEF LogsGrow

\* The numbers of what the process holds.
LEMMA SeqsAreNumbers ==
    ASSUME Ordered, DurableInv, Running
    PROVE  /\ \A e \in Contents(current) : e.seq \in Nat /\ e.seq <= lastSequence
           /\ imm # None => \A e \in imm : e.seq \in Nat /\ e.seq <= lastSequence
           /\ edit # None \/ running = "opening" =>
                  \A e \in Contents(EditedVersion) : e.seq \in Nat /\ e.seq <= lastSequence
<1>1. Contents(current) \subseteq Held /\ Held \subseteq Entry
    BY CurrentOrdered
<1>2. imm # None => imm \subseteq Held
    BY DEF Held
<1>3. \A e \in Held : e.seq \in Nat
    BY <1>1 DEF Entry
<1>4. lastSequence \in Nat
    BY DEF DurableInv, NumbersOK
<1>5. ASSUME edit # None \/ running = "opening", NEW e \in Contents(EditedVersion)
      PROVE  e.seq \in Nat /\ e.seq <= lastSequence
    <2>1. e \in Held /\ e.seq <= edit.lastSequence /\ edit.lastSequence <= lastSequence
        BY <1>5 DEF Ordered, EditOrdered
    <2>2. edit.lastSequence \in Nat
        BY <1>5, RecordsAreNumbers
    <2> QED BY <1>3, <1>4, <2>1, <2>2
<1>6. /\ \A e \in Contents(current) : e.seq <= lastSequence
      /\ imm # None => \A e \in imm : e.seq <= lastSequence
    BY DEF Ordered, KnownApart
<1> QED BY <1>1, <1>2, <1>3, <1>5, <1>6

\* Steps that write no manifest record and change no compaction.
LEMMA LayersKnown ==
    ASSUME Layers, Ordered, DurableInv, LogsGrow, MemoryLayered',
           UNCHANGED <<manifest, edit, running, logNumber, current, compaction>>,
           flush' = flush \/ edit = None \/ flush = None
    PROVE  Layers'
<1> USE DEF Layers
<1>1. EditedVersion' = EditedVersion
    BY DEF EditedVersion
<1>2. ManifestLayered'
    <2> SUFFICES ASSUME NEW m \in manifest
                 PROVE  /\ Layered(m.version)
                        /\ After(LoggedFrom(logs', m.logNumber), Contents(m.version))
        BY DEF ManifestLayered
    <2>1. Layered(m.version) /\ After(LoggedFrom(logs, m.logNumber), Contents(m.version))
        BY DEF ManifestLayered
    <2>2. ASSUME InGroup # {}
          PROVE  \A b \in Contents(m.version) : b.seq \in Nat /\ b.seq <= lastSequence
        <3>1. Running
            BY <2>2, GroupIsNewer
        <3>2. m.version = current
            BY <3>1 DEF Ordered, ManifestOrdered
        <3> QED BY <3>1, <3>2, SeqsAreNumbers
    <2> QED BY <2>1, <2>2, StaysBelow
<1>3. EditLayered'
    <2> SUFFICES ASSUME edit # None \/ running = "opening"
                 PROVE  /\ Layered(EditedVersion)
                        /\ After(LoggedFrom(logs', edit.logNumber), Contents(EditedVersion))
                        /\ running = "open" /\ flush' = None => edit.logNumber = logNumber
        BY <1>1 DEF EditLayered
    <2>1. /\ Layered(EditedVersion)
          /\ After(LoggedFrom(logs, edit.logNumber), Contents(EditedVersion))
          /\ running = "open" /\ flush = None => edit.logNumber = logNumber
        BY DEF EditLayered
    <2>2. \A b \in Contents(EditedVersion) : b.seq \in Nat /\ b.seq <= lastSequence
        BY SeqsAreNumbers DEF Ordered, EditOrdered
    <2>3. After(LoggedFrom(logs', edit.logNumber), Contents(EditedVersion))
        BY <2>1, <2>2, StaysBelow
    <2>4. running = "open" /\ flush' = None => flush = None
        BY DEF Running
    <2> QED BY <2>1, <2>3, <2>4
<1>4. CompactionLayered'
    BY <1>1 DEF CompactionLayered
<1> QED BY <1>2, <1>3, <1>4

\* Steps that leave the memtables and their logs where they are.
LEMMA MemoryFrame ==
    ASSUME MemoryLayered, Ordered, DurableInv, LogsGrow,
           UNCHANGED <<running, imm, logfile, logNumber>>,
           mem' \subseteq LoggedFrom(logs', logfile)
    PROVE  MemoryLayered'
<1> SUFFICES ASSUME Running, imm # None
             PROVE  /\ running = "open" /\ imm \subseteq LoggedFrom(logs', logNumber)
                    /\ After(LoggedFrom(logs', logfile), imm)
    BY DEF MemoryLayered, Running
<1>1. /\ running = "open" /\ imm \subseteq LoggedFrom(logs, logNumber)
      /\ After(LoggedFrom(logs, logfile), imm)
    BY DEF MemoryLayered
<1>2. After(LoggedFrom(logs', logfile), imm)
    BY <1>1, SeqsAreNumbers, StaysBelow
<1> QED BY <1>1, <1>2 DEF LogsGrow

LEMMA LogsStand ==
    ASSUME \A a : LoggedFrom(logs', a) = LoggedFrom(logs, a)
    PROVE  LogsGrow
BY DEF LogsGrow

\* Steps that touch neither files nor memtables.
LEMMA LayersFrame ==
    ASSUME Layers, Ordered, DurableInv,
           UNCHANGED <<logs, manifest, edit, running, mem, imm, logfile, logNumber, current,
                       compaction>>,
           flush' = flush \/ edit = None \/ flush = None
    PROVE  Layers'
<1>1. LogsGrow
    BY LogsStand
<1>2. Running' = Running
    BY DEF Running
<1>3. MemoryLayered'
    BY <1>2 DEF Layers, MemoryLayered
<1> QED BY <1>1, <1>3, LayersKnown

LEMMA ClientLayers ==
    ASSUME Layers, Ordered, DurableInv,
           \/ \E t \in Thread : \E b, sync : Write(t, b, sync)
           \/ \E t \in Thread : LeaderFails(t)
           \/ \E h \in Handle : GetSnapshot(h) \/ ReleaseSnapshot(h)
           \/ \E r \in Reader, s \in 0..MaxSeq : BeginRead(r, s)
           \/ \E r \in Reader : EndRead(r)
           \/ UNCHANGED vars
    PROVE  Layers'
<1>1. UNCHANGED <<logs, manifest, edit, running, mem, imm, logfile, logNumber, current,
                  compaction, flush>>
    BY DEF Write, LeaderFails, GetSnapshot, ReleaseSnapshot, BeginRead, EndRead, vars, disk,
           writing, memory, versions, background
<1> QED BY <1>1, LayersFrame

\* All that is written goes to the newest log.
LEMMA AppendGrows ==
    ASSUME DurableInv, Running, NEW record \in Record, ToSet(record) \subseteq InGroup,
           logs' = Appended(logs, logfile, record)
    PROVE  LogsGrow
<1>1. FilesOK(logs) /\ logfile \in DOMAIN logs
    BY DEF DurableInv, NumbersOK
<1> QED BY <1>1, LoggedMore DEF LogsGrow

\* Nothing is in a log yet whose number is new.
LEMMA NewestIsEmpty ==
    ASSUME NEW files, FilesOK(files), NEW k \in Nat, \A n \in DOMAIN files : n < k
    PROVE  LoggedFrom(Written(files, k, EmptyLog), k) = {}
<1> DEFINE files2 == Written(files, k, EmptyLog)
<1>1. k \notin DOMAIN files /\ \A n \in DOMAIN files : n \in Nat
    BY DEF FilesOK
<1>2. DOMAIN files2 = DOMAIN files \cup {k} /\ ToSet(files2[k].records) = {}
    BY <1>1, NewLogFacts
<1> HIDE DEF files2
<1>3. \A n \in DOMAIN files2 : n >= k => n = k
    BY <1>1, <1>2
<1> QED BY <1>2, <1>3 DEF LoggedFrom, files2

LEMMA LeadGroupLayers ==
    ASSUME Layers, Ordered, DurableInv, NEW t \in Thread, LeadGroup(t)
    PROVE  Layers'
<1>1. /\ running = "open" /\ Running /\ Running' /\ group = None
      /\ UNCHANGED <<running, manifest, edit, flush, compaction, logNumber, current>>
      /\ \/ UNCHANGED <<logs, logfile, mem, imm>>
         \/ /\ imm = None /\ imm' = mem /\ mem' = {}
            /\ logs' = Written(logs, nextFile, EmptyLog) /\ logfile' = nextFile
    BY DEF LeadGroup, Leader, Running, MakeRoomForWrite, MaySwitchMemTable, SwitchMemTable, versions
<1>2. /\ nextFile \in Nat /\ FilesOK(logs) /\ logNumber \in Nat /\ logfile \in Nat
      /\ logNumber <= logfile /\ \A n \in DOMAIN logs : n < nextFile
    BY <1>1 DEF DurableInv, NumbersOK, FilesOK
<1>3. nextFile \notin DOMAIN logs
    BY <1>2
<1>4. CASE UNCHANGED <<logs, logfile, mem, imm>>
    BY <1>1, <1>4, LayersFrame
<1>5. CASE /\ imm = None /\ imm' = mem /\ mem' = {}
           /\ logs' = Written(logs, nextFile, EmptyLog) /\ logfile' = nextFile
    <2>1. \A a : LoggedFrom(logs', a) = LoggedFrom(logs, a)
        BY <1>2, <1>3, <1>5, LoggedNew
    <2>2. LogsGrow
        BY <2>1, LogsStand
    <2>3. LoggedFrom(logs', nextFile) = {}
        BY <1>2, <1>5, NewestIsEmpty
    <2>4. mem \subseteq LoggedFrom(logs, logNumber)
        <3>1. LoggedFrom(logs, logfile) \subseteq LoggedFrom(logs, logNumber)
            BY <1>2, LoggedLess
        <3> QED BY <1>1, <3>1 DEF Layers, MemoryLayered
    <2>5. MemoryLayered'
        BY <1>1, <1>5, <2>1, <2>3, <2>4 DEF MemoryLayered, After
    <2> QED BY <1>1, <2>2, <2>5, LayersKnown
<1> QED BY <1>1, <1>4, <1>5

LEMMA GroupLayers ==
    ASSUME Layers, Ordered, DurableInv, GroupStep \/ AddRecordFails \/ SyncFails
    PROVE  Layers'
<1> USE DEF disk, memory, versions, background
<1>1. /\ group # None
      /\ UNCHANGED <<manifest, edit, running, imm, logfile, logNumber, current, flush, compaction>>
    BY DEF GroupStep, AddRecord, Sync, InsertEntry, FinishWrite, AddRecordFails, SyncFails,
           GroupFails
<1>2. /\ running = "open" /\ Running /\ Running' /\ group \in Group /\ group.entries \in Record
      /\ FilesOK(logs) /\ logfile \in DOMAIN logs /\ logfile \in Nat
      /\ Len(group.entries) \in Nat /\ InGroup = ToSet(group.entries) /\ Torn \in Record
    <2>1. running = "open" /\ group \in Group /\ group.entries \in Record
          /\ Len(group.entries) \in Nat
        BY <1>1, GroupFacts
    <2>2. Torn \in Record
        BY EmptySeq DEF Torn, Record
    <2> QED BY <1>1, <2>1, <2>2 DEF DurableInv, NumbersOK, Running, InGroup
<1>3. mem \subseteq LoggedFrom(logs, logfile)
    BY <1>2 DEF Layers, MemoryLayered
<1>4. /\ LogsGrow /\ \/ mem' = mem
                     \/ /\ logs' = logs /\ group.step # "log"
                        /\ mem' \subseteq mem \cup ToSet(group.entries)
    <2>1. CASE AddRecord \/ AddRecordFails
        <3>1. PICK record \in {group.entries, Torn} : logs' = Appended(logs, logfile, record)
            BY <2>1 DEF AddRecord, AddRecordFails, Appended
        <3>2. record \in Record /\ ToSet(record) \subseteq InGroup
            BY <1>2 DEF Torn, ToSet
        <3>3. mem' = mem
            BY <2>1 DEF AddRecord, AddRecordFails, GroupFails
        <3> QED BY <1>2, <3>1, <3>2, <3>3, AppendGrows
    <2>2. CASE Sync
        <3>1. logs' = [logs EXCEPT ![logfile].synced = Len(logs[logfile].records)] /\ mem' = mem
            BY <2>2 DEF Sync
        <3>2. DOMAIN logs' = DOMAIN logs
              /\ \A n \in DOMAIN logs : logs'[n].records = logs[n].records
            BY <1>2, <3>1, SyncFacts
        <3>3. \A a : LoggedFrom(logs', a) = LoggedFrom(logs, a)
            BY <3>2 DEF LoggedFrom
        <3> QED BY <3>1, <3>3, LogsStand
    <2>3. CASE FinishWrite \/ SyncFails
        <3>1. logs' = logs /\ mem' = mem
            BY <2>3 DEF FinishWrite, SyncFails, GroupFails
        <3> QED BY <3>1, LogsStand
    <2>4. CASE InsertEntry
        <3>1. PICK e : e = group.entries[Len(group.entries) - group.left + 1]
            OBVIOUS
        <3>2. group.left > 0 /\ mem' = mem \cup {e} /\ logs' = logs /\ group.step # "log"
            BY <2>4, <3>1 DEF InsertEntry
        <3>3. group.left \in Nat /\ group.left <= Len(group.entries)
            BY <1>1, <1>2 DEF Group, Ordered, KnownApart
        <3>4. Len(group.entries) - group.left + 1 \in 1..Len(group.entries)
            BY <1>2, <3>2, <3>3
        <3>5. e \in ToSet(group.entries)
            BY <1>2, <3>1, <3>4 DEF ToSet, Record
        <3> QED BY <3>2, <3>5, LogsStand
    <2> QED BY <2>1, <2>2, <2>3, <2>4 DEF GroupStep
<1>5. mem' \subseteq LoggedFrom(logs', logfile)
    <2>1. CASE mem' = mem
        BY <1>3, <1>4, <2>1 DEF LogsGrow
    <2>2. CASE /\ logs' = logs /\ group.step # "log"
               /\ mem' \subseteq mem \cup ToSet(group.entries)
        <3>1. group.entries \in ToSet(logs[logfile].records)
            BY <1>1, <2>2 DEF DurableInv, GroupOK
        <3>2. logfile >= logfile
            BY <1>2
        <3>3. ToSet(group.entries) \subseteq LoggedFrom(logs, logfile)
            BY <1>2, <3>1, <3>2 DEF LoggedFrom
        <3> QED BY <1>3, <2>2, <3>3
    <2> QED BY <1>4, <2>1, <2>2
<1>6. MemoryLayered'
    BY <1>1, <1>4, <1>5, MemoryFrame DEF Layers
<1> QED BY <1>1, <1>4, <1>6, LayersKnown

\* The logs that stay keep what they have.
LEMMA LoggedKept ==
    ASSUME NEW files, FilesOK(files), NEW first \in Nat, NEW a \in Nat, a >= first
    PROVE  LoggedFrom(Restrict(files, {n \in DOMAIN files : n >= first}), a)
               = LoggedFrom(files, a)
<1> DEFINE files2 == Restrict(files, {n \in DOMAIN files : n >= first})
<1>1. /\ \A n : n \in DOMAIN files2 <=> n \in DOMAIN files /\ n >= first
      /\ \A n \in DOMAIN files2 : files2[n] = files[n]
    BY RestrictFacts
<1>2. \A n \in DOMAIN files : n \in Nat /\ (n >= a => n >= first)
    BY DEF FilesOK
<1> HIDE DEF files2
<1> QED BY <1>1, <1>2 DEF LoggedFrom, files2

\* Steps that install the version of the record that was written.
LEMMA LayersInstall ==
    ASSUME Layers, Ordered, DurableInv, Running, running' = "open",
           edit # None \/ running = "opening", edit' = None,
           UNCHANGED <<mem, logfile>>,
           logs' = logs \/ logs' = Restrict(logs, {n \in DOMAIN logs : n >= logNumber'}),
           current' = EditedVersion, logNumber' = edit.logNumber,
           \A m \in manifest' : m.version = EditedVersion /\ m.logNumber = edit.logNumber,
           imm' = None \/ (imm' = imm /\ flush = None),
           compaction' = None \/ (edit # None /\ compaction' = compaction)
    PROVE  Layers'
<1> USE DEF Layers
<1>1. PICK first : first = edit.logNumber
    OBVIOUS
<1>2. /\ first \in Nat /\ FilesOK(logs) /\ logfile \in Nat /\ logfile >= first
      /\ logNumber' = first
    BY <1>1, RecordsAreNumbers DEF DurableInv, NumbersOK
<1>3. \A a \in Nat : a >= first => LoggedFrom(logs', a) = LoggedFrom(logs, a)
    <2>1. CASE logs' = logs
        BY <2>1
    <2>2. CASE logs' = Restrict(logs, {n \in DOMAIN logs : n >= logNumber'})
        <3>1. logs' = Restrict(logs, {n \in DOMAIN logs : n >= first})
            BY <1>2, <2>2
        <3> QED BY <1>2, <3>1, LoggedKept
    <2> QED BY <2>1, <2>2
<1>4. LoggedFrom(logs', first) = LoggedFrom(logs, first)
      /\ LoggedFrom(logs', logfile) = LoggedFrom(logs, logfile)
    BY <1>2, <1>3
<1>5. /\ Layered(EditedVersion) /\ After(LoggedFrom(logs, first), Contents(EditedVersion))
      /\ running = "open" /\ flush = None => first = logNumber
    BY <1>1 DEF EditLayered
<1>6. ManifestLayered'
    BY <1>1, <1>4, <1>5 DEF ManifestLayered
<1>7. EditLayered'
    BY DEF EditLayered
<1>8. MemoryLayered'
    <2>1. mem \subseteq LoggedFrom(logs, logfile)
        BY DEF MemoryLayered
    <2>2. ASSUME imm' # None
          PROVE  imm \subseteq LoggedFrom(logs, first) /\ After(LoggedFrom(logs, logfile), imm)
        <3>1. imm' = imm /\ flush = None
            BY <2>2
        <3> QED BY <1>5, <2>2, <3>1 DEF MemoryLayered
    <2> QED BY <1>2, <1>4, <2>1, <2>2 DEF MemoryLayered
<1>9. CompactionLayered'
    BY DEF CompactionLayered
<1> QED BY <1>6, <1>7, <1>8, <1>9

LEMMA RecordLayers ==
    ASSUME Layers, Ordered, DurableInv, running = "open", edit # None, AppendVersion,
           UNCHANGED <<running, mem, logfile>>,
           imm' = None \/ (imm' = imm /\ flush = None),
           compaction' = None \/ compaction' = compaction,
           logs' = logs \/ logs' = Restrict(logs, {n \in DOMAIN logs : n >= logNumber'})
    PROVE  Layers'
<1>1. Running
    BY DEF Running
<1>2. /\ manifest' = {Apply(m, edit) : m \in manifest} /\ current' = EditedVersion
      /\ logNumber' = edit.logNumber /\ edit' = None
    BY DEF AppendVersion, AppendVersionTo, EditedVersion
<1>3. \A m \in manifest : m.version = current
    BY <1>1 DEF Ordered, ManifestOrdered
<1>4. \A m \in manifest : /\ Apply(m, edit).version = EditedVersion
                          /\ Apply(m, edit).logNumber = edit.logNumber
    BY <1>3 DEF Apply, EditedVersion
<1>5. \A m \in manifest' : m.version = EditedVersion /\ m.logNumber = edit.logNumber
    BY <1>2, <1>4
<1> QED BY <1>1, <1>2, <1>5, LayersInstall

LEMMA OpenedLayers ==
    ASSUME Layers, Ordered, DurableInv, Opened
    PROVE  Layers'
<1>1. /\ running = "opening" /\ running' = "open" /\ Running
      /\ manifest' = {Apply(WriteSnapshot, edit)} /\ current' = EditedVersion
      /\ logNumber' = edit.logNumber /\ edit' = None
      /\ UNCHANGED <<mem, imm, logfile, flush, compaction>>
      /\ logs' = logs \/ logs' = Restrict(logs, {n \in DOMAIN logs : n >= logNumber'})
    BY DEF Opened, AppendVersionTo, DeleteObsoleteFiles, EditedVersion, Running, writing
<1>2. flush = None /\ compaction = None
    BY <1>1 DEF DurableInv, IdleOK
<1>3. /\ Apply(WriteSnapshot, edit).version = EditedVersion
      /\ Apply(WriteSnapshot, edit).logNumber = edit.logNumber
    BY DEF Apply, WriteSnapshot, NewDB, EditedVersion
<1>4. \A m \in manifest' : m.version = EditedVersion /\ m.logNumber = edit.logNumber
    BY <1>1, <1>3
<1> QED BY <1>1, <1>2, <1>4, LayersInstall

\* Steps that begin a record, or go on with a compaction.
LEMMA LayersBegin ==
    ASSUME Layers, EditLayered', CompactionLayered',
           UNCHANGED <<logs, manifest, running, mem, imm, logfile, logNumber>>
    PROVE  Layers'
<1>1. Running' = Running
    BY DEF Running
<1>2. MemoryLayered'
    BY <1>1 DEF Layers, MemoryLayered
<1>3. ManifestLayered'
    BY DEF Layers, ManifestLayered
<1> QED BY <1>2, <1>3 DEF Layers

LEMMA WriteLevel0Layers ==
    ASSUME Layers, Ordered, DurableInv, TablesInv, WriteLevel0Table
    PROVE  Layers'
<1>1. /\ flush # None /\ edit = None /\ running = "open" /\ Running
      /\ UNCHANGED <<logs, manifest, running, mem, imm, logfile, logNumber, current, flush,
                     compaction>>
    BY DEF WriteLevel0Table, DurableInv, IdleOK, Running, writing, memory, versions
<1>2. /\ VersionOK(current) /\ Contents(current) \subseteq Held /\ Apart(Held)
      /\ imm # None /\ imm \subseteq Held
    BY <1>1, CurrentOrdered DEF Held, Ordered, KnownApart
<1>3. /\ Layered(current) /\ After(LoggedFrom(logs, logNumber), Contents(current))
      /\ imm \subseteq LoggedFrom(logs, logNumber) /\ After(LoggedFrom(logs, logfile), imm)
      /\ flush \in Nat
    <2>1. PICK m \in manifest : m.version = current /\ m.logNumber = logNumber
        BY <1>1 DEF Ordered, ManifestOrdered
    <2>2. Layered(current) /\ After(LoggedFrom(logs, logNumber), Contents(current))
        BY <2>1 DEF Layers, ManifestLayered
    <2> QED BY <1>1, <1>2, <2>2 DEF Layers, MemoryLayered, TablesInv, FlushApart
<1>4. /\ After(LoggedFrom(logs, logfile), Contents(current)) /\ After(imm, Contents(current))
    <2>1. LoggedFrom(logs, logfile) \subseteq LoggedFrom(logs, logNumber)
        BY <1>1, LoggedLess DEF DurableInv, NumbersOK
    <2> QED BY <1>3, <2>1 DEF After
<1>5. PICK level, f, e :
          /\ f = NewFile(flush, imm)
          /\ level = PickLevelForMemTableOutput(current, f.smallest.key, f.largest.key)
          /\ e = [NoEdit EXCEPT !.logNumber = logfile]
    OBVIOUS
<1>6. e = [deleted |-> NoFiles, added |-> NoFiles, logNumber |-> logfile,
           nextFile |-> nextFile, lastSequence |-> lastSequence, pointer |-> <<0, NoEntry>>]
    BY <1>5 DEF NoEdit
<1>7. f.smallest = Smallest(imm) /\ f.largest = Largest(imm) /\ f.entries = imm
    BY <1>5 DEF NewFile
<1>8. \/ imm = {} /\ edit' = e
      \/ imm # {} /\ edit' = [e EXCEPT !.added[level] = {f}]
    BY <1>5, <1>7 DEF WriteLevel0Table
<1>9. edit'.logNumber = logfile
    BY <1>6, <1>8
<1>10. PICK w : w = EditedVersion'
    OBVIOUS
<1>11. w = SaveTo(current, edit'.deleted, edit'.added)
    BY <1>1, <1>10 DEF EditedVersion
<1>12. /\ Layered(w) /\ Contents(w) \subseteq Contents(current) \cup imm
       /\ \A c : InputsOK(current, c) /\ RestOK(current, c) => RestOK(w, c)
    <2>1. current \in Version /\ 0 \in Level
        BY <1>2, LevelNumbers DEF VersionOK, LevelsOK
    <2>2. CASE imm = {} /\ edit' = e
        <3>1. w = current
            BY <1>6, <1>11, <2>1, <2>2, SaveFacts
        <3> QED BY <1>3, <3>1
    <2>3. CASE imm # {} /\ edit' = [e EXCEPT !.added[level] = {f}]
        <3>1. level \in Level
            BY <1>5, PickLevelFacts
        <3>2. edit'.deleted = NoFiles /\ edit'.added = [NoFiles EXCEPT ![level] = {f}]
            BY <1>6, <2>3
        <3>3. w = Joined(current, level, {f})
            BY <1>11, <2>1, <3>1, <3>2, SaveFacts
        <3>4. Apart(imm)
            BY <1>2, ApartPart
        <3>5. /\ Layered(w)
              /\ \A c : InputsOK(current, c) /\ RestOK(current, c) => RestOK(w, c)
            BY <1>2, <1>3, <1>4, <1>5, <2>3, <3>3, <3>4, FlushLayered
        <3>6. Contents(w) \subseteq Contents(current) \cup imm
            BY <1>7, <3>3, JoinedContents
        <3> QED BY <3>5, <3>6
    <2> QED BY <1>8, <2>2, <2>3
<1>13. EditLayered'
    <2>1. After(LoggedFrom(logs, logfile), Contents(w))
        BY <1>3, <1>4, <1>12 DEF After
    <2> QED BY <1>1, <1>9, <1>10, <1>12, <2>1 DEF EditLayered
<1>14. CompactionLayered'
    <2> SUFFICES ASSUME compaction # None, compaction.step = "work"
                 PROVE  /\ RestOK(current, compaction.inputs) /\ RestOK(w, compaction.inputs)
                        /\ OneEach(EntriesOf(compaction.outputs) \cup Copied(compaction.todo))
        BY <1>1, <1>10 DEF CompactionLayered
    <2>1. /\ RestOK(current, compaction.inputs)
          /\ OneEach(EntriesOf(compaction.outputs) \cup Copied(compaction.todo))
        BY DEF Layers, CompactionLayered
    <2>2. InputsOK(current, compaction.inputs)
        BY DEF Ordered, CompactionOrdered
    <2> QED BY <1>12, <2>1, <2>2
<1> QED BY <1>1, <1>13, <1>14, LayersBegin

LEMMA FlushLayers ==
    ASSUME Layers, Ordered, DurableInv, TablesInv, Flush \/ (FlushFails /\ edit = None)
    PROVE  Layers'
<1>1. running = "open" /\ Running
    BY DEF Flush, CompactMemTable, WriteLevel0Table, FlushInstalled, FlushFails, DurableInv,
           IdleOK, Running
<1>2. CASE CompactMemTable
    BY <1>2, LayersFrame DEF CompactMemTable, disk, memory
<1>3. CASE WriteLevel0Table
    BY <1>3, WriteLevel0Layers
<1>4. CASE FlushInstalled
    <2>1. logs' = logs \/ logs' = Restrict(logs, {n \in DOMAIN logs : n >= logNumber'})
        BY <1>4 DEF FlushInstalled, DeleteObsoleteFiles
    <2> QED BY <1>1, <1>4, <2>1, RecordLayers DEF FlushInstalled
<1>5. CASE FlushFails /\ edit = None
    BY <1>5, LayersFrame DEF FlushFails
<1> QED BY <1>2, <1>3, <1>4, <1>5 DEF Flush

\* One entry of each key: fewer entries still are.
LEMMA OneEachPart ==
    ASSUME NEW A, OneEach(A), NEW B \in SUBSET A
    PROVE  OneEach(B)
BY DEF OneEach

\* A version with outs in the place of the inputs of c.
Replaces(w, v, c, outs) ==
    /\ w = [l \in Level |-> w[l]]
    /\ \A l \in Level : l # c.level + 1 => w[l] \subseteq v[l]
    /\ w[c.level] \subseteq v[c.level] \ c.mine
    /\ w[c.level + 1] = (v[c.level + 1] \ c.theirs) \cup outs

LEMMA ReplacedVersion ==
    ASSUME NEW v, NEW c, c.level \in 0..(NumLevels - 2), NEW outs, NEW e,
           e.deleted[c.level] = c.mine, e.deleted[c.level + 1] = c.theirs,
           e.added = [NoFiles EXCEPT ![c.level + 1] = outs],
           NEW w, w = SaveTo(v, e.deleted, e.added)
    PROVE  Replaces(w, v, c, outs)
<1>1. w = [l \in Level |-> (v[l] \ e.deleted[l]) \cup e.added[l]]
    BY DEF SaveTo
<1>2. c.level + 1 \in Level /\ c.level \in Level /\ c.level # c.level + 1
    BY LevelNumbers
<1>3. \A l \in Level : e.added[l] = IF l = c.level + 1 THEN outs ELSE {}
    BY <1>2 DEF NoFiles
<1>4. \A l \in Level : w[l] = (v[l] \ e.deleted[l]) \cup e.added[l]
    BY <1>1
<1>5. w = [l \in Level |-> w[l]]
    BY <1>1
<1>6. /\ \A l \in Level : l # c.level + 1 => w[l] = v[l] \ e.deleted[l]
      /\ w[c.level + 1] = (v[c.level + 1] \ c.theirs) \cup outs
    BY <1>2, <1>3, <1>4
<1> QED BY <1>2, <1>5, <1>6 DEF Replaces

\* The record of a compaction or of a move takes out the inputs and adds the outputs.
LEMMA ReplacedLayers ==
    ASSUME Layers, Ordered, DurableInv, running = "open", compaction' # None,
           compaction'.step # "work", flush' = None,
           UNCHANGED <<logs, manifest, running, mem, imm, logfile, logNumber, current>>,
           NEW c, InputsOK(current, c), RestOK(current, c), NEW outs \in SUBSET File,
           \A f \in outs : TableOK(f) /\ f.entries \subseteq EntriesOf(c.mine \cup c.theirs),
           \A f, g \in outs : f # g => /\ Beside(f.entries, g.entries)
                                       /\ KeysApart(f.entries, g.entries),
           edit'.logNumber = logNumber,
           edit'.deleted[c.level] = c.mine, edit'.deleted[c.level + 1] = c.theirs,
           edit'.added = [NoFiles EXCEPT ![c.level + 1] = outs]
    PROVE  Layers'
<1>1. Running /\ VersionOK(current) /\ current \in Version
    BY CurrentOrdered DEF Running, VersionOK, LevelsOK
<1>2. PICK m \in manifest : m.version = current /\ m.logNumber = logNumber
    BY <1>1 DEF Ordered, ManifestOrdered
<1>3. Layered(current) /\ After(LoggedFrom(logs, logNumber), Contents(current))
    BY <1>2 DEF Layers, ManifestLayered
<1>4. PICK e, w : e = edit' /\ w = EditedVersion'
    OBVIOUS
<1>5. w = SaveTo(current, e.deleted, e.added)
    BY <1>4 DEF EditedVersion
<1>6. Replaces(w, current, c, outs) /\ c.level \in 0..(NumLevels - 2)
    <2>1. /\ c.level \in 0..(NumLevels - 2)
          /\ e.deleted[c.level] = c.mine /\ e.deleted[c.level + 1] = c.theirs
          /\ e.added = [NoFiles EXCEPT ![c.level + 1] = outs]
        BY <1>4 DEF InputsOK
    <2> QED BY <1>5, <2>1, ReplacedVersion
<1>7. Contents(w) \subseteq Contents(current)
    BY <1>1, <1>6, InstallOrdered DEF Replaces
<1>8. Layered(w)
    <2>1. c.mine \subseteq current[c.level] /\ c.theirs \subseteq current[c.level + 1]
        BY DEF InputsOK
    <2> QED BY <1>3, <1>6, <2>1, InstallLayered DEF Replaces
<1>9. EditLayered'
    <2>1. After(LoggedFrom(logs, logNumber), Contents(w))
        BY <1>3, <1>7 DEF After
    <2> QED BY <1>4, <1>8, <2>1 DEF EditLayered
<1>10. CompactionLayered'
    BY DEF CompactionLayered
<1> QED BY <1>9, <1>10, LayersBegin

\* Files that follow one another and hold one entry of each key share no key.
LEMMA BesideApart ==
    ASSUME NEW A, NEW B, A \subseteq Entry, B \subseteq Entry, Beside(A, B), OneEach(A \cup B)
    PROVE  KeysApart(A, B)
<1> SUFFICES ASSUME NEW a \in A, NEW b \in B, a.key = b.key PROVE FALSE
    BY DEF KeysApart
<1>1. a = b
    BY DEF OneEach
<1>2. Before(a, a)
    BY <1>1 DEF Beside, Precedes
<1>3. a.key \in Nat /\ a.seq \in Nat
    BY Config DEF Entry
<1> QED BY <1>2, <1>3 DEF Before

LEMMA InstallResultsLayers ==
    ASSUME Layers, Ordered, DurableInv, InstallCompactionResults
    PROVE  Layers'
<1>1. /\ running = "open" /\ Running /\ compaction # None /\ compaction.step = "work"
      /\ compaction.todo = <<>> /\ flush' = None
      /\ compaction' = [compaction EXCEPT !.step = "record"]
      /\ UNCHANGED <<logs, manifest, running, mem, imm, logfile, logNumber, current>>
    BY DEF InstallCompactionResults, DurableInv, IdleOK, Running, memory, versions, writing
<1>2. PICK c, made : c = compaction.inputs /\ made = compaction.outputs
    OBVIOUS
<1>3. edit' = MergeEdit(c, made)
    BY <1>2 DEF InstallCompactionResults, MergeEdit
<1>4. /\ compaction \in CompactionState /\ InputsOK(current, c)
      /\ OutputsOrdered(EntriesOf(c.mine \cup c.theirs), made, <<>>)
    BY <1>1, <1>2 DEF Ordered, CompactionOrdered
<1>5. RestOK(current, c) /\ OneEach(EntriesOf(made))
    BY <1>1, <1>2, OneEachPart DEF Layers, CompactionLayered
<1>6. /\ edit'.logNumber = logNumber
      /\ edit'.deleted[c.level] = c.mine /\ edit'.deleted[c.level + 1] = c.theirs
      /\ edit'.added = [NoFiles EXCEPT ![c.level + 1] = made]
    BY <1>3, <1>4, CompactionEdits
<1>7. compaction' \in CompactionState /\ compaction'.step = "record"
    BY <1>1, <1>4 DEF CompactionState
<1>8. compaction' # None
    BY <1>7, NoneIsNothing
<1>9. /\ made \in SUBSET File
      /\ \A f \in made : TableOK(f) /\ f.entries \subseteq EntriesOf(c.mine \cup c.theirs)
      /\ \A f, g \in made : f # g => Beside(f.entries, g.entries)
    BY <1>4 DEF OutputsOrdered
<1>10. ASSUME NEW f \in made, NEW g \in made, f # g PROVE KeysApart(f.entries, g.entries)
    <2>1. f.entries \subseteq Entry /\ g.entries \subseteq Entry
        BY <1>9 DEF File
    <2>2. f.entries \cup g.entries \in SUBSET EntriesOf(made)
        BY EntriesIn
    <2>3. OneEach(f.entries \cup g.entries)
        BY <1>5, <2>2, OneEachPart
    <2> QED BY <1>9, <1>10, <2>1, <2>3, BesideApart
<1> HIDE DEF InputsOK, File, Entry
<1> QED BY <1>1, <1>4, <1>5, <1>6, <1>7, <1>8, <1>9, <1>10, ReplacedLayers

LEMMA CompactionOutputLayers ==
    ASSUME Layers, Ordered, DurableInv, CompactionOutput
    PROVE  Layers'
<1>1. /\ compaction # None /\ compaction.step = "work" /\ compaction.todo # <<>>
      /\ UNCHANGED <<logs, manifest, edit, running, mem, imm, logfile, logNumber, current, flush>>
    BY DEF CompactionOutput, memory, writing
<1>2. PICK c, f, made, todo :
          /\ c = compaction.inputs /\ made = compaction.outputs /\ todo = compaction.todo
          /\ f = NewFile(nextFile, Head(todo))
    OBVIOUS
<1>3. compaction' = [compaction EXCEPT !.todo = Tail(@), !.outputs = @ \cup {f}]
    BY <1>2 DEF CompactionOutput
<1>4. compaction \in CompactionState
    BY <1>1 DEF Ordered, CompactionOrdered
<1>5. /\ compaction'.inputs = c /\ compaction'.step = "work"
      /\ compaction'.todo = Tail(todo) /\ compaction'.outputs = made \cup {f}
      /\ todo \in Seq(SUBSET Entry) /\ todo # <<>>
    <2> HIDE DEF File, Entry, Compaction, Version
    <2> QED BY <1>1, <1>2, <1>3, <1>4 DEF CompactionState
<1>6. /\ RestOK(current, c) /\ (edit # None => RestOK(EditedVersion, c))
      /\ OneEach(EntriesOf(made) \cup Copied(todo))
    BY <1>1, <1>2 DEF Layers, CompactionLayered
<1>7. EntriesOf(made \cup {f}) \cup Copied(Tail(todo)) \subseteq EntriesOf(made) \cup Copied(todo)
    <2>1. /\ Len(todo) \in Nat /\ 1 \in 1..Len(todo) /\ Head(todo) = todo[1]
          /\ \A i \in 1..Len(Tail(todo)) :
                 Tail(todo)[i] = todo[i + 1] /\ i + 1 \in 1..Len(todo)
        <3> HIDE DEF Entry
        <3> QED BY <1>5
    <2>2. Copied(Tail(todo)) \subseteq Copied(todo)
        BY <2>1 DEF Copied
    <2>3. f.entries \subseteq Copied(todo)
        BY <1>2, <2>1 DEF Copied, NewFile
    <2>4. EntriesOf(made \cup {f}) = EntriesOf(made) \cup f.entries
        BY DEF EntriesOf
    <2> QED BY <2>2, <2>3, <2>4
<1>8. OneEach(EntriesOf(made \cup {f}) \cup Copied(Tail(todo)))
    BY <1>6, <1>7, OneEachPart
<1>9. EditedVersion' = EditedVersion
    BY <1>1 DEF EditedVersion
<1>10. CompactionLayered'
    BY <1>1, <1>5, <1>6, <1>8, <1>9 DEF CompactionLayered
<1>11. EditLayered'
    BY <1>1, <1>9 DEF Layers, EditLayered
<1> QED BY <1>1, <1>10, <1>11, LayersBegin

LEMMA GrandparentsFinite ==
    ASSUME TablesInv, Running, VersionOK(current), NEW c, c.grandparents \subseteq Files(current)
    PROVE  IsFiniteSet(c.grandparents) /\ \A g \in c.grandparents : IsFiniteSet(g.entries)
<1>1. IsFiniteSet(c.grandparents)
    BY FilesFinite, FS_Subset
<1>2. \A g \in Files(current) : FileOK(g)
    BY VersionFiles DEF Files
<1> QED BY <1>1, <1>2 DEF FileOK, Apart

\* Nobody holds a snapshot: every reader to come sees the newest entry of a key.
LEMMA OldestIsLast == Unheld => OldestSnapshot = lastSequence
BY DEF Unheld, OldestSnapshot

\* A file that is moved is the only input.
LEMMA MovedAlone ==
    ASSUME Ordered, TablesInv, Running, NEW c, InputsOK(current, c), IsTrivialMove(c)
    PROVE  /\ c.theirs = {} /\ \E g : c.mine = {g}
           /\ c.mine \in SUBSET File /\ \A h \in c.mine : TableOK(h)
<1>1. c.level \in Level /\ c.mine \subseteq current[c.level] /\ VersionOK(current)
    BY LevelNumbers, CurrentOrdered DEF InputsOK
<1>2. IsFiniteSet(c.mine)
    <2>1. IsFiniteSet(current[c.level])
        BY <1>1 DEF TablesInv, CurrentStored, Stored, StoredFiles
    <2> QED BY <1>1, <2>1, FS_Subset
<1>3. c.theirs = {} /\ \E g : c.mine = {g}
    BY <1>2, FS_Singleton DEF IsTrivialMove
<1>4. \A h \in c.mine : h \in File /\ TableOK(h)
    <2>1. current[c.level] \subseteq File
        BY <1>1 DEF VersionOK, LevelsOK, Version
    <2>2. \A h \in c.mine : FileOK(h)
        BY <1>1, VersionFiles
    <2> QED BY <1>1, <2>1, <2>2 DEF FileOK
<1> QED BY <1>3, <1>4

LEMMA StartTurnLayers ==
    ASSUME Layers, Unheld, Ordered, DurableInv, TablesInv, CompactSomeFiles
    PROVE  Layers'
<1>1. /\ running = "open" /\ Running /\ flush' = None /\ compaction = None
      /\ UNCHANGED <<logs, manifest, running, mem, imm, logfile, logNumber, current>>
    BY DEF CompactSomeFiles, Turn, DurableInv, IdleOK, Running, memory, writing
<1>2. edit = None
    BY <1>1 DEF CompactSomeFiles, Turn, Ordered, EditOrdered
<1>3. VersionOK(current)
    BY <1>1, CurrentOrdered
<1>4. Layered(current)
    <2>1. PICK m \in manifest : m.version = current
        BY <1>1 DEF Ordered, ManifestOrdered
    <2> QED BY <2>1 DEF Layers, ManifestLayered
<1>5. PICK level \in 0..(NumLevels - 2) :
          \E f \in current[level] : \E c :
              /\ c = PickCompaction(current, level, f)
              /\ IF IsTrivialMove(c) THEN StartMove(c) ELSE StartCompaction(c)
    BY DEF CompactSomeFiles
<1>61. PICK f \in current[level] :
           \E c : /\ c = PickCompaction(current, level, f)
                  /\ IF IsTrivialMove(c) THEN StartMove(c) ELSE StartCompaction(c)
    BY <1>5
<1>6. PICK c : /\ c = PickCompaction(current, level, f)
               /\ IF IsTrivialMove(c) THEN StartMove(c) ELSE StartCompaction(c)
    BY <1>61
<1>7. /\ InputsOK(current, c) /\ c.grandparents \subseteq Files(current) /\ c \in Compaction
    BY <1>3, <1>6, PickCompactionFacts
<1>8. RestOK(current, c)
    BY <1>3, <1>4, <1>6, PickLeaves
<1>9. CASE IsTrivialMove(c)
    <2>1. StartMove(c)
        BY <1>6, <1>9
    <2>2. edit' = MoveEdit(c)
        BY <2>1 DEF StartMove, MoveEdit
    <2>3. /\ c.theirs = {} /\ c.mine \in SUBSET File
          /\ \A h \in c.mine : TableOK(h) /\ h.entries \subseteq EntriesOf(c.mine \cup c.theirs)
          /\ \A h, k \in c.mine : h # k => /\ Beside(h.entries, k.entries)
                                          /\ KeysApart(h.entries, k.entries)
        <3>1. /\ c.theirs = {} /\ \E g : c.mine = {g}
              /\ c.mine \in SUBSET File /\ \A h \in c.mine : TableOK(h)
            BY <1>1, <1>7, <1>9, MovedAlone
        <3> HIDE DEF File
        <3> QED BY <3>1 DEF EntriesOf
    <2>4. /\ edit'.logNumber = logNumber
          /\ edit'.deleted[c.level] = c.mine /\ edit'.deleted[c.level + 1] = c.theirs
          /\ edit'.added = [NoFiles EXCEPT ![c.level + 1] = c.mine]
        BY <1>7, <2>2, <2>3, CompactionEdits
    <2>5. compaction' # None /\ compaction'.step # "work"
        <3>1. compaction' = [inputs |-> c, base |-> c.base, manual |-> FALSE,
                             todo |-> <<>>, outputs |-> {}, step |-> "move"]
            BY <2>1 DEF StartMove
        <3>2. compaction' \in CompactionState
            <4>1. <<>> \in Seq(SUBSET Entry) /\ {} \in SUBSET File /\ c.base \in Version
                BY <1>7 DEF Compaction
            <4> QED BY <1>7, <3>1, <4>1 DEF CompactionState
        <3> QED BY <3>1, <3>2, NoneIsNothing
    <2> HIDE DEF InputsOK, File, Entry
    <2> QED BY <1>1, <1>7, <1>8, <2>3, <2>4, <2>5, ReplacedLayers
<1>10. CASE ~IsTrivialMove(c)
    <2>1. PICK todo : todo = CompactionOutputs(c, OldestSnapshot)
        OBVIOUS
    <2>2. /\ compaction' = [inputs |-> c, base |-> c.base, manual |-> Armed,
                            todo |-> todo, outputs |-> {}, step |-> "work"]
          /\ edit' = edit
        BY <1>6, <1>10, <2>1 DEF StartCompaction
    <2>3. PICK taken : taken = EntriesOf(c.mine \cup c.theirs)
        OBVIOUS
    <2>4. Apart(taken) /\ \A e \in taken : e.seq <= OldestSnapshot
        <3>1. c.level \in Level /\ c.level + 1 \in Level
            BY LevelNumbers, <1>7 DEF InputsOK
        <3>2. taken \subseteq Contents(current)
            BY <1>7, <2>3, <3>1 DEF InputsOK, Contents, EntriesOf, Files
        <3>3. \A e \in Contents(current) : e.seq <= lastSequence
            BY <1>1, SeqsAreNumbers
        <3> QED BY <1>1, <1>7, <2>3, <3>2, <3>3, TakenApart, OldestIsLast
    <2>5. IsFiniteSet(c.grandparents) /\ \A g \in c.grandparents : IsFiniteSet(g.entries)
        BY <1>1, <1>3, <1>7, GrandparentsFinite
    <2>6. OneEach(Copied(todo))
        BY <2>1, <2>3, <2>4, <2>5, CompactionKeepsOne
    <2>7. CompactionLayered'
        <3>1. EntriesOf({}) = {}
            BY DEF EntriesOf
        <3>2. OneEach(EntriesOf({}) \cup Copied(todo))
            BY <2>6, <3>1
        <3> QED BY <1>1, <1>2, <1>8, <2>2, <3>2 DEF CompactionLayered
    <2>8. EditLayered'
        BY <1>1, <1>2, <2>2 DEF EditLayered
    <2> QED BY <1>1, <2>7, <2>8, LayersBegin
<1> QED BY <1>9, <1>10

LEMMA CompactionLayers ==
    ASSUME Layers, Unheld, Ordered, DurableInv, TablesInv,
           StartTurn \/ Compact \/ (CompactionFails /\ edit = None)
    PROVE  Layers'
<1>1. CASE NothingToDo
    BY <1>1, LayersFrame DEF NothingToDo, disk
<1>2. CASE CompactionInstalled
    <2>1. /\ running = "open" /\ compaction # None /\ flush' = flush
          /\ compaction.step # "work"
        BY <1>2 DEF CompactionInstalled, CompactionEnds, DurableInv, IdleOK
    <2>2. flush = None
        BY <2>1 DEF TablesInv, FlushApart
    <2>3. /\ UNCHANGED <<running, mem, logfile, imm>>
          /\ compaction' = None /\ edit # None /\ AppendVersion
          /\ logs' = logs \/ logs' = Restrict(logs, {n \in DOMAIN logs : n >= logNumber'})
        BY <1>2 DEF CompactionInstalled, CompactionEnds, DeleteObsoleteFiles
    <2> QED BY <2>1, <2>2, <2>3, RecordLayers
<1>3. CASE CompactionFails /\ edit = None
    <2>1. /\ compaction' = None /\ running = "open" /\ edit' = None
          /\ UNCHANGED <<logs, manifest, running, mem, imm, logfile, logNumber>>
        BY <1>3 DEF CompactionFails, CompactionEnds, DurableInv, IdleOK
    <2>2. EditLayered' /\ CompactionLayered'
        BY <2>1 DEF EditLayered, CompactionLayered
    <2> QED BY <2>1, <2>2, LayersBegin
<1> QED BY <1>1, <1>2, <1>3, StartTurnLayers, CompactionOutputLayers, InstallResultsLayers,
           NoRanges DEF StartTurn, Compact

\* The logs that a crash leaves hold nothing new.
LEMMA KeptLess ==
    ASSUME DurableInv, NEW kept \in KeptRecords, NEW first \in Nat,
           logs' = [n \in DOMAIN logs |-> [records |-> kept[n], synced |-> Len(kept[n])]]
    PROVE  LoggedFrom(logs', first) \subseteq LoggedFrom(logs, first)
<1>1. FilesOK(logs)
    BY DEF DurableInv
<1>2. \A n \in DOMAIN logs' :
          n \in DOMAIN logs /\ \A r \in ToSet(logs'[n].records) : r \in ToSet(logs[n].records)
    <2> SUFFICES ASSUME NEW n \in DOMAIN logs, NEW r \in ToSet(kept[n])
                 PROVE  r \in ToSet(logs[n].records)
        OBVIOUS
    <2>1. kept[n] \in Readable(logs[n])
        BY DEF KeptRecords
    <2>2. logs[n] \in Log /\ logs[n].synced <= Len(logs[n].records)
        BY <1>1, LogFacts DEF FilesOK
    <2> QED BY <2>1, <2>2, ReadableFacts
<1>3. first <= first
    OBVIOUS
<1> QED BY <1>1, <1>2, <1>3, LoggedLess

\* What a recovery makes of the logs and the manifest.
LEMMA RecoverFacts ==
    ASSUME DurableInv, Recover
    PROVE  \E m \in manifest : \E w :
             /\ w \in Work(FirstFree(m), FirstFree(m), LoggedFrom(logs, m.logNumber))
             /\ FirstFree(m) \in Nat /\ w.next \in Nat /\ w.next > m.logNumber
             /\ \A n \in DOMAIN logs : n < w.next
             /\ current' = m.version /\ logNumber' = m.logNumber /\ logfile' = w.next
             /\ logs' = Written(logs, w.next, EmptyLog)
             /\ edit'.deleted = NoFiles /\ edit'.added = [NoFiles EXCEPT ![0] = w.files]
             /\ edit'.logNumber = w.next
<1> DEFINE Start(m) == [mem |-> {}, files |-> {}, next |-> FirstFree(m)]
           Replayed(m) == {n \in DOMAIN logs : n >= m.logNumber}
           Edit(w) == [deleted |-> NoFiles, added |-> [NoFiles EXCEPT ![0] = w.files],
                       logNumber |-> w.next, nextFile |-> w.next + 1,
                       lastSequence |-> lastSequence', pointer |-> <<0, NoEntry>>]
<1>1. PICK m \in manifest :
          /\ current' = m.version /\ logNumber' = m.logNumber
          /\ logfile' = RecoverLogFiles(Replayed(m), Start(m)).next
          /\ logs' = Written(logs, RecoverLogFiles(Replayed(m), Start(m)).next, EmptyLog)
          /\ edit' = Edit(RecoverLogFiles(Replayed(m), Start(m)))
    BY ZenonT(60) DEF Recover, RecoverVersions
<1>2. PICK w, after : w = RecoverLogFiles(after, Start(m)) /\ after = Replayed(m)
    OBVIOUS
<1>3. /\ logfile' = w.next /\ logs' = Written(logs, w.next, EmptyLog) /\ edit' = Edit(w)
    <2> HIDE DEF Start, Replayed, Edit
    <2> QED BY <1>1, <1>2
<1>4. /\ edit'.deleted = NoFiles /\ edit'.added = [NoFiles EXCEPT ![0] = w.files]
      /\ edit'.logNumber = w.next
    BY <1>3
<1>5. /\ FirstFree(m) \in Nat /\ FirstFree(m) > m.logNumber
      /\ w \in Work(FirstFree(m), FirstFree(m), LoggedFrom(logs, m.logNumber))
      /\ \A n \in after : w.next > n
    <2> HIDE DEF Edit
    <2> QED BY <1>2, RecoveryFacts DEF DurableInv
<1>6. /\ m.logNumber \in Nat /\ \A n \in DOMAIN logs : n \in Nat
      /\ \A n : n \in after <=> n \in DOMAIN logs /\ n >= m.logNumber
    <2>1. \A n : n \in after <=> n \in DOMAIN logs /\ n >= m.logNumber
        BY <1>2
    <2> HIDE DEF Start, Replayed, Edit
    <2> QED BY <2>1 DEF DurableInv, ManifestOK, RecordOK, Backed, FilesOK
<1> HIDE DEF Start, Replayed, Edit
<1>7. w.next \in Nat /\ w.next >= FirstFree(m)
    BY <1>5, WorkFacts
<1>8. w.next > m.logNumber /\ \A n \in DOMAIN logs : n < w.next
    BY <1>5, <1>6, <1>7
<1> QED BY <1>1, <1>3, <1>4, <1>5, <1>7, <1>8

\* What a crash may leave of the manifest.
LEMMA OutcomesLayered ==
    ASSUME Layers, Ordered, DurableInv, NEW m \in Outcomes
    PROVE  Layered(m.version) /\ After(LoggedFrom(logs, m.logNumber), Contents(m.version))
<1>1. CASE m \in manifest
    BY <1>1 DEF Layers, ManifestLayered
<1>2. CASE edit # None /\ \E k \in manifest : m = Apply(k, edit)
    <2>1. PICK k \in manifest : m = Apply(k, edit)
        BY <1>2
    <2>2. k.version = current
        BY <1>2 DEF Ordered, EditOrdered, ManifestOrdered
    <2>3. m.version = EditedVersion /\ m.logNumber = edit.logNumber
        BY <2>1, <2>2 DEF Apply, EditedVersion
    <2> QED BY <1>2, <2>3 DEF Layers, EditLayered
<1> QED BY <1>1, <1>2 DEF Outcomes

LEMMA CrashLayers ==
    ASSUME Layers, Ordered, DurableInv, Crash
    PROVE  Layers'
<1>1. PICK m \in Outcomes, kept \in KeptRecords :
          /\ manifest' = {m}
          /\ logs' = [n \in DOMAIN logs |-> [records |-> kept[n], synced |-> Len(kept[n])]]
    BY DEF Crash
<1>2. running' = "down" /\ edit' = None /\ compaction' = None
    BY DEF Crash, Gone
<1>3. LoggedFrom(logs', m.logNumber) \subseteq LoggedFrom(logs, m.logNumber)
    BY <1>1, KeptLess, OutcomesOrdered
<1>4. After(LoggedFrom(logs', m.logNumber), Contents(m.version)) /\ Layered(m.version)
    BY <1>3, OutcomesLayered DEF After
<1>5. ManifestLayered'
    BY <1>1, <1>4 DEF ManifestLayered
<1>6. ~Running'
    BY <1>2 DEF Running
<1> QED BY <1>2, <1>5, <1>6 DEF Layers, EditLayered, MemoryLayered, CompactionLayered

\* The tables a recovery makes of the logs are newer than all that was in tables.
LEMMA RecoveredLayered ==
    ASSUME NEW v, VersionOK(v), Layered(v), NEW logged, logged \subseteq Entry,
           After(logged, Contents(v)), NEW free \in Nat, NEW w \in Work(free, free, logged)
    PROVE  Layered(Joined(v, 0, w.files))
<1>1. EntriesOf(w.files) \subseteq logged
    <2> SUFFICES ASSUME NEW f \in w.files PROVE f.entries \subseteq logged
        BY EntriesIn
    <2>1. PICK k \in Nat, es \in (SUBSET logged) \ {{}} : f = NewFile(k, es)
        <3>1. f \in Made(logged)
            BY WorkFacts
        <3> QED BY <3>1, MadeFacts
    <2> QED BY <2>1 DEF NewFile
<1>2. After(EntriesOf(w.files), Contents(v)) /\ EntriesOf(w.files) \subseteq Entry
    BY <1>1 DEF After
<1> QED BY <1>2, ToppedLayered

LEMMA RecoverLayers ==
    ASSUME Layers, Ordered, DurableInv, Recover
    PROVE  Layers'
<1>11. PICK m \in manifest : \E w :
          /\ w \in Work(FirstFree(m), FirstFree(m), LoggedFrom(logs, m.logNumber))
          /\ FirstFree(m) \in Nat /\ w.next \in Nat /\ w.next > m.logNumber
          /\ \A n \in DOMAIN logs : n < w.next
          /\ current' = m.version /\ logNumber' = m.logNumber /\ logfile' = w.next
          /\ logs' = Written(logs, w.next, EmptyLog)
          /\ edit'.deleted = NoFiles /\ edit'.added = [NoFiles EXCEPT ![0] = w.files]
          /\ edit'.logNumber = w.next
    BY RecoverFacts
<1>1. PICK w :
          /\ w \in Work(FirstFree(m), FirstFree(m), LoggedFrom(logs, m.logNumber))
          /\ FirstFree(m) \in Nat /\ w.next \in Nat /\ w.next > m.logNumber
          /\ \A n \in DOMAIN logs : n < w.next
          /\ current' = m.version /\ logNumber' = m.logNumber /\ logfile' = w.next
          /\ logs' = Written(logs, w.next, EmptyLog)
          /\ edit'.deleted = NoFiles /\ edit'.added = [NoFiles EXCEPT ![0] = w.files]
          /\ edit'.logNumber = w.next
    BY <1>11
<1>2. PICK logged : logged = LoggedFrom(logs, m.logNumber)
    OBVIOUS
<1>3. FilesOK(logs) /\ w.next \notin DOMAIN logs
    BY <1>1 DEF DurableInv
<1>4. /\ running = "down" /\ running' = "opening" /\ ~Running /\ compaction = None
      /\ UNCHANGED <<manifest, mem, imm, compaction>> /\ mem = {} /\ imm = None
    BY DEF Recover, Running, writing, background, DurableInv, IdleOK, Ordered, QuietOrdered
<1>5. /\ \A a : LoggedFrom(logs', a) = LoggedFrom(logs, a)
      /\ LoggedFrom(logs', w.next) = {}
    BY <1>1, <1>3, LoggedNew, NewestIsEmpty
<1>6. ManifestLayered'
    BY <1>4, <1>5 DEF Layers, ManifestLayered
<1>7. /\ LevelsOK(m.version) /\ Apart(Contents(m.version) \cup logged)
      /\ Layered(m.version) /\ After(logged, Contents(m.version))
    BY <1>2 DEF Ordered, ManifestOrdered, Layers, ManifestLayered
<1>8. Layered(Joined(m.version, 0, w.files))
    <2>1. Apart(Contents(m.version)) /\ Apart(logged)
        BY <1>7, ApartPart
    <2>2. VersionOK(m.version) /\ logged \subseteq Entry
        BY <1>7, <2>1 DEF VersionOK, Apart
    <2> QED BY <1>1, <1>2, <1>7, <2>2, RecoveredLayered
<1>9. EditLayered'
    <2>1. m.version \in Version /\ 0 \in Level
        BY <1>7, LevelNumbers DEF LevelsOK
    <2>2. EditedVersion' = Joined(m.version, 0, w.files)
        BY <1>1, <2>1, SaveFacts DEF EditedVersion
    <2>3. After({}, Contents(EditedVersion'))
        BY DEF After
    <2> QED BY <1>1, <1>4, <1>5, <1>8, <2>2, <2>3 DEF EditLayered
<1>10. MemoryLayered' /\ CompactionLayered'
    BY <1>4 DEF MemoryLayered, CompactionLayered
<1> QED BY <1>6, <1>9, <1>10 DEF Layers

-----------------------------------------------------------------------------
LEMMA LayerInit == ASSUME Init PROVE LayerInv
<1> USE DEF Init
<1>1. Unheld
    BY DEF Unheld
<1>2. Layered(NoFiles) /\ Contents(NoFiles) = {}
    <2>1. \A l \in Level : NoFiles[l] = {}
        BY DEF NoFiles
    <2>2. Files(NoFiles) = {}
        BY <2>1 DEF Files
    <2> QED BY <2>1, <2>2 DEF Layered, OnTop, Contents, EntriesOf
<1>3. NewDB.version = NoFiles
    BY DEF NewDB
<1>4. ManifestLayered
    BY <1>2, <1>3 DEF ManifestLayered, After
<1>5. EditLayered /\ MemoryLayered /\ CompactionLayered
    BY DEF EditLayered, MemoryLayered, CompactionLayered, Running
<1> QED BY <1>1, <1>4, <1>5 DEF LayerInv, Layers

\* A snapshot is held only after one was asked for.
LEMMA HeldSnapshots ==
    ASSUME spent \in [Bounded -> Nat], [Next]_vars, spent["snapshot"] = 0 => Unheld,
           spent'["snapshot"] = 0
    PROVE  Unheld' /\ spent["snapshot"] = 0
<1>1. "snapshot" \in Bounded
    BY DEF Bounded
<1>2. ASSUME NEW kind \in Bounded, Spend(kind)
      PROVE  spent["snapshot"] = 0 /\ kind # "snapshot"
    <2>1. spent' = [spent EXCEPT ![kind] = @ + 1] /\ spent["snapshot"] \in Nat
        BY <1>1, <1>2 DEF Spend
    <2>2. kind # "snapshot"
        <3>1. spent["snapshot"] + 1 # 0
            BY <2>1
        <3> QED BY <1>1, <2>1, <3>1
    <2> QED BY <1>1, <2>1, <2>2
<1>3. Unheld
    BY <1>2, SpentStep
<1>4. spent["snapshot"] = 0
    BY <1>2, SpentStep
<1>5. \/ snapshots' = snapshots \/ snapshots' = [h \in Handle |-> None]
      \/ \E h \in Handle : GetSnapshot(h) \/ ReleaseSnapshot(h)
    <2> USE DEF reading
    <2>1. CASE \/ \E t \in Thread : \E b, sync : Write(t, b, sync)
               \/ \E t \in Thread : Lead(t)
               \/ GroupStep
        BY <2>1 DEF Write, Lead, LeadGroup, LeaderFails, GroupStep, AddRecord, Sync, InsertEntry,
                    FinishWrite
    <2>2. CASE \/ \E r \in Reader, s \in 0..MaxSeq : BeginRead(r, s)
               \/ \E r \in Reader : EndRead(r)
               \/ \E l \in 0..(NumLevels - 2), range \in Ranges :
                      RequestRange(l, range[1], range[2])
               \/ ArmManual \/ RangeReturns
        BY <2>2 DEF BeginRead, EndRead, RequestRange, ArmManual, RangeReturns
    <2>3. CASE Background
        BY <2>3 DEF Background, Flush, CompactMemTable, WriteLevel0Table, FlushInstalled, StartTurn,
                    CompactSomeFiles, CompactRange, NothingToDo, Compact, CompactionOutput,
                    InstallCompactionResults, CompactionInstalled, CompactionEnds, NullManual, Gone
    <2>4. CASE Recover \/ Opened
        BY <2>4 DEF Recover, Opened
    <2>5. CASE Faults
        BY <2>5 DEF Faults, AddRecordFails, SyncFails, GroupFails, FlushFails, CompactionFails,
                    CompactionEnds, OpenFails, Crash, Gone
    <2>6. CASE UNCHANGED vars
        BY <2>6 DEF vars
    <2> QED BY <2>1, <2>2, <2>3, <2>4, <2>5, <2>6 DEF Next
<1>6. ASSUME NEW h \in Handle, GetSnapshot(h) PROVE FALSE
    BY <1>1, <1>2, <1>6 DEF GetSnapshot
<1>7. ASSUME NEW h \in Handle, ReleaseSnapshot(h) PROVE FALSE
    BY <1>3, <1>7 DEF ReleaseSnapshot, Unheld
<1> QED BY <1>3, <1>4, <1>5, <1>6, <1>7 DEF Unheld

LEMMA LayerNext ==
    ASSUME LayerInv, OrderInv, DurableInv, TablesInv, [Next]_vars
    PROVE  LayerInv'
<1>1. /\ spent \in [Bounded -> Nat] /\ (Calm' => Calm)
      /\ spent'["snapshot"] = 0 => Unheld' /\ Unheld /\ spent["snapshot"] = 0
    BY SpentStep, SpendFacts, HeldSnapshots DEF OrderInv, Calm, LayerInv
<1>2. "manifest" \in Bounded /\ "manual" \in Bounded
    BY DEF Bounded
<1>3. ASSUME Spend("manifest") \/ Spend("manual") PROVE ~Calm'
    BY <1>2, <1>3, SpendFacts DEF OrderInv
<1> SUFFICES ASSUME Calm', spent'["snapshot"] = 0 PROVE Layers'
    BY <1>1 DEF LayerInv, Plain
<1>4. Layers /\ Unheld /\ Ordered
    BY <1>1 DEF LayerInv, Plain, OrderInv
<1>5. CASE \/ \E t \in Thread, b \in Batch, sync \in BOOLEAN : Write(t, b, sync)
           \/ \E t \in Thread : Write(t, <<>>, FALSE)
           \/ \E h \in Handle : GetSnapshot(h) \/ ReleaseSnapshot(h)
           \/ \E r \in Reader, s \in 0..MaxSeq : BeginRead(r, s)
           \/ \E r \in Reader : EndRead(r)
           \/ UNCHANGED vars
    BY <1>4, <1>5, ClientLayers
<1>6. CASE \E t \in Thread : Lead(t)
    BY <1>4, <1>6, LeadGroupLayers, ClientLayers DEF Lead
<1>7. CASE GroupStep
    BY <1>4, <1>7, GroupLayers
<1>8. CASE \/ \E l \in 0..(NumLevels - 2), range \in Ranges : RequestRange(l, range[1], range[2])
           \/ ArmManual \/ RangeReturns
    BY <1>3, <1>4, <1>8, NoRanges DEF RequestRange
<1>9. CASE Background
    BY <1>4, <1>9, FlushLayers, CompactionLayers DEF Background
<1>10. CASE Recover \/ Opened
    BY <1>4, <1>10, RecoverLayers, OpenedLayers
<1>11. CASE Faults
    <2>1. ASSUME FlushFails \/ CompactionFails PROVE edit = None
        BY <1>3, <2>1 DEF FlushFails, CompactionFails, RecordFails
    <2>2. ~OpenFails
        BY <1>3 DEF OpenFails
    <2> QED BY <1>4, <1>11, <2>1, <2>2, GroupLayers, FlushLayers, CompactionLayers, CrashLayers
            DEF Faults
<1> QED BY <1>5, <1>6, <1>7, <1>8, <1>9, <1>10, <1>11 DEF Next

\* As long as no record of the manifest failed and no client compacted a range or held
\* a snapshot, an entry lies above the older ones of its key, so that the first one a
\* search from level 0 down meets is the newest: flushes past level 0, compactions that
\* run beside them, files that are moved and recoveries keep it so
\* (PickLevelForMemTableOutput, SetupOtherInputs, DoCompactionWork, Version::Get).
THEOREM NewerEntriesLieAbove ==
    Spec => [](Calm /\ spent["snapshot"] = 0 => NewerAbove)
<1>1. LayerInv /\ OrderInv /\ Calm /\ spent["snapshot"] = 0 => NewerAbove
    <2> SUFFICES ASSUME LayerInv, OrderInv, Calm, spent["snapshot"] = 0, running = "open",
                        NEW l \in Level, NEW m \in Level, l < m
                 PROVE  OnTop(EntriesOf(current[l]), EntriesOf(current[m]))
        BY DEF NewerAbove, OnTop
    <2>1. Layers /\ Ordered /\ Running
        BY DEF LayerInv, Plain, OrderInv, Running
    <2>2. PICK r \in manifest : r.version = current
        BY <2>1 DEF Ordered, ManifestOrdered
    <2> QED BY <2>1, <2>2 DEF Layers, ManifestLayered, Layered
<1>2. Init => LayerInv /\ OrderInv /\ DurableInv /\ TablesInv
    BY LayerInit, OrderInit, DurableInit, TablesInit
<1>3. LayerInv /\ OrderInv /\ DurableInv /\ TablesInv /\ [Next]_vars
          => (LayerInv /\ OrderInv /\ DurableInv /\ TablesInv)'
    BY LayerNext, OrderNext, DurableNext, TablesNext
<1> QED BY <1>1, <1>2, <1>3, PTL DEF Spec
=============================================================================

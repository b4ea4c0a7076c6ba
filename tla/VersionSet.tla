----------------------------- MODULE VersionSet -----------------------------
(***************************************************************************)
(* leveldb's versions: the table files of every level, how a key is looked *)
(* up in them, which files a compaction takes and what it writes           *)
(* (db/version_set.cc, the loop of DBImpl::DoCompactionWork).  These are   *)
(* functions of a version; DBImpl holds the state.                         *)
(*                                                                         *)
(* A value is told apart by the sequence number of its write.  A file is   *)
(* its FileMetaData and its entries; its size is the number of entries.    *)
(***************************************************************************)
EXTENDS Naturals, Sequences, FiniteSets, FiniteSetsExt, SequencesExt

CONSTANTS
    UserKey,                \* a finite set of numbers, ordered as such
    NumLevels,              \* config::kNumLevels
    MaxMemCompactLevel,     \* config::kMaxMemCompactLevel
    LevelLimit,             \* kL0_CompactionTrigger and MaxBytesForLevel
    MaxFileSize,            \* TargetFileSize
    MaxOverlap,             \* MaxGrandParentOverlapBytes
    ExpandedLimit           \* ExpandedCompactionByteSizeLimit

ASSUME Config ==
    /\ UserKey \subseteq Nat /\ IsFiniteSet(UserKey)
    /\ NumLevels \in Nat /\ NumLevels >= 2
    /\ MaxMemCompactLevel \in 0..(NumLevels - 1)
    /\ LevelLimit \in [0..(NumLevels - 1) -> Nat \ {0}]
    /\ {MaxFileSize, MaxOverlap, ExpandedLimit} \subseteq Nat

Level == 0..(NumLevels - 1)

\* Internal keys: ParsedInternalKey, with the type of the entry.
Entry == [key : UserKey, seq : Nat, type : {"value", "deletion"}]
NoEntry == [key |-> 0, seq |-> 0, type |-> "none"]
File == [number : Nat, smallest : Entry, largest : Entry, entries : SUBSET Entry]
Version == [Level -> SUBSET File]
NoFiles == [l \in Level |-> {}]
Compaction == [level : Level, mine : SUBSET File, theirs : SUBSET File, base : Version,
               grandparents : SUBSET File]

-----------------------------------------------------------------------------
\* InternalKeyComparator: increasing user keys, the newest entry of each first.
Before(a, b) == a.key < b.key \/ (a.key = b.key /\ a.seq > b.seq)

Smallest(entries) == CHOOSE e \in entries : \A d \in entries \ {e} : Before(e, d)
Largest(entries) == CHOOSE e \in entries : \A d \in entries \ {e} : Before(d, e)
NewFile(number, entries) ==
    [number |-> number, smallest |-> Smallest(entries), largest |-> Largest(entries),
     entries |-> entries]
EntriesOf(files) == UNION {f.entries : f \in files}
Files(version) == UNION {version[l] : l \in Level}
TotalFileSize(files) == MapThenSumSet(LAMBDA f : Cardinality(f.entries), files)

\* BySmallestKey: the order of a version's files.
InOrder(files) ==
    SetToSortSeq(files, LAMBDA f, g :
        \/ Before(f.smallest, g.smallest)
        \/ f.smallest = g.smallest /\ f.number < g.number)

\* AfterFile and BeforeFile both false.
Overlaps(f, lo, hi) ==
    /\ lo <= f.largest.key
    /\ hi >= f.smallest.key

OverlapInLevel(version, level, lo, hi) ==
    \E f \in version[level] : Overlaps(f, lo, hi)

\* What the restarts of the search of level 0 grow [lo, hi] to: the least range
\* that holds every file it meets.
Widened(files, lo, hi) ==
    LET closed == {r \in UserKey \X UserKey :
                      /\ r[1] <= lo /\ hi <= r[2]
                      /\ \A f \in files : Overlaps(f, r[1], r[2]) =>
                             r[1] <= f.smallest.key /\ f.largest.key <= r[2]}
    IN CHOOSE r \in closed : \A q \in closed : q[1] <= r[1] /\ r[2] <= q[2]

GetOverlappingInputs(version, level, lo, hi) ==
    LET range == IF level = 0 THEN Widened(version[0], lo, hi) ELSE <<lo, hi>>
    IN {f \in version[level] : Overlaps(f, range[1], range[2])}

-----------------------------------------------------------------------------
\* Version::Get: the entry of a key that is visible at a snapshot.
Visible(entries, key, snapshot) ==
    LET seen == {e \in entries : e.key = key /\ e.seq <= snapshot}
    IN IF seen = {} THEN NoEntry ELSE CHOOSE e \in seen : \A d \in seen : d.seq <= e.seq

\* FindFile: a binary search for the first file whose largest key is not before the
\* target; of files that overlap, the one it happens on.
FindFile(files, target) ==
    LET ordered == InOrder(files)
        n == Len(ordered)
        search[left \in 0..n, right \in 0..n] ==
            LET mid == (left + right) \div 2
            IN IF left >= right THEN right
               ELSE IF Before(ordered[mid + 1].largest, target) THEN search[mid + 1, right]
               ELSE search[left, mid]
    IN {ordered[i] : i \in {search[0, n] + 1} \cap 1..n}

\* The files of a level that are searched for a key, in the order of the search.
Searched(version, level, key, snapshot) ==
    IF level = 0
    THEN SetToSortSeq({f \in version[0] : Overlaps(f, key, key)},
                      LAMBDA f, g : f.number > g.number)
    ELSE LET target == [key |-> key, seq |-> snapshot, type |-> "value"]
         IN SetToSeq({f \in FindFile(version[level], target) : key >= f.smallest.key})

\* ForEachOverlapping visits the same files in the same order.
SearchOrder(version, key, snapshot) ==
    FlattenSeq([i \in 1..NumLevels |-> Searched(version, i - 1, key, snapshot)])

VersionGet(version, key, snapshot) ==
    LET Hit(f) == Visible(f.entries, key, snapshot)
        found == SelectSeq(SearchOrder(version, key, snapshot), LAMBDA f : Hit(f) # NoEntry)
    IN IF found = <<>> THEN NoEntry ELSE Hit(Head(found))

-----------------------------------------------------------------------------
\* Builder: Apply and SaveTo of one edit.
SaveTo(version, deleted, added) ==
    [l \in Level |-> (version[l] \ deleted[l]) \cup added[l]]

\* Mutant: the files of the level itself are not looked at.
PickLevelForMemTableOutputOver(version, lo, hi) ==
    LET Fits(l) == l + 1 < NumLevels =>
            TotalFileSize(GetOverlappingInputs(version, l + 1, lo, hi)) <= MaxOverlap
    IN IF OverlapInLevel(version, 0, lo, hi) THEN 0
       ELSE Max({l \in 0..MaxMemCompactLevel : \A m \in 1..l : Fits(m)})

\* Mutant: a memtable goes down past files that overlap it in level 0.
PickLevelForMemTableOutputPast(version, lo, hi) ==
    LET Fits(l) ==
            /\ ~OverlapInLevel(version, l, lo, hi)
            /\ l + 1 < NumLevels =>
                 TotalFileSize(GetOverlappingInputs(version, l + 1, lo, hi)) <= MaxOverlap
    IN Max({l \in 0..MaxMemCompactLevel : \A m \in 1..l : Fits(m)})

PickLevelForMemTableOutput(version, lo, hi) ==
    LET Fits(l) ==
            /\ ~OverlapInLevel(version, l, lo, hi)
            /\ l + 1 < NumLevels =>
                 TotalFileSize(GetOverlappingInputs(version, l + 1, lo, hi)) <= MaxOverlap
    IN IF OverlapInLevel(version, 0, lo, hi) THEN 0
       ELSE Max({l \in 0..MaxMemCompactLevel : \A m \in 1..l : Fits(m)})

\* Finalize: the level that exceeds its limit most, the lowest of equals.
Amount(version, l) == IF l = 0 THEN Cardinality(version[0]) ELSE TotalFileSize(version[l])
CompactionLevel(version) ==
    CHOOSE l \in 0..(NumLevels - 2) : \A m \in 0..(NumLevels - 2) \ {l} :
        LET mine == Amount(version, l) * LevelLimit[m]
            its == Amount(version, m) * LevelLimit[l]
        IN mine > its \/ (mine = its /\ l < m)

\* compaction_score_ >= 1, the largest of the scores.
SizeCompaction(version) ==
    \E l \in 0..(NumLevels - 2) : Amount(version, l) >= LevelLimit[l]

-----------------------------------------------------------------------------
\* GetRange: the least range that holds the files.
GetRange(files) ==
    <<Min({f.smallest.key : f \in files}), Max({f.largest.key : f \in files})>>

\* SetupOtherInputs: the files of the next level, more of this level when that
\* adds none to the next, and the grandparents.
SetupOtherInputs(version, level, inputs) ==
    LET Over(l, files) ==
            LET range == GetRange(files)
            IN GetOverlappingInputs(version, l, range[1], range[2])
        next == Over(level + 1, inputs)
        more == Over(level, inputs \cup next)
        grow == /\ next # {}
                /\ Cardinality(more) > Cardinality(inputs)
                /\ TotalFileSize(next) + TotalFileSize(more) < ExpandedLimit
                /\ Cardinality(Over(level + 1, more)) = Cardinality(next)
        mine == IF grow THEN more ELSE inputs
        theirs == IF grow THEN Over(level + 1, more) ELSE next
    IN [level |-> level, mine |-> mine, theirs |-> theirs, base |-> version,
        grandparents |-> IF level + 2 < NumLevels
                         THEN Over(level + 2, mine \cup theirs) ELSE {}]

\* compact_pointer_ of the level after SetupOtherInputs.
PointerAfter(c) == Largest(EntriesOf(c.mine))

\* PickCompaction, for size: the first file after the compaction pointer.
PickForSize(version, pointer) ==
    LET level == CompactionLevel(version)
        files == InOrder(version[level])
        i == SelectInSeq(files, LAMBDA f :
                 pointer[level] = NoEntry \/ Before(pointer[level], f.largest))
    IN <<level, IF i = 0 THEN files[1] ELSE files[i]>>

PickFile(version, pointer, seek) ==
    IF SizeCompaction(version) THEN PickForSize(version, pointer) ELSE seek

PickCompaction(version, level, f) ==
    SetupOtherInputs(version, level,
        IF level # 0 THEN {f}
        ELSE GetOverlappingInputs(version, 0, f.smallest.key, f.largest.key))

\* CompactRange: not more than MaxFileSize of a level above the first.
RangeInputs(version, level, lo, hi) ==
    LET files == InOrder(GetOverlappingInputs(version, level, lo, hi))
        Reached(i) == TotalFileSize({files[j] : j \in 1..i}) >= MaxFileSize
        enough == {i \in 1..Len(files) : Reached(i)}
        last == IF level = 0 \/ enough = {} THEN Len(files) ELSE Min(enough)
    IN {files[j] : j \in 1..last}

IsTrivialMove(c) ==
    /\ Cardinality(c.mine) = 1 /\ c.theirs = {}
    /\ TotalFileSize(c.grandparents) <= MaxOverlap

-----------------------------------------------------------------------------
IsBaseLevelForKey(c, key) ==
    \A l \in (c.level + 2)..(NumLevels - 1) : ~OverlapInLevel(c.base, l, key, key)

\* Rule (A) and the rule for deletions: what DoCompactionWork does not copy.
\* newer is the entry of the same key that came before, or NoEntry.
Drop(c, e, newer, smallestSnapshot) ==
    \/ newer # NoEntry /\ newer.seq <= smallestSnapshot
    \/ /\ e.type = "deletion"
       /\ e.seq <= smallestSnapshot
       /\ IsBaseLevelForKey(c, e.key)

\* ShouldStopBefore: passes the grandparents that end before e.
PassGrandparents(c, w, e) ==
    LET passed == {g \in c.grandparents \ w.passed : Before(g.largest, e)}
        sum == w.overlapped + IF w.last = NoEntry THEN 0 ELSE TotalFileSize(passed)
    IN [w EXCEPT !.passed = @ \cup passed,
                 !.overlapped = IF sum > MaxOverlap THEN 0 ELSE sum,
                 !.outputs = IF sum > MaxOverlap /\ Last(@) # {} THEN Append(@, {}) ELSE @]

\* One turn of the loop of DoCompactionWork; the last output is the open one.
CopyEntry(c, smallestSnapshot, w, e) ==
    LET p == PassGrandparents(c, w, e)
        newer == IF w.last.key = e.key THEN w.last ELSE NoEntry
        out == Last(p.outputs) \cup {e}
    IN IF Drop(c, e, newer, smallestSnapshot) THEN [p EXCEPT !.last = e]
       ELSE [p EXCEPT !.last = e,
                      !.outputs = Front(@) \o (IF Cardinality(out) >= MaxFileSize
                                               THEN <<out, {}>> ELSE <<out>>)]

\* MakeInputIterator: the entries of the inputs, merged.
InKeyOrder(entries) ==
    LET Rank(e) == Cardinality({d \in entries : Before(d, e)})
    IN [i \in 1..Cardinality(entries) |-> CHOOSE e \in entries : Rank(e) = i - 1]

\* The entries of the files a compaction of c writes; an open output without
\* entries has no file.
CompactionOutputs(c, smallestSnapshot) ==
    LET start == [outputs |-> <<{}>>, passed |-> {}, overlapped |-> 0, last |-> NoEntry]
        \* The set of one element makes TLC evaluate w once.
        Step(w, e) == CHOOSE v \in {CopyEntry(c, smallestSnapshot, u, e) : u \in {w}} : TRUE
        end == FoldLeft(Step, start, InKeyOrder(EntriesOf(c.mine \cup c.theirs)))
    IN IF Last(end.outputs) = {} THEN Front(end.outputs) ELSE end.outputs
=============================================================================

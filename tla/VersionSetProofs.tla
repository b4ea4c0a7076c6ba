-------------------------- MODULE VersionSetProofs --------------------------
(***************************************************************************)
(* What leveldb's compactions and flushes keep in order, for every version *)
(* and every set of entries that sequence numbers tell apart: the files of *)
(* a level above 0 lie beside one another, that is, every entry of one     *)
(* comes before every entry of the other; and the newest entry of a key    *)
(* lies above the others.                                                  *)
(*                                                                         *)
(* SetupFacts: the files a compaction takes leave no gap that a file of    *)
(* the next level fits in, so the ones left out lie beside all of them     *)
(* (InputsOK, Solid).  CompactionFold: what every turn of the loop over the *)
(* entries keeps holds of what is written.  CompactionOutputsFacts: the    *)
(* outputs follow one another.  InstallOrdered and FlushOrdered: the version *)
(* that comes of it is in order again, and a table that is flushed meanwhile *)
(* leaves the inputs what they were.                                       *)
(*                                                                         *)
(* Layered says where the entries of a key lie.  PickLeaves: a compaction  *)
(* leaves nothing older in its upper level, and no entry of its keys in the *)
(* lower one (RestOK).  CompactionKeepsOne: it writes the newest of each key *)
(* when every reader sees all of them.  InstallLayered and FlushLayered: so *)
(* the version that comes of it is layered.                                *)
(***************************************************************************)
EXTENDS VersionSet, NaturalOrder, SequenceTheorems

-----------------------------------------------------------------------------
\* The order of entries.
\*
\* Every entry of one set comes before every entry of the other.
Precedes(A, B) == \A a \in A, b \in B : Before(a, b)
Beside(A, B) == Precedes(A, B) \/ Precedes(B, A)

\* Entries that are told apart by their sequence numbers.
Apart(entries) ==
    /\ entries \subseteq Entry /\ IsFiniteSet(entries)
    /\ \A d, e \in entries : d.seq = e.seq => d = e

LEMMA ApartPart ==
    ASSUME NEW S, Apart(S), NEW T, T \subseteq S
    PROVE  Apart(T)
<1>1. IsFiniteSet(T)
    BY FS_Subset DEF Apart
<1> QED BY <1>1 DEF Apart

LEMMA BeforeFacts ==
    ASSUME NEW a \in Entry, NEW b \in Entry
    PROVE  /\ a.key \in Nat /\ b.key \in Nat /\ a.seq \in Nat /\ b.seq \in Nat
           /\ a.key \in UserKey /\ b.key \in UserKey
           /\ Before(a, b) => a.key <= b.key /\ ~Before(b, a) /\ a # b
           /\ a.key < b.key => Before(a, b)
           /\ a.seq # b.seq => Before(a, b) \/ Before(b, a)
<1>1. a.key \in UserKey /\ b.key \in UserKey /\ a.seq \in Nat /\ b.seq \in Nat
    BY DEF Entry
<1>2. a.key \in Nat /\ b.key \in Nat
    BY <1>1, Config
<1> QED BY <1>1, <1>2 DEF Before

LEMMA BeforeTransitive ==
    ASSUME NEW a \in Entry, NEW b \in Entry, NEW c \in Entry, Before(a, b), Before(b, c)
    PROVE  Before(a, c)
<1>1. /\ a.key \in Nat /\ b.key \in Nat /\ c.key \in Nat
      /\ a.seq \in Nat /\ b.seq \in Nat /\ c.seq \in Nat
    BY BeforeFacts
<1> QED BY <1>1 DEF Before

\* How many entries come before one.
Rank(entries, e) == Cardinality({d \in entries : Before(d, e)})

LEMMA RankFacts ==
    ASSUME NEW S, Apart(S)
    PROVE  /\ Cardinality(S) \in Nat
           /\ \A e \in S : Rank(S, e) \in 0..(Cardinality(S) - 1)
           /\ \A d, e \in S : Before(d, e) <=> Rank(S, d) < Rank(S, e)
           /\ \A d, e \in S : Rank(S, d) = Rank(S, e) => d = e
           /\ \A i \in 1..Cardinality(S) : \E e \in S : Rank(S, e) = i - 1
<1> DEFINE N == Cardinality(S)
           Lower(e) == {d \in S : Before(d, e)}
<1>1. S \subseteq Entry /\ IsFiniteSet(S) /\ \A d, e \in S : d.seq = e.seq => d = e
    BY DEF Apart
<1>2. N \in Nat
    BY <1>1, FS_CardinalityType
<1>3. \A e \in S : IsFiniteSet(Lower(e)) /\ Rank(S, e) \in Nat
    BY <1>1, FS_Subset, FS_CardinalityType DEF Rank
<1>4. ASSUME NEW d \in S, NEW e \in S, Before(d, e) PROVE Rank(S, d) < Rank(S, e)
    <2>1. d \in Entry /\ e \in Entry /\ ~Before(d, d)
        BY <1>1, BeforeFacts
    <2>2. Lower(d) \subseteq Lower(e)
        <3>1. \A c \in Lower(d) : c \in Entry /\ Before(c, e)
            BY <1>1, <1>4, <2>1, BeforeTransitive
        <3> QED BY <3>1
    <2>3. d \in Lower(e) /\ d \notin Lower(d)
        BY <1>4, <2>1
    <2> HIDE DEF Lower
    <2>4. Cardinality(Lower(d)) <= Cardinality(Lower(e))
          /\ Cardinality(Lower(d)) # Cardinality(Lower(e))
        BY <1>3, <2>2, <2>3, FS_Subset
    <2> QED BY <1>3, <2>4 DEF Rank, Lower
<1>5. ASSUME NEW d \in S, NEW e \in S, d # e PROVE Before(d, e) \/ Before(e, d)
    BY <1>1, <1>5, BeforeFacts
<1>6. \A d, e \in S : Rank(S, d) = Rank(S, e) => d = e
    <2> SUFFICES ASSUME NEW d \in S, NEW e \in S, d # e PROVE Rank(S, d) # Rank(S, e)
        OBVIOUS
    <2>1. Rank(S, d) \in Nat /\ Rank(S, e) \in Nat
        BY <1>3
    <2>2. Rank(S, d) < Rank(S, e) \/ Rank(S, e) < Rank(S, d)
        BY <1>4, <1>5
    <2> QED BY <2>1, <2>2
<1>7. \A d, e \in S : Before(d, e) <=> Rank(S, d) < Rank(S, e)
    <2> SUFFICES ASSUME NEW d \in S, NEW e \in S, Rank(S, d) < Rank(S, e) PROVE Before(d, e)
        BY <1>4
    <2>1. Rank(S, d) \in Nat /\ Rank(S, e) \in Nat
        BY <1>3
    <2>2. d # e /\ ~(Rank(S, e) < Rank(S, d))
        BY <2>1
    <2> QED BY <1>4, <1>5, <2>2
<1>8. \A e \in S : Rank(S, e) \in 0..(N - 1)
    <2> SUFFICES ASSUME NEW e \in S PROVE Rank(S, e) < N
        <3> HIDE DEF Lower, N
        <3>1. \A e \in S : Rank(S, e) \in Nat
            BY <1>3
        <3> QED BY <1>2, <3>1
    <2>1. e \notin Lower(e) /\ Lower(e) \subseteq S
        BY <1>1, BeforeFacts
    <2> HIDE DEF Lower
    <2>2. Cardinality(Lower(e)) <= N /\ Cardinality(Lower(e)) # N
        BY <1>1, <2>1, FS_Subset
    <2> QED BY <1>2, <1>3, <2>2 DEF Rank, Lower
<1> HIDE DEF Lower
<1>9. \A i \in 1..N : \E e \in S : Rank(S, e) = i - 1
    <2> DEFINE f == [e \in S |-> Rank(S, e)]
               T == 0..(N - 1)
    <2>1. IsFiniteSet(T) /\ Cardinality(T) = N
        BY <1>2, FS_Interval
    <2>2. f \in Injection(S, T)
        BY <1>6, <1>8 DEF Injection, IsInjective
    <2>3. f \in Surjection(S, T)
        <3> HIDE DEF f, T
        <3> QED BY <1>2, <2>1, <2>2, FS_Injection
    <2>4. \A i \in T : \E e \in S : f[e] = i
        BY <2>3 DEF Surjection
    <2>5. \A i \in 1..N : i - 1 \in T
        BY <1>2
    <2> QED BY <2>4, <2>5
<1> QED BY <1>2, <1>6, <1>7, <1>8, <1>9 DEF N

LEMMA SmallestFacts ==
    ASSUME NEW S, Apart(S), S # {}
    PROVE  /\ Smallest(S) \in S /\ \A e \in S \ {Smallest(S)} : Before(Smallest(S), e)
           /\ Largest(S) \in S /\ \A e \in S \ {Largest(S)} : Before(e, Largest(S))
<1>1. Cardinality(S) \in Nat /\ Cardinality(S) # 0
    BY FS_CardinalityType, FS_EmptySet DEF Apart
<1>2. 1 \in 1..Cardinality(S) /\ Cardinality(S) \in 1..Cardinality(S)
    BY <1>1
<1>3. /\ \A e \in S : Rank(S, e) \in 0..(Cardinality(S) - 1)
      /\ \A d, e \in S : Before(d, e) <=> Rank(S, d) < Rank(S, e)
      /\ \A d, e \in S : Rank(S, d) = Rank(S, e) => d = e
    BY RankFacts
<1>4. PICK e \in S : Rank(S, e) = 1 - 1
    BY <1>2, RankFacts
<1>5. PICK g \in S : Rank(S, g) = Cardinality(S) - 1
    BY <1>2, RankFacts
<1>6. \A d \in S \ {e} : Before(e, d)
    <2> SUFFICES ASSUME NEW d \in S \ {e} PROVE Before(e, d)
        OBVIOUS
    <2>1. Rank(S, d) \in Nat /\ Rank(S, d) # 0 /\ Rank(S, e) = 0
        BY <1>3, <1>4
    <2> QED BY <1>3, <2>1
<1>7. \A d \in S \ {g} : Before(d, g)
    <2> SUFFICES ASSUME NEW d \in S \ {g} PROVE Before(d, g)
        OBVIOUS
    <2>1. Rank(S, d) \in 0..(Cardinality(S) - 1) /\ Rank(S, d) # Cardinality(S) - 1
        BY <1>3, <1>5
    <2>2. Rank(S, d) < Rank(S, g)
        BY <1>1, <1>5, <2>1
    <2> QED BY <1>3, <2>2
<1> QED BY <1>6, <1>7 DEF Smallest, Largest

LEMMA KeyOrderFacts ==
    ASSUME NEW S, Apart(S)
    PROVE  /\ Cardinality(S) \in Nat /\ InKeyOrder(S) \in [1..Cardinality(S) -> S]
           /\ \A i, j \in 1..Cardinality(S) :
                  i < j => Before(InKeyOrder(S)[i], InKeyOrder(S)[j])
           /\ \A e \in S : \E i \in 1..Cardinality(S) : InKeyOrder(S)[i] = e
<1> DEFINE N == Cardinality(S)
           s == InKeyOrder(S)
<1>1. s = [i \in 1..N |-> CHOOSE e \in S : Rank(S, e) = i - 1]
    BY DEF InKeyOrder, Rank
<1>2. N \in Nat
    BY RankFacts
<1> HIDE DEF s
<1>3. ASSUME NEW i \in 1..N PROVE s[i] \in S /\ Rank(S, s[i]) = i - 1
    <2>1. s[i] = CHOOSE e \in S : Rank(S, e) = i - 1
        BY <1>1
    <2>2. \E e \in S : Rank(S, e) = i - 1
        BY RankFacts
    <2> QED BY <2>1, <2>2
<1>4. s \in [1..N -> S]
    BY <1>1, <1>3
<1>5. ASSUME NEW i \in 1..N, NEW j \in 1..N, i < j PROVE Before(s[i], s[j])
    <2>1. i - 1 < j - 1
        BY <1>5
    <2>2. Rank(S, s[i]) < Rank(S, s[j])
        BY <1>3, <2>1
    <2> QED BY <1>3, <2>2, RankFacts
<1>6. ASSUME NEW e \in S PROVE \E i \in 1..N : s[i] = e
    <2> DEFINE i == Rank(S, e) + 1
    <2>1. i \in 1..N /\ i - 1 = Rank(S, e)
        <3>1. Rank(S, e) \in 0..(N - 1)
            BY RankFacts
        <3> HIDE DEF N
        <3> QED BY <1>2, <3>1
    <2> HIDE DEF i
    <2>2. s[i] \in S /\ Rank(S, s[i]) = Rank(S, e)
        BY <1>3, <2>1
    <2> QED BY <2>1, <2>2, RankFacts
<1> QED BY <1>2, <1>4, <1>5, <1>6 DEF s, N

-----------------------------------------------------------------------------
\* The files of a level.
\*
\* A file has entries, and ends with the first and the last of them.
TableOK(f) ==
    f.entries # {} /\ f.smallest = Smallest(f.entries) /\ f.largest = Largest(f.entries)
FileOK(f) == TableOK(f) /\ Apart(f.entries)

LEMMA FileEnds ==
    ASSUME NEW f, FileOK(f)
    PROVE  /\ f.smallest \in f.entries /\ f.largest \in f.entries /\ f.entries \subseteq Entry
           /\ f.smallest.key \in UserKey /\ f.largest.key \in UserKey
           /\ f.smallest.key \in Nat /\ f.largest.key \in Nat
           /\ f.smallest.key <= f.largest.key
           /\ \A e \in f.entries :
                  e.key \in Nat /\ f.smallest.key <= e.key /\ e.key <= f.largest.key
<1>1. /\ f.smallest \in f.entries /\ f.largest \in f.entries
      /\ \A e \in f.entries \ {f.smallest} : Before(f.smallest, e)
      /\ \A e \in f.entries \ {f.largest} : Before(e, f.largest)
    BY SmallestFacts DEF FileOK, TableOK
<1>2. f.entries \subseteq Entry
    BY DEF FileOK, Apart
<1>3. \A e \in f.entries : e.key \in Nat /\ e.key \in UserKey
    BY <1>2, BeforeFacts
<1>4. ASSUME NEW e \in f.entries PROVE f.smallest.key <= e.key /\ e.key <= f.largest.key
    <2>1. e = f.smallest \/ f.smallest.key <= e.key
        BY <1>1, <1>2, BeforeFacts
    <2>2. e = f.largest \/ e.key <= f.largest.key
        BY <1>1, <1>2, BeforeFacts
    <2> QED BY <1>1, <1>3, <2>1, <2>2
<1> QED BY <1>1, <1>2, <1>3, <1>4

LEMMA KeyBounds ==
    ASSUME NEW S \in SUBSET UserKey, S # {}
    PROVE  /\ Min(S) \in S /\ \A k \in S : Min(S) <= k
           /\ Max(S) \in S /\ \A k \in S : k <= Max(S)
<1>1. S \in SUBSET Nat /\ IsFiniteSet(S)
    BY Config, FS_Subset
<1> QED BY <1>1, FiniteBounds

\* A range is what GetRange returns of a set of files.
LEMMA RangeFacts ==
    ASSUME NEW files, files # {}, \A f \in files : FileOK(f)
    PROVE  /\ \E f \in files : f.smallest.key = GetRange(files)[1]
           /\ \E f \in files : f.largest.key = GetRange(files)[2]
           /\ \A f \in files : GetRange(files)[1] <= f.smallest.key
                               /\ f.largest.key <= GetRange(files)[2]
           /\ GetRange(files)[1] \in UserKey /\ GetRange(files)[2] \in UserKey
           /\ GetRange(files)[1] <= GetRange(files)[2]
<1> DEFINE A == {f.smallest.key : f \in files}
           B == {f.largest.key : f \in files}
<1>1. \A f \in files : /\ f.smallest.key \in UserKey /\ f.largest.key \in UserKey
                       /\ f.smallest.key \in Nat /\ f.largest.key \in Nat
                       /\ f.smallest.key <= f.largest.key
    BY FileEnds
<1>2. A \in SUBSET UserKey /\ A # {} /\ B \in SUBSET UserKey /\ B # {}
    BY <1>1
<1>3. Min(A) \in A /\ (\A k \in A : Min(A) <= k) /\ Max(B) \in B /\ \A k \in B : k <= Max(B)
    <2> HIDE DEF A, B
    <2> QED BY <1>2, KeyBounds
<1>4. GetRange(files)[1] = Min(A) /\ GetRange(files)[2] = Max(B)
    BY DEF GetRange
<1>5. \A f \in files : f.smallest.key \in A /\ f.largest.key \in B
    OBVIOUS
<1>6. /\ \E f \in files : f.smallest.key = Min(A)
      /\ \E f \in files : f.largest.key = Max(B)
    BY <1>3
<1>7. Min(A) \in UserKey /\ Max(B) \in UserKey
    BY <1>2, <1>3
<1>8. Min(A) \in Nat /\ Max(B) \in Nat
    BY <1>7, Config
<1> HIDE DEF A, B
<1>9. \A f \in files : Min(A) <= f.smallest.key /\ f.largest.key <= Max(B)
    BY <1>3, <1>5
<1>10. Min(A) <= Max(B)
    <2>1. PICK f \in files : TRUE
        OBVIOUS
    <2> QED BY <1>1, <1>8, <1>9, <2>1
<1> QED BY <1>4, <1>6, <1>7, <1>9, <1>10

\* What Widened chooses from.
Closed(files, lo, hi) ==
    {r \in UserKey \X UserKey :
        /\ r[1] <= lo /\ hi <= r[2]
        /\ \A f \in files : Overlaps(f, r[1], r[2]) =>
               r[1] <= f.smallest.key /\ f.largest.key <= r[2]}

LEMMA WidenedFacts ==
    ASSUME NEW files, \A f \in files : FileOK(f),
           NEW lo \in UserKey, NEW hi \in UserKey, lo <= hi
    PROVE  /\ Widened(files, lo, hi) \in Closed(files, lo, hi)
           /\ \A q \in Closed(files, lo, hi) :
                  q[1] <= Widened(files, lo, hi)[1] /\ Widened(files, lo, hi)[2] <= q[2]
<1> DEFINE C == Closed(files, lo, hi)
           A == {r[1] : r \in C}
           B == {r[2] : r \in C}
           all == <<Min(UserKey), Max(UserKey)>>
<1>0. \A k \in UserKey : k \in Nat
    BY Config
<1>1. all \in C
    <2>1. /\ Min(UserKey) \in UserKey /\ \A k \in UserKey : Min(UserKey) <= k
          /\ Max(UserKey) \in UserKey /\ \A k \in UserKey : k <= Max(UserKey)
        BY KeyBounds
    <2>2. \A f \in files : f.smallest.key \in UserKey /\ f.largest.key \in UserKey
        BY FileEnds
    <2> QED BY <2>1, <2>2 DEF Closed
<1>2. A \in SUBSET UserKey /\ A # {} /\ B \in SUBSET UserKey /\ B # {}
    <2>1. \A r \in C : r[1] \in UserKey /\ r[2] \in UserKey
        BY DEF Closed
    <2> HIDE DEF C, all
    <2> QED BY <1>1, <2>1
<1>3. Max(A) \in A /\ (\A k \in A : k <= Max(A)) /\ Min(B) \in B /\ \A k \in B : Min(B) <= k
    <2> HIDE DEF A, B
    <2> QED BY <1>2, KeyBounds
<1> DEFINE w == <<Max(A), Min(B)>>
<1>4. \A q \in C : q[1] <= w[1] /\ w[2] <= q[2]
    <2>1. \A q \in C : q[1] \in A /\ q[2] \in B
        OBVIOUS
    <2> HIDE DEF A, B
    <2> QED BY <1>3, <2>1
<1>5. w \in C
    <2>1. PICK p \in C : p[1] = Max(A)
        BY <1>3
    <2>2. PICK q \in C : q[2] = Min(B)
        BY <1>3
    <2>3. q[1] <= p[1] /\ q[2] <= p[2]
        BY <1>4, <2>1, <2>2
    <2>4. /\ p[1] \in UserKey /\ p[2] \in UserKey /\ q[1] \in UserKey /\ q[2] \in UserKey
          /\ p[1] <= lo /\ hi <= q[2]
          /\ \A f \in files : Overlaps(f, p[1], p[2]) => p[1] <= f.smallest.key
          /\ \A f \in files : Overlaps(f, q[1], q[2]) => f.largest.key <= q[2]
        BY DEF Closed
    <2>5. ASSUME NEW f \in files, Overlaps(f, p[1], q[2])
          PROVE  Overlaps(f, p[1], p[2]) /\ Overlaps(f, q[1], q[2])
        <3>1. f.smallest.key \in Nat /\ f.largest.key \in Nat
            BY FileEnds
        <3>2. p[1] \in Nat /\ p[2] \in Nat /\ q[1] \in Nat /\ q[2] \in Nat
            BY <1>0, <2>4
        <3> QED BY <2>3, <2>5, <3>1, <3>2 DEF Overlaps
    <2>6. <<p[1], q[2]>> \in C
        BY <2>4, <2>5 DEF Closed
    <2> QED BY <2>1, <2>2, <2>6
<1>6. Widened(files, lo, hi) = CHOOSE r \in C : \A q \in C : q[1] <= r[1] /\ r[2] <= q[2]
    BY DEF Widened, Closed
<1> HIDE DEF C, w
<1> QED BY <1>4, <1>5, <1>6 DEF C

-----------------------------------------------------------------------------
\* The inputs of a compaction.
\*
\* No gap between these files holds keys that none of them overlaps.
Solid(files) ==
    \A lo, hi \in UserKey :
        lo <= hi /\ (\A f \in files : ~Overlaps(f, lo, hi)) =>
            \/ \A f \in files : f.largest.key < lo
            \/ \A f \in files : hi < f.smallest.key

\* Files that overlap a range which ends in solid files make them no less solid.
LEMMA OverRangeSolid ==
    ASSUME NEW files, Solid(files), NEW more, \A f \in files \cup more : FileOK(f),
           NEW first \in files, NEW last \in files,
           \A f \in more : Overlaps(f, first.smallest.key, last.largest.key)
    PROVE  Solid(files \cup more)
<1> SUFFICES ASSUME NEW a \in UserKey, NEW b \in UserKey, a <= b,
                    \A f \in files \cup more : ~Overlaps(f, a, b)
             PROVE  \/ \A f \in files \cup more : f.largest.key < a
                    \/ \A f \in files \cup more : b < f.smallest.key
    BY DEF Solid
<1>0. a \in Nat /\ b \in Nat
    BY Config
<1>1. \A f \in files \cup more :
          /\ f.smallest.key \in Nat /\ f.largest.key \in Nat
          /\ f.largest.key < a \/ b < f.smallest.key
    BY <1>0, FileEnds DEF Overlaps
<1>2. \A f \in more : first.smallest.key <= f.largest.key /\ f.smallest.key <= last.largest.key
    BY <1>1 DEF Overlaps
<1>3. CASE \A f \in files : f.largest.key < a
    <2>1. \A f \in more : f.largest.key < a
        BY <1>0, <1>1, <1>2, <1>3
    <2> QED BY <1>3, <2>1
<1>4. CASE \A f \in files : b < f.smallest.key
    <2>1. \A f \in more : b < f.smallest.key
        BY <1>0, <1>1, <1>2, <1>4
    <2> QED BY <1>4, <2>1
<1> QED BY <1>3, <1>4 DEF Solid

\* The same of the range that level 0 grows it to.
LEMMA WidenedSolid ==
    ASSUME NEW files, Solid(files), NEW level, \A f \in files \cup level : FileOK(f),
           NEW first \in files, NEW last \in files, first.smallest.key <= last.largest.key,
           NEW w, w = Widened(level, first.smallest.key, last.largest.key)
    PROVE  Solid(files \cup {f \in level : Overlaps(f, w[1], w[2])})
<1> DEFINE lo == first.smallest.key
           hi == last.largest.key
           more == {f \in level : Overlaps(f, w[1], w[2])}
<1>1. lo \in UserKey /\ hi \in UserKey
    BY FileEnds
<1>2. /\ w \in Closed(level, lo, hi)
      /\ \A q \in Closed(level, lo, hi) : q[1] <= w[1] /\ w[2] <= q[2]
    <2> HIDE DEF lo, hi
    <2> QED BY <1>1, WidenedFacts DEF lo, hi
<1> HIDE DEF lo, hi
<1>3. /\ w[1] \in UserKey /\ w[2] \in UserKey /\ w[1] <= lo /\ hi <= w[2]
      /\ \A f \in level : Overlaps(f, w[1], w[2]) =>
             w[1] <= f.smallest.key /\ f.largest.key <= w[2]
    BY <1>2 DEF Closed
<1>4. \A k \in UserKey : k \in Nat
    BY Config
<1> SUFFICES ASSUME NEW a \in UserKey, NEW b \in UserKey, a <= b,
                    \A f \in files \cup more : ~Overlaps(f, a, b)
             PROVE  \/ \A f \in files \cup more : f.largest.key < a
                    \/ \A f \in files \cup more : b < f.smallest.key
    BY DEF Solid
<1>5. \A f \in files \cup more :
          /\ f.smallest.key \in UserKey /\ f.largest.key \in UserKey
          /\ f.smallest.key \in Nat /\ f.largest.key \in Nat
          /\ f.largest.key < a \/ b < f.smallest.key
    BY <1>4, FileEnds DEF Overlaps
<1>6. \A f \in level : f.smallest.key \in UserKey /\ f.largest.key \in UserKey
    BY FileEnds
<1>7. CASE \A f \in files : f.largest.key < a
    <2> DEFINE K == {k \in UserKey : k < a}
               m == Max(K)
    <2>1. hi \in K
        BY <1>1, <1>7 DEF hi
    <2>2. m \in K /\ \A k \in K : k <= m
        <3>1. K \in SUBSET UserKey /\ K # {}
            BY <2>1
        <3> HIDE DEF K
        <3> QED BY <3>1, KeyBounds
    <2> HIDE DEF m
    <2>3. w[2] < a
        <3> SUFFICES ASSUME a <= w[2] PROVE FALSE
            BY <1>3, <1>4
        <3>1. ASSUME NEW f \in level, Overlaps(f, w[1], m)
              PROVE  w[1] <= f.smallest.key /\ f.largest.key <= m
            <4>1. Overlaps(f, w[1], w[2])
                BY <1>3, <1>4, <1>6, <2>2, <3>1 DEF Overlaps
            <4>2. f \in more
                BY <4>1
            <4>3. f.smallest.key <= m /\ m < a
                BY <1>4, <1>6, <2>2, <3>1 DEF Overlaps
            <4>4. f.largest.key < a
                BY <1>4, <1>5, <2>2, <4>2, <4>3
            <4> QED BY <1>3, <1>6, <2>2, <4>1, <4>4
        <3>2. <<w[1], m>> \in Closed(level, lo, hi)
            BY <1>3, <2>1, <2>2, <3>1 DEF Closed
        <3>3. w[2] <= m
            BY <1>2, <3>2
        <3> QED BY <1>3, <1>4, <2>2, <3>3
    <2>4. \A f \in more : f.largest.key < a
        BY <1>3, <1>4, <1>5, <2>3
    <2> QED BY <1>7, <2>4
<1>8. CASE \A f \in files : b < f.smallest.key
    <2> DEFINE K == {k \in UserKey : b < k}
               m == Min(K)
    <2>1. lo \in K
        BY <1>1, <1>8 DEF lo
    <2>2. m \in K /\ \A k \in K : m <= k
        <3>1. K \in SUBSET UserKey /\ K # {}
            BY <2>1
        <3> HIDE DEF K
        <3> QED BY <3>1, KeyBounds
    <2> HIDE DEF m
    <2>3. b < w[1]
        <3> SUFFICES ASSUME w[1] <= b PROVE FALSE
            BY <1>3, <1>4
        <3>1. ASSUME NEW f \in level, Overlaps(f, m, w[2])
              PROVE  m <= f.smallest.key /\ f.largest.key <= w[2]
            <4>1. Overlaps(f, w[1], w[2])
                BY <1>3, <1>4, <1>6, <2>2, <3>1 DEF Overlaps
            <4>2. f \in more
                BY <4>1
            <4>3. m <= f.largest.key /\ b < m
                BY <1>4, <1>6, <2>2, <3>1 DEF Overlaps
            <4>4. b < f.smallest.key
                BY <1>4, <1>5, <2>2, <4>2, <4>3
            <4> QED BY <1>3, <1>6, <2>2, <4>1, <4>4
        <3>2. <<m, w[2]>> \in Closed(level, lo, hi)
            BY <1>3, <2>1, <2>2, <3>1 DEF Closed
        <3>3. m <= w[1]
            BY <1>2, <3>2
        <3> QED BY <1>3, <1>4, <2>2, <3>3
    <2>4. \A f \in more : b < f.smallest.key
        BY <1>3, <1>4, <1>5, <2>3
    <2> QED BY <1>8, <2>4
<1> QED BY <1>7, <1>8 DEF Solid

-----------------------------------------------------------------------------
\* The versions in order, and what a compaction takes of them.
LevelsOK(version) ==
    /\ version \in Version
    /\ \A l \in Level :
           /\ \A f \in version[l] : TableOK(f)
           /\ l # 0 => \A f, g \in version[l] : f # g => Beside(f.entries, g.entries)
Contents(version) == EntriesOf(Files(version))
VersionOK(version) == LevelsOK(version) /\ Apart(Contents(version))

\* The files of the level below that a compaction does not take lie beside the ones
\* it does.
InputsOK(version, c) ==
    /\ c.level \in 0..(NumLevels - 2)
    /\ c.mine \subseteq version[c.level] /\ c.theirs \subseteq version[c.level + 1]
    /\ \A g \in version[c.level + 1] \ c.theirs :
           Beside(g.entries, EntriesOf(c.mine \cup c.theirs))

LEMMA LevelNumbers ==
    /\ NumLevels \in Nat /\ 0 \in Level /\ \A l \in Level : l \in Nat
    /\ \A l \in 0..(NumLevels - 2) :
           l \in Level /\ l \in Nat /\ l + 1 \in Level /\ l + 1 # 0 /\ l # l + 1
BY Config DEF Level

LEMMA VersionFiles ==
    ASSUME NEW v, VersionOK(v), NEW l \in Level, NEW f \in v[l]
    PROVE  FileOK(f) /\ f.entries \subseteq Contents(v)
<1>1. f \in Files(v)
    BY DEF Files
<1>2. f.entries \subseteq Contents(v)
    BY <1>1 DEF Contents, EntriesOf
<1>3. Apart(f.entries)
    BY <1>2, ApartPart DEF VersionOK
<1> QED BY <1>2, <1>3 DEF VersionOK, LevelsOK, FileOK

\* Over of SetupOtherInputs.
OverFiles(version, level, files) ==
    LET range == GetRange(files)
    IN GetOverlappingInputs(version, level, range[1], range[2])

LEMMA OverFacts ==
    ASSUME NEW v, VersionOK(v), NEW l \in Level, NEW lo, NEW hi
    PROVE  /\ GetOverlappingInputs(v, l, lo, hi) \subseteq v[l]
           /\ l # 0 => GetOverlappingInputs(v, l, lo, hi) = {f \in v[l] : Overlaps(f, lo, hi)}
           /\ lo \in UserKey /\ hi \in UserKey /\ lo <= hi =>
                  {f \in v[l] : Overlaps(f, lo, hi)} \subseteq GetOverlappingInputs(v, l, lo, hi)
<1> DEFINE range == IF l = 0 THEN Widened(v[0], lo, hi) ELSE <<lo, hi>>
<1>1. GetOverlappingInputs(v, l, lo, hi) = {f \in v[l] : Overlaps(f, range[1], range[2])}
    BY DEF GetOverlappingInputs
<1>2. CASE l # 0
    <2>1. range[1] = lo /\ range[2] = hi
        BY <1>2
    <2> HIDE DEF range
    <2> QED BY <1>1, <2>1
<1>3. CASE l = 0
    <2> SUFFICES ASSUME lo \in UserKey, hi \in UserKey, lo <= hi, NEW f \in v[l],
                        Overlaps(f, lo, hi)
                 PROVE  Overlaps(f, range[1], range[2])
        BY <1>1, <1>3
    <2>1. \A g \in v[0] : FileOK(g)
        BY <1>3, VersionFiles
    <2>2. range \in Closed(v[0], lo, hi)
        BY <1>3, <2>1, WidenedFacts
    <2>3. range[1] \in UserKey /\ range[2] \in UserKey /\ range[1] <= lo /\ hi <= range[2]
        BY <2>2 DEF Closed
    <2>4. lo \in Nat /\ hi \in Nat /\ range[1] \in Nat /\ range[2] \in Nat
        BY <2>3, Config
    <2>5. f.smallest.key \in Nat /\ f.largest.key \in Nat
        BY <1>3, <2>1, FileEnds
    <2> HIDE DEF range
    <2> QED BY <2>3, <2>4, <2>5 DEF Overlaps
<1> QED BY <1>2, <1>3

LEMMA OverlappingSolid ==
    ASSUME NEW v, VersionOK(v), NEW l \in Level,
           NEW files, Solid(files), \A f \in files : FileOK(f),
           NEW first \in files, NEW last \in files, first.smallest.key <= last.largest.key
    PROVE  Solid(files \cup GetOverlappingInputs(v, l, first.smallest.key, last.largest.key))
<1> DEFINE lo == first.smallest.key
           hi == last.largest.key
<1>1. \A f \in files \cup v[l] : FileOK(f)
    BY VersionFiles
<1>2. CASE l # 0
    <2> DEFINE more == {f \in v[l] : Overlaps(f, lo, hi)}
    <2>1. GetOverlappingInputs(v, l, lo, hi) = more
        BY <1>2, OverFacts
    <2>2. \A f \in files \cup more : FileOK(f)
        BY <1>1
    <2>3. \A f \in more : Overlaps(f, first.smallest.key, last.largest.key)
        OBVIOUS
    <2> HIDE DEF more
    <2>4. Solid(files \cup more)
        BY <2>2, <2>3, OverRangeSolid
    <2> QED BY <2>1, <2>4
<1>3. CASE l = 0
    <2>1. \A f \in files \cup v[0] : FileOK(f)
        BY <1>1, <1>3
    <2>0. PICK w : w = Widened(v[0], lo, hi)
        OBVIOUS
    <2>2. Solid(files \cup {f \in v[0] : Overlaps(f, w[1], w[2])})
        BY <2>0, <2>1, WidenedSolid
    <2>3. GetOverlappingInputs(v, 0, lo, hi) = {f \in v[0] : Overlaps(f, w[1], w[2])}
        BY <2>0 DEF GetOverlappingInputs
    <2> QED BY <1>3, <2>2, <2>3
<1> QED BY <1>2, <1>3

LEMMA OverFilesFacts ==
    ASSUME NEW v, VersionOK(v), NEW l \in Level,
           NEW files, files # {}, NEW base, files \subseteq base,
           Solid(base), \A f \in base : FileOK(f)
    PROVE  /\ OverFiles(v, l, files) \subseteq v[l]
           /\ Solid(base \cup OverFiles(v, l, files))
           /\ files \cap v[l] \subseteq OverFiles(v, l, files)
           /\ \A f \in OverFiles(v, l, files) : FileOK(f)
<1> DEFINE lo == GetRange(files)[1]
           hi == GetRange(files)[2]
           over == OverFiles(v, l, files)
<1>1. /\ \E f \in files : f.smallest.key = lo
      /\ \E f \in files : f.largest.key = hi
      /\ \A f \in files : lo <= f.smallest.key /\ f.largest.key <= hi
      /\ lo \in UserKey /\ hi \in UserKey /\ lo <= hi
    BY RangeFacts
<1>2. over = GetOverlappingInputs(v, l, lo, hi)
    BY DEF OverFiles
<1> HIDE DEF lo, hi, over
<1>3. over \subseteq v[l] /\ {f \in v[l] : Overlaps(f, lo, hi)} \subseteq over
    BY <1>1, <1>2, OverFacts
<1>4. Solid(base \cup over)
    <2>1. PICK first \in files : first.smallest.key = lo
        BY <1>1
    <2>2. PICK last \in files : last.largest.key = hi
        BY <1>1
    <2>3. first \in base /\ last \in base /\ first.smallest.key <= last.largest.key
        BY <1>1, <2>1, <2>2
    <2> QED BY <1>2, <2>1, <2>2, <2>3, OverlappingSolid
<1>5. files \cap v[l] \subseteq over
    <2> SUFFICES ASSUME NEW f \in files, f \in v[l] PROVE Overlaps(f, lo, hi)
        BY <1>3
    <2>1. f.smallest.key \in Nat /\ f.largest.key \in Nat /\ f.smallest.key <= f.largest.key
        BY FileEnds
    <2>2. lo \in Nat /\ hi \in Nat /\ lo <= f.smallest.key /\ f.largest.key <= hi
        BY <1>1, Config
    <2> QED BY <2>1, <2>2 DEF Overlaps
<1> QED BY <1>3, <1>4, <1>5, VersionFiles DEF over

\* Keys below or above a file's.
LEMMA FileBefore ==
    ASSUME NEW f, FileOK(f), NEW g, FileOK(g), f.largest.key < g.smallest.key
    PROVE  Precedes(f.entries, g.entries)
<1> SUFFICES ASSUME NEW a \in f.entries, NEW b \in g.entries PROVE Before(a, b)
    BY DEF Precedes
<1>1. a \in Entry /\ b \in Entry
    BY FileEnds
<1>2. a.key \in Nat /\ b.key \in Nat /\ a.key <= f.largest.key /\ g.smallest.key <= b.key
      /\ f.largest.key \in Nat /\ g.smallest.key \in Nat
    BY FileEnds
<1>3. a.key < b.key
    BY <1>2
<1> QED BY <1>1, <1>3, BeforeFacts

LEMMA BesideAll ==
    ASSUME NEW A, NEW files,
           \/ \A f \in files : Precedes(A, f.entries)
           \/ \A f \in files : Precedes(f.entries, A)
    PROVE  Beside(A, EntriesOf(files))
<1>1. \A e \in EntriesOf(files) : \E f \in files : e \in f.entries
    BY DEF EntriesOf
<1> QED BY <1>1 DEF Beside, Precedes

\* A file that the range of some files leaves out lies beside them, and beside the
\* files of its level that the range overlaps.
LEMMA LeftOutBeside ==
    ASSUME NEW v, VersionOK(v), NEW l \in Level, l # 0,
           NEW files, files # {}, \A f \in files : FileOK(f),
           NEW g \in v[l] \ OverFiles(v, l, files)
    PROVE  Beside(g.entries, EntriesOf(files \cup OverFiles(v, l, files)))
<1> DEFINE lo == GetRange(files)[1]
           hi == GetRange(files)[2]
           over == OverFiles(v, l, files)
<1>1. /\ \A f \in files : lo <= f.smallest.key /\ f.largest.key <= hi
      /\ lo \in UserKey /\ hi \in UserKey /\ lo <= hi
    BY RangeFacts
<1>2. over = {f \in v[l] : Overlaps(f, lo, hi)}
    BY OverFacts DEF OverFiles
<1> HIDE DEF lo, hi, over
<1>3. lo \in Nat /\ hi \in Nat
    BY <1>1, Config
<1>4. FileOK(g) /\ g \in v[l] /\ ~Overlaps(g, lo, hi)
    BY <1>2, VersionFiles DEF over
<1>5. /\ g.smallest.key \in Nat /\ g.largest.key \in Nat /\ g.smallest.key <= g.largest.key
      /\ g.smallest \in g.entries /\ g.largest \in g.entries /\ g.entries \subseteq Entry
    BY <1>4, FileEnds
<1>6. \A t \in over : /\ FileOK(t) /\ t # g
                      /\ Precedes(g.entries, t.entries) \/ Precedes(t.entries, g.entries)
    <2> SUFFICES ASSUME NEW t \in over
                 PROVE  FileOK(t) /\ t # g /\ Beside(g.entries, t.entries)
        BY DEF Beside
    <2>1. t \in v[l] /\ t # g
        BY <1>2, <1>4
    <2> QED BY <1>4, <2>1, VersionFiles DEF VersionOK, LevelsOK
<1>7. CASE g.largest.key < lo
    <2>1. ASSUME NEW f \in files PROVE Precedes(g.entries, f.entries)
        <3>1. f.smallest.key \in Nat
            BY FileEnds
        <3>2. g.largest.key < f.smallest.key
            BY <1>1, <1>3, <1>5, <1>7, <3>1
        <3> QED BY <1>4, <3>2, FileBefore
    <2>2. ASSUME NEW t \in over PROVE Precedes(g.entries, t.entries)
        <3> SUFFICES ASSUME Precedes(t.entries, g.entries) PROVE FALSE
            BY <1>6
        <3>1. t.largest \in t.entries /\ t.entries \subseteq Entry /\ t.largest.key \in Nat
            BY <1>6, FileEnds
        <3>2. Before(t.largest, g.smallest)
            BY <1>5, <3>1 DEF Precedes
        <3>3. t.largest.key <= g.smallest.key
            BY <1>5, <3>1, <3>2, BeforeFacts
        <3>4. lo <= t.largest.key
            BY <1>2 DEF Overlaps
        <3> QED BY <1>3, <1>5, <1>7, <3>1, <3>3, <3>4
    <2> QED BY <2>1, <2>2, BesideAll DEF over
<1>8. CASE hi < g.smallest.key
    <2>1. ASSUME NEW f \in files PROVE Precedes(f.entries, g.entries)
        <3>1. f.largest.key \in Nat
            BY FileEnds
        <3>2. f.largest.key < g.smallest.key
            BY <1>1, <1>3, <1>5, <1>8, <3>1
        <3> QED BY <1>4, <3>2, FileBefore
    <2>2. ASSUME NEW t \in over PROVE Precedes(t.entries, g.entries)
        <3> SUFFICES ASSUME Precedes(g.entries, t.entries) PROVE FALSE
            BY <1>6
        <3>1. t.smallest \in t.entries /\ t.entries \subseteq Entry /\ t.smallest.key \in Nat
            BY <1>6, FileEnds
        <3>2. Before(g.largest, t.smallest)
            BY <1>5, <3>1 DEF Precedes
        <3>3. g.largest.key <= t.smallest.key
            BY <1>5, <3>1, <3>2, BeforeFacts
        <3>4. t.smallest.key <= hi
            BY <1>2, <1>3, <3>1 DEF Overlaps
        <3> QED BY <1>3, <1>5, <1>8, <3>1, <3>3, <3>4
    <2> QED BY <2>1, <2>2, BesideAll DEF over
<1>9. g.largest.key < lo \/ hi < g.smallest.key
    BY <1>3, <1>4, <1>5 DEF Overlaps
<1> QED BY <1>7, <1>8, <1>9

LEMMA SetupFacts ==
    ASSUME NEW v, VersionOK(v), NEW level \in 0..(NumLevels - 2),
           NEW inputs, inputs # {}, inputs \subseteq v[level], Solid(inputs),
           NEW c, c = SetupOtherInputs(v, level, inputs)
    PROVE  /\ InputsOK(v, c) /\ Solid(c.mine \cup c.theirs)
           /\ c.level = level /\ c.grandparents \subseteq Files(v) /\ c \in Compaction
<1> DEFINE next == OverFiles(v, level + 1, inputs)
           more == OverFiles(v, level, inputs \cup next)
           theirs == OverFiles(v, level + 1, more)
<1>0. level \in Level /\ level + 1 \in Level /\ level + 1 # 0
    BY LevelNumbers
<1>1. \A f \in inputs : FileOK(f)
    BY <1>0, VersionFiles
<1>2. next \subseteq v[level + 1] /\ Solid(inputs \cup next) /\ \A f \in next : FileOK(f)
    BY <1>0, <1>1, OverFilesFacts
<1>3. /\ more \subseteq v[level] /\ Solid((inputs \cup next) \cup more) /\ inputs \subseteq more
      /\ \A f \in more : FileOK(f)
    <2> HIDE DEF next
    <2>1. inputs \cup next # {} /\ \A f \in inputs \cup next : FileOK(f)
        BY <1>1, <1>2
    <2> QED BY <1>0, <1>2, <2>1, OverFilesFacts
<1>4. theirs \subseteq v[level + 1] /\ next \subseteq theirs /\ Solid(more \cup theirs)
    <2> DEFINE base == (inputs \cup next) \cup more
    <2>1. \A f \in base : FileOK(f)
        BY <1>1, <1>2, <1>3
    <2>2. more # {} /\ more \subseteq base
        BY <1>3
    <2>3. theirs \subseteq v[level + 1] /\ Solid(base \cup theirs)
        <3> HIDE DEF base, more
        <3> QED BY <1>0, <1>3, <2>1, <2>2, OverFilesFacts DEF base
    <2>4. next \subseteq theirs
        <3> DEFINE lo == GetRange(inputs)[1]
                   hi == GetRange(inputs)[2]
                   a == GetRange(more)[1]
                   b == GetRange(more)[2]
        <3>1. /\ \E f \in inputs : f.smallest.key = lo
              /\ \E f \in inputs : f.largest.key = hi
              /\ lo \in UserKey /\ hi \in UserKey
            BY <1>1, RangeFacts
        <3>2. /\ \A f \in more : a <= f.smallest.key /\ f.largest.key <= b
              /\ a \in UserKey /\ b \in UserKey
            <4> HIDE DEF more
            <4> QED BY <1>3, <2>2, RangeFacts
        <3>3. /\ next = {f \in v[level + 1] : Overlaps(f, lo, hi)}
              /\ theirs = {f \in v[level + 1] : Overlaps(f, a, b)}
            BY <1>0, OverFacts DEF OverFiles
        <3> HIDE DEF next, more, theirs, lo, hi, a, b
        <3>4. a <= lo /\ hi <= b
            BY <1>3, <3>1, <3>2
        <3>5. a \in Nat /\ b \in Nat /\ lo \in Nat /\ hi \in Nat
            BY <3>1, <3>2, Config
        <3>6. ASSUME NEW f \in next PROVE Overlaps(f, a, b)
            <4>1. f.smallest.key \in Nat /\ f.largest.key \in Nat /\ Overlaps(f, lo, hi)
                BY <1>2, <3>3, FileEnds
            <4> QED BY <3>4, <3>5, <4>1 DEF Overlaps
        <3> QED BY <3>3, <3>6
    <2>5. base \cup theirs = more \cup theirs
        BY <1>3, <2>4
    <2> QED BY <2>3, <2>4, <2>5
<1> DEFINE grow == /\ next # {}
                   /\ Cardinality(more) > Cardinality(inputs)
                   /\ TotalFileSize(next) + TotalFileSize(more) < ExpandedLimit
                   /\ Cardinality(theirs) = Cardinality(next)
           grown == IF grow THEN more ELSE inputs
           below == IF grow THEN theirs ELSE next
           beyond == IF level + 2 < NumLevels THEN OverFiles(v, level + 2, grown \cup below)
                     ELSE {}
<1>5. /\ c.level = level
      /\ (c.mine = inputs /\ c.theirs = next) \/ (c.mine = more /\ c.theirs = theirs)
      /\ c.grandparents = beyond
    <2>1. c = [level |-> level, mine |-> grown, theirs |-> below, base |-> v,
               grandparents |-> beyond]
        BY DEF SetupOtherInputs, OverFiles
    <2>2. (grown = inputs /\ below = next) \/ (grown = more /\ below = theirs)
        <3>1. grow => grown = more /\ below = theirs
            OBVIOUS
        <3>2. ~grow => grown = inputs /\ below = next
            OBVIOUS
        <3> HIDE DEF grow, grown, below, next, more, theirs
        <3> QED BY <3>1, <3>2
    <2> HIDE DEF grown, below, beyond
    <2> QED BY <2>1, <2>2
<1>6. c.grandparents \subseteq Files(v)
    <2> HIDE DEF grown, below
    <2>1. \/ c.grandparents = {}
          \/ level + 2 < NumLevels /\ c.grandparents = OverFiles(v, level + 2, grown \cup below)
        BY <1>5
    <2>2. level + 2 < NumLevels => level + 2 \in Level
        BY Config DEF Level
    <2>3. level + 2 < NumLevels =>
              OverFiles(v, level + 2, grown \cup below) \subseteq v[level + 2]
        BY <2>2, OverFacts DEF OverFiles
    <2> QED BY <2>1, <2>2, <2>3 DEF Files
<1>7. c \in Compaction
    <2>1. c = [level |-> c.level, mine |-> c.mine, theirs |-> c.theirs, base |-> v,
               grandparents |-> c.grandparents]
        BY DEF SetupOtherInputs
    <2>2. v \in Version /\ \A l \in Level : v[l] \in SUBSET File
        BY DEF VersionOK, LevelsOK, Version
    <2>3. c.mine \in SUBSET File /\ c.theirs \in SUBSET File
        <3> HIDE DEF next, more, theirs, grow, grown, below, beyond
        <3>1. c.mine \subseteq v[level] /\ c.theirs \subseteq v[level + 1]
            BY <1>2, <1>3, <1>4, <1>5
        <3> QED BY <1>0, <2>2, <3>1
    <2>4. c.grandparents \in SUBSET File
        BY <1>6, <2>2 DEF Files
    <2>5. c.level \in Level
        BY <1>0, <1>5
    <2> QED BY <2>1, <2>2, <2>3, <2>4, <2>5 DEF Compaction
<1>8. CASE c.mine = inputs /\ c.theirs = next
    <2>1. \A g \in v[level + 1] \ next : Beside(g.entries, EntriesOf(inputs \cup next))
        BY <1>0, <1>1, LeftOutBeside
    <2> HIDE DEF next
    <2> QED BY <1>2, <1>5, <1>6, <1>7, <1>8, <2>1 DEF InputsOK
<1>9. CASE c.mine = more /\ c.theirs = theirs
    <2>1. more # {}
        BY <1>3
    <2>2. \A g \in v[level + 1] \ theirs : Beside(g.entries, EntriesOf(more \cup theirs))
        <3> HIDE DEF more
        <3> QED BY <1>0, <1>3, <2>1, LeftOutBeside
    <2> HIDE DEF more, theirs, next
    <2> QED BY <1>3, <1>4, <1>5, <1>6, <1>7, <1>9, <2>2 DEF InputsOK
<1> QED BY <1>5, <1>8, <1>9

\* PickCompaction begins with one file, or with what the file's range grows to.
LEMMA PickCompactionFacts ==
    ASSUME NEW v, VersionOK(v), NEW level \in 0..(NumLevels - 2), NEW f \in v[level],
           NEW c, c = PickCompaction(v, level, f)
    PROVE  /\ InputsOK(v, c) /\ Solid(c.mine \cup c.theirs)
           /\ c.level = level /\ c.grandparents \subseteq Files(v) /\ c \in Compaction
<1> DEFINE over == GetOverlappingInputs(v, 0, f.smallest.key, f.largest.key)
           inputs == IF level # 0 THEN {f} ELSE over
<1>0. level \in Level /\ 0 \in Level
    BY LevelNumbers
<1>1. FileOK(f)
    BY <1>0, VersionFiles
<1>2. /\ f.smallest.key \in UserKey /\ f.largest.key \in UserKey
      /\ f.smallest.key \in Nat /\ f.largest.key \in Nat /\ f.smallest.key <= f.largest.key
    BY <1>1, FileEnds
<1>3. Solid({f})
    <2> SUFFICES ASSUME NEW a \in UserKey, NEW b \in UserKey, a <= b, ~Overlaps(f, a, b)
                 PROVE  f.largest.key < a \/ b < f.smallest.key
        BY DEF Solid
    <2>1. a \in Nat /\ b \in Nat
        BY Config
    <2> QED BY <1>2, <2>1 DEF Overlaps
<1>4. CASE level # 0
    <2>1. c = SetupOtherInputs(v, level, {f})
        BY <1>4 DEF PickCompaction
    <2>2. {f} # {} /\ {f} \subseteq v[level]
        OBVIOUS
    <2> QED BY <1>3, <2>1, <2>2, SetupFacts
<1>5. CASE level = 0
    <2>1. over \subseteq v[0]
        BY <1>0, OverFacts
    <2>2. Overlaps(f, f.smallest.key, f.largest.key)
        BY <1>2 DEF Overlaps
    <2>3. f \in over
        BY <1>0, <1>2, <1>5, <2>2, OverFacts
    <2>4. Solid({f} \cup over)
        <3>1. \A g \in {f} : FileOK(g)
            BY <1>1
        <3>2. f \in {f}
            OBVIOUS
        <3> QED BY ONLY VersionOK(v), <1>0, <1>2, <1>3, <3>1, <3>2, OverlappingSolid
    <2>5. {f} \cup over = over /\ over # {}
        BY <2>3
    <2> HIDE DEF over
    <2>6. c = SetupOtherInputs(v, level, over)
        BY <1>5 DEF PickCompaction, over
    <2>7. over # {} /\ over \subseteq v[level] /\ Solid(over)
        BY <1>5, <2>1, <2>4, <2>5
    <2> QED BY <2>6, <2>7, SetupFacts
<1> QED BY <1>4, <1>5

-----------------------------------------------------------------------------
\* What a compaction writes.
LEMMA TotalFileSizeType ==
    ASSUME NEW files, IsFiniteSet(files), \A f \in files : IsFiniteSet(f.entries)
    PROVE  TotalFileSize(files) \in Nat
<1> DEFINE Size(f) == Cardinality(f.entries)
           pick == [s \in SUBSET files |-> CHOOSE x \in s : TRUE]
           step == [x \in files |-> [m \in Nat |-> Size(x) + m]]
           Iter(f) == f = [s \in SUBSET files |->
                             IF s = {} THEN 0
                             ELSE LET x == CHOOSE x \in s : TRUE IN Size(x) + f[s \ {x}]]
           g == CHOOSE f : Iter(f)
<1>1. \A f \in files : Size(f) \in Nat
    BY FS_CardinalityType
<1>2. \A s \in SUBSET files : s # {} => (CHOOSE x \in s : TRUE) \in s
    OBVIOUS
<1> HIDE DEF Size
<1>3. step \in [files -> [Nat -> Nat]]
    BY <1>1
<1>4. \A s \in SUBSET files : pick[s] = CHOOSE x \in s : TRUE
    OBVIOUS
<1>5. PICK f : IsSetFold(f, files, Nat, 0, pick, step)
    <2>1. \A s \in SUBSET files : s # {} => pick[s] \in s
        BY <1>2
    <2> HIDE DEF pick, step
    <2> QED BY <1>3, <2>1, SetFoldExists
<1>6. f \in [SUBSET files -> Nat] /\ f[{}] = 0
    <2> HIDE DEF pick, step
    <2> QED BY <1>5 DEF IsSetFold
<1>7. ASSUME NEW s \in SUBSET files, s # {}
      PROVE  f[s] = Size(pick[s]) + f[s \ {pick[s]}]
    <2>1. pick[s] \in files /\ s \ {pick[s]} \in SUBSET files
        BY <1>2, <1>4, <1>7
    <2>2. f[s] = step[pick[s]][f[s \ {pick[s]}]] /\ f[s \ {pick[s]}] \in Nat
        <3> HIDE DEF pick, step
        <3> QED BY <1>5, <1>6, <1>7, <2>1 DEF IsSetFold
    <2> HIDE DEF pick
    <2> QED BY <2>1, <2>2
<1>8. Iter(f)
    <2>1. f = [s \in SUBSET files |-> f[s]]
        BY <1>6
    <2> HIDE DEF pick
    <2> QED BY <1>4, <1>6, <1>7, <2>1
<1>9. Iter(g)
    BY <1>8
<1>10. TotalFileSize(files) = g[files]
    BY DEF TotalFileSize, MapThenSumSet, MapThenFoldSet, Size
<1>11. \A s \in SUBSET files : g[s] = IF s = {} THEN 0 ELSE Size(pick[s]) + g[s \ {pick[s]}]
    <2> HIDE DEF g
    <2>1. g = [s \in SUBSET files |->
                 IF s = {} THEN 0 ELSE LET x == CHOOSE x \in s : TRUE IN Size(x) + g[s \ {x}]]
        BY <1>9
    <2> HIDE DEF Iter
    <2> QED BY <1>4, <2>1
<1> HIDE DEF g, Iter
<1>12. g[files] \in Nat
    <2> DEFINE T == {k \in Nat : \A s \in SUBSET files : Cardinality(s) = k => g[s] \in Nat}
    <2>0. \A s \in SUBSET files : IsFiniteSet(s) /\ Cardinality(s) \in Nat
        BY FS_Subset, FS_CardinalityType
    <2>1. 0 \in T
        <3>1. ASSUME NEW s \in SUBSET files, Cardinality(s) = 0 PROVE g[s] \in Nat
            <4>1. s = {}
                BY <2>0, <3>1, FS_EmptySet
            <4> HIDE DEF pick
            <4>2. g[s] = 0
                BY <1>11, <4>1
            <4> QED BY <4>2
        <3> QED BY <3>1
    <2>2. ASSUME NEW k \in T \cap Nat PROVE k + 1 \in T
        <3>1. ASSUME NEW s \in SUBSET files, Cardinality(s) = k + 1 PROVE g[s] \in Nat
            <4>0. k \in Nat /\ Cardinality(s) # 0
                BY <3>1
            <4>1. s # {}
                BY <4>0, FS_EmptySet
            <4>2. pick[s] \in s /\ s \ {pick[s]} \in SUBSET files /\ pick[s] \in files
                BY <1>2, <1>4, <4>1
            <4> HIDE DEF pick
            <4>3. Cardinality(s \ {pick[s]}) = k
                BY <2>0, <3>1, <4>2, OneLess
            <4>4. g[s \ {pick[s]}] \in Nat
                BY <4>2, <4>3
            <4> QED BY <1>1, <1>11, <4>1, <4>2, <4>4
        <3> QED BY <3>1
    <2> HIDE DEF T
    <2>3. Nat \subseteq T
        BY <2>1, <2>2, NumbersFromZero
    <2> QED BY <2>0, <2>3 DEF T
<1> QED BY <1>10, <1>12

\* A sequence without its last element.
LEMMA FrontFacts ==
    ASSUME NEW S, NEW o \in Seq(S), o # <<>>
    PROVE  /\ Front(o) \in Seq(S) /\ Len(Front(o)) = Len(o) - 1
           /\ \A i \in 1..(Len(o) - 1) : Front(o)[i] = o[i]
<1> DEFINE n == Len(o) - 1
<1>1. n \in Nat
    OBVIOUS
<1>2. \A i \in 1..n : o[i] \in S
    OBVIOUS
<1> HIDE DEF n
<1>3. /\ SubSeq(o, 1, n) \in Seq(S) /\ Len(SubSeq(o, 1, n)) = IF 1 <= n THEN n - 1 + 1 ELSE 0
      /\ \A i \in 1..(n - 1 + 1) : SubSeq(o, 1, n)[i] = o[1 + i - 1]
    BY <1>1, <1>2, SubSeqProperties
<1>4. \A i \in 1..n : i \in 1..(n - 1 + 1) /\ 1 + i - 1 = i
    BY <1>1
<1>5. (IF 1 <= n THEN n - 1 + 1 ELSE 0) = n
    BY <1>1
<1>6. Len(SubSeq(o, 1, n)) = n /\ \A i \in 1..n : SubSeq(o, 1, n)[i] = o[i]
    BY <1>3, <1>4, <1>5
<1> QED BY <1>3, <1>6 DEF Front, n

\* Outputs that follow one another, of the entries got so far; the last one is
\* open, and may have none yet.
PiecesOK(outputs, got) ==
    /\ outputs # <<>>
    /\ \A i \in 1..Len(outputs) :
           /\ outputs[i] \subseteq got /\ (i < Len(outputs) => outputs[i] # {})
           /\ \A j \in 1..Len(outputs) : i < j => Precedes(outputs[i], outputs[j])

LEMMA PiecesOpen ==
    ASSUME NEW got, NEW o \in Seq(SUBSET got), PiecesOK(o, got), Last(o) # {}
    PROVE  Append(o, {}) \in Seq(SUBSET got) /\ PiecesOK(Append(o, {}), got)
<1> DEFINE n == Len(o)
           p == Append(o, {})
<1>1. n \in Nat /\ n # 0 /\ o[n] # {}
    BY DEF PiecesOK, Last
<1>2. p \in Seq(SUBSET got) /\ Len(p) = n + 1 /\ p[n + 1] = {} /\ \A i \in 1..n : p[i] = o[i]
    BY <1>1
<1>3. ASSUME NEW i \in 1..(n + 1)
      PROVE  /\ p[i] \subseteq got /\ (i < n + 1 => p[i] # {})
             /\ \A j \in 1..(n + 1) : i < j => Precedes(p[i], p[j])
    <2>1. i = n + 1 \/ i \in 1..n
        BY <1>1
    <2>2. CASE i = n + 1
        BY <1>1, <1>2, <2>2
    <2>3. CASE i \in 1..n
        <3>1. p[i] \subseteq got /\ p[i] # {}
            BY <1>1, <1>2, <2>3 DEF PiecesOK
        <3>2. ASSUME NEW j \in 1..(n + 1), i < j PROVE Precedes(p[i], p[j])
            <4>1. CASE j = n + 1
                BY <1>2, <4>1 DEF Precedes
            <4>2. CASE j \in 1..n
                BY <1>2, <2>3, <3>2, <4>2 DEF PiecesOK
            <4> QED BY <1>1, <4>1, <4>2
        <3> QED BY <3>1, <3>2
    <2> QED BY <2>1, <2>2, <2>3
<1> HIDE DEF p, n
<1>4. p # <<>>
    BY <1>1, <1>2
<1>5. PiecesOK(p, got)
    BY <1>2, <1>3, <1>4 DEF PiecesOK
<1> QED BY <1>2, <1>5 DEF p

LEMMA PiecesAdd ==
    ASSUME NEW got, NEW o \in Seq(SUBSET got), PiecesOK(o, got), NEW e,
           \A d \in got : Before(d, e),
           NEW p, p = Front(o) \o <<Last(o) \cup {e}>>
    PROVE  /\ p \in Seq(SUBSET (got \cup {e})) /\ PiecesOK(p, got \cup {e})
           /\ Last(p) # {}
<1> DEFINE n == Len(o)
           all == got \cup {e}
<1>1. n \in Nat /\ n # 0 /\ n \in 1..n /\ \A i \in 1..n : o[i] \subseteq got
    BY DEF PiecesOK
<1>2. /\ p \in Seq(SUBSET all) /\ Len(p) = n /\ p[n] = o[n] \cup {e}
      /\ \A i \in 1..n : i # n => p[i] = o[i]
    <2>1. Front(o) \in Seq(SUBSET got) /\ Len(Front(o)) = n - 1
          /\ \A i \in 1..(n - 1) : Front(o)[i] = o[i]
        <3>1. o # <<>>
            BY <1>1
        <3> QED BY <3>1, FrontFacts
    <2>2. Last(o) = o[n] /\ o[n] \cup {e} \in SUBSET all
        BY <1>1 DEF Last
    <2> HIDE DEF n
    <2>3. Front(o) \in Seq(SUBSET all)
        BY <2>1
    <2>4. <<Last(o) \cup {e}>> \in Seq(SUBSET all)
        BY <2>2
    <2> HIDE DEF all
    <2>5. p \in Seq(SUBSET all) /\ Len(p) = (n - 1) + 1
        BY <1>1, <2>1, <2>3, <2>4
    <2>6. p[n] = Last(o) \cup {e}
        BY <1>1, <2>1, <2>3, <2>4
    <2>7. \A i \in 1..n : i # n => p[i] = Front(o)[i] /\ i \in 1..(n - 1)
        BY <1>1, <2>1, <2>3, <2>4
    <2> QED BY <1>1, <2>1, <2>2, <2>5, <2>6, <2>7
<1>3. ASSUME NEW i \in 1..n
      PROVE  /\ p[i] \subseteq all /\ (i < n => p[i] # {})
             /\ \A j \in 1..n : i < j => Precedes(p[i], p[j])
    <2>1. p[i] \subseteq all /\ (i < n => p[i] # {})
        BY <1>1, <1>2 DEF PiecesOK
    <2>2. ASSUME NEW j \in 1..n, i < j PROVE Precedes(p[i], p[j])
        <3>1. p[i] = o[i] /\ Precedes(o[i], o[j])
            BY <1>1, <1>2, <2>2 DEF PiecesOK
        <3>2. \A d \in o[i] : Before(d, e)
            BY <1>1
        <3>3. p[j] = o[j] \/ p[j] = o[j] \cup {e}
            BY <1>2
        <3> QED BY <3>1, <3>2, <3>3 DEF Precedes
    <2> QED BY <2>1, <2>2
<1>4. p # <<>> /\ Last(p) # {}
    BY <1>1, <1>2 DEF Last
<1> HIDE DEF n, all
<1>5. PiecesOK(p, all)
    BY <1>2, <1>3, <1>4 DEF PiecesOK
<1> QED BY <1>2, <1>4, <1>5 DEF all

LEMMA PiecesGrow ==
    ASSUME NEW got, NEW o \in Seq(SUBSET got), PiecesOK(o, got), NEW more, got \subseteq more
    PROVE  o \in Seq(SUBSET more) /\ PiecesOK(o, more)
BY DEF PiecesOK

\* The state of the loop of DoCompactionWork after the entries got.
CopyStates(c, all, got) ==
    {w \in [outputs : Seq(SUBSET all), passed : SUBSET c.grandparents,
            overlapped : Nat, last : all \cup {NoEntry}] : PiecesOK(w.outputs, got)}

LEMMA CopyEntryFacts ==
    ASSUME NEW c, IsFiniteSet(c.grandparents), \A g \in c.grandparents : IsFiniteSet(g.entries),
           NEW all, NEW got \in SUBSET all, NEW e \in all, \A d \in got : Before(d, e),
           NEW smallestSnapshot, NEW w \in CopyStates(c, all, got)
    PROVE  CopyEntry(c, smallestSnapshot, w, e) \in CopyStates(c, all, got \cup {e})
<1> DEFINE p == PassGrandparents(c, w, e)
           passed == {g \in c.grandparents \ w.passed : Before(g.largest, e)}
           sum == w.overlapped + IF w.last = NoEntry THEN 0 ELSE TotalFileSize(passed)
           more == got \cup {e}
<1>1. /\ w = [outputs |-> w.outputs, passed |-> w.passed, overlapped |-> w.overlapped,
              last |-> w.last]
      /\ w.passed \in SUBSET c.grandparents /\ w.overlapped \in Nat
      /\ w.outputs \in Seq(SUBSET all) /\ PiecesOK(w.outputs, got)
    BY DEF CopyStates
<1>2. w.outputs \in Seq(SUBSET got)
    BY <1>1 DEF PiecesOK
<1>3. sum \in Nat /\ MaxOverlap \in Nat
    <2>1. passed \in SUBSET c.grandparents
        OBVIOUS
    <2>2. IsFiniteSet(passed) /\ \A g \in passed : IsFiniteSet(g.entries)
        BY <2>1, FS_Subset
    <2>3. TotalFileSize(passed) \in Nat
        <3> HIDE DEF passed
        <3> QED BY <2>2, TotalFileSizeType
    <2> HIDE DEF passed
    <2> QED BY <1>1, <2>3, Config
<1> DEFINE o == IF sum > MaxOverlap /\ Last(w.outputs) # {} THEN Append(w.outputs, {})
                ELSE w.outputs
           k == IF sum > MaxOverlap THEN 0 ELSE sum
<1>4. p = [outputs |-> o, passed |-> w.passed \cup passed, overlapped |-> k, last |-> w.last]
    <2>1. p = [w EXCEPT !.passed = @ \cup passed, !.overlapped = k, !.outputs = o]
        BY DEF PassGrandparents
    <2> HIDE DEF p, passed, k, o
    <2> QED BY <1>1, <2>1
<1>5. o \in Seq(SUBSET got) /\ PiecesOK(o, got)
    <2> HIDE DEF sum
    <2> QED BY <1>1, <1>2, PiecesOpen
<1>6. w.passed \cup passed \in SUBSET c.grandparents /\ k \in Nat
    <2> HIDE DEF sum
    <2> QED BY <1>1, <1>3
<1> HIDE DEF p, o, k, sum, passed
<1> DEFINE out == Last(o) \cup {e}
           added == Front(o) \o <<out>>
           result == CopyEntry(c, smallestSnapshot, w, e)
           Made(r) == [outputs |-> r, passed |-> w.passed \cup passed, overlapped |-> k,
                       last |-> e]
<1>7. \E r : r \in Seq(SUBSET more) /\ PiecesOK(r, more) /\ result = Made(r)
    <2> DEFINE newer == IF w.last.key = e.key THEN w.last ELSE NoEntry
    <2>1. result = IF Drop(c, e, newer, smallestSnapshot) THEN [p EXCEPT !.last = e]
                   ELSE [p EXCEPT !.last = e,
                                  !.outputs = Front(@) \o (IF Cardinality(Last(p.outputs) \cup {e})
                                                              >= MaxFileSize
                                                           THEN <<Last(p.outputs) \cup {e}, {}>>
                                                           ELSE <<Last(p.outputs) \cup {e}>>)]
        BY DEF CopyEntry, p
    <2>2. p.outputs = o /\ [p EXCEPT !.last = e] = Made(o)
        BY <1>4
    <2>3. o \in Seq(SUBSET more) /\ PiecesOK(o, more)
        BY <1>5, PiecesGrow
    <2>4. added \in Seq(SUBSET more) /\ PiecesOK(added, more) /\ Last(added) # {}
        BY <1>5, PiecesAdd
    <2>5. Append(added, {}) \in Seq(SUBSET more) /\ PiecesOK(Append(added, {}), more)
        <3> HIDE DEF added, more
        <3> QED BY <2>4, PiecesOpen
    <2>6. Front(o) \o <<out, {}>> = Append(added, {})
        <3>1. Front(o) \in Seq(SUBSET got)
            BY <1>5 DEF Front, PiecesOK
        <3> DEFINE S == SUBSET more
        <3>2. Front(o) \in Seq(S) /\ out \in S /\ {} \in S
            <4>1. Len(o) \in 1..Len(o)
                BY <1>5 DEF PiecesOK
            <4>2. Last(o) \in SUBSET got
                BY <1>5, <4>1 DEF Last
            <4> QED BY <3>1, <4>2
        <3> HIDE DEF S, out
        <3> QED BY <3>2
    <2>7. CASE Drop(c, e, newer, smallestSnapshot)
        <3> HIDE DEF result, more, Made, newer
        <3> QED BY <2>1, <2>2, <2>3, <2>7
    <2>8. CASE ~Drop(c, e, newer, smallestSnapshot)
        <3> HIDE DEF newer
        <3>1. ASSUME NEW tail, result = [p EXCEPT !.last = e, !.outputs = Front(@) \o tail]
              PROVE  result = Made(Front(o) \o tail)
            <4> HIDE DEF result
            <4> QED BY <1>4, <3>1
        <3>2. CASE Cardinality(out) >= MaxFileSize
            <4>1. result = [p EXCEPT !.last = e, !.outputs = Front(@) \o <<out, {}>>]
                BY <2>1, <2>2, <2>8, <3>2
            <4>2. result = Made(Append(added, {}))
                <5> HIDE DEF result, out, added, Made
                <5> QED BY <2>6, <3>1, <4>1
            <4> HIDE DEF result, added, more, out, Made
            <4> QED BY <2>5, <4>2
        <3>3. CASE ~(Cardinality(out) >= MaxFileSize)
            <4>1. result = [p EXCEPT !.last = e, !.outputs = Front(@) \o <<out>>]
                BY <2>1, <2>2, <2>8, <3>3
            <4>2. result = Made(added)
                <5> HIDE DEF result, out, Made
                <5> QED BY <3>1, <4>1
            <4> HIDE DEF result, added, more, out, Made
            <4> QED BY <2>4, <4>2
        <3> QED BY <3>2, <3>3
    <2> QED BY <2>7, <2>8
<1>8. PICK r : r \in Seq(SUBSET more) /\ PiecesOK(r, more) /\ result = Made(r)
    BY <1>7
<1>9. result = [outputs |-> r, passed |-> w.passed \cup passed, overlapped |-> k, last |-> e]
    BY <1>8
<1>10. r \in Seq(SUBSET all)
    <2>1. more \subseteq all
        OBVIOUS
    <2> HIDE DEF more
    <2> QED BY <1>8, <2>1
<1> HIDE DEF result, more
<1>11. result \in [outputs : Seq(SUBSET all), passed : SUBSET c.grandparents,
                   overlapped : Nat, last : all \cup {NoEntry}]
    BY <1>6, <1>9, <1>10
<1>12. result.outputs = r
    BY <1>9
<1> QED BY <1>8, <1>11, <1>12 DEF CopyStates, result, more

\* The state the loop begins with.
StartCopy == [outputs |-> <<{}>>, passed |-> {}, overlapped |-> 0, last |-> NoEntry]

\* Every turn of the loop keeps P, which speaks of the entries got so far.
KeepsStates(c, taken, smallestSnapshot, P) ==
    \A got \in SUBSET taken : \A e \in taken : \A w \in P[got] :
        w \in CopyStates(c, taken, got) /\ (\A d \in got : Before(d, e)) =>
            CopyEntry(c, smallestSnapshot, w, e) \in P[got \cup {e}]

\* An output without entries is not written.
Kept(outputs) == IF Last(outputs) = {} THEN Front(outputs) ELSE outputs

\* What is written comes of a state in P when all entries are taken.
EndsIn(outputs, c, taken, P) ==
    \E w \in P[taken] \cap CopyStates(c, taken, taken) : outputs = Kept(w.outputs)

\* What every turn of the loop keeps holds of the state it ends in.
LEMMA CompactionFold ==
    ASSUME NEW c, IsFiniteSet(c.grandparents), \A g \in c.grandparents : IsFiniteSet(g.entries),
           NEW taken, taken = EntriesOf(c.mine \cup c.theirs), Apart(taken),
           NEW smallestSnapshot, NEW todo, todo = CompactionOutputs(c, smallestSnapshot),
           NEW P, StartCopy \in P[{}],
           KeepsStates(c, taken, smallestSnapshot, P)
    PROVE  EndsIn(todo, c, taken, P)
<1> DEFINE n == Cardinality(taken)
           q == InKeyOrder(taken)
           D == DOMAIN q
           Got(s) == {q[k] : k \in s}
           start == [outputs |-> <<{}>>, passed |-> {}, overlapped |-> 0, last |-> NoEntry]
           U == CopyStates(c, taken, taken)
           V == [s \in SUBSET D |-> CopyStates(c, taken, Got(s))]
           pick == [s \in SUBSET D |-> Max(s)]
           Copied(w, k) == CopyEntry(c, smallestSnapshot, w, q[k])
           step == [k \in D |-> [w \in U |-> Copied(w, k)]]
           Iter(f) == f = [s \in SUBSET D |->
                             IF s = {} THEN start
                             ELSE LET x == Max(s) IN
                                  CHOOSE v \in {CopyEntry(c, smallestSnapshot, u, q[x]) :
                                                   u \in {f[s \ {x}]}} : TRUE]
           g == CHOOSE f : Iter(f)
           W == [s \in SUBSET D |-> V[s] \cap P[Got(s)]]
<1>1. /\ n \in Nat /\ D = 1..n /\ \A k \in D : q[k] \in taken
      /\ \A i, j \in D : i < j => Before(q[i], q[j])
    <2>1. n \in Nat /\ q \in [1..n -> taken] /\ \A i, j \in 1..n : i < j => Before(q[i], q[j])
        BY KeyOrderFacts
    <2> HIDE DEF q
    <2> QED BY <2>1
<1>15. Got(D) = taken
    <2>1. \A e \in taken : \E k \in 1..n : q[k] = e
        BY KeyOrderFacts
    <2> HIDE DEF q
    <2>2. \A e \in taken : \E k \in D : q[k] = e
        <3> HIDE DEF n, D
        <3> QED BY <1>1, <2>1
    <2> HIDE DEF n, D
    <2> QED BY <1>1, <2>2
<1>2. IsFiniteSet(D) /\ \A s \in SUBSET D : s # {} => Max(s) \in s /\ \A k \in s : Max(s) >= k
    <2>1. IsFiniteSet(1..n)
        BY <1>1, FS_Interval
    <2> HIDE DEF D, n
    <2> QED BY <1>1, <2>1, GreatestIndex
<1>3. \A s \in SUBSET D : V[s] \subseteq U /\ start \in V[s]
    <2> SUFFICES ASSUME NEW s \in SUBSET D
                 PROVE  CopyStates(c, taken, Got(s)) \subseteq U
                        /\ start \in CopyStates(c, taken, Got(s))
        OBVIOUS
    <2> HIDE DEF q, D, start
    <2>1. Got(s) \subseteq taken
        BY <1>1
    <2>2. start \in [outputs : Seq(SUBSET taken), passed : SUBSET c.grandparents,
                     overlapped : Nat, last : taken \cup {NoEntry}]
        <3>1. {} \in SUBSET taken
            OBVIOUS
        <3>2. <<{}>> \in Seq(SUBSET taken)
            BY <3>1
        <3> QED BY <3>2 DEF start
    <2>3. PiecesOK(start.outputs, Got(s))
        <3>1. start.outputs = <<{}>> /\ Len(<<{}>>) = 1 /\ <<{}>>[1] = {} /\ <<{}>> # <<>>
            BY DEF start
        <3> HIDE DEF Got
        <3> QED BY <3>1 DEF PiecesOK
    <2> HIDE DEF Got
    <2>4. ASSUME NEW w \in CopyStates(c, taken, Got(s)) PROVE w \in U
        <3>1. w \in [outputs : Seq(SUBSET taken), passed : SUBSET c.grandparents,
                     overlapped : Nat, last : taken \cup {NoEntry}]
              /\ PiecesOK(w.outputs, Got(s))
            BY DEF CopyStates
        <3>2. PiecesOK(w.outputs, taken)
            BY <2>1, <3>1 DEF PiecesOK
        <3> QED BY <3>1, <3>2 DEF CopyStates
    <2> QED BY <2>2, <2>3, <2>4 DEF CopyStates
<1>4. ASSUME NEW s \in SUBSET D, s # {}, NEW w \in V[s \ {Max(s)}]
      PROVE  Copied(w, Max(s)) \in V[s] /\ w \in U
    <2> DEFINE x == Max(s)
               got == Got(s \ {x})
    <2>1. x \in s /\ s \ {x} \in SUBSET D /\ x \in D /\ \A k \in s : x >= k
        BY <1>2, <1>4
    <2> HIDE DEF x
    <2>2. w \in CopyStates(c, taken, got) /\ w \in U
        BY <1>3, <1>4, <2>1 DEF x
    <2>3. got \in SUBSET taken /\ q[x] \in taken /\ Got(s) = got \cup {q[x]}
        <3> HIDE DEF q, D
        <3> QED BY <1>1, <2>1
    <2>4. ASSUME NEW d \in got PROVE Before(d, q[x])
        <3>1. PICK k \in s \ {x} : d = q[k]
            OBVIOUS
        <3>2. k \in D /\ k < x
            <4>1. k \in 1..n /\ x \in 1..n /\ x >= k /\ k # x
                BY <1>1, <2>1
            <4> HIDE DEF n, D
            <4> QED BY <1>1, <4>1
        <3> QED BY <1>1, <2>1, <3>1, <3>2
    <2> HIDE DEF got, Got, q, D
    <2>5. CopyEntry(c, smallestSnapshot, w, q[x]) \in CopyStates(c, taken, got \cup {q[x]})
        BY <2>2, <2>3, <2>4, CopyEntryFacts
    <2> QED BY <2>2, <2>3, <2>5 DEF x
<1>5. \A s \in SUBSET D : pick[s] = Max(s)
    OBVIOUS
<1>51. ASSUME NEW s \in SUBSET D, s # {}, NEW w \in W[s \ {Max(s)}]
       PROVE  Copied(w, Max(s)) \in W[s]
    <2> DEFINE x == Max(s)
               got == Got(s \ {x})
    <2>1. x \in s /\ s \ {x} \in SUBSET D /\ x \in D /\ \A k \in s : x >= k
        BY <1>2, <1>51
    <2> HIDE DEF x
    <2>2. w \in V[s \ {x}] /\ w \in P[got] /\ w \in CopyStates(c, taken, got)
        <3> HIDE DEF V
        <3>1. w \in V[s \ {x}] /\ w \in P[got]
            BY <1>51, <2>1 DEF x
        <3> USE DEF V
        <3> QED BY <2>1, <3>1
    <2>3. got \in SUBSET taken /\ q[x] \in taken /\ Got(s) = got \cup {q[x]}
        <3> HIDE DEF q, D
        <3> QED BY <1>1, <2>1
    <2>4. \A d \in got : Before(d, q[x])
        <3> SUFFICES ASSUME NEW k \in s \ {x} PROVE Before(q[k], q[x])
            OBVIOUS
        <3>1. k \in D /\ k < x
            <4>1. k \in 1..n /\ x \in 1..n /\ x >= k /\ k # x
                BY <1>1, <2>1
            <4> HIDE DEF n, D
            <4> QED BY <1>1, <4>1
        <3> QED BY <1>1, <2>1, <3>1
    <2>5. Copied(w, x) \in V[s]
        BY <1>4, <1>51, <2>2 DEF x
    <2> HIDE DEF got, Got, q, D, V
    <2>6. CopyEntry(c, smallestSnapshot, w, q[x]) \in P[got \cup {q[x]}]
        BY <2>2, <2>3, <2>4 DEF KeepsStates
    <2>7. Copied(w, x) \in P[Got(s)]
        BY <2>3, <2>6
    <2>8. Copied(w, x) \in W[s]
        BY <2>5, <2>7
    <2> QED BY <2>8 DEF x
<1>52. start \in W[{}]
    <2>1. start \in V[{}] /\ Got({}) = {}
        BY <1>3
    <2> HIDE DEF V
    <2> QED BY <2>1 DEF StartCopy
<1>53. /\ \A w \in W[D] : w \in V[D] /\ w \in P[Got(D)]
       /\ Got(D) = taken
    <2> HIDE DEF V, q
    <2> QED BY <1>15
<1> HIDE DEF D, U, V, W, pick, Copied, start, q, Got
<1>6. PICK f : IsFamilyFold(f, D, U, V, start, pick, step)
    <2>1. ASSUME NEW s \in SUBSET D, s # {}, NEW v \in V[s \ {pick[s]}]
          PROVE  step[pick[s]][v] \in V[s]
        <3>1. pick[s] = Max(s) /\ pick[s] \in D
            BY <1>2, <1>5, <2>1
        <3>2. Copied(v, pick[s]) \in V[s] /\ v \in U
            BY <1>4, <2>1, <3>1
        <3> QED BY <3>1, <3>2
    <2> HIDE DEF step
    <2>2. StaysInFamily(D, U, V, start, pick, step)
        BY <1>2, <1>3, <1>5, <2>1 DEF StaysInFamily
    <2> QED BY <1>2, <2>2, FamilyFoldExists
<1>7. Iter(f)
    <2>1. ASSUME NEW s \in SUBSET D, s # {}
          PROVE  f[s] = Copied(f[s \ {Max(s)}], Max(s))
        <3>1. Max(s) \in D /\ s \ {Max(s)} \in SUBSET D /\ pick[s] = Max(s)
            BY <1>2, <1>5, <2>1
        <3>2. f[s] = step[Max(s)][f[s \ {Max(s)}]] /\ f[s \ {Max(s)}] \in U
            <4> HIDE DEF step
            <4> QED BY <1>6, <2>1, <3>1 DEF IsFamilyFold
        <3> QED BY <3>1, <3>2
    <2>2. f[{}] = start /\ f = [s \in SUBSET D |-> f[s]]
        <3> HIDE DEF step
        <3> QED BY <1>6 DEF IsFamilyFold
    <2>3. ASSUME NEW s \in SUBSET D, s # {}
          PROVE  f[s] = CHOOSE v \in {CopyEntry(c, smallestSnapshot, u, q[Max(s)]) :
                                         u \in {f[s \ {Max(s)}]}} : TRUE
        <3> DEFINE a == CopyEntry(c, smallestSnapshot, f[s \ {Max(s)}], q[Max(s)])
        <3>1. f[s] = a
            BY <2>1, <2>3 DEF Copied
        <3>2. {CopyEntry(c, smallestSnapshot, u, q[Max(s)]) : u \in {f[s \ {Max(s)}]}} = {a}
            OBVIOUS
        <3> HIDE DEF a
        <3>3. (CHOOSE v \in {a} : TRUE) = a
            OBVIOUS
        <3> QED BY <3>1, <3>2, <3>3
    <2> QED BY <2>2, <2>3
<1>8. Iter(g)
    <2> HIDE DEF Iter
    <2> QED BY <1>7
<1>9. todo = IF Last(g[D].outputs) = {} THEN Front(g[D].outputs) ELSE g[D].outputs
    BY DEF CompactionOutputs, FoldLeft, MapThenFoldSet, D, q, start
<1>10. /\ g[{}] = start
       /\ \A s \in SUBSET D : s # {} => g[s] = Copied(g[s \ {Max(s)}], Max(s))
    <2> HIDE DEF g
    <2>1. g = [s \in SUBSET D |->
                 IF s = {} THEN start
                 ELSE LET x == Max(s) IN
                      CHOOSE v \in {CopyEntry(c, smallestSnapshot, u, q[x]) :
                                       u \in {g[s \ {x}]}} : TRUE]
        BY <1>8
    <2> HIDE DEF Iter
    <2>2. g[{}] = start
        <3>1. {} \in SUBSET D
            OBVIOUS
        <3> QED BY <2>1, <3>1
    <2>3. ASSUME NEW s \in SUBSET D, s # {} PROVE g[s] = Copied(g[s \ {Max(s)}], Max(s))
        <3> DEFINE a == CopyEntry(c, smallestSnapshot, g[s \ {Max(s)}], q[Max(s)])
        <3>1. g[s] = CHOOSE v \in {CopyEntry(c, smallestSnapshot, u, q[Max(s)]) :
                                      u \in {g[s \ {Max(s)}]}} : TRUE
            BY <2>1, <2>3
        <3>2. {CopyEntry(c, smallestSnapshot, u, q[Max(s)]) : u \in {g[s \ {Max(s)}]}} = {a}
            OBVIOUS
        <3> HIDE DEF a
        <3>3. (CHOOSE v \in {a} : TRUE) = a
            OBVIOUS
        <3>4. g[s] = a
            BY <3>1, <3>2, <3>3
        <3> QED BY <3>4 DEF a, Copied
    <2> QED BY <2>2, <2>3
<1> HIDE DEF g, Iter, step
<1>11. g[D] \in W[D]
    <2>1. g[{}] \in W[{}]
        BY <1>10, <1>52
    <2>2. ASSUME NEW s \in SUBSET D, s # {}
          PROVE  /\ pick[s] \in s
                 /\ g[s \ {pick[s]}] \in W[s \ {pick[s]}] => g[s] \in W[s]
        <3>1. pick[s] = Max(s) /\ pick[s] \in s
            BY <1>2, <1>5, <2>2
        <3>2. g[s] = Copied(g[s \ {Max(s)}], Max(s))
            BY <1>10, <2>2
        <3>3. g[s \ {Max(s)}] \in W[s \ {Max(s)}] => g[s] \in W[s]
            BY <1>51, <2>2, <3>2
        <3> QED BY <3>1, <3>3
    <2> QED BY <1>2, <2>1, <2>2, FamilyFoldStays
<1>12. g[D] \in P[Got(D)] /\ g[D] \in U /\ Got(D) = taken
    BY <1>3, <1>11, <1>53
<1> QED BY <1>9, <1>12 DEF U, Kept, EndsIn

\* What a compaction writes follows one another, and is of its inputs, whatever is
\* dropped and wherever a file is cut (DBImpl::DoCompactionWork).
THEOREM CompactionOutputsFacts ==
    ASSUME NEW c, IsFiniteSet(c.grandparents), \A g \in c.grandparents : IsFiniteSet(g.entries),
           NEW taken, taken = EntriesOf(c.mine \cup c.theirs), Apart(taken),
           NEW smallestSnapshot, NEW todo, todo = CompactionOutputs(c, smallestSnapshot)
    PROVE  /\ todo \in Seq(SUBSET taken)
           /\ \A i \in 1..Len(todo) :
                  /\ todo[i] # {}
                  /\ \A j \in 1..Len(todo) : i < j => Precedes(todo[i], todo[j])
<1> DEFINE P == [got \in SUBSET taken |-> CopyStates(c, taken, got)]
<1>1. StartCopy \in P[{}]
    <2>1. /\ StartCopy.outputs = <<{}>> /\ Len(<<{}>>) = 1 /\ <<{}>>[1] = {} /\ <<{}>> # <<>>
          /\ {} \in SUBSET taken
        BY DEF StartCopy
    <2>2. PiecesOK(StartCopy.outputs, {})
        BY <2>1 DEF PiecesOK
    <2>3. <<{}>> \in Seq(SUBSET taken)
        BY <2>1
    <2>4. StartCopy \in CopyStates(c, taken, {})
        BY <2>2, <2>3 DEF CopyStates, StartCopy
    <2> QED BY <2>4
<1>2. KeepsStates(c, taken, smallestSnapshot, P)
    <2> SUFFICES ASSUME NEW got \in SUBSET taken, NEW e \in taken, NEW w \in P[got],
                        w \in CopyStates(c, taken, got), \A d \in got : Before(d, e)
                 PROVE  CopyEntry(c, smallestSnapshot, w, e) \in P[got \cup {e}]
        BY DEF KeepsStates
    <2>1. CopyEntry(c, smallestSnapshot, w, e) \in CopyStates(c, taken, got \cup {e})
        BY CopyEntryFacts
    <2>2. got \cup {e} \in SUBSET taken
        OBVIOUS
    <2> QED BY <2>1, <2>2
<1> HIDE DEF P
<1>3. EndsIn(todo, c, taken, P)
    BY <1>1, <1>2, CompactionFold
<1>4. PICK w \in CopyStates(c, taken, taken) : todo = Kept(w.outputs)
    BY <1>3 DEF EndsIn
<1> DEFINE o == w.outputs
<1>5. o \in Seq(SUBSET taken) /\ PiecesOK(o, taken)
    BY DEF CopyStates
<1>6. CASE Last(o) # {}
    <2>1. todo = o
        BY <1>4, <1>6 DEF Kept
    <2>2. \A i \in 1..Len(o) : o[i] # {}
        <3>1. \A i \in 1..Len(o) : i < Len(o) \/ i = Len(o)
            BY <1>5
        <3> QED BY <1>5, <1>6, <3>1 DEF PiecesOK, Last
    <2> QED BY <1>5, <2>1, <2>2 DEF PiecesOK
<1>7. CASE Last(o) = {}
    <2>1. todo = Front(o)
        BY <1>4, <1>7 DEF Kept
    <2>2. Len(o) \in Nat /\ Len(o) # 0
        BY <1>5 DEF PiecesOK
    <2>3. /\ todo \in Seq(SUBSET taken) /\ Len(todo) = Len(o) - 1
          /\ \A i \in 1..Len(todo) : todo[i] = o[i] /\ i \in 1..Len(o) /\ i < Len(o)
        <3>1. o \in Seq(SUBSET taken) /\ o # <<>>
            BY <1>5 DEF PiecesOK
        <3>2. /\ Front(o) \in Seq(SUBSET taken) /\ Len(Front(o)) = Len(o) - 1
              /\ \A i \in 1..(Len(o) - 1) : Front(o)[i] = o[i]
            BY <3>1, FrontFacts
        <3> QED BY <2>1, <2>2, <3>2
    <2> QED BY <1>5, <2>3 DEF PiecesOK
<1> QED BY <1>6, <1>7

-----------------------------------------------------------------------------
\* What an edit makes of a version.
LEMMA SavedContents ==
    ASSUME NEW v, NEW deleted, NEW added
    PROVE  Contents(SaveTo(v, deleted, added)) \subseteq Contents(v) \cup Contents(added)
<1> DEFINE w == SaveTo(v, deleted, added)
<1> SUFFICES ASSUME NEW l \in Level, NEW f \in w[l], NEW e \in f.entries
             PROVE  e \in Contents(v) \cup Contents(added)
    BY DEF Contents, EntriesOf, Files
<1>1. f \in v[l] \/ f \in added[l]
    BY DEF SaveTo
<1> QED BY <1>1 DEF Contents, EntriesOf, Files

LEMMA BesideFacts ==
    ASSUME NEW A, NEW B
    PROVE  /\ Beside(A, B) => Beside(B, A)
           /\ Beside(A, B) => \A C \in SUBSET B : Beside(A, C)
BY DEF Beside, Precedes

\* The outputs of a compaction take the place of its inputs; a move is the case in
\* which they are the same.
LEMMA InstallOrdered ==
    ASSUME NEW v, VersionOK(v), NEW c, InputsOK(v, c), NEW outs \in SUBSET File,
           \A f \in outs : TableOK(f) /\ f.entries \subseteq EntriesOf(c.mine \cup c.theirs),
           \A f, g \in outs : f # g => Beside(f.entries, g.entries),
           NEW w, w = [l \in Level |-> w[l]],
           \A l \in Level : l # c.level + 1 => w[l] \subseteq v[l],
           w[c.level + 1] = (v[c.level + 1] \ c.theirs) \cup outs
    PROVE  LevelsOK(w) /\ Contents(w) \subseteq Contents(v)
<1> DEFINE k == c.level + 1
           taken == EntriesOf(c.mine \cup c.theirs)
           kept == v[k] \ c.theirs
<1>1. k \in Level /\ k # 0 /\ c.level \in Level
    BY LevelNumbers DEF InputsOK
<1>2. \A l \in Level : l # k => w[l] \subseteq v[l]
    OBVIOUS
<1>3. w[k] = kept \cup outs
    OBVIOUS
<1>4. \A g \in kept : Beside(g.entries, taken)
    BY DEF InputsOK
<1>5. taken \subseteq Contents(v)
    BY <1>1 DEF InputsOK, Contents, EntriesOf, Files
<1>6. \A f \in outs : TableOK(f) /\ f.entries \subseteq taken
    OBVIOUS
<1> HIDE DEF k, taken
<1>7. \A l \in Level : \A f \in w[l] : f \in v[l] \/ (l = k /\ f \in outs)
    BY <1>2, <1>3
<1>8. ASSUME NEW l \in Level, NEW f \in w[l] PROVE TableOK(f)
    BY <1>6, <1>7 DEF VersionOK, LevelsOK
<1>9. ASSUME NEW l \in Level, l # 0, NEW f \in w[l], NEW g \in w[l], f # g
      PROVE  Beside(f.entries, g.entries)
    <2>1. CASE f \in v[l] /\ g \in v[l]
        BY <1>9, <2>1 DEF VersionOK, LevelsOK
    <2>2. CASE l = k
        <3>1. ASSUME NEW a \in kept, NEW b \in outs
              PROVE  Beside(a.entries, b.entries) /\ Beside(b.entries, a.entries)
            <4>1. Beside(a.entries, taken) /\ b.entries \in SUBSET taken
                BY <1>4, <1>6
            <4>2. Beside(a.entries, b.entries)
                BY <4>1, BesideFacts
            <4> QED BY <4>2, BesideFacts
        <3>2. f \in kept \cup outs /\ g \in kept \cup outs
            BY <1>3, <2>2
        <3>3. CASE f \in outs /\ g \in outs
            BY <1>9, <3>3
        <3>4. CASE f \in kept /\ g \in kept
            BY <2>1, <2>2, <3>4
        <3> QED BY <3>1, <3>2, <3>3, <3>4
    <2> QED BY <1>7, <2>1, <2>2
<1>10. Contents(w) \subseteq Contents(v)
    <2> SUFFICES ASSUME NEW l \in Level, NEW f \in w[l], NEW e \in f.entries
                 PROVE  e \in Contents(v)
        BY DEF Contents, EntriesOf, Files
    <2>1. CASE f \in v[l]
        BY <2>1 DEF Contents, EntriesOf, Files
    <2>2. CASE f \in outs
        BY <1>5, <1>6, <2>2
    <2> QED BY <1>7, <2>1, <2>2
<1>11. w \in Version
    <2>1. \A l \in Level : v[l] \in SUBSET File
        BY DEF VersionOK, LevelsOK, Version
    <2>2. \A l \in Level : w[l] \in SUBSET File
        BY <1>7, <2>1
    <2> QED BY <2>2 DEF Version
<1> QED BY <1>8, <1>9, <1>10, <1>11 DEF LevelsOK

\* PickLevelForMemTableOutput goes below level 0 only past levels that hold nothing of
\* the range.
LEMMA PickLevelFacts ==
    ASSUME NEW v, NEW lo, NEW hi, NEW level, level = PickLevelForMemTableOutput(v, lo, hi)
    PROVE  /\ level \in Level
           /\ level # 0 => \A m \in 0..level : ~OverlapInLevel(v, m, lo, hi)
<1> DEFINE Fits(l) ==
               /\ ~OverlapInLevel(v, l, lo, hi)
               /\ l + 1 < NumLevels =>
                    TotalFileSize(GetOverlappingInputs(v, l + 1, lo, hi)) <= MaxOverlap
           S == {l \in 0..MaxMemCompactLevel : \A m \in 1..l : Fits(m)}
<1>1. level = IF OverlapInLevel(v, 0, lo, hi) THEN 0 ELSE Max(S)
    BY DEF PickLevelForMemTableOutput
<1>2. MaxMemCompactLevel \in Nat /\ 0..MaxMemCompactLevel \subseteq Level /\ 0 \in Level
    BY Config DEF Level
<1>3. Max(S) \in S
    <2>1. S \in SUBSET Nat /\ S \subseteq 0..MaxMemCompactLevel
        BY <1>2
    <2>2. 0 \in S
        BY <1>2
    <2>3. IsFiniteSet(S)
        <3>1. IsFiniteSet(0..MaxMemCompactLevel)
            BY <1>2, FS_Interval
        <3> HIDE DEF S
        <3> QED BY <2>1, <3>1, FS_Subset
    <2> HIDE DEF S
    <2> QED BY <2>1, <2>2, <2>3, FiniteBounds
<1>4. CASE OverlapInLevel(v, 0, lo, hi)
    BY <1>1, <1>2, <1>4
<1>5. CASE ~OverlapInLevel(v, 0, lo, hi)
    <2>1. level = Max(S)
        BY <1>1, <1>5
    <2> HIDE DEF S, Fits
    <2>2. level \in 0..MaxMemCompactLevel /\ \A m \in 1..level : Fits(m)
        BY <1>3, <2>1 DEF S
    <2>3. \A m \in 1..level : ~OverlapInLevel(v, m, lo, hi)
        BY <2>2 DEF Fits
    <2>4. \A m \in 0..level : m = 0 \/ m \in 1..level
        BY <1>2, <2>2
    <2> QED BY <1>2, <1>5, <2>2, <2>3, <2>4
<1> QED BY <1>4, <1>5

LEMMA NewFileType ==
    ASSUME NEW n \in Nat, NEW es, Apart(es), es # {}
    PROVE  NewFile(n, es) \in File /\ TableOK(NewFile(n, es))
<1>1. Smallest(es) \in Entry /\ Largest(es) \in Entry /\ es \in SUBSET Entry
    BY SmallestFacts DEF Apart
<1> QED BY <1>1 DEF NewFile, File, TableOK

\* What can be compacted in one version can be in the other.
InputsStay(v, w) ==
    \A c : InputsOK(v, c) /\ Solid(c.mine \cup c.theirs) => InputsOK(w, c)

\* A version with more files in one level.
Joined(version, level, files) ==
    [l \in Level |-> IF l = level THEN version[l] \cup files ELSE version[l]]

LEMMA JoinedContents ==
    ASSUME NEW v, NEW level, NEW f
    PROVE  Contents(Joined(v, level, {f})) \subseteq Contents(v) \cup f.entries
<1> SUFFICES ASSUME NEW l \in Level, NEW g \in Joined(v, level, {f})[l], NEW e \in g.entries
             PROVE  e \in Contents(v) \cup f.entries
    BY DEF Contents, EntriesOf, Files
<1>1. g \in v[l] \/ g = f
    BY DEF Joined
<1> QED BY <1>1 DEF Contents, EntriesOf, Files

\* The table of a memtable joins its level, and leaves the inputs of a compaction what
\* they were.
LEMMA FlushOrdered ==
    ASSUME NEW v, NEW es, Apart(Contents(v) \cup es), es # {}, LevelsOK(v), NEW n \in Nat,
           NEW f, f = NewFile(n, es),
           NEW level, level = PickLevelForMemTableOutput(v, f.smallest.key, f.largest.key),
           NEW w, w = Joined(v, level, {f})
    PROVE  LevelsOK(w) /\ InputsStay(v, w)
<1> USE DEF Joined
<1> DEFINE lo == f.smallest.key
           hi == f.largest.key
<1>1. VersionOK(v) /\ Apart(es)
    BY ApartPart DEF VersionOK
<1>2. FileOK(f) /\ f.entries = es
    BY <1>1 DEF FileOK, TableOK, NewFile
<1>3. lo \in UserKey /\ hi \in UserKey /\ lo \in Nat /\ hi \in Nat /\ lo <= hi
    BY <1>2, FileEnds
<1>4. level \in Level /\ level \in Nat
    BY PickLevelFacts, LevelNumbers
<1>5. ASSUME level # 0, NEW m \in 0..level, NEW g \in v[m] PROVE ~Overlaps(g, lo, hi)
    BY <1>5, PickLevelFacts DEF OverlapInLevel
<1>6. ASSUME level # 0, NEW g \in v[level]
      PROVE  Beside(g.entries, f.entries) /\ Beside(f.entries, g.entries)
    <2>1. level \in 0..level
        BY <1>4
    <2>2. FileOK(g) /\ ~Overlaps(g, lo, hi)
        BY <1>1, <1>4, <1>5, <1>6, <2>1, VersionFiles
    <2>3. g.smallest.key \in Nat /\ g.largest.key \in Nat
        BY <2>2, FileEnds
    <2>4. g.largest.key < lo \/ hi < g.smallest.key
        BY <1>3, <2>2, <2>3 DEF Overlaps
    <2>5. Precedes(g.entries, f.entries) \/ Precedes(f.entries, g.entries)
        BY <1>2, <2>2, <2>4, FileBefore
    <2> QED BY <2>5 DEF Beside
<1> HIDE DEF lo, hi
<1>7. LevelsOK(w)
    <2>0. w \in Version
        <3>1. f \in File
            BY <1>1, NewFileType
        <3>2. \A l \in Level : v[l] \in SUBSET File
            BY DEF LevelsOK, Version
        <3> QED BY <3>1, <3>2 DEF Version
    <2> SUFFICES ASSUME NEW l \in Level
                 PROVE  /\ \A g \in w[l] : TableOK(g)
                        /\ l # 0 => \A g, h \in w[l] : g # h => Beside(g.entries, h.entries)
        BY <2>0 DEF LevelsOK
    <2>1. /\ \A g \in v[l] : TableOK(g)
          /\ l # 0 => \A g, h \in v[l] : g # h => Beside(g.entries, h.entries)
        BY DEF LevelsOK
    <2>2. TableOK(f)
        BY <1>2 DEF FileOK
    <2>3. CASE l # level
        BY <2>1, <2>3
    <2>4. CASE l = level
        <3>1. w[l] = v[l] \cup {f}
            BY <2>4
        <3> QED BY <1>6, <2>1, <2>2, <2>4, <3>1
    <2> QED BY <2>3, <2>4
<1>8. ASSUME NEW c, InputsOK(v, c), Solid(c.mine \cup c.theirs) PROVE InputsOK(w, c)
    <2> DEFINE k == c.level + 1
               files == c.mine \cup c.theirs
    <2>1. k \in Level /\ k # 0 /\ c.level \in Level /\ c.level \in 0..k
        BY <1>8, LevelNumbers DEF InputsOK
    <2>2. /\ c.level \in 0..(NumLevels - 2)
          /\ c.mine \subseteq v[c.level] /\ c.theirs \subseteq v[k]
          /\ \A g \in v[k] \ c.theirs : Beside(g.entries, EntriesOf(files))
        BY <1>8 DEF InputsOK
    <2>3. v[c.level] \subseteq w[c.level] /\ v[k] \subseteq w[k] /\ w[k] \subseteq v[k] \cup {f}
        BY <2>1
    <2>4. ASSUME NEW g \in w[k] \ c.theirs, g \notin v[k]
          PROVE  Beside(g.entries, EntriesOf(files))
        <3>1. g = f /\ level = k
            BY <2>1, <2>4
        <3>2. k \in 0..k
            BY <2>1, LevelNumbers
        <3>3. ASSUME NEW h \in files
              PROVE  /\ FileOK(h) /\ h.smallest.key \in Nat /\ h.largest.key \in Nat
                     /\ ~Overlaps(h, lo, hi)
            <4>1. h \in v[c.level] \/ h \in v[k]
                BY <2>2
            <4>2. FileOK(h)
                BY <1>1, <2>1, <4>1, VersionFiles
            <4>3. ~Overlaps(h, lo, hi)
                BY <1>5, <2>1, <3>1, <3>2, <4>1
            <4> QED BY <4>2, <4>3, FileEnds
        <3>4. \/ \A h \in files : h.largest.key < lo
              \/ \A h \in files : hi < h.smallest.key
            BY <1>3, <1>8, <3>3 DEF Solid
        <3>5. \/ \A h \in files : Precedes(h.entries, f.entries)
              \/ \A h \in files : Precedes(f.entries, h.entries)
            BY <1>2, <3>3, <3>4, FileBefore DEF lo, hi
        <3> HIDE DEF files
        <3> QED BY <3>1, <3>5, BesideAll
    <2>5. \A g \in w[k] \ c.theirs : Beside(g.entries, EntriesOf(files))
        BY <2>2, <2>4
    <2> QED BY <2>2, <2>3, <2>5 DEF InputsOK
<1> QED BY <1>7, <1>8 DEF InputsStay

-----------------------------------------------------------------------------
\* Which entry of a key lies above which.
\*
\* No key is on both sides; every entry of one side is no older than the entries of
\* its key on the other; every entry of one side is newer than all of the other.
KeysApart(A, B) == \A a \in A, b \in B : a.key # b.key
OnTop(A, B) == \A a \in A, b \in B : a.key = b.key => a.seq >= b.seq
After(A, B) == \A a \in A, b \in B : a.seq > b.seq
OneEach(A) == \A a, b \in A : a.key = b.key => a = b

\* Levels are searched from 0 up, and above 0 one file of a level holds all of a key.
Layered(version) ==
    /\ \A l, m \in Level : l < m => OnTop(EntriesOf(version[l]), EntriesOf(version[m]))
    /\ \A l \in Level : l # 0 =>
           \A f, g \in version[l] : f # g => KeysApart(f.entries, g.entries)

\* What a compaction leaves behind in its two levels: nothing older in the upper one,
\* nothing of its keys in the lower one.
RestOK(version, c) ==
    /\ OnTop(EntriesOf(version[c.level] \ c.mine), EntriesOf(c.mine))
    /\ \A g \in version[c.level + 1] \ c.theirs :
           KeysApart(g.entries, EntriesOf(c.mine \cup c.theirs))

\* The entries in the outputs of a compaction.
Copied(outputs) == UNION {outputs[i] : i \in 1..Len(outputs)}

LEMMA CopiedOpen ==
    ASSUME NEW S, NEW o \in Seq(SUBSET S)
    PROVE  Copied(Append(o, {})) = Copied(o)
<1>1. {} \in SUBSET S
    OBVIOUS
<1>2. /\ Len(Append(o, {})) = Len(o) + 1 /\ Len(o) \in Nat
      /\ Append(o, {})[Len(o) + 1] = {}
      /\ \A i \in 1..Len(o) : Append(o, {})[i] = o[i]
    BY <1>1
<1>3. 1..(Len(o) + 1) = 1..Len(o) \cup {Len(o) + 1}
    BY <1>2
<1> QED BY <1>2, <1>3 DEF Copied

LEMMA CopiedAdd ==
    ASSUME NEW S, NEW o \in Seq(SUBSET S), o # <<>>, NEW e
    PROVE  Copied(Front(o) \o <<Last(o) \cup {e}>>) \subseteq Copied(o) \cup {e}
<1> DEFINE n == Len(o)
           T == SUBSET (S \cup {e})
           p == Front(o) \o <<Last(o) \cup {e}>>
<1>1. n \in Nat /\ n \in 1..n
    OBVIOUS
<1>2. Front(o) \in Seq(SUBSET S) /\ Len(Front(o)) = n - 1
      /\ \A i \in 1..(n - 1) : Front(o)[i] = o[i]
    BY FrontFacts
<1>3. Last(o) = o[n] /\ Last(o) \cup {e} \in T
    BY <1>1 DEF Last
<1> HIDE DEF n
<1>4. Front(o) \in Seq(T)
    BY <1>2
<1> HIDE DEF T
<1>5. Len(p) = (n - 1) + 1 /\ p[n] = o[n] \cup {e}
      /\ \A i \in 1..(n - 1) : p[i] = o[i]
    BY <1>1, <1>2, <1>3, <1>4
<1>6. \A i \in 1..Len(p) : i = n \/ i \in 1..(n - 1)
    BY <1>1, <1>5
<1>7. \A i \in 1..Len(p) : i \in 1..n
    BY <1>1, <1>5
<1> HIDE DEF p
<1>8. \A i \in 1..Len(p) : p[i] \subseteq o[i] \cup {e}
    BY <1>5, <1>6
<1> QED BY <1>7, <1>8 DEF Copied, p, n

\* The entry of the same key that came before.
NewerOf(w, e) == IF w.last.key = e.key THEN w.last ELSE NoEntry

\* One turn of the loop adds no entry but its own, and that only if it is not dropped.
LEMMA CopyEntryCopies ==
    ASSUME NEW S, NEW c, NEW got, NEW w \in CopyStates(c, S, got), NEW smallestSnapshot, NEW e,
           NEW r, r = CopyEntry(c, smallestSnapshot, w, e)
    PROVE  /\ r.last = e
           /\ Copied(r.outputs) \subseteq Copied(w.outputs) \cup {e}
           /\ Drop(c, e, NewerOf(w, e), smallestSnapshot) =>
                  Copied(r.outputs) = Copied(w.outputs)
<1> DEFINE newer == NewerOf(w, e)
<1>0. /\ w.outputs \in Seq(SUBSET S) /\ w.outputs # <<>>
      /\ w = [outputs |-> w.outputs, passed |-> w.passed, overlapped |-> w.overlapped,
              last |-> w.last]
    BY DEF CopyStates, PiecesOK
<1> USE <1>0
<1> DEFINE p == PassGrandparents(c, w, e)
           o == p.outputs
<1>1. /\ o = w.outputs \/ o = Append(w.outputs, {})
      /\ \E a, k : p = [outputs |-> o, passed |-> a, overlapped |-> k, last |-> w.last]
    <2> DEFINE passed == {g \in c.grandparents \ w.passed : Before(g.largest, e)}
               sum == w.overlapped + IF w.last = NoEntry THEN 0 ELSE TotalFileSize(passed)
               all == w.passed \cup passed
               k == IF sum > MaxOverlap THEN 0 ELSE sum
               x == IF sum > MaxOverlap /\ Last(w.outputs) # {} THEN Append(w.outputs, {})
                    ELSE w.outputs
    <2>1. p = [w EXCEPT !.passed = @ \cup passed, !.overlapped = k, !.outputs = x]
        BY DEF PassGrandparents
    <2>2. x = w.outputs \/ x = Append(w.outputs, {})
        <3> HIDE DEF sum
        <3> QED OBVIOUS
    <2> HIDE DEF p, k, x, passed
    <2>3. p = [outputs |-> x, passed |-> w.passed \cup passed, overlapped |-> k, last |-> w.last]
        BY <2>1
    <2>4. p.outputs = x
        BY <2>3
    <2> QED BY <2>2, <2>3, <2>4
<1>2. Copied(o) = Copied(w.outputs) /\ o # <<>> /\ o \in Seq(SUBSET S)
    <2> HIDE DEF o
    <2>1. CASE o = w.outputs
        BY <2>1
    <2>2. CASE o = Append(w.outputs, {})
        <3> DEFINE T == SUBSET S
        <3>1. {} \in T /\ w.outputs \in Seq(T)
            OBVIOUS
        <3>2. Copied(Append(w.outputs, {})) = Copied(w.outputs)
            BY CopiedOpen
        <3> HIDE DEF T
        <3>3. Append(w.outputs, {}) \in Seq(T) /\ Append(w.outputs, {}) # <<>>
            BY <3>1
        <3> QED BY <2>2, <3>2, <3>3 DEF T
    <2> QED BY <1>1, <2>1, <2>2
<1> DEFINE out == Last(o) \cup {e}
           added == Front(o) \o <<out>>
<1>3. Copied(added) \subseteq Copied(w.outputs) \cup {e}
    <2> HIDE DEF o
    <2> QED BY <1>2, CopiedAdd
<1>4. Front(o) \o <<out, {}>> = Append(added, {}) /\ \E T : added \in Seq(SUBSET T)
    <2> DEFINE T == S \cup {e}
    <2>1. Front(o) \in Seq(SUBSET S)
        <3> HIDE DEF o
        <3> QED BY <1>2, FrontFacts
    <2>2. Front(o) \in Seq(SUBSET T)
        <3> HIDE DEF o
        <3> QED BY <2>1
    <2>3. out \in SUBSET T /\ {} \in SUBSET T
        <3> HIDE DEF o
        <3>1. Len(o) \in 1..Len(o)
            BY <1>2
        <3> QED BY <1>2, <3>1 DEF Last
    <2> HIDE DEF T, out, o
    <2>4. added \in Seq(SUBSET T) /\ Front(o) \o <<out, {}>> = Append(added, {})
        BY <2>2, <2>3
    <2> QED BY <2>4
<1>5. Copied(Append(added, {})) = Copied(added)
    <2> HIDE DEF added
    <2> QED BY <1>4, CopiedOpen
<1>6. r = IF Drop(c, e, newer, smallestSnapshot) THEN [p EXCEPT !.last = e]
          ELSE [p EXCEPT !.last = e,
                         !.outputs = Front(@) \o (IF Cardinality(Last(p.outputs) \cup {e})
                                                     >= MaxFileSize
                                                  THEN <<Last(p.outputs) \cup {e}, {}>>
                                                  ELSE <<Last(p.outputs) \cup {e}>>)]
    BY DEF CopyEntry, NewerOf
<1> HIDE DEF newer
<1> DEFINE tail == IF Cardinality(Last(p.outputs) \cup {e}) >= MaxFileSize
                   THEN <<Last(p.outputs) \cup {e}, {}>> ELSE <<Last(p.outputs) \cup {e}>>
<1>61. tail = <<out, {}>> \/ tail = <<out>>
    OBVIOUS
<1> HIDE DEF p
<1>7. CASE Drop(c, e, newer, smallestSnapshot)
    <2>1. r.outputs = o /\ r.last = e
        BY <1>1, <1>6, <1>7
    <2> HIDE DEF o
    <2> QED BY <1>2, <2>1
<1>8. CASE ~Drop(c, e, newer, smallestSnapshot)
    <2>1. r.outputs = Front(o) \o tail /\ r.last = e
        <3>1. r = [p EXCEPT !.last = e, !.outputs = Front(@) \o tail]
            BY <1>6, <1>8
        <3> HIDE DEF tail
        <3> QED BY <1>1, <3>1
    <2> HIDE DEF tail
    <2>2. r.outputs = added \/ r.outputs = Append(added, {})
        <3> HIDE DEF o, out
        <3> QED BY <1>4, <1>61, <2>1
    <2> HIDE DEF added, out
    <2> QED BY <1>3, <1>5, <1>8, <2>1, <2>2 DEF newer
<1> QED BY <1>7, <1>8

\* Of entries that every reader sees, a compaction writes at most one of each key, the
\* newest: the rule (A) drops the others (DBImpl::DoCompactionWork).
THEOREM CompactionKeepsOne ==
    ASSUME NEW c, IsFiniteSet(c.grandparents), \A g \in c.grandparents : IsFiniteSet(g.entries),
           NEW taken, taken = EntriesOf(c.mine \cup c.theirs), Apart(taken),
           NEW smallestSnapshot, \A e \in taken : e.seq <= smallestSnapshot,
           NEW todo, todo = CompactionOutputs(c, smallestSnapshot)
    PROVE  /\ OneEach(Copied(todo))
           /\ Copied(todo) \subseteq taken
           /\ \A x \in Copied(todo) : \A d \in taken : d.key = x.key => d.seq <= x.seq
<1> DEFINE Fresh(w, got) == \/ got = {} /\ w.last = NoEntry
                            \/ w.last \in got
                               /\ \A d \in got : d = w.last \/ Before(d, w.last)
           Firsts(w, got) ==
               /\ Copied(w.outputs) \subseteq got
               /\ \A x \in Copied(w.outputs) : \A d \in got :
                      d.key = x.key => d = x \/ Before(x, d)
           P == [got \in SUBSET taken |->
                   {w \in CopyStates(c, taken, taken) : Fresh(w, got) /\ Firsts(w, got)}]
<1>1. taken \subseteq Entry
    BY DEF Apart
<1>2. StartCopy \in P[{}]
    <2>1. StartCopy.outputs = <<{}>> /\ StartCopy.last = NoEntry
        BY DEF StartCopy
    <2>2. Len(<<{}>>) = 1 /\ <<{}>>[1] = {} /\ <<{}>> # <<>>
        OBVIOUS
    <2>3. Copied(StartCopy.outputs) = {}
        BY <2>1, <2>2 DEF Copied
    <2>4. PiecesOK(StartCopy.outputs, taken)
        BY <2>1, <2>2 DEF PiecesOK
    <2>5. <<{}>> \in Seq(SUBSET taken)
        <3>1. {} \in SUBSET taken
            OBVIOUS
        <3> QED BY <3>1
    <2>6. StartCopy \in [outputs : Seq(SUBSET taken), passed : SUBSET c.grandparents,
                         overlapped : Nat, last : taken \cup {NoEntry}]
        BY <2>5 DEF StartCopy
    <2>7. StartCopy \in CopyStates(c, taken, taken)
        BY <2>4, <2>6 DEF CopyStates
    <2>8. {} \in SUBSET taken
        OBVIOUS
    <2> QED BY <2>1, <2>3, <2>7, <2>8
<1>3. ASSUME NEW got \in SUBSET taken, NEW e \in taken, NEW w \in P[got],
             w \in CopyStates(c, taken, got), \A d \in got : Before(d, e)
      PROVE  CopyEntry(c, smallestSnapshot, w, e) \in P[got \cup {e}]
    <2> DEFINE r == CopyEntry(c, smallestSnapshot, w, e)
               newer == NewerOf(w, e)
               more == got \cup {e}
    <2>1. Fresh(w, got) /\ Firsts(w, got)
        BY <1>3
    <2>2. w.outputs \in Seq(SUBSET taken) /\ w.outputs # <<>>
          /\ w = [outputs |-> w.outputs, passed |-> w.passed, overlapped |-> w.overlapped,
                  last |-> w.last]
        BY <1>3 DEF CopyStates, PiecesOK
    <2>3. /\ r.last = e
          /\ Copied(r.outputs) \subseteq Copied(w.outputs) \cup {e}
          /\ Drop(c, e, newer, smallestSnapshot) => Copied(r.outputs) = Copied(w.outputs)
        <3> HIDE DEF r
        <3> QED BY <1>3, CopyEntryCopies DEF r
    <2>4. r \in CopyStates(c, taken, taken)
        <3>1. r \in CopyStates(c, taken, got \cup {e})
            BY <1>3, CopyEntryFacts
        <3>2. PiecesOK(r.outputs, more)
            BY <3>1 DEF CopyStates
        <3>3. PiecesOK(r.outputs, taken)
            BY <3>2 DEF PiecesOK
        <3> HIDE DEF r
        <3> QED BY <3>1, <3>3 DEF CopyStates
    <2>5. Fresh(r, more)
        BY <1>3, <2>3
    <2>6. ASSUME ~Drop(c, e, newer, smallestSnapshot), NEW d \in got PROVE d.key # e.key
        <3> SUFFICES ASSUME d.key = e.key PROVE FALSE
            OBVIOUS
        <3>1. w.last \in got /\ (d = w.last \/ Before(d, w.last))
            BY <2>1, <2>6
        <3>2. d \in Entry /\ e \in Entry /\ w.last \in Entry /\ Before(w.last, e)
            BY <1>1, <1>3, <3>1
        <3>3. w.last.key = e.key
            <4>1. d.key <= w.last.key /\ w.last.key <= e.key
                BY <3>1, <3>2, BeforeFacts
            <4>2. d.key \in Nat /\ w.last.key \in Nat /\ e.key \in Nat
                BY <3>2, BeforeFacts
            <4> QED BY <4>1, <4>2
        <3>4. newer = w.last /\ w.last # NoEntry /\ w.last.seq <= smallestSnapshot
            <4>1. newer = w.last
                BY <3>3 DEF NewerOf
            <4>2. w.last.type \in {"value", "deletion"} /\ NoEntry.type = "none"
                BY <3>2 DEF Entry, NoEntry
            <4> QED BY <3>1, <4>1, <4>2
        <3> HIDE DEF newer
        <3> QED BY <2>6, <3>4 DEF Drop
    <2>7. Firsts(r, more)
        <3>1. Copied(r.outputs) \subseteq more
            BY <2>1, <2>3
        <3>2. ASSUME NEW x \in Copied(r.outputs), NEW d \in more, d.key = x.key
              PROVE  d = x \/ Before(x, d)
            <4>1. CASE x \in Copied(w.outputs)
                <5>1. x \in got
                    BY <2>1, <4>1
                <5>2. CASE d = e
                    BY <1>3, <5>1, <5>2
                <5>3. CASE d \in got
                    BY <2>1, <3>2, <4>1, <5>3
                <5> QED BY <5>2, <5>3
            <4>2. CASE x \notin Copied(w.outputs)
                <5>1. x = e /\ ~Drop(c, e, newer, smallestSnapshot)
                    BY <2>3, <3>2, <4>2
                <5> HIDE DEF newer
                <5>2. d \notin got
                    BY <2>6, <3>2, <5>1
                <5> QED BY <5>1, <5>2
            <4> QED BY <4>1, <4>2
        <3> QED BY <3>1, <3>2
    <2> HIDE DEF Fresh, Firsts, r
    <2>8. more \in SUBSET taken
        BY <1>3
    <2> HIDE DEF more
    <2> QED BY <2>4, <2>5, <2>7, <2>8 DEF r, more
<1>4. EndsIn(todo, c, taken, P)
    <2> HIDE DEF P
    <2>1. KeepsStates(c, taken, smallestSnapshot, P)
        BY <1>3 DEF KeepsStates
    <2> QED BY <1>2, <2>1, CompactionFold
<1>5. PICK w \in P[taken] :
          /\ w \in CopyStates(c, taken, taken)
          /\ todo = Kept(w.outputs)
    <2> HIDE DEF P
    <2> QED BY <1>4 DEF EndsIn
<1>6. Copied(todo) \subseteq Copied(w.outputs)
    <2>1. w.outputs \in Seq(SUBSET taken) /\ w.outputs # <<>>
        BY <1>5 DEF CopyStates, PiecesOK
    <2> DEFINE o == w.outputs
    <2>2. /\ Front(o) \in Seq(SUBSET taken) /\ Len(Front(o)) = Len(o) - 1
          /\ \A i \in 1..(Len(o) - 1) : Front(o)[i] = o[i]
        BY <2>1, FrontFacts
    <2>3. Len(o) \in Nat /\ \A i \in 1..Len(Front(o)) : i \in 1..Len(o) /\ Front(o)[i] = o[i]
        BY <2>1, <2>2
    <2>4. todo = o \/ todo = Front(o)
        BY <1>5 DEF Kept
    <2> HIDE DEF o
    <2> QED BY <2>3, <2>4 DEF Copied, o
<1>7. Firsts(w, taken)
    BY <1>5
<1>8. ASSUME NEW a \in Copied(todo), NEW b \in Copied(todo), a.key = b.key
      PROVE  a = b
    <2>1. a \in taken /\ b \in taken
        BY <1>6, <1>7, <1>8
    <2>2. /\ a = b \/ Before(a, b)
          /\ b = a \/ Before(b, a)
        BY <1>6, <1>7, <1>8, <2>1
    <2>3. a \in Entry /\ b \in Entry
        BY <1>1, <2>1
    <2> QED BY <2>2, <2>3, BeforeFacts
<1>9. Copied(todo) \subseteq taken
    BY <1>6, <1>7
<1>10. ASSUME NEW x \in Copied(todo), NEW d \in taken, d.key = x.key PROVE d.seq <= x.seq
    <2>1. x \in Entry /\ d \in Entry
        BY <1>1, <1>9
    <2>2. d = x \/ Before(x, d)
        BY <1>6, <1>7, <1>10
    <2>3. x.seq \in Nat /\ d.seq \in Nat /\ x.key \in Nat
        BY <2>1, BeforeFacts
    <2> QED BY <1>10, <2>2, <2>3 DEF Before
<1> QED BY <1>8, <1>9, <1>10 DEF OneEach

LEMMA ApartFacts ==
    ASSUME NEW A, NEW B, KeysApart(A, B)
    PROVE  KeysApart(B, A) /\ \A C \in SUBSET A : \A D \in SUBSET B : KeysApart(C, D)
BY DEF KeysApart

LEMMA EntriesIn ==
    ASSUME NEW files
    PROVE  /\ \A f \in files : f.entries \subseteq EntriesOf(files)
           /\ \A e \in EntriesOf(files) : \E f \in files : e \in f.entries
           /\ \A more : EntriesOf(files \cup more) = EntriesOf(files) \cup EntriesOf(more)
           /\ \A some \in SUBSET files : EntriesOf(some) \subseteq EntriesOf(files)
BY DEF EntriesOf

\* A file that a range does not meet holds no key of it.
LEMMA MissedApart ==
    ASSUME NEW g, FileOK(g), NEW lo \in UserKey, NEW hi \in UserKey, ~Overlaps(g, lo, hi),
           NEW files, \A f \in files : FileOK(f) /\ lo <= f.smallest.key /\ f.largest.key <= hi
    PROVE  KeysApart(g.entries, EntriesOf(files))
<1> SUFFICES ASSUME NEW a \in g.entries, NEW f \in files, NEW b \in f.entries
             PROVE  a.key # b.key
    BY EntriesIn DEF KeysApart
<1>1. /\ a.key \in Nat /\ g.smallest.key <= a.key /\ a.key <= g.largest.key
      /\ g.smallest.key \in Nat /\ g.largest.key \in Nat
    BY FileEnds
<1>2. /\ b.key \in Nat /\ f.smallest.key <= b.key /\ b.key <= f.largest.key
      /\ f.smallest.key \in Nat /\ f.largest.key \in Nat
    BY FileEnds
<1>3. lo \in Nat /\ hi \in Nat
    BY Config
<1> QED BY <1>1, <1>2, <1>3 DEF Overlaps

\* A file that the range of some files leaves out holds no key of theirs, nor of the
\* files of its level that the range meets: level 0 widens it until it does.
LEMMA LeftOutApart ==
    ASSUME NEW v, VersionOK(v), Layered(v), NEW l \in Level,
           NEW lo \in UserKey, NEW hi \in UserKey, lo <= hi,
           NEW files, \A f \in files : FileOK(f) /\ lo <= f.smallest.key /\ f.largest.key <= hi,
           NEW over, over = GetOverlappingInputs(v, l, lo, hi), NEW g \in v[l] \ over
    PROVE  KeysApart(g.entries, EntriesOf(files \cup over))
<1> DEFINE w == IF l = 0 THEN Widened(v[0], lo, hi) ELSE <<lo, hi>>
<1>1. FileOK(g) /\ over \subseteq v[l] /\ \A f \in v[l] : FileOK(f)
    BY OverFacts, VersionFiles
<1>2. over = {f \in v[l] : Overlaps(f, w[1], w[2])}
    BY DEF GetOverlappingInputs
<1>3. /\ w[1] \in UserKey /\ w[2] \in UserKey /\ w[1] <= lo /\ hi <= w[2]
      /\ l = 0 => \A f \in over : w[1] <= f.smallest.key /\ f.largest.key <= w[2]
    <2>1. CASE l # 0
        <3>1. w[1] = lo /\ w[2] = hi
            BY <2>1
        <3>2. lo \in Nat /\ hi \in Nat
            BY Config
        <3> HIDE DEF w
        <3> QED BY <2>1, <3>1, <3>2
    <2>2. CASE l = 0
        <3>1. w \in Closed(v[0], lo, hi)
            BY <1>1, <2>2, WidenedFacts
        <3> HIDE DEF w
        <3> QED BY <1>2, <2>2, <3>1 DEF Closed
    <2> QED BY <2>1, <2>2
<1> HIDE DEF w
<1>4. ~Overlaps(g, w[1], w[2])
    BY <1>2
<1>5. \A f \in files : FileOK(f) /\ w[1] <= f.smallest.key /\ f.largest.key <= w[2]
    <2>1. \A f \in files : f.smallest.key \in Nat /\ f.largest.key \in Nat
        BY FileEnds
    <2>2. lo \in Nat /\ hi \in Nat /\ w[1] \in Nat /\ w[2] \in Nat
        BY <1>3, Config
    <2> QED BY <1>3, <2>1, <2>2
<1>6. KeysApart(g.entries, EntriesOf(files))
    BY <1>1, <1>3, <1>4, <1>5, MissedApart
<1>7. KeysApart(g.entries, EntriesOf(over))
    <2>1. CASE l # 0
        <3>1. \A f \in over : KeysApart(g.entries, f.entries)
            BY <1>1, <2>1 DEF Layered
        <3> QED BY <3>1, EntriesIn DEF KeysApart
    <2>2. CASE l = 0
        <3>1. \A f \in over : FileOK(f) /\ w[1] <= f.smallest.key /\ f.largest.key <= w[2]
            BY <1>1, <1>3, <2>2
        <3> QED BY <1>1, <1>3, <1>4, <3>1, MissedApart
    <2> QED BY <2>1, <2>2
<1> QED BY <1>6, <1>7, EntriesIn DEF KeysApart

LEMMA OverFilesApart ==
    ASSUME NEW v, VersionOK(v), Layered(v), NEW l \in Level,
           NEW files, files # {}, \A f \in files : FileOK(f),
           NEW g \in v[l] \ OverFiles(v, l, files)
    PROVE  KeysApart(g.entries, EntriesOf(files \cup OverFiles(v, l, files)))
<1> DEFINE lo == GetRange(files)[1]
           hi == GetRange(files)[2]
           over == OverFiles(v, l, files)
<1>1. /\ \A f \in files : FileOK(f) /\ lo <= f.smallest.key /\ f.largest.key <= hi
      /\ lo \in UserKey /\ hi \in UserKey /\ lo <= hi
    BY RangeFacts
<1>2. over = GetOverlappingInputs(v, l, lo, hi) /\ g \in v[l] \ over
    BY DEF OverFiles
<1> HIDE DEF lo, hi, over
<1>3. KeysApart(g.entries, EntriesOf(files \cup over))
    BY <1>1, <1>2, LeftOutApart
<1> QED BY <1>3 DEF over

\* What is left of a level shares no key with the files that SetupOtherInputs takes,
\* if it shared none with those it began with.
LEMMA SetupLeaves ==
    ASSUME NEW v, VersionOK(v), Layered(v), NEW level \in 0..(NumLevels - 2),
           NEW inputs, inputs # {}, inputs \subseteq v[level],
           \A g \in v[level] \ inputs : KeysApart(g.entries, EntriesOf(inputs)),
           NEW c, c = SetupOtherInputs(v, level, inputs)
    PROVE  RestOK(v, c)
<1> DEFINE next == OverFiles(v, level + 1, inputs)
           more == OverFiles(v, level, inputs \cup next)
           theirs == OverFiles(v, level + 1, more)
<1>0. level \in Level /\ level + 1 \in Level /\ level + 1 # 0
    BY LevelNumbers
<1>1. \A f \in inputs : FileOK(f)
    BY <1>0, VersionFiles
<1>2. next \subseteq v[level + 1] /\ \A f \in next : FileOK(f)
    <2>1. next \subseteq v[level + 1]
        BY <1>0, OverFacts DEF OverFiles
    <2> HIDE DEF next
    <2> QED BY <1>0, <2>1, VersionFiles
<1>3. more \subseteq v[level] /\ \A f \in more : FileOK(f)
    <2>1. more \subseteq v[level]
        <3> HIDE DEF next
        <3> QED BY <1>0, OverFacts DEF OverFiles
    <2> HIDE DEF more
    <2> QED BY <1>0, <2>1, VersionFiles
<1>4. inputs \subseteq more
    <2> DEFINE files == inputs \cup next
               lo == GetRange(files)[1]
               hi == GetRange(files)[2]
    <2>1. files # {} /\ \A f \in files : FileOK(f)
        <3> HIDE DEF next
        <3> QED BY <1>1, <1>2
    <2> HIDE DEF files
    <2>2. /\ \A f \in files : lo <= f.smallest.key /\ f.largest.key <= hi
          /\ lo \in UserKey /\ hi \in UserKey /\ lo <= hi
        BY <2>1, RangeFacts
    <2>3. more = GetOverlappingInputs(v, level, lo, hi)
        BY DEF OverFiles, files
    <2> HIDE DEF lo, hi, more, next
    <2>4. ASSUME NEW f \in inputs PROVE Overlaps(f, lo, hi)
        <3>1. f.smallest.key \in Nat /\ f.largest.key \in Nat /\ f.smallest.key <= f.largest.key
            BY <1>1, FileEnds
        <3>2. lo <= f.smallest.key /\ f.largest.key <= hi /\ lo \in Nat /\ hi \in Nat
            BY <2>2, Config DEF files
        <3> QED BY <3>1, <3>2 DEF Overlaps
    <2> QED BY <1>0, <2>2, <2>3, <2>4, OverFacts
<1> DEFINE grow == /\ next # {}
                   /\ Cardinality(more) > Cardinality(inputs)
                   /\ TotalFileSize(next) + TotalFileSize(more) < ExpandedLimit
                   /\ Cardinality(theirs) = Cardinality(next)
           grown == IF grow THEN more ELSE inputs
           below == IF grow THEN theirs ELSE next
           beyond == IF level + 2 < NumLevels THEN OverFiles(v, level + 2, grown \cup below)
                     ELSE {}
<1>5. /\ c.level = level
      /\ (c.mine = inputs /\ c.theirs = next) \/ (c.mine = more /\ c.theirs = theirs)
    <2>1. c = [level |-> level, mine |-> grown, theirs |-> below, base |-> v,
               grandparents |-> beyond]
        BY DEF SetupOtherInputs, OverFiles
    <2>2. (grown = inputs /\ below = next) \/ (grown = more /\ below = theirs)
        <3>1. grow => grown = more /\ below = theirs
            OBVIOUS
        <3>2. ~grow => grown = inputs /\ below = next
            OBVIOUS
        <3> HIDE DEF grow, grown, below, next, more, theirs
        <3> QED BY <3>1, <3>2
    <2> HIDE DEF grown, below, beyond
    <2> QED BY <2>1, <2>2
<1> HIDE DEF grow, grown, below, beyond
<1>6. \A g \in v[level] \ c.mine : KeysApart(g.entries, EntriesOf(c.mine))
    <2>1. CASE c.mine = inputs
        BY <2>1
    <2>2. CASE c.mine = more
        <3> DEFINE files == inputs \cup next
        <3>1. files # {} /\ \A f \in files : FileOK(f)
            <4> HIDE DEF next
            <4> QED BY <1>1, <1>2
        <3> HIDE DEF files
        <3>2. \A g \in v[level] \ OverFiles(v, level, files) :
                  KeysApart(g.entries, EntriesOf(files \cup OverFiles(v, level, files)))
            BY <1>0, <3>1, OverFilesApart
        <3>3. \A g \in v[level] \ more : KeysApart(g.entries, EntriesOf(files \cup more))
            BY <3>2 DEF files
        <3> HIDE DEF more
        <3> QED BY <2>2, <3>3, EntriesIn DEF KeysApart
    <2> QED BY <1>5, <2>1, <2>2
<1>7. \A g \in v[level + 1] \ c.theirs : KeysApart(g.entries, EntriesOf(c.mine \cup c.theirs))
    <2>1. c.theirs = OverFiles(v, level + 1, c.mine) /\ c.mine # {} /\ \A f \in c.mine : FileOK(f)
        <3>1. CASE c.mine = inputs /\ c.theirs = next
            BY <1>1, <3>1
        <3>2. CASE c.mine = more /\ c.theirs = theirs
            <4> HIDE DEF more
            <4> QED BY <1>3, <1>4, <3>2
        <3> QED BY <1>5, <3>1, <3>2
    <2> QED BY <1>0, <2>1, OverFilesApart
<1>8. OnTop(EntriesOf(v[level] \ c.mine), EntriesOf(c.mine))
    BY <1>6, EntriesIn DEF OnTop, KeysApart
<1> QED BY <1>5, <1>7, <1>8 DEF RestOK

LEMMA PickLeaves ==
    ASSUME NEW v, VersionOK(v), Layered(v), NEW level \in 0..(NumLevels - 2), NEW f \in v[level],
           NEW c, c = PickCompaction(v, level, f)
    PROVE  RestOK(v, c)
<1>0. level \in Level /\ 0 \in Level
    BY LevelNumbers
<1>1. FileOK(f)
    BY <1>0, VersionFiles
<1>2. /\ f.smallest.key \in UserKey /\ f.largest.key \in UserKey
      /\ f.smallest.key \in Nat /\ f.largest.key \in Nat /\ f.smallest.key <= f.largest.key
    BY <1>1, FileEnds
<1>4. CASE level # 0
    <2>1. c = SetupOtherInputs(v, level, {f})
        BY <1>4 DEF PickCompaction
    <2>2. \A g \in v[level] \ {f} : KeysApart(g.entries, EntriesOf({f}))
        <3>1. \A g \in v[level] \ {f} : KeysApart(g.entries, f.entries)
            BY <1>0, <1>4 DEF Layered
        <3> QED BY <3>1 DEF EntriesOf
    <2>3. {f} # {} /\ {f} \subseteq v[level]
        OBVIOUS
    <2> QED BY <2>1, <2>2, <2>3, SetupLeaves
<1>5. CASE level = 0
    <2> DEFINE over == GetOverlappingInputs(v, 0, f.smallest.key, f.largest.key)
    <2>1. over \subseteq v[0]
        BY <1>0, OverFacts
    <2>2. Overlaps(f, f.smallest.key, f.largest.key)
        BY <1>2 DEF Overlaps
    <2>3. f \in over
        BY <1>0, <1>2, <1>5, <2>2, OverFacts
    <2>4. \A g \in v[0] \ over : KeysApart(g.entries, EntriesOf(over))
        <3> DEFINE lo == f.smallest.key
                   hi == f.largest.key
        <3>1. \A h \in {} : FileOK(h) /\ lo <= h.smallest.key /\ h.largest.key <= hi
            OBVIOUS
        <3>2. \A g \in v[0] \ over : KeysApart(g.entries, EntriesOf({} \cup over))
            BY ONLY VersionOK(v), Layered(v), <1>0, <1>2, <3>1, LeftOutApart
        <3> QED BY <3>2
    <2> HIDE DEF over
    <2>5. c = SetupOtherInputs(v, level, over)
        BY <1>5 DEF PickCompaction, over
    <2>6. over # {} /\ over \subseteq v[level]
        BY <1>5, <2>1, <2>3
    <2> QED BY <1>5, <2>4, <2>5, <2>6, SetupLeaves
<1> QED BY <1>4, <1>5

LEMMA ContentsIn ==
    ASSUME NEW v, NEW l \in Level, NEW f \in v[l], NEW e \in f.entries
    PROVE  e \in Contents(v)
BY DEF Contents, EntriesOf, Files

\* Two files of a layered version with a key in common.
LEMMA LayeredFacts ==
    ASSUME NEW v, Layered(v), NEW l \in Level, NEW f \in v[l], NEW a \in f.entries,
           NEW m \in Level, NEW g \in v[m], NEW b \in g.entries, a.key = b.key
    PROVE  /\ l < m => a.seq >= b.seq
           /\ l = m /\ l # 0 => f = g
<1>1. a \in EntriesOf(v[l]) /\ b \in EntriesOf(v[m])
    BY EntriesIn
<1>2. l < m => OnTop(EntriesOf(v[l]), EntriesOf(v[m]))
    BY DEF Layered
<1>3. l = m /\ l # 0 /\ f # g => KeysApart(f.entries, g.entries)
    BY DEF Layered
<1> QED BY <1>1, <1>2, <1>3 DEF OnTop, KeysApart

\* Layered, file by file.
LEMMA LayeredBy ==
    ASSUME NEW v,
           \A l, m \in Level : \A f \in v[l], g \in v[m] : \A a \in f.entries, b \in g.entries :
               a.key = b.key => (l < m => a.seq >= b.seq) /\ (l = m /\ l # 0 => f = g)
    PROVE  Layered(v)
<1>1. ASSUME NEW l \in Level, NEW m \in Level, l < m
      PROVE  OnTop(EntriesOf(v[l]), EntriesOf(v[m]))
    <2> SUFFICES ASSUME NEW f \in v[l], NEW g \in v[m], NEW a \in f.entries, NEW b \in g.entries,
                        a.key = b.key
                 PROVE  a.seq >= b.seq
        BY EntriesIn DEF OnTop
    <2> QED BY <1>1
<1>2. ASSUME NEW l \in Level, l # 0, NEW f \in v[l], NEW g \in v[l], f # g
      PROVE  KeysApart(f.entries, g.entries)
    BY <1>2 DEF KeysApart
<1> QED BY <1>1, <1>2 DEF Layered

\* The outputs of a compaction take the place of its inputs.
LEMMA InstallLayered ==
    ASSUME NEW v, Layered(v), NEW c, c.level \in 0..(NumLevels - 2),
           c.mine \subseteq v[c.level], c.theirs \subseteq v[c.level + 1], RestOK(v, c),
           NEW outs, \A f \in outs : f.entries \subseteq EntriesOf(c.mine \cup c.theirs),
           \A f, g \in outs : f # g => KeysApart(f.entries, g.entries),
           NEW w, \A l \in Level : l # c.level + 1 => w[l] \subseteq v[l],
           w[c.level] \subseteq v[c.level] \ c.mine,
           w[c.level + 1] = (v[c.level + 1] \ c.theirs) \cup outs
    PROVE  Layered(w)
<1> DEFINE k == c.level + 1
           taken == EntriesOf(c.mine \cup c.theirs)
<1>1. k \in Level /\ k # 0 /\ k \in Nat /\ c.level \in Level /\ c.level \in Nat
      /\ \A l \in Level : l \in Nat
    BY LevelNumbers
<1>2. \A l \in Level : \A f \in w[l] : f \in v[l] \/ (l = k /\ f \in outs)
    OBVIOUS
<1>3. \A f \in outs : \A e \in f.entries :
          e \in taken /\ \/ \E h \in c.mine : e \in h.entries
                         \/ \E h \in v[k] : e \in h.entries
    <2> SUFFICES ASSUME NEW f \in outs, NEW e \in f.entries
                 PROVE  e \in taken /\ \E h \in c.mine \cup c.theirs : e \in h.entries
        OBVIOUS
    <2>1. e \in taken
        OBVIOUS
    <2> QED BY <2>1, EntriesIn
<1>4. \A g \in v[k] \ c.theirs : KeysApart(g.entries, taken)
    BY DEF RestOK
<1>5. \A f \in v[c.level] \ c.mine : \A a \in f.entries : \A h \in c.mine : \A b \in h.entries :
          a.key = b.key => a.seq >= b.seq
    BY EntriesIn DEF RestOK, OnTop
<1>6. ASSUME NEW l \in Level, NEW f \in w[l], NEW a \in f.entries,
             NEW m \in Level, NEW g \in w[m], NEW b \in g.entries, a.key = b.key, l < m
      PROVE  a.seq >= b.seq
    <2>1. CASE f \in v[l] /\ g \in v[m]
        BY <1>6, <2>1, LayeredFacts
    <2>2. CASE f \in v[l] /\ m = k /\ g \in outs
        <3>1. CASE \E h \in v[k] : b \in h.entries
            BY <1>6, <2>2, <3>1, LayeredFacts
        <3>2. CASE \E h \in c.mine : b \in h.entries
            <4>1. PICK h \in c.mine : b \in h.entries
                BY <3>2
            <4>2. l = c.level \/ l < c.level
                BY <1>1, <1>6, <2>2
            <4>3. CASE l = c.level
                <5>1. f \in v[c.level] \ c.mine
                    BY <4>3
                <5> QED BY <1>5, <1>6, <4>1, <5>1
            <4>4. CASE l < c.level
                BY <1>1, <1>6, <2>2, <4>1, <4>4, LayeredFacts
            <4> QED BY <4>2, <4>3, <4>4
        <3> QED BY <1>3, <2>2, <3>1, <3>2
    <2>3. CASE l = k /\ f \in outs
        <3>1. g \in v[m] /\ c.level < m
            BY <1>1, <1>2, <1>6, <2>3
        <3>2. PICK p \in Level, h \in Files(v) : h \in v[p] /\ a \in h.entries /\ p < m
            <4>1. CASE \E h \in v[k] : a \in h.entries
                BY <1>1, <1>6, <2>3, <4>1 DEF Files
            <4>2. CASE \E h \in c.mine : a \in h.entries
                BY <1>1, <3>1, <4>2 DEF Files
            <4> QED BY <1>3, <2>3, <4>1, <4>2
        <3> QED BY <1>6, <3>1, <3>2, LayeredFacts
    <2> QED BY <1>2, <2>1, <2>2, <2>3
<1>7. ASSUME NEW l \in Level, l # 0, NEW f \in w[l], NEW a \in f.entries,
             NEW g \in w[l], NEW b \in g.entries, a.key = b.key
      PROVE  f = g
    <2>1. CASE f \in v[l] /\ g \in v[l]
        BY <1>7, <2>1, LayeredFacts
    <2>2. CASE l = k
        <3>1. f \in (v[k] \ c.theirs) \cup outs /\ g \in (v[k] \ c.theirs) \cup outs
            BY <2>2
        <3>2. CASE f \in outs /\ g \in outs
            BY <1>7, <3>2 DEF KeysApart
        <3>3. CASE f \in v[k] \ c.theirs /\ g \in outs
            BY <1>3, <1>4, <1>7, <3>3 DEF KeysApart
        <3>4. CASE f \in outs /\ g \in v[k] \ c.theirs
            BY <1>3, <1>4, <1>7, <3>4 DEF KeysApart
        <3> QED BY <2>1, <2>2, <3>1, <3>2, <3>3, <3>4
    <2> QED BY <1>2, <2>1, <2>2
<1> HIDE DEF k, taken
<1> QED BY <1>6, <1>7, LayeredBy

\* Files with newer entries than all the others join level 0.
LEMMA ToppedLayered ==
    ASSUME NEW v, VersionOK(v), Layered(v), NEW files, EntriesOf(files) \subseteq Entry,
           After(EntriesOf(files), Contents(v)),
           NEW w, w = Joined(v, 0, files)
    PROVE  Layered(w)
<1>0. /\ \A m \in Level : \A g \in v[m] : \A b \in g.entries : b.seq \in Nat
      /\ \A f \in files : \A a \in f.entries : a.seq \in Nat
    <2>1. \A m \in Level : \A g \in v[m] : g.entries \subseteq Entry
        BY VersionFiles, FileEnds
    <2>2. \A f \in files : f.entries \subseteq Entry
        BY EntriesIn
    <2> QED BY <2>1, <2>2 DEF Entry
<1>1. \A l \in Level : l \in Nat /\ \A f \in w[l] : f \in v[l] \/ (l = 0 /\ f \in files)
    BY LevelNumbers DEF Joined
<1>2. \A f \in files : \A a \in f.entries : \A m \in Level : \A g \in v[m] : \A b \in g.entries :
          a.seq > b.seq
    BY EntriesIn, ContentsIn DEF After
<1>3. ASSUME NEW l \in Level, NEW f \in w[l], NEW a \in f.entries,
             NEW m \in Level, NEW g \in w[m], NEW b \in g.entries, a.key = b.key
      PROVE  (l < m => a.seq >= b.seq) /\ (l = m /\ l # 0 => f = g)
    <2>1. CASE f \in v[l] /\ g \in v[m]
        BY <1>3, <2>1, LayeredFacts
    <2>2. CASE ~(f \in v[l] /\ g \in v[m])
        <3>1. ASSUME l < m PROVE a.seq >= b.seq
            <4>1. g \in v[m] /\ f \in files
                BY <1>1, <2>2, <3>1
            <4>2. a.seq > b.seq
                BY <1>2, <4>1
            <4>3. a.seq \in Nat /\ b.seq \in Nat
                BY <1>0, <4>1
            <4> QED BY <4>2, <4>3
        <3> QED BY <1>1, <2>2, <3>1
    <2> QED BY <2>1, <2>2
<1> QED BY <1>3, LayeredBy

\* The table of a memtable joins its level, past files without its keys; what a
\* compaction leaves behind it still leaves.
LEMMA FlushLayered ==
    ASSUME NEW v, VersionOK(v), Layered(v), NEW es, Apart(es), es # {}, After(es, Contents(v)),
           NEW n \in Nat, NEW f, f = NewFile(n, es),
           NEW level, level = PickLevelForMemTableOutput(v, f.smallest.key, f.largest.key),
           NEW w, w = Joined(v, level, {f})
    PROVE  /\ Layered(w)
           /\ \A c : InputsOK(v, c) /\ RestOK(v, c) => RestOK(w, c)
<1> DEFINE lo == f.smallest.key
           hi == f.largest.key
<1>1. FileOK(f) /\ f.entries = es
    BY DEF FileOK, TableOK, NewFile
<1>2. lo \in UserKey /\ hi \in UserKey /\ lo \in Nat /\ hi \in Nat /\ lo <= hi
    BY <1>1, FileEnds
<1>3. level \in Level /\ level \in Nat /\ \A l \in Level : l \in Nat
    BY PickLevelFacts, LevelNumbers
<1>4. ASSUME level # 0, NEW m \in Level, m <= level, NEW g \in v[m]
      PROVE  KeysApart(g.entries, es) /\ KeysApart(es, g.entries)
    <2>1. m \in 0..level
        BY <1>3, <1>4
    <2>2. FileOK(g) /\ ~Overlaps(g, lo, hi)
        BY <1>4, <2>1, PickLevelFacts, VersionFiles DEF OverlapInLevel
    <2>3. \A h \in {f} : FileOK(h) /\ lo <= h.smallest.key /\ h.largest.key <= hi
        BY <1>1, <1>2
    <2>4. EntriesOf({f}) = es
        BY <1>1 DEF EntriesOf
    <2> HIDE DEF lo, hi
    <2>5. KeysApart(g.entries, EntriesOf({f}))
        BY ONLY <1>2, <2>2, <2>3, MissedApart
    <2> QED BY <2>4, <2>5, ApartFacts
<1> HIDE DEF lo, hi
<1>5. \A m \in Level : \A g \in v[m] : \A b \in g.entries : \A a \in es : a.seq >= b.seq
    <2> SUFFICES ASSUME NEW m \in Level, NEW g \in v[m], NEW b \in g.entries, NEW a \in es
                 PROVE  a.seq >= b.seq
        OBVIOUS
    <2>1. a.seq > b.seq
        BY EntriesIn, ContentsIn DEF After
    <2>2. a \in Entry /\ b \in Entry
        BY VersionFiles, FileEnds DEF Apart
    <2> QED BY <2>1, <2>2, BeforeFacts
<1>6. \A l \in Level : /\ \A g \in w[l] : g \in v[l] \/ (l = level /\ g = f)
                       /\ v[l] \subseteq w[l]
    BY DEF Joined
<1>7. ASSUME NEW l \in Level, NEW g \in w[l], NEW a \in g.entries,
             NEW m \in Level, NEW h \in w[m], NEW b \in h.entries, a.key = b.key
      PROVE  (l < m => a.seq >= b.seq) /\ (l = m /\ l # 0 => g = h)
    <2>1. CASE g \in v[l] /\ h \in v[m]
        BY <1>7, <2>1, LayeredFacts
    <2>2. CASE g \in v[l] /\ h = f /\ m = level
        <3>1. b \in es
            BY <1>1, <2>2
        <3>2. (l < m \/ (l = m /\ l # 0)) => level # 0 /\ l <= level
            BY <1>3, <2>2
        <3>3. (l < m \/ (l = m /\ l # 0)) => KeysApart(g.entries, es)
            BY <1>4, <2>2, <3>2
        <3> QED BY <1>7, <3>1, <3>3 DEF KeysApart
    <2>3. CASE g = f /\ l = level /\ h \in v[m]
        <3>1. a \in es
            BY <1>1, <2>3
        <3>2. a.seq >= b.seq
            BY <1>5, <2>3, <3>1
        <3>3. l = m /\ l # 0 => KeysApart(es, h.entries)
            BY <1>3, <1>4, <2>3
        <3> QED BY <1>7, <3>1, <3>2, <3>3 DEF KeysApart
    <2>4. CASE g = f /\ l = level /\ h = f /\ m = level
        BY <1>3, <2>4
    <2> QED BY <1>6, <2>1, <2>2, <2>3, <2>4
<1>8. ASSUME NEW c, InputsOK(v, c), RestOK(v, c) PROVE RestOK(w, c)
    <2> DEFINE k == c.level + 1
               files == c.mine \cup c.theirs
    <2>1. k \in Level /\ k # 0 /\ c.level \in Level /\ c.level <= k
          /\ c.mine \subseteq v[c.level] /\ c.theirs \subseteq v[k]
        BY <1>8, LevelNumbers DEF InputsOK
    <2>2. OnTop(EntriesOf(w[c.level] \ c.mine), EntriesOf(c.mine))
        <3> SUFFICES ASSUME NEW g \in w[c.level] \ c.mine, NEW a \in g.entries,
                            NEW h \in c.mine, NEW b \in h.entries, a.key = b.key
                     PROVE  a.seq >= b.seq
            BY EntriesIn DEF OnTop
        <3>1. CASE g \in v[c.level]
            <4>1. a \in EntriesOf(v[c.level] \ c.mine) /\ b \in EntriesOf(c.mine)
                BY <3>1, EntriesIn
            <4> QED BY <1>8, <4>1 DEF RestOK, OnTop
        <3>2. CASE g = f
            <4>1. a \in es /\ h \in v[c.level]
                BY <1>1, <2>1, <3>2
            <4> QED BY <1>5, <2>1, <4>1
        <3> QED BY <1>6, <2>1, <3>1, <3>2
    <2>3. ASSUME NEW g \in w[k] \ c.theirs PROVE KeysApart(g.entries, EntriesOf(files))
        <3>1. CASE g \in v[k]
            BY <1>8, <3>1 DEF RestOK
        <3>2. CASE g = f /\ level = k
            <4>1. ASSUME NEW h \in files PROVE KeysApart(es, h.entries)
                <5>1. (c.level <= level /\ h \in v[c.level]) \/ (k <= level /\ h \in v[k])
                    BY <1>3, <2>1, <3>2
                <5> QED BY <1>4, <2>1, <3>2, <5>1
            <4> HIDE DEF files
            <4> QED BY <1>1, <3>2, <4>1, EntriesIn DEF KeysApart
        <3> QED BY <1>6, <2>1, <3>1, <3>2
    <2> QED BY <2>2, <2>3 DEF RestOK
<1>9. \A l, m \in Level : \A g \in w[l], h \in w[m] : \A a \in g.entries, b \in h.entries :
          a.key = b.key => (l < m => a.seq >= b.seq) /\ (l = m /\ l # 0 => g = h)
    BY ONLY <1>7
<1>10. Layered(w)
    BY ONLY <1>9, LayeredBy
<1> QED BY <1>8, <1>10
=============================================================================

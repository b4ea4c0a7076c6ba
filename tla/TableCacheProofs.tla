-------------------------- MODULE TableCacheProofs --------------------------
(***************************************************************************)
(* No table is used after its file was closed, and none stays open for     *)
(* good: TablesAreKept of TableCache, for any number of threads, files,    *)
(* charges and any capacity.                                               *)
(*                                                                         *)
(* The invariant says of the cache that it is Sound: references are        *)
(* counted, the two lists and the hash table hold what they should, usage_ *)
(* is the sum of the charges.  Inside an operation an entry that is to go  *)
(* is out of the hash table already and on a list still: Sound names those *)
(* entries.  The lemmas follow the code, from the hash table over the      *)
(* references to the loops that erase one entry after the other.           *)
(***************************************************************************)
EXTENDS TableCache, NaturalOrder, SequenceTheorems

-----------------------------------------------------------------------------
(* Lists of different entries.                                               *)
\* A list of different entries, and what is on it.
IsListOf(s, S) == s \in Seq(EntryNumber) /\ IsInjective(s) /\ ToSet(s) = S

LEMMA RemoveFirstFacts ==
    ASSUME NEW T, NEW s \in Seq(T), IsInjective(s), NEW e
    PROVE  /\ RemoveFirst(s, e) \in Seq(T) /\ IsInjective(RemoveFirst(s, e))
           /\ ToSet(RemoveFirst(s, e)) = ToSet(s) \ {e}
<1>0. Len(s) \in Nat /\ DOMAIN s = 1..Len(s) /\ \A i \in 1..Len(s) : s[i] \in T
    OBVIOUS
<1>1. CASE ~\E i \in 1..Len(s) : s[i] = e
    <2>1. RemoveFirst(s, e) = s
        BY <1>1 DEF RemoveFirst
    <2>2. e \notin ToSet(s)
        BY <1>0, <1>1 DEF ToSet
    <2> QED BY <2>1, <2>2
<1>2. CASE \E i \in 1..Len(s) : s[i] = e
    <2> DEFINE I == {i \in 1..Len(s) : s[i] = e}
               k == SelectInSeq(s, LAMBDA v : v = e)
               a == SubSeq(s, 1, k - 1)
               b == SubSeq(s, k + 1, Len(s))
    <2>1. k \in I
        <3>1. I # {} /\ I \in SUBSET Nat
            BY <1>0, <1>2
        <3>2. \E x \in I : \A y \in I : x <= y
            <4> HIDE DEF I
            <4> QED BY <3>1, LeastNumber
        <3>3. k = Min(I)
            BY <3>1 DEF SelectInSeq
        <3>4. Min(I) \in I
            <4> HIDE DEF I
            <4> QED BY <3>2 DEF Min
        <3> QED BY <3>3, <3>4
    <2>2. RemoveFirst(s, e) = a \o b
        BY <1>2 DEF RemoveFirst, RemoveAt
    <2> HIDE DEF k
    <2>3. k \in 1..Len(s) /\ s[k] = e
        BY <2>1
    <2>4. /\ a \in Seq(T) /\ Len(a) = k - 1
          /\ \A i \in 1..(k - 1) : a[i] = s[i]
        <3>1. \A i \in 1..(k - 1) : s[i] \in T
            BY <1>0, <2>3
        <3>2. k - 1 \in Int
            BY <2>3
        <3>3. /\ a \in Seq(T)
              /\ Len(a) = IF 1 <= k - 1 THEN (k - 1) - 1 + 1 ELSE 0
              /\ \A i \in 1..((k - 1) - 1 + 1) : a[i] = s[1 + i - 1]
            BY <3>1, <3>2, SubSeqProperties
        <3> HIDE DEF a
        <3> QED BY <2>3, <3>3
    <2>5. /\ b \in Seq(T) /\ Len(b) = Len(s) - k
          /\ \A i \in 1..(Len(s) - k) : b[i] = s[k + i]
        <3>1. \A i \in (k + 1)..Len(s) : s[i] \in T
            BY <1>0, <2>3
        <3>2. k + 1 \in Int /\ Len(s) \in Int
            BY <1>0, <2>3
        <3>3. /\ b \in Seq(T)
              /\ Len(b) = IF k + 1 <= Len(s) THEN Len(s) - (k + 1) + 1 ELSE 0
              /\ \A i \in 1..(Len(s) - (k + 1) + 1) : b[i] = s[(k + 1) + i - 1]
            BY <3>1, <3>2, SubSeqProperties
        <3> HIDE DEF b
        <3>4. Len(b) = Len(s) - k
            <4>1. Len(b) = IF k + 1 <= Len(s) THEN Len(s) - (k + 1) + 1 ELSE 0
                BY <3>3
            <4>2. k \in Int /\ Len(s) \in Int /\ k <= Len(s)
                BY <1>0, <2>3
            <4> HIDE DEF I
            <4> QED BY <4>1, <4>2
        <3>5. ASSUME NEW i \in 1..(Len(s) - k) PROVE b[i] = s[k + i]
            <4>1. i \in 1..(Len(s) - (k + 1) + 1) /\ (k + 1) + i - 1 = k + i
                BY <1>0, <2>3
            <4> QED BY <3>3, <4>1
        <3> QED BY <3>3, <3>4, <3>5
    <2> DEFINE r == a \o b
    <2> HIDE DEF a, b
    <2>6. /\ r \in Seq(T) /\ Len(r) = Len(s) - 1
          /\ \A i \in 1..(Len(s) - 1) : r[i] = IF i < k THEN s[i] ELSE s[i + 1]
        <3>1. /\ r \in Seq(T) /\ Len(r) = Len(a) + Len(b)
              /\ \A i \in 1..(Len(a) + Len(b)) :
                     r[i] = IF i <= Len(a) THEN a[i] ELSE b[i - Len(a)]
            BY <2>4, <2>5, ConcatProperties
        <3>2. ASSUME NEW i \in 1..(Len(s) - 1) PROVE r[i] = IF i < k THEN s[i] ELSE s[i + 1]
            <4>1. r[i] = IF i <= k - 1 THEN a[i] ELSE b[i - (k - 1)]
                BY <1>0, <2>3, <2>4, <2>5, <3>1
            <4>2. CASE i < k
                BY <1>0, <2>3, <2>4, <4>1, <4>2
            <4>3. CASE ~(i < k)
                <5>1. i - (k - 1) \in 1..(Len(s) - k) /\ k + (i - (k - 1)) = i + 1
                    BY <1>0, <2>3, <4>3
                <5> QED BY <1>0, <2>3, <2>5, <4>1, <4>3, <5>1
            <4> QED BY <4>2, <4>3
        <3> HIDE DEF r
        <3> QED BY <1>0, <2>3, <2>4, <2>5, <3>1, <3>2
    <2> HIDE DEF r
    <2>7. IsInjective(r)
        <3> SUFFICES ASSUME NEW i \in DOMAIN r, NEW j \in DOMAIN r, r[i] = r[j] PROVE i = j
            BY DEF IsInjective
        <3>1. i \in 1..(Len(s) - 1) /\ j \in 1..(Len(s) - 1)
            BY <2>6
        <3> DEFINE At(m) == IF m < k THEN m ELSE m + 1
        <3>2. At(i) \in 1..Len(s) /\ At(j) \in 1..Len(s) /\ r[i] = s[At(i)] /\ r[j] = s[At(j)]
            BY <1>0, <2>3, <2>6, <3>1
        <3>3. At(i) = At(j)
            <4> HIDE DEF At
            <4> QED BY <1>0, <3>2 DEF IsInjective
        <3> QED BY <1>0, <2>3, <3>1, <3>3
    <2>8. ToSet(r) = ToSet(s) \ {e}
        <3>1. ASSUME NEW x \in ToSet(r) PROVE x \in ToSet(s) \ {e}
            <4>1. PICK i \in 1..(Len(s) - 1) : x = r[i]
                BY <2>6 DEF ToSet
            <4> DEFINE m == IF i < k THEN i ELSE i + 1
            <4>2. m \in 1..Len(s) /\ m # k /\ x = s[m]
                BY <1>0, <2>3, <2>6, <4>1
            <4> HIDE DEF m
            <4>3. s[m] # s[k]
                BY <1>0, <2>3, <4>2 DEF IsInjective
            <4> QED BY <1>0, <2>3, <4>2, <4>3 DEF ToSet
        <3>2. ASSUME NEW x \in ToSet(s) \ {e} PROVE x \in ToSet(r)
            <4>1. PICK m \in 1..Len(s) : x = s[m]
                BY <1>0 DEF ToSet
            <4>2. m # k
                BY <2>3, <3>2, <4>1
            <4> DEFINE i == IF m < k THEN m ELSE m - 1
            <4>3. i \in 1..(Len(s) - 1) /\ r[i] = s[m]
                BY <1>0, <2>3, <2>6, <4>1, <4>2
            <4> HIDE DEF i
            <4>4. i \in DOMAIN r
                BY <1>0, <2>6, <4>3
            <4> QED BY <4>1, <4>3, <4>4 DEF ToSet
        <3> QED BY <3>1, <3>2
    <2> QED BY <2>2, <2>6, <2>7, <2>8 DEF r
<1> QED BY <1>1, <1>2

LEMMA AppendFacts ==
    ASSUME NEW T, NEW s \in Seq(T), IsInjective(s), NEW e \in T, e \notin ToSet(s)
    PROVE  /\ Append(s, e) \in Seq(T) /\ IsInjective(Append(s, e))
           /\ ToSet(Append(s, e)) = ToSet(s) \cup {e}
<1> DEFINE r == Append(s, e)
<1>0. Len(s) \in Nat /\ DOMAIN s = 1..Len(s) /\ \A i \in 1..Len(s) : s[i] # e
    BY DEF ToSet
<1>1. /\ r \in Seq(T) /\ Len(r) = Len(s) + 1 /\ DOMAIN r = 1..(Len(s) + 1)
      /\ \A i \in 1..Len(s) : r[i] = s[i]
      /\ r[Len(s) + 1] = e
    OBVIOUS
<1> HIDE DEF r
<1>2. IsInjective(r)
    <2> SUFFICES ASSUME NEW i \in 1..(Len(s) + 1), NEW j \in 1..(Len(s) + 1), r[i] = r[j]
                 PROVE  i = j
        BY <1>1 DEF IsInjective
    <2>1. CASE i \in 1..Len(s) /\ j \in 1..Len(s)
        BY <1>0, <1>1, <2>1 DEF IsInjective
    <2>2. (i \in 1..Len(s) \/ i = Len(s) + 1) /\ (j \in 1..Len(s) \/ j = Len(s) + 1)
        BY <1>0
    <2> QED BY <1>0, <1>1, <2>1, <2>2
<1>3. ToSet(r) = ToSet(s) \cup {e}
    <2>1. \A i \in 1..(Len(s) + 1) : i \in 1..Len(s) \/ i = Len(s) + 1
        BY <1>0
    <2>2. \A i \in 1..Len(s) : i \in 1..(Len(s) + 1)
        BY <1>0
    <2>3. Len(s) + 1 \in 1..(Len(s) + 1)
        BY <1>0
    <2> QED BY <1>0, <1>1, <2>1, <2>2, <2>3 DEF ToSet
<1> QED BY <1>1, <1>2, <1>3 DEF r

-----------------------------------------------------------------------------
(* What is true of a cache between two operations.                           *)
\* The states a cache can be in: what is allocated, who is counted, what the
\* lists and the hash table hold.
EntryRecord == [key : FileNumber, charge : Nat, refs : Nat, inCache : BOOLEAN]
EntryMap == UNION {[D -> EntryRecord] : D \in SUBSET EntryNumber}
BucketList == UNION {[0..(n - 1) -> SUBSET EntryNumber] : n \in Nat \ {0}}
CacheState == [entry : EntryMap, lru : Seq(EntryNumber), inUse : Seq(EntryNumber),
               usage : Int, list : BucketList]

InCacheOf(c) == {e \in DOMAIN c.entry : c.entry[e].inCache}
UsageOf(c) == SumOn([e \in InCacheOf(c) |-> c.entry[e].charge], InCacheOf(c))

Counted(c, holds) ==
    /\ \A e \in DOMAIN c.entry :
         /\ c.entry[e].refs = holds[e] + (IF c.entry[e].inCache THEN 1 ELSE 0)
         /\ c.entry[e].refs > 0
    /\ \A e \in EntryNumber : holds[e] > 0 => e \in DOMAIN c.entry
Listed(c) ==
    /\ IsListOf(c.lru, {e \in InCacheOf(c) : c.entry[e].refs = 1})
    /\ IsListOf(c.inUse, {e \in InCacheOf(c) : c.entry[e].refs > 1})
Hashed(c, S) ==
    /\ Elems(c) = S /\ S \subseteq DOMAIN c.entry
    /\ \A b \in DOMAIN c.list : \A e \in c.list[b] : b = Bucket(c, c.entry[e].key)
    /\ \A e, d \in S : c.entry[e].key = c.entry[d].key => e = d

\* All of it, with the entries of out not in the hash table.
Sound(c, holds, out) ==
    /\ c \in CacheState /\ Counted(c, holds) /\ Listed(c)
    /\ Hashed(c, InCacheOf(c) \ out) /\ c.usage = UsageOf(c)

\* No entry appears or changes its key.
Keeps(c, d) ==
    /\ DOMAIN d.entry \subseteq DOMAIN c.entry
    /\ \A e \in DOMAIN d.entry : d.entry[e].key = c.entry[e].key

LEMMA EntryMapFacts ==
    ASSUME NEW m
    PROVE  m \in EntryMap <=>
             /\ m = [e \in DOMAIN m |-> m[e]] /\ DOMAIN m \subseteq EntryNumber
             /\ \A e \in DOMAIN m : m[e] \in EntryRecord
<1>1. ASSUME m \in EntryMap
      PROVE  /\ m = [e \in DOMAIN m |-> m[e]] /\ DOMAIN m \subseteq EntryNumber
             /\ \A e \in DOMAIN m : m[e] \in EntryRecord
    <2>1. PICK D \in SUBSET EntryNumber : m \in [D -> EntryRecord]
        BY <1>1 DEF EntryMap
    <2> QED BY <2>1
<1>2. ASSUME m = [e \in DOMAIN m |-> m[e]], DOMAIN m \subseteq EntryNumber,
             \A e \in DOMAIN m : m[e] \in EntryRecord
      PROVE  m \in EntryMap
    <2>1. m \in [DOMAIN m -> EntryRecord] /\ DOMAIN m \in SUBSET EntryNumber
        BY <1>2
    <2> QED BY <2>1 DEF EntryMap
<1> QED BY <1>1, <1>2

LEMMA BucketListFacts ==
    ASSUME NEW l \in BucketList
    PROVE  /\ Cardinality(DOMAIN l) \in Nat \ {0}
           /\ DOMAIN l = 0..(Cardinality(DOMAIN l) - 1)
           /\ l = [b \in DOMAIN l |-> l[b]]
           /\ \A b \in DOMAIN l : l[b] \in SUBSET EntryNumber
<1>1. PICK n \in Nat \ {0} : l \in [0..(n - 1) -> SUBSET EntryNumber]
    BY DEF BucketList
<1>2. Cardinality(0..(n - 1)) = n
    <2>1. 0 \in Int /\ n - 1 \in Int
        BY <1>1
    <2> QED BY <1>1, <2>1, FS_Interval
<1> QED BY <1>1, <1>2

\* A hash table without one entry, or with one more in a bucket.
LEMMA BucketListExcept ==
    ASSUME NEW l \in BucketList, NEW b \in DOMAIN l, NEW S \in SUBSET EntryNumber
    PROVE  /\ [l EXCEPT ![b] = S] \in BucketList
           /\ DOMAIN [l EXCEPT ![b] = S] = DOMAIN l
<1>1. PICK n \in Nat \ {0} : l \in [0..(n - 1) -> SUBSET EntryNumber]
    BY DEF BucketList
<1> QED BY <1>1 DEF BucketList

LEMMA EntriesFinite ==
    /\ Cardinality(FileNumber) \in Nat /\ Cardinality(CacheThread) \in Nat
    /\ IsFiniteSet(EntryNumber) /\ EntryNumber \subseteq Nat \ {0} /\ NoHandle \notin EntryNumber
    /\ FileNumber \subseteq Nat
<1>1. Cardinality(FileNumber) \in Nat /\ Cardinality(CacheThread) \in Nat
    BY CacheBounds, FS_CardinalityType
<1>2. IsFiniteSet(1..(Cardinality(FileNumber) + Cardinality(CacheThread)))
    <2>1. 1 \in Int /\ Cardinality(FileNumber) + Cardinality(CacheThread) \in Int
        BY <1>1
    <2> QED BY <2>1, FS_Interval
<1> QED BY <1>1, <1>2, CacheBounds DEF EntryNumber

LEMMA CacheFields ==
    ASSUME NEW c \in CacheState
    PROVE  /\ c.entry \in EntryMap /\ c.lru \in Seq(EntryNumber) /\ c.inUse \in Seq(EntryNumber)
           /\ c.usage \in Int /\ c.list \in BucketList
           /\ DOMAIN c.entry \subseteq EntryNumber
           /\ \A e \in DOMAIN c.entry : c.entry[e] \in EntryRecord
           /\ \A key \in FileNumber : Bucket(c, key) \in DOMAIN c.list
<1>1. /\ c.entry \in EntryMap /\ c.lru \in Seq(EntryNumber) /\ c.inUse \in Seq(EntryNumber)
      /\ c.usage \in Int /\ c.list \in BucketList
    BY DEF CacheState
<1>2. DOMAIN c.entry \subseteq EntryNumber /\ \A e \in DOMAIN c.entry : c.entry[e] \in EntryRecord
    BY <1>1, EntryMapFacts
<1>3. ASSUME NEW key \in FileNumber PROVE Bucket(c, key) \in DOMAIN c.list
    <2> DEFINE n == Cardinality(DOMAIN c.list)
    <2>1. n \in Nat \ {0} /\ DOMAIN c.list = 0..(n - 1)
        BY <1>1, BucketListFacts
    <2>2. key \in Nat
        BY EntriesFinite
    <2> HIDE DEF n
    <2>3. key % n \in 0..(n - 1)
        BY <2>1, <2>2
    <2> QED BY <2>1, <2>3 DEF Bucket, n
<1> QED BY <1>1, <1>2, <1>3

LEMMA InCacheFinite ==
    ASSUME NEW c \in CacheState
    PROVE  IsFiniteSet(InCacheOf(c)) /\ InCacheOf(c) \subseteq EntryNumber
<1>1. InCacheOf(c) \subseteq EntryNumber
    BY CacheFields DEF InCacheOf
<1> QED BY <1>1, EntriesFinite, FS_Subset

-----------------------------------------------------------------------------
(* HandleTable.                                                              *)
LEMMA LookupFacts ==
    ASSUME NEW c \in CacheState, NEW S, Hashed(c, S), NEW key \in FileNumber
    PROVE  /\ LookupHandle(c, key) # NoHandle =>
                /\ LookupHandle(c, key) \in S
                /\ c.entry[LookupHandle(c, key)].key = key
                /\ LookupHandle(c, key) \in c.list[Bucket(c, key)]
           /\ \A e \in S : c.entry[e].key = key => e = LookupHandle(c, key)
           /\ NoHandle \notin S
<1> DEFINE found == {e \in c.list[Bucket(c, key)] : c.entry[e].key = key}
<1>1. found \subseteq S
    BY CacheFields DEF Hashed, Elems
<1>2. NoHandle \notin S
    BY CacheFields, EntriesFinite DEF Hashed
<1>3. ASSUME NEW e \in S, c.entry[e].key = key PROVE e \in found
    <2>1. PICK b \in DOMAIN c.list : e \in c.list[b]
        BY DEF Hashed, Elems
    <2>2. b = Bucket(c, key)
        BY <1>3, <2>1 DEF Hashed
    <2> QED BY <1>3, <2>1, <2>2
<1>4. LookupHandle(c, key) = IF found = {} THEN NoHandle ELSE CHOOSE e \in found : TRUE
    BY DEF LookupHandle
<1>5. LookupHandle(c, key) # NoHandle => LookupHandle(c, key) \in found
    <2> HIDE DEF found
    <2>1. found # {} => (CHOOSE e \in found : TRUE) \in found
        OBVIOUS
    <2> QED BY <1>4, <2>1
<1>6. ASSUME NEW e \in S, c.entry[e].key = key PROVE e = LookupHandle(c, key)
    <2>1. e \in found
        BY <1>3, <1>6
    <2>2. LookupHandle(c, key) \in found
        <3> HIDE DEF found
        <3> QED BY <1>1, <1>2, <1>4, <2>1
    <2> QED BY <1>1, <1>6, <2>1, <2>2 DEF Hashed
<1> QED BY <1>1, <1>2, <1>5, <1>6

LEMMA RemoveHandleFacts ==
    ASSUME NEW c \in CacheState, NEW S, Hashed(c, S), NEW key \in FileNumber
    PROVE  LET d == RemoveHandle(c, key)
           IN  /\ d \in CacheState /\ Hashed(d, S \ {LookupHandle(c, key)})
               /\ d.entry = c.entry /\ d.lru = c.lru /\ d.inUse = c.inUse /\ d.usage = c.usage
<1> DEFINE h == LookupHandle(c, key)
           k == Bucket(c, key)
           l == [c.list EXCEPT ![k] = c.list[k] \ {h}]
           d == RemoveHandle(c, key)
<1>0. k \in DOMAIN c.list /\ c.list \in BucketList
    BY CacheFields
<1>1. d = [c EXCEPT !.list = l]
    BY <1>0 DEF RemoveHandle, CacheState
<1>2. l \in BucketList /\ DOMAIN l = DOMAIN c.list
    <2>1. c.list[k] \ {h} \in SUBSET EntryNumber
        BY <1>0, BucketListFacts
    <2> QED BY <1>0, <2>1, BucketListExcept
<1>3. l[k] = c.list[k] \ {h} /\ \A b \in DOMAIN c.list : b # k => l[b] = c.list[b]
    BY <1>0, BucketListFacts
<1> HIDE DEF l, d
<1>4. d \in CacheState /\ d.list = l
      /\ d.entry = c.entry /\ d.lru = c.lru /\ d.inUse = c.inUse /\ d.usage = c.usage
    BY <1>1, <1>2 DEF CacheState
<1>5. \A x : Bucket(d, x) = Bucket(c, x)
    BY <1>2, <1>4 DEF Bucket
<1>6. ASSUME NEW b \in DOMAIN c.list PROVE l[b] = c.list[b] \ {h}
    <2>1. CASE b = k
        BY <1>3, <2>1
    <2>2. CASE b # k
        <3>1. h \notin c.list[b]
            <4> SUFFICES ASSUME h \in c.list[b] PROVE FALSE
                OBVIOUS
            <4>1. h \in S
                BY DEF Hashed, Elems
            <4>2. h # NoHandle
                BY <4>1, LookupFacts
            <4>3. c.entry[h].key = key
                BY <4>2, LookupFacts
            <4> QED BY <2>2, <4>3 DEF Hashed
        <3> QED BY <1>3, <2>2, <3>1
    <2> QED BY <2>1, <2>2
<1> HIDE DEF k
<1>7. Elems(d) = S \ {h}
    <2>1. Elems(c) = S
        BY DEF Hashed
    <2> QED BY <1>2, <1>4, <1>6, <2>1 DEF Elems
<1>8. Hashed(d, S \ {h})
    <2> HIDE DEF h
    <2>1. S \ {h} \subseteq DOMAIN d.entry
        BY <1>4 DEF Hashed
    <2>2. ASSUME NEW b \in DOMAIN d.list, NEW e \in d.list[b]
          PROVE  b = Bucket(d, d.entry[e].key)
        <3>1. b \in DOMAIN c.list /\ e \in c.list[b]
            BY <1>2, <1>4, <1>6, <2>2
        <3>2. b = Bucket(c, c.entry[e].key)
            BY <3>1 DEF Hashed
        <3> QED BY <1>4, <1>5, <3>2
    <2>3. \A e, x \in S \ {h} : d.entry[e].key = d.entry[x].key => e = x
        BY <1>4 DEF Hashed
    <2> QED BY <1>7, <2>1, <2>2, <2>3 DEF Hashed
<1> QED BY <1>4, <1>8 DEF d, h

-----------------------------------------------------------------------------
(* References and the two lists: what an operation does to the fields.       *)
LEMMA ListWithout ==
    ASSUME NEW s, NEW S, IsListOf(s, S), NEW e
    PROVE  IsListOf(RemoveFirst(s, e), S \ {e})
BY RemoveFirstFacts DEF IsListOf

LEMMA ListWith ==
    ASSUME NEW s, NEW S, IsListOf(s, S), NEW e \in EntryNumber, e \notin S
    PROVE  IsListOf(Append(s, e), S \cup {e})
BY AppendFacts DEF IsListOf

LEMMA UsageSame ==
    ASSUME NEW c \in CacheState, NEW d \in CacheState, InCacheOf(d) = InCacheOf(c),
           \A e \in InCacheOf(c) : d.entry[e].charge = c.entry[e].charge
    PROVE  UsageOf(d) = UsageOf(c)
<1> DEFINE S == InCacheOf(c)
           v == [e \in S |-> c.entry[e].charge]
           w == [e \in InCacheOf(d) |-> d.entry[e].charge]
<1>1. IsFiniteSet(S)
    BY InCacheFinite
<1>2. \A e \in S : c.entry[e].charge \in Nat
    BY CacheFields DEF InCacheOf, EntryRecord
<1>3. \A e \in S : v[e] \in Nat /\ w[e] = v[e]
    BY <1>2
<1>4. SumOn(v, S) = SumOn(w, S)
    <2> HIDE DEF S, v, w
    <2> QED BY <1>1, <1>3, SumOnSame
<1> QED BY <1>4 DEF UsageOf

LEMMA UsageLess ==
    ASSUME NEW c \in CacheState, NEW d \in CacheState, NEW e \in InCacheOf(c),
           InCacheOf(d) = InCacheOf(c) \ {e},
           \A x \in InCacheOf(d) : d.entry[x].charge = c.entry[x].charge
    PROVE  UsageOf(c) = c.entry[e].charge + UsageOf(d)
<1> DEFINE S == InCacheOf(c)
           v == [x \in S |-> c.entry[x].charge]
           w == [x \in InCacheOf(d) |-> d.entry[x].charge]
<1>1. IsFiniteSet(S)
    BY InCacheFinite
<1>2. \A x \in S : c.entry[x].charge \in Nat
    BY CacheFields DEF InCacheOf, EntryRecord
<1>3. /\ \A x \in S : v[x] \in Nat
      /\ \A x \in S \ {e} : w[x] = v[x]
      /\ v[e] = c.entry[e].charge
    BY <1>2
<1>4. SumOn(v, S) = v[e] + SumOn(w, S \ {e})
    <2> HIDE DEF v, w
    <2> QED BY <1>1, <1>3, SumOnLess
<1> QED BY <1>3, <1>4 DEF UsageOf

LEMMA UsageType ==
    ASSUME NEW c \in CacheState
    PROVE  UsageOf(c) \in Nat
<1> DEFINE S == InCacheOf(c)
           v == [e \in S |-> c.entry[e].charge]
<1>1. IsFiniteSet(S)
    BY InCacheFinite
<1>2. \A e \in S : c.entry[e].charge \in Nat
    BY CacheFields DEF InCacheOf, EntryRecord
<1>3. \A e \in S : v[e] \in Nat
    BY <1>2
<1>4. SumOn(v, S) \in Nat
    <2> HIDE DEF S, v
    <2> QED BY <1>1, <1>3, SumOnType
<1> QED BY <1>4 DEF UsageOf

\* All entries but e are what they were.
SameBut(c, d, e) ==
    /\ DOMAIN d.entry \ {e} = DOMAIN c.entry \ {e}
    /\ \A x \in DOMAIN c.entry \ {e} : d.entry[x] = c.entry[x]

LEMMA EntryExcept ==
    ASSUME NEW m \in EntryMap, NEW e \in DOMAIN m, NEW r \in EntryRecord
    PROVE  LET n == [m EXCEPT ![e] = r]
           IN  /\ n \in EntryMap /\ DOMAIN n = DOMAIN m /\ n[e] = r
               /\ \A x \in DOMAIN m \ {e} : n[x] = m[x]
<1>1. PICK D \in SUBSET EntryNumber : m \in [D -> EntryRecord]
    BY DEF EntryMap
<1>2. [m EXCEPT ![e] = r] \in [D -> EntryRecord]
    BY <1>1
<1>3. [m EXCEPT ![e] = r] \in EntryMap
    BY <1>2 DEF EntryMap
<1> QED BY <1>1, <1>3

LEMMA UnrefFields ==
    ASSUME NEW c \in CacheState, NEW e \in DOMAIN c.entry, c.entry[e].refs > 0,
           IsInjective(c.lru), IsInjective(c.inUse)
    PROVE  LET d == Unref(c, e)
               r == c.entry[e].refs - 1
               moves == r = 1 /\ c.entry[e].inCache
           IN  /\ d \in CacheState /\ d.usage = c.usage /\ d.list = c.list /\ SameBut(c, d, e)
               /\ r = 0 => e \notin DOMAIN d.entry
               /\ r # 0 => /\ e \in DOMAIN d.entry
                           /\ d.entry[e] = [c.entry[e] EXCEPT !.refs = r]
               /\ d.lru = IF moves THEN Append(RemoveFirst(c.lru, e), e) ELSE c.lru
               /\ d.inUse = IF moves THEN RemoveFirst(c.inUse, e) ELSE c.inUse
<1> DEFINE r == c.entry[e].refs - 1
           moves == r = 1 /\ c.entry[e].inCache
           fewer == [c.entry EXCEPT ![e] = [c.entry[e] EXCEPT !.refs = r]]
           without == [x \in DOMAIN c.entry \ {e} |-> c.entry[x]]
           less == [c EXCEPT !.entry = fewer]
           d == Unref(c, e)
<1>0. /\ c.entry \in EntryMap /\ c.lru \in Seq(EntryNumber) /\ c.inUse \in Seq(EntryNumber)
      /\ e \in EntryNumber /\ c.entry[e] \in EntryRecord
    BY CacheFields
<1>1. r \in Nat
    BY <1>0 DEF EntryRecord
<1>2. /\ fewer \in EntryMap /\ DOMAIN fewer = DOMAIN c.entry
      /\ fewer[e] = [c.entry[e] EXCEPT !.refs = r]
      /\ \A x \in DOMAIN c.entry \ {e} : fewer[x] = c.entry[x]
    <2>1. [c.entry[e] EXCEPT !.refs = r] \in EntryRecord
        BY <1>0, <1>1 DEF EntryRecord
    <2> QED BY <1>0, <2>1, EntryExcept
<1>3. without \in EntryMap /\ DOMAIN without = DOMAIN c.entry \ {e}
      /\ \A x \in DOMAIN c.entry \ {e} : without[x] = c.entry[x]
    <2>1. DOMAIN without \subseteq EntryNumber /\ \A x \in DOMAIN without : without[x] \in EntryRecord
        BY CacheFields
    <2>2. without = [x \in DOMAIN without |-> without[x]]
        OBVIOUS
    <2> HIDE DEF without
    <2>3. without \in EntryMap
        BY <2>1, <2>2, EntryMapFacts
    <2> QED BY <2>3 DEF without
<1>4. fewer[e].refs = r /\ fewer[e].inCache = c.entry[e].inCache
    BY <1>0, <1>2 DEF EntryRecord
<1>5. [c EXCEPT !.entry[e].refs = @ - 1] = less
    BY <1>0 DEF CacheState, EntryRecord
<1>6. /\ less \in CacheState /\ less.entry = fewer /\ less.lru = c.lru /\ less.inUse = c.inUse
      /\ less.usage = c.usage /\ less.list = c.list
    <2> HIDE DEF fewer
    <2> QED BY <1>2 DEF CacheState
<1> HIDE DEF less
<1>7. d = CASE less.entry[e].refs = 0 ->
                [less EXCEPT !.entry = [x \in DOMAIN less.entry \ {e} |-> less.entry[x]]]
            [] less.entry[e].refs = 1 /\ less.entry[e].inCache ->
                [LRURemove(less, e) EXCEPT !.lru = Append(LRURemove(less, e).lru, e)]
            [] OTHER -> less
    <2>1. [less EXCEPT !.entry = [x \in DOMAIN @ \ {e} |-> @[x]]]
            = [less EXCEPT !.entry = [x \in DOMAIN less.entry \ {e} |-> less.entry[x]]]
        BY <1>6 DEF CacheState
    <2>2. [LRURemove(less, e) EXCEPT !.lru = Append(@, e)]
            = [LRURemove(less, e) EXCEPT !.lru = Append(LRURemove(less, e).lru, e)]
        BY <1>6 DEF CacheState, LRURemove
    <2> HIDE DEF fewer, without, moves, r
    <2> QED BY <1>5, <2>1, <2>2 DEF Unref
<1>8. [x \in DOMAIN less.entry \ {e} |-> less.entry[x]] = without
    BY <1>2, <1>6
<1> HIDE DEF fewer, without
<1>9. CASE r = 0
    <2>1. d = [less EXCEPT !.entry = without]
        <3> HIDE DEF d, r
        <3> QED BY <1>4, <1>6, <1>7, <1>8, <1>9
    <2>2. /\ d \in CacheState /\ d.entry = without /\ d.usage = c.usage /\ d.list = c.list
          /\ d.lru = c.lru /\ d.inUse = c.inUse
        <3> HIDE DEF d, r
        <3> QED BY <1>3, <1>6, <2>1 DEF CacheState
    <2>3. ~moves
        BY <1>9
    <2> HIDE DEF d, r, moves
    <2> QED BY <1>3, <1>9, <2>2, <2>3 DEF SameBut, d, r, moves
<1>10. CASE r # 0 /\ ~moves
    <2>1. d = less
        <3> HIDE DEF d
        <3> QED BY <1>1, <1>4, <1>6, <1>7, <1>10
    <2> HIDE DEF d, r, moves
    <2> QED BY <1>2, <1>6, <1>10, <2>1 DEF SameBut, d, r, moves
<1>11. CASE moves
    <2> DEFINE a == RemoveFirst(c.lru, e)
               b == RemoveFirst(c.inUse, e)
    <2>0. r # 0
        BY <1>11
    <2>1. LRURemove(less, e) = [less EXCEPT !.lru = a, !.inUse = b]
        <3> HIDE DEF d, r
        <3> QED BY <1>6 DEF LRURemove, CacheState
    <2>2. a \in Seq(EntryNumber) /\ b \in Seq(EntryNumber)
        BY <1>0, RemoveFirstFacts
    <2> HIDE DEF a, b
    <2>3. LRURemove(less, e).lru = a
        BY <1>6, <2>1 DEF CacheState
    <2>4. d = [[less EXCEPT !.lru = a, !.inUse = b] EXCEPT !.lru = Append(a, e)]
        <3> HIDE DEF d
        <3> QED BY <1>4, <1>6, <1>7, <1>11, <2>1, <2>3
    <2>5. Append(a, e) \in Seq(EntryNumber)
        BY <1>0, <2>2
    <2>6. /\ d \in CacheState /\ d.entry = fewer /\ d.usage = c.usage /\ d.list = c.list
          /\ d.lru = Append(a, e) /\ d.inUse = b
        <3> HIDE DEF d, r
        <3> QED BY <1>6, <2>2, <2>4, <2>5 DEF CacheState
    <2> HIDE DEF d, r, moves
    <2> QED BY <1>2, <1>11, <2>0, <2>6 DEF SameBut, d, r, moves, a, b
<1> HIDE DEF d, r, moves
<1> QED BY <1>9, <1>10, <1>11

LEMMA RefFields ==
    ASSUME NEW c \in CacheState, NEW e \in DOMAIN c.entry,
           IsInjective(c.lru), IsInjective(c.inUse)
    PROVE  LET d == Ref(c, e)
               moves == c.entry[e].refs = 1 /\ c.entry[e].inCache
           IN  /\ d \in CacheState /\ d.usage = c.usage /\ d.list = c.list /\ SameBut(c, d, e)
               /\ e \in DOMAIN d.entry /\ d.entry[e] = [c.entry[e] EXCEPT !.refs = c.entry[e].refs + 1]
               /\ d.lru = IF moves THEN RemoveFirst(c.lru, e) ELSE c.lru
               /\ d.inUse = IF moves THEN Append(RemoveFirst(c.inUse, e), e) ELSE c.inUse
<1> DEFINE r == [c.entry[e] EXCEPT !.refs = c.entry[e].refs + 1]
           more == [c.entry EXCEPT ![e] = r]
           moves == c.entry[e].refs = 1 /\ c.entry[e].inCache
           a == RemoveFirst(c.lru, e)
           b == RemoveFirst(c.inUse, e)
           d == Ref(c, e)
<1>0. /\ c.entry \in EntryMap /\ c.lru \in Seq(EntryNumber) /\ c.inUse \in Seq(EntryNumber)
      /\ e \in EntryNumber /\ c.entry[e] \in EntryRecord
    BY CacheFields
<1>1. r \in EntryRecord
    BY <1>0 DEF EntryRecord
<1> HIDE DEF r
<1>2. /\ more \in EntryMap /\ DOMAIN more = DOMAIN c.entry /\ more[e] = r
      /\ \A x \in DOMAIN c.entry \ {e} : more[x] = c.entry[x]
    BY <1>0, <1>1, EntryExcept
<1>3. a \in Seq(EntryNumber) /\ b \in Seq(EntryNumber)
    BY <1>0, RemoveFirstFacts
<1> HIDE DEF a, b
<1>4. Append(b, e) \in Seq(EntryNumber)
    BY <1>0, <1>3
<1>5. CASE moves
    <2> DEFINE m == [c EXCEPT !.lru = a, !.inUse = Append(b, e)]
    <2>1. [LRURemove(c, e) EXCEPT !.inUse = Append(@, e)] = m
        BY DEF LRURemove, CacheState, a, b
    <2>2. m.entry = c.entry
        BY DEF CacheState
    <2>3. d = [m EXCEPT !.entry[e].refs = @ + 1]
        <3> HIDE DEF m
        <3> QED BY <1>5, <2>1 DEF Ref
    <2>4. d = [m EXCEPT !.entry = more]
        <3> HIDE DEF d, more
        <3> QED BY <2>2, <2>3, <1>0 DEF CacheState, EntryRecord, more, r
    <2>5. d \in CacheState /\ d.usage = c.usage /\ d.list = c.list /\ d.entry = more
          /\ d.lru = a /\ d.inUse = Append(b, e)
        <3> HIDE DEF d, more
        <3> QED BY <1>2, <1>3, <1>4, <2>4 DEF CacheState
    <2> HIDE DEF d, more, moves
    <2> QED BY <1>2, <1>5, <2>5 DEF SameBut, a, b, d, moves, r
<1>6. CASE ~moves
    <2>3. d = [c EXCEPT !.entry[e].refs = @ + 1]
        BY <1>6 DEF Ref
    <2>4. d = [c EXCEPT !.entry = more]
        <3> HIDE DEF d, more
        <3> QED BY <2>3, <1>0 DEF CacheState, EntryRecord, more, r
    <2>5. d \in CacheState /\ d.usage = c.usage /\ d.list = c.list /\ d.entry = more
          /\ d.lru = c.lru /\ d.inUse = c.inUse
        <3> HIDE DEF d, more
        <3> QED BY <1>2, <2>4 DEF CacheState
    <2> HIDE DEF d, more, moves
    <2> QED BY <1>2, <1>6, <2>5 DEF SameBut, a, b, d, moves, r
<1> QED BY <1>5, <1>6

LEMMA LeftFields ==
    ASSUME NEW c \in CacheState, NEW e \in DOMAIN c.entry, IsInjective(c.lru), IsInjective(c.inUse)
    PROVE  LET d == [LRURemove(c, e) EXCEPT !.entry[e].inCache = FALSE,
                                            !.usage = @ - c.entry[e].charge]
           IN  /\ d \in CacheState /\ d.usage = c.usage - c.entry[e].charge /\ d.list = c.list
               /\ DOMAIN d.entry = DOMAIN c.entry /\ SameBut(c, d, e)
               /\ d.entry[e] = [c.entry[e] EXCEPT !.inCache = FALSE]
               /\ d.lru = RemoveFirst(c.lru, e) /\ d.inUse = RemoveFirst(c.inUse, e)
<1> DEFINE r == [c.entry[e] EXCEPT !.inCache = FALSE]
           left == [c.entry EXCEPT ![e] = r]
           a == RemoveFirst(c.lru, e)
           b == RemoveFirst(c.inUse, e)
           u == c.usage - c.entry[e].charge
           d == [LRURemove(c, e) EXCEPT !.entry[e].inCache = FALSE,
                                        !.usage = @ - c.entry[e].charge]
<1>0. /\ c.entry \in EntryMap /\ c.lru \in Seq(EntryNumber) /\ c.inUse \in Seq(EntryNumber)
      /\ e \in EntryNumber /\ c.entry[e] \in EntryRecord /\ c.usage \in Int
    BY CacheFields
<1>1. r \in EntryRecord /\ u \in Int
    <2>1. c.entry[e].charge \in Int
        BY <1>0 DEF EntryRecord
    <2>2. r \in EntryRecord
        BY <1>0 DEF EntryRecord
    <2> QED BY <1>0, <2>1, <2>2
<1> HIDE DEF r
<1>2. /\ left \in EntryMap /\ DOMAIN left = DOMAIN c.entry /\ left[e] = r
      /\ \A x \in DOMAIN c.entry \ {e} : left[x] = c.entry[x]
    BY <1>0, <1>1, EntryExcept
<1>3. a \in Seq(EntryNumber) /\ b \in Seq(EntryNumber)
    BY <1>0, RemoveFirstFacts
<1> HIDE DEF a, b
<1>4. LRURemove(c, e) = [c EXCEPT !.lru = a, !.inUse = b]
    BY DEF LRURemove, CacheState, a, b
<1>5. d = [c EXCEPT !.lru = a, !.inUse = b, !.entry = left, !.usage = u]
    <2> HIDE DEF left
    <2> QED BY <1>0, <1>4 DEF CacheState, EntryRecord, left, r
<1>6. /\ d \in CacheState /\ d.usage = u /\ d.list = c.list /\ d.entry = left
      /\ d.lru = a /\ d.inUse = b
    <2> HIDE DEF d, left, u
    <2> QED BY <1>1, <1>2, <1>3, <1>5 DEF CacheState
<1> HIDE DEF d, left
<1> QED BY <1>2, <1>6 DEF SameBut, a, b, d, r

-----------------------------------------------------------------------------
(* An operation that counts or erases an entry keeps the cache sound.        *)
LEMMA HashedSame ==
    ASSUME NEW c, NEW d, NEW S, Hashed(c, S), d.list = c.list, S \subseteq DOMAIN d.entry,
           \A e \in S : d.entry[e].key = c.entry[e].key
    PROVE  Hashed(d, S)
<1>1. Elems(d) = S
    BY DEF Hashed, Elems
<1>2. ASSUME NEW b \in DOMAIN d.list, NEW e \in d.list[b]
      PROVE  b = Bucket(d, d.entry[e].key)
    <2>1. e \in S
        BY <1>1, <1>2 DEF Elems
    <2>2. b = Bucket(c, c.entry[e].key)
        BY <1>2 DEF Hashed
    <2> QED BY <2>1, <2>2 DEF Bucket
<1> QED BY <1>1, <1>2 DEF Hashed

\* The handles are counted by entry.
WithHandles(holds, e, n) == [holds EXCEPT ![e] = n]

LEMMA UnrefSound ==
    ASSUME NEW c, NEW holds \in [EntryNumber -> Nat], Sound(c, holds, {}),
           NEW e \in EntryNumber, holds[e] > 0
    PROVE  LET d == Unref(c, e)
           IN  Sound(d, WithHandles(holds, e, holds[e] - 1), {}) /\ Keeps(c, d)
<1> USE DEF WithHandles
<1> DEFINE d == Unref(c, e)
           less == WithHandles(holds, e, holds[e] - 1)
           r == c.entry[e].refs - 1
           moves == r = 1 /\ c.entry[e].inCache
<1>0. /\ c \in CacheState /\ Counted(c, holds) /\ Listed(c) /\ e \in DOMAIN c.entry
      /\ c.entry[e] \in EntryRecord /\ Hashed(c, InCacheOf(c)) /\ c.usage = UsageOf(c)
    <2>1. c \in CacheState /\ Counted(c, holds) /\ Listed(c) /\ Hashed(c, InCacheOf(c) \ {})
          /\ c.usage = UsageOf(c)
        BY DEF Sound
    <2>2. InCacheOf(c) \ {} = InCacheOf(c)
        OBVIOUS
    <2>3. e \in DOMAIN c.entry
        BY <2>1 DEF Counted
    <2> QED BY <2>1, <2>2, <2>3, CacheFields
<1>1. /\ holds[e] \in Nat /\ c.entry[e].refs \in Nat
      /\ c.entry[e].inCache \in BOOLEAN
      /\ c.entry[e].refs = holds[e] + (IF c.entry[e].inCache THEN 1 ELSE 0)
    BY <1>0 DEF EntryRecord, Counted
<1>2. r \in Nat /\ (c.entry[e].inCache => r > 0) /\ r = holds[e] - 1 + (IF c.entry[e].inCache THEN 1 ELSE 0)
    BY <1>1
<1>4. /\ d \in CacheState /\ d.usage = c.usage /\ d.list = c.list /\ SameBut(c, d, e)
      /\ r = 0 => e \notin DOMAIN d.entry
      /\ r # 0 => /\ e \in DOMAIN d.entry
                  /\ d.entry[e] = [c.entry[e] EXCEPT !.refs = r]
      /\ d.lru = IF moves THEN Append(RemoveFirst(c.lru, e), e) ELSE c.lru
      /\ d.inUse = IF moves THEN RemoveFirst(c.inUse, e) ELSE c.inUse
    <2>1. IsInjective(c.lru) /\ IsInjective(c.inUse)
        BY <1>0 DEF Listed, IsListOf
    <2>2. c.entry[e].refs > 0
        BY <1>1
    <2> HIDE DEF d
    <2> QED BY <1>0, <2>1, <2>2, UnrefFields DEF d
<1> HIDE DEF d, r
<1>5. r # 0 => /\ d.entry[e].key = c.entry[e].key /\ d.entry[e].charge = c.entry[e].charge
               /\ d.entry[e].inCache = c.entry[e].inCache /\ d.entry[e].refs = r
    BY <1>0, <1>4 DEF EntryRecord
<1>6. InCacheOf(d) = InCacheOf(c)
    <2>1. ASSUME NEW x PROVE x \in InCacheOf(d) <=> x \in InCacheOf(c)
        <3>1. CASE x = e
            BY <1>0, <1>2, <1>4, <1>5, <3>1 DEF InCacheOf
        <3>2. CASE x # e
            BY <1>4, <3>2 DEF InCacheOf, SameBut
        <3> QED BY <3>1, <3>2
    <2> QED BY <2>1
<1>7. ASSUME NEW x \in InCacheOf(c)
      PROVE  /\ x \in DOMAIN d.entry
             /\ d.entry[x].key = c.entry[x].key /\ d.entry[x].charge = c.entry[x].charge
             /\ d.entry[x].refs = IF x = e THEN r ELSE c.entry[x].refs
    <2>1. CASE x = e
        BY <1>2, <1>5, <1>4, <2>1 DEF InCacheOf
    <2>2. CASE x # e
        BY <1>4, <2>2 DEF InCacheOf, SameBut
    <2> QED BY <2>1, <2>2
<1>8. Counted(d, less)
    <2>1. ASSUME NEW x \in DOMAIN d.entry
          PROVE  /\ d.entry[x].refs = less[x] + (IF d.entry[x].inCache THEN 1 ELSE 0)
                 /\ d.entry[x].refs > 0
        <3>0. x \in EntryNumber
            BY <1>4, CacheFields
        <3>1. CASE x = e
            <4>1. less[e] = holds[e] - 1 /\ r # 0
                BY <1>4, <2>1, <3>1
            <4> QED BY <1>2, <1>5, <3>1, <4>1
        <3>2. CASE x # e
            <4>1. less[x] = holds[x] /\ x \in DOMAIN c.entry /\ d.entry[x] = c.entry[x]
                BY <1>4, <2>1, <3>0, <3>2 DEF SameBut
            <4> QED BY <1>0, <4>1 DEF Counted
        <3> QED BY <3>1, <3>2
    <2>2. ASSUME NEW x \in EntryNumber, less[x] > 0 PROVE x \in DOMAIN d.entry
        <3>1. CASE x = e
            <4>1. less[e] = holds[e] - 1
                OBVIOUS
            <4>2. r # 0
                BY <1>1, <1>2, <2>2, <3>1, <4>1
            <4> QED BY <1>4, <3>1, <4>2
        <3>2. CASE x # e
            <4>1. holds[x] > 0
                BY <2>2, <3>2
            <4>2. x \in DOMAIN c.entry
                BY <1>0, <4>1 DEF Counted
            <4> QED BY <1>4, <3>2, <4>2 DEF SameBut
        <3> QED BY <3>1, <3>2
    <2> HIDE DEF less
    <2> QED BY <2>1, <2>2 DEF Counted
<1>9. Listed(d)
    <2> DEFINE idle == {x \in InCacheOf(c) : c.entry[x].refs = 1}
               busy == {x \in InCacheOf(c) : c.entry[x].refs > 1}
               idle2 == {x \in InCacheOf(d) : d.entry[x].refs = 1}
               busy2 == {x \in InCacheOf(d) : d.entry[x].refs > 1}
    <2>1. IsListOf(c.lru, idle) /\ IsListOf(c.inUse, busy)
        BY <1>0 DEF Listed
    <2>2. CASE moves
        <3>1. idle2 = (idle \ {e}) \cup {e} /\ busy2 = busy \ {e} /\ e \notin idle \ {e}
            <4>1. e \in InCacheOf(c)
                BY <1>0, <2>2 DEF InCacheOf
            <4> QED BY <1>6, <1>7, <2>2, <4>1
        <3> HIDE DEF idle, busy, idle2, busy2, moves
        <3>2. IsListOf(RemoveFirst(c.lru, e), idle \ {e}) /\ IsListOf(RemoveFirst(c.inUse, e), busy \ {e})
            BY <2>1, ListWithout
        <3>3. IsListOf(Append(RemoveFirst(c.lru, e), e), idle2)
            BY <3>1, <3>2, ListWith
        <3>4. IsListOf(d.lru, idle2) /\ IsListOf(d.inUse, busy2)
            BY <1>4, <2>2, <3>1, <3>2, <3>3
        <3> QED BY <3>4 DEF Listed, idle2, busy2
    <2>3. CASE ~moves
        <3>1. idle2 = idle /\ busy2 = busy
            <4>1. ASSUME NEW x \in InCacheOf(c)
                  PROVE  (d.entry[x].refs = 1 <=> c.entry[x].refs = 1)
                         /\ (d.entry[x].refs > 1 <=> c.entry[x].refs > 1)
                <5>1. CASE x = e
                    <6>1. c.entry[e].inCache
                        BY <4>1, <5>1 DEF InCacheOf
                    <6>2. r > 1 /\ c.entry[e].refs = r + 1
                        BY <1>1, <1>2, <2>3, <6>1 DEF r
                    <6> QED BY <1>2, <1>7, <4>1, <5>1, <6>2
                <5>2. CASE x # e
                    BY <1>7, <5>2
                <5> QED BY <5>1, <5>2
            <4> QED BY <1>6, <4>1
        <3>2. IsListOf(d.lru, idle2) /\ IsListOf(d.inUse, busy2)
            <4> HIDE DEF idle, busy, idle2, busy2, moves
            <4> QED BY <1>4, <2>1, <2>3, <3>1
        <3> QED BY <3>2 DEF Listed
    <2> QED BY <2>2, <2>3
<1>10. Hashed(d, InCacheOf(d) \ {})
    <2>1. InCacheOf(c) \subseteq DOMAIN d.entry /\ \A x \in InCacheOf(c) : d.entry[x].key = c.entry[x].key
        BY <1>7
    <2>2. Hashed(d, InCacheOf(c))
        BY <1>0, <1>4, <2>1, HashedSame
    <2>3. InCacheOf(d) \ {} = InCacheOf(c)
        BY <1>6
    <2> QED BY <2>2, <2>3
<1>11. d.usage = UsageOf(d)
    BY <1>0, <1>4, <1>6, <1>7, UsageSame
<1>12. Keeps(c, d)
    <2>1. ASSUME NEW x \in DOMAIN d.entry
          PROVE  x \in DOMAIN c.entry /\ d.entry[x].key = c.entry[x].key
        <3>1. CASE x = e
            <4>1. r # 0
                BY <1>4, <2>1, <3>1
            <4> QED BY <1>0, <1>5, <3>1, <4>1
        <3>2. CASE x # e
            BY <1>4, <2>1, <3>2 DEF SameBut
        <3> QED BY <3>1, <3>2
    <2> QED BY <2>1 DEF Keeps
<1>13. Sound(d, less, {})
    BY <1>4, <1>8, <1>9, <1>10, <1>11 DEF Sound
<1> QED BY <1>12, <1>13 DEF d

LEMMA RefSound ==
    ASSUME NEW c, NEW holds \in [EntryNumber -> Nat], Sound(c, holds, {}),
           NEW e \in InCacheOf(c)
    PROVE  LET d == Ref(c, e)
           IN  Sound(d, WithHandles(holds, e, holds[e] + 1), {}) /\ Keeps(c, d)
<1> USE DEF WithHandles
<1> DEFINE d == Ref(c, e)
           more == WithHandles(holds, e, holds[e] + 1)
           r == c.entry[e].refs + 1
           moves == c.entry[e].refs = 1 /\ c.entry[e].inCache
<1>0. /\ c \in CacheState /\ Counted(c, holds) /\ Listed(c) /\ e \in DOMAIN c.entry
      /\ c.entry[e] \in EntryRecord /\ Hashed(c, InCacheOf(c)) /\ c.usage = UsageOf(c)
      /\ e \in EntryNumber
    <2>1. c \in CacheState /\ Counted(c, holds) /\ Listed(c) /\ Hashed(c, InCacheOf(c) \ {})
          /\ c.usage = UsageOf(c)
        BY DEF Sound
    <2>2. InCacheOf(c) \ {} = InCacheOf(c)
        OBVIOUS
    <2>3. e \in DOMAIN c.entry
        BY DEF InCacheOf
    <2> QED BY <2>1, <2>2, <2>3, CacheFields
<1>1. /\ holds[e] \in Nat /\ c.entry[e].refs \in Nat /\ c.entry[e].inCache
      /\ c.entry[e].refs = holds[e] + 1 /\ r = holds[e] + 2 /\ (moves <=> c.entry[e].refs = 1)
    BY <1>0 DEF EntryRecord, Counted, InCacheOf
<1>4. /\ d \in CacheState /\ d.usage = c.usage /\ d.list = c.list /\ SameBut(c, d, e)
      /\ e \in DOMAIN d.entry /\ d.entry[e] = [c.entry[e] EXCEPT !.refs = r]
      /\ d.lru = IF moves THEN RemoveFirst(c.lru, e) ELSE c.lru
      /\ d.inUse = IF moves THEN Append(RemoveFirst(c.inUse, e), e) ELSE c.inUse
    <2>1. IsInjective(c.lru) /\ IsInjective(c.inUse)
        BY <1>0 DEF Listed, IsListOf
    <2> HIDE DEF d
    <2> QED BY <1>0, <2>1, RefFields DEF d
<1> HIDE DEF d, r, moves
<1>5. /\ d.entry[e].key = c.entry[e].key /\ d.entry[e].charge = c.entry[e].charge
      /\ d.entry[e].inCache = c.entry[e].inCache /\ d.entry[e].refs = r
    BY <1>0, <1>4 DEF EntryRecord
<1>6. InCacheOf(d) = InCacheOf(c)
    <2>1. ASSUME NEW x PROVE x \in InCacheOf(d) <=> x \in InCacheOf(c)
        <3>1. CASE x = e
            BY <1>0, <1>4, <1>5, <3>1 DEF InCacheOf
        <3>2. CASE x # e
            BY <1>4, <3>2 DEF InCacheOf, SameBut
        <3> QED BY <3>1, <3>2
    <2> QED BY <2>1
<1>7. ASSUME NEW x \in InCacheOf(c)
      PROVE  /\ x \in DOMAIN d.entry
             /\ d.entry[x].key = c.entry[x].key /\ d.entry[x].charge = c.entry[x].charge
             /\ d.entry[x].refs = IF x = e THEN r ELSE c.entry[x].refs
    <2>1. CASE x = e
        BY <1>5, <1>4, <2>1 DEF InCacheOf
    <2>2. CASE x # e
        BY <1>4, <2>2 DEF InCacheOf, SameBut
    <2> QED BY <2>1, <2>2
<1>8. Counted(d, more)
    <2>1. ASSUME NEW x \in DOMAIN d.entry
          PROVE  /\ d.entry[x].refs = more[x] + (IF d.entry[x].inCache THEN 1 ELSE 0)
                 /\ d.entry[x].refs > 0
        <3>0. x \in EntryNumber
            BY <1>4, CacheFields
        <3>1. CASE x = e
            <4>1. more[e] = holds[e] + 1
                BY <1>0
            <4>2. d.entry[e].inCache
                BY <1>1, <1>5
            <4>3. d.entry[e].refs = more[e] + 1 /\ more[e] \in Nat
                BY <1>1, <1>5, <4>1
            <4> HIDE DEF more
            <4> QED BY <3>1, <4>2, <4>3
        <3>2. CASE x # e
            <4>1. more[x] = holds[x] /\ x \in DOMAIN c.entry /\ d.entry[x] = c.entry[x]
                BY <1>4, <2>1, <3>0, <3>2 DEF SameBut
            <4> QED BY <1>0, <4>1 DEF Counted
        <3> QED BY <3>1, <3>2
    <2>2. ASSUME NEW x \in EntryNumber, more[x] > 0 PROVE x \in DOMAIN d.entry
        <3>1. CASE x = e
            BY <1>4, <3>1
        <3>2. CASE x # e
            <4>1. holds[x] > 0
                BY <2>2, <3>2
            <4>2. x \in DOMAIN c.entry
                BY <1>0, <4>1 DEF Counted
            <4> QED BY <1>4, <3>2, <4>2 DEF SameBut
        <3> QED BY <3>1, <3>2
    <2> HIDE DEF more
    <2> QED BY <2>1, <2>2 DEF Counted
<1>9. Listed(d)
    <2> DEFINE idle == {x \in InCacheOf(c) : c.entry[x].refs = 1}
               busy == {x \in InCacheOf(c) : c.entry[x].refs > 1}
               idle2 == {x \in InCacheOf(d) : d.entry[x].refs = 1}
               busy2 == {x \in InCacheOf(d) : d.entry[x].refs > 1}
    <2>1. IsListOf(c.lru, idle) /\ IsListOf(c.inUse, busy)
        BY <1>0 DEF Listed
    <2>0. r > 1
        BY <1>1
    <2>2. CASE moves
        <3>1. idle2 = idle \ {e} /\ busy2 = (busy \ {e}) \cup {e} /\ e \notin busy \ {e}
            BY <1>6, <1>7, <2>0
        <3> HIDE DEF idle, busy, idle2, busy2
        <3>2. IsListOf(RemoveFirst(c.lru, e), idle \ {e}) /\ IsListOf(RemoveFirst(c.inUse, e), busy \ {e})
            BY <2>1, ListWithout
        <3>3. IsListOf(Append(RemoveFirst(c.inUse, e), e), busy2)
            BY <1>0, <3>1, <3>2, ListWith
        <3>4. IsListOf(d.lru, idle2) /\ IsListOf(d.inUse, busy2)
            BY <1>4, <2>2, <3>1, <3>2, <3>3
        <3> QED BY <3>4 DEF Listed, idle2, busy2
    <2>3. CASE ~moves
        <3>0. c.entry[e].refs > 1
            BY <1>1, <2>3
        <3>1. idle2 = idle /\ busy2 = busy
            <4>1. ASSUME NEW x \in InCacheOf(c)
                  PROVE  (d.entry[x].refs = 1 <=> c.entry[x].refs = 1)
                         /\ (d.entry[x].refs > 1 <=> c.entry[x].refs > 1)
                <5>1. CASE x = e
                    BY <1>1, <1>7, <2>0, <3>0, <4>1, <5>1
                <5>2. CASE x # e
                    BY <1>7, <5>2
                <5> QED BY <5>1, <5>2
            <4> QED BY <1>6, <4>1
        <3>2. IsListOf(d.lru, idle2) /\ IsListOf(d.inUse, busy2)
            <4> HIDE DEF idle, busy, idle2, busy2
            <4> QED BY <1>4, <2>1, <2>3, <3>1
        <3> QED BY <3>2 DEF Listed
    <2> QED BY <2>2, <2>3
<1>10. Hashed(d, InCacheOf(d) \ {})
    <2>1. InCacheOf(c) \subseteq DOMAIN d.entry /\ \A x \in InCacheOf(c) : d.entry[x].key = c.entry[x].key
        BY <1>7
    <2>2. Hashed(d, InCacheOf(c))
        BY <1>0, <1>4, <2>1, HashedSame
    <2>3. InCacheOf(d) \ {} = InCacheOf(c)
        BY <1>6
    <2> QED BY <2>2, <2>3
<1>11. d.usage = UsageOf(d)
    BY <1>0, <1>4, <1>6, <1>7, UsageSame
<1>12. Keeps(c, d)
    <2>1. ASSUME NEW x \in DOMAIN d.entry
          PROVE  x \in DOMAIN c.entry /\ d.entry[x].key = c.entry[x].key
        <3>1. CASE x = e
            BY <1>0, <1>5, <3>1
        <3>2. CASE x # e
            BY <1>4, <2>1, <3>2 DEF SameBut
        <3> QED BY <3>1, <3>2
    <2> QED BY <2>1 DEF Keeps
<1>13. Sound(d, more, {})
    BY <1>4, <1>8, <1>9, <1>10, <1>11 DEF Sound
<1> QED BY <1>12, <1>13 DEF d

LEMMA FinishEraseSound ==
    ASSUME NEW c, NEW holds \in [EntryNumber -> Nat], NEW e \in InCacheOf(c), Sound(c, holds, {e})
    PROVE  LET d == FinishErase(c, e)
           IN  /\ Sound(d, holds, {}) /\ Keeps(c, d) /\ SameBut(c, d, e)
               /\ e \notin InCacheOf(d) /\ (holds[e] = 0 => e \notin DOMAIN d.entry)
               /\ ToSet(c.lru) \ {e} \subseteq ToSet(d.lru)
<1> DEFINE m == [LRURemove(c, e) EXCEPT !.entry[e].inCache = FALSE,
                                        !.usage = @ - c.entry[e].charge]
           d == FinishErase(c, e)
           idle == {x \in InCacheOf(c) : c.entry[x].refs = 1}
           busy == {x \in InCacheOf(c) : c.entry[x].refs > 1}
<1>0. /\ c \in CacheState /\ Counted(c, holds) /\ Listed(c) /\ e \in DOMAIN c.entry
      /\ c.entry[e] \in EntryRecord /\ Hashed(c, InCacheOf(c) \ {e}) /\ c.usage = UsageOf(c)
      /\ e \in EntryNumber /\ e # NoHandle
    <2>1. c \in CacheState /\ Counted(c, holds) /\ Listed(c) /\ Hashed(c, InCacheOf(c) \ {e})
          /\ c.usage = UsageOf(c)
        BY DEF Sound
    <2>2. e \in DOMAIN c.entry
        BY DEF InCacheOf
    <2>3. e \in EntryNumber /\ c.entry[e] \in EntryRecord
        BY <2>1, <2>2, CacheFields
    <2> QED BY <2>1, <2>2, <2>3, EntriesFinite
<1>1. /\ holds[e] \in Nat /\ c.entry[e].refs = holds[e] + 1 /\ c.entry[e].inCache
    BY <1>0 DEF Counted, InCacheOf
<1>2. IsListOf(c.lru, idle) /\ IsListOf(c.inUse, busy)
    BY <1>0 DEF Listed
<1>3. /\ IsListOf(RemoveFirst(c.lru, e), idle \ {e}) /\ IsListOf(RemoveFirst(c.inUse, e), busy \ {e})
    <2> HIDE DEF idle, busy
    <2> QED BY <1>2, ListWithout
<1>4. /\ m \in CacheState /\ m.usage = c.usage - c.entry[e].charge /\ m.list = c.list
      /\ DOMAIN m.entry = DOMAIN c.entry /\ SameBut(c, m, e)
      /\ m.entry[e] = [c.entry[e] EXCEPT !.inCache = FALSE]
      /\ m.lru = RemoveFirst(c.lru, e) /\ m.inUse = RemoveFirst(c.inUse, e)
    <2>1. IsInjective(c.lru) /\ IsInjective(c.inUse)
        BY <1>2 DEF IsListOf
    <2> HIDE DEF m
    <2> QED BY <1>0, <2>1, LeftFields DEF m
<1>5. d = Unref(m, e)
    BY <1>0 DEF FinishErase
<1> HIDE DEF d, m
<1>6. /\ m.entry[e].refs = holds[e] + 1 /\ ~m.entry[e].inCache /\ m.entry[e].key = c.entry[e].key
      /\ m.entry[e].charge = c.entry[e].charge /\ m.entry[e] \in EntryRecord
    BY <1>0, <1>1, <1>4 DEF EntryRecord
<1>7. /\ d \in CacheState /\ d.usage = m.usage /\ d.list = m.list /\ SameBut(m, d, e)
      /\ holds[e] = 0 => e \notin DOMAIN d.entry
      /\ holds[e] # 0 => /\ e \in DOMAIN d.entry
                         /\ d.entry[e] = [m.entry[e] EXCEPT !.refs = holds[e]]
      /\ d.lru = m.lru /\ d.inUse = m.inUse
    <2>1. IsInjective(m.lru) /\ IsInjective(m.inUse)
        BY <1>3, <1>4 DEF IsListOf
    <2>2. m.entry[e].refs > 0 /\ e \in DOMAIN m.entry
        BY <1>0, <1>1, <1>4, <1>6
    <2>3. m.entry[e].refs - 1 = holds[e]
        BY <1>1, <1>6
    <2>4. ~(m.entry[e].refs - 1 = 1 /\ m.entry[e].inCache)
        BY <1>6
    <2>5. LET u == Unref(m, e)
              r == m.entry[e].refs - 1
              moves == r = 1 /\ m.entry[e].inCache
          IN  /\ u \in CacheState /\ u.usage = m.usage /\ u.list = m.list /\ SameBut(m, u, e)
              /\ r = 0 => e \notin DOMAIN u.entry
              /\ r # 0 => e \in DOMAIN u.entry /\ u.entry[e] = [m.entry[e] EXCEPT !.refs = r]
              /\ u.lru = IF moves THEN Append(RemoveFirst(m.lru, e), e) ELSE m.lru
              /\ u.inUse = IF moves THEN RemoveFirst(m.inUse, e) ELSE m.inUse
        BY <1>4, <2>1, <2>2, UnrefFields
    <2> QED BY <1>5, <2>3, <2>4, <2>5
<1>8. holds[e] # 0 => /\ d.entry[e].key = c.entry[e].key /\ ~d.entry[e].inCache
                     /\ d.entry[e].refs = holds[e]
    BY <1>6, <1>7 DEF EntryRecord
<1>9. SameBut(c, d, e)
    BY <1>4, <1>7 DEF SameBut
<1>10. InCacheOf(d) = InCacheOf(c) \ {e}
    <2>1. ASSUME NEW x PROVE x \in InCacheOf(d) <=> x \in InCacheOf(c) \ {e}
        <3>1. CASE x = e
            BY <1>7, <1>8, <3>1 DEF InCacheOf
        <3>2. CASE x # e
            BY <1>9, <3>2 DEF InCacheOf, SameBut
        <3> QED BY <3>1, <3>2
    <2> QED BY <2>1
<1>11. \A x \in InCacheOf(d) : x \in DOMAIN d.entry /\ d.entry[x] = c.entry[x]
    BY <1>9, <1>10 DEF InCacheOf, SameBut
<1>12. Counted(d, holds)
    <2>1. ASSUME NEW x \in DOMAIN d.entry
          PROVE  /\ d.entry[x].refs = holds[x] + (IF d.entry[x].inCache THEN 1 ELSE 0)
                 /\ d.entry[x].refs > 0
        <3>1. CASE x = e
            BY <1>1, <1>7, <1>8, <2>1, <3>1
        <3>2. CASE x # e
            <4>1. x \in DOMAIN c.entry /\ d.entry[x] = c.entry[x]
                BY <1>9, <2>1, <3>2 DEF SameBut
            <4> QED BY <1>0, <4>1 DEF Counted
        <3> QED BY <3>1, <3>2
    <2>2. ASSUME NEW x \in EntryNumber, holds[x] > 0 PROVE x \in DOMAIN d.entry
        <3>1. CASE x = e
            BY <1>7, <2>2, <3>1
        <3>2. CASE x # e
            <4>1. x \in DOMAIN c.entry
                BY <1>0, <2>2 DEF Counted
            <4> QED BY <1>9, <3>2, <4>1 DEF SameBut
        <3> QED BY <3>1, <3>2
    <2> QED BY <2>1, <2>2 DEF Counted
<1>13. Listed(d)
    <2>1. /\ {x \in InCacheOf(d) : d.entry[x].refs = 1} = idle \ {e}
          /\ {x \in InCacheOf(d) : d.entry[x].refs > 1} = busy \ {e}
        BY <1>10, <1>11
    <2> HIDE DEF idle, busy
    <2> QED BY <1>3, <1>4, <1>7, <2>1 DEF Listed
<1>14. Hashed(d, InCacheOf(d) \ {})
    <2>1. InCacheOf(d) \ {} = InCacheOf(c) \ {e} /\ d.list = c.list
        BY <1>4, <1>7, <1>10
    <2>2. \A x \in InCacheOf(c) \ {e} : x \in DOMAIN d.entry /\ d.entry[x].key = c.entry[x].key
        BY <1>10, <1>11
    <2>3. Hashed(d, InCacheOf(c) \ {e})
        BY <1>0, <2>1, <2>2, HashedSame
    <2> QED BY <2>1, <2>3
<1>15. d.usage = UsageOf(d)
    <2>1. UsageOf(c) = c.entry[e].charge + UsageOf(d)
        BY <1>0, <1>7, <1>10, <1>11, UsageLess
    <2>2. UsageOf(d) \in Nat /\ c.entry[e].charge \in Nat
        BY <1>0, <1>7, UsageType DEF EntryRecord
    <2> QED BY <1>0, <1>4, <1>7, <2>1, <2>2
<1>16. Keeps(c, d)
    <2>1. ASSUME NEW x \in DOMAIN d.entry
          PROVE  x \in DOMAIN c.entry /\ d.entry[x].key = c.entry[x].key
        <3>1. CASE x = e
            BY <1>0, <1>7, <1>8, <2>1, <3>1
        <3>2. CASE x # e
            BY <1>9, <2>1, <3>2 DEF SameBut
        <3> QED BY <3>1, <3>2
    <2> QED BY <2>1 DEF Keeps
<1>17. ToSet(c.lru) \ {e} \subseteq ToSet(d.lru)
    <2> HIDE DEF idle, busy
    <2> QED BY <1>2, <1>3, <1>4, <1>7 DEF IsListOf
<1>18. Sound(d, holds, {})
    BY <1>7, <1>12, <1>13, <1>14, <1>15 DEF Sound
<1>19. e \notin InCacheOf(d)
    BY <1>10
<1> QED BY <1>7, <1>9, <1>16, <1>17, <1>18, <1>19 DEF d

\* After an erasure no entry of the cache has the key, and nothing else changed.
LEMMA EraseKeySound ==
    ASSUME NEW c, NEW holds \in [EntryNumber -> Nat], Sound(c, holds, {}), NEW key \in FileNumber
    PROVE  LET d == EraseKey(c, key)
               e == LookupHandle(c, key)
           IN  /\ Sound(d, holds, {}) /\ Keeps(c, d)
               /\ \A x \in InCacheOf(d) : d.entry[x].key # key
               /\ e # NoHandle /\ holds[e] = 0 => e \notin DOMAIN d.entry
               /\ ToSet(c.lru) \ {e} \subseteq ToSet(d.lru)
<1> DEFINE e == LookupHandle(c, key)
           m == RemoveHandle(c, key)
           d == EraseKey(c, key)
<1>0. /\ c \in CacheState /\ Counted(c, holds) /\ Listed(c) /\ Hashed(c, InCacheOf(c))
      /\ c.usage = UsageOf(c)
    <2>1. InCacheOf(c) \ {} = InCacheOf(c)
        OBVIOUS
    <2> QED BY <2>1 DEF Sound
<1>1. /\ e # NoHandle => e \in InCacheOf(c) /\ c.entry[e].key = key
      /\ \A x \in InCacheOf(c) : c.entry[x].key = key => x = e
      /\ NoHandle \notin InCacheOf(c)
    BY <1>0, LookupFacts
<1>2. /\ m \in CacheState /\ Hashed(m, InCacheOf(c) \ {e})
      /\ m.entry = c.entry /\ m.lru = c.lru /\ m.inUse = c.inUse /\ m.usage = c.usage
    <2> HIDE DEF m
    <2> QED BY <1>0, RemoveHandleFacts DEF m
<1>3. d = FinishErase(m, e)
    BY DEF EraseKey
<1> HIDE DEF e, m, d
<1>4. InCacheOf(m) = InCacheOf(c) /\ UsageOf(m) = UsageOf(c)
    BY <1>2 DEF InCacheOf, UsageOf
<1>5. Sound(m, holds, {e})
    BY <1>0, <1>2, <1>4 DEF Sound, Counted, Listed
<1>6. CASE e = NoHandle
    <2>1. d = m
        BY <1>3, <1>6 DEF FinishErase
    <2>2. InCacheOf(c) \ {e} = InCacheOf(c)
        BY <1>1, <1>6
    <2>3. Sound(m, holds, {})
        <3>1. InCacheOf(m) \ {} = InCacheOf(c) \ {e}
            BY <1>4, <2>2
        <3> QED BY <1>2, <1>5, <3>1 DEF Sound
    <2>4. Keeps(c, m)
        BY <1>2 DEF Keeps
    <2>5. \A x \in InCacheOf(m) : m.entry[x].key # key
        BY <1>1, <1>2, <1>4, <1>6
    <2> QED BY <1>2, <1>6, <2>1, <2>3, <2>4, <2>5 DEF d, e
<1>7. CASE e # NoHandle
    <2>1. e \in InCacheOf(m)
        BY <1>1, <1>4, <1>7
    <2>2. /\ Sound(d, holds, {}) /\ Keeps(m, d) /\ SameBut(m, d, e)
          /\ e \notin InCacheOf(d) /\ (holds[e] = 0 => e \notin DOMAIN d.entry)
          /\ ToSet(m.lru) \ {e} \subseteq ToSet(d.lru)
        BY <1>3, <1>5, <2>1, FinishEraseSound
    <2>3. Keeps(c, d)
        BY <1>2, <2>2 DEF Keeps
    <2>4. ASSUME NEW x \in InCacheOf(d) PROVE d.entry[x].key # key
        <3>1. x # e /\ x \in DOMAIN d.entry
            BY <2>2, <2>4 DEF InCacheOf
        <3>2. x \in DOMAIN m.entry /\ d.entry[x] = m.entry[x]
            BY <2>2, <3>1 DEF SameBut
        <3>3. x \in InCacheOf(c)
            BY <1>2, <2>4, <3>2 DEF InCacheOf
        <3> QED BY <1>1, <1>2, <3>1, <3>2, <3>3
    <2> QED BY <1>2, <1>7, <2>2, <2>3, <2>4 DEF d, e
<1> QED BY <1>6, <1>7

-----------------------------------------------------------------------------
(* The hash table grows and takes an entry.                                  *)
LEMMA PowersDouble ==
    ASSUME NEW k \in Nat
    PROVE  2^k \in Nat \ {0} /\ 2^(k + 1) \in Nat \ {0} /\ 2^(k + 1) = 2 * 2^k
<1> DEFINE A == SUBSET (1..k)
           B == {s \cup {k + 1} : s \in A}
           C == SUBSET (1..(k + 1))
           f == [s \in A |-> s \cup {k + 1}]
<1>0. /\ IsFiniteSet(1..k) /\ Cardinality(1..k) = k
      /\ IsFiniteSet(1..(k + 1)) /\ Cardinality(1..(k + 1)) = k + 1
    <2>1. 1 \in Int /\ k \in Int /\ k + 1 \in Int
        OBVIOUS
    <2> QED BY <2>1, FS_Interval
<1>1. IsFiniteSet(A) /\ Cardinality(A) = 2^k /\ Cardinality(A) \in Nat
    BY <1>0, FS_SUBSET, FS_CardinalityType
<1>2. IsFiniteSet(C) /\ Cardinality(C) = 2^(k + 1) /\ Cardinality(C) \in Nat
    BY <1>0, FS_SUBSET, FS_CardinalityType
<1>3. k + 1 \notin 1..k
    OBVIOUS
<1>4. f \in Bijection(A, B)
    <2>1. f \in [A -> B]
        OBVIOUS
    <2>2. \A s, t \in A : f[s] = f[t] => s = t
        BY <1>3
    <2>3. \A t \in B : \E s \in A : f[s] = t
        OBVIOUS
    <2> HIDE DEF f, A, B
    <2> QED BY <2>1, <2>2, <2>3, Fun_IsBij
<1>5. IsFiniteSet(B) /\ Cardinality(B) = Cardinality(A)
    <2> HIDE DEF f, A, B
    <2>1. ExistsBijection(A, B)
        BY <1>4, Fun_ExistsBij
    <2> QED BY <1>1, <2>1, FS_Bijection
<1>6. A \cap B = {}
    BY <1>3
<1>7. A \cup B = C
    <2>0. 1..(k + 1) = (1..k) \cup {k + 1}
        OBVIOUS
    <2>1. ASSUME NEW s \in C PROVE s \in A \cup B
        <3>1. CASE k + 1 \in s
            <4>1. s \ {k + 1} \in A /\ s = (s \ {k + 1}) \cup {k + 1}
                BY <2>0, <3>1
            <4> QED BY <4>1
        <3>2. CASE k + 1 \notin s
            BY <2>0, <3>2
        <3> QED BY <3>1, <3>2
    <2>2. A \cup B \subseteq C
        BY <2>0
    <2> QED BY <2>1, <2>2
<1>8. Cardinality(C) = Cardinality(A) + Cardinality(B) - 0
    <2> HIDE DEF A, B, C
    <2>1. Cardinality(A \cap B) = 0
        BY <1>6, FS_EmptySet
    <2> QED BY <1>1, <1>5, <1>7, <2>1, FS_Union
<1>9. Cardinality(A) # 0
    <2>1. A # {}
        OBVIOUS
    <2> HIDE DEF A
    <2> QED BY <1>1, <2>1, FS_EmptySet
<1> HIDE DEF A, B, C
<1>10. Cardinality(C) = 2 * Cardinality(A)
    BY <1>1, <1>5, <1>8
<1> DEFINE p == 2^k
           q == 2^(k + 1)
<1> HIDE DEF p, q
<1>11. p \in Nat /\ p # 0 /\ q \in Nat /\ q = 2 * p
    BY <1>1, <1>2, <1>9, <1>10 DEF p, q
<1> QED BY <1>11 DEF p, q

LEMMA PowersExceed ==
    ASSUME NEW n \in Nat
    PROVE  2^n >= n
<1> DEFINE T == {k \in Nat : 2^k >= k}
<1>1. 0 \in T
    OBVIOUS
<1>2. ASSUME NEW k \in T \cap Nat PROVE k + 1 \in T
    <2> DEFINE p == 2^k
               q == 2^(k + 1)
    <2>1. p \in Nat \ {0} /\ q = 2 * p /\ p >= k /\ k \in Nat
        BY PowersDouble
    <2> HIDE DEF p, q
    <2>2. q >= k + 1
        BY <2>1
    <2> QED BY <2>1, <2>2 DEF q
<1> HIDE DEF T
<1>3. Nat \subseteq T
    BY <1>1, <1>2, NumbersFromZero
<1> QED BY <1>3 DEF T

\* The length that the hash table grows to: it fits, as the code's loop ends.
LEMMA LengthFits ==
    ASSUME NEW elems \in Nat
    PROVE  \E n \in {MinBuckets * 2^i : i \in 0..elems} :
              n \in Nat \ {0} /\ n >= elems /\ (n = MinBuckets \/ n \div 2 < elems)
<1>0. MinBuckets \in Nat \ {0}
    BY CacheBounds
<1> DEFINE Length(i) == MinBuckets * 2^i
           F == {i \in 0..elems : Length(i) >= elems}
<1>1. \A i \in Nat : Length(i) \in Nat \ {0} /\ Length(i + 1) = 2 * Length(i)
    <2> TAKE i \in Nat
    <2> DEFINE p == 2^i
               q == 2^(i + 1)
    <2>1. p \in Nat \ {0} /\ q = 2 * p
        BY PowersDouble
    <2> HIDE DEF p, q
    <2>2. MinBuckets * p \in Nat \ {0} /\ MinBuckets * q = 2 * (MinBuckets * p)
        BY <1>0, <2>1
    <2> QED BY <2>2 DEF p, q
<1>2. elems \in F
    <2> DEFINE p == 2^elems
    <2>1. p \in Nat \ {0} /\ p >= elems
        BY PowersDouble, PowersExceed
    <2> HIDE DEF p
    <2>2. MinBuckets * p >= p
        BY <1>0, <2>1
    <2>3. MinBuckets * p >= elems
        BY <1>0, <2>1, <2>2
    <2> QED BY <2>3 DEF p
<1>3. PICK i \in F : \A j \in F : i <= j
    <2>1. F # {} /\ F \in SUBSET Nat
        BY <1>2
    <2> HIDE DEF F
    <2> QED BY <2>1, LeastNumber
<1>4. Length(i) \in Nat \ {0} /\ Length(i) >= elems /\ i \in 0..elems
    <2>1. i \in Nat
        BY <1>3
    <2> HIDE DEF Length
    <2> QED BY <1>1, <1>3, <2>1
<1>5. Length(i) = MinBuckets \/ Length(i) \div 2 < elems
    <2>1. CASE i = 0
        <3>1. 2^0 = 1
            OBVIOUS
        <3> QED BY <1>0, <2>1, <3>1
    <2>2. CASE i # 0
        <3>1. i - 1 \in Nat /\ i - 1 \notin F /\ i - 1 \in 0..elems /\ (i - 1) + 1 = i
            <4> HIDE DEF Length
            <4> QED BY <1>3, <2>2
        <3> HIDE DEF Length
        <3>2. Length(i) = 2 * Length(i - 1) /\ Length(i - 1) \in Nat
            BY <1>1, <3>1
        <3>3. Length(i - 1) < elems
            BY <3>1, <3>2
        <3>4. Length(i) \div 2 = Length(i - 1)
            BY <3>2
        <3> QED BY <3>3, <3>4
    <2> QED BY <2>1, <2>2
<1> QED BY <1>4, <1>5

LEMMA ResizeTableFacts ==
    ASSUME NEW c \in CacheState, NEW S, Hashed(c, S)
    PROVE  LET d == ResizeTable(c)
           IN  /\ d \in CacheState /\ Hashed(d, S)
               /\ d.entry = c.entry /\ d.lru = c.lru /\ d.inUse = c.inUse /\ d.usage = c.usage
<1> DEFINE elems == Cardinality(Elems(c))
           Fits(n) == n >= elems /\ (n = MinBuckets \/ n \div 2 < elems)
           fits == CHOOSE n \in {MinBuckets * 2^i : i \in 0..elems} : Fits(n)
           l == [b \in 0..(fits - 1) |-> {e \in Elems(c) : c.entry[e].key % fits = b}]
           d == ResizeTable(c)
<1>0. Elems(c) = S /\ S \subseteq DOMAIN c.entry /\ DOMAIN c.entry \subseteq EntryNumber
    BY CacheFields DEF Hashed
<1>1. elems \in Nat
    BY <1>0, EntriesFinite, FS_Subset, FS_CardinalityType
<1> HIDE DEF elems
<1>2. fits \in Nat \ {0}
    <2>1. \E n \in {MinBuckets * 2^i : i \in 0..elems} : n \in Nat \ {0} /\ Fits(n)
        BY <1>1, LengthFits
    <2>2. fits \in {MinBuckets * 2^i : i \in 0..elems}
        <3> HIDE DEF Fits
        <3> QED BY <2>1
    <2>3. \A i \in Nat : MinBuckets * 2^i \in Nat \ {0}
        <3> TAKE i \in Nat
        <3> DEFINE p == 2^i
        <3>1. p \in Nat \ {0} /\ MinBuckets \in Nat \ {0}
            BY PowersDouble, CacheBounds
        <3> HIDE DEF p
        <3>2. MinBuckets * p \in Nat \ {0}
            BY <3>1
        <3> QED BY <3>2 DEF p
    <2> HIDE DEF fits
    <2>4. PICK i \in 0..elems : fits = MinBuckets * 2^i
        BY <2>2
    <2> QED BY <2>3, <2>4
<1>3. d = [c EXCEPT !.list = l]
    BY DEF ResizeTable, elems
<1> HIDE DEF fits, d
<1>4. l \in BucketList /\ DOMAIN l = 0..(fits - 1) /\ Cardinality(DOMAIN l) = fits
    <2>1. l \in [0..(fits - 1) -> SUBSET EntryNumber]
        BY <1>0
    <2> HIDE DEF l
    <2>2. l \in BucketList
        BY <1>2, <2>1 DEF BucketList
    <2>3. Cardinality(0..(fits - 1)) = fits
        <3>1. 0 \in Int /\ fits - 1 \in Int
            BY <1>2
        <3> QED BY <1>2, <3>1, FS_Interval
    <2> QED BY <2>1, <2>2, <2>3
<1> HIDE DEF l
<1>5. /\ d \in CacheState /\ d.list = l
      /\ d.entry = c.entry /\ d.lru = c.lru /\ d.inUse = c.inUse /\ d.usage = c.usage
    BY <1>3, <1>4 DEF CacheState
<1>6. \A b \in 0..(fits - 1) : l[b] = {e \in S : c.entry[e].key % fits = b}
    BY <1>0 DEF l
<1>7. \A e \in S : c.entry[e].key % fits \in 0..(fits - 1)
    <2> TAKE e \in S
    <2>1. c.entry[e].key \in Nat
        BY <1>0, CacheFields, EntriesFinite DEF EntryRecord
    <2> QED BY <1>2, <2>1
<1>8. Elems(d) = S
    <2>1. ASSUME NEW e \in S PROVE e \in Elems(d)
        BY <1>4, <1>5, <1>6, <1>7 DEF Elems
    <2>2. Elems(d) \subseteq S
        BY <1>4, <1>5, <1>6 DEF Elems
    <2> QED BY <2>1, <2>2
<1>9. Hashed(d, S)
    <2>1. ASSUME NEW b \in DOMAIN d.list, NEW e \in d.list[b]
          PROVE  b = Bucket(d, d.entry[e].key)
        BY <1>4, <1>5, <1>6, <2>1 DEF Bucket
    <2> QED BY <1>0, <1>5, <1>8, <2>1 DEF Hashed
<1> QED BY <1>5, <1>9 DEF d

LEMMA InsertHandleFacts ==
    ASSUME NEW c \in CacheState, NEW S, Hashed(c, S), NEW e \in DOMAIN c.entry, e \notin S
    PROVE  LET d == InsertHandle(c, e)
               old == LookupHandle(c, c.entry[e].key)
           IN  /\ d \in CacheState /\ Hashed(d, (S \ {old}) \cup {e})
               /\ d.entry = c.entry /\ d.lru = c.lru /\ d.inUse = c.inUse /\ d.usage = c.usage
<1> DEFINE key == c.entry[e].key
           k == Bucket(c, key)
           old == LookupHandle(c, key)
           l == [c.list EXCEPT ![k] = (c.list[k] \ {old}) \cup {e}]
           m == [c EXCEPT !.list[Bucket(c, key)] = (@ \ {old}) \cup {e}]
           R == (S \ {old}) \cup {e}
           d == InsertHandle(c, e)
<1>0. /\ k \in DOMAIN c.list /\ c.list \in BucketList /\ e \in EntryNumber /\ key \in FileNumber
      /\ Elems(c) = S /\ S \subseteq DOMAIN c.entry
    BY CacheFields DEF EntryRecord, Hashed
<1>1. m = [c EXCEPT !.list = l]
    BY <1>0 DEF CacheState
<1>2. l \in BucketList /\ DOMAIN l = DOMAIN c.list
    <2>1. (c.list[k] \ {old}) \cup {e} \in SUBSET EntryNumber
        BY <1>0, BucketListFacts
    <2> QED BY <1>0, <2>1, BucketListExcept
<1>3. l[k] = (c.list[k] \ {old}) \cup {e} /\ \A b \in DOMAIN c.list : b # k => l[b] = c.list[b]
    BY <1>0, BucketListFacts
<1>4. d = m \/ d = ResizeTable(m)
    BY DEF InsertHandle
<1> HIDE DEF l, m, d
<1>5. m \in CacheState /\ m.list = l
      /\ m.entry = c.entry /\ m.lru = c.lru /\ m.inUse = c.inUse /\ m.usage = c.usage
    BY <1>1, <1>2 DEF CacheState
<1>6. \A x : Bucket(m, x) = Bucket(c, x)
    BY <1>2, <1>5 DEF Bucket
<1>7. old # NoHandle => old \in S /\ c.entry[old].key = key
    BY <1>0, LookupFacts
<1>8. \A x \in S : c.entry[x].key = key => x = old
    BY <1>0, LookupFacts
<1>9. NoHandle \notin S
    BY <1>0, LookupFacts
<1> HIDE DEF old
<1>10. \A b \in DOMAIN c.list : \A x \in c.list[b] : x \in S /\ b = Bucket(c, c.entry[x].key)
    BY <1>0 DEF Hashed, Elems
<1>11. \A b \in DOMAIN c.list : \A x : x \in l[b] <=> (x \in c.list[b] /\ x # old) \/ (b = k /\ x = e)
    <2> TAKE b \in DOMAIN c.list
    <2>1. CASE b = k
        <3>1. l[k] = (c.list[k] \ {old}) \cup {e}
            BY <1>3
        <3> HIDE DEF k
        <3> QED BY <2>1, <3>1
    <2>2. CASE b # k
        <3>1. old \notin c.list[b]
            BY <1>7, <1>9, <1>10, <2>2
        <3>2. l[b] = c.list[b]
            BY <1>3, <2>2
        <3> HIDE DEF k
        <3> QED BY <2>2, <3>1, <3>2
    <2> QED BY <2>1, <2>2
<1>12. Elems(m) = R
    <2>1. ASSUME NEW x PROVE x \in Elems(m) <=> x \in R
        <3>1. x \in Elems(m) <=> \E b \in DOMAIN c.list : x \in l[b]
            BY <1>2, <1>5 DEF Elems
        <3>2. x \in S <=> \E b \in DOMAIN c.list : x \in c.list[b]
            BY <1>0 DEF Elems
        <3> HIDE DEF k
        <3> QED BY <1>0, <1>11, <3>1, <3>2
    <2> QED BY <2>1
<1>13. Hashed(m, R)
    <2>1. ASSUME NEW b \in DOMAIN m.list, NEW x \in m.list[b]
          PROVE  b = Bucket(m, m.entry[x].key)
        <3>1. b \in DOMAIN c.list /\ x \in l[b]
            BY <1>2, <1>5
        <3>2. (x \in c.list[b] /\ x # old) \/ (b = k /\ x = e)
            BY <1>11, <3>1
        <3>3. CASE b = k /\ x = e
            BY <1>5, <1>6, <3>3
        <3>4. CASE x \in c.list[b]
            <4>1. b = Bucket(c, c.entry[x].key)
                BY <1>10, <3>1, <3>4
            <4> QED BY <1>5, <1>6, <4>1
        <3> QED BY <3>2, <3>3, <3>4
    <2>2. ASSUME NEW x \in R, NEW y \in R, m.entry[x].key = m.entry[y].key PROVE x = y
        <3>1. c.entry[x].key = c.entry[y].key
            BY <1>5, <2>2
        <3>2. CASE x \in S /\ y \in S
            BY <3>1, <3>2 DEF Hashed
        <3>3. CASE x = e /\ y # e
            <4>1. y \in S /\ y # old /\ c.entry[y].key = key
                BY <2>2, <3>1, <3>3
            <4> QED BY <1>8, <4>1
        <3>4. CASE y = e /\ x # e
            <4>1. x \in S /\ x # old /\ c.entry[x].key = key
                BY <2>2, <3>1, <3>4
            <4> QED BY <1>8, <4>1
        <3> QED BY <2>2, <3>2, <3>3, <3>4
    <2>3. R \subseteq DOMAIN m.entry
        BY <1>0, <1>5
    <2> HIDE DEF R
    <2> QED BY <1>12, <2>1, <2>2, <2>3 DEF Hashed
<1> HIDE DEF R
<1>14. CASE d = m
    BY <1>5, <1>13, <1>14 DEF d, R, old
<1>15. CASE d = ResizeTable(m)
    <2>1. /\ d \in CacheState /\ Hashed(d, R)
          /\ d.entry = m.entry /\ d.lru = m.lru /\ d.inUse = m.inUse /\ d.usage = m.usage
        BY <1>5, <1>13, <1>15, ResizeTableFacts
    <2> QED BY <1>5, <2>1 DEF d, R, old
<1> QED BY <1>4, <1>14, <1>15

-----------------------------------------------------------------------------
(* Loops that erase the oldest entries.                                      *)
LEMMA KeepsOn ==
    ASSUME NEW a, NEW b, NEW c, Keeps(a, b), Keeps(b, c)
    PROVE  Keeps(a, c)
BY DEF Keeps

\* While the entries of the old lru list are erased one after the other, those
\* that were not reached are on the list still.
Unreached(c, holds, s) ==
    {d \in CacheState : /\ Sound(d, holds, {}) /\ Keeps(c, d)
                        /\ \A j \in DOMAIN c.lru \ s : c.lru[j] \in ToSet(d.lru)}

LEMMA ErasedNext ==
    ASSUME NEW c, NEW holds \in [EntryNumber -> Nat], Sound(c, holds, {}),
           NEW s \in SUBSET (DOMAIN c.lru), NEW i \in s, NEW d \in Unreached(c, holds, s \ {i})
    PROVE  /\ d \in Unreached(c, holds, s)
           /\ EraseKey(d, d.entry[c.lru[i]].key) \in Unreached(c, holds, s)
<1> DEFINE x == c.lru[i]
           key == d.entry[x].key
           n == EraseKey(d, key)
<1>0. d \in CacheState /\ Sound(d, holds, {}) /\ Keeps(c, d)
      /\ (\A j \in DOMAIN c.lru \ (s \ {i}) : c.lru[j] \in ToSet(d.lru))
      /\ i \in DOMAIN c.lru
    BY DEF Unreached
<1>1. x \in InCacheOf(d) /\ Hashed(d, InCacheOf(d))
    <2>1. x \in ToSet(d.lru)
        BY <1>0
    <2>2. ToSet(d.lru) \subseteq InCacheOf(d)
        BY <1>0 DEF Sound, Listed, IsListOf
    <2>3. InCacheOf(d) \ {} = InCacheOf(d)
        OBVIOUS
    <2> QED BY <1>0, <2>1, <2>2, <2>3 DEF Sound
<1>2. key \in FileNumber
    BY <1>0, <1>1, CacheFields DEF InCacheOf, EntryRecord
<1>3. LookupHandle(d, key) = x
    BY <1>0, <1>1, <1>2, LookupFacts
<1> HIDE DEF key
<1>4. Sound(n, holds, {}) /\ Keeps(d, n) /\ ToSet(d.lru) \ {x} \subseteq ToSet(n.lru)
    <2> HIDE DEF n, x
    <2> QED BY <1>0, <1>2, <1>3, EraseKeySound DEF n
<1>5. ASSUME NEW j \in DOMAIN c.lru \ s PROVE c.lru[j] \in ToSet(n.lru)
    <2>1. IsInjective(c.lru)
        BY DEF Sound, Listed, IsListOf
    <2>2. c.lru[j] # x
        BY <1>0, <2>1 DEF IsInjective
    <2> HIDE DEF n, x
    <2> QED BY <1>0, <1>4, <2>2
<1>6. Keeps(c, n) /\ n \in CacheState
    <2> HIDE DEF n
    <2> QED BY <1>0, <1>4, KeepsOn DEF Sound
<1>7. n \in Unreached(c, holds, s)
    <2> HIDE DEF n
    <2> QED BY <1>4, <1>5, <1>6 DEF Unreached
<1>8. d \in Unreached(c, holds, s)
    BY <1>0 DEF Unreached
<1> QED BY <1>7, <1>8 DEF n, key, x

\* Nothing is reached yet.
LEMMA AllUnreached ==
    ASSUME NEW c, NEW holds \in [EntryNumber -> Nat], Sound(c, holds, {})
    PROVE  \A s : c \in Unreached(c, holds, s)
<1>1. c \in CacheState /\ Keeps(c, c)
    BY DEF Sound, Keeps
<1>2. \A j \in DOMAIN c.lru : c.lru[j] \in ToSet(c.lru)
    BY DEF ToSet
<1> QED BY <1>1, <1>2 DEF Unreached

LEMMA PruneAllSound ==
    ASSUME NEW c, NEW holds \in [EntryNumber -> Nat], Sound(c, holds, {})
    PROVE  Sound(PruneAll(c), holds, {}) /\ Keeps(c, PruneAll(c))
<1> DEFINE D == DOMAIN c.lru
           U == CacheState
           V == [s \in SUBSET D |-> Unreached(c, holds, s)]
           pick == [s \in SUBSET D |-> Max(s)]
           step == [i \in D |-> [d \in U |-> EraseKey(d, d.entry[c.lru[i]].key)]]
           Iter(f) == f = [s \in SUBSET D |->
                             IF s = {} THEN c
                             ELSE LET x == Max(s)
                                  IN  EraseKey(f[s \ {x}], f[s \ {x}].entry[c.lru[x]].key)]
           g == CHOOSE f : Iter(f)
<1>1. c \in CacheState /\ \E n \in Nat : D = 1..n
    <2>1. c \in CacheState /\ c.lru \in Seq(EntryNumber)
        BY CacheFields DEF Sound
    <2> QED BY <2>1
<1>2. IsFiniteSet(D) /\ \A s \in SUBSET D : s # {} => Max(s) \in s
    <2>1. PICK n \in Nat : D = 1..n
        BY <1>1
    <2>2. IsFiniteSet(1..n)
        BY <2>1, FS_Interval
    <2> HIDE DEF D
    <2> QED BY <2>1, <2>2, GreatestIndex
<1>3. \A s \in SUBSET D : V[s] \subseteq U /\ c \in V[s]
    BY AllUnreached DEF Unreached
<1>4. ASSUME NEW s \in SUBSET D, s # {}, NEW v \in V[s \ {Max(s)}]
      PROVE  EraseKey(v, v.entry[c.lru[Max(s)]].key) \in V[s] /\ v \in U
    <2>1. Max(s) \in s /\ s \ {Max(s)} \in SUBSET D
        BY <1>2, <1>4
    <2>2. v \in Unreached(c, holds, s \ {Max(s)})
        BY <1>4, <2>1
    <2>3. EraseKey(v, v.entry[c.lru[Max(s)]].key) \in Unreached(c, holds, s)
        BY <2>1, <2>2, ErasedNext
    <2>4. v \in U
        BY <2>2 DEF Unreached
    <2> QED BY <2>3, <2>4
<1>5. \A s \in SUBSET D : pick[s] = Max(s)
    OBVIOUS
<1> HIDE DEF D, U, V, pick
<1>6. PICK f : IsFamilyFold(f, D, U, V, c, pick, step)
    <2>1. ASSUME NEW s \in SUBSET D, s # {}, NEW v \in V[s \ {pick[s]}]
          PROVE  step[pick[s]][v] \in V[s]
        <3>1. pick[s] = Max(s) /\ pick[s] \in D
            BY <1>2, <1>5, <2>1
        <3>2. EraseKey(v, v.entry[c.lru[pick[s]]].key) \in V[s] /\ v \in U
            BY <1>4, <2>1, <3>1
        <3> QED BY <3>1, <3>2
    <2> HIDE DEF step
    <2>2. StaysInFamily(D, U, V, c, pick, step)
        BY <1>2, <1>3, <1>5, <2>1 DEF StaysInFamily
    <2> QED BY <1>2, <2>2, FamilyFoldExists
<1>7. Iter(f)
    <2>1. ASSUME NEW s \in SUBSET D, s # {}
          PROVE  f[s] = EraseKey(f[s \ {Max(s)}], f[s \ {Max(s)}].entry[c.lru[Max(s)]].key)
        <3>1. Max(s) \in D /\ s \ {Max(s)} \in SUBSET D /\ pick[s] = Max(s)
            BY <1>2, <1>5, <2>1
        <3>2. f[s] = step[Max(s)][f[s \ {Max(s)}]] /\ f[s \ {Max(s)}] \in U
            <4> HIDE DEF step
            <4> QED BY <1>6, <2>1, <3>1 DEF IsFamilyFold
        <3> QED BY <3>1, <3>2
    <2>2. f[{}] = c /\ f = [s \in SUBSET D |-> f[s]]
        <3> HIDE DEF step
        <3> QED BY <1>6 DEF IsFamilyFold
    <2> QED BY <2>1, <2>2
<1>8. Iter(g)
    BY <1>7
<1>9. PruneAll(c) = g[D]
    BY DEF PruneAll, FoldLeft, MapThenFoldSet, D
<1>10. \A s \in SUBSET D :
          g[s] = IF s = {} THEN c
                 ELSE EraseKey(g[s \ {Max(s)}], g[s \ {Max(s)}].entry[c.lru[Max(s)]].key)
    <2> HIDE DEF g
    <2>1. g = [s \in SUBSET D |->
                 IF s = {} THEN c
                 ELSE LET x == Max(s)
                      IN  EraseKey(g[s \ {x}], g[s \ {x}].entry[c.lru[x]].key)]
        BY <1>8
    <2> HIDE DEF Iter
    <2> QED BY <2>1
<1> HIDE DEF g, Iter, step
<1>11. g[D] \in V[D]
    <2>1. g[{}] \in V[{}]
        BY <1>3, <1>10
    <2>2. ASSUME NEW s \in SUBSET D, s # {}
          PROVE  /\ pick[s] \in s
                 /\ g[s \ {pick[s]}] \in V[s \ {pick[s]}] => g[s] \in V[s]
        <3>1. pick[s] = Max(s) /\ pick[s] \in s
            BY <1>2, <1>5, <2>2
        <3> DEFINE v == g[s \ {Max(s)}]
        <3>2. g[s] = EraseKey(v, v.entry[c.lru[Max(s)]].key)
            BY <1>10, <2>2
        <3> HIDE DEF v
        <3>3. v \in V[s \ {Max(s)}] => g[s] \in V[s]
            BY <1>4, <2>2, <3>2
        <3> QED BY <3>1, <3>3 DEF v
    <2> QED BY <1>2, <2>1, <2>2, FamilyFoldStays
<1>12. g[D] \in Unreached(c, holds, D)
    BY <1>11 DEF V
<1> QED BY <1>9, <1>12 DEF Unreached

-----------------------------------------------------------------------------
(* An entry is inserted.                                                     *)
\* InsertEntry, step by step.
Allocated(c, e, key, charge) ==
    [c EXCEPT !.entry = [d \in DOMAIN @ \cup {e} |->
        IF d = e THEN [key |-> key, charge |-> charge, refs |-> 1, inCache |-> FALSE] ELSE @[d]]]
Referenced(a, e, charge) ==
    [a EXCEPT !.entry[e].refs = 2, !.entry[e].inCache = TRUE,
              !.inUse = Append(@, e), !.usage = @ + charge]
Entered(c, e, key, charge) ==
    IF Capacity > 0
    THEN FinishErase(InsertHandle(Referenced(Allocated(c, e, key, charge), e, charge), e),
                     LookupHandle(c, key))
    ELSE Allocated(c, e, key, charge)
EvictOldest(d, oldest) == IF d.usage > Capacity THEN EraseKey(d, d.entry[oldest].key) ELSE d

LEMMA EvictedNext ==
    ASSUME NEW c, NEW holds \in [EntryNumber -> Nat], Sound(c, holds, {}),
           NEW s \in SUBSET (DOMAIN c.lru), NEW i \in s, NEW d \in Unreached(c, holds, s \ {i})
    PROVE  EvictOldest(d, c.lru[i]) \in Unreached(c, holds, s) /\ d \in CacheState
<1>1. d \in CacheState
    BY DEF Unreached
<1> QED BY <1>1, ErasedNext DEF EvictOldest

LEMMA EvictedSound ==
    ASSUME NEW c, NEW holds \in [EntryNumber -> Nat], Sound(c, holds, {}), NEW out,
           out = FoldLeft(EvictOldest, c, c.lru)
    PROVE  Sound(out, holds, {}) /\ Keeps(c, out)
<1> DEFINE D == DOMAIN c.lru
           U == CacheState
           V == [s \in SUBSET D |-> Unreached(c, holds, s)]
           pick == [s \in SUBSET D |-> Max(s)]
           step == [i \in D |-> [d \in U |-> EvictOldest(d, c.lru[i])]]
           Iter(f) == f = [s \in SUBSET D |->
                             IF s = {} THEN c
                             ELSE LET x == Max(s) IN EvictOldest(f[s \ {x}], c.lru[x])]
           g == CHOOSE f : Iter(f)
<1>1. c \in CacheState /\ \E n \in Nat : D = 1..n
    <2>1. c \in CacheState /\ c.lru \in Seq(EntryNumber)
        BY CacheFields DEF Sound
    <2> QED BY <2>1
<1>2. IsFiniteSet(D) /\ \A s \in SUBSET D : s # {} => Max(s) \in s
    <2>1. PICK n \in Nat : D = 1..n
        BY <1>1
    <2>2. IsFiniteSet(1..n)
        BY <2>1, FS_Interval
    <2> HIDE DEF D
    <2> QED BY <2>1, <2>2, GreatestIndex
<1>3. \A s \in SUBSET D : V[s] \subseteq U /\ c \in V[s]
    BY AllUnreached DEF Unreached
<1>4. ASSUME NEW s \in SUBSET D, s # {}, NEW v \in V[s \ {Max(s)}]
      PROVE  EvictOldest(v, c.lru[Max(s)]) \in V[s] /\ v \in U
    <2>1. Max(s) \in s /\ s \ {Max(s)} \in SUBSET D
        BY <1>2, <1>4
    <2>2. v \in Unreached(c, holds, s \ {Max(s)})
        BY <1>4, <2>1
    <2>3. EvictOldest(v, c.lru[Max(s)]) \in Unreached(c, holds, s) /\ v \in U
        BY <2>1, <2>2, EvictedNext
    <2> QED BY <2>3
<1>5. \A s \in SUBSET D : pick[s] = Max(s)
    OBVIOUS
<1> HIDE DEF D, U, V, pick
<1>6. PICK f : IsFamilyFold(f, D, U, V, c, pick, step)
    <2>1. ASSUME NEW s \in SUBSET D, s # {}, NEW v \in V[s \ {pick[s]}]
          PROVE  step[pick[s]][v] \in V[s]
        <3>1. pick[s] = Max(s) /\ pick[s] \in D
            BY <1>2, <1>5, <2>1
        <3>2. EvictOldest(v, c.lru[pick[s]]) \in V[s] /\ v \in U
            BY <1>4, <2>1, <3>1
        <3> QED BY <3>1, <3>2
    <2> HIDE DEF step
    <2>2. StaysInFamily(D, U, V, c, pick, step)
        BY <1>2, <1>3, <1>5, <2>1 DEF StaysInFamily
    <2> QED BY <1>2, <2>2, FamilyFoldExists
<1>7. Iter(f)
    <2>1. ASSUME NEW s \in SUBSET D, s # {}
          PROVE  f[s] = EvictOldest(f[s \ {Max(s)}], c.lru[Max(s)])
        <3>1. Max(s) \in D /\ s \ {Max(s)} \in SUBSET D /\ pick[s] = Max(s)
            BY <1>2, <1>5, <2>1
        <3>2. f[s] = step[Max(s)][f[s \ {Max(s)}]] /\ f[s \ {Max(s)}] \in U
            <4> HIDE DEF step
            <4> QED BY <1>6, <2>1, <3>1 DEF IsFamilyFold
        <3> QED BY <3>1, <3>2
    <2>2. f[{}] = c /\ f = [s \in SUBSET D |-> f[s]]
        <3> HIDE DEF step
        <3> QED BY <1>6 DEF IsFamilyFold
    <2> QED BY <2>1, <2>2
<1>8. Iter(g)
    BY <1>7
<1>9. out = g[D]
    BY DEF FoldLeft, MapThenFoldSet, D
<1>10. \A s \in SUBSET D :
          g[s] = IF s = {} THEN c ELSE EvictOldest(g[s \ {Max(s)}], c.lru[Max(s)])
    <2> HIDE DEF g
    <2>1. g = [s \in SUBSET D |->
                 IF s = {} THEN c ELSE LET x == Max(s) IN EvictOldest(g[s \ {x}], c.lru[x])]
        BY <1>8
    <2> HIDE DEF Iter
    <2> QED BY <2>1
<1> HIDE DEF g, Iter, step
<1>11. g[D] \in V[D]
    <2>1. g[{}] \in V[{}]
        BY <1>3, <1>10
    <2>2. ASSUME NEW s \in SUBSET D, s # {}
          PROVE  /\ pick[s] \in s
                 /\ g[s \ {pick[s]}] \in V[s \ {pick[s]}] => g[s] \in V[s]
        <3>1. pick[s] = Max(s) /\ pick[s] \in s
            BY <1>2, <1>5, <2>2
        <3> DEFINE v == g[s \ {Max(s)}]
        <3>2. g[s] = EvictOldest(v, c.lru[Max(s)])
            BY <1>10, <2>2
        <3> HIDE DEF v
        <3>3. v \in V[s \ {Max(s)}] => g[s] \in V[s]
            BY <1>4, <2>2, <3>2
        <3> QED BY <3>1, <3>3 DEF v
    <2> QED BY <1>2, <2>1, <2>2, FamilyFoldStays
<1>12. g[D] \in Unreached(c, holds, D)
    BY <1>11 DEF V
<1> QED BY <1>9, <1>12 DEF Unreached

LEMMA InsertEntryIs ==
    ASSUME NEW c, NEW e, NEW key, NEW charge
    PROVE  LET m == Entered(c, e, key, charge)
           IN  InsertEntry(c, e, key, charge) = FoldLeft(EvictOldest, m, m.lru)
BY Zenon DEF InsertEntry, Entered, Referenced, Allocated, EvictOldest, FoldLeft, MapThenFoldSet

LEMMA AllocatedSound ==
    ASSUME NEW c, NEW holds \in [EntryNumber -> Nat], Sound(c, holds, {}),
           NEW e \in EntryNumber, e \notin DOMAIN c.entry, NEW key \in FileNumber, NEW charge \in Nat
    PROVE  LET a == Allocated(c, e, key, charge)
           IN  /\ Sound(a, WithHandles(holds, e, 1), {}) /\ InCacheOf(a) = InCacheOf(c)
               /\ DOMAIN a.entry = DOMAIN c.entry \cup {e}
               /\ a.entry[e] = [key |-> key, charge |-> charge, refs |-> 1, inCache |-> FALSE]
               /\ \A x \in DOMAIN c.entry : a.entry[x] = c.entry[x]
               /\ a.list = c.list
<1> USE DEF WithHandles
<1> DEFINE a == Allocated(c, e, key, charge)
           new == [key |-> key, charge |-> charge, refs |-> 1, inCache |-> FALSE]
           entries == [d \in DOMAIN c.entry \cup {e} |-> IF d = e THEN new ELSE c.entry[d]]
           more == WithHandles(holds, e, 1)
<1>0. /\ c \in CacheState /\ Counted(c, holds) /\ Listed(c) /\ Hashed(c, InCacheOf(c))
      /\ c.usage = UsageOf(c) /\ e \notin DOMAIN c.entry /\ e \in EntryNumber
    <2>1. InCacheOf(c) \ {} = InCacheOf(c)
        OBVIOUS
    <2> QED BY <2>1 DEF Sound
<1>1. new \in EntryRecord
    BY DEF EntryRecord
<1>2. /\ entries \in EntryMap /\ DOMAIN entries = DOMAIN c.entry \cup {e}
      /\ entries[e] = new /\ \A x \in DOMAIN c.entry : entries[x] = c.entry[x]
    <2>1. DOMAIN entries = DOMAIN c.entry \cup {e} /\ DOMAIN entries \subseteq EntryNumber
        BY <1>0, CacheFields
    <2>2. entries[e] = new /\ \A x \in DOMAIN c.entry : entries[x] = c.entry[x]
        BY <1>0
    <2>3. entries = [d \in DOMAIN entries |-> entries[d]]
        OBVIOUS
    <2> HIDE DEF entries, new
    <2>4. \A x \in DOMAIN entries : entries[x] \in EntryRecord
        BY <1>0, <1>1, <2>1, <2>2, CacheFields
    <2> QED BY <2>1, <2>2, <2>3, <2>4, EntryMapFacts
<1>3. a = [c EXCEPT !.entry = entries]
    BY <1>0 DEF Allocated, CacheState
<1> HIDE DEF entries, a
<1>4. /\ a \in CacheState /\ a.entry = entries /\ a.lru = c.lru /\ a.inUse = c.inUse
      /\ a.usage = c.usage /\ a.list = c.list
    BY <1>0, <1>2, <1>3 DEF CacheState
<1>5. new.refs = 1 /\ new.key = key /\ ~new.inCache
    OBVIOUS
<1> HIDE DEF new
<1>6. InCacheOf(a) = InCacheOf(c)
    BY <1>2, <1>4, <1>5 DEF InCacheOf
<1>7. \A x \in InCacheOf(c) : x \in DOMAIN a.entry /\ a.entry[x] = c.entry[x]
    BY <1>2, <1>4 DEF InCacheOf
<1>8. Counted(a, more)
    <2>1. ASSUME NEW x \in DOMAIN a.entry
          PROVE  /\ a.entry[x].refs = more[x] + (IF a.entry[x].inCache THEN 1 ELSE 0)
                 /\ a.entry[x].refs > 0
        <3>1. CASE x = e
            <4>1. more[e] = 1
                BY <1>0
            <4> QED BY <1>2, <1>4, <1>5, <3>1, <4>1
        <3>2. CASE x # e
            <4>1. x \in DOMAIN c.entry /\ a.entry[x] = c.entry[x] /\ more[x] = holds[x]
                BY <1>0, <1>2, <1>4, <2>1, <3>2, CacheFields
            <4> QED BY <1>0, <4>1 DEF Counted
        <3> QED BY <3>1, <3>2
    <2>2. ASSUME NEW x \in EntryNumber, more[x] > 0 PROVE x \in DOMAIN a.entry
        BY <1>0, <1>2, <1>4, <2>2 DEF Counted
    <2> HIDE DEF more
    <2> QED BY <2>1, <2>2 DEF Counted
<1>9. Listed(a)
    <2>1. /\ {x \in InCacheOf(a) : a.entry[x].refs = 1} = {x \in InCacheOf(c) : c.entry[x].refs = 1}
          /\ {x \in InCacheOf(a) : a.entry[x].refs > 1} = {x \in InCacheOf(c) : c.entry[x].refs > 1}
        BY <1>6, <1>7
    <2> QED BY <1>0, <1>4, <2>1 DEF Listed
<1>10. Hashed(a, InCacheOf(a) \ {})
    <2>1. Hashed(a, InCacheOf(c))
        BY <1>0, <1>4, <1>7, HashedSame
    <2>2. InCacheOf(a) \ {} = InCacheOf(c)
        BY <1>6
    <2> QED BY <2>1, <2>2
<1>11. a.usage = UsageOf(a)
    BY <1>0, <1>4, <1>6, <1>7, UsageSame
<1>12. Sound(a, more, {})
    BY <1>4, <1>8, <1>9, <1>10, <1>11 DEF Sound
<1> QED BY <1>2, <1>4, <1>6, <1>12 DEF a, new

LEMMA ReferencedSound ==
    ASSUME NEW a, NEW holds \in [EntryNumber -> Nat], Sound(a, holds, {}),
           NEW e, e \in DOMAIN a.entry, ~a.entry[e].inCache, holds[e] = 1
    PROVE  LET r == Referenced(a, e, a.entry[e].charge)
           IN  /\ Sound(r, holds, {e}) /\ InCacheOf(r) = InCacheOf(a) \cup {e} /\ r.list = a.list
               /\ Keeps(a, r) /\ DOMAIN r.entry = DOMAIN a.entry
<1> DEFINE charge == a.entry[e].charge
           r == Referenced(a, e, charge)
           new == [a.entry[e] EXCEPT !.refs = 2, !.inCache = TRUE]
           entries == [a.entry EXCEPT ![e] = new]
           u == a.usage + charge
<1>0. /\ a \in CacheState /\ Counted(a, holds) /\ Listed(a) /\ Hashed(a, InCacheOf(a))
      /\ a.usage = UsageOf(a) /\ e \in EntryNumber /\ a.entry[e] \in EntryRecord /\ charge \in Nat
      /\ e \notin InCacheOf(a) /\ a.entry \in EntryMap /\ a.usage \in Int
    <2>1. InCacheOf(a) \ {} = InCacheOf(a)
        OBVIOUS
    <2>2. /\ a \in CacheState /\ Counted(a, holds) /\ Listed(a) /\ Hashed(a, InCacheOf(a))
          /\ a.usage = UsageOf(a)
        BY <2>1 DEF Sound
    <2>3. e \in EntryNumber /\ a.entry[e] \in EntryRecord /\ a.entry \in EntryMap /\ a.usage \in Int
        BY <2>2, CacheFields
    <2>4. charge \in Nat
        BY <2>3 DEF EntryRecord
    <2> QED BY <2>2, <2>3, <2>4 DEF InCacheOf
<1>1. new \in EntryRecord /\ new.refs = 2 /\ new.inCache /\ new.key = a.entry[e].key
      /\ new.charge = charge
    BY <1>0 DEF EntryRecord
<1>2. /\ entries \in EntryMap /\ DOMAIN entries = DOMAIN a.entry
      /\ entries[e] = new /\ \A x \in DOMAIN a.entry \ {e} : entries[x] = a.entry[x]
    <2> HIDE DEF new
    <2> QED BY <1>0, <1>1, EntryExcept
<1>3. r = [a EXCEPT !.entry = entries, !.inUse = Append(a.inUse, e), !.usage = u]
    BY <1>0 DEF Referenced, CacheState, EntryRecord
<1>4. Append(a.inUse, e) \in Seq(EntryNumber) /\ u \in Int
    BY <1>0 DEF CacheState
<1> HIDE DEF entries, r, new, u, charge
<1>5. /\ r \in CacheState /\ r.entry = entries /\ r.lru = a.lru /\ r.inUse = Append(a.inUse, e)
      /\ r.usage = u /\ r.list = a.list
    BY <1>0, <1>2, <1>3, <1>4 DEF CacheState
<1>6. InCacheOf(r) = InCacheOf(a) \cup {e}
    BY <1>0, <1>1, <1>2, <1>5 DEF InCacheOf
<1>7. \A x \in InCacheOf(a) : x # e /\ x \in DOMAIN r.entry /\ r.entry[x] = a.entry[x]
    BY <1>0, <1>2, <1>5 DEF InCacheOf
<1>8. Counted(r, holds)
    <2>1. ASSUME NEW x \in DOMAIN r.entry
          PROVE  /\ r.entry[x].refs = holds[x] + (IF r.entry[x].inCache THEN 1 ELSE 0)
                 /\ r.entry[x].refs > 0
        <3>1. CASE x = e
            BY <1>1, <1>2, <1>5, <3>1
        <3>2. CASE x # e
            <4>1. x \in DOMAIN a.entry /\ r.entry[x] = a.entry[x]
                BY <1>2, <1>5, <2>1, <3>2
            <4> QED BY <1>0, <4>1 DEF Counted
        <3> QED BY <3>1, <3>2
    <2>2. \A x \in EntryNumber : holds[x] > 0 => x \in DOMAIN r.entry
        BY <1>0, <1>2, <1>5 DEF Counted
    <2> QED BY <2>1, <2>2 DEF Counted
<1>9. Listed(r)
    <2> DEFINE busy == {x \in InCacheOf(a) : a.entry[x].refs > 1}
    <2>0. r.entry[e].refs = 2
        BY <1>1, <1>2, <1>5
    <2>1. {x \in InCacheOf(r) : r.entry[x].refs = 1} = {x \in InCacheOf(a) : a.entry[x].refs = 1}
        BY <1>6, <1>7, <2>0
    <2>2. {x \in InCacheOf(r) : r.entry[x].refs > 1} = busy \cup {e}
        BY <1>6, <1>7, <2>0
    <2>3. e \notin busy
        BY <1>0
    <2>4. IsListOf(a.inUse, busy)
        BY <1>0 DEF Listed
    <2> HIDE DEF busy
    <2>5. IsListOf(r.inUse, busy \cup {e})
        BY <1>0, <1>5, <2>3, <2>4, ListWith
    <2> QED BY <1>0, <1>5, <2>1, <2>2, <2>5 DEF Listed
<1>10. Hashed(r, InCacheOf(r) \ {e})
    <2>1. Hashed(r, InCacheOf(a))
        BY <1>0, <1>5, <1>7, HashedSame
    <2>2. InCacheOf(r) \ {e} = InCacheOf(a)
        BY <1>0, <1>6
    <2> QED BY <2>1, <2>2
<1>11. r.usage = UsageOf(r)
    <2>1. InCacheOf(a) = InCacheOf(r) \ {e} /\ e \in InCacheOf(r)
        BY <1>0, <1>6
    <2>2. \A x \in InCacheOf(a) : a.entry[x].charge = r.entry[x].charge
        BY <1>7
    <2>3. UsageOf(r) = r.entry[e].charge + UsageOf(a)
        BY <1>0, <1>5, <2>1, <2>2, UsageLess
    <2>4. r.entry[e].charge = charge
        BY <1>1, <1>2, <1>5
    <2> QED BY <1>0, <1>5, <2>3, <2>4 DEF u
<1>12. Keeps(a, r)
    BY <1>1, <1>2, <1>5 DEF Keeps
<1>13. Sound(r, holds, {e})
    BY <1>5, <1>8, <1>9, <1>10, <1>11 DEF Sound
<1> QED BY <1>2, <1>5, <1>6, <1>12, <1>13 DEF r, charge

LEMMA LookupSame ==
    ASSUME NEW c \in CacheState, NEW d, NEW key \in FileNumber, d.list = c.list,
           \A e \in Elems(c) : d.entry[e].key = c.entry[e].key
    PROVE  LookupHandle(d, key) = LookupHandle(c, key)
<1>1. Bucket(d, key) = Bucket(c, key) /\ Bucket(c, key) \in DOMAIN c.list
    BY CacheFields DEF Bucket
<1>2. \A e \in c.list[Bucket(c, key)] : e \in Elems(c)
    BY <1>1 DEF Elems
<1> DEFINE F == {e \in d.list[Bucket(d, key)] : d.entry[e].key = key}
           G == {e \in c.list[Bucket(c, key)] : c.entry[e].key = key}
<1>3. F = G
    BY <1>1, <1>2
<1>4. /\ LookupHandle(d, key) = IF F = {} THEN NoHandle ELSE CHOOSE e \in F : TRUE
      /\ LookupHandle(c, key) = IF G = {} THEN NoHandle ELSE CHOOSE e \in G : TRUE
    BY DEF LookupHandle
<1> HIDE DEF F, G
<1> QED BY <1>3, <1>4

LEMMA EnteredSound ==
    ASSUME NEW c, NEW holds \in [EntryNumber -> Nat], Sound(c, holds, {}),
           NEW e \in EntryNumber, e \notin DOMAIN c.entry, NEW key \in FileNumber, NEW charge \in Nat
    PROVE  LET m == Entered(c, e, key, charge)
           IN  /\ Sound(m, WithHandles(holds, e, 1), {})
               /\ DOMAIN m.entry \subseteq DOMAIN c.entry \cup {e}
               /\ \A x \in DOMAIN m.entry :
                     m.entry[x].key = IF x = e THEN key ELSE c.entry[x].key
<1> DEFINE more == WithHandles(holds, e, 1)
           a == Allocated(c, e, key, charge)
           r == Referenced(a, e, charge)
           h == InsertHandle(r, e)
           old == LookupHandle(c, key)
           m == Entered(c, e, key, charge)
<1>0. more \in [EntryNumber -> Nat] /\ more[e] = 1
    BY DEF WithHandles
<1>1. /\ Sound(a, more, {}) /\ InCacheOf(a) = InCacheOf(c)
      /\ DOMAIN a.entry = DOMAIN c.entry \cup {e}
      /\ a.entry[e] = [key |-> key, charge |-> charge, refs |-> 1, inCache |-> FALSE]
      /\ \A x \in DOMAIN c.entry : a.entry[x] = c.entry[x]
      /\ a.list = c.list
    <2> HIDE DEF a
    <2> QED BY AllocatedSound DEF a
<1>2. /\ a.entry[e].key = key /\ a.entry[e].charge = charge /\ ~a.entry[e].inCache /\ e \in DOMAIN a.entry
    BY <1>1
<1> HIDE DEF a, more, m
<1>3. \A x \in DOMAIN a.entry : a.entry[x].key = IF x = e THEN key ELSE c.entry[x].key
    BY <1>1, <1>2
<1>4. CASE ~(Capacity > 0)
    <2>1. m = a
        BY <1>4 DEF m, Entered, a
    <2> QED BY <1>1, <1>3, <2>1 DEF m, more
<1>5. CASE Capacity > 0
    <2>1. m = FinishErase(h, old)
        BY <1>5 DEF m, Entered, a
    <2>2. /\ Sound(r, more, {e}) /\ InCacheOf(r) = InCacheOf(a) \cup {e} /\ r.list = a.list
          /\ Keeps(a, r) /\ DOMAIN r.entry = DOMAIN a.entry
        <3>1. r = Referenced(a, e, a.entry[e].charge)
            BY <1>2
        <3> HIDE DEF r
        <3>2. more[e] = 1 /\ more \in [EntryNumber -> Nat] /\ Sound(a, more, {})
              /\ e \in DOMAIN a.entry /\ ~a.entry[e].inCache
            BY <1>0, <1>1, <1>2
        <3> QED BY <3>1, <3>2, ReferencedSound
    <2> HIDE DEF r
    <2>3. /\ r \in CacheState /\ Hashed(r, InCacheOf(r) \ {e}) /\ e \in DOMAIN r.entry
          /\ r.entry[e].key = key /\ Counted(r, more) /\ Listed(r) /\ r.usage = UsageOf(r)
        BY <1>2, <2>2 DEF Sound, Keeps
    <2>4. c \in CacheState /\ Hashed(c, InCacheOf(c))
        <3>1. InCacheOf(c) \ {} = InCacheOf(c)
            OBVIOUS
        <3> QED BY <3>1 DEF Sound
    <2>5. LookupHandle(r, key) = old
        <3>1. ASSUME NEW x \in Elems(c) PROVE r.entry[x].key = c.entry[x].key
            <4>1. x \in DOMAIN c.entry /\ x # e
                BY <2>4, <3>1 DEF Hashed
            <4> QED BY <1>1, <2>2, <4>1 DEF Keeps
        <3> QED BY <1>1, <2>2, <2>4, <3>1, LookupSame
    <2>6. /\ old # NoHandle => old \in InCacheOf(c)
          /\ NoHandle \notin InCacheOf(c)
        BY <2>4, LookupFacts
    <2>7. e # old /\ e # NoHandle
        BY <2>6, EntriesFinite DEF InCacheOf
    <2> HIDE DEF old
    <2>8. /\ h \in CacheState /\ Hashed(h, ((InCacheOf(r) \ {e}) \ {old}) \cup {e})
          /\ h.entry = r.entry /\ h.lru = r.lru /\ h.inUse = r.inUse /\ h.usage = r.usage
        <3> HIDE DEF h
        <3>1. e \notin InCacheOf(r) \ {e}
            OBVIOUS
        <3> QED BY <2>3, <2>5, <3>1, InsertHandleFacts DEF h
    <2> HIDE DEF h
    <2>9. InCacheOf(h) = InCacheOf(r) /\ UsageOf(h) = UsageOf(r)
        BY <2>8 DEF InCacheOf, UsageOf
    <2>10. ((InCacheOf(r) \ {e}) \ {old}) \cup {e} = InCacheOf(h) \ {old}
        BY <2>2, <2>7, <2>9
    <2>11. Sound(h, more, {old})
        BY <2>3, <2>8, <2>9, <2>10 DEF Sound, Counted, Listed
    <2>12. DOMAIN h.entry = DOMAIN a.entry
           /\ \A x \in DOMAIN h.entry : h.entry[x].key = IF x = e THEN key ELSE c.entry[x].key
        BY <1>3, <2>2, <2>8 DEF Keeps
    <2>13. CASE old = NoHandle
        <3>1. m = h
            BY <2>1, <2>13 DEF FinishErase
        <3>2. InCacheOf(h) \ {old} = InCacheOf(h) \ {}
            BY <1>1, <2>2, <2>6, <2>7, <2>9, <2>13
        <3>3. Sound(m, more, {})
            BY <2>11, <3>1, <3>2 DEF Sound
        <3> QED BY <1>1, <2>12, <3>1, <3>3 DEF m, more
    <2>14. CASE old # NoHandle
        <3>1. old \in InCacheOf(h)
            BY <1>1, <2>2, <2>6, <2>9, <2>14
        <3>2. Sound(m, more, {}) /\ Keeps(h, m)
            BY <1>0, <2>1, <2>11, <3>1, FinishEraseSound
        <3>3. DOMAIN m.entry \subseteq DOMAIN c.entry \cup {e}
            BY <1>1, <2>12, <3>2 DEF Keeps
        <3>4. \A x \in DOMAIN m.entry : m.entry[x].key = IF x = e THEN key ELSE c.entry[x].key
            BY <2>12, <3>2 DEF Keeps
        <3> QED BY <3>2, <3>3, <3>4 DEF m, more
    <2> QED BY <2>13, <2>14
<1> QED BY <1>4, <1>5

LEMMA InsertEntrySound ==
    ASSUME NEW c, NEW holds \in [EntryNumber -> Nat], Sound(c, holds, {}),
           NEW e \in EntryNumber, e \notin DOMAIN c.entry, NEW key \in FileNumber, NEW charge \in Nat
    PROVE  LET d == InsertEntry(c, e, key, charge)
           IN  /\ Sound(d, WithHandles(holds, e, 1), {})
               /\ DOMAIN d.entry \subseteq DOMAIN c.entry \cup {e}
               /\ \A x \in DOMAIN d.entry :
                     d.entry[x].key = IF x = e THEN key ELSE c.entry[x].key
<1> DEFINE more == WithHandles(holds, e, 1)
           m == Entered(c, e, key, charge)
           d == InsertEntry(c, e, key, charge)
<1>0. more \in [EntryNumber -> Nat]
    BY DEF WithHandles
<1>1. d = FoldLeft(EvictOldest, m, m.lru)
    BY InsertEntryIs, Zenon
<1>2. /\ Sound(m, more, {}) /\ DOMAIN m.entry \subseteq DOMAIN c.entry \cup {e}
      /\ \A x \in DOMAIN m.entry : m.entry[x].key = IF x = e THEN key ELSE c.entry[x].key
    BY EnteredSound
<1> HIDE DEF m, d, more
<1>3. Sound(d, more, {}) /\ Keeps(m, d)
    BY <1>0, <1>1, <1>2, EvictedSound, Zenon
<1> QED BY <1>2, <1>3 DEF Keeps, d, more

-----------------------------------------------------------------------------
(* The threads and their handles.                                            *)
Callers == [CacheThread -> [pc : {"idle", "opening", "holding"}, file : FileNumber \cup {0},
                            handle : EntryNumber \cup {NoHandle}]]

HoldersIn(f, e) == {t \in CacheThread : f[t].handle = e}
HandlesIn(f) == [e \in EntryNumber |-> Cardinality(HoldersIn(f, e))]

LEMMA HoldersFinite ==
    ASSUME NEW f, NEW e
    PROVE  IsFiniteSet(HoldersIn(f, e)) /\ Cardinality(HoldersIn(f, e)) \in Nat
<1>1. HoldersIn(f, e) \subseteq CacheThread
    BY DEF HoldersIn
<1> QED BY <1>1, CacheBounds, FS_Subset, FS_CardinalityType

LEMMA HandlesType == ASSUME NEW f PROVE HandlesIn(f) \in [EntryNumber -> Nat]
BY HoldersFinite DEF HandlesIn

\* Some thread has a handle of an entry that is counted.
LEMMA HeldBySome ==
    ASSUME NEW f, NEW e \in EntryNumber
    PROVE  HandlesIn(f)[e] > 0 <=> \E t \in CacheThread : f[t].handle = e
<1>1. HandlesIn(f)[e] = Cardinality(HoldersIn(f, e))
    BY DEF HandlesIn
<1>2. Cardinality(HoldersIn(f, e)) = 0 <=> HoldersIn(f, e) = {}
    BY HoldersFinite, FS_EmptySet
<1>3. HoldersIn(f, e) = {} <=> ~\E t \in CacheThread : f[t].handle = e
    BY DEF HoldersIn
<1> QED BY <1>1, <1>2, <1>3, HoldersFinite

\* A thread that gets a handle or gives one back.
LEMMA HandleTaken ==
    ASSUME NEW f, NEW g, NEW t \in CacheThread, NEW e \in EntryNumber,
           f[t].handle # e, g[t].handle = e, f[t].handle = NoHandle,
           \A u \in CacheThread \ {t} : g[u] = f[u]
    PROVE  HandlesIn(g) = WithHandles(HandlesIn(f), e, HandlesIn(f)[e] + 1)
<1>1. HoldersIn(g, e) = HoldersIn(f, e) \cup {t} /\ t \notin HoldersIn(f, e)
    BY DEF HoldersIn
<1>2. Cardinality(HoldersIn(g, e)) = Cardinality(HoldersIn(f, e)) + 1
    BY <1>1, HoldersFinite, FS_AddElement
<1>3. ASSUME NEW d \in EntryNumber, d # e PROVE HoldersIn(g, d) = HoldersIn(f, d)
    <2>1. d # NoHandle
        BY EntriesFinite
    <2> QED BY <1>3, <2>1 DEF HoldersIn
<1> QED BY <1>2, <1>3 DEF HandlesIn, WithHandles

LEMMA HandleReturned ==
    ASSUME NEW f, NEW g, NEW t \in CacheThread, NEW e \in EntryNumber,
           f[t].handle = e, g[t].handle = NoHandle,
           \A u \in CacheThread \ {t} : g[u] = f[u]
    PROVE  /\ HandlesIn(g) = WithHandles(HandlesIn(f), e, HandlesIn(f)[e] - 1)
           /\ HandlesIn(f)[e] > 0
<1>0. \A d \in EntryNumber : d # NoHandle
    BY EntriesFinite
<1>1. HoldersIn(g, e) = HoldersIn(f, e) \ {t} /\ t \in HoldersIn(f, e)
    BY <1>0 DEF HoldersIn
<1>2. Cardinality(HoldersIn(g, e)) = Cardinality(HoldersIn(f, e)) - 1
    BY <1>1, HoldersFinite, FS_RemoveElement
<1>3. ASSUME NEW d \in EntryNumber, d # e PROVE HoldersIn(g, d) = HoldersIn(f, d)
    BY <1>0, <1>3 DEF HoldersIn
<1>4. HandlesIn(f)[e] > 0
    BY HeldBySome
<1>5. HandlesIn(g) = WithHandles(HandlesIn(f), e, HandlesIn(f)[e] - 1)
    BY <1>2, <1>3 DEF HandlesIn, WithHandles
<1> QED BY <1>4, <1>5

LEMMA HandlesSame ==
    ASSUME NEW f, NEW g, \A u \in CacheThread : g[u].handle = f[u].handle
    PROVE  HandlesIn(g) = HandlesIn(f)
<1>1. \A e \in EntryNumber : HoldersIn(g, e) = HoldersIn(f, e)
    BY DEF HoldersIn
<1> QED BY <1>1 DEF HandlesIn

\* A thread that opens a table finds a number for its entry: the entries of the
\* cache have different keys, and each of the others has a thread that holds it.
LEMMA RoomForEntry ==
    ASSUME NEW c, NEW f, Sound(c, HandlesIn(f), {}),
           NEW t \in CacheThread, f[t].handle = NoHandle
    PROVE  EntryNumber \ DOMAIN c.entry # {}
<1> DEFINE D == DOMAIN c.entry
           I == InCacheOf(c)
           O == D \ I
           T == CacheThread \ {t}
<1>0. c \in CacheState /\ Hashed(c, I) /\ Counted(c, HandlesIn(f)) /\ D \subseteq EntryNumber
      /\ I \subseteq D
    <2>1. I \ {} = I
        OBVIOUS
    <2>2. c \in CacheState /\ Hashed(c, I) /\ Counted(c, HandlesIn(f))
        BY <2>1 DEF Sound
    <2> QED BY <2>2, CacheFields DEF InCacheOf
<1>1. IsFiniteSet(D) /\ IsFiniteSet(I) /\ IsFiniteSet(O) /\ IsFiniteSet(T)
      /\ Cardinality(T) = Cardinality(CacheThread) - 1
    <2>1. IsFiniteSet(D) /\ IsFiniteSet(I) /\ IsFiniteSet(O)
        BY <1>0, EntriesFinite, FS_Subset
    <2>2. IsFiniteSet(T) /\ Cardinality(T) = Cardinality(CacheThread) - 1
        BY CacheBounds, FS_RemoveElement
    <2> QED BY <2>1, <2>2
<1>2. Cardinality(I) <= Cardinality(FileNumber)
    <2> DEFINE key == [e \in I |-> c.entry[e].key]
    <2>1. key \in [I -> FileNumber]
        BY <1>0, CacheFields DEF EntryRecord
    <2>2. \A a, b \in I : key[a] = key[b] => a = b
        BY <1>0 DEF Hashed
    <2> HIDE DEF key
    <2>3. key \in Injection(I, FileNumber)
        BY <2>1, <2>2, Fun_IsInj
    <2> QED BY <2>3, CacheBounds, FS_Injection
<1>3. Cardinality(O) <= Cardinality(T)
    <2> DEFINE holder == [e \in O |-> CHOOSE u \in CacheThread : f[u].handle = e]
    <2>1. ASSUME NEW e \in O PROVE \E u \in CacheThread : f[u].handle = e
        <3>1. e \in D /\ ~c.entry[e].inCache /\ e \in EntryNumber
            BY <1>0 DEF InCacheOf
        <3>2. c.entry[e].refs = HandlesIn(f)[e] + (IF c.entry[e].inCache THEN 1 ELSE 0) /\ c.entry[e].refs > 0
            BY <1>0, <3>1 DEF Counted
        <3>3. HandlesIn(f)[e] \in Nat
            BY <3>1, HandlesType
        <3>4. HandlesIn(f)[e] > 0
            BY <3>1, <3>2, <3>3
        <3> QED BY <3>1, <3>4, HeldBySome
    <2>2. ASSUME NEW e \in O PROVE holder[e] \in T /\ f[holder[e]].handle = e
        <3>1. holder[e] = CHOOSE u \in CacheThread : f[u].handle = e
            OBVIOUS
        <3>2. holder[e] \in CacheThread /\ f[holder[e]].handle = e
            <4> HIDE DEF holder
            <4> QED BY <2>1, <3>1
        <3>3. e # NoHandle
            BY <1>0, EntriesFinite
        <3> HIDE DEF holder
        <3> QED BY <3>2, <3>3
    <2>3. holder = [e \in O |-> holder[e]]
        OBVIOUS
    <2> HIDE DEF holder, O, T
    <2>4. holder \in [O -> T]
        BY <2>2, <2>3
    <2>5. \A a, b \in O : holder[a] = holder[b] => a = b
        BY <2>2
    <2>6. holder \in Injection(O, T)
        BY <2>4, <2>5, Fun_IsInj
    <2> QED BY <1>1, <2>6, FS_Injection
<1>4. Cardinality(D) <= Cardinality(I) + Cardinality(O)
    <2>1. D = I \cup O /\ I \cap O = {}
        BY <1>0
    <2> HIDE DEF D, I, O
    <2>2. Cardinality(I \cap O) = 0
        BY <2>1, FS_EmptySet
    <2>3. Cardinality(I) \in Nat /\ Cardinality(O) \in Nat
        BY <1>1, FS_CardinalityType
    <2>4. Cardinality(I \cup O) = Cardinality(I) + Cardinality(O) - Cardinality(I \cap O)
        BY <1>1, FS_Union
    <2> QED BY <2>1, <2>2, <2>3, <2>4
<1>5. Cardinality(EntryNumber) = Cardinality(FileNumber) + Cardinality(CacheThread)
    <2>1. 1 \in Int /\ Cardinality(FileNumber) + Cardinality(CacheThread) \in Nat
        BY EntriesFinite
    <2> QED BY <2>1, FS_Interval DEF EntryNumber
<1>6. Cardinality(D) < Cardinality(EntryNumber)
    <2>1. /\ Cardinality(I) \in Nat /\ Cardinality(O) \in Nat /\ Cardinality(D) \in Nat
          /\ Cardinality(T) \in Nat
        BY <1>1, FS_CardinalityType
    <2> HIDE DEF D, I, O, T
    <2> QED BY <1>1, <1>2, <1>3, <1>4, <1>5, <2>1, EntriesFinite
<1>7. EntryNumber # D
    <2> HIDE DEF D
    <2>1. Cardinality(EntryNumber) \in Nat
        BY EntriesFinite, FS_CardinalityType
    <2> QED BY <1>6, <2>1
<1> QED BY <1>0, <1>7

\* What a thread that is at work may count on.
CallerOk(t) ==
    /\ caller[t].pc # "idle" => caller[t].file \in FileNumber \ removed
    /\ caller[t].pc # "holding" => caller[t].handle = NoHandle
    /\ caller[t].pc = "holding" =>
         /\ caller[t].handle \in EntryNumber
         /\ caller[t].handle \in DOMAIN cache.entry
         /\ cache.entry[caller[t].handle].key = caller[t].file

CacheInv ==
    /\ caller \in Callers /\ removed \subseteq FileNumber
    /\ Sound(cache, HandlesIn(caller), {})
    /\ \A t \in CacheThread : CallerOk(t)
    /\ RemovedAreClosed

LEMMA CacheInitially == CacheInit => CacheInv
<1> SUFFICES ASSUME CacheInit PROVE CacheInv
    OBVIOUS
<1> USE DEF CacheInit
<1>1. /\ cache.entry = <<>> /\ cache.lru = <<>> /\ cache.inUse = <<>> /\ cache.usage = 0
      /\ cache.list = [b \in 0..(MinBuckets - 1) |-> {}]
    OBVIOUS
<1>2. MinBuckets \in Nat \ {0}
    BY CacheBounds
<1>3. cache \in CacheState
    <2>1. cache.entry \in EntryMap
        <3>1. DOMAIN <<>> = {} /\ <<>> = [e \in DOMAIN <<>> |-> <<>>[e]]
            OBVIOUS
        <3> QED BY <1>1, <3>1, EntryMapFacts
    <2>2. cache.list \in BucketList
        <3>1. cache.list \in [0..(MinBuckets - 1) -> SUBSET EntryNumber]
            BY <1>1
        <3> QED BY <1>2, <3>1 DEF BucketList
    <2>3. cache = [entry |-> cache.entry, lru |-> cache.lru, inUse |-> cache.inUse,
                   usage |-> cache.usage, list |-> cache.list]
        OBVIOUS
    <2>4. cache.lru \in Seq(EntryNumber) /\ cache.inUse \in Seq(EntryNumber) /\ cache.usage \in Int
        BY <1>1
    <2> HIDE DEF CacheInit
    <2> QED BY <2>1, <2>2, <2>3, <2>4 DEF CacheState
<1>4. \A t \in CacheThread : caller[t] = [pc |-> "idle", file |-> 0, handle |-> NoHandle]
    OBVIOUS
<1>5. caller \in Callers
    BY DEF Callers
<1>6. DOMAIN cache.entry = {} /\ InCacheOf(cache) = {}
    BY <1>1 DEF InCacheOf
<1>7. ASSUME NEW e \in EntryNumber PROVE ~(HandlesIn(caller)[e] > 0)
    <2>1. \A t \in CacheThread : caller[t].handle # e
        BY <1>4, EntriesFinite
    <2> QED BY <2>1, HeldBySome
<1>8. Counted(cache, HandlesIn(caller))
    BY <1>6, <1>7 DEF Counted
<1>9. Listed(cache)
    <2>1. IsListOf(<<>>, {})
        BY DEF IsListOf, IsInjective, ToSet
    <2>2. /\ {e \in InCacheOf(cache) : cache.entry[e].refs = 1} = {}
          /\ {e \in InCacheOf(cache) : cache.entry[e].refs > 1} = {}
        BY <1>6
    <2> QED BY <1>1, <2>1, <2>2 DEF Listed
<1>10. Hashed(cache, InCacheOf(cache) \ {})
    <2>1. Elems(cache) = {}
        BY <1>1 DEF Elems
    <2>2. \A b \in DOMAIN cache.list : cache.list[b] = {}
        BY <1>1
    <2>3. InCacheOf(cache) \ {} = {}
        BY <1>6
    <2> QED BY <2>1, <2>2, <2>3 DEF Hashed
<1>11. cache.usage = UsageOf(cache)
    BY <1>1, <1>6, SumOnEmpty DEF UsageOf
<1>12. Sound(cache, HandlesIn(caller), {})
    BY <1>3, <1>8, <1>9, <1>10, <1>11 DEF Sound
<1>13. \A t \in CacheThread : CallerOk(t)
    BY <1>4 DEF CallerOk
<1>14. RemovedAreClosed
    BY <1>6 DEF RemovedAreClosed
<1> QED BY <1>5, <1>12, <1>13, <1>14 DEF CacheInv

\* Threads that do not move keep their entries: one that is held stays, and
\* entries keep their keys.
LEMMA OthersOk ==
    ASSUME CacheInv, NEW t \in CacheThread, caller'[t] = caller[t], removed' = removed,
           Sound(cache', HandlesIn(caller'), {}),
           \A e \in DOMAIN cache.entry \cap DOMAIN (cache.entry)' :
              (cache.entry)'[e].key = cache.entry[e].key
    PROVE  CallerOk(t)'
<1>1. CallerOk(t)
    BY DEF CacheInv
<1>2. ASSUME caller[t].pc = "holding"
      PROVE  caller[t].handle \in DOMAIN (cache.entry)'
    <2>1. caller[t].handle \in EntryNumber /\ caller'[t].handle = caller[t].handle
        BY <1>1, <1>2 DEF CallerOk
    <2>2. HandlesIn(caller')[caller[t].handle] > 0
        BY <2>1, HeldBySome
    <2> QED BY <2>1, <2>2 DEF Sound, Counted
<1> QED BY <1>1, <1>2 DEF CallerOk

LEMMA CacheFacts ==
    ASSUME CacheInv
    PROVE  /\ cache \in CacheState /\ Hashed(cache, InCacheOf(cache))
           /\ Counted(cache, HandlesIn(caller))
           /\ HandlesIn(caller) \in [EntryNumber -> Nat]
<1>1. InCacheOf(cache) \ {} = InCacheOf(cache)
    OBVIOUS
<1> QED BY <1>1, HandlesType DEF CacheInv, Sound

LEMMA FindTableStep ==
    ASSUME CacheInv, NEW t \in CacheThread, NEW file \in FileNumber, FindTable(t, file)
    PROVE  CacheInv'
<1> DEFINE h == LookupHandle(cache, file)
<1>0. /\ caller \in Callers /\ caller[t].pc = "idle" /\ caller[t].handle = NoHandle
      /\ file \notin removed /\ removed' = removed /\ caller[t].file \in FileNumber \cup {0}
    BY DEF FindTable, CacheInv, CallerOk, Callers
<1>1. CASE h = NoHandle
    <2>1. cache' = cache /\ caller' = [caller EXCEPT ![t].pc = "opening", ![t].file = file]
        BY <1>1 DEF FindTable
    <2>2. caller'[t] = [pc |-> "opening", file |-> file, handle |-> NoHandle]
          /\ \A u \in CacheThread \ {t} : caller'[u] = caller[u]
        BY <1>0, <2>1 DEF Callers
    <2>3. caller' \in Callers
        BY <1>0, <2>1 DEF Callers
    <2>4. HandlesIn(caller') = HandlesIn(caller)
        BY <1>0, <2>2, HandlesSame
    <2>5. Sound(cache', HandlesIn(caller'), {})
        BY <2>1, <2>4 DEF CacheInv
    <2>6. ASSUME NEW u \in CacheThread PROVE CallerOk(u)'
        <3>1. CASE u = t
            BY <1>0, <2>2, <3>1 DEF CallerOk
        <3>2. CASE u # t
            BY <1>0, <2>1, <2>2, <2>5, <3>2, OthersOk
        <3> QED BY <3>1, <3>2
    <2>7. RemovedAreClosed'
        BY <1>0, <2>1 DEF CacheInv, RemovedAreClosed
    <2> QED BY <1>0, <2>3, <2>5, <2>6, <2>7 DEF CacheInv
<1>2. CASE h # NoHandle
    <2>1. cache' = Ref(cache, h)
          /\ caller' = [caller EXCEPT ![t] = [pc |-> "holding", file |-> file, handle |-> h]]
        BY <1>2 DEF FindTable, Holds
    <2>2. h \in InCacheOf(cache) /\ cache.entry[h].key = file /\ h \in EntryNumber /\ h \in DOMAIN cache.entry
        <3>1. h \in InCacheOf(cache) /\ cache.entry[h].key = file
            BY <1>2, CacheFacts, LookupFacts
        <3> HIDE DEF h
        <3> QED BY <3>1, CacheFacts, InCacheFinite DEF InCacheOf
    <2> HIDE DEF h
    <2>3. caller'[t] = [pc |-> "holding", file |-> file, handle |-> h]
          /\ \A u \in CacheThread \ {t} : caller'[u] = caller[u]
        BY <1>0, <2>1 DEF Callers
    <2>4. caller' \in Callers
        BY <1>0, <2>1, <2>2 DEF Callers
    <2>5. HandlesIn(caller') = WithHandles(HandlesIn(caller), h, HandlesIn(caller)[h] + 1)
        BY <1>0, <1>2, <2>2, <2>3, HandleTaken
    <2>6. Sound(cache', HandlesIn(caller'), {}) /\ Keeps(cache, cache')
        BY <2>1, <2>2, <2>5, CacheFacts, RefSound DEF CacheInv
    <2>7. \A e \in DOMAIN cache.entry \cap DOMAIN (cache.entry)' :
              (cache.entry)'[e].key = cache.entry[e].key
        BY <2>6 DEF Keeps
    <2>8. ASSUME NEW u \in CacheThread PROVE CallerOk(u)'
        <3>1. CASE u = t
            <4>1. HandlesIn(caller')[h] > 0
                BY <2>2, <2>3, HeldBySome
            <4>2. h \in DOMAIN (cache.entry)'
                BY <2>2, <2>6, <4>1 DEF Sound, Counted
            <4> QED BY <1>0, <2>2, <2>3, <2>7, <3>1, <4>2 DEF CallerOk
        <3>2. CASE u # t
            BY <1>0, <2>3, <2>6, <2>7, <3>2, OthersOk
        <3> QED BY <3>1, <3>2
    <2>9. RemovedAreClosed'
        BY <1>0, <2>6 DEF CacheInv, RemovedAreClosed, Keeps
    <2> QED BY <1>0, <2>4, <2>6, <2>8, <2>9 DEF CacheInv
<1> QED BY <1>1, <1>2

LEMMA TableOpenedStep ==
    ASSUME CacheInv, NEW t \in CacheThread, TableOpened(t)
    PROVE  CacheInv'
<1> DEFINE e == FreeEntry
           file == caller[t].file
<1>0. /\ caller \in Callers /\ caller[t].pc = "opening" /\ caller[t].handle = NoHandle
      /\ file \in FileNumber /\ file \notin removed /\ removed' = removed
    BY DEF TableOpened, CacheInv, CallerOk, Callers
<1>1. e \in EntryNumber /\ e \notin DOMAIN cache.entry
    <2> DEFINE free == EntryNumber \ DOMAIN cache.entry
    <2>1. free # {}
        BY <1>0, RoomForEntry DEF CacheInv
    <2>2. free \in SUBSET Nat
        BY EntriesFinite
    <2> HIDE DEF free
    <2>3. \E x \in free : \A d \in free : x <= d
        BY <2>1, <2>2, LeastNumber
    <2>4. FreeEntry \in free
        BY <2>3 DEF FreeEntry, free
    <2> QED BY <2>4 DEF free
<1>2. /\ cache' = InsertEntry(cache, e, file, FileCharge[file])
      /\ caller' = [caller EXCEPT ![t] = [pc |-> "holding", file |-> file, handle |-> e]]
    BY DEF TableOpened, Holds
<1>3. FileCharge[file] \in Nat
    BY <1>0, CacheBounds
<1> HIDE DEF e
<1>4. caller'[t] = [pc |-> "holding", file |-> file, handle |-> e]
      /\ \A u \in CacheThread \ {t} : caller'[u] = caller[u]
    BY <1>0, <1>2 DEF Callers
<1>5. caller' \in Callers
    BY <1>0, <1>1, <1>2 DEF Callers
<1>6. HandlesIn(caller') = WithHandles(HandlesIn(caller), e, 1)
    <2>1. HandlesIn(caller)[e] = 0
        <3>1. HandlesIn(caller)[e] \in Nat /\ ~(HandlesIn(caller)[e] > 0)
            BY <1>1, CacheFacts DEF Counted
        <3> QED BY <3>1
    <2>2. e # NoHandle
        BY <1>1, EntriesFinite
    <2>3. HandlesIn(caller') = WithHandles(HandlesIn(caller), e, HandlesIn(caller)[e] + 1)
        BY <1>0, <1>1, <1>4, <2>2, HandleTaken
    <2> QED BY <2>1, <2>3
<1> HIDE DEF file
<1>7. /\ Sound(cache', HandlesIn(caller'), {})
      /\ DOMAIN (cache.entry)' \subseteq DOMAIN cache.entry \cup {e}
      /\ \A x \in DOMAIN (cache.entry)' :
            (cache.entry)'[x].key = IF x = e THEN file ELSE cache.entry[x].key
    <2>1. Sound(cache, HandlesIn(caller), {})
        BY DEF CacheInv
    <2> QED BY <1>0, <1>1, <1>2, <1>3, <1>6, <2>1, CacheFacts, InsertEntrySound
<1>8. ASSUME NEW u \in CacheThread PROVE CallerOk(u)'
    <2>1. CASE u = t
        <3>1. HandlesIn(caller')[e] > 0
            BY <1>1, <1>4, HeldBySome
        <3>2. e \in DOMAIN (cache.entry)'
            BY <1>1, <1>7, <3>1 DEF Sound, Counted
        <3> QED BY <1>0, <1>1, <1>4, <1>7, <2>1, <3>2 DEF CallerOk
    <2>2. CASE u # t
        <3>1. \A x \in DOMAIN cache.entry \cap DOMAIN (cache.entry)' :
                 (cache.entry)'[x].key = cache.entry[x].key
            BY <1>1, <1>7
        <3> QED BY <1>0, <1>4, <1>7, <2>2, <3>1, OthersOk
    <2> QED BY <2>1, <2>2
<1>9. RemovedAreClosed'
    <2>1. \A x \in DOMAIN cache.entry : cache.entry[x].key \notin removed
        BY DEF CacheInv, RemovedAreClosed
    <2>2. ASSUME NEW x \in DOMAIN (cache.entry)' PROVE (cache.entry)'[x].key \notin removed'
        BY <1>0, <1>7, <2>1, <2>2
    <2> QED BY <2>2 DEF RemovedAreClosed
<1> QED BY <1>0, <1>5, <1>7, <1>8, <1>9 DEF CacheInv

LEMMA TableFailedStep ==
    ASSUME CacheInv, NEW t \in CacheThread, TableFailed(t)
    PROVE  CacheInv'
<1>0. /\ caller \in Callers /\ caller[t].handle = NoHandle /\ removed' = removed /\ cache' = cache
      /\ caller' = [caller EXCEPT ![t] = [pc |-> "idle", file |-> 0, handle |-> NoHandle]]
    BY DEF TableFailed, CallerDone, CacheInv, CallerOk
<1>1. caller'[t] = [pc |-> "idle", file |-> 0, handle |-> NoHandle]
      /\ \A u \in CacheThread \ {t} : caller'[u] = caller[u]
    BY <1>0 DEF Callers
<1>2. caller' \in Callers
    BY <1>0 DEF Callers
<1>3. HandlesIn(caller') = HandlesIn(caller)
    <2>1. \A u \in CacheThread : caller'[u].handle = caller[u].handle
        BY <1>0, <1>1
    <2> QED BY <2>1, HandlesSame
<1>4. Sound(cache', HandlesIn(caller'), {})
    BY <1>0, <1>3 DEF CacheInv
<1>5. ASSUME NEW u \in CacheThread PROVE CallerOk(u)'
    <2>1. CASE u = t
        BY <1>1, <2>1 DEF CallerOk
    <2>2. CASE u # t
        BY <1>0, <1>1, <1>4, <2>2, OthersOk
    <2> QED BY <2>1, <2>2
<1>6. RemovedAreClosed'
    BY <1>0 DEF CacheInv, RemovedAreClosed
<1> QED BY <1>0, <1>2, <1>4, <1>5, <1>6 DEF CacheInv

LEMMA ReleaseTableStep ==
    ASSUME CacheInv, NEW t \in CacheThread, ReleaseTable(t)
    PROVE  CacheInv'
<1> DEFINE h == caller[t].handle
<1>0. /\ caller \in Callers /\ h \in EntryNumber /\ removed' = removed /\ cache' = Unref(cache, h)
      /\ caller' = [caller EXCEPT ![t] = [pc |-> "idle", file |-> 0, handle |-> NoHandle]]
    BY DEF ReleaseTable, CallerDone, CacheInv, CallerOk
<1>1. caller'[t] = [pc |-> "idle", file |-> 0, handle |-> NoHandle]
      /\ \A u \in CacheThread \ {t} : caller'[u] = caller[u]
    BY <1>0 DEF Callers
<1>2. caller' \in Callers
    BY <1>0 DEF Callers
<1>3. /\ HandlesIn(caller') = WithHandles(HandlesIn(caller), h, HandlesIn(caller)[h] - 1)
      /\ HandlesIn(caller)[h] > 0
    <2>1. caller[t].handle = h /\ caller'[t].handle = NoHandle
        BY <1>1
    <2>2. h \in EntryNumber
        BY <1>0
    <2> HIDE DEF h
    <2> QED BY <1>1, <2>1, <2>2, HandleReturned
<1> HIDE DEF h
<1>4. Sound(cache', HandlesIn(caller'), {}) /\ Keeps(cache, cache')
    BY <1>0, <1>3, CacheFacts, UnrefSound DEF CacheInv
<1>5. ASSUME NEW u \in CacheThread PROVE CallerOk(u)'
    <2>1. CASE u = t
        BY <1>1, <2>1 DEF CallerOk
    <2>2. CASE u # t
        <3>1. \A x \in DOMAIN cache.entry \cap DOMAIN (cache.entry)' :
                 (cache.entry)'[x].key = cache.entry[x].key
            BY <1>4 DEF Keeps
        <3> QED BY <1>0, <1>1, <1>4, <2>2, <3>1, OthersOk
    <2> QED BY <2>1, <2>2
<1>6. RemovedAreClosed'
    BY <1>0, <1>4 DEF CacheInv, RemovedAreClosed, Keeps
<1> QED BY <1>0, <1>2, <1>4, <1>5, <1>6 DEF CacheInv

LEMMA EvictTableStep ==
    ASSUME CacheInv, NEW file \in FileNumber, EvictTable(file)
    PROVE  CacheInv'
<1> DEFINE h == LookupHandle(cache, file)
<1>0. /\ caller \in Callers /\ removed' = removed \cup {file} /\ cache' = EraseKey(cache, file)
      /\ caller' = caller /\ \A t \in CacheThread : caller[t].file # file
    BY DEF EvictTable, CacheInv
<1>1. /\ Sound(cache', HandlesIn(caller'), {}) /\ Keeps(cache, cache')
      /\ \A x \in InCacheOf(cache') : (cache.entry)'[x].key # file
    <2>1. Sound(cache, HandlesIn(caller), {})
        BY DEF CacheInv
    <2> QED BY <1>0, <2>1, CacheFacts, EraseKeySound
<1>2. ASSUME NEW u \in CacheThread PROVE CallerOk(u)'
    <2>1. CallerOk(u)
        BY DEF CacheInv
    <2>2. ASSUME caller[u].pc = "holding"
          PROVE  /\ caller[u].handle \in DOMAIN (cache.entry)'
                 /\ (cache.entry)'[caller[u].handle].key = cache.entry[caller[u].handle].key
        <3>1. caller[u].handle \in EntryNumber
            BY <2>1, <2>2 DEF CallerOk
        <3>2. HandlesIn(caller')[caller[u].handle] > 0
            BY <1>0, <3>1, HeldBySome
        <3>3. caller[u].handle \in DOMAIN (cache.entry)'
            BY <1>1, <3>1, <3>2 DEF Sound, Counted
        <3> QED BY <1>1, <3>3 DEF Keeps
    <2> QED BY <1>0, <2>1, <2>2 DEF CallerOk
<1>3. RemovedAreClosed'
    <2>1. ASSUME NEW x \in DOMAIN (cache.entry)' PROVE (cache.entry)'[x].key \notin removed'
        <3>1. x \in DOMAIN cache.entry /\ (cache.entry)'[x].key = cache.entry[x].key
            BY <1>1 DEF Keeps
        <3>2. cache.entry[x].key \notin removed
            BY <3>1 DEF CacheInv, RemovedAreClosed
        <3>3. CASE x \in InCacheOf(cache')
            BY <1>0, <1>1, <3>1, <3>2, <3>3
        <3>4. CASE x \notin InCacheOf(cache')
            <4>0. cache' \in CacheState /\ Counted(cache', HandlesIn(caller')) /\ x \in EntryNumber
                BY <1>1, CacheFields DEF Sound
            <4>1. ~(cache.entry)'[x].inCache
                BY <3>4 DEF InCacheOf
            <4>2. HandlesIn(caller')[x] > 0
                <5>1. (cache.entry)'[x].refs = HandlesIn(caller')[x]
                        + (IF (cache.entry)'[x].inCache THEN 1 ELSE 0) /\ (cache.entry)'[x].refs > 0
                    BY <4>0 DEF Counted
                <5>2. HandlesIn(caller')[x] \in Nat
                    BY <4>0, HandlesType
                <5> QED BY <4>1, <5>1, <5>2
            <4>3. PICK u \in CacheThread : caller[u].handle = x
                BY <1>0, <4>0, <4>2, HeldBySome
            <4>4. CallerOk(u) /\ x # NoHandle
                BY <4>0, EntriesFinite DEF CacheInv
            <4>5. caller[u].pc = "holding"
                BY <4>3, <4>4 DEF CallerOk
            <4>6. cache.entry[x].key = caller[u].file
                BY <4>3, <4>4, <4>5 DEF CallerOk
            <4> QED BY <1>0, <3>1, <3>2, <4>6
        <3> QED BY <3>3, <3>4
    <2> QED BY <2>1 DEF RemovedAreClosed
<1> QED BY <1>0, <1>1, <1>2, <1>3 DEF CacheInv

LEMMA PruneCacheStep ==
    ASSUME CacheInv, PruneCache
    PROVE  CacheInv'
<1>0. removed' = removed /\ caller' = caller /\ cache' = PruneAll(cache) /\ caller \in Callers
    BY DEF PruneCache, CacheInv
<1>1. Sound(cache', HandlesIn(caller'), {}) /\ Keeps(cache, cache')
    <2>1. Sound(cache, HandlesIn(caller), {})
        BY DEF CacheInv
    <2> QED BY <1>0, <2>1, CacheFacts, PruneAllSound
<1>2. ASSUME NEW u \in CacheThread PROVE CallerOk(u)'
    <2>1. \A x \in DOMAIN cache.entry \cap DOMAIN (cache.entry)' :
             (cache.entry)'[x].key = cache.entry[x].key
        BY <1>1 DEF Keeps
    <2> QED BY <1>0, <1>1, <2>1, OthersOk
<1>3. RemovedAreClosed'
    BY <1>0, <1>1 DEF CacheInv, RemovedAreClosed, Keeps
<1> QED BY <1>0, <1>1, <1>2, <1>3 DEF CacheInv

LEMMA CacheInvHolds == CacheInv => TablesAreKept
<1> SUFFICES ASSUME CacheInv PROVE TablesAreKept
    OBVIOUS
<1>1. /\ cache \in CacheState /\ Hashed(cache, InCache) /\ Counted(cache, HandlesIn(caller))
      /\ InCache = InCacheOf(cache)
    <2>1. InCache = InCacheOf(cache)
        BY DEF InCache, InCacheOf
    <2> QED BY <2>1, CacheFacts
<1>2. HeldAreOpen
    BY DEF HeldAreOpen, CacheInv, CallerOk
<1>3. RefsCounted
    <2>1. ASSUME NEW e \in DOMAIN cache.entry PROVE HandlesIn(caller)[e] = Cardinality(Handles(e))
        BY <1>1, CacheFields DEF HandlesIn, HoldersIn, Handles
    <2> QED BY <1>1, <2>1 DEF RefsCounted, Counted
<1>4. ListsExact
    <2>1. Listed(cache) /\ cache.usage = UsageOf(cache)
        BY DEF CacheInv, Sound
    <2>2. /\ ToSet(cache.lru) = {e \in InCache : cache.entry[e].refs = 1}
          /\ ToSet(cache.inUse) = {e \in InCache : cache.entry[e].refs > 1}
          /\ IsInjective(cache.lru) /\ IsInjective(cache.inUse)
        BY <1>1, <2>1 DEF Listed, IsListOf
    <2>3. InCache = {LookupHandle(cache, key) : key \in FileNumber} \ {NoHandle}
        <3>1. ASSUME NEW e \in InCache
              PROVE  e # NoHandle /\ \E key \in FileNumber : e = LookupHandle(cache, key)
            <4>1. cache.entry[e].key \in FileNumber /\ e \in EntryNumber
                BY <1>1, <3>1, CacheFields DEF InCacheOf, EntryRecord
            <4>2. e = LookupHandle(cache, cache.entry[e].key)
                BY <1>1, <3>1, <4>1, LookupFacts
            <4> QED BY <4>1, <4>2, EntriesFinite
        <3>2. ASSUME NEW key \in FileNumber, LookupHandle(cache, key) # NoHandle
              PROVE  LookupHandle(cache, key) \in InCache
            BY <1>1, <3>2, LookupFacts
        <3> QED BY <3>1, <3>2
    <2>4. cache.usage = FoldFunctionOnSet(+, 0, [e \in InCache |-> cache.entry[e].charge], InCache)
        BY <1>1, <2>1 DEF UsageOf, SumOn
    <2> QED BY <2>2, <2>3, <2>4 DEF ListsExact
<1>5. RemovedAreClosed
    BY DEF CacheInv
<1> QED BY <1>2, <1>3, <1>4, <1>5 DEF TablesAreKept

THEOREM CacheKeepsTables == CacheSpec => []TablesAreKept
<1>1. CacheInit => CacheInv
    BY CacheInitially
<1>2. CacheInv /\ [CacheNext]_cacheVars => CacheInv'
    <2> SUFFICES ASSUME CacheInv, [CacheNext]_cacheVars PROVE CacheInv'
        OBVIOUS
    <2>1. CASE CacheNext
        BY <2>1, FindTableStep, TableOpenedStep, TableFailedStep, ReleaseTableStep,
           EvictTableStep, PruneCacheStep DEF CacheNext
    <2>2. CASE UNCHANGED cacheVars
        <3>1. cache' = cache /\ caller' = caller /\ removed' = removed
            BY <2>2 DEF cacheVars
        <3> QED BY <3>1 DEF CacheInv, CallerOk, RemovedAreClosed
    <2> QED BY <2>1, <2>2
<1> QED BY <1>1, <1>2, CacheInvHolds, PTL DEF CacheSpec
=============================================================================

------------------------ MODULE MemTableDBIterProofs -------------------------
(***************************************************************************)
(* What a read of the memtable and an iterator over it and the tables may  *)
(* rely on, for any user keys and any number of entries.                   *)
(*                                                                         *)
(* A reader without a lock (MemTableReads): on every level the links of    *)
(* the published nodes go from each of them to the next one in the order   *)
(* of the keys, in every state the writer makes, and a search is always at *)
(* such a node, before what it searches for.                               *)
(*                                                                         *)
(* A DBIter (IteratorShowsView): its merge stands at the first of what     *)
(* each child has ahead of it, of the entries it sees (Placed), so a loop  *)
(* of DBIter passes them in order, one in each round.  One argument serves *)
(* both directions, by an order that depends on the direction (Earlier).   *)
(***************************************************************************)
EXTENDS MemTable, DBIter, NaturalOrder

USE MemBounds

Count == Cardinality(Inserted)
Listed == {ListHead} \cup Inserted
Tower == UNION {[0..(h - 1) -> Inserted \cup {Null, Garbage}] : h \in Height}

\* The nodes that are linked on a level.
On(l) == {n \in DOMAIN link : l \in DOMAIN link[n] /\ ~(n = insert.node /\ insert.level <= l)}

\* The order of the list: its head, then the nodes by their keys.
Comes(a, b) == b # ListHead /\ (a = ListHead \/ Before(Internal(a), Internal(b)))
IsBefore(n, key) == n = ListHead \/ Before(Internal(n), key)

\* y is the node after x on a level, and p the last node there before a key.
Follows(l, x, y) ==
    /\ y \in (On(l) \ {ListHead}) \cup {Null}
    /\ y # Null => Comes(x, y)
    /\ \A m \in On(l) : Comes(x, m) => y # Null /\ (m = y \/ Comes(y, m))

Precedes(l, p, key) ==
    /\ p \in On(l) /\ IsBefore(p, key)
    /\ \A m \in On(l) : IsBefore(m, key) => m = p \/ Comes(m, p)

-----------------------------------------------------------------------------
(* The invariant.                                                            *)
MemTypeOK ==
    /\ Count \in Nat /\ Inserted = 1..Count /\ Count <= MemEntries
    /\ userKey \in [Inserted -> Int]
    /\ link \in [Listed -> Tower]
    /\ DOMAIN link[ListHead] = ListLevel
    /\ heights \subseteq Height
    /\ visible \in 0..Count

Inserting == [node : Node, height : Height, level : ListLevel, prev : [ListLevel -> Listed],
              linked : BOOLEAN]

InsertOK ==
    insert # NoInsert =>
        /\ insert \in Inserting
        /\ insert.node = Count /\ visible < Count
        /\ DOMAIN link[insert.node] = 0..(insert.height - 1)
        /\ insert.level < insert.height
        /\ \A l \in insert.level..(insert.height - 1) :
               Precedes(l, insert.prev[l], Internal(insert.node))
        /\ insert.linked =>
               link[insert.node][insert.level] = link[insert.prev[insert.level]][insert.level]
        /\ ~insert.linked /\ insert.level = 0 => link[insert.node][0] = Garbage

LinksOK == \A l \in ListLevel : \A x \in On(l) : Follows(l, x, link[x][l])

Finds == {"GreaterOrEqual", "LessThan", "Last"}
Iterator == [find : Finds \cup {"First", "Next", NoFind}, target : [user : Int, seq : Int],
             x : Listed, level : -1..(kMaxHeight - 1), node : Inserted \cup {Null},
             seen : SUBSET Inserted]

ReaderOK ==
    /\ iter \in Iterator
    /\ iter.seen \subseteq On(0)
    /\ iter.node # Null => iter.node \in On(0)
    /\ iter.level # -1 => /\ iter.find \in Finds
                          /\ iter.x \in On(iter.level)
                          /\ iter.find # "Last" => IsBefore(iter.x, iter.target)
    /\ iter.find = "GreaterOrEqual" =>
           iter.target.seq <= visible /\ \A m \in Inserted : m <= iter.target.seq => m \in iter.seen

MemInv == MemTypeOK /\ InsertOK /\ LinksOK /\ ReaderOK /\ IteratorExact

-----------------------------------------------------------------------------
(* The order of the nodes.                                                   *)
LEMMA ListOrder ==
    ASSUME MemTypeOK, NEW a \in Listed, NEW b \in Listed
    PROVE  /\ ~Comes(a, a)
           /\ a # b => Comes(a, b) \/ Comes(b, a)
           /\ ~(Comes(a, b) /\ Comes(b, a))
           /\ \A c \in Listed : Comes(a, b) /\ Comes(b, c) => Comes(a, c)
BY DEF MemTypeOK, Listed, Comes, Before, Internal, ListHead

LEMMA KeyOrder ==
    ASSUME MemTypeOK, NEW a \in Listed, NEW b \in Listed, NEW key \in [user : Int, seq : Int]
    PROVE  /\ Comes(a, b) /\ IsBefore(b, key) => IsBefore(a, key)
           /\ IsBefore(a, key) /\ ~IsBefore(b, key) => Comes(a, b)
BY DEF MemTypeOK, Listed, Comes, IsBefore, Before, Internal, ListHead

LEMMA InsertedFinite ==
    ASSUME MemTypeOK
    PROVE  IsFiniteSet(Inserted) /\ IsFiniteSet(Listed)
<1>1. IsFiniteSet(Inserted)
    BY FS_Interval DEF MemTypeOK
<1> QED BY <1>1, FS_Singleton, FS_Union DEF Listed

\* A set of nodes has a last one.
LEMMA LastOf ==
    ASSUME MemTypeOK, NEW C \in SUBSET Listed, C # {}
    PROVE  \E m \in C : \A k \in C : k = m \/ Comes(k, m)
<1> DEFINE Later(m) == {k \in C : Comes(m, k)}
           Counts == {Cardinality(Later(m)) : m \in C}
<1>1. IsFiniteSet(C)
    BY InsertedFinite, FS_Subset
<1>2. ASSUME NEW m \in C
      PROVE  IsFiniteSet(Later(m)) /\ Cardinality(Later(m)) \in Nat
    <2>1. Later(m) \subseteq C
        OBVIOUS
    <2> HIDE DEF Later
    <2> QED BY <1>1, <2>1, FS_Subset, FS_CardinalityType
<1>3. PICK n \in Counts : \A j \in Counts : n <= j
    <2>1. Counts \in SUBSET Nat /\ Counts # {}
        <3> HIDE DEF Later
        <3> QED BY <1>2
    <2> HIDE DEF Counts
    <2> QED BY <2>1, LeastNumber
<1>4. PICK m \in C : n = Cardinality(Later(m))
    OBVIOUS
<1>5. ASSUME NEW k \in C, k # m PROVE Comes(k, m)
    <2> SUFFICES ASSUME Comes(m, k) PROVE FALSE
        BY <1>5, ListOrder
    <2>1. Later(k) \subseteq Later(m)
        BY ListOrder
    <2>2. k \in Later(m) /\ k \notin Later(k)
        BY ListOrder
    <2>3. Cardinality(Later(m)) <= Cardinality(Later(k))
        <3> HIDE DEF Later
        <3> QED BY <1>3, <1>4
    <2> HIDE DEF Later
    <2>4. Cardinality(Later(k)) <= Cardinality(Later(m)) /\
          (Cardinality(Later(k)) = Cardinality(Later(m)) => Later(k) = Later(m))
        BY <1>2, <2>1, FS_Subset
    <2>5. Cardinality(Later(k)) = Cardinality(Later(m))
        BY <1>2, <2>3, <2>4
    <2> QED BY <2>2, <2>4, <2>5
<1> QED BY <1>5

-----------------------------------------------------------------------------
(* Levels, and the last node before a key.                                   *)
LEMMA TowerLevels ==
    ASSUME MemTypeOK, NEW n \in Listed
    PROVE  /\ 0 \in DOMAIN link[n]
           /\ DOMAIN link[n] \subseteq ListLevel
           /\ \A l \in DOMAIN link[n] : \A j \in 0..l : j \in DOMAIN link[n]
           /\ \A l \in DOMAIN link[n] : link[n][l] \in Inserted \cup {Null, Garbage}
<1>1. link[n] \in Tower
    BY DEF MemTypeOK
<1>2. PICK h \in Height : link[n] \in [0..(h - 1) -> Inserted \cup {Null, Garbage}]
    BY <1>1 DEF Tower
<1> QED BY <1>2 DEF Height, ListLevel

\* The node that is being inserted; none when nothing is.
LEMMA InsertNode ==
    ASSUME InsertOK
    PROVE  /\ insert.level \in Nat
           /\ insert.node # ListHead
           /\ insert.node = Null <=> insert = NoInsert
<1>1. Null \notin Node /\ ListHead \notin Node /\ Null # ListHead
    BY DEF Null, Node, ListHead
<1>2. NoInsert.node = Null /\ NoInsert.level = 0
    BY DEF NoInsert
<1>3. insert # NoInsert => insert.node \in Node /\ insert.level \in Nat
    BY DEF InsertOK, Inserting, ListLevel
<1> QED BY <1>1, <1>2, <1>3

LEMMA OnLevels ==
    ASSUME MemTypeOK, InsertOK, NEW l \in ListLevel
    PROVE  /\ On(l) \subseteq Listed
           /\ ListHead \in On(l)
           /\ \A n \in On(l) : \A j \in 0..l : n \in On(j)
<1>1. DOMAIN link = Listed
    BY DEF MemTypeOK
<1>2. ASSUME NEW n \in On(l), NEW j \in 0..l PROVE n \in On(j)
    <2>1. n \in Listed /\ l \in DOMAIN link[n] /\ ~(n = insert.node /\ insert.level <= l)
        BY <1>1 DEF On
    <2>2. j \in DOMAIN link[n]
        BY <2>1, TowerLevels
    <2>3. ~(n = insert.node /\ insert.level <= j)
        BY <2>1, InsertNode DEF ListLevel
    <2> QED BY <1>1, <2>1, <2>2, <2>3 DEF On
<1>3. ListHead \in Listed
    BY DEF Listed
<1> QED BY <1>1, <1>2, <1>3, InsertNode DEF On, MemTypeOK

\* On every level there is one last node before a key.
LEMMA HasPredecessor ==
    ASSUME MemTypeOK, InsertOK, NEW l \in ListLevel, NEW key
    PROVE  \E p \in Listed : Precedes(l, p, key)
<1> DEFINE C == {m \in On(l) : IsBefore(m, key)}
<1>1. C \in SUBSET Listed /\ ListHead \in C
    BY OnLevels DEF IsBefore
<1>2. PICK p \in C : \A m \in C : m = p \/ Comes(m, p)
    <2> HIDE DEF C
    <2> QED BY <1>1, LastOf
<1> QED BY <1>1, <1>2 DEF Precedes

LEMMA OnePredecessor ==
    ASSUME MemTypeOK, InsertOK, NEW l \in ListLevel, NEW key, NEW p, NEW q,
           Precedes(l, p, key), Precedes(l, q, key)
    PROVE  p = q
<1>1. p \in Listed /\ q \in Listed
    BY OnLevels DEF Precedes
<1>2. (p = q \/ Comes(p, q)) /\ (q = p \/ Comes(q, p))
    BY DEF Precedes
<1> QED BY <1>1, <1>2, ListOrder

\* The loop on a level ends at the last node before the key.
LEMMA WalkEnds ==
    ASSUME MemTypeOK, InsertOK, LinksOK, insert = NoInsert,
           NEW l \in ListLevel, NEW key \in [user : Int, seq : Int],
           NEW p, Precedes(l, p, key), NEW x \in On(l), IsBefore(x, key)
    PROVE  WalkTo(key, l)[x] = p
<1> DEFINE W == {n \in DOMAIN link : l \in DOMAIN link[n]}
           GoesOn(n) == KeyIsAfterNode(key, link[n][l])
           IsWalk(f) == f = [n \in W |-> IF GoesOn(n) THEN f[link[n][l]] ELSE n]
           walk == CHOOSE f : IsWalk(f)
           g == [n \in W |-> IF GoesOn(n) THEN p ELSE n]
<1>1. WalkTo(key, l) = walk
    BY DEF WalkTo
<1>2. W = On(l)
    <2>1. \A n \in DOMAIN link : n # insert.node
        BY InsertNode DEF MemTypeOK, Listed, Null, ListHead
    <2> QED BY <2>1 DEF On
<1>3. On(l) \subseteq Listed /\ p \in On(l) /\ IsBefore(p, key)
    BY OnLevels DEF Precedes
<1>4. ASSUME NEW n \in W
      PROVE  /\ link[n][l] \in (W \ {ListHead}) \cup {Null}
             /\ link[n][l] # Null => Comes(n, link[n][l])
             /\ GoesOn(n) => /\ link[n][l] \in W /\ Comes(n, link[n][l])
                             /\ IsBefore(link[n][l], key)
             /\ ~GoesOn(n) /\ IsBefore(n, key) => n = p
    <2> DEFINE y == link[n][l]
    <2>1. Follows(l, n, y)
        BY <1>2 DEF LinksOK
    <2>2. y \in (On(l) \ {ListHead}) \cup {Null} /\ (y # Null => Comes(n, y))
        BY <2>1 DEF Follows
    <2>3. GoesOn(n) <=> y # Null /\ IsBefore(y, key)
        BY <2>2 DEF KeyIsAfterNode, IsBefore
    <2>4. ASSUME ~GoesOn(n), IsBefore(n, key), n # p PROVE FALSE
        <3>1. Comes(n, p)
            BY <1>2, <2>4 DEF Precedes
        <3>2. y # Null /\ (p = y \/ Comes(y, p))
            BY <1>3, <2>1, <3>1 DEF Follows
        <3>3. IsBefore(y, key)
            BY <1>3, <2>2, <3>2, KeyOrder
        <3> QED BY <2>3, <2>4, <3>2, <3>3
    <2> QED BY <1>2, <2>2, <2>3, <2>4
<1> HIDE DEF W, GoesOn
<1>5. IsWalk(g)
    <2>1. ASSUME NEW n \in W
          PROVE  g[n] = IF GoesOn(n) THEN g[link[n][l]] ELSE n
        <3>1. CASE GoesOn(n)
            <4>1. link[n][l] \in W /\ IsBefore(link[n][l], key)
                BY <1>4, <3>1
            <4>2. g[link[n][l]] = p
                BY <1>4, <4>1
            <4> QED BY <3>1, <4>2
        <3> QED BY <3>1
    <2>2. g = [n \in W |-> g[n]]
        OBVIOUS
    <2> HIDE DEF g
    <2> QED BY <2>1, <2>2
<1>6. IsWalk(walk)
    <2> HIDE DEF g, IsWalk
    <2> QED BY <1>5
<1> HIDE DEF walk
<1> DEFINE Wrong == {n \in On(l) : IsBefore(n, key) /\ walk[n] # p}
<1>7. Wrong = {}
    <2> SUFFICES ASSUME Wrong # {} PROVE FALSE
        OBVIOUS
    <2>1. Wrong \in SUBSET Listed
        BY <1>3
    <2>2. PICK n \in Wrong : \A m \in Wrong : m = n \/ Comes(m, n)
        <3> HIDE DEF Wrong
        <3> QED BY <2>1, LastOf
    <2>3. n \in W /\ IsBefore(n, key) /\ walk[n] # p
        BY <1>2
    <2>4. walk[n] = IF GoesOn(n) THEN walk[link[n][l]] ELSE n
        BY <1>6, <2>3
    <2>5. CASE GoesOn(n)
        <3>1. link[n][l] \in Wrong /\ Comes(n, link[n][l])
            BY <1>2, <1>4, <2>3, <2>4, <2>5
        <3>2. link[n][l] \in Listed /\ n \in Listed
            BY <1>2, <1>3, <2>3, <3>1
        <3>3. link[n][l] = n \/ Comes(link[n][l], n)
            BY <2>2, <3>1
        <3> QED BY <3>1, <3>2, <3>3, ListOrder
    <2>6. CASE ~GoesOn(n)
        BY <1>4, <2>3, <2>4, <2>6
    <2> QED BY <2>5, <2>6
<1> QED BY <1>1, <1>7

LEMMA FindPrevExact ==
    ASSUME MemTypeOK, InsertOK, LinksOK, insert = NoInsert,
           NEW key \in [user : Int, seq : Int]
    PROVE  /\ FindPrev(key) \in [ListLevel -> Listed]
           /\ \A l \in ListLevel : Precedes(l, FindPrev(key)[l], key)
<1> DEFINE Start(f, l) == IF l = kMaxHeight - 1 THEN ListHead ELSE f[l + 1]
           IsFind(f) == f = [l \in ListLevel |-> WalkTo(key, l)[Start(f, l)]]
           find == CHOOSE f : IsFind(f)
           g == [l \in ListLevel |-> CHOOSE p \in Listed : Precedes(l, p, key)]
<1>1. FindPrev(key) = find
    BY DEF FindPrev
<1>2. ASSUME NEW l \in ListLevel PROVE g[l] \in Listed /\ Precedes(l, g[l], key)
    BY HasPredecessor
<1>3. ASSUME NEW l \in ListLevel, NEW f, l # kMaxHeight - 1 => f[l + 1] = g[l + 1]
      PROVE  WalkTo(key, l)[Start(f, l)] = g[l]
    <2>1. Start(f, l) \in On(l) /\ IsBefore(Start(f, l), key)
        <3>1. CASE l = kMaxHeight - 1
            BY <3>1, OnLevels DEF IsBefore
        <3>2. CASE l # kMaxHeight - 1
            <4>1. l + 1 \in ListLevel /\ l \in 0..(l + 1)
                BY <3>2 DEF ListLevel
            <4>2. g[l + 1] \in On(l + 1) /\ IsBefore(g[l + 1], key)
                BY <1>2, <4>1 DEF Precedes
            <4>3. g[l + 1] \in On(l)
                BY <4>1, <4>2, OnLevels
            <4>4. Start(f, l) = g[l + 1]
                BY <1>3, <3>2
            <4> QED BY <4>2, <4>3, <4>4
        <3> QED BY <3>1, <3>2
    <2> HIDE DEF Start, g
    <2> QED BY <1>2, <2>1, WalkEnds
<1> HIDE DEF g
<1>4. IsFind(g)
    <2>1. g = [l \in ListLevel |-> g[l]]
        BY DEF g
    <2>2. \A l \in ListLevel : WalkTo(key, l)[Start(g, l)] = g[l]
        BY <1>3
    <2> HIDE DEF Start
    <2> QED BY <2>1, <2>2
<1>5. IsFind(find)
    <2> HIDE DEF IsFind
    <2> QED BY <1>4
<1> HIDE DEF find
<1>6. \A l \in ListLevel : find[l] = WalkTo(key, l)[Start(find, l)]
    <2> HIDE DEF Start
    <2> QED BY <1>5
<1> DEFINE Wrong == {l \in ListLevel : find[l] # g[l]}
<1>7. Wrong = {}
    <2> SUFFICES ASSUME Wrong # {} PROVE FALSE
        OBVIOUS
    <2>1. kMaxHeight - 1 \in Nat /\ Wrong \in SUBSET (0..(kMaxHeight - 1))
        BY DEF ListLevel
    <2>2. PICK l \in Wrong : \A j \in Wrong : j <= l
        <3> HIDE DEF Wrong
        <3> QED BY <2>1, GreatestNumber
    <2>3. l \in ListLevel /\ find[l] # g[l]
        OBVIOUS
    <2>4. l # kMaxHeight - 1 => find[l + 1] = g[l + 1]
        <3> SUFFICES ASSUME l # kMaxHeight - 1, find[l + 1] # g[l + 1] PROVE FALSE
            OBVIOUS
        <3>1. l + 1 \in Wrong
            BY <2>3 DEF ListLevel
        <3> QED BY <2>2, <2>3, <3>1 DEF ListLevel
    <2>5. WalkTo(key, l)[Start(find, l)] = g[l]
        <3> HIDE DEF Start
        <3> QED BY <1>3, <2>3, <2>4
    <2> QED BY <1>6, <2>3, <2>5
<1>8. find \in [ListLevel -> Listed]
    <2>1. \A l \in ListLevel : find[l] \in Listed
        BY <1>2, <1>7
    <2>2. find = [l \in ListLevel |-> find[l]]
        <3> HIDE DEF Start
        <3> QED BY <1>5, <1>6
    <2> QED BY <2>1, <2>2
<1> QED BY <1>1, <1>2, <1>7, <1>8

\* A walk on the lowest level meets the nodes that are linked there.
LEMMA ReachableExact ==
    ASSUME MemTypeOK, InsertOK, LinksOK
    PROVE  Reachable = On(0) \ {ListHead}
<1> DEFINE Ends == {Null, Garbage}
           D == DOMAIN link \cup Ends
           IsFrom(f) == f = [n \in D |-> IF n \in Ends THEN {} ELSE {n} \cup f[link[n][0]]]
           from == CHOOSE f : IsFrom(f)
           Later(n) == IF link[n][0] = Garbage THEN {} ELSE {m \in On(0) : Comes(n, m)}
           g == [n \in D |-> IF n \in Ends THEN {} ELSE {n} \cup Later(n)]
<1>1. Reachable = from[ListHead] \ {ListHead}
    BY DEF Reachable
<1>2. /\ DOMAIN link = Listed /\ Listed \cap Ends = {} /\ ListHead \in Listed
      /\ Null # Garbage
    BY DEF MemTypeOK, Listed, ListHead, Null, Garbage
<1>3. 0 \in ListLevel /\ On(0) \subseteq Listed /\ ListHead \in On(0)
    BY OnLevels DEF ListLevel
<1>4. ASSUME NEW n \in Listed
      PROVE  \/ link[n][0] = Garbage
             \/ /\ link[n][0] \in (On(0) \ {ListHead}) \cup {Null}
                /\ link[n][0] # Null => Comes(n, link[n][0]) /\ link[link[n][0]][0] # Garbage
                /\ \A m \in On(0) : Comes(n, m) => /\ link[n][0] # Null
                                                   /\ m = link[n][0] \/ Comes(link[n][0], m)
    <2>1. ASSUME NEW x \in On(0) PROVE link[x][0] # Garbage
        <3>1. Follows(0, x, link[x][0])
            BY <1>3 DEF LinksOK
        <3> QED BY <1>2, <1>3, <3>1 DEF Follows
    <2>2. CASE n \in On(0)
        <3>1. Follows(0, n, link[n][0])
            BY <1>3, <2>2 DEF LinksOK
        <3> QED BY <2>1, <3>1 DEF Follows
    <2>3. CASE n \notin On(0)
        <3>1. n = insert.node /\ insert.level = 0 /\ insert # NoInsert
            <4>1. n = insert.node /\ insert.level <= 0
                BY <1>2, <2>3, TowerLevels DEF On
            <4> QED BY <1>2, <4>1, InsertNode
        <3>2. CASE ~insert.linked
            BY <3>1, <3>2 DEF InsertOK
        <3>3. CASE insert.linked
            <4> DEFINE p == insert.prev[0]
            <4>1. Precedes(0, p, Internal(n)) /\ link[n][0] = link[p][0]
                BY <3>1, <3>3 DEF InsertOK, Inserting, Height
            <4>2. p \in On(0) /\ Follows(0, p, link[p][0])
                BY <1>3, <4>1 DEF Precedes, LinksOK
            <4>3. n \in Inserted
                BY <3>1, InsertNode DEF Listed
            <4>4. ASSUME NEW m \in On(0) PROVE Comes(n, m) <=> Comes(p, m) /\ ~IsBefore(m, Internal(n))
                <5>1. m # n /\ p # n
                    BY <2>3, <4>2
                <5>2. IsBefore(m, Internal(n)) <=> Comes(m, n)
                    BY <4>3 DEF Comes, IsBefore, MemTypeOK, ListHead
                <5>3. Comes(p, n)
                    BY <4>1, <4>3 DEF Precedes, Comes, IsBefore, MemTypeOK, ListHead
                <5> QED BY <1>3, <4>2, <5>1, <5>2, <5>3, ListOrder
            <4>5. \A m \in On(0) : Comes(p, m) => ~IsBefore(m, Internal(n))
                <5> SUFFICES ASSUME NEW m \in On(0), Comes(p, m), IsBefore(m, Internal(n))
                             PROVE  FALSE
                    OBVIOUS
                <5>1. m = p \/ Comes(m, p)
                    BY <4>1 DEF Precedes
                <5> QED BY <1>3, <4>2, <5>1, ListOrder
            <4>6. \A m \in On(0) : Comes(n, m) <=> Comes(p, m)
                BY <4>4, <4>5
            <4> HIDE DEF p
            <4> QED BY <2>1, <4>1, <4>2, <4>6 DEF Follows
        <3> QED BY <3>2, <3>3
    <2> QED BY <2>2, <2>3
<1> HIDE DEF Ends
<1>5. ASSUME NEW n \in Listed
      PROVE  link[n][0] \in D /\ g[n] = {n} \cup g[link[n][0]]
    <2> DEFINE y == link[n][0]
    <2>1. CASE y = Garbage
        BY <1>2, <2>1 DEF Ends
    <2>2. CASE y = Null
        BY <1>2, <1>4, <2>2 DEF Ends
    <2>3. CASE y # Null /\ y # Garbage
        <3>1. /\ y \in On(0) /\ Comes(n, y) /\ link[y][0] # Garbage
              /\ \A m \in On(0) : Comes(n, m) => m = y \/ Comes(y, m)
            BY <1>4, <2>3
        <3>2. \A m \in On(0) : Comes(y, m) => Comes(n, m)
            BY <1>3, <3>1, ListOrder
        <3>3. y \in Listed
            BY <1>3, <3>1
        <3> HIDE DEF y
        <3>4. {m \in On(0) : Comes(n, m)} = {y} \cup {m \in On(0) : Comes(y, m)}
            BY <3>1, <3>2
        <3>5. g[y] = {y} \cup {m \in On(0) : Comes(y, m)} /\ y \in D
            BY <1>2, <3>1, <3>3 DEF Ends
        <3>6. g[n] = {n} \cup {m \in On(0) : Comes(n, m)}
            BY <1>2, <2>3 DEF Ends, y
        <3> HIDE DEF g, D
        <3>7. g[n] = {n} \cup g[y] /\ y \in D
            BY <3>4, <3>5, <3>6
        <3> QED BY <3>7 DEF y
    <2> QED BY <2>1, <2>2, <2>3
<1>6. IsFrom(g)
    <2>1. g = [n \in D |-> g[n]]
        OBVIOUS
    <2>2. ASSUME NEW n \in D PROVE g[n] = IF n \in Ends THEN {} ELSE {n} \cup g[link[n][0]]
        <3>1. CASE n \in Ends
            BY <3>1
        <3>2. CASE n \notin Ends
            <4>1. n \in Listed
                BY <1>2, <3>2
            <4> HIDE DEF g
            <4> QED BY <1>5, <3>2, <4>1
        <3> QED BY <3>1, <3>2
    <2> HIDE DEF g
    <2> QED BY <2>1, <2>2
<1>7. IsFrom(from)
    <2> HIDE DEF g, IsFrom
    <2> QED BY <1>6
<1> HIDE DEF from
<1>8. /\ \A n \in Listed : from[n] = {n} \cup from[link[n][0]]
      /\ \A n \in Ends : from[n] = {}
    BY <1>2, <1>7
<1> DEFINE Wrong == {n \in Listed : from[n] # g[n]}
<1>9. Wrong = {}
    <2> SUFFICES ASSUME Wrong # {} PROVE FALSE
        OBVIOUS
    <2>1. PICK n \in Wrong : \A m \in Wrong : m = n \/ Comes(m, n)
        <3>1. Wrong \in SUBSET Listed
            OBVIOUS
        <3> HIDE DEF Wrong
        <3> QED BY <3>1, LastOf
    <2> DEFINE y == link[n][0]
    <2>2. n \in Listed /\ from[n] # g[n]
        OBVIOUS
    <2>3. y \in D /\ g[n] = {n} \cup g[y] /\ from[n] = {n} \cup from[y]
        <3> HIDE DEF g, D
        <3> QED BY <1>5, <1>8, <2>2
    <2>4. CASE y \in Ends
        <3>1. g[y] = {} /\ from[y] = {}
            BY <1>8, <2>4
        <3> HIDE DEF g, y
        <3> QED BY <2>2, <2>3, <3>1
    <2>5. CASE y \notin Ends
        <3>1. y \in Listed /\ Comes(n, y)
            BY <1>2, <1>3, <1>4, <2>2, <2>5 DEF Ends
        <3>2. y \notin Wrong
            BY <2>1, <2>2, <3>1, ListOrder
        <3>3. from[y] = g[y]
            BY <3>1, <3>2
        <3> HIDE DEF g, y
        <3> QED BY <2>2, <2>3, <3>3
    <2> QED BY <2>4, <2>5
<1>10. link[ListHead][0] # Garbage
    <2>1. Follows(0, ListHead, link[ListHead][0])
        BY <1>3 DEF LinksOK
    <2> QED BY <1>2, <1>3, <2>1 DEF Follows, Ends
<1>11. from[ListHead] = {ListHead} \cup {m \in On(0) : Comes(ListHead, m)}
    <2>1. from[ListHead] = g[ListHead]
        BY <1>2, <1>9
    <2>2. g[ListHead] = {ListHead} \cup {m \in On(0) : Comes(ListHead, m)}
        BY <1>2, <1>10
    <2> HIDE DEF g
    <2> QED BY <2>1, <2>2
<1>12. \A m \in On(0) : Comes(ListHead, m) <=> m # ListHead
    BY DEF Comes
<1> HIDE DEF from
<1> QED BY <1>1, <1>3, <1>11, <1>12

-----------------------------------------------------------------------------
(* The steps of the writer.                                                  *)
LEMMA InitInv == MemInit => MemInv
<1> SUFFICES ASSUME MemInit PROVE MemInv
    OBVIOUS
<1> USE DEF MemInit
<1>1. Inserted = {} /\ Count = 0 /\ Listed = {ListHead} /\ Inserted = 1..Count
    <2>1. Inserted = {}
        BY DEF Inserted
    <2>2. Cardinality({}) = 0 /\ {} = 1..0
        BY FS_EmptySet
    <2> QED BY <2>1, <2>2 DEF Count, Listed
<1>2. link[ListHead] = [l \in ListLevel |-> Null]
    OBVIOUS
<1>3. 1 \in Height /\ kMaxHeight \in Height /\ 0 \in ListLevel
    BY DEF Height, ListLevel
<1>4. MemTypeOK
    <2>1. link[ListHead] \in Tower
        <3>1. [l \in ListLevel |-> Null] \in [0..(kMaxHeight - 1) -> Inserted \cup {Null, Garbage}]
            BY DEF ListLevel
        <3> QED BY <1>2, <1>3, <3>1 DEF Tower
    <2>2. link \in [Listed -> Tower]
        BY <1>1, <2>1
    <2>3. userKey \in [Inserted -> Int]
        BY <1>1
    <2>4. heights \subseteq Height
        BY <1>3
    <2> QED BY <1>1, <1>2, <2>2, <2>3, <2>4 DEF MemTypeOK
<1>5. InsertOK
    BY DEF InsertOK
<1>6. ASSUME NEW l \in ListLevel PROVE On(l) = {ListHead}
    BY <1>1, <1>4, <1>5, OnLevels
<1>7. LinksOK
    <2> SUFFICES ASSUME NEW l \in ListLevel, NEW x \in On(l) PROVE Follows(l, x, link[x][l])
        BY DEF LinksOK
    <2>1. x = ListHead /\ link[x][l] = Null
        BY <1>2, <1>6
    <2> QED BY <1>6, <2>1 DEF Follows, Comes
<1>8. ReaderOK
    <2>1. iter \in Iterator
        BY <1>1 DEF Iterator, ListHead, NoFind
    <2> QED BY <2>1 DEF ReaderOK, NoFind
<1>9. IteratorExact
    BY DEF IteratorExact, NoFind
<1> QED BY <1>4, <1>5, <1>7, <1>8, <1>9 DEF MemInv

\* An iterator that no step moves keeps what it shows, whatever is inserted.
LEMMA IteratorStays ==
    ASSUME ReaderOK, IteratorExact, iter' = iter, Null \notin Inserted,
           \A m \in Inserted : Internal(m)' = Internal(m)
    PROVE  IteratorExact'
<1> SUFFICES ASSUME iter.level = -1 PROVE IteratorExact'
    BY DEF IteratorExact, ReaderIdle
<1>1. iter.node \in Inserted \cup {Null} /\ iter.seen \subseteq Inserted
    BY DEF ReaderOK, Iterator
<1>2. \A m \in Inserted : \A key : /\ KeyIsAfterNode(key, m)' <=> KeyIsAfterNode(key, m)
                                   /\ Before(Internal(m), key)' <=> Before(Internal(m), key)
                                   /\ Before(key, Internal(m))' <=> Before(key, Internal(m))
    BY DEF KeyIsAfterNode, Before
<1>3. \A m, k \in Inserted : Before(Internal(m), Internal(k))' <=> Before(Internal(m), Internal(k))
    BY DEF Before
<1> QED BY <1>1, <1>2, <1>3 DEF IteratorExact, ReaderIdle, After

LEMMA InsertBeginsInv ==
    ASSUME MemInv, NEW user \in MemUserKey, NEW height \in Height, InsertBegins(user, height)
    PROVE  MemInv'
<1>0. PICK n, key, prev : /\ n = Count + 1
                           /\ key = [user |-> user, seq |-> n]
                           /\ prev = FindPrev(key)
    OBVIOUS
<1> USE DEF MemInv
<1>1. insert = NoInsert /\ n \in Node /\ n \notin Listed /\ user \in Int /\ n \in Int /\ n # Null
    BY <1>0 DEF InsertBegins, MemTypeOK, Listed, Node, Count, ListHead, Null
<1>2. /\ insert' = [node |-> n, height |-> height, level |-> 0, linked |-> FALSE,
                    prev |-> prev]
      /\ userKey' = [m \in Inserted \cup {n} |-> IF m = n THEN user ELSE userKey[m]]
      /\ link' = [m \in DOMAIN link \cup {n} |->
                    IF m = n THEN [l \in 0..(height - 1) |-> Garbage] ELSE link[m]]
      /\ heights' = RaisedTo(height)
      /\ visible' = visible /\ iter' = iter
    BY <1>0 DEF InsertBegins, Count
<1>3. Inserted' = Inserted \cup {n} /\ Inserted' = 1..n /\ Count' = n /\ Listed' = Listed \cup {n}
    <2>1. Inserted' = Inserted \cup {n}
        BY <1>2 DEF Inserted
    <2>2. Inserted' = 1..n
        BY <1>0, <2>1 DEF MemTypeOK
    <2>3. Cardinality(1..n) = n
        BY <1>0, FS_Interval DEF MemTypeOK
    <2> QED BY <2>1, <2>2, <2>3 DEF Count, Listed
<1>4. /\ \A m \in Inserted : userKey'[m] = userKey[m] /\ Internal(m)' = Internal(m)
      /\ userKey'[n] = user /\ Internal(n)' = key
      /\ \A m \in Listed : link'[m] = link[m]
      /\ link'[n] = [l \in 0..(height - 1) |-> Garbage]
    <2>1. \A m \in Inserted : m # n /\ userKey'[m] = userKey[m]
        BY <1>1, <1>2 DEF Listed
    <2>2. userKey'[n] = user
        BY <1>2
    <2>3. \A m \in Listed : link'[m] = link[m]
        BY <1>1, <1>2 DEF MemTypeOK
    <2>4. link'[n] = [l \in 0..(height - 1) |-> Garbage]
        BY <1>2
    <2> QED BY <1>0, <2>1, <2>2, <2>3, <2>4 DEF Internal
<1>5. MemTypeOK'
    <2>1. userKey' \in [Inserted' -> Int]
        BY <1>1, <1>2, <1>3 DEF MemTypeOK
    <2>2. link' \in [Listed' -> Tower']
        <3>1. Tower \subseteq Tower'
            BY <1>3 DEF Tower
        <3>2. [l \in 0..(height - 1) |-> Garbage] \in Tower'
            BY DEF Tower
        <3>3. \A m \in Listed' : link'[m] \in Tower'
            BY <1>3, <1>4, <3>1, <3>2 DEF MemTypeOK
        <3>4. DOMAIN link' = Listed' /\ link' = [m \in DOMAIN link' |-> link'[m]]
            BY <1>2, <1>3 DEF MemTypeOK
        <3> QED BY <3>3, <3>4
    <2>3. heights' \subseteq Height
        BY <1>2 DEF RaisedTo, MemTypeOK
    <2>4. DOMAIN link'[ListHead] = ListLevel
        BY <1>4 DEF MemTypeOK, Listed
    <2>5. Count' \in Nat /\ Count' <= MemEntries /\ visible' \in 0..Count'
        BY <1>0, <1>1, <1>2, <1>3 DEF MemTypeOK, Node
    <2> QED BY <1>3, <2>1, <2>2, <2>3, <2>4, <2>5 DEF MemTypeOK
<1>6. ASSUME NEW l \in ListLevel PROVE On(l)' = On(l)
    <2>1. DOMAIN link = Listed /\ DOMAIN link' = Listed \cup {n}
        BY <1>2 DEF MemTypeOK
    <2>2. \A m \in Listed : m # insert.node /\ m # n
        BY <1>1 DEF NoInsert, Null, Listed, ListHead, MemTypeOK
    <2>3. insert'.node = n /\ insert'.level = 0
        BY <1>2
    <2>4. 0 <= l
        BY DEF ListLevel
    <2>5. \A m : m \in On(l)' <=> m \in On(l)
        BY <1>4, <2>1, <2>2, <2>3, <2>4 DEF On
    <2> QED BY <2>5
<1>7. \A a, b \in Listed : Comes(a, b)' <=> Comes(a, b)
    BY <1>4 DEF Comes, Listed, Before
<1>8. LinksOK'
    <2> SUFFICES ASSUME NEW l \in ListLevel, NEW x \in On(l), NEW y, y = link'[x][l]
                 PROVE  Follows(l, x, y)'
        BY <1>6 DEF LinksOK
    <2>1. Follows(l, x, link[x][l]) /\ x \in Listed /\ On(l) \subseteq Listed
        BY OnLevels DEF LinksOK
    <2>2. y = link[x][l]
        BY <1>4, <2>1
    <2> QED BY <1>6, <1>7, <2>1, <2>2 DEF Follows
<1>9. InsertOK'
    <2>1. key \in [user : Int, seq : Int]
        BY <1>0, <1>1
    <2>2. prev \in [ListLevel -> Listed] /\ \A l \in ListLevel : Precedes(l, prev[l], key)
        BY <1>0, <1>1, <2>1, FindPrevExact
    <2>3. \A l \in ListLevel : Precedes(l, prev[l], key)'
        <3> SUFFICES ASSUME NEW l \in ListLevel, NEW p, p = prev[l]
                     PROVE  Precedes(l, p, key)'
            OBVIOUS
        <3>1. Precedes(l, p, key) /\ On(l) \subseteq Listed
            BY <2>2, OnLevels
        <3>2. \A m \in Listed : IsBefore(m, key)' <=> IsBefore(m, key)
            BY <1>4 DEF IsBefore, Listed, Before
        <3> QED BY <1>6, <1>7, <3>1, <3>2 DEF Precedes
    <2>4. insert' \in Inserting'
        <3>1. prev \in [ListLevel -> Listed']
            BY <1>3, <2>2
        <3> QED BY <1>1, <1>2, <3>1 DEF Inserting, ListLevel
    <2>5. DOMAIN link'[n] = 0..(height - 1) /\ link'[n][0] = Garbage /\ 0 < height
          /\ 0..(height - 1) \subseteq ListLevel
        BY <1>4 DEF Height, ListLevel
    <2>6. visible' < Count'
        BY <1>0, <1>2, <1>3 DEF MemTypeOK
    <2>7. /\ insert'.node = n /\ insert'.height = height /\ insert'.level = 0
          /\ insert'.linked = FALSE /\ insert'.prev = prev
        BY <1>2
    <2>8. \A l \in insert'.level..(insert'.height - 1) :
              Precedes(l, insert.prev[l], Internal(insert.node))'
        BY <1>4, <2>3, <2>5, <2>7
    <2> QED BY <1>3, <2>4, <2>5, <2>6, <2>7, <2>8 DEF InsertOK
<1>10. ReaderOK'
    <2>1. iter' \in Iterator'
        BY <1>2, <1>3 DEF ReaderOK, Iterator
    <2>2. 0 \in ListLevel /\ (iter.level # -1 => iter.level \in ListLevel)
        BY DEF ReaderOK, Iterator, ListLevel
    <2>3. iter'.seen \subseteq On(0)'
        BY <1>2, <1>6, <2>2 DEF ReaderOK
    <2>7. iter.node # Null => iter.node \in On(0)'
        BY <1>6, <2>2 DEF ReaderOK
    <2>4. iter.level # -1 => iter.x \in On(iter.level)'
        BY <1>2, <1>6, <2>2 DEF ReaderOK
    <2>5. iter.level # -1 => (iter.find # "Last" => IsBefore(iter.x, iter.target)')
        BY <1>2, <1>4 DEF ReaderOK, Iterator, IsBefore, Listed, Before
    <2>6. iter.find = "GreaterOrEqual" =>
             iter.target.seq <= visible' /\ \A m \in Inserted' : m <= iter.target.seq => m \in iter.seen
        BY <1>0, <1>2, <1>3 DEF ReaderOK, MemTypeOK, Iterator
    <2> QED BY <1>2, <2>1, <2>3, <2>4, <2>5, <2>6, <2>7 DEF ReaderOK
<1>11. IteratorExact'
    <2>1. Null \notin Inserted
        BY DEF MemTypeOK, Null
    <2> QED BY <1>2, <1>4, <2>1, IteratorStays
<1> QED BY <1>5, <1>8, <1>9, <1>10, <1>11

\* What the reader relies on survives every step that keeps the keys, and
\* takes no node out of a level.
LEMMA ReaderStays ==
    ASSUME MemInv, userKey' = userKey, iter' = iter, visible' \in Nat, visible <= visible',
           \A l \in ListLevel : On(l) \subseteq On(l)'
    PROVE  ReaderOK' /\ IteratorExact'
<1>1. Inserted' = Inserted /\ Listed' = Listed
    BY DEF Inserted, Listed
<1>2. \A m : Internal(m)' = Internal(m)
    BY DEF Internal
<1>3. 0 \in ListLevel /\ (iter.level # -1 => iter.level \in ListLevel)
    BY DEF MemInv, ReaderOK, Iterator, ListLevel
<1>4. iter'.seen \subseteq On(0)' /\ (iter'.node # Null => iter'.node \in On(0)')
    BY <1>3 DEF MemInv, ReaderOK
<1>5. iter.level # -1 => iter'.x \in On(iter.level)'
    BY <1>3 DEF MemInv, ReaderOK
<1>6. IsBefore(iter.x, iter.target)' <=> IsBefore(iter.x, iter.target)
    BY <1>2 DEF IsBefore, Before
<1>7. iter' \in Iterator'
    BY <1>1 DEF MemInv, ReaderOK, Iterator
<1>8. iter.find = "GreaterOrEqual" => iter.target.seq <= visible'
    <2> SUFFICES ASSUME iter.find = "GreaterOrEqual" PROVE iter.target.seq <= visible'
        OBVIOUS
    <2>1. iter.target.seq \in Int /\ iter.target.seq <= visible
        BY DEF MemInv, ReaderOK, Iterator
    <2>2. visible \in Int
        BY DEF MemInv, MemTypeOK
    <2> QED BY <2>1, <2>2
<1>9. ReaderOK'
    BY <1>1, <1>4, <1>5, <1>6, <1>7, <1>8 DEF MemInv, ReaderOK
<1>10. IteratorExact'
    <2>1. Null \notin Inserted
        BY DEF MemInv, MemTypeOK, Null
    <2> QED BY <1>2, <2>1, IteratorStays DEF MemInv
<1> QED BY <1>9, <1>10

\* The node under way, where it is going to be linked.
LEMMA InsertPlace ==
    ASSUME MemInv, insert # NoInsert
    PROVE  LET n == insert.node
               l == insert.level
               p == insert.prev[l]
           IN  /\ n \in Inserted /\ l \in ListLevel /\ l \in DOMAIN link[n] /\ n \notin On(l)
               /\ p \in On(l) /\ p # n /\ p \in Listed /\ l \in DOMAIN link[p]
               /\ Follows(l, p, link[p][l]) /\ Comes(p, n)
               /\ \A m \in On(l) : m = p \/ Comes(m, p) \/ Comes(n, m)
<1> DEFINE n == insert.node
           l == insert.level
           p == insert.prev[l]
<1> USE DEF MemInv
<1>1. /\ insert \in Inserting /\ n = Count /\ visible < Count /\ l < insert.height
      /\ DOMAIN link[n] = 0..(insert.height - 1)
      /\ \A j \in l..(insert.height - 1) : Precedes(j, insert.prev[j], Internal(n))
    BY DEF InsertOK
<1>2. n \in Inserted /\ l \in ListLevel /\ l \in DOMAIN link[n]
    BY <1>1 DEF Inserting, Height, ListLevel, Node, MemTypeOK
<1>3. n \notin On(l)
    BY <1>2 DEF On, ListLevel
<1>4. l \in l..(insert.height - 1)
    BY <1>1 DEF Inserting, Height, ListLevel
<1>5. Precedes(l, p, Internal(n))
    BY <1>1, <1>4
<1>6. p \in On(l) /\ p # n /\ On(l) \subseteq Listed /\ n \in Listed /\ n # ListHead
    BY <1>2, <1>3, <1>5, OnLevels DEF Precedes, Listed
<1>7. Follows(l, p, link[p][l])
    BY <1>2, <1>6 DEF LinksOK
<1>8. \A m \in Listed : IsBefore(m, Internal(n)) <=> Comes(m, n)
    BY <1>6 DEF IsBefore, Comes
<1>9. Comes(p, n)
    BY <1>5, <1>6, <1>8 DEF Precedes
<1>10. ASSUME NEW m \in On(l) PROVE m = p \/ Comes(m, p) \/ Comes(n, m)
    <2>1. Comes(m, n) \/ Comes(n, m)
        BY <1>3, <1>6, ListOrder
    <2> QED BY <1>5, <1>6, <1>8, <2>1 DEF Precedes
<1>11. l \in DOMAIN link[p]
    BY <1>6 DEF On
<1> QED BY <1>2, <1>3, <1>6, <1>7, <1>9, <1>10, <1>11

LEMMA LinkNodeInv ==
    ASSUME MemInv, LinkNode
    PROVE  MemInv'
<1> USE DEF MemInv
<1>0. PICK n, l, p, y : n = insert.node /\ l = insert.level /\ p = insert.prev[l] /\ y = link[p][l]
    OBVIOUS
<1>1. /\ insert # NoInsert /\ insert.linked = FALSE
      /\ link' = [link EXCEPT ![n][l] = y]
      /\ insert' = [insert EXCEPT !.linked = TRUE]
      /\ userKey' = userKey /\ heights' = heights /\ visible' = visible /\ iter' = iter
    <2>1. insert # NoInsert /\ ~insert.linked
        BY DEF LinkNode
    <2>2. insert \in Inserting
        BY <2>1 DEF InsertOK
    <2>3. insert.linked \in BOOLEAN
        BY <2>2 DEF Inserting
    <2> QED BY <1>0, <2>1, <2>3 DEF LinkNode
<1>2. /\ n \in Inserted /\ l \in ListLevel /\ l \in DOMAIN link[n] /\ n \notin On(l)
      /\ p \in On(l) /\ p # n /\ p \in Listed /\ l \in DOMAIN link[p]
    BY <1>0, <1>1, InsertPlace
<1>3. Inserted' = Inserted /\ Listed' = Listed /\ Count' = Count /\ Tower' = Tower
    BY <1>1 DEF Inserted, Listed, Count, Tower
<1>4. /\ DOMAIN link' = Listed /\ DOMAIN link = Listed
      /\ \A m \in Listed : /\ DOMAIN link'[m] = DOMAIN link[m]
                           /\ \A j \in DOMAIN link[m] : m # n \/ j # l => link'[m][j] = link[m][j]
      /\ link'[n][l] = y
    <2>1. n \in Listed /\ DOMAIN link = Listed
        BY <1>2 DEF Listed, MemTypeOK
    <2>2. \A m \in Listed : \E h \in Height : link[m] \in [0..(h - 1) -> Inserted \cup {Null, Garbage}]
        BY DEF MemTypeOK, Tower
    <2> QED BY <1>1, <1>2, <2>1, <2>2
<1>5. MemTypeOK'
    <2>1. \A m \in Listed : link'[m] \in Tower
        <3> TAKE m \in Listed
        <3>1. PICK h \in Height : link[m] \in [0..(h - 1) -> Inserted \cup {Null, Garbage}]
            BY DEF MemTypeOK, Tower
        <3>2. y \in Inserted \cup {Null, Garbage}
            BY <1>0, <1>2, TowerLevels
        <3>3. link'[m] \in [0..(h - 1) -> Inserted \cup {Null, Garbage}]
            BY <1>1, <1>2, <3>1, <3>2 DEF MemTypeOK, Listed
        <3> QED BY <3>1, <3>3 DEF Tower
    <2>2. link' \in [Listed -> Tower]
        BY <1>1, <1>4, <2>1
    <2>3. DOMAIN link'[ListHead] = ListLevel
        BY <1>4 DEF MemTypeOK, Listed
    <2> QED BY <1>1, <1>3, <2>2, <2>3 DEF MemTypeOK
<1>6. insert'.node = n /\ insert'.level = l /\ insert'.height = insert.height
      /\ insert'.prev = insert.prev /\ insert' \in Inserting' /\ insert'.linked = TRUE
    <2>1. insert \in Inserting
        BY <1>1 DEF InsertOK
    <2>2. insert' \in Inserting
        BY <1>1, <2>1 DEF Inserting
    <2>3. Inserting' = Inserting
        BY <1>3 DEF Inserting
    <2> QED BY <1>0, <1>1, <2>1, <2>2, <2>3 DEF Inserting
<1>7. ASSUME NEW j \in ListLevel PROVE On(j)' = On(j)
    BY <1>0, <1>4, <1>6 DEF On
<1>8. /\ \A m : Internal(m)' = Internal(m)
      /\ \A a, b : Comes(a, b)' <=> Comes(a, b)
      /\ \A a, key : IsBefore(a, key)' <=> IsBefore(a, key)
    BY <1>1 DEF Internal, Comes, IsBefore, Before
<1>9. LinksOK'
    <2> SUFFICES ASSUME NEW j \in ListLevel, NEW x \in On(j), NEW z, z = link'[x][j]
                 PROVE  Follows(j, x, z)'
        BY <1>7 DEF LinksOK
    <2>1. x \in Listed /\ j \in DOMAIN link[x] /\ (x # n \/ j # l)
        BY <1>2, <1>4 DEF On
    <2>2. z = link[x][j]
        BY <1>4, <2>1
    <2>3. Follows(j, x, z)
        BY <2>2 DEF LinksOK
    <2> QED BY <1>7, <1>8, <2>3 DEF Follows
<1>10. InsertOK'
    <2>1. DOMAIN link'[n] = 0..(insert.height - 1) /\ n = Count /\ visible < Count
          /\ l < insert.height /\ insert \in Inserting
        BY <1>0, <1>1, <1>2, <1>4 DEF InsertOK, Listed
    <2>2. ASSUME NEW j \in l..(insert.height - 1), NEW q, q = insert.prev[j]
          PROVE  Precedes(j, q, Internal(n))'
        <3>1. Precedes(j, q, Internal(n))
            BY <1>0, <1>1, <2>2 DEF InsertOK
        <3>2. j \in ListLevel
            BY <1>2, <2>1 DEF Inserting, Height, ListLevel
        <3> QED BY <1>7, <1>8, <3>1, <3>2 DEF Precedes
    <2>3. \A j \in insert'.level..(insert'.height - 1) :
              Precedes(j, insert.prev[j], Internal(insert.node))'
        BY <1>6, <2>2
    <2>4. link'[n][l] = link'[p][l]
        BY <1>0, <1>2, <1>4
    <2>5. insert'.prev[insert'.level] = p
        BY <1>0, <1>6
    <2> QED BY <1>1, <1>3, <1>6, <2>1, <2>3, <2>4, <2>5 DEF InsertOK
<1>11. ReaderOK' /\ IteratorExact'
    <2>1. visible' \in Nat /\ visible <= visible'
        BY <1>1 DEF MemTypeOK
    <2> QED BY <1>1, <1>7, <2>1, ReaderStays
<1> QED BY <1>5, <1>9, <1>10, <1>11

LEMMA PublishNodeInv ==
    ASSUME MemInv, PublishNode
    PROVE  MemInv'
<1> USE DEF MemInv
<1>0. PICK n, l, p, y, top : /\ n = insert.node /\ l = insert.level /\ p = insert.prev[l]
                             /\ y = link[p][l] /\ top = insert.height - 1
    OBVIOUS
<1>1. /\ insert # NoInsert /\ insert.linked
      /\ link' = [link EXCEPT ![p][l] = n]
      /\ insert' = IF l + 1 = insert.height THEN NoInsert
                   ELSE [insert EXCEPT !.level = l + 1, !.linked = FALSE]
      /\ userKey' = userKey /\ heights' = heights /\ visible' = visible /\ iter' = iter
    BY <1>0 DEF PublishNode
<1>2. /\ insert \in Inserting /\ n = Count /\ visible < Count /\ l <= top
      /\ DOMAIN link[n] = 0..top /\ link[n][l] = y /\ top \in ListLevel
      /\ \A j \in l..top : Precedes(j, insert.prev[j], Internal(n))
    BY <1>0, <1>1 DEF InsertOK, Inserting, Height, ListLevel
<1>3. /\ n \in Inserted /\ l \in ListLevel /\ l \in DOMAIN link[n] /\ n \notin On(l)
      /\ p \in On(l) /\ p # n /\ p \in Listed /\ l \in DOMAIN link[p]
      /\ Follows(l, p, y) /\ Comes(p, n)
      /\ \A m \in On(l) : m = p \/ Comes(m, p) \/ Comes(n, m)
    BY <1>0, <1>1, InsertPlace
<1>4. Inserted' = Inserted /\ Listed' = Listed /\ Count' = Count /\ Tower' = Tower
    BY <1>1 DEF Inserted, Listed, Count, Tower
<1>5. /\ DOMAIN link' = Listed /\ DOMAIN link = Listed
      /\ \A m \in Listed : /\ DOMAIN link'[m] = DOMAIN link[m]
                           /\ \A j \in DOMAIN link[m] : m # p \/ j # l => link'[m][j] = link[m][j]
      /\ link'[p][l] = n
    <2>1. DOMAIN link = Listed
        BY DEF MemTypeOK
    <2>2. \A m \in Listed : \E h \in Height : link[m] \in [0..(h - 1) -> Inserted \cup {Null, Garbage}]
        BY DEF MemTypeOK, Tower
    <2> QED BY <1>1, <1>3, <2>1, <2>2
<1>6. MemTypeOK'
    <2>1. \A m \in Listed : link'[m] \in Tower
        <3> TAKE m \in Listed
        <3>1. PICK h \in Height : link[m] \in [0..(h - 1) -> Inserted \cup {Null, Garbage}]
            BY DEF MemTypeOK, Tower
        <3>2. link'[m] \in [0..(h - 1) -> Inserted \cup {Null, Garbage}]
            BY <1>1, <1>3, <3>1 DEF MemTypeOK
        <3> QED BY <3>1, <3>2 DEF Tower
    <2>2. link' \in [Listed -> Tower]
        BY <1>1, <1>5, <2>1
    <2>3. DOMAIN link'[ListHead] = ListLevel
        BY <1>5 DEF MemTypeOK, Listed
    <2> QED BY <1>1, <1>4, <2>2, <2>3 DEF MemTypeOK
<1>7. \/ l = top /\ insert' = NoInsert
      \/ /\ l < top /\ insert' # NoInsert /\ insert' \in Inserting /\ insert'.node = n
         /\ insert'.level = l + 1 /\ insert'.height = insert.height
         /\ insert'.prev = insert.prev /\ insert'.linked = FALSE
    <2>1. l \in Nat /\ insert.height \in Nat
        BY <1>2, <1>3 DEF Inserting, Height, ListLevel
    <2>2. CASE l = top
        BY <1>0, <1>1, <2>1, <2>2
    <2>3. CASE l # top
        <3>1. l < top /\ l + 1 # insert.height /\ l + 1 \in ListLevel
            BY <1>0, <1>2, <1>3, <2>1, <2>3 DEF ListLevel
        <3>2. insert' = [insert EXCEPT !.level = l + 1, !.linked = FALSE]
            BY <1>1, <3>1
        <3>3. insert' \in Inserting
            BY <1>2, <3>1, <3>2 DEF Inserting
        <3>4. insert'.node = n /\ insert'.level = l + 1 /\ insert'.height = insert.height
              /\ insert'.prev = insert.prev /\ insert'.linked = FALSE
            BY <1>0, <1>2, <3>2 DEF Inserting
        <3>5. n # Null /\ NoInsert.node = Null
            BY <1>3 DEF NoInsert, MemTypeOK, Null
        <3> QED BY <3>1, <3>3, <3>4, <3>5
    <2> QED BY <2>2, <2>3
<1>8. ASSUME NEW j \in ListLevel PROVE On(j)' = IF j = l THEN On(l) \cup {n} ELSE On(j)
    <2>1. \A m \in Listed : m # n => (m \in On(j)' <=> m \in On(j))
        <3>1. NoInsert.node \notin Listed
            BY DEF NoInsert, MemTypeOK, Listed, Null, ListHead
        <3>2. \A m \in Listed : m # n => m # insert'.node /\ m # insert.node
            BY <1>0, <1>7, <3>1
        <3> QED BY <1>5, <3>2 DEF On
    <2>2. n \in On(j)' <=> n \in On(j) \/ j = l
        <3>1. n \in Listed /\ (j \in DOMAIN link'[n] <=> j \in 0..top)
            BY <1>2, <1>3, <1>5 DEF Listed
        <3>2. n \in On(j) <=> j \in 0..top /\ j < l
            BY <1>0, <1>2, <1>5, <3>1 DEF On, ListLevel, Inserting
        <3>3. CASE l = top /\ insert' = NoInsert
            <4>1. n # insert'.node
                BY <1>3, <3>3 DEF NoInsert, MemTypeOK, Null
            <4>2. n \in On(j)' <=> j \in 0..top
                BY <1>5, <3>1, <4>1 DEF On
            <4> QED BY <1>3, <3>2, <3>3, <4>2 DEF ListLevel
        <3>4. CASE l < top /\ insert'.node = n /\ insert'.level = l + 1
            <4>1. n \in On(j)' <=> j \in 0..top /\ ~(l + 1 <= j)
                BY <1>5, <3>1, <3>4 DEF On
            <4> QED BY <1>2, <1>3, <3>2, <3>4, <4>1 DEF ListLevel
        <3> QED BY <1>7, <3>3, <3>4
    <2>3. On(j)' \subseteq Listed /\ On(j) \subseteq Listed /\ n \in Listed
        BY <1>3, <1>5 DEF On, Listed
    <2> QED BY <1>3, <2>1, <2>2, <2>3
<1>9. /\ \A m : Internal(m)' = Internal(m)
      /\ \A a, b : Comes(a, b)' <=> Comes(a, b)
      /\ \A a, key : IsBefore(a, key)' <=> IsBefore(a, key)
    BY <1>1 DEF Internal, Comes, IsBefore, Before
<1>10. LinksOK'
    <2>1. ASSUME NEW j \in ListLevel, NEW x \in On(j)', NEW z, z = link'[x][j], j # l
          PROVE  Follows(j, x, z)'
        <3>1. x \in On(j) /\ z = link[x][j]
            BY <1>5, <1>8, <2>1 DEF On
        <3>2. Follows(j, x, z)
            BY <3>1 DEF LinksOK
        <3> QED BY <1>8, <1>9, <2>1, <3>2 DEF Follows
    <2>2. ASSUME NEW x \in On(l)', NEW z, z = link'[x][l]
          PROVE  Follows(l, x, z)'
        <3>1. On(l)' = On(l) \cup {n} /\ On(l) \subseteq Listed /\ n \in Listed /\ n # ListHead
            BY <1>3, <1>8, OnLevels DEF Listed, MemTypeOK, ListHead
        <3>2. CASE x = p
            <4>1. z = n
                BY <1>5, <2>2, <3>2
            <4>2. ASSUME NEW m \in On(l), Comes(p, m) PROVE Comes(n, m)
                BY <1>3, <3>1, <4>2, ListOrder
            <4>3. n # Null
                BY <1>3 DEF MemTypeOK, Null
            <4> QED BY <1>3, <1>9, <3>1, <3>2, <4>1, <4>2, <4>3 DEF Follows
        <3>3. CASE x = n
            <4>1. z = y
                BY <1>2, <1>3, <1>5, <2>2, <3>1, <3>3
            <4>2. \A m \in On(l) : Comes(n, m) <=> Comes(p, m)
                BY <1>3, <3>1, ListOrder
            <4>3. ~Comes(n, n)
                BY <3>1, ListOrder
            <4> QED BY <1>3, <1>9, <3>1, <3>3, <4>1, <4>2, <4>3 DEF Follows
        <3>4. CASE x # p /\ x # n
            <4>1. x \in On(l) /\ x \in Listed /\ z = link[x][l]
                BY <1>5, <2>2, <3>1, <3>4 DEF On
            <4>2. Follows(l, x, z)
                BY <1>3, <4>1 DEF LinksOK
            <4>3. Comes(x, n) => z # Null /\ Comes(z, n)
                <5> SUFFICES ASSUME Comes(x, n) PROVE z # Null /\ Comes(z, n)
                    OBVIOUS
                <5>1. Comes(x, p)
                    BY <1>3, <3>1, <3>4, <4>1, ListOrder
                <5>2. z # Null /\ (p = z \/ Comes(z, p))
                    BY <1>3, <4>2, <5>1 DEF Follows
                <5>3. z \in Listed
                    BY <3>1, <4>2, <5>2 DEF Follows
                <5> QED BY <1>3, <3>1, <5>2, <5>3, ListOrder
            <4> QED BY <1>9, <3>1, <4>2, <4>3 DEF Follows
        <3> QED BY <3>2, <3>3, <3>4
    <2>3. ASSUME NEW j \in ListLevel, NEW x \in On(j)', NEW z, z = link'[x][j]
          PROVE  Follows(j, x, z)'
        BY <2>1, <2>2, <2>3
    <2> QED BY <2>3 DEF LinksOK
<1>11. InsertOK'
    <2> SUFFICES ASSUME insert' # NoInsert PROVE InsertOK'
        BY DEF InsertOK
    <2>1. /\ l < top /\ insert' \in Inserting /\ insert'.node = n
          /\ insert'.level = l + 1 /\ insert'.height = insert.height
          /\ insert'.prev = insert.prev /\ insert'.linked = FALSE
        BY <1>7
    <2>2. l \in Nat /\ top \in Nat /\ insert.height = top + 1
        BY <1>0, <1>2, <1>3 DEF ListLevel, Inserting, Height
    <2>3. ASSUME NEW j \in (l + 1)..top, NEW q, q = insert.prev[j]
          PROVE  Precedes(j, q, Internal(n))'
        <3>1. Precedes(j, q, Internal(n))
            BY <1>2, <2>2, <2>3
        <3>2. j \in ListLevel /\ j # l
            BY <1>2, <2>2 DEF ListLevel
        <3> QED BY <1>8, <1>9, <3>1, <3>2 DEF Precedes
    <2>4. \A j \in insert'.level..(insert'.height - 1) :
              Precedes(j, insert.prev[j], Internal(insert.node))'
        BY <2>1, <2>2, <2>3
    <2>5. DOMAIN link'[n] = 0..(insert'.height - 1)
        BY <1>2, <1>3, <1>5, <2>1, <2>2 DEF Listed
    <2>6. insert'.level < insert'.height /\ insert'.level # 0
        BY <2>1, <2>2
    <2>7. Inserting' = Inserting
        BY <1>4 DEF Inserting
    <2> QED BY <1>1, <1>2, <1>4, <2>1, <2>4, <2>5, <2>6, <2>7 DEF InsertOK
<1>12. ReaderOK' /\ IteratorExact'
    <2>1. visible' \in Nat /\ visible <= visible'
        BY <1>1 DEF MemTypeOK
    <2>2. \A j \in ListLevel : On(j) \subseteq On(j)'
        BY <1>8
    <2> QED BY <1>1, <2>1, <2>2, ReaderStays
<1> QED BY <1>6, <1>10, <1>11, <1>12

LEMMA SetLastSequenceInv ==
    ASSUME MemInv, SetLastSequence
    PROVE  MemInv'
<1> USE DEF MemInv
<1>1. /\ insert = NoInsert /\ visible' = Count
      /\ userKey' = userKey /\ link' = link /\ heights' = heights /\ insert' = insert /\ iter' = iter
    BY DEF SetLastSequence, Count
<1>2. Inserted' = Inserted /\ Listed' = Listed /\ Count' = Count /\ Tower' = Tower
    BY <1>1 DEF Inserted, Listed, Count, Tower
<1>3. Count \in Nat /\ visible \in Nat /\ visible <= Count
    BY DEF MemTypeOK
<1>4. MemTypeOK'
    BY <1>1, <1>2, <1>3 DEF MemTypeOK
<1>5. InsertOK'
    BY <1>1 DEF InsertOK
<1>6. \A j : On(j)' = On(j)
    BY <1>1 DEF On
<1>7. LinksOK'
    BY <1>1, <1>6 DEF LinksOK, Follows, Comes, Before, Internal
<1>8. ReaderOK' /\ IteratorExact'
    BY <1>1, <1>3, <1>6, ReaderStays
<1> QED BY <1>4, <1>5, <1>7, <1>8

-----------------------------------------------------------------------------
(* The steps of the reader.                                                  *)
ListStays == userKey' = userKey /\ link' = link /\ heights' = heights /\ insert' = insert
             /\ visible' = visible

LEMMA WriterStays ==
    ASSUME MemInv, ListStays
    PROVE  MemTypeOK' /\ InsertOK' /\ LinksOK'
<1> USE DEF MemInv, ListStays
<1>1. Inserted' = Inserted /\ Listed' = Listed /\ Count' = Count /\ Tower' = Tower
    BY DEF Inserted, Listed, Count, Tower
<1>2. MemTypeOK'
    BY <1>1 DEF MemTypeOK
<1>3. \A j : On(j)' = On(j)
    BY DEF On
<1>4. InsertOK'
    <2>1. Inserting' = Inserting
        BY <1>1 DEF Inserting
    <2>2. \A l, q, k : Precedes(l, q, k)' <=> Precedes(l, q, k)
        BY <1>3 DEF Precedes, IsBefore, Comes, Before, Internal
    <2>3. PICK n, prev : n = insert.node /\ prev = insert.prev
        OBVIOUS
    <2>4. \A l : Precedes(l, prev[l], Internal(n))' <=> Precedes(l, prev[l], Internal(n))
        BY <2>2 DEF Internal
    <2> QED BY <1>1, <2>1, <2>3, <2>4 DEF InsertOK
<1>5. LinksOK'
    BY <1>3 DEF LinksOK, Follows, Comes, Before, Internal
<1> QED BY <1>2, <1>4, <1>5

LEMMA FindBeginsInv ==
    ASSUME MemInv, ListStays, NEW find \in Finds, NEW target \in [user : Int, seq : Int],
           find = "GreaterOrEqual" => target.seq <= visible,
           FindBegins(find, target)
    PROVE  MemInv'
<1> USE DEF MemInv
<1>1. PICK height \in heights :
        iter' = [iter EXCEPT !.find = find, !.target = target, !.x = ListHead, !.level = height - 1,
                             !.node = Null, !.seen = Reachable]
    BY DEF FindBegins
<1>2. height - 1 \in ListLevel /\ 0 \in ListLevel /\ height - 1 # -1
    BY DEF MemTypeOK, Height, ListLevel
<1>3. Reachable = On(0) \ {ListHead} /\ On(0) \subseteq Listed /\ ListHead \in On(height - 1)
    BY <1>2, ReachableExact, OnLevels
<1>4. /\ iter'.find = find /\ iter'.target = target /\ iter'.x = ListHead
      /\ iter'.level = height - 1 /\ iter'.node = Null /\ iter'.seen = Reachable
      /\ iter' \in Iterator
    <2>1. Reachable \in SUBSET Inserted /\ ListHead \in Listed /\ find \in Finds \cup {"First", "Next", NoFind}
        BY <1>3 DEF Listed
    <2>2. iter \in Iterator
        BY DEF ReaderOK
    <2>3. height - 1 \in -1..(kMaxHeight - 1)
        BY <1>2 DEF ListLevel
    <2>4. /\ iter'.find = find /\ iter'.target = target /\ iter'.x = ListHead
          /\ iter'.level = height - 1 /\ iter'.node = Null /\ iter'.seen = Reachable
        BY <1>1, <2>2 DEF Iterator
    <2>5. iter' = [find |-> find, target |-> target, x |-> ListHead, level |-> height - 1,
                   node |-> Null, seen |-> Reachable]
        BY <1>1, <2>2 DEF Iterator
    <2>6. iter' \in Iterator
        BY <2>1, <2>3, <2>5 DEF Iterator
    <2> QED BY <2>4, <2>6
<1>5. \A j : On(j)' = On(j)
    BY DEF On, ListStays
<1>6. Iterator' = Iterator /\ Inserted' = Inserted /\ visible' = visible
    BY DEF Iterator, Inserted, Listed, ListStays
<1>7. find = "GreaterOrEqual" => \A m \in Inserted : m <= target.seq => m \in Reachable
    <2> SUFFICES ASSUME find = "GreaterOrEqual", NEW m \in Inserted, m <= target.seq
                 PROVE  m \in Reachable
        OBVIOUS
    <2>1. m <= visible /\ m # ListHead /\ m \in Listed
        BY DEF MemTypeOK, ListHead, Listed
    <2>2. m # insert.node
        <3>1. insert # NoInsert => insert.node = Count /\ visible < Count
            BY DEF InsertOK
        <3>2. m # Null /\ NoInsert.node = Null /\ Count \in Int /\ visible \in Int /\ m \in Int
            BY DEF MemTypeOK, Null, NoInsert
        <3> QED BY <2>1, <3>1, <3>2
    <2>3. m \in On(0)
        BY <2>1, <2>2, TowerLevels DEF On, MemTypeOK
    <2> QED BY <1>3, <2>1, <2>3
<1>8. ReaderOK'
    <2>1. IsBefore(iter.x, iter.target)'
        BY <1>4 DEF IsBefore
    <2>2. (iter.seen \subseteq On(0))' /\ (iter.x \in On(iter.level))'
        BY <1>3, <1>4, <1>5
    <2> QED BY <1>2, <1>4, <1>6, <1>7, <2>1, <2>2 DEF ReaderOK
<1>9. IteratorExact'
    BY <1>2, <1>4 DEF IteratorExact, ReaderIdle
<1> QED BY <1>8, <1>9, WriterStays

\* The operations of the iterator that are a single load.
LEMMA LoadInv ==
    ASSUME MemInv, ListStays, ReaderIdle, NEW x \in On(0),
           \/ /\ x = ListHead
              /\ iter' = [iter EXCEPT !.find = "First", !.seen = Reachable, !.node = link[x][0]]
           \/ /\ x # ListHead
              /\ iter' = [iter EXCEPT !.find = "Next", !.target = Internal(x), !.seen = Reachable,
                                      !.node = link[x][0]]
    PROVE  MemInv'
<1> USE DEF MemInv
<1>1. 0 \in ListLevel
    BY DEF ListLevel
<1>2. Reachable = On(0) \ {ListHead} /\ On(0) \subseteq Listed
    BY <1>1, ReachableExact, OnLevels
<1>3. Follows(0, x, link[x][0])
    BY <1>1 DEF LinksOK
<1>4. \A j : On(j)' = On(j)
    BY DEF On, ListStays
<1>5. Iterator' = Iterator
    BY DEF Iterator, Inserted, Listed, ListStays
<1>6. PICK n : n = link[x][0]
    OBVIOUS
<1>7. iter \in Iterator /\ iter.level = -1 /\ n \in Inserted \cup {Null} /\ Reachable \in SUBSET Inserted
    BY <1>2, <1>3, <1>6 DEF ReaderOK, ReaderIdle, Follows, Listed
<1>8. x # ListHead => Internal(x) \in [user : Int, seq : Int]
    BY <1>2 DEF Internal, MemTypeOK, Listed
<1>9. /\ iter' \in Iterator /\ iter'.level = -1 /\ iter'.node = n /\ iter'.seen = Reachable
      /\ \/ x = ListHead /\ iter'.find = "First"
         \/ x # ListHead /\ iter'.find = "Next" /\ iter'.target = Internal(x)
    <2>1. CASE x = ListHead
        BY <1>6, <1>7, <2>1 DEF Iterator
    <2>2. CASE x # ListHead
        BY <1>6, <1>7, <1>8, <2>2 DEF Iterator
    <2> QED BY <2>1, <2>2
<1>10. ReaderOK'
    <2>1. (iter.seen \subseteq On(0))' /\ (iter.node # Null => iter.node \in On(0))'
        BY <1>2, <1>3, <1>4, <1>6, <1>9 DEF Follows
    <2>2. iter'.find # "GreaterOrEqual"
        BY <1>9
    <2> QED BY <1>5, <1>9, <2>1, <2>2 DEF ReaderOK
<1>11. ASSUME NEW m \in Reachable, Comes(x, m)
       PROVE  n # Null /\ (m = n \/ Before(Internal(n), Internal(m)))
    <2>1. n # Null /\ n # ListHead /\ (m = n \/ Comes(n, m))
        BY <1>2, <1>3, <1>6, <1>11 DEF Follows
    <2> QED BY <2>1 DEF Comes
<1>12. n # Null => Comes(x, n)
    BY <1>3, <1>6 DEF Follows
<1>13. \A m : Internal(m)' = Internal(m)
    BY DEF Internal, ListStays
<1>14. IteratorExact'
    <2>1. CASE x = ListHead
        <3>1. \A m \in Reachable : Comes(x, m)
            BY <1>2, <2>1 DEF Comes
        <3>2. iter'.find = "First"
            BY <1>9, <2>1
        <3>3. \A m \in Reachable : n # Null /\ (m = n \/ Before(Internal(n), Internal(m))')
            BY <1>11, <1>13, <3>1 DEF Before
        <3> QED BY <1>9, <3>2, <3>3 DEF IteratorExact
    <2>2. CASE x # ListHead
        <3>1. \A m : Comes(x, m) <=> m # ListHead /\ Before(Internal(x), Internal(m))
            BY <2>2 DEF Comes
        <3>2. PICK key : key = Internal(x)
            OBVIOUS
        <3>3. iter'.find = "Next" /\ iter'.target = key
            BY <1>9, <2>2, <3>2
        <3>4. \A m \in Reachable : Before(key, Internal(m))' =>
                    n # Null /\ (m = n \/ Before(Internal(n), Internal(m))')
            BY <1>2, <1>11, <1>13, <3>1, <3>2 DEF Before
        <3>5. n # Null => Before(key, Internal(n))'
            BY <1>12, <1>13, <3>1, <3>2 DEF Before
        <3> QED BY <1>9, <3>3, <3>4, <3>5 DEF IteratorExact, After
    <2> QED BY <2>1, <2>2
<1> QED BY <1>10, <1>14, WriterStays

LEMMA FindStepInv ==
    ASSUME MemInv, ListStays, FindStep
    PROVE  MemInv'
<1> USE DEF MemInv
<1>1. PICK x, l, y, key, find : /\ x = iter.x /\ l = iter.level /\ y = link[x][l]
                                /\ key = iter.target /\ find = iter.find
    OBVIOUS
<1> DEFINE goOn == IF find = "Last" THEN y # Null ELSE KeyIsAfterNode(key, y)
           ends == IF find = "GreaterOrEqual" THEN y ELSE IF x = ListHead THEN Null ELSE x
<1>2. /\ l # -1
      /\ iter' = IF goOn THEN [iter EXCEPT !.x = y]
                 ELSE IF l > 0 THEN [iter EXCEPT !.level = l - 1]
                 ELSE [iter EXCEPT !.level = -1, !.x = ListHead, !.node = ends]
    BY <1>1 DEF FindStep, ReaderIdle
<1>3. /\ iter \in Iterator /\ l \in ListLevel /\ x \in On(l) /\ x \in Listed
      /\ key \in [user : Int, seq : Int] /\ find \in Finds
      /\ find # "Last" => IsBefore(x, key)
      /\ iter.seen \subseteq On(0) /\ iter.seen \subseteq Inserted
    BY <1>1, <1>2 DEF ReaderOK, Iterator, ListLevel
<1>4. Follows(l, x, y) /\ On(l) \subseteq Listed
    BY <1>1, <1>3, OnLevels DEF LinksOK
<1>5. (\A j : On(j)' = On(j)) /\ (\A m : Internal(m)' = Internal(m))
    BY DEF On, Internal, ListStays
<1>6. Iterator' = Iterator /\ Inserted' = Inserted /\ visible' = visible
    BY DEF Iterator, Inserted, Listed, ListStays
<1>7. \A n : IsBefore(n, key)' <=> IsBefore(n, key)
    BY <1>5 DEF IsBefore, Before
<1>8. Null \notin Listed /\ ListHead # Null
    BY DEF MemTypeOK, Listed, Null, ListHead
<1>9. CASE goOn
    <2>1. y # Null /\ (find # "Last" => IsBefore(y, key))
        BY <1>9 DEF KeyIsAfterNode, IsBefore
    <2>2. y \in On(l) /\ y \in Listed
        BY <1>4, <2>1 DEF Follows
    <2>3. iter' = [iter EXCEPT !.x = y]
        BY <1>2, <1>9
    <2> HIDE DEF goOn, ends
    <2>4. /\ iter' \in Iterator /\ iter'.x = y /\ iter'.level = l /\ iter'.target = key
          /\ iter'.find = find /\ iter'.seen = iter.seen /\ iter'.node = iter.node
        BY <1>1, <1>3, <2>2, <2>3 DEF Iterator
    <2>5. ReaderOK'
        <3>1. find = "GreaterOrEqual" =>
                  key.seq <= visible /\ \A m \in Inserted : m <= key.seq => m \in iter.seen
            BY <1>1 DEF ReaderOK
        <3>2. (iter.seen \subseteq On(0))' /\ (iter.node # Null => iter.node \in On(0))'
            BY <1>5, <2>4 DEF ReaderOK
        <3>3. y \in On(l)' /\ (find # "Last" => IsBefore(y, key)')
            BY <1>5, <1>7, <2>1, <2>2
        <3> QED BY <1>3, <1>6, <2>4, <3>1, <3>2, <3>3 DEF ReaderOK
    <2>6. IteratorExact'
        BY <1>2, <2>4 DEF IteratorExact, ReaderIdle
    <2> QED BY <2>5, <2>6, WriterStays
<1>10. CASE ~goOn /\ l > 0
    <2>1. iter' = [iter EXCEPT !.level = l - 1]
        BY <1>2, <1>10
    <2> HIDE DEF goOn, ends
    <2>2. l - 1 \in ListLevel /\ l - 1 \in 0..l /\ l - 1 # -1 /\ l - 1 \in -1..(kMaxHeight - 1)
        BY <1>3, <1>10 DEF ListLevel
    <2>3. /\ iter' \in Iterator /\ iter'.x = x /\ iter'.level = l - 1 /\ iter'.target = key
          /\ iter'.find = find /\ iter'.seen = iter.seen /\ iter'.node = iter.node
        BY <1>1, <1>3, <2>1, <2>2 DEF Iterator
    <2>4. x \in On(l - 1)
        BY <1>3, <2>2, OnLevels
    <2>5. ReaderOK'
        <3>1. find = "GreaterOrEqual" =>
                  key.seq <= visible /\ \A m \in Inserted : m <= key.seq => m \in iter.seen
            BY <1>1 DEF ReaderOK
        <3>2. (iter.seen \subseteq On(0))' /\ (iter.node # Null => iter.node \in On(0))'
            BY <1>5, <2>3 DEF ReaderOK
        <3>3. x \in On(l - 1)' /\ (find # "Last" => IsBefore(x, key)')
            BY <1>3, <1>5, <1>7, <2>4
        <3> QED BY <1>3, <1>6, <2>3, <3>1, <3>2, <3>3 DEF ReaderOK
    <2>6. IteratorExact'
        BY <2>2, <2>3 DEF IteratorExact, ReaderIdle
    <2> QED BY <2>5, <2>6, WriterStays
<1>11. CASE ~goOn /\ ~(l > 0)
    <2>1. l = 0 /\ iter' = [iter EXCEPT !.level = -1, !.x = ListHead, !.node = ends]
        BY <1>2, <1>3, <1>11 DEF ListLevel
    <2>2. PICK n : n = ends
        OBVIOUS
    <2>3. n \in Inserted \cup {Null} /\ (n # Null => n \in On(0))
        BY <1>3, <1>4, <2>1, <2>2 DEF Follows, Listed
    <2>4. /\ iter' \in Iterator /\ iter'.level = -1 /\ iter'.target = key
          /\ iter'.find = find /\ iter'.seen = iter.seen /\ iter'.node = n
        <3> HIDE DEF ends, goOn
        <3>1. ListHead \in Listed /\ -1 \in -1..(kMaxHeight - 1)
            BY DEF Listed
        <3> QED BY <1>1, <1>3, <2>1, <2>2, <2>3, <3>1 DEF Iterator
    <2>5. ReaderOK'
        <3>1. find = "GreaterOrEqual" =>
                  key.seq <= visible /\ \A m \in Inserted : m <= key.seq => m \in iter.seen
            BY <1>1 DEF ReaderOK
        <3>2. (iter.seen \subseteq On(0))' /\ (iter.node # Null => iter.node \in On(0))'
            BY <1>3, <1>5, <2>3, <2>4
        <3> QED BY <1>6, <2>4, <3>1, <3>2 DEF ReaderOK
    <2>6. ASSUME NEW m \in iter.seen
          PROVE  /\ m \in On(0) /\ m \in Listed /\ m # Null /\ m # ListHead
                 /\ Comes(x, m) => y # Null /\ (m = y \/ Comes(y, m))
                 /\ m # x /\ ~Comes(x, m) => Comes(m, x)
                 /\ IsBefore(m, key) <=> KeyIsAfterNode(key, m)
        <3>1. m \in On(0) /\ m \in Inserted
            BY <1>3
        <3>2. m \in Listed /\ m # Null /\ m # ListHead
            BY <1>8, <3>1 DEF Listed, MemTypeOK, ListHead
        <3>3. Comes(x, m) => y # Null /\ (m = y \/ Comes(y, m))
            BY <1>4, <2>1, <3>1 DEF Follows
        <3>4. IsBefore(m, key) <=> KeyIsAfterNode(key, m)
            BY <3>2 DEF IsBefore, KeyIsAfterNode
        <3> QED BY <1>3, <3>1, <3>2, <3>3, <3>4, ListOrder
    <2>7. y # Null => y \in Listed /\ y # ListHead
        BY <1>4 DEF Follows
    <2>8. /\ \A m : KeyIsAfterNode(key, m)' <=> KeyIsAfterNode(key, m)
          /\ \A a, b : Before(Internal(a), Internal(b))' <=> Before(Internal(a), Internal(b))
          /\ \A a, b : b # ListHead /\ a # ListHead => (Before(Internal(a), Internal(b)) <=> Comes(a, b))
        BY <1>5 DEF KeyIsAfterNode, Before, Comes
    <2>9. ASSUME find = "GreaterOrEqual"
          PROVE  /\ n # Null => ~KeyIsAfterNode(key, n)
                 /\ \A m \in iter.seen : ~KeyIsAfterNode(key, m) =>
                        n # Null /\ (m = n \/ Before(Internal(n), Internal(m)))
        <3>1. n = y /\ ~KeyIsAfterNode(key, y)
            BY <1>11, <2>2, <2>9
        <3>2. \A m \in iter.seen : ~IsBefore(m, key) => Comes(x, m)
            BY <1>3, <2>6, <2>9, KeyOrder
        <3> QED BY <2>6, <2>7, <2>8, <3>1, <3>2
    <2>10. ASSUME find = "LessThan"
           PROVE  /\ n # Null => KeyIsAfterNode(key, n)
                  /\ \A m \in iter.seen : KeyIsAfterNode(key, m) =>
                        n # Null /\ (m = n \/ Before(Internal(m), Internal(n)))
        <3>1. n = (IF x = ListHead THEN Null ELSE x) /\ ~KeyIsAfterNode(key, y)
            BY <1>11, <2>2, <2>10
        <3>2. n # Null => KeyIsAfterNode(key, n)
            BY <1>3, <1>8, <2>10, <3>1 DEF IsBefore, KeyIsAfterNode
        <3>3. y # Null => ~IsBefore(y, key)
            BY <2>7, <3>1 DEF IsBefore, KeyIsAfterNode
        <3>4. \A m \in iter.seen : IsBefore(m, key) => ~Comes(x, m)
            BY <1>3, <2>6, <2>7, <3>3, KeyOrder
        <3>5. x = ListHead => \A m \in iter.seen : Comes(x, m)
            BY <2>6 DEF Comes
        <3> QED BY <1>3, <1>8, <2>6, <2>8, <3>1, <3>2, <3>4, <3>5
    <2>11. ASSUME find = "Last"
           PROVE  \A m \in iter.seen : n # Null /\ (m = n \/ Before(Internal(m), Internal(n)))
        <3>1. n = (IF x = ListHead THEN Null ELSE x) /\ y = Null
            BY <1>11, <2>2, <2>11
        <3>2. x = ListHead => \A m \in iter.seen : Comes(x, m)
            BY <2>6 DEF Comes
        <3> QED BY <1>3, <1>8, <2>6, <2>8, <3>1, <3>2
    <2>12. IteratorExact'
        <3> HIDE DEF ends, goOn
        <3>1. CASE find = "GreaterOrEqual"
            BY <2>4, <2>8, <2>9, <3>1 DEF IteratorExact
        <3>2. CASE find = "LessThan"
            <4>1. \A a, b : Before(Internal(a), Internal(b))' <=> Before(Internal(a), Internal(b))
                BY <2>8
            <4> QED BY <2>4, <2>8, <2>10, <3>2, <4>1 DEF IteratorExact, After
        <3>3. CASE find = "Last"
            BY <2>4, <2>8, <2>11, <3>3 DEF IteratorExact, After
        <3> QED BY <1>3, <3>1, <3>2, <3>3 DEF Finds
    <2> QED BY <2>5, <2>12, WriterStays
<1> QED BY <1>9, <1>10, <1>11

LEMMA MemReadInv ==
    ASSUME MemInv, MemRead
    PROVE  MemInv'
<1>1. ListStays
    BY DEF MemRead, ListStays
<1>2. iter \in Iterator /\ visible \in Nat /\ 0 \in ListLevel
    BY DEF MemInv, ReaderOK, MemTypeOK, ListLevel
<1>3. ASSUME NEW user \in MemUserKey, NEW seq \in 0..visible, MemSeek(user, seq)
      PROVE  MemInv'
    <2>1. PICK target : target = [user |-> user, seq |-> seq]
        OBVIOUS
    <2>2. target \in [user : Int, seq : Int] /\ target.seq <= visible /\ "GreaterOrEqual" \in Finds
        BY <1>2, <2>1 DEF Finds
    <2>3. FindBegins("GreaterOrEqual", target)
        BY <1>3, <2>1 DEF MemSeek
    <2> QED BY <1>1, <2>2, <2>3, FindBeginsInv
<1>4. CASE MemSeekToLast
    <2>1. PICK target : target = iter.target
        OBVIOUS
    <2>2. target \in [user : Int, seq : Int] /\ "Last" \in Finds
        BY <1>2, <2>1 DEF Finds, Iterator
    <2>3. FindBegins("Last", target)
        BY <1>4, <2>1 DEF MemSeekToLast
    <2> QED BY <1>1, <2>2, <2>3, FindBeginsInv
<1>5. ASSUME MemValid
      PROVE  /\ iter.node \in On(0) /\ iter.node # ListHead /\ iter.node \in Inserted
             /\ Internal(iter.node) \in [user : Int, seq : Int]
    <2>1. iter.node \in Node /\ Null \notin Node /\ ListHead \notin Node
        BY <1>5 DEF MemValid, Node, Null, ListHead
    <2>2. iter.node \in Inserted
        BY <1>2, <2>1 DEF Iterator
    <2> QED BY <2>1, <2>2 DEF MemInv, ReaderOK, Internal, MemTypeOK
<1>6. CASE MemPrev
    <2>1. PICK target : target = Internal(iter.node)
        OBVIOUS
    <2>2. target \in [user : Int, seq : Int] /\ "LessThan" \in Finds
        BY <1>5, <1>6, <2>1 DEF Finds, MemPrev
    <2>3. FindBegins("LessThan", target)
        BY <1>6, <2>1 DEF MemPrev
    <2> QED BY <1>1, <2>2, <2>3, FindBeginsInv
<1>7. CASE MemSeekToFirst
    <2>1. ListHead \in On(0)
        BY <1>2, OnLevels DEF MemInv
    <2> QED BY <1>1, <1>7, <2>1, LoadInv DEF MemSeekToFirst
<1>8. CASE MemIterNext
    <2>1. PICK x : x = iter.node
        OBVIOUS
    <2>2. x \in On(0) /\ x # ListHead
        BY <1>5, <1>8, <2>1 DEF MemIterNext
    <2> QED BY <1>1, <1>8, <2>1, <2>2, LoadInv DEF MemIterNext
<1>9. CASE FindStep
    BY <1>1, <1>9, FindStepInv
<1> QED BY <1>3, <1>4, <1>6, <1>7, <1>8, <1>9 DEF MemRead

LEMMA MemNextInv == MemInv /\ [MemNext]_memVars => MemInv'
<1> SUFFICES ASSUME MemInv, [MemNext]_memVars PROVE MemInv'
    OBVIOUS
<1>1. ASSUME NEW user \in MemUserKey, NEW height \in Height, InsertBegins(user, height)
      PROVE  MemInv'
    BY <1>1, InsertBeginsInv
<1>2. CASE LinkNode
    BY <1>2, LinkNodeInv
<1>3. CASE PublishNode
    BY <1>3, PublishNodeInv
<1>4. CASE SetLastSequence
    BY <1>4, SetLastSequenceInv
<1>5. CASE MemRead
    BY <1>5, MemReadInv
<1>6. CASE UNCHANGED memVars
    <2>1. ListStays /\ iter' = iter
        BY <1>6 DEF memVars, ListStays
    <2>2. visible' \in Nat /\ visible <= visible' /\ \A l \in ListLevel : On(l) \subseteq On(l)'
        BY <2>1 DEF ListStays, MemInv, MemTypeOK, On
    <2>3. ReaderOK' /\ IteratorExact'
        BY <2>1, <2>2, ReaderStays DEF ListStays
    <2> QED BY <2>1, <2>3, WriterStays DEF MemInv
<1> QED BY <1>1, <1>2, <1>3, <1>4, <1>5, <1>6 DEF MemNext

\* MemTable::Get finds the newest entry of its user key that is not newer than
\* its sequence number: the entries that qualify were all in the list when the
\* search began.
LEMMA GetIsExact == MemInv => GetExact
<1> SUFFICES ASSUME MemInv, ReaderIdle, iter.find = "GreaterOrEqual" PROVE GetExact
    BY DEF GetExact
<1> DEFINE n == iter.node
           key == iter.target
           candidates == {m \in Inserted : userKey[m] = key.user /\ m <= key.seq}
<1>1. /\ n \in Inserted \cup {Null} /\ key.user \in Int /\ key.seq \in Int
      /\ \A m \in Inserted : m <= key.seq => m \in iter.seen
      /\ userKey \in [Inserted -> Int] /\ Inserted \subseteq Nat /\ Null \notin Inserted
    BY DEF MemInv, ReaderOK, Iterator, MemTypeOK, Null
<1>2. /\ n # Null => ~KeyIsAfterNode(key, n)
      /\ \A m \in iter.seen : ~KeyIsAfterNode(key, m) =>
             n # Null /\ (m = n \/ Before(Internal(n), Internal(m)))
    BY DEF MemInv, IteratorExact
<1>3. /\ \A m \in Inserted : KeyIsAfterNode(key, m) <=>
                                 userKey[m] < key.user \/ (userKey[m] = key.user /\ m > key.seq)
      /\ \A a, b \in Inserted : Before(Internal(a), Internal(b)) <=>
                                    userKey[a] < userKey[b] \/ (userKey[a] = userKey[b] /\ a > b)
    BY <1>1 DEF KeyIsAfterNode, Before, Internal
<1> HIDE DEF n, key
<1>4. \A m : m \in Inserted => m \in Int /\ userKey[m] \in Int
    BY <1>1
<1>5. n # Null => n \in Inserted
    BY <1>1
<1>6. key.user \in Int /\ key.seq \in Int
    BY <1>1
<1>7. n # Null /\ userKey[n] = key.user => n \in candidates
    <2> SUFFICES ASSUME n # Null, userKey[n] = key.user PROVE n \in Inserted /\ n <= key.seq
        OBVIOUS
    <2>1. n \in Inserted /\ ~(n > key.seq)
        BY <1>2, <1>3, <1>5
    <2> QED BY <1>4, <1>6, <2>1
<1>8. ASSUME NEW m \in candidates
      PROVE  n # Null /\ userKey[n] = key.user /\ m <= n
    <2>1. m \in iter.seen /\ ~KeyIsAfterNode(key, m)
        BY <1>1, <1>3
    <2>2. n # Null /\ (m = n \/ Before(Internal(n), Internal(m)))
        BY <1>2, <2>1
    <2>3. n \in Inserted /\ m \in Inserted /\ userKey[n] \in Int /\ userKey[m] = key.user
        BY <1>1, <2>2
    <2> HIDE DEF candidates
    <2>4. m \in Int /\ n \in Int
        BY <1>4, <2>3
    <2> QED BY <1>2, <1>3, <1>4, <1>6, <2>2, <2>3, <2>4
<1>9. IF candidates = {} THEN n = Null \/ userKey[n] # key.user
      ELSE n \in candidates /\ \A m \in candidates : m <= n
    <2> HIDE DEF candidates
    <2> QED BY <1>7, <1>8
<1> QED BY <1>9 DEF GetExact, n, key

LEMMA NothingUnwritten == MemInv => NoGarbageRead
<1> SUFFICES ASSUME MemInv, iter.level # -1 PROVE link[iter.x][iter.level] # Garbage
    BY DEF NoGarbageRead, ReaderIdle
<1>1. iter.level \in ListLevel /\ iter.x \in On(iter.level)
    BY DEF MemInv, ReaderOK, Iterator, ListLevel
<1>2. Follows(iter.level, iter.x, link[iter.x][iter.level]) /\ On(iter.level) \subseteq Listed
    BY <1>1, OnLevels DEF MemInv, LinksOK
<1>3. Garbage \notin Listed /\ Garbage # Null
    BY DEF MemInv, MemTypeOK, Listed, Garbage, Null, ListHead
<1> QED BY <1>2, <1>3 DEF Follows

\* Readers need no lock (MemTableReads): whatever a writer inserts meanwhile, a
\* search goes through no unwritten link (NoGarbageRead), it ends where it may
\* end (IteratorExact), and MemTable::Get finds the entry its sequence number
\* asks for (GetExact).
THEOREM ReadersNeedNoLock == MemSpec => []MemTableReads
<1>1. MemInit => MemInv
    BY InitInv
<1>2. MemInv /\ [MemNext]_memVars => MemInv'
    BY MemNextInv
<1>3. MemInv => MemTableReads
    BY GetIsExact, NothingUnwritten DEF MemTableReads, MemInv
<1> QED BY <1>1, <1>2, <1>3, PTL DEF MemSpec

-----------------------------------------------------------------------------
(* The iterator.                                                             *)
Direction == {kForward, kReverse}
Child == 1..2
EntryType == [user : Nat \ {0}, seq : Nat \ {0}, type : {"value", "deletion"}]

\* The order in which an iterator of a direction comes to the entries.
Earlier(dir, a, b) == IF dir = kForward THEN EntryLess(a, b) ELSE EntryLess(b, a)
First(dir, s) == IF dir = kForward THEN Least(s) ELSE Greatest(s)

Visible == {e \in Entries : e.seq <= dbIter.sequence}

\* The children hold each entry once, and what comes later is newer than the iterator.
EntriesOK ==
    /\ child \in [Child -> SUBSET EntryType]
    /\ IsFiniteSet(Entries)
    /\ \A e \in Entries : e.user \in IterUserKey /\ e.seq <= Cardinality(Entries)
    /\ \A i, j \in Child : \A e \in child[i], f \in child[j] : e.seq = f.seq => i = j /\ e = f
    /\ IterEntries <= Cardinality(Entries)

Merges == [at : [Child -> Entries \cup {Nothing}], current : 0..2, direction : Direction]

\* Where a merge that moves in a direction stands.
Placed(dir, m) ==
    /\ m \in Merges /\ m.direction = dir
    /\ \A i \in Child : m.at[i] = Nothing \/ m.at[i] \in child[i]
    /\ ~MergeValid(m) => \A i \in Child : m.at[i] = Nothing
    /\ MergeValid(m) =>
         /\ MergeEntry(m) # Nothing
         /\ \A i \in Child : m.at[i] = Nothing \/ i = m.current \/ Earlier(dir, MergeEntry(m), m.at[i])
         /\ \A i \in Child : \A f \in child[i] \cap Visible :
               Earlier(dir, f, MergeEntry(m)) \/ (m.at[i] # Nothing /\ ~Earlier(dir, f, m.at[i]))

ShowsForward(d) ==
    /\ Placed(kForward, d.merge) /\ MergeValid(d.merge)
    /\ MergeEntry(d.merge) \in View

ShowsReverse(d) ==
    /\ Placed(kReverse, d.merge)
    /\ d.value \in View /\ d.saved = d.value.user
    /\ MergeValid(d.merge) => MergeEntry(d.merge).user < d.saved
    /\ \A f \in Visible : (MergeValid(d.merge) /\ ~EntryLess(MergeEntry(d.merge), f)) \/ f.user >= d.saved

IterTypes == [merge : Merges, direction : Direction, valid : BOOLEAN, saved : Nat,
              value : Entries \cup {Nothing}, sequence : {dbIter.sequence}]
GoodIterator(d) ==
    /\ d \in IterTypes
    /\ d.valid => IF d.direction = kForward THEN ShowsForward(d) ELSE ShowsReverse(d)

IterInv == /\ EntriesOK /\ dbIter.sequence \in Int /\ dbIter.sequence <= IterEntries
           /\ GoodIterator(dbIter)

-----------------------------------------------------------------------------
(* The order of the entries.                                                 *)
LEMMA EntryOrder ==
    ASSUME NEW dir \in Direction, NEW a \in EntryType, NEW b \in EntryType, NEW c \in EntryType
    PROVE  /\ ~Earlier(dir, a, a)
           /\ Earlier(dir, a, b) => ~Earlier(dir, b, a)
           /\ Earlier(dir, a, b) /\ Earlier(dir, b, c) => Earlier(dir, a, c)
           /\ a.seq # b.seq => Earlier(dir, a, b) \/ Earlier(dir, b, a)
<1>1. /\ a.user \in Nat /\ b.user \in Nat /\ c.user \in Nat
      /\ a.seq \in Nat /\ b.seq \in Nat /\ c.seq \in Nat
    BY DEF EntryType
<1> QED BY <1>1 DEF Earlier, EntryLess

LEMMA EntriesTyped ==
    ASSUME EntriesOK
    PROVE  /\ Entries \subseteq EntryType /\ Nothing \notin Entries
           /\ DOMAIN child = Child /\ \A i \in Child : child[i] \subseteq Entries
           /\ \A e \in Entries : \E i \in Child : e \in child[i]
           /\ Visible \subseteq Entries
<1>1. DOMAIN child = Child /\ \A i \in Child : child[i] \subseteq EntryType
    BY DEF EntriesOK
<1>2. Nothing \notin EntryType
    BY DEF Nothing, EntryType
<1> QED BY <1>1, <1>2 DEF Entries, Visible

\* Of two entries one comes first, in each direction.
LEMMA EntriesOrdered ==
    ASSUME EntriesOK, NEW dir \in Direction, NEW a \in Entries, NEW b \in Entries, NEW c \in Entries
    PROVE  /\ ~Earlier(dir, a, a)
           /\ Earlier(dir, a, b) => ~Earlier(dir, b, a)
           /\ Earlier(dir, a, b) /\ Earlier(dir, b, c) => Earlier(dir, a, c)
           /\ a = b \/ Earlier(dir, a, b) \/ Earlier(dir, b, a)
<1>1. a \in EntryType /\ b \in EntryType /\ c \in EntryType
    BY EntriesTyped
<1>2. a.seq = b.seq => a = b
    BY EntriesTyped DEF EntriesOK
<1> QED BY <1>1, <1>2, EntryOrder

LEMMA StrictlyFewer ==
    ASSUME NEW T, IsFiniteSet(T), NEW S, NEW x, S \subseteq T, x \in T, x \notin S
    PROVE  IsFiniteSet(S) /\ Cardinality(S) \in Nat /\ Cardinality(T) \in Nat /\ Cardinality(S) < Cardinality(T)
<1>1. IsFiniteSet(S) /\ Cardinality(S) \in Nat /\ Cardinality(T) \in Nat
    BY FS_Subset, FS_CardinalityType
<1>2. IsFiniteSet(S \cup {x}) /\ Cardinality(S \cup {x}) = Cardinality(S) + 1
    BY <1>1, FS_AddElement
<1>3. Cardinality(S \cup {x}) <= Cardinality(T)
    BY FS_Subset
<1> QED BY <1>1, <1>2, <1>3

\* Least and Greatest are what their names say, and Nothing of no entries.
LEMMA FirstIsFirst ==
    ASSUME EntriesOK, NEW dir \in Direction, NEW s, s \subseteq Entries
    PROVE  /\ s = {} => First(dir, s) = Nothing
           /\ s # {} => First(dir, s) \in s /\ \A f \in s : f = First(dir, s) \/ Earlier(dir, First(dir, s), f)
<1>1. CASE s = {}
    BY <1>1 DEF First, Least, Greatest
<1>2. CASE s # {}
    <2> DEFINE Preceding(e) == {f \in s : Earlier(dir, f, e)}
               T == {Cardinality(Preceding(e)) : e \in s}
    <2>1. IsFiniteSet(s)
        BY FS_Subset DEF EntriesOK
    <2>2. \A e \in s : IsFiniteSet(Preceding(e)) /\ Cardinality(Preceding(e)) \in Nat
        BY <2>1, FS_Subset, FS_CardinalityType
    <2>3. T \in SUBSET Nat /\ T # {}
        BY <1>2, <2>2
    <2>4. PICK n \in T : \A m \in T : n <= m
        BY <2>3, LeastNumber
    <2>5. PICK e \in s : n = Cardinality(Preceding(e))
        OBVIOUS
    <2>6. \A f \in s : ~Earlier(dir, f, e)
        <3> SUFFICES ASSUME NEW f \in s, Earlier(dir, f, e) PROVE FALSE
            OBVIOUS
        <3>1. Preceding(f) \subseteq Preceding(e)
            BY EntriesOrdered
        <3>2. f \in Preceding(e) /\ f \notin Preceding(f)
            BY EntriesOrdered
        <3> HIDE DEF Preceding
        <3>3. Cardinality(Preceding(f)) < Cardinality(Preceding(e))
            BY <2>2, <3>1, <3>2, StrictlyFewer
        <3>4. Cardinality(Preceding(f)) \in T
            OBVIOUS
        <3> HIDE DEF T
        <3> QED BY <2>2, <2>4, <2>5, <3>3, <3>4
    <2>7. First(dir, s) = CHOOSE x \in s : \A f \in s : ~Earlier(dir, f, x)
        BY <1>2 DEF First, Least, Greatest, Earlier, Direction
    <2>8. First(dir, s) \in s /\ \A f \in s : ~Earlier(dir, f, First(dir, s))
        BY <2>6, <2>7
    <2> QED BY <1>2, <2>8, EntriesOrdered
<1> QED BY <1>1, <1>2

-----------------------------------------------------------------------------
(* The merge.                                                                *)
Find(dir, m) == IF dir = kForward THEN FindSmallest(m) ELSE FindLargest(m)
Move(dir, m) == IF dir = kForward THEN MergeNext(m) ELSE MergePrev(m)
Stands(m) == m \in Merges /\ \A i \in Child : m.at[i] = Nothing \/ m.at[i] \in child[i]

LEMMA DirectionsDiffer == kForward # kReverse
BY DEF kForward, kReverse

\* The child that is chosen is the one that comes first.
LEMMA FindsFirst ==
    ASSUME EntriesOK, NEW dir \in Direction, NEW m, Stands(m), NEW n, n = Find(dir, m)
    PROVE  /\ n \in Merges /\ n.at = m.at /\ n.direction = m.direction
           /\ ~MergeValid(n) => \A i \in Child : m.at[i] = Nothing
           /\ MergeValid(n) => /\ n.current \in Child /\ MergeEntry(n) \in Entries
                               /\ MergeEntry(n) = m.at[n.current]
                               /\ \A i \in Child : m.at[i] = Nothing \/ i = n.current
                                                   \/ Earlier(dir, MergeEntry(n), m.at[i])
<1> DEFINE valid == {i \in DOMAIN m.at : m.at[i] # Nothing}
           best == First(dir, {m.at[i] : i \in valid})
<1>1. /\ DOMAIN m.at = Child /\ m.current \in 0..2 /\ m.direction \in Direction
      /\ m.at \in [Child -> Entries \cup {Nothing}]
      /\ m = [at |-> m.at, current |-> m.current, direction |-> m.direction]
    BY DEF Stands, Merges
<1>2. \A i \in valid : i \in Child /\ m.at[i] \in Entries /\ m.at[i] \in child[i]
    BY <1>1, EntriesTyped DEF Stands
<1>3. {m.at[i] : i \in valid} \subseteq Entries
    BY <1>2
<1>4. valid # {} => \E i \in valid : m.at[i] = best
    <2> SUFFICES ASSUME valid # {} PROVE \E i \in valid : m.at[i] = best
        OBVIOUS
    <2>1. {m.at[i] : i \in valid} # {}
        OBVIOUS
    <2>2. best \in {m.at[i] : i \in valid}
        BY <1>3, <2>1, FirstIsFirst
    <2> HIDE DEF best
    <2> QED BY <2>2
<1>5. PICK current : /\ n = [m EXCEPT !.current = current]
                     /\ valid = {} => current = 0
                     /\ valid # {} => current \in valid /\ m.at[current] = best
    <2>1. CASE dir = kForward
        <3> DEFINE cur == IF valid = {} THEN 0
                          ELSE CHOOSE i \in valid : m.at[i] = Least({m.at[j] : j \in valid})
        <3>1. n = [m EXCEPT !.current = cur]
            BY <2>1 DEF Find, FindSmallest
        <3>2. best = Least({m.at[j] : j \in valid})
            BY <2>1 DEF First
        <3>3. valid # {} => cur \in valid /\ m.at[cur] = best
            <4> HIDE DEF best, valid
            <4> QED BY <1>4, <3>2
        <3> QED BY <3>1, <3>3
    <2>2. CASE dir # kForward
        <3> DEFINE cur == IF valid = {} THEN 0
                          ELSE CHOOSE i \in valid : m.at[i] = Greatest({m.at[j] : j \in valid})
        <3>1. n = [m EXCEPT !.current = cur]
            BY <2>2 DEF Find, FindLargest
        <3>2. best = Greatest({m.at[j] : j \in valid})
            BY <2>2 DEF First
        <3>3. valid # {} => cur \in valid /\ m.at[cur] = best
            <4> HIDE DEF best, valid
            <4> QED BY <1>4, <3>2
        <3> QED BY <3>1, <3>3
    <2> QED BY <2>1, <2>2
<1>6. valid # {} => \A i \in valid : m.at[i] = best \/ Earlier(dir, best, m.at[i])
    BY <1>3, FirstIsFirst
<1>7. \A i, j \in valid : m.at[i] = m.at[j] => i = j
    BY <1>2 DEF EntriesOK
<1> HIDE DEF best
<1>8. current \in 0..2
    BY <1>2, <1>5 DEF Child
<1> HIDE DEF valid
<1>9. n \in Merges /\ n.at = m.at /\ n.direction = m.direction /\ n.current = current
    BY <1>1, <1>5, <1>8 DEF Merges
<1>10. CASE valid = {}
    BY <1>1, <1>5, <1>9, <1>10 DEF MergeValid, valid
<1>11. CASE valid # {}
    <2>1. current \in Child /\ MergeValid(n) /\ MergeEntry(n) = m.at[current] /\ m.at[current] \in Entries
        BY <1>2, <1>5, <1>9, <1>11 DEF MergeValid, MergeEntry, valid, Child
    <2>2. ASSUME NEW i \in Child, m.at[i] # Nothing, i # current
          PROVE  Earlier(dir, MergeEntry(n), m.at[i])
        BY <1>1, <1>5, <1>6, <1>7, <1>11, <2>1, <2>2 DEF valid
    <2> QED BY <1>9, <2>1, <2>2
<1> QED BY <1>10, <1>11

\* When every child is at the first of what is ahead of it, so is the merge.
LEMMA FoundIsPlaced ==
    ASSUME EntriesOK, NEW dir \in Direction, NEW m, Stands(m), m.direction = dir,
           NEW ahead, ahead \subseteq Visible,
           \A i \in Child : \A f \in child[i] \cap ahead : m.at[i] # Nothing /\ ~Earlier(dir, f, m.at[i]),
           \A i \in Child : m.at[i] # Nothing =>
              \A f \in Visible : Earlier(dir, f, m.at[i]) \/ f \in ahead,
           NEW n, n = Find(dir, m)
    PROVE  /\ Placed(dir, n)
           /\ MergeValid(n) => MergeEntry(n) \in Entries /\ \E i \in Child : MergeEntry(n) = m.at[i]
           /\ \A f \in ahead : MergeValid(n) /\ ~Earlier(dir, f, MergeEntry(n))
<1>1. /\ n \in Merges /\ n.at = m.at /\ n.direction = dir
      /\ ~MergeValid(n) => \A i \in Child : m.at[i] = Nothing
      /\ MergeValid(n) => /\ n.current \in Child /\ MergeEntry(n) \in Entries
                          /\ MergeEntry(n) = m.at[n.current]
                          /\ \A i \in Child : m.at[i] = Nothing \/ i = n.current
                                              \/ Earlier(dir, MergeEntry(n), m.at[i])
    BY FindsFirst
<1>2. \A i \in Child : m.at[i] = Nothing \/ m.at[i] \in child[i]
    BY DEF Stands
<1>3. ASSUME MergeValid(n), NEW i \in Child, NEW f \in child[i] \cap Visible,
             ~Earlier(dir, f, MergeEntry(n))
      PROVE  m.at[i] # Nothing /\ ~Earlier(dir, f, m.at[i])
    <2>1. MergeEntry(n) # Nothing
        BY <1>1, <1>3, EntriesTyped
    <2>2. f \in ahead
        BY <1>1, <1>3, <2>1
    <2> QED BY <1>3, <2>2
<1>4. Placed(dir, n)
    <2>1. MergeValid(n) => MergeEntry(n) # Nothing
        BY <1>1, EntriesTyped
    <2> QED BY <1>1, <1>2, <1>3, <2>1 DEF Placed
<1>5. ASSUME NEW f \in ahead PROVE MergeValid(n) /\ ~Earlier(dir, f, MergeEntry(n))
    <2>1. f \in Entries
        BY EntriesTyped
    <2>2. PICK i \in Child : f \in child[i]
        BY <2>1, EntriesTyped
    <2>3. m.at[i] # Nothing /\ ~Earlier(dir, f, m.at[i]) /\ m.at[i] \in Entries
        BY <1>2, <2>2, EntriesTyped
    <2>4. MergeValid(n)
        BY <1>1, <2>3
    <2>5. MergeEntry(n) = m.at[i] \/ Earlier(dir, MergeEntry(n), m.at[i])
        BY <1>1, <2>3, <2>4
    <2> QED BY <1>1, <2>1, <2>3, <2>4, <2>5, EntriesOrdered
<1> QED BY <1>1, <1>4, <1>5

Beyond(dir, i, e) == First(dir, {f \in child[i] : Earlier(dir, e, f)})
MovedOn(dir, m) ==
    [m EXCEPT !.direction = dir,
              !.at = [i \in DOMAIN m.at |-> IF i = m.current \/ m.direction # dir
                                            THEN Beyond(dir, i, MergeEntry(m)) ELSE m.at[i]]]

LEMMA MoveFinds ==
    ASSUME NEW dir \in Direction, NEW m
    PROVE  Move(dir, m) = Find(dir, MovedOn(dir, m))
<1>1. CASE dir = kForward
    <2>1. \A i, e : Beyond(dir, i, e) = Above(i, e)
        BY <1>1 DEF Beyond, Above, First, Earlier
    <2> QED BY <1>1, <2>1 DEF Move, MergeNext, MovedOn, Find
<1>2. CASE dir = kReverse
    <2>1. \A i, e : Beyond(dir, i, e) = Below(i, e)
        BY <1>2, DirectionsDiffer DEF Beyond, Below, First, Earlier
    <2> QED BY <1>2, <2>1, DirectionsDiffer DEF Move, MergePrev, MovedOn, Find
<1> QED BY <1>1, <1>2 DEF Direction

\* A move goes from an entry to the next one the iterator can see, or to one it cannot
\* see before that, whichever way the merge was moving.
LEMMA MovesOn ==
    ASSUME EntriesOK, NEW dir \in Direction, NEW m, Stands(m), MergeValid(m),
           MergeEntry(m) \in Entries, m.direction = dir => Placed(dir, m),
           NEW n, n = Move(dir, m)
    PROVE  /\ Placed(dir, n)
           /\ MergeValid(n) => MergeEntry(n) \in Entries /\ Earlier(dir, MergeEntry(m), MergeEntry(n))
           /\ \A f \in Visible : Earlier(dir, MergeEntry(m), f) =>
                 MergeValid(n) /\ ~Earlier(dir, f, MergeEntry(n))
<1> DEFINE here == MergeEntry(m)
           t == MovedOn(dir, m)
           ahead == {f \in Visible : Earlier(dir, here, f)}
           fresh(i) == i = m.current \/ m.direction # dir
<1>1. /\ m.at \in [Child -> Entries \cup {Nothing}] /\ m.current \in 0..2 /\ m.direction \in Direction
      /\ m = [at |-> m.at, current |-> m.current, direction |-> m.direction]
      /\ \A i \in Child : m.at[i] = Nothing \/ m.at[i] \in child[i]
    BY DEF Stands, Merges
<1>2. \A i \in Child : {f \in child[i] : Earlier(dir, here, f)} \subseteq Entries
    BY EntriesTyped
<1>3. ASSUME NEW i \in Child
      PROVE  /\ Beyond(dir, i, here) = Nothing \/ Beyond(dir, i, here) \in child[i]
             /\ Beyond(dir, i, here) # Nothing => Earlier(dir, here, Beyond(dir, i, here))
             /\ \A f \in child[i] : Earlier(dir, here, f) =>
                   Beyond(dir, i, here) # Nothing /\ ~Earlier(dir, f, Beyond(dir, i, here))
    <2> DEFINE s == {f \in child[i] : Earlier(dir, here, f)}
    <2>1. s = {} => Beyond(dir, i, here) = Nothing
        BY <1>2, FirstIsFirst DEF Beyond
    <2>2. s # {} => /\ Beyond(dir, i, here) \in s
                    /\ \A f \in s : f = Beyond(dir, i, here) \/ Earlier(dir, Beyond(dir, i, here), f)
        BY <1>2, FirstIsFirst DEF Beyond
    <2>3. \A f \in s : f \in Entries
        BY <1>2
    <2>4. Nothing \notin Entries
        BY EntriesTyped
    <2> QED BY <2>1, <2>2, <2>3, <2>4, EntriesOrdered
<1>4. /\ t = [at |-> t.at, current |-> m.current, direction |-> dir]
      /\ DOMAIN t.at = Child
      /\ \A i \in Child : t.at[i] = IF fresh(i) THEN Beyond(dir, i, here) ELSE m.at[i]
    <2> DEFINE at == [i \in DOMAIN m.at |-> IF fresh(i) THEN Beyond(dir, i, here) ELSE m.at[i]]
    <2>1. t = [m EXCEPT !.direction = dir, !.at = at]
        BY DEF MovedOn
    <2>2. t = [at |-> at, current |-> m.current, direction |-> dir]
        <3> HIDE DEF at, t
        <3> QED BY <1>1, <2>1
    <2> QED BY <1>1, <2>2
<1> HIDE DEF t
<1>5. Stands(t) /\ t.direction = dir
    <2>1. \A i \in Child : t.at[i] = Nothing \/ t.at[i] \in child[i]
        BY <1>1, <1>3, <1>4
    <2>2. t.at \in [Child -> Entries \cup {Nothing}]
        <3>1. \A i \in Child : t.at[i] \in Entries \cup {Nothing}
            BY <2>1, EntriesTyped
        <3>2. t.at = [i \in Child |-> t.at[i]]
            BY <1>1 DEF MovedOn, t
        <3> QED BY <3>1, <3>2
    <2>3. t.direction = dir
        BY <1>4
    <2> QED BY <1>1, <1>4, <2>1, <2>2, <2>3 DEF Stands, Merges
<1>6. \A i \in Child : fresh(i) \/ (/\ m.at[i] = Nothing \/ Earlier(dir, here, m.at[i])
                                    /\ \A f \in child[i] \cap Visible :
                                          Earlier(dir, f, here) \/ (m.at[i] # Nothing /\ ~Earlier(dir, f, m.at[i])))
    BY DEF Placed
<1>7. \A i \in Child : t.at[i] # Nothing => Earlier(dir, here, t.at[i]) /\ t.at[i] \in Entries
    BY <1>1, <1>3, <1>4, <1>6, EntriesTyped
<1>8. ASSUME NEW i \in Child, NEW f \in child[i] \cap ahead
      PROVE  t.at[i] # Nothing /\ ~Earlier(dir, f, t.at[i])
    <2>1. f \in Visible /\ Earlier(dir, here, f) /\ f \in Entries
        BY EntriesTyped
    <2>2. ~Earlier(dir, f, here)
        BY <2>1, EntriesOrdered
    <2> QED BY <1>3, <1>4, <1>6, <2>1, <2>2
<1>9. ASSUME NEW i \in Child, t.at[i] # Nothing, NEW f \in Visible
      PROVE  Earlier(dir, f, t.at[i]) \/ f \in ahead
    <2>1. f \in Entries
        BY EntriesTyped
    <2> QED BY <1>7, <1>9, <2>1, EntriesOrdered
<1>10. ahead \subseteq Visible /\ n = Find(dir, t)
    BY MoveFinds DEF t
<1>11. /\ Placed(dir, n)
       /\ MergeValid(n) => MergeEntry(n) \in Entries /\ \E i \in Child : MergeEntry(n) = t.at[i]
       /\ \A f \in ahead : MergeValid(n) /\ ~Earlier(dir, f, MergeEntry(n))
    <2> HIDE DEF ahead
    <2> QED BY <1>5, <1>8, <1>9, <1>10, FoundIsPlaced
<1> QED BY <1>7, <1>11, EntriesTyped

\* Seek, SeekToFirst and SeekToLast put every child at the first of its entries that
\* are in from, an end of the order.
SoughtIn(dir, m, from) ==
    [m EXCEPT !.direction = dir, !.at = [i \in DOMAIN m.at |-> First(dir, child[i] \cap from)]]

LEMMA Seeks ==
    ASSUME EntriesOK, NEW dir \in Direction, NEW m \in Merges, NEW from \in SUBSET Entries,
           \A e \in from : \A f \in Entries : Earlier(dir, e, f) => f \in from,
           NEW n, n = Find(dir, SoughtIn(dir, m, from))
    PROVE  /\ Placed(dir, n)
           /\ MergeValid(n) => MergeEntry(n) \in from
           /\ \A f \in Visible \cap from : MergeValid(n) /\ ~Earlier(dir, f, MergeEntry(n))
<1> DEFINE t == SoughtIn(dir, m, from)
           ahead == Visible \cap from
<1>1. /\ t = [at |-> t.at, current |-> m.current, direction |-> dir]
      /\ m.current \in 0..2
      /\ t.at = [i \in Child |-> First(dir, child[i] \cap from)]
    <2> DEFINE at == [i \in DOMAIN m.at |-> First(dir, child[i] \cap from)]
    <2>1. t = [m EXCEPT !.direction = dir, !.at = at]
        BY DEF SoughtIn
    <2>2. DOMAIN m.at = Child /\ m = [at |-> m.at, current |-> m.current, direction |-> m.direction]
        BY DEF Merges
    <2>3. t = [at |-> at, current |-> m.current, direction |-> dir]
        <3> HIDE DEF at, t
        <3> QED BY <2>1, <2>2
    <2> QED BY <2>2, <2>3 DEF Merges
<1> HIDE DEF t
<1>2. ASSUME NEW i \in Child
      PROVE  /\ t.at[i] = Nothing \/ (t.at[i] \in child[i] /\ t.at[i] \in from)
             /\ \A f \in child[i] \cap from : t.at[i] # Nothing /\ ~Earlier(dir, f, t.at[i])
    <2>1. t.at[i] = First(dir, child[i] \cap from) /\ child[i] \cap from \subseteq Entries
        BY <1>1
    <2>2. \A f \in child[i] \cap from : f \in Entries /\ f # Nothing
        BY EntriesTyped
    <2> QED BY <2>1, <2>2, FirstIsFirst, EntriesOrdered
<1>3. Stands(t) /\ t.direction = dir
    <2>1. t.at \in [Child -> Entries \cup {Nothing}]
        <3>1. \A i \in Child : t.at[i] \in Entries \cup {Nothing}
            BY <1>2
        <3>2. t.at = [i \in Child |-> t.at[i]]
            BY <1>1
        <3> QED BY <3>1, <3>2
    <2>2. t.direction = dir /\ t \in Merges
        <3> DEFINE at == t.at
        <3>1. at \in [Child -> Entries \cup {Nothing}] /\ t = [at |-> at, current |-> m.current, direction |-> dir]
            BY <1>1, <2>1
        <3> HIDE DEF at
        <3> QED BY <1>1, <3>1 DEF Merges
    <2> QED BY <1>2, <2>2 DEF Stands
<1>4. ASSUME NEW i \in Child, t.at[i] # Nothing, NEW f \in Visible
      PROVE  Earlier(dir, f, t.at[i]) \/ f \in ahead
    <2>1. f \in Entries /\ t.at[i] \in from
        BY <1>2, <1>4, EntriesTyped
    <2> QED BY <2>1, EntriesOrdered
<1>5. /\ Placed(dir, n)
      /\ MergeValid(n) => MergeEntry(n) \in Entries /\ \E i \in Child : MergeEntry(n) = t.at[i]
      /\ \A f \in ahead : MergeValid(n) /\ ~Earlier(dir, f, MergeEntry(n))
    <2>1. ahead \subseteq Visible
        OBVIOUS
    <2>2. \A i \in Child : \A f \in child[i] \cap ahead : t.at[i] # Nothing /\ ~Earlier(dir, f, t.at[i])
        BY <1>2
    <2>3. n = Find(dir, t)
        BY DEF t
    <2> HIDE DEF ahead
    <2> QED BY <1>3, <1>4, <2>1, <2>2, <2>3, FoundIsPlaced
<1> QED BY <1>2, <1>5, EntriesTyped

LEMMA PlacedStands ==
    ASSUME EntriesOK, NEW dir \in Direction, NEW m, Placed(dir, m)
    PROVE  /\ Stands(m) /\ m \in Merges
           /\ MergeValid(m) => m.current \in Child /\ MergeEntry(m) \in Entries
<1>1. m.current \in 0..2
    BY DEF Placed, Merges
<1>2. MergeValid(m) => m.current \in Child
    BY <1>1 DEF MergeValid, Child
<1> QED BY <1>2, EntriesTyped DEF Placed, Stands, MergeEntry

\* The entries a merge has behind it, of which a move makes more.
Passed(dir, m) == {f \in Entries : ~MergeValid(m) \/ Earlier(dir, f, MergeEntry(m))}

LEMMA PassesMore ==
    ASSUME EntriesOK, NEW dir \in Direction, NEW m, Placed(dir, m), MergeValid(m)
    PROVE  /\ Cardinality(Passed(dir, m)) \in Nat /\ Cardinality(Passed(dir, Move(dir, m))) \in Nat
           /\ Cardinality(Passed(dir, m)) < Cardinality(Passed(dir, Move(dir, m)))
<1> DEFINE n == Move(dir, m)
           here == MergeEntry(m)
<1>1. Stands(m) /\ here \in Entries
    BY PlacedStands
<1>2. MergeValid(n) => MergeEntry(n) \in Entries /\ Earlier(dir, here, MergeEntry(n))
    BY <1>1, MovesOn
<1> HIDE DEF n
<1>3. Passed(dir, m) \subseteq Passed(dir, n) /\ here \in Passed(dir, n) /\ here \notin Passed(dir, m)
    BY <1>1, <1>2, EntriesOrdered DEF Passed
<1>4. IsFiniteSet(Passed(dir, n))
    BY FS_Subset DEF Passed, EntriesOK
<1> HIDE DEF here
<1> QED BY <1>3, <1>4, StrictlyFewer DEF n

LEMMA PassedBound ==
    ASSUME EntriesOK, NEW dir \in Direction, NEW m
    PROVE  Cardinality(Entries) \in Nat /\ Cardinality(Passed(dir, m)) \in 0..Cardinality(Entries)
<1>1. IsFiniteSet(Entries) /\ Passed(dir, m) \subseteq Entries
    BY DEF Passed, EntriesOK
<1>2. /\ Cardinality(Entries) \in Nat /\ Cardinality(Passed(dir, m)) \in Nat
      /\ Cardinality(Passed(dir, m)) <= Cardinality(Entries)
    BY <1>1, FS_Subset, FS_CardinalityType
<1> QED BY <1>2

-----------------------------------------------------------------------------
(* Loops.                                                                    *)

\* A loop each of whose rounds counts further, until it stops, stops within the bound.
CountsUp(n, V, round, stopped, count) ==
    /\ round \in [V -> V] /\ count \in [V -> 0..n]
    /\ \A s \in V : IF s \in stopped THEN round[s] = s ELSE count[round[s]] > count[s]

StoppedLoop(f, n, V, start, round, stopped) ==
    /\ f \in [0..(n + 1) -> V]
    /\ f[0] = start /\ \A k \in 1..(n + 1) : f[k] = round[f[k - 1]]
    /\ f[n + 1] \in stopped

LEMMA LoopStops ==
    ASSUME NEW n \in Nat, NEW V, NEW start \in V, NEW round, NEW stopped, NEW count,
           CountsUp(n, V, round, stopped, count)
    PROVE  \E f : StoppedLoop(f, n, V, start, round, stopped)
<1>1. /\ round \in [V -> V] /\ count \in [V -> 0..n]
      /\ \A s \in V : s \in stopped => round[s] = s
      /\ \A s \in V : s \notin stopped => count[round[s]] > count[s]
    BY DEF CountsUp
<1> DEFINE step == [k \in 1..(n + 1) |-> round]
<1>2. PICK f : IsFold(f, n + 1, V, start, step)
    <2>1. step \in [1..(n + 1) -> [V -> V]] /\ n + 1 \in Nat
        BY <1>1
    <2> HIDE DEF step
    <2> QED BY <2>1, FoldExists
<1>3. f \in [0..(n + 1) -> V] /\ f[0] = start /\ \A k \in 1..(n + 1) : f[k] = round[f[k - 1]]
    BY <1>2 DEF IsFold
<1> DEFINE S == [k \in 0..(n + 1) |-> {s \in V : s \in stopped \/ count[s] >= k}]
<1>4. f[0] \in S[0]
    <2>1. 0 \in 0..(n + 1) /\ count[start] >= 0
        BY <1>1
    <2> QED BY <1>3, <2>1
<1>5. ASSUME NEW k \in 1..(n + 1), f[k - 1] \in S[k - 1] PROVE f[k] \in S[k]
    <2>1. k \in 0..(n + 1) /\ k - 1 \in 0..(n + 1)
        OBVIOUS
    <2>2. f[k - 1] \in V /\ (f[k - 1] \in stopped \/ count[f[k - 1]] >= k - 1)
        BY <1>5, <2>1
    <2>3. f[k] = round[f[k - 1]] /\ f[k] \in V
        BY <1>3, <2>1
    <2>4. CASE f[k - 1] \in stopped
        BY <1>1, <2>1, <2>2, <2>3, <2>4
    <2>5. CASE f[k - 1] \notin stopped
        <3>1. count[f[k]] \in Int /\ count[f[k - 1]] \in Int
            BY <1>1, <2>2, <2>3
        <3>2. count[f[k]] > count[f[k - 1]]
            BY <1>1, <2>2, <2>3, <2>5
        <3>3. count[f[k]] >= k
            BY <2>2, <2>5, <3>1, <3>2
        <3> QED BY <2>1, <2>3, <3>3
    <2> QED BY <2>4, <2>5
<1>6. f[n + 1] \in S[n + 1]
    <2>1. n + 1 \in Nat /\ n + 1 \in 0..(n + 1)
        OBVIOUS
    <2> HIDE DEF S
    <2>2. \A k \in 0..(n + 1) : f[k] \in S[k]
        BY <1>4, <1>5, <2>1, FoldStays
    <2> QED BY <2>1, <2>2
<1>7. f[n + 1] \in V /\ (f[n + 1] \in stopped \/ count[f[n + 1]] >= n + 1)
    <2>1. n + 1 \in 0..(n + 1)
        OBVIOUS
    <2> QED BY <1>6, <2>1
<1>8. f[n + 1] \in stopped
    <2>1. count[f[n + 1]] \in 0..n
        BY <1>1, <1>7
    <2> QED BY <1>7, <2>1
<1> QED BY <1>3, <1>8 DEF StoppedLoop

LEMMA SameLoop ==
    ASSUME NEW n \in Nat, NEW f, NEW g, g[0] = f[0],
           \A k \in 1..n : g[k - 1] = f[k - 1] => g[k] = f[k]
    PROVE  g[n] = f[n]
<1> DEFINE S == [k \in 0..n |-> {f[k]}]
<1>1. g[0] \in S[0]
    OBVIOUS
<1>2. ASSUME NEW k \in 1..n, g[k - 1] \in S[k - 1] PROVE g[k] \in S[k]
    <2>1. k \in 0..n /\ k - 1 \in 0..n
        OBVIOUS
    <2> QED BY <1>2, <2>1
<1>3. n \in 0..n /\ S[n] = {f[n]}
    OBVIOUS
<1> HIDE DEF S
<1>4. \A k \in 0..n : g[k] \in S[k]
    BY <1>1, <1>2, FoldStays
<1> QED BY <1>3, <1>4

\* The view has, of every user key, the newest entry that is visible, if it is a value.
LEMMA ViewHasNewest ==
    ASSUME EntriesOK
    PROVE  \A v : v \in View <=> /\ v \in Visible /\ v.type = "value"
                                 /\ \A f \in Visible : f.user = v.user => f.seq <= v.seq
<1> DEFINE seen(user) == {e \in Entries : e.user = user /\ e.seq <= dbIter.sequence}
<1>1. \A user : seen(user) = {} => Newest(user) = Nothing
    BY DEF Newest
<1>2. ASSUME NEW user, seen(user) # {}
      PROVE  Newest(user) \in seen(user) /\ \A f \in seen(user) : f.seq <= Newest(user).seq
    <2> DEFINE s == seen(user)
               e == First(kForward, s)
    <2>1. s \subseteq Entries /\ kForward \in Direction
        BY DEF Direction
    <2>2. e \in s /\ \A f \in s : f = e \/ Earlier(kForward, e, f)
        <3> HIDE DEF s
        <3> QED BY <1>2, <2>1, FirstIsFirst DEF s
    <2> HIDE DEF e
    <2>3. e \in s /\ \A f \in s : f.seq <= e.seq
        <3>1. \A f \in s : f.seq \in Nat /\ f.user = user /\ f.user \in Nat
            BY EntriesTyped DEF EntryType
        <3> QED BY <2>2, <3>1 DEF Earlier, EntryLess
    <2>4. Newest(user) = CHOOSE x \in s : \A f \in s : f.seq <= x.seq
        BY <1>2 DEF Newest
    <2> HIDE DEF s
    <2>5. Newest(user) \in s /\ \A f \in s : f.seq <= Newest(user).seq
        BY <2>3, <2>4
    <2> QED BY <2>5 DEF s
<1>3. \A user : seen(user) = {f \in Visible : f.user = user}
    BY DEF Visible
<1> HIDE DEF seen
<1>4. ASSUME NEW v \in View
      PROVE  v \in Visible /\ v.type = "value" /\ \A f \in Visible : f.user = v.user => f.seq <= v.seq
    <2>1. PICK user \in IterUserKey : v = Newest(user) /\ v.type = "value"
        BY DEF View
    <2>2. seen(user) # {}
        BY <1>1, <2>1 DEF Nothing
    <2> QED BY <1>2, <1>3, <2>1, <2>2
<1>5. ASSUME NEW v \in Visible, v.type = "value", \A f \in Visible : f.user = v.user => f.seq <= v.seq
      PROVE  v \in View
    <2>1. v \in Entries /\ v.user \in IterUserKey
        BY EntriesTyped DEF EntriesOK
    <2>2. v \in seen(v.user)
        BY <1>3
    <2>3. Newest(v.user) \in Visible /\ Newest(v.user).user = v.user /\ v.seq <= Newest(v.user).seq
        BY <1>2, <1>3, <2>2
    <2>4. Newest(v.user).seq = v.seq
        <3>1. Newest(v.user).seq \in Nat /\ v.seq \in Nat
            BY <2>1, <2>3, EntriesTyped DEF EntryType
        <3> QED BY <1>5, <2>3, <3>1
    <2>5. Newest(v.user) = v
        BY <2>1, <2>3, <2>4, EntriesTyped DEF EntriesOK
    <2> QED BY <1>5, <2>1, <2>5 DEF View
<1> QED BY <1>4, <1>5

LEMMA UserOrder ==
    ASSUME EntriesOK, NEW a \in Entries, NEW b \in Entries
    PROVE  /\ a.user \in Nat /\ b.user \in Nat /\ a.seq \in Nat /\ b.seq \in Nat
           /\ EntryLess(a, b) => a.user <= b.user /\ (a.user = b.user => b.seq < a.seq)
           /\ a.user < b.user => EntryLess(a, b)
           /\ a.user = b.user /\ b.seq < a.seq => EntryLess(a, b)
<1>1. a.user \in Nat /\ b.user \in Nat /\ a.seq \in Nat /\ b.seq \in Nat
    BY EntriesTyped DEF EntryType
<1> QED BY <1>1 DEF EntryLess

LEMMA LessOrder ==
    ASSUME EntriesOK, NEW a \in Entries, NEW b \in Entries, NEW c \in Entries
    PROVE  /\ ~EntryLess(a, a)
           /\ EntryLess(a, b) => ~EntryLess(b, a)
           /\ EntryLess(a, b) /\ EntryLess(b, c) => EntryLess(a, c)
           /\ a = b \/ EntryLess(a, b) \/ EntryLess(b, a)
<1>1. kForward \in Direction /\ \A x, y : Earlier(kForward, x, y) = EntryLess(x, y)
    BY DEF Direction, Earlier
<1> QED BY <1>1, EntriesOrdered

-----------------------------------------------------------------------------
(* FindNextUserEntry.                                                        *)

\* What the loop may still show.
Rest(s) == {v \in View : ~EntryLess(v, MergeEntry(s.merge)) /\ ~(s.skipping /\ v.user <= s.skip)}

NextInv(s, shown) ==
    /\ s \in [merge : Merges, skipping : BOOLEAN, skip : Nat]
    /\ Placed(kForward, s.merge)
    /\ ~MergeValid(s.merge) => shown = {}
    /\ MergeValid(s.merge) =>
         /\ Rest(s) = shown
         /\ \A f, g \in Visible :
               /\ EntryLess(f, MergeEntry(s.merge)) /\ ~EntryLess(g, MergeEntry(s.merge))
               /\ f.user = g.user
               => s.skipping /\ g.user <= s.skip
         /\ s.skipping => \A f \in Visible : EntryLess(f, MergeEntry(s.merge)) \/ s.skip <= f.user

NextStops(s) == ~MergeValid(s.merge) \/ Acceptable(dbIter.sequence, s)

LEMMA NextRoundKeeps ==
    ASSUME EntriesOK, NEW shown, NEW s, NextInv(s, shown), ~NextStops(s),
           NEW t, t = NextRound(dbIter.sequence, s)
    PROVE  NextInv(t, shown) /\ t.merge = MergeNext(s.merge)
<1> DEFINE m == s.merge
           here == MergeEntry(m)
           seen == here.seq <= dbIter.sequence
           deletes == seen /\ here.type = "deletion"
           n == MergeNext(m)
           next == MergeEntry(n)
<1>1. /\ MergeValid(m) /\ ~Acceptable(dbIter.sequence, s) /\ Placed(kForward, m)
      /\ s.skipping \in BOOLEAN /\ s.skip \in Nat
    BY DEF NextStops, NextInv
<1>2. Stands(m) /\ here \in Entries
    BY <1>1, PlacedStands DEF Direction
<1>3. /\ t.merge = n /\ t.skipping = (s.skipping \/ deletes)
      /\ t.skip = IF deletes THEN here.user ELSE s.skip
      /\ t = [merge |-> n, skipping |-> s.skipping \/ deletes,
              skip |-> IF deletes THEN here.user ELSE s.skip]
    BY <1>1 DEF NextRound
<1>4. /\ s.skipping => t.skipping
      /\ deletes => t.skipping /\ t.skip = here.user
      /\ ~deletes => t.skip = s.skip /\ (t.skipping => s.skipping)
    <2>1. t.skipping = (s.skipping \/ deletes) /\ t.skip = IF deletes THEN here.user ELSE s.skip
        BY <1>3
    <2> HIDE DEF deletes, here
    <2> QED BY <2>1
<1>5. /\ Placed(kForward, n)
      /\ MergeValid(n) => next \in Entries /\ EntryLess(here, next)
      /\ \A f \in Visible : EntryLess(here, f) => MergeValid(n) /\ ~EntryLess(f, next)
    <2>1. kForward \in Direction /\ n = Move(kForward, m)
        BY DEF Direction, Move
    <2>2. \A a, b : Earlier(kForward, a, b) = EntryLess(a, b)
        BY DEF Earlier
    <2> HIDE DEF n
    <2> QED BY <1>1, <1>2, <2>1, <2>2, MovesOn
<1>6. t \in [merge : Merges, skipping : BOOLEAN, skip : Nat]
    <2>1. n \in Merges
        BY <1>5, PlacedStands DEF Direction
    <2>2. here.user \in Nat
        BY <1>2, UserOrder
    <2> HIDE DEF n, here
    <2> QED BY <1>1, <1>3, <2>1, <2>2
<1>7. seen => here \in Visible
    BY <1>2 DEF Visible
<1>8. \A f \in Visible : f \in Entries /\ f.user \in Nat /\ f.seq <= dbIter.sequence
    BY EntriesTyped, UserOrder DEF Visible
<1>9. seen /\ ~deletes => s.skipping /\ here.user <= s.skip
    <2>1. here.type \in {"value", "deletion"}
        BY <1>2, EntriesTyped DEF EntryType
    <2> QED BY <1>1, <2>1 DEF Acceptable
<1>10. \A v : v \in View <=> /\ v \in Visible /\ v.type = "value"
                             /\ \A f \in Visible : f.user = v.user => f.seq <= v.seq
    BY ViewHasNewest
<1> HIDE DEF n, here, seen, deletes, next
<1>11. here.user \in Nat /\ (s.skipping /\ deletes => s.skip <= here.user)
    <2>1. here.user \in Nat
        BY <1>2, UserOrder
    <2>2. deletes => here \in Visible
        BY <1>7 DEF deletes
    <2>3. ~EntryLess(here, here)
        BY <1>2, LessOrder
    <2> QED BY <1>1, <2>1, <2>2, <2>3 DEF NextInv, here, m
\* What is passed is not to be shown.
<1>12. ASSUME NEW v \in shown
       PROVE  v \in View /\ EntryLess(here, v) /\ v.user \in Nat /\ ~(t.skipping /\ v.user <= t.skip)
    <2>1. v \in View /\ ~EntryLess(v, here) /\ ~(s.skipping /\ v.user <= s.skip)
        BY <1>1 DEF NextInv, Rest, here, m
    <2>2. v \in Visible /\ v \in Entries /\ v.user \in Nat /\ v.type = "value"
        BY <1>8, <1>10, <2>1
    <2>3. v # here
        <3>1. v = here => seen /\ ~deletes
            BY <1>8, <2>2 DEF seen, deletes
        <3> QED BY <1>9, <2>1, <3>1
    <2>4. EntryLess(here, v)
        BY <1>2, <2>1, <2>2, <2>3, LessOrder
    <2>5. deletes => ~(v.user <= here.user)
        <3> SUFFICES ASSUME deletes, v.user <= here.user PROVE FALSE
            OBVIOUS
        <3>1. here \in Visible
            BY <1>7 DEF deletes
        <3>2. here.user = v.user /\ v.seq < here.seq /\ here.seq \in Nat /\ v.seq \in Nat
            BY <1>2, <1>11, <2>2, <2>4, UserOrder
        <3>3. here.seq <= v.seq
            BY <1>10, <2>1, <3>1, <3>2
        <3> QED BY <3>2, <3>3
    <2> QED BY <1>3, <2>1, <2>2, <2>4, <2>5
<1>13. ~MergeValid(n) => shown = {}
    BY <1>5, <1>10, <1>12
<1>14. ASSUME MergeValid(n) PROVE Rest(t) = shown
    <2>1. ASSUME NEW v \in shown PROVE v \in Rest(t)
        <3>1. ~EntryLess(v, next)
            BY <1>5, <1>10, <1>12, <1>14
        <3> QED BY <1>3, <1>12, <3>1 DEF Rest, next
    <2>2. ASSUME NEW v \in Rest(t) PROVE v \in shown
        <3>1. v \in View /\ ~EntryLess(v, next) /\ ~(t.skipping /\ v.user <= t.skip)
            BY <1>3 DEF Rest, next
        <3>2. v \in Entries /\ v.user \in Nat
            BY <1>8, <1>10, <3>1
        <3>3. ~EntryLess(v, here)
            BY <1>2, <1>5, <1>14, <3>1, <3>2, LessOrder
        <3>4. ~(s.skipping /\ v.user <= s.skip)
            BY <1>1, <1>3, <1>11, <3>1, <3>2
        <3> QED BY <1>1, <3>1, <3>3, <3>4 DEF NextInv, Rest, here, m
    <2> QED BY <2>1, <2>2
<1>15. ASSUME MergeValid(n), NEW f \in Visible, NEW g \in Visible,
              EntryLess(f, next), ~EntryLess(g, next), f.user = g.user
       PROVE  t.skipping /\ g.user <= t.skip
    <2>1. f \in Entries /\ g \in Entries /\ g.user \in Nat
        BY <1>8
    <2>2. ~EntryLess(here, f)
        BY <1>5, <1>15
    <2>3. ~EntryLess(g, here)
        BY <1>2, <1>5, <1>15, <2>1, LessOrder
    <2>4. CASE EntryLess(f, here)
        <3>1. s.skipping /\ g.user <= s.skip
            BY <1>1, <1>15, <2>3, <2>4 DEF NextInv, here, m
        <3> QED BY <1>1, <1>11, <1>4, <2>1, <3>1
    <2>5. CASE f = here
        <3>1. seen
            BY <1>8, <2>5 DEF seen
        <3>2. ~deletes => s.skipping /\ here.user <= s.skip
            BY <1>9, <3>1
        <3> QED BY <1>11, <1>15, <1>4, <2>5, <3>2
    <2> QED BY <1>2, <2>1, <2>2, <2>4, <2>5, LessOrder
<1>16. ASSUME MergeValid(n), t.skipping, NEW f \in Visible, ~EntryLess(f, next)
       PROVE  t.skip <= f.user
    <2>1. f \in Entries /\ f.user \in Nat
        BY <1>8
    <2>2. EntryLess(here, f)
        BY <1>2, <1>5, <1>16, <2>1, LessOrder
    <2>3. here.user <= f.user
        BY <1>2, <2>1, <2>2, UserOrder
    <2>4. CASE deletes
        BY <1>3, <2>3, <2>4
    <2>5. CASE ~deletes
        <3>1. ~EntryLess(f, here)
            BY <1>2, <2>1, <2>2, LessOrder
        <3> QED BY <1>1, <1>3, <1>16, <2>5, <3>1 DEF NextInv, here, m
    <2> QED BY <2>4, <2>5
<1>17. MergeEntry(t.merge) = next /\ t.merge = n
    BY <1>3 DEF next
<1>18. Placed(kForward, t.merge) /\ (~MergeValid(t.merge) => shown = {})
    BY <1>5, <1>13, <1>17
<1> QED BY <1>6, <1>14, <1>15, <1>16, <1>17, <1>18 DEF NextInv, n

\* Where a loop of FindNextUserEntry stops is the first of what it may show.
LEMMA NextLoop ==
    ASSUME EntriesOK, dbIter.sequence \in Int, NEW d \in IterTypes, d.direction = kForward,
           NEW skipping, NEW skip, NEW shown,
           NextInv([merge |-> d.merge, skipping |-> skipping, skip |-> skip], shown),
           NEW n, n = FindNextUserEntry(d, skipping, skip)
    PROVE  GoodIterator(n) /\ IsAt(n, Least(shown))
<1> DEFINE N == Cardinality(Entries)
           start == [merge |-> d.merge, skipping |-> skipping, skip |-> skip]
           V == {s \in [merge : Merges, skipping : BOOLEAN, skip : Nat] : NextInv(s, shown)}
           round == [s \in V |-> NextRound(d.sequence, s)]
           stopped == {s \in V : NextStops(s)}
           count == [s \in V |-> Cardinality(Passed(kForward, s.merge))]
           Steps(f) == [k \in 0..Rounds |-> IF k = 0 THEN start ELSE NextRound(d.sequence, f[k - 1])]
           after == CHOOSE f : f = Steps(f)
           end == after[Rounds].merge
<1>1. d.sequence = dbIter.sequence
    BY DEF IterTypes
<1>2. N \in Nat /\ Rounds = N + 1
    BY PassedBound DEF Rounds, Direction
<1>3. start \in V
    BY DEF NextInv
<1>4. ASSUME NEW s \in V, NextStops(s) PROVE NextRound(d.sequence, s) = s
    BY <1>1, <1>4 DEF NextStops, NextRound
<1>5. ASSUME NEW s \in V, ~NextStops(s)
      PROVE  /\ NextRound(d.sequence, s) \in V
             /\ NextRound(d.sequence, s).merge = MergeNext(s.merge)
             /\ Placed(kForward, s.merge) /\ MergeValid(s.merge)
    <2> DEFINE t == NextRound(d.sequence, s)
    <2>1. NextInv(t, shown) /\ t.merge = MergeNext(s.merge)
        BY <1>1, <1>5, NextRoundKeeps
    <2>2. t \in V
        BY <2>1 DEF NextInv
    <2> QED BY <1>5, <2>1, <2>2 DEF NextInv, NextStops
<1>6. round \in [V -> V]
    BY <1>4, <1>5
<1>7. count \in [V -> 0..N]
    BY PassedBound DEF Direction
<1>8. \A s \in V : s \in stopped => round[s] = s
    BY <1>4
<1>9. ASSUME NEW s \in V, s \notin stopped PROVE count[round[s]] > count[s]
    <2>1. Placed(kForward, s.merge) /\ MergeValid(s.merge) /\ round[s].merge = Move(kForward, s.merge)
        BY <1>5, <1>9 DEF Move
    <2>2. Cardinality(Passed(kForward, s.merge)) < Cardinality(Passed(kForward, Move(kForward, s.merge)))
        BY <2>1, PassesMore DEF Direction
    <2>3. /\ count[s] = Cardinality(Passed(kForward, s.merge))
          /\ count[round[s]] = Cardinality(Passed(kForward, Move(kForward, s.merge)))
        BY <1>6, <2>1
    <2>4. count[s] \in Nat /\ count[round[s]] \in Nat
        BY <1>6, <1>7
    <2> HIDE DEF count, round
    <2> QED BY <2>2, <2>3, <2>4
<1>10. PICK f : /\ f \in [0..(N + 1) -> V]
                /\ f[0] = start /\ \A k \in 1..(N + 1) : f[k] = round[f[k - 1]]
                /\ f[N + 1] \in stopped
    <2>1. CountsUp(N, V, round, stopped, count)
        <3> HIDE DEF N, start, V, round, stopped, count
        <3> QED BY <1>6, <1>7, <1>8, <1>9 DEF CountsUp
    <2> HIDE DEF N, start, V, round, stopped, count
    <2>2. \E f : StoppedLoop(f, N, V, start, round, stopped)
        BY <1>2, <1>3, <2>1, LoopStops
    <2> QED BY <2>2 DEF StoppedLoop
<1>11. f = Steps(f)
    <2>1. \A k \in 0..Rounds : f[k] = IF k = 0 THEN start ELSE NextRound(d.sequence, f[k - 1])
        <3> SUFFICES ASSUME NEW k \in 1..(N + 1) PROVE f[k] = NextRound(d.sequence, f[k - 1])
            BY <1>2, <1>10
        <3>1. f[k - 1] \in V
            BY <1>2, <1>10
        <3> QED BY <1>10, <3>1
    <2> HIDE DEF N, start, V
    <2> QED BY <1>2, <1>10, <2>1

<1>12. after = Steps(after)
    <2> HIDE DEF Steps
    <2> QED BY <1>11
<1>13. after[Rounds] = f[N + 1]
    <2>1. /\ \A k \in 0..Rounds : after[k] = IF k = 0 THEN start ELSE NextRound(d.sequence, after[k - 1])
          /\ \A k \in 0..Rounds : f[k] = IF k = 0 THEN start ELSE NextRound(d.sequence, f[k - 1])
        <3> HIDE DEF after, N, start
        <3> QED BY <1>11, <1>12
    <2> HIDE DEF after, start
    <2>2. N + 1 \in Nat /\ after[0] = f[0] /\ \A k \in 1..(N + 1) : after[k - 1] = f[k - 1] => after[k] = f[k]
        <3> HIDE DEF N
        <3> QED BY <1>2, <2>1
    <2> HIDE DEF N
    <2> QED BY <1>2, <2>2, SameLoop
<1> DEFINE s == f[N + 1]
<1>14. s \in V /\ NextStops(s) /\ NextInv(s, shown) /\ end = s.merge
    <2>1. s \in stopped
        BY <1>10
    <2> QED BY <1>13, <2>1
<1>15. n = [d EXCEPT !.merge = end, !.valid = MergeValid(end), !.saved = 0]
    BY DEF FindNextUserEntry
<1> HIDE DEF s, V, after, N, round, stopped, count, start
<1>16. /\ n.merge = end /\ n.valid = MergeValid(end) /\ n.direction = kForward /\ n \in IterTypes
    <2>1. end \in Merges
        BY <1>14, PlacedStands DEF NextInv, Direction
    <2>2. MergeValid(end) \in BOOLEAN
        BY DEF MergeValid
    <2>3. /\ d = [merge |-> d.merge, direction |-> d.direction, valid |-> d.valid, saved |-> d.saved,
                  value |-> d.value, sequence |-> d.sequence]
          /\ d.value \in Entries \cup {Nothing} /\ d.sequence = dbIter.sequence
        BY DEF IterTypes
    <2> HIDE DEF end
    <2>4. n = [merge |-> end, direction |-> kForward, valid |-> MergeValid(end), saved |-> 0,
               value |-> d.value, sequence |-> d.sequence]
        BY <1>15, <2>3
    <2> QED BY <2>1, <2>2, <2>3, <2>4 DEF IterTypes, Direction
<1> HIDE DEF end
<1>17. CASE ~MergeValid(end)
    <2>1. shown = {}
        BY <1>14, <1>17 DEF NextInv
    <2> QED BY <1>16, <1>17, <2>1 DEF GoodIterator, IsAt, Least
<1>18. CASE MergeValid(end)
    <2> DEFINE here == MergeEntry(end)
    <2>1. here \in Entries /\ Placed(kForward, end)
        BY <1>14, <1>18, PlacedStands DEF NextInv, Direction
    <2>2. here.seq <= dbIter.sequence /\ here.type = "value" /\ ~(s.skipping /\ here.user <= s.skip)
        BY <1>14, <1>18 DEF NextStops, Acceptable
    <2>3. here \in Visible
        BY <2>1, <2>2 DEF Visible
    <2>4. ~EntryLess(here, here)
        BY <2>1, LessOrder
    <2>5. ASSUME NEW g \in Visible, g.user = here.user PROVE g.seq <= here.seq
        <3>1. g \in Entries
            BY EntriesTyped
        <3>2. ~EntryLess(g, here)
            BY <1>14, <1>18, <2>2, <2>3, <2>4, <2>5 DEF NextInv
        <3> HIDE DEF here
        <3> QED BY <2>1, <2>5, <3>1, <3>2, UserOrder
    <2>6. here \in View
        BY <2>2, <2>3, <2>5, ViewHasNewest
    <2>7. here \in shown /\ shown = Rest(s)
        BY <1>14, <1>18, <2>2, <2>4, <2>6 DEF NextInv, Rest
    <2>8. \A v \in shown : v \in Entries /\ ~EntryLess(v, here)
        BY <1>14, <2>7, ViewHasNewest, EntriesTyped DEF Rest
    <2> HIDE DEF here
    <2>9. Least(shown) = here
        <3>1. Least(shown) = CHOOSE e \in shown : \A g \in shown : ~EntryLess(g, e)
            BY <2>7 DEF Least
        <3>2. Least(shown) \in shown /\ ~EntryLess(here, Least(shown))
            BY <2>7, <2>8, <3>1
        <3> QED BY <2>1, <2>8, <3>2, LessOrder
    <2>10. here # Nothing
        BY <2>1, EntriesTyped
    <2>11. ShowsForward(n) /\ Shown(n) = here
        BY <1>16, <1>18, <2>1, <2>6 DEF ShowsForward, Shown, here
    <2> QED BY <1>16, <1>18, <2>9, <2>10, <2>11 DEF GoodIterator, IsAt
<1> QED BY <1>17, <1>18

-----------------------------------------------------------------------------
(* FindPrevUserEntry.                                                        *)

\* What the loop may show is in a zone of the user keys before one, or of all.
IsZone(zone) == zone \subseteq Visible /\ \A f \in zone : \A g \in Visible : g.user <= f.user => g \in zone

PrevInv(s, zone) ==
    /\ s \in [merge : Merges, newest : Entries \cup {Nothing}]
    /\ Placed(kReverse, s.merge)
    /\ MergeValid(s.merge) => \A f \in Visible : EntryLess(MergeEntry(s.merge), f) \/ f \in zone
    /\ s.newest = Nothing => \A f \in zone : MergeValid(s.merge) /\ ~EntryLess(MergeEntry(s.merge), f)
    /\ s.newest # Nothing =>
         /\ s.newest \in zone
         /\ MergeValid(s.merge) => EntryLess(MergeEntry(s.merge), s.newest)
         /\ \A f \in Visible : EntryLess(f, s.newest) =>
               MergeValid(s.merge) /\ ~EntryLess(MergeEntry(s.merge), f)
         /\ \A v \in View \cap zone : ~EntryLess(s.newest, v)

PrevStops(s) ==
    \/ ~MergeValid(s.merge)
    \/ /\ MergeEntry(s.merge).seq <= dbIter.sequence /\ s.newest.type = "value"
       /\ MergeEntry(s.merge).user < s.newest.user

\* MovesOn, for a merge that moves back.
LEMMA MovesBack ==
    ASSUME EntriesOK, NEW m, Stands(m), MergeValid(m), MergeEntry(m) \in Entries,
           m.direction = kReverse => Placed(kReverse, m)
    PROVE  /\ Placed(kReverse, MergePrev(m))
           /\ MergeValid(MergePrev(m)) =>
                MergeEntry(MergePrev(m)) \in Entries /\ EntryLess(MergeEntry(MergePrev(m)), MergeEntry(m))
           /\ \A f \in Visible : EntryLess(f, MergeEntry(m)) =>
                 MergeValid(MergePrev(m)) /\ ~EntryLess(MergeEntry(MergePrev(m)), f)
<1> DEFINE n == MergePrev(m)
<1>1. kReverse \in Direction /\ n = Move(kReverse, m)
    BY DirectionsDiffer DEF Direction, Move
<1>2. \A a, b : Earlier(kReverse, a, b) = EntryLess(b, a)
    BY DirectionsDiffer DEF Earlier
<1> HIDE DEF n
<1>3. /\ Placed(kReverse, n)
      /\ MergeValid(n) => MergeEntry(n) \in Entries /\ EntryLess(MergeEntry(n), MergeEntry(m))
      /\ \A f \in Visible : EntryLess(f, MergeEntry(m)) => MergeValid(n) /\ ~EntryLess(MergeEntry(n), f)
    BY <1>1, <1>2, MovesOn
<1> QED BY <1>3 DEF n

LEMMA PrevRoundKeeps ==
    ASSUME EntriesOK, NEW zone, IsZone(zone), NEW s, PrevInv(s, zone), ~PrevStops(s),
           NEW t, t = PrevRound(dbIter.sequence, s)
    PROVE  PrevInv(t, zone) /\ t.merge = MergePrev(s.merge)
<1> DEFINE m == s.merge
           here == MergeEntry(m)
           seen == here.seq <= dbIter.sequence
           n == MergePrev(m)
           next == MergeEntry(n)
           newest == s.newest
<1>1. /\ MergeValid(m) /\ Placed(kReverse, m) /\ newest \in Entries \cup {Nothing}
      /\ ~(seen /\ newest.type = "value" /\ here.user < newest.user)
    BY DEF PrevStops, PrevInv
<1>2. Stands(m) /\ here \in Entries
    BY <1>1, PlacedStands DEF Direction
<1>3. t = [merge |-> n, newest |-> IF seen THEN here ELSE newest]
    BY <1>1 DEF PrevRound
<1>4. /\ Placed(kReverse, n)
      /\ MergeValid(n) => next \in Entries /\ EntryLess(next, here)
      /\ \A f \in Visible : EntryLess(f, here) => MergeValid(n) /\ ~EntryLess(next, f)
    BY <1>1, <1>2, MovesBack
<1>5. n \in Merges
    BY <1>4, PlacedStands DEF Direction
<1>6. seen <=> here \in Visible
    BY <1>2 DEF Visible
<1>7. \A f \in Visible : f \in Entries /\ f.user \in Nat /\ f.seq \in Nat
    BY EntriesTyped, UserOrder
<1>8. /\ \A f \in Visible : EntryLess(here, f) \/ f \in zone
      /\ newest = Nothing => \A f \in zone : ~EntryLess(here, f)
      /\ newest # Nothing => /\ newest \in zone /\ EntryLess(here, newest)
                             /\ \A f \in Visible : EntryLess(f, newest) => ~EntryLess(here, f)
                             /\ \A v \in View \cap zone : ~EntryLess(newest, v)
    BY <1>1 DEF PrevInv
<1>9. \A v \in View : v \in Visible /\ v.type = "value"
                     /\ \A f \in Visible : f.user = v.user => f.seq <= v.seq
    BY ViewHasNewest
<1>10. zone \subseteq Visible
    BY DEF IsZone
<1>11. Nothing \notin Entries
    BY EntriesTyped
<1> HIDE DEF n, next, here, newest, seen, m
<1>12. t \in [merge : Merges, newest : Entries \cup {Nothing}] /\ t.merge = n
       /\ t.newest = IF seen THEN here ELSE newest
    BY <1>1, <1>2, <1>3, <1>5
<1>13. MergeEntry(t.merge) = next
    BY <1>12 DEF next
<1>14. MergeValid(n) => \A f \in Visible : EntryLess(next, f) \/ f \in zone
    BY <1>2, <1>4, <1>7, <1>8, LessOrder
<1>15. t.merge = MergePrev(s.merge)
    BY <1>12 DEF n, m
<1>16. CASE seen
    <2>1. here \in zone /\ t.newest = here /\ here # Nothing
        <3>1. ~EntryLess(here, here)
            BY <1>2, LessOrder
        <3> QED BY <1>2, <1>6, <1>8, <1>11, <1>12, <1>16, <3>1
    <2>2. ASSUME NEW v \in View \cap zone, EntryLess(here, v) PROVE FALSE
        <3>1. v \in Visible /\ v \in Entries /\ newest # Nothing
            BY <1>7, <1>8, <1>9, <2>2
        <3>2. newest \in Visible /\ newest \in Entries /\ EntryLess(here, newest)
            BY <1>7, <1>8, <1>10, <3>1
        <3>3. ~EntryLess(newest, v) /\ ~EntryLess(v, newest)
            BY <1>8, <2>2, <3>1
        <3>4. newest = v
            BY <3>1, <3>2, <3>3, LessOrder
        <3>5. ~(here.user < newest.user)
            BY <1>1, <1>9, <1>16, <3>4
        <3>6. here.user = v.user /\ v.seq < here.seq /\ here.seq \in Nat /\ v.seq \in Nat
            BY <1>2, <3>1, <3>2, <3>4, <3>5, UserOrder
        <3>7. here.seq <= v.seq
            BY <1>6, <1>9, <1>16, <3>6
        <3> QED BY <3>6, <3>7
    <2> QED BY <1>4, <1>12, <1>13, <1>14, <1>15, <2>1, <2>2 DEF PrevInv
<1>17. CASE ~seen
    <2>1. t.newest = newest
        BY <1>12, <1>17
    <2>2. \A f \in Visible : ~EntryLess(here, f) => MergeValid(n) /\ ~EntryLess(next, f)
        <3> SUFFICES ASSUME NEW f \in Visible, ~EntryLess(here, f) PROVE EntryLess(f, here)
            BY <1>4
        <3>1. f # here
            BY <1>6, <1>17
        <3> QED BY <1>2, <1>7, <3>1, LessOrder
    <2>3. newest = Nothing => \A f \in zone : MergeValid(n) /\ ~EntryLess(next, f)
        BY <1>8, <1>10, <2>2
    <2>4. ASSUME newest # Nothing, MergeValid(n) PROVE EntryLess(next, newest)
        <3>1. newest \in Entries
            BY <1>1, <2>4
        <3> QED BY <1>2, <1>4, <1>8, <2>4, <3>1, LessOrder
    <2>5. newest # Nothing => \A f \in Visible : EntryLess(f, newest) => MergeValid(n) /\ ~EntryLess(next, f)
        BY <1>8, <2>2
    <2> QED BY <1>4, <1>8, <1>12, <1>13, <1>14, <1>15, <2>1, <2>3, <2>4, <2>5 DEF PrevInv
<1> QED BY <1>16, <1>17

\* Where the loop of FindPrevUserEntry stops is the last of what it may show.
LEMMA PrevLoop ==
    ASSUME EntriesOK, dbIter.sequence \in Int, NEW d \in IterTypes, d.direction = kReverse,
           NEW zone, IsZone(zone), PrevInv([merge |-> d.merge, newest |-> Nothing], zone),
           NEW n, n = FindPrevUserEntry(d)
    PROVE  GoodIterator(n) /\ IsAt(n, Greatest(View \cap zone))
<1> DEFINE N == Cardinality(Entries)
           start == [merge |-> d.merge, newest |-> Nothing]
           V == {s \in [merge : Merges, newest : Entries \cup {Nothing}] : PrevInv(s, zone)}
           round == [s \in V |-> PrevRound(d.sequence, s)]
           stopped == {s \in V : PrevStops(s)}
           count == [s \in V |-> Cardinality(Passed(kReverse, s.merge))]
           Steps(f) == [k \in 0..Rounds |-> IF k = 0 THEN start ELSE PrevRound(d.sequence, f[k - 1])]
           after == CHOOSE f : f = Steps(f)
           end == after[Rounds]
<1>1. d.sequence = dbIter.sequence
    BY DEF IterTypes
<1>2. N \in Nat /\ Rounds = N + 1
    BY PassedBound DEF Rounds, Direction
<1>3. start \in V
    BY DEF PrevInv
<1>4. ASSUME NEW s \in V, PrevStops(s) PROVE PrevRound(d.sequence, s) = s
    BY <1>1, <1>4 DEF PrevStops, PrevRound
<1>5. ASSUME NEW s \in V, ~PrevStops(s)
      PROVE  /\ PrevRound(d.sequence, s) \in V
             /\ PrevRound(d.sequence, s).merge = MergePrev(s.merge)
             /\ Placed(kReverse, s.merge) /\ MergeValid(s.merge)
    <2> DEFINE t == PrevRound(d.sequence, s)
    <2>1. PrevInv(t, zone) /\ t.merge = MergePrev(s.merge)
        BY <1>1, <1>5, PrevRoundKeeps
    <2>2. t \in V
        BY <2>1 DEF PrevInv
    <2> QED BY <1>5, <2>1, <2>2 DEF PrevInv, PrevStops
<1>6. round \in [V -> V]
    BY <1>4, <1>5
<1>7. count \in [V -> 0..N]
    BY PassedBound DEF Direction
<1>8. \A s \in V : s \in stopped => round[s] = s
    BY <1>4
<1>9. ASSUME NEW s \in V, s \notin stopped PROVE count[round[s]] > count[s]
    <2>1. Placed(kReverse, s.merge) /\ MergeValid(s.merge) /\ round[s].merge = Move(kReverse, s.merge)
        BY <1>5, <1>9, DirectionsDiffer DEF Move
    <2>2. Cardinality(Passed(kReverse, s.merge)) < Cardinality(Passed(kReverse, Move(kReverse, s.merge)))
        BY <2>1, PassesMore DEF Direction
    <2>3. /\ count[s] = Cardinality(Passed(kReverse, s.merge))
          /\ count[round[s]] = Cardinality(Passed(kReverse, Move(kReverse, s.merge)))
        BY <1>6, <2>1
    <2>4. count[s] \in Nat /\ count[round[s]] \in Nat
        BY <1>6, <1>7
    <2> HIDE DEF count, round
    <2> QED BY <2>2, <2>3, <2>4
<1>10. PICK f : /\ f \in [0..(N + 1) -> V]
                /\ f[0] = start /\ \A k \in 1..(N + 1) : f[k] = round[f[k - 1]]
                /\ f[N + 1] \in stopped
    <2>1. CountsUp(N, V, round, stopped, count)
        <3> HIDE DEF N, start, V, round, stopped, count
        <3> QED BY <1>6, <1>7, <1>8, <1>9 DEF CountsUp
    <2> HIDE DEF N, start, V, round, stopped, count
    <2>2. \E f : StoppedLoop(f, N, V, start, round, stopped)
        BY <1>2, <1>3, <2>1, LoopStops
    <2> QED BY <2>2 DEF StoppedLoop
<1>11. f = Steps(f)
    <2>1. \A k \in 0..Rounds : f[k] = IF k = 0 THEN start ELSE PrevRound(d.sequence, f[k - 1])
        <3> SUFFICES ASSUME NEW k \in 1..(N + 1) PROVE f[k] = PrevRound(d.sequence, f[k - 1])
            BY <1>2, <1>10
        <3>1. f[k - 1] \in V
            BY <1>2, <1>10
        <3> QED BY <1>10, <3>1
    <2> HIDE DEF N, start, V
    <2> QED BY <1>2, <1>10, <2>1
<1>12. after = Steps(after)
    <2> HIDE DEF Steps
    <2> QED BY <1>11
<1>13. after[Rounds] = f[N + 1]
    <2>1. /\ \A k \in 0..Rounds : after[k] = IF k = 0 THEN start ELSE PrevRound(d.sequence, after[k - 1])
          /\ \A k \in 0..Rounds : f[k] = IF k = 0 THEN start ELSE PrevRound(d.sequence, f[k - 1])
        <3> HIDE DEF after, N, start
        <3> QED BY <1>11, <1>12
    <2> HIDE DEF after, start
    <2>2. N + 1 \in Nat /\ after[0] = f[0] /\ \A k \in 1..(N + 1) : after[k - 1] = f[k - 1] => after[k] = f[k]
        <3> HIDE DEF N
        <3> QED BY <1>2, <2>1
    <2> HIDE DEF N
    <2> QED BY <1>2, <2>2, SameLoop
<1>14. PrevStops(end) /\ PrevInv(end, zone)
    <2>1. f[N + 1] \in stopped
        BY <1>10
    <2> QED BY <1>13, <2>1
<1>15. n = IF end.newest.type = "value"
           THEN [d EXCEPT !.merge = end.merge, !.valid = TRUE, !.saved = end.newest.user, !.value = end.newest]
           ELSE [d EXCEPT !.merge = end.merge, !.valid = FALSE, !.saved = 0, !.value = Nothing,
                          !.direction = kForward]
    BY Zenon DEF FindPrevUserEntry
<1> HIDE DEF V, after, N, round, stopped, count, start, end
<1> DEFINE m == end.merge
           newest == end.newest
<1>16. /\ m \in Merges /\ newest \in Entries \cup {Nothing} /\ Placed(kReverse, m)
       /\ MergeValid(m) => MergeEntry(m) \in Entries
    BY <1>14, PlacedStands DEF PrevInv, Direction
<1>17. /\ newest = Nothing => \A g \in zone : MergeValid(m) /\ ~EntryLess(MergeEntry(m), g)
       /\ newest # Nothing =>
            /\ newest \in zone
            /\ \A g \in Visible : EntryLess(g, newest) => MergeValid(m) /\ ~EntryLess(MergeEntry(m), g)
            /\ \A v \in View \cap zone : ~EntryLess(newest, v)
    BY <1>14 DEF PrevInv
<1>18. ~MergeValid(m) \/ (newest.type = "value" /\ MergeEntry(m).user < newest.user)
    BY <1>14 DEF PrevStops
<1>19. /\ d = [merge |-> d.merge, direction |-> kReverse, valid |-> d.valid, saved |-> d.saved,
               value |-> d.value, sequence |-> d.sequence]
    BY DEF IterTypes
<1>20. zone \subseteq Visible /\ Visible \subseteq Entries /\ Nothing \notin Entries
    BY EntriesTyped DEF IsZone
<1>21. CASE newest.type = "value"
    <2>1. n = [merge |-> m, direction |-> kReverse, valid |-> TRUE, saved |-> newest.user,
               value |-> newest, sequence |-> d.sequence]
        BY <1>15, <1>19, <1>21
    <2>2. newest # Nothing /\ newest \in zone /\ newest \in Visible /\ newest \in Entries
        BY <1>17, <1>20, <1>21 DEF Nothing
    <2> HIDE DEF m, newest
    <2>3. \A g \in Visible : g \in Entries
        BY <1>20
    <2>4. ASSUME NEW g \in Visible, g.user = newest.user PROVE g.seq <= newest.seq
        <3>1. ~EntryLess(g, newest)
            <4> SUFFICES ASSUME EntryLess(g, newest) PROVE FALSE
                OBVIOUS
            <4>1. MergeValid(m) /\ ~EntryLess(MergeEntry(m), g) /\ MergeEntry(m) \in Entries
                BY <1>16, <1>17, <2>2
            <4>2. MergeEntry(m).user < g.user
                BY <1>18, <2>4, <4>1
            <4> QED BY <2>3, <4>1, <4>2, UserOrder
        <3> QED BY <2>2, <2>3, <2>4, <3>1, UserOrder
    <2>5. newest \in View
        BY <1>21, <2>2, <2>4, ViewHasNewest
    <2>6. Greatest(View \cap zone) = newest
        <3> DEFINE S == View \cap zone
        <3>1. newest \in S /\ \A v \in S : v \in Entries /\ ~EntryLess(newest, v)
            BY <1>17, <1>20, <2>2, <2>5
        <3>2. Greatest(S) = CHOOSE e \in S : \A g \in S : ~EntryLess(e, g)
            BY <3>1 DEF Greatest
        <3> HIDE DEF S
        <3>3. Greatest(S) \in S /\ ~EntryLess(Greatest(S), newest)
            BY <3>1, <3>2
        <3>4. Greatest(S) = newest
            BY <2>2, <3>1, <3>3, LessOrder
        <3> QED BY <3>4 DEF S
    <2>7. \A g \in Visible : (MergeValid(m) /\ ~EntryLess(MergeEntry(m), g)) \/ g.user >= newest.user
        <3> SUFFICES ASSUME NEW g \in Visible, ~(g.user >= newest.user)
                     PROVE  EntryLess(g, newest)
            BY <1>17, <2>2
        <3> QED BY <2>2, <2>3, UserOrder
    <2>8. newest.user \in Nat
        BY <2>2, UserOrder
    <2>9. n \in IterTypes /\ n.merge = m /\ n.direction = kReverse /\ n.valid = TRUE
          /\ n.saved = newest.user /\ n.value = newest
        BY <1>1, <1>16, <2>1, <2>2, <2>8 DEF IterTypes, Direction
    <2>10. ShowsReverse(n)
        BY <1>16, <1>18, <2>5, <2>7, <2>9 DEF ShowsReverse
    <2> QED BY <2>2, <2>6, <2>9, <2>10, DirectionsDiffer DEF GoodIterator, IsAt, Shown
<1>22. CASE newest.type # "value"
    <2>1. n = [merge |-> m, direction |-> kForward, valid |-> FALSE, saved |-> 0,
               value |-> Nothing, sequence |-> d.sequence]
        BY <1>15, <1>19, <1>22
    <2> HIDE DEF m, newest
    <2>2. ~MergeValid(m)
        BY <1>18, <1>22
    <2>3. ASSUME NEW v \in View \cap zone PROVE FALSE
        <3>1. v \in Visible /\ v \in Entries /\ v.type = "value"
            BY <1>20, ViewHasNewest
        <3>2. newest # Nothing /\ newest \in Entries
            BY <1>16, <1>17, <2>2
        <3>3. v # newest /\ ~EntryLess(newest, v) /\ ~EntryLess(v, newest)
            BY <1>17, <1>22, <2>2, <3>1, <3>2
        <3> QED BY <3>1, <3>2, <3>3, LessOrder
    <2>4. Greatest(View \cap zone) = Nothing
        BY <2>3 DEF Greatest
    <2>5. n \in IterTypes /\ n.valid = FALSE
        BY <1>1, <1>16, <2>1 DEF IterTypes, Direction
    <2> QED BY <2>4, <2>5 DEF GoodIterator, IsAt
<1> QED BY <1>21, <1>22

-----------------------------------------------------------------------------
(* The loop of Prev that goes back past the entries of a user key.           *)
BackInv(user, m) ==
    /\ Placed(kReverse, m)
    /\ \A f \in Visible : f.user < user => MergeValid(m) /\ ~EntryLess(MergeEntry(m), f)

BackStops(user, m) == ~MergeValid(m) \/ MergeEntry(m).user < user

LEMMA BackRoundKeeps ==
    ASSUME EntriesOK, NEW user \in Nat, NEW m, Stands(m), MergeValid(m), MergeEntry(m) \in Entries,
           m.direction = kReverse => Placed(kReverse, m), MergeEntry(m).user >= user
    PROVE  BackInv(user, MergePrev(m))
<1> DEFINE here == MergeEntry(m)
<1>1. \A f \in Visible : f.user < user => EntryLess(f, here)
    <2> HIDE DEF here
    <2>1. \A f \in Visible : f \in Entries
        BY EntriesTyped
    <2> QED BY <2>1, UserOrder DEF here
<1> QED BY <1>1, MovesBack DEF BackInv

LEMMA BackLoop ==
    ASSUME EntriesOK, NEW m, Placed(kForward, m), MergeValid(m), NEW user, user = MergeEntry(m).user,
           NEW n, n = BackPast(m, user)
    PROVE  BackInv(user, n) /\ BackStops(user, n)
<1> DEFINE N == Cardinality(Entries)
           start == MergePrev(m)
           V == {x \in Merges : BackInv(user, x)}
           round == [x \in V |-> BackRound(user, x)]
           stopped == {x \in V : BackStops(user, x)}
           count == [x \in V |-> Cardinality(Passed(kReverse, x))]
           Steps(f) == [k \in 0..Rounds |-> IF k = 0 THEN start ELSE BackRound(user, f[k - 1])]
           after == CHOOSE f : f = Steps(f)
<1>1. user \in Nat
    BY PlacedStands, UserOrder DEF Direction
<1>2. N \in Nat /\ Rounds = N + 1
    BY PassedBound DEF Rounds, Direction
<1>3. start \in V
    <2>1. Stands(m) /\ MergeEntry(m) \in Entries /\ m.direction # kReverse
        BY PlacedStands, DirectionsDiffer DEF Direction, Placed
    <2>2. BackInv(user, start)
        BY <1>1, <2>1, BackRoundKeeps
    <2> HIDE DEF start
    <2>3. start \in Merges
        BY <2>2, PlacedStands DEF BackInv, Direction
    <2> QED BY <2>2, <2>3
<1>4. ASSUME NEW x \in V, BackStops(user, x) PROVE BackRound(user, x) = x
    <2> SUFFICES ASSUME MergeValid(x) PROVE ~(MergeEntry(x).user >= user)
        BY DEF BackRound
    <2>1. MergeEntry(x) \in Entries
        BY PlacedStands DEF BackInv, Direction
    <2>2. MergeEntry(x).user \in Nat
        BY <2>1, UserOrder
    <2> QED BY <1>1, <1>4, <2>2 DEF BackStops
<1>5. ASSUME NEW x \in V, ~BackStops(user, x)
      PROVE  /\ BackRound(user, x) \in V /\ BackRound(user, x) = MergePrev(x)
             /\ Placed(kReverse, x) /\ MergeValid(x)
    <2>1. Placed(kReverse, x) /\ MergeValid(x) /\ Stands(x) /\ MergeEntry(x) \in Entries
        BY <1>5, PlacedStands DEF BackInv, BackStops, Direction
    <2>2. MergeEntry(x).user >= user
        <3>1. MergeEntry(x).user \in Nat
            BY <2>1, UserOrder
        <3> QED BY <1>1, <1>5, <3>1 DEF BackStops
    <2>3. BackRound(user, x) = MergePrev(x)
        BY <2>1, <2>2 DEF BackRound
    <2>4. BackInv(user, MergePrev(x))
        BY <1>1, <2>1, <2>2, BackRoundKeeps
    <2>5. MergePrev(x) \in Merges
        BY <2>4, PlacedStands DEF BackInv, Direction
    <2> QED BY <2>1, <2>3, <2>4, <2>5
<1>6. round \in [V -> V]
    BY <1>4, <1>5
<1>7. count \in [V -> 0..N]
    BY PassedBound DEF Direction
<1>8. \A x \in V : x \in stopped => round[x] = x
    BY <1>4
<1>9. ASSUME NEW x \in V, x \notin stopped PROVE count[round[x]] > count[x]
    <2>1. Placed(kReverse, x) /\ MergeValid(x) /\ round[x] = Move(kReverse, x)
        BY <1>5, <1>9, DirectionsDiffer DEF Move
    <2>2. Cardinality(Passed(kReverse, x)) < Cardinality(Passed(kReverse, Move(kReverse, x)))
        BY <2>1, PassesMore DEF Direction
    <2>3. /\ count[x] = Cardinality(Passed(kReverse, x))
          /\ count[round[x]] = Cardinality(Passed(kReverse, Move(kReverse, x)))
        BY <1>6, <2>1
    <2>4. count[x] \in Nat /\ count[round[x]] \in Nat
        BY <1>6, <1>7
    <2> HIDE DEF count, round
    <2> QED BY <2>2, <2>3, <2>4
<1>10. PICK f : /\ f \in [0..(N + 1) -> V]
                /\ f[0] = start /\ \A k \in 1..(N + 1) : f[k] = round[f[k - 1]]
                /\ f[N + 1] \in stopped
    <2>1. CountsUp(N, V, round, stopped, count)
        <3> HIDE DEF N, start, V, round, stopped, count
        <3> QED BY <1>6, <1>7, <1>8, <1>9 DEF CountsUp
    <2> HIDE DEF N, start, V, round, stopped, count
    <2>2. \E f : StoppedLoop(f, N, V, start, round, stopped)
        BY <1>2, <1>3, <2>1, LoopStops
    <2> QED BY <2>2 DEF StoppedLoop
<1>11. f = Steps(f)
    <2>1. \A k \in 0..Rounds : f[k] = IF k = 0 THEN start ELSE BackRound(user, f[k - 1])
        <3> SUFFICES ASSUME NEW k \in 1..(N + 1) PROVE f[k] = BackRound(user, f[k - 1])
            BY <1>2, <1>10
        <3>1. f[k - 1] \in V
            BY <1>2, <1>10
        <3> QED BY <1>10, <3>1
    <2> HIDE DEF N, start, V
    <2> QED BY <1>2, <1>10, <2>1
<1>12. after = Steps(after)
    <2> HIDE DEF Steps
    <2> QED BY <1>11
<1>13. after[Rounds] = f[N + 1]
    <2>1. /\ \A k \in 0..Rounds : after[k] = IF k = 0 THEN start ELSE BackRound(user, after[k - 1])
          /\ \A k \in 0..Rounds : f[k] = IF k = 0 THEN start ELSE BackRound(user, f[k - 1])
        <3> HIDE DEF after, N, start
        <3> QED BY <1>11, <1>12
    <2> HIDE DEF after, start
    <2>2. N + 1 \in Nat /\ after[0] = f[0] /\ \A k \in 1..(N + 1) : after[k - 1] = f[k - 1] => after[k] = f[k]
        <3> HIDE DEF N
        <3> QED BY <1>2, <2>1
    <2> HIDE DEF N
    <2> QED BY <1>2, <2>2, SameLoop
<1>14. n = after[Rounds]
    BY DEF BackPast
<1>15. f[N + 1] \in stopped
    BY <1>10
<1> QED BY <1>13, <1>14, <1>15

-----------------------------------------------------------------------------
(* The operations: where each goes from a good iterator.                     *)
LEMMA IterRecord ==
    ASSUME NEW d \in IterTypes
    PROVE  /\ d = [merge |-> d.merge, direction |-> d.direction, valid |-> d.valid, saved |-> d.saved,
                   value |-> d.value, sequence |-> d.sequence]
           /\ d.merge \in Merges /\ d.direction \in Direction /\ d.valid \in BOOLEAN /\ d.saved \in Nat
           /\ d.value \in Entries \cup {Nothing} /\ d.sequence = dbIter.sequence
BY DEF IterTypes

LEMMA ForwardIs ==
    /\ kForward \in Direction /\ kReverse \in Direction
    /\ \A a, b : Earlier(kForward, a, b) = EntryLess(a, b) /\ Earlier(kReverse, a, b) = EntryLess(b, a)
BY DirectionsDiffer DEF Direction, Earlier

\* DBSeekForward, from a merge that has been put before what is to be shown.
LEMMA SeekForwardShows ==
    ASSUME EntriesOK, dbIter.sequence \in Int, NEW d \in IterTypes, NEW m, Placed(kForward, m),
           NEW from, \A e \in from : \A f \in Visible : e.user = f.user \/ EntryLess(e, f) => f \in from,
           MergeValid(m) => MergeEntry(m) \in from,
           \A f \in Visible \cap from : MergeValid(m) /\ ~EntryLess(f, MergeEntry(m))
    PROVE  GoodIterator(DBSeekForward(d, m)) /\ IsAt(DBSeekForward(d, m), Least(View \cap from))
<1> DEFINE at == [d EXCEPT !.direction = kForward, !.value = Nothing, !.saved = 0, !.merge = m]
           here == MergeEntry(m)
<1>1. m \in Merges /\ (MergeValid(m) => here \in Entries)
    BY PlacedStands, ForwardIs
<1>2. at \in IterTypes /\ at.merge = m /\ at.direction = kForward
    BY <1>1, ForwardIs DEF IterTypes
<1> HIDE DEF at
<1>3. \A v \in View : v \in Visible /\ v \in Entries
    BY ViewHasNewest, EntriesTyped
<1>4. CASE ~MergeValid(m)
    <2>1. DBSeekForward(d, m) = [at EXCEPT !.valid = FALSE]
        BY <1>4 DEF DBSeekForward, at
    <2>2. [at EXCEPT !.valid = FALSE] \in IterTypes /\ [at EXCEPT !.valid = FALSE].valid = FALSE
        BY <1>2 DEF IterTypes
    <2>3. View \cap from = {}
        BY <1>3, <1>4
    <2> QED BY <2>1, <2>2, <2>3 DEF GoodIterator, IsAt, Least
<1>5. CASE MergeValid(m)
    <2> DEFINE s == [merge |-> m, skipping |-> FALSE, skip |-> 0]
    <2>1. DBSeekForward(d, m) = FindNextUserEntry(at, FALSE, 0)
        BY <1>5 DEF DBSeekForward, at
    <2>2. Rest(s) = View \cap from
        <3>1. ASSUME NEW v \in View PROVE v \in from <=> ~EntryLess(v, here)
            <4>1. v \in from => ~EntryLess(v, here)
                BY <1>3
            <4>2. ~EntryLess(v, here) => v \in from
                BY <1>1, <1>3, <1>5, LessOrder
            <4> QED BY <4>1, <4>2
        <3> QED BY <3>1 DEF Rest
    <2>3. ASSUME NEW f \in Visible, NEW g \in Visible, EntryLess(f, here), ~EntryLess(g, here), f.user = g.user
          PROVE  FALSE
        <3>1. f \in Entries /\ g \in Entries
            BY EntriesTyped
        <3>2. g \in from
            BY <1>1, <1>5, <2>3, <3>1, LessOrder
        <3>3. f \in from
            BY <2>3, <3>2
        <3> QED BY <2>3, <3>3
    <2>4. NextInv(s, View \cap from)
        <3>1. s \in [merge : Merges, skipping : BOOLEAN, skip : Nat]
            BY <1>1
        <3>2. s.merge = m /\ s.skipping = FALSE
            OBVIOUS
        <3> HIDE DEF s
        <3> QED BY <1>5, <2>2, <2>3, <3>1, <3>2 DEF NextInv
    <2>5. at.merge = m /\ at.direction = kForward
        BY <1>2
    <2> QED BY <1>2, <2>1, <2>4, <2>5, NextLoop
<1> QED BY <1>4, <1>5

\* The merge's Seek, SeekToFirst and SeekToLast in terms of where they put the children.
LEMMA SeeksAre ==
    ASSUME EntriesOK, NEW m \in Merges, NEW target
    PROVE  /\ MergeSeek(m, target) =
                Find(kForward, SoughtIn(kForward, m, {e \in Entries : ~EntryLess(e, target)}))
           /\ MergeSeekToFirst(m) = Find(kForward, SoughtIn(kForward, m, Entries))
           /\ MergeSeekToLast(m) = Find(kReverse, SoughtIn(kReverse, m, Entries))
<1> DEFINE from == {e \in Entries : ~EntryLess(e, target)}
<1>1. DOMAIN m.at = Child /\ \A i \in Child : child[i] \subseteq Entries
    BY EntriesTyped DEF Merges
<1>2. /\ \A i \in Child : child[i] \cap Entries = child[i]
      /\ \A i \in Child : child[i] \cap from = {e \in child[i] : ~EntryLess(e, target)}
    BY <1>1
<1>3. MergeSeek(m, target) = Find(kForward, SoughtIn(kForward, m, from))
    <2>1. [i \in DOMAIN m.at |-> Least({e \in child[i] : ~EntryLess(e, target)})]
          = [i \in DOMAIN m.at |-> First(kForward, child[i] \cap from)]
        <3> HIDE DEF from
        <3> QED BY <1>1, <1>2 DEF First
    <2> HIDE DEF from
    <2> QED BY <2>1 DEF MergeSeek, SoughtIn, Find
<1>4. MergeSeekToFirst(m) = Find(kForward, SoughtIn(kForward, m, Entries))
    <2>1. [i \in DOMAIN m.at |-> Least(child[i])] = [i \in DOMAIN m.at |-> First(kForward, child[i] \cap Entries)]
        BY <1>1, <1>2 DEF First
    <2> QED BY <2>1 DEF MergeSeekToFirst, SoughtIn, Find
<1>5. MergeSeekToLast(m) = Find(kReverse, SoughtIn(kReverse, m, Entries))
    <2>1. [i \in DOMAIN m.at |-> Greatest(child[i])] = [i \in DOMAIN m.at |-> First(kReverse, child[i] \cap Entries)]
        BY <1>1, <1>2, DirectionsDiffer DEF First
    <2> QED BY <2>1, DirectionsDiffer DEF MergeSeekToLast, SoughtIn, Find
<1> QED BY <1>3, <1>4, <1>5

LEMMA SeekToFirstShows ==
    ASSUME EntriesOK, dbIter.sequence \in Int, NEW d \in IterTypes
    PROVE  GoodIterator(DBSeekToFirst(d)) /\ IsAt(DBSeekToFirst(d), Least(View))
<1> DEFINE m == MergeSeekToFirst(d.merge)
<1>1. /\ Placed(kForward, m)
      /\ MergeValid(m) => MergeEntry(m) \in Entries
      /\ \A f \in Visible \cap Entries : MergeValid(m) /\ ~EntryLess(f, MergeEntry(m))
    <2>1. m = Find(kForward, SoughtIn(kForward, d.merge, Entries)) /\ d.merge \in Merges
        BY IterRecord, SeeksAre
    <2> HIDE DEF m
    <2> QED BY <2>1, ForwardIs, Seeks
<1>2. \A f \in Visible : f \in Entries
    BY EntriesTyped
<1>3. View \cap Entries = View
    BY <1>2, ViewHasNewest
<1>4. DBSeekToFirst(d) = DBSeekForward(d, m)
    BY DEF DBSeekToFirst
<1> HIDE DEF m
<1> QED BY <1>1, <1>2, <1>3, <1>4, SeekForwardShows

LEMMA SeekShows ==
    ASSUME EntriesOK, dbIter.sequence \in Int, NEW d \in IterTypes, NEW user \in Nat
    PROVE  /\ GoodIterator(DBSeek(d, user))
           /\ IsAt(DBSeek(d, user), Least({e \in View : e.user >= user}))
<1> DEFINE target == [user |-> user, seq |-> d.sequence, type |-> "value"]
           from == {e \in Entries : ~EntryLess(e, target)}
           m == MergeSeek(d.merge, target)
<1>1. d.sequence = dbIter.sequence /\ d.merge \in Merges
    BY IterRecord
<1>2. \A e \in Entries : EntryLess(e, target) <=>
         e.user < user \/ (e.user = user /\ e.seq > dbIter.sequence)
    BY <1>1 DEF EntryLess
<1>3. \A e \in Visible : e \in Entries /\ e.user \in Nat /\ e.seq \in Nat /\ e.seq <= dbIter.sequence
    BY EntriesTyped, UserOrder DEF Visible
<1>4. \A e \in Visible : e \in from <=> e.user >= user
    BY <1>2, <1>3
<1>5. \A e \in from : e \in Entries /\ e.user \in Nat /\ e.user >= user
    BY <1>2, UserOrder
<1>6. \A e \in from : \A f \in Entries : EntryLess(e, f) => f \in from
    <2> SUFFICES ASSUME NEW e \in from, NEW f \in Entries, EntryLess(e, f), EntryLess(f, target) PROVE FALSE
        OBVIOUS
    <2>1. /\ e \in Entries /\ ~EntryLess(e, target)
          /\ e.user \in Nat /\ e.seq \in Nat /\ f.user \in Nat /\ f.seq \in Nat
        BY UserOrder
    <2> QED BY <1>2, <2>1, UserOrder
<1>7. \A e \in from : \A f \in Visible : e.user = f.user \/ EntryLess(e, f) => f \in from
    BY <1>3, <1>4, <1>5, <1>6
<1>8. /\ Placed(kForward, m)
      /\ MergeValid(m) => MergeEntry(m) \in from
      /\ \A f \in Visible \cap from : MergeValid(m) /\ ~EntryLess(f, MergeEntry(m))
    <2>1. m = Find(kForward, SoughtIn(kForward, d.merge, from))
        BY <1>1, SeeksAre
    <2>2. from \in SUBSET Entries
        OBVIOUS
    <2> HIDE DEF m, from
    <2> QED BY <1>1, <1>6, <2>1, <2>2, ForwardIs, Seeks
<1>9. DBSeek(d, user) = DBSeekForward(d, m)
    BY DEF DBSeek
<1> HIDE DEF m, from
<1>10. GoodIterator(DBSeek(d, user)) /\ IsAt(DBSeek(d, user), Least(View \cap from))
    BY <1>7, <1>8, <1>9, SeekForwardShows
<1>11. View \cap from = {e \in View : e.user >= user}
    BY <1>4, ViewHasNewest
<1> QED BY <1>10, <1>11

LEMMA SeekToLastShows ==
    ASSUME EntriesOK, dbIter.sequence \in Int, NEW d \in IterTypes
    PROVE  GoodIterator(DBSeekToLast(d)) /\ IsAt(DBSeekToLast(d), Greatest(View))
<1> DEFINE m == MergeSeekToLast(d.merge)
           at == [d EXCEPT !.direction = kReverse, !.value = Nothing, !.merge = m]
<1>1. /\ Placed(kReverse, m)
      /\ \A f \in Visible \cap Entries : MergeValid(m) /\ ~EntryLess(MergeEntry(m), f)
    <2>1. m = Find(kReverse, SoughtIn(kReverse, d.merge, Entries)) /\ d.merge \in Merges
        BY IterRecord, SeeksAre
    <2> HIDE DEF m
    <2> QED BY <2>1, ForwardIs, Seeks
<1>2. \A f \in Visible : f \in Entries
    BY EntriesTyped
<1>3. m \in Merges
    BY <1>1, PlacedStands, ForwardIs
<1>4. DBSeekToLast(d) = FindPrevUserEntry(at)
    BY DEF DBSeekToLast
<1> HIDE DEF m
<1>5. at \in IterTypes /\ at.merge = m /\ at.direction = kReverse
    BY <1>3, ForwardIs DEF IterTypes
<1> HIDE DEF at
<1>6. IsZone(Visible)
    BY DEF IsZone
<1>7. PrevInv([merge |-> at.merge, newest |-> Nothing], Visible)
    BY <1>1, <1>2, <1>3, <1>5 DEF PrevInv
<1>8. View \cap Visible = View
    BY ViewHasNewest
<1> QED BY <1>4, <1>5, <1>6, <1>7, <1>8, PrevLoop

LEMMA ViewTyped ==
    ASSUME EntriesOK
    PROVE  /\ \A v \in View : v \in Visible /\ v \in Entries /\ v.user \in Nat
           /\ \A f \in Visible : f \in Entries /\ f.user \in Nat
BY EntriesTyped, UserOrder, ViewHasNewest

LEMMA NextForwardShows ==
    ASSUME EntriesOK, dbIter.sequence \in Int, NEW d \in IterTypes, ShowsForward(d), d.direction = kForward
    PROVE  /\ GoodIterator(DBNext(d))
           /\ IsAt(DBNext(d), Least({e \in View : e.user > MergeEntry(d.merge).user}))
<1> DEFINE m == d.merge
           here == MergeEntry(m)
           shown == {e \in View : e.user > here.user}
           s == [merge |-> m, skipping |-> TRUE, skip |-> here.user]
<1>1. Placed(kForward, m) /\ MergeValid(m) /\ here \in Entries /\ here.user \in Nat /\ m \in Merges
    BY PlacedStands, ForwardIs, UserOrder DEF ShowsForward
<1>2. s \in [merge : Merges, skipping : BOOLEAN, skip : Nat]
    BY <1>1
<1>3. DBNext(d) = FindNextUserEntry(d, TRUE, here.user)
    BY DEF DBNext
<1> HIDE DEF here, m
<1>4. s.merge = m /\ s.skipping = TRUE /\ s.skip = here.user /\ MergeEntry(s.merge) = here
    BY DEF here
<1>5. Rest(s) = shown
    <2>1. ASSUME NEW v \in View PROVE v.user > here.user <=> ~EntryLess(v, here) /\ ~(v.user <= here.user)
        BY <1>1, ViewTyped, UserOrder
    <2> QED BY <1>4, <2>1 DEF Rest
<1>6. ASSUME NEW f \in Visible, NEW g \in Visible, EntryLess(f, here), f.user = g.user
      PROVE  g.user <= here.user
    BY <1>1, <1>6, ViewTyped, UserOrder
<1>7. \A f \in Visible : EntryLess(f, here) \/ here.user <= f.user
    BY <1>1, ViewTyped, UserOrder
<1>8. NextInv(s, shown)
    <2> HIDE DEF s, shown
    <2> QED BY <1>1, <1>2, <1>4, <1>5, <1>6, <1>7 DEF NextInv
<1> HIDE DEF shown
<1>9. GoodIterator(DBNext(d)) /\ IsAt(DBNext(d), Least(shown))
    BY <1>3, <1>8, NextLoop DEF m
<1> QED BY <1>9 DEF shown, here, m

LEMMA NextReverseShows ==
    ASSUME EntriesOK, dbIter.sequence \in Int, NEW d \in IterTypes, ShowsReverse(d), d.direction = kReverse
    PROVE  /\ GoodIterator(DBNext(d))
           /\ IsAt(DBNext(d), Least({e \in View : e.user > d.value.user}))
<1> DEFINE m == d.merge
           here == MergeEntry(m)
           n == IF MergeValid(m) THEN MergeNext(m) ELSE MergeSeekToFirst(m)
           next == MergeEntry(n)
           shown == {e \in View : e.user > d.value.user}
           s == [merge |-> n, skipping |-> TRUE, skip |-> d.saved]
           turned == [d EXCEPT !.direction = kForward, !.merge = n]
<1>1. /\ Placed(kReverse, m) /\ m \in Merges /\ (MergeValid(m) => here \in Entries /\ here.user \in Nat)
      /\ d.saved = d.value.user /\ d.saved \in Nat /\ (MergeValid(m) => here.user < d.saved)
      /\ \A f \in Visible : (MergeValid(m) /\ ~EntryLess(here, f)) \/ f.user >= d.saved
    BY PlacedStands, ForwardIs, UserOrder, IterRecord DEF ShowsReverse
\* The merge goes to where the entries of the user key begin.
<1>2. /\ Placed(kForward, n)
      /\ MergeValid(n) => next \in Entries
      /\ \A f \in Visible : ~MergeValid(m) \/ EntryLess(here, f) => MergeValid(n) /\ ~EntryLess(f, next)
      /\ MergeValid(n) /\ MergeValid(m) => EntryLess(here, next)
    <2>1. CASE MergeValid(m)
        <3>1. Stands(m) /\ m.direction # kForward
            BY <1>1, PlacedStands, ForwardIs, DirectionsDiffer DEF Placed
        <3>2. n = Move(kForward, m)
            BY <2>1 DEF Move
        <3> HIDE DEF n
        <3> QED BY <1>1, <2>1, <3>1, <3>2, ForwardIs, MovesOn
    <2>2. CASE ~MergeValid(m)
        <3>1. n = Find(kForward, SoughtIn(kForward, m, Entries))
            BY <1>1, <2>2, SeeksAre
        <3> HIDE DEF n
        <3>2. /\ Placed(kForward, n) /\ (MergeValid(n) => next \in Entries)
              /\ \A f \in Visible \cap Entries : MergeValid(n) /\ ~EntryLess(f, next)
            BY <1>1, <3>1, ForwardIs, Seeks
        <3> QED BY <2>2, <3>2, ViewTyped
    <2> QED BY <2>1, <2>2
<1>3. n \in Merges
    BY <1>2, PlacedStands, ForwardIs
<1>4. DBNext(d) = IF MergeValid(turned.merge) THEN FindNextUserEntry(turned, TRUE, d.saved) ELSE Ended(turned)
    BY DirectionsDiffer, Zenon DEF DBNext
<1> HIDE DEF n, here, m
<1>5. turned \in IterTypes /\ turned.merge = n /\ turned.direction = kForward
    BY <1>3, ForwardIs DEF IterTypes
<1> HIDE DEF turned
<1>6. \A f \in Visible : f.user >= d.saved => MergeValid(n) /\ ~EntryLess(f, next)
    <2> SUFFICES ASSUME NEW f \in Visible, f.user >= d.saved PROVE ~MergeValid(m) \/ EntryLess(here, f)
        BY <1>2
    <2> QED BY <1>1, ViewTyped, UserOrder
<1>7. CASE ~MergeValid(n)
    <2>1. shown = {}
        <3> SUFFICES ASSUME NEW v \in View, v.user > d.value.user PROVE FALSE
            OBVIOUS
        <3>1. v \in Visible /\ v.user >= d.saved
            BY <1>1, ViewTyped
        <3> QED BY <1>6, <1>7, <3>1
    <2>2. DBNext(d) = Ended(turned)
        BY <1>4, <1>5, <1>7
    <2>3. Ended(turned) \in IterTypes /\ Ended(turned).valid = FALSE
        BY <1>5 DEF IterTypes, Ended
    <2> HIDE DEF shown
    <2>4. GoodIterator(DBNext(d)) /\ IsAt(DBNext(d), Least(shown))
        BY <2>1, <2>2, <2>3 DEF GoodIterator, IsAt, Least
    <2> QED BY <2>4 DEF shown
<1>8. CASE MergeValid(n)
    <2>1. next \in Entries
        BY <1>2, <1>8
    <2> HIDE DEF next
    <2>2. s \in [merge : Merges, skipping : BOOLEAN, skip : Nat]
        BY <1>1, <1>3
    <2>3. s.merge = n /\ s.skipping = TRUE /\ s.skip = d.saved /\ MergeEntry(s.merge) = next
        BY DEF next
    <2>4. Rest(s) = shown
        <3>1. ASSUME NEW v \in View
              PROVE  v.user > d.value.user <=> ~EntryLess(v, next) /\ ~(v.user <= d.saved)
            <4>1. v \in Visible /\ v.user \in Nat
                BY ViewTyped
            <4> QED BY <1>1, <1>6, <4>1
        <3> QED BY <2>3, <3>1 DEF Rest
    <2>5. ASSUME NEW f \in Visible, EntryLess(f, next) PROVE f.user <= d.saved
        <3>1. f.user \in Nat /\ ~(f.user >= d.saved)
            BY <1>6, <2>5, ViewTyped
        <3> QED BY <1>1, <3>1
    <2>6. ASSUME NEW f \in Visible, ~EntryLess(f, next) PROVE d.saved <= f.user
        <3>1. f \in Entries /\ f.user \in Nat
            BY ViewTyped
        <3>2. MergeValid(m) => EntryLess(here, f)
            BY <1>1, <1>2, <1>8, <2>1, <2>6, <3>1, LessOrder
        <3>3. ~(MergeValid(m) /\ ~EntryLess(here, f))
            BY <3>2
        <3> QED BY <1>1, <3>1, <3>3
    <2>7. NextInv(s, shown)
        <3> HIDE DEF s, shown
        <3> QED BY <1>2, <1>8, <2>2, <2>3, <2>4, <2>5, <2>6 DEF NextInv
    <2> HIDE DEF shown
    <2>8. GoodIterator(DBNext(d)) /\ IsAt(DBNext(d), Least(shown))
        BY <1>4, <1>5, <1>8, <2>7, NextLoop
    <2> QED BY <2>8 DEF shown
<1> QED BY <1>7, <1>8

LEMMA PrevReverseShows ==
    ASSUME EntriesOK, dbIter.sequence \in Int, NEW d \in IterTypes, ShowsReverse(d), d.direction = kReverse
    PROVE  /\ GoodIterator(DBPrev(d))
           /\ IsAt(DBPrev(d), Greatest({e \in View : e.user < d.value.user}))
<1> DEFINE m == d.merge
           here == MergeEntry(m)
           zone == {f \in Visible : f.user < d.saved}
           s == [merge |-> m, newest |-> Nothing]
<1>1. /\ Placed(kReverse, m) /\ m \in Merges /\ (MergeValid(m) => here \in Entries /\ here.user \in Nat)
      /\ d.saved = d.value.user /\ d.saved \in Nat /\ (MergeValid(m) => here.user < d.saved)
      /\ \A f \in Visible : (MergeValid(m) /\ ~EntryLess(here, f)) \/ f.user >= d.saved
    BY PlacedStands, ForwardIs, UserOrder, IterRecord DEF ShowsReverse
<1>2. DBPrev(d) = FindPrevUserEntry(d)
    BY Zenon DEF DBPrev
<1>3. IsZone(zone)
    <2> SUFFICES ASSUME NEW f \in zone, NEW g \in Visible, g.user <= f.user PROVE g.user < d.saved
        BY DEF IsZone
    <2> QED BY <1>1, ViewTyped
<1> HIDE DEF here, m
<1>4. s \in [merge : Merges, newest : Entries \cup {Nothing}] /\ s.merge = m /\ s.newest = Nothing
      /\ MergeEntry(s.merge) = here
    BY <1>1 DEF here
<1>5. ASSUME MergeValid(m), NEW f \in Visible, ~EntryLess(here, f) PROVE f \in zone
    <2>1. f.user < d.saved
        BY <1>1, <1>5, ViewTyped, UserOrder
    <2> QED BY <2>1
<1>6. \A f \in zone : MergeValid(m) /\ ~EntryLess(here, f)
    <2> SUFFICES ASSUME NEW f \in zone PROVE ~(f.user >= d.saved) /\ f \in Visible
        BY <1>1
    <2> QED BY <1>1, ViewTyped
<1>7. PrevInv(s, zone)
    <2> HIDE DEF s, zone
    <2> QED BY <1>1, <1>4, <1>5, <1>6 DEF PrevInv
<1>8. View \cap zone = {e \in View : e.user < d.value.user}
    BY <1>1, ViewTyped
<1>9. s = [merge |-> d.merge, newest |-> Nothing]
    BY DEF m
<1> HIDE DEF zone, s
<1> QED BY <1>2, <1>3, <1>7, <1>8, <1>9, PrevLoop

LEMMA PrevForwardShows ==
    ASSUME EntriesOK, dbIter.sequence \in Int, NEW d \in IterTypes, ShowsForward(d), d.direction = kForward
    PROVE  /\ GoodIterator(DBPrev(d))
           /\ IsAt(DBPrev(d), Greatest({e \in View : e.user < MergeEntry(d.merge).user}))
<1> DEFINE user == MergeEntry(d.merge).user
           m == BackPast(d.merge, user)
           here == MergeEntry(m)
           back == [d EXCEPT !.merge = BackPast(@, user), !.saved = user]
           turned == [back EXCEPT !.direction = kReverse]
           zone == {f \in Visible : f.user < user}
           s == [merge |-> m, newest |-> Nothing]
<1>1. user \in Nat /\ d.merge \in Merges
    BY PlacedStands, ForwardIs, UserOrder DEF ShowsForward
<1>2. /\ Placed(kReverse, m)
      /\ \A f \in Visible : f.user < user => MergeValid(m) /\ ~EntryLess(here, f)
      /\ ~MergeValid(m) \/ here.user < user
    BY BackLoop DEF ShowsForward, BackInv, BackStops
<1>3. m \in Merges /\ (MergeValid(m) => here \in Entries)
    BY <1>2, PlacedStands, ForwardIs
<1>4. DBPrev(d) = IF MergeValid(back.merge) THEN FindPrevUserEntry(turned)
                  ELSE [Ended(back) EXCEPT !.value = Nothing]
    BY DirectionsDiffer, Zenon DEF DBPrev
<1>5. back = [d EXCEPT !.merge = m, !.saved = user]
    BY <1>1 DEF IterTypes
<1> HIDE DEF user, m, here, back
<1>6. back \in IterTypes /\ back.merge = m
    BY <1>1, <1>3, <1>5 DEF IterTypes
<1>7. View \cap zone = {e \in View : e.user < user}
    BY ViewTyped
<1>8. CASE ~MergeValid(m)
    <2>1. View \cap zone = {}
        BY <1>2, <1>8, ViewTyped
    <2> DEFINE n == [Ended(back) EXCEPT !.value = Nothing]
    <2>2. DBPrev(d) = n
        BY <1>4, <1>6, <1>8
    <2>3. n \in IterTypes /\ n.valid = FALSE
        BY <1>6 DEF IterTypes, Ended
    <2> HIDE DEF n
    <2>4. Greatest({e \in View : e.user < user}) = Nothing
        BY <1>7, <2>1 DEF Greatest
    <2> QED BY <2>2, <2>3, <2>4 DEF GoodIterator, IsAt, user
<1>9. CASE MergeValid(m)
    <2>1. turned \in IterTypes /\ turned.merge = m /\ turned.direction = kReverse
        BY <1>6, ForwardIs DEF IterTypes
    <2>2. DBPrev(d) = FindPrevUserEntry(turned)
        BY <1>4, <1>6, <1>9
    <2> HIDE DEF turned
    <2>3. IsZone(zone)
        <3> SUFFICES ASSUME NEW f \in zone, NEW g \in Visible, g.user <= f.user PROVE g.user < user
            BY DEF IsZone
        <3> QED BY <1>1, ViewTyped
    <2>4. s \in [merge : Merges, newest : Entries \cup {Nothing}] /\ s.merge = m /\ s.newest = Nothing
          /\ MergeEntry(s.merge) = here
        BY <1>3 DEF here
    <2>5. ASSUME NEW f \in Visible, ~EntryLess(here, f) PROVE f \in zone
        <3>1. f.user < user
            BY <1>1, <1>2, <1>3, <1>9, <2>5, ViewTyped, UserOrder
        <3> QED BY <3>1
    <2>6. \A f \in zone : MergeValid(m) /\ ~EntryLess(here, f)
        BY <1>2
    <2>7. PrevInv(s, zone)
        <3> HIDE DEF s, zone
        <3> QED BY <1>2, <2>4, <2>5, <2>6 DEF PrevInv
    <2>8. s = [merge |-> turned.merge, newest |-> Nothing]
        BY <2>1
    <2> HIDE DEF zone, s
    <2>9. GoodIterator(DBPrev(d)) /\ IsAt(DBPrev(d), Greatest(View \cap zone))
        BY <2>1, <2>2, <2>3, <2>7, <2>8, PrevLoop
    <2> QED BY <1>7, <2>9 DEF user
<1> QED BY <1>8, <1>9

-----------------------------------------------------------------------------
(* The invariant.                                                            *)
LEMMA GoodIteratorShows ==
    ASSUME IterInv
    PROVE  /\ IteratorShowsView
           /\ dbIter.valid => GoodIterator(DBNext(dbIter)) /\ GoodIterator(DBPrev(dbIter))
<1>1. EntriesOK /\ dbIter.sequence \in Int /\ dbIter \in IterTypes /\ GoodIterator(dbIter)
    BY DEF IterInv, GoodIterator
<1>2. /\ IsAt(DBSeekToFirst(dbIter), Least(View)) /\ IsAt(DBSeekToLast(dbIter), Greatest(View))
      /\ \A user \in IterUserKey : IsAt(DBSeek(dbIter, user), Least({e \in View : e.user >= user}))
    <2>1. IsAt(DBSeekToFirst(dbIter), Least(View))
        BY <1>1, SeekToFirstShows
    <2>2. IsAt(DBSeekToLast(dbIter), Greatest(View))
        BY <1>1, SeekToLastShows
    <2>3. ASSUME NEW user \in IterUserKey
          PROVE  IsAt(DBSeek(dbIter, user), Least({e \in View : e.user >= user}))
        <3>1. user \in Nat
            BY IterBounds
        <3> QED BY <1>1, <3>1, SeekShows
    <2> QED BY <2>1, <2>2, <2>3
<1>3. ASSUME dbIter.valid
      PROVE  /\ Shown(dbIter) \in View
             /\ IsAt(DBNext(dbIter), Least({e \in View : e.user > Shown(dbIter).user}))
             /\ IsAt(DBPrev(dbIter), Greatest({e \in View : e.user < Shown(dbIter).user}))
             /\ GoodIterator(DBNext(dbIter)) /\ GoodIterator(DBPrev(dbIter))
    <2>1. CASE dbIter.direction = kForward
        <3>1. ShowsForward(dbIter) /\ Shown(dbIter) = MergeEntry(dbIter.merge)
            BY <1>1, <1>3, <2>1 DEF GoodIterator, Shown
        <3>2. Shown(dbIter) \in View
            BY <3>1 DEF ShowsForward
        <3> QED BY <1>1, <2>1, <3>1, <3>2, NextForwardShows, PrevForwardShows
    <2>2. CASE dbIter.direction = kReverse
        <3>1. ShowsReverse(dbIter) /\ Shown(dbIter) = dbIter.value
            BY <1>1, <1>3, <2>2, DirectionsDiffer DEF GoodIterator, Shown
        <3>2. Shown(dbIter) \in View
            BY <3>1 DEF ShowsReverse
        <3> QED BY <1>1, <2>2, <3>1, <3>2, NextReverseShows, PrevReverseShows
    <2> QED BY <1>1, <2>1, <2>2, IterRecord DEF Direction
<1> QED BY <1>2, <1>3 DEF IteratorShowsView

\* A record of larger sets.
LEMMA StartTyped ==
    ASSUME NEW M, NEW D, NEW E, NEW start \in M, NEW dir \in D, NEW none, NEW sequence, NEW d,
           d \in [merge : {start}, direction : {dir}, valid : {FALSE}, saved : {0},
                  value : {none}, sequence : {sequence}]
    PROVE  d \in [merge : M, direction : D, valid : BOOLEAN, saved : Nat,
                  value : E \cup {none}, sequence : {sequence}]
<1>1. d = [merge |-> start, direction |-> dir, valid |-> FALSE, saved |-> 0, value |-> none, sequence |-> sequence]
    OBVIOUS
<1>2. 0 \in Nat /\ FALSE \in BOOLEAN /\ none \in E \cup {none} /\ sequence \in {sequence}
    OBVIOUS
<1> QED BY <1>1, <1>2

LEMMA IterStart == ASSUME DBIterInit PROVE IterInv
<1>1. PICK user \in [1..IterEntries -> IterUserKey], type \in [1..IterEntries -> {"value", "deletion"}],
           older \in 0..IterEntries :
         child = <<{Entry(user[s], s, type[s]) : s \in (older + 1)..IterEntries},
                   {Entry(user[s], s, type[s]) : s \in 1..older}>>
    <2> DEFINE These(user, type, seqs) == {Entry(user[s], s, type[s]) : s \in seqs}
    <2>1. \E user \in [1..IterEntries -> IterUserKey], type \in [1..IterEntries -> {"value", "deletion"}],
             older \in 0..IterEntries :
             child = <<These(user, type, (older + 1)..IterEntries), These(user, type, 1..older)>>
        BY Zenon DEF DBIterInit
    <2> QED BY <2>1
<1> DEFINE entry(s) == Entry(user[s], s, type[s])
           S == 1..IterEntries
           f == [s \in S |-> entry(s)]
<1>2. /\ DOMAIN child = Child
      /\ child[1] = {entry(s) : s \in (older + 1)..IterEntries} /\ child[2] = {entry(s) : s \in 1..older}
    BY <1>1 DEF Child
<1>3. \A s \in S : entry(s) \in EntryType /\ entry(s).seq = s /\ entry(s).user \in IterUserKey
    <2> SUFFICES ASSUME NEW s \in S
                 PROVE  entry(s) \in EntryType /\ entry(s).seq = s /\ entry(s).user \in IterUserKey
        OBVIOUS
    <2>1. s \in Nat \ {0}
        BY IterBounds
    <2>2. user[s] \in IterUserKey /\ type[s] \in {"value", "deletion"}
        OBVIOUS
    <2>3. user[s] \in Nat \ {0}
        BY <2>2, IterBounds
    <2> HIDE DEF S
    <2> QED BY <2>1, <2>2, <2>3 DEF Entry, EntryType
<1> HIDE DEF entry
<1>4. (older + 1)..IterEntries \subseteq S /\ 1..older \subseteq S /\ S = ((older + 1)..IterEntries) \cup (1..older)
      /\ \A s \in (older + 1)..IterEntries : s \notin 1..older
    BY IterBounds
<1>5. Entries = {entry(s) : s \in S}
    <2>1. Entries = child[1] \cup child[2]
        BY <1>2 DEF Entries, Child
    <2> HIDE DEF S
    <2> QED BY <1>2, <1>4, <2>1
<1>6. IsFiniteSet(S) /\ Cardinality(S) = IterEntries
    BY IterBounds, FS_Interval
<1>7. IsFiniteSet(Entries) /\ Cardinality(Entries) = IterEntries
    <2>1. f \in Bijection(S, Entries)
        <3>1. f \in [S -> Entries] /\ \A e \in Entries : \E s \in S : f[s] = e
            BY <1>5
        <3>2. \A s, t \in S : f[s] = f[t] => s = t
            BY <1>3
        <3> HIDE DEF f, S
        <3> QED BY <3>1, <3>2, Fun_IsBij
    <2>2. ExistsBijection(S, Entries)
        BY <2>1, Fun_ExistsBij
    <2> QED BY <1>6, <2>2, FS_Bijection
<1>8. child \in [Child -> SUBSET EntryType]
    <2>1. \A i \in Child : child[i] \subseteq EntryType
        BY <1>2, <1>3, <1>4 DEF Child
    <2>2. child = [i \in Child |-> child[i]]
        BY <1>1 DEF Child
    <2> QED BY <2>1, <2>2
<1>9. \A e \in Entries : e.user \in IterUserKey /\ e.seq <= Cardinality(Entries)
    BY <1>3, <1>5, <1>7, IterBounds
<1>10. \A i, j \in Child : \A e \in child[i], g \in child[j] : e.seq = g.seq => i = j /\ e = g
    BY <1>2, <1>3, <1>4 DEF Child
<1>11. EntriesOK
    BY <1>7, <1>8, <1>9, <1>10, IterBounds DEF EntriesOK
<1> DEFINE Start == [at |-> [i \in 1..2 |-> Nothing], current |-> 0, direction |-> kForward]
<1>12. dbIter \in [merge : {Start}, direction : {kForward}, valid : {FALSE}, saved : {0},
                   value : {Nothing}, sequence : (IterEntries - 1)..IterEntries]
    BY DEF DBIterInit
<1>13. Start \in Merges
    BY ForwardIs DEF Merges, Child
<1> HIDE DEF Start
<1>14. GoodIterator(dbIter)
    <2>1. dbIter \in IterTypes
        <3>1. kForward \in Direction
            BY ForwardIs
        <3> DEFINE sequence == dbIter.sequence
        <3>2. dbIter \in [merge : {Start}, direction : {kForward}, valid : {FALSE}, saved : {0},
                          value : {Nothing}, sequence : {sequence}]
            BY <1>12
        <3> HIDE DEF sequence
        <3>3. dbIter \in [merge : Merges, direction : Direction, valid : BOOLEAN, saved : Nat,
                          value : Entries \cup {Nothing}, sequence : {sequence}]
            BY <1>13, <3>1, <3>2, StartTyped
        <3> QED BY <3>3 DEF IterTypes, sequence
    <2>2. dbIter.valid = FALSE
        BY <1>12
    <2> QED BY <2>1, <2>2 DEF GoodIterator
<1>15. dbIter.sequence \in Int /\ dbIter.sequence <= IterEntries
    BY <1>12, IterBounds
<1> QED BY <1>11, <1>14, <1>15 DEF IterInv

\* What the iterator sees stays the same: so does the view.
LEMMA SameView ==
    ASSUME Visible' = Visible, dbIter'.sequence = dbIter.sequence
    PROVE  View' = View
<1> DEFINE seen(user) == {e \in Entries : e.user = user /\ e.seq <= dbIter.sequence}
           seenThen(user) == {e \in Entries' : e.user = user /\ e.seq <= dbIter'.sequence}
<1>1. \A user : seen(user) = {e \in Visible : e.user = user}
    BY DEF Visible
<1>2. \A user : seenThen(user) = {e \in Visible' : e.user = user}
    BY DEF Visible
<1>3. \A user : seenThen(user) = seen(user)
    BY <1>1, <1>2
<1>4. \A user : Newest(user) = IF seen(user) = {} THEN Nothing
                               ELSE CHOOSE e \in seen(user) : \A f \in seen(user) : f.seq <= e.seq
    BY DEF Newest
<1>5. View' = {e \in {IF seenThen(user) = {} THEN Nothing
                      ELSE CHOOSE e \in seenThen(user) : \A f \in seenThen(user) : f.seq <= e.seq :
                      user \in IterUserKey} : e.type = "value"}
    BY DEF View, Newest
<1> HIDE DEF seen, seenThen
<1>6. View = {e \in {IF seen(user) = {} THEN Nothing
                     ELSE CHOOSE e \in seen(user) : \A f \in seen(user) : f.seq <= e.seq :
                     user \in IterUserKey} : e.type = "value"}
    BY <1>4 DEF View
<1> QED BY <1>3, <1>5, <1>6

\* Where the iterator has come to is a good place also among more entries that it does
\* not see.
LEMMA StaysGood ==
    ASSUME Visible' = Visible, dbIter'.sequence = dbIter.sequence, Entries \subseteq Entries',
           \A i \in Child : child[i] \subseteq child'[i],
           \A i \in Child : child'[i] \cap Visible \subseteq child[i],
           GoodIterator(dbIter')
    PROVE  GoodIterator(dbIter)'
<1>1. View' = View
    BY SameView
<1>2. Merges \subseteq Merges'
    BY DEF Merges
<1>3. IterTypes \subseteq IterTypes'
    BY <1>2 DEF IterTypes
<1>4. ASSUME NEW dir \in Direction, Placed(dir, dbIter'.merge)
      PROVE  Placed(dir, dbIter.merge)'
    <2> DEFINE m == dbIter'.merge
    <2>1. \A i \in Child : m.at[i] = Nothing \/ m.at[i] \in child'[i]
        BY <1>4 DEF Placed
    <2>2. m \in Merges' /\ m.direction = dir /\ (~MergeValid(m) => \A i \in Child : m.at[i] = Nothing)
        BY <1>2, <1>4 DEF Placed
    <2>3. ASSUME MergeValid(m)
          PROVE  /\ MergeEntry(m) # Nothing
                 /\ \A i \in Child : m.at[i] = Nothing \/ i = m.current \/ Earlier(dir, MergeEntry(m), m.at[i])
                 /\ \A i \in Child : \A f \in child'[i] \cap Visible' :
                       Earlier(dir, f, MergeEntry(m)) \/ (m.at[i] # Nothing /\ ~Earlier(dir, f, m.at[i]))
        BY <1>4, <2>3 DEF Placed
    <2> QED BY <2>1, <2>2, <2>3 DEF Placed, MergeValid, MergeEntry, Earlier, EntryLess
<1>5. ShowsForward(dbIter') => ShowsForward(dbIter)'
    BY <1>1, <1>4, ForwardIs DEF ShowsForward, MergeValid, MergeEntry
<1>6. ShowsReverse(dbIter') => ShowsReverse(dbIter)'
    BY <1>1, <1>4, ForwardIs DEF ShowsReverse, MergeValid, MergeEntry, EntryLess
<1> QED BY <1>3, <1>5, <1>6 DEF GoodIterator

LEMMA MoveKeeps == ASSUME IterInv, MoveDBIter PROVE IterInv'
<1>1. EntriesOK /\ dbIter.sequence \in Int /\ dbIter \in IterTypes
    BY DEF IterInv, GoodIterator
<1>2. \A user \in IterUserKey : user \in Nat
    BY IterBounds
<1>3. GoodIterator(dbIter')
    <2>1. CASE dbIter' = DBSeekToFirst(dbIter)
        BY <1>1, <2>1, SeekToFirstShows
    <2>2. CASE dbIter' = DBSeekToLast(dbIter)
        BY <1>1, <2>2, SeekToLastShows
    <2>3. CASE \E user \in IterUserKey : dbIter' = DBSeek(dbIter, user)
        BY <1>1, <1>2, <2>3, SeekShows
    <2>4. CASE dbIter.valid /\ dbIter' \in {DBNext(dbIter), DBPrev(dbIter)}
        BY <2>4, GoodIteratorShows
    <2> QED BY <2>1, <2>2, <2>3, <2>4 DEF MoveDBIter
<1>4. child' = child /\ dbIter'.sequence = dbIter.sequence
    BY <1>3, IterRecord DEF MoveDBIter, GoodIterator
<1>5. Entries' = Entries
    BY <1>4 DEF Entries
<1>6. Visible' = Visible
    BY <1>4, <1>5 DEF Visible
<1>7. EntriesOK'
    BY <1>1, <1>4, <1>5 DEF EntriesOK
<1>8. GoodIterator(dbIter)'
    BY <1>3, <1>4, <1>5, <1>6, StaysGood
<1> QED BY <1>1, <1>4, <1>7, <1>8 DEF IterInv

\* What is added to the memtable is newer than what the iterator sees.
LEMMA GrowthKeeps == ASSUME IterInv, MemTableGrows PROVE IterInv'
<1>1. EntriesOK /\ GoodIterator(dbIter) /\ dbIter' = dbIter
      /\ dbIter.sequence \in Int /\ dbIter.sequence <= IterEntries
    BY DEF IterInv, MemTableGrows
<1> DEFINE n == Cardinality(Entries) + 1
<1>2. PICK user \in IterUserKey, type \in {"value", "deletion"} :
         child' = [child EXCEPT ![1] = @ \cup {Entry(user, n, type)}]
    BY DEF MemTableGrows
<1> DEFINE new == Entry(user, n, type)
<1>3. Cardinality(Entries) \in Nat
    BY <1>1, FS_CardinalityType DEF EntriesOK
<1>4. new \in EntryType /\ new.seq = n /\ new.user = user
    <2>1. n \in Nat \ {0} /\ user \in Nat \ {0}
        BY <1>3, IterBounds
    <2> QED BY <2>1 DEF Entry, EntryType
<1>5. /\ DOMAIN child' = Child /\ child'[1] = child[1] \cup {new} /\ child'[2] = child[2]
      /\ child \in [Child -> SUBSET EntryType]
    BY <1>1, <1>2 DEF EntriesOK, Child
<1> HIDE DEF new
<1>6. Entries = child[1] \cup child[2]
    BY <1>5 DEF Entries, Child
<1>7. Entries' = Entries \cup {new}
    <2>1. Entries' = child'[1] \cup child'[2]
        BY <1>5 DEF Entries, Child
    <2> QED BY <1>5, <1>6, <2>1
<1>8. \A e \in Entries : e \in EntryType /\ e.seq <= Cardinality(Entries) /\ e.user \in IterUserKey /\ e.seq \in Nat
    BY <1>1, EntriesTyped DEF EntriesOK, EntryType
<1>9. new \notin Entries /\ \A e \in Entries : e.seq # new.seq
    BY <1>3, <1>4, <1>8
<1>10. IsFiniteSet(Entries') /\ Cardinality(Entries') = n
    BY <1>1, <1>7, <1>9, FS_AddElement DEF EntriesOK
<1>11. EntriesOK'
    <2>1. child' \in [Child -> SUBSET EntryType]
        <3>1. child'[1] \in SUBSET EntryType /\ child'[2] \in SUBSET EntryType
            BY <1>4, <1>5 DEF Child
        <3>2. child' = [i \in Child |-> child'[i]]
            BY <1>2, <1>5 DEF Child
        <3> QED BY <3>1, <3>2 DEF Child
    <2>2. \A e \in Entries' : e.user \in IterUserKey /\ e.seq <= Cardinality(Entries')
        BY <1>3, <1>4, <1>7, <1>8, <1>10
    <2>3. \A i, j \in Child : \A e \in child'[i], f \in child'[j] : e.seq = f.seq => i = j /\ e = f
        <3>1. \A i, j \in Child : \A e \in child[i], f \in child[j] : e.seq = f.seq => i = j /\ e = f
            BY <1>1 DEF EntriesOK
        <3>2. \A i \in Child : \A e \in child'[i] : (e \in child[i] /\ e \in Entries) \/ (i = 1 /\ e = new)
            BY <1>5, <1>6 DEF Child
        <3> QED BY <1>9, <3>1, <3>2
    <2>4. IterEntries <= Cardinality(Entries')
        BY <1>1, <1>3, <1>10, IterBounds DEF EntriesOK
    <2> QED BY <1>10, <2>1, <2>2, <2>3, <2>4 DEF EntriesOK
<1>12. ~(new.seq <= dbIter.sequence)
    BY <1>1, <1>3, <1>4, IterBounds DEF EntriesOK
<1>13. Visible' = Visible /\ new \notin Visible
    BY <1>1, <1>7, <1>12 DEF Visible
<1>14. /\ \A i \in Child : child[i] \subseteq child'[i]
       /\ \A i \in Child : child'[i] \cap Visible \subseteq child[i]
    BY <1>5, <1>13 DEF Child
<1>15. GoodIterator(dbIter)'
    <2>1. GoodIterator(dbIter')
        BY <1>1
    <2> QED BY <1>1, <1>7, <1>13, <1>14, <2>1, StaysGood
<1> QED BY <1>1, <1>11, <1>15 DEF IterInv

LEMMA IterStep == ASSUME IterInv, [DBIterNext]_iterVars PROVE IterInv'
<1>1. CASE UNCHANGED iterVars
    <2>1. child' = child /\ dbIter' = dbIter
        BY <1>1 DEF iterVars
    <2>2. Entries' = Entries
        BY <2>1 DEF Entries
    <2>3. Visible' = Visible
        BY <2>1, <2>2 DEF Visible
    <2>4. GoodIterator(dbIter)'
        <3>1. GoodIterator(dbIter')
            BY <2>1 DEF IterInv
        <3> QED BY <2>1, <2>2, <2>3, <3>1, StaysGood
    <2>5. EntriesOK'
        BY <2>1, <2>2 DEF IterInv, EntriesOK
    <2> QED BY <2>1, <2>4, <2>5 DEF IterInv
<1> QED BY <1>1, MoveKeeps, GrowthKeeps DEF DBIterNext

\* DBIter (db_iter.cc) and MergingIterator (merger.cc), from wherever they were moved to and
\* whatever was added to the memtable since: each of SeekToFirst, SeekToLast, Seek, Next and
\* Prev goes to the neighbour in the view of the iterator's sequence number, for any number
\* of user keys, entries and later writes.
THEOREM IteratorIsExact == IterSpec => []IteratorShowsView
<1>1. DBIterInit => IterInv
    BY IterStart
<1>2. IterInv /\ [DBIterNext]_iterVars => IterInv'
    BY IterStep
<1>3. IterInv => IteratorShowsView
    BY GoodIteratorShows
<1> QED BY <1>1, <1>2, <1>3, PTL DEF IterSpec
=============================================================================

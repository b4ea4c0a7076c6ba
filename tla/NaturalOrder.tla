---------------------------- MODULE NaturalOrder -----------------------------
(***************************************************************************)
(* Least and greatest members, induction, ranks in finite sets of numbers, *)
(* folds and sums: the facts about data that the proofs need, from the     *)
(* well-foundedness of < on the naturals.                                  *)
(***************************************************************************)
EXTENDS Integers, FiniteSets, FiniteSetsExt, Functions, FunctionTheorems, FiniteSetTheorems,
        WellFoundedInduction, TLAPS

LEMMA LeastNumber ==
    ASSUME NEW S \in SUBSET Nat, S # {}
    PROVE  \E n \in S : \A m \in S : n <= m
<1> DEFINE R == OpToRel(<, Nat)
<1>1. IsWellFoundedOn(R, Nat)
    BY NatLessThanWellFounded
<1>2. \A m, n \in Nat : m < n => <<m, n>> \in R
    BY DEF OpToRel
<1> HIDE DEF R
<1>3. PICK n \in S : \A m \in S : <<m, n>> \notin R
    BY <1>1, WFMin
<1>4. \A m \in S : ~(m < n)
    BY <1>2, <1>3
<1> QED BY <1>4

\* Induction, for a set instead of a predicate.
LEMMA NumbersFromZero ==
    ASSUME NEW S, 0 \in S, \A n \in S \cap Nat : n + 1 \in S
    PROVE  Nat \subseteq S
<1> DEFINE T == Nat \ S
<1> SUFFICES ASSUME T # {} PROVE FALSE
    OBVIOUS
<1>1. T \in SUBSET Nat
    OBVIOUS
<1>2. PICK n \in T : \A m \in T : n <= m
    <2> HIDE DEF T
    <2> QED BY <1>1, LeastNumber
<1>3. n # 0 /\ n \in Nat
    BY <1>2
<1>4. n - 1 \in Nat /\ n - 1 \notin T
    BY <1>2, <1>3
<1> QED BY <1>2, <1>3, <1>4

LEMMA GreatestNumber ==
    ASSUME NEW b \in Nat, NEW S \in SUBSET 0..b, S # {}
    PROVE  \E n \in S : \A m \in S : m <= n
<1> DEFINE T == {b - n : n \in S}
<1>1. T \in SUBSET Nat /\ T # {}
    <2>1. \A n \in S : b - n \in Nat
        OBVIOUS
    <2>2. PICK n \in S : TRUE
        OBVIOUS
    <2>3. b - n \in T
        BY <2>2
    <2> QED BY <2>1, <2>3
<1>2. PICK k \in T : \A m \in T : k <= m
    <2> HIDE DEF T
    <2> QED BY <1>1, LeastNumber
<1>3. PICK n \in S : k = b - n
    BY <1>2
<1>4. ASSUME NEW m \in S PROVE m <= n
    <2>1. k <= b - m
        BY <1>2
    <2> QED BY <1>3, <2>1
<1> QED BY <1>4

\* The n-th smallest member of a set exists.
LEMMA RankedMember ==
    ASSUME NEW b \in Nat, NEW S \in SUBSET 0..b, NEW n \in 1..Cardinality(S)
    PROVE  \E i \in S : Cardinality({h \in S : h <= i}) = n
<1> DEFINE UpTo(i) == {h \in S : h <= i}
           Enough == {i \in S : Cardinality(UpTo(i)) >= n}
<1>1. IsFiniteSet(S)
    <2>1. IsFiniteSet(0..b)
        BY FS_Interval
    <2> QED BY <2>1, FS_Subset
<1>2. ASSUME NEW i \in S
      PROVE  IsFiniteSet(UpTo(i)) /\ Cardinality(UpTo(i)) \in Nat
    <2>1. UpTo(i) \in SUBSET S
        OBVIOUS
    <2> QED BY <1>1, <2>1, FS_Subset, FS_CardinalityType
<1>3. Enough # {}
    <2>1. S # {}
        BY FS_EmptySet
    <2>2. PICK i \in S : \A m \in S : m <= i
        BY <2>1, GreatestNumber
    <2>3. UpTo(i) = S
        BY <2>2
    <2>4. Cardinality(UpTo(i)) >= n
        <3>1. Cardinality(S) \in Nat
            BY <1>1, FS_CardinalityType
        <3>2. n <= Cardinality(S)
            BY <3>1
        <3> HIDE DEF UpTo
        <3> QED BY <2>3, <3>1, <3>2
    <2>5. i \in Enough
        BY <2>4
    <2> HIDE DEF Enough
    <2> QED BY <2>5
<1>4. PICK i \in Enough : \A m \in Enough : i <= m
    <2>1. Enough \in SUBSET Nat
        <3>1. Enough \subseteq S /\ S \subseteq Nat
            OBVIOUS
        <3> HIDE DEF Enough
        <3> QED BY <3>1
    <2> HIDE DEF Enough
    <2> QED BY <1>3, <2>1, LeastNumber
<1>5. i \in S /\ Cardinality(UpTo(i)) >= n
    OBVIOUS
<1>6. ASSUME NEW m \in S, m < i PROVE ~(Cardinality(UpTo(m)) >= n)
    <2>1. m \notin Enough
        <3>1. \A h \in Enough : h \in Nat
            OBVIOUS
        <3> HIDE DEF Enough
        <3> QED BY <1>4, <1>6, <3>1
    <2> QED BY <2>1
<1> HIDE DEF Enough
<1> DEFINE Below == {h \in S : h < i}
<1>7. Below = UpTo(i) \ {i} /\ i \in UpTo(i)
    <2>1. i \in Int /\ \A h \in S : h \in Int
        BY <1>5
    <2>2. \A h \in S : h < i <=> h <= i /\ h # i
        BY <2>1
    <2>3. i \in UpTo(i)
        BY <1>5, <2>1
    <2>4. Below = UpTo(i) \ {i}
        BY <2>2, Zenon
    <2> QED BY <2>3, <2>4
<1>8. Cardinality(Below) = Cardinality(UpTo(i)) - 1
    <2> HIDE DEF Below, UpTo
    <2> QED BY <1>2, <1>5, <1>7, FS_RemoveElement
<1>9. Cardinality(Below) < n
    <2>1. CASE Below = {}
        <3> HIDE DEF Below
        <3> QED BY <2>1, FS_EmptySet
    <2>2. CASE Below # {}
        <3>1. Below \in SUBSET (0..b)
            OBVIOUS
        <3>2. PICK p \in Below : \A m \in Below : m <= p
            <4> HIDE DEF Below
            <4> QED BY <2>2, <3>1, GreatestNumber
        <3>3. p \in S /\ p < i
            OBVIOUS
        <3>4. Below = UpTo(p)
            <4>1. i \in Int /\ \A h \in S : h \in Int
                BY <1>5
            <4>2. \A h \in S : h < i => h <= p
                BY <3>2
            <4>3. \A h \in S : h <= p => h < i
                BY <3>3, <4>1
            <4> QED BY <4>2, <4>3, Zenon
        <3> HIDE DEF Below, UpTo
        <3> QED BY <1>2, <1>6, <3>3, <3>4
    <2> QED BY <2>1, <2>2
<1>10. Cardinality(UpTo(i)) = n
    <2> HIDE DEF Below, UpTo
    <2> QED BY <1>2, <1>5, <1>8, <1>9
<1> QED BY <1>5, <1>10

-----------------------------------------------------------------------------
\* What a fold of step over 1..n goes through.
IsFold(f, n, S, base, step) ==
    /\ f \in [0..n -> S]
    /\ f[0] = base /\ \A i \in 1..n : f[i] = step[i][f[i - 1]]

\* A recursive function over 0..n exists when every step stays in a set.
LEMMA FoldExists ==
    ASSUME NEW n \in Nat, NEW S, NEW base \in S, NEW step, step \in [1..n -> [S -> S]]
    PROVE  \E f : IsFold(f, n, S, base, step)
<1> DEFINE Holds(f, k) == f[0] = base /\ \A i \in 1..k : f[i] = step[i][f[i - 1]]
           T == {k \in Nat : k <= n => \E f \in [0..k -> S] : Holds(f, k)}
<1>1. 0 \in T
    <2> DEFINE f == [i \in 0..0 |-> base]
    <2>1. f \in [0..0 -> S] /\ Holds(f, 0)
        OBVIOUS
    <2> QED BY <2>1
<1>2. ASSUME NEW k \in T \cap Nat PROVE k + 1 \in T
    <2> HIDE DEF Holds
    <2>0. k \in Nat /\ k + 1 \in Nat
        OBVIOUS
    <2> SUFFICES ASSUME k + 1 <= n PROVE \E f \in [0..(k + 1) -> S] : Holds(f, k + 1)
        BY <2>0
    <2> USE DEF Holds
    <2>1. PICK f \in [0..k -> S] : Holds(f, k)
        <3> HIDE DEF Holds
        <3> QED BY <2>0
    <2> DEFINE g == [i \in 0..(k + 1) |-> IF i <= k THEN f[i] ELSE step[k + 1][f[k]]]
    <2>2. k + 1 \in 1..n /\ k \in 0..k /\ step[k + 1][f[k]] \in S
        <3>1. k + 1 \in 1..n /\ k \in 0..k
            BY <2>0
        <3>2. f[k] \in S
            BY <3>1, <2>1
        <3>3. step[k + 1] \in [S -> S]
            BY <3>1
        <3> QED BY <3>1, <3>2, <3>3
    <2>3. g \in [0..(k + 1) -> S]
        BY <2>2
    <2>4. g[0] = base
        BY <2>1
    <2>5. ASSUME NEW i \in 1..(k + 1) PROVE g[i] = step[i][g[i - 1]]
        <3>1. i - 1 \in 0..k /\ g[i - 1] = f[i - 1]
            OBVIOUS
        <3>2. CASE i <= k
            <4>1. i \in 1..k /\ g[i] = f[i]
                BY <3>2
            <4>2. f[i] = step[i][f[i - 1]]
                BY <2>1, <4>1
            <4> HIDE DEF g
            <4> QED BY <3>1, <4>1, <4>2
        <3>3. CASE i = k + 1
            BY <3>1, <3>3
        <3> QED BY <3>2, <3>3
    <2> HIDE DEF g
    <2> QED BY <2>3, <2>4, <2>5
<1> HIDE DEF T
<1>3. Nat \subseteq T
    BY <1>1, <1>2, NumbersFromZero
<1>4. \E f \in [0..n -> S] : Holds(f, n)
    <2> HIDE DEF Holds
    <2> QED BY <1>3 DEF T
<1> QED BY <1>4 DEF IsFold

\* What every step hands on, all values of a recursive function have.
LEMMA FoldStays ==
    ASSUME NEW n \in Nat, NEW S, NEW f, f[0] \in S[0],
           \A i \in 1..n : f[i - 1] \in S[i - 1] => f[i] \in S[i]
    PROVE  \A i \in 0..n : f[i] \in S[i]
<1> DEFINE T == {k \in Nat : k <= n => f[k] \in S[k]}
<1>1. 0 \in T
    OBVIOUS
<1>2. ASSUME NEW k \in T \cap Nat PROVE k + 1 \in T
    <2>1. k + 1 \in Nat /\ (k + 1 <= n => k + 1 \in 1..n /\ k <= n /\ (k + 1) - 1 = k)
        BY <1>2
    <2>2. k + 1 <= n => f[k] \in S[k]
        BY <2>1
    <2> QED BY <2>1, <2>2
<1> HIDE DEF T
<1>3. Nat \subseteq T
    BY <1>1, <1>2, NumbersFromZero
<1> QED BY <1>3 DEF T

LEMMA OneLess ==
    ASSUME NEW s, IsFiniteSet(s), NEW x \in s, NEW k \in Nat, Cardinality(s) = k + 1
    PROVE  Cardinality(s \ {x}) = k
<1>1. Cardinality(s \ {x}) = Cardinality(s) - 1
    BY FS_RemoveElement
<1> QED BY <1>1

\* The recursion of a fold over a finite set, whatever picks the next element:
\* it exists when every step stays in a family of sets of values, one for each
\* set of members that are folded.
StaysInFamily(S, U, V, base, pick, step) ==
    /\ base \in V[{}] /\ \A s \in SUBSET S : V[s] \subseteq U /\ V[s] # {}
    /\ \A s \in SUBSET S : s # {} =>
         pick[s] \in s /\ \A v \in V[s \ {pick[s]}] : step[pick[s]][v] \in V[s]

IsFamilyFold(f, S, U, V, base, pick, step) ==
    /\ f \in [SUBSET S -> U]
    /\ \A s \in SUBSET S :
         f[s] \in V[s] /\ f[s] = IF s = {} THEN base ELSE step[pick[s]][f[s \ {pick[s]}]]

LEMMA FamilyFoldExists ==
    ASSUME NEW S, IsFiniteSet(S), NEW U, NEW V, NEW base, NEW pick, NEW step,
           StaysInFamily(S, U, V, base, pick, step)
    PROVE  \E f : IsFamilyFold(f, S, U, V, base, pick, step)
<1> USE DEF StaysInFamily
<1> DEFINE Next(f, s) == IF s = {} THEN base ELSE step[pick[s]][f[s \ {pick[s]}]]
           Upto(k) == {s \in SUBSET S : Cardinality(s) <= k}
           Within(f) == f \in [SUBSET S -> U] /\ \A s \in SUBSET S : f[s] \in V[s]
           Holds(f, k) == Within(f) /\ \A s \in Upto(k) : f[s] = Next(f, s)
           T == {k \in Nat : \E f : Holds(f, k)}
<1>0. \A s \in SUBSET S : IsFiniteSet(s) /\ Cardinality(s) \in Nat
    BY FS_Subset, FS_CardinalityType
<1>1. ASSUME NEW f, Within(f), NEW s \in SUBSET S PROVE Next(f, s) \in V[s]
    <2>1. CASE s = {}
        BY <2>1
    <2>2. CASE s # {}
        <3>1. s \ {pick[s]} \in SUBSET S
            OBVIOUS
        <3>2. f[s \ {pick[s]}] \in V[s \ {pick[s]}]
            BY <1>1, <3>1
        <3> QED BY <2>2, <3>2
    <2> QED BY <2>1, <2>2
<1>2. 0 \in T
    <2> DEFINE f == [s \in SUBSET S |-> IF s = {} THEN base ELSE CHOOSE v \in V[s] : TRUE]
    <2>0. ASSUME NEW s \in SUBSET S PROVE f[s] \in V[s]
        OBVIOUS
    <2>1. ASSUME NEW s \in Upto(0) PROVE s = {}
        BY <1>0, FS_EmptySet
    <2>2. Within(f)
        <3>1. f \in [SUBSET S -> U]
            <4>1. \A s \in SUBSET S : f[s] \in U
                BY <2>0
            <4>2. f = [s \in SUBSET S |-> f[s]]
                OBVIOUS
            <4> HIDE DEF f
            <4> QED BY <4>1, <4>2
        <3> HIDE DEF f
        <3> QED BY <2>0, <3>1
    <2>3. f[{}] = base
        OBVIOUS
    <2>4. Holds(f, 0)
        <3> HIDE DEF f, Within
        <3> QED BY <2>1, <2>2, <2>3
    <2> QED BY <2>4
<1>3. ASSUME NEW k \in T \cap Nat PROVE k + 1 \in T
    <2>1. PICK f : Holds(f, k)
        OBVIOUS
    <2> DEFINE g == [s \in SUBSET S |-> Next(f, s)]
    <2>2. Within(g)
        <3>1. \A s \in SUBSET S : g[s] \in V[s]
            BY <1>1, <2>1
        <3>2. g = [s \in SUBSET S |-> g[s]]
            OBVIOUS
        <3> HIDE DEF g
        <3>3. \A s \in SUBSET S : g[s] \in U
            BY <3>1
        <3> QED BY <3>1, <3>2, <3>3
    <2>3. ASSUME NEW s \in Upto(k) PROVE g[s] = f[s]
        BY <2>1
    <2>4. ASSUME NEW s \in Upto(k + 1), s # {} PROVE s \ {pick[s]} \in Upto(k)
        <3>1. pick[s] \in s /\ s \in SUBSET S
            BY <2>4
        <3>2. Cardinality(s \ {pick[s]}) = Cardinality(s) - 1
            BY <1>0, <3>1, FS_RemoveElement
        <3>3. Cardinality(s) <= k + 1 /\ Cardinality(s) \in Nat
            BY <1>0
        <3> QED BY <3>1, <3>2, <3>3
    <2>5. ASSUME NEW s \in Upto(k + 1) PROVE g[s] = Next(g, s)
        <3>1. g[s] = Next(f, s)
            OBVIOUS
        <3>2. CASE s = {}
            BY <3>1, <3>2
        <3>3. CASE s # {}
            <4>1. g[s \ {pick[s]}] = f[s \ {pick[s]}]
                BY <2>3, <2>4, <3>3
            <4> HIDE DEF g
            <4> QED BY <3>1, <3>3, <4>1
        <3> QED BY <3>2, <3>3
    <2>6. Holds(g, k + 1)
        <3> HIDE DEF g, Within
        <3> QED BY <2>2, <2>5
    <2> HIDE DEF Holds
    <2> QED BY <2>6
<1>4. Nat \subseteq T
    <2> HIDE DEF T
    <2> QED BY <1>2, <1>3, NumbersFromZero
<1>5. PICK f : Holds(f, Cardinality(S))
    BY <1>0, <1>4
<1>6. \A s \in SUBSET S : s \in Upto(Cardinality(S))
    BY FS_Subset
<1> QED BY <1>5, <1>6 DEF IsFamilyFold

\* A function that follows such a recursion stays in the family.
LEMMA FamilyFoldStays ==
    ASSUME NEW S, IsFiniteSet(S), NEW V, NEW pick, NEW g, g[{}] \in V[{}],
           \A s \in SUBSET S : s # {} =>
              /\ pick[s] \in s
              /\ g[s \ {pick[s]}] \in V[s \ {pick[s]}] => g[s] \in V[s]
    PROVE  g[S] \in V[S]
<1> DEFINE T == {k \in Nat : \A s \in SUBSET S : Cardinality(s) = k => g[s] \in V[s]}
<1>0. \A s \in SUBSET S : IsFiniteSet(s) /\ Cardinality(s) \in Nat
    BY FS_Subset, FS_CardinalityType
<1>1. 0 \in T
    <2>1. ASSUME NEW s \in SUBSET S, Cardinality(s) = 0 PROVE g[s] \in V[s]
        <3>1. s = {}
            BY <1>0, <2>1, FS_EmptySet
        <3> QED BY <3>1
    <2> QED BY <2>1
<1>2. ASSUME NEW k \in T \cap Nat PROVE k + 1 \in T
    <2>1. ASSUME NEW s \in SUBSET S, Cardinality(s) = k + 1 PROVE g[s] \in V[s]
        <3>0. k \in Nat /\ Cardinality(s) # 0
            BY <2>1
        <3>1. s # {}
            BY <3>0, FS_EmptySet
        <3>2. pick[s] \in s /\ s \ {pick[s]} \in SUBSET S
            BY <3>1
        <3>3. Cardinality(s \ {pick[s]}) = k
            BY <1>0, <2>1, <3>2, OneLess
        <3>4. g[s \ {pick[s]}] \in V[s \ {pick[s]}]
            BY <3>2, <3>3
        <3> QED BY <3>1, <3>4
    <2> QED BY <2>1
<1> HIDE DEF T
<1>3. Nat \subseteq T
    BY <1>1, <1>2, NumbersFromZero
<1> QED BY <1>0, <1>3 DEF T

\* A set fold is one over the family of a single set.
IsSetFold(f, S, V, base, pick, step) ==
    /\ f \in [SUBSET S -> V]
    /\ \A s \in SUBSET S : f[s] = IF s = {} THEN base ELSE step[pick[s]][f[s \ {pick[s]}]]

LEMMA SetFoldExists ==
    ASSUME NEW S, IsFiniteSet(S), NEW V, NEW base \in V,
           NEW pick, \A s \in SUBSET S : s # {} => pick[s] \in s,
           NEW step, step \in [S -> [V -> V]]
    PROVE  \E f : IsSetFold(f, S, V, base, pick, step)
<1> DEFINE W == [s \in SUBSET S |-> V]
<1>1. \A s \in SUBSET S : W[s] = V
    OBVIOUS
<1> HIDE DEF W
<1>2. StaysInFamily(S, V, W, base, pick, step)
    <2>1. \A s \in SUBSET S : s # {} =>
             \A v \in W[s \ {pick[s]}] : step[pick[s]][v] \in W[s]
        <3> SUFFICES ASSUME NEW s \in SUBSET S, s # {}, NEW v \in W[s \ {pick[s]}]
                     PROVE  step[pick[s]][v] \in W[s]
            OBVIOUS
        <3>1. pick[s] \in S /\ s \ {pick[s]} \in SUBSET S
            OBVIOUS
        <3>2. v \in V /\ step[pick[s]] \in [V -> V]
            BY <1>1, <3>1
        <3> QED BY <1>1, <3>2
    <2> QED BY <1>1, <2>1 DEF StaysInFamily
<1>3. PICK f : IsFamilyFold(f, S, V, W, base, pick, step)
    BY <1>2, FamilyFoldExists
<1> QED BY <1>3 DEF IsFamilyFold, IsSetFold

\* A fold from the left takes the greatest index off a set of them.
LEMMA GreatestIndex ==
    ASSUME NEW n \in Nat, NEW s \in SUBSET (1..n), s # {}
    PROVE  Max(s) \in s /\ \A y \in s : Max(s) >= y
<1>1. s \in SUBSET (0..n)
    OBVIOUS
<1>2. \E x \in s : \A y \in s : y <= x
    BY <1>1, GreatestNumber
<1>3. \E x \in s : \A y \in s : x >= y
    BY <1>2
<1> QED BY <1>3 DEF Max

IsLeftFold(f, n, V, base, step) ==
    /\ f \in [SUBSET (1..n) -> V]
    /\ \A s \in SUBSET (1..n) :
           /\ s # {} => Max(s) \in s
           /\ f[s] = IF s = {} THEN base ELSE step[Max(s)][f[s \ {Max(s)}]]

\* The same of a function that need not stay in V by itself.
FollowsLeftFold(g, n, V, base, step) ==
    /\ g[{}] = base
    /\ \A s \in SUBSET (1..n) :
           s # {} /\ g[s \ {Max(s)}] \in V => g[s] = step[Max(s)][g[s \ {Max(s)}]]

Folded(g, n) == g[1..n]

LEMMA LeftFoldExists ==
    ASSUME NEW n \in Nat, NEW V, NEW base \in V, NEW step, step \in [1..n -> [V -> V]]
    PROVE  \E f : IsLeftFold(f, n, V, base, step)
<1> DEFINE pick == [s \in SUBSET (1..n) |-> Max(s)]
<1>1. IsFiniteSet(1..n)
    BY FS_Interval
<1>2. \A s \in SUBSET (1..n) : s # {} => Max(s) \in s
    BY GreatestIndex
<1>3. PICK f : IsSetFold(f, 1..n, V, base, pick, step)
    <2>1. \A s \in SUBSET (1..n) : s # {} => pick[s] \in s
        BY <1>2
    <2> HIDE DEF pick
    <2> QED BY <1>1, <2>1, SetFoldExists
<1>4. \A s \in SUBSET (1..n) : pick[s] = Max(s)
    OBVIOUS
<1> HIDE DEF pick
<1>5. f \in [SUBSET (1..n) -> V]
    BY <1>3 DEF IsSetFold
<1>6. \A s \in SUBSET (1..n) : f[s] = IF s = {} THEN base ELSE step[Max(s)][f[s \ {Max(s)}]]
    BY <1>3, <1>4 DEF IsSetFold
<1> QED BY <1>2, <1>5, <1>6 DEF IsLeftFold

LEMMA LeftFoldIsFold ==
    ASSUME NEW n \in Nat, NEW V, NEW base \in V, NEW step, step \in [1..n -> [V -> V]],
           NEW g, FollowsLeftFold(g, n, V, base, step)
    PROVE  \E f : IsFold(f, n, V, base, step) /\ f[n] = Folded(g, n)
<1> USE DEF FollowsLeftFold, Folded
<1> DEFINE h == [i \in 0..n |-> g[1..i]]
<1>1. ASSUME NEW i \in 1..n PROVE Max(1..i) = i /\ (1..i) \ {i} = 1..(i - 1) /\ 1..i # {}
    <2>1. 1..i \in SUBSET (1..n) /\ i \in 1..i
        OBVIOUS
    <2>2. 1..i # {}
        BY <2>1
    <2>3. Max(1..i) \in 1..i /\ \A y \in 1..i : Max(1..i) >= y
        BY <2>1, <2>2, GreatestIndex
    <2>4. Max(1..i) = i
        BY <2>1, <2>3
    <2> QED BY <2>2, <2>4
<1>2. h[0] = base
    <2>1. 1..0 = {} /\ 0 \in 0..n
        OBVIOUS
    <2> QED BY <2>1
<1>3. ASSUME NEW i \in 1..n, h[i - 1] \in V PROVE h[i] = step[i][h[i - 1]]
    <2>1. i \in 0..n /\ i - 1 \in 0..n /\ 1..i \in SUBSET (1..n)
        OBVIOUS
    <2>2. h[i - 1] = g[(1..i) \ {Max(1..i)}] /\ h[i] = g[1..i]
        BY <1>1, <2>1
    <2> HIDE DEF h
    <2>3. g[1..i] = step[Max(1..i)][g[(1..i) \ {Max(1..i)}]]
        BY <1>1, <1>3, <2>1, <2>2
    <2> QED BY <1>1, <2>2, <2>3
<1>4. h = [i \in 0..n |-> h[i]] /\ h[n] = g[1..n]
    OBVIOUS
<1> HIDE DEF h
<1>5. \A i \in 0..n : h[i] \in V
    <2> DEFINE Values == [i \in 0..n |-> V]
    <2>1. h[0] \in Values[0]
        BY <1>2
    <2>2. ASSUME NEW i \in 1..n, h[i - 1] \in Values[i - 1] PROVE h[i] \in Values[i]
        <3>1. i - 1 \in 0..n /\ i \in 0..n /\ h[i - 1] \in V /\ step[i] \in [V -> V]
            BY <2>2
        <3> QED BY <1>3, <3>1
    <2> HIDE DEF Values
    <2>3. \A i \in 0..n : h[i] \in Values[i]
        BY <2>1, <2>2, FoldStays
    <2> QED BY <2>3 DEF Values
<1>6. \A i \in 1..n : h[i] = step[i][h[i - 1]]
    <2>1. \A i \in 1..n : i - 1 \in 0..n
        OBVIOUS
    <2> QED BY <1>3, <1>5, <2>1
<1>7. IsFold(h, n, V, base, step)
    BY <1>2, <1>4, <1>5, <1>6 DEF IsFold
<1> QED BY <1>4, <1>7

-----------------------------------------------------------------------------
(***************************************************************************)
(* Sums over finite sets, in whatever order a fold takes the members.      *)
(***************************************************************************)
IsSum(f, S, w) ==
    /\ f \in [SUBSET S -> Nat] /\ f[{}] = 0
    /\ \A s \in SUBSET S : \A x \in s : f[s] = w[x] + f[s \ {x}]

\* Weights that agree on a set have the same sums over it.
LEMMA SumsAgree ==
    ASSUME NEW S, IsFiniteSet(S), NEW f, NEW g, NEW v, NEW w, NEW R,
           IsSum(f, S, v), IsSum(g, R, w), S \subseteq R, \A x \in S : v[x] = w[x]
    PROVE  f[S] = g[S]
<1> DEFINE T == {k \in Nat : \A s \in SUBSET S : Cardinality(s) = k => f[s] = g[s]}
<1>0. \A s \in SUBSET S : IsFiniteSet(s) /\ Cardinality(s) \in Nat
    BY FS_Subset, FS_CardinalityType
<1>1. 0 \in T
    <2>1. ASSUME NEW s \in SUBSET S, Cardinality(s) = 0 PROVE f[s] = g[s]
        <3>1. s = {}
            BY <1>0, <2>1, FS_EmptySet
        <3> QED BY <3>1 DEF IsSum
    <2> QED BY <2>1
<1>2. ASSUME NEW k \in T \cap Nat PROVE k + 1 \in T
    <2>1. ASSUME NEW s \in SUBSET S, Cardinality(s) = k + 1 PROVE f[s] = g[s]
        <3>1. s # {}
            BY <2>1, FS_EmptySet
        <3>2. PICK x \in s : TRUE
            BY <3>1
        <3>3. Cardinality(s \ {x}) = k /\ s \ {x} \in SUBSET S
            BY <1>0, <2>1, <3>2, OneLess
        <3>4. f[s \ {x}] = g[s \ {x}]
            BY <3>3
        <3>5. f[s] = v[x] + f[s \ {x}] /\ g[s] = w[x] + g[s \ {x}]
            BY <3>2 DEF IsSum
        <3> QED BY <3>2, <3>4, <3>5
    <2> QED BY <2>1
<1> HIDE DEF T
<1>3. Nat \subseteq T
    BY <1>1, <1>2, NumbersFromZero
<1> QED BY <1>0, <1>3 DEF T

\* Any order gives the same sum.
LEMMA AnyOrderSums ==
    ASSUME NEW S, IsFiniteSet(S), NEW w, \A x \in S : w[x] \in Nat,
           NEW pick, \A s \in SUBSET S : s # {} => pick[s] \in s,
           NEW f \in [SUBSET S -> Nat], f[{}] = 0,
           \A s \in SUBSET S : s # {} => f[s] = w[pick[s]] + f[s \ {pick[s]}]
    PROVE  IsSum(f, S, w)
<1> DEFINE Adds(s) == \A x \in s : f[s] = w[x] + f[s \ {x}]
           T == {k \in Nat : \A s \in SUBSET S : Cardinality(s) = k => Adds(s)}
<1>0. \A s \in SUBSET S : IsFiniteSet(s) /\ Cardinality(s) \in Nat
    BY FS_Subset, FS_CardinalityType
<1>1. 0 \in T
    <2>1. ASSUME NEW s \in SUBSET S, Cardinality(s) = 0 PROVE Adds(s)
        <3>1. s = {}
            BY <1>0, <2>1, FS_EmptySet
        <3> QED BY <3>1
    <2> HIDE DEF Adds
    <2> QED BY <2>1
<1>2. ASSUME NEW k \in T \cap Nat PROVE k + 1 \in T
    <2>1. ASSUME NEW s \in SUBSET S, Cardinality(s) = k + 1, NEW x \in s
          PROVE  f[s] = w[x] + f[s \ {x}]
        <3> DEFINE p == pick[s]
        <3>1. p \in s /\ f[s] = w[p] + f[s \ {p}]
            BY <2>1
        <3> HIDE DEF p
        <3>2. CASE p = x
            BY <3>1, <3>2
        <3>3. CASE p # x
            <4>1. Cardinality(s \ {x}) = k /\ s \ {x} \in SUBSET S /\ p \in s \ {x}
                BY <1>0, <2>1, <3>1, <3>3, OneLess
            <4>2. Cardinality(s \ {p}) = k /\ s \ {p} \in SUBSET S /\ x \in s \ {p}
                BY <1>0, <2>1, <3>1, <3>3, OneLess
            <4>3. f[s \ {x}] = w[p] + f[(s \ {x}) \ {p}]
                BY <4>1
            <4>4. f[s \ {p}] = w[x] + f[(s \ {p}) \ {x}]
                BY <4>2
            <4>5. (s \ {x}) \ {p} = (s \ {p}) \ {x} /\ (s \ {p}) \ {x} \in SUBSET S
                OBVIOUS
            <4> DEFINE rest == f[(s \ {p}) \ {x}]
            <4>6. w[p] \in Nat /\ w[x] \in Nat /\ rest \in Nat
                BY <3>1, <4>5
            <4>7. f[s \ {x}] = w[p] + rest /\ f[s] = w[p] + (w[x] + rest)
                BY <3>1, <4>3, <4>4, <4>5
            <4> HIDE DEF rest
            <4>8. w[p] + (w[x] + rest) = w[x] + (w[p] + rest)
                BY <4>6
            <4> QED BY <4>7, <4>8
        <3> QED BY <3>2, <3>3
    <2> QED BY <2>1
<1> HIDE DEF T
<1>3. Nat \subseteq T
    BY <1>1, <1>2, NumbersFromZero
<1>4. \A s \in SUBSET S : Adds(s)
    <2> HIDE DEF Adds
    <2> QED BY <1>0, <1>3 DEF T
<1> QED BY <1>4 DEF IsSum

SumOn(w, S) == FoldFunctionOnSet(+, 0, w, S)

LEMMA SumOnIsSum ==
    ASSUME NEW S, IsFiniteSet(S), NEW w, \A x \in S : w[x] \in Nat
    PROVE  \E f : IsSum(f, S, w) /\ SumOn(w, S) = f[S]
<1> DEFINE pick == [s \in SUBSET S |-> CHOOSE x \in s : TRUE]
           step == [x \in S |-> [m \in Nat |-> w[x] + m]]
           Iter(f) == f = [s \in SUBSET S |->
                             IF s = {} THEN 0
                             ELSE LET x == CHOOSE x \in s : TRUE IN w[x] + f[s \ {x}]]
           g == CHOOSE f : Iter(f)
<1>1. \A s \in SUBSET S : s # {} => (CHOOSE x \in s : TRUE) \in s
    OBVIOUS
<1>2. step \in [S -> [Nat -> Nat]]
    OBVIOUS
<1>3. PICK f : IsSetFold(f, S, Nat, 0, pick, step)
    <2>1. \A s \in SUBSET S : s # {} => pick[s] \in s
        BY <1>1
    <2> HIDE DEF pick, step
    <2> QED BY <1>2, <2>1, SetFoldExists
<1>4. \A s \in SUBSET S : pick[s] = CHOOSE x \in s : TRUE
    OBVIOUS
<1>5. f \in [SUBSET S -> Nat] /\ f[{}] = 0
    <2> HIDE DEF pick, step
    <2> QED BY <1>3 DEF IsSetFold
<1>6. ASSUME NEW s \in SUBSET S, s # {}
      PROVE  f[s] = w[pick[s]] + f[s \ {pick[s]}]
    <2>1. pick[s] \in S /\ s \ {pick[s]} \in SUBSET S
        BY <1>1, <1>4, <1>6
    <2>2. f[s] = step[pick[s]][f[s \ {pick[s]}]] /\ f[s \ {pick[s]}] \in Nat
        <3> HIDE DEF pick, step
        <3> QED BY <1>3, <1>5, <1>6, <2>1 DEF IsSetFold
    <2> HIDE DEF pick
    <2> QED BY <2>1, <2>2
<1>7. Iter(f)
    <2>1. f = [s \in SUBSET S |-> f[s]]
        BY <1>5
    <2> HIDE DEF pick
    <2> QED BY <1>4, <1>5, <1>6, <2>1
<1>8. Iter(g)
    BY <1>7
<1>9. SumOn(w, S) = g[S]
    BY DEF SumOn, FoldFunctionOnSet, MapThenFoldSet
<1>10. \A s \in SUBSET S : g[s] = IF s = {} THEN 0 ELSE w[pick[s]] + g[s \ {pick[s]}]
    <2> HIDE DEF g
    <2>1. g = [s \in SUBSET S |->
                 IF s = {} THEN 0 ELSE LET x == CHOOSE x \in s : TRUE IN w[x] + g[s \ {x}]]
        BY <1>8
    <2> HIDE DEF Iter
    <2> QED BY <1>4, <2>1
<1> HIDE DEF g, Iter
<1>11. g[S] = f[S]
    <2> DEFINE T == {k \in Nat : \A s \in SUBSET S : Cardinality(s) = k => g[s] = f[s]}
    <2>0. \A s \in SUBSET S : IsFiniteSet(s) /\ Cardinality(s) \in Nat
        BY FS_Subset, FS_CardinalityType
    <2>1. 0 \in T
        <3>1. ASSUME NEW s \in SUBSET S, Cardinality(s) = 0 PROVE g[s] = f[s]
            <4>1. s = {}
                BY <2>0, <3>1, FS_EmptySet
            <4> QED BY <1>5, <1>10, <4>1
        <3> QED BY <3>1
    <2>2. ASSUME NEW k \in T \cap Nat PROVE k + 1 \in T
        <3>1. ASSUME NEW s \in SUBSET S, Cardinality(s) = k + 1 PROVE g[s] = f[s]
            <4>0. k \in Nat /\ Cardinality(s) # 0
                BY <3>1
            <4>1. s # {}
                BY <4>0, FS_EmptySet
            <4>2. pick[s] \in s /\ s \ {pick[s]} \in SUBSET S
                BY <1>1, <1>4, <4>1
            <4> HIDE DEF pick
            <4>3. Cardinality(s \ {pick[s]}) = k
                BY <2>0, <3>1, <4>2, OneLess
            <4>4. g[s \ {pick[s]}] = f[s \ {pick[s]}]
                BY <4>2, <4>3
            <4> QED BY <1>6, <1>10, <4>1, <4>4
        <3> QED BY <3>1
    <2> HIDE DEF T
    <2>3. Nat \subseteq T
        BY <2>1, <2>2, NumbersFromZero
    <2> QED BY <2>0, <2>3 DEF T
<1>12. IsSum(f, S, w)
    <2>1. \A s \in SUBSET S : s # {} => pick[s] \in s
        BY <1>1, <1>4
    <2> HIDE DEF pick
    <2> QED BY <1>5, <1>6, <2>1, AnyOrderSums
<1> QED BY <1>9, <1>11, <1>12

LEMMA SumOnType ==
    ASSUME NEW S, IsFiniteSet(S), NEW w, \A x \in S : w[x] \in Nat
    PROVE  SumOn(w, S) \in Nat
<1>1. PICK f : IsSum(f, S, w) /\ SumOn(w, S) = f[S]
    BY SumOnIsSum
<1> QED BY <1>1 DEF IsSum

LEMMA SumOnEmpty == ASSUME NEW w PROVE SumOn(w, {}) = 0
<1>1. IsFiniteSet({}) /\ \A x \in {} : w[x] \in Nat
    BY FS_EmptySet
<1>2. PICK f : IsSum(f, {}, w) /\ SumOn(w, {}) = f[{}]
    BY <1>1, SumOnIsSum
<1> QED BY <1>2 DEF IsSum

LEMMA SumOnSame ==
    ASSUME NEW S, IsFiniteSet(S), NEW v, NEW w, \A x \in S : v[x] \in Nat /\ w[x] = v[x]
    PROVE  SumOn(v, S) = SumOn(w, S)
<1>1. \A x \in S : w[x] \in Nat
    OBVIOUS
<1>2. PICK f : IsSum(f, S, v) /\ SumOn(v, S) = f[S]
    BY SumOnIsSum
<1>3. PICK g : IsSum(g, S, w) /\ SumOn(w, S) = g[S]
    BY <1>1, SumOnIsSum
<1>4. f[S] = g[S]
    BY <1>2, <1>3, SumsAgree
<1> QED BY <1>2, <1>3, <1>4

\* One member less, and its weight is gone.
LEMMA SumOnLess ==
    ASSUME NEW S, IsFiniteSet(S), NEW v, NEW w, NEW x \in S, \A y \in S : v[y] \in Nat,
           \A y \in S \ {x} : w[y] = v[y]
    PROVE  SumOn(v, S) = v[x] + SumOn(w, S \ {x})
<1> DEFINE R == S \ {x}
<1>1. IsFiniteSet(R) /\ R \subseteq S
    BY FS_Subset
<1>2. \A y \in R : w[y] \in Nat
    OBVIOUS
<1>3. PICK f : IsSum(f, S, v) /\ SumOn(v, S) = f[S]
    BY SumOnIsSum
<1>4. f[S] = v[x] + f[R]
    BY <1>3 DEF IsSum
<1> HIDE DEF R
<1>5. PICK g : IsSum(g, R, w) /\ SumOn(w, R) = g[R]
    BY <1>1, <1>2, SumOnIsSum
<1>6. g[R] = f[R]
    BY <1>1, <1>3, <1>5, SumsAgree DEF R
<1> QED BY <1>3, <1>4, <1>5, <1>6 DEF R

-----------------------------------------------------------------------------
\* A finite set of numbers has a bound.
LEMMA FiniteIsBounded ==
    ASSUME NEW S \in SUBSET Nat, IsFiniteSet(S)
    PROVE  \E b \in Nat : S \in SUBSET 0..b
<1> DEFINE w == [n \in S |-> n]
<1>1. \A n \in S : w[n] \in Nat
    OBVIOUS
<1>2. \A n \in S : w[n] = n
    OBVIOUS
<1> HIDE DEF w
<1>3. PICK f : IsSum(f, S, w)
    BY <1>1, SumOnIsSum
<1>4. f[S] \in Nat
    BY <1>3 DEF IsSum
<1>5. ASSUME NEW n \in S PROVE n \in 0..f[S]
    <2>1. f[S] = w[n] + f[S \ {n}] /\ f[S \ {n}] \in Nat
        BY <1>3 DEF IsSum
    <2> QED BY <1>2, <1>4, <2>1
<1> QED BY <1>4, <1>5

LEMMA FiniteBounds ==
    ASSUME NEW S \in SUBSET Nat, IsFiniteSet(S), S # {}
    PROVE  /\ Min(S) \in S /\ \A n \in S : Min(S) <= n
           /\ Max(S) \in S /\ \A n \in S : n <= Max(S)
<1>1. PICK b \in Nat : S \in SUBSET 0..b
    BY FiniteIsBounded
<1>2. \E n \in S : \A m \in S : n <= m
    BY LeastNumber
<1>3. \E n \in S : \A m \in S : m <= n
    BY <1>1, GreatestNumber
<1>4. \A m, n \in S : m <= n <=> n >= m
    OBVIOUS
<1>5. \E n \in S : \A m \in S : n >= m
    BY <1>3, <1>4
<1>6. Max(S) \in S /\ \A n \in S : Max(S) >= n
    BY <1>5 DEF Max
<1>7. Min(S) \in S /\ \A n \in S : Min(S) <= n
    BY <1>2 DEF Min
<1> QED BY <1>4, <1>6, <1>7
=============================================================================

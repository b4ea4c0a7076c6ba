------------------------------ MODULE MCDBImpl ------------------------------
(***************************************************************************)
(* A small leveldb: three levels, and a table that is as large as the      *)
(* entries of a key.                                                       *)
(***************************************************************************)
EXTENDS DBImpl

Put(k) == [key |-> k, type |-> "value"]
Del(k) == [key |-> k, type |-> "deletion"]

\* A key written over, and a batch of two operations that deletes it.
Overwrites == {<<Put(1)>>, <<Del(1), Put(2)>>}

Versions == {<<Put(1)>>}
Singles == {<<Put(k)>> : k \in UserKey}

\* The files with the first key, or all.
FirstKey == {<<1, 1>>}
FirstOrAll == {<<1, 1>>, <<1, 2>>}
FirstToThird == {<<1, 3>>}

Limits == [l \in 0..2 |-> 2]
ThreeLimits == [l \in 0..2 |-> 3]

\* Every bounded step once (TotalBudget bounds how many of them), or those only.
Each == [k \in Bounded |-> 1]
NoAppend == [Each EXCEPT !["append"] = 0]
Some(kinds) == [k \in Bounded |-> IF k \in kinds THEN 1 ELSE 0]
CrashAndSnapshot == Some({"crash", "snapshot"})
CrashAndManual == Some({"crash", "manual"})
CrashAndAppend == Some({"crash", "append"})
ManualAndManifest == Some({"manual", "manifest"})

\* Threads are interchangeable (safety runs only).
Symmetry == Permutations(Thread)
=============================================================================

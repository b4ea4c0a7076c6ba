---------------------------- MODULE KeyValueStore ----------------------------
(***************************************************************************)
(* What leveldb promises (include/leveldb/db.h, WriteOptions::sync): a     *)
(* write is atomic, a snapshot does not change while it is held, a crash   *)
(* takes or keeps whole writes and keeps those that were synced.  Flushes, *)
(* compactions and recovery do not show.                                   *)
(***************************************************************************)
EXTENDS Naturals, FiniteSets

CONSTANTS UserKey, Handle, None

VARIABLES
    log,        \* the writes that took effect: sets of entries
    durable,    \* those that no crash may take
    store,      \* the sequence number of each key's value, 0 for none
    views       \* the store as the snapshots see it

vars == <<log, durable, store, views>>

\* The newest entry of each key counts.
Contents(writes) ==
    [key \in UserKey |->
        LET of == {e \in UNION writes : e.key = key}
            newest == {e \in of : \A d \in of : d.seq <= e.seq}
        IN IF \E e \in newest : e.type = "value"
           THEN (CHOOSE e \in newest : TRUE).seq ELSE 0]

Init ==
    /\ log = {} /\ durable = {}
    /\ store = Contents({})
    /\ views = [h \in Handle |-> None]

\* A write has larger sequence numbers than all before it.
Write ==
    /\ \E w \in log' \ log :
           /\ log' = log \cup {w}
           /\ \A e \in w, d \in UNION log : e.seq > d.seq
           /\ durable' \in {durable, durable \cup {w}}
    /\ store' = Contents(log')
    /\ UNCHANGED views

TakeSnapshot(h) ==
    /\ views[h] = None
    /\ views' = [views EXCEPT ![h] = store]
    /\ UNCHANGED <<log, durable, store>>

DropSnapshot(h) ==
    /\ views' = [views EXCEPT ![h] = None]
    /\ UNCHANGED <<log, durable, store>>

\* Some writes that were not synced are gone; some that had not returned, or had
\* failed, are in.  No sequence number is used twice.
Crash ==
    /\ durable \subseteq log'
    /\ \A v, w \in log' : v # w => \A d \in v, e \in w : d.seq # e.seq
    /\ store' = Contents(log')
    /\ views' = [h \in Handle |-> None]
    /\ UNCHANGED durable

Next == Write \/ Crash \/ \E h \in Handle : TakeSnapshot(h) \/ DropSnapshot(h)
Spec == Init /\ [][Next]_vars
=============================================================================

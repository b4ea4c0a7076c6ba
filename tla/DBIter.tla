------------------------------- MODULE DBIter -------------------------------
(***************************************************************************)
(* The iterator a client of leveldb gets (db/db_iter.cc) over the merge of   *)
(* the memtables and tables (table/merger.cc): it shows, of the entries of    *)
(* every user key, the newest that its sequence number admits, and hides      *)
(* deletions.  The first child is the memtable, which grows under the         *)
(* iterator.                                                                  *)
(***************************************************************************)
EXTENDS Integers, FiniteSets, Sequences

CONSTANTS
    IterUserKey,        \* user keys, positive integers
    IterEntries,        \* how many entries there are when the iterator is made
    LateEntries         \* bound on the entries that are added to the memtable later

ASSUME IterBounds ==
    IterUserKey \subseteq Nat \ {0} /\ IterEntries \in Nat /\ LateEntries \in Nat

VARIABLES
    child,              \* the entries of each child: [user, seq, type]
    dbIter              \* a DBIter, and the MergingIterator it moves

iterVars == <<child, dbIter>>

Nothing == [user |-> 0, seq |-> 0, type |-> "none"]
kForward == "forward"
kReverse == "reverse"

EntryLess(a, b) == a.user < b.user \/ (a.user = b.user /\ a.seq > b.seq)
Least(s) == IF s = {} THEN Nothing ELSE CHOOSE e \in s : \A f \in s : ~EntryLess(f, e)
Greatest(s) == IF s = {} THEN Nothing ELSE CHOOSE e \in s : \A f \in s : ~EntryLess(e, f)

-----------------------------------------------------------------------------
(* MergingIterator: the entry each child is at, current_, or 0, and direction_. *)
FindSmallest(m) ==
    LET valid == {i \in DOMAIN m.at : m.at[i] # Nothing}
        best == Least({m.at[i] : i \in valid})
    IN  [m EXCEPT !.current = IF valid = {} THEN 0 ELSE CHOOSE i \in valid : m.at[i] = best]
FindLargest(m) ==
    LET valid == {i \in DOMAIN m.at : m.at[i] # Nothing}
        best == Greatest({m.at[i] : i \in valid})
    IN  [m EXCEPT !.current = IF valid = {} THEN 0 ELSE CHOOSE i \in valid : m.at[i] = best]

MergeValid(m) == m.current # 0
MergeEntry(m) == m.at[m.current]

MergeSeek(m, target) ==
    FindSmallest([m EXCEPT !.direction = kForward,
                           !.at = [i \in DOMAIN m.at |-> Least({e \in child[i] : ~EntryLess(e, target)})]])
MergeSeekToFirst(m) ==
    FindSmallest([m EXCEPT !.direction = kForward, !.at = [i \in DOMAIN m.at |-> Least(child[i])]])
MergeSeekToLast(m) ==
    FindLargest([m EXCEPT !.direction = kReverse, !.at = [i \in DOMAIN m.at |-> Greatest(child[i])]])

Above(i, e) == Least({f \in child[i] : EntryLess(e, f)})
Below(i, e) == Greatest({f \in child[i] : EntryLess(f, e)})

\* The other children are put after, or before, the entry when the direction turns.
MergeNext(m) ==
    LET here == MergeEntry(m)
        Moved(i) == i = m.current \/ m.direction # kForward
    IN  FindSmallest([m EXCEPT !.direction = kForward,
                               !.at = [i \in DOMAIN m.at |-> IF Moved(i) THEN Above(i, here) ELSE m.at[i]]])

MergePrevOneOnly(m) ==
    FindLargest([m EXCEPT !.direction = kReverse, !.at[m.current] = Below(m.current, MergeEntry(m))])

MergePrev(m) ==
    LET here == MergeEntry(m)
        Moved(i) == i = m.current \/ m.direction # kReverse
    IN  FindLargest([m EXCEPT !.direction = kReverse,
                              !.at = [i \in DOMAIN m.at |-> IF Moved(i) THEN Below(i, here) ELSE m.at[i]]])

-----------------------------------------------------------------------------
(* DBIter.  saved is saved_key_ and value the entry saved_value_ comes from.   *)
Ended(d) == [d EXCEPT !.valid = FALSE, !.saved = 0]
Shown(d) == IF d.direction = kForward THEN MergeEntry(d.merge) ELSE d.value

Entries == UNION {child[i] : i \in DOMAIN child}

\* A loop is a function of the rounds it has made.  It comes to each entry once at most
\* and then to the end; when it has stopped, further rounds change nothing.
Rounds == Cardinality(Entries) + 1

\* Whether the loop stands at an entry to show, given what it has to skip.
Acceptable(sequence, s) ==
    LET e == MergeEntry(s.merge) IN
    e.seq <= sequence /\ e.type = "value" /\ ~(s.skipping /\ e.user <= s.skip)

NextRound(sequence, s) ==
    LET e == MergeEntry(s.merge)
        deletes == e.seq <= sequence /\ e.type = "deletion"
    IN  IF ~MergeValid(s.merge) \/ Acceptable(sequence, s) THEN s
        ELSE [merge |-> MergeNext(s.merge), skipping |-> s.skipping \/ deletes,
              skip |-> IF deletes THEN e.user ELSE s.skip]

FindNextUserEntry(d, skipping, skip) ==
    LET start == [merge |-> d.merge, skipping |-> skipping, skip |-> skip]
        after[k \in 0..Rounds] == IF k = 0 THEN start ELSE NextRound(d.sequence, after[k - 1])
        end == after[Rounds].merge
    IN  [d EXCEPT !.merge = end, !.valid = MergeValid(end), !.saved = 0]

\* newest is the newest entry seen so far of the user key the loop is at.
PrevRound(sequence, s) ==
    LET e == MergeEntry(s.merge)
        seen == e.seq <= sequence
    IN  IF ~MergeValid(s.merge) \/ (seen /\ s.newest.type = "value" /\ e.user < s.newest.user) THEN s
        ELSE [merge |-> MergePrev(s.merge), newest |-> IF seen THEN e ELSE s.newest]

FindPrevUserEntry(d) ==
    LET start == [merge |-> d.merge, newest |-> Nothing]
        after[k \in 0..Rounds] == IF k = 0 THEN start ELSE PrevRound(d.sequence, after[k - 1])
        end == after[Rounds]
    IN  IF end.newest.type = "value"
        THEN [d EXCEPT !.merge = end.merge, !.valid = TRUE, !.saved = end.newest.user, !.value = end.newest]
        ELSE [d EXCEPT !.merge = end.merge, !.valid = FALSE, !.saved = 0, !.value = Nothing,
                       !.direction = kForward]

DBSeekForward(d, merge) ==
    LET at == [d EXCEPT !.direction = kForward, !.value = Nothing, !.saved = 0, !.merge = merge] IN
    IF MergeValid(merge) THEN FindNextUserEntry(at, FALSE, 0) ELSE [at EXCEPT !.valid = FALSE]
DBSeek(d, user) ==
    DBSeekForward(d, MergeSeek(d.merge, [user |-> user, seq |-> d.sequence, type |-> "value"]))
DBSeekToFirst(d) == DBSeekForward(d, MergeSeekToFirst(d.merge))
DBSeekToLast(d) ==
    FindPrevUserEntry([d EXCEPT !.direction = kReverse, !.value = Nothing, !.merge = MergeSeekToLast(@)])

DBNext(d) ==
    LET turned == [d EXCEPT !.direction = kForward,
                            !.merge = IF MergeValid(@) THEN MergeNext(@) ELSE MergeSeekToFirst(@)]
    IN  IF d.direction = kForward THEN FindNextUserEntry(d, TRUE, MergeEntry(d.merge).user)
        ELSE IF MergeValid(turned.merge) THEN FindNextUserEntry(turned, TRUE, d.saved)
        ELSE Ended(turned)

\* Back past the entries of the current user key.
BackRound(user, m) == IF MergeValid(m) /\ MergeEntry(m).user >= user THEN MergePrev(m) ELSE m
BackPast(m, user) ==
    LET after[k \in 0..Rounds] == IF k = 0 THEN MergePrev(m) ELSE BackRound(user, after[k - 1])
    IN  after[Rounds]

DBPrev(d) ==
    LET user == MergeEntry(d.merge).user
        back == [d EXCEPT !.merge = BackPast(@, user), !.saved = user]
    IN  IF d.direction = kReverse THEN FindPrevUserEntry(d)
        ELSE IF MergeValid(back.merge) THEN FindPrevUserEntry([back EXCEPT !.direction = kReverse])
        ELSE [Ended(back) EXCEPT !.value = Nothing]

-----------------------------------------------------------------------------
Entry(user, seq, type) == [user |-> user, seq |-> seq, type |-> type]

\* The children are in order of age; the memtable has what is newest.
DBIterInit ==
    /\ \E user \in [1..IterEntries -> IterUserKey], type \in [1..IterEntries -> {"value", "deletion"}],
         older \in 0..IterEntries :
         LET These(seqs) == {Entry(user[s], s, type[s]) : s \in seqs}
         IN  child = <<These((older + 1)..IterEntries), These(1..older)>>
    /\ dbIter \in [merge : {[at |-> [i \in 1..2 |-> Nothing], current |-> 0, direction |-> kForward]},
                   direction : {kForward}, valid : {FALSE}, saved : {0}, value : {Nothing},
                   sequence : (IterEntries - 1)..IterEntries]

MemTableGrows ==
    /\ Cardinality(Entries) < IterEntries + LateEntries
    /\ \E user \in IterUserKey, type \in {"value", "deletion"} :
         child' = [child EXCEPT ![1] = @ \cup {Entry(user, Cardinality(Entries) + 1, type)}]
    /\ UNCHANGED dbIter

MoveDBIter ==
    /\ dbIter' \in {DBSeekToFirst(dbIter), DBSeekToLast(dbIter)}
                   \cup {DBSeek(dbIter, user) : user \in IterUserKey}
                   \cup (IF dbIter.valid THEN {DBNext(dbIter), DBPrev(dbIter)} ELSE {})
    /\ UNCHANGED child

DBIterNext == MemTableGrows \/ MoveDBIter
IterSpec == DBIterInit /\ [][DBIterNext]_iterVars

-----------------------------------------------------------------------------
\* What a read at the sequence number would find, key by key.
Newest(user) ==
    LET seen == {e \in Entries : e.user = user /\ e.seq <= dbIter.sequence}
    IN  IF seen = {} THEN Nothing ELSE CHOOSE e \in seen : \A f \in seen : f.seq <= e.seq
View == {e \in {Newest(user) : user \in IterUserKey} : e.type = "value"}

IsAt(d, e) == IF e = Nothing THEN ~d.valid ELSE d.valid /\ Shown(d) = e

\* Wherever the iterator was moved from, in either direction, and whatever was
\* added to the memtable meanwhile, every move goes to the neighbour in the view.
IteratorShowsView ==
    /\ IsAt(DBSeekToFirst(dbIter), Least(View))
    /\ IsAt(DBSeekToLast(dbIter), Greatest(View))
    /\ \A user \in IterUserKey : IsAt(DBSeek(dbIter, user), Least({e \in View : e.user >= user}))
    /\ dbIter.valid =>
         /\ Shown(dbIter) \in View
         /\ IsAt(DBNext(dbIter), Least({e \in View : e.user > Shown(dbIter).user}))
         /\ IsAt(DBPrev(dbIter), Greatest({e \in View : e.user < Shown(dbIter).user}))
=============================================================================

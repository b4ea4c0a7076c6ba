------------------------ MODULE ProductsScreenProofs ------------------------
(***************************************************************************)
(* The proofs of the product editor, for any catalogue, any number of      *)
(* views, popups and pending writes, and both layouts.                     *)
(*                                                                         *)
(* Inv is an invariant; its consequences are the type invariant,           *)
(* RecordsKept and SelectedIsShown.  ListFollows adds what the open list   *)
(* will show once its value events have run, from which ListCurrent        *)
(* follows.  One lemma per action, after one per operation of the          *)
(* database, which keeps DbInv: what is stored, copied, being sent or      *)
(* queued stays where it was created.                                      *)
(*                                                                         *)
(* The second part is about a user who waits (PatientNext): no tap finds   *)
(* the selection reset, the rows are the client's copy exactly, and, if    *)
(* nobody else writes, a form that is not being edited shows what the      *)
(* server has.  PatientInv says that such a user has one write under way   *)
(* at a time, and that nothing it reads when it is answered has changed    *)
(* since: the view that wrote is on screen, it is about selectedProduct,   *)
(* and its fields are what was written.                                    *)
(***************************************************************************)
EXTENDS MCPatient, SequenceTheorems, TLAPS

-----------------------------------------------------------------------------
(* The database.                                                             *)
\* A record of category c put in a whole tree at c leaves it whole.
LEMMA WholeExcept ==
    ASSUME NEW tree \in Whole, NEW c \in Category, NEW k \in Key,
           NEW value \in Record \cup {NoRecord},
           value # NoRecord => CategoryOf[k] = c /\ value.picture = PictureOf[k]
    PROVE  [tree EXCEPT ![c][k] = value] \in Whole
<1> DEFINE new == [tree EXCEPT ![c][k] = value]
<1>1. new \in [Category -> Contents]
    BY DEF Whole, Contents
<1>2. ASSUME NEW d \in Category, NEW l \in Key, new[d][l] # NoRecord
      PROVE  CategoryOf[l] = d /\ new[d][l].picture = PictureOf[l]
    <2>1. CASE d = c /\ l = k
        BY <2>1, <1>2 DEF Whole, Contents
    <2>2. CASE ~(d = c /\ l = k)
        <3>1. new[d][l] = tree[d][l]
            BY <2>2 DEF Whole, Contents
        <3> QED BY <3>1, <1>2 DEF Whole
    <2> QED BY <2>1, <2>2
<1> QED BY <1>1, <1>2 DEF Whole

\* The contents of a category of a whole tree are the category's own.
LEMMA WholeRows ==
    ASSUME NEW tree \in Whole, NEW c \in Category
    PROVE  tree[c] \in KeptRows(c)
BY DEF Whole, KeptRows, Contents

\* The events of c's observers, when the rows they carry are c's own.
LEMMA EventsKept ==
    ASSUME NEW c \in Category, NEW rows \in KeptRows(c), DbTypeOK
    PROVE  Events(c, rows) \in Seq(KeptBlock(observing))
<1> DEFINE open == IF observing = c /\ c \notin awaiting THEN <<ToOpen(rows)>> ELSE <<>>
           closed == IF c \in leaked THEN <<ToClosed(rows)>> ELSE <<>>
<1>1. rows \in Contents
    BY DEF KeptRows
<1>2. ToClosed(rows) \in KeptBlock(observing)
    BY <1>1 DEF ToClosed, KeptBlock, Event
<1>3. observing = c => ToOpen(rows) \in KeptBlock(observing)
    BY <1>1, Absent DEF ToOpen, KeptBlock, Event
<1>4. open \in Seq(KeptBlock(observing))
    BY <1>3
<1>5. closed \in Seq(KeptBlock(observing))
    BY <1>2
<1> HIDE DEF open, closed
<1>6. open \o closed \in Seq(KeptBlock(observing))
    BY <1>4, <1>5, ConcatProperties
<1> QED BY <1>6 DEF Events, open, closed

LEMMA RaisedKept ==
    ASSUME NEW c \in Category, NEW k \in Key, NEW value \in Record \cup {NoRecord},
           value # NoRecord => CategoryOf[k] = c /\ value.picture = PictureOf[k],
           DbTypeOK, cache \in Whole
    PROVE  Raised(c, k, value) \in Seq(KeptBlock(observing))
<1> DEFINE new == [cache EXCEPT ![c][k] = value]
<1>1. new \in Whole
    BY WholeExcept
<1>2. new[c] = [cache[c] EXCEPT ![k] = value]
    BY DEF Whole, Contents
<1>3. new[c] \in KeptRows(c)
    BY <1>1, WholeRows
<1>4. Events(c, [cache[c] EXCEPT ![k] = value]) \in Seq(KeptBlock(observing))
    BY <1>2, <1>3, EventsKept
<1>5. <<>> \in Seq(KeptBlock(observing))
    BY EmptySeq
<1> QED BY <1>4, <1>5 DEF Raised

\* Kept sequences are sequences of the types' elements.
LEMMA KeptTypes ==
    /\ Seq(KeptWrite) \subseteq Seq(Write)
    /\ \A c : Seq(KeptBlock(c)) \subseteq Seq(Event \cup Completion)
<1>1. KeptWrite \subseteq Write
    BY DEF KeptWrite
<1>2. \A c : KeptBlock(c) \subseteq Event \cup Completion
    BY DEF KeptBlock
<1> QED BY <1>1, <1>2, SeqMonotonic

LEMMA AnswerKept ==
    ASSUME DbInv, outbox # <<>>, NEW ok \in BOOLEAN, NEW c
    PROVE  Answer(ok) \in KeptBlock(c)
<1>1. Head(outbox) \in Write
    BY HeadTailProperties DEF DbInv, DbTypeOK
<1> QED BY <1>1 DEF Answer, KeptBlock, Completion, Write, Reply

-----------------------------------------------------------------------------
LEMMA PutKept ==
    ASSUME DbInv, NEW c \in Category, NEW k \in Key,
           NEW value \in Record \cup {NoRecord}, NEW reply \in Reply,
           CategoryOf[k] = c,
           value # NoRecord => value.picture = PictureOf[k],
           Put(c, k, value, reply)
    PROVE  DbInv'
<1> DEFINE w == [category |-> c, key |-> k, value |-> value, reply |-> reply]
<1>1. cache' \in Whole
    BY WholeExcept DEF Put, DbInv
<1>2. w \in KeptWrite
    BY DEF KeptWrite, Write
<1>3. outbox' \in Seq(KeptWrite)
    BY <1>2 DEF Put, DbInv
<1>4. mainQueue' \in Seq(KeptBlock(observing))
    BY RaisedKept, ConcatProperties DEF Put, DbInv
<1>5. \A i \in 1..Len(outbox') : outbox'[i].key \in used'
    <2> SUFFICES ASSUME NEW i \in 1..Len(outbox') PROVE outbox'[i].key \in used'
        OBVIOUS
    <2>1. outbox' = Append(outbox, w) /\ used' = used \cup {k}
        BY DEF Put
    <2>2. outbox \in Seq(Write) /\ \A j \in 1..Len(outbox) : outbox[j].key \in used
        BY DEF DbInv, DbTypeOK, Issued
    <2>3. CASE i \in 1..Len(outbox)
        BY <2>1, <2>2, <2>3
    <2>4. CASE i = Len(outbox) + 1
        BY <2>1, <2>2, <2>4
    <2> QED BY <2>1, <2>2, <2>3, <2>4
<1>6. \A d \in Category, l \in Key : stored'[d][l] # NoRecord => l \in used'
    BY DEF Put, DbInv, Issued
<1>7. DbTypeOK'
    BY <1>1, <1>3, <1>4, KeptTypes DEF Put, DbInv, DbTypeOK, Whole
<1> QED BY <1>1, <1>3, <1>4, <1>5, <1>6, <1>7 DEF Put, DbInv, Issued

\* The outbox without its head.
LEMMA TailKept ==
    ASSUME DbInv, outbox # <<>>, outbox' = Tail(outbox), used' = used
    PROVE  /\ outbox' \in Seq(KeptWrite)
           /\ \A i \in 1..Len(outbox') : outbox'[i].key \in used'
           /\ Head(outbox) \in KeptWrite
           /\ Head(outbox).key \in used
<1>1. outbox \in Seq(KeptWrite)
    BY DEF DbInv
<1>2. /\ Head(outbox) = outbox[1] /\ Len(outbox) \in Nat \ {0}
      /\ Head(outbox) \in KeptWrite /\ Tail(outbox) \in Seq(KeptWrite)
      /\ Len(Tail(outbox)) = Len(outbox) - 1
      /\ \A i \in 1..Len(Tail(outbox)) : Tail(outbox)[i] = outbox[i + 1]
    BY <1>1, HeadTailProperties, EmptySeq
<1>3. \A i \in 1..Len(outbox) : outbox[i].key \in used
    BY DEF DbInv, Issued
<1> QED BY <1>2, <1>3

LEMMA AcceptKept ==
    ASSUME DbInv, Accept
    PROVE  DbInv'
<1> DEFINE w == Head(outbox)
<1>1. /\ outbox' \in Seq(KeptWrite)
      /\ \A i \in 1..Len(outbox') : outbox'[i].key \in used'
      /\ w \in KeptWrite
      /\ w.key \in used
    BY TailKept DEF Accept
<1>2. /\ w.category \in Category /\ w.key \in Key /\ w.value \in Record \cup {NoRecord}
      /\ CategoryOf[w.key] = w.category
      /\ w.value # NoRecord => w.value.picture = PictureOf[w.key]
    BY <1>1 DEF KeptWrite, Write
<1> HIDE DEF w
<1>3. stored' = [stored EXCEPT ![w.category][w.key] = w.value]
    BY DEF Accept, w
<1>4. stored' \in Whole
    BY <1>2, <1>3, WholeExcept DEF DbInv
<1>5. mainQueue' \in Seq(KeptBlock(observing))
    BY AnswerKept, AppendProperties DEF Accept, DbInv
<1>6. ASSUME NEW d \in Category, NEW l \in Key, stored'[d][l] # NoRecord
      PROVE  l \in used'
    <2>1. CASE d = w.category /\ l = w.key
        BY <2>1, <1>1 DEF Accept
    <2>2. CASE ~(d = w.category /\ l = w.key)
        <3>1. stored'[d][l] = stored[d][l]
            BY <2>2, <1>2, <1>3 DEF DbInv, DbTypeOK, Contents
        <3> QED BY <3>1, <1>6 DEF DbInv, Issued, Accept
    <2> QED BY <2>1, <2>2
<1>7. DbTypeOK'
    BY <1>1, <1>4, <1>5, KeptTypes DEF Accept, DbInv, DbTypeOK, Whole
<1> QED BY <1>1, <1>4, <1>5, <1>6, <1>7 DEF Accept, DbInv, Issued

LEMMA RejectKept ==
    ASSUME DbInv, Reject
    PROVE  DbInv'
<1> DEFINE w == Head(outbox)
           c == w.category
           k == w.key
           value == IF PendingAfterHead(c, k) THEN cache[c][k] ELSE stored[c][k]
<1>1. /\ outbox' \in Seq(KeptWrite)
      /\ \A i \in 1..Len(outbox') : outbox'[i].key \in used'
      /\ w \in KeptWrite
    BY TailKept DEF Reject
<1>2. c \in Category /\ k \in Key
    BY <1>1 DEF KeptWrite, Write
<1>3. cache \in Whole /\ stored \in Whole
    BY DEF DbInv
<1>4. /\ value \in Record \cup {NoRecord}
      /\ value # NoRecord => CategoryOf[k] = c /\ value.picture = PictureOf[k]
    BY <1>2, <1>3 DEF Whole, Contents
<1>5. /\ cache' = [cache EXCEPT ![c][k] = value]
      /\ mainQueue' = Append(mainQueue \o Raised(c, k, value), Answer(FALSE))
    BY DEF Reject
<1> HIDE DEF c, k, value
<1>6. cache' \in Whole
    BY <1>2, <1>3, <1>4, <1>5, WholeExcept
<1>7. Raised(c, k, value) \in Seq(KeptBlock(observing))
    BY <1>2, <1>3, <1>4, RaisedKept DEF DbInv
<1>8. mainQueue \o Raised(c, k, value) \in Seq(KeptBlock(observing))
    BY <1>7, ConcatProperties DEF DbInv
<1>9. Answer(FALSE) \in KeptBlock(observing)
    BY AnswerKept DEF Reject
<1>10. mainQueue' \in Seq(KeptBlock(observing))
    BY <1>5, <1>8, <1>9, AppendProperties
<1>11. DbTypeOK'
    BY <1>1, <1>6, <1>10, KeptTypes DEF Reject, DbInv, DbTypeOK, Whole
<1> QED BY <1>1, <1>6, <1>10, <1>11 DEF Reject, DbInv, Issued

LEMMA OtherWriteKept ==
    ASSUME DbInv, NEW k \in Key, NEW value \in Record \cup {NoRecord},
           value # NoRecord => value.picture = PictureOf[k],
           OtherWrite(k, value)
    PROVE  DbInv'
<1> DEFINE c == CategoryOf[k]
           seen == IF Pending(c, k) THEN cache[c][k] ELSE value
<1>1. c \in Category
    BY Created
<1>2. cache \in Whole /\ stored \in Whole
    BY DEF DbInv
<1>3. /\ seen \in Record \cup {NoRecord}
      /\ seen # NoRecord => CategoryOf[k] = c /\ seen.picture = PictureOf[k]
    BY <1>1, <1>2 DEF Whole, Contents
<1>4. /\ stored' = [stored EXCEPT ![c][k] = value]
      /\ cache' = [cache EXCEPT ![c][k] = seen]
      /\ mainQueue' = mainQueue \o Raised(c, k, seen)
    BY DEF OtherWrite
<1>5. CategoryOf[k] = c
    OBVIOUS
<1> HIDE DEF c, seen
<1>6. stored' \in Whole
    BY <1>1, <1>2, <1>4, <1>5, WholeExcept
<1>7. cache' \in Whole
    BY <1>1, <1>2, <1>3, <1>4, WholeExcept
<1>8. Raised(c, k, seen) \in Seq(KeptBlock(observing))
    BY <1>1, <1>2, <1>3, RaisedKept DEF DbInv
<1>9. mainQueue' \in Seq(KeptBlock(observing))
    BY <1>4, <1>8, ConcatProperties DEF DbInv
<1>10. ASSUME NEW d \in Category, NEW l \in Key, stored'[d][l] # NoRecord
       PROVE  l \in used'
    <2>1. CASE l = k
        BY <2>1 DEF OtherWrite
    <2>2. CASE l # k
        <3>1. stored'[d][l] = stored[d][l]
            BY <2>2, <1>1, <1>4 DEF DbInv, DbTypeOK, Contents
        <3> QED BY <3>1, <1>10 DEF DbInv, Issued, OtherWrite
    <2> QED BY <2>1, <2>2
<1>11. \A i \in 1..Len(outbox') : outbox'[i].key \in used'
    BY DEF OtherWrite, DbInv, Issued
<1>12. DbTypeOK'
    BY <1>6, <1>7, <1>9, KeptTypes DEF OtherWrite, DbInv, DbTypeOK, Whole
<1> QED BY <1>6, <1>7, <1>9, <1>10, <1>11, <1>12 DEF OtherWrite, DbInv, Issued

LEMMA OtherAdminKept ==
    ASSUME DbInv, OtherAdmin
    PROVE  DbInv'
<1>1. PICK k \in Key :
        \/ OtherWrite(k, NoRecord)
        \/ \E t \in Text : OtherWrite(k, [text |-> t, picture |-> PictureOf[k]])
    BY DEF OtherAdmin
<1>2. CASE OtherWrite(k, NoRecord)
    BY <1>2, OtherWriteKept
<1>3. ASSUME NEW t \in Text, OtherWrite(k, [text |-> t, picture |-> PictureOf[k]])
      PROVE  DbInv'
    <2> DEFINE value == [text |-> t, picture |-> PictureOf[k]]
    <2>1. value \in Record /\ value.picture = PictureOf[k]
        BY Created DEF Record
    <2> HIDE DEF value
    <2> QED BY <2>1, <1>3, OtherWriteKept DEF value
<1> QED BY <1>1, <1>2, <1>3

LEMMA InitialSnapshotKept ==
    ASSUME DbInv, InitialSnapshot
    PROVE  DbInv'
<1>1. PICK c \in awaiting :
        /\ awaiting' = awaiting \ {c}
        /\ mainQueue' = mainQueue
                \o (IF observing = c THEN <<ToOpen(cache[c])>> ELSE <<>>)
                \o (IF c \in leaked THEN <<ToClosed(cache[c])>> ELSE <<>>)
        /\ UNCHANGED <<stored, cache, outbox, used, observing, leaked>>
    BY DEF InitialSnapshot
<1> DEFINE open == IF observing = c THEN <<ToOpen(cache[c])>> ELSE <<>>
           closed == IF c \in leaked THEN <<ToClosed(cache[c])>> ELSE <<>>
<1>2. c \in Category
    BY DEF DbInv, DbTypeOK
<1>3. cache[c] \in KeptRows(c) /\ cache[c] \in Contents
    BY <1>2, WholeRows DEF DbInv, Whole
<1>4. open \in Seq(KeptBlock(observing))
    <2>1. observing = c => ToOpen(cache[c]) \in KeptBlock(observing)
        BY <1>2, <1>3, Absent DEF ToOpen, KeptBlock, Event
    <2> QED BY <2>1
<1>5. closed \in Seq(KeptBlock(observing))
    <2>1. ToClosed(cache[c]) \in KeptBlock(observing)
        BY <1>3 DEF ToClosed, KeptBlock, Event
    <2> QED BY <2>1
<1>6. mainQueue' = mainQueue \o open \o closed
    BY <1>1
<1> HIDE DEF open, closed
<1>7. mainQueue' \in Seq(KeptBlock(observing))
    BY <1>4, <1>5, <1>6, ConcatProperties DEF DbInv
<1>8. DbTypeOK'
    BY <1>1, <1>7, KeptTypes DEF DbInv, DbTypeOK
<1> QED BY <1>1, <1>7, <1>8 DEF DbInv, Issued

LEMMA ObserveKept ==
    ASSUME DbInv, NEW c \in Category, Observe(c), observing = NoCategory
    PROVE  DbInv'
<1>1. KeptBlock(observing) \subseteq KeptBlock(observing')
    BY DEF KeptBlock
<1>2. mainQueue' \in Seq(KeptBlock(observing'))
    BY <1>1, SeqMonotonic DEF Observe, DbInv
<1>3. DbTypeOK'
    BY DEF Observe, DbInv, DbTypeOK
<1> QED BY <1>2, <1>3 DEF Observe, DbInv, Issued, KeptBlock, KeptRows

LEMMA AbandonKept ==
    ASSUME DbInv, Abandon, observing \in Category
    PROVE  DbInv' /\ observing' = NoCategory
<1>1. mainQueue \in Seq(Event \cup Completion)
    BY DEF DbInv, DbTypeOK
<1>2. Len(mainQueue) \in Nat
    BY <1>1
<1>3. \A i \in 1..Len(mainQueue) : mainQueue[i] \in Event \cup Completion
    BY <1>1
<1>4. ASSUME NEW i \in 1..Len(mainQueue)
      PROVE  (IF mainQueue[i].what = "value" THEN ToClosed(mainQueue[i].rows)
              ELSE mainQueue[i]) \in KeptBlock(NoCategory)
    BY <1>3 DEF KeptBlock, Event, Completion, ToClosed
<1>5. mainQueue' \in Seq(KeptBlock(NoCategory))
    BY <1>2, <1>4 DEF Abandon
<1>6. DbTypeOK'
    BY <1>5, KeptTypes DEF Abandon, DbInv, DbTypeOK
<1> QED BY <1>5, <1>6 DEF Abandon, DbInv, Issued

LEMMA RunKept ==
    ASSUME DbInv, NEW what, Run(what)
    PROVE  /\ DbInv'
           /\ Head(mainQueue) \in KeptBlock(observing)
           /\ Head(mainQueue).what = what
<1>1. /\ Head(mainQueue) \in KeptBlock(observing)
      /\ mainQueue' \in Seq(KeptBlock(observing))
    BY HeadTailProperties DEF Run, DbInv
<1>2. DbTypeOK'
    BY <1>1, KeptTypes DEF Run, DbInv, DbTypeOK
<1> QED BY <1>1, <1>2 DEF Run, DbInv, Issued

LEMMA DisconnectKept ==
    ASSUME DbInv, Disconnect
    PROVE  DbInv'
BY EmptySeq DEF Disconnect, DbInv, DbTypeOK, Issued

LEMMA DbInitKept ==
    ASSUME DbInit
    PROVE  DbInv
<1>1. PICK present \in SUBSET Key, text \in [Key -> Text] :
        /\ stored = [c \in Category |-> [k \in Key |->
                        IF k \in present /\ CategoryOf[k] = c
                        THEN [text |-> text[k], picture |-> PictureOf[k]]
                        ELSE NoRecord]]
        /\ used = present
    BY DEF DbInit
<1>2. stored \in [Category -> Contents]
    BY <1>1, Created DEF Contents, Record
<1>3. \A c \in Category, k \in Key : stored[c][k] # NoRecord =>
        k \in used /\ CategoryOf[k] = c /\ stored[c][k].picture = PictureOf[k]
    BY <1>1
<1>4. stored \in Whole
    BY <1>2, <1>3 DEF Whole
<1> QED BY <1>1, <1>2, <1>3, <1>4, EmptySeq DEF DbInit, DbInv, DbTypeOK, Issued

-----------------------------------------------------------------------------
(* The screen and the database together.                                     *)

LEMMA InitInv == Init => Inv
<1> SUFFICES ASSUME Init PROVE Inv
    OBVIOUS
<1>1. DbInv
    BY DbInitKept DEF Init
<1>2. ScreenInv
    BY DEF Init, Launched, DbInit, ScreenInv, ScreenTypeOK, AppTypeOK, DetailTypeOK,
           AddTypeOK, SelectionKept, RowsKept, Nested, SelectedIsShown, OnScreen, detailVars,
           Product, EmptyProduct, Described, Rows, Row, Empty, DetailView, NewView,
           Content, Refused
<1> QED BY <1>1, <1>2 DEF Inv

\* A step that leaves the database alone keeps its invariant.
LEMMA DbUntouched == DbInv /\ UNCHANGED dbVars => DbInv'
BY DEF dbVars, DbInv, DbTypeOK, Issued, KeptBlock, KeptRows

\* A step of the database that leaves the list's observer alone keeps the
\* screen's invariant.
LEMMA ScreenUntouched ==
    ScreenInv /\ UNCHANGED <<appVars, detailVars, addVars, observing>> => ScreenInv'
<1> SUFFICES ASSUME ScreenInv, UNCHANGED <<appVars, detailVars, addVars, observing>>
             PROVE  ScreenInv'
    OBVIOUS
<1>1. ScreenTypeOK'
    BY DEF appVars, detailVars, addVars, ScreenInv, ScreenTypeOK, AppTypeOK, DetailTypeOK,
           AddTypeOK
<1>2. SelectionKept'
    BY DEF appVars, ScreenInv, SelectionKept
<1>3. RowsKept'
    BY DEF appVars, ScreenInv, RowsKept
<1>4. Nested'
    BY DEF appVars, detailVars, addVars, ScreenInv, Nested
<1>5. SelectedIsShown'
    BY DEF appVars, ScreenInv, SelectedIsShown, OnScreen, detailVars
<1> QED BY <1>1, <1>2, <1>3, <1>4, <1>5 DEF ScreenInv

\* A trap changes nothing the invariant is about.
LEMMA TrapInv ==
    ASSUME Inv, NEW why \in {"price", "price, late", "key"}, Trap(why),
           alert' \in BOOLEAN, alert' => alert, UNCHANGED addVars
    PROVE  Inv'
<1>1. DbInv'
    BY DbUntouched DEF Trap, Inv
<1>2. ScreenInv'
    BY DEF Trap, dbVars, addVars, Inv, ScreenInv, ScreenTypeOK, AppTypeOK, DetailTypeOK,
           AddTypeOK, SelectionKept, RowsKept, Nested, SelectedIsShown, OnScreen, detailVars
<1> QED BY <1>1, <1>2 DEF Inv

\* The views after another one comes on screen: a new one, which shows nothing.
LEMMA PresentViews ==
    ASSUME AppTypeOK, NEW v \in View \cup {NoView}, Present(v)
    PROVE  /\ visible' = v
           /\ views' \in [View -> DetailView]
           /\ v # NoView => views'[v].phase = "undrawn"
<1>1. NewView \in DetailView /\ NewView.phase = "undrawn"
    BY DEF NewView, DetailView, Content, Refused
<1>2. v # NoView => views'[v] = NewView
    BY DEF Present
<1>3. views' \in [View -> DetailView]
    BY <1>1 DEF Present, AppTypeOK
<1> QED BY <1>1, <1>2, <1>3 DEF Present

-----------------------------------------------------------------------------
LEMMA OpenCategoryInv ==
    ASSUME Inv, NEW c \in Category, NEW v \in View \cup {NoView}, OpenCategory(c, v),
           ~alert, popup = NoView, UNCHANGED <<detailVars, addVars>>
    PROVE  Inv'
<1>1. DbInv'
    BY ObserveKept DEF OpenCategory, Inv
<1>2. visible' = v /\ views' \in [View -> DetailView] /\ (v # NoView => views'[v].phase = "undrawn")
    BY PresentViews DEF OpenCategory, Inv, ScreenInv, ScreenTypeOK
<1>3. observing = NoCategory /\ observing' = c /\ currentCategory' = c
    BY DEF OpenCategory, Observe
<1>4. selectedProduct.key = NoKey
    <2>1. selectedProduct.key \in Key \cup {NoKey}
        BY DEF Inv, ScreenInv, ScreenTypeOK, AppTypeOK, Product
    <2>2. ASSUME selectedProduct.key # NoKey PROVE FALSE
        <3>1. CategoryOf[selectedProduct.key] \in Category
            BY <2>1, <2>2, Created
        <3>2. CategoryOf[selectedProduct.key] = NoCategory
            BY <2>2, <1>3 DEF Inv, ScreenInv, SelectionKept
        <3> QED BY <3>1, <3>2, Absent
    <2> QED BY <2>2
<1>5. productsArray' \in Rows /\ \A k \in Key : productsArray'[k] = NoRecord
    BY DEF OpenCategory, Empty, Rows
<1>6. ScreenTypeOK'
    BY <1>2, <1>3, <1>5
    DEF OpenCategory, Inv, ScreenInv, ScreenTypeOK, AppTypeOK, DetailTypeOK, AddTypeOK,
        detailVars, addVars
<1>7. SelectionKept'
    BY <1>4 DEF OpenCategory, Inv, ScreenInv, SelectionKept
<1>8. RowsKept' /\ SelectedIsShown'
    BY <1>2, <1>5 DEF RowsKept, SelectedIsShown, OnScreen, detailVars
<1>9. Nested'
    BY <1>2, <1>3, Absent DEF Nested, detailVars, addVars
<1> QED BY <1>1, <1>6, <1>7, <1>8, <1>9 DEF Inv, ScreenInv

LEMMA SelectRowInv ==
    ASSUME Inv, NEW k \in Key, NEW v \in View, SelectRow(k, v),
           ~alert, popup = NoView, UNCHANGED <<detailVars, addVars>>
    PROVE  Inv'
<1>1. DbInv' /\ observing' = observing
    BY DbUntouched DEF SelectRow, Inv, dbVars
<1>2. visible' = v /\ views' \in [View -> DetailView] /\ views'[v].phase = "undrawn" /\ v # NoView
    BY PresentViews, Absent DEF SelectRow, Inv, ScreenInv, ScreenTypeOK
<1>3. productsArray[k] \in Row
    BY DEF SelectRow, Inv, ScreenInv, ScreenTypeOK, AppTypeOK, Rows
<1>4. selectedProduct' \in Product /\ selectedProduct'.key = k /\ k # NoKey
      /\ selectedProduct'.picture = productsArray[k].picture
    BY <1>3, Absent DEF SelectRow, Row, Product
<1>5. ScreenTypeOK'
    BY <1>2, <1>4
    DEF SelectRow, Inv, ScreenInv, ScreenTypeOK, AppTypeOK, DetailTypeOK, AddTypeOK,
        detailVars, addVars
<1>6. SelectionKept'
    BY <1>1, <1>4 DEF SelectRow, Inv, ScreenInv, SelectionKept, RowsKept
<1>7. RowsKept' /\ SelectedIsShown'
    BY <1>1, <1>2 DEF SelectRow, Inv, ScreenInv, RowsKept, SelectedIsShown, OnScreen, detailVars
<1>8. Nested'
    BY <1>1, <1>2 DEF SelectRow, Inv, ScreenInv, Nested, detailVars, addVars
<1> QED BY <1>1, <1>5, <1>6, <1>7, <1>8 DEF Inv, ScreenInv

LEMMA BackInv ==
    ASSUME Inv, Back, ~alert, popup = NoView, UNCHANGED <<detailVars, addVars>>
    PROVE  Inv'
<1>1. DbInv' /\ observing' = observing
    BY DbUntouched DEF Back, Inv, dbVars
<1>2. visible' = NoView /\ views' \in [View -> DetailView]
    BY PresentViews DEF Back, Inv, ScreenInv, ScreenTypeOK
<1>3. ScreenInv'
    BY <1>1, <1>2
    DEF Back, Inv, ScreenInv, ScreenTypeOK, AppTypeOK, DetailTypeOK, AddTypeOK,
        SelectionKept, RowsKept, Nested, SelectedIsShown, OnScreen, detailVars, addVars
<1> QED BY <1>1, <1>3 DEF Inv

\* What makes exit safe: with the selection reset, nothing of this category is
\* left for the next one.
LEMMA ExitInv ==
    ASSUME Inv, Exit, ~alert, popup = NoView, UNCHANGED <<detailVars, addVars>>
    PROVE  Inv'
<1>1. DbInv' /\ observing' = NoCategory
    BY AbandonKept DEF Exit, Inv, DbInv, DbTypeOK
<1>2. visible' = NoView /\ views' \in [View -> DetailView]
    BY PresentViews DEF Exit, Inv, ScreenInv, ScreenTypeOK
<1>3. productsArray' \in Rows /\ \A k \in Key : productsArray'[k] = NoRecord
    BY DEF Exit, Empty, Rows
<1>4. selectedProduct' \in Product /\ selectedProduct'.key = NoKey
    BY DEF Exit, EmptyProduct, Product, Described
<1>5. ScreenTypeOK'
    BY <1>2, <1>3, <1>4
    DEF Exit, Inv, ScreenInv, ScreenTypeOK, AppTypeOK, DetailTypeOK, AddTypeOK,
        detailVars, addVars
<1>6. SelectionKept' /\ RowsKept' /\ SelectedIsShown' /\ Nested'
    BY <1>1, <1>2, <1>3, <1>4
    DEF Exit, SelectionKept, RowsKept, SelectedIsShown, OnScreen, detailVars, Nested,
        detailVars, addVars
<1> QED BY <1>1, <1>5, <1>6 DEF Inv, ScreenInv

-----------------------------------------------------------------------------
\* A view on screen is a view of the open category.
LEMMA OnScreenView ==
    ASSUME Inv, visible # NoView
    PROVE  visible \in View /\ observing \in Category /\ currentCategory = observing
           /\ views \in [View -> DetailView] /\ selectedProduct \in Product
BY DEF Inv, DbInv, DbTypeOK, ScreenInv, ScreenTypeOK, AppTypeOK, Nested

\* Replacing the visible view by one that shows the selected product, or none,
\* or what it showed before.
LEMMA VisibleViewInv ==
    ASSUME Inv, visible # NoView, NEW d \in DetailView,
           views' = [views EXCEPT ![visible] = d],
           d.phase # "undrawn",
           d.phase = "shown" \/ alert =>
                \/ d.product = selectedProduct.key
                \/ OnScreen /\ d.product = views[visible].product,
           UNCHANGED <<dbVars, currentCategory, selectedProduct, productsArray,
                       aliased, spinner, visible, trapped, detailVars, addVars>>
    PROVE  Inv'
<1>1. DbInv' /\ observing' = observing
    BY DbUntouched DEF Inv, dbVars
<1>2. visible \in View /\ views \in [View -> DetailView]
    BY OnScreenView
<1>3. views' \in [View -> DetailView] /\ views'[visible] = d
    BY <1>2
<1>4. ScreenTypeOK'
    BY <1>3 DEF Inv, ScreenInv, ScreenTypeOK, AppTypeOK, DetailTypeOK, AddTypeOK,
                detailVars, addVars
<1>5. SelectionKept' /\ RowsKept' /\ Nested'
    BY <1>1, <1>3 DEF Inv, ScreenInv, SelectionKept, RowsKept, Nested, detailVars, addVars
<1>6. SelectedIsShown'
    BY <1>3 DEF Inv, ScreenInv, SelectedIsShown, OnScreen, detailVars
<1> QED BY <1>1, <1>4, <1>5, <1>6 DEF Inv, ScreenInv

LEMMA DrawInv ==
    ASSUME Inv, Draw, UNCHANGED addVars
    PROVE  Inv'
<1> DEFINE filled == selectedProduct.text # "unnamed"
           d == [phase     |-> IF filled THEN "shown" ELSE "hidden",
                 text      |-> IF filled THEN selectedProduct.text ELSE "unnamed",
                 editState |-> views[visible].editState,
                 editable  |-> views[visible].editState,
                 product   |-> IF filled THEN selectedProduct.key ELSE NoKey]
<1>1. visible # NoView /\ views' = [views EXCEPT ![visible] = d]
    BY DEF Draw
<1>2. d \in DetailView
    BY <1>1, OnScreenView DEF DetailView, Product, Described, Content, Refused
<1>3. d.phase # "undrawn" /\ (d.phase = "shown" => d.product = selectedProduct.key)
    OBVIOUS
<1>4. ~alert
    BY DEF Draw, Inv, ScreenInv, Nested
<1> HIDE DEF d
<1> QED BY <1>1, <1>2, <1>3, <1>4, VisibleViewInv DEF Draw

LEMMA EditPressedInv ==
    ASSUME Inv, EditPressed, UNCHANGED addVars
    PROVE  Inv'
<1> DEFINE old == views[visible]
           editing == ~old.editState
           d == [old EXCEPT !.editState = editing,
                            !.editable = editing,
                            !.text = IF editing THEN @ ELSE selectedProduct.text,
                            !.product = IF editing THEN @ ELSE selectedProduct.key]
<1>1. visible # NoView /\ views[visible].phase = "shown"
    BY DEF EditPressed, OnScreen
<1>2. visible \in View /\ views \in [View -> DetailView] /\ selectedProduct \in Product
    BY <1>1, OnScreenView
<1>3. views' = [views EXCEPT ![visible] = d]
    BY <1>2 DEF EditPressed, DetailView
<1>4. d \in DetailView
    <2>1. old \in DetailView
        BY <1>2
    <2>2. editing \in BOOLEAN
        OBVIOUS
    <2>3. selectedProduct.text \in Content /\ selectedProduct.key \in Key \cup {NoKey}
        BY <1>2 DEF Product, Described, Content, Refused
    <2>4. CASE editing
        BY <2>1, <2>2, <2>4 DEF DetailView
    <2>5. CASE ~editing
        BY <2>1, <2>2, <2>3, <2>5 DEF DetailView
    <2> QED BY <2>4, <2>5
<1>5. /\ d.phase = views[visible].phase
      /\ d.product = selectedProduct.key \/ d.product = views[visible].product
    BY <1>2 DEF DetailView
<1> HIDE DEF d
<1> QED BY <1>1, <1>3, <1>4, <1>5, VisibleViewInv DEF EditPressed, OnScreen

LEMMA TypeIntoInv ==
    ASSUME Inv, NEW content \in Typed, TypeInto(content), UNCHANGED addVars
    PROVE  Inv'
<1> DEFINE d == [views[visible] EXCEPT !.text = content]
<1>1. visible # NoView /\ views[visible].phase = "shown"
    BY DEF TypeInto, OnScreen
<1>2. visible \in View /\ views \in [View -> DetailView]
    BY <1>1, OnScreenView
<1>3. views' = [views EXCEPT ![visible] = d]
    BY <1>2 DEF TypeInto, DetailView
<1>4. /\ d \in DetailView /\ d.product = views[visible].product
      /\ d.phase = views[visible].phase
    BY <1>2, Typing DEF DetailView
<1> HIDE DEF d
<1> QED BY <1>1, <1>3, <1>4, VisibleViewInv DEF TypeInto, OnScreen

-----------------------------------------------------------------------------
\* A write to a product of the open category, from the screens, keeps Inv.
LEMMA ScreenPutInv ==
    ASSUME Inv, NEW k \in Key, NEW value \in Record \cup {NoRecord}, NEW reply \in Reply,
           CategoryOf[k] = currentCategory, currentCategory \in Category,
           value # NoRecord => value.picture = PictureOf[k],
           Put(currentCategory, k, value, reply),
           spinner' \in BOOLEAN, alert' \in BOOLEAN, alert' => alert,
           UNCHANGED <<currentCategory, selectedProduct, productsArray, aliased,
                       visible, views, trapped, addVars>>
    PROVE  Inv'
<1>1. DbInv' /\ observing' = observing
    BY PutKept DEF Inv, Put
<1>2. ScreenTypeOK'
    BY DEF Inv, ScreenInv, ScreenTypeOK, AppTypeOK, DetailTypeOK, AddTypeOK, addVars
<1>3. SelectionKept' /\ RowsKept'
    BY <1>1 DEF Inv, ScreenInv, SelectionKept, RowsKept
<1>4. Nested' /\ SelectedIsShown'
    BY <1>1 DEF Inv, ScreenInv, Nested, SelectedIsShown, OnScreen, detailVars, addVars
<1> QED BY <1>1, <1>2, <1>3, <1>4 DEF Inv, ScreenInv

\* With a view on screen, a selection is a product of the open category.
LEMMA SelectionIsOfCategory ==
    ASSUME Inv, visible # NoView, selectedProduct.key # NoKey
    PROVE  /\ selectedProduct.key \in Key
           /\ CategoryOf[selectedProduct.key] = currentCategory
           /\ currentCategory \in Category
           /\ selectedProduct.picture = PictureOf[selectedProduct.key]
           /\ selectedProduct.picture \in Picture
<1>1. currentCategory = observing /\ observing \in Category /\ selectedProduct \in Product
    BY OnScreenView
<1>2. selectedProduct.key \in Key
    BY <1>1 DEF Product
<1>3. /\ CategoryOf[selectedProduct.key] = observing
      /\ selectedProduct.picture = PictureOf[selectedProduct.key]
    BY DEF Inv, ScreenInv, SelectionKept
<1> QED BY <1>1, <1>2, <1>3, Created

LEMMA SavePressedInv ==
    ASSUME Inv, SavePressed, UNCHANGED addVars
    PROVE  Inv'
<1>1. visible # NoView /\ alert' = alert
    BY DEF SavePressed, OnScreen, detailVars
<1>2. alert \in BOOLEAN
    BY DEF Inv, ScreenInv, ScreenTypeOK, DetailTypeOK
<1>3. CASE Trap("price") \/ Trap("key")
    BY <1>1, <1>2, <1>3, TrapInv
<1>4. ASSUME ~NoInt(views[visible].text), selectedProduct.key # NoKey,
             Put(currentCategory, selectedProduct.key,
                 [text |-> views[visible].text, picture |-> selectedProduct.picture],
                 [what |-> "saved", view |-> visible]),
             spinner' = TRUE,
             UNCHANGED <<currentCategory, selectedProduct, productsArray,
                         aliased, visible, views, trapped>>
      PROVE  Inv'
    <2> DEFINE value == [text |-> views[visible].text, picture |-> selectedProduct.picture]
               reply == [what |-> "saved", view |-> visible]
               k == selectedProduct.key
    <2>1. /\ k \in Key /\ CategoryOf[k] = currentCategory
          /\ currentCategory \in Category
          /\ selectedProduct.picture = PictureOf[k] /\ selectedProduct.picture \in Picture
        BY <1>1, <1>4, SelectionIsOfCategory
    <2>2. views[visible].text \in Text
        <3>1. views[visible].text \in Content
            BY <1>1, OnScreenView DEF DetailView
        <3>2. views[visible].text \notin Refused /\ ~NoInt(views[visible].text)
            BY <1>4 DEF SavePressed
        <3> QED BY <3>1, <3>2 DEF Content, Refused, NoInt
    <2>3. value \in Record /\ value.picture = PictureOf[k]
        BY <2>1, <2>2 DEF Record
    <2>4. reply \in Reply
        BY <1>1, OnScreenView DEF Reply
    <2>5. Put(currentCategory, k, value, reply)
        BY <1>4
    <2> HIDE DEF value, reply, k
    <2> QED BY <1>1, <1>2, <1>4, <2>1, <2>3, <2>4, <2>5, ScreenPutInv
<1> QED BY <1>3, <1>4 DEF SavePressed, NewProductDictionary

\* The alert comes and goes over a view that is on screen.
LEMMA AlertInv ==
    ASSUME Inv, DeletePressed \/ CancelDelete, UNCHANGED addVars
    PROVE  Inv'
<1>1. DbInv' /\ observing' = observing
    BY DbUntouched DEF DeletePressed, CancelDelete, Inv, dbVars
<1>2. alert' \in BOOLEAN /\ (alert' => OnScreen) /\ UNCHANGED appVars
    BY DEF DeletePressed, CancelDelete
<1>3. ScreenTypeOK'
    BY <1>2 DEF appVars, addVars, Inv, ScreenInv, ScreenTypeOK, AppTypeOK, DetailTypeOK, AddTypeOK
<1>4. SelectionKept' /\ RowsKept'
    BY <1>1, <1>2 DEF appVars, Inv, ScreenInv, SelectionKept, RowsKept
<1>5. Nested'
    BY <1>1, <1>2 DEF appVars, addVars, Inv, ScreenInv, Nested, OnScreen
<1>6. SelectedIsShown'
    BY <1>2 DEF appVars, Inv, ScreenInv, SelectedIsShown, OnScreen
<1> QED BY <1>1, <1>3, <1>4, <1>5, <1>6 DEF Inv, ScreenInv

LEMMA ConfirmDeleteInv ==
    ASSUME Inv, ConfirmDelete, UNCHANGED addVars
    PROVE  Inv'
<1>1. visible # NoView /\ alert' = FALSE
    BY DEF ConfirmDelete, Inv, ScreenInv, Nested
<1>2. CASE Trap("key")
    BY <1>1, <1>2, TrapInv
<1>3. ASSUME selectedProduct.key # NoKey,
             Put(currentCategory, selectedProduct.key, NoRecord,
                 [what |-> "deleted", view |-> visible]),
             UNCHANGED appVars
      PROVE  Inv'
    <2>1. /\ selectedProduct.key \in Key
          /\ CategoryOf[selectedProduct.key] = currentCategory
          /\ currentCategory \in Category
        BY <1>1, <1>3, SelectionIsOfCategory
    <2>2. [what |-> "deleted", view |-> visible] \in Reply
        BY <1>1, OnScreenView DEF Reply
    <2>3. spinner' \in BOOLEAN
        BY <1>3 DEF appVars, Inv, ScreenInv, ScreenTypeOK, AppTypeOK
    <2> QED BY <1>1, <1>3, <2>1, <2>2, <2>3, ScreenPutInv DEF appVars
<1> QED BY <1>2, <1>3 DEF ConfirmDelete

-----------------------------------------------------------------------------
\* What the head of the main queue is, by its kind.
LEMMA RunBlockOf ==
    ASSUME Inv, NEW what, Run(what)
    PROVE  /\ DbInv' /\ observing' = observing
           /\ what = "value" => /\ observing # NoCategory
                                /\ Head(mainQueue).rows \in KeptRows(observing)
           /\ what \in {"saved", "deleted"} => Head(mainQueue).view \in View
<1>1. /\ DbInv' /\ Head(mainQueue) \in KeptBlock(observing)
      /\ Head(mainQueue).what = what
    BY RunKept DEF Inv
<1>2. what = "value" => /\ observing # NoCategory
                        /\ Head(mainQueue).rows \in KeptRows(observing)
    BY <1>1 DEF KeptBlock, Completion
<1>3. what \in {"saved", "deleted"} => Head(mainQueue).view \in View
    BY <1>1 DEF KeptBlock, Completion, Event
<1> QED BY <1>1, <1>2, <1>3 DEF Run

LEMMA ValueEventInv ==
    ASSUME Inv, ValueEvent, UNCHANGED <<detailVars, addVars>>
    PROVE  Inv'
<1> DEFINE rows == Head(mainQueue).rows
<1>1. DbInv' /\ observing' = observing /\ rows \in KeptRows(observing)
    BY RunBlockOf DEF ValueEvent
<1>2. rows \in Rows
    BY <1>1 DEF KeptRows, Contents, Record, Rows, Row, Described
<1>3. /\ \/ UNCHANGED <<productsArray, aliased, spinner>>
         \/ productsArray' = rows /\ aliased' = FALSE /\ spinner' = FALSE
      /\ UNCHANGED <<currentCategory, selectedProduct, visible, views, trapped>>
    BY DEF ValueEvent, Rebuilt
<1> HIDE DEF rows
<1>4. ScreenTypeOK'
    BY <1>2, <1>3 DEF detailVars, addVars, Inv, ScreenInv, ScreenTypeOK, AppTypeOK,
                      DetailTypeOK, AddTypeOK
<1>5. SelectionKept'
    BY <1>1, <1>3 DEF Inv, ScreenInv, SelectionKept
<1>6. RowsKept'
    BY <1>1, <1>3 DEF Inv, ScreenInv, RowsKept, KeptRows
<1>7. Nested' /\ SelectedIsShown'
    BY <1>1, <1>3 DEF Inv, ScreenInv, Nested, SelectedIsShown, OnScreen, detailVars, addVars
<1> QED BY <1>1, <1>4, <1>5, <1>6, <1>7 DEF Inv, ScreenInv

LEMMA ClosedListEventInv ==
    ASSUME Inv, ClosedListEvent, UNCHANGED <<detailVars, addVars>>
    PROVE  Inv'
<1>1. DbInv' /\ observing' = observing
    BY RunBlockOf DEF ClosedListEvent
<1>2. /\ spinner' = spinner \/ spinner' = FALSE
      /\ UNCHANGED <<currentCategory, selectedProduct, productsArray, aliased,
                     visible, views, trapped>>
    BY DEF ClosedListEvent
<1>3. ScreenTypeOK'
    BY <1>2 DEF detailVars, addVars, Inv, ScreenInv, ScreenTypeOK, AppTypeOK,
                DetailTypeOK, AddTypeOK
<1>4. SelectionKept' /\ RowsKept'
    BY <1>1, <1>2 DEF Inv, ScreenInv, SelectionKept, RowsKept
<1>5. Nested' /\ SelectedIsShown'
    BY <1>1, <1>2 DEF Inv, ScreenInv, Nested, SelectedIsShown, OnScreen, detailVars, addVars
<1> QED BY <1>1, <1>3, <1>4, <1>5 DEF Inv, ScreenInv

\* The completion of a save changes no row but in its text.
LEMMA UpdateKeepsProducts ==
    ASSUME Inv, NEW v \in View, views[v].text \in Described, UpdateSelectedValues(v)
    PROVE  /\ productsArray' \in Rows
           /\ \A k \in Key : /\ productsArray'[k] = NoRecord <=> productsArray[k] = NoRecord
                             /\ productsArray[k] # NoRecord =>
                                 productsArray'[k].picture = productsArray[k].picture
<1>1. selectedProduct \in Product /\ productsArray \in Rows
    BY DEF Inv, ScreenInv, ScreenTypeOK, AppTypeOK
<1>2. CASE ~aliased
    BY <1>1, <1>2 DEF UpdateSelectedValues
<1>3. CASE aliased
    <2> DEFINE k0 == selectedProduct.key
               row == [productsArray[k0] EXCEPT !.text = views[v].text]
    <2>1. k0 \in Key /\ productsArray[k0] \in Row
        BY <1>1, <1>3 DEF Inv, ScreenInv, SelectionKept, Product, Rows
    <2>2. row \in Row /\ row.picture = productsArray[k0].picture
        BY <2>1 DEF Row
    <2>3. productsArray' = [productsArray EXCEPT ![k0] = row]
        BY <1>1, <1>3, <2>1 DEF UpdateSelectedValues, Rows, Row
    <2> HIDE DEF row, k0
    <2> QED BY <1>1, <2>1, <2>2, <2>3, NoRow DEF Rows
<1> QED BY <1>2, <1>3

\* The completion of a save changes texts only: not the selected key, not the
\* keys or pictures of the rows.
LEMMA SaveDoneInv ==
    ASSUME Inv, SaveDone, UNCHANGED addVars
    PROVE  Inv'
<1> DEFINE v == Head(mainQueue).view
<1>1. UNCHANGED <<currentCategory, aliased, visible, detailVars>>
    BY DEF SaveDone
<1>2. CASE Run("saved") /\ spinner' = FALSE
             /\ UNCHANGED <<selectedProduct, productsArray, views, trapped>>
    <2>1. DbInv' /\ observing' = observing
        BY <1>2, RunBlockOf
    <2>2. ScreenTypeOK'
        BY <1>1, <1>2 DEF detailVars, addVars, Inv, ScreenInv, ScreenTypeOK, AppTypeOK,
                          DetailTypeOK, AddTypeOK
    <2>3. SelectionKept' /\ RowsKept'
        BY <1>1, <1>2, <2>1 DEF Inv, ScreenInv, SelectionKept, RowsKept
    <2>4. Nested' /\ SelectedIsShown'
        BY <1>1, <1>2, <2>1
        DEF Inv, ScreenInv, Nested, SelectedIsShown, OnScreen, detailVars, addVars
    <2> QED BY <2>1, <2>2, <2>3, <2>4 DEF Inv, ScreenInv
<1>3. ASSUME Run("saved"), ~NoInt(views[v].text), spinner' = FALSE,
             views' = [views EXCEPT ![v].editable = FALSE],
             UpdateSelectedValues(v), UNCHANGED trapped
      PROVE  Inv'
    <2>1. DbInv' /\ observing' = observing /\ v \in View
        BY <1>3, RunBlockOf
    <2>2. /\ views \in [View -> DetailView] /\ selectedProduct \in Product
          /\ productsArray \in Rows
        BY DEF Inv, ScreenInv, ScreenTypeOK, AppTypeOK
    <2> HIDE DEF v
    <2>3. views[v].text \in Described
        <3>1. views[v].text \in Content
            BY <2>1, <2>2 DEF DetailView
        <3> QED BY <3>1, <1>3 DEF Content, Refused, NoInt, Described
    <2>4. /\ selectedProduct' \in Product
          /\ selectedProduct'.key = selectedProduct.key
          /\ selectedProduct'.picture = selectedProduct.picture
        BY <1>3, <2>2, <2>3 DEF UpdateSelectedValues, Product
    <2>5. /\ views' \in [View -> DetailView]
          /\ \A u \in View : /\ views'[u].phase = views[u].phase
                             /\ views'[u].product = views[u].product
        BY <1>3, <2>1, <2>2 DEF DetailView
    <2>6. /\ productsArray' \in Rows
          /\ \A k \in Key : /\ productsArray'[k] = NoRecord <=> productsArray[k] = NoRecord
                            /\ productsArray[k] # NoRecord =>
                                productsArray'[k].picture = productsArray[k].picture
        BY <1>3, <2>1, <2>3, UpdateKeepsProducts
    <2>7. ScreenTypeOK'
        BY <1>1, <1>3, <2>4, <2>5, <2>6
        DEF detailVars, addVars, Inv, ScreenInv, ScreenTypeOK, AppTypeOK, DetailTypeOK, AddTypeOK
    <2>8. SelectionKept'
        BY <1>1, <2>1, <2>2, <2>4, <2>6 DEF Inv, ScreenInv, SelectionKept, Product
    <2>9. RowsKept'
        BY <2>1, <2>6 DEF Inv, ScreenInv, RowsKept
    <2>10. visible \in View \cup {NoView}
        BY DEF Inv, ScreenInv, ScreenTypeOK, AppTypeOK
    <2>11. Nested'
        BY <1>1, <2>1, <2>5, <2>10 DEF Inv, ScreenInv, Nested, detailVars, addVars
    <2>12. SelectedIsShown'
        BY <1>1, <2>4, <2>5, <2>10
        DEF Inv, ScreenInv, Nested, SelectedIsShown, OnScreen, detailVars
    <2> QED BY <2>1, <2>7, <2>8, <2>9, <2>11, <2>12 DEF Inv, ScreenInv
<1>4. CASE Trap("price, late")
    BY <1>1, <1>4, TrapInv DEF detailVars, Inv, ScreenInv, ScreenTypeOK, DetailTypeOK
<1> QED BY <1>2, <1>3, <1>4 DEF SaveDone, SaveRefused

LEMMA DeleteDoneInv ==
    ASSUME Inv, DeleteDone, UNCHANGED addVars
    PROVE  Inv'
<1> DEFINE v == Head(mainQueue).view
<1>1. DbInv' /\ observing' = observing /\ v \in View
    BY RunBlockOf DEF DeleteDone
<1>2. /\ \/ UNCHANGED <<selectedProduct, aliased, views>>
         \/ /\ selectedProduct' = EmptyProduct
            /\ aliased' = FALSE
            /\ views' = [views EXCEPT ![v].phase = "hidden"]
      /\ UNCHANGED <<currentCategory, productsArray, spinner, visible, trapped, detailVars>>
    BY DEF DeleteDone, ResetForm
<1> HIDE DEF v
<1>3. views \in [View -> DetailView] /\ visible \in View \cup {NoView}
    BY DEF Inv, ScreenInv, ScreenTypeOK, AppTypeOK
<1>4. /\ views' \in [View -> DetailView]
      /\ \A u \in View : /\ (views'[u].phase = "shown" => views[u].phase = "shown")
                         /\ (views'[u].phase = "undrawn" => views[u].phase = "undrawn")
                         /\ views'[u].product = views[u].product
    <2>1. CASE views' = views
        BY <2>1, <1>3
    <2>2. CASE views' = [views EXCEPT ![v].phase = "hidden"]
        <3> DEFINE d == [views[v] EXCEPT !.phase = "hidden"]
        <3>1. d \in DetailView /\ d.phase = "hidden" /\ d.product = views[v].product
            BY <1>1, <1>3 DEF DetailView
        <3>2. views' = [views EXCEPT ![v] = d]
            BY <2>2, <1>1, <1>3 DEF DetailView
        <3> HIDE DEF d
        <3> QED BY <3>1, <3>2, <1>1, <1>3
    <2> QED BY <1>2, <2>1, <2>2
<1>5. EmptyProduct \in Product /\ EmptyProduct.key = NoKey
    BY DEF EmptyProduct, Product, Described
<1>6. ScreenTypeOK'
    BY <1>2, <1>4, <1>5
    DEF detailVars, addVars, Inv, ScreenInv, ScreenTypeOK, AppTypeOK, DetailTypeOK, AddTypeOK
<1>7. SelectionKept' /\ RowsKept'
    BY <1>1, <1>2, <1>5 DEF Inv, ScreenInv, SelectionKept, RowsKept
<1>8. Nested'
    BY <1>1, <1>2, <1>3, <1>4 DEF Inv, ScreenInv, Nested, detailVars, addVars
<1>9. SelectedIsShown'
    BY <1>2, <1>3, <1>4, <1>5 DEF Inv, ScreenInv, SelectedIsShown, OnScreen, detailVars
<1> QED BY <1>1, <1>6, <1>7, <1>8, <1>9 DEF Inv, ScreenInv

-----------------------------------------------------------------------------
\* The popup opens and closes over a view that is on screen.
LEMMA PopupUiInv ==
    ASSUME Inv,
           \/ \E p \in Popup : OpenPopup(p)
           \/ \E content \in Typed : TypeIntoPopup(content)
           \/ ClosePopup,
           UNCHANGED detailVars
    PROVE  Inv'
<1>1. UNCHANGED <<dbVars, appVars>> /\ AddTypeOK' /\ (popup' # NoView => visible # NoView)
    <2>1. ASSUME NEW p \in Popup, OpenPopup(p)
          PROVE  UNCHANGED <<dbVars, appVars>> /\ AddTypeOK' /\ visible # NoView
        BY <2>1 DEF OpenPopup, AddTypeOK, Content, Refused
    <2>2. ASSUME NEW content \in Typed, TypeIntoPopup(content)
          PROVE  UNCHANGED <<dbVars, appVars>> /\ AddTypeOK' /\ popup' = popup
        BY <2>2, Typing DEF TypeIntoPopup, AddTypeOK, Inv, ScreenInv, ScreenTypeOK
    <2>3. ASSUME ClosePopup
          PROVE  UNCHANGED <<dbVars, appVars>> /\ AddTypeOK' /\ popup' = NoView
        BY <2>3 DEF ClosePopup, AddTypeOK, Content, Refused
    <2> QED BY <2>1, <2>2, <2>3 DEF Inv, ScreenInv, Nested
<1>2. DbInv' /\ observing' = observing
    BY <1>1, DbUntouched DEF Inv, dbVars
<1>3. ScreenTypeOK'
    BY <1>1 DEF appVars, detailVars, Inv, ScreenInv, ScreenTypeOK, AppTypeOK, DetailTypeOK
<1>4. SelectionKept' /\ RowsKept' /\ SelectedIsShown'
    BY <1>1, <1>2 DEF appVars, Inv, ScreenInv, SelectionKept, RowsKept, SelectedIsShown, OnScreen, detailVars
<1>5. Nested'
    BY <1>1, <1>2 DEF appVars, detailVars, Inv, ScreenInv, Nested
<1> QED BY <1>2, <1>3, <1>4, <1>5 DEF Inv, ScreenInv

LEMMA PopupSavePressedInv ==
    ASSUME Inv, PopupSavePressed, UNCHANGED detailVars
    PROVE  Inv'
<1>1. popup \in Popup /\ popup # NoView /\ popupForm \in Content /\ alert \in BOOLEAN
    BY DEF PopupSavePressed, Inv, ScreenInv, ScreenTypeOK, AddTypeOK, DetailTypeOK
<1>2. visible # NoView
    BY <1>1 DEF Inv, ScreenInv, Nested
<1>3. CASE Trap("price")
    BY <1>1, <1>3, TrapInv DEF detailVars, PopupSavePressed
<1>4. ASSUME ~NoInt(popupForm), NEW k \in Key,
             IsAutoId(k, currentCategory, Placeholder),
             Put(currentCategory, k, [text |-> popupForm, picture |-> Placeholder],
                 [what |-> "added", view |-> popup]),
             UNCHANGED appVars
      PROVE  Inv'
    <2> DEFINE value == [text |-> popupForm, picture |-> Placeholder]
               reply == [what |-> "added", view |-> popup]
    <2>1. popupForm \in Text
        BY <1>1, <1>4 DEF PopupSavePressed, Content, Refused, NoInt
    <2>2. value \in Record /\ value.picture = PictureOf[k]
        BY <2>1, <1>4, Created DEF Record, IsAutoId
    <2>3. reply \in Reply
        BY <1>1 DEF Reply
    <2>4. Put(currentCategory, k, value, reply)
        BY <1>4
    <2>5. CategoryOf[k] = currentCategory /\ currentCategory \in Category
        BY <1>2, <1>4, OnScreenView DEF IsAutoId
    <2>6. spinner' \in BOOLEAN
        BY <1>4 DEF appVars, Inv, ScreenInv, ScreenTypeOK, AppTypeOK
    <2> HIDE DEF value, reply
    <2> QED BY <1>1, <1>4, <2>2, <2>3, <2>4, <2>5, <2>6, ScreenPutInv
            DEF appVars, detailVars, PopupSavePressed
<1> QED BY <1>3, <1>4 DEF PopupSavePressed

LEMMA AddDoneInv ==
    ASSUME Inv, AddDone, UNCHANGED detailVars
    PROVE  Inv'
<1>1. DbInv' /\ observing' = observing
    BY RunBlockOf DEF AddDone
<1>2. UNCHANGED appVars /\ AddTypeOK' /\ (popup' # NoView => popup # NoView)
    BY DEF AddDone, addVars, AddTypeOK, Content, Refused, Inv, ScreenInv, ScreenTypeOK
<1>3. ScreenTypeOK'
    BY <1>2 DEF appVars, detailVars, Inv, ScreenInv, ScreenTypeOK, AppTypeOK, DetailTypeOK
<1>4. SelectionKept' /\ RowsKept' /\ SelectedIsShown'
    BY <1>1, <1>2 DEF appVars, Inv, ScreenInv, SelectionKept, RowsKept, SelectedIsShown, OnScreen, detailVars
<1>5. Nested'
    BY <1>1, <1>2 DEF appVars, detailVars, Inv, ScreenInv, Nested
<1> QED BY <1>1, <1>3, <1>4, <1>5 DEF Inv, ScreenInv

LEMMA RelaunchInv ==
    ASSUME Inv, Relaunch
    PROVE  Inv'
<1>1. DbInv' /\ observing' = NoCategory
    BY DisconnectKept DEF Relaunch, Disconnect, Inv
<1>2. ScreenInv'
    BY <1>1
    DEF Relaunch, ScreenInv, ScreenTypeOK, AppTypeOK, DetailTypeOK, AddTypeOK,
        SelectionKept, RowsKept, Nested, SelectedIsShown, OnScreen, detailVars, Product, EmptyProduct,
        Described, Rows, Empty, DetailView, NewView, Content, Refused
<1> QED BY <1>1, <1>2 DEF Inv

\* The steps of the server and of other admins.
LEMMA ServerInv ==
    ASSUME Inv, Answered \/ Snapshot \/ Others
    PROVE  Inv'
<1>1. UNCHANGED <<appVars, detailVars, addVars>>
    BY DEF Answered, Snapshot, Others
<1>2. CASE Accept
    BY <1>1, <1>2, AcceptKept, ScreenUntouched DEF Inv, Accept
<1>3. CASE Reject
    BY <1>1, <1>3, RejectKept, ScreenUntouched DEF Inv, Reject
<1>4. CASE InitialSnapshot
    BY <1>1, <1>4, InitialSnapshotKept, ScreenUntouched DEF Inv, InitialSnapshot
<1>5. CASE OtherAdmin
    <2>1. observing' = observing
        BY <1>5 DEF OtherAdmin, OtherWrite
    <2> QED BY <1>1, <1>5, <2>1, OtherAdminKept, ScreenUntouched DEF Inv
<1> QED BY <1>2, <1>3, <1>4, <1>5 DEF Answered, Snapshot, Others

-----------------------------------------------------------------------------
LEMMA ListTapInv ==
    ASSUME Inv, ListTap
    PROVE  Inv'
<1>1. ~alert /\ popup = NoView /\ UNCHANGED <<detailVars, addVars>>
    BY DEF ListTap, Uncovered
<1>2. ASSUME NEW c \in Category, NEW v \in View \cup {NoView}, OpenCategory(c, v)
      PROVE  Inv'
    BY <1>1, <1>2, OpenCategoryInv
<1>3. ASSUME NEW k \in Key, NEW v \in View, SelectRow(k, v)
      PROVE  Inv'
    BY <1>1, <1>3, SelectRowInv
<1>4. CASE Back
    BY <1>1, <1>4, BackInv
<1>5. CASE Exit
    BY <1>1, <1>5, ExitInv
<1> QED BY <1>2, <1>3, <1>4, <1>5 DEF ListTap

LEMMA TapInv ==
    ASSUME Inv, Tap
    PROVE  Inv'
<1>1. CASE ListTap
    BY <1>1, ListTapInv
<1>2. CASE DetailTap
    BY <1>2, EditPressedInv, TypeIntoInv, SavePressedInv, AlertInv DEF DetailTap
<1>3. CASE AlertTap
    BY <1>3, AlertInv, ConfirmDeleteInv DEF AlertTap
<1>4. CASE PopupTap
    BY <1>4, PopupUiInv, PopupSavePressedInv DEF PopupTap
<1> QED BY <1>1, <1>2, <1>3, <1>4 DEF Tap

LEMMA RunBlockInv ==
    ASSUME Inv, RunBlock
    PROVE  Inv'
BY ValueEventInv, ClosedListEventInv, SaveDoneInv, DeleteDoneInv, AddDoneInv DEF RunBlock

LEMMA StutterInv ==
    ASSUME Inv, UNCHANGED vars
    PROVE  Inv'
BY DbUntouched, ScreenUntouched DEF Inv, vars, dbVars

LEMMA NextInv == Inv /\ [Next]_vars => Inv'
<1> SUFFICES ASSUME Inv, [Next]_vars PROVE Inv'
    OBVIOUS
<1>1. CASE Tap
    BY <1>1, TapInv
<1>2. CASE Display
    BY <1>2, DrawInv DEF Display
<1>3. CASE RunBlock
    BY <1>3, RunBlockInv
<1>4. CASE Answered \/ Snapshot \/ Others
    BY <1>4, ServerInv
<1>5. CASE Relaunch
    BY <1>5, RelaunchInv
<1>6. CASE UNCHANGED vars
    BY <1>6, StutterInv
<1> QED BY <1>1, <1>2, <1>3, <1>4, <1>5, <1>6 DEF Next

(***************************************************************************)
(* The inductive invariant holds in every behaviour: selection, rows,      *)
(* queued snapshots and pending writes always belong to one category, and  *)
(* to the product they are stored under.                                   *)
(***************************************************************************)
THEOREM Invariance == Spec => []Inv
BY InitInv, NextInv, PTL DEF Spec

(***************************************************************************)
(* Type correctness: whatever the order of taps and completions, no field, *)
(* row, write or block leaves its type; in particular only complete forms  *)
(* with an Int price are ever written.                                     *)
(***************************************************************************)
THEOREM TypeCorrect == Spec => []TypeOK
<1>1. Inv => TypeOK
    BY DEF Inv, DbInv, ScreenInv, TypeOK
<1> QED BY <1>1, Invariance, PTL

(***************************************************************************)
(* Every record the server holds is in the category, and has the picture,  *)
(* it was created with, although savePressed takes both from globals that  *)
(* other handlers change.                                                  *)
(***************************************************************************)
THEOREM RecordsStayKept == Spec => []RecordsKept
<1>1. Inv => RecordsKept
    BY DEF Inv, DbInv, RecordsKept
<1> QED BY <1>1, Invariance, PTL

(***************************************************************************)
(* Save and Delete never hit a product other than the one on screen:       *)
(* selectedProduct is it, or nothing.                                      *)
(***************************************************************************)
THEOREM SelectionStaysShown == Spec => []SelectedIsShown
<1>1. Inv => SelectedIsShown
    BY DEF Inv, ScreenInv
<1> QED BY <1>1, Invariance, PTL

-----------------------------------------------------------------------------
(***************************************************************************)
(* The refinement of Catalogue.                                            *)
(***************************************************************************)

\* In a whole tree the entries of a key are its record at home, if any.
LEMMA EntriesAtHome ==
    ASSUME stored \in Whole, NEW k \in Key
    PROVE  Entries[k] = IF stored[CategoryOf[k]][k] = NoRecord THEN {}
                        ELSE {Abstract!Entry(k, stored[CategoryOf[k]][k].text)}
<1>1. CategoryOf[k] \in Category
    BY Created
<1>2. \A d \in Category : stored[d][k] # NoRecord =>
        d = CategoryOf[k] /\ stored[d][k].picture = PictureOf[k]
    BY DEF Whole
<1>3. Entries[k] = {[category |-> c, text |-> stored[c][k].text,
                     picture |-> stored[c][k].picture] :
                        c \in {d \in Category : stored[d][k] # NoRecord}}
    BY DEF Entries
<1>4. CASE stored[CategoryOf[k]][k] = NoRecord
    <2>1. {d \in Category : stored[d][k] # NoRecord} = {}
        BY <1>2, <1>4
    <2> QED BY <1>3, <1>4, <2>1
<1>5. CASE stored[CategoryOf[k]][k] # NoRecord
    <2>1. {d \in Category : stored[d][k] # NoRecord} = {CategoryOf[k]}
        BY <1>1, <1>2, <1>5
    <2> QED BY <1>2, <1>3, <1>5, <1>1, <2>1 DEF Abstract!Entry
<1> QED BY <1>4, <1>5

\* A map given by an expression is the map of its values.
LEMMA EntriesMap ==
    /\ Entries = [k \in Key |-> Entries[k]]
    /\ Entries' = [k \in Key |-> Entries'[k]]
<1>1. Entries = [k \in Key |-> Entries[k]]
    BY DEF Entries
<1>2. Entries' = [k \in Key |-> Entries'[k]]
    BY <1>1, Zenon DEF Entries
<1> QED BY <1>1, <1>2

\* Writing a record at home changes the entries of its key only.
LEMMA EntriesAfterWrite ==
    ASSUME stored \in Whole, stored' \in Whole, NEW k \in Key,
           NEW value \in Record \cup {NoRecord},
           stored' = [stored EXCEPT ![CategoryOf[k]][k] = value]
    PROVE  Entries' = [Entries EXCEPT ![k] =
                IF value = NoRecord THEN {} ELSE {Abstract!Entry(k, value.text)}]
<1> DEFINE new == IF value = NoRecord THEN {} ELSE {Abstract!Entry(k, value.text)}
<1>1. \A l \in Key : Entries'[l] = IF stored'[CategoryOf[l]][l] = NoRecord THEN {}
                                   ELSE {Abstract!Entry(l, stored'[CategoryOf[l]][l].text)}
    <2> SUFFICES ASSUME NEW l \in Key
                 PROVE  Entries'[l] = IF stored'[CategoryOf[l]][l] = NoRecord THEN {}
                                      ELSE {Abstract!Entry(l, stored'[CategoryOf[l]][l].text)}
        OBVIOUS
    <2>1. CategoryOf[l] \in Category
        BY Created
    <2>2. \A d \in Category : stored'[d][l] # NoRecord =>
            d = CategoryOf[l] /\ stored'[d][l].picture = PictureOf[l]
        BY DEF Whole
    <2>3. Entries'[l] = {[category |-> c, text |-> stored'[c][l].text,
                          picture |-> stored'[c][l].picture] :
                            c \in {d \in Category : stored'[d][l] # NoRecord}}
        BY DEF Entries
    <2>4. CASE stored'[CategoryOf[l]][l] = NoRecord
        <3>1. {d \in Category : stored'[d][l] # NoRecord} = {}
            BY <2>2, <2>4
        <3> QED BY <2>3, <2>4, <3>1
    <2>5. CASE stored'[CategoryOf[l]][l] # NoRecord
        <3>1. {d \in Category : stored'[d][l] # NoRecord} = {CategoryOf[l]}
            BY <2>1, <2>2, <2>5
        <3> QED BY <2>1, <2>2, <2>3, <2>5, <3>1 DEF Abstract!Entry
    <2> QED BY <2>4, <2>5
<1>2. \A l \in Key : CategoryOf[l] \in Category
    BY Created
<1>3. stored'[CategoryOf[k]][k] = value
    BY <1>2 DEF Whole, Contents
<1>4. \A l \in Key \ {k} : stored'[CategoryOf[l]][l] = stored[CategoryOf[l]][l]
    BY <1>2 DEF Whole, Contents
<1>5. Entries'[k] = new
    BY <1>1, <1>3
<1>6. \A l \in Key \ {k} : Entries'[l] = Entries[l]
    <2> SUFFICES ASSUME NEW l \in Key \ {k} PROVE Entries'[l] = Entries[l]
        OBVIOUS
    <2>1. Entries[l] = IF stored[CategoryOf[l]][l] = NoRecord THEN {}
                       ELSE {Abstract!Entry(l, stored[CategoryOf[l]][l].text)}
        BY EntriesAtHome
    <2> QED BY <1>1, <1>4, <2>1, Zenon
<1>7. Entries' = [l \in Key |-> Entries'[l]]
    BY EntriesMap, Zenon
<1> HIDE DEF new
<1>8. Entries' = [l \in Key |-> IF l = k THEN new ELSE Entries[l]]
    <2>1. \A l \in Key : Entries'[l] = IF l = k THEN new ELSE Entries[l]
        BY <1>5, <1>6
    <2>2. [l \in Key |-> Entries'[l]] = [l \in Key |-> IF l = k THEN new ELSE Entries[l]]
        BY <2>1
    <2> QED BY <1>7, <2>2
<1>9. [Entries EXCEPT ![k] = new] = [l \in Key |-> IF l = k THEN new ELSE Entries[l]]
    <2>1. DOMAIN Entries = Key
        BY DEF Entries
    <2> QED BY <2>1
<1> QED BY <1>8, <1>9 DEF new

LEMMA InitRefines == Init => Abstract!Init
<1> SUFFICES ASSUME Init PROVE Abstract!Init
    OBVIOUS
<1>1. PICK present \in SUBSET Key, text \in [Key -> Text] :
        /\ stored = [c \in Category |-> [k \in Key |->
                        IF k \in present /\ CategoryOf[k] = c
                        THEN [text |-> text[k], picture |-> PictureOf[k]]
                        ELSE NoRecord]]
        /\ used = present
    BY DEF Init, DbInit
<1>2. stored \in Whole
    BY DbInitKept DEF Init, DbInv
<1>3. ASSUME NEW k \in Key
      PROVE  Entries[k] = IF k \in used THEN {Abstract!Entry(k, text[k])} ELSE {}
    <2>1. CategoryOf[k] \in Category
        BY Created
    <2>2. CASE k \in used
        <3>1. stored[CategoryOf[k]][k] = [text |-> text[k], picture |-> PictureOf[k]]
            BY <1>1, <2>1, <2>2
        <3>2. [text |-> text[k], picture |-> PictureOf[k]] \in [text : Text, picture : Picture]
            BY Created
        <3>3. stored[CategoryOf[k]][k] # NoRecord
            BY <3>1, <3>2, Absent
        <3>4. stored[CategoryOf[k]][k].text = text[k]
            BY <3>1
        <3> QED BY <1>2, <2>2, <3>3, <3>4, EntriesAtHome
    <2>3. CASE k \notin used
        <3>1. stored[CategoryOf[k]][k] = NoRecord
            BY <1>1, <2>1, <2>3
        <3> QED BY <1>2, <2>3, <3>1, EntriesAtHome
    <2> QED BY <2>2, <2>3
<1>4. Entries = [k \in Key |-> IF k \in used THEN {Abstract!Entry(k, text[k])} ELSE {}]
    <2>1. Entries = [k \in Key |-> Entries[k]]
        BY DEF Entries
    <2> QED BY <1>3, <2>1
<1> QED BY <1>1, <1>4 DEF Abstract!Init

\* What a step does to the server's tree and to the keys in use.
LEMMA StepShape ==
    ASSUME Inv, [Next]_vars
    PROVE  \/ stored' = stored /\ \/ used' = used
                                  \/ \E k \in Key : used' = used \cup {k}
           \/ Accept
           \/ OtherAdmin
<1>1. ASSUME ListTap PROVE stored' = stored /\ used' = used
    BY <1>1 DEF ListTap, OpenCategory, SelectRow, Back, Exit, Observe, Abandon, dbVars
<1>2. ASSUME DetailTap \/ AlertTap
      PROVE  stored' = stored /\ (used' = used \/ \E k \in Key : used' = used \cup {k})
    <2> DEFINE key == selectedProduct.key
    <2>0. key \in Key \cup {NoKey}
        BY DEF Inv, ScreenInv, ScreenTypeOK, AppTypeOK, Product
    <2>1. CASE EditPressed \/ (\E content \in Typed : TypeInto(content)) \/ DeletePressed
               \/ CancelDelete
        BY <2>1 DEF EditPressed, TypeInto, DeletePressed, CancelDelete, dbVars
    <2>2. CASE SavePressed
        <3>1. \/ UNCHANGED dbVars
              \/ stored' = stored /\ used' = used \cup {key} /\ key # NoKey
            BY <2>2 DEF SavePressed, Put, Trap
        <3> QED BY <2>0, <3>1 DEF dbVars
    <2>3. CASE ConfirmDelete
        <3>1. \/ UNCHANGED dbVars
              \/ stored' = stored /\ used' = used \cup {key} /\ key # NoKey
            BY <2>3 DEF ConfirmDelete, Put, Trap
        <3> QED BY <2>0, <3>1 DEF dbVars
    <2> QED BY <1>2, <2>1, <2>2, <2>3 DEF DetailTap, AlertTap
<1>3. ASSUME PopupTap
      PROVE  stored' = stored /\ (used' = used \/ \E k \in Key : used' = used \cup {k})
    BY <1>3 DEF PopupTap, OpenPopup, TypeIntoPopup, ClosePopup, PopupSavePressed, Put,
                Trap, dbVars
<1>4. ASSUME Display \/ RunBlock \/ Relaunch \/ UNCHANGED vars
      PROVE  stored' = stored /\ used' = used
    BY <1>4 DEF Display, Draw, RunBlock, ValueEvent, ClosedListEvent, SaveDone,
                SaveRefused, DeleteDone, AddDone, Run, Trap, Relaunch, Disconnect, vars, dbVars
<1>5. ASSUME Answered \/ Snapshot \/ Others
      PROVE  Accept \/ OtherAdmin \/ (stored' = stored /\ used' = used)
    BY <1>5 DEF Answered, Snapshot, Others, Reject, InitialSnapshot
<1> QED BY <1>1, <1>2, <1>3, <1>4, <1>5 DEF Next, Tap

\* A committed write of a key in use is a rewrite or a removal.
LEMMA WriteRefines ==
    ASSUME stored \in Whole, stored' \in Whole, NEW k \in Key,
           NEW value \in Record \cup {NoRecord},
           stored' = [stored EXCEPT ![CategoryOf[k]][k] = value],
           k \in used, used' = used
    PROVE  Abstract!Next
<1>1. Entries' = [Entries EXCEPT ![k] =
                IF value = NoRecord THEN {} ELSE {Abstract!Entry(k, value.text)}]
    BY EntriesAfterWrite
<1>2. CASE value = NoRecord
    <2>1. Abstract!Remove(k)
        BY <1>1, <1>2 DEF Abstract!Remove
    <2> QED BY <2>1 DEF Abstract!Next
<1>3. CASE value # NoRecord
    <2>1. value.text \in Text
        BY <1>3 DEF Record
    <2>2. Abstract!Rewrite(k, value.text)
        BY <1>1, <1>3 DEF Abstract!Rewrite
    <2> QED BY <2>1, <2>2 DEF Abstract!Next
<1> QED BY <1>2, <1>3

LEMMA AcceptRefines ==
    ASSUME Inv, Inv', Accept
    PROVE  Abstract!Next
<1> DEFINE w == Head(outbox)
<1>1. w \in KeptWrite /\ w.key \in used
    BY TailKept DEF Accept, Inv
<1>2. /\ w.key \in Key /\ w.value \in Record \cup {NoRecord}
      /\ w.category = CategoryOf[w.key]
    BY <1>1 DEF KeptWrite, Write
<1>3. stored' = [stored EXCEPT ![w.category][w.key] = w.value] /\ used' = used
    BY DEF Accept
<1>4. stored \in Whole /\ stored' \in Whole
    BY DEF Inv, DbInv
<1> HIDE DEF w
<1>5. stored' = [stored EXCEPT ![CategoryOf[w.key]][w.key] = w.value]
    BY <1>2, <1>3
<1> QED BY <1>1, <1>2, <1>3, <1>4, <1>5, WriteRefines

LEMMA OtherWriteRefines ==
    ASSUME Inv, Inv', NEW k \in Key, NEW value \in Record \cup {NoRecord},
           OtherWrite(k, value)
    PROVE  Abstract!Next
<1>1. stored \in Whole /\ stored' \in Whole
    BY DEF Inv, DbInv
<1>2. /\ stored[CategoryOf[k]][k] # value
      /\ stored' = [stored EXCEPT ![CategoryOf[k]][k] = value]
      /\ used' = used \cup {k}
    BY DEF OtherWrite
<1>3. CASE k \in used
    <2>1. used' = used
        BY <1>2, <1>3
    <2> QED BY <1>1, <1>2, <1>3, <2>1, WriteRefines
<1>4. CASE k \notin used
    <2>1. CategoryOf[k] \in Category
        BY Created
    <2>2. stored[CategoryOf[k]][k] = NoRecord
        BY <1>4, <2>1 DEF Inv, DbInv, Issued
    <2>3. value \in Record /\ value # NoRecord
        BY <1>2, <2>2
    <2>4. Entries' = [Entries EXCEPT ![k] = {Abstract!Entry(k, value.text)}]
        <3>1. Entries' = [Entries EXCEPT ![k] =
                IF value = NoRecord THEN {} ELSE {Abstract!Entry(k, value.text)}]
            BY <1>1, <1>2, EntriesAfterWrite
        <3> QED BY <3>1, <2>3
    <2>5. value.text \in Text
        BY <2>3 DEF Record
    <2>6. Abstract!Issue(k)
        BY <1>2, <1>4, <2>4, <2>5 DEF Abstract!Issue
    <2> QED BY <2>6 DEF Abstract!Next
<1> QED BY <1>3, <1>4

\* A step that leaves the tree alone may hand out a key.
LEMMA QuietRefines ==
    ASSUME stored' = stored, used' = used \/ \E k \in Key : used' = used \cup {k}
    PROVE  [Abstract!Next]_<<Entries, used>>
<1>1. Entries' = Entries
    BY DEF Entries
<1>2. ASSUME NEW k \in Key, k \notin used, used' = used \cup {k}
      PROVE  Abstract!Next
    <2>1. Abstract!Issue(k)
        BY <1>1, <1>2 DEF Abstract!Issue
    <2> QED BY <2>1 DEF Abstract!Next
<1>3. ASSUME NEW k \in Key, k \in used, used' = used \cup {k}
      PROVE  UNCHANGED <<Entries, used>>
    BY <1>1, <1>3
<1> QED BY <1>1, <1>2, <1>3

LEMMA NextRefines ==
    ASSUME Inv, Inv', [Next]_vars
    PROVE  [Abstract!Next]_<<Entries, used>>
<1>1. CASE stored' = stored /\ (used' = used \/ \E k \in Key : used' = used \cup {k})
    BY <1>1, QuietRefines
<1>2. CASE Accept
    BY <1>2, AcceptRefines
<1>3. CASE OtherAdmin
    <2>1. PICK k \in Key :
            \/ OtherWrite(k, NoRecord)
            \/ \E t \in Text : OtherWrite(k, [text |-> t, picture |-> PictureOf[k]])
        BY <1>3 DEF OtherAdmin
    <2>2. CASE OtherWrite(k, NoRecord)
        BY <2>2, OtherWriteRefines
    <2>3. ASSUME NEW t \in Text, OtherWrite(k, [text |-> t, picture |-> PictureOf[k]])
          PROVE  Abstract!Next
        <3> DEFINE value == [text |-> t, picture |-> PictureOf[k]]
        <3>1. value \in Record
            BY Created DEF Record
        <3>2. OtherWrite(k, value)
            BY <2>3
        <3> HIDE DEF value
        <3> QED BY <3>1, <3>2, OtherWriteRefines
    <2> QED BY <2>1, <2>2, <2>3
<1> QED BY <1>1, <1>2, <1>3, StepShape

(***************************************************************************)
(* The product editor implements Catalogue: the server's tree changes one  *)
(* product at a time, each in its own category, under a key handed out for *)
(* it and with its own picture.                                            *)
(***************************************************************************)
THEOREM Refinement == Spec => ImplementsCatalogue
BY InitRefines, NextRefines, Invariance, PTL DEF Spec, ImplementsCatalogue, Abstract!Spec

-----------------------------------------------------------------------------
\* The last write of a longer outbox was put there by the step.
LEMMA LastPut ==
    ASSUME DbInv, NEW c \in Category, NEW k \in Key,
           NEW value \in Record \cup {NoRecord}, NEW reply \in Reply,
           Put(c, k, value, reply)
    PROVE  outbox'[Len(outbox')].key = k
<1> DEFINE w == [category |-> c, key |-> k, value |-> value, reply |-> reply]
<1>1. outbox \in Seq(Write) /\ w \in Write
    BY DEF DbInv, DbTypeOK, Write
<1>2. outbox' = Append(outbox, w)
    BY DEF Put
<1>3. w.key = k
    OBVIOUS
<1> HIDE DEF w
<1>4. Len(outbox') = Len(outbox) + 1 /\ outbox'[Len(outbox) + 1] = w
    BY <1>1, <1>2, AppendProperties
<1> QED BY <1>3, <1>4

\* Only Save and Delete, and the popup's Save, put a write in the outbox.
LEMMA WhoWrites ==
    ASSUME Inv, [Next]_vars
    PROVE  \/ outbox' = outbox \/ outbox' = <<>>
           \/ outbox # <<>> /\ outbox' = Tail(outbox)
           \/ SavePressed \/ ConfirmDelete
           \/ popup # NoView
<1>1. ASSUME ListTap PROVE outbox' = outbox
    BY <1>1 DEF ListTap, OpenCategory, SelectRow, Back, Exit, Observe, Abandon, dbVars
<1>2. ASSUME DetailTap \/ AlertTap
      PROVE  outbox' = outbox \/ SavePressed \/ ConfirmDelete
    BY <1>2 DEF DetailTap, AlertTap, EditPressed, TypeInto, DeletePressed, CancelDelete, dbVars
<1>3. ASSUME PopupTap PROVE outbox' = outbox \/ popup # NoView
    BY <1>3 DEF PopupTap, OpenPopup, TypeIntoPopup, ClosePopup, PopupSavePressed, dbVars
<1>4. ASSUME Display \/ RunBlock \/ Relaunch \/ UNCHANGED vars
      PROVE  outbox' = outbox \/ outbox' = <<>>
    BY <1>4 DEF Display, Draw, RunBlock, ValueEvent, ClosedListEvent, SaveDone,
                SaveRefused, DeleteDone, AddDone, Run, Trap, Relaunch, Disconnect, vars, dbVars
<1>5. ASSUME Answered \/ Snapshot \/ Others
      PROVE  outbox' = outbox \/ (outbox # <<>> /\ outbox' = Tail(outbox))
    BY <1>5 DEF Answered, Snapshot, Others, Accept, Reject, InitialSnapshot, OtherAdmin, OtherWrite
<1> QED BY <1>1, <1>2, <1>3, <1>4, <1>5 DEF Next, Tap

\* Save and Delete write to the selected product, which is the one on screen.
LEMMA SaveOrDeleteWritesShown ==
    ASSUME Inv, SavePressed \/ ConfirmDelete, outbox' # outbox
    PROVE  outbox'[Len(outbox')].key = views[visible].product
<1>1. OnScreen \/ alert
    BY DEF SavePressed, ConfirmDelete
<1>2. visible # NoView
    BY <1>1 DEF Inv, ScreenInv, Nested, OnScreen
<1>3. selectedProduct.key \in {NoKey, views[visible].product}
    BY <1>1 DEF Inv, ScreenInv, SelectedIsShown
<1>4. CASE SavePressed
    <2> DEFINE value == [text |-> views[visible].text, picture |-> selectedProduct.picture]
               reply == [what |-> "saved", view |-> visible]
               k == selectedProduct.key
    <2>1. ~NoInt(views[visible].text) /\ k # NoKey /\ Put(currentCategory, k, value, reply)
        BY <1>4 DEF SavePressed, NewProductDictionary, Trap, dbVars
    <2>2. /\ k \in Key /\ currentCategory \in Category
          /\ selectedProduct.picture \in Picture
        BY <1>2, <2>1, SelectionIsOfCategory
    <2>3. views[visible].text \in Text
        <3>1. views[visible].text \in Content
            BY <1>2, OnScreenView DEF DetailView
        <3>2. views[visible].text \notin Refused
            BY <1>4 DEF SavePressed
        <3> QED BY <2>1, <3>1, <3>2 DEF Content, Refused, NoInt
    <2>4. value \in Record \cup {NoRecord} /\ reply \in Reply
        BY <1>2, <2>2, <2>3, OnScreenView DEF Record, Reply
    <2>5. k = views[visible].product
        BY <1>3, <2>1
    <2> HIDE DEF value, reply, k
    <2>6. outbox'[Len(outbox')].key = k
        BY <2>1, <2>2, <2>4, LastPut DEF Inv
    <2> QED BY <2>5, <2>6
<1>5. CASE ConfirmDelete
    <2> DEFINE reply == [what |-> "deleted", view |-> visible]
               k == selectedProduct.key
    <2>1. k # NoKey /\ Put(currentCategory, k, NoRecord, reply)
        BY <1>5 DEF ConfirmDelete, Trap, dbVars
    <2>2. k \in Key /\ currentCategory \in Category
        BY <1>2, <2>1, SelectionIsOfCategory
    <2>3. reply \in Reply
        BY <1>2, OnScreenView DEF Reply
    <2>4. k = views[visible].product
        BY <1>3, <2>1
    <2> HIDE DEF reply, k
    <2>5. outbox'[Len(outbox')].key = k
        BY <2>1, <2>2, <2>3, LastPut DEF Inv
    <2> QED BY <2>4, <2>5
<1> QED BY <1>4, <1>5

LEMMA StepWritesShown ==
    ASSUME Inv, [Next]_vars
    PROVE  Len(outbox') > Len(outbox) /\ popup = NoView
                => outbox'[Len(outbox')].key = views[visible].product
<1> SUFFICES ASSUME Len(outbox') > Len(outbox), popup = NoView
             PROVE  outbox'[Len(outbox')].key = views[visible].product
    OBVIOUS
<1>1. outbox \in Seq(Write)
    BY DEF Inv, DbInv, DbTypeOK
<1>2. Len(outbox) \in Nat
    BY <1>1, LenProperties
<1>3. outbox' # outbox
    BY <1>2
<1>4. outbox' # <<>>
    BY <1>2
<1>5. ASSUME outbox # <<>> PROVE outbox' # Tail(outbox)
    <2>1. Len(Tail(outbox)) = Len(outbox) - 1
        BY <1>1, <1>5, HeadTailProperties
    <2> QED BY <1>2, <2>1
<1>6. SavePressed \/ ConfirmDelete
    BY <1>3, <1>4, <1>5, WhoWrites
<1> QED BY <1>3, <1>6, SaveOrDeleteWritesShown

(***************************************************************************)
(* Save and Delete only ever write to the product their view shows.        *)
(***************************************************************************)
THEOREM WritesStayShown == Spec => WritesWhatIsShown
<1>1. Inv /\ Inv' /\ [Next]_vars
        => [Len(outbox') > Len(outbox) /\ popup = NoView
            => outbox'[Len(outbox')].key = views[visible].product]_vars
    BY StepWritesShown
<1> QED BY <1>1, Invariance, PTL DEF Spec, WritesWhatIsShown

-----------------------------------------------------------------------------
(***************************************************************************)
(* Why the open list ends up with the products of the client's copy: the   *)
(* last value event still queued for it carries the copy as it is; when    *)
(* none is queued, its rows have the copy's products already.              *)
(***************************************************************************)
SameProducts(rows, held) ==
    \A k \in Key : /\ (rows[k] = NoRecord) <=> (held[k] = NoRecord)
                   /\ held[k] # NoRecord => rows[k].picture = held[k].picture

NoValue(queue) == \A i \in 1..Len(queue) : queue[i].what # "value"

LastValue(queue, held) ==
    \E i \in 1..Len(queue) :
        /\ queue[i] = ToOpen(held)
        /\ \A j \in (i + 1)..Len(queue) : queue[j].what # "value"

Follows(queue, rows, held) ==
    \/ LastValue(queue, held)
    \/ NoValue(queue) /\ (held # Empty => SameProducts(rows, held))

ListFollows ==
    observing # NoCategory /\ observing \notin awaiting
        => Follows(mainQueue, productsArray, cache[observing])

Block == Event \cup Completion

\* Blocks other than value events may be queued behind.
LEMMA FollowsBehind ==
    ASSUME NEW queue \in Seq(Block), NEW more \in Seq(Block), NEW rows, NEW held,
           Follows(queue, rows, held), NoValue(more)
    PROVE  Follows(queue \o more, rows, held)
<1> DEFINE all == queue \o more
<1>1. /\ Len(queue) \in Nat /\ Len(more) \in Nat /\ Len(all) = Len(queue) + Len(more)
      /\ \A i \in 1..Len(queue) : all[i] = queue[i]
      /\ \A i \in (Len(queue) + 1)..Len(all) : all[i] = more[i - Len(queue)]
    BY ConcatProperties, LenProperties
<1> HIDE DEF all
<1>2. \A i \in (Len(queue) + 1)..Len(all) : all[i].what # "value"
    BY <1>1 DEF NoValue
<1>3. CASE NoValue(queue) /\ (held # Empty => SameProducts(rows, held))
    <2>1. NoValue(all)
        BY <1>1, <1>2, <1>3 DEF NoValue
    <2> QED BY <2>1, <1>3 DEF Follows, all
<1>4. CASE LastValue(queue, held)
    <2>1. PICK i \in 1..Len(queue) :
            /\ queue[i] = ToOpen(held)
            /\ \A j \in (i + 1)..Len(queue) : queue[j].what # "value"
        BY <1>4 DEF LastValue
    <2>2. i \in 1..Len(all) /\ all[i] = ToOpen(held)
        BY <1>1, <2>1
    <2>3. \A j \in (i + 1)..Len(all) : all[j].what # "value"
        BY <1>1, <1>2, <2>1
    <2>4. LastValue(all, held)
        BY <2>2, <2>3 DEF LastValue
    <2> QED BY <2>4 DEF Follows, all
<1> QED BY <1>3, <1>4 DEF Follows

\* A value event that carries the copy may be queued, with others behind it.
LEMMA FollowsEvent ==
    ASSUME NEW queue \in Seq(Block), NEW more \in Seq(Block), NEW rows,
           NEW held \in Contents, NoValue(more)
    PROVE  Follows(queue \o (<<ToOpen(held)>> \o more), rows, held)
<1> DEFINE event == ToOpen(held)
           new == <<event>> \o more
           all == queue \o new
<1>1. event \in Block
    BY DEF Block, Event, ToOpen
<1>2. /\ new \in Seq(Block) /\ Len(new) = 1 + Len(more) /\ new[1] = event
      /\ \A i \in 2..Len(new) : new[i] = more[i - 1]
      /\ Len(more) \in Nat
    BY <1>1, ConcatProperties, LenProperties
<1> HIDE DEF new, event
<1>3. /\ Len(queue) \in Nat /\ Len(all) = Len(queue) + Len(new)
      /\ \A i \in (Len(queue) + 1)..Len(all) : all[i] = new[i - Len(queue)]
    <2>1. new \in Seq(Block)
        BY <1>2
    <2> QED BY <2>1, ConcatProperties, LenProperties
<1> HIDE DEF all
<1>4. Len(queue) + 1 \in 1..Len(all) /\ all[Len(queue) + 1] = event
    BY <1>2, <1>3
<1>5. \A j \in (Len(queue) + 1 + 1)..Len(all) : all[j].what # "value"
    <2> SUFFICES ASSUME NEW j \in (Len(queue) + 1 + 1)..Len(all)
                 PROVE  all[j].what # "value"
        OBVIOUS
    <2>1. j \in (Len(queue) + 1)..Len(all) /\ j - Len(queue) \in 2..Len(new)
        BY <1>2, <1>3
    <2>2. all[j] = new[j - Len(queue)]
        BY <1>3, <2>1
    <2>3. new[j - Len(queue)] = more[j - Len(queue) - 1]
        BY <1>2, <2>1
    <2>4. j - Len(queue) - 1 \in 1..Len(more)
        BY <1>2, <1>3
    <2> QED BY <2>2, <2>3, <2>4 DEF NoValue
<1>6. LastValue(all, held)
    BY <1>4, <1>5 DEF LastValue, event
<1> QED BY <1>6 DEF Follows, all, new, event

\* The oldest block has run: a value event has put its rows in the list, unless
\* they are a null snapshot; any other block leaves the products in the rows.
LEMMA FollowsRun ==
    ASSUME NEW queue \in Seq(Block), queue # <<>>, NEW rows, NEW next, NEW held,
           Follows(queue, rows, held),
           Head(queue).what = "value" =>
                \/ Head(queue).rows = Empty
                \/ next = Head(queue).rows,
           Head(queue).what # "value" /\ SameProducts(rows, held) => SameProducts(next, held)
    PROVE  Follows(Tail(queue), next, held)
<1> DEFINE rest == Tail(queue)
<1>1. /\ Len(queue) \in Nat /\ Len(queue) > 0 /\ Len(rest) = Len(queue) - 1
      /\ Head(queue) = queue[1]
      /\ \A i \in 1..Len(rest) : rest[i] = queue[i + 1]
    BY HeadTailProperties, LenProperties, EmptySeq
<1> HIDE DEF rest
<1>2. CASE NoValue(queue) /\ (held # Empty => SameProducts(rows, held))
    <2>1. NoValue(rest) /\ Head(queue).what # "value"
        BY <1>1, <1>2 DEF NoValue
    <2> QED BY <2>1, <1>2 DEF Follows, rest
<1>3. ASSUME NEW i \in 1..Len(queue), queue[i] = ToOpen(held),
             \A j \in (i + 1)..Len(queue) : queue[j].what # "value"
      PROVE  Follows(rest, next, held)
    <2>1. CASE i = 1
        <3>1. Head(queue).what = "value" /\ Head(queue).rows = held
            BY <1>1, <1>3, <2>1 DEF ToOpen
        <3>2. held # Empty => SameProducts(next, held)
            BY <3>1 DEF SameProducts
        <3>3. NoValue(rest)
            BY <1>1, <1>3, <2>1 DEF NoValue
        <3> QED BY <3>2, <3>3 DEF Follows
    <2>2. CASE i # 1
        <3>1. i - 1 \in 1..Len(rest) /\ rest[i - 1] = ToOpen(held)
            BY <1>1, <1>3, <2>2
        <3>2. \A j \in ((i - 1) + 1)..Len(rest) : rest[j].what # "value"
            BY <1>1, <1>3
        <3>3. LastValue(rest, held)
            BY <3>1, <3>2 DEF LastValue
        <3> QED BY <3>3 DEF Follows
    <2> QED BY <2>1, <2>2
<1> QED BY <1>2, <1>3 DEF Follows, LastValue, rest

\* A change of the copy is followed by its events.
LEMMA RaisedFollows ==
    ASSUME Inv, ListFollows, NEW c \in Category, NEW k \in Key,
           NEW value \in Record \cup {NoRecord},
           NEW more \in Seq(Block), NoValue(more),
           cache' = [cache EXCEPT ![c][k] = value],
           mainQueue' = (mainQueue \o Raised(c, k, value)) \o more,
           observing' = observing, awaiting' = awaiting, productsArray' = productsArray
    PROVE  ListFollows'
<1> SUFFICES ASSUME observing # NoCategory, observing \notin awaiting
             PROVE  Follows(mainQueue', productsArray, cache'[observing])
    BY DEF ListFollows
<1> DEFINE new == [cache[c] EXCEPT ![k] = value]
           closed == IF c \in leaked THEN <<ToClosed(new)>> ELSE <<>>
           held == cache[observing]
           held1 == cache'[observing]
<1>1. /\ mainQueue \in Seq(Block) /\ cache \in [Category -> Contents]
      /\ observing \in Category
    BY DEF Inv, DbInv, DbTypeOK, Block
<1>2. new \in Contents
    BY <1>1 DEF Contents
<1>3. closed \in Seq(Block) /\ NoValue(closed)
    <2>1. ToClosed(new) \in Block /\ ToClosed(new).what # "value"
        BY <1>2 DEF ToClosed, Block, Event
    <2> HIDE DEF new
    <2>2. CASE c \in leaked
        <3>1. closed = <<ToClosed(new)>>
            BY <2>2
        <3> HIDE DEF closed
        <3> QED BY <2>1, <3>1 DEF NoValue
    <2>3. CASE c \notin leaked
        <3>1. closed = <<>>
            BY <2>3
        <3> HIDE DEF closed
        <3> QED BY <3>1 DEF NoValue
    <2> QED BY <2>2, <2>3
<1>4. /\ c = observing => held1 = new
      /\ c # observing => held1 = held
    BY <1>1
<1>5. cache[c][k] = value => new = cache[c]
    BY <1>1 DEF Contents
<1>6. Follows(mainQueue, productsArray, held)
    BY DEF ListFollows
<1>7. Raised(c, k, value) =
        IF cache[c][k] = value THEN <<>>
        ELSE (IF observing = c /\ c \notin awaiting THEN <<ToOpen(new)>> ELSE <<>>) \o closed
    BY DEF Raised, Events
<1> HIDE DEF new, closed, held, held1
<1>8. CASE cache[c][k] = value
    <2>1. Raised(c, k, value) = <<>> /\ mainQueue \o <<>> = mainQueue
        BY <1>1, <1>7, <1>8, ConcatEmptySeq
    <2>2. mainQueue' = mainQueue \o more
        BY <2>1
    <2>3. held1 = held
        BY <1>4, <1>5, <1>8 DEF held
    <2>4. Follows(mainQueue \o more, productsArray, held)
        BY <1>1, <1>6, FollowsBehind
    <2> QED BY <2>2, <2>3, <2>4 DEF held1
<1>9. CASE cache[c][k] # value /\ c = observing
    <2>1. Raised(c, k, value) = <<ToOpen(new)>> \o closed
        BY <1>7, <1>9
    <2>2. Follows(mainQueue \o (<<ToOpen(new)>> \o closed), productsArray, new)
        BY <1>1, <1>2, <1>3, FollowsEvent
    <2>3. mainQueue \o Raised(c, k, value) \in Seq(Block)
        <3>1. ToOpen(new) \in Block
            BY <1>2 DEF ToOpen, Block, Event
        <3>2. <<ToOpen(new)>> \o closed \in Seq(Block)
            BY <1>3, <3>1, ConcatProperties
        <3> QED BY <1>1, <2>1, <3>2, ConcatProperties
    <2>4. Follows((mainQueue \o Raised(c, k, value)) \o more, productsArray, new)
        BY <2>1, <2>2, <2>3, FollowsBehind
    <2> QED BY <1>4, <1>9, <2>4 DEF held1
<1>10. CASE cache[c][k] # value /\ c # observing
    <2>1. Raised(c, k, value) = closed
        BY <1>3, <1>7, <1>10, ConcatEmptySeq
    <2>2. Follows(mainQueue \o closed, productsArray, held)
        BY <1>1, <1>3, <1>6, FollowsBehind
    <2>3. mainQueue \o closed \in Seq(Block)
        BY <1>1, <1>3, ConcatProperties
    <2>4. Follows((mainQueue \o closed) \o more, productsArray, held)
        BY <2>2, <2>3, FollowsBehind
    <2> QED BY <1>4, <1>10, <2>1, <2>4 DEF held1
<1> QED BY <1>8, <1>9, <1>10

\* An answer is not a value event.
LEMMA AnswerIsNoValue ==
    ASSUME Inv, outbox # <<>>, NEW ok \in BOOLEAN
    PROVE  /\ <<Answer(ok)>> \in Seq(Block) /\ NoValue(<<Answer(ok)>>)
           /\ Answer(ok) \in Block
<1>1. Head(outbox) \in Write
    BY HeadTailProperties DEF Inv, DbInv, DbTypeOK
<1>2. Answer(ok) \in Completion /\ Answer(ok).what # "value"
    BY <1>1 DEF Answer, Completion, Write, Reply
<1> QED BY <1>2 DEF Block, NoValue

LEMMA PutFollows ==
    ASSUME Inv, ListFollows, NEW c \in Category, NEW k \in Key,
           NEW value \in Record \cup {NoRecord}, NEW reply,
           Put(c, k, value, reply), productsArray' = productsArray
    PROVE  ListFollows'
<1>1. DbTypeOK /\ mainQueue \in Seq(Block) /\ cache \in [Category -> Contents]
    BY DEF Inv, DbInv, DbTypeOK, Block
<1>2. /\ cache' = [cache EXCEPT ![c][k] = value]
      /\ mainQueue' = mainQueue \o Raised(c, k, value)
      /\ observing' = observing /\ awaiting' = awaiting
    BY DEF Put
<1>3. Raised(c, k, value) \in Seq(Block)
    <2> DEFINE new == [cache[c] EXCEPT ![k] = value]
    <2>1. new \in Contents
        BY <1>1 DEF Contents
    <2> HIDE DEF new
    <2>2. ToOpen(new) \in Block /\ ToClosed(new) \in Block
        BY <2>1 DEF ToOpen, ToClosed, Block, Event
    <2>3. Events(c, new) \in Seq(Block)
        BY <2>2, ConcatProperties DEF Events
    <2> QED BY <2>3 DEF Raised, new
<1>4. mainQueue \o Raised(c, k, value) \in Seq(Block)
    BY <1>1, <1>3, ConcatProperties
<1>5. mainQueue' = (mainQueue \o Raised(c, k, value)) \o <<>>
    BY <1>2, <1>4, ConcatEmptySeq
<1>6. <<>> \in Seq(Block) /\ NoValue(<<>>)
    BY DEF NoValue
<1> QED BY <1>2, <1>5, <1>6, RaisedFollows

\* A step of the user changes neither the copy nor the rows of a list that has
\* its first snapshot, except by a write.
LEMMA TapFollows ==
    ASSUME Inv, ListFollows, Tap
    PROVE  ListFollows'
<1>1. ASSUME UNCHANGED dbVars, productsArray' = productsArray PROVE ListFollows'
    BY <1>1 DEF dbVars, ListFollows
<1>2. ASSUME NEW why, Trap(why) PROVE ListFollows'
    BY <1>1, <1>2 DEF Trap
<1>3. CASE ListTap
    <2>1. ASSUME NEW c \in Category, NEW v \in View \cup {NoView}, OpenCategory(c, v)
          PROVE  ListFollows'
        BY <2>1 DEF OpenCategory, Observe, ListFollows
    <2>2. ASSUME NEW k \in Key, NEW v \in View, SelectRow(k, v) PROVE ListFollows'
        BY <1>1, <2>2 DEF SelectRow
    <2>3. CASE Back
        BY <1>1, <2>3 DEF Back
    <2>4. CASE Exit
        BY <2>4 DEF Exit, Abandon, ListFollows
    <2> QED BY <1>3, <2>1, <2>2, <2>3, <2>4 DEF ListTap
<1>4. CASE SavePressed
    <2> DEFINE value == [text |-> views[visible].text, picture |-> selectedProduct.picture]
               k == selectedProduct.key
    <2>1. CASE Trap("price") \/ Trap("key")
        BY <1>2, <2>1
    <2>2. ASSUME ~NoInt(views[visible].text), k # NoKey,
                 Put(currentCategory, k, value, [what |-> "saved", view |-> visible]),
                 productsArray' = productsArray
          PROVE  ListFollows'
        <3>1. visible # NoView
            BY <1>4 DEF SavePressed, OnScreen
        <3>2. k \in Key /\ currentCategory \in Category /\ selectedProduct.picture \in Picture
            BY <3>1, <2>2, SelectionIsOfCategory
        <3>3. views[visible].text \in Text
            <4>1. views[visible].text \in Content
                BY <3>1, OnScreenView DEF DetailView
            <4>2. views[visible].text \notin Refused
                BY <1>4 DEF SavePressed
            <4> QED BY <2>2, <4>1, <4>2 DEF Content, Refused, NoInt
        <3>4. value \in Record
            BY <3>2, <3>3 DEF Record
        <3> HIDE DEF value, k
        <3> QED BY <2>2, <3>2, <3>4, PutFollows
    <2> QED BY <1>4, <2>1, <2>2 DEF SavePressed, NewProductDictionary
<1>5. CASE ConfirmDelete
    <2>1. CASE Trap("key")
        BY <1>2, <2>1
    <2>2. ASSUME selectedProduct.key # NoKey,
                 Put(currentCategory, selectedProduct.key, NoRecord,
                     [what |-> "deleted", view |-> visible]),
                 UNCHANGED appVars
          PROVE  ListFollows'
        <3>1. visible # NoView
            BY <1>5 DEF ConfirmDelete, Inv, ScreenInv, Nested
        <3>2. selectedProduct.key \in Key /\ currentCategory \in Category
            BY <3>1, <2>2, SelectionIsOfCategory
        <3> QED BY <2>2, <3>2, PutFollows DEF appVars
    <2> QED BY <1>5, <2>1, <2>2 DEF ConfirmDelete
<1>6. CASE PopupSavePressed
    <2>1. CASE Trap("price")
        BY <1>2, <2>1
    <2>2. ASSUME ~NoInt(popupForm), NEW k \in Key,
                 IsAutoId(k, currentCategory, Placeholder),
                 Put(currentCategory, k, [text |-> popupForm, picture |-> Placeholder],
                     [what |-> "added", view |-> popup]),
                 UNCHANGED appVars
          PROVE  ListFollows'
        <3> DEFINE value == [text |-> popupForm, picture |-> Placeholder]
        <3>1. currentCategory \in Category
            BY <2>2, Created DEF IsAutoId
        <3>2. popupForm \in Text
            <4>1. popupForm \in Content /\ popupForm \notin Refused
                BY <1>6 DEF PopupSavePressed, Inv, ScreenInv, ScreenTypeOK, AddTypeOK
            <4> QED BY <2>2, <4>1 DEF Content, Refused, NoInt
        <3>3. value \in Record
            BY <3>2, Created DEF Record
        <3>4. productsArray' = productsArray
            BY <2>2 DEF appVars
        <3> HIDE DEF value
        <3> QED BY <2>2, <3>1, <3>3, <3>4, PutFollows DEF value
    <2> QED BY <1>6, <2>1, <2>2 DEF PopupSavePressed
<1>7. CASE DetailTap
    BY <1>1, <1>4, <1>7 DEF DetailTap, EditPressed, TypeInto, DeletePressed, appVars
<1>8. CASE AlertTap
    BY <1>1, <1>5, <1>8 DEF AlertTap, CancelDelete, appVars
<1>9. CASE PopupTap
    BY <1>1, <1>6, <1>9 DEF PopupTap, OpenPopup, TypeIntoPopup, ClosePopup, appVars
<1> QED BY <1>3, <1>7, <1>8, <1>9 DEF Tap

LEMMA RunBlockFollows ==
    ASSUME Inv, ListFollows, RunBlock
    PROVE  ListFollows'
<1> DEFINE head == Head(mainQueue)
<1>1. mainQueue \in Seq(Block) /\ productsArray \in Rows
    BY DEF Inv, DbInv, DbTypeOK, Block, ScreenInv, ScreenTypeOK, AppTypeOK
<1>2. ASSUME NEW what, Run(what),
             what = "value" => head.rows = Empty \/ productsArray' = head.rows,
             what # "value" => \A k \in Key :
                /\ (productsArray'[k] = NoRecord <=> productsArray[k] = NoRecord)
                /\ productsArray[k] # NoRecord =>
                                 productsArray'[k].picture = productsArray[k].picture
      PROVE  ListFollows'
    <2> SUFFICES ASSUME observing # NoCategory, observing \notin awaiting
                 PROVE  Follows(mainQueue', productsArray', cache[observing])
        BY <1>2 DEF ListFollows, Run
    <2>1. Follows(mainQueue, productsArray, cache[observing])
        BY DEF ListFollows
    <2>2. head.what = what /\ mainQueue # <<>> /\ mainQueue' = Tail(mainQueue)
        BY <1>2 DEF Run
    <2>3. what # "value" /\ SameProducts(productsArray, cache[observing])
            => SameProducts(productsArray', cache[observing])
        BY <1>2 DEF SameProducts
    <2> QED BY <1>1, <1>2, <2>1, <2>2, <2>3, FollowsRun
<1>3. CASE ValueEvent
    BY <1>2, <1>3 DEF ValueEvent, Rebuilt
<1>4. CASE ClosedListEvent
    BY <1>2, <1>4 DEF ClosedListEvent
<1>5. CASE SaveDone
    <2> DEFINE v == head.view
    <2>1. CASE SaveRefused
        BY <1>2, <2>1 DEF SaveRefused
    <2>2. ASSUME Run("saved"), ~NoInt(views[v].text), UpdateSelectedValues(v)
          PROVE  ListFollows'
        <3>1. v \in View
            BY <2>2, RunBlockOf
        <3>2. views \in [View -> DetailView]
            BY DEF Inv, ScreenInv, ScreenTypeOK, AppTypeOK
        <3> HIDE DEF v
        <3>3. views[v].text \in Described
            <4>1. views[v].text \in Content
                BY <3>1, <3>2 DEF DetailView
            <4> QED BY <4>1, <2>2 DEF Content, Refused, NoInt, Described
        <3> QED BY <1>2, <2>2, <3>1, <3>3, UpdateKeepsProducts
    <2>3. CASE Trap("price, late")
        BY <2>3 DEF Trap, dbVars, ListFollows
    <2> QED BY <1>5, <2>1, <2>2, <2>3 DEF SaveDone
<1>6. CASE DeleteDone
    BY <1>2, <1>6 DEF DeleteDone
<1>7. CASE AddDone
    BY <1>2, <1>7 DEF AddDone, appVars
<1> QED BY <1>3, <1>4, <1>5, <1>6, <1>7 DEF RunBlock

LEMMA AnsweredFollows ==
    ASSUME Inv, ListFollows, Answered
    PROVE  ListFollows'
<1>1. productsArray' = productsArray
    BY DEF Answered, appVars
<1>2. mainQueue \in Seq(Block) /\ outbox \in Seq(Write)
    BY DEF Inv, DbInv, DbTypeOK, Block
<1>3. CASE Accept
    <2> DEFINE more == <<Answer(TRUE)>>
    <2>1. more \in Seq(Block) /\ NoValue(more)
        BY <1>3, AnswerIsNoValue DEF Accept
    <2>2. Answer(TRUE) \in Block
        BY <1>3, AnswerIsNoValue DEF Accept
    <2>3. mainQueue' = mainQueue \o more
        BY <1>2, <1>3, <2>2, AppendIsConcat DEF Accept
    <2> HIDE DEF more
    <2>4. \A held : Follows(mainQueue, productsArray, held)
                        => Follows(mainQueue', productsArray, held)
        BY <1>2, <2>1, <2>3, FollowsBehind
    <2> QED BY <1>1, <1>3, <2>4 DEF Accept, ListFollows
<1>4. CASE Reject
    <2> DEFINE w == Head(outbox)
               value == IF PendingAfterHead(w.category, w.key) THEN cache[w.category][w.key]
                        ELSE stored[w.category][w.key]
               more == <<Answer(FALSE)>>
    <2>1. more \in Seq(Block) /\ NoValue(more) /\ Answer(FALSE) \in Block
        BY <1>4, AnswerIsNoValue DEF Reject
    <2>2. w \in Write
        BY <1>2, <1>4, HeadTailProperties DEF Reject
    <2>3. w.category \in Category /\ w.key \in Key
        BY <2>2 DEF Write
    <2>4. /\ cache' = [cache EXCEPT ![w.category][w.key] = value]
          /\ mainQueue' = Append(mainQueue \o Raised(w.category, w.key, value), Answer(FALSE))
          /\ observing' = observing /\ awaiting' = awaiting
        BY <1>4 DEF Reject
    <2>5. /\ stored \in [Category -> Contents] /\ cache \in [Category -> Contents]
          /\ cache \in Whole /\ stored \in Whole
        BY DEF Inv, DbInv, DbTypeOK
    <2>6. /\ value \in Record \cup {NoRecord}
          /\ value # NoRecord => CategoryOf[w.key] = w.category /\ value.picture = PictureOf[w.key]
        BY <2>3, <2>5 DEF Contents, Whole
    <2> HIDE DEF w, value, more
    <2>7. Raised(w.category, w.key, value) \in Seq(Block)
        <3>1. Raised(w.category, w.key, value) \in Seq(KeptBlock(observing))
            BY <2>3, <2>5, <2>6, RaisedKept DEF Inv, DbInv
        <3> QED BY <3>1, KeptTypes DEF Block
    <2>8. mainQueue \o Raised(w.category, w.key, value) \in Seq(Block)
        BY <1>2, <2>7, ConcatProperties
    <2>9. mainQueue' = (mainQueue \o Raised(w.category, w.key, value)) \o more
        BY <2>1, <2>4, <2>8, AppendIsConcat DEF more
    <2> QED BY <1>1, <2>1, <2>3, <2>4, <2>6, <2>9, RaisedFollows
<1> QED BY <1>3, <1>4 DEF Answered

LEMMA OthersFollows ==
    ASSUME Inv, ListFollows, Others
    PROVE  ListFollows'
<1>1. productsArray' = productsArray
    BY DEF Others, appVars
<1>2. /\ cache \in [Category -> Contents] /\ mainQueue \in Seq(Block)
      /\ cache \in Whole
    BY DEF Inv, DbInv, DbTypeOK, Block
<1>3. ASSUME NEW k \in Key, NEW value \in Record \cup {NoRecord},
             value # NoRecord => value.picture = PictureOf[k], OtherWrite(k, value)
      PROVE  ListFollows'
    <2> DEFINE c == CategoryOf[k]
               seen == IF Pending(c, k) THEN cache[c][k] ELSE value
    <2>1. c \in Category
        BY Created
    <2>2. /\ seen \in Record \cup {NoRecord}
          /\ seen # NoRecord => CategoryOf[k] = c /\ seen.picture = PictureOf[k]
        BY <1>2, <1>3, <2>1 DEF Contents, Whole
    <2>3. /\ cache' = [cache EXCEPT ![c][k] = seen]
          /\ mainQueue' = mainQueue \o Raised(c, k, seen)
          /\ observing' = observing /\ awaiting' = awaiting
        BY <1>3 DEF OtherWrite
    <2> HIDE DEF c, seen
    <2>4. Raised(c, k, seen) \in Seq(Block)
        <3>1. Raised(c, k, seen) \in Seq(KeptBlock(observing))
            BY <1>2, <2>1, <2>2, RaisedKept DEF Inv, DbInv
        <3> QED BY <3>1, KeptTypes DEF Block
    <2>5. mainQueue \o Raised(c, k, seen) \in Seq(Block)
        BY <1>2, <2>4, ConcatProperties
    <2>6. mainQueue' = (mainQueue \o Raised(c, k, seen)) \o <<>>
        BY <2>3, <2>5, ConcatEmptySeq
    <2>7. <<>> \in Seq(Block) /\ NoValue(<<>>)
        BY DEF NoValue
    <2> QED BY <1>1, <2>1, <2>2, <2>3, <2>6, <2>7, RaisedFollows
<1>4. PICK k \in Key :
        \/ OtherWrite(k, NoRecord)
        \/ \E t \in Text : OtherWrite(k, [text |-> t, picture |-> PictureOf[k]])
    BY DEF Others, OtherAdmin
<1>5. CASE OtherWrite(k, NoRecord)
    BY <1>3, <1>5
<1>6. ASSUME NEW t \in Text, OtherWrite(k, [text |-> t, picture |-> PictureOf[k]])
      PROVE  ListFollows'
    <2> DEFINE value == [text |-> t, picture |-> PictureOf[k]]
    <2>1. value \in Record /\ value.picture = PictureOf[k] /\ OtherWrite(k, value)
        BY <1>6, Created DEF Record
    <2> HIDE DEF value
    <2> QED BY <1>3, <2>1
<1> QED BY <1>4, <1>5, <1>6

LEMMA SnapshotFollows ==
    ASSUME Inv, ListFollows, Snapshot
    PROVE  ListFollows'
<1>1. productsArray' = productsArray
    BY DEF Snapshot, appVars
<1>2. PICK c \in awaiting :
        /\ awaiting' = awaiting \ {c}
        /\ mainQueue' = mainQueue
                \o (IF observing = c THEN <<ToOpen(cache[c])>> ELSE <<>>)
                \o (IF c \in leaked THEN <<ToClosed(cache[c])>> ELSE <<>>)
        /\ UNCHANGED <<stored, cache, outbox, used, observing, leaked>>
    BY DEF Snapshot, InitialSnapshot
<1> DEFINE open == IF observing = c THEN <<ToOpen(cache[c])>> ELSE <<>>
           closed == IF c \in leaked THEN <<ToClosed(cache[c])>> ELSE <<>>
<1>3. /\ mainQueue \in Seq(Block) /\ c \in Category /\ cache[c] \in Contents
    BY DEF Inv, DbInv, DbTypeOK, Block
<1>4. ToOpen(cache[c]) \in Block /\ ToClosed(cache[c]) \in Block /\ ToClosed(cache[c]).what # "value"
    BY <1>3 DEF ToOpen, ToClosed, Block, Event
<1>5. closed \in Seq(Block) /\ NoValue(closed)
    <2>1. CASE c \in leaked
        <3>1. closed = <<ToClosed(cache[c])>>
            BY <2>1
        <3> HIDE DEF closed
        <3> QED BY <1>4, <3>1 DEF NoValue
    <2>2. CASE c \notin leaked
        <3>1. closed = <<>>
            BY <2>2
        <3> HIDE DEF closed
        <3> QED BY <3>1 DEF NoValue
    <2> QED BY <2>1, <2>2
<1>6. mainQueue' = (mainQueue \o open) \o closed
    BY <1>2
<1> HIDE DEF closed
<1>7. CASE observing = c
    <2>1. open = <<ToOpen(cache[c])>>
        BY <1>7
    <2> HIDE DEF open
    <2>2. (mainQueue \o open) \o closed = mainQueue \o (open \o closed)
        BY <1>3, <1>4, <1>5, <2>1, ConcatAssociative
    <2>3. Follows(mainQueue \o (<<ToOpen(cache[c])>> \o closed), productsArray, cache[c])
        BY <1>3, <1>5, FollowsEvent
    <2> QED BY <1>1, <1>2, <1>6, <1>7, <2>1, <2>2, <2>3 DEF ListFollows
<1>8. CASE observing # c
    <2>1. mainQueue \o open = mainQueue
        BY <1>3, <1>8, ConcatEmptySeq
    <2>2. mainQueue' = mainQueue \o closed
        BY <1>6, <2>1
    <2>3. \A held : Follows(mainQueue, productsArray, held)
                        => Follows(mainQueue', productsArray, held)
        BY <1>3, <1>5, <2>2, FollowsBehind
    <2> QED BY <1>1, <1>2, <1>8, <2>3 DEF ListFollows
<1> QED BY <1>7, <1>8

LEMMA NextFollows == Inv /\ ListFollows /\ [Next]_vars => ListFollows'
<1> SUFFICES ASSUME Inv, ListFollows, [Next]_vars PROVE ListFollows'
    OBVIOUS
<1>1. CASE Tap
    BY <1>1, TapFollows
<1>2. CASE RunBlock
    BY <1>2, RunBlockFollows
<1>3. CASE Answered
    BY <1>3, AnsweredFollows
<1>4. CASE Snapshot
    BY <1>4, SnapshotFollows
<1>5. CASE Others
    BY <1>5, OthersFollows
<1>6. CASE Display
    BY <1>6 DEF Display, Draw, dbVars, ListFollows
<1>7. CASE Relaunch
    BY <1>7 DEF Relaunch, Disconnect, ListFollows
<1>8. CASE UNCHANGED vars
    BY <1>8 DEF vars, dbVars, appVars, ListFollows
<1> QED BY <1>1, <1>2, <1>3, <1>4, <1>5, <1>6, <1>7, <1>8 DEF Next

(***************************************************************************)
(* When no value event is left for the open list, its rows are the         *)
(* products of the client's copy, unless that has none.                    *)
(***************************************************************************)
THEOREM ListStaysCurrent == Spec => []ListCurrent
<1>1. Init => ListFollows
    BY DEF Init, DbInit, ListFollows
<1>2. Inv /\ ListFollows => ListCurrent
    <2> SUFFICES ASSUME Inv, ListFollows, ListSettled, cache[observing] # Empty
                 PROVE  SameProducts(productsArray, cache[observing])
        BY DEF ListCurrent, SameProducts
    <2>1. Follows(mainQueue, productsArray, cache[observing])
        BY DEF ListFollows, ListSettled
    <2>2. ~LastValue(mainQueue, cache[observing])
        BY DEF LastValue, ListSettled, ToOpen
    <2> QED BY <2>1, <2>2 DEF Follows
<1> QED BY <1>1, <1>2, Invariance, NextFollows, PTL DEF Spec

-----------------------------------------------------------------------------
(* A user who waits. *)
\* What a queued block is: an answer to a write, or an event of a list.
IsAnswer(block) == block.what \notin {"value", "closed"}

\* One write at a time: it is unanswered, or its answer is queued, or it is over.
OneWrite ==
    /\ Len(outbox) <= 1
    /\ \A i, j \in 1..Len(mainQueue) :
           IsAnswer(mainQueue[i]) /\ IsAnswer(mainQueue[j]) => i = j
    /\ outbox # <<>> => \A i \in 1..Len(mainQueue) : ~IsAnswer(mainQueue[i])

UnderWay == outbox # <<>> \/ \E i \in 1..Len(mainQueue) : IsAnswer(mainQueue[i])
Expected(what) ==
    \/ outbox # <<>> /\ outbox[1].reply.what = what
    \/ \E i \in 1..Len(mainQueue) : mainQueue[i].what = what

\* The view that wrote is still the one on screen, with what it wrote.
WriterWaits ==
    /\ UnderWay => ~alert /\ awaiting = {}
    /\ outbox # <<>> /\ outbox[1].reply.what \in {"saved", "deleted"}
           => outbox[1].reply.view = visible
    /\ \A i \in 1..Len(mainQueue) :
           mainQueue[i].what \in {"saved", "deleted"} => mainQueue[i].view = visible
    /\ Expected("saved") => OnScreen /\ ~NoInt(views[visible].text)

\* A view that shows a product has one to save or delete.
Selected ==
    /\ selectedProduct.key = NoKey => selectedProduct.text = "unnamed"
    /\ OnScreen => selectedProduct.key # NoKey
    /\ alert => OnScreen
    /\ trapped \in {"no", "price"}

\* The copy is the server's tree with the write on top.
CopyIs ==
    /\ outbox = <<>> => cache = stored
    /\ outbox # <<>> =>
           cache = [stored EXCEPT ![outbox[1].category][outbox[1].key] = outbox[1].value]

\* What is selected, and what a save that is under way has written of it.
HeldSelected == cache[observing][selectedProduct.key]
SavedText == [text |-> views[visible].text, picture |-> PictureOf[selectedProduct.key]]
SaveInFlight ==
    /\ outbox # <<>> /\ outbox[1].reply.what = "saved" =>
           /\ outbox[1].category = observing /\ outbox[1].key = selectedProduct.key
           /\ outbox[1].value = SavedText
    /\ outbox # <<>> /\ outbox[1].reply.what = "deleted" => outbox[1].value = NoRecord
SaveAccepted(i) == mainQueue[i].what = "saved" /\ mainQueue[i].ok

\* Until its answer has run, no null snapshot is ahead of it ...
NoneIsNull ==
    /\ outbox # <<>> /\ outbox[1].reply.what = "saved" =>
           \A j \in 1..Len(mainQueue) : mainQueue[j].what = "value" => mainQueue[j].rows # Empty
    /\ \A i \in 1..Len(mainQueue) : SaveAccepted(i) =>
           \A j \in 1..i : mainQueue[j].what = "value" => mainQueue[j].rows # Empty

\* ... and the row that its answer fills has that text, or will be replaced.
RowGetsItsText ==
    \A i \in 1..Len(mainQueue) : SaveAccepted(i) /\ NoValue(mainQueue) /\ aliased
        => HeldSelected = SavedText

\* The texts of the rows are those of the copy.
TextsFollow ==
    observing # NoCategory /\ observing \notin awaiting /\ NoValue(mainQueue)
        /\ cache[observing] # Empty
        => \A k \in Key : cache[observing][k] # NoRecord
                             => productsArray[k].text = cache[observing][k].text

\* A key that is in a row, or selected, is not handed out again.
HandedOut ==
    /\ \A k \in Key : productsArray[k] # NoRecord => k \in used
    /\ \A c \in Category, k \in Key : cache[c][k] # NoRecord => k \in used
    /\ \A i \in 1..Len(mainQueue) : mainQueue[i].what = "value" =>
           \A k \in Key : mainQueue[i].rows[k] # NoRecord => k \in used
    /\ selectedProduct.key # NoKey => selectedProduct.key \in used
    /\ outbox # <<>> /\ outbox[1].reply.what = "added" => outbox[1].key # selectedProduct.key

\* A form that is not being edited shows selectedProduct ...
FormShows == OnScreen /\ ~views[visible].editable => views[visible].text = selectedProduct.text

\* ... which has the text the server has, or will have once the answer has run.
SaveQueued == \E i \in 1..Len(mainQueue) : SaveAccepted(i)
SelectedRecord == stored[observing][selectedProduct.key]
SelectedIsTrue ==
    selectedProduct.key # NoKey =>
        /\ SaveQueued => SelectedRecord = SavedText
        /\ ~SaveQueued /\ SelectedRecord # NoRecord
               => SelectedRecord.text = selectedProduct.text

PatientInv ==
    /\ OneWrite /\ WriterWaits /\ Selected /\ CopyIs /\ SaveInFlight /\ NoneIsNull
    /\ RowGetsItsText /\ TextsFollow /\ HandedOut /\ FormShows

-----------------------------------------------------------------------------
\* With nothing under way most of it is about nothing.
LEMMA NothingUnderWay ==
    ASSUME outbox' = <<>>, mainQueue' = <<>>
    PROVE  /\ OneWrite' /\ WriterWaits' /\ SaveInFlight' /\ NoneIsNull' /\ RowGetsItsText'
           /\ ~UnderWay'
<1>1. \A i \in 1..Len(mainQueue') : FALSE
    BY LenProperties
<1>2. OneWrite' /\ ~UnderWay'
    BY <1>1 DEF OneWrite, UnderWay
<1> QED BY <1>1, <1>2 DEF WriterWaits, Expected, SaveInFlight, NoneIsNull, RowGetsItsText

\* A tap that writes nothing.
LEMMA IdleTap ==
    ASSUME Inv, ListFollows, PatientInv, Quiet, Tap, outbox' = outbox,
           mainQueue' = mainQueue, stored' = stored, cache' = cache, used' = used,
           Selected', TextsFollow', FormShows',
           \A k \in Key : productsArray'[k] # NoRecord => k \in used,
           selectedProduct'.key # NoKey => selectedProduct'.key \in used
    PROVE  PatientInv'
<1>1. outbox' = <<>> /\ mainQueue' = <<>>
    BY DEF Quiet
<1>2. CopyIs'
    BY <1>1 DEF PatientInv, CopyIs
<1>3. HandedOut'
    <2>1. \A i \in 1..Len(mainQueue') : FALSE
        BY <1>1, LenProperties
    <2> QED BY <1>1, <2>1 DEF PatientInv, HandedOut
<1> QED BY <1>1, <1>2, <1>3, NothingUnderWay DEF PatientInv

LEMMA TrapPatient ==
    ASSUME PatientInv, NEW why \in {"no", "price"}, Trap(why), alert' => alert
    PROVE  PatientInv'
BY DEF Trap, dbVars, PatientInv, OneWrite, WriterWaits, UnderWay, Expected, Selected, CopyIs,
       SaveInFlight, SavedText, NoneIsNull, SaveAccepted, RowGetsItsText, HeldSelected,
       TextsFollow, HandedOut, FormShows, OnScreen, NoValue

\* A view that comes on screen shows nothing yet.
LEMMA PresentedShowsNothing ==
    ASSUME Inv, NEW v \in View \cup {NoView}, Present(v)
    PROVE  ~OnScreen' /\ FormShows'
<1>1. visible' = v /\ (v # NoView => views'[v].phase = "undrawn")
    BY PresentViews DEF Inv, ScreenInv, ScreenTypeOK
<1> QED BY <1>1 DEF OnScreen, FormShows

LEMMA ListTapPatient ==
    ASSUME Inv, ListFollows, PatientInv, Quiet, ListTap
    PROVE  PatientInv'
<1>1. /\ Uncovered /\ alert' = alert /\ ~alert /\ UNCHANGED <<detailVars, addVars>> /\ Tap
      /\ mainQueue = <<>>
    BY DEF ListTap, Uncovered, Tap, detailVars, Quiet
<1>2. CASE \E c \in Category, v \in View \cup {NoView} : OpenCategory(c, v)
    <2>1. PICK c \in Category, v \in View \cup {NoView} : OpenCategory(c, v)
        BY <1>2
    <2>2. ~OnScreen' /\ FormShows'
        BY <2>1, PresentedShowsNothing DEF OpenCategory
    <2>3. /\ observing' = c /\ awaiting' = awaiting \cup {c} /\ selectedProduct' = selectedProduct
          /\ trapped' = trapped /\ productsArray' = Empty
          /\ UNCHANGED <<stored, cache, outbox, mainQueue, used>>
        BY <2>1 DEF OpenCategory, Observe
    <2>4. TextsFollow'
        BY <2>3 DEF TextsFollow
    <2>5. Selected'
        BY <1>1, <2>2, <2>3 DEF PatientInv, Selected
    <2>6. /\ \A k \in Key : productsArray'[k] = NoRecord
          /\ selectedProduct'.key # NoKey => selectedProduct'.key \in used
        BY <2>3 DEF Empty, PatientInv, HandedOut
    <2> QED BY <1>1, <2>2, <2>3, <2>4, <2>5, <2>6, IdleTap
<1>3. CASE \E k \in Key, v \in View : SelectRow(k, v)
    <2>1. PICK k \in Key, v \in View : SelectRow(k, v)
        BY <1>3
    <2>2. ~OnScreen' /\ FormShows'
        BY <2>1, PresentedShowsNothing DEF SelectRow
    <2>3. /\ productsArray[k] # NoRecord /\ selectedProduct'.key = k /\ k # NoKey
          /\ trapped' = trapped /\ productsArray' = productsArray
          /\ UNCHANGED <<stored, cache, outbox, mainQueue, used, observing, awaiting>>
        BY <2>1, Absent DEF SelectRow, dbVars
    <2>4. TextsFollow'
        BY <2>3 DEF PatientInv, TextsFollow, NoValue
    <2>5. Selected'
        BY <1>1, <2>2, <2>3 DEF PatientInv, Selected
    <2>6. (\A l \in Key : productsArray[l] # NoRecord => l \in used) /\ k \in used
        BY <2>3 DEF PatientInv, HandedOut
    <2> QED BY <1>1, <2>2, <2>3, <2>4, <2>5, <2>6, IdleTap
<1>4. CASE Back
    <2>1. ~OnScreen' /\ FormShows'
        BY <1>4, PresentedShowsNothing DEF Back
    <2>2. /\ selectedProduct' = selectedProduct /\ trapped' = trapped
          /\ productsArray' = productsArray
          /\ UNCHANGED <<stored, cache, outbox, mainQueue, used, observing, awaiting>>
        BY <1>4 DEF Back, dbVars
    <2>3. TextsFollow'
        BY <2>2 DEF PatientInv, TextsFollow, NoValue
    <2>4. Selected'
        BY <1>1, <2>1, <2>2 DEF PatientInv, Selected
    <2> QED BY <1>1, <2>1, <2>2, <2>3, <2>4, IdleTap DEF PatientInv, HandedOut
<1>5. CASE Exit
    <2>1. ~OnScreen' /\ FormShows'
        BY <1>5, PresentedShowsNothing DEF Exit
    <2>2. /\ selectedProduct' = EmptyProduct /\ productsArray' = Empty /\ trapped' = trapped
          /\ observing' = NoCategory
          /\ UNCHANGED <<stored, cache, outbox, used>>
        BY <1>5 DEF Exit, Abandon
    <2>3. mainQueue' = mainQueue
        <3>1. mainQueue' = [i \in 1..Len(mainQueue) |->
                               IF mainQueue[i].what = "value"
                               THEN ToClosed(mainQueue[i].rows) ELSE mainQueue[i]]
            BY <1>5 DEF Exit, Abandon
        <3>2. Len(mainQueue) = 0
            BY <1>1
        <3> QED BY <1>1, <3>1, <3>2
    <2>4. TextsFollow'
        BY <2>2 DEF TextsFollow
    <2>5. Selected'
        BY <1>1, <2>1, <2>2 DEF PatientInv, Selected, EmptyProduct
    <2>6. (\A k \in Key : productsArray'[k] = NoRecord) /\ selectedProduct'.key = NoKey
        BY <2>2 DEF Empty, EmptyProduct
    <2> QED BY <1>1, <2>1, <2>2, <2>3, <2>4, <2>5, <2>6, IdleTap
<1> QED BY <1>2, <1>3, <1>4, <1>5 DEF ListTap

\* A tap that changes neither the database nor the selection nor the rows.
LEMMA ViewTap ==
    ASSUME Inv, ListFollows, PatientInv, Quiet, Tap, UNCHANGED dbVars,
           productsArray' = productsArray, selectedProduct' = selectedProduct,
           Selected', FormShows'
    PROVE  PatientInv'
<1>1. TextsFollow'
    BY DEF dbVars, PatientInv, TextsFollow, NoValue
<1> QED BY <1>1, IdleTap DEF dbVars, PatientInv, HandedOut

-----------------------------------------------------------------------------
\* The queue with more blocks behind.
LEMMA Grown ==
    ASSUME NEW queue \in Seq(Block), NEW more \in Seq(Block)
    PROVE  /\ Len(queue) \in Nat /\ Len(more) \in Nat
           /\ Len(queue \o more) = Len(queue) + Len(more)
           /\ \A i \in 1..Len(queue) : i \in 1..Len(queue \o more) /\ (queue \o more)[i] = queue[i]
           /\ \A i \in 1..Len(queue \o more) : i \notin 1..Len(queue) =>
                  /\ i - Len(queue) \in 1..Len(more)
                  /\ (queue \o more)[i] = more[i - Len(queue)]
           /\ NoValue(queue \o more) => NoValue(queue) /\ NoValue(more)
<1>1. /\ Len(queue) \in Nat /\ Len(more) \in Nat
      /\ Len(queue \o more) = Len(queue) + Len(more)
      /\ \A i \in 1..(Len(queue) + Len(more)) :
             (queue \o more)[i] = IF i <= Len(queue) THEN queue[i] ELSE more[i - Len(queue)]
    BY ConcatProperties, LenProperties
<1> DEFINE all == queue \o more
<1>2. Len(all) = Len(queue) + Len(more)
      /\ \A i \in 1..Len(all) :
             all[i] = IF i <= Len(queue) THEN queue[i] ELSE more[i - Len(queue)]
    BY <1>1
<1> HIDE DEF all
<1>3. \A i \in 1..Len(queue) : i \in 1..Len(all) /\ all[i] = queue[i]
    BY <1>1, <1>2
<1>4. \A i \in 1..Len(all) : i \notin 1..Len(queue) =>
          i - Len(queue) \in 1..Len(more) /\ all[i] = more[i - Len(queue)]
    BY <1>1, <1>2
<1>5. \A i \in 1..Len(more) : Len(queue) + i \in 1..Len(all) /\ all[Len(queue) + i] = more[i]
    <2> SUFFICES ASSUME NEW i \in 1..Len(more)
                 PROVE  Len(queue) + i \in 1..Len(all) /\ all[Len(queue) + i] = more[i]
        OBVIOUS
    <2>1. Len(queue) + i \in 1..Len(all) /\ ~(Len(queue) + i <= Len(queue))
          /\ Len(queue) + i - Len(queue) = i
        BY <1>1, <1>2
    <2> QED BY <1>2, <2>1
<1>6. NoValue(all) => NoValue(queue) /\ NoValue(more)
    BY <1>3, <1>5 DEF NoValue
<1> QED BY <1>1, <1>2, <1>3, <1>4, <1>6 DEF all

\* The events of a change carry the category with the change; if it is open and
\* has its first snapshot, one of them is a value event.
LEMMA RaisedFacts ==
    ASSUME DbTypeOK, NEW c \in Category, NEW k \in Key, NEW value \in Record \cup {NoRecord}
    PROVE  LET new == [cache[c] EXCEPT ![k] = value]
           IN  /\ Raised(c, k, value) \in Seq(Block)
               /\ new \in Contents
               /\ \A i \in 1..Len(Raised(c, k, value)) :
                      Raised(c, k, value)[i] \in {ToOpen(new), ToClosed(new)}
               /\ \A i \in 1..Len(Raised(c, k, value)) :
                      Raised(c, k, value)[i] = ToOpen(new) => observing = c
               /\ observing = c /\ c \notin awaiting /\ cache[c][k] # value
                      => ~NoValue(Raised(c, k, value))
<1> DEFINE new == [cache[c] EXCEPT ![k] = value]
           open == IF observing = c /\ c \notin awaiting THEN <<ToOpen(new)>> ELSE <<>>
           closed == IF c \in leaked THEN <<ToClosed(new)>> ELSE <<>>
           raised == Raised(c, k, value)
<1>1. new \in Contents
    BY DEF DbTypeOK, Contents
<1>2. raised = IF cache[c][k] = value THEN <<>> ELSE open \o closed
    BY DEF Raised, Events
<1> HIDE DEF new, raised
<1>3. ToOpen(new) \in Block /\ ToClosed(new) \in Block /\ ToOpen(new).what = "value"
    BY <1>1 DEF ToOpen, ToClosed, Block, Event
<1>4. /\ open \in Seq(Block) /\ \A i \in 1..Len(open) : open[i] = ToOpen(new) /\ observing = c
      /\ observing = c /\ c \notin awaiting => ~NoValue(open)
    BY <1>3 DEF NoValue
<1>5. closed \in Seq(Block) /\ \A i \in 1..Len(closed) : closed[i] = ToClosed(new)
    BY <1>3
<1> HIDE DEF open, closed
<1>6. CASE cache[c][k] = value
    <2>1. raised = <<>> /\ Len(raised) = 0 /\ raised \in Seq(Block)
        BY <1>2, <1>6
    <2> QED BY <1>1, <1>6, <2>1 DEF new, raised
<1>7. CASE cache[c][k] # value
    <2>1. raised = open \o closed
        BY <1>2, <1>7
    <2>2. raised \in Seq(Block)
        BY <1>4, <1>5, <2>1, ConcatProperties
    <2>3. \A i \in 1..Len(raised) :
              \/ raised[i] = ToOpen(new) /\ observing = c
              \/ raised[i] = ToClosed(new)
        BY <1>4, <1>5, <2>1, Grown
    <2>4. NoValue(raised) => NoValue(open)
        BY <1>4, <1>5, <2>1, Grown
    <2>5. ToOpen(new) # ToClosed(new)
        BY DEF ToOpen, ToClosed
    <2> QED BY <1>1, <1>4, <2>2, <2>3, <2>4, <2>5 DEF new, raised
<1> QED BY <1>6, <1>7

\* A change of the copy keeps the texts of the rows, or replaces the rows.
LEMMA ChangeKeepsTexts ==
    ASSUME Inv, PatientInv, NEW c \in Category, NEW k \in Key,
           NEW value \in Record \cup {NoRecord}, NEW more \in Seq(Block),
           cache' = [cache EXCEPT ![c][k] = value],
           mainQueue' = (mainQueue \o Raised(c, k, value)) \o more,
           observing' = observing, awaiting' = awaiting, productsArray' = productsArray
    PROVE  /\ TextsFollow'
           /\ NoValue(mainQueue') =>
                  /\ NoValue(mainQueue)
                  /\ observing # NoCategory /\ observing \notin awaiting
                         => cache'[observing] = cache[observing]
<1>1. /\ DbTypeOK /\ mainQueue \in Seq(Block) /\ cache \in [Category -> Contents]
      /\ observing \in Category \cup {NoCategory}
    BY DEF Inv, DbInv, DbTypeOK, Block
<1>2. Raised(c, k, value) \in Seq(Block)
    BY <1>1, RaisedFacts
<1>3. mainQueue \o Raised(c, k, value) \in Seq(Block)
    BY <1>1, <1>2, ConcatProperties
<1>4. NoValue(mainQueue') => NoValue(mainQueue) /\ NoValue(Raised(c, k, value))
    <2>1. NoValue(mainQueue') => NoValue(mainQueue \o Raised(c, k, value))
        BY <1>3, Grown
    <2> QED BY <1>1, <1>2, <2>1, Grown
<1>5. NoValue(mainQueue') /\ observing # NoCategory /\ observing \notin awaiting
          => cache'[observing] = cache[observing]
    <2> SUFFICES ASSUME NoValue(mainQueue'), observing # NoCategory, observing \notin awaiting
                 PROVE  cache'[observing] = cache[observing]
        OBVIOUS
    <2>1. observing \in Category
        BY <1>1
    <2>2. CASE c = observing
        <3>1. cache[c][k] = value
            BY <1>1, <1>4, <2>2, RaisedFacts
        <3> QED BY <1>1, <2>2, <3>1 DEF Contents
    <2>3. CASE c # observing
        BY <1>1, <2>1, <2>3
    <2> QED BY <2>2, <2>3
<1>6. TextsFollow'
    BY <1>4, <1>5 DEF PatientInv, TextsFollow
<1> QED BY <1>4, <1>5, <1>6

\* The first write after everything was over.
LEMMA QuietPut ==
    ASSUME Inv, PatientInv, Quiet, NEW c \in Category, NEW k \in Key,
           NEW value \in Record \cup {NoRecord}, NEW reply,
           Put(c, k, value, reply), productsArray' = productsArray,
           selectedProduct' = selectedProduct,
           reply.what = "saved" => value # NoRecord,
           reply.what = "added" => k # selectedProduct.key
    PROVE  /\ outbox' # <<>>
           /\ outbox'[1] = [category |-> c, key |-> k, value |-> value, reply |-> reply]
           /\ \A i \in 1..Len(mainQueue') : mainQueue'[i].what \in {"value", "closed"}
           /\ awaiting' = {} /\ observing' = observing /\ stored' = stored
           /\ OneWrite' /\ CopyIs' /\ NoneIsNull' /\ RowGetsItsText' /\ TextsFollow'
           /\ HandedOut'
<1> DEFINE w == [category |-> c, key |-> k, value |-> value, reply |-> reply]
           new == [cache[c] EXCEPT ![k] = value]
<1>1. /\ outbox = <<>> /\ mainQueue = <<>> /\ awaiting = {} /\ outbox' = Append(outbox, w)
      /\ cache' = [cache EXCEPT ![c][k] = value] /\ mainQueue' = mainQueue \o Raised(c, k, value)
      /\ used' = used \cup {k} /\ UNCHANGED <<stored, observing, awaiting, leaked>>
    BY DEF Quiet, Put
<1>2. /\ DbTypeOK /\ Raised(c, k, value) \in Seq(Block) /\ new \in Contents
      /\ cache \in [Category -> Contents]
    BY RaisedFacts DEF Inv, DbInv, DbTypeOK
<1>3. mainQueue' = Raised(c, k, value)
    BY <1>1, <1>2
<1>4. \A i \in 1..Len(mainQueue') : mainQueue'[i] \in {ToOpen(new), ToClosed(new)}
    BY <1>2, <1>3, RaisedFacts
<1>5. outbox' = <<w>>
    BY <1>1
<1> HIDE DEF w, new
<1>6. outbox' # <<>> /\ outbox'[1] = w /\ Len(outbox') = 1
    BY <1>5
<1>7. \A i \in 1..Len(mainQueue') : /\ mainQueue'[i].what \in {"value", "closed"}
                                    /\ mainQueue'[i].rows = new
    BY <1>4 DEF ToOpen, ToClosed
<1>8. OneWrite'
    BY <1>6, <1>7 DEF OneWrite, IsAnswer
<1>9. CopyIs'
    <2>1. cache = stored
        BY <1>1 DEF PatientInv, CopyIs
    <2>2. cache' = [stored' EXCEPT ![w.category][w.key] = w.value]
        BY <1>1, <2>1 DEF w
    <2> QED BY <1>6, <2>2 DEF CopyIs
<1>10. new[k] = value
    BY <1>2 DEF Contents, new
<1>11. NoneIsNull'
    <2>1. value # NoRecord => new # Empty
        BY <1>10 DEF Empty
    <2> QED BY <1>6, <1>7, <2>1 DEF NoneIsNull, SaveAccepted, w
<1>12. RowGetsItsText'
    BY <1>7 DEF RowGetsItsText, SaveAccepted
<1>13. TextsFollow'
    <2>1. mainQueue' = (mainQueue \o Raised(c, k, value)) \o <<>>
        BY <1>1, <1>2, <1>3
    <2>2. <<>> \in Seq(Block)
        OBVIOUS
    <2> QED BY <1>1, <2>1, <2>2, ChangeKeepsTexts
<1>14. HandedOut'
    <2>1. ASSUME NEW d \in Category, NEW l \in Key, cache'[d][l] # NoRecord PROVE l \in used'
        <3>1. l = k \/ cache[d][l] # NoRecord
            BY <1>1, <1>2, <2>1 DEF Contents
        <3> QED BY <1>1, <3>1 DEF PatientInv, HandedOut
    <2>2. ASSUME NEW l \in Key, new[l] # NoRecord PROVE l \in used'
        <3>1. l = k \/ cache[c][l] # NoRecord
            BY <1>2, <2>2 DEF Contents, new
        <3> QED BY <1>1, <3>1 DEF PatientInv, HandedOut
    <2>3. \A l \in Key : productsArray'[l] # NoRecord => l \in used'
        BY <1>1 DEF PatientInv, HandedOut
    <2>4. selectedProduct'.key # NoKey => selectedProduct'.key \in used'
        BY <1>1 DEF PatientInv, HandedOut
    <2>5. outbox'[1].reply.what = "added" => outbox'[1].key # selectedProduct'.key
        BY <1>6 DEF w
    <2> QED BY <1>7, <2>1, <2>2, <2>3, <2>4, <2>5 DEF HandedOut
<1> QED BY <1>1, <1>6, <1>7, <1>8, <1>9, <1>11, <1>12, <1>13, <1>14 DEF w

LEMMA SavePressedPatient ==
    ASSUME Inv, PatientInv, Quiet, Uncovered, SavePressed, UNCHANGED addVars
    PROVE  PatientInv'
<1>1. /\ OnScreen /\ visible # NoView /\ selectedProduct.key # NoKey /\ ~alert /\ alert' = alert
      /\ views[visible].text \notin Refused
    BY DEF SavePressed, OnScreen, PatientInv, Selected, Uncovered, detailVars
<1>2. CASE Trap("price")
    BY <1>1, <1>2, TrapPatient
<1>3. CASE /\ ~NoInt(views[visible].text)
           /\ Put(currentCategory, selectedProduct.key, NewProductDictionary,
                  [what |-> "saved", view |-> visible])
           /\ UNCHANGED <<currentCategory, selectedProduct, productsArray,
                          aliased, visible, views, trapped>>
    <2> DEFINE value == NewProductDictionary
               k == selectedProduct.key
               reply == [what |-> "saved", view |-> visible]
    <2>1. /\ k \in Key /\ currentCategory \in Category /\ observing = currentCategory
          /\ selectedProduct.picture = PictureOf[k] /\ selectedProduct.picture \in Picture
        BY <1>1, SelectionIsOfCategory DEF Inv, ScreenInv, SelectionKept, Nested
    <2>2. views[visible].text \in Text
        <3>1. views[visible].text \in Content
            BY <1>1, OnScreenView DEF DetailView
        <3> QED BY <1>1, <1>3, <3>1 DEF Content, Refused, NoInt
    <2>3. value = SavedText /\ value \in Record
        BY <2>1, <2>2 DEF NewProductDictionary, SavedText, Record
    <2>4. value # NoRecord /\ reply.what = "saved" /\ reply.view = visible
        BY <2>3, Absent DEF Record
    <2>5. Put(currentCategory, k, value, reply)
        BY <1>3
    <2>6. /\ visible' = visible /\ views' = views /\ selectedProduct' = selectedProduct
          /\ productsArray' = productsArray /\ trapped' = trapped
        BY <1>3
    <2> HIDE DEF value, k, reply
    <2>7. /\ outbox' # <<>>
          /\ outbox'[1] = [category |-> currentCategory, key |-> k, value |-> value,
                           reply |-> reply]
          /\ \A i \in 1..Len(mainQueue') : mainQueue'[i].what \in {"value", "closed"}
          /\ awaiting' = {} /\ observing' = observing
          /\ OneWrite' /\ CopyIs' /\ NoneIsNull' /\ RowGetsItsText' /\ TextsFollow'
          /\ HandedOut'
        BY <2>1, <2>3, <2>4, <2>5, <2>6, QuietPut
    <2>8. SaveInFlight'
        BY <2>1, <2>3, <2>4, <2>6, <2>7 DEF SaveInFlight, SavedText, k
    <2>9. WriterWaits'
        BY <1>1, <1>3, <2>4, <2>6, <2>7 DEF WriterWaits, OnScreen
    <2>10. Selected' /\ FormShows'
        BY <1>1, <2>6 DEF PatientInv, Selected, FormShows, OnScreen
    <2> QED BY <2>7, <2>8, <2>9, <2>10 DEF PatientInv
<1> QED BY <1>1, <1>2, <1>3 DEF SavePressed

LEMMA ConfirmDeletePatient ==
    ASSUME Inv, PatientInv, Quiet, ConfirmDelete, UNCHANGED addVars
    PROVE  PatientInv'
<1> DEFINE k == selectedProduct.key
           reply == [what |-> "deleted", view |-> visible]
<1>1. OnScreen /\ visible # NoView /\ k # NoKey /\ alert' = FALSE
    BY DEF ConfirmDelete, OnScreen, PatientInv, Selected
<1>2. Put(currentCategory, k, NoRecord, reply) /\ UNCHANGED appVars
    BY <1>1 DEF ConfirmDelete
<1>3. k \in Key /\ currentCategory \in Category
    BY <1>1, SelectionIsOfCategory
<1>4. reply.what = "deleted" /\ reply.view = visible
    OBVIOUS
<1> HIDE DEF k, reply
<1>5. /\ outbox' # <<>>
      /\ outbox'[1] = [category |-> currentCategory, key |-> k, value |-> NoRecord,
                       reply |-> reply]
      /\ \A i \in 1..Len(mainQueue') : mainQueue'[i].what \in {"value", "closed"}
      /\ awaiting' = {}
      /\ OneWrite' /\ CopyIs' /\ NoneIsNull' /\ RowGetsItsText' /\ TextsFollow'
      /\ HandedOut'
    BY <1>2, <1>3, <1>4, QuietPut DEF appVars
<1>6. SaveInFlight' /\ WriterWaits'
    BY <1>1, <1>2, <1>4, <1>5 DEF SaveInFlight, WriterWaits, Expected, appVars
<1>7. Selected' /\ FormShows'
    BY <1>1, <1>2 DEF PatientInv, Selected, FormShows, OnScreen, appVars
<1> QED BY <1>5, <1>6, <1>7 DEF PatientInv

LEMMA PopupSavePressedPatient ==
    ASSUME Inv, PatientInv, Quiet, ~alert, PopupSavePressed, UNCHANGED detailVars
    PROVE  PatientInv'
<1>1. alert' = alert /\ ~alert
    BY DEF detailVars
<1>2. CASE Trap("price")
    BY <1>1, <1>2, TrapPatient
<1>3. CASE /\ ~NoInt(popupForm)
           /\ \E k \in Key : /\ IsAutoId(k, currentCategory, Placeholder)
                             /\ Put(currentCategory, k,
                                    [text |-> popupForm, picture |-> Placeholder],
                                    [what |-> "added", view |-> popup])
           /\ UNCHANGED appVars
    <2> DEFINE value == [text |-> popupForm, picture |-> Placeholder]
               reply == [what |-> "added", view |-> popup]
    <2>1. PICK k \in Key : /\ IsAutoId(k, currentCategory, Placeholder)
                           /\ Put(currentCategory, k, value, reply)
        BY <1>3
    <2>2. currentCategory \in Category /\ k \notin used
        BY <2>1, Created DEF IsAutoId
    <2>3. k # selectedProduct.key
        BY <2>2, Absent DEF PatientInv, HandedOut
    <2>4. popupForm \in Text
        <3>1. popupForm \in Content /\ popupForm \notin Refused
            BY DEF PopupSavePressed, Inv, ScreenInv, ScreenTypeOK, AddTypeOK
        <3> QED BY <1>3, <3>1 DEF Content, Refused, NoInt
    <2>5. value \in Record
        BY <2>4, Created DEF Record
    <2>6. reply.what = "added" /\ UNCHANGED appVars
        BY <1>3
    <2> HIDE DEF value, reply
    <2>7. /\ outbox' # <<>>
          /\ outbox'[1] = [category |-> currentCategory, key |-> k, value |-> value,
                           reply |-> reply]
          /\ \A i \in 1..Len(mainQueue') : mainQueue'[i].what \in {"value", "closed"}
          /\ awaiting' = {}
          /\ OneWrite' /\ CopyIs' /\ NoneIsNull' /\ RowGetsItsText' /\ TextsFollow'
          /\ HandedOut'
        BY <2>1, <2>2, <2>3, <2>5, <2>6, QuietPut DEF appVars
    <2>8. SaveInFlight' /\ WriterWaits'
        BY <1>1, <2>6, <2>7 DEF SaveInFlight, WriterWaits, Expected
    <2>9. Selected' /\ FormShows'
        BY <1>1, <2>6 DEF PatientInv, Selected, FormShows, OnScreen, appVars
    <2> QED BY <2>7, <2>8, <2>9 DEF PatientInv
<1> QED BY <1>2, <1>3 DEF PopupSavePressed

LEMMA TapPatient ==
    ASSUME Inv, ListFollows, PatientInv, Quiet, Tap
    PROVE  PatientInv'
<1>1. CASE EditPressed /\ Uncovered /\ UNCHANGED addVars
    <2> DEFINE editing == ~views[visible].editState
    <2>1. OnScreen /\ visible \in View /\ views \in [View -> DetailView] /\ alert' = alert
        BY <1>1, OnScreenView DEF EditPressed, OnScreen, detailVars
    <2>2. /\ views'[visible].phase = views[visible].phase
          /\ views'[visible].editable = editing
          /\ ~editing => views'[visible].text = selectedProduct.text
        BY <1>1, <2>1 DEF EditPressed, DetailView
    <2>3. Selected' /\ FormShows'
        BY <1>1, <2>1, <2>2 DEF EditPressed, PatientInv, Selected, FormShows, OnScreen
    <2> QED BY <1>1, <2>3, ViewTap DEF EditPressed
<1>2. ASSUME NEW content \in Typed, TypeInto(content), Uncovered, UNCHANGED addVars
      PROVE  PatientInv'
    <2>1. OnScreen /\ visible \in View /\ views \in [View -> DetailView] /\ alert' = alert
        BY <1>2, OnScreenView DEF TypeInto, OnScreen, detailVars
    <2>2. /\ views'[visible].phase = views[visible].phase
          /\ views'[visible].editable = views[visible].editable
        BY <1>2, <2>1 DEF TypeInto, DetailView
    <2>3. Selected' /\ FormShows'
        BY <1>2, <2>1, <2>2 DEF TypeInto, PatientInv, Selected, FormShows, OnScreen
    <2> QED BY <1>2, <2>3, ViewTap DEF TypeInto
<1>3. ASSUME UNCHANGED <<dbVars, appVars>>, alert' => alert \/ OnScreen
      PROVE  PatientInv'
    <2>1. Selected' /\ FormShows'
        BY <1>3 DEF appVars, PatientInv, Selected, FormShows, OnScreen
    <2> QED BY <1>3, <2>1, ViewTap DEF appVars
<1>4. CASE DetailTap
    BY <1>1, <1>2, <1>3, <1>4, SavePressedPatient DEF DetailTap, DeletePressed
<1>5. CASE AlertTap
    BY <1>3, <1>5, ConfirmDeletePatient DEF AlertTap, CancelDelete
<1>6. CASE PopupTap
    BY <1>3, <1>6, PopupSavePressedPatient
    DEF PopupTap, OpenPopup, TypeIntoPopup, ClosePopup, detailVars
<1> QED BY <1>4, <1>5, <1>6, ListTapPatient DEF Tap

\* Displaying a view: no save is expected, since its view would be on screen.
LEMMA DisplayPatient ==
    ASSUME Inv, PatientInv, Display
    PROVE  PatientInv'
<1>1. /\ visible # NoView /\ views[visible].phase = "undrawn" /\ ~OnScreen
      /\ UNCHANGED <<dbVars, selectedProduct, productsArray, aliased, visible, trapped, alert>>
    BY DEF Display, Draw, detailVars, OnScreen
<1>2. visible \in View /\ views \in [View -> DetailView]
    BY <1>1, OnScreenView
<1> DEFINE filled == selectedProduct.text # "unnamed"
<1>3. /\ views'[visible].phase = "shown" => filled
      /\ filled => views'[visible].text = selectedProduct.text
    BY <1>2 DEF Display, Draw
<1>4. ~Expected("saved") /\ ~alert
    BY <1>1 DEF PatientInv, WriterWaits, Inv, ScreenInv, Nested
<1>5. Selected' /\ FormShows'
    BY <1>1, <1>3, <1>4 DEF PatientInv, Selected, FormShows, OnScreen
<1>6. OneWrite' /\ CopyIs' /\ NoneIsNull' /\ TextsFollow' /\ HandedOut'
    BY <1>1 DEF dbVars, PatientInv, OneWrite, CopyIs, NoneIsNull, SaveAccepted, TextsFollow,
                NoValue, HandedOut
<1>7. ~Expected("saved")'
    BY <1>1, <1>4 DEF dbVars, Expected
<1>8. WriterWaits'
    <2>1. UnderWay' = UnderWay
        BY <1>1 DEF dbVars, UnderWay
    <2> QED BY <1>1, <1>7, <2>1 DEF dbVars, PatientInv, WriterWaits
<1>9. SaveInFlight' /\ RowGetsItsText'
    BY <1>1, <1>7 DEF Expected, dbVars, PatientInv, SaveInFlight, RowGetsItsText, SaveAccepted
<1> QED BY <1>5, <1>6, <1>8, <1>9 DEF PatientInv

-----------------------------------------------------------------------------
\* The queue once its oldest block has run.
LEMMA Shorter ==
    ASSUME Inv, NEW what, Run(what)
    PROVE  /\ 1 \in 1..Len(mainQueue) /\ Head(mainQueue) = mainQueue[1]
           /\ mainQueue[1].what = what
           /\ \A i \in 1..Len(mainQueue') :
                  i + 1 \in 1..Len(mainQueue) /\ i + 1 # 1 /\ mainQueue'[i] = mainQueue[i + 1]
           /\ \A i \in 1..Len(mainQueue) : i # 1 =>
                  i - 1 \in 1..Len(mainQueue') /\ mainQueue'[i - 1] = mainQueue[i]
           /\ NoValue(mainQueue') /\ what # "value" => NoValue(mainQueue)
<1> DEFINE rest == Tail(mainQueue)
<1>1. /\ mainQueue \in Seq(Block) /\ mainQueue # <<>> /\ mainQueue' = rest
      /\ Head(mainQueue).what = what
    BY DEF Run, Inv, DbInv, DbTypeOK, Block
<1>2. /\ Len(mainQueue) \in Nat /\ Len(mainQueue) > 0 /\ Len(rest) = Len(mainQueue) - 1
      /\ Head(mainQueue) = mainQueue[1]
      /\ \A i \in 1..Len(rest) : rest[i] = mainQueue[i + 1]
    BY <1>1, HeadTailProperties, LenProperties, EmptySeq
<1> HIDE DEF rest
<1>3. \A i \in 1..Len(rest) :
          i + 1 \in 1..Len(mainQueue) /\ i + 1 # 1 /\ rest[i] = mainQueue[i + 1]
    BY <1>2
<1>4. \A i \in 1..Len(mainQueue) : i # 1 =>
          i - 1 \in 1..Len(rest) /\ rest[i - 1] = mainQueue[i]
    <2> SUFFICES ASSUME NEW i \in 1..Len(mainQueue), i # 1
                 PROVE  i - 1 \in 1..Len(rest) /\ rest[i - 1] = mainQueue[i]
        OBVIOUS
    <2>1. i - 1 \in 1..Len(rest) /\ (i - 1) + 1 = i
        BY <1>2
    <2> QED BY <1>2, <2>1
<1>5. NoValue(rest) /\ what # "value" => NoValue(mainQueue)
    <2> SUFFICES ASSUME NoValue(rest), what # "value", NEW i \in 1..Len(mainQueue)
                 PROVE  mainQueue[i].what # "value"
        BY DEF NoValue
    <2>1. CASE i = 1
        BY <1>1, <1>2, <2>1
    <2>2. CASE i # 1
        BY <1>4, <2>2 DEF NoValue
    <2> QED BY <2>1, <2>2
<1> QED BY <1>1, <1>2, <1>3, <1>4, <1>5

\* The parts that are about the database alone, when a block has run.
LEMMA RunKeepsWrites ==
    ASSUME Inv, PatientInv, NEW what, Run(what)
    PROVE  /\ OneWrite' /\ CopyIs' /\ NoneIsNull'
           /\ UnderWay' => UnderWay
           /\ \A kind : Expected(kind)' => Expected(kind)
<1>1. UNCHANGED <<stored, cache, outbox, used, observing, awaiting>>
    BY DEF Run
<1>2. \A i \in 1..Len(mainQueue') :
          i + 1 \in 1..Len(mainQueue) /\ mainQueue'[i] = mainQueue[i + 1]
    BY Shorter
<1>3. /\ Len(mainQueue') \in Nat
      /\ \A i, j \in 1..Len(mainQueue') : (i + 1 = j + 1 => i = j) /\ (j \in 1..i => j + 1 \in 1..(i + 1))
    <2>1. mainQueue' \in Seq(Block)
        BY RunBlockOf DEF DbInv, DbTypeOK, Block
    <2> QED BY <2>1, LenProperties
<1>4. OneWrite'
    BY <1>1, <1>2, <1>3 DEF PatientInv, OneWrite, IsAnswer
<1>5. CopyIs'
    BY <1>1 DEF PatientInv, CopyIs
<1>6. NoneIsNull'
    <2>1. ASSUME outbox' # <<>>, outbox'[1].reply.what = "saved",
                 NEW j \in 1..Len(mainQueue'), mainQueue'[j].what = "value"
          PROVE  mainQueue'[j].rows # Empty
        BY <1>1, <1>2, <2>1 DEF PatientInv, NoneIsNull
    <2>2. ASSUME NEW i \in 1..Len(mainQueue'), SaveAccepted(i)', NEW j \in 1..i,
                 mainQueue'[j].what = "value"
          PROVE  mainQueue'[j].rows # Empty
        <3>1. SaveAccepted(i + 1) /\ i + 1 \in 1..Len(mainQueue)
            BY <1>2, <2>2 DEF SaveAccepted
        <3>2. j \in 1..Len(mainQueue') /\ j + 1 \in 1..(i + 1)
            BY <1>3
        <3>3. mainQueue[j + 1].what = "value" /\ mainQueue'[j] = mainQueue[j + 1]
            BY <1>2, <2>2, <3>2
        <3> QED BY <3>1, <3>2, <3>3 DEF PatientInv, NoneIsNull
    <2> QED BY <2>1, <2>2 DEF NoneIsNull
<1>7. UnderWay' => UnderWay
    BY <1>1, <1>2 DEF UnderWay, IsAnswer
<1>8. \A kind : Expected(kind)' => Expected(kind)
    BY <1>1, <1>2 DEF Expected
<1> QED BY <1>4, <1>5, <1>6, <1>7, <1>8

\* Once the answer has run, nothing is under way.
LEMMA AnswerOver ==
    ASSUME Inv, PatientInv, NEW what \in {"saved", "deleted", "added"}, Run(what)
    PROVE  /\ outbox = <<>> /\ outbox' = <<>>
           /\ \A i \in 1..Len(mainQueue') : mainQueue'[i].what \in {"value", "closed"}
           /\ \A i \in 1..Len(mainQueue) : i # 1 => mainQueue[i].what \in {"value", "closed"}
           /\ WriterWaits' /\ SaveInFlight' /\ RowGetsItsText'
           /\ ~alert
           /\ what \in {"saved", "deleted"} => Head(mainQueue).view = visible
           /\ what = "saved" => OnScreen /\ ~NoInt(views[visible].text)
<1>1. /\ 1 \in 1..Len(mainQueue) /\ Head(mainQueue) = mainQueue[1]
      /\ mainQueue[1].what = what
      /\ \A i \in 1..Len(mainQueue') :
             i + 1 \in 1..Len(mainQueue) /\ i + 1 # 1 /\ mainQueue'[i] = mainQueue[i + 1]
    BY Shorter
<1>2. IsAnswer(mainQueue[1]) /\ UnderWay /\ Expected(what)
    BY <1>1 DEF IsAnswer, UnderWay, Expected
<1>3. outbox = <<>> /\ outbox' = <<>>
    BY <1>1, <1>2 DEF PatientInv, OneWrite, Run
<1>4. \A i \in 1..Len(mainQueue) : i # 1 => mainQueue[i].what \in {"value", "closed"}
    BY <1>1, <1>2 DEF PatientInv, OneWrite, IsAnswer
<1>5. \A i \in 1..Len(mainQueue') : mainQueue'[i].what \in {"value", "closed"}
    BY <1>1, <1>4
<1>6. ~UnderWay' /\ ~Expected("saved")'
    BY <1>3, <1>5 DEF UnderWay, IsAnswer, Expected
<1>7. WriterWaits' /\ SaveInFlight' /\ RowGetsItsText'
    BY <1>3, <1>5, <1>6 DEF WriterWaits, SaveInFlight, RowGetsItsText, SaveAccepted
<1>8. /\ ~alert
      /\ what \in {"saved", "deleted"} => Head(mainQueue).view = visible
      /\ what = "saved" => OnScreen /\ ~NoInt(views[visible].text)
    BY <1>1, <1>2 DEF PatientInv, WriterWaits
<1> QED BY <1>3, <1>4, <1>5, <1>7, <1>8

\* Whose rows are in the list, or in a snapshot, stays handed out.
LEMMA RunKeepsKeys ==
    ASSUME Inv, PatientInv, NEW what, Run(what),
           \A k \in Key : productsArray'[k] # NoRecord => k \in used,
           selectedProduct'.key \in {NoKey, selectedProduct.key}
    PROVE  HandedOut'
<1>1. UNCHANGED <<cache, outbox, used>>
    BY DEF Run
<1>2. \A i \in 1..Len(mainQueue') :
          i + 1 \in 1..Len(mainQueue) /\ mainQueue'[i] = mainQueue[i + 1]
    BY Shorter
<1>3. outbox' # <<>> /\ outbox'[1].reply.what = "added" => outbox'[1].key # selectedProduct'.key
    <2>1. outbox # <<>> => outbox[1].key # NoKey
        <3>1. outbox # <<>> => outbox[1] \in Write
            BY HeadTailProperties, EmptySeq, LenProperties DEF Inv, DbInv, DbTypeOK
        <3> QED BY <3>1, Absent DEF Write
    <2> QED BY <1>1, <2>1 DEF PatientInv, HandedOut
<1> QED BY <1>1, <1>2, <1>3 DEF PatientInv, HandedOut

\* When the last value event of the open list runs, it carries the copy.
LEMMA LastEventIsCopy ==
    ASSUME Inv, ListFollows, Run("value"), observing # NoCategory, observing \notin awaiting,
           NoValue(mainQueue')
    PROVE  Head(mainQueue).rows = cache[observing]
<1>1. /\ 1 \in 1..Len(mainQueue) /\ Head(mainQueue) = mainQueue[1]
      /\ mainQueue[1].what = "value"
      /\ \A i \in 1..Len(mainQueue) : i # 1 =>
             i - 1 \in 1..Len(mainQueue') /\ mainQueue'[i - 1] = mainQueue[i]
    BY Shorter
<1>2. LastValue(mainQueue, cache[observing])
    BY <1>1 DEF ListFollows, Follows, NoValue
<1>3. PICK i \in 1..Len(mainQueue) : mainQueue[i] = ToOpen(cache[observing])
    BY <1>2 DEF LastValue
<1>4. i = 1
    BY <1>1, <1>3 DEF ToOpen, NoValue
<1> QED BY <1>1, <1>3, <1>4 DEF ToOpen

LEMMA ListEventPatient ==
    ASSUME Inv, ListFollows, PatientInv, NEW what \in {"value", "closed"}, Run(what),
           UNCHANGED <<selectedProduct, visible, views, trapped, alert>>,
           \/ /\ what = "value" /\ Head(mainQueue).rows # Empty
              /\ productsArray' = Head(mainQueue).rows /\ aliased' = FALSE
           \/ /\ what = "value" => Head(mainQueue).rows = Empty
              /\ UNCHANGED <<productsArray, aliased>>
    PROVE  PatientInv'
<1>1. UNCHANGED <<stored, cache, outbox, used, observing, awaiting>>
    BY DEF Run
<1>2. /\ 1 \in 1..Len(mainQueue) /\ Head(mainQueue) = mainQueue[1]
      /\ mainQueue[1].what = what
      /\ \A i \in 1..Len(mainQueue') :
             i + 1 \in 1..Len(mainQueue) /\ mainQueue'[i] = mainQueue[i + 1]
      /\ NoValue(mainQueue') /\ what # "value" => NoValue(mainQueue)
    BY Shorter
<1>3. /\ OneWrite' /\ CopyIs' /\ NoneIsNull' /\ (UnderWay' => UnderWay)
      /\ \A kind : Expected(kind)' => Expected(kind)
    BY RunKeepsWrites
<1>4. WriterWaits'
    BY <1>1, <1>2, <1>3 DEF PatientInv, WriterWaits, OnScreen
<1>5. Selected' /\ FormShows' /\ SaveInFlight'
    BY <1>1 DEF PatientInv, Selected, FormShows, SaveInFlight, SavedText, OnScreen
<1>6. RowGetsItsText'
    <2> SUFFICES ASSUME NEW i \in 1..Len(mainQueue'), SaveAccepted(i)', NoValue(mainQueue'),
                        aliased'
                 PROVE  HeldSelected' = SavedText'
        BY DEF RowGetsItsText
    <2>1. i + 1 \in 1..Len(mainQueue) /\ SaveAccepted(i + 1) /\ 1 \in 1..(i + 1)
        BY <1>2 DEF SaveAccepted
    <2>2. what # "value" /\ aliased
        BY <1>2, <2>1 DEF PatientInv, NoneIsNull
    <2>3. HeldSelected = SavedText
        BY <1>2, <2>1, <2>2 DEF PatientInv, RowGetsItsText
    <2> QED BY <1>1, <2>3 DEF HeldSelected, SavedText
<1>7. TextsFollow'
    <2> SUFFICES ASSUME observing # NoCategory, observing \notin awaiting, NoValue(mainQueue'),
                        cache[observing] # Empty, NEW k \in Key, cache[observing][k] # NoRecord
                 PROVE  productsArray'[k].text = cache[observing][k].text
        BY <1>1 DEF TextsFollow
    <2>1. CASE what = "value"
        BY <2>1, LastEventIsCopy
    <2>2. CASE what # "value"
        BY <1>2, <2>2 DEF PatientInv, TextsFollow
    <2> QED BY <2>1, <2>2
<1>8. HandedOut'
    <2>1. \A k \in Key : productsArray'[k] # NoRecord => k \in used
        BY <1>2 DEF PatientInv, HandedOut
    <2> QED BY <2>1, RunKeepsKeys
<1> QED BY <1>3, <1>4, <1>5, <1>6, <1>7, <1>8 DEF PatientInv

\* The view that saved is on screen with what it saved, so its row, if it still
\* has one, gets the text that the copy has.
LEMMA SaveDonePatient ==
    ASSUME Inv, ListFollows, PatientInv, SaveDone, UNCHANGED addVars
    PROVE  PatientInv'
<1> DEFINE v == Head(mainQueue).view
<1>1. CASE SaveRefused
    <2>1. Run("saved") /\ UNCHANGED <<selectedProduct, productsArray, views, trapped, visible,
                                      alert, observing, awaiting, cache>>
        BY <1>1 DEF SaveRefused, Run, SaveDone, detailVars
    <2>2. OneWrite' /\ CopyIs' /\ NoneIsNull'
        BY <2>1, RunKeepsWrites
    <2>3. WriterWaits' /\ SaveInFlight' /\ RowGetsItsText'
        BY <2>1, AnswerOver
    <2>4. Selected' /\ FormShows'
        BY <2>1 DEF PatientInv, Selected, FormShows, OnScreen
    <2>5. TextsFollow'
        <3>1. NoValue(mainQueue') => NoValue(mainQueue)
            BY <2>1, Shorter
        <3> QED BY <2>1, <3>1 DEF PatientInv, TextsFollow
    <2>6. HandedOut'
        BY <2>1, RunKeepsKeys DEF PatientInv, HandedOut
    <2> QED BY <2>2, <2>3, <2>4, <2>5, <2>6 DEF PatientInv
<1>2. ASSUME Run("saved"), Head(mainQueue).ok, ~NoInt(views[v].text),
             views' = [views EXCEPT ![v].editable = FALSE], UpdateSelectedValues(v),
             UNCHANGED <<trapped, visible, alert>>
      PROVE  PatientInv'
    <2>1. OneWrite' /\ CopyIs' /\ NoneIsNull'
        BY <1>2, RunKeepsWrites
    <2>2. /\ WriterWaits' /\ SaveInFlight' /\ RowGetsItsText' /\ ~alert
          /\ v = visible /\ OnScreen
        BY <1>2, AnswerOver
    <2>3. /\ visible \in View /\ views \in [View -> DetailView] /\ selectedProduct \in Product
          /\ observing \in Category
        BY <2>2, OnScreenView DEF OnScreen
    <2>4. /\ views'[visible].phase = views[visible].phase
          /\ views'[visible].text = views[visible].text
        BY <1>2, <2>2, <2>3 DEF DetailView
    <2>5. /\ selectedProduct'.key = selectedProduct.key
          /\ selectedProduct'.text = views[visible].text
        BY <1>2, <2>2, <2>3 DEF UpdateSelectedValues, Product
    <2>6. Selected' /\ FormShows'
        BY <1>2, <2>2, <2>4, <2>5 DEF PatientInv, Selected, FormShows, OnScreen
    <2>7. views[v].text \in Described
        <3>1. views[v].text \in Content
            BY <2>2, <2>3 DEF DetailView
        <3> QED BY <1>2, <3>1 DEF Content, Refused, NoInt, Described
    <2>8. HandedOut'
        <3>1. \A k \in Key : productsArray'[k] # NoRecord => productsArray[k] # NoRecord
            <4> HIDE DEF v
            <4> QED BY <1>2, <2>2, <2>3, <2>7, UpdateKeepsProducts
        <3>2. \A k \in Key : productsArray'[k] # NoRecord => k \in used
            BY <3>1 DEF PatientInv, HandedOut
        <3> QED BY <1>2, <2>5, <3>2, RunKeepsKeys
    <2>9. TextsFollow'
        <3>1. /\ UNCHANGED <<cache, observing, awaiting>>
              /\ NoValue(mainQueue') => NoValue(mainQueue)
            BY <1>2, Shorter DEF Run
        <3> SUFFICES ASSUME observing \notin awaiting, NoValue(mainQueue),
                            cache[observing] # Empty, NEW k \in Key,
                            cache[observing][k] # NoRecord
                     PROVE  productsArray'[k].text = cache[observing][k].text
            BY <3>1 DEF TextsFollow
        <3>2. productsArray[k].text = cache[observing][k].text
            BY <2>3, Absent DEF PatientInv, TextsFollow
        <3>3. CASE aliased
            <4>1. SaveAccepted(1) /\ 1 \in 1..Len(mainQueue)
                BY <1>2, Shorter DEF SaveAccepted
            <4>2. cache[observing][selectedProduct.key].text = views[visible].text
                BY <3>3, <4>1 DEF PatientInv, RowGetsItsText, HeldSelected, SavedText
            <4>3. /\ selectedProduct.key \in Key /\ productsArray \in Rows
                  /\ productsArray[selectedProduct.key] \in Row
                BY <2>3, <3>3 DEF Inv, ScreenInv, SelectionKept, ScreenTypeOK, AppTypeOK,
                                  Product, Rows
            <4>4. productsArray' =
                      [productsArray EXCEPT ![selectedProduct.key].text = views[visible].text]
                BY <1>2, <2>2, <3>3 DEF UpdateSelectedValues
            <4> QED BY <3>2, <4>2, <4>3, <4>4 DEF Rows, Row
        <3>4. CASE ~aliased
            BY <1>2, <3>2, <3>4 DEF UpdateSelectedValues
        <3> QED BY <3>3, <3>4
    <2> QED BY <2>1, <2>2, <2>6, <2>8, <2>9 DEF PatientInv
<1>3. CASE mainQueue # <<>> /\ Head(mainQueue).what = "saved" /\ NoInt(views[v].text)
    <2>1. mainQueue \in Seq(Block)
        BY DEF Inv, DbInv, DbTypeOK, Block
    <2>2. 1 \in 1..Len(mainQueue) /\ Head(mainQueue) = mainQueue[1]
        BY <1>3, <2>1, HeadTailProperties, LenProperties, EmptySeq
    <2>3. v = visible /\ Expected("saved")
        BY <1>3, <2>2 DEF Expected, PatientInv, WriterWaits
    <2> QED BY <1>3, <2>3 DEF PatientInv, WriterWaits
<1> QED BY <1>1, <1>2, <1>3 DEF SaveDone, detailVars

LEMMA DeleteDonePatient ==
    ASSUME Inv, ListFollows, PatientInv, DeleteDone, UNCHANGED addVars
    PROVE  PatientInv'
<1>1. Run("deleted") /\ UNCHANGED <<productsArray, trapped, visible, alert, observing,
                                    awaiting, cache>>
    BY DEF Run, DeleteDone, detailVars
<1>2. OneWrite' /\ CopyIs' /\ NoneIsNull'
    BY <1>1, RunKeepsWrites
<1>3. /\ WriterWaits' /\ SaveInFlight' /\ RowGetsItsText' /\ ~alert
      /\ Head(mainQueue).view = visible
    BY <1>1, AnswerOver
<1>4. TextsFollow'
    <2>1. NoValue(mainQueue') => NoValue(mainQueue)
        BY <1>1, Shorter
    <2> QED BY <1>1, <2>1 DEF PatientInv, TextsFollow
<1>5. CASE UNCHANGED <<selectedProduct, aliased, views>>
    <2>1. Selected' /\ FormShows'
        BY <1>1, <1>5 DEF PatientInv, Selected, FormShows, OnScreen
    <2>2. HandedOut'
        BY <1>1, <1>5, RunKeepsKeys DEF PatientInv, HandedOut
    <2> QED BY <1>2, <1>3, <1>4, <2>1, <2>2 DEF PatientInv
<1>6. CASE ResetForm(Head(mainQueue).view)
    <2>1. selectedProduct' = EmptyProduct /\ ~OnScreen'
        <3>1. visible \in View /\ views \in [View -> DetailView]
            BY <1>1, <1>3, RunBlockOf DEF Inv, ScreenInv, ScreenTypeOK, AppTypeOK
        <3> QED BY <1>1, <1>3, <1>6, <3>1 DEF ResetForm, OnScreen, DetailView
    <2>2. Selected' /\ FormShows'
        BY <1>1, <1>3, <2>1 DEF PatientInv, Selected, FormShows, EmptyProduct
    <2>3. HandedOut'
        BY <1>1, <2>1, RunKeepsKeys DEF PatientInv, HandedOut, EmptyProduct
    <2> QED BY <1>2, <1>3, <1>4, <2>2, <2>3 DEF PatientInv
<1> QED BY <1>5, <1>6 DEF DeleteDone

LEMMA RunBlockPatient ==
    ASSUME Inv, ListFollows, PatientInv, RunBlock
    PROVE  PatientInv'
<1>1. CASE ValueEvent /\ UNCHANGED <<detailVars, addVars>>
    BY <1>1, ListEventPatient DEF ValueEvent, Rebuilt, detailVars
<1>2. CASE ClosedListEvent /\ UNCHANGED <<detailVars, addVars>>
    BY <1>2, ListEventPatient DEF ClosedListEvent, detailVars
<1>3. CASE AddDone /\ UNCHANGED detailVars
    <2>1. Run("added") /\ UNCHANGED <<appVars, alert, observing, awaiting, cache>>
        BY <1>3 DEF AddDone, Run, detailVars
    <2>2. OneWrite' /\ CopyIs' /\ NoneIsNull'
        BY <2>1, RunKeepsWrites
    <2>3. WriterWaits' /\ SaveInFlight' /\ RowGetsItsText'
        BY <2>1, AnswerOver
    <2>4. Selected' /\ FormShows'
        BY <2>1 DEF appVars, PatientInv, Selected, FormShows, OnScreen
    <2>5. TextsFollow'
        <3>1. NoValue(mainQueue') => NoValue(mainQueue)
            BY <2>1, Shorter
        <3> QED BY <2>1, <3>1 DEF appVars, PatientInv, TextsFollow
    <2>6. HandedOut'
        BY <2>1, RunKeepsKeys DEF appVars, PatientInv, HandedOut
    <2> QED BY <2>2, <2>3, <2>4, <2>5, <2>6 DEF PatientInv
<1> QED BY <1>1, <1>2, <1>3, SaveDonePatient, DeleteDonePatient DEF RunBlock

-----------------------------------------------------------------------------
\* The one write, and that nothing else waits behind it.
LEMMA TheWrite ==
    ASSUME Inv, PatientInv, outbox # <<>>
    PROVE  /\ outbox[1] \in Write /\ Head(outbox) = outbox[1] /\ Tail(outbox) = <<>>
           /\ \A i \in 1..Len(outbox) : i = 1
           /\ 1 \in 1..Len(outbox)
           /\ \A i \in 1..Len(mainQueue) : mainQueue[i].what \in {"value", "closed"}
           /\ UnderWay /\ ~alert /\ awaiting = {}
<1>1. outbox \in Seq(Write)
    BY DEF Inv, DbInv, DbTypeOK
<1>2. /\ Len(outbox) \in Nat /\ Len(outbox) > 0 /\ outbox[1] \in Write
      /\ Head(outbox) = outbox[1] /\ Tail(outbox) \in Seq(Write)
      /\ Len(Tail(outbox)) = Len(outbox) - 1
    BY <1>1, HeadTailProperties, LenProperties, EmptySeq
<1>3. Len(outbox) = 1 /\ Len(Tail(outbox)) = 0
    BY <1>2 DEF PatientInv, OneWrite
<1>4. Tail(outbox) = <<>>
    BY <1>2, <1>3, EmptySeq
<1>5. \A i \in 1..Len(mainQueue) : mainQueue[i].what \in {"value", "closed"}
    BY DEF PatientInv, OneWrite, IsAnswer
<1>6. UnderWay /\ ~alert /\ awaiting = {}
    BY DEF UnderWay, PatientInv, WriterWaits
<1> QED BY <1>2, <1>3, <1>4, <1>5, <1>6

\* The answer is queued behind events only.
LEMMA AnswerQueued ==
    ASSUME Inv, PatientInv, outbox # <<>>, outbox' = <<>>, NEW ok \in BOOLEAN,
           NEW queue \in Seq(Block), mainQueue' = Append(queue, Answer(ok)),
           \A i \in 1..Len(queue) : queue[i].what \in {"value", "closed"},
           UNCHANGED <<alert, awaiting, visible, views>>
    PROVE  /\ \E last \in 1..Len(mainQueue') :
                  /\ mainQueue'[last] = Answer(ok)
                  /\ last = Len(queue) + 1
                  /\ \A i \in 1..Len(mainQueue') : i # last =>
                         i \in 1..Len(queue) /\ mainQueue'[i] = queue[i]
           /\ \A i \in 1..Len(mainQueue') : SaveAccepted(i)' =>
                  i = Len(queue) + 1 /\ ok = TRUE /\ outbox[1].reply.what = "saved"
           /\ \A i \in 1..Len(queue) : i \in 1..Len(mainQueue') /\ mainQueue'[i] = queue[i]
           /\ NoValue(mainQueue') => NoValue(queue)
           /\ OneWrite' /\ WriterWaits' /\ SaveInFlight'
<1> DEFINE a == Answer(ok)
<1>1. a \in Block
    BY AnswerIsNoValue
<1>2. /\ a.what = outbox[1].reply.what /\ a.view = outbox[1].reply.view /\ a.ok = ok
      /\ a.what \in {"saved", "deleted", "added"}
    BY TheWrite DEF Answer, Write, Reply
<1> HIDE DEF a
<1>3. mainQueue' = queue \o <<a>> /\ <<a>> \in Seq(Block)
    BY <1>1, AppendIsConcat DEF a
<1>4. /\ Len(queue) \in Nat /\ Len(mainQueue') = Len(queue) + 1
      /\ \A i \in 1..Len(queue) : i \in 1..Len(mainQueue') /\ mainQueue'[i] = queue[i]
      /\ mainQueue'[Len(queue) + 1] = a
    <2>1. mainQueue' = Append(queue, a)
        BY DEF a
    <2> QED BY <1>1, <2>1, AppendProperties, LenProperties
<1>5. NoValue(mainQueue') => NoValue(queue)
    BY <1>4 DEF NoValue
<1>6. \A i \in 1..Len(mainQueue') : i # Len(queue) + 1 =>
          i \in 1..Len(queue) /\ mainQueue'[i] = queue[i]
    BY <1>4
<1>7. Len(queue) + 1 \in 1..Len(mainQueue')
    BY <1>4
<1>8. \A i \in 1..Len(mainQueue') : i # Len(queue) + 1 =>
          mainQueue'[i].what \in {"value", "closed"}
    BY <1>6
<1>9. OneWrite'
    BY <1>8 DEF OneWrite, IsAnswer
<1>10. \A kind \in {"saved", "deleted", "added"} : Expected(kind)' => Expected(kind)
    <2>1. \A i \in 1..Len(mainQueue') : \A kind \in {"saved", "deleted", "added"} :
              mainQueue'[i].what = kind => a.what = kind
        BY <1>4, <1>8
    <2> QED BY <1>2, <2>1 DEF Expected
<1>11. WriterWaits'
    <2>1. \A i \in 1..Len(mainQueue') :
              mainQueue'[i].what \in {"saved", "deleted"} => mainQueue'[i].view = visible
        BY <1>2, <1>4, <1>8 DEF PatientInv, WriterWaits
    <2> QED BY <1>10, <2>1, TheWrite DEF PatientInv, WriterWaits, OnScreen
<1>12. \A i \in 1..Len(mainQueue') : SaveAccepted(i)' =>
           i = Len(queue) + 1 /\ ok = TRUE /\ outbox[1].reply.what = "saved"
    BY <1>2, <1>4, <1>8 DEF SaveAccepted
<1>13. SaveInFlight'
    BY DEF SaveInFlight
<1> QED BY <1>4, <1>5, <1>6, <1>7, <1>9, <1>11, <1>12, <1>13 DEF a

\* The copy shows an accepted write already.
LEMMA AcceptPatient ==
    ASSUME Inv, PatientInv, Accept, UNCHANGED <<appVars, detailVars, addVars>>
    PROVE  PatientInv'
<1> DEFINE w == outbox[1]
<1>1. /\ outbox # <<>> /\ w \in Write /\ Head(outbox) = w /\ outbox' = <<>>
      /\ \A i \in 1..Len(mainQueue) : mainQueue[i].what \in {"value", "closed"}
      /\ stored' = [stored EXCEPT ![w.category][w.key] = w.value]
      /\ mainQueue' = Append(mainQueue, Answer(TRUE))
      /\ UNCHANGED <<cache, used, observing, awaiting>>
    BY TheWrite DEF Accept
<1>2. UNCHANGED <<selectedProduct, productsArray, visible, views, trapped, alert>>
    BY DEF appVars, detailVars
<1>3. mainQueue \in Seq(Block)
    BY DEF Inv, DbInv, DbTypeOK, Block
<1>4. /\ \A i \in 1..Len(mainQueue') : SaveAccepted(i)' =>
             i = Len(mainQueue) + 1 /\ w.reply.what = "saved"
      /\ \A i \in 1..Len(mainQueue') : i # Len(mainQueue) + 1 =>
             i \in 1..Len(mainQueue) /\ mainQueue'[i] = mainQueue[i]
      /\ \A i \in 1..Len(mainQueue) : i \in 1..Len(mainQueue') /\ mainQueue'[i] = mainQueue[i]
      /\ mainQueue'[Len(mainQueue) + 1] = Answer(TRUE)
      /\ NoValue(mainQueue') => NoValue(mainQueue)
      /\ OneWrite' /\ WriterWaits' /\ SaveInFlight'
    BY ZenonT(40), <1>1, <1>2, <1>3, AnswerQueued
<1>5. Answer(TRUE).what # "value"
    BY <1>1 DEF Answer, Write, Reply
<1>6. CopyIs'
    BY <1>1 DEF PatientInv, CopyIs
<1>7. NoneIsNull'
    <2> SUFFICES ASSUME NEW i \in 1..Len(mainQueue'), SaveAccepted(i)', NEW j \in 1..i,
                        mainQueue'[j].what = "value"
                 PROVE  mainQueue'[j].rows # Empty
        BY <1>1 DEF NoneIsNull
    <2>1. w.reply.what = "saved" /\ i = Len(mainQueue) + 1 /\ j # i
        BY <1>4, <1>5
    <2>2. j \in 1..Len(mainQueue) /\ mainQueue'[j] = mainQueue[j]
        BY <1>3, <1>4, <2>1, LenProperties
    <2> QED BY <1>1, <2>1, <2>2 DEF PatientInv, NoneIsNull
<1>8. RowGetsItsText'
    <2> SUFFICES ASSUME NEW i \in 1..Len(mainQueue'), SaveAccepted(i)'
                 PROVE  HeldSelected' = SavedText'
        BY DEF RowGetsItsText
    <2>1. /\ w.category = observing /\ w.key = selectedProduct.key /\ w.value = SavedText
          /\ cache = [stored EXCEPT ![w.category][w.key] = w.value]
        BY <1>1, <1>4 DEF PatientInv, SaveInFlight, CopyIs
    <2>2. w.category \in Category /\ w.key \in Key /\ stored \in [Category -> Contents]
        BY <1>1 DEF Write, Inv, DbInv, DbTypeOK
    <2>3. cache[observing][selectedProduct.key] = SavedText
        BY <2>1, <2>2 DEF Contents
    <2> QED BY <1>1, <1>2, <2>3 DEF HeldSelected, SavedText
<1>9. TextsFollow'
    BY <1>1, <1>2, <1>4 DEF PatientInv, TextsFollow
<1>10. HandedOut'
    <2>1. \A i \in 1..Len(mainQueue') : mainQueue'[i].what = "value" =>
              \A k \in Key : mainQueue'[i].rows[k] # NoRecord => k \in used
        BY <1>4, <1>5 DEF PatientInv, HandedOut
    <2> QED BY <1>1, <1>2, <2>1 DEF PatientInv, HandedOut
<1>11. Selected' /\ FormShows'
    BY <1>2 DEF PatientInv, Selected, FormShows, OnScreen
<1> QED BY <1>4, <1>6, <1>7, <1>8, <1>9, <1>10, <1>11 DEF PatientInv

\* A refused write leaves the server's tree in the copy.
LEMMA RejectPatient ==
    ASSUME Inv, PatientInv, Reject, UNCHANGED <<appVars, detailVars, addVars>>
    PROVE  PatientInv'
<1> DEFINE w == outbox[1]
           c == w.category
           k == w.key
           value == stored[c][k]
           queue == mainQueue \o Raised(c, k, value)
           new == [cache[c] EXCEPT ![k] = value]
<1>1. /\ outbox # <<>> /\ w \in Write /\ Head(outbox) = w /\ Tail(outbox) = <<>>
      /\ \A i \in 1..Len(outbox) : i = 1
      /\ \A i \in 1..Len(mainQueue) : mainQueue[i].what \in {"value", "closed"}
    BY TheWrite DEF Reject
<1>2. ~PendingAfterHead(c, k)
    <2>1. \A i \in 2..Len(outbox) : i \in 1..Len(outbox) /\ i # 1
        <3>1. Len(outbox) \in Nat
            BY LenProperties DEF Inv, DbInv, DbTypeOK
        <3> QED BY <3>1
    <2> QED BY <1>1, <2>1 DEF PendingAfterHead
<1>3. /\ cache' = [cache EXCEPT ![c][k] = value] /\ outbox' = <<>>
      /\ mainQueue' = Append(queue, Answer(FALSE))
      /\ UNCHANGED <<stored, used, observing, awaiting>>
    BY <1>1, <1>2 DEF Reject
<1>4. /\ c \in Category /\ k \in Key /\ stored \in [Category -> Contents]
      /\ cache \in [Category -> Contents] /\ mainQueue \in Seq(Block) /\ DbTypeOK
    BY <1>1 DEF Write, Inv, DbInv, DbTypeOK, Block
<1>5. value \in Record \cup {NoRecord}
    BY <1>4 DEF Contents
<1>6. cache = [stored EXCEPT ![c][k] = w.value]
    BY <1>1 DEF PatientInv, CopyIs
<1>7. UNCHANGED <<selectedProduct, productsArray, visible, views, trapped, alert>>
    BY DEF appVars, detailVars
<1>8. cache' = stored
    <2>1. cache' = [stored EXCEPT ![c][k] = value]
        BY <1>3, <1>4, <1>6 DEF Contents
    <2> QED BY <1>4, <2>1 DEF Contents
<1>9. new = stored[c]
    <2>1. cache'[c] = new
        BY <1>3, <1>4
    <2> QED BY <1>8, <2>1
<1> HIDE DEF w, c, k, value
<1>10. /\ Raised(c, k, value) \in Seq(Block)
       /\ \A i \in 1..Len(Raised(c, k, value)) :
              Raised(c, k, value)[i] \in {ToOpen(new), ToClosed(new)}
    BY <1>4, <1>5, RaisedFacts
<1>11. queue \in Seq(Block)
    BY <1>4, <1>10, ConcatProperties
<1>12. \A i \in 1..Len(queue) :
           \/ i \in 1..Len(mainQueue) /\ queue[i] = mainQueue[i]
           \/ queue[i] \in {ToOpen(new), ToClosed(new)}
    BY ZenonT(40), <1>4, <1>10, Grown
<1> HIDE DEF new
<1>13. \A i \in 1..Len(queue) : queue[i].what \in {"value", "closed"}
    BY <1>1, <1>12 DEF ToOpen, ToClosed
<1>14. Answer(FALSE) \in Block /\ <<Answer(FALSE)>> \in Seq(Block)
       /\ Answer(FALSE).what # "value"
    <2>1. Answer(FALSE).what # "value"
        BY <1>1 DEF Answer, Write, Reply
    <2> QED BY <1>1, <2>1, AnswerIsNoValue
<1>15. mainQueue' = (mainQueue \o Raised(c, k, value)) \o <<Answer(FALSE)>>
    BY <1>3, <1>11, <1>14, AppendIsConcat
<1>16. TextsFollow'
    BY <1>3, <1>4, <1>5, <1>7, <1>14, <1>15, ChangeKeepsTexts
<1> HIDE DEF queue
<1>17. /\ \A i \in 1..Len(mainQueue') : ~SaveAccepted(i)'
       /\ \A i \in 1..Len(mainQueue') : i # Len(queue) + 1 =>
              i \in 1..Len(queue) /\ mainQueue'[i] = queue[i]
       /\ mainQueue'[Len(queue) + 1] = Answer(FALSE)
       /\ OneWrite' /\ WriterWaits' /\ SaveInFlight'
    <2>1. UNCHANGED <<alert, awaiting, visible, views>> /\ outbox # <<>> /\ outbox' = <<>>
          /\ FALSE \in BOOLEAN
        BY <1>1, <1>3, <1>7
    <2>2. PICK q \in Seq(Block) : q = queue
        BY <1>11
    <2>3. mainQueue' = Append(q, Answer(FALSE))
        BY <1>3, <2>2
    <2>4. \A i \in 1..Len(q) : q[i].what \in {"value", "closed"}
        BY <1>13, <2>2
    <2>5. /\ \E last \in 1..Len(mainQueue') :
                 mainQueue'[last] = Answer(FALSE) /\ last = Len(q) + 1
          /\ \A i \in 1..Len(mainQueue') : ~SaveAccepted(i)'
          /\ \A i \in 1..Len(mainQueue') : i # Len(q) + 1 =>
                 i \in 1..Len(q) /\ mainQueue'[i] = q[i]
          /\ OneWrite' /\ WriterWaits' /\ SaveInFlight'
        BY <2>1, <2>3, <2>4, AnswerQueued
    <2> QED BY <2>2, <2>5
<1>18. NoneIsNull' /\ RowGetsItsText'
    BY <1>3, <1>17 DEF NoneIsNull, RowGetsItsText
<1>19. CopyIs'
    BY <1>3, <1>8 DEF CopyIs
<1>20. HandedOut'
    <2>1. \A d \in Category, l \in Key : stored[d][l] # NoRecord => l \in used
        BY DEF Inv, DbInv, Issued
    <2>2. \A i \in 1..Len(queue) : queue[i].what = "value" =>
              \A l \in Key : queue[i].rows[l] # NoRecord => l \in used
        BY <1>4, <1>9, <1>12, <2>1 DEF ToOpen, ToClosed, PatientInv, HandedOut
    <2>3. \A i \in 1..Len(mainQueue') : mainQueue'[i].what = "value" =>
              \A l \in Key : mainQueue'[i].rows[l] # NoRecord => l \in used
        BY <1>14, <1>17, <2>2
    <2> QED BY <1>3, <1>7, <1>8, <2>1, <2>3 DEF PatientInv, HandedOut
<1>21. Selected' /\ FormShows'
    BY <1>7 DEF PatientInv, Selected, FormShows, OnScreen
<1> QED BY <1>16, <1>17, <1>18, <1>19, <1>20, <1>21 DEF PatientInv

\* The screen alone keeps what is only about it.
LEMMA ScreenStays ==
    ASSUME PatientInv, UNCHANGED <<selectedProduct, visible, views, trapped, alert>>
    PROVE  Selected' /\ FormShows'
BY DEF PatientInv, Selected, FormShows, OnScreen

\* More events are queued, and nothing else happens to the write under way.
LEMMA EventsBehind ==
    ASSUME Inv, PatientInv, NEW more \in Seq(Block), mainQueue' = mainQueue \o more,
           \A i \in 1..Len(more) : more[i].what \in {"value", "closed"},
           outbox' = outbox,
           UNCHANGED <<observing, selectedProduct, visible, views, trapped, alert>>,
           UnderWay => awaiting' = {}
    PROVE  /\ OneWrite' /\ WriterWaits' /\ SaveInFlight'
           /\ \A i \in 1..Len(mainQueue') : SaveAccepted(i)' =>
                  i \in 1..Len(mainQueue) /\ SaveAccepted(i)
           /\ \A i \in 1..Len(mainQueue) : SaveAccepted(i) =>
                  i \in 1..Len(mainQueue') /\ SaveAccepted(i)'
           /\ UnderWay' = UnderWay
<1>1. mainQueue \in Seq(Block)
    BY DEF Inv, DbInv, DbTypeOK, Block
<1>2. /\ \A i \in 1..Len(mainQueue) : i \in 1..Len(mainQueue') /\ mainQueue'[i] = mainQueue[i]
      /\ \A i \in 1..Len(mainQueue') :
             \/ i \in 1..Len(mainQueue) /\ mainQueue'[i] = mainQueue[i]
             \/ mainQueue'[i].what \in {"value", "closed"}
    BY <1>1, Grown
<1>3. UnderWay' <=> UnderWay
    BY <1>2 DEF UnderWay, IsAnswer
<1>4. UnderWay' = UnderWay
    BY <1>3 DEF UnderWay
<1>5. OneWrite'
    BY <1>2 DEF PatientInv, OneWrite, IsAnswer
<1>6. Expected("saved")' => Expected("saved")
    BY <1>2 DEF Expected
<1>7. WriterWaits'
    BY <1>2, <1>3, <1>6 DEF PatientInv, WriterWaits, OnScreen
<1>8. SaveInFlight'
    BY DEF PatientInv, SaveInFlight, SavedText
<1>9. /\ \A i \in 1..Len(mainQueue') : SaveAccepted(i)' =>
             i \in 1..Len(mainQueue) /\ SaveAccepted(i)
      /\ \A i \in 1..Len(mainQueue) : SaveAccepted(i) =>
             i \in 1..Len(mainQueue') /\ SaveAccepted(i)'
    BY <1>2 DEF SaveAccepted
<1> QED BY <1>4, <1>5, <1>7, <1>8, <1>9

\* A list that awaits its first snapshot has no write under way.
LEMMA SnapshotPatient ==
    ASSUME Inv, PatientInv, Snapshot
    PROVE  PatientInv'
<1>1. UNCHANGED <<selectedProduct, productsArray, aliased, visible, views, trapped, alert>>
    BY DEF Snapshot, appVars, detailVars
<1>2. PICK c \in awaiting :
        /\ awaiting' = awaiting \ {c}
        /\ mainQueue' = mainQueue
                \o (IF observing = c THEN <<ToOpen(cache[c])>> ELSE <<>>)
                \o (IF c \in leaked THEN <<ToClosed(cache[c])>> ELSE <<>>)
        /\ UNCHANGED <<stored, cache, outbox, used, observing, leaked>>
    BY DEF Snapshot, InitialSnapshot
<1> DEFINE open == IF observing = c THEN <<ToOpen(cache[c])>> ELSE <<>>
           closed == IF c \in leaked THEN <<ToClosed(cache[c])>> ELSE <<>>
           more == open \o closed
<1>3. mainQueue \in Seq(Block) /\ c \in Category /\ cache[c] \in Contents
    BY DEF Inv, DbInv, DbTypeOK, Block
<1>4. ToOpen(cache[c]) \in Block /\ ToClosed(cache[c]) \in Block
    BY <1>3 DEF ToOpen, ToClosed, Block, Event
<1>5. /\ open \in Seq(Block) /\ \A i \in 1..Len(open) : open[i] = ToOpen(cache[c])
      /\ observing = c => ~NoValue(open)
    BY <1>4 DEF NoValue, ToOpen
<1>6. closed \in Seq(Block) /\ \A i \in 1..Len(closed) : closed[i] = ToClosed(cache[c])
    BY <1>4
<1>7. mainQueue' = (mainQueue \o open) \o closed
    BY <1>2
<1> HIDE DEF open, closed
<1>8. mainQueue' = mainQueue \o more /\ more \in Seq(Block)
    BY <1>3, <1>5, <1>6, <1>7, ConcatAssociative, ConcatProperties
<1>9. /\ \A i \in 1..Len(more) : more[i] \in {ToOpen(cache[c]), ToClosed(cache[c])}
      /\ NoValue(more) => NoValue(open)
    BY <1>5, <1>6, Grown
<1> HIDE DEF more
<1>10. \A i \in 1..Len(more) :
           more[i].what \in {"value", "closed"} /\ more[i].rows = cache[c]
    BY <1>9 DEF ToOpen, ToClosed
<1>11. ~UnderWay
    BY DEF PatientInv, WriterWaits
<1>12. /\ OneWrite' /\ WriterWaits' /\ SaveInFlight' /\ ~UnderWay'
       /\ \A i \in 1..Len(mainQueue') : SaveAccepted(i)' =>
              i \in 1..Len(mainQueue) /\ SaveAccepted(i)
    BY <1>1, <1>2, <1>8, <1>10, <1>11, EventsBehind
<1>13. outbox' = <<>> /\ \A i \in 1..Len(mainQueue') : ~SaveAccepted(i)'
    BY <1>12 DEF UnderWay, IsAnswer, SaveAccepted
<1>14. NoneIsNull' /\ RowGetsItsText'
    BY <1>13 DEF NoneIsNull, RowGetsItsText
<1>15. CopyIs'
    BY <1>2 DEF PatientInv, CopyIs
<1>16. TextsFollow'
    <2>1. NoValue(mainQueue') => NoValue(mainQueue) /\ NoValue(more)
        BY <1>3, <1>8, Grown
    <2>2. NoValue(mainQueue') => observing # c
        BY <1>5, <1>9, <2>1
    <2> QED BY <1>1, <1>2, <2>1, <2>2 DEF PatientInv, TextsFollow
<1>17. HandedOut'
    <2>1. \A i \in 1..Len(mainQueue') :
              \/ i \in 1..Len(mainQueue) /\ mainQueue'[i] = mainQueue[i]
              \/ mainQueue'[i].rows = cache[c]
        BY <1>3, <1>8, <1>10, Grown
    <2> QED BY ZenonT(40), <1>1, <1>2, <1>3, <2>1 DEF PatientInv, HandedOut
<1> QED BY <1>1, <1>12, <1>14, <1>15, <1>16, <1>17, ScreenStays DEF PatientInv

\* What a save that is under way has written is a record.
LEMMA SavedIsRecord ==
    ASSUME Inv, PatientInv, outbox # <<>>, outbox[1].reply.what = "saved"
    PROVE  outbox[1].value # NoRecord
<1>1. OnScreen /\ ~NoInt(views[visible].text) /\ outbox[1].value = SavedText
    BY DEF PatientInv, WriterWaits, SaveInFlight, Expected
<1>2. views[visible].text \in Content /\ selectedProduct.key # NoKey
    BY <1>1, OnScreenView DEF OnScreen, DetailView, PatientInv, Selected
<1>3. selectedProduct.key \in Key /\ selectedProduct.picture = PictureOf[selectedProduct.key]
      /\ selectedProduct.picture \in Picture
    BY <1>1, <1>2, SelectionIsOfCategory DEF OnScreen
<1>4. SavedText \in Row
    BY <1>1, <1>2, <1>3 DEF SavedText, Row, Content, Refused, NoInt, Described
<1> QED BY <1>1, <1>4, NoRow

\* Another admin's change of the product that is being saved stays hidden.
LEMMA OtherWritePatient ==
    ASSUME Inv, PatientInv, NEW k \in Key, NEW value \in Record \cup {NoRecord},
           OtherWrite(k, value), UNCHANGED <<appVars, detailVars, addVars>>
    PROVE  PatientInv'
<1> DEFINE c == CategoryOf[k]
           seen == IF Pending(c, k) THEN cache[c][k] ELSE value
           new == [cache[c] EXCEPT ![k] = seen]
           more == Raised(c, k, seen)
           w == outbox[1]
<1>1. UNCHANGED <<selectedProduct, productsArray, aliased, visible, views, trapped, alert>>
    BY DEF appVars, detailVars
<1>2. /\ stored' = [stored EXCEPT ![c][k] = value] /\ cache' = [cache EXCEPT ![c][k] = seen]
      /\ mainQueue' = mainQueue \o more /\ used' = used \cup {k}
      /\ UNCHANGED <<outbox, observing, awaiting>>
    BY DEF OtherWrite
<1>3. /\ c \in Category /\ DbTypeOK /\ mainQueue \in Seq(Block)
      /\ stored \in [Category -> Contents] /\ cache \in [Category -> Contents]
    BY Created DEF Inv, DbInv, DbTypeOK, Block
<1>4. seen \in Record \cup {NoRecord}
    BY <1>3 DEF Contents
<1>5. outbox # <<>> => (Pending(c, k) <=> w.category = c /\ w.key = k)
    BY TheWrite DEF Pending
<1>6. outbox = <<>> => ~Pending(c, k)
    BY LenProperties DEF Pending
<1>7. /\ outbox = <<>> => seen = value
      /\ outbox # <<>> /\ w.category = c /\ w.key = k => seen = cache[c][k]
      /\ outbox # <<>> /\ ~(w.category = c /\ w.key = k) => seen = value
    BY <1>5, <1>6
<1> HIDE DEF c, seen, w
<1>8. /\ more \in Seq(Block) /\ new \in Contents
      /\ \A i \in 1..Len(more) : more[i] \in {ToOpen(new), ToClosed(new)}
      /\ \A i \in 1..Len(more) : more[i] = ToOpen(new) => observing = c
    BY <1>3, <1>4, RaisedFacts
<1>9. \A l \in Key : new[l] = IF l = k THEN seen ELSE cache[c][l]
    BY <1>3 DEF Contents
<1>10. TextsFollow' /\ (NoValue(mainQueue') => NoValue(mainQueue)
           /\ (observing # NoCategory /\ observing \notin awaiting
                   => cache'[observing] = cache[observing]))
    <2>1. mainQueue \o more \in Seq(Block)
        BY <1>3, <1>8, ConcatProperties
    <2>2. mainQueue' = (mainQueue \o more) \o <<>> /\ <<>> \in Seq(Block)
        BY <1>2, <2>1, ConcatEmptySeq
    <2> QED BY <1>1, <1>2, <1>3, <1>4, <2>2, ChangeKeepsTexts
<1> HIDE DEF more, new
<1>11. \A i \in 1..Len(more) :
           /\ more[i].what \in {"value", "closed"} /\ more[i].rows = new
           /\ more[i].what = "value" => observing = c
    BY <1>8 DEF ToOpen, ToClosed
<1>12. UnderWay => awaiting' = {}
    BY <1>2 DEF PatientInv, WriterWaits
<1>13. /\ OneWrite' /\ WriterWaits' /\ SaveInFlight'
       /\ \A i \in 1..Len(mainQueue') : SaveAccepted(i)' =>
              i \in 1..Len(mainQueue) /\ SaveAccepted(i)
    BY <1>1, <1>2, <1>8, <1>11, <1>12, EventsBehind
<1>14. /\ Len(mainQueue) \in Nat
       /\ \A i \in 1..Len(mainQueue) : mainQueue'[i] = mainQueue[i]
       /\ \A i \in 1..Len(mainQueue') :
              \/ i \in 1..Len(mainQueue) /\ mainQueue'[i] = mainQueue[i]
              \/ mainQueue'[i].rows = new /\ (mainQueue'[i].what = "value" => observing = c)
    <2>1. /\ Len(mainQueue) \in Nat
          /\ \A i \in 1..Len(mainQueue) : mainQueue'[i] = mainQueue[i]
          /\ \A i \in 1..Len(mainQueue') : i \notin 1..Len(mainQueue) =>
                 /\ i - Len(mainQueue) \in 1..Len(more)
                 /\ mainQueue'[i] = more[i - Len(mainQueue)]
        BY <1>2, <1>3, <1>8, Grown
    <2> QED BY <1>11, <2>1
<1>15. CopyIs'
    <2>1. CASE outbox = <<>>
        BY <1>2, <1>7, <2>1 DEF PatientInv, CopyIs
    <2>2. CASE outbox # <<>>
        <3>1. cache = [stored EXCEPT ![w.category][w.key] = w.value]
            BY <2>2 DEF w, PatientInv, CopyIs
        <3>2. w.category \in Category /\ w.key \in Key
            BY <2>2, TheWrite DEF Write, w
        <3>3. cache' = [stored' EXCEPT ![w.category][w.key] = w.value]
            <4>1. CASE w.category = c /\ w.key = k
                <5>1. cache' = cache
                    BY <1>2, <1>3, <1>7, <2>2, <4>1 DEF Contents
                <5> DEFINE top == [stored' EXCEPT ![w.category][w.key] = w.value]
                <5>2. w.value \in Record \cup {NoRecord}
                    BY <2>2, TheWrite DEF Write, w
                <5>3. /\ cache' \in [Category -> Contents] /\ stored' \in [Category -> Contents]
                      /\ top \in [Category -> Contents]
                    BY <1>2, <1>3, <1>4, <3>2, <5>1, <5>2 DEF Contents
                <5>4. \A d \in Category, l \in Key : cache'[d][l] = top[d][l]
                    BY SMTT(30), <1>2, <1>3, <3>1, <3>2, <4>1, <5>1, <5>3 DEF Contents
                <5> HIDE DEF top
                <5>5. \A d \in Category : cache'[d] = top[d]
                    BY <5>3, <5>4 DEF Contents
                <5>6. cache' = top
                    BY <5>3, <5>5
                <5> QED BY <5>6 DEF top
            <4>2. CASE ~(w.category = c /\ w.key = k)
                <5>1. seen = value
                    BY <1>7, <2>2, <4>2
                <5> DEFINE top == [stored' EXCEPT ![w.category][w.key] = w.value]
                <5>2. w.value \in Record \cup {NoRecord}
                    BY <2>2, TheWrite DEF Write, w
                <5>3. /\ cache' \in [Category -> Contents] /\ stored' \in [Category -> Contents]
                      /\ top \in [Category -> Contents]
                    BY <1>2, <1>3, <1>4, <3>2, <5>1, <5>2 DEF Contents
                <5>4. \A d \in Category, l \in Key : cache'[d][l] = top[d][l]
                    BY ZenonT(40), <1>2, <1>3, <3>1, <3>2, <4>2, <5>1, <5>3 DEF Contents
                <5> HIDE DEF top
                <5>5. \A d \in Category : cache'[d] = top[d]
                    BY <5>3, <5>4 DEF Contents
                <5>6. cache' = top
                    BY <5>3, <5>5
                <5> QED BY <5>6 DEF top
            <4> QED BY <4>1, <4>2
        <3>4. outbox'[1] = w
            BY <1>2 DEF w
        <3> QED BY <1>2, <2>2, <3>3, <3>4 DEF CopyIs
    <2> QED BY <2>1, <2>2
<1>16. NoneIsNull'
    <2>1. ASSUME outbox' # <<>>, outbox'[1].reply.what = "saved",
                 NEW j \in 1..Len(mainQueue'), mainQueue'[j].what = "value"
          PROVE  mainQueue'[j].rows # Empty
        <3>1. outbox # <<>> /\ w.reply.what = "saved" /\ w \in Write
            BY <1>2, <2>1, TheWrite DEF w
        <3>2. w.category = observing /\ w.value = SavedText
            BY <3>1 DEF PatientInv, SaveInFlight, w
        <3>3. SavedText # NoRecord
            BY <3>1, <3>2, SavedIsRecord DEF w
        <3>4. ASSUME observing = c PROVE new # Empty
            <4>1. w.key \in Key /\ cache[c][w.key] = w.value
                <5>1. cache = [stored EXCEPT ![w.category][w.key] = w.value]
                    BY <3>1 DEF w, PatientInv, CopyIs
                <5> QED BY <1>3, <3>1, <3>2, <3>4, <5>1 DEF Write, Contents
            <4>2. new[w.key] = w.value
                BY <1>7, <1>9, <3>1, <3>2, <3>4, <4>1
            <4> QED BY <3>2, <3>3, <4>1, <4>2 DEF Empty
        <3> QED BY <1>14, <2>1, <3>1, <3>4 DEF PatientInv, NoneIsNull, w
    <2>2. ASSUME NEW i \in 1..Len(mainQueue'), SaveAccepted(i)', NEW j \in 1..i,
                 mainQueue'[j].what = "value"
          PROVE  mainQueue'[j].rows # Empty
        <3>1. i \in 1..Len(mainQueue) /\ SaveAccepted(i) /\ j \in 1..Len(mainQueue)
            BY <1>13, <1>14, <2>2
        <3> QED BY <1>14, <2>2, <3>1 DEF PatientInv, NoneIsNull
    <2> QED BY <2>1, <2>2 DEF NoneIsNull
<1>17. RowGetsItsText'
    <2> SUFFICES ASSUME NEW i \in 1..Len(mainQueue'), SaveAccepted(i)', NoValue(mainQueue'),
                        aliased'
                 PROVE  HeldSelected' = SavedText'
        BY DEF RowGetsItsText
    <2>1. i \in 1..Len(mainQueue) /\ SaveAccepted(i)
        BY <1>13
    <2>2. UnderWay /\ Expected("saved")
        BY <2>1 DEF UnderWay, IsAnswer, SaveAccepted, Expected
    <2>3. awaiting = {} /\ observing # NoCategory
        BY <2>2, OnScreenView, Absent DEF PatientInv, WriterWaits, OnScreen
    <2>4. cache'[observing] = cache[observing]
        BY <1>10, <2>3
    <2>5. HeldSelected = SavedText
        BY <1>1, <1>10, <2>1 DEF PatientInv, RowGetsItsText
    <2> QED BY <1>1, <1>2, <2>4, <2>5 DEF HeldSelected, SavedText
<1>18. HandedOut'
    <2>1. \A d \in Category, l \in Key : cache'[d][l] # NoRecord => l \in used'
        BY <1>2, <1>3 DEF PatientInv, HandedOut, Contents
    <2>2. \A l \in Key : new[l] # NoRecord => l \in used'
        BY <1>2, <1>3, <1>9 DEF PatientInv, HandedOut
    <2> QED BY <1>1, <1>2, <1>14, <2>1, <2>2 DEF PatientInv, HandedOut
<1> QED BY <1>1, <1>10, <1>13, <1>15, <1>16, <1>17, <1>18, ScreenStays DEF PatientInv

LEMMA OthersPatient ==
    ASSUME Inv, PatientInv, Others
    PROVE  PatientInv'
<1>1. UNCHANGED <<appVars, detailVars, addVars>>
    BY DEF Others
<1>2. PICK k \in Key :
        \/ OtherWrite(k, NoRecord)
        \/ \E t \in Text : OtherWrite(k, [text |-> t, picture |-> PictureOf[k]])
    BY DEF Others, OtherAdmin
<1>3. CASE OtherWrite(k, NoRecord)
    BY <1>1, <1>3, OtherWritePatient
<1>4. ASSUME NEW t \in Text, OtherWrite(k, [text |-> t, picture |-> PictureOf[k]])
      PROVE  PatientInv'
    <2> DEFINE value == [text |-> t, picture |-> PictureOf[k]]
    <2>1. value \in Record /\ OtherWrite(k, value)
        BY <1>4, Created DEF Record
    <2> HIDE DEF value
    <2> QED BY <1>1, <2>1, OtherWritePatient
<1> QED BY <1>2, <1>3, <1>4

LEMMA RelaunchPatient ==
    ASSUME Inv, PatientInv, Relaunch
    PROVE  PatientInv'
<1>1. /\ cache' = stored /\ outbox' = <<>> /\ mainQueue' = <<>> /\ observing' = NoCategory
      /\ stored' = stored /\ used' = used /\ selectedProduct' = EmptyProduct
      /\ productsArray' = Empty /\ visible' = NoView /\ trapped' = "no" /\ alert' = FALSE
    BY DEF Relaunch, Disconnect
<1>2. /\ OneWrite' /\ WriterWaits' /\ SaveInFlight' /\ NoneIsNull' /\ RowGetsItsText'
    BY <1>1, NothingUnderWay
<1>3. \A i \in 1..Len(mainQueue') : FALSE
    BY <1>1, LenProperties
<1>4. HandedOut'
    BY <1>1, <1>3 DEF HandedOut, Empty, EmptyProduct, Inv, DbInv, Issued
<1> QED BY <1>1, <1>2, <1>4
    DEF PatientInv, Selected, EmptyProduct, OnScreen, CopyIs, TextsFollow, FormShows

LEMMA InitPatient == Init => PatientInv
<1> SUFFICES ASSUME Init PROVE PatientInv
    OBVIOUS
<1>1. /\ cache = stored /\ outbox = <<>> /\ mainQueue = <<>> /\ observing = NoCategory
      /\ awaiting = {} /\ selectedProduct = EmptyProduct
      /\ productsArray = Empty /\ visible = NoView /\ trapped = "no" /\ alert = FALSE
    BY DEF Init, DbInit, Launched
<1>2. \A i \in 1..Len(mainQueue) : FALSE
    BY <1>1, LenProperties
<1>3. HandedOut
    <2>1. Inv
        BY InitInv
    <2> QED BY <1>1, <1>2, <2>1 DEF HandedOut, Empty, EmptyProduct, Inv, DbInv, Issued
<1>4. ~UnderWay /\ ~Expected("saved")
    BY <1>1, <1>2 DEF UnderWay, Expected
<1>5. OneWrite /\ NoneIsNull /\ RowGetsItsText
    BY <1>1, <1>2 DEF OneWrite, NoneIsNull, RowGetsItsText
<1> QED BY <1>1, <1>2, <1>3, <1>4, <1>5
    DEF PatientInv, WriterWaits, Selected, EmptyProduct, OnScreen, CopyIs, SaveInFlight,
        TextsFollow, FormShows

LEMMA InitAlone == AloneInit => Inv /\ ListFollows /\ PatientInv
<1>1. Init => ListFollows
    BY DEF Init, DbInit, ListFollows
<1> QED BY <1>1, InitInv, InitPatient DEF AloneInit

LEMMA NextPatient ==
    Inv /\ ListFollows /\ PatientInv /\ [AloneNext]_<<vars, alone>>
        => Inv' /\ ListFollows' /\ PatientInv'
<1> SUFFICES ASSUME Inv, ListFollows, PatientInv, [AloneNext]_<<vars, alone>>
             PROVE  Inv' /\ ListFollows' /\ PatientInv'
    OBVIOUS
<1>1. [Next]_vars
    BY DEF AloneNext, PatientNext, Next
<1>2. Inv' /\ ListFollows'
    BY <1>1, NextInv, NextFollows
<1>3. CASE Quiet /\ Tap
    BY <1>2, <1>3, TapPatient
<1>4. CASE Answered
    BY <1>2, <1>4, AcceptPatient, RejectPatient DEF Answered
<1>5. CASE UNCHANGED vars
    <2>1. PatientInv'
        BY <1>5 DEF vars, dbVars, appVars, detailVars, PatientInv, OneWrite, WriterWaits,
                    UnderWay, Expected, Selected, CopyIs, SaveInFlight, SavedText, NoneIsNull,
                    SaveAccepted, RowGetsItsText, HeldSelected, TextsFollow, HandedOut,
                    FormShows, OnScreen, NoValue
    <2> QED BY <1>2, <2>1
<1> QED BY <1>2, <1>3, <1>4, <1>5, DisplayPatient, RunBlockPatient, SnapshotPatient,
           OthersPatient, RelaunchPatient
    DEF AloneNext, PatientNext

-----------------------------------------------------------------------------
(***************************************************************************)
(* A user who waits never saves or deletes what is no longer selected: the *)
(* only thing that ends the process is a price that is no Int.             *)
(***************************************************************************)
THEOREM PatientKeepsSelection == AloneSpec => []PatientUserKeepsSelection
<1>1. PatientInv => PatientUserKeepsSelection
    BY DEF PatientInv, Selected, PatientUserKeepsSelection
<1> QED BY <1>1, InitAlone, NextPatient, PTL DEF AloneSpec

(***************************************************************************)
(* For a user who waits, the rows of the settled list are the client's     *)
(* copy, texts included, unless that is empty.                             *)
(***************************************************************************)
THEOREM PatientListExact == AloneSpec => []ListExact
<1>1. Inv /\ ListFollows /\ PatientInv => ListExact
    <2> DEFINE held == cache[observing]
    <2> SUFFICES ASSUME Inv, ListFollows, PatientInv, ListSettled, held # Empty
                 PROVE  productsArray = held
        BY DEF ListExact
    <2>1. /\ observing \in Category /\ held \in Contents /\ productsArray \in Rows
        BY DEF ListSettled, Inv, DbInv, DbTypeOK, ScreenInv, ScreenTypeOK, AppTypeOK
    <2>2. NoValue(mainQueue)
        BY DEF ListSettled, NoValue
    <2>3. SameProducts(productsArray, held)
        <3>1. Follows(mainQueue, productsArray, held)
            BY DEF ListFollows, ListSettled
        <3>2. ~LastValue(mainQueue, held)
            BY <2>2 DEF LastValue, NoValue, ToOpen
        <3> QED BY <3>1, <3>2 DEF Follows
    <2>4. \A k \in Key : held[k] # NoRecord => productsArray[k].text = held[k].text
        BY <2>2 DEF PatientInv, TextsFollow, ListSettled
    <2> HIDE DEF held
    <2>5. \A k \in Key : productsArray[k] = held[k]
        <3> SUFFICES ASSUME NEW k \in Key PROVE productsArray[k] = held[k]
            OBVIOUS
        <3>1. CASE held[k] = NoRecord
            BY <2>3, <3>1 DEF SameProducts
        <3>2. CASE held[k] # NoRecord
            <4>1. /\ held[k] \in Record /\ productsArray[k] \in Row
                  /\ productsArray[k].text = held[k].text
                  /\ productsArray[k].picture = held[k].picture
                BY <2>1, <2>3, <2>4, <3>2 DEF SameProducts, Contents, Rows
            <4> QED BY <4>1 DEF Record, Row
        <3> QED BY <3>1, <3>2
    <2> QED BY <2>1, <2>5 DEF Contents, Rows
<1> QED BY <1>1, InitAlone, NextPatient, PTL DEF AloneSpec

-----------------------------------------------------------------------------
\* Nothing the selection is compared with has changed.
LEMMA SelectedStays ==
    ASSUME SelectedIsTrue, UNCHANGED <<stored, observing, selectedProduct>>,
           SaveQueued' <=> SaveQueued,
           SaveQueued => SavedText' = SavedText
    PROVE  SelectedIsTrue'
BY DEF SelectedIsTrue, SelectedRecord

LEMMA NoneQueued ==
    ASSUME \A i \in 1..Len(mainQueue) : mainQueue[i].what \in {"value", "closed"}
    PROVE  ~SaveQueued
BY DEF SaveQueued, SaveAccepted

\* What is selected is a row, and for a user who waits a row has the text of the
\* copy, which is the server's tree when nothing is under way.
LEMMA TapIsTrue ==
    ASSUME Inv, ListFollows, PatientInv, SelectedIsTrue, Quiet, Tap
    PROVE  SelectedIsTrue'
<1>1. /\ mainQueue = <<>> /\ outbox = <<>> /\ awaiting = {} /\ cache = stored /\ ~SaveQueued
    <2>1. \A i \in 1..Len(mainQueue) : FALSE
        BY LenProperties DEF Quiet
    <2> QED BY <2>1 DEF Quiet, PatientInv, CopyIs, SaveQueued
<1>2. ASSUME UNCHANGED <<stored, observing, selectedProduct, mainQueue>> PROVE SelectedIsTrue'
    BY <1>1, <1>2, SelectedStays DEF SaveQueued, SaveAccepted
<1>3. ASSUME NEW c \in Category, NEW k \in Key, NEW value \in Record \cup {NoRecord}, NEW reply,
             Put(c, k, value, reply), selectedProduct' = selectedProduct
      PROVE  SelectedIsTrue'
    <2>1. /\ mainQueue' = mainQueue \o Raised(c, k, value)
          /\ UNCHANGED <<stored, observing>>
        BY <1>3 DEF Put
    <2>2. /\ DbTypeOK /\ mainQueue \in Seq(Block)
        BY DEF Inv, DbInv, DbTypeOK, Block
    <2> DEFINE new == [cache[c] EXCEPT ![k] = value]
    <2>3. /\ Raised(c, k, value) \in Seq(Block)
          /\ \A i \in 1..Len(Raised(c, k, value)) :
                 Raised(c, k, value)[i] \in {ToOpen(new), ToClosed(new)}
        BY <1>3, <2>2, RaisedFacts
    <2>4. mainQueue' = Raised(c, k, value)
        BY <1>1, <2>1, <2>3
    <2>5. \A i \in 1..Len(mainQueue') : mainQueue'[i].what \in {"value", "closed"}
        <3> HIDE DEF new
        <3> QED BY <2>3, <2>4 DEF ToOpen, ToClosed
    <2>6. ~SaveQueued'
        BY <2>5 DEF SaveQueued, SaveAccepted
    <2> QED BY <1>1, <1>3, <2>1, <2>6, SelectedStays
<1>4. ASSUME NEW k \in Key, NEW v \in View, SelectRow(k, v) PROVE SelectedIsTrue'
    <2>1. /\ UNCHANGED <<stored, observing, mainQueue>> /\ observing # NoCategory
          /\ selectedProduct'.key = k /\ selectedProduct'.text = productsArray[k].text
        BY <1>4 DEF SelectRow, dbVars
    <2>2. ~SaveQueued'
        BY <1>1, <2>1 DEF SaveQueued, SaveAccepted
    <2>3. stored[observing][k] # NoRecord => stored[observing][k].text = productsArray[k].text
        <3>1. NoValue(mainQueue)
            BY <1>1, LenProperties DEF NoValue
        <3> QED BY <1>1, <2>1, <3>1 DEF PatientInv, TextsFollow, Empty
    <2> QED BY <2>1, <2>2, <2>3 DEF SelectedIsTrue, SelectedRecord
<1>5. CASE ListTap
    <2>1. ASSUME NEW c \in Category, NEW v \in View \cup {NoView}, OpenCategory(c, v)
          PROVE  SelectedIsTrue'
        <3>1. observing = NoCategory /\ selectedProduct' = selectedProduct
            BY <2>1 DEF OpenCategory
        <3>2. selectedProduct.key = NoKey
            <4>1. selectedProduct.key \in Key \cup {NoKey}
                BY DEF Inv, ScreenInv, ScreenTypeOK, AppTypeOK, Product
            <4> QED BY <3>1, <4>1, Created, Absent DEF Inv, ScreenInv, SelectionKept
        <3> QED BY <3>1, <3>2 DEF SelectedIsTrue
    <2>2. CASE Back
        BY <1>2, <2>2 DEF Back, dbVars
    <2>3. CASE Exit
        BY <2>3 DEF Exit, EmptyProduct, SelectedIsTrue
    <2> QED BY <1>4, <1>5, <2>1, <2>2, <2>3 DEF ListTap
<1>6. CASE SavePressed
    <2>1. CASE Trap("price") \/ Trap("key")
        BY <1>2, <2>1 DEF Trap, dbVars
    <2>2. ASSUME ~NoInt(views[visible].text), selectedProduct.key # NoKey,
                 Put(currentCategory, selectedProduct.key, NewProductDictionary,
                     [what |-> "saved", view |-> visible]),
                 selectedProduct' = selectedProduct
          PROVE  SelectedIsTrue'
        <3>1. visible # NoView /\ views[visible].text \notin Refused
            BY <1>6 DEF SavePressed, OnScreen
        <3>2. /\ selectedProduct.key \in Key /\ currentCategory \in Category
              /\ selectedProduct.picture \in Picture
            BY <2>2, <3>1, SelectionIsOfCategory
        <3>3. views[visible].text \in Text
            <4>1. views[visible].text \in Content
                BY <3>1, OnScreenView DEF DetailView
            <4> QED BY <2>2, <3>1, <4>1 DEF Content, Refused, NoInt
        <3>4. NewProductDictionary \in Record
            BY <3>2, <3>3 DEF NewProductDictionary, Record
        <3> QED BY <1>3, <2>2, <3>2, <3>4
    <2> QED BY <1>6, <2>1, <2>2 DEF SavePressed
<1>7. CASE ConfirmDelete
    <2>1. CASE Trap("key")
        BY <1>2, <2>1 DEF Trap, dbVars
    <2>2. ASSUME selectedProduct.key # NoKey,
                 Put(currentCategory, selectedProduct.key, NoRecord,
                     [what |-> "deleted", view |-> visible]),
                 UNCHANGED appVars
          PROVE  SelectedIsTrue'
        <3>1. visible # NoView
            BY <1>7 DEF ConfirmDelete, Inv, ScreenInv, Nested
        <3>2. selectedProduct.key \in Key /\ currentCategory \in Category
            BY <2>2, <3>1, SelectionIsOfCategory
        <3> QED BY <1>3, <2>2, <3>2 DEF appVars
    <2> QED BY <1>7, <2>1, <2>2 DEF ConfirmDelete
<1>8. CASE PopupSavePressed
    <2>1. CASE Trap("price")
        BY <1>2, <2>1 DEF Trap, dbVars
    <2>2. ASSUME ~NoInt(popupForm), NEW k \in Key,
                 IsAutoId(k, currentCategory, Placeholder),
                 Put(currentCategory, k, [text |-> popupForm, picture |-> Placeholder],
                     [what |-> "added", view |-> popup]),
                 UNCHANGED appVars
          PROVE  SelectedIsTrue'
        <3> DEFINE value == [text |-> popupForm, picture |-> Placeholder]
        <3>1. currentCategory \in Category
            BY <2>2, Created DEF IsAutoId
        <3>2. popupForm \in Text
            <4>1. popupForm \in Content /\ popupForm \notin Refused
                BY <1>8 DEF PopupSavePressed, Inv, ScreenInv, ScreenTypeOK, AddTypeOK
            <4> QED BY <2>2, <4>1 DEF Content, Refused, NoInt
        <3>3. value \in Record /\ selectedProduct' = selectedProduct
            BY <2>2, <3>2, Created DEF Record, appVars
        <3>4. Put(currentCategory, k, value, [what |-> "added", view |-> popup])
            BY <2>2
        <3> HIDE DEF value
        <3> QED BY <1>3, <3>1, <3>3, <3>4
    <2> QED BY <1>8, <2>1, <2>2 DEF PopupSavePressed
<1>9. CASE DetailTap
    BY <1>2, <1>6, <1>9 DEF DetailTap, EditPressed, TypeInto, DeletePressed, dbVars, appVars
<1>10. CASE AlertTap
    BY <1>2, <1>7, <1>10 DEF AlertTap, CancelDelete, dbVars, appVars
<1>11. CASE PopupTap
    BY <1>2, <1>8, <1>11 DEF PopupTap, OpenPopup, TypeIntoPopup, ClosePopup, dbVars, appVars
<1> QED BY <1>5, <1>9, <1>10, <1>11 DEF Tap

\* The completion of a save puts in the selection what the server has accepted.
LEMMA RunBlockIsTrue ==
    ASSUME Inv, PatientInv, SelectedIsTrue, RunBlock
    PROVE  SelectedIsTrue'
<1>1. ASSUME NEW what, Run(what), what # "saved" \/ ~Head(mainQueue).ok,
             UNCHANGED <<selectedProduct, visible>>,
             what \in {"value", "closed"} => views' = views,
             what \notin {"value", "closed"} => what \in {"saved", "deleted", "added"}
      PROVE  SelectedIsTrue'
    <2>1. /\ UNCHANGED <<stored, observing>> /\ ~SaveAccepted(1)
          /\ \A i \in 1..Len(mainQueue') :
                 i + 1 \in 1..Len(mainQueue) /\ mainQueue'[i] = mainQueue[i + 1]
          /\ \A i \in 1..Len(mainQueue) : i # 1 =>
                 i - 1 \in 1..Len(mainQueue') /\ mainQueue'[i - 1] = mainQueue[i]
        BY <1>1, Shorter DEF Run, SaveAccepted
    <2>2. SaveQueued' <=> SaveQueued
        BY <2>1 DEF SaveQueued, SaveAccepted
    <2>3. SaveQueued => SavedText' = SavedText
        <3>1. CASE what \in {"value", "closed"}
            BY <1>1, <3>1 DEF SavedText
        <3>2. CASE what \notin {"value", "closed"}
            <4>1. \A i \in 1..Len(mainQueue) : i # 1 => mainQueue[i].what \in {"value", "closed"}
                BY <1>1, <3>2, AnswerOver
            <4> QED BY <2>1, <4>1 DEF SaveQueued, SaveAccepted
        <3> QED BY <3>1, <3>2
    <2> QED BY <1>1, <2>1, <2>2, <2>3, SelectedStays
<1>2. CASE ValueEvent \/ ClosedListEvent
    BY <1>1, <1>2 DEF ValueEvent, ClosedListEvent
<1>3. CASE AddDone
    BY <1>1, <1>3 DEF AddDone, appVars
<1>4. CASE DeleteDone
    <2>1. CASE UNCHANGED <<selectedProduct, aliased, views>>
        BY <1>1, <1>4, <2>1 DEF DeleteDone
    <2>2. CASE ResetForm(Head(mainQueue).view)
        BY <2>2 DEF ResetForm, EmptyProduct, SelectedIsTrue
    <2> QED BY <1>4, <2>1, <2>2 DEF DeleteDone
<1>5. CASE SaveDone
    <2> DEFINE v == Head(mainQueue).view
    <2>1. CASE SaveRefused
        BY <1>1, <1>5, <2>1 DEF SaveRefused, SaveDone
    <2>2. ASSUME Run("saved"), Head(mainQueue).ok, UpdateSelectedValues(v)
          PROVE  SelectedIsTrue'
        <3>1. /\ UNCHANGED <<stored, observing>> /\ SaveAccepted(1) /\ 1 \in 1..Len(mainQueue)
            BY <2>2, Shorter DEF Run, SaveAccepted
        <3>2. SaveQueued
            BY <3>1 DEF SaveQueued
        <3>3. /\ \A i \in 1..Len(mainQueue') : mainQueue'[i].what \in {"value", "closed"}
              /\ v = visible
            BY <2>2, AnswerOver
        <3>4. ~SaveQueued'
            BY <3>3 DEF SaveQueued, SaveAccepted
        <3>5. /\ selectedProduct'.key = selectedProduct.key
              /\ selectedProduct'.text = views[visible].text
            <4>1. selectedProduct \in Product
                BY DEF Inv, ScreenInv, ScreenTypeOK, AppTypeOK
            <4> QED BY <2>2, <3>3, <4>1 DEF UpdateSelectedValues, Product
        <3> QED BY <3>1, <3>2, <3>4, <3>5 DEF SelectedIsTrue, SelectedRecord, SavedText
    <2>3. CASE Trap("price, late")
        BY <2>3, SelectedStays DEF Trap, dbVars, SaveQueued, SaveAccepted, SavedText
    <2> QED BY <1>5, <2>1, <2>2, <2>3 DEF SaveDone
<1> QED BY <1>2, <1>3, <1>4, <1>5 DEF RunBlock

LEMMA AnsweredIsTrue ==
    ASSUME Inv, PatientInv, SelectedIsTrue, Answered
    PROVE  SelectedIsTrue'
<1> DEFINE w == outbox[1]
<1>1. UNCHANGED <<selectedProduct, visible, views, alert>> /\ outbox # <<>>
    BY DEF Answered, appVars, detailVars, Accept, Reject
<1>2. /\ w \in Write /\ Head(outbox) = w /\ Tail(outbox) = <<>>
      /\ \A i \in 1..Len(mainQueue) : mainQueue[i].what \in {"value", "closed"}
    BY <1>1, TheWrite
<1>3. /\ mainQueue \in Seq(Block) /\ stored \in [Category -> Contents] /\ w.category \in Category
      /\ w.key \in Key /\ cache \in [Category -> Contents] /\ DbTypeOK
    BY <1>2 DEF Inv, DbInv, DbTypeOK, Block, Write
<1>4. ~SaveQueued
    BY <1>2, NoneQueued
<1>5. CASE Accept
    <2>1. /\ stored' = [stored EXCEPT ![w.category][w.key] = w.value] /\ outbox' = <<>>
          /\ mainQueue' = Append(mainQueue, Answer(TRUE)) /\ UNCHANGED <<observing, awaiting>>
        BY <1>2, <1>5 DEF Accept
    <2>2. /\ mainQueue'[Len(mainQueue) + 1] = Answer(TRUE)
          /\ Len(mainQueue) + 1 \in 1..Len(mainQueue')
          /\ \A i \in 1..Len(mainQueue') : SaveAccepted(i)' => w.reply.what = "saved"
        <3>1. /\ UNCHANGED <<alert, awaiting, visible, views>> /\ TRUE \in BOOLEAN
              /\ outbox # <<>> /\ outbox' = <<>>
            BY <1>1, <2>1
        <3>2. /\ \E last \in 1..Len(mainQueue') :
                     mainQueue'[last] = Answer(TRUE) /\ last = Len(mainQueue) + 1
              /\ \A i \in 1..Len(mainQueue') : SaveAccepted(i)' =>
                     i = Len(mainQueue) + 1 /\ w.reply.what = "saved"
            BY <1>2, <1>3, <2>1, <3>1, AnswerQueued
        <3> QED BY <3>2
    <2>3. SaveQueued' <=> w.reply.what = "saved"
        <3>1. Answer(TRUE).what = w.reply.what /\ Answer(TRUE).ok
            BY <1>2 DEF Answer
        <3> QED BY <2>2, <3>1 DEF SaveQueued, SaveAccepted
    <2> HIDE DEF w
    <2> SUFFICES ASSUME selectedProduct.key # NoKey
                 PROVE  /\ SaveQueued' => SelectedRecord' = SavedText'
                        /\ ~SaveQueued' /\ SelectedRecord' # NoRecord
                               => SelectedRecord'.text = selectedProduct'.text
        BY <1>1 DEF SelectedIsTrue
    <2>4. CASE w.reply.what = "saved"
        <3>1. /\ w.category = observing /\ w.key = selectedProduct.key /\ w.value = SavedText
            BY <1>1, <2>4 DEF w, PatientInv, SaveInFlight
        <3>2. SelectedRecord' = SavedText'
            BY <1>1, <1>3, <2>1, <3>1 DEF SelectedRecord, SavedText, Contents
        <3> QED BY <2>3, <2>4, <3>2
    <2>5. CASE w.reply.what # "saved"
        <3>1. SelectedRecord' = NoRecord \/ SelectedRecord' = SelectedRecord
            <4>1. CASE w.category = observing /\ w.key = selectedProduct.key
                <5>1. w.reply.what \in {"deleted", "added"}
                    BY <1>2, <2>5 DEF Write, Reply
                <5>2. w.reply.what = "deleted"
                    BY <1>1, <4>1, <5>1 DEF w, PatientInv, HandedOut
                <5>3. w.value = NoRecord
                    BY <1>1, <5>2 DEF w, PatientInv, SaveInFlight
                <5> QED BY <1>1, <1>3, <2>1, <4>1, <5>3 DEF SelectedRecord, Contents
            <4>2. CASE ~(w.category = observing /\ w.key = selectedProduct.key)
                <5>1. observing \in Category /\ selectedProduct.key \in Key
                    <6>1. selectedProduct.key \in Key
                        BY DEF Inv, ScreenInv, ScreenTypeOK, AppTypeOK, Product
                    <6> QED BY <6>1, Created DEF Inv, ScreenInv, SelectionKept
                <5> QED BY <1>1, <1>3, <2>1, <4>2, <5>1 DEF SelectedRecord, Contents
            <4> QED BY <4>1, <4>2
        <3>2. SelectedRecord # NoRecord => SelectedRecord.text = selectedProduct.text
            BY <1>4 DEF SelectedIsTrue
        <3> QED BY <1>1, <2>3, <2>5, <3>1, <3>2
    <2> QED BY <2>4, <2>5
<1>6. CASE Reject
    <2> DEFINE value == IF PendingAfterHead(w.category, w.key)
                        THEN cache[w.category][w.key] ELSE stored[w.category][w.key]
               new == [cache[w.category] EXCEPT ![w.key] = value]
               queue == mainQueue \o Raised(w.category, w.key, value)
    <2>1. /\ UNCHANGED <<stored, observing, awaiting>> /\ outbox' = <<>>
          /\ mainQueue' = Append(queue, Answer(FALSE))
        BY <1>2, <1>6 DEF Reject
    <2>2. value \in Record \cup {NoRecord}
        BY <1>3 DEF Contents
    <2> HIDE DEF w, value
    <2>3. /\ Raised(w.category, w.key, value) \in Seq(Block)
          /\ \A i \in 1..Len(Raised(w.category, w.key, value)) :
                 Raised(w.category, w.key, value)[i] \in {ToOpen(new), ToClosed(new)}
        BY <1>3, <2>2, RaisedFacts
    <2> HIDE DEF new
    <2>4. queue \in Seq(Block) /\ \A i \in 1..Len(queue) : queue[i].what \in {"value", "closed"}
        <3>1. \A i \in 1..Len(queue) :
                  \/ i \in 1..Len(mainQueue) /\ queue[i] = mainQueue[i]
                  \/ queue[i] \in {ToOpen(new), ToClosed(new)}
            BY <1>3, <2>3, Grown
        <3>2. queue \in Seq(Block)
            BY <1>3, <2>3, ConcatProperties
        <3> HIDE DEF queue
        <3> QED BY <1>2, <3>1, <3>2 DEF ToOpen, ToClosed
    <2> HIDE DEF queue
    <2>5. PICK q \in Seq(Block) : q = queue
        BY <2>4
    <2>6. \A i \in 1..Len(mainQueue') : ~SaveAccepted(i)'
        <3>1. /\ mainQueue' = Append(q, Answer(FALSE)) /\ FALSE \in BOOLEAN
              /\ \A i \in 1..Len(q) : q[i].what \in {"value", "closed"}
              /\ UNCHANGED <<alert, awaiting, visible, views>>
            BY <1>1, <2>1, <2>4, <2>5
        <3> QED BY <1>1, <2>1, <3>1, AnswerQueued
    <2>7. ~SaveQueued'
        BY <2>6 DEF SaveQueued
    <2> QED BY <1>1, <1>4, <2>1, <2>7, SelectedStays
<1> QED BY <1>5, <1>6 DEF Answered

LEMMA SnapshotIsTrue ==
    ASSUME Inv, PatientInv, SelectedIsTrue, Snapshot
    PROVE  SelectedIsTrue'
<1>1. UNCHANGED <<selectedProduct, views, visible>>
    BY DEF Snapshot, appVars
<1>2. PICK c \in awaiting :
        /\ mainQueue' = mainQueue
                \o (IF observing = c THEN <<ToOpen(cache[c])>> ELSE <<>>)
                \o (IF c \in leaked THEN <<ToClosed(cache[c])>> ELSE <<>>)
        /\ UNCHANGED <<stored, cache, outbox, used, observing, leaked>>
    BY DEF Snapshot, InitialSnapshot
<1> DEFINE open == IF observing = c THEN <<ToOpen(cache[c])>> ELSE <<>>
           closed == IF c \in leaked THEN <<ToClosed(cache[c])>> ELSE <<>>
<1>3. mainQueue \in Seq(Block) /\ c \in Category /\ cache[c] \in Contents
    BY DEF Inv, DbInv, DbTypeOK, Block
<1>4. ToOpen(cache[c]) \in Block /\ ToClosed(cache[c]) \in Block
    BY <1>3 DEF ToOpen, ToClosed, Block, Event
<1>5. /\ open \in Seq(Block) /\ closed \in Seq(Block)
      /\ \A i \in 1..Len(open) : open[i].what \in {"value", "closed"}
      /\ \A i \in 1..Len(closed) : closed[i].what \in {"value", "closed"}
    BY <1>4 DEF ToOpen, ToClosed
<1>6. mainQueue' = (mainQueue \o open) \o closed /\ mainQueue \o open \in Seq(Block)
    BY <1>2, <1>3, <1>5, ConcatProperties
<1> HIDE DEF open, closed
<1>7. \A i \in 1..Len(mainQueue') :
          \/ i \in 1..Len(mainQueue \o open) /\ mainQueue'[i] = (mainQueue \o open)[i]
          \/ mainQueue'[i].what \in {"value", "closed"}
    BY <1>5, <1>6, Grown
<1>8. \A i \in 1..Len(mainQueue \o open) :
          \/ i \in 1..Len(mainQueue) /\ (mainQueue \o open)[i] = mainQueue[i]
          \/ (mainQueue \o open)[i].what \in {"value", "closed"}
    BY <1>3, <1>5, Grown
<1>9. \A i \in 1..Len(mainQueue) : ~IsAnswer(mainQueue[i])
    BY DEF PatientInv, WriterWaits, UnderWay
<1>10. ~SaveQueued /\ ~SaveQueued'
    BY <1>7, <1>8, <1>9 DEF SaveQueued, SaveAccepted, IsAnswer
<1> QED BY <1>1, <1>2, <1>10, SelectedStays

LEMMA AloneIsTrue ==
    ASSUME Inv, ListFollows, PatientInv, alone => SelectedIsTrue, [AloneNext]_<<vars, alone>>
    PROVE  alone' => SelectedIsTrue'
<1> SUFFICES ASSUME alone, SelectedIsTrue, PatientNext \/ UNCHANGED vars
             PROVE  SelectedIsTrue'
    BY DEF AloneNext
<1>1. CASE Display
    <2>1. /\ UNCHANGED <<stored, observing, mainQueue, selectedProduct>>
          /\ visible # NoView /\ ~OnScreen
        BY <1>1 DEF Display, Draw, dbVars, OnScreen
    <2>2. ~SaveQueued
        BY <2>1 DEF SaveQueued, SaveAccepted, PatientInv, WriterWaits, Expected
    <2> QED BY <2>1, <2>2, SelectedStays DEF SaveQueued, SaveAccepted
<1>2. CASE Relaunch
    BY <1>2 DEF Relaunch, EmptyProduct, SelectedIsTrue
<1>3. CASE UNCHANGED vars
    BY <1>3, SelectedStays DEF vars, dbVars, appVars, SaveQueued, SaveAccepted, SavedText
<1> QED BY <1>1, <1>2, <1>3, TapIsTrue, RunBlockIsTrue, AnsweredIsTrue, SnapshotIsTrue
    DEF PatientNext

(***************************************************************************)
(* For a user who waits, and whom no other admin disturbs, a form that is  *)
(* not being edited shows what the server holds for its product.           *)
(***************************************************************************)
THEOREM PatientFormTruthful == AloneSpec => []FormTruthfulAlone
<1>1. AloneInit => (alone => SelectedIsTrue)
    BY DEF AloneInit, Init, Launched, EmptyProduct, SelectedIsTrue
<1>2. Inv /\ PatientInv /\ (alone => SelectedIsTrue) => FormTruthfulAlone
    <2> SUFFICES ASSUME Inv, PatientInv, SelectedIsTrue, Quiet, OnScreen,
                        ~views[visible].editable,
                        stored[currentCategory][views[visible].product] # NoRecord
                 PROVE  views[visible].text
                            = stored[currentCategory][views[visible].product].text
        BY DEF FormTruthfulAlone, FormTruthful
    <2>1. selectedProduct.key # NoKey /\ views[visible].text = selectedProduct.text
        BY DEF PatientInv, Selected, FormShows
    <2>2. views[visible].product = selectedProduct.key
        BY <2>1 DEF Inv, ScreenInv, SelectedIsShown
    <2>3. currentCategory = observing
        BY OnScreenView DEF OnScreen
    <2>4. ~SaveQueued
        BY LenProperties DEF Quiet, SaveQueued
    <2> QED BY <2>1, <2>2, <2>3, <2>4 DEF SelectedIsTrue, SelectedRecord
<1> QED BY <1>1, <1>2, InitAlone, NextPatient, AloneIsTrue, PTL DEF AloneSpec
=============================================================================

-------------------------- MODULE RealtimeDatabase --------------------------
(***************************************************************************)
(* The Firebase Realtime Database as the app uses it: the tree             *)
(* products/<category>/<key>, the client's copy of it, the writes the      *)
(* client has not had answered, and the blocks Firebase dispatches to the  *)
(* main queue.  The library is closed; this module is written from the     *)
(* calls the controllers make (observe, updateChildValues, setValue,       *)
(* removeValue) and from the contract of those calls:                      *)
(*   - a write shows in the client's copy at once and raises value events  *)
(*     there, and its completion block runs after the server has answered; *)
(*   - a refused write is undone in the copy, then its completion runs;    *)
(*   - every block runs on the main queue, in the order it was dispatched; *)
(*   - writes are sent in order, and unanswered ones die with the process; *)
(*   - an observer nobody removes keeps receiving events.                  *)
(* A push from the server reaches the copy in the step that commits it:    *)
(* the main queue is where the app sees the delay.                         *)
(***************************************************************************)
EXTENDS Naturals, Sequences

CONSTANTS
    Category,       \* the children of products/
    NoCategory,     \* the empty string currentCategory starts with
    Key,            \* product keys, the ones childByAutoId will return included
    NoKey,          \* the empty key of Product()
    Text,           \* contents of the four fields of a complete product form
    Picture,        \* values of displayPicture
    NoPicture,      \* the empty displayPicture of Product()
    Placeholder,    \* the picture AddProductViewController gives every product
    NoRecord,       \* an absent child
    CategoryOf,     \* the category each key was created in
    PictureOf,      \* the picture each key was created with
    View,           \* identities of detail views
    Popup,          \* identities of popups
    NoView,         \* neither
    OthersWrite,    \* TRUE when other admins edit the same tree
    MaxPending      \* bound on unanswered writes and undelivered blocks

ASSUME Absent == /\ NoCategory \notin Category
                 /\ NoKey \notin Key
                 /\ NoPicture \notin Picture
                 /\ NoView \notin View \cup Popup
                 /\ View \cap Popup = {}
                 /\ NoRecord \notin [text : Text, picture : Picture]

ASSUME Created == /\ CategoryOf \in [Key -> Category]
                  /\ PictureOf \in [Key -> Picture]
                  /\ Placeholder \in Picture

ASSUME Bounds == OthersWrite \in BOOLEAN /\ MaxPending \in Nat

VARIABLES
    stored,         \* the server's tree
    cache,          \* the client's copy: stored with the unanswered writes on top
    outbox,         \* unanswered writes, oldest first
    mainQueue,      \* blocks dispatched to the main queue, oldest first
    used,           \* keys that have been written, which childByAutoId avoids
    observing,      \* category the open list observes, or NoCategory
    awaiting,       \* categories whose first snapshot is on its way
    leaked          \* categories observed by lists that have been closed

dbVars == <<stored, cache, outbox, mainQueue, used, observing, awaiting, leaked>>

Record   == [text : Text, picture : Picture]
Contents == [Key -> Record \cup {NoRecord}]
Empty    == [k \in Key |-> NoRecord]

\* A completion block: what it does, and the view or popup it belongs to.
Reply == [what : {"saved", "deleted"}, view : View] \cup [what : {"added"}, view : Popup]
Write == [category : Category, key : Key, value : Record \cup {NoRecord}, reply : Reply]

\* What the main queue holds: value events, for the open list or for a closed
\* one, and completion blocks with the answer they got.
Event      == [what : {"value", "closed"}, rows : Contents]
Completion == [what : {"saved", "deleted"}, view : View, ok : BOOLEAN]
                \cup [what : {"added"}, view : Popup, ok : BOOLEAN]

DbTypeOK ==
    /\ stored \in [Category -> Contents]
    /\ cache \in [Category -> Contents]
    /\ outbox \in Seq(Write)
    /\ mainQueue \in Seq(Event \cup Completion)
    /\ used \subseteq Key
    /\ observing \in Category \cup {NoCategory}
    /\ awaiting \subseteq Category
    /\ leaked \subseteq Category

(***************************************************************************)
(* Where a product belongs.  A tree is whole when every record in it is in *)
(* the category and has the picture it was created with; KeptRows are the  *)
(* contents category c can have in a whole tree, KeptWrite the writes and  *)
(* KeptBlock the blocks that keep it whole while c is observed.            *)
(***************************************************************************)
Whole == {tree \in [Category -> Contents] :
            \A c \in Category, k \in Key :
                tree[c][k] # NoRecord => /\ CategoryOf[k] = c
                                         /\ tree[c][k].picture = PictureOf[k]}

KeptRows(c) == {rows \in Contents :
                    \A k \in Key : rows[k] # NoRecord =>
                        CategoryOf[k] = c /\ rows[k].picture = PictureOf[k]}

KeptWrite == {w \in Write : /\ CategoryOf[w.key] = w.category
                            /\ w.value # NoRecord => w.value.picture = PictureOf[w.key]}

KeptBlock(c) == {e \in Event : e.what = "value" => c # NoCategory /\ e.rows \in KeptRows(c)}
                    \cup Completion

\* Only keys that were handed out are written.
Issued == /\ \A c \in Category, k \in Key : stored[c][k] # NoRecord => k \in used
          /\ \A i \in 1..Len(outbox) : outbox[i].key \in used

DbInv == /\ DbTypeOK
         /\ stored \in Whole /\ cache \in Whole
         /\ outbox \in Seq(KeptWrite)
         /\ mainQueue \in Seq(KeptBlock(observing))
         /\ Issued

DbInit ==
    /\ \E present \in SUBSET Key, text \in [Key -> Text] :
        /\ stored = [c \in Category |-> [k \in Key |->
                        IF k \in present /\ CategoryOf[k] = c
                        THEN [text |-> text[k], picture |-> PictureOf[k]]
                        ELSE NoRecord]]
        /\ used = present
    /\ cache = stored
    /\ outbox = <<>>
    /\ mainQueue = <<>>
    /\ observing = NoCategory
    /\ awaiting = {}
    /\ leaked = {}

-----------------------------------------------------------------------------
ToOpen(rows)   == [what |-> "value", rows |-> rows]
ToClosed(rows) == [what |-> "closed", rows |-> rows]

\* The events of the observers of c when it holds rows.  The closed lists of
\* one category count as one: their handlers run back to back and do the same.
Events(c, rows) ==
    (IF observing = c /\ c \notin awaiting THEN <<ToOpen(rows)>> ELSE <<>>)
        \o (IF c \in leaked THEN <<ToClosed(rows)>> ELSE <<>>)

\* Value events are raised only when the copy changes.
Raised(c, k, value) ==
    IF cache[c][k] = value THEN <<>>
    ELSE Events(c, [cache[c] EXCEPT ![k] = value])

Room == Len(outbox) + Len(mainQueue) < MaxPending

\* updateChildValues, setValue and removeValue on one child.
Put(c, k, value, reply) ==
    /\ Room
    /\ cache' = [cache EXCEPT ![c][k] = value]
    /\ outbox' = Append(outbox, [category |-> c, key |-> k,
                                 value |-> value, reply |-> reply])
    /\ mainQueue' = mainQueue \o Raised(c, k, value)
    /\ used' = used \cup {k}
    /\ UNCHANGED <<stored, observing, awaiting, leaked>>

\* A key of childByAutoId under c, for a product with that picture.
IsAutoId(k, c, picture) ==
    k \in Key \ used /\ CategoryOf[k] = c /\ PictureOf[k] = picture

Answer(ok) ==
    [what |-> Head(outbox).reply.what, view |-> Head(outbox).reply.view, ok |-> ok]

\* The server commits the oldest write; the copy shows it already.
Accept ==
    /\ outbox # <<>>
    /\ stored' = [stored EXCEPT ![Head(outbox).category][Head(outbox).key]
                                    = Head(outbox).value]
    /\ outbox' = Tail(outbox)
    /\ mainQueue' = Append(mainQueue, Answer(TRUE))
    /\ UNCHANGED <<cache, used, observing, awaiting, leaked>>

PendingAfterHead(c, k) ==
    \E i \in 2..Len(outbox) : outbox[i].category = c /\ outbox[i].key = k

\* The server refuses the oldest write: the copy goes back to the server's
\* value unless a younger write hides it.
Reject ==
    /\ outbox # <<>>
    /\ LET c == Head(outbox).category
           k == Head(outbox).key
           value == IF PendingAfterHead(c, k) THEN cache[c][k] ELSE stored[c][k]
       IN  /\ cache' = [cache EXCEPT ![c][k] = value]
           /\ mainQueue' = Append(mainQueue \o Raised(c, k, value), Answer(FALSE))
    /\ outbox' = Tail(outbox)
    /\ UNCHANGED <<stored, used, observing, awaiting, leaked>>

Pending(c, k) ==
    \E i \in 1..Len(outbox) : outbox[i].category = c /\ outbox[i].key = k

\* Another admin, running the same app, saves, adds or deletes a product.
OtherWrite(k, value) ==
    /\ OthersWrite /\ Room
    /\ LET c == CategoryOf[k]
           seen == IF Pending(c, k) THEN cache[c][k] ELSE value
       IN  /\ stored[c][k] # value
           /\ stored' = [stored EXCEPT ![c][k] = value]
           /\ cache' = [cache EXCEPT ![c][k] = seen]
           /\ mainQueue' = mainQueue \o Raised(c, k, seen)
    /\ used' = used \cup {k}
    /\ UNCHANGED <<outbox, observing, awaiting, leaked>>

OtherAdmin ==
    \E k \in Key :
        \/ OtherWrite(k, NoRecord)
        \/ \E t \in Text : OtherWrite(k, [text |-> t, picture |-> PictureOf[k]])

\* observe(.value): a list registers its observer and closes over itself.
Observe(c) ==
    /\ observing' = c
    /\ awaiting' = awaiting \cup {c}
    /\ UNCHANGED <<stored, cache, outbox, mainQueue, used, leaked>>

\* The first snapshot of a category arrives.
InitialSnapshot ==
    /\ Len(mainQueue) < MaxPending
    /\ \E c \in awaiting :
        /\ awaiting' = awaiting \ {c}
        /\ mainQueue' = mainQueue
                \o (IF observing = c THEN <<ToOpen(cache[c])>> ELSE <<>>)
                \o (IF c \in leaked THEN <<ToClosed(cache[c])>> ELSE <<>>)
        /\ UNCHANGED <<stored, cache, outbox, used, observing, leaked>>

\* The list goes without removeObserver: its events, the queued ones too, now
\* find a list nobody sees.
Abandon ==
    /\ observing' = NoCategory
    /\ leaked' = leaked \cup {observing}
    /\ mainQueue' = [i \in 1..Len(mainQueue) |->
                        IF mainQueue[i].what = "value"
                        THEN ToClosed(mainQueue[i].rows) ELSE mainQueue[i]]
    /\ UNCHANGED <<stored, cache, outbox, used, awaiting>>

\* The main queue runs its oldest block, which is of this kind.
Run(what) ==
    /\ mainQueue # <<>>
    /\ Head(mainQueue).what = what
    /\ mainQueue' = Tail(mainQueue)
    /\ UNCHANGED <<stored, cache, outbox, used, observing, awaiting, leaked>>

\* The process ends: the writes in the outbox and every block are lost.
Disconnect ==
    /\ cache' = stored
    /\ outbox' = <<>>
    /\ mainQueue' = <<>>
    /\ observing' = NoCategory
    /\ awaiting' = {}
    /\ leaked' = {}
    /\ UNCHANGED <<stored, used>>
=============================================================================

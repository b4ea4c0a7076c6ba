--------------------------- MODULE ProductsScreen ---------------------------
(***************************************************************************)
(* The product editor as a whole: the list, the detail view and the popup  *)
(* over their shared globals, the user who operates whichever of them is   *)
(* on top, the main queue that runs Firebase's blocks between the user's   *)
(* taps, the server, other admins, and the end of the process at any time. *)
(***************************************************************************)
EXTENDS ProductDetail, ProductList, AddProduct

vars == <<dbVars, appVars, detailVars, addVars>>

ScreenTypeOK == AppTypeOK /\ DetailTypeOK /\ AddTypeOK

TypeOK == DbTypeOK /\ ScreenTypeOK

Init ==
    /\ DbInit
    /\ Launched
    /\ alert = FALSE
    /\ popup = NoView /\ popupForm = "unnamed"

Running == trapped = "no"

\* List and detail view take taps when neither alert nor popup covers them.
Uncovered == Running /\ ~alert /\ popup = NoView

ListTap ==
    /\ Uncovered
    /\ \/ \E c \in Category, v \in View \cup {NoView} : OpenCategory(c, v)
       \/ \E k \in Key, v \in View : SelectRow(k, v)
       \/ Back
       \/ Exit
    /\ UNCHANGED <<detailVars, addVars>>

DetailTap ==
    /\ Uncovered
    /\ \/ EditPressed
       \/ \E content \in Typed : TypeInto(content)
       \/ SavePressed
       \/ DeletePressed
    /\ UNCHANGED addVars

AlertTap ==
    /\ Running
    /\ CancelDelete \/ ConfirmDelete
    /\ UNCHANGED addVars

PopupTap ==
    /\ Running /\ ~alert
    /\ \/ \E p \in Popup : OpenPopup(p)
       \/ \E content \in Typed : TypeIntoPopup(content)
       \/ PopupSavePressed
       \/ ClosePopup
    /\ UNCHANGED detailVars

Tap == ListTap \/ DetailTap \/ AlertTap \/ PopupTap

\* UIKit displays the view that came on screen.
Display == Running /\ Draw /\ UNCHANGED addVars

\* The main thread runs the oldest block of its queue.
RunBlock ==
    /\ Running
    /\ \/ (ValueEvent \/ ClosedListEvent) /\ UNCHANGED <<detailVars, addVars>>
       \/ (SaveDone \/ DeleteDone) /\ UNCHANGED addVars
       \/ AddDone /\ UNCHANGED detailVars

Answered == Running /\ (Accept \/ Reject) /\ UNCHANGED <<appVars, detailVars, addVars>>

Snapshot == Running /\ InitialSnapshot /\ UNCHANGED <<appVars, detailVars, addVars>>

Others == Running /\ OtherAdmin /\ UNCHANGED <<appVars, detailVars, addVars>>

\* The process is killed, or ended by a trap, and started again.
Relaunch ==
    /\ Disconnect
    /\ currentCategory' = NoCategory
    /\ selectedProduct' = EmptyProduct
    /\ productsArray' = Empty
    /\ aliased' = FALSE
    /\ spinner' = FALSE
    /\ visible' = NoView
    /\ views' = [v \in View |-> NewView]
    /\ trapped' = "no"
    /\ alert' = FALSE
    /\ popup' = NoView /\ popupForm' = "unnamed"

Next == Tap \/ Display \/ RunBlock \/ Answered \/ Snapshot \/ Others \/ Relaunch

Spec == Init /\ [][Next]_vars

(***************************************************************************)
(* The main thread goes on running its blocks and displaying its views,    *)
(* and the server goes on answering.  Nobody has to tap, no other admin    *)
(* has to write and no process has to end.                                 *)
(***************************************************************************)
FairSpec == Spec /\ WF_vars(Display) /\ WF_vars(RunBlock)
                 /\ WF_vars(Answered) /\ WF_vars(Snapshot)

(***************************************************************************)
(* A user who waits, before every tap, until nothing is under way: every   *)
(* write answered, every block run, the view on screen drawn.              *)
(***************************************************************************)
Quiet == /\ outbox = <<>> /\ mainQueue = <<>> /\ awaiting = {}
         /\ visible # NoView => views[visible].phase # "undrawn"

PatientNext == (Quiet /\ Tap) \/ Display \/ RunBlock \/ Answered \/ Snapshot \/ Relaunch

-----------------------------------------------------------------------------
\* Every record the server holds is in the category it was created in and has
\* the picture it was created with, however saves, selections, exits and late
\* completions interleave (savePressed reads both from mutable globals).
RecordsKept == stored \in Whole

\* A view on screen that shows a product, or asks whether to delete it, is about
\* the one that Save and Delete would hit: selectedProduct is that product, or
\* none at all.
SelectedIsShown ==
    OnScreen \/ alert => selectedProduct.key \in {NoKey, views[visible].product}

\* Save and Delete write to the product their view has been showing since it
\* was filled, not to one selected or reset since.
WritesWhatIsShown ==
    [][Len(outbox') > Len(outbox) /\ popup = NoView
        => outbox'[Len(outbox')].key = views[visible].product]_vars

(***************************************************************************)
(* Why these hold.  The globals, the rows and the queued snapshots belong  *)
(* to the category that is observed; with no list open there is no         *)
(* selection, no row, no view and no queued snapshot (exit resets what     *)
(* the next category would otherwise inherit).  The database side is       *)
(* DbInv: what is stored, copied, being sent or queued belongs together.   *)
(***************************************************************************)
SelectionKept ==
    /\ selectedProduct.key # NoKey =>
        /\ CategoryOf[selectedProduct.key] = observing
        /\ selectedProduct.picture = PictureOf[selectedProduct.key]
    /\ aliased => /\ selectedProduct.key # NoKey
                  /\ productsArray[selectedProduct.key] # NoRecord

RowsKept ==
    \A k \in Key : productsArray[k] # NoRecord =>
        CategoryOf[k] = observing /\ productsArray[k].picture = PictureOf[k]

Nested ==
    /\ observing # NoCategory => currentCategory = observing
    /\ visible # NoView => observing # NoCategory
    /\ popup # NoView => visible # NoView
    /\ alert => visible # NoView /\ views[visible].phase # "undrawn"

ScreenInv == ScreenTypeOK /\ SelectionKept /\ RowsKept /\ Nested /\ SelectedIsShown

Inv == DbInv /\ ScreenInv

\* Every snapshot the open list was sent has been put in its rows.
ListSettled ==
    /\ observing # NoCategory /\ observing \notin awaiting
    /\ \A i \in 1..Len(mainQueue) : mainQueue[i].what # "value"

\* Once the list's value events have run, its rows are the products of the
\* client's copy, with their pictures, unless the category is empty (the
\* handler ignores a null snapshot and the last product stays in the list).
\* Their texts may differ: see ListExact.
ListCurrent ==
    LET held == cache[observing]
    IN  ListSettled /\ held # Empty
        => \A k \in Key :
            /\ (productsArray[k] = NoRecord) <=> (held[k] = NoRecord)
            /\ held[k] # NoRecord => productsArray[k].picture = held[k].picture

\* For a user who waits, the rows are the client's copy exactly.  (One who goes
\* on typing while a save is under way gets the typed text into the row, since
\* the completion reads the fields and the row may be selectedProduct itself.)
ListExact ==
    LET held == cache[observing]
    IN  ListSettled /\ held # Empty => productsArray = held

\* The progress indicator goes away: every save and every list that finds
\* products takes it down, whatever else is shown or closed in between.
SpinnerClears ==
    spinner ~> (~spinner \/ ~Running \/ cache[currentCategory] = Empty)

\* The progress indicator always goes away, as the usage its README shows wants:
\* each show is followed by a dismiss.  The list's handler dismisses it only for
\* a category that has products.
SpinnerAlwaysClears == spinner ~> (~spinner \/ ~Running)

\* A popup whose product the server has accepted closes.
SavedPopupCloses ==
    \A p \in Popup :
        (popup = p /\ \E i \in 1..Len(outbox) : outbox[i].reply.view = p)
            ~> (popup # p \/ ~Running \/ \E i \in 1..Len(mainQueue) :
                    mainQueue[i] = [what |-> "added", view |-> p, ok |-> FALSE])

\* For a user who waits, no tap reads a selectedProduct that has been reset:
\* what ends the process is a price that is no Int, when it is saved.
PatientUserKeepsSelection == trapped \in {"no", "price"}

\* For a user who waits, and whom no other admin disturbs (OthersWrite FALSE), a
\* form that is not being edited shows what the server holds for its product.
\* (It may hold nothing: the last product deleted stays in the list.)
FormTruthful ==
    (Quiet /\ Running /\ OnScreen /\ ~views[visible].editable)
        => LET record == stored[currentCategory][views[visible].product]
           IN  record # NoRecord => views[visible].text = record.text

\* The server's tree as a catalogue: the records each key has, in any category.
Entries == [k \in Key |->
    {[category |-> c, text |-> stored[c][k].text, picture |-> stored[c][k].picture] :
        c \in {d \in Category : stored[d][k] # NoRecord}}]

Abstract == INSTANCE Catalogue WITH catalogue <- Entries, issued <- used

\* The editor implements the catalogue: whatever the order of taps, completions
\* and events, each step of the server's tree writes or removes one product, in
\* its own category, under a key handed out for it, with its own picture.
ImplementsCatalogue == Abstract!Spec
=============================================================================

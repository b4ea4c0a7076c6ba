------------------------------ MODULE AppState ------------------------------
(***************************************************************************)
(* What the screens of the product editor share: the two global variables  *)
(* currentCategory and selectedProduct, the rows of the open list (whose   *)
(* objects selectedProduct may alias), the progress indicator, the detail  *)
(* view on screen, and whether the process has hit a runtime trap.         *)
(***************************************************************************)
EXTENDS RealtimeDatabase

CONSTANT Typed      \* the contents users give a form: a bound for TLC

VARIABLES
    currentCategory,
    selectedProduct,
    productsArray,  \* the open list's rows, as a partial map from keys
    aliased,        \* selectedProduct is one of the objects in productsArray
    spinner,        \* SVProgressHUD is on screen
    visible,        \* the detail view on screen, or NoView
    views,          \* the detail views, the ones only a closure holds included
    trapped         \* the forced unwrap or exception that ended the process

appVars == <<currentCategory, selectedProduct, productsArray, aliased, spinner,
             visible, views, trapped>>

(***************************************************************************)
(* The name, price, description and availability of a product or a form,   *)
(* taken together: a text the editor accepts, or the reason it does not.   *)
(* "overpriced" passes the checks for empty fields and is no Int.          *)
(***************************************************************************)
Refused == {"unnamed", "undescribed", "unpriced"}
Content == Text \cup Refused \cup {"overpriced"}

ASSUME Typing == Typed \subseteq Content

\* Int(...)! on the price field of a form with this content fails.
NoInt(content) == content \in {"unpriced", "overpriced"}

\* Contents a Product object can have: its price is an Int.
Described == Text \cup {"unnamed", "undescribed"}

Product == [key : Key \cup {NoKey}, text : Described, picture : Picture \cup {NoPicture}]

EmptyProduct == [key |-> NoKey, text |-> "unnamed", picture |-> NoPicture]

\* The properties of a Product, as a row of the list.
Row  == [text : Described, picture : Picture]
Rows == [Key -> Row \cup {NoRecord}]

ASSUME NoRow == NoRecord \notin Row

(***************************************************************************)
(* A detail view: whether draw() has yet to run, or the header and the form *)
(* are shown or hidden; what the form holds, editState, whether the fields *)
(* and the Save button are enabled, and the key of the product its form    *)
(* was filled from (which the code does not keep: it is what the user sees *)
(* the view to be about).                                                  *)
(***************************************************************************)
DetailView == [phase : {"undrawn", "shown", "hidden"}, text : Content,
               editState : BOOLEAN, editable : BOOLEAN, product : Key \cup {NoKey}]

NewView == [phase |-> "undrawn", text |-> "unnamed",
            editState |-> FALSE, editable |-> FALSE, product |-> NoKey]

AppTypeOK ==
    /\ currentCategory \in Category \cup {NoCategory}
    /\ selectedProduct \in Product
    /\ productsArray \in Rows
    /\ aliased \in BOOLEAN
    /\ spinner \in BOOLEAN
    /\ visible \in View \cup {NoView}
    /\ views \in [View -> DetailView]
    /\ trapped \in {"no", "price", "price, late", "key"}

Launched ==
    /\ currentCategory = NoCategory
    /\ selectedProduct = EmptyProduct
    /\ productsArray = Empty
    /\ aliased = FALSE
    /\ spinner = FALSE
    /\ visible = NoView
    /\ views = [v \in View |-> NewView]
    /\ trapped = "no"

-----------------------------------------------------------------------------
\* A write or a block on the main queue refers to v.
Retained(v) ==
    \/ \E i \in 1..Len(outbox) : outbox[i].reply.view = v
    \/ \E i \in 1..Len(mainQueue) :
        mainQueue[i].what \notin {"value", "closed"} /\ mainQueue[i].view = v

\* Mutant: the split view keeps the detail view it has.
PresentOnce(v) ==
    IF v # NoView /\ visible # NoView
    THEN UNCHANGED <<visible, views>>
    ELSE /\ visible' = v
         /\ views' = [u \in View |-> IF u # v /\ Retained(u) THEN views[u] ELSE NewView]

\* v comes on screen in place of the view that was there; a view no closure
\* holds is released.
Present(v) ==
    /\ visible' = v
    /\ views' = [u \in View |-> IF u # v /\ Retained(u) THEN views[u] ELSE NewView]

\* A failed forced unwrap, or an exception from Firebase, ends the process.
Trap(why) ==
    /\ trapped' = why
    /\ UNCHANGED <<dbVars, currentCategory, selectedProduct, productsArray,
                   aliased, spinner, visible, views>>
=============================================================================

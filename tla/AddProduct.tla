----------------------------- MODULE AddProduct -----------------------------
(***************************************************************************)
(* AddProductViewController: a popup over the detail view that writes a    *)
(* new product into currentCategory.  Save stays enabled while the write   *)
(* is unanswered; the completion closes the popup that made the call.      *)
(***************************************************************************)
EXTENDS AppState

VARIABLES
    popup,          \* the popup on screen, or NoView
    popupForm       \* what its fields hold

addVars == <<popup, popupForm>>

AddTypeOK == popup \in Popup \cup {NoView} /\ popupForm \in Content

\* The compose button of the detail view's toolbar.
OpenPopup(p) ==
    /\ visible # NoView
    /\ popup = NoView
    /\ ~Retained(p)
    /\ popup' = p
    /\ popupForm' = "unnamed"
    /\ UNCHANGED <<dbVars, appVars>>

TypeIntoPopup(content) ==
    /\ popup # NoView
    /\ popupForm' = content
    /\ UNCHANGED <<dbVars, appVars, popup>>

\* Mutant: savePressed without the guards for empty fields.
PopupSaveUnchecked ==
    /\ popup # NoView
    /\ \E k \in Key :
          /\ IsAutoId(k, currentCategory, Placeholder)
          /\ Put(currentCategory, k, [text |-> popupForm, picture |-> Placeholder],
                 [what |-> "added", view |-> popup])
    /\ UNCHANGED <<appVars, addVars>>

\* savePressed of the popup: guards, the price unwrapped, and one setValue
\* under a new key each time it is pressed.
PopupSavePressed ==
    /\ popup # NoView
    /\ popupForm \notin Refused
    /\ \/ /\ NoInt(popupForm)
          /\ Trap("price")
       \/ /\ ~NoInt(popupForm)
          /\ \E k \in Key :
                /\ IsAutoId(k, currentCategory, Placeholder)
                /\ Put(currentCategory, k,
                       [text |-> popupForm, picture |-> Placeholder],
                       [what |-> "added", view |-> popup])
          /\ UNCHANGED appVars
    /\ UNCHANGED addVars

ClosePopup ==
    /\ popup # NoView
    /\ popup' = NoView
    /\ popupForm' = "unnamed"
    /\ UNCHANGED <<dbVars, appVars>>

\* Mutant: the popup closes when the write has failed.
AddDoneOnError ==
    LET done == Head(mainQueue)
    IN  /\ Run("added")
        /\ IF ~done.ok /\ done.view = popup
           THEN popup' = NoView /\ popupForm' = "unnamed"
           ELSE UNCHANGED addVars
        /\ UNCHANGED appVars

\* The completion of setValue: success dismisses the popup that saved, which
\* is nothing to do when that one is closed already.
AddDone ==
    LET done == Head(mainQueue)
    IN  /\ Run("added")
        /\ IF done.ok /\ done.view = popup
           THEN popup' = NoView /\ popupForm' = "unnamed"
           ELSE UNCHANGED addVars
        /\ UNCHANGED appVars
=============================================================================

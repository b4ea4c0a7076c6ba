--------------------------- MODULE ProductDetail ----------------------------
(***************************************************************************)
(* ProductDetailViewController: the form that shows, edits and deletes the *)
(* product in the global selectedProduct.  The handlers of the view on     *)
(* screen run for the user; the completion blocks of updateChildValues and *)
(* removeValue run for the view that made the call, which may be gone from *)
(* the screen by then, and read the globals and the fields as they find    *)
(* them.                                                                   *)
(***************************************************************************)
EXTENDS AppState

VARIABLE alert      \* the "Delete Product" alert is up, for the visible view

detailVars == <<alert>>

DetailTypeOK == alert \in BOOLEAN

OnScreen == visible # NoView /\ views[visible].phase = "shown"

\* draw(_:), once per view, when UIKit first displays it.
Draw ==
    /\ visible # NoView
    /\ views[visible].phase = "undrawn"
    /\ LET filled == selectedProduct.text # "unnamed"
       IN  views' = [views EXCEPT ![visible] =
                [phase     |-> IF filled THEN "shown" ELSE "hidden",
                 text      |-> IF filled THEN selectedProduct.text ELSE "unnamed",
                 editState |-> views[visible].editState,
                 editable  |-> views[visible].editState,
                 product   |-> IF filled THEN selectedProduct.key ELSE NoKey]]
    /\ UNCHANGED <<dbVars, currentCategory, selectedProduct, productsArray,
                   aliased, spinner, visible, trapped, detailVars>>

\* "Edit" enables the form; "Cancel" fills it again from selectedProduct.
EditPressed ==
    /\ OnScreen
    /\ LET editing == ~views[visible].editState
       IN  views' = [views EXCEPT
                ![visible].editState = editing,
                ![visible].editable = editing,
                ![visible].text = IF editing THEN @ ELSE selectedProduct.text,
                ![visible].product = IF editing THEN @ ELSE selectedProduct.key]
    /\ UNCHANGED <<dbVars, currentCategory, selectedProduct, productsArray,
                   aliased, spinner, visible, trapped, detailVars>>

\* The user changes the enabled fields.
TypeInto(content) ==
    /\ OnScreen
    /\ views[visible].editable
    /\ views' = [views EXCEPT ![visible].text = content]
    /\ UNCHANGED <<dbVars, currentCategory, selectedProduct, productsArray,
                   aliased, spinner, visible, trapped, detailVars>>

\* Mutant: the picture every new product gets, as in AddProductViewController.
NewProductDictionaryWithPlaceholder ==
    [text |-> views[visible].text, picture |-> Placeholder]

\* The record savePressed writes: the fields, with selectedProduct's picture.
NewProductDictionary ==
    [text |-> views[visible].text, picture |-> selectedProduct.picture]

\* savePressed: the three guards, the progress indicator, the price unwrapped,
\* and the whole record written under the globals currentCategory and
\* selectedProduct.key.
SavePressed ==
    /\ OnScreen
    /\ views[visible].editable
    /\ views[visible].text \notin Refused
    /\ \/ /\ NoInt(views[visible].text)
          /\ Trap("price")
       \/ /\ ~NoInt(views[visible].text)
          /\ selectedProduct.key = NoKey
          /\ Trap("key")
       \/ /\ ~NoInt(views[visible].text)
          /\ selectedProduct.key # NoKey
          /\ Put(currentCategory, selectedProduct.key, NewProductDictionary,
                 [what |-> "saved", view |-> visible])
          /\ spinner' = TRUE
          /\ UNCHANGED <<currentCategory, selectedProduct, productsArray,
                         aliased, visible, views, trapped>>
    /\ UNCHANGED detailVars

\* Mutant: the completion selects the product it has saved.
UpdateSelectedValuesAndKey(v) ==
    /\ selectedProduct' = [selectedProduct EXCEPT !.text = views[v].text,
                                                 !.key = views[v].product]
    /\ UNCHANGED productsArray

\* Mutant: the completion leaves selectedProduct as it was before the save.
UpdateSelectedValuesForgotten(v) == UNCHANGED <<selectedProduct, productsArray>>

\* updateSelectedValues of view v: the fields, as they are now, go into
\* selectedProduct, as it is now, and so into the row that is the same object.
UpdateSelectedValues(v) ==
    /\ selectedProduct' = [selectedProduct EXCEPT !.text = views[v].text]
    /\ productsArray' = IF aliased
                        THEN [productsArray EXCEPT ![selectedProduct.key].text = views[v].text]
                        ELSE productsArray

\* Mutant: the progress indicator is dismissed on success only.
SaveRefusedStillSpinning ==
    /\ Run("saved")
    /\ ~Head(mainQueue).ok
    /\ UNCHANGED <<selectedProduct, productsArray, spinner, views, trapped>>

\* updateChildValues has failed: only the progress indicator goes.
SaveRefused ==
    /\ Run("saved")
    /\ ~Head(mainQueue).ok
    /\ spinner' = FALSE
    /\ UNCHANGED <<selectedProduct, productsArray, views, trapped>>

\* The completion of updateChildValues.  It leaves editState as it is, and
\* unwraps the price in the fields as they are by now.
SaveDone ==
    LET done == Head(mainQueue)
        v == done.view
    IN  /\ \/ SaveRefused
           \/ /\ Run("saved")
              /\ done.ok
              /\ ~NoInt(views[v].text)
              /\ spinner' = FALSE
              /\ views' = [views EXCEPT ![v].editable = FALSE]
              /\ UpdateSelectedValues(v)
              /\ UNCHANGED trapped
           \/ /\ mainQueue # <<>> /\ done.what = "saved"
              /\ done.ok
              /\ NoInt(views[v].text)
              /\ Trap("price, late")
        /\ UNCHANGED <<currentCategory, aliased, visible, detailVars>>

DeletePressed ==
    /\ OnScreen
    /\ alert' = TRUE
    /\ UNCHANGED <<dbVars, appVars>>

CancelDelete ==
    /\ alert
    /\ alert' = FALSE
    /\ UNCHANGED <<dbVars, appVars>>

\* The alert's "Delete" action: it reads the globals when it is pressed, not
\* when the alert came up.
ConfirmDelete ==
    /\ alert
    /\ alert' = FALSE
    /\ \/ /\ selectedProduct.key = NoKey
          /\ Trap("key")
       \/ /\ selectedProduct.key # NoKey
          /\ Put(currentCategory, selectedProduct.key, NoRecord,
                 [what |-> "deleted", view |-> visible])
          /\ UNCHANGED appVars

\* Mutant: the form of the deleted product stays.
ResetFormStillShown(v) ==
    /\ selectedProduct' = EmptyProduct
    /\ aliased' = FALSE
    /\ UNCHANGED views

\* resetForm of view v: nothing is selected, and v shows nothing.
ResetForm(v) ==
    /\ selectedProduct' = EmptyProduct
    /\ aliased' = FALSE
    /\ views' = [views EXCEPT ![v].phase = "hidden"]

\* The completion of removeValue: resetForm clears selectedProduct, whichever
\* product that is by now.
DeleteDone ==
    LET done == Head(mainQueue)
    IN  /\ Run("deleted")
        /\ \/ /\ ~done.ok
              /\ UNCHANGED <<selectedProduct, aliased, views>>
           \/ /\ done.ok
              /\ ResetForm(done.view)
        /\ UNCHANGED <<currentCategory, productsArray, spinner, visible, trapped,
                       detailVars>>
=============================================================================

---------------------------- MODULE ProductList -----------------------------
(***************************************************************************)
(* SampleTableViewController, with the ProductsViewController that presents *)
(* it: the list of one category's products.  Its observer is registered    *)
(* once and never removed, and retains the controller.                     *)
(***************************************************************************)
EXTENDS AppState

CONSTANT Pad        \* TRUE: list and detail side by side; FALSE: pushed on it

ASSUME Layout == Pad \in BOOLEAN

\* No reply is on its way to v and nothing shows it.
Unused(v) == v # visible /\ ~Retained(v)

\* A category is chosen: ProductsViewController sets currentCategory, and the
\* list's viewDidLoad shows the progress indicator and starts to observe.  On
\* a pad a detail view comes with it.
OpenCategory(c, v) ==
    /\ observing = NoCategory
    /\ IF Pad THEN v \in View /\ Unused(v) ELSE v = NoView
    /\ currentCategory' = c
    /\ Observe(c)
    /\ spinner' = TRUE
    /\ productsArray' = Empty
    /\ Present(v)
    /\ UNCHANGED <<selectedProduct, aliased, trapped>>

\* Mutant: the rows are added to the ones the list has.
RebuiltOnTop(rows) ==
    [k \in Key |-> IF rows[k] = NoRecord THEN productsArray[k] ELSE rows[k]]

\* The rows built from a snapshot: one new object for every child, in an array
\* that starts empty.
Rebuilt(rows) == rows

\* The observer's block, on the open list: a null snapshot is ignored, any
\* other one replaces the rows by new objects.
ValueEvent ==
    LET rows == Head(mainQueue).rows
    IN  /\ Run("value")
        /\ \/ /\ rows = Empty
              /\ UNCHANGED <<productsArray, aliased, spinner>>
           \/ /\ rows # Empty
              /\ productsArray' = Rebuilt(rows)
              /\ aliased' = FALSE
              /\ spinner' = FALSE
        /\ UNCHANGED <<currentCategory, selectedProduct, visible, views, trapped>>

\* The same block on a closed list: what is left to see is that it dismisses
\* the progress indicator.
ClosedListEvent ==
    /\ Run("closed")
    /\ spinner' = IF Head(mainQueue).rows = Empty THEN spinner ELSE FALSE
    /\ UNCHANGED <<currentCategory, selectedProduct, productsArray, aliased,
                   visible, views, trapped>>

\* prepare(for: showDetail): the row's object becomes selectedProduct, and a
\* new detail view comes on screen, to be drawn later.
SelectRow(k, v) ==
    /\ observing # NoCategory
    /\ productsArray[k] # NoRecord
    /\ Pad \/ visible = NoView
    /\ Unused(v)
    /\ selectedProduct' = [key |-> k, text |-> productsArray[k].text,
                           picture |-> productsArray[k].picture]
    /\ aliased' = TRUE
    /\ Present(v)
    /\ UNCHANGED <<dbVars, currentCategory, productsArray, spinner, trapped>>

\* The phone's back button, from the detail view to the list.
Back ==
    /\ ~Pad
    /\ visible # NoView
    /\ Present(NoView)
    /\ UNCHANGED <<dbVars, currentCategory, selectedProduct, productsArray,
                   aliased, spinner, trapped>>

\* Mutant: exit leaves the product selected.
ExitKeepingSelection ==
    /\ observing # NoCategory
    /\ Pad \/ visible = NoView
    /\ productsArray' = Empty
    /\ aliased' = FALSE
    /\ Abandon
    /\ Present(NoView)
    /\ UNCHANGED <<currentCategory, selectedProduct, spinner, trapped>>

\* didClickOnExitButton, in the list's navigation bar.
Exit ==
    /\ observing # NoCategory
    /\ Pad \/ visible = NoView
    /\ selectedProduct' = EmptyProduct
    /\ productsArray' = Empty
    /\ aliased' = FALSE
    /\ Abandon
    /\ Present(NoView)
    /\ UNCHANGED <<currentCategory, spinner, trapped>>
=============================================================================

--------------------------- MODULE ProductSearch ----------------------------
(***************************************************************************)
(* The search bar of SampleTableViewController and the table under it.     *)
(* The controller answers the table from filteredSearch or productsArray,  *)
(* as searchActive says at that moment; the table keeps the rows of its    *)
(* last reloadData until it asks for a cell again.  The delegate calls     *)
(* that begin and end the editing of the search bar change searchActive    *)
(* and reload nothing.                                                     *)
(***************************************************************************)
EXTENDS Naturals, FiniteSets, SequencesExt

CONSTANTS
    Key,            \* products of the category, by key
    NoKey,          \* no product has been selected
    Query,          \* search texts, the empty one included
    Matching        \* the keys whose names contain each search text

ASSUME Queries == /\ NoKey \notin Key /\ IsFiniteSet(Key)
                  /\ Matching \in [Query -> SUBSET Key]

VARIABLES
    productsArray,  \* the rows of the last snapshot, in dictionary order
    filteredSearch, \* the ones that matched when the search text last changed
    searchActive,
    shown,          \* what the table's rows show, one entry for each
    settled,        \* searchActive has not changed since the last reloadData
    selectedProduct,
    outOfRange         \* an index was out of range

searchVars == <<productsArray, filteredSearch, searchActive, shown, settled,
          selectedProduct, outOfRange>>

\* The types; and no product has two rows (viewDidLoad empties productsArray
\* before it appends the products of a snapshot).
SearchTypeOK ==
    /\ productsArray \in Seq(Key) /\ IsInjective(productsArray)
    /\ filteredSearch \in Seq(Key) /\ shown \in Seq(Key)
    /\ searchActive \in BOOLEAN /\ settled \in BOOLEAN
    /\ selectedProduct \in Key \cup {NoKey}
    /\ outOfRange \in BOOLEAN

SearchInit ==
    /\ productsArray = <<>> /\ filteredSearch = <<>>
    /\ searchActive = FALSE
    /\ shown = <<>> /\ settled = TRUE
    /\ selectedProduct = NoKey
    /\ outOfRange = FALSE

-----------------------------------------------------------------------------
\* What numberOfRowsInSection, cellForRowAt and prepare index now.
Rows == IF searchActive THEN filteredSearch ELSE productsArray

\* Mutant: the table is left as it is.
NoReloadData == UNCHANGED <<shown, settled>>

\* Mutant: the table is reloaded before the arrays are changed.
ReloadDataFirst == shown' = Rows /\ settled' = TRUE

\* reloadData: the table asks for its rows again.
ReloadData == shown' = Rows' /\ settled' = TRUE

\* Mutant: productsArray is not emptied first.
ValueEventAppends ==
    /\ \E S \in SUBSET Key \ {{}} : \E rows \in SetToSeqs(S) :
          productsArray' = productsArray \o rows
    /\ UNCHANGED <<filteredSearch, searchActive, selectedProduct, outOfRange>>
    /\ ReloadData

\* The observer's block: the dictionary of a snapshot comes in any order, and a
\* snapshot without products is ignored.
ValueEvent ==
    /\ \E S \in SUBSET Key \ {{}} : productsArray' \in SetToSeqs(S)
    /\ UNCHANGED <<filteredSearch, searchActive, selectedProduct, outOfRange>>
    /\ ReloadData

\* The delegate calls that only assign searchActive.
SetActive(value) ==
    /\ searchActive' = value
    /\ settled' = (settled /\ searchActive = value)
    /\ UNCHANGED <<productsArray, filteredSearch, shown, selectedProduct, outOfRange>>

\* searchBarTextDidBeginEditing.
BeginEditing == SetActive(TRUE)

\* searchBarTextDidEndEditing, searchBarCancelButtonClicked and
\* searchBarSearchButtonClicked.
EndEditing == SetActive(FALSE)

\* filter: the rows among the given ones, in their order.
Filtered(rows, keys) ==
    LET hits == {i \in 1..Len(rows) : rows[i] \in keys}
    IN  [n \in 1..Cardinality(hits) |->
            rows[CHOOSE i \in hits : Cardinality({h \in hits : h <= i}) = n]]

\* searchBar(_:textDidChange:).
TextDidChange(query) ==
    /\ filteredSearch' = Filtered(productsArray, Matching[query])
    /\ searchActive' = (filteredSearch' # <<>>)
    /\ UNCHANGED <<productsArray, selectedProduct, outOfRange>>
    /\ ReloadData

\* The i-th row is scrolled into view: cellForRowAt.
CellForRow(i) ==
    /\ \/ i <= Len(Rows) /\ shown' = [shown EXCEPT ![i] = Rows[i]] /\ UNCHANGED outOfRange
       \/ i > Len(Rows) /\ outOfRange' = TRUE /\ UNCHANGED shown
    /\ UNCHANGED <<productsArray, filteredSearch, searchActive, settled,
                   selectedProduct>>

\* The i-th row is tapped: prepare(for: showDetail).
SelectRow(i) ==
    /\ \/ i <= Len(Rows) /\ selectedProduct' = Rows[i] /\ UNCHANGED outOfRange
       \/ i > Len(Rows) /\ outOfRange' = TRUE /\ UNCHANGED selectedProduct
    /\ UNCHANGED <<productsArray, filteredSearch, searchActive, shown, settled>>

SearchNext ==
    /\ ~outOfRange
    /\ \/ ValueEvent
       \/ BeginEditing
       \/ EndEditing
       \/ \E query \in Query : TextDidChange(query)
       \/ \E i \in 1..Len(shown) : CellForRow(i) \/ SelectRow(i)

SearchSpec == SearchInit /\ [][SearchNext]_searchVars

-----------------------------------------------------------------------------
\* The table shows the rows the controller indexes, so that the row tapped is
\* the product selected, unless editing began or ended since the last reload:
\* snapshots that arrive under a filter, and texts that match nothing, included.
TableAgrees == settled => shown = Rows

\* An index of cellForRowAt or prepare is out of range in that case only.  (It
\* is then: the search bar is tapped before any text was typed, and a row is
\* tapped or scrolled into view.)
TrapsOnlyUnsettled == outOfRange => ~settled
=============================================================================

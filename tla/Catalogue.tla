----------------------------- MODULE Catalogue ------------------------------
(***************************************************************************)
(* What the product editor promises about the catalogue it edits: a        *)
(* product is one entry, written or removed as a whole and one at a time.  *)
(* It is written only under a key that was issued for it, there is one of  *)
(* it at most, and it keeps its category and its picture through every     *)
(* rewrite.                                                                *)
(***************************************************************************)
CONSTANTS Key, Text, CategoryOf, PictureOf

VARIABLES
    catalogue,      \* the entries of each key, of all categories: none or one
    issued          \* the keys handed out so far

Entry(k, t) == [category |-> CategoryOf[k], text |-> t, picture |-> PictureOf[k]]

Init ==
    /\ issued \subseteq Key
    /\ \E text \in [Key -> Text] :
        catalogue = [k \in Key |-> IF k \in issued THEN {Entry(k, text[k])} ELSE {}]

\* An admin's app takes a new key, and may have its product committed at once.
Issue(k) ==
    /\ k \notin issued
    /\ issued' = issued \cup {k}
    /\ \/ UNCHANGED catalogue
       \/ \E t \in Text : catalogue' = [catalogue EXCEPT ![k] = {Entry(k, t)}]

\* A product is written, again or for the first time.
Rewrite(k, t) ==
    /\ k \in issued
    /\ catalogue' = [catalogue EXCEPT ![k] = {Entry(k, t)}]
    /\ UNCHANGED issued

Remove(k) ==
    /\ k \in issued
    /\ catalogue' = [catalogue EXCEPT ![k] = {}]
    /\ UNCHANGED issued

Next == \E k \in Key : Issue(k) \/ Remove(k) \/ \E t \in Text : Rewrite(k, t)

Spec == Init /\ [][Next]_<<catalogue, issued>>
=============================================================================

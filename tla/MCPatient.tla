------------------------------ MODULE MCPatient ------------------------------
(***************************************************************************)
(* Users who wait (PatientNext), disturbed by other admins or alone.       *)
(***************************************************************************)
EXTENDS MCProductsScreen

VARIABLE alone  \* no other admin edits the tree

AloneInit == Init /\ alone \in BOOLEAN
AloneNext == (PatientNext \/ (~alone /\ Others)) /\ UNCHANGED alone
AloneSpec == AloneInit /\ [][AloneNext]_<<vars, alone>>

\* For a user who waits, and whom no other admin disturbs, a form that is not
\* being edited shows what the server holds for its product.
FormTruthfulAlone == alone => FormTruthful
=============================================================================

------------------------------ MODULE MCPanel -------------------------------
(***************************************************************************)
(* The screens that share nothing with the product editor, and its price   *)
(* field and search bar by themselves: a behaviour exercises one of them   *)
(* and leaves the others as they are.                                      *)
(***************************************************************************)
EXTENDS Session, Messages, ProductSearch, PriceField, TLC

CONSTANTS k1, k2, k3, all, one, empty

\* Three products; search texts that match all, one or none of their names (the
\* empty text is found in none).
MatchingNames == (all :> {k1, k2, k3}) @@ (one :> {k2}) @@ (empty :> {})

VARIABLE screen
vars == <<screen, sessionVars, messagesVars, searchVars, priceVars>>

Init ==
    /\ screen \in {"login", "messages", "search", "price"}
    /\ SessionInit /\ MessagesInit /\ SearchInit /\ PriceInit
    /\ screen = "price" \/ price = 0

Next ==
    /\ UNCHANGED screen
    /\ \/ screen = "login" /\ PatientSessionNext
          /\ UNCHANGED <<messagesVars, searchVars, priceVars>>
       \/ screen = "messages" /\ MessagesNext
          /\ UNCHANGED <<sessionVars, searchVars, priceVars>>
       \/ screen = "search" /\ SearchNext
          /\ UNCHANGED <<sessionVars, messagesVars, priceVars>>
       \/ screen = "price" /\ PriceNext
          /\ UNCHANGED <<sessionVars, messagesVars, searchVars>>

Spec ==
    /\ Init /\ [][Next]_vars
    /\ WF_sessionVars(screen = "login" /\ Answered)
    /\ WF_sessionVars(screen = "login" /\ SignInDone)

\* The variables of all screens have their types.
PanelTypeOK == SessionTypeOK /\ MessagesTypeOK /\ SearchTypeOK
=============================================================================

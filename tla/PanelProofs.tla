----------------------------- MODULE PanelProofs -----------------------------
(***************************************************************************)
(* The screens of MCPanel, each for any number of accounts, messages and   *)
(* products: the login of a user who waits, the message list over failing  *)
(* saves, the rows of the product table under a search, and the texts of   *)
(* the price field.                                                        *)
(***************************************************************************)
EXTENDS MCPanel, NaturalOrder, SequenceTheorems, TLAPS

(***************************************************************************)
(* Login.  A user who waits has one sign-in under way at most, and nothing *)
(* has been touched since: the fields still hold what was sent, and no tab *)
(* bar is pushed before the completion block has run.                      *)
(***************************************************************************)
OneSignIn ==
    \/ pending = <<>> /\ answers = <<>>
    \/ pending = <<fields>> /\ answers = <<>> /\ fields # Blank
    \/ pending = <<>> /\ answers = <<FALSE>>
    \/ pending = <<>> /\ answers = <<TRUE>> /\ signedIn /\ fields \in accepted

NothingUnderWay == pending = <<>> /\ answers = <<>>

LoginInv ==
    /\ fields \in Form /\ remembered \in Form
    /\ signedIn \in BOOLEAN /\ alert \in BOOLEAN /\ spinner \in BOOLEAN
    /\ accepted \subseteq Credentials
    /\ OneSignIn
    /\ tabBars \in 0..1 /\ tabBars <= MaxTabBars
    /\ tabBars = 1 => NothingUnderWay
    /\ PanelNeedsUser
    /\ RememberedWereAccepted

LEMMA LoginInvInit == SessionInit => LoginInv
<1> SUFFICES ASSUME SessionInit PROVE LoginInv
    OBVIOUS
<1>1. signedIn \in BOOLEAN /\ alert \in BOOLEAN /\ spinner \in BOOLEAN
    BY DEF SessionInit
<1> QED
    BY <1>1, Accounts
    DEF SessionInit, LoginInv, OneSignIn, NothingUnderWay, Form, PanelNeedsUser,
        RememberedWereAccepted

LEMMA TapKeepsLogin ==
    ASSUME LoginInv, NothingUnderWay, Tap
    PROVE  LoginInv' /\ (signedIn /\ ~signedIn' => tabBars' = 0)
<1> USE DEF LoginInv, OneSignIn, NothingUnderWay, Form, PanelNeedsUser, RememberedWereAccepted
<1>1. ASSUME NEW form \in Form, TypeCredentials(form)
      PROVE  LoginInv' /\ (signedIn /\ ~signedIn' => tabBars' = 0)
    BY <1>1 DEF TypeCredentials, LoginOnTop
<1>2. CASE LoginPressed
    <2>1. pending' = <<fields>> /\ fields # Blank /\ tabBars = 0
        BY <1>2 DEF LoginPressed, LoginOnTop, FormComplete
    <2> QED BY <1>2, <2>1 DEF LoginPressed
<1>3. CASE AlertOk
    BY <1>3 DEF AlertOk
<1>4. CASE LogoutPressed
    <2>1. tabBars = 1
        BY <1>4 DEF LogoutPressed
    <2>2. CASE UNCHANGED <<signedIn, tabBars>>
        BY <1>4, <2>2 DEF LogoutPressed
    <2>3. CASE signedIn' = FALSE /\ tabBars' = tabBars - 1
        <3>1. tabBars' = 0 /\ ~signedIn' /\ signedIn' \in BOOLEAN
            <4>1. tabBars' = 0
                BY <2>1, <2>3
            <4> QED BY <4>1, <2>3, Zenon
        <3>2. UNCHANGED <<fields, remembered, pending, answers, alert, spinner, accepted>>
            BY <1>4 DEF LogoutPressed
        <3>3. OneSignIn' /\ NothingUnderWay' /\ PanelNeedsUser' /\ RememberedWereAccepted'
            BY <3>1, <3>2
        <3> HIDE DEF OneSignIn, NothingUnderWay, PanelNeedsUser, RememberedWereAccepted
        <3> QED BY <3>1, <3>2, <3>3, Accounts
    <2> QED BY <1>4, <2>2, <2>3, Zenon DEF LogoutPressed
<1> QED BY <1>1, <1>2, <1>3, <1>4 DEF Tap

LEMMA AnsweredKeepsLogin ==
    ASSUME LoginInv, Answered
    PROVE  LoginInv' /\ (signedIn /\ ~signedIn' => tabBars' = 0)
<1> USE DEF LoginInv, OneSignIn, NothingUnderWay, Form, PanelNeedsUser, RememberedWereAccepted
<1>1. PICK i \in 1..Len(pending), ok \in BOOLEAN : Answer(i, ok)
    BY DEF Answered
<1>2. pending = <<fields>> /\ answers = <<>> /\ fields # Blank /\ i = 1 /\ tabBars = 0
    <2>1. pending # <<>>
        OBVIOUS
    <2>2. pending = <<fields>> /\ answers = <<>> /\ fields # Blank
        BY <2>1, Zenon
    <2>3. i = 1
        BY <2>2
    <2>4. tabBars # 1
        BY <2>1, Zenon
    <2> QED BY <2>2, <2>3, <2>4
<1>3. pending' = <<>>
    BY <1>1, <1>2 DEF Answer
<1>4. answers' = <<ok>>
    BY <1>1, <1>2 DEF Answer
<1>5. ok => signedIn' /\ fields \in accepted'
    BY <1>1, <1>2 DEF Answer
<1>6. signedIn' \in BOOLEAN /\ (signedIn => signedIn')
    BY <1>1 DEF Answer
<1>7. accepted' \subseteq Credentials /\ accepted \subseteq accepted'
    BY <1>1, <1>2 DEF Answer
<1>8. UNCHANGED <<fields, remembered, tabBars, alert, spinner>>
    BY <1>1 DEF Answer
<1>9. OneSignIn'
    <2>1. CASE ok = TRUE
        BY <1>3, <1>4, <1>5, <1>8, <2>1
    <2>2. CASE ok = FALSE
        BY <1>3, <1>4, <2>2
    <2> QED BY <2>1, <2>2
<1> HIDE DEF OneSignIn
<1> QED BY <1>2, <1>6, <1>7, <1>8, <1>9

\* What SignInDone does, by the answer at the head of the queue.
LEMMA SignInDoneCases ==
    ASSUME LoginInv, SignInDone
    PROVE  /\ pending = <<>> /\ answers' = <<>>
           /\ UNCHANGED <<fields, pending, signedIn, accepted>>
           /\ \/ remembered' = remembered /\ tabBars' = tabBars
              \/ /\ signedIn /\ fields \in accepted
                 /\ remembered' = fields /\ tabBars' = tabBars + 1 /\ tabBars < MaxTabBars
           /\ alert' \in BOOLEAN /\ spinner' \in BOOLEAN
<1>1. answers # <<>> /\ answers' = Tail(answers)
      /\ UNCHANGED <<fields, pending, signedIn, accepted>>
    BY Zenon DEF SignInDone
<1>2. PICK ok \in BOOLEAN : answers = <<ok>> /\ (ok => signedIn /\ fields \in accepted)
      /\ pending = <<>>
    BY <1>1 DEF LoginInv, OneSignIn
<1>3. answers' = <<>> /\ Head(answers) = ok
    BY <1>1, <1>2
<1>4. CASE SignInRefused
    <2>1. remembered' = remembered /\ tabBars' = tabBars
        BY <1>4 DEF SignInRefused
    <2>2. alert' = (alert \/ tabBars = 0) /\ spinner' = FALSE
        BY <1>4, Zenon DEF SignInRefused
    <2>3. alert' \in BOOLEAN /\ spinner' \in BOOLEAN
        BY <2>2, Zenon
    <2> QED BY <1>1, <1>2, <1>3, <2>1, <2>3, Zenon
<1>5. CASE SignInAccepted
    <2>1. alert \in BOOLEAN
        BY DEF LoginInv
    <2> QED BY <1>1, <1>2, <1>3, <1>5, <2>1, Zenon DEF SignInAccepted
<1> QED BY <1>4, <1>5, Zenon DEF SignInDone

LEMMA SignInDoneKeepsLogin ==
    ASSUME LoginInv, SignInDone
    PROVE  LoginInv' /\ (signedIn /\ ~signedIn' => tabBars' = 0)
<1>1. tabBars = 0
    <2>1. answers # <<>>
        BY Zenon DEF SignInDone
    <2> QED BY <2>1 DEF LoginInv, NothingUnderWay
<1>2. OneSignIn' /\ NothingUnderWay'
    BY SignInDoneCases DEF OneSignIn, NothingUnderWay
<1>3. alert' \in BOOLEAN /\ spinner' \in BOOLEAN
    BY SignInDoneCases
<1>4. PanelNeedsUser'
    BY <1>1, SignInDoneCases DEF PanelNeedsUser
<1>5. RememberedWereAccepted' /\ remembered' \in Form
    BY SignInDoneCases DEF LoginInv, RememberedWereAccepted
<1>6. tabBars' \in 0..1 /\ tabBars' <= MaxTabBars
    BY <1>1, SignInDoneCases, Accounts DEF LoginInv
<1>7. fields' \in Form /\ signedIn' \in BOOLEAN /\ accepted' \subseteq Credentials
      /\ (signedIn => signedIn')
    BY SignInDoneCases DEF LoginInv, Form
<1>8. tabBars' = 1 => NothingUnderWay'
    BY <1>2
<1>9. signedIn /\ ~signedIn' => tabBars' = 0
    BY <1>7
<1> QED BY <1>2, <1>3, <1>4, <1>5, <1>6, <1>7, <1>8, <1>9, Zenon DEF LoginInv

LEMMA LoginStep ==
    ASSUME LoginInv, [PatientSessionNext]_sessionVars
    PROVE  LoginInv' /\ (signedIn /\ ~signedIn' => tabBars' = 0)
<1>1. CASE SessionRelaunch
    <2>1. tabBars' = 0 /\ ~alert' /\ ~spinner' /\ alert' \in BOOLEAN /\ spinner' \in BOOLEAN
        BY <1>1 DEF SessionRelaunch
    <2>2. OneSignIn' /\ NothingUnderWay'
        BY <1>1 DEF SessionRelaunch, OneSignIn, NothingUnderWay
    <2>3. fields' = remembered /\ UNCHANGED <<remembered, signedIn, accepted>>
        BY <1>1 DEF SessionRelaunch
    <2>4. PanelNeedsUser'
        BY <2>1 DEF PanelNeedsUser
    <2> QED BY <2>1, <2>2, <2>3, <2>4, Accounts DEF LoginInv, RememberedWereAccepted
<1>2. CASE UNCHANGED sessionVars
    BY <1>2
    DEF sessionVars, LoginInv, OneSignIn, NothingUnderWay, PanelNeedsUser,
        RememberedWereAccepted
<1> QED
    BY <1>1, <1>2, TapKeepsLogin, AnsweredKeepsLogin, SignInDoneKeepsLogin
    DEF PatientSessionNext, NothingUnderWay

LEMMA PatientLogin == PatientSessionSpec => []LoginInv
<1>1. LoginInv /\ [PatientSessionNext]_sessionVars => LoginInv'
    BY LoginStep
<1> QED BY LoginInvInit, <1>1, PTL DEF PatientSessionSpec

\* For a user who waits for each answer, the admin panel is on screen only
\* while Auth has a user (loginPressed's completion and logoutPressed).
THEOREM PanelHasUser == PatientSessionSpec => []PanelNeedsUser
<1>1. LoginInv => PanelNeedsUser
    BY DEF LoginInv
<1> QED BY <1>1, PatientLogin, PTL

\* ... what UserDefaults holds for the next start has been accepted once: the
\* fields the completion block reads are the ones that were sent.
THEOREM RememberedAccepted == PatientSessionSpec => []RememberedWereAccepted
<1>1. LoginInv => RememberedWereAccepted
    BY DEF LoginInv
<1> QED BY <1>1, PatientLogin, PTL

-----------------------------------------------------------------------------
(***************************************************************************)
(* Messages.  Counting copies, the order in which bags are united does not *)
(* matter: what a failed save leaves in the context is neither lost nor    *)
(* doubled for the list.                                                   *)
(***************************************************************************)
MessagesInv ==
    /\ IsABag(store) /\ IsABag(inserted)
    /\ running \in BOOLEAN /\ loaded \in BOOLEAN
    /\ ListIsContext

LEMMA BagUnionIsBag ==
    ASSUME NEW A, NEW B, IsABag(A), IsABag(B)
    PROVE  IsABag(A (+) B)
BY DEF IsABag, (+)

LEMMA BagUnionAssociates ==
    ASSUME NEW A, NEW B, NEW C, IsABag(A), IsABag(B), IsABag(C)
    PROVE  (A (+) B) (+) C = A (+) (B (+) C)
<1>1. \A e \in DOMAIN A : A[e] \in Nat
    BY DEF IsABag
<1>2. \A e \in DOMAIN B : B[e] \in Nat
    BY DEF IsABag
<1>3. \A e \in DOMAIN C : C[e] \in Nat
    BY DEF IsABag
<1> QED BY <1>1, <1>2, <1>3 DEF (+)

LEMMA EmptyBagUnion ==
    ASSUME NEW B, IsABag(B)
    PROVE  B (+) EmptyBag = B /\ IsABag(EmptyBag)
BY DEF IsABag, EmptyBag, SetToBag, (+)

LEMMA OneMessageIsBag == ASSUME NEW e PROVE IsABag(SetToBag({e}))
BY DEF IsABag, SetToBag

LEMMA AddMessageKeepsList ==
    ASSUME MessagesInv, AddMessagePressed
    PROVE  MessagesInv'
<1> DEFINE one1 == SetToBag({newMessage})
<1>1. /\ running /\ loaded /\ UNCHANGED <<loaded, running>>
      /\ messageList' = messageList (+) one1
      /\ SaveContext(inserted (+) one1)
    BY DEF AddMessagePressed
<1>2. IsABag(one1) /\ IsABag(store) /\ IsABag(inserted)
    BY OneMessageIsBag DEF MessagesInv
<1>3. messageList = store (+) inserted
    BY <1>1 DEF MessagesInv, ListIsContext
<1> HIDE DEF one1
<1>4. IsABag(inserted (+) one1) /\ IsABag(store (+) (inserted (+) one1))
    BY <1>2, BagUnionIsBag
<1>5. messageList' = store (+) (inserted (+) one1)
    BY <1>1, <1>2, <1>3, BagUnionAssociates
<1>6. CASE store' = store (+) (inserted (+) one1) /\ inserted' = EmptyBag
    <2>1. IsABag(EmptyBag) /\ store' (+) EmptyBag = store'
        BY <1>4, <1>6, EmptyBagUnion
    <2> QED BY <1>1, <1>4, <1>5, <1>6, <2>1 DEF MessagesInv, ListIsContext
<1>7. CASE inserted' = inserted (+) one1 /\ UNCHANGED store
    BY <1>1, <1>2, <1>4, <1>5, <1>7 DEF MessagesInv, ListIsContext
<1> QED BY <1>1, <1>6, <1>7 DEF SaveContext

LEMMA MessagesStep ==
    ASSUME MessagesInv, [MessagesNext]_messagesVars
    PROVE  MessagesInv'
<1>0. IsABag(EmptyBag)
    BY DEF EmptyBag, SetToBag, IsABag
<1>1. CASE ViewDidLoad
    BY <1>1 DEF ViewDidLoad, Fetched, MessagesInv, ListIsContext
<1>2. CASE Unload
    BY <1>2 DEF Unload, MessagesInv, ListIsContext
<1>3. CASE WillTerminate
    <2>1. IsABag(store') /\ inserted' = EmptyBag /\ loaded' = FALSE /\ running' = TRUE
        BY <1>3, BagUnionIsBag DEF WillTerminate, FreshProcess, MessagesInv
    <2> QED BY <1>0, <2>1 DEF MessagesInv, ListIsContext
<1>4. CASE Killed
    <2>1. store' = store /\ inserted' = EmptyBag /\ loaded' = FALSE /\ running' = TRUE
        BY <1>4 DEF Killed, FreshProcess
    <2> QED BY <1>0, <2>1 DEF MessagesInv, ListIsContext
<1>5. ASSUME NEW line \in Message \cup {NoText}, TypeMessage(line)
      PROVE  MessagesInv'
    BY <1>5 DEF TypeMessage, MessagesInv, ListIsContext
<1>6. CASE UNCHANGED messagesVars
    BY <1>6 DEF messagesVars, MessagesInv, ListIsContext
<1> QED BY <1>1, <1>2, <1>3, <1>4, <1>5, <1>6, AddMessageKeepsList DEF MessagesNext

\* As long as the tab is loaded its list is what the context holds, saved or
\* not, over any sequence of saves that fail or succeed (CoreDataHandler's
\* saveObject and fetchObejct, saveContext, relaunches).
THEOREM ListShowsContext == MessagesSpec => []ListIsContext
<1>1. MessagesInit => MessagesInv
    BY DEF MessagesInit, MessagesInv, ListIsContext, EmptyBag, SetToBag, IsABag
<1>2. MessagesInv /\ [MessagesNext]_messagesVars => MessagesInv'
    BY MessagesStep
<1>3. MessagesInv => ListIsContext
    BY DEF MessagesInv
<1> QED BY <1>1, <1>2, <1>3, PTL DEF MessagesSpec

\* Their number: the size of a bag is a sum over the messages it has copies of.
Sized(B) == IsABag(B) /\ DOMAIN B \subseteq Message /\ IsFiniteSet(DOMAIN B)

LEMMA SizeIsSum ==
    ASSUME NEW B
    PROVE  BagCardinality(B) = SumOn(B, DOMAIN B)
BY DEF BagCardinality, SumOn, FoldFunctionOnSet, MapThenFoldSet

LEMMA SumTakesOut ==
    ASSUME NEW S, IsFiniteSet(S), NEW v, NEW x \in S, \A y \in S : v[y] \in Nat
    PROVE  SumOn(v, S) = v[x] + SumOn(v, S \ {x})
<1>1. \A y \in S \ {x} : v[y] = v[y]
    OBVIOUS
<1> QED BY <1>1, SumOnLess

LEMMA SizeOfUnion ==
    ASSUME NEW A, NEW B, Sized(A), Sized(B)
    PROVE  /\ Sized(A (+) B)
           /\ BagCardinality(A) \in Nat /\ BagCardinality(B) \in Nat
           /\ BagCardinality(A (+) B) = BagCardinality(A) + BagCardinality(B)
<1> DEFINE C == A (+) B
           D == DOMAIN A
           E == DOMAIN B
           T == {k \in Nat : \A s \in SUBSET (D \cup E) :
                   Cardinality(s) = k => SumOn(C, s) = SumOn(A, s \cap D) + SumOn(B, s \cap E)}
<1>1. /\ IsFiniteSet(D) /\ IsFiniteSet(E) /\ IsFiniteSet(D \cup E)
      /\ \A s \in SUBSET (D \cup E) :
             /\ IsFiniteSet(s) /\ Cardinality(s) \in Nat
             /\ IsFiniteSet(s \cap D) /\ IsFiniteSet(s \cap E)
    <2>1. IsFiniteSet(D) /\ IsFiniteSet(E) /\ IsFiniteSet(D \cup E)
        BY FS_Union DEF Sized
    <2> HIDE DEF D, E
    <2> QED BY <2>1, FS_Subset, FS_CardinalityType
<1>2. /\ \A e \in D : A[e] \in Nat
      /\ \A e \in E : B[e] \in Nat
    BY DEF Sized, IsABag
<1>3. /\ DOMAIN C = D \cup E
      /\ \A e \in D \cup E : C[e] = (IF e \in D THEN A[e] ELSE 0) + (IF e \in E THEN B[e] ELSE 0)
    BY DEF (+)
<1>4. Sized(C)
    <2>1. IsABag(C)
        BY BagUnionIsBag DEF Sized
    <2> QED BY <1>1, <1>3, <2>1 DEF Sized
<1> HIDE DEF C, D, E
<1>5. \A s \in SUBSET (D \cup E) :
          /\ SumOn(C, s) \in Nat /\ SumOn(A, s \cap D) \in Nat /\ SumOn(B, s \cap E) \in Nat
    <2> TAKE s \in SUBSET (D \cup E)
    <2>1. \A e \in s : C[e] \in Nat
        BY <1>2, <1>3
    <2> QED BY <1>1, <1>2, <2>1, SumOnType
<1>6. 0 \in T
    <2>1. ASSUME NEW s \in SUBSET (D \cup E), Cardinality(s) = 0
          PROVE  SumOn(C, s) = SumOn(A, s \cap D) + SumOn(B, s \cap E)
        <3>1. s = {} /\ s \cap D = {} /\ s \cap E = {}
            BY <1>1, <2>1, FS_EmptySet
        <3>2. SumOn(C, {}) = 0 /\ SumOn(A, {}) = 0 /\ SumOn(B, {}) = 0
            BY SumOnEmpty
        <3> QED BY <3>1, <3>2
    <2> QED BY <2>1
<1>7. ASSUME NEW k \in T \cap Nat PROVE k + 1 \in T
    <2>1. ASSUME NEW s \in SUBSET (D \cup E), Cardinality(s) = k + 1
          PROVE  SumOn(C, s) = SumOn(A, s \cap D) + SumOn(B, s \cap E)
        <3>0. k \in Nat
            OBVIOUS
        <3>1. s # {}
            BY <2>1, <3>0, FS_EmptySet
        <3>2. PICK x \in s : TRUE
            BY <3>1
        <3> DEFINE r == s \ {x}
        <3>3. r \in SUBSET (D \cup E) /\ Cardinality(r) = k
            BY <1>1, <2>1, <3>0, OneLess
        <3>4. SumOn(C, r) = SumOn(A, r \cap D) + SumOn(B, r \cap E)
            <4> HIDE DEF r
            <4> QED BY <3>3
        <3>5. SumOn(C, s) = C[x] + SumOn(C, r)
            <4>1. \A e \in s : C[e] \in Nat
                BY <1>2, <1>3
            <4>2. IsFiniteSet(s) /\ x \in s
                BY <1>1, <2>1
            <4> QED BY <4>1, <4>2, SumTakesOut
        <3>6. SumOn(A, s \cap D) = (IF x \in D THEN A[x] ELSE 0) + SumOn(A, r \cap D)
            <4>1. CASE x \in D
                <5>1. (s \cap D) \ {x} = r \cap D /\ x \in s \cap D
                    BY <4>1
                <5>2. IsFiniteSet(s \cap D) /\ \A y \in s \cap D : A[y] \in Nat
                    BY <1>1, <1>2, <2>1
                <5>3. SumOn(A, s \cap D) = A[x] + SumOn(A, (s \cap D) \ {x})
                    BY <5>1, <5>2, SumTakesOut
                <5> QED BY <4>1, <5>1, <5>3
            <4>2. CASE x \notin D
                <5>1. s \cap D = r \cap D
                    BY <4>2
                <5> HIDE DEF r
                <5>2. SumOn(A, r \cap D) \in Nat
                    BY <1>5, <3>3
                <5> QED BY <4>2, <5>1, <5>2
            <4> QED BY <4>1, <4>2
        <3>7. SumOn(B, s \cap E) = (IF x \in E THEN B[x] ELSE 0) + SumOn(B, r \cap E)
            <4>1. CASE x \in E
                <5>1. (s \cap E) \ {x} = r \cap E /\ x \in s \cap E
                    BY <4>1
                <5>2. IsFiniteSet(s \cap E) /\ \A y \in s \cap E : B[y] \in Nat
                    BY <1>1, <1>2, <2>1
                <5>3. SumOn(B, s \cap E) = B[x] + SumOn(B, (s \cap E) \ {x})
                    BY <5>1, <5>2, SumTakesOut
                <5> QED BY <4>1, <5>1, <5>3
            <4>2. CASE x \notin E
                <5>1. s \cap E = r \cap E
                    BY <4>2
                <5> HIDE DEF r
                <5>2. SumOn(B, r \cap E) \in Nat
                    BY <1>5, <3>3
                <5> QED BY <4>2, <5>1, <5>2
            <4> QED BY <4>1, <4>2
        <3> HIDE DEF r
        <3>8. x \in D \cup E
            BY <2>1
        <3> QED BY <1>2, <1>3, <1>5, <3>3, <3>4, <3>5, <3>6, <3>7, <3>8
    <2> QED BY <2>1
<1> HIDE DEF T
<1>8. Nat \subseteq T
    BY <1>6, <1>7, NumbersFromZero
<1>9. SumOn(C, D \cup E) = SumOn(A, D) + SumOn(B, E)
    <2>1. (D \cup E) \cap D = D /\ (D \cup E) \cap E = E
        OBVIOUS
    <2>2. SumOn(C, D \cup E) = SumOn(A, (D \cup E) \cap D) + SumOn(B, (D \cup E) \cap E)
        BY <1>1, <1>8 DEF T
    <2> QED BY <2>1, <2>2
<1>10. SumOn(A, D) \in Nat /\ SumOn(B, E) \in Nat
    BY <1>1, <1>2, SumOnType
<1> QED BY <1>3, <1>4, <1>9, <1>10, SizeIsSum DEF C, D, E

LEMMA SizedIsBagOf ==
    ASSUME NEW B, Sized(B), BagCardinality(B) <= MaxMessages
    PROVE  B \in BagOf(Message)
<1>1. IsFiniteSet(DOMAIN B) /\ \A e \in DOMAIN B : B[e] \in Nat /\ B[e] > 0
    BY DEF Sized, IsABag
<1>2. SumOn(B, DOMAIN B) <= MaxMessages /\ MaxMessages \in Nat
    BY SizeIsSum, Journal
<1>3. ASSUME NEW x \in DOMAIN B PROVE B[x] \in 1..MaxMessages
    <2>1. SumOn(B, DOMAIN B) = B[x] + SumOn(B, DOMAIN B \ {x})
        BY <1>1, SumOnLess
    <2>2. SumOn(B, DOMAIN B \ {x}) \in Nat
        BY <1>1, FS_Subset, SumOnType
    <2> QED BY <1>1, <1>2, <2>1, <2>2
<1>4. B \in [DOMAIN B -> 1..MaxMessages] /\ DOMAIN B \in SUBSET Message
    <2>1. B = [e \in DOMAIN B |-> B[e]]
        BY DEF Sized, IsABag
    <2> QED BY <1>3, <2>1 DEF Sized
<1> QED BY <1>4 DEF BagOf

LEMMA FewMessages ==
    /\ Sized(EmptyBag) /\ BagCardinality(EmptyBag) = 0
    /\ \A m \in Message : Sized(SetToBag({m})) /\ BagCardinality(SetToBag({m})) = 1
<1>1. Sized(EmptyBag) /\ DOMAIN EmptyBag = {}
    BY FS_EmptySet DEF Sized, EmptyBag, SetToBag, IsABag
<1>2. BagCardinality(EmptyBag) = 0
    BY <1>1, SizeIsSum, SumOnEmpty
<1>3. ASSUME NEW m \in Message
      PROVE  Sized(SetToBag({m})) /\ BagCardinality(SetToBag({m})) = 1
    <2> DEFINE B == SetToBag({m})
    <2>1. DOMAIN B = {m} /\ B[m] = 1 /\ IsABag(B)
        BY DEF SetToBag, IsABag
    <2> HIDE DEF B
    <2>2. IsFiniteSet({m}) /\ {m} \ {m} = {}
        BY FS_Singleton
    <2>3. SumOn(B, {m}) = B[m] + SumOn(B, {m} \ {m})
        BY <2>1, <2>2, SumOnLess
    <2>4. SumOn(B, {m}) = 1
        BY <2>1, <2>2, <2>3, SumOnEmpty
    <2> QED BY <2>1, <2>2, <2>4, SizeIsSum DEF Sized, B
<1> QED BY <1>1, <1>2, <1>3

\* The bound of AddMessagePressed is on what the context holds.
MessagesTypeInv ==
    /\ Sized(store) /\ Sized(inserted) /\ Sized(messageList)
    /\ BagCardinality(store) + BagCardinality(inserted) <= MaxMessages
    /\ BagCardinality(messageList) <= MaxMessages
    /\ ListIsContext
    /\ loaded \in BOOLEAN /\ running \in BOOLEAN /\ (loaded => running)
    /\ newMessage \in Message \cup {NoText}

LEMMA MessagesTypes == ASSUME MessagesTypeInv PROVE MessagesTypeOK
<1>1. BagCardinality(store) \in Nat /\ BagCardinality(inserted) \in Nat
    BY SizeOfUnion DEF MessagesTypeInv
<1>2. MaxMessages \in Nat
    BY Journal
<1>3. BagCardinality(store) <= MaxMessages /\ BagCardinality(inserted) <= MaxMessages
    BY <1>1, <1>2 DEF MessagesTypeInv
<1>4. store \in BagOf(Message) /\ inserted \in BagOf(Message) /\ messageList \in BagOf(Message)
    BY <1>3, SizedIsBagOf DEF MessagesTypeInv
<1> QED BY <1>4 DEF MessagesTypeOK, MessagesTypeInv

LEMMA MessagesTypesStart == ASSUME MessagesInit PROVE MessagesTypeInv
<1>1. store = EmptyBag /\ inserted = EmptyBag /\ messageList = EmptyBag
    BY DEF MessagesInit
<1>2. loaded = FALSE /\ running = TRUE /\ newMessage = NoText
    BY DEF MessagesInit
<1>3. MaxMessages \in Nat /\ 0 + 0 <= MaxMessages /\ 0 <= MaxMessages
    BY Journal
<1>4. ListIsContext
    BY <1>2 DEF ListIsContext
<1> QED BY <1>1, <1>2, <1>3, <1>4, FewMessages DEF MessagesTypeInv

LEMMA ContextSize ==
    ASSUME MessagesTypeInv
    PROVE  /\ Sized(store (+) inserted)
           /\ BagCardinality(store (+) inserted) = BagCardinality(store) + BagCardinality(inserted)
           /\ BagCardinality(store) \in Nat /\ BagCardinality(inserted) \in Nat
           /\ MaxMessages \in Nat
BY SizeOfUnion, Journal DEF MessagesTypeInv

LEMMA AddMessageTypes == ASSUME MessagesTypeInv, AddMessagePressed PROVE MessagesTypeInv'
<1> DEFINE new == SetToBag({newMessage})
           more == inserted (+) new
<1>1. /\ running /\ loaded /\ UNCHANGED <<loaded, running>>
      /\ newMessage \in Message /\ newMessage' = NoText
      /\ messageList' = messageList (+) new /\ SaveContext(more)
      /\ BagCardinality(store (+) inserted) < MaxMessages
    BY DEF AddMessagePressed, HasText, MessagesTypeInv
<1>2. Sized(new) /\ BagCardinality(new) = 1
    BY <1>1, FewMessages
<1> HIDE DEF new
<1>3. Sized(more) /\ BagCardinality(more) = BagCardinality(inserted) + 1
    BY <1>2, SizeOfUnion DEF MessagesTypeInv
<1> HIDE DEF more
<1>4. /\ Sized(store (+) more)
      /\ BagCardinality(store (+) more) = BagCardinality(store) + (BagCardinality(inserted) + 1)
    BY <1>3, SizeOfUnion DEF MessagesTypeInv
<1>5. BagCardinality(store) + (BagCardinality(inserted) + 1) <= MaxMessages
    BY <1>1, ContextSize
<1>6. messageList' = store (+) more
    <2>1. messageList = store (+) inserted
        BY <1>1 DEF MessagesTypeInv, ListIsContext
    <2> QED BY <1>1, <1>2, <2>1, BagUnionAssociates DEF MessagesTypeInv, Sized, more
<1>7. CASE store' = store (+) more /\ inserted' = EmptyBag
    <2>1. store' (+) EmptyBag = store'
        BY <1>4, <1>7, EmptyBagUnion DEF Sized
    <2>2. BagCardinality(store') + BagCardinality(inserted') <= MaxMessages
        BY <1>4, <1>5, <1>7, FewMessages, ContextSize
    <2>3. ListIsContext'
        BY <1>6, <1>7, <2>1 DEF ListIsContext
    <2> QED
        BY <1>1, <1>4, <1>5, <1>6, <1>7, <2>2, <2>3, FewMessages DEF MessagesTypeInv
<1>8. CASE inserted' = more /\ UNCHANGED store
    <2>1. BagCardinality(store') + BagCardinality(inserted') <= MaxMessages
        BY <1>3, <1>5, <1>8
    <2>2. ListIsContext'
        BY <1>6, <1>8 DEF ListIsContext
    <2> QED BY <1>1, <1>3, <1>4, <1>5, <1>6, <1>8, <2>1, <2>2 DEF MessagesTypeInv
<1> QED BY <1>1, <1>7, <1>8 DEF SaveContext

LEMMA FreshTypes ==
    ASSUME MessagesTypeInv, FreshProcess, Sized(store'), BagCardinality(store') <= MaxMessages
    PROVE  MessagesTypeInv'
<1>1. /\ inserted' = EmptyBag /\ messageList' = EmptyBag /\ newMessage' = NoText
      /\ loaded' = FALSE /\ running' = TRUE
    BY DEF FreshProcess
<1>2. MaxMessages \in Nat /\ BagCardinality(store') \in Nat
    BY SizeOfUnion, Journal
<1>3. ListIsContext'
    BY <1>1 DEF ListIsContext
<1>4. BagCardinality(store') + BagCardinality(inserted') <= MaxMessages
    BY <1>1, <1>2, FewMessages
<1>5. BagCardinality(messageList') <= MaxMessages
    BY <1>1, <1>2, FewMessages
<1>6. Sized(inserted') /\ Sized(messageList')
    BY <1>1, FewMessages
<1> QED BY <1>1, <1>3, <1>4, <1>5, <1>6 DEF MessagesTypeInv

LEMMA MessagesTypesStep ==
    ASSUME MessagesTypeInv, [MessagesNext]_messagesVars
    PROVE  MessagesTypeInv'
<1>1. CASE ViewDidLoad
    <2>1. running /\ ~loaded /\ UNCHANGED <<store, inserted, newMessage>>
        BY <1>1 DEF ViewDidLoad
    <2>2. CASE messageList' = store (+) inserted /\ loaded' = TRUE /\ UNCHANGED running
        <3>1. Sized(messageList') /\ BagCardinality(messageList') <= MaxMessages
            BY <2>2, ContextSize DEF MessagesTypeInv
        <3>2. ListIsContext'
            BY <2>1, <2>2 DEF ListIsContext
        <3> QED BY <2>1, <2>2, <3>1, <3>2 DEF MessagesTypeInv
    <2>3. CASE running' = FALSE /\ UNCHANGED <<messageList, loaded>>
        <3>1. ListIsContext'
            BY <2>3 DEF ListIsContext
        <3> QED BY <2>1, <2>3, <3>1 DEF MessagesTypeInv
    <2> QED BY <1>1, <2>2, <2>3 DEF ViewDidLoad, Fetched
<1>2. CASE Unload
    <2>1. /\ running /\ loaded' = FALSE /\ messageList' = EmptyBag /\ newMessage' = NoText
          /\ UNCHANGED <<store, inserted, running>>
        BY <1>2 DEF Unload
    <2>2. ListIsContext'
        BY <2>1 DEF ListIsContext
    <2>3. Sized(messageList') /\ BagCardinality(messageList') <= MaxMessages
        BY <2>1, FewMessages, Journal
    <2> QED BY <2>1, <2>2, <2>3 DEF MessagesTypeInv
<1>3. CASE WillTerminate
    <2>1. store' \in {store, store (+) inserted} /\ FreshProcess
        BY <1>3 DEF WillTerminate
    <2>2. Sized(store') /\ BagCardinality(store') <= MaxMessages
        BY <2>1, ContextSize DEF MessagesTypeInv
    <2> QED BY <2>1, <2>2, FreshTypes
<1>4. CASE Killed
    <2>1. UNCHANGED store /\ FreshProcess
        BY <1>4 DEF Killed
    <2>2. Sized(store') /\ BagCardinality(store') <= MaxMessages
        BY <2>1, ContextSize DEF MessagesTypeInv
    <2> QED BY <2>1, <2>2, FreshTypes
<1>5. ASSUME NEW line \in Message \cup {NoText}, TypeMessage(line)
      PROVE  MessagesTypeInv'
    <2>1. newMessage' = line /\ UNCHANGED <<store, inserted, loaded, messageList, running>>
        BY <1>5 DEF TypeMessage
    <2>2. ListIsContext'
        BY <2>1 DEF MessagesTypeInv, ListIsContext
    <2> QED BY <2>1, <2>2 DEF MessagesTypeInv
<1>6. CASE UNCHANGED messagesVars
    BY <1>6 DEF messagesVars, MessagesTypeInv, ListIsContext
<1> QED BY <1>1, <1>2, <1>3, <1>4, <1>5, <1>6, AddMessageTypes DEF MessagesNext

-----------------------------------------------------------------------------
(***************************************************************************)
(* Search.  Between two reloads only the begin and the end of editing make *)
(* the rows and the table disagree, and they clear settled when they do.   *)
(***************************************************************************)
SearchInv == SearchTypeOK /\ TableAgrees /\ TrapsOnlyUnsettled

\* A filter keeps rows to rows.
LEMMA FilteredType ==
    ASSUME NEW rows \in Seq(Key), NEW keys
    PROVE  Filtered(rows, keys) \in Seq(Key)
<1> DEFINE hits == {i \in 1..Len(rows) : rows[i] \in keys}
           At(n) == rows[CHOOSE i \in hits : Cardinality({h \in hits : h <= i}) = n]
<1>1. Len(rows) \in Nat /\ hits \in SUBSET (0..Len(rows))
    OBVIOUS
<1>2. Cardinality(hits) \in Nat
    <2>1. IsFiniteSet(0..Len(rows))
        BY <1>1, FS_Interval
    <2> HIDE DEF hits
    <2> QED BY <1>1, <2>1, FS_Subset, FS_CardinalityType
<1>3. ASSUME NEW n \in 1..Cardinality(hits) PROVE At(n) \in Key
    <2>1. \E i \in hits : Cardinality({h \in hits : h <= i}) = n
        <3> HIDE DEF hits
        <3> QED BY <1>1, RankedMember
    <2>2. (CHOOSE i \in hits : Cardinality({h \in hits : h <= i}) = n) \in hits
        <3> HIDE DEF hits
        <3> QED BY <2>1
    <2> QED BY <2>2
<1>4. Filtered(rows, keys) = [n \in 1..Cardinality(hits) |-> At(n)]
    BY DEF Filtered
<1> HIDE DEF hits, At
<1> QED BY <1>2, <1>3, <1>4

LEMMA RowsType == SearchTypeOK => Rows \in Seq(Key)
BY DEF SearchTypeOK, Rows

LEMMA ValueEventKeepsTable ==
    ASSUME SearchInv, ValueEvent, ~outOfRange
    PROVE  SearchInv'
<1>1. PICK S \in SUBSET Key \ {{}} : productsArray' \in SetToSeqs(S)
    BY DEF ValueEvent
<1>2. Cardinality(S) \in Nat
    BY Queries, FS_Subset, FS_CardinalityType
<1>3. productsArray' \in Seq(Key) /\ IsInjective(productsArray')
    BY <1>1, <1>2 DEF SetToSeqs, IsInjective
<1>4. UNCHANGED <<filteredSearch, searchActive, selectedProduct, outOfRange>>
      /\ shown' = Rows' /\ settled' = TRUE
    BY DEF ValueEvent, ReloadData
<1>5. Rows' \in Seq(Key)
    BY <1>3, <1>4 DEF Rows, SearchInv, SearchTypeOK
<1> QED
    BY <1>3, <1>4, <1>5 DEF SearchInv, SearchTypeOK, TableAgrees, TrapsOnlyUnsettled

LEMMA TextDidChangeKeepsTable ==
    ASSUME SearchInv, ~outOfRange, NEW query \in Query, TextDidChange(query)
    PROVE  SearchInv'
<1>1. filteredSearch' \in Seq(Key)
    BY FilteredType DEF TextDidChange, SearchInv, SearchTypeOK
<1>2. searchActive' \in BOOLEAN /\ UNCHANGED <<productsArray, selectedProduct, outOfRange>>
      /\ shown' = Rows' /\ settled' = TRUE
    BY DEF TextDidChange, ReloadData
<1>3. Rows' \in Seq(Key)
    BY <1>1, <1>2 DEF Rows, SearchInv, SearchTypeOK
<1> QED
    BY <1>1, <1>2, <1>3 DEF SearchInv, SearchTypeOK, TableAgrees, TrapsOnlyUnsettled

LEMMA SetActiveKeepsTable ==
    ASSUME SearchInv, ~outOfRange, NEW value \in BOOLEAN, SetActive(value)
    PROVE  SearchInv'
<1>1. searchActive' = value
      /\ UNCHANGED <<productsArray, filteredSearch, shown, selectedProduct, outOfRange>>
    BY DEF SetActive
<1>2. settled' \in BOOLEAN /\ (settled' => settled /\ searchActive = value)
    BY Zenon DEF SetActive
<1>3. SearchTypeOK'
    BY <1>1, <1>2 DEF SearchInv, SearchTypeOK
<1>4. TableAgrees'
    BY <1>1, <1>2 DEF SearchInv, TableAgrees, Rows
<1> QED BY <1>1, <1>3, <1>4 DEF SearchInv, TrapsOnlyUnsettled

\* A row that is drawn again or tapped while the table is settled is within
\* the rows, and drawing it changes nothing.
LEMMA RowTouchedKeepsTable ==
    ASSUME SearchInv, ~outOfRange, NEW i \in 1..Len(shown), CellForRow(i) \/ SelectRow(i)
    PROVE  SearchInv'
<1>1. Rows \in Seq(Key) /\ shown \in Seq(Key)
    BY RowsType DEF SearchInv, SearchTypeOK
<1>2. settled => shown = Rows /\ i <= Len(Rows)
    BY DEF SearchInv, TableAgrees
<1>3. UNCHANGED <<productsArray, filteredSearch, searchActive, settled>>
    BY DEF CellForRow, SelectRow
<1>4. Rows' = Rows
    BY <1>3 DEF Rows
<1>5. CASE CellForRow(i)
    <2>1. CASE i <= Len(Rows) /\ shown' = [shown EXCEPT ![i] = Rows[i]] /\ UNCHANGED outOfRange
        <3>1. shown' \in Seq(Key) /\ (shown = Rows => shown' = Rows)
            BY <1>1, <2>1
        <3>2. UNCHANGED selectedProduct
            BY <1>5 DEF CellForRow
        <3> QED
            BY <1>2, <1>3, <1>4, <2>1, <3>1, <3>2
            DEF SearchInv, SearchTypeOK, TableAgrees, TrapsOnlyUnsettled
    <2>2. CASE i > Len(Rows) /\ outOfRange' = TRUE /\ UNCHANGED shown
        <3>1. ~settled
            BY <1>1, <1>2, <2>2
        <3>2. UNCHANGED selectedProduct
            BY <1>5 DEF CellForRow
        <3> QED
            BY <1>3, <2>2, <3>1, <3>2
            DEF SearchInv, SearchTypeOK, TableAgrees, TrapsOnlyUnsettled
    <2> QED BY <1>5, <2>1, <2>2 DEF CellForRow
<1>6. CASE SelectRow(i)
    <2>1. shown' = shown
        BY <1>6 DEF SelectRow
    <2>2. CASE i <= Len(Rows) /\ selectedProduct' = Rows[i] /\ UNCHANGED outOfRange
        <3>1. selectedProduct' \in Key
            BY <1>1, <2>2
        <3> QED
            BY <1>3, <1>4, <2>1, <2>2, <3>1
            DEF SearchInv, SearchTypeOK, TableAgrees, TrapsOnlyUnsettled
    <2>3. CASE i > Len(Rows) /\ outOfRange' = TRUE /\ UNCHANGED selectedProduct
        <3>1. ~settled
            BY <1>1, <1>2, <2>3
        <3> QED
            BY <1>3, <2>1, <2>3, <3>1
            DEF SearchInv, SearchTypeOK, TableAgrees, TrapsOnlyUnsettled
    <2> QED BY <1>6, <2>2, <2>3 DEF SelectRow
<1> QED BY <1>5, <1>6

LEMMA SearchStart == ASSUME SearchInit PROVE SearchInv
<1>1. settled \in BOOLEAN /\ searchActive \in BOOLEAN /\ outOfRange \in BOOLEAN /\ ~outOfRange
    BY Zenon DEF SearchInit
<1>2. Rows = <<>>
    BY DEF SearchInit, Rows
<1> QED
    BY <1>1, <1>2
    DEF SearchInit, SearchInv, SearchTypeOK, TableAgrees, TrapsOnlyUnsettled, IsInjective

LEMMA SearchStep == ASSUME SearchInv, [SearchNext]_searchVars PROVE SearchInv'
<1>1. CASE UNCHANGED searchVars
    <2>1. Rows' = Rows
        BY <1>1 DEF searchVars, Rows
    <2> QED
        BY <1>1, <2>1, Zenon
        DEF searchVars, SearchInv, SearchTypeOK, TableAgrees, TrapsOnlyUnsettled
<1>2. CASE ~outOfRange /\ BeginEditing
    BY <1>2, SetActiveKeepsTable, Zenon DEF BeginEditing
<1>3. CASE ~outOfRange /\ EndEditing
    BY <1>3, SetActiveKeepsTable, Zenon DEF EndEditing
<1> QED
    BY <1>1, <1>2, <1>3, ValueEventKeepsTable, TextDidChangeKeepsTable,
       RowTouchedKeepsTable
    DEF SearchNext

LEMMA SearchAgrees == SearchSpec => []SearchInv
<1>1. SearchInit => SearchInv
    BY SearchStart
<1>2. SearchInv /\ [SearchNext]_searchVars => SearchInv'
    BY SearchStep
<1> QED BY <1>1, <1>2, PTL DEF SearchSpec

\* The row that is tapped is the product the controller looks up, for every
\* list of products and every way the search texts match, unless editing began
\* or ended since the last reloadData.
THEOREM RowsAgree == SearchSpec => []TableAgrees
<1>1. SearchInv => TableAgrees
    BY DEF SearchInv
<1> QED BY <1>1, SearchAgrees, PTL

\* ... and only then can cellForRowAt or prepare index out of range.
THEOREM TrapsUnsettled == SearchSpec => []TrapsOnlyUnsettled
<1>1. SearchInv => TrapsOnlyUnsettled
    BY DEF SearchInv
<1> QED BY <1>1, SearchAgrees, PTL

LEMMA LoginTypes == ASSUME LoginInv PROVE SessionTypeOK
<1>1. pending \in Seq(Credentials)
    <2>1. <<>> \in Seq(Credentials) /\ (fields # Blank => <<fields>> \in Seq(Credentials))
        BY DEF LoginInv, Form
    <2> QED BY <2>1 DEF LoginInv, OneSignIn
<1>2. answers \in Seq(BOOLEAN)
    <2>1. \A b \in BOOLEAN : <<b>> \in Seq(BOOLEAN)
        OBVIOUS
    <2>2. <<>> \in Seq(BOOLEAN) /\ <<TRUE>> \in Seq(BOOLEAN) /\ <<FALSE>> \in Seq(BOOLEAN)
        BY <2>1
    <2>3. answers \in {<<>>, <<TRUE>>, <<FALSE>>}
        BY DEF LoginInv, OneSignIn
    <2> QED BY <2>2, <2>3
<1>3. tabBars \in 0..MaxTabBars
    BY Accounts DEF LoginInv
<1> QED BY <1>1, <1>2, <1>3 DEF LoginInv, SessionTypeOK

\* On the login screen of a user who waits, in the messages tab and in the product
\* table, all variables keep their types: the messages of store, context and list stay
\* within their bound, and no product has two rows (loginPressed, CoreDataHandler,
\* viewDidLoad of SampleTableViewController).
THEOREM PanelTypes == Spec => []PanelTypeOK
<1> DEFINE I == LoginInv /\ MessagesTypeInv /\ SearchInv
<1>1. Init => I
    BY LoginInvInit, MessagesTypesStart, SearchStart DEF Init
<1>2. I /\ [Next]_vars => I'
    <2> SUFFICES ASSUME I, [Next]_vars PROVE I'
        OBVIOUS
    <2>1. [PatientSessionNext]_sessionVars
        BY DEF Next, vars
    <2>2. [MessagesNext]_messagesVars
        BY DEF Next, vars
    <2>3. [SearchNext]_searchVars
        BY DEF Next, vars
    <2> QED BY <2>1, <2>2, <2>3, LoginStep, MessagesTypesStep, SearchStep
<1>3. I => PanelTypeOK
    BY LoginTypes, MessagesTypes DEF PanelTypeOK, SearchInv
<1> QED BY <1>1, <1>2, <1>3, PTL DEF Spec

-----------------------------------------------------------------------------
(***************************************************************************)
(* Price field.  Every price has a text without leading zeros to be filled *)
(* in with, and whatever is typed, pasted, deleted or filled in, the field *)
(* holds decimal digits only.                                              *)
(***************************************************************************)
\* What Int(String) goes through, one digit after the other.
LEMMA NumberFolds ==
    ASSUME NEW D \in SUBSET Nat, NEW s \in Seq(D)
    PROVE  \E f : /\ IsFold(f, Len(s), Nat, 0,
                            [i \in 1..Len(s) |-> [m \in Nat |-> 10 * m + s[i]]])
                 /\ Number(s) = f[Len(s)]
<1> DEFINE n == Len(s)
           step == [i \in 1..n |-> [m \in Nat |-> 10 * m + s[i]]]
           Iter(f) == f = [S \in SUBSET (1..n) |->
                             IF S = {} THEN 0 ELSE LET x == Max(S) IN 10 * f[S \ {x}] + s[x]]
           g == CHOOSE f : Iter(f)
<1>1. n \in Nat /\ DOMAIN s = 1..n /\ \A i \in 1..n : s[i] \in Nat
    <2>1. \A i \in 1..Len(s) : s[i] \in D
        OBVIOUS
    <2>2. \A x \in D : x \in Nat
        OBVIOUS
    <2>3. Len(s) \in Nat /\ DOMAIN s = 1..Len(s)
        OBVIOUS
    <2> QED BY <2>1, <2>2, <2>3
<1>2. step \in [1..n -> [Nat -> Nat]]
    BY <1>1
<1>3. PICK f : IsLeftFold(f, n, Nat, 0, step)
    <2> HIDE DEF n, step
    <2> QED BY <1>1, <1>2, LeftFoldExists
<1>4. Iter(f)
    <2>1. ASSUME NEW S \in SUBSET (1..n), S # {}
          PROVE  f[S] = 10 * f[S \ {Max(S)}] + s[Max(S)]
        <3>1. Max(S) \in 1..n /\ f[S \ {Max(S)}] \in Nat
            BY <1>3, <2>1 DEF IsLeftFold
        <3>2. f[S] = step[Max(S)][f[S \ {Max(S)}]]
            BY <1>3, <2>1 DEF IsLeftFold
        <3> QED BY <3>1, <3>2
    <2>2. f[{}] = 0 /\ f = [S \in SUBSET (1..n) |-> f[S]]
        <3> HIDE DEF n, step
        <3> QED BY <1>3 DEF IsLeftFold
    <2> QED BY <2>1, <2>2
<1>5. Iter(g)
    BY <1>4
<1>6. Number(s) = g[1..n]
    BY <1>1 DEF Number, FoldLeft, MapThenFoldSet
<1>7. \A S \in SUBSET (1..n) :
          g[S] = IF S = {} THEN 0 ELSE 10 * g[S \ {Max(S)}] + s[Max(S)]
    <2> HIDE DEF g, n
    <2>1. g = [S \in SUBSET (1..n) |->
                 IF S = {} THEN 0 ELSE LET x == Max(S) IN 10 * g[S \ {x}] + s[x]]
        BY <1>5
    <2> HIDE DEF Iter
    <2> QED BY <2>1
<1> HIDE DEF g, Iter
<1>8. FollowsLeftFold(g, n, Nat, 0, step)
    <2>1. ASSUME NEW S \in SUBSET (1..n), S # {}, g[S \ {Max(S)}] \in Nat
          PROVE  g[S] = step[Max(S)][g[S \ {Max(S)}]]
        <3>1. Max(S) \in 1..n
            BY <1>3, <2>1 DEF IsLeftFold
        <3> QED BY <1>7, <2>1, <3>1
    <2>2. g[{}] = 0
        BY <1>7
    <2> HIDE DEF step
    <2> QED BY <2>1, <2>2 DEF FollowsLeftFold
<1>9. \E h : IsFold(h, n, Nat, 0, step) /\ h[n] = Folded(g, n)
    <2> HIDE DEF n, step
    <2>1. 0 \in Nat
        OBVIOUS
    <2> QED BY <1>1, <1>2, <1>8, <2>1, LeftFoldIsFold, Zenon
<1> QED BY <1>6, <1>9 DEF Folded

LEMMA TextIsSeq ==
    ASSUME NEW length \in Nat
    PROVE  \A s : s \in Texts(length) <=> s \in Seq(Char) /\ Len(s) <= length
<1>1. ASSUME NEW s \in Texts(length) PROVE s \in Seq(Char) /\ Len(s) <= length
    <2>1. PICK m \in 0..length : s \in [1..m -> Char]
        BY DEF Texts
    <2> QED BY <2>1
<1>2. ASSUME NEW s \in Seq(Char), Len(s) <= length PROVE s \in Texts(length)
    <2>1. Len(s) \in 0..length /\ s \in [1..Len(s) -> Char]
        BY <1>2
    <2> QED BY <2>1 DEF Texts
<1> QED BY <1>1, <1>2

\* Int(String) does not see a leading zero.
LEMMA LeadingZero ==
    ASSUME NEW s \in Seq(Digit), s # <<>>, Head(s) = 0
    PROVE  Number(Tail(s)) = Number(s)
<1> DEFINE t == Tail(s)
           n == Len(t)
<1>0. Digit \in SUBSET Nat
    BY Field
<1>1. t \in Seq(Digit) /\ Len(s) = n + 1 /\ s[1] = 0 /\ n \in Nat /\ \A i \in 1..n : t[i] = s[i + 1]
    OBVIOUS
<1>2. PICK f : /\ IsFold(f, Len(s), Nat, 0, [i \in 1..Len(s) |-> [m \in Nat |-> 10 * m + s[i]]])
               /\ Number(s) = f[Len(s)]
    BY <1>0, NumberFolds
<1>3. PICK g : /\ IsFold(g, n, Nat, 0, [i \in 1..n |-> [m \in Nat |-> 10 * m + t[i]]])
               /\ Number(t) = g[n]
    <2> HIDE DEF t
    <2> QED BY <1>0, <1>1, NumberFolds
<1> HIDE DEF t
<1>4. f[0] = 0 /\ \A i \in 1..Len(s) : f[i - 1] \in Nat /\ f[i] = 10 * f[i - 1] + s[i]
    <2>1. ASSUME NEW i \in 1..Len(s) PROVE f[i - 1] \in Nat
        BY <1>2 DEF IsFold
    <2> QED BY <1>2, <2>1 DEF IsFold
<1>5. g[0] = 0 /\ \A i \in 1..n : g[i - 1] \in Nat /\ g[i] = 10 * g[i - 1] + t[i]
    <2>1. ASSUME NEW i \in 1..n PROVE g[i - 1] \in Nat
        <3>1. i - 1 \in 0..n
            BY <1>1
        <3> QED BY <1>3, <3>1 DEF IsFold
    <2> HIDE DEF n
    <2> QED BY <1>3, <2>1 DEF IsFold
<1> DEFINE Same == [i \in 0..n |-> {f[i + 1]}]
<1>6. g[0] \in Same[0]
    <2>1. 1 \in 1..Len(s) /\ 0 \in 0..n
        BY <1>1
    <2>2. f[1] = 0
        <3>1. f[1] = 10 * f[1 - 1] + s[1]
            BY <1>4, <2>1
        <3>2. 1 - 1 = 0
            OBVIOUS
        <3> QED BY <1>1, <1>4, <3>1, <3>2
    <2> QED BY <1>5, <2>1, <2>2
<1>7. ASSUME NEW i \in 1..n, g[i - 1] \in Same[i - 1] PROVE g[i] \in Same[i]
    <2>1. i - 1 \in 0..n /\ i \in 0..n /\ i + 1 \in 1..Len(s) /\ (i - 1) + 1 = i /\ (i + 1) - 1 = i
        BY <1>1
    <2>2. g[i - 1] = f[i]
        BY <1>7, <2>1
    <2>3. f[i + 1] = 10 * f[i] + s[i + 1]
        BY <1>4, <2>1
    <2>4. g[i] = 10 * g[i - 1] + s[i + 1]
        BY <1>1, <1>5
    <2> QED BY <2>1, <2>2, <2>3, <2>4
<1> HIDE DEF Same
<1>8. g[n] \in Same[n]
    <2>1. \A i \in 0..n : g[i] \in Same[i]
        BY <1>1, <1>6, <1>7, FoldStays
    <2> QED BY <1>1, <2>1
<1>9. g[n] = f[n + 1]
    <2>1. n \in 0..n
        BY <1>1
    <2> HIDE DEF n
    <2> QED BY <1>8, <2>1 DEF Same
<1>10. Number(t) = Number(s)
    BY <1>1, <1>2, <1>3, <1>9
<1> QED BY <1>10 DEF t

\* So every price has a shortest text, and the field is filled with it.
LEMMA FormattedText ==
    ASSUME NEW p \in Prices
    PROVE  Formatted(p) \in Texts(MaxLength) /\ ToSet(Formatted(p)) \subseteq Digit
<1> DEFINE Texted == {s \in Texts(MaxLength) : IsInt(s) /\ Number(s) = p}
           lengths == {Len(s) : s \in Texted}
<1>0. MaxLength \in Nat /\ \A s \in Texted : s \in Seq(Digit) /\ Len(s) \in Nat /\ Len(s) <= MaxLength
    <2>1. MaxLength \in Nat
        BY Field
    <2>2. ASSUME NEW s \in Texted PROVE s \in Seq(Digit) /\ Len(s) \in Nat /\ Len(s) <= MaxLength
        <3>1. s \in Seq(Char) /\ Len(s) <= MaxLength
            BY <2>1, TextIsSeq
        <3>2. \A i \in 1..Len(s) : s[i] \in Digit
            BY <3>1 DEF IsInt, ToSet
        <3> QED BY <3>1, <3>2
    <2> QED BY <2>1, <2>2
<1>1. lengths \in SUBSET Nat /\ lengths # {}
    <2>1. PICK s \in Texted : TRUE
        BY DEF Prices
    <2>2. Len(s) \in lengths
        OBVIOUS
    <2> HIDE DEF Texted
    <2> QED BY <1>0, <2>2
<1>2. PICK l \in lengths : \A m \in lengths : l <= m
    <2> HIDE DEF lengths
    <2> QED BY <1>1, LeastNumber
<1>3. PICK s \in Texted : Len(s) = l
    OBVIOUS
<1>4. ASSUME Len(s) > 1, Head(s) = 0 PROVE FALSE
    <2> DEFINE t == Tail(s)
    <2>1. s \in Seq(Digit) /\ s # <<>>
        BY <1>0, <1>4
    <2>2. t \in Seq(Digit) /\ Len(t) = Len(s) - 1 /\ t # <<>>
        <3>1. t \in Seq(Digit) /\ Len(t) = Len(s) - 1
            BY <2>1
        <3>2. Len(t) # 0
            BY <1>4, <2>1, <3>1
        <3> HIDE DEF t
        <3> QED BY <3>1, <3>2
    <2>3. Number(t) = Number(s)
        BY <1>4, <2>1, LeadingZero
    <2> HIDE DEF t
    <2>4. ToSet(t) \subseteq Digit
        BY <2>2 DEF ToSet
    <2>5. IsInt(t) /\ Number(t) = p
        BY <2>2, <2>3, <2>4 DEF IsInt
    <2>6. t \in Texts(MaxLength)
        <3>1. t \in Seq(Char)
            BY <2>2 DEF Char
        <3>2. Len(t) <= MaxLength
            BY <1>0, <2>2
        <3> QED BY <1>0, <3>1, <3>2, TextIsSeq
    <2>7. Len(t) \in lengths
        BY <2>5, <2>6
    <2> HIDE DEF lengths, Texted
    <2> QED BY <1>0, <1>2, <1>3, <2>2, <2>7
<1>5. \E string \in Texts(MaxLength) :
          /\ IsInt(string) /\ Number(string) = p
          /\ Len(string) > 1 => Head(string) # 0
    BY <1>3, <1>4
<1> QED BY <1>5 DEF Formatted, IsInt

PriceInv ==
    /\ price \in Prices
    /\ text \in Texts(MaxLength) /\ ToSet(text) \subseteq DecimalDigits
    /\ unwrappedNil \in BOOLEAN
    /\ unwrappedNil => text # <<>> /\ ~IsInt(text)

LEMMA EditedText ==
    ASSUME PriceInv, NEW i \in 0..Len(text), NEW j \in 0..Len(text), i <= j,
           NEW string \in Texts(MaxTyped), Allowed(string),
           Len(text) - (j - i) + Len(string) <= MaxLength,
           NEW edited
    PROVE  edited = SubSeq(text, 1, i) \o string \o SubSeq(text, j + 1, Len(text))
           => edited \in Texts(MaxLength) /\ ToSet(edited) \subseteq DecimalDigits
<1> DEFINE before == SubSeq(text, 1, i)
           after == SubSeq(text, j + 1, Len(text))
           D == DecimalDigits
<1>0. MaxLength \in Nat /\ MaxTyped \in Nat
    BY Field
<1>1. text \in Seq(D) /\ string \in Seq(D)
    <2>1. text \in Seq(Char) /\ string \in Seq(Char)
        BY <1>0, TextIsSeq DEF PriceInv
    <2>2. \A k \in 1..Len(text) : text[k] \in D
        BY <2>1 DEF PriceInv, ToSet
    <2>3. \A k \in 1..Len(string) : string[k] \in D
        BY <2>1 DEF Allowed, ToSet
    <2> HIDE DEF D
    <2> QED BY <2>1, <2>2, <2>3
<1> HIDE DEF D
<1>2. before \in Seq(D) /\ Len(before) = i
    BY <1>1
<1>3. after \in Seq(D) /\ Len(after) = Len(text) - j
    BY <1>1
<1>4. edited = SubSeq(text, 1, i) \o string \o SubSeq(text, j + 1, Len(text))
      => edited = (before \o string) \o after
    OBVIOUS
<1> HIDE DEF before, after
<1> SUFFICES ASSUME edited = (before \o string) \o after
             PROVE  edited \in Texts(MaxLength) /\ ToSet(edited) \subseteq DecimalDigits
    BY <1>4
<1> DEFINE whole == (before \o string) \o after
<1>5. whole \in Seq(D) /\ Len(whole) = i + Len(string) + (Len(text) - j)
    <2>1. before \o string \in Seq(D) /\ Len(before \o string) = i + Len(string)
        BY <1>1, <1>2, ConcatProperties
    <2>2. whole \in Seq(D) /\ Len(whole) = Len(before \o string) + Len(after)
        BY <1>3, <2>1, ConcatProperties
    <2> QED BY <1>3, <2>1, <2>2
<1> HIDE DEF whole
<1>6. Len(whole) <= MaxLength
    <2>1. Len(text) \in Nat /\ Len(string) \in Nat
        BY <1>1
    <2> QED BY <1>0, <1>5, <2>1
<1>7. D \subseteq Char
    BY DEF D, DecimalDigits, Char
<1>8. whole \in Seq(Char)
    BY <1>5, <1>7
<1>9. ToSet(whole) \subseteq D
    <2>1. \A k \in 1..Len(whole) : whole[k] \in D
        BY <1>5
    <2> QED BY <1>5, <2>1 DEF ToSet
<1> QED BY <1>0, <1>6, <1>8, <1>9, TextIsSeq DEF D, whole

LEMMA PriceStep ==
    ASSUME PriceInv, [PriceNext]_priceVars
    PROVE  PriceInv'
<1>1. CASE ~unwrappedNil /\ EditPrice
    <2>1. PICK i \in 0..Len(text), j \in 0..Len(text), string \in Texts(MaxTyped) :
              /\ i <= j /\ Allowed(string)
              /\ Len(text) - (j - i) + Len(string) <= MaxLength
              /\ text' = SubSeq(text, 1, i) \o string \o SubSeq(text, j + 1, Len(text))
        BY <1>1 DEF EditPrice
    <2>2. text' \in Texts(MaxLength) /\ ToSet(text') \subseteq DecimalDigits
        BY <2>1, EditedText
    <2>3. UNCHANGED <<price, unwrappedNil>>
        BY <1>1 DEF EditPrice
    <2> QED BY <1>1, <2>2, <2>3 DEF PriceInv
<1>2. CASE ~unwrappedNil /\ FillPrice
    <2>1. text' \in Texts(MaxLength) /\ ToSet(text') \subseteq Digit
        BY <1>2, FormattedText DEF FillPrice, PriceInv
    <2> QED BY <1>2, <2>1 DEF FillPrice, PriceInv, DecimalDigits
<1>3. CASE SavePrice
    <2>1. CASE IsInt(text) /\ price' = Number(text) /\ UNCHANGED <<unwrappedNil, text>>
        BY <2>1 DEF PriceInv, Prices
    <2>2. CASE ~IsInt(text) /\ unwrappedNil' = TRUE /\ UNCHANGED <<price, text>>
        BY <1>3, <2>2 DEF PriceInv, SavePrice
    <2> QED BY <1>3, <2>1, <2>2 DEF SavePrice
<1>4. CASE UNCHANGED priceVars
    BY <1>4 DEF priceVars, PriceInv
<1> QED BY <1>1, <1>2, <1>3, <1>4 DEF PriceNext

\* A saved field fails to be a price only by its size or by a digit of another
\* script: textField(_:shouldChangeCharactersIn:replacementString:) lets nothing
\* else through, in whatever order texts are typed, pasted, deleted and filled in.
THEOREM SavedTextsAreNumbers == PriceSpec => []OnlyLargeOrForeign
<1>1. PriceInit => PriceInv
    <2> SUFFICES ASSUME PriceInit PROVE PriceInv
        OBVIOUS
    <2>1. Formatted(price) \in Texts(MaxLength) /\ ToSet(Formatted(price)) \subseteq Digit
        BY FormattedText DEF PriceInit
    <2> QED BY <2>1 DEF PriceInit, PriceInv, DecimalDigits
<1>2. PriceInv /\ [PriceNext]_priceVars => PriceInv'
    BY PriceStep
<1>3. PriceInv => OnlyLargeOrForeign
    <2> SUFFICES ASSUME PriceInv, unwrappedNil, ForeignDigit \notin ToSet(text)
                 PROVE  ToSet(text) \subseteq Digit /\ Number(text) > MaxInt
        BY DEF OnlyLargeOrForeign
    <2>1. ToSet(text) \subseteq Digit
        BY DEF PriceInv, DecimalDigits
    <2>2. ~(Number(text) <= MaxInt)
        BY <2>1 DEF PriceInv, IsInt
    <2>3. MaxInt \in Int
        <3>1. Width - 1 \in Nat
            BY Field
        <3>2. 2 ^ (Width - 1) \in Int
            BY <3>1
        <3> QED BY <3>2 DEF MaxInt
    <2>4. Number(text) \in Nat
        <3>1. text \in Seq(Char) /\ Digit \in SUBSET Nat
            BY Field, TextIsSeq DEF PriceInv
        <3>2. text \in Seq(Digit)
            <4>1. \A i \in 1..Len(text) : text[i] \in Digit
                BY <2>1, <3>1 DEF ToSet
            <4> QED BY <3>1, <4>1
        <3>3. PICK f : IsFold(f, Len(text), Nat, 0,
                              [i \in 1..Len(text) |-> [m \in Nat |-> 10 * m + text[i]]])
                       /\ Number(text) = f[Len(text)]
            BY <3>1, <3>2, NumberFolds
        <3>4. Len(text) \in 0..Len(text)
            BY <3>2
        <3> QED BY <3>3, <3>4 DEF IsFold
    <2> QED BY <2>1, <2>2, <2>3, <2>4
<1> QED BY <1>1, <1>2, <1>3, PTL DEF PriceSpec
=============================================================================

------------------------------ MODULE Session -------------------------------
(***************************************************************************)
(* Logging in and out: ViewController signs in with what its two fields    *)
(* hold, and when the answer comes remembers what they hold by then and    *)
(* pushes the tab bar; UITabBarViewController signs out and pops one view  *)
(* controller.  Firebase Auth keeps its user over restarts, UserDefaults   *)
(* the credentials; the progress indicator lets taps through.              *)
(***************************************************************************)
EXTENDS Naturals, Sequences

CONSTANTS
    Credentials,    \* pairs of an email and a password, both filled in
    Blank,          \* a form with an empty field; nothing remembered
    MaxTabBars,     \* bound on tab bars on the navigation stack
    MaxSignIns      \* bound on sign-ins under way

ASSUME Accounts == /\ Blank \notin Credentials
                   /\ MaxTabBars \in Nat /\ MaxSignIns \in Nat

VARIABLES
    fields,         \* the login form
    remembered,     \* "email" and "password" in UserDefaults
    pending,        \* sign-ins the server has not answered
    answers,        \* completion blocks on the main queue: whether it accepted
    signedIn,       \* Auth has a current user
    tabBars,        \* tab bars pushed on the login screen
    alert,          \* "Login Failed" is up
    spinner,        \* SVProgressHUD is on screen
    accepted        \* what the server has ever accepted (for the properties)

sessionVars == <<fields, remembered, pending, answers, signedIn, tabBars, alert,
          spinner, accepted>>

Form == Credentials \cup {Blank}

SessionTypeOK ==
    /\ fields \in Form /\ remembered \in Form
    /\ pending \in Seq(Credentials) /\ answers \in Seq(BOOLEAN)
    /\ signedIn \in BOOLEAN /\ alert \in BOOLEAN /\ spinner \in BOOLEAN
    /\ tabBars \in 0..MaxTabBars
    /\ accepted \subseteq Credentials

\* The first start after installation; Auth may have kept a user from before.
SessionInit ==
    /\ fields = Blank /\ remembered = Blank
    /\ pending = <<>> /\ answers = <<>>
    /\ signedIn \in BOOLEAN
    /\ tabBars = 0 /\ alert = FALSE /\ spinner = FALSE
    /\ accepted = {}

-----------------------------------------------------------------------------
LoginOnTop == tabBars = 0 /\ ~alert

TypeCredentials(form) ==
    /\ LoginOnTop
    /\ fields' = form
    /\ UNCHANGED <<remembered, pending, answers, signedIn, tabBars, alert,
                   spinner, accepted>>

\* Mutant: a sign-in with an empty field.
AnyForm == TRUE

\* loginPressed's guard; without it there is only a toast.
FormComplete == fields # Blank

\* Mutant: the credentials are remembered before they are checked.
LoginPressedRemembering ==
    /\ LoginOnTop
    /\ FormComplete
    /\ Len(pending) + Len(answers) < MaxSignIns
    /\ spinner' = TRUE
    /\ remembered' = fields
    /\ pending' = Append(pending, fields)
    /\ UNCHANGED <<fields, answers, signedIn, tabBars, alert, accepted>>

\* loginPressed.
LoginPressed ==
    /\ LoginOnTop
    /\ FormComplete
    /\ Len(pending) + Len(answers) < MaxSignIns
    /\ spinner' = TRUE
    /\ pending' = Append(pending, fields)
    /\ UNCHANGED <<fields, remembered, answers, signedIn, tabBars, alert, accepted>>

\* The server answers one of the sign-ins; Auth has its user before the
\* completion block runs.
Answer(i, ok) ==
    /\ pending' = SubSeq(pending, 1, i - 1) \o SubSeq(pending, i + 1, Len(pending))
    /\ answers' = Append(answers, ok)
    /\ signedIn' = (ok \/ signedIn)
    /\ accepted' = IF ok THEN accepted \cup {pending[i]} ELSE accepted
    /\ UNCHANGED <<fields, remembered, tabBars, alert, spinner>>

\* Mutant: the progress indicator is dismissed on success only.
SignInRefusedStillSpinning ==
    /\ ~Head(answers)
    /\ alert' = (alert \/ tabBars = 0)
    /\ UNCHANGED <<remembered, tabBars, spinner>>

\* The completion of a refused sign-in: an alert, if the login screen is there
\* to present one.
SignInRefused ==
    /\ ~Head(answers)
    /\ spinner' = FALSE
    /\ alert' = (alert \/ tabBars = 0)
    /\ UNCHANGED <<remembered, tabBars>>

\* The completion of an accepted one: the fields are read now.
SignInAccepted ==
    /\ Head(answers)
    /\ tabBars < MaxTabBars
    /\ spinner' = FALSE
    /\ remembered' = fields
    /\ tabBars' = tabBars + 1
    /\ UNCHANGED alert

SignInDone ==
    /\ answers # <<>>
    /\ SignInRefused \/ SignInAccepted
    /\ answers' = Tail(answers)
    /\ UNCHANGED <<fields, pending, signedIn, accepted>>

AlertOk ==
    /\ alert
    /\ alert' = FALSE
    /\ UNCHANGED <<fields, remembered, pending, answers, signedIn, tabBars,
                   spinner, accepted>>

\* Mutant: signing out leaves the tab bar where it is.
LogoutPressedKeepingTabs ==
    /\ tabBars > 0 /\ ~alert
    /\ signedIn' = FALSE
    /\ UNCHANGED <<fields, remembered, pending, answers, tabBars, alert, spinner,
                   accepted>>

\* logoutPressed: nothing when signOut throws, else one view controller is
\* popped.
LogoutPressed ==
    /\ tabBars > 0 /\ ~alert
    /\ \/ UNCHANGED <<signedIn, tabBars>>
       \/ signedIn' = FALSE /\ tabBars' = tabBars - 1
    /\ UNCHANGED <<fields, remembered, pending, answers, alert, spinner, accepted>>

\* The process ends and starts again: viewDidLoad fills the fields with what is
\* remembered.
SessionRelaunch ==
    /\ fields' = remembered
    /\ pending' = <<>> /\ answers' = <<>>
    /\ tabBars' = 0 /\ alert' = FALSE /\ spinner' = FALSE
    /\ UNCHANGED <<remembered, signedIn, accepted>>

Tap == \/ \E form \in Form : TypeCredentials(form)
       \/ LoginPressed
       \/ AlertOk
       \/ LogoutPressed

Answered == \E i \in 1..Len(pending), ok \in BOOLEAN : Answer(i, ok)

SessionNext == Tap \/ Answered \/ SignInDone \/ SessionRelaunch

SessionSpec == SessionInit /\ [][SessionNext]_sessionVars

(***************************************************************************)
(* A user who waits for the answer before touching the screen again.  The  *)
(* server answers and the main thread runs its blocks.                     *)
(***************************************************************************)
PatientSessionNext ==
    \/ pending = <<>> /\ answers = <<>> /\ Tap
    \/ Answered \/ SignInDone \/ SessionRelaunch

PatientSessionSpec == SessionInit /\ [][PatientSessionNext]_sessionVars /\ WF_sessionVars(Answered) /\ WF_sessionVars(SignInDone)

-----------------------------------------------------------------------------
\* For a user who waits, the panel is in front of somebody who is signed in.
\* (Two logins under way push two tab bars, and one logout pops one of them.)
PanelNeedsUser == tabBars > 0 => signedIn

\* For a user who waits, what is remembered has been accepted by the server.
\* (What was typed while a sign-in was under way would be remembered instead.)
RememberedWereAccepted == remembered \in accepted \cup {Blank}

\* Every login that was pressed ends with the progress indicator gone.
LoginAnswered == spinner ~> ~spinner
=============================================================================

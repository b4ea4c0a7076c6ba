------------------------------ MODULE Messages ------------------------------
(***************************************************************************)
(* The messages tab over Core Data: CoreTableViewController's list,        *)
(* CoreDataHandler's insertion, save and fetch in the context the app      *)
(* delegate owns, and saveContext when the app is terminated.  A save that *)
(* fails leaves the message inserted in the context; the list has it by    *)
(* then.  Messages are counted, their order is not kept: the fetch asks    *)
(* for none.                                                               *)
(***************************************************************************)
EXTENDS Naturals, FiniteSets, Bags

CONSTANTS
    Message,        \* texts of messages
    NoText,         \* the empty text field
    MaxMessages     \* bound on messages, store and inserted

ASSUME Journal == NoText \notin Message /\ MaxMessages \in Nat

VARIABLES
    store,         \* the persistent store
    inserted,       \* objects of viewContext that have not been saved
    loaded,         \* the tab's view is loaded
    messageList,    \* its list
    newMessage,     \* its text field
    running         \* the process has not trapped

messagesVars == <<store, inserted, loaded, messageList, newMessage, running>>

BagOf(S) == {B \in UNION {[T -> 1..MaxMessages] : T \in SUBSET S} :
                BagCardinality(B) <= MaxMessages}

MessagesTypeOK ==
    /\ store \in BagOf(Message) /\ inserted \in BagOf(Message)
    /\ messageList \in BagOf(Message)
    /\ loaded \in BOOLEAN /\ running \in BOOLEAN
    /\ newMessage \in Message \cup {NoText}

\* A process that has just started.
FreshProcess ==
    /\ inserted' = EmptyBag
    /\ loaded' = FALSE /\ messageList' = EmptyBag
    /\ newMessage' = NoText
    /\ running' = TRUE

MessagesInit ==
    /\ store = EmptyBag /\ inserted = EmptyBag
    /\ loaded = FALSE /\ messageList = EmptyBag
    /\ newMessage = NoText
    /\ running = TRUE

-----------------------------------------------------------------------------
\* Mutant: only what has been saved.
FetchedFromStore == store

\* fetchObejct: a fetch sees the context's own insertions too.
Fetched == store (+) inserted

\* context.save(): all insertions go to the store, or none does.
SaveContext(objects) ==
    \/ store' = store (+) objects /\ inserted' = EmptyBag
    \/ inserted' = objects /\ UNCHANGED store

\* viewDidLoad, when the tab is first shown after a login; fetchObejct unwraps
\* nil when the fetch fails.
ViewDidLoad ==
    /\ running /\ ~loaded
    /\ \/ /\ messageList' = Fetched /\ loaded' = TRUE
          /\ UNCHANGED running
       \/ /\ running' = FALSE
          /\ UNCHANGED <<messageList, loaded>>
    /\ UNCHANGED <<store, inserted, newMessage>>

TypeMessage(text) ==
    /\ running /\ loaded
    /\ newMessage' = text
    /\ UNCHANGED <<store, inserted, loaded, messageList, running>>

\* Mutant: an empty message.
AnyText == TRUE

\* addMessagePressed's guard; without it there is only a toast.
HasText == newMessage # NoText

\* addMessagePressed and saveObject: the list grows, and the answer of the
\* save is not looked at.
AddMessagePressed ==
    /\ running /\ loaded
    /\ HasText
    /\ BagCardinality(store (+) inserted) < MaxMessages
    /\ messageList' = messageList (+) SetToBag({newMessage})
    /\ SaveContext(inserted (+) SetToBag({newMessage}))
    /\ newMessage' = NoText
    /\ UNCHANGED <<loaded, running>>

\* Logging out pops the tab bar and its views; the context stays.
Unload ==
    /\ running /\ loaded
    /\ loaded' = FALSE /\ messageList' = EmptyBag /\ newMessage' = NoText
    /\ UNCHANGED <<store, inserted, running>>

\* applicationWillTerminate: saveContext saves what is inserted, or fails, and
\* the process ends.
WillTerminate ==
    /\ running
    /\ store' \in {store, store (+) inserted}
    /\ FreshProcess

\* The process is killed, or has trapped.
Killed == FreshProcess /\ UNCHANGED store

MessagesNext ==
    \/ ViewDidLoad \/ AddMessagePressed \/ Unload \/ WillTerminate \/ Killed
    \/ \E text \in Message \cup {NoText} : TypeMessage(text)

MessagesSpec == MessagesInit /\ [][MessagesNext]_messagesVars

-----------------------------------------------------------------------------
\* The list shows what the context holds, saved or not, no matter which saves
\* have failed and how often the tab was loaded again; so the next save that
\* succeeds stores everything the list shows.
ListIsContext == running /\ loaded => messageList = store (+) inserted
=============================================================================

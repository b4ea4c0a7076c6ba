# Miracles Admin: a verification project

Miracles Admin is an iOS app for the people who keep the catalogue of a shop.
An admin logs in, picks a category (necklaces, rings, ...), and lists, searches,
edits, adds and deletes the products of that category, which live in a Firebase
Realtime Database that other admins edit too. The app's own code is about 1200
lines of Swift under `src/Miracles Admin/admin/`. Under `Pods/` the repository also
holds the source of the libraries it is built with. Two of them are models here as
well, because they are where concurrency, crashes and bytes are: leveldb (C++, what
FirebaseDatabase keeps its offline copy in when persistence is switched on, which
this app does not do) and nanopb (C, the encoding of Firebase's own messages).

The app is small and every line of it runs on the main thread, and yet it is
hard to get right: its screens talk to each other through two global variables
(`currentCategory`, `selectedProduct`), its completion blocks read those globals
and the fields of the form *when they run* and not when the call was made, its
list listens to the server for ever, and its users keep tapping meanwhile. leveldb
is hard for the opposite reason: writers, readers and a background thread share a
database under one mutex they keep giving up, and a power failure may come between
any two of their steps.

## The system

| Part | State it keeps | Operations |
|---|---|---|
| Product list (`SampleTableViewController`, presented by `ProductsViewController`) | `productsArray`, `searchActive`, `filteredSearch`; the globals `selectedProduct`, `currentCategory` | open and observe a category, value event, select a row, search, exit |
| Detail form (`ProductDetailViewController`) | fields, `editState`, what is hidden and enabled | draw, Edit/Cancel, type, Save and its completion, Delete, its alert and its completion |
| Add popup (`AddProductViewController`) | fields | open, type, Save and its completion, close |
| Price field (the text field delegate of both forms) | the text | filter a keystroke, fill, convert |
| Realtime Database client (external) | the client's copy, unanswered writes, observers | write, remove, observe, answer, refuse, value event |
| Progress indicator (`SVProgressHUD`, vendored) | shown or not, one for the whole app | show, dismiss |
| Login and logout (`ViewController`, `UITabBarViewController`) | fields, stored credentials, the navigation stack | log in and its completion, log out |
| Category grid (`CategoryViewController`) | `selectedCategory`, recognizers per cell | tap, segue |
| Messages (`CoreTableViewController`, `CoreDataHandler`, `AppDelegate`) | `messageList`, the Core Data store | load, add, save at termination |
| Image download (`urlExtension`) | the image of a view, downloads under way | start, finish |
| leveldb: `DBImpl` with `VersionSet` | memtables, the log, the queue of writers, versions of levels of tables, the manifest, snapshots | Write, Get, snapshots, the background thread (flush, compaction, seek and manual compaction), removal of files, recovery |
| leveldb: `MemTable`/`SkipList`, `TableCache`/`Cache`, `PosixEnv` | a skip list; open tables with reference counts; limits, a queue, locks, files | add and walk; find, insert, release, evict; open, schedule, lock, append, sync |
| leveldb: log, tables, iterators, records, `RepairDB` | files of blocks; iterators over children | write, read back, seek and step, encode, decode, repair |
| nanopb | a buffer, a message | encode, decode, skip |

How they interact: a tap on a row sets `selectedProduct` and brings a new detail
view; the detail view fills itself from `selectedProduct`, saves under
`currentCategory/selectedProduct.key`, and deletes that; every write changes the
client's copy at once, which raises a value event that replaces the rows of the
list; the answer of the server runs the completion block of the view that wrote,
which may have left the screen; that block writes the fields into, or resets,
`selectedProduct`, which may be an object of the list. Everything shares one
progress indicator.

In leveldb a caller of `Write` joins a queue; the writer at its head makes room
(switches memtables, and waits for the background thread if there is no room),
gathers the batches behind it into a group, gives up the mutex to write the log and
the memtable, and answers the whole group. The background thread, queued through
`PosixEnv::Schedule`, writes the old memtable to a table or merges tables, appends a
record to the manifest without the mutex, installs the version and deletes files
that no version needs. Readers take the memtables and the current version under the
mutex and read without it, through the table cache. Recovery reads the manifest and
then the logs; `RepairDB` does without the manifest.

What makes each part correct, and which property says so, is listed with the
runs below; the hazards, each at the line where it bites, are in `PROJECT.json`.

## Modules

| Module | Models | Remarks |
|---|---|---|
| `RealtimeDatabase` | the Firebase client, the server's tree and the main queue | external: written from the calls the controllers make and the contract of those calls |
| `AppState` | the globals, the rows, the indicator, the detail views, runtime traps; `Product` | |
| `ProductDetail` | `ProductDetailViewController.swift` | one action per handler and per completion block |
| `ProductList` | `SampleTableViewController.swift` (search aside), `ProductsViewController.swift` | |
| `AddProduct` | `AddProductViewController.swift` | |
| `ProductsScreen` | their composition, the specification and its properties | extends the three above |
| `Catalogue` | what the editor promises about the tree it edits | abstract specification |
| `PriceField` | the delegate, `String(price)` and `Int(...)!`, by characters | stands alone |
| `Session` | `ViewController.swift`, `UITabBarViewController.swift` | login, logout, remembered credentials |
| `Messages` | `CoreTableViewController.swift`, `CoreDataHandler.swift`, `saveContext` | the messages tab over Core Data |
| `ProductSearch` | the search bar of `SampleTableViewController.swift` and the table's idea of its rows | stands alone |
| `MCProductsScreen`, `MCPatient`, `MCPanel` | the instances TLC uses; `MCPanel` holds the four screens that share nothing | |
| `VersionSet` | `version_set.cc` as functions of a version: lookup, which files a compaction takes, what it writes | no state |
| `DBImpl` | `db_impl.cc` and the files it lives in | extends `VersionSet`; an action per stretch of code between releases of `mutex_` |
| `KeyValueStore` | what leveldb promises: atomic writes, snapshots, crashes that keep or take whole writes and keep synced ones | abstract specification of `DBImpl` |
| `MemTable` | `skiplist.h`, `memtable.cc` | pointer by pointer |
| `TableCache` | `table_cache.cc`, `cache.cc` | reference by reference; a hash table is the set of the entries in its buckets |
| `PosixEnv` | `env_posix.cc` | four parts that share nothing |
| `LogFile` | `log_writer.cc`, `log_reader.cc` | fragments over blocks |
| `Block`, `Table` | `block*.cc`, `table*.cc`, `filter_block.cc`, `bloom.cc`, `two_level_iterator.cc`, `format.cc` | |
| `DBIter` | `merger.cc`, `db_iter.cc` | both directions |
| `RecordFormats` | `coding.cc`, `dbformat.cc`, `write_batch.cc`, `version_edit.cc`, `filename.cc` | |
| `Repair` | `repair.cc`, `builder.cc` | |
| `Nanopb` | `pb_encode.c`, `pb_decode.c`, `pb_common.c` | `MCNanopb` has the message types and values |
| `MCDBImpl`, `MCLibrary` | the instances TLC uses; `MCLibrary` holds the parts under `DBImpl`, `Repair` and nanopb | |
| `ProductsScreenProofs`, `PanelProofs`, `PosixEnvProofs`, `MemTableDBIterProofs`, `TableCacheProofs`, `VersionSetProofs`, `DBImplProofs` | the proofs of the module named, or of the instance | `ProductsScreenProofs` is of `MCPatient` too, `MemTableDBIterProofs` of `MemTable` and `DBIter`; `DBImplProofs` builds on `VersionSetProofs` |
| `NaturalOrder` | lemmas: least and greatest numbers, ranks, folds, sums | cited by `PanelProofs`, `MemTableDBIterProofs`, `TableCacheProofs`, `VersionSetProofs`, `DBImplProofs` |

`MCPanel` and `MCLibrary` each put modules side by side that share no state. A
variable chosen in the initial state (`screen`, `part`) says which of them a
behaviour exercises, and the others rest: their product would only multiply states
that cannot see each other.

`ProductsScreen` is where the parts meet. `Next` is a tap of the user on whatever
is on top (alert, popup, form or list), the drawing of a new view, the oldest
block of the main queue, an answer of the server, a first snapshot, a write of
another admin, or the end of the process. The variables:

- `stored`, `cache`, `outbox`, `used`: the server's tree, the client's copy, the
  writes that have not been answered, and the keys that have been written.
- `mainQueue`: value events and completions in the order they were dispatched.
- `observing`, `awaiting`, `leaked`: the open list's category, categories whose
  first snapshot is on its way, categories of lists that were closed (nobody
  calls `removeObserver`, so those lists go on handling events).
- `currentCategory`, `selectedProduct`, `productsArray`: as in the code.
  `aliased` says that `selectedProduct` is one of the row objects, so that
  assigning to its properties changes the row.
- `views`, `visible`: the detail views (those that only a closure still holds
  included) and the one on screen. A view's `product` is the key its form was
  filled from. The code keeps no such thing, and that is the point: it is what
  the user believes Save and Delete are about.
- `alert`, `popup`, `popupForm`, `spinner`; `trapped`: the forced unwrap, or the
  exception Firebase raises for an empty key, that has ended the process.

The name, description, price and availability of a product are one value: a
member of `Text` when the form is complete, or the reason it is refused
("unnamed", "unpriced", "undescribed"), or "overpriced", a price that passes the
check for an empty field and is not an `Int`. `PriceField` shows what the last
one stands for. No property tells two names or two prices apart otherwise.

### Choices a reader should know

- A push of the server reaches the client's copy in the step that commits it; the
  delay the app can see is that of the main queue, which is modelled.
- A write raises its local value event only if it changes the copy. A refused
  write is rolled back unless a younger unanswered write hides it.
- Closed lists of one category count as one: their handlers run back to back and
  all that can be seen of them is that they dismiss the indicator. A closed list
  whose snapshots are still in the queue handles them as a closed list.
- `draw(_:)` runs once per view. UIKit may call it again; the form would then be
  filled again from `selectedProduct`, as "Cancel" does.
- An alert is modal (it has a window of its own above the others), and so is the
  popup over the detail view.
- Records have the shape the app writes. The casts of lines 42-46 of the list,
  which end the process on a record that lacks a child, are not modelled.
- `Session` and `Messages` have one messages tab: the second panel that two logins
  can push would have a list of its own. Auth keeps its user over a restart while
  the login screen comes up all the same. A fetch sees the insertions of its own
  context, and a failed save leaves them there.
- Bounds: `MaxMessages`, `MaxTabBars`, `MaxLength` and `MaxTyped` as their comments
  say; `MaxPending` on unanswered writes and undelivered blocks (`Room` in the
  guard of a write, and the length of the queue in that of `InitialSnapshot`),
  the finite sets `Key`, `View`, `Popup`, and `Typed`, what users type.

And of the libraries:

- `DBImpl`: entries are a key, a sequence number and a type; the value of an entry
  is told apart by its sequence number. A table's size is its number of entries. A
  crash is a loss of power: a log keeps what was synced and any further prefix, the
  manifest its synced records and perhaps the one being written (`manifest` is the set
  of what its readable records may say), tables what was
  synced before the record that names them; the synced directory that makes their
  names last is `PosixEnv`'s part. `hist` and `synced` are history: the groups that
  took effect, and those acknowledged to a caller who asked for sync.
- `descriptor` says what became of a manifest whose record failed half way: such a
  "torn" record is the end of the manifest for its reader, but when another record
  follows it the manifest may be "unreadable", and `DB::Open` refuses it. `hist` is what
  the files hold even then.
- When the caller of `TEST_CompactRange` has given up after an error, the background
  thread writes through `manual_compaction_`, which is NULL, at the end of the
  compaction (db_impl.cc 757-766): `NullManual`, where the process ends.
- Not in `DBImpl`: `reuse_logs` and `paranoid_checks` (off by default),
  `shutting_down_` (closing is a crash that loses nothing), `GetProperty`,
  `GetApproximateSizes`, `DestroyDB`.
- `PosixEnv` locks: closing any descriptor of a file drops the fcntl locks of the
  process on it, and `LockFile` closes one when the lock table already has the file
  (env_posix.cc 470-472). Another process may then take the lock, so the model has
  `LockExcludesProcesses`, which does not hold, and checks `LockExcludesThreads`.
- `LogFile`: the reader's `initial_offset` is 0, as in every use by the database.
- `Table`: a block that cannot be read is a failed or short read; a checksum that
  does not match is seen only with `verify_checksums` (`ReadBlock`).
- `RecordFormats`, `Nanopb`: bytes have base 16, so that every width and continuation
  rule shows with small numbers; overflow is that of the narrowed widths.
- `Nanopb`: as this build configures it: `PB_FIELD_32BIT` (nanopb.xcconfig), no
  `PB_ENABLE_MALLOC`; streams are buffers; encode callbacks give the same bytes in
  both passes. `CodecReadsBack` excepts two cases by name: `PassesForZero`
  (pb_encode.c 225: a submessage without presence whose fields all look empty to the
  encoder is left out, although it is not the default) and `FillsWords`
  (pb_decode.c 947: a shift by the width of the word, which C does not define, when the
  required fields of a message type fill whole words; both outcomes are modelled).
- `Repair`: an entry is its sequence number, whose key a constant gives; the process
  may crash (a power failure is left out: repair syncs neither its copies nor the
  descriptor), a call may fail (one in a behaviour of the run), and a second run may
  follow. A read that fails may give any part of a table, and the beginning of a log.
  What was moved to `lost/` is not read again. Bad records of a log are what `LogFile`
  shows.

## What is checked

The runs, all with `CHECK_DEADLOCK FALSE`: the app stops for
good when the user goes away.

| Run | Question | Instance |
|---|---|---|
| `editor` (`MCEditor.cfg`) | the invariant `Inv`, `TypeOK`, `RecordsKept`, `SelectedIsShown`, `ListCurrent`, `WritesWhatIsShown`, that `ProductsScreen` implements `Catalogue`, and liveness: `SpinnerClears`, `SavedPopupCloses` | `FairSpec`, pad layout, others write, two categories, two keys, two views, a popup, one write pending; 839 176 states |
| `patient` (`MCPatient.cfg`) | what a user who waits may rely on: `PatientUserKeepsSelection`, `ListExact`, and, when no other admin writes, `FormTruthfulAlone` | others write or not (chosen at the start); 118 109 states |
| `empty_category` (`MCEmptyCategory.cfg`) | expected violation of `SpinnerAlwaysClears` | one category, one key |
| `panel` (`MCPanel.cfg`) | login: `PanelNeedsUser`, `RememberedWereAccepted`, `LoginAnswered`; messages: `ListIsContext`; search: `TableAgrees`, `TrapsOnlyUnsettled`; price: `OnlyLargeOrForeign`; and `PanelTypeOK` | a user who waits with two pairs of credentials; two texts, three messages; three products, texts that match all, one or none; an 8-bit `Int`, price texts of up to three characters, pastes of two |
| `leveldb` (`MCDBImpl.cfg`) | `ReadsAreRight`, `Durable`, `ManifestIsBacked`, `LevelsStayDisjoint`, `NewerAbove`, `WorkIsScheduled`, `TypeOK` | two writers, a reader, a snapshot, two keys, three levels, three sequence numbers, two of the bounded steps; 516 271 states |
| `leveldb_live` (`MCDBImplLive.cfg`) | `ImplementsStore` (refinement of `KeyValueStore`), `WritesReturn`, `MemTableFlushed` | `FairSpec`, two writers, one of the bounded steps; 75 921 states |
| `leveldb_boundary` (`MCDBImplBoundary.cfg`) | expected violation of `NewerAbove` | one writer, tables of one entry |
| `leveldb_gap` (`MCDBImplGap.cfg`) | expected violation of `LevelsDisjointUnlessFailed` | one writer, three keys, one manual compaction of all of them, one crash |
| `leveldb_manifest` (`MCDBImplManifest.cfg`) | expected violation of `InstalledIsSaved` | one writer, one key, one manual compaction, one failed manifest record |
| `leveldb_sync` (`MCDBImplSync.cfg`) | expected violation of `SyncedSurvive` | one writer, one failed append, one crash |
| `library` (`MCLibrary.cfg`) | one property for each part: `MemTableReads`, `TablesAreKept`, `EnvKeepsPromises`, `LogReadsBack`, `TableReadsBack`, `IteratorShowsView`, `FormatsReadBack`, `CodecReadsBack`, `RepairKeepsData` | below; 477 134 states |
| `leveldb_repair` (`MCLibraryRepair.cfg`) | expected violation of `RepairReadsNewest` | the repair part alone |

What they show:

- **No write goes astray** (`RecordsKept`, `WritesWhatIsShown`, `SelectedIsShown`).
  However taps, completions, events, refusals and relaunches interleave, a stored
  record stays in its category with its own picture, and Save and Delete hit the
  product the view shows, although they ask the globals which one that is. It
  rests on small things: exit resets the selection, every selection brings a new
  view, a completion replaces the texts of `selectedProduct` but not its key.
- **The tree is a catalogue** (`ImplementsCatalogue`). Each step of the server's
  tree writes or removes one whole product under a key handed out for it.
- **The list is current** (`ListCurrent`): when its value events have run, its
  rows are the products of the client's copy, with their pictures; except that
  the handler ignores a null snapshot, so the last product of a category stays
  in the list after it has been deleted.
- **What only a patient user gets** (`ListExact`, `FormTruthfulAlone`,
  `PatientUserKeepsSelection`). A user who taps while something is under way can
  have the fields of one product written into another's object in memory, can
  end the process by emptying the price while a save is answered, or by saving
  or deleting after a late completion has reset the selection. `PatientNext` is
  the same system with a user who waits until every write is answered, every
  block has run and the view is drawn; for that user none of it happens, and
  what ends the process is a price that is no `Int`.
- **The indicator** goes away if the category is not empty (`SpinnerClears`), and
  stays for good if it is (`SpinnerAlwaysClears`, a finding).
- **The price filter** keeps out everything but decimal digits (`OnlyLargeOrForeign`);
  it lets through digits of other scripts, which `Int` does not read, and numbers it
  cannot hold, and saving either ends the process.
- **Logging in** is safe for a user who waits for the answer: the panel has a
  signed-in user, and what is remembered was accepted. One who
  taps on meanwhile can push two panels, of which one logout pops one, and can have
  other credentials remembered than the ones that were accepted.
- **Messages**: whatever saves fail, the list is what the Core Data context holds; so
  a failed save is made good by the next one, unless the process is killed.
- **Search**: whatever snapshots and texts come, the table shows the rows the
  controller indexes (`TableAgrees`), except from the moment editing begins or ends to
  the next reload, because those delegate calls assign `searchActive` and reload
  nothing. Then a tap can select another product than the row's, or index out of
  range: at its simplest, tap the search bar and then a row (`filteredSearch` is still
  empty). Only then (`TrapsOnlyUnsettled`). Under a filter, rows of an earlier
  snapshot stay until the text changes.
- **leveldb reads what was written** (`ReadsAreRight`): a read of the moment, of a
  snapshot or of a reader that began long ago finds the newest entry at its sequence
  number in the memtables and the version it goes by, through flushes, compactions,
  trivial moves and deletions of files, and the tables it needs are still there.
- **It keeps what it acknowledged** (`Durable`, `ManifestIsBacked`): after a loss of
  power at any step the manifest names only tables that are whole, and a synced write
  is recovered; unless its log had a torn record before it. That case is a finding: an
  append that fails leaves the log in use, and a later synced write goes behind the
  torn record (`SyncedSurvive`). The same happens to the manifest, which is worse
  (`InstalledIsSaved`, a finding): a flush inside a compaction whose record fails is tried
  again before the next key, the new record goes behind the torn one and is
  acknowledged, and the next `DB::Open` finds a corrupt manifest.
- **Levels stay ordered** (`NewerAbove`, `LevelsStayDisjoint`). Reads stop at
  the first level that has the key, so an older entry must never lie above a newer
  one. It does, once the entries of one key are spread over two files of a level: the
  compaction takes one of them (a finding; `leveldb_boundary` is the run whose tables
  are that small). Files of a level may overlap in two cases, which
  `LevelsStayDisjoint` excepts. One is a manifest record that failed and was yet kept. The
  other is a finding (`leveldb_gap`): a manual compaction takes files that have a gap
  between them; a memtable that is flushed meanwhile, into that gap, is put on the very
  level the compaction writes to, where an output spans the gap.
- **Nobody waits for ever** (`WorkIsScheduled`, `WritesReturn`, `MemTableFlushed`):
  whenever a writer waits for room, the background thread has a turn coming or an
  error is there to be returned.
- **`DBImpl` implements `KeyValueStore`** (`ImplementsStore`): with groups, memtables,
  tables, versions, the manifest and recovery hidden, only whole writes, snapshots and
  crashes that take or keep whole writes, and keep the synced ones, show.
- **The parts under it** do what it relies on. Readers of a skip list that is being
  linked see whole nodes in order; the table cache never closes a table in use, leaves
  none open for good, and brings back none of a file that was evicted; what a log or a
  table holds is read back, and with damage less is read, never anything false; the merged iterator shows the view of its sequence number in both
  directions while the memtable grows; varints, keys, batches, edits and file names
  are read back as written; a nanopb message written with one version of a type and
  read with another gives the fields both know.
- **Repair** loses no entry that can be read, wherever it crashes and if one call fails,
  and lists tables that exist, can be read, and have numbers no later file gets
  (`RepairKeepsData`). What the property excepts is what the code does. When a read
  fails while a good table is scanned, and no longer when it is copied, the whole copy
  is listed with the bounds and the largest sequence number of the part that was
  scanned (repair.cc 367), so that some of its keys are not found and later writes
  may get numbers below those it holds. When calls fail in two runs, a table that the
  first copied in part may replace the whole one in `lost/`. And repair may show an older
  value of a key (`RepairReadsNewest`, a finding): tables made of logs get their
  numbers in the order of the directory, and numbers decide at level 0.

Why the bounds suffice for these questions: the hazards are about two products
(the one saved and the one shown), two detail views (the one that wrote and the
one on screen) and one block that is late. The second
category is needed only for what exit leaves behind. `editor` and `patient` have one
item pending: their safety properties are proved for any number. A price that is no
`Int` is typed in `patient`. Detail views are symmetric, as are the threads of `leveldb`, and
symmetry is used in `patient` and `leveldb` only, which check safety.

For leveldb: two keys let a table hold one or both and a compaction leave one out;
three levels are the fewest with a grandparent level, on which the choice of output
level and the splitting of outputs depend; two threads make a group with a leader
and a follower, or a writer that waits behind one; three sequence numbers give a key
an entry that is newer than a snapshot, one it needs, and one it hides; level 0 stops
writers at two files, so that waiting happens. Each fault or rare step (`Bounded`:
crash, failing append, sync, table or manifest record, forced memtable switch, manual
and seek compaction, snapshot, read) happens at most once and two of them in a behaviour
(`TotalBudget`; one in `leveldb_live`), which is every pair of them in either order;
the failing append is left to `leveldb_live` and `leveldb_sync`, and what follows a failed
manifest record inside a compaction to `leveldb_manifest`.
Manual compactions are of the first key, in `leveldb_live` of all keys too.
`MaxFileSize` 3 keeps the entries of a key in one table, below the case of
`leveldb_boundary`. With two keys no file lies in a gap between two others without
overlapping; `leveldb_gap` has three.

For `library`: a memtable of two keys and three entries of height at most two, since a
reader can pass a node on one level and miss it on the other; two threads and three
files, one of double weight, for the table cache; three openers for limits of one;
three callers in two processes for the locks; two tables and the manifest for syncs;
log blocks of 8 with headers of 3, and records that fill, end at, or cross them; five
keys with shared prefixes in tables of one or several blocks; three entries of an
iterator and one that arrives late; three directories to repair, with a log that may
duplicate a table, a damaged table, and one nothing can be read of. For nanopb, each
field type singly, repeated and packed, required, optional and in a union, strings,
bytes, submessages and extensions, at the edges of their ranges, written to a buffer
that is large enough or too small.

Fairness (`FairSpec`): the main thread displays views and runs its blocks, and the
server answers and delivers first snapshots. iOS drains the main queue and Firebase
calls each completion block once when connected; a user or another admin need not
do anything, and no process needs to end. An offline client, which waits for ever,
is outside `FairSpec` and inside `Spec`.

`FairSpec` of `DBImpl`: the writer at the head of the queue goes on (threads run, disk
operations end), and a scheduled background thread gets its turns. A client need
not call anything, no fault needs to come, and nobody needs to end a crash. For
login: the server answers a sign-in and the main thread runs its completion.

Every checked property has a faulty variant of the code beside the definition it
replaces, with which TLC finds the property violated: an exit
that keeps the selection, a list that adds rows without emptying the array, a limit
taken without the second look, a level that is chosen past an overlapping one, files
deleted without regard for versions that are being read, and so on.

## What is proved

The editor, for every value of the constants that satisfies the `ASSUME`s (`Absent`,
`Created`, `Bounds`, `Typing`, `NoRow`, `Layout`): any number of categories, keys,
texts, views and popups, any `MaxPending`, both layouts, other admins or not.

- `Invariance`: `Spec => []Inv`. `Inv` is inductive. `RecordsKept` alone is not: a
  commit stores what the outbox holds, the outbox what Save built from the
  globals, and the globals what a row or a queued snapshot held. So `DbInv` says
  that tree, copy, outbox and queue belong together (`Whole`, `KeptWrite`,
  `KeptBlock`), `RowsKept` and `SelectionKept` that rows and selection belong to
  the category being observed, and `Nested` that there is no view without a list,
  no popup without a view, no alert over a view that was not drawn; with no list
  open there is no selection, which is what exit must establish.
- `TypeCorrect`, `RecordsStayKept`, `SelectionStaysShown`: consequences of `Inv`.
- `WritesStayShown`: `Spec => WritesWhatIsShown`, from `Inv` and the fact that only
  `SavePressed`, `ConfirmDelete` and the popup make the outbox longer.
- `Refinement`: `Spec => ImplementsCatalogue`, with the refinement mapping `Entries`
  (the records each key has, over all categories). A commit of a write is a rewrite
  or a removal because `DbInv` says the write is of an issued key, in its own
  category and with its own picture; everything else is a stutter, or hands out a
  key.
- `ListStaysCurrent`: `Spec => []ListCurrent`. `Inv` says nothing of the order of queued
  events. `ListFollows` does: if value events for the open list are queued, the last of
  them carries the client's copy as it is now; if none is, the rows already are of the
  copy's products. Every write queues an event behind the others, opening a list empties
  the rows before the first snapshot can come, and completions change the text of a row,
  never which products there are.

The user of `patient`, who taps only when nothing is under way, for the same constants
(the second half of `ProductsScreenProofs`):

- `PatientKeepsSelection`, `PatientListExact`, `PatientFormTruthful`: `AloneSpec` keeps
  `PatientUserKeepsSelection`, `ListExact` and `FormTruthfulAlone`. Waiting is only a guard
  on taps, and the proofs are about what it buys. `PatientInv` says that one write is
  under way at most (`OneWrite`), that the view that wrote is still on screen and
  shows what it wrote (`WriterWaits`, `SaveInFlight`), that the copy is the server's tree
  with that write on top (`CopyIs`), that no null snapshot is queued ahead of an accepted
  save (`NoneIsNull`: such an event leaves the rows alone, and the save would then
  write into a row that no event replaces), and that a key in a row was handed out
  (`HandedOut`: an added product cannot get the key of the selected one). The last
  property needs `SelectedIsTrue` too, which is about `selectedProduct` and the
  *server's* record, and is an invariant only when no other admin writes.

The screens of `MCPanel`, each by itself (`PanelProofs`), for any accounts, messages and
products:

- `PanelHasUser`, `RememberedAccepted`: for a user who waits for the
  answer before touching the form again. `OneSignIn` says that the fields still hold what
  was sent, so what is remembered is what was accepted. Of a user who does not wait they
  are not true, which is why `panel` checks them of `PatientSessionNext`.
- `ListShowsContext`: whatever fetches and saves fail, the list and the context hold
  the same messages, counted with their multiplicity (the sum of bags is associative).
- `RowsAgree`, `TrapsUnsettled`: the table and the controller index the same rows except
  between an editing callback and the next reload, and only then can a tap trap.
- `PanelTypes`: `PanelTypeOK`, which bounds the messages of store, context and list by
  `MaxMessages` and says that no product has two rows. The size of a bag is a sum of its
  counts, so that of a union is the sum of the sizes (`SizeOfUnion`): the messages of the
  store and the unsaved ones stay within the bound because context and list are always
  their union. `LoginInv` bounds the tab bars, of which a login pushes one.
- `SavedTextsAreNumbers`: the text of a price field holds decimal digits of some script
  and nothing else, however texts are typed, pasted, deleted and filled in, so Save
  finds no `Int` only in a text that is too large or has a digit of another script.
  What has to be proved of data is that `String(price)` is a text of digits
  (`FormattedText`), for any width of `Int`.

`PosixEnv`, for any number of threads, processes and files, any limits, and any bound
on the calls of `Schedule` (`EnvBounds`: threads are finite in number, which the count
of open files needs):

- `PromisesKept`: `EnvSpec => []EnvKeepsPromises`. Each of the four parts has an
  inductive invariant and a lemma for its steps. The limits: the number of threads
  that hold a slot and what is left add up to the limit, and a step changes both or
  neither (`WithMoves`, by the cardinality of a set with an element more or less). The
  queue: it is not empty only while the thread is awake, and what ran followed by what
  waits is 1, 2, 3, ... The lock table: whoever has inserted its process is the only
  one, from insertion to removal. The files: a table that a record lists is closed
  and stable (`Complete`), the manifest's buffer holds the records, and those that
  are acknowledged name files whose directory entry was synced before; the step that
  could break it is the sync of the manifest, which syncs the directory first.

`MemTable`, for any user keys, entries, heights and sequence numbers:

- `ReadersNeedNoLock`: `MemSpec => []MemTableReads`. The keys of a memtable are distinct,
  so its nodes have one order. `LinksOK`: in every state the writer makes, on every
  level, the link of a node of that level is the next node of that level, and the node
  that is being inserted counts on the levels it is linked on already. `InsertOK`: what
  `FindGreaterOrEqual` remembered in `prev` is still the last node before the new key
  (there is one writer). `ReaderOK`: a search stands at a node of its level that is before
  what it looks for, and what an iterator has passed is still there. The step that is
  hard is the one a reader takes on a level while the writer links another.

`DBIter`, for any number of user keys, of entries at the start and of entries added later
(`IterBounds`):

- `IteratorIsExact`: `IterSpec => []IteratorShowsView`. The inductive invariant says where
  the merge stands (`Placed`): each child is at one of its entries or at its end, the
  current one is the first of them, and every entry behind the current one that the
  iterator sees is at or behind where its own child is. Only entries that it sees are
  counted: what is added to the memtable later has a larger sequence number, so a child
  may be past it, and the view stays as it is (`GrowthKeeps`). One argument serves both
  directions, by an order that depends on the direction (`Earlier`), and turning round is
  a seek of the other children. Every round of a loop of `db_iter.cc` passes an entry
  (`PassesMore`), so that a loop stops within as many rounds as there are entries and one
  (`LoopStops`). The loop invariants: what is to be shown among the entries ahead stays the
  same while entries are skipped (`NextInv`), and, backwards, the newest entry of a key
  that was seen so far is kept until the key changes (`PrevInv`), which a deletion clears.

`TableCache`, for any number of threads and files (both finite, `CacheBounds`), any
charges and any capacity, shards and buckets:

- `CacheKeepsTables`: `CacheSpec => []TablesAreKept`. `CacheInv` says that the cache is
  `Sound` with the handles its callers hold: the references of an entry are the callers
  that hold it, and one for the cache while it is in it (`Counted`); the two lists have
  the entries of the cache that nobody uses, and those somebody uses, each once
  (`Listed`); the hash table has the entries of the cache, each in the bucket of its
  key, and one of a key (`Hashed`); `usage_` is the sum of the charges. Inside an
  operation none of this holds as it stands: an entry that is to go is taken out of the
  hash table first, then off its list, then unreferenced. `Sound(c, holds, out)` names
  the entries that are on the way out, and each helper of `cache.cc` has a lemma that
  says how it moves `holds` and `out` (`UnrefSound`, `RefSound`, `FinishEraseSound`,
  `InsertEntrySound`); the loops of `Prune` and of `Insert`'s eviction are folds of those.
  Growing the hash table needs that its length is a power of two that exceeds the number of
  entries (`LengthFits`). `RoomForEntry` counts: a thread that opens a table always
  finds a number for its entry.

`DBImpl`, for any number of threads, batches, levels, files and failures:

- `SyncedWritesAreKept`: `Spec => []Durable`. `DurableInv` follows a record by its sequence
  numbers. `GroupOK` and `QueueOK`: a group is of the writers at the head of the queue and
  has the numbers that come next. `CountsOK`: no record of a log has a number above
  `lastSequence`, but the one that is being written. `Backed`, for each record a crash
  may leave of the manifest and for the edit being made: what it counts is not in a log
  that it skips, and a synced group is either counted or in a log that it reads.
  `Safe`: a synced group is within the synced part of its log and behind no torn
  record, so that any truncation by a crash keeps it. What versions and tables hold does
  not matter here, so flushes and compactions are a matter of which log numbers
  they put in the manifest. Beside the bounds, it assumes of the constants only that
  `None` is no request, no group and no compaction (`NoneIsNothing`).
- `ManifestStaysBacked`: `Spec => []ManifestIsBacked`. It is not inductive: whether a file may
  be removed or a number used for a new table depends on what else names it. `TablesInv`
  says that every version that is written down (`ManifestStored`), about to be
  (`EditStored`), current (`CurrentStored`) or held by a reader (`ReadersStored`) has its
  tables on disk, under numbers below the bound that goes with it: `nextFile` for what the
  process holds, the record's own next number for what a recovery will read. So a new
  table never takes the number of one that matters, even after a recovery that counts
  on from an older record. What is being written is protected in two ways: outputs of a
  compaction are in `pendingOutputs` (`OutputsStored`); the table of a flush is taken
  out of it before its record is written, and what saves it is that nothing removes files
  meanwhile, and that its number is in no version and no output (`FlushApart`).
  `HeldIsWritten`: without an error, the manifest says what the current version says,
  whence removing by what the process holds (`DeleteObsoleteFiles`) is safe for a crash;
  after a failed record it need not be, and then nothing is removed.
- `HeldFilesStay`: the tables of the current version, and of the versions readers hold,
  stay as they were (`HeldFiles`, the part of `ReadsAreRight` that is not about values).
- `WaitersAreServed`: `Spec => []WorkIsScheduled`. `WorkInv`: when there is something the
  background thread would find (`NeedsWork`), it is scheduled or an error stopped it, and
  what it has begun is its turn. A writer that waits for room then has a turn coming
  because a level 0 that is full is also due for compaction: that is `Triggers`, an
  assumption on the constants (`kL0_CompactionTrigger`, 4, is at most
  `kL0_StopWritesTrigger`, 12: dbformat.h 25 and 31), and needs that the files of a
  level are finite in number, which `TablesInv` says.
- `LevelsStayOrdered`: `Spec => []LevelsStayDisjoint`. Unlike those before it, this one is
  about what files hold. `OrderInv` says, as long as the property's hypotheses hold, that
  the entries a crash may leave (of a manifest's files and of the logs it does not skip)
  are told apart by their sequence numbers (`ManifestOrdered`), and so are those the
  process knows (`KnownApart`), and that in every version written down, current or about
  to be written (`EditOrdered`) the files of a level above 0 lie beside one another
  (`LevelsOK`): all entries of one come before all of the other, which is more than
  `Disjoint` says of their ends, and is what merging preserves. A compaction under way
  needs three facts (`CompactionOrdered`). `InputsOK`: a file of the output level that is
  not an input lies beside all inputs together, so every output lies beside it.
  `Solid`: no range of keys that the inputs leave free lies between two of them. So
  a memtable that is flushed meanwhile and put on the output level, where it overlaps
  neither that level nor the one above, is before all inputs or after all of them,
  and `InputsOK` is still true (`FlushOrdered`). `OutputsOrdered`: what was written and
  what is still to be written follow one another. `VersionSetProofs` has what holds of any
  version: `SetupFacts` (what PickCompaction and SetupOtherInputs take is `Solid` and
  `InputsOK`, by the restarts of GetOverlappingInputs on level 0 and its ranges above),
  `CompactionOutputsFacts` (the loop of DoCompactionWork, a fold, cuts the merged inputs
  into pieces that follow one another), `InstallOrdered` and `FlushOrdered`. A recovery
  writes its tables to level 0, where files may overlap; what has to be shown is that the
  logs it replays hold no other entry under a sequence number that a table has too. The
  hypotheses are needed where the findings say: a range chosen by a client need not be
  `Solid`, and after a failed record the manifest may be of another version than the
  current one. That a compaction under way is a `CompactionState` became a part of
  `TypeOK`.
- `NewerEntriesLieAbove`: `NewerAbove`, under the hypotheses of `LevelsStayOrdered` and while
  no snapshot was taken. `LayerInv`, on top of `OrderInv`, says that every version
  written down or about to be is `Layered`: of two entries of a key in different levels
  the newer is in the smaller one, and above level 0 one file of a level holds all
  entries of a key. It needs to know where new files come from. The logs that a manifest record names hold newer entries than its
  tables (`ManifestLayered`), and the memtables lie in those logs (`MemoryLayered`), so
  a flush or a recovery puts newer entries on top; a flush that goes below level 0
  has no key in common with the levels it passes. What a compaction
  leaves behind has nothing older in the upper of its levels and none of its keys in the
  lower, whatever was flushed meanwhile (`RestOK`), and its outputs have
  at most one entry of each key (`OneEach`; `CompactionKeepsOne` in `VersionSetProofs`:
  without a snapshot what the loop of DoCompactionWork keeps of a key is its newest
  entry). For that reason no key is in two files of a level, which is what
  `leveldb_boundary` needs a snapshot to bring about.

`ProductsScreenProofs` begins with one lemma per operation of the database, which its
lemmas about the actions, one for each, cite. `NaturalOrder` has the facts about
numbers that several proofs need: a set of numbers has a least and, if bounded, a
greatest member, a finite one has a member of every rank, and a function that is
defined by recursion over 0..n exists and has the values its equation gives
(`FoldExists`, by well-founded induction over a set; the logs a recovery replays and the
rounds of the loops of `DBIter` are such functions). From it follow the folds of the community modules: a fold from the
left over a sequence is the last of the values its equation gives (`LeftFoldIsFold`),
and a sum over a finite set does not depend on the order in which its members are
chosen, so that a member can be taken out of it (`SumsAgree`, `SumOnLess`). The links a search of the skip list walks are a recursive function
too, for which `MemTableDBIterProofs` has the same argument.

Only model-checked:

- Liveness (`SpinnerClears`, `SavedPopupCloses`, `LoginAnswered`, `WritesReturn`,
  `MemTableFlushed`): fairness is about ENABLED, which the prover does not handle.
- Of `DBImpl`: the refinement of `KeyValueStore`, `ReadsAreRight`, `TypeOK`, and
  `NewerAbove` while snapshots are held. With snapshots these are false of small tables
  (`leveldb_boundary`), so that a proof would first have to say of which sizes they are
  true.
- `LogReadsBack`, `TableReadsBack`, `FormatsReadBack`, `CodecReadsBack` and
  `RepairKeepsData`: recursion over records and bytes, whose values for every input
  would need induction over data.

## Findings

Six runs show the code do something its own comments or documents say it does not;
`PROJECT.json` quotes them: the indicator of an empty category (`empty_category`),
compaction of one of two files that share a key (`leveldb_boundary`), compaction of a
range with a gap (`leveldb_gap`), a manifest record behind a torn one
(`leveldb_manifest`), a synced write behind a torn log record (`leveldb_sync`), and the
order of tables after a repair (`leveldb_repair`).

## Not modelled

- The category grid adds a gesture recognizer each time a cell is reused, and image
  downloads are not cancelled when it is. What the user then sees is decided by
  UIKit, which is not in the repository, and nothing can be promised of either: the
  slower download wins, and a tap may start several segues.
- The insides of `SVProgressHUD` (fades, timers): the app sees one flag. Its activity
  count is not used.
- Of leveldb, the options and queries listed above, the block cache, compression,
  checksums as arithmetic, reads of files, directories and the clock in `PosixEnv`,
  `c.cc` (a wrapper for C), tools and test code.
- Of nanopb, heap allocation, which this build does not compile in, and streams that
  are not buffers.
- The other pods: Firebase itself is binaries and headers (the client the app uses is
  `RealtimeDatabase`, external); GTMSessionFetcher, GoogleToolboxForMac, Chameleon
  and Toast-Swift are helpers the app's logic does not depend on.
- Colours, layout, toasts, the discount field (nothing reads it) and the alert's
  window: no state depends on them. Malformed records and `draw` being called again
  are discussed above.

## What could follow

1. Compose `ProductSearch`, which is checked by itself, with `ProductList`: a row
   tapped under a stale filter is an object of an earlier snapshot, which the editor
   would then save back.
2. Proofs: `ReadsAreRight` without snapshots, from `NewerEntriesLieAbove`: what is missing
   is that a compaction drops no entry a read of now would find, and, with snapshots,
   the size of tables below which that is not so.

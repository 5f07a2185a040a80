# FlyOn: TLA+ models, checks and proofs

FlyOn tracks defects of aircraft. The repository holds two iOS programs:

* **MainTrack-Prototype** (`src/Prototype/MainTrack-Prototype`), the working app: users sign up and log in, see
  the feed of all defects, open one, edit it, close it with a resolution, archive it. Its store is Cloud
  Firestore; the SDK is vendored under `src/Prototype/Pods`.
* **FlyOnFeed** (`src/iOS/FlyOnFeed`), the start of a rewrite: a feed loader over an abstract HTTP client, with
  tests.

The app has no server code, no explicit locks and no tests. What is hard in it lies between its handlers and the
SDK: every write is fire and forget, every read is answered later, the device may be offline or die at any
moment, other devices write the same documents, and the feed and the detail screen share mutable objects.

Paths below: `P` is `src/Prototype/MainTrack-Prototype`, `F` is `src/iOS/FlyOnFeed/FlyOnFeed`, `SDK` is
`src/Prototype/Pods/FirebaseFirestore/Firestore/core/src`.

## Inventory

| Component | State | Operations | Talks to | What is hard | What makes it correct |
|---|---|---|---|---|---|
| Firestore client and backend (`SDK/core`, `local`, `remote`, `auth`) | worker queue; a mutation queue per user and the document cache on disk; write pipeline and stream; credentials; listeners; the backend's documents | set, delete, query, commit, acknowledge, refuse, reconnect, change of user, restart | called by ApiClient, answers on the main queue; Firebase Auth posts changes of user | lost acknowledgements, replays, refusals, crashes, offline answers; responses, timers and tokens of a stream that was closed; a change of user crossing calls and tokens | a device alone sees an atomic store, but for the documents refused to it; a result is counted for the write it is of; a user's write goes out as that user; a queued write is never stuck |
| ApiClient (`P/Service/ApiClient.swift`) | none of its own | post, put, delete, archive, getAllDefects, user data | Firestore; called by the view models and controllers | archive is two writes; outcomes are never awaited; failed queries are silent | a defect leaves Defects only for the Archive |
| Repository and feed (`P/Model/Repository.swift`, `FeedViewController`) | the shared list of `Defect` objects | load, append, lay out, scroll, select a row | ApiClient; shared with the detail screen | a load delivered over newer edits, on another screen, or by a feed that is gone | after the loads have ended the feed is current, and what makes it fall behind is known; a row opens the defect it shows |
| Detail screen (`DetailViewController`, `DetailViewModel`) | a reference to a `Defect`, the inputs, the mode, an alert | edit, cancel, submit, close, archive | ApiClient, Repository | the object is shared or orphaned; failed actions must not leave half an edit | read mode shows the object; an edit of the object is a write |
| Accounts (`LoginViewController`, `SignupViewController`, `UserModel`, `LoadingView`) | the global `userData`, saved credentials, the loading view | log in; sign up (check, create, post) | Firebase Auth, ApiClient | three remote steps that a crash can separate; callbacks that never come | a profile belongs to its account; the user is not locked out |
| RemoteFeedLoader, FeedItemsMapper (`F/Feed API`) | the loads in flight | load, map, be released | HTTPClient | responses in any order, release while one is handled, dates that do not parse | each load is answered from its own response, and not after release |
| Dates (`P/Extensions`, `F/Helpers`) | none | format, parse, sort, symbol | Repository, feed cells, mapper | local time without a zone: written by one phone, read by another, across changes of the clocks | the order of the feed is the order of creation; a date of one's own zone does not trap |
| New-defect flow of the home screen, drop-down search, static tables, cells, `Tools/csv-json.py` | none that changes | display | bundled JSON | nothing | not modelled |

`PROJECT.json` lists the hazards of this code one by one, each at its line, with the properties that cover it or
the reason none does.

### What the code of this commit cannot do yet

The five buttons of the detail screen (`DetailViewController.swift:50-54`) are lazy variables that no view adds,
and the storyboard has no way into the branch of `FeedViewController.prepare` that opens an empty detail screen.
The handlers behind them are complete, and are modelled as the code defines them: as if the buttons were on
screen whenever the detail screen is and no alert covers it. The code hides no button by mode, so neither does the
model: Edit in edit mode and Close or Archive on an unsaved defect are possible.

## Modules

| Module | Models | Extends |
|---|---|---|
| `FirestoreSync` | the SDK's queues, cache, write stream and queries, and the backend | |
| `AtomicStore` | what a device alone may believe of Firestore (abstract specification) | |
| `DefectApi` | the calls of ApiClient, made by any client in any order | `FirestoreSync` |
| `WriteStream` | the write path of one phone in detail: a queue per user, the stream's states, tokens, timers and failures | implements `DefectApi` |
| `DefectTracker` | Repository, feed and detail screen on every device | `DefectApi` |
| `FeedTable` | the feed as a table: rows by position, and the dates it is sorted by | |
| `Accounts` | sign-up and login, Firebase Auth, the profiles | |
| `RemoteFeedLoader` | the loader and its mapper | |
| `<module>_proofs` | theorems about `DefectApi`, `WriteStream`, `DefectTracker`, `FeedTable`, `Accounts`, `RemoteFeedLoader` | the module (`DefectTracker_proofs` also `AtomicStore_proofs`) |
| `AtomicStore_proofs` | theorems about a device alone: `DefectApi` implements `AtomicStore` | `DefectApi_proofs` |
| `StreamImplementsApi_proofs` | the theorem that `WriteStream` implements `DefectApi` | `WriteStream_proofs` |
| `MC<module>` | instances for TLC | the module |

There are two refinements. `WriteStream` implements `DefectApi` with every user as a device (`ImplementsApi`, by
`INSTANCE DefectApi WITH`), and a device of `DefectApi` alone with its backend implements `AtomicStore`
(`SoloSeesAtomicStore`). Both are checked on small instances and proved for all.

`DefectTracker` is composed with `DefectApi` by extension: its screens call the operators `Post`, `Put`, `Archive`
and `GetAllDefects`, and `ImplementsApi` checks that everything it does to the variables of `FirestoreSync` is a
step of `ApiNext`. What is proved of ApiClient's clients in general therefore holds of this one.

### FirestoreSync

| Variable | In the code |
|---|---|
| `calls[d]` | the tasks on the SDK's worker queue, put there by `setData`, `delete` and `getDocuments` (`firestore_client.cc:371,465`); in memory only |
| `queue[d]` | the mutation queue in LevelDB (`local_store.cc:144-183`) |
| `applied[d]` | how much of the write pipeline the backend has committed and not been heard to acknowledge |
| `synced[d]` | how many of those commits a query has already brought into the cache; stands for the version comparison of `ApplyBatchResult` (`local_store.cc:212`) |
| `cache[d]` | the remote document cache in LevelDB |
| `listens[d]`, `snapshots[d]` | queries waiting for their first snapshot, answers on the main queue |
| `server`, `refused` | the backend's documents; the documents for which it refused a write (a record for the properties, read by no action) |

One action per step the SDK takes by itself: `WriteLocally` (the worker task runs), `Commit`, `Acknowledge`,
`LoseStream` (a transient error: the pipeline is sent again from its head, which the backend may have committed
already), `Refuse` (a permanent error drops the head), `Listen`, `RaiseFromServer` (online, `wait_for_sync_when_online`),
`RaiseFromCache` (offline), `FailQuery`, and `Crash`. A mutation is a whole document or a deletion, the only
mutations the app makes. The worker queue is FIFO, so a query sees the writes called before it.

Refusal is possible whenever `MayRefuse` is set: security rules are not in the repository.

### DefectApi

`PostCalls`, `PutCalls`, `DeleteCalls`, `ArchiveCalls` are the calls each method makes, in order. `post` and `put`
are the same unconditional `setData`; `archive` is a `setData` in Archive and then a `delete` in Defects. A crash
can fall between any two.

### DefectTracker

A `Defect` is a class. `repository[d]` holds the values of the shared objects by id; `detail[d].defect` is the
value of the object the detail screen references; `detail[d].linked` says whether it is still the object in the
repository. `LoadAllDefects` replaces the repository's objects, so it cuts the link; edits through the screen then
change the screen's object only. The four required fields are one value (`content`); `Blank` stands for any input
that `validateInput` rejects. A resolution that is missing and one that is empty are the same to every guard and
are one value, `NoResolution`.

Each handler is one action: they run to completion on the main thread. `onClose` includes the trap of
`apiClient.put(defect!)` on a screen without a defect, which is the same as a relaunch for everything but the
user. `FeedAppears` is part of every action that uncovers the feed, since `viewWillAppear` loads each time.
The list is kept by id: the order of rows and the table's copy of them are the subject of `FeedTable`.
`Fresh` idealises the eight hex digits of `UUID.shortString`: ids do not collide.

### WriteStream

`FirestoreSync` sees the write stream from outside: writes are committed in order, and acknowledged or lost. This
module is the machine behind it (`remote_store.cc`, `stream.cc`, `write_stream.cc`, `grpc_stream.cc`,
`sync_engine.cc`, `firebase_credentials_provider_apple.mm`), on one phone whose user may change.

| Variable | In the code |
|---|---|
| `auth` | Firebase Auth's current user |
| `asking` | `getToken` requests that Auth works on; `closes` is the `close_count_` the stream captured (`stream.cc:118`), `fresh` whether the provider's `token_counter` is still what it was |
| `main` | the main queue: notifications of a change of user, and completions of `getToken` |
| `credentials` | the credentials provider's `current_user` |
| `worker` | the worker queue: writes, changes of user, tokens |
| `user` | the sync engine's `current_user_` |
| `queues` | the mutation queues in LevelDB, by user |
| `stream` | the state of `WriteStream`, the token its connection was opened with, whether the handshake is complete, whether the idle timer runs, `close_count_`, `RemoteStore::write_pipeline_`, the messages under way in both directions, and the status with which the backend has ended the connection |
| `server` | the backend's documents |
| `committed`, `refused` | records for the properties, read by no action |

A change of user takes three hops: `SwitchUser` (Auth posts a notification), `Notice` (the provider counts it and puts a
task on the worker queue), `RunUser` (`HandleCredentialChange`: another queue, `RestartNetwork`). Tokens take the same way:
`AnswerToken`, `TakeToken`, `RunToken`. A write of the app is made on the main queue (`Call`), for whoever the
provider holds for the user then, and is run by `RunWrite`.

`Fill`, `Closed`, `Stop`, `Restarted`, `Failed` and `Drop` are the routines that several handlers share (`FillWritePipeline`,
`Stream::Close`, `Stop`, `RestartNetwork`, `OnWriteStreamClose`, and the removal of an acknowledged or refused write with
the refill that follows it). `Become` is where a stream that starts asks for a token. Each handler is one action.

What is left out or idealised:

* Numbers. `close_count_` and batch ids grow for ever, and are only compared for equality, or by order within a queue;
  `Unused` takes one that nothing under way carries. `token_counter` becomes `fresh`.
* Responses carry the request they answer. The code does not look at this: it takes any response after the handshake
  for the result of the pipeline's head. `PipelineInStep` is what makes that right.
* The token of a request is the one of the user Auth has when it answers. One that Auth took before a change
  would be in the main queue behind the notification of the change, so it is stale when it gets there. A
  request nobody waits for any more may be answered with an error: nobody looks at it.
* `CallsOf` and `Acknowledged` say what `DefectApi` sees of this: a user's writes on the worker queue, in order, and the
  results under way to the stream. A write is never `None`, the value of "no status" (`StreamAssumption`).
* A backend that ends a stream ends it with an error while writes wait. The SDK hands on whatever status the call finished
  with (`grpc_stream.cc:320`, `stream.cc:294`), and one that is OK while the pipeline is not empty would trip the
  `HARD_ASSERT` of `OnWriteStreamClose` (`remote_store.cc:456`). Its authors rule that out: a stream stops gracefully by
  `Stop()` or by its idle timer only (`stream.h:81-83`, `remote_store.cc:454`). `BreakStream` and `Refuse` follow them, and
  `AssertionsHold` rests on it, in `stream_users` and in the theorem `AssertionsAlwaysHold`. An OK status while nothing
  waits does what `IdleTimeout` does.
* A connection that is closed commits nothing later: requests that the backend had not processed are lost with it.
* Users change on the login screen, so a change does not fall between the two calls of `archive(_:)`.
* The process does not die and no query is asked: `FirestoreSync` has both. The watch stream, whose failures the write
  stream does not see, is left out.

### FeedTable

| Variable | In the code |
|---|---|
| `posted` | the defects at the backend: when they were created, and on which phone |
| `repository`, `loaded` | `Repository.shared.defects` by position, and how many of them the last load has brought |
| `screen` | the screen on top; `new` is the detail screen without a defect |
| `own`, `stray` | loads that the feed on the stack has asked for, and loads that an earlier feed has |
| `rows`, `dirty` | the table's rows as its cells show them; `reloadData` was called and the table has not asked again |
| `replaced` | a stray load has replaced the list since the table was laid out (a record for the properties) |
| `trap` | why the process trapped |
| `now` | the time |

The completion of `getAllDefects` keeps the feed that asked alive, so a feed that was popped still replaces the shared
list, and reloads a table nobody sees. `LoadAllDefects` may bring any part of the posted defects: a query answers from
the cache when the phone is offline (`DefectTracker` has the precise answers). `reloadData` and the table's questions
(`Layout`) are two steps, since UIKit lays out in a later turn; nothing can be tapped between them.

A date is the moment and the phone; its text is the moment plus that phone's `Offset` (`getString`), and `Readings` is what
`getDate` can make of it here: the moments whose local time here is that text. There may be none (clocks were put
forward) or two (they were put back: which one `DateFormatter` takes is not in this repository, so either). `Sorted` and
`MayTrap` let each look at a date take either reading. `sorted` compares, and so parses, only when there are two defects.
`timeSymbol` traps on the future, in `Layout` and `Scroll`. The cells of all rows are taken to be made by `Layout`, which
only makes traps earlier.

### Accounts

| Variable | In the code |
|---|---|
| `accounts` | what Firebase Auth knows: a password per email (modelled from the calls `createUser` and `signIn`) |
| `profiles` | the UserData collection of the backend, one document per email |
| `memory[d]`, `disk[d]` | profiles posted, on the SDK's worker queue and in its mutation queue; the part of `FirestoreSync` that a single post of a document needs |
| `phone[d]` | the screen, the alert, `userData` (the app's global), `saved` (the credentials in UserDefaults), and the handler under way |
| `interrupted` | emails whose sign-up was cut (a record for the properties, read by no action) |

A handler is cut where the code waits for a callback, and `phone[d].step` says where it is: `check`
(`checkUserExists` asked), `create` (`createUser` asked), `created` / `notCreated` (Auth has decided, the answer is on
its way), `signIn`, `profile` (`getUserData` asked), `silent` (`getUserData` will call nobody back). The steps of the
service and of the answer are separate for `createUser`, because between them the answer can be lost or the
process die; `checkUserExists`, `signIn` and `getUserData` change nothing remotely, and are one step each. While a
handler is under way the loading view covers the screen, so nothing else can be tapped.

`Found` is what `getDocument` answers from: the device's own pending document if there is one, else the backend's.
Its steps ask for `memory[d] = {}` because the worker queue is FIFO: the posts made before the query have run.
`checkUserExists` counts every error as "no such user", so its second outcome is always possible. The text of the
inputs is left out: `RejectInput` stands for every input that the guards throw on.

### RemoteFeedLoader

The completion that `load` hands to the client is two steps: `Respond` (the guard on `self`) and `Deliver` (the
switch, the mapping and the call of the user's completion). `OneThread` says whether anything can happen between
them. A body is `Garbage` (does not decode) or a sequence of items, each with a date text that parses or not; one
that does not traps in `Date(string:)`. Items are their ids, by which `DefectItem` compares.

## Runs

| Run | Instance | Shows |
|---|---|---|
| `api_devices` | 2 devices, 1 defect, 3 pending writes and a pipeline of 2 each, refusals, no queries | `LeavesOnlyArchived` and the invariant it is proved from, `ArchiveFirst`; type correctness |
| `api_solo` | 1 device, 2 contents, 3 pending writes, 1 query, queries that fail, refusals, fairness | the SDK implements `AtomicStore` for a device alone (`SoloSeesAtomicStore`), and the invariant it is proved from (`QueueHidesDelay`); a queue that does not empty keeps losing its head (`QueueNeverStuck`) |
| `stream_users` | 2 users with symmetry, 2 writes in all, a pipeline of 2, refusals | `AssertionsHold`, `PipelineInStep`, `UsersStayApart`, `NoWriteIsLost`; type correctness |
| `stream_live` | 2 users, 1 write, refusals, fairness | `QueueNeverStuck` of the detailed stream; every user's queue is a device of `DefectApi` (`ImplementsApi`) |
| `tracker_device` | 1 device, 1 defect, 2 pending writes, 1 query, queries that fail | type correctness, `ReadModeShowsDefect`, `EditsAreSubmitted`, `ImplementsApi`, `FeedFallsBehindUntoldOnly` |
| `tracker_solo` | 1 device, 1 defect, 2 contents with symmetry, no resolutions, 2 pending writes, 2 queries, none of which fails, refusals | `SettledFeedIsCurrent` and the invariant it is proved from, `FeedCatchesUp`; `FeedFallsBehindUntoldOnly` |
| `tracker_reopened` | 1 device | a finding: `ClosedDefectsAreExplained` fails |
| `feed_phone` | 3 defects with symmetry, moments 0 to 3, 2 loads under way, this phone and one an hour ahead | `RowsOpenWhatTheyShow`, `FeedInOrder`, `TrapsNeedForeignTexts`; type correctness |
| `accounts_devices` | 2 devices, 1 email, 2 passwords, fairness | type correctness, `ProfilesMatchAccounts`, `LockedOutOnlyIfInterrupted`, `LoggedInAsOneself`, and that the loading view goes, except where `getUserData` falls silent: `LoadingEnds` |
| `loader_one_thread` | 2 loads, 4 feeds, 2 statuses | type correctness, `AnswersAreReferenceAnswers`, `NoDeliveryAfterRelease` |
| `loader_invalid_data` | the same | a finding: `InvalidDataIsReported` fails |
| `loader_two_threads` | the same, two threads | a finding: `NoDeliveryAfterRelease` fails |

**Bounds.** `MaxPending` bounds the writes of a device in `calls` and `queue`; three hold one archiving (two
writes) and one more write before, between or after them, which is where a replay or another device could
interfere. `MaxPipeline` is 10 in the code (`remote_store.cc:59`); 2 is enough for one acknowledgement under way
while another write commits, and 1 is used where the screens multiply the states. `MaxLoads` bounds queries that
have not been answered; 2 let a second load start while the first is under way. One defect is enough for
properties that speak of one id at a time: the SDK orders writes per device, not per document, and an id meets
another only in that order; what the theorems say they say of any number. One content (`Contents = {c1}`) and one
resolution in `tracker_device` still give four documents (with or without the resolution, closed or not), and inputs
that are `Blank`. `tracker_solo` has two contents, which are interchangeable, and no resolutions: what
it asks is whether the list has this version of a defect or that one, and a refusal needs a version to go back to. Two devices, one email and two passwords are what a race for an email takes.

In `stream_users` two writes in all let one be refused while the result of the other is under way, a write wait in the queue
of a user who left, and one be called before and run after a change of user. They do not let all
three things happen on one stream that `WriteFails` is about: a result lost, another write refused, and a third one failing;
`NoWriteIsEverLost` covers it, for all bounds. The limit of the pipeline itself is met by
`api_devices`. `MaxTokens` bounds the token requests and changes of user under way *when the user or the network
changes*, not the tokens that the stream asks for by itself: with 1 a change of user still meets a token that was asked
for before it, and the answer of a closed stream still meets the next one. `stream_live`
has one write, which travels the whole way; the order of two is a matter of safety, which `stream_users` looks at. A run
that compares each step with `DefectApi` costs several
times as much as one that does not, so `ImplementsApi` is checked here. With one write at a
time there is no archiving (two writes) in it, and no write whose place another one could take: `StreamImplementsApi` proves it
for all bounds.

In `feed_phone` this phone's clocks go forward at moment 1 and back at moment 2 (`MCOffset`), so that a text can have no
reading, two, or another one than it was written at, while 0 and 3 are plain: the order of two plain defects is
put to the test with a third that is not. Two loads are one of this feed and one of an earlier feed.

**Fairness.** In `api_solo`: weak fairness of the worker queue's tasks and of the first snapshot of a listener
(online, offline after a timeout, or an error). Strong fairness of `Commit` and `Acknowledge`: the SDK opens the
write stream again after every failure for as long as writes wait (`remote_store.cc:478`, with back-off), so a
step that the connection allows again and again happens. A backend that always breaks the stream between a commit
and its acknowledgement is excluded by this, as is a device that is never online.

In `stream_live` that retrying is no assumption any more: back-off, token, handshake and refill are steps of the model, and
what is assumed is that queues and timers run (weak fairness of `Notice`, `TakeToken`, the worker queue, `BackoffElapsed` and
`OnStreamFinish`), and that no single outcome is denied for ever: of a token that is asked for again and again one is
answered, of the tokens that arrive in time one opens the stream, and messages that are sent again and again get
through in each phase of the stream (strong fairness). Nothing else is assumed of a connection that breaks at
will. `QueueNeverStuck` speaks of a user who stays, and of a connectivity monitor that falls silent in the end
(`<>[][~ConnectivityChanged]_vars`): each of its events restarts the stream, and a network that flaps faster than the
handshake takes holds every write back.

In `accounts_devices`: weak fairness of the worker queue, and of the answer of a request, be it an error. Nothing is assumed
of the user, and a request that Auth never answers in any way is excluded (its client times out).

**Deadlock** is checked in every run but the loader's: a user can always do something. The loader's loads are finitely
many, and a trap ends the process.

## Findings

1. **A closed defect without a resolution** (`tracker_reopened`). `onCloseButtonTapped` demands a resolution ("A
   resolution description is required to close"), but `updateDefectFromInput` copies the resolution unvalidated
   and `onSubmitButtonTapped` does not look at `isResolved`: Close, Edit, clear the resolution, Submit leaves a
   closed defect with none.
2. **Invalid data traps the mapper** (`loader_invalid_data`). `map` guards the decoding with `try?`, then evaluates
   `root.feed`, where `Date(string:)` force-unwraps. A 200 response with another date format ends the process;
   the tests promise `invalidData` for invalid JSON and never try this one.
3. **An answer after release** (`loader_two_threads`). `guard self != nil` keeps no reference. With a client that
   calls back on another thread the owner can let go between the guard and the delivery. The test of that name
   completes on its own thread and cannot see it.

## Proofs

`DefectApi_proofs`, for any devices, defects, documents and bounds:

* `TypeCorrect`: `ApiSpec => []SyncTypeOK`. The part that is not typing is that `synced <= applied <= Len(queue)` and
  `applied <= MaxPipeline`; it is inductive as it stands. `OverlayType` rests on `MaxOfPositions`, that the largest
  element of a finite set of positions exists, which is proved by well-foundedness of strict inclusion.
* `ArchiveComesFirst`: `ApiSpec => []ArchiveFirst`.
* `NoDefectIsLost`: `ApiSpec => LeavesOnlyArchived`.

`LeavesOnlyArchived` says that a defect vanishes from Defects on the backend only if its archived copy is there or was
refused. It is about one commit, but why it holds is spread over the device: the archive write may be in memory
while the deletion is, on disk while the deletion is still in memory, committed while the deletion is on disk, or
committed, rolled back into the pipeline by a broken stream and committed again. `ArchiveFirst` says this
position by position: no task deletes from Archive; a deletion in `queue` has its archive write before it in
`queue` or is settled; one in `calls` has it before it in `calls`, anywhere in `queue`, or is settled; and an
archive write among the `applied` first of `queue` is on the server. The last part is what survives the loss of
acknowledgements. A crash keeps it because it drops all of `calls` and none of `queue`. The step lemmas treat the
calls (`SubmitKeepsArchiveFirst`), the moves of a write through the SDK (`SyncKeepsArchiveFirst`) and everything
else (`UnchangedKeepsArchiveFirst`).

Assumptions on the constants: `SyncAssumption` and `PathAssumption`, that `NoDoc` is no document, `Query` no mutation,
and the paths are the two collections' paths of the ids.

`AtomicStore_proofs` extends it, with the hypothesis `Alone`: the one device is `Solo`. The backend may refuse what it likes.

* `DelayIsHidden`: `Alone` implies `ApiSpec => []QueueHidesDelay`.
* `SoloSeesAnAtomicStore`: `Alone` implies `ApiSpec => SoloSeesAtomicStore`.

The store that a device sees is its cache with its queue laid over it (`Overlay`), and a query may replace the cache
by the backend's documents at any time, of any age in terms of acknowledgements. `QueueHidesDelay` says why that
does not show. Wherever the backend lags behind a write that it has already committed (`CommittedIsThere`), or the cache
behind one that a query has brought (`SyncedIsCached`), a later write to the same document is queued; and where cache
and backend differ, some write to the document is, or one was refused (`DoubtNeedsRefusal`). It is inductive with typing.
The lemmas are about the last write to a document (`OverlayLast`) under an append, a tail and a change of what lies below.

A refusal takes a write that the app has seen out of the queue, and the abstract store has to say what that may do. Its
document goes back to what the backend has, or to a later write. If the refused write had been committed before, and was
refused when the broken stream sent it again, the cache may hold an older version than the backend, with nothing
queued over the difference. Such a document is `Doubtful`: an answer from the cache may be wrong about it, and
about no other. A write of the document ends the doubt, and so does an answer online. `AtomicStore` says no more than
this, and records of which documents a write was refused: it changes no other but by a write. `DoubtsStep` follows the doubts through the SDK; `QuietStep`, `AnswerShows` and `RefusalShows` are the three
kinds of steps it takes by itself, and `SDKStep` and `StoreStep` put the refinement together.

The hypothesis `Alone` is needed: another device writes behind the queue's back. `api_devices` has several.

`WriteStream_proofs`, for any users (finitely many), defects, documents and bounds, rests on `StreamAssumption`:

* `TypeCorrect`: `Spec => []TypeOK`.
* `AssertionsAlwaysHold`: `Spec => []AssertionsHold`.
* `PipelineStaysInStep`: `Spec => []PipelineInStep`.
* `UsersAlwaysStayApart`: `Spec => []UsersStayApart`.
* `NoWriteIsEverLost`: `Spec => NoWriteIsLost`.

None of them is inductive, nor are all of them together. `Inv` adds four things to typing.

* `HopsOK` and `TokensOK`. The users that Auth, the provider and the sync engine know are linked by the changes on their
  way: whoever has handled the first `i` messages of a queue has the user `UserIs` says, and a write is queued behind the
  change to its own user. Of the tokens on their way, one that the provider will not ask for again, and that no change of
  user comes before, is the user's own; so is one that the stream would take.
* `OneRequest`: for the present `close_count_` there is one request, or one token, at most, and none unless the stream
  waits for it. That is why a stream that opens leaves no second token behind, and what `Unused` has to give.
* `IdsOK`: no batch id is given twice, so `RemoveMutationBatch` takes the head of the queue (`WithoutHead`).
* `FlowOK`: the pipeline is the head of the user's queue and as long as it may be; before the handshake is complete it is
  all that is under way (`Shaking`); after it, results and requests under way are the pipeline, a result is of a committed
  write, and so is every write before the one a stream was ended for (`Talking`). The last is what
  makes `OnStreamFinish` drop no write for nothing even when `WriteFails` has thrown results away.

`FillFlows`, `ClosedFlows` and `RestartedFlows` are about the routines that handlers share. `BecomeStep`, `DropStep` and `MainStep`
reduce a handler to what it does to the stream, to the queue and to the main queue; then there is one lemma per action.

`StreamImplementsApi_proofs` extends it by the refinement:

* `StreamImplementsApi`: `Spec => ImplementsApi`.
* `NoUserLosesADefect`: `Spec => Api!LeavesOnlyArchived`.

Every user is a device: the device's `calls` are the user's writes on the worker queue, its `queue` is the user's mutation
queue, and `applied` counts the results under way to the stream, for the user whose stream it is. Each handler is then a
step of one device or of none.

| Handler | `DefectApi` |
|---|---|
| `Call` | `Submit`: the calls of one method join the worker queue |
| `RunWrite` | `WriteLocally` |
| the backend serves a write | `Commit` |
| `OnStreamRead`, the result of a write | `Acknowledge` |
| `OnStreamFinish`, a permanent error after the handshake | `Refuse` |
| a stream that closes with results under way, for whatever reason | `LoseStream` |
| everything else | stutters |

`CallsOf` picks a user's writes out of a queue that holds tokens, changes of user and other users' writes as well.
The proof numbers their places in increasing order (`InOrder`, which `NthInOrder` shows `Nth` to be), and derives from
it what an append and a removal at the head do to `CallsOf`. `Inv` gives the rest: `FlowOK` that the write served next
is the one at place `applied + 1` of the queue, `IdsOK` that what is removed is its head. It is strengthened by
`RefusalsOK`: a status is only ever sent by a backend that may refuse. `WritesCounted` translates the bound on
writes. `NoUserLosesADefect` comes from `NoDefectIsLost`, by an instance of `DefectApi_proofs` under the same mapping.

`Accounts_proofs`, for any devices, emails and passwords, rests on `AccountAssumption` (`None` is none of the values):

* `ProfilesBelongToAccounts`: `Spec => []ProfilesMatchAccounts`.
* `NobodyLockedOut`: `Spec => []LockedOutOnlyIfInterrupted`.
* `LoggedInIsOneself`: `Spec => []LoggedInAsOneself`.
* `TypeCorrect`: `Spec => []TypeOK`.

`ProfilesMatchAccounts` is not inductive: a step posts the profile of a sign-up that was created, and nothing in it says
that the account is still its own. `Inv` adds that (`OwnersOK`: between the creation and its answer a sign-up has the
account's password, no profile has the email, no other sign-up owns it), that an email has one profile wherever its
copies are (`OneProfile`), and that a phone's input is what its handler expects (`PhonesOK`). `FewerProfiles` is the
lemma most steps need: accounts are only ever added, so a step that adds neither a profile nor an owner keeps all
of it; `CreateAccount` and `CreateAnswers` are the two that do. `LockedOutStep` and `LoggedInStep` then follow an excuse, and a
user's profile, through each step. `OneProfile` is what makes the last one true: the profile that a device read from its
queue is the one the backend gets, whichever device's write arrives.

`DefectTracker_proofs`, for any devices, defects, contents and bounds, extends `AtomicStore_proofs` and rests on the assumptions
of `DefectApi` and on `TrackerAssumption`:

* `TrackerTypeCorrect`: `Spec => []TypeOK`.
* `ReadModeIsHonest`: `Spec => []ReadModeShowsDefect`.
* `EditsReachTheQueue`: `Spec => EditsAreSubmitted`.
* `TrackerImplementsApi`: `Spec => ImplementsApi`, and from it and `NoDefectIsLost`
* `TrackerLosesNoDefect`: `Spec => LeavesOnlyArchived`.
* `FallingBehindIsUntold`: `Alone` implies `Spec => FeedFallsBehindUntoldOnly`.
* `TrackerFeedCatchesUp` and `SettledFeedsAreCurrent`: `Alone` and `~QueriesMayFail` imply `Spec => []FeedCatchesUp`, and
  from it `Spec => []SettledFeedIsCurrent`.

The invariant is typing and `ScreenOK`: a defect on the screen has an id, only a defect is shared with the feed, and in read
mode there is a defect and the inputs are its own. The last part is what `ReadModeShowsDefect` says, for every screen and
not only for the one on top. `StepOK` is what a handler amounts to, whatever it does (a screen in order, a step of
`ApiNext` or none, an edit only with its write); one lemma per handler shows it, and `TrackerStep` adds the SDK.

`SettledFeedIsCurrent` says nothing while a load is outstanding, so it is not inductive. `FeedCatchesUp` adds what holds
then: whoever sees the list, or may still add to it, has a load outstanding behind which nothing was written, so that its
answer will be current. A shared object may be edited behind a load; but the answer cuts the link, and the screen is out of
touch with the list until the feed appears, which asks again. A detail screen without a defect is in touch although it
shares nothing: `createDefect` will share its object. `KeepsUp(d, id)` is that statement for one device and one defect. The
SDK's steps are treated through the refinement: `SDKStep` says which step of `AtomicStore` each is, and the lemmas
`CatchesTakeEffect`, `CatchesStart`, `CatchesAnswer` and `CatchesElsewhere` follow the list through these, with no word of
streams, acknowledgements or caches.

Each step keeps `KeepsUp(d, id)` but for three (`KeepsUpStep`): a query that fails, a write of that defect that is refused, and an
answer from the cache about a defect in doubt. The app is told of none of them; and whatever has happened, a step that
brings the feed to the top makes it true again, because `viewWillAppear` loads (`AppearingCatches`). This is
`FeedFallsBehindUntoldOnly`. TLC finds that none of the three can be left out: without the first `tracker_device` is violated,
without either of the others `tracker_solo`. Where no query fails, and for a defect of which no write was refused, none of the three can happen, since a doubt
needs a refusal (`DelayIsHidden`) and what was refused stays recorded (`RefusedForGood`): this is how the two invariants
follow. Of a refused document they say nothing: the feed that is on screen when it is refused keeps the write until it loads again.

`FeedTable_proofs`, for any defects (finitely many), phones, offsets and bounds, rests on `FeedAssumption`:

* `TypeCorrect`: `Spec => []TypeOK`.
* `RowsAreRight`: `Spec => []RowsOpenWhatTheyShow`.
* `FeedIsInOrder`: `Spec => []FeedInOrder`.
* `OnlyForeignTextsTrap`: `Spec => []TrapsNeedForeignTexts`.

Together they are inductive but for two parts: nothing is created after `now` (`CreatedBefore`, without which a plain date
could be in the future), and the table has no more rows than the list (`RowsInStep`). `OrderKept` and `MeaningKept` carry the
order and the excuse of a trap through every step that only adds; `LoadAllDefects` is the one that does more, and
`TrapStep` treats the traps.

`RemoteFeedLoader_proofs`, for any loads, statuses and bodies, rests on `LoaderAssumption`:

* `TypeCorrect`: `Spec => []TypeOK`.
* `AnswersAreRight`: `Spec => []AnswersAreReferenceAnswers`.
* `OneThreadIsSafe`: `OneThread /\ Spec => NoDeliveryAfterRelease`. With two threads it is false, as `loader_two_threads` shows.

The invariant says of each load that what was delivered is what its own response maps to (`Answered`), and, on one thread, that a
completion that has passed its guard has a loader that lives (`CheckedWhileAlive`).

Only model-checked: liveness (`QueueNeverStuck` of both modules, `LoadingEnds`), which is out of the prover's reach.

## Not modelled, and why

* Drop-down suggestions (`stringRepresentations`, `matches`), status colours, titles, layout: pure functions of static
  lists, with no state and nothing that a unit test would not show.
* The flow that starts at the home screen (`ChooseAnAircraftViewController`, `EnterDefectDetailsViewController`): at this commit
  it presents screens and writes nothing. The tables of stations and aircraft show bundled JSON. `Tools/csv-json.py`
  made that JSON once, from a spreadsheet.
* Patches, transforms, transactions and long-lived listeners of the SDK: the app uses none.
* Security rules: not in the repository; `Refuse` and `FailQuery` may happen at any time instead.
* The probability of an id collision.
* What two devices may do to each other's edits: `put` replaces the whole document without a precondition, so the last
  write wins, and a device with an old copy brings an archived defect back. The code promises nothing else, and
  the models allow it (`api_devices`); there is no property to state.
* The rest of the vendored pods (gRPC, BoringSSL, Auth and most of Firestore), which is all but a few thousand of the
  repository's lines and no part of the program's own logic: this is why the map covers a small share of them.

## Plan

1. The watch stream and the query listeners, if the app comes to use listeners that stay open.

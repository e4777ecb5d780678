# Tironian: a formal model of its core

Tironian is a local-first dictation application. A data store accepts every edit
in memory and owes it to a durable engine and to an authority (`packages/data`); a
recorder and a transcriber live in a Tauri host (`apps/desktop/src-tauri`); the
dictation application joins the two (`apps/tironian`). The hard behaviour is in the
seams: work accepted while a batch is being written, a refused write retried behind
newer work, a crash between two writes, a key released while a recording is still
starting, two stops that answer in the other order, a capture that dies while
somebody stops it, a keystroke sent to where focus was.

This directory holds TLA+ modules for those parts, the TLC configurations that check
them on small instances, and proofs that TLAPS checks for every value of the
constants. `PROJECT.json` maps every definition to the source lines it stands for,
and lists the runs, the hazards each property is for, and for every property one
plausible bug of the code (a *mutant*) that the run of that property finds.

To check something: `tlc -config Store.cfg MCStorePersistence.tla`; to prove it:
`tlapm StorePersistence_proofs.tla`, and so on for each `..._proofs.tla` (the largest take
3 to 7 minutes from nothing).

Contents: [1 Inventory](#1-inventory) · [2 Plan](#2-plan) · [3 Modules](#3-modules) ·
[4 Runs](#4-runs) · [5 Bounds](#5-bounds) · [6 Fairness and deadlock](#6-fairness-and-deadlock) ·
[7 Proofs](#7-proofs) · [8 Disagreements with the code](#8-disagreements-with-the-code) ·
[9 Not modelled](#9-not-modelled)

## 1 Inventory

Paths are relative to the repository. "Hard" is what a test hardly reaches, "Correct"
what makes the part right.

### The data package (`packages/data/src/store`)

**Store persistence controller** (`persistence.ts`). State: a queue of accepted
operations, the batch in flight, a mirror of what is durable, a status
(`saved`/`saving`/`blocked`), waiters of `flush()`. Operations: `enqueue`, `flush`,
`drain`, the settlement of a commit. It is called by every verb of the store and calls
a durable port, which is synchronous (SQLite) or asynchronous (IndexedDB). Hard: work
that arrives while a batch is out; a refusal that puts the batch back in front of newer
work; a flush asked for in the middle; disposal on a blocked engine. Correct: nothing
accepted is lost, doubled or reordered; the status and `flush()` tell the truth;
disposal ends.

**Durable update log** (`log.ts`, `browser.ts`, `bun.ts`). State: per document a chain
of rows, folded into a baseline at a threshold; a history file beside the live one;
cursor, identity, tombstones, outbox. Operations: one transaction per batch. Hard: two
files committing apart; positions that restart at a fold. Correct: a replay gives back
everything that was committed.

**Account replica** (`store.ts`, `envelope.ts`). State: live documents, retired
addresses, cursor, identity, outbox and acknowledgements, on top of the two parts above.
Operations: transactions, row deletion, document edits, coalescing, sending and
acknowledging, applying a remote entry. It talks to a transport and an authority that are
not in the repository. Hard: a crash between accepting, storing, sending and being
acknowledged; lost pushes and acknowledgements; outbox ids after a restart. Correct: what
this device authored is owed until the authority has it; the cursor never passes what is
stored; nothing leaves that a crash could take back.

**Row documents** (`documents.ts`). State: live documents with reference counts,
hydrations, retired addresses. Operations: `open`, `release`, `acceptRemote`, `retire`,
`states` (a snapshot), `destroy`. Hard: chain reads awaited beside flushes, overlapping
opens and closes, retirement at any await. Correct: a hydrated document holds everything
accepted; unloading loses nothing; a retired address takes no byte; a snapshot is
complete.

**Claims and document roots** (`claims.ts`, `document.ts`, `engine.ts`), **definitions and
projection** (`definition/`, `projection/`): synchronous or pure code.

### The host (`apps/desktop/src-tauri/src`)

**Host recorder** (`recorder/recorder.rs`, `commands.rs`, `ended.rs`, and the page's side
`apps/tironian/src/lib/services/recorder/index.tauri.ts`). State: one slot behind a
mutex, a worker thread per capture with a bounded queue, the file it writes, the tray, and
in each window's page the recording it believes it holds. Operations: start, stop, cancel,
the end of a capture on its own, destruction of a window, reload of a page. Hard: commands
on threads, a join while the mutex is held, error threads that run late, events a page is
not there to hear. Correct: one microphone; the audio of an occupied slot is claimable and
whole; every command is answered; a page hears the end of its capture.

**Blob staging and stores** (`recorder/blob.rs`, `packages/blobs`). State: a directory per
blob, made by one rename of a directory under `.staging` that names the process writing it.
Operations: stage, finish, publish (a ladder of syncs and the rename), discard, the sweep of
a launch; the sidecar's put and delete. Several hosts share it. Hard: a crash or a loss of
power on any rung, a sweep beside a live recording, pids that come back, two puts of one id.
Correct: what has a blob's name is whole; what a caller was told is true; a sweep takes only
what nobody is making.

**Transcription models** (`transcription/model_cache.rs`, `catalog.rs`, `settings.rs`,
`download.rs`, and the page's `state/local-models.svelte.ts`). State: one resident model
behind a lock, the choice and the unload policy, the downloads under way, and the page's
transfers. Operations: transcribe, prewarm, the idle watcher, choose, delete, download,
cancel. Hard: files that change between resolving, fingerprinting, loading and running; a
cancel, and a new download, of a transfer that has not ended. Correct: an answer names the
model and the bytes that ran; one transfer of a file at a time; a cancelled one is let go of.

**Keyboard** (`keyboard/`). State: a supervisor of the macOS event tap, its channel, the tap's
thread; a tracker of held modifiers (Windows). Operations: an intent, a dead tap, an elapsed
wait. Hard: a grant that an update made stale reads as trusted. Correct: one tap, and only
when wanted; a stale grant is found out; every reported press is followed by a release.

**Host text delivery** (`delivery.rs`, `clipboard.rs`). State: the borrow outstanding, and the
clipboard it shares with the person. Operations: `write_text` with its fallbacks, and the
restore it schedules. Hard: a delivery while the last one's transcript is still on the
clipboard; a restore that wakes after a copy. Correct: the clipboard comes back, never over
something newer, and a transcript is never handed back as the person's.

**Media, overlay, shell** and the **sidecar server** (`apps/desktop/src`): single calls of
the operating system; request handlers. The page's `operations/media.ts` chains the calls
that pause and resume playback.

### The application (`apps/tironian/src/lib`)

**Manual recorder** (`state/manual-recorder.svelte.ts`, `operations/recording.ts`,
`operations/capture-queue.ts`). State: the current recording, a start in progress, a
bootstrap after a reload, and a queue of snapshots of what was selected when each capture
began. Operations: start, stop, cancel, toggle. Hard: operations that park on the bootstrap;
a queue of snapshots popped by ends that answer in any order. Correct: no recording is
orphaned; each runs with its own snapshot.

**Push-to-talk and hands-free** (`operations/push-to-talk.ts`, `hands-free.ts`). State: a
session, its fuse, a held stop, a lock. Operations: press, release, double tap, timers,
disposal. Hard: a release in each await of a startup, lost and doubled edges, timers against
late presses. Correct: nothing is stuck on, a stop takes only what it was meant for.

**Dictation pipeline and delivery** (`operations/pipeline.ts`, `delivery.ts`,
`cursor-sink.ts`, `run-voice-command.ts`, `repeat-last-dictation.ts`, the recipe picker,
and the states `last-delivery`, `last-dictation`, `dictation-lifecycle`). State: a promise
chain of runs, the outcome the pill shows, the last delivery ("scratch that") and the last
dictation ("paste again"). Operations: a run from stored audio to delivered text, the voice
commands, a repeat, a recipe. Hard: a slow run overtaken by a quick one, a throw between two
markers, focus read before a keystroke. Correct: delivery in the order of capture, an undo
that takes its own text, a pill that is honest, a queue that outlives a failed run.

**Voice activation** (`packages/recorder/src/vad-recorder.ts`, `state/vad-recorder.svelte.ts`, half of
`operations/recording.ts`). State: a session, a start in progress, the reactive wrapper's own
state, a timer that gives playback back. Operations: arm, stop, and the callbacks of an
external detector. Hard: three awaits while arming, each of which may fail; the queue of
snapshots and the playback it shares with manual recordings. Correct: no microphone is left
open; an utterance runs with its own snapshot; what was paused plays again.

**Correction learning** (`operations/learn-corrections/`, `state/learned-terms.svelte.ts`, and the
host's `field_text.rs`; Windows only). State: the host's one target, the field of the newest paste,
with a budget of reads and the anchors its first read found; the page's one observation, with
timers; the terms learned. Operations: a paste that is observed, reads on timers and when the next
dictation starts, the close, the decision of what was corrected. Hard: a read asked of one paste that is
served by a newer one, a close that arrives late, a read that outlives its timeout. Correct: a term
is learned from two agreeing reads of its own paste, and is active by itself only after two dictations.

**Transcription and completion clients** (`packages/client`), **application data** (`lib/app`), and **fields,
constants, identity, utilities and interface**.

### How they interact

A key edge reaches push-to-talk, which calls the manual recorder, which calls the host
recorder over commands and hears of it over events. An ended recording's audio goes to the
blob store; its run is chained on the pipeline, which calls the transcription and completion
clients, writes rows through the account replica, and writes text through the host's
delivery. Every row write is a transaction of the store, which the persistence controller
owes to the update log, and which the replica owes to the authority. Row documents hang off
rows and use the same controller.

## 2 Plan

| # | Module(s) | State |
|---|---|---|
| 1 | `StorePersistence`, abstract `DurableLog`, refinement, proofs | done |
| 2 | `AccountReplica` (on what 1 guarantees) | done |
| 3 | `RowDocuments` | done |
| 4 | `UpdateLog`, proofs | done |
| 5 | `HostRecorder` | done |
| 6 | `ManualRecorder`, and `PushToTalk` composed with it | done |
| 7 | `DictationPipeline` | done |
| 8 | `Captures`: voice activation and playback, composed with `ManualRecorder` | done |
| 9 | `ModelCache`, and `LocalModels` composed with it | done |
| 10 | `BlobStaging` | done |
| 11 | `GrantWatch` | done |
| 12 | `TextDelivery`, composed with `GrantWatch` and `FieldObservation` | done |
| 13 | The hold tracker of Windows; the writes of `DictationPipeline` over `TextDelivery` | left |

Proofs, in order (section 7):

| # | Module | State |
|---|---|---|
| 1 | `StorePersistence_proofs`, with the refinement, and `UpdateLog` | done |
| 2 | `LocalFiles_proofs`: blobs, and the local models | done |
| 3 | `TextDelivery_proofs`: the learning of corrections, and the borrow of the clipboard | done |
| 4 | `HostRecorder_proofs` | done |
| 5 | `RowDocuments_proofs` | done |
| 6 | `AccountReplica_proofs` | done |
| 7 | `DictationPipeline_proofs` | done |
| 8 | `Recorders_proofs`: `ManualRecorder`, whose invariant `Captures` and `PushToTalk` extend, then each of the two | done |
| 9 | `TextDelivery_proofs`: the watch on the grant | done |
| 10 | `IdsAreFresh` of `AccountReplica`, `RowsAreBounded` of `TextDelivery`, `TrayIsHonest` of `HostRecorder` | done |

No module declares a RECURSIVE operator, so that each can be proved about.
An abstract specification is worth stating for the replica (a set of edits that eventually is
in the authority's log) and for the recorder (a slot and its file).

## 3 Modules

Every module is one component. `VARIABLES` are the state of the code plus variables marked
*history*, which only properties read. An action is one handler, or the part of a handler
between two awaits (JavaScript), two acquisitions of the lock (Rust), or two transactions
(IndexedDB): the points at which something else can run. Some definitions after their
originals carry a mistake the code could have (`FinallySpinning`, `BeginAtOnce`, ...); no
`Next` uses them, they are the mutants of `PROJECT.json`. `MC...` modules give a component
what TLC needs and nothing else.

**`DurableLog`** is what the data package promises: one order of acceptance, a durable copy
that is a prefix of it, a crash that loses the rest and only that.

**`StorePersistence`** is `createPersistenceController` over both kinds of port. `queue`,
`flying`, `again`, `settled` and `told` are the controller's variables; `phase` is where the
batch in flight is (out, landed, refused, handled), because an asynchronous commit settles in
separate microtasks (`Succeeded` or `Failed`, then `Finally`), between which verbs can run.
`Attempt` is `requestFlush` with its loop and its two kinds of port; `Enqueue`, `Flush`,
`Dispose`, `Close` and `Restart` are the operations. The engine is the sequence of operations it
committed, and `Log == INSTANCE DurableLog WITH durable <- engine` is the refinement mapping.

**`UpdateLog`** is one document's chain inside transactions: `Begin`, `AppendUpdate` (with the
fold when the chain reaches `Threshold`), `Commit`, `Abort` (a refusal, or the process dies), and
`Discard`, which deletes the live file and leaves the history. The history file commits inside
`AppendUpdate`, before the live file does.
What a row's bytes carry is a set of updates, as Yjs merges are unions.

**`AccountReplica`** stands on what `StorePersistence` guarantees: `owed` is a sequence of
batches, `Land` commits one prefix atomically, `Observe` lets the mirror follow, `Restart` reopens
from the engine. Local verbs are `Insert`, `Delete` and `EditDocument`; what is offered, coalesced
and acknowledged is `Offered`, `Coalesce`, `Acknowledge`; `ApplyRemote`, `RefuseRemote` and
`Advance` are the reading of the log. A batch is a set of operations, since no two of one batch touch
the same thing, and `Committed` says in closed form what a store holds after batches that are committed one
after the other: what they append and nothing later retires, what they insert and nothing later removes, the last
cursor, the first identity. (That form was checked to equal the operation-by-operation fold in every
reachable state.) The transport and the authority are external: `Receive`,
`LosePush`, `LoseAck` and the foreign devices (`ForeignCreate`, `ForeignDelete`, `ForeignEdit`).

**`RowDocuments`** is `documents.ts` over an IndexedDB port. `transactions` is the order of open
transactions; a read or a write ends in that order, and the promise callbacks it sets off are in
the same step. `Open`, `Hydrate`, `HydrationFails`, `OpenSucceeds`, `OpenFails`, `Close`,
`AcceptRemote`, `Retire`, `Destroy` and the walk of a snapshot (`SnapshotStarts`, `SnapshotLists`,
`SnapshotReads`) are its operations. A port whose reads and writes never overlap (SQLite) is the
special case in which a transaction ends at once. What a transaction leaves of a chain is again a closed form:
what was there unless it retires the address, and what it appends behind no retirement.

**`HostRecorder`** has an actor per command (`call`), capture worker (`worker`, `commands`),
microphone (`stream`), error thread (`enders`), the main thread's closures (`main`, `posted`) and
page (`js`). `lock` is the mutex: a command that joins its worker keeps it (`opening`, `joining`).
The file and the queue of a recording are counters of chunks (`audio`), enough to say that a chunk
was taken, dropped or written.

**`ManualRecorder`** is one page. `waiting` holds the continuations that park on
`ensureBootstrapped()`; after the bootstrap they are microtasks, so no task runs before them
(`Settled`). A recording is named by the start that began it, 0 is one that outlived a reload.
`pending` is the queue of snapshots. It is checked through the two modules that extend it.

**`Captures`** extends it with voice activation and with playback. `vadSession`, `stage`, `mic` and `stops`
are the core recorder's session, how far each start is, the streams held and the stops that are out;
`listening` is the wrapper's state, which is not the same: it is set after the awaits, and gates
what the person can ask. `SpeechStarts`, `SpeechEnds` and `Misfires` are the callbacks. `chain` is the
promise chain of `media.ts`, `timer` the debounce; `PlaybackFollows` is what each step of the manual
recorder does to them. vad-web is external and taken as the code uses it: utterances come one
at a time, and destroying it ends the one in progress (`submitUserSpeechOnPause`).

**`PushToTalk`** extends it: the same recorder, plus the session, its fuse, the held stop, the
lock, the double-tap window and the disposal. Every press and release may come at any time.
A step of the recorder (`Background`) carries the continuation of push-to-talk that follows it
(`Follows`).

**`DictationPipeline`** is the run of each utterance (`run`), the chain (`queue`), the pill
(`outcome`), the delivery of each writer (`write`: an utterance, the repeat, a recipe), the two
records (`held`, `last`) and the world they write to (`focus`, `cursor`). A text is the name of who
wrote it; an application is what stands at its cursor, the last text delivered there or something
else. What recognizer, polish and settings make of an utterance is chosen freely at each run.
Three constants name what the code does not exclude but its claims rest on, and a run assumes:
`Hurried` (an utterance may end while the one before it is still being stored), `Steady` (focus
stays between a probe and the keystroke it is for, milliseconds), `Overlap` (a recipe or a repeat
may write while a dictation does). Section 8 says what happens without each.

**`BlobStaging`** is one shared directory. A writer (`step`) is a native recording (`Prepare`, `Stage`,
`Finalize`, the rungs of `publish`) or a call of a sidecar's `putData` (`PutBegins`, `PutWrites`,
`PutRenames`). `dir` says where its directory is, how much of the data and the metadata it holds, and
what has been synced (`kept`); `answer` what its caller was told. Hosts launch with a pid (`Launch`, `Sweep`,
`SweepEnds`), die (`HostDies`), and strangers take their pids (`PidReused`). `PowerLoss` leaves of
every directory what `Found` says: a file whose data and name were synced is whole, a rename holds once
the root was synced, anything else is there or not. Removals are taken to survive it. The
sidecar syncs nothing, so of its blobs nothing is said past a loss of power.

**`ModelCache`** is the resident model. A call (`call`) is a thread: it resolves without the lock,
waits for it, reuses or loads, runs, and applies the policy. A file is a number, its version: two
versions of a model differ in length or time, which is all that the code's fingerprint sees. `seen` is
history: the files of its model there were while a call was.

**`LocalModels`** extends it with the Settings page and the host's downloads. `attempt` is a run of
`download()` or `downloadAndActivate()`, from the scan to the second verb; `transfers` the map that refuses a second one;
`task` the host's task and its registration. Commands that are not async run on the main thread in
the order sent, so each is one step; a download is answered later.

**`GrantWatch`** is the supervisor (`sup`, with `Reconcile`, `TapStopped`, `Timeout` for its three
handlers), its channel (`control`), and the threads of the tap (`born`, `live`, and the flag `stop` they
share). `grant` is what the system holds: a stale one reads as trusted and lets no tap live.

**`FieldObservation`** is the learning of corrections. `target` is the host's `TARGET`, whose generation
is the delivery that armed it. A task (`tasks`) is a read of the page: asked, taken from the target, answered, then
perhaps awaiting the hash of what it found; one the page gave up on stays at the host as a stray. `current` is
the open observation with the timers still to fire, `endings` the closes on their way, `landed` the
pastes whose reply the page has not handled ("late" once a timer fired since). What the person left in the
field is chosen at each read, as the set of terms it would teach; a term remembers its lessons, which is history:
the delivery observed and the deliveries whose text the agreeing reads were of. `Timely` says that a read or a
reply is over before the next timer (the code's timeout is shorter than the steps of its schedule).

**`TextDelivery`** extends both with `write_text()`, one action between any two of its awaits or
system calls, and the restore it spawns. `slot` is the outstanding borrow. The clipboard holds what reads
there and who put it, which is what Windows' change token tells; elsewhere the code compares text.
Deliveries are numbered as they begin, and the newest takes the host's target. `learning` is the setting. `Simultaneous`
says whether others act between steps the code does not await, `Overlap` whether a delivery begins before the last has
returned, `Crowded` whether all manners of delivery and copies also occur where corrections are learned.

## 4 Runs

| Run | Configuration | Distinct states | What it shows |
|---|---|---|---|
| store | `Store.cfg` | 63 thousand | `Accounted`: engine plus outstanding work is what was accepted. `FlushIsHonest`: `flush()` is true. `ImplementsLog`: refinement of `DurableLog`. `DrainTerminates`: disposal ends. |
| replica | `Replica.cfg` | 1.2 million | `NothingUnowed`, `CursorBehindBytes`, `OnlyDurableLeaves`, `DeletionRetires`, with crashes, lost pushes and acknowledgements, and a foreign device. |
| update_log | `UpdateLog.cfg` | 35 thousand | `ReplayIsComplete`: folding loses nothing a replay shows, wherever the process dies. |
| row_documents | `RowDocuments.cfg` | 74 thousand | `HydratedIsComplete`, `UnloadingLosesNothing`, `NothingAfterRetirement`, `StoredSectionsAreComplete`, with refused batches and failed reads. |
| host_audio | `HostAudio.cfg` | 462 thousand | One window that reloads: `SlotIsClaimable`, `EndedTruly`, `TailIsKept`, `EndingIsHeard`, with a microphone or a disk that fails at any step. |
| host_windows | `HostWindows.cfg` | 121 thousand | Two windows that are destroyed: `OneMicrophone`, `CommandsReturn`. |
| captures | `Captures.cfg` | 504 thousand | Manual recordings and voice-activated sessions in turn: `NoOrphan`, `NoHotMicrophone`, `EachWithItsOwn`, `PlaybackReturns`. |
| talk | `Talk.cfg` | 162 thousand | `NeverStuckOn`, `StopsWhatItMeant`, `ReleaseIsHonored`, with the secure-field gate in front of each start. |
| dictation | `Dictation.cfg` | 336 thousand | `DeliveredInOrder`, `UndoTakesItsOwn`, `PillIsHonest`, `EveryRunEnds`, with failures at every stage, a repeat and a recipe. |
| blobs | `BlobStaging.cfg` | 394 thousand | Two hosts and two puts, with deaths, pid reuse and a loss of power: `WholeWhenVisible`, `AnswersAreTrue`, `SweepSparesTheLiving`. |
| models | `LocalModels.cfg` | 266 thousand | `NamesWhatRan`, `OneTransferPerModel`, `CancelIsHeard`, with another tool that removes files and a network that may be silent. |
| delivery | `TextDelivery.cfg` | 271 thousand | Three platforms: `BorrowIsHonest` (`OwedIsTheirs` and `TakesOnlyItsOwn`), `BorrowEnds`, behind the watch `StaleIsCaught`, and beside the learning of corrections `LessonsAreSound`. |

Beside them are configurations for whoever has more time, or another question: `RowDocumentsTwo.cfg` (two
rows, with symmetry), `TalkHeld.cfg` (three starts, no gate, 2.5 million states), and `GrantWatch.cfg`
(the watch alone with the code's five restarts: `WatchInv`, `ActiveIsWatched`, `OneTap`, `NoTapUnasked`,
`StaleIsCaught`, `GrantIsNoticed`). They pass too, and so do the type invariants of every module, and
`ObservationEnds` and `RowsAreBounded` (`TextDelivery`), `IdsAreFresh` (`AccountReplica`), `OpenIsAnswered` (`RowDocuments`) and
`TrayIsHonest` (`HostRecorder`), which no run lists: add them to its configuration. Section 8 lists configurations
that are violated.

## 5 Bounds

- **store**: `MaxOps` 4 and three batches (of one and two operations). A batch in flight, a
  refused batch behind newer work, a retry and one more batch need four operations; restarts are
  unlimited, and each accepts what the bound leaves.
- **replica**: one row with two local edits and two foreign ones, two batches owed, two entries in
  the authority's log, one restart. One row suffices for the order of bytes, tombstone and outbox;
  the application document is a second document. At most one push is under way, as the code sends
  one at a time.
- **update_log**: threshold 3, five updates: enough for two folds, what the finding needs; the real
  threshold only makes chains longer. Updates are symmetric.
- **row_documents**: one row, two openers, two local updates and a foreign one. Documents share the
  queue but no other state, which `RowDocumentsTwo.cfg` exercises.
- **host**: two recordings, so that a late thread of the first meets the second; either one window
  with one chunk and one reload, or two windows without chunks. A queue of one chunk is full at once,
  and thus drops.
- **talk**: two starts: a double tap, or a press against the button. Presses and releases are not
  bounded: they change nothing that counts.
- **captures**: two starts and what outlived a reload, two sessions, three utterances: a session
  that fails and one that speaks, an utterance that misfires before one that ends. Three calls wait
  on the playback chain at most: a resume, and the pause and resume of the next capture.
- **dictation**: two utterances, a repeat and a recipe, two applications. Two runs are what one overtakes,
  and an undo needs one delivery and its command.
- **blobs**: two hosts with two pids, one native recording and two puts of one id, one loss of power:
  the recording and the sweep that could take it are of different hosts, a pid is used twice, and two puts race.
  Recordings have ids of their own and share only the staging root.
- **models**: two models, one call, two files that ever land, two downloads: a second model
  evicts the first, a file is replaced, and a download is asked for again while the cancelled one ends.
- **delivery**: two deliveries (one that borrows and one that finds the borrow), two words so that a
  copy may equal a transcript or not, one copy, and a watch with one restart; `GrantWatch.cfg` has all five. For
  the learning: two observed deliveries are what a read that strays into a newer paste needs, and what makes a
  term active; three reads of the code's six (a baseline and two that agree; with four the run passes too, in more
  than twice the time); one stray read; one term. There one text is delivered and it stays (`Crowded = FALSE`), since what is on the
  clipboard is nothing the learning looks at.

Every `passing` run fires every action of its next-state relation, alone or with the other runs of
its module.

## 6 Fairness and deadlock

Fairness is stated on what the platform does and never on what a person, a device or a network does.

- `StorePersistence`: a transaction ends (`Land` or `Refuse`), promise callbacks run, and a drained
  store is closed. Nothing assumes that a transaction succeeds, so `DrainTerminates` is about an
  engine that may refuse for ever.
- `RowDocuments`: transactions end, hydrations and opens are continued.
- `HostRecorder`: something of the host and its pages goes on while anything can: threads run,
  workers obey a command they received, the main loop turns, a page's promises resolve. That one
  condition on all of them is enough, and weaker than one on each. A microphone that delivers, dies or is unplugged is not fair, nor is a reload.
- `ManualRecorder` and `PushToTalk`: the host and the bootstrap answer and tasks are taken in order.
  Strong fairness on an answer says that a person who keeps asking does not starve it: an event
  loop takes tasks in order, so one whose turn is often possible comes. The timer of a held stop
  comes; the cap is not assumed.
- `DictationPipeline` (`FairSpec`): storage, models, probes and keystrokes answer or fail. Each of these
  awaits has a deadline (transcription, polish, the probes) or is one call of the host; that one of
  them succeeds is not assumed.
- `LocalModels`: the page is answered and the runtime starts tasks. A transfer need never end, which
  is what makes `CancelIsHeard` a statement about the abort.
- `GrantWatch` and `TextDelivery`: the supervisor's loop and the tap's threads run, waits elapse,
  a delivery that has begun goes on, and a restore wakes. Neither a person nor the grant is fair.
  `ObservationFairness` (timers fire, reads, hashes and replies come) is assumed by `ObservationEnds` alone.
- `AccountReplica`, `UpdateLog`, `Captures` and `BlobStaging` have no liveness: their peers, a person
  or a disk may be silent for ever.

Deadlock is checked in the store's run, which can always go on (a store that is closed can be
opened again). The others say
`CHECK_DEADLOCK FALSE`, since they end where a bound does: every recording minted, every update taken, every
start used, every utterance run. What must not wait for ever is said by `CommandsReturn`,
`CancelIsHeard`, `BorrowEnds` and `EveryRunEnds` instead.

## 7 Proofs

Every obligation of the eight proof modules is proved by the installed backends, for every value of the constants
that the named assumptions allow. Bounds stay what they are in the models, guards on counters, but as constants of
any size: nothing below is about two recordings or one row.

How the proofs are laid out. A module whose safety is not inductive ends in a part headed *Why they hold*, which
defines the invariant as a conjunction of named parts, and TLC checked each one on the module's run before it was
proved. The proof module then has, for the larger models, three layers: an *effect* lemma per action (what it does, to which
record, in the words the invariant uses), lemmas that say of one part of the invariant which effects it survives, and
a step lemma per action that puts the two together. A `<...>Stays` lemma says once what steps that touch none of
a part's variables keep.

### The persistence controller (`StorePersistence_proofs.tla`)

For every `Op`, `Batches`, `Callers`, `Ports` and `MaxOps`, under the assumptions `StorePersistence`
declares and TLC evaluates: a batch is a sequence of operations and not empty (`BatchesAssumption`: an empty one
returns early in `enqueue`); the caller that drains at disposal is not one of the callers of
`flush` (`DrainAssumption`); a port is of one of the two kinds (`PortsAssumption`); the bound is a number
(`MaxOpsAssumption`).

| Theorem | States |
|---|---|
| `Invariance` | `IInv` always holds. |
| `TypeCorrect` | `TypeOK`. |
| `NothingIsLost` | `Accounted`: the engine followed by the outstanding work is what was accepted, in order. |
| `SavedMeansDurable` | `SavedIsDurable`: a status of `saved` means that everything accepted is committed. |
| `BlockedMeansRefused` | `BlockedMeansFailed`: `blocked` only after a refusal. |
| `MirrorNeverAhead` | `MirrorIsConfirmed`: the sender reads nothing the engine does not hold. |
| `FlushesAreHonest` | `FlushIsHonest`: a `flush()` that resolves has its work durable, or in an attempt made after the call. |
| `Refinement` | `ImplementsLog`: the controller implements `DurableLog`. |

The argument. `Accounted` is not inductive: when a flight ends, whether its batch belongs to the
engine or to the queue depends on its phase, and whether a queue that is left over will ever be
written depends on `again`. `IInv` is therefore the conjunction of

- `TypeOK`, which says that a batch is held exactly while one is out;
- `Accounted` and `MirrorIsConfirmed`, the two equations between sequences;
- `AttemptPromised`: what waits in the queue was refused, or a flight that is out will come back for it;
- `ToldIsStatus`: the status subscribers were told is the one computed from the state.

`SavedIsDurable` and `BlockedMeansFailed` follow from them without a step. The lemmas follow the
code: `AttemptStep` says what one attempt over a given queue establishes, for each of its four
outcomes (nothing to do, a synchronous commit, a refusal, a batch handed off), `AskStep` what a
request for one does, and every handler that ends in a request cites them; `NextInv` puts the
handlers together. `Regroup` and `ConcatOp` are the facts on sequences (a batch moves between the
queue, the flight and the engine without moving an operation). `StepRefines` shows that, under
`IInv`, every step is one of `DurableLog`'s: an enqueue is `Accept`, or `AcceptPersisted` over a
synchronous port that takes it at once, a landing is `Persist`, a restart is `Crash`, and the
rest stutter.

`FlushIsHonest` is an action property and needs one more invariant, `WaitersPromised`: somebody waits
only while a batch is out, for no more than was accepted, and a waiter whose work is not in that batch
has asked for another attempt. A step that resolves waiters is then the end of a flight
(`ResolvedHonestly`): either nobody asked for more, and every waiter had its attempt; or the attempt it makes
finds the queue empty, and by `Accounted` everything accepted is in the engine.

### The update log (also in `StorePersistence_proofs.tla`)

For every `Update` and every `Threshold` above 1 (`ThresholdAssumption`; the code's is 64):

| Theorem | States |
|---|---|
| `LogInvariance` | `LogInv` always holds. |
| `ChainStaysShort` | `LogTypeOK`, with the length of a chain below the threshold. |
| `ReplayLosesNothing` | `ReplayIsComplete`: what was committed is carried by the committed chain. |

`ReplayIsComplete` speaks of the committed chain only, while folds happen inside a transaction, so the
invariant adds `WorkingIsComplete`: the rows inside the open transaction carry what was committed and what
the batch has brought. `CarriedAppended` and `CarriedFolded` say what one more row and a fold do to what a
chain carries; `CopiedTyped` that the history gets rows.

### Blobs (`LocalFiles_proofs.tla`)

For any sets of hosts, pids, recordings and puts (`WritersAssumption`: a writer is one or the other), any number
of losses of power, and both kinds of system (`SyncAssumption`). `NoneAssumption` says that no answer is the
placeholder for none.

| Theorem | States |
|---|---|
| `Invariance` | `IInv` always holds. |
| `LivingAreSpared` | `SweepSparesTheLiving`, on any system. |
| `VisibleIsWhole`, `CallersAreToldTheTruth` | `WholeWhenVisible` and `AnswersAreTrue`, if `DirectorySyncs`. |
| `CrashesAloneAreHarmless` | Both, on any system, until power is lost. |

`IInv` says where a recording's directory is at each step and that its host is alive (`CaptureInPlace`, `HasItsHost`: a
sweep takes directories whose pid nobody has, and a recording in flight has somebody), what each rung of `publish`
leaves behind it (`Climbed`), so that what the rename shows is whole and lastingly so (`CaptureIsWhole`,
`CaptureAnswers`), and the same of puts, of which one has the name (`PutInPlace`, `OnePut`, `PutIsWhole`). The hypothesis
`DirectorySyncs` is needed: section 8 shows what is false without it, and `CrashesAloneAreHarmless` what is left.

### Deliveries and corrections (`TextDelivery_proofs.tla`)

For any deliveries, words, terms, platforms, budgets and copies.

| Theorem | States |
|---|---|
| `TypesHold` | The types of both halves. |
| `BorrowsAreHonest` | `BorrowIsHonest`, for deliveries in turn (`~Overlap`) whose steps nothing comes between where the code awaits nothing (`~Simultaneous`). |
| `TermsAreLearnedSoundly` | `LessonsAreSound`, if no read outlasts the steps of the schedule (`Timely`). |
| `LearningIsBounded` | `RowsAreBounded`: the learned terms stay within their limit, for any finite set of terms. |

The hypotheses are those of the run, and section 8 has the counterexample without each. The two halves have
an invariant each.

`BorrowInv`: a transcript on the clipboard was left there for the person, is in the hand of the delivery that
wrote it, or is borrowed for (`ClipIsAccounted`); each stage of `write_text` knows what it found and what it owes
(`StagesAreSound`); a borrow owes what was the person's, and is of a delivery that pasted (`BorrowsAreSound`); one
delivery acts at a time (`OneActs`). A restore then reads its own word only where its delivery put it, or where
the person put the same one.

`LearningInv`: one delivery is underway at most (`OneUnderway`), and the host's target is of that one or of the open
observation (`TargetIsExpected`); an observation opens once and before it has asked for anything (`OpensFresh`); a read is
of the paste it names (`TasksAreSound`); nothing is compared before a read named the target (`BaselineFirst`); and an
observation that took a newer paste for its own has no timer left at which it could learn (`StrayedIsHarmless`). That
last part is the argument: with `Timely`, a read that strays is answered before the next timer, and is a baseline.
`RowsAreSound` counts the lessons of a term. `LearningIsBounded` needs none of it: a decision adds no
more terms than there is room for, or only promotes terms it has (`DecidedFits`), and what a person settles has a row or had one
(`SettlesFits`); a set that may be infinite has no size, hence finite terms.

### The watch on the grant (also in `TextDelivery_proofs.tla`)

For any budget of restarts, any number of intents and of turns of the grant.

| Theorem | States |
|---|---|
| `ActiveStandsForTap` | `ActiveIsWatched`: the capability is `active` only for a tap that runs, starts or has just ended, or while a restart is due. No hypothesis on the timing or on the page. |
| `PastingIsWatched` | The same of `TextDelivery`: whatever deliveries and readings go on beside the watch. |
| `TapsAreSound` | `OneTap` and `NoTapUnasked`, if threads start and stop within a wait (`Brisk`) and no page repeats its intent (`~Repushes`). |

Section 8 has the counterexamples without the two hypotheses of the last. No run of the table lists these three
properties, `GrantWatch.cfg` checks them with the invariant.

`WatchInv`: the supervisor believes in a tap only while it is there or its end is on its way (`StandsForTap`), which
is enough for the first. For the last, at most one end is in the channel, and it is there instead of a tap
(`OneWatcher`), and a tap nobody wants was asked to stop (`AskedToStop`). What makes these inductive is the channel:
each intent in it differs from the one before, the first from what the supervisor has read
(`Alternating`). A wish to have the tap is then read only by a supervisor that did not have it, which cannot have
a tap left that was not asked to stop; and a repeated one, read after the grant went and
came, is what breaks it.

### The host recorder (`HostRecorder_proofs.tla`)

For any number of recordings, windows, chunks and reloads (`BoundsAssumption`, `WindowsAssumption`: windows are finitely many and
neither a number nor `None`), and any queue that holds at least one chunk (`QueueAssumption`).

| Theorem | States |
|---|---|
| `Invariance` | `HostIInv` always holds. |
| `NeverTwoMicrophones` | `OneMicrophone`. |
| `OccupiedIsClaimable` | `SlotIsClaimable`. |
| `EndingsAreTheirOwn` | `EndedTruly`. |
| `NoTailIsLost` | `TailIsKept`. |
| `TrayTellsTheTruth` | `TrayIsHonest`: the tray's last state is the slot's, once no refresh of it is posted or running and no command holds the mutex. |

The argument is about who owns a worker. A live worker is that of the recording in the slot, or of the command
that opens or joins it, or the main thread waits for it (`WorkersAreOwned`); whoever waits holds the mutex and has emptied the
slot (`LockIsAccounted`); so there is one (`OneWorker`), and a microphone is open only as its worker captures
(`KeepsChunks`, which also counts the chunks between microphone, queue and file). `OpeningIsSound`, `StopIsSound` and
`SlotIsSound` say what a worker may have been told at each point: the worker of an occupied slot of nothing but
its ending, that of a stop nothing that throws its file away. `StartHasNoWorker`, `TroubleIsKnown`,
`PagesNameTheMinted` and `TrayIsSound` cover the commands not yet admitted, the error threads that run late, the
pages and the tray.

### Row documents (`RowDocuments_proofs.tla`)

For any rows, openers and updates (`UpdatesAssumption`: this device's and others' differ; `NoneAssumption`).

| Theorem | States |
|---|---|
| `Invariance` | `RowIInv` always holds. |
| `OpenedIsComplete`, `UnloadingIsSafe`, `RetirementIsFinal` | `HydratedIsComplete`, `UnloadingLosesNothing`, `NothingAfterRetirement`. |
| `SnapshotsAreComplete` | The action property `StoredSectionsAreComplete`. |

The three properties are nearly inductive together: what a hydrated document holds is what is accepted for its address,
in the chain or outstanding, both ways. What they need is that a retired address is not live, and no retirement
waits that memory does not know of (`RetiredAreDead`, `RetirementsAreKnown`), and that there is one transaction for the batch in
flight (`OneBatchIsOut`), for a chain read is right only because the batch it overlaps is still held in memory.

### The account replica (`AccountReplica_proofs.tla`)

For any finite set of rows without the application document (`DocumentsAssumption`), and any bounds on edits,
the queue, the log and restarts (`BoundsAssumption`; at least one edit).

| Theorem | States |
|---|---|
| `Invariance` | `ReplicaIInv` always holds. |
| `NothingIsUnowed` | `NothingUnowed`. |
| `CursorStaysBehind` | `CursorBehindBytes`. |
| `OnlyDurableIsOffered` | `OnlyDurableLeaves`. |
| `DeletionIsRetirement` | `DeletionRetires`. |
| `NoIdIsReused` | `IdsAreFresh`. |

The difficulty is `Land`: a prefix of the queue of any length becomes durable at once, with appends, merges,
drops and retirements that were computed at different times against a mirror that lags behind. The parts say what the queue may
hold. *Whose*: the outbox holds what this device wrote, and what it appends without an entry is another's
(`EachItsOwn`). *Retirement*: what memory retired is durable or owed, and no byte is owed behind it
(`RetirementsAreOwed`). *Bytes*: an entry's bytes are in the chain beside it, in the engine and in the mirror
(`Backed`), and the mirror is behind the engine by the newest entries only (`MirrorIsBehind`). *Ids*: an id that is
owed is newer than all before it (`IdsGrow`). *Acknowledgements*: what is acknowledged, or owed to be dropped, is at the
authority, and a push carries all that its id covers (`AcksAreTrue`, `PushesCarryAll`); a merged entry holds what
it replaces, in the engine and earlier in the queue (`MergesKeepAll`). *Cursor*: the cursors owed are those between the durable one
and the live one, in order, each in the batch that brings its bytes (`CursorsAreOwed`, `OwnEntriesAreDurable`).

With them, a byte that `Land` leaves in a chain is followed to the last entry of the batch prefix that carries
it: `Committed` either keeps that entry, or a merge replaced it by one that carries the byte too, or a drop
removed it and it is at the authority. That there is a last one is the least-number principle
(`WellFoundedInduction`). The cursor after a prefix is that of its last cursor operation (`CursorIs`), and every position up to
it has its bytes in the prefix or in the engine. `Coalesce` keeps `MergesKeepAll` because what it offers holds all
that the mirror has (`OfferedHolds`) and the rest of the queue is newer.

`IdsAreFresh` needs one invariant more, `IdsName`: an id is of one document, and names one entry of the engine's outbox or of a
batch. A merge gives the id of its last entry to a second one, so ids are not unique across the queue; what is true is that
the batch that inserts an id takes away whatever entry of an earlier batch, or of the outbox, had it (`Superseded`). Of two
entries of one id that are left after `Land`, neither can then be the older one.

The proof found one assumption missing: `ForeignCreate` publishes edit 1 with the row, so there is at least one edit.

### The pipeline (`DictationPipeline_proofs.tla`)

For any number of utterances, repeats and recipes (`BoundsAssumption`) and any applications.

| Theorem | States |
|---|---|
| `Invariance` | `RunInv` always holds. |
| `ThePillIsHonest` | `PillIsHonest`. |
| `WrittenInOrder` | `DeliveredInOrder`, if a capture is stored before the next one ends (`~Hurried`). |
| `UndoIsOfItsOwn` | `UndoTakesItsOwn`, if focus stays between a probe and its keystroke and deliveries do not overlap (`Steady`, `~Overlap`). |

The hypotheses are those of the runs; section 8 has the counterexample without each.

`RunInv` is about the chain: whoever is chained before a run that has begun has ended (`QueueInTurn`), so one runs at a
time (`OnlyOneRuns`), whether those before it succeeded or threw; the chain is in the order of capture as long as whoever is
being stored is the latest (`CapturedInOrder`); a dictation written somewhere was chained and is past its write
(`ShippedIsPast`). Whoever lands then finds every dictation shipped before it ended, and so chained and captured before it
(`LandsInOrder`). The pill needs none of this: a step that takes a run out of flight settles the marker of its own
dictation, and leaves that of another which still runs (`PillMarked`, `PillAlong`).

`UndoInv`: one delivers, erases or presses at a time, and while it is not a repeat nothing is held (`OneDelivers`); what a
delivery wrote is where its probe said (`WrittenStands`), what is held stands there until a repeat has been written
(`HeldStands`), and the undo under way is of it (`UndoStands`). The exception of `HeldStands` is real: the chord does not clear the
record as a delivery does, and until its own record replaces it the one there is stale. That no undo reads it then
is `OneDelivers` again, which is where `~Overlap` is used; a command that drops the record while another
run probes is excluded by `OnlyOneRuns`.

### The local models (also in `LocalFiles_proofs.tla`)

For any models, calls, policies, attempts and number of files (`NothingAssumption` and `NoTransferAssumption`: the
placeholder for none is none of them), with or without a network that answers (`PromptAssumption`).

| Theorem | States |
|---|---|
| `LocalInvariance` | `LocalInv` always holds. |
| `ModelsTypeCorrect` | `LocalTypeOK`: the lock is held by exactly the call that loads or runs. |
| `AnswersNameWhatRan` | `NamesWhatRan`. |
| `OneTaskFetches` | `OneTransferPerModel`. |

`NamesWhatRan` is about three moments: a file is fingerprinted, then read, then the resident model is compared with what the
disk has now. `Fingerprinted` says what the first two promise each other: as long as the file on the disk is the one that was
fingerprinted it is also the one that was read, for a file that replaces another has a version never used. `SeesItsFile`
says that a call has seen the file its model has at each moment of it. A reuse that finds the fingerprint of the resident model on
the disk then runs on bytes the call has seen.

`OneTransferPerModel` needs both directions of `HoldsItsModel`: an attempt that has not been answered is the one its model's
entry of `transfers` names, and an entry names such an attempt; so two attempts of one model are the same, and a task works only
for an attempt that was asked for. That a cancel keeps the entry until the attempt has been answered is what holds it up.

### The page's captures (`Recorders_proofs.tla`)

For any number of starts, sessions and utterances (`StartsAssumption`, `BoundsAssumption`), with and without the gate
(`SettingsAssumption`); `NoneAssumption` and `SessionAssumption` say that no number and no session is the placeholder for none.

| Theorem | States |
|---|---|
| `RecorderInvariance` | `RecorderInv`, the recorder's invariant, beside voice activation. |
| `NothingIsOrphaned` | `NoOrphan`. |
| `CapturesTypeCorrect`, `PlaybackOwed` | `CapturesTypeOK`, and `PlaybackInv`: what was paused plays again once what waits is done, or something under way ends with a resume. |
| `MicrophonesClose`, `PlaysAgain` | `NoHotMicrophone` and `PlaybackReturns`, for a user who waits for answers (`~Impatient`). |
| `CapturesInvariance` | `CapturesInv`: as much of the captures' invariant as the user and the utterances leave, which is `RecorderInv`, `PlaybackInv` and the types for any, the order of turns for a patient user. |
| `EveryRunIsItsOwn` | `EachWithItsOwn`, if besides an utterance ends before the next begins (`~Overlap`). |
| `TalkInvariance` | `TalkInv`, with the recorder's invariant beside push-to-talk. |
| `NothingStuckOn`, `StopsTheMeant`, `TalkTypeCorrect` | `NeverStuckOn`, `StopsWhatItMeant` and `TalkTypeOK`, for any user. |

The hypotheses are those of the `captures` run; section 8 has the counterexample without each. `talk` has none: presses,
releases, toggles, cancels and timers come in any order.

`RecorderInv` is about the continuations that park until the host has told what it records. Before that the page holds and ends
nothing (`BootedFirst`); one start at a time is past its gate, and it waits once (`OneStart`); what the page holds is what was opened and
not yet ended (`HeldOnce`); and `NoOrphan` itself. Every action changes the queue in one of few ways, so the lemmas are about
them: `Grown` is a queue that grew by other things than starts, `StartQueued` one that grew by a start, `ResumedQueue` one whose head ran.

For a patient user little can wait (`Turns`, `GatedAlone`) and one session is armed, listened to or stopped at a time
(`OneSession`); with utterances that do not overlap one snapshot waits, that of the one capture there is (`OneSnapshot`,
`InTurn`). That is what makes a queue of snapshots that nobody has labelled correct: it never has two.

Push-to-talk is proved inside its calls. Each of its handlers (`Released`, `Ended`, `LockOpen`, `Opened`) is a function
of the session, the fuse and the queue that it leaves, and `Inside` says of those three what the invariant says of the state: the session
fits its fuse and holds only what its own start opened (`Fit`), whatever of its own the page holds has that fuse or a stop that waits
(`Minds`), and what waits to stop is what is held (`Meant`). One lemma per handler keeps `Inside` (`ReleasedInside`,
`EndedInside`, `LockInside`, ...), `AskedKeeps` turns it into the state after the call, and `Carries` says what the
recorder's own steps leave of it. `Meant` is what makes a stop by id safe across its await: while it waits, what is held
cannot be replaced, since a start that opens finds nothing held and nothing waiting.

### Only model-checked

Liveness (`DrainTerminates`, `CommandsReturn`, `EndingIsHeard`, `ReleaseIsHonored`, `EveryRunEnds`,
`CancelIsHeard`, `BorrowEnds`, `StaleIsCaught`): ENABLED, and so fairness, is beyond the provers. Every invariant
and every safety action property that a run lists is proved, and so are `IdsAreFresh`, `RowsAreBounded` and
`TrayIsHonest`, which no run lists. Induction over data
is out of reach as well (the library's theorems take an operator as a parameter, which no backend can instantiate),
which is why `Committed` and `Applied` are closed forms, and why arguments by the last or first position use
the least-number principle instead.

## 8 Disagreements with the code

Each of these configurations states what the code, or a comment of it, says, and is violated when it is
checked with TLC. The first two are plain; the others are narrower, or depend on an assumption the
passing run states.

| Configuration | Property | What happens |
|---|---|---|
| `UpdateLogHistory.cfg` | `SupersededIsKept` | A fold renumbers the chain from 1; the next copies its rows with INSERT OR IGNORE to positions the first one's rows already have (`log.ts:395`). The second chain is not kept, then it is deleted, against `log.ts:354-362` and `log.ts:306-307`. |
| `HostDestroyed.cfg` | `DestroyedHoldNothing` | A start that has not taken the lock when the hook of its destroyed window runs takes the slot afterwards (`recorder/commands.rs:145`), against `commands.rs:302-304`. |
| `DictationOrder.cfg` | `DeliveredInOrder` | Audio is stored before a run is chained (`recording.ts:498`), so the chain is ordered by the end of storing, against `pipeline.ts:71-72`. |
| `TalkLatePress.cfg` | `LatePressStarts` | A press that runs the held stop itself starts while that stop is under way, and is refused (`hands-free.ts:116`, `hands-free.ts:110-113`). |
| `TalkDisposed.cfg` | `DisposedLeavesNothing` | With the gate, a disposal after a release during the gate finds no session to stop (`push-to-talk.ts:206`, `hands-free.ts:227-229`). |
| `DictationRepeat.cfg` | `RepeatsBetween` | The start of a capture resets the outcome of a run still in flight, so a repeat is let through (`repeat-last-dictation.ts:46-49`). |

Others need no configuration of their own: the modules name their assumptions as constants, or state the rule as
a property no configuration lists. Listing the property instead of the configuration's own, and changing the
constants named here (`SPECIFICATION Spec` suffices), shows:

| Configuration, changed | Property | What happens |
|---|---|---|
| `Replica.cfg`, `MaxOwed = 3`, `MaxRestarts = 0` | `RetiredOwesNothing` | `coalesce` (`store.ts:1858`) merges entries the mirror still has of a document whose retirement waits in the queue; the merged entry lands after the tombstone (`persistence.ts:36-39`). |
| `Replica.cfg`, `MaxOwed = 3`, `MaxRestarts = 0` | `OutboxImpliesIdentity` | An identity is adopted (`store.ts:1908`) behind work that waits in the queue, which is durable first (`store.ts:1912-1915`). |
| `RowDocuments.cfg` | `SectionsAreComplete` | A snapshot takes a document that is still being hydrated (`documents.ts:321`; "complete state", `documents.ts:100-101`). |
| `RowDocuments.cfg` | `RetiredAreExcluded` | A document retired during the snapshot's read is in it (`documents.ts:329`, `documents.ts:102`). |
| `HostAudio.cfg` | `OwnersCanName` | A page that reloads while its start is on its way asks too early and cannot name what it then owns (`index.tauri.ts:271`, `commands.rs:227-230`). |
| `Dictation.cfg`, `Overlap = TRUE` | `UndoTakesItsOwn` | A recipe delivered beside an undo, or a delivery, is taken for the dictation (`delivery.ts:189-193`). |
| `Dictation.cfg`, `Steady = FALSE` | `UndoTakesItsOwn` | Focus moves between the probe and the keystroke (`delivery.ts:202-204`). |
| `Captures.cfg`, `Overlap = TRUE` | `EachWithItsOwn` | A manual recording and an utterance that overlap take each other's snapshots: one queue, popped by position (`recording.ts:478`, `capture-queue.ts:29`). The chord and the global shortcuts do not look whether the other surface listens. |
| `Captures.cfg`, `Impatient = TRUE` | `NoHotMicrophone` | Two stops of one session are out, and a new session is armed between their answers: the second answer clears the new one (`vad-recorder.ts:217`), whose microphone nothing can close. |
| `Captures.cfg` | `RecordsInSilence` | A second start that is refused while the first one's recording runs resumes its playback (`recording.ts:285-286`), against `recording.ts:442-446`. |
| `BlobStaging.cfg`, `DirectorySyncs = FALSE` | `AnswersAreTrue`, `WholeWhenVisible` | Where a directory cannot be synced (Windows, `blob.rs:471-482`), a blob that was announced may be gone after a loss of power, or its files empty. |
| `BlobStaging.cfg` | `StagingRootStays` | A launch removes an empty staging root (`blob.rs:369`) between a recording's `create_dir_all` and its `create_dir` (`blob.rs:163`, `blob.rs:180`), and the recording is refused. |
| `LocalModels.cfg` | `CancelledIsNotChosen` | A cancel that comes as the transfer lands is a download that succeeded, and `downloadAndActivate` chooses it (`local-models.svelte.ts:132`). |
| `LocalModels.cfg`, `Prompt = FALSE` | `CancelIsHeard` | A cancel that overtakes the registration of its task finds nothing to abort (`download.rs:48-57`), and the page asks once. |
| `TextDelivery.cfg`, `Overlap = TRUE` | `OwedIsTheirs` | Two deliveries at once each take the other's transcript for the person's (`delivery.rs:175-180`). |
| `TextDelivery.cfg`, `Simultaneous = TRUE` | `OwedIsTheirs`, `TakesOnlyItsOwn` | A copy between the check and the write is overwritten (`delivery.rs:311-320`): milliseconds, and no lock of the system closes them. |
| `TextDelivery.cfg` | `EndsItsOwn` | An observation none of whose reads named a target takes one that a newer paste served, before the page opens that paste's observation, for its own; its close ends the newer target (`observer.ts:76-80`: "closing must end only our own"). |
| `TextDelivery.cfg`, `Timely = FALSE` | `LessonsAreSound` | A reply that outlasts two timers lets the old observation learn from the newer paste. |
| `GrantWatch.cfg`, `Repushes = TRUE` | `OneTap`, `NoTapUnasked` | A page that reloads pushes its intent again; if the grant was revoked and came back meanwhile, a second tap is spawned over the live one (`supervisor.rs:133-137`, against `supervisor.rs:75-77`). |
| `GrantWatch.cfg`, `Brisk = FALSE` | `NoTapUnasked`, `OneTap` | A stop asked for before the thread reaches `listen` is reset there (`mac_tap.rs:76-139`): the tap lives on under `Inactive`. |

Read and not modelled: `cancelRecording` leaves the entry of a recording the host refuses to cancel
(`recording.ts:387`); the policy `Immediately` is not applied after a run that failed or a prewarm
(`settings.rs:31`, `model_cache.rs:301-311`); a grant that is revoked ends no live tap, so its loss is not noticed
while the tap runs (`mod.rs:143-148`); a duplicate release leaves a held stop armed, which is benign; a recording that outlived a reload has
no cap; the fold of `browser.ts:283` may throw inside a replay; a text edited between polish and delivery
is delivered as edited.

## 9 Not modelled

- The hold tracker of Windows (`keyboard/modifier_hold.rs`): a small machine over scan codes, whose edges
  `PushToTalk` takes in any order. `DictationPipeline` takes a write for one landing and one answer; that
  its answers are those of `TextDelivery` is not stated as a refinement.
- Readers of blobs: a read beside a deletion may find one file and not the other, and says `not found`. The
  browser's store is one IndexedDB transaction, and the webview's a client of the sidecar.
- The fallback among microphones (`device-stream.ts`), and level metering.
- Poisoned locks of the model cache (they are recovered), and what the Settings page reads only to show.
- The transcription and completion clients and `operations/transcribe.ts`: requests with a deadline, whose outcomes
  `DictationPipeline` takes in any order; how an audio is routed, retried and reported is a choice by case without
  state of its own.
- What a text says: formatting, dictionary, the parsing of voice commands, and how a corrected text is aligned with
  the delivered one to find its terms. No property of this project depends on it.
- Which fields the host refuses to read, and how much of one: an answer of `FieldObservation` is any of them.
- Yjs and its encoding: a document is the set of updates it holds, which is what a CRDT promises.
- Schema versions, validation and retained fields of the store: synchronous and pure.
- Claims, definitions, projection, fields, constants, identity, utilities, interface: nothing in them
  interleaves, or nothing in them keeps state.
- Media, overlay, shell and the sidecar server: one call of the operating system or one request at a time,
  whose failures are logged.
- Real time. A timer fires or has not fired; the held stop may be late, as in a hidden page.
- The rest of the repository (design documents, skills, benchmarks, generated bindings, components) is not the
  program's logic, or only shows it.
- The transport and the authority, the operating system's microphone and clipboard, vad-web, IndexedDB and SQLite are external:
  they are modelled from how the code uses them, with their failures.

# Verification of memplua's processing core

memplua listens to audio or takes typed text, cuts it into analysis batches,
has a local model extract terms and thoughts, lets the user review them, and
applies what was accepted to a knowledge graph that is exported as Markdown.
Everything between capture and graph is durable: one SQLite database with a
job queue, a few goroutines, and users who act while they run. Two clients
show it and change it: a browser console that the server carries, and a desktop
program (React in native windows). This project models that core and those
clients in TLA+, checks them with TLC on small instances and proves with TLAPS,
for instances of any size, the safety properties of all of them: the queue,
batching, the source manager, the review, the review window, and the other
clients alone and side by side.

## 1. Inventory

| Component | State | Operations | What is hard |
|---|---|---|---|
| Job queue and workers (`storage/sqlite/queue.go`, `ingest/worker.go`, `StartAppRun` in `runtime.go`) | `jobs` rows with status, attempts, lease; each worker's snapshot | claim, renew, complete, retry, fail, release, manual retry, start-up recovery | leases that expire under live workers, settling by id without an owner, crashes between the handler's commit and completion |
| Capture batching (`batches.go`, `runtime.go`) | `source_sessions`, `chunks`, `analysis_batches` and their chunks | save chunk, submit text, close, finalise, sweep, begin / save / fail extraction, restart | three places close a batch; time; text must be neither lost nor doubled |
| Source sessions (`app/sources.go`) | session rows, the active map, capture goroutines | start, pause, resume, stop, back-pressure, shutdown | rows are read and written outside the lock, goroutine and call race, ignored store errors |
| Review preparation (`review/matcher.go`, `processing/handlers.go`) | review items and matches | `Prepare`: read, read, read, save | reads and save are separate transactions, reruns |
| Review decisions (`review_items.go`) | resolutions, targets with versions, links, conspect status, taxonomy resolutions | decide, relate, split, taxonomy decisions, refresh | several conspects decide over one graph; dependants reopen; conflicts |
| Application (`apply.go`, `sqlite/review.go`) | terms, thoughts, links, revision, export jobs | apply, conflict and rematch | optimistic versions, check before write, second transaction after rollback |
| Extraction handler (`handlers.go`, `conspects.go`, `extraction.go`) | batch status, conspects | check, limit, begin, model call, save or record failure | repeated model calls, soft limit, cancelled contexts |
| Export (`export/obsidian/exporter.go`) | files and manifest | allocate names, write, remove, write manifest | crash between files and manifest, name collisions |
| Inference supervisor (`inference/supervisor.go`, `llama.go`) | health, process, restart channel | run, ready, restart, back-off, stop | stale restart requests, shutdown in back-off |
| Event stream (`api/server.go`, `desktop.go`, `observability`, `lib/events.ts`) | event outbox, a client's last id | history, stream | resuming without loss or repetition |
| Review autosave (`features/review/autosave.ts`) | draft, revision, flight | edit, flush, drain | edits during a save |
| Review window (`Review.tsx`, `ItemEditor.tsx`) | cached queries, page, editor's draft, saves of editors that are gone | edit, save, move, poll, apply | moves wait for saves; polls, conflicts and other clients replace the editor; a save is several requests |
| Browser console (`ui/assets/app.js`, `review.js`) | token, stream loops, last event id, review drafts, buttons | connect, poll, stream, edit, save, apply | handlers share one token and one id; any answer renders the cards again |
| Desktop windows (`App.tsx`, `Settings.tsx`, `Widget.tsx`, `Graph.tsx`) | start-up status, query data, settings draft, widget size, graph selection | bootstrap, live refresh, save settings, resize, choose | broken streams, native calls that must be undone, delayed resizes |
| Knowledge queries, configuration, HTTP API, audio, prompts | rows, a file, none | reads, parsing, translation | little that interleaves |

The parts meet in the database. Capture goroutines write chunks; closing a
batch queues an extract job in the same transaction; its handler commits
conspects, each with a prepare job; preparation and the user write review
items; applying a conspect writes the graph and queues an export job. The pool
has one connection, so every transaction is atomic and transactions are
serialised: an action of the models is one transaction, or one step of a
goroutine or call between two. Calls of the HTTP API run concurrently with the
workers and with each other. Every transaction appends its event to the
outbox; streams carry the events to the clients, which fetch again what may have
changed. In a client JavaScript runs one callback at a time, so an action there is what
runs between two awaits, and a request is carried out and answered in separate
actions wherever something can come between.

What makes each part correct: the queue gives a job to one worker, loses none
and calls none done before its result is committed; batching partitions the
text and hands every batch over once; a session is captured by one goroutine
that stops when told; preparation loses neither candidates nor decisions and
always ends; applications change the graph by whole conspects over the versions
their users saw. A client misses and repeats no event, catches up after a
failure, calls saved what its saves wrote, waits for a save before the user
moves on, and shows what the user typed.

## 2. Modules

| Module | Models | Kind |
|---|---|---|
| `JobQueue` | queue and workers | state machine; `MCJobQueue` instantiates it |
| `JobLifecycle` | what the queue promises of one job | abstract specification, implemented by `JobQueue` (proved) |
| `Batches` | chunks, batches, session rows | state machine; `MCBatches` |
| `TextIntake` | windows of text handed over once, in order | abstract specification, implemented by `Batches` (proved) |
| `Sources` | source manager over `Batches` | composes API calls, goroutines and the store; `MCSources` |
| `Review` | preparation, decisions, application | state machine; `MCReview`, `MCReviewEdit` |
| `CanonicalGraph` | the graph changes by whole conspects | abstract specification, implemented by `Review` (proved) |
| `Autosave` | one autosaved draft (`DraftAutosave`) | state machine, the core of `ReviewWindow` |
| `DraftRegister` | what an autosaved draft promises | abstract specification, implemented by `Autosave` (proved) |
| `ReviewWindow` | the desktop review window over the review tables | extends `Autosave`; `MCReviewWindow` |
| `EventFeed` | the event log and a stream's position | operators and state for both clients |
| `Console` | session and stream loops of the browser console | extends `EventFeed` |
| `ConsoleReview` | its review cards, drafts and mutations | state machine |
| `Desktop` | a desktop window's start-up, live stream and query | extends `EventFeed` |
| `SettingsForm`, `Widget`, `GraphWindow` | the windows of these names | state machines |
| `Clients` | the six parts above side by side | `MCClients` |
| `JobQueueProofs` | theorems about `JobQueue` | proofs |
| `CaptureProofs` | theorems about `Batches` and `Sources` | proofs |
| `ReviewProofs` | theorems about `Review` | proofs |
| `AutosaveProofs` | theorems about `Autosave` | proofs |
| `ReviewWindowProofs` | theorems about `ReviewWindow` | proofs |
| `ConsoleProofs` | theorems about `Console` and `ConsoleReview` | proofs |
| `ClientsProofs` | theorems about `SettingsForm`, `Widget`, `GraphWindow`, and `Clients` as a whole | proofs |
| `NumberLemmas` | induction and recursion over numbers for sets, and what `FlattenSeq` computes | lemmas |

**JobQueue.** A row's times are relative to now (`due` is `available_at - now`,
`lease` is `lease_until - now`), so time is unbounded and the state finite;
`Tick` ages them. A worker claims (`Claim`), its handler runs (`Serve` stands
for the handler's own commit, `Return` for what it returns) while the ticker
renews (`Renew`, `RenewFailed`), and then it settles the row: `Complete`,
`RetryLater`, `Fail` or `Release`, or finds the store failing (`StoreError`).
`Stop` cancels the run, `Restart` is a crash or clean end followed by
`StartAppRun`. Settling goes by job id, as `setJobState` does: a worker that
has lost its lease still writes. An extraction asks the model only once
`WaitReady` lets it (`asked`), which looks every 100 ms whether the
supervisor's health is `ready` or `external` and has no deadline; `HealthChanges`
lets the model come and go at any time. `TimelyRenewal` says that no live worker is
ever late with a renewal; with FALSE leases run out under live workers.

**Batches.** The batches of a session are a sequence in rowid order, each with
its age and idle time, saturating at the limits. `SaveChunk` attaches a chunk
after closing an overdue batch; `SweepBatches`, `FinalizeSource` and
`StartAppRun` close others. A chunk's text is reduced to what the context tail
depends on: the length of its continuity suffix and whether a sentence ends in
it. Extraction shows as the status of the batch row.

**Sources.** Extends `Batches`. A call takes steps at each lock and each store
access (`StartCreate`, `ResumeRead`, `ResumeWrite`, `StopLook`, ...); a capture
goroutine records `running`, emits chunks, is throttled when the queue is full,
and ends by reading its final state, recording it and leaving the active map.

**Review.** A worker's `Prepare` call reads the conspect (`Check`), the graph
(`Snapshot`) and the items (`PendingReviewItems`) and saves
(`SavePreparedReview`); the user decides (`SaveReviewDecision`), splits and
applies in between. Items are a sequence whose index is their id, entities
likewise. The workers serve extractions too: `Extract` takes one away, for as
long as the model is waited for, and `Extracted` gives it back. Grouping is the
greedy fold of the code over a relation `Similar`.
A conflict (`DecisionConflict`, `ApplyConflict`) rolls back and leaves its
conspect in `conflicted` until `Rematch`, the second transaction; a restart in
between loses it. Titles are classes of equal normalised titles. Tags are
taken to be known, so no taxonomy decision is pending; similar but inexact
matches are suggestions and bind nobody, so they are left out. When one
candidate is in two rows, the code lets the row read last count, where rows of
one position come in the order of random ids: the order of creation stands for it.

**Autosave.** A draft is the number of its revision. `Edit` arms the debounce
timer, `TimerFires` and `Flush` start `drain`, which persists the draft until
what it saved is what there is (`Settled`), or fails (`Failed`). An unmounted
editor's saver goes on without anyone to see it.

**ReviewWindow.** The editor that is rendered owns the variables of `Autosave`,
and `persist` is the sequence of requests of `ItemEditor`: tag decisions, the
item's decision, then a refresh, or a refresh after a conflict. `left` holds the
saves of editors that are gone. `details` and `summaries` are the query cache;
a poll carries what it will answer from the moment the server read it, so it may
be stale when it arrives. What is rendered (`ShownPage`, `ShownItem`) is computed
from the cache; a change of it remounts the editor (`Remount`), which is where
drafts can be lost. `Indicator` is what the `SaveIndicator` shows, "saved" also
for an editor nothing was typed into when its item has a resolution. `behind`
says that the row of the rendered item is not as its editor read or wrote it
last. Other clients appear as `OthersConflict` and
`MatchesWritten`, the queue as `Prepared`. A value stands for all texts and tags
of an item and no match is exact.

**EventFeed, Console, Desktop.** The id of an event is its place in the log. A
stream holds how far the server has written and the client has read; a broken
connection loses the frames between. `Console` keeps every running call of
`startEventStream` (`loops`) with the generation it was started for, since an
abort takes effect only at the loop's next step; the token is one variable that
each request reads when it is sent. `Desktop` coalesces events by a timer and
invalidates a query that fails and is retried.

**ConsoleReview.** A card's content is the number of the edit that made it. Each
answer (`Refreshed`, `MutationSaved`, `MutationConflicts`) renders all cards from the
server's items and the drafts, in any order of arrival.

**SettingsForm, Widget, GraphWindow.** Saving the settings is a chain of native
calls and a PATCH; when one fails the native ones are put back. The native width of
the widget has two writers: the widget's effect, which resizes at
once or, when shrinking, by a timer, and the shell, which puts the window at its own
closed width when the displays change (`RestoreWindow`). The graph's edges are computed from the links
by the code's algorithm and compared with their definition.

**Clients.** The six parts share no variable but the event log, and none reads
another's state, so all interleavings of them are shuffles of their own
behaviours. `Clients` is therefore their sum: a behaviour is that of one part,
the others being unopened. `ClientsProofs` proves the parts' invariants of this
sum as well, by showing that a step of one part leaves the others' invariants
alone.

## 3. Runs

| Run | Question | Instance |
|---|---|---|
| `queue` | Exclusive handling, done after commit, no stranded conspect, refinement of `JobLifecycle`; with the model ready every job settles and none starves | one extract and one prepare job, two workers, two attempts, timely renewals |
| `queue_stranded` (violation) | A failed conspect always has a job to retry | the same |
| `batches` | Text is partitioned in order, one job per closed batch, contexts continue the batch before, closed batches are frozen, none collects for ever; refinement of `TextIntake` | a captured and a manual session, three chunks |
| `sources` | One capture per session, stops and shutdown end, captured text is handed over | one session, two concurrent calls, two goroutines, failing updates, restarts |
| `sources_stop` (violation) | Stop persists the final state | the same |
| `review` | No lost update, no title created twice by two conspects, preparation always has a job, refinement of `CanonicalGraph` | two conspects with a term of the same title, an entity they may both update, two workers, one handler error and one restart |
| `review_edit` | Candidates stay in one item, dependencies and decisions hold, preparation ends if extractions do | one conspect with two similar terms and a thought, an entity with the title of one, typed titles and relations, one handler error |
| `review_rerun` (violation) | Candidates stay in one item when a preparation is repeated | three similar terms, two workers, one restart |
| `review_exact` (violation) | A ready conspect creates nothing that has an exact match | the instance of `review` without faults |
| `review_window` | What is called saved was written, the indicator says what the row holds, a move waits for its editor, saves and moves under way end or are reported, an applied conspect stays gone | two conspects, one with a term and a thought, one with a matched term; two edits; one lost request or write of the match by others |
| `review_window_move` (violation) | Navigation waits for autosave | the same |
| `clients` | Events in order and once, streams recover, windows catch up, console drafts stay visible, native settings match the stored ones, the widget fits until the displays change, edges are what terms share | two cards, two edits, two calls in flight; three events, two faults, three connects; two failing calls; three terms, two thoughts, four links |

**Why the bounds suffice.** The queue's properties relate at most two workers
to one job, and starvation needs a second job; two attempts give a first, a
last and a retried attempt. Three chunks with a limit of two units cut a tail
in the middle of a chunk, at its end, and at a sentence; a batch may have none,
one or two predecessors. Two calls and two goroutines are the least that race,
and a session resumed while its goroutine ends needs no third. Two conspects
and one shared entity give both orders of decision and application, and
versions up to 3; the repeated preparation needs two workers and three
variants, because the stale save must come after a second split. What is not
bounded by the state itself is bounded by name: `MaxErrors` and `MaxRestarts`
in `Review`, `MaxEdits` and `MaxFaults` in `ReviewWindow`, `MaxCardEdits`,
`MaxInFlight`, `MaxEvents`, `MaxFaults`, `MaxConnects`, `MaxFailures` and
`MaxLinks` in the clients. Restarts in `Sources` and `JobQueue` are not bounded.
Two edits are one in flight and one during the flight, or a decision and an edit
of it; one fault meets every step of a save, a move or an application, and a write
of the match makes the one conflict that matters. Two conspects are needed for a
move between them and for an application that makes the other stale. Two calls in flight can be answered
in either order; three connects give a stream that is replaced twice; two
failures let an undo fail as well. Four links let two thoughts share a pair.

Three runs allow a stop: in `review` and `review_edit` everything may be applied
or rejected and every job done, and in `clients` a client whose bounds are used
up has nothing left to do; deadlock is not checked there.

The type invariants of `JobQueue`, `Batches`, `Sources` and `Review` are not
run; they are theorems. `WorkIsNotSkipped`, which says what survives late
renewals, is the theorem `NoWorkSkipped` for every instance.

## 4. Fairness

*JobQueue*: time passes, goroutines are scheduled, and a handler returns once it
is past `WaitReady`: its other waits end by a timeout. `WaitReady` itself ends
only when the model is ready or the run is cancelled, and nothing is assumed of
the model: missing files leave it unavailable for the whole run, and a server
that keeps crashing is restarted for ever. So `Return` is fair for a worker only
while it does not wait for the model, or while the run is stopping, and
`JobsSettle` and `NoStarvation` have premises instead: from some time on the
application is up with the model ready (`Stable`) and is not restarted, and, for
`JobsSettle`, no job is put back because the review limit is reached. Nothing is
assumed of enqueuing and manual retries. *Batches*: time and the coordinator's ticker. *Sources*:
each call and goroutine is scheduled, a cancelled source comes back (its drain
is bounded by the transcription timeout), time and the ticker; nothing of the
queue's capacity. *Review*: a worker goes on with the `Prepare` call it is in (weak; none of its
steps waits for the model), and an open job is claimed if workers keep getting
free (strong, because `Claim` takes the oldest `available_at` first, so that other
jobs cannot overtake one for ever: what `NoStarvation` checks of `JobQueue`
itself). That an extraction ends is not assumed; `PreparationEnds` has it as its
premise `ExtractionsEnd`. Users are free to do nothing. *Console* and *Desktop*: a request is answered or
fails, a frame that was written is read, the timers of the browser fire; the
server's stream ticker writes what the log has. Connections may break as often as
`MaxFaults` says and nothing is assumed of users, so `StreamRecovers` and
`WindowCatchesUp` say what is reached once the faults are over, within a
session. *ReviewWindow*, *Autosave*, *ConsoleReview* and the windows: none; their
properties are safety, and progress is stated as a safety property:
`UnsavedIsPursued` and `MoveIsPursued` say that something is under way that
leads on.

## 5. Proofs

Every safety invariant, action property and refinement that a passing run
checks is also a theorem, for every value of the constants that satisfies the
modules' named ASSUMEs. Those say what the code or the data give: that a row of
the extraction belongs to one conspect, that the workers are finitely many, that
limits are numbers, that the marks for "nothing" are not members of the sets
they extend. Where a theorem needs more, the tables say so. The inductive
invariants of the review window and of `Clients` were themselves checked with TLC
on the instances of the runs.

### The queue (`JobQueueProofs`)

| Theorem | Assumes | Property |
|---|---|---|
| `RowsAndWorkersTyped` | - | `TypeOK` |
| `NoWorkSkipped` | - | `WorkIsNotSkipped` |
| `HandlingIsExclusive` | `TimelyRenewal` | `ExclusiveHandling` |
| `DoneAfterCommit` | `TimelyRenewal` | `DoneIsCommitted` |
| `NoConspectStranded` | `TimelyRenewal` | `ConspectNotStranded` |
| `QueueImplementsLifecycle` | `TimelyRenewal` | `ImplementsLifecycle` |

`TypeInv` is `TypeOK` with `LiveTask`: a live worker holds a job and has counted
an attempt. `NoWorkSkipped` needs `WorkInv`: a handler that returned success was
served, a served handler's work is committed unless a preparation was abandoned,
and only preparations are abandoned. It holds whatever the leases do, because
`Complete` follows only a success that was served, and results are never
withdrawn. `HandlingIsExclusive` needs `Holds`: every live worker is the owner
of its job's row, which is running with time left on its lease; without timely
renewals that is false and so is the property, as `queue_stranded` shows. From
`Holds` follows `ResultInv`, which gives the next two. The refinement adds
`RunningIsHeld`: while the run lasts a running row has its worker, so that what
a job's row becomes is always the act of the worker that has it.

### Capture (`CaptureProofs`)

| Theorem | Property |
|---|---|
| `BatchesTypeCorrect` | `TypeOK` of `Batches` |
| `TextIsPartitioned` | `FocusPartitionsChunks` |
| `NewestCollects` | `OnlyNewestCollects` |
| `OneJobEach` | `OneJobPerClosedBatch` |
| `ContextContinues` | `ContextContinuesPrevious` |
| `ClosedStaysFrozen` | `ClosedIsFrozen` |
| `BatchesImplementIntake` | `ImplementsIntake` |
| `ManagerUsesTheStore` | `SourcesSpec => Spec` of `Batches` |
| `SourcesTypeCorrect` | `SourcesTypeOK` |
| `OneCapturePerSession` | `ActiveIsTheCapture` |

Every action of the store does one of two things to a session: it *touches* its
batches (closes, ages, changes a status) or *attaches* one chunk. `StoreStep` says
which, and each later argument has these two cases instead of eleven actions.
`StoreInv` is `RowsInv` (only the last batch collects, none is empty, closed ones
have one job), `HoldsText` (the focuses, flattened, are the chunks in order)
and `ContextOK`. That the tail loop returns what `Continues` asks for
(`ContextTailContinues`) is proved from its recursive equation by induction on
the position. `ManagerInv` follows the manager across its lock: the active map and the
live goroutines name each other, and no other call is about to write or launch
a session that `Start` is still creating. `ManagerUsesTheStore` makes every safety
theorem about `Batches` one about `Sources`.

### Review (`ReviewProofs`)

| Theorem | Assumes | Property |
|---|---|---|
| `ReviewTypeCorrect` | - | `TypeOK` |
| `PreparationHasAJob` | - | `PreparationIsQueued` |
| `CreatedTitlesAreNew` | - | `CreatedTitlesDiffer` |
| `NoUpdateIsLost` | - | `NoLostUpdate` |
| `ReviewImplementsCanonicalGraph` | - | `ImplementsCanonicalGraph` |
| `DecisionsSurvivePreparation` | `MaxRestarts = 0` | `PreparationKeepsDecisions` |
| `CandidatesAreShared` | `MaxRestarts = 0` | `EachCandidateOnce` |
| `AcceptedThoughtsHaveTheirTerms` | `MaxRestarts = 0` | `DependenciesHold` |

`TypeInv` is more than types: targets and exact matches are entities of the
item's kind, recorded versions are ones the graph has reached, and what a
running preparation has read of the graph is no longer than the graph.
`VersionsInv` says that the applied updates and the versions that have passed
correspond one to one; `NoLostUpdate` counts that correspondence. The last three
theorems need that two preparations of one conspect never run at once:
`Serial` says that a conspect has one open job or one call that has not saved, or
its job has failed, and that the call about to save has read what is there. A
restart breaks exactly that: the job of a call that had saved, but was not yet
complete, is open again, and once a conflict has queued a rematch the conspect
has two. `review_rerun` shows `EachCandidateOnce` violated with one restart;
handler errors and retries, any number of them, break nothing. `AllShared` (the items of a conspect share its candidates) and
`AllDepend` (an accepted thought relates to no rejected term, in terms of the
variants) are inductive with it. The theorems leave `Similar` open: nothing that
is proved depends on which titles are alike, or on that relation being
transitive.

### Review window (`AutosaveProofs`, `ReviewWindowProofs`)

| Theorem | Module | Property |
|---|---|---|
| `SaverIsTyped` | `AutosaveProofs` | `AutosaveTypeOK` |
| `SavedMeansStored` | `AutosaveProofs` | `SavedIsStored` |
| `UnsavedPursued` | `AutosaveProofs` | `UnsavedIsPursued` |
| `SaverImplementsRegister` | `AutosaveProofs` | refinement of `DraftRegister` |
| `WindowTypeCorrect` | `ReviewWindowProofs` | `WindowTypeOK` |
| `IndicatorShowsTheServer` | `ReviewWindowProofs` | `IndicatorIsTrue` |
| `AppliedStaysGone` | `ReviewWindowProofs` | `AppliedIsGone` |
| `MovesArePursued` | `ReviewWindowProofs` | `MoveIsPursued` |
| `WindowSavesItsEdits` | `ReviewWindowProofs` | `SavedWasWritten`, `UnsavedIsPursued` |
| `MovesWaitForTheirEditor` | `ReviewWindowProofs` | `MoveWaitsForItsEditor` |

`SaverInv` adds to the saver's two properties that the server's revision lies
between what succeeded and what is typed and that a flight carries one the
server has not passed (`InOrder`); the refinement then maps every step of the
saver to one of the register or to a stutter. These four take it that `persist`
stores what it is called with. In the window it may also return without a
request, an undecided draft being nothing to send, so there `SavedIsStored` does
not hold and the window has properties, an invariant and a proof of its own.
`SavedWasWritten` separates the two cases: `stored` moves only when `PutDecision`
is accepted. `WindowInv` is

* `SaverOK`: the saver's types and order, and that a draft with nothing unsaved
  was carried out or is undecided (`Kept`);
* `ShownIsRow`: until the first edit the editor shows the row it read, and when it
  has saved a decision the row holds it, unless the row is `behind`;
* `ServerOK`, `CacheOK`, `PageOK`: what the server holds, what the cache may hold of
  it (a stale detail is well-formed though wrong) and that a page is
  one of a conspect that has been opened;
* `EditorOK`: the editor is the one of the page, and the request under way carries
  the draft as it was; once only the refresh is left, the row says what that draft
  says (`SnapshotOK`), or is `behind`;
* `MoveOK`: a move that waits is waited for by the rendered editor or by exactly
  one save whose editor is gone. This is the delicate one: a poll may take the
  editor away in the middle of a move, and the save goes on without it;
* `ApplyOK`, `GoneOK`: nothing moves during an application, and no answer on its
  way lists a conspect that the window has been told is applied.

### The other clients (`ConsoleProofs`, `ClientsProofs`)

| Theorem | Module | Property |
|---|---|---|
| `FramesInOrder` | `ConsoleProofs` | `EventsInOrder`, of `ConsoleSpec` |
| `TypedIsShown` | `ConsoleProofs` | `DraftsAreShown`, of `CardsSpec` |
| `FailedSaveIsUndone` | `ClientsProofs` | `NativeMatchesStored`, of `SettingsSpec` |
| `ClientsTypeCorrect` | `ClientsProofs` | `ClientsTypeOK` |
| `WidgetFollowsItsContent` | `ClientsProofs` | `WidgetFits` |
| `EdgesAreOfSharedThoughts` | `ClientsProofs` | `EdgesAreShared` |
| `PartsKeepTheirPromises` | `ClientsProofs` | `NativeMatchesStored`, `DraftsAreShown` |
| `SessionReadsInOrder` | `ClientsProofs` | `EventsInOrder` |

The last five are theorems of `ClientsSpec`. `FramesInOrder` needs `OneReads`:
several loops may run, those of older generations only sleep, there is one of the
latest generation at most, and what it has read is what the page has consumed.
`TypedIsShown` needs only the types beside the property itself: whatever answer
arrives, rendering prefers the draft. `FormInv` follows a save step by step
(`Midway`): the changed native keys are the draft's, the others those of the base,
and the base is what is stored unless a call to put something back failed or an
answer was lost. `WidgetInv` says that the timer that shrinks the window waits for the
width of the content and for no other: the effect clears an old timer whenever
the content changes; the shell's resets change the width only, and are excepted
until the shell has taken a width again. The graph's edges are computed by a loop over the terms of
each thought in the order of their ids; `OrderedIs` (a finite set of numbers has
one increasing enumeration, by induction on its cardinality) and `PairsAre` say
what that loop visits, and `EdgesShared` follows for any number of links.
`ClientsInv` is the conjunction of the parts' invariants.

### Induction

The library's induction theorems take an operator and none of the provers can
instantiate them. `NumberLemmas` therefore states induction and recursion for
sets: a set that has 0 and is closed under successor contains `Nat`
(`Induction`, from the least element of a set of numbers), and a step function on
pairs has a function that iterates it (`Recursion`). What `FlattenSeq` returns,
the tail loop of the context, the greedy grouping, the picked subsequences of a split
and the enumeration of the graph are proved with them.

### Only model-checked

Liveness, of every module (`JobsSettle`, `NoStarvation`, `CollectingEnds`,
`StopIsAnswered`, `ShutdownDrains`, `CapturedTextIsHandedOver`,
`PreparationEnds`, `StreamRecovers`, `WindowCatchesUp`): it rests on fairness and
so on ENABLED, which the prover does not handle. Of `Desktop`, whose one property
is such a liveness property, the types are proved as part of
`ClientsTypeCorrect`.

## 6. Findings

* `queue_stranded`: a worker that lost its lease completes a preparation that
  another has failed. The conspect is failed, its job done, and the manual
  retry that docs/pipeline.md promises has nothing to retry.
* `sources_stop`: `Resume` writes `starting` before it finds the session still
  active, over the state that the ending goroutine has just recorded.
* `review_rerun`: a repeated preparation saves the items it read before a
  split, so a candidate is in two items and decisions are undone.
* `review_exact`: the rematch after a conflicting create keeps the create; the
  conspect is ready again and can only conflict.
* `review_window_move`: a failed poll takes the editor away that a move waits for;
  when the detail is back the user types into a new editor of the item, the old
  save ends, and the move drops what was typed, although
  `frontend/desktop/README.md:88` says that navigation waits for autosave.

Seen while modelling, stated here and not as runs:

* Queue. While the model is unavailable or keeps restarting, each extraction that
  is claimed stays in `WaitReady` with its lease renewed. As many of them as there
  are workers (two by default) take up the queue: no preparation and no export is
  served, although docs/runtime.md:28-29 says that review stays accessible.
* Source sessions. The comment at `sources.go:113-114` says that one source has at
  most one active session; `Start` enters a new session id and looks for no other
  session of the source, so two starts both capture.
* Review window. `desktopDetail` (`api/desktop.go:232`) sends no
  `related_item_ids`, which `api/openapi.yaml:900` lists: an editor that is
  mounted again shows the extracted relations and its next save stores them over the
  user's. A save that meets a conflict takes the editor away and its draft is
  lost. A failed save is not repeated before the next edit or flush. When a save
  fails and then a poll fails, the editor is replaced, although
  `frontend/desktop/README.md:88` says that a failure keeps the current item
  visible.
* The indicator. It says "saved" while the row differs from what is shown in four
  cases, which `IndicatorIsTrue` excepts. A draft without a decision counts as
  saved though nothing is sent: the server keeps the decision it had. A save whose
  editor a failed poll took away goes on and may end after a later save of the new
  editor of the item: the row then holds the older draft, against
  `frontend/desktop/README.md:72-73` ("later edits do not overtake earlier
  requests"). An editor may begin with a detail that a late poll brought back. And
  another client may write the row.
* Browser console. `review.js:3` says drafts survive saves of other cards;
  a 409 of any card clears all of them (253), a save deletes what was typed
  during it, and a failed application enables Apply again while a card is dirty (254). A
  401 for an old token ends a new session. A late answer to a poll shows
  "connected" after a disconnect. `refreshEvents` may drop events that were
  streamed while it waited.
* Widget. With a recording or paused source unfolded it asks for 521 pixels and
  `shell_windows.go:234` refuses more than 483; the window then shows its
  error. When the displays change, `monitorDisplays` puts the window at 371 pixels
  (`shell_windows.go:386-390`), while the folded content is 409 wide; the effect
  depends on the content's width only, so the window stays too narrow until the
  content next changes. `WidgetFits` speaks of the widths the shell takes, and of the
  time until the shell resets one.
* Settings. The browser console's own PATCH of the settings can make what the desktop
  form started from stale. It never touches the two native keys, which is what
  `NativeMatchesStored` is about.
* Graph. In `GraphWindow` the thoughts of an edge are a set, so it does not show
  whether the code lists a thought twice on one edge.
* Desktop. A query that failed three times stays stale until the next event.
* `docs/runtime.md:111` says the stream subscribes to the live bus; it polls the outbox
  (`server.go:546`).

## 7. Not modelled, and the plan

Not modelled: the similarity measure (floating point, only ranks suggestions),
provenance and revision snapshots, wording and layout, audio, native bindings,
prompts. Of the clients: graph layout (floating point), search and dimming,
lists, forms and pages that only read or forward a call, the parsing of stream
frames, onboarding. Taxonomy decisions enter only as the one pending tag of an
item in `ReviewWindow` and `ConsoleReview`; `Review` itself takes tags to be
known. Two creates of one conspect, or an update that renames, may give two
entities one title: the code allows it, and `CreatedTitlesDiffer` states what it
ensures.

In order of importance, after the modules above:

1. `Extraction`: the handler's steps over the batch rows and the review limit;
   one extraction per batch, bounded overshoot of the limit, raw responses kept.
2. Taxonomy decisions in `Review`: map / create / remove, labels that another
   conspect creates meanwhile.
3. `Obsidian`: file and manifest writes with crashes between them; name
   allocation as an operator checked against uniqueness and stability.
4. `Supervisor`: restart channel, health, back-off; a restart request stops
   the process it was about.
5. `NormalizeExtraction` as an operator against a reference definition.

Proofs: the safety properties that runs check are all proved. What is left
comes with the modules above: the invariants of `Extraction`, `Obsidian` and
`Supervisor`, and those of `Review` again once it has taxonomy decisions. Of
what exists, worth having are the three restart-free theorems of `Review` under a
weaker condition: restarts that find no call between its save and its
completion.

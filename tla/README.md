# Formal models of the PDF engine

TLA+ modules for the parts of the engine and its applications in which the order
of steps, the interplay of threads, failures or the sequence of operations on a
document decide whether the result is right. The modules are translated from the
C++ sources under `src/`; paths below are relative to `src/src/`. TLC checks small
instances of all of them; for most of them TLAPS proves safety or refinement for every
instance.

`PROJECT.json` lists, for every definition, the lines of code it stands for, and
for every property a plausible bug in that code which violates it.

- [The system](#the-system)
- [Modules and code](#modules-and-code)
- [Runs](#runs)
- [Bounds](#bounds)
- [Fairness](#fairness)
- [Proofs](#proofs)
- [Abstractions](#abstractions)
- [Disagreements between code and documentation](#disagreements-between-code-and-documentation)
- [Not modelled](#not-modelled)
- [Plan](#plan)

Run everything from this directory:

```
tlc -workers 2 -config MCPageCompiler.cfg MCPageCompiler     # any run of PROJECT.json
for m in *Proofs.tla; do tlapm $m; done
```

## The system

The repository is a PDF engine (`Pdf4QtLibCore`: objects, reading, writing,
rendering, optimizing), widgets that display documents (`Pdf4QtLibWidgets`,
`Pdf4QtLibGui`), and applications (viewer, editor, page master, a command line
tool). Its core logic and what makes it hard:

| Component | State it keeps | Operations | Interacts with | Hard behaviour | Correct if |
|---|---|---|---|---|---|
| Asynchronous page compiler, `pdfcompiler.cpp` | engine state, tasks, cost-bounded cache, worker thread, mutex and condition | start, stop, request, harvest, expire, limit; the worker's loop | called by the draw widget proxy; reads document, fonts, colours in another thread; queued signal back | mutex is released while compiling; cancelling; signals that survive a restart; lost wake-up | cached pages show the present input; no task is lost or repeated |
| Asynchronous text layout compiler, `pdfcompiler.cpp` | engine state, running flag, text storage, one-page cache, future | start, stop, make, lazy access, end of computation | pool thread; font cache is locked against shrinking; queued event of the watcher | the event may come after stop and restart | one computation at a time; both caches agree |
| Draw widget proxy, `pdfdrawspacecontroller.cpp` | document, features, settings | the handlers that stop and restart both compilers | main event loop | order of change, stop, restart, signal | input and caches change together |
| Progress, `pdfprogress.cpp` | two atomics | step from any thread | signal to dialogs | races of the compare-and-exchange loop | each percentage once, none lost |
| Rasterizer pool, `pdfrenderer.cpp` | free rasterizers, semaphore, mutex | acquire, release, render | execution policy, progress, images | more threads than rasterizers; nested parallelism | exclusive use, no blocking, complete return |
| Execution policy, `pdfexecutionpolicy.*` | two thread pools, strategy | execute(range, function) | everything that is parallel | a task of one pool waits for tasks of another | the caller waits for exactly its tasks |
| Object storage and utilities, `pdfdocument.cpp`, `pdfobjectutils.cpp`, `pdfvisitor.cpp` | objects with generations, trailer | lookup, reference walks, replacement | all that changes documents | dangling references, generations | – (used by the optimizer and the writer) |
| Optimizer, `pdfoptimizer.cpp` | storage, flags, pass | six operations in five stages, repeated | object storage | renumbering, free entries, order of operations, number of passes | the document still says the same; the loop ends |
| Document writer, `pdfdocumentwriter.cpp` | device | rows, headers, trailer; safe overwrite | storage, reader, file system | failure and crash half-way; rows and headers must agree | what is written is what is read; the file is never lost |
| Cross-reference table, `pdfxreftable.cpp` | entries, work stack, processed offsets | read chain of sections | reader | updates, hybrid files, cycles | the newest version of an object wins |
| Document reader, `pdfdocumentreader.cpp` | objects, result, mode, restored objects | read, authenticate, object streams, restore | table, parser, security handler, pools | parallel tasks with one result; failure half-way; second attempt | result, document and state of encryption agree |
| Program controller, undo/redo, `pdfprogramcontroller.cpp`, `pdfundoredomanager.cpp` | document, saved mark, history, file, reading in the background, busy flag | open, modify, undo, redo, save, refresh, close; end of reading; notice of the file watcher | reading thread posts events; other programs write the file | commands, window and watcher while a document is read; what counts as saved | nothing unsaved is lost silently; one reading at a time |
| Page master's previews, `pageitempreviewrenderer.cpp` | queue, pending keys, cache, contexts, batch in the pool | request, render, end of batch, scroll, zoom, source changes, reset, destruction | list view, page model, thread pool, font cache | contexts replaced while rendered; requests dropped or stale; end of a batch as an event | contexts outlive their use; every page shown gets a thumbnail |
| Page master's workspace, `pageitemmodel.cpp`, `mainwindow.cpp` | rows of pages, trash, sources, snapshots, clipboard, checkpoints | insert, move, group, sort, remove, restore, replace, undo, redo, load, export | files read again may differ | row numbers and source indices kept over changes | pages are neither lost nor invented; what is shown can be resolved |
| Document builder, modifier, manipulator | storage under construction | create, merge, assemble | optimizer, writer | renumbering | – |
| Font cache, colour management, optional content, forms | caches and settings | lookups, shrink locks, visibility, field values | page compiler, rasterizers, previews | caches shared by threads; propagation | – |
| Parser, filters, decoders, right-to-left text, text search, comparison, signatures, text to speech | data | pure functions, engines of libraries | reader, content | data, not control | – |

The list with a status for each component is in `PROJECT.json` under
`components`; the places in the code where order, failure or a boundary bites are
under `hazards`, each with the properties that cover it or the reason why none
does.

### How the modelled parts interact

```
 draw widget proxy ──requests, changes──▶ page compiler ──compile──▶ worker thread
        │      ◀──────pageCompiled (queued)────┘
        └──requests, changes──▶ text layout compiler ──▶ pool thread
               ◀──────finished (queued)───────┘
 main window ──commands──▶ program controller ──▶ undo manager (history of documents)
        ▲                    │   ▲ ◀──fileChanged (queued)── file watcher ◀── other programs
        └─ enabled, title ───┘   └───progress, end (queued)── reading thread ──▶ document reader
 page master window ──operations, undo──▶ page model ──sources──▶ preview renderer ──batch──▶ thread pool
        └──rows shown, scrolling───────────────────────────────────▲   ◀──finished (queued)──┘
 tools ──render──▶ rasterizer pool ──▶ execution policy: page pool ─▶ content pool
                          └──▶ progress (all threads)
 tool "optimize" ──▶ document reader ──▶ optimizer ──▶ document writer ──▶ file on disk
                                             └──▶ object storage ◀──┘
```

## Modules and code

| Module | Code | How state and actions correspond |
|---|---|---|
| `PageCompiler` | `PDFAsynchronousPageCompiler`, its worker thread, handlers of `PDFDrawWidgetProxy` | `state, tasks, cache, limit` are the members; `phase` is the program counter of the worker, `batch` its local copy of tasks, `interrupted` the interruption request, `events` the queued `pageCompiled` signals; `main`/`op` say where the main thread is in a handler that called `stop()`. A handler part under `m_mutex` is one step, enabled while the worker does not hold the mutex; `stop()` is four steps because it blocks |
| `PageService` | what `getCompiledPage` promises to the widget | two variables: the version of the input and the images shown; abstract specification |
| `PageCompilerProps` | – | the properties, and `PageService` instantiated with the refinement mapping |
| `TextLayoutCompiler` | `PDFAsynchronousTextLayoutCompiler`, `PDFTextLayoutCache` | members as variables; `future` is the running or last computation with the version it captured, `posted` the event of the `QFutureWatcher`, `guard` the lock against shrinking the font cache |
| `Progress` | `PDFProgress::start`, `step` | one action per access to an atomic |
| `RasterizerPool` | `PDFRasterizerPool`, `PDFExecutionPolicy::execute` | one runnable per page with its place in `render` (`stage`), content buckets of the nested `execute`, `pool`/`permits` for rasterizers and semaphore. Composes `Progress`: `progress->step()` is that module's protocol, with pages as its workers |
| `ObjectStorage` | `PDFObjectStorage`, `PDFObjectUtils`, visitors | operators, and `SameMeaning`, the definition of two documents saying the same |
| `Optimizer` | `PDFOptimizer` | one action per operation, `NextPass` for the loop of `optimize()`; extends `ObjectStorage` |
| `DocumentWriter` | `PDFDocumentWriter::write` | operators: the rows, headers and trailer written for a storage, when such a file is readable, and what is read from it |
| `OptimizeTool` | `PDFToolOptimize::execute`, the safe way of `PDFDocumentWriter::write` | composes `Optimizer` and `DocumentWriter` with the file: `disk` is what is under the file's name, `device` where the writer writes, `exit` how the tool ended. Opening, writing and renaming may fail, and the process may be killed between them |
| `DocumentReader` | `PDFDocumentReader::readFromBuffer`, `PDFXRefTable`, restoration | `phase` is the place in `readFromBuffer`; sections of the table are read one per step; tasks of `execute` are `todo` and `busy`; authentication is a choice of the outcomes the handlers can have |
| `PagePreview` | `PageItemPreviewRenderer`, the parts of the list view and the model it is called by | members as variables; `batch` are the requests of the future with their progress in the pool, `finished` its posted event, `contexts` the documents' contexts by the version they hold, `locked` the font caches that must not shrink; handlers are one step, except those that wait for the batch (`gui` says for which) |
| `PageItemModel` | `PageItemModel` and, of the page master's `MainWindow`, clipboard, checkpoints, workspace files, replacement and the division of exported pages | `state` is a workspace (rows of pages, trash, sources), `undo`/`redo` the stacks of snapshots, one action per operation |
| `UndoTimeline` | what undo and redo promise | abstract specification: a line of states, a position on it, and limits. `PageItemModel` (stacks of snapshots) and `DocumentSession` (lists of pairs) both refine it |
| `DocumentSession` | `PDFProgramController`, `PDFUndoRedoManager`, the reading function, the file watcher | members as variables; `reader` is the place of the reading function, which announces progress twice if the file is encrypted and may fail wherever the reader returns; `events` what it posted, `disk` and `touched` the files and who wrote them last, `notices` posted by the watcher |
| `DataInduction`, `PageCompilerProofs`, `ProgressProofs`, `RasterizerPoolProofs`, `DocumentReaderProofs` (also of `TextLayoutCompiler`), `DocumentSessionProofs`, `PageMasterProofs`, `OptimizeToolProofs` | – | theorems, see [below](#proofs) |
| `MC...` | – | instances for TLC |

## Runs

Passing runs:

| Run | States | Question | Properties |
|---|---|---|---|
| `page_compiler` | 97,926 | Can any interleaving of handlers, worker and queued signals show an old or incomplete page, lose a result or compile twice? What does happen eventually? | `CacheCurrent`: cached pages are complete and of the present input. `BatchOwned`, `NoRecompilation`, `NoStrandedResult`: tasks are handed over without loss or repetition. `ImplementsService`: the compiler refines `PageService`. `ServedWhenAwake`, `StopReturnsUnlessWakeLost`: the two guarantees that remain in view of the lost wake-ups below. `WithinLimit`: whatever is put into the cache together, and when the limit changes, its cost stays within the limit |
| `text_layout` | 631 | Do computation, event and restarts fit together, also when layouts are asked for without a document? | `EventBelongsToFuture`: an event never meets another computation. `LazyAgrees`: both caches agree. `IndexingEnds`: the flag that blocks new computations is reset. `TextTypeOK` |
| `progress` | 1,383 | Is the compare-and-exchange loop right? | `EmittedOnce`, `NothingLost`, `Monotone` |
| `rasterizer_pool` | 114,708 | Do semaphore, mutex and two pools fit together? | `PermitCovered`: the assertion of `acquire`. `RasterizerExclusive`, `ReturnsWhenDone`, `RenderReturns` |
| `optimizer` | 275,388 | Does any selection of operations change what a document says, do the passes reach what they are for, and is the file safe while it is written back? | `MeaningPreserved` after every operation, but for [later references](#abstractions); `Delivered`: nothing unused, no duplicates, no gaps at the end, as selected; `DiskKept`: whatever fails or is killed, the file can be read and says what it said in the same sense, unless no temporary file was possible; `TerminatesIfUnusedRemoved` |
| `document_reader` | 55,221 | Are version, result, document and restoration right for every file of the instance and every order of tasks? | `NewestVersionRead`; `ResultSound`: the result tells whether the document is complete; `RestoredSoundly`: a file is not restored once its user was authenticated, and intact objects are; `ReadingEnds` |
| `page_preview` | 665,822 | Can thumbnails be rendered through contexts that are gone, be requested for ever or never? | `LiveContext`: a page is rendered through a context that is there, of the present document, with its fonts kept. `PendingIsServed`: a key that is pending belongs to a request. `EventuallyShown`: every row shown gets its thumbnail once the user rests. `Rests`: then the pool does, unless a page is broken |
| `page_model` | 152,226 | Does any sequence of operations, undo, checkpoints and files lose pages or refer to sources that are not there? | `Resolvable`: every page in the workspace and in every snapshot refers to a loaded source. `PagesKept`: moves keep the bag of pages. `DropIsSplice`: a drop within the list is what it looks like. `SplitsPartition`: exported documents divide the pages. `ImplementsTimeline`: the snapshots refine `UndoTimeline` |
| `session` | 126,272 | Is a document ever given up unsaved without a question, or a second one read while a first one is? Reading may fail or be given up in every phase, and so may reading again what another program wrote | `SavedIsOnDisk`: a document that counts as saved is on disk, unless another program changed the file and the document was not read again since: the notice is still posted, came while a document was read, or the file could not be opened or read (`pdfprogramcontroller.cpp:1979`, `:1997`). `NoOverlap`: no command while a document is read. `ImplementsHistory`: the undo manager refines `UndoTimeline`, also when the limits change. `UsableAgain`: the window is enabled again |

Where `TypeOK` is not listed it is a conjunct of another property (`WithinLimit`, `NothingLost`,
`RasterizerExclusive`, `Delivered`, `ResultSound`, `LiveContext`, `NoOverlap`). The
runs that end in a violation are described
[below](#disagreements-between-code-and-documentation).

`CHECK_DEADLOCK FALSE` is set in all of them because the systems may really stop:
the compilers and the preview renderer when their versions or changes are used up or
they are destroyed, the page model and the session when the operations are used up or
the window is closed, the others when they are done. Where something must not block, a
liveness property says so (`RenderReturns`, `ReadingEnds`, `IndexingEnds`,
`UsableAgain`, `EventuallyShown`).

## Bounds

| Constant | Value | Why it is enough |
|---|---|---|
| `PageCompiler!Pages`, `Cost`, `Limits` | two pages of cost 1 and 2, limits 1 to 3 | a limit that holds only the cheap page, one that holds either, one that holds both: refusal, eviction and no eviction |
| `MaxVersion` (page compiler) | 3 (2 for `page_compiler_stop`) | a change before the first start, one while a batch is compiled and one more after the restart, so that signals of an earlier worker meet a later engine |
| `MaxEvents` | 3 (2 for `page_compiler_stop`) | queued signals; further ones coalesce with the last. Signals are handled one by one and each handles all finished tasks, so two queued signals already contain a superfluous one |
| `MaxVersion` (text layout) | 4 | a computation of a replaced document, its event after the restart, the next computation |
| `Workers`, `StepCount`, `Hundred` | 3, 5, 3 | as many threads can compete as there are values between two of them; several steps share a percentage and some do not change it. The proofs hold for all values |
| `RasterizerPool` | 4 pages, 3 threads, 2 rasterizers, 1 content thread, 1 bucket per page | more pages than threads and more threads than rasterizers: both waits occur, and content of several pages competes for one thread |
| `Files`, `Documents` (optimizer) | files of 5 rows (row 0 is the head of the free list), references between 4, one family of files with an older table that the trailer names | every combination of free, simple, page, stream, reference forwards, backwards, to itself, dangling by generation; an entry which can no longer be reused; free entries whose generation is lost by reading, so that references are later than they are; cycles; a file that was updated |
| `MaxGeneration` | 2 (65535 in the code) | an entry below, at and one before the limit |
| `FlagSets` | the selections of the tools, everything, single stages, and merging without removal | the operations of one stage interact only within it and through the storage |
| `DocumentReader!Files` | one version of four objects and at most one update in five forms | the reader treats each further table as it treats the second: entries already known win |
| damage | none or one object | the reader's result is an and of all tasks; one failing task in every order of the others |
| `PagePreview` | 2 rows, two items of one document, one of them broken, one image item, 2 sizes, batches of 1, versions 1 and 2, 3 changes | a row that changes while its request is queued, rendered or reported; a document replaced under a batch; a broken page beside a sound one. With batches of 1 a second request waits, which is where priorities and stale requests matter |
| `PageItemModel` | a file of two pages that has one or two when read again, a file of one; all pages or a list with a repetition; an outline with one entry; an empty or a loaded workspace; `MaxSteps` 2, `MaxRows` 3, 2 changes and 4 operations | 4 operations are enough to copy, change, save and load; two changes for undo to meet redo and for the limit of snapshots to be reached with a replaced selection; the proof of the refinement holds for every limit |
| `DocumentSession` | 2 files, 2 contents, limits (2,2) and (1,0), 3 modifications, 1 write by another program | one more modification than the limit; limits lowered below the history; a write at every moment of reading, saving and refreshing, and a refresh that succeeds or fails |

No state constraint is used; the bounds are in the guards.

## Fairness

- `PageCompiler`: weak fairness of the worker thread and of the steps of `stop()`,
  since the operating system runs both threads and no thread holds the mutex over
  a blocking call. Strong fairness of `onPageCompiled`: Qt delivers posted events in
  order, so that the handlers posted later cannot overtake a queued signal
  for ever, although its guard is false while the worker briefly holds the mutex
  or the main thread is in `stop()`. No fairness is assumed of the user's
  handlers.
- `TextLayoutCompiler`: weak fairness of the computation and of `stop()`, strong
  fairness of the queued event for the same reason.
- `RasterizerPool`: weak fairness of the disjunction of all page steps and of the
  caller's return. The run is finite and every step of a page makes progress, so
  it is enough that some thread with something to do runs.
- `OptimizeTool` (with `Optimizer` in it), `DocumentReader`: one call; weak fairness of
  its steps, in whatever order the pool executes tasks.
- `PagePreview`: weak fairness of the batch in the pool and each of its tasks, of the
  posted event of its end, of the viewport timer, of the repaint of each row marked
  dirty and of the handlers that wait for the batch: threads run, timers expire, Qt
  repaints what was marked. None for the user and the model.
- `DocumentSession`: weak fairness of the reading function, whose question for a password
  the user is taken to answer or cancel, and of the delivery of posted events. Commands of the user come when no posted event is left.
- `PageItemModel` is sequential and has no liveness property.

## Proofs

Eight modules hold theorems. Seven prove, for every value of the constants, invariants or
refinements that a run shows on a small instance; the first holds lemmas for the others. `PROJECT.json` lists the
theorems with the properties they state.

### `DataInduction`

The induction theorems of the library take a predicate as an operator, which the
provers cannot instantiate. Here the predicate is the set of the numbers that satisfy it:

- `LeastNumber`, `SetInduction`, `GreatestNumber`, `FiniteImage`; `Recursion`: a function
  defined by recursion over the natural numbers exists and is what its equations say.
- `Folding`, `IsFold`, `FoldSteps`, `FoldIs`: the folds of the community modules choose a
  function on sets of positions; it exists, is the only one, and goes step by step.

These are lemmas of mathematics, which say nothing of the code; walks over documents, chains
of updates, folds and ranks are proved about with them.

### `PageCompilerProofs`

Assumptions: pages, costs, limits and bounds are natural numbers, at least one event
can be queued.

- `TypeCorrect`, `CacheIsCurrent`, `BatchesAreOwned`, `NothingCompiledTwice`,
  `NothingStranded`: `Spec => []P` for `TypeOK`, `CacheCurrent`, `BatchOwned`,
  `NoRecompilation`, `NoStrandedResult`.
- `Refinement`: `Spec => Service!Spec`.

`CacheCurrent` alone is not inductive: a cached page is right because the task it
came from was, that task because the worker compiled it from the present input,
and that input was present because a change passes through `stop()`, which joins
the worker. The invariant `IInv` names these links: `Lifecycle` (engine state, worker
phase and position of the main thread agree; an interruption exists only within
`stop()`), `BatchContents` (what the worker holds is of the present version while
the engine is active), `FreshResults` (finished tasks and cached pages are fresh
while nothing has announced a change), and the three hand-over properties, which
are needed so that an image is written over exactly the task it was compiled for.
While a handler is in `stop()`, freshness is given up for finished tasks and,
unless the stop is soft, for the cache; `StopJoin` restores it by clearing both.

There is one lemma per action for `IInv` and one case per action for the refinement.
The refinement mapping delays a change that is announced before `stop()` is called
(colour management, optional content) until `stop()` has emptied the cache, which is
when `PageService!Replace` happens; every other change happens at `StopJoin` or
`StartFirst`, everything that adds or removes pages is `Publish`, the rest stutters.

### `ProgressProofs`

Assumptions: the number of steps and the scale are positive.

- `TypeCorrect`, `OneWinner` (`EmittedOnce`), `NoLostUpdate` (`NothingLost`),
  `NeverFalls` (`Monotone`).

No one thread's view suffices, so `IInv` adds four facts to the type invariant:
`Bounded` (nobody is ahead of the steps counted, and no loaded value is above the
percentage, which rules out lowering it), `UnderWay` (the percentage of all counted
steps has been reached, or a thread on its way to it will try again until it has),
`Emission` (a value is announced or about to be announced by at most one thread, and
only once the percentage has reached it) and `Announced` (the percentage itself has
been or is about to be announced). The lemmas on `Percent` (monotone, within the
scale, exact at the end) are proved from the definition of integer division.

### `DocumentReaderProofs`

Assumptions `FilesAssumption` (what a file may be) and `TablesAssumption`: a file has finitely
many tables, the offset 0 is that of the header, and the stream a hybrid table names has no
older tables of its own.

- `NewestIsRead` (`NewestVersionRead`), `ResultIsSound` (`ResultSound`), `RestoresSoundly`
  (`RestoredSoundly`), for every file, damage, password and order in which the tasks end.

`Newest` folds the chain of updates from the oldest, the reader walks it from the
newest with a stack; what it has merged so far is wrong for entries that only an older
update mentions. `NewestInv` therefore divides the numbers of the file while tables are
read: one is `Fine` (the entry is what it should be), `Hidden` (free in the table just read,
given by the stream that is read next) or `Promised` (known only to updates that are still
on the stack). `Pending` says that the stack holds exactly the older update and that stream.
When the stack is empty nothing is hidden or promised.

`TextTypeCorrect`, `EventsBelong` (`EventBelongsToFuture`) and `LazyPageAgrees` (`LazyAgrees`) are
about the text layout compiler: `TextInv` says beside the types that a
computation that is over, or a stop that waits for it, has its event announced
(`Announced`), that the running flag blocks the next computation until that event is
handled (`Blocked`), and that both caches agree.

### `RasterizerPoolProofs`

Assumptions: finite, non-empty sets of pages and rasterizers, a positive scale, positive
numbers of threads, any number of buckets.

- `PermitsAreCovered` (`PermitCovered`), `RasterizersAreExclusive`
  (`RasterizerExclusive`), `NothingLeftBehind` (`ReturnsWhenDone`).

`IInv` says which thread holds what: rasterizers are divided among pool and threads
(`Divided`), each used one has one owner (`Owned`), and free permits plus threads
between semaphore and mutex count the pool (`Counted`); the last needs the cardinality
of the set of threads past the semaphore, step by step. The progress of the pool is an
instance of `Progress`, so its invariant is taken from `ProgressProofs` (`PP!IInv`).

### `DocumentSessionProofs`

Assumptions: the value for "none" is neither a file nor a content; limits are natural.

- `CommandsDoNotOverlap` (`NoOverlap`), `NothingUnsavedIsLost` (`SavedIsOnDisk`).

`SavedIsOnDisk` rests on the reading function: a document that arrives as saved must
still be what the file holds, or the file is touched. `IInv` therefore carries
`ReadIsOnDisk` along the phases of reading, `Enabled` (the window is disabled from
opening to the end that is posted last) and `Exclusive` (the order of the events
posted by one reading), beside `History` (no kept pair resets the history).

### The timelines of `DocumentSessionProofs` and `PageMasterProofs`

- `TimelineImplemented` in each: `Spec => ImplementsHistory` and `Spec => ImplementsTimeline`,
  for all documents, workspaces and limits. In `PageMasterProofs` the limit is assumed positive (it is
  10 in the code), since the replacement of a selection leaves two snapshots at once.

The undo manager keeps pairs of documents, so the invariant of `DocumentSessionProofs`
is strengthened by `Linked`: neighbouring pairs share a document and are a window of one
line. The page model keeps single snapshots; there `IInv` only says that the stacks
hold elements of some set and respect the limit. Both proofs describe the line
element by element (`LineElements`, `OneLine`), show once that the limit leaves a
window of it (`KeptLine`), and map each operation to a step of the line. The
page model's operations are reduced to what they do to the stacks (`NextIsHistoric`).

### The previews of `PageMasterProofs`

Assumption: `ConstantsAssumption`, every page has a source, a batch holds at least one
request, and there is a size to start with.

- `ContextsLive` (`LiveContext`): a task in the pool has a context, which is neither deleted
  nor replaced while it is used and whose fonts are kept.
- `PendingServed` (`PendingIsServed`): a pending key belongs to a request in the queue or in
  the batch.

The inductive invariant `PreviewInv` follows a request. Painting makes the context and then
queues the request (`QueuePrepared`), the batch takes it with its context (`Prepared`), and
contexts only go when the main thread has waited: no batch is running that `rendering` does
not know of, nor known to be rendered without an event to come (`Lifecycle`). `ContextsHold`
says that a context, once made, is that of the document the model holds, though
`ensureDocumentContext` never looks again: an insertion only brings documents that were not
there. `Requested` needs that every way a request leaves the queue takes its key along, to the
batch or from the pending ones; that is one lemma about how `startNextRequest` divides the
queue (`Divides`, `TakenFits`, `StartsNext`), used by painting, settling and the end of a batch.

### The workspace of `PageMasterProofs`

Assumptions: `MaxStepsAssumption`, and `DataAssumption`: page counts are natural numbers, lists
of pages are sequences of integers (with repetitions and with pages that do not exist), and
the model starts with a well-formed workspace, such as the empty one.

- `PagesResolve` (`Resolvable`): every page shown, in the trash or in a snapshot is one of
  what its own workspace has loaded; no row is empty.
- `DropsSplice` (`DropIsSplice`): rows erased one by one from the last and put back at the
  corrected place are the splice a user expects; `extractItems` keeps their order.
- `SplitsPartitionPages` (`SplitsPartition`): whatever the split, the exported documents hold
  the pages once and in order, and none is empty.

The inductive invariant `WorkspaceInv` says that the workspace and every snapshot are
`Workspace`s: rows and trash refer to what is loaded, and no file is loaded twice. It says
less of checkpoints and workspace files, whose rows may well refer to pages that are gone:
they are rows of pages, and what passes `Restorable` refers to what is there
(`RestorableIs`). There is a lemma for each operation on rows, a lemma for each action, and
`Resolvable` follows for all snapshots at once.

The operations are loops, in the model folds. Each loop is described by its steps and a
closed form is proved of it: erasing from the last row leaves the rows at the other places
(`ErasedIs`), extracting gives the pages at the places (`ExtractedIs`), dividing keeps the
pages whatever opens a row (`DividedIs`), filling by size keeps what it filled (`SplitBySizeIs`).
`AtConcat` (the elements at two sets of places, one before the other) then gives the splice.

### `OptimizeToolProofs`

Assumptions: `DocumentsAssumption`, every document is a storage as a parser makes it
(`Stored`: an array of entries with generations that can be stored, of null, simple values
and dictionaries, no indirect object being itself a reference); `FilesAssumption`, the tool
is called with files that can be read as such a document and whose entry 0 is free. Nothing
is assumed of the generations of references, so the theorems hold also for files in which
an object was deleted twice, see [later references](#abstractions).

- `MeaningIsPreserved` (`MeaningPreserved`): after each operation, in any number of passes, the
  storage says what the source said, except that a later reference may have come to lead
  somewhere. No page is lost, and none is gained if the source has no later references.
- `SelectionIsDelivered` (`Delivered`): when the passes are over nothing is unreferenced and no
  gap is left, as far as selected; no two objects are the same either, unless the storage
  was shrunk and the source has later references.
- `FileSaysTheSame` (`DiskKept`): whatever fails, the file can be read and says what it said,
  in the sense of `MeaningPreserved`. `FileStaysWhole`, its first conjunct, needs that no
  operation gives entry 0 an object (`HeadIsFree`).
- `WrittenIsReadable`, `ReferencesKept`: the file written for any storage with a free
  entry 0 is readable, and what a reader finds for any reference, also a dangling
  one, is what the storage had.
- `ReferencesAreClosed`: what `getReferences` returns is closed under following references.

`SameMeaning` compares two documents by walking both from their trailers, as many rounds as
there are objects. The proofs replace the walk by a `Simulation`: a function from the live
references of one document to those of the other such that what they lead to matches,
entry by entry. A simulation keeps the meaning (`SimulationKeepsMeaning`, by induction over the
rounds), simulations compose, and each operation has one: the identity for dereferencing,
removing and recompressing, the merge map for merging, the composition of the moves for
shrinking. No page is merged, so the simulation tells pages apart and their number does not
fall (`SimulationKeepsPages`). Keys with later references may come alive in a
`Simulation`; `Tracks` says that no key gets a later reference that did not have one, so that
simulations still compose. For shrinking this holds because generations only grow and an
object moves into an entry one generation further (`MovedReferences`). Without later
references the simulation is a bijection.
The rounds suffice because a round that adds nothing is the last (`ReferencesAreClosed`).

`Delivered` needs to know what a pass that reports no change has done: `LoopInv` says that
from there on nothing is unused (`UsedInv`) and nothing is a duplicate (`ApartInv`), although a
merge may orphan objects after the removal of its pass, and that shrinking and
recompressing keep this. The gaps need the order of the moves: the n-th free entry from
below takes the n-th occupied one from above as long as they have not met, so counting
entries below and above (`RankBelow`, `RankAbove`) finds for every gap the object that must
have been moved into it.

### Only model-checked

- Liveness, which needs fairness and `ENABLED`.
- `PagesKept` of `PageItemModel`: that an operation keeps every page as often as it was there is
  about bags, and needs a permutation for each way of regrouping.

## Abstractions

- A page image is the version of the input it was rendered from and whether
  rendering was complete. A compilation that overlaps a change may see either
  version, and one that is cancelled may be complete or not.
- `QCache` evicts in order of use; the model leaves the order of older pages open,
  which includes it. A page that alone exceeds the limit is refused.
- `std::atomic` with relaxed order: every property of `Progress` is about one atomic
  at a time, for which all threads see one order of changes. A spurious failure of
  `compare_exchange_weak` reloads the same value and is a stuttering step.
- An object is null, simple or a dictionary with a content; arrays and nested
  dictionaries are flattened to entries. Content is "loose" or "tight",
  recompression makes it tight without changing the data. `MeaningPreserved`
  compares values up to that.
- Later references: a reference whose generation is above that of the entry of its number
  leads to null. The reader gives free entries generation 0 whatever their rows say, so a
  file in which an object was deleted twice (its row is free with generation 2) is read with
  such references if some are left to its second object. Shrinking gives the entry to another
  object with generation 1, and the old references lead to that object
  (`pdfoptimizer.cpp:331`). `SameMeaning` excepts their keys (`Later`), and nothing else: what
  they lead to is not compared. With them in a document, shrinking may also make two objects
  the same or bring an unreferenced page back, so `NoDuplicates` of a storage that was shrunk
  and the equality of the page counts ask for a source without them (`NoneLater`).
  Documents with and without them are in the instance.
- `FilesAssumption`: a file of the optimize tool can be read, and its entry 0 is free, as the
  standard demands.
- The writer's values are abstract: serialization, encryption on writing, object
  streams and the second, unsafe way of writing are left out. A file under
  construction is incomplete until its end.
- A file is where things are in it: sections of the table by offset, objects by
  offset, whether they are intact, the reference of their length, the members of an
  object stream. Byte scanning is left out; the result of the scan is in `Files`.
- `PDFCatalog::getPage` throws for an index out of range and never returns null, so
  the branches that test for null are dead; the callers check ranges first
  (`pdfutils.cpp:467`), and the models render and index only pages that exist.
- In `PagePreview` a page is the version of its source; the thumbnails of the rows shown
  are taken to fit the cache. `m_renderEpoch` is only compared, so a request carries
  whether its epoch is the present one.
- In `PageItemModel` a page's additional rotation stands for all of its attributes;
  names and sort keys other than the page number are left out, and `std::sort` orders equal
  keys in any way. Rows restored from a workspace file name sources by index.
- In `DocumentSession` a document is its content and the content its source hash stands
  for. Reading may fail, or be given up when the password is asked for, wherever the code
  returns; an exception between the start and the end of an announced progress is left out.
  Another program writes a file at once; the watcher posts one notice for writes that come
  close together.
- Errors, texts, timings and log output are left out.

## Disagreements between code and documentation

Each is a run whose property states a sentence of the repository, which TLC finds
violated:

| Run | Sentence | What happens |
|---|---|---|
| `page_compiler_stop` | `pdfcompiler.h:81` "Stops the engine and all underlying asynchronous tasks." | `stop()` calls `wakeAll` without the mutex. If that falls between the worker's test for interruption and its wait, the worker sleeps for ever and `stop()` waits for it |
| `optimizer_merge` | `pdfoptimizer.h:33` the steps are configurable | merging without removing unused objects finds the same duplicates in every pass and never ends |
| `session_close` | `pdfeditormainwindow.cpp:549-550` "Do not allow to close the application, if document reading is running." | `canClose` also asks for the busy flag, which is set by a queued event and reset before the signatures are verified: the window closes in both gaps |

`findings` in `PROJECT.json` has the details.

Further observations made while modelling, without a run of their own:

Compilers and previews
- The worker of the page compiler waits before it looks at the tasks. A request made
  after `start()` and before that wait is compiled only when another request
  follows; this is why `ServedWhenAwake` speaks of an awake worker. The gap is the
  one of `page_compiler_stop`; testing the tasks before waiting and calling `wakeAll`
  with the mutex locked would close both.
- `pdfcompiler.cpp:596`: the finished event of a computation that ended during
  `stop()` stores the old layout in the cleared storage, although `pdfcompiler.h:174` says
  that the cache is cleared. The text layout compiler also has no destructor that waits
  for its computation (`pdfcompiler.cpp:338`).
- A page that alone exceeds the cache limit is refused (`pdfcompiler.cpp:301`), so it is
  compiled again whenever it is drawn.
- The progress signal is emitted after the exchange (`pdfprogress.cpp:63`), so listeners
  may receive a lower value after a higher one.
- `pageitempreviewrenderer.cpp:657` puts a result of an earlier epoch into the cache
  if its row is visible; `pageitempreviewrenderer.h:74-75` says that the epoch is there
  so that stale results can be ignored.
- A page that cannot be rendered is requested again by the repaint that follows each
  batch (`pageitempreviewrenderer.cpp:666`), so the pool never rests while it is shown;
  `Rests` excepts it.

Reading, optimizing, writing
- A broken object stream sets the result to failed, but the document is returned
  (`pdfdocumentreader.cpp:588`; `pdfdocumentreader.h:72` says that it is empty then).
- The length of a stream that is held in an object stream reaches the branch of
  `Q_ASSERT(false)` at `pdfdocumentreader.cpp:244`.
- Restoration passes no entries to decrypt: a restored encrypted document is returned
  encrypted with result OK (`pdfdocumentreader.cpp:760`, compare the comment at :399).
- An entry of the reference table that an update frees looks like one which the update
  does not mention (`pdfxreftable.cpp:124`), so that the older table brings the
  object back. `NewestVersionRead` is therefore about objects that are not free.
- If a security handler fails after it asked the user, the restoration of the file
  asks again (`pdfdocumentreader.cpp:775`); `RestoredSoundly` says that this never happens
  to a user who was authenticated. If a damaged file holds an object twice, the task that
  ends first wins (`pdfdocumentreader.cpp:718`).
- Free entries are read with generation 0, so after shrinking a dangling reference of a
  later generation may come alive (`pdfoptimizer.cpp:331`, see
  [later references](#abstractions)); the repository promises nothing of such references,
  so this is no disagreement with it. After shrinking without a move
  the trailer keeps its `/Size` in the storage (`pdfoptimizer.cpp:394`).
- The image optimizer keeps the source hash of the document (`pdfoptimizer.cpp:862`),
  which the session takes for the content of the file.
- Without a temporary file the writer truncates the only copy before it writes
  (`pdfdocumentwriter.cpp:195`); `FileWhole` excepts it. A storage whose entry 0 holds an
  object is written with generation 65535 in its row and another in its header.

Windows
- The undo manager is used without a test at `pdfprogramcontroller.cpp:2002`, where a
  viewer has none. `openDocument` and `resetSettings` give up a modified document without
  a question (`pdfprogramcontroller.cpp:2052`). A notice of the watcher that arrives while a
  document is read is ignored (`pdfprogramcontroller.cpp:1967`); `touched` records it.
- Checkpoints are chosen by name and index (page master `mainwindow.cpp:3315`, `:3321`) and
  refer to sources by index; the clipboard keeps row numbers (`mainwindow.cpp:3401`), so
  that a paste after another change moves other rows. `Resolvable` shows that neither leads
  to a page without a source.

## Not modelled

- Pure data processing, better served by unit tests and references: parser and
  lexical analyzer, stream filters and image decoders (JBIG2, JPEG 2000, CCITT), the
  interpreter of page contents and the transparency renderer, font programs, the XFA
  engine's layout, colour arithmetic, right-to-left text, ciphers and key derivation. They
  are the larger part of the code; their state is that of one call.
- Generated code (`pdfdocumentbuilder.cpp`, glyph name tables) and resources.
- Calls of libraries that keep the state themselves: signatures, certificate store,
  text to speech.
- Layout, drawing, dialogs, the other commands of the tool.
- Of modelled components: typed accessors of the document, geometry of the draw widget,
  byte scanning of the reader, changes of the execution strategy during a call, encryption,
  size counters and the unsafe way of the writer, printing and bookmarks of the program
  controller, filters and captions of the page master.

## Plan

What would come next, each with the module it composes with and the property that
matters:

1. `FontCache` – shrink locks of several owners, shrinking while pages are compiled,
   composed with both compilers and the previews (`guard`, `locked`).
2. `DocumentManipulator` – copying objects between documents, flattening the page tree,
   renumbering; refinement of "a list of pages", which `PageItemModel` exports.
3. The optimize tool run twice on one file: what the second run makes of the generations of
   free entries that the first one wrote.
4. `OptionalContent`, `Forms` – radio button groups, visibility expressions, propagation of
   field values; the longest common subsequence of the text comparison checked against a
   reference definition.

Theorems: `PagesKept` for the operations of `PageItemModel`, by a permutation of the pages that
each of them gives.

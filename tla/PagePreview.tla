---------------------------- MODULE PagePreview ----------------------------
(***************************************************************************)
(* PageItemPreviewRenderer (pageitempreviewrenderer.h/.cpp of              *)
(* Pdf4QtPageMaster): the thumbnails of the page master's list view.       *)
(*                                                                         *)
(* Handlers run in the main thread and are one step each, except for the   *)
(* reset of the model and the destructor, which wait for the batch being   *)
(* rendered and so are two.  A batch is rendered in the thread pool; its   *)
(* end reaches the main thread as a queued event of m_renderWatcher.       *)
(*                                                                         *)
(* A row of the list shows the first page of its item.  An item's page     *)
(* comes from a source, a document or an image, and is abstracted to the   *)
(* version of that source; a rendered image is the version it shows, 0     *)
(* stands for the null image.  m_renderEpoch is only ever compared with    *)
(* the epoch of a request, so a request carries the outcome: current.      *)
(* The thumbnails of the visible rows are taken to fit the cache.          *)
(***************************************************************************)
EXTENDS Integers, FiniteSets, SequencesExt

CONSTANTS
    RowCount,    \* positions in the list
    Items,       \* what a row may show
    Documents,   \* sources rendered through a context
    Images,      \* sources that are images
    SourceOf,    \* the source of an item
    Broken,      \* items whose page cannot be rendered
    Sizes,       \* values of m_pageImageSize
    MaxBatch,    \* number of page threads
    NoItem,      \* no such row
    Versions,    \* what a source may hold, bounds the contents
    MaxEvents   \* bound: changes of view and model

Positions == 1..RowCount
PageSources == Documents \cup Images
Keys == Items \X Sizes

ASSUME ConstantsAssumption ==
    /\ RowCount \in Nat
    /\ SourceOf \in [Items -> PageSources]
    /\ Documents \cap Images = {}
    /\ Broken \subseteq Items
    /\ NoItem \notin Items
    /\ Sizes # {}
    /\ Versions \subseteq Nat \ {0}
    /\ MaxBatch \in Nat \ {0}
    /\ MaxEvents \in Nat

VARIABLES
    item,        \* the model: what each row shows
    content,     \* the model: version of each source, 0: not there
    visible,     \* the view: positions that intersect the viewport
    dirty,       \* the view: rows to be painted again
    size,        \* m_pageImageSize
    cache,       \* m_pageImageCache
    pending,     \* m_pendingKeys
    queue,       \* m_requestQueue
    scrolling,   \* m_scrollInProgress; the viewport timer runs
    rendering,   \* m_renderInProgress
    contexts,    \* m_documentContexts: version of the document held, 0: none
    batch,       \* requests of the future and how far they are
    worker,      \* state of the future
    finished,    \* the finished event of the watcher is queued
    locked,      \* documents whose font cache must not shrink
    gui,         \* what the main thread does
    events      \* number of changes so far

model == <<item, content>>
view == <<visible, dirty>>
requests == <<pending, queue>>
future == <<batch, worker, finished>>
previewVars == <<model, view, size, cache, requests, scrolling, rendering,
          contexts, future, locked, gui, events>>

Requests == [key : Keys, row : Positions, image : {0} \cup Versions]
Tasks == [request : Requests, current : BOOLEAN,
          stage : {"queued", "using", "done"}, image : {0} \cup Versions]

\* The lists of items the model may show with the contents c.
Lists(c) == {list \in [Positions -> Items \cup {NoItem}] :
                /\ \A r \in Positions \ {1} : list[r] # NoItem => list[r - 1] # NoItem
                /\ \A r \in Positions : list[r] # NoItem => c[SourceOf[list[r]]] # 0}

Key(r) == <<item[r], size>>
SourceOfKey(k) == SourceOf[k[1]]
IsRunning == worker \in {"starting", "rendering"}
IsRowVisible(r) == r \in visible /\ item[r] # NoItem

\* The batch when m_renderEpoch is increased.  Queued requests need no such
\* care: whoever increases the epoch renews or drops them.
OutdatedBatch == [i \in DOMAIN batch |-> [batch[i] EXCEPT !.current = FALSE]]

KeysOf(q) == {q[i].key : i \in DOMAIN q}
Changed == events < MaxEvents /\ events' = events + 1

PreviewInit ==
    /\ content = [s \in PageSources |-> 0]
    /\ item = [r \in Positions |-> NoItem]
    /\ visible = Positions
    /\ dirty = Positions
    /\ size = CHOOSE s \in Sizes : TRUE
    /\ cache = [k \in Keys |-> 0]
    /\ pending = {}
    /\ queue = <<>>
    /\ scrolling = TRUE
    /\ rendering = FALSE
    /\ contexts = [d \in Documents |-> 0]
    /\ batch = <<>>
    /\ worker = "idle"
    /\ finished = FALSE
    /\ locked = {}
    /\ gui = "free"
    /\ events = 0

-----------------------------------------------------------------------------
(* The queue.                                                              *)

\* mutant: a request that leaves the queue stays pending
DroppedKeepsKey(q, shown) == {}

\* A queue without its requests for rows other than shown, whose keys are
\* no longer pending.
Kept(q, shown) ==
    LET kept[n \in 0 .. Len(q)] ==
            IF n = 0 THEN <<>>
            ELSE IF q[n].row \in shown THEN Append(kept[n - 1], q[n]) ELSE kept[n - 1]
    IN  kept[Len(q)]
KeysDropped(q, shown) == {q[i].key : i \in {j \in DOMAIN q : q[j].row \notin shown}}

PruneRequestQueue(shown) ==
    /\ queue' = Kept(queue, shown)
    /\ pending' = pending \ KeysDropped(queue, shown)

ClearPreviewCache ==
    /\ cache' = [k \in Keys |-> 0]
    /\ pending' = {}
    /\ queue' = <<>>
    /\ batch' = OutdatedBatch

\* How many requests the loop takes from q until the batch is full.
TakeCount(q) ==
    LET full == {n \in DOMAIN q : Cardinality({i \in 1..n : IsRowVisible(q[i].row)}) = MaxBatch}
    IN  IF full = {} THEN Len(q) ELSE Min(full)

\* startNextRequest, with the queue q, the pending keys p, whether a batch is
\* being rendered, its tasks, and whether its finished event is queued:
\* setFuture drops that.
StartNextRequest(q, p, busy, tasks, event) ==
    LET taken == IF scrolling' \/ busy THEN <<>> ELSE SubSeq(q, 1, TakeCount(q))
        shown == {r \in Positions : IsRowVisible(r)}
        chosen == Kept(taken, shown)
    IN  /\ queue' = SubSeq(q, Len(taken) + 1, Len(q))
        /\ pending' = p \ KeysDropped(taken, shown)
        /\ rendering' = (busy \/ chosen # <<>>)
        /\ batch' = IF chosen = <<>> THEN tasks
                    ELSE [i \in DOMAIN chosen |-> [request |-> chosen[i], current |-> TRUE,
                                                   stage |-> "queued", image |-> 0]]
        /\ worker' = IF chosen = <<>> THEN worker ELSE "starting"
        /\ finished' = (event /\ chosen = <<>>)

-----------------------------------------------------------------------------
(* The view.                                                               *)

\* requestPreview of a row that has no image
Wanted(r) == /\ ~scrolling
             /\ cache[Key(r)] = 0
             /\ Key(r) \notin pending

\* ensureDocumentContext: an existing context is not looked at again.
EnsureDocumentContext(d) ==
    IF contexts[d] = 0 THEN [contexts EXCEPT ![d] = content[d]] ELSE contexts

\* PageItemDelegate::paint of one row
Paint(r) ==
    /\ gui = "free" /\ r \in dirty /\ IsRowVisible(r)
    /\ dirty' = dirty \ {r}
    /\ UNCHANGED <<model, visible, size, cache, scrolling, locked, gui, events>>
    /\ IF Wanted(r)
       THEN LET source == SourceOf[item[r]]
                request == [key |-> Key(r), row |-> r,
                            image |-> IF source \in Images THEN content[source] ELSE 0]
            IN  /\ contexts' = IF source \in Documents THEN EnsureDocumentContext(source)
                                                        ELSE contexts
                /\ StartNextRequest(Append(queue, request), pending \cup {Key(r)},
                                    rendering, batch, finished)
       ELSE UNCHANGED <<requests, rendering, contexts, future>>

\* onViewportChanged when the view shows the positions seen: a scroll bar
\* moves, the viewport is resized or shown.
OnViewportChanged(seen) ==
    /\ visible' = seen
    /\ dirty' = Positions
    /\ scrolling' = TRUE
    /\ batch' = OutdatedBatch
    /\ PruneRequestQueue({r \in seen : item[r] # NoItem})

Scroll == /\ gui = "free" /\ Changed
          /\ \E seen \in SUBSET Positions : OnViewportChanged(seen)
          /\ UNCHANGED <<model, size, cache, rendering, contexts, worker,
                         finished, locked, gui>>

\* The filter of the proxy model hides or shows rows; no signal of the
\* source model or a scroll bar need tell.
Filter == /\ gui = "free" /\ Changed
          /\ visible' \in SUBSET Positions
          /\ dirty' = Positions
          /\ UNCHANGED <<model, size, cache, requests, scrolling, rendering,
                         contexts, future, locked, gui>>

\* onViewportSettled: the timer ends.
ViewportSettled ==
    /\ gui = "free" /\ scrolling
    /\ scrolling' = FALSE
    /\ dirty' = Positions
    /\ LET shown == {r \in Positions : IsRowVisible(r)}
       IN  StartNextRequest(Kept(queue, shown), pending \ KeysDropped(queue, shown),
                            rendering, OutdatedBatch, finished)
    /\ UNCHANGED <<model, visible, size, cache, contexts, locked, gui, events>>

\* setPageImageSize
Zoom == /\ gui = "free" /\ Changed
        /\ size' \in Sizes \ {size}
        /\ ClearPreviewCache
        /\ dirty' = Positions
        /\ UNCHANGED <<model, visible, scrolling, rendering, contexts, worker,
                       finished, locked, gui>>

-----------------------------------------------------------------------------
(* The model.                                                              *)

\* dataChanged: a row shows another page of the same list (it is rotated or
\* cropped), nobody tells the renderer.
ItemChanged(r) ==
    /\ gui = "free" /\ Changed /\ item[r] # NoItem
    /\ \E i \in Items \ {item[r]} : /\ SourceOf[i] = SourceOf[item[r]]
                                    /\ item' = [item EXCEPT ![r] = i]
    /\ dirty' = dirty \cup {r}
    /\ UNCHANGED <<content, visible, size, cache, requests, scrolling, rendering,
                   contexts, future, locked, gui>>

\* onModelStructureChanged, when a source not there before was inserted
Insert(r, i) ==
    /\ gui = "free" /\ Changed
    /\ \E c \in IF content[SourceOf[i]] = 0 THEN Versions ELSE {content[SourceOf[i]]} :
           content' = [content EXCEPT ![SourceOf[i]] = c]
    /\ item' = [s \in Positions |-> IF s < r THEN item[s]
                                    ELSE IF s = r THEN i ELSE item[s - 1]]
    /\ item' \in Lists(content')
    /\ ClearPreviewCache
    /\ scrolling' = TRUE
    /\ dirty' = Positions
    /\ UNCHANGED <<visible, size, rendering, contexts, worker, finished, locked, gui>>

\* onModelAboutToBeReset and the destructor: first they clear and wait.
WaitForCurrentRender(doing) ==
    /\ gui = "free" /\ Changed
    /\ gui' = doing
    /\ IF doing = "resetting" THEN ClearPreviewCache
                              ELSE UNCHANGED <<cache, requests, batch>>
    /\ UNCHANGED <<model, view, size, scrolling, rendering, contexts, worker,
                   finished, locked>>

\* mutant: the reset does not wait for the batch
ResetModelUnwaited ==
    /\ gui = "resetting"
    /\ gui' = "free"
    /\ rendering' = FALSE
    /\ contexts' = [d \in Documents |-> 0]
    /\ content' \in [PageSources -> {0} \cup Versions]
    /\ item' \in Lists(content')
    /\ ClearPreviewCache
    /\ scrolling' = TRUE
    /\ dirty' = Positions
    /\ UNCHANGED <<visible, size, worker, finished, locked, events>>

\* The contexts go, the model changes in any way, onModelReset clears again.
\* The finished event of the batch stays queued.
ResetModel ==
    /\ gui = "resetting" /\ ~IsRunning
    /\ gui' = "free"
    /\ rendering' = FALSE
    /\ contexts' = [d \in Documents |-> 0]
    /\ content' \in [PageSources -> {0} \cup Versions]
    /\ item' \in Lists(content')
    /\ ClearPreviewCache
    /\ scrolling' = TRUE
    /\ dirty' = Positions
    /\ UNCHANGED <<visible, size, worker, finished, locked, events>>

Destroy ==
    /\ gui = "destroying" /\ ~IsRunning
    /\ gui' = "gone"
    /\ rendering' = FALSE
    /\ contexts' = [d \in Documents |-> 0]
    /\ finished' = FALSE
    /\ UNCHANGED <<model, view, size, cache, requests, scrolling, batch, worker,
                   locked, events>>

-----------------------------------------------------------------------------
(* The thread pool.                                                        *)

Main == <<model, view, size, cache, requests, scrolling, rendering, contexts, gui, events>>

\* renderPreviewBatchAsync: the caches of the contexts there are must not shrink
BatchBegins ==
    /\ worker = "starting"
    /\ worker' = "rendering"
    /\ locked' = {d \in Documents : contexts[d] # 0 /\
                      \E i \in DOMAIN batch : SourceOfKey(batch[i].request.key) = d}
    /\ UNCHANGED <<Main, batch, finished>>

\* renderPreviewAsync: the context is looked up under the mutex and then used;
\* a request for an image needs none.
LookUp(i) ==
    /\ worker = "rendering" /\ batch[i].stage = "queued"
    /\ LET source == SourceOfKey(batch[i].request.key)
           version == IF source \in Documents THEN contexts[source]
                                              ELSE batch[i].request.image
       IN  batch' = [batch EXCEPT ![i].stage = IF version = 0 THEN "done" ELSE "using",
                                  ![i].image = version]
    /\ UNCHANGED <<Main, worker, finished, locked>>

Render(i) ==
    /\ worker = "rendering" /\ batch[i].stage = "using"
    /\ batch' = [batch EXCEPT ![i].stage = "done",
                              ![i].image = IF batch[i].request.key[1] \in Broken THEN 0 ELSE @]
    /\ UNCHANGED <<Main, worker, finished, locked>>

BatchEnds ==
    /\ worker = "rendering"
    /\ \A i \in DOMAIN batch : batch[i].stage = "done"
    /\ worker' = "ended"
    /\ locked' = {}
    /\ finished' = TRUE
    /\ UNCHANGED <<Main, batch>>

-----------------------------------------------------------------------------
(* The results.                                                            *)

\* mutant: the pending keys of results that are not cached stay
ResultKeysOfImages == {batch[i].request.key : i \in {j \in DOMAIN batch : batch[j].image # 0}}

ResultKeys == {batch[i].request.key : i \in DOMAIN batch}

\* mutant: only results whose epoch is no longer the present one are taken
AcceptedOutdated(i) == batch[i].image # 0 /\ ~batch[i].current

Accepted(i) == batch[i].image # 0 /\ (batch[i].current \/ IsRowVisible(batch[i].request.row))

\* onRenderFinished; QCache may give up images that are not shown.
RenderFinished ==
    /\ gui = "free" /\ finished
    /\ LET accepted == {i \in DOMAIN batch : Accepted(i)}
           new == {batch[i].request.key : i \in accepted}
           shown == {Key(r) : r \in {s \in Positions : IsRowVisible(s)}}
       IN  \E evicted \in SUBSET {k \in Keys \ (new \cup shown) : cache[k] # 0} :
              cache' = [k \in Keys |->
                           IF k \in new
                           THEN batch[CHOOSE i \in accepted : batch[i].request.key = k].image
                           ELSE IF k \in evicted THEN 0 ELSE cache[k]]
    /\ dirty' = Positions
    /\ UNCHANGED scrolling
    /\ StartNextRequest(queue, pending \ ResultKeys, FALSE, batch, FALSE)
    /\ UNCHANGED <<model, visible, size, contexts, locked, gui, events>>

-----------------------------------------------------------------------------
PreviewNext ==
    \/ Scroll \/ Filter \/ Zoom \/ ViewportSettled
    \/ \E r \in Positions : Paint(r) \/ ItemChanged(r)
    \/ \E r \in Positions, i \in Items : Insert(r, i)
    \/ \E doing \in {"resetting", "destroying"} : WaitForCurrentRender(doing)
    \/ ResetModel \/ Destroy
    \/ BatchBegins \/ BatchEnds
    \/ \E i \in DOMAIN batch : LookUp(i) \/ Render(i)
    \/ RenderFinished

Fairness ==
    /\ WF_previewVars(BatchBegins) /\ WF_previewVars(BatchEnds)
    /\ \A i \in 1..MaxBatch : WF_previewVars(i \in DOMAIN batch /\ (LookUp(i) \/ Render(i)))
    /\ WF_previewVars(RenderFinished) /\ WF_previewVars(ViewportSettled)
    /\ \A r \in Positions : WF_previewVars(Paint(r))
    /\ WF_previewVars(ResetModel) /\ WF_previewVars(Destroy)

PreviewSpec == PreviewInit /\ [][PreviewNext]_previewVars /\ Fairness

-----------------------------------------------------------------------------
TypeOK ==
    /\ content \in [PageSources -> {0} \cup Versions] /\ item \in Lists(content)
    /\ visible \subseteq Positions /\ dirty \subseteq Positions
    /\ size \in Sizes
    /\ cache \in [Keys -> {0} \cup Versions]
    /\ pending \subseteq Keys
    /\ queue \in Seq(Requests)
    /\ scrolling \in BOOLEAN /\ rendering \in BOOLEAN /\ finished \in BOOLEAN
    /\ contexts \in [Documents -> {0} \cup Versions]
    /\ batch \in Seq(Tasks) /\ Len(batch) <= MaxBatch
    /\ worker \in {"idle", "starting", "rendering", "ended"}
    /\ locked \subseteq Documents
    /\ gui \in {"free", "resetting", "destroying", "gone"}
    /\ events \in 0..MaxEvents

\* A page is only rendered through a context that is still there, that holds
\* the document the model holds now, and whose fonts are kept; nobody asks for
\* a page before its document has a context (the context keeps a pointer into
\* the model's map of documents and is used outside of m_contextMutex).
LiveContext ==
    /\ TypeOK
    /\ \A d \in Documents : contexts[d] \in {0, content[d]}
    /\ \A i \in DOMAIN batch :
          LET d == SourceOfKey(batch[i].request.key)
          IN  d \in Documents /\ IsRunning =>
                 /\ contexts[d] # 0
                 /\ batch[i].stage = "using" => contexts[d] = batch[i].image /\ d \in locked
    /\ gui # "gone" =>
          \A k \in KeysOf(queue) : SourceOfKey(k) \in Documents => contexts[SourceOfKey(k)] # 0

\* A key that is pending, and so refused by requestPreview, is one of a
\* request that is queued or in the batch whose end is still to be reported:
\* no thumbnail is given up for ever.  m_renderInProgress tells that the end of a batch is still
\* to be handled, so setFuture never replaces a future that nobody could wait for then.
PendingIsServed ==
    /\ gui = "free" =>
          pending \subseteq KeysOf(queue) \cup (IF rendering THEN ResultKeys ELSE {})
    /\ rendering /\ gui = "free" => IsRunning \/ finished
    /\ IsRunning => rendering

\* Once the user lets the list alone, every page shown gets its thumbnail.
Shown(r) == IsRowVisible(r) /\ item[r] \notin Broken => cache[Key(r)] # 0
EventuallyShown == <>[](gui = "gone" \/ \A r \in Positions : Shown(r))

\* Then the thread pool comes to rest, unless a page shown cannot be rendered:
\* the null image is not remembered, every batch asks for a repaint and every
\* repaint requests the page again.
Rests == []<>(gui = "gone" \/ ~rendering \/ \E r \in Positions : IsRowVisible(r) /\ item[r] \in Broken)
=============================================================================

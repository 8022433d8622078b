------------------------- MODULE TextLayoutCompiler -------------------------
(***************************************************************************)
(* PDFAsynchronousTextLayoutCompiler (pdfcompiler.h/.cpp of                *)
(* Pdf4QtLibWidgets), with the handlers of PDFDrawWidgetProxy that stop    *)
(* and start it and the one-page cache (PDFTextLayoutCache) behind         *)
(* getTextLayoutLazy.                                                      *)
(*                                                                         *)
(* Every handler runs in the main thread and is one step; stop() blocks    *)
(* until the future is finished, so it is two.  The computation runs in    *)
(* the global thread pool and its end reaches the main thread as a queued  *)
(* event of the QFutureWatcher.  The text of a document is abstracted to a *)
(* version number; a layout is the version it was made from.               *)
(***************************************************************************)
EXTENDS Integers

CONSTANTS
    Pages,       \* page indices
    MaxVersion   \* bound: changes of the text of the document

ASSUME MaxVersionAssumption == MaxVersion \in Nat

VARIABLES
    version,     \* version of the text (document, features, optional content)
    document,    \* is a document set?
    state,       \* m_state
    isRunning,   \* m_isRunning
    layouts,     \* version of m_textLayouts, 0: no value
    lazy,        \* m_cache: the page it holds (-1: none) and its version
    future,      \* m_textLayoutCompileFuture: version of its result, done?
    posted,      \* a finished event of the watcher is queued
    guard,       \* the font cache may not shrink on behalf of the compiler
    op           \* handler blocked in stop(), or "none"

NoPage == [page |-> -1, version |-> 0]

input == <<version, document>>
compiler == <<state, isRunning, layouts, lazy>>
computation == <<future, posted, guard>>
textVars == <<input, compiler, computation, op>>

Ops == {"document", "soft", "close", "settings", "early"}
ClearsCache(o) == o # "soft"
ChangesText(o) == o \in {"document", "close", "settings"}

Ready == layouts # 0
Usable == state = "Active" /\ document

-----------------------------------------------------------------------------
(* start() and stop() with their callers: PDFDrawWidgetProxy::setDocument, *)
(* setFeatures, onOptionalContentGroupStateChanged.                        *)

SetInput(o) ==
    /\ version' = IF ChangesText(o) THEN version + 1 ELSE version
    /\ document' = (o \in {"document", "soft"} \/ (document /\ o # "close"))

\* stop() finds the compiler inactive: the handler runs through to start().
StartFirst(o) ==
    /\ op = "none" /\ state = "Inactive"
    /\ o \notin {"soft", "early"} /\ version < MaxVersion
    /\ SetInput(o)
    /\ state' = "Active"
    /\ UNCHANGED <<isRunning, layouts, lazy, computation, op>>

\* The input has changed already when an "early" handler runs.
StopBegin(o) ==
    /\ op = "none" /\ state = "Active"
    /\ o \in {"soft", "close"} => document
    /\ o = "soft" \/ version < MaxVersion
    /\ state' = "Stopping"
    /\ version' = IF o = "early" THEN version + 1 ELSE version
    /\ op' = o
    /\ UNCHANGED <<document, isRunning, layouts, lazy, computation>>

\* waitForFinished returns when the computation is over; the queued event
\* stays queued and m_isRunning stays set.
Waited == future.done

\* mutant: the watcher is reset, which drops its queued event
PostedDropped == FALSE
PostedAfterStop == posted

StopFinish ==
    /\ op # "none" /\ Waited
    /\ IF ClearsCache(op) THEN layouts' = 0 /\ lazy' = NoPage
                          ELSE UNCHANGED <<layouts, lazy>>
    /\ SetInput(op)
    /\ state' = "Active"
    /\ op' = "none"
    /\ posted' = PostedAfterStop
    /\ UNCHANGED <<isRunning, future, guard>>

-----------------------------------------------------------------------------
(* Requests. *)

\* makeTextLayout(): at most one computation at a time.
NotReadyOnly == ~Ready                  \* mutant: m_isRunning is not tested
MayStart == ~Ready /\ ~isRunning

makeTextLayout ==
    /\ op = "none" /\ Usable /\ MayStart
    /\ isRunning' = TRUE
    /\ guard' = TRUE
    /\ future' = [version |-> version, done |-> FALSE]
    /\ UNCHANGED <<input, state, layouts, lazy, posted, op>>

\* createTextLayout(p): the layout is empty if there is no document.
Empty == 0
PageLayout == IF ~Usable THEN Empty ELSE IF Ready THEN layouts ELSE version

\* getTextLayoutLazy(p): a miss of the one-page cache stores what createTextLayout
\* returns, also an empty layout.  Its callers know no page before the first start.
getTextLayoutLazy(p) ==
    /\ op = "none" /\ state = "Active"
    /\ lazy.page # p
    /\ lazy' = [page |-> p, version |-> PageLayout]
    /\ UNCHANGED <<input, state, isRunning, layouts, computation, op>>

\* onTextLayoutCreated(): whatever happened since the computation began.
LazyKept == lazy   \* mutant: the one-page cache is not cleared
LazyCleared == NoPage

GuardKept == guard \* mutant: the font cache stays locked against shrinking
GuardReleased == FALSE

onTextLayoutCreated ==
    /\ op = "none" /\ posted
    /\ posted' = FALSE
    /\ guard' = GuardReleased
    /\ lazy' = LazyCleared
    /\ layouts' = future.version
    /\ isRunning' = FALSE
    /\ UNCHANGED <<input, state, future, op>>

-----------------------------------------------------------------------------
(* The computation; it captures the catalog when it is started. *)

Compute ==
    /\ ~future.done
    /\ future' = [future EXCEPT !.done = TRUE]
    /\ posted' = TRUE
    /\ UNCHANGED <<input, compiler, guard, op>>

-----------------------------------------------------------------------------
TextInit ==
    /\ version = 0 /\ document = FALSE
    /\ state = "Inactive" /\ isRunning = FALSE /\ layouts = 0 /\ lazy = NoPage
    /\ future = [version |-> 0, done |-> TRUE] /\ posted = FALSE /\ guard = FALSE
    /\ op = "none"

TextNext ==
    \/ \E o \in Ops : StartFirst(o) \/ StopBegin(o)
    \/ StopFinish
    \/ makeTextLayout
    \/ \E p \in Pages : getTextLayoutLazy(p)
    \/ onTextLayoutCreated
    \/ Compute

TextSpec == TextInit /\ [][TextNext]_textVars

\* The pool runs the computation; the event loop delivers the posted event
\* in order, so later handlers cannot starve it.
Fairness == WF_textVars(Compute) /\ WF_textVars(StopFinish) /\ SF_textVars(onTextLayoutCreated)

TextFairSpec == TextSpec /\ Fairness

-----------------------------------------------------------------------------
(* Properties. *)

\* Type invariant of PDFAsynchronousTextLayoutCompiler's members; the font
\* cache is locked against shrinking exactly while indexing is under way.
TextTypeOK ==
    /\ version \in 0 .. MaxVersion /\ document \in BOOLEAN
    /\ state \in {"Inactive", "Active", "Stopping"} /\ isRunning \in BOOLEAN
    /\ layouts \in 0 .. MaxVersion
    /\ lazy \in [page : Pages \cup {-1}, version : 0 .. MaxVersion]
    /\ future \in [version : 0 .. MaxVersion, done : BOOLEAN]
    /\ posted \in BOOLEAN /\ guard = isRunning
    /\ op \in Ops \cup {"none"}

\* The assertion before the future is replaced (pdfcompiler.cpp:585), made
\* strong enough to be of use: when makeTextLayout may start a computation,
\* the previous one is over and its event was delivered, so an event never
\* meets the future of another computation, across any stops and starts.
EventBelongsToFuture == Usable /\ MayStart => Waited /\ ~posted

\* The page held by the one-page cache is the one the storage would return
\* (or that would be made now, if there is no storage; an empty one without a
\* document), also after the storage arrives or the document changes in between.
LazyAgrees ==
    op = "none" /\ lazy # NoPage => lazy.version = PageLayout

\* Indexing ends: m_isRunning, which blocks every later makeTextLayout, is
\* reset also when the document is replaced or closed during indexing.
IndexingEnds == isRunning ~> ~isRunning
=============================================================================

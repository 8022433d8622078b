---------------------------- MODULE PageCompiler ----------------------------
(***************************************************************************)
(* PDFAsynchronousPageCompiler and its worker thread (pdfcompiler.h/.cpp   *)
(* of Pdf4QtLibWidgets), driven by the handlers of PDFDrawWidgetProxy that *)
(* request pages, replace the document or change rendering settings.       *)
(*                                                                         *)
(* Two threads.  The main (GUI) thread runs handlers from its event loop;  *)
(* the part of a handler that holds m_mutex never blocks, so it is one     *)
(* step, enabled while the worker does not hold the mutex.  stop() blocks  *)
(* in QThread::wait, so it is several steps.  The worker holds m_mutex     *)
(* between two of its steps exactly in the phases of `Holding`.            *)
(*                                                                         *)
(* What a compiled page looks like is abstracted to the version of the     *)
(* rendering input (document, features, colour management, optional        *)
(* content) it was compiled from, and to whether the compilation ran to    *)
(* its end or was cancelled.                                               *)
(***************************************************************************)
EXTENDS Naturals, FiniteSetsExt

CONSTANTS
    Pages,       \* page indices of the document
    Cost,        \* memory consumption estimate of each compiled page
    Limits,      \* values the cache limit may be set to
    MaxVersion,  \* bound: changes of the rendering input
    MaxEvents    \* bound: queued pageCompiled events (further ones coalesce)

ASSUME PagesAssumption == Pages \subseteq Nat
ASSUME CostAssumption == Cost \in [Pages -> Nat]
ASSUME LimitsAssumption == Limits \subseteq Nat
ASSUME BoundsAssumption == MaxVersion \in Nat /\ MaxEvents \in Nat \ {0}

VARIABLES
    version,     \* version of the rendering input
    document,    \* is a document set?
    state,       \* m_state of the compiler
    tasks,       \* m_tasks: page -> CompileTask
    cache,       \* m_cache: page -> compiled page
    limit,       \* m_cache->maxCost()
    phase,       \* where the worker thread is ("none": m_thread is null)
    batch,       \* local `tasks` of the worker: page -> task being compiled
    interrupted, \* interruption was requested of the worker
    events,      \* pageCompiled signals queued to the main thread
    main,        \* where the main thread is ("loop": in its event loop)
    op           \* the handler that called stop()

input == <<version, document>>
engine == <<state, tasks, cache, limit>>
worker == <<phase, batch, interrupted>>
control == <<main, op>>
vars == <<input, engine, worker, events, control>>

-----------------------------------------------------------------------------
(* Data. *)

PageImage == [version : 0 .. MaxVersion, complete : BOOLEAN]
Task == [finished : BOOLEAN, image : PageImage]
Open(v) == [finished |-> FALSE, image |-> [version |-> v, complete |-> FALSE]]
PartialMaps(T) == UNION {[S -> T] : S \in SUBSET Pages}
Empty == [p \in {} |-> p]

Unfinished == {p \in DOMAIN tasks : ~tasks[p].finished}
Finished == {p \in DOMAIN tasks : tasks[p].finished}

Phases == {"none", "begin", "outer", "sleep", "waiting", "woken", "inner",
           "compile", "relock", "emit", "done"}

\* The phases in which the worker holds m_mutex, and what waking it does.
Holding == {"outer", "sleep", "inner"}
MutexFree == phase \notin Holding
WakeNobody(ph) == ph  \* mutant: the signal is forgotten
Wake(ph) == IF ph = "waiting" THEN "woken" ELSE ph

\* QCache: objects are evicted, least recently used first, until the total
\* cost fits and not further.  The order of the old objects is left open.
TotalCost(S) == MapThenSumSet(LAMBDA p : Cost[p], S)
Trimmed(D, l) ==
    {S \in SUBSET D : /\ TotalCost(S) <= l
                      /\ S = D \/ \E e \in D \ S : TotalCost(S \cup {e}) > l}

-----------------------------------------------------------------------------
(* The handlers of the main thread that call stop():                       *)
(*   "document"  setDocument, page contents are replaced                   *)
(*   "soft"      setDocument, page contents are the same                   *)
(*   "close"     setDocument without a document                            *)
(*   "settings"  setFeatures and the setters of mesh quality               *)
(*   "early"     the input has changed already when the handler runs       *)
(*               (colour management, optional content)                     *)
(*   "destroy"   the destructor                                            *)

Ops == {"document", "soft", "close", "settings", "early", "destroy"}
ClearsOnDocument(o) == o \in {"document", "close", "destroy"}  \* mutant: settings keep the cache
ClearsOnReplacement(o) == o \notin {"soft", "early"}           \* mutant: reset() keeps the cache
ClearsCache(o) == o # "soft"
ChangesInput(o) == o \in {"document", "close", "settings"}

\* The input and the engine that a handler leaves behind after stop().
SetInput(o) ==
    /\ version' = IF ChangesInput(o) THEN version + 1 ELSE version
    /\ document' = CASE o \in {"document", "soft"} -> TRUE
                     [] o = "close" -> FALSE
                     [] OTHER -> document
start(o) ==
    IF o = "destroy"
    THEN state' = "Inactive" /\ phase' = "none" /\ main' = "gone"
    ELSE state' = "Active" /\ phase' = "begin" /\ main' = "loop"

\* stop() in state Inactive does nothing: the handler is a single step.
StartFirst(o) ==
    /\ main = "loop" /\ state = "Inactive"
    /\ o # "soft" /\ version < MaxVersion
    /\ version' = IF o = "destroy" THEN version ELSE version + 1
    /\ document' = (o = "document" \/ (document /\ o # "close"))
    /\ start(o)
    /\ UNCHANGED <<tasks, cache, limit, batch, interrupted, events, op>>

\* stop() in state Active, step by step.
StopBegin(o) ==
    /\ main = "loop" /\ state = "Active"
    /\ o \in {"soft", "close"} => document
    /\ o \in {"soft", "destroy"} \/ version < MaxVersion
    /\ version' = IF o = "early" THEN version + 1 ELSE version
    /\ state' = "Stopping"
    /\ main' = "interrupt"
    /\ op' = o
    /\ UNCHANGED <<document, tasks, cache, limit, worker, events>>

StopInterrupt ==
    /\ main = "interrupt"
    /\ interrupted' = TRUE
    /\ main' = "wake"
    /\ UNCHANGED <<input, engine, phase, batch, events, op>>

\* wakeAll is called without m_mutex.
StopWake ==
    /\ main = "wake"
    /\ phase' = Wake(phase)
    /\ main' = "join"
    /\ UNCHANGED <<input, engine, batch, interrupted, events, op>>

\* QThread::wait returns; the rest of stop(), of its caller, and start().
StopJoin ==
    /\ main = "join" /\ phase = "done"
    /\ tasks' = Empty
    /\ cache' = IF ClearsCache(op) THEN Empty ELSE cache
    /\ SetInput(op)
    /\ start(op)
    /\ interrupted' = FALSE
    /\ UNCHANGED <<limit, batch, events, op>>

-----------------------------------------------------------------------------
(* The other handlers of the main thread. *)

Untasked(p) == p \notin DOMAIN tasks  \* mutant: the cache is not consulted
Wanted(p) == p \notin DOMAIN cache /\ p \notin DOMAIN tasks

getCompiledPage(p) ==
    /\ main = "loop" /\ state = "Active" /\ document
    /\ Wanted(p) /\ MutexFree
    /\ tasks' = [q \in DOMAIN tasks \cup {p} |-> IF q = p THEN Open(0) ELSE tasks[q]]
    /\ phase' = Wake(phase)
    /\ UNCHANGED <<input, state, cache, limit, batch, interrupted, events, control>>

\* Which pages have expired and are not displayed is left open.
smartClearCache(expired) ==
    /\ main = "loop" /\ state = "Active" /\ MutexFree
    /\ expired \subseteq DOMAIN cache /\ expired # {}
    /\ cache' = [p \in DOMAIN cache \ expired |-> cache[p]]
    /\ UNCHANGED <<input, state, tasks, limit, worker, events, control>>

setCacheLimit(l) ==
    /\ main = "loop"
    /\ limit' = l
    /\ \E S \in Trimmed(DOMAIN cache, l) : cache' = [p \in S |-> cache[p]]
    /\ UNCHANGED <<input, state, tasks, worker, events, control>>

\* The tasks onPageCompiled takes out of m_tasks.
TakenFirst == {p \in Finished : \A q \in Finished : p <= q}  \* mutant: one per signal
TakenAll == DOMAIN tasks                                    \* mutant: no test of `finished`
Taken == Finished

\* They move to the cache, in which a page that alone exceeds the limit is
\* refused and an older page goes before one just inserted.
NewestFirst(S) == Taken \subseteq S \/ S \subseteq Taken
HarvestCostless ==  \* mutant: insert without the cost, which is then 1
    \E S \in SUBSET (DOMAIN cache \cup Taken) :
        /\ Cardinality(S) <= limit /\ NewestFirst(S)
        /\ S = DOMAIN cache \cup Taken \/ Cardinality(S) = limit
        /\ cache' = [p \in S |-> IF p \in Taken THEN tasks[p].image ELSE cache[p]]
Harvest ==
    LET accepted == {p \in Taken : Cost[p] <= limit}
        kept(S) == accepted \subseteq S \/ S \subseteq accepted
    IN  \E S \in Trimmed(DOMAIN cache \cup accepted, limit) :
            /\ kept(S)
            /\ cache' = [p \in S |-> IF p \in accepted THEN tasks[p].image ELSE cache[p]]

onPageCompiled ==
    /\ main = "loop" /\ events > 0 /\ MutexFree
    /\ events' = events - 1
    /\ IF state = "Active" THEN Harvest ELSE UNCHANGED cache
    /\ tasks' = [p \in DOMAIN tasks \ Taken |-> tasks[p]]
    /\ UNCHANGED <<input, state, limit, worker, control>>

-----------------------------------------------------------------------------
(* PDFAsynchronousPageCompilerWorkerThread::run. *)

WorkerMoves(from, to) == phase = from /\ phase' = to

\* The mutex is locked: main holds it only within a step.
WorkerBegin ==
    /\ WorkerMoves("begin", "outer")
    /\ UNCHANGED <<input, engine, batch, interrupted, events, control>>

WorkerOuter ==
    /\ WorkerMoves("outer", IF interrupted THEN "done" ELSE "sleep")
    /\ UNCHANGED <<input, engine, batch, interrupted, events, control>>

\* The worker becomes a waiter of the condition and releases the mutex.
WorkerSleep ==
    /\ WorkerMoves("sleep", "waiting")
    /\ UNCHANGED <<input, engine, batch, interrupted, events, control>>

WorkerWoken ==
    /\ WorkerMoves("woken", "inner")
    /\ UNCHANGED <<input, engine, batch, interrupted, events, control>>

WorkerLeaveInner ==
    /\ interrupted \/ Unfinished = {}
    /\ WorkerMoves("inner", "outer")
    /\ UNCHANGED <<input, engine, batch, interrupted, events, control>>

\* The unfinished tasks are copied and the mutex is unlocked.
WorkerFetch ==
    /\ ~interrupted /\ Unfinished # {}
    /\ WorkerMoves("inner", "compile")
    /\ batch' = [p \in Unfinished |-> Open(version)]
    /\ UNCHANGED <<input, engine, interrupted, events, control>>

\* PDFRenderer::compile of every task; a cancelled compilation is finished
\* too, and a compilation overlapping a change sees either input.
Compiled(v) ==
    [finished : {TRUE},
     image : [version : {v, version},
              complete : {TRUE} \cup {c \in BOOLEAN : state = "Stopping"}]]

WorkerCompile ==
    /\ WorkerMoves("compile", "relock")
    /\ \E v \in {batch[p].image.version : p \in DOMAIN batch} :
            batch' \in [DOMAIN batch -> Compiled(v)]
    /\ UNCHANGED <<input, engine, interrupted, events, control>>

\* With the mutex locked again, the results overwrite the tasks.
WorkerWrite ==
    /\ WorkerMoves("relock", "emit")
    /\ tasks' = [p \in DOMAIN tasks \cup DOMAIN batch |->
                    IF p \in DOMAIN batch THEN batch[p] ELSE tasks[p]]
    /\ batch' = Empty
    /\ UNCHANGED <<input, state, cache, limit, interrupted, events, control>>

\* The signal is queued to the main thread with the mutex unlocked.
LeaveAfterBatch == "outer"  \* mutant: `if` instead of the inner `while`
AfterBatch == "inner"

WorkerEmit ==
    /\ WorkerMoves("emit", AfterBatch)
    /\ events' = IF events < MaxEvents THEN events + 1 ELSE events
    /\ UNCHANGED <<input, engine, batch, interrupted, control>>

-----------------------------------------------------------------------------
Init ==
    /\ version = 0 /\ document = FALSE
    /\ state = "Inactive" /\ tasks = Empty /\ cache = Empty /\ limit \in Limits
    /\ phase = "none" /\ batch = Empty /\ interrupted = FALSE
    /\ events = 0
    /\ main = "loop" /\ op = "destroy"

Stop == StopInterrupt \/ StopWake \/ StopJoin

MainStep ==
    \/ \E o \in Ops : StartFirst(o) \/ StopBegin(o)
    \/ Stop
    \/ \E p \in Pages : getCompiledPage(p)
    \/ \E S \in SUBSET Pages : smartClearCache(S)
    \/ \E l \in Limits : setCacheLimit(l)
    \/ onPageCompiled

WorkerStep ==
    \/ WorkerBegin \/ WorkerOuter \/ WorkerSleep \/ WorkerWoken
    \/ WorkerLeaveInner \/ WorkerFetch \/ WorkerCompile \/ WorkerWrite
    \/ WorkerEmit

Next == MainStep \/ WorkerStep

Spec == Init /\ [][Next]_vars

\* The scheduler runs both threads; a thread waiting for the mutex gets it
\* because it is never held across a blocking call; the event loop delivers
\* posted events in order, so later handlers cannot starve an earlier event.
Fairness ==
    /\ WF_vars(WorkerStep)
    /\ WF_vars(Stop)
    /\ SF_vars(onPageCompiled)

FairSpec == Spec /\ Fairness
=============================================================================

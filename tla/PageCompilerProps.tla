------------------------- MODULE PageCompilerProps -------------------------
(***************************************************************************)
(* What PageCompiler is checked for.                                       *)
(***************************************************************************)
EXTENDS PageCompiler

\* Type invariant of the compiler, its worker thread and the main thread
\* (the members of PDFAsynchronousPageCompiler).
TypeOK ==
    /\ version \in 0 .. MaxVersion /\ document \in BOOLEAN
    /\ state \in {"Inactive", "Active", "Stopping"}
    /\ tasks \in PartialMaps(Task) /\ batch \in PartialMaps(Task)
    /\ cache \in PartialMaps(PageImage)
    /\ limit \in Limits
    /\ phase \in Phases /\ interrupted \in BOOLEAN
    /\ events \in 0 .. MaxEvents
    /\ main \in {"loop", "interrupt", "wake", "join", "gone"} /\ op \in Ops

\* Compiled pages never occupy more memory than the cache limit, though
\* results of one or several batches are put into m_cache together, a limit
\* is set while pages are compiled under the one before, and the estimate of
\* a page is only known once it is compiled (pdfcompiler.cpp:300).
WithinLimit ==
    /\ TypeOK
    /\ TotalCost(DOMAIN cache) <= limit

\* Whenever handlers of the main thread can run, every cached page is a
\* complete rendering of the present input: results of a compilation that
\* was cancelled, or that began before the document or the settings were
\* replaced, never reach m_cache, whatever pageCompiled signals of earlier
\* workers are still queued.
CacheCurrent ==
    main = "loop" =>
        \A p \in DOMAIN cache : cache[p] = [version |-> version, complete |-> TRUE]

\* While the worker compiles its copies with m_mutex unlocked, the tasks
\* they were copied from stay in m_tasks, unfinished: writing the results
\* back neither resurrects an erased task nor overwrites a finished one.
BatchOwned ==
    /\ DOMAIN batch \subseteq Unfinished
    /\ batch # Empty => phase \in {"compile", "relock"}

\* A page is never compiled while a rendering of it is cached: the check of
\* m_cache (without the mutex) and of m_tasks in getCompiledPage and the
\* move from one to the other in onPageCompiled leave no gap.
NoRecompilation == DOMAIN tasks \cap DOMAIN cache = {}

\* A finished result is never stranded: while the main thread runs its
\* event loop, either a pageCompiled event is queued or the worker is about
\* to queue one, also when an older event has already been used up.
NoStrandedResult ==
    main = "loop" /\ Finished # {} => events > 0 \/ phase = "emit"

\* A task the worker meets when it is awake is compiled or discarded.
ServedWhenAwake ==
    \A p \in Pages :
        (p \in Unfinished /\ phase \in {"woken", "inner", "compile", "relock", "emit"})
            ~> p \notin Unfinished

\* stop() returns, except when wakeAll falls between the worker's test of
\* isInterruptionRequested and its wait.
StopReturnsUnlessWakeLost ==
    (main = "wake" /\ phase # "sleep") ~> main \in {"loop", "gone"}

\* The compiler implements the abstract page service: a change announced
\* before stop() takes effect when stop() has emptied the cache.
Service == INSTANCE PageService WITH
    present <- IF main \in {"interrupt", "wake", "join"} /\ op = "early"
               THEN version - 1 ELSE version,
    shown <- cache
ImplementsService == Service!Spec

-----------------------------------------------------------------------------
(* What the documentation says and the code does not keep. *)

\* pdfcompiler.h:81 "Stops the engine and all underlying asynchronous tasks":
\* stop() returns.
StopReturns == main \in {"interrupt", "wake", "join"} ~> main \in {"loop", "gone"}
=============================================================================

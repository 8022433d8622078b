--------------------------- MODULE RasterizerPool ---------------------------
(***************************************************************************)
(* PDFRasterizerPool::render (pdfrenderer.cpp) on the thread pools of      *)
(* PDFExecutionPolicy, reporting to PDFProgress.                           *)
(*                                                                         *)
(* The caller of render() puts one runnable per page in the primary pool   *)
(* and waits for the semaphore of PDFExecutionPolicy::execute.  A page may *)
(* call execute(Scope::Content) while it is compiled; its buckets go to    *)
(* the auxiliary pool, and the thread that compiles the page waits for     *)
(* them.  Rasterizers are shared by the threads: acquire() takes a permit  *)
(* of m_semaphore and then a rasterizer under m_mutex, release() puts the  *)
(* rasterizer back and releases the semaphore with m_mutex locked.         *)
(***************************************************************************)
EXTENDS Integers, FiniteSets, SequencesExt

CONSTANTS
    Pages,        \* page indices to be rendered, in the range of the catalog
                  \* (its getPage throws outside of it, callers check before)
    Rasterizers,  \* rasterizers of the pool
    Threads,      \* size of the primary pool
    AuxThreads,   \* size of the auxiliary pool
    Buckets,      \* buckets of content a page is divided into; 0 if content
                  \* is not parallelized (Strategy::PageMultithreaded)
    Hundred       \* scale of the progress

ASSUME PagesAssumption == IsFiniteSet(Pages) /\ Pages # {}
ASSUME ScaleAssumption == Hundred \in Nat \ {0}
ASSUME PoolAssumption ==
    /\ IsFiniteSet(Rasterizers) /\ Rasterizers # {}
    /\ Threads \in Nat \ {0} /\ AuxThreads \in Nat \ {0}
    /\ Buckets \in Nat

VARIABLES
    caller,       \* the thread that called render()
    stage,        \* page -> where its runnable is
    left, active, \* page -> content buckets queued, running
    pool,         \* m_rasterizers
    permits,      \* m_semaphore
    held,         \* page -> the rasterizer its thread holds
    finished,     \* permits of the semaphore of execute()
    currentStep, percentage, pc, new, old, emitted  \* PDFProgress

progress == <<currentStep, percentage, pc, new, old, emitted>>
content == <<left, active>>
vars == <<caller, stage, content, pool, permits, held, finished, progress>>

P == INSTANCE Progress WITH Workers <- Pages, StepCount <- Cardinality(Pages)

NoRasterizer == {}

-----------------------------------------------------------------------------
(* Thread pools. *)

Stages == {"queued", "compile", "content", "acquire", "permitted", "render",
           "returned", "report", "step", "done"}

\* A runnable occupies a thread of the primary pool from its start to its end.
Running == {p \in Pages : stage[p] \notin {"queued", "done"}}
AuxRunning == SumFunction(active)

\* getThreadPool: pages and content have pools of their own.
OnePool == AuxRunning + Cardinality(Running) < Threads   \* mutant: a shared pool
ContentThreadFree == AuxRunning < AuxThreads

\* m_mutex of the pool is held between the two statements of release().
MutexFree == \A p \in Pages : stage[p] # "returned"

Move(p, from, to) == stage[p] = from /\ stage' = [stage EXCEPT ![p] = to]

-----------------------------------------------------------------------------
(* The runnable of a page. *)

Begin(p) ==
    /\ caller = "waiting" /\ Cardinality(Running) < Threads
    /\ Move(p, "queued", "compile")
    /\ UNCHANGED <<caller, content, pool, permits, held, finished, progress>>

\* PDFRenderer::compile, which may hand content to the auxiliary pool.
SpawnContent(p) ==
    /\ Move(p, "compile", "content")
    /\ left' = [left EXCEPT ![p] = Buckets]
    /\ UNCHANGED <<caller, active, pool, permits, held, finished, progress>>

BeginBucket(p) ==
    /\ left[p] > 0 /\ ContentThreadFree
    /\ left' = [left EXCEPT ![p] = @ - 1]
    /\ active' = [active EXCEPT ![p] = @ + 1]
    /\ UNCHANGED <<caller, stage, pool, permits, held, finished, progress>>

EndBucket(p) ==
    /\ active[p] > 0
    /\ active' = [active EXCEPT ![p] = @ - 1]
    /\ UNCHANGED <<caller, stage, left, pool, permits, held, finished, progress>>

\* The semaphore of execute(Content) has a permit of every bucket.
Compiled(p) ==
    /\ left[p] = 0 /\ active[p] = 0
    /\ Move(p, "content", "acquire")
    /\ UNCHANGED <<caller, content, pool, permits, held, finished, progress>>

AcquirePermit(p) ==
    /\ permits > 0
    /\ Move(p, "acquire", "permitted")
    /\ permits' = permits - 1
    /\ UNCHANGED <<caller, content, pool, held, finished, progress>>

TakeRasterizer(p) ==
    /\ MutexFree /\ pool # <<>>
    /\ Move(p, "permitted", "render")
    /\ held' = [held EXCEPT ![p] = {Last(pool)}]
    /\ pool' = Front(pool)
    /\ UNCHANGED <<caller, content, permits, finished, progress>>

\* release(): m_rasterizers.push_back; the permit follows with the mutex held.
PutBackOnly(p) ==      \* mutant: its user keeps the rasterizer
    /\ pool' = pool \o SetToSeq(held[p])
    /\ UNCHANGED held
PutBack(p) ==
    /\ pool' = pool \o SetToSeq(held[p])
    /\ held' = [held EXCEPT ![p] = NoRasterizer]

ReturnRasterizer(p) ==
    /\ MutexFree
    /\ Move(p, "render", "returned")
    /\ PutBack(p)
    /\ UNCHANGED <<caller, content, permits, finished, progress>>

ReleasePermit(p) ==
    /\ Move(p, "returned", "report")
    /\ permits' = permits + 1
    /\ UNCHANGED <<caller, content, pool, held, finished, progress>>

\* progress->step(), which is PDFProgress's own protocol.
Report(p) ==
    /\ Move(p, "report", "step")
    /\ P!FetchAdd(p)
    /\ UNCHANGED <<caller, content, pool, permits, held, finished>>

Step(p) ==
    /\ stage[p] = "step"
    /\ P!Continue(p)
    /\ UNCHANGED <<caller, stage, content, pool, permits, held, finished>>

\* The QSemaphoreReleaser of the runnable goes out of scope.
End(p) ==
    /\ pc[p] = "idle"
    /\ Move(p, "step", "done")
    /\ finished' = finished + 1
    /\ UNCHANGED <<caller, content, pool, permits, held, progress>>

-----------------------------------------------------------------------------
(* The caller. *)

AwaitsOne == 1                       \* mutant: acquire() without a count
Awaits == Cardinality(Pages)

Start ==
    /\ caller = "idle"
    /\ caller' = "waiting"
    /\ UNCHANGED <<stage, content, pool, permits, held, finished, progress>>

Return ==
    /\ caller = "waiting" /\ finished >= Awaits
    /\ caller' = "returned"
    /\ finished' = finished - Awaits
    /\ UNCHANGED <<stage, content, pool, permits, held, progress>>

\* The constructor.
OneTooMany == Cardinality(Rasterizers) + 1     \* mutant: an off-by-one
InitialPermits == Cardinality(Rasterizers)

Init ==
    /\ caller = "idle"
    /\ stage = [p \in Pages |-> "queued"]
    /\ left = [p \in Pages |-> 0] /\ active = [p \in Pages |-> 0]
    /\ pool = SetToSeq(Rasterizers) /\ permits = InitialPermits
    /\ held = [p \in Pages |-> NoRasterizer]
    /\ finished = 0
    /\ P!Init

PageStep(p) ==
    \/ Begin(p) \/ SpawnContent(p) \/ BeginBucket(p) \/ EndBucket(p) \/ Compiled(p)
    \/ AcquirePermit(p) \/ TakeRasterizer(p) \/ ReturnRasterizer(p)
    \/ ReleasePermit(p) \/ Report(p) \/ Step(p) \/ End(p)

Next == Start \/ Return \/ \E p \in Pages : PageStep(p)

Spec == Init /\ [][Next]_vars

\* Threads run; a permit that stays available and a mutex that is freed again
\* and again are obtained by one of the threads that wait for them.
Fairness == WF_vars(Return) /\ WF_vars(\E p \in Pages : PageStep(p))

FairSpec == Spec /\ Fairness

-----------------------------------------------------------------------------
(* Properties. *)

\* Type invariant of PDFRasterizerPool and of the runnables of render().
TypeOK ==
    /\ caller \in {"idle", "waiting", "returned"}
    /\ stage \in [Pages -> Stages]
    /\ left \in [Pages -> 0 .. Buckets] /\ active \in [Pages -> 0 .. Buckets]
    /\ pool \in BoundedSeq(Rasterizers, Cardinality(Rasterizers))
    /\ permits \in 0 .. Cardinality(Rasterizers)
    /\ held \in [Pages -> SUBSET Rasterizers]
    /\ finished \in 0 .. Cardinality(Pages)
    /\ P!TypeOK

\* The assertion of acquire() (pdfrenderer.cpp:305): a thread that obtained a
\* permit finds a rasterizer when it gets the mutex, whichever threads
\* acquire and release in between.
PermitCovered ==
    \A p \in Pages : stage[p] = "permitted" /\ MutexFree => pool # <<>>

\* A rasterizer is used by one thread at a time, and none gets lost.
RasterizerExclusive ==
    /\ TypeOK
    /\ \A p, q \in Pages : p # q => held[p] \cap held[q] = {}
    /\ \A p \in Pages : held[p] \cap ToSet(pool) = {}
    /\ Cardinality(ToSet(pool)) = Len(pool)
    /\ (UNION {held[p] : p \in Pages}) \cup ToSet(pool) = Rasterizers

\* render() returns when every runnable has ended (they refer to variables
\* on its stack), with all rasterizers back and the progress at its end.
ReturnsWhenDone ==
    caller = "returned" =>
        /\ \A p \in Pages : stage[p] = "done"
        /\ Len(pool) = Cardinality(Rasterizers) /\ permits = Len(pool)
        /\ percentage = Hundred /\ emitted[Hundred] = 1

\* render() returns: with two pools, waiting for content inside a runnable
\* of the primary pool and waiting for a rasterizer never block everybody.
RenderReturns == caller = "waiting" ~> caller = "returned"
=============================================================================

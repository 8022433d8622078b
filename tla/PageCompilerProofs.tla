------------------------- MODULE PageCompilerProofs -------------------------
(***************************************************************************)
(* Safety of the page compiler for every set of pages, every cost and      *)
(* every bound.  The three facts about data come first, then the inductive *)
(* invariant, one lemma per step of the program, and the theorems.         *)
(***************************************************************************)
EXTENDS PageCompilerProps, TLAPS

-----------------------------------------------------------------------------
(* Partial functions on pages: m_tasks, m_cache, the worker's batch. *)

\* A function from a set of pages to T is a partial map.
LEMMA PartialMapIntro ==
    ASSUME NEW T, NEW S \in SUBSET Pages, NEW f \in [S -> T]
    PROVE  f \in PartialMaps(T)
BY DEF PartialMaps

\* A partial map is a function from its domain, a set of pages, to T.
LEMMA PartialMapElim ==
    ASSUME NEW T, NEW f \in PartialMaps(T)
    PROVE  DOMAIN f \in SUBSET Pages /\ f \in [DOMAIN f -> T]
BY DEF PartialMaps

\* m_tasks.clear() and m_cache->clear() leave a partial map.
LEMMA EmptyIsPartialMap ==
    ASSUME NEW T PROVE Empty \in PartialMaps(T) /\ DOMAIN Empty = {}
BY DEF PartialMaps, Empty

-----------------------------------------------------------------------------
(* The inductive invariant. *)

Fresh == [version |-> version, complete |-> TRUE]

\* m_state, the worker's life and the main thread's position agree.
Lifecycle ==
    /\ state = "Inactive" <=> phase = "none"
    /\ state = "Stopping" <=> main \in {"interrupt", "wake", "join"}
    /\ interrupted => main \in {"wake", "join"}
    /\ phase = "done" => interrupted
    /\ state = "Inactive" => tasks = Empty /\ cache = Empty
    /\ state = "Stopping" /\ ChangesInput(op) => version < MaxVersion
    /\ state = "Stopping" /\ op = "early" => version > 0

\* The worker's copies while it compiles.
BatchContents ==
    /\ \A p \in DOMAIN batch : batch[p].finished = (phase = "relock")
    /\ state = "Active" =>
          \A p \in DOMAIN batch :
              batch[p].image = IF phase = "relock" THEN Fresh
                               ELSE [version |-> version, complete |-> FALSE]

\* What is cached, or will be when the next signal is handled, is fresh as
\* long as nothing announced a change; a soft stop keeps the cache.
FreshResults ==
    /\ state = "Active" => \A p \in Finished : tasks[p].image = Fresh
    /\ state = "Active" \/ (state = "Stopping" /\ op = "soft") =>
          \A p \in DOMAIN cache : cache[p] = Fresh

IInv ==
    /\ TypeOK
    /\ Lifecycle
    /\ BatchOwned
    /\ BatchContents
    /\ FreshResults
    /\ NoRecompilation
    /\ NoStrandedResult

-----------------------------------------------------------------------------
(* Facts about the definitions the steps use. *)

\* QCache only evicts: what trimming leaves was there before.
LEMMA TrimmedShrinks ==
    ASSUME NEW D, NEW l, NEW S \in Trimmed(D, l)
    PROVE  S \subseteq D
BY DEF Trimmed

\* Tasks and images are records of the right type.
LEMMA Records ==
    ASSUME TypeOK
    PROVE  Fresh \in PageImage /\ Open(version) \in Task /\ 0 \in 0 .. MaxVersion /\ Open(0) \in Task
BY BoundsAssumption DEF TypeOK, Fresh, PageImage, Open, Task

-----------------------------------------------------------------------------
(* The initial states. *)

\* The constructor establishes the invariant.
LEMMA InitIInv == Init => IInv
<1> SUFFICES ASSUME Init PROVE IInv
    OBVIOUS
<1> USE DEF Init
<1>1. TypeOK
  <2>1. Empty \in PartialMaps(Task) /\ Empty \in PartialMaps(PageImage)
    BY EmptyIsPartialMap
  <2>2. version \in 0 .. MaxVersion /\ events \in 0 .. MaxEvents
    BY BoundsAssumption
  <2> QED
    BY <2>1, <2>2 DEF TypeOK, Phases, Ops
<1>2. Unfinished = {} /\ Finished = {}
    BY EmptyIsPartialMap DEF Unfinished, Finished
<1>3. Lifecycle /\ BatchOwned /\ BatchContents /\ FreshResults
    BY <1>2, EmptyIsPartialMap
    DEF Lifecycle, BatchOwned, BatchContents, FreshResults
<1>4. NoRecompilation /\ NoStrandedResult
    BY <1>2, EmptyIsPartialMap DEF NoRecompilation, NoStrandedResult
<1> QED
    BY <1>1, <1>3, <1>4 DEF IInv

-----------------------------------------------------------------------------
(* The steps of start() and stop(). *)

\* A handler that finds the compiler inactive starts the first worker.
LEMMA StartFirstIInv ==
    ASSUME IInv, NEW o \in Ops, StartFirst(o)
    PROVE  IInv'
<1> USE DEF StartFirst, start, IInv
<1>1. TypeOK'
    BY BoundsAssumption DEF TypeOK, Phases, Ops
<1>2. tasks = Empty /\ cache = Empty /\ batch = Empty
    BY DEF Lifecycle, BatchOwned
<1>3. Unfinished' = {} /\ Finished' = {}
    BY <1>2, EmptyIsPartialMap DEF Unfinished, Finished
<1>4. Lifecycle' /\ BatchOwned' /\ BatchContents' /\ FreshResults'
    BY <1>2, <1>3, EmptyIsPartialMap
    DEF Lifecycle, BatchOwned, BatchContents, FreshResults
<1>5. NoRecompilation' /\ NoStrandedResult'
    BY <1>2, <1>3, EmptyIsPartialMap DEF NoRecompilation, NoStrandedResult
<1> QED
    BY <1>1, <1>4, <1>5

\* stop() announces itself; the version is reserved for ChangesInput.
LEMMA StopBeginIInv ==
    ASSUME IInv, NEW o \in Ops, StopBegin(o)
    PROVE  IInv'
<1> USE DEF StopBegin, worker, IInv
<1>1. TypeOK'
    BY BoundsAssumption DEF TypeOK, Ops
<1>2. Unfinished' = Unfinished /\ Finished' = Finished
    BY DEF Unfinished, Finished
<1>3. Lifecycle'
    BY BoundsAssumption DEF Lifecycle, ChangesInput, Ops, TypeOK
<1>4. BatchOwned' /\ BatchContents'
    BY <1>2 DEF BatchOwned, BatchContents
<1>5. FreshResults'
    BY <1>2 DEF FreshResults, Fresh
<1>6. NoRecompilation' /\ NoStrandedResult'
    BY <1>2 DEF NoRecompilation, NoStrandedResult
<1> QED
    BY <1>1, <1>3, <1>4, <1>5, <1>6

\* The two signals to the worker change no data.
LEMMA StopSignalsIInv ==
    ASSUME IInv, StopInterrupt \/ StopWake
    PROVE  IInv'
<1> USE DEF StopInterrupt, StopWake, input, engine, IInv
<1>1. TypeOK'
    BY DEF TypeOK, Wake, Phases
<1>2. Unfinished' = Unfinished /\ Finished' = Finished
    BY DEF Unfinished, Finished
<1>3. Lifecycle'
    BY DEF Lifecycle, Wake
<1>4. BatchOwned' /\ BatchContents'
    BY <1>2 DEF BatchOwned, BatchContents, Wake, Fresh
<1>5. FreshResults'
    BY <1>2 DEF FreshResults, Fresh
<1>6. NoRecompilation' /\ NoStrandedResult'
    BY <1>2 DEF NoRecompilation, NoStrandedResult
<1> QED
    BY <1>1, <1>3, <1>4, <1>5, <1>6

\* The worker has ended: nothing it produced survives, and the cache only
\* if the page contents stay as they are.
LEMMA StopJoinIInv ==
    ASSUME IInv, StopJoin
    PROVE  IInv'
<1> USE DEF StopJoin, start, SetInput, IInv
<1>1. batch = Empty /\ batch' = Empty /\ tasks' = Empty
    BY DEF BatchOwned
<1>2. Unfinished' = {} /\ Finished' = {}
    BY <1>1, EmptyIsPartialMap DEF Unfinished, Finished
<1>3. state = "Stopping"
    BY DEF Lifecycle
<1>4. TypeOK'
  <2>1. Empty \in PartialMaps(Task) /\ Empty \in PartialMaps(PageImage)
    BY EmptyIsPartialMap
  <2>2. cache' \in PartialMaps(PageImage)
    BY <2>1 DEF TypeOK
  <2>3. version' \in 0 .. MaxVersion
    BY <1>3, BoundsAssumption DEF TypeOK, Lifecycle
  <2>4. document' \in BOOLEAN
    BY DEF TypeOK
  <2>5. state' \in {"Inactive", "Active", "Stopping"} /\ phase' \in Phases
        /\ main' \in {"loop", "interrupt", "wake", "join", "gone"}
    BY DEF Phases
  <2> QED
    BY <1>1, <2>1, <2>2, <2>3, <2>4, <2>5 DEF TypeOK
<1>5. Lifecycle'
    BY <1>1 DEF Lifecycle, ClearsCache
<1>6. BatchOwned' /\ BatchContents'
    BY <1>1, <1>2, EmptyIsPartialMap DEF BatchOwned, BatchContents
<1>7. FreshResults'
  <2>1. CASE op = "soft"
    BY <1>2, <1>3, <2>1 DEF FreshResults, Fresh, ClearsCache, ChangesInput
  <2>2. CASE op # "soft"
    BY <1>2, <2>2, EmptyIsPartialMap DEF FreshResults, ClearsCache
  <2> QED
    BY <2>1, <2>2
<1>8. NoRecompilation' /\ NoStrandedResult'
    BY <1>1, <1>2, EmptyIsPartialMap DEF NoRecompilation, NoStrandedResult
<1> QED
    BY <1>4, <1>5, <1>6, <1>7, <1>8

-----------------------------------------------------------------------------
(* The other handlers. *)

\* A request adds one unfinished task for a page that is not cached.
LEMMA RequestIInv ==
    ASSUME IInv, NEW p \in Pages, getCompiledPage(p)
    PROVE  IInv'
<1> USE DEF getCompiledPage, input, control, IInv
<1>1. /\ DOMAIN tasks \in SUBSET Pages
      /\ tasks \in [DOMAIN tasks -> Task]
    BY PartialMapElim DEF TypeOK
<1>2. /\ DOMAIN tasks' = DOMAIN tasks \cup {p}
      /\ p \notin DOMAIN tasks
      /\ tasks'[p] = Open(0)
      /\ \A q \in DOMAIN tasks : tasks'[q] = tasks[q]
    BY DEF Wanted
<1>3. Unfinished' = Unfinished \cup {p} /\ Finished' = Finished
    BY <1>2 DEF Unfinished, Finished, Open
<1>4. TypeOK'
  <2>1. tasks' \in [DOMAIN tasks \cup {p} -> Task]
    BY <1>1, Records
  <2>2. tasks' \in PartialMaps(Task)
    BY <1>1, <2>1, PartialMapIntro
  <2> QED
    BY <2>2 DEF TypeOK, Wake, Phases
<1>5. Lifecycle'
    BY DEF Lifecycle, Wake
<1>6. BatchOwned' /\ BatchContents'
    BY <1>3 DEF BatchOwned, BatchContents, Wake, Fresh
<1>7. FreshResults'
    BY <1>2, <1>3 DEF FreshResults, Fresh, Finished
<1>8. NoRecompilation' /\ NoStrandedResult'
    BY <1>2, <1>3 DEF NoRecompilation, NoStrandedResult, Wanted, Wake
<1> QED
    BY <1>4, <1>5, <1>6, <1>7, <1>8

\* Expiration and a lower limit only remove pages from the cache.
LEMMA EvictIInv ==
    ASSUME IInv,
           \/ \E S \in SUBSET Pages : smartClearCache(S)
           \/ \E l \in Limits : setCacheLimit(l)
    PROVE  IInv'
<1> USE DEF input, worker, control, IInv
<1>1. PICK S : S \subseteq DOMAIN cache /\ cache' = [p \in S |-> cache[p]]
    BY TrimmedShrinks DEF smartClearCache, setCacheLimit
<1>2. UNCHANGED <<version, document, state, tasks, phase, batch, interrupted,
                  events, main, op>> /\ limit' \in Limits
    BY DEF smartClearCache, setCacheLimit, TypeOK
<1>3. /\ DOMAIN cache \in SUBSET Pages
      /\ cache \in [DOMAIN cache -> PageImage]
    BY PartialMapElim DEF TypeOK
<1>4. Unfinished' = Unfinished /\ Finished' = Finished
    BY <1>2 DEF Unfinished, Finished
<1>5. TypeOK'
  <2>1. cache' \in [S -> PageImage]
    BY <1>1, <1>3
  <2>2. cache' \in PartialMaps(PageImage)
    BY <1>1, <1>3, <2>1, PartialMapIntro
  <2> QED
    BY <1>2, <2>2 DEF TypeOK
<1>6. Lifecycle'
  <2>1. ASSUME cache = Empty PROVE cache' = Empty
    BY <1>1, <2>1 DEF Empty
  <2> QED
    BY <1>2, <2>1 DEF Lifecycle
<1>7. BatchOwned' /\ BatchContents'
    BY <1>2, <1>4 DEF BatchOwned, BatchContents, Fresh
<1>8. FreshResults'
    BY <1>1, <1>2, <1>4 DEF FreshResults, Fresh
<1>9. NoRecompilation' /\ NoStrandedResult'
    BY <1>1, <1>2, <1>4 DEF NoRecompilation, NoStrandedResult
<1> QED
    BY <1>5, <1>6, <1>7, <1>8, <1>9

\* Finished tasks leave m_tasks; those accepted by the cache are fresh.
LEMMA HarvestIInv ==
    ASSUME IInv, onPageCompiled
    PROVE  IInv'
<1> USE DEF onPageCompiled, input, worker, control, Taken, IInv
<1>1. /\ DOMAIN tasks \in SUBSET Pages /\ tasks \in [DOMAIN tasks -> Task]
      /\ DOMAIN cache \in SUBSET Pages /\ cache \in [DOMAIN cache -> PageImage]
    BY PartialMapElim DEF TypeOK
<1>2. /\ DOMAIN tasks' = Unfinished
      /\ \A p \in Unfinished : tasks'[p] = tasks[p]
      /\ tasks' \in [Unfinished -> Task]
    BY <1>1 DEF Unfinished, Finished
<1>3. Unfinished' = Unfinished /\ Finished' = {}
    BY <1>2 DEF Unfinished, Finished
<1>4. PICK S : /\ S \subseteq DOMAIN cache \cup Finished
               /\ state # "Active" => S = DOMAIN cache
               /\ DOMAIN cache' = S
               /\ \A p \in S : cache'[p] = IF state = "Active" /\ p \in Finished
                                           THEN tasks[p].image ELSE cache[p]
               /\ state # "Active" => cache' = cache
               /\ cache' \in [S -> PageImage]
  <2>1. CASE state = "Active"
    <3> DEFINE accepted == {p \in Taken : Cost[p] <= limit}
    <3>1. PICK S : /\ S \in Trimmed(DOMAIN cache \cup accepted, limit)
                   /\ cache' = [p \in S |-> IF p \in accepted THEN tasks[p].image
                                            ELSE cache[p]]
      BY <2>1 DEF Harvest
    <3>2. S \subseteq DOMAIN cache \cup accepted
      BY <3>1, TrimmedShrinks
    <3>3. accepted \subseteq Finished /\ Finished \subseteq DOMAIN tasks
      BY DEF Finished
    <3>4. \A p \in accepted : tasks[p].image \in PageImage
      BY <1>1, <3>3 DEF Task
    <3>5. \A p \in S : p \in Finished => p \in accepted
      BY <3>2, <3>3 DEF NoRecompilation
    <3>6. cache' \in [S -> PageImage]
      BY <1>1, <3>1, <3>2, <3>4
    <3> QED
      BY <2>1, <3>1, <3>2, <3>3, <3>5, <3>6
  <2>2. CASE state # "Active"
    BY <1>1, <2>2
  <2> QED
    BY <2>1, <2>2
<1>5. TypeOK'
  <2>1. Unfinished \in SUBSET Pages /\ S \in SUBSET Pages
    BY <1>1, <1>4 DEF Unfinished, Finished
  <2>2. tasks' \in PartialMaps(Task)
    BY <1>2, <2>1, PartialMapIntro
  <2>3. cache' \in PartialMaps(PageImage)
    BY <1>4, <2>1, PartialMapIntro
  <2>4. events' \in 0 .. MaxEvents
    BY BoundsAssumption DEF TypeOK
  <2> QED
    BY <2>2, <2>3, <2>4 DEF TypeOK
<1>6. Lifecycle'
  <2>1. ASSUME state = "Inactive" PROVE tasks' = Empty /\ cache' = Empty
    <3>1. tasks = Empty /\ cache = Empty /\ DOMAIN tasks = {}
      BY <2>1, EmptyIsPartialMap DEF Lifecycle
    <3> QED
      BY <2>1, <3>1, <1>4 DEF Empty
  <2> QED
    BY <2>1 DEF Lifecycle
<1>7. BatchOwned' /\ BatchContents'
    BY <1>3 DEF BatchOwned, BatchContents, Fresh
<1>8. FreshResults'
  <2>1. state = "Active" => \A p \in Finished : tasks[p].image = Fresh
    BY DEF FreshResults
  <2>2. state' = state /\ op' = op /\ Fresh' = Fresh
    BY DEF Fresh
  <2> QED
    BY <1>3, <1>4, <2>1, <2>2 DEF FreshResults
<1>9. NoRecompilation'
    BY <1>2, <1>4 DEF NoRecompilation, Unfinished, Finished
<1>10. NoStrandedResult'
    BY <1>3 DEF NoStrandedResult
<1> QED
    BY <1>5, <1>6, <1>7, <1>8, <1>9, <1>10

-----------------------------------------------------------------------------
(* The steps of the worker thread. *)

\* Locking, waiting and leaving the loops change only the phase.
LEMMA WorkerControlIInv ==
    ASSUME IInv,
           WorkerBegin \/ WorkerOuter \/ WorkerSleep \/ WorkerWoken \/ WorkerLeaveInner
    PROVE  IInv'
<1> USE DEF WorkerBegin, WorkerOuter, WorkerSleep, WorkerWoken, WorkerLeaveInner,
            WorkerMoves, input, engine, control, IInv
<1>1. TypeOK'
    BY DEF TypeOK, Phases
<1>2. Unfinished' = Unfinished /\ Finished' = Finished
    BY DEF Unfinished, Finished
<1>3. batch = Empty /\ batch' = Empty /\ DOMAIN Empty = {}
    BY EmptyIsPartialMap DEF BatchOwned
<1>4. Lifecycle'
    BY DEF Lifecycle
<1>5. BatchOwned' /\ BatchContents'
    BY <1>3 DEF BatchOwned, BatchContents
<1>6. FreshResults'
    BY <1>2 DEF FreshResults, Fresh
<1>7. NoRecompilation' /\ NoStrandedResult'
    BY <1>2 DEF NoRecompilation, NoStrandedResult
<1> QED
    BY <1>1, <1>4, <1>5, <1>6, <1>7

\* The batch is copied from the unfinished tasks.
LEMMA WorkerFetchIInv ==
    ASSUME IInv, WorkerFetch
    PROVE  IInv'
<1> USE DEF WorkerFetch, WorkerMoves, input, engine, control, IInv
<1>1. Unfinished' = Unfinished /\ Finished' = Finished
    BY DEF Unfinished, Finished
<1>2. DOMAIN batch' = Unfinished /\ \A p \in Unfinished : batch'[p] = Open(version)
    OBVIOUS
<1>3. TypeOK'
  <2>1. Unfinished \in SUBSET Pages
    BY PartialMapElim DEF TypeOK, Unfinished
  <2>2. batch' \in [Unfinished -> Task]
    BY Records
  <2>3. batch' \in PartialMaps(Task)
    BY <2>1, <2>2, PartialMapIntro
  <2> QED
    BY <2>3 DEF TypeOK, Phases
<1>4. Lifecycle'
    BY DEF Lifecycle
<1>5. BatchOwned' /\ BatchContents'
    BY <1>1, <1>2 DEF BatchOwned, BatchContents, Open
<1>6. FreshResults'
    BY <1>1 DEF FreshResults, Fresh
<1>7. NoRecompilation' /\ NoStrandedResult'
    BY <1>1 DEF NoRecompilation, NoStrandedResult
<1> QED
    BY <1>3, <1>4, <1>5, <1>6, <1>7

\* Compilation with the mutex unlocked; in state Active no cancellation and
\* no change of the input can have been seen.
LEMMA WorkerCompileIInv ==
    ASSUME IInv, WorkerCompile
    PROVE  IInv'
<1> USE DEF WorkerCompile, WorkerMoves, input, engine, control, IInv
<1>1. Unfinished' = Unfinished /\ Finished' = Finished
    BY DEF Unfinished, Finished
<1>2. DOMAIN batch \in SUBSET Pages /\ batch \in [DOMAIN batch -> Task]
    BY PartialMapElim DEF TypeOK
<1>3. PICK v \in {batch[p].image.version : p \in DOMAIN batch} :
            batch' \in [DOMAIN batch -> Compiled(v)]
    OBVIOUS
<1>4. v \in 0 .. MaxVersion /\ (state = "Active" => v = version)
    BY <1>2 DEF BatchContents, Task, PageImage
<1>5. /\ Compiled(v) \subseteq Task
      /\ \A t \in Compiled(v) : t.finished /\ (state = "Active" => t.image = Fresh)
    BY <1>4 DEF Compiled, Task, PageImage, Fresh, TypeOK
<1>6. DOMAIN batch' = DOMAIN batch /\ batch' \in [DOMAIN batch -> Task]
    BY <1>3, <1>5
<1>7. TypeOK'
  <2>1. batch' \in PartialMaps(Task)
    BY <1>2, <1>6, PartialMapIntro
  <2> QED
    BY <2>1 DEF TypeOK, Phases
<1>8. Lifecycle'
    BY DEF Lifecycle
<1>9. BatchOwned'
    BY <1>1, <1>6 DEF BatchOwned
<1>10. BatchContents'
  <2>1. \A p \in DOMAIN batch : batch'[p] \in Compiled(v)
    BY <1>3
  <2>2. \A p \in DOMAIN batch : batch'[p].finished \in BOOLEAN
    BY <1>6 DEF Task
  <2>3. Fresh' = Fresh /\ phase' = "relock" /\ state' = state
    BY DEF Fresh
  <2> QED
    BY <1>5, <1>6, <2>1, <2>2, <2>3 DEF BatchContents
<1>11. FreshResults'
    BY <1>1 DEF FreshResults, Fresh
<1>12. NoRecompilation' /\ NoStrandedResult'
    BY <1>1 DEF NoRecompilation, NoStrandedResult
<1> QED
    BY <1>7, <1>8, <1>9, <1>10, <1>11, <1>12

\* The results replace the unfinished tasks they were copied from.
LEMMA WorkerWriteIInv ==
    ASSUME IInv, WorkerWrite
    PROVE  IInv'
<1> USE DEF WorkerWrite, WorkerMoves, input, control, IInv
<1>1. /\ DOMAIN tasks \in SUBSET Pages /\ tasks \in [DOMAIN tasks -> Task]
      /\ DOMAIN batch \in SUBSET Pages /\ batch \in [DOMAIN batch -> Task]
    BY PartialMapElim DEF TypeOK
<1>2. DOMAIN batch \subseteq Unfinished /\ Unfinished \subseteq DOMAIN tasks
    BY DEF BatchOwned, Unfinished
<1>3. /\ DOMAIN tasks' = DOMAIN tasks
      /\ \A p \in DOMAIN tasks :
            tasks'[p] = IF p \in DOMAIN batch THEN batch[p] ELSE tasks[p]
      /\ tasks' \in [DOMAIN tasks -> Task]
    BY <1>1, <1>2
<1>4. \A p \in DOMAIN batch : batch[p].finished
    BY DEF BatchContents
<1>5. Finished' = Finished \cup DOMAIN batch
    BY <1>2, <1>3, <1>4 DEF Finished
<1>6. DOMAIN batch' = {}
    BY EmptyIsPartialMap
<1>7. TypeOK'
  <2>1. tasks' \in PartialMaps(Task)
    BY <1>1, <1>3, PartialMapIntro
  <2>2. batch' \in PartialMaps(Task)
    BY EmptyIsPartialMap
  <2> QED
    BY <2>1, <2>2 DEF TypeOK, Phases
<1>8. Lifecycle'
    BY DEF Lifecycle
<1>9. BatchOwned' /\ BatchContents'
    BY <1>6 DEF BatchOwned, BatchContents
<1>10. FreshResults'
  <2>1. state = "Active" => \A p \in DOMAIN batch : batch[p].image = Fresh
    BY DEF BatchContents
  <2>2. Finished \subseteq DOMAIN tasks /\ Fresh' = Fresh
    BY DEF Finished, Fresh
  <2> QED
    BY <1>2, <1>3, <1>5, <2>1, <2>2 DEF FreshResults
<1>11. NoRecompilation' /\ NoStrandedResult'
    BY <1>3 DEF NoRecompilation, NoStrandedResult
<1> QED
    BY <1>7, <1>8, <1>9, <1>10, <1>11

\* The signal is queued (or joins one that is queued already).
LEMMA WorkerEmitIInv ==
    ASSUME IInv, WorkerEmit
    PROVE  IInv'
<1> USE DEF WorkerEmit, WorkerMoves, AfterBatch, input, engine, control, IInv
<1>1. TypeOK' /\ events' > 0
    BY BoundsAssumption DEF TypeOK, Phases
<1>2. Unfinished' = Unfinished /\ Finished' = Finished
    BY DEF Unfinished, Finished
<1>3. batch = Empty /\ DOMAIN Empty = {}
    BY EmptyIsPartialMap DEF BatchOwned
<1>4. Lifecycle'
    BY DEF Lifecycle
<1>5. BatchOwned' /\ BatchContents' /\ FreshResults'
    BY <1>2, <1>3 DEF BatchOwned, BatchContents, FreshResults, Fresh
<1>6. NoRecompilation' /\ NoStrandedResult'
    BY <1>1 DEF NoRecompilation, NoStrandedResult
<1> QED
    BY <1>1, <1>4, <1>5, <1>6

-----------------------------------------------------------------------------
(* The theorems. *)

\* A step that changes nothing.
LEMMA StutterIInv == ASSUME IInv, UNCHANGED vars PROVE IInv'
BY DEF vars, input, engine, worker, control, IInv, TypeOK, Lifecycle, BatchOwned,
       BatchContents, FreshResults, NoRecompilation, NoStrandedResult,
       Unfinished, Finished, Fresh

\* Every step of either thread keeps the invariant.
LEMMA NextIInv == ASSUME IInv, [Next]_vars PROVE IInv'
<1>1. CASE MainStep
  <2>1. CASE \E o \in Ops : StartFirst(o) \/ StopBegin(o)
    BY <2>1, StartFirstIInv, StopBeginIInv
  <2>2. CASE Stop
    BY <2>2, StopSignalsIInv, StopJoinIInv DEF Stop
  <2>3. CASE \E p \in Pages : getCompiledPage(p)
    BY <2>3, RequestIInv
  <2>4. CASE \/ \E S \in SUBSET Pages : smartClearCache(S)
             \/ \E l \in Limits : setCacheLimit(l)
    BY <2>4, EvictIInv
  <2>5. CASE onPageCompiled
    BY <2>5, HarvestIInv
  <2> QED
    BY <1>1, <2>1, <2>2, <2>3, <2>4, <2>5 DEF MainStep
<1>2. CASE WorkerStep
    BY <1>2, WorkerControlIInv, WorkerFetchIInv, WorkerCompileIInv,
       WorkerWriteIInv, WorkerEmitIInv DEF WorkerStep
<1>3. CASE UNCHANGED vars
    BY <1>3, StutterIInv
<1> QED
    BY <1>1, <1>2, <1>3 DEF Next

\* The inductive invariant holds in every behaviour of the compiler.
THEOREM Invariance == Spec => []IInv
BY InitIInv, NextIInv, PTL DEF Spec

\* TypeOK of the members of PDFAsynchronousPageCompiler, for all constants.
THEOREM TypeCorrect == Spec => []TypeOK
<1>1. IInv => TypeOK
    BY DEF IInv
<1> QED
    BY <1>1, Invariance, PTL

\* No image of a replaced document or of a cancelled compilation is ever
\* returned by getCompiledPage.
THEOREM CacheIsCurrent == Spec => []CacheCurrent
<1>1. IInv => CacheCurrent
  <2> SUFFICES ASSUME IInv, main = "loop" PROVE
                \A p \in DOMAIN cache : cache[p] = [version |-> version, complete |-> TRUE]
    BY DEF CacheCurrent
  <2>1. CASE state = "Inactive"
    BY <2>1, EmptyIsPartialMap DEF IInv, Lifecycle
  <2>2. CASE state = "Active"
    BY <2>2 DEF IInv, FreshResults, Fresh
  <2> QED
    BY <2>1, <2>2 DEF IInv, TypeOK, Lifecycle
<1> QED
    BY <1>1, Invariance, PTL

\* What the worker holds a copy of is a task of the main thread as long as the
\* compiler is not stopped.
THEOREM BatchesAreOwned == Spec => []BatchOwned
<1>1. IInv => BatchOwned
    BY DEF IInv
<1> QED
    BY <1>1, Invariance, PTL

\* No page is compiled while the cache has it.
THEOREM NothingCompiledTwice == Spec => []NoRecompilation
<1>1. IInv => NoRecompilation
    BY DEF IInv
<1> QED
    BY <1>1, Invariance, PTL

\* A finished result is followed by a signal that will fetch it.
THEOREM NothingStranded == Spec => []NoStrandedResult
<1>1. IInv => NoStrandedResult
    BY DEF IInv
<1> QED
    BY <1>1, Invariance, PTL

-----------------------------------------------------------------------------
(* The compiler implements PageService. *)

present == IF main \in {"interrupt", "wake", "join"} /\ op = "early"
           THEN version - 1 ELSE version
Publishes(S) ==
    cache' = [p \in S |-> IF p \in DOMAIN cache THEN cache[p] ELSE Service!Current]

\* A handler that calls stop() withdraws everything when the input changes.
LEMMA StopImplements ==
    ASSUME IInv, (\E o \in Ops : StartFirst(o) \/ StopBegin(o)) \/ Stop
    PROVE  \/ present' = present + 1 /\ cache' = Empty
           \/ UNCHANGED <<present, cache>>
           \/ present' = present /\ Publishes({})
<1> USE DEF IInv, present
<1>1. version \in Nat /\ version - 1 + 1 = version
    BY BoundsAssumption DEF TypeOK
<1>2. ASSUME NEW o \in Ops, StartFirst(o)
      PROVE  (present' = present + 1 \/ present' = present) /\ cache' = cache /\ cache = Empty
    BY <1>2 DEF StartFirst, start, Lifecycle
<1>3. ASSUME NEW o \in Ops, StopBegin(o) PROVE UNCHANGED <<present, cache>>
    BY <1>1, <1>3 DEF StopBegin
<1>4. CASE StopInterrupt \/ StopWake
    BY <1>4 DEF StopInterrupt, StopWake, engine, input
<1>5. CASE StopJoin
  <2>1. main' \notin {"interrupt", "wake", "join"} /\ main = "join" /\ op' = op
    BY <1>5 DEF StopJoin, start
  <2>2. present' = version'
    BY <2>1
  <2>3. CASE op = "soft"
    BY <1>5, <2>1, <2>2, <2>3 DEF StopJoin, SetInput, ClearsCache, ChangesInput
  <2>4. CASE op = "destroy"
    <3>1. version' = version /\ cache' = Empty
      BY <1>5, <2>4 DEF StopJoin, SetInput, ClearsCache, ChangesInput
    <3>2. Publishes({})
      BY <3>1 DEF Publishes, Empty
    <3> QED
      BY <2>1, <2>2, <2>4, <3>1, <3>2
  <2>5. CASE op = "early"
    BY <1>1, <1>5, <2>1, <2>2, <2>5 DEF StopJoin, SetInput, ClearsCache, ChangesInput
  <2>6. CASE ChangesInput(op)
    BY <1>5, <2>1, <2>2, <2>6 DEF StopJoin, SetInput, ClearsCache, ChangesInput
  <2> QED
    BY <2>3, <2>4, <2>5, <2>6 DEF TypeOK, Ops, ChangesInput
<1> QED
    BY <1>2, <1>3, <1>4, <1>5 DEF Stop

\* The other handlers publish fresh images and withdraw others.
LEMMA HandlerImplements ==
    ASSUME IInv,
           \/ \E S \in SUBSET Pages : smartClearCache(S)
           \/ \E l \in Limits : setCacheLimit(l)
           \/ onPageCompiled
    PROVE  \E S \in SUBSET Pages : Publishes(S)
<1> USE DEF IInv
<1>1. DOMAIN cache \in SUBSET Pages /\ DOMAIN tasks \in SUBSET Pages
    BY PartialMapElim DEF TypeOK
<1>2. CASE \/ \E S \in SUBSET Pages : smartClearCache(S)
           \/ \E l \in Limits : setCacheLimit(l)
  <2>1. PICK S : S \subseteq DOMAIN cache /\ cache' = [p \in S |-> cache[p]]
    BY <1>2, TrimmedShrinks DEF smartClearCache, setCacheLimit
  <2> QED
    BY <1>1, <2>1 DEF Publishes
<1>3. CASE onPageCompiled
  <2>1. CASE state # "Active"
    <3>1. Publishes(DOMAIN cache)
      BY <1>3, <2>1, PartialMapElim DEF onPageCompiled, Publishes, TypeOK
    <3> QED
      BY <1>1, <3>1
  <2>2. CASE state = "Active"
    <3> DEFINE accepted == {p \in Taken : Cost[p] <= limit}
    <3>1. PICK S : /\ S \in Trimmed(DOMAIN cache \cup accepted, limit)
                   /\ cache' = [p \in S |-> IF p \in accepted THEN tasks[p].image
                                            ELSE cache[p]]
      BY <1>3, <2>2 DEF onPageCompiled, Harvest
    <3>2. S \subseteq DOMAIN cache \cup accepted
      BY <3>1, TrimmedShrinks
    <3>3. accepted \subseteq Finished /\ Finished \subseteq DOMAIN tasks
      BY DEF Taken, Finished
    <3>4. main = "loop"
      BY <1>3 DEF onPageCompiled
    <3>5. \A p \in accepted : p \notin DOMAIN cache /\ tasks[p].image = Service!Current
      BY <2>2, <3>3, <3>4 DEF NoRecompilation, FreshResults, Fresh, Service!Current
    <3>6. Publishes(S)
      BY <3>1, <3>2, <3>5 DEF Publishes
    <3> QED
      BY <1>1, <3>2, <3>3, <3>6
  <2> QED
    BY <2>1, <2>2
<1> QED
    BY <1>2, <1>3

\* getCompiledPage and the worker do not touch the cache.
LEMMA WorkerImplements ==
    ASSUME (\E p \in Pages : getCompiledPage(p)) \/ WorkerStep
    PROVE  UNCHANGED <<present, cache>>
BY DEF getCompiledPage, WorkerStep, WorkerBegin, WorkerOuter, WorkerSleep,
       WorkerWoken, WorkerLeaveInner, WorkerFetch, WorkerCompile, WorkerWrite,
       WorkerEmit, input, engine, control, present

\* Every step of the compiler is a step of the service or a stutter.
LEMMA NextImplements ==
    ASSUME IInv, [Next]_vars
    PROVE  [Service!Next]_<<present, cache>>
<1> USE DEF Service!Next
<1>1. CASE (\E o \in Ops : StartFirst(o) \/ StopBegin(o)) \/ Stop
    BY <1>1, StopImplements
    DEF Service!Replace, Service!Publish, Service!Nothing, Empty, Publishes, present
<1>2. CASE \/ \E S \in SUBSET Pages : smartClearCache(S)
           \/ \E l \in Limits : setCacheLimit(l)
           \/ onPageCompiled
  <2>1. present' = present
    BY <1>2 DEF smartClearCache, setCacheLimit, onPageCompiled, input, control, present
  <2> QED
    BY <1>2, <2>1, HandlerImplements DEF Service!Publish, Publishes, present
<1>3. CASE (\E p \in Pages : getCompiledPage(p)) \/ WorkerStep
    BY <1>3, WorkerImplements
<1>4. CASE UNCHANGED vars
    BY <1>4 DEF vars, input, engine, control, present
<1> QED
    BY <1>1, <1>2, <1>3, <1>4 DEF Next, MainStep

\* Spec implements PageService: callers of getCompiledPage see complete images
\* of the present input only, and a change withdraws all others in one step.
THEOREM Refinement == Spec => ImplementsService
<1>1. Init => Service!Init
    BY DEF Init, Service!Init, Service!Nothing, Empty
<1>2. IInv /\ [Next]_vars => [Service!Next]_<<present, cache>>
    BY NextImplements
<1> QED
    BY <1>1, <1>2, Invariance, PTL DEF Spec, ImplementsService, Service!Spec, present
=============================================================================

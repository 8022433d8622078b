------------------------ MODULE RasterizerPoolProofs ------------------------
(***************************************************************************)
(* The safety invariants of RasterizerPool, for any finite sets of pages   *)
(* and rasterizers and pools of any size: permits never promise more       *)
(* rasterizers than there are, no two threads share one, and render()      *)
(* leaves nothing behind.  PDFProgress is used by its own invariant.       *)
(***************************************************************************)
EXTENDS RasterizerPool, SequenceTheorems, FiniteSetTheorems, TLAPS

PP == INSTANCE ProgressProofs WITH Workers <- Pages, StepCount <- Cardinality(Pages)

\* The pages whose runnables are at one of the stages S.
In(S) == {p \in Pages : stage[p] \in S}

(* The inductive invariant. *)

Shape ==
    /\ caller \in {"idle", "waiting", "returned"}
    /\ stage \in [Pages -> Stages]
    /\ held \in [Pages -> SUBSET Rasterizers]
    /\ pool \in Seq(Rasterizers)
    /\ permits \in Nat

\* Buckets queued and running are those of a page that waits for its content.
Divided ==
    /\ left \in [Pages -> 0 .. Buckets] /\ active \in [Pages -> 0 .. Buckets]
    /\ \A p \in Pages : left[p] + active[p] <= Buckets
    /\ \A p \in Pages : stage[p] # "content" => left[p] = 0 /\ active[p] = 0

\* A rasterizer is in the pool once, or with the one page that renders.
Owned ==
    /\ \A p \in Pages : stage[p] = "render" => \E r \in Rasterizers : held[p] = {r}
    /\ \A p \in Pages : stage[p] # "render" => held[p] = NoRasterizer
    /\ \A p, q \in Pages : p # q => held[p] \cap held[q] = {}
    /\ \A p \in Pages : held[p] \cap ToSet(pool) = {}
    /\ (UNION {held[p] : p \in Pages}) \cup ToSet(pool) = Rasterizers
    /\ IsInjective(pool)

\* Every rasterizer of the pool belongs to a permit, to a thread that got one
\* or to a thread that is about to release one.
Counted == Len(pool) = permits + Cardinality(In({"permitted", "returned"}))

\* The permits of execute()'s semaphore.
Ended ==
    /\ finished + (IF caller = "returned" THEN Cardinality(Pages) ELSE 0) = Cardinality(In({"done"}))
    /\ finished \in Nat
    /\ caller = "returned" => \A p \in Pages : stage[p] = "done"

\* Each page takes one step of the progress, at the end.
Reported ==
    /\ currentStep = Cardinality(In({"step", "done"}))
    /\ \A p \in Pages : stage[p] # "step" => pc[p] = "idle"

IInv == Shape /\ Divided /\ Owned /\ Counted /\ Ended /\ Reported /\ PP!IInv

-----------------------------------------------------------------------------
(* Counting. *)

LEMMA PagesCounted ==
    /\ Cardinality(Pages) \in Nat \ {0}
    /\ \A T \in SUBSET Pages : IsFiniteSet(T) /\ Cardinality(T) \in 0 .. Cardinality(Pages)
<1>1. Cardinality(Pages) \in Nat /\ Cardinality(Pages) # 0
    BY PagesAssumption, FS_CardinalityType, FS_EmptySet
<1>2. ASSUME NEW T \in SUBSET Pages
      PROVE  IsFiniteSet(T) /\ Cardinality(T) \in 0 .. Cardinality(Pages)
  <2>1. IsFiniteSet(T) /\ Cardinality(T) <= Cardinality(Pages)
    BY PagesAssumption, FS_Subset
  <2> QED
    BY <1>1, <2>1, FS_CardinalityType
<1> QED
    BY <1>1, <1>2

\* A page that moves on changes the numbers of those at the stages S by one
\* at most.
LEMMA MoveCounts ==
    ASSUME stage \in [Pages -> Stages], NEW p \in Pages, NEW from, NEW to, Move(p, from, to), NEW S
    PROVE  /\ Cardinality(In(S)) \in Nat
           /\ from \in S /\ to \notin S => Cardinality(In(S)') = Cardinality(In(S)) - 1
           /\ from \notin S /\ to \in S => Cardinality(In(S)') = Cardinality(In(S)) + 1
           /\ (from \in S <=> to \in S) => Cardinality(In(S)') = Cardinality(In(S))
<1>1. stage[p] = from /\ stage' = [stage EXCEPT ![p] = to]
    BY DEF Move
<1>2. IsFiniteSet(In(S)) /\ Cardinality(In(S)) \in Nat
    BY PagesCounted DEF In
<1>3. ASSUME from \in S, to \notin S PROVE In(S)' = In(S) \ {p} /\ p \in In(S)
    BY <1>1, <1>3 DEF In
<1>4. ASSUME from \notin S, to \in S PROVE In(S)' = In(S) \cup {p} /\ p \notin In(S)
    BY <1>1, <1>4 DEF In
<1>5. ASSUME from \in S <=> to \in S PROVE In(S)' = In(S)
    BY <1>1, <1>5 DEF In
<1> QED
    BY <1>2, <1>3, <1>4, <1>5, FS_AddElement, FS_RemoveElement

\* An enumeration of a set has every element once.
LEMMA Enumerated ==
    ASSUME NEW S, IsFiniteSet(S)
    PROVE  /\ SetToSeq(S) \in Seq(S) /\ Len(SetToSeq(S)) = Cardinality(S)
           /\ IsInjective(SetToSeq(S)) /\ ToSet(SetToSeq(S)) = S
<1> DEFINE n == Cardinality(S)  s == SetToSeq(S)
<1>1. n \in Nat /\ ExistsBijection(1 .. n, S)
    BY FS_CardinalityType
<1>2. \E f \in [1 .. n -> S] : IsInjective(f)
    BY <1>1 DEF ExistsBijection, Bijection, Injection
<1>3. s \in [1 .. n -> S] /\ IsInjective(s)
    BY <1>2 DEF SetToSeq
<1> HIDE DEF s, n
<1>4. s \in Seq(S) /\ Len(s) = n
    BY <1>1, <1>3
<1>5. ToSet(s) \in SUBSET S
    BY <1>3 DEF ToSet
<1>6. ExistsBijection(1 .. n, ToSet(s))
  <2>1. s \in [1 .. n -> ToSet(s)]
    BY <1>3 DEF ToSet
  <2>2. \A t \in ToSet(s) : \E i \in 1 .. n : s[i] = t
    BY <1>3 DEF ToSet
  <2> QED
    BY <1>3, <2>1, <2>2 DEF ExistsBijection, Bijection, Injection, Surjection
<1>7. Cardinality(ToSet(s)) = n
    BY <1>1, <1>6, FS_CountingElements
<1>8. ToSet(s) = S
    BY <1>5, <1>7, FS_Subset DEF n
<1> QED
    BY <1>3, <1>4, <1>8 DEF s, n

\* Taking the last rasterizer of the pool.
LEMMA TakenFromPool ==
    ASSUME NEW R, NEW s \in Seq(R), s # <<>>, IsInjective(s)
    PROVE  /\ Last(s) \in R /\ Last(s) \in ToSet(s)
           /\ Front(s) \in Seq(R) /\ Len(Front(s)) = Len(s) - 1 /\ IsInjective(Front(s))
           /\ ToSet(Front(s)) = ToSet(s) \ {Last(s)}
<1>1. Len(s) \in Nat \ {0} /\ DOMAIN s = 1 .. Len(s) /\ \A i \in 1 .. Len(s) : s[i] \in R
    BY LenProperties, ElementOfSeq, EmptySeq
<1>2. Last(s) \in R /\ Last(s) \in ToSet(s)
    BY <1>1 DEF Last, ToSet
<1>3. \A i \in 1 .. Len(s) - 1 : s[i] \in R
    BY <1>1
<1>4. /\ Front(s) \in Seq(R) /\ Len(Front(s)) = Len(s) - 1
      /\ \A i \in 1 .. Len(s) - 1 : Front(s)[i] = s[i]
    BY <1>1, <1>3, SubSeqProperties DEF Front
<1>5. DOMAIN Front(s) = 1 .. Len(s) - 1
    BY <1>4, LenProperties
<1>6. IsInjective(Front(s))
    BY <1>1, <1>4, <1>5 DEF IsInjective
<1>7. ToSet(Front(s)) \subseteq ToSet(s) \ {Last(s)}
    BY <1>1, <1>4, <1>5 DEF ToSet, Last, IsInjective
<1>8. ToSet(s) \ {Last(s)} \subseteq ToSet(Front(s))
  <2>1. ASSUME NEW i \in 1 .. Len(s), s[i] # s[Len(s)] PROVE i \in 1 .. Len(s) - 1
    BY <1>1, <2>1
  <2> QED
    BY <1>1, <1>4, <1>5, <2>1 DEF ToSet, Last
<1> QED
    BY <1>2, <1>4, <1>6, <1>7, <1>8

\* Appending a rasterizer that the pool does not have.
LEMMA PutIntoPool ==
    ASSUME NEW R, NEW s \in Seq(R), IsInjective(s), NEW r \in R, r \notin ToSet(s)
    PROVE  /\ s \o SetToSeq({r}) \in Seq(R) /\ Len(s \o SetToSeq({r})) = Len(s) + 1
           /\ IsInjective(s \o SetToSeq({r}))
           /\ ToSet(s \o SetToSeq({r})) = ToSet(s) \cup {r}
<1> DEFINE t == SetToSeq({r})  u == s \o t
<1>1. t \in Seq({r}) /\ Len(t) = 1
    BY Enumerated, FS_Singleton
<1> HIDE DEF t
<1>2. t \in Seq(R) /\ t[1] = r
  <2>1. {r} \subseteq R /\ 1 \in 1 .. Len(t)
    BY <1>1
  <2>2. t \in Seq(R)
    BY <1>1, <2>1, SeqMonotonic
  <2>3. t[1] \in {r}
    BY <1>1, <2>1, ElementOfSeq
  <2> QED
    BY <2>2, <2>3
<1>3. Len(s) \in Nat /\ DOMAIN s = 1 .. Len(s)
    BY LenProperties
<1>4. /\ u \in Seq(R) /\ Len(u) = Len(s) + 1
      /\ \A i \in 1 .. Len(s) + 1 : u[i] = IF i <= Len(s) THEN s[i] ELSE t[i - Len(s)]
    BY <1>1, <1>2, ConcatProperties
<1> HIDE DEF u
<1>5. DOMAIN u = 1 .. Len(s) + 1
    BY <1>3, <1>4, LenProperties
<1>6. (\A i \in 1 .. Len(s) : u[i] = s[i]) /\ u[Len(s) + 1] = r
    BY <1>2, <1>3, <1>4
<1>7. ToSet(u) = ToSet(s) \cup {r}
    BY <1>3, <1>5, <1>6 DEF ToSet
<1>8. IsInjective(u)
    BY <1>3, <1>5, <1>6 DEF IsInjective, ToSet
<1> QED
    BY <1>4, <1>7, <1>8 DEF u, t

-----------------------------------------------------------------------------
(* PDFProgress, whose assumptions hold for one step per page. *)

LEMMA ProgressAssumptions ==
    /\ Cardinality(Pages) \in Nat \ {0}
    /\ Hundred \in Nat \ {0}
BY PagesCounted, ScaleAssumption

LEMMA ProgressInit == P!Init => PP!IInv
BY ProgressAssumptions, PP!Initially DEF P!Init, PP!Init, P!Percentages, PP!Percentages

LEMMA ProgressStep ==
    ASSUME PP!IInv, NEW p \in Pages, P!FetchAdd(p) \/ P!Continue(p)
    PROVE  PP!IInv'
BY ProgressAssumptions, PP!StepKeeps
DEF PP!Next, P!FetchAdd, P!Continue, PP!FetchAdd, PP!Continue, P!Load, P!Skip, P!Exchange,
    P!ExchangeFails, P!Emit, PP!Load, PP!Skip, PP!Exchange, PP!ExchangeFails, PP!Emit, P!Goto,
    PP!Goto, P!Again, PP!Again, P!ExchangeMatches, PP!ExchangeMatches, P!Percent, PP!Percent

LEMMA ProgressRests ==
    ASSUME PP!IInv, UNCHANGED progress
    PROVE  PP!IInv'
BY ProgressAssumptions, PP!StepKeeps DEF progress, PP!vars

-----------------------------------------------------------------------------
(* The steps of a runnable. *)

\* What a move between stages that count for nothing leaves.
LEMMA PlainMove ==
    ASSUME IInv, NEW p \in Pages, NEW from \in Stages, NEW to \in Stages, Move(p, from, to),
           {from, to} \cap {"permitted", "returned", "render", "step", "done"} = {},
           UNCHANGED <<caller, pool, permits, held, finished, progress>>
    PROVE  Shape' /\ Owned' /\ Counted' /\ Ended' /\ Reported' /\ PP!IInv'
<1>1. /\ stage[p] = from /\ stage' = [stage EXCEPT ![p] = to] /\ stage \in [Pages -> Stages]
      /\ stage' \in [Pages -> Stages]
    BY DEF Move, IInv, Shape
<1>2. /\ Cardinality(In({"permitted", "returned"})') = Cardinality(In({"permitted", "returned"}))
      /\ Cardinality(In({"done"})') = Cardinality(In({"done"}))
      /\ Cardinality(In({"step", "done"})') = Cardinality(In({"step", "done"}))
  <2>1. ASSUME NEW S, S \subseteq {"permitted", "returned", "render", "step", "done"}
        PROVE  Cardinality(In(S)') = Cardinality(In(S))
    <3>1. from \notin S /\ to \notin S
      BY <2>1
    <3> QED
      BY <1>1, <3>1, MoveCounts
  <2>2. /\ {"permitted", "returned"} \subseteq {"permitted", "returned", "render", "step", "done"}
        /\ {"done"} \subseteq {"permitted", "returned", "render", "step", "done"}
        /\ {"step", "done"} \subseteq {"permitted", "returned", "render", "step", "done"}
    OBVIOUS
  <2> QED
    BY <2>1, <2>2
<1>3. Shape' /\ Counted'
    BY <1>1, <1>2 DEF IInv, Shape, Counted
<1>4. Owned'
  <2>1. \A q \in Pages : stage'[q] = "render" <=> stage[q] = "render"
    BY <1>1
  <2> QED
    BY <2>1 DEF IInv, Owned
<1>5. Ended'
    BY <1>1, <1>2 DEF IInv, Ended
<1>6. Reported'
    BY <1>1, <1>2 DEF IInv, Reported, progress
<1> QED
    BY <1>3, <1>4, <1>5, <1>6, ProgressRests DEF IInv

LEMMA ContentKeeps ==
    ASSUME IInv, NEW p \in Pages,
           Begin(p) \/ SpawnContent(p) \/ BeginBucket(p) \/ EndBucket(p) \/ Compiled(p)
    PROVE  IInv'
<1> USE PoolAssumption
<1>1. CASE Begin(p)
  <2>1. Move(p, "queued", "compile") /\ UNCHANGED <<caller, left, active, pool, permits, held, finished, progress>>
    BY <1>1 DEF Begin, content
  <2>2. Divided'
    BY <2>1 DEF IInv, Shape, Divided, Move
  <2>3. Shape' /\ Owned' /\ Counted' /\ Ended' /\ Reported' /\ PP!IInv'
    BY <2>1, PlainMove DEF Stages
  <2> QED
    BY <2>2, <2>3 DEF IInv
<1>2. CASE SpawnContent(p)
  <2>1. /\ Move(p, "compile", "content") /\ left' = [left EXCEPT ![p] = Buckets]
        /\ UNCHANGED <<caller, active, pool, permits, held, finished, progress>>
    BY <1>2 DEF SpawnContent
  <2>2. /\ stage' = [stage EXCEPT ![p] = "content"] /\ active[p] = 0
        /\ stage \in [Pages -> Stages] /\ Buckets \in 0 .. Buckets
    BY <2>1 DEF IInv, Shape, Divided, Move
  <2>3. Divided'
    BY <2>1, <2>2 DEF IInv, Divided
  <2>4. Shape' /\ Owned' /\ Counted' /\ Ended' /\ Reported' /\ PP!IInv'
    BY <2>1, PlainMove DEF Stages
  <2> QED
    BY <2>3, <2>4 DEF IInv
<1>3. CASE BeginBucket(p) \/ EndBucket(p)
  <2>1. UNCHANGED <<caller, stage, pool, permits, held, finished, progress>>
    BY <1>3 DEF BeginBucket, EndBucket
  <2>2. Divided'
    BY <1>3 DEF IInv, Divided, BeginBucket, EndBucket
  <2>3. Shape' /\ Owned' /\ Counted' /\ Ended' /\ Reported' /\ PP!IInv'
    BY <2>1, ProgressRests DEF IInv, Shape, Owned, Counted, Ended, Reported, In, progress
  <2> QED
    BY <2>2, <2>3 DEF IInv
<1>4. CASE Compiled(p)
  <2>1. /\ Move(p, "content", "acquire") /\ left[p] = 0 /\ active[p] = 0
        /\ UNCHANGED <<caller, left, active, pool, permits, held, finished, progress>>
    BY <1>4 DEF Compiled, content
  <2>2. Divided'
    BY <2>1 DEF IInv, Shape, Divided, Move
  <2>3. Shape' /\ Owned' /\ Counted' /\ Ended' /\ Reported' /\ PP!IInv'
    BY <2>1, PlainMove DEF Stages
  <2> QED
    BY <2>2, <2>3 DEF IInv
<1> QED
    BY <1>1, <1>2, <1>3, <1>4

\* What every move leaves of the parts it does not count in.
LEMMA MoveLeaves ==
    ASSUME IInv, NEW p \in Pages, NEW from \in Stages \ {"content"}, NEW to \in Stages \ {"content"},
           Move(p, from, to)
    PROVE  /\ stage[p] = from /\ stage' = [stage EXCEPT ![p] = to]
           /\ stage \in [Pages -> Stages] /\ stage' \in [Pages -> Stages]
           /\ UNCHANGED <<left, active>> => Divided'
<1>1. /\ stage[p] = from /\ stage' = [stage EXCEPT ![p] = to]
      /\ stage \in [Pages -> Stages] /\ stage' \in [Pages -> Stages]
    BY DEF Move, IInv, Shape
<1>2. ASSUME UNCHANGED <<left, active>> PROVE Divided'
    BY <1>1, <1>2 DEF IInv, Divided
<1> QED
    BY <1>1, <1>2

\* Permits: a thread that gets one counts as one that will find a rasterizer.
LEMMA PermitKeeps ==
    ASSUME IInv, NEW p \in Pages, AcquirePermit(p) \/ ReleasePermit(p)
    PROVE  IInv'
<1> DEFINE from == IF AcquirePermit(p) THEN "acquire" ELSE "returned"
           to == IF AcquirePermit(p) THEN "permitted" ELSE "report"
<1>1. /\ UNCHANGED <<caller, left, active, pool, held, finished, progress>>
      /\ Move(p, from, to)
      /\ permits' = IF AcquirePermit(p) THEN permits - 1 ELSE permits + 1
      /\ AcquirePermit(p) => permits > 0
    BY DEF AcquirePermit, ReleasePermit, content
<1>2. /\ from \in Stages \ {"content", "render", "step", "done"}
      /\ to \in Stages \ {"content", "render", "step", "done"}
      /\ from \in {"permitted", "returned"} <=> ~AcquirePermit(p)
      /\ to \in {"permitted", "returned"} <=> AcquirePermit(p)
    BY DEF Stages
<1> HIDE DEF from, to
<1>3. /\ stage[p] = from /\ stage' = [stage EXCEPT ![p] = to]
      /\ stage \in [Pages -> Stages] /\ stage' \in [Pages -> Stages] /\ Divided'
    BY <1>1, <1>2, MoveLeaves
<1>4. /\ Cardinality(In({"done"})') = Cardinality(In({"done"}))
      /\ Cardinality(In({"step", "done"})') = Cardinality(In({"step", "done"}))
  <2>1. /\ from \notin {"done"} /\ to \notin {"done"}
        /\ from \notin {"step", "done"} /\ to \notin {"step", "done"}
    BY <1>2
  <2> QED
    BY <1>1, <1>3, <2>1, MoveCounts
<1>5. permits' \in Nat /\ Counted'
  <2>1. permits \in Nat /\ Len(pool) = permits + Cardinality(In({"permitted", "returned"}))
    BY DEF IInv, Shape, Counted
  <2>2. CASE AcquirePermit(p)
    <3>1. Cardinality(In({"permitted", "returned"})') = Cardinality(In({"permitted", "returned"})) + 1
      BY <1>1, <1>2, <1>3, <2>2, MoveCounts
    <3>2. Cardinality(In({"permitted", "returned"})) \in Nat
      BY <1>1, <1>3, MoveCounts
    <3> QED
      BY <1>1, <2>1, <2>2, <3>1, <3>2 DEF Counted
  <2>3. CASE ~AcquirePermit(p)
    <3>1. Cardinality(In({"permitted", "returned"})') = Cardinality(In({"permitted", "returned"})) - 1
      BY <1>1, <1>2, <1>3, <2>3, MoveCounts
    <3>2. Cardinality(In({"permitted", "returned"})) \in Nat
      BY <1>1, <1>3, MoveCounts
    <3> QED
      BY <1>1, <2>1, <2>3, <3>1, <3>2 DEF Counted
  <2> QED
    BY <2>2, <2>3
<1>6. Shape'
    BY <1>1, <1>3, <1>5 DEF IInv, Shape
<1>7. Owned'
  <2>1. \A q \in Pages : stage'[q] = "render" <=> stage[q] = "render"
    BY <1>2, <1>3
  <2> QED
    BY <1>1, <2>1 DEF IInv, Owned
<1>8. Ended'
    BY <1>1, <1>2, <1>3, <1>4 DEF IInv, Ended
<1>9. Reported'
    BY <1>1, <1>2, <1>3, <1>4 DEF IInv, Reported, progress
<1> QED
    BY <1>1, <1>3, <1>5, <1>6, <1>7, <1>8, <1>9, ProgressRests DEF IInv

\* The rasterizer goes from the pool to the page that renders with it.
LEMMA TakeKeeps ==
    ASSUME IInv, NEW p \in Pages, TakeRasterizer(p)
    PROVE  IInv'
<1> DEFINE r == Last(pool)
<1>1. /\ UNCHANGED <<caller, left, active, permits, finished, progress>>
      /\ Move(p, "permitted", "render") /\ pool # <<>>
      /\ held' = [held EXCEPT ![p] = {r}] /\ pool' = Front(pool)
    BY DEF TakeRasterizer, content
<1>2. /\ stage[p] = "permitted" /\ stage' = [stage EXCEPT ![p] = "render"]
      /\ stage \in [Pages -> Stages] /\ stage' \in [Pages -> Stages] /\ Divided'
    BY <1>1, MoveLeaves DEF Stages
<1>3. /\ Cardinality(In({"done"})') = Cardinality(In({"done"}))
      /\ Cardinality(In({"step", "done"})') = Cardinality(In({"step", "done"}))
      /\ Cardinality(In({"permitted", "returned"})') = Cardinality(In({"permitted", "returned"})) - 1
      /\ Cardinality(In({"permitted", "returned"})) \in Nat
    BY <1>1, <1>2, MoveCounts
<1>4. /\ r \in Rasterizers /\ r \in ToSet(pool)
      /\ pool' \in Seq(Rasterizers) /\ Len(pool') = Len(pool) - 1 /\ IsInjective(pool')
      /\ ToSet(pool') = ToSet(pool) \ {r}
    BY <1>1, TakenFromPool DEF IInv, Shape, Owned
<1> HIDE DEF r
<1>5. held \in [Pages -> SUBSET Rasterizers] /\ held[p] = {}
    BY <1>2 DEF IInv, Shape, Owned, NoRasterizer
<1>6. Shape'
    BY <1>1, <1>2, <1>4, <1>5 DEF IInv, Shape
<1>7. Owned'
  <2>1. \A q \in Pages : q # p => stage'[q] = stage[q] /\ held'[q] = held[q]
    BY <1>1, <1>2, <1>5
  <2>2. stage'[p] = "render" /\ held'[p] = {r}
    BY <1>1, <1>2, <1>5
  <2>3. \A q \in Pages : r \notin held[q]
    BY <1>4 DEF IInv, Owned
  <2>4. /\ \A q \in Pages : stage'[q] = "render" => \E x \in Rasterizers : held'[q] = {x}
        /\ \A q \in Pages : stage'[q] # "render" => held'[q] = NoRasterizer
    BY <1>4, <2>1, <2>2 DEF IInv, Owned
  <2>5. /\ \A q, x \in Pages : q # x => held'[q] \cap held'[x] = {}
        /\ \A q \in Pages : held'[q] \cap ToSet(pool') = {}
    BY <1>4, <2>1, <2>2, <2>3 DEF IInv, Owned
  <2>6. (UNION {held'[q] : q \in Pages}) \cup ToSet(pool') = Rasterizers
    <3>1. UNION {held'[q] : q \in Pages} = (UNION {held[q] : q \in Pages}) \cup {r}
      BY <1>5, <2>1, <2>2
    <3> QED
      BY <1>4, <3>1 DEF IInv, Owned
  <2> QED
    BY <1>4, <2>4, <2>5, <2>6 DEF Owned
<1>8. Counted'
  <2>1. Len(pool) = permits + Cardinality(In({"permitted", "returned"})) /\ permits \in Nat
    BY DEF IInv, Shape, Counted
  <2> QED
    BY <1>1, <1>3, <1>4, <2>1 DEF Counted
<1>9. Ended' /\ Reported'
    BY <1>1, <1>2, <1>3 DEF IInv, Ended, Reported, progress
<1> QED
    BY <1>1, <1>2, <1>6, <1>7, <1>8, <1>9, ProgressRests DEF IInv

\* And back.
LEMMA ReturnKeeps ==
    ASSUME IInv, NEW p \in Pages, ReturnRasterizer(p)
    PROVE  IInv'
<1>1. /\ UNCHANGED <<caller, left, active, permits, finished, progress>>
      /\ Move(p, "render", "returned")
      /\ held' = [held EXCEPT ![p] = NoRasterizer] /\ pool' = pool \o SetToSeq(held[p])
    BY DEF ReturnRasterizer, PutBack, content
<1>2. /\ stage[p] = "render" /\ stage' = [stage EXCEPT ![p] = "returned"]
      /\ stage \in [Pages -> Stages] /\ stage' \in [Pages -> Stages] /\ Divided'
    BY <1>1, MoveLeaves DEF Stages
<1>3. /\ Cardinality(In({"done"})') = Cardinality(In({"done"}))
      /\ Cardinality(In({"step", "done"})') = Cardinality(In({"step", "done"}))
      /\ Cardinality(In({"permitted", "returned"})') = Cardinality(In({"permitted", "returned"})) + 1
      /\ Cardinality(In({"permitted", "returned"})) \in Nat
  <2>1. Cardinality(In({"permitted", "returned"})') = Cardinality(In({"permitted", "returned"})) + 1
    <3>1. "render" \notin {"permitted", "returned"} /\ "returned" \in {"permitted", "returned"}
      OBVIOUS
    <3> QED
      BY <1>1, <1>2, <3>1, MoveCounts
  <2>2. Cardinality(In({"done"})') = Cardinality(In({"done"}))
    BY <1>1, <1>2, MoveCounts
  <2>3. Cardinality(In({"step", "done"})') = Cardinality(In({"step", "done"}))
    BY <1>1, <1>2, MoveCounts
  <2>4. Cardinality(In({"permitted", "returned"})) \in Nat
    BY <1>1, <1>2, MoveCounts
  <2> QED
    BY <2>1, <2>2, <2>3, <2>4
<1>4. PICK r \in Rasterizers : held[p] = {r}
    BY <1>2 DEF IInv, Owned
<1>5. r \notin ToSet(pool) /\ held \in [Pages -> SUBSET Rasterizers]
    BY <1>4 DEF IInv, Shape, Owned
<1>6. /\ pool' \in Seq(Rasterizers) /\ Len(pool') = Len(pool) + 1 /\ IsInjective(pool')
      /\ ToSet(pool') = ToSet(pool) \cup {r}
    BY <1>1, <1>4, <1>5, PutIntoPool DEF IInv, Shape, Owned
<1>7. Shape'
    BY <1>1, <1>2, <1>5, <1>6 DEF IInv, Shape, NoRasterizer
<1>8. Owned'
  <2>1. \A q \in Pages : q # p => stage'[q] = stage[q] /\ held'[q] = held[q] /\ r \notin held[q]
    <3>1. \A q \in Pages : q # p => r \notin held[q]
      BY <1>4 DEF IInv, Owned
    <3> QED
      BY <1>1, <1>2, <1>5, <3>1
  <2>2. stage'[p] = "returned" /\ held'[p] = NoRasterizer
    BY <1>1, <1>2, <1>5
  <2>3. /\ \A q \in Pages : stage'[q] = "render" => \E x \in Rasterizers : held'[q] = {x}
        /\ \A q \in Pages : stage'[q] # "render" => held'[q] = NoRasterizer
    BY <2>1, <2>2 DEF IInv, Owned
  <2>4. /\ \A q, x \in Pages : q # x => held'[q] \cap held'[x] = {}
        /\ \A q \in Pages : held'[q] \cap ToSet(pool') = {}
    BY <1>6, <2>1, <2>2 DEF IInv, Owned, NoRasterizer
  <2>5. (UNION {held'[q] : q \in Pages}) \cup ToSet(pool') = Rasterizers
    <3>1. (UNION {held'[q] : q \in Pages}) \cup {r} = UNION {held[q] : q \in Pages}
      BY <1>4, <2>1, <2>2 DEF NoRasterizer
    <3> QED
      BY <1>6, <3>1 DEF IInv, Owned
  <2> QED
    BY <1>6, <2>3, <2>4, <2>5 DEF Owned
<1>9. Counted'
  <2>1. Len(pool) = permits + Cardinality(In({"permitted", "returned"})) /\ permits \in Nat
    BY DEF IInv, Shape, Counted
  <2> QED
    BY <1>1, <1>3, <1>6, <2>1 DEF Counted
<1>10. Ended' /\ Reported'
    BY <1>1, <1>2, <1>3 DEF IInv, Ended, Reported, progress
<1> QED
    BY <1>1, <1>2, <1>7, <1>8, <1>9, <1>10, ProgressRests DEF IInv

\* A page reports once, and the progress knows of as many steps as pages did.
LEMMA ReportKeeps ==
    ASSUME IInv, NEW p \in Pages, Report(p) \/ Step(p)
    PROVE  IInv'
<1>1. UNCHANGED <<caller, left, active, pool, permits, held, finished>>
    BY DEF Report, Step, content
<1>2. PP!IInv'
    BY ProgressStep DEF Report, Step, IInv
<1>3. pc \in [Pages -> {"idle", "load", "exchange", "emit"}]
    BY DEF IInv, PP!IInv, PP!TypeOK
<1>4. \A q \in Pages : q # p => pc'[q] = pc[q]
    BY <1>3
    DEF Report, Step, P!FetchAdd, P!Continue, P!Load, P!Skip, P!Exchange, P!ExchangeFails, P!Emit, P!Goto
<1>5. CASE Report(p)
  <2>1. Move(p, "report", "step") /\ currentStep' = currentStep + 1
    BY <1>5 DEF Report, P!FetchAdd
  <2>2. /\ stage[p] = "report" /\ stage' = [stage EXCEPT ![p] = "step"]
        /\ stage \in [Pages -> Stages] /\ stage' \in [Pages -> Stages] /\ Divided'
    BY <1>1, <2>1, MoveLeaves DEF Stages
  <2>3. /\ Cardinality(In({"permitted", "returned"})') = Cardinality(In({"permitted", "returned"}))
        /\ Cardinality(In({"done"})') = Cardinality(In({"done"}))
    BY <2>1, <2>2, MoveCounts
  <2>4. Cardinality(In({"step", "done"})') = Cardinality(In({"step", "done"})) + 1
    BY <2>1, <2>2, MoveCounts
  <2>5. Shape' /\ Counted' /\ Ended'
    BY <1>1, <2>2, <2>3 DEF IInv, Shape, Counted, Ended
  <2>6. Owned'
    <3>1. \A q \in Pages : stage'[q] = "render" <=> stage[q] = "render"
      BY <2>2
    <3> QED
      BY <1>1, <3>1 DEF IInv, Owned
  <2>7. Reported'
    BY <1>4, <2>1, <2>2, <2>4 DEF IInv, Reported
  <2> QED
    BY <1>2, <2>2, <2>5, <2>6, <2>7 DEF IInv
<1>6. CASE Step(p)
  <2>1. stage[p] = "step" /\ stage' = stage /\ currentStep' = currentStep
    BY <1>6
    DEF Step, P!Continue, P!Load, P!Skip, P!Exchange, P!ExchangeFails, P!Emit
  <2>2. Shape' /\ Divided' /\ Owned' /\ Counted' /\ Ended'
    BY <1>1, <2>1 DEF IInv, Shape, Divided, Owned, Counted, Ended, In
  <2>3. Reported'
    BY <1>4, <2>1 DEF IInv, Reported, In
  <2> QED
    BY <1>2, <2>2, <2>3 DEF IInv
<1> QED
    BY <1>5, <1>6

LEMMA EndKeeps ==
    ASSUME IInv, NEW p \in Pages, End(p)
    PROVE  IInv'
<1>1. /\ UNCHANGED <<caller, left, active, pool, permits, held, progress>>
      /\ Move(p, "step", "done") /\ finished' = finished + 1 /\ pc[p] = "idle"
    BY DEF End, content
<1>2. /\ stage[p] = "step" /\ stage' = [stage EXCEPT ![p] = "done"]
      /\ stage \in [Pages -> Stages] /\ stage' \in [Pages -> Stages] /\ Divided'
    BY <1>1, MoveLeaves DEF Stages
<1>3. /\ Cardinality(In({"permitted", "returned"})') = Cardinality(In({"permitted", "returned"}))
      /\ Cardinality(In({"step", "done"})') = Cardinality(In({"step", "done"}))
    BY <1>1, <1>2, MoveCounts
<1>4. Cardinality(In({"done"})') = Cardinality(In({"done"})) + 1
    BY <1>1, <1>2, MoveCounts
<1>5. Shape' /\ Counted'
    BY <1>1, <1>2, <1>3 DEF IInv, Shape, Counted
<1>6. Owned'
  <2>1. \A q \in Pages : stage'[q] = "render" <=> stage[q] = "render"
    BY <1>2
  <2> QED
    BY <1>1, <2>1 DEF IInv, Owned
<1>7. Ended'
  <2>1. caller # "returned"
    BY <1>2 DEF IInv, Ended
  <2> QED
    BY <1>1, <1>4, <2>1 DEF IInv, Ended
<1>8. Reported'
    BY <1>1, <1>2, <1>3 DEF IInv, Reported, progress
<1> QED
    BY <1>1, <1>2, <1>5, <1>6, <1>7, <1>8, ProgressRests DEF IInv

-----------------------------------------------------------------------------
(* The caller. *)

LEMMA CallerKeeps ==
    ASSUME IInv, Start \/ Return
    PROVE  IInv'
<1>1. UNCHANGED <<stage, left, active, pool, permits, held, progress>>
    BY DEF Start, Return, content
<1>2. Shape' /\ Divided' /\ Owned' /\ Counted' /\ Reported'
    BY <1>1 DEF IInv, Shape, Divided, Owned, Counted, Reported, In, progress, Start, Return
<1>3. In({"done"})' = In({"done"})
    BY <1>1 DEF In
<1>4. CASE Start
    BY <1>1, <1>2, <1>3, <1>4, ProgressRests DEF IInv, Ended, Start
<1>5. CASE Return
  <2>1. /\ caller = "waiting" /\ caller' = "returned" /\ finished >= Cardinality(Pages)
        /\ finished' = finished - Cardinality(Pages)
    BY <1>5 DEF Return, Awaits
  <2>2. finished = Cardinality(In({"done"})) /\ finished \in Nat
    BY <2>1 DEF IInv, Ended
  <2>3. In({"done"}) \in SUBSET Pages /\ Cardinality(In({"done"})) <= Cardinality(Pages)
    BY PagesAssumption, FS_Subset DEF In
  <2>4. Cardinality(Pages) \in Nat
    BY PagesCounted
  <2>5. In({"done"}) = Pages
    BY <2>1, <2>2, <2>3, <2>4, PagesAssumption, FS_Subset
  <2>6. Ended'
    BY <1>1, <1>3, <2>1, <2>2, <2>4, <2>5 DEF Ended, In
  <2> QED
    BY <1>1, <1>2, <2>6, ProgressRests DEF IInv
<1> QED
    BY <1>4, <1>5

-----------------------------------------------------------------------------
(* Theorems. *)

LEMMA InitHolds == Init => IInv
<1> SUFFICES ASSUME Init PROVE IInv
    OBVIOUS
<1> USE PoolAssumption
<1>1. /\ caller = "idle" /\ stage = [p \in Pages |-> "queued"] /\ finished = 0
      /\ left = [p \in Pages |-> 0] /\ active = [p \in Pages |-> 0]
      /\ pool = SetToSeq(Rasterizers) /\ permits = Cardinality(Rasterizers)
      /\ held = [p \in Pages |-> NoRasterizer] /\ P!Init
    BY DEF Init, InitialPermits
<1>2. /\ pool \in Seq(Rasterizers) /\ Len(pool) = Cardinality(Rasterizers)
      /\ IsInjective(pool) /\ ToSet(pool) = Rasterizers /\ Cardinality(Rasterizers) \in Nat
    BY <1>1, Enumerated, FS_CardinalityType
<1>3. Shape
    BY <1>1, <1>2 DEF Shape, Stages, NoRasterizer
<1>4. Divided
    BY <1>1 DEF Divided
<1>5. Owned
    BY <1>1, <1>2 DEF Owned, NoRasterizer
<1>6. In({"permitted", "returned"}) = {} /\ In({"done"}) = {} /\ In({"step", "done"}) = {}
    BY <1>1 DEF In
<1>7. Counted /\ Ended
  <2>1. Cardinality({}) = 0
    BY FS_EmptySet
  <2>2. /\ Cardinality(In({"permitted", "returned"})) = 0
        /\ Cardinality(In({"done"})) = 0
    BY <1>6, <2>1, Zenon
  <2>3. Counted
    BY <1>1, <1>2, <2>2 DEF Counted
  <2>4. Ended
    BY <1>1, <2>2 DEF Ended
  <2> QED
    BY <2>3, <2>4
<1>8. Reported
    BY <1>1, <1>6, FS_EmptySet DEF Reported, P!Init
<1> QED
    BY <1>1, <1>3, <1>4, <1>5, <1>7, <1>8, ProgressInit DEF IInv

LEMMA StepHolds == IInv /\ [Next]_vars => IInv'
<1> SUFFICES ASSUME IInv, [Next]_vars PROVE IInv'
    OBVIOUS
<1>1. CASE Start \/ Return
    BY <1>1, CallerKeeps
<1>2. ASSUME NEW p \in Pages, PageStep(p) PROVE IInv'
    BY <1>2, ContentKeeps, PermitKeeps, TakeKeeps, ReturnKeeps, ReportKeeps, EndKeeps DEF PageStep
<1>3. CASE UNCHANGED vars
  <2>1. UNCHANGED <<caller, stage, left, active, pool, permits, held, finished, progress>>
    BY <1>3 DEF vars, content
  <2>2. Shape' /\ Divided' /\ Owned' /\ Counted' /\ Ended' /\ Reported'
    BY <2>1 DEF IInv, Shape, Divided, Owned, Counted, Ended, Reported, In, progress
  <2> QED
    BY <2>1, <2>2, ProgressRests DEF IInv
<1> QED
    BY <1>1, <1>2, <1>3 DEF Next

\* The invariant holds in every reachable state.
THEOREM Invariance == Spec => []IInv
BY InitHolds, StepHolds, PTL DEF Spec

\* A thread that obtained a permit finds a rasterizer.
THEOREM PermitsAreCovered == Spec => []PermitCovered
<1>1. IInv => PermitCovered
  <2> SUFFICES ASSUME IInv, NEW p \in Pages, stage[p] = "permitted" PROVE pool # <<>>
    BY DEF PermitCovered
  <2>1. In({"permitted", "returned"}) # {} /\ IsFiniteSet(In({"permitted", "returned"}))
    BY PagesCounted DEF In
  <2>2. Cardinality(In({"permitted", "returned"})) \in Nat \ {0}
    BY <2>1, FS_CardinalityType, FS_EmptySet
  <2>3. Len(pool) # 0
    BY <2>2 DEF IInv, Counted, Shape
  <2> QED
    BY <2>3, EmptySeq
<1> QED
    BY <1>1, Invariance, PTL

\* Rasterizers as elements of the pool are counted by its length.
LEMMA PoolCounted ==
    ASSUME IInv
    PROVE  /\ Cardinality(ToSet(pool)) = Len(pool) /\ Len(pool) \in 0 .. Cardinality(Rasterizers)
           /\ Len(pool) = Cardinality(Rasterizers) <=> ToSet(pool) = Rasterizers
<1>1. Len(pool) \in Nat /\ DOMAIN pool = 1 .. Len(pool) /\ IsInjective(pool)
    BY LenProperties DEF IInv, Shape, Owned
<1>2. pool \in [1 .. Len(pool) -> ToSet(pool)]
    BY LenProperties DEF IInv, Shape, ToSet
<1>3. \A r \in ToSet(pool) : \E i \in 1 .. Len(pool) : pool[i] = r
    BY <1>1 DEF ToSet
<1>4. ExistsBijection(1 .. Len(pool), ToSet(pool))
    BY <1>1, <1>2, <1>3 DEF ExistsBijection, Bijection, Injection, Surjection
<1>5. Cardinality(ToSet(pool)) = Len(pool)
    BY <1>1, <1>4, FS_CountingElements
<1>6. ToSet(pool) \in SUBSET Rasterizers
    BY DEF IInv, Owned
<1>7. Cardinality(ToSet(pool)) <= Cardinality(Rasterizers) /\ Cardinality(Rasterizers) \in Nat
    BY <1>6, PoolAssumption, FS_Subset, FS_CardinalityType
<1>8. Cardinality(Rasterizers) = Cardinality(ToSet(pool)) => Rasterizers = ToSet(pool)
    BY <1>6, PoolAssumption, FS_Subset
<1> QED
    BY <1>1, <1>5, <1>7, <1>8

LEMMA TypesHold == IInv => TypeOK
<1> SUFFICES ASSUME IInv PROVE TypeOK
    OBVIOUS
<1>1. pool \in BoundedSeq(Rasterizers, Cardinality(Rasterizers))
  <2>1. pool \in [1 .. Len(pool) -> Rasterizers] /\ Len(pool) \in 0 .. Cardinality(Rasterizers)
    BY PoolCounted, LenProperties DEF IInv, Shape
  <2> QED
    BY <2>1 DEF BoundedSeq, SeqOf
<1>2. permits \in 0 .. Cardinality(Rasterizers)
  <2>1. Cardinality(In({"permitted", "returned"})) \in 0 .. Cardinality(Pages)
    BY PagesCounted DEF In
  <2>2. Cardinality(Pages) \in Nat /\ Cardinality(Rasterizers) \in Nat
    BY PagesCounted, PoolAssumption, FS_CardinalityType
  <2> QED
    BY <2>1, <2>2, PoolCounted DEF IInv, Shape, Counted
<1>3. finished \in 0 .. Cardinality(Pages)
  <2>1. Cardinality(In({"done"})) \in 0 .. Cardinality(Pages) /\ Cardinality(Pages) \in Nat
    BY PagesCounted DEF In
  <2> QED
    BY <2>1 DEF IInv, Ended
<1>4. P!TypeOK
    BY DEF IInv, PP!IInv, PP!TypeOK, P!TypeOK, PP!Percentages, P!Percentages
<1> QED
    BY <1>1, <1>2, <1>3, <1>4 DEF IInv, Shape, Divided, TypeOK

\* No two threads use a rasterizer together, and none gets lost.
THEOREM RasterizersAreExclusive == Spec => []RasterizerExclusive
<1>1. IInv => RasterizerExclusive
    BY TypesHold, PoolCounted DEF IInv, Owned, RasterizerExclusive
<1> QED
    BY <1>1, Invariance, PTL

\* When render() returns every runnable has ended, the pool is full and the
\* last percentage was emitted.
THEOREM NothingLeftBehind == Spec => []ReturnsWhenDone
<1>1. IInv => ReturnsWhenDone
  <2> SUFFICES ASSUME IInv, caller = "returned"
               PROVE  /\ \A p \in Pages : stage[p] = "done"
                      /\ Len(pool) = Cardinality(Rasterizers) /\ permits = Len(pool)
                      /\ percentage = Hundred /\ emitted[Hundred] = 1
    BY DEF ReturnsWhenDone
  <2>1. \A p \in Pages : stage[p] = "done"
    BY DEF IInv, Ended
  <2>2. In({"permitted", "returned"}) = {} /\ In({"step", "done"}) = Pages
    BY <2>1 DEF In
  <2>3. permits = Len(pool)
    <3>1. Cardinality({}) = 0
      BY FS_EmptySet
    <3>2. Cardinality(In({"permitted", "returned"})) = 0
      BY <2>2, <3>1, Zenon
    <3> QED
      BY <3>2 DEF IInv, Shape, Counted
  <2>4. ToSet(pool) = Rasterizers
    <3>1. UNION {held[p] : p \in Pages} = {}
      BY <2>1 DEF IInv, Owned, NoRasterizer
    <3> QED
      BY <3>1 DEF IInv, Owned
  <2>5. currentStep = Cardinality(Pages) /\ \A p \in Pages : pc[p] = "idle"
    BY <2>1, <2>2 DEF IInv, Reported
  <2>6. percentage = PP!Percent(Cardinality(Pages))
    BY <2>5 DEF IInv, PP!IInv, PP!UnderWay
  <2>7. PP!Percent(Cardinality(Pages)) = Hundred
    BY ProgressAssumptions, PP!ExactDivision DEF PP!Percent
  <2>8. emitted[Hundred] = 1
    BY <2>5, <2>6, <2>7, ProgressAssumptions DEF IInv, PP!IInv, PP!Announced
  <2> QED
    BY <2>1, <2>3, <2>4, <2>6, <2>7, <2>8, PoolCounted
<1> QED
    BY <1>1, Invariance, PTL
=============================================================================

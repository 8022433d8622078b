----------------------------- MODULE Optimizer -----------------------------
(***************************************************************************)
(* PDFOptimizer (pdfoptimizer.h/.cpp): stages of passes over the objects   *)
(* of a document.  A pass of a stage is repeated while it reports a change.*)
(*                                                                         *)
(* Each operation reads m_storage and writes a copy of it, entry by entry  *)
(* (in parallel, one entry per task), and stores the copy at its end: it   *)
(* is one step.  Documents are read from a file, which is decoded (there   *)
(* is no encryption here); recompression is modelled by what it does, a    *)
(* "loose" content becomes a "tight" one of the same data.                 *)
(***************************************************************************)
EXTENDS ObjectStorage, Sequences

CONSTANTS
    Documents,      \* storages: [objects, trailer]; see Stored
    FlagSets,       \* sets of operations the user selected
    MaxGeneration   \* PDF_MAX_OBJECT_GENERATION

Operations == {"Dereference", "RemoveNull", "RemoveUnused", "Merge", "Shrink", "Recompress"}

ASSUME FlagsAssumption == FlagSets \subseteq SUBSET Operations
ASSUME GenerationAssumption == MaxGeneration \in Nat

\* What a parser makes of the text of an object: null, a simple value or a
\* dictionary of null, simple values and references.
Object(o) ==
    /\ ~isReference(o)
    /\ isDictionary(o) =>
           /\ o = Dictionary(Type(o), Content(o), Entries(o))
           /\ Entries(o) = [k \in DOMAIN Entries(o) |-> Entries(o)[k]]
           /\ \A k \in DOMAIN Entries(o) : ~isDictionary(Entries(o)[k])
    /\ \A r \in getDirectReferences(o) : r = Reference(r[2], r[3]) /\ r[2] \in Nat /\ r[3] \in Nat

Entry(x) == x = [object |-> x.object, generation |-> x.generation]

\* The storage of a file that was read: an array of entries.
Stored(d) ==
    /\ DOMAIN d.objects = 0 .. Count(d.objects) - 1
    /\ IsFiniteSet(DOMAIN d.objects)
    /\ \A i \in DOMAIN d.objects :
           /\ Entry(d.objects[i]) /\ d.objects[i].generation \in 0 .. MaxGeneration
           /\ Object(d.objects[i].object)
    /\ isDictionary(d.trailer) /\ Object(d.trailer)

ASSUME DocumentsAssumption == \A d \in Documents : Stored(d)

VARIABLES
    source,     \* the document of setDocument
    flags,      \* m_flags
    objects,    \* m_storage: its objects,
    trailer,    \* its trailer dictionary
    size,       \* and the entry /Size of the trailer
    stage,      \* index of the stage
    steps,      \* operations of the stage still due in this pass
    pass        \* has an operation of this pass asked for another pass?

storage == <<objects, trailer, size>>
vars == <<source, flags, storage, stage, steps, pass>>

\* The stages; the operations of a pass in the order they are tested for.
Stages == <<<<"Dereference">>, <<"RemoveNull">>, <<"RemoveUnused", "Merge">>,
            <<"Shrink">>, <<"Recompress">>>>
LastStage == Len(Stages)
Selected(op) == IF op \in flags THEN <<op>> ELSE <<>>
Due(s) ==
    LET tested == Stages[s]
    IN  IF Len(tested) = 1 THEN Selected(tested[1]) ELSE Selected(tested[1]) \o Selected(tested[2])

Finished == stage > LastStage

-----------------------------------------------------------------------------
(* The operations. *)

Indices == DOMAIN objects
Occupied(i) == objects[i].object # Null

\* An operation is done; changed: its result, "repeat the pass".
Perform(op, changed) ==
    /\ ~Finished /\ steps # <<>> /\ Head(steps) = op
    /\ steps' = Tail(steps)
    /\ pass' = (pass \/ changed)
    /\ UNCHANGED <<source, flags, stage>>

\* PDFRemoveSimpleObjectsVisitor
Embedded(x) ==
    IF isReference(x) /\ ~isDictionary(getObject(objects, x)) THEN getObject(objects, x) ELSE x

performDereferenceSimpleObjects ==
    /\ Perform("Dereference", FALSE)
    /\ objects' = UpdateAll(objects, LAMBDA o : Updated(o, Embedded))
    /\ UNCHANGED <<trailer, size>>

\* PDFRemoveNullDictionaryEntriesVisitor
WithoutNulls(o) ==
    IF isDictionary(o)
    THEN LET kept == {k \in DOMAIN Entries(o) : Entries(o)[k] # Null}
         IN  Dictionary(Type(o), Content(o), [k \in kept |-> Entries(o)[k]])
    ELSE o

performRemoveNullObjects ==
    /\ Perform("RemoveNull", FALSE)
    /\ objects' = UpdateAll(objects, WithoutNulls)
    /\ UNCHANGED <<trailer, size>>

UnusedOrFree ==                                               \* mutant
    LET used == getReferences(trailer, objects)
    IN  {i \in Indices : ReferenceTo(objects, i) \notin used}
Unused ==
    LET used == getReferences(trailer, objects)
    IN  {i \in Indices : Occupied(i) /\ ReferenceTo(objects, i) \notin used}

performRemoveUnusedObjects ==
    /\ LET unused == Unused
       IN  /\ Perform("RemoveUnused", unused # {})
           /\ objects' = [i \in Indices |-> IF i \in unused THEN [objects[i] EXCEPT !.object = Null]
                                                           ELSE objects[i]]
    /\ UNCHANGED <<trailer, size>>

\* Pages are never merged.
Mergeable(o) == ~(isDictionary(o) /\ Type(o) = "Page")

\* The first object of the same serialization stands for the others.
Identical(i) ==
    {j \in Indices : objects[j].object = objects[i].object /\ Occupied(j) /\ Mergeable(objects[j].object)}
First(i) == CHOOSE j \in Identical(i) : \A k \in Identical(i) : j <= k
Duplicates == {i \in Indices : i \in Identical(i) /\ First(i) # i}

MergeMap ==
    [r \in {ReferenceTo(objects, i) : i \in Duplicates} |-> ReferenceTo(objects, First(r[2]))]

MergeOnce == FALSE                                            \* mutant
MergeAgain == Duplicates # {}

performMergeIdenticalObjects ==
    /\ Perform("Merge", MergeAgain)
    /\ LET map == MergeMap
       IN  /\ objects' = UpdateAll(objects, LAMBDA o : replaceReferences(o, map))
           /\ trailer' = replaceReferences(trailer, map)
    /\ UNCHANGED size

\* Entries that can be used, and used entries; entry 0 is neither.
FreeEntries == {i \in Indices \ {0} : ~Occupied(i) /\ objects[i].generation < MaxGeneration}
OccupiedEntries == {i \in Indices \ {0} : Occupied(i)}

\* Free entries in ascending order receive objects in descending order, as
\* long as the object comes nearer to the start: moves <<from, to>>.
Moves ==
    LET free == FreeEntries  occupied == OccupiedEntries
    IN  {m \in occupied \X free :
            /\ m[2] < m[1]
            /\ Cardinality({i \in occupied : i > m[1]}) = Cardinality({i \in free : i < m[2]})}

SameGeneration(i) == objects[i].generation                    \* mutant
NextGeneration(i) == objects[i].generation + 1

Moved(moves) ==
    [i \in Indices |->
        IF \E m \in moves : i = m[2]
        THEN [object |-> objects[(CHOOSE m \in moves : i = m[2])[1]].object,
              generation |-> NextGeneration(i)]
        ELSE IF \E m \in moves : i = m[1]
        THEN [objects[i] EXCEPT !.object = Null]
        ELSE objects[i]]

ShrinkMap(moves) ==
    [r \in {ReferenceTo(objects, m[1]) : m \in moves} |->
        LET to == (CHOOSE m \in moves : r[2] = m[1])[2]
        IN  Reference(to, NextGeneration(to))]

\* The array ends with its last used entry, unless there is none but entry 0.
Trimmed(entries) ==
    LET used == {i \in DOMAIN entries \ {0} : entries[i].object # Null}
    IN  IF used = {} THEN entries
        ELSE [i \in {i \in DOMAIN entries : \E j \in used : i <= j} |-> entries[i]]

performShrinkObjectStorage ==
    /\ Perform("Shrink", FALSE)
    /\ LET moves == Moves
           map == ShrinkMap(moves)
       IN  /\ objects' = UpdateAll(Trimmed(Moved(moves)), LAMBDA o : replaceReferences(o, map))
           /\ trailer' = replaceReferences(trailer, map)
           /\ size' = IF moves = {} THEN size ELSE Count(objects')

Recompressed(o) ==
    IF isDictionary(o) /\ Content(o) = "loose" THEN Dictionary(Type(o), "tight", Entries(o)) ELSE o

performRecompressFlateStreams ==
    /\ Perform("Recompress", FALSE)
    /\ objects' = UpdateAll(objects, Recompressed)
    /\ UNCHANGED <<trailer, size>>

-----------------------------------------------------------------------------
(* optimize() *)

\* A pass is over: the stage has another one, or the next stage begins.
NextPass ==
    /\ ~Finished /\ steps = <<>>
    /\ pass' = FALSE
    /\ IF pass THEN stage' = stage /\ steps' = Due(stage)
               ELSE /\ stage' = stage + 1
                    /\ steps' = IF stage = LastStage THEN <<>> ELSE Due(stage + 1)
    /\ UNCHANGED <<source, flags, storage>>

Init ==
    /\ source \in Documents /\ flags \in FlagSets
    /\ objects = source.objects /\ trailer = source.trailer /\ size = Count(source.objects)
    /\ stage = 1 /\ steps = Due(1) /\ pass = FALSE

Next ==
    \/ performDereferenceSimpleObjects \/ performRemoveNullObjects
    \/ performRemoveUnusedObjects \/ performMergeIdenticalObjects
    \/ performShrinkObjectStorage \/ performRecompressFlateStreams
    \/ NextPass

Spec == Init /\ [][Next]_vars

-----------------------------------------------------------------------------
(* Properties. *)

Decoded(content) == IF content = "tight" THEN "loose" ELSE content
Pages == {r \in getReferences(trailer, objects) :
             LET o == getObject(objects, r) IN isDictionary(o) /\ Type(o) = "Page"}
SourcePages == {r \in getReferences(source.trailer, source.objects) :
             LET o == getObject(source.objects, r) IN isDictionary(o) /\ Type(o) = "Page"}

\* Type invariant of m_storage and of the loop of optimize(): generations
\* stay storable, and the trailer's /Size covers every object.
TypeOK ==
    /\ \A i \in Indices : objects[i].generation \in 0 .. MaxGeneration
    /\ Indices = 0 .. Count(objects) - 1 /\ Count(objects) <= size
    /\ stage \in 1 .. LastStage + 1 /\ pass \in BOOLEAN
    /\ ~Finished => steps \in {Due(stage), Selected(Stages[stage][Len(Stages[stage])]), <<>>}

\* No reference of the source is of a later generation than the entry of its
\* number.  The reader gives free entries generation 0 whatever their rows say,
\* so a file in which an object was deleted twice can have such references.
NoneLater ==
    \A x \in {source.trailer} \cup {source.objects[i].object : i \in DOMAIN source.objects} :
        isDictionary(x) => Later(x, source.objects) = {}

\* Whatever sequence of operations was selected, after each of them the
\* document says what it said: every path from the trailer leads to the same
\* values; a reference that was null (to a free entry, to another generation)
\* stays null although its number is given to another object, unless it is a
\* later one.  No page is lost, though pages may look the same, and none is
\* added without such a reference.
MeaningPreserved ==
    /\ SameMeaning(source, [objects |-> objects, trailer |-> trailer], Decoded)
    /\ Cardinality(SourcePages) <= Cardinality(Pages)
    /\ NoneLater => Cardinality(Pages) = Cardinality(SourcePages)

\* The last pass leaves nothing unreferenced, although merging orphans objects.
NothingUnused ==
    Finished /\ "RemoveUnused" \in flags => Unused = {}

\* Passes are repeated until no two objects are the same; merging objects
\* makes those that refer to them the same.  A later reference can become the
\* same as another one when objects are moved.
NoDuplicates ==
    Finished /\ {"RemoveUnused", "Merge"} \subseteq flags /\ "Recompress" \notin flags
    /\ ("Shrink" \in flags => NoneLater)
        => Duplicates = {}

\* No occupied entry is left behind a free entry that could hold it.
Squeezed ==
    Finished /\ "Shrink" \in flags =>
        \A i, j \in Indices \ {0} : Occupied(j) /\ i < j =>
            Occupied(i) \/ objects[i].generation = MaxGeneration

\* What the user selected is delivered when the passes are over.
Delivered == TypeOK /\ NothingUnused /\ NoDuplicates /\ Squeezed

\* pdfoptimizer.h:33 "Optimization is configurable, user can specify, which
\* optimization steps should be done and which not", and optimize() ends.
Terminates == <>Finished

\* It does unless identical objects are merged and left in the storage.
TerminatesIfUnusedRemoved == ("Merge" \in flags => "RemoveUnused" \in flags) => <>Finished
=============================================================================

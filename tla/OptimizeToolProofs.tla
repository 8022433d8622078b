------------------------- MODULE OptimizeToolProofs -------------------------
(***************************************************************************)
(* For all documents, selections of operations and failures: what is       *)
(* written for a storage is read back; the optimizer keeps the meaning of  *)
(* the document, but for references of a generation that their entry has   *)
(* not reached, which shrinking can bring to life; the tool leaves a file  *)
(* that can be read and says the same; and the passes end with what was    *)
(* selected: nothing unused, no duplicates (if the storage is not shrunk,  *)
(* or has no such references), no gaps.                                    *)
(*                                                                         *)
(* SameMeaning walks both documents as many rounds as they have objects.   *)
(* The proofs replace the walk by a simulation, a function M from the live *)
(* references of one document to those of the other: an operation gives    *)
(* one from the storage before it to the storage after it, and simulations *)
(* compose.                                                                *)
(***************************************************************************)
EXTENDS OptimizeTool, DataInduction

\* A row is written for every entry.
LEMMA RowWritten ==
    ASSUME NEW d, NEW i \in DOMAIN d.objects
    PROVE  /\ DOMAIN Written(d).rows = DOMAIN d.objects
           /\ Written(d).rows[i] = RowOf(d.objects, i)
BY DEF Written

\* A row is occupied just if the entry has an object,
LEMMA OccupiedRow ==
    ASSUME NEW d, NEW i \in DOMAIN d.objects
    PROVE  Written(d).rows[i].occupied <=> d.objects[i].object # Null
<1>1. RowOf(d.objects, i).occupied = (d.objects[i].object # Null)
  BY DEF RowOf
<1> QED
  BY <1>1, RowWritten, Zenon

\* has the generation of the entry,
LEMMA GenerationWritten ==
    ASSUME NEW d, NEW i \in DOMAIN d.objects, i # 0
    PROVE  Written(d).rows[i].generation = d.objects[i].generation
<1>1. RowOf(d.objects, i).generation = d.objects[i].generation
  BY DEF RowOf
<1> QED
  BY <1>1, RowWritten

\* and the object of an entry is written under its header.
LEMMA BodyWritten ==
    ASSUME NEW d, NEW i \in DOMAIN d.objects, d.objects[i].object # Null
    PROVE  /\ Written(d).bodies[i].header = Header(d.objects, i)
           /\ Written(d).bodies[i].object = d.objects[i].object
BY DEF Written

\* Every occupied row of a written file leads to the object of its number and
\* generation, and nothing refers to tables the file does not have.
THEOREM WrittenIsReadable ==
    ASSUME NEW d, d.objects[0].object = Null
    PROVE  Readable(Written(d))
<1>1. ASSUME NEW i \in OccupiedRows(Written(d))
      PROVE  Written(d).bodies[i].header = Reference(i, Written(d).rows[i].generation)
  <2>1. i \in DOMAIN d.objects /\ Written(d).rows[i].occupied
    BY DEF OccupiedRows, Written
  <2>2. d.objects[i].object # Null
    BY <2>1, OccupiedRow
  <2>3. i # 0
    BY <2>2
  <2> QED
    BY <2>1, <2>2, <2>3, BodyWritten, GenerationWritten DEF Header, ReferenceTo
<1>2. "Prev" \notin DOMAIN Entries(Written(d).trailer)
  BY DEF Written, WrittenTrailer, Restricted, Dictionary, Entries, WrittenKeys
<1> QED
  BY <1>1, <1>2 DEF Readable

\* What the reader finds for any reference is what the storage that was written
\* had for it: the reference of an object leads to it, one to a free entry, of
\* another generation or beyond the end leads to nothing.  Only the
\* generations of free entries are not kept.
THEOREM ReferencesKept ==
    ASSUME NEW d, d.objects[0].object = Null, NEW number, NEW generation
    PROVE  LET r == Reference(number, generation)
           IN  getObject(ReadBack(Written(d)).objects, r) = getObject(d.objects, r)
<1> DEFINE r == Reference(number, generation)
           read == ReadBack(Written(d)).objects
<1>1. DOMAIN read = DOMAIN d.objects
  BY DEF ReadBack, Written
<1>2. r[2] = number /\ r[3] = generation
  BY DEF Reference
<1>3. CASE number \notin DOMAIN d.objects
  BY <1>1, <1>2, <1>3 DEF getObject
<1>4. CASE number \in DOMAIN d.objects /\ d.objects[number].object = Null
  <2>1. ~Written(d).rows[number].occupied
    BY <1>4, OccupiedRow
  <2>2. read[number] = [object |-> Null, generation |-> 0]
    BY <1>1, <1>4, <2>1 DEF ReadBack, Written
  <2> QED
    BY <1>1, <1>2, <1>4, <2>2 DEF getObject
<1>5. CASE number \in DOMAIN d.objects /\ d.objects[number].object # Null
  <2>1. number # 0
    BY <1>5
  <2>2. Written(d).rows[number].occupied
    BY <1>5, OccupiedRow
  <2>3. read[number] = [object |-> Written(d).bodies[number].object,
                        generation |-> Written(d).rows[number].generation]
    BY <1>1, <1>5, <2>2 DEF ReadBack, Written
  <2>4. read[number].object = d.objects[number].object
    BY <1>5, <2>3, BodyWritten
  <2>5. read[number].generation = d.objects[number].generation
    BY <1>5, <2>1, <2>3, GenerationWritten
  <2> QED
    BY <1>1, <1>2, <1>5, <2>4, <2>5 DEF getObject
<1> QED
  BY <1>3, <1>4, <1>5

-----------------------------------------------------------------------------
(* The tool. *)

\* Entry 0 of a storage is free and stays so: no operation gives it an object.
HeadIsFree(entries) ==
    /\ DOMAIN entries \subseteq Nat /\ 0 \in DOMAIN entries
    /\ entries[0] = [object |-> Null, generation |-> entries[0].generation]

IInv ==
    /\ HeadIsFree(objects)
    /\ disk = <<>> \/ disk = <<disk[1]>>
    /\ FileWhole

\* The null of a free entry is no dictionary that an operation changes.
LEMMA NullIsKept ==
    /\ ~isDictionary(Null)
    /\ WithoutNulls(Null) = Null /\ Recompressed(Null) = Null
BY DEF isDictionary, Null, WithoutNulls, Recompressed

\* Each operation writes an entry for every entry there was, a null object for
\* a null object.
LEMMA DereferenceKeepsHead ==
    HeadIsFree(objects) /\ performDereferenceSimpleObjects => HeadIsFree(objects')
BY NullIsKept DEF performDereferenceSimpleObjects, HeadIsFree, UpdateAll, Updated

\* No operation puts an object into entry 0: removing null values does not,
LEMMA RemoveNullKeepsHead ==
    HeadIsFree(objects) /\ performRemoveNullObjects => HeadIsFree(objects')
BY NullIsKept DEF performRemoveNullObjects, HeadIsFree, UpdateAll

\* nor does removing what is unused,
LEMMA RemoveUnusedKeepsHead ==
    HeadIsFree(objects) /\ performRemoveUnusedObjects => HeadIsFree(objects')
BY DEF performRemoveUnusedObjects, HeadIsFree, Indices

\* merging what is identical,
LEMMA MergeKeepsHead ==
    HeadIsFree(objects) /\ performMergeIdenticalObjects => HeadIsFree(objects')
BY NullIsKept DEF performMergeIdenticalObjects, HeadIsFree, UpdateAll, replaceReferences, Updated

\* nor recompressing.
LEMMA RecompressKeepsHead ==
    HeadIsFree(objects) /\ performRecompressFlateStreams => HeadIsFree(objects')
BY NullIsKept DEF performRecompressFlateStreams, HeadIsFree, UpdateAll

\* Moving objects fills free entries, which entry 0 is not counted among, and
\* the array is shortened behind a used entry.
LEMMA ShrinkKeepsHead ==
    HeadIsFree(objects) /\ performShrinkObjectStorage => HeadIsFree(objects')
<1> SUFFICES ASSUME HeadIsFree(objects), performShrinkObjectStorage
             PROVE  HeadIsFree(objects')
  OBVIOUS
<1>1. HeadIsFree(Moved(Moves))
  <2>1. \A m \in Moves : m[2] # 0
    BY DEF Moves, FreeEntries
  <2>2. Moved(Moves)[0] = objects[0] \/ Moved(Moves)[0] = [objects[0] EXCEPT !.object = Null]
    BY <2>1 DEF Moved, HeadIsFree, Indices
  <2> QED
    BY <2>2 DEF Moved, HeadIsFree, Indices
<1>2. HeadIsFree(Trimmed(Moved(Moves)))
  BY <1>1 DEF HeadIsFree, Trimmed
<1> QED
  BY <1>2, NullIsKept DEF performShrinkObjectStorage, HeadIsFree, UpdateAll, replaceReferences, Updated

\* Whatever the optimizer does, entry 0 stays free for the writer.
LEMMA OptimizeKeepsHead ==
    HeadIsFree(objects) /\ Next => HeadIsFree(objects')
BY DereferenceKeepsHead, RemoveNullKeepsHead, RemoveUnusedKeepsHead, MergeKeepsHead,
   ShrinkKeepsHead, RecompressKeepsHead DEF Next, NextPass, storage

-----------------------------------------------------------------------------
\* A file that was read is whole, and its entry 0 is free.
LEMMA Initially == ToolInit => IInv
<1> SUFFICES ASSUME ToolInit PROVE IInv
  OBVIOUS
<1>1. PICK f \in Files : disk = <<f>> /\ source = ReadBack(f)
  BY DEF ToolInit
<1>2. Readable(f) /\ DOMAIN f.rows \subseteq Nat /\ 0 \in DOMAIN f.rows /\ ~f.rows[0].occupied
  BY FilesAssumption
<1>3. objects = ReadBack(f).objects
  BY <1>1 DEF ToolInit, Init
<1>4. HeadIsFree(objects)
  BY <1>2, <1>3 DEF ReadBack, HeadIsFree
<1> QED
  BY <1>1, <1>2, <1>4 DEF IInv, FileWhole, ToolInit

\* Every step of the tool keeps the invariant.
LEMMA StepKeeps == IInv /\ [ToolNext]_toolVars => IInv'
<1> SUFFICES ASSUME IInv, [ToolNext]_toolVars PROVE IInv'
  OBVIOUS
<1> USE DEF IInv
<1>1. CASE Optimize
  BY <1>1, OptimizeKeepsHead DEF Optimize, FileWhole
<1>2. CASE OpenTemporary
  BY <1>2 DEF OpenTemporary, FileWhole, vars, storage
<1>3. CASE OpenDirectly
  BY <1>3 DEF OpenDirectly, FileWhole, vars, storage
<1>4. CASE CannotOpen
  BY <1>4 DEF CannotOpen, FileWhole, vars, storage
<1>5. CASE Commit
  <2>1. Storage.objects[0].object = Null
    BY DEF Storage, HeadIsFree
  <2>2. Readable(Written(Storage))
    BY <2>1, WrittenIsReadable
  <2> QED
    BY <1>5, <2>2 DEF Commit, FileWhole, vars, storage
<1>6. CASE CannotCommit
  BY <1>6 DEF CannotCommit, FileWhole, vars, storage
<1>7. CASE Killed
  BY <1>7 DEF Killed, FileWhole, vars, storage
<1>8. CASE UNCHANGED toolVars
  BY <1>8 DEF toolVars, vars, storage, FileWhole
<1> QED
  BY <1>1, <1>2, <1>3, <1>4, <1>5, <1>6, <1>7, <1>8 DEF ToolNext, Write

\* Whatever fails, and whenever the process is killed, the name of the file
\* holds a complete file that can be read, unless it had to be written without
\* a temporary file; after success in any case.
THEOREM FileStaysWhole == ToolSpec => []FileWhole
<1>1. IInv => FileWhole
  BY DEF IInv
<1> QED
  BY <1>1, Initially, StepKeeps, PTL DEF ToolSpec

-----------------------------------------------------------------------------
(* The references that can be reached. *)

\* What is found in an object, and in the objects that references lead to.
Found(objs, S) == S \cup UNION {getDirectReferences(getObject(objs, r)) : r \in S}

\* The rounds of getReferences, and the round that is its result.
Rounds(f, o, objs) == f[0] = getDirectReferences(o) /\ \A n \in Nat : f[n + 1] = Found(objs, f[n])

\* getReferences is what some function of rounds has after all rounds.
LEMMA RoundsOfReferences ==
    ASSUME NEW o, NEW objs
    PROVE  \E f : Rounds(f, o, objs) /\ getReferences(o, objs) = f[Count(objs)]
<1> DEFINE Refs == getDirectReferences(o) \cup UNION {getDirectReferences(objs[i].object) : i \in DOMAIN objs}
           V == SUBSET Refs
           a == getDirectReferences(o)
           H == [n \in Nat |-> [S \in V |-> Found(objs, S)]]
           Fits(u) == u = [n \in Nat |-> IF n = 0 THEN getDirectReferences(o)
                                         ELSE LET last == u[n - 1]
                                              IN  last \cup UNION {getDirectReferences(getObject(objs, r)) : r \in last}]
           round == CHOOSE u : Fits(u)
<1>1. ASSUME NEW S \in V PROVE Found(objs, S) \in V
  <2>1. ASSUME NEW r \in S PROVE getDirectReferences(getObject(objs, r)) \subseteq Refs
    <3>1. CASE getObject(objs, r) = Null
      BY <3>1 DEF getDirectReferences, isDictionary, Null
    <3>2. CASE getObject(objs, r) # Null
      BY <3>2 DEF getObject
    <3> QED
      BY <3>1, <3>2
  <2> HIDE DEF Refs
  <2> QED
    BY <2>1 DEF Found
<1>2. a \in V
  OBVIOUS
<1> HIDE DEF V, a
<1>3. H \in [Nat -> [V -> V]]
  BY <1>1
<1>4. PICK g \in [Nat -> V] : Computes(g, a, H)
  <2> HIDE DEF H
  <2> QED BY <1>2, <1>3, Recursion
<1>5. g[0] = a /\ \A n \in Nat : g[n + 1] = Found(objs, g[n])
  BY <1>4 DEF Computes
<1>6. ASSUME NEW n \in Nat, n # 0 PROVE g[n] = Found(objs, g[n - 1])
  <2>1. n - 1 \in Nat /\ (n - 1) + 1 = n
    BY <1>6
  <2> QED
    BY <1>5, <2>1
<1>7. Fits(g)
  BY <1>5, <1>6 DEF Found, a
<1>8. Fits(round)
  <2> HIDE DEF Fits
  <2> QED BY <1>7
<1>9. getReferences(o, objs) = round[Count(objs)]
  BY DEF getReferences
<1>10. Rounds(round, o, objs)
  <2>1. round[0] = getDirectReferences(o)
    BY <1>8
  <2>2. ASSUME NEW n \in Nat PROVE round[n + 1] = Found(objs, round[n])
    <3>1. n + 1 \in Nat /\ n + 1 # 0 /\ (n + 1) - 1 = n
      OBVIOUS
    <3>2. round[n + 1] = Found(objs, round[(n + 1) - 1])
      <4> HIDE DEF round
      <4> QED BY <1>8, <3>1 DEF Found
    <3> QED
      BY <3>1, <3>2
  <2> HIDE DEF round
  <2> QED
    BY <2>1, <2>2 DEF Rounds
<1> HIDE DEF round
<1> QED
  BY <1>9, <1>10

\* A set that has the references of an object, and with a reference those of
\* the object it leads to, has all that getReferences returns.
LEMMA ReferencesAreReachable ==
    ASSUME NEW o, NEW objs, IsFiniteSet(DOMAIN objs), NEW T,
           getDirectReferences(o) \subseteq T,
           \A r \in T : getDirectReferences(getObject(objs, r)) \subseteq T
    PROVE  getReferences(o, objs) \subseteq T
<1>1. PICK f : Rounds(f, o, objs) /\ getReferences(o, objs) = f[Count(objs)]
  BY RoundsOfReferences
<1> DEFINE S == {n \in Nat : f[n] \subseteq T}
<1>2. 0 \in S
  BY <1>1 DEF Rounds
<1>3. ASSUME NEW n \in Nat, n \in S PROVE n + 1 \in S
  <2>1. f[n + 1] = Found(objs, f[n]) /\ f[n] \subseteq T
    BY <1>1, <1>3 DEF Rounds
  <2> QED
    BY <2>1 DEF Found
<1>4. S = Nat
  <2> HIDE DEF S
  <2>1. S \subseteq Nat
    BY DEF S
  <2> QED BY <1>2, <1>3, <2>1, SetInduction
<1>5. Count(objs) \in Nat
  BY FS_CardinalityType DEF Count
<1> QED
  BY <1>1, <1>4, <1>5

\* The references of a document that lead to dictionaries; there is one for a
\* number.
Leads(r, objs) == isReference(r) /\ isDictionary(getObject(objs, r))

\* A reference that leads to a dictionary has the generation of its entry.
LEMMA NumberOfReference ==
    ASSUME NEW objs, NEW r, r = Reference(r[2], r[3]), isDictionary(getObject(objs, r))
    PROVE  r[2] \in DOMAIN objs /\ r = ReferenceTo(objs, r[2])
<1>1. ~isDictionary(Null)
  BY DEF isDictionary, Null
<1>2. r[2] \in DOMAIN objs /\ objs[r[2]].generation = r[3]
  BY <1>1 DEF getObject
<1> QED
  BY <1>2 DEF ReferenceTo

\* As many rounds as there are objects are enough: a round that finds no new
\* object finds nothing new, and every round before it found one.
LEMMA ReferencesAreClosed ==
    ASSUME NEW o, NEW objs, IsFiniteSet(DOMAIN objs),
           \A x \in {o} \cup {objs[i].object : i \in DOMAIN objs} :
               \A r \in getDirectReferences(x) : r = Reference(r[2], r[3])
    PROVE  /\ getDirectReferences(o) \subseteq getReferences(o, objs)
           /\ \A r \in getReferences(o, objs) :
                  getDirectReferences(getObject(objs, r)) \subseteq getReferences(o, objs)
<1>1. PICK f : Rounds(f, o, objs) /\ getReferences(o, objs) = f[Count(objs)]
  BY RoundsOfReferences
<1> DEFINE Dict(n) == {r \in f[n] : isDictionary(getObject(objs, r))}
           N(n) == {r[2] : r \in Dict(n)}
           Done(n) == f[n + 1] = f[n]
           S == {n \in Nat : Done(n) \/ Cardinality(N(n)) >= n + 1}
           D == DOMAIN objs
<1>2. f[0] = getDirectReferences(o) /\ \A n \in Nat : f[n + 1] = Found(objs, f[n])
  BY <1>1 DEF Rounds
<1>3. \A n \in Nat : \A r \in f[n] : r = Reference(r[2], r[3])
  <2> DEFINE W == {n \in Nat : \A r \in f[n] : r = Reference(r[2], r[3])}
  <2>1. 0 \in W
    BY <1>2
  <2>2. ASSUME NEW n \in Nat, n \in W PROVE n + 1 \in W
    <3>1. ASSUME NEW s \in f[n], NEW r \in getDirectReferences(getObject(objs, s)) PROVE r = Reference(r[2], r[3])
      <4>1. getObject(objs, s) # Null
        BY DEF getDirectReferences, isDictionary, Null
      <4>2. getObject(objs, s) \in {objs[i].object : i \in DOMAIN objs}
        BY <4>1 DEF getObject
      <4> QED
        BY <4>2
    <3> QED
      BY <1>2, <2>2, <3>1 DEF Found
  <2>3. W \subseteq Nat
    OBVIOUS
  <2>4. W = Nat
    <3> HIDE DEF W
    <3> QED BY <2>1, <2>2, <2>3, SetInduction
  <2> QED
    BY <2>4
<1>4. \A n \in Nat : N(n) \in SUBSET D /\ IsFiniteSet(N(n)) /\ Cardinality(N(n)) \in Nat
                     /\ Cardinality(N(n)) <= Cardinality(D)
  <2> SUFFICES ASSUME NEW n \in Nat
               PROVE  N(n) \in SUBSET D /\ IsFiniteSet(N(n)) /\ Cardinality(N(n)) \in Nat
                      /\ Cardinality(N(n)) <= Cardinality(D)
    OBVIOUS
  <2>1. N(n) \in SUBSET D
    BY <1>3, NumberOfReference
  <2> HIDE DEF N, D
  <2>2. IsFiniteSet(D)
    BY DEF D
  <2> QED
    BY <2>1, <2>2, FS_Subset, FS_CardinalityType
\* No new object: nothing new is found.
<1>5. ASSUME NEW n \in Nat, N(n + 1) \subseteq N(n) PROVE Done(n + 1)
  <2>1. f[n] \subseteq f[n + 1]
    BY <1>2 DEF Found
  <2>2. n + 1 \in Nat
    OBVIOUS
  <2>3. ASSUME NEW r \in f[n + 1] PROVE getDirectReferences(getObject(objs, r)) \subseteq f[n + 1]
    <3>1. CASE ~isDictionary(getObject(objs, r))
      BY <3>1 DEF getDirectReferences
    <3>2. CASE isDictionary(getObject(objs, r))
      <4>1. r[2] \in N(n)
        BY <1>5, <3>2
      <4>2. PICK s \in f[n] : isDictionary(getObject(objs, s)) /\ s[2] = r[2]
        BY <4>1
      <4>3. r = Reference(r[2], r[3]) /\ s = Reference(s[2], s[3])
        BY <1>3, <2>2
      <4>4. r = ReferenceTo(objs, r[2]) /\ s = ReferenceTo(objs, s[2])
        BY <3>2, <4>2, <4>3, NumberOfReference
      <4>5. r \in f[n]
        BY <4>2, <4>4
      <4> QED
        BY <1>2, <4>5 DEF Found
    <3> QED
      BY <3>1, <3>2
  <2>4. f[(n + 1) + 1] = Found(objs, f[n + 1])
    BY <1>2, <2>2
  <2> QED
    BY <2>3, <2>4 DEF Found
<1>6. ASSUME NEW n \in Nat, Done(n) PROVE Done(n + 1)
  <2>1. f[(n + 1) + 1] = Found(objs, f[n + 1]) /\ f[n + 1] = Found(objs, f[n])
    BY <1>2
  <2> QED
    BY <1>6, <2>1
<1>7. 0 \in S
  <2>1. CASE N(0) = {}
    <3>1. Dict(0) = {}
      BY <2>1
    <3>2. \A r \in f[0] : getDirectReferences(getObject(objs, r)) = {}
      BY <3>1 DEF getDirectReferences
    <3>3. Found(objs, f[0]) = f[0]
      BY <3>2 DEF Found
    <3>4. Done(0)
      BY <1>2, <3>3
    <3> QED
      BY <3>4
  <2>2. CASE N(0) # {}
    <3>1. Cardinality(N(0)) # 0 /\ Cardinality(N(0)) \in Nat
      <4> HIDE DEF N
      <4> QED BY <1>4, <2>2, FS_EmptySet
    <3> QED
      BY <3>1
  <2> QED
    BY <2>1, <2>2
<1>8. ASSUME NEW n \in Nat, n \in S PROVE n + 1 \in S
  <2>1. CASE Done(n)
    BY <1>6, <2>1
  <2>2. CASE N(n + 1) \subseteq N(n)
    BY <1>5, <2>2
  <2>3. CASE ~(N(n + 1) \subseteq N(n)) /\ Cardinality(N(n)) >= n + 1
    <3>1. f[n] \subseteq f[n + 1]
      BY <1>2 DEF Found
    <3>2. N(n) \subseteq N(n + 1)
      BY <3>1
    <3>3. PICK i \in N(n + 1) : i \notin N(n)
      BY <2>3
    <3>4. N(n) \cup {i} \in SUBSET N(n + 1)
      BY <3>2, <3>3
    <3> HIDE DEF N
    <3>5. Cardinality(N(n) \cup {i}) = Cardinality(N(n)) + 1
      BY <1>4, <3>3, FS_AddElement
    <3>6. Cardinality(N(n) \cup {i}) <= Cardinality(N(n + 1))
      BY <1>4, <3>4, FS_Subset
    <3>7. Cardinality(N(n)) \in Nat /\ Cardinality(N(n + 1)) \in Nat
      BY <1>4
    <3>8. Cardinality(N(n + 1)) >= (n + 1) + 1
      BY <2>3, <3>5, <3>6, <3>7
    <3> QED
      BY <3>8
  <2> QED
    BY <1>8, <2>1, <2>2, <2>3
<1>9. S = Nat
  <2> HIDE DEF S
  <2>1. S \subseteq Nat
    BY DEF S
  <2> QED BY <1>7, <1>8, <2>1, SetInduction
<1> DEFINE c == Count(objs)
<1>10. c \in Nat /\ c = Cardinality(D)
  BY FS_CardinalityType DEF Count
<1>11. Done(c)
  <2>1. ~(Cardinality(N(c)) >= c + 1)
    <3> HIDE DEF N, D, c
    <3> QED BY <1>4, <1>10
  <2> QED
    BY <1>9, <1>10, <2>1
<1>12. getDirectReferences(o) \subseteq f[c]
  <2> DEFINE W == {n \in Nat : getDirectReferences(o) \subseteq f[n]}
  <2>1. 0 \in W
    BY <1>2
  <2>2. ASSUME NEW n \in Nat, n \in W PROVE n + 1 \in W
    BY <1>2, <2>2 DEF Found
  <2>3. W \subseteq Nat
    OBVIOUS
  <2>4. W = Nat
    <3> HIDE DEF W
    <3> QED BY <2>1, <2>2, <2>3, SetInduction
  <2> QED
    BY <1>10, <2>4
<1>13. ASSUME NEW r \in f[c] PROVE getDirectReferences(getObject(objs, r)) \subseteq f[c]
  BY <1>2, <1>10, <1>11 DEF Found
<1> QED
  BY <1>1, <1>12, <1>13

-----------------------------------------------------------------------------
(* Documents that say the same. *)

\* A set of pairs that has the trailers, and with a pair what is below it, has
\* all that SameMeaning compares.
LEMMA MeaningByPairs ==
    ASSUME NEW d, NEW e, IsFiniteSet(DOMAIN d.objects), IsFiniteSet(DOMAIN e.objects),
           NEW S, <<d.trailer, e.trailer>> \in S,
           \A p \in S : Below(p, d, e) \subseteq S /\ Agree(p, d, e, Decoded)
    PROVE  SameMeaning(d, e, Decoded)
<1> DEFINE V == SUBSET S
           a == {<<d.trailer, e.trailer>>}
           Next1(T) == T \cup UNION {Below(p, d, e) : p \in T}
           H == [n \in Nat |-> [T \in V |-> Next1(T)]]
           Fits(u) == u = [n \in Nat |-> IF n = 0 THEN {<<d.trailer, e.trailer>>}
                                         ELSE LET last == u[n - 1]
                                              IN  last \cup UNION {Below(p, d, e) : p \in last}]
           pairs == CHOOSE u : Fits(u)
           n0 == Count(d.objects) + Count(e.objects)
<1>1. \A T \in V : Next1(T) \in V
  OBVIOUS
<1>2. a \in V
  OBVIOUS
<1> HIDE DEF V, a
<1>3. H \in [Nat -> [V -> V]]
  <2> HIDE DEF Next1
  <2> QED BY <1>1
<1>4. PICK g \in [Nat -> V] : Computes(g, a, H)
  <2> HIDE DEF H
  <2> QED BY <1>2, <1>3, Recursion
<1>5. g[0] = a /\ \A n \in Nat : g[n + 1] = Next1(g[n])
  <2> HIDE DEF Next1
  <2> QED BY <1>4 DEF Computes
<1>6. ASSUME NEW n \in Nat, n # 0 PROVE g[n] = Next1(g[n - 1])
  <2>1. n - 1 \in Nat /\ (n - 1) + 1 = n
    BY <1>6
  <2> HIDE DEF Next1
  <2> QED
    BY <1>5, <2>1
<1>7. Fits(g)
  BY <1>5, <1>6 DEF a
<1>8. Fits(pairs)
  <2> HIDE DEF Fits
  <2> QED BY <1>7
<1> DEFINE W == {n \in Nat : pairs[n] \subseteq S}
<1>9. 0 \in W
  <2>1. pairs[0] = {<<d.trailer, e.trailer>>}
    BY <1>8
  <2> QED
    BY <2>1
<1>10. ASSUME NEW n \in Nat, n \in W PROVE n + 1 \in W
  <2>1. n + 1 \in Nat /\ n + 1 # 0 /\ (n + 1) - 1 = n
    OBVIOUS
  <2>2. pairs[n + 1] = Next1(pairs[(n + 1) - 1])
    <3> HIDE DEF pairs
    <3> QED BY <1>8, <2>1
  <2>3. pairs[n] \subseteq S
    BY <1>10
  <2> HIDE DEF pairs
  <2> QED
    BY <2>1, <2>2, <2>3
<1>11. W = Nat
  <2> HIDE DEF W
  <2>1. W \subseteq Nat
    BY DEF W
  <2> QED BY <1>9, <1>10, <2>1, SetInduction
<1>12. n0 \in Nat
  <2>1. Count(d.objects) \in Nat /\ Count(e.objects) \in Nat
    BY FS_CardinalityType DEF Count
  <2> QED
    BY <2>1
<1>13. pairs[n0] \subseteq S
  <2> HIDE DEF pairs, n0
  <2> QED BY <1>11, <1>12
<1>14. SameMeaning(d, e, Decoded) = \A p \in pairs[n0] : Agree(p, d, e, Decoded)
  BY DEF SameMeaning
<1> HIDE DEF pairs, n0
<1> QED
  BY <1>13, <1>14

\* What a document consists of.
Of(d) == {d.trailer} \cup {d.objects[i].object : i \in DOMAIN d.objects}

\* Null is no dictionary and no reference, and refers to nothing.
LEMMA NotNull == ~isDictionary(Null) /\ ~isReference(Null) /\ getDirectReferences(Null) = {}
BY DEF isDictionary, isReference, Null, getDirectReferences

\* A reference has the number and generation it was made of,
LEMMA ReferenceParts ==
    ASSUME NEW i, NEW g
    PROVE  /\ isReference(Reference(i, g)) /\ ~isDictionary(Reference(i, g))
           /\ Reference(i, g)[2] = i /\ Reference(i, g)[3] = g
BY DEF isReference, isDictionary, Reference

\* a dictionary its type, content and entries.
LEMMA DictionaryParts ==
    ASSUME NEW t, NEW c, NEW f
    PROVE  /\ isDictionary(Dictionary(t, c, f)) /\ ~isReference(Dictionary(t, c, f))
           /\ Type(Dictionary(t, c, f)) = t /\ Content(Dictionary(t, c, f)) = c
           /\ Entries(Dictionary(t, c, f)) = f
BY DEF isDictionary, isReference, Dictionary, Type, Content, Entries

\* Whatever a reference of a document leads to is null or one of its objects.
LEMMA ObjectsOf ==
    ASSUME NEW d, Stored(d)
    PROVE  /\ IsFiniteSet(DOMAIN d.objects)
           /\ \A x \in Of(d) : Object(x)
           /\ \A r : getObject(d.objects, r) # Null => getObject(d.objects, r) \in Of(d)
<1>1. \A x \in Of(d) : Object(x)
  BY DEF Stored, Of
<1>2. \A r : getObject(d.objects, r) # Null => getObject(d.objects, r) \in Of(d)
  BY DEF getObject, Of
<1> QED
  BY <1>1, <1>2 DEF Stored

\* What the entries of a dictionary of a document are.
LEMMA EntriesOf ==
    ASSUME NEW d, Stored(d), NEW x \in Of(d), isDictionary(x), NEW k \in DOMAIN Entries(x)
    PROVE  LET v == Entries(x)[k]
           IN  /\ ~isDictionary(v)
               /\ isReference(v) => /\ v \in getDirectReferences(x)
                                    /\ v = Reference(v[2], v[3]) /\ v[2] \in Nat /\ v[3] \in Nat
               /\ isDictionary(Value(v, d.objects)) => Leads(v, d.objects)
               /\ Leads(v, d.objects) => isDictionary(Value(v, d.objects))
<1> DEFINE v == Entries(x)[k]
<1>1. Object(x)
  BY ObjectsOf
<1>2. ~isDictionary(v)
  BY <1>1 DEF Object
<1>3. isReference(v) => v \in getDirectReferences(x)
  BY DEF getDirectReferences
<1>4. isReference(v) => v = Reference(v[2], v[3]) /\ v[2] \in Nat /\ v[3] \in Nat
  <2> HIDE DEF v
  <2> QED BY <1>1, <1>3 DEF Object
<1>5. /\ isDictionary(Value(v, d.objects)) => Leads(v, d.objects)
      /\ Leads(v, d.objects) => isDictionary(Value(v, d.objects))
  BY <1>2 DEF Value, Leads
<1> QED
  BY <1>2, <1>3, <1>4, <1>5

\* A reference is later if its entry has not reached its generation.
IsLater(r, objs) == r[2] \in DOMAIN objs /\ objs[r[2]].generation < r[3]

\* No dictionary of the document has one.
NoLater(d) == \A x \in Of(d) : isDictionary(x) => Later(x, d.objects) = {}

\* The keys of the later references.
LEMMA LaterIs ==
    ASSUME NEW x, NEW objs
    PROVE  Later(x, objs) = {k \in DOMAIN Entries(x) : isReference(Entries(x)[k]) /\ IsLater(Entries(x)[k], objs)}
BY DEF Later, IsLater

\* A later reference leads to nothing.
LEMMA LaterIsNull ==
    ASSUME NEW d, Stored(d), NEW x \in Of(d), isDictionary(x)
    PROVE  Keys(x, d.objects) \cap Later(x, d.objects) = {}
<1> SUFFICES ASSUME NEW k, k \in Keys(x, d.objects), k \in Later(x, d.objects) PROVE FALSE
  OBVIOUS
<1> DEFINE v == Entries(x)[k]
<1>1. /\ k \in DOMAIN Entries(x) /\ isReference(v)
      /\ v[2] \in DOMAIN d.objects /\ d.objects[v[2]].generation < v[3]
  BY LaterIs DEF IsLater
<1>2. v[3] \in Nat
  BY <1>1, EntriesOf
<1>3. d.objects[v[2]].generation \in 0 .. MaxGeneration
  BY <1>1 DEF Stored
<1>4. Value(v, d.objects) # Null
  BY DEF Keys
<1> HIDE DEF v
<1>5. d.objects[v[2]].generation # v[3]
  BY <1>1, <1>2, <1>3
<1>6. Value(v, d.objects) = Null
  BY <1>1, <1>5 DEF Value, getObject
<1> QED
  BY <1>4, <1>6

\* The dictionaries that can be reached, by their references.
Live(d) == {r \in getReferences(d.trailer, d.objects) : isDictionary(getObject(d.objects, r))}
Led(x, objs) == {r \in getDirectReferences(x) : isDictionary(getObject(objs, r))}

\* What a live object leads to is live,
LEMMA LiveIsClosed ==
    ASSUME NEW d, Stored(d)
    PROVE  /\ Led(d.trailer, d.objects) \subseteq Live(d)
           /\ \A r \in Live(d) : Led(getObject(d.objects, r), d.objects) \subseteq Live(d)
<1> DEFINE T == getReferences(d.trailer, d.objects)
           X == {d.trailer} \cup {d.objects[i].object : i \in DOMAIN d.objects}
<1>1. IsFiniteSet(DOMAIN d.objects)
  BY ObjectsOf
<1>2. \A x \in X : \A r \in getDirectReferences(x) : r = Reference(r[2], r[3])
  <2>1. \A x \in X : Object(x)
    BY ObjectsOf DEF Of
  <2> QED
    BY <2>1 DEF Object
<1>3. /\ getDirectReferences(d.trailer) \subseteq T
      /\ \A r \in T : getDirectReferences(getObject(d.objects, r)) \subseteq T
  BY <1>1, <1>2, ReferencesAreClosed
<1> QED
  BY <1>3 DEF Live, Led

\* and nothing else: a set closed under it has all that is live.
LEMMA LiveIsReached ==
    ASSUME NEW d, Stored(d), NEW S, Led(d.trailer, d.objects) \subseteq S,
           \A r \in S : Led(getObject(d.objects, r), d.objects) \subseteq S
    PROVE  Live(d) \subseteq S
<1> DEFINE R == UNION {getDirectReferences(x) : x \in Of(d)}
           T == S \cup {r \in R : ~isDictionary(getObject(d.objects, r))}
<1>1. getDirectReferences(d.trailer) \subseteq T
  BY DEF Led, Of
<1>2. ASSUME NEW r \in T PROVE getDirectReferences(getObject(d.objects, r)) \subseteq T
  <2>1. CASE getObject(d.objects, r) = Null
    BY <2>1, NotNull
  <2>2. CASE getObject(d.objects, r) # Null /\ r \in S
    <3>1. getDirectReferences(getObject(d.objects, r)) \subseteq R
      BY <2>2, ObjectsOf
    <3>2. Led(getObject(d.objects, r), d.objects) \subseteq S
      BY <2>2
    <3> HIDE DEF R
    <3> QED
      BY <3>1, <3>2 DEF Led
  <2>3. CASE r \notin S
    BY <2>3 DEF getDirectReferences
  <2> QED
    BY <2>1, <2>2, <2>3
<1>3. getReferences(d.trailer, d.objects) \subseteq T
  <2>1. IsFiniteSet(DOMAIN d.objects)
    BY ObjectsOf
  <2> HIDE DEF T
  <2> QED BY <1>1, <1>2, <2>1, ReferencesAreReachable
<1> QED
  BY <1>3 DEF Live

\* Some object of the document has the live reference.
LEMMA LiveFrom ==
    ASSUME NEW d, Stored(d), NEW r \in Live(d)
    PROVE  \E x \in Of(d) : r \in getDirectReferences(x)
<1> DEFINE S == {s \in UNION {getDirectReferences(x) : x \in Of(d)} : isDictionary(getObject(d.objects, s))}
<1>1. \A x \in Of(d) : Led(x, d.objects) \subseteq S
  BY DEF Led
<1>2. Led(d.trailer, d.objects) \subseteq S
  BY <1>1 DEF Of
<1>3. ASSUME NEW s \in S PROVE Led(getObject(d.objects, s), d.objects) \subseteq S
  <2>1. getObject(d.objects, s) \in Of(d)
    BY <1>3, ObjectsOf, NotNull
  <2> HIDE DEF S
  <2> QED
    BY <1>1, <2>1
<1>4. r \in S
  <2> HIDE DEF S
  <2> QED BY <1>2, <1>3, LiveIsReached
<1> QED
  BY <1>4

\* A live reference leads to the dictionary of an entry of its generation.
LEMMA LiveReference ==
    ASSUME NEW d, Stored(d), NEW r \in Live(d)
    PROVE  /\ isReference(r) /\ r = Reference(r[2], r[3]) /\ r[2] \in Nat /\ r[3] \in Nat
           /\ r[2] \in DOMAIN d.objects /\ r = ReferenceTo(d.objects, r[2])
           /\ isDictionary(getObject(d.objects, r))
           /\ getObject(d.objects, r) = d.objects[r[2]].object
           /\ getObject(d.objects, r) \in Of(d)
<1>5. PICK x \in Of(d) : r \in getDirectReferences(x)
  BY LiveFrom
<1>6. Object(x)
  BY ObjectsOf
<1>7. isReference(r)
  BY <1>5 DEF getDirectReferences
<1>8. r = Reference(r[2], r[3]) /\ r[2] \in Nat /\ r[3] \in Nat
  BY <1>5, <1>6 DEF Object
<1>9. isDictionary(getObject(d.objects, r))
  BY DEF Live
<1>10. r[2] \in DOMAIN d.objects /\ r = ReferenceTo(d.objects, r[2])
  BY <1>8, <1>9, NumberOfReference
<1>11. getObject(d.objects, r) = d.objects[r[2]].object
  BY <1>9, NotNull DEF getObject
<1>12. getObject(d.objects, r) \in Of(d)
  BY <1>9, NotNull, ObjectsOf
<1> QED
  BY <1>7, <1>8, <1>9, <1>10, <1>11, <1>12

\* No live reference is later.
LEMMA LiveIsNotLater ==
    ASSUME NEW d, Stored(d), NEW r \in Live(d)
    PROVE  ~IsLater(r, d.objects)
<1>1. r[2] \in DOMAIN d.objects /\ r = ReferenceTo(d.objects, r[2])
  BY LiveReference
<1>2. r[3] = d.objects[r[2]].generation
  BY <1>1, ReferenceParts DEF ReferenceTo
<1>3. d.objects[r[2]].generation \in 0 .. MaxGeneration
  BY <1>1 DEF Stored
<1> QED
  BY <1>2, <1>3 DEF IsLater

-----------------------------------------------------------------------------
(* A simulation: M says which object of e stands for a dictionary of d.     *)

\* The entries v and w say the same: both lead to dictionaries that stand for
\* each other, or to the same value.
Same(v, w, d, e, M) ==
    IF Leads(v, d.objects) THEN w = M[v] /\ Leads(w, e.objects)
                           ELSE Value(v, d.objects) = Value(w, e.objects)

Match(x, y, d, e, M) ==
    /\ isDictionary(x) /\ isDictionary(y)
    /\ Type(x) = Type(y) /\ Decoded(Content(x)) = Decoded(Content(y))
    /\ Keys(x, d.objects) = Keys(y, e.objects) \ Later(x, d.objects)
    /\ \A k \in Keys(x, d.objects) : Same(Entries(x)[k], Entries(y)[k], d, e, M)

\* Objects that look the same may become one, pages may not.
PagesApart(d, M) ==
    \A r, s \in Live(d) : M[r] = M[s] /\ Type(getObject(d.objects, r)) = "Page" => r = s

Simulation(d, e, M) ==
    /\ M = [r \in Live(d) |-> M[r]]
    /\ Match(d.trailer, e.trailer, d, e, M)
    /\ \A r \in Live(d) : Match(getObject(d.objects, r), getObject(e.objects, M[r]), d, e, M)
    /\ PagesApart(d, M)

\* No key gets a later reference.
Tracks(d, e, M) ==
    /\ Later(e.trailer, e.objects) \subseteq Later(d.trailer, d.objects)
    /\ \A r \in Live(d) : Later(getObject(e.objects, M[r]), e.objects) \subseteq Later(getObject(d.objects, r), d.objects)

Simulates(d, e) == \E M : Simulation(d, e, M) /\ Tracks(d, e, M)

\* A pair of entries that say the same: the dictionaries they lead to, or a value.
LEMMA SameValues ==
    ASSUME NEW d, NEW e, Stored(d), Stored(e), NEW M, Simulation(d, e, M),
           NEW x \in Of(d), NEW y \in Of(e), Match(x, y, d, e, M),
           Led(x, d.objects) \subseteq Live(d),
           NEW k \in Keys(x, d.objects)
    PROVE  LET v == Entries(x)[k]
               w == Entries(y)[k]
           IN  \/ /\ v \in Live(d) /\ w = M[v] /\ w \in Led(y, e.objects)
                  /\ Value(v, d.objects) = getObject(d.objects, v)
                  /\ Value(w, e.objects) = getObject(e.objects, M[v])
               \/ /\ Value(v, d.objects) = Value(w, e.objects)
                  /\ ~isDictionary(Value(v, d.objects))
                  /\ ~Leads(w, e.objects)
<1> DEFINE v == Entries(x)[k]
           w == Entries(y)[k]
<1>0. k \in Keys(y, e.objects) /\ isDictionary(x) /\ isDictionary(y)
  BY DEF Match
<1>1. k \in DOMAIN Entries(x) /\ k \in DOMAIN Entries(y) /\ isDictionary(x) /\ isDictionary(y)
  BY <1>0 DEF Keys
<1>2. Same(v, w, d, e, M)
  BY DEF Match
<1>3. /\ isReference(v) => v \in getDirectReferences(x)
      /\ isDictionary(Value(v, d.objects)) <=> Leads(v, d.objects)
  BY <1>1, EntriesOf
<1>4. /\ isReference(w) => w \in getDirectReferences(y)
      /\ isDictionary(Value(w, e.objects)) <=> Leads(w, e.objects)
  BY <1>1, EntriesOf
<1> HIDE DEF v, w
<1>5. CASE Leads(v, d.objects)
  <2>1. isReference(v) /\ v \in Led(x, d.objects)
    BY <1>3, <1>5 DEF Leads, Led
  <2>2. v \in Live(d) /\ w = M[v] /\ isReference(w) /\ w \in Led(y, e.objects)
    BY <1>2, <1>4, <1>5, <2>1 DEF Same, Leads, Led
  <2> QED
    BY <2>1, <2>2 DEF Value, v, w
<1>6. CASE ~Leads(v, d.objects)
  <2>1. Value(v, d.objects) = Value(w, e.objects)
    BY <1>2, <1>6 DEF Same
  <2> QED
    BY <1>3, <1>4, <1>6, <2>1 DEF v, w
<1> QED
  BY <1>5, <1>6

\* The trailers say the same,
LEMMA TrailerMatches ==
    ASSUME NEW d, NEW e, Stored(d), Stored(e), NEW M, Simulation(d, e, M)
    PROVE  /\ d.trailer \in Of(d) /\ e.trailer \in Of(e) /\ Match(d.trailer, e.trailer, d, e, M)
           /\ Led(d.trailer, d.objects) \subseteq Live(d)
BY LiveIsClosed DEF Of, Simulation

\* and so do a live object and the one that stands for it.
LEMMA ObjectMatches ==
    ASSUME NEW d, NEW e, Stored(d), Stored(e), NEW M, Simulation(d, e, M), NEW r \in Live(d)
    PROVE  /\ getObject(d.objects, r) \in Of(d) /\ getObject(e.objects, M[r]) \in Of(e)
           /\ Match(getObject(d.objects, r), getObject(e.objects, M[r]), d, e, M)
           /\ Led(getObject(d.objects, r), d.objects) \subseteq Live(d)
<1>1. Match(getObject(d.objects, r), getObject(e.objects, M[r]), d, e, M)
  BY DEF Simulation
<1>2. getObject(e.objects, M[r]) # Null
  BY <1>1, NotNull DEF Match
<1> QED
  BY <1>1, <1>2, LiveIsClosed, LiveReference, ObjectsOf

\* Documents in a simulation say the same.
LEMMA SimulationKeepsMeaning ==
    ASSUME NEW d, NEW e, Stored(d), Stored(e), NEW M, Simulation(d, e, M)
    PROVE  SameMeaning(d, e, Decoded)
<1> DEFINE pair(r) == <<getObject(d.objects, r), getObject(e.objects, M[r])>>
           Values == UNION {{Value(Entries(x)[k], d.objects) : k \in Keys(x, d.objects)} : x \in Of(d)}
           Plain == {v \in Values : ~isDictionary(v)}
           S == {<<d.trailer, e.trailer>>} \cup {pair(r) : r \in Live(d)} \cup {<<v, v>> : v \in Plain}
<1>1. IsFiniteSet(DOMAIN d.objects) /\ IsFiniteSet(DOMAIN e.objects)
  BY ObjectsOf
<1>2. <<d.trailer, e.trailer>> \in S
  OBVIOUS
<1>3. ASSUME NEW x \in Of(d), NEW y \in Of(e), Match(x, y, d, e, M), Led(x, d.objects) \subseteq Live(d)
      PROVE  Below(<<x, y>>, d, e) \subseteq S /\ Agree(<<x, y>>, d, e, Decoded)
  <2>1. isDictionary(x) /\ isDictionary(y)
    BY <1>3 DEF Match
  <2>2. Agree(<<x, y>>, d, e, Decoded)
    BY <1>3 DEF Match, Agree
  <2>3. ASSUME NEW k \in Keys(x, d.objects)
        PROVE  <<Value(Entries(x)[k], d.objects), Value(Entries(y)[k], e.objects)>> \in S
    <3> DEFINE v == Entries(x)[k]
               w == Entries(y)[k]
    <3>1. \/ /\ v \in Live(d)
             /\ Value(v, d.objects) = getObject(d.objects, v)
             /\ Value(w, e.objects) = getObject(e.objects, M[v])
          \/ Value(v, d.objects) = Value(w, e.objects) /\ ~isDictionary(Value(v, d.objects))
      BY <1>3, SameValues
    <3>2. Value(v, d.objects) \in Values
      OBVIOUS
    <3> HIDE DEF v, w, Values
    <3>3. <<Value(v, d.objects), Value(w, e.objects)>> \in S
      BY <3>1, <3>2
    <3> QED
      BY <3>3 DEF v, w
  <2> HIDE DEF S
  <2> QED
    BY <2>1, <2>2, <2>3 DEF Below
<1>4. ASSUME NEW p \in S PROVE Below(p, d, e) \subseteq S /\ Agree(p, d, e, Decoded)
  <2>1. CASE p = <<d.trailer, e.trailer>>
    <3> HIDE DEF S
    <3> QED BY <1>3, <2>1, TrailerMatches
  <2>2. ASSUME NEW r \in Live(d), p = pair(r) PROVE Below(p, d, e) \subseteq S /\ Agree(p, d, e, Decoded)
    <3> HIDE DEF S
    <3> QED BY <1>3, <2>2, ObjectMatches
  <2>3. ASSUME NEW v \in Plain, p = <<v, v>> PROVE Below(p, d, e) \subseteq S /\ Agree(p, d, e, Decoded)
    <3>1. ~isDictionary(v) /\ p[1] = v /\ p[2] = v
      BY <2>3
    <3> QED
      BY <3>1 DEF Below, Agree
  <2> HIDE DEF Plain, pair
  <2> QED
    BY <2>1, <2>2, <2>3
<1> HIDE DEF S
<1> QED
  BY <1>1, <1>2, <1>4, MeaningByPairs

\* What stands for what can be reached in d can be reached in e, and without
\* later references nothing else can.
LEMMA ReachedMatches ==
    ASSUME NEW d, NEW e, Stored(d), Stored(e), NEW M, Simulation(d, e, M),
           NEW x \in Of(d), NEW y \in Of(e), Match(x, y, d, e, M), Led(x, d.objects) \subseteq Live(d)
    PROVE  /\ Later(x, d.objects) = {} => Led(y, e.objects) \subseteq {M[r] : r \in Led(x, d.objects)}
           /\ \A r \in Led(x, d.objects) : M[r] \in Led(y, e.objects)
<1>1. /\ isDictionary(x) /\ isDictionary(y) /\ Keys(x, d.objects) \subseteq Keys(y, e.objects)
      /\ Later(x, d.objects) = {} => Keys(y, e.objects) \subseteq Keys(x, d.objects)
  BY DEF Match
<1>2. ASSUME Later(x, d.objects) = {}, NEW w \in Led(y, e.objects) PROVE w \in {M[r] : r \in Led(x, d.objects)}
  <2>1. PICK k \in DOMAIN Entries(y) : w = Entries(y)[k] /\ isReference(w)
    BY <1>1 DEF Led, getDirectReferences
  <2>2. isDictionary(getObject(e.objects, w)) /\ Leads(w, e.objects)
    BY <2>1 DEF Led, Leads
  <2>3. Value(w, e.objects) # Null
    BY <2>1, <2>2, NotNull DEF Value
  <2>4. k \in Keys(x, d.objects) /\ k \in DOMAIN Entries(x)
    <3>1. k \in Keys(y, e.objects)
      BY <2>1, <2>3 DEF Keys
    <3> QED
      BY <1>1, <1>2, <3>1 DEF Keys
  <2>5. Same(Entries(x)[k], w, d, e, M)
    BY <2>1, <2>4 DEF Match
  <2>6. Leads(Entries(x)[k], d.objects)
    <3>1. CASE ~Leads(Entries(x)[k], d.objects)
      <4>1. Value(Entries(x)[k], d.objects) = Value(w, e.objects)
        BY <2>5, <3>1 DEF Same
      <4>2. isDictionary(Value(w, e.objects))
        BY <2>1, <2>2 DEF Value
      <4> QED
        BY <1>1, <2>4, <4>1, <4>2, EntriesOf
    <3> QED
      BY <3>1
  <2>7. w = M[Entries(x)[k]]
    BY <2>5, <2>6 DEF Same
  <2>8. Entries(x)[k] \in Led(x, d.objects)
    BY <1>1, <2>4, <2>6, EntriesOf DEF Led, Leads
  <2> QED
    BY <2>7, <2>8
<1>3. ASSUME NEW r \in Led(x, d.objects) PROVE M[r] \in Led(y, e.objects)
  <2>1. PICK k \in DOMAIN Entries(x) : r = Entries(x)[k] /\ isReference(r)
    BY <1>1 DEF Led, getDirectReferences
  <2>2. isDictionary(getObject(d.objects, r)) /\ Leads(r, d.objects)
    BY <2>1 DEF Led, Leads
  <2>3. Value(r, d.objects) # Null
    BY <2>1, <2>2, NotNull DEF Value
  <2>4. k \in Keys(x, d.objects)
    BY <2>1, <2>3 DEF Keys
  <2>5. Same(r, Entries(y)[k], d, e, M) /\ k \in DOMAIN Entries(y)
    BY <1>1, <2>1, <2>4 DEF Match, Keys
  <2>6. Entries(y)[k] = M[r] /\ Leads(M[r], e.objects)
    BY <2>2, <2>5 DEF Same
  <2> QED
    BY <1>1, <2>5, <2>6, EntriesOf DEF Led, Leads
<1> QED
  BY <1>2, <1>3

\* What stands for a live object is live, and without later references nothing
\* else is.
LEMMA LiveMatches ==
    ASSUME NEW d, NEW e, Stored(d), Stored(e), NEW M, Simulation(d, e, M)
    PROVE  /\ \A r \in Live(d) : M[r] \in Live(e)
           /\ NoLater(d) => Live(e) = {M[r] : r \in Live(d)}
<1>1. ASSUME NoLater(d) PROVE Live(e) \subseteq {M[r] : r \in Live(d)}
  <2> DEFINE S == {M[r] : r \in Live(d)}
  <2>1. Led(e.trailer, e.objects) \subseteq S
    <3>1. Later(d.trailer, d.objects) = {}
      BY <1>1 DEF NoLater, Of, Stored
    <3> QED
      BY <3>1, TrailerMatches, ReachedMatches
  <2>2. ASSUME NEW s \in S PROVE Led(getObject(e.objects, s), e.objects) \subseteq S
    <3>1. PICK r \in Live(d) : s = M[r]
      OBVIOUS
    <3>2. Later(getObject(d.objects, r), d.objects) = {}
      BY <1>1, LiveReference DEF NoLater
    <3>3. Led(getObject(e.objects, M[r]), e.objects) \subseteq {M[q] : q \in Led(getObject(d.objects, r), d.objects)}
      BY <3>2, ObjectMatches, ReachedMatches
    <3>4. Led(getObject(d.objects, r), d.objects) \subseteq Live(d)
      BY ObjectMatches
    <3> QED
      BY <3>1, <3>3, <3>4
  <2> HIDE DEF S
  <2>3. Live(e) \subseteq S
    BY <2>1, <2>2, LiveIsReached
  <2> QED
    BY <2>3 DEF S
<1>2. Live(d) \subseteq {r \in Live(d) : M[r] \in Live(e)}
  <2> DEFINE S == {r \in Live(d) : M[r] \in Live(e)}
  <2>1. Led(d.trailer, d.objects) \subseteq S
    BY TrailerMatches, ReachedMatches, LiveIsClosed
  <2>2. ASSUME NEW r \in S PROVE Led(getObject(d.objects, r), d.objects) \subseteq S
    <3>1. r \in Live(d) /\ M[r] \in Live(e)
      OBVIOUS
    <3>2. Led(getObject(d.objects, r), d.objects) \subseteq Live(d)
      BY <3>1, LiveIsClosed
    <3>3. Led(getObject(e.objects, M[r]), e.objects) \subseteq Live(e)
      BY <3>1, LiveIsClosed
    <3>4. \A q \in Led(getObject(d.objects, r), d.objects) : M[q] \in Led(getObject(e.objects, M[r]), e.objects)
      BY <3>1, ObjectMatches, ReachedMatches
    <3> QED
      BY <3>2, <3>3, <3>4
  <2> HIDE DEF S
  <2>3. Live(d) \subseteq S
    BY <2>1, <2>2, LiveIsReached
  <2> QED
    BY <2>3 DEF S
<1>3. \A r \in Live(d) : M[r] \in Live(e)
  BY <1>2
<1> QED
  BY <1>1, <1>3

\* The pages that can be reached.
PagesOf(d) == {r \in Live(d) : Type(getObject(d.objects, r)) = "Page"}

\* There are finitely many live objects.
LEMMA LiveIsFinite ==
    ASSUME NEW d, Stored(d)
    PROVE  IsFiniteSet(Live(d))
<1> DEFINE f == [i \in DOMAIN d.objects |-> ReferenceTo(d.objects, i)]
           T == {f[i] : i \in DOMAIN d.objects}
<1>1. IsFiniteSet(DOMAIN d.objects) /\ DOMAIN f = DOMAIN d.objects
  BY ObjectsOf
<1>2. Live(d) \in SUBSET T
  BY LiveReference
<1>3. IsFiniteSet(T)
  <2> HIDE DEF f
  <2> QED BY <1>1, FiniteImage
<1> HIDE DEF T
<1> QED
  BY <1>2, <1>3, FS_Subset

\* Pages are not confused: there are no fewer in e than in d, and without later
\* references as many.
LEMMA SimulationKeepsPages ==
    ASSUME NEW d, NEW e, Stored(d), Stored(e), NEW M, Simulation(d, e, M)
    PROVE  /\ Cardinality(PagesOf(d)) <= Cardinality(PagesOf(e))
           /\ NoLater(d) => Cardinality(PagesOf(e)) = Cardinality(PagesOf(d))
<1> DEFINE f == [r \in PagesOf(d) |-> M[r]]
<1>1. \A r \in Live(d) : Type(getObject(d.objects, r)) = Type(getObject(e.objects, M[r]))
  BY DEF Simulation, Match
<1>2. \A r \in PagesOf(d) : f[r] \in PagesOf(e)
  BY <1>1, LiveMatches DEF PagesOf
<1>3. NoLater(d) => \A s \in PagesOf(e) : \E r \in PagesOf(d) : f[r] = s
  BY <1>1, LiveMatches DEF PagesOf
<1>4. \A r, s \in PagesOf(d) : f[r] = f[s] => r = s
  BY DEF PagesOf, Simulation, PagesApart
<1>5. f \in [PagesOf(d) -> PagesOf(e)]
  BY <1>2
<1> HIDE DEF f
<1>6. f \in Injection(PagesOf(d), PagesOf(e))
  BY <1>4, <1>5 DEF Injection, IsInjective
<1>7. NoLater(d) => f \in Surjection(PagesOf(d), PagesOf(e))
  BY <1>3, <1>5 DEF Surjection
<1>8. IsFiniteSet(PagesOf(e))
  <2>1. PagesOf(e) \in SUBSET Live(e)
    BY DEF PagesOf
  <2> QED
    BY <2>1, LiveIsFinite, FS_Subset
<1>9. /\ Cardinality(PagesOf(d)) <= Cardinality(PagesOf(e))
      /\ Cardinality(PagesOf(d)) = Cardinality(PagesOf(e)) <=> f \in Surjection(PagesOf(d), PagesOf(e))
  BY <1>6, <1>8, FS_Injection
<1> QED
  BY <1>7, <1>9

\* One after the other.
LEMMA SimulationsCompose ==
    ASSUME NEW d, NEW e, NEW f, Stored(d), Stored(e), Stored(f),
           NEW M, Simulation(d, e, M), Tracks(d, e, M), NEW N, Simulation(e, f, N)
    PROVE  Simulation(d, f, [r \in Live(d) |-> N[M[r]]])
<1> DEFINE P == [r \in Live(d) |-> N[M[r]]]
<1>1. ASSUME NEW x \in Of(d), NEW y \in Of(e), NEW z \in Of(f), Match(x, y, d, e, M), Match(y, z, e, f, N),
             Led(x, d.objects) \subseteq Live(d), Later(y, e.objects) \subseteq Later(x, d.objects)
      PROVE  Match(x, z, d, f, P)
  <2>1. ASSUME NEW k \in Keys(x, d.objects) PROVE Same(Entries(x)[k], Entries(z)[k], d, f, P)
    <3> DEFINE u == Entries(x)[k]
               v == Entries(y)[k]
               w == Entries(z)[k]
    <3>1. k \in Keys(y, e.objects)
      BY <1>1 DEF Match
    <3>2. Same(u, v, d, e, M) /\ Same(v, w, e, f, N)
      BY <1>1, <3>1 DEF Match
    <3>3. CASE Leads(u, d.objects)
      <4>1. v = M[u] /\ Leads(v, e.objects)
        BY <3>2, <3>3 DEF Same
      <4>2. w = N[v] /\ Leads(w, f.objects)
        BY <3>2, <4>1 DEF Same
      <4>3. u \in Live(d)
        BY <1>1, <3>3, EntriesOf DEF Led, Leads, Match, Keys
      <4> QED
        BY <3>3, <4>1, <4>2, <4>3 DEF Same
    <3>4. CASE ~Leads(u, d.objects)
      <4>1. Value(u, d.objects) = Value(v, e.objects)
        BY <3>2, <3>4 DEF Same
      <4>2. ~Leads(v, e.objects)
        <5>1. \/ Leads(v, e.objects) /\ u \in Live(d)
              \/ ~Leads(v, e.objects)
          BY <1>1, SameValues DEF Leads
        <5>2. isReference(u) => ~isDictionary(getObject(d.objects, u))
          BY <3>4 DEF Leads
        <5> QED
          BY <5>1, <5>2, LiveReference
      <4>3. Value(v, e.objects) = Value(w, f.objects)
        BY <3>2, <4>2 DEF Same
      <4> QED
        BY <3>4, <4>1, <4>3 DEF Same
    <3> HIDE DEF u, v, w
    <3> QED
      BY <3>3, <3>4 DEF u, w
  <2>2. Keys(x, d.objects) = Keys(z, f.objects) \ Later(x, d.objects)
    BY <1>1 DEF Match
  <2> HIDE DEF P
  <2> QED
    BY <1>1, <2>1, <2>2 DEF Match
<1>2. Match(d.trailer, f.trailer, d, f, P)
  <2>1. e.trailer \in Of(e) /\ f.trailer \in Of(f) /\ Match(e.trailer, f.trailer, e, f, N)
    BY TrailerMatches
  <2>2. /\ d.trailer \in Of(d) /\ Match(d.trailer, e.trailer, d, e, M) /\ Led(d.trailer, d.objects) \subseteq Live(d)
        /\ Later(e.trailer, e.objects) \subseteq Later(d.trailer, d.objects)
    BY TrailerMatches DEF Tracks
  <2> HIDE DEF P
  <2> QED
    BY <1>1, <2>1, <2>2
<1>3. ASSUME NEW r \in Live(d)
      PROVE  Match(getObject(d.objects, r), getObject(f.objects, P[r]), d, f, P)
  <2>1. M[r] \in Live(e) /\ P[r] = N[M[r]]
    BY LiveMatches
  <2>2. /\ getObject(d.objects, r) \in Of(d) /\ getObject(e.objects, M[r]) \in Of(e)
        /\ Match(getObject(d.objects, r), getObject(e.objects, M[r]), d, e, M)
        /\ Led(getObject(d.objects, r), d.objects) \subseteq Live(d)
        /\ Later(getObject(e.objects, M[r]), e.objects) \subseteq Later(getObject(d.objects, r), d.objects)
    BY ObjectMatches DEF Tracks
  <2>3. /\ getObject(f.objects, N[M[r]]) \in Of(f)
        /\ Match(getObject(e.objects, M[r]), getObject(f.objects, N[M[r]]), e, f, N)
    BY <2>1, ObjectMatches
  <2> HIDE DEF P
  <2> QED
    BY <1>1, <2>1, <2>2, <2>3
<1>4. ASSUME NEW r \in Live(d), NEW s \in Live(d), P[r] = P[s], Type(getObject(d.objects, r)) = "Page"
      PROVE  r = s
  <2>1. M[r] \in Live(e) /\ M[s] \in Live(e)
    BY LiveMatches
  <2>2. Type(getObject(e.objects, M[r])) = "Page"
    BY <1>4 DEF Simulation, Match
  <2>3. M[r] = M[s]
    BY <1>4, <2>1, <2>2 DEF Simulation, PagesApart
  <2> QED
    BY <1>4, <2>3 DEF Simulation, PagesApart
<1>5. P = [r \in Live(d) |-> P[r]]
  OBVIOUS
<1> HIDE DEF P
<1>6. PagesApart(d, P)
  BY <1>4 DEF PagesApart
<1>7. Simulation(d, f, P)
  BY <1>2, <1>3, <1>5, <1>6 DEF Simulation
<1> QED
  BY <1>7 DEF P

\* That is transitive.
LEMMA SimulatesThrough ==
    ASSUME NEW d, NEW e, NEW f, Stored(d), Stored(e), Stored(f), Simulates(d, e), Simulates(e, f)
    PROVE  Simulates(d, f)
<1>1. PICK M : Simulation(d, e, M) /\ Tracks(d, e, M)
  BY DEF Simulates
<1>2. PICK N : Simulation(e, f, N) /\ Tracks(e, f, N)
  BY DEF Simulates
<1> DEFINE P == [r \in Live(d) |-> N[M[r]]]
<1>3. Simulation(d, f, P)
  BY <1>1, <1>2, SimulationsCompose
<1>4. \A r \in Live(d) : M[r] \in Live(e) /\ P[r] = N[M[r]]
  BY <1>1, LiveMatches
<1> HIDE DEF P
<1>5. Tracks(d, f, P)
  BY <1>1, <1>2, <1>4 DEF Tracks
<1> QED
  BY <1>3, <1>5 DEF Simulates

\* Of a document with itself.
LEMMA SimulatesItself ==
    ASSUME NEW d, Stored(d)
    PROVE  /\ Simulation(d, d, [r \in Live(d) |-> r])
           /\ Tracks(d, d, [r \in Live(d) |-> r])
<1> DEFINE M == [r \in Live(d) |-> r]
<1>1. ASSUME NEW x \in Of(d), isDictionary(x), Led(x, d.objects) \subseteq Live(d) PROVE Match(x, x, d, d, M)
  <2>1. ASSUME NEW k \in Keys(x, d.objects) PROVE Same(Entries(x)[k], Entries(x)[k], d, d, M)
    <3>1. Leads(Entries(x)[k], d.objects) => Entries(x)[k] \in Live(d)
      BY <1>1, EntriesOf DEF Leads, Led, Keys
    <3> QED
      BY <3>1 DEF Same
  <2>2. Keys(x, d.objects) = Keys(x, d.objects) \ Later(x, d.objects)
    BY <1>1, LaterIsNull
  <2> HIDE DEF M
  <2> QED
    BY <1>1, <2>1, <2>2 DEF Match
<1>2. Match(d.trailer, d.trailer, d, d, M)
  <2> HIDE DEF M
  <2>1. d.trailer \in Of(d) /\ isDictionary(d.trailer)
    BY DEF Of, Stored
  <2> QED
    BY <1>1, <2>1, LiveIsClosed
<1>3. ASSUME NEW r \in Live(d) PROVE Match(getObject(d.objects, r), getObject(d.objects, M[r]), d, d, M)
  <2>1. M[r] = r
    OBVIOUS
  <2> HIDE DEF M
  <2> QED
    BY <1>1, <2>1, LiveReference, LiveIsClosed
<1> QED
  BY <1>2, <1>3 DEF Simulation, PagesApart, Tracks

-----------------------------------------------------------------------------
(* Operations that keep every object where it is.                          *)

\* y is x without null entries, with values embedded, or of another encoding.
Rewritten(x, y, d) ==
    /\ y = Dictionary(Type(x), Content(y), Entries(y))
    /\ Decoded(Content(x)) = Decoded(Content(y))
    /\ Entries(y) = [k \in DOMAIN Entries(y) |-> Entries(y)[k]]
    /\ DOMAIN Entries(y) \subseteq DOMAIN Entries(x)
    /\ \A k \in DOMAIN Entries(x) \ DOMAIN Entries(y) : Entries(x)[k] = Null
    /\ \A k \in DOMAIN Entries(y) :
           \/ Entries(y)[k] = Entries(x)[k]
           \/ /\ isReference(Entries(x)[k])
              /\ Entries(y)[k] = getObject(d.objects, Entries(x)[k]) /\ ~isDictionary(Entries(y)[k])

\* No reference leads to a reference.
LEMMA NeverAReference ==
    ASSUME NEW d, Stored(d), NEW r
    PROVE  ~isReference(getObject(d.objects, r))
<1>1. CASE getObject(d.objects, r) = Null
  BY <1>1, NotNull
<1>2. CASE getObject(d.objects, r) # Null
  BY <1>2, ObjectsOf DEF Object
<1> QED
  BY <1>1, <1>2

\* A rewritten dictionary refers to nothing new.
LEMMA RewrittenIsObject ==
    ASSUME NEW d, Stored(d), NEW x \in Of(d), isDictionary(x), NEW y, Rewritten(x, y, d)
    PROVE  /\ Object(y) /\ isDictionary(y) /\ Type(y) = Type(x)
           /\ getDirectReferences(y) \subseteq getDirectReferences(x)
<1>1. isDictionary(y) /\ ~isReference(y) /\ Type(y) = Type(x)
  BY DictionaryParts DEF Rewritten
<1>2. Object(x)
  BY ObjectsOf
<1>3. ASSUME NEW k \in DOMAIN Entries(y)
      PROVE  /\ ~isDictionary(Entries(y)[k])
             /\ isReference(Entries(y)[k]) => Entries(y)[k] \in getDirectReferences(x)
  <2>1. k \in DOMAIN Entries(x)
    BY DEF Rewritten
  <2>2. CASE Entries(y)[k] = Entries(x)[k]
    BY <2>1, <2>2, EntriesOf
  <2>3. CASE Entries(y)[k] # Entries(x)[k]
    BY <2>3, NeverAReference DEF Rewritten
  <2> QED
    BY <2>2, <2>3
<1>4. getDirectReferences(y) \subseteq getDirectReferences(x)
  BY <1>3 DEF getDirectReferences
<1>5. y = Dictionary(Type(y), Content(y), Entries(y)) /\ Entries(y) = [k \in DOMAIN Entries(y) |-> Entries(y)[k]]
  BY <1>1 DEF Rewritten
<1>6. \A r \in getDirectReferences(y) : r = Reference(r[2], r[3]) /\ r[2] \in Nat /\ r[3] \in Nat
  BY <1>2, <1>4 DEF Object
<1> QED
  BY <1>1, <1>3, <1>4, <1>5, <1>6 DEF Object

\* Entries that say the same are null together.
LEMMA SameNull ==
    ASSUME NEW d, NEW e, NEW M, NEW v, NEW w, Same(v, w, d, e, M)
    PROVE  Value(v, d.objects) = Null <=> Value(w, e.objects) = Null
BY NotNull DEF Same, Leads, Value

\* If all that is reached is only rewritten, the document says the same.
LEMMA InPlace ==
    ASSUME NEW d, NEW e, Stored(d), Stored(e), Rewritten(d.trailer, e.trailer, d),
           \A r \in getReferences(d.trailer, d.objects) :
               IF isDictionary(getObject(d.objects, r))
               THEN Rewritten(getObject(d.objects, r), getObject(e.objects, r), d)
               ELSE getObject(e.objects, r) = getObject(d.objects, r)
    PROVE  Simulation(d, e, [r \in Live(d) |-> r])
<1> DEFINE M == [r \in Live(d) |-> r]
           R == getReferences(d.trailer, d.objects)
<1>0. \A x \in {d.trailer} \cup {d.objects[i].object : i \in DOMAIN d.objects} :
          \A r \in getDirectReferences(x) : r = Reference(r[2], r[3])
  <2>1. \A x \in Of(d) : Object(x)
    BY ObjectsOf
  <2> QED
    BY <2>1 DEF Object, Of
<1>1. /\ getDirectReferences(d.trailer) \subseteq R
      /\ \A r \in R : getDirectReferences(getObject(d.objects, r)) \subseteq R
  BY <1>0, ReferencesAreClosed, ObjectsOf
<1>2. \A r \in R : /\ isDictionary(getObject(d.objects, r)) <=> isDictionary(getObject(e.objects, r))
                   /\ isDictionary(getObject(d.objects, r)) \/ getObject(e.objects, r) = getObject(d.objects, r)
  <2>1. ASSUME NEW x, NEW y, Rewritten(x, y, d) PROVE isDictionary(y)
    BY <2>1, DictionaryParts DEF Rewritten
  <2> HIDE DEF R
  <2> QED
    BY <2>1 DEF R
<1>3. ASSUME NEW x \in Of(d), isDictionary(x), getDirectReferences(x) \subseteq R, NEW y, Rewritten(x, y, d)
      PROVE  Match(x, y, d, e, M)
  <2> HIDE DEF M
  <2>1. isDictionary(y) /\ Type(x) = Type(y) /\ Decoded(Content(x)) = Decoded(Content(y))
    BY <1>3, DictionaryParts DEF Rewritten
  <2>2. ASSUME NEW k \in DOMAIN Entries(y)
        PROVE  k \in DOMAIN Entries(x) /\ Same(Entries(x)[k], Entries(y)[k], d, e, M)
    <3> DEFINE v == Entries(x)[k]
               w == Entries(y)[k]
    <3>1. k \in DOMAIN Entries(x)
      BY <1>3, <2>2 DEF Rewritten
    <3>2. /\ ~isDictionary(v)
          /\ isReference(v) => v \in R
          /\ isReference(v) => v \in getDirectReferences(x)
      BY <1>3, <3>1, EntriesOf
    <3>3. w = v \/ (isReference(v) /\ w = getObject(d.objects, v) /\ ~isDictionary(w))
      BY <1>3, <2>2 DEF Rewritten
    <3> HIDE DEF v, w
    <3>4. ASSUME Leads(v, d.objects) PROVE Same(v, w, d, e, M)
      <4>1. w = v /\ v \in Live(d)
        BY <3>2, <3>3, <3>4 DEF Leads, Live
      <4>2. Leads(w, e.objects)
        BY <1>2, <3>2, <3>4, <4>1 DEF Leads
      <4> QED
        BY <3>4, <4>1, <4>2 DEF Same, M
    <3>5. ASSUME ~Leads(v, d.objects), w = v PROVE Same(v, w, d, e, M)
      <4>1. Value(v, d.objects) = Value(w, e.objects)
        BY <1>2, <3>2, <3>5 DEF Leads, Value
      <4> QED
        BY <3>5, <4>1 DEF Same
    <3>6. ASSUME ~Leads(v, d.objects), isReference(v), w = getObject(d.objects, v) PROVE Same(v, w, d, e, M)
      <4>1. Value(v, d.objects) = Value(w, e.objects)
        BY <3>6, NeverAReference DEF Value
      <4> QED
        BY <3>6, <4>1 DEF Same
    <3> QED
      BY <3>1, <3>3, <3>4, <3>5, <3>6 DEF v, w
  <2>3. \A k \in DOMAIN Entries(y) : k \in Keys(x, d.objects) <=> k \in Keys(y, e.objects)
    BY <2>2, SameNull DEF Keys
  <2>4. \A k \in Keys(x, d.objects) : k \in DOMAIN Entries(y)
    <3>1. Value(Null, d.objects) = Null
      BY NotNull DEF Value
    <3> QED
      BY <1>3, <3>1 DEF Keys, Rewritten
  <2>5. Keys(x, d.objects) = Keys(y, e.objects)
    BY <2>3, <2>4 DEF Keys
  <2>6. Keys(x, d.objects) = Keys(y, e.objects) \ Later(x, d.objects)
    BY <1>3, <2>5, LaterIsNull
  <2> QED
    BY <1>3, <2>1, <2>2, <2>4, <2>6 DEF Match
<1>4. Match(d.trailer, e.trailer, d, e, M)
  <2>1. isDictionary(d.trailer) /\ d.trailer \in Of(d)
    BY DEF Stored, Of
  <2> HIDE DEF M
  <2> QED
    BY <1>1, <1>3, <2>1
<1>5. ASSUME NEW r \in Live(d) PROVE Match(getObject(d.objects, r), getObject(e.objects, M[r]), d, e, M)
  <2>1. M[r] = r /\ r \in R /\ isDictionary(getObject(d.objects, r)) /\ getObject(d.objects, r) \in Of(d)
    BY LiveReference DEF Live
  <2>2. Rewritten(getObject(d.objects, r), getObject(e.objects, r), d)
    BY <2>1
  <2> HIDE DEF M
  <2> QED
    BY <1>1, <1>3, <2>1, <2>2
<1>6. PagesApart(d, M) /\ M = [r \in Live(d) |-> M[r]]
  BY DEF PagesApart
<1> HIDE DEF M
<1>7. Simulation(d, e, M)
  BY <1>4, <1>5, <1>6 DEF Simulation
<1> QED
  BY <1>7 DEF M

-----------------------------------------------------------------------------
(* Operations that replace references.                                     *)

\* replaceReferences on one value.
Renamed(x, map) == IF x \in DOMAIN map THEN map[x] ELSE x

\* replaceReferences renames the entries of a dictionary and nothing else.
LEMMA Replaced ==
    ASSUME NEW map, \A r \in DOMAIN map : isReference(r) /\ isReference(map[r]), NEW x
    PROVE  LET y == replaceReferences(x, map)
           IN  /\ isDictionary(y) <=> isDictionary(x)
               /\ ~isDictionary(x) => y = x
               /\ isDictionary(x) => /\ y = Dictionary(Type(x), Content(x), Entries(y))
                                     /\ Entries(y) = [k \in DOMAIN Entries(x) |-> Renamed(Entries(x)[k], map)]
<1> DEFINE y == replaceReferences(x, map)
           f == [k \in DOMAIN Entries(x) |-> Renamed(Entries(x)[k], map)]
<1>1. CASE ~isDictionary(x)
  BY <1>1 DEF replaceReferences, Updated
<1>2. CASE isDictionary(x)
  <2>1. y = Dictionary(Type(x), Content(x), f)
    BY <1>2 DEF replaceReferences, Updated, Renamed
  <2> HIDE DEF y, f
  <2>2. Entries(y) = f /\ isDictionary(y)
    BY <2>1, DictionaryParts
  <2> QED
    BY <1>2, <2>1, <2>2 DEF f, y
<1> QED
  BY <1>1, <1>2

\* A renaming that makes no reference a later one makes no key one.
LEMMA LaterRenamed ==
    ASSUME NEW map, \A r \in DOMAIN map : isReference(r) /\ isReference(map[r]),
           NEW x, isDictionary(x), NEW a, NEW b,
           \A r \in getDirectReferences(x) : IsLater(Renamed(r, map), b) => IsLater(r, a)
    PROVE  Later(replaceReferences(x, map), b) \subseteq Later(x, a)
<1> DEFINE y == replaceReferences(x, map)
<1>1. Entries(y) = [k \in DOMAIN Entries(x) |-> Renamed(Entries(x)[k], map)]
  BY Replaced
<1> HIDE DEF y
<1>2. ASSUME NEW k \in Later(y, b) PROVE k \in Later(x, a)
  <2>1. /\ k \in DOMAIN Entries(x) /\ isReference(Entries(y)[k]) /\ IsLater(Entries(y)[k], b)
        /\ Entries(y)[k] = Renamed(Entries(x)[k], map)
    BY <1>1, LaterIs
  <2>2. isReference(Entries(x)[k])
    BY <2>1 DEF Renamed
  <2>3. Entries(x)[k] \in getDirectReferences(x)
    BY <2>1, <2>2 DEF getDirectReferences
  <2> QED
    BY <2>1, <2>2, <2>3, LaterIs
<1> QED
  BY <1>2 DEF y

\* If a renaming of references and what they lead to fit each other,
\* the document says the same.
LEMMA InOtherWords ==
    ASSUME NEW d, NEW e, Stored(d), Stored(e),
           NEW map, \A r \in DOMAIN map : isReference(r) /\ isReference(map[r]),
           e.trailer = replaceReferences(d.trailer, map),
           \A x \in Of(d) : \A r \in getDirectReferences(x) :
               /\ \/ getObject(e.objects, Renamed(r, map)) = replaceReferences(getObject(d.objects, r), map)
                  \/ IsLater(r, d.objects)
               /\ IsLater(Renamed(r, map), e.objects) => IsLater(r, d.objects),
           PagesApart(d, [r \in Live(d) |-> Renamed(r, map)])
    PROVE  Simulates(d, e)
<1> DEFINE M == [r \in Live(d) |-> Renamed(r, map)]
<1>1. ASSUME NEW x \in Of(d), isDictionary(x), Led(x, d.objects) \subseteq Live(d),
             NEW y, y = replaceReferences(x, map)
      PROVE  Match(x, y, d, e, M)
  <2>1. /\ isDictionary(y) /\ y = Dictionary(Type(x), Content(x), Entries(y))
        /\ Entries(y) = [k \in DOMAIN Entries(x) |-> Renamed(Entries(x)[k], map)]
    BY <1>1, Replaced
  <2>2. Type(y) = Type(x) /\ Content(y) = Content(x)
    BY <2>1, DictionaryParts
  <2>3. ASSUME NEW k \in DOMAIN Entries(x), k \notin Later(x, d.objects) PROVE Same(Entries(x)[k], Entries(y)[k], d, e, M)
    <3> DEFINE v == Entries(x)[k]
               w == Entries(y)[k]
    <3>1. w = Renamed(v, map)
      BY <2>1
    <3>2. /\ ~isDictionary(v)
          /\ isReference(v) => v \in getDirectReferences(x)
          /\ Leads(v, d.objects) => v \in Led(x, d.objects)
      BY <1>1, EntriesOf DEF Leads, Led
    <3>6. Leads(v, d.objects) => w = M[v]
      BY <1>1, <3>1, <3>2
    <3>7. isReference(v) => ~IsLater(v, d.objects)
      BY <2>3, LaterIs
    <3> HIDE DEF v, w, M
    <3>3. ASSUME isReference(v) PROVE Same(v, w, d, e, M)
      <4>1. isReference(w)
        BY <3>1, <3>3 DEF Renamed
      <4>2. getObject(e.objects, w) = replaceReferences(getObject(d.objects, v), map)
        BY <3>1, <3>2, <3>3, <3>7
      <4>3. /\ isDictionary(getObject(e.objects, w)) <=> isDictionary(getObject(d.objects, v))
            /\ ~isDictionary(getObject(d.objects, v)) => getObject(e.objects, w) = getObject(d.objects, v)
        BY <4>2, Replaced
      <4> QED
        BY <3>3, <3>6, <4>1, <4>3 DEF Same, Leads, Value
    <3>4. ASSUME ~isReference(v) PROVE Same(v, w, d, e, M)
      <4>1. w = v
        BY <3>1, <3>4 DEF Renamed
      <4> QED
        BY <3>4, <4>1 DEF Same, Leads, Value
    <3> QED
      BY <3>3, <3>4 DEF v, w
  <2> HIDE DEF M
  <2>4. DOMAIN Entries(y) = DOMAIN Entries(x)
    BY <2>1
  <2>7. Keys(x, d.objects) \cap Later(x, d.objects) = {}
    BY <1>1, LaterIsNull
  <2>8. \A k \in DOMAIN Entries(x) \ Later(x, d.objects) : k \in Keys(x, d.objects) <=> k \in Keys(y, e.objects)
    BY <2>3, <2>4, SameNull DEF Keys
  <2>9. Keys(x, d.objects) \subseteq DOMAIN Entries(x) /\ Keys(y, e.objects) \subseteq DOMAIN Entries(x)
    BY <2>4 DEF Keys
  <2>5. Keys(x, d.objects) = Keys(y, e.objects) \ Later(x, d.objects)
    BY <2>7, <2>8, <2>9
  <2>6. \A k \in Keys(x, d.objects) : Same(Entries(x)[k], Entries(y)[k], d, e, M)
    BY <2>3, <2>7, <2>9
  <2> QED
    BY <1>1, <2>1, <2>2, <2>5, <2>6 DEF Match
<1>6. \A x \in Of(d) : isDictionary(x) => Later(replaceReferences(x, map), e.objects) \subseteq Later(x, d.objects)
  BY LaterRenamed
<1>7. ASSUME NEW r \in Live(d)
      PROVE  getObject(e.objects, Renamed(r, map)) = replaceReferences(getObject(d.objects, r), map)
  <2>1. \E x \in Of(d) : r \in getDirectReferences(x)
    BY LiveFrom
  <2>2. ~IsLater(r, d.objects)
    BY LiveIsNotLater
  <2> QED
    BY <2>1, <2>2
<1>2. Match(d.trailer, e.trailer, d, e, M)
  <2> HIDE DEF M
  <2>1. isDictionary(d.trailer) /\ d.trailer \in Of(d)
    BY DEF Stored, Of
  <2> QED
    BY <1>1, <2>1, LiveIsClosed
<1>3. ASSUME NEW r \in Live(d) PROVE Match(getObject(d.objects, r), getObject(e.objects, M[r]), d, e, M)
  <2>1. M[r] = Renamed(r, map)
    OBVIOUS
  <2>3. getObject(e.objects, M[r]) = replaceReferences(getObject(d.objects, r), map)
    BY <1>7, <2>1
  <2> HIDE DEF M
  <2> QED
    BY <1>1, <2>3, LiveReference, LiveIsClosed
<1>4. M = [r \in Live(d) |-> M[r]]
  OBVIOUS
<1>8. \A r \in Live(d) : M[r] = Renamed(r, map)
  OBVIOUS
<1> HIDE DEF M
<1>5. PagesApart(d, M)
  BY DEF M
<1>9. Tracks(d, e, M)
  <2>1. d.trailer \in Of(d) /\ isDictionary(d.trailer)
    BY DEF Stored, Of
  <2>2. ASSUME NEW r \in Live(d)
        PROVE  Later(getObject(e.objects, M[r]), e.objects) \subseteq Later(getObject(d.objects, r), d.objects)
    BY <1>6, <1>7, <1>8, LiveReference
  <2> QED
    BY <1>6, <2>1, <2>2 DEF Tracks
<1>10. Simulation(d, e, M)
  BY <1>2, <1>3, <1>4, <1>5 DEF Simulation
<1> QED
  BY <1>9, <1>10 DEF Simulates

\* A reference that is found is in some object of the document.
LEMMA ReferenceFrom ==
    ASSUME NEW d, Stored(d), NEW r \in getReferences(d.trailer, d.objects)
    PROVE  /\ r = Reference(r[2], r[3])
           /\ \E x \in Of(d) : r \in getDirectReferences(x)
<1> DEFINE T == UNION {getDirectReferences(x) : x \in Of(d)}
<1>1. getDirectReferences(d.trailer) \subseteq T
  BY DEF Of
<1>2. ASSUME NEW s \in T PROVE getDirectReferences(getObject(d.objects, s)) \subseteq T
  BY NotNull, ObjectsOf
<1>3. getReferences(d.trailer, d.objects) \subseteq T
  <2> HIDE DEF T
  <2> QED BY <1>1, <1>2, ObjectsOf, ReferencesAreReachable
<1>4. PICK x \in Of(d) : r \in getDirectReferences(x)
  BY <1>3
<1>5. Object(x)
  BY ObjectsOf
<1> QED
  BY <1>4, <1>5 DEF Object

\* Without new references and generations no reference becomes a later one.
LEMMA LaterRewritten ==
    ASSUME NEW d, Stored(d), NEW x, NEW y, Rewritten(x, y, d), NEW b, DOMAIN b = DOMAIN d.objects,
           \A i \in DOMAIN b : b[i].generation = d.objects[i].generation
    PROVE  Later(y, b) \subseteq Later(x, d.objects)
<1> SUFFICES ASSUME NEW k \in Later(y, b) PROVE k \in Later(x, d.objects)
  OBVIOUS
<1>1. k \in DOMAIN Entries(y) /\ isReference(Entries(y)[k]) /\ IsLater(Entries(y)[k], b)
  BY LaterIs
<1>2. k \in DOMAIN Entries(x) /\ Entries(y)[k] = Entries(x)[k]
  BY <1>1, NeverAReference DEF Rewritten
<1>3. IsLater(Entries(x)[k], d.objects)
  BY <1>1, <1>2 DEF IsLater
<1> QED
  BY <1>1, <1>2, <1>3, LaterIs

\* What is said of every dictionary of a document is said of its parts.
LEMMA NoneIsLater ==
    ASSUME NEW d, NEW e,
           \A y \in Of(e) : isDictionary(y) =>
               \E x \in Of(d) : isDictionary(x) /\ Later(y, e.objects) \subseteq Later(x, d.objects)
    PROVE  NoLater(d) => NoLater(e)
BY DEF NoLater

\* A renaming does, if all of the new document are renamed parts of the old one.
LEMMA RenamedLater ==
    ASSUME NEW d, NEW e, NEW map, \A r \in DOMAIN map : isReference(r) /\ isReference(map[r]),
           \A x \in Of(d) : \A r \in getDirectReferences(x) :
               IsLater(Renamed(r, map), e.objects) => IsLater(r, d.objects),
           \A y \in Of(e) : y = Null \/ \E x \in Of(d) : y = replaceReferences(x, map)
    PROVE  NoLater(d) => NoLater(e)
<1> SUFFICES ASSUME NEW y \in Of(e), isDictionary(y)
             PROVE  \E x \in Of(d) : isDictionary(x) /\ Later(y, e.objects) \subseteq Later(x, d.objects)
  BY NoneIsLater
<1>1. PICK x \in Of(d) : y = replaceReferences(x, map)
  BY NotNull
<1>2. isDictionary(x)
  BY <1>1, Replaced
<1>3. Later(replaceReferences(x, map), e.objects) \subseteq Later(x, d.objects)
  BY <1>2, LaterRenamed
<1> QED
  BY <1>1, <1>2, <1>3

\* A dictionary that is left alone is rewritten.
LEMMA RewritesItself ==
    ASSUME NEW d, NEW x, Object(x), isDictionary(x)
    PROVE  Rewritten(x, x, d)
BY DEF Rewritten, Object

\* Every entry keeps its object, or the object is rewritten or, unused, removed.
InPlaceStep(d, e) ==
    /\ e.trailer = d.trailer
    /\ DOMAIN e.objects = DOMAIN d.objects
    /\ \A i \in DOMAIN d.objects :
           /\ Entry(e.objects[i]) /\ e.objects[i].generation = d.objects[i].generation
           /\ \/ e.objects[i].object = d.objects[i].object
              \/ /\ isDictionary(d.objects[i].object)
                 /\ Rewritten(d.objects[i].object, e.objects[i].object, d)
              \/ /\ e.objects[i].object = Null
                 /\ ReferenceTo(d.objects, i) \notin getReferences(d.trailer, d.objects)

\* Null may be in a storage.
LEMMA NullIsObject == Object(Null)
BY NotNull DEF Object

\* Such a step makes a storage of a storage, and no reference a later one.
LEMMA InPlaceStored ==
    ASSUME NEW d, NEW e, Stored(d), InPlaceStep(d, e)
    PROVE  Stored(e) /\ (NoLater(d) => NoLater(e))
<1>1. DOMAIN e.objects = DOMAIN d.objects /\ Count(e.objects) = Count(d.objects) /\ e.trailer = d.trailer
  BY DEF InPlaceStep, Count
<1>2. \A i \in DOMAIN d.objects : e.objects[i].generation = d.objects[i].generation
  BY DEF InPlaceStep
<1>3. ASSUME NEW i \in DOMAIN d.objects
      PROVE  /\ Object(e.objects[i].object)
             /\ isDictionary(e.objects[i].object) =>
                    /\ isDictionary(d.objects[i].object)
                    /\ Later(e.objects[i].object, e.objects) \subseteq Later(d.objects[i].object, d.objects)
  <2> DEFINE x == d.objects[i].object
             y == e.objects[i].object
  <2>1. x \in Of(d) /\ Object(x)
    BY ObjectsOf DEF Of
  <2>2. y = x \/ (isDictionary(x) /\ Rewritten(x, y, d)) \/ y = Null
    BY DEF InPlaceStep
  <2> HIDE DEF x, y
  <2>3. ASSUME isDictionary(x), Rewritten(x, y, d)
        PROVE  Object(y) /\ Later(y, e.objects) \subseteq Later(x, d.objects)
    BY <1>1, <1>2, <2>1, <2>3, RewrittenIsObject, LaterRewritten
  <2>4. CASE y = x
    BY <2>1, <2>3, <2>4, RewritesItself DEF x, y
  <2>5. CASE y = Null
    BY <2>5, NullIsObject, NotNull DEF y
  <2> QED
    BY <2>2, <2>3, <2>4, <2>5 DEF x, y
<1>4. \A i \in DOMAIN d.objects : Entry(e.objects[i])
  BY DEF InPlaceStep
<1>5. Later(e.trailer, e.objects) \subseteq Later(d.trailer, d.objects)
  <2>1. Rewritten(d.trailer, e.trailer, d)
    BY <1>1, RewritesItself DEF Stored
  <2> QED
    BY <1>1, <1>2, <2>1, LaterRewritten
<1>6. Stored(e)
  <2>1. /\ DOMAIN e.objects = 0 .. Count(e.objects) - 1 /\ IsFiniteSet(DOMAIN e.objects)
        /\ isDictionary(e.trailer) /\ Object(e.trailer)
    BY <1>1 DEF Stored
  <2>2. \A i \in DOMAIN e.objects : e.objects[i].generation \in 0 .. MaxGeneration
    BY <1>1, <1>2 DEF Stored
  <2> QED
    BY <1>1, <1>3, <1>4, <2>1, <2>2 DEF Stored
<1>7. NoLater(d) => NoLater(e)
  <2>1. d.trailer \in Of(d) /\ isDictionary(d.trailer) /\ \A i \in DOMAIN d.objects : d.objects[i].object \in Of(d)
    BY DEF Of, Stored
  <2>2. \A y \in Of(e) : y = e.trailer \/ \E i \in DOMAIN d.objects : y = e.objects[i].object
    BY <1>1 DEF Of
  <2> QED
    BY <1>3, <1>5, <2>1, <2>2, NoneIsLater
<1> QED
  BY <1>6, <1>7

\* What an operation makes of a storage: one that says the same.
Goes(d, e) == Stored(e) /\ Simulates(d, e) /\ (NoLater(d) => NoLater(e))

\* It says the same, then.
LEMMA InPlaceSimulates ==
    ASSUME NEW d, NEW e, Stored(d), InPlaceStep(d, e)
    PROVE  Goes(d, e)
<1>1. Stored(e) /\ (NoLater(d) => NoLater(e))
  BY InPlaceStored
<1>2. ASSUME NEW r \in getReferences(d.trailer, d.objects)
      PROVE  IF isDictionary(getObject(d.objects, r))
             THEN Rewritten(getObject(d.objects, r), getObject(e.objects, r), d)
             ELSE getObject(e.objects, r) = getObject(d.objects, r)
  <2> DEFINE i == r[2]
  <2>1. r = Reference(r[2], r[3])
    BY ReferenceFrom
  <2>2. DOMAIN e.objects = DOMAIN d.objects
        /\ (i \in DOMAIN d.objects => e.objects[i].generation = d.objects[i].generation)
    BY DEF InPlaceStep
  <2>3. CASE ~(i \in DOMAIN d.objects /\ d.objects[i].generation = r[3])
    <3>1. getObject(d.objects, r) = Null /\ getObject(e.objects, r) = Null
      BY <2>2, <2>3 DEF getObject
    <3> QED
      BY <3>1, NotNull
  <2>4. CASE i \in DOMAIN d.objects /\ d.objects[i].generation = r[3]
    <3>1. getObject(d.objects, r) = d.objects[i].object /\ getObject(e.objects, r) = e.objects[i].object
      BY <2>2, <2>4 DEF getObject
    <3>2. r = ReferenceTo(d.objects, i)
      BY <2>1, <2>4 DEF ReferenceTo
    <3>3. \/ e.objects[i].object = d.objects[i].object
          \/ /\ isDictionary(d.objects[i].object)
             /\ Rewritten(d.objects[i].object, e.objects[i].object, d)
      BY <2>4, <3>2 DEF InPlaceStep
    <3>4. isDictionary(d.objects[i].object) => Rewritten(d.objects[i].object, d.objects[i].object, d)
      BY <2>4, RewritesItself DEF Stored
    <3> QED
      BY <3>1, <3>3, <3>4
  <2> QED
    BY <2>3, <2>4
<1>3. Rewritten(d.trailer, e.trailer, d)
  BY RewritesItself DEF InPlaceStep, Stored
<1> DEFINE M == [r \in Live(d) |-> r]
<1>4. Simulation(d, e, M)
  BY <1>1, <1>2, <1>3, InPlace
<1>5. DOMAIN e.objects = DOMAIN d.objects /\ \A i \in DOMAIN e.objects : e.objects[i].generation = d.objects[i].generation
  BY DEF InPlaceStep
<1>6. ASSUME NEW r \in Live(d)
      PROVE  Later(getObject(e.objects, r), e.objects) \subseteq Later(getObject(d.objects, r), d.objects)
  <2>1. r \in getReferences(d.trailer, d.objects) /\ isDictionary(getObject(d.objects, r))
    BY DEF Live
  <2>2. Rewritten(getObject(d.objects, r), getObject(e.objects, r), d)
    BY <1>2, <2>1
  <2> QED
    BY <1>5, <2>2, LaterRewritten
<1>7. \A r \in Live(d) : M[r] = r
  OBVIOUS
<1> HIDE DEF M
<1>8. Tracks(d, e, M)
  BY <1>3, <1>5, <1>6, <1>7, LaterRewritten DEF Tracks
<1> QED
  BY <1>1, <1>4, <1>8 DEF Goes, Simulates

\* An entry whose object is replaced has its generation as before.
LEMMA EntryUpdated ==
    ASSUME NEW x, Entry(x), NEW o
    PROVE  LET y == [x EXCEPT !.object = o]
           IN  Entry(y) /\ y.object = o /\ y.generation = x.generation
<1>1. PICK p, g : x = [object |-> p, generation |-> g]
  BY DEF Entry
<1> QED
  BY <1>1 DEF Entry

\* m_storage is an array of entries, and its entries are records.
LEMMA StorageIs ==
    ASSUME Stored(Storage)
    PROVE  /\ Storage.objects = objects /\ Storage.trailer = trailer
           /\ \A i \in Indices : /\ Entry(objects[i])
                                 /\ objects[i].object \in Of(Storage) /\ Object(objects[i].object)
<1>1. Storage.objects = objects /\ Storage.trailer = trailer
  BY DEF Storage
<1> QED
  BY <1>1 DEF Stored, Of, Indices

\* An operation that rewrites objects, or frees those that are not reached,
\* keeps the meaning.
LEMMA InPlaceStorage ==
    ASSUME Stored(Storage), trailer' = trailer, DOMAIN objects' = DOMAIN objects,
           \A i \in DOMAIN objects :
               LET x == objects[i].object
                   y == objects'[i].object
               IN  /\ Entry(objects'[i]) /\ objects'[i].generation = objects[i].generation
                   /\ \/ y = x
                      \/ isDictionary(x) /\ Rewritten(x, y, Storage)
                      \/ y = Null /\ ReferenceTo(objects, i) \notin getReferences(trailer, objects)
    PROVE  Goes(Storage, Storage')
<1>1. /\ Storage.objects = objects /\ Storage.trailer = trailer
      /\ Storage'.objects = objects' /\ Storage'.trailer = trailer'
  BY DEF Storage
<1>2. InPlaceStep(Storage, Storage')
  <2> DEFINE d == Storage
             e == Storage'
  <2>1. d.objects = objects /\ d.trailer = trailer /\ e.objects = objects' /\ e.trailer = trailer'
    BY <1>1
  <2>2. \A i \in DOMAIN objects :
            /\ Entry(objects'[i]) /\ objects'[i].generation = objects[i].generation
            /\ \/ objects'[i].object = objects[i].object
               \/ isDictionary(objects[i].object) /\ Rewritten(objects[i].object, objects'[i].object, d)
               \/ /\ objects'[i].object = Null
                  /\ ReferenceTo(objects, i) \notin getReferences(trailer, objects)
    OBVIOUS
  <2> HIDE DEF d, e
  <2>3. InPlaceStep(d, e)
    BY <2>1, <2>2 DEF InPlaceStep
  <2> QED
    BY <2>3 DEF d, e
<1> QED
  BY <1>2, InPlaceSimulates

\* Embedding a simple object keeps the meaning,
LEMMA DereferenceSimulates ==
    ASSUME Stored(Storage), performDereferenceSimpleObjects
    PROVE  Goes(Storage, Storage')
<1>1. trailer' = trailer /\ objects' = UpdateAll(objects, LAMBDA o : Updated(o, Embedded))
  BY DEF performDereferenceSimpleObjects
<1>3. /\ DOMAIN objects' = Indices
      /\ \A i \in Indices : /\ objects'[i].object = Updated(objects[i].object, Embedded)
                            /\ Entry(objects'[i]) /\ objects'[i].generation = objects[i].generation
  <2>1. objects' = [i \in Indices |-> [objects[i] EXCEPT !.object = Updated(@, Embedded)]]
    BY <1>1 DEF UpdateAll, Indices
  <2>2. \A i \in Indices : objects'[i] = [objects[i] EXCEPT !.object = Updated(objects[i].object, Embedded)]
    BY <2>1
  <2> QED
    BY <2>1, <2>2, StorageIs, EntryUpdated
<1>4. ASSUME NEW i \in Indices
      PROVE  LET x == objects[i].object
                 y == objects'[i].object
             IN  y = x \/ (isDictionary(x) /\ Rewritten(x, y, Storage))
  <2> DEFINE x == objects[i].object
             f == [k \in DOMAIN Entries(x) |-> Embedded(Entries(x)[k])]
  <2>1. CASE ~isDictionary(x)
    BY <1>3, <2>1 DEF Updated
  <2>2. CASE isDictionary(x)
    <3>1. objects'[i].object = Dictionary(Type(x), Content(x), f)
      BY <1>3, <2>2 DEF Updated
    <3>2. \A k \in DOMAIN f :
              \/ f[k] = Entries(x)[k]
              \/ /\ isReference(Entries(x)[k])
                 /\ f[k] = getObject(Storage.objects, Entries(x)[k]) /\ ~isDictionary(f[k])
      BY StorageIs DEF Embedded
    <3>3. DOMAIN f = DOMAIN Entries(x) /\ f = [k \in DOMAIN f |-> f[k]]
      OBVIOUS
    <3> HIDE DEF f, x
    <3>4. Rewritten(x, Dictionary(Type(x), Content(x), f), Storage)
      BY <3>2, <3>3, DictionaryParts DEF Rewritten
    <3> QED
      BY <2>2, <3>1, <3>4 DEF x
  <2> QED
    BY <2>1, <2>2
<1> QED
  BY <1>1, <1>3, <1>4, InPlaceStorage DEF Indices

\* removing null entries does,
LEMMA RemoveNullSimulates ==
    ASSUME Stored(Storage), performRemoveNullObjects
    PROVE  Goes(Storage, Storage')
<1>1. trailer' = trailer /\ objects' = UpdateAll(objects, WithoutNulls)
  BY DEF performRemoveNullObjects
<1>3. /\ DOMAIN objects' = Indices
      /\ \A i \in Indices : /\ objects'[i].object = WithoutNulls(objects[i].object)
                            /\ Entry(objects'[i]) /\ objects'[i].generation = objects[i].generation
  <2>1. objects' = [i \in Indices |-> [objects[i] EXCEPT !.object = WithoutNulls(@)]]
    BY <1>1 DEF UpdateAll, Indices
  <2>2. \A i \in Indices : objects'[i] = [objects[i] EXCEPT !.object = WithoutNulls(objects[i].object)]
    BY <2>1
  <2> QED
    BY <2>1, <2>2, StorageIs, EntryUpdated
<1>4. ASSUME NEW i \in Indices
      PROVE  LET x == objects[i].object
                 y == objects'[i].object
             IN  y = x \/ (isDictionary(x) /\ Rewritten(x, y, Storage))
  <2> DEFINE x == objects[i].object
             f == [k \in {k \in DOMAIN Entries(x) : Entries(x)[k] # Null} |-> Entries(x)[k]]
  <2>1. CASE ~isDictionary(x)
    BY <1>3, <2>1 DEF WithoutNulls
  <2>2. CASE isDictionary(x)
    <3>1. objects'[i].object = Dictionary(Type(x), Content(x), f)
      BY <1>3, <2>2 DEF WithoutNulls
    <3>2. \A k \in DOMAIN f : f[k] = Entries(x)[k]
      OBVIOUS
    <3>3. f = [k \in DOMAIN f |-> f[k]] /\ DOMAIN f \subseteq DOMAIN Entries(x)
      OBVIOUS
    <3>4. \A k \in DOMAIN Entries(x) \ DOMAIN f : Entries(x)[k] = Null
      OBVIOUS
    <3> HIDE DEF f, x
    <3>5. Rewritten(x, Dictionary(Type(x), Content(x), f), Storage)
      BY <3>2, <3>3, <3>4, DictionaryParts DEF Rewritten
    <3> QED
      BY <2>2, <3>1, <3>5 DEF x
  <2> QED
    BY <2>1, <2>2
<1> QED
  BY <1>1, <1>3, <1>4, InPlaceStorage DEF Indices

\* recompressing streams does,
LEMMA RecompressSimulates ==
    ASSUME Stored(Storage), performRecompressFlateStreams
    PROVE  Goes(Storage, Storage')
<1>1. trailer' = trailer /\ objects' = UpdateAll(objects, Recompressed)
  BY DEF performRecompressFlateStreams
<1>3. /\ DOMAIN objects' = Indices
      /\ \A i \in Indices : /\ objects'[i].object = Recompressed(objects[i].object)
                            /\ Entry(objects'[i]) /\ objects'[i].generation = objects[i].generation
  <2>1. objects' = [i \in Indices |-> [objects[i] EXCEPT !.object = Recompressed(@)]]
    BY <1>1 DEF UpdateAll, Indices
  <2>2. \A i \in Indices : objects'[i] = [objects[i] EXCEPT !.object = Recompressed(objects[i].object)]
    BY <2>1
  <2> QED
    BY <2>1, <2>2, StorageIs, EntryUpdated
<1>4. ASSUME NEW i \in Indices
      PROVE  LET x == objects[i].object
                 y == objects'[i].object
             IN  y = x \/ (isDictionary(x) /\ Rewritten(x, y, Storage))
  <2> DEFINE x == objects[i].object
  <2>1. CASE ~(isDictionary(x) /\ Content(x) = "loose")
    BY <1>3, <2>1 DEF Recompressed
  <2>2. CASE isDictionary(x) /\ Content(x) = "loose"
    <3>1. objects'[i].object = Dictionary(Type(x), "tight", Entries(x))
      BY <1>3, <2>2 DEF Recompressed
    <3>2. Object(x)
      BY StorageIs
    <3> HIDE DEF x
    <3>3. Entries(x) = [k \in DOMAIN Entries(x) |-> Entries(x)[k]]
      BY <2>2, <3>2 DEF Object
    <3>4. Decoded(Content(x)) = Decoded("tight")
      BY <2>2 DEF Decoded
    <3>5. Rewritten(x, Dictionary(Type(x), "tight", Entries(x)), Storage)
      BY <3>3, <3>4, DictionaryParts DEF Rewritten
    <3> QED
      BY <2>2, <3>1, <3>5 DEF x
  <2> QED
    BY <2>1, <2>2
<1> QED
  BY <1>1, <1>3, <1>4, InPlaceStorage DEF Indices

\* and so does removing what getReferences does not find.
LEMMA RemoveUnusedSimulates ==
    ASSUME Stored(Storage), performRemoveUnusedObjects
    PROVE  Goes(Storage, Storage')
<1>1. /\ trailer' = trailer
      /\ objects' = [i \in Indices |-> IF i \in Unused THEN [objects[i] EXCEPT !.object = Null] ELSE objects[i]]
  BY DEF performRemoveUnusedObjects
<1>3. ASSUME NEW i \in Indices
      PROVE  /\ Entry(objects'[i]) /\ objects'[i].generation = objects[i].generation
             /\ \/ objects'[i].object = objects[i].object
                \/ /\ objects'[i].object = Null
                   /\ ReferenceTo(objects, i) \notin getReferences(trailer, objects)
  <2>1. Entry(objects[i])
    BY StorageIs
  <2>2. CASE i \in Unused
    <3>1. objects'[i] = [objects[i] EXCEPT !.object = Null]
      BY <1>1, <2>2
    <3> QED
      BY <2>1, <2>2, <3>1, EntryUpdated DEF Unused
  <2>3. CASE i \notin Unused
    BY <1>1, <2>1, <2>3
  <2> QED
    BY <2>2, <2>3
<1> QED
  BY <1>1, <1>3, InPlaceStorage DEF Indices

-----------------------------------------------------------------------------
(* Merging identical objects. *)

\* Renamed references stay references.
LEMMA ReplacedIsObject ==
    ASSUME NEW map, \A r \in DOMAIN map : isReference(r) /\ isReference(map[r]),
           NEW o, Object(o),
           \A r \in getDirectReferences(o) :
               LET w == Renamed(r, map)
               IN  w[2] \in Nat /\ w[3] \in Nat /\ w = Reference(w[2], w[3])
    PROVE  Object(replaceReferences(o, map))
<1> DEFINE y == replaceReferences(o, map)
<1>1. /\ isDictionary(y) <=> isDictionary(o)
      /\ ~isDictionary(o) => y = o
      /\ isDictionary(o) => /\ y = Dictionary(Type(o), Content(o), Entries(y))
                            /\ Entries(y) = [k \in DOMAIN Entries(o) |-> Renamed(Entries(o)[k], map)]
  BY Replaced
<1>2. CASE ~isDictionary(o)
  BY <1>1, <1>2
<1>3. CASE isDictionary(o)
  <2> HIDE DEF y
  <2>1. /\ ~isReference(y) /\ isDictionary(y) /\ Type(y) = Type(o) /\ Content(y) = Content(o)
        /\ DOMAIN Entries(y) = DOMAIN Entries(o)
    BY <1>1, <1>3, DictionaryParts
  <2>2. ASSUME NEW k \in DOMAIN Entries(y)
        PROVE  /\ ~isDictionary(Entries(y)[k])
               /\ isReference(Entries(y)[k]) =>
                      \E r \in getDirectReferences(o) : Entries(y)[k] = Renamed(r, map)
    <3> DEFINE v == Entries(o)[k]
    <3>1. Entries(y)[k] = Renamed(v, map)
      BY <1>1, <1>3, <2>1
    <3>2. ~isDictionary(v)
      BY <1>3, <2>1 DEF Object
    <3>3. isReference(v) => v \in getDirectReferences(o)
      BY <1>3, <2>1 DEF getDirectReferences
    <3> HIDE DEF v
    <3>4. \A w : isReference(w) => ~isDictionary(w)
      BY DEF isReference, isDictionary
    <3> QED
      BY <3>1, <3>2, <3>3, <3>4 DEF Renamed
  <2>3. \A w \in getDirectReferences(y) : \E r \in getDirectReferences(o) : w = Renamed(r, map)
    BY <2>2 DEF getDirectReferences
  <2>4. /\ y = Dictionary(Type(y), Content(y), Entries(y))
        /\ Entries(y) = [k \in DOMAIN Entries(y) |-> Entries(y)[k]]
    BY <1>1, <1>3, <2>1
  <2>5. \A w \in getDirectReferences(y) : w[2] \in Nat /\ w[3] \in Nat /\ w = Reference(w[2], w[3])
    BY <2>3
  <2>6. Object(y)
    BY <2>1, <2>2, <2>4, <2>5 DEF Object
  <2> QED
    BY <2>6 DEF y
<1> QED
  BY <1>2, <1>3

\* Null refers to nothing that could be renamed.
LEMMA NullReplaced == ASSUME NEW map PROVE replaceReferences(Null, map) = Null
BY NotNull DEF replaceReferences, Updated

\* The entries of an array of records, updated.
LEMMA AllReplaced ==
    ASSUME NEW entries, \A i \in DOMAIN entries : Entry(entries[i]), NEW map, NEW new,
           new = [i \in DOMAIN entries |-> [entries[i] EXCEPT !.object = replaceReferences(@, map)]]
    PROVE  /\ DOMAIN new = DOMAIN entries
           /\ \A i \in DOMAIN entries : /\ new[i].object = replaceReferences(entries[i].object, map)
                                        /\ Entry(new[i]) /\ new[i].generation = entries[i].generation
           /\ \A r : getObject(new, r) = replaceReferences(getObject(entries, r), map)
<1>2. DOMAIN new = DOMAIN entries
  OBVIOUS
<1>4. ASSUME NEW i \in DOMAIN entries
      PROVE  /\ new[i].object = replaceReferences(entries[i].object, map)
             /\ Entry(new[i]) /\ new[i].generation = entries[i].generation
  <2> DEFINE o == replaceReferences(entries[i].object, map)
  <2>1. new[i] = [entries[i] EXCEPT !.object = o]
    OBVIOUS
  <2> HIDE DEF o
  <2>2. new[i].object = o /\ Entry(new[i]) /\ new[i].generation = entries[i].generation
    BY <2>1, EntryUpdated
  <2> QED
    BY <2>2 DEF o
<1>5. ASSUME NEW r PROVE getObject(new, r) = replaceReferences(getObject(entries, r), map)
  BY <1>2, <1>4, NullReplaced DEF getObject
<1> QED
  BY <1>2, <1>4, <1>5

\* The numbers of the entries, and their generations.
LEMMA IndicesAre ==
    ASSUME Stored(Storage)
    PROVE  /\ Indices = 0 .. Count(objects) - 1 /\ IsFiniteSet(Indices) /\ Count(objects) \in Nat
           /\ \A i \in Indices : i \in Nat /\ objects[i].generation \in 0 .. MaxGeneration
                                 /\ objects[i].generation \in Nat
<1>1. Indices = 0 .. Count(objects) - 1 /\ IsFiniteSet(Indices)
  BY StorageIs DEF Stored, Indices
<1>2. Count(objects) \in Nat
  BY <1>1, FS_CardinalityType DEF Count, Indices
<1>3. \A i \in Indices : objects[i].generation \in 0 .. MaxGeneration
  BY StorageIs DEF Stored, Indices
<1> QED
  BY <1>1, <1>2, <1>3, GenerationAssumption

\* A duplicate and the one that stands for it are the same, and no pages.
LEMMA FirstIsIdentical ==
    ASSUME Stored(Storage), NEW i \in Duplicates
    PROVE  /\ i \in Indices /\ First(i) \in Indices
           /\ objects[First(i)].object = objects[i].object
           /\ Mergeable(objects[i].object) /\ Mergeable(objects[First(i)].object)
<1>1. i \in Indices /\ i \in Identical(i)
  BY DEF Duplicates
<1>2. Identical(i) \subseteq Nat
  <2>1. Indices = 0 .. Count(objects) - 1
    BY StorageIs DEF Stored, Indices
  <2> QED
    BY <2>1 DEF Identical
<1>3. \E j \in Identical(i) : \A k \in Identical(i) : j <= k
  BY <1>1, <1>2, LeastNumber
<1>4. First(i) \in Identical(i)
  BY <1>3 DEF First
<1> QED
  BY <1>1, <1>4 DEF Identical

\* A reference and the one that is put in its place lead to the same object.
LEMMA MergeMapIs ==
    ASSUME Stored(Storage)
    PROVE  /\ \A r \in DOMAIN MergeMap :
                  /\ isReference(r) /\ isReference(MergeMap[r])
                  /\ getObject(objects, MergeMap[r]) = getObject(objects, r)
                  /\ Mergeable(getObject(objects, r))
                  /\ LET w == MergeMap[r]
                     IN  /\ w = Reference(w[2], w[3]) /\ w[2] \in Nat /\ w[3] \in Nat
                         /\ w[3] <= objects[w[2]].generation
<1> SUFFICES ASSUME NEW r \in DOMAIN MergeMap
             PROVE  /\ isReference(r) /\ isReference(MergeMap[r])
                    /\ getObject(objects, MergeMap[r]) = getObject(objects, r)
                    /\ Mergeable(getObject(objects, r))
                    /\ LET w == MergeMap[r]
                       IN  /\ w = Reference(w[2], w[3]) /\ w[2] \in Nat /\ w[3] \in Nat
                           /\ w[3] <= objects[w[2]].generation
  OBVIOUS
<1>1. PICK i \in Duplicates : r = ReferenceTo(objects, i)
  BY DEF MergeMap
<1>2. r[2] = i /\ r[3] = objects[i].generation /\ isReference(r)
  BY <1>1, ReferenceParts DEF ReferenceTo
<1> DEFINE w == MergeMap[r]
<1>3. w = ReferenceTo(objects, First(i))
  BY <1>2 DEF MergeMap
<1>4. w[2] = First(i) /\ w[3] = objects[First(i)].generation /\ isReference(w) /\ w = Reference(w[2], w[3])
  <2> HIDE DEF w
  <2> QED BY <1>3, ReferenceParts DEF ReferenceTo
<1>5. /\ i \in Indices /\ First(i) \in Indices
      /\ objects[First(i)].object = objects[i].object /\ Mergeable(objects[i].object)
  BY FirstIsIdentical
<1>6. getObject(objects, r) = objects[i].object /\ getObject(objects, w) = objects[First(i)].object
  <2> DEFINE j == First(i)
  <2> HIDE DEF w, j
  <2>1. w[2] = j /\ w[3] = objects[j].generation /\ j \in Indices
    BY <1>4, <1>5 DEF j
  <2>2. getObject(objects, w) = objects[j].object
    BY <2>1 DEF getObject, Indices
  <2>3. getObject(objects, r) = objects[i].object
    BY <1>2, <1>5 DEF getObject, Indices
  <2> QED
    BY <2>2, <2>3 DEF j
<1>7. First(i) \in Nat /\ objects[First(i)].generation \in Nat
  <2>1. /\ Indices = 0 .. Count(objects) - 1
        /\ \A j \in Indices : objects[j].generation \in 0 .. MaxGeneration
    BY StorageIs DEF Stored, Indices
  <2>2. \A j \in Indices : j \in Nat /\ objects[j].generation \in Nat
    BY <2>1
  <2> QED
    BY <1>5, <2>2
<1> HIDE DEF w
<1>8. w[2] \in Nat /\ w[3] \in Nat /\ w[3] <= objects[w[2]].generation
  BY <1>4, <1>7
<1> QED
  BY <1>2, <1>4, <1>5, <1>6, <1>8 DEF w

\* Merging identical objects keeps the meaning.
LEMMA MergeSimulates ==
    ASSUME Stored(Storage), performMergeIdenticalObjects
    PROVE  Goes(Storage, Storage')
<1> DEFINE map == MergeMap
           d == Storage
           e == Storage'
<1>1. /\ trailer' = replaceReferences(trailer, map)
      /\ objects' = [i \in DOMAIN objects |-> [objects[i] EXCEPT !.object = replaceReferences(@, map)]]
  BY DEF performMergeIdenticalObjects, UpdateAll
<1>2. d.objects = objects /\ d.trailer = trailer /\ e.objects = objects' /\ e.trailer = trailer'
  BY DEF Storage
<1>3. \A r \in DOMAIN map :
          /\ isReference(r) /\ isReference(map[r])
          /\ getObject(objects, map[r]) = getObject(objects, r)
          /\ Mergeable(getObject(objects, r))
          /\ map[r] = Reference(map[r][2], map[r][3]) /\ map[r][2] \in Nat /\ map[r][3] \in Nat
          /\ map[r][3] <= objects[map[r][2]].generation
  BY MergeMapIs
<1>4. \A i \in DOMAIN objects : Entry(objects[i])
  BY StorageIs DEF Indices
<1> HIDE DEF map
<1>5. /\ DOMAIN objects' = DOMAIN objects
      /\ \A i \in DOMAIN objects : /\ objects'[i].object = replaceReferences(objects[i].object, map)
                                   /\ Entry(objects'[i]) /\ objects'[i].generation = objects[i].generation
      /\ \A r : getObject(objects', r) = replaceReferences(getObject(objects, r), map)
  <2> DEFINE new == objects'
             old == objects
  <2>1. new = [i \in DOMAIN old |-> [old[i] EXCEPT !.object = replaceReferences(@, map)]]
    BY <1>1
  <2>2. \A i \in DOMAIN old : Entry(old[i])
    BY <1>4
  <2> HIDE DEF new, old
  <2>3. /\ DOMAIN new = DOMAIN old
        /\ \A i \in DOMAIN old : /\ new[i].object = replaceReferences(old[i].object, map)
                                 /\ Entry(new[i]) /\ new[i].generation = old[i].generation
        /\ \A r : getObject(new, r) = replaceReferences(getObject(old, r), map)
    BY <2>1, <2>2, AllReplaced
  <2> QED
    BY <2>3 DEF new, old
<1>0. Stored(d) /\ \A i \in DOMAIN objects : objects[i].generation \in Nat
  BY IndicesAre DEF Indices
<1> HIDE DEF d, e
<1>6. ASSUME NEW x \in Of(d)
      PROVE  /\ Object(replaceReferences(x, map))
             /\ \A r \in getDirectReferences(x) : IsLater(Renamed(r, map), e.objects) => IsLater(r, d.objects)
  <2>1. Object(x)
    BY <1>0, ObjectsOf
  <2>2. ASSUME NEW r \in getDirectReferences(x)
        PROVE  LET w == Renamed(r, map)
               IN  /\ w[2] \in Nat /\ w[3] \in Nat /\ w = Reference(w[2], w[3])
                   /\ IsLater(w, e.objects) => IsLater(r, d.objects)
    <3>1. r[2] \in Nat /\ r[3] \in Nat /\ r = Reference(r[2], r[3])
      BY <2>1 DEF Object
    <3>2. CASE r \in DOMAIN map
      <4> DEFINE w == map[r]
      <4>1. Renamed(r, map) = w
        BY <3>2 DEF Renamed
      <4>2. w[2] \in Nat /\ w[3] \in Nat /\ w = Reference(w[2], w[3]) /\ w[3] <= objects[w[2]].generation
        BY <1>3, <3>2
      <4> HIDE DEF w
      <4>3. ~IsLater(w, e.objects)
        BY <1>0, <1>2, <1>5, <4>2 DEF IsLater
      <4> QED
        BY <4>1, <4>2, <4>3
    <3>3. CASE r \notin DOMAIN map
      <4>1. Renamed(r, map) = r
        BY <3>3 DEF Renamed
      <4>2. IsLater(r, e.objects) => IsLater(r, d.objects)
        BY <1>2, <1>5 DEF IsLater
      <4> QED
        BY <3>1, <4>1, <4>2
    <3> QED
      BY <3>2, <3>3
  <2> QED
    BY <1>3, <2>1, <2>2, ReplacedIsObject
<1>7. Stored(e)
  <2>1. /\ DOMAIN e.objects = 0 .. Count(e.objects) - 1
        /\ IsFiniteSet(DOMAIN e.objects)
    BY <1>0, <1>2, <1>5 DEF Stored, Count
  <2>2. ASSUME NEW i \in DOMAIN e.objects
        PROVE  /\ Entry(e.objects[i]) /\ e.objects[i].generation \in 0 .. MaxGeneration
               /\ Object(e.objects[i].object)
    <3>1. d.objects[i].object \in Of(d) /\ d.objects[i].generation \in 0 .. MaxGeneration
      BY <1>0, <1>2, <1>5 DEF Of, Stored
    <3> QED
      BY <1>2, <1>5, <1>6, <3>1
  <2>3. isDictionary(e.trailer) /\ Object(e.trailer)
    <3>1. isDictionary(d.trailer) /\ d.trailer \in Of(d)
      BY <1>0 DEF Stored, Of
    <3>2. isDictionary(replaceReferences(d.trailer, map))
      BY <1>3, <3>1, Replaced
    <3> QED
      BY <1>1, <1>2, <1>6, <3>1, <3>2
  <2> QED
    BY <2>1, <2>2, <2>3 DEF Stored
<1>8. \A r : getObject(objects, Renamed(r, map)) = getObject(objects, r)
  BY <1>3 DEF Renamed
<1>9. \A r : getObject(e.objects, Renamed(r, map)) = replaceReferences(getObject(d.objects, r), map)
  BY <1>2, <1>5, <1>8
<1>10. PagesApart(d, [r \in Live(d) |-> Renamed(r, map)])
  <2>1. ASSUME NEW r \in Live(d), Type(getObject(objects, r)) = "Page"
        PROVE  Renamed(r, map) = r /\ ~Mergeable(getObject(objects, r))
    <3>1. isDictionary(getObject(objects, r))
      BY <1>0, <1>2, LiveReference
    <3> QED
      BY <1>3, <2>1, <3>1 DEF Renamed, Mergeable
  <2>2. ASSUME NEW r \in Live(d), NEW s \in Live(d), Renamed(r, map) = Renamed(s, map),
               Type(getObject(objects, r)) = "Page"
        PROVE  r = s
    <3>1. Renamed(r, map) = r /\ ~Mergeable(getObject(objects, r))
      BY <2>1, <2>2
    <3>2. getObject(objects, s) = getObject(objects, r)
      BY <1>8, <2>2, <3>1
    <3>3. s \notin DOMAIN map
      BY <1>3, <3>1, <3>2
    <3> QED
      BY <2>2, <3>1, <3>3 DEF Renamed
  <2> QED
    BY <1>2, <2>2 DEF PagesApart
<1>11. Simulates(d, e)
  BY <1>0, <1>1, <1>2, <1>3, <1>6, <1>7, <1>9, <1>10, InOtherWords
<1>12. NoLater(d) => NoLater(e)
  <2>1. \A y \in Of(e) : y = Null \/ \E x \in Of(d) : y = replaceReferences(x, map)
    BY <1>1, <1>2, <1>5 DEF Of
  <2> QED
    BY <1>3, <1>6, <2>1, RenamedLater
<1> QED
  BY <1>7, <1>11, <1>12 DEF Goes, d, e

-----------------------------------------------------------------------------
(* Shrinking the storage. *)

\* Of two sets of numbers below two bounds the one with the greater bound is
\* greater, if a number is between the bounds.
LEMMA FewerBelow ==
    ASSUME NEW S, S \subseteq Nat, IsFiniteSet(S), NEW a \in S, NEW b \in Nat, a < b
    PROVE  Cardinality({i \in S : i < a}) # Cardinality({i \in S : i < b})
<1> DEFINE A == {i \in S : i < a}
           B == {i \in S : i < b}
<1>1. B \in SUBSET S /\ A \in SUBSET B /\ a \in B /\ a \notin A
  <2>1. a \in Nat /\ ~(a < a) /\ \A i \in S : i \in Nat /\ (i < a => i < b)
    OBVIOUS
  <2> QED
    BY <2>1
<1> HIDE DEF A, B
<1>2. IsFiniteSet(B)
  BY <1>1, FS_Subset
<1>3. Cardinality(B) # Cardinality(A)
  BY <1>1, <1>2, FS_Subset
<1> QED
  BY <1>3 DEF A, B

\* Two members of a set of numbers differ in how many members are above.
LEMMA FewerAbove ==
    ASSUME NEW S, S \subseteq Nat, IsFiniteSet(S), NEW a \in S, NEW b \in Nat, b < a
    PROVE  Cardinality({i \in S : i > a}) # Cardinality({i \in S : i > b})
<1> DEFINE A == {i \in S : i > a}
           B == {i \in S : i > b}
<1>1. B \in SUBSET S /\ A \in SUBSET B /\ a \in B /\ a \notin A
  <2>1. a \in Nat /\ ~(a > a) /\ \A i \in S : i \in Nat /\ (i > a => i > b)
    OBVIOUS
  <2> QED
    BY <2>1
<1> HIDE DEF A, B
<1>2. IsFiniteSet(B)
  BY <1>1, FS_Subset
<1>3. Cardinality(B) # Cardinality(A)
  BY <1>1, <1>2, FS_Subset
<1> QED
  BY <1>3 DEF A, B

\* An object moves to one entry, and an entry receives one object.
LEMMA MovesApart ==
    ASSUME Stored(Storage), NEW m \in Moves, NEW n \in Moves
    PROVE  /\ m[1] \in Indices /\ Occupied(m[1]) /\ m[2] \in Indices /\ ~Occupied(m[2])
           /\ objects[m[2]].generation < MaxGeneration
           /\ m = <<m[1], m[2]>> /\ m[1] # n[2]
           /\ m[1] = n[1] <=> m[2] = n[2]
<1> DEFINE free == FreeEntries
           occupied == OccupiedEntries
<1>1. /\ free \subseteq Nat /\ IsFiniteSet(free) /\ occupied \subseteq Nat /\ IsFiniteSet(occupied)
      /\ \A i \in free : i \in Indices /\ ~Occupied(i) /\ objects[i].generation < MaxGeneration
      /\ \A i \in occupied : i \in Indices /\ Occupied(i)
  <2>1. free \in SUBSET Indices /\ occupied \in SUBSET Indices
    BY DEF FreeEntries, OccupiedEntries
  <2>2. IsFiniteSet(free) /\ IsFiniteSet(occupied)
    <3> HIDE DEF free, occupied
    <3> QED BY <2>1, IndicesAre, FS_Subset
  <2> QED
    BY <2>1, <2>2, IndicesAre DEF FreeEntries, OccupiedEntries
<1>2. \A p \in Moves :
          /\ p[1] \in occupied /\ p[2] \in free /\ p = <<p[1], p[2]>>
          /\ Cardinality({i \in occupied : i > p[1]}) = Cardinality({i \in free : i < p[2]})
  BY DEF Moves
<1> HIDE DEF free, occupied
<1>3. m[1] = n[1] => m[2] = n[2]
  <2> SUFFICES ASSUME m[1] = n[1], m[2] # n[2] PROVE FALSE
    OBVIOUS
  <2>1. m[2] \in free /\ n[2] \in free /\ m[2] \in Nat /\ n[2] \in Nat
    BY <1>1, <1>2
  <2>2. Cardinality({i \in free : i < m[2]}) = Cardinality({i \in free : i < n[2]})
    BY <1>2
  <2>3. m[2] < n[2] \/ n[2] < m[2]
    BY <2>1
  <2> QED
    BY <1>1, <2>1, <2>2, <2>3, FewerBelow
<1>4. m[2] = n[2] => m[1] = n[1]
  <2> SUFFICES ASSUME m[2] = n[2], m[1] # n[1] PROVE FALSE
    OBVIOUS
  <2>1. m[1] \in occupied /\ n[1] \in occupied /\ m[1] \in Nat /\ n[1] \in Nat
    BY <1>1, <1>2
  <2>2. Cardinality({i \in occupied : i > m[1]}) = Cardinality({i \in occupied : i > n[1]})
    BY <1>2
  <2>3. m[1] < n[1] \/ n[1] < m[1]
    BY <2>1
  <2> QED
    BY <1>1, <2>1, <2>2, <2>3, FewerAbove
<1> QED
  BY <1>1, <1>2, <1>3, <1>4

\* What is in the entries when the objects have moved.
LEMMA MovedIs ==
    ASSUME Stored(Storage)
    PROVE  /\ DOMAIN Moved(Moves) = Indices
           /\ \A m \in Moves : /\ Moved(Moves)[m[2]] = [object |-> objects[m[1]].object,
                                                        generation |-> objects[m[2]].generation + 1]
                               /\ Moved(Moves)[m[1]] = [objects[m[1]] EXCEPT !.object = Null]
           /\ \A i \in Indices : (\A m \in Moves : i # m[1] /\ i # m[2]) => Moved(Moves)[i] = objects[i]
<1> DEFINE moves == Moves
<1>1. /\ DOMAIN Moved(moves) = Indices
      /\ \A i \in Indices :
             Moved(moves)[i] = IF \E m \in moves : i = m[2]
                               THEN [object |-> objects[(CHOOSE m \in moves : i = m[2])[1]].object,
                                     generation |-> NextGeneration(i)]
                               ELSE IF \E m \in moves : i = m[1]
                               THEN [objects[i] EXCEPT !.object = Null]
                               ELSE objects[i]
  <2> HIDE DEF moves
  <2> QED BY DEF Moved
<1>2. ASSUME NEW m \in moves
      PROVE  Moved(moves)[m[2]] = [object |-> objects[m[1]].object,
                                   generation |-> objects[m[2]].generation + 1]
  <2> DEFINE n == CHOOSE n \in moves : m[2] = n[2]
  <2>1. n \in moves /\ m[2] = n[2]
    OBVIOUS
  <2>2. n[1] = m[1] /\ m[2] \in Indices
    <3> HIDE DEF n
    <3> QED BY <2>1, MovesApart
  <2>3. Moved(moves)[m[2]] = [object |-> objects[n[1]].object, generation |-> NextGeneration(m[2])]
    BY <1>1, <2>2
  <2> HIDE DEF n, moves
  <2> QED
    BY <2>2, <2>3 DEF NextGeneration
<1>3. ASSUME NEW m \in moves PROVE Moved(moves)[m[1]] = [objects[m[1]] EXCEPT !.object = Null]
  <2>1. m[1] \in Indices /\ \A n \in moves : m[1] # n[2]
    BY MovesApart
  <2> HIDE DEF moves
  <2> QED
    BY <1>1, <2>1
<1> QED
  BY <1>1, <1>2, <1>3

\* The map of references has those of the objects that move, and gives them
\* the free entry with its next generation.
LEMMA ShrinkMapIs ==
    ASSUME Stored(Storage)
    PROVE  /\ DOMAIN ShrinkMap(Moves) = {ReferenceTo(objects, m[1]) : m \in Moves}
           /\ \A m \in Moves : ShrinkMap(Moves)[ReferenceTo(objects, m[1])] =
                                   Reference(m[2], objects[m[2]].generation + 1)
<1> DEFINE moves == Moves
<1>1. DOMAIN ShrinkMap(moves) = {ReferenceTo(objects, m[1]) : m \in moves}
  BY DEF ShrinkMap
<1>2. ASSUME NEW m \in moves
      PROVE  ShrinkMap(moves)[ReferenceTo(objects, m[1])] = Reference(m[2], objects[m[2]].generation + 1)
  <2> DEFINE r == ReferenceTo(objects, m[1])
             n == CHOOSE n \in moves : r[2] = n[1]
  <2>1. r[2] = m[1]
    BY ReferenceParts DEF ReferenceTo
  <2>2. n \in moves /\ n[1] = m[1]
    BY <2>1
  <2>3. n[2] = m[2]
    <3> HIDE DEF n, r
    <3> QED BY <2>2, MovesApart
  <2>4. ShrinkMap(moves)[r] = Reference(n[2], NextGeneration(n[2]))
    <3> HIDE DEF moves
    <3> QED BY DEF ShrinkMap
  <2> HIDE DEF n, moves
  <2> QED
    BY <2>3, <2>4 DEF NextGeneration
<1> QED
  BY <1>1, <1>2

\* Nothing but free entries is cut off.
LEMMA TrimmedIs ==
    ASSUME NEW entries, NEW n \in Nat, DOMAIN entries = 0 .. n - 1, NEW new, new = Trimmed(entries)
    PROVE  /\ \E m \in Nat : DOMAIN new = 0 .. m - 1
           /\ DOMAIN new \subseteq DOMAIN entries
           /\ \A i \in DOMAIN new : new[i] = entries[i]
           /\ \A i \in DOMAIN entries \ DOMAIN new : entries[i].object = Null
           /\ \A r : getObject(new, r) = getObject(entries, r)
<1> DEFINE used == {i \in DOMAIN entries \ {0} : entries[i].object # Null}
<1>1. CASE used = {}
  <2>1. new = entries
    BY <1>1 DEF Trimmed
  <2> QED
    BY <2>1
<1>2. CASE used # {}
  <2> DEFINE D == {i \in DOMAIN entries : \E j \in used : i <= j}
  <2>1. new = [i \in D |-> entries[i]]
    BY <1>2 DEF Trimmed
  <2>2. used \subseteq Int /\ IsFiniteSet(used) /\ used \subseteq 0 .. n - 1
    <3> DEFINE all == 0 .. n - 1
    <3>1. IsFiniteSet(all)
      BY FS_Interval
    <3>2. used \in SUBSET all
      OBVIOUS
    <3>3. all \subseteq Int
      OBVIOUS
    <3> HIDE DEF used, all
    <3>4. IsFiniteSet(used)
      BY <3>1, <3>2, FS_Subset
    <3> QED
      BY <3>2, <3>3, <3>4 DEF all
  <2>3. PICK g \in used : \A j \in used : j <= g
    <3> HIDE DEF used
    <3> QED BY <1>2, <2>2, GreatestNumber
  <2>4. g \in Nat /\ g <= n - 1
    BY <2>2, <2>3
  <2>5. D = 0 .. (g + 1) - 1
    <3>1. \A i \in D : i \in 0 .. (g + 1) - 1
      BY <2>2, <2>3, <2>4
    <3>2. \A i \in 0 .. (g + 1) - 1 : i \in DOMAIN entries /\ i <= g
      BY <2>4
    <3>3. \A i \in 0 .. (g + 1) - 1 : i \in D
      BY <2>3, <3>2
    <3> HIDE DEF D
    <3> QED
      BY <3>1, <3>3
  <2>6. DOMAIN new = D /\ D \subseteq DOMAIN entries /\ \A i \in D : new[i] = entries[i]
    BY <2>1
  <2>7. \A i \in DOMAIN entries \ D : entries[i].object = Null
    <3> SUFFICES ASSUME NEW i \in DOMAIN entries, i \notin D, entries[i].object # Null PROVE FALSE
      OBVIOUS
    <3>1. i # 0
      BY <2>4, <2>5
    <3>2. i \in used /\ i <= i
      BY <3>1
    <3> QED
      BY <3>2
  <2> HIDE DEF D, used
  <2>8. \A r : getObject(new, r) = getObject(entries, r)
    BY <2>6, <2>7 DEF getObject
  <2>9. g + 1 \in Nat
    BY <2>4
  <2> QED
    BY <2>5, <2>6, <2>7, <2>8, <2>9
<1> QED
  BY <1>1, <1>2

\* Wherever a reference leads to, the one put in its place leads to when the
\* objects have moved; the others lead to what they led to, the stale ones to
\* nothing, because the number they name is reused with a later generation.
\* Only a later reference may meet that generation.
LEMMA MovedReferences ==
    ASSUME Stored(Storage), NEW r, r = Reference(r[2], r[3]), r[2] \in Nat, r[3] \in Nat
    PROVE  LET w == Renamed(r, ShrinkMap(Moves))
               to == Moved(Moves)
           IN  /\ getObject(to, w) = getObject(objects, r) \/ IsLater(r, objects)
               /\ w = Reference(w[2], w[3]) /\ w[2] \in Nat /\ w[3] \in Nat
               /\ IsLater(w, to) => IsLater(r, objects)
<1> DEFINE map == ShrinkMap(Moves)
           to == Moved(Moves)
           w == Renamed(r, map)
<1>1. CASE r \in DOMAIN map
  <2>1. PICK m \in Moves : r = ReferenceTo(objects, m[1])
    BY <1>1, ShrinkMapIs
  <2>2. r[2] = m[1] /\ r[3] = objects[m[1]].generation
    BY <2>1, ReferenceParts DEF ReferenceTo
  <2>3. w = Reference(m[2], objects[m[2]].generation + 1)
    BY <1>1, <2>1, ShrinkMapIs DEF Renamed
  <2>4. m[1] \in Indices /\ m[2] \in Indices
    BY MovesApart
  <2>5. m[2] \in Nat /\ objects[m[2]].generation \in Nat
    BY <2>4, IndicesAre
  <2> HIDE DEF w
  <2>6. w[2] = m[2] /\ w[3] = objects[m[2]].generation + 1
    BY <2>3, ReferenceParts
  <2>7. /\ to[m[2]].object = objects[m[1]].object /\ to[m[2]].generation = w[3]
        /\ DOMAIN to = Indices
    <3>1. /\ to[m[2]] = [object |-> objects[m[1]].object, generation |-> objects[m[2]].generation + 1]
          /\ DOMAIN to = Indices
      BY MovedIs
    <3> HIDE DEF to
    <3> QED
      BY <2>6, <3>1
  <2>8. getObject(to, w) = objects[m[1]].object
    BY <2>4, <2>6, <2>7 DEF getObject
  <2>9. getObject(objects, r) = objects[m[1]].object
    BY <2>2, <2>4 DEF getObject, Indices
  <2>10. w = Reference(w[2], w[3]) /\ w[2] \in Nat /\ w[3] \in Nat
    BY <2>3, <2>5, <2>6
  <2>11. ~IsLater(w, to)
    BY <2>6, <2>7, <2>10 DEF IsLater
  <2> QED
    BY <2>8, <2>9, <2>10, <2>11 DEF w
<1>2. CASE r \notin DOMAIN map
  <2>1. w = r
    BY <1>2 DEF Renamed
  <2>2. DOMAIN to = Indices
    BY MovedIs
  <2>3. CASE r[2] \notin Indices
    BY <2>1, <2>2, <2>3 DEF getObject, Indices, IsLater
  <2>4. ASSUME NEW m \in Moves, r[2] = m[2], r[2] \in Indices
        PROVE  /\ getObject(to, r) = getObject(objects, r) \/ IsLater(r, objects)
               /\ IsLater(r, to) => IsLater(r, objects)
    <3>1. objects[m[2]].generation \in Nat
      BY <2>4, IndicesAre
    <3>2. to[r[2]].generation = objects[r[2]].generation + 1
      <4>1. to[m[2]] = [object |-> objects[m[1]].object, generation |-> objects[m[2]].generation + 1]
        BY MovedIs
      <4> HIDE DEF to
      <4> QED
        BY <2>4, <4>1
    <3> HIDE DEF to
    <3>3. IsLater(r, objects) \/ (r[3] # to[r[2]].generation /\ ~IsLater(r, to))
      BY <2>4, <3>1, <3>2 DEF IsLater, Indices
    <3>5. objects[r[2]].object = Null
      BY <2>4, MovesApart DEF Occupied
    <3>4. IsLater(r, objects) \/ getObject(to, r) = getObject(objects, r)
      BY <3>3, <3>5 DEF getObject
    <3> QED
      BY <3>3, <3>4
  <2>5. ASSUME NEW m \in Moves, r[2] = m[1], r[2] \in Indices
        PROVE  /\ getObject(to, r) = getObject(objects, r)
               /\ IsLater(r, to) => IsLater(r, objects)
    <3>1. Entry(objects[m[1]]) /\ m[1] \in Indices
      BY MovesApart, StorageIs
    <3>2. to[m[1]].object = Null /\ to[m[1]].generation = objects[m[1]].generation
      <4>1. to[m[1]] = [objects[m[1]] EXCEPT !.object = Null]
        BY MovedIs
      <4> HIDE DEF to
      <4> QED
        BY <3>1, <4>1, EntryUpdated
    <3>3. objects[m[1]].generation # r[3]
      <4>1. ReferenceTo(objects, m[1]) \in DOMAIN map
        BY ShrinkMapIs
      <4> QED
        BY <1>2, <2>5, <4>1 DEF ReferenceTo
    <3>4. getObject(to, r) = Null /\ getObject(objects, r) = Null
      BY <2>5, <3>2, <3>3 DEF getObject
    <3>5. IsLater(r, to) => IsLater(r, objects)
      BY <2>5, <3>2 DEF IsLater, Indices
    <3> QED
      BY <3>4, <3>5
  <2>6. CASE r[2] \in Indices /\ \A m \in Moves : r[2] # m[1] /\ r[2] # m[2]
    <3>1. to[r[2]] = objects[r[2]]
      BY <2>6, MovedIs
    <3> HIDE DEF to
    <3>2. getObject(to, r) = getObject(objects, r) /\ (IsLater(r, to) => IsLater(r, objects))
      BY <2>2, <2>6, <3>1 DEF getObject, Indices, IsLater
    <3> QED
      BY <2>1, <3>2 DEF to
  <2> QED
    BY <2>1, <2>3, <2>4, <2>5, <2>6
<1> QED
  BY <1>1, <1>2

\* Shrinking the storage keeps the meaning: what moves is renamed, what stays
\* is not, and a stale reference leads to nothing before and after, unless it
\* is a later one.
LEMMA ShrinkSimulates ==
    ASSUME Stored(Storage), performShrinkObjectStorage
    PROVE  Goes(Storage, Storage')
<1> DEFINE map == ShrinkMap(Moves)
           to == Moved(Moves)
           cut == Trimmed(to)
           d == Storage
           e == Storage'
<1>1. /\ trailer' = replaceReferences(trailer, map)
      /\ objects' = [i \in DOMAIN cut |-> [cut[i] EXCEPT !.object = replaceReferences(@, map)]]
  BY DEF performShrinkObjectStorage, UpdateAll
<1>2. d.objects = objects /\ d.trailer = trailer /\ e.objects = objects' /\ e.trailer = trailer'
  BY DEF Storage
<1>0. Stored(d)
  OBVIOUS
<1>3. \A r \in DOMAIN map : isReference(r) /\ isReference(map[r])
  <2>1. \A m \in Moves : isReference(ReferenceTo(objects, m[1]))
    BY ReferenceParts DEF ReferenceTo
  <2>2. \A m \in Moves : isReference(map[ReferenceTo(objects, m[1])])
    BY ShrinkMapIs, ReferenceParts
  <2> QED
    BY <2>1, <2>2, ShrinkMapIs
<1>4. DOMAIN to = Indices
  BY MovedIs
<1>5. ASSUME NEW i \in Indices
      PROVE  /\ Entry(to[i]) /\ to[i].generation \in 0 .. MaxGeneration
             /\ to[i].object = Null \/ to[i].object \in Of(d)
  <2>0. Entry(objects[i]) /\ objects[i].generation \in 0 .. MaxGeneration /\ objects[i].object \in Of(d)
    BY StorageIs, IndicesAre
  <2>1. ASSUME NEW m \in Moves, i = m[2]
        PROVE  /\ Entry(to[i]) /\ to[i].generation \in 0 .. MaxGeneration
               /\ to[i].object \in Of(d)
    <3>1. to[i] = [object |-> objects[m[1]].object, generation |-> objects[i].generation + 1]
      BY <2>1, MovedIs
    <3>2. m[1] \in Indices /\ objects[i].generation < MaxGeneration
      BY <2>1, MovesApart
    <3>3. objects[m[1]].object \in Of(d)
      BY <3>2, StorageIs
    <3>4. objects[i].generation + 1 \in 0 .. MaxGeneration
      BY <2>0, <3>2, GenerationAssumption
    <3> HIDE DEF to
    <3> QED
      BY <3>1, <3>3, <3>4 DEF Entry
  <2>2. ASSUME NEW m \in Moves, i = m[1]
        PROVE  Entry(to[i]) /\ to[i].generation = objects[i].generation /\ to[i].object = Null
    <3>1. to[i] = [objects[i] EXCEPT !.object = Null]
      BY <2>2, MovedIs
    <3> QED
      BY <2>0, <3>1, EntryUpdated
  <2>3. (\A m \in Moves : i # m[1] /\ i # m[2]) => to[i] = objects[i]
    BY MovedIs
  <2> HIDE DEF to, d
  <2> QED
    BY <2>0, <2>1, <2>2, <2>3
<1>6. /\ \E m \in Nat : DOMAIN cut = 0 .. m - 1
      /\ DOMAIN cut \subseteq Indices
      /\ \A i \in DOMAIN cut : cut[i] = to[i]
      /\ \A r : getObject(cut, r) = getObject(to, r)
  <2>1. DOMAIN to = 0 .. Count(objects) - 1 /\ Count(objects) \in Nat
    BY <1>4, IndicesAre
  <2> HIDE DEF to
  <2>2. /\ \E m \in Nat : DOMAIN cut = 0 .. m - 1
        /\ DOMAIN cut \subseteq DOMAIN to
        /\ \A i \in DOMAIN cut : cut[i] = to[i]
        /\ \A r : getObject(cut, r) = getObject(to, r)
    BY <2>1, TrimmedIs
  <2> QED
    BY <1>4, <2>2
<1>7. \A r : (r = Reference(r[2], r[3]) /\ r[2] \in Nat /\ r[3] \in Nat) =>
          /\ getObject(to, Renamed(r, map)) = getObject(objects, r) \/ IsLater(r, objects)
          /\ Renamed(r, map) = Reference(Renamed(r, map)[2], Renamed(r, map)[3])
          /\ Renamed(r, map)[2] \in Nat /\ Renamed(r, map)[3] \in Nat
          /\ IsLater(Renamed(r, map), to) => IsLater(r, objects)
  BY MovedReferences
<1>13. PagesApart(d, [r \in Live(d) |-> Renamed(r, map)])
  <2>1. ASSUME NEW r \in Live(d), NEW s \in Live(d), r \in DOMAIN map, Renamed(r, map) = Renamed(s, map)
        PROVE  r = s
    <3>1. PICK m \in Moves : r = ReferenceTo(objects, m[1])
      BY <2>1, ShrinkMapIs
    <3>2. Renamed(r, map) = Reference(m[2], objects[m[2]].generation + 1)
      BY <2>1, <3>1, ShrinkMapIs DEF Renamed
    <3>3. CASE s \in DOMAIN map
      <4>1. PICK n \in Moves : s = ReferenceTo(objects, n[1])
        BY <3>3, ShrinkMapIs
      <4>2. Renamed(s, map) = Reference(n[2], objects[n[2]].generation + 1)
        BY <3>3, <4>1, ShrinkMapIs DEF Renamed
      <4>3. m[2] = n[2]
        <5> DEFINE u == Renamed(r, map)
                   v == Renamed(s, map)
        <5>1. u = v /\ u = Reference(m[2], objects[m[2]].generation + 1)
              /\ v = Reference(n[2], objects[n[2]].generation + 1)
          BY <2>1, <3>2, <4>2
        <5> HIDE DEF u, v
        <5>2. u[2] = m[2]
          BY <5>1 DEF Reference
        <5>3. v[2] = n[2]
          BY <5>1 DEF Reference
        <5> QED
          BY <5>1, <5>2, <5>3
      <4>4. m[1] = n[1]
        BY <4>3, MovesApart
      <4> QED
        BY <3>1, <4>1, <4>4
    <3>4. CASE s \notin DOMAIN map
      <4>1. s = Reference(m[2], objects[m[2]].generation + 1)
        BY <2>1, <3>2, <3>4 DEF Renamed
      <4>2. s[2] = m[2]
        BY <4>1, ReferenceParts
      <4>3. isDictionary(objects[s[2]].object)
        BY <1>0, <1>2, LiveReference
      <4>4. objects[m[2]].object = Null
        BY MovesApart DEF Occupied
      <4> QED
        BY <4>2, <4>3, <4>4, NotNull
    <3> QED
      BY <3>3, <3>4
  <2>2. ASSUME NEW r \in Live(d), NEW s \in Live(d), Renamed(r, map) = Renamed(s, map)
        PROVE  r = s
    <3> HIDE DEF d, map
    <3>1. CASE r \in DOMAIN map
      BY <2>1, <2>2, <3>1
    <3>2. CASE s \in DOMAIN map
      BY <2>1, <2>2, <3>2
    <3>3. CASE r \notin DOMAIN map /\ s \notin DOMAIN map
      BY <2>2, <3>3 DEF Renamed
    <3> QED
      BY <3>1, <3>2, <3>3
  <2> HIDE DEF d, map
  <2> QED
    BY <2>2 DEF PagesApart
<1> HIDE DEF map, to, cut, d, e
<1>8. /\ DOMAIN objects' = DOMAIN cut
      /\ \A i \in DOMAIN cut : /\ objects'[i].object = replaceReferences(to[i].object, map)
                               /\ Entry(objects'[i]) /\ objects'[i].generation = to[i].generation
      /\ \A r : getObject(objects', r) = replaceReferences(getObject(to, r), map)
  <2>1. \A i \in DOMAIN cut : Entry(cut[i])
    BY <1>5, <1>6
  <2>2. /\ DOMAIN objects' = DOMAIN cut
        /\ \A i \in DOMAIN cut : /\ objects'[i].object = replaceReferences(cut[i].object, map)
                                 /\ Entry(objects'[i]) /\ objects'[i].generation = cut[i].generation
        /\ \A r : getObject(objects', r) = replaceReferences(getObject(cut, r), map)
    BY <1>1, <2>1, AllReplaced
  <2> QED
    BY <1>6, <2>2
<1>9. ASSUME NEW x \in Of(d)
      PROVE  /\ \A r \in getDirectReferences(x) :
                    /\ \/ getObject(e.objects, Renamed(r, map)) = replaceReferences(getObject(d.objects, r), map)
                       \/ IsLater(r, d.objects)
                    /\ IsLater(Renamed(r, map), e.objects) => IsLater(r, d.objects)
             /\ Object(replaceReferences(x, map))
  <2>1. Object(x)
    BY <1>0, ObjectsOf
  <2>2. ASSUME NEW r \in getDirectReferences(x)
        PROVE  LET w == Renamed(r, map)
               IN  /\ getObject(to, w) = getObject(objects, r) \/ IsLater(r, objects)
                   /\ w[2] \in Nat /\ w[3] \in Nat /\ w = Reference(w[2], w[3])
                   /\ IsLater(w, objects') => IsLater(r, objects)
    <3>1. r[2] \in Nat /\ r[3] \in Nat /\ r = Reference(r[2], r[3])
      BY <2>1 DEF Object
    <3> DEFINE w == Renamed(r, map)
    <3>2. /\ getObject(to, w) = getObject(objects, r) \/ IsLater(r, objects)
          /\ w = Reference(w[2], w[3]) /\ w[2] \in Nat /\ w[3] \in Nat
          /\ IsLater(w, to) => IsLater(r, objects)
      BY <1>7, <3>1
    <3> HIDE DEF w
    <3>3. IsLater(w, objects') => IsLater(w, to)
      BY <1>4, <1>6, <1>8 DEF IsLater
    <3> QED
      BY <3>2, <3>3 DEF w
  <2>3. Object(replaceReferences(x, map))
    BY <1>3, <2>1, <2>2, ReplacedIsObject
  <2> QED
    BY <1>2, <1>8, <2>2, <2>3
<1>10. Stored(e)
  <2>1. /\ DOMAIN e.objects = 0 .. Count(e.objects) - 1
        /\ IsFiniteSet(DOMAIN e.objects)
    <3>1. PICK m \in Nat : DOMAIN e.objects = 0 .. m - 1
      BY <1>2, <1>6, <1>8
    <3>2. IsFiniteSet(0 .. m - 1) /\ Cardinality(0 .. m - 1) = m
      BY FS_Interval
    <3> QED
      BY <3>1, <3>2 DEF Count
  <2>2. ASSUME NEW i \in DOMAIN e.objects
        PROVE  /\ Entry(e.objects[i]) /\ e.objects[i].generation \in 0 .. MaxGeneration
               /\ Object(e.objects[i].object)
    <3>1. i \in DOMAIN cut /\ i \in Indices
      BY <1>2, <1>6, <1>8
    <3>2. /\ Entry(to[i]) /\ to[i].generation \in 0 .. MaxGeneration
          /\ to[i].object = Null \/ to[i].object \in Of(d)
      BY <1>5, <3>1
    <3>3. Object(replaceReferences(to[i].object, map))
      BY <1>9, <3>2, NullReplaced, NullIsObject
    <3> QED
      BY <1>2, <1>8, <3>1, <3>2, <3>3
  <2>3. isDictionary(e.trailer) /\ Object(e.trailer)
    <3>1. isDictionary(d.trailer) /\ d.trailer \in Of(d)
      BY <1>0 DEF Stored, Of
    <3>2. isDictionary(replaceReferences(d.trailer, map))
      BY <1>3, <3>1, Replaced
    <3> QED
      BY <1>1, <1>2, <1>9, <3>1, <3>2
  <2> QED
    BY <2>1, <2>2, <2>3 DEF Stored
<1>11. e.trailer = replaceReferences(d.trailer, map)
  BY <1>1, <1>2
<1>12. Simulates(d, e)
  BY <1>0, <1>3, <1>9, <1>10, <1>11, <1>13, InOtherWords
<1>14. NoLater(d) => NoLater(e)
  <2>1. ASSUME NEW i \in DOMAIN e.objects
        PROVE  e.objects[i].object = Null \/ \E x \in Of(d) : e.objects[i].object = replaceReferences(x, map)
    BY <1>2, <1>5, <1>6, <1>8, NullReplaced
  <2>2. d.trailer \in Of(d)
    BY DEF Of
  <2>3. \A y \in Of(e) : y = Null \/ \E x \in Of(d) : y = replaceReferences(x, map)
    BY <1>11, <2>1, <2>2 DEF Of
  <2> QED
    BY <1>3, <1>9, <2>3, RenamedLater
<1> QED
  BY <1>10, <1>12, <1>14 DEF Goes, d, e

-----------------------------------------------------------------------------
(* The loop. *)

\* The storage stands for the source, and has later references only if the
\* source has.
Preserved ==
    /\ Stored(source) /\ Stored(Storage)
    /\ Simulates(source, Storage)
    /\ NoLater(source) => NoLater(Storage)

\* A storage is its objects and its trailer.
LEMMA SameParts ==
    ASSUME NEW d, NEW e, e.objects = d.objects, e.trailer = d.trailer, Stored(d)
    PROVE  /\ Stored(e) /\ (NoLater(d) => NoLater(e))
           /\ \A c : Simulates(c, d) => Simulates(c, e)
<1>1. Stored(e) /\ (NoLater(d) => NoLater(e))
  BY DEF Stored, NoLater, Of
<1>2. ASSUME NEW c, NEW M, Simulation(c, d, M) PROVE Simulation(c, e, M)
  <2>1. \A x, y : Match(x, y, c, d, M) => Match(x, y, c, e, M)
    BY DEF Match, Same
  <2> QED
    BY <1>2, <2>1 DEF Simulation
<1>3. \A c, M : Tracks(c, d, M) => Tracks(c, e, M)
  BY DEF Tracks
<1> QED
  BY <1>1, <1>2, <1>3 DEF Simulates

\* The storage starts as the source.
LEMMA PreservedInitially == Init => Preserved
<1> SUFFICES ASSUME Init PROVE Preserved
  OBVIOUS
<1>1. Stored(source)
  BY DocumentsAssumption DEF Init
<1>2. Storage.objects = source.objects /\ Storage.trailer = source.trailer
  BY DEF Init, Storage
<1>3. /\ Stored(Storage) /\ (NoLater(source) => NoLater(Storage))
      /\ \A c : Simulates(c, source) => Simulates(c, Storage)
  BY <1>1, <1>2, SameParts
<1>4. Simulates(source, source)
  BY <1>1, SimulatesItself DEF Simulates
<1> QED
  BY <1>1, <1>3, <1>4 DEF Preserved

\* Every operation composes its simulation with that of the ones before.
LEMMA PreservedByStep == Preserved /\ [Next]_vars => Preserved'
<1> SUFFICES ASSUME Preserved, [Next]_vars PROVE Preserved'
  OBVIOUS
<1>1. Stored(source) /\ Stored(Storage)
  BY DEF Preserved
<1>2. ASSUME Goes(Storage, Storage'), source' = source PROVE Preserved'
  <2> DEFINE e == Storage'
  <2>1. Simulates(source, Storage) /\ (NoLater(source) => NoLater(Storage))
    BY DEF Preserved
  <2>2. Stored(e) /\ Simulates(Storage, e) /\ (NoLater(Storage) => NoLater(e))
    BY <1>2 DEF Goes
  <2> HIDE DEF e
  <2>3. Simulates(source, e)
    BY <1>1, <2>1, <2>2, SimulatesThrough
  <2> QED
    BY <1>1, <1>2, <2>1, <2>2, <2>3 DEF Preserved, e
<1>3. CASE UNCHANGED <<source, storage>>
  BY <1>3 DEF Preserved, Storage, storage
<1>4. CASE performDereferenceSimpleObjects
  BY <1>1, <1>2, <1>4, DereferenceSimulates DEF performDereferenceSimpleObjects, Perform
<1>5. CASE performRemoveNullObjects
  BY <1>1, <1>2, <1>5, RemoveNullSimulates DEF performRemoveNullObjects, Perform
<1>6. CASE performRemoveUnusedObjects
  BY <1>1, <1>2, <1>6, RemoveUnusedSimulates DEF performRemoveUnusedObjects, Perform
<1>7. CASE performMergeIdenticalObjects
  BY <1>1, <1>2, <1>7, MergeSimulates DEF performMergeIdenticalObjects, Perform
<1>8. CASE performShrinkObjectStorage
  BY <1>1, <1>2, <1>8, ShrinkSimulates DEF performShrinkObjectStorage, Perform
<1>9. CASE performRecompressFlateStreams
  BY <1>1, <1>2, <1>9, RecompressSimulates DEF performRecompressFlateStreams, Perform
<1>10. CASE NextPass
  BY <1>3, <1>10 DEF NextPass
<1>11. CASE UNCHANGED vars
  BY <1>3, <1>11 DEF vars
<1> QED
  BY <1>4, <1>5, <1>6, <1>7, <1>8, <1>9, <1>10, <1>11 DEF Next

\* A simulation keeps the meaning and the pages.
LEMMA PreservedIsMeaning == Preserved => MeaningPreserved
<1> SUFFICES ASSUME Preserved PROVE MeaningPreserved
  OBVIOUS
<1>1. PICK M : Simulation(source, Storage, M)
  BY DEF Preserved, Simulates
<1>2. Stored(source) /\ Stored(Storage)
  BY DEF Preserved
<1>3. SameMeaning(source, Storage, Decoded)
  BY <1>1, <1>2, SimulationKeepsMeaning
<1>4. /\ Cardinality(PagesOf(source)) <= Cardinality(PagesOf(Storage))
      /\ NoLater(source) => Cardinality(PagesOf(Storage)) = Cardinality(PagesOf(source))
  BY <1>1, <1>2, SimulationKeepsPages
<1>5. Pages = PagesOf(Storage) /\ SourcePages = PagesOf(source)
  BY DEF Pages, SourcePages, PagesOf, Live, Storage
<1>6. SameMeaning(source, [objects |-> objects, trailer |-> trailer], Decoded)
  BY <1>3 DEF Storage
<1>7. NoneLater = NoLater(source)
  BY DEF NoneLater, NoLater, Of
<1> QED
  BY <1>4, <1>5, <1>6, <1>7 DEF MeaningPreserved

\* Whatever operations are selected, and however often passes are repeated, the
\* document says after every operation what it said, except that a later
\* reference may come to lead somewhere, and no page is lost.
THEOREM MeaningIsPreserved == Spec => []MeaningPreserved
<1>1. Init => Preserved
  BY PreservedInitially
<1>2. Preserved /\ [Next]_vars => Preserved'
  BY PreservedByStep
<1> QED
  BY <1>1, <1>2, PreservedIsMeaning, PTL DEF Spec

-----------------------------------------------------------------------------
(* What is written says the same. *)

\* f is g, on those of its keys that are among ks.
IsPart(f, g, ks) == DOMAIN f = DOMAIN g \cap ks /\ \A k \in DOMAIN f : f[k] = g[k]

\* A trailer restricted to some keys is a trailer.
LEMMA RestrictedIs ==
    ASSUME NEW t, Object(t), isDictionary(t), NEW keys, NEW s, s = Restricted(t, keys)
    PROVE  /\ isDictionary(s) /\ Type(s) = Type(t) /\ Content(s) = Content(t)
           /\ IsPart(Entries(s), Entries(t), keys)
           /\ getDirectReferences(s) \subseteq getDirectReferences(t)
           /\ Object(s)
<1> DEFINE f == [k \in DOMAIN Entries(t) \cap keys |-> Entries(t)[k]]
<1>1. s = Dictionary(Type(t), Content(t), f)
  BY DEF Restricted
<1>2. isDictionary(s) /\ ~isReference(s) /\ Type(s) = Type(t) /\ Content(s) = Content(t) /\ Entries(s) = f
  BY <1>1, DictionaryParts
<1>3. getDirectReferences(s) \subseteq getDirectReferences(t)
  BY <1>2 DEF getDirectReferences
<1>4. \A k \in DOMAIN Entries(s) : ~isDictionary(Entries(s)[k])
  BY <1>2 DEF Object
<1>5. Entries(s) = [k \in DOMAIN Entries(s) |-> Entries(s)[k]]
  BY <1>2
<1>6. Object(s)
  BY <1>1, <1>2, <1>3, <1>4, <1>5 DEF Object
<1> QED
  BY <1>2, <1>3, <1>6 DEF IsPart

\* d2 is what a reader of d is told.
IsTold(d2, d) == d2.objects = d.objects /\ d2.trailer = Restricted(d.trailer, WrittenKeys)

\* What a reader is told is a storage of which no more is live.
LEMMA ToldStored ==
    ASSUME NEW d, Stored(d), NEW d2, IsTold(d2, d)
    PROVE  Stored(d2) /\ Live(d2) \subseteq Live(d)
<1>1. /\ isDictionary(d2.trailer) /\ Object(d2.trailer)
      /\ getDirectReferences(d2.trailer) \subseteq getDirectReferences(d.trailer)
  <2>1. isDictionary(d.trailer) /\ Object(d.trailer)
    BY DEF Stored
  <2>2. d2.trailer = Restricted(d.trailer, WrittenKeys)
    BY DEF IsTold
  <2> QED BY <2>1, <2>2, RestrictedIs
<1>2. d2.objects = d.objects
  BY DEF IsTold
<1>3. Stored(d2)
  BY <1>1, <1>2 DEF Stored
<1>4. Led(d2.trailer, d2.objects) \subseteq Live(d)
  BY <1>1, <1>2, LiveIsClosed DEF Led
<1>5. \A r \in Live(d) : Led(getObject(d2.objects, r), d2.objects) \subseteq Live(d)
  BY <1>2, LiveIsClosed
<1> QED
  BY <1>3, <1>4, <1>5, LiveIsReached

\* Who is told less of two documents that say the same is told the same.
LEMMA ToldSimulates ==
    ASSUME NEW d, NEW e, Stored(d), Stored(e), Simulates(d, e),
           NEW d2, IsTold(d2, d), NEW e2, IsTold(e2, e)
    PROVE  Simulates(d2, e2)
<1>0. PICK M : Simulation(d, e, M) /\ Tracks(d, e, M)
  BY DEF Simulates
<1> DEFINE N == [r \in Live(d2) |-> M[r]]
<1>1. Stored(d2) /\ Stored(e2) /\ Live(d2) \subseteq Live(d) /\ d2.objects = d.objects /\ e2.objects = e.objects
  BY ToldStored DEF IsTold
<1>2. ASSUME NEW x \in Of(d2), isDictionary(x), NEW k \in DOMAIN Entries(x), Led(x, d2.objects) \subseteq Live(d2),
             NEW w, Same(Entries(x)[k], w, d, e, M)
      PROVE  Same(Entries(x)[k], w, d2, e2, N)
  <2>1. Leads(Entries(x)[k], d2.objects) => Entries(x)[k] \in Live(d2)
    BY <1>1, <1>2, EntriesOf DEF Leads, Led
  <2> QED
    BY <1>1, <1>2, <2>1 DEF Same
<1>3. /\ Match(d2.trailer, e2.trailer, d2, e2, N)
      /\ Later(e2.trailer, e2.objects) \subseteq Later(d2.trailer, d2.objects)
  <2> HIDE DEF N
  <2>1. Match(d.trailer, e.trailer, d, e, M) /\ isDictionary(d.trailer) /\ isDictionary(e.trailer)
        /\ Object(d.trailer) /\ Object(e.trailer)
    BY <1>0 DEF Simulation, Stored
  <2>2. /\ isDictionary(d2.trailer) /\ Type(d2.trailer) = Type(d.trailer)
        /\ Content(d2.trailer) = Content(d.trailer)
        /\ IsPart(Entries(d2.trailer), Entries(d.trailer), WrittenKeys)
    <3>1. d2.trailer = Restricted(d.trailer, WrittenKeys)
      BY DEF IsTold
    <3> QED BY <2>1, <3>1, RestrictedIs
  <2>3. /\ isDictionary(e2.trailer) /\ Type(e2.trailer) = Type(e.trailer)
        /\ Content(e2.trailer) = Content(e.trailer)
        /\ IsPart(Entries(e2.trailer), Entries(e.trailer), WrittenKeys)
    <3>1. e2.trailer = Restricted(e.trailer, WrittenKeys)
      BY DEF IsTold
    <3> QED BY <2>1, <3>1, RestrictedIs
  <2>4. Keys(d2.trailer, d2.objects) = Keys(d.trailer, d.objects) \cap WrittenKeys
    BY <1>1, <2>2 DEF Keys, IsPart
  <2>5. Keys(e2.trailer, e2.objects) = Keys(e.trailer, e.objects) \cap WrittenKeys
    BY <1>1, <2>3 DEF Keys, IsPart
  <2>7. Later(d2.trailer, d2.objects) = Later(d.trailer, d.objects) \cap WrittenKeys
    BY <1>1, <2>2, LaterIs DEF IsPart
  <2>8. Keys(d2.trailer, d2.objects) = Keys(e2.trailer, e2.objects) \ Later(d2.trailer, d2.objects)
    BY <2>1, <2>4, <2>5, <2>7 DEF Match
  <2>9. Later(e2.trailer, e2.objects) = Later(e.trailer, e.objects) \cap WrittenKeys
    BY <1>1, <2>3, LaterIs DEF IsPart
  <2>10. Later(e2.trailer, e2.objects) \subseteq Later(d2.trailer, d2.objects)
    BY <1>0, <2>7, <2>9 DEF Tracks
  <2>6. ASSUME NEW k \in Keys(d2.trailer, d2.objects)
        PROVE  Same(Entries(d2.trailer)[k], Entries(e2.trailer)[k], d2, e2, N)
    <3>1. k \in Keys(d.trailer, d.objects) /\ k \in Keys(e.trailer, e.objects) /\ k \in WrittenKeys
      BY <2>1, <2>4 DEF Match
    <3>2. Entries(d2.trailer)[k] = Entries(d.trailer)[k] /\ Entries(e2.trailer)[k] = Entries(e.trailer)[k]
      BY <2>2, <2>3, <3>1 DEF Keys, IsPart
    <3>3. Same(Entries(d2.trailer)[k], Entries(e2.trailer)[k], d, e, M)
      BY <2>1, <3>1, <3>2 DEF Match
    <3>4. d2.trailer \in Of(d2) /\ k \in DOMAIN Entries(d2.trailer)
      BY DEF Of, Keys
    <3>5. Led(d2.trailer, d2.objects) \subseteq Live(d2)
      BY <1>1, LiveIsClosed
    <3> QED
      BY <1>2, <2>2, <3>3, <3>4, <3>5
  <2> QED
    BY <2>1, <2>2, <2>3, <2>6, <2>8, <2>10 DEF Match
<1>4. ASSUME NEW r \in Live(d2) PROVE Match(getObject(d2.objects, r), getObject(e2.objects, N[r]), d2, e2, N)
  <2> DEFINE x == getObject(d2.objects, r)
             y == getObject(e2.objects, N[r])
  <2>1. N[r] = M[r] /\ r \in Live(d)
    BY <1>1
  <2>2. x = getObject(d.objects, r) /\ y = getObject(e.objects, M[r])
    BY <1>1, <2>1
  <2>3. x \in Of(d2) /\ Led(x, d2.objects) \subseteq Live(d2)
    BY <1>1, LiveIsClosed, LiveReference
  <2> HIDE DEF x, y, N
  <2>4. Match(x, y, d, e, M)
    BY <1>0, <2>1, <2>2 DEF Simulation
  <2>5. \A k \in Keys(x, d.objects) : Same(Entries(x)[k], Entries(y)[k], d2, e2, N)
    BY <1>2, <2>3, <2>4 DEF Match, Keys
  <2>6. Match(x, y, d2, e2, N)
    BY <1>1, <2>4, <2>5 DEF Match
  <2> QED
    BY <2>6 DEF x, y
<1>5. PagesApart(d2, N)
  <2>1. PagesApart(d, M)
    BY <1>0 DEF Simulation
  <2>2. \A r \in Live(d2) : N[r] = M[r]
    OBVIOUS
  <2> HIDE DEF N
  <2> QED
    BY <1>1, <2>1, <2>2 DEF PagesApart
<1>6. N = [r \in Live(d2) |-> N[r]] /\ \A r \in Live(d2) : N[r] = M[r]
  OBVIOUS
<1> HIDE DEF N
<1>7. Simulation(d2, e2, N)
  BY <1>3, <1>4, <1>5, <1>6 DEF Simulation
<1>8. Tracks(d2, e2, N)
  BY <1>0, <1>1, <1>3, <1>6 DEF Tracks
<1> QED
  BY <1>7, <1>8 DEF Simulates

\* A storage as it is read back from what is written.
LEMMA ReadBackStored ==
    ASSUME NEW d, Stored(d), d.objects[0].object = Null
    PROVE  LET b == ReadBack(Written(d))
           IN  /\ DOMAIN b.objects = DOMAIN d.objects
               /\ \A i \in DOMAIN d.objects :
                      /\ Entry(b.objects[i]) /\ b.objects[i].generation \in 0 .. MaxGeneration
                      /\ Object(b.objects[i].object)
               /\ b.trailer = WrittenTrailer(d.trailer)
<1> DEFINE b == ReadBack(Written(d))
           file == Written(d)
<1>1. DOMAIN file.rows = DOMAIN d.objects /\ file.trailer = WrittenTrailer(d.trailer)
  BY DEF Written
<1>2. /\ DOMAIN b.objects = DOMAIN d.objects /\ b.trailer = WrittenTrailer(d.trailer)
      /\ \A i \in DOMAIN d.objects :
             b.objects[i] = IF file.rows[i].occupied
                            THEN [object |-> file.bodies[i].object, generation |-> file.rows[i].generation]
                            ELSE [object |-> Null, generation |-> 0]
  <2> HIDE DEF file
  <2>1. b = ReadBack(file)
    BY DEF file
  <2> QED
    BY <1>1, <2>1 DEF ReadBack
<1>3. ASSUME NEW i \in DOMAIN d.objects
      PROVE  /\ Entry(b.objects[i]) /\ b.objects[i].generation \in 0 .. MaxGeneration
             /\ Object(b.objects[i].object)
  <2>1. CASE d.objects[i].object = Null
    <3>1. ~file.rows[i].occupied
      BY <2>1, OccupiedRow
    <3>2. b.objects[i] = [object |-> Null, generation |-> 0]
      BY <1>2, <3>1
    <3> HIDE DEF b
    <3> QED
      BY <3>2, NullIsObject, GenerationAssumption DEF Entry
  <2>2. CASE d.objects[i].object # Null
    <3>1. file.rows[i].occupied /\ i # 0
      BY <2>2, OccupiedRow
    <3>2. file.bodies[i].object = d.objects[i].object
      BY <2>2, BodyWritten
    <3>3. file.rows[i].generation = d.objects[i].generation
      BY <3>1, GenerationWritten
    <3>4. b.objects[i] = [object |-> d.objects[i].object, generation |-> d.objects[i].generation]
      BY <1>2, <3>1, <3>2, <3>3
    <3>5. Object(d.objects[i].object) /\ d.objects[i].generation \in 0 .. MaxGeneration
      BY DEF Stored
    <3> HIDE DEF b
    <3> QED
      BY <3>4, <3>5 DEF Entry
  <2> QED
    BY <2>1, <2>2
<1> QED
  BY <1>2, <1>3

\* The file says what the storage says: nothing but null entries of the trailer
\* is left out.
LEMMA WrittenSimulates ==
    ASSUME NEW d, Stored(d), d.objects[0].object = Null,
           NEW d2, IsTold(d2, d), NEW b2, IsTold(b2, ReadBack(Written(d)))
    PROVE  Stored(b2) /\ \E N : Simulation(d2, b2, N)
<1> DEFINE b == ReadBack(Written(d))
           t == d.trailer
           s == WrittenTrailer(t)
<1>1. /\ DOMAIN b.objects = DOMAIN d.objects /\ b.trailer = s
      /\ \A i \in DOMAIN d.objects :
             /\ Entry(b.objects[i]) /\ b.objects[i].generation \in 0 .. MaxGeneration
             /\ Object(b.objects[i].object)
  BY ReadBackStored
<1>2. isDictionary(t) /\ Object(t)
  BY DEF Stored
<1>3. /\ isDictionary(s) /\ Type(s) = Type(t) /\ Content(s) = Content(t) /\ Object(s)
      /\ IsPart(Entries(s), Entries(t), {k \in WrittenKeys : k \in DOMAIN Entries(t) /\ Entries(t)[k] # Null})
  <2> HIDE DEF t
  <2> QED BY <1>2, RestrictedIs DEF WrittenTrailer
<1>4. Stored(b)
  <2> HIDE DEF b, s
  <2>1. DOMAIN b.objects = 0 .. Count(b.objects) - 1 /\ IsFiniteSet(DOMAIN b.objects)
    BY <1>1 DEF Stored, Count
  <2> QED
    BY <1>1, <1>3, <2>1 DEF Stored
<1>5. \A n, g : getObject(b.objects, Reference(n, g)) = getObject(d.objects, Reference(n, g))
  BY ReferencesKept
<1>6. b2.objects = b.objects /\ d2.objects = d.objects
  BY DEF IsTold
<1>7. Stored(d2) /\ Stored(b2)
  <2> HIDE DEF b
  <2>1. IsTold(b2, b)
    BY DEF b
  <2> QED
    BY <1>4, <2>1, ToldStored
<1>8. Rewritten(d2.trailer, b2.trailer, d2)
  <2> DEFINE x == d2.trailer
             y == b2.trailer
  <2>1. /\ isDictionary(x) /\ Type(x) = Type(t) /\ Content(x) = Content(t)
        /\ IsPart(Entries(x), Entries(t), WrittenKeys)
    <3>1. x = Restricted(t, WrittenKeys)
      BY DEF IsTold
    <3> HIDE DEF x, t
    <3> QED BY <1>2, <3>1, RestrictedIs
  <2>2. y = Restricted(s, WrittenKeys)
    BY <1>1 DEF IsTold
  <2> HIDE DEF s, t, y, x
  <2>3. /\ isDictionary(y) /\ Type(y) = Type(s) /\ Content(y) = Content(s) /\ Object(y)
        /\ IsPart(Entries(y), Entries(s), WrittenKeys)
    BY <1>3, <2>2, RestrictedIs
  <2>4. IsPart(Entries(y), Entries(t), {k \in WrittenKeys : k \in DOMAIN Entries(t) /\ Entries(t)[k] # Null})
    BY <1>3, <2>3 DEF IsPart
  <2>5. y = Dictionary(Type(x), Content(y), Entries(y)) /\ Content(x) = Content(y)
        /\ Entries(y) = [k \in DOMAIN Entries(y) |-> Entries(y)[k]]
    BY <1>3, <2>1, <2>3 DEF Object
  <2>6. /\ DOMAIN Entries(y) \subseteq DOMAIN Entries(x)
        /\ \A k \in DOMAIN Entries(x) \ DOMAIN Entries(y) : Entries(x)[k] = Null
        /\ \A k \in DOMAIN Entries(y) : Entries(y)[k] = Entries(x)[k]
    BY <2>1, <2>4 DEF IsPart
  <2>7. Rewritten(x, y, d2)
    BY <2>5, <2>6 DEF Rewritten
  <2> QED
    BY <2>7 DEF x, y
<1>9. ASSUME NEW r \in getReferences(d2.trailer, d2.objects)
      PROVE  IF isDictionary(getObject(d2.objects, r))
             THEN Rewritten(getObject(d2.objects, r), getObject(b2.objects, r), d2)
             ELSE getObject(b2.objects, r) = getObject(d2.objects, r)
  <2>1. r = Reference(r[2], r[3])
    BY <1>7, ReferenceFrom
  <2> HIDE DEF b
  <2>2. getObject(b2.objects, r) = getObject(d2.objects, r)
    BY <1>5, <1>6, <2>1
  <2>3. isDictionary(getObject(d2.objects, r)) => Object(getObject(d2.objects, r))
    BY <1>7, ObjectsOf, NotNull
  <2> QED
    BY <2>2, <2>3, RewritesItself
<1> QED
  BY <1>7, <1>8, <1>9, InPlace

\* Told gives what a reader is told.
LEMMA ToldIs ==
    ASSUME NEW d, d = [objects |-> d.objects, trailer |-> d.trailer]
    PROVE  IsTold(Told(d), d)
<1>1. PICK o, t : d = [objects |-> o, trailer |-> t]
  OBVIOUS
<1> QED
  BY <1>1 DEF Told, IsTold

\* The tool: the invariant of the file with that of the documents.
DiskInv ==
    /\ IInv /\ Preserved
    /\ source = [objects |-> source.objects, trailer |-> source.trailer]
    /\ disk # <<>> => SameMeaning(Told(source), Told(ReadBack(disk[1])), Decoded)

\* The file that is read says what the source says.
LEMMA DiskInitially == ToolInit => DiskInv
<1> SUFFICES ASSUME ToolInit PROVE DiskInv
  OBVIOUS
<1>1. IInv /\ Preserved
  BY Initially, PreservedInitially DEF ToolInit
<1>2. PICK f \in Files : disk = <<f>> /\ source = ReadBack(f)
  BY DEF ToolInit
<1>3. source = [objects |-> source.objects, trailer |-> source.trailer]
  BY <1>2 DEF ReadBack
<1>4. Stored(source) /\ IsTold(Told(source), source)
  BY <1>1, <1>3, ToldIs DEF Preserved
<1>5. Stored(Told(source))
  BY <1>4, ToldStored
<1>6. SameMeaning(Told(source), Told(source), Decoded)
  BY <1>5, SimulatesItself, SimulationKeepsMeaning
<1>7. ReadBack(disk[1]) = source
  BY <1>2
<1> QED
  BY <1>1, <1>3, <1>6, <1>7 DEF DiskInv

\* Every step of the tool keeps that, also one that fails or is killed.
LEMMA DiskStep == DiskInv /\ [ToolNext]_toolVars => DiskInv'
<1> SUFFICES ASSUME DiskInv, [ToolNext]_toolVars PROVE DiskInv'
  OBVIOUS
<1>1. IInv'
  BY StepKeeps DEF DiskInv
<1>2. ASSUME UNCHANGED vars PROVE Preserved' /\ source' = source
  BY <1>2, PreservedByStep DEF DiskInv, vars
<1>3. CASE Optimize
  <2>1. Preserved' /\ disk' = disk
    BY <1>3, PreservedByStep DEF Optimize, DiskInv
  <2>2. source' = source
    BY <1>3 DEF Optimize, Next, NextPass, Perform, performDereferenceSimpleObjects,
       performRemoveNullObjects, performRemoveUnusedObjects, performMergeIdenticalObjects,
       performShrinkObjectStorage, performRecompressFlateStreams
  <2> QED
    BY <1>1, <2>1, <2>2 DEF DiskInv
<1>4. ASSUME UNCHANGED <<vars, disk>> PROVE DiskInv'
  BY <1>1, <1>2, <1>4 DEF DiskInv
<1>5. CASE OpenTemporary \/ CannotOpen \/ CannotCommit \/ Killed
  BY <1>4, <1>5 DEF OpenTemporary, CannotOpen, CannotCommit, Killed
<1>6. CASE OpenDirectly
  BY <1>1, <1>2, <1>6 DEF OpenDirectly, DiskInv
<1>7. CASE Commit
  <2>1. UNCHANGED vars /\ disk' = <<Written(Storage)>>
    BY <1>7 DEF Commit
  <2>2. Simulates(source, Storage)
    BY DEF DiskInv, Preserved
  <2>3. Stored(source) /\ Stored(Storage) /\ Storage.objects[0].object = Null
    BY DEF DiskInv, Preserved, IInv, HeadIsFree, Storage
  <2> DEFINE b == ReadBack(Written(Storage))
             d2 == Told(source)
             e2 == Told(Storage)
             b2 == Told(b)
  <2>4. IsTold(d2, source) /\ IsTold(e2, Storage) /\ IsTold(b2, b)
    <3>1. Storage = [objects |-> Storage.objects, trailer |-> Storage.trailer]
      BY DEF Storage
    <3>2. b = [objects |-> b.objects, trailer |-> b.trailer]
      BY DEF ReadBack
    <3> QED
      BY <3>1, <3>2, ToldIs DEF DiskInv
  <2> HIDE DEF d2, e2, b2
  <2>5. Simulates(d2, e2)
    BY <2>2, <2>3, <2>4, ToldSimulates
  <2>6. Stored(b2) /\ \E N : Simulation(e2, b2, N)
    BY <2>3, <2>4, WrittenSimulates
  <2>7. Stored(d2) /\ Stored(e2)
    BY <2>3, <2>4, ToldStored
  <2>8. \E N : Simulation(d2, b2, N)
    BY <2>5, <2>6, <2>7, SimulationsCompose DEF Simulates
  <2>9. SameMeaning(d2, b2, Decoded)
    BY <2>6, <2>7, <2>8, SimulationKeepsMeaning
  <2>10. SameMeaning(Told(source), Told(ReadBack(disk'[1])), Decoded)
    BY <2>1, <2>9 DEF d2, b2
  <2> QED
    BY <1>1, <1>2, <2>1, <2>10 DEF DiskInv
<1>8. CASE UNCHANGED toolVars
  BY <1>4, <1>8 DEF toolVars
<1> QED
  BY <1>3, <1>5, <1>6, <1>7, <1>8 DEF ToolNext, Write

\* Whatever fails and whenever the process is killed: a complete file under the
\* name says what the file said at the start, except that a later reference may
\* have come to lead somewhere.
THEOREM FileSaysTheSame == ToolSpec => []DiskKept
<1>1. DiskInv => DiskKept
  BY DEF DiskInv, DiskKept, IInv
<1> QED
  BY <1>1, DiskInitially, DiskStep, PTL DEF ToolSpec

-----------------------------------------------------------------------------
(* The moves of the shrinking leave no gap. *)

\* How many members of a set of numbers are below and above a number.
CountBelow(S, a) == Cardinality({i \in S : i < a})
CountAbove(S, a) == Cardinality({i \in S : i > a})

\* The higher the number, the more members are below it and the fewer above.
LEMMA Ordered ==
    ASSUME NEW S, S \subseteq Nat, IsFiniteSet(S), NEW a \in Nat, NEW b \in Nat, a <= b
    PROVE  /\ CountBelow(S, a) \in Nat /\ CountBelow(S, b) \in Nat /\ CountBelow(S, a) <= CountBelow(S, b)
           /\ CountAbove(S, a) \in Nat /\ CountAbove(S, b) \in Nat /\ CountAbove(S, b) <= CountAbove(S, a)
<1> DEFINE A == {i \in S : i < a}
           B == {i \in S : i < b}
           C == {i \in S : i > a}
           D == {i \in S : i > b}
<1>1. \A i \in S : i \in Nat /\ (i < a => i < b) /\ (i > b => i > a)
  OBVIOUS
<1>2. A \in SUBSET B /\ D \in SUBSET C /\ B \in SUBSET S /\ C \in SUBSET S
  BY <1>1
<1>3. CountBelow(S, a) = Cardinality(A) /\ CountBelow(S, b) = Cardinality(B)
      /\ CountAbove(S, a) = Cardinality(C) /\ CountAbove(S, b) = Cardinality(D)
  BY DEF CountBelow, CountAbove
<1> HIDE DEF A, B, C, D
<1>4. IsFiniteSet(B) /\ IsFiniteSet(C)
  BY <1>2, FS_Subset
<1>5. /\ IsFiniteSet(A) /\ Cardinality(A) <= Cardinality(B)
      /\ IsFiniteSet(D) /\ Cardinality(D) <= Cardinality(C)
  BY <1>2, <1>4, FS_Subset
<1>6. Cardinality(A) \in Nat /\ Cardinality(B) \in Nat /\ Cardinality(C) \in Nat /\ Cardinality(D) \in Nat
  BY <1>4, <1>5, FS_CardinalityType
<1> QED
  BY <1>3, <1>5, <1>6

\* Such a count is a number.
LEMMA Counted ==
    ASSUME NEW S, S \subseteq Nat, IsFiniteSet(S), NEW a \in Nat
    PROVE  CountBelow(S, a) \in Nat /\ CountAbove(S, a) \in Nat
<1>1. a <= a
  OBVIOUS
<1> QED
  BY <1>1, Ordered

\* If a member has some number of members below it, one up to it has fewer: any
\* number that is smaller.
LEMMA RankBelow ==
    ASSUME NEW S, S \subseteq Nat, IsFiniteSet(S), NEW s \in S, NEW c \in Nat, c <= CountBelow(S, s)
    PROVE  \E x \in S : x <= s /\ CountBelow(S, x) = c
<1> DEFINE T == {x \in S : c <= CountBelow(S, x)}
<1>1. PICK x \in T : \A y \in T : x <= y
  <2>1. T \subseteq Nat /\ s \in T
    OBVIOUS
  <2> HIDE DEF T
  <2> QED
    BY <2>1, LeastNumber
<1>2. x \in S /\ x <= s /\ c <= CountBelow(S, x) /\ x \in Nat
  BY <1>1
<1>3. CountBelow(S, x) = c
  <2> SUFFICES ASSUME CountBelow(S, x) # c PROVE FALSE
    OBVIOUS
  <2> DEFINE B == {i \in S : i < x}
  <2>1. CountBelow(S, x) \in Nat /\ CountBelow(S, x) # 0
    <3>1. CountBelow(S, x) \in Nat
      BY <1>2, Counted
    <3>2. c \in Nat /\ c <= CountBelow(S, x)
      BY <1>2
    <3> QED BY <3>1, <3>2
  <2>2. B \in SUBSET S /\ \A i \in B : i \in S /\ i < x
    OBVIOUS
  <2>3. CountBelow(S, x) = Cardinality(B)
    BY DEF CountBelow
  <2> HIDE DEF B
  <2>0. B \subseteq Nat /\ B \subseteq Int
    BY <2>2
  <2>4. B # {} /\ IsFiniteSet(B)
    BY <2>1, <2>2, <2>3, FS_Subset, FS_EmptySet
  <2>5. PICK y \in B : \A z \in B : z <= y
    BY <2>0, <2>4, GreatestNumber
  <2> DEFINE C == {i \in S : i < y}
  <2>6. y \in S /\ y < x /\ y \in Nat
    BY <2>2
  <2>7. B = C \cup {y} /\ y \notin C
    <3>1. \A i \in S : i \in Nat /\ (i < x => (i < y \/ i = y)) /\ (i < y => i < x)
      <4> SUFFICES ASSUME NEW i \in S PROVE i \in Nat /\ (i < x => (i < y \/ i = y)) /\ (i < y => i < x)
        OBVIOUS
      <4>1. i < x => i <= y
        BY <2>5 DEF B
      <4>2. i \in Nat
        OBVIOUS
      <4> QED
        BY <1>2, <2>6, <4>1, <4>2
    <3>2. y \notin C
      <4>1. ~(y < y) /\ ~(y > y)
        BY <2>6
      <4> QED BY <4>1
    <3> QED
      BY <2>6, <3>1, <3>2 DEF B
  <2>8. CountBelow(S, y) = Cardinality(C) /\ IsFiniteSet(C)
    <3>1. C \in SUBSET S
      OBVIOUS
    <3> HIDE DEF C
    <3>2. IsFiniteSet(C)
      BY <3>1, FS_Subset
    <3> QED
      BY <3>2 DEF C, CountBelow
  <2> HIDE DEF C
  <2>9. Cardinality(B) = Cardinality(C) + 1
    BY <2>7, <2>8, FS_AddElement
  <2>10. c <= CountBelow(S, y)
    <3>1. CountBelow(S, y) \in Nat
      BY <2>6, Counted
    <3> QED
      BY <1>2, <2>1, <2>3, <2>8, <2>9, <3>1
  <2>11. x <= y
    BY <1>1, <2>6, <2>10
  <2> QED
    BY <1>2, <2>6, <2>11
<1> QED
  BY <1>2, <1>3

\* The same from above.
LEMMA RankAbove ==
    ASSUME NEW S, S \subseteq Nat, IsFiniteSet(S), NEW s \in S, NEW c \in Nat, c <= CountAbove(S, s)
    PROVE  \E x \in S : s <= x /\ CountAbove(S, x) = c
<1> DEFINE T == {x \in S : c <= CountAbove(S, x)}
<1>1. PICK x \in T : \A y \in T : y <= x
  <2>1. T \in SUBSET S /\ s \in T
    OBVIOUS
  <2>3. S \subseteq Int
    OBVIOUS
  <2> HIDE DEF T
  <2>2. IsFiniteSet(T)
    BY <2>1, FS_Subset
  <2> QED
    BY <2>1, <2>2, <2>3, GreatestNumber
<1>2. x \in S /\ s <= x /\ c <= CountAbove(S, x) /\ x \in Nat
  BY <1>1
<1>3. CountAbove(S, x) = c
  <2> SUFFICES ASSUME CountAbove(S, x) # c PROVE FALSE
    OBVIOUS
  <2> DEFINE B == {i \in S : i > x}
  <2>1. CountAbove(S, x) \in Nat /\ CountAbove(S, x) # 0
    <3>1. CountAbove(S, x) \in Nat
      BY <1>2, Counted
    <3>2. c \in Nat /\ c <= CountAbove(S, x)
      BY <1>2
    <3> QED BY <3>1, <3>2
  <2>2. B \in SUBSET S /\ \A i \in B : i \in S /\ i > x
    OBVIOUS
  <2>3. CountAbove(S, x) = Cardinality(B)
    BY DEF CountAbove
  <2> HIDE DEF B
  <2>0. B \subseteq Nat /\ B \subseteq Int
    BY <2>2
  <2>4. B # {} /\ IsFiniteSet(B)
    BY <2>1, <2>2, <2>3, FS_Subset, FS_EmptySet
  <2>5. PICK y \in B : \A z \in B : y <= z
    BY <2>0, <2>4, LeastNumber
  <2> DEFINE C == {i \in S : i > y}
  <2>6. y \in S /\ y > x /\ y \in Nat
    BY <2>2
  <2>7. B = C \cup {y} /\ y \notin C
    <3>1. \A i \in S : i \in Nat /\ (i > x => (i > y \/ i = y)) /\ (i > y => i > x)
      <4> SUFFICES ASSUME NEW i \in S PROVE i \in Nat /\ (i > x => (i > y \/ i = y)) /\ (i > y => i > x)
        OBVIOUS
      <4>1. i > x => y <= i
        BY <2>5 DEF B
      <4>2. i \in Nat
        OBVIOUS
      <4> QED
        BY <1>2, <2>6, <4>1, <4>2
    <3>2. y \notin C
      <4>1. ~(y < y) /\ ~(y > y)
        BY <2>6
      <4> QED BY <4>1
    <3> QED
      BY <2>6, <3>1, <3>2 DEF B
  <2>8. CountAbove(S, y) = Cardinality(C) /\ IsFiniteSet(C)
    <3>1. C \in SUBSET S
      OBVIOUS
    <3> HIDE DEF C
    <3>2. IsFiniteSet(C)
      BY <3>1, FS_Subset
    <3> QED
      BY <3>2 DEF C, CountAbove
  <2> HIDE DEF C
  <2>9. Cardinality(B) = Cardinality(C) + 1
    BY <2>7, <2>8, FS_AddElement
  <2>10. c <= CountAbove(S, y)
    <3>1. CountAbove(S, y) \in Nat
      BY <2>6, Counted
    <3> QED
      BY <1>2, <2>1, <2>3, <2>8, <2>9, <3>1
  <2>11. y <= x
    BY <1>1, <2>6, <2>10
  <2> QED
    BY <1>2, <2>6, <2>11
<1> QED
  BY <1>2, <1>3

\* Behind an entry that is left free, and can be used, nothing is left.
LEMMA MovesSqueeze ==
    ASSUME Stored(Storage), NEW i \in Indices \ {0}, NEW j \in Indices \ {0}, i < j,
           Moved(Moves)[j].object # Null
    PROVE  Moved(Moves)[i].object # Null \/ Moved(Moves)[i].generation = MaxGeneration
<1> DEFINE F == FreeEntries
           O == OccupiedEntries
           to == Moved(Moves)
<1> SUFFICES ASSUME to[i].object = Null, to[i].generation # MaxGeneration PROVE FALSE
  OBVIOUS
<1>1. /\ F \subseteq Nat /\ IsFiniteSet(F) /\ O \subseteq Nat /\ IsFiniteSet(O)
      /\ i \in Nat /\ j \in Nat
  <2>1. F \in SUBSET Indices /\ O \in SUBSET Indices
    BY DEF FreeEntries, OccupiedEntries
  <2>2. IsFiniteSet(F) /\ IsFiniteSet(O)
    <3> HIDE DEF F, O
    <3> QED BY <2>1, IndicesAre, FS_Subset
  <2> QED
    BY <2>1, <2>2, IndicesAre
<1>2. /\ \A o \in O, f \in F : f < o /\ CountAbove(O, o) = CountBelow(F, f) => <<o, f>> \in Moves
      /\ \A m \in Moves : /\ m[1] \in O /\ m[2] \in F /\ m[2] < m[1]
                          /\ CountAbove(O, m[1]) = CountBelow(F, m[2])
  BY DEF Moves, CountAbove, CountBelow
<1>3. ASSUME NEW m \in Moves PROVE i # m[2] /\ j # m[1]
  <2>1. m[1] \in Indices /\ Occupied(m[1])
    BY MovesApart
  <2>2. to[m[2]].object = objects[m[1]].object
    <3>1. to[m[2]] = [object |-> objects[m[1]].object, generation |-> objects[m[2]].generation + 1]
      BY MovedIs
    <3> HIDE DEF to
    <3> QED BY <3>1
  <2>3. to[m[1]].object = Null
    <3>1. to[m[1]] = [objects[m[1]] EXCEPT !.object = Null] /\ Entry(objects[m[1]])
      BY <2>1, MovedIs, StorageIs
    <3> HIDE DEF to
    <3> QED BY <3>1, EntryUpdated
  <2> QED
    BY <2>1, <2>2, <2>3 DEF Occupied
<1>4. ASSUME \A m \in Moves : i # m[1] PROVE i \in F
  <2>1. to[i] = objects[i]
    BY <1>3, <1>4, MovedIs
  <2>2. objects[i].generation < MaxGeneration
    <3>1. objects[i].generation \in Nat /\ objects[i].generation \in 0 .. MaxGeneration
      BY IndicesAre
    <3>2. objects[i].generation # MaxGeneration
      BY <2>1
    <3> QED
      BY <3>1, <3>2, GenerationAssumption
  <2> QED
    BY <2>1, <2>2 DEF FreeEntries, Occupied
<1>5. ASSUME \A m \in Moves : j # m[2] PROVE j \in O
  <2>1. to[j] = objects[j]
    BY <1>3, <1>5, MovedIs
  <2> QED
    BY <2>1 DEF OccupiedEntries, Occupied
<1> HIDE DEF to, F, O
\* The free entry would have received an object of behind it.
<1>6. ASSUME i \in F, NEW o \in O, i < o, CountBelow(F, i) <= CountAbove(O, o) PROVE FALSE
  <2>1. CountBelow(F, i) \in Nat
    BY <1>1, Counted
  <2>2. PICK p \in O : o <= p /\ CountAbove(O, p) = CountBelow(F, i)
    BY <1>1, <1>6, <2>1, RankAbove
  <2>3. i < p
    BY <1>1, <1>6, <2>2
  <2>4. <<p, i>> \in Moves
    BY <1>2, <1>6, <2>2, <2>3
  <2> QED
    BY <1>3, <2>4
\* What is left behind would have moved.
<1>7. ASSUME j \in O, NEW f \in F, f < j, CountAbove(O, j) <= CountBelow(F, f) PROVE FALSE
  <2>1. CountAbove(O, j) \in Nat
    BY <1>1, Counted
  <2>2. PICK g \in F : g <= f /\ CountBelow(F, g) = CountAbove(O, j)
    BY <1>1, <1>7, <2>1, RankBelow
  <2>3. g < j
    BY <1>1, <1>7, <2>2
  <2>4. <<j, g>> \in Moves
    BY <1>2, <1>7, <2>2, <2>3
  <2> QED
    BY <1>3, <2>4
<1>8. ASSUME i \in F, j \in O PROVE FALSE
  <2>1. CountBelow(F, i) \in Nat /\ CountAbove(O, j) \in Nat
    BY <1>1, Counted
  <2>2. CountBelow(F, i) <= CountAbove(O, j) \/ CountAbove(O, j) <= CountBelow(F, i)
    BY <2>1
  <2> QED
    BY <1>6, <1>7, <1>8, <2>2
<1>9. ASSUME i \in F, NEW n \in Moves, j = n[2] PROVE FALSE
  <2>1. n[1] \in O /\ j \in F /\ j < n[1] /\ CountAbove(O, n[1]) = CountBelow(F, j)
    BY <1>2, <1>9
  <2>2. CountBelow(F, i) <= CountBelow(F, j)
    <3>1. i <= j /\ i \in Nat /\ j \in Nat
      BY <1>1
    <3> QED BY <1>1, <3>1, Ordered
  <2>3. i < n[1]
    <3>1. n[1] \in Nat /\ i \in Nat /\ j \in Nat
      BY <1>1, <2>1
    <3> QED BY <2>1, <3>1
  <2> QED
    BY <1>6, <1>9, <2>1, <2>2, <2>3
<1>10. ASSUME NEW m \in Moves, i = m[1], j \in O PROVE FALSE
  <2>1. i \in O /\ m[2] \in F /\ m[2] < i /\ CountAbove(O, i) = CountBelow(F, m[2])
    BY <1>2, <1>10
  <2>2. CountAbove(O, j) <= CountAbove(O, i)
    <3>1. i <= j /\ i \in Nat /\ j \in Nat
      BY <1>1
    <3> QED BY <1>1, <3>1, Ordered
  <2>3. m[2] < j
    <3>1. m[2] \in Nat /\ i \in Nat /\ j \in Nat
      BY <1>1, <2>1
    <3> QED BY <2>1, <3>1
  <2> QED
    BY <1>7, <1>10, <2>1, <2>2, <2>3
<1>11. ASSUME NEW m \in Moves, i = m[1], NEW n \in Moves, j = n[2] PROVE FALSE
  <2>1. i \in O /\ m[2] \in F /\ m[2] < i /\ CountAbove(O, i) = CountBelow(F, m[2])
    BY <1>2, <1>11
  <2>2. n[1] \in O /\ j \in F /\ j < n[1] /\ CountAbove(O, n[1]) = CountBelow(F, j)
    BY <1>2, <1>11
  <2>3. m[2] \in Nat /\ n[1] \in Nat
    BY <1>1, <2>1, <2>2
  <2>4. i <= n[1] /\ m[2] < j
    BY <1>1, <2>1, <2>2, <2>3
  <2>5. CountAbove(O, n[1]) <= CountAbove(O, i) /\ CountAbove(O, n[1]) \in Nat /\ CountAbove(O, i) \in Nat
    BY <1>1, <2>3, <2>4, Ordered
  <2>6. m[2] <= j
    BY <1>1, <2>3, <2>4
  <2>7. CountBelow(F, m[2]) <= CountBelow(F, j) /\ CountBelow(F, m[2]) \in Nat /\ CountBelow(F, j) \in Nat
    BY <1>1, <2>3, <2>6, Ordered
  <2>8. CountBelow(F, m[2]) = CountBelow(F, j)
    BY <2>1, <2>2, <2>5, <2>7
  <2> QED
    BY <1>1, <2>1, <2>4, <2>8, FewerBelow DEF CountBelow
<1> QED
  BY <1>4, <1>5, <1>8, <1>9, <1>10, <1>11

-----------------------------------------------------------------------------
(* What the operations do to the unused, the duplicates and the gaps. *)

\* What is found from a trailer is found, under the new names, from another, if
\* the objects and references correspond.
LEMMA FoundRenamed ==
    ASSUME NEW a, IsFiniteSet(DOMAIN a), NEW t,
           NEW A, A = getReferences(t, a), getDirectReferences(t) \subseteq A,
           \A r \in A : getDirectReferences(getObject(a, r)) \subseteq A,
           NEW B, NEW map,
           \A r \in getDirectReferences(t) : Renamed(r, map) \in B,
           \A r \in A : Renamed(r, map) \in B =>
               \A s \in getDirectReferences(getObject(a, r)) : Renamed(s, map) \in B
    PROVE  \A r \in A : Renamed(r, map) \in B
<1> DEFINE T == {r \in A : Renamed(r, map) \in B}
<1>1. getDirectReferences(t) \subseteq T
  OBVIOUS
<1>2. \A r \in T : getDirectReferences(getObject(a, r)) \subseteq T
  OBVIOUS
<1> HIDE DEF T
<1>3. getReferences(t, a) \subseteq T
  BY <1>1, <1>2, ReferencesAreReachable
<1> QED
  BY <1>3 DEF T

\* What getReferences finds in a document has all that it refers to.
LEMMA FoundIsClosed ==
    ASSUME NEW d, Stored(d)
    PROVE  /\ getDirectReferences(d.trailer) \subseteq getReferences(d.trailer, d.objects)
           /\ \A r \in getReferences(d.trailer, d.objects) :
                  getDirectReferences(getObject(d.objects, r)) \subseteq getReferences(d.trailer, d.objects)
<1>1. IsFiniteSet(DOMAIN d.objects)
  BY DEF Stored
<1>2. ASSUME NEW x \in {d.trailer} \cup {d.objects[i].object : i \in DOMAIN d.objects},
             NEW r \in getDirectReferences(x)
      PROVE  r = Reference(r[2], r[3])
  <2>1. Object(x)
    BY DEF Stored
  <2> QED
    BY <2>1 DEF Object
<1> QED
  BY <1>1, <1>2, ReferencesAreClosed

\* A dictionary refers to the references among its entries, under their new
\* names if they are replaced.
LEMMA ReplacedRefers ==
    ASSUME NEW map, \A r \in DOMAIN map : isReference(r) /\ isReference(map[r]), NEW x, Object(x)
    PROVE  getDirectReferences(replaceReferences(x, map)) = {Renamed(r, map) : r \in getDirectReferences(x)}
<1> DEFINE y == replaceReferences(x, map)
<1>1. /\ isDictionary(y) <=> isDictionary(x)
      /\ ~isDictionary(x) => y = x
      /\ isDictionary(x) => /\ y = Dictionary(Type(x), Content(x), Entries(y))
                            /\ Entries(y) = [k \in DOMAIN Entries(x) |-> Renamed(Entries(x)[k], map)]
  BY Replaced
<1> HIDE DEF y
<1>2. CASE ~isDictionary(x)
  BY <1>1, <1>2 DEF getDirectReferences, y
<1>3. CASE isDictionary(x)
  <2>1. DOMAIN Entries(y) = DOMAIN Entries(x) /\ \A k \in DOMAIN Entries(x) : Entries(y)[k] = Renamed(Entries(x)[k], map)
    BY <1>1, <1>3
  <2>2. \A v : isReference(Renamed(v, map)) <=> isReference(v)
    BY DEF Renamed
  <2>3. \A w \in getDirectReferences(y) : \E r \in getDirectReferences(x) : w = Renamed(r, map)
    BY <1>1, <1>3, <2>1, <2>2 DEF getDirectReferences
  <2>4. \A r \in getDirectReferences(x) : Renamed(r, map) \in getDirectReferences(y)
    BY <1>1, <1>3, <2>1, <2>2 DEF getDirectReferences
  <2> QED
    BY <2>3, <2>4 DEF y
<1> QED
  BY <1>2, <1>3

\* The map of the shrinking has references only.
LEMMA ShrinkMapRefers ==
    ASSUME Stored(Storage)
    PROVE  \A r \in DOMAIN ShrinkMap(Moves) : isReference(r) /\ isReference(ShrinkMap(Moves)[r])
<1>1. \A m \in Moves : isReference(ReferenceTo(objects, m[1]))
  BY ReferenceParts DEF ReferenceTo
<1>2. \A m \in Moves : isReference(ShrinkMap(Moves)[ReferenceTo(objects, m[1])])
  BY ShrinkMapIs, ReferenceParts
<1> QED
  BY <1>1, <1>2, ShrinkMapIs

\* What is in the storage after shrinking, and where the references lead to.
LEMMA ShrunkIs ==
    ASSUME Stored(Storage), performShrinkObjectStorage
    PROVE  LET to == Moved(Moves)
               map == ShrinkMap(Moves)
           IN  /\ DOMAIN objects' \subseteq Indices /\ DOMAIN to = Indices
               /\ \A i \in DOMAIN objects' :
                      /\ objects'[i].object = replaceReferences(to[i].object, map)
                      /\ objects'[i].generation = to[i].generation
               /\ \A i \in Indices \ DOMAIN objects' : to[i].object = Null
               /\ \A r : getObject(objects', r) = replaceReferences(getObject(to, r), map)
               /\ trailer' = replaceReferences(trailer, map)
<1> DEFINE map == ShrinkMap(Moves)
           to == Moved(Moves)
           cut == Trimmed(to)
<1>1. /\ trailer' = replaceReferences(trailer, map)
      /\ objects' = [i \in DOMAIN cut |-> [cut[i] EXCEPT !.object = replaceReferences(@, map)]]
  BY DEF performShrinkObjectStorage, UpdateAll
<1>2. DOMAIN to = Indices
  BY MovedIs
<1>3. ASSUME NEW i \in Indices PROVE Entry(to[i])
  <2>0. Entry(objects[i])
    BY StorageIs
  <2>1. ASSUME NEW m \in Moves, i = m[2] PROVE Entry(to[i])
    <3>1. to[i] = [object |-> objects[m[1]].object, generation |-> objects[i].generation + 1]
      BY <2>1, MovedIs
    <3> HIDE DEF to
    <3> QED BY <3>1 DEF Entry
  <2>2. ASSUME NEW m \in Moves, i = m[1] PROVE Entry(to[i])
    <3>1. to[i] = [objects[i] EXCEPT !.object = Null]
      BY <2>2, MovedIs
    <3> QED BY <2>0, <3>1, EntryUpdated
  <2>3. (\A m \in Moves : i # m[1] /\ i # m[2]) => to[i] = objects[i]
    BY MovedIs
  <2> HIDE DEF to
  <2> QED
    BY <2>0, <2>1, <2>2, <2>3
<1>4. DOMAIN to = 0 .. Count(objects) - 1 /\ Count(objects) \in Nat
  BY <1>2, IndicesAre
<1> HIDE DEF to
<1>5. /\ DOMAIN cut \subseteq DOMAIN to /\ \A i \in DOMAIN cut : cut[i] = to[i]
      /\ \A i \in DOMAIN to \ DOMAIN cut : to[i].object = Null
      /\ \A r : getObject(cut, r) = getObject(to, r)
  BY <1>4, TrimmedIs
<1> HIDE DEF cut, map
<1>6. /\ DOMAIN objects' = DOMAIN cut
      /\ \A i \in DOMAIN cut : /\ objects'[i].object = replaceReferences(cut[i].object, map)
                               /\ Entry(objects'[i]) /\ objects'[i].generation = cut[i].generation
      /\ \A r : getObject(objects', r) = replaceReferences(getObject(cut, r), map)
  <2>1. \A i \in DOMAIN cut : Entry(cut[i])
    BY <1>2, <1>3, <1>5
  <2> QED
    BY <1>1, <2>1, AllReplaced
<1>7. /\ DOMAIN objects' \subseteq Indices /\ DOMAIN to = Indices
      /\ \A i \in DOMAIN objects' :
             /\ objects'[i].object = replaceReferences(to[i].object, map)
             /\ objects'[i].generation = to[i].generation
      /\ \A i \in Indices \ DOMAIN objects' : to[i].object = Null
      /\ \A r : getObject(objects', r) = replaceReferences(getObject(to, r), map)
      /\ trailer' = replaceReferences(trailer, map)
  BY <1>1, <1>2, <1>5, <1>6
<1> QED
  BY <1>7 DEF to, map

\* References of the document.
LEMMA ReferencesAreFine ==
    ASSUME Stored(Storage), NEW x \in Of(Storage), NEW r \in getDirectReferences(x)
    PROVE  /\ r = Reference(r[2], r[3]) /\ r[2] \in Nat /\ r[3] \in Nat
           /\ NoLater(Storage) => ~IsLater(r, objects)
<1>1. Object(x)
  BY ObjectsOf
<1>2. r = Reference(r[2], r[3]) /\ r[2] \in Nat /\ r[3] \in Nat
  BY <1>1 DEF Object
<1>3. isDictionary(x)
  BY DEF getDirectReferences
<1>4. PICK k \in DOMAIN Entries(x) : isReference(Entries(x)[k]) /\ r = Entries(x)[k]
  BY <1>3 DEF getDirectReferences
<1>5. NoLater(Storage) => Later(x, objects) = {}
  BY <1>3, StorageIs DEF NoLater
<1>6. IsLater(r, objects) => k \in Later(x, objects)
  BY <1>4, LaterIs
<1> QED
  BY <1>2, <1>5, <1>6

\* Nothing is replaced by null, and null by nothing.
LEMMA NullOnly ==
    ASSUME NEW map, \A r \in DOMAIN map : isReference(r) /\ isReference(map[r]), NEW x
    PROVE  replaceReferences(x, map) = Null <=> x = Null
<1>1. /\ isDictionary(replaceReferences(x, map)) <=> isDictionary(x)
      /\ ~isDictionary(x) => replaceReferences(x, map) = x
  BY Replaced
<1> QED
  BY <1>1, NotNull

\* An occupied entry after shrinking is an entry that did not move, or the one
\* an object moved to.
LEMMA WhereFrom ==
    ASSUME Stored(Storage), NEW i \in Indices, Moved(Moves)[i].object # Null
    PROVE  \E j \in Indices :
               /\ Occupied(j) /\ Moved(Moves)[i].object = objects[j].object
               /\ Renamed(ReferenceTo(objects, j), ShrinkMap(Moves)) = Reference(i, Moved(Moves)[i].generation)
               /\ j # i => <<j, i>> \in Moves
               /\ j = i => \A m \in Moves : i # m[1] /\ i # m[2]
<1> DEFINE to == Moved(Moves)
           map == ShrinkMap(Moves)
<1>1. ASSUME NEW m \in Moves, i = m[2]
      PROVE  /\ m[1] \in Indices /\ Occupied(m[1]) /\ to[i].object = objects[m[1]].object
             /\ Renamed(ReferenceTo(objects, m[1]), map) = Reference(i, to[i].generation)
             /\ <<m[1], i>> \in Moves /\ m[1] # i
  <2>1. m[1] \in Indices /\ Occupied(m[1]) /\ m = <<m[1], m[2]>> /\ ~Occupied(m[2])
    BY MovesApart
  <2>2. to[i] = [object |-> objects[m[1]].object, generation |-> objects[i].generation + 1]
    BY <1>1, MovedIs
  <2>3. Renamed(ReferenceTo(objects, m[1]), map) = Reference(i, objects[i].generation + 1)
    BY <1>1, ShrinkMapIs DEF Renamed
  <2> HIDE DEF to, map
  <2>4. to[i].object = objects[m[1]].object /\ to[i].generation = objects[i].generation + 1
    BY <2>2
  <2> QED
    BY <1>1, <2>1, <2>3, <2>4
<1>2. ASSUME NEW m \in Moves PROVE i # m[1]
  <2> SUFFICES ASSUME i = m[1] PROVE FALSE
    OBVIOUS
  <2>1. to[i] = [objects[i] EXCEPT !.object = Null] /\ Entry(objects[i])
    BY MovedIs, StorageIs
  <2> QED
    BY <2>1, EntryUpdated
<1>3. ASSUME \A m \in Moves : i # m[2]
      PROVE  /\ Occupied(i) /\ to[i].object = objects[i].object
             /\ Renamed(ReferenceTo(objects, i), map) = Reference(i, to[i].generation)
  <2>1. to[i] = objects[i]
    BY <1>2, <1>3, MovedIs
  <2>2. ReferenceTo(objects, i) \notin DOMAIN map
    <3>1. \A m \in Moves : ReferenceTo(objects, i) # ReferenceTo(objects, m[1])
      BY <1>2, ReferenceParts DEF ReferenceTo
    <3> QED
      BY <3>1, ShrinkMapIs
  <2> HIDE DEF to, map
  <2>3. Renamed(ReferenceTo(objects, i), map) = Reference(i, to[i].generation)
    BY <2>1, <2>2 DEF Renamed, ReferenceTo
  <2> QED
    BY <2>1, <2>3 DEF Occupied, to
<1> HIDE DEF to, map
<1>4. CASE \E m \in Moves : i = m[2]
  <2>1. PICK m \in Moves : i = m[2]
    BY <1>4
  <2> QED
    BY <1>1, <2>1 DEF to, map
<1>5. CASE \A m \in Moves : i # m[2]
  BY <1>2, <1>3, <1>5 DEF to, map
<1> QED
  BY <1>4, <1>5

\* Shrinking leaves nothing unused that was used, and brings nothing back.
LEMMA ShrinkKeepsUsed ==
    ASSUME Stored(Storage), performShrinkObjectStorage, Unused = {}
    PROVE  Unused' = {}
<1> DEFINE to == Moved(Moves)
           map == ShrinkMap(Moves)
           A == getReferences(trailer, objects)
           B == getReferences(trailer', objects')
<1>1. /\ DOMAIN objects' \subseteq Indices /\ DOMAIN to = Indices
      /\ \A i \in DOMAIN objects' :
             /\ objects'[i].object = replaceReferences(to[i].object, map)
             /\ objects'[i].generation = to[i].generation
      /\ \A r : getObject(objects', r) = replaceReferences(getObject(to, r), map)
      /\ trailer' = replaceReferences(trailer, map)
  BY ShrunkIs
<1>2. Stored(Storage) /\ Stored(Storage')
  BY ShrinkSimulates DEF Goes
<1>3. /\ getDirectReferences(trailer) \subseteq A
      /\ \A r \in A : getDirectReferences(getObject(objects, r)) \subseteq A
  BY <1>2, FoundIsClosed DEF Storage
<1>4. /\ getDirectReferences(trailer') \subseteq B
      /\ \A r \in B : getDirectReferences(getObject(objects', r)) \subseteq B
  <2> DEFINE e == Storage'
  <2>1. e.trailer = trailer' /\ e.objects = objects'
    BY DEF Storage
  <2>2. Stored(e)
    BY <1>2
  <2> HIDE DEF e
  <2> QED
    BY <2>1, <2>2, FoundIsClosed
<1>5. \A r \in DOMAIN map : isReference(r) /\ isReference(map[r])
  BY ShrinkMapRefers
<1>6. ASSUME NEW x \in Of(Storage), NEW r \in getDirectReferences(x)
      PROVE  getObject(to, Renamed(r, map)) = getObject(objects, r) \/ IsLater(r, objects)
  BY ReferencesAreFine, MovedReferences
<1>7. \A r \in A : \E x \in Of(Storage) : r \in getDirectReferences(x)
  BY <1>2, ReferenceFrom DEF Storage
<1>8. trailer \in Of(Storage) /\ \A r : getObject(objects, r) # Null => getObject(objects, r) \in Of(Storage)
  BY <1>2, ObjectsOf, StorageIs DEF Of
<1>9. \A x \in Of(Storage) : Object(x)
  BY <1>2, ObjectsOf
<1>10. IsFiniteSet(DOMAIN objects)
  BY IndicesAre DEF Indices
<1>11. ASSUME NEW i \in DOMAIN objects', to[i].object # Null
       PROVE  \E r \in A : Renamed(r, map) = Reference(i, to[i].generation)
  <2>1. i \in Indices
    BY <1>1
  <2>2. PICK j \in Indices :
            /\ Occupied(j)
            /\ Renamed(ReferenceTo(objects, j), map) = Reference(i, to[i].generation)
    BY <1>11, <2>1, WhereFrom
  <2>3. ReferenceTo(objects, j) \in A
    BY <2>2 DEF Unused
  <2> HIDE DEF to, map, A
  <2> QED
    BY <2>2, <2>3
<1>0. Unused' = {i \in DOMAIN objects' : objects'[i].object # Null /\ ReferenceTo(objects', i) \notin B}
  BY DEF Unused, Indices, Occupied
<1>12. A = getReferences(trailer, objects)
  OBVIOUS
<1> HIDE DEF to, map, A, B
<1>13. \A r \in getDirectReferences(trailer) : Renamed(r, map) \in B
  BY <1>1, <1>4, <1>5, <1>8, <1>9, ReplacedRefers
<1>14. ASSUME NEW r \in A, Renamed(r, map) \in B,
              NEW s \in getDirectReferences(getObject(objects, r))
       PROVE  Renamed(s, map) \in B
  <2>1. getObject(objects, r) # Null
    BY <1>14, NotNull
  <2>2. Object(getObject(objects, r))
    BY <1>8, <1>9, <2>1
  <2>3. ~IsLater(r, objects)
    <3>1. r[2] \in Indices /\ objects[r[2]].generation = r[3]
      BY <2>1 DEF getObject, Indices
    <3>2. objects[r[2]].generation \in Nat
      BY <3>1, IndicesAre
    <3> QED
      BY <3>1, <3>2 DEF IsLater
  <2>5. getObject(objects', Renamed(r, map)) = replaceReferences(getObject(objects, r), map)
    BY <1>1, <1>6, <1>7, <2>3
  <2>4. Renamed(s, map) \in getDirectReferences(replaceReferences(getObject(objects, r), map))
    BY <1>5, <1>14, <2>2, ReplacedRefers
  <2> QED
    BY <1>4, <1>14, <2>4, <2>5
<1>15. \A r \in A : Renamed(r, map) \in B
  BY <1>3, <1>10, <1>12, <1>13, <1>14, FoundRenamed
<1>16. ASSUME NEW i \in DOMAIN objects', objects'[i].object # Null PROVE ReferenceTo(objects', i) \in B
  <2>1. to[i].object # Null
    BY <1>1, <1>16, NullReplaced
  <2>2. ReferenceTo(objects', i) = Reference(i, to[i].generation)
    BY <1>1 DEF ReferenceTo
  <2> QED
    BY <1>11, <1>15, <2>1, <2>2
<1> QED
  BY <1>0, <1>16

\* An operation that keeps which entries are occupied and what they refer to
\* leaves nothing unused that was used.
LEMMA SameReferencesKeepUsed ==
    ASSUME Stored(Storage), Stored(Storage)', Unused = {},
           getDirectReferences(trailer') = getDirectReferences(trailer),
           DOMAIN objects' = Indices,
           \A i \in Indices :
               /\ objects'[i].generation = objects[i].generation
               /\ objects'[i].object = Null <=> objects[i].object = Null
               /\ getDirectReferences(objects'[i].object) = getDirectReferences(objects[i].object)
    PROVE  Unused' = {}
<1> DEFINE A == getReferences(trailer, objects)
           B == getReferences(trailer', objects')
           map == [r \in {} |-> r]
<1>2. /\ getDirectReferences(trailer) \subseteq A
      /\ \A r \in A : getDirectReferences(getObject(objects, r)) \subseteq A
  BY FoundIsClosed DEF Storage
<1>3. /\ getDirectReferences(trailer') \subseteq B
      /\ \A r \in B : getDirectReferences(getObject(objects', r)) \subseteq B
  <2> DEFINE e == Storage'
  <2>1. e.trailer = trailer' /\ e.objects = objects'
    BY DEF Storage
  <2>2. Stored(e)
    OBVIOUS
  <2> HIDE DEF e
  <2> QED
    BY <2>1, <2>2, FoundIsClosed
<1>4. \A r : Renamed(r, map) = r
  BY DEF Renamed
<1>5. \A r : getDirectReferences(getObject(objects', r)) = getDirectReferences(getObject(objects, r))
  BY DEF getObject, Indices
<1>6. IsFiniteSet(DOMAIN objects)
  BY IndicesAre DEF Indices
<1>7. A = getReferences(trailer, objects)
  OBVIOUS
<1>8. Unused' = {i \in DOMAIN objects' : objects'[i].object # Null /\ ReferenceTo(objects', i) \notin B}
  BY DEF Unused, Indices, Occupied
<1>9. \A i \in Indices : objects[i].object # Null => ReferenceTo(objects, i) \in A
  BY DEF Unused, Occupied
<1> HIDE DEF A, B, map
<1>10. \A r \in A : Renamed(r, map) \in B
  BY <1>2, <1>3, <1>4, <1>5, <1>6, <1>7, FoundRenamed
<1>11. \A i \in Indices : objects'[i].object # Null => ReferenceTo(objects', i) \in B
  BY <1>4, <1>9, <1>10 DEF ReferenceTo
<1> QED
  BY <1>8, <1>11

\* Recompression changes the content of streams only.
LEMMA RecompressKeeps ==
    ASSUME Stored(Storage), performRecompressFlateStreams
    PROVE  /\ DOMAIN objects' = Indices /\ trailer' = trailer
           /\ \A i \in Indices :
                  /\ objects'[i].generation = objects[i].generation
                  /\ objects'[i].object = Null <=> objects[i].object = Null
                  /\ getDirectReferences(objects'[i].object) = getDirectReferences(objects[i].object)
<1>1. trailer' = trailer /\ objects' = [i \in DOMAIN objects |-> [objects[i] EXCEPT !.object = Recompressed(@)]]
  BY DEF performRecompressFlateStreams, UpdateAll
<1>2. ASSUME NEW i \in Indices
      PROVE  /\ objects'[i].generation = objects[i].generation
             /\ objects'[i].object = Recompressed(objects[i].object)
  <2>1. objects'[i] = [objects[i] EXCEPT !.object = Recompressed(objects[i].object)] /\ Entry(objects[i])
    BY <1>1, StorageIs DEF Indices
  <2> QED
    BY <2>1, EntryUpdated
<1>3. ASSUME NEW x
      PROVE  /\ Recompressed(x) = Null <=> x = Null
             /\ getDirectReferences(Recompressed(x)) = getDirectReferences(x)
  <2>1. CASE isDictionary(x) /\ Content(x) = "loose"
    <3>1. Recompressed(x) = Dictionary(Type(x), "tight", Entries(x))
      BY <2>1 DEF Recompressed
    <3>2. isDictionary(Recompressed(x)) /\ Entries(Recompressed(x)) = Entries(x)
      BY <3>1, DictionaryParts
    <3> QED
      BY <2>1, <3>2, NotNull DEF getDirectReferences
  <2>2. CASE ~(isDictionary(x) /\ Content(x) = "loose")
    BY <2>2 DEF Recompressed
  <2> QED
    BY <2>1, <2>2
<1> QED
  BY <1>1, <1>2, <1>3 DEF Indices

\* Without duplicates, merging changes nothing.
LEMMA MergeWithoutDuplicates ==
    ASSUME Stored(Storage), performMergeIdenticalObjects, Duplicates = {}
    PROVE  /\ DOMAIN objects' = Indices
           /\ getDirectReferences(trailer') = getDirectReferences(trailer)
           /\ \A i \in Indices : /\ objects'[i].generation = objects[i].generation
                                 /\ objects'[i].object = objects[i].object
<1> DEFINE map == MergeMap
<1>1. /\ trailer' = replaceReferences(trailer, map)
      /\ objects' = [i \in DOMAIN objects |-> [objects[i] EXCEPT !.object = replaceReferences(@, map)]]
  BY DEF performMergeIdenticalObjects, UpdateAll
<1>2. DOMAIN map = {}
  BY DEF MergeMap
<1> HIDE DEF map
<1>3. /\ DOMAIN objects' = DOMAIN objects
      /\ \A i \in DOMAIN objects : /\ objects'[i].object = replaceReferences(objects[i].object, map)
                                   /\ objects'[i].generation = objects[i].generation
  <2>1. \A i \in DOMAIN objects : Entry(objects[i])
    BY StorageIs DEF Indices
  <2> QED
    BY <1>1, <2>1, AllReplaced
<1>4. ASSUME NEW x, Object(x) PROVE replaceReferences(x, map) = x
  <2> DEFINE y == replaceReferences(x, map)
  <2>1. /\ ~isDictionary(x) => y = x
        /\ isDictionary(x) => /\ y = Dictionary(Type(x), Content(x), Entries(y))
                              /\ Entries(y) = [k \in DOMAIN Entries(x) |-> Renamed(Entries(x)[k], map)]
    BY <1>2, Replaced
  <2> HIDE DEF y
  <2>2. CASE isDictionary(x)
    <3>1. \A k \in DOMAIN Entries(x) : Renamed(Entries(x)[k], map) = Entries(x)[k]
      BY <1>2 DEF Renamed
    <3>2. x = Dictionary(Type(x), Content(x), Entries(x)) /\ Entries(x) = [k \in DOMAIN Entries(x) |-> Entries(x)[k]]
      BY <1>4, <2>2 DEF Object
    <3>3. Entries(y) = Entries(x)
      BY <2>1, <2>2, <3>1, <3>2
    <3> QED
      BY <2>1, <2>2, <3>2, <3>3 DEF y
  <2> QED
    BY <2>1, <2>2 DEF y
<1>5. Object(trailer) /\ \A i \in Indices : Object(objects[i].object)
  BY StorageIs DEF Stored
<1> QED
  BY <1>1, <1>3, <1>4, <1>5 DEF Indices

\* No two entries have the same object that could be merged.
Apart(objs) ==
    \A i, j \in DOMAIN objs :
        objs[i].object = objs[j].object /\ objs[i].object # Null /\ Mergeable(objs[i].object) => i = j

\* No duplicates means that the objects differ from each other.
LEMMA ApartIs ==
    ASSUME Stored(Storage)
    PROVE  Apart(objects) <=> Duplicates = {}
<1>1. ASSUME Apart(objects) PROVE Duplicates = {}
  <2> SUFFICES ASSUME NEW i \in Duplicates PROVE FALSE
    OBVIOUS
  <2>1. i \in Indices /\ i \in Identical(i) /\ First(i) # i
    BY DEF Duplicates
  <2>2. Occupied(i) /\ Mergeable(objects[i].object)
    BY <2>1 DEF Identical
  <2>3. First(i) \in Indices /\ objects[First(i)].object = objects[i].object
    BY FirstIsIdentical
  <2> QED
    BY <1>1, <2>1, <2>2, <2>3 DEF Apart, Indices, Occupied
<1>2. ASSUME Duplicates = {} PROVE Apart(objects)
  <2> SUFFICES ASSUME NEW i \in Indices, NEW j \in Indices, objects[i].object = objects[j].object,
                      objects[i].object # Null, Mergeable(objects[i].object)
               PROVE  i = j
    BY DEF Apart, Indices
  <2>1. i \in Identical(i) /\ j \in Identical(j) /\ Identical(i) = Identical(j)
    BY DEF Identical, Occupied
  <2>2. First(i) = i /\ First(j) = j
    BY <1>2, <2>1 DEF Duplicates
  <2>3. First(i) = First(j)
    BY <2>1 DEF First
  <2> QED
    BY <2>2, <2>3
<1> QED
  BY <1>1, <1>2

\* The same after a step.
LEMMA ApartThen ==
    ASSUME Stored(Storage)', Apart(objects')
    PROVE  Duplicates' = {}
<1>1. \A i \in DOMAIN objects' : i \in Nat
  <2> DEFINE e == Storage'
  <2>1. e.objects = objects' /\ Stored(e)
    BY DEF Storage
  <2> HIDE DEF e
  <2>2. DOMAIN e.objects = 0 .. Count(e.objects) - 1
    BY <2>1 DEF Stored
  <2> QED
    BY <2>1, <2>2
<1> SUFFICES ASSUME NEW i \in Duplicates' PROVE FALSE
  OBVIOUS
<1> DEFINE T == {j \in DOMAIN objects' : objects'[j].object = objects'[i].object /\ objects'[j].object # Null
                                         /\ Mergeable(objects'[j].object)}
<1>2. i \in T /\ (CHOOSE j \in T : \A k \in T : j <= k) # i
  BY DEF Duplicates, First, Identical, Indices, Occupied
<1>3. \A j \in T : j = i
  BY <1>2 DEF Apart
<1>4. i <= i
  BY <1>1, <1>2
<1> HIDE DEF T
<1> QED
  BY <1>2, <1>3, <1>4

\* If none is later, shrinking gives different references different names,
LEMMA RenamedApart ==
    ASSUME Stored(Storage), NoLater(Storage), NEW x \in Of(Storage), NEW r \in getDirectReferences(x),
           NEW y \in Of(Storage), NEW s \in getDirectReferences(y),
           Renamed(r, ShrinkMap(Moves)) = Renamed(s, ShrinkMap(Moves))
    PROVE  r = s
<1> DEFINE map == ShrinkMap(Moves)
<1>1. ASSUME NEW a, NEW b, Renamed(a, map) = Renamed(b, map), a \in DOMAIN map, b \notin DOMAIN map,
             ~IsLater(b, objects)
      PROVE  FALSE
  <2>1. PICK m \in Moves : a = ReferenceTo(objects, m[1])
    BY <1>1, ShrinkMapIs
  <2>2. b = Reference(m[2], objects[m[2]].generation + 1)
    BY <1>1, <2>1, ShrinkMapIs DEF Renamed
  <2>3. b[2] = m[2] /\ b[3] = objects[m[2]].generation + 1
    BY <2>2, ReferenceParts
  <2>4. m[2] \in Indices
    BY MovesApart
  <2>5. objects[m[2]].generation \in Nat
    BY <2>4, IndicesAre
  <2>6. objects[m[2]].generation < b[3]
    BY <2>3, <2>5
  <2> QED
    BY <1>1, <2>3, <2>4, <2>6 DEF IsLater, Indices
<1>2. ASSUME r \in DOMAIN map, s \in DOMAIN map PROVE r = s
  <2>1. PICK m \in Moves : r = ReferenceTo(objects, m[1])
    BY <1>2, ShrinkMapIs
  <2>2. PICK n \in Moves : s = ReferenceTo(objects, n[1])
    BY <1>2, ShrinkMapIs
  <2>3. /\ Renamed(r, map) = Reference(m[2], objects[m[2]].generation + 1)
        /\ Renamed(s, map) = Reference(n[2], objects[n[2]].generation + 1)
    BY <1>2, <2>1, <2>2, ShrinkMapIs DEF Renamed
  <2>4. m[2] = n[2]
    <3> DEFINE u == Renamed(r, map)
    <3>1. u = Reference(m[2], objects[m[2]].generation + 1) /\ u = Reference(n[2], objects[n[2]].generation + 1)
      BY <2>3
    <3> HIDE DEF u
    <3> QED
      BY <3>1, ReferenceParts
  <2> QED
    BY <2>1, <2>2, <2>4, MovesApart
<1>3. ~IsLater(r, objects) /\ ~IsLater(s, objects)
  BY ReferencesAreFine
<1>4. CASE r \in DOMAIN map
  BY <1>1, <1>2, <1>3, <1>4
<1>5. CASE s \in DOMAIN map
  BY <1>1, <1>2, <1>3, <1>5
<1>6. CASE r \notin DOMAIN map /\ s \notin DOMAIN map
  BY <1>6 DEF Renamed
<1> QED
  BY <1>4, <1>5, <1>6

\* so different objects stay different,
LEMMA ReplacedApart ==
    ASSUME Stored(Storage), NoLater(Storage), NEW x \in Of(Storage), NEW y \in Of(Storage),
           replaceReferences(x, ShrinkMap(Moves)) = replaceReferences(y, ShrinkMap(Moves))
    PROVE  x = y
<1> DEFINE map == ShrinkMap(Moves)
           u == replaceReferences(x, map)
<1>1. Object(x) /\ Object(y)
  BY StorageIs, ObjectsOf
<1>2. \A r \in DOMAIN map : isReference(r) /\ isReference(map[r])
  BY ShrinkMapRefers
<1>3. \A r \in getDirectReferences(x) : \A s \in getDirectReferences(y) :
          Renamed(r, map) = Renamed(s, map) => r = s
  BY RenamedApart
<1> HIDE DEF map
<1>4. /\ isDictionary(u) <=> isDictionary(x)
      /\ ~isDictionary(x) => u = x
      /\ isDictionary(x) => /\ u = Dictionary(Type(x), Content(x), Entries(u))
                            /\ Entries(u) = [k \in DOMAIN Entries(x) |-> Renamed(Entries(x)[k], map)]
  BY <1>2, Replaced
<1>5. /\ isDictionary(u) <=> isDictionary(y)
      /\ ~isDictionary(y) => u = y
      /\ isDictionary(y) => /\ u = Dictionary(Type(y), Content(y), Entries(u))
                            /\ Entries(u) = [k \in DOMAIN Entries(y) |-> Renamed(Entries(y)[k], map)]
  <2>1. u = replaceReferences(y, map)
    BY DEF map
  <2> HIDE DEF u
  <2> QED
    BY <1>2, <2>1, Replaced
<1> HIDE DEF u
<1>6. CASE isDictionary(u)
  <2>1. Type(x) = Type(u) /\ Content(x) = Content(u) /\ Type(y) = Type(u) /\ Content(y) = Content(u)
    BY <1>4, <1>5, <1>6, DictionaryParts
  <2>2. /\ DOMAIN Entries(x) = DOMAIN Entries(u) /\ DOMAIN Entries(y) = DOMAIN Entries(u)
        /\ \A k \in DOMAIN Entries(u) : /\ Entries(u)[k] = Renamed(Entries(x)[k], map)
                                        /\ Entries(u)[k] = Renamed(Entries(y)[k], map)
    BY <1>4, <1>5, <1>6
  <2>3. ASSUME NEW k \in DOMAIN Entries(u) PROVE Entries(x)[k] = Entries(y)[k]
    <3> DEFINE v == Entries(x)[k]
               w == Entries(y)[k]
    <3>1. Renamed(v, map) = Renamed(w, map)
      BY <2>2
    <3>2. /\ isReference(v) => v \in getDirectReferences(x)
          /\ isReference(w) => w \in getDirectReferences(y)
      BY <1>4, <1>5, <1>6, <2>2 DEF getDirectReferences
    <3> HIDE DEF v, w
    <3>3. /\ isReference(Renamed(v, map)) <=> isReference(v)
          /\ isReference(Renamed(w, map)) <=> isReference(w)
          /\ ~isReference(v) => Renamed(v, map) = v
          /\ ~isReference(w) => Renamed(w, map) = w
      BY <1>2 DEF Renamed
    <3>4. v = w
      BY <1>3, <3>1, <3>2, <3>3
    <3> QED
      BY <3>4 DEF v, w
  <2>4. /\ x = Dictionary(Type(x), Content(x), Entries(x)) /\ Entries(x) = [k \in DOMAIN Entries(x) |-> Entries(x)[k]]
        /\ y = Dictionary(Type(y), Content(y), Entries(y)) /\ Entries(y) = [k \in DOMAIN Entries(y) |-> Entries(y)[k]]
    BY <1>1, <1>4, <1>5, <1>6 DEF Object
  <2>5. Entries(x) = Entries(y)
    BY <2>2, <2>3, <2>4
  <2> QED
    BY <2>1, <2>4, <2>5
<1>7. CASE ~isDictionary(u)
  BY <1>4, <1>5, <1>7
<1> QED
  BY <1>6, <1>7

\* and shrinking makes no duplicates.
LEMMA ShrinkKeepsApart ==
    ASSUME Stored(Storage), NoLater(Storage), performShrinkObjectStorage, Apart(objects)
    PROVE  Apart(objects')
<1> DEFINE to == Moved(Moves)
           map == ShrinkMap(Moves)
<1>1. /\ DOMAIN objects' \subseteq Indices
      /\ \A i \in DOMAIN objects' : objects'[i].object = replaceReferences(to[i].object, map)
  BY ShrunkIs
<1> SUFFICES ASSUME NEW i \in DOMAIN objects', NEW j \in DOMAIN objects',
                    objects'[i].object = objects'[j].object, objects'[i].object # Null,
                    Mergeable(objects'[i].object)
             PROVE  i = j
  BY DEF Apart
<1>2. to[i].object # Null /\ to[j].object # Null
  BY <1>1, NullReplaced
<1>3. PICK k \in Indices :
          /\ Occupied(k) /\ to[i].object = objects[k].object
          /\ Renamed(ReferenceTo(objects, k), map) = Reference(i, to[i].generation)
  BY <1>1, <1>2, WhereFrom
<1>4. PICK l \in Indices :
          /\ Occupied(l) /\ to[j].object = objects[l].object
          /\ Renamed(ReferenceTo(objects, l), map) = Reference(j, to[j].generation)
  BY <1>1, <1>2, WhereFrom
<1>5. objects[k].object \in Of(Storage) /\ objects[l].object \in Of(Storage)
  BY StorageIs
<1>6. objects[k].object = objects[l].object
  <2>1. replaceReferences(objects[k].object, map) = replaceReferences(objects[l].object, map)
    BY <1>1, <1>3, <1>4
  <2> QED
    BY <1>5, <2>1, ReplacedApart
<1>7. Mergeable(objects[k].object)
  <2> DEFINE x == objects[k].object
             y == replaceReferences(x, map)
  <2>1. y = objects'[i].object
    BY <1>1, <1>3
  <2>2. \A r \in DOMAIN map : isReference(r) /\ isReference(map[r])
    BY ShrinkMapRefers
  <2> HIDE DEF map, x
  <2>3. /\ isDictionary(y) <=> isDictionary(x)
        /\ isDictionary(x) => y = Dictionary(Type(x), Content(x), Entries(y))
    BY <2>2, Replaced
  <2> HIDE DEF y
  <2>4. isDictionary(x) => Type(y) = Type(x)
    BY <2>3, DictionaryParts
  <2> QED
    BY <2>1, <2>3, <2>4 DEF Mergeable, x
<1>8. k = l
  BY <1>3, <1>6, <1>7 DEF Apart, Indices, Occupied
<1>9. Reference(i, to[i].generation) = Reference(j, to[j].generation)
  BY <1>3, <1>4, <1>8
<1> HIDE DEF to
<1> QED
  BY <1>9, ReferenceParts

\* No occupied entry is left behind one that could hold it.
NoGap(objs) ==
    \A i, j \in DOMAIN objs \ {0} :
        objs[j].object # Null /\ i < j => objs[i].object # Null \/ objs[i].generation = MaxGeneration

\* Shrinking leaves no gap.
LEMMA ShrinkSqueezes ==
    ASSUME Stored(Storage), performShrinkObjectStorage
    PROVE  NoGap(objects')
<1> DEFINE to == Moved(Moves)
           map == ShrinkMap(Moves)
<1>1. /\ DOMAIN objects' \subseteq Indices
      /\ \A i \in DOMAIN objects' : /\ objects'[i].object = replaceReferences(to[i].object, map)
                                    /\ objects'[i].generation = to[i].generation
  BY ShrunkIs
<1>2. \A x : replaceReferences(x, map) = Null <=> x = Null
  BY ShrinkMapRefers, NullOnly
<1>3. \A i, j \in Indices \ {0} :
          to[j].object # Null /\ i < j => to[i].object # Null \/ to[i].generation = MaxGeneration
  BY MovesSqueeze
<1> HIDE DEF to, map
<1> QED
  BY <1>1, <1>2, <1>3 DEF NoGap

\* The operations of a stage that are still due in a pass.
Left(s) ==
    IF s = 1 THEN {Selected("Dereference"), <<>>}
    ELSE IF s = 2 THEN {Selected("RemoveNull"), <<>>}
    ELSE IF s = 3 THEN {Selected("RemoveUnused") \o Selected("Merge"), Selected("Merge"), <<>>}
    ELSE IF s = 4 THEN {Selected("Shrink"), <<>>}
    ELSE {Selected("Recompress"), <<>>}

\* The operations that a stage tests for.
LEMMA DueIs ==
    /\ LastStage = 5
    /\ Due(1) = Selected("Dereference") /\ Due(2) = Selected("RemoveNull")
    /\ Due(3) = Selected("RemoveUnused") \o Selected("Merge")
    /\ Due(4) = Selected("Shrink") /\ Due(5) = Selected("Recompress")
<1>1. LastStage = 5
  BY DEF LastStage, Stages
<1>2. /\ Len(Stages[1]) = 1 /\ Len(Stages[2]) = 1 /\ Len(Stages[3]) = 2 /\ Len(Stages[4]) = 1
      /\ Len(Stages[5]) = 1
      /\ Stages[1][1] = "Dereference" /\ Stages[2][1] = "RemoveNull" /\ Stages[3][1] = "RemoveUnused"
      /\ Stages[3][2] = "Merge" /\ Stages[4][1] = "Shrink" /\ Stages[5][1] = "Recompress"
  BY DEF Stages
<1> QED
  BY <1>1, <1>2 DEF Due

\* How a sequence of due operations begins and goes on.
LEMMA SelectedIs ==
    /\ \A op : Selected(op) # <<>> => op \in flags /\ Head(Selected(op)) = op /\ Tail(Selected(op)) = <<>>
    /\ \A op : op \in flags => Selected(op) = <<op>> /\ Selected(op) # <<>>
    /\ \A op : op \notin flags => Selected(op) = <<>>
BY DEF Selected

\* Two operations, one after the other.
LEMMA OneByOne ==
    ASSUME NEW a, NEW b
    PROVE  /\ <<a>> \o <<b>> = <<a, b>> /\ <<a>> \o <<>> = <<a>> /\ <<>> \o <<b>> = <<b>>
           /\ <<>> \o <<>> = <<>>
           /\ Head(<<a, b>>) = a /\ Tail(<<a, b>>) = <<b>> /\ <<a, b>> # <<b>> /\ <<a, b>> # <<>>
           /\ Head(<<a>>) = a /\ Tail(<<a>>) = <<>> /\ <<a>> # <<>>
<1> DEFINE S == {a, b}
           s == <<a>>
           t == <<b>>
           u == <<a, b>>
           v == s \o t
           e == <<>>
<1>1. s \in Seq(S) /\ t \in Seq(S) /\ u \in Seq(S) /\ e \in Seq(S)
      /\ Len(s) = 1 /\ Len(t) = 1 /\ Len(u) = 2 /\ Len(e) = 0
      /\ s[1] = a /\ t[1] = b /\ u[1] = a /\ u[2] = b
  OBVIOUS
<1>2. Head(u) = a /\ Tail(u) = t /\ Head(s) = a /\ Tail(s) = e
  OBVIOUS
<1>7. u # t /\ u # e /\ s # e
  <2>1. 1 # 2 /\ 0 # 1 /\ 0 # 2
    OBVIOUS
  <2> HIDE DEF s, t, u, e
  <2> QED BY <1>1, <2>1
<1> HIDE DEF S, s, t, u, e
<1>3. s \o e = s /\ e \o t = t /\ e \o e = e
  BY <1>1, ConcatEmptySeq DEF e
<1>4. v \in Seq(S) /\ Len(v) = Len(s) + Len(t)
      /\ \A i \in 1 .. Len(s) + Len(t) : v[i] = IF i <= Len(s) THEN s[i] ELSE t[i - Len(s)]
  BY <1>1, ConcatProperties
<1> HIDE DEF v
<1>5. Len(v) = 2 /\ v[1] = a /\ v[2] = b
  <2>1. 1 \in 1 .. 2 /\ 2 \in 1 .. 2 /\ 1 <= 1 /\ ~(2 <= 1) /\ 2 - 1 = 1 /\ 1 + 1 = 2
    OBVIOUS
  <2> QED
    BY <1>1, <1>4, <2>1
<1>6. v = u
  <2>1. \A i \in 1 .. 2 : i = 1 \/ i = 2
    OBVIOUS
  <2>2. \A i \in 1 .. Len(v) : v[i] = u[i]
    BY <1>1, <1>5, <2>1
  <2> QED
    BY <1>1, <1>4, <1>5, <2>2, SeqEqual
<1> QED
  BY <1>2, <1>3, <1>6, <1>7 DEF s, t, u, v, e

\* The stage that has two operations.
LEMMA BothSelected ==
    LET both == Selected("RemoveUnused") \o Selected("Merge")
    IN  /\ "RemoveUnused" \in flags => /\ both # <<>> /\ Head(both) = "RemoveUnused"
                                       /\ Tail(both) = Selected("Merge") /\ both # Selected("Merge")
        /\ "RemoveUnused" \notin flags => both = Selected("Merge")
        /\ "Merge" \in flags /\ "RemoveUnused" \in flags => both = <<"RemoveUnused", "Merge">>
        /\ "Merge" \notin flags => both = Selected("RemoveUnused")
<1>1. CASE "RemoveUnused" \in flags /\ "Merge" \in flags
  <2>1. Selected("RemoveUnused") = <<"RemoveUnused">> /\ Selected("Merge") = <<"Merge">>
    BY <1>1 DEF Selected
  <2> DEFINE a == "RemoveUnused"
             b == "Merge"
             both == Selected(a) \o Selected(b)
  <2>2. both = <<a>> \o <<b>>
    BY <2>1
  <2>3. both = <<a, b>> /\ Selected(b) = <<b>>
    BY <2>1, <2>2, OneByOne
  <2> HIDE DEF both, a, b
  <2>4. both # <<>> /\ Head(both) = a /\ Tail(both) = Selected(b) /\ both # Selected(b) /\ both = <<a, b>>
    BY <2>3, OneByOne
  <2> QED
    BY <1>1, <2>4 DEF both, a, b
<1>2. CASE "RemoveUnused" \in flags /\ "Merge" \notin flags
  <2>1. Selected("RemoveUnused") = <<"RemoveUnused">> /\ Selected("Merge") = <<>>
    BY <1>2 DEF Selected
  <2> QED
    BY <1>2, <2>1, OneByOne
<1>3. CASE "RemoveUnused" \notin flags
  <2>1. Selected("RemoveUnused") = <<>> /\ (Selected("Merge") = <<>> \/ Selected("Merge") = <<"Merge">>)
        /\ ("Merge" \notin flags => Selected("Merge") = <<>>)
    BY <1>3 DEF Selected
  <2> QED
    BY <1>3, <2>1, OneByOne
<1> QED
  BY <1>1, <1>2, <1>3

\* The state of the loop.
Looping ==
    /\ stage \in 1 .. 6 /\ pass \in BOOLEAN
    /\ stage < 6 => steps \in Left(stage)

\* An operation is done in its stage, and which ones are left then.
LEMMA WhichStage ==
    ASSUME Looping, NEW op, NEW changed, Perform(op, changed)
    PROVE  /\ op \in flags /\ stage \in 1 .. 5 /\ stage' = stage /\ steps' \in Left(stage)
           /\ pass' = (pass \/ changed)
           /\ \/ stage = 1 /\ op = "Dereference" /\ steps' = <<>>
              \/ stage = 2 /\ op = "RemoveNull" /\ steps' = <<>>
              \/ stage = 3 /\ op = "RemoveUnused" /\ steps' = Selected("Merge")
              \/ stage = 3 /\ op = "Merge" /\ steps = <<"Merge">> /\ steps' = <<>>
              \/ stage = 4 /\ op = "Shrink" /\ steps' = <<>>
              \/ stage = 5 /\ op = "Recompress" /\ steps' = <<>>
<1>1. /\ stage \in 1 .. 6 /\ ~(stage > LastStage) /\ steps # <<>> /\ Head(steps) = op /\ steps' = Tail(steps)
      /\ stage' = stage /\ flags' = flags /\ pass' = (pass \/ changed)
  BY DEF Looping, Perform, Finished
<1>2. stage \in 1 .. 5 /\ steps \in Left(stage)
  BY <1>1, DueIs DEF Looping
<1>3. CASE stage = 1
  BY <1>1, <1>2, <1>3, SelectedIs DEF Left
<1>4. CASE stage = 2
  BY <1>1, <1>2, <1>4, SelectedIs DEF Left
<1>5. CASE stage = 3
  <2>1. steps = Selected("RemoveUnused") \o Selected("Merge") \/ steps = Selected("Merge")
    BY <1>1, <1>2, <1>5 DEF Left
  <2>2. CASE steps = Selected("Merge")
    <3>1. op = "Merge" /\ "Merge" \in flags /\ steps = <<"Merge">> /\ steps' = <<>>
      BY <1>1, <2>2, SelectedIs
    <3> QED
      BY <1>1, <1>5, <3>1 DEF Left
  <2>3. CASE steps # Selected("Merge")
    <3>1. "RemoveUnused" \in flags /\ op = "RemoveUnused" /\ steps' = Selected("Merge")
      BY <1>1, <2>1, <2>3, BothSelected
    <3> QED
      BY <1>1, <1>5, <3>1 DEF Left
  <2> QED
    BY <2>2, <2>3
<1>6. CASE stage = 4
  BY <1>1, <1>2, <1>6, SelectedIs DEF Left
<1>7. CASE stage = 5
  BY <1>1, <1>2, <1>7, SelectedIs DEF Left
<1>8. stage = 1 \/ stage = 2 \/ stage = 3 \/ stage = 4 \/ stage = 5
  BY <1>2
<1> QED
  BY <1>3, <1>4, <1>5, <1>6, <1>7, <1>8

-----------------------------------------------------------------------------
(* The passes: what is selected is delivered. *)

\* The selections that leave no duplicates.
Merges ==
    /\ {"RemoveUnused", "Merge"} \subseteq flags /\ "Recompress" \notin flags
    /\ "Shrink" \in flags => NoLater(source)

\* Nothing changes the selection.
LEMMA MergesStay == [Next]_vars => (Merges' <=> Merges)
<1> SUFFICES ASSUME [Next]_vars PROVE Merges' <=> Merges
  OBVIOUS
<1>1. source' = source /\ flags' = flags
  BY DEF Next, vars, Perform, NextPass, performDereferenceSimpleObjects, performRemoveNullObjects,
         performRemoveUnusedObjects, performMergeIdenticalObjects, MergeAgain,
         performShrinkObjectStorage, performRecompressFlateStreams
<1> QED
  BY <1>1 DEF Merges, NoLater, Of

\* The inductive invariant of the loop.  In the stage that removes and merges,
\* a pass that reports nothing has found nothing, and has changed nothing.
UsedInv ==
    "RemoveUnused" \in flags /\ (stage > 3 \/ (stage = 3 /\ ~pass /\ steps \in {<<>>, <<"Merge">>}))
        => Unused = {}
ApartInv ==
    Merges /\ (stage > 3 \/ (stage = 3 /\ ~pass /\ steps = <<>>))
        => Duplicates = {}
GapInv ==
    "Shrink" \in flags /\ (stage > 4 \/ (stage = 4 /\ steps = <<>>)) => NoGap(objects)
SizeInv == size \in Nat /\ Count(objects) <= size

LoopInv == Preserved /\ SizeInv /\ Looping /\ UsedInv /\ ApartInv /\ GapInv

\* Due operations are left over of all of the stage.
LEMMA DueIsLeft == \A s \in 1 .. 5 : Due(s) \in Left(s) /\ <<>> \in Left(s)
<1> SUFFICES ASSUME NEW s \in 1 .. 5 PROVE Due(s) \in Left(s) /\ <<>> \in Left(s)
  OBVIOUS
<1>1. s = 1 \/ s = 2 \/ s = 3 \/ s = 4 \/ s = 5
  OBVIOUS
<1> QED
  BY <1>1, DueIs DEF Left

\* A document that was set begins the loop.
LEMMA LoopInitially == Init => LoopInv
<1> SUFFICES ASSUME Init PROVE LoopInv
  OBVIOUS
<1>1. Preserved
  BY PreservedInitially
<1>2. stage = 1 /\ pass = FALSE /\ steps = Due(1) /\ size = Count(source.objects) /\ objects = source.objects
  BY DEF Init
<1>3. Looping
  <2>1. stage \in 1 .. 6 /\ 1 \in 1 .. 5
    BY <1>2
  <2> QED
    BY <1>2, <2>1, DueIsLeft DEF Looping
<1>4. SizeInv
  <2>1. Count(objects) \in Nat
    BY <1>1, IndicesAre DEF Preserved
  <2> QED
    BY <1>2, <2>1 DEF SizeInv
<1>5. ~(stage > 3) /\ ~(stage > 4) /\ stage # 3 /\ stage # 4
  BY <1>2
<1> QED
  BY <1>1, <1>3, <1>4, <1>5 DEF LoopInv, UsedInv, ApartInv, GapInv

\* The storage stays as long as it is, or is made shorter.
LEMMA SizeStays ==
    ASSUME SizeInv, Stored(Storage), size' = size, DOMAIN objects' \subseteq DOMAIN objects
    PROVE  SizeInv'
<1> DEFINE D == DOMAIN objects
           E == DOMAIN objects'
<1>1. IsFiniteSet(D) /\ E \in SUBSET D
  BY IndicesAre DEF Indices
<1>2. Count(objects) = Cardinality(D) /\ Count(objects') = Cardinality(E)
  BY DEF Count
<1> HIDE DEF D, E
<1>3. IsFiniteSet(E) /\ Cardinality(E) <= Cardinality(D) /\ Cardinality(E) \in Nat /\ Cardinality(D) \in Nat
  BY <1>1, FS_Subset, FS_CardinalityType
<1> QED
  BY <1>2, <1>3 DEF SizeInv

\* The stage of each operation.
LEMMA StageOf ==
    ASSUME Looping, NEW op, NEW changed, Perform(op, changed)
    PROVE  /\ stage' = stage /\ pass' = (pass \/ changed) /\ op \in flags
           /\ op = "Dereference" => stage = 1
           /\ op = "RemoveNull" => stage = 2
           /\ op = "RemoveUnused" => stage = 3 /\ steps' = Selected("Merge")
           /\ op = "Merge" => stage = 3 /\ steps = <<"Merge">> /\ steps' = <<>>
           /\ op = "Shrink" => stage = 4
           /\ op = "Recompress" => stage = 5
<1>1. /\ "Dereference" # "RemoveNull" /\ "Dereference" # "RemoveUnused" /\ "Dereference" # "Merge"
      /\ "Dereference" # "Shrink" /\ "Dereference" # "Recompress" /\ "RemoveNull" # "RemoveUnused"
      /\ "RemoveNull" # "Merge" /\ "RemoveNull" # "Shrink" /\ "RemoveNull" # "Recompress"
      /\ "RemoveUnused" # "Merge" /\ "RemoveUnused" # "Shrink" /\ "RemoveUnused" # "Recompress"
      /\ "Merge" # "Shrink" /\ "Merge" # "Recompress" /\ "Shrink" # "Recompress"
  OBVIOUS
<1>2. /\ stage' = stage /\ pass' = (pass \/ changed) /\ op \in flags
      /\ \/ stage = 1 /\ op = "Dereference"
         \/ stage = 2 /\ op = "RemoveNull"
         \/ stage = 3 /\ op = "RemoveUnused" /\ steps' = Selected("Merge")
         \/ stage = 3 /\ op = "Merge" /\ steps = <<"Merge">> /\ steps' = <<>>
         \/ stage = 4 /\ op = "Shrink"
         \/ stage = 5 /\ op = "Recompress"
  BY WhichStage
<1> QED
  BY <1>1, <1>2, Zenon

\* An operation leaves the loop with the rest of its stage.
LEMMA StillLooping ==
    ASSUME Looping, NEW op, NEW changed \in BOOLEAN, Perform(op, changed)
    PROVE  Looping' /\ flags' = flags
<1>1. flags' = flags
  BY DEF Perform
<1>2. stage \in 1 .. 5 /\ stage' = stage /\ steps' \in Left(stage) /\ pass' = (pass \/ changed)
  BY WhichStage
<1>4. Left(stage)' = Left(stage)
  BY <1>1, <1>2 DEF Left, Selected
<1>5. stage' \in 1 .. 6 /\ pass' \in BOOLEAN
  BY <1>2 DEF Looping
<1> QED
  BY <1>1, <1>2, <1>4, <1>5 DEF Looping

\* The stages before the one that removes and merges promise nothing yet.
LEMMA EarlyStages ==
    ASSUME LoopInv, [Next]_vars, performDereferenceSimpleObjects \/ performRemoveNullObjects
    PROVE  LoopInv'
<1>1. Preserved'
  BY PreservedByStep DEF LoopInv
<1>2. \E op : Perform(op, FALSE) /\ op \in {"Dereference", "RemoveNull"}
  BY DEF performDereferenceSimpleObjects, performRemoveNullObjects
<1>3. stage \in {1, 2} /\ stage' = stage
  BY <1>2, StageOf DEF LoopInv
<1>4. Looping'
  BY <1>2, StillLooping DEF LoopInv
<1>5. SizeInv'
  <2>1. size' = size /\ DOMAIN objects' = DOMAIN objects
    BY DEF performDereferenceSimpleObjects, performRemoveNullObjects, UpdateAll
  <2> QED
    BY <2>1, SizeStays DEF LoopInv, Preserved
<1>6. ~(stage' > 3) /\ ~(stage' > 4) /\ stage' # 3 /\ stage' # 4
  BY <1>3
<1> QED
  BY <1>1, <1>4, <1>5, <1>6 DEF LoopInv, UsedInv, ApartInv, GapInv

\* Removing: a pass without a change has found nothing unused.
LEMMA RemoveUnusedLoops ==
    ASSUME LoopInv, [Next]_vars, performRemoveUnusedObjects
    PROVE  LoopInv'
<1>1. Preserved' /\ Preserved
  BY PreservedByStep DEF LoopInv
<1>2. Perform("RemoveUnused", Unused # {})
  BY DEF performRemoveUnusedObjects
<1>3. /\ stage = 3 /\ stage' = 3 /\ steps' = Selected("Merge") /\ "RemoveUnused" \in flags
      /\ pass' = (pass \/ Unused # {})
  BY <1>2, StageOf DEF LoopInv
<1>4. Looping' /\ flags' = flags
  <2>1. (Unused # {}) \in BOOLEAN
    OBVIOUS
  <2> QED
    BY <1>2, <2>1, StillLooping DEF LoopInv
<1>5. SizeInv'
  <2>1. size' = size /\ DOMAIN objects' = DOMAIN objects
    BY DEF performRemoveUnusedObjects, Indices
  <2> QED
    BY <1>1, <2>1, SizeStays DEF LoopInv, Preserved
<1>6. ASSUME ~pass' PROVE Unused' = {}
  <2>1. Unused = {}
    BY <1>3, <1>6
  <2>2. trailer' = trailer /\ DOMAIN objects' = Indices /\ \A i \in Indices : objects'[i] = objects[i]
    BY <2>1 DEF performRemoveUnusedObjects
  <2> QED
    BY <1>1, <2>1, <2>2, SameReferencesKeepUsed DEF Preserved
<1>7. "Merge" \in flags => steps' # <<>>
  BY <1>3, SelectedIs
<1>8. ~(stage' > 3) /\ ~(stage' > 4) /\ stage' # 4
  BY <1>3
<1> QED
  BY <1>1, <1>4, <1>5, <1>6, <1>7, <1>8 DEF LoopInv, UsedInv, ApartInv, Merges, GapInv

\* Merging: a pass without a change has found no duplicates, and so nothing is
\* orphaned after the removing of the pass.
LEMMA MergeLoops ==
    ASSUME LoopInv, [Next]_vars, performMergeIdenticalObjects
    PROVE  LoopInv'
<1>1. Preserved' /\ Preserved
  BY PreservedByStep DEF LoopInv
<1>2. Perform("Merge", Duplicates # {})
  BY DEF performMergeIdenticalObjects, MergeAgain
<1>3. /\ stage = 3 /\ stage' = 3 /\ steps = <<"Merge">> /\ steps' = <<>>
      /\ pass' = (pass \/ Duplicates # {})
  BY <1>2, StageOf DEF LoopInv
<1>4. Looping' /\ flags' = flags
  <2>1. (Duplicates # {}) \in BOOLEAN
    OBVIOUS
  <2> QED
    BY <1>2, <2>1, StillLooping DEF LoopInv
<1>5. SizeInv'
  <2>1. size' = size /\ DOMAIN objects' = DOMAIN objects
    BY DEF performMergeIdenticalObjects, UpdateAll
  <2> QED
    BY <1>1, <2>1, SizeStays DEF LoopInv, Preserved
<1>6. ASSUME ~pass'
      PROVE  Duplicates' = {} /\ ("RemoveUnused" \in flags => Unused' = {})
  <2>1. Duplicates = {} /\ ~pass
    BY <1>3, <1>6
  <2>2. /\ DOMAIN objects' = Indices
        /\ getDirectReferences(trailer') = getDirectReferences(trailer)
        /\ \A i \in Indices : /\ objects'[i].generation = objects[i].generation
                              /\ objects'[i].object = objects[i].object
    BY <1>1, <2>1, MergeWithoutDuplicates DEF Preserved
  <2>3. Apart(objects)
    BY <1>1, <2>1, ApartIs DEF Preserved
  <2>4. Apart(objects')
    BY <2>2, <2>3 DEF Apart, Indices
  <2>5. "RemoveUnused" \in flags => Unused = {}
    BY <1>3, <2>1 DEF LoopInv, UsedInv
  <2> QED
    BY <1>1, <2>2, <2>4, <2>5, ApartThen, SameReferencesKeepUsed DEF Preserved
<1>8. ~(stage' > 3) /\ ~(stage' > 4) /\ stage' # 4
  BY <1>3
<1> QED
  BY <1>1, <1>4, <1>5, <1>6, <1>8 DEF LoopInv, UsedInv, ApartInv, GapInv

\* Shrinking leaves no gap, and keeps what the stage before reached.
LEMMA ShrinkLoops ==
    ASSUME LoopInv, [Next]_vars, performShrinkObjectStorage
    PROVE  LoopInv'
<1>1. Preserved' /\ Preserved
  BY PreservedByStep DEF LoopInv
<1>2. Perform("Shrink", FALSE)
  BY DEF performShrinkObjectStorage
<1>3. stage = 4 /\ stage' = 4
  BY <1>2, StageOf DEF LoopInv
<1>4. Looping' /\ flags' = flags
  BY <1>2, StillLooping DEF LoopInv
<1>5. SizeInv'
  <2>1. size' = IF Moves = {} THEN size ELSE Count(objects')
    BY DEF performShrinkObjectStorage
  <2>2. DOMAIN objects' \subseteq DOMAIN objects
    BY <1>1, ShrunkIs DEF Preserved, Indices
  <2>3. CASE size' = size
    BY <1>1, <2>2, <2>3, SizeStays DEF LoopInv, Preserved
  <2>4. CASE size' = Count(objects')
    <3>2. Count(objects') \in Nat
      <4> DEFINE E == DOMAIN objects'
                 D == DOMAIN objects
      <4>1. IsFiniteSet(D) /\ E \in SUBSET D
        BY <1>1, <2>2, IndicesAre DEF Indices, Preserved
      <4> HIDE DEF E, D
      <4>2. IsFiniteSet(E)
        BY <4>1, FS_Subset
      <4> QED
        BY <4>2, FS_CardinalityType DEF Count, E
    <3> QED
      BY <2>4, <3>2 DEF SizeInv
  <2> QED
    BY <2>1, <2>3, <2>4
<1>6. Unused = {} => Unused' = {}
  BY <1>1, ShrinkKeepsUsed DEF Preserved
<1>7. Merges /\ Duplicates = {} => Duplicates' = {}
  <2>1. Merges => NoLater(Storage)
    BY <1>1, <1>2, StageOf DEF Merges, Preserved, LoopInv
  <2> QED
    BY <1>1, <2>1, ShrinkKeepsApart, ApartIs, ApartThen DEF Preserved
<1>10. Merges' <=> Merges
  BY MergesStay
<1>8. NoGap(objects')
  BY <1>1, ShrinkSqueezes DEF Preserved
<1>9. stage > 3 /\ stage' > 3
  BY <1>3
<1> QED
  BY <1>1, <1>4, <1>5, <1>6, <1>7, <1>8, <1>9, <1>10 DEF LoopInv, UsedInv, ApartInv, GapInv

\* Recompressing may make objects the same, but nothing else.
LEMMA RecompressLoops ==
    ASSUME LoopInv, [Next]_vars, performRecompressFlateStreams
    PROVE  LoopInv'
<1>1. Preserved' /\ Preserved
  BY PreservedByStep DEF LoopInv
<1>2. Perform("Recompress", FALSE)
  BY DEF performRecompressFlateStreams
<1>3. stage = 5 /\ stage' = 5 /\ "Recompress" \in flags
  BY <1>2, StageOf DEF LoopInv
<1>4. Looping' /\ flags' = flags
  BY <1>2, StillLooping DEF LoopInv
<1>5. /\ DOMAIN objects' = Indices /\ trailer' = trailer
      /\ \A i \in Indices :
             /\ objects'[i].generation = objects[i].generation
             /\ objects'[i].object = Null <=> objects[i].object = Null
             /\ getDirectReferences(objects'[i].object) = getDirectReferences(objects[i].object)
  BY <1>1, RecompressKeeps DEF Preserved
<1>6. SizeInv'
  <2>1. size' = size
    BY DEF performRecompressFlateStreams
  <2> QED
    BY <1>1, <1>5, <2>1, SizeStays DEF LoopInv, Preserved, Indices
<1>7. Unused = {} => Unused' = {}
  BY <1>1, <1>5, SameReferencesKeepUsed DEF Preserved
<1>8. NoGap(objects) => NoGap(objects')
  BY <1>5 DEF NoGap, Indices
<1>9. stage > 3 /\ stage' > 3 /\ stage > 4 /\ stage' > 4
  BY <1>3
<1> QED
  BY <1>1, <1>3, <1>4, <1>6, <1>7, <1>8, <1>9 DEF LoopInv, UsedInv, ApartInv, Merges, GapInv

\* The next pass of a stage, or the next stage.
LEMMA PassLoops ==
    ASSUME LoopInv, [Next]_vars, NextPass
    PROVE  LoopInv'
<1>1. Preserved' /\ Preserved
  BY PreservedByStep DEF LoopInv
<1>2. /\ stage <= LastStage /\ steps = <<>> /\ pass' = FALSE
      /\ IF pass THEN stage' = stage /\ steps' = Due(stage)
                 ELSE /\ stage' = stage + 1
                      /\ steps' = IF stage = LastStage THEN <<>> ELSE Due(stage + 1)
      /\ flags' = flags /\ objects' = objects /\ trailer' = trailer /\ size' = size
  <2>1. stage \in 1 .. 6 /\ LastStage = 5
    BY DueIs DEF LoopInv, Looping
  <2> QED
    BY <2>1 DEF NextPass, Finished, storage
<1>3. stage \in 1 .. 5
  BY <1>2, DueIs DEF LoopInv, Looping
<1>4. /\ Selected("Dereference")' = Selected("Dereference") /\ Selected("RemoveNull")' = Selected("RemoveNull")
      /\ Selected("RemoveUnused")' = Selected("RemoveUnused") /\ Selected("Merge")' = Selected("Merge")
      /\ Selected("Shrink")' = Selected("Shrink") /\ Selected("Recompress")' = Selected("Recompress")
  <2>1. flags' = flags
    BY <1>2
  <2> QED
    BY <2>1 DEF Selected
<1>8. Merges' <=> Merges
  BY MergesStay
<1>5. SizeInv' /\ Unused' = Unused /\ Duplicates' = Duplicates
  BY <1>2 DEF LoopInv, SizeInv, Unused, Duplicates, Indices, Occupied, First, Identical
<1>6. CASE pass
  <2>1. stage' = stage /\ steps' = Due(stage) /\ steps' \in Left(stage)
    BY <1>2, <1>3, <1>6, DueIsLeft
  <2>2. Looping'
    <3>1. Left(stage)' = Left(stage)
      BY <1>4, <2>1 DEF Left
    <3>2. stage' \in 1 .. 6
      BY <1>3, <2>1
    <3>3. pass' \in BOOLEAN
      BY <1>2, Zenon
    <3> QED
      BY <2>1, <3>1, <3>2, <3>3 DEF Looping
  <2>3. UsedInv'
    <3>1. CASE stage = 3 /\ "RemoveUnused" \in flags
      <4>1. steps' \notin {<<>>, <<"Merge">>}
        <5>1. steps' = Selected("RemoveUnused") \o Selected("Merge")
          BY <2>1, <3>1, DueIs
        <5>2. steps' # <<>> /\ Head(steps') = "RemoveUnused"
          BY <3>1, <5>1, BothSelected
        <5>3. Head(<<"Merge">>) = "Merge"
          BY OneByOne
        <5> QED
          BY <5>2, <5>3
      <4>2. ~(stage' > 3)
        BY <2>1, <3>1
      <4> QED
        BY <4>1, <4>2 DEF UsedInv
    <3>2. CASE stage # 3
      BY <1>2, <1>5, <2>1, <3>2 DEF UsedInv, LoopInv
    <3>3. CASE "RemoveUnused" \notin flags
      BY <1>2, <3>3 DEF UsedInv
    <3> QED
      BY <3>1, <3>2, <3>3
  <2>4. ApartInv'
    <3>1. CASE stage = 3 /\ {"RemoveUnused", "Merge"} \subseteq flags
      <4>1. steps' # <<>>
        <5>1. steps' = Selected("RemoveUnused") \o Selected("Merge") /\ "RemoveUnused" \in flags
          BY <2>1, <3>1, DueIs
        <5> QED
          BY <5>1, BothSelected
      <4>2. ~(stage' > 3)
        BY <2>1, <3>1
      <4> QED
        BY <4>1, <4>2 DEF ApartInv
    <3>2. CASE stage # 3
      BY <1>2, <1>5, <1>8, <2>1, <3>2 DEF ApartInv, LoopInv
    <3>3. CASE ~({"RemoveUnused", "Merge"} \subseteq flags)
      BY <1>8, <3>3 DEF ApartInv, Merges
    <3> QED
      BY <3>1, <3>2, <3>3
  <2>5. GapInv'
    <3>1. CASE stage = 4 /\ "Shrink" \in flags
      <4>1. steps' # <<>>
        BY <2>1, <3>1, DueIs, SelectedIs
      <4>2. ~(stage' > 4)
        BY <2>1, <3>1
      <4> QED
        BY <4>1, <4>2 DEF GapInv
    <3>2. CASE stage # 4
      BY <1>2, <2>1, <3>2 DEF GapInv, LoopInv, NoGap
    <3>3. CASE "Shrink" \notin flags
      BY <1>2, <3>3 DEF GapInv
    <3> QED
      BY <3>1, <3>2, <3>3
  <2> QED
    BY <1>1, <1>5, <2>2, <2>3, <2>4, <2>5 DEF LoopInv
<1>7. CASE ~pass
  <2>1. /\ stage' = stage + 1
        /\ steps' = IF stage = LastStage THEN <<>> ELSE Due(stage + 1)
    BY <1>2, <1>7
  <2>2. stage' \in 2 .. 6 /\ (stage' < 6 => stage' \in 1 .. 5 /\ stage # LastStage)
    BY <1>3, <2>1, DueIs
  <2>3. Looping'
    <3>1. stage' < 6 => steps' = Due(stage')
      BY <2>1, <2>2
    <3>2. stage' < 6 => Due(stage') \in Left(stage')
      BY <2>2, DueIsLeft
    <3> DEFINE s == stage'
    <3>3. Left(stage)' = Left(s)
      BY <1>4 DEF Left
    <3>4. stage' \in 1 .. 6
      BY <2>2
    <3>5. pass' \in BOOLEAN
      BY <1>2, Zenon
    <3> QED
      BY <3>1, <3>2, <3>3, <3>4, <3>5 DEF Looping
  <2>4. UsedInv'
    <3>1. CASE stage = 2 /\ "RemoveUnused" \in flags
      <4>1. steps' \notin {<<>>, <<"Merge">>}
        <5>1. steps' = Selected("RemoveUnused") \o Selected("Merge")
          BY <2>1, <3>1, DueIs
        <5>2. steps' # <<>> /\ Head(steps') = "RemoveUnused"
          BY <3>1, <5>1, BothSelected
        <5>3. Head(<<"Merge">>) = "Merge"
          BY OneByOne
        <5> QED
          BY <5>2, <5>3
      <4>2. ~(stage' > 3)
        BY <2>1, <3>1
      <4> QED
        BY <4>1, <4>2 DEF UsedInv
    <3>2. CASE stage \in 3 .. 5 /\ "RemoveUnused" \in flags
      <4>1. stage > 3 \/ stage = 3
        BY <3>2
      <4>2. Unused = {}
        BY <1>2, <1>7, <3>2, <4>1 DEF UsedInv, LoopInv
      <4> QED
        BY <1>5, <4>2 DEF UsedInv
    <3>3. CASE stage = 1
      <4>1. ~(stage' > 3) /\ stage' # 3
        BY <2>1, <3>3
      <4> QED
        BY <4>1 DEF UsedInv
    <3>4. CASE "RemoveUnused" \notin flags
      BY <1>2, <3>4 DEF UsedInv
    <3>5. stage = 1 \/ stage = 2 \/ stage \in 3 .. 5
      BY <1>3
    <3> QED
      BY <3>1, <3>2, <3>3, <3>4, <3>5
  <2>5. ApartInv'
    <3>1. CASE stage = 2 /\ Merges
      <4>1. steps' # <<>>
        <5>1. steps' = Selected("RemoveUnused") \o Selected("Merge") /\ "RemoveUnused" \in flags
          BY <2>1, <3>1, DueIs DEF Merges
        <5> QED
          BY <5>1, BothSelected
      <4>2. ~(stage' > 3)
        BY <2>1, <3>1
      <4> QED
        BY <4>1, <4>2 DEF ApartInv
    <3>2. CASE stage \in 3 .. 5 /\ Merges
      <4>1. stage > 3 \/ stage = 3
        BY <3>2
      <4>2. Duplicates = {}
        BY <1>2, <1>7, <3>2, <4>1 DEF ApartInv, LoopInv
      <4> QED
        BY <1>5, <4>2 DEF ApartInv
    <3>3. CASE stage = 1
      <4>1. ~(stage' > 3) /\ stage' # 3
        BY <2>1, <3>3
      <4> QED
        BY <4>1 DEF ApartInv
    <3>4. CASE ~Merges
      BY <1>8, <3>4 DEF ApartInv
    <3>5. stage = 1 \/ stage = 2 \/ stage \in 3 .. 5
      BY <1>3
    <3> QED
      BY <3>1, <3>2, <3>3, <3>4, <3>5
  <2>6. GapInv'
    <3>1. CASE stage = 3 /\ "Shrink" \in flags
      <4>1. steps' # <<>>
        BY <2>1, <3>1, DueIs, SelectedIs
      <4>2. ~(stage' > 4)
        BY <2>1, <3>1
      <4> QED
        BY <4>1, <4>2 DEF GapInv
    <3>2. CASE stage \in 4 .. 5 /\ "Shrink" \in flags
      <4>1. stage > 4 \/ stage = 4
        BY <3>2
      <4>2. NoGap(objects)
        BY <1>2, <3>2, <4>1 DEF GapInv, LoopInv
      <4> QED
        BY <1>2, <4>2 DEF GapInv, NoGap
    <3>3. CASE stage \in 1 .. 2
      <4>1. ~(stage' > 4) /\ stage' # 4
        BY <2>1, <3>3
      <4> QED
        BY <4>1 DEF GapInv
    <3>4. CASE "Shrink" \notin flags
      BY <1>2, <3>4 DEF GapInv
    <3>5. stage \in 1 .. 2 \/ stage = 3 \/ stage \in 4 .. 5
      BY <1>3
    <3> QED
      BY <3>1, <3>2, <3>3, <3>4, <3>5
  <2> QED
    BY <1>1, <1>5, <2>3, <2>4, <2>5, <2>6 DEF LoopInv
<1> QED
  BY <1>6, <1>7

\* Every step keeps the invariant of the loop.
LEMMA LoopStep == LoopInv /\ [Next]_vars => LoopInv'
<1> SUFFICES ASSUME LoopInv, [Next]_vars PROVE LoopInv'
  OBVIOUS
<1>1. CASE UNCHANGED vars
  <2>1. /\ flags' = flags /\ objects' = objects /\ trailer' = trailer /\ size' = size
        /\ stage' = stage /\ steps' = steps /\ pass' = pass
    BY <1>1 DEF vars, storage
  <2>2. Preserved'
    BY PreservedByStep DEF LoopInv
  <2>3. Left(stage)' = Left(stage) /\ Unused' = Unused /\ Duplicates' = Duplicates
    BY <2>1 DEF Left, Selected, Unused, Duplicates, Indices, Occupied, First, Identical
  <2>4. Looping' /\ SizeInv'
    BY <2>1, <2>3 DEF LoopInv, Looping, SizeInv
  <2>5. UsedInv' /\ ApartInv' /\ GapInv'
    BY <2>1, <2>3, MergesStay DEF LoopInv, UsedInv, ApartInv, GapInv, NoGap
  <2> QED
    BY <2>2, <2>4, <2>5 DEF LoopInv
<1>2. CASE Next
  BY <1>2, EarlyStages, RemoveUnusedLoops, MergeLoops, ShrinkLoops, RecompressLoops, PassLoops DEF Next
<1> QED
  BY <1>1, <1>2

\* What is left of a stage is all that is due, its last operation, or nothing.
LEMMA LeftIs ==
    ASSUME Looping, stage < 6
    PROVE  steps \in {Due(stage), Selected(Stages[stage][Len(Stages[stage])]), <<>>}
<1>1. stage = 1 \/ stage = 2 \/ stage = 3 \/ stage = 4 \/ stage = 5
  BY DEF Looping
<1>2. steps \in Left(stage)
  BY DEF Looping
<1>3. Stages[3][Len(Stages[3])] = "Merge"
  <2>1. Len(Stages[3]) = 2 /\ Stages[3][2] = "Merge"
    BY DEF Stages
  <2> QED
    BY <2>1
<1>4. CASE stage # 3
  BY <1>1, <1>2, <1>4, DueIs DEF Left
<1>5. CASE stage = 3
  BY <1>2, <1>3, <1>5, DueIs DEF Left
<1> QED
  BY <1>4, <1>5

\* The invariant of the loop delivers what was selected.
LEMMA LoopDelivers == LoopInv => Delivered
<1> SUFFICES ASSUME LoopInv PROVE Delivered
  OBVIOUS
<1>1. Finished <=> stage > 5
  BY DueIs DEF Finished
<1>2. stage \in 1 .. 6 /\ pass \in BOOLEAN
  BY DEF LoopInv, Looping
<1>3. TypeOK
  <2>1. \A i \in Indices : objects[i].generation \in 0 .. MaxGeneration
    BY IndicesAre DEF LoopInv, Preserved
  <2>2. Indices = 0 .. Count(objects) - 1
    BY IndicesAre DEF LoopInv, Preserved
  <2>3. ~Finished => steps \in {Due(stage), Selected(Stages[stage][Len(Stages[stage])]), <<>>}
    <3>1. ~Finished => stage < 6
      BY <1>1, <1>2
    <3> QED
      BY <3>1, LeftIs DEF LoopInv
  <2>4. stage \in 1 .. LastStage + 1
    BY <1>2, DueIs
  <2>5. Count(objects) <= size
    BY DEF LoopInv, SizeInv
  <2> QED
    BY <1>2, <2>1, <2>2, <2>3, <2>4, <2>5 DEF TypeOK
<1>4. ASSUME Finished PROVE stage > 3 /\ stage > 4
  BY <1>1, <1>2, <1>4
<1>5. NothingUnused
  BY <1>4 DEF NothingUnused, LoopInv, UsedInv
<1>6. NoDuplicates
  BY <1>4 DEF NoDuplicates, NoneLater, LoopInv, ApartInv, Merges, NoLater, Of
<1>7. Squeezed
  BY <1>4 DEF Squeezed, LoopInv, GapInv, NoGap, Indices, Occupied
<1> QED
  BY <1>3, <1>5, <1>6, <1>7 DEF Delivered

\* When the passes are over, the storage has nothing unused and no gaps, as
\* selected, and no duplicates, unless it was shrunk and the source had later
\* references; and the loop keeps its type, for all documents.
THEOREM SelectionIsDelivered == Spec => []Delivered
<1> QED
  BY LoopInitially, LoopStep, LoopDelivers, PTL DEF Spec
=============================================================================

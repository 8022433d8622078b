--------------------------- MODULE DocumentReader ---------------------------
(***************************************************************************)
(* PDFDocumentReader::readFromBuffer (pdfdocumentreader.cpp), with         *)
(* PDFXRefTable::readXRefTable (pdfxreftable.cpp): the chain of reference  *)
(* tables, the objects they locate, authentication, the objects in object  *)
(* streams, and, in permissive mode, the restoration of a damaged file.    *)
(* Objects and object streams are read by parallel tasks.                  *)
(*                                                                         *)
(* A file is abstracted to where things are.  sections: offset -> a        *)
(* reference table that can be read, with its entries and the offsets      *)
(* /Prev and /XRefStm; bodies: offset -> an object "n g obj ... endobj".   *)
(* The value of an object is the offset of the body it comes from.  A file *)
(* without a header, footer or start of a table is one whose start is not  *)
(* the offset of a section.                                                *)
(***************************************************************************)
EXTENDS Integers, FiniteSets, Sequences

CONSTANT Files

Encryptions == {"none", "standard", "public key"}

\* f @@ g of TLC, which the provers do not know.
Over(f, g) == [x \in DOMAIN f \cup DOMAIN g |-> IF x \in DOMAIN f THEN f[x] ELSE g[x]]

None == 0    \* no offset; the null object

Free == <<"free">>
Occupied(generation, offset) == <<"occupied", generation, offset>>
InObjectStream(stream) == <<"in stream", stream>>

VARIABLES
    file, permissive,     \* the buffer, m_permissive
    phase,                \* where readFromBuffer is
    workSet, processed,   \* readXRefTable: offsets to be read, read
    entries, trailer,     \* m_entries, section of m_trailerDictionary
    todo, busy,           \* tasks of execute() not begun, running
    objects,              \* number -> generation and object
    result,               \* m_result
    restorable,           \* shouldTryPermissiveReading
    asked,                \* how often a user was asked to authenticate
    decrypted,            \* are the objects of an encrypted file decrypted?
    restored,             \* restoreObjects: reference -> offset
    succesfull, round,    \* its result so far, which call of it
    returned              \* the document returned

inputs == <<file, permissive>>
table == <<workSet, processed, entries, trailer>>
tasks == <<todo, busy>>
security == <<asked, decrypted>>
restoration == <<restored, succesfull, round>>
outcome == <<result, restorable, returned>>
vars == <<inputs, phase, table, tasks, objects, security, restoration, outcome>>

\* What the buffer of a file holds: an object has a number and a generation.
File(f) ==
    /\ f.encryption \in Encryptions
    /\ IsFiniteSet(DOMAIN f.bodies)
    /\ \A o \in DOMAIN f.bodies : f.bodies[o].ref \in Nat \X Nat

ASSUME FilesAssumption == \A f \in Files : File(f)

\* Its reference tables: offset 0 is that of the header, and the stream that a
\* hybrid table names has no older tables of its own.
Tables(f) ==
    /\ IsFiniteSet(DOMAIN f.sections) /\ None \notin DOMAIN f.sections
    /\ \A o \in DOMAIN f.sections :
          LET stm == f.sections[o].stm
          IN  stm \in DOMAIN f.sections => f.sections[stm].prev = None /\ f.sections[stm].stm = None

ASSUME TablesAssumption == \A f \in Files : Tables(f)

Phases == {"xref", "entries", "security", "streams", "document",
           "damaged", "restore", "restored security", "restored document", "returned"}

Return(document) == phase' = "returned" /\ returned' = document

\* A PDFException caught by readFromBuffer.
Restores == permissive /\ restorable
Throw ==
    /\ result' = "Failed"
    /\ IF Restores THEN phase' = "damaged" /\ UNCHANGED returned ELSE Return("empty")
    /\ UNCHANGED restorable

-----------------------------------------------------------------------------
(* PDFXRefTable::readXRefTable: an offset of the stack per step. *)

Section == file.sections[workSet[Len(workSet)]]
Rest == SubSeq(workSet, 1, Len(workSet) - 1)

Pushed(offset) == IF offset = None THEN <<>> ELSE <<offset>>

\* mutant: the table before is read before the stream that hybrid files add
StreamLast(s) == Pushed(s.stm) \o Pushed(s.prev)
Related(s) == Pushed(s.prev) \o Pushed(s.stm)

Merged(s) ==
    [n \in DOMAIN s.entries \cup DOMAIN entries |->
        IF n \in DOMAIN entries /\ (entries[n] # Free \/ n \notin DOMAIN s.entries)
        THEN entries[n] ELSE s.entries[n]]

AlwaysNew(offset) == TRUE                  \* mutant: cycles are not detected
IsNew(offset) == offset \notin processed

ReadSection ==
    LET offset == workSet[Len(workSet)]
    IN  /\ phase = "xref" /\ workSet # <<>>
        /\ IF ~IsNew(offset)
           THEN /\ workSet' = Rest
                /\ UNCHANGED <<phase, processed, entries, trailer, outcome>>
           ELSE IF offset \notin DOMAIN file.sections
           THEN /\ Throw /\ UNCHANGED table
           ELSE /\ workSet' = Rest \o Related(Section)
                /\ processed' = processed \cup {offset}
                /\ entries' = Merged(Section)
                /\ trailer' = IF trailer = None THEN offset ELSE trailer
                /\ UNCHANGED <<phase, outcome>>
        /\ UNCHANGED <<inputs, tasks, objects, security, restoration>>

OccupiedEntries == {n \in DOMAIN entries : entries[n][1] = "occupied"}
StreamEntries == {n \in DOMAIN entries : entries[n][1] = "in stream"}

\* The table is read: objects is resized, the tasks of its entries are made.
TableRead ==
    /\ phase = "xref" /\ workSet = <<>>
    /\ IF DOMAIN entries = {}
       THEN Throw /\ UNCHANGED <<tasks, objects>>
       ELSE /\ phase' = "entries" /\ todo' = OccupiedEntries
            /\ objects' = [n \in DOMAIN entries |-> [generation |-> 0, object |-> None]]
            /\ UNCHANGED <<busy, outcome>>
    /\ UNCHANGED <<inputs, table, security, restoration>>

-----------------------------------------------------------------------------
(* Tasks: they test m_result when they begin and commit under m_mutex. *)

TasksDone == todo = {} /\ busy = {}

Begin ==
    /\ phase \in {"entries", "streams"}
    /\ \E t \in todo : todo' = todo \ {t} /\ busy' = IF result = "OK" THEN busy \cup {t} ELSE busy
    /\ UNCHANGED <<inputs, phase, table, objects, security, restoration, outcome>>

\* getObject: the object at an offset is the expected one and can be read.
Plain(offset) == file.bodies[offset].length = <<>> /\ file.bodies[offset].members = {}
Located(n) ==
    LET offset == entries[n][3]
    IN  offset \in DOMAIN file.bodies /\ file.bodies[offset].intact
        /\ file.bodies[offset].ref = <<n, entries[n][2]>>

\* getEntry and getObjectFromXrefTable for the /Length r of a stream.
LengthRead(r) ==
    /\ r[1] \in OccupiedEntries /\ r[2] = entries[r[1]][2]
    /\ Located(r[1]) /\ Plain(entries[r[1]][3])

Length(n) == file.bodies[entries[n][3]].length
Readable(n) == Located(n) /\ (Length(n) = <<>> \/ LengthRead(Length(n)))

\* mutant: the result is that of the task which ends last
LastResult(n) == IF Readable(n) \/ permissive THEN "OK" ELSE "Failed"
ResultWith(n) == IF Readable(n) \/ permissive THEN result ELSE "Failed"

EndEntry(n) ==
    /\ phase = "entries" /\ n \in busy
    /\ busy' = busy \ {n}
    /\ result' = ResultWith(n)
    /\ objects' = IF Readable(n)
                  THEN [objects EXCEPT ![n] = [generation |-> entries[n][2], object |-> entries[n][3]]]
                  ELSE objects
    /\ UNCHANGED <<inputs, phase, table, todo, security, restoration, restorable, returned>>

EntriesRead ==
    /\ phase = "entries" /\ TasksDone
    /\ IF result = "OK" THEN phase' = "security" /\ UNCHANGED returned ELSE Return("empty")
    /\ UNCHANGED <<inputs, table, tasks, objects, security, restoration, result, restorable>>

-----------------------------------------------------------------------------
(* processSecurityHandler.  The standard handler tries the empty password  *)
(* first and asks until the user gives up; the handler with public keys    *)
(* asks before it looks for certificates.  Either may refuse the           *)
(* dictionary of encryption, before it asks or after.                      *)
(* authorizeOwnerOnly is not set.                                          *)

Authentications ==
    CASE file.encryption = "none" -> {<<0, "Authorized">>}
      [] file.encryption = "standard" ->
            {<<1, "Cancelled">>} \cup ({0, 1} \X {"Authorized", "Failed"})
      [] file.encryption = "public key" ->
            {<<0, "Failed">>} \cup ({1} \X {"Authorized", "Cancelled", "Failed"})

Encrypted == file.encryption # "none"

StillRestorable == ~Encrypted

processSecurityHandler ==
    /\ phase = "security"
    /\ \E a \in Authentications :
        /\ asked' = asked + a[1]
        /\ CASE a[2] = "Failed" -> Throw /\ UNCHANGED <<todo, decrypted>>
             [] a[2] = "Cancelled" ->
                    result' = "Cancelled" /\ Return("empty") /\ UNCHANGED <<todo, restorable, decrypted>>
             [] a[2] = "Authorized" ->
                    /\ phase' = "streams" /\ decrypted' = Encrypted
                    /\ restorable' = StillRestorable
                    /\ todo' = {entries[n][2] : n \in StreamEntries}
                    /\ UNCHANGED <<result, returned>>
    /\ UNCHANGED <<inputs, table, busy, objects, restoration>>

\* processObjectStreams
Contains(stream) ==
    stream \in DOMAIN objects /\ objects[stream].object # None
        /\ file.bodies[objects[stream].object].members # {}

EndStream(stream) ==
    /\ phase = "streams" /\ stream \in busy
    /\ busy' = busy \ {stream}
    /\ IF Contains(stream)
       THEN /\ objects' = [n \in DOMAIN objects |->
                  IF n \in StreamEntries /\ entries[n][2] = stream
                     /\ n \in file.bodies[objects[stream].object].members
                  THEN [objects[n] EXCEPT !.object = objects[stream].object]
                  ELSE objects[n]]
            /\ UNCHANGED result
       ELSE result' = "Failed" /\ UNCHANGED objects
    /\ UNCHANGED <<inputs, phase, table, todo, security, restoration, restorable, returned>>

\* The document is made; its root must be there.
HasRoot == file.root \in DOMAIN objects /\ objects[file.root].object # None

MakeDocument ==
    /\ phase = "streams" /\ TasksDone
    /\ IF HasRoot THEN Return("document") /\ UNCHANGED <<result, restorable>> ELSE Throw
    /\ UNCHANGED <<inputs, table, tasks, objects, security, restoration>>

-----------------------------------------------------------------------------
(* readDamagedDocumentFromBuffer: every object of the buffer is parsed;    *)
(* what is restored first stays.                                           *)

ResetResult == "OK"

StartRestore ==
    /\ phase = "damaged"
    /\ phase' = "restore" /\ result' = ResetResult
    /\ todo' = DOMAIN file.bodies /\ succesfull' = TRUE /\ round' = 1
    /\ UNCHANGED <<inputs, table, busy, objects, security, restored, restorable, returned>>

\* The parser looks up the length of a stream among the objects restored.
Restorable(offset) ==
    LET body == file.bodies[offset]
    IN  /\ body.intact
        /\ body.length # <<>> => body.length \in DOMAIN restored /\ Plain(restored[body.length])

ParseRestored(offset) ==
    /\ phase = "restore" /\ offset \in todo
    /\ todo' = todo \ {offset}
    /\ IF Restorable(offset) THEN busy' = busy \cup {offset} /\ UNCHANGED succesfull
                             ELSE succesfull' = FALSE /\ UNCHANGED busy
    /\ UNCHANGED <<inputs, phase, table, objects, security, restored, round, outcome>>

StoreRestored(offset) ==
    /\ phase = "restore" /\ offset \in busy
    /\ busy' = busy \ {offset}
    /\ restored' = Over(restored, [r \in {file.bodies[offset].ref} |-> offset])
    /\ UNCHANGED <<inputs, phase, table, todo, objects, security, succesfull, round, outcome>>

\* mutant: one pass
OnePass == FALSE
SecondPass == ~succesfull /\ round = 1

\* The objects of the map in ascending order of references: of an object
\* number the latest generation is kept.
RestoredNumbers == {r[1] : r \in DOMAIN restored}
RestoredObjects ==
    [n \in UNION {0 .. m : m \in RestoredNumbers} |->
        IF n \notin RestoredNumbers THEN [generation |-> 0, object |-> None]
        ELSE LET r == CHOOSE r \in DOMAIN restored :
                        r[1] = n /\ \A q \in DOMAIN restored : q[1] = n => q[2] <= r[2]
             IN  [generation |-> r[2], object |-> restored[r]]]

RestoreDone ==
    /\ phase = "restore" /\ TasksDone
    /\ IF SecondPass
       THEN /\ todo' = DOMAIN file.bodies /\ succesfull' = TRUE /\ round' = round + 1
            /\ UNCHANGED <<phase, objects>>
       ELSE /\ phase' = "restored security" /\ objects' = RestoredObjects
            /\ UNCHANGED <<todo, succesfull, round>>
    /\ UNCHANGED <<inputs, table, busy, security, restored, outcome>>

\* processSecurityHandler with no entries: there is nothing to decrypt.
RestoredSecurity ==
    /\ phase = "restored security"
    /\ \E a \in Authentications :
        /\ asked' = asked + a[1]
        /\ IF a[2] = "Authorized"
           THEN phase' = "restored document" /\ UNCHANGED <<result, returned>>
           ELSE result' = a[2] /\ Return("empty")
    /\ UNCHANGED <<inputs, table, tasks, objects, decrypted, restoration, restorable>>

MakeRestored ==
    /\ phase = "restored document"
    /\ IF HasRoot THEN Return("document") /\ UNCHANGED result
                  ELSE Return("empty") /\ result' = "Failed"
    /\ UNCHANGED <<inputs, table, tasks, objects, security, restoration, restorable>>

-----------------------------------------------------------------------------
Init ==
    /\ file \in Files /\ permissive \in BOOLEAN
    /\ phase = "xref" /\ workSet = <<file.start>> /\ processed = {}
    /\ entries = <<>> /\ trailer = None
    /\ todo = {} /\ busy = {} /\ objects = <<>>
    /\ result = "OK" /\ restorable = TRUE /\ returned = "none"
    /\ asked = 0 /\ decrypted = FALSE
    /\ restored = <<>> /\ succesfull = TRUE /\ round = 0

Next ==
    \/ ReadSection \/ TableRead \/ Begin \/ EntriesRead
    \/ \E t \in busy : EndEntry(t) \/ EndStream(t) \/ StoreRestored(t)
    \/ \E t \in todo : ParseRestored(t)
    \/ processSecurityHandler \/ MakeDocument
    \/ StartRestore \/ RestoreDone \/ RestoredSecurity \/ MakeRestored

Spec == Init /\ [][Next]_vars

\* The thread that reads the document runs, and so do the pool's threads.
FairSpec == Spec /\ WF_vars(Next)

-----------------------------------------------------------------------------
(* Properties. *)

Done == phase = "returned"
WasRestored == round > 0
Read(n) == objects[n].object

\* What the tables of a file say, newest update first; an update consists of
\* a table and of the stream with the entries the table hides as free.
Update(f, o) ==
    LET shown == f.sections[o].entries
        stm == f.sections[o].stm
        hidden == IF stm \in DOMAIN f.sections THEN f.sections[stm].entries ELSE <<>>
    IN  [n \in DOMAIN shown \cup DOMAIN hidden |->
            IF n \in DOMAIN hidden /\ (n \in DOMAIN shown => shown[n] = Free) THEN hidden[n] ELSE shown[n]]

\* The update at an offset over at most k older ones.
Updates(f) ==
    LET upTo[k \in Nat] ==
            [o \in DOMAIN f.sections |->
                LET prev == f.sections[o].prev
                IN  IF k = 0 \/ prev \notin DOMAIN f.sections THEN Update(f, o)
                    ELSE Over(Update(f, o), upTo[k - 1][prev])]
    IN  upTo
NewestOf(f) == Updates(f)[Cardinality(DOMAIN f.sections)][f.start]
Newest == NewestOf(file)

\* Type invariant of PDFDocumentReader.
TypeOK ==
    /\ phase \in Phases /\ result \in {"OK", "Failed", "Cancelled"}
    /\ returned \in {"none", "empty", "document"} /\ (Done <=> returned # "none")
    /\ processed \subseteq DOMAIN file.sections /\ trailer \in processed \cup {None}
    /\ \A n \in DOMAIN objects : Read(n) \in DOMAIN file.bodies \cup {None}
    /\ asked \in 0 .. 2 /\ round \in 0 .. 2

\* Of a file that was updated, in whatever form, the newest version of every
\* object is read which is not free in its newest update.
NewestVersionRead ==
    Done /\ returned = "document" /\ ~WasRestored =>
        \A n \in DOMAIN Newest :
            /\ Newest[n][1] = "occupied" => entries[n] = Newest[n]
            /\ Newest[n][1] = "in stream" => entries[n] = Newest[n]

\* Whatever the order of tasks: without permissive mode a document is OK only
\* if all its entries were read, and one damaged entry makes it fail.
StrictResult ==
    Done /\ ~permissive =>
        /\ result = "OK" => \A n \in OccupiedEntries : Read(n) = entries[n][3]
        /\ (\E n \in OccupiedEntries : ~Readable(n)) => result = "Failed" /\ returned = "empty"

\* A document that is OK was returned, and of one that was cancelled nothing;
\* a document that was restored after a failure is not reported as failed.
ResultMatches ==
    Done => /\ result = "OK" => returned = "document"
            /\ result = "Cancelled" => returned = "empty"
            /\ WasRestored /\ returned = "document" => result = "OK"

\* A document the user has authenticated for is never restored by the second
\* attempt, so that nobody is asked again.
NotRestoredOnceDecrypted == decrypted => ~WasRestored /\ asked <= 1

\* The length of the stream can be told: it is direct, or the file has an
\* intact object for it, and every such object is a number.
HasLength(o) ==
    LET length == file.bodies[o].length
        lengths == {q \in DOMAIN file.bodies : file.bodies[q].intact /\ file.bodies[q].ref = length}
    IN  length # <<>> => lengths # {} /\ \A q \in lengths : Plain(q)

\* pdfdocumentreader.h:119-121: after two passes every object that is intact is
\* restored, also streams whose length is in another object, in any order.
IntactRestored ==
    Done /\ WasRestored =>
        \A o \in DOMAIN file.bodies :
            file.bodies[o].intact /\ HasLength(o) => file.bodies[o].ref \in DOMAIN restored

\* What reading reports: the result tells what was read, in whatever order the
\* tasks end, with and without restoring.
ResultSound == TypeOK /\ StrictResult /\ ResultMatches

\* What restoring does, on whichever path it is reached: never after the user
\* has authenticated, and nothing intact is left out.
RestoredSoundly == NotRestoredOnceDecrypted /\ IntactRestored

\* Reading ends, also if tables refer to each other in a circle.
ReadingEnds == <>Done
=============================================================================

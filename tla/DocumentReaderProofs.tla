------------------------ MODULE DocumentReaderProofs ------------------------
(***************************************************************************)
(* What is read in the background: a document from its file, and the text  *)
(* of a document.                                                          *)
(*                                                                         *)
(* For DocumentReader, whatever the files: the result tells what was read, *)
(* what is restored, and of which version; for TextLayoutCompiler, whatever*)
(* the pages and versions: an index is that of the present text.           *)
(***************************************************************************)
EXTENDS DocumentReader, TextLayoutCompiler, DataInduction, FiniteSetTheorems, TLAPS

\* The type invariant with what the phases say of the result, of the tasks
\* and of how often the user was asked.
Early == {"xref", "entries", "security"}
Restoring == {"restore", "restored security", "restored document"}

PhaseInv ==
    /\ phase \in Phases \ {"document"}
    /\ result \in {"OK", "Failed", "Cancelled"}
    /\ returned \in {"none", "empty", "document"}
    /\ Done <=> returned # "none"
    /\ phase \in Restoring \cup {"security"} => result = "OK"
    /\ ~Done => result # "Cancelled"
    /\ phase = "damaged" \/ phase \in Restoring => permissive
    /\ phase \notin {"entries", "streams", "restore"} => TasksDone
    /\ ~Done => (round = 0 <=> phase \notin Restoring)

CountsInv ==
    /\ asked \in 0 .. 2 /\ round \in 0 .. 2
    /\ phase \in Early => asked = 0
    /\ phase \in {"streams", "damaged", "restore", "restored security"} => asked <= 1

TableInv ==
    /\ processed \subseteq DOMAIN file.sections
    /\ trailer \in processed \cup {None}

ObjectsInv ==
    /\ phase = "xref" => DOMAIN objects = {}
    /\ phase \in {"entries", "security", "streams"} => DOMAIN objects = DOMAIN entries
    /\ \A n \in DOMAIN objects :
          \E g, o : objects[n] = [generation |-> g, object |-> o]
                   /\ o \in DOMAIN file.bodies \cup {None}

\* Without permissive mode: what the tasks that are over have done.
EntryDone(n) == Readable(n) /\ Read(n) = entries[n][3]
StrictInv ==
    /\ phase = "entries" => todo \cup busy \subseteq OccupiedEntries
    /\ ~permissive /\ phase = "entries" =>
          \A n \in OccupiedEntries \ (todo \cup busy) : EntryDone(n) \/ result = "Failed"
    /\ ~permissive /\ phase \in {"security", "streams"} => \A n \in OccupiedEntries : EntryDone(n)
    /\ StrictResult

\* The first attempt is over for good once objects have been decrypted.
DecryptedInv ==
    decrypted => phase \in {"streams", "returned"} /\ ~restorable /\ round = 0 /\ asked <= 1

\* What is restored is an intact object of that reference.
RestoredInv ==
    /\ DOMAIN restored \subseteq {file.bodies[o].ref : o \in DOMAIN file.bodies}
    /\ \A r \in DOMAIN restored :
          /\ restored[r] \in DOMAIN file.bodies
          /\ file.bodies[restored[r]].intact /\ file.bodies[restored[r]].ref = r
    /\ phase = "restore" =>
          /\ todo \cup busy \subseteq DOMAIN file.bodies
          /\ \A o \in busy : file.bodies[o].intact

\* Objects whose reference is restored; those that need no other object, and
\* those that need one which does not.
InRestored(o) == file.bodies[o].ref \in DOMAIN restored
Direct(o) == file.bodies[o].intact /\ file.bodies[o].length = <<>>
Complete(o) == file.bodies[o].intact /\ HasLength(o)
Parsed == DOMAIN file.bodies \ (todo \cup busy)

\* What a pass over the buffer has restored: all if it has succeeded so far,
\* else what needs no other object; the second pass all that can be restored.
PassInv ==
    /\ phase = "restore" =>
          /\ succesfull => \A o \in Parsed : InRestored(o)
          /\ \A o \in Parsed : Direct(o) => InRestored(o)
          /\ round = 2 => /\ \A o \in DOMAIN file.bodies : Direct(o) => InRestored(o)
                          /\ \A o \in Parsed : Complete(o) => InRestored(o)
    /\ phase \in {"restored security", "restored document"} \/ (Done /\ WasRestored) =>
          \A o \in DOMAIN file.bodies : Complete(o) => InRestored(o)

ResultInv == File(file) /\ PhaseInv /\ CountsInv /\ TableInv /\ ObjectsInv /\ StrictInv /\ ResultMatches
RestoreInv == ResultInv /\ DecryptedInv /\ RestoredInv /\ PassInv

-----------------------------------------------------------------------------
(* Phases, the result and the questions asked. *)

USE FilesAssumption

\* Every handler reports whether it asked and how it ended.
LEMMA AuthenticationsType ==
    ASSUME File(file)
    PROVE  \A a \in Authentications : a[1] \in 0 .. 1 /\ a[2] \in {"Authorized", "Cancelled", "Failed"}
<1> SUFFICES ASSUME NEW a \in Authentications
             PROVE  a[1] \in 0 .. 1 /\ a[2] \in {"Authorized", "Cancelled", "Failed"}
  OBVIOUS
<1>1. CASE file.encryption = "none"
  <2>1. Authentications = {<<0, "Authorized">>}
    BY <1>1 DEF Authentications
  <2> QED
    BY <2>1
<1>2. CASE file.encryption = "standard"
  <2>1. Authentications = {<<1, "Cancelled">>} \cup ({0, 1} \X {"Authorized", "Failed"})
    BY <1>2 DEF Authentications
  <2> QED
    BY <2>1
<1>3. CASE file.encryption = "public key"
  <2>1. Authentications = {<<0, "Failed">>} \cup ({1} \X {"Authorized", "Cancelled", "Failed"})
    BY <1>3 DEF Authentications
  <2> QED
    BY <2>1
<1> QED
  BY <1>1, <1>2, <1>3 DEF File, Encryptions

LEMMA FileKept == ASSUME File(file), [Next]_vars PROVE File(file)' /\ file' = file /\ permissive' = permissive
<1>1. file' = file /\ permissive' = permissive
  BY DEF Next, vars, inputs, ReadSection, TableRead, Begin, EntriesRead, EndEntry, EndStream,
     StoreRestored, ParseRestored, processSecurityHandler, MakeDocument, StartRestore,
     RestoreDone, RestoredSecurity, MakeRestored
<1> QED
  BY <1>1 DEF File

LEMMA PhaseInit == Init => PhaseInv
BY DEF Init, PhaseInv, Phases, Done, Restoring, Early, TasksDone

\* A PDFException is only caught when no task runs.
LEMMA ThrowStep ==
    ASSUME PhaseInv, Throw, TasksDone, phase \in {"xref", "security", "streams"},
           UNCHANGED <<permissive, tasks, restoration>>
    PROVE  PhaseInv'
<1> USE DEF PhaseInv, Done, Restoring, Early, TasksDone, Phases
<1>1. result' = "Failed" /\ UNCHANGED <<permissive, todo, busy, round>>
  BY DEF Throw, tasks, restoration
<1>2. CASE phase' = "damaged" /\ permissive /\ returned' = returned
  BY <1>1, <1>2
<1>3. CASE phase' = "returned" /\ returned' = "empty"
  BY <1>1, <1>3
<1> QED
  BY <1>2, <1>3 DEF Throw, Restores, Return

LEMMA PhaseStep == ASSUME File(file), PhaseInv, [Next]_vars PROVE PhaseInv'
<1> USE DEF PhaseInv, Done, Restoring, Early, TasksDone, Phases
<1>1. CASE ReadSection
  <2>1. phase = "xref" /\ UNCHANGED <<tasks, security, restoration>>
    BY <1>1 DEF ReadSection
  <2>2. CASE UNCHANGED <<phase, outcome>>
    BY <2>1, <2>2, FileKept DEF tasks, security, restoration, outcome
  <2>3. CASE Throw
    BY <2>1, <2>3, FileKept, ThrowStep
  <2> QED
    BY <1>1, <2>2, <2>3 DEF ReadSection
<1>2. CASE TableRead
  <2>1. phase = "xref" /\ UNCHANGED <<security, restoration>>
    BY <1>2 DEF TableRead
  <2>2. CASE phase' = "entries" /\ UNCHANGED outcome
    BY <2>1, <2>2, FileKept DEF security, restoration, outcome
  <2>3. CASE Throw /\ UNCHANGED tasks
    BY <2>1, <2>3, FileKept, ThrowStep
  <2> QED
    BY <1>2, <2>2, <2>3 DEF TableRead
<1>3. CASE Begin
  BY <1>3 DEF Begin, table, tasks, security, restoration, outcome, inputs
<1>4. CASE EntriesRead
  BY <1>4 DEF EntriesRead, Return, table, tasks, security, restoration, outcome, inputs
<1>5. ASSUME NEW n \in busy, EndEntry(n) PROVE PhaseInv'
  BY <1>5 DEF EndEntry, ResultWith, table, tasks, security, restoration, outcome, inputs
<1>6. ASSUME NEW n \in busy, EndStream(n) PROVE PhaseInv'
  BY <1>6 DEF EndStream, table, tasks, security, restoration, outcome, inputs
<1>7. ASSUME NEW o \in busy, StoreRestored(o) PROVE PhaseInv'
  BY <1>7 DEF StoreRestored, table, tasks, security, restoration, outcome, inputs
<1>8. ASSUME NEW o \in todo, ParseRestored(o) PROVE PhaseInv'
  BY <1>8 DEF ParseRestored, table, tasks, security, restoration, outcome, inputs
<1>9. CASE processSecurityHandler
  <2>1. phase = "security" /\ UNCHANGED <<busy, restoration>>
    BY <1>9 DEF processSecurityHandler
  <2>2. PICK a \in Authentications :
          /\ asked' = asked + a[1]
          /\ CASE a[2] = "Failed" -> Throw /\ UNCHANGED <<todo, decrypted>>
               [] a[2] = "Cancelled" ->
                      result' = "Cancelled" /\ Return("empty") /\ UNCHANGED <<todo, restorable, decrypted>>
               [] a[2] = "Authorized" ->
                      /\ phase' = "streams" /\ decrypted' = Encrypted
                      /\ restorable' = StillRestorable
                      /\ todo' = {entries[n][2] : n \in StreamEntries}
                      /\ UNCHANGED <<result, returned>>
    BY <1>9 DEF processSecurityHandler
  <2>3. a[2] \in {"Authorized", "Cancelled", "Failed"}
    BY <2>1, <2>2, AuthenticationsType
  <2>4. CASE a[2] = "Failed"
    <3>1. Throw /\ UNCHANGED tasks
      BY <2>1, <2>2, <2>4 DEF tasks
    <3> QED
      BY <2>1, <2>3, <3>1, FileKept, ThrowStep DEF tasks, restoration
  <2>5. CASE a[2] = "Cancelled"
    <3>1. result' = "Cancelled" /\ phase' = "returned" /\ returned' = "empty" /\ UNCHANGED tasks
      BY <2>1, <2>2, <2>5 DEF Return, tasks
    <3> QED
      BY <2>1, <2>3, <3>1, FileKept DEF tasks, restoration
  <2>6. CASE a[2] = "Authorized"
    <3>1. phase' = "streams" /\ UNCHANGED <<result, returned>>
      BY <2>2, <2>6
    <3> QED
      BY <2>1, <2>3, <3>1, FileKept DEF restoration
  <2> QED
    BY <2>3, <2>4, <2>5, <2>6
<1>10. CASE MakeDocument
  BY <1>10 DEF MakeDocument, Throw, Restores, Return, table, tasks, security, restoration, outcome, inputs
<1>11. CASE StartRestore
  BY <1>11 DEF StartRestore, ResetResult, table, tasks, security, restoration, outcome, inputs
<1>12. CASE RestoreDone
  <2>1. phase = "restore" /\ TasksDone /\ UNCHANGED <<busy, security, outcome>>
    BY <1>12 DEF RestoreDone
  <2>2. CASE SecondPass /\ round' = round + 1 /\ phase' = phase
    <3>1. round # 0 /\ round' # 0
      <4> HIDE DEF PhaseInv
      <4> QED BY <2>2 DEF SecondPass
    <3> QED
      BY <2>1, <2>2, <3>1, FileKept DEF security, outcome
  <2>3. CASE phase' = "restored security" /\ UNCHANGED <<todo, round>>
    BY <2>1, <2>3, FileKept DEF security, outcome
  <2> QED
    BY <1>12, <2>2, <2>3 DEF RestoreDone
<1>13. CASE RestoredSecurity
  <2>1. phase = "restored security" /\ UNCHANGED <<tasks, restoration>>
    BY <1>13 DEF RestoredSecurity
  <2>2. PICK a \in Authentications :
          /\ asked' = asked + a[1]
          /\ IF a[2] = "Authorized"
             THEN phase' = "restored document" /\ UNCHANGED <<result, returned>>
             ELSE result' = a[2] /\ Return("empty")
    BY <1>13 DEF RestoredSecurity
  <2>3. a[1] \in 0 .. 1 /\ a[2] \in {"Authorized", "Cancelled", "Failed"}
    BY <2>2, AuthenticationsType
  <2>5. CASE a[2] = "Authorized"
    BY <2>1, <2>2, <2>5, FileKept DEF tasks, restoration
  <2>6. CASE a[2] # "Authorized"
    <3>1. result' \in {"Cancelled", "Failed"} /\ phase' = "returned" /\ returned' = "empty"
      BY <2>2, <2>3, <2>6 DEF Return
    <3> QED
      BY <2>1, <3>1, FileKept DEF tasks, restoration
  <2> QED
    BY <2>5, <2>6
<1>14. CASE MakeRestored
  BY <1>14 DEF MakeRestored, Return, table, tasks, security, restoration, outcome, inputs
<1>15. CASE UNCHANGED vars
  BY <1>15 DEF vars, table, tasks, security, restoration, outcome, inputs
<1> QED
  BY <1>1, <1>2, <1>3, <1>4, <1>5, <1>6, <1>7, <1>8, <1>9, <1>10, <1>11, <1>12, <1>13, <1>14, <1>15 DEF Next

\* Nobody is asked before authentication, and at most once in each attempt.
LEMMA CountsStep == ASSUME File(file), PhaseInv, CountsInv, [Next]_vars PROVE CountsInv'
<1>1. CASE processSecurityHandler
  <2>1. phase = "security" /\ asked = 0
    BY <1>1 DEF processSecurityHandler, CountsInv, Early
  <2>2. PICK a \in Authentications : asked' = asked + a[1]
    BY <1>1 DEF processSecurityHandler
  <2>3. asked' \in 0 .. 2 /\ asked' <= 1 /\ round' = round
    <3>1. a[1] \in 0 .. 1
      BY <2>2, AuthenticationsType
    <3> QED
      BY <1>1, <2>1, <2>2, <3>1 DEF processSecurityHandler, restoration
  <2>4. phase' \in {"damaged", "returned", "streams"}
    BY <1>1, AuthenticationsType DEF processSecurityHandler, Throw, Return
  <2> QED
    BY <2>3, <2>4 DEF CountsInv, Early
<1>2. CASE RestoredSecurity
  <2>1. phase = "restored security" /\ asked \in 0 .. 2 /\ asked <= 1 /\ round' = round
    BY <1>2 DEF RestoredSecurity, CountsInv, restoration
  <2>2. PICK a \in Authentications : asked' = asked + a[1]
    BY <1>2 DEF RestoredSecurity
  <2>3. a[1] \in 0 .. 1
    BY <2>2, AuthenticationsType
  <2>4. asked' \in 0 .. 2 /\ round \in 0 .. 2
    <3>1. PICK x \in 0 .. 1 : asked' = asked + x
      BY <2>2, <2>3
    <3>2. round \in 0 .. 2
      BY DEF CountsInv
    <3>5. asked \in 0 .. 2 /\ asked <= 1
      BY <2>1
    <3>3. asked \in 0 .. 1
      BY <3>5
    <3>4. asked' \in 0 .. 2
      BY <3>1, <3>3
    <3> QED
      BY <3>2, <3>4
  <2>5. phase' \in {"restored document", "returned"}
    BY <1>2 DEF RestoredSecurity, Return
  <2> QED
    BY <2>1, <2>4, <2>5 DEF CountsInv, Early
<1>3. CASE ReadSection
  <2>1. phase = "xref" /\ UNCHANGED <<asked, round>> /\ phase' \in {"xref", "damaged", "returned"}
    BY <1>3 DEF ReadSection, Throw, Return, security, restoration
  <2> QED
    BY <2>1 DEF CountsInv, Early
<1>4. CASE TableRead
  <2>1. phase = "xref" /\ UNCHANGED <<asked, round>> /\ phase' \in {"entries", "damaged", "returned"}
    BY <1>4 DEF TableRead, Throw, Return, security, restoration
  <2> QED
    BY <2>1 DEF CountsInv, Early
<1>5. CASE EntriesRead
  <2>1. phase = "entries" /\ UNCHANGED <<asked, round>> /\ phase' \in {"security", "returned"}
    BY <1>5 DEF EntriesRead, Return, security, restoration
  <2> QED
    BY <2>1 DEF CountsInv, Early
<1>6. CASE MakeDocument
  <2>1. phase = "streams" /\ UNCHANGED <<asked, round>> /\ phase' \in {"damaged", "returned"}
    BY <1>6 DEF MakeDocument, Throw, Return, security, restoration
  <2> QED
    BY <2>1 DEF CountsInv, Early
<1>7. CASE StartRestore
  <2>1. phase = "damaged" /\ asked' = asked /\ round' = 1 /\ phase' = "restore"
    BY <1>7 DEF StartRestore, security
  <2> QED
    BY <2>1 DEF CountsInv, Early
<1>8. CASE RestoreDone
  <2>1. phase = "restore" /\ asked' = asked /\ phase' \in {"restore", "restored security"}
    BY <1>8 DEF RestoreDone, security
  <2>2. round' \in 0 .. 2
    <3>1. round \in 0 .. 2 /\ (round' = round \/ (round = 1 /\ round' = round + 1))
      BY <1>8 DEF RestoreDone, SecondPass, CountsInv
    <3> QED
      BY <3>1
  <2> QED
    BY <2>1, <2>2 DEF CountsInv, Early
<1>9. CASE MakeRestored
  <2>1. phase = "restored document" /\ UNCHANGED <<asked, round>> /\ phase' = "returned"
    BY <1>9 DEF MakeRestored, Return, security, restoration
  <2> QED
    BY <2>1 DEF CountsInv, Early
<1>10. CASE UNCHANGED <<phase, asked, round>>
  BY <1>10 DEF CountsInv
<1>11. CASE Begin
  BY <1>10, <1>11 DEF Begin, security, restoration
<1>12. ASSUME NEW n \in busy, EndEntry(n) \/ EndStream(n) \/ StoreRestored(n) PROVE CountsInv'
  BY <1>10, <1>12 DEF EndEntry, EndStream, StoreRestored, security, restoration
<1>13. ASSUME NEW o \in todo, ParseRestored(o) PROVE CountsInv'
  BY <1>10, <1>13 DEF ParseRestored, security, restoration
<1>14. CASE UNCHANGED vars
  BY <1>10, <1>14 DEF vars, security, restoration
<1> QED
  BY <1>1, <1>2, <1>3, <1>4, <1>5, <1>6, <1>7, <1>8, <1>9, <1>11, <1>12, <1>13, <1>14 DEF Next

-----------------------------------------------------------------------------
(* The table and the objects. *)

LEMMA TableStep == ASSUME TableInv, [Next]_vars PROVE TableInv'
<1>1. CASE ReadSection
  <2>1. CASE UNCHANGED <<processed, trailer>>
    BY <1>1, <2>1 DEF ReadSection, inputs, TableInv
  <2>2. CASE ~UNCHANGED <<processed, trailer>>
    <3> DEFINE offset == workSet[Len(workSet)]
    <3>1. /\ offset \in DOMAIN file.sections /\ file' = file
          /\ processed' = processed \cup {offset}
          /\ trailer' = IF trailer = None THEN offset ELSE trailer
      BY <1>1, <2>2 DEF ReadSection, inputs, table
    <3> QED
      BY <3>1 DEF TableInv
  <2> QED
    BY <2>1, <2>2
<1>2. CASE UNCHANGED <<file, processed, trailer>>
  BY <1>2 DEF TableInv
<1>3. CASE ~ReadSection
  <2>1. UNCHANGED <<file, processed, trailer>>
    BY <1>3 DEF Next, vars, inputs, table, TableRead, Begin, EntriesRead, EndEntry, EndStream,
       StoreRestored, ParseRestored, processSecurityHandler, MakeDocument, StartRestore,
       RestoreDone, RestoredSecurity, MakeRestored
  <2> QED
    BY <1>2, <2>1
<1> QED
  BY <1>1, <1>3

\* Of every number restored there is a latest generation, so the objects that
\* are handed over are objects of the file.
LEMMA RestoredRead ==
    ASSUME File(file), RestoredInv, NEW n \in DOMAIN RestoredObjects
    PROVE  \E g, o : RestoredObjects[n] = [generation |-> g, object |-> o]
                     /\ o \in DOMAIN file.bodies \cup {None}
<1> DEFINE ofNumber == {r \in DOMAIN restored : r[1] = n}
           generations == {r[2] : r \in ofNumber}
<1>1. CASE n \notin RestoredNumbers
  BY <1>1 DEF RestoredObjects
<1>2. CASE n \in RestoredNumbers
  <2> DEFINE refs == {file.bodies[o].ref : o \in DOMAIN file.bodies}
  <2>1. IsFiniteSet(refs)
    <3> DEFINE f == [o \in DOMAIN file.bodies |-> file.bodies[o].ref]
    <3>1. refs = {f[o] : o \in DOMAIN file.bodies} /\ IsFiniteSet(DOMAIN file.bodies)
      BY DEF File
    <3>2. DOMAIN f = DOMAIN file.bodies
      OBVIOUS
    <3> HIDE DEF f, refs
    <3> QED
      BY <3>1, <3>2, FiniteImage
  <2>2. ofNumber \subseteq refs /\ IsFiniteSet(ofNumber)
    BY <2>1, FS_Subset DEF RestoredInv
  <2>3. IsFiniteSet(generations)
    <3> DEFINE f == [r \in ofNumber |-> r[2]]
    <3>1. generations = {f[r] : r \in ofNumber}
      OBVIOUS
    <3> HIDE DEF ofNumber
    <3>2. DOMAIN f = ofNumber
      OBVIOUS
    <3> HIDE DEF f, generations
    <3> QED
      BY <2>2, <3>1, <3>2, FiniteImage
  <2>4. \A r \in ofNumber : r[2] \in Int
    BY <2>2 DEF File
  <2>5. generations \subseteq Int /\ generations # {}
    BY <1>2, <2>4 DEF RestoredNumbers
  <2>6. PICK g \in generations : \A h \in generations : h <= g
    <3> HIDE DEF generations
    <3> QED BY <2>3, <2>5, GreatestNumber
  <2> DEFINE Latest(r) == r[1] = n /\ \A q \in DOMAIN restored : q[1] = n => q[2] <= r[2]
             latest == CHOOSE r \in DOMAIN restored : Latest(r)
  <2>7. \E r \in DOMAIN restored : Latest(r)
    BY <2>6
  <2>8. latest \in DOMAIN restored
    <3> HIDE DEF Latest
    <3> QED BY <2>7
  <2>9. RestoredObjects[n] = [generation |-> latest[2], object |-> restored[latest]]
    BY <1>2 DEF RestoredObjects
  <2> HIDE DEF latest
  <2> QED
    BY <2>8, <2>9 DEF RestoredInv
<1> QED
  BY <1>1, <1>2

\* An action that neither enters a phase of the table nor changes objects.
LEMMA ObjectsKept ==
    ASSUME ObjectsInv, UNCHANGED <<file, entries, objects>>,
           phase' = phase \/ phase' \notin {"xref", "entries", "security", "streams"}
           \/ (phase \in {"entries", "security"} /\ phase' \in {"security", "streams"})
    PROVE  ObjectsInv'
BY DEF ObjectsInv

LEMMA ObjectsStep ==
    ASSUME File(file), PhaseInv, ObjectsInv, RestoredInv, [Next]_vars
    PROVE  ObjectsInv'
<1>0. file' = file
  BY FileKept
<1>1. CASE ReadSection
  <2>1. phase = "xref" /\ UNCHANGED objects /\ phase' \in {"xref", "damaged", "returned"}
    BY <1>1 DEF ReadSection, Throw, Return
  <2> QED
    BY <1>0, <2>1 DEF ObjectsInv
<1>2. CASE TableRead
  <2>1. CASE Throw /\ UNCHANGED <<entries, objects>>
    BY <1>0, <2>1, ObjectsKept DEF Throw, Return
  <2>2. CASE /\ phase' = "entries" /\ UNCHANGED entries
             /\ objects' = [n \in DOMAIN entries |-> [generation |-> 0, object |-> None]]
    BY <1>0, <2>2 DEF ObjectsInv
  <2> QED
    BY <1>2, <2>1, <2>2 DEF TableRead, table
<1>3. CASE Begin
  BY <1>0, <1>3, ObjectsKept DEF Begin, table
<1>4. CASE EntriesRead
  <2>1. phase = "entries" /\ UNCHANGED <<entries, objects>> /\ phase' \in {"security", "returned"}
    BY <1>4 DEF EntriesRead, Return, table
  <2> QED
    BY <1>0, <2>1, ObjectsKept
<1>5. ASSUME NEW n \in busy, EndEntry(n) PROVE ObjectsInv'
  <2>1. phase = "entries" /\ UNCHANGED <<phase, entries>>
    BY <1>5 DEF EndEntry, table
  <2>2. CASE objects' = objects
    BY <1>0, <2>1, <2>2, ObjectsKept
  <2>3. CASE Readable(n) /\ objects' = [objects EXCEPT ![n] = [generation |-> entries[n][2],
                                                              object |-> entries[n][3]]]
    <3>1. entries[n][3] \in DOMAIN file.bodies
      BY <2>3 DEF Readable, Located
    <3>2. DOMAIN objects' = DOMAIN objects
      BY <2>3
    <3>3. \A m \in DOMAIN objects : objects'[m] = objects[m]
             \/ objects'[m] = [generation |-> entries[n][2], object |-> entries[n][3]]
      BY <2>3
    <3> QED
      BY <1>0, <2>1, <3>1, <3>2, <3>3 DEF ObjectsInv
  <2> QED
    BY <1>5, <2>2, <2>3 DEF EndEntry
<1>6. ASSUME NEW n \in busy, EndStream(n) PROVE ObjectsInv'
  <2>1. phase = "streams" /\ UNCHANGED <<phase, entries>>
    BY <1>6 DEF EndStream, table
  <2>2. CASE objects' = objects
    BY <1>0, <2>1, <2>2, ObjectsKept
  <2>3. CASE Contains(n) /\ objects' # objects
    <3> DEFINE stream == objects[n].object
    <3>1. \A m \in DOMAIN objects :
             objects'[m] = objects[m] \/ objects'[m] = [objects[m] EXCEPT !.object = stream]
      BY <1>6, <2>3 DEF EndStream
    <3>2. DOMAIN objects' = DOMAIN objects
      BY <1>6, <2>3 DEF EndStream
    <3>3. stream \in DOMAIN file.bodies \cup {None}
      BY <2>3 DEF Contains, ObjectsInv
    <3> HIDE DEF stream
    <3>4. ASSUME NEW m \in DOMAIN objects'
          PROVE  \E g, o : objects'[m] = [generation |-> g, object |-> o]
                           /\ o \in DOMAIN file.bodies \cup {None}
      <4>1. PICK g, o : objects[m] = [generation |-> g, object |-> o]
                        /\ o \in DOMAIN file.bodies \cup {None}
        BY <3>2 DEF ObjectsInv
      <4>2. [objects[m] EXCEPT !.object = stream] = [generation |-> g, object |-> stream]
        BY <4>1
      <4> QED
        BY <3>1, <3>2, <3>3, <4>1, <4>2
    <3> QED
      BY <1>0, <2>1, <3>2, <3>4 DEF ObjectsInv
  <2> QED
    BY <1>6, <2>2, <2>3 DEF EndStream
<1>7. ASSUME NEW o \in busy, StoreRestored(o) PROVE ObjectsInv'
  BY <1>0, <1>7, ObjectsKept DEF StoreRestored, table
<1>8. ASSUME NEW o \in todo, ParseRestored(o) PROVE ObjectsInv'
  BY <1>0, <1>8, ObjectsKept DEF ParseRestored, table
<1>9. CASE processSecurityHandler
  <2>1. phase = "security" /\ UNCHANGED <<entries, objects>>
    BY <1>9 DEF processSecurityHandler, table
  <2>2. phase' \in {"damaged", "returned", "streams"}
    BY <1>9, AuthenticationsType DEF processSecurityHandler, Throw, Return
  <2> QED
    BY <1>0, <2>1, <2>2, ObjectsKept
<1>10. CASE MakeDocument
  <2>1. UNCHANGED <<entries, objects>> /\ phase' \in {"damaged", "returned"}
    BY <1>10 DEF MakeDocument, Throw, Return, table
  <2> QED
    BY <1>0, <2>1, ObjectsKept
<1>11. CASE StartRestore
  BY <1>0, <1>11, ObjectsKept DEF StartRestore, table
<1>12. CASE RestoreDone
  <2>1. CASE UNCHANGED <<phase, objects>>
    BY <1>0, <1>12, <2>1, ObjectsKept DEF RestoreDone, table
  <2>2. CASE phase' = "restored security" /\ objects' = RestoredObjects
    BY <1>0, <2>2, RestoredRead DEF ObjectsInv
  <2> QED
    BY <1>12, <2>1, <2>2 DEF RestoreDone
<1>13. CASE RestoredSecurity
  <2>1. UNCHANGED <<entries, objects>> /\ phase' \in {"restored document", "returned"}
    BY <1>13 DEF RestoredSecurity, Return, table
  <2> QED
    BY <1>0, <2>1, ObjectsKept
<1>14. CASE MakeRestored
  BY <1>0, <1>14, ObjectsKept DEF MakeRestored, Return, table
<1>15. CASE UNCHANGED vars
  BY <1>0, <1>15, ObjectsKept DEF vars, table
<1> QED
  BY <1>1, <1>2, <1>3, <1>4, <1>5, <1>6, <1>7, <1>8, <1>9, <1>10, <1>11, <1>12, <1>13, <1>14, <1>15 DEF Next

-----------------------------------------------------------------------------
(* What the result says. *)

\* Reading that ends with an exception tells so.
LEMMA StrictThrow ==
    ASSUME Throw, UNCHANGED permissive
    PROVE  StrictInv'
<1>1. result' = "Failed" /\ phase' \in {"damaged", "returned"}
      /\ (~permissive => phase' = "returned" /\ returned' = "empty")
  BY DEF Throw, Restores, Return
<1> QED
  BY <1>1 DEF StrictInv, StrictResult, Done

\* The tables stay, and with them which entries are occupied and readable.
LEMMA EntriesKept ==
    ASSUME UNCHANGED <<file, entries>>
    PROVE  OccupiedEntries' = OccupiedEntries /\ StreamEntries' = StreamEntries
           /\ \A n : Readable(n)' = Readable(n)
BY DEF OccupiedEntries, StreamEntries, Readable, Located, Length, LengthRead, Plain

\* An action that changes none of what the result is about.
LEMMA StrictKept ==
    ASSUME StrictInv, UNCHANGED <<file, permissive, entries, objects, phase, result>>,
           phase = "entries" => todo' \cup busy' = todo \cup busy, ~Done
    PROVE  StrictInv'
<1>1. UNCHANGED OccupiedEntries /\ \A n : EntryDone(n)' = EntryDone(n)
  BY EntriesKept DEF EntryDone, Read
<1> QED
  BY <1>1 DEF StrictInv, StrictResult, Done

LEMMA StrictStep ==
    ASSUME File(file), PhaseInv, ObjectsInv, StrictInv, [Next]_vars
    PROVE  StrictInv'
<1>0. file' = file /\ permissive' = permissive
  BY FileKept
<1>1. CASE ReadSection
  <2>1. phase = "xref" /\ (Throw \/ phase' = phase)
    BY <1>1 DEF ReadSection
  <2> QED
    BY <1>0, <2>1, StrictThrow DEF StrictInv, StrictResult, Done
<1>2. CASE TableRead
  <2>1. CASE Throw
    BY <1>0, <2>1, StrictThrow
  <2>2. CASE phase' = "entries" /\ todo' = OccupiedEntries /\ UNCHANGED <<entries, busy>>
    <3>1. busy = {}
      BY <1>2 DEF TableRead, PhaseInv, TasksDone
    <3> QED
      BY <1>0, <2>2, <3>1, EntriesKept DEF StrictInv, StrictResult, Done
  <2> QED
    BY <1>2, <2>1, <2>2 DEF TableRead, table
<1>3. CASE Begin
  <2>1. phase \in {"entries", "streams"} /\ UNCHANGED <<phase, entries, objects, result>>
    BY <1>3 DEF Begin, table, outcome
  <2>2. PICK t \in todo : todo' = todo \ {t} /\ busy' = IF result = "OK" THEN busy \cup {t} ELSE busy
    BY <1>3 DEF Begin
  <2>3. CASE result = "OK" \/ phase = "streams"
    BY <1>0, <2>1, <2>2, <2>3, StrictKept DEF Done
  <2>4. CASE result # "OK" /\ phase = "entries"
    <3>1. result' = "Failed" /\ todo' \cup busy' \subseteq todo \cup busy
      BY <2>1, <2>2, <2>4 DEF PhaseInv, Done
    <3> QED
      BY <1>0, <2>1, <2>4, <3>1, EntriesKept DEF StrictInv, StrictResult, Done
  <2> QED
    BY <2>1, <2>3, <2>4
<1>4. CASE EntriesRead
  <2>1. phase = "entries" /\ TasksDone /\ UNCHANGED <<entries, objects, result>>
    BY <1>4 DEF EntriesRead, table
  <2>2. CASE result = "OK" /\ phase' = "security"
    <3>1. ~permissive => \A n \in OccupiedEntries : EntryDone(n)
      BY <2>1, <2>2 DEF StrictInv, TasksDone
    <3>2. OccupiedEntries' = OccupiedEntries /\ \A n : EntryDone(n)' = EntryDone(n)
      BY <1>0, <2>1, EntriesKept DEF EntryDone, Read
    <3> QED
      BY <1>0, <2>2, <3>1, <3>2 DEF StrictInv, StrictResult, Done
  <2>3. CASE result # "OK" /\ Return("empty")
    <3>1. result' = "Failed" /\ phase' = "returned" /\ returned' = "empty"
      BY <2>1, <2>3 DEF Return, PhaseInv, Done
    <3> QED
      BY <3>1 DEF StrictInv, StrictResult, Done
  <2> QED
    BY <1>4, <2>2, <2>3 DEF EntriesRead
<1>5. ASSUME NEW n \in busy, EndEntry(n) PROVE StrictInv'
  <2>1. phase = "entries" /\ UNCHANGED <<phase, entries, todo>> /\ busy' = busy \ {n}
    BY <1>5 DEF EndEntry, table
  <2>2. UNCHANGED OccupiedEntries /\ \A m : Readable(m)' = Readable(m)
    BY <1>0, <2>1, EntriesKept
  <2>3. ~permissive => EntryDone(n)' \/ result' = "Failed"
    <3>1. CASE Readable(n)
      <4>1. objects' = [objects EXCEPT ![n] = [generation |-> entries[n][2], object |-> entries[n][3]]]
        BY <1>5, <3>1 DEF EndEntry
      <4>2. n \in DOMAIN objects
        BY <2>1 DEF StrictInv, ObjectsInv, OccupiedEntries
      <4> QED
        BY <2>1, <2>2, <3>1, <4>1, <4>2 DEF EntryDone, Read
    <3>2. CASE ~Readable(n)
      BY <1>5, <3>2 DEF EndEntry, ResultWith
    <3> QED
      BY <3>1, <3>2
  <2>4. \A m : m # n => Read(m)' = Read(m)
    BY <1>5 DEF EndEntry, Read
  <2>5. \A m : m # n => EntryDone(m)' = EntryDone(m)
    BY <2>1, <2>2, <2>4 DEF EntryDone
  <2>6. result = "Failed" => result' = "Failed"
    BY <1>5 DEF EndEntry, ResultWith
  <2> QED
    BY <1>0, <2>1, <2>2, <2>3, <2>5, <2>6 DEF StrictInv, StrictResult, Done
<1>6. ASSUME NEW n \in busy, EndStream(n) PROVE StrictInv'
  <2>1. phase = "streams" /\ UNCHANGED <<phase, entries>>
    BY <1>6 DEF EndStream, table
  <2>2. UNCHANGED OccupiedEntries /\ \A m : Readable(m)' = Readable(m)
    BY <1>0, <2>1, EntriesKept
  <2>3. ASSUME NEW m \in OccupiedEntries PROVE Read(m)' = Read(m)
    <3>1. m \in DOMAIN objects /\ m \notin StreamEntries
      BY <2>1 DEF ObjectsInv, OccupiedEntries, StreamEntries
    <3> QED
      BY <1>6, <3>1 DEF EndStream, Read
  <2>4. \A m \in OccupiedEntries : EntryDone(m)' = EntryDone(m)
    BY <2>1, <2>2, <2>3 DEF EntryDone
  <2> QED
    BY <1>0, <2>1, <2>2, <2>4 DEF StrictInv, StrictResult, Done
<1>7. ASSUME NEW o \in busy, StoreRestored(o) PROVE StrictInv'
  BY <1>0, <1>7, StrictKept DEF StoreRestored, table, outcome, Done
<1>8. ASSUME NEW o \in todo, ParseRestored(o) PROVE StrictInv'
  BY <1>0, <1>8, StrictKept DEF ParseRestored, table, outcome, Done
<1>9. CASE processSecurityHandler
  <2>1. phase = "security" /\ UNCHANGED <<entries, objects>>
    BY <1>9 DEF processSecurityHandler, table
  <2>2. OccupiedEntries' = OccupiedEntries /\ \A n : Readable(n)' = Readable(n) /\ EntryDone(n)' = EntryDone(n)
    BY <1>0, <2>1, EntriesKept DEF EntryDone, Read
  <2>3. ~permissive => \A n \in OccupiedEntries : EntryDone(n)
    BY <2>1 DEF StrictInv
  <2>4. CASE Throw
    BY <1>0, <2>4, StrictThrow
  <2>5. CASE phase' = "streams"
    BY <1>0, <2>2, <2>3, <2>5 DEF StrictInv, StrictResult, Done
  <2>6. CASE result' = "Cancelled" /\ phase' = "returned"
    BY <1>0, <2>2, <2>3, <2>6 DEF StrictInv, StrictResult, Done, EntryDone
  <2> QED
    BY <1>9, <2>4, <2>5, <2>6, AuthenticationsType DEF processSecurityHandler, Return
<1>10. CASE MakeDocument
  <2>1. phase = "streams" /\ UNCHANGED <<entries, objects>>
    BY <1>10 DEF MakeDocument, table
  <2>2. OccupiedEntries' = OccupiedEntries /\ \A n : Readable(n)' = Readable(n) /\ Read(n)' = Read(n)
    BY <1>0, <2>1, EntriesKept DEF Read
  <2>3. ~permissive => \A n \in OccupiedEntries : Readable(n) /\ Read(n) = entries[n][3]
    BY <2>1 DEF StrictInv, EntryDone
  <2>4. CASE Throw
    BY <1>0, <2>4, StrictThrow
  <2>5. CASE Return("document")
    BY <1>0, <2>1, <2>2, <2>3, <2>5 DEF StrictInv, StrictResult, Done, Return
  <2> QED
    BY <1>10, <2>4, <2>5 DEF MakeDocument
<1>11. CASE StartRestore \/ RestoreDone \/ RestoredSecurity \/ MakeRestored
  <2>1. phase = "damaged" \/ phase \in Restoring
    BY <1>11 DEF StartRestore, RestoreDone, RestoredSecurity, MakeRestored, Restoring
  <2>2. permissive /\ phase' # "entries"
    BY <1>11, <2>1 DEF PhaseInv, StartRestore, RestoreDone, RestoredSecurity, MakeRestored, Return
  <2> QED
    BY <1>0, <2>2 DEF StrictInv, StrictResult
<1>12. CASE UNCHANGED vars
  <2>1. UNCHANGED <<file, permissive, entries, objects, phase, result, returned, todo, busy>>
    BY <1>12 DEF vars, inputs, table, tasks, outcome
  <2>2. UNCHANGED OccupiedEntries /\ \A n : EntryDone(n)' = EntryDone(n) /\ Readable(n)' = Readable(n) /\ Read(n)' = Read(n)
    BY <2>1, EntriesKept DEF EntryDone, Read
  <2> QED
    BY <2>1, <2>2 DEF StrictInv, StrictResult, Done
<1> QED
  BY <1>1, <1>2, <1>3, <1>4, <1>5, <1>6, <1>7, <1>8, <1>9, <1>10, <1>11, <1>12 DEF Next

\* Actions after which reading is not over need no look at the result.
LEMMA MatchesStep ==
    ASSUME File(file), PhaseInv, ResultMatches, [Next]_vars
    PROVE  ResultMatches'
<1> USE DEF ResultMatches, Done, WasRestored
<1>1. CASE phase' # "returned"
  BY <1>1
<1>2. ASSUME phase' = "returned", result' = "Failed", returned' = "empty" PROVE ResultMatches'
  BY <1>2
<1>3. CASE Throw
  BY <1>1, <1>2, <1>3 DEF Throw, Return
<1>4. CASE ReadSection \/ TableRead
  BY <1>1, <1>3, <1>4 DEF ReadSection, TableRead
<1>5. CASE Begin
  BY <1>1, <1>5 DEF Begin
<1>6. CASE EntriesRead
  <2>1. phase' = "security" \/ (result' = "Failed" /\ phase' = "returned" /\ returned' = "empty")
    BY <1>6 DEF EntriesRead, Return, PhaseInv
  <2> QED
    BY <1>1, <1>2, <2>1
<1>7. ASSUME NEW t \in busy, EndEntry(t) \/ EndStream(t) \/ StoreRestored(t) PROVE ResultMatches'
  BY <1>1, <1>7 DEF EndEntry, EndStream, StoreRestored
<1>8. ASSUME NEW o \in todo, ParseRestored(o) PROVE ResultMatches'
  BY <1>1, <1>8 DEF ParseRestored
<1>9. CASE processSecurityHandler
  <2>1. Throw \/ phase' = "streams" \/ (result' = "Cancelled" /\ Return("empty"))
    BY <1>9, AuthenticationsType DEF processSecurityHandler
  <2> QED
    BY <1>1, <1>3, <2>1 DEF Return
<1>10. CASE MakeDocument
  <2>1. CASE Return("document") /\ UNCHANGED result
    <3>1. round' = 0 /\ result' # "Cancelled"
      BY <1>10, <2>1 DEF MakeDocument, restoration, PhaseInv, Restoring
    <3> QED
      BY <2>1, <3>1 DEF Return
  <2> QED
    BY <1>3, <1>10, <2>1 DEF MakeDocument
<1>11. CASE StartRestore \/ RestoreDone
  BY <1>1, <1>11 DEF StartRestore, RestoreDone
<1>12. CASE RestoredSecurity
  <2>1. phase' = "restored document" \/ (result' # "OK" /\ Return("empty"))
    BY <1>12, AuthenticationsType DEF RestoredSecurity
  <2> QED
    BY <1>1, <2>1 DEF Return
<1>13. CASE MakeRestored
  <2>1. (Return("document") /\ result' = "OK") \/ (Return("empty") /\ result' = "Failed")
    BY <1>13 DEF MakeRestored, PhaseInv, Restoring
  <2> QED
    BY <2>1 DEF Return
<1>14. CASE UNCHANGED vars
  BY <1>14 DEF vars, outcome, restoration
<1> QED
  BY <1>4, <1>5, <1>6, <1>7, <1>8, <1>9, <1>10, <1>11, <1>12, <1>13, <1>14 DEF Next

-----------------------------------------------------------------------------
(* Restoring. *)

LEMMA DecryptedStep ==
    ASSUME File(file), PhaseInv, CountsInv, DecryptedInv, [Next]_vars
    PROVE  DecryptedInv'
<1>1. CASE processSecurityHandler
  <2>1. phase = "security" /\ asked = 0 /\ round = 0 /\ round' = round
    BY <1>1 DEF processSecurityHandler, restoration, CountsInv, PhaseInv, Done, Early, Restoring
  <2>2. ~decrypted
    BY <2>1 DEF DecryptedInv
  <2>3. CASE decrypted' = decrypted
    BY <2>2, <2>3 DEF DecryptedInv
  <2>4. CASE decrypted' # decrypted
    <3>1. phase' = "streams" /\ decrypted' = Encrypted /\ restorable' = ~Encrypted
      BY <1>1, <2>4, AuthenticationsType DEF processSecurityHandler, StillRestorable
    <3>2. PICK a \in Authentications : asked' = asked + a[1]
      BY <1>1 DEF processSecurityHandler
    <3>3. asked' <= 1
      <4>1. PICK x \in 0 .. 1 : asked' = 0 + x
        BY <2>1, <3>2, AuthenticationsType
      <4> QED
        BY <4>1
    <3> QED
      BY <2>1, <3>1, <3>3 DEF DecryptedInv
  <2> QED
    BY <2>3, <2>4
<1>2. CASE ~processSecurityHandler /\ ~UNCHANGED vars
  <2>1. decrypted' = decrypted
    BY <1>2 DEF Next, ReadSection, TableRead, Begin, EntriesRead, EndEntry, EndStream, security,
       StoreRestored, ParseRestored, MakeDocument, StartRestore, RestoreDone, RestoredSecurity, MakeRestored
  <2>2. SUFFICES ASSUME decrypted PROVE DecryptedInv'
    BY <2>1 DEF DecryptedInv
  <2>3. phase \in {"streams", "returned"} /\ ~restorable /\ round = 0 /\ asked <= 1
    BY <2>2 DEF DecryptedInv
  <2>4. Begin \/ MakeDocument \/ (\E t \in busy : EndStream(t))
    BY <1>2, <2>3 DEF Next, ReadSection, TableRead, EntriesRead, EndEntry,
       StoreRestored, ParseRestored, StartRestore, RestoreDone, RestoredSecurity, MakeRestored
  <2>5. UNCHANGED <<restorable, round, asked>> /\ phase' \in {phase, "returned"}
    BY <2>3, <2>4 DEF Begin, MakeDocument, EndStream, Throw, Restores, Return,
       security, restoration, outcome
  <2> QED
    BY <2>3, <2>5 DEF DecryptedInv
<1>3. CASE UNCHANGED vars
  BY <1>3 DEF vars, security, restoration, outcome, DecryptedInv
<1> QED
  BY <1>1, <1>2, <1>3

\* What is parsed is stored under its reference, unless another one is there.
LEMMA RestoredStep ==
    ASSUME File(file), PhaseInv, RestoredInv, [Next]_vars
    PROVE  RestoredInv'
<1>0. file' = file
  BY FileKept
<1>1. ASSUME NEW o \in busy, StoreRestored(o) PROVE RestoredInv'
  <2>1. /\ phase = "restore" /\ UNCHANGED <<phase, todo>> /\ busy' = busy \ {o}
        /\ restored' = Over(restored, [r \in {file.bodies[o].ref} |-> o])
    BY <1>1 DEF StoreRestored
  <2>2. o \in DOMAIN file.bodies /\ file.bodies[o].intact
    BY <2>1 DEF RestoredInv
  <2>3. /\ DOMAIN restored' = DOMAIN restored \cup {file.bodies[o].ref}
        /\ \A r \in DOMAIN restored' : restored'[r] = IF r \in DOMAIN restored THEN restored[r] ELSE o
    BY <2>1 DEF Over
  <2> QED
    BY <1>0, <2>1, <2>2, <2>3 DEF RestoredInv
<1>2. ASSUME NEW o \in todo, ParseRestored(o) PROVE RestoredInv'
  <2>1. phase = "restore" /\ UNCHANGED <<phase, restored>> /\ todo' = todo \ {o}
        /\ (busy' = busy \/ (busy' = busy \cup {o} /\ file.bodies[o].intact))
    BY <1>2 DEF ParseRestored, Restorable
  <2> QED
    BY <1>0, <2>1 DEF RestoredInv
<1>3. CASE StartRestore
  <2>1. busy' = {} /\ todo' = DOMAIN file.bodies /\ restored' = restored
    BY <1>3 DEF StartRestore, PhaseInv, TasksDone
  <2> QED
    BY <1>0, <2>1 DEF RestoredInv
<1>4. CASE RestoreDone
  <2>1. busy' = {} /\ restored' = restored /\ phase = "restore"
    BY <1>4 DEF RestoreDone, TasksDone
  <2>2. (phase' = phase /\ todo' = DOMAIN file.bodies) \/ phase' # "restore"
    BY <1>4 DEF RestoreDone
  <2> QED
    BY <1>0, <2>1, <2>2 DEF RestoredInv
<1>5. CASE restored' = restored /\ phase' # "restore"
  BY <1>0, <1>5 DEF RestoredInv
<1>6. ASSUME NEW t \in busy, EndEntry(t) \/ EndStream(t) PROVE RestoredInv'
  BY <1>5, <1>6 DEF EndEntry, EndStream, restoration
<1>7. CASE Begin
  BY <1>5, <1>7 DEF Begin, restoration
<1>8. CASE ReadSection \/ TableRead \/ EntriesRead \/ MakeDocument
  BY <1>5, <1>8 DEF ReadSection, TableRead, EntriesRead, MakeDocument, Throw, Return, restoration
<1>9. CASE processSecurityHandler
  <2>1. restored' = restored /\ phase' \in {"damaged", "returned", "streams"}
    BY <1>9, AuthenticationsType DEF processSecurityHandler, Throw, Return, restoration
  <2> QED
    BY <1>5, <2>1
<1>10. CASE RestoredSecurity \/ MakeRestored
  BY <1>5, <1>10 DEF RestoredSecurity, MakeRestored, Return, restoration
<1>11. CASE UNCHANGED vars
  BY <1>0, <1>11 DEF vars, tasks, restoration, RestoredInv
<1> QED
  BY <1>1, <1>2, <1>3, <1>4, <1>6, <1>7, <1>8, <1>9, <1>10, <1>11 DEF Next

\* An object whose length is a number is restored by a pass that begins when
\* all numbers are.
LEMMA CompleteRestorable ==
    ASSUME RestoredInv, NEW o \in DOMAIN file.bodies, Complete(o),
           \A q \in DOMAIN file.bodies : Direct(q) => InRestored(q)
    PROVE  Restorable(o)
<1> DEFINE length == file.bodies[o].length
<1>1. CASE length = <<>>
  BY <1>1 DEF Restorable, Complete
<1>2. CASE length # <<>>
  <2>1. PICK q \in DOMAIN file.bodies : file.bodies[q].intact /\ file.bodies[q].ref = length
    BY <1>2 DEF Complete, HasLength
  <2>2. \A p \in DOMAIN file.bodies : file.bodies[p].intact /\ file.bodies[p].ref = length => Plain(p)
    BY <1>2 DEF Complete, HasLength
  <2>3. Direct(q)
    BY <2>1, <2>2 DEF Direct, Plain
  <2>4. length \in DOMAIN restored
    BY <2>1, <2>3 DEF InRestored
  <2>5. Plain(restored[length])
    BY <2>2, <2>4 DEF RestoredInv
  <2> QED
    BY <2>4, <2>5 DEF Restorable, Complete
<1> QED
  BY <1>1, <1>2

LEMMA PassStep ==
    ASSUME File(file), PhaseInv, CountsInv, RestoredInv, PassInv, [Next]_vars
    PROVE  PassInv'
<1>0. file' = file
  BY FileKept
<1>1. \A o : Direct(o)' = Direct(o) /\ Complete(o)' = Complete(o)
  BY <1>0 DEF Direct, Complete, HasLength, Plain
<1>2. ASSUME NEW t \in todo, ParseRestored(t) PROVE PassInv'
  <2>1. phase = "restore" /\ UNCHANGED <<phase, restored, round>> /\ todo' = todo \ {t}
    BY <1>2 DEF ParseRestored
  <2>2. \A o : InRestored(o)' = InRestored(o)
    BY <1>0, <2>1 DEF InRestored
  <2>3. t \in DOMAIN file.bodies
    BY <2>1 DEF RestoredInv
  <2>4. CASE Restorable(t)
    <3>1. busy' = busy \cup {t} /\ succesfull' = succesfull
      BY <1>2, <2>4 DEF ParseRestored
    <3>2. Parsed' \subseteq Parsed
      BY <1>0, <2>1, <3>1 DEF Parsed
    <3> QED
      BY <1>0, <1>1, <2>1, <2>2, <3>1, <3>2 DEF PassInv, Done
  <2>5. CASE ~Restorable(t)
    <3>1. busy' = busy /\ succesfull' = FALSE
      BY <1>2, <2>5 DEF ParseRestored
    <3>2. Parsed' \subseteq Parsed \cup {t}
      BY <1>0, <2>1, <3>1 DEF Parsed
    <3>3. ~Direct(t)
      BY <2>5 DEF Direct, Restorable
    <3>4. round = 2 => ~Complete(t)
      BY <2>1, <2>3, <2>5, CompleteRestorable DEF PassInv
    <3> QED
      BY <1>0, <1>1, <2>1, <2>2, <3>1, <3>2, <3>3, <3>4 DEF PassInv, Done
  <2> QED
    BY <2>4, <2>5
<1>3. ASSUME NEW t \in busy, StoreRestored(t) PROVE PassInv'
  <2>1. phase = "restore" /\ UNCHANGED <<phase, todo, round, succesfull>> /\ busy' = busy \ {t}
        /\ DOMAIN restored' = DOMAIN restored \cup {file.bodies[t].ref}
    BY <1>3 DEF StoreRestored, Over
  <2>2. Parsed' \subseteq Parsed \cup {t}
    BY <1>0, <2>1 DEF Parsed
  <2>3. InRestored(t)' /\ \A o : InRestored(o) => InRestored(o)'
    BY <1>0, <2>1 DEF InRestored
  <2> QED
    BY <1>0, <1>1, <2>1, <2>2, <2>3 DEF PassInv, Done
<1>4. CASE StartRestore
  <2>1. phase' = "restore" /\ round' = 1 /\ todo' = DOMAIN file.bodies
    BY <1>4 DEF StartRestore
  <2>2. Parsed' = {}
    BY <1>0, <2>1 DEF Parsed
  <2>3. round' # 2
    BY <2>1
  <2> QED
    BY <2>1, <2>2, <2>3 DEF PassInv, Done
<1>5. CASE RestoreDone
  <2>1. phase = "restore" /\ todo = {} /\ busy = {} /\ UNCHANGED <<restored, busy>>
    BY <1>5 DEF RestoreDone, TasksDone
  <2>2. Parsed = DOMAIN file.bodies
    BY <2>1 DEF Parsed
  <2>3. \A o : InRestored(o)' = InRestored(o)
    BY <1>0, <2>1 DEF InRestored
  <2>4. CASE SecondPass
    <3>1. phase' = "restore" /\ todo' = DOMAIN file.bodies /\ succesfull'
      BY <1>5, <2>1, <2>4 DEF RestoreDone
    <3>2. Parsed' = {}
      BY <1>0, <3>1 DEF Parsed
    <3> QED
      BY <1>0, <1>1, <2>1, <2>2, <2>3, <3>1, <3>2 DEF PassInv, Done
  <2>5. CASE ~SecondPass
    <3>1. phase' = "restored security"
      BY <1>5, <2>5 DEF RestoreDone
    <3>2. succesfull \/ round = 2
      <4>1. round # 0
        BY <2>1 DEF PhaseInv, Done, Restoring
      <4>2. round \in 0 .. 2
        BY DEF CountsInv
      <4> QED
        BY <2>5, <4>1, <4>2 DEF SecondPass
    <3>3. \A o \in DOMAIN file.bodies : Complete(o) => InRestored(o)
      BY <2>1, <2>2, <3>2 DEF PassInv
    <3> QED
      BY <1>0, <1>1, <2>3, <3>1, <3>3 DEF PassInv, Done
  <2> QED
    BY <2>4, <2>5
<1>6. CASE RestoredSecurity \/ MakeRestored
  <2>1. phase \in {"restored security", "restored document"} /\ UNCHANGED restored
        /\ phase' \in {"restored document", "returned"}
    BY <1>6 DEF RestoredSecurity, MakeRestored, Return, restoration
  <2>2. \A o : InRestored(o)' = InRestored(o)
    BY <1>0, <2>1 DEF InRestored
  <2>3. \A o \in DOMAIN file.bodies : Complete(o) => InRestored(o)
    BY <2>1 DEF PassInv
  <2> QED
    BY <1>0, <1>1, <2>1, <2>2, <2>3 DEF PassInv
<1>7. CASE phase' \notin Restoring /\ round' = 0
  <2>1. ~WasRestored'
    BY <1>7 DEF WasRestored
  <2> QED
    BY <1>7, <2>1 DEF PassInv, Restoring
<1>8. ASSUME phase \in Phases \ (Restoring \cup {"returned"}), UNCHANGED restoration, phase' \notin Restoring
      PROVE  PassInv'
  BY <1>7, <1>8 DEF PhaseInv, Done, restoration
<1>9. CASE ReadSection \/ TableRead \/ EntriesRead \/ MakeDocument \/ processSecurityHandler
  <2>1. phase' \in {"xref", "damaged", "returned", "entries", "security", "streams"}
    BY <1>9, AuthenticationsType
       DEF ReadSection, TableRead, EntriesRead, MakeDocument, processSecurityHandler, Throw, Return
  <2> QED
    BY <1>8, <1>9, <2>1
       DEF ReadSection, TableRead, EntriesRead, MakeDocument, processSecurityHandler, Restoring, Phases
<1>10. CASE Begin \/ (\E t \in busy : EndEntry(t) \/ EndStream(t))
  BY <1>8, <1>10 DEF Begin, EndEntry, EndStream, Restoring, Phases
<1>11. CASE UNCHANGED vars
  <2>1. UNCHANGED <<phase, todo, busy, restored, succesfull, round>>
    BY <1>11 DEF vars, tasks, restoration
  <2>2. Parsed' = Parsed /\ \A o : InRestored(o)' = InRestored(o)
    BY <1>0, <2>1 DEF Parsed, InRestored
  <2> QED
    BY <1>0, <1>1, <2>1, <2>2 DEF PassInv, Done, WasRestored
<1> QED
  BY <1>2, <1>3, <1>4, <1>5, <1>6, <1>9, <1>10, <1>11 DEF Next

-----------------------------------------------------------------------------
(* The theorems. *)

LEMMA ReaderInit == Init => RestoreInv
<1> SUFFICES ASSUME Init PROVE RestoreInv
  OBVIOUS
<1>1. File(file)
  BY DEF Init
<1>2. PhaseInv
  BY PhaseInit
<1>3. CountsInv
  BY DEF Init, CountsInv, Early
<1>4. TableInv
  BY DEF Init, TableInv
<1>5. DOMAIN objects = {} /\ DOMAIN restored = {}
  BY DEF Init
<1>6. ObjectsInv
  BY <1>5 DEF Init, ObjectsInv
<1>7. StrictInv /\ ResultMatches /\ DecryptedInv
  BY DEF Init, StrictInv, StrictResult, ResultMatches, DecryptedInv, Done
<1>8. RestoredInv
  BY <1>5 DEF Init, RestoredInv
<1>9. PassInv
  BY DEF Init, PassInv, Done
<1> QED
  BY <1>1, <1>2, <1>3, <1>4, <1>6, <1>7, <1>8, <1>9 DEF RestoreInv, ResultInv

LEMMA ReaderStep == RestoreInv /\ [Next]_vars => RestoreInv'
<1> SUFFICES ASSUME RestoreInv, [Next]_vars PROVE RestoreInv'
  OBVIOUS
<1>1. File(file) /\ PhaseInv /\ CountsInv /\ TableInv /\ ObjectsInv /\ StrictInv /\ ResultMatches
      /\ DecryptedInv /\ RestoredInv /\ PassInv
  BY DEF RestoreInv, ResultInv
<1>2. File(file)' /\ PhaseInv' /\ CountsInv' /\ TableInv' /\ ObjectsInv' /\ StrictInv' /\ ResultMatches'
  BY <1>1, FileKept, PhaseStep, CountsStep, TableStep, ObjectsStep, StrictStep, MatchesStep
<1>3. DecryptedInv' /\ RestoredInv' /\ PassInv'
  BY <1>1, DecryptedStep, RestoredStep, PassStep
<1> QED
  BY <1>2, <1>3 DEF RestoreInv, ResultInv

LEMMA ReaderInv == Spec => []RestoreInv
BY ReaderInit, ReaderStep, PTL DEF Spec

\* Whatever the file and the order of the tasks, the result says what was
\* read: strictly read documents are whole, a damaged entry makes them fail,
\* and a document that is OK is one that was returned.
THEOREM ResultIsSound == Spec => []ResultSound
<1>1. RestoreInv => ResultSound
  <2> SUFFICES ASSUME RestoreInv PROVE ResultSound
    OBVIOUS
  <2>1. PhaseInv /\ CountsInv /\ TableInv /\ ObjectsInv /\ StrictInv /\ ResultMatches
    BY DEF RestoreInv, ResultInv
  <2>2. \A n \in DOMAIN objects : Read(n) \in DOMAIN file.bodies \cup {None}
    BY <2>1 DEF ObjectsInv, Read
  <2>3. phase \in Phases /\ result \in {"OK", "Failed", "Cancelled"}
        /\ returned \in {"none", "empty", "document"} /\ (Done <=> returned # "none")
    BY <2>1 DEF PhaseInv
  <2>4. TypeOK
    BY <2>1, <2>2, <2>3 DEF TypeOK, TableInv, CountsInv
  <2> QED
    BY <2>1, <2>4 DEF ResultSound, StrictInv
<1> QED
  BY <1>1, ReaderInv, PTL

\* Whatever the file: nobody who has authenticated is asked again by the
\* second attempt, and two passes restore every intact object, in whatever
\* order the objects are found.
THEOREM RestoresSoundly == Spec => []RestoredSoundly
<1>1. RestoreInv => RestoredSoundly
  <2> SUFFICES ASSUME RestoreInv PROVE RestoredSoundly
    OBVIOUS
  <2>1. DecryptedInv /\ PassInv /\ CountsInv
    BY DEF RestoreInv, ResultInv
  <2>2. round = 0 => ~WasRestored
    BY DEF WasRestored
  <2>3. NotRestoredOnceDecrypted
    BY <2>1, <2>2 DEF NotRestoredOnceDecrypted, DecryptedInv
  <2>4. IntactRestored
    BY <2>1 DEF IntactRestored, PassInv, Complete, InRestored
  <2> QED
    BY <2>3, <2>4 DEF RestoredSoundly
<1> QED
  BY <1>1, ReaderInv, PTL

-----------------------------------------------------------------------------
(* The newest version.  Updates follows the tables from the newest update  *)
(* on; readXRefTable has the same in its stack, whatever was read before.  *)

\* The recursive function Updates is what its definition says.
LEMMA UpdatesDef ==
    ASSUME NEW f
    PROVE  Updates(f) = [k \in Nat |-> [o \in DOMAIN f.sections |->
               IF k = 0 \/ f.sections[o].prev \notin DOMAIN f.sections THEN Update(f, o)
               ELSE Over(Update(f, o), Updates(f)[k - 1][f.sections[o].prev])]]
<1> DEFINE D == DOMAIN f.sections
           Older(o) == f.sections[o].prev
           U(o) == Update(f, o)
           names == UNION {DOMAIN U(o) : o \in D}
           values == UNION {{U(o)[n] : n \in DOMAIN U(o)} : o \in D}
           Maps == UNION {[X -> values] : X \in SUBSET names}
           V == [D -> Maps]
           a == [o \in D |-> U(o)]
           H == [k \in Nat |-> [u \in V |-> [o \in D |->
                    IF Older(o) \notin D THEN U(o) ELSE Over(U(o), u[Older(o)])]]]
           Fits(u) == u = [k \in Nat |-> [o \in D |->
                          IF k = 0 \/ Older(o) \notin D THEN U(o) ELSE Over(U(o), u[k - 1][Older(o)])]]
<1>1. \A o \in D : U(o) \in Maps
  <2> SUFFICES ASSUME NEW o \in D PROVE U(o) \in Maps
    OBVIOUS
  <2>1. U(o) = [n \in DOMAIN U(o) |-> U(o)[n]]
    BY DEF Update
  <2>2. U(o) \in [DOMAIN U(o) -> values]
    <3>1. \A n \in DOMAIN U(o) : U(o)[n] \in values
      OBVIOUS
    <3> HIDE DEF values, U
    <3> QED BY <2>1, <3>1
  <2>3. DOMAIN U(o) \in SUBSET names
    OBVIOUS
  <2> HIDE DEF names, values, U
  <2> QED BY <2>2, <2>3
<1>2. ASSUME NEW g \in Maps, NEW h \in Maps PROVE Over(g, h) \in Maps
  <2>1. PICK X \in SUBSET names : g \in [X -> values]
    OBVIOUS
  <2>2. PICK Y \in SUBSET names : h \in [Y -> values]
    OBVIOUS
  <2> HIDE DEF names, values
  <2>3. Over(g, h) \in [X \cup Y -> values]
    BY <2>1, <2>2 DEF Over
  <2>4. X \cup Y \in SUBSET names
    OBVIOUS
  <2> QED BY <2>3, <2>4
<1> HIDE DEF Maps, U
<1>3. a \in V
  BY <1>1
<1>4. H \in [Nat -> [V -> V]]
  BY <1>1, <1>2
<1>5. PICK g \in [Nat -> V] : Computes(g, a, H)
  <2> HIDE DEF V, a, H
  <2> QED BY <1>3, <1>4, Recursion
<1>6. g[0] = a /\ \A n \in Nat : g[n + 1] = H[n][g[n]]
  BY <1>5 DEF Computes
<1>7. ASSUME NEW k \in Nat
      PROVE  g[k] = [o \in D |-> IF k = 0 \/ Older(o) \notin D THEN U(o) ELSE Over(U(o), g[k - 1][Older(o)])]
  <2>1. CASE k = 0
    BY <1>6, <2>1
  <2>2. CASE k # 0
    <3>1. k - 1 \in Nat /\ (k - 1) + 1 = k
      BY <2>2
    <3>2. g[k] = H[k - 1][g[k - 1]]
      BY <1>6, <3>1
    <3>3. k - 1 \in Nat /\ g[k - 1] \in V
      BY <3>1
    <3> QED
      BY <2>2, <3>2, <3>3
  <2> QED
    BY <2>1, <2>2
<1>8. Fits(g)
  BY <1>6, <1>7
<1>9. Updates(f) = CHOOSE u : Fits(u)
  BY DEF Updates, U
<1>10. Fits(Updates(f))
  <2> HIDE DEF Fits
  <2> QED BY <1>8, <1>9
<1> QED
  BY <1>10 DEF U

\* What is said of a number, and what the tables read say of it already.
Sections == DOMAIN file.sections
Says(k, o) == Updates(file)[k][o]
Fine(n) == n \in DOMAIN entries /\ (Newest[n] = Free \/ entries[n] = Newest[n])

\* It is hidden by the table read before, in the stream that is read next.
Hidden(n, next) ==
    /\ next \in Sections \ processed /\ n \in DOMAIN file.sections[next].entries
    /\ n \in DOMAIN entries => entries[n] = Free
    /\ Newest[n] = file.sections[next].entries[n]

\* No table read knows it, but the older updates do.
Promised(n, chain, next) ==
    /\ chain \in Sections /\ n \notin DOMAIN entries
    /\ \E k \in Nat : n \in DOMAIN Says(k, chain) /\ Says(k, chain)[n] = Newest[n]
    /\ next \in Sections => n \notin DOMAIN file.sections[next].entries

\* What is to be read: the update before, and the stream of the one just read.
Pending(chain, next) ==
    /\ workSet = Pushed(chain) \o Pushed(next)
    /\ next \in Sections => file.sections[next].prev = None /\ file.sections[next].stm = None
    /\ \A o \in processed :
          /\ o \in Sections /\ DOMAIN file.sections[o].entries \subseteq DOMAIN entries
          /\ \A p \in {file.sections[o].prev, file.sections[o].stm} :
                p \in Sections => p \in processed \cup {chain, next}
    /\ \A n \in DOMAIN Newest : Fine(n) \/ Hidden(n, next) \/ Promised(n, chain, next)

AllFine == \A n \in DOMAIN Newest : Fine(n)
FirstAttempt ==
    phase \in {"entries", "security", "streams"} \/ (Done /\ returned = "document" /\ ~WasRestored)

NewestInv ==
    /\ phase = "xref" => IF file.start \in Sections THEN \E chain, next : Pending(chain, next)
                         ELSE workSet = <<file.start>> /\ processed = {}
    /\ FirstAttempt => AllFine

\* With no stream to read the older update is all there is on the stack.
LEMMA ChainOnTop ==
    ASSUME NEW chain, chain # None, workSet = Pushed(chain) \o Pushed(None)
    PROVE  workSet[Len(workSet)] = chain /\ Rest = <<>>
<1>1. workSet = <<chain>>
  BY DEF Pushed
<1>2. Len(workSet) = 1 /\ workSet[1] = chain
  BY <1>1
<1>3. Rest = <<>>
  BY <1>1 DEF Rest
<1> QED
  BY <1>2, <1>3

\* The stack: a stream is read before older updates.
LEMMA WorkTop ==
    ASSUME NEW chain, NEW next, workSet = Pushed(chain) \o Pushed(next)
    PROVE  /\ next # None => /\ workSet # <<>> /\ workSet[Len(workSet)] = next
                             /\ Rest = Pushed(chain)
           /\ next = None /\ chain # None => /\ workSet # <<>> /\ workSet[Len(workSet)] = chain
                                             /\ Rest = <<>>
           /\ next = None /\ chain = None => workSet = <<>>
<1>1. CASE next # None /\ chain # None
  <2>1. workSet = <<chain>> \o <<next>>
    BY <1>1 DEF Pushed
  <2>2. <<chain>> \in Seq({chain, next}) /\ <<next>> \in Seq({chain, next})
    OBVIOUS
  <2>3. Len(workSet) = 2 /\ workSet[2] = next
    BY <2>1, <2>2, ConcatProperties
  <2>4. Rest = <<chain>>
    <3>1. Len(<<chain>>) = 1 /\ 1 \in 1 .. Len(<<chain>>)
      OBVIOUS
    <3>2. SubSeq(<<chain>> \o <<next>>, 1, 1) = SubSeq(<<chain>>, 1, 1)
      BY <2>2, <3>1, SubSeqOfConcat1
    <3>3. SubSeq(<<chain>>, 1, 1) = <<chain>>
      BY <2>2, <3>1, SubSeqFull
    <3>4. Rest = SubSeq(<<chain>> \o <<next>>, 1, 1)
      BY <2>1, <2>3 DEF Rest
    <3> QED
      BY <3>2, <3>3, <3>4
  <2>5. workSet # <<>>
    BY <2>3
  <2> QED
    BY <1>1, <2>3, <2>4, <2>5 DEF Pushed
<1>2. CASE next # None /\ chain = None
  <2>1. workSet = <<next>>
    BY <1>2 DEF Pushed
  <2> QED
    BY <1>2, <2>1 DEF Rest, Pushed
<1>3. CASE next = None /\ chain # None
  <2>1. workSet = <<chain>>
    BY <1>3 DEF Pushed
  <2> QED
    BY <1>3, <2>1 DEF Rest, Pushed
<1>4. CASE next = None /\ chain = None
  BY <1>4 DEF Pushed
<1> QED
  BY <1>1, <1>2, <1>3, <1>4

\* What an update says, and what the older ones say that it does not.
LEMMA SaysDef ==
    ASSUME NEW k \in Nat, NEW o \in Sections
    PROVE  LET prev == file.sections[o].prev
           IN  Says(k, o) = IF k = 0 \/ prev \notin Sections THEN Update(file, o)
                            ELSE Over(Update(file, o), Says(k - 1, prev))
<1> DEFINE F == [i \in Nat |-> [p \in DOMAIN file.sections |->
               IF i = 0 \/ file.sections[p].prev \notin DOMAIN file.sections THEN Update(file, p)
               ELSE Over(Update(file, p), Updates(file)[i - 1][file.sections[p].prev])]]
<1>1. Updates(file) = F
  BY UpdatesDef
<1>2. Says(k, o) = F[k][o]
  BY <1>1 DEF Says
<1> QED
  BY <1>2 DEF Says, Sections

\* If tables refer only to tables that have been read, the older updates have
\* nothing new, however far they are followed.
LEMMA NothingNew ==
    ASSUME \A o \in processed :
              /\ o \in Sections /\ DOMAIN file.sections[o].entries \subseteq DOMAIN entries
              /\ \A p \in {file.sections[o].prev, file.sections[o].stm} : p \in Sections => p \in processed,
           NEW k \in Nat, NEW c \in processed
    PROVE  DOMAIN Says(k, c) \subseteq DOMAIN entries
<1> DEFINE S == {i \in Nat : \A o \in processed : DOMAIN Says(i, o) \subseteq DOMAIN entries}
<1>1. ASSUME NEW o \in processed PROVE DOMAIN Update(file, o) \subseteq DOMAIN entries
  <2> DEFINE stm == file.sections[o].stm
  <2>1. DOMAIN Update(file, o) = DOMAIN file.sections[o].entries
            \cup IF stm \in Sections THEN DOMAIN file.sections[stm].entries ELSE {}
    BY DEF Update, Sections
  <2>2. stm \in Sections => DOMAIN file.sections[stm].entries \subseteq DOMAIN entries
    OBVIOUS
  <2> QED
    BY <2>1, <2>2
<1>2. 0 \in S
  <2>1. ASSUME NEW o \in processed PROVE DOMAIN Says(0, o) \subseteq DOMAIN entries
    <3>1. Says(0, o) = Update(file, o)
      BY SaysDef
    <3> QED
      BY <1>1, <3>1
  <2> QED
    BY <2>1
<1>3. ASSUME NEW i \in Nat, i \in S PROVE i + 1 \in S
  <2>1. ASSUME NEW o \in processed PROVE DOMAIN Says(i + 1, o) \subseteq DOMAIN entries
    <3> DEFINE prev == file.sections[o].prev
    <3>1. i + 1 \in Nat /\ i + 1 # 0 /\ (i + 1) - 1 = i
      OBVIOUS
    <3>2. o \in Sections
      OBVIOUS
    <3>3. CASE prev \notin Sections
      <4>1. Says(i + 1, o) = Update(file, o)
        BY <3>1, <3>2, <3>3, SaysDef
      <4> QED
        BY <1>1, <4>1
    <3>4. CASE prev \in Sections
      <4>1. Says(i + 1, o) = Over(Update(file, o), Says(i, prev))
        BY <3>1, <3>2, <3>4, SaysDef
      <4>2. prev \in processed
        BY <3>4
      <4>3. DOMAIN Says(i, prev) \subseteq DOMAIN entries
        BY <1>3, <4>2
      <4>4. DOMAIN Update(file, o) \subseteq DOMAIN entries
        BY <1>1
      <4> QED
        BY <4>1, <4>3, <4>4 DEF Over
    <3> QED
      BY <3>3, <3>4
  <2> QED
    BY <2>1
<1> HIDE DEF S
<1>4. S = Nat
  <2>1. S \subseteq Nat
    BY DEF S
  <2> QED
    BY <1>2, <1>3, <2>1, SetInduction
<1> QED
  BY <1>4 DEF S

\* What is said of a number depends on the file alone.
LEMMA SameFile ==
    ASSUME file' = file
    PROVE  /\ Newest' = Newest /\ Sections' = Sections
           /\ \A k, o : Says(k, o)' = Says(k, o)
BY DEF Newest, Sections, Says

\* What an entry says that is not free is never replaced.
LEMMA FineKept ==
    ASSUME NEW s, NEW n, Fine(n), file' = file, entries' = Merged(s)
    PROVE  Fine(n)'
<1>1. n \in DOMAIN entries' /\ (entries[n] # Free => entries'[n] = entries[n])
  BY DEF Fine, Merged
<1>2. Newest' = Newest
  BY SameFile
<1> QED
  BY <1>1, <1>2 DEF Fine

\* The stream of a hybrid table is read: it has what it hides.
LEMMA StreamRead ==
    ASSUME Tables(file), NEW chain, NEW next \in Sections, Pending(chain, next), next \notin processed,
           file' = file, processed' = processed \cup {next},
           workSet' = Pushed(chain) \o Related(file.sections[next]),
           entries' = Merged(file.sections[next])
    PROVE  Pending(chain, None)'
<1> DEFINE s == file.sections[next]
<1>1. Newest' = Newest /\ Sections' = Sections /\ \A k, o : Says(k, o)' = Says(k, o)
  BY SameFile
<1>2. None \notin Sections
  BY DEF Tables, Sections
<1>3. workSet' = Pushed(chain) \o Pushed(None)
  BY DEF Pending, Related, Pushed
<1>4. DOMAIN entries' = DOMAIN s.entries \cup DOMAIN entries
  BY DEF Merged
<1>5. ASSUME NEW o \in processed'
      PROVE  /\ o \in Sections /\ DOMAIN file.sections[o].entries \subseteq DOMAIN entries'
             /\ \A p \in {file.sections[o].prev, file.sections[o].stm} :
                   p \in Sections => p \in processed' \cup {chain, None}
  <2>1. CASE o = next
    BY <1>2, <1>4, <2>1 DEF Pending
  <2>2. CASE o # next
    BY <1>4, <2>2 DEF Pending
  <2> QED
    BY <2>1, <2>2
<1>6. ASSUME NEW n \in DOMAIN Newest PROVE Fine(n)' \/ Promised(n, chain, None)'
  <2>1. CASE Fine(n)
    BY <2>1, FineKept
  <2>2. CASE Hidden(n, next)
    <3>1. n \in DOMAIN entries' /\ entries'[n] = s.entries[n]
      BY <2>2 DEF Hidden, Merged
    <3> QED
      BY <1>1, <2>2, <3>1 DEF Fine, Hidden
  <2>3. CASE Promised(n, chain, next)
    <3>1. n \notin DOMAIN entries'
      BY <1>4, <2>3 DEF Promised
    <3> QED
      BY <1>1, <1>2, <2>3, <3>1 DEF Promised
  <2> QED
    BY <2>1, <2>2, <2>3 DEF Pending
<1> QED
  BY <1>1, <1>2, <1>3, <1>5, <1>6 DEF Pending

\* A table is read: its stream is next, and then what is older.
LEMMA ChainRead ==
    ASSUME Tables(file), NEW chain \in Sections, Pending(chain, None), chain \notin processed,
           file' = file, processed' = processed \cup {chain},
           workSet' = <<>> \o Related(file.sections[chain]),
           entries' = Merged(file.sections[chain])
    PROVE  Pending(file.sections[chain].prev, file.sections[chain].stm)'
<1> DEFINE s == file.sections[chain]
           prev == s.prev
           stm == s.stm
<1>1. Newest' = Newest /\ Sections' = Sections /\ \A k, o : Says(k, o)' = Says(k, o)
  BY SameFile
<1>2. None \notin Sections
  BY DEF Tables, Sections
<1>3. workSet' = Pushed(prev) \o Pushed(stm)
  BY DEF Related, Pushed
<1>4. DOMAIN entries' = DOMAIN s.entries \cup DOMAIN entries
  BY DEF Merged
<1>5. stm \in Sections => file.sections[stm].prev = None /\ file.sections[stm].stm = None
  BY DEF Tables, Sections
<1>6. ASSUME NEW o \in processed'
      PROVE  /\ o \in Sections /\ DOMAIN file.sections[o].entries \subseteq DOMAIN entries'
             /\ \A p \in {file.sections[o].prev, file.sections[o].stm} :
                   p \in Sections => p \in processed' \cup {prev, stm}
  <2>1. CASE o = chain
    BY <1>4, <2>1
  <2>2. CASE o # chain
    BY <1>2, <1>4, <2>2 DEF Pending
  <2> QED
    BY <2>1, <2>2
<1>7. ASSUME NEW n \in DOMAIN Newest PROVE Fine(n)' \/ Hidden(n, stm)' \/ Promised(n, prev, stm)'
  <2>1. CASE Fine(n)
    BY <2>1, FineKept
  <2>2. ~Hidden(n, None)
    BY <1>2 DEF Hidden
  <2>3. CASE Promised(n, chain, None)
    <3> DEFINE U == Update(file, chain)
               shown == s.entries
               hidden == IF stm \in Sections THEN file.sections[stm].entries ELSE <<>>
    <3>1. PICK k \in Nat : n \in DOMAIN Says(k, chain) /\ Says(k, chain)[n] = Newest[n]
      BY <2>3 DEF Promised
    <3>2. n \notin DOMAIN entries
      BY <2>3 DEF Promised
    <3>3. Says(k, chain) = IF k = 0 \/ prev \notin Sections THEN U ELSE Over(U, Says(k - 1, prev))
      BY SaysDef
    <3>4. U = [m \in DOMAIN shown \cup DOMAIN hidden |->
                 IF m \in DOMAIN hidden /\ (m \in DOMAIN shown => shown[m] = Free) THEN hidden[m] ELSE shown[m]]
      BY DEF Update, Sections
    <3>5. n \in DOMAIN shown => entries'[n] = shown[n]
      BY <3>2 DEF Merged
    <3>6. CASE n \in DOMAIN U
      <4>1. Newest[n] = U[n]
        BY <3>1, <3>3, <3>6 DEF Over
      <4>2. CASE n \in DOMAIN hidden /\ (n \in DOMAIN shown => shown[n] = Free)
        <5>1. stm \in Sections
          BY <4>2
        <5>2. stm \notin processed
          BY <3>2, <4>2, <5>1 DEF Pending
        <5>3. stm # chain
          BY <1>2, <1>5, <5>1
        <5>4. n \in DOMAIN entries' => entries'[n] = Free
          BY <1>4, <3>2, <3>5, <4>2
        <5>5. Newest[n] = file.sections[stm].entries[n]
          BY <3>4, <3>6, <4>1, <4>2, <5>1
        <5>6. Hidden(n, stm)'
          BY <1>1, <4>2, <5>1, <5>2, <5>3, <5>4, <5>5 DEF Hidden
        <5> QED
          BY <5>6
      <4>3. CASE ~(n \in DOMAIN hidden /\ (n \in DOMAIN shown => shown[n] = Free))
        <5>1. n \in DOMAIN shown /\ U[n] = shown[n]
          BY <3>4, <3>6, <4>3
        <5> QED
          BY <1>1, <1>4, <3>5, <4>1, <5>1 DEF Fine
      <4> QED
        BY <4>2, <4>3
    <3>7. CASE n \notin DOMAIN U
      <4>1. k # 0 /\ prev \in Sections /\ Says(k, chain) = Over(U, Says(k - 1, prev))
        BY <3>1, <3>3, <3>7
      <4>2. k - 1 \in Nat
        BY <4>1
      <4>3. n \in DOMAIN Says(k - 1, prev) /\ Says(k - 1, prev)[n] = Newest[n]
        BY <3>1, <3>7, <4>1 DEF Over
      <4>4. n \notin DOMAIN shown /\ n \notin DOMAIN hidden
        BY <3>4, <3>7
      <4>5. n \notin DOMAIN entries'
        BY <1>4, <3>2, <4>4
      <4>6. stm \in Sections => n \notin DOMAIN file.sections[stm].entries
        BY <4>4
      <4> HIDE DEF U, shown, hidden
      <4>7. Promised(n, prev, stm)'
        BY <1>1, <4>1, <4>2, <4>3, <4>5, <4>6 DEF Promised
      <4> QED
        BY <4>7
    <3> QED
      BY <3>6, <3>7
  <2> QED
    BY <2>1, <2>2, <2>3 DEF Pending
<1> QED
  BY <1>1, <1>3, <1>5, <1>6, <1>7 DEF Pending

\* An offset that was read is on the stack again.
LEMMA KnownStream ==
    ASSUME Tables(file), NEW chain, NEW next \in processed, Pending(chain, next),
           workSet' = Pushed(chain), UNCHANGED <<file, processed, entries>>
    PROVE  Pending(chain, None)'
<1>1. Newest' = Newest /\ Sections' = Sections /\ \A k, o : Says(k, o)' = Says(k, o)
  BY SameFile
<1>2. None \notin Sections
  BY DEF Tables, Sections
<1>3. workSet' = Pushed(chain) \o Pushed(None)
  BY DEF Pushed
<1>4. ASSUME NEW n \in DOMAIN Newest PROVE Fine(n)' \/ Promised(n, chain, None)'
  <2>1. Fine(n) \/ Promised(n, chain, next)
    BY DEF Pending, Hidden
  <2>2. Fine(n) => Fine(n)'
    BY <1>1 DEF Fine
  <2>3. Promised(n, chain, next) => Promised(n, chain, None)'
    BY <1>1, <1>2 DEF Promised
  <2> QED
    BY <2>1, <2>2, <2>3
<1>5. \A o \in processed :
        /\ o \in Sections /\ DOMAIN file.sections[o].entries \subseteq DOMAIN entries
        /\ \A p \in {file.sections[o].prev, file.sections[o].stm} :
              p \in Sections => p \in processed \cup {chain, None}
  BY DEF Pending
<1> QED
  BY <1>1, <1>2, <1>3, <1>4, <1>5 DEF Pending

LEMMA KnownChain ==
    ASSUME Tables(file), NEW chain \in processed, Pending(chain, None),
           workSet' = <<>>, UNCHANGED <<file, processed, entries>>
    PROVE  Pending(None, None)'
<1>1. Newest' = Newest /\ Sections' = Sections
  BY SameFile
<1>2. None \notin Sections
  BY DEF Tables, Sections
<1>3. workSet' = Pushed(None) \o Pushed(None)
  BY DEF Pushed
<1>4. \A o \in processed :
        /\ o \in Sections /\ DOMAIN file.sections[o].entries \subseteq DOMAIN entries
        /\ \A p \in {file.sections[o].prev, file.sections[o].stm} : p \in Sections => p \in processed
  BY <1>2 DEF Pending
<1>5. ASSUME NEW n \in DOMAIN Newest PROVE Fine(n)'
  <2>1. ~Promised(n, chain, None)
    BY <1>4, NothingNew DEF Promised
  <2>2. Fine(n)
    BY <1>2, <2>1 DEF Pending, Hidden
  <2> QED
    BY <1>1, <2>2 DEF Fine
<1> QED
  BY <1>1, <1>2, <1>3, <1>4, <1>5 DEF Pending

LEMMA NewestInit == Init => Tables(file) /\ NewestInv
<1> SUFFICES ASSUME Init PROVE Tables(file) /\ NewestInv
  OBVIOUS
<1>1. Tables(file)
  BY TablesAssumption DEF Init
<1>2. phase = "xref" /\ workSet = <<file.start>> /\ processed = {} /\ entries = <<>> /\ returned = "none"
  BY DEF Init
<1>3. ~FirstAttempt
  BY <1>2 DEF FirstAttempt, Done
<1>4. CASE file.start \in Sections
  <2> DEFINE k == Cardinality(Sections)
  <2>1. k \in Nat
    BY <1>1, FS_CardinalityType DEF Tables, Sections
  <2>2. Newest = Says(k, file.start)
    BY DEF Newest, NewestOf, Says, Sections
  <2>3. None \notin Sections
    BY <1>1 DEF Tables, Sections
  <2>4. file.start # None
    BY <1>4, <2>3
  <2>5. workSet = Pushed(file.start) \o Pushed(None)
    BY <1>2, <2>4 DEF Pushed
  <2> HIDE DEF k
  <2>6. \A n \in DOMAIN Newest : Promised(n, file.start, None)
    BY <1>2, <1>4, <2>1, <2>2, <2>3 DEF Promised
  <2>7. Pending(file.start, None)
    BY <1>2, <2>3, <2>5, <2>6 DEF Pending
  <2> QED
    BY <1>1, <1>3, <1>4, <2>7 DEF NewestInv
<1>5. CASE file.start \notin Sections
  BY <1>1, <1>2, <1>3, <1>5 DEF NewestInv
<1> QED
  BY <1>4, <1>5

\* A step of readXRefTable.
LEMMA NewestReadSection == ASSUME Tables(file), NewestInv, ReadSection PROVE NewestInv'
<1>1. phase = "xref" /\ workSet # <<>> /\ file' = file
  BY DEF ReadSection, inputs
<1>2. ASSUME Throw PROVE NewestInv'
  <2>1. phase' = "damaged" \/ (phase' = "returned" /\ returned' = "empty")
    BY <1>2 DEF Throw, Return
  <2> QED
    BY <2>1 DEF NewestInv, FirstAttempt, Done
<1> DEFINE offset == workSet[Len(workSet)]
<1>3. \/ /\ offset \in processed /\ workSet' = Rest
         /\ UNCHANGED <<phase, processed, entries>>
      \/ Throw
      \/ /\ offset \in Sections \ processed /\ phase' = phase
         /\ workSet' = Rest \o Related(file.sections[offset])
         /\ processed' = processed \cup {offset}
         /\ entries' = Merged(file.sections[offset])
  BY DEF ReadSection, IsNew, Section, Sections
<1>4. CASE file.start \notin Sections
  <2>1. workSet = <<file.start>> /\ processed = {}
    BY <1>1, <1>4 DEF NewestInv
  <2>2. offset = file.start
    BY <2>1
  <2> QED
    BY <1>2, <1>3, <1>4, <2>1, <2>2
<1>5. CASE file.start \in Sections
  <2>1. PICK chain, next : Pending(chain, next)
    BY <1>1, <1>5 DEF NewestInv
  <2>2. workSet = Pushed(chain) \o Pushed(next)
    BY <2>1 DEF Pending
  <2>3. ASSUME phase' = phase, NEW c, NEW x, Pending(c, x)' PROVE NewestInv'
    <3>1. phase' = "xref" /\ file'.start \in Sections'
      BY <1>1, <1>5, <2>3 DEF Sections
    <3> QED
      BY <2>3, <3>1 DEF NewestInv, FirstAttempt, Done
  <2>4. CASE next # None
    <3>1. offset = next /\ Rest = Pushed(chain)
      BY <2>2, <2>4, WorkTop
    <3>2. CASE offset \in processed /\ workSet' = Rest /\ UNCHANGED <<phase, processed, entries>>
      BY <1>1, <2>1, <2>3, <3>1, <3>2, KnownStream
    <3>3. CASE /\ offset \in Sections \ processed /\ phase' = phase
               /\ workSet' = Rest \o Related(file.sections[offset])
               /\ processed' = processed \cup {offset}
               /\ entries' = Merged(file.sections[offset])
      BY <1>1, <2>1, <2>3, <3>1, <3>3, StreamRead
    <3> QED
      BY <1>2, <1>3, <3>2, <3>3
  <2>5. CASE next = None
    <3>1. chain # None
      BY <1>1, <2>2, <2>5, WorkTop
    <3>2. offset = chain /\ Rest = <<>>
      <4>1. workSet = Pushed(chain) \o Pushed(None)
        BY <2>2, <2>5
      <4>2. workSet[Len(workSet)] = chain /\ Rest = <<>>
        BY <3>1, <4>1, ChainOnTop
      <4> QED
        BY <4>2
    <3>3. CASE offset \in processed /\ workSet' = Rest /\ UNCHANGED <<phase, processed, entries>>
      BY <1>1, <2>1, <2>3, <2>5, <3>2, <3>3, KnownChain
    <3>4. CASE /\ offset \in Sections \ processed /\ phase' = phase
               /\ workSet' = Rest \o Related(file.sections[offset])
               /\ processed' = processed \cup {offset}
               /\ entries' = Merged(file.sections[offset])
      BY <1>1, <2>1, <2>3, <2>5, <3>2, <3>4, ChainRead
    <3> QED
      BY <1>2, <1>3, <3>3, <3>4
  <2> QED
    BY <2>4, <2>5
<1> QED
  BY <1>4, <1>5

\* Nothing is left on the stack, so that nothing is promised any more.
LEMMA NewestTableRead == ASSUME Tables(file), NewestInv, TableRead PROVE NewestInv'
<1>1. phase = "xref" /\ workSet = <<>> /\ file' = file /\ entries' = entries
  BY DEF TableRead, inputs, table
<1>2. phase' \in {"entries", "damaged"} \/ (phase' = "returned" /\ returned' = "empty")
  BY DEF TableRead, Throw, Return
<1>3. file.start \in Sections
  BY <1>1 DEF NewestInv
<1>4. PICK chain, next : Pending(chain, next)
  BY <1>1, <1>3 DEF NewestInv
<1>5. workSet = Pushed(chain) \o Pushed(next)
  BY <1>4 DEF Pending
<1>6. chain = None /\ next = None
  BY <1>1, <1>5, WorkTop
<1>7. None \notin Sections
  BY DEF Tables, Sections
<1>8. AllFine
  BY <1>4, <1>6, <1>7 DEF AllFine, Pending, Hidden, Promised
<1>9. AllFine'
  BY <1>1, <1>8, SameFile DEF AllFine, Fine
<1> QED
  BY <1>2, <1>9 DEF NewestInv, FirstAttempt, Done

\* Once the table is read its entries stay.
LEMMA TableKept ==
    ASSUME File(file), PhaseInv, CountsInv, [Next]_vars, ~ReadSection, ~TableRead
    PROVE  /\ entries' = entries
           /\ FirstAttempt' => FirstAttempt
           /\ phase' = "xref" => phase = "xref" /\ UNCHANGED <<workSet, processed>>
<1> DEFINE Later == /\ entries' = entries
                    /\ FirstAttempt' => FirstAttempt
                    /\ phase' = "xref" => phase = "xref" /\ UNCHANGED <<workSet, processed>>
<1> SUFFICES Later
  OBVIOUS
<1> USE DEF FirstAttempt, Done, WasRestored, table
<1>1. CASE Begin
  BY <1>1 DEF Begin, outcome, restoration
<1>2. CASE EntriesRead
  BY <1>2 DEF EntriesRead, Return
<1>3. ASSUME NEW n \in busy, EndEntry(n) \/ EndStream(n) \/ StoreRestored(n)
      PROVE  Later
  BY <1>3 DEF EndEntry, EndStream, StoreRestored
<1>4. ASSUME NEW o \in todo, ParseRestored(o)
      PROVE  Later
  BY <1>4 DEF ParseRestored
<1>5. CASE processSecurityHandler
  <2>1. phase = "security" /\ entries' = entries
    BY <1>5 DEF processSecurityHandler
  <2>2. phase' # "xref"
    BY <1>5, AuthenticationsType DEF processSecurityHandler, Throw, Return
  <2> QED
    BY <2>1, <2>2
<1>6. CASE MakeDocument
  BY <1>6 DEF MakeDocument, Throw, Return
<1>7. CASE StartRestore
  BY <1>7 DEF StartRestore
<1>8. CASE RestoreDone
  BY <1>8 DEF RestoreDone
<1>9. CASE RestoredSecurity
  <2>1. phase = "restored security" /\ entries' = entries
    BY <1>9 DEF RestoredSecurity
  <2>2. phase' = "restored document" \/ (phase' = "returned" /\ returned' = "empty")
    BY <1>9 DEF RestoredSecurity, Return
  <2> QED
    BY <2>1, <2>2
<1>10. CASE MakeRestored
  <2>1. phase = "restored document" /\ entries' = entries /\ phase' = "returned" /\ round' = round
    BY <1>10 DEF MakeRestored, Return, restoration
  <2>2. round # 0
    BY <2>1 DEF PhaseInv, Restoring
  <2>3. round > 0
    <3>1. round \in 0 .. 2
      BY DEF CountsInv
    <3> QED
      BY <2>2, <3>1
  <2> QED
    BY <2>1, <2>2, <2>3
<1>11. CASE UNCHANGED vars
  BY <1>11 DEF vars, outcome, restoration
<1> HIDE DEF Later
<1> QED
  BY <1>1, <1>2, <1>3, <1>4, <1>5, <1>6, <1>7, <1>8, <1>9, <1>10, <1>11 DEF Next

LEMMA NewestStep ==
    ASSUME File(file), PhaseInv, CountsInv, Tables(file), NewestInv, [Next]_vars PROVE NewestInv'
<1>1. CASE ReadSection
  BY <1>1, NewestReadSection
<1>2. CASE TableRead
  BY <1>2, NewestTableRead
<1>3. CASE ~ReadSection /\ ~TableRead
  <2>1. /\ entries' = entries /\ (FirstAttempt' => FirstAttempt)
        /\ phase' = "xref" => phase = "xref" /\ UNCHANGED <<workSet, processed>>
    BY <1>3, TableKept
  <2>2. file' = file
    BY FileKept
  <2>3. \A k, o : Says(k, o)' = Says(k, o)
    BY <2>2, SameFile
  <2>4. Newest' = Newest /\ Sections' = Sections
    BY <2>2, SameFile
  <2>5. AllFine => AllFine'
    BY <2>1, <2>4 DEF AllFine, Fine
  <2>6. ASSUME phase' = "xref", NEW chain, NEW next, Pending(chain, next) PROVE Pending(chain, next)'
    BY <2>1, <2>2, <2>3, <2>4, <2>6 DEF Pending, Fine, Hidden, Promised
  <2> QED
    BY <2>1, <2>2, <2>4, <2>5, <2>6 DEF NewestInv
<1> QED
  BY <1>1, <1>2, <1>3

\* Of a file that was updated the newest version of every object is read that
\* the newest update does not free: the stack of readXRefTable and the rule
\* by which it merges entries give what the updates say in their order.
THEOREM NewestIsRead == Spec => []NewestVersionRead
<1>1. Tables(file) /\ [Next]_vars /\ RestoreInv => Tables(file)'
  BY FileKept DEF RestoreInv, ResultInv, Tables
<1>2. RestoreInv /\ Tables(file) /\ NewestInv /\ [Next]_vars => NewestInv'
  BY NewestStep DEF RestoreInv, ResultInv
<1>3. NewestInv => NewestVersionRead
  <2>1. Free[1] = "free"
    BY DEF Free
  <2>2. ASSUME AllFine, NEW n \in DOMAIN Newest, Newest[n][1] # "free" PROVE entries[n] = Newest[n]
    BY <2>1, <2>2 DEF AllFine, Fine
  <2> QED
    BY <2>2 DEF NewestInv, FirstAttempt, NewestVersionRead
<1> QED
  BY <1>1, <1>2, <1>3, NewestInit, ReaderInv, PTL DEF Spec

-----------------------------------------------------------------------------
(* The text of a document.  The invariants of TextLayoutCompiler follow    *)
(* from what its members say of the computation and of its queued event,   *)
(* and from what a handler that is blocked in stop() still relies on.      *)

\* An unfinished computation is announced and has posted nothing; a finished
\* one is announced until its event is handled.
Announced ==
    /\ ~future.done => isRunning /\ ~posted
    /\ future.done => (posted <=> isRunning)

\* A handler is blocked exactly while the compiler stops; before the first
\* start there is nothing to be stale.
Blocked ==
    /\ state = "Stopping" <=> op # "none"
    /\ ChangesText(op) => version < MaxVersion
    /\ op = "soft" => document
    /\ state = "Inactive" => lazy = NoPage /\ layouts = 0 /\ ~isRunning

\* LazyAgrees, also for a handler that will keep the caches.
Agrees ==
    lazy # NoPage =>
        /\ document /\ Ready => lazy.version = layouts
        /\ document /\ ~Ready /\ op \in {"none", "soft"} => lazy.version = version
        /\ ~document /\ op = "none" => lazy.version = Empty

TextInv == TextTypeOK /\ Announced /\ Blocked /\ Agrees

\* Before the first start nothing is indexed.
LEMMA InitText == TextInit => TextInv
<1> SUFFICES ASSUME TextInit PROVE TextInv
    OBVIOUS
<1> USE MaxVersionAssumption DEF TextInit
<1>1. TextTypeOK
  <2>1. lazy \in [page : Pages \cup {-1}, version : 0 .. MaxVersion]
    BY DEF NoPage
  <2>2. 0 \in 0 .. MaxVersion
    BY SMT
  <2>3. future \in [version : 0 .. MaxVersion, done : BOOLEAN]
    BY <2>2, Zenon
  <2>4. guard = isRunning /\ isRunning \in BOOLEAN /\ posted \in BOOLEAN /\ document \in BOOLEAN
    BY Zenon
  <2> QED
    BY <2>1, <2>3, <2>4 DEF TextTypeOK, Ops
<1>2. Announced /\ Agrees
  <2>1. future.done
    BY Zenon
  <2> QED
    BY <2>1 DEF Announced, Agrees
<1>3. Blocked
    BY DEF Blocked, ChangesText
<1> QED
    BY <1>1, <1>2, <1>3 DEF TextInv

\* The computation and its event.
LEMMA AnnouncedStep == ASSUME TextInv, [TextNext]_textVars PROVE Announced'
<1> USE DEF TextInv, TextTypeOK, Announced, Blocked
<1>1. ASSUME NEW o \in Ops, StartFirst(o) \/ StopBegin(o) PROVE Announced'
    BY <1>1 DEF StartFirst, StopBegin, SetInput, computation
<1>2. CASE StopFinish
    BY <1>2 DEF StopFinish, Waited, PostedAfterStop
<1>3. CASE makeTextLayout
    BY <1>3 DEF makeTextLayout, MayStart
<1>4. ASSUME NEW p \in Pages, getTextLayoutLazy(p) PROVE Announced'
    BY <1>4 DEF getTextLayoutLazy, computation
<1>5. CASE onTextLayoutCreated
    BY <1>5 DEF onTextLayoutCreated
<1>6. CASE Compute
    BY <1>6 DEF Compute, compiler
<1>7. CASE UNCHANGED textVars
    BY <1>7 DEF textVars, compiler, computation
<1> QED
    BY <1>1, <1>2, <1>3, <1>4, <1>5, <1>6, <1>7 DEF TextNext

\* The handlers blocked in stop().
LEMMA BlockedStep == ASSUME TextInv, [TextNext]_textVars PROVE Blocked'
<1> USE MaxVersionAssumption DEF TextInv, TextTypeOK, Blocked, NoPage, ChangesText
<1>1. ASSUME NEW o \in Ops, StartFirst(o) PROVE Blocked'
    BY <1>1 DEF StartFirst, SetInput
<1>2. ASSUME NEW o \in Ops, StopBegin(o) PROVE Blocked'
    BY <1>2 DEF StopBegin, Ops
<1>3. CASE StopFinish
    BY <1>3 DEF StopFinish, SetInput
<1>4. CASE makeTextLayout
    BY <1>4 DEF makeTextLayout, Usable, input
<1>5. ASSUME NEW p \in Pages, getTextLayoutLazy(p) PROVE Blocked'
    BY <1>5 DEF getTextLayoutLazy, Usable, input
<1>6. CASE onTextLayoutCreated
    BY <1>6 DEF onTextLayoutCreated, Announced, input
<1>7. CASE Compute \/ UNCHANGED textVars
    BY <1>7 DEF Compute, textVars, compiler, input
<1> QED
    BY <1>1, <1>2, <1>3, <1>4, <1>5, <1>6, <1>7 DEF TextNext

\* The types; guard = isRunning needs that both change together.
LEMMA TextTypeStep == ASSUME TextInv, [TextNext]_textVars PROVE TextTypeOK'
<1> USE MaxVersionAssumption DEF TextInv, TextTypeOK
<1>1. ASSUME NEW o \in Ops, StartFirst(o) PROVE TextTypeOK'
    BY <1>1 DEF StartFirst, SetInput, computation
<1>2. ASSUME NEW o \in Ops, StopBegin(o) PROVE TextTypeOK'
    BY <1>2 DEF StopBegin, Ops, compiler, computation
<1>3. CASE StopFinish
  <2>1. /\ version' \in 0 .. MaxVersion /\ layouts' \in 0 .. MaxVersion
        /\ lazy' \in [page : Pages \cup {-1}, version : 0 .. MaxVersion]
    BY <1>3 DEF StopFinish, SetInput, Blocked, NoPage
  <2>2. document' \in BOOLEAN
    BY <1>3 DEF StopFinish, SetInput
  <2> QED
    BY <1>3, <2>1, <2>2 DEF StopFinish, PostedAfterStop
<1>4. CASE makeTextLayout
    BY <1>4 DEF makeTextLayout, input
<1>5. ASSUME NEW p \in Pages, getTextLayoutLazy(p) PROVE TextTypeOK'
    BY <1>5 DEF getTextLayoutLazy, PageLayout, Empty, input, computation
<1>6. CASE onTextLayoutCreated
  <2>1. lazy' \in [page : Pages \cup {-1}, version : 0 .. MaxVersion]
    BY <1>6 DEF onTextLayoutCreated, LazyCleared, NoPage
  <2>2. layouts' \in 0 .. MaxVersion
    BY <1>6 DEF onTextLayoutCreated
  <2>3. isRunning' \in BOOLEAN /\ posted' \in BOOLEAN /\ guard' = isRunning'
    BY <1>6, Zenon DEF onTextLayoutCreated, GuardReleased
  <2> QED
    BY <1>6, <2>1, <2>2, <2>3 DEF onTextLayoutCreated, input
<1>7. CASE Compute
    BY <1>7 DEF Compute, compiler, input
<1>8. CASE UNCHANGED textVars
    BY <1>8 DEF textVars, compiler, input, computation
<1> QED
    BY <1>1, <1>2, <1>3, <1>4, <1>5, <1>6, <1>7, <1>8 DEF TextNext

\* The one-page cache and the storage behind it.
LEMMA AgreesStep == ASSUME TextInv, [TextNext]_textVars PROVE Agrees'
<1> USE DEF TextInv, TextTypeOK, Blocked, Agrees, Ready
<1>1. ASSUME NEW o \in Ops, StartFirst(o) PROVE Agrees'
    BY <1>1 DEF StartFirst
<1>2. ASSUME NEW o \in Ops, StopBegin(o) PROVE Agrees'
    BY <1>2 DEF StopBegin, compiler
<1>3. CASE StopFinish
  <2>1. CASE ClearsCache(op)
    BY <1>3, <2>1 DEF StopFinish, Empty
  <2>2. CASE op = "soft"
    BY <1>3, <2>2 DEF StopFinish, ClearsCache, SetInput, ChangesText
  <2> QED
    BY <2>1, <2>2 DEF ClearsCache
<1>4. CASE makeTextLayout
    BY <1>4 DEF makeTextLayout, input
<1>5. ASSUME NEW p \in Pages, getTextLayoutLazy(p) PROVE Agrees'
    BY <1>5 DEF getTextLayoutLazy, PageLayout, Usable, input
<1>6. CASE onTextLayoutCreated
    BY <1>6 DEF onTextLayoutCreated, LazyCleared
<1>7. CASE Compute \/ UNCHANGED textVars
    BY <1>7 DEF Compute, textVars, compiler, input
<1> QED
    BY <1>1, <1>2, <1>3, <1>4, <1>5, <1>6, <1>7 DEF TextNext

\* The invariant holds in every reachable state.
THEOREM TextInvariance == TextSpec => []TextInv
<1>1. TextInv /\ [TextNext]_textVars => TextInv'
    BY TextTypeStep, AnnouncedStep, BlockedStep, AgreesStep DEF TextInv
<1> QED
    BY <1>1, InitText, PTL DEF TextSpec

\* The members of the compiler have their types, and the font cache is locked
\* against shrinking exactly while an index is made.
THEOREM TextTypeCorrect == TextSpec => []TextTypeOK
<1>1. TextInv => TextTypeOK
    BY DEF TextInv
<1> QED
    BY <1>1, TextInvariance, PTL

\* The queued event of a computation is never handled with the future of
\* another one: nothing is started while one is left.
THEOREM EventsBelong == TextSpec => []EventBelongsToFuture
<1>1. TextInv => EventBelongsToFuture
    BY DEF TextInv, Announced, EventBelongsToFuture, MayStart, Waited
<1> QED
    BY <1>1, TextInvariance, PTL

\* The page of the one-page cache is the one the storage would return.
THEOREM LazyPageAgrees == TextSpec => []LazyAgrees
<1>1. TextInv => LazyAgrees
    BY DEF TextInv, TextTypeOK, Blocked, Agrees, LazyAgrees, PageLayout, Usable
<1> QED
    BY <1>1, TextInvariance, PTL
=============================================================================

------------------------ MODULE DocumentSessionProofs ------------------------
(***************************************************************************)
(* What DocumentSession keeps, for all files, contents, limits and bounds: *)
(* no command meets a reading, a document that counts as saved is what its *)
(* file holds, and undo and redo are moves on one line of documents.       *)
(***************************************************************************)
EXTENDS DocumentSession, SequenceTheorems, TLAPS

(* The inductive invariant. *)

Kept == {step \in Steps : step.flag # "reset"}

\* The history is that of a document and holds nothing that would empty it.
History ==
    /\ undo \in Seq(Kept) /\ redo \in Seq(Kept) /\ limits \in Limits
    /\ document = NoDocument => undo = <<>> /\ redo = <<>>

\* What is still posted, and whether the controller is busy meanwhile: no
\* progress is under way in the reading thread (one was at most, or two),
Settled(posted, isBusy) ==
    \/ posted = <<>> /\ ~isBusy
    \/ posted = <<"finished">> /\ isBusy
    \/ posted = <<"started", "finished">> /\ ~isBusy
SettledTwice(posted, isBusy) ==
    \/ Settled(posted, isBusy)
    \/ posted = <<"finished", "started", "finished">> /\ isBusy
    \/ posted = <<"started", "finished", "started", "finished">> /\ ~isBusy

\* the first is, or the second,
Announced(posted, isBusy) ==
    \/ posted = <<"started">> /\ ~isBusy
    \/ posted = <<>> /\ isBusy
AnnouncedTwice(posted, isBusy) ==
    \/ Announced(posted, isBusy)
    \/ posted = <<"finished", "started">> /\ isBusy
    \/ posted = <<"started", "finished", "started">> /\ ~isBusy

\* or the reading is over.
Over(posted, isBusy) ==
    \/ posted = <<"read">> /\ ~isBusy
    \/ posted = <<"finished", "read">> /\ isBusy
    \/ posted = <<"started", "finished", "read">> /\ ~isBusy
    \/ posted = <<"finished", "started", "finished", "read">> /\ isBusy
    \/ posted = <<"started", "finished", "started", "finished", "read">> /\ ~isBusy

\* How far the main thread may be behind the reading thread.
Behind ==
    /\ reader.phase \in {"none", "done"} \/ Running(reader.phase)
    /\ reader.phase \in {"none", "begin"} => events = <<>> /\ ~busy
    /\ reader.phase = "contents" => Announced(events, busy)
    /\ reader.phase = "security" => Settled(events, busy)
    /\ reader.phase = "decrypt" => AnnouncedTwice(events, busy)
    /\ reader.phase \in {"streams", "verify"} => SettledTwice(events, busy)
    /\ reader.phase = "done" => Over(events, busy)

\* The window is enabled when the reading is over, also if its end is still posted.
Enabled == enabled => reader.phase \in {"none", "done"} /\ ~busy

\* Nothing is open while something is read, which will belong to the file
\* that is then the present one.
Exclusive ==
    /\ reader.phase # "none" =>
        /\ document = NoDocument /\ reader.file \in Files
        /\ window = "open" => file = reader.file
    /\ document # NoDocument => file \in Files

\* What was read is what its file held, unless that has changed since.
ReadIsOnDisk ==
    /\ reader.content \in Contents \cup {None}
    /\ reader.phase \in {"none", "begin"} => reader.content = None
    /\ reader.content # None /\ reader.file \notin touched => reader.content = disk[reader.file]

Types ==
    /\ document \in Documents \cup {NoDocument} /\ saved \in BOOLEAN
    /\ file \in Files \cup {None} /\ disk \in [Files -> Contents]
    /\ touched \subseteq Files /\ notices \subseteq Files
    /\ reader \in [phase : {"none", "begin", "contents", "security", "decrypt", "streams", "verify", "done"},
                   file : Files \cup {None}, content : Contents \cup {None}]
    /\ busy \in BOOLEAN /\ enabled \in BOOLEAN /\ window \in {"open", "closed"}
    /\ changes \in Nat /\ foreign \in Nat

IInv ==
    Types /\ History /\ Behind /\ Enabled /\ Exclusive /\ ReadIsOnDisk /\ SavedIsOnDisk

-----------------------------------------------------------------------------
(* The history. *)

\* What is given up leaves a history of the same steps.
LEMMA ClampedKinds ==
    ASSUME NEW steps \in Seq(Kept), NEW limit \in Nat
    PROVE  ClampedUndo(steps, limit) \in Seq(Kept) /\ ClampedRedo(steps, limit) \in Seq(Kept)
<1>1. Len(steps) \in Nat /\ \A i \in 1 .. Len(steps) : steps[i] \in Kept
    BY LenProperties, ElementOfSeq
<1>2. ASSUME Len(steps) > limit
      PROVE  /\ SubSeq(steps, Len(steps) - limit + 1, Len(steps)) \in Seq(Kept)
             /\ SubSeq(steps, 1, limit) \in Seq(Kept)
  <2>1. /\ \A i \in Len(steps) - limit + 1 .. Len(steps) : steps[i] \in Kept
        /\ \A i \in 1 .. limit : steps[i] \in Kept
    BY <1>1, <1>2
  <2> QED
    BY <1>1, <2>1, SubSeqProperties
<1> QED
    BY <1>2 DEF ClampedUndo, ClampedRedo

LEMMA FrontKinds ==
    ASSUME NEW steps \in Seq(Kept), steps # <<>>
    PROVE  Last(steps) \in Kept /\ Front(steps) \in Seq(Kept)
<1>1. /\ Len(steps) \in Nat \ {0} /\ \A i \in 1 .. Len(steps) : steps[i] \in Kept
    BY LenProperties, ElementOfSeq, EmptySeq
<1>2. SubSeq(steps, 1, Len(steps) - 1) \in Seq(Kept)
  <2>1. \A i \in 1 .. Len(steps) - 1 : steps[i] \in Kept
    BY <1>1
  <2> QED
    BY <1>1, <2>1, SubSeqProperties
<1> QED
    BY <1>1, <1>2 DEF Last, Front

\* Replacing the document with the history it gets keeps both in step.
LEMMA SetDocumentKeeps ==
    ASSUME IInv, NEW d \in Documents \cup {NoDocument}, NEW flag \in Flags,
           NEW u \in Seq(Kept), NEW r \in Seq(Kept), NEW s \in BOOLEAN,
           SetDocument(d, flag, u, r, s), d = NoDocument => flag = "reset"
    PROVE  /\ History' /\ document' = d /\ saved' = s
           /\ document' \in Documents \cup {NoDocument} /\ saved' \in BOOLEAN
BY EmptySeq DEF IInv, History, SetDocument

\* closeDocument.
LEMMA CloseDocumentKeeps ==
    ASSUME IInv, CloseDocument
    PROVE  History' /\ document' = NoDocument /\ saved' = TRUE
<1>1. NoDocument \in Documents \cup {NoDocument} /\ "reset" \in Flags /\ TRUE \in BOOLEAN
    BY DEF Flags
<1>2. undo \in Seq(Kept) /\ redo \in Seq(Kept)
    BY DEF IInv, History
<1> QED
    BY <1>1, <1>2, SetDocumentKeeps DEF CloseDocument

\* What a command finds: nothing is read or to be delivered.
LEMMA CommandFinds ==
    ASSUME IInv, Command
    PROVE  reader.phase = "none" /\ ~busy /\ events = <<>> /\ window = "open"
BY DEF IInv, Command, Enabled, Behind, Over

\* A step that leaves the reading alone keeps what is said of it.
LEMMA ReadingUntouched ==
    ASSUME IInv, UNCHANGED reading
    PROVE  /\ Behind'
           /\ Availability \/ UNCHANGED enabled => Enabled'
<1>1. UNCHANGED <<reader, events, busy>>
    BY DEF reading
<1>2. Behind'
    BY <1>1 DEF IInv, Behind
<1>3. ASSUME Availability PROVE Enabled'
  <2>1. reader.phase \in {"none", "done"} \/ Running(reader.phase)
    BY DEF IInv, Behind
  <2> QED
    BY <1>1, <1>3, <2>1 DEF Enabled, Availability, Running
<1>4. ASSUME UNCHANGED enabled PROVE Enabled'
    BY <1>1, <1>4 DEF IInv, Enabled
<1> QED
    BY <1>2, <1>3, <1>4

-----------------------------------------------------------------------------
(* The commands. *)

LEMMA OpenKeeps ==
    ASSUME IInv, NEW f \in Files, OpenDocument(f)
    PROVE  IInv'
<1>1. /\ History' /\ document' = NoDocument /\ saved' = TRUE
    BY CloseDocumentKeeps DEF OpenDocument
<1>2. /\ file' = f /\ reader' = [phase |-> "begin", file |-> f, content |-> None]
      /\ UNCHANGED <<events, busy, disk, touched, notices, window, changes, foreign>>
      /\ Availability
    BY DEF OpenDocument, world
<1>3. events = <<>> /\ ~busy
    BY CommandFinds DEF OpenDocument
<1>4. ~enabled' /\ enabled' \in BOOLEAN
    BY <1>2 DEF Availability, Running
<1>5. Types'
    BY <1>1, <1>2, <1>4 DEF IInv, Types
<1>6. Behind' /\ Enabled'
    BY <1>2, <1>3, <1>4 DEF Behind, Enabled, Running
<1>7. Exclusive' /\ ReadIsOnDisk' /\ SavedIsOnDisk'
    BY <1>1, <1>2 DEF Exclusive, ReadIsOnDisk, SavedIsOnDisk
<1> QED
    BY <1>1, <1>5, <1>6, <1>7 DEF IInv

\* A command that gives the document another content or version.
LEMMA ChangeKeeps ==
    ASSUME IInv, Command, NEW d \in Documents, NEW flag \in Flags,
           NEW u \in Seq(Kept), NEW r \in Seq(Kept),
           SetDocument(d, flag, u, r, FALSE), document # NoDocument,
           changes' \in Nat, UNCHANGED <<file, world, reading, window, foreign>>, Availability
    PROVE  IInv'
<1>1. d # NoDocument
    BY NoneAssumption DEF Documents, NoDocument
<1>2. History' /\ document' = d /\ saved' = FALSE
    BY <1>1, SetDocumentKeeps
<1>3. /\ UNCHANGED <<reader, events, busy, disk, touched, notices>>
      /\ reader.phase = "none" /\ ~busy
    BY CommandFinds DEF reading, world
<1>4. enabled' = TRUE
    BY <1>3 DEF Availability, Running
<1>5. Types'
    BY <1>2, <1>3, <1>4 DEF IInv, Types
<1>6. Behind' /\ Enabled'
    BY ReadingUntouched
<1>7. Exclusive' /\ ReadIsOnDisk' /\ SavedIsOnDisk'
    BY <1>2, <1>3 DEF IInv, Exclusive, ReadIsOnDisk, SavedIsOnDisk
<1> QED
    BY <1>2, <1>5, <1>6, <1>7 DEF IInv

LEMMA LimitsAreNumbers == limits \in Limits => limits.undo \in Nat /\ limits.redo \in Nat
BY LimitsAssumption

LEMMA ModifyKeeps == ASSUME IInv, Modify PROVE IInv'
<1>1. PICK d \in Documents, flag \in Flags :
        SetDocument(d, flag,
            ClampedUndo(Append(undo, [old |-> document, new |-> d, flag |-> flag]), limits.undo),
            <<>>, FALSE)
    BY DEF Modify
<1> DEFINE step == [old |-> document, new |-> d, flag |-> flag]
<1>2. /\ Command /\ document # NoDocument /\ changes' \in Nat /\ Availability
      /\ UNCHANGED <<file, world, reading, window, foreign>>
    BY DEF Modify, IInv, Types
<1>3. undo \in Seq(Kept) /\ redo \in Seq(Kept) /\ <<>> \in Seq(Kept)
    BY EmptySeq DEF IInv, History
<1>4. CASE flag = "reset"
  <2>1. SetDocument(d, flag, undo, redo, FALSE)
    BY <1>1, <1>4 DEF SetDocument
  <2> QED
    BY <1>2, <1>3, <2>1, ChangeKeeps
<1>5. CASE flag # "reset"
  <2>1. step \in Kept
    BY <1>2, <1>5 DEF IInv, Types, Kept, Steps
  <2>2. Append(undo, step) \in Seq(Kept)
    BY <1>3, <2>1, AppendProperties
  <2>3. ClampedUndo(Append(undo, step), limits.undo) \in Seq(Kept)
    BY <2>2, ClampedKinds, LimitsAreNumbers DEF IInv, History
  <2> QED
    BY <1>1, <1>2, <1>3, <2>3, ChangeKeeps
<1> QED
    BY <1>4, <1>5

LEMMA UndoKeeps == ASSUME IInv, Undo PROVE IInv'
<1> DEFINE step == Last(undo)
<1>1. /\ Command /\ Availability /\ changes' \in Nat
      /\ UNCHANGED <<file, world, reading, window, foreign>>
      /\ SetDocument(step.old, step.flag, Front(undo),
                     ClampedRedo(<<step>> \o redo, limits.redo), FALSE)
    BY DEF Undo, IInv, Types
<1>2. undo # <<>> /\ document # NoDocument /\ undo \in Seq(Kept) /\ redo \in Seq(Kept)
    BY DEF Undo, IInv, History
<1>3. step \in Kept /\ Front(undo) \in Seq(Kept)
    BY <1>2, FrontKinds
<1>4. step.old \in Documents /\ step.flag \in Flags
    BY <1>3 DEF Kept, Steps
<1>5. <<step>> \o redo \in Seq(Kept)
    BY <1>2, <1>3, ConcatProperties
<1>6. ClampedRedo(<<step>> \o redo, limits.redo) \in Seq(Kept)
    BY <1>5, ClampedKinds, LimitsAreNumbers DEF IInv, History
<1> HIDE DEF step
<1> QED
    BY <1>1, <1>2, <1>3, <1>4, <1>6, ChangeKeeps

LEMMA RedoKeeps == ASSUME IInv, Redo PROVE IInv'
<1> DEFINE step == Head(redo)
<1>1. /\ Command /\ Availability /\ changes' \in Nat
      /\ UNCHANGED <<file, world, reading, window, foreign>>
      /\ SetDocument(step.new, step.flag, ClampedUndo(Append(undo, step), limits.undo),
                     Tail(redo), FALSE)
    BY DEF Redo, IInv, Types
<1>2. redo # <<>> /\ document # NoDocument /\ undo \in Seq(Kept) /\ redo \in Seq(Kept)
    BY DEF Redo, IInv, History
<1>3. step \in Kept /\ Tail(redo) \in Seq(Kept)
    BY <1>2, HeadTailProperties
<1>4. step.new \in Documents /\ step.flag \in Flags
    BY <1>3 DEF Kept, Steps
<1>5. Append(undo, step) \in Seq(Kept)
    BY <1>2, <1>3, AppendProperties
<1>6. ClampedUndo(Append(undo, step), limits.undo) \in Seq(Kept)
    BY <1>5, ClampedKinds, LimitsAreNumbers DEF IInv, History
<1> HIDE DEF step
<1> QED
    BY <1>1, <1>2, <1>3, <1>4, <1>6, ChangeKeeps

LEMMA SetMaximumStepsKeeps == ASSUME IInv, SetMaximumSteps PROVE IInv'
<1>1. limits' \in Limits /\ undo' = ClampedUndo(undo, limits'.undo) /\ redo' = ClampedRedo(redo, limits'.redo)
    BY DEF SetMaximumSteps
<1>2. UNCHANGED <<document, saved, file, disk, touched, notices, reader, events, busy, enabled, window, changes, foreign>>
    BY DEF SetMaximumSteps, world, reading
<1>3. limits'.undo \in Nat /\ limits'.redo \in Nat
    BY <1>1, LimitsAssumption
<1>4. undo' \in Seq(Kept) /\ redo' \in Seq(Kept)
    BY <1>1, <1>3, ClampedKinds DEF IInv, History
<1>5. document' = NoDocument => undo' = <<>> /\ redo' = <<>>
  <2>1. SUFFICES ASSUME undo = <<>>, redo = <<>> PROVE undo' = <<>> /\ redo' = <<>>
    BY <1>2 DEF IInv, History
  <2>2. Len(<<>>) = 0
    BY EmptySeq
  <2> QED
    BY <1>1, <1>3, <2>1, <2>2 DEF ClampedUndo, ClampedRedo
<1>6. History'
    BY <1>1, <1>4, <1>5 DEF History
<1>7. Types' /\ Exclusive' /\ ReadIsOnDisk' /\ SavedIsOnDisk'
    BY <1>2 DEF IInv, Types, Exclusive, ReadIsOnDisk, SavedIsOnDisk
<1>8. Behind' /\ Enabled'
    BY <1>2, ReadingUntouched DEF reading
<1> QED
    BY <1>6, <1>7, <1>8 DEF IInv

LEMMA SaveKeeps == ASSUME IInv, NEW f \in Files, Save(f) PROVE IInv'
<1>1. /\ reader.phase = "none" /\ reader.content = None
      /\ document \in Documents /\ document.content \in Contents
    BY CommandFinds DEF Save, IInv, ReadIsOnDisk, Types, Documents
<1>2. /\ disk' = [disk EXCEPT ![f] = document.content] /\ touched' = touched \ {f}
      /\ file' = f /\ saved' = TRUE
      /\ UNCHANGED <<notices, document, undo, redo, limits, reader, events, busy, enabled, window,
                     changes, foreign>>
    BY DEF Save, Write, history, reading
<1>3. Types'
    BY <1>1, <1>2 DEF IInv, Types
<1>4. History' /\ Exclusive' /\ ReadIsOnDisk' /\ SavedIsOnDisk'
    BY <1>1, <1>2 DEF IInv, Types, History, Exclusive, ReadIsOnDisk, SavedIsOnDisk
<1>5. Behind' /\ Enabled'
    BY <1>2, ReadingUntouched DEF reading
<1> QED
    BY <1>3, <1>4, <1>5 DEF IInv

\* Closing keeps what is said of the world: a document that is written has a file.
LEMMA AskedKeeps ==
    ASSUME IInv, \/ UNCHANGED world
                 \/ document # NoDocument /\ Asked,
           UNCHANGED reading
    PROVE  /\ disk' \in [Files -> Contents] /\ touched' \subseteq Files /\ notices' \subseteq Files
           /\ ReadIsOnDisk'
<1>1. UNCHANGED <<reader, events, busy>>
    BY DEF reading
<1>2. CASE UNCHANGED world
    BY <1>1, <1>2 DEF IInv, Types, ReadIsOnDisk, world
<1>3. CASE document # NoDocument /\ Write(file)
  <2>1. file \in Files /\ reader.phase = "none" /\ document.content \in Contents
    BY <1>3 DEF IInv, Types, Exclusive, Documents
  <2> QED
    BY <1>1, <1>3, <2>1 DEF IInv, Types, ReadIsOnDisk, Write
<1> QED
    BY <1>2, <1>3 DEF Asked

LEMMA CloseKeeps ==
    ASSUME IInv, Close \/ CloseWindow
    PROVE  IInv'
<1>1. /\ History' /\ document' = NoDocument /\ saved' = TRUE
    BY CloseDocumentKeeps DEF Close, CloseWindow
<1>2. /\ file' = None /\ UNCHANGED <<reading, changes, foreign>> /\ Availability
      /\ \/ UNCHANGED world
         \/ document # NoDocument /\ Asked
    BY DEF Close, CloseWindow
<1>3. window' = "closed" \/ (window' = window /\ reader.phase = "none")
    BY CommandFinds DEF Close, CloseWindow
<1>4. reader' = reader /\ busy' = busy
    BY <1>2 DEF reading
<1>5. enabled' \in BOOLEAN
    BY <1>2 DEF Availability, Running
<1>6. /\ disk' \in [Files -> Contents] /\ touched' \subseteq Files /\ notices' \subseteq Files
      /\ ReadIsOnDisk'
    BY <1>2, AskedKeeps
<1>7. Types'
    BY <1>1, <1>2, <1>3, <1>4, <1>5, <1>6 DEF IInv, Types
<1>8. Exclusive' /\ SavedIsOnDisk'
    BY <1>1, <1>3, <1>4 DEF IInv, Exclusive, SavedIsOnDisk
<1>9. Behind' /\ Enabled'
    BY <1>2, ReadingUntouched
<1> QED
    BY <1>1, <1>6, <1>7, <1>8, <1>9 DEF IInv

-----------------------------------------------------------------------------
(* The reading thread. *)

\* What posting an event leaves posted, behind up to four others.
LEMMA PostedFirst ==
    ASSUME NEW a
    PROVE  <<>> \o <<a>> = <<a>>
OBVIOUS

LEMMA PostedSecond ==
    ASSUME NEW a, NEW b
    PROVE  <<a>> \o <<b>> = <<a, b>>
<1> DEFINE S == {a, b}
<1> DEFINE w == <<a>> \o <<b>>  x == <<a, b>>
<1>1. <<a>> \in Seq(S) /\ <<b>> \in Seq(S)
    OBVIOUS
<1>2. x \in Seq(S) /\ Len(x) = 2 /\ x[1] = a /\ x[2] = b
    OBVIOUS
<1> HIDE DEF S
<1>3. w \in Seq(S) /\ Len(w) = 2 /\ w[1] = a /\ w[2] = b
    BY <1>1, ConcatProperties
<1> HIDE DEF w, x
<1>4. \A i \in 1 .. 2 : w[i] = x[i]
    BY <1>2, <1>3
<1>5. w = x
    BY <1>2, <1>3, <1>4, SeqEqual
<1> QED
    BY <1>5 DEF w, x

LEMMA PostedThird ==
    ASSUME NEW a, NEW b, NEW c
    PROVE  <<a, b>> \o <<c>> = <<a, b, c>>
<1> DEFINE S == {a, b, c}
<1> DEFINE w == <<a, b>> \o <<c>>  x == <<a, b, c>>
<1>1. <<a, b>> \in Seq(S) /\ <<c>> \in Seq(S)
    OBVIOUS
<1>2. x \in Seq(S) /\ Len(x) = 3 /\ x[1] = a /\ x[2] = b /\ x[3] = c
    OBVIOUS
<1> HIDE DEF S
<1>3. w \in Seq(S) /\ Len(w) = 3 /\ w[1] = a /\ w[2] = b /\ w[3] = c
    BY <1>1, ConcatProperties
<1> HIDE DEF w, x
<1>4. \A i \in 1 .. 3 : w[i] = x[i]
    BY <1>2, <1>3
<1>5. w = x
    BY <1>2, <1>3, <1>4, SeqEqual
<1> QED
    BY <1>5 DEF w, x

LEMMA PostedFourth ==
    ASSUME NEW a, NEW b, NEW c, NEW d
    PROVE  <<a, b, c>> \o <<d>> = <<a, b, c, d>>
<1> DEFINE S == {a, b, c, d}
<1> DEFINE w == <<a, b, c>> \o <<d>>  x == <<a, b, c, d>>
<1>1. <<a, b, c>> \in Seq(S) /\ <<d>> \in Seq(S)
    OBVIOUS
<1>2. x \in Seq(S) /\ Len(x) = 4 /\ x[1] = a /\ x[2] = b /\ x[3] = c /\ x[4] = d
    OBVIOUS
<1> HIDE DEF S
<1>3. w \in Seq(S) /\ Len(w) = 4 /\ w[1] = a /\ w[2] = b /\ w[3] = c /\ w[4] = d
    BY <1>1, ConcatProperties
<1> HIDE DEF w, x
<1>4. \A i \in 1 .. 4 : w[i] = x[i]
    BY <1>2, <1>3
<1>5. w = x
    BY <1>2, <1>3, <1>4, SeqEqual
<1> QED
    BY <1>5 DEF w, x

LEMMA PostedFifth ==
    ASSUME NEW a, NEW b, NEW c, NEW d, NEW e
    PROVE  <<a, b, c, d>> \o <<e>> = <<a, b, c, d, e>>
<1> DEFINE S == {a, b, c, d, e}
<1> DEFINE w == <<a, b, c, d>> \o <<e>>  x == <<a, b, c, d, e>>
<1>1. <<a, b, c, d>> \in Seq(S) /\ <<e>> \in Seq(S)
    OBVIOUS
<1>2. x \in Seq(S) /\ Len(x) = 5 /\ x[1] = a /\ x[2] = b /\ x[3] = c /\ x[4] = d /\ x[5] = e
    OBVIOUS
<1> HIDE DEF S
<1>3. w \in Seq(S) /\ Len(w) = 5 /\ w[1] = a /\ w[2] = b /\ w[3] = c /\ w[4] = d /\ w[5] = e
    BY <1>1, ConcatProperties
<1> HIDE DEF w, x
<1>4. \A i \in 1 .. 5 : w[i] = x[i]
    BY <1>2, <1>3
<1>5. w = x
    BY <1>2, <1>3, <1>4, SeqEqual
<1> QED
    BY <1>5 DEF w, x

\* Every step of the reading thread leaves the document and its file alone.
LEMMA ProceedKeeps ==
    ASSUME IInv, NEW phase, NEW content \in Contents \cup {None}, NEW posted,
           reader.phase # "none", Running(phase) \/ phase = "done", phase # "begin",
           Proceed(phase, content, posted),
           touched' \in {touched, touched \ {reader.file}},
           ~enabled, Behind',
           (content # None /\ reader.file \notin touched') => content = disk[reader.file]
    PROVE  IInv'
<1>1. /\ UNCHANGED <<document, saved, undo, redo, limits, file, disk, notices, busy, enabled, window,
                     changes, foreign>>
      /\ reader' = [reader EXCEPT !.phase = phase, !.content = content]
    BY DEF Proceed, history
<1>2. document = NoDocument /\ reader.file \in Files
    BY DEF IInv, Exclusive
<1>3. /\ reader'.phase = phase /\ reader'.file = reader.file /\ reader'.content = content
      /\ phase \in {"begin", "contents", "security", "decrypt", "streams", "verify", "done"}
    BY <1>1 DEF IInv, Types, Running
<1>4. Types'
    BY <1>1, <1>3 DEF IInv, Types
<1>5. History' /\ Enabled'
    BY <1>1 DEF IInv, History, Enabled
<1>6. Exclusive' /\ SavedIsOnDisk'
    BY <1>1, <1>2, <1>3 DEF IInv, Exclusive, SavedIsOnDisk
<1>7. ReadIsOnDisk'
    BY <1>1, <1>3 DEF ReadIsOnDisk
<1> QED
    BY <1>4, <1>5, <1>6, <1>7 DEF IInv

\* What it does to the document: nothing.
LEMMA ReadingLeaves ==
    ASSUME Reading
    PROVE  UNCHANGED <<document, undo, redo, limits>>
BY DEF Reading, ReadFile, ReadContents, Decrypt, ReadStreams, GiveUp, Verify, Proceed, history

LEMMA ReadingKeeps == ASSUME IInv, Reading PROVE IInv'
<1>1. /\ Running(reader.phase) /\ ~enabled /\ reader.phase # "none"
      /\ reader.file \in Files /\ disk[reader.file] \in Contents
      /\ reader.content \in Contents \cup {None}
    BY DEF IInv, Exclusive, Types, Enabled, Running, Reading, ReadFile, ReadContents, Decrypt,
           ReadStreams, GiveUp, Verify
<1>2. (reader.content # None /\ reader.file \notin touched) => reader.content = disk[reader.file]
    BY DEF IInv, ReadIsOnDisk
<1>3. ASSUME NEW phase, NEW content, NEW posted, Proceed(phase, content, posted)
      PROVE  reader'.phase = phase /\ events' = events \o posted /\ busy' = busy
    BY <1>3 DEF Proceed, IInv, Types
<1>4. CASE ReadFile
  <2>1. events = <<>> /\ ~busy
    BY <1>4 DEF ReadFile, IInv, Behind
  <2>2. CASE Proceed("contents", disk[reader.file], <<"started">>)
    <3>1. reader'.phase = "contents" /\ events' = <<"started">> /\ ~busy'
      BY <1>3, <2>1, <2>2
    <3>2. Behind'
      BY <3>1 DEF Behind, Running, Announced
    <3> QED
      BY <1>1, <1>4, <2>2, <3>2, ProceedKeeps DEF ReadFile, Running
  <2>3. CASE Proceed("security", disk[reader.file], <<>>)
    <3>1. reader'.phase = "security" /\ events' = <<>> /\ ~busy'
      BY <1>3, <2>1, <2>3
    <3>2. Behind'
      BY <3>1 DEF Behind, Running, Settled
    <3> QED
      BY <1>1, <1>4, <2>3, <3>2, ProceedKeeps DEF ReadFile, Running
  <2> QED
    BY <1>4, <2>2, <2>3 DEF ReadFile
<1>5. CASE ReadContents
  <2>1. Announced(events, busy) /\ reader'.phase = "security" /\ events' = events \o <<"finished">>
        /\ busy' = busy
    BY <1>3, <1>5 DEF ReadContents, IInv, Behind
  <2>2. Settled(events', busy')
    BY <2>1, PostedFirst, PostedSecond, Zenon DEF Announced, Settled
  <2>3. Behind'
    BY <2>1, <2>2 DEF Behind, Running
  <2> QED
    BY <1>1, <1>2, <1>5, <2>3, ProceedKeeps DEF ReadContents, Running
<1>6. CASE Decrypt
  <2>1. CASE reader.phase = "security" /\ Proceed("decrypt", reader.content, <<"started">>)
    <3>1. Settled(events, busy) /\ reader'.phase = "decrypt" /\ events' = events \o <<"started">>
          /\ busy' = busy
      BY <1>3, <2>1 DEF IInv, Behind
    <3>2. AnnouncedTwice(events', busy')
      BY <3>1, PostedFirst, PostedSecond, PostedThird, Zenon DEF Settled, Announced, AnnouncedTwice
    <3>3. Behind'
      BY <3>1, <3>2 DEF Behind, Running
    <3> QED
      BY <1>1, <1>2, <1>6, <2>1, <3>3, ProceedKeeps DEF Decrypt, Running
  <2>2. CASE reader.phase = "decrypt" /\ Proceed("streams", reader.content, <<"finished">>)
    <3>1. AnnouncedTwice(events, busy) /\ reader'.phase = "streams" /\ events' = events \o <<"finished">>
          /\ busy' = busy
      BY <1>3, <2>2 DEF IInv, Behind
    <3>2. SettledTwice(events', busy')
      <4>1. <<>> \o <<"finished">> = <<"finished">>
        BY PostedFirst
      <4>2. <<"started">> \o <<"finished">> = <<"started", "finished">>
        BY PostedSecond
      <4>3. <<"finished", "started">> \o <<"finished">> = <<"finished", "started", "finished">>
        BY PostedThird
      <4>4. <<"started", "finished", "started">> \o <<"finished">>
                = <<"started", "finished", "started", "finished">>
        BY PostedFourth
      <4> QED
        BY <3>1, <4>1, <4>2, <4>3, <4>4, Zenon DEF Announced, AnnouncedTwice, Settled, SettledTwice
    <3>3. Behind'
      BY <3>1, <3>2 DEF Behind, Running
    <3> QED
      BY <1>1, <1>2, <1>6, <2>2, <3>3, ProceedKeeps DEF Decrypt, Running
  <2> QED
    BY <1>6, <2>1, <2>2 DEF Decrypt
<1>7. CASE ReadStreams
  <2>1. SettledTwice(events, busy) /\ reader'.phase = "verify" /\ events' = events \o <<>> /\ busy' = busy
    BY <1>3, <1>7 DEF ReadStreams, IInv, Behind, SettledTwice
  <2>2. events' = events
    BY <2>1 DEF SettledTwice, Settled
  <2>3. Behind'
    BY <2>1, <2>2 DEF Behind, Running
  <2> QED
    BY <1>1, <1>2, <1>7, <2>3, ProceedKeeps DEF ReadStreams, Running
<1>8. CASE GiveUp \/ Verify
  <2>1. SettledTwice(events, busy) /\ reader'.phase = "done" /\ events' = events \o <<"read">> /\ busy' = busy
    <3>1. SettledTwice(events, busy)
      BY <1>8 DEF GiveUp, Verify, IInv, Behind, SettledTwice
    <3>2. \E content : Proceed("done", content, <<"read">>)
      BY <1>8 DEF GiveUp, Verify
    <3> QED
      BY <1>3, <3>1, <3>2
  <2> DEFINE s == "started"  f == "finished"  r == "read"
  <2>2. Over(events', busy')
    <3>1. <<>> \o <<r>> = <<r>>
      BY PostedFirst
    <3>2. <<f>> \o <<r>> = <<f, r>>
      BY PostedSecond
    <3>3. <<s, f>> \o <<r>> = <<s, f, r>>
      BY PostedThird
    <3>4. <<f, s, f>> \o <<r>> = <<f, s, f, r>>
      BY PostedFourth
    <3>5. <<s, f, s, f>> \o <<r>> = <<s, f, s, f, r>>
      BY PostedFifth
    <3> QED
      BY <2>1, <3>1, <3>2, <3>3, <3>4, <3>5, Zenon DEF Settled, SettledTwice, Over
  <2>3. Behind'
    BY <2>1, <2>2 DEF Behind
  <2> QED
    BY <1>1, <1>2, <1>8, <2>3, ProceedKeeps DEF GiveUp, Verify
<1> QED
    BY <1>4, <1>5, <1>6, <1>7, <1>8 DEF Reading

-----------------------------------------------------------------------------
(* The main thread's handlers. *)

LEMMA ProgressHandlersKeep ==
    ASSUME IInv, OnProgressStarted \/ OnProgressFinished
    PROVE  IInv'
<1>1. /\ UNCHANGED <<document, saved, undo, redo, limits, reader, file, disk, touched, notices, window,
                     changes, foreign>>
      /\ events # <<>> /\ events' = Tail(events) /\ Availability
      /\ \/ Head(events) = "started" /\ busy' = TRUE
         \/ Head(events) = "finished" /\ busy' = FALSE
      /\ busy \in BOOLEAN /\ busy' \in BOOLEAN
    BY DEF OnProgressStarted, OnProgressFinished, Deliver, history, world, IInv, Types
<1>2. enabled' \in BOOLEAN
    BY <1>1 DEF Availability, Running
<1>3. Types'
    BY <1>1, <1>2 DEF IInv, Types
<1>4. History' /\ Exclusive' /\ ReadIsOnDisk' /\ SavedIsOnDisk'
    BY <1>1 DEF IInv, History, Exclusive, ReadIsOnDisk, SavedIsOnDisk
<1>5. /\ Announced(events, busy) => Announced(events', busy')
      /\ AnnouncedTwice(events, busy) => AnnouncedTwice(events', busy')
      /\ Settled(events, busy) => Settled(events', busy')
      /\ SettledTwice(events, busy) => SettledTwice(events', busy')
      /\ Over(events, busy) => Over(events', busy')
  <2>1. /\ Tail(<<"started">>) = <<>> /\ Tail(<<"finished">>) = <<>>
        /\ Tail(<<"started", "finished">>) = <<"finished">>
        /\ Tail(<<"finished", "started">>) = <<"started">>
        /\ Tail(<<"finished", "read">>) = <<"read">>
        /\ Tail(<<"started", "finished", "read">>) = <<"finished", "read">>
        /\ Tail(<<"started", "finished", "started">>) = <<"finished", "started">>
        /\ Tail(<<"finished", "started", "finished">>) = <<"started", "finished">>
        /\ Tail(<<"started", "finished", "started", "finished">>) = <<"finished", "started", "finished">>
        /\ Tail(<<"finished", "started", "finished", "read">>) = <<"started", "finished", "read">>
        /\ Tail(<<"started", "finished", "started", "finished", "read">>)
               = <<"finished", "started", "finished", "read">>
    OBVIOUS
  <2>0. /\ Head(<<"started">>) = "started" /\ Head(<<"finished">>) = "finished" /\ Head(<<"read">>) = "read"
        /\ Head(<<"started", "finished">>) = "started" /\ Head(<<"finished", "started">>) = "finished"
        /\ Head(<<"finished", "read">>) = "finished" /\ Head(<<"started", "finished", "read">>) = "started"
        /\ Head(<<"started", "finished", "started">>) = "started"
        /\ Head(<<"finished", "started", "finished">>) = "finished"
        /\ Head(<<"started", "finished", "started", "finished">>) = "started"
        /\ Head(<<"finished", "started", "finished", "read">>) = "finished"
        /\ Head(<<"started", "finished", "started", "finished", "read">>) = "started"
    OBVIOUS
  <2>2. Announced(events, busy) => Announced(events', busy')
    BY <1>1, <2>0, <2>1 DEF Announced
  <2>3. Settled(events, busy) => Settled(events', busy')
    BY <1>1, <2>0, <2>1 DEF Settled
  <2>4. AnnouncedTwice(events, busy) => AnnouncedTwice(events', busy')
    BY <1>1, <2>0, <2>1, <2>2 DEF Announced, AnnouncedTwice
  <2>5. SettledTwice(events, busy) => SettledTwice(events', busy')
    BY <1>1, <2>0, <2>1, <2>3 DEF Settled, SettledTwice
  <2>6. Over(events, busy) => Over(events', busy')
    BY <1>1, <2>0, <2>1 DEF Over
  <2> QED
    BY <2>2, <2>3, <2>4, <2>5, <2>6
<1>6. Behind'
    BY <1>1, <1>5 DEF IInv, Behind
<1>7. Enabled'
    BY <1>1 DEF IInv, Behind, Enabled, Availability, Running
<1> QED
    BY <1>3, <1>4, <1>6, <1>7 DEF IInv

LEMMA ReadingFinishedKeeps ==
    ASSUME IInv, OnDocumentReadingFinished
    PROVE  IInv'
<1>1. /\ UNCHANGED <<file, disk, touched, notices, window, busy, changes, foreign>>
      /\ events # <<>> /\ Head(events) = "read" /\ events' = Tail(events)
      /\ reader' = Idle /\ window = "open" /\ Availability
    BY DEF OnDocumentReadingFinished, Deliver, world
<1>2. reader.phase = "done" /\ events' = <<>> /\ ~busy
  <2>1. ~Announced(events, busy) /\ ~AnnouncedTwice(events, busy)
    BY <1>1 DEF Announced, AnnouncedTwice
  <2>2. ~Settled(events, busy) /\ ~SettledTwice(events, busy)
    BY <1>1 DEF Settled, SettledTwice
  <2>3. Over(events, busy) => events = <<"read">> /\ ~busy
    BY <1>1 DEF Over
  <2>4. reader.phase = "done"
    BY <1>1, <2>1, <2>2 DEF IInv, Behind, Running
  <2> QED
    BY <1>1, <2>3, <2>4 DEF IInv, Behind
<1>3. document = NoDocument /\ file = reader.file /\ reader.file \in Files
    BY <1>1, <1>2 DEF IInv, Exclusive
<1>4. enabled' = TRUE
    BY <1>1, <1>2 DEF Availability, Running, Idle
<1>5. Behind' /\ Enabled' /\ ReadIsOnDisk'
    BY <1>1, <1>2 DEF Behind, Enabled, ReadIsOnDisk, Idle
<1>6. CASE reader.content = None
  <2>1. UNCHANGED <<document, saved, undo, redo, limits>>
    BY <1>6 DEF OnDocumentReadingFinished, history
  <2> QED
    BY <1>1, <1>3, <1>4, <1>5, <2>1
    DEF IInv, Types, History, Exclusive, SavedIsOnDisk, Idle
<1>7. CASE reader.content # None
  <2> DEFINE d == [content |-> reader.content, source |-> reader.content]
  <2>1. d \in Documents /\ "reset" \in Flags /\ TRUE \in BOOLEAN
    BY <1>7 DEF IInv, Types, Documents, Flags
  <2>2. undo \in Seq(Kept) /\ redo \in Seq(Kept)
    BY DEF IInv, History
  <2>3. SetDocument(d, "reset", undo, redo, TRUE)
    BY <1>7 DEF OnDocumentReadingFinished
  <2>4. History' /\ document' = d /\ saved' = TRUE
    BY <2>1, <2>2, <2>3, SetDocumentKeeps
  <2>5. Types' /\ Exclusive'
    BY <1>1, <1>3, <1>4, <2>1, <2>4 DEF IInv, Types, Exclusive, Idle
  <2>6. SavedIsOnDisk'
    BY <1>1, <1>3, <1>7, <2>4 DEF IInv, ReadIsOnDisk, SavedIsOnDisk
  <2> QED
    BY <1>5, <2>4, <2>5, <2>6 DEF IInv
<1> QED
    BY <1>6, <1>7

LEMMA FileChangedKeeps ==
    ASSUME IInv, NEW f \in Files, OnFileChanged(f)
    PROVE  IInv'
<1>1. /\ UNCHANGED <<file, disk, reader, events, busy, window, changes, foreign>>
      /\ Availability /\ notices' \subseteq Files /\ touched' \subseteq Files
    BY DEF OnFileChanged, reading, IInv, Types
<1>2. enabled' \in BOOLEAN
    BY <1>1 DEF Availability, Running
<1>3. Behind' /\ Enabled'
    BY <1>1, ReadingUntouched DEF reading
<1>4. ReadIsOnDisk'
    BY <1>1 DEF OnFileChanged, IInv, Exclusive, ReadIsOnDisk, Refreshable
<1> DEFINE d == [content |-> disk[f], source |-> disk[f]]
<1>5. CASE /\ Refreshable(f) /\ document.source # disk[f]
           /\ SetDocument(d, "reset", undo, redo, TRUE)
           /\ touched' = touched \ {f}
  <2>1. d \in Documents /\ "reset" \in Flags /\ TRUE \in BOOLEAN
    BY DEF IInv, Types, Documents, Flags
  <2>2. undo \in Seq(Kept) /\ redo \in Seq(Kept)
    BY DEF IInv, History
  <2>3. History' /\ document' = d /\ saved' = TRUE
    BY <1>5, <2>1, <2>2, SetDocumentKeeps
  <2>4. Types' /\ Exclusive' /\ SavedIsOnDisk'
    BY <1>1, <1>2, <1>5, <2>1, <2>3 DEF IInv, Types, Exclusive, SavedIsOnDisk, Refreshable
  <2> QED
    BY <1>3, <1>4, <2>3, <2>4 DEF IInv
<1>6. CASE /\ touched' = IF Refreshable(f) /\ document = d THEN touched \ {f} ELSE touched
           /\ UNCHANGED <<document, saved, history>>
  <2>1. UNCHANGED <<document, saved, undo, redo, limits>>
    BY <1>6 DEF history
  <2>2. Types' /\ History' /\ Exclusive'
    BY <1>1, <1>2, <2>1 DEF IInv, Types, History, Exclusive
  <2>3. SavedIsOnDisk'
    BY <1>1, <1>6, <2>1 DEF IInv, SavedIsOnDisk, Refreshable
  <2> QED
    BY <1>3, <1>4, <2>2, <2>3 DEF IInv
<1> QED
    BY <1>5, <1>6 DEF OnFileChanged

LEMMA ForeignWriteKeeps ==
    ASSUME IInv, NEW f \in Files, NEW c \in Contents, ForeignWrite(f, c)
    PROVE  IInv'
<1>1. /\ UNCHANGED <<document, saved, undo, redo, limits, file, reader, events, busy, enabled, window,
                     changes>>
      /\ disk' = [disk EXCEPT ![f] = c] /\ touched' = touched \cup {f}
      /\ notices' \subseteq Files /\ foreign' \in Nat
    BY DEF ForeignWrite, history, reading, IInv, Types
<1>2. Types' /\ History' /\ Exclusive'
    BY <1>1 DEF IInv, Types, History, Exclusive
<1>3. ReadIsOnDisk' /\ SavedIsOnDisk'
    BY <1>1 DEF IInv, Types, ReadIsOnDisk, SavedIsOnDisk, Exclusive
<1>4. Behind' /\ Enabled'
    BY <1>1, ReadingUntouched DEF reading
<1> QED
    BY <1>2, <1>3, <1>4 DEF IInv

-----------------------------------------------------------------------------
(* The invariant holds in every reachable state. *)

LEMMA InitKeeps == Init => IInv
<1> SUFFICES ASSUME Init PROVE IInv
    OBVIOUS
<1>1. Types
    BY DEF Init, Types, Idle
<1>2. History
    BY EmptySeq DEF Init, History
<1>3. Behind /\ Enabled /\ Exclusive /\ ReadIsOnDisk /\ SavedIsOnDisk
    BY DEF Init, Behind, Enabled, Exclusive, ReadIsOnDisk, SavedIsOnDisk, Idle
<1> QED
    BY <1>1, <1>2, <1>3 DEF IInv

LEMMA StutterKeeps == ASSUME IInv, UNCHANGED vars PROVE IInv'
<1>1. UNCHANGED <<document, saved, undo, redo, limits, file, disk, touched, notices, reader, events,
                  busy, enabled, window, changes, foreign>>
    BY DEF vars, history, world, reading
<1> QED
    BY <1>1
    DEF IInv, Types, History, Behind, Enabled, Exclusive, ReadIsOnDisk, SavedIsOnDisk

LEMMA NextKeeps == IInv /\ [Next]_vars => IInv'
<1> SUFFICES ASSUME IInv, [Next]_vars PROVE IInv'
    OBVIOUS
<1>1. CASE \E f \in Files : OpenDocument(f) \/ Save(f) \/ OnFileChanged(f)
    BY <1>1, OpenKeeps, SaveKeeps, FileChangedKeeps
<1>2. CASE Modify \/ Undo \/ Redo \/ SetMaximumSteps \/ Close \/ CloseWindow
    BY <1>2, ModifyKeeps, UndoKeeps, RedoKeeps, SetMaximumStepsKeeps, CloseKeeps
<1>3. CASE Reading \/ Events
    BY <1>3, ReadingKeeps, ProgressHandlersKeep, ReadingFinishedKeeps DEF Events
<1>4. CASE \E f \in Files, c \in Contents : ForeignWrite(f, c)
    BY <1>4, ForeignWriteKeeps
<1>5. CASE UNCHANGED vars
    BY <1>5, StutterKeeps
<1> QED
    BY <1>1, <1>2, <1>3, <1>4, <1>5 DEF Next

\* The inductive invariant, from which the others follow.
THEOREM Invariance == Spec => []IInv
BY InitKeeps, NextKeeps, PTL DEF Spec

LEMMA HistoryIsSafe ==
    ASSUME IInv
    PROVE  /\ undo \in Seq(Steps) /\ redo \in Seq(Steps)
           /\ \A step \in ToSet(undo \o redo) : step.flag # "reset"
<1>1. undo \in Seq(Kept) /\ redo \in Seq(Kept) /\ Kept \subseteq Steps
    BY DEF IInv, History, Kept
<1>2. undo \o redo \in Seq(Kept)
    BY <1>1, ConcatProperties
<1>3. \A step \in ToSet(undo \o redo) : step \in Kept
    BY <1>2, LenProperties, ElementOfSeq DEF ToSet
<1> QED
    BY <1>1, <1>3, SeqMonotonic DEF Kept

LEMMA TypesHold == IInv => TypeOK
<1> SUFFICES ASSUME IInv PROVE TypeOK
    OBVIOUS
<1>1. undo \in Seq(Steps) /\ redo \in Seq(Steps)
    BY HistoryIsSafe
<1>2. events \in Seq({"started", "finished", "read"})
  <2>1. \/ Settled(events, busy) \/ SettledTwice(events, busy) \/ Over(events, busy)
        \/ Announced(events, busy) \/ AnnouncedTwice(events, busy)
    BY DEF IInv, Behind, Running, Settled
  <2> DEFINE E == {"started", "finished", "read"}
  <2>2. /\ <<>> \in Seq(E) /\ <<"started">> \in Seq(E) /\ <<"finished">> \in Seq(E) /\ <<"read">> \in Seq(E)
        /\ <<"started", "finished">> \in Seq(E) /\ <<"finished", "started">> \in Seq(E)
        /\ <<"finished", "read">> \in Seq(E) /\ <<"started", "finished", "read">> \in Seq(E)
        /\ <<"started", "finished", "started">> \in Seq(E)
        /\ <<"finished", "started", "finished">> \in Seq(E)
        /\ <<"started", "finished", "started", "finished">> \in Seq(E)
        /\ <<"finished", "started", "finished", "read">> \in Seq(E)
        /\ <<"started", "finished", "started", "finished", "read">> \in Seq(E)
    OBVIOUS
  <2> HIDE DEF E
  <2>3. events \in Seq(E)
    BY <2>1, <2>2, Zenon DEF Settled, SettledTwice, Announced, AnnouncedTwice, Over
  <2> QED
    BY <2>3 DEF E
<1> QED
    BY <1>1, <1>2 DEF IInv, Types, History, Behind, TypeOK

\* The members of the controller and the history have their types.
THEOREM TypeCorrect == Spec => []TypeOK
BY Invariance, TypesHold, PTL

\* No command is accepted while a document is being read or its end is to be
\* delivered, and the history never holds a step that would empty it.
THEOREM CommandsDoNotOverlap == Spec => []NoOverlap
<1>1. IInv => NoOverlap
    BY TypesHold, HistoryIsSafe, CommandFinds DEF NoOverlap
<1> QED
    BY <1>1, Invariance, PTL

\* What the editor gives up without a question is what the file holds.
THEOREM NothingUnsavedIsLost == Spec => []SavedIsOnDisk
<1>1. IInv => SavedIsOnDisk
    BY DEF IInv
<1> QED
    BY <1>1, Invariance, PTL

-----------------------------------------------------------------------------
(* PDFUndoRedoManager implements UndoTimeline: the pairs of documents it   *)
(* keeps are a window of one line of states.  Beyond IInv this needs that  *)
(* neighbouring pairs share a document.                                    *)

States == Documents \cup {NoDocument}

\* What Timeline substitutes for its line.
LineOf(u, d, r) == [i \in DOMAIN u |-> u[i].old] \o <<d>> \o [i \in DOMAIN r |-> r[i].new]

\* The pairs kept are neighbours on the line, and the document stands between them.
OnLine(line, u, d, r) ==
    /\ line \in Seq(States) /\ Len(line) = Len(u) + 1 + Len(r)
    /\ \A i \in 1 .. Len(u) : u[i].old = line[i] /\ u[i].new = line[i + 1]
    /\ line[Len(u) + 1] = d
    /\ \A i \in 1 .. Len(r) : r[i].old = line[Len(u) + i] /\ r[i].new = line[Len(u) + 1 + i]

\* What IInv leaves out: neighbours share a document, and the limits are kept.
Linked ==
    /\ OnLine(LineOf(undo, document, redo), undo, document, redo)
    /\ Len(undo) <= limits.undo /\ Len(redo) <= limits.redo

-----------------------------------------------------------------------------
(* The line of states, element by element. *)

\* w is x, the element of m, and y.
Parts(S, w, x, m, y) ==
    /\ w \in Seq(S) /\ Len(w) = Len(x) + 1 + Len(y)
    /\ \A i \in 1 .. Len(x) : w[i] = x[i]
    /\ w[Len(x) + 1] = m[1]
    /\ \A i \in 1 .. Len(y) : w[Len(x) + 1 + i] = y[i]

\* The elements of a sequence put together of two and one element between them.
LEMMA ThreeParts ==
    ASSUME NEW S, NEW x \in Seq(S), NEW m \in Seq(S), Len(m) = 1, NEW y \in Seq(S),
           NEW w, w = (x \o m) \o y
    PROVE  Parts(S, w, x, m, y)
<1> DEFINE z == x \o m
<1>1. Len(x) \in Nat /\ Len(y) \in Nat
    BY LenProperties
<1>2. /\ z \in Seq(S) /\ Len(z) = Len(x) + 1
      /\ \A i \in 1 .. Len(x) + 1 : z[i] = IF i <= Len(x) THEN x[i] ELSE m[i - Len(x)]
  <2>1. /\ z \in Seq(S) /\ Len(z) = Len(x) + Len(m)
        /\ \A i \in 1 .. Len(x) + Len(m) : z[i] = IF i <= Len(x) THEN x[i] ELSE m[i - Len(x)]
    BY ConcatProperties, Zenon
  <2> QED
    BY <2>1
<1> HIDE DEF z
<1>3. /\ w \in Seq(S) /\ Len(w) = Len(x) + 1 + Len(y)
      /\ \A i \in 1 .. Len(x) + 1 + Len(y) :
            w[i] = IF i <= Len(x) + 1 THEN z[i] ELSE y[i - (Len(x) + 1)]
  <2>1. /\ w \in Seq(S) /\ Len(w) = Len(z) + Len(y)
        /\ \A i \in 1 .. Len(z) + Len(y) : w[i] = IF i <= Len(z) THEN z[i] ELSE y[i - Len(z)]
    <3>1. z \in Seq(S) /\ w = z \o y
      BY <1>2 DEF z
    <3>2. /\ z \o y \in Seq(S) /\ Len(z \o y) = Len(z) + Len(y)
          /\ \A i \in 1 .. Len(z) + Len(y) : (z \o y)[i] = IF i <= Len(z) THEN z[i] ELSE y[i - Len(z)]
      BY <3>1, ConcatProperties, Zenon
    <3> QED
      BY <3>1, <3>2
  <2>2. Len(z) = Len(x) + 1
    BY <1>2
  <2> QED
    BY <2>1, <2>2, Zenon
<1>4. \A i \in 1 .. Len(x) : w[i] = x[i]
    BY <1>1, <1>2, <1>3
<1>5. w[Len(x) + 1] = m[1]
    BY <1>1, <1>2, <1>3
<1>6. ASSUME NEW i \in 1 .. Len(y) PROVE w[Len(x) + 1 + i] = y[i]
  <2> DEFINE j == Len(x) + 1 + i
  <2>1. /\ j \in 1 .. Len(x) + 1 + Len(y) /\ ~(j <= Len(x) + 1) /\ j - (Len(x) + 1) = i
    BY <1>1
  <2> HIDE DEF j
  <2>2. w[j] = y[i]
    BY <1>3, <2>1
  <2> QED
    BY <2>2 DEF j
<1> QED
    BY <1>3, <1>4, <1>5, <1>6 DEF Parts

\* The elements of the line: the old documents of undo, the present one, the new ones of redo.
LEMMA LineElements ==
    ASSUME NEW u \in Seq(Kept), NEW d \in States, NEW r \in Seq(Kept)
    PROVE  /\ Len(u) \in Nat /\ Len(r) \in Nat
           /\ LineOf(u, d, r) \in Seq(States) /\ Len(LineOf(u, d, r)) = Len(u) + 1 + Len(r)
           /\ \A i \in 1 .. Len(u) : LineOf(u, d, r)[i] = u[i].old
           /\ LineOf(u, d, r)[Len(u) + 1] = d
           /\ \A i \in 1 .. Len(r) : LineOf(u, d, r)[Len(u) + 1 + i] = r[i].new
<1> DEFINE x == [i \in DOMAIN u |-> u[i].old]
           m == <<d>>
           y == [i \in DOMAIN r |-> r[i].new]
<1>1. /\ Len(u) \in Nat /\ DOMAIN u = 1 .. Len(u)
      /\ Len(r) \in Nat /\ DOMAIN r = 1 .. Len(r)
    BY LenProperties
<1>2. /\ \A i \in 1 .. Len(u) : u[i].old \in States
      /\ \A i \in 1 .. Len(r) : r[i].new \in States
  <2>1. /\ \A i \in 1 .. Len(u) : u[i] \in Kept
        /\ \A i \in 1 .. Len(r) : r[i] \in Kept
    BY ElementOfSeq
  <2> QED
    BY <2>1 DEF Kept, Steps, States
<1>3. /\ x \in Seq(States) /\ Len(x) = Len(u) /\ \A i \in 1 .. Len(u) : x[i] = u[i].old
      /\ y \in Seq(States) /\ Len(y) = Len(r) /\ \A i \in 1 .. Len(r) : y[i] = r[i].new
  <2>1. x \in [1 .. Len(u) -> States] /\ y \in [1 .. Len(r) -> States]
    BY <1>1, <1>2
  <2> QED
    BY <1>1, <2>1
<1>4. m \in Seq(States) /\ Len(m) = 1 /\ m[1] = d
    OBVIOUS
<1> DEFINE w == (x \o m) \o y
<1>5. LineOf(u, d, r) = w
    BY DEF LineOf
<1> HIDE DEF x, m, y
<1>6. w = (x \o m) \o y /\ x \in Seq(States) /\ m \in Seq(States) /\ Len(m) = 1 /\ y \in Seq(States)
    BY <1>3, <1>4
<1> HIDE DEF w
<1>8. /\ w \in Seq(States) /\ Len(w) = Len(x) + 1 + Len(y)
      /\ \A i \in 1 .. Len(x) : w[i] = x[i]
      /\ w[Len(x) + 1] = m[1]
      /\ \A i \in 1 .. Len(y) : w[Len(x) + 1 + i] = y[i]
  <2>1. Parts(States, w, x, m, y)
    BY <1>6, ThreeParts
  <2> QED
    BY <2>1 DEF Parts
<1>7. /\ w \in Seq(States) /\ Len(w) = Len(u) + 1 + Len(r)
      /\ \A i \in 1 .. Len(u) : w[i] = u[i].old
      /\ w[Len(u) + 1] = d
      /\ \A i \in 1 .. Len(r) : w[Len(u) + 1 + i] = r[i].new
  <2>1. /\ w \in Seq(States) /\ Len(w) = Len(u) + 1 + Len(r)
    BY <1>3, <1>8
  <2>2. \A i \in 1 .. Len(u) : w[i] = u[i].old
    BY <1>3, <1>8, Zenon
  <2>3. w[Len(u) + 1] = d
    BY <1>3, <1>4, <1>8, Zenon
  <2>4. \A i \in 1 .. Len(r) : w[Len(u) + 1 + i] = r[i].new
    BY <1>3, <1>8, Zenon
  <2> QED
    BY <2>1, <2>2, <2>3, <2>4
<1> QED
    BY <1>1, <1>5, <1>7

\* There is only one such line.
LEMMA OneLine ==
    ASSUME NEW u \in Seq(Kept), NEW d \in States, NEW r \in Seq(Kept), NEW line,
           OnLine(line, u, d, r)
    PROVE  line = LineOf(u, d, r)
<1> DEFINE w == LineOf(u, d, r)
<1>1. /\ Len(u) \in Nat /\ Len(r) \in Nat /\ w \in Seq(States) /\ Len(w) = Len(u) + 1 + Len(r)
      /\ \A i \in 1 .. Len(u) : w[i] = u[i].old
      /\ w[Len(u) + 1] = d
      /\ \A i \in 1 .. Len(r) : w[Len(u) + 1 + i] = r[i].new
    BY LineElements
<1> HIDE DEF w
<1>2. ASSUME NEW i \in 1 .. Len(w) PROVE line[i] = w[i]
  <2>1. CASE i \in 1 .. Len(u)
    BY <1>1, <2>1 DEF OnLine
  <2>2. CASE i = Len(u) + 1
    BY <1>1, <2>2 DEF OnLine
  <2>3. CASE i > Len(u) + 1
    <3> DEFINE k == i - Len(u) - 1
    <3>1. k \in 1 .. Len(r) /\ i = Len(u) + 1 + k
      BY <1>1, <2>3
    <3> HIDE DEF k
    <3>2. w[Len(u) + 1 + k] = line[Len(u) + 1 + k]
      BY <1>1, <3>1 DEF OnLine
    <3> QED
      BY <3>1, <3>2
  <2> QED
    BY <1>1, <2>1, <2>2, <2>3
<1>3. line \in Seq(States) /\ Len(line) = Len(w)
    BY <1>1 DEF OnLine
<1> QED
    BY <1>1, <1>2, <1>3, SeqEqual DEF w

-----------------------------------------------------------------------------
(* What the operations of the manager do to the line. *)

\* The first document of a history.
LEMMA FreshLine ==
    ASSUME NEW d \in States
    PROVE  OnLine(<<d>>, <<>>, d, <<>>)
<1>1. Len(<<>>) = 0 /\ Len(<<d>>) = 1 /\ <<d>>[1] = d /\ <<d>> \in Seq(States)
    BY EmptySeq
<1> QED
    BY <1>1 DEF OnLine

\* Undo moves the document by one.
LEMMA UndoneLine ==
    ASSUME NEW u \in Seq(Kept), NEW d \in States, NEW r \in Seq(Kept), NEW line,
           OnLine(line, u, d, r), u # <<>>
    PROVE  OnLine(line, Front(u), Last(u).old, <<Last(u)>> \o r)
<1> DEFINE f == Front(u)
           q == <<Last(u)>> \o r
           n == Len(u)
<1>1. n \in Nat \ {0} /\ Len(r) \in Nat /\ \A i \in 1 .. n : u[i] \in Kept
    BY EmptySeq, LenProperties, ElementOfSeq
<1>2. Len(f) = n - 1 /\ \A i \in 1 .. n - 1 : f[i] = u[i]
  <2>1. /\ Len(SubSeq(u, 1, n - 1)) = (IF 1 <= n - 1 THEN n - 1 - 1 + 1 ELSE 0)
        /\ \A i \in 1 .. n - 1 - 1 + 1 : SubSeq(u, 1, n - 1)[i] = u[1 + i - 1]
    <3>1. 1 \in Int /\ n - 1 \in Int /\ \A i \in 1 .. n - 1 : u[i] \in Kept
      BY <1>1
    <3> HIDE DEF n
    <3> QED
      BY <3>1, SubSeqProperties
  <2>2. f = SubSeq(u, 1, n - 1)
    BY DEF Front
  <2> HIDE DEF n, f
  <2> QED
    BY <1>1, <2>1, <2>2
<1>3. Last(u) = u[n] /\ Last(u) \in Kept
    BY <1>1 DEF Last
<1>4. Len(q) = Len(r) + 1 /\ q[1] = u[n] /\ \A i \in 1 .. Len(r) : q[i + 1] = r[i]
  <2> DEFINE o == <<Last(u)>>
  <2>1. o \in Seq(Kept) /\ Len(o) = 1 /\ o[1] = u[n]
    BY <1>3
  <2>2. /\ Len(q) = Len(o) + Len(r)
        /\ \A i \in 1 .. Len(o) + Len(r) : q[i] = IF i <= Len(o) THEN o[i] ELSE r[i - Len(o)]
    <3>1. o \in Seq(Kept)
      BY <2>1
    <3> HIDE DEF o
    <3>2. q = o \o r
      BY DEF o
    <3> HIDE DEF q
    <3> QED
      BY <3>1, <3>2, ConcatProperties, Zenon
  <2> HIDE DEF o, q, n
  <2> QED
    BY <1>1, <2>1, <2>2
<1> HIDE DEF f, q, n
<1>5. /\ line \in Seq(States) /\ Len(line) = n + 1 + Len(r)
      /\ \A i \in 1 .. n : u[i].old = line[i] /\ u[i].new = line[i + 1]
      /\ \A i \in 1 .. Len(r) : r[i].old = line[n + i] /\ r[i].new = line[n + 1 + i]
    BY DEF OnLine, n
<1>6. ASSUME NEW i \in 1 .. Len(f) PROVE f[i].old = line[i] /\ f[i].new = line[i + 1]
  <2>1. i \in 1 .. n - 1 /\ i \in 1 .. n
    <3>1. n \in Nat /\ Len(f) = n - 1
      BY <1>1, <1>2
    <3> QED
      BY <3>1
  <2> QED
    BY <1>2, <1>5, <2>1
<1>7. ASSUME NEW i \in 1 .. Len(q) PROVE q[i].old = line[Len(f) + i] /\ q[i].new = line[Len(f) + 1 + i]
  <2>1. CASE i = 1
    BY <1>1, <1>2, <1>4, <1>5, <2>1
  <2>2. CASE i # 1
    <3> DEFINE k == i - 1
    <3>1. k \in 1 .. Len(r) /\ i = k + 1 /\ Len(f) + i = n + k /\ Len(f) + 1 + i = n + 1 + k
      <4>1. n \in Nat /\ Len(r) \in Nat /\ Len(f) = n - 1 /\ Len(q) = Len(r) + 1
        BY <1>1, <1>2, <1>4
      <4> QED
        BY <2>2, <4>1
    <3> HIDE DEF k
    <3>2. q[k + 1] = r[k] /\ r[k].old = line[n + k] /\ r[k].new = line[n + 1 + k]
      BY <1>4, <1>5, <3>1, Zenon
    <3> QED
      BY <3>1, <3>2, Zenon
  <2> QED
    BY <2>1, <2>2
<1>8. line[Len(f) + 1] = Last(u).old /\ Len(line) = Len(f) + 1 + Len(q)
    BY <1>1, <1>2, <1>3, <1>4, <1>5
<1> QED
    BY <1>5, <1>6, <1>7, <1>8 DEF OnLine, f, q

\* Redo moves it back.
LEMMA RedoneLine ==
    ASSUME NEW u \in Seq(Kept), NEW d \in States, NEW r \in Seq(Kept), NEW line,
           OnLine(line, u, d, r), r # <<>>
    PROVE  OnLine(line, Append(u, Head(r)), Head(r).new, Tail(r))
<1> DEFINE a == Append(u, Head(r))
           b == Tail(r)
           n == Len(u)
<1>1. n \in Nat /\ Len(r) \in Nat \ {0} /\ Head(r) \in Kept /\ Head(r) = r[1]
    BY EmptySeq, LenProperties, HeadTailProperties
<1>2. Len(a) = n + 1 /\ a[n + 1] = r[1] /\ \A i \in 1 .. n : a[i] = u[i]
    BY <1>1, AppendProperties
<1>3. Len(b) = Len(r) - 1 /\ \A i \in 1 .. Len(b) : b[i] = r[i + 1]
    BY HeadTailProperties
<1> HIDE DEF a, b, n
<1>4. /\ line \in Seq(States) /\ Len(line) = n + 1 + Len(r)
      /\ \A i \in 1 .. n : u[i].old = line[i] /\ u[i].new = line[i + 1]
      /\ \A i \in 1 .. Len(r) : r[i].old = line[n + i] /\ r[i].new = line[n + 1 + i]
    BY DEF OnLine, n
<1>5. r[1].old = line[n + 1] /\ r[1].new = line[n + 1 + 1]
    BY <1>1, <1>4
<1>6. ASSUME NEW i \in 1 .. Len(a) PROVE a[i].old = line[i] /\ a[i].new = line[i + 1]
  <2>1. CASE i = n + 1
    BY <1>2, <1>5, <2>1
  <2>2. CASE i # n + 1
    <3>1. i \in 1 .. n
      <4>1. n \in Nat /\ Len(a) = n + 1
        BY <1>1, <1>2
      <4> QED
        BY <2>2, <4>1
    <3> QED
      BY <1>2, <1>4, <3>1
  <2> QED
    BY <2>1, <2>2
<1>7. ASSUME NEW i \in 1 .. Len(b) PROVE b[i].old = line[Len(a) + i] /\ b[i].new = line[Len(a) + 1 + i]
  <2> DEFINE k == i + 1
  <2>1. k \in 1 .. Len(r) /\ Len(a) + i = n + k /\ Len(a) + 1 + i = n + 1 + k
    <3>1. n \in Nat /\ Len(r) \in Nat /\ Len(a) = n + 1 /\ Len(b) = Len(r) - 1
      BY <1>1, <1>2, <1>3
    <3> QED
      BY <3>1
  <2>2. b[i] = r[k]
    BY <1>3
  <2> HIDE DEF k
  <2>3. r[k].old = line[n + k] /\ r[k].new = line[n + 1 + k]
    BY <1>4, <2>1
  <2> QED
    BY <2>1, <2>2, <2>3
<1>8. line[Len(a) + 1] = Head(r).new /\ Len(line) = Len(a) + 1 + Len(b)
    BY <1>1, <1>2, <1>3, <1>4, <1>5
<1> QED
    BY <1>4, <1>6, <1>7, <1>8 DEF OnLine, a, b

\* A change puts a new document where the ones undone were.
LEMMA ChangedLine ==
    ASSUME NEW u \in Seq(Kept), NEW d \in States, NEW r \in Seq(Kept), NEW line,
           OnLine(line, u, d, r), NEW step \in Kept, step.old = d
    PROVE  OnLine(SubSeq(line, 1, Len(u) + 1) \o <<step.new>>, Append(u, step), step.new, <<>>)
<1> DEFINE a == Append(u, step)
           n == Len(u)
           o == <<step.new>>
           h == SubSeq(line, 1, n + 1)
           w == h \o o
<1>1. n \in Nat /\ Len(r) \in Nat /\ Len(<<>>) = 0
    BY EmptySeq, LenProperties
<1>2. Len(a) = n + 1 /\ a[n + 1] = step /\ \A i \in 1 .. n : a[i] = u[i]
    BY <1>1, AppendProperties
<1>3. step.new \in States
    BY DEF Kept, Steps, States
<1>4. o \in Seq(States) /\ Len(o) = 1 /\ o[1] = step.new
    BY <1>3
<1> HIDE DEF a, n, o
<1>5. /\ line \in Seq(States) /\ Len(line) = n + 1 + Len(r) /\ line[n + 1] = d
      /\ \A i \in 1 .. n : u[i].old = line[i] /\ u[i].new = line[i + 1]
    BY DEF OnLine, n
<1>6. h \in Seq(States) /\ Len(h) = n + 1 /\ \A i \in 1 .. n + 1 : h[i] = line[i]
  <2>1. 1 \in Int /\ n + 1 \in Int /\ 1 <= n + 1 /\ \A i \in 1 .. n + 1 : line[i] \in States
    <3>1. \A i \in 1 .. n + 1 : i \in 1 .. Len(line)
      <4>1. n \in Nat /\ Len(r) \in Nat /\ Len(line) = n + 1 + Len(r)
        BY <1>1, <1>5
      <4> QED
        BY <4>1
    <3> QED
      BY <1>1, <1>5, <3>1, ElementOfSeq
  <2> QED
    BY <1>1, <2>1, SubSeqProperties
<1> HIDE DEF h
<1>7. /\ w \in Seq(States) /\ Len(w) = n + 1 + 1
      /\ \A i \in 1 .. n + 1 : w[i] = line[i]
      /\ w[n + 1 + 1] = step.new
  <2>1. /\ h \o o \in Seq(States) /\ Len(h \o o) = Len(h) + Len(o)
        /\ \A i \in 1 .. Len(h) + Len(o) : (h \o o)[i] = IF i <= Len(h) THEN h[i] ELSE o[i - Len(h)]
    BY <1>4, <1>6, ConcatProperties, Zenon
  <2> HIDE DEF w
  <2>2. w = h \o o
    BY DEF w
  <2> QED
    BY <1>1, <1>4, <1>6, <2>1, <2>2
<1> HIDE DEF w
<1>8. ASSUME NEW i \in 1 .. Len(a) PROVE a[i].old = w[i] /\ a[i].new = w[i + 1]
  <2>1. CASE i = n + 1
    BY <1>1, <1>2, <1>5, <1>7, <2>1
  <2>2. CASE i # n + 1
    <3>1. i \in 1 .. n /\ i \in 1 .. n + 1 /\ i + 1 \in 1 .. n + 1
      <4>1. n \in Nat /\ Len(a) = n + 1
        BY <1>1, <1>2
      <4> QED
        BY <2>2, <4>1
    <3> QED
      BY <1>2, <1>5, <1>7, <3>1
  <2> QED
    BY <2>1, <2>2
<1>9. w[Len(a) + 1] = step.new /\ Len(w) = Len(a) + 1 + Len(<<>>)
    BY <1>1, <1>2, <1>7
<1>10. OnLine(w, a, step.new, <<>>)
  <2>1. \A i \in 1 .. Len(<<>>) : FALSE
    BY <1>1
  <2> QED
    BY <1>7, <1>8, <1>9, <2>1 DEF OnLine
<1> QED
    BY <1>10 DEF a, w, h, o, n

\* What clampUndoRedoSteps leaves: the newest undo steps, the nearest redo steps.
LEMMA ClampedSteps ==
    ASSUME NEW steps \in Seq(Kept), NEW limit \in Nat
    PROVE  /\ Len(steps) \in Nat
           /\ Len(ClampedUndo(steps, limit)) = IF Len(steps) > limit THEN limit ELSE Len(steps)
           /\ \A i \in 1 .. Len(ClampedUndo(steps, limit)) :
                ClampedUndo(steps, limit)[i] = steps[Len(steps) - Len(ClampedUndo(steps, limit)) + i]
           /\ Len(ClampedRedo(steps, limit)) = IF Len(steps) > limit THEN limit ELSE Len(steps)
           /\ \A i \in 1 .. Len(ClampedRedo(steps, limit)) : ClampedRedo(steps, limit)[i] = steps[i]
<1> DEFINE n == Len(steps)
           cu == ClampedUndo(steps, limit)
           cr == ClampedRedo(steps, limit)
<1>1. n \in Nat
    BY LenProperties
<1>2. CASE n > limit
  <2> DEFINE a == SubSeq(steps, n - limit + 1, n)
             b == SubSeq(steps, 1, limit)
  <2>1. cu = a /\ cr = b
    BY <1>2 DEF ClampedUndo, ClampedRedo
  <2>2. /\ n - limit + 1 \in Int /\ n \in Int /\ 1 \in Int /\ limit \in Int
        /\ \A i \in n - limit + 1 .. n : steps[i] \in Kept
        /\ \A i \in 1 .. limit : steps[i] \in Kept
    <3>1. /\ \A i \in n - limit + 1 .. n : i \in 1 .. n
          /\ \A i \in 1 .. limit : i \in 1 .. n
      BY <1>1, <1>2
    <3> QED
      BY <1>1, <3>1, ElementOfSeq
  <2> HIDE DEF n
  <2>3. /\ Len(a) = (IF n - limit + 1 <= n THEN n - (n - limit + 1) + 1 ELSE 0)
        /\ \A i \in 1 .. n - (n - limit + 1) + 1 : a[i] = steps[n - limit + 1 + i - 1]
    BY <2>2, SubSeqProperties
  <2>4. /\ Len(b) = (IF 1 <= limit THEN limit - 1 + 1 ELSE 0)
        /\ \A i \in 1 .. limit - 1 + 1 : b[i] = steps[1 + i - 1]
    BY <2>2, SubSeqProperties
  <2> HIDE DEF a, b, cu, cr
  <2>5. Len(a) = limit /\ Len(b) = limit
    <3>1. /\ Len(a) = (IF n - limit + 1 <= n THEN n - (n - limit + 1) + 1 ELSE 0)
          /\ Len(b) = (IF 1 <= limit THEN limit - 1 + 1 ELSE 0)
      BY <2>3, <2>4
    <3> QED
      BY <1>1, <3>1
  <2>6. ASSUME NEW i \in 1 .. limit PROVE a[i] = steps[n - limit + i] /\ b[i] = steps[i]
    <3>1. /\ i \in 1 .. n - (n - limit + 1) + 1 /\ n - limit + 1 + i - 1 = n - limit + i
          /\ i \in 1 .. limit - 1 + 1 /\ 1 + i - 1 = i
      BY <1>1
    <3> QED
      BY <2>3, <2>4, <3>1
  <2>7. Len(cu) = limit /\ Len(cr) = limit
    BY <2>1, <2>5
  <2>8. \A i \in 1 .. Len(cu) : cu[i] = steps[n - Len(cu) + i]
    BY <2>1, <2>6, <2>7
  <2>9. \A i \in 1 .. Len(cr) : cr[i] = steps[i]
    BY <2>1, <2>6, <2>7
  <2> QED
    BY <1>1, <1>2, <2>7, <2>8, <2>9 DEF n, cu, cr
<1>3. CASE ~(n > limit)
  <2>1. cu = steps /\ cr = steps
    BY <1>3 DEF ClampedUndo, ClampedRedo
  <2>2. \A i \in 1 .. n : n - n + i = i
    BY <1>1
  <2> QED
    BY <1>1, <1>3, <2>1, <2>2
<1> QED
    BY <1>2, <1>3

\* What the limits leave is a window of the line.
LEMMA KeptLine ==
    ASSUME NEW u \in Seq(Kept), NEW d \in States, NEW r \in Seq(Kept), NEW line,
           OnLine(line, u, d, r), NEW l \in Limits,
           NEW cu, cu = ClampedUndo(u, l.undo), NEW cr, cr = ClampedRedo(r, l.redo)
    PROVE  OnLine(SubSeq(line, Len(u) + 1 - Len(cu), Len(u) + 1 + Len(cr)), cu, d, cr)
<1> DEFINE n == Len(u)
           m == Len(cu)
           k == Len(cr)
           v == SubSeq(line, n + 1 - m, n + 1 + k)
<1>1. /\ n \in Nat /\ Len(r) \in Nat /\ l.undo \in Nat /\ l.redo \in Nat
      /\ m = IF n > l.undo THEN l.undo ELSE n
      /\ k = IF Len(r) > l.redo THEN l.redo ELSE Len(r)
    BY ClampedSteps, LimitsAssumption
<1>2. /\ \A i \in 1 .. m : cu[i] = u[n - m + i]
      /\ \A i \in 1 .. k : cr[i] = r[i]
    BY ClampedSteps, LimitsAssumption
<1> HIDE DEF n, m, k
<1>3. n \in Nat /\ Len(r) \in Nat /\ m \in Nat /\ k \in Nat /\ m <= n /\ k <= Len(r)
    BY <1>1
<1>4. /\ line \in Seq(States) /\ Len(line) = n + 1 + Len(r) /\ line[n + 1] = d
      /\ \A i \in 1 .. n : u[i].old = line[i] /\ u[i].new = line[i + 1]
      /\ \A i \in 1 .. Len(r) : r[i].old = line[n + i] /\ r[i].new = line[n + 1 + i]
    BY DEF OnLine, n
<1>5. /\ v \in Seq(States) /\ Len(v) = m + 1 + k
      /\ \A i \in 1 .. m + 1 + k : v[i] = line[n - m + i]
  <2> DEFINE a == n + 1 - m
             b == n + 1 + k
  <2>1. a \in Int /\ b \in Int /\ a <= b /\ b - a + 1 = m + 1 + k
    BY <1>3
  <2>8. \A i \in a .. b : i \in 1 .. n + 1 + Len(r)
    BY <1>3
  <2>2. \A i \in 1 .. m + 1 + k : a + i - 1 = n - m + i
    BY <1>3
  <2>3. v = SubSeq(line, a, b)
    OBVIOUS
  <2> HIDE DEF a, b, v
  <2>4. \A i \in a .. b : line[i] \in States
    BY <1>4, <2>8, ElementOfSeq
  <2>5. /\ SubSeq(line, a, b) \in Seq(States)
        /\ Len(SubSeq(line, a, b)) = (IF a <= b THEN b - a + 1 ELSE 0)
        /\ \A i \in 1 .. b - a + 1 : SubSeq(line, a, b)[i] = line[a + i - 1]
    BY <2>1, <2>4, SubSeqProperties
  <2>6. Len(v) = m + 1 + k /\ v \in Seq(States)
    BY <2>1, <2>3, <2>5
  <2>7. ASSUME NEW i \in 1 .. m + 1 + k PROVE v[i] = line[n - m + i]
    BY <2>1, <2>2, <2>3, <2>5
  <2> QED
    BY <2>6, <2>7
<1> HIDE DEF v
<1>6. ASSUME NEW i \in 1 .. m PROVE cu[i].old = v[i] /\ cu[i].new = v[i + 1]
  <2> DEFINE j == n - m + i
  <2>1. /\ j \in 1 .. n /\ i \in 1 .. m + 1 + k /\ i + 1 \in 1 .. m + 1 + k
        /\ n - m + (i + 1) = j + 1
    BY <1>3
  <2>2. cu[i] = u[j]
    BY <1>2
  <2>3. v[i] = line[j]
    BY <1>5, <2>1
  <2> HIDE DEF j
  <2>4. v[i + 1] = line[j + 1]
    BY <1>5, <2>1
  <2> QED
    BY <1>4, <2>1, <2>2, <2>3, <2>4
<1>7. ASSUME NEW i \in 1 .. k PROVE cr[i].old = v[m + i] /\ cr[i].new = v[m + 1 + i]
  <2>1. /\ i \in 1 .. Len(r) /\ m + i \in 1 .. m + 1 + k /\ m + 1 + i \in 1 .. m + 1 + k
        /\ n - m + (m + i) = n + i /\ n - m + (m + 1 + i) = n + 1 + i
    BY <1>3
  <2>2. v[m + i] = line[n + i] /\ v[m + 1 + i] = line[n + 1 + i]
    BY <1>5, <2>1
  <2> QED
    BY <1>2, <1>4, <2>1, <2>2
<1>8. v[m + 1] = d
  <2>1. m + 1 \in 1 .. m + 1 + k /\ n - m + (m + 1) = n + 1
    BY <1>3
  <2>2. v[m + 1] = line[n + 1]
    BY <1>5, <2>1
  <2> QED
    BY <1>4, <2>2
<1>9. OnLine(v, cu, d, cr)
    BY <1>5, <1>6, <1>7, <1>8 DEF OnLine, m, k
<1> QED
    BY <1>9 DEF v, m, n, k

-----------------------------------------------------------------------------
(* The steps of the session are steps of the line. *)

\* The line Timeline substitutes.
Line == LineOf(undo, document, redo)

\* What the invariant says of the history.
LEMMA HistoryFound ==
    ASSUME IInv
    PROVE  /\ undo \in Seq(Kept) /\ redo \in Seq(Kept) /\ document \in States
           /\ limits \in Limits /\ limits.undo \in Nat /\ limits.redo \in Nat
BY LimitsAssumption DEF IInv, Types, History, States

\* A step that leaves the history alone is a stutter of the line.
LEMMA QuietStep ==
    ASSUME Linked, UNCHANGED <<document, undo, redo, limits>>
    PROVE  Linked' /\ UNCHANGED Timeline!vars
<1>1. Linked'
    BY DEF Linked, LineOf, OnLine
<1>2. UNCHANGED Timeline!vars
    BY DEF Timeline!vars
<1> QED
    BY <1>1, <1>2

\* A history that is emptied.
LEMMA ResetStep ==
    ASSUME IInv, IInv', undo' = <<>>, redo' = <<>>, UNCHANGED limits
    PROVE  Linked' /\ Timeline!Restart
<1>1. document' \in States /\ limits'.undo \in Nat /\ limits'.redo \in Nat
    BY HistoryFound, LimitsAssumption DEF IInv, Types, History, States
<1>2. OnLine(<<document'>>, <<>>, document', <<>>)
    BY <1>1, FreshLine
<1>3. <<>> \in Seq(Kept) /\ Len(<<>>) = 0
    BY EmptySeq
<1>4. <<document'>> = LineOf(<<>>, document', <<>>)
    BY <1>1, <1>2, <1>3, OneLine
<1>5. Line' = <<document'>>
    BY <1>4 DEF Line, LineOf
<1>6. Linked'
    BY <1>1, <1>2, <1>3, <1>5 DEF Linked, Line
<1>7. Len(Line') = 1 /\ Len(undo') + 1 = 1
    BY <1>3, <1>5
<1> QED
    BY <1>6, <1>7 DEF Timeline!Restart, Line, LineOf

\* How many states are kept before position n + 1.
LEMMA BeforeIs ==
    ASSUME NEW n \in Nat, NEW limit \in Nat
    PROVE  Timeline!Before(n + 1, limit) = IF n > limit THEN limit ELSE n
<1>1. n + 1 - 1 = n
    OBVIOUS
<1> QED
    BY <1>1 DEF Timeline!Before

\* What a step of the line keeps, as UndoTimeline says it.
LEMMA KeepIs ==
    ASSUME NEW line, NEW p,
           Len(undo') = Timeline!Before(p, limits'.undo),
           Line' = SubSeq(line, p - Timeline!Before(p, limits'.undo),
                         IF Len(line) - p > limits'.redo THEN p + limits'.redo ELSE Len(line))
    PROVE  Timeline!Keep(line, p)
<1>1. ([i \in DOMAIN undo |-> undo[i].old] \o <<document>> \o [i \in DOMAIN redo |-> redo[i].new])'
              = SubSeq(line, p - Timeline!Before(p, (limits.undo)'),
                       IF Len(line) - p > (limits.redo)' THEN p + (limits.redo)' ELSE Len(line))
    BY DEF Line, LineOf
<1> QED
    BY <1>1 DEF Timeline!Keep

\* A line of which the limits leave the present history.
LEMMA KeptStep ==
    ASSUME IInv', NEW u \in Seq(Kept), NEW r \in Seq(Kept), NEW line, NEW p,
           OnLine(line, u, document', r), p = Len(u) + 1,
           undo' = ClampedUndo(u, limits'.undo), redo' = ClampedRedo(r, limits'.redo)
    PROVE  /\ Linked'
           /\ Len(undo') = Timeline!Before(p, limits'.undo)
           /\ Line' = SubSeq(line, p - Timeline!Before(p, limits'.undo),
                             IF Len(line) - p > limits'.redo THEN p + limits'.redo ELSE Len(line))
<1> DEFINE n == Len(u)
           m == Len(undo')
           k == Len(redo')
           v == SubSeq(line, p - m, p + k)
<1>1. /\ document' \in States /\ limits' \in Limits /\ limits'.undo \in Nat /\ limits'.redo \in Nat
      /\ undo' \in Seq(Kept) /\ redo' \in Seq(Kept)
    BY LimitsAssumption DEF IInv, Types, History, States
<1>2. /\ OnLine(v, undo', document', redo')
      /\ m = IF n > limits'.undo THEN limits'.undo ELSE n
      /\ k = IF Len(r) > limits'.redo THEN limits'.redo ELSE Len(r)
  <2>1. OnLine(SubSeq(line, Len(u) + 1 - Len(undo'), Len(u) + 1 + Len(redo')), undo', document', redo')
    BY <1>1, KeptLine, Zenon
  <2>2. Len(undo') = IF Len(u) > limits'.undo THEN limits'.undo ELSE Len(u)
    BY <1>1, ClampedSteps
  <2>3. Len(redo') = IF Len(r) > limits'.redo THEN limits'.redo ELSE Len(r)
    BY <1>1, ClampedSteps
  <2>4. v = SubSeq(line, Len(u) + 1 - Len(undo'), Len(u) + 1 + Len(redo'))
    OBVIOUS
  <2> QED
    BY <2>1, <2>2, <2>3, <2>4
<1>3. n \in Nat /\ Len(r) \in Nat /\ Len(line) = n + 1 + Len(r) /\ p = n + 1
    BY LenProperties DEF OnLine
<1> HIDE DEF n, m, k, v
<1>4. v = LineOf(undo', document', redo')
    BY <1>1, <1>2, OneLine
<1>5. Linked'
  <2>1. m <= limits'.undo /\ k <= limits'.redo
    BY <1>1, <1>2, <1>3
  <2> QED
    BY <1>2, <1>4, <2>1 DEF Linked, LineOf, m, k
<1>6. /\ Timeline!Before(p, limits'.undo) = m
      /\ (IF Len(line) - p > limits'.redo THEN p + limits'.redo ELSE Len(line)) = p + k
  <2>1. /\ m = IF n > limits'.undo THEN limits'.undo ELSE n
        /\ k = IF Len(r) > limits'.redo THEN limits'.redo ELSE Len(r)
    BY <1>2
  <2>2. limits'.undo \in Nat /\ limits'.redo \in Nat
    BY <1>1
  <2>3. Timeline!Before(p, limits'.undo) = m
    <3>1. Timeline!Before(p, limits'.undo) = IF n > limits'.undo THEN limits'.undo ELSE n
      BY <1>3, <2>2, BeforeIs
    <3> QED
      BY <2>1, <3>1
  <2>4. (IF Len(line) - p > limits'.redo THEN p + limits'.redo ELSE Len(line)) = p + k
    BY <1>3, <2>1, <2>2
  <2> QED
    BY <2>3, <2>4
<1>7. Line' = v
    BY <1>4 DEF Line, LineOf
<1>8. Len(undo') = Timeline!Before(p, limits'.undo)
    BY <1>6 DEF m
<1>9. Line' = SubSeq(line, p - Timeline!Before(p, limits'.undo),
                     IF Len(line) - p > limits'.redo THEN p + limits'.redo ELSE Len(line))
    BY <1>6, <1>7 DEF v
<1> QED
    BY <1>5, <1>8, <1>9

-----------------------------------------------------------------------------
(* Each operation. *)

\* The line of a state in which neighbours share a document.
LEMMA PresentLine ==
    ASSUME IInv, Linked
    PROVE  /\ OnLine(Line, undo, document, redo)
           /\ Len(undo) \in Nat /\ Len(redo) \in Nat
           /\ Len(undo) <= limits.undo /\ Len(redo) <= limits.redo
           /\ Len(Line) = Len(undo) + 1 + Len(redo)
<1>1. undo \in Seq(Kept) /\ redo \in Seq(Kept)
    BY HistoryFound
<1> QED
    BY <1>1, LenProperties DEF Linked, Line, OnLine

\* A history within its limit is left as it is.
LEMMA WithinLimit ==
    ASSUME NEW steps, NEW limit, ~(Len(steps) > limit)
    PROVE  ClampedUndo(steps, limit) = steps /\ ClampedRedo(steps, limit) = steps
BY DEF ClampedUndo, ClampedRedo

\* doUndo moves the position back on the same line.
LEMMA UndoStep ==
    ASSUME IInv, Linked, IInv', Undo
    PROVE  Linked' /\ Timeline!Undo
<1> DEFINE step == Last(undo)
           f == Front(undo)
           q == <<step>> \o redo
<1>1. undo \in Seq(Kept) /\ redo \in Seq(Kept) /\ document \in States /\ limits.undo \in Nat
    BY HistoryFound
<1>2. undo # <<>> /\ SetDocument(step.old, step.flag, f, ClampedRedo(q, limits.redo), FALSE)
    BY DEF Undo
<1>3. step \in Kept /\ f \in Seq(Kept)
    BY <1>1, <1>2, FrontKinds
<1>4. q \in Seq(Kept)
    BY <1>1, <1>3, ConcatProperties
<1>5. /\ document' = step.old /\ undo' = f /\ redo' = ClampedRedo(q, limits.redo)
      /\ limits' = limits
    BY <1>2, <1>3 DEF SetDocument, Kept
<1>6. Len(undo) \in Nat \ {0} /\ Len(f) = Len(undo) - 1
  <2> DEFINE n == Len(undo)
  <2>1. n \in Nat \ {0} /\ 1 \in Int /\ n - 1 \in Int /\ \A i \in 1 .. n - 1 : undo[i] \in Kept
    BY <1>1, <1>2, EmptySeq, ElementOfSeq
  <2>2. f = SubSeq(undo, 1, n - 1)
    BY DEF Front
  <2> HIDE DEF n, f
  <2>3. Len(SubSeq(undo, 1, n - 1)) = (IF 1 <= n - 1 THEN n - 1 - 1 + 1 ELSE 0)
    BY <2>1, SubSeqProperties
  <2>4. n \in Nat \ {0} /\ Len(f) = n - 1
    BY <2>1, <2>2, <2>3
  <2> QED
    BY <2>4 DEF n
<1>7. OnLine(Line, f, document', q)
    BY <1>1, <1>2, <1>5, PresentLine, UndoneLine
<1>8. undo' = ClampedUndo(f, limits'.undo)
  <2>1. Len(undo) <= limits.undo
    BY PresentLine
  <2>2. ~(Len(f) > limits.undo)
    BY <1>1, <1>6, <2>1
  <2> QED
    BY <1>5, <2>2, WithinLimit
<1> HIDE DEF f, q, step
<1>9. PICK line, p : line = Line /\ p = (Len(undo) + 1) - 1
    OBVIOUS
<1>10. p = Len(f) + 1 /\ Len(undo) + 1 > 1
    BY <1>6, <1>9
<1>11. Linked' /\ Timeline!Keep(line, p)
  <2>1. OnLine(line, f, document', q)
    BY <1>7, <1>9
  <2> QED
    BY <1>3, <1>4, <1>5, <1>8, <1>10, <2>1, KeptStep, KeepIs
<1>12. UNCHANGED <<limits.undo, limits.redo>>
    BY <1>5
<1> QED
    BY <1>9, <1>10, <1>11, <1>12 DEF Timeline!Undo, Timeline!Keep, Line, LineOf

\* doRedo moves the position on, on the same line.
LEMMA RedoStep ==
    ASSUME IInv, Linked, IInv', Redo
    PROVE  Linked' /\ Timeline!Redo
<1> DEFINE step == Head(redo)
           a == Append(undo, step)
           b == Tail(redo)
<1>1. undo \in Seq(Kept) /\ redo \in Seq(Kept) /\ document \in States /\ limits.redo \in Nat
    BY HistoryFound
<1>2. redo # <<>> /\ SetDocument(step.new, step.flag, ClampedUndo(a, limits.undo), b, FALSE)
    BY DEF Redo
<1>3. step \in Kept /\ b \in Seq(Kept) /\ Len(b) = Len(redo) - 1
    BY <1>1, <1>2, HeadTailProperties
<1>4. a \in Seq(Kept) /\ Len(a) = Len(undo) + 1
    BY <1>1, <1>3, AppendProperties
<1>5. /\ document' = step.new /\ undo' = ClampedUndo(a, limits.undo) /\ redo' = b
      /\ limits' = limits
    BY <1>2, <1>3 DEF SetDocument, Kept
<1>6. Len(undo) \in Nat /\ Len(redo) \in Nat \ {0}
    BY <1>1, <1>2, EmptySeq, LenProperties
<1>7. OnLine(Line, a, document', b)
    BY <1>1, <1>2, <1>5, PresentLine, RedoneLine
<1>8. redo' = ClampedRedo(b, limits'.redo)
  <2>1. Len(redo) <= limits.redo
    BY PresentLine
  <2>2. ~(Len(b) > limits.redo)
    BY <1>1, <1>3, <1>6, <2>1
  <2> QED
    BY <1>5, <2>2, WithinLimit
<1> HIDE DEF a, b, step
<1>9. Len(a) + 1 = Len(undo) + 1 + 1
    BY <1>4
<1>10. PICK line, p : line = Line /\ p = Len(undo) + 1 + 1
    OBVIOUS
<1>11. Linked' /\ Timeline!Keep(line, p)
    BY <1>3, <1>4, <1>5, <1>7, <1>8, <1>9, <1>10, KeptStep, KeepIs
<1>12. Len(undo) + 1 < Len(Line)
  <2>1. Len(Line) = Len(undo) + 1 + Len(redo)
    BY PresentLine
  <2> QED
    BY <1>6, <2>1
<1> QED
    BY <1>5, <1>10, <1>11, <1>12 DEF Timeline!Redo, Timeline!Keep, Line, LineOf

\* setMaximumSteps keeps a window of the line around the position.
LEMMA LimitsStep ==
    ASSUME IInv, Linked, IInv', SetMaximumSteps
    PROVE  Linked' /\ Timeline!SetLimits
<1>1. undo \in Seq(Kept) /\ redo \in Seq(Kept) /\ document \in States
    BY HistoryFound
<1>2. /\ document' = document
      /\ undo' = ClampedUndo(undo, limits'.undo) /\ redo' = ClampedRedo(redo, limits'.redo)
    BY DEF SetMaximumSteps
<1>3. limits'.undo \in Nat /\ limits'.redo \in Nat
    BY LimitsAssumption DEF SetMaximumSteps
<1>4. OnLine(Line, undo, document', redo)
    BY <1>2, PresentLine
<1>5. PICK line, p : line = Line /\ p = Len(undo) + 1
    OBVIOUS
<1>6. Linked' /\ Timeline!Keep(line, p)
    BY <1>1, <1>2, <1>4, <1>5, KeptStep, KeepIs
<1> QED
    BY <1>3, <1>5, <1>6 DEF Timeline!SetLimits, Timeline!Keep, Line, LineOf

\* The end of the line after a change.
LEMMA NewEnd ==
    ASSUME Linked', document' \in States, redo' = <<>>, undo' \in Seq(Kept)
    PROVE  Len(Line') >= 1 /\ SubSeq(Line', (Len(Line') - 1) + 1, Len(Line')) = <<document'>>
<1> DEFINE n == Len(Line')
<1>1. /\ Line' \in Seq(States) /\ n = Len(undo') + 1 + Len(redo') /\ Line'[Len(undo') + 1] = document'
    BY DEF Linked, Line, OnLine
<1>2. Len(undo') \in Nat /\ Len(redo') = 0
    BY LenProperties, EmptySeq
<1>3. n \in Nat /\ n >= 1 /\ (n - 1) + 1 = n /\ Len(undo') + 1 = n
    BY <1>1, <1>2
<1> HIDE DEF n
<1>4. Line'[n] = document'
    BY <1>1, <1>3
<1>5. \A i \in n .. n : Line'[i] \in States
    BY <1>3, <1>4
<1>6. /\ SubSeq(Line', n, n) \in Seq(States) /\ Len(SubSeq(Line', n, n)) = (IF n <= n THEN n - n + 1 ELSE 0)
      /\ \A i \in 1 .. n - n + 1 : SubSeq(Line', n, n)[i] = Line'[n + i - 1]
  <2>1. n \in Int
    BY <1>3
  <2> QED
    BY <1>5, <2>1, SubSeqProperties
<1>7. Len(SubSeq(Line', n, n)) = 1 /\ SubSeq(Line', n, n)[1] = document'
  <2>1. n - n + 1 = 1 /\ n <= n /\ n + 1 - 1 = n
    BY <1>3
  <2> QED
    BY <1>4, <1>6, <2>1
<1>8. <<document'>> \in Seq(States) /\ Len(<<document'>>) = 1 /\ <<document'>>[1] = document'
    OBVIOUS
<1>9. SubSeq(Line', n, n) = <<document'>>
  <2> DEFINE x == SubSeq(Line', n, n)
             y == <<document'>>
  <2>1. x \in Seq(States) /\ y \in Seq(States) /\ Len(x) = 1 /\ Len(y) = 1 /\ x[1] = y[1]
    BY <1>6, <1>7, <1>8
  <2> HIDE DEF x, y
  <2>2. \A i \in 1 .. Len(x) : x[i] = y[i]
    BY <2>1
  <2>3. x = y
    BY <2>1, <2>2, SeqEqual
  <2> QED
    BY <2>3 DEF x, y
<1> QED
    BY <1>3, <1>9 DEF n

\* createUndo, or setDocument with a reset, changes or restarts the line.
LEMMA ModifyStep ==
    ASSUME IInv, Linked, IInv', Modify
    PROVE  Linked' /\ Timeline!Next
<1>1. PICK d \in Documents, flag \in Flags :
        SetDocument(d, flag,
            ClampedUndo(Append(undo, [old |-> document, new |-> d, flag |-> flag]), limits.undo),
            <<>>, FALSE)
    BY DEF Modify
<1>2. CASE flag = "reset"
  <2>1. undo' = <<>> /\ redo' = <<>> /\ UNCHANGED limits
    BY <1>1, <1>2 DEF SetDocument
  <2> QED
    BY <2>1, ResetStep DEF Timeline!Next
<1>3. CASE flag # "reset"
  <2> DEFINE step == [old |-> document, new |-> d, flag |-> flag]
             a == Append(undo, step)
             w == SubSeq(Line, 1, Len(undo) + 1) \o <<d>>
  <2>1. undo \in Seq(Kept) /\ redo \in Seq(Kept) /\ document \in States
    BY HistoryFound
  <2>2. step \in Kept /\ step.old = document /\ step.new = d
    BY <1>3 DEF Modify, IInv, Types, Kept, Steps
  <2>3. document' = d /\ undo' = ClampedUndo(a, limits.undo) /\ redo' = <<>> /\ limits' = limits
    BY <1>1, <1>3 DEF SetDocument
  <2>4. OnLine(Line, undo, document, redo)
    BY PresentLine
  <2> HIDE DEF step
  <2>5. a \in Seq(Kept) /\ Len(a) = Len(undo) + 1
    BY <2>1, <2>2, AppendProperties
  <2>6. OnLine(SubSeq(Line, 1, Len(undo) + 1) \o <<step.new>>, a, step.new, <<>>)
    BY <2>1, <2>2, <2>4, ChangedLine
  <2>7. OnLine(w, a, document', <<>>)
    BY <2>2, <2>3, <2>6
  <2>8. <<>> \in Seq(Kept) /\ redo' = ClampedRedo(<<>>, limits'.redo)
    <3>1. <<>> \in Seq(Kept) /\ Len(<<>>) = 0 /\ limits'.redo \in Nat
      BY <2>3, EmptySeq, HistoryFound
    <3>2. ~(Len(<<>>) > limits'.redo)
      BY <3>1
    <3> QED
      BY <2>3, <3>1, <3>2, WithinLimit
  <2> HIDE DEF a, w
  <2>9. PICK line, p : line = w /\ p = (Len(undo) + 1) + 1
    OBVIOUS
  <2>10. Linked' /\ Timeline!Keep(line, p)
    <3>1. OnLine(line, a, document', <<>>) /\ p = Len(a) + 1
      BY <2>5, <2>7, <2>9
    <3> QED
      BY <2>3, <2>5, <2>8, <3>1, KeptStep, KeepIs
  <2>11. Len(Line') >= 1 /\ SubSeq(Line', (Len(Line') - 1) + 1, Len(Line')) = <<document'>>
    <3>1. document' \in States /\ undo' \in Seq(Kept)
      BY DEF IInv, Types, History, States
    <3> QED
      BY <2>3, <2>10, <3>1, NewEnd
  <2>12. line = SubSeq(Line, 1, Len(undo) + 1) \o SubSeq(Line', (Len(Line') - 1) + 1, Len(Line'))
    BY <2>3, <2>9, <2>11 DEF w
  <2>13. Timeline!Change(1)
    BY <2>3, <2>9, <2>10, <2>11, <2>12 DEF Timeline!Change, Timeline!Keep, Line, LineOf
  <2> QED
    BY <2>10, <2>13 DEF Timeline!Next
<1> QED
    BY <1>2, <1>3

\* Every step of the session is a step of the line or leaves it alone.
LEMMA HistoryStep ==
    ASSUME IInv, Linked, IInv', Next
    PROVE  Linked' /\ [Timeline!Next]_(Timeline!vars)
<1>1. ASSUME UNCHANGED <<document, undo, redo, limits>>
      PROVE  Linked' /\ [Timeline!Next]_(Timeline!vars)
    BY <1>1, QuietStep
<1>2. ASSUME undo' = <<>>, redo' = <<>>, UNCHANGED limits
      PROVE  Linked' /\ [Timeline!Next]_(Timeline!vars)
    BY <1>2, ResetStep DEF Timeline!Next
<1>3. ASSUME CloseDocument PROVE Linked' /\ [Timeline!Next]_(Timeline!vars)
    BY <1>2, <1>3 DEF CloseDocument, SetDocument
<1>4. CASE \E f \in Files : OpenDocument(f)
    BY <1>3, <1>4 DEF OpenDocument
<1>5. CASE \E f \in Files : Save(f)
    BY <1>1, <1>5 DEF Save, history
<1>6. CASE \E f \in Files : OnFileChanged(f)
  <2>1. \/ UNCHANGED <<document, undo, redo, limits>>
        \/ undo' = <<>> /\ redo' = <<>> /\ UNCHANGED limits
    BY <1>6 DEF OnFileChanged, SetDocument, history
  <2> QED
    BY <1>1, <1>2, <2>1
<1>7. CASE Modify
    BY <1>7, ModifyStep
<1>8. CASE Undo
    BY <1>8, UndoStep DEF Timeline!Next
<1>9. CASE Redo
    BY <1>9, RedoStep DEF Timeline!Next
<1>10. CASE SetMaximumSteps
    BY <1>10, LimitsStep DEF Timeline!Next
<1>11. CASE Close \/ CloseWindow
    BY <1>3, <1>11 DEF Close, CloseWindow
<1>12. CASE Reading
    BY <1>1, <1>12, ReadingLeaves
<1>13. CASE OnProgressStarted \/ OnProgressFinished
    BY <1>1, <1>13 DEF OnProgressStarted, OnProgressFinished, history
<1>14. CASE OnDocumentReadingFinished
  <2>1. \/ UNCHANGED <<document, undo, redo, limits>>
        \/ undo' = <<>> /\ redo' = <<>> /\ UNCHANGED limits
    BY <1>14 DEF OnDocumentReadingFinished, SetDocument, history
  <2> QED
    BY <1>1, <1>2, <2>1
<1>15. CASE \E f \in Files, c \in Contents : ForeignWrite(f, c)
    BY <1>1, <1>15 DEF ForeignWrite, history
<1> QED
    BY <1>4, <1>5, <1>6, <1>7, <1>8, <1>9, <1>10, <1>11, <1>12, <1>13, <1>14, <1>15 DEF Next, Events

\* The empty session is a line of one state.
LEMMA FirstHistory ==
    ASSUME Init
    PROVE  Linked /\ Timeline!Init
<1>1. IInv
    BY InitKeeps
<1>2. undo = <<>> /\ redo = <<>> /\ document \in States /\ limits.undo \in Nat /\ limits.redo \in Nat
    BY <1>1, HistoryFound DEF Init
<1>3. <<>> \in Seq(Kept) /\ Len(<<>>) = 0
    BY EmptySeq
<1>4. OnLine(<<document>>, <<>>, document, <<>>) /\ <<document>> = LineOf(<<>>, document, <<>>)
    BY <1>2, <1>3, FreshLine, OneLine
<1>5. Line = <<document>>
    BY <1>2, <1>4 DEF Line
<1>6. Linked
    BY <1>2, <1>3, <1>4, <1>5 DEF Linked, Line
<1>7. Len(Line) = 1 /\ Len(undo) + 1 = 1
    BY <1>2, <1>3, <1>5
<1> QED
    BY <1>2, <1>6, <1>7 DEF Timeline!Init, Line, LineOf

\* For all documents, limits and orders of commands: what the manager keeps as pairs of
\* documents behaves as a line of states does, so undo shows the document there was before,
\* and nothing within the limits is forgotten (pdfundoredomanager.cpp).
THEOREM TimelineImplemented == Spec => ImplementsHistory
<1>1. Init => Linked /\ Timeline!Init
    BY FirstHistory
<1>2. ASSUME IInv, IInv', Linked, [Next]_vars
      PROVE  Linked' /\ [Timeline!Next]_(Timeline!vars)
  <2>1. CASE Next
    BY <1>2, <2>1, HistoryStep
  <2>2. CASE UNCHANGED vars
    BY <1>2, <2>2, QuietStep DEF vars, history
  <2> QED
    BY <1>2, <2>1, <2>2
<1> QED
    BY <1>1, <1>2, Invariance, PTL DEF Spec, ImplementsHistory, Timeline!Spec
=============================================================================

--------------------------- MODULE DocumentSession ---------------------------
(***************************************************************************)
(* The document of the editor's main window: PDFProgramController opens,   *)
(* modifies, saves and closes it, PDFUndoRedoManager keeps its history.    *)
(* A document is read by a function in another thread, which posts the     *)
(* start and the end of its progress and its own end to the main thread;   *)
(* the file may meanwhile be changed by another program, of which the file *)
(* watcher posts a notice (automatic refresh is switched on).              *)
(*                                                                         *)
(* Commands of the user arrive when no posted event is left, which is the  *)
(* order of Qt's event loop, and need an enabled window; closing the       *)
(* window needs neither.  Views, titles, recent files and the choice of    *)
(* file names are left out.                                                *)
(***************************************************************************)
EXTENDS Integers, Sequences, SequencesExt

CONSTANTS
    Files,
    Contents,    \* what a file or a document may hold
    None,        \* no content, no file
    Limits,      \* the settings of [undo |-> ..., redo |-> ...] the user may choose
    MaxChanges,  \* bound: modifications by the user
    MaxForeign   \* bound: changes by another program

ASSUME NoneAssumption == None \notin Files /\ None \notin Contents
ASSUME LimitsAssumption == Limits \subseteq [undo : Nat, redo : Nat]

VARIABLES
    document,    \* m_pdfDocument: its content, and the content its source hash stands for
    saved,       \* m_undoRedoManager->m_isCurrentSaved
    undo,        \* m_undoSteps, the newest last
    redo,        \* m_redoSteps, the newest first
    limits,      \* m_undoLimit, m_redoLimit
    file,        \* m_fileInfo.originalFileName
    disk,        \* the content of each file
    touched,     \* files another program has changed since they were read or written
    notices,     \* files of which a fileChanged is posted
    reader,      \* the asynchronous reading: phase, file, content read
    events,      \* posted to the main thread by the reader
    busy,        \* m_isBusy
    enabled,     \* the main window and its actions
    window,      \* "open" or "closed"
    changes, foreign

history == <<undo, redo, limits>>
reading == <<reader, events, busy>>
world == <<disk, touched, notices>>
vars == <<document, saved, history, file, world, reading, enabled, window, changes, foreign>>

NoDocument == [content |-> None, source |-> None]
Documents == [content : Contents, source : Contents \cup {None}]
\* Reset without PreserveUndoRedo, Reset with it, no Reset
Flags == {"reset", "preserve", "none"}
Steps == [old : Documents, new : Documents, flag : Flags]
Idle == [phase |-> "none", file |-> None, content |-> None]

\* m_futureWatcher && m_futureWatcher->isRunning()
Running(phase) == phase \in {"begin", "contents", "security", "decrypt", "streams", "verify"}
CanClose == ~Running(reader.phase) \/ ~busy

Command == window = "open" /\ enabled /\ events = <<>>

---------------------------------------------------------------------------
(* PDFUndoRedoManager                                                      *)

\* mutant: the newest undo steps are given up
ClampedUndoNewest(steps, limit) == SubSeq(steps, 1, IF Len(steps) > limit THEN limit ELSE Len(steps))

\* The oldest steps are given up.
ClampedUndo(steps, limit) ==
    IF Len(steps) > limit THEN SubSeq(steps, Len(steps) - limit + 1, Len(steps)) ELSE steps

\* The newest steps are given up.
ClampedRedo(steps, limit) == IF Len(steps) > limit THEN SubSeq(steps, 1, limit) ELSE steps

\* setDocument with the steps given; a reset forgets them unless it preserves them.
SetDocument(d, flag, undoSteps, redoSteps, isCurrentSaved) ==
    /\ document' = d
    /\ undo' = IF flag = "reset" THEN <<>> ELSE undoSteps
    /\ redo' = IF flag = "reset" THEN <<>> ELSE redoSteps
    /\ saved' = isCurrentSaved
    /\ UNCHANGED limits

\* mutant: the reading that still verifies signatures does not count
AvailabilityByProgress == enabled' = ~busy'

\* updateActionsAvailability
Availability == enabled' = (~Running(reader'.phase) /\ ~busy')

CloseDocument == SetDocument(NoDocument, "reset", undo, redo, TRUE)

---------------------------------------------------------------------------
(* Commands.                                                               *)

\* openDocument: the open document is given up without a question.
OpenDocument(f) ==
    /\ Command
    /\ CloseDocument
    /\ file' = f
    /\ reader' = [phase |-> "begin", file |-> f, content |-> None]
    /\ UNCHANGED <<events, busy, world, window, changes, foreign>>
    /\ Availability

\* mutant: the modified document still counts as saved
ModifySaved ==
    /\ Command /\ document # NoDocument
    /\ changes < MaxChanges /\ changes' = changes + 1
    /\ \E d \in Documents, flag \in Flags :
        /\ d.source = None
        /\ SetDocument(d, flag,
                ClampedUndo(Append(undo, [old |-> document, new |-> d, flag |-> flag]), limits.undo),
                <<>>, saved)
    /\ UNCHANGED <<file, world, reading, window, foreign>>
    /\ Availability

\* onDocumentModified.  What the image optimizer makes keeps the source hash.
Modify ==
    /\ Command /\ document # NoDocument
    /\ changes < MaxChanges /\ changes' = changes + 1
    /\ \E d \in Documents, flag \in Flags :
        /\ d.source = None \/ (flag = "preserve" /\ d.source = document.source)
        /\ SetDocument(d, flag,
                ClampedUndo(Append(undo, [old |-> document, new |-> d, flag |-> flag]), limits.undo),
                <<>>, FALSE)
    /\ UNCHANGED <<file, world, reading, window, foreign>>
    /\ Availability

Undo ==
    /\ Command /\ undo # <<>>
    /\ LET step == Last(undo) IN
        SetDocument(step.old, step.flag, Front(undo), ClampedRedo(<<step>> \o redo, limits.redo), FALSE)
    /\ UNCHANGED <<file, world, reading, window, changes, foreign>>
    /\ Availability

Redo ==
    /\ Command /\ redo # <<>>
    /\ LET step == Head(redo) IN
        SetDocument(step.new, step.flag, ClampedUndo(Append(undo, step), limits.undo), Tail(redo), FALSE)
    /\ UNCHANGED <<file, world, reading, window, changes, foreign>>
    /\ Availability

SetMaximumSteps ==
    /\ Command
    /\ limits' \in Limits \ {limits}
    /\ undo' = ClampedUndo(undo, limits'.undo)
    /\ redo' = ClampedRedo(redo, limits'.redo)
    /\ UNCHANGED <<document, saved, file, world, reading, enabled, window, changes, foreign>>

\* saveDocument where the writing succeeds; where it does not nothing changes.
Write(f) ==
    /\ disk' = [disk EXCEPT ![f] = document.content]
    /\ touched' = touched \ {f}
    /\ UNCHANGED notices

Save(f) ==
    /\ Command /\ document # NoDocument
    /\ Write(f)
    /\ file' = f
    /\ saved' = TRUE
    /\ UNCHANGED <<document, history, reading, enabled, window, changes, foreign>>

\* askForSaveDocumentBeforeClose lets a modified document go when it was saved or the user says no.
Asked == \/ UNCHANGED world
         \/ ~saved /\ Write(file)

Close ==
    /\ Command /\ document # NoDocument
    /\ Asked
    /\ CloseDocument
    /\ file' = None
    /\ UNCHANGED <<reading, window, changes, foreign>>
    /\ Availability

\* closeEvent.  resetSettings, which does not ask, ends like the answer no.
CloseWindow ==
    /\ window = "open" /\ CanClose
    /\ IF document = NoDocument THEN UNCHANGED world ELSE Asked
    /\ CloseDocument
    /\ file' = None
    /\ window' = "closed"
    /\ UNCHANGED <<reading, changes, foreign>>
    /\ Availability

---------------------------------------------------------------------------
(* The reading thread: the contents, what is encrypted, the object         *)
(* streams, then the signatures.  Contents and decryption are announced.   *)

Proceed(phase, content, posted) ==
    /\ reader' = [reader EXCEPT !.phase = phase, !.content = content]
    /\ events' = events \o posted
    /\ UNCHANGED <<document, saved, history, file, disk, notices, busy, enabled, window, changes, foreign>>

\* The data are read.  A file with a damaged reference table has no progress of its contents.
ReadFile ==
    /\ reader.phase = "begin"
    /\ \/ Proceed("contents", disk[reader.file], <<"started">>)
       \/ Proceed("security", disk[reader.file], <<>>)
    /\ touched' = touched \ {reader.file}

\* processReferenceTableEntries
ReadContents ==
    /\ reader.phase = "contents"
    /\ Proceed("security", reader.content, <<"finished">>)
    /\ UNCHANGED touched

\* processSecurityHandler
Decrypt ==
    /\ \/ reader.phase = "security" /\ Proceed("decrypt", reader.content, <<"started">>)
       \/ reader.phase = "decrypt" /\ Proceed("streams", reader.content, <<"finished">>)
    /\ UNCHANGED touched

\* processObjectStreams
ReadStreams ==
    /\ reader.phase \in {"security", "streams"}
    /\ Proceed("verify", reader.content, <<>>)
    /\ UNCHANGED touched

\* The file is no document, an entry is broken, the password is wrong or not given.
GiveUp ==
    /\ reader.phase \in {"security", "streams"}
    /\ Proceed("done", None, <<"read">>)
    /\ UNCHANGED touched

Verify ==
    /\ reader.phase = "verify"
    /\ Proceed("done", reader.content, <<"read">>)
    /\ UNCHANGED touched

---------------------------------------------------------------------------
(* What the main thread does with the events.                              *)

Deliver(event) ==
    /\ window = "open" /\ events # <<>> /\ Head(events) = event
    /\ events' = Tail(events)
    /\ UNCHANGED <<file, world, window, changes, foreign>>

\* mutant: the end of the progress is shown, but the controller stays busy
OnProgressFinishedBusy ==
    /\ Deliver("finished")
    /\ UNCHANGED <<document, saved, history, reader, busy>>
    /\ Availability

OnProgressStarted ==
    /\ Deliver("started")
    /\ busy' = TRUE
    /\ UNCHANGED <<document, saved, history, reader>>
    /\ Availability

OnProgressFinished ==
    /\ Deliver("finished")
    /\ busy' = FALSE
    /\ UNCHANGED <<document, saved, history, reader>>
    /\ Availability

OnDocumentReadingFinished ==
    /\ Deliver("read")
    /\ reader' = Idle
    /\ IF reader.content = None THEN UNCHANGED <<document, saved, history>>
       ELSE SetDocument([content |-> reader.content, source |-> reader.content], "reset", undo, redo, TRUE)
    /\ UNCHANGED busy
    /\ Availability

\* Automatic refresh looks at the file of a document that counts as saved.
Refreshable(f) == f = file /\ saved /\ document # NoDocument

\* onFileChanged: the file is read again unless the document is modified or comes from the same
\* data, which the hash tells unless the document is one the image optimizer made.  If it cannot
\* be opened or read, the document stays as it is and still counts as saved.
OnFileChanged(f) ==
    /\ window = "open" /\ f \in notices
    /\ notices' = notices \ {f}
    /\ \/ /\ Refreshable(f) /\ document.source # disk[f]
          /\ SetDocument([content |-> disk[f], source |-> disk[f]], "reset", undo, redo, TRUE)
          /\ touched' = touched \ {f}
       \/ /\ touched' = IF Refreshable(f) /\ document = [content |-> disk[f], source |-> disk[f]]
                        THEN touched \ {f} ELSE touched
          /\ UNCHANGED <<document, saved, history>>
    /\ UNCHANGED <<file, disk, reading, window, changes, foreign>>
    /\ Availability

\* Another program writes a file; the one that is open is watched.
ForeignWrite(f, c) ==
    /\ foreign < MaxForeign /\ foreign' = foreign + 1
    /\ disk' = [disk EXCEPT ![f] = c]
    /\ touched' = touched \cup {f}
    /\ notices' = IF f = file /\ window = "open" THEN notices \cup {f} ELSE notices
    /\ UNCHANGED <<document, saved, history, file, reading, enabled, window, changes>>

---------------------------------------------------------------------------
Init ==
    /\ document = NoDocument /\ saved = TRUE
    /\ undo = <<>> /\ redo = <<>> /\ limits \in Limits
    /\ file = None
    /\ disk \in [Files -> Contents] /\ touched = {} /\ notices = {}
    /\ reader = Idle /\ events = <<>> /\ busy = FALSE
    /\ enabled = TRUE /\ window = "open"
    /\ changes = 0 /\ foreign = 0

Reading == ReadFile \/ ReadContents \/ Decrypt \/ ReadStreams \/ GiveUp \/ Verify
Events == OnProgressStarted \/ OnProgressFinished \/ OnDocumentReadingFinished

Next ==
    \/ \E f \in Files : OpenDocument(f) \/ Save(f) \/ OnFileChanged(f)
    \/ Modify \/ Undo \/ Redo \/ SetMaximumSteps \/ Close \/ CloseWindow
    \/ Reading \/ Events
    \/ \E f \in Files, c \in Contents : ForeignWrite(f, c)

\* The reading ends because its loops do; the main thread delivers what is posted to it.
Spec == Init /\ [][Next]_vars /\ WF_vars(Reading) /\ WF_vars(Events)

---------------------------------------------------------------------------
(* Properties.                                                             *)

TypeOK ==
    /\ document \in Documents \cup {NoDocument} /\ saved \in BOOLEAN
    /\ undo \in Seq(Steps) /\ redo \in Seq(Steps) /\ limits \in Limits
    /\ file \in Files \cup {None} /\ disk \in [Files -> Contents]
    /\ touched \subseteq Files /\ notices \subseteq Files
    /\ reader.phase \in {"none", "done"} \/ Running(reader.phase)
    /\ reader.file \in Files \cup {None} /\ reader.content \in Contents \cup {None}
    /\ events \in Seq({"started", "finished", "read"})
    /\ busy \in BOOLEAN /\ enabled \in BOOLEAN /\ window \in {"open", "closed"}
    /\ changes \in Nat /\ foreign \in Nat

\* A document the editor takes for saved, and gives up without a question, is what its file
\* holds, unless another program has written the file since and the notice of it is not handled
\* yet, was handled while the document was read, could not be obeyed because the file could not
\* be read again, or met the stale hash of an optimized document.
SavedIsOnDisk ==
    document # NoDocument /\ saved /\ file \notin touched => document.content = disk[file]

\* No command is accepted while a document is being read: a second reading would overwrite the
\* future and the watcher of the first.  Nothing is kept in the history that would empty it when
\* it is undone or redone.
NoOverlap ==
    /\ TypeOK
    /\ Command => reader.phase = "none" /\ ~busy
    /\ \A step \in ToSet(undo \o redo) : step.flag # "reset"

\* The window becomes usable again, or is closed.
UsableAgain == []<>(enabled \/ window = "closed")

\* closeEvent: "Do not allow to close the application, if document reading is running."
NotClosedWhileReading == window = "closed" => ~Running(reader.phase)

\* The pairs of documents kept for undo and redo are the timeline of the document (UndoTimeline).
Timeline == INSTANCE UndoTimeline WITH
    timeline <- [i \in DOMAIN undo |-> undo[i].old] \o <<document>> \o [i \in DOMAIN redo |-> redo[i].new],
    position <- Len(undo) + 1,
    undoLimit <- limits.undo,
    redoLimit <- limits.redo
ImplementsHistory == Timeline!Spec
=============================================================================

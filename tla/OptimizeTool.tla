---------------------------- MODULE OptimizeTool ----------------------------
(***************************************************************************)
(* The command "optimize" of the command line tool (pdftooloptimize.cpp):  *)
(* a file is read, optimized and written under its own name.  Composes     *)
(* Optimizer and DocumentWriter with the file on disk.                     *)
(*                                                                         *)
(* Writing is safe (pdfdocumentwriter.h:47): into a temporary file of      *)
(* QSaveFile which replaces the old one at its end, or, if there can be no *)
(* temporary file, directly.  It may fail, and the process may be killed.  *)
(***************************************************************************)
EXTENDS Optimizer, DocumentWriter

CONSTANT Files      \* the files the tool is called with

\* They can be read, and entry 0 is the head of the list of free entries.
ASSUME FilesAssumption ==
    \A f \in Files :
        /\ Readable(f) /\ ReadBack(f) \in Documents
        /\ DOMAIN f.rows \subseteq Nat /\ 0 \in DOMAIN f.rows /\ ~f.rows[0].occupied

VARIABLES
    disk,       \* what is under the file's name: <<file>>, or <<>> if incomplete
    device,     \* where the writer writes: "none", "temporary", "direct"
    exit        \* "running", "success", "failed" (ErrorFailedWriteToFile), "killed"

toolVars == <<vars, disk, device, exit>>

Storage == [objects |-> objects, trailer |-> trailer]

\* readDocument: all of the file is read before anything is written.
ToolInit ==
    /\ \E f \in Files : disk = <<f>> /\ source = ReadBack(f)
    /\ Init
    /\ device = "none" /\ exit = "running"

Optimize == Next /\ exit = "running" /\ UNCHANGED <<disk, device, exit>>

\* QSaveFile::open with a temporary file, or as the fallback without one.
OpenTemporary ==
    /\ exit = "running" /\ Finished /\ device = "none"
    /\ device' = "temporary"
    /\ UNCHANGED <<vars, disk, exit>>

OpenDirectly ==
    /\ exit = "running" /\ Finished /\ device = "none"
    /\ device' = "direct" /\ disk' = <<>>
    /\ UNCHANGED <<vars, exit>>

CannotOpen ==
    /\ exit = "running" /\ Finished /\ device = "none"
    /\ exit' = "failed"
    /\ UNCHANGED <<vars, disk, device>>

\* All is written, and commit() renames the temporary file.
Commit ==
    /\ exit = "running" /\ device # "none"
    /\ disk' = <<Written(Storage)>> /\ exit' = "success"
    /\ UNCHANGED <<vars, device>>

\* A write or the rename failed: commit() removes the temporary file.
CannotCommit ==
    /\ exit = "running" /\ device # "none"
    /\ exit' = "failed"
    /\ UNCHANGED <<vars, disk, device>>

\* The process is killed or the power fails.
Killed ==
    /\ exit = "running" /\ device # "none"
    /\ exit' = "killed"
    /\ UNCHANGED <<vars, disk, device>>

Write == OpenTemporary \/ OpenDirectly \/ CannotOpen \/ Commit \/ CannotCommit \/ Killed
ToolNext == Optimize \/ Write

\* The tool is one thread, which runs.
ToolSpec == ToolInit /\ [][ToolNext]_toolVars /\ WF_toolVars(ToolNext)
-----------------------------------------------------------------------------
(* Properties. *)

\* What a reader of the file is told, apart from how the file is built.
Told(d) == [d EXCEPT !.trailer = Restricted(@, WrittenKeys)]

\* pdfdocumentwriter.h:47-51: the file is written safely, "so no data can be
\* lost".  Whatever happens at whatever moment, the name holds a complete file
\* that is read without error, unless no temporary file was possible; after
\* success in any case.
FileWhole ==
    /\ device # "direct" \/ exit = "success" => disk # <<>>
    /\ disk # <<>> => Readable(disk[1])

\* And that file says what the file said at the start.
DiskKept ==
    /\ FileWhole
    /\ disk # <<>> => SameMeaning(Told(source), Told(ReadBack(disk[1])), Decoded)
=============================================================================

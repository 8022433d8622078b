------------------------ MODULE MCDocumentSession ------------------------
(* Two files and two contents; the history keeps two steps each way, or    *)
(* one to undo and none to redo.                                           *)
EXTENDS DocumentSession

MCLimits == {[undo |-> 2, redo |-> 2], [undo |-> 1, redo |-> 0]}
=============================================================================

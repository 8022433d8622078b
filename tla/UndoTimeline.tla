---------------------------- MODULE UndoTimeline ----------------------------
(***************************************************************************)
(* What undo and redo promise, however they are stored: the states an      *)
(* editor went through form a line on which it has a position.  Changing   *)
(* something replaces what lies after the position, undo and redo move by  *)
(* one, and only states further away than the limits allow are forgotten.  *)
(* PageItemModel keeps the line as two stacks of snapshots,                *)
(* DocumentSession as two lists of pairs of documents.                     *)
(***************************************************************************)
EXTENDS Integers, Sequences

VARIABLES
    timeline,    \* the states, oldest first
    position,    \* the present one
    undoLimit,   \* how many states before the position are kept
    redoLimit    \* how many after

vars == <<timeline, position, undoLimit, redoLimit>>

Before(p, limit) == IF p - 1 > limit THEN limit ELSE p - 1

\* The line t, seen from position p, without the states forgotten.
Keep(t, p) ==
    /\ position' = Before(p, undoLimit') + 1
    /\ timeline' = SubSeq(t, p - Before(p, undoLimit'),
                          IF Len(t) - p > redoLimit' THEN p + redoLimit' ELSE Len(t))

Init == /\ Len(timeline) = 1 /\ position = 1
        /\ undoLimit \in Nat /\ redoLimit \in Nat

Restart == /\ Len(timeline') = 1 /\ position' = 1
           /\ UNCHANGED <<undoLimit, redoLimit>>

\* An operation leaves n new states, the last of which is the present one.
Change(n) ==
    LET new == SubSeq(timeline', Len(timeline') - n + 1, Len(timeline'))
    IN  /\ Len(timeline') >= n
        /\ Keep(SubSeq(timeline, 1, position) \o new, position + n)
        /\ UNCHANGED <<undoLimit, redoLimit>>

Undo == /\ position > 1
        /\ Keep(timeline, position - 1)
        /\ UNCHANGED <<undoLimit, redoLimit>>

Redo == /\ position < Len(timeline)
        /\ Keep(timeline, position + 1)
        /\ UNCHANGED <<undoLimit, redoLimit>>

SetLimits == /\ undoLimit' \in Nat /\ redoLimit' \in Nat
             /\ Keep(timeline, position)

Next == Restart \/ (\E n \in 1..2 : Change(n)) \/ Undo \/ Redo \/ SetLimits

Spec == Init /\ [][Next]_vars
=============================================================================

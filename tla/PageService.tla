----------------------------- MODULE PageService -----------------------------
(***************************************************************************)
(* What the page compiler promises to PDFDrawWidgetProxy: the pages that   *)
(* getCompiledPage returns are complete renderings of the present input,   *)
(* they may appear and disappear at any time (compilation, eviction,       *)
(* expiration), and a change of the input and the removal of everything    *)
(* rendered from the old one are a single step.                            *)
(***************************************************************************)
EXTENDS Naturals

CONSTANT Pages

VARIABLES
    present,  \* version of the rendering input
    shown     \* page -> image returned by getCompiledPage

Current == [version |-> present, complete |-> TRUE]
Nothing == [p \in {} |-> p]

Init == present = 0 /\ shown = Nothing

\* Pages are published or withdrawn; a page that stays is not touched.
Publish ==
    /\ \E S \in SUBSET Pages :
          shown' = [p \in S |-> IF p \in DOMAIN shown THEN shown[p] ELSE Current]
    /\ UNCHANGED present

\* The input changes and every image of the old one is withdrawn.
Replace ==
    /\ present' = present + 1
    /\ shown' = Nothing

Next == Publish \/ Replace

Spec == Init /\ [][Next]_<<present, shown>>
=============================================================================

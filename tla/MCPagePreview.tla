------------------------- MODULE MCPagePreview -------------------------
(* Two rows; a document with two pages, one of which may be broken, and an *)
(* image.                                                                  *)
EXTENDS PagePreview

MCSourceOf == [a1 |-> "doc", a2 |-> "doc", i1 |-> "img"]
MCBroken == {"a2"}
=============================================================================

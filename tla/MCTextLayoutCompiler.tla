------------------------ MODULE MCTextLayoutCompiler ------------------------
(* Small instances of TextLayoutCompiler for TLC. *)
EXTENDS TextLayoutCompiler

\* Two pages compete for the one-page cache.
MCPages == {1, 2}
=============================================================================

-------------------------- MODULE MCRasterizerPool --------------------------
(* A small instance of RasterizerPool for TLC: more pages than threads,    *)
(* more threads than rasterizers.                                          *)
EXTENDS RasterizerPool

MCPages == 1 .. 4
=============================================================================

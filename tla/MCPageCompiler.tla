--------------------------- MODULE MCPageCompiler ---------------------------
(* Small instances of PageCompiler for TLC. *)
EXTENDS PageCompilerProps

\* The pages have different costs, so that one limit holds either of the
\* cheap ones and the next one both but not all.
MCCost == [p \in Pages |-> p]
=============================================================================

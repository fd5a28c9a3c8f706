--------------------------- MODULE MCOutputWriter ---------------------------
(***************************************************************************)
(* OutputWriter on small instances: two distinguishable lines, a channel   *)
(* of two (full and drained within a run), a buffer of three parts (a      *)
(* spill falls between a text and its newline).                            *)
(***************************************************************************)
EXTENDS OutputWriter
=============================================================================

----------------------------- MODULE MCHeapWrap -----------------------------
(***************************************************************************)
(* Heap with requests close to the largest register value, which guest     *)
(* code computes by accident whenever it passes a negative length.         *)
(***************************************************************************)
EXTENDS Heap
=============================================================================

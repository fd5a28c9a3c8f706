--------------------------- MODULE MCLibcStrings ---------------------------
(***************************************************************************)
(* LibcStrings with every content of four cells, zeros after them, and the *)
(* end of a region: what is passed there can be read, but no whole window. *)
(* WideStrings with every content of six cells that are 0 or 1.            *)
(***************************************************************************)
EXTENDS WideStrings, TLC

MCChar == 0..2
MCMapped == 1..9 \cup 20..32

Zeros == [a \in MCMapped |-> 0]

MCNarrow == {text @@ Zeros : text \in [1..4 -> MCChar]}

MCWide == {text @@ Zeros : text \in [1..6 -> 0..1]}

MCMemories == MCNarrow \cup MCWide

MCPointers == {1, 2, 3, 5, 8}

AllNext == \/ mem \in MCNarrow /\ Next
           \/ mem \in MCWide /\ WideNext
           \/ mem = Zeros /\ ClassNext

AllSpec == Init /\ [][AllNext]_vars
=============================================================================

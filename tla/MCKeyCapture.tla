---------------------------- MODULE MCKeyCapture ----------------------------
(***************************************************************************)
(* KeyCapture with 14 values a cell, of which 6..9 are printable, strings  *)
(* of up to four characters inside the object, and room for two longer     *)
(* ones.  A length of 3 or 4 and a capacity make a first cell that is      *)
(* printable, as 16..22 and 32..126 do in the code.                        *)
(***************************************************************************)
EXTENDS KeyCapture, TLC

\* Two adjacent objects; the texts "67", "6789" and "98769" and one with a
\* byte that is not text; and an object whose first word is a pointer to its
\* vtable.
Data == <<0, 0, 0, 0, 0, 0,   0, 0, 0, 0, 0, 0,
          6, 7, 0,   6, 7, 8, 9, 0,   9, 8, 7, 6, 9, 0,   7, 11, 7, 7, 7, 0,
          11, 13, 0, 0, 0, 0, 0, 0>>

MCGuest == [a \in 16..(15 + Len(Data)) |-> Data[a - 15]]
           @@ [a \in 140..171 |-> 0]

MCObjects == {16, 22}

MCTexts == {28, 31, 36, 42}

\* Nothing; a pointer to a text where a key may be; a pointer and a number
\* where a signature may be.
MCLeftover == {[r \in 1..4 |-> IF r \in texts THEN 28 ELSE IF r = 4 THEN 2 ELSE 0] :
                 texts \in {{}, {1, 2}, {3}}}
=============================================================================

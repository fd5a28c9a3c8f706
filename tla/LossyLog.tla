------------------------------ MODULE LossyLog ------------------------------
(***************************************************************************)
(* What the trace printer of galago promises to its caller and to the      *)
(* reader of stdout, without saying how: a log that never blocks the       *)
(* caller.  A line that is offered is either accepted or, when the log is  *)
(* far enough behind, dropped; the accepted lines appear whole and in the  *)
(* order they were offered; once the log is closed its close returns, and  *)
(* when it does everything that was accepted has appeared, unless stdout   *)
(* itself failed.  OutputWriter implements this specification.             *)
(***************************************************************************)
EXTENDS Naturals, Sequences

CONSTANTS Line,      \* the lines that may be offered
          Backlog    \* how many accepted lines may wait before one is dropped

VARIABLES phase,     \* "open", "closing", "returned" or "crashed"
          accepted,  \* the lines accepted so far, oldest first
          dropped,   \* how many lines were dropped
          shown,     \* the parts of lines that reached stdout
          broken     \* stdout refused a write

vars == <<phase, accepted, dropped, shown, broken>>

(***************************************************************************)
(* A line reaches stdout in two parts, its text and its newline.           *)
(***************************************************************************)
Part == Line \X {"text", "newline"}

PartAt(lines, k) ==
  <<lines[(k + 1) \div 2], IF k % 2 = 1 THEN "text" ELSE "newline">>

Rendered(lines) == [k \in 1..(2 * Len(lines)) |-> PartAt(lines, k)]

-----------------------------------------------------------------------------
Init == /\ phase = "open"
        /\ accepted = <<>>
        /\ dropped = 0
        /\ shown = <<>>
        /\ broken = FALSE

Accept(l) == /\ phase = "open"
             /\ accepted' = Append(accepted, l)
             /\ UNCHANGED <<phase, dropped, shown, broken>>

Drop == /\ phase = "open"
        /\ 2 * Len(accepted) - Len(shown) >= 2 * Backlog
        /\ dropped' = dropped + 1
        /\ UNCHANGED <<phase, accepted, shown, broken>>

Show == /\ phase \in {"open", "closing"}
        /\ ~broken
        /\ \E n \in (Len(shown) + 1)..(2 * Len(accepted)) :
             shown' = SubSeq(Rendered(accepted), 1, n)
        /\ UNCHANGED <<phase, accepted, dropped, broken>>

Break == /\ phase \in {"open", "closing"}
         /\ broken' = TRUE
         /\ \E n \in Len(shown)..(2 * Len(accepted)) :
              shown' = SubSeq(Rendered(accepted), 1, n)
         /\ UNCHANGED <<phase, accepted, dropped>>

Close == /\ phase = "open"
         /\ phase' = "closing"
         /\ UNCHANGED <<accepted, dropped, shown, broken>>

Return == /\ phase = "closing"
          /\ broken \/ shown = Rendered(accepted)
          /\ phase' = "returned"
          /\ UNCHANGED <<accepted, dropped, shown, broken>>

Crash == /\ phase = "open"
         /\ phase' = "crashed"
         /\ UNCHANGED <<accepted, dropped, shown, broken>>

Next == \/ \E l \in Line : Accept(l)
        \/ Drop
        \/ Show
        \/ Break
        \/ Close
        \/ Return
        \/ Crash

Spec == Init /\ [][Next]_vars

LiveSpec == Spec /\ WF_vars(Show) /\ WF_vars(Return)
=============================================================================

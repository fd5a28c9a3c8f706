---------------------------- MODULE FreshBlocks ----------------------------
(***************************************************************************)
(* What the guest program may expect of the heap it is given: every        *)
(* request is answered with memory inside the heap region that overlaps no *)
(* block handed out before, or the emulation ends.  Nothing is ever taken  *)
(* back, except all of it: when a new guest starts on a new emulator.      *)
(***************************************************************************)
EXTENDS Integers, Sequences

CONSTANTS Base, Limit     \* the heap region is Base .. Limit - 1

VARIABLES blocks,         \* the blocks handed out: records [addr, size]
          over            \* the emulation has ended

Region(b) == b.addr..(b.addr + b.size - 1)

Init == blocks = <<>> /\ over = FALSE

\* One block more, or several, and the earlier ones stay as they are.
Grant == /\ ~over
         /\ Len(blocks') > Len(blocks)
         /\ \A i \in 1..Len(blocks) : blocks'[i] = blocks[i]
         /\ \A j \in (Len(blocks) + 1)..Len(blocks') :
              /\ Region(blocks'[j]) \subseteq Base..(Limit - 1)
              /\ \A i \in 1..(j - 1) :
                   Region(blocks'[i]) \cap Region(blocks'[j]) = {}
         /\ UNCHANGED over

Refuse == ~over /\ over' = TRUE /\ UNCHANGED blocks

Renew == ~over /\ blocks' = <<>> /\ UNCHANGED over

Next == Grant \/ Refuse \/ Renew

Spec == Init /\ [][Next]_<<blocks, over>>
=============================================================================

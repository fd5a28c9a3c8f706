----------------------------- MODULE StubCalls -----------------------------
(***************************************************************************)
(* What every hook of a stub has in common: guest code reaches it, it may  *)
(* call Malloc, leaves its answer in x0 and returns (ReturnFromStub) or    *)
(* stops the emulation.  A hook runs to its end before the guest goes on,  *)
(* so each is one action.  A library may create one emulator after the     *)
(* other in one process; the variables of the stub packages outlive them.  *)
(***************************************************************************)
EXTENDS Heap

CONSTANTS MaxEmulators    \* bound: how many emulators a process creates

ASSUME CallAssumption == MaxEmulators \in Nat \ {0}

VARIABLES x0,         \* what the last stub answered
          stopped,    \* the emulation has been stopped
          emulators   \* history: how many emulators there have been

callVars == <<heapPtr, blocks, panicked, x0, stopped, emulators>>

CallInit == /\ Init
            /\ x0 = 0
            /\ stopped = FALSE
            /\ emulators = 1

Running == ~panicked /\ ~stopped

\* A hook that only answers.
Answer(v) == /\ Running
             /\ x0' = v
             /\ UNCHANGED <<vars, stopped, emulators>>

\* A hook that leaves x0 as the guest had it.
Return == Answer(x0)

\* A hook that stops the emulation.
Stop == /\ Running
        /\ stopped' = TRUE
        /\ UNCHANGED <<vars, x0, emulators>>

\* A variant in which a hook that calls Malloc twice is given one block.
BumpsOnce(sizes) ==
  [i \in 1..(Len(sizes) + 1) |->
     IF i <= Len(sizes) THEN heapPtr ELSE Add(heapPtr, AlignUp(sizes[1]))]

\* The heap pointer before each of the Mallocs of one hook, and after them.
Bumps(sizes) ==
  LET p[i \in 1..(Len(sizes) + 1)] ==
        IF i = 1 THEN heapPtr ELSE Add(p[i - 1], AlignUp(sizes[i - 1]))
  IN  p

\* A hook that calls Malloc for each of the sizes and answers v, unless one
\* of the calls panics: then nothing after it happens.
Give(sizes, v) ==
  LET p     == Bumps(sizes)
      fails == {i \in 2..(Len(sizes) + 1) : p[i] >= HeapEnd}
  IN  /\ Running
      /\ Len(blocks) + Len(sizes) <= MaxBlocks
      /\ IF fails = {}
           THEN /\ heapPtr' = p[Len(sizes) + 1]
                /\ blocks' = blocks \o [i \in 1..Len(sizes) |->
                                          [addr |-> p[i], size |-> sizes[i]]]
                /\ x0' = v
                /\ UNCHANGED panicked
           ELSE /\ heapPtr' = p[CHOOSE i \in fails : \A j \in fails : i <= j]
                /\ panicked' = TRUE
                /\ UNCHANGED <<blocks, x0>>
      /\ UNCHANGED <<stopped, emulators>>

\* A stub of module Heap, whose answer is the new block.
GiveBlock(request) ==
  /\ Running
  /\ request
  /\ x0' = IF panicked' THEN x0 ELSE heapPtr
  /\ UNCHANGED <<stopped, emulators>>

\* emulator.New in the same process: a new guest memory with nothing in it.
NewEmulator == /\ ~panicked
               /\ emulators < MaxEmulators
               /\ emulators' = emulators + 1
               /\ heapPtr' = HeapBase
               /\ blocks' = <<>>
               /\ x0' = 0
               /\ stopped' = FALSE
               /\ UNCHANGED panicked

CallTypeOK == /\ TypeOK
              /\ x0 \in Nat
              /\ stopped \in BOOLEAN
              /\ emulators \in 1..MaxEmulators
=============================================================================

-------------------------------- MODULE Heap --------------------------------
(***************************************************************************)
(* The guest heap of the emulator: Emulator.Malloc, a bump allocator over  *)
(* one mapped region, and the stubs through which guest code reaches it.   *)
(* Sizes come from guest registers, so every addition, product and         *)
(* alignment is done modulo the register width.  Blocks are never freed    *)
(* (free, delete, munmap and __cxa_free_exception only return).            *)
(***************************************************************************)
EXTENDS Integers, Sequences

CONSTANTS Modulus,    \* 2^64 in the code: registers hold 0 .. Modulus - 1
          HeapBase,   \* emulator.HeapBase
          HeapSize,   \* emulator.HeapSize
          Sizes,      \* the sizes guest code asks for
          FixedSizes, \* the sizes stubs ask for on their own account
          MaxBlocks   \* bound: how many blocks are handed out in a run

Word == 0..(Modulus - 1)

HeapEnd == HeapBase + HeapSize

ASSUME HeapAssumption ==
  /\ Modulus \in Nat \ {0}
  /\ HeapBase \in Nat
  /\ HeapSize \in Nat
  /\ HeapBase % 16 = 0
  /\ HeapEnd < Modulus
  /\ Sizes \subseteq Word
  /\ FixedSizes \subseteq Word
  /\ MaxBlocks \in Nat

VARIABLES heapPtr,    \* Emulator.heapPtr
          blocks,     \* history: what was asked for and what was answered
          panicked    \* Malloc has panicked and the process is gone

vars == <<heapPtr, blocks, panicked>>

Block == [addr : Word, size : Nat]

-----------------------------------------------------------------------------
Add(a, b) == (a + b) % Modulus

\* (n + 15) & ^15
AlignUp(n) == LET m == Add(n, 15) IN m - (m % 16)

Init == /\ heapPtr = HeapBase
        /\ blocks = <<>>
        /\ panicked = FALSE

\* Variants: the pointer is checked before it moves; an exhausted heap
\* answers -1, as sbrk does.
MallocCheckedEarly(n, size) ==
  /\ ~panicked
  /\ Len(blocks) < MaxBlocks
  /\ heapPtr' = Add(heapPtr, AlignUp(n))
  /\ \/ /\ heapPtr >= HeapEnd
        /\ panicked' = TRUE
        /\ UNCHANGED blocks
     \/ /\ heapPtr < HeapEnd
        /\ blocks' = Append(blocks, [addr |-> heapPtr, size |-> size])
        /\ UNCHANGED panicked

MallocAnswersMinusOne(n, size) ==
  /\ ~panicked
  /\ Len(blocks) < MaxBlocks
  /\ heapPtr' = Add(heapPtr, AlignUp(n))
  /\ blocks' = Append(blocks, [addr |-> IF heapPtr' >= HeapEnd THEN -1 ELSE heapPtr,
                               size |-> size])
  /\ UNCHANGED panicked

\* Emulator.Malloc(n) on behalf of a caller that was asked for size bytes.
\* The pointer moves before the check, and a panic does not move it back.
Malloc(n, size) ==
  /\ ~panicked
  /\ Len(blocks) < MaxBlocks
  /\ heapPtr' = Add(heapPtr, AlignUp(n))
  /\ \/ /\ heapPtr' >= HeapEnd
        /\ panicked' = TRUE
        /\ UNCHANGED blocks
     \/ /\ heapPtr' < HeapEnd
        /\ blocks' = Append(blocks, [addr |-> heapPtr, size |-> size])
        /\ UNCHANGED panicked

\* stubMalloc, stubNew and stubRealloc round the size up themselves first.
StubMalloc(size) == Malloc(AlignUp(IF size = 0 THEN 16 ELSE size), size)

StubCalloc(count, size) ==
  LET total == (count * size) % Modulus
  IN  Malloc(AlignUp(IF total = 0 THEN 16 ELSE total), count * size)

StubMmap(length) == Malloc(length, length)

\* __cxa_allocate_exception: 128 more bytes for the header.
StubCxaAllocateException(size) ==
  LET thrown == IF size = 0 THEN 64 ELSE size
  IN  Malloc(Add(thrown, 128), thrown)

StubLuaNewuserdata(size) ==
  LET wanted == IF size = 0 THEN 64 ELSE size IN Malloc(wanted, wanted)

\* Buffers of a size the stub chooses: strings, return objects, structs.
StubBuffer(size) == Malloc(size, size)

\* The process is gone, or the run has reached its bound.
Ended == (panicked \/ Len(blocks) = MaxBlocks) /\ UNCHANGED vars

Request == \/ \E size \in Sizes : \/ StubMalloc(size)
                                  \/ StubMmap(size)
                                  \/ StubCxaAllocateException(size)
                                  \/ StubLuaNewuserdata(size)
           \/ \E count, size \in Sizes : StubCalloc(count, size)
           \/ \E size \in FixedSizes : StubBuffer(size)

Next == Request \/ Ended

Spec == Init /\ [][Next]_vars

-----------------------------------------------------------------------------
\* Types.
TypeOK == /\ heapPtr \in Word
          /\ blocks \in Seq(Block)
          /\ panicked \in BOOLEAN

Region(b) == b.addr..(b.addr + b.size - 1)

\* No two blocks the guest was given share a byte, whichever stubs they came
\* from (emulator.go:733-745 and its callers).
BlocksDisjoint ==
  \A i, j \in 1..Len(blocks) :
    i # j => Region(blocks[i]) \cap Region(blocks[j]) = {}

\* Every byte a guest was given lies in the mapped heap region, on a 16-byte
\* boundary: an allocation beyond the region panics instead ("Panics if heap
\* is exhausted", emulator.go:731-745).
BlocksInHeap ==
  \A i \in 1..Len(blocks) : /\ Region(blocks[i]) \subseteq HeapBase..(HeapEnd - 1)
                            /\ blocks[i].addr % 16 = 0

(***************************************************************************)
(* The requests for which no 64-bit sum or product wraps: the condition    *)
(* under which the properties above are theorems.                          *)
(***************************************************************************)
SmallRequests ==
  /\ \A s \in Sizes \cup FixedSizes : HeapEnd + s + 256 <= Modulus
  /\ \A s, t \in Sizes : HeapEnd + s * t + 256 <= Modulus

\* The inductive invariant: the blocks lie in the order they were handed out,
\* between the base of the heap and the pointer, which only moves up and is
\* below the end of the heap until the panic (emulator.go:733-745).
HeapInv ==
  /\ heapPtr >= HeapBase /\ heapPtr % 16 = 0
  /\ ~panicked => heapPtr <= HeapEnd
  /\ \A i \in 1..Len(blocks) :
       /\ blocks[i].addr >= HeapBase
       /\ blocks[i].addr % 16 = 0
       /\ blocks[i].addr + blocks[i].size <= heapPtr
       /\ blocks[i].addr + blocks[i].size <= HeapEnd
  /\ \A i, j \in 1..Len(blocks) :
       i < j => blocks[i].addr + blocks[i].size <= blocks[j].addr

-----------------------------------------------------------------------------
\* The heap gives the guest fresh blocks only.
Promise == INSTANCE FreshBlocks WITH Base <- HeapBase, Limit <- HeapEnd,
                                     over <- panicked
FreshBlocksSpec == Promise!Spec
=============================================================================

----------------------------- MODULE HeapProofs -----------------------------
(***************************************************************************)
(* Proofs about Heap, for every heap region, every register width and all  *)
(* requests that are small enough not to wrap (SmallRequests).             *)
(***************************************************************************)
EXTENDS Heap, SequenceTheorems, TLAPS

Inv == TypeOK /\ HeapInv

LEMMA AddSmall ==
  ASSUME NEW a \in Nat, NEW b \in Nat, a + b < Modulus
  PROVE  Add(a, b) = a + b
<1>1. \A x, m \in Nat : x < m => x % m = x
  OBVIOUS
<1>2. a + b \in Nat /\ Modulus \in Nat
  BY HeapAssumption
<1> QED BY <1>1, <1>2 DEF Add

\* What rounding up does to a size that is small enough.
LEMMA AlignUpSmall ==
  ASSUME NEW n \in Nat, n + 15 < Modulus
  PROVE  /\ AlignUp(n) \in Nat
         /\ AlignUp(n) % 16 = 0
         /\ n <= AlignUp(n)
         /\ AlignUp(n) <= n + 15
<1>1. Add(n, 15) = n + 15
  BY AddSmall
<1>2. AlignUp(n) = (n + 15) - ((n + 15) % 16)
  BY <1>1 DEF AlignUp
<1>3. PICK q, r \in Nat : n + 15 = 16 * q + r /\ r < 16 /\ (n + 15) % 16 = r
  <2>1. /\ (n + 15) \div 16 \in Nat /\ (n + 15) % 16 \in Nat
        /\ (n + 15) % 16 < 16
        /\ n + 15 = 16 * ((n + 15) \div 16) + ((n + 15) % 16)
    OBVIOUS
  <2> QED BY <2>1
<1>4. AlignUp(n) = 16 * q
  BY <1>2, <1>3
<1> QED BY <1>3, <1>4

LEMMA BlockFields ==
  ASSUME NEW blk \in Block
  PROVE  blk.addr \in Nat /\ blk.size \in Nat
<1>1. Modulus \in Nat
  BY HeapAssumption
<1>2. blk.addr \in 0..(Modulus - 1) /\ blk.size \in Nat
  BY DEF Block, Word
<1> QED BY <1>1, <1>2

LEMMA InitInv == Init => Inv
<1> SUFFICES ASSUME Init PROVE Inv
  OBVIOUS
<1>1. Len(blocks) = 0 /\ blocks \in Seq(Block)
  BY DEF Init
<1>2. HeapBase \in Word
  BY HeapAssumption DEF Word, HeapEnd
<1>3. TypeOK
  BY <1>1, <1>2 DEF Init, TypeOK
<1>4. HeapInv
  <2>1. HeapBase \in Nat /\ HeapBase % 16 = 0 /\ HeapBase <= HeapEnd
    BY HeapAssumption DEF HeapEnd
  <2>2. \A i \in 1..Len(blocks) : FALSE
    BY <1>1
  <2> QED BY <2>1, <2>2 DEF Init, HeapInv
<1> QED BY <1>3, <1>4 DEF Inv

(***************************************************************************)
(* The heart of the proof: Emulator.Malloc keeps the invariant when it is  *)
(* asked for at least what the caller promised the guest.  All the stubs   *)
(* are instances of it.                                                    *)
(***************************************************************************)
LEMMA MallocKeepsInv ==
  ASSUME Inv, NEW n \in Nat, NEW size \in Nat, size <= n,
         HeapEnd + n + 15 < Modulus, Malloc(n, size)
  PROVE  Inv'
<1>1. /\ heapPtr \in Nat /\ heapPtr >= HeapBase /\ heapPtr % 16 = 0
      /\ heapPtr <= HeapEnd
      /\ HeapBase \in Nat /\ HeapEnd \in Nat /\ Modulus \in Nat
      /\ blocks \in Seq(Block) /\ ~panicked
  BY HeapAssumption DEF Inv, TypeOK, HeapInv, Malloc, Word, HeapEnd
<1>2. /\ AlignUp(n) \in Nat /\ AlignUp(n) % 16 = 0
      /\ n <= AlignUp(n) /\ AlignUp(n) <= n + 15
  BY <1>1, AlignUpSmall
<1>3. heapPtr' = heapPtr + AlignUp(n)
  <2>1. heapPtr + AlignUp(n) < Modulus
    BY <1>1, <1>2
  <2>2. Add(heapPtr, AlignUp(n)) = heapPtr + AlignUp(n)
    BY <1>1, <1>2, <2>1, AddSmall
  <2> QED BY <2>2 DEF Malloc
<1>4. heapPtr' \in Word /\ heapPtr' >= HeapBase
  BY <1>1, <1>2, <1>3 DEF Word
<1>5. heapPtr' % 16 = 0
  <2>1. \A a, b \in Nat : a % 16 = 0 /\ b % 16 = 0 => (a + b) % 16 = 0
    OBVIOUS
  <2> QED BY <1>1, <1>2, <1>3, <2>1
<1>6. heapPtr' >= heapPtr + size /\ heapPtr' \in Nat
  BY <1>1, <1>2, <1>3
<1>7. CASE heapPtr' >= HeapEnd /\ panicked' = TRUE /\ UNCHANGED blocks
  <2>1. TypeOK'
    BY <1>1, <1>4, <1>7 DEF TypeOK
  <2>2. \A i \in 1..Len(blocks) : blocks[i].addr + blocks[i].size <= heapPtr'
    <3> SUFFICES ASSUME NEW i \in 1..Len(blocks)
                 PROVE  blocks[i].addr + blocks[i].size <= heapPtr'
      OBVIOUS
    <3>1. blocks[i].addr + blocks[i].size <= heapPtr
      BY DEF Inv, HeapInv
    <3>2. blocks[i] \in Block
      BY <1>1, ElementOfSeq
    <3>3. blocks[i].addr \in Nat /\ blocks[i].size \in Nat
      BY <3>2, BlockFields
    <3> QED BY <1>1, <1>6, <3>1, <3>3
  <2> QED BY <1>4, <1>5, <1>7, <2>1, <2>2 DEF Inv, HeapInv
<1>8. CASE /\ heapPtr' < HeapEnd
           /\ blocks' = Append(blocks, [addr |-> heapPtr, size |-> size])
           /\ UNCHANGED panicked
  <2> DEFINE b == [addr |-> heapPtr, size |-> size]
  <2>1. b \in Block
    BY <1>1 DEF Block, Inv, TypeOK
  <2>2. /\ blocks' \in Seq(Block) /\ Len(blocks') = Len(blocks) + 1
        /\ \A i \in 1..Len(blocks) : blocks'[i] = blocks[i]
        /\ blocks'[Len(blocks) + 1] = b
    BY <1>1, <1>8, <2>1, AppendProperties
  <2>3. Len(blocks) \in Nat
    BY <1>1
  <2>4. TypeOK'
    <3>1. panicked' \in BOOLEAN
      BY <1>8 DEF Inv, TypeOK
    <3> QED BY <1>4, <2>2, <3>1 DEF TypeOK
  <2>5. \A i \in 1..Len(blocks) :
          /\ blocks[i].addr \in Nat /\ blocks[i].size \in Nat
          /\ blocks[i].addr >= HeapBase
          /\ blocks[i].addr % 16 = 0
          /\ blocks[i].addr + blocks[i].size <= heapPtr
          /\ blocks[i].addr + blocks[i].size <= HeapEnd
    <3> SUFFICES ASSUME NEW i \in 1..Len(blocks)
                 PROVE  /\ blocks[i].addr \in Nat /\ blocks[i].size \in Nat
                        /\ blocks[i].addr >= HeapBase
                        /\ blocks[i].addr % 16 = 0
                        /\ blocks[i].addr + blocks[i].size <= heapPtr
                        /\ blocks[i].addr + blocks[i].size <= HeapEnd
      OBVIOUS
    <3>1. blocks[i] \in Block
      BY <1>1, ElementOfSeq
    <3>2. blocks[i].addr \in Nat /\ blocks[i].size \in Nat
      BY <3>1, BlockFields
    <3>3. /\ blocks[i].addr >= HeapBase
          /\ blocks[i].addr % 16 = 0
          /\ blocks[i].addr + blocks[i].size <= heapPtr
          /\ blocks[i].addr + blocks[i].size <= HeapEnd
      BY DEF Inv, HeapInv
    <3> QED BY <3>2, <3>3
  <2>6. \A i \in 1..Len(blocks') :
          /\ blocks'[i].addr >= HeapBase
          /\ blocks'[i].addr % 16 = 0
          /\ blocks'[i].addr + blocks'[i].size <= heapPtr'
          /\ blocks'[i].addr + blocks'[i].size <= HeapEnd
    <3> SUFFICES ASSUME NEW i \in 1..Len(blocks')
                 PROVE  /\ blocks'[i].addr >= HeapBase
                        /\ blocks'[i].addr % 16 = 0
                        /\ blocks'[i].addr + blocks'[i].size <= heapPtr'
                        /\ blocks'[i].addr + blocks'[i].size <= HeapEnd
      OBVIOUS
    <3>1. CASE i \in 1..Len(blocks)
      <4>1. blocks'[i] = blocks[i]
        BY <2>2, <3>1
      <4>2. /\ blocks[i].addr \in Nat /\ blocks[i].size \in Nat
            /\ blocks[i].addr >= HeapBase
            /\ blocks[i].addr % 16 = 0
            /\ blocks[i].addr + blocks[i].size <= heapPtr
            /\ blocks[i].addr + blocks[i].size <= HeapEnd
        BY <2>5, <3>1
      <4>3. heapPtr <= heapPtr'
        BY <1>1, <1>6
      <4>4. blocks[i].addr + blocks[i].size <= heapPtr'
        BY <1>1, <1>6, <4>2, <4>3
      <4> QED BY <4>1, <4>2, <4>4
    <3>2. CASE i = Len(blocks) + 1
      <4>1. blocks'[i].addr = heapPtr /\ blocks'[i].size = size
        BY <2>2, <3>2
      <4>2. heapPtr + size <= HeapEnd
        BY <1>1, <1>6, <1>8
      <4> QED BY <1>1, <1>6, <4>1, <4>2
    <3> QED BY <2>2, <2>3, <3>1, <3>2
  <2>7. \A i, j \in 1..Len(blocks') :
          i < j => blocks'[i].addr + blocks'[i].size <= blocks'[j].addr
    <3> SUFFICES ASSUME NEW i \in 1..Len(blocks'), NEW j \in 1..Len(blocks'),
                        i < j
                 PROVE  blocks'[i].addr + blocks'[i].size <= blocks'[j].addr
      OBVIOUS
    <3>1. i \in 1..Len(blocks) /\ blocks'[i] = blocks[i]
      BY <2>2, <2>3
    <3>2. CASE j \in 1..Len(blocks)
      BY <2>2, <3>1, <3>2 DEF Inv, HeapInv
    <3>3. CASE j = Len(blocks) + 1
      <4>1. blocks'[j].addr = heapPtr
        BY <2>2, <3>3
      <4> QED BY <2>5, <3>1, <4>1
    <3> QED BY <2>2, <2>3, <3>2, <3>3
  <2>8. ~panicked' => heapPtr' <= HeapEnd
    BY <1>1, <1>6, <1>8
  <2> QED BY <1>4, <1>5, <2>4, <2>6, <2>7, <2>8 DEF Inv, HeapInv
<1> QED BY <1>7, <1>8 DEF Malloc

-----------------------------------------------------------------------------
\* Each way guest code reaches Malloc asks for at least the size it promised
\* and stays clear of the register width.
LEMMA RequestsAreMallocs ==
  ASSUME SmallRequests, Next
  PROVE  \/ \E n, size \in Nat : /\ size <= n /\ HeapEnd + n + 15 < Modulus
                                 /\ Malloc(n, size)
         \/ UNCHANGED vars
<1>0. HeapEnd \in Nat /\ Modulus \in Nat \ {0}
  BY HeapAssumption DEF HeapEnd
<1>1. \A s \in Sizes \cup FixedSizes : s \in Nat /\ HeapEnd + s + 256 <= Modulus
  BY HeapAssumption DEF SmallRequests, Word
<1>2. ASSUME NEW s \in Sizes, StubMalloc(s)
      PROVE  \E n, size \in Nat : /\ size <= n /\ HeapEnd + n + 15 < Modulus
                                  /\ Malloc(n, size)
  <2> DEFINE t == IF s = 0 THEN 16 ELSE s
  <2>1. /\ s \in Nat /\ t \in Nat /\ s <= t /\ t <= s + 16
        /\ HeapEnd + s + 256 <= Modulus
    BY <1>1
  <2>2. t + 15 < Modulus
    BY <1>0, <2>1
  <2>3. AlignUp(t) \in Nat /\ t <= AlignUp(t) /\ AlignUp(t) <= t + 15
    BY <2>1, <2>2, AlignUpSmall
  <2>4. s <= AlignUp(t) /\ HeapEnd + AlignUp(t) + 15 < Modulus
    BY <1>0, <2>1, <2>3
  <2>5. Malloc(AlignUp(t), s)
    BY <1>2 DEF StubMalloc
  <2> QED BY <2>1, <2>3, <2>4, <2>5
<1>3. ASSUME NEW s \in Sizes, StubMmap(s)
      PROVE  \E n, size \in Nat : /\ size <= n /\ HeapEnd + n + 15 < Modulus
                                  /\ Malloc(n, size)
  <2>1. s \in Nat /\ s <= s /\ HeapEnd + s + 15 < Modulus
    BY <1>0, <1>1
  <2>2. Malloc(s, s)
    BY <1>3 DEF StubMmap
  <2> QED BY <2>1, <2>2
<1>4. ASSUME NEW s \in Sizes, StubCxaAllocateException(s)
      PROVE  \E n, size \in Nat : /\ size <= n /\ HeapEnd + n + 15 < Modulus
                                  /\ Malloc(n, size)
  <2> DEFINE t == IF s = 0 THEN 64 ELSE s
  <2>1. /\ s \in Nat /\ t \in Nat /\ t <= s + 64
        /\ HeapEnd + s + 256 <= Modulus
    BY <1>1
  <2>2. t + 128 < Modulus
    BY <1>0, <2>1
  <2>3. Add(t, 128) = t + 128
    BY <2>1, <2>2, AddSmall
  <2>4. /\ t + 128 \in Nat /\ t <= t + 128
        /\ HeapEnd + (t + 128) + 15 < Modulus
    BY <1>0, <2>1
  <2>5. Malloc(t + 128, t)
    BY <1>4, <2>3 DEF StubCxaAllocateException
  <2> HIDE DEF t
  <2> QED BY <2>1, <2>4, <2>5
<1>5. ASSUME NEW s \in Sizes, StubLuaNewuserdata(s)
      PROVE  \E n, size \in Nat : /\ size <= n /\ HeapEnd + n + 15 < Modulus
                                  /\ Malloc(n, size)
  <2> DEFINE t == IF s = 0 THEN 64 ELSE s
  <2>1. t \in Nat /\ t <= t /\ HeapEnd + t + 15 < Modulus
    BY <1>0, <1>1
  <2>2. Malloc(t, t)
    BY <1>5 DEF StubLuaNewuserdata
  <2> HIDE DEF t
  <2> QED BY <2>1, <2>2
<1>6. ASSUME NEW s \in FixedSizes, StubBuffer(s)
      PROVE  \E n, size \in Nat : /\ size <= n /\ HeapEnd + n + 15 < Modulus
                                  /\ Malloc(n, size)
  <2>1. s \in Nat /\ s <= s /\ HeapEnd + s + 15 < Modulus
    BY <1>0, <1>1
  <2>2. Malloc(s, s)
    BY <1>6 DEF StubBuffer
  <2> QED BY <2>1, <2>2
<1>7. ASSUME NEW c \in Sizes, NEW s \in Sizes, StubCalloc(c, s)
      PROVE  \E n, size \in Nat : /\ size <= n /\ HeapEnd + n + 15 < Modulus
                                  /\ Malloc(n, size)
  <2> DEFINE p == c * s
  <2>1. p \in Nat /\ HeapEnd + p + 256 <= Modulus
    BY <1>1 DEF SmallRequests
  <2> HIDE DEF p
  <2>2. p % Modulus = p
    <3>1. \A x, m \in Nat : x < m => x % m = x
      OBVIOUS
    <3> QED BY <1>0, <2>1, <3>1
  <2> DEFINE t == IF p = 0 THEN 16 ELSE p
  <2>3. t \in Nat /\ p <= t /\ t <= p + 16 /\ t + 15 < Modulus
    BY <1>0, <2>1
  <2>4. AlignUp(t) \in Nat /\ t <= AlignUp(t) /\ AlignUp(t) <= t + 15
    BY <2>3, AlignUpSmall
  <2>5. p <= AlignUp(t) /\ HeapEnd + AlignUp(t) + 15 < Modulus
    BY <1>0, <2>1, <2>3, <2>4
  <2>6. Malloc(AlignUp(t), p)
    BY <1>7, <2>2 DEF StubCalloc, p
  <2> QED BY <2>1, <2>4, <2>5, <2>6
<1>8. CASE Ended
  BY <1>8 DEF Ended
<1> QED BY <1>2, <1>3, <1>4, <1>5, <1>6, <1>7, <1>8 DEF Next, Request

LEMMA NextKeepsInv ==
  ASSUME SmallRequests, Inv, [Next]_vars
  PROVE  Inv'
<1>1. CASE UNCHANGED vars
  BY <1>1 DEF vars, Inv, TypeOK, HeapInv
<1>2. CASE \E n, size \in Nat : /\ size <= n /\ HeapEnd + n + 15 < Modulus
                                /\ Malloc(n, size)
  BY <1>2, MallocKeepsInv
<1> QED BY <1>1, <1>2, RequestsAreMallocs

\* The heap pointer stays a register value and every block a well-formed one.
THEOREM TypeCorrect == SmallRequests => (Spec => []TypeOK)
<1> SUFFICES ASSUME SmallRequests PROVE Spec => []TypeOK
  OBVIOUS
<1>1. Inv /\ [Next]_vars => Inv'
  BY NextKeepsInv
<1>2. Inv => TypeOK
  BY DEF Inv
<1> QED BY <1>1, <1>2, InitInv, PTL DEF Spec

\* The blocks lie one after the other between the base of the heap and the
\* pointer (emulator.go:733-745).
THEOREM HeapInOrder == SmallRequests => (Spec => []HeapInv)
<1> SUFFICES ASSUME SmallRequests PROVE Spec => []HeapInv
  OBVIOUS
<1>1. Inv /\ [Next]_vars => Inv'
  BY NextKeepsInv
<1>2. Inv => HeapInv
  BY DEF Inv
<1> QED BY <1>1, <1>2, InitInv, PTL DEF Spec

LEMMA InvDisjoint == Inv => BlocksDisjoint
<1> SUFFICES ASSUME Inv, NEW i \in 1..Len(blocks), NEW j \in 1..Len(blocks),
                    i # j
             PROVE  Region(blocks[i]) \cap Region(blocks[j]) = {}
  BY DEF BlocksDisjoint
<1>1. /\ blocks[i] \in Block /\ blocks[j] \in Block
      /\ i \in Nat /\ j \in Nat
  BY ElementOfSeq DEF Inv, TypeOK
<1>2. /\ blocks[i].addr \in Nat /\ blocks[i].size \in Nat
      /\ blocks[j].addr \in Nat /\ blocks[j].size \in Nat
  BY <1>1, BlockFields
<1>3. \/ blocks[i].addr + blocks[i].size <= blocks[j].addr
      \/ blocks[j].addr + blocks[j].size <= blocks[i].addr
  BY <1>1 DEF Inv, HeapInv
<1>4. \A a, n, b, m \in Nat :
        a + n <= b \/ b + m <= a => (a..(a + n - 1)) \cap (b..(b + m - 1)) = {}
  OBVIOUS
<1>5. (blocks[i].addr..(blocks[i].addr + blocks[i].size - 1))
        \cap (blocks[j].addr..(blocks[j].addr + blocks[j].size - 1)) = {}
  BY <1>2, <1>3, <1>4
<1> QED BY <1>5 DEF Region

LEMMA InvInHeap == Inv => BlocksInHeap
<1> SUFFICES ASSUME Inv, NEW i \in 1..Len(blocks)
             PROVE  /\ Region(blocks[i]) \subseteq HeapBase..(HeapEnd - 1)
                    /\ blocks[i].addr % 16 = 0
  BY DEF BlocksInHeap
<1>1. blocks[i] \in Block
  BY ElementOfSeq DEF Inv, TypeOK
<1>2. blocks[i].addr \in Nat /\ blocks[i].size \in Nat
  BY <1>1, BlockFields
<1>3. /\ blocks[i].addr >= HeapBase /\ blocks[i].addr % 16 = 0
      /\ blocks[i].addr + blocks[i].size <= HeapEnd
      /\ HeapBase \in Nat /\ HeapEnd \in Nat
  BY HeapAssumption DEF Inv, HeapInv, HeapEnd
<1> QED BY <1>2, <1>3 DEF Region

\* No two blocks handed to the guest share a byte (emulator.go:733-745).
THEOREM NoOverlap == SmallRequests => (Spec => []BlocksDisjoint)
<1> SUFFICES ASSUME SmallRequests PROVE Spec => []BlocksDisjoint
  OBVIOUS
<1>1. Inv /\ [Next]_vars => Inv'
  BY NextKeepsInv
<1> QED BY <1>1, InitInv, InvDisjoint, PTL DEF Spec

\* Every block lies in the mapped heap region on a 16-byte boundary
\* (emulator.go:731-745).
THEOREM InsideHeap == SmallRequests => (Spec => []BlocksInHeap)
<1> SUFFICES ASSUME SmallRequests PROVE Spec => []BlocksInHeap
  OBVIOUS
<1>1. Inv /\ [Next]_vars => Inv'
  BY NextKeepsInv
<1> QED BY <1>1, InitInv, InvInHeap, PTL DEF Spec

-----------------------------------------------------------------------------
(***************************************************************************)
(* Heap implements FreshBlocks: a call of Malloc that returns is a Grant,  *)
(* one that panics a Refuse.                                               *)
(***************************************************************************)
LEMMA StepRefines ==
  ASSUME SmallRequests, Inv, Inv', [Next]_vars
  PROVE  [Promise!Next]_<<blocks, panicked>>
<1>1. CASE UNCHANGED vars
  BY <1>1 DEF vars
<1>2. CASE \E n, size \in Nat : /\ size <= n /\ HeapEnd + n + 15 < Modulus
                                /\ Malloc(n, size)
  <2>1. PICK n \in Nat, size \in Nat : Malloc(n, size)
    BY <1>2
  <2>2. CASE panicked' = TRUE /\ UNCHANGED blocks
    BY <2>1, <2>2 DEF Malloc, Promise!Next, Promise!Refuse
  <2>3. CASE /\ blocks' = Append(blocks, [addr |-> heapPtr, size |-> size])
             /\ UNCHANGED panicked
    <3>1. [addr |-> heapPtr, size |-> size] \in Block
      BY DEF Inv, TypeOK, Block
    <3>2. /\ blocks \in Seq(Block) /\ Len(blocks) \in Nat
          /\ Len(blocks') = Len(blocks) + 1
          /\ \A i \in 1..Len(blocks) : blocks'[i] = blocks[i]
      BY <2>3, <3>1, AppendProperties DEF Inv, TypeOK
    <3>3. Len(blocks) + 1 \in 1..Len(blocks')
      BY <3>2
    <3>4. BlocksInHeap' /\ BlocksDisjoint'
      <4>1. Inv => BlocksInHeap /\ BlocksDisjoint
        BY InvInHeap, InvDisjoint
      <4>2. (Inv => BlocksInHeap /\ BlocksDisjoint)'
        BY InvInHeap, InvDisjoint, PTL
      <4> QED BY <4>2
    <3>5. Region(blocks'[Len(blocks) + 1]) \subseteq HeapBase..(HeapEnd - 1)
      BY <3>3, <3>4 DEF BlocksInHeap, Region
    <3>6. \A i \in 1..Len(blocks) :
            Region(blocks[i]) \cap Region(blocks'[Len(blocks) + 1]) = {}
      <4> SUFFICES ASSUME NEW i \in 1..Len(blocks)
                   PROVE  Region(blocks'[i])
                            \cap Region(blocks'[Len(blocks) + 1]) = {}
        BY <3>2
      <4>1. i \in 1..Len(blocks') /\ i # Len(blocks) + 1
        BY <3>2
      <4> QED BY <3>3, <3>4, <4>1 DEF BlocksDisjoint, Region
    <3>7. \A j \in (Len(blocks) + 1)..Len(blocks') : j = Len(blocks) + 1
      BY <3>2
    <3>8. \A j \in (Len(blocks) + 1)..Len(blocks') :
            /\ Promise!Region(blocks'[j]) \subseteq HeapBase..(HeapEnd - 1)
            /\ \A i \in 1..(j - 1) :
                 Promise!Region(blocks'[i])
                   \cap Promise!Region(blocks'[j]) = {}
      BY <3>2, <3>5, <3>6, <3>7 DEF Promise!Region, Region
    <3>9. ~panicked /\ Len(blocks') > Len(blocks)
      BY <2>1, <3>2 DEF Malloc
    <3>10. Promise!Grant
      BY <2>3, <3>2, <3>8, <3>9 DEF Promise!Grant
    <3> QED BY <3>10 DEF Promise!Next
  <2> QED BY <2>1, <2>2, <2>3 DEF Malloc
<1> QED BY <1>1, <1>2, RequestsAreMallocs

\* Whatever the guest asks for within the small requests, it sees a heap that
\* only ever hands out fresh memory inside its region.
THEOREM HeapImplementsFreshBlocks == SmallRequests => (Spec => FreshBlocksSpec)
<1> SUFFICES ASSUME SmallRequests PROVE Spec => FreshBlocksSpec
  OBVIOUS
<1>1. Init => Promise!Init
  BY DEF Init, Promise!Init
<1>2. Inv /\ [Next]_vars => Inv'
  BY NextKeepsInv
<1>3. Inv /\ Inv' /\ [Next]_vars => [Promise!Next]_<<blocks, panicked>>
  BY StepRefines
<1> QED BY <1>1, <1>2, <1>3, InitInv, PTL
        DEF Spec, FreshBlocksSpec, Promise!Spec
=============================================================================

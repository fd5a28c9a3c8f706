-------------------------- MODULE KeyCaptureProofs --------------------------
(***************************************************************************)
(* Proofs about KeyCapture, for every size of cells, window, heap and      *)
(* memory, and any number of objects, edits and calls.                     *)
(***************************************************************************)
EXTENDS KeyCapture, SequenceTheorems, WellFoundedInduction, TLAPS

Cell == 0..(Radix - 1)

Char == Cell \ {0}

Memory == [DOMAIN Guest -> Cell]

\* The constants, in pieces that are easy to cite.
LEMMA Numbers ==
  /\ Radix \in Nat /\ Radix > 8 /\ Radix % 2 = 0
  /\ LenLimit \in Nat /\ PtrMin \in Nat /\ LenLimit <= PtrMin
  /\ Window \in Nat /\ Window < LenLimit
  /\ Align \in Nat \ {0}
  /\ HeapBase \in Nat /\ HeapEnd \in Nat
  /\ HeapBase < HeapEnd /\ HeapEnd < 2 * HeapBase
BY KeyCaptureAssumption DEF SSOMaxLen, ObjSize

LEMMA Chars == /\ Printable \subseteq Char /\ Drawn \subseteq Char
               /\ Char \subseteq Cell /\ 0 \notin Char
BY KeyCaptureAssumption, Numbers DEF Char, Cell

LEMMA Places ==
  /\ DOMAIN Guest \subseteq Nat
  /\ \A a \in DOMAIN Guest : a > PtrMin /\ a < Radix * Radix
  /\ HeapRange \subseteq DOMAIN Guest
  /\ \A a \in HeapRange : a \in Nat /\ HasWindow(a)
  /\ \A a : a \in HeapRange <=> a \in Nat /\ HeapBase <= a /\ a < HeapEnd
<1>1. DOMAIN Guest \subseteq (PtrMin + 1)..(Radix * Radix - 1)
  BY KeyCaptureAssumption
<1>2. PICK q \in Nat : q = Radix * Radix
  BY Numbers
<1>3. /\ DOMAIN Guest \subseteq Nat
      /\ \A a \in DOMAIN Guest : a > PtrMin /\ a < Radix * Radix
  BY <1>1, <1>2, Numbers
<1>4. \A a : a \in HeapRange <=> a \in Nat /\ HeapBase <= a /\ a < HeapEnd
  BY Numbers DEF HeapRange
<1> QED BY <1>3, <1>4, KeyCaptureAssumption

LEMMA ObjectsOK ==
  ASSUME NEW o \in Objects
  PROVE  /\ o \in Nat
         /\ HasWindow(o + 1)
         /\ \A k \in 0..5 : o + k \in DOMAIN Guest /\ o + k \notin HeapRange
         /\ \A k \in 0..5 : Guest[o + k] = 0
         /\ \A p \in Objects : \A k, l \in 0..5 : p # o => o + k # p + l
<1>1. Objects \subseteq Nat
  BY KeyCaptureAssumption DEF AreObjects
<1>2. \A p \in Objects : \A k \in 0..5 : p + k \in ObjectCells(p)
  BY <1>1 DEF ObjectCells, ObjSize
<1>3. \A k \in 0..5 : /\ o + k \in DOMAIN Guest /\ o + k \notin HeapRange
                      /\ Guest[o + k] = 0
  BY <1>2, KeyCaptureAssumption DEF AreObjects
<1>4. ASSUME NEW p \in Objects, NEW k \in 0..5, NEW l \in 0..5, p # o
      PROVE  o + k # p + l
  <2>1. ObjectCells(o) \cap ObjectCells(p) = {}
    BY <1>4, KeyCaptureAssumption DEF AreObjects
  <2> QED BY <1>2, <2>1
<1>5. HasWindow(o + 1)
  BY KeyCaptureAssumption DEF AreObjects
<1> QED BY <1>1, <1>3, <1>4, <1>5

-----------------------------------------------------------------------------
(***************************************************************************)
(* Least elements: of the terminators in a window, and of the attempts     *)
(* that found something.                                                   *)
(***************************************************************************)
Below == {p \in Nat \X Nat : p[1] < p[2]}

LEMMA LeastExists ==
  ASSUME NEW S \in SUBSET Nat, S # {}
  PROVE  \E x \in S : \A y \in S : x <= y
<1>1. OpToRel(<, Nat) = Below
  BY Zenon DEF OpToRel, Below
<1>2. IsWellFoundedOn(Below, Nat)
  BY <1>1, NatLessThanWellFounded, Zenon
<1>3. PICK x \in S : \A y \in S : ~(<<y, x>> \in Below)
  BY <1>2, WFMin
<1>4. ASSUME NEW y \in S PROVE x <= y
  <2>1. <<y, x>> \in Nat \X Nat
    OBVIOUS
  <2>2. ~(y < x)
    BY <1>3, <2>1 DEF Below
  <2> QED BY <2>2
<1> QED BY <1>4

-----------------------------------------------------------------------------
(***************************************************************************)
(* Reading.                                                                *)
(***************************************************************************)
LEMMA BytesOK ==
  ASSUME mem \in Memory, NEW a \in Nat, NEW n \in Nat, Readable(a, n)
  PROVE  /\ Bytes(a, n) \in Seq(Cell) /\ Len(Bytes(a, n)) = n
         /\ \A i \in 1..n : Bytes(a, n)[i] = mem[a + i - 1]
<1>1. ASSUME NEW i \in 1..n PROVE mem[a + i - 1] \in Cell
  <2>1. a + i - 1 \in a..(a + n - 1)
    OBVIOUS
  <2> QED BY <2>1 DEF Readable, Memory
<1>2. Bytes(a, n) \in [1..n -> Cell]
  BY <1>1 DEF Bytes
<1> QED BY <1>2 DEF Bytes

\* A run of characters with a terminator, or as long as the window, is read
\* as it is.
LEMMA ReadsAs ==
  ASSUME mem \in Memory, NEW a \in Nat, HasWindow(a),
         NEW s \in Seq(Char), Len(s) <= Window,
         \A i \in 1..Len(s) : mem[a + i - 1] = s[i],
         Len(s) < Window => mem[a + Len(s)] = 0
  PROVE  MemReadString(a) = s
<1> DEFINE ends == {n \in 0..(Window - 1) : mem[a + n] = 0}
<1>1. Readable(a, Window)
  BY DEF HasWindow, Readable, Memory
<1>2. PICK l \in Nat : l = Len(s)
  OBVIOUS
<1>3. ASSUME NEW n \in ends PROVE l <= n
  <2>1. SUFFICES ASSUME n < l PROVE FALSE
    BY <1>2
  <2>2. n + 1 \in 1..l /\ a + (n + 1) - 1 = a + n
    BY <2>1
  <2>3. s[n + 1] \in Char /\ s[n + 1] = mem[a + n]
    BY <1>2, <2>2
  <2> QED BY <2>3, Chars
<1>4. Bytes(a, l) = s
  <2>1. Readable(a, l)
    BY <1>1, <1>2, Numbers DEF Readable
  <2>2. s \in Seq(Cell)
    BY Chars
  <2> QED BY <1>2, <2>1, <2>2, BytesOK, SeqEqual
<1>5. CASE l < Window
  <2>1. l \in ends
    BY <1>2, <1>5, Numbers
  <2>2. (CHOOSE n \in ends : \A k \in ends : n <= k) = l
    BY <1>3, <2>1
  <2> QED BY <1>1, <1>4, <2>1, <2>2 DEF MemReadString
<1>6. CASE l = Window
  <2>1. ends = {}
    BY <1>3, <1>6, Numbers
  <2> QED BY <1>1, <1>4, <1>6, <2>1 DEF MemReadString
<1> QED BY <1>2, <1>5, <1>6, Numbers

\* What is read as a string has no terminator in it and fits the window.
LEMMA ReadOK ==
  ASSUME mem \in Memory, NEW a \in Nat
  PROVE  LET s == MemReadString(a)
         IN  /\ s \in Seq(Char) /\ Len(s) \in Nat /\ Len(s) <= Window
             /\ s # <<>> => /\ Readable(a, Window) /\ Readable(a, Len(s))
                            /\ a > PtrMin
                            /\ Bytes(a, Len(s)) = s
                            /\ a \in DOMAIN mem /\ mem[a] = s[1] /\ Len(s) > 0
<1> DEFINE ends == {n \in 0..(Window - 1) : mem[a + n] = 0}
<1>1. CASE ~Readable(a, Window)
  BY <1>1, EmptySeq, Numbers DEF MemReadString
<1>2. CASE Readable(a, Window)
  <2>1. PICK l \in Nat : /\ l <= Window /\ MemReadString(a) = Bytes(a, l)
                         /\ \A n \in 0..(l - 1) : n \notin ends
    <3>1. CASE ends = {}
      <4>1. MemReadString(a) = Bytes(a, Window)
        BY <1>2, <3>1 DEF MemReadString
      <4> HIDE DEF ends
      <4> QED BY <3>1, <4>1, Numbers
    <3>2. CASE ends # {}
      <4>1. ends \in SUBSET Nat
        BY Numbers
      <4>2. PICK x \in ends : \A y \in ends : x <= y
        BY <3>2, <4>1, LeastExists
      <4>3. PICK x2 \in ends : /\ \A y \in ends : x2 <= y
                              /\ x2 = CHOOSE n \in ends : \A k \in ends : n <= k
        BY <4>2
      <4>4. MemReadString(a) = Bytes(a, x2)
        BY <1>2, <3>2, <4>3 DEF MemReadString
      <4>5. x2 \in Nat /\ x2 <= Window
        BY Numbers
      <4>6. \A n \in 0..(x2 - 1) : n \notin ends
        <5> HIDE DEF ends
        <5> QED BY <4>1, <4>3, <4>5
      <4> QED BY <4>4, <4>5, <4>6
    <3> QED BY <3>1, <3>2
  <2>2. Readable(a, l)
    BY <1>2, <2>1, Numbers DEF Readable
  <2>3. /\ Bytes(a, l) \in Seq(Cell) /\ Len(Bytes(a, l)) = l
        /\ \A i \in 1..l : Bytes(a, l)[i] = mem[a + i - 1]
    BY <2>2, BytesOK
  <2>4. ASSUME NEW i \in 1..l PROVE Bytes(a, l)[i] \in Char
    <3>1. i - 1 \in 0..(l - 1) /\ i - 1 \in 0..(Window - 1) /\ a + (i - 1) = a + i - 1
      BY <2>1, Numbers
    <3>2. mem[a + i - 1] # 0
      BY <2>1, <3>1
    <3> QED BY <2>3, <3>2 DEF Char
  <2>5. Bytes(a, l) \in Seq(Char)
    BY <2>3, <2>4
  <2>6. ASSUME MemReadString(a) # <<>>
        PROVE  l > 0 /\ a > PtrMin /\ a \in DOMAIN mem /\ mem[a] = Bytes(a, l)[1]
    <3>1. l > 0
      BY <2>1, <2>3, <2>6
    <3>2. a \in DOMAIN mem /\ a + 1 - 1 = a /\ 1 \in 1..l
      BY <2>2, <3>1 DEF Readable
    <3>3. a \in DOMAIN Guest
      BY <3>2 DEF Memory
    <3> QED BY <2>3, <3>1, <3>2, <3>3, Places
  <2> QED BY <1>2, <2>1, <2>2, <2>3, <2>5, <2>6
<1> QED BY <1>1, <1>2

LEMMA TextOK ==
  ASSUME mem \in Memory, NEW a \in Nat
  PROVE  /\ Text(a) # <<>> => IsPrintable(Text(a)) /\ Text(a) = MemReadString(a)
         /\ IsPrintable(MemReadString(a)) => Text(a) = MemReadString(a)
         /\ (a \in DOMAIN mem => mem[a] \notin Printable) => Text(a) = <<>>
<1>1. IsPrintable(MemReadString(a)) => a \in DOMAIN mem /\ mem[a] \in Printable
  <2> SUFFICES ASSUME IsPrintable(MemReadString(a))
               PROVE  a \in DOMAIN mem /\ mem[a] \in Printable
    OBVIOUS
  <2>1. MemReadString(a) # <<>>
    BY DEF IsPrintable
  <2>2. /\ a \in DOMAIN mem /\ mem[a] = MemReadString(a)[1]
        /\ Len(MemReadString(a)) \in Nat /\ Len(MemReadString(a)) > 0
    BY <2>1, ReadOK
  <2>3. 1 \in 1..Len(MemReadString(a))
    BY <2>2
  <2> QED BY <2>2, <2>3 DEF IsPrintable
<1> QED BY <1>1 DEF Text, IfPrintable

-----------------------------------------------------------------------------
(***************************************************************************)
(* Attempts in turn.                                                       *)
(***************************************************************************)
LEMMA FoundAt ==
  ASSUME NEW c, Len(c) \in Nat, NEW i \in 1..Len(c), c[i] # <<>>,
         \A j \in 1..Len(c) : j < i => c[j] = <<>>
  PROVE  FirstFound(c) = c[i]
<1> DEFINE found == {k \in 1..Len(c) : c[k] # <<>>}
<1>1. i \in found /\ \A j \in found : i <= j
  OBVIOUS
<1>2. (CHOOSE k \in found : \A j \in found : k <= j) = i
  BY <1>1
<1> QED BY <1>1, <1>2 DEF FirstFound

LEMMA NoneFound ==
  ASSUME NEW c, \A j \in 1..Len(c) : c[j] = <<>>
  PROVE  FirstFound(c) = <<>>
BY DEF FirstFound

LEMMA FirstOfTwo ==
  ASSUME NEW a, NEW b
  PROVE  FirstFound(<<a, b>>) = IF a # <<>> THEN a ELSE b
<1> DEFINE c == <<a, b>>
<1>1. Len(c) = 2 /\ c[1] = a /\ c[2] = b
  OBVIOUS
<1>2. \A j \in 1..2 : j = 1 \/ j = 2
  OBVIOUS
<1>3. 1 \in 1..2 /\ 2 \in 1..2
  OBVIOUS
<1> HIDE DEF c
<1>4. CASE a # <<>>
  BY <1>1, <1>3, <1>4, FoundAt
<1>5. CASE a = <<>> /\ b # <<>>
  BY <1>1, <1>2, <1>3, <1>5, FoundAt
<1>6. CASE a = <<>> /\ b = <<>>
  BY <1>1, <1>2, <1>6, NoneFound
<1> QED BY <1>4, <1>5, <1>6 DEF c

LEMMA FirstOfThree ==
  ASSUME NEW a, NEW b, NEW d
  PROVE  FirstFound(<<a, b, d>>) =
           IF a # <<>> THEN a ELSE IF b # <<>> THEN b ELSE d
<1> DEFINE c == <<a, b, d>>
<1>1. Len(c) = 3 /\ c[1] = a /\ c[2] = b /\ c[3] = d
  OBVIOUS
<1>2. \A j \in 1..3 : j = 1 \/ j = 2 \/ j = 3
  OBVIOUS
<1>3. 1 \in 1..3 /\ 2 \in 1..3 /\ 3 \in 1..3
  OBVIOUS
<1> HIDE DEF c
<1>4. CASE a # <<>>
  BY <1>1, <1>3, <1>4, FoundAt
<1>5. CASE a = <<>> /\ b # <<>>
  BY <1>1, <1>2, <1>3, <1>5, FoundAt
<1>6. CASE a = <<>> /\ b = <<>> /\ d # <<>>
  BY <1>1, <1>2, <1>3, <1>6, FoundAt
<1>7. CASE a = <<>> /\ b = <<>> /\ d = <<>>
  BY <1>1, <1>2, <1>7, NoneFound
<1> QED BY <1>4, <1>5, <1>6, <1>7 DEF c

LEMMA FirstOfFive ==
  ASSUME NEW a, NEW b, NEW d, NEW e, NEW f
  PROVE  FirstFound(<<a, b, d, e, f>>) =
           IF a # <<>> THEN a ELSE IF b # <<>> THEN b
           ELSE FirstFound(<<d, e, f>>)
<1> DEFINE c == <<a, b, d, e, f>>
           r == FirstFound(<<d, e, f>>)
<1>1. Len(c) = 5 /\ c[1] = a /\ c[2] = b /\ c[3] = d /\ c[4] = e /\ c[5] = f
  OBVIOUS
<1>2. \A j \in 1..5 : j = 1 \/ j = 2 \/ j = 3 \/ j = 4 \/ j = 5
  OBVIOUS
<1>3. 1 \in 1..5 /\ 2 \in 1..5 /\ 3 \in 1..5 /\ 4 \in 1..5 /\ 5 \in 1..5
  OBVIOUS
<1>4. r = IF d # <<>> THEN d ELSE IF e # <<>> THEN e ELSE f
  BY FirstOfThree
<1> SUFFICES FirstFound(c) = IF a # <<>> THEN a ELSE IF b # <<>> THEN b ELSE r
  OBVIOUS
<1> HIDE DEF c, r
\* Nothing before the attempt is found.
<1>5. ASSUME NEW i \in 1..5, c[i] # <<>>, \A j \in 1..5 : j < i => c[j] = <<>>
      PROVE  FirstFound(c) = c[i]
  <2>1. Len(c) \in Nat /\ i \in 1..Len(c)
    BY <1>1
  <2>2. \A j \in 1..Len(c) : j < i => c[j] = <<>>
    BY <1>1, <1>5
  <2> QED BY <1>5, <2>1, <2>2, FoundAt
<1>6. CASE a # <<>>
  <2>1. c[1] # <<>> /\ \A j \in 1..5 : j < 1 => c[j] = <<>>
    BY <1>1, <1>6
  <2> QED BY <1>1, <1>3, <1>5, <1>6, <2>1
<1>7. CASE a = <<>> /\ b # <<>>
  <2>1. c[2] # <<>> /\ \A j \in 1..5 : j < 2 => c[j] = <<>>
    BY <1>1, <1>2, <1>7
  <2> QED BY <1>1, <1>3, <1>5, <1>7, <2>1
<1>8. CASE a = <<>> /\ b = <<>> /\ d # <<>>
  <2>1. c[3] # <<>> /\ \A j \in 1..5 : j < 3 => c[j] = <<>>
    BY <1>1, <1>2, <1>8
  <2>2. FirstFound(c) = d
    BY <1>1, <1>3, <1>5, <2>1
  <2> QED BY <1>4, <1>8, <2>2
<1>9. CASE a = <<>> /\ b = <<>> /\ d = <<>> /\ e # <<>>
  <2>1. c[4] # <<>> /\ \A j \in 1..5 : j < 4 => c[j] = <<>>
    BY <1>1, <1>2, <1>9
  <2>2. FirstFound(c) = e
    BY <1>1, <1>3, <1>5, <2>1
  <2> QED BY <1>4, <1>9, <2>2
<1>10. CASE a = <<>> /\ b = <<>> /\ d = <<>> /\ e = <<>> /\ f # <<>>
  <2>1. c[5] # <<>> /\ \A j \in 1..5 : j < 5 => c[j] = <<>>
    BY <1>1, <1>2, <1>10
  <2>2. FirstFound(c) = f
    BY <1>1, <1>3, <1>5, <2>1
  <2> QED BY <1>4, <1>10, <2>2
<1>11. CASE a = <<>> /\ b = <<>> /\ d = <<>> /\ e = <<>> /\ f = <<>>
  <2>1. \A j \in 1..Len(c) : c[j] = <<>>
    BY <1>1, <1>2, <1>11
  <2>2. FirstFound(c) = <<>>
    BY <2>1, NoneFound
  <2> QED BY <1>4, <1>11, <2>2
<1> QED BY <1>6, <1>7, <1>8, <1>9, <1>10, <1>11

-----------------------------------------------------------------------------
(***************************************************************************)
(* Words and buffers.                                                      *)
(***************************************************************************)
\* Division with remainder.
LEMMA DivMod ==
  ASSUME NEW n \in Nat, NEW d \in Nat, d > 0
  PROVE  /\ n \div d \in Nat /\ n % d \in 0..(d - 1)
         /\ n = (d * (n \div d)) + (n % d)
<1>1. n \div d \in Nat
  OBVIOUS
<1>2. n % d \in 0..(d - 1)
  OBVIOUS
<1>3. n = (d * (n \div d)) + (n % d)
  OBVIOUS
<1> QED BY <1>1, <1>2, <1>3

LEMMA CellsOK ==
  ASSUME NEW v \in Nat, v < Radix * Radix
  PROVE  /\ Cells(v) \in Seq(Cell) /\ Len(Cells(v)) = 2
         /\ Cells(v)[1] + Radix * Cells(v)[2] = v
         /\ v % 2 = 1 => Cells(v)[1] % 2 = 1
<1>1. PICK r \in Nat : r = Radix /\ r > 8 /\ r % 2 = 0
  BY Numbers
<1>2. PICK q \in Nat, m \in Nat : /\ q = v \div r /\ m = v % r
                                  /\ m \in 0..(r - 1) /\ v = r * q + m
  BY <1>1, DivMod
<1>3. q < r
  <2> SUFFICES ASSUME q >= r PROVE FALSE
    BY <1>1
  <2>1. r * q >= r * r
    BY <1>1
  <2> QED BY <1>1, <1>2, <2>1
<1>4. m \in Cell /\ q \in Cell
  BY <1>1, <1>2, <1>3 DEF Cell
<1>5. Cells(v) = <<m, q>>
  BY <1>1, <1>2 DEF Cells
<1>6. ASSUME v % 2 = 1 PROVE m % 2 = 1
  <2>1. PICK h \in Nat : r = 2 * h
    <3>1. r = 2 * (r \div 2) /\ r \div 2 \in Nat
      BY <1>1
    <3> QED BY <3>1
  <2>2. PICK k \in Nat : k = h * q
    OBVIOUS
  <2>3. r * q = 2 * k
    BY <2>1, <2>2
  <2>4. v = 2 * k + m
    BY <1>2, <2>3
  <2> QED BY <1>6, <2>4
<1>7. Cells(v) \in Seq(Cell) /\ Len(Cells(v)) = 2 /\ Cells(v)[1] = m /\ Cells(v)[2] = q
  BY <1>4, <1>5
<1>8. m + Radix * q = v
  BY <1>1, <1>2
<1> QED BY <1>6, <1>7, <1>8

\* A buffer has room for the terminator.
LEMMA BufferFits ==
  ASSUME NEW s, Len(s) \in Nat
  PROVE  BufSize(s) \in Nat /\ BufSize(s) > Len(s)
<1>1. PICK a \in Nat : a = Align /\ a > 0
  BY Numbers
<1>2. PICK l \in Nat : l = Len(s)
  OBVIOUS
<1>3. PICK q \in Nat, m \in Nat : /\ q = (l + a) \div a /\ m \in 0..(a - 1)
                                  /\ l + a = a * q + m
  BY <1>1, DivMod
<1>4. BufSize(s) = q * a
  BY <1>1, <1>2, <1>3 DEF BufSize
<1>5. PICK p \in Nat : p = q * a
  BY <1>1
<1>6. l + a = p + m
  BY <1>1, <1>3, <1>5
<1> QED BY <1>1, <1>2, <1>3, <1>4, <1>5, <1>6

-----------------------------------------------------------------------------
(***************************************************************************)
(* How a string lies in memory m when the heap is used up to h: in its     *)
(* object, or in a buffer the object points to.                            *)
(***************************************************************************)
Pair(x, y) == x + Radix * y

Buffer(m, o) == Pair(m[o + 4], m[o + 5])

Short(m, o, s) ==
  /\ Len(s) <= 4
  /\ m[o] = 2 * Len(s)
  /\ \A i \in 1..Len(s) : m[o + i] = s[i]
  /\ m[o + Len(s) + 1] = 0

Long(m, h, o, s) ==
  /\ Len(s) > 4
  /\ m[o] % 2 = 1
  /\ Pair(m[o], m[o + 1]) < HeapBase
  /\ Pair(m[o + 2], m[o + 3]) = Len(s)
  /\ Buffer(m, o) >= HeapBase
  /\ Buffer(m, o) + Len(s) < h
  /\ \A i \in 1..Len(s) : m[Buffer(m, o) + i - 1] = s[i]
  /\ m[Buffer(m, o) + Len(s)] = 0

Holds(m, h, o, s) == Short(m, o, s) \/ Long(m, h, o, s)

\* The cells of the buffers of two objects.
BuffersApart(m, o, s, p, t) ==
  Len(s) > 4 /\ Len(t) > 4 =>
    \A i \in 0..Len(s), j \in 0..Len(t) : Buffer(m, o) + i # Buffer(m, p) + j

StringInv ==
  /\ mem \in Memory
  /\ heapPtr \in HeapRange
  /\ content \in [Objects -> Seq(Char)]
  /\ \A o \in Objects : /\ Len(content[o]) <= Window
                        /\ Holds(mem, heapPtr, o, content[o])
  /\ \A o, p \in Objects :
       o # p => BuffersApart(mem, o, content[o], p, content[p])

\* A number is made of its halves.
LEMMA HighHalf ==
  ASSUME NEW x \in Cell, NEW y \in Cell
  PROVE  Pair(x, y) \in Nat /\ Pair(x, y) \div Radix = y
<1>1. PICK r \in Nat : r = Radix /\ r > 8
  BY Numbers
<1>2. x \in 0..(r - 1) /\ y \in Nat
  BY <1>1 DEF Cell
<1>3. PICK n \in Nat : n = x + (r * y)
  BY <1>2
<1>4. PICK q \in Nat, m \in 0..(r - 1) : q = n \div r /\ n = (r * q) + m
  <2>1. r > 0
    BY <1>1
  <2>2. /\ n \div r \in Nat /\ n % r \in 0..(r - 1)
        /\ n = (r * (n \div r)) + (n % r)
    BY <2>1, DivMod
  <2> QED BY <2>2
<1>5. (r * q) + m = (r * y) + x
  BY <1>2, <1>3, <1>4
<1>6. ASSUME NEW a \in Nat, NEW b \in Nat, a < b
      PROVE  (r * a) + r <= r * b
  <2>1. PICK d \in Nat : b = a + 1 + d
    <3>1. b - a - 1 \in Nat /\ b = a + 1 + (b - a - 1)
      BY <1>6
    <3> QED BY <3>1
  <2>2. r * b = (r * a) + r + (r * d) /\ r * d \in Nat /\ r * a \in Nat
    BY <2>1
  <2> QED BY <2>2
<1>7. r * q \in Nat /\ r * y \in Nat
  BY <1>2
<1>8. PICK u \in Nat, v \in Nat : u = r * q /\ v = r * y
  BY <1>7
<1>9. ~(q < y)
  <2> SUFFICES ASSUME q < y PROVE FALSE
    OBVIOUS
  <2>1. u + r <= v
    BY <1>2, <1>6, <1>8
  <2> QED BY <1>1, <1>2, <1>4, <1>5, <1>8, <2>1
<1>10. ~(y < q)
  <2> SUFFICES ASSUME y < q PROVE FALSE
    OBVIOUS
  <2>1. v + r <= u
    BY <1>2, <1>6, <1>8
  <2> QED BY <1>1, <1>2, <1>4, <1>5, <1>8, <2>1
<1>11. q = y
  BY <1>2, <1>9, <1>10
<1> QED BY <1>1, <1>2, <1>3, <1>4, <1>11 DEF Pair

-----------------------------------------------------------------------------
(***************************************************************************)
(* Strings are read as they lie.                                           *)
(***************************************************************************)
LEMMA ObjectCellsRead ==
  ASSUME StringInv, NEW o \in Objects
  PROVE  /\ o \in Nat /\ content[o] \in Seq(Char)
         /\ Len(content[o]) \in Nat /\ Len(content[o]) <= Window
         /\ DOMAIN mem = DOMAIN Guest
         /\ \A k \in 0..5 : o + k \in DOMAIN mem /\ mem[o + k] \in Cell
         /\ mem[o] \in Cell
         /\ Word(o) = Pair(mem[o], mem[o + 1])
         /\ Word(o + 2) = Pair(mem[o + 2], mem[o + 3])
         /\ Word(o + 4) = Buffer(mem, o)
         /\ Buffer(mem, o) \in Nat
<1>1. o \in Nat /\ \A k \in 0..5 : o + k \in DOMAIN Guest
  BY ObjectsOK
<1>2. mem \in [DOMAIN Guest -> Cell]
  BY DEF StringInv, Memory
<1>3. \A k \in 0..5 : o + k \in DOMAIN mem /\ mem[o + k] \in Cell
  BY <1>1, <1>2
<1>4. mem[o] \in Cell /\ o + 2 + 1 = o + 3 /\ o + 4 + 1 = o + 5
  <2>1. o + 0 = o /\ 0 \in 0..5
    BY <1>1
  <2>2. mem[o] \in Cell
    BY <1>3, <2>1
  <2> QED BY <1>1, <2>2
<1>5. Buffer(mem, o) \in Nat
  <2>1. mem[o + 4] \in Cell /\ mem[o + 5] \in Cell
    BY <1>3
  <2> QED BY <2>1, HighHalf DEF Buffer
<1>6. content[o] \in Seq(Char) /\ Len(content[o]) <= Window
  BY DEF StringInv
<1>7. Len(content[o]) \in Nat
  BY <1>6
<1> QED BY <1>1, <1>2, <1>3, <1>4, <1>5, <1>6, <1>7 DEF Word, Pair, Buffer

LEMMA ShortParity ==
  ASSUME NEW n \in Nat
  PROVE  (2 * n) % 2 = 0 /\ (2 * n) \div 2 = n
OBVIOUS

\* Where the characters are, and that a terminator follows them.
LEMMA DataOK ==
  ASSUME StringInv, NEW o \in Objects
  PROVE  LET s == content[o]
             d == GetSSODataPtr(o)
         IN  /\ GetSSOLength(o) = Len(s)
             /\ d \in Nat /\ HasWindow(d)
             /\ \A i \in 1..Len(s) : mem[d + i - 1] = s[i]
             /\ mem[d + Len(s)] = 0
<1> DEFINE s == content[o]
<1>1. Holds(mem, heapPtr, o, s)
  BY DEF StringInv
<1>2. PICK n \in Nat : n = Len(s)
  BY ObjectCellsRead
<1>3. o \in Nat
  BY ObjectsOK
<1> HIDE DEF s
<1>4. CASE Short(mem, o, s)
  <2>1. ~IsLong(o) /\ mem[o] \div 2 = n
    BY <1>2, <1>4, ShortParity DEF IsLong, Short
  <2>2. GetSSODataPtr(o) = o + 1 /\ GetSSOLength(o) = n
    BY <2>1 DEF GetSSODataPtr, GetSSOLength
  <2>3. ASSUME NEW i \in 1..n PROVE mem[o + 1 + i - 1] = s[i]
    <3>1. o + 1 + i - 1 = o + i
      BY <1>3
    <3> QED BY <1>2, <1>4, <3>1 DEF Short
  <2>4. mem[o + 1 + n] = 0
    <3>1. o + 1 + n = o + n + 1
      BY <1>3
    <3> QED BY <1>2, <1>4, <3>1 DEF Short
  <2> QED BY <1>2, <1>3, <2>2, <2>3, <2>4, ObjectsOK DEF s
<1>5. CASE Long(mem, heapPtr, o, s)
  <2>1. PICK b \in Nat : b = Buffer(mem, o)
    BY ObjectCellsRead
  <2>2. IsLong(o)
    BY <1>5 DEF IsLong, Long
  <2>3. GetSSODataPtr(o) = b /\ GetSSOLength(o) = n
    BY <1>2, <1>5, <2>1, <2>2, ObjectCellsRead DEF GetSSODataPtr, GetSSOLength, Long
  <2>4. HasWindow(b)
    <3>1. PICK h \in Nat : h = heapPtr /\ h < HeapEnd
      BY Places DEF StringInv
    <3>2. HeapBase <= b /\ b < h
      BY <1>2, <1>5, <2>1, <3>1, Numbers DEF Long
    <3> QED BY <2>1, <3>1, <3>2, Places, Numbers
  <2>5. (\A i \in 1..n : mem[b + i - 1] = s[i]) /\ mem[b + n] = 0
    BY <1>2, <1>5, <2>1 DEF Long
  <2> QED BY <1>2, <2>1, <2>3, <2>4, <2>5 DEF s
<1> QED BY <1>1, <1>4, <1>5 DEF Holds

\* Through size() and data(), and as a C string.
LEMMA ReadBack ==
  ASSUME StringInv, NEW o \in Objects
  PROVE  /\ GetSSODataPtr(o) \in Nat
         /\ Readable(GetSSODataPtr(o), GetSSOLength(o))
         /\ Bytes(GetSSODataPtr(o), GetSSOLength(o)) = content[o]
         /\ MemReadString(GetSSODataPtr(o)) = content[o]
<1> DEFINE s == content[o]
           d == GetSSODataPtr(o)
<1>1. /\ GetSSOLength(o) = Len(s)
      /\ d \in Nat /\ HasWindow(d)
      /\ \A i \in 1..Len(s) : mem[d + i - 1] = s[i]
      /\ mem[d + Len(s)] = 0
  BY DataOK
<1>2. s \in Seq(Char) /\ Len(s) \in Nat /\ Len(s) <= Window /\ mem \in Memory
  BY ObjectCellsRead DEF StringInv
<1> HIDE DEF s, d
<1>3. Readable(d, Len(s))
  BY <1>1, <1>2, Numbers DEF Readable, HasWindow, Memory
<1>4. Bytes(d, Len(s)) = s
  <2>1. s \in Seq(Cell)
    BY <1>2, Chars
  <2>2. /\ Bytes(d, Len(s)) \in Seq(Cell) /\ Len(Bytes(d, Len(s))) = Len(s)
        /\ \A i \in 1..Len(s) : Bytes(d, Len(s))[i] = mem[d + i - 1]
    BY <1>1, <1>2, <1>3, BytesOK
  <2> QED BY <1>1, <1>2, <2>1, <2>2, SeqEqual
<1>5. MemReadString(d) = s
  BY <1>1, <1>2, ReadsAs
<1> QED BY <1>1, <1>3, <1>4, <1>5 DEF s, d

\* What is printable has a first character.
LEMMA PrintableText ==
  ASSUME NEW s \in Seq(Char), IsPrintable(s)
  PROVE  /\ s # <<>> /\ Len(s) \in Nat /\ Len(s) > 0
         /\ s[1] \in Printable /\ s[1] \in Cell
         /\ IfPrintable(s) = s
<1>1. s # <<>> /\ Len(s) \in Nat /\ Len(s) > 0
  BY DEF IsPrintable
<1>2. 1 \in 1..Len(s)
  BY <1>1
<1>3. s[1] \in Printable
  BY <1>2 DEF IsPrintable
<1> QED BY <1>1, <1>3, Chars DEF IfPrintable

\* A setter reads a text back, and nothing from an object that is empty.
LEMMA SetterReads ==
  ASSUME StringInv, NEW o \in Objects
  PROVE  /\ IsPrintable(content[o]) => ReadStdString(o) = content[o]
         /\ content[o] = <<>> => ReadStdString(o) = <<>>
<1> DEFINE s == content[o]
           a == IF Word(o) \in HeapRange THEN Text(Word(o)) ELSE <<>>
           b == IF ~IsLong(o) /\ mem[o] \div 2 \in 1..SSOMaxLen
                  THEN IfPrintable(Bytes(o + 1, mem[o] \div 2)) ELSE <<>>
           d == IF /\ IsLong(o) /\ Word(o + 2) \in 1..LenLimit
                   /\ Word(o + 4) # 0
                   /\ Readable(Word(o + 4), Word(o + 2))
                  THEN IfPrintable(Bytes(Word(o + 4), Word(o + 2))) ELSE <<>>
<1>1. ReadStdString(o) = FirstFound(<<a, b, d>>)
  <2>1. o..(o + ObjSize - 1) \subseteq DOMAIN mem
    <3>1. o \in Nat /\ \A k \in 0..5 : o + k \in DOMAIN mem
      BY ObjectCellsRead
    <3>2. ASSUME NEW c \in o..(o + ObjSize - 1) PROVE c \in DOMAIN mem
      <4>1. c - o \in 0..5 /\ o + (c - o) = c
        BY <3>1 DEF ObjSize
      <4> QED BY <3>1, <4>1
    <3> QED BY <3>2
  <2> QED BY <2>1 DEF ReadStdString, Readable
<1>2. FirstFound(<<a, b, d>>) = IF a # <<>> THEN a ELSE IF b # <<>> THEN b ELSE d
  BY FirstOfThree
<1>3. s \in Seq(Char) /\ Holds(mem, heapPtr, o, s) /\ o \in Nat
  BY ObjectCellsRead DEF StringInv
<1>4. PICK n \in Nat : n = Len(s) /\ n <= Window
  BY ObjectCellsRead
<1>5. CASE Short(mem, o, s)
  <2>1. ~IsLong(o) /\ mem[o] \div 2 = n /\ mem[o] = 2 * n /\ n <= 4
    <3> HIDE DEF s
    <3> QED BY <1>4, <1>5, ShortParity DEF IsLong, Short
  <2>2. d = <<>>
    BY <2>1
  <2>3. ASSUME IsPrintable(s) PROVE a = <<>> /\ b = s
    <3>1. n > 0 /\ s[1] \in Printable /\ s[1] \in Cell /\ IfPrintable(s) = s
      BY <1>3, <1>4, <2>3, PrintableText
    <3>2. mem[o + 1] = s[1]
      <4>1. 1 \in 1..n
        BY <3>1
      <4> HIDE DEF s
      <4> QED BY <1>4, <1>5, <4>1 DEF Short
    <3>3. Word(o) \notin HeapRange
      <4>1. Word(o) = Pair(2 * n, s[1]) /\ 2 * n \in Cell
        BY <2>1, <3>2, ObjectCellsRead
      <4>2. Word(o) \div Radix = s[1]
        BY <3>1, <4>1, HighHalf
      <4> QED BY <3>1, <4>2, KeyCaptureAssumption
    <3>4. b = IfPrintable(Bytes(o + 1, n))
      BY <2>1, <3>1 DEF SSOMaxLen, ObjSize
    <3>5. GetSSODataPtr(o) = o + 1 /\ GetSSOLength(o) = n
      BY <2>1 DEF GetSSODataPtr, GetSSOLength
    <3> HIDE DEF a, b, d
    <3>6. Bytes(o + 1, n) = s
      BY <3>5, ReadBack
    <3>7. b = s
      BY <3>1, <3>4, <3>6
    <3>8. a = <<>>
      BY <3>3 DEF a
    <3> QED BY <3>7, <3>8
  <2>4. ASSUME s = <<>> PROVE a = <<>> /\ b = <<>>
    <3>1. n = 0
      BY <1>4, <2>4
    <3>2. mem[o + 1] = 0 /\ mem[o] = 0
      <4>1. o + 0 + 1 = o + 1
        BY <1>3
      <4> HIDE DEF s
      <4> QED BY <1>4, <1>5, <2>1, <3>1, <4>1 DEF Short
    <3>3. Word(o) = 0
      BY <3>2, Numbers DEF Word
    <3>4. Word(o) \notin HeapRange
      BY <3>3, Places, Numbers
    <3>5. mem[o] \div 2 \notin 1..SSOMaxLen
      BY <2>1, <3>1 DEF SSOMaxLen, ObjSize
    <3> QED BY <3>4, <3>5
  <2> HIDE DEF a, b, d
  <2>5. s = <<>> => ReadStdString(o) = <<>>
    BY <1>1, <1>2, <2>2, <2>4
  <2>6. IsPrintable(s) => ReadStdString(o) = s
    BY <1>1, <1>2, <2>3 DEF IsPrintable
  <2> QED BY <2>5, <2>6
<1>6. CASE Long(mem, heapPtr, o, s)
  <2>1. PICK p \in Nat : p = Buffer(mem, o)
    BY ObjectCellsRead
  <2>2. IsLong(o) /\ Word(o + 2) = n /\ Word(o + 4) = p /\ n > 4 /\ p >= HeapBase
    <3> HIDE DEF s
    <3> QED BY <1>4, <1>6, <2>1, ObjectCellsRead DEF IsLong, Long
  <2>3. a = <<>>
    <3>1. Word(o) \notin HeapRange
      <4>1. Pair(mem[o], mem[o + 1]) < HeapBase
        BY <1>6 DEF Long
      <4>2. PICK w \in Nat : w = Word(o) /\ w < HeapBase
        <5>1. mem[o] \in Cell /\ mem[o + 1] \in Cell
          BY ObjectCellsRead
        <5> QED BY <4>1, <5>1, HighHalf, ObjectCellsRead
      <4> QED BY <4>2, Places, Numbers
    <3> QED BY <3>1
  <2>4. b = <<>>
    BY <2>2
  <2>5. n \in 1..LenLimit /\ p # 0
    BY <1>4, <2>2, Numbers
  <2>6. GetSSODataPtr(o) = p /\ GetSSOLength(o) = n
    BY <2>2 DEF GetSSODataPtr, GetSSOLength
  <2>7. Readable(p, n) /\ Bytes(p, n) = s
    BY <2>6, ReadBack
  <2>8. d = IfPrintable(s)
    BY <2>2, <2>5, <2>7
  <2>9. s # <<>>
    BY <1>4, <2>2
  <2> HIDE DEF a, b, d
  <2>10. IsPrintable(s) => ReadStdString(o) = s
    BY <1>1, <1>2, <2>3, <2>4, <2>8 DEF IfPrintable
  <2> QED BY <2>9, <2>10
<1> QED BY <1>3, <1>5, <1>6 DEF Holds

-----------------------------------------------------------------------------
(***************************************************************************)
(* What hooks capture is printable, whatever the registers hold.           *)
(***************************************************************************)
KeyTypes == {"xxtea", "aes", "crypto", "signature", "unknown"}

Finding == {s \in Seq(Cell) : s = <<>> \/ IsPrintable(s)}

Capture == {c \in [value : Seq(Cell), keyType : KeyTypes] : IsPrintable(c.value)}

Registers == [0..4 -> Nat]

Hooks == {"jsb_set_xxtea_key", "setXXTeaKey", "ZipUtils", "setCryptoKeyAndSign",
          "setAESKey", "vtable->setXXTeaKey", "vtable->setCryptoKey",
          "vtable->setSecretKey"}

LEMMA NothingFound == <<>> \in Finding
BY DEF Finding

LEMMA BytesFound ==
  ASSUME mem \in Memory, NEW a \in Nat, NEW n \in Nat, Readable(a, n)
  PROVE  IfPrintable(Bytes(a, n)) \in Finding
<1>1. Bytes(a, n) \in Seq(Cell)
  BY BytesOK
<1> QED BY <1>1, NothingFound DEF IfPrintable, Finding

LEMMA TextFound ==
  ASSUME mem \in Memory, NEW a \in Nat
  PROVE  Text(a) \in Finding
<1>1. MemReadString(a) \in Seq(Cell)
  BY ReadOK, Chars
<1> QED BY <1>1, NothingFound DEF Text, IfPrintable, Finding

LEMMA TwoFound ==
  ASSUME NEW a \in Finding, NEW b \in Finding
  PROVE  FirstFound(<<a, b>>) \in Finding
BY FirstOfTwo

LEMMA ThreeFound ==
  ASSUME NEW a \in Finding, NEW b \in Finding, NEW d \in Finding
  PROVE  FirstFound(<<a, b, d>>) \in Finding
BY FirstOfThree

LEMMA FiveFound ==
  ASSUME NEW a \in Finding, NEW b \in Finding, NEW d \in Finding,
         NEW e \in Finding, NEW f \in Finding
  PROVE  FirstFound(<<a, b, d, e, f>>) \in Finding
<1>1. FirstFound(<<d, e, f>>) \in Finding
  BY ThreeFound
<1>2. FirstFound(<<a, b, d, e, f>>) =
        IF a # <<>> THEN a ELSE IF b # <<>> THEN b ELSE FirstFound(<<d, e, f>>)
  BY FirstOfFive
<1> QED BY <1>1, <1>2

LEMMA ReadableCells ==
  ASSUME mem \in Memory, NEW a \in Nat, Readable(a, ObjSize)
  PROVE  /\ mem[a] \in Cell /\ Word(a) \in Nat
         /\ Word(a + 2) \in Nat /\ Word(a + 4) \in Nat
<1>1. \A c \in a..(a + 5) : mem[c] \in Cell
  BY DEF Readable, ObjSize, Memory
<1>2. /\ a \in a..(a + 5) /\ a + 1 \in a..(a + 5)
      /\ a + 2 \in a..(a + 5) /\ a + 2 + 1 \in a..(a + 5)
      /\ a + 4 \in a..(a + 5) /\ a + 4 + 1 \in a..(a + 5)
  OBVIOUS
<1>3. /\ mem[a] \in Cell /\ mem[a + 1] \in Cell
      /\ mem[a + 2] \in Cell /\ mem[a + 2 + 1] \in Cell
      /\ mem[a + 4] \in Cell /\ mem[a + 4 + 1] \in Cell
  BY <1>1, <1>2
<1> QED BY <1>3, HighHalf DEF Word, Pair

LEMMA ReadStdStringFound ==
  ASSUME mem \in Memory, NEW o \in Nat
  PROVE  ReadStdString(o) \in Finding
<1> DEFINE a == IF Word(o) \in HeapRange THEN Text(Word(o)) ELSE <<>>
           b == IF ~IsLong(o) /\ mem[o] \div 2 \in 1..SSOMaxLen
                  THEN IfPrintable(Bytes(o + 1, mem[o] \div 2)) ELSE <<>>
           d == IF /\ IsLong(o) /\ Word(o + 2) \in 1..LenLimit
                   /\ Word(o + 4) # 0
                   /\ Readable(Word(o + 4), Word(o + 2))
                  THEN IfPrintable(Bytes(Word(o + 4), Word(o + 2))) ELSE <<>>
<1>1. CASE ~Readable(o, ObjSize)
  BY <1>1, NothingFound DEF ReadStdString
<1>2. CASE Readable(o, ObjSize)
  <2>1. /\ mem[o] \in Cell /\ Word(o) \in Nat
        /\ Word(o + 2) \in Nat /\ Word(o + 4) \in Nat
    BY <1>2, ReadableCells
  <2>2. a \in Finding
    BY <2>1, NothingFound, TextFound
  <2>3. b \in Finding
    <3>1. CASE mem[o] \div 2 \in 1..SSOMaxLen
      <4>1. PICK n \in Nat : n = mem[o] \div 2 /\ n <= 4
        BY <3>1 DEF SSOMaxLen, ObjSize
      <4>2. Readable(o + 1, n)
        BY <1>2, <4>1 DEF Readable, ObjSize
      <4>3. IfPrintable(Bytes(o + 1, n)) \in Finding
        BY <4>2, BytesFound
      <4> QED BY <4>1, <4>3, NothingFound
    <3>2. CASE mem[o] \div 2 \notin 1..SSOMaxLen
      BY <3>2, NothingFound
    <3> QED BY <3>1, <3>2
  <2>4. d \in Finding
    BY <2>1, NothingFound, BytesFound
  <2>5. ReadStdString(o) = FirstFound(<<a, b, d>>)
    BY <1>2 DEF ReadStdString
  <2> HIDE DEF a, b, d
  <2> QED BY <2>2, <2>3, <2>4, <2>5, ThreeFound
<1> QED BY <1>1, <1>2

LEMMA CaptureOK ==
  ASSUME NEW s \in Finding, s # <<>>, NEW kt \in KeyTypes
  PROVE  Captured(s, kt) \in Capture
BY DEF Captured, Capture, Finding

LEMMA KeyThenSignOK ==
  ASSUME NEW s \in Finding, NEW t \in Finding, NEW kt \in KeyTypes
  PROVE  KeyThenSign(s, kt, t) \in Seq(Capture)
<1>1. "signature" \in KeyTypes
  BY DEF KeyTypes
<1>2. s # <<>> => <<Captured(s, kt)>> \in Seq(Capture)
  BY CaptureOK
<1>3. (IF t = <<>> THEN <<>> ELSE <<Captured(t, "signature")>>) \in Seq(Capture)
  BY <1>1, CaptureOK
<1> QED BY <1>2, <1>3, ConcatProperties, EmptySeq DEF KeyThenSign

\* The two parts of the stub in a vtable.
VtablePart(symbol, p, n, isSign) ==
  IF /\ IsLength(n) /\ p > PtrMin /\ Readable(p, n)
     /\ IsPrintable(Bytes(p, n))
    THEN <<Captured(Bytes(p, n), KeyTypeOf(symbol, isSign))>> ELSE <<>>

LEMMA VtableParts ==
  ASSUME NEW symbol, NEW x
  PROVE  VtableStubHook(symbol, x) = VtablePart(symbol, x[1], x[2], FALSE)
                                     \o VtablePart(symbol, x[3], x[4], TRUE)
BY DEF VtableStubHook, VtablePart

LEMMA VtablePartOK ==
  ASSUME mem \in Memory, NEW symbol, NEW p \in Nat, NEW n \in Nat, NEW isSign
  PROVE  VtablePart(symbol, p, n, isSign) \in Seq(Capture)
<1> DEFINE kt == KeyTypeOf(symbol, isSign)
<1>1. kt \in KeyTypes
  BY DEF KeyTypeOf, KeyTypes
<1>2. CASE Readable(p, n) /\ IsPrintable(Bytes(p, n))
  <2>1. Bytes(p, n) \in Finding /\ Bytes(p, n) # <<>>
    BY <1>2, BytesOK DEF Finding, IsPrintable
  <2> HIDE DEF kt
  <2>2. <<Captured(Bytes(p, n), kt)>> \in Seq(Capture)
    BY <1>1, <2>1, CaptureOK
  <2> QED BY <2>2, EmptySeq DEF VtablePart, kt
<1>3. CASE ~(Readable(p, n) /\ IsPrintable(Bytes(p, n)))
  BY <1>3, EmptySeq DEF VtablePart
<1> QED BY <1>2, <1>3

LEMMA XXTeaOK ==
  ASSUME mem \in Memory, NEW std \in BOOLEAN, NEW lua \in BOOLEAN,
         NEW x \in Registers
  PROVE  XXTeaHook(std, lua, x) \in Seq(Capture)
<1>1. x[0] \in Nat /\ x[1] \in Nat /\ x[2] \in Nat /\ x[3] \in Nat
  BY DEF Registers
<1>2. (IF std THEN ReadStdString(x[0]) ELSE <<>>) \in Finding
  BY <1>1, NothingFound, ReadStdStringFound
<1>3. (IF lua THEN Text(IF IsLength(x[1]) THEN x[0] ELSE x[1]) ELSE <<>>)
        \in Finding
  BY <1>1, NothingFound, TextFound
<1>4. \A p \in Nat : PointerText(p) \in Finding
  BY NothingFound, TextFound DEF PointerText
<1>5. (IF x[3] > PtrMin /\ IsLength(x[4]) THEN Text(x[3]) ELSE <<>>) \in Finding
  BY <1>1, NothingFound, TextFound
<1>6. FirstFound(<< IF std THEN ReadStdString(x[0]) ELSE <<>>,
                    IF lua THEN Text(IF IsLength(x[1]) THEN x[0] ELSE x[1])
                           ELSE <<>>,
                    PointerText(x[0]), PointerText(x[1]),
                    PointerText(x[2]) >>) \in Finding
  BY <1>1, <1>2, <1>3, <1>4, FiveFound
<1>7. "xxtea" \in KeyTypes
  BY DEF KeyTypes
<1> QED BY <1>5, <1>6, <1>7, KeyThenSignOK DEF XXTeaHook

LEMMA HookOK ==
  ASSUME mem \in Memory, NEW name \in Hooks, NEW x \in Registers
  PROVE  Hook(name, x) \in Seq(Capture)
<1>1. /\ x[0] \in Nat /\ x[1] \in Nat /\ x[2] \in Nat /\ x[3] \in Nat
      /\ x[4] \in Nat
  BY DEF Registers
<1>2. "xxtea" \in KeyTypes /\ "aes" \in KeyTypes
  BY DEF KeyTypes
<1>3. StdStringSetterHook(x) \in Seq(Capture)
  <2>1. (IF x[1] > PtrMin THEN Text(x[1]) ELSE <<>>) \in Finding
    BY <1>1, NothingFound, TextFound
  <2>2. FirstFound(<< ReadStdString(x[1]),
                      IF x[1] > PtrMin THEN Text(x[1]) ELSE <<>> >>) \in Finding
    BY <1>1, <2>1, ReadStdStringFound, TwoFound
  <2>3. ReadStdString(x[2]) \in Finding
    BY <1>1, ReadStdStringFound
  <2> QED BY <1>2, <2>2, <2>3, KeyThenSignOK DEF StdStringSetterHook
<1>4. GenericKeyHook("aes", x) \in Seq(Capture)
  <2>1. FirstFound(<<Text(x[0]), Text(x[1]), Text(x[2])>>) \in Finding
    BY <1>1, TextFound, ThreeFound
  <2> QED BY <1>2, <2>1, NothingFound, KeyThenSignOK DEF GenericKeyHook
<1>5. ASSUME NEW symbol PROVE VtableStubHook(symbol, x) \in Seq(Capture)
  <2>1. /\ VtablePart(symbol, x[1], x[2], FALSE) \in Seq(Capture)
        /\ VtablePart(symbol, x[3], x[4], TRUE) \in Seq(Capture)
    BY <1>1, VtablePartOK
  <2> QED BY <2>1, ConcatProperties, VtableParts
<1>6. \A std, lua \in BOOLEAN : XXTeaHook(std, lua, x) \in Seq(Capture)
  BY XXTeaOK
<1>7. CASE name \in {"jsb_set_xxtea_key", "setXXTeaKey", "ZipUtils"}
  BY <1>6, <1>7 DEF Hook
<1>8. CASE name \in {"setCryptoKeyAndSign", "setAESKey"}
  BY <1>3, <1>4, <1>8 DEF Hook
<1>9. CASE name \in {"vtable->setXXTeaKey", "vtable->setCryptoKey",
                     "vtable->setSecretKey"}
  BY <1>5, <1>9 DEF Hook
<1> QED BY <1>7, <1>8, <1>9 DEF Hooks

-----------------------------------------------------------------------------
(***************************************************************************)
(* What hooks capture of the strings that are passed to setters.           *)
(***************************************************************************)
Clean(l) == \A r \in DOMAIN l : l[r] \in DOMAIN mem => mem[l[r]] \notin Printable

\* What KeyCaptured and SignatureFollowsKey say of the captures h of a call.
Answers(h, hook, key, sign, clean) ==
  IsPrintable(key) =>
    /\ h # <<>> /\ h[1].value = key /\ h[1].keyType # "signature"
    /\ hook # "vtable->setXXTeaKey" =>
         /\ IsPrintable(sign) => Tail(h) = <<Captured(sign, "signature")>>
         /\ sign = <<>> /\ clean => Len(h) = 1

LEMMA TwoCaptures ==
  ASSUME NEW a, NEW b
  PROVE  /\ (<<a>> \o <<b>>)[1] = a /\ Tail(<<a>> \o <<b>>) = <<b>>
         /\ <<a>> \o <<b>> # <<>>
         /\ <<a>> \o <<>> = <<a>> /\ <<a>>[1] = a /\ Len(<<a>>) = 1
         /\ <<a>> # <<>>
<1>1. <<a>>[1] = a /\ Len(<<a>>) = 1 /\ <<a>> # <<>>
  OBVIOUS
<1>2. <<a>> \o <<>> = <<a>>
  <2>1. <<a>> \in Seq({a})
    OBVIOUS
  <2> QED BY <2>1, ConcatEmptySeq
<1>3. <<a>> \o <<b>> = <<a, b>>
  <2> DEFINE s == <<a>>
             t == <<b>>
             u == <<a, b>>
  <2>1. /\ s \in Seq({a, b}) /\ Len(s) = 1 /\ s[1] = a
        /\ t \in Seq({a, b}) /\ Len(t) = 1 /\ t[1] = b
        /\ u \in Seq({a, b}) /\ Len(u) = 2 /\ u[1] = a /\ u[2] = b
    OBVIOUS
  <2> HIDE DEF s, t, u
  <2>2. /\ s \o t \in Seq({a, b}) /\ Len(s \o t) = Len(s) + Len(t)
        /\ \A i \in 1..(Len(s) + Len(t)) :
             (s \o t)[i] = IF i <= Len(s) THEN s[i] ELSE t[i - Len(s)]
    BY <2>1, ConcatProperties
  <2>3. Len(s \o t) = 2 /\ (s \o t)[1] = a /\ (s \o t)[2] = b
    BY <2>1, <2>2
  <2>4. \A i \in 1..Len(u) : (s \o t)[i] = u[i]
    <3>1. \A i \in 1..2 : i = 1 \/ i = 2
      OBVIOUS
    <3> QED BY <2>1, <2>3, <3>1
  <2>5. s \o t = u
    BY <2>1, <2>2, <2>3, <2>4, SeqEqual
  <2> QED BY <2>5 DEF s, t, u
<1>4. <<a, b>>[1] = a /\ Tail(<<a, b>>) = <<b>> /\ <<a, b>> # <<>>
  OBVIOUS
<1> QED BY <1>1, <1>2, <1>3, <1>4

LEMMA KeyThenSignAnswers ==
  ASSUME NEW hook, NEW key, NEW kt, kt # "signature", NEW sign, NEW found,
         NEW clean \in BOOLEAN,
         IsPrintable(sign) => found = sign,
         sign = <<>> /\ clean => found = <<>>
  PROVE  Answers(KeyThenSign(key, kt, found), hook, key, sign, clean)
<1> SUFFICES ASSUME IsPrintable(key)
             PROVE  Answers(KeyThenSign(key, kt, found), hook, key, sign, clean)
  BY DEF Answers
<1> DEFINE c == Captured(key, kt)
           g == Captured(found, "signature")
           h == KeyThenSign(key, kt, found)
<1>1. c.value = key /\ c.keyType # "signature"
  BY DEF Captured
<1>2. key # <<>>
  BY DEF IsPrintable
<1>3. h = <<c>> \o (IF found = <<>> THEN <<>> ELSE <<g>>)
  BY <1>2 DEF KeyThenSign
<1>4. IsPrintable(sign) => found # <<>> /\ g = Captured(sign, "signature")
  BY DEF IsPrintable
<1> HIDE DEF c, g, h
<1>5. CASE found = <<>>
  <2>1. h = <<c>>
    BY <1>3, <1>5, TwoCaptures
  <2> QED BY <1>1, <1>4, <1>5, <2>1, TwoCaptures DEF Answers, h
<1>6. CASE found # <<>>
  <2>1. h = <<c>> \o <<g>>
    BY <1>3, <1>6
  <2>2. h # <<>> /\ h[1] = c /\ Tail(h) = <<g>>
    BY <2>1, TwoCaptures
  <2> QED BY <1>1, <1>4, <1>6, <2>2 DEF Answers, h
<1> QED BY <1>5, <1>6

LEMMA CStringOK ==
  ASSUME StringInv, NEW k \in CStrings
  PROVE  /\ k.ptr \in Nat /\ k.str = MemReadString(k.ptr)
         /\ k.str \in Seq(Char) /\ Len(k.str) \in Nat /\ Len(k.str) <= Window
<1>1. k.ptr \in Nat /\ k.str = MemReadString(k.ptr)
  <2>1. CASE k \in {[ptr |-> t, str |-> MemReadString(t)] : t \in Texts}
    BY <2>1, KeyCaptureAssumption
  <2>2. CASE k \in {[ptr |-> GetSSODataPtr(o), str |-> content[o]] : o \in Objects}
    BY <2>2, ReadBack
  <2> QED BY <2>1, <2>2 DEF CStrings
<1> QED BY <1>1, ReadOK DEF StringInv

LEMMA TextPassed ==
  ASSUME StringInv, NEW k \in CStrings, IsPrintable(k.str)
  PROVE  /\ Text(k.ptr) = k.str /\ k.str # <<>>
         /\ k.ptr \in Nat /\ k.ptr > PtrMin /\ ~IsLength(k.ptr)
         /\ IsLength(Len(k.str))
         /\ Readable(k.ptr, Len(k.str))
         /\ Bytes(k.ptr, Len(k.str)) = k.str
<1>1. /\ k.ptr \in Nat /\ k.str = MemReadString(k.ptr)
      /\ Len(k.str) \in Nat /\ Len(k.str) <= Window
  BY CStringOK
<1>2. k.str # <<>>
  BY DEF IsPrintable
<1>3. mem \in Memory
  BY DEF StringInv
<1>4. /\ k.ptr > PtrMin /\ Len(k.str) > 0 /\ Readable(k.ptr, Len(k.str))
      /\ Bytes(k.ptr, Len(k.str)) = k.str
  BY <1>1, <1>2, <1>3, ReadOK
<1>5. Text(k.ptr) = k.str
  BY <1>1, <1>3, TextOK
<1>6. PICK p \in Nat, n \in Nat : p = k.ptr /\ n = Len(k.str)
  BY <1>1
<1>7. ~IsLength(p) /\ IsLength(n)
  BY <1>1, <1>4, <1>6, Numbers DEF IsLength
<1> QED BY <1>1, <1>2, <1>4, <1>5, <1>6, <1>7

\* Nothing is captured of a register that points at no text.
LEMMA NoText ==
  ASSUME mem \in Memory, NEW l \in Leftover, Clean(l), NEW r \in 1..4
  PROVE  /\ Text(l[r]) = <<>>
         /\ \A symbol, n, isSign : VtablePart(symbol, l[r], n, isSign) = <<>>
<1>1. l \in [1..4 -> Nat]
  BY KeyCaptureAssumption
<1>2. l[r] \in Nat /\ (l[r] \in DOMAIN mem => mem[l[r]] \notin Printable)
  BY <1>1 DEF Clean
<1>3. PICK p \in Nat : p = l[r]
  BY <1>2
<1>4. ASSUME NEW n, IsLength(n), Readable(p, n)
      PROVE  ~IsPrintable(Bytes(p, n))
  <2>1. n \in Nat /\ n > 0
    BY <1>4, Numbers DEF IsLength
  <2>2. p \in DOMAIN mem /\ p + 1 - 1 = p /\ 1 \in 1..n
    BY <1>4, <2>1 DEF Readable
  <2>3. Len(Bytes(p, n)) = n /\ Bytes(p, n)[1] = mem[p]
    BY <1>4, <2>1, <2>2, BytesOK
  <2> QED BY <1>2, <1>3, <2>2, <2>3 DEF IsPrintable
<1> QED BY <1>2, <1>3, <1>4, TextOK DEF VtablePart

LEMMA CleanBoolean == \A l : Clean(l) \in BOOLEAN
BY DEF Clean

\* What is in the registers.
LEMMA RegsOK ==
  ASSUME NEW l \in Leftover, NEW args \in Seq(Nat), Len(args) > 0
  PROVE  /\ Regs(args, l) \in Registers
         /\ \A r \in 0..4 : Regs(args, l)[r] =
                              IF r < Len(args) THEN args[r + 1] ELSE l[r]
<1>1. l \in [1..4 -> Nat]
  BY KeyCaptureAssumption
<1>2. PICK n \in Nat : n = Len(args)
  OBVIOUS
<1>3. ASSUME NEW r \in 0..4
      PROVE  (IF r < n THEN args[r + 1] ELSE l[r]) \in Nat
  <2>1. CASE r < n
    <3>1. r + 1 \in 1..n
      BY <2>1
    <3> QED BY <1>2, <2>1, <3>1
  <2>2. CASE ~(r < n)
    <3>1. r \in 1..4
      BY <1>2, <2>2
    <3> QED BY <1>1, <2>2, <3>1
  <2> QED BY <2>1, <2>2
<1> QED BY <1>2, <1>3 DEF Regs, Registers

LEMMA ThisOK == This \in Nat
BY KeyCaptureAssumption

LEMMA RegsOf1 ==
  ASSUME NEW l \in Leftover, NEW a \in Nat
  PROVE  LET x == Regs(<<a>>, l)
         IN  /\ x \in Registers
             /\ x[0] = a /\ x[3] = l[3] /\ x[4] = l[4]
<1> DEFINE s == <<a>>
<1>1. /\ s \in Seq(Nat) /\ Len(s) = 1 /\ Len(s) > 0
      /\ s[1] = a
  OBVIOUS
<1> HIDE DEF s
<1>2. /\ Regs(s, l) \in Registers
      /\ \A r \in 0..4 : Regs(s, l)[r] =
                           IF r < Len(s) THEN s[r + 1] ELSE l[r]
  BY <1>1, RegsOK
<1>3. /\ Regs(s, l)[0] = s[1]
      /\ Regs(s, l)[3] = l[3] /\ Regs(s, l)[4] = l[4]
  <2>1. 0 \in 0..4 /\ 1 \in 0..4 /\ 2 \in 0..4 /\ 3 \in 0..4 /\ 4 \in 0..4
    OBVIOUS
  <2> QED BY <1>1, <1>2, <2>1
<1> QED BY <1>1, <1>2, <1>3 DEF s

LEMMA RegsOf2 ==
  ASSUME NEW l \in Leftover, NEW a \in Nat, NEW b \in Nat
  PROVE  LET x == Regs(<<a, b>>, l)
         IN  /\ x \in Registers
             /\ x[0] = a /\ x[1] = b /\ x[3] = l[3]
             /\ x[4] = l[4]
<1> DEFINE s == <<a, b>>
<1>1. /\ s \in Seq(Nat) /\ Len(s) = 2 /\ Len(s) > 0
      /\ s[1] = a /\ s[2] = b
  OBVIOUS
<1> HIDE DEF s
<1>2. /\ Regs(s, l) \in Registers
      /\ \A r \in 0..4 : Regs(s, l)[r] =
                           IF r < Len(s) THEN s[r + 1] ELSE l[r]
  BY <1>1, RegsOK
<1>3. /\ Regs(s, l)[0] = s[1] /\ Regs(s, l)[1] = s[2]
      /\ Regs(s, l)[3] = l[3] /\ Regs(s, l)[4] = l[4]
  <2>1. 0 \in 0..4 /\ 1 \in 0..4 /\ 2 \in 0..4 /\ 3 \in 0..4 /\ 4 \in 0..4
    OBVIOUS
  <2> QED BY <1>1, <1>2, <2>1
<1> QED BY <1>1, <1>2, <1>3 DEF s

LEMMA RegsOf3 ==
  ASSUME NEW l \in Leftover, NEW a \in Nat, NEW b \in Nat, NEW c \in Nat
  PROVE  LET x == Regs(<<a, b, c>>, l)
         IN  /\ x \in Registers
             /\ x[0] = a /\ x[1] = b /\ x[2] = c
             /\ x[3] = l[3] /\ x[4] = l[4]
<1> DEFINE s == <<a, b, c>>
<1>1. /\ s \in Seq(Nat) /\ Len(s) = 3 /\ Len(s) > 0
      /\ s[1] = a /\ s[2] = b /\ s[3] = c
  OBVIOUS
<1> HIDE DEF s
<1>2. /\ Regs(s, l) \in Registers
      /\ \A r \in 0..4 : Regs(s, l)[r] =
                           IF r < Len(s) THEN s[r + 1] ELSE l[r]
  BY <1>1, RegsOK
<1>3. /\ Regs(s, l)[0] = s[1] /\ Regs(s, l)[1] = s[2] /\ Regs(s, l)[2] = s[3]
      /\ Regs(s, l)[3] = l[3] /\ Regs(s, l)[4] = l[4]
  <2>1. 0 \in 0..4 /\ 1 \in 0..4 /\ 2 \in 0..4 /\ 3 \in 0..4 /\ 4 \in 0..4
    OBVIOUS
  <2> QED BY <1>1, <1>2, <2>1
<1> QED BY <1>1, <1>2, <1>3 DEF s

LEMMA RegsOf5 ==
  ASSUME NEW l \in Leftover, NEW a \in Nat, NEW b \in Nat, NEW c \in Nat,
         NEW d \in Nat, NEW e \in Nat
  PROVE  LET x == Regs(<<a, b, c, d, e>>, l)
         IN  /\ x \in Registers
             /\ x[0] = a /\ x[1] = b /\ x[2] = c
             /\ x[3] = d /\ x[4] = e
<1> DEFINE s == <<a, b, c, d, e>>
<1>1. /\ s \in Seq(Nat) /\ Len(s) = 5 /\ Len(s) > 0
      /\ s[1] = a /\ s[2] = b /\ s[3] = c /\ s[4] = d /\ s[5] = e
  OBVIOUS
<1> HIDE DEF s
<1>2. /\ Regs(s, l) \in Registers
      /\ \A r \in 0..4 : Regs(s, l)[r] =
                           IF r < Len(s) THEN s[r + 1] ELSE l[r]
  BY <1>1, RegsOK
<1>3. /\ Regs(s, l)[0] = s[1] /\ Regs(s, l)[1] = s[2] /\ Regs(s, l)[2] = s[3]
      /\ Regs(s, l)[3] = s[4] /\ Regs(s, l)[4] = s[5]
  <2>1. 0 \in 0..4 /\ 1 \in 0..4 /\ 2 \in 0..4 /\ 3 \in 0..4 /\ 4 \in 0..4
    OBVIOUS
  <2> QED BY <1>1, <1>2, <2>1
<1> QED BY <1>1, <1>2, <1>3 DEF s

XXTeaKey(std, lua, x) ==
  FirstFound(<< IF std THEN ReadStdString(x[0]) ELSE <<>>,
                IF lua THEN Text(IF IsLength(x[1]) THEN x[0] ELSE x[1])
                       ELSE <<>>,
                PointerText(x[0]), PointerText(x[1]), PointerText(x[2]) >>)

XXTeaSign(x) == IF x[3] > PtrMin /\ IsLength(x[4]) THEN Text(x[3]) ELSE <<>>

LEMMA XXTeaParts ==
  ASSUME NEW std, NEW lua, NEW x
  PROVE  XXTeaHook(std, lua, x)
           = KeyThenSign(XXTeaKey(std, lua, x), "xxtea", XXTeaSign(x))
BY DEF XXTeaHook, XXTeaKey, XXTeaSign

\* The first attempt that succeeds, for each of the names.
LEMMA XXTeaFinds ==
  ASSUME NEW x, NEW key, key # <<>>
  PROVE  /\ ReadStdString(x[0]) = key => XXTeaKey(TRUE, FALSE, x) = key
         /\ IsLength(x[1]) /\ Text(x[0]) = key => XXTeaKey(FALSE, TRUE, x) = key
         /\ ~IsLength(x[1]) /\ Text(x[1]) = key => XXTeaKey(FALSE, TRUE, x) = key
         /\ PointerText(x[0]) = key => XXTeaKey(FALSE, FALSE, x) = key
<1> DEFINE e == PointerText(x[0])
           f == PointerText(x[1])
           g == PointerText(x[2])
           lk == Text(IF IsLength(x[1]) THEN x[0] ELSE x[1])
<1>1. XXTeaKey(TRUE, FALSE, x) = FirstFound(<<ReadStdString(x[0]), <<>>, e, f, g>>)
  BY DEF XXTeaKey
<1>2. XXTeaKey(FALSE, TRUE, x) = FirstFound(<< <<>>, lk, e, f, g>>)
  BY DEF XXTeaKey
<1>3. XXTeaKey(FALSE, FALSE, x) = FirstFound(<< <<>>, <<>>, e, f, g>>)
  BY DEF XXTeaKey
<1>4. lk = IF IsLength(x[1]) THEN Text(x[0]) ELSE Text(x[1])
  OBVIOUS
<1> HIDE DEF e, f, g, lk
<1>8. \A u, v : FirstFound(<<u, v, e, f, g>>) =
               IF u # <<>> THEN u ELSE IF v # <<>> THEN v
               ELSE FirstFound(<<e, f, g>>)
  BY FirstOfFive
<1>5. ReadStdString(x[0]) = key => XXTeaKey(TRUE, FALSE, x) = key
  BY <1>1, <1>8
<1>6. lk = key => XXTeaKey(FALSE, TRUE, x) = key
  BY <1>2, <1>8
<1>7. e = key => XXTeaKey(FALSE, FALSE, x) = key
  <2>1. FirstFound(<<e, f, g>>) = IF e # <<>> THEN e ELSE IF f # <<>> THEN f ELSE g
    BY FirstOfThree
  <2>2. FirstFound(<< <<>>, <<>>, e, f, g>>) = FirstFound(<<e, f, g>>)
    BY <1>8
  <2> QED BY <1>3, <2>1, <2>2
<1> QED BY <1>4, <1>5, <1>6, <1>7 DEF e

LEMMA NoSign ==
  ASSUME mem \in Memory, NEW l \in Leftover, Clean(l), NEW x, x[3] = l[3]
  PROVE  XXTeaSign(x) = <<>>
BY NoText DEF XXTeaSign

\* A signature that is passed as a C string.
LEMMA SignPassed ==
  ASSUME StringInv, NEW s \in CStrings, NEW x,
         x[3] = s.ptr, x[4] = Len(s.str)
  PROVE  /\ IsPrintable(s.str) => XXTeaSign(x) = s.str
         /\ s.str = <<>> => XXTeaSign(x) = <<>>
<1>1. s.str = <<>> => ~IsLength(Len(s.str))
  BY DEF IsLength
<1> QED BY <1>1, TextPassed DEF XXTeaSign

LEMMA EmptyIsNoText == ~IsPrintable(<<>>)
BY DEF IsPrintable

LEMMA StdStringAnswers ==
  ASSUME StringInv, NEW l \in Leftover, NEW o \in Objects
  PROVE  LET x == Regs(<<o>>, l)
         IN  /\ x \in Registers
             /\ Answers(Hook("jsb_set_xxtea_key", x), "jsb_set_xxtea_key",
                        content[o], <<>>, Clean(l))
<1> DEFINE x == Regs(<<o>>, l)
           key == content[o]
<1>1. x \in Registers /\ x[0] = o /\ x[3] = l[3]
  BY ObjectsOK, RegsOf1
<1>2. Hook("jsb_set_xxtea_key", x)
        = KeyThenSign(XXTeaKey(TRUE, FALSE, x), "xxtea", XXTeaSign(x))
  BY XXTeaParts DEF Hook
<1>3. Clean(l) => XXTeaSign(x) = <<>>
  BY <1>1, NoSign DEF StringInv
<1>4. IsPrintable(key) => XXTeaKey(TRUE, FALSE, x) = key
  <2>1. IsPrintable(key) => key # <<>> /\ ReadStdString(x[0]) = key
    BY <1>1, SetterReads DEF IsPrintable
  <2> HIDE DEF x, key
  <2> QED BY <2>1, XXTeaFinds
<1> HIDE DEF x, key
<1>5. Answers(KeyThenSign(key, "xxtea", XXTeaSign(x)), "jsb_set_xxtea_key",
              key, <<>>, Clean(l))
  BY <1>3, EmptyIsNoText, KeyThenSignAnswers, CleanBoolean
<1>6. Answers(Hook("jsb_set_xxtea_key", x), "jsb_set_xxtea_key",
              key, <<>>, Clean(l))
  BY <1>2, <1>4, <1>5 DEF Answers
<1> QED BY <1>1, <1>6 DEF x, key

LEMMA StdStringAndSignAnswers ==
  ASSUME StringInv, NEW l \in Leftover, NEW o \in Objects, NEW p \in Objects
  PROVE  LET x == Regs(<<This, o, p>>, l)
         IN  /\ x \in Registers
             /\ Answers(Hook("setCryptoKeyAndSign", x), "setCryptoKeyAndSign",
                        content[o], content[p], Clean(l))
<1> DEFINE x == Regs(<<This, o, p>>, l)
           key == content[o]
           sign == content[p]
           c == IF x[1] > PtrMin THEN Text(x[1]) ELSE <<>>
<1>1. x \in Registers /\ x[1] = o /\ x[2] = p
  BY ObjectsOK, RegsOf3, ThisOK
<1>2. Hook("setCryptoKeyAndSign", x)
        = KeyThenSign(FirstFound(<<ReadStdString(o), c>>), "xxtea",
                      ReadStdString(p))
  BY <1>1 DEF Hook, StdStringSetterHook
<1>3. /\ IsPrintable(sign) => ReadStdString(p) = sign
      /\ sign = <<>> => ReadStdString(p) = <<>>
  BY SetterReads
<1>4. IsPrintable(key) => key # <<>> /\ ReadStdString(o) = key
  BY SetterReads DEF IsPrintable
<1> HIDE DEF x, key, sign, c
<1>5. IsPrintable(key) => FirstFound(<<ReadStdString(o), c>>) = key
  BY <1>4, FirstOfTwo
<1>6. Answers(KeyThenSign(key, "xxtea", ReadStdString(p)), "setCryptoKeyAndSign",
              key, sign, Clean(l))
  BY <1>3, KeyThenSignAnswers, CleanBoolean
<1>7. Answers(Hook("setCryptoKeyAndSign", x), "setCryptoKeyAndSign",
              key, sign, Clean(l))
  BY <1>2, <1>5, <1>6 DEF Answers
<1> QED BY <1>1, <1>7 DEF x, key, sign

LEMMA StaticAnswers ==
  ASSUME StringInv, NEW l \in Leftover, NEW k \in CStrings
  PROVE  LET x == Regs(<<k.ptr, Len(k.str)>>, l)
         IN  /\ x \in Registers
             /\ Answers(Hook("setXXTeaKey", x), "setXXTeaKey",
                        k.str, <<>>, Clean(l))
<1> DEFINE x == Regs(<<k.ptr, Len(k.str)>>, l)
           key == k.str
<1>1. x \in Registers /\ x[0] = k.ptr /\ x[1] = Len(key) /\ x[3] = l[3]
  BY CStringOK, RegsOf2
<1>2. Hook("setXXTeaKey", x)
        = KeyThenSign(XXTeaKey(FALSE, TRUE, x), "xxtea", XXTeaSign(x))
  BY XXTeaParts DEF Hook
<1>3. Clean(l) => XXTeaSign(x) = <<>>
  BY <1>1, NoSign DEF StringInv
<1>4. IsPrintable(key) => XXTeaKey(FALSE, TRUE, x) = key
  <2>1. IsPrintable(key) => key # <<>> /\ IsLength(x[1]) /\ Text(x[0]) = key
    BY <1>1, TextPassed
  <2> HIDE DEF x, key
  <2> QED BY <2>1, XXTeaFinds
<1> HIDE DEF x, key
<1>5. Answers(KeyThenSign(key, "xxtea", XXTeaSign(x)), "setXXTeaKey",
              key, <<>>, Clean(l))
  BY <1>3, EmptyIsNoText, KeyThenSignAnswers, CleanBoolean
<1>6. Answers(Hook("setXXTeaKey", x), "setXXTeaKey", key, <<>>, Clean(l))
  BY <1>2, <1>4, <1>5 DEF Answers
<1> QED BY <1>1, <1>6 DEF x, key

LEMMA PlainAnswers ==
  ASSUME StringInv, NEW l \in Leftover, NEW k \in CStrings,
         NEW name \in {"ZipUtils", "setAESKey"}
  PROVE  LET x == Regs(<<k.ptr>>, l)
         IN  /\ x \in Registers
             /\ Answers(Hook(name, x), name, k.str, <<>>, Clean(l))
<1> DEFINE x == Regs(<<k.ptr>>, l)
           key == k.str
<1>1. x \in Registers /\ x[0] = k.ptr /\ x[3] = l[3]
  BY CStringOK, RegsOf1
<1>2. Clean(l) => XXTeaSign(x) = <<>>
  BY <1>1, NoSign DEF StringInv
<1>3. IsPrintable(key) => key # <<>> /\ Text(x[0]) = key /\ PointerText(x[0]) = key
  <2>1. IsPrintable(key) => /\ key # <<>> /\ Text(k.ptr) = key
                            /\ k.ptr \in Nat /\ k.ptr > PtrMin
    BY TextPassed
  <2>2. IsPrintable(key) => k.ptr >= PtrMin
    BY <2>1, Numbers
  <2> HIDE DEF x, key
  <2> QED BY <1>1, <2>1, <2>2 DEF PointerText
<1>4. CASE name = "ZipUtils"
  <2>1. Hook(name, x) = KeyThenSign(XXTeaKey(FALSE, FALSE, x), "xxtea", XXTeaSign(x))
    BY <1>4, XXTeaParts DEF Hook
  <2> HIDE DEF x, key
  <2>2. IsPrintable(key) => XXTeaKey(FALSE, FALSE, x) = key
    BY <1>3, XXTeaFinds
  <2>3. Answers(KeyThenSign(key, "xxtea", XXTeaSign(x)), name, key, <<>>, Clean(l))
    BY <1>2, EmptyIsNoText, KeyThenSignAnswers, CleanBoolean
  <2>4. Answers(Hook(name, x), name, key, <<>>, Clean(l))
    BY <2>1, <2>2, <2>3 DEF Answers
  <2> QED BY <1>1, <2>4 DEF x, key
<1>5. CASE name = "setAESKey"
  <2> DEFINE found == FirstFound(<<Text(x[0]), Text(x[1]), Text(x[2])>>)
  <2>1. Hook(name, x) = KeyThenSign(found, "aes", <<>>)
    BY <1>5 DEF Hook, GenericKeyHook
  <2>2. IsPrintable(key) => found = key
    BY <1>3, FirstOfThree
  <2> HIDE DEF x, key, found
  <2>3. Answers(KeyThenSign(key, "aes", <<>>), name, key, <<>>, Clean(l))
    BY EmptyIsNoText, KeyThenSignAnswers, CleanBoolean
  <2>4. Answers(Hook(name, x), name, key, <<>>, Clean(l))
    BY <2>1, <2>2, <2>3 DEF Answers
  <2> QED BY <1>1, <2>4 DEF x, key
<1> QED BY <1>4, <1>5

\* The stub in a vtable captures the key, then what its second part finds.
LEMMA VtableAnswers ==
  ASSUME StringInv, NEW x \in Registers, NEW k \in CStrings,
         x[1] = k.ptr, x[2] = Len(k.str),
         NEW name, NEW symbol, NEW sign, NEW clean \in BOOLEAN,
         Hook(name, x) = VtableStubHook(symbol, x),
         name # "vtable->setXXTeaKey" => symbol # "xxtea",
         name # "vtable->setXXTeaKey" /\ IsPrintable(sign) =>
           VtablePart(symbol, x[3], x[4], TRUE) = <<Captured(sign, "signature")>>,
         sign = <<>> /\ clean => VtablePart(symbol, x[3], x[4], TRUE) = <<>>
  PROVE  Answers(Hook(name, x), name, k.str, sign, clean)
<1> SUFFICES ASSUME IsPrintable(k.str)
             PROVE  Answers(Hook(name, x), name, k.str, sign, clean)
  BY DEF Answers
<1> DEFINE c == Captured(k.str, KeyTypeOf(symbol, FALSE))
           t == VtablePart(symbol, x[3], x[4], TRUE)
           h == Hook(name, x)
<1>1. VtablePart(symbol, x[1], x[2], FALSE) = <<c>>
  BY TextPassed DEF VtablePart
<1>2. h = <<c>> \o t
  BY <1>1, VtableParts
<1>3. t \in Seq(Capture)
  <2>1. mem \in Memory /\ x[3] \in Nat /\ x[4] \in Nat
    BY DEF StringInv, Registers
  <2> QED BY <2>1, VtablePartOK
<1>4. c.value = k.str /\ c.keyType # "signature"
  BY DEF Captured, KeyTypeOf
<1>5. IsPrintable(sign) => sign # <<>>
  BY DEF IsPrintable
<1> HIDE DEF c, t
<1>6. h # <<>> /\ h[1] = c /\ Tail(h) = t /\ Len(h) = 1 + Len(t)
  <2> HIDE DEF h
  <2>1. Len(<<c>>) = 1 /\ <<c>>[1] = c /\ <<c>> \in Seq({c})
    OBVIOUS
  <2>2. <<c>> \in Seq(Capture \cup {c}) /\ t \in Seq(Capture \cup {c})
    BY <1>3
  <2>3. h \in Seq(Capture \cup {c}) /\ Len(h) = 1 + Len(t) /\ h[1] = c
    BY <1>2, <2>1, <2>2, ConcatProperties
  <2>4. h # <<>>
    BY <1>3, <2>3
  <2>5. Tail(h) = t
    <3>1. Len(Tail(h)) = Len(t) /\ Tail(h) \in Seq(Capture \cup {c})
      BY <1>3, <2>3, <2>4
    <3>2. ASSUME NEW i \in 1..Len(t) PROVE Tail(h)[i] = t[i]
      <4>1. Tail(h)[i] = h[i + 1]
        BY <1>3, <2>3, <2>4, <3>1
      <4>2. i + 1 > Len(<<c>>) /\ i + 1 \in 1..(Len(<<c>>) + Len(t))
            /\ i + 1 - Len(<<c>>) = i
        BY <1>3, <2>1
      <4>3. h[i + 1] = t[i]
        BY <1>2, <2>1, <2>2, <4>2, ConcatProperties
      <4> QED BY <4>1, <4>3
    <3> QED BY <2>2, <3>1, <3>2, SeqEqual
  <2> QED BY <2>3, <2>4, <2>5
<1>7. sign = <<>> /\ clean => Len(h) = 1
  <2>1. sign = <<>> /\ clean => t = <<>>
    BY DEF t
  <2> HIDE DEF h
  <2> QED BY <1>6, <2>1
<1>8. name # "vtable->setXXTeaKey" /\ IsPrintable(sign) =>
        Tail(h) = <<Captured(sign, "signature")>>
  <2>1. name # "vtable->setXXTeaKey" /\ IsPrintable(sign) =>
          t = <<Captured(sign, "signature")>>
    BY DEF t
  <2> HIDE DEF h
  <2> QED BY <1>6, <2>1
<1> HIDE DEF h
<1>9. Answers(h, name, k.str, sign, clean)
  BY <1>4, <1>6, <1>7, <1>8 DEF Answers
<1> QED BY <1>9 DEF h

\* What the second part finds of a signature.
LEMMA VtableSign ==
  ASSUME StringInv, NEW s \in CStrings, NEW symbol, NEW x,
         x[3] = s.ptr, x[4] = Len(s.str)
  PROVE  /\ symbol # "xxtea" /\ IsPrintable(s.str) =>
              VtablePart(symbol, x[3], x[4], TRUE)
                = <<Captured(s.str, "signature")>>
         /\ s.str = <<>> => VtablePart(symbol, x[3], x[4], TRUE) = <<>>
<1>1. s.str = <<>> => ~IsLength(Len(s.str))
  BY DEF IsLength
<1>2. symbol # "xxtea" => KeyTypeOf(symbol, TRUE) = "signature"
  BY DEF KeyTypeOf
<1> QED BY <1>1, <1>2, TextPassed DEF VtablePart

Symbol(name) == CASE name = "vtable->setXXTeaKey"  -> "xxtea"
                  [] name = "vtable->setCryptoKey" -> "crypto"
                  [] name = "vtable->setSecretKey" -> "secret"

LEMMA VtableHooks ==
  ASSUME NEW x, NEW name \in {"vtable->setXXTeaKey", "vtable->setCryptoKey",
                              "vtable->setSecretKey"}
  PROVE  /\ Hook(name, x) = VtableStubHook(Symbol(name), x)
         /\ name # "vtable->setXXTeaKey" => Symbol(name) # "xxtea"
<1>1. CASE name = "vtable->setXXTeaKey"
  BY <1>1 DEF Hook, Symbol
<1>2. CASE name = "vtable->setCryptoKey"
  BY <1>2 DEF Hook, Symbol
<1>3. CASE name = "vtable->setSecretKey"
  BY <1>3 DEF Hook, Symbol
<1> QED BY <1>1, <1>2, <1>3

LEMMA MemberAnswers ==
  ASSUME StringInv, NEW l \in Leftover, NEW k \in CStrings,
         NEW name \in MemberSetters
  PROVE  LET x == Regs(<<This, k.ptr, Len(k.str)>>, l)
         IN  /\ x \in Registers
             /\ Answers(Hook(name, x), name, k.str, <<>>, Clean(l))
<1> DEFINE x == Regs(<<This, k.ptr, Len(k.str)>>, l)
           key == k.str
<1>1. /\ x \in Registers /\ x[1] = k.ptr /\ x[2] = Len(key)
      /\ x[3] = l[3] /\ x[4] = l[4]
  BY CStringOK, RegsOf3, ThisOK
<1>2. CASE name = "setXXTeaKey"
  <2>1. Hook(name, x)
          = KeyThenSign(XXTeaKey(FALSE, TRUE, x), "xxtea", XXTeaSign(x))
    BY <1>2, XXTeaParts DEF Hook
  <2>2. Clean(l) => XXTeaSign(x) = <<>>
    BY <1>1, NoSign DEF StringInv
  <2>3. IsPrintable(key) => XXTeaKey(FALSE, TRUE, x) = key
    <3>1. IsPrintable(key) => key # <<>> /\ ~IsLength(x[1]) /\ Text(x[1]) = key
      BY <1>1, TextPassed
    <3> HIDE DEF x, key
    <3> QED BY <3>1, XXTeaFinds
  <2> HIDE DEF x, key
  <2>4. Answers(KeyThenSign(key, "xxtea", XXTeaSign(x)), name, key, <<>>, Clean(l))
    BY <2>2, EmptyIsNoText, KeyThenSignAnswers, CleanBoolean
  <2>5. Answers(Hook(name, x), name, key, <<>>, Clean(l))
    BY <2>1, <2>3, <2>4 DEF Answers
  <2> QED BY <1>1, <2>5 DEF x, key
<1>3. CASE name # "setXXTeaKey"
  <2>1. /\ Hook(name, x) = VtableStubHook(Symbol(name), x)
        /\ name # "vtable->setXXTeaKey" => Symbol(name) # "xxtea"
    BY <1>3, VtableHooks DEF MemberSetters
  <2>2. Clean(l) => VtablePart(Symbol(name), x[3], x[4], TRUE) = <<>>
    <3>1. 3 \in 1..4
      OBVIOUS
    <3> QED BY <1>1, <3>1, NoText DEF StringInv
  <2> HIDE DEF x
  <2>3. Answers(Hook(name, x), name, k.str, <<>>, Clean(l))
    BY <1>1, <2>1, <2>2, EmptyIsNoText, CleanBoolean, VtableAnswers
  <2> QED BY <1>1, <2>3 DEF x
<1> QED BY <1>2, <1>3

LEMMA MemberAndSignAnswers ==
  ASSUME StringInv, NEW l \in Leftover, NEW k \in CStrings, NEW s \in CStrings,
         NEW name \in MemberSetters
  PROVE  LET x == Regs(<<This, k.ptr, Len(k.str), s.ptr, Len(s.str)>>, l)
         IN  /\ x \in Registers
             /\ Answers(Hook(name, x), name, k.str, s.str, Clean(l))
<1> DEFINE x == Regs(<<This, k.ptr, Len(k.str), s.ptr, Len(s.str)>>, l)
           key == k.str
<1>1. /\ x \in Registers /\ x[1] = k.ptr /\ x[2] = Len(key)
      /\ x[3] = s.ptr /\ x[4] = Len(s.str)
  <2>1. /\ This \in Nat /\ k.ptr \in Nat /\ Len(k.str) \in Nat
        /\ s.ptr \in Nat /\ Len(s.str) \in Nat
    BY CStringOK, ThisOK
  <2>2. PICK a \in Nat, b \in Nat, c \in Nat, d \in Nat, e \in Nat :
          /\ a = This /\ b = k.ptr /\ c = Len(k.str)
          /\ d = s.ptr /\ e = Len(s.str)
    BY <2>1
  <2>3. LET y == Regs(<<a, b, c, d, e>>, l)
        IN  /\ y \in Registers /\ y[1] = b /\ y[2] = c
            /\ y[3] = d /\ y[4] = e
    BY RegsOf5
  <2> QED BY <2>2, <2>3
<1>2. CASE name = "setXXTeaKey"
  <2>1. Hook(name, x)
          = KeyThenSign(XXTeaKey(FALSE, TRUE, x), "xxtea", XXTeaSign(x))
    BY <1>2, XXTeaParts DEF Hook
  <2>2. /\ IsPrintable(s.str) => XXTeaSign(x) = s.str
        /\ s.str = <<>> => XXTeaSign(x) = <<>>
    BY <1>1, SignPassed
  <2>3. IsPrintable(key) => XXTeaKey(FALSE, TRUE, x) = key
    <3>1. IsPrintable(key) => key # <<>> /\ ~IsLength(x[1]) /\ Text(x[1]) = key
      BY <1>1, TextPassed
    <3> HIDE DEF x, key
    <3> QED BY <3>1, XXTeaFinds
  <2> HIDE DEF x, key
  <2>4. Answers(KeyThenSign(key, "xxtea", XXTeaSign(x)), name, key, s.str, Clean(l))
    BY <2>2, KeyThenSignAnswers, CleanBoolean
  <2>5. Answers(Hook(name, x), name, key, s.str, Clean(l))
    BY <2>1, <2>3, <2>4 DEF Answers
  <2> QED BY <1>1, <2>5 DEF x, key
<1>3. CASE name # "setXXTeaKey"
  <2>1. /\ Hook(name, x) = VtableStubHook(Symbol(name), x)
        /\ name # "vtable->setXXTeaKey" => Symbol(name) # "xxtea"
    BY <1>3, VtableHooks DEF MemberSetters
  <2> HIDE DEF x
  <2>2. /\ Symbol(name) # "xxtea" /\ IsPrintable(s.str) =>
             VtablePart(Symbol(name), x[3], x[4], TRUE)
               = <<Captured(s.str, "signature")>>
        /\ s.str = <<>> => VtablePart(Symbol(name), x[3], x[4], TRUE) = <<>>
    BY <1>1, VtableSign
  <2>3. Answers(Hook(name, x), name, k.str, s.str, Clean(l))
    BY <1>1, <2>1, <2>2, CleanBoolean, VtableAnswers
  <2> QED BY <1>1, <2>3 DEF x
<1> QED BY <1>2, <1>3

-----------------------------------------------------------------------------
(***************************************************************************)
(* Writing strings.                                                        *)
(***************************************************************************)
LEMMA WrittenOK ==
  ASSUME NEW m \in Memory, NEW a \in Nat, NEW s \in Seq(Cell)
  PROVE  /\ Written(m, a, s) \in Memory
         /\ \A c \in DOMAIN Guest :
              c \notin a..(a + Len(s) - 1) => Written(m, a, s)[c] = m[c]
         /\ \A i \in 1..Len(s) :
              a + i - 1 \in DOMAIN Guest => Written(m, a, s)[a + i - 1] = s[i]
<1>1. DOMAIN m = DOMAIN Guest /\ \A c \in DOMAIN Guest : m[c] \in Cell
  BY DEF Memory
<1>2. PICK n \in Nat : n = Len(s)
  OBVIOUS
<1>3. ASSUME NEW c \in a..(a + n - 1) PROVE s[c - a + 1] \in Cell
  <2>1. c - a + 1 \in 1..n
    OBVIOUS
  <2> QED BY <1>2, <2>1
<1>4. Written(m, a, s) \in Memory
  BY <1>1, <1>2, <1>3 DEF Written, Memory
<1>5. \A c \in DOMAIN Guest :
        c \notin a..(a + n - 1) => Written(m, a, s)[c] = m[c]
  BY <1>1, <1>2 DEF Written
<1>6. ASSUME NEW i \in 1..n, a + i - 1 \in DOMAIN Guest
      PROVE  Written(m, a, s)[a + i - 1] = s[i]
  <2>1. a + i - 1 \in a..(a + n - 1) /\ (a + i - 1) - a + 1 = i
    OBVIOUS
  <2>2. Written(m, a, s)[a + i - 1] = s[(a + i - 1) - a + 1]
    BY <1>1, <1>2, <1>6, <2>1 DEF Written
  <2> QED BY <2>1, <2>2
<1> QED BY <1>2, <1>4, <1>5, <1>6

\* A string stays where it is if its object and its buffer do.
Untouched(m, m2, p, s) ==
  /\ \A k \in 0..5 : m2[p + k] = m[p + k]
  /\ Len(s) > 4 => \A i \in 0..Len(s) :
                     m2[Buffer(m, p) + i] = m[Buffer(m, p) + i]

LEMMA Kept ==
  ASSUME NEW m, NEW m2, NEW h \in Nat, NEW h2 \in Nat, h <= h2,
         NEW p \in Nat, NEW s \in Seq(Char), Holds(m, h, p, s),
         Buffer(m, p) \in Nat, Untouched(m, m2, p, s)
  PROVE  Holds(m2, h2, p, s) /\ Buffer(m2, p) = Buffer(m, p)
<1>0. /\ \A k \in 0..5 : m2[p + k] = m[p + k]
      /\ Len(s) > 4 => \A i \in 0..Len(s) :
                         m2[Buffer(m, p) + i] = m[Buffer(m, p) + i]
  BY DEF Untouched
<1>1. PICK n \in Nat : n = Len(s)
  OBVIOUS
<1>2. /\ m2[p + 0] = m[p + 0] /\ m2[p + 1] = m[p + 1] /\ m2[p + 2] = m[p + 2]
      /\ m2[p + 3] = m[p + 3] /\ m2[p + 4] = m[p + 4] /\ m2[p + 5] = m[p + 5]
  <2>1. /\ 0 \in 0..5 /\ 1 \in 0..5 /\ 2 \in 0..5
        /\ 3 \in 0..5 /\ 4 \in 0..5 /\ 5 \in 0..5
    OBVIOUS
  <2> QED BY <1>0, <2>1
<1>3. m2[p] = m[p]
  <2>1. p + 0 = p
    OBVIOUS
  <2> QED BY <1>2, <2>1
<1>4. Buffer(m2, p) = Buffer(m, p)
  BY <1>2 DEF Buffer
<1>5. CASE Short(m, p, s)
  <2>1. n <= 4 /\ m[p] = 2 * n /\ m[p + n + 1] = 0
    BY <1>1, <1>5 DEF Short
  <2>2. \A i \in 1..n : m[p + i] = s[i]
    BY <1>1, <1>5 DEF Short
  <2>3. ASSUME NEW i \in 1..n PROVE m2[p + i] = s[i]
    <3>1. i \in 0..5
      BY <2>1
    <3> QED BY <1>0, <2>2, <3>1
  <2>4. m2[p + n + 1] = 0
    <3>1. n + 1 \in 0..5 /\ p + n + 1 = p + (n + 1)
      BY <2>1
    <3> QED BY <1>0, <2>1, <3>1
  <2> QED BY <1>1, <1>3, <1>4, <2>1, <2>3, <2>4 DEF Holds, Short
<1>6. CASE Long(m, h, p, s)
  <2>1. PICK b \in Nat : b = Buffer(m, p)
    OBVIOUS
  <2>2. n > 4 /\ b >= HeapBase /\ b + n < h
    BY <1>1, <1>6, <2>1 DEF Long
  <2>3. b + n < h2
    BY <2>2
  <2>4. \A i \in 1..n : m[b + i - 1] = s[i]
    BY <1>1, <1>6, <2>1 DEF Long
  <2>5. m[b + n] = 0
    BY <1>1, <1>6, <2>1 DEF Long
  <2>6. \A i \in 0..n : m2[b + i] = m[b + i]
    BY <1>0, <1>1, <2>1, <2>2
  <2>7. ASSUME NEW i \in 1..n PROVE m2[b + i - 1] = s[i]
    <3>1. i - 1 \in 0..n /\ b + i - 1 = b + (i - 1)
      OBVIOUS
    <3> QED BY <2>4, <2>6, <3>1
  <2>8. m2[b + n] = 0
    <3>1. n \in 0..n
      OBVIOUS
    <3> QED BY <2>5, <2>6, <3>1
  <2>9. /\ m2[p] % 2 = 1 /\ Pair(m2[p], m2[p + 1]) < HeapBase
        /\ Pair(m2[p + 2], m2[p + 3]) = n
    BY <1>1, <1>2, <1>3, <1>6 DEF Long
  <2>10. Long(m2, h2, p, s)
    BY <1>1, <1>4, <2>1, <2>2, <2>3, <2>7, <2>8, <2>9 DEF Long
  <2> QED BY <1>4, <2>10 DEF Holds
<1> QED BY <1>5, <1>6 DEF Holds

LEMMA ConcatAt ==
  ASSUME NEW s \in Seq(Cell), NEW t \in Seq(Cell)
  PROVE  /\ s \o t \in Seq(Cell) /\ Len(s \o t) = Len(s) + Len(t)
         /\ \A i \in 1..Len(s) : (s \o t)[i] = s[i]
         /\ \A i \in 1..Len(t) : (s \o t)[Len(s) + i] = t[i]
<1>1. /\ s \o t \in Seq(Cell) /\ Len(s \o t) = Len(s) + Len(t)
      /\ \A i \in 1..(Len(s) + Len(t)) :
           (s \o t)[i] = IF i <= Len(s) THEN s[i] ELSE t[i - Len(s)]
  BY ConcatProperties
<1>2. PICK m \in Nat, n \in Nat : m = Len(s) /\ n = Len(t)
  OBVIOUS
<1>3. \A i \in 1..(m + n) : (s \o t)[i] = IF i <= m THEN s[i] ELSE t[i - m]
  BY <1>1, <1>2
<1>4. ASSUME NEW i \in 1..n PROVE (s \o t)[m + i] = t[i]
  <2>1. m + i \in 1..(m + n) /\ ~(m + i <= m) /\ (m + i) - m = i
    OBVIOUS
  <2> QED BY <1>3, <2>1
<1>5. ASSUME NEW i \in 1..m PROVE (s \o t)[i] = s[i]
  <2>1. i \in 1..(m + n) /\ i <= m
    OBVIOUS
  <2> QED BY <1>3, <2>1
<1> QED BY <1>1, <1>2, <1>4, <1>5

\* The three words of an object.
FitsWord(v) == v \in Nat /\ v < Radix * Radix

LEMMA ThreeWords ==
  ASSUME NEW u, NEW v, NEW w, FitsWord(u), FitsWord(v), FitsWord(w), u % 2 = 1
  PROVE  LET L == Cells(u) \o Cells(v) \o Cells(w)
         IN  /\ L \in Seq(Cell) /\ Len(L) = 6
             /\ Pair(L[1], L[2]) = u /\ Pair(L[3], L[4]) = v
             /\ Pair(L[5], L[6]) = w /\ L[1] % 2 = 1
<1> DEFINE U == Cells(u)
           V == Cells(v)
           W == Cells(w)
<1>1. /\ U \in Seq(Cell) /\ Len(U) = 2 /\ Pair(U[1], U[2]) = u /\ U[1] % 2 = 1
      /\ V \in Seq(Cell) /\ Len(V) = 2 /\ Pair(V[1], V[2]) = v
      /\ W \in Seq(Cell) /\ Len(W) = 2 /\ Pair(W[1], W[2]) = w
  BY CellsOK DEF Pair, FitsWord
<1> HIDE DEF U, V, W
<1>2. /\ U \o V \in Seq(Cell) /\ Len(U \o V) = 4
      /\ (U \o V)[1] = U[1] /\ (U \o V)[2] = U[2]
      /\ (U \o V)[3] = V[1] /\ (U \o V)[4] = V[2]
  <2>0. /\ U \o V \in Seq(Cell) /\ Len(U \o V) = Len(U) + Len(V)
        /\ \A i \in 1..Len(U) : (U \o V)[i] = U[i]
        /\ \A i \in 1..Len(V) : (U \o V)[Len(U) + i] = V[i]
    BY <1>1, ConcatAt
  <2>1. /\ U \o V \in Seq(Cell) /\ Len(U \o V) = 2 + 2
        /\ \A i \in 1..2 : (U \o V)[i] = U[i]
        /\ \A i \in 1..2 : (U \o V)[2 + i] = V[i]
    BY <1>1, <2>0
  <2>2. 1 \in 1..2 /\ 2 \in 1..2 /\ 2 + 1 = 3 /\ 2 + 2 = 4
    OBVIOUS
  <2>3. (U \o V)[2 + 1] = V[1] /\ (U \o V)[2 + 2] = V[2]
    BY <2>1, <2>2
  <2> QED BY <2>1, <2>2, <2>3
<1> DEFINE X == U \o V
<1>3. /\ X \in Seq(Cell) /\ Len(X) = 4
      /\ X[1] = U[1] /\ X[2] = U[2] /\ X[3] = V[1] /\ X[4] = V[2]
  BY <1>2
<1>4. U \o V \o W = X \o W
  OBVIOUS
<1> HIDE DEF X
<1>5. /\ X \o W \in Seq(Cell) /\ Len(X \o W) = 6
      /\ (X \o W)[1] = X[1] /\ (X \o W)[2] = X[2]
      /\ (X \o W)[3] = X[3] /\ (X \o W)[4] = X[4]
      /\ (X \o W)[5] = W[1] /\ (X \o W)[6] = W[2]
  <2>0. /\ X \o W \in Seq(Cell) /\ Len(X \o W) = Len(X) + Len(W)
        /\ \A i \in 1..Len(X) : (X \o W)[i] = X[i]
        /\ \A i \in 1..Len(W) : (X \o W)[Len(X) + i] = W[i]
    BY <1>1, <1>3, ConcatAt
  <2>1. /\ X \o W \in Seq(Cell) /\ Len(X \o W) = 4 + 2
        /\ \A i \in 1..4 : (X \o W)[i] = X[i]
        /\ \A i \in 1..2 : (X \o W)[4 + i] = W[i]
    BY <1>1, <1>3, <2>0
  <2>2. /\ 1 \in 1..2 /\ 2 \in 1..2
        /\ 1 \in 1..4 /\ 2 \in 1..4 /\ 3 \in 1..4 /\ 4 \in 1..4
        /\ 4 + 1 = 5 /\ 4 + 2 = 6
    OBVIOUS
  <2>3. (X \o W)[4 + 1] = W[1] /\ (X \o W)[4 + 2] = W[2]
    BY <2>1, <2>2
  <2> QED BY <2>1, <2>2, <2>3
<1> DEFINE L == U \o V \o W
<1>6. /\ L \in Seq(Cell) /\ Len(L) = 6
      /\ L[1] = U[1] /\ L[2] = U[2] /\ L[3] = V[1] /\ L[4] = V[2]
      /\ L[5] = W[1] /\ L[6] = W[2]
  BY <1>3, <1>4, <1>5
<1> HIDE DEF L
<1>7. /\ L \in Seq(Cell) /\ Len(L) = 6
      /\ Pair(L[1], L[2]) = u /\ Pair(L[3], L[4]) = v
      /\ Pair(L[5], L[6]) = w /\ L[1] % 2 = 1
  BY <1>1, <1>6
<1> QED BY <1>7 DEF L, U, V, W

\* An object with a buffer at p: a capacity that is no pointer into the heap
\* and has the long bit, the length and the pointer.
LEMMA LongObjectOK ==
  ASSUME NEW s \in Seq(Char), NEW p \in HeapRange, p + BufSize(s) < HeapEnd
  PROVE  LET L == LongObject(s, p)
         IN  /\ L \in Seq(Cell) /\ Len(L) = 6
             /\ Pair(L[1], L[2]) < HeapBase /\ Pair(L[3], L[4]) = Len(s)
             /\ Pair(L[5], L[6]) = p /\ L[1] % 2 = 1
<1>1. PICK n \in Nat : n = Len(s)
  OBVIOUS
<1>2. PICK b \in Nat : b = BufSize(s) /\ b > n
  BY <1>1, BufferFits
<1>3. PICK hb \in Nat, he \in Nat : /\ hb = HeapBase /\ he = HeapEnd
                                    /\ hb < he /\ he < 2 * hb
  BY Numbers
<1>4. p \in Nat /\ hb <= p /\ p + b < he
  BY <1>2, <1>3, Places
<1>5. PICK q \in Nat : q = Radix * Radix
  BY Numbers
<1>6. he <= q
  <2>1. he - 1 \in HeapRange
    BY <1>3, Places
  <2>2. he - 1 < q
    BY <1>5, <2>1, Places
  <2> QED BY <1>3, <2>2
<1>7. PICK h \in Nat : h = b \div 2 /\ 2 * h <= b
  <2>1. b \div 2 \in Nat /\ 2 * (b \div 2) <= b
    BY <1>2
  <2> QED BY <2>1
<1> DEFINE u == 2 * h + 1
<1>8. u \in Nat /\ u < hb /\ u < q
  BY <1>3, <1>4, <1>6, <1>7
<1>9. u % 2 = 1
  OBVIOUS
<1>10. n < q /\ p < q
  BY <1>2, <1>3, <1>4, <1>6
<1>11. LongObject(s, p) = Cells(u) \o Cells(n) \o Cells(p)
  BY <1>1, <1>2, <1>7 DEF LongObject
<1> HIDE DEF u
<1>12. LET L == Cells(u) \o Cells(n) \o Cells(p)
       IN  /\ L \in Seq(Cell) /\ Len(L) = 6
           /\ Pair(L[1], L[2]) = u /\ Pair(L[3], L[4]) = n
           /\ Pair(L[5], L[6]) = p /\ L[1] % 2 = 1
  <2>1. FitsWord(u) /\ FitsWord(n) /\ FitsWord(p)
    BY <1>4, <1>5, <1>8, <1>10 DEF FitsWord
  <2> QED BY <1>9, <2>1, ThreeWords
<1> QED BY <1>1, <1>3, <1>8, <1>11, <1>12

\* What a write of s into object o leaves behind.
Effect(o, s) ==
  /\ mem' \in Memory
  /\ heapPtr' \in HeapRange /\ heapPtr <= heapPtr'
  /\ Holds(mem', heapPtr', o, s)
  /\ Len(s) > 4 => Buffer(mem', o) = heapPtr
  /\ \A c \in DOMAIN Guest :
       c \notin ObjectCells(o) /\ (c \in HeapRange => c < heapPtr) =>
         mem'[c] = mem[c]

LEMMA ShortWrite ==
  ASSUME StringInv, NEW o \in Objects, NEW s \in Seq(Char), Len(s) <= SSOMaxLen,
         WriteSSOString(o, s)
  PROVE  Effect(o, s)
<1> DEFINE L == ShortObject(s)
<1>1. PICK n \in Nat : n = Len(s) /\ n <= 4
  BY DEF SSOMaxLen, ObjSize
<1>2. mem' = Written(mem, o, L) /\ heapPtr' = heapPtr
  BY DEF WriteSSOString
<1>3. L = [i \in 1..6 |-> IF i = 1 THEN 2 * n
                          ELSE IF i <= n + 1 THEN s[i - 1] ELSE 0]
  BY <1>1 DEF ShortObject, ObjSize
<1>4. L \in Seq(Cell) /\ Len(L) = 6
  <2>1. ASSUME NEW i \in 1..6
        PROVE  (IF i = 1 THEN 2 * n ELSE IF i <= n + 1 THEN s[i - 1] ELSE 0) \in Cell
    <3>1. 2 * n \in Cell /\ 0 \in Cell
      BY <1>1, Numbers DEF Cell
    <3>2. ASSUME i # 1, i <= n + 1 PROVE s[i - 1] \in Cell
      <4>1. i - 1 \in 1..n
        BY <3>2
      <4>2. s[i - 1] \in Char
        BY <1>1, <4>1
      <4> QED BY <4>2, Chars
    <3> QED BY <3>1, <3>2
  <2>2. L \in [1..6 -> Cell]
    BY <1>3, <2>1
  <2> QED BY <1>3, <2>2
<1>5. L[1] = 2 * n /\ (\A i \in 1..n : L[i + 1] = s[i]) /\ L[n + 2] = 0
  <2>1. L[1] = 2 * n
    BY <1>3
  <2>2. ASSUME NEW i \in 1..n PROVE L[i + 1] = s[i]
    <3>1. i + 1 \in 1..6 /\ i + 1 # 1 /\ i + 1 <= n + 1 /\ (i + 1) - 1 = i
      BY <1>1
    <3> QED BY <1>3, <3>1
  <2>3. L[n + 2] = 0
    <3>1. n + 2 \in 1..6 /\ n + 2 # 1 /\ ~(n + 2 <= n + 1)
      BY <1>1
    <3> QED BY <1>3, <3>1
  <2> QED BY <2>1, <2>2, <2>3
<1>6. o \in Nat /\ \A k \in 0..5 : o + k \in DOMAIN Guest
  BY ObjectsOK
<1> HIDE DEF L
<1>7. /\ mem' \in Memory
      /\ \A c \in DOMAIN Guest : c \notin o..(o + 5) => mem'[c] = mem[c]
      /\ \A i \in 1..6 : o + i - 1 \in DOMAIN Guest => mem'[o + i - 1] = L[i]
  <2>1. o + Len(L) - 1 = o + 5
    BY <1>4, <1>6
  <2>2. mem \in Memory
    BY DEF StringInv
  <2>3. /\ Written(mem, o, L) \in Memory
        /\ \A c \in DOMAIN Guest :
             c \notin o..(o + Len(L) - 1) => Written(mem, o, L)[c] = mem[c]
        /\ \A i \in 1..Len(L) :
             o + i - 1 \in DOMAIN Guest => Written(mem, o, L)[o + i - 1] = L[i]
    BY <1>4, <1>6, <2>2, WrittenOK
  <2> QED BY <1>2, <1>4, <2>1, <2>3
<1>8. \A k \in 0..5 : mem'[o + k] = L[k + 1]
  <2> TAKE k \in 0..5
  <2>1. k + 1 \in 1..6 /\ o + (k + 1) - 1 = o + k /\ o + k \in DOMAIN Guest
    BY <1>6
  <2>2. o + (k + 1) - 1 \in DOMAIN Guest
    BY <2>1
  <2>3. mem'[o + (k + 1) - 1] = L[k + 1]
    BY <1>7, <2>1, <2>2
  <2> QED BY <2>1, <2>3
<1>9. Short(mem', o, s)
  <2>1. mem'[o] = 2 * n
    <3>1. 0 \in 0..5 /\ o + 0 = o /\ 0 + 1 = 1
      BY <1>6
    <3> QED BY <1>5, <1>8, <3>1
  <2>2. ASSUME NEW i \in 1..n PROVE mem'[o + i] = s[i]
    <3>1. i \in 0..5
      BY <1>1
    <3> QED BY <1>5, <1>8, <3>1
  <2>3. mem'[o + n + 1] = 0
    <3>1. n + 1 \in 0..5 /\ o + n + 1 = o + (n + 1) /\ (n + 1) + 1 = n + 2
      BY <1>1, <1>6
    <3> QED BY <1>5, <1>8, <3>1
  <2> QED BY <1>1, <2>1, <2>2, <2>3 DEF Short
<1>10. ObjectCells(o) = o..(o + 5)
  BY <1>6 DEF ObjectCells, ObjSize
<1>11. heapPtr' \in HeapRange /\ heapPtr <= heapPtr'
  BY <1>2, Places DEF StringInv
<1>12. ~(Len(s) > 4)
  BY <1>1
<1> QED BY <1>7, <1>9, <1>10, <1>11, <1>12 DEF Effect, Holds

LEMMA LongWrite ==
  ASSUME StringInv, NEW o \in Objects, NEW s \in Seq(Char), Len(s) <= Window,
         ~(Len(s) <= SSOMaxLen), WriteSSOString(o, s)
  PROVE  Effect(o, s)
<1> DEFINE L == LongObject(s, heapPtr)
           t == Append(s, 0)
           m1 == Written(mem, heapPtr, t)
<1>1. PICK n \in Nat : n = Len(s) /\ n > 4
  <2>1. PICK n \in Nat : n = Len(s)
    OBVIOUS
  <2> QED BY <2>1 DEF SSOMaxLen, ObjSize
<1>2. PICK b \in Nat : b = BufSize(s) /\ b > n
  BY <1>1, BufferFits
<1>3. PICK h \in Nat : /\ h = heapPtr /\ h \in HeapRange
                       /\ HeapBase <= h /\ h < HeapEnd
  BY Places DEF StringInv
<1>4. /\ h + b < HeapEnd /\ heapPtr' = h + b /\ mem' = Written(m1, o, L)
  BY <1>2, <1>3 DEF WriteSSOString
<1>5. /\ L \in Seq(Cell) /\ Len(L) = 6
      /\ Pair(L[1], L[2]) < HeapBase /\ Pair(L[3], L[4]) = n
      /\ Pair(L[5], L[6]) = h /\ L[1] % 2 = 1
  BY <1>1, <1>2, <1>3, <1>4, LongObjectOK
<1>6. o \in Nat /\ \A k \in 0..5 : o + k \in DOMAIN Guest /\ o + k \notin HeapRange
  BY ObjectsOK
<1>7. /\ t \in Seq(Cell) /\ Len(t) = n + 1
      /\ (\A i \in 1..n : t[i] = s[i]) /\ t[n + 1] = 0
  <2>1. s \in Seq(Cell)
    BY Chars
  <2>2. 0 \in Cell
    BY Numbers DEF Cell
  <2>3. /\ t \in Seq(Cell) /\ Len(t) = Len(s) + 1
        /\ \A i \in 1..Len(s) : t[i] = s[i]
        /\ t[Len(s) + 1] = 0
    BY <2>1, <2>2, AppendProperties
  <2> HIDE DEF t
  <2> QED BY <1>1, <2>3
<1>8. \A i \in 0..n : h + i \in HeapRange /\ h + i \in DOMAIN Guest
  <2> TAKE i \in 0..n
  <2>1. h + i \in Nat /\ HeapBase <= h + i /\ h + i < HeapEnd
    BY <1>2, <1>3, <1>4, Numbers
  <2>2. h + i \in HeapRange
    BY <2>1, Places
  <2> QED BY <2>2, Places
<1> HIDE DEF L, t
<1>9. /\ m1 \in Memory
      /\ \A c \in DOMAIN Guest : c \notin h..(h + n) => m1[c] = mem[c]
      /\ \A i \in 1..(n + 1) : h + i - 1 \in DOMAIN Guest => m1[h + i - 1] = t[i]
  <2>1. h + Len(t) - 1 = h + n
    BY <1>7
  <2>2. mem \in Memory
    BY DEF StringInv
  <2>3. /\ Written(mem, h, t) \in Memory
        /\ \A c \in DOMAIN Guest :
             c \notin h..(h + Len(t) - 1) => Written(mem, h, t)[c] = mem[c]
        /\ \A i \in 1..Len(t) :
             h + i - 1 \in DOMAIN Guest => Written(mem, h, t)[h + i - 1] = t[i]
    BY <1>3, <1>7, <2>2, WrittenOK
  <2>4. m1 = Written(mem, h, t)
    BY <1>3
  <2> HIDE DEF m1
  <2> QED BY <1>7, <2>1, <2>3, <2>4
<1> HIDE DEF m1
<1>10. /\ mem' \in Memory
       /\ \A c \in DOMAIN Guest : c \notin o..(o + 5) => mem'[c] = m1[c]
       /\ \A i \in 1..6 : o + i - 1 \in DOMAIN Guest => mem'[o + i - 1] = L[i]
  <2>1. o + Len(L) - 1 = o + 5
    BY <1>5, <1>6
  <2>2. m1 \in Memory
    BY <1>9
  <2>3. /\ Written(m1, o, L) \in Memory
        /\ \A c \in DOMAIN Guest :
             c \notin o..(o + Len(L) - 1) => Written(m1, o, L)[c] = m1[c]
        /\ \A i \in 1..Len(L) :
             o + i - 1 \in DOMAIN Guest => Written(m1, o, L)[o + i - 1] = L[i]
    BY <1>5, <1>6, <2>2, WrittenOK
  <2> QED BY <1>4, <1>5, <2>1, <2>3
<1>11. \A k \in 0..5 : mem'[o + k] = L[k + 1]
  <2> TAKE k \in 0..5
  <2>1. k + 1 \in 1..6 /\ o + (k + 1) - 1 = o + k /\ o + k \in DOMAIN Guest
    BY <1>6
  <2>2. o + (k + 1) - 1 \in DOMAIN Guest
    BY <2>1
  <2>3. mem'[o + (k + 1) - 1] = L[k + 1]
    BY <1>10, <2>1, <2>2
  <2> QED BY <2>1, <2>3
<1>12. /\ mem'[o] = L[1] /\ mem'[o + 1] = L[2] /\ mem'[o + 2] = L[3]
       /\ mem'[o + 3] = L[4] /\ mem'[o + 4] = L[5] /\ mem'[o + 5] = L[6]
  <2>1. /\ 0 \in 0..5 /\ 1 \in 0..5 /\ 2 \in 0..5
        /\ 3 \in 0..5 /\ 4 \in 0..5 /\ 5 \in 0..5 /\ o + 0 = o
    BY <1>6
  <2>2. /\ mem'[o + 0] = L[0 + 1] /\ mem'[o + 1] = L[1 + 1]
        /\ mem'[o + 2] = L[2 + 1] /\ mem'[o + 3] = L[3 + 1]
        /\ mem'[o + 4] = L[4 + 1] /\ mem'[o + 5] = L[5 + 1]
    BY <1>11, <2>1
  <2> QED BY <2>1, <2>2
<1>13. Buffer(mem', o) = h
  BY <1>5, <1>12 DEF Buffer
<1>14. \A c \in HeapRange : c \notin o..(o + 5)
  <2> SUFFICES ASSUME NEW c \in HeapRange, c \in o..(o + 5) PROVE FALSE
    OBVIOUS
  <2>1. c - o \in 0..5 /\ o + (c - o) = c
    BY <1>6
  <2> QED BY <1>6, <2>1
<1>15. \A i \in 0..n : mem'[h + i] = t[i + 1]
  <2> TAKE i \in 0..n
  <2>1. h + i \in HeapRange /\ h + i \in DOMAIN Guest
    BY <1>8
  <2>2. mem'[h + i] = m1[h + i]
    BY <1>10, <1>14, <2>1
  <2>3. i + 1 \in 1..(n + 1) /\ h + (i + 1) - 1 = h + i
    OBVIOUS
  <2>4. h + (i + 1) - 1 \in DOMAIN Guest
    BY <2>1, <2>3
  <2>5. m1[h + (i + 1) - 1] = t[i + 1]
    BY <1>9, <2>3, <2>4
  <2> QED BY <2>2, <2>3, <2>5
<1>16. Long(mem', heapPtr', o, s)
  <2>1. ASSUME NEW i \in 1..n PROVE mem'[h + i - 1] = s[i]
    <3>1. i - 1 \in 0..n /\ h + i - 1 = h + (i - 1) /\ (i - 1) + 1 = i
      OBVIOUS
    <3> QED BY <1>7, <1>15, <3>1
  <2>2. mem'[h + n] = 0
    <3>1. n \in 0..n
      OBVIOUS
    <3> QED BY <1>7, <1>15, <3>1
  <2>3. h >= HeapBase /\ h + n < heapPtr'
    BY <1>2, <1>3, <1>4, Numbers
  <2>4. /\ mem'[o] % 2 = 1 /\ Pair(mem'[o], mem'[o + 1]) < HeapBase
        /\ Pair(mem'[o + 2], mem'[o + 3]) = n
    BY <1>5, <1>12
  <2> QED BY <1>1, <1>13, <2>1, <2>2, <2>3, <2>4 DEF Long
<1>17. ASSUME NEW c \in DOMAIN Guest, c \notin ObjectCells(o),
              c \in HeapRange => c < h
       PROVE  mem'[c] = mem[c]
  <2>1. c \notin o..(o + 5)
    BY <1>6, <1>17 DEF ObjectCells, ObjSize
  <2>2. c \notin h..(h + n)
    <3> SUFFICES ASSUME c \in h..(h + n) PROVE FALSE
      OBVIOUS
    <3>1. c - h \in 0..n /\ h + (c - h) = c
      OBVIOUS
    <3>2. PICK i \in 0..n : h + i = c
      BY <3>1
    <3>3. c \in HeapRange
      BY <1>8, <3>2
    <3>4. ~(c < h)
      OBVIOUS
    <3> QED BY <1>17, <3>3, <3>4
  <2> QED BY <1>9, <1>10, <2>1, <2>2
<1>18. heapPtr' \in HeapRange /\ heapPtr <= heapPtr'
  BY <1>2, <1>3, <1>4, Places, Numbers
<1> QED BY <1>3, <1>10, <1>13, <1>16, <1>17, <1>18 DEF Effect, Holds

LEMMA WriteOK ==
  ASSUME StringInv, NEW o \in Objects, NEW s \in Seq(Char), Len(s) <= Window,
         WriteSSOString(o, s)
  PROVE  Effect(o, s)
BY ShortWrite, LongWrite

-----------------------------------------------------------------------------
(***************************************************************************)
(* Each change of a string leaves every string as it should be.            *)
(***************************************************************************)
\* What is known of a string that is not written.
LEMMA OtherOK ==
  ASSUME StringInv, NEW p \in Objects
  PROVE  /\ p \in Nat /\ content[p] \in Seq(Char) /\ Len(content[p]) \in Nat
         /\ Buffer(mem, p) \in Nat
         /\ \A k \in 0..5 : p + k \in DOMAIN Guest /\ p + k \notin HeapRange
         /\ Len(content[p]) > 4 =>
              \A i \in 0..Len(content[p]) :
                /\ Buffer(mem, p) + i \in HeapRange
                /\ Buffer(mem, p) + i \in DOMAIN Guest
                /\ Buffer(mem, p) + i < heapPtr
<1> DEFINE s == content[p]
<1>1. /\ p \in Nat /\ s \in Seq(Char) /\ Len(s) \in Nat /\ Buffer(mem, p) \in Nat
  BY ObjectCellsRead
<1>2. Holds(mem, heapPtr, p, s)
  BY DEF StringInv
<1>3. PICK n \in Nat, b \in Nat, h \in Nat :
        n = Len(s) /\ b = Buffer(mem, p) /\ h = heapPtr /\ h < HeapEnd
  BY <1>1, Places DEF StringInv
<1> HIDE DEF s
<1>4. ASSUME n > 4, NEW i \in 0..n
      PROVE  b + i \in HeapRange /\ b + i \in DOMAIN Guest /\ b + i < h
  <2>1. ~Short(mem, p, s)
    BY <1>3, <1>4 DEF Short
  <2>2. Long(mem, heapPtr, p, s)
    BY <1>2, <2>1 DEF Holds
  <2>3. b >= HeapBase /\ b + n < h
    BY <1>3, <2>2 DEF Long
  <2>4. b + i \in Nat /\ HeapBase <= b + i /\ b + i < HeapEnd /\ b + i < h
    BY <1>3, <2>3, Numbers
  <2> QED BY <2>4, Places
<1>5. \A k \in 0..5 : p + k \in DOMAIN Guest /\ p + k \notin HeapRange
  BY ObjectsOK
<1> QED BY <1>1, <1>3, <1>4, <1>5 DEF s

LEMMA OtherKept ==
  ASSUME StringInv, NEW p \in Objects, NEW m2, NEW h2 \in Nat, heapPtr <= h2,
         Untouched(mem, m2, p, content[p])
  PROVE  /\ Holds(m2, h2, p, content[p])
         /\ Buffer(m2, p) = Buffer(mem, p)
<1>1. PICK h \in Nat : h = heapPtr
  BY Places DEF StringInv
<1>2. Holds(mem, h, p, content[p])
  BY <1>1 DEF StringInv
<1>3. p \in Nat /\ content[p] \in Seq(Char) /\ Buffer(mem, p) \in Nat
  BY OtherOK
<1> QED BY <1>1, <1>2, <1>3, Kept

LEMMA WriteKeeps ==
  ASSUME StringInv, NEW o \in Objects, NEW s \in Seq(Char), Len(s) <= Window,
         Effect(o, s), content' = [content EXCEPT ![o] = s]
  PROVE  StringInv'
<1>1. content' \in [Objects -> Seq(Char)]
  BY DEF StringInv
<1>2. content'[o] = s /\ \A p \in Objects : p # o => content'[p] = content[p]
  BY DEF StringInv
<1>3. PICK h \in Nat : h = heapPtr
  BY Places DEF StringInv
<1>4. PICK h2 \in Nat : h2 = heapPtr' /\ h <= h2
  BY <1>3, Places DEF Effect
<1>5. ASSUME NEW p \in Objects, p # o
      PROVE  /\ Holds(mem', heapPtr', p, content[p])
             /\ Buffer(mem', p) = Buffer(mem, p)
  <2>1. /\ p \in Nat /\ content[p] \in Seq(Char) /\ Len(content[p]) \in Nat
        /\ Buffer(mem, p) \in Nat
        /\ \A k \in 0..5 : p + k \in DOMAIN Guest /\ p + k \notin HeapRange
        /\ Len(content[p]) > 4 =>
             \A i \in 0..Len(content[p]) :
               /\ Buffer(mem, p) + i \in HeapRange
               /\ Buffer(mem, p) + i \in DOMAIN Guest
               /\ Buffer(mem, p) + i < heapPtr
    BY OtherOK
  <2>2. \A c \in DOMAIN Guest :
          c \notin ObjectCells(o) /\ (c \in HeapRange => c < heapPtr) =>
            mem'[c] = mem[c]
    BY DEF Effect
  <2>3. \A k, l \in 0..5 : p + k # o + l
    BY <1>5, ObjectsOK
  <2>4. o \in Nat /\ \A k \in 0..5 : o + k \notin HeapRange
    BY ObjectsOK
  <2>5. ASSUME NEW c \in ObjectCells(o) PROVE c - o \in 0..5 /\ o + (c - o) = c
    BY <2>4 DEF ObjectCells, ObjSize
  <2>6. ASSUME NEW k \in 0..5 PROVE mem'[p + k] = mem[p + k]
    <3>1. p + k \notin ObjectCells(o)
      BY <2>3, <2>5
    <3> QED BY <2>1, <2>2, <3>1
  <2>7. ASSUME NEW c \in HeapRange PROVE c \notin ObjectCells(o)
    BY <2>4, <2>5
  <2>8. Len(content[p]) > 4 =>
          \A i \in 0..Len(content[p]) :
            mem'[Buffer(mem, p) + i] = mem[Buffer(mem, p) + i]
    BY <2>1, <2>2, <2>7
  <2>9. Untouched(mem, mem', p, content[p])
    BY <2>6, <2>8 DEF Untouched
  <2>10. heapPtr <= h2
    BY <1>3, <1>4
  <2> QED BY <1>4, <2>9, <2>10, OtherKept
<1>6. ASSUME NEW p \in Objects
      PROVE  Len(content'[p]) <= Window /\ Holds(mem', heapPtr', p, content'[p])
  <2>1. CASE p = o
    BY <1>2, <2>1 DEF Effect
  <2>2. CASE p # o
    BY <1>2, <1>5, <2>2 DEF StringInv
  <2> QED BY <2>1, <2>2
<1>7. ASSUME NEW p \in Objects, p # o, Len(s) > 4, Len(content[p]) > 4,
             NEW i \in 0..Len(s), NEW j \in 0..Len(content[p])
      PROVE  Buffer(mem', o) + i # Buffer(mem', p) + j
  <2>1. Buffer(mem', o) = h
    BY <1>3, <1>7 DEF Effect
  <2>2. Buffer(mem', p) = Buffer(mem, p)
    BY <1>5, <1>7
  <2>3. PICK c \in Nat : c = Buffer(mem, p) + j /\ c < h
    <3>1. Buffer(mem, p) + j \in HeapRange /\ Buffer(mem, p) + j < heapPtr
      BY <1>7, OtherOK
    <3> QED BY <1>3, <3>1, Places
  <2>4. PICK d \in Nat : d = i
    OBVIOUS
  <2>5. h + d # c
    BY <2>3
  <2> QED BY <2>1, <2>2, <2>3, <2>4, <2>5
<1>8. ASSUME NEW p \in Objects, NEW q \in Objects, p # q
      PROVE  BuffersApart(mem', p, content'[p], q, content'[q])
  <2>1. CASE p # o /\ q # o
    <3>1. BuffersApart(mem, p, content[p], q, content[q])
      BY <1>8 DEF StringInv
    <3>2. Buffer(mem', p) = Buffer(mem, p) /\ Buffer(mem', q) = Buffer(mem, q)
      BY <1>5, <2>1
    <3> QED BY <1>2, <2>1, <3>1, <3>2 DEF BuffersApart
  <2>2. CASE p = o
    BY <1>2, <1>7, <1>8, <2>2 DEF BuffersApart
  <2>3. CASE q = o
    BY <1>2, <1>7, <1>8, <2>3 DEF BuffersApart
  <2> QED BY <2>1, <2>2, <2>3
<1> QED BY <1>1, <1>6, <1>8 DEF StringInv, Effect

LEMMA IndexKeeps ==
  ASSUME StringInv, NEW o \in Objects, NEW i \in Nat, NEW c \in Drawn,
         i < GetSSOLength(o),
         mem' = [mem EXCEPT ![GetSSODataPtr(o) + i] = c],
         heapPtr' = heapPtr,
         content' = [content EXCEPT ![o][i + 1] = c]
  PROVE  StringInv'
<1> DEFINE s == content[o]
           t == [s EXCEPT ![i + 1] = c]
<1>1. /\ o \in Nat /\ s \in Seq(Char) /\ Len(s) \in Nat /\ Len(s) <= Window
      /\ Buffer(mem, o) \in Nat
  BY ObjectCellsRead
<1>2. PICK n \in Nat, d \in Nat, h \in Nat :
        n = Len(s) /\ d = GetSSODataPtr(o) /\ h = heapPtr
  BY <1>1, ReadBack, Places DEF StringInv
<1>3. i < n
  BY <1>2, DataOK
<1>4. c \in Char /\ c \in Cell
  BY Chars
<1>5. t \in Seq(Char) /\ Len(t) = n /\ t[i + 1] = c
      /\ \A j \in 1..n : j # i + 1 => t[j] = s[j]
  <2>1. i + 1 \in 1..n
    BY <1>3
  <2> HIDE DEF s
  <2> QED BY <1>1, <1>2, <1>4, <2>1
<1>6. d + i \in DOMAIN Guest
  <2>1. Readable(d, n)
    BY <1>2, ReadBack, DataOK
  <2>2. d + i \in d..(d + n - 1)
    BY <1>3
  <2> QED BY <2>1, <2>2 DEF Readable, StringInv, Memory
<1>7. /\ mem' \in Memory /\ mem'[d + i] = c
      /\ \A a \in DOMAIN Guest : a # d + i => mem'[a] = mem[a]
  BY <1>2, <1>4, <1>6 DEF StringInv, Memory
<1>8. /\ content' \in [Objects -> Seq(Char)] /\ content'[o] = t
      /\ \A p \in Objects : p # o => content'[p] = content[p]
  <2>1. content' = [content EXCEPT ![o] = t]
    OBVIOUS
  <2> HIDE DEF t, s
  <2> QED BY <1>5, <2>1 DEF StringInv
<1>9. \A k \in 0..5 : o + k \in DOMAIN Guest /\ o + k \notin HeapRange
  BY ObjectsOK
<1>10. Holds(mem, heapPtr, o, s)
  BY DEF StringInv
<1> HIDE DEF s, t
\* The cell is in the object or in its buffer.
<1>11. \/ n <= 4 /\ d = o + 1
       \/ n > 4 /\ d = Buffer(mem, o) /\ d + i \in HeapRange
  <2>1. CASE Short(mem, o, s)
    <3>1. n <= 4 /\ mem[o] = 2 * n
      BY <1>2, <2>1 DEF Short
    <3>2. ~IsLong(o)
      BY <3>1, ShortParity DEF IsLong
    <3> QED BY <1>2, <3>1, <3>2 DEF GetSSODataPtr
  <2>2. CASE Long(mem, heapPtr, o, s)
    <3>1. n > 4 /\ IsLong(o)
      BY <1>2, <2>2 DEF Long, IsLong
    <3>2. d = Buffer(mem, o)
      BY <1>2, <3>1, ObjectCellsRead DEF GetSSODataPtr
    <3>3. i \in 0..n
      BY <1>3
    <3>4. d + i \in HeapRange
      BY <1>2, <3>1, <3>2, <3>3, OtherOK DEF s
    <3> QED BY <3>1, <3>2, <3>4
  <2> QED BY <1>10, <2>1, <2>2 DEF Holds
<1>12. Holds(mem', heapPtr', o, t) /\ (n > 4 => Buffer(mem', o) = Buffer(mem, o))
  <2>1. CASE n <= 4 /\ d = o + 1
    <3>1. Short(mem, o, s)
      BY <1>2, <1>10, <2>1 DEF Holds, Long
    <3>2. mem[o] = 2 * n /\ (\A j \in 1..n : mem[o + j] = s[j]) /\ mem[o + n + 1] = 0
      BY <1>2, <3>1 DEF Short
    <3>3. mem'[o] = 2 * n
      <4>1. o + 0 = o /\ 0 \in 0..5 /\ o # o + 1 + i
        BY <1>1
      <4>2. o \in DOMAIN Guest
        BY <1>9, <4>1
      <4> QED BY <1>7, <2>1, <3>2, <4>1, <4>2
    <3>4. ASSUME NEW j \in 1..n PROVE mem'[o + j] = t[j]
      <4>1. j \in 0..5 /\ o + j \in DOMAIN Guest
        BY <1>9, <2>1
      <4>2. CASE j = i + 1
        <5>1. o + j = d + i
          BY <1>1, <2>1, <4>2
        <5> QED BY <1>5, <1>7, <4>2, <5>1
      <4>3. CASE j # i + 1
        <5>1. o + j # d + i
          BY <1>1, <2>1, <4>3
        <5> QED BY <1>5, <1>7, <3>2, <4>1, <4>3, <5>1
      <4> QED BY <4>2, <4>3
    <3>5. mem'[o + n + 1] = 0
      <4>1. n + 1 \in 0..5 /\ o + n + 1 = o + (n + 1) /\ o + n + 1 # d + i
        BY <1>1, <1>3, <2>1
      <4>2. o + n + 1 \in DOMAIN Guest
        BY <1>9, <4>1
      <4> QED BY <1>7, <3>2, <4>1, <4>2
    <3>6. Short(mem', o, t)
      BY <1>5, <2>1, <3>3, <3>4, <3>5 DEF Short
    <3> QED BY <2>1, <3>6 DEF Holds
  <2>2. CASE n > 4 /\ d = Buffer(mem, o) /\ d + i \in HeapRange
    <3>1. Long(mem, heapPtr, o, s)
      BY <1>2, <1>10, <2>2 DEF Holds, Short
    <3>2. \A k \in 0..5 : mem'[o + k] = mem[o + k]
      BY <1>7, <1>9, <2>2
    <3>3. /\ mem'[o] = mem[o] /\ mem'[o + 1] = mem[o + 1]
          /\ mem'[o + 2] = mem[o + 2] /\ mem'[o + 3] = mem[o + 3]
          /\ mem'[o + 4] = mem[o + 4] /\ mem'[o + 5] = mem[o + 5]
      <4>1. /\ 0 \in 0..5 /\ 1 \in 0..5 /\ 2 \in 0..5
            /\ 3 \in 0..5 /\ 4 \in 0..5 /\ 5 \in 0..5 /\ o + 0 = o
        BY <1>1
      <4>2. mem'[o + 0] = mem[o + 0]
        BY <3>2, <4>1
      <4> QED BY <3>2, <4>1, <4>2
    <3>4. Buffer(mem', o) = d
      BY <2>2, <3>3 DEF Buffer
    <3>5. /\ d >= HeapBase /\ d + n < heapPtr
          /\ mem[o] % 2 = 1 /\ Pair(mem[o], mem[o + 1]) < HeapBase
          /\ Pair(mem[o + 2], mem[o + 3]) = n
      BY <1>2, <2>2, <3>1 DEF Long
    <3>6. (\A j \in 1..n : mem[d + j - 1] = s[j]) /\ mem[d + n] = 0
      BY <1>2, <2>2, <3>1 DEF Long
    <3>7. \A j \in 0..n : d + j \in DOMAIN Guest
      BY <1>2, <2>2, OtherOK DEF s
    <3>8. ASSUME NEW j \in 1..n PROVE mem'[d + j - 1] = t[j]
      <4>1. j - 1 \in 0..n /\ d + j - 1 = d + (j - 1)
        OBVIOUS
      <4>2. d + j - 1 \in DOMAIN Guest
        BY <3>7, <4>1
      <4>3. CASE j = i + 1
        <5>1. d + j - 1 = d + i
          BY <4>3
        <5> QED BY <1>5, <1>7, <4>3, <5>1
      <4>4. CASE j # i + 1
        <5>1. d + j - 1 # d + i
          BY <4>4
        <5> QED BY <1>5, <1>7, <3>6, <4>2, <4>4, <5>1
      <4> QED BY <4>3, <4>4
    <3>9. mem'[d + n] = 0
      <4>1. n \in 0..n /\ d + n # d + i
        BY <1>3
      <4> QED BY <1>7, <3>6, <3>7, <4>1
    <3>10. Long(mem', heapPtr', o, t)
      BY <1>5, <2>2, <3>3, <3>4, <3>5, <3>8, <3>9 DEF Long
    <3> QED BY <2>2, <3>4, <3>10 DEF Holds
  <2> QED BY <1>11, <2>1, <2>2
<1>17. ASSUME n <= 4, d = o + 1
       PROVE  1 + i \in 0..5 /\ d + i = o + (1 + i)
  <2>1. 1 + i \in 0..5
    BY <1>3, <1>17
  <2>2. d + i = o + (1 + i)
    BY <1>1, <1>17
  <2> QED BY <2>1, <2>2
<1>13. ASSUME NEW p \in Objects, p # o
       PROVE  /\ Holds(mem', heapPtr', p, content[p])
              /\ Buffer(mem', p) = Buffer(mem, p)
  <2>1. /\ p \in Nat /\ content[p] \in Seq(Char) /\ Len(content[p]) \in Nat
        /\ Buffer(mem, p) \in Nat
        /\ \A k \in 0..5 : p + k \in DOMAIN Guest /\ p + k \notin HeapRange
        /\ Len(content[p]) > 4 =>
             \A j \in 0..Len(content[p]) :
               /\ Buffer(mem, p) + j \in HeapRange
               /\ Buffer(mem, p) + j \in DOMAIN Guest
    BY OtherOK
  <2>2. ASSUME NEW k \in 0..5 PROVE p + k # d + i
    <3>1. CASE n <= 4 /\ d = o + 1
      <4>1. 1 + i \in 0..5 /\ d + i = o + (1 + i)
        BY <1>17, <3>1
      <4> QED BY <1>13, <4>1, ObjectsOK
    <3>2. CASE d + i \in HeapRange
      BY <2>1, <3>2
    <3> QED BY <1>11, <3>1, <3>2
  <2>3. \A k \in 0..5 : mem'[p + k] = mem[p + k]
    BY <1>7, <2>1, <2>2
  <2>4. ASSUME Len(content[p]) > 4, NEW j \in 0..Len(content[p])
        PROVE  Buffer(mem, p) + j # d + i
    <3>1. CASE n <= 4 /\ d = o + 1
      <4>1. 1 + i \in 0..5 /\ d + i = o + (1 + i)
        BY <1>17, <3>1
      <4>2. d + i \notin HeapRange
        BY <1>9, <4>1
      <4> QED BY <2>1, <2>4, <4>2
    <3>2. CASE n > 4 /\ d = Buffer(mem, o)
      <4>1. BuffersApart(mem, o, s, p, content[p])
        BY <1>13 DEF StringInv, s
      <4>2. i \in 0..Len(s)
        BY <1>2, <1>3
      <4> QED BY <1>2, <2>4, <3>2, <4>1, <4>2 DEF BuffersApart
    <3> QED BY <1>11, <3>1, <3>2
  <2>5. Len(content[p]) > 4 =>
          \A j \in 0..Len(content[p]) :
            mem'[Buffer(mem, p) + j] = mem[Buffer(mem, p) + j]
    BY <1>7, <2>1, <2>4
  <2>6. Untouched(mem, mem', p, content[p])
    BY <2>3, <2>5 DEF Untouched
  <2>7. PICK h2 \in Nat : h2 = heapPtr' /\ heapPtr <= h2
    BY <1>2
  <2> QED BY <2>6, <2>7, OtherKept
<1>14. ASSUME NEW p \in Objects
       PROVE  Len(content'[p]) <= Window /\ Holds(mem', heapPtr', p, content'[p])
  <2>1. CASE p = o
    BY <1>1, <1>2, <1>5, <1>8, <1>12, <2>1
  <2>2. CASE p # o
    BY <1>8, <1>13, <2>2 DEF StringInv
  <2> QED BY <2>1, <2>2
<1>15. \A p \in Objects : /\ Len(content'[p]) = Len(content[p])
                          /\ Len(content[p]) > 4 => Buffer(mem', p) = Buffer(mem, p)
  BY <1>2, <1>5, <1>8, <1>12, <1>13 DEF s
<1>16. ASSUME NEW p \in Objects, NEW q \in Objects, p # q
       PROVE  BuffersApart(mem', p, content'[p], q, content'[q])
  <2>1. BuffersApart(mem, p, content[p], q, content[q])
    BY <1>16 DEF StringInv
  <2> QED BY <1>15, <2>1 DEF BuffersApart
<1> QED BY <1>7, <1>8, <1>14, <1>16 DEF StringInv

-----------------------------------------------------------------------------
(***************************************************************************)
(* The inductive invariant.                                                *)
(***************************************************************************)
CaptureInv ==
  /\ capturedKeys \in Seq(Capture)
  /\ DOMAIN tracked \subseteq Objects
  /\ \A o \in DOMAIN tracked : tracked[o] \in Seq(Cell)
  /\ edits \in 0..MaxEdits /\ calls \in 0..MaxCalls
  /\ call.from \in 0..Len(capturedKeys)

SetterInv ==
  calls > 0 => Answers(Got, call.hook, call.key, call.sign, call.clean)

KeyInv == StringInv /\ CaptureInv /\ SetterInv

LEMMA InitKeyInv == Init => KeyInv
<1> SUFFICES ASSUME Init PROVE KeyInv
  OBVIOUS
<1>1. mem \in Memory
  BY KeyCaptureAssumption DEF Init, Memory, Cell
<1>2. heapPtr \in HeapRange
  BY Numbers, Places DEF Init
<1>3. content \in [Objects -> Seq(Char)] /\ \A o \in Objects : content[o] = <<>>
  BY EmptySeq DEF Init
<1>4. Len(<<>>) = 0
  OBVIOUS
<1>5. ASSUME NEW o \in Objects
      PROVE  Len(content[o]) <= Window /\ Holds(mem, heapPtr, o, content[o])
  <2>1. mem[o] = 0 /\ mem[o + 0 + 1] = 0
    <3>1. /\ o \in Nat /\ \A k \in 0..5 : Guest[o + k] = 0
      BY ObjectsOK
    <3>2. o + 0 = o /\ 0 \in 0..5 /\ 1 \in 0..5 /\ o + 0 + 1 = o + 1
      BY <3>1
    <3>3. Guest[o + 0] = 0 /\ Guest[o + 1] = 0
      BY <3>1, <3>2
    <3> QED BY <3>2, <3>3 DEF Init
  <2>2. Short(mem, o, <<>>)
    BY <1>4, <2>1 DEF Short
  <2> QED BY <1>3, <1>4, <2>2, Numbers DEF Holds
<1>6. \A o, p \in Objects : BuffersApart(mem, o, content[o], p, content[p])
  BY <1>3, <1>4 DEF BuffersApart
<1>7. StringInv
  BY <1>1, <1>2, <1>3, <1>5, <1>6 DEF StringInv
<1>8. CaptureInv
  <2>1. capturedKeys \in Seq(Capture) /\ Len(capturedKeys) = 0
    BY <1>4, EmptySeq DEF Init
  <2>2. DOMAIN tracked = {}
    BY DEF Init
  <2>3. edits \in 0..MaxEdits /\ calls \in 0..MaxCalls
    BY KeyCaptureAssumption DEF Init
  <2>4. call.from = 0
    BY DEF Init
  <2> QED BY <2>1, <2>2, <2>3, <2>4 DEF CaptureInv
<1>9. SetterInv
  BY DEF Init, SetterInv
<1> QED BY <1>7, <1>8, <1>9 DEF KeyInv

LEMMA BoundsOK == MaxEdits \in Nat /\ MaxCalls \in Nat
BY KeyCaptureAssumption

\* A change of a string leaves captures alone.
LEMMA EditKeeps ==
  ASSUME CaptureInv, SetterInv, Edit, UNCHANGED <<capturedKeys, call, calls>>,
         \/ UNCHANGED tracked
         \/ \E o \in Objects, s \in Seq(Cell) :
              tracked' = [p \in DOMAIN tracked \cup {o} |->
                            IF p = o THEN s ELSE tracked[p]]
  PROVE  CaptureInv' /\ SetterInv'
<1>1. DOMAIN tracked' \subseteq Objects /\ \A o \in DOMAIN tracked' : tracked'[o] \in Seq(Cell)
  BY DEF CaptureInv
<1>2. edits' \in 0..MaxEdits
  BY BoundsOK DEF CaptureInv, Edit
<1>3. CaptureInv'
  BY <1>1, <1>2 DEF CaptureInv
<1>4. Got' = Got
  BY DEF Got
<1> QED BY <1>3, <1>4 DEF SetterInv

\* What a call adds is what is got of it.
LEMMA GotAdded ==
  ASSUME NEW s \in Seq(Capture), NEW t \in Seq(Capture)
  PROVE  SubSeq(s \o t, Len(s) + 1, Len(s \o t)) = t
<1>1. PICK m \in Nat, n \in Nat : m = Len(s) /\ n = Len(t)
  OBVIOUS
<1> DEFINE u == s \o t
           g == SubSeq(u, m + 1, m + n)
<1>2. u \in Seq(Capture) /\ Len(u) = m + n
      /\ \A i \in 1..(m + n) : u[i] = IF i <= m THEN s[i] ELSE t[i - m]
  BY <1>1, ConcatProperties
<1> HIDE DEF u
<1>3. /\ g \in Seq(Capture) /\ Len(g) = n
      /\ \A i \in 1..n : g[i] = u[m + i]
  <2>1. ASSUME NEW i \in (m + 1)..(m + n) PROVE u[i] \in Capture
    <3>1. i \in 1..Len(u)
      BY <1>2
    <3> QED BY <1>2, <3>1
  <2>2. /\ g \in Seq(Capture)
        /\ Len(g) = IF m + 1 <= m + n THEN (m + n) - (m + 1) + 1 ELSE 0
        /\ \A i \in 1..((m + n) - (m + 1) + 1) : g[i] = u[(m + 1) + i - 1]
    <3>1. m + 1 \in Int /\ m + n \in Int
      OBVIOUS
    <3> QED BY <2>1, <3>1, SubSeqProperties
  <2>3. ASSUME NEW i \in 1..n PROVE g[i] = u[m + i]
    <3>1. i \in 1..((m + n) - (m + 1) + 1) /\ (m + 1) + i - 1 = m + i
      OBVIOUS
    <3> QED BY <2>2, <3>1
  <2>4. (IF m + 1 <= m + n THEN (m + n) - (m + 1) + 1 ELSE 0) = n
    OBVIOUS
  <2>5. Len(g) = n
    BY <2>2, <2>4
  <2> HIDE DEF g
  <2> QED BY <2>2, <2>3, <2>5
<1>4. ASSUME NEW i \in 1..n PROVE g[i] = t[i]
  <2>1. m + i \in 1..(m + n) /\ ~(m + i <= m) /\ (m + i) - m = i
    OBVIOUS
  <2> QED BY <1>2, <1>3, <2>1
<1> HIDE DEF g
<1>5. g = t
  BY <1>1, <1>3, <1>4, SeqEqual
<1> QED BY <1>1, <1>2, <1>5 DEF g, u

LEMMA CallKeeps ==
  ASSUME KeyInv, NEW name \in Hooks, NEW x \in Registers, NEW key, NEW sign,
         NEW l, Answers(Hook(name, x), name, key, sign, Clean(l)),
         CallSetter(name, x, key, sign, l)
  PROVE  KeyInv'
<1> DEFINE h == Hook(name, x)
<1>1. /\ capturedKeys' = capturedKeys \o h /\ calls' = calls + 1
      /\ call' = [hook |-> name, key |-> key, sign |-> sign, clean |-> Clean(l),
                  from |-> Len(capturedKeys)]
      /\ UNCHANGED <<mem, heapPtr, tracked, content, edits>>
      /\ calls < MaxCalls
  BY DEF CallSetter, Clean
<1>2. h \in Seq(Capture) /\ capturedKeys \in Seq(Capture)
  BY HookOK DEF KeyInv, StringInv, CaptureInv
<1>3. StringInv'
  BY <1>1 DEF KeyInv, StringInv
<1> HIDE DEF h
<1>4. capturedKeys' \in Seq(Capture)
      /\ Len(capturedKeys') = Len(capturedKeys) + Len(h)
  BY <1>1, <1>2, ConcatProperties
<1>5. call'.from \in 0..Len(capturedKeys')
  <2>1. call'.from = Len(capturedKeys)
    BY <1>1
  <2>2. Len(capturedKeys) \in Nat /\ Len(h) \in Nat
    BY <1>2
  <2>3. PICK m \in Nat, n \in Nat : m = Len(capturedKeys) /\ n = Len(h)
    BY <2>2
  <2>4. call'.from = m /\ Len(capturedKeys') = m + n
    BY <1>4, <2>1, <2>3
  <2> QED BY <2>3, <2>4
<1>6. calls' \in 0..MaxCalls
  BY <1>1, BoundsOK DEF KeyInv, CaptureInv
<1>7. CaptureInv'
  BY <1>1, <1>4, <1>5, <1>6 DEF KeyInv, CaptureInv
<1>8. Got' = h
  <2>1. Got' = SubSeq(capturedKeys', call'.from + 1, Len(capturedKeys'))
    BY DEF Got
  <2> QED BY <1>1, <1>2, <2>1, GotAdded
<1>9. SetterInv'
  <2>1. /\ call'.hook = name /\ call'.key = key /\ call'.sign = sign
        /\ call'.clean = Clean(l)
    BY <1>1
  <2>2. Answers(Got', call'.hook, call'.key, call'.sign, call'.clean)
    BY <1>8, <2>1 DEF h
  <2> QED BY <2>2 DEF SetterInv
<1> QED BY <1>3, <1>7, <1>9 DEF KeyInv

LEMMA NextKeyInv == KeyInv /\ [Next]_vars => KeyInv'
<1> SUFFICES ASSUME KeyInv, [Next]_vars PROVE KeyInv'
  OBVIOUS
<1>0. StringInv /\ CaptureInv /\ SetterInv
  BY DEF KeyInv
<1>1. ASSUME NEW o \in Objects, NEW t \in Texts, StringAssign(o, t)
      PROVE  KeyInv'
  <2> DEFINE s == MemReadString(t)
  <2>1. /\ Edit /\ WriteSSOString(o, s)
        /\ tracked' = [p \in DOMAIN tracked \cup {o} |->
                         IF p = o THEN s ELSE tracked[p]]
        /\ content' = [content EXCEPT ![o] = s]
        /\ UNCHANGED <<capturedKeys, call, calls>>
    BY <1>1 DEF StringAssign
  <2>2. s \in Seq(Char) /\ Len(s) <= Window
    BY <1>0, ReadOK, KeyCaptureAssumption DEF StringInv
  <2> HIDE DEF s
  <2>3. Effect(o, s)
    BY <1>0, <2>1, <2>2, WriteOK
  <2>4. StringInv'
    BY <1>0, <2>1, <2>2, <2>3, WriteKeeps
  <2>5. s \in Seq(Cell)
    BY <2>2, Chars
  <2>6. CaptureInv' /\ SetterInv'
    BY <1>0, <2>1, <2>5, EditKeeps
  <2> QED BY <2>4, <2>6 DEF KeyInv
<1>2. ASSUME NEW o \in Objects, StringClear(o)
      PROVE  KeyInv'
  <2>1. /\ Edit /\ WriteSSOString(o, <<>>)
        /\ content' = [content EXCEPT ![o] = <<>>]
        /\ UNCHANGED <<tracked, capturedKeys, call, calls>>
    BY <1>2 DEF StringClear
  <2>2. <<>> \in Seq(Char) /\ Len(<<>>) <= Window
    BY EmptySeq, Numbers
  <2>3. Effect(o, <<>>)
    BY <1>0, <2>1, <2>2, WriteOK
  <2>4. StringInv'
    BY <1>0, <2>1, <2>2, <2>3, WriteKeeps
  <2>5. CaptureInv' /\ SetterInv'
    BY <1>0, <2>1, EditKeeps
  <2> QED BY <2>4, <2>5 DEF KeyInv
<1>3. ASSUME NEW o \in Objects, NEW i \in 0..(Window - 1), NEW c \in Drawn,
             StringIndex(o, i, c)
      PROVE  KeyInv'
  <2>1. /\ Edit /\ i < GetSSOLength(o) /\ i \in Nat
        /\ mem' = [mem EXCEPT ![GetSSODataPtr(o) + i] = c]
        /\ content' = [content EXCEPT ![o][i + 1] = c]
        /\ heapPtr' = heapPtr
        /\ UNCHANGED <<tracked, capturedKeys, call, calls>>
    BY <1>3, Numbers DEF StringIndex
  <2>2. StringInv'
    BY <1>0, <2>1, IndexKeeps
  <2>3. CaptureInv' /\ SetterInv'
    BY <1>0, <2>1, EditKeeps
  <2> QED BY <2>2, <2>3 DEF KeyInv
<1>4. ASSUME NEW l \in Leftover, NEW o \in Objects, CallStdString(o, l)
      PROVE  KeyInv'
  <2>1. "jsb_set_xxtea_key" \in Hooks
    BY DEF Hooks
  <2> QED BY <1>0, <1>4, <2>1, StdStringAnswers, CallKeeps DEF CallStdString
<1>5. ASSUME NEW l \in Leftover, NEW o \in Objects, NEW p \in Objects,
             CallStdStringAndSign(o, p, l)
      PROVE  KeyInv'
  <2>1. "setCryptoKeyAndSign" \in Hooks
    BY DEF Hooks
  <2> QED BY <1>0, <1>5, <2>1, StdStringAndSignAnswers, CallKeeps
          DEF CallStdStringAndSign
<1>6. ASSUME NEW l \in Leftover, NEW k \in CStrings, CallStatic(k, l)
      PROVE  KeyInv'
  <2>1. "setXXTeaKey" \in Hooks
    BY DEF Hooks
  <2> QED BY <1>0, <1>6, <2>1, StaticAnswers, CallKeeps DEF CallStatic
<1>7. ASSUME NEW l \in Leftover, NEW k \in CStrings,
             NEW name \in {"ZipUtils", "setAESKey"}, CallPlain(name, k, l)
      PROVE  KeyInv'
  <2>1. name \in Hooks
    BY DEF Hooks
  <2> QED BY <1>0, <1>7, <2>1, PlainAnswers, CallKeeps DEF CallPlain
<1>8. ASSUME NEW l \in Leftover, NEW k \in CStrings, NEW name \in MemberSetters,
             CallMember(name, k, l)
      PROVE  KeyInv'
  <2>1. name \in Hooks
    BY DEF Hooks, MemberSetters
  <2> QED BY <1>0, <1>8, <2>1, MemberAnswers, CallKeeps DEF CallMember
<1>9. ASSUME NEW l \in Leftover, NEW k \in CStrings, NEW s \in CStrings,
             NEW name \in MemberSetters, CallMemberAndSign(name, k, s, l)
      PROVE  KeyInv'
  <2>1. name \in Hooks
    BY DEF Hooks, MemberSetters
  <2> QED BY <1>0, <1>9, <2>1, MemberAndSignAnswers, CallKeeps
          DEF CallMemberAndSign
<1>10. CASE UNCHANGED vars
  <2>1. /\ UNCHANGED <<mem, heapPtr, tracked, content, edits>>
        /\ UNCHANGED <<capturedKeys, call, calls>>
    BY <1>10 DEF vars
  <2>2. StringInv'
    BY <1>0, <2>1 DEF StringInv
  <2>3. CaptureInv'
    BY <1>0, <2>1 DEF CaptureInv
  <2>4. Got' = Got
    BY <2>1 DEF Got
  <2>5. SetterInv'
    BY <1>0, <2>1, <2>4 DEF SetterInv
  <2> QED BY <2>2, <2>3, <2>5 DEF KeyInv
<1> QED BY <1>1, <1>2, <1>3, <1>4, <1>5, <1>6, <1>7, <1>8, <1>9, <1>10 DEF Next

LEMMA KeyInvariant == Spec => []KeyInv
BY InitKeyInv, NextKeyInv, PTL DEF Spec

-----------------------------------------------------------------------------
\* Everything has its type; what is captured is always printable and has one
\* of the types that printKeys knows (cocos.go:60-111).
THEOREM TypeCorrect == Spec => []TypeOK
<1>1. KeyInv => TypeOK
  <2> SUFFICES ASSUME KeyInv PROVE TypeOK
    OBVIOUS
  <2>1. StringInv /\ CaptureInv
    BY DEF KeyInv
  <2>2. \A i \in 1..Len(capturedKeys) :
          /\ IsPrintable(capturedKeys[i].value)
          /\ capturedKeys[i].keyType
               \in {"xxtea", "aes", "crypto", "signature", "unknown"}
    <3>1. \A i \in 1..Len(capturedKeys) : capturedKeys[i] \in Capture
      BY <2>1 DEF CaptureInv
    <3> QED BY <3>1 DEF Capture, KeyTypes
  <2>3. content \in [Objects -> Strings]
    <3>1. \A o \in Objects : content[o] \in Seq(Cell)
      BY <2>1, Chars DEF StringInv
    <3> QED BY <2>1, <3>1 DEF StringInv, Strings, Cell
  <2> QED BY <2>1, <2>2, <2>3
          DEF TypeOK, StringInv, CaptureInv, Memory, Strings, Cell
<1> QED BY <1>1, KeyInvariant, PTL

\* Whatever the guest does to its strings, each reads back as it was made,
\* in each of the ways the stubs and the setters read it.
THEOREM StringsAlwaysReadBack == Spec => []StringsReadBack
<1>1. KeyInv => StringsReadBack
  BY ReadBack, SetterReads DEF KeyInv, StringsReadBack
<1> QED BY <1>1, KeyInvariant, PTL

\* Every kind of setter captures a text that is passed as key, first and
\* under the type of a key.
THEOREM EveryKeyCaptured == Spec => []KeyCaptured
<1>1. KeyInv => KeyCaptured
  BY DEF KeyInv, SetterInv, Answers, KeyCaptured
<1> QED BY <1>1, KeyInvariant, PTL

\* A signature comes right after its key, and nothing is captured besides.
THEOREM EverySignatureFollows == Spec => []SignatureFollowsKey
<1>1. KeyInv => SignatureFollowsKey
  BY DEF KeyInv, SetterInv, Answers, SignatureFollowsKey
<1> QED BY <1>1, KeyInvariant, PTL
=============================================================================

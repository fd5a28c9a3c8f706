----------------------------- MODULE LibcProofs -----------------------------
(***************************************************************************)
(* Proofs about LibcStrings and WideStrings, for every content of memory,  *)
(* every mapping of it and every limit of the stubs' windows and loops.    *)
(***************************************************************************)
EXTENDS WideStrings, SequenceTheorems, WellFoundedInduction, TLAPS

(***************************************************************************)
(* Least and last members, and induction up to a number, over sets.        *)
(***************************************************************************)
Below == {p \in Nat \X Nat : p[1] < p[2]}

LEMMA BelowIsWellFounded == IsWellFoundedOn(Below, Nat)
<1>1. OpToRel(<, Nat) = Below
  BY Zenon DEF OpToRel, Below
<1> QED BY <1>1, NatLessThanWellFounded, Zenon

LEMMA LeastNumber ==
  ASSUME NEW S \in SUBSET Nat, S # {}
  PROVE  \E x \in S : \A y \in S : x <= y
<1>1. PICK x \in S : \A y \in S : ~(<<y, x>> \in Below)
  BY BelowIsWellFounded, WFMin
<1>2. ASSUME NEW y \in S PROVE x <= y
  <2>1. <<y, x>> \in Nat \X Nat
    OBVIOUS
  <2>2. ~(y < x)
    BY <1>1, <2>1 DEF Below
  <2> QED BY <2>2
<1> QED BY <1>2

LEMMA LastNumber ==
  ASSUME NEW n \in Nat, NEW S \in SUBSET (0..n), S # {}
  PROVE  \E x \in S : \A y \in S : x >= y
<1> DEFINE R == {k \in Nat : n - k \in S}
<1>1. PICK s \in S : TRUE
  OBVIOUS
<1>2. R \in SUBSET Nat /\ n - s \in R
  OBVIOUS
<1>3. PICK r \in R : \A q \in R : r <= q
  <2> HIDE DEF R
  <2> QED BY <1>2, LeastNumber
<1>4. ASSUME NEW y \in S PROVE n - r >= y
  <2>1. n - y \in R /\ y \in Nat
    OBVIOUS
  <2>2. r <= n - y /\ r \in Nat
    BY <1>3, <2>1
  <2> QED BY <2>1, <2>2
<1> QED BY <1>3, <1>4

LEMMA UpTo ==
  ASSUME NEW n \in Nat, NEW S, 0 \in S,
         \A k \in 0..(n - 1) : k \in S => k + 1 \in S
  PROVE  0..n \subseteq S
<1> SUFFICES ASSUME NEW x \in 0..n, x \notin S PROVE FALSE
  OBVIOUS
<1> DEFINE R == {k \in 0..n : k \notin S}
<1>1. R \in SUBSET Nat /\ R # {}
  OBVIOUS
<1>2. PICK r \in R : \A q \in R : r <= q
  <2> HIDE DEF R
  <2> QED BY <1>1, LeastNumber
<1>3. r # 0 /\ r - 1 \in 0..(n - 1) /\ r - 1 \notin R
  BY <1>2
<1>4. (r - 1) + 1 = r /\ r - 1 \in S
  BY <1>3
<1> QED BY <1>2, <1>3, <1>4

-----------------------------------------------------------------------------
(***************************************************************************)
(* Constants, and strings in memory.                                       *)
(***************************************************************************)
Memory == [Mapped -> Char]

LEMMA Numbers ==
  /\ RegSize \in Nat /\ StrMax \in Nat /\ CmpMax \in Nat /\ OpMax \in Nat
  /\ 0 < CmpMax /\ CmpMax <= StrMax /\ 2 * StrMax < RegSize
  /\ Align \in Nat /\ Align > 0
  /\ HeapBase \in Nat /\ HeapEnd \in Nat /\ HeapBase <= HeapEnd
BY LibcStringsAssumption

LEMMA Addresses ==
  /\ \A a \in Mapped : a \in Nat /\ 0 < a /\ a + 1 < RegSize
  /\ \A p \in Pointers : p \in Nat /\ 0 < p /\ p < RegSize
  /\ \A n \in Sizes : n \in Nat /\ n < RegSize
  /\ \A c \in Char : c \in Nat /\ c < RegSize
  /\ 0 \in Char /\ Memories \subseteq Memory
BY LibcStringsAssumption DEF Memory

LEMMA Functions ==
  ASSUME NEW S, NEW n \in Nat, NEW f \in [1..n -> S]
  PROVE  f \in Seq(S) /\ Len(f) = n
OBVIOUS

LEMMA BytesFacts ==
  ASSUME NEW m, NEW a, NEW n \in Nat
  PROVE  /\ Len(Bytes(m, a, n)) = n
         /\ \A i \in 1..n : Bytes(m, a, n)[i] = m[a + i - 1]
BY DEF Bytes

LEMMA BytesType ==
  ASSUME NEW m \in Memory, NEW a \in Nat, NEW n \in Nat, Readable(a, n)
  PROVE  Bytes(m, a, n) \in Seq(Char)
<1>1. \A i \in 1..n : m[a + i - 1] \in Char
  <2>1. \A i \in 1..n : a + i - 1 \in a..(a + n - 1)
    OBVIOUS
  <2> QED BY <2>1 DEF Readable, Memory
<1>2. Bytes(m, a, n) \in [1..n -> Char]
  BY <1>1 DEF Bytes
<1> QED BY <1>2, Functions

\* r is what there is of a string at a in n cells of m.
IsRead(m, a, n, r) ==
  /\ \E l \in 0..n : /\ r = Bytes(m, a, l)
                     /\ \A i \in 0..(l - 1) : m[a + i] # 0
                     /\ l < n => m[a + l] = 0

LEMMA ReadIsUnique ==
  ASSUME NEW m, NEW a \in Nat, NEW n \in Nat, NEW r, NEW t,
         IsRead(m, a, n, r), IsRead(m, a, n, t)
  PROVE  r = t
<1>1. PICK k \in 0..n : /\ r = Bytes(m, a, k)
                        /\ \A i \in 0..(k - 1) : m[a + i] # 0
                        /\ k < n => m[a + k] = 0
  BY DEF IsRead
<1>2. PICK l \in 0..n : /\ t = Bytes(m, a, l)
                        /\ \A i \in 0..(l - 1) : m[a + i] # 0
                        /\ l < n => m[a + l] = 0
  BY DEF IsRead
<1>3. ~(k < l) /\ ~(l < k)
  BY <1>1, <1>2
<1> QED BY <1>1, <1>2, <1>3

\* What CPart, CStr and Legible say of before, said of any memory.
PartOf(m, a, n) ==
  LET len == CHOOSE k \in 0..n : /\ \A i \in 0..(k - 1) : m[a + i] # 0
                                 /\ k < n => m[a + k] = 0
  IN  Bytes(m, a, len)

StrOf(m, a) ==
  PartOf(m, a, CHOOSE k \in 0..StrMax : m[a + k] = 0 /\
                                        \A i \in 0..(k - 1) : m[a + i] # 0)

Ends(m, a, max) ==
  Readable(a, max) /\ \E i \in 0..max : a + i \in Mapped /\ m[a + i] = 0

LEMMA FirstZero ==
  ASSUME NEW m, NEW a \in Nat, NEW n \in Nat
  PROVE  \E k \in 0..n : /\ \A i \in 0..(k - 1) : m[a + i] # 0
                         /\ k < n => m[a + k] = 0
<1> DEFINE Z == {k \in 0..n : k < n => m[a + k] = 0}
<1>1. Z \in SUBSET Nat /\ n \in Z
  OBVIOUS
<1>2. PICK k \in Z : \A j \in Z : k <= j
  <2> HIDE DEF Z
  <2> QED BY <1>1, LeastNumber
<1>3. k \in 0..n /\ (k < n => m[a + k] = 0)
  BY <1>2
<1>4. ASSUME NEW i \in 0..(k - 1), m[a + i] = 0 PROVE FALSE
  <2>1. i \in Z /\ i < k
    BY <1>3, <1>4
  <2> QED BY <1>2, <1>3, <2>1
<1> QED BY <1>3, <1>4

LEMMA PartIsRead ==
  ASSUME NEW m, NEW a \in Nat, NEW n \in Nat
  PROVE  IsRead(m, a, n, PartOf(m, a, n))
<1> DEFINE P(k) == /\ \A i \in 0..(k - 1) : m[a + i] # 0
                   /\ k < n => m[a + k] = 0
           l == CHOOSE k \in 0..n : P(k)
<1>1. l \in 0..n /\ P(l)
  <2>1. \E k \in 0..n : P(k)
    BY FirstZero
  <2> HIDE DEF P
  <2> QED BY <2>1
<1>2. PartOf(m, a, n) = Bytes(m, a, l)
  BY DEF PartOf
<1> QED BY <1>1, <1>2 DEF IsRead

LEMMA StrIsRead ==
  ASSUME NEW m, NEW a \in Nat, NEW max \in Nat, max <= StrMax, Ends(m, a, max)
  PROVE  \E l \in 0..max : /\ StrOf(m, a) = Bytes(m, a, l)
                           /\ \A i \in 0..(l - 1) : m[a + i] # 0
                           /\ m[a + l] = 0 /\ a + l \in Mapped
                           /\ Len(StrOf(m, a)) = l
<1> DEFINE P(k) == m[a + k] = 0 /\ \A i \in 0..(k - 1) : m[a + i] # 0
           l == CHOOSE k \in 0..StrMax : P(k)
<1>1. PICK z \in 0..max : a + z \in Mapped /\ m[a + z] = 0
  BY DEF Ends
<1>2. PICK k \in 0..max : P(k)
  <2>1. PICK k \in 0..z : /\ \A i \in 0..(k - 1) : m[a + i] # 0
                          /\ k < z => m[a + k] = 0
    <3>1. z \in Nat
      OBVIOUS
    <3> QED BY <3>1, FirstZero
  <2>2. m[a + k] = 0 /\ k \in 0..max
    BY <1>1, <2>1
  <2> QED BY <2>1, <2>2
<1>3. l \in 0..StrMax /\ P(l)
  <2>1. k \in 0..StrMax
    BY <1>2, Numbers
  <2> QED BY <1>2, <2>1
<1>4. l = k
  <2>1. ~(l < k) /\ ~(k < l)
    BY <1>2, <1>3
  <2> QED BY <1>2, <1>3, <2>1
<1>5. PartOf(m, a, l) = Bytes(m, a, l)
  <2> HIDE DEF l
  <2>1. l \in Nat /\ l \in 0..l
    BY <1>3, Numbers
  <2>2. IsRead(m, a, l, Bytes(m, a, l))
    BY <1>3, <2>1 DEF IsRead
  <2>3. IsRead(m, a, l, PartOf(m, a, l))
    BY <2>1, PartIsRead
  <2> QED BY <2>1, <2>2, <2>3, ReadIsUnique
<1>6. StrOf(m, a) = Bytes(m, a, l)
  BY <1>5 DEF StrOf
<1>7. a + l \in Mapped
  <2>1. l = z \/ a + l \in a..(a + max - 1)
    BY <1>1, <1>2, <1>3, <1>4
  <2> QED BY <1>1, <2>1 DEF Ends, Readable
<1>8. Len(StrOf(m, a)) = l
  <2>1. l \in Nat
    BY <1>3, Numbers
  <2> QED BY <1>6, <2>1, BytesFacts
<1> HIDE DEF l
<1> QED BY <1>2, <1>3, <1>4, <1>6, <1>7, <1>8

Limit(max) == IF max <= 0 THEN StrMax ELSE max

LEMMA LimitIs ==
  ASSUME NEW max \in Int
  PROVE  /\ Limit(max) \in Nat /\ Limit(max) > 0
         /\ max > 0 => Limit(max) = max
         /\ max <= 0 => Limit(max) = StrMax
BY Numbers DEF Limit

\* What MemReadString returns.
LEMMA ReadingStrings ==
  ASSUME NEW a \in Nat, NEW max \in Int
  PROVE  /\ Readable(a, Limit(max)) =>
              IsRead(mem, a, Limit(max), MemReadString(a, max))
         /\ ~Readable(a, Limit(max)) => MemReadString(a, max) = <<>>
<1> DEFINE n == Limit(max)
           Z == {k \in 0..(n - 1) : mem[a + k] = 0}
           first == CHOOSE k \in Z : \A j \in Z : k <= j
<1>1. n \in Nat /\ n > 0
  BY LimitIs
<1>2. MemReadString(a, max) =
        IF ~Readable(a, n) THEN <<>>
        ELSE Bytes(mem, a, IF Z = {} THEN n ELSE first)
  BY DEF MemReadString, Limit
<1>3. CASE Z = {}
  <2>1. \A i \in 0..(n - 1) : mem[a + i] # 0
    BY <1>3
  <2> HIDE DEF Z, n
  <2>2. Readable(a, n) => MemReadString(a, max) = Bytes(mem, a, n)
    BY <1>2, <1>3
  <2>3. n \in 0..n
    BY <1>1
  <2>4. Readable(a, n) => IsRead(mem, a, n, MemReadString(a, max))
    BY <1>1, <2>1, <2>2, <2>3 DEF IsRead
  <2> QED BY <1>2, <2>4 DEF n
<1>4. CASE Z # {}
  <2>1. first \in Z /\ \A j \in Z : first <= j
    <3>1. Z \in SUBSET Nat
      BY <1>1
    <3> HIDE DEF Z
    <3> QED BY <1>4, <3>1, LeastNumber
  <2>2. first \in 0..(n - 1) /\ mem[a + first] = 0
    BY <2>1
  <2>3. ASSUME NEW i \in 0..(first - 1), mem[a + i] = 0 PROVE FALSE
    <3>1. i \in Z /\ i < first
      BY <1>1, <2>2, <2>3
    <3> HIDE DEF Z, first
    <3> QED BY <2>1, <2>2, <3>1
  <2>4. first \in 0..n
    BY <1>1, <2>2
  <2> HIDE DEF Z, first, n
  <2>5. Readable(a, n) => MemReadString(a, max) = Bytes(mem, a, first)
    BY <1>2, <1>4
  <2>6. Readable(a, n) => IsRead(mem, a, n, MemReadString(a, max))
    BY <2>2, <2>3, <2>4, <2>5 DEF IsRead
  <2> QED BY <1>2, <2>6 DEF n
<1> QED BY <1>3, <1>4

LEMMA ReadType ==
  ASSUME mem \in Memory, NEW a \in Nat, NEW max \in Int
  PROVE  /\ MemReadString(a, max) \in Seq(Char)
         /\ Len(MemReadString(a, max)) \in Nat
         /\ Len(MemReadString(a, max)) <= Limit(max)
         /\ \A i \in 1..Len(MemReadString(a, max)) :
              a + i - 1 \in Mapped /\ MemReadString(a, max)[i] = mem[a + i - 1]
<1>1. Limit(max) \in Nat
  BY LimitIs
<1>2. CASE Readable(a, Limit(max))
  <2>1. PICK l \in 0..Limit(max) : MemReadString(a, max) = Bytes(mem, a, l)
    BY <1>2, ReadingStrings DEF IsRead
  <2>2. l \in Nat /\ l <= Limit(max)
    BY <1>1, <2>1
  <2>3. Readable(a, l)
    BY <1>1, <1>2, <2>2 DEF Readable
  <2>4. \A i \in 1..l : a + i - 1 \in Mapped
    BY <2>2, <2>3 DEF Readable
  <2> DEFINE r == Bytes(mem, a, l)
  <2>5. r \in Seq(Char) /\ Len(r) = l /\ \A i \in 1..l : r[i] = mem[a + i - 1]
    BY <2>2, <2>3, BytesFacts, BytesType
  <2> HIDE DEF r
  <2>6. MemReadString(a, max) = r
    BY <2>1 DEF r
  <2> QED BY <2>2, <2>4, <2>5, <2>6
<1>3. CASE ~Readable(a, Limit(max))
  <2>1. MemReadString(a, max) = <<>>
    BY <1>3, ReadingStrings
  <2>2. <<>> \in Seq(Char) /\ Len(<<>>) = 0
    OBVIOUS
  <2> QED BY <1>1, <2>1, <2>2
<1> QED BY <1>2, <1>3

\* A string whose end is in sight, or a part of one, is read as it is.
LEMMA ReadsPart ==
  ASSUME NEW a \in Nat, NEW n \in Nat, n > 0, Readable(a, n)
  PROVE  MemReadString(a, n) = PartOf(mem, a, n)
<1>1. Limit(n) = n
  BY LimitIs
<1>2. IsRead(mem, a, n, MemReadString(a, n))
  BY <1>1, ReadingStrings
<1> QED BY <1>2, PartIsRead, ReadIsUnique

LEMMA ReadsStr ==
  ASSUME NEW a \in Nat, NEW max \in Nat, 0 < max, max <= StrMax,
         Ends(mem, a, max)
  PROVE  MemReadString(a, max) = StrOf(mem, a)
<1>1. PICK l \in 0..max : /\ StrOf(mem, a) = Bytes(mem, a, l)
                          /\ \A i \in 0..(l - 1) : mem[a + i] # 0
                          /\ mem[a + l] = 0
  BY StrIsRead
<1>2. IsRead(mem, a, max, StrOf(mem, a))
  BY <1>1 DEF IsRead
<1>3. Readable(a, max)
  BY DEF Ends
<1>4. IsRead(mem, a, max, MemReadString(a, max))
  BY <1>3, LimitIs, ReadingStrings
<1> QED BY <1>2, <1>4, ReadIsUnique
-----------------------------------------------------------------------------
(***************************************************************************)
(* Types of what the stubs of string.go and printf.go return.              *)
(***************************************************************************)
Register == 0..(RegSize - 1)

OutcomeOK(out) == /\ out.ret \in Register
                  /\ out.mem \in Memory
                  /\ out.heap \in HeapBase..HeapEnd
                  /\ out.panics \in BOOLEAN

Typed == mem \in Memory /\ heapPtr \in HeapBase..HeapEnd

LEMMA SmallNumbers == /\ 0 \in Register /\ 1 \in Register
                      /\ RegSize - 1 \in Register
                      /\ \A n \in Nat : n <= StrMax => n \in Register
BY Numbers DEF Register

LEMMA OutcomeType ==
  ASSUME Typed, NEW ret \in Register, NEW m \in Memory
  PROVE  OutcomeOK(Outcome(ret, m))
BY DEF Typed, OutcomeOK, Outcome

LEMMA AnswerType ==
  ASSUME Typed, NEW ret \in Register
  PROVE  OutcomeOK(Answer(ret))
BY OutcomeType DEF Answer, Typed

LEMMA PanicType == Typed => OutcomeOK(Panic)
BY SmallNumbers DEF Typed, OutcomeOK, Panic

LEMMA WriteType ==
  ASSUME mem \in Memory, NEW a \in Nat, NEW s \in Seq(Char)
  PROVE  MemWrite(a, s) \in Memory
<1>1. CASE ~Readable(a, Len(s))
  BY <1>1 DEF MemWrite
<1>2. CASE Readable(a, Len(s))
  <2>1. \A c \in a..(a + Len(s) - 1) : s[c - a + 1] \in Char
    <3>1. PICK n \in Nat : n = Len(s)
      OBVIOUS
    <3>2. \A i \in 1..n : s[i] \in Char
      BY <3>1
    <3> QED BY <3>1, <3>2
  <2>2. MemWrite(a, s) = [c \in Mapped |->
            IF c \in a..(a + Len(s) - 1) THEN s[c - a + 1] ELSE mem[c]]
    BY <1>2 DEF MemWrite
  <2> QED BY <2>1, <2>2 DEF Memory
<1> QED BY <1>1, <1>2

LEMMA WriteStringType ==
  ASSUME mem \in Memory, NEW a \in Nat, NEW s \in Seq(Char)
  PROVE  MemWriteString(a, s) \in Memory
<1>1. Append(s, 0) \in Seq(Char)
  BY Addresses
<1> QED BY <1>1, WriteType DEF MemWriteString

LEMMA PrefixType ==
  ASSUME NEW s \in Seq(Char), NEW n \in Nat, n <= Len(s)
  PROVE  /\ Prefix(s, n) \in Seq(Char) /\ Len(Prefix(s, n)) = n
         /\ \A i \in 1..n : Prefix(s, n)[i] = s[i]
BY SubSeqProperties DEF Prefix

LEMMA CutType ==
  ASSUME NEW s \in Seq(Char), NEW n \in Nat
  PROVE  Cut(s, n) \in Seq(Char) /\ Len(Cut(s, n)) <= Len(s)
<1>1. Len(s) \in Nat
  OBVIOUS
<1> QED BY <1>1, PrefixType DEF Cut

LEMMA SizeAsInt ==
  ASSUME NEW n \in Nat, n < RegSize
  PROVE  /\ AsInt(n) \in Int
         /\ AsInt(n) <= n
         /\ Small(n) => AsInt(n) = n
         /\ AsInt(n) >= 0 => Small(n)
         /\ ~Small(n) => Limit(AsInt(n)) = StrMax /\ AsInt(n) < 0 /\ StrMax < n
         /\ n > 0 => Limit(AsInt(n)) <= n
<1>1. PICK r \in Nat, k \in Nat : r = RegSize /\ k = StrMax /\ 2 * k < r
  BY Numbers
<1> QED BY <1>1 DEF AsInt, Small, Limit

LEMMA SignType ==
  ASSUME Typed, NEW s, NEW t PROVE OutcomeOK(Sign(s, t))
<1> DEFINE v == IF Less(s, t) THEN RegSize - 1 ELSE IF Less(t, s) THEN 1 ELSE 0
<1>1. v \in Register
  BY SmallNumbers
<1> HIDE DEF v
<1>2. OutcomeOK(Answer(v))
  BY <1>1, AnswerType
<1> QED BY <1>2 DEF Sign, v

LEMMA StrlenType ==
  ASSUME Typed, NEW a \in Nat PROVE OutcomeOK(Strlen(a))
<1>1. StrMax \in Int /\ Limit(StrMax) = StrMax
  BY Numbers, LimitIs
<1>2. /\ Len(MemReadString(a, StrMax)) \in Nat
      /\ Len(MemReadString(a, StrMax)) <= StrMax
  BY <1>1, ReadType DEF Typed
<1>3. Len(MemReadString(a, StrMax)) \in Register
  BY <1>2, SmallNumbers
<1> QED BY <1>3, AnswerType DEF Strlen

LEMMA MemoryOpsType ==
  ASSUME Typed, NEW d \in Pointers, NEW s \in Nat, NEW n \in Nat, NEW c \in Char
  PROVE  /\ OutcomeOK(Memcpy(d, s, n))
         /\ OutcomeOK(Memset(d, c, n))
         /\ OutcomeOK(Memcmp(d, s, n))
<1>1. d \in Nat /\ d \in Register
  BY Addresses, Numbers DEF Register
<1>2. OutcomeOK(Memcpy(d, s, n))
  <2>1. CASE n \in 1..(OpMax - 1) /\ Readable(s, n)
    <3>1. Bytes(mem, s, n) \in Seq(Char)
      BY <2>1, BytesType DEF Typed
    <3>2. MemWrite(d, Bytes(mem, s, n)) \in Memory
      BY <1>1, <3>1, WriteType DEF Typed
    <3> QED BY <1>1, <2>1, <3>2, OutcomeType DEF Memcpy
  <2>2. CASE ~(n \in 1..(OpMax - 1) /\ Readable(s, n))
    BY <1>1, <2>2, OutcomeType DEF Memcpy, Typed
  <2> QED BY <2>1, <2>2
<1>3. OutcomeOK(Memset(d, c, n))
  <2>1. [i \in 1..n |-> c] \in Seq(Char)
    BY Functions
  <2>2. MemWrite(d, [i \in 1..n |-> c]) \in Memory
    BY <1>1, <2>1, WriteType DEF Typed
  <2>3. CASE n \in 1..(OpMax - 1)
    BY <1>1, <2>2, <2>3, OutcomeType DEF Memset
  <2>4. CASE n \notin 1..(OpMax - 1)
    BY <1>1, <2>4, OutcomeType DEF Memset, Typed
  <2> QED BY <2>3, <2>4
<1>4. OutcomeOK(Memcmp(d, s, n))
  BY SignType, AnswerType, SmallNumbers DEF Memcmp
<1> QED BY <1>2, <1>3, <1>4

LEMMA CopyTypes ==
  ASSUME Typed, NEW d \in Pointers, NEW s \in Nat, NEW n \in Nat, n < RegSize
  PROVE  /\ OutcomeOK(Strcpy(d, s)) /\ OutcomeOK(Strcat(d, s))
         /\ OutcomeOK(Strncat(d, s, n)) /\ OutcomeOK(Strncpy(d, s, n))
<1>1. d \in Nat /\ d \in Register
  BY Addresses, Numbers DEF Register
<1>2. AsInt(n) \in Int /\ StrMax \in Int
  BY SizeAsInt, Numbers
<1>3. \A a \in Nat : \A max \in Int : MemReadString(a, max) \in Seq(Char)
  BY ReadType DEF Typed
<1>4. OutcomeOK(Strcpy(d, s))
  BY <1>1, <1>2, <1>3, WriteStringType, OutcomeType DEF Strcpy, Typed
<1>5. \A t, u \in Seq(Char) : t \o u \in Seq(Char)
  BY ConcatProperties
<1>6. OutcomeOK(Strcat(d, s))
  <2>1. MemReadString(d, StrMax) \o MemReadString(s, StrMax) \in Seq(Char)
    BY <1>1, <1>2, <1>3, <1>5
  <2> QED BY <1>1, <2>1, WriteStringType, OutcomeType DEF Strcat, Typed
<1>7. OutcomeOK(Strncat(d, s, n))
  <2>1. Cut(MemReadString(s, n), n) \in Seq(Char)
    BY <1>3, CutType
  <2>2. MemReadString(d, StrMax) \o Cut(MemReadString(s, n), n) \in Seq(Char)
    BY <1>1, <1>2, <1>3, <1>5, <2>1
  <2> QED BY <1>1, <2>2, WriteStringType, OutcomeType, PanicType
          DEF Strncat, Typed
<1>8. OutcomeOK(Strncpy(d, s, n))
  <2> DEFINE str == MemReadString(s, AsInt(n))
             pad == [i \in 1..n |-> IF i <= Len(str) THEN str[i] ELSE 0]
  <2>1. str \in Seq(Char)
    BY <1>2, <1>3
  <2> HIDE DEF str
  <2>2. CASE Len(str) < n
    <3>1. \A i \in 1..n : (IF i <= Len(str) THEN str[i] ELSE 0) \in Char
      BY <2>1, Addresses
    <3>2. pad \in [1..n -> Char]
      BY <3>1
    <3> HIDE DEF pad
    <3>3. pad \in Seq(Char)
      BY <3>2, Functions
    <3>4. MemWrite(d, pad) \in Memory
      BY <1>1, <3>3, WriteType DEF Typed
    <3>5. OutcomeOK(Outcome(d, MemWrite(d, pad)))
      BY <1>1, <3>4, OutcomeType
    <3>6. Strncpy(d, s, n) = IF AsInt(n) < 0 THEN Panic
                             ELSE Outcome(d, MemWrite(d, pad))
      BY <2>2 DEF Strncpy, str, pad
    <3> QED BY <3>5, <3>6, PanicType
  <2>3. CASE ~(Len(str) < n)
    <3>1. Prefix(str, n) \in Seq(Char)
      BY <2>1, <2>3, PrefixType
    <3>2. OutcomeOK(Outcome(d, MemWriteString(d, Prefix(str, n))))
      BY <1>1, <3>1, WriteStringType, OutcomeType DEF Typed
    <3> QED BY <2>3, <3>2 DEF Strncpy, str
  <2> QED BY <2>2, <2>3
<1> QED BY <1>4, <1>6, <1>7, <1>8

\* Where a string that is read ends, at the latest, there is an address.
LEMMA EndIsAddress ==
  ASSUME mem \in Memory, NEW a \in Pointers, NEW max \in Int
  PROVE  /\ a + Len(MemReadString(a, max)) \in Register
         /\ \A i \in 0..Len(MemReadString(a, max)) : a + i \in Register
<1> DEFINE r == MemReadString(a, max)
<1>1. a \in Nat /\ a < RegSize /\ RegSize \in Nat
  BY Addresses, Numbers
<1>2. /\ Len(r) \in Nat
      /\ \A i \in 1..Len(r) : a + i - 1 \in Mapped
  BY <1>1, ReadType
<1> HIDE DEF r
<1>3. a + Len(r) < RegSize
  <2>1. CASE Len(r) = 0
    BY <1>1, <2>1
  <2>2. CASE Len(r) # 0
    <3>1. a + Len(r) - 1 \in Mapped
      BY <1>2, <2>2
    <3>2. (a + Len(r) - 1) + 1 < RegSize
      BY <3>1, Addresses
    <3> QED BY <1>1, <1>2, <3>2
  <2> QED BY <2>1, <2>2
<1>4. a + Len(r) \in Register /\ \A i \in 0..Len(r) : a + i \in Register
  BY <1>1, <1>2, <1>3 DEF Register
<1> QED BY <1>4 DEF r

LEMMA SearchTypes ==
  ASSUME Typed, NEW d \in Pointers, NEW s \in Pointers, NEW c
  PROVE  /\ OutcomeOK(Strchr(d, c)) /\ OutcomeOK(Strrchr(d, c))
         /\ OutcomeOK(Strstr(d, s))
<1>1. StrMax \in Int /\ CmpMax \in Int /\ d \in Nat /\ s \in Nat
  BY Numbers, Addresses
<1> DEFINE str == MemReadString(d, StrMax)
<1>2. /\ str \in Seq(Char) /\ Len(str) \in Nat
      /\ \A i \in 0..Len(str) : d + i \in Register
  BY <1>1, ReadType, EndIsAddress DEF Typed
<1>3. d + Len(str) \in Register
  BY <1>2
<1> HIDE DEF str
<1>4. OutcomeOK(Strchr(d, c))
  <2> DEFINE hits == {i \in 1..Len(str) : str[i] = c}
             at == CHOOSE i \in hits : \A j \in hits : i <= j
             ret == IF hits # {} THEN d + at - 1
                    ELSE IF c = 0 THEN d + Len(str) ELSE 0
  <2> HIDE DEF hits, at
  <2>0. Strchr(d, c) = Answer(ret)
    BY DEF Strchr, str, hits, at
  <2> SUFFICES ret \in Register
    <3> HIDE DEF ret
    <3> QED BY <2>0, AnswerType
  <2>1. CASE hits # {}
    <3>1. hits \in SUBSET Nat
      BY <1>2 DEF hits
    <3>2. at \in hits
      BY <2>1, <3>1, LeastNumber DEF at
    <3>3. at - 1 \in 0..Len(str) /\ d + (at - 1) = d + at - 1
      BY <1>1, <1>2, <3>2 DEF hits
    <3>4. d + at - 1 \in Register
      BY <1>2, <3>3
    <3> QED BY <2>1, <3>4
  <2>2. CASE hits = {}
    BY <1>3, <2>2, SmallNumbers
  <2> QED BY <2>1, <2>2
<1>5. OutcomeOK(Strrchr(d, c))
  <2> DEFINE hits == IF c = 0 THEN {Len(str) + 1}
                     ELSE {i \in 1..Len(str) : str[i] = c}
             at == CHOOSE i \in hits : \A j \in hits : i >= j
             ret == IF hits = {} THEN 0 ELSE d + at - 1
  <2> HIDE DEF hits, at
  <2>0. Strrchr(d, c) = Answer(ret)
    BY DEF Strrchr, str, hits, at
  <2> SUFFICES ret \in Register
    <3> HIDE DEF ret
    <3> QED BY <2>0, AnswerType
  <2>1. CASE hits # {}
    <3>1. hits \in SUBSET (0..(Len(str) + 1)) /\ Len(str) + 1 \in Nat
          /\ \A i \in hits : i > 0
      BY <1>2 DEF hits
    <3>2. at \in hits
      BY <2>1, <3>1, LastNumber DEF at
    <3>3. at - 1 \in 0..Len(str) /\ d + (at - 1) = d + at - 1
      BY <1>1, <1>2, <3>1, <3>2
    <3>4. d + at - 1 \in Register
      BY <1>2, <3>3
    <3> QED BY <2>1, <3>4
  <2>2. CASE hits = {}
    BY <2>2, SmallNumbers
  <2> QED BY <2>1, <2>2
<1>6. OutcomeOK(Strstr(d, s))
  <2> DEFINE needle == MemReadString(s, CmpMax)
  <2>1. needle \in Seq(Char) /\ Len(needle) \in Nat
    BY <1>1, ReadType DEF Typed
  <2> HIDE DEF needle
  <2> DEFINE hits == {i \in 0..(Len(str) - Len(needle)) :
                        SubSeq(str, i + 1, i + Len(needle)) = needle}
             at == CHOOSE i \in hits : \A j \in hits : i <= j
             ret == IF needle = <<>> THEN d ELSE IF hits = {} THEN 0 ELSE d + at
  <2> HIDE DEF hits, at
  <2>0. Strstr(d, s) = Answer(ret)
    BY DEF Strstr, str, needle, hits, at
  <2> SUFFICES ret \in Register
    <3> HIDE DEF ret
    <3> QED BY <2>0, AnswerType
  <2>2. d \in Register
    BY Addresses, Numbers DEF Register
  <2>3. CASE hits # {}
    <3>1. hits \in SUBSET Nat
      BY <1>2, <2>1 DEF hits
    <3>2. at \in hits
      BY <2>3, <3>1, LeastNumber DEF at
    <3>3. at \in 0..Len(str)
      BY <1>2, <2>1, <3>2 DEF hits
    <3>4. d + at \in Register
      BY <1>2, <3>3
    <3> QED BY <2>2, <2>3, <3>4
  <2>4. CASE hits = {}
    BY <2>2, <2>4, SmallNumbers
  <2> QED BY <2>3, <2>4
<1> QED BY <1>4, <1>5, <1>6

\* The top of the heap after a copy of l characters.
LEMMA RoundedUp ==
  ASSUME NEW h \in Nat, NEW l \in Nat
  PROVE  LET top == h + ((l + Align) \div Align) * Align
         IN  /\ top \in Nat /\ h + l < top /\ top <= h + l + Align
<1>1. PICK a \in Nat : a = Align /\ a > 0
  BY Numbers
<1>2. PICK n \in Nat : n = l + a
  BY <1>1
<1>3. PICK q \in Nat, r \in 0..(a - 1) : q = n \div a /\ n = (a * q) + r
  <2>1. n \div a \in Nat /\ n % a \in 0..(a - 1) /\ n = (a * (n \div a)) + (n % a)
    BY <1>1, <1>2
  <2> QED BY <2>1
<1>4. PICK p \in Nat : p = q * a /\ n = p + r
  BY <1>1, <1>3
<1>5. h + ((l + Align) \div Align) * Align = h + p
  BY <1>1, <1>2, <1>3, <1>4
<1>6. h + p \in Nat /\ h + l < h + p /\ h + p <= h + l + a
  BY <1>1, <1>2, <1>3, <1>4
<1> QED BY <1>1, <1>5, <1>6

LEMMA DupType ==
  ASSUME Typed, NEW str \in Seq(Char) PROVE OutcomeOK(Dup(str))
<1> DEFINE top == heapPtr + ((Len(str) + Align) \div Align) * Align
<1>1. heapPtr \in Nat /\ heapPtr \in Mapped /\ heapPtr \in Register
      /\ HeapBase <= heapPtr
  <2>1. heapPtr \in Mapped /\ HeapBase <= heapPtr
    BY LibcStringsAssumption DEF Typed
  <2> QED BY <2>1, Addresses, Numbers DEF Register
<1>2. top \in Nat /\ heapPtr < top
  <2>1. Len(str) \in Nat
    OBVIOUS
  <2>2. top \in Nat /\ heapPtr + Len(str) < top
    BY <1>1, <2>1, RoundedUp
  <2> HIDE DEF top
  <2> QED BY <1>1, <2>1, <2>2
<1> HIDE DEF top
<1>3. CASE top >= HeapEnd
  BY <1>3, PanicType DEF Dup, top
<1>4. CASE ~(top >= HeapEnd)
  <2> DEFINE out == Outcome(heapPtr, MemWriteString(heapPtr, str))
  <2>1. OutcomeOK(out)
    BY <1>1, WriteStringType, OutcomeType DEF Typed
  <2>2. top \in HeapBase..HeapEnd
    BY <1>1, <1>2, <1>4, Numbers
  <2>3. Dup(str) = [out EXCEPT !.heap = top]
    BY <1>4 DEF Dup, top
  <2>4. [out EXCEPT !.heap = top].ret = out.ret /\ [out EXCEPT !.heap = top].mem = out.mem
        /\ [out EXCEPT !.heap = top].panics = out.panics
        /\ [out EXCEPT !.heap = top].heap = top
    BY DEF Outcome
  <2> HIDE DEF out
  <2> QED BY <2>1, <2>2, <2>3, <2>4 DEF OutcomeOK
<1> QED BY <1>3, <1>4

LEMMA HeapAndPrintTypes ==
  ASSUME Typed, NEW d \in Pointers, NEW s \in Nat, NEW n \in Nat, n < RegSize
  PROVE  /\ OutcomeOK(Strdup(s)) /\ OutcomeOK(Strndup(s, n))
         /\ OutcomeOK(Sprintf(d, s)) /\ OutcomeOK(Snprintf(d, n, s))
<1>1. AsInt(n) \in Int /\ StrMax \in Int /\ CmpMax \in Int /\ d \in Nat
  BY SizeAsInt, Numbers, Addresses
<1>2. \A max \in Int : /\ MemReadString(s, max) \in Seq(Char)
                       /\ Len(MemReadString(s, max)) \in Nat
                       /\ Len(MemReadString(s, max)) <= Limit(max)
  BY ReadType DEF Typed
<1>3. OutcomeOK(Strdup(s))
  BY <1>1, <1>2, DupType DEF Strdup
<1>4. OutcomeOK(Strndup(s, n))
  <2>1. Cut(MemReadString(s, n), n) \in Seq(Char)
    BY <1>2, CutType
  <2> QED BY <2>1, DupType, PanicType DEF Strndup
<1>5. OutcomeOK(Sprintf(d, s))
  <2> DEFINE str == MemReadString(s, CmpMax)
  <2>1. str \in Seq(Char) /\ Len(str) \in Register
    <3>1. Limit(CmpMax) = CmpMax
      BY LimitIs, Numbers
    <3>2. Len(str) \in Nat /\ Len(str) <= CmpMax /\ str \in Seq(Char)
      BY <1>1, <1>2, <3>1
    <3> HIDE DEF str
    <3> QED BY <3>2, SmallNumbers, Numbers
  <2> HIDE DEF str
  <2>2. MemWriteString(d, str) \in Memory
    BY <1>1, <2>1, WriteStringType DEF Typed
  <2> QED BY <2>1, <2>2, OutcomeType DEF Sprintf, str
<1>6. OutcomeOK(Snprintf(d, n, s))
  <2> DEFINE str == MemReadString(s, AsInt(n))
             out == IF Len(str) >= n THEN Prefix(str, n - 1) ELSE str
  <2>1. str \in Seq(Char) /\ Len(str) \in Nat /\ Len(str) <= Limit(AsInt(n))
    BY <1>1, <1>2
  <2> HIDE DEF str
  <2>2. CASE n = 0
    <3>1. AsInt(n) = 0 /\ Limit(0) = StrMax
      BY <2>2, Numbers, LimitIs DEF AsInt
    <3>2. Len(str) \in Register
      BY <2>1, <3>1, SmallNumbers
    <3>3. Snprintf(d, n, s) = Answer(Len(str))
      BY <2>2 DEF Snprintf, str
    <3> QED BY <3>2, <3>3, AnswerType
  <2>3. CASE n # 0
    <3>1. out \in Seq(Char) /\ Len(out) \in Nat /\ Len(out) < n
      <4>1. CASE Len(str) >= n
        <5>1. n - 1 \in Nat /\ n - 1 <= Len(str)
          BY <2>1, <2>3, <4>1
        <5>2. Prefix(str, n - 1) \in Seq(Char) /\ Len(Prefix(str, n - 1)) = n - 1
          BY <2>1, <5>1, PrefixType
        <5> QED BY <4>1, <5>1, <5>2
      <4>2. CASE ~(Len(str) >= n)
        BY <2>1, <4>2
      <4> QED BY <4>1, <4>2
    <3> HIDE DEF out
    <3>2. Len(out) \in Register
      BY <3>1, Numbers DEF Register
    <3>3. MemWriteString(d, out) \in Memory
      BY <1>1, <3>1, WriteStringType DEF Typed
    <3>4. Snprintf(d, n, s) = Outcome(Len(out), MemWriteString(d, out))
      BY <2>3 DEF Snprintf, str, out
    <3> QED BY <3>2, <3>3, <3>4, OutcomeType
  <2> QED BY <2>2, <2>3
<1> QED BY <1>3, <1>4, <1>5, <1>6

-----------------------------------------------------------------------------
(***************************************************************************)
(* What the copying stubs write, next to the strings there were in memory. *)
(***************************************************************************)
WroteBy(out, a, t) ==
  Readable(a, Len(t)) =>
    /\ ~out.panics
    /\ \A c \in Mapped :
         out.mem[c] = IF c \in a..(a + Len(t) - 1) THEN t[c - a + 1] ELSE mem[c]

LEMMA WritesIt ==
  ASSUME mem \in Memory, NEW ret, NEW a, NEW t
  PROVE  WroteBy(Outcome(ret, MemWrite(a, t)), a, t)
<1>1. /\ Outcome(ret, MemWrite(a, t)).panics = FALSE
      /\ Outcome(ret, MemWrite(a, t)).mem = MemWrite(a, t)
  BY DEF Outcome
<1>2. Readable(a, Len(t)) =>
        \A c \in Mapped : MemWrite(a, t)[c] =
          IF c \in a..(a + Len(t) - 1) THEN t[c - a + 1] ELSE mem[c]
  BY DEF MemWrite
<1> QED BY <1>1, <1>2 DEF WroteBy

LEMMA WritesString ==
  ASSUME mem \in Memory, NEW ret, NEW a, NEW t
  PROVE  WroteBy(Outcome(ret, MemWriteString(a, t)), a, Append(t, 0))
BY WritesIt DEF MemWriteString

LEMMA PartFacts ==
  ASSUME mem \in Memory, NEW a \in Nat, NEW n \in Nat, Readable(a, n)
  PROVE  /\ PartOf(mem, a, n) \in Seq(Char)
         /\ Len(PartOf(mem, a, n)) \in 0..n
         /\ \A i \in 1..Len(PartOf(mem, a, n)) :
              PartOf(mem, a, n)[i] = mem[a + i - 1]
<1>1. PICK l \in 0..n : PartOf(mem, a, n) = Bytes(mem, a, l)
  BY PartIsRead DEF IsRead
<1>2. l \in Nat /\ Readable(a, l)
  BY DEF Readable
<1> QED BY <1>1, <1>2, BytesFacts, BytesType

LEMMA StrFacts ==
  ASSUME mem \in Memory, NEW a \in Nat, NEW max \in Nat, max <= StrMax,
         Ends(mem, a, max)
  PROVE  /\ StrOf(mem, a) \in Seq(Char)
         /\ Len(StrOf(mem, a)) \in 0..max
         /\ \A i \in 0..(Len(StrOf(mem, a)) - 1) :
              /\ a + i \in Mapped /\ mem[a + i] # 0
              /\ StrOf(mem, a)[i + 1] = mem[a + i]
         /\ a + Len(StrOf(mem, a)) \in Mapped
         /\ mem[a + Len(StrOf(mem, a))] = 0
<1>1. PICK l \in 0..max : /\ StrOf(mem, a) = Bytes(mem, a, l)
                          /\ \A i \in 0..(l - 1) : mem[a + i] # 0
                          /\ mem[a + l] = 0 /\ a + l \in Mapped
                          /\ Len(StrOf(mem, a)) = l
  BY StrIsRead
<1>2. l \in Nat /\ Readable(a, l)
  BY DEF Ends, Readable
<1> DEFINE r == StrOf(mem, a)
<1>3. r \in Seq(Char) /\ \A i \in 1..l : r[i] = mem[a + i - 1]
  <2>1. /\ Bytes(mem, a, l) \in Seq(Char)
        /\ \A i \in 1..l : Bytes(mem, a, l)[i] = mem[a + i - 1]
    BY <1>2, BytesFacts, BytesType
  <2> QED BY <1>1, <2>1, Zenon
<1>4. Len(r) = l
  BY <1>1
<1> HIDE DEF r
<1>5. \A i \in 0..(l - 1) : a + i \in Mapped
  BY <1>2 DEF Readable
<1>6. ASSUME NEW i \in 0..(l - 1) PROVE r[i + 1] = mem[a + i]
  <2>1. i + 1 \in 1..l /\ a + (i + 1) - 1 = a + i
    BY <1>2
  <2> QED BY <1>3, <2>1
<1>7. /\ r \in Seq(Char) /\ Len(r) \in 0..max
      /\ \A i \in 0..(Len(r) - 1) : /\ a + i \in Mapped /\ mem[a + i] # 0
                                    /\ r[i + 1] = mem[a + i]
      /\ a + Len(r) \in Mapped /\ mem[a + Len(r)] = 0
  BY <1>1, <1>3, <1>4, <1>5, <1>6
<1> QED BY <1>7 DEF r

\* A string written behind another one that is there.
LEMMA Appending ==
  ASSUME mem \in Memory, NEW d \in Nat, NEW ret,
         NEW s \in Seq(Char), NEW t \in Seq(Char), Readable(d, Len(s)),
         \A i \in 0..(Len(s) - 1) : s[i + 1] = mem[d + i]
  PROVE  WroteBy(Outcome(ret, MemWriteString(d, s \o t)), d + Len(s),
                 Append(t, 0))
<1>1. PICK l \in Nat, k \in Nat : l = Len(s) /\ k = Len(t)
  OBVIOUS
<1> DEFINE w == Append(s \o t, 0)
           u == Append(t, 0)
<1>2. /\ Len(u) = k + 1
      /\ \A i \in 1..(k + 1) : u[i] = IF i = k + 1 THEN 0 ELSE t[i]
  BY <1>1
<1>3. /\ Len(w) = l + k + 1
      /\ \A i \in 1..(l + k + 1) : w[i] = IF i <= l THEN s[i]
                                          ELSE IF i = l + k + 1 THEN 0
                                          ELSE t[i - l]
  <2>1. /\ s \o t \in Seq(Char) /\ Len(s \o t) = l + k
        /\ \A i \in 1..(l + k) : (s \o t)[i] = IF i <= l THEN s[i] ELSE t[i - l]
    BY <1>1, ConcatProperties
  <2> DEFINE st == s \o t
  <2> HIDE DEF st
  <2>2. /\ st \in Seq(Char) /\ Len(st) = l + k
        /\ \A i \in 1..(l + k) : st[i] = IF i <= l THEN s[i] ELSE t[i - l]
    BY <2>1 DEF st
  <2>3. /\ Len(Append(st, 0)) = l + k + 1
        /\ \A i \in 1..(l + k + 1) :
             Append(st, 0)[i] = IF i = l + k + 1 THEN 0 ELSE st[i]
    <3>1. 0 \in Char
      BY Addresses
    <3>2. /\ Len(Append(st, 0)) = Len(st) + 1
          /\ \A i \in 1..Len(st) : Append(st, 0)[i] = st[i]
          /\ Append(st, 0)[Len(st) + 1] = 0
      BY <2>2, <3>1, AppendProperties
    <3> QED BY <1>1, <2>2, <3>2
  <2>4. \A i \in 1..(l + k + 1) : i = l + k + 1 \/ i \in 1..(l + k)
    BY <1>1
  <2>5. w = Append(st, 0)
    BY DEF st
  <2>6. l + k + 1 > l
    BY <1>1
  <2> HIDE DEF w
  <2> QED BY <1>1, <2>2, <2>3, <2>4, <2>5, <2>6
<1>4. WroteBy(Outcome(ret, MemWrite(d, w)), d, w)
  BY WritesIt
<1> HIDE DEF w, u
<1> DEFINE out == Outcome(ret, MemWrite(d, w))
<1>5. ASSUME Readable(d + l, k + 1) PROVE Readable(d, l + k + 1)
  BY <1>1, <1>5 DEF Readable
<1>6. ASSUME NEW c \in Mapped, Readable(d + l, k + 1)
      PROVE  out.mem[c] = IF c \in (d + l)..(d + l + (k + 1) - 1)
                          THEN u[c - (d + l) + 1] ELSE mem[c]
  <2>1. out.mem[c] = IF c \in d..(d + (l + k + 1) - 1) THEN w[c - d + 1] ELSE mem[c]
    BY <1>3, <1>4, <1>5, <1>6 DEF WroteBy
  <2>2. c \in Nat
    BY Addresses
  <2> HIDE DEF out
  <2>3. CASE c \in d..(d + l - 1)
    <3>1. c - d \in 0..(l - 1) /\ c - d + 1 <= l /\ c - d + 1 \in 1..(l + k + 1)
          /\ d + (c - d) = c
      BY <1>1, <2>2, <2>3
    <3>2. w[c - d + 1] = mem[c]
      BY <1>1, <1>3, <3>1
    <3> QED BY <1>1, <2>1, <2>2, <2>3, <3>2
  <2>4. CASE c \in (d + l)..(d + l + k)
    <3>1. c - d + 1 \in 1..(l + k + 1) /\ c - (d + l) + 1 \in 1..(k + 1)
          /\ ~(c - d + 1 <= l) /\ (c - d + 1) - l = c - (d + l) + 1
          /\ (c - d + 1 = l + k + 1 <=> c - (d + l) + 1 = k + 1)
      BY <1>1, <2>2, <2>4
    <3>2. w[c - d + 1] = u[c - (d + l) + 1]
      BY <1>2, <1>3, <3>1
    <3> QED BY <1>1, <2>1, <2>2, <2>4, <3>2
  <2>5. CASE c \notin d..(d + l + k)
    BY <1>1, <2>1, <2>2, <2>5
  <2> QED BY <1>1, <2>2, <2>3, <2>4, <2>5
<1>7. ~out.panics
  BY DEF Outcome
<1>8. WroteBy(out, d + l, u)
  BY <1>1, <1>2, <1>6, <1>7 DEF WroteBy
<1> QED BY <1>1, <1>8 DEF MemWriteString, w, u

LEMMA StrcpyWrites ==
  ASSUME mem \in Memory, NEW d \in Nat, NEW s \in Nat, Ends(mem, s, StrMax)
  PROVE  WroteBy(Strcpy(d, s), d, Append(StrOf(mem, s), 0))
<1>1. MemReadString(s, StrMax) = StrOf(mem, s)
  BY Numbers, ReadsStr
<1> QED BY <1>1, WritesString DEF Strcpy

LEMMA SprintfWrites ==
  ASSUME mem \in Memory, NEW d \in Nat, NEW s \in Nat, Ends(mem, s, CmpMax)
  PROVE  WroteBy(Sprintf(d, s), d, Append(StrOf(mem, s), 0))
<1>1. MemReadString(s, CmpMax) = StrOf(mem, s)
  BY Numbers, ReadsStr
<1> QED BY <1>1, WritesString DEF Sprintf

LEMMA DestinationIsThere ==
  ASSUME mem \in Memory, NEW d \in Nat, Ends(mem, d, StrMax)
  PROVE  /\ StrOf(mem, d) \in Seq(Char)
         /\ Readable(d, Len(StrOf(mem, d)))
         /\ \A i \in 0..(Len(StrOf(mem, d)) - 1) :
              StrOf(mem, d)[i + 1] = mem[d + i]
         /\ MemReadString(d, StrMax) = StrOf(mem, d)
<1>1. StrMax \in Nat /\ 0 < StrMax /\ StrMax <= StrMax
  BY Numbers
<1>2. /\ StrOf(mem, d) \in Seq(Char)
      /\ Len(StrOf(mem, d)) \in 0..StrMax
      /\ \A i \in 0..(Len(StrOf(mem, d)) - 1) :
           StrOf(mem, d)[i + 1] = mem[d + i]
  BY <1>1, StrFacts
<1>3. Readable(d, Len(StrOf(mem, d)))
  <2>1. PICK l \in 0..StrMax : l = Len(StrOf(mem, d))
    BY <1>2
  <2>2. Readable(d, l)
    BY <1>1 DEF Ends, Readable
  <2> QED BY <2>1, <2>2
<1> QED BY <1>1, <1>2, <1>3, ReadsStr

LEMMA StrcatWrites ==
  ASSUME mem \in Memory, NEW d \in Nat, NEW s \in Nat,
         Ends(mem, s, StrMax), Ends(mem, d, StrMax)
  PROVE  WroteBy(Strcat(d, s), d + Len(StrOf(mem, d)), Append(StrOf(mem, s), 0))
<1>1. StrOf(mem, s) \in Seq(Char) /\ MemReadString(s, StrMax) = StrOf(mem, s)
  BY DestinationIsThere
<1> QED BY <1>1, DestinationIsThere, Appending DEF Strcat

\* What is read of at most n characters is not cut.
LEMMA NotCut ==
  ASSUME mem \in Memory, NEW s \in Nat, NEW n \in Nat, n > 0, Readable(s, n)
  PROVE  /\ MemReadString(s, n) = PartOf(mem, s, n)
         /\ Cut(MemReadString(s, n), n) = PartOf(mem, s, n)
         /\ PartOf(mem, s, n) \in Seq(Char)
         /\ Len(PartOf(mem, s, n)) \in 0..n
<1>1. MemReadString(s, n) = PartOf(mem, s, n)
  BY ReadsPart
<1>2. PartOf(mem, s, n) \in Seq(Char) /\ Len(PartOf(mem, s, n)) \in 0..n
  BY PartFacts
<1>3. ~(Len(PartOf(mem, s, n)) > n)
  BY <1>2
<1> QED BY <1>1, <1>2, <1>3 DEF Cut

LEMMA StrncatWrites ==
  ASSUME mem \in Memory, NEW d \in Nat, NEW s \in Nat, NEW n \in Nat,
         n < RegSize, Small(n), n > 0, Readable(s, n), Ends(mem, d, StrMax)
  PROVE  WroteBy(Strncat(d, s, n), d + Len(StrOf(mem, d)),
                 Append(PartOf(mem, s, n), 0))
<1>1. ~(AsInt(n) < 0)
  BY SizeAsInt
<1>2. Strncat(d, s, n) =
        Outcome(d, MemWriteString(d, StrOf(mem, d) \o PartOf(mem, s, n)))
  BY <1>1, NotCut, DestinationIsThere DEF Strncat
<1>3. PartOf(mem, s, n) \in Seq(Char)
  BY NotCut
<1> QED BY <1>2, <1>3, DestinationIsThere, Appending

LEMMA StrncpyWrites ==
  ASSUME mem \in Memory, NEW d \in Nat, NEW s \in Nat, NEW n \in Nat,
         n < RegSize, Small(n), n > 0, Readable(s, n), Readable(d, n + 1)
  PROVE  LET out == Strncpy(d, s, n)
             str == PartOf(mem, s, n)
         IN  /\ ~out.panics
             /\ \A i \in 1..n :
                  out.mem[d + i - 1] = IF i <= Len(str) THEN str[i] ELSE 0
<1> DEFINE str == PartOf(mem, s, n)
           pad == [i \in 1..n |-> IF i <= Len(str) THEN str[i] ELSE 0]
<1>1. AsInt(n) = n
  BY SizeAsInt
<1>2. MemReadString(s, n) = str /\ str \in Seq(Char) /\ Len(str) \in 0..n
  BY NotCut
<1> HIDE DEF str
<1>3. \A i \in 1..n : d + i - 1 \in Mapped /\ (d + i - 1) - d + 1 = i
                      /\ d + i - 1 \in d..(d + n - 1) /\ d + i - 1 \in d..(d + n)
  BY DEF Readable
<1>4. CASE Len(str) < n
  <2>1. Strncpy(d, s, n) = Outcome(d, MemWrite(d, pad))
    BY <1>1, <1>2, <1>4 DEF Strncpy
  <2>2. WroteBy(Outcome(d, MemWrite(d, pad)), d, pad)
    BY WritesIt
  <2>3. Len(pad) = n /\ \A i \in 1..n :
                          pad[i] = IF i <= Len(str) THEN str[i] ELSE 0
    OBVIOUS
  <2> HIDE DEF pad
  <2>4. Readable(d, n)
    BY DEF Readable
  <2> DEFINE out == Outcome(d, MemWrite(d, pad))
  <2>5. ~out.panics /\ \A c \in Mapped :
          out.mem[c] = IF c \in d..(d + n - 1) THEN pad[c - d + 1] ELSE mem[c]
    BY <2>2, <2>3, <2>4 DEF WroteBy
  <2> HIDE DEF out
  <2>6. \A i \in 1..n : out.mem[d + i - 1] = pad[i]
    BY <1>3, <2>5
  <2>7. Strncpy(d, s, n) = out
    BY <2>1 DEF out
  <2> QED BY <2>3, <2>5, <2>6, <2>7 DEF str
<1>5. CASE ~(Len(str) < n)
  <2>1. Strncpy(d, s, n) = Outcome(d, MemWriteString(d, Prefix(str, n)))
    BY <1>1, <1>2, <1>5 DEF Strncpy
  <2>2. /\ Prefix(str, n) \in Seq(Char) /\ Len(Prefix(str, n)) = n
        /\ \A i \in 1..n : Prefix(str, n)[i] = str[i]
    <3>1. n <= Len(str)
      BY <1>2, <1>5
    <3> QED BY <1>2, <3>1, PrefixType
  <2> DEFINE w == Append(Prefix(str, n), 0)
             out == Outcome(d, MemWriteString(d, Prefix(str, n)))
  <2>3. WroteBy(out, d, w)
    BY WritesString
  <2>4. Len(w) = n + 1 /\ \A i \in 1..n : w[i] = str[i]
    <3>1. 0 \in Char
      BY Addresses
    <3>2. /\ Len(w) = Len(Prefix(str, n)) + 1
          /\ \A i \in 1..Len(Prefix(str, n)) : w[i] = Prefix(str, n)[i]
      BY <2>2, <3>1, AppendProperties
    <3> HIDE DEF w
    <3> QED BY <2>2, <3>2
  <2> HIDE DEF w, out
  <2>5. ~out.panics /\ \A c \in Mapped :
          out.mem[c] = IF c \in d..(d + (n + 1) - 1) THEN w[c - d + 1] ELSE mem[c]
    BY <2>3, <2>4 DEF WroteBy
  <2>6. ASSUME NEW i \in 1..n PROVE out.mem[d + i - 1] = w[i]
    <3>1. /\ d + i - 1 \in Mapped /\ d + i - 1 \in d..(d + (n + 1) - 1)
          /\ (d + i - 1) - d + 1 = i
      BY <1>3
    <3> QED BY <2>5, <3>1
  <2>7. Strncpy(d, s, n) = out
    BY <2>1 DEF out
  <2>8. \A i \in 1..n : i <= Len(str)
    BY <1>2, <1>5
  <2> QED BY <2>4, <2>5, <2>6, <2>7, <2>8 DEF str
<1> QED BY <1>4, <1>5

LEMMA WritesNothing ==
  ASSUME mem \in Memory, NEW ret, NEW a \in Nat, NEW t, Len(t) = 0
  PROVE  WroteBy(Outcome(ret, mem), a, t)
BY DEF WroteBy, Outcome

LEMMA MemoryOpsWrite ==
  ASSUME mem \in Memory, NEW d \in Nat, NEW s \in Nat, NEW n \in Nat, NEW c,
         n < OpMax
  PROVE  /\ Readable(s, n) => WroteBy(Memcpy(d, s, n), d, Bytes(mem, s, n))
         /\ WroteBy(Memset(d, c, n), d, [i \in 1..n |-> c])
<1>1. CASE n = 0
  <2>1. Len(Bytes(mem, s, n)) = 0 /\ Len([i \in 1..n |-> c]) = 0
    BY <1>1, BytesFacts
  <2>2. n \notin 1..(OpMax - 1)
    BY <1>1
  <2>3. Memcpy(d, s, n) = Outcome(d, mem) /\ Memset(d, c, n) = Outcome(d, mem)
    BY <2>2 DEF Memcpy, Memset
  <2> QED BY <2>1, <2>3, WritesNothing
<1>2. CASE n # 0
  <2>1. n \in 1..(OpMax - 1)
    BY <1>2, Numbers
  <2>2. Readable(s, n) => Memcpy(d, s, n) = Outcome(d, MemWrite(d, Bytes(mem, s, n)))
    BY <2>1 DEF Memcpy
  <2>3. Memset(d, c, n) = Outcome(d, MemWrite(d, [i \in 1..n |-> c]))
    BY <2>1 DEF Memset
  <2> QED BY <2>2, <2>3, WritesIt
<1> QED BY <1>1, <1>2

LEMMA DupWrites ==
  ASSUME mem \in Memory, heapPtr = HeapBase, NEW str \in Seq(Char),
         HeapHas(Len(str))
  PROVE  WroteBy(Dup(str), HeapBase, Append(str, 0)) /\ Dup(str).ret = HeapBase
<1> DEFINE top == heapPtr + ((Len(str) + Align) \div Align) * Align
           out == Outcome(heapPtr, MemWriteString(heapPtr, str))
<1>1. ~(top >= HeapEnd)
  <2>1. Len(str) \in Nat /\ heapPtr \in Nat
    BY Numbers
  <2>2. top \in Nat /\ top <= heapPtr + Len(str) + Align
    BY <2>1, RoundedUp
  <2> HIDE DEF top
  <2> QED BY <2>1, <2>2, Numbers DEF HeapHas
<1>2. Dup(str) = [out EXCEPT !.heap = top]
  BY <1>1 DEF Dup
<1> HIDE DEF top
<1>3. WroteBy(out, HeapBase, Append(str, 0))
  BY WritesString
<1>4. /\ Dup(str).panics = out.panics /\ Dup(str).mem = out.mem
      /\ Dup(str).ret = HeapBase
  BY <1>2 DEF Outcome
<1> HIDE DEF out
<1> QED BY <1>3, <1>4 DEF WroteBy

LEMMA StrdupWrites ==
  ASSUME mem \in Memory, heapPtr = HeapBase, NEW s \in Nat,
         Ends(mem, s, StrMax), HeapHas(Len(StrOf(mem, s)))
  PROVE  /\ WroteBy(Strdup(s), HeapBase, Append(StrOf(mem, s), 0))
         /\ Strdup(s).ret = HeapBase
BY DestinationIsThere, DupWrites DEF Strdup

LEMMA StrndupWrites ==
  ASSUME mem \in Memory, heapPtr = HeapBase, NEW s \in Nat, NEW n \in Nat,
         n < RegSize, Small(n), n > 0, Readable(s, n),
         HeapHas(Len(PartOf(mem, s, n)))
  PROVE  /\ WroteBy(Strndup(s, n), HeapBase, Append(PartOf(mem, s, n), 0))
         /\ Strndup(s, n).ret = HeapBase
<1>1. ~(AsInt(n) < 0)
  BY SizeAsInt
<1>2. Strndup(s, n) = Dup(PartOf(mem, s, n)) /\ PartOf(mem, s, n) \in Seq(Char)
  BY <1>1, NotCut DEF Strndup
<1> QED BY <1>2, DupWrites

\* The part of n - 1 characters is the part of n, cut where it is that long.
LEMMA ShorterPart ==
  ASSUME mem \in Memory, NEW s \in Nat, NEW n \in Nat, n > 0, Readable(s, n)
  PROVE  LET str == PartOf(mem, s, n)
         IN  PartOf(mem, s, n - 1) = IF Len(str) >= n THEN Prefix(str, n - 1)
                                                      ELSE str
<1> DEFINE str == PartOf(mem, s, n)
<1>1. PICK l \in 0..n : /\ str = Bytes(mem, s, l)
                        /\ \A i \in 0..(l - 1) : mem[s + i] # 0
                        /\ l < n => mem[s + l] = 0
  BY PartIsRead DEF IsRead
<1>2. l \in Nat /\ n - 1 \in Nat /\ Readable(s, l) /\ Readable(s, n - 1)
  BY DEF Readable
<1>3. Len(str) = l
  BY <1>1, <1>2, BytesFacts
<1>4. IsRead(mem, s, n - 1, PartOf(mem, s, n - 1))
  BY <1>2, PartIsRead
<1> HIDE DEF str
<1>5. CASE l < n
  <2>1. l \in 0..(n - 1) /\ (l < n - 1 => mem[s + l] = 0)
    BY <1>1, <1>5
  <2>2. IsRead(mem, s, n - 1, str)
    BY <1>1, <2>1 DEF IsRead
  <2>3. PartOf(mem, s, n - 1) = str
    BY <1>2, <1>4, <2>2, ReadIsUnique
  <2> QED BY <1>3, <1>5, <2>3 DEF str
<1>6. CASE ~(l < n)
  <2>1. l = n
    BY <1>1, <1>6
  <2>2. n - 1 \in 0..(n - 1) /\ \A i \in 0..((n - 1) - 1) : mem[s + i] # 0
    BY <1>1, <2>1
  <2>3. IsRead(mem, s, n - 1, Bytes(mem, s, n - 1))
    BY <2>2 DEF IsRead
  <2>4. PartOf(mem, s, n - 1) = Bytes(mem, s, n - 1)
    BY <1>2, <1>4, <2>3, ReadIsUnique
  <2>5. /\ str \in Seq(Char) /\ Bytes(mem, s, n - 1) \in Seq(Char)
        /\ \A i \in 1..n : str[i] = mem[s + i - 1]
        /\ \A i \in 1..(n - 1) : Bytes(mem, s, n - 1)[i] = mem[s + i - 1]
        /\ Len(Bytes(mem, s, n - 1)) = n - 1
    BY <1>1, <1>2, <2>1, BytesFacts, BytesType
  <2>6. /\ Prefix(str, n - 1) \in Seq(Char) /\ Len(Prefix(str, n - 1)) = n - 1
        /\ \A i \in 1..(n - 1) : Prefix(str, n - 1)[i] = str[i]
    BY <1>2, <1>3, <2>1, <2>5, PrefixType
  <2>7. Prefix(str, n - 1) = Bytes(mem, s, n - 1)
    <3> DEFINE u == Prefix(str, n - 1)
               v == Bytes(mem, s, n - 1)
    <3>1. u \in Seq(Char) /\ v \in Seq(Char) /\ Len(u) = Len(v)
          /\ \A i \in 1..Len(u) : u[i] = v[i]
      BY <1>2, <2>5, <2>6
    <3> HIDE DEF u, v
    <3>2. u = v
      BY <3>1, SeqEqual
    <3> QED BY <3>2 DEF u, v
  <2> QED BY <1>3, <2>1, <2>4, <2>7 DEF str
<1> QED BY <1>1, <1>5, <1>6

LEMMA SnprintfWrites ==
  ASSUME mem \in Memory, NEW d \in Nat, NEW s \in Nat, NEW n \in Nat,
         n < RegSize, Small(n), n > 0, Readable(s, n)
  PROVE  /\ WroteBy(Snprintf(d, n, s), d, Append(PartOf(mem, s, n - 1), 0))
         /\ Len(PartOf(mem, s, n)) < n =>
              Snprintf(d, n, s).ret = Len(PartOf(mem, s, n))
<1>1. AsInt(n) = n /\ n # 0
  BY SizeAsInt
<1> DEFINE out == PartOf(mem, s, n - 1)
<1>2. Snprintf(d, n, s) = Outcome(Len(out), MemWriteString(d, out))
  <2> DEFINE str == PartOf(mem, s, n)
  <2>1. MemReadString(s, AsInt(n)) = str
    BY <1>1, NotCut
  <2>2. out = IF Len(str) >= n THEN Prefix(str, n - 1) ELSE str
    BY ShorterPart
  <2> HIDE DEF str, out
  <2> QED BY <1>1, <2>1, <2>2 DEF Snprintf
<1>3. Len(PartOf(mem, s, n)) < n => out = PartOf(mem, s, n)
  <2>1. Len(PartOf(mem, s, n)) \in 0..n
    BY NotCut
  <2>2. out = IF Len(PartOf(mem, s, n)) >= n
                THEN Prefix(PartOf(mem, s, n), n - 1) ELSE PartOf(mem, s, n)
    BY ShorterPart
  <2> HIDE DEF out
  <2>3. Len(PartOf(mem, s, n)) < n => ~(Len(PartOf(mem, s, n)) >= n)
    BY <2>1
  <2> QED BY <2>2, <2>3
<1> HIDE DEF out
<1>4. Snprintf(d, n, s).ret = Len(out)
  BY <1>2 DEF Outcome
<1>5. WroteBy(Snprintf(d, n, s), d, Append(out, 0))
  BY <1>2, WritesString
<1> QED BY <1>3, <1>4, <1>5 DEF out

-----------------------------------------------------------------------------
(***************************************************************************)
(* What the stubs that compare and search answer, next to memory.          *)
(***************************************************************************)
SignOf(x, y) ==
  IF x - y < 0 THEN RegSize - 1 ELSE IF x - y > 0 THEN 1 ELSE 0

LEMMA LessIsAsymmetric ==
  ASSUME NEW s \in Seq(Char), NEW t \in Seq(Char), Less(s, t)
  PROVE  ~Less(t, s)
<1> SUFFICES ASSUME Less(t, s) PROVE FALSE
  OBVIOUS
<1>1. Len(s) \in Nat /\ Len(t) \in Nat
  OBVIOUS
<1>2. PICK k \in 0..Len(s) : /\ k < Len(t)
                             /\ \A i \in 1..k : s[i] = t[i]
                             /\ k < Len(s) => s[k + 1] < t[k + 1]
  BY DEF Less
<1>3. PICK l \in 0..Len(t) : /\ l < Len(s)
                             /\ \A i \in 1..l : t[i] = s[i]
                             /\ l < Len(t) => t[l + 1] < s[l + 1]
  BY DEF Less
<1>0. \A c \in Char : c \in Nat
  BY Addresses
<1>4. \A c \in 1..Len(s) : s[c] \in Nat
  <2>1. \A c \in 1..Len(s) : s[c] \in Char
    OBVIOUS
  <2> QED BY <1>0, <2>1
<1>5. \A c \in 1..Len(t) : t[c] \in Nat
  <2>1. \A c \in 1..Len(t) : t[c] \in Char
    OBVIOUS
  <2> QED BY <1>0, <2>1
<1>6. CASE k < l
  <2>1. k + 1 \in 1..l /\ k < Len(s) /\ k + 1 \in 1..Len(s)
    BY <1>1, <1>2, <1>3, <1>6
  <2> QED BY <1>2, <1>3, <1>4, <2>1
<1>7. CASE l < k
  <2>1. l + 1 \in 1..k /\ l < Len(t) /\ l + 1 \in 1..Len(t)
    BY <1>1, <1>2, <1>3, <1>7
  <2> QED BY <1>2, <1>3, <1>5, <2>1
<1>8. CASE k = l
  <2>1. k + 1 \in 1..Len(s) /\ k + 1 \in 1..Len(t)
    BY <1>1, <1>2, <1>3, <1>8
  <2> QED BY <1>2, <1>3, <1>4, <1>5, <1>8, <2>1
<1> QED BY <1>2, <1>3, <1>6, <1>7, <1>8

LEMMA SignAnswers ==
  ASSUME NEW s, NEW t
  PROVE  /\ ~Sign(s, t).panics
         /\ Sign(s, t).ret = IF Less(s, t) THEN RegSize - 1
                             ELSE IF Less(t, s) THEN 1 ELSE 0
BY DEF Sign, Answer, Outcome

\* The strings part at k, with x in one and y in the other.
PartAt(s, t, k, x, y) ==
  /\ k <= Len(s) /\ k <= Len(t) /\ \A i \in 1..k : s[i] = t[i]
  /\ IF k < Len(s) THEN x = s[k + 1] ELSE x = 0
  /\ IF k < Len(t) THEN y = t[k + 1] ELSE y = 0
  /\ x = y => k = Len(s) /\ k = Len(t)

\* The sign of a comparison is that of x - y there.
LEMMA SignAt ==
  ASSUME NEW s \in Seq(Char), NEW t \in Seq(Char), NEW k \in Nat,
         NEW x \in Nat, NEW y \in Nat, PartAt(s, t, k, x, y)
  PROVE  ~Sign(s, t).panics /\ Sign(s, t).ret = SignOf(x, y)
<1>0. /\ k <= Len(s) /\ k <= Len(t) /\ \A i \in 1..k : s[i] = t[i]
      /\ k < Len(s) => x = s[k + 1]
      /\ ~(k < Len(s)) => x = 0
      /\ k < Len(t) => y = t[k + 1]
      /\ ~(k < Len(t)) => y = 0
      /\ x = y => k = Len(s) /\ k = Len(t)
  BY DEF PartAt
<1>1. Len(s) \in Nat /\ Len(t) \in Nat
  OBVIOUS
<1>2. CASE x < y
  <2>1. k < Len(t) /\ k \in 0..Len(s)
    BY <1>0, <1>1, <1>2
  <2>2. Less(s, t)
    BY <1>0, <1>2, <2>1 DEF Less
  <2>3. SignOf(x, y) = RegSize - 1
    BY <1>2 DEF SignOf
  <2> QED BY <2>2, <2>3, SignAnswers
<1>3. CASE y < x
  <2>1. k < Len(s) /\ k \in 0..Len(t)
    BY <1>0, <1>1, <1>3
  <2>2. Less(t, s)
    BY <1>0, <1>3, <2>1 DEF Less
  <2>3. ~Less(s, t)
    BY <2>2, LessIsAsymmetric
  <2>4. SignOf(x, y) = 1
    BY <1>3 DEF SignOf
  <2> QED BY <2>2, <2>3, <2>4, SignAnswers
<1>4. CASE x = y
  <2>1. s = t
    BY <1>0, <1>1, <1>4, SeqEqual
  <2>2. ~Less(s, t) /\ ~Less(t, s)
    BY <2>1, LessIsAsymmetric
  <2>3. SignOf(x, y) = 0
    BY <1>4 DEF SignOf
  <2> QED BY <2>2, <2>3, SignAnswers
<1> QED BY <1>2, <1>3, <1>4

CompareBy(out, a, b, n, strings) ==
  LET stops == {i \in 0..(n - 1) : \/ mem[a + i] # mem[b + i]
                                   \/ strings /\ mem[a + i] = 0}
      at    == CHOOSE i \in stops : \A j \in stops : i <= j
      diff  == IF stops = {} THEN 0 ELSE mem[a + at] - mem[b + at]
  IN  ~out.panics /\ out.ret = IF diff < 0 THEN RegSize - 1
                               ELSE IF diff > 0 THEN 1 ELSE 0

Stops(a, b, strings, i) == \/ mem[a + i] # mem[b + i]
                           \/ strings /\ mem[a + i] = 0

\* A comparison stops at some first place or nowhere.
LEMMA FirstOrNone ==
  ASSUME NEW a \in Nat, NEW b \in Nat, NEW n \in Nat, NEW strings \in BOOLEAN
  PROVE  \/ \A i \in 0..(n - 1) : ~Stops(a, b, strings, i)
         \/ \E k \in 0..(n - 1) :
              /\ Stops(a, b, strings, k)
              /\ \A i \in 0..(k - 1) : ~Stops(a, b, strings, i)
<1> DEFINE S == {i \in 0..(n - 1) : Stops(a, b, strings, i)}
<1> SUFFICES ASSUME NEW z \in 0..(n - 1), Stops(a, b, strings, z)
             PROVE  \E k \in 0..(n - 1) :
                      /\ Stops(a, b, strings, k)
                      /\ \A i \in 0..(k - 1) : ~Stops(a, b, strings, i)
  OBVIOUS
<1>1. S \in SUBSET Nat /\ z \in S
  OBVIOUS
<1>2. PICK k \in S : \A j \in S : k <= j
  <2> HIDE DEF S
  <2> QED BY <1>1, LeastNumber
<1>3. k \in 0..(n - 1) /\ Stops(a, b, strings, k)
  BY <1>2
<1>4. ASSUME NEW i \in 0..(k - 1), Stops(a, b, strings, i) PROVE FALSE
  <2>1. i \in S /\ ~(k <= i)
    BY <1>3, <1>4
  <2> QED BY <1>2, <2>1
<1> QED BY <1>3, <1>4

LEMMA NeverStops ==
  ASSUME NEW a, NEW b, NEW n \in Nat, NEW strings, NEW out,
         \A i \in 0..(n - 1) : ~Stops(a, b, strings, i),
         ~out.panics, out.ret = 0
  PROVE  CompareBy(out, a, b, n, strings)
<1> DEFINE stops == {i \in 0..(n - 1) : \/ mem[a + i] # mem[b + i]
                                        \/ strings /\ mem[a + i] = 0}
           at    == CHOOSE i \in stops : \A j \in stops : i <= j
           diff  == IF stops = {} THEN 0 ELSE mem[a + at] - mem[b + at]
<1>1. stops = {}
  BY DEF Stops
<1> HIDE DEF stops
<1>2. diff = 0
  BY <1>1
<1> HIDE DEF diff
<1>3. CompareBy(out, a, b, n, strings) <=>
        ~out.panics /\ out.ret = IF diff < 0 THEN RegSize - 1
                                 ELSE IF diff > 0 THEN 1 ELSE 0
  BY Zenon DEF CompareBy, diff, stops
<1>4. (IF diff < 0 THEN RegSize - 1 ELSE IF diff > 0 THEN 1 ELSE 0) = 0
  BY <1>2
<1> QED BY <1>3, <1>4

LEMMA StopsFirstAt ==
  ASSUME NEW a \in Nat, NEW b \in Nat, NEW n \in Nat, NEW strings, NEW out,
         NEW k \in 0..(n - 1), Stops(a, b, strings, k),
         \A i \in 0..(k - 1) : ~Stops(a, b, strings, i),
         ~out.panics, out.ret = SignOf(mem[a + k], mem[b + k])
  PROVE  CompareBy(out, a, b, n, strings)
<1> DEFINE stops == {i \in 0..(n - 1) : \/ mem[a + i] # mem[b + i]
                                        \/ strings /\ mem[a + i] = 0}
           at    == CHOOSE i \in stops : \A j \in stops : i <= j
           diff  == IF stops = {} THEN 0 ELSE mem[a + at] - mem[b + at]
<1>1. \A i : i \in stops <=> i \in 0..(n - 1) /\ Stops(a, b, strings, i)
  BY DEF Stops
<1> HIDE DEF stops
<1>2. k \in stops
  BY <1>1
<1>3. ASSUME NEW j \in stops PROVE k <= j /\ j \in Nat
  <2>1. j \in 0..(n - 1) /\ Stops(a, b, strings, j)
    BY <1>1
  <2>2. j \notin 0..(k - 1)
    BY <2>1
  <2> QED BY <2>1, <2>2
<1>4. at \in stops /\ \A j \in stops : at <= j
  BY <1>2, <1>3
<1> HIDE DEF at
<1>5. at = k
  BY <1>2, <1>3, <1>4
<1>6. diff = mem[a + k] - mem[b + k]
  BY <1>2, <1>5
<1> HIDE DEF diff
<1>7. CompareBy(out, a, b, n, strings) <=>
        ~out.panics /\ out.ret = IF diff < 0 THEN RegSize - 1
                                 ELSE IF diff > 0 THEN 1 ELSE 0
  BY Zenon DEF CompareBy, diff, at, stops
<1> QED BY <1>6, <1>7 DEF SignOf

LEMMA SameSign ==
  ASSUME NEW s \in Seq(Char), NEW t \in Seq(Char), Len(s) = Len(t),
         \A i \in 0..(Len(s) - 1) : s[i + 1] = t[i + 1]
  PROVE  ~Sign(s, t).panics /\ Sign(s, t).ret = 0
<1>1. ASSUME NEW i \in 1..Len(s) PROVE s[i] = t[i]
  <2>1. PICK j \in 0..(Len(s) - 1) : i = j + 1
    <3>1. i - 1 \in 0..(Len(s) - 1) /\ i = (i - 1) + 1
      OBVIOUS
    <3> QED BY <3>1
  <2> QED BY <2>1
<1>2. s = t
  BY <1>1, SeqEqual
<1>3. ~Less(s, s)
  BY LessIsAsymmetric
<1> QED BY <1>2, <1>3, SignAnswers

LEMMA SamePrefix ==
  ASSUME NEW s, NEW t, NEW k \in Nat,
         \A i \in 0..(k - 1) : s[i + 1] = t[i + 1]
  PROVE  \A i \in 1..k : s[i] = t[i]
<1>1. ASSUME NEW i \in 1..k PROVE s[i] = t[i]
  <2>1. PICK j \in 0..(k - 1) : i = j + 1
    <3>1. i - 1 \in 0..(k - 1) /\ i = (i - 1) + 1
      OBVIOUS
    <3> QED BY <3>1
  <2> QED BY <2>1
<1> QED BY <1>1

LEMMA ComparesStrings ==
  ASSUME mem \in Memory, NEW a \in Nat, NEW b \in Nat, NEW n \in Nat,
         NEW s \in Seq(Char), NEW t \in Seq(Char),
         IsRead(mem, a, n, s), IsRead(mem, b, n, t)
  PROVE  CompareBy(Sign(s, t), a, b, n, TRUE)
<1>1. PICK p \in 0..n : /\ s = Bytes(mem, a, p)
                        /\ \A i \in 0..(p - 1) : mem[a + i] # 0
                        /\ p < n => mem[a + p] = 0
  BY DEF IsRead
<1>2. PICK q \in 0..n : /\ t = Bytes(mem, b, q)
                        /\ \A i \in 0..(q - 1) : mem[b + i] # 0
                        /\ q < n => mem[b + q] = 0
  BY DEF IsRead
<1>3. /\ Len(s) = p /\ \A i \in 1..p : s[i] = mem[a + i - 1]
      /\ Len(t) = q /\ \A i \in 1..q : t[i] = mem[b + i - 1]
  <2>1. p \in Nat /\ q \in Nat
    OBVIOUS
  <2>2. Len(s) = p /\ \A i \in 1..p : s[i] = mem[a + i - 1]
    BY <1>1, <2>1, BytesFacts
  <2>3. Len(t) = q /\ \A i \in 1..q : t[i] = mem[b + i - 1]
    BY <1>2, <2>1, BytesFacts
  <2> QED BY <2>2, <2>3
<1>4. /\ \A i \in 0..(p - 1) : s[i + 1] = mem[a + i] /\ s[i + 1] \in Nat
      /\ \A i \in 0..(q - 1) : t[i + 1] = mem[b + i] /\ t[i + 1] \in Nat
  <2>0. \A c \in Char : c \in Nat
    BY Addresses
  <2>1. \A i \in 0..(p - 1) : i + 1 \in 1..p /\ a + (i + 1) - 1 = a + i
    OBVIOUS
  <2>2. \A i \in 0..(q - 1) : i + 1 \in 1..q /\ b + (i + 1) - 1 = b + i
    OBVIOUS
  <2>3. \A i \in 1..p : s[i] \in Char
    BY <1>3
  <2>4. \A i \in 1..q : t[i] \in Char
    BY <1>3
  <2> QED BY <1>3, <2>0, <2>1, <2>2, <2>3, <2>4
<1>5. CASE \A i \in 0..(n - 1) : ~Stops(a, b, TRUE, i)
  <2>0. \A i \in 0..(n - 1) : mem[a + i] = mem[b + i] /\ mem[a + i] # 0
    BY <1>5 DEF Stops
  <2>1. p = n /\ q = n
    BY <1>1, <1>2, <2>0
  <2>2. \A i \in 0..(n - 1) : s[i + 1] = t[i + 1]
    BY <1>4, <2>0, <2>1
  <2>3. ~Sign(s, t).panics /\ Sign(s, t).ret = 0
    BY <1>3, <2>1, <2>2, SameSign
  <2> QED BY <1>5, <2>3, NeverStops
<1>6. CASE \E k \in 0..(n - 1) : /\ Stops(a, b, TRUE, k)
                                 /\ \A i \in 0..(k - 1) : ~Stops(a, b, TRUE, i)
  <2>0. PICK k \in 0..(n - 1) : /\ Stops(a, b, TRUE, k)
                                /\ \A i \in 0..(k - 1) : ~Stops(a, b, TRUE, i)
    BY <1>6
  <2>1. /\ mem[a + k] # mem[b + k] \/ mem[a + k] = 0
        /\ \A i \in 0..(k - 1) : mem[a + i] = mem[b + i] /\ mem[a + i] # 0
    BY <2>0 DEF Stops
  <2>2. k \in Nat /\ k <= p /\ k <= q
    BY <1>1, <1>2, <2>1
  <2>3. \A i \in 0..(k - 1) : i \in 0..(p - 1) /\ i \in 0..(q - 1)
    BY <2>2
  <2>4. \A i \in 1..k : s[i] = t[i]
    <3>1. \A i \in 0..(k - 1) : s[i + 1] = t[i + 1]
      BY <1>4, <2>1, <2>3
    <3> QED BY <2>2, <3>1, SamePrefix
  <2>5. IF k < p THEN mem[a + k] = s[k + 1] /\ mem[a + k] \in Nat
                 ELSE mem[a + k] = 0
    BY <1>1, <1>4, <2>2
  <2>6. IF k < q THEN mem[b + k] = t[k + 1] /\ mem[b + k] \in Nat
                 ELSE mem[b + k] = 0
    BY <1>2, <1>4, <2>2
  <2>7. mem[a + k] = mem[b + k] => k = p /\ k = q
    BY <1>1, <1>2, <2>1, <2>2
  <2>8. PICK x \in Nat, y \in Nat : x = mem[a + k] /\ y = mem[b + k]
    BY <2>5, <2>6
  <2>9. ~Sign(s, t).panics /\ Sign(s, t).ret = SignOf(x, y)
    <3>1. PartAt(s, t, k, x, y)
      BY <1>3, <2>2, <2>4, <2>5, <2>6, <2>7, <2>8 DEF PartAt
    <3> QED BY <2>2, <2>8, <3>1, SignAt
  <2> QED BY <2>0, <2>8, <2>9, StopsFirstAt
<1> QED BY <1>5, <1>6, FirstOrNone

LEMMA MemcmpAnswers ==
  ASSUME mem \in Memory, NEW a \in Nat, NEW b \in Nat, NEW n \in Nat,
         n < OpMax, Readable(a, n), Readable(b, n)
  PROVE  CompareBy(Memcmp(a, b, n), a, b, n, FALSE)
<1> DEFINE s == Bytes(mem, a, n)
           t == Bytes(mem, b, n)
<1>1. /\ s \in Seq(Char) /\ t \in Seq(Char) /\ Len(s) = n /\ Len(t) = n
      /\ \A i \in 1..n : s[i] = mem[a + i - 1]
      /\ \A i \in 1..n : t[i] = mem[b + i - 1]
  BY BytesFacts, BytesType
<1>2. /\ n = 0 => Memcmp(a, b, n) = Answer(0)
      /\ n # 0 => Memcmp(a, b, n) = Sign(s, t)
  <2>1. n # 0 => n \in 1..(OpMax - 1)
    BY Numbers
  <2>2. n = 0 => n \notin 1..(OpMax - 1)
    OBVIOUS
  <2> QED BY <2>1, <2>2, Zenon DEF Memcmp, s, t
<1> HIDE DEF s, t
<1>3. \A i \in 0..(n - 1) : /\ s[i + 1] = mem[a + i] /\ s[i + 1] \in Nat
                            /\ t[i + 1] = mem[b + i] /\ t[i + 1] \in Nat
  <2>0. \A c \in Char : c \in Nat
    BY Addresses
  <2>1. \A i \in 0..(n - 1) : /\ i + 1 \in 1..n /\ a + (i + 1) - 1 = a + i
                              /\ b + (i + 1) - 1 = b + i
    OBVIOUS
  <2>2. \A i \in 1..n : s[i] \in Char /\ t[i] \in Char
    BY <1>1
  <2> QED BY <1>1, <2>0, <2>1, <2>2
<1>4. CASE \A i \in 0..(n - 1) : ~Stops(a, b, FALSE, i)
  <2>1. ~Memcmp(a, b, n).panics /\ Memcmp(a, b, n).ret = 0
    <3>1. CASE n = 0
      BY <1>2, <3>1 DEF Answer, Outcome
    <3>2. CASE n # 0
      <4>1. \A i \in 0..(n - 1) : s[i + 1] = t[i + 1]
        BY <1>3, <1>4 DEF Stops
      <4>2. ~Sign(s, t).panics /\ Sign(s, t).ret = 0
        BY <1>1, <4>1, SameSign
      <4> QED BY <1>2, <3>2, <4>2
    <3> QED BY <3>1, <3>2
  <2> QED BY <1>4, <2>1, NeverStops
<1>5. CASE \E k \in 0..(n - 1) : /\ Stops(a, b, FALSE, k)
                                 /\ \A i \in 0..(k - 1) : ~Stops(a, b, FALSE, i)
  <2>1. PICK k \in 0..(n - 1) : /\ Stops(a, b, FALSE, k)
                                /\ \A i \in 0..(k - 1) : ~Stops(a, b, FALSE, i)
    BY <1>5
  <2>2. k \in Nat /\ k < n /\ n # 0
    BY <2>1
  <2>3. \A i \in 0..(k - 1) : i \in 0..(n - 1) /\ mem[a + i] = mem[b + i]
    BY <2>1, <2>2 DEF Stops
  <2>4. \A i \in 1..k : s[i] = t[i]
    <3>1. \A i \in 0..(k - 1) : s[i + 1] = t[i + 1]
      BY <1>3, <2>3
    <3> QED BY <2>2, <3>1, SamePrefix
  <2>5. PICK x \in Nat, y \in Nat : x = s[k + 1] /\ y = t[k + 1]
    BY <1>3, <2>1
  <2>6. x = mem[a + k] /\ y = mem[b + k] /\ x # y
    BY <1>3, <2>1, <2>5 DEF Stops
  <2>7. ~Sign(s, t).panics /\ Sign(s, t).ret = SignOf(x, y)
    <3>1. PartAt(s, t, k, x, y)
      BY <1>1, <2>2, <2>4, <2>5, <2>6 DEF PartAt
    <3> QED BY <1>1, <2>2, <2>5, <3>1, SignAt
  <2> QED BY <1>2, <2>1, <2>2, <2>6, <2>7, StopsFirstAt
<1> QED BY <1>4, <1>5, FirstOrNone

LEMMA StrcmpAnswers ==
  ASSUME mem \in Memory, NEW a \in Nat, NEW b \in Nat,
         Ends(mem, a, CmpMax), Ends(mem, b, CmpMax)
  PROVE  CompareBy(Strcmp(a, b), a, b, CmpMax + 1, TRUE)
<1>1. CmpMax \in Nat /\ 0 < CmpMax /\ CmpMax <= StrMax
  BY Numbers
<1>2. ASSUME NEW p \in Nat, Ends(mem, p, CmpMax)
      PROVE  /\ MemReadString(p, CmpMax) \in Seq(Char)
             /\ IsRead(mem, p, CmpMax + 1, MemReadString(p, CmpMax))
  <2>1. MemReadString(p, CmpMax) = StrOf(mem, p) /\ StrOf(mem, p) \in Seq(Char)
    BY <1>1, <1>2, ReadsStr, StrFacts
  <2>2. PICK l \in 0..CmpMax : /\ StrOf(mem, p) = Bytes(mem, p, l)
                               /\ \A i \in 0..(l - 1) : mem[p + i] # 0
                               /\ mem[p + l] = 0
    BY <1>1, <1>2, StrIsRead
  <2>3. l \in 0..(CmpMax + 1)
    BY <1>1
  <2> QED BY <2>1, <2>2, <2>3 DEF IsRead
<1>3. CmpMax + 1 \in Nat
  BY <1>1
<1> QED BY <1>2, <1>3, ComparesStrings DEF Strcmp

LEMMA StrncmpAnswers ==
  ASSUME mem \in Memory, NEW a \in Nat, NEW b \in Nat, NEW n \in Nat,
         n < RegSize, Small(n), Readable(a, n), Readable(b, n)
  PROVE  CompareBy(Strncmp(a, b, n), a, b, n, TRUE)
<1>1. ~(AsInt(n) < 0)
  BY SizeAsInt
<1>2. ASSUME NEW p \in Nat, Readable(p, n)
      PROVE  /\ Cut(MemReadString(p, n), n) \in Seq(Char)
             /\ IsRead(mem, p, n, Cut(MemReadString(p, n), n))
  <2>1. CASE n > 0
    <3>1. /\ Cut(MemReadString(p, n), n) = PartOf(mem, p, n)
          /\ PartOf(mem, p, n) \in Seq(Char)
      BY <1>2, <2>1, NotCut
    <3> QED BY <3>1, PartIsRead
  <2>2. CASE n = 0
    <3>1. MemReadString(p, n) \in Seq(Char)
      BY ReadType
    <3>2. Cut(MemReadString(p, n), n) \in Seq(Char)
      BY <3>1, CutType
    <3>3. Len(Cut(MemReadString(p, n), n)) = 0
      <4> DEFINE r == MemReadString(p, n)
      <4> HIDE DEF r
      <4>1. r \in Seq(Char) /\ Len(r) \in Nat
        BY <3>1 DEF r
      <4>2. CASE Len(r) > 0
        <5>1. Cut(r, n) = Prefix(r, n) /\ Len(Prefix(r, n)) = n
          BY <2>2, <4>1, <4>2, PrefixType DEF Cut
        <5> QED BY <2>2, <5>1 DEF r
      <4>3. CASE ~(Len(r) > 0)
        BY <2>2, <4>1, <4>3 DEF Cut, r
      <4> QED BY <4>2, <4>3
    <3>4. Bytes(mem, p, 0) = <<>>
      <4>1. Bytes(mem, p, 0) \in Seq(Char) /\ Len(Bytes(mem, p, 0)) = 0
        BY <1>2, <2>2, BytesType, BytesFacts
      <4> QED BY <4>1
    <3>5. Cut(MemReadString(p, n), n) = <<>>
      BY <3>2, <3>3
    <3> QED BY <2>2, <3>2, <3>4, <3>5 DEF IsRead
  <2> QED BY <2>1, <2>2
<1> QED BY <1>1, <1>2, ComparesStrings DEF Strncmp

LEMMA StrlenAnswers ==
  ASSUME mem \in Memory, NEW s \in Nat, Ends(mem, s, StrMax)
  PROVE  Strlen(s).ret = Len(StrOf(mem, s))
BY DestinationIsThere DEF Strlen, Answer, Outcome

FoundBy(out, places, first) ==
  /\ ~out.panics
  /\ IF places = {} THEN out.ret = 0
     ELSE /\ out.ret \in places
          /\ \A p \in places : IF first THEN out.ret <= p ELSE out.ret >= p

LEMMA AnswersIt ==
  ASSUME NEW ret PROVE ~Answer(ret).panics /\ Answer(ret).ret = ret
BY DEF Answer, Outcome

\* The places of a character in a string.
LEMMA PlacesOfChar ==
  ASSUME mem \in Memory, NEW a \in Nat, NEW c, Ends(mem, a, StrMax)
  PROVE  LET str    == StrOf(mem, a)
             places == {p \in a..(a + Len(str)) : mem[p] = c}
         IN  /\ Len(str) \in Nat
             /\ \A i \in 1..Len(str) : str[i] = c => a + i - 1 \in places
             /\ c = 0 => a + Len(str) \in places
             /\ \A p \in places : \/ c = 0 /\ p = a + Len(str)
                                  \/ c # 0 /\ \E i \in 1..Len(str) :
                                       str[i] = c /\ p = a + i - 1
<1> DEFINE str == StrOf(mem, a)
           places == {p \in a..(a + Len(str)) : mem[p] = c}
<1>1. /\ Len(str) \in Nat
      /\ \A i \in 0..(Len(str) - 1) : mem[a + i] # 0 /\ str[i + 1] = mem[a + i]
      /\ mem[a + Len(str)] = 0
  BY Numbers, StrFacts
<1> HIDE DEF str
<1>2. ASSUME NEW i \in 1..Len(str), str[i] = c PROVE a + i - 1 \in places
  <2>1. PICK j \in 0..(Len(str) - 1) : i = j + 1
    <3>1. i - 1 \in 0..(Len(str) - 1) /\ i = (i - 1) + 1
      BY <1>1
    <3> QED BY <3>1
  <2>2. mem[a + j] = c /\ a + j = a + i - 1 /\ a + j \in a..(a + Len(str))
    BY <1>1, <1>2, <2>1
  <2> QED BY <2>2
<1>3. c = 0 => a + Len(str) \in places
  BY <1>1
<1>4. ASSUME NEW p \in places
      PROVE  \/ c = 0 /\ p = a + Len(str)
             \/ c # 0 /\ \E i \in 1..Len(str) : str[i] = c /\ p = a + i - 1
  <2>1. p \in a..(a + Len(str)) /\ mem[p] = c
    OBVIOUS
  <2>2. CASE p = a + Len(str)
    BY <1>1, <2>1, <2>2
  <2>3. CASE p # a + Len(str)
    <3>1. PICK j \in 0..(Len(str) - 1) : p = a + j
      <4>1. p - a \in 0..(Len(str) - 1) /\ p = a + (p - a)
        BY <1>1, <2>1, <2>3
      <4> QED BY <4>1
    <3>2. j + 1 \in 1..Len(str) /\ str[j + 1] = c /\ p = a + (j + 1) - 1 /\ c # 0
      BY <1>1, <2>1, <3>1
    <3> QED BY <3>2
  <2> QED BY <2>2, <2>3
<1> HIDE DEF places
<1>5. /\ Len(str) \in Nat
      /\ \A i \in 1..Len(str) : str[i] = c => a + i - 1 \in places
      /\ c = 0 => a + Len(str) \in places
      /\ \A p \in places : \/ c = 0 /\ p = a + Len(str)
                           \/ c # 0 /\ \E i \in 1..Len(str) :
                                str[i] = c /\ p = a + i - 1
  BY <1>1, <1>2, <1>3, <1>4
<1> QED BY <1>5, Zenon DEF str, places

LEMMA StrchrAnswers ==
  ASSUME mem \in Memory, NEW a \in Nat, NEW c, Ends(mem, a, StrMax)
  PROVE  FoundBy(Strchr(a, c),
                 {p \in a..(a + Len(StrOf(mem, a))) : mem[p] = c}, TRUE)
<1> DEFINE str == StrOf(mem, a)
           places == {p \in a..(a + Len(str)) : mem[p] = c}
           hits == {i \in 1..Len(str) : str[i] = c}
           at == CHOOSE i \in hits : \A j \in hits : i <= j
           ret == IF hits # {} THEN a + at - 1
                  ELSE IF c = 0 THEN a + Len(str) ELSE 0
<1>1. MemReadString(a, StrMax) = str
  BY DestinationIsThere
<1>2. Strchr(a, c) = Answer(ret)
  BY <1>1 DEF Strchr
<1>3. /\ Len(str) \in Nat
      /\ \A i \in 1..Len(str) : str[i] = c => a + i - 1 \in places
      /\ c = 0 => a + Len(str) \in places
      /\ \A p \in places : \/ c = 0 /\ p = a + Len(str)
                           \/ c # 0 /\ \E i \in 1..Len(str) :
                                str[i] = c /\ p = a + i - 1
  BY PlacesOfChar, Zenon
<1> HIDE DEF str, places
<1>4. CASE hits # {}
  <2>1. hits \in SUBSET Nat
    BY <1>3
  <2>2. \A i \in hits : i \in 1..Len(str) /\ str[i] = c
    OBVIOUS
  <2>3. at \in hits /\ \A j \in hits : at <= j
    <3> HIDE DEF hits
    <3> QED BY <1>4, <2>1, LeastNumber
  <2>4. a + at - 1 \in places
    BY <1>3, <2>2, <2>3
  <2>5. ret = a + at - 1
    BY <1>4
  <2> HIDE DEF at, ret
  <2>6. ASSUME NEW p \in places PROVE a + at - 1 <= p
    <3>1. CASE c = 0 /\ p = a + Len(str)
      BY <1>3, <2>2, <2>3, <3>1
    <3>2. CASE \E i \in 1..Len(str) : str[i] = c /\ p = a + i - 1
      <4>1. PICK i \in hits : p = a + i - 1
        BY <3>2
      <4> QED BY <1>3, <2>2, <2>3, <4>1
    <3> QED BY <1>3, <3>1, <3>2
  <2>7. FoundBy(Answer(ret), places, TRUE)
    BY <2>4, <2>5, <2>6, AnswersIt DEF FoundBy
  <2> QED BY <1>2, <2>7 DEF str, places, ret
<1>5. CASE hits = {} /\ c = 0
  <2>1. ret = a + Len(str) /\ ret \in places
    BY <1>3, <1>5
  <2>2. \A p \in places : p = ret /\ ret <= p
    BY <1>3, <1>5, <2>1
  <2> HIDE DEF ret
  <2>3. FoundBy(Answer(ret), places, TRUE)
    BY <2>1, <2>2, AnswersIt DEF FoundBy
  <2> QED BY <1>2, <2>3 DEF str, places, ret
<1>6. CASE hits = {} /\ c # 0
  <2>1. ret = 0
    BY <1>6
  <2>2. \A i \in 1..Len(str) : str[i] # c
    BY <1>6
  <2>3. places = {}
    BY <1>3, <1>6, <2>2
  <2> HIDE DEF ret
  <2>4. FoundBy(Answer(ret), places, TRUE)
    BY <2>1, <2>3, AnswersIt DEF FoundBy
  <2> QED BY <1>2, <2>4 DEF str, places, ret
<1> QED BY <1>4, <1>5, <1>6

LEMMA StrrchrAnswers ==
  ASSUME mem \in Memory, NEW a \in Nat, NEW c, Ends(mem, a, StrMax)
  PROVE  FoundBy(Strrchr(a, c),
                 {p \in a..(a + Len(StrOf(mem, a))) : mem[p] = c}, FALSE)
<1> DEFINE str == StrOf(mem, a)
           places == {p \in a..(a + Len(str)) : mem[p] = c}
           hits == IF c = 0 THEN {Len(str) + 1}
                   ELSE {i \in 1..Len(str) : str[i] = c}
           at == CHOOSE i \in hits : \A j \in hits : i >= j
           ret == IF hits = {} THEN 0 ELSE a + at - 1
<1>1. MemReadString(a, StrMax) = str
  BY DestinationIsThere
<1>2. Strrchr(a, c) = Answer(ret)
  BY <1>1 DEF Strrchr
<1>3. /\ Len(str) \in Nat
      /\ \A i \in 1..Len(str) : str[i] = c => a + i - 1 \in places
      /\ c = 0 => a + Len(str) \in places
      /\ \A p \in places : \/ c = 0 /\ p = a + Len(str)
                           \/ c # 0 /\ \E i \in 1..Len(str) :
                                str[i] = c /\ p = a + i - 1
  BY PlacesOfChar, Zenon
<1> HIDE DEF str, places
<1>4. \A p \in places : \E i \in hits : p = a + i - 1
  <2>1. CASE c = 0
    <3>1. Len(str) + 1 \in hits /\ a + (Len(str) + 1) - 1 = a + Len(str)
      BY <1>3, <2>1
    <3> HIDE DEF hits
    <3> QED BY <1>3, <2>1, <3>1
  <2>2. CASE c # 0
    BY <1>3, <2>2
  <2> QED BY <2>1, <2>2
<1>5. \A i \in hits : a + i - 1 \in places /\ i \in 0..(Len(str) + 1)
  <2>1. CASE c = 0
    <3>1. \A i \in hits : i = Len(str) + 1
      BY <2>1
    <3>2. a + (Len(str) + 1) - 1 = a + Len(str) /\ Len(str) + 1 \in 0..(Len(str) + 1)
      BY <1>3
    <3> HIDE DEF hits
    <3> QED BY <1>3, <2>1, <3>1, <3>2
  <2>2. CASE c # 0
    BY <1>3, <2>2
  <2> QED BY <2>1, <2>2
<1> HIDE DEF hits
<1>6. CASE hits # {}
  <2>1. at \in hits /\ \A j \in hits : at >= j
    <3>1. hits \in SUBSET (0..(Len(str) + 1)) /\ Len(str) + 1 \in Nat
      BY <1>3, <1>5
    <3> QED BY <1>6, <3>1, LastNumber
  <2>2. ret = a + at - 1
    BY <1>6
  <2> HIDE DEF at, ret
  <2>3. ret \in places
    BY <1>5, <2>1, <2>2
  <2>4. ASSUME NEW p \in places PROVE ret >= p
    <3>1. PICK i \in hits : p = a + i - 1
      BY <1>4
    <3>2. i \in Nat /\ at \in Nat
      BY <1>3, <1>5, <2>1
    <3> QED BY <2>1, <2>2, <3>1, <3>2
  <2>5. FoundBy(Answer(ret), places, FALSE)
    BY <2>3, <2>4, AnswersIt DEF FoundBy
  <2> QED BY <1>2, <2>5 DEF str, places, ret, at, hits
<1>7. CASE hits = {}
  <2>1. ret = 0 /\ places = {}
    BY <1>4, <1>7
  <2> HIDE DEF ret
  <2>2. FoundBy(Answer(ret), places, FALSE)
    BY <2>1, AnswersIt DEF FoundBy
  <2> QED BY <1>2, <2>2 DEF str, places, ret, at, hits
<1> QED BY <1>6, <1>7

LEMMA SnprintfOfNothing ==
  ASSUME mem \in Memory, NEW d \in Nat, NEW s \in Nat, Ends(mem, s, StrMax)
  PROVE  /\ Snprintf(d, 0, s).ret = Len(StrOf(mem, s))
         /\ Snprintf(d, 0, s).mem = mem
<1>1. AsInt(0) = 0
  BY Numbers DEF AsInt
<1>2. MemReadString(s, 0) = MemReadString(s, StrMax)
  <2>1. Limit(0) = StrMax /\ Limit(StrMax) = StrMax /\ StrMax \in Nat
    BY Numbers, LimitIs
  <2>2. Readable(s, StrMax)
    BY DEF Ends
  <2>3. /\ IsRead(mem, s, StrMax, MemReadString(s, 0))
        /\ IsRead(mem, s, StrMax, MemReadString(s, StrMax))
    <3>1. 0 \in Int /\ StrMax \in Int
      BY <2>1
    <3> QED BY <2>1, <2>2, <3>1, ReadingStrings
  <2> QED BY <2>1, <2>3, ReadIsUnique
<1>3. MemReadString(s, 0) = StrOf(mem, s)
  BY <1>2, DestinationIsThere
<1> QED BY <1>1, <1>3 DEF Snprintf, Answer, Outcome

LEMMA StrstrAnswers ==
  ASSUME mem \in Memory, NEW h \in Nat, NEW a \in Nat,
         Ends(mem, h, StrMax), Ends(mem, a, CmpMax)
  PROVE  FoundBy(Strstr(h, a),
                 {p \in h..(h + Len(StrOf(mem, h)) - Len(StrOf(mem, a))) :
                    Bytes(mem, p, Len(StrOf(mem, a))) = StrOf(mem, a)}, TRUE)
<1> DEFINE hay    == StrOf(mem, h)
           needle == StrOf(mem, a)
           hits   == {i \in 0..(Len(hay) - Len(needle)) :
                        SubSeq(hay, i + 1, i + Len(needle)) = needle}
           places == {p \in h..(h + Len(hay) - Len(needle)) :
                        Bytes(mem, p, Len(needle)) = needle}
           at     == CHOOSE i \in hits : \A j \in hits : i <= j
           ret    == IF needle = <<>> THEN h ELSE IF hits = {} THEN 0 ELSE h + at
<1>1. /\ MemReadString(h, StrMax) = hay /\ MemReadString(a, CmpMax) = needle
      /\ hay \in Seq(Char) /\ needle \in Seq(Char)
      /\ \A i \in 0..(Len(hay) - 1) : hay[i + 1] = mem[h + i]
      /\ Readable(h, Len(hay))
  <2>1. CmpMax \in Nat /\ 0 < CmpMax /\ CmpMax <= StrMax
    BY Numbers
  <2>2. MemReadString(a, CmpMax) = needle /\ needle \in Seq(Char)
    BY <2>1, ReadsStr, StrFacts
  <2> QED BY <2>2, DestinationIsThere
<1>2. Strstr(h, a) = Answer(ret)
  BY <1>1 DEF Strstr
<1> HIDE DEF hay, needle
<1>3. PICK l \in Nat, k \in Nat : l = Len(hay) /\ k = Len(needle)
  BY <1>1
<1>4. ASSUME NEW i \in 0..(l - k)
      PROVE  SubSeq(hay, i + 1, i + k) = Bytes(mem, h + i, k)
  <2> DEFINE u == SubSeq(hay, i + 1, i + k)
             v == Bytes(mem, h + i, k)
  <2>1. i \in Nat /\ i + k <= l /\ h + i \in Nat
    BY <1>3
  <2>2. u \in Seq(Char) /\ Len(u) = k /\ \A j \in 1..k : u[j] = hay[i + j]
    <3>1. i + 1 \in 1..(Len(hay) + 1) /\ i + k \in i..Len(hay)
      BY <1>3, <2>1
    <3>2. /\ u \in Seq(Char)
          /\ Len(u) = IF i + 1 <= i + k THEN (i + k) - (i + 1) + 1 ELSE 0
          /\ \A j \in 1..((i + k) - (i + 1) + 1) : u[j] = hay[(i + 1) + j - 1]
      BY <1>1, <1>3, <2>1, <3>1, SubSeqProperties
    <3>3. (i + k) - (i + 1) + 1 = k /\ \A j \in 1..k : (i + 1) + j - 1 = i + j
      BY <2>1
    <3>4. (IF i + 1 <= i + k THEN (i + k) - (i + 1) + 1 ELSE 0) = k
      BY <2>1
    <3> HIDE DEF u
    <3> QED BY <3>2, <3>3, <3>4
  <2>3. v \in Seq(Char) /\ Len(v) = k /\ \A j \in 1..k : v[j] = mem[h + i + j - 1]
    <3>1. Readable(h + i, k)
      BY <1>1, <1>3, <2>1 DEF Readable
    <3> QED BY <2>1, <3>1, BytesType, BytesFacts
  <2> HIDE DEF u, v
  <2>4. ASSUME NEW j \in 1..k PROVE u[j] = v[j]
    <3>1. PICK x \in 0..(l - 1) : x + 1 = i + j /\ h + x = h + i + j - 1
      <4>1. i + j - 1 \in 0..(l - 1) /\ (i + j - 1) + 1 = i + j
            /\ h + (i + j - 1) = h + i + j - 1
        BY <2>1
      <4> QED BY <4>1
    <3>2. hay[x + 1] = mem[h + x]
      BY <1>1, <1>3
    <3>3. u[j] = hay[i + j] /\ v[j] = mem[h + i + j - 1]
      BY <2>2, <2>3
    <3> QED BY <3>1, <3>2, <3>3
  <2>5. u = v
    BY <2>2, <2>3, <2>4, SeqEqual
  <2> QED BY <2>5 DEF u, v
<1>5. \A i \in hits : h + i \in places /\ i \in Nat
  <2> SUFFICES ASSUME NEW i \in hits PROVE h + i \in places /\ i \in Nat
    OBVIOUS
  <2>1. i \in 0..(l - k) /\ SubSeq(hay, i + 1, i + k) = needle
    BY <1>3
  <2>2. Bytes(mem, h + i, k) = needle
    BY <1>4, <2>1
  <2>3. h + i \in h..(h + l - k) /\ i \in Nat
    BY <1>3, <2>1
  <2> QED BY <1>3, <2>2, <2>3
<1>6. \A p \in places : \E i \in hits : p = h + i
  <2> SUFFICES ASSUME NEW p \in places PROVE \E i \in hits : p = h + i
    OBVIOUS
  <2>1. p \in h..(h + l - k) /\ Bytes(mem, p, k) = needle
    BY <1>3
  <2>2. PICK i \in 0..(l - k) : p = h + i
    <3>1. p - h \in 0..(l - k) /\ p = h + (p - h)
      BY <1>3, <2>1
    <3> QED BY <3>1
  <2>3. SubSeq(hay, i + 1, i + k) = needle
    BY <1>4, <2>1, <2>2
  <2>4. i \in hits
    BY <1>3, <2>3
  <2> HIDE DEF hits
  <2> QED BY <2>2, <2>4
<1>7. CASE needle = <<>>
  <2>1. k = 0 /\ ret = h
    BY <1>3, <1>7
  <2>2. h \in places
    <3>1. Bytes(mem, h, 0) \in Seq(Char) /\ Len(Bytes(mem, h, 0)) = 0
      <4>1. Readable(h, 0)
        BY DEF Readable
      <4> QED BY <4>1, BytesType, BytesFacts
    <3>2. Bytes(mem, h, 0) = <<>>
      BY <3>1
    <3>3. h \in h..(h + l - k)
      BY <1>3, <2>1
    <3> QED BY <1>3, <1>7, <2>1, <3>2, <3>3
  <2>3. \A p \in places : ret <= p
    BY <1>3, <2>1
  <2> HIDE DEF places, ret
  <2>4. FoundBy(Answer(ret), places, TRUE)
    BY <2>1, <2>2, <2>3, AnswersIt DEF FoundBy
  <2> QED BY <1>2, <2>4 DEF places, ret, hay, needle
<1> HIDE DEF hits, places
<1>8. CASE needle # <<>> /\ hits # {}
  <2>1. at \in hits /\ \A j \in hits : at <= j
    <3>1. hits \in SUBSET Nat
      BY <1>5
    <3> QED BY <1>8, <3>1, LeastNumber
  <2>2. ret = h + at
    BY <1>8
  <2> HIDE DEF at, ret
  <2>3. ret \in places
    BY <1>5, <2>1, <2>2
  <2>4. ASSUME NEW p \in places PROVE ret <= p
    <3>1. PICK i \in hits : p = h + i
      BY <1>6
    <3>2. i \in Nat /\ at \in Nat
      BY <1>5, <2>1
    <3> QED BY <2>1, <2>2, <3>1, <3>2
  <2>5. FoundBy(Answer(ret), places, TRUE)
    BY <2>3, <2>4, AnswersIt DEF FoundBy
  <2> QED BY <1>2, <2>5 DEF places, ret, at, hits, hay, needle
<1>9. CASE needle # <<>> /\ hits = {}
  <2>1. ret = 0 /\ places = {}
    BY <1>6, <1>9
  <2> HIDE DEF ret
  <2>2. FoundBy(Answer(ret), places, TRUE)
    BY <2>1, AnswersIt DEF FoundBy
  <2> QED BY <1>2, <2>2 DEF places, ret, at, hits, hay, needle
<1> QED BY <1>7, <1>8, <1>9

-----------------------------------------------------------------------------
(***************************************************************************)
(* From outcomes to states: what holds after a call.                       *)
(***************************************************************************)
LEMMA Called ==
  ASSUME NEW fn, NEW d, NEW s, NEW n, NEW out, Call(fn, d, s, n, out)
  PROVE  /\ call.fn = "none"
         /\ call'.fn = fn /\ call'.d = d /\ call'.s = s /\ call'.n = n
         /\ before' = mem /\ mem' = out.mem /\ heapPtr' = out.heap
         /\ x0' = out.ret /\ panicked' = out.panics
BY DEF Call

\* What a call is made in.
Fresh == call.fn = "none" => mem \in Memories /\ heapPtr = HeapBase

LEMMA FreshTyped ==
  ASSUME TypeOK, Fresh, call.fn = "none"
  PROVE  mem \in Memories /\ mem \in Memory /\ heapPtr = HeapBase /\ Typed
BY Addresses DEF TypeOK, Fresh, Typed, Memory

LEMMA TypeAfter ==
  ASSUME mem \in Memories, NEW fn, NEW d \in Pointers \cup {0},
         NEW s \in Register, NEW n \in Sizes \cup {0}, NEW out, OutcomeOK(out),
         Call(fn, d, s, n, out)
  PROVE  TypeOK'
BY DEF Call, TypeOK, OutcomeOK, Memory, Register

LEMMA MemoryBefore ==
  ASSUME before' = mem
  PROVE  /\ \A a, n : CPart(a, n)' = PartOf(mem, a, n)
         /\ \A a : CStr(a)' = StrOf(mem, a)
         /\ \A a, n : Legible(a, n)' <=> Ends(mem, a, n)
<1>1. \A a, n : CPart(a, n)' = PartOf(mem, a, n)
  BY DEF CPart, PartOf
<1>2. \A a : CStr(a)' = StrOf(mem, a)
  BY DEF CStr, StrOf, CPart, PartOf
<1>3. \A a, n : Legible(a, n)' <=> Ends(mem, a, n)
  BY DEF Legible, Ends
<1> QED BY <1>1, <1>2, <1>3

LEMMA OutcomeAfter ==
  ASSUME NEW fn, NEW d, NEW s, NEW n, NEW out, Call(fn, d, s, n, out)
  PROVE  /\ \A a, t : WroteBy(out, a, t) => Wrote(a, t)'
         /\ \A places, first : FoundBy(out, places, first) => Found(places, first)'
         /\ \A a, b, k, strings :
              CompareBy(out, a, b, k, strings) => CompareAsC(a, b, k, strings)'
<1>1. /\ before' = mem /\ mem' = out.mem /\ x0' = out.ret
      /\ panicked' = out.panics
  BY Called
<1>2. \A a, t : WroteBy(out, a, t) => Wrote(a, t)'
  BY <1>1 DEF WroteBy, Wrote
<1>3. \A places, first : FoundBy(out, places, first) => Found(places, first)'
  BY <1>1 DEF FoundBy, Found
<1>4. \A a, b, k, strings :
        CompareBy(out, a, b, k, strings) => CompareAsC(a, b, k, strings)'
  BY <1>1 DEF CompareBy, CompareAsC
<1> QED BY <1>2, <1>3, <1>4

LEMMA OtherCopies ==
  call.fn \notin {"strcpy", "strcat", "strncat", "strncpy", "memcpy", "memset",
                  "strdup", "strndup", "sprintf", "snprintf"} => CopiesAsC
BY DEF CopiesAsC

LEMMA OtherAnswers ==
  call.fn \notin {"strlen", "strcmp", "strncmp", "memcmp", "strchr", "strrchr",
                  "strstr", "snprintf"} => AnswersAsC
BY DEF AnswersAsC

LEMMA StrcpyStep ==
  ASSUME TypeOK, Fresh, NEW d \in Pointers, NEW s \in Pointers,
         Call("strcpy", d, s, 0, Strcpy(d, s))
  PROVE  CopiesAsC'
<1>1. /\ call.fn = "none" /\ call'.fn = "strcpy" /\ call'.d = d /\ call'.s = s
      /\ before' = mem
  BY Called
<1>2. mem \in Memory /\ d \in Nat /\ s \in Nat
  BY <1>1, FreshTyped, Addresses
<1>3. PICK t : t = StrOf(mem, s)
  OBVIOUS
<1>4. CStr(s)' = t /\ (Legible(s, StrMax)' <=> Ends(mem, s, StrMax))
  BY <1>1, <1>3, MemoryBefore
<1>5. Ends(mem, s, StrMax) => Wrote(d, Append(t, 0))'
  <2>1. Ends(mem, s, StrMax) => WroteBy(Strcpy(d, s), d, Append(t, 0))
    BY <1>2, <1>3, StrcpyWrites
  <2> QED BY <2>1, OutcomeAfter
<1> QED BY <1>1, <1>4, <1>5 DEF CopiesAsC

LEMMA StrcatStep ==
  ASSUME TypeOK, Fresh, NEW d \in Pointers, NEW s \in Pointers,
         Call("strcat", d, s, 0, Strcat(d, s))
  PROVE  CopiesAsC'
<1>1. /\ call.fn = "none" /\ call'.fn = "strcat" /\ call'.d = d /\ call'.s = s
      /\ before' = mem
  BY Called
<1>2. mem \in Memory /\ d \in Nat /\ s \in Nat
  BY <1>1, FreshTyped, Addresses
<1>3. PICK t, u : t = StrOf(mem, s) /\ u = StrOf(mem, d)
  OBVIOUS
<1>4. /\ CStr(s)' = t /\ CStr(d)' = u
      /\ Legible(s, StrMax)' <=> Ends(mem, s, StrMax)
      /\ Legible(d, StrMax)' <=> Ends(mem, d, StrMax)
  BY <1>1, <1>3, MemoryBefore
<1>5. Ends(mem, s, StrMax) /\ Ends(mem, d, StrMax) =>
        Wrote(d + Len(u), Append(t, 0))'
  <2>1. Ends(mem, s, StrMax) /\ Ends(mem, d, StrMax) =>
          WroteBy(Strcat(d, s), d + Len(u), Append(t, 0))
    BY <1>2, <1>3, StrcatWrites
  <2> QED BY <2>1, OutcomeAfter
<1> QED BY <1>1, <1>4, <1>5 DEF CopiesAsC

LEMMA StrncatStep ==
  ASSUME TypeOK, Fresh, NEW d \in Pointers, NEW s \in Pointers, NEW n \in Sizes,
         Call("strncat", d, s, n, Strncat(d, s, n))
  PROVE  CopiesAsC'
<1>1. /\ call.fn = "none" /\ call'.fn = "strncat" /\ call'.d = d /\ call'.s = s
      /\ call'.n = n /\ before' = mem
  BY Called
<1>2. mem \in Memory /\ d \in Nat /\ s \in Nat /\ n \in Nat /\ n < RegSize
  BY <1>1, FreshTyped, Addresses
<1>3. PICK t, u : t = PartOf(mem, s, n) /\ u = StrOf(mem, d)
  OBVIOUS
<1>4. /\ CPart(s, n)' = t /\ CStr(d)' = u
      /\ Legible(d, StrMax)' <=> Ends(mem, d, StrMax)
  BY <1>1, <1>3, MemoryBefore
<1>5. Small(n) /\ n > 0 /\ Readable(s, n) /\ Ends(mem, d, StrMax) =>
        Wrote(d + Len(u), Append(t, 0))'
  <2>1. Small(n) /\ n > 0 /\ Readable(s, n) /\ Ends(mem, d, StrMax) =>
          WroteBy(Strncat(d, s, n), d + Len(u), Append(t, 0))
    BY <1>2, <1>3, StrncatWrites
  <2> QED BY <2>1, OutcomeAfter
<1> QED BY <1>1, <1>4, <1>5 DEF CopiesAsC

LEMMA StrncpyStep ==
  ASSUME TypeOK, Fresh, NEW d \in Pointers, NEW s \in Pointers, NEW n \in Sizes,
         Call("strncpy", d, s, n, Strncpy(d, s, n))
  PROVE  CopiesAsC'
<1>1. /\ call.fn = "none" /\ call'.fn = "strncpy" /\ call'.d = d /\ call'.s = s
      /\ call'.n = n /\ before' = mem /\ mem' = Strncpy(d, s, n).mem
      /\ panicked' = Strncpy(d, s, n).panics
  BY Called
<1>2. mem \in Memory /\ d \in Nat /\ s \in Nat /\ n \in Nat /\ n < RegSize
  BY <1>1, FreshTyped, Addresses
<1>3. PICK t : t = PartOf(mem, s, n)
  OBVIOUS
<1>4. CPart(s, n)' = t
  BY <1>1, <1>3, MemoryBefore
<1>5. Small(n) /\ n > 0 /\ Readable(s, n) /\ Readable(d, n + 1) =>
        /\ ~panicked'
        /\ \A i \in 1..n : mem'[d + i - 1] = IF i <= Len(t) THEN t[i] ELSE 0
  BY <1>1, <1>2, <1>3, StrncpyWrites
<1> QED BY <1>1, <1>4, <1>5 DEF CopiesAsC

LEMMA MemcpyStep ==
  ASSUME TypeOK, Fresh, NEW d \in Pointers, NEW s \in Pointers, NEW n \in Sizes,
         Call("memcpy", d, s, n, Memcpy(d, s, n))
  PROVE  CopiesAsC'
<1>1. /\ call.fn = "none" /\ call'.fn = "memcpy" /\ call'.d = d /\ call'.s = s
      /\ call'.n = n /\ before' = mem
  BY Called
<1>2. mem \in Memory /\ d \in Nat /\ s \in Nat /\ n \in Nat
  BY <1>1, FreshTyped, Addresses
<1>3. PICK t : t = Bytes(mem, s, n)
  OBVIOUS
<1>4. Bytes(before, s, n)' = t
  BY <1>1, <1>3
<1>5. n < OpMax /\ Readable(s, n) => Wrote(d, t)'
  <2>1. n < OpMax /\ Readable(s, n) => WroteBy(Memcpy(d, s, n), d, t)
    BY <1>2, <1>3, MemoryOpsWrite
  <2> QED BY <2>1, OutcomeAfter
<1> QED BY <1>1, <1>4, <1>5 DEF CopiesAsC

LEMMA MemsetStep ==
  ASSUME TypeOK, Fresh, NEW d \in Pointers, NEW c \in Char, NEW n \in Sizes,
         Call("memset", d, c, n, Memset(d, c, n))
  PROVE  CopiesAsC'
<1>1. /\ call.fn = "none" /\ call'.fn = "memset" /\ call'.d = d /\ call'.s = c
      /\ call'.n = n
  BY Called
<1>2. mem \in Memory /\ d \in Nat /\ n \in Nat
  BY <1>1, FreshTyped, Addresses
<1>3. n < OpMax => Wrote(d, [i \in 1..n |-> c])'
  <2>1. n < OpMax => WroteBy(Memset(d, c, n), d, [i \in 1..n |-> c])
    <3>1. 0 \in Nat
      OBVIOUS
    <3> QED BY <1>2, <3>1, MemoryOpsWrite
  <2> QED BY <2>1, OutcomeAfter
<1> QED BY <1>1, <1>3 DEF CopiesAsC

LEMMA StrdupStep ==
  ASSUME TypeOK, Fresh, NEW s \in Pointers, Call("strdup", 0, s, 0, Strdup(s))
  PROVE  CopiesAsC'
<1>1. /\ call.fn = "none" /\ call'.fn = "strdup" /\ call'.s = s
      /\ before' = mem /\ x0' = Strdup(s).ret
  BY Called
<1>2. mem \in Memory /\ s \in Nat /\ heapPtr = HeapBase
  BY <1>1, FreshTyped, Addresses
<1>3. PICK t : t = StrOf(mem, s)
  OBVIOUS
<1>4. CStr(s)' = t /\ (Legible(s, StrMax)' <=> Ends(mem, s, StrMax))
  BY <1>1, <1>3, MemoryBefore
<1>5. Ends(mem, s, StrMax) /\ HeapHas(Len(t)) =>
        Wrote(HeapBase, Append(t, 0))' /\ x0' = HeapBase
  <2>1. Ends(mem, s, StrMax) /\ HeapHas(Len(t)) =>
          WroteBy(Strdup(s), HeapBase, Append(t, 0)) /\ Strdup(s).ret = HeapBase
    BY <1>2, <1>3, StrdupWrites
  <2> QED BY <1>1, <2>1, OutcomeAfter
<1> QED BY <1>1, <1>4, <1>5 DEF CopiesAsC

LEMMA StrndupStep ==
  ASSUME TypeOK, Fresh, NEW s \in Pointers, NEW n \in Sizes,
         Call("strndup", 0, s, n, Strndup(s, n))
  PROVE  CopiesAsC'
<1>1. /\ call.fn = "none" /\ call'.fn = "strndup" /\ call'.s = s /\ call'.n = n
      /\ before' = mem /\ x0' = Strndup(s, n).ret
  BY Called
<1>2. mem \in Memory /\ s \in Nat /\ heapPtr = HeapBase /\ n \in Nat /\ n < RegSize
  BY <1>1, FreshTyped, Addresses
<1>3. PICK t : t = PartOf(mem, s, n)
  OBVIOUS
<1>4. CPart(s, n)' = t
  BY <1>1, <1>3, MemoryBefore
<1>5. Small(n) /\ n > 0 /\ Readable(s, n) /\ HeapHas(Len(t)) =>
        Wrote(HeapBase, Append(t, 0))' /\ x0' = HeapBase
  <2>1. Small(n) /\ n > 0 /\ Readable(s, n) /\ HeapHas(Len(t)) =>
          /\ WroteBy(Strndup(s, n), HeapBase, Append(t, 0))
          /\ Strndup(s, n).ret = HeapBase
    BY <1>2, <1>3, StrndupWrites
  <2> QED BY <1>1, <2>1, OutcomeAfter
<1> QED BY <1>1, <1>4, <1>5 DEF CopiesAsC

LEMMA SprintfStep ==
  ASSUME TypeOK, Fresh, NEW d \in Pointers, NEW s \in Pointers,
         Call("sprintf", d, s, 0, Sprintf(d, s))
  PROVE  CopiesAsC'
<1>1. /\ call.fn = "none" /\ call'.fn = "sprintf" /\ call'.d = d /\ call'.s = s
      /\ before' = mem
  BY Called
<1>2. mem \in Memory /\ d \in Nat /\ s \in Nat
  BY <1>1, FreshTyped, Addresses
<1>3. PICK t : t = StrOf(mem, s)
  OBVIOUS
<1>4. CStr(s)' = t /\ (Legible(s, CmpMax)' <=> Ends(mem, s, CmpMax))
  BY <1>1, <1>3, MemoryBefore
<1>5. Ends(mem, s, CmpMax) => Wrote(d, Append(t, 0))'
  <2>1. Ends(mem, s, CmpMax) => WroteBy(Sprintf(d, s), d, Append(t, 0))
    BY <1>2, <1>3, SprintfWrites
  <2> QED BY <2>1, OutcomeAfter
<1> QED BY <1>1, <1>4, <1>5 DEF CopiesAsC

LEMMA SnprintfStep ==
  ASSUME TypeOK, Fresh, NEW d \in Pointers, NEW s \in Pointers, NEW n \in Sizes,
         Call("snprintf", d, s, n, Snprintf(d, n, s))
  PROVE  CopiesAsC' /\ AnswersAsC'
<1>1. /\ call.fn = "none" /\ call'.fn = "snprintf" /\ call'.d = d /\ call'.s = s
      /\ call'.n = n /\ before' = mem /\ x0' = Snprintf(d, n, s).ret
      /\ mem' = Snprintf(d, n, s).mem
  BY Called
<1>2. mem \in Memory /\ d \in Nat /\ s \in Nat /\ n \in Nat /\ n < RegSize
  BY <1>1, FreshTyped, Addresses
<1>3. PICK t, u, w : /\ t = PartOf(mem, s, n - 1) /\ u = PartOf(mem, s, n)
                     /\ w = StrOf(mem, s)
  OBVIOUS
<1>4. /\ CPart(s, n - 1)' = t /\ CPart(s, n)' = u /\ CStr(s)' = w
      /\ Legible(s, StrMax)' <=> Ends(mem, s, StrMax)
  BY <1>1, <1>3, MemoryBefore
<1>5. Small(n) /\ n > 0 /\ Readable(s, n) =>
        /\ Wrote(d, Append(t, 0))'
        /\ Len(u) < n => x0' = Len(u)
  <2>1. Small(n) /\ n > 0 /\ Readable(s, n) =>
          /\ WroteBy(Snprintf(d, n, s), d, Append(t, 0))
          /\ Len(u) < n => Snprintf(d, n, s).ret = Len(u)
    BY <1>2, <1>3, SnprintfWrites
  <2> QED BY <1>1, <2>1, OutcomeAfter
<1>6. n = 0 /\ Ends(mem, s, StrMax) => x0' = Len(w) /\ mem' = before'
  BY <1>1, <1>2, <1>3, SnprintfOfNothing
<1>7. CopiesAsC'
  BY <1>1, <1>4, <1>5 DEF CopiesAsC
<1>8. AnswersAsC'
  BY <1>1, <1>4, <1>5, <1>6 DEF AnswersAsC
<1> QED BY <1>7, <1>8

LEMMA StrlenStep ==
  ASSUME TypeOK, Fresh, NEW s \in Pointers, Call("strlen", 0, s, 0, Strlen(s))
  PROVE  AnswersAsC'
<1>1. /\ call.fn = "none" /\ call'.fn = "strlen" /\ call'.s = s
      /\ before' = mem /\ x0' = Strlen(s).ret
  BY Called
<1>2. mem \in Memory /\ s \in Nat
  BY <1>1, FreshTyped, Addresses
<1>3. CStr(s)' = StrOf(mem, s) /\ (Legible(s, StrMax)' <=> Ends(mem, s, StrMax))
  BY <1>1, MemoryBefore
<1>4. Ends(mem, s, StrMax) => x0' = Len(StrOf(mem, s))
  BY <1>1, <1>2, StrlenAnswers
<1> QED BY <1>1, <1>3, <1>4 DEF AnswersAsC

LEMMA ComparingSteps ==
  ASSUME TypeOK, Fresh, NEW d \in Pointers, NEW s \in Pointers
  PROVE  /\ Call("strcmp", d, s, 0, Strcmp(d, s)) => AnswersAsC'
         /\ \A n \in Sizes :
              /\ Call("strncmp", d, s, n, Strncmp(d, s, n)) => AnswersAsC'
              /\ Call("memcmp", d, s, n, Memcmp(d, s, n)) => AnswersAsC'
<1>1. ASSUME Call("strcmp", d, s, 0, Strcmp(d, s)) PROVE AnswersAsC'
  <2>1. /\ call.fn = "none" /\ call'.fn = "strcmp" /\ call'.d = d
        /\ call'.s = s /\ before' = mem
    BY <1>1, Called
  <2>2. mem \in Memory /\ d \in Nat /\ s \in Nat
    BY <2>1, FreshTyped, Addresses
  <2>3. \A a : Legible(a, CmpMax)' <=> Ends(mem, a, CmpMax)
    BY <2>1, MemoryBefore
  <2>4. Ends(mem, d, CmpMax) /\ Ends(mem, s, CmpMax) =>
          CompareAsC(d, s, CmpMax + 1, TRUE)'
    BY <1>1, <2>2, StrcmpAnswers, OutcomeAfter
  <2> QED BY <2>1, <2>3, <2>4 DEF AnswersAsC
<1>2. ASSUME NEW n \in Sizes, Call("strncmp", d, s, n, Strncmp(d, s, n))
      PROVE  AnswersAsC'
  <2>1. /\ call.fn = "none" /\ call'.fn = "strncmp" /\ call'.d = d
        /\ call'.s = s /\ call'.n = n
    BY <1>2, Called
  <2>2. mem \in Memory /\ d \in Nat /\ s \in Nat /\ n \in Nat /\ n < RegSize
    BY <2>1, FreshTyped, Addresses
  <2>3. Small(n) /\ Readable(d, n) /\ Readable(s, n) => CompareAsC(d, s, n, TRUE)'
    BY <1>2, <2>2, StrncmpAnswers, OutcomeAfter
  <2> QED BY <2>1, <2>3 DEF AnswersAsC
<1>3. ASSUME NEW n \in Sizes, Call("memcmp", d, s, n, Memcmp(d, s, n))
      PROVE  AnswersAsC'
  <2>1. /\ call.fn = "none" /\ call'.fn = "memcmp" /\ call'.d = d
        /\ call'.s = s /\ call'.n = n
    BY <1>3, Called
  <2>2. mem \in Memory /\ d \in Nat /\ s \in Nat /\ n \in Nat
    BY <2>1, FreshTyped, Addresses
  <2>3. n < OpMax /\ Readable(d, n) /\ Readable(s, n) => CompareAsC(d, s, n, FALSE)'
    BY <1>3, <2>2, MemcmpAnswers, OutcomeAfter
  <2> QED BY <2>1, <2>3 DEF AnswersAsC
<1> QED BY <1>1, <1>2, <1>3

LEMMA SearchingSteps ==
  ASSUME TypeOK, Fresh, NEW d \in Pointers
  PROVE  /\ \A c \in Char :
              /\ Call("strchr", d, c, 0, Strchr(d, c)) => AnswersAsC'
              /\ Call("strrchr", d, c, 0, Strrchr(d, c)) => AnswersAsC'
         /\ \A s \in Pointers : Call("strstr", d, s, 0, Strstr(d, s)) => AnswersAsC'
<1>1. ASSUME NEW c \in Char, Call("strchr", d, c, 0, Strchr(d, c))
      PROVE  AnswersAsC'
  <2>1. /\ call.fn = "none" /\ call'.fn = "strchr" /\ call'.d = d
        /\ call'.s = c /\ before' = mem
    BY <1>1, Called
  <2>2. mem \in Memory /\ d \in Nat
    BY <2>1, FreshTyped, Addresses
  <2>3. PICK places : places = {p \in d..(d + Len(StrOf(mem, d))) : mem[p] = c}
    OBVIOUS
  <2>4. /\ Legible(d, StrMax)' <=> Ends(mem, d, StrMax)
        /\ CStr(d)' = StrOf(mem, d)
    BY <2>1, MemoryBefore
  <2>5. {p \in d..(d + Len(CStr(d))) : before[p] = c}' = places
    BY <2>1, <2>3, <2>4
  <2>6. Ends(mem, d, StrMax) => Found(places, TRUE)'
    <3>1. Ends(mem, d, StrMax) => FoundBy(Strchr(d, c), places, TRUE)
      BY <2>2, <2>3, StrchrAnswers
    <3> QED BY <1>1, <3>1, OutcomeAfter
  <2> QED BY <2>1, <2>4, <2>5, <2>6 DEF AnswersAsC
<1>2. ASSUME NEW c \in Char, Call("strrchr", d, c, 0, Strrchr(d, c))
      PROVE  AnswersAsC'
  <2>1. /\ call.fn = "none" /\ call'.fn = "strrchr" /\ call'.d = d
        /\ call'.s = c /\ before' = mem
    BY <1>2, Called
  <2>2. mem \in Memory /\ d \in Nat
    BY <2>1, FreshTyped, Addresses
  <2>3. PICK places : places = {p \in d..(d + Len(StrOf(mem, d))) : mem[p] = c}
    OBVIOUS
  <2>4. /\ Legible(d, StrMax)' <=> Ends(mem, d, StrMax)
        /\ CStr(d)' = StrOf(mem, d)
    BY <2>1, MemoryBefore
  <2>5. {p \in d..(d + Len(CStr(d))) : before[p] = c}' = places
    BY <2>1, <2>3, <2>4
  <2>6. Ends(mem, d, StrMax) => Found(places, FALSE)'
    <3>1. Ends(mem, d, StrMax) => FoundBy(Strrchr(d, c), places, FALSE)
      BY <2>2, <2>3, StrrchrAnswers
    <3> QED BY <1>2, <3>1, OutcomeAfter
  <2> QED BY <2>1, <2>4, <2>5, <2>6 DEF AnswersAsC
<1>3. ASSUME NEW s \in Pointers, Call("strstr", d, s, 0, Strstr(d, s))
      PROVE  AnswersAsC'
  <2>1. /\ call.fn = "none" /\ call'.fn = "strstr" /\ call'.d = d
        /\ call'.s = s /\ before' = mem
    BY <1>3, Called
  <2>2. mem \in Memory /\ d \in Nat /\ s \in Nat
    BY <2>1, FreshTyped, Addresses
  <2>3. PICK t, u : t = StrOf(mem, s) /\ u = StrOf(mem, d)
    OBVIOUS
  <2>4. PICK places :
          places = {p \in d..(d + Len(u) - Len(t)) : Bytes(mem, p, Len(t)) = t}
    OBVIOUS
  <2>5. /\ Legible(d, StrMax)' <=> Ends(mem, d, StrMax)
        /\ Legible(s, CmpMax)' <=> Ends(mem, s, CmpMax)
        /\ CStr(d)' = u /\ CStr(s)' = t
    BY <2>1, <2>3, MemoryBefore
  <2>6. {p \in d..(d + Len(CStr(d)) - Len(CStr(s))) :
           Bytes(before, p, Len(CStr(s))) = CStr(s)}' = places
    BY <2>1, <2>4, <2>5
  <2>7. Ends(mem, d, StrMax) /\ Ends(mem, s, CmpMax) => Found(places, TRUE)'
    <3>1. Ends(mem, d, StrMax) /\ Ends(mem, s, CmpMax) =>
            FoundBy(Strstr(d, s), places, TRUE)
      BY <2>2, <2>3, <2>4, StrstrAnswers
    <3> QED BY <1>3, <3>1, OutcomeAfter
  <2> QED BY <2>1, <2>5, <2>6, <2>7 DEF AnswersAsC
<1> QED BY <1>1, <1>2, <1>3

LEMMA OtherCall ==
  ASSUME NEW fn, NEW d, NEW s, NEW n, NEW out, Call(fn, d, s, n, out)
  PROVE  /\ fn \notin {"strcpy", "strcat", "strncat", "strncpy", "memcpy", "memset",
                       "strdup", "strndup", "sprintf", "snprintf"} => CopiesAsC'
         /\ fn \notin {"strlen", "strcmp", "strncmp", "memcmp", "strchr", "strrchr",
                       "strstr", "snprintf"} => AnswersAsC'
<1>1. call'.fn = fn
  BY Called
<1>2. (call.fn \notin {"strcpy", "strcat", "strncat", "strncpy", "memcpy", "memset",
                       "strdup", "strndup", "sprintf", "snprintf"} => CopiesAsC)'
  BY OtherCopies, PTL
<1>3. (call.fn \notin {"strlen", "strcmp", "strncmp", "memcmp", "strchr", "strrchr",
                       "strstr", "snprintf"} => AnswersAsC)'
  BY OtherAnswers, PTL
<1> QED BY <1>1, <1>2, <1>3

LEMMA StringsStep ==
  ASSUME TypeOK, Fresh, Next
  PROVE  TypeOK' /\ CopiesAsC' /\ AnswersAsC' /\ call'.fn # "none"
<1>1. /\ \A p \in Pointers : p \in Nat /\ p \in Register /\ p \in Pointers \cup {0}
      /\ \A c \in Char : c \in Register
      /\ \A n \in Sizes : n \in Nat /\ n < RegSize /\ n \in Sizes \cup {0}
      /\ 0 \in Pointers \cup {0} /\ 0 \in Sizes \cup {0} /\ 0 \in Nat /\ 0 \in Char
      /\ 0 < RegSize
  BY Addresses, Numbers DEF Register
<1>2. call.fn = "none"
  BY DEF Next, Call
<1>3. mem \in Memories /\ Typed
  BY <1>2, FreshTyped
<1>4. PICK d \in Pointers, s \in Pointers :
    \/ Call("strlen", 0, s, 0, Strlen(s))
    \/ Call("strcmp", d, s, 0, Strcmp(d, s))
    \/ Call("strcpy", d, s, 0, Strcpy(d, s))
    \/ Call("strcat", d, s, 0, Strcat(d, s))
    \/ Call("strstr", d, s, 0, Strstr(d, s))
    \/ Call("strdup", 0, s, 0, Strdup(s))
    \/ Call("sprintf", d, s, 0, Sprintf(d, s))
    \/ \E c \in Char :
         \/ Call("strchr", d, c, 0, Strchr(d, c))
         \/ Call("strrchr", d, c, 0, Strrchr(d, c))
         \/ \E n \in Sizes : Call("memset", d, c, n, Memset(d, c, n))
    \/ \E n \in Sizes :
         \/ Call("memcpy", d, s, n, Memcpy(d, s, n))
         \/ Call("memcmp", d, s, n, Memcmp(d, s, n))
         \/ Call("strncmp", d, s, n, Strncmp(d, s, n))
         \/ Call("strncpy", d, s, n, Strncpy(d, s, n))
         \/ Call("strncat", d, s, n, Strncat(d, s, n))
         \/ Call("strndup", 0, s, n, Strndup(s, n))
         \/ Call("snprintf", d, s, n, Snprintf(d, n, s))
  BY DEF Next
<1>5. CASE Call("strlen", 0, s, 0, Strlen(s))
  <2>1. OutcomeOK(Strlen(s))
    BY <1>1, <1>3, StrlenType
  <2> QED BY <1>1, <1>3, <1>5, <2>1, TypeAfter, StrlenStep, OtherCall, Called
<1>6. CASE Call("strcmp", d, s, 0, Strcmp(d, s))
  <2>1. OutcomeOK(Strcmp(d, s))
    BY <1>3, SignType DEF Strcmp
  <2> QED BY <1>1, <1>3, <1>6, <2>1, TypeAfter, ComparingSteps, OtherCall, Called
<1>7. CASE Call("strcpy", d, s, 0, Strcpy(d, s))
  <2>1. OutcomeOK(Strcpy(d, s))
    BY <1>1, <1>3, CopyTypes
  <2> QED BY <1>1, <1>3, <1>7, <2>1, TypeAfter, StrcpyStep, OtherCall, Called
<1>8. CASE Call("strcat", d, s, 0, Strcat(d, s))
  <2>1. OutcomeOK(Strcat(d, s))
    BY <1>1, <1>3, CopyTypes
  <2> QED BY <1>1, <1>3, <1>8, <2>1, TypeAfter, StrcatStep, OtherCall, Called
<1>9. CASE Call("strstr", d, s, 0, Strstr(d, s))
  <2>1. OutcomeOK(Strstr(d, s))
    BY <1>3, SearchTypes
  <2> QED BY <1>1, <1>3, <1>9, <2>1, TypeAfter, SearchingSteps, OtherCall, Called
<1>10. CASE Call("strdup", 0, s, 0, Strdup(s))
  <2>1. OutcomeOK(Strdup(s))
    BY <1>1, <1>3, HeapAndPrintTypes
  <2> QED BY <1>1, <1>3, <1>10, <2>1, TypeAfter, StrdupStep, OtherCall, Called
<1>11. CASE Call("sprintf", d, s, 0, Sprintf(d, s))
  <2>1. OutcomeOK(Sprintf(d, s))
    BY <1>1, <1>3, HeapAndPrintTypes
  <2> QED BY <1>1, <1>3, <1>11, <2>1, TypeAfter, SprintfStep, OtherCall, Called
<1>12. ASSUME NEW c \in Char, Call("strchr", d, c, 0, Strchr(d, c))
       PROVE  TypeOK' /\ CopiesAsC' /\ AnswersAsC' /\ call'.fn # "none"
  <2>1. OutcomeOK(Strchr(d, c))
    BY <1>3, SearchTypes
  <2> QED BY <1>1, <1>3, <1>12, <2>1, TypeAfter, SearchingSteps, OtherCall, Called
<1>13. ASSUME NEW c \in Char, Call("strrchr", d, c, 0, Strrchr(d, c))
       PROVE  TypeOK' /\ CopiesAsC' /\ AnswersAsC' /\ call'.fn # "none"
  <2>1. OutcomeOK(Strrchr(d, c))
    BY <1>3, SearchTypes
  <2> QED BY <1>1, <1>3, <1>13, <2>1, TypeAfter, SearchingSteps, OtherCall, Called
<1>14. ASSUME NEW c \in Char, NEW n \in Sizes, Call("memset", d, c, n, Memset(d, c, n))
       PROVE  TypeOK' /\ CopiesAsC' /\ AnswersAsC' /\ call'.fn # "none"
  <2>1. OutcomeOK(Memset(d, c, n))
    BY <1>1, <1>3, MemoryOpsType
  <2> QED BY <1>1, <1>3, <1>14, <2>1, TypeAfter, MemsetStep, OtherCall, Called
<1>15. ASSUME NEW n \in Sizes, Call("memcpy", d, s, n, Memcpy(d, s, n))
       PROVE  TypeOK' /\ CopiesAsC' /\ AnswersAsC' /\ call'.fn # "none"
  <2>1. OutcomeOK(Memcpy(d, s, n))
    BY <1>1, <1>3, MemoryOpsType
  <2> QED BY <1>1, <1>3, <1>15, <2>1, TypeAfter, MemcpyStep, OtherCall, Called
<1>16. ASSUME NEW n \in Sizes, Call("memcmp", d, s, n, Memcmp(d, s, n))
       PROVE  TypeOK' /\ CopiesAsC' /\ AnswersAsC' /\ call'.fn # "none"
  <2>1. OutcomeOK(Memcmp(d, s, n))
    BY <1>1, <1>3, MemoryOpsType
  <2> QED BY <1>1, <1>3, <1>16, <2>1, TypeAfter, ComparingSteps, OtherCall, Called
<1>17. ASSUME NEW n \in Sizes, Call("strncmp", d, s, n, Strncmp(d, s, n))
       PROVE  TypeOK' /\ CopiesAsC' /\ AnswersAsC' /\ call'.fn # "none"
  <2>1. OutcomeOK(Strncmp(d, s, n))
    BY <1>3, SignType, PanicType DEF Strncmp
  <2> QED BY <1>1, <1>3, <1>17, <2>1, TypeAfter, ComparingSteps, OtherCall, Called
<1>18. ASSUME NEW n \in Sizes, Call("strncpy", d, s, n, Strncpy(d, s, n))
       PROVE  TypeOK' /\ CopiesAsC' /\ AnswersAsC' /\ call'.fn # "none"
  <2>1. OutcomeOK(Strncpy(d, s, n))
    BY <1>1, <1>3, CopyTypes
  <2> QED BY <1>1, <1>3, <1>18, <2>1, TypeAfter, StrncpyStep, OtherCall, Called
<1>19. ASSUME NEW n \in Sizes, Call("strncat", d, s, n, Strncat(d, s, n))
       PROVE  TypeOK' /\ CopiesAsC' /\ AnswersAsC' /\ call'.fn # "none"
  <2>1. OutcomeOK(Strncat(d, s, n))
    BY <1>1, <1>3, CopyTypes
  <2> QED BY <1>1, <1>3, <1>19, <2>1, TypeAfter, StrncatStep, OtherCall, Called
<1>20. ASSUME NEW n \in Sizes, Call("strndup", 0, s, n, Strndup(s, n))
       PROVE  TypeOK' /\ CopiesAsC' /\ AnswersAsC' /\ call'.fn # "none"
  <2>1. OutcomeOK(Strndup(s, n))
    BY <1>1, <1>3, HeapAndPrintTypes
  <2> QED BY <1>1, <1>3, <1>20, <2>1, TypeAfter, StrndupStep, OtherCall, Called
<1>21. ASSUME NEW n \in Sizes, Call("snprintf", d, s, n, Snprintf(d, n, s))
       PROVE  TypeOK' /\ CopiesAsC' /\ AnswersAsC' /\ call'.fn # "none"
  <2>1. OutcomeOK(Snprintf(d, n, s))
    BY <1>1, <1>3, HeapAndPrintTypes
  <2> QED BY <1>1, <1>3, <1>21, <2>1, TypeAfter, SnprintfStep, OtherCall, Called
<1> QED
  BY <1>4, <1>5, <1>6, <1>7, <1>8, <1>9, <1>10, <1>11, <1>12, <1>13, <1>14, <1>15,
     <1>16, <1>17, <1>18, <1>19, <1>20, <1>21

-----------------------------------------------------------------------------
(***************************************************************************)
(* Wide characters: two cells each.                                        *)
(***************************************************************************)
LEMMA WideNumbers ==
  /\ Radix \in Nat /\ Radix > 0 /\ Radix * Radix \in Nat
  /\ Radix * Radix <= RegSize /\ Radix <= Radix * Radix
  /\ Char = 0..(Radix - 1)
  /\ WideMax \in Nat /\ 0 < WideMax /\ 2 * WideMax < RegSize
<1>1. PICK r \in Nat : r = Radix /\ r > 0
  BY WideStringsAssumption
<1>2. r * r \in Nat /\ r <= r * r
  BY <1>1
<1> QED BY <1>1, <1>2, WideStringsAssumption

WideChar == 0..(Radix * Radix - 1)

LEMMA ProductGrows ==
  ASSUME NEW r \in Nat, NEW p \in Nat, NEW q \in Nat, p < q
  PROVE  r * p + r <= r * q /\ r * p \in Nat /\ r * q \in Nat
<1>1. PICK k \in Nat : q = p + 1 + k
  <2>1. q - p - 1 \in Nat /\ q = p + 1 + (q - p - 1)
    OBVIOUS
  <2> QED BY <2>1
<1>2. r * q = r * p + r + r * k
  BY <1>1
<1>3. r * k \in Nat /\ r * p \in Nat
  OBVIOUS
<1> QED BY <1>2, <1>3

LEMMA QuotientIs ==
  ASSUME NEW r \in Nat, r > 0, NEW x \in 0..(r - 1), NEW y \in Nat
  PROVE  (x + r * y) % r = x /\ (x + r * y) \div r = y
<1>1. PICK n \in Nat : n = x + r * y
  OBVIOUS
<1>2. PICK q \in Nat, z \in 0..(r - 1) : q = n \div r /\ z = n % r /\ n = r * q + z
  <2>1. n \div r \in Nat /\ n % r \in 0..(r - 1) /\ n = r * (n \div r) + (n % r)
    BY <1>1
  <2> QED BY <2>1
<1>3. ~(q < y)
  <2>1. q < y => r * q + r <= r * y /\ r * q \in Nat /\ r * y \in Nat
    BY ProductGrows
  <2> QED BY <1>1, <1>2, <2>1
<1>4. ~(y < q)
  <2>1. y < q => r * y + r <= r * q /\ r * q \in Nat /\ r * y \in Nat
    BY ProductGrows
  <2> QED BY <1>1, <1>2, <2>1
<1>5. q = y
  BY <1>2, <1>3, <1>4
<1>6. r * y \in Nat
  OBVIOUS
<1>7. z = x
  BY <1>1, <1>2, <1>5, <1>6
<1> QED BY <1>1, <1>2, <1>5, <1>7

LEMMA WideOfCells ==
  ASSUME NEW x \in Char, NEW y \in Char
  PROVE  /\ x + Radix * y \in WideChar
         /\ WideCells(x + Radix * y) = <<x, y>>
<1>1. PICK r \in Nat : r = Radix /\ r > 0
  BY WideNumbers
<1>2. x \in 0..(r - 1) /\ y \in 0..(r - 1) /\ y \in Nat /\ x \in Nat
  BY <1>1, WideNumbers
<1>3. (x + r * y) % r = x /\ (x + r * y) \div r = y
  BY <1>1, <1>2, QuotientIs
<1>4. r * y + r <= r * r /\ r * y \in Nat /\ r * r \in Nat
  BY <1>1, <1>2, ProductGrows
<1>5. x + r * y \in 0..(r * r - 1)
  BY <1>2, <1>4
<1> QED BY <1>1, <1>3, <1>5 DEF WideChar, WideCells

LEMMA CellsOfWide ==
  ASSUME NEW wc \in WideChar
  PROVE  /\ wc \in Nat /\ wc % Radix \in Char /\ wc \div Radix \in Char
         /\ WideCells(wc) = <<wc % Radix, wc \div Radix>>
         /\ wc < Radix => wc % Radix = wc /\ wc \div Radix = 0
<1>1. PICK r \in Nat : r = Radix /\ r > 0
  BY WideNumbers
<1>2. wc \in Nat /\ wc < r * r /\ r * r \in Nat
  BY <1>1, WideNumbers DEF WideChar
<1>3. PICK q \in Nat, z \in 0..(r - 1) : q = wc \div r /\ z = wc % r /\ wc = r * q + z
  <2>1. wc \div r \in Nat /\ wc % r \in 0..(r - 1) /\ wc = r * (wc \div r) + (wc % r)
    BY <1>1, <1>2
  <2> QED BY <2>1
<1>4. q < r
  <2>1. r < q => r * r + r <= r * q /\ r * q \in Nat
    BY ProductGrows
  <2>2. q = r => r * q = r * r
    OBVIOUS
  <2> QED BY <1>2, <1>3, <2>1, <2>2
<1>5. wc < r => wc % r = wc /\ wc \div r = 0
  <2>1. wc < r => (wc + r * 0) % r = wc /\ (wc + r * 0) \div r = 0
    BY <1>1, <1>2, QuotientIs
  <2>2. wc + r * 0 = wc
    BY <1>2
  <2> QED BY <2>1, <2>2
<1> QED BY <1>1, <1>2, <1>3, <1>4, <1>5, WideNumbers DEF WideCells

LEMMA WideAtType ==
  ASSUME NEW m \in Memory, NEW a \in Nat
  PROVE  /\ WideAt(m, a) \in WideChar
         /\ Readable(a, 2) => /\ a \in Mapped /\ a + 1 \in Mapped
                              /\ WideAt(m, a) = m[a] + Radix * m[a + 1]
                              /\ WideCells(WideAt(m, a)) = <<m[a], m[a + 1]>>
         /\ ~Readable(a, 2) => WideAt(m, a) = 0
<1>1. Readable(a, 2) => a \in Mapped /\ a + 1 \in Mapped
  BY DEF Readable
<1>2. a \in Mapped /\ a + 1 \in Mapped => m[a] \in Char /\ m[a + 1] \in Char
  BY DEF Memory
<1>3. 0 \in WideChar
  BY WideNumbers DEF WideChar
<1> QED BY <1>1, <1>2, <1>3, WideOfCells DEF WideAt

LEMMA PutWideIs ==
  ASSUME NEW m \in Memory, NEW a \in Nat, NEW wc \in WideChar
  PROVE  /\ PutWide(m, a, wc) \in Memory
         /\ \A c \in Mapped : c # a /\ c # a + 1 => PutWide(m, a, wc)[c] = m[c]
         /\ Readable(a, 2) => /\ PutWide(m, a, wc)[a] = wc % Radix
                              /\ PutWide(m, a, wc)[a + 1] = wc \div Radix
<1>1. /\ wc % Radix \in Char /\ wc \div Radix \in Char
      /\ WideCells(wc)[1] = wc % Radix /\ WideCells(wc)[2] = wc \div Radix
  BY CellsOfWide
<1>2. CASE Readable(a, 2)
  <2>1. a \in Mapped /\ a + 1 \in Mapped /\ a # a + 1
    BY <1>2 DEF Readable
  <2>2. PICK x \in Char, y \in Char : x = wc % Radix /\ y = wc \div Radix
    BY <1>1
  <2>3. PutWide(m, a, wc) = [m EXCEPT ![a] = x, ![a + 1] = y]
    BY <1>1, <1>2, <2>2 DEF PutWide
  <2>4. [m EXCEPT ![a] = x, ![a + 1] = y] \in Memory
    BY DEF Memory
  <2>5. \A c \in Mapped : [m EXCEPT ![a] = x, ![a + 1] = y][c] =
          IF c = a + 1 THEN y ELSE IF c = a THEN x ELSE m[c]
    BY DEF Memory
  <2> QED BY <2>1, <2>2, <2>3, <2>4, <2>5
<1>3. CASE ~Readable(a, 2)
  BY <1>3 DEF PutWide
<1> QED BY <1>2, <1>3

LEMMA PutCellIs ==
  ASSUME NEW m \in Memory, NEW a, NEW v \in Char
  PROVE  /\ PutCell(m, a, v) \in Memory
         /\ \A c \in Mapped : PutCell(m, a, v)[c] = IF c = a THEN v ELSE m[c]
BY DEF PutCell, Memory

LEMMA CellAtType ==
  ASSUME NEW m \in Memory, NEW a
  PROVE  /\ CellAt(m, a) \in Char /\ CellAt(m, a) \in WideChar
         /\ a \in Mapped => CellAt(m, a) = m[a]
<1>1. CellAt(m, a) \in Char
  BY Addresses DEF CellAt, Memory
<1>2. \A c \in Char : c \in WideChar
  <2>1. PICK r \in Nat, q \in Nat : r = Radix /\ q = Radix * Radix /\ r <= q
    BY WideNumbers
  <2> QED BY <2>1, WideNumbers DEF WideChar
<1> QED BY <1>1, <1>2 DEF CellAt

-----------------------------------------------------------------------------
(***************************************************************************)
(* Loops: functions that are defined by recursion exist, and the first     *)
(* place where a loop stops.                                               *)
(***************************************************************************)
Recursive(f, b, n, start, G) ==
  f = [k \in b..n |-> IF k = b THEN start ELSE G[<<f[k - 1], k>>]]

LEMMA Recursion ==
  ASSUME NEW S, NEW b \in Nat, NEW n \in Nat, b <= n, NEW start \in S,
         NEW G \in [S \X ((b + 1)..n) -> S]
  PROVE  \E f \in [b..n -> S] : Recursive(f, b, n, start, G)
<1> DEFINE Upto(j, f) == \A k \in b..(b + j) :
                           f[k] = IF k = b THEN start ELSE G[<<f[k - 1], k>>]
           J == {j \in Nat : \E f \in [b..n -> S] : Upto(j, f)}
<1>1. 0 \in J
  <2>1. [k \in b..n |-> start] \in [b..n -> S]
    OBVIOUS
  <2>2. Upto(0, [k \in b..n |-> start])
    OBVIOUS
  <2> HIDE DEF Upto
  <2> QED BY <2>1, <2>2
<1>2. ASSUME NEW j \in 0..(n - b - 1), j \in J PROVE j + 1 \in J
  <2>1. PICK f \in [b..n -> S] : Upto(j, f)
    BY <1>2
  <2>2. b + j \in b..n /\ b + j + 1 \in b..n /\ b + j + 1 # b
    OBVIOUS
  <2> DEFINE g == [f EXCEPT ![b + j + 1] = G[<<f[b + j], b + j + 1>>]]
  <2>3. G[<<f[b + j], b + j + 1>>] \in S
    <3>1. <<f[b + j], b + j + 1>> \in S \X ((b + 1)..n)
      BY <2>2
    <3> QED BY <3>1
  <2>4. g \in [b..n -> S]
    BY <2>3
  <2>5. ASSUME NEW k \in b..(b + j + 1)
        PROVE  g[k] = IF k = b THEN start ELSE G[<<g[k - 1], k>>]
    <3>1. CASE k = b + j + 1
      <4>1. g[k] = G[<<f[b + j], b + j + 1>>] /\ g[b + j] = f[b + j]
        BY <2>2, <3>1
      <4>2. k - 1 = b + j /\ k # b
        BY <3>1
      <4> QED BY <3>1, <4>1, <4>2
    <3>2. CASE k # b + j + 1
      <4>1. k \in b..(b + j) /\ k \in b..n /\ k # b => k - 1 \in b..n /\ k - 1 # b + j + 1
        BY <3>2
      <4>2. k \in b..(b + j) /\ k \in b..n
        BY <3>2
      <4>3. g[k] = f[k] /\ (k # b => g[k - 1] = f[k - 1])
        BY <3>2, <4>1, <4>2
      <4>4. f[k] = IF k = b THEN start ELSE G[<<f[k - 1], k>>]
        BY <2>1, <4>2
      <4> QED BY <4>3, <4>4
    <3> QED BY <3>1, <3>2
  <2>6. b + (j + 1) = b + j + 1
    OBVIOUS
  <2>7. Upto(j + 1, g)
    BY <2>5, <2>6
  <2> HIDE DEF Upto, g
  <2> QED BY <2>4, <2>7
<1>3. n - b \in Nat /\ n - b \in 0..(n - b)
  OBVIOUS
<1> HIDE DEF J
<1>4. n - b \in J
  BY <1>1, <1>2, <1>3, UpTo
<1> USE DEF J
<1>5. PICK f \in [b..n -> S] : Upto(n - b, f)
  BY <1>4
<1>6. b + (n - b) = n
  OBVIOUS
<1>7. \A k \in b..n : f[k] = IF k = b THEN start ELSE G[<<f[k - 1], k>>]
  BY <1>5, <1>6
<1> QED BY <1>7 DEF Recursive

LEMMA FirstIn ==
  ASSUME NEW n \in Nat, NEW S
  PROVE  \E k \in 0..n : /\ k = n \/ k \in S
                         /\ \A i \in 0..(k - 1) : i \notin S
<1> DEFINE Z == {k \in 0..n : k = n \/ k \in S}
<1>1. Z \in SUBSET Nat /\ n \in Z
  OBVIOUS
<1>2. PICK k \in Z : \A j \in Z : k <= j
  <2> HIDE DEF Z
  <2> QED BY <1>1, LeastNumber
<1>3. k \in 0..n /\ (k = n \/ k \in S)
  BY <1>2
<1>4. ASSUME NEW i \in 0..(k - 1), i \in S PROVE FALSE
  <2>1. i \in Z /\ ~(k <= i)
    BY <1>3, <1>4
  <2> QED BY <1>2, <2>1
<1> QED BY <1>3, <1>4

LEMMA WideLengthIs ==
  ASSUME NEW m, NEW a \in Nat, NEW limit \in Nat,
         NEW len, len = WideLength(m, a, limit)
  PROVE  /\ len \in 0..limit /\ len \in Nat
         /\ len = limit \/ WideAt(m, a + 2 * len) = 0
         /\ \A i \in 0..(len - 1) : WideAt(m, a + 2 * i) # 0
<1> DEFINE S == {i \in 0..limit : WideAt(m, a + 2 * i) = 0}
           P(k) == /\ k = limit \/ WideAt(m, a + 2 * k) = 0
                   /\ \A i \in 0..(k - 1) : ~(WideAt(m, a + 2 * i) = 0)
           l == CHOOSE k \in 0..limit : P(k)
<1>1. PICK k \in 0..limit : (k = limit \/ k \in S) /\ \A i \in 0..(k - 1) : i \notin S
  <2> HIDE DEF S
  <2> QED BY FirstIn
<1>2. \A i \in 0..(k - 1) : i \in 0..limit
  OBVIOUS
<1>3. P(k)
  BY <1>1, <1>2
<1> HIDE DEF P
<1>4. l \in 0..limit /\ P(l)
  BY <1>3
<1>5. WideLength(m, a, limit) = l
  BY Zenon DEF WideLength, FirstStop, P
<1> HIDE DEF l
<1> QED BY <1>4, <1>5 DEF P

CopyState == [mem : Memory, ended : BOOLEAN]

\* The body of a copying loop.
CopyRound(x, d, s, k) ==
  IF x.ended THEN x
  ELSE [mem |-> PutWide(x.mem, d + 2 * (k - 1), WideAt(x.mem, s + 2 * (k - 1))),
        ended |-> WideAt(x.mem, s + 2 * (k - 1)) = 0]

LEMMA CopyRoundType ==
  ASSUME NEW x \in CopyState, NEW d \in Nat, NEW s \in Nat, NEW k \in Nat, k > 0
  PROVE  CopyRound(x, d, s, k) \in CopyState
<1>1. x.mem \in Memory /\ x.ended \in BOOLEAN
  BY DEF CopyState
<1>2. d + 2 * (k - 1) \in Nat /\ s + 2 * (k - 1) \in Nat
  OBVIOUS
<1>3. WideAt(x.mem, s + 2 * (k - 1)) \in WideChar
  BY <1>1, <1>2, WideAtType
<1>4. PutWide(x.mem, d + 2 * (k - 1), WideAt(x.mem, s + 2 * (k - 1))) \in Memory
  BY <1>1, <1>2, <1>3, PutWideIs
<1> QED BY <1>4 DEF CopyRound, CopyState

CopyRun(m, d, s, limit, f) ==
  /\ f \in [0..limit -> CopyState]
  /\ f[0] = [mem |-> m, ended |-> FALSE]
  /\ \A k \in 1..limit : f[k] = CopyRound(f[k - 1], d, s, k)

LEMMA CopyWideIs ==
  ASSUME NEW m \in Memory, NEW d \in Nat, NEW s \in Nat, NEW limit \in Nat
  PROVE  \E f : CopyRun(m, d, s, limit, f) /\ CopyWide(m, d, s, limit) = f[limit]
<1> DEFINE start == [mem |-> m, ended |-> FALSE]
           G == [p \in CopyState \X (1..limit) |-> CopyRound(p[1], d, s, p[2])]
           P(f) == f = [k \in 0..limit |->
                          IF k = 0 THEN [mem |-> m, ended |-> FALSE]
                          ELSE IF f[k - 1].ended THEN f[k - 1]
                          ELSE LET now == f[k - 1].mem
                                   wc  == WideAt(now, s + 2 * (k - 1))
                               IN  [mem |-> PutWide(now, d + 2 * (k - 1), wc),
                                    ended |-> wc = 0]]
           g == CHOOSE f : P(f)
<1>1. start \in CopyState
  BY DEF CopyState
<1>2. \A p \in CopyState \X (1..limit) : CopyRound(p[1], d, s, p[2]) \in CopyState
  BY CopyRoundType
<1>3. G \in [CopyState \X ((0 + 1)..limit) -> CopyState]
  <2>1. 0 + 1 = 1
    OBVIOUS
  <2> QED BY <1>2, <2>1
<1> HIDE DEF start
<1>4. PICK f \in [0..limit -> CopyState] : Recursive(f, 0, limit, start, G)
  <2>1. 0 \in Nat /\ 0 <= limit
    OBVIOUS
  <2> HIDE DEF G
  <2> QED BY <1>1, <1>3, <2>1, Recursion
<1>5. ASSUME NEW k \in 1..limit, NEW x \in CopyState
      PROVE  G[<<x, k>>] = CopyRound(x, d, s, k)
  OBVIOUS
<1> HIDE DEF G
<1>6. \A k \in 0..limit : k # 0 => k \in 1..limit /\ k - 1 \in 0..limit
  OBVIOUS
<1>7. \A k \in 0..limit : k # 0 => G[<<f[k - 1], k>>] = CopyRound(f[k - 1], d, s, k)
  BY <1>5, <1>6
<1>8. f = [k \in 0..limit |-> IF k = 0 THEN start ELSE CopyRound(f[k - 1], d, s, k)]
  BY <1>4, <1>7 DEF Recursive
<1>9. P(f)
  BY <1>8 DEF CopyRound, start
<1>10. P(g)
  <2> HIDE DEF P
  <2> QED BY <1>9
<1>11. CopyWide(m, d, s, limit) = g[limit]
  BY Zenon DEF CopyWide
<1> HIDE DEF g
<1>12. g = [k \in 0..limit |-> IF k = 0 THEN start ELSE CopyRound(g[k - 1], d, s, k)]
  BY <1>10 DEF CopyRound, start
<1> HIDE DEF P
<1>13. g[0] = start /\ \A k \in 1..limit : g[k] = CopyRound(g[k - 1], d, s, k)
  BY <1>12
<1>14. g \in [0..limit -> CopyState]
  <2> DEFINE J == {k \in 0..limit : g[k] \in CopyState}
  <2>1. 0 \in J
    BY <1>1, <1>13
  <2>2. ASSUME NEW k \in 0..(limit - 1), k \in J PROVE k + 1 \in J
    <3>1. g[k + 1] = CopyRound(g[(k + 1) - 1], d, s, k + 1) /\ (k + 1) - 1 = k
      BY <1>13
    <3>2. k + 1 \in Nat /\ k + 1 > 0 /\ k + 1 \in 0..limit
      OBVIOUS
    <3> QED BY <2>2, <3>1, <3>2, CopyRoundType
  <2> HIDE DEF J
  <2>3. 0..limit \subseteq J
    BY <2>1, <2>2, UpTo
  <2>4. \A k \in 0..limit : g[k] \in CopyState
    BY <2>3 DEF J
  <2> QED BY <1>12, <2>4
<1> QED BY <1>11, <1>13, <1>14 DEF CopyRun, start

\* A source of n wide characters, of which only the last may be the zero.
SourceIs(m, s, n) == /\ Readable(s, 2 * n)
                     /\ \A i \in 0..(n - 2) : WideAt(m, s + 2 * i) # 0

EndsIn(m, s, n) == n > 0 /\ WideAt(m, s + 2 * (n - 1)) = 0

\* What a loop has done that has copied n wide characters.
Copied(x, m, d, s, n) ==
  /\ x \in CopyState
  /\ x.ended <=> EndsIn(m, s, n)
  /\ \A c \in Mapped : c \notin d..(d + 2 * n - 1) => x.mem[c] = m[c]
  /\ Readable(d, 2 * n) => \A j \in 0..(2 * n - 1) : x.mem[d + j] = m[s + j]

LEMMA CopiesOne ==
  ASSUME NEW m \in Memory, NEW d \in Nat, NEW s \in Nat, NEW n \in Nat,
         SourceIs(m, s, n), Apart(d, 2 * n, s, 2 * n),
         NEW k \in 0..(n - 1), NEW x, Copied(x, m, d, s, k)
  PROVE  Copied(CopyRound(x, d, s, k + 1), m, d, s, k + 1)
<1> DEFINE y == CopyRound(x, d, s, k + 1)
<1>1. x \in CopyState /\ x.mem \in Memory
  BY DEF Copied, CopyState
<1>2. ~x.ended
  <2>1. ~EndsIn(m, s, k)
    <3>1. k > 0 => k - 1 \in 0..(n - 2)
      OBVIOUS
    <3> QED BY <3>1 DEF EndsIn, SourceIs
  <2> QED BY <2>1 DEF Copied
<1>3. 2 * ((k + 1) - 1) = 2 * k /\ 2 * (k + 1) = 2 * k + 2
      /\ d + 2 * k \in Nat /\ s + 2 * k \in Nat
  OBVIOUS
<1>4. /\ s + 2 * k \in Mapped /\ s + 2 * k + 1 \in Mapped
      /\ Readable(s + 2 * k, 2)
  BY DEF SourceIs, Readable
<1>5. /\ s + 2 * k \notin d..(d + 2 * k - 1)
      /\ s + 2 * k + 1 \notin d..(d + 2 * k - 1)
  BY DEF Apart
<1>6. x.mem[s + 2 * k] = m[s + 2 * k] /\ x.mem[s + 2 * k + 1] = m[s + 2 * k + 1]
  BY <1>4, <1>5 DEF Copied
<1> DEFINE wc == WideAt(m, s + 2 * k)
<1>7. WideAt(x.mem, s + 2 * k) = wc
  BY <1>4, <1>6 DEF WideAt
<1>8. wc \in WideChar /\ WideCells(wc) = <<m[s + 2 * k], m[s + 2 * k + 1]>>
  BY <1>3, <1>4, WideAtType
<1>9. y = [mem |-> PutWide(x.mem, d + 2 * k, wc), ended |-> wc = 0]
  BY <1>2, <1>3, <1>7 DEF CopyRound
<1>10. wc % Radix = m[s + 2 * k] /\ wc \div Radix = m[s + 2 * k + 1]
  BY <1>8 DEF WideCells
<1> HIDE DEF y
<1>11. y \in CopyState
  <2>1. k + 1 \in Nat /\ k + 1 > 0
    OBVIOUS
  <2> QED BY <1>1, <2>1, CopyRoundType DEF y
<1>12. y.ended <=> EndsIn(m, s, k + 1)
  <2>1. s + 2 * ((k + 1) - 1) = s + 2 * k /\ k + 1 > 0
    OBVIOUS
  <2>2. EndsIn(m, s, k + 1) <=> wc = 0
    BY <2>1 DEF EndsIn
  <2> HIDE DEF wc
  <2>3. y.ended <=> wc = 0
    BY <1>9
  <2> QED BY <2>2, <2>3
<1> HIDE DEF wc
<1>13. /\ \A c \in Mapped : c # d + 2 * k /\ c # d + 2 * k + 1 => y.mem[c] = x.mem[c]
       /\ Readable(d + 2 * k, 2) => /\ y.mem[d + 2 * k] = m[s + 2 * k]
                                    /\ y.mem[d + 2 * k + 1] = m[s + 2 * k + 1]
  BY <1>1, <1>3, <1>8, <1>9, <1>10, PutWideIs
<1>14. ASSUME NEW c \in Mapped, c \notin d..(d + 2 * (k + 1) - 1)
       PROVE  y.mem[c] = m[c]
  <2>1. c \in Nat
    BY Addresses
  <2>2. c # d + 2 * k /\ c # d + 2 * k + 1 /\ c \notin d..(d + 2 * k - 1)
    BY <1>14, <2>1
  <2> QED BY <1>13, <2>2 DEF Copied
<1>15. ASSUME Readable(d, 2 * (k + 1)), NEW j \in 0..(2 * (k + 1) - 1)
       PROVE  y.mem[d + j] = m[s + j]
  <2>1. Readable(d, 2 * k) /\ Readable(d + 2 * k, 2) /\ d + j \in Mapped
    BY <1>15 DEF Readable
  <2>2. CASE j < 2 * k
    <3>1. j \in 0..(2 * k - 1) /\ d + j # d + 2 * k /\ d + j # d + 2 * k + 1
      BY <2>2
    <3> QED BY <1>13, <2>1, <3>1 DEF Copied
  <2>3. CASE j = 2 * k
    BY <1>13, <2>1, <2>3
  <2>4. CASE j = 2 * k + 1
    <3>1. d + j = d + 2 * k + 1 /\ s + j = s + 2 * k + 1
      BY <2>4
    <3> QED BY <1>13, <2>1, <3>1
  <2> QED BY <2>2, <2>3, <2>4
<1> QED BY <1>11, <1>12, <1>14, <1>15 DEF Copied, y

LEMMA CopiesAll ==
  ASSUME NEW m \in Memory, NEW d \in Nat, NEW s \in Nat, NEW limit \in Nat,
         NEW n \in 0..limit, SourceIs(m, s, n), Apart(d, 2 * n, s, 2 * n),
         n = limit \/ EndsIn(m, s, n)
  PROVE  Copied(CopyWide(m, d, s, limit), m, d, s, n)
<1>1. PICK f : CopyRun(m, d, s, limit, f) /\ CopyWide(m, d, s, limit) = f[limit]
  BY CopyWideIs
<1> DEFINE J == {k \in 0..n : Copied(f[k], m, d, s, k)}
<1>2. 0 \in J
  <2>1. f[0] = [mem |-> m, ended |-> FALSE] /\ f[0] \in CopyState
    <3>1. 0 \in 0..limit
      OBVIOUS
    <3> QED BY <1>1, <3>1 DEF CopyRun
  <2>2. Copied(f[0], m, d, s, 0)
    BY <2>1 DEF Copied, EndsIn
  <2> QED BY <2>2
<1>3. ASSUME NEW k \in 0..(n - 1), k \in J PROVE k + 1 \in J
  <2>1. k + 1 \in 1..limit /\ (k + 1) - 1 = k /\ n \in Nat /\ k + 1 \in 0..n
    OBVIOUS
  <2>2. f[k + 1] = CopyRound(f[k], d, s, k + 1)
    BY <1>1, <2>1 DEF CopyRun
  <2>3. Copied(f[k], m, d, s, k)
    BY <1>3
  <2>4. Copied(CopyRound(f[k], d, s, k + 1), m, d, s, k + 1)
    BY <2>1, <2>3, CopiesOne
  <2> QED BY <2>1, <2>2, <2>4
<1> HIDE DEF J
<1>4. n \in Nat /\ n \in 0..n
  OBVIOUS
<1>5. n \in J
  BY <1>2, <1>3, <1>4, UpTo
<1>6. Copied(f[n], m, d, s, n)
  BY <1>5 DEF J
<1>7. CASE n = limit
  BY <1>1, <1>6, <1>7
<1>8. CASE EndsIn(m, s, n)
  <2> DEFINE K == {k \in 0..(limit - n) : f[n + k] = f[n]}
  <2>1. 0 \in K
    OBVIOUS
  <2>2. ASSUME NEW k \in 0..((limit - n) - 1), k \in K PROVE k + 1 \in K
    <3>1. n + (k + 1) \in 1..limit /\ (n + (k + 1)) - 1 = n + k
          /\ k + 1 \in 0..(limit - n)
      OBVIOUS
    <3>2. f[n + (k + 1)] = CopyRound(f[n + k], d, s, n + (k + 1))
      BY <1>1, <3>1 DEF CopyRun
    <3>3. f[n + k] = f[n] /\ f[n].ended
      BY <1>6, <1>8, <2>2 DEF Copied
    <3>4. f[n + (k + 1)] = f[n]
      BY <3>2, <3>3 DEF CopyRound
    <3> QED BY <3>1, <3>4
  <2> HIDE DEF K
  <2>3. limit - n \in Nat /\ limit - n \in 0..(limit - n)
    OBVIOUS
  <2>4. limit - n \in K
    BY <2>1, <2>2, <2>3, UpTo
  <2>5. n + (limit - n) = limit
    OBVIOUS
  <2>6. f[limit] = f[n]
    BY <2>4, <2>5 DEF K
  <2> QED BY <1>1, <1>6, <2>6
<1> QED BY <1>7, <1>8

LEMMA CopyWideType ==
  ASSUME NEW m \in Memory, NEW d \in Nat, NEW s \in Nat, NEW limit \in Nat
  PROVE  /\ CopyWide(m, d, s, limit) \in CopyState
         /\ CopyWide(m, d, s, limit).mem \in Memory
<1>1. CopyWide(m, d, s, limit) \in CopyState
  <2>1. PICK f : CopyRun(m, d, s, limit, f) /\ CopyWide(m, d, s, limit) = f[limit]
    BY CopyWideIs
  <2> QED BY <2>1 DEF CopyRun
<1> QED BY <1>1 DEF CopyState

LEMMA CellsAre ==
  ASSUME NEW n \in Nat, NEW w, Len(w) = n
  PROVE  /\ Len(Cells(w)) = 2 * n
         /\ \A i \in 0..(n - 1) :
              /\ Cells(w)[2 * i + 1] = WideCells(w[i + 1])[1]
              /\ Cells(w)[2 * i + 2] = WideCells(w[i + 1])[2]
<1>1. Len(Cells(w)) = 2 * n
  BY DEF Cells
<1>2. ASSUME NEW i \in 0..(n - 1)
      PROVE  /\ Cells(w)[2 * i + 1] = WideCells(w[i + 1])[1]
             /\ Cells(w)[2 * i + 2] = WideCells(w[i + 1])[2]
  <2>1. /\ 2 * i + 1 \in 1..(2 * n) /\ 2 * i + 2 \in 1..(2 * n)
        /\ ((2 * i + 1) + 1) \div 2 = i + 1 /\ ((2 * i + 2) + 1) \div 2 = i + 1
        /\ (2 * i + 1) % 2 = 1 /\ (2 * i + 2) % 2 = 0
    OBVIOUS
  <2>2. \A k \in 1..(2 * n) :
          Cells(w)[k] = WideCells(w[(k + 1) \div 2])[IF k % 2 = 1 THEN 1 ELSE 2]
    BY DEF Cells
  <2> QED BY <2>1, <2>2
<1> QED BY <1>1, <1>2

LEMMA Halves ==
  ASSUME NEW n \in Nat, NEW j \in 0..(2 * n - 1)
  PROVE  \E i \in 0..(n - 1) : j = 2 * i \/ j = 2 * i + 1
<1>1. /\ j \div 2 \in 0..(n - 1)
      /\ j = 2 * (j \div 2) \/ j = 2 * (j \div 2) + 1
  OBVIOUS
<1> QED BY <1>1

\* To have written wide characters is to have written their cells.
LEMMA WritesCells ==
  ASSUME NEW out, NEW d \in Nat, NEW n \in Nat, NEW w, Len(w) = n, ~out.panics,
         Readable(d, 2 * n) =>
           /\ \A c \in Mapped : c \notin d..(d + 2 * n - 1) => out.mem[c] = mem[c]
           /\ \A i \in 0..(n - 1) :
                /\ out.mem[d + 2 * i] = WideCells(w[i + 1])[1]
                /\ out.mem[d + 2 * i + 1] = WideCells(w[i + 1])[2]
  PROVE  WroteBy(out, d, Cells(w))
<1>1. /\ Len(Cells(w)) = 2 * n
      /\ \A i \in 0..(n - 1) : /\ Cells(w)[2 * i + 1] = WideCells(w[i + 1])[1]
                               /\ Cells(w)[2 * i + 2] = WideCells(w[i + 1])[2]
  BY CellsAre
<1>2. ASSUME Readable(d, 2 * n), NEW c \in Mapped, c \in d..(d + 2 * n - 1)
      PROVE  out.mem[c] = Cells(w)[c - d + 1]
  <2>1. PICK j \in 0..(2 * n - 1) : c = d + j
    <3>1. c \in Nat /\ c - d \in 0..(2 * n - 1) /\ c = d + (c - d)
      BY <1>2, Addresses
    <3> QED BY <3>1
  <2>2. PICK i \in 0..(n - 1) : j = 2 * i \/ j = 2 * i + 1
    BY Halves
  <2>3. CASE j = 2 * i
    <3>1. c = d + 2 * i /\ c - d + 1 = 2 * i + 1
      BY <2>1, <2>3
    <3> QED BY <1>1, <1>2, <3>1
  <2>4. CASE j = 2 * i + 1
    <3>1. c = d + 2 * i + 1 /\ c - d + 1 = 2 * i + 2
      BY <2>1, <2>4
    <3> QED BY <1>1, <1>2, <3>1
  <2> QED BY <2>2, <2>3, <2>4
<1> QED BY <1>1, <1>2 DEF WroteBy

\* WidePart and WideLegible, said of any memory.
WidePartOf(m, a, n) ==
  [i \in 1..WideLength(m, a, n) |-> WideAt(m, a + 2 * (i - 1))]

WideEnds(m, a, n) == Readable(a, 2 * n) /\ WideLength(m, a, n) < n

IsWidePart(w, m, a, n) ==
  /\ w \in Seq(WideChar) /\ Len(w) = WideLength(m, a, n)
  /\ Len(w) \in 0..n
  /\ \A i \in 0..(Len(w) - 1) : w[i + 1] = WideAt(m, a + 2 * i)
  /\ \A i \in 0..(Len(w) - 1) : w[i + 1] # 0
  /\ Len(w) = n \/ WideAt(m, a + 2 * Len(w)) = 0

LEMMA WidePartFacts ==
  ASSUME NEW m \in Memory, NEW a \in Nat, NEW n \in Nat
  PROVE  IsWidePart(WidePartOf(m, a, n), m, a, n)
<1> DEFINE w == WidePartOf(m, a, n)
<1>0. PICK l : l = WideLength(m, a, n)
  OBVIOUS
<1>1. /\ l \in Nat /\ l = WideLength(m, a, n) /\ l \in 0..n
      /\ l = n \/ WideAt(m, a + 2 * l) = 0
      /\ \A i \in 0..(l - 1) : WideAt(m, a + 2 * i) # 0
  BY <1>0, WideLengthIs
<1>2. w = [i \in 1..l |-> WideAt(m, a + 2 * (i - 1))]
  BY <1>1 DEF WidePartOf
<1> HIDE DEF w
<1>3. \A i \in 1..l : WideAt(m, a + 2 * (i - 1)) \in WideChar
  <2>1. \A i \in 1..l : a + 2 * (i - 1) \in Nat
    OBVIOUS
  <2> QED BY <2>1, WideAtType
<1>4. w \in Seq(WideChar) /\ Len(w) = l
  <2>1. w \in [1..l -> WideChar]
    BY <1>2, <1>3
  <2> QED BY <1>1, <2>1, Functions
<1>5. \A i \in 0..(l - 1) : w[i + 1] = WideAt(m, a + 2 * i)
  <2>1. \A i \in 0..(l - 1) : i + 1 \in 1..l /\ (i + 1) - 1 = i
    BY <1>1
  <2> QED BY <1>2, <2>1
<1>6. IsWidePart(w, m, a, n)
  BY <1>1, <1>4, <1>5 DEF IsWidePart
<1> QED BY <1>6 DEF w

\* A string with its end, and a part without one, as sources.
IsSource(w, m, a, n) ==
  /\ Len(w) \in 0..n /\ Len(w) \in Nat /\ SourceIs(m, a, Len(w))
  /\ \A i \in 0..(Len(w) - 1) : w[i + 1] = WideAt(m, a + 2 * i)

LEMMA WholeWide ==
  ASSUME NEW m \in Memory, NEW a \in Nat, NEW n \in Nat, Readable(a, 2 * n),
         WideLength(m, a, n) < n
  PROVE  /\ IsSource(Append(WidePartOf(m, a, n), 0), m, a, n)
         /\ EndsIn(m, a, Len(Append(WidePartOf(m, a, n), 0)))
         /\ Len(Append(WidePartOf(m, a, n), 0)) = WideLength(m, a, n) + 1
<1> DEFINE v == WidePartOf(m, a, n)
           w == Append(v, 0)
<1>0. IsWidePart(v, m, a, n)
  BY WidePartFacts
<1> HIDE DEF v
<1>1. /\ v \in Seq(WideChar) /\ Len(v) \in 0..n /\ Len(v) < n
      /\ Len(v) = WideLength(m, a, n)
      /\ \A i \in 0..(Len(v) - 1) : v[i + 1] = WideAt(m, a + 2 * i)
      /\ \A i \in 0..(Len(v) - 1) : v[i + 1] # 0
      /\ WideAt(m, a + 2 * Len(v)) = 0
  <2>1. /\ v \in Seq(WideChar) /\ Len(v) = WideLength(m, a, n) /\ Len(v) \in 0..n
        /\ \A i \in 0..(Len(v) - 1) : v[i + 1] = WideAt(m, a + 2 * i)
        /\ \A i \in 0..(Len(v) - 1) : v[i + 1] # 0
        /\ Len(v) = n \/ WideAt(m, a + 2 * Len(v)) = 0
    BY <1>0 DEF IsWidePart
  <2>2. Len(v) < n /\ Len(v) # n
    BY <2>1
  <2> QED BY <2>1, <2>2, Zenon
<1>2. PICK l \in Nat : l = Len(v) /\ l < n
  BY <1>1
<1>3. /\ Len(w) = l + 1 /\ w[l + 1] = 0 /\ \A i \in 1..l : w[i] = v[i]
  <2>1. 0 \in WideChar
    BY WideNumbers DEF WideChar
  <2> QED BY <1>1, <1>2, <2>1, AppendProperties
<1> HIDE DEF w
<1>4. ASSUME NEW i \in 0..l PROVE w[i + 1] = WideAt(m, a + 2 * i)
  <2>1. CASE i = l
    BY <1>1, <1>2, <1>3, <2>1
  <2>2. CASE i # l
    <3>1. i \in 0..(l - 1) /\ i + 1 \in 1..l
      BY <2>2
    <3> QED BY <1>1, <1>2, <1>3, <3>1
  <2> QED BY <2>1, <2>2
<1>5. SourceIs(m, a, l + 1)
  <2>1. Readable(a, 2 * (l + 1))
    BY <1>2 DEF Readable
  <2>2. \A i \in 0..((l + 1) - 2) : i \in 0..(l - 1)
    OBVIOUS
  <2>3. \A i \in 0..((l + 1) - 2) : WideAt(m, a + 2 * i) # 0
    BY <1>1, <1>2, <2>2
  <2> QED BY <2>1, <2>3 DEF SourceIs
<1>6. EndsIn(m, a, l + 1)
  <2>1. (l + 1) - 1 = l /\ l + 1 > 0
    OBVIOUS
  <2> QED BY <1>1, <1>2, <2>1 DEF EndsIn
<1>7. l + 1 \in 1..n /\ l + 1 \in 0..n /\ (l + 1) - 1 = l /\ l + 1 \in Nat
  BY <1>2
<1>8. /\ IsSource(w, m, a, n) /\ EndsIn(m, a, Len(w))
      /\ Len(w) = WideLength(m, a, n) + 1
  BY <1>1, <1>2, <1>3, <1>4, <1>5, <1>6, <1>7 DEF IsSource
<1> QED BY <1>8 DEF v, w

LEMMA OpenWide ==
  ASSUME NEW m \in Memory, NEW a \in Nat, NEW n \in Nat, Readable(a, 2 * n),
         ~(WideLength(m, a, n) < n)
  PROVE  /\ IsSource(WidePartOf(m, a, n), m, a, n)
         /\ ~EndsIn(m, a, n) /\ Len(WidePartOf(m, a, n)) = n
<1> DEFINE w == WidePartOf(m, a, n)
<1>0. IsWidePart(w, m, a, n)
  BY WidePartFacts
<1> HIDE DEF w
<1>1. /\ Len(w) \in 0..n /\ ~(Len(w) < n)
      /\ \A i \in 0..(Len(w) - 1) : w[i + 1] = WideAt(m, a + 2 * i)
      /\ \A i \in 0..(Len(w) - 1) : w[i + 1] # 0
  <2>1. /\ Len(w) = WideLength(m, a, n) /\ Len(w) \in 0..n
        /\ \A i \in 0..(Len(w) - 1) : w[i + 1] = WideAt(m, a + 2 * i)
        /\ \A i \in 0..(Len(w) - 1) : w[i + 1] # 0
    BY <1>0 DEF IsWidePart
  <2> QED BY <2>1, Zenon
<1>2. Len(w) = n
  BY <1>1
<1>3. \A i \in 0..(n - 1) : w[i + 1] = WideAt(m, a + 2 * i) /\ WideAt(m, a + 2 * i) # 0
  BY <1>1, <1>2
<1>4. SourceIs(m, a, n)
  <2>1. \A i \in 0..(n - 2) : i \in 0..(n - 1)
    OBVIOUS
  <2> QED BY <1>3, <2>1 DEF SourceIs
<1>5. ~EndsIn(m, a, n)
  <2>1. n > 0 => n - 1 \in 0..(n - 1)
    OBVIOUS
  <2> QED BY <1>3, <2>1 DEF EndsIn
<1>6. IsSource(w, m, a, n)
  BY <1>2, <1>3, <1>4 DEF IsSource
<1> QED BY <1>2, <1>5, <1>6 DEF w

\* A loop that has copied its source has written it.
LEMMA CopiedIsWritten ==
  ASSUME mem \in Memory, NEW d \in Nat, NEW s \in Nat, NEW max \in Nat, NEW w,
         IsSource(w, mem, s, max), NEW x, Copied(x, mem, d, s, Len(w)), NEW ret
  PROVE  WroteBy(Outcome(ret, x.mem), d, Cells(w))
<1>0. PICK n \in Nat : /\ n = Len(w) /\ Copied(x, mem, d, s, n)
                       /\ Readable(s, 2 * n)
                       /\ \A i \in 0..(n - 1) : w[i + 1] = WideAt(mem, s + 2 * i)
  BY DEF IsSource, SourceIs
<1> DEFINE out == Outcome(ret, x.mem)
<1>1. ~out.panics /\ out.mem = x.mem
  BY DEF Outcome
<1> HIDE DEF out
<1>2. ASSUME Readable(d, 2 * n), NEW i \in 0..(n - 1)
      PROVE  /\ x.mem[d + 2 * i] = WideCells(w[i + 1])[1]
             /\ x.mem[d + 2 * i + 1] = WideCells(w[i + 1])[2]
  <2>1. /\ 2 * i \in 0..(2 * n - 1) /\ 2 * i + 1 \in 0..(2 * n - 1)
        /\ d + (2 * i + 1) = d + 2 * i + 1 /\ s + (2 * i + 1) = s + 2 * i + 1
    OBVIOUS
  <2>2. x.mem[d + 2 * i] = mem[s + 2 * i] /\ x.mem[d + 2 * i + 1] = mem[s + 2 * i + 1]
    <3>1. \A j \in 0..(2 * n - 1) : x.mem[d + j] = mem[s + j]
      BY <1>0, <1>2 DEF Copied
    <3>2. x.mem[d + 2 * i] = mem[s + 2 * i]
      BY <2>1, <3>1, Zenon
    <3>3. x.mem[d + (2 * i + 1)] = mem[s + (2 * i + 1)]
      BY <2>1, <3>1, Zenon
    <3> QED BY <2>1, <3>2, <3>3, Zenon
  <2>3. Readable(s + 2 * i, 2) /\ s + 2 * i \in Nat
    BY <1>0 DEF Readable
  <2>4. WideCells(WideAt(mem, s + 2 * i)) = <<mem[s + 2 * i], mem[s + 2 * i + 1]>>
    BY <2>3, WideAtType
  <2>5. w[i + 1] = WideAt(mem, s + 2 * i)
    BY <1>0
  <2> QED BY <2>2, <2>4, <2>5
<1>3. \A c \in Mapped : c \notin d..(d + 2 * n - 1) => x.mem[c] = mem[c]
  BY <1>0 DEF Copied
<1>4. WroteBy(out, d, Cells(w))
  <2>1. Readable(d, 2 * n) =>
          /\ \A c \in Mapped : c \notin d..(d + 2 * n - 1) => out.mem[c] = mem[c]
          /\ \A i \in 0..(n - 1) :
               /\ out.mem[d + 2 * i] = WideCells(w[i + 1])[1]
               /\ out.mem[d + 2 * i + 1] = WideCells(w[i + 1])[2]
    BY <1>1, <1>2, <1>3
  <2> QED BY <1>0, <1>1, <2>1, WritesCells
<1> QED BY <1>4 DEF out

LEMMA WcscpyWrites ==
  ASSUME mem \in Memory, NEW d \in Nat, NEW s \in Nat, NEW w,
         WideEnds(mem, s, WideMax), w = Append(WidePartOf(mem, s, WideMax), 0),
         Apart(d, 2 * Len(w), s, 2 * Len(w))
  PROVE  WroteBy(Wcscpy(d, s), d, Cells(w))
<1>1. WideMax \in Nat
  BY WideNumbers
<1>2. IsSource(w, mem, s, WideMax) /\ EndsIn(mem, s, Len(w))
  BY <1>1, WholeWide DEF WideEnds
<1>3. Copied(CopyWide(mem, d, s, WideMax), mem, d, s, Len(w))
  BY <1>1, <1>2, CopiesAll DEF IsSource
<1> QED BY <1>1, <1>2, <1>3, CopiedIsWritten DEF Wcscpy

LEMMA WideEndIs ==
  ASSUME mem \in Memory, NEW d \in Nat
  PROVE  /\ WideEnd(d) \in Nat
         /\ WideEnds(mem, d, WideMax) =>
              WideEnd(d) = d + 2 * Len(WidePartOf(mem, d, WideMax))
<1>1. WideMax \in Nat
  BY WideNumbers
<1>2. PICK l : l = WideLength(mem, d, WideMax)
  OBVIOUS
<1>3. l \in Nat
  BY <1>1, <1>2, WideLengthIs
<1>4. WideEnd(d) = IF l = WideMax THEN d ELSE d + 2 * l
  BY <1>2 DEF WideEnd
<1>5. Len(WidePartOf(mem, d, WideMax)) = l
  BY <1>1, <1>2, WidePartFacts DEF IsWidePart
<1>6. WideEnds(mem, d, WideMax) => l # WideMax
  BY <1>1, <1>2, <1>3 DEF WideEnds
<1> QED BY <1>3, <1>4, <1>5, <1>6

LEMMA WcscatWrites ==
  ASSUME mem \in Memory, NEW d \in Nat, NEW s \in Nat, NEW w, NEW end,
         WideEnds(mem, s, WideMax), w = Append(WidePartOf(mem, s, WideMax), 0),
         WideEnds(mem, d, WideMax),
         end = d + 2 * Len(WidePartOf(mem, d, WideMax)),
         Apart(end, 2 * Len(w), s, 2 * Len(w))
  PROVE  WroteBy(Wcscat(d, s), end, Cells(w))
<1>1. WideMax \in Nat /\ end \in Nat /\ WideEnd(d) = end
  BY WideNumbers, WideEndIs
<1>2. IsSource(w, mem, s, WideMax) /\ EndsIn(mem, s, Len(w))
  BY <1>1, WholeWide DEF WideEnds
<1>3. Copied(CopyWide(mem, end, s, WideMax), mem, end, s, Len(w))
  BY <1>1, <1>2, CopiesAll DEF IsSource
<1> QED BY <1>1, <1>2, <1>3, CopiedIsWritten DEF Wcscat

LEMMA LesserIs ==
  ASSUME NEW m \in Nat, NEW n \in Nat
  PROVE  /\ Lesser(m, n) \in Nat /\ Lesser(m, n) <= m /\ Lesser(m, n) <= n
         /\ m <= n => Lesser(m, n) = m
BY DEF Lesser

\* Addresses wrap only beyond the last one.
LEMMA Wraps ==
  ASSUME NEW a \in Nat
  PROVE  a % RegSize \in Nat /\ (a < RegSize => a % RegSize = a)
<1>1. PICK r \in Nat : r = RegSize /\ r > 0
  BY Numbers
<1>2. a % r \in Nat
  BY <1>1
<1>3. ASSUME a < r PROVE a % r = a
  <2>1. a \in 0..(r - 1) /\ a + r * 0 = a /\ 0 \in Nat
    BY <1>1, <1>3
  <2>2. (a + r * 0) % r = a
    BY <1>1, <2>1, QuotientIs
  <2> QED BY <2>1, <2>2
<1> QED BY <1>1, <1>2, <1>3

LEMMA WcsncatWrites ==
  ASSUME mem \in Memory, NEW d \in Nat, NEW s \in Nat, NEW n \in Nat, NEW w, NEW end,
         n <= WideMax, Readable(s, 2 * n), w = Append(WidePartOf(mem, s, n), 0),
         WideEnds(mem, d, WideMax),
         end = d + 2 * Len(WidePartOf(mem, d, WideMax)),
         Apart(end, 2 * Len(w), s, 2 * Len(w))
  PROVE  WroteBy(Wcsncat(d, s, n), end, Cells(w))
<1>1. WideMax \in Nat /\ end \in Nat /\ WideEnd(d) = end /\ Lesser(n, WideMax) = n
  BY WideNumbers, WideEndIs, LesserIs
<1> DEFINE x == CopyWide(mem, end, s, n)
<1>2. Wcsncat(d, s, n) = Outcome(d, IF x.ended THEN x.mem
                                    ELSE PutWide(x.mem, (end + 2 * n) % RegSize, 0))
  BY <1>1 DEF Wcsncat
<1>3. CASE WideLength(mem, s, n) < n
  <2>1. IsSource(w, mem, s, n) /\ EndsIn(mem, s, Len(w))
    BY <1>3, WholeWide
  <2>2. Copied(x, mem, end, s, Len(w))
    BY <1>1, <2>1, CopiesAll DEF IsSource
  <2> HIDE DEF x
  <2>3. x.ended
    BY <2>1, <2>2 DEF Copied
  <2> QED BY <1>1, <1>2, <2>1, <2>2, <2>3, CopiedIsWritten
<1>4. CASE ~(WideLength(mem, s, n) < n)
  <2> DEFINE v == WidePartOf(mem, s, n)
  <2>1. IsSource(v, mem, s, n) /\ ~EndsIn(mem, s, n) /\ Len(v) = n
    BY <1>4, OpenWide
  <2>2. v \in Seq(WideChar)
    BY WidePartFacts DEF IsWidePart
  <2>3. w = Append(v, 0)
    OBVIOUS
  <2> HIDE DEF v
  <2>4. /\ Len(w) = n + 1 /\ w[n + 1] = 0 /\ \A i \in 1..n : w[i] = v[i]
    <3>1. 0 \in WideChar
      BY WideNumbers DEF WideChar
    <3> QED BY <2>1, <2>2, <2>3, <3>1, AppendProperties
  <2>5. Apart(end, 2 * n, s, 2 * n)
    BY <1>1, <2>4 DEF Apart
  <2>6. Copied(x, mem, end, s, n)
    BY <1>1, <2>1, <2>5, CopiesAll DEF IsSource
  <2>7. \A i \in 0..(n - 1) : w[i + 1] = WideAt(mem, s + 2 * i)
    <3>1. \A i \in 0..(n - 1) : i + 1 \in 1..n
      OBVIOUS
    <3> QED BY <2>1, <2>4, <3>1 DEF IsSource
  <2> HIDE DEF x
  <2>8. ~x.ended /\ x.mem \in Memory
    BY <2>1, <2>6 DEF Copied, CopyState
  <2>9. PICK e \in Nat : e = end + 2 * n
    BY <1>1
  <2>10. PICK at \in Nat :
            /\ at = (end + 2 * n) % RegSize
            /\ e < RegSize => at = e
    BY <2>9, Wraps
  <2> DEFINE y == PutWide(x.mem, at, 0)
  <2>11. Wcsncat(d, s, n) = Outcome(d, y)
    BY <1>2, <2>8, <2>10
  <2>12. 0 \in WideChar
    BY WideNumbers DEF WideChar
  <2>13. Readable(end, 2 * (n + 1)) =>
         /\ \A c \in Mapped :
              c # end + 2 * n /\ c # end + 2 * n + 1 => y[c] = x.mem[c]
         /\ Readable(end + 2 * n, 2) => /\ y[end + 2 * n] = WideCells(0)[1]
                                        /\ y[end + 2 * n + 1] = WideCells(0)[2]
    <3> SUFFICES ASSUME Readable(end, 2 * (n + 1))
                 PROVE  /\ \A c \in Mapped :
                             c # end + 2 * n /\ c # end + 2 * n + 1 => y[c] = x.mem[c]
                        /\ Readable(end + 2 * n, 2) =>
                             /\ y[end + 2 * n] = WideCells(0)[1]
                             /\ y[end + 2 * n + 1] = WideCells(0)[2]
      OBVIOUS
    <3>1. e \in end..(end + 2 * (n + 1) - 1)
      BY <1>1, <2>9
    <3>2. e \in Mapped
      BY <3>1 DEF Readable
    <3>3. RegSize \in Nat /\ e + 1 < RegSize
      BY <3>2, Addresses, Numbers
    <3>4. at = e
      BY <2>10, <3>3
    <3>5. /\ \A c \in Mapped : c # e /\ c # e + 1 => y[c] = x.mem[c]
          /\ Readable(e, 2) => /\ y[e] = WideCells(0)[1]
                               /\ y[e + 1] = WideCells(0)[2]
      BY <2>8, <2>12, <3>4, PutWideIs DEF WideCells
    <3> HIDE DEF y
    <3> QED BY <2>9, <3>5
  <2> HIDE DEF y
  <2>14. ASSUME Readable(end, 2 * (n + 1)), NEW c \in Mapped,
                c \notin end..(end + 2 * (n + 1) - 1)
         PROVE  y[c] = mem[c]
    <3>1. c \in Nat
      BY Addresses
    <3>2. c # end + 2 * n /\ c # end + 2 * n + 1 /\ c \notin end..(end + 2 * n - 1)
      BY <1>1, <2>14, <3>1
    <3> QED BY <2>6, <2>13, <2>14, <3>2 DEF Copied
  <2>15. ASSUME Readable(end, 2 * (n + 1)), NEW i \in 0..n
         PROVE  /\ y[end + 2 * i] = WideCells(w[i + 1])[1]
                /\ y[end + 2 * i + 1] = WideCells(w[i + 1])[2]
    <3>1. CASE i = n
      <4>1. Readable(end + 2 * n, 2)
        BY <1>1, <2>15 DEF Readable
      <4> QED BY <2>4, <2>13, <2>15, <3>1, <4>1
    <3>2. CASE i # n
      <4>1. /\ i \in 0..(n - 1) /\ 2 * i \in 0..(2 * n - 1)
            /\ 2 * i + 1 \in 0..(2 * n - 1)
            /\ end + (2 * i + 1) = end + 2 * i + 1
            /\ s + (2 * i + 1) = s + 2 * i + 1 /\ s + 2 * i \in Nat
        BY <1>1, <3>2
      <4>2. Readable(end, 2 * n) /\ Readable(s + 2 * i, 2)
            /\ end + 2 * i \in Mapped /\ end + 2 * i + 1 \in Mapped
        BY <1>1, <2>15, <4>1 DEF Readable
      <4>3. /\ x.mem[end + 2 * i] = mem[s + 2 * i]
            /\ x.mem[end + 2 * i + 1] = mem[s + 2 * i + 1]
        BY <2>6, <4>1, <4>2 DEF Copied
      <4>4. /\ y[end + 2 * i] = x.mem[end + 2 * i]
            /\ y[end + 2 * i + 1] = x.mem[end + 2 * i + 1]
        <5>1. /\ end + 2 * i # end + 2 * n /\ end + 2 * i # end + 2 * n + 1
              /\ end + 2 * i + 1 # end + 2 * n /\ end + 2 * i + 1 # end + 2 * n + 1
          BY <1>1, <4>1
        <5> QED BY <2>13, <2>15, <4>2, <5>1
      <4>5. WideCells(WideAt(mem, s + 2 * i)) = <<mem[s + 2 * i], mem[s + 2 * i + 1]>>
        BY <4>1, <4>2, WideAtType
      <4>6. PICK wc : wc = w[i + 1]
        OBVIOUS
      <4>7. wc = WideAt(mem, s + 2 * i)
        BY <2>7, <4>1, <4>6
      <4>8. /\ WideCells(wc)[1] = mem[s + 2 * i]
            /\ WideCells(wc)[2] = mem[s + 2 * i + 1]
        BY <4>5, <4>7
      <4> QED BY <4>3, <4>4, <4>6, <4>8
    <3> QED BY <3>1, <3>2
  <2> DEFINE out == Outcome(d, y)
  <2>16. ~out.panics /\ out.mem = y
    BY DEF Outcome
  <2> HIDE DEF out
  <2>17. Readable(end, 2 * (n + 1)) =>
           /\ \A c \in Mapped :
                c \notin end..(end + 2 * (n + 1) - 1) => out.mem[c] = mem[c]
           /\ \A i \in 0..((n + 1) - 1) :
                /\ out.mem[end + 2 * i] = WideCells(w[i + 1])[1]
                /\ out.mem[end + 2 * i + 1] = WideCells(w[i + 1])[2]
    <3>1. (n + 1) - 1 = n
      OBVIOUS
    <3> QED BY <2>14, <2>15, <2>16, <3>1
  <2>18. n + 1 \in Nat
    OBVIOUS
  <2>19. WroteBy(out, end, Cells(w))
    BY <1>1, <2>4, <2>16, <2>17, <2>18, WritesCells
  <2> QED BY <2>11, <2>19 DEF out
<1> QED BY <1>3, <1>4

\* The loop that fills the rest of a destination with zeros.
Zeros(m, d, at, limit) ==
  LET zeros[k \in at..limit] ==
        IF k = at THEN m ELSE PutWide(zeros[k - 1], d + 2 * (k - 1), 0)
  IN  zeros[limit]

ZerosRun(f, m, d, at, limit) ==
  /\ f \in [at..limit -> Memory]
  /\ f[at] = m
  /\ \A k \in (at + 1)..limit : f[k] = PutWide(f[k - 1], d + 2 * (k - 1), 0)

LEMMA ZerosAre ==
  ASSUME NEW m \in Memory, NEW d \in Nat, NEW limit \in Nat, NEW at \in 0..limit
  PROVE  \E f : ZerosRun(f, m, d, at, limit) /\ Zeros(m, d, at, limit) = f[limit]
<1> DEFINE G == [p \in Memory \X ((at + 1)..limit) |->
                   PutWide(p[1], d + 2 * (p[2] - 1), 0)]
           P(f) == f = [k \in at..limit |->
                          IF k = at THEN m
                          ELSE PutWide(f[k - 1], d + 2 * (k - 1), 0)]
           g == CHOOSE f : P(f)
<1>1. at \in Nat /\ at <= limit
  OBVIOUS
<1>2. \A x \in Memory : \A k \in (at + 1)..limit :
        PutWide(x, d + 2 * (k - 1), 0) \in Memory
  <2>1. \A k \in (at + 1)..limit : d + 2 * (k - 1) \in Nat
    BY <1>1
  <2>2. 0 \in WideChar
    BY WideNumbers DEF WideChar
  <2> QED BY <2>1, <2>2, PutWideIs
<1>3. G \in [Memory \X ((at + 1)..limit) -> Memory]
  BY <1>2
<1>4. PICK f \in [at..limit -> Memory] : Recursive(f, at, limit, m, G)
  <2> HIDE DEF G
  <2> QED BY <1>1, <1>3, Recursion
<1>5. ASSUME NEW k \in (at + 1)..limit, NEW x \in Memory
      PROVE  G[<<x, k>>] = PutWide(x, d + 2 * (k - 1), 0)
  OBVIOUS
<1> HIDE DEF G
<1>6. \A k \in at..limit : k # at => k \in (at + 1)..limit /\ k - 1 \in at..limit
  BY <1>1
<1>7. \A k \in at..limit : k # at =>
        G[<<f[k - 1], k>>] = PutWide(f[k - 1], d + 2 * (k - 1), 0)
  BY <1>5, <1>6
<1>8. P(f)
  BY <1>4, <1>7 DEF Recursive
<1>9. P(g)
  <2> HIDE DEF P
  <2> QED BY <1>8
<1>10. Zeros(m, d, at, limit) = g[limit]
  BY Zenon DEF Zeros
<1> HIDE DEF g
<1>11. g[at] = m
       /\ \A k \in (at + 1)..limit : g[k] = PutWide(g[k - 1], d + 2 * (k - 1), 0)
  BY <1>1, <1>9
<1>12. g \in [at..limit -> Memory]
  <2> DEFINE J == {k \in 0..(limit - at) : g[at + k] \in Memory}
  <2>1. 0 \in J
    BY <1>1, <1>11
  <2>2. ASSUME NEW k \in 0..((limit - at) - 1), k \in J PROVE k + 1 \in J
    <3>1. at + (k + 1) \in (at + 1)..limit /\ (at + (k + 1)) - 1 = at + k
          /\ k + 1 \in 0..(limit - at)
      BY <1>1
    <3>2. g[at + (k + 1)] = PutWide(g[at + k], d + 2 * ((at + (k + 1)) - 1), 0)
      BY <1>11, <3>1
    <3> QED BY <1>2, <2>2, <3>1, <3>2
  <2> HIDE DEF J
  <2>3. limit - at \in Nat
    BY <1>1
  <2>4. 0..(limit - at) \subseteq J
    BY <2>1, <2>2, <2>3, UpTo
  <2>5. ASSUME NEW k \in at..limit PROVE g[k] \in Memory
    <3>1. k - at \in 0..(limit - at) /\ at + (k - at) = k
      BY <1>1
    <3>2. k - at \in J
      BY <2>4, <3>1
    <3> QED BY <3>1, <3>2 DEF J
  <2>6. g = [k \in at..limit |-> g[k]]
    BY <1>9
  <2> QED BY <2>5, <2>6
<1> QED BY <1>10, <1>11, <1>12 DEF ZerosRun

\* z is m with zeros from one place to another.
ZerosBehind(z, m, d, at, limit) ==
  /\ \A c \in Mapped : c \notin (d + 2 * at)..(d + 2 * limit - 1) => z[c] = m[c]
  /\ Readable(d, 2 * limit) =>
       \A i \in at..(limit - 1) : z[d + 2 * i] = 0 /\ z[d + 2 * i + 1] = 0

LEMMA ZerosWrite ==
  ASSUME NEW m \in Memory, NEW d \in Nat, NEW limit \in Nat, NEW at \in 0..limit,
         NEW z, z = Zeros(m, d, at, limit)
  PROVE  z \in Memory /\ ZerosBehind(z, m, d, at, limit)
<1>1. PICK f : ZerosRun(f, m, d, at, limit) /\ z = f[limit]
  BY ZerosAre
<1> DEFINE Done(k) ==
             /\ \A c \in Mapped : c \notin (d + 2 * at)..(d + 2 * (at + k) - 1) =>
                                    f[at + k][c] = m[c]
             /\ Readable(d, 2 * limit) =>
                  \A i \in at..(at + k - 1) : /\ f[at + k][d + 2 * i] = 0
                                              /\ f[at + k][d + 2 * i + 1] = 0
           J == {k \in 0..(limit - at) : Done(k)}
<1>2. 0 \in J
  <2>1. f[at + 0] = m
    BY <1>1 DEF ZerosRun
  <2> QED BY <2>1
<1>3. ASSUME NEW k \in 0..((limit - at) - 1), k \in J PROVE k + 1 \in J
  <2> DEFINE a == d + 2 * (at + k)
             now == f[at + k]
             new == f[at + (k + 1)]
  <2>1. /\ at + (k + 1) \in (at + 1)..limit /\ (at + (k + 1)) - 1 = at + k
        /\ k + 1 \in 0..(limit - at) /\ a \in Nat /\ at + k \in at..limit
    OBVIOUS
  <2>2. new = PutWide(now, a, 0) /\ now \in Memory
    BY <1>1, <2>1 DEF ZerosRun
  <2>3. Done(k)
    BY <1>3
  <2>4. 0 \in WideChar /\ 0 % Radix = 0 /\ 0 \div Radix = 0
    <3>1. 0 \in WideChar /\ 0 < Radix
      BY WideNumbers DEF WideChar
    <3> QED BY <3>1, CellsOfWide
  <2> HIDE DEF new, now
  <2>5. /\ \A c \in Mapped : c # a /\ c # a + 1 => new[c] = now[c]
        /\ Readable(a, 2) => new[a] = 0 /\ new[a + 1] = 0
    BY <2>1, <2>2, <2>4, PutWideIs
  <2>6. ASSUME NEW c \in Mapped, c \notin (d + 2 * at)..(d + 2 * (at + (k + 1)) - 1)
        PROVE  new[c] = m[c]
    <3>1. c \in Nat
      BY Addresses
    <3>2. c # a /\ c # a + 1 /\ c \notin (d + 2 * at)..(d + 2 * (at + k) - 1)
      BY <2>6, <3>1
    <3> QED BY <2>3, <2>5, <3>2 DEF now
  <2>7. ASSUME Readable(d, 2 * limit), NEW i \in at..(at + (k + 1) - 1)
        PROVE  new[d + 2 * i] = 0 /\ new[d + 2 * i + 1] = 0
    <3>1. CASE i = at + k
      <4>1. Readable(a, 2)
        BY <2>7 DEF Readable
      <4> QED BY <2>5, <3>1, <4>1
    <3>2. CASE i # at + k
      <4>1. i \in at..(at + k - 1) /\ d + 2 * i # a /\ d + 2 * i # a + 1
            /\ d + 2 * i + 1 # a /\ d + 2 * i + 1 # a + 1
        BY <3>2
      <4>2. d + 2 * i \in Mapped /\ d + 2 * i + 1 \in Mapped
        BY <2>7, <4>1 DEF Readable
      <4>3. now[d + 2 * i] = 0 /\ now[d + 2 * i + 1] = 0
        BY <2>3, <2>7, <4>1 DEF now
      <4> QED BY <2>5, <4>1, <4>2, <4>3
    <3> QED BY <3>1, <3>2
  <2>8. Done(k + 1)
    BY <2>6, <2>7 DEF new
  <2> HIDE DEF Done
  <2> QED BY <2>1, <2>8
<1>4. limit - at \in Nat /\ limit - at \in 0..(limit - at) /\ at + (limit - at) = limit
  OBVIOUS
<1> HIDE DEF J
<1>5. limit - at \in J
  BY <1>2, <1>3, <1>4, UpTo
<1>6. Done(limit - at)
  BY <1>5 DEF J
<1>7. z \in Memory
  BY <1>1, <1>4 DEF ZerosRun
<1> QED BY <1>1, <1>4, <1>6, <1>7 DEF ZerosBehind

-----------------------------------------------------------------------------
(***************************************************************************)
(* wcsncpy: a copy, and zeros behind it.                                   *)
(***************************************************************************)
StopOfCopy(m, d, s, limit) ==
  FirstStop(limit, LAMBDA i : WideAt(CopyWide(m, d, s, i).mem, s + 2 * i) = 0)

LEMMA StopOfCopyIs ==
  ASSUME NEW m, NEW d, NEW s, NEW limit \in Nat,
         NEW at, at = StopOfCopy(m, d, s, limit)
  PROVE  /\ at \in 0..limit /\ at \in Nat
         /\ at = limit \/ WideAt(CopyWide(m, d, s, at).mem, s + 2 * at) = 0
         /\ \A i \in 0..(at - 1) : WideAt(CopyWide(m, d, s, i).mem, s + 2 * i) # 0
<1> DEFINE S == {i \in 0..limit : WideAt(CopyWide(m, d, s, i).mem, s + 2 * i) = 0}
           P(k) == /\ k = limit \/ WideAt(CopyWide(m, d, s, k).mem, s + 2 * k) = 0
                   /\ \A i \in 0..(k - 1) :
                        ~(WideAt(CopyWide(m, d, s, i).mem, s + 2 * i) = 0)
           l == CHOOSE k \in 0..limit : P(k)
<1>1. PICK k \in 0..limit : (k = limit \/ k \in S) /\ \A i \in 0..(k - 1) : i \notin S
  <2> HIDE DEF S
  <2> QED BY FirstIn
<1>2. \A i \in 0..(k - 1) : i \in 0..limit
  OBVIOUS
<1>3. P(k)
  BY <1>1, <1>2
<1> HIDE DEF P
<1>4. l \in 0..limit /\ P(l)
  BY <1>3
<1>5. StopOfCopy(m, d, s, limit) = l
  BY Zenon DEF StopOfCopy, FirstStop, P
<1> HIDE DEF l
<1> QED BY <1>4, <1>5 DEF P

WcsncpyLimit(n) == Lesser(((2 * n) % RegSize) \div 2, WideMax)

LEMMA WcsncpyLimitIs ==
  ASSUME NEW n \in Nat
  PROVE  /\ WcsncpyLimit(n) \in Nat
         /\ n <= WideMax => WcsncpyLimit(n) = n
<1>1. PICK r \in Nat : r = RegSize /\ 2 * WideMax < r
  BY WideNumbers, Numbers
<1>2. WideMax \in Nat /\ r > 0
  BY <1>1, WideNumbers
<1>3. (2 * n) % r \in Nat
  BY <1>2
<1>4. ((2 * n) % r) \div 2 \in Nat
  <2>1. \A k \in Nat : k \div 2 \in Nat
    OBVIOUS
  <2> QED BY <1>3, <2>1
<1>5. n <= WideMax => ((2 * n) % r) \div 2 = n
  <2>1. n <= WideMax => 2 * n \in 0..(r - 1)
    BY <1>1, <1>2
  <2>2. n <= WideMax => (2 * n + r * 0) % r = 2 * n
    BY <1>2, <2>1, QuotientIs
  <2>3. r * 0 = 0 /\ (2 * n) \div 2 = n /\ 2 * n + 0 = 2 * n
    OBVIOUS
  <2> QED BY <2>2, <2>3
<1> QED BY <1>1, <1>2, <1>4, <1>5, LesserIs DEF WcsncpyLimit

\* What wcsncpy does, in the parts above.
WcsncpyBy(d, s, limit, x) ==
  Outcome(d, IF x.ended THEN Zeros(x.mem, d, StopOfCopy(mem, d, s, limit), limit)
                        ELSE x.mem)

LEMMA WcsncpyIs ==
  ASSUME NEW d, NEW s, NEW n
  PROVE  Wcsncpy(d, s, n) =
           WcsncpyBy(d, s, WcsncpyLimit(n), CopyWide(mem, d, s, WcsncpyLimit(n)))
BY Zenon DEF Wcsncpy, WcsncpyBy, WcsncpyLimit, Zeros, StopOfCopy

LEMMA WcsncpyType ==
  ASSUME Typed, NEW d \in Nat, d \in Register, NEW s \in Nat, NEW n \in Nat
  PROVE  OutcomeOK(Wcsncpy(d, s, n))
<1>1. PICK limit \in Nat : limit = WcsncpyLimit(n)
  BY WcsncpyLimitIs
<1>2. PICK x : x = CopyWide(mem, d, s, limit)
  OBVIOUS
<1>3. x.mem \in Memory
  BY <1>2, CopyWideType DEF Typed
<1>4. PICK at \in 0..limit : at = StopOfCopy(mem, d, s, limit)
  BY StopOfCopyIs
<1>5. PICK z \in Memory : z = Zeros(x.mem, d, at, limit)
  BY <1>3, ZerosWrite
<1>6. Wcsncpy(d, s, n) = Outcome(d, IF x.ended THEN z ELSE x.mem)
  BY <1>1, <1>2, <1>4, <1>5, WcsncpyIs DEF WcsncpyBy
<1>7. (IF x.ended THEN z ELSE x.mem) \in Memory
  BY <1>3, <1>5
<1> QED BY <1>6, <1>7, OutcomeType

\* Where a copy has reached, what comes next is still as it was.
LEMMA CopyKeepsAhead ==
  ASSUME NEW m \in Memory, NEW d \in Nat, NEW s \in Nat, NEW n \in Nat,
         Readable(s, 2 * n), Apart(d, 2 * n, s, 2 * n), NEW i \in 0..(n - 1),
         SourceIs(m, s, i)
  PROVE  WideAt(CopyWide(m, d, s, i).mem, s + 2 * i) = WideAt(m, s + 2 * i)
<1>1. i \in Nat /\ i \in 0..i /\ s + 2 * i \in Nat /\ Apart(d, 2 * i, s, 2 * i)
  BY DEF Apart
<1>2. PICK x : x = CopyWide(m, d, s, i)
  OBVIOUS
<1>3. Copied(x, m, d, s, i)
  BY <1>1, <1>2, CopiesAll
<1>4. /\ s + 2 * i \in Mapped /\ s + 2 * i + 1 \in Mapped
      /\ Readable(s + 2 * i, 2)
  BY DEF Readable
<1>5. /\ s + 2 * i \notin d..(d + 2 * i - 1)
      /\ s + 2 * i + 1 \notin d..(d + 2 * i - 1)
  BY DEF Apart
<1>6. x.mem[s + 2 * i] = m[s + 2 * i] /\ x.mem[s + 2 * i + 1] = m[s + 2 * i + 1]
  BY <1>3, <1>4, <1>5 DEF Copied
<1> QED BY <1>2, <1>4, <1>6 DEF WideAt

\* A wide string of less than n characters, with zeros up to n.
Padded(m, a, n) ==
  [i \in 1..n |-> IF i <= Len(WidePartOf(m, a, n)) THEN WidePartOf(m, a, n)[i] ELSE 0]

LEMMA WcsncpyWrites ==
  ASSUME mem \in Memory, NEW d \in Nat, NEW s \in Nat, NEW n \in Nat, NEW w,
         n <= WideMax, Readable(s, 2 * n), w = Padded(mem, s, n),
         Apart(d, 2 * n, s, 2 * n)
  PROVE  WroteBy(Wcsncpy(d, s, n), d, Cells(w))
<1>1. WcsncpyLimit(n) = n
  BY WcsncpyLimitIs
<1>2. PICK x : x = CopyWide(mem, d, s, n)
  OBVIOUS
<1>3. x.mem \in Memory
  BY <1>2, CopyWideType
<1>4. Wcsncpy(d, s, n) = WcsncpyBy(d, s, n, x)
  BY <1>1, <1>2, WcsncpyIs
<1>5. PICK v : v = WidePartOf(mem, s, n)
  OBVIOUS
<1>6. IsWidePart(v, mem, s, n) /\ Len(v) \in 0..n /\ Len(v) \in Nat
  <2>1. IsWidePart(v, mem, s, n)
    BY <1>5, WidePartFacts
  <2>2. Len(v) \in 0..n
    BY <2>1 DEF IsWidePart
  <2> QED BY <2>1, <2>2
<1>7. w = [i \in 1..n |-> IF i <= Len(v) THEN v[i] ELSE 0]
  BY <1>5 DEF Padded
<1>8. Len(w) = n
  BY <1>7
<1>9. CASE ~(WideLength(mem, s, n) < n)
  <2>1. IsSource(v, mem, s, n) /\ ~EndsIn(mem, s, n) /\ Len(v) = n
    BY <1>5, <1>9, OpenWide
  <2>2. n \in 0..n /\ SourceIs(mem, s, n)
    BY <2>1 DEF IsSource
  <2>3. Copied(x, mem, d, s, n)
    BY <1>2, <2>2, CopiesAll
  <2>4. ~x.ended
    BY <2>1, <2>3 DEF Copied
  <2>5. \A i \in 0..(n - 1) : w[i + 1] = WideAt(mem, s + 2 * i)
    <3>1. \A i \in 0..(n - 1) : i + 1 \in 1..n /\ i + 1 <= n
      OBVIOUS
    <3>2. \A i \in 0..(n - 1) : w[i + 1] = v[i + 1]
      BY <1>7, <2>1, <3>1
    <3> QED BY <2>1, <3>2 DEF IsSource
  <2>6. IsSource(w, mem, s, n)
    BY <1>8, <2>2, <2>5 DEF IsSource
  <2> QED BY <1>4, <1>8, <2>3, <2>4, <2>6, CopiedIsWritten DEF WcsncpyBy
<1>10. CASE WideLength(mem, s, n) < n
  <2>1. PICK l \in Nat : l = Len(v) /\ l = WideLength(mem, s, n) /\ l < n
    BY <1>6, <1>10 DEF IsWidePart
  <2>2. /\ SourceIs(mem, s, l + 1) /\ EndsIn(mem, s, l + 1)
        /\ l + 1 \in 0..n
    <3>1. Len(Append(v, 0)) = l + 1 /\ IsSource(Append(v, 0), mem, s, n)
          /\ EndsIn(mem, s, Len(Append(v, 0)))
      BY <1>5, <1>10, <2>1, WholeWide
    <3> QED BY <3>1 DEF IsSource
  <2>3. Apart(d, 2 * (l + 1), s, 2 * (l + 1))
    BY <2>1 DEF Apart
  <2>4. Copied(x, mem, d, s, l + 1)
    BY <1>2, <2>2, <2>3, CopiesAll
  <2>5. x.ended
    BY <2>2, <2>4 DEF Copied
  <2>6. \A i \in 0..l : WideAt(CopyWide(mem, d, s, i).mem, s + 2 * i)
                          = WideAt(mem, s + 2 * i)
    <3> SUFFICES ASSUME NEW i \in 0..l
                 PROVE  WideAt(CopyWide(mem, d, s, i).mem, s + 2 * i)
                          = WideAt(mem, s + 2 * i)
      OBVIOUS
    <3>1. SourceIs(mem, s, i)
      <4>1. Readable(s, 2 * i)
        BY <2>1 DEF Readable
      <4>2. \A j \in 0..(i - 2) : j \in 0..((l + 1) - 2)
        BY <2>1
      <4> QED BY <2>2, <4>1, <4>2 DEF SourceIs
    <3>2. i \in 0..(n - 1)
      BY <2>1
    <3> QED BY <3>1, <3>2, CopyKeepsAhead
  <2>7. \A i \in 0..(l - 1) : w[i + 1] = WideAt(mem, s + 2 * i)
                              /\ WideAt(mem, s + 2 * i) # 0
    <3>1. \A i \in 0..(l - 1) : i + 1 \in 1..n /\ i + 1 <= l
      BY <2>1
    <3>2. \A i \in 0..(l - 1) : w[i + 1] = v[i + 1]
      BY <1>7, <2>1, <3>1
    <3>3. \A i \in 0..(l - 1) : v[i + 1] = WideAt(mem, s + 2 * i) /\ v[i + 1] # 0
      BY <1>6, <2>1 DEF IsWidePart
    <3> QED BY <3>2, <3>3
  <2>8. WideAt(mem, s + 2 * l) = 0
    <3>1. (l + 1) - 1 = l
      BY <2>1
    <3> QED BY <2>2, <3>1 DEF EndsIn
  <2>9. PICK at \in Nat : at = StopOfCopy(mem, d, s, n)
    BY StopOfCopyIs
  <2>10. /\ at \in 0..n
         /\ at = n \/ WideAt(CopyWide(mem, d, s, at).mem, s + 2 * at) = 0
         /\ \A i \in 0..(at - 1) : WideAt(CopyWide(mem, d, s, i).mem, s + 2 * i) # 0
    BY <2>9, StopOfCopyIs
  <2>11. at = l
    <3>1. ~(at < l)
      <4>1. at < l => at \in 0..(l - 1) /\ at \in 0..l /\ at # n
        BY <2>1
      <4> QED BY <2>6, <2>7, <2>10, <4>1
    <3>2. ~(l < at)
      <4>1. l < at => l \in 0..(at - 1) /\ l \in 0..l
        BY <2>1
      <4> QED BY <2>6, <2>8, <2>10, <4>1
    <3> QED BY <2>1, <2>9, <3>1, <3>2
  <2>12. PICK z : z = Zeros(x.mem, d, l, n)
    OBVIOUS
  <2>13. Wcsncpy(d, s, n) = Outcome(d, z)
    BY <1>4, <2>5, <2>9, <2>11, <2>12 DEF WcsncpyBy
  <2>14. l \in 0..n
    BY <2>1
  <2>15. /\ \A c \in Mapped : c \notin (d + 2 * l)..(d + 2 * n - 1) => z[c] = x.mem[c]
         /\ Readable(d, 2 * n) =>
              \A i \in l..(n - 1) : z[d + 2 * i] = 0 /\ z[d + 2 * i + 1] = 0
    <3>1. PICK y \in Memory : y = x.mem
      BY <1>3
    <3>2. z = Zeros(y, d, l, n)
      BY <2>12, <3>1
    <3>3. ZerosBehind(z, y, d, l, n)
      BY <2>14, <3>2, ZerosWrite
    <3> QED BY <3>1, <3>3 DEF ZerosBehind
  <2>16. ASSUME NEW c \in Mapped, c \notin d..(d + 2 * n - 1) PROVE z[c] = mem[c]
    <3>1. c \in Nat
      BY Addresses
    <3>2. c \notin (d + 2 * l)..(d + 2 * n - 1) /\ c \notin d..(d + 2 * (l + 1) - 1)
      BY <2>1, <2>16, <3>1
    <3> QED BY <2>4, <2>15, <3>2 DEF Copied
  <2>17. ASSUME Readable(d, 2 * n), NEW i \in 0..(n - 1)
         PROVE  /\ z[d + 2 * i] = WideCells(w[i + 1])[1]
                /\ z[d + 2 * i + 1] = WideCells(w[i + 1])[2]
    <3>1. CASE i < l
      <4>1. /\ 2 * i \in 0..(2 * (l + 1) - 1) /\ 2 * i + 1 \in 0..(2 * (l + 1) - 1)
            /\ d + (2 * i + 1) = d + 2 * i + 1 /\ s + (2 * i + 1) = s + 2 * i + 1
            /\ i \in 0..(l - 1) /\ s + 2 * i \in Nat
        BY <2>1, <3>1
      <4>2. Readable(d, 2 * (l + 1)) /\ Readable(s + 2 * i, 2)
            /\ d + 2 * i \in Mapped /\ d + 2 * i + 1 \in Mapped
        BY <2>1, <2>17 DEF Readable
      <4>3. x.mem[d + 2 * i] = mem[s + 2 * i] /\ x.mem[d + 2 * i + 1] = mem[s + 2 * i + 1]
        <5>1. \A j \in 0..(2 * (l + 1) - 1) : x.mem[d + j] = mem[s + j]
          BY <2>4, <4>2 DEF Copied
        <5>2. x.mem[d + 2 * i] = mem[s + 2 * i]
          BY <4>1, <5>1, Zenon
        <5>3. x.mem[d + (2 * i + 1)] = mem[s + (2 * i + 1)]
          BY <4>1, <5>1, Zenon
        <5> QED BY <4>1, <5>2, <5>3, Zenon
      <4>4. z[d + 2 * i] = x.mem[d + 2 * i] /\ z[d + 2 * i + 1] = x.mem[d + 2 * i + 1]
        <5>1. /\ d + 2 * i \notin (d + 2 * l)..(d + 2 * n - 1)
              /\ d + 2 * i + 1 \notin (d + 2 * l)..(d + 2 * n - 1)
          BY <2>1, <4>1
        <5> QED BY <2>15, <4>2, <5>1
      <4>5. WideCells(WideAt(mem, s + 2 * i)) = <<mem[s + 2 * i], mem[s + 2 * i + 1]>>
        BY <4>1, <4>2, WideAtType
      <4>6. w[i + 1] = WideAt(mem, s + 2 * i)
        BY <2>7, <4>1
      <4> HIDE <1>7
      <4> QED BY <4>3, <4>4, <4>5, <4>6
    <3>2. CASE ~(i < l)
      <4>1. i \in l..(n - 1) /\ i + 1 \in 1..n /\ ~(i + 1 <= l)
        BY <2>1, <3>2
      <4>2. w[i + 1] = 0
        BY <1>7, <2>1, <4>1
      <4>3. z[d + 2 * i] = 0 /\ z[d + 2 * i + 1] = 0
        BY <2>15, <2>17, <4>1
      <4>4. WideCells(0) = <<0, 0>>
        <5>1. 0 \in WideChar /\ 0 < Radix
          BY WideNumbers DEF WideChar
        <5> QED BY <5>1, CellsOfWide
      <4> QED BY <4>2, <4>3, <4>4
    <3> QED BY <3>1, <3>2
  <2>18. PICK out : out = Outcome(d, z)
    OBVIOUS
  <2>19. ~out.panics /\ out.mem = z
    BY <2>18 DEF Outcome
  <2>20. WroteBy(out, d, Cells(w))
    BY <1>8, <2>16, <2>17, <2>19, WritesCells
  <2> QED BY <2>13, <2>18, <2>20
<1> QED BY <1>9, <1>10

-----------------------------------------------------------------------------
(***************************************************************************)
(* The conversions between multibyte and wide strings.                     *)
(***************************************************************************)
ConvState(limit) == [mem : Memory, count : 0..limit, ended : BOOLEAN]

ConvStart(m) == [mem |-> m, count |-> 0, ended |-> FALSE]

\* The body of mbstowcs's loop.
MbsRound(x, d, s, k) ==
  IF x.ended THEN x
  ELSE [mem |-> IF d = 0 THEN x.mem
                ELSE PutWide(x.mem, d + 2 * (k - 1), CellAt(x.mem, s + k - 1)),
        count |-> IF CellAt(x.mem, s + k - 1) = 0 THEN k - 1 ELSE k,
        ended |-> CellAt(x.mem, s + k - 1) = 0]

LEMMA MbsRoundType ==
  ASSUME NEW limit \in Nat, NEW x \in ConvState(limit), NEW d \in Nat, NEW s \in Nat,
         NEW k \in 1..limit
  PROVE  MbsRound(x, d, s, k) \in ConvState(limit)
<1>1. x.mem \in Memory /\ x.count \in 0..limit /\ x.ended \in BOOLEAN
  BY DEF ConvState
<1>2. d + 2 * (k - 1) \in Nat /\ k - 1 \in 0..limit /\ k \in 0..limit
  OBVIOUS
<1>3. PICK c : c = CellAt(x.mem, s + k - 1)
  OBVIOUS
<1>4. c \in WideChar
  BY <1>1, <1>3, CellAtType
<1>5. PutWide(x.mem, d + 2 * (k - 1), c) \in Memory
  BY <1>1, <1>2, <1>4, PutWideIs
<1>6. (IF d = 0 THEN x.mem ELSE PutWide(x.mem, d + 2 * (k - 1), c)) \in Memory
  BY <1>1, <1>5
<1>7. (IF c = 0 THEN k - 1 ELSE k) \in 0..limit
  BY <1>2
<1>8. MbsRound(x, d, s, k) =
        IF x.ended THEN x
        ELSE [mem |-> IF d = 0 THEN x.mem ELSE PutWide(x.mem, d + 2 * (k - 1), c),
              count |-> IF c = 0 THEN k - 1 ELSE k, ended |-> c = 0]
  BY <1>3 DEF MbsRound
<1>9. (c = 0) \in BOOLEAN
  OBVIOUS
<1>10. PICK y \in Memory :
         y = IF d = 0 THEN x.mem ELSE PutWide(x.mem, d + 2 * (k - 1), c)
  BY <1>6
<1>11. PICK e \in 0..limit : e = IF c = 0 THEN k - 1 ELSE k
  BY <1>7
<1>12. [mem |-> y, count |-> e, ended |-> c = 0] \in ConvState(limit)
  BY <1>9 DEF ConvState
<1>13. MbsRound(x, d, s, k) = IF x.ended THEN x
                             ELSE [mem |-> y, count |-> e, ended |-> c = 0]
  BY <1>8, <1>10, <1>11
<1> QED BY <1>12, <1>13

MbsRun(f, m, d, s, limit) ==
  /\ f \in [0..limit -> ConvState(limit)]
  /\ f[0] = ConvStart(m)
  /\ \A k \in 1..limit : f[k] = MbsRound(f[k - 1], d, s, k)

MbstowcsBy(f, limit) == Outcome(f[limit].count, f[limit].mem)

LEMMA MbstowcsIs ==
  ASSUME mem \in Memory, NEW d \in Nat, NEW s \in Nat, NEW n \in Nat
  PROVE  \E f : /\ MbsRun(f, mem, d, s, Lesser(n, WideMax))
                /\ Mbstowcs(d, s, n) = MbstowcsBy(f, Lesser(n, WideMax))
<1> DEFINE limit == Lesser(n, WideMax)
           S == ConvState(limit)
           start == ConvStart(mem)
           G == [p \in S \X (1..limit) |-> MbsRound(p[1], d, s, p[2])]
           P(f) == f = [k \in 0..limit |->
                     IF k = 0 THEN [mem |-> mem, count |-> 0, ended |-> FALSE]
                     ELSE IF f[k - 1].ended THEN f[k - 1]
                     ELSE LET now == f[k - 1].mem
                              b   == CellAt(now, s + k - 1)
                          IN  [mem |-> IF d = 0 THEN now
                                       ELSE PutWide(now, d + 2 * (k - 1), b),
                               count |-> IF b = 0 THEN k - 1 ELSE k,
                               ended |-> b = 0]]
           g == CHOOSE f : P(f)
<1>1. limit \in Nat
  BY WideNumbers, LesserIs
<1>2. Mbstowcs(d, s, n) = MbstowcsBy(g, limit)
  BY Zenon DEF Mbstowcs, MbstowcsBy
<1> HIDE DEF limit
<1>3. start \in S
  <2>1. 0 \in 0..limit
    BY <1>1
  <2> QED BY <2>1 DEF ConvStart, ConvState
<1>4. \A x \in S : \A k \in 1..limit : MbsRound(x, d, s, k) \in S
  BY <1>1, MbsRoundType
<1> HIDE DEF start, S
<1>5. G \in [S \X ((0 + 1)..limit) -> S]
  <2>1. 0 + 1 = 1
    OBVIOUS
  <2> QED BY <1>4, <2>1
<1>6. PICK f \in [0..limit -> S] : Recursive(f, 0, limit, start, G)
  <2>1. 0 \in Nat /\ 0 <= limit
    BY <1>1
  <2> HIDE DEF G
  <2> QED BY <1>1, <1>3, <1>5, <2>1, Recursion
<1>7. ASSUME NEW k \in 1..limit, NEW x \in S
      PROVE  G[<<x, k>>] = MbsRound(x, d, s, k)
  OBVIOUS
<1> HIDE DEF G
<1>8. \A k \in 0..limit : k # 0 => k \in 1..limit /\ k - 1 \in 0..limit
  BY <1>1
<1>9. \A k \in 0..limit : k # 0 => G[<<f[k - 1], k>>] = MbsRound(f[k - 1], d, s, k)
  BY <1>7, <1>8
<1>10. f = [k \in 0..limit |-> IF k = 0 THEN start ELSE MbsRound(f[k - 1], d, s, k)]
  BY <1>6, <1>9 DEF Recursive
<1>11. P(f)
  BY <1>10 DEF MbsRound, start, ConvStart
<1>12. P(g)
  <2> HIDE DEF P
  <2> QED BY <1>11
<1> HIDE DEF g
<1>13. g = [k \in 0..limit |-> IF k = 0 THEN start ELSE MbsRound(g[k - 1], d, s, k)]
  BY <1>12 DEF MbsRound, start, ConvStart
<1> HIDE DEF P
<1>14. g[0] = start /\ \A k \in 1..limit : g[k] = MbsRound(g[k - 1], d, s, k)
  BY <1>1, <1>13
<1>15. g \in [0..limit -> S]
  <2> DEFINE J == {k \in 0..limit : g[k] \in S}
  <2>1. 0 \in J
    BY <1>1, <1>3, <1>14
  <2>2. ASSUME NEW k \in 0..(limit - 1), k \in J PROVE k + 1 \in J
    <3>1. /\ (k + 1) - 1 = k /\ k + 1 \in 1..limit /\ k + 1 \in 0..limit
      BY <1>1
    <3>2. g[k + 1] = MbsRound(g[k], d, s, k + 1)
      BY <1>14, <3>1
    <3> QED BY <1>4, <2>2, <3>1, <3>2
  <2> HIDE DEF J
  <2>3. 0..limit \subseteq J
    BY <1>1, <2>1, <2>2, UpTo
  <2>4. \A k \in 0..limit : g[k] \in S
    BY <2>3 DEF J
  <2> QED BY <1>13, <2>4
<1>16. MbsRun(g, mem, d, s, limit)
  BY <1>14, <1>15 DEF MbsRun, start, S
<1> QED BY <1>2, <1>16 DEF limit

\* The body of wcstombs's loop.
WcsRound(x, d, s, k) ==
  IF x.ended THEN x
  ELSE [mem |-> IF d = 0 THEN x.mem
                ELSE PutCell(x.mem, d + k - 1, WideAt(x.mem, s + 2 * (k - 1)) % Radix),
        count |-> IF WideAt(x.mem, s + 2 * (k - 1)) = 0 THEN k - 1 ELSE k,
        ended |-> WideAt(x.mem, s + 2 * (k - 1)) = 0]

LEMMA WcsRoundType ==
  ASSUME NEW limit \in Nat, NEW x \in ConvState(limit), NEW d \in Nat, NEW s \in Nat,
         NEW k \in 1..limit
  PROVE  WcsRound(x, d, s, k) \in ConvState(limit)
<1>1. x.mem \in Memory /\ x.count \in 0..limit /\ x.ended \in BOOLEAN
  BY DEF ConvState
<1>2. s + 2 * (k - 1) \in Nat /\ k - 1 \in 0..limit /\ k \in 0..limit
  OBVIOUS
<1>3. PICK c : c = WideAt(x.mem, s + 2 * (k - 1))
  OBVIOUS
<1>4. c \in WideChar
  BY <1>1, <1>2, <1>3, WideAtType
<1>5. PutCell(x.mem, d + k - 1, c % Radix) \in Memory
  <2>1. c % Radix \in Char
    BY <1>4, CellsOfWide
  <2> QED BY <1>1, <2>1, PutCellIs
<1>6. (IF d = 0 THEN x.mem ELSE PutCell(x.mem, d + k - 1, c % Radix)) \in Memory
  BY <1>1, <1>5
<1>7. (IF c = 0 THEN k - 1 ELSE k) \in 0..limit
  BY <1>2
<1>8. WcsRound(x, d, s, k) =
        IF x.ended THEN x
        ELSE [mem |-> IF d = 0 THEN x.mem ELSE PutCell(x.mem, d + k - 1, c % Radix),
              count |-> IF c = 0 THEN k - 1 ELSE k, ended |-> c = 0]
  BY <1>3 DEF WcsRound
<1>9. (c = 0) \in BOOLEAN
  OBVIOUS
<1>10. PICK y \in Memory :
         y = IF d = 0 THEN x.mem ELSE PutCell(x.mem, d + k - 1, c % Radix)
  BY <1>6
<1>11. PICK e \in 0..limit : e = IF c = 0 THEN k - 1 ELSE k
  BY <1>7
<1>12. [mem |-> y, count |-> e, ended |-> c = 0] \in ConvState(limit)
  BY <1>9 DEF ConvState
<1>13. WcsRound(x, d, s, k) = IF x.ended THEN x
                             ELSE [mem |-> y, count |-> e, ended |-> c = 0]
  BY <1>8, <1>10, <1>11
<1> QED BY <1>12, <1>13

WcsRun(f, m, d, s, limit) ==
  /\ f \in [0..limit -> ConvState(limit)]
  /\ f[0] = ConvStart(m)
  /\ \A k \in 1..limit : f[k] = WcsRound(f[k - 1], d, s, k)

WcstombsBy(f, limit) == Outcome(f[limit].count, f[limit].mem)

LEMMA WcstombsIs ==
  ASSUME mem \in Memory, NEW d \in Nat, NEW s \in Nat, NEW n \in Nat
  PROVE  \E f : /\ WcsRun(f, mem, d, s, Lesser(n, WideMax))
                /\ Wcstombs(d, s, n) = WcstombsBy(f, Lesser(n, WideMax))
<1> DEFINE limit == Lesser(n, WideMax)
           S == ConvState(limit)
           start == ConvStart(mem)
           G == [p \in S \X (1..limit) |-> WcsRound(p[1], d, s, p[2])]
           P(f) == f = [k \in 0..limit |->
                     IF k = 0 THEN [mem |-> mem, count |-> 0, ended |-> FALSE]
                     ELSE IF f[k - 1].ended THEN f[k - 1]
                     ELSE LET now == f[k - 1].mem
                              wc  == WideAt(now, s + 2 * (k - 1))
                          IN  [mem |-> IF d = 0 THEN now
                                       ELSE PutCell(now, d + k - 1, wc % Radix),
                               count |-> IF wc = 0 THEN k - 1 ELSE k,
                               ended |-> wc = 0]]
           g == CHOOSE f : P(f)
<1>1. limit \in Nat
  BY WideNumbers, LesserIs
<1>2. Wcstombs(d, s, n) = WcstombsBy(g, limit)
  BY Zenon DEF Wcstombs, WcstombsBy
<1> HIDE DEF limit
<1>3. start \in S
  <2>1. 0 \in 0..limit
    BY <1>1
  <2> QED BY <2>1 DEF ConvStart, ConvState
<1>4. \A x \in S : \A k \in 1..limit : WcsRound(x, d, s, k) \in S
  BY <1>1, WcsRoundType
<1> HIDE DEF start, S
<1>5. G \in [S \X ((0 + 1)..limit) -> S]
  <2>1. 0 + 1 = 1
    OBVIOUS
  <2> QED BY <1>4, <2>1
<1>6. PICK f \in [0..limit -> S] : Recursive(f, 0, limit, start, G)
  <2>1. 0 \in Nat /\ 0 <= limit
    BY <1>1
  <2> HIDE DEF G
  <2> QED BY <1>1, <1>3, <1>5, <2>1, Recursion
<1>7. ASSUME NEW k \in 1..limit, NEW x \in S
      PROVE  G[<<x, k>>] = WcsRound(x, d, s, k)
  OBVIOUS
<1> HIDE DEF G
<1>8. \A k \in 0..limit : k # 0 => k \in 1..limit /\ k - 1 \in 0..limit
  BY <1>1
<1>9. \A k \in 0..limit : k # 0 => G[<<f[k - 1], k>>] = WcsRound(f[k - 1], d, s, k)
  BY <1>7, <1>8
<1>10. f = [k \in 0..limit |-> IF k = 0 THEN start ELSE WcsRound(f[k - 1], d, s, k)]
  BY <1>6, <1>9 DEF Recursive
<1>11. P(f)
  BY <1>10 DEF WcsRound, start, ConvStart
<1>12. P(g)
  <2> HIDE DEF P
  <2> QED BY <1>11
<1> HIDE DEF g
<1>13. g = [k \in 0..limit |-> IF k = 0 THEN start ELSE WcsRound(g[k - 1], d, s, k)]
  BY <1>12 DEF WcsRound, start, ConvStart
<1> HIDE DEF P
<1>14. g[0] = start /\ \A k \in 1..limit : g[k] = WcsRound(g[k - 1], d, s, k)
  BY <1>1, <1>13
<1>15. g \in [0..limit -> S]
  <2> DEFINE J == {k \in 0..limit : g[k] \in S}
  <2>1. 0 \in J
    BY <1>1, <1>3, <1>14
  <2>2. ASSUME NEW k \in 0..(limit - 1), k \in J PROVE k + 1 \in J
    <3>1. /\ (k + 1) - 1 = k /\ k + 1 \in 1..limit /\ k + 1 \in 0..limit
      BY <1>1
    <3>2. g[k + 1] = WcsRound(g[k], d, s, k + 1)
      BY <1>14, <3>1
    <3> QED BY <1>4, <2>2, <3>1, <3>2
  <2> HIDE DEF J
  <2>3. 0..limit \subseteq J
    BY <1>1, <2>1, <2>2, UpTo
  <2>4. \A k \in 0..limit : g[k] \in S
    BY <2>3 DEF J
  <2> QED BY <1>13, <2>4
<1>16. WcsRun(g, mem, d, s, limit)
  BY <1>14, <1>15 DEF WcsRun, start, S
<1> QED BY <1>2, <1>16 DEF limit

LEMMA ConversionTypes ==
  ASSUME Typed, NEW d \in Nat, NEW s \in Nat, NEW n \in Nat
  PROVE  OutcomeOK(Mbstowcs(d, s, n)) /\ OutcomeOK(Wcstombs(d, s, n))
<1>1. PICK limit \in Nat : limit = Lesser(n, WideMax) /\ limit <= WideMax
  BY WideNumbers, LesserIs
<1>2. limit \in 0..limit /\ \A k \in 0..limit : k \in Register
  <2>1. PICK max \in Nat, r \in Nat : /\ max = WideMax /\ r = RegSize
                                      /\ 2 * max < r
    BY WideNumbers, Numbers
  <2>2. limit <= max
    BY <1>1, <2>1
  <2>3. \A k \in 0..limit : k \in 0..(r - 1)
    BY <2>1, <2>2
  <2> QED BY <2>1, <2>3 DEF Register
<1>3. OutcomeOK(Mbstowcs(d, s, n))
  <2>1. PICK f : MbsRun(f, mem, d, s, limit) /\ Mbstowcs(d, s, n) = MbstowcsBy(f, limit)
    BY <1>1, MbstowcsIs DEF Typed
  <2>2. f[limit] \in ConvState(limit)
    BY <1>2, <2>1 DEF MbsRun
  <2>3. f[limit].mem \in Memory /\ f[limit].count \in Register
    BY <1>2, <2>2 DEF ConvState
  <2> QED BY <2>1, <2>3, OutcomeType DEF MbstowcsBy
<1>4. OutcomeOK(Wcstombs(d, s, n))
  <2>1. PICK f : WcsRun(f, mem, d, s, limit) /\ Wcstombs(d, s, n) = WcstombsBy(f, limit)
    BY <1>1, WcstombsIs DEF Typed
  <2>2. f[limit] \in ConvState(limit)
    BY <1>2, <2>1 DEF WcsRun
  <2>3. f[limit].mem \in Memory /\ f[limit].count \in Register
    BY <1>2, <2>2 DEF ConvState
  <2> QED BY <2>1, <2>3, OutcomeType DEF WcstombsBy
<1> QED BY <1>3, <1>4

\* What mbstowcs has done after k characters of a string at s.
MbsDone(x, d, s, k, limit) ==
  /\ x \in ConvState(limit)
  /\ x.ended <=> k > 0 /\ mem[s + (k - 1)] = 0
  /\ x.count = IF x.ended THEN k - 1 ELSE k
  /\ \A c \in Mapped : c \notin d..(d + 2 * k - 1) => x.mem[c] = mem[c]
  /\ Readable(d, 2 * k) =>
       \A i \in 0..(k - 1) : x.mem[d + 2 * i] = mem[s + i] /\ x.mem[d + 2 * i + 1] = 0

\* Characters to convert, of which only the last may be the zero.
BytesAre(s, t) == Readable(s, t) /\ \A i \in 0..(t - 2) : mem[s + i] # 0

LEMMA MbsOne ==
  ASSUME mem \in Memory, NEW d \in Nat, d # 0, NEW s \in Nat, NEW limit \in Nat,
         NEW t \in 0..limit, BytesAre(s, t), s + t <= d \/ d + 2 * t <= s,
         NEW k \in 0..(t - 1), NEW x, MbsDone(x, d, s, k, limit)
  PROVE  MbsDone(MbsRound(x, d, s, k + 1), d, s, k + 1, limit)
<1> DEFINE y == MbsRound(x, d, s, k + 1)
<1>1. x \in ConvState(limit) /\ x.mem \in Memory
  BY DEF MbsDone, ConvState
<1>2. /\ (k + 1) - 1 = k /\ s + (k + 1) - 1 = s + k /\ d + 2 * k \in Nat
      /\ k + 1 \in 1..limit /\ 2 * (k + 1) = 2 * k + 2 /\ k + 1 > 0
      /\ k \in Nat
  OBVIOUS
<1>3. ~x.ended
  <2>1. k > 0 => k - 1 \in 0..(t - 2)
    OBVIOUS
  <2>2. ~(k > 0 /\ mem[s + (k - 1)] = 0)
    BY <2>1 DEF BytesAre
  <2> QED BY <2>2 DEF MbsDone
<1>4. s + k \in Mapped /\ s + k \notin d..(d + 2 * k - 1)
  BY DEF BytesAre, Readable
<1>5. PICK b \in Char : b = mem[s + k]
  BY <1>4 DEF Memory
<1>6. CellAt(x.mem, s + k) = b
  BY <1>4, <1>5 DEF CellAt, MbsDone
<1>7. PICK a \in Nat : a = d + 2 * k
  BY <1>2
<1>8. y = [mem |-> PutWide(x.mem, a, b), count |-> IF b = 0 THEN k ELSE k + 1,
           ended |-> b = 0]
  BY <1>2, <1>3, <1>6, <1>7 DEF MbsRound
<1>9. y \in ConvState(limit)
  BY <1>1, <1>2, MbsRoundType
<1> HIDE DEF y
<1>10. b \in WideChar /\ b % Radix = b /\ b \div Radix = 0
  <2>1. b < Radix
    BY WideNumbers
  <2>2. b \in WideChar
    BY <1>1, <1>6, CellAtType
  <2> QED BY <2>1, <2>2, CellsOfWide
<1>11. PICK z \in Memory : z = PutWide(x.mem, a, b)
  BY <1>1, <1>10, PutWideIs
<1>12. y.mem = z /\ (y.ended <=> b = 0) /\ y.count = IF b = 0 THEN k ELSE k + 1
  BY <1>8, <1>11
<1>13. /\ \A c \in Mapped : c # a /\ c # a + 1 => z[c] = x.mem[c]
       /\ Readable(a, 2) => z[a] = b /\ z[a + 1] = 0
  BY <1>1, <1>10, <1>11, PutWideIs
<1>14. ASSUME NEW c \in Mapped, c \notin d..(d + 2 * (k + 1) - 1) PROVE z[c] = mem[c]
  <2>1. c \in Nat
    BY Addresses
  <2>2. c # a /\ c # a + 1 /\ c \notin d..(d + 2 * k - 1)
    BY <1>2, <1>7, <1>14, <2>1
  <2> QED BY <1>13, <2>2 DEF MbsDone
<1>15. ASSUME Readable(d, 2 * (k + 1)), NEW i \in 0..k
       PROVE  z[d + 2 * i] = mem[s + i] /\ z[d + 2 * i + 1] = 0
  <2>1. CASE i = k
    <3>1. Readable(a, 2)
      BY <1>2, <1>7, <1>15 DEF Readable
    <3> QED BY <1>5, <1>7, <1>13, <2>1, <3>1
  <2>2. CASE i # k
    <3>1. /\ i \in 0..(k - 1) /\ d + 2 * i # a /\ d + 2 * i # a + 1
          /\ d + 2 * i + 1 # a /\ d + 2 * i + 1 # a + 1
      BY <1>7, <2>2
    <3>2. Readable(d, 2 * k) /\ d + 2 * i \in Mapped /\ d + 2 * i + 1 \in Mapped
      BY <1>15, <3>1 DEF Readable
    <3>3. x.mem[d + 2 * i] = mem[s + i] /\ x.mem[d + 2 * i + 1] = 0
      BY <3>1, <3>2 DEF MbsDone
    <3> QED BY <1>13, <3>1, <3>2, <3>3
  <2> QED BY <2>1, <2>2
<1>16. y.ended <=> k + 1 > 0 /\ mem[s + ((k + 1) - 1)] = 0
  BY <1>2, <1>5, <1>12
<1>17. y.count = IF y.ended THEN (k + 1) - 1 ELSE k + 1
  BY <1>2, <1>12
<1>18. MbsDone(y, d, s, k + 1, limit)
  BY <1>2, <1>9, <1>12, <1>14, <1>15, <1>16, <1>17 DEF MbsDone
<1> QED BY <1>18 DEF y

LEMMA MbsAll ==
  ASSUME mem \in Memory, NEW d \in Nat, d # 0, NEW s \in Nat, NEW limit \in Nat,
         NEW t \in 0..limit, BytesAre(s, t), s + t <= d \/ d + 2 * t <= s,
         t = limit \/ (t > 0 /\ mem[s + (t - 1)] = 0),
         NEW f, MbsRun(f, mem, d, s, limit)
  PROVE  MbsDone(f[limit], d, s, t, limit)
<1> DEFINE J == {k \in 0..t : MbsDone(f[k], d, s, k, limit)}
<1>1. 0 \in J
  <2>1. f[0] = ConvStart(mem) /\ f[0] \in ConvState(limit)
    <3>1. 0 \in 0..limit
      OBVIOUS
    <3> QED BY <3>1 DEF MbsRun
  <2>2. MbsDone(f[0], d, s, 0, limit)
    BY <2>1 DEF MbsDone, ConvStart
  <2> QED BY <2>2
<1>2. ASSUME NEW k \in 0..(t - 1), k \in J PROVE k + 1 \in J
  <2>1. k + 1 \in 1..limit /\ (k + 1) - 1 = k /\ k + 1 \in 0..t
    OBVIOUS
  <2>2. f[k + 1] = MbsRound(f[k], d, s, k + 1)
    BY <2>1 DEF MbsRun
  <2>3. MbsDone(f[k], d, s, k, limit)
    BY <1>2
  <2>4. MbsDone(MbsRound(f[k], d, s, k + 1), d, s, k + 1, limit)
    BY <2>3, MbsOne
  <2> QED BY <2>1, <2>2, <2>4
<1> HIDE DEF J
<1>3. t \in Nat /\ t \in 0..t
  OBVIOUS
<1>4. t \in J
  BY <1>1, <1>2, <1>3, UpTo
<1>5. MbsDone(f[t], d, s, t, limit)
  BY <1>4 DEF J
<1>6. CASE t = limit
  BY <1>5, <1>6
<1>7. CASE t > 0 /\ mem[s + (t - 1)] = 0
  <2> DEFINE K == {k \in 0..(limit - t) : f[t + k] = f[t]}
  <2>1. 0 \in K
    OBVIOUS
  <2>2. ASSUME NEW k \in 0..((limit - t) - 1), k \in K PROVE k + 1 \in K
    <3>1. t + (k + 1) \in 1..limit /\ (t + (k + 1)) - 1 = t + k
          /\ k + 1 \in 0..(limit - t)
      OBVIOUS
    <3>2. f[t + (k + 1)] = MbsRound(f[t + k], d, s, t + (k + 1))
      BY <3>1 DEF MbsRun
    <3>3. f[t + k] = f[t] /\ f[t].ended
      BY <1>5, <1>7, <2>2 DEF MbsDone
    <3>4. f[t + (k + 1)] = f[t]
      BY <3>2, <3>3 DEF MbsRound
    <3> QED BY <3>1, <3>4
  <2> HIDE DEF K
  <2>3. limit - t \in Nat /\ limit - t \in 0..(limit - t)
    OBVIOUS
  <2>4. limit - t \in K
    BY <2>1, <2>2, <2>3, UpTo
  <2>5. t + (limit - t) = limit
    OBVIOUS
  <2>6. f[limit] = f[t]
    BY <2>4, <2>5 DEF K
  <2> QED BY <1>5, <2>6
<1> QED BY <1>6, <1>7

\* w is what mbstowcs has to write of the string at s: t characters.
ToConvert(w, str, s, n, t) ==
  /\ Len(w) = t /\ BytesAre(s, t)
  /\ t = n \/ (t > 0 /\ mem[s + (t - 1)] = 0)
  /\ \A i \in 0..(t - 1) : w[i + 1] = mem[s + i]
  /\ Len(str) = IF t > 0 /\ mem[s + (t - 1)] = 0 THEN t - 1 ELSE t

LEMMA StringToConvert ==
  ASSUME mem \in Memory, NEW s \in Nat, NEW n \in Nat, Readable(s, n),
         NEW str, str = PartOf(mem, s, n),
         NEW w, w = IF Len(str) < n THEN Append(str, 0) ELSE str
  PROVE  \E t \in 0..n : ToConvert(w, str, s, n, t)
<1>1. PICK l \in 0..n : /\ str = Bytes(mem, s, l)
                        /\ \A i \in 0..(l - 1) : mem[s + i] # 0
                        /\ l < n => mem[s + l] = 0
  BY PartIsRead DEF IsRead
<1>2. l \in Nat /\ Readable(s, l)
  BY DEF Readable
<1>3. str \in Seq(Char) /\ Len(str) = l /\ \A i \in 1..l : str[i] = mem[s + i - 1]
  BY <1>1, <1>2, BytesFacts, BytesType
<1>4. \A i \in 0..(l - 1) : str[i + 1] = mem[s + i]
  <2>1. \A i \in 0..(l - 1) : i + 1 \in 1..l /\ s + (i + 1) - 1 = s + i
    BY <1>2
  <2> QED BY <1>3, <2>1
<1>5. CASE l < n
  <2>1. w = Append(str, 0)
    BY <1>3, <1>5
  <2>2. Len(w) = l + 1 /\ w[l + 1] = 0 /\ \A i \in 1..l : w[i] = str[i]
    <3>1. 0 \in Char
      BY Addresses
    <3> QED BY <1>3, <2>1, <3>1, AppendProperties
  <2>3. l + 1 \in 0..n /\ l + 1 > 0 /\ (l + 1) - 1 = l
    BY <1>5
  <2>4. BytesAre(s, l + 1)
    <3>1. Readable(s, l + 1)
      BY <1>5 DEF Readable
    <3>2. \A i \in 0..((l + 1) - 2) : i \in 0..(l - 1)
      BY <1>2
    <3> QED BY <1>1, <3>1, <3>2 DEF BytesAre
  <2>5. ASSUME NEW i \in 0..l PROVE w[i + 1] = mem[s + i]
    <3>1. CASE i = l
      BY <1>1, <1>5, <2>2, <3>1
    <3>2. CASE i # l
      <4>1. i \in 0..(l - 1) /\ i + 1 \in 1..l
        BY <1>2, <3>2
      <4> QED BY <1>4, <2>2, <4>1
    <3> QED BY <3>1, <3>2
  <2>6. mem[s + ((l + 1) - 1)] = 0
    BY <1>1, <1>5, <2>3
  <2>7. ToConvert(w, str, s, n, l + 1)
    BY <1>3, <2>2, <2>3, <2>4, <2>5, <2>6 DEF ToConvert
  <2> QED BY <2>3, <2>7
<1>6. CASE ~(l < n)
  <2>1. w = str /\ l = n
    BY <1>3, <1>6
  <2>2. ~(l > 0 /\ mem[s + (l - 1)] = 0)
    <3>1. l > 0 => l - 1 \in 0..(l - 1)
      BY <1>2
    <3> QED BY <1>1, <3>1
  <2>3. BytesAre(s, l)
    <3>1. \A i \in 0..(l - 2) : i \in 0..(l - 1)
      BY <1>2
    <3> QED BY <1>1, <1>2, <3>1 DEF BytesAre
  <2>4. ToConvert(w, str, s, n, l)
    BY <1>3, <1>4, <2>1, <2>2, <2>3 DEF ToConvert
  <2> QED BY <2>4
<1> QED BY <1>5, <1>6

LEMMA MbstowcsWrites ==
  ASSUME mem \in Memory, NEW d \in Nat, d # 0, NEW s \in Nat, NEW n \in Nat,
         n <= WideMax, Readable(s, n), NEW str, str = PartOf(mem, s, n),
         NEW w, w = IF Len(str) < n THEN Append(str, 0) ELSE str,
         s + Len(w) <= d \/ d + 2 * Len(w) <= s
  PROVE  /\ WroteBy(Mbstowcs(d, s, n), d, Cells(w))
         /\ Mbstowcs(d, s, n).ret = Len(str)
<1>0. PICK t \in 0..n : ToConvert(w, str, s, n, t)
  BY StringToConvert
<1>1. /\ Len(w) = t /\ BytesAre(s, t)
      /\ t = n \/ (t > 0 /\ mem[s + (t - 1)] = 0)
      /\ \A i \in 0..(t - 1) : w[i + 1] = mem[s + i]
      /\ Len(str) = IF t > 0 /\ mem[s + (t - 1)] = 0 THEN t - 1 ELSE t
  BY <1>0 DEF ToConvert
<1>2. Lesser(n, WideMax) = n
  BY WideNumbers, LesserIs
<1>3. PICK f : MbsRun(f, mem, d, s, n) /\ Mbstowcs(d, s, n) = MbstowcsBy(f, n)
  BY <1>2, MbstowcsIs
<1>4. PICK x : x = f[n]
  OBVIOUS
<1>5. MbsDone(x, d, s, t, n)
  <2>1. s + t <= d \/ d + 2 * t <= s
    BY <1>1
  <2> QED BY <1>1, <1>3, <1>4, <2>1, MbsAll
<1>6. PICK out : out = Mbstowcs(d, s, n)
  OBVIOUS
<1>7. out.mem = x.mem /\ out.ret = x.count /\ ~out.panics
  BY <1>3, <1>4, <1>6 DEF MbstowcsBy, Outcome
<1>8. x.count = Len(str)
  BY <1>1, <1>5 DEF MbsDone
<1>9. t \in Nat
  OBVIOUS
<1>10. ASSUME Readable(d, 2 * t), NEW i \in 0..(t - 1)
       PROVE  /\ out.mem[d + 2 * i] = WideCells(w[i + 1])[1]
              /\ out.mem[d + 2 * i + 1] = WideCells(w[i + 1])[2]
  <2>1. s + i \in Mapped
    BY <1>1 DEF BytesAre, Readable
  <2>2. PICK b \in Char : b = mem[s + i]
    BY <2>1 DEF Memory
  <2>3. WideCells(b) = <<b, 0>>
    <3>1. b < Radix
      BY WideNumbers
    <3>2. b \in WideChar
      BY <2>1, <2>2, CellAtType
    <3> QED BY <3>1, <3>2, CellsOfWide
  <2>4. out.mem[d + 2 * i] = b /\ out.mem[d + 2 * i + 1] = 0
    BY <1>5, <1>7, <1>10, <2>2 DEF MbsDone
  <2>5. PICK wc : wc = w[i + 1]
    OBVIOUS
  <2>6. wc = b
    BY <1>1, <2>2, <2>5
  <2>7. WideCells(wc)[1] = b /\ WideCells(wc)[2] = 0
    BY <2>3, <2>6
  <2> QED BY <2>4, <2>5, <2>7
<1>11. WroteBy(out, d, Cells(w))
  <2>1. \A c \in Mapped : c \notin d..(d + 2 * t - 1) => out.mem[c] = mem[c]
    BY <1>5, <1>7 DEF MbsDone
  <2> QED BY <1>1, <1>7, <1>9, <1>10, <2>1, WritesCells
<1> QED BY <1>6, <1>7, <1>8, <1>11

\* What wcstombs has done after k characters of a wide string at s.
WcsDone(x, d, s, k, limit) ==
  /\ x \in ConvState(limit)
  /\ x.ended <=> EndsIn(mem, s, k)
  /\ x.count = IF x.ended THEN k - 1 ELSE k
  /\ \A c \in Mapped : c \notin d..(d + k - 1) => x.mem[c] = mem[c]
  /\ Readable(d, k) =>
       \A i \in 0..(k - 1) : x.mem[d + i] = WideAt(mem, s + 2 * i) % Radix

LEMMA WcsOne ==
  ASSUME mem \in Memory, NEW d \in Nat, d # 0, NEW s \in Nat, NEW limit \in Nat,
         NEW t \in 0..limit, SourceIs(mem, s, t), Apart(d, t, s, 2 * t),
         NEW k \in 0..(t - 1), NEW x, WcsDone(x, d, s, k, limit)
  PROVE  WcsDone(WcsRound(x, d, s, k + 1), d, s, k + 1, limit)
<1> DEFINE y == WcsRound(x, d, s, k + 1)
<1>1. x \in ConvState(limit) /\ x.mem \in Memory
  BY DEF WcsDone, ConvState
<1>2. /\ (k + 1) - 1 = k /\ d + (k + 1) - 1 = d + k /\ s + 2 * k \in Nat
      /\ k + 1 \in 1..limit /\ k + 1 > 0 /\ k \in Nat /\ d + k \in Nat
  OBVIOUS
<1>3. ~x.ended
  <2>1. k > 0 => k - 1 \in 0..(t - 2)
    OBVIOUS
  <2>2. ~EndsIn(mem, s, k)
    BY <2>1 DEF SourceIs, EndsIn
  <2> QED BY <2>2 DEF WcsDone
<1>4. /\ s + 2 * k \in Mapped /\ s + 2 * k + 1 \in Mapped
      /\ Readable(s + 2 * k, 2)
  BY DEF SourceIs, Readable
<1>5. s + 2 * k \notin d..(d + k - 1) /\ s + 2 * k + 1 \notin d..(d + k - 1)
  BY DEF Apart
<1>6. x.mem[s + 2 * k] = mem[s + 2 * k] /\ x.mem[s + 2 * k + 1] = mem[s + 2 * k + 1]
  BY <1>4, <1>5 DEF WcsDone
<1>7. PICK wc \in WideChar : wc = WideAt(mem, s + 2 * k)
  BY <1>2, WideAtType
<1>8. WideAt(x.mem, s + 2 * k) = wc
  BY <1>4, <1>6, <1>7 DEF WideAt
<1>9. PICK a \in Nat : a = d + k
  BY <1>2
<1>10. PICK b \in Char : b = wc % Radix
  BY CellsOfWide
<1>11. y = [mem |-> PutCell(x.mem, a, b), count |-> IF wc = 0 THEN k ELSE k + 1,
            ended |-> wc = 0]
  BY <1>2, <1>3, <1>8, <1>9, <1>10 DEF WcsRound
<1>12. y \in ConvState(limit)
  BY <1>1, <1>2, WcsRoundType
<1> HIDE DEF y
<1>13. PICK z \in Memory : z = PutCell(x.mem, a, b)
  BY <1>1, PutCellIs
<1>14. y.mem = z /\ (y.ended <=> wc = 0) /\ y.count = IF wc = 0 THEN k ELSE k + 1
  BY <1>11, <1>13
<1>15. \A c \in Mapped : z[c] = IF c = a THEN b ELSE x.mem[c]
  BY <1>1, <1>13, PutCellIs
<1>16. ASSUME NEW c \in Mapped, c \notin d..(d + (k + 1) - 1) PROVE z[c] = mem[c]
  <2>1. c \in Nat
    BY Addresses
  <2>2. c # a /\ c \notin d..(d + k - 1)
    BY <1>2, <1>9, <1>16, <2>1
  <2> QED BY <1>15, <2>2 DEF WcsDone
<1>17. ASSUME Readable(d, k + 1), NEW i \in 0..k
       PROVE  z[d + i] = WideAt(mem, s + 2 * i) % Radix
  <2>1. d + i \in Mapped
    BY <1>2, <1>17 DEF Readable
  <2>2. CASE i = k
    BY <1>7, <1>9, <1>10, <1>15, <2>1, <2>2
  <2>3. CASE i # k
    <3>1. i \in 0..(k - 1) /\ d + i # a
      BY <1>9, <2>3
    <3>2. Readable(d, k)
      BY <1>17 DEF Readable
    <3>3. x.mem[d + i] = WideAt(mem, s + 2 * i) % Radix
      BY <3>1, <3>2 DEF WcsDone
    <3> QED BY <1>15, <2>1, <3>1, <3>3
  <2> QED BY <2>2, <2>3
<1>18. y.ended <=> EndsIn(mem, s, k + 1)
  BY <1>2, <1>7, <1>14 DEF EndsIn
<1>19. y.count = IF y.ended THEN (k + 1) - 1 ELSE k + 1
  BY <1>2, <1>14
<1>20. WcsDone(y, d, s, k + 1, limit)
  BY <1>2, <1>12, <1>14, <1>16, <1>17, <1>18, <1>19 DEF WcsDone
<1> QED BY <1>20 DEF y

LEMMA WcsAll ==
  ASSUME mem \in Memory, NEW d \in Nat, d # 0, NEW s \in Nat, NEW limit \in Nat,
         NEW t \in 0..limit, SourceIs(mem, s, t), Apart(d, t, s, 2 * t),
         t = limit \/ EndsIn(mem, s, t), NEW f, WcsRun(f, mem, d, s, limit)
  PROVE  WcsDone(f[limit], d, s, t, limit)
<1> DEFINE J == {k \in 0..t : WcsDone(f[k], d, s, k, limit)}
<1>1. 0 \in J
  <2>1. f[0] = ConvStart(mem) /\ f[0] \in ConvState(limit)
    <3>1. 0 \in 0..limit
      OBVIOUS
    <3> QED BY <3>1 DEF WcsRun
  <2>2. WcsDone(f[0], d, s, 0, limit)
    BY <2>1 DEF WcsDone, ConvStart, EndsIn
  <2> QED BY <2>2
<1>2. ASSUME NEW k \in 0..(t - 1), k \in J PROVE k + 1 \in J
  <2>1. k + 1 \in 1..limit /\ (k + 1) - 1 = k /\ k + 1 \in 0..t
    OBVIOUS
  <2>2. f[k + 1] = WcsRound(f[k], d, s, k + 1)
    BY <2>1 DEF WcsRun
  <2>3. WcsDone(f[k], d, s, k, limit)
    BY <1>2
  <2>4. WcsDone(WcsRound(f[k], d, s, k + 1), d, s, k + 1, limit)
    BY <2>3, WcsOne
  <2> QED BY <2>1, <2>2, <2>4
<1> HIDE DEF J
<1>3. t \in Nat /\ t \in 0..t
  OBVIOUS
<1>4. t \in J
  BY <1>1, <1>2, <1>3, UpTo
<1>5. WcsDone(f[t], d, s, t, limit)
  BY <1>4 DEF J
<1>6. CASE t = limit
  BY <1>5, <1>6
<1>7. CASE EndsIn(mem, s, t)
  <2> DEFINE K == {k \in 0..(limit - t) : f[t + k] = f[t]}
  <2>1. 0 \in K
    OBVIOUS
  <2>2. ASSUME NEW k \in 0..((limit - t) - 1), k \in K PROVE k + 1 \in K
    <3>1. t + (k + 1) \in 1..limit /\ (t + (k + 1)) - 1 = t + k
          /\ k + 1 \in 0..(limit - t)
      OBVIOUS
    <3>2. f[t + (k + 1)] = WcsRound(f[t + k], d, s, t + (k + 1))
      BY <3>1 DEF WcsRun
    <3>3. f[t + k] = f[t] /\ f[t].ended
      BY <1>5, <1>7, <2>2 DEF WcsDone
    <3>4. f[t + (k + 1)] = f[t]
      BY <3>2, <3>3 DEF WcsRound
    <3> QED BY <3>1, <3>4
  <2> HIDE DEF K
  <2>3. limit - t \in Nat /\ limit - t \in 0..(limit - t)
    OBVIOUS
  <2>4. limit - t \in K
    BY <2>1, <2>2, <2>3, UpTo
  <2>5. t + (limit - t) = limit
    OBVIOUS
  <2>6. f[limit] = f[t]
    BY <2>4, <2>5 DEF K
  <2> QED BY <1>5, <2>6
<1> QED BY <1>6, <1>7

\* w is what wcstombs has to write of the wide string at s: t characters.
WideToConvert(w, str, s, n, t) ==
  /\ Len(w) = t /\ SourceIs(mem, s, t)
  /\ t = n \/ EndsIn(mem, s, t)
  /\ \A i \in 0..(t - 1) : w[i + 1] = WideAt(mem, s + 2 * i) /\ w[i + 1] < Radix
  /\ Len(str) = IF EndsIn(mem, s, t) THEN t - 1 ELSE t

LEMMA WideStringToConvert ==
  ASSUME mem \in Memory, NEW s \in Nat, NEW n \in Nat, Readable(s, 2 * n),
         NEW str, str = WidePartOf(mem, s, n),
         \A i \in 1..Len(str) : str[i] < Radix,
         NEW w, w = IF Len(str) < n THEN Append(str, 0) ELSE str
  PROVE  \E t \in 0..n : WideToConvert(w, str, s, n, t)
<1>1. IsWidePart(str, mem, s, n)
  BY WidePartFacts
<1>2. str \in Seq(WideChar) /\ Len(str) = WideLength(mem, s, n) /\ Len(str) \in 0..n
  BY <1>1 DEF IsWidePart
<1>3. PICK l \in Nat : l = Len(str) /\ l <= n
  BY <1>2
<1>4. CASE l < n
  <2>1. w = Append(str, 0) /\ WideLength(mem, s, n) < n
    BY <1>2, <1>3, <1>4
  <2>2. IsSource(w, mem, s, n) /\ EndsIn(mem, s, Len(w)) /\ Len(w) = l + 1
    BY <1>2, <1>3, <2>1, WholeWide
  <2>3. w[l + 1] = 0 /\ \A i \in 1..l : w[i] = str[i]
    <3>1. 0 \in WideChar
      BY WideNumbers DEF WideChar
    <3> QED BY <1>2, <1>3, <2>1, <3>1, AppendProperties
  <2>4. \A i \in 0..l : w[i + 1] < Radix
    <3>1. \A i \in 0..l : i # l => i + 1 \in 1..l
      OBVIOUS
    <3>2. 0 < Radix
      BY WideNumbers
    <3>3. \A i \in 1..l : w[i] < Radix
      BY <1>3, <2>3
    <3>4. ASSUME NEW i \in 0..l PROVE w[i + 1] < Radix
      <4>1. CASE i = l
        BY <2>3, <3>2, <4>1
      <4>2. CASE i # l
        BY <3>1, <3>3, <4>2
      <4> QED BY <4>1, <4>2
    <3> QED BY <3>4
  <2>5. l + 1 \in 0..n /\ (l + 1) - 1 = l
    BY <1>4
  <2>6. WideToConvert(w, str, s, n, l + 1)
    BY <1>3, <2>2, <2>4, <2>5 DEF WideToConvert, IsSource
  <2> QED BY <2>5, <2>6
<1>5. CASE ~(l < n)
  <2>1. w = str /\ l = n /\ ~(WideLength(mem, s, n) < n)
    BY <1>2, <1>3, <1>5
  <2>2. IsSource(str, mem, s, n) /\ ~EndsIn(mem, s, n)
    BY <2>1, OpenWide
  <2>3. \A i \in 0..(l - 1) : w[i + 1] < Radix
    <3>1. \A i \in 0..(l - 1) : i + 1 \in 1..l
      OBVIOUS
    <3> QED BY <1>3, <2>1, <3>1
  <2>4. WideToConvert(w, str, s, n, l)
    BY <1>3, <2>1, <2>2, <2>3 DEF WideToConvert, IsSource
  <2> QED BY <1>3, <2>4
<1> QED BY <1>4, <1>5

LEMMA WcstombsWrites ==
  ASSUME mem \in Memory, NEW d \in Nat, d # 0, NEW s \in Nat, NEW n \in Nat,
         n <= WideMax, Readable(s, 2 * n), NEW str, str = WidePartOf(mem, s, n),
         \A i \in 1..Len(str) : str[i] < Radix,
         NEW w, w = IF Len(str) < n THEN Append(str, 0) ELSE str,
         Apart(d, Len(w), s, 2 * Len(w))
  PROVE  /\ WroteBy(Wcstombs(d, s, n), d, w)
         /\ Wcstombs(d, s, n).ret = Len(str)
<1>0. PICK t \in 0..n : WideToConvert(w, str, s, n, t)
  BY WideStringToConvert
<1>1. /\ Len(w) = t /\ SourceIs(mem, s, t)
      /\ t = n \/ EndsIn(mem, s, t)
      /\ \A i \in 0..(t - 1) : w[i + 1] = WideAt(mem, s + 2 * i) /\ w[i + 1] < Radix
      /\ Len(str) = IF EndsIn(mem, s, t) THEN t - 1 ELSE t
  BY <1>0 DEF WideToConvert
<1>2. Lesser(n, WideMax) = n
  BY WideNumbers, LesserIs
<1>3. PICK f : WcsRun(f, mem, d, s, n) /\ Wcstombs(d, s, n) = WcstombsBy(f, n)
  BY <1>2, WcstombsIs
<1>4. PICK x : x = f[n]
  OBVIOUS
<1>5. WcsDone(x, d, s, t, n)
  <2>1. Apart(d, t, s, 2 * t)
    BY <1>1
  <2> QED BY <1>1, <1>3, <1>4, <2>1, WcsAll
<1>6. PICK out : out = Wcstombs(d, s, n)
  OBVIOUS
<1>7. out.mem = x.mem /\ out.ret = x.count /\ ~out.panics
  BY <1>3, <1>4, <1>6 DEF WcstombsBy, Outcome
<1>8. x.count = Len(str)
  BY <1>1, <1>5 DEF WcsDone
<1>9. \A i \in 0..(t - 1) : WideAt(mem, s + 2 * i) % Radix = w[i + 1]
  <2> SUFFICES ASSUME NEW i \in 0..(t - 1)
               PROVE  WideAt(mem, s + 2 * i) % Radix = w[i + 1]
    OBVIOUS
  <2>1. s + 2 * i \in Nat
    OBVIOUS
  <2>2. PICK wc \in WideChar : wc = WideAt(mem, s + 2 * i)
    BY <2>1, WideAtType
  <2>3. w[i + 1] = wc /\ wc < Radix
    BY <1>1, <2>2
  <2> QED BY <2>2, <2>3, CellsOfWide
<1>10. WroteBy(out, d, w)
  <2>1. ASSUME Readable(d, t), NEW c \in Mapped
        PROVE  out.mem[c] = IF c \in d..(d + t - 1) THEN w[c - d + 1] ELSE mem[c]
    <3>1. CASE c \in d..(d + t - 1)
      <4>1. PICK i \in 0..(t - 1) : c = d + i /\ c - d + 1 = i + 1
        <5>1. c \in Nat /\ c - d \in 0..(t - 1) /\ c = d + (c - d)
          BY <3>1, Addresses
        <5> QED BY <5>1
      <4>2. x.mem[d + i] = WideAt(mem, s + 2 * i) % Radix
        BY <1>5, <2>1 DEF WcsDone
      <4> QED BY <1>7, <1>9, <3>1, <4>1, <4>2
    <3>2. CASE c \notin d..(d + t - 1)
      BY <1>5, <1>7, <3>2 DEF WcsDone
    <3> QED BY <3>1, <3>2
  <2> QED BY <1>1, <1>7, <2>1 DEF WroteBy
<1> QED BY <1>6, <1>7, <1>8, <1>10

-----------------------------------------------------------------------------
(***************************************************************************)
(* Types of what the wide functions return.                                *)
(***************************************************************************)
LEMMA WideRegisters ==
  /\ \A wc \in WideChar : wc \in Register
  /\ \A k \in Nat : k <= WideMax => k \in Register
<1>1. PICK q \in Nat, r \in Nat, max \in Nat :
        /\ q = Radix * Radix /\ r = RegSize /\ q <= r
        /\ max = WideMax /\ 2 * max < r
  BY WideNumbers, Numbers
<1>2. \A wc \in 0..(q - 1) : wc \in 0..(r - 1)
  BY <1>1
<1>3. \A k \in Nat : k <= max => k \in 0..(r - 1)
  BY <1>1
<1> QED BY <1>1, <1>2, <1>3 DEF WideChar, Register

\* Where a loop has not met a zero, it is in memory, or just behind it.
LEMMA PlaceInRegister ==
  ASSUME mem \in Memory, NEW a \in Nat, a \in Register, NEW i \in Nat,
         i > 0 => WideAt(mem, a + 2 * (i - 1)) # 0
  PROVE  a + 2 * i \in Register
<1>1. CASE i = 0
  BY <1>1
<1>2. CASE i > 0
  <2>1. a + 2 * (i - 1) \in Nat
    BY <1>2
  <2>2. Readable(a + 2 * (i - 1), 2)
    BY <1>2, <2>1, WideAtType
  <2>3. (a + 2 * (i - 1)) + 1 \in Mapped
    BY <2>1, <2>2 DEF Readable
  <2>4. PICK r \in Nat : r = RegSize
    BY Numbers
  <2>5. ((a + 2 * (i - 1)) + 1) + 1 < r
    BY <2>3, <2>4, Addresses
  <2> QED BY <1>2, <2>4, <2>5 DEF Register
<1> QED BY <1>1, <1>2

LEMMA WideWritesTypes ==
  ASSUME Typed, NEW d \in Nat, d \in Register, NEW s \in Nat, NEW n \in Nat
  PROVE  /\ OutcomeOK(Wcscpy(d, s)) /\ OutcomeOK(Wcscat(d, s))
         /\ OutcomeOK(Wcsncat(d, s, n)) /\ OutcomeOK(Wcsncpy(d, s, n))
<1>1. mem \in Memory /\ WideMax \in Nat
  BY WideNumbers DEF Typed
<1>2. WideEnd(d) \in Nat
  BY <1>1, WideEndIs
<1>3. PICK limit \in Nat : limit = Lesser(n, WideMax)
  BY <1>1, LesserIs
<1>4. OutcomeOK(Wcscpy(d, s))
  BY <1>1, CopyWideType, OutcomeType DEF Wcscpy
<1>5. OutcomeOK(Wcscat(d, s))
  BY <1>1, <1>2, CopyWideType, OutcomeType DEF Wcscat
<1>6. OutcomeOK(Wcsncat(d, s, n))
  <2>1. PICK x : x = CopyWide(mem, WideEnd(d), s, limit)
    OBVIOUS
  <2>2. x.mem \in Memory
    BY <1>1, <1>2, <2>1, CopyWideType
  <2>3. 0 \in WideChar /\ WideEnd(d) + 2 * n \in Nat
    BY <1>2, WideNumbers DEF WideChar
  <2>4. PICK at \in Nat : at = (WideEnd(d) + 2 * n) % RegSize
    BY <2>3, Wraps
  <2>5. PICK y \in Memory : y = PutWide(x.mem, at, 0)
    BY <2>2, <2>3, PutWideIs
  <2>6. Wcsncat(d, s, n) = Outcome(d, IF x.ended THEN x.mem ELSE y)
    BY <1>3, <2>1, <2>4, <2>5 DEF Wcsncat
  <2> QED BY <2>2, <2>5, <2>6, OutcomeType
<1> QED BY <1>4, <1>5, <1>6, WcsncpyType

LEMMA CharacterTypes ==
  ASSUME Typed, NEW d, NEW s \in Nat
  PROVE  /\ d \in Nat => OutcomeOK(Mbtowc(d, s))
         /\ OutcomeOK(Mblen(s))
         /\ s \in WideChar => OutcomeOK(Wctomb(d, s))
<1>1. mem \in Memory /\ CellAt(mem, s) \in WideChar
  BY CellAtType DEF Typed
<1>2. d \in Nat => OutcomeOK(Mbtowc(d, s))
  <2> SUFFICES ASSUME d \in Nat PROVE OutcomeOK(Mbtowc(d, s))
    OBVIOUS
  <2>1. PICK b \in WideChar : b = CellAt(mem, s)
    BY <1>1
  <2>2. PICK y \in Memory : y = PutWide(mem, d, b)
    BY <1>1, <2>1, PutWideIs
  <2>3. Mbtowc(d, s) = IF s = 0 THEN Answer(0)
                       ELSE Outcome(IF b = 0 THEN 0 ELSE 1, IF d = 0 THEN mem ELSE y)
    BY <2>1, <2>2 DEF Mbtowc
  <2>4. (IF b = 0 THEN 0 ELSE 1) \in Register /\ (IF d = 0 THEN mem ELSE y) \in Memory
    BY <1>1, <2>2, SmallNumbers
  <2>5. OutcomeOK(Answer(0)) /\ OutcomeOK(Outcome(IF b = 0 THEN 0 ELSE 1,
                                                  IF d = 0 THEN mem ELSE y))
    BY <2>4, SmallNumbers, AnswerType, OutcomeType
  <2> QED BY <2>3, <2>5
<1>3. OutcomeOK(Mblen(s))
  BY SmallNumbers, AnswerType DEF Mblen
<1>4. s \in WideChar => OutcomeOK(Wctomb(d, s))
  <2> SUFFICES ASSUME s \in WideChar PROVE OutcomeOK(Wctomb(d, s))
    OBVIOUS
  <2>1. s % Radix \in Char
    BY CellsOfWide
  <2>2. PutCell(mem, d, s % Radix) \in Memory
    BY <1>1, <2>1, PutCellIs
  <2> QED BY <2>2, SmallNumbers, AnswerType, OutcomeType DEF Wctomb
<1> QED BY <1>2, <1>3, <1>4

-----------------------------------------------------------------------------
(***************************************************************************)
(* What the wide functions answer.                                         *)
(***************************************************************************)
LEMMA WcslenAnswers ==
  ASSUME Typed, NEW a \in Nat
  PROVE  /\ OutcomeOK(Wcslen(a))
         /\ Wcslen(a).ret = Len(WidePartOf(mem, a, WideMax))
<1>1. mem \in Memory /\ WideMax \in Nat
  BY WideNumbers DEF Typed
<1>2. PICK l \in Nat : l = WideLength(mem, a, WideMax) /\ l <= WideMax
  <2>1. PICK l : l = WideLength(mem, a, WideMax)
    OBVIOUS
  <2>2. l \in Nat /\ l \in 0..WideMax
    BY <1>1, <2>1, WideLengthIs
  <2> QED BY <1>1, <2>1, <2>2
<1>3. Len(WidePartOf(mem, a, WideMax)) = l
  BY <1>1, <1>2, WidePartFacts DEF IsWidePart
<1>4. Wcslen(a) = Answer(l)
  BY <1>2 DEF Wcslen
<1>5. l \in Register
  BY <1>2, WideRegisters
<1> QED BY <1>3, <1>4, <1>5, AnswerType, AnswersIt

\* The sign of a comparison of k wide characters, as AnswersWide has it.
CompareWideBy(out, d, s, k) ==
  LET at == CHOOSE i \in 0..k : /\ \A j \in 0..(i - 1) :
                                     /\ WideAt(mem, d + 2 * j) # 0
                                     /\ WideAt(mem, d + 2 * j) = WideAt(mem, s + 2 * j)
                                /\ \/ i = k
                                   \/ WideAt(mem, d + 2 * i) = 0
                                   \/ WideAt(mem, d + 2 * i) # WideAt(mem, s + 2 * i)
      diff == IF at = k THEN 0 ELSE WideAt(mem, d + 2 * at) - WideAt(mem, s + 2 * at)
  IN  out.ret = IF diff < 0 THEN RegSize - 1 ELSE IF diff > 0 THEN 1 ELSE 0

LEMMA CompareWideAnswers ==
  ASSUME Typed, NEW a \in Nat, NEW b \in Nat, NEW k \in Nat
  PROVE  /\ OutcomeOK(CompareWide(a, b, k))
         /\ CompareWideBy(CompareWide(a, b, k), a, b, k)
<1> DEFINE u(i) == WideAt(mem, a + 2 * i)
           v(i) == WideAt(mem, b + 2 * i)
           P(i) == /\ i = k \/ (u(i) # v(i) \/ u(i) = 0)
                   /\ \A j \in 0..(i - 1) : ~(u(j) # v(j) \/ u(j) = 0)
           Q(i) == /\ \A j \in 0..(i - 1) : u(j) # 0 /\ u(j) = v(j)
                   /\ i = k \/ u(i) = 0 \/ u(i) # v(i)
           at == CHOOSE i \in 0..k : P(i)
           there == CHOOSE i \in 0..k : Q(i)
           S == {i \in 0..k : u(i) # v(i) \/ u(i) = 0}
<1>1. PICK i \in 0..k : (i = k \/ i \in S) /\ \A j \in 0..(i - 1) : j \notin S
  <2> HIDE DEF S
  <2> QED BY FirstIn
<1>2. \A j \in 0..(i - 1) : j \in 0..k
  OBVIOUS
<1>3. P(i) /\ Q(i)
  BY <1>1, <1>2
<1>4. at \in 0..k /\ P(at)
  <2> HIDE DEF P
  <2> QED BY <1>3
<1>5. there \in 0..k /\ Q(there)
  <2> HIDE DEF Q
  <2> QED BY <1>3
<1>6. CompareWide(a, b, k) = Answer(IF at = k THEN 0
                                    ELSE IF u(at) < v(at) THEN RegSize - 1
                                    ELSE IF v(at) < u(at) THEN 1 ELSE 0)
  BY Zenon DEF CompareWide, FirstStop
<1>7. CompareWideBy(CompareWide(a, b, k), a, b, k) <=>
        LET diff == IF there = k THEN 0 ELSE u(there) - v(there)
        IN  CompareWide(a, b, k).ret =
              IF diff < 0 THEN RegSize - 1 ELSE IF diff > 0 THEN 1 ELSE 0
  BY Zenon DEF CompareWideBy
<1> HIDE DEF at, there
<1>8. at = there
  <2>1. ~(at < there) /\ ~(there < at)
    BY <1>4, <1>5
  <2> QED BY <1>4, <1>5, <2>1
<1>9. PICK x \in Nat, y \in Nat : x = u(at) /\ y = v(at)
  <2>1. a + 2 * at \in Nat /\ b + 2 * at \in Nat
    BY <1>4
  <2>2. u(at) \in WideChar /\ v(at) \in WideChar
    BY <2>1, WideAtType DEF Typed
  <2> QED BY <2>2, CellsOfWide
<1> HIDE DEF u, v
<1> DEFINE ret == IF at = k THEN 0 ELSE IF x < y THEN RegSize - 1
                  ELSE IF y < x THEN 1 ELSE 0
<1>10. ret \in Register
  BY SmallNumbers
<1>11. CompareWide(a, b, k) = Answer(ret)
  BY <1>6, <1>9
<1>12. LET diff == IF there = k THEN 0 ELSE u(there) - v(there)
       IN  ret = IF diff < 0 THEN RegSize - 1 ELSE IF diff > 0 THEN 1 ELSE 0
  BY <1>8, <1>9
<1> HIDE DEF ret
<1>13. CompareWide(a, b, k).ret = ret
  BY <1>11, AnswersIt
<1> QED BY <1>7, <1>10, <1>11, <1>12, <1>13, AnswerType

\* Where a wide character is in a wide string, its end included.
WidePlaces(a, wc) ==
  {a + 2 * i : i \in {j \in 0..Len(WidePartOf(mem, a, WideMax)) :
                      WideAt(mem, a + 2 * j) = wc}}

ArePlaces(l, a, wc) ==
  /\ l < WideMax /\ l = WideLength(mem, a, WideMax)
  /\ WideAt(mem, a + 2 * l) = 0
  /\ \A i \in 0..(l - 1) : WideAt(mem, a + 2 * i) # 0
  /\ \A i \in 0..l : WideAt(mem, a + 2 * i) = wc => a + 2 * i \in WidePlaces(a, wc)
  /\ \A p \in WidePlaces(a, wc) :
       \E i \in 0..l : WideAt(mem, a + 2 * i) = wc /\ p = a + 2 * i

LEMMA WidePlacesAre ==
  ASSUME mem \in Memory, NEW a \in Nat, WideEnds(mem, a, WideMax), NEW wc
  PROVE  \E l \in Nat : ArePlaces(l, a, wc)
<1>1. WideMax \in Nat
  BY WideNumbers
<1>2. PICK l : l = WideLength(mem, a, WideMax)
  OBVIOUS
<1>3. /\ l \in Nat /\ l = WideLength(mem, a, WideMax) /\ l \in 0..WideMax
      /\ l = WideMax \/ WideAt(mem, a + 2 * l) = 0
      /\ \A i \in 0..(l - 1) : WideAt(mem, a + 2 * i) # 0
  BY <1>1, <1>2, WideLengthIs
<1>4. Len(WidePartOf(mem, a, WideMax)) = l
  BY <1>1, <1>3, WidePartFacts DEF IsWidePart
<1>5. l < WideMax
  BY <1>3 DEF WideEnds
<1>6. WidePlaces(a, wc) = {a + 2 * i : i \in {j \in 0..l : WideAt(mem, a + 2 * j) = wc}}
  BY <1>4 DEF WidePlaces
<1>7. WideAt(mem, a + 2 * l) = 0
  BY <1>1, <1>3, <1>5
<1>8. \A i \in 0..l : WideAt(mem, a + 2 * i) = wc => a + 2 * i \in WidePlaces(a, wc)
  BY <1>6, Zenon
<1>9. \A p \in WidePlaces(a, wc) :
        \E i \in 0..l : WideAt(mem, a + 2 * i) = wc /\ p = a + 2 * i
  BY <1>6, Zenon
<1> QED BY <1>3, <1>5, <1>7, <1>8, <1>9 DEF ArePlaces

LEMMA WcschrAnswers ==
  ASSUME Typed, NEW a \in Nat, a \in Register, NEW wc
  PROVE  /\ OutcomeOK(Wcschr(a, wc))
         /\ WideEnds(mem, a, WideMax) => FoundBy(Wcschr(a, wc), WidePlaces(a, wc), TRUE)
<1> DEFINE u(i) == WideAt(mem, a + 2 * i)
           P(i) == /\ i = WideMax \/ u(i) \in {wc, 0}
                   /\ \A j \in 0..(i - 1) : ~(u(j) \in {wc, 0})
           S == {i \in 0..WideMax : u(i) \in {wc, 0}}
           at == CHOOSE i \in 0..WideMax : P(i)
           ret == IF at < WideMax /\ u(at) = wc THEN a + 2 * at ELSE 0
<1>1. mem \in Memory /\ WideMax \in Nat
  BY WideNumbers DEF Typed
<1>2. PICK i \in 0..WideMax :
        (i = WideMax \/ i \in S) /\ \A j \in 0..(i - 1) : j \notin S
  <2> HIDE DEF S
  <2> QED BY <1>1, FirstIn
<1>3. \A j \in 0..(i - 1) : j \in 0..WideMax
  BY <1>1
<1>4. P(i)
  BY <1>2, <1>3
<1>5. at \in 0..WideMax /\ P(at)
  <2> HIDE DEF P
  <2> QED BY <1>4
<1>6. Wcschr(a, wc) = Answer(ret)
  BY Zenon DEF Wcschr, FirstStop
<1> HIDE DEF at
<1>7. at \in Nat
  BY <1>1, <1>5
<1>8. ret \in Register
  <2>1. at > 0 => u(at - 1) # 0
    <3>1. at > 0 => at - 1 \in 0..(at - 1)
      BY <1>7
    <3> QED BY <1>5, <3>1
  <2>2. a + 2 * at \in Register
    <3> HIDE DEF P, ret
    <3> QED BY <1>1, <1>7, <2>1, PlaceInRegister
  <2> QED BY <2>2, SmallNumbers
<1>9. ASSUME WideEnds(mem, a, WideMax)
      PROVE  FoundBy(Wcschr(a, wc), WidePlaces(a, wc), TRUE)
  <2>0. PICK l \in Nat : ArePlaces(l, a, wc)
    BY <1>1, <1>9, WidePlacesAre
  <2>1. /\ l \in Nat
        /\ l < WideMax
        /\ u(l) = 0
        /\ \A k \in 0..(l - 1) : u(k) # 0
        /\ \A k \in 0..l : u(k) = wc => a + 2 * k \in WidePlaces(a, wc)
        /\ \A p \in WidePlaces(a, wc) : \E k \in 0..l : u(k) = wc /\ p = a + 2 * k
    BY <2>0 DEF ArePlaces
  <2>2. at \in 0..l /\ at < WideMax
    <3>1. ASSUME l < at PROVE FALSE
      <4>1. l \in 0..(at - 1)
        BY <1>7, <2>1, <3>1
      <4> QED BY <1>5, <2>1, <4>1
    <3> QED BY <1>1, <1>7, <2>1, <3>1
  <2>3. CASE u(at) = wc
    <3>1. ret = a + 2 * at /\ ret \in WidePlaces(a, wc)
      <4>1. a + 2 * at \in WidePlaces(a, wc)
        <5> HIDE DEF u
        <5> QED BY <2>1, <2>2, <2>3, Zenon
      <4> QED BY <2>2, <2>3, <4>1
    <3>2. ASSUME NEW p \in WidePlaces(a, wc) PROVE ret <= p
      <4>1. PICK k \in 0..l : u(k) = wc /\ p = a + 2 * k
        BY <2>1
      <4>2. ~(k \in 0..(at - 1))
        BY <1>5, <4>1
      <4>3. at <= k
        BY <1>7, <4>1, <4>2
      <4> QED BY <1>7, <3>1, <4>1, <4>3
    <3> HIDE DEF ret
    <3> QED BY <1>6, <3>1, <3>2, AnswersIt DEF FoundBy
  <2>4. CASE u(at) # wc
    <3>1. u(at) = 0
      BY <1>5, <2>2, <2>4
    <3>2. ASSUME NEW p \in WidePlaces(a, wc) PROVE FALSE
      <4>1. PICK k \in 0..l : u(k) = wc /\ p = a + 2 * k
        BY <2>1
      <4>2. at = l
        <5>1. ~(at \in 0..(l - 1))
          BY <2>1, <3>1
        <5> QED BY <1>7, <2>1, <2>2, <5>1
      <4>3. ~(k \in 0..(at - 1)) /\ k # at
        BY <1>5, <2>4, <4>1
      <4> QED BY <1>7, <4>1, <4>2, <4>3
    <3>3. ret = 0 /\ WidePlaces(a, wc) = {}
      BY <2>4, <3>2
    <3> HIDE DEF ret
    <3> QED BY <1>6, <3>3, AnswersIt DEF FoundBy
  <2> QED BY <2>3, <2>4
<1> HIDE DEF ret
<1> QED BY <1>6, <1>8, <1>9, AnswerType

LEMMA WcsrchrAnswers ==
  ASSUME Typed, NEW a \in Nat, a \in Register, NEW wc
  PROVE  /\ OutcomeOK(Wcsrchr(a, wc))
         /\ WideEnds(mem, a, WideMax) => FoundBy(Wcsrchr(a, wc), WidePlaces(a, wc), FALSE)
<1> DEFINE u(i) == WideAt(mem, a + 2 * i)
           last == Lesser(WideLength(mem, a, WideMax), WideMax - 1)
           hits == {i \in 0..last : u(i) = wc}
           at == CHOOSE i \in hits : \A j \in hits : i >= j
           ret == IF hits = {} THEN 0 ELSE a + 2 * at
<1>1. mem \in Memory /\ WideMax \in Nat /\ WideMax > 0
  BY WideNumbers DEF Typed
<1>2. PICK l : l = WideLength(mem, a, WideMax)
  OBVIOUS
<1>3. /\ l \in Nat /\ l \in 0..WideMax
      /\ \A i \in 0..(l - 1) : u(i) # 0
  BY <1>1, <1>2, WideLengthIs
<1>4. /\ last \in Nat /\ last <= l
      /\ l < WideMax => last = l
  <2>1. last = IF l <= WideMax - 1 THEN l ELSE WideMax - 1
    BY <1>2 DEF Lesser
  <2> HIDE DEF last
  <2> QED BY <1>1, <1>3, <2>1
<1>5. Wcsrchr(a, wc) = Answer(ret)
  BY Zenon DEF Wcsrchr
<1> HIDE DEF last
<1>6. CASE hits = {}
  <2>1. ret = 0
    BY <1>6
  <2>2. ASSUME WideEnds(mem, a, WideMax), NEW p \in WidePlaces(a, wc) PROVE FALSE
    <3>0. PICK k \in Nat : ArePlaces(k, a, wc)
      BY <1>1, <2>2, WidePlacesAre
    <3>1. /\ k \in Nat
          /\ k < WideMax /\ k = WideLength(mem, a, WideMax)
          /\ \A q \in WidePlaces(a, wc) : \E i \in 0..k : u(i) = wc /\ q = a + 2 * i
      BY <3>0 DEF ArePlaces
    <3>2. k = last
      BY <1>2, <1>4, <3>1
    <3> QED BY <1>6, <2>2, <3>1, <3>2
  <2> HIDE DEF ret, hits
  <2>3. OutcomeOK(Answer(ret)) /\ (WideEnds(mem, a, WideMax) => WidePlaces(a, wc) = {})
    BY <2>1, <2>2, SmallNumbers, AnswerType
  <2> QED BY <1>5, <2>1, <2>3, AnswersIt DEF FoundBy
<1>7. CASE hits # {}
  <2>1. at \in hits /\ \A j \in hits : at >= j
    <3>1. hits \in SUBSET (0..last)
      OBVIOUS
    <3> HIDE DEF hits
    <3> QED BY <1>4, <1>7, <3>1, LastNumber
  <2>2. ret = a + 2 * at
    BY <1>7
  <2> HIDE DEF at, ret
  <2>3. at \in Nat /\ at <= last /\ u(at) = wc
    BY <1>4, <2>1
  <2>4. ret \in Register
    <3>1. at > 0 => u(at - 1) # 0
      <4>1. at > 0 => at - 1 \in 0..(l - 1)
        BY <1>3, <1>4, <2>3
      <4> QED BY <1>3, <4>1
    <3>2. a + 2 * at \in Register
      <4> HIDE DEF hits
      <4> QED BY <1>1, <2>3, <3>1, PlaceInRegister
    <3> QED BY <2>2, <3>2
  <2>5. ASSUME WideEnds(mem, a, WideMax)
        PROVE  FoundBy(Answer(ret), WidePlaces(a, wc), FALSE)
    <3>0. PICK k \in Nat : ArePlaces(k, a, wc)
      BY <1>1, <2>5, WidePlacesAre
    <3>1. /\ k \in Nat
          /\ k < WideMax /\ k = WideLength(mem, a, WideMax)
          /\ \A i \in 0..k : u(i) = wc => a + 2 * i \in WidePlaces(a, wc)
          /\ \A q \in WidePlaces(a, wc) : \E i \in 0..k : u(i) = wc /\ q = a + 2 * i
      BY <3>0 DEF ArePlaces
    <3>2. k = last
      BY <1>2, <1>4, <3>1
    <3>3. ret \in WidePlaces(a, wc)
      <4>1. at \in 0..k
        BY <2>3, <3>1, <3>2
      <4> QED BY <2>2, <2>3, <3>1, <4>1
    <3>4. ASSUME NEW p \in WidePlaces(a, wc) PROVE ret >= p
      <4>1. PICK i \in 0..k : u(i) = wc /\ p = a + 2 * i
        BY <3>1
      <4>2. i \in hits /\ i \in Nat
        BY <3>1, <3>2, <4>1
      <4>3. at >= i
        BY <2>1, <4>2
      <4> HIDE DEF u, hits
      <4> QED BY <2>2, <2>3, <4>1, <4>2, <4>3
    <3> QED BY <3>3, <3>4, AnswersIt DEF FoundBy
  <2> QED BY <1>5, <2>4, <2>5, AnswerType
<1> QED BY <1>6, <1>7

-----------------------------------------------------------------------------
(***************************************************************************)
(* One character: mbtowc and wctomb.                                       *)
(***************************************************************************)
LEMMA MbtowcWrites ==
  ASSUME mem \in Memory, NEW d \in Nat, d # 0, NEW s \in Mapped
  PROVE  /\ WroteBy(Mbtowc(d, s), d, WideCells(mem[s]))
         /\ Mbtowc(d, s).ret = IF mem[s] = 0 THEN 0 ELSE 1
<1>1. PICK b : b = mem[s]
  OBVIOUS
<1>2. s # 0 /\ CellAt(mem, s) = b /\ b \in WideChar
  BY <1>1, Addresses, CellAtType
<1>3. PICK y : y = PutWide(mem, d, b)
  OBVIOUS
<1>4. Mbtowc(d, s) = Outcome(IF b = 0 THEN 0 ELSE 1, y)
  BY <1>2, <1>3 DEF Mbtowc
<1>5. Mbtowc(d, s).ret = (IF b = 0 THEN 0 ELSE 1) /\ Mbtowc(d, s).mem = y
      /\ ~Mbtowc(d, s).panics
  BY <1>4 DEF Outcome
<1>6. PICK t : t = WideCells(b)
  OBVIOUS
<1>7. Len(t) = 2 /\ t[1] = b % Radix /\ t[2] = b \div Radix
  BY <1>6 DEF WideCells
<1>8. ASSUME Readable(d, 2), NEW c \in Mapped
      PROVE  y[c] = IF c \in d..(d + 2 - 1) THEN t[c - d + 1] ELSE mem[c]
  <2>1. /\ c # d /\ c # d + 1 => y[c] = mem[c]
        /\ y[d] = b % Radix /\ y[d + 1] = b \div Radix
    BY <1>2, <1>3, <1>8, PutWideIs
  <2>2. CASE c = d
    <3>1. c \in d..(d + 2 - 1) /\ c - d + 1 = 1
      BY <2>2
    <3> QED BY <1>7, <2>1, <2>2, <3>1
  <2>3. CASE c = d + 1
    <3>1. c \in d..(d + 2 - 1) /\ c - d + 1 = 2
      BY <2>3
    <3> QED BY <1>7, <2>1, <2>3, <3>1
  <2>4. CASE c # d /\ c # d + 1
    <3>1. c \notin d..(d + 2 - 1)
      BY <2>4
    <3> QED BY <2>1, <2>4, <3>1
  <2> QED BY <2>2, <2>3, <2>4
<1>9. WroteBy(Mbtowc(d, s), d, t)
  BY <1>5, <1>7, <1>8 DEF WroteBy
<1> QED BY <1>1, <1>5, <1>6, <1>9

LEMMA WctombWrites ==
  ASSUME mem \in Memory, NEW d \in Nat, d # 0, NEW wc \in Nat, wc < Radix
  PROVE  WroteBy(Wctomb(d, wc), d, <<wc>>) /\ Wctomb(d, wc).ret = 1
<1>1. wc % Radix = wc /\ wc \in Char
  <2>1. PICK r \in Nat : r = Radix
    BY WideNumbers
  <2>2. wc % r = wc /\ wc \in 0..(r - 1)
    BY <2>1
  <2> QED BY <2>1, <2>2, WideNumbers
<1>2. PICK y : y = PutCell(mem, d, wc)
  OBVIOUS
<1>3. Wctomb(d, wc) = Outcome(1, y)
  BY <1>1, <1>2 DEF Wctomb
<1>4. Wctomb(d, wc).ret = 1 /\ Wctomb(d, wc).mem = y /\ ~Wctomb(d, wc).panics
  BY <1>3 DEF Outcome
<1>5. \A c \in Mapped : y[c] = IF c = d THEN wc ELSE mem[c]
  BY <1>1, <1>2, PutCellIs
<1>6. PICK t : t = <<wc>>
  OBVIOUS
<1>7. Len(t) = 1 /\ t[1] = wc
  BY <1>6
<1>8. ASSUME NEW c \in Mapped
      PROVE  y[c] = IF c \in d..(d + 1 - 1) THEN t[c - d + 1] ELSE mem[c]
  <2>1. c \in Nat
    BY Addresses
  <2>2. c \in d..(d + 1 - 1) <=> c = d
    BY <2>1
  <2>3. c = d => c - d + 1 = 1
    OBVIOUS
  <2> QED BY <1>5, <1>7, <2>2, <2>3
<1>9. WroteBy(Wctomb(d, wc), d, t)
  BY <1>4, <1>7, <1>8 DEF WroteBy
<1> QED BY <1>4, <1>6, <1>9

-----------------------------------------------------------------------------
(***************************************************************************)
(* Character classes: what each flag of the table says of a character.     *)
(***************************************************************************)
LEMMA FlagsOfCharacters ==
  ASSUME NEW c \in Nat
  PROVE  /\ "U" \in CtypeFlags(c) <=> c \in 65..90
         /\ "L" \in CtypeFlags(c) <=> c \in 97..122
         /\ "N" \in CtypeFlags(c) <=> c \in 48..57
         /\ "X" \in CtypeFlags(c) <=> c \in 48..57 \/ c \in 65..70 \/ c \in 97..102
         /\ "S" \in CtypeFlags(c) <=> c \in 9..13 \/ c = 32
         /\ "B" \in CtypeFlags(c) <=> c = 32 \/ c = 9
         /\ "C" \in CtypeFlags(c) <=> c \in 0..8 \/ c \in 14..31 \/ c = 127
         /\ "P" \in CtypeFlags(c) <=> \/ c \in 33..47 \/ c \in 58..64
                                     \/ c \in 91..96 \/ c \in 123..126
<1>1. CASE c \in 65..70
  <2>1. CtypeFlags(c) = {"U", "X"}
    BY <1>1 DEF CtypeFlags
  <2> QED BY <1>1, <2>1
<1>2. CASE c \in 71..90
  <2>1. CtypeFlags(c) = {"U"}
    BY <1>2 DEF CtypeFlags
  <2> QED BY <1>2, <2>1
<1>3. CASE c \in 97..102
  <2>1. CtypeFlags(c) = {"L", "X"}
    BY <1>3 DEF CtypeFlags
  <2> QED BY <1>3, <2>1
<1>4. CASE c \in 103..122
  <2>1. CtypeFlags(c) = {"L"}
    BY <1>4 DEF CtypeFlags
  <2> QED BY <1>4, <2>1
<1>5. CASE c \in 48..57
  <2>1. CtypeFlags(c) = {"N", "X"}
    BY <1>5 DEF CtypeFlags
  <2> QED BY <1>5, <2>1
<1>6. CASE c \in {32, 9}
  <2>1. CtypeFlags(c) = {"S", "B"}
    BY <1>6 DEF CtypeFlags
  <2> QED BY <1>6, <2>1
<1>7. CASE c \in 10..13
  <2>1. CtypeFlags(c) = {"S"}
    BY <1>7 DEF CtypeFlags
  <2> QED BY <1>7, <2>1
<1>8. CASE c \in 0..8 \cup 14..31 \cup {127}
  <2>1. CtypeFlags(c) = {"C"}
    BY <1>8 DEF CtypeFlags
  <2> QED BY <1>8, <2>1
<1>9. CASE c \in 33..47 \cup 58..64 \cup 91..96 \cup 123..126
  <2>1. CtypeFlags(c) = {"P"}
    BY <1>9 DEF CtypeFlags
  <2> QED BY <1>9, <2>1
<1>10. CASE /\ ~(c \in 65..70)
           /\ ~(c \in 71..90)
           /\ ~(c \in 97..102)
           /\ ~(c \in 103..122)
           /\ ~(c \in 48..57)
           /\ ~(c \in {32, 9})
           /\ ~(c \in 10..13)
           /\ ~(c \in 0..8 \cup 14..31 \cup {127})
           /\ ~(c \in 33..47 \cup 58..64 \cup 91..96 \cup 123..126)
  <2>1. CtypeFlags(c) = {}
    BY <1>10 DEF CtypeFlags
  <2> QED BY <1>10, <2>1
<1> QED BY <1>1, <1>2, <1>3, <1>4, <1>5, <1>6, <1>7, <1>8, <1>9, <1>10

LEMMA ClassNames ==
  /\ DOMAIN ClassFlags = {"isupper", "islower", "isdigit", "isalpha", "isalnum", "isspace",
                         "isxdigit", "isprint", "iscntrl", "ispunct", "isgraph", "isblank"}
  /\ ClassFlags["isupper"] = {"U"}
  /\ ClassFlags["islower"] = {"L"}
  /\ ClassFlags["isdigit"] = {"N"}
  /\ ClassFlags["isalpha"] = {"U", "L"}
  /\ ClassFlags["isalnum"] = {"U", "L", "N"}
  /\ ClassFlags["isspace"] = {"S"}
  /\ ClassFlags["isxdigit"] = {"N", "X"}
  /\ ClassFlags["isprint"] = {"P", "U", "L", "N", "B"}
  /\ ClassFlags["iscntrl"] = {"C"}
  /\ ClassFlags["ispunct"] = {"P"}
  /\ ClassFlags["isgraph"] = {"P", "U", "L", "N"}
  /\ ClassFlags["isblank"] = {"B"}
BY DEF ClassFlags

LEMMA ClassesByName ==
  ASSUME NEW c
  PROVE  /\ Class("isupper", c) = IsUpper(c)
         /\ Class("islower", c) = IsLower(c)
         /\ Class("isdigit", c) = IsDigit(c)
         /\ Class("isalpha", c) = IsAlpha(c)
         /\ Class("isalnum", c) = IsAlnum(c)
         /\ Class("isspace", c) = IsSpace(c)
         /\ Class("isxdigit", c) = IsXdigit(c)
         /\ Class("isprint", c) = IsPrint(c)
         /\ Class("iscntrl", c) = IsCntrl(c)
         /\ Class("ispunct", c) = IsPunct(c)
         /\ Class("isgraph", c) = IsGraph(c)
         /\ Class("isblank", c) = IsBlank(c)
BY DEF Class

LEMMA TableByName ==
  ASSUME NEW c
  PROVE  /\ ByTable("isupper", c) <=> "U" \in CtypeFlags(c)
         /\ ByTable("islower", c) <=> "L" \in CtypeFlags(c)
         /\ ByTable("isdigit", c) <=> "N" \in CtypeFlags(c)
         /\ ByTable("isalpha", c) <=> "U" \in CtypeFlags(c) \/ "L" \in CtypeFlags(c)
         /\ ByTable("isalnum", c) <=> \/ "U" \in CtypeFlags(c)
                                      \/ "L" \in CtypeFlags(c)
                                      \/ "N" \in CtypeFlags(c)
         /\ ByTable("isspace", c) <=> "S" \in CtypeFlags(c)
         /\ ByTable("isxdigit", c) <=> "N" \in CtypeFlags(c) \/ "X" \in CtypeFlags(c)
         /\ ByTable("isprint", c) <=> \/ "P" \in CtypeFlags(c)
                                      \/ "U" \in CtypeFlags(c)
                                      \/ "L" \in CtypeFlags(c)
                                      \/ "N" \in CtypeFlags(c)
                                      \/ "B" \in CtypeFlags(c)
         /\ ByTable("iscntrl", c) <=> "C" \in CtypeFlags(c)
         /\ ByTable("ispunct", c) <=> "P" \in CtypeFlags(c)
         /\ ByTable("isgraph", c) <=> \/ "P" \in CtypeFlags(c)
                                      \/ "U" \in CtypeFlags(c)
                                      \/ "L" \in CtypeFlags(c)
                                      \/ "N" \in CtypeFlags(c)
         /\ ByTable("isblank", c) <=> "B" \in CtypeFlags(c)
BY ClassNames DEF ByTable

\* The exceptions are those of ClassesAgree.
LEMMA ClassIsByTable ==
  ASSUME NEW fn \in DOMAIN ClassFlags, NEW c \in 0..255,
         ~(fn = "iscntrl" /\ c \in 9..13), ~(fn = "isprint" /\ c = 9)
  PROVE  Class(fn, c) <=> ByTable(fn, c)
<1>1. CASE fn = "isupper"
  <2>1. Class(fn, c) = IsUpper(c) /\ (ByTable(fn, c) <=> "U" \in CtypeFlags(c))
    BY <1>1, ClassesByName, TableByName
  <2>2. IsUpper(c) <=> "U" \in CtypeFlags(c)
    BY <1>1, FlagsOfCharacters DEF IsUpper, IsInRange
  <2> QED BY <2>1, <2>2
<1>2. CASE fn = "islower"
  <2>1. Class(fn, c) = IsLower(c) /\ (ByTable(fn, c) <=> "L" \in CtypeFlags(c))
    BY <1>2, ClassesByName, TableByName
  <2>2. IsLower(c) <=> "L" \in CtypeFlags(c)
    BY <1>2, FlagsOfCharacters DEF IsLower, IsInRange
  <2> QED BY <2>1, <2>2
<1>3. CASE fn = "isdigit"
  <2>1. Class(fn, c) = IsDigit(c) /\ (ByTable(fn, c) <=> "N" \in CtypeFlags(c))
    BY <1>3, ClassesByName, TableByName
  <2>2. IsDigit(c) <=> "N" \in CtypeFlags(c)
    BY <1>3, FlagsOfCharacters DEF IsDigit, IsInRange
  <2> QED BY <2>1, <2>2
<1>4. CASE fn = "isalpha"
  <2>1. Class(fn, c) = IsAlpha(c) /\ (ByTable(fn, c) <=>
                                        \/ "U" \in CtypeFlags(c)
                                        \/ "L" \in CtypeFlags(c))
    BY <1>4, ClassesByName, TableByName
  <2>2. IsAlpha(c) <=> "U" \in CtypeFlags(c) \/ "L" \in CtypeFlags(c)
    BY <1>4, FlagsOfCharacters DEF IsAlpha, IsUpper, IsLower, IsInRange
  <2> QED BY <2>1, <2>2
<1>5. CASE fn = "isalnum"
  <2>1. Class(fn, c) = IsAlnum(c) /\ (ByTable(fn, c) <=>
                                        \/ "U" \in CtypeFlags(c)
                                        \/ "L" \in CtypeFlags(c)
                                        \/ "N" \in CtypeFlags(c))
    BY <1>5, ClassesByName, TableByName
  <2>2. IsAlnum(c) <=> \/ "U" \in CtypeFlags(c)
                       \/ "L" \in CtypeFlags(c)
                       \/ "N" \in CtypeFlags(c)
    BY <1>5, FlagsOfCharacters DEF IsAlnum, IsAlpha, IsUpper, IsLower, IsDigit, IsInRange
  <2> QED BY <2>1, <2>2
<1>6. CASE fn = "isspace"
  <2>1. Class(fn, c) = IsSpace(c) /\ (ByTable(fn, c) <=> "S" \in CtypeFlags(c))
    BY <1>6, ClassesByName, TableByName
  <2>2. IsSpace(c) <=> "S" \in CtypeFlags(c)
    BY <1>6, FlagsOfCharacters DEF IsSpace
  <2> QED BY <2>1, <2>2
<1>7. CASE fn = "isxdigit"
  <2>1. Class(fn, c) = IsXdigit(c) /\ (ByTable(fn, c) <=>
                                         \/ "N" \in CtypeFlags(c)
                                         \/ "X" \in CtypeFlags(c))
    BY <1>7, ClassesByName, TableByName
  <2>2. IsXdigit(c) <=> "N" \in CtypeFlags(c) \/ "X" \in CtypeFlags(c)
    BY <1>7, FlagsOfCharacters DEF IsXdigit, IsDigit, IsInRange
  <2> QED BY <2>1, <2>2
<1>8. CASE fn = "isprint"
  <2>1. Class(fn, c) = IsPrint(c) /\ (ByTable(fn, c) <=>
                                        \/ "P" \in CtypeFlags(c)
                                        \/ "U" \in CtypeFlags(c)
                                        \/ "L" \in CtypeFlags(c)
                                        \/ "N" \in CtypeFlags(c)
                                        \/ "B" \in CtypeFlags(c))
    BY <1>8, ClassesByName, TableByName
  <2>2. IsPrint(c) <=> \/ "P" \in CtypeFlags(c)
                       \/ "U" \in CtypeFlags(c)
                       \/ "L" \in CtypeFlags(c)
                       \/ "N" \in CtypeFlags(c)
                       \/ "B" \in CtypeFlags(c)
    BY <1>8, FlagsOfCharacters DEF IsPrint, IsInRange
  <2> QED BY <2>1, <2>2
<1>9. CASE fn = "iscntrl"
  <2>1. Class(fn, c) = IsCntrl(c) /\ (ByTable(fn, c) <=> "C" \in CtypeFlags(c))
    BY <1>9, ClassesByName, TableByName
  <2>2. IsCntrl(c) <=> "C" \in CtypeFlags(c)
    BY <1>9, FlagsOfCharacters DEF IsCntrl
  <2> QED BY <2>1, <2>2
<1>10. CASE fn = "ispunct"
  <2>1. Class(fn, c) = IsPunct(c) /\ (ByTable(fn, c) <=> "P" \in CtypeFlags(c))
    BY <1>10, ClassesByName, TableByName
  <2>2. IsPunct(c) <=> "P" \in CtypeFlags(c)
    BY <1>10, FlagsOfCharacters DEF IsPunct, IsInRange
  <2> QED BY <2>1, <2>2
<1>11. CASE fn = "isgraph"
  <2>1. Class(fn, c) = IsGraph(c) /\ (ByTable(fn, c) <=>
                                        \/ "P" \in CtypeFlags(c)
                                        \/ "U" \in CtypeFlags(c)
                                        \/ "L" \in CtypeFlags(c)
                                        \/ "N" \in CtypeFlags(c))
    BY <1>11, ClassesByName, TableByName
  <2>2. IsGraph(c) <=> \/ "P" \in CtypeFlags(c)
                       \/ "U" \in CtypeFlags(c)
                       \/ "L" \in CtypeFlags(c)
                       \/ "N" \in CtypeFlags(c)
    BY <1>11, FlagsOfCharacters DEF IsGraph, IsInRange
  <2> QED BY <2>1, <2>2
<1>12. CASE fn = "isblank"
  <2>1. Class(fn, c) = IsBlank(c) /\ (ByTable(fn, c) <=> "B" \in CtypeFlags(c))
    BY <1>12, ClassesByName, TableByName
  <2>2. IsBlank(c) <=> "B" \in CtypeFlags(c)
    BY <1>12, FlagsOfCharacters DEF IsBlank
  <2> QED BY <2>1, <2>2
<1> QED BY ClassNames, <1>1, <1>2, <1>3, <1>4, <1>5, <1>6, <1>7, <1>8, <1>9, <1>10, <1>11, <1>12

LEMMA NoFlags ==
  ASSUME NEW c \in Nat, c >= 255, NEW fn \in DOMAIN ClassFlags
  PROVE  ~ByTable(fn, c)
<1>1. CtypeFlags(c) = {}
  BY DEF CtypeFlags
<1> QED BY <1>1 DEF ByTable

LEMMA RegistersHoldBytes ==
  /\ 255 \in Nat /\ RegSize \in Nat /\ RegSize > 255
  /\ (RegSize - 1) % 256 = 255
  /\ \A c \in 0..255 : c % 256 = c /\ c \in Register
<1>1. PICK r \in Nat : r = RegSize /\ r > 0 /\ r % 256 = 0
  BY Numbers, WideStringsAssumption
<1>2. PICK q \in Nat : r = 256 * q
  <2>0. PICK m \in Nat : m = 256 /\ m > 0
    OBVIOUS
  <2>1. PICK q \in Nat, z \in Nat : q = r \div m /\ z = r % m /\ r = m * q + z
    <3>1. r \div m \in Nat /\ r % m \in 0..(m - 1) /\ r = m * (r \div m) + (r % m)
      BY <2>0
    <3> QED BY <3>1
  <2>2. z = 0
    BY <1>1, <2>0, <2>1
  <2>3. r = 256 * q
    BY <2>0, <2>1, <2>2
  <2> QED BY <2>3
<1>3. r > 255
  BY <1>1, <1>2
<1>4. (r - 1) % 256 = 255
  BY <1>2, <1>3
<1>5. \A c \in 0..255 : c % 256 = c /\ c \in 0..(r - 1)
  BY <1>3
<1> QED BY <1>1, <1>3, <1>4, <1>5 DEF Register

LEMMA ClassifyAnswers ==
  ASSUME Typed, NEW fn \in DOMAIN ClassFlags, NEW c \in 0..255 \cup {RegSize - 1}
  PROVE  /\ OutcomeOK(Classify(fn, c))
         /\ ~(fn = "iscntrl" /\ c \in 9..13) /\ ~(fn = "isprint" /\ c = 9) =>
              ((Classify(fn, c).ret = 1) <=> ByTable(fn, c))
<1>1. PICK ret : ret = IF Class(fn, c % 256) THEN 1 ELSE 0
  OBVIOUS
<1>2. Classify(fn, c) = Answer(ret) /\ ret \in Register
  BY <1>1, SmallNumbers DEF Classify
<1>3. ASSUME ~(fn = "iscntrl" /\ c \in 9..13), ~(fn = "isprint" /\ c = 9)
      PROVE  Class(fn, c % 256) <=> ByTable(fn, c)
  <2>1. CASE c \in 0..255
    <3>1. c % 256 = c
      BY <2>1, RegistersHoldBytes
    <3> QED BY <1>3, <2>1, <3>1, ClassIsByTable
  <2>2. CASE c = RegSize - 1
    <3>1. c % 256 = 255 /\ c \in Nat /\ c >= 255 /\ 255 \in Nat
      BY <2>2, RegistersHoldBytes
    <3>2. 255 \in 0..255 /\ ~(255 \in 9..13) /\ 255 # 9
      OBVIOUS
    <3>3. Class(fn, 255) <=> ByTable(fn, 255)
      BY <3>2, ClassIsByTable
    <3>4. ~ByTable(fn, 255) /\ ~ByTable(fn, c)
      BY <3>1, NoFlags
    <3> QED BY <3>1, <3>3, <3>4
  <2> QED BY <2>1, <2>2
<1> QED BY <1>1, <1>2, <1>3, AnswerType, AnswersIt

LEMMA CasesAnswer ==
  ASSUME Typed, NEW c \in 0..255 \cup {RegSize - 1}
  PROVE  /\ OutcomeOK(Answer(ToUpper(c % 256))) /\ OutcomeOK(Answer(ToLower(c % 256)))
         /\ c < 256 =>
              /\ IF "L" \in CtypeFlags(c)
                   THEN "U" \in CtypeFlags(ToUpper(c % 256)) /\ ToUpper(c % 256) = c - 32
                   ELSE ToUpper(c % 256) = c
              /\ IF "U" \in CtypeFlags(c)
                   THEN "L" \in CtypeFlags(ToLower(c % 256)) /\ ToLower(c % 256) = c + 32
                   ELSE ToLower(c % 256) = c
<1>1. PICK b \in 0..255 : b = c % 256 /\ (c < 256 => b = c)
  <2>1. c \in 0..255 => c % 256 = c
    BY RegistersHoldBytes
  <2>2. c = RegSize - 1 => c % 256 = 255 /\ c \in Nat /\ c >= 255
    BY RegistersHoldBytes
  <2>3. c % 256 \in 0..255 /\ (c < 256 => c % 256 = c)
    BY <2>1, <2>2
  <2> QED BY <2>3
<1>2. /\ b \in 97..122 => ToUpper(b) = b - 32 /\ b - 32 \in 65..90
      /\ b \notin 97..122 => ToUpper(b) = b
  BY DEF ToUpper, IsLower, IsInRange
<1>3. /\ b \in 65..90 => ToLower(b) = b + 32 /\ b + 32 \in 97..122
      /\ b \notin 65..90 => ToLower(b) = b
  BY DEF ToLower, IsUpper, IsInRange
<1>4. ToUpper(b) \in 0..255 /\ ToLower(b) \in 0..255
  BY <1>2, <1>3
<1>5. OutcomeOK(Answer(ToUpper(b))) /\ OutcomeOK(Answer(ToLower(b)))
  BY <1>4, RegistersHoldBytes, AnswerType
<1>6. /\ IF "L" \in CtypeFlags(b) THEN "U" \in CtypeFlags(ToUpper(b)) /\ ToUpper(b) = b - 32
                                  ELSE ToUpper(b) = b
      /\ IF "U" \in CtypeFlags(b) THEN "L" \in CtypeFlags(ToLower(b)) /\ ToLower(b) = b + 32
                                  ELSE ToLower(b) = b
  <2>1. b \in Nat /\ ToUpper(b) \in Nat /\ ToLower(b) \in Nat
    BY <1>4
  <2>2. ("L" \in CtypeFlags(b) <=> b \in 97..122) /\ ("U" \in CtypeFlags(b) <=> b \in 65..90)
    BY <2>1, FlagsOfCharacters
  <2>3. /\ "U" \in CtypeFlags(ToUpper(b)) <=> ToUpper(b) \in 65..90
        /\ "L" \in CtypeFlags(ToLower(b)) <=> ToLower(b) \in 97..122
    BY <2>1, FlagsOfCharacters
  <2> QED BY <1>2, <1>3, <2>2, <2>3
<1> QED BY <1>1, <1>5, <1>6

-----------------------------------------------------------------------------
(***************************************************************************)
(* From outcomes to states, for the wide functions.                        *)
(***************************************************************************)
LEMMA WideBefore ==
  ASSUME before' = mem
  PROVE  /\ \A a, n : WidePart(a, n)' = WidePartOf(mem, a, n)
         /\ \A a : WideStr(a)' = WidePartOf(mem, a, WideMax)
         /\ \A a, n : WideLegible(a, n)' <=> WideEnds(mem, a, n)
<1>1. \A a, n : WidePart(a, n)' = WidePartOf(mem, a, n)
  BY DEF WidePart, WidePartOf
<1>2. \A a : WideStr(a)' = WidePartOf(mem, a, WideMax)
  BY DEF WideStr, WidePart, WidePartOf
<1>3. \A a, n : WideLegible(a, n)' <=> WideEnds(mem, a, n)
  BY DEF WideLegible, WideEnds
<1> QED BY <1>1, <1>2, <1>3

LEMMA OtherCopiesWide ==
  call.fn \notin {"wcscpy", "wcscat", "wcsncat", "wcsncpy", "mbstowcs", "wcstombs",
                  "mbtowc", "wctomb"} => CopiesWide
BY DEF CopiesWide

LEMMA OtherAnswersWide ==
  call.fn \notin {"wcslen", "wcscmp", "wcsncmp", "wcschr", "wcsrchr"} => AnswersWide
BY DEF AnswersWide

LEMMA OtherClasses ==
  call.fn \notin DOMAIN ClassFlags \cup {"toupper", "tolower"} => ClassesAgree
BY DEF ClassesAgree

LEMMA WcscpyStep ==
  ASSUME TypeOK, Fresh, NEW d \in Pointers, NEW s \in Pointers,
         Call("wcscpy", d, s, 0, Wcscpy(d, s))
  PROVE  CopiesWide'
<1>1. /\ call.fn = "none" /\ call'.fn = "wcscpy" /\ call'.d = d /\ call'.s = s
      /\ before' = mem
  BY Called
<1>2. mem \in Memory /\ d \in Nat /\ s \in Nat
  BY <1>1, FreshTyped, Addresses
<1>3. PICK w : w = Append(WidePartOf(mem, s, WideMax), 0)
  OBVIOUS
<1>4. Append(WideStr(s), 0)' = w /\ (WideLegible(s, WideMax)' <=> WideEnds(mem, s, WideMax))
  BY <1>1, <1>3, WideBefore
<1>5. WideEnds(mem, s, WideMax) /\ Apart(d, 2 * Len(w), s, 2 * Len(w)) =>
        Wrote(d, Cells(w))'
  <2>1. WideEnds(mem, s, WideMax) /\ Apart(d, 2 * Len(w), s, 2 * Len(w)) =>
          WroteBy(Wcscpy(d, s), d, Cells(w))
    BY <1>2, <1>3, WcscpyWrites
  <2>2. PICK t : t = Cells(w)
    OBVIOUS
  <2>3. WroteBy(Wcscpy(d, s), d, t) => Wrote(d, t)'
    BY OutcomeAfter
  <2> QED BY <2>1, <2>2, <2>3
<1> QED BY <1>1, <1>4, <1>5 DEF CopiesWide

LEMMA WcscatStep ==
  ASSUME TypeOK, Fresh, NEW d \in Pointers, NEW s \in Pointers,
         Call("wcscat", d, s, 0, Wcscat(d, s))
  PROVE  CopiesWide'
<1>1. /\ call.fn = "none" /\ call'.fn = "wcscat" /\ call'.d = d /\ call'.s = s
      /\ before' = mem
  BY Called
<1>2. mem \in Memory /\ d \in Nat /\ s \in Nat
  BY <1>1, FreshTyped, Addresses
<1>3. PICK w, end : /\ w = Append(WidePartOf(mem, s, WideMax), 0)
                    /\ end = d + 2 * Len(WidePartOf(mem, d, WideMax))
  OBVIOUS
<1>4. /\ Append(WideStr(s), 0)' = w /\ (d + 2 * Len(WideStr(d)))' = end
      /\ WideLegible(s, WideMax)' <=> WideEnds(mem, s, WideMax)
      /\ WideLegible(d, WideMax)' <=> WideEnds(mem, d, WideMax)
  BY <1>1, <1>3, WideBefore
<1>5. WideEnds(mem, s, WideMax) /\ WideEnds(mem, d, WideMax)
      /\ Apart(end, 2 * Len(w), s, 2 * Len(w)) => Wrote(end, Cells(w))'
  <2>1. WideEnds(mem, s, WideMax) /\ WideEnds(mem, d, WideMax)
        /\ Apart(end, 2 * Len(w), s, 2 * Len(w)) => WroteBy(Wcscat(d, s), end, Cells(w))
    BY <1>2, <1>3, WcscatWrites
  <2>2. PICK t : t = Cells(w)
    OBVIOUS
  <2>3. WroteBy(Wcscat(d, s), end, t) => Wrote(end, t)'
    BY OutcomeAfter
  <2> QED BY <2>1, <2>2, <2>3
<1> QED BY <1>1, <1>4, <1>5 DEF CopiesWide

LEMMA WcsncatStep ==
  ASSUME TypeOK, Fresh, NEW d \in Pointers, NEW s \in Pointers, NEW n \in Sizes,
         Call("wcsncat", d, s, n, Wcsncat(d, s, n))
  PROVE  CopiesWide'
<1>1. /\ call.fn = "none" /\ call'.fn = "wcsncat" /\ call'.d = d /\ call'.s = s
      /\ call'.n = n /\ before' = mem
  BY Called
<1>2. mem \in Memory /\ d \in Nat /\ s \in Nat /\ n \in Nat
  BY <1>1, FreshTyped, Addresses
<1>3. PICK w, end : /\ w = Append(WidePartOf(mem, s, n), 0)
                    /\ end = d + 2 * Len(WidePartOf(mem, d, WideMax))
  OBVIOUS
<1>4. /\ Append(WidePart(s, n), 0)' = w /\ (d + 2 * Len(WideStr(d)))' = end
      /\ WideLegible(d, WideMax)' <=> WideEnds(mem, d, WideMax)
  BY <1>1, <1>3, WideBefore
<1>5. n <= WideMax /\ Readable(s, 2 * n) /\ WideEnds(mem, d, WideMax)
      /\ Apart(end, 2 * Len(w), s, 2 * Len(w)) => Wrote(end, Cells(w))'
  <2>1. n <= WideMax /\ Readable(s, 2 * n) /\ WideEnds(mem, d, WideMax)
        /\ Apart(end, 2 * Len(w), s, 2 * Len(w)) => WroteBy(Wcsncat(d, s, n), end, Cells(w))
    BY <1>2, <1>3, WcsncatWrites
  <2>2. PICK t : t = Cells(w)
    OBVIOUS
  <2>3. WroteBy(Wcsncat(d, s, n), end, t) => Wrote(end, t)'
    BY OutcomeAfter
  <2> QED BY <2>1, <2>2, <2>3
<1> QED BY <1>1, <1>4, <1>5 DEF CopiesWide

LEMMA WcsncpyStep ==
  ASSUME TypeOK, Fresh, NEW d \in Pointers, NEW s \in Pointers, NEW n \in Sizes,
         Call("wcsncpy", d, s, n, Wcsncpy(d, s, n))
  PROVE  CopiesWide'
<1>1. /\ call.fn = "none" /\ call'.fn = "wcsncpy" /\ call'.d = d /\ call'.s = s
      /\ call'.n = n /\ before' = mem
  BY Called
<1>2. mem \in Memory /\ d \in Nat /\ s \in Nat /\ n \in Nat
  BY <1>1, FreshTyped, Addresses
<1>3. PICK w, v : w = Padded(mem, s, n) /\ v = WidePartOf(mem, s, n)
  OBVIOUS
<1>4. WidePart(s, n)' = v
  BY <1>1, <1>3, WideBefore
<1>5. w = [i \in 1..n |-> IF i <= Len(v) THEN v[i] ELSE 0] /\ Len(w) = n
  BY <1>2, <1>3 DEF Padded
<1>6. n <= WideMax /\ Readable(s, 2 * n) /\ Apart(d, 2 * Len(w), s, 2 * Len(w)) =>
        Wrote(d, Cells(w))'
  <2>1. n <= WideMax /\ Readable(s, 2 * n) /\ Apart(d, 2 * n, s, 2 * n) =>
          WroteBy(Wcsncpy(d, s, n), d, Cells(w))
    BY <1>2, <1>3, WcsncpyWrites
  <2>2. PICK t : t = Cells(w)
    OBVIOUS
  <2>3. WroteBy(Wcsncpy(d, s, n), d, t) => Wrote(d, t)'
    BY OutcomeAfter
  <2> QED BY <1>5, <2>1, <2>2, <2>3
<1>7. [i \in 1..n |-> IF i <= Len(WidePart(s, n)) THEN WidePart(s, n)[i] ELSE 0]' = w
  BY <1>4, <1>5
<1> QED BY <1>1, <1>6, <1>7 DEF CopiesWide

LEMMA MbstowcsStep ==
  ASSUME TypeOK, Fresh, NEW d \in Pointers \cup {0}, NEW s \in Pointers \cup {0},
         NEW n \in Sizes, Call("mbstowcs", d, s, n, Mbstowcs(d, s, n))
  PROVE  CopiesWide'
<1>1. /\ call.fn = "none" /\ call'.fn = "mbstowcs" /\ call'.d = d /\ call'.s = s
      /\ call'.n = n /\ before' = mem /\ x0' = Mbstowcs(d, s, n).ret
  BY Called
<1>2. mem \in Memory /\ d \in Nat /\ s \in Nat /\ n \in Nat
  BY <1>1, FreshTyped, Addresses
<1>3. PICK str : str = PartOf(mem, s, n)
  OBVIOUS
<1>4. PICK w : w = IF Len(str) < n THEN Append(str, 0) ELSE str
  OBVIOUS
<1>5. CPart(s, n)' = str
  BY <1>1, <1>3, MemoryBefore
<1>6. d # 0 /\ n <= WideMax /\ Readable(s, n)
      /\ (s + Len(w) <= d \/ d + 2 * Len(w) <= s) =>
        Wrote(d, Cells(w))' /\ x0' = Len(str)
  <2>1. d # 0 /\ n <= WideMax /\ Readable(s, n)
        /\ (s + Len(w) <= d \/ d + 2 * Len(w) <= s) =>
          WroteBy(Mbstowcs(d, s, n), d, Cells(w)) /\ Mbstowcs(d, s, n).ret = Len(str)
    BY <1>2, <1>3, <1>4, MbstowcsWrites
  <2>2. PICK t : t = Cells(w)
    OBVIOUS
  <2>3. WroteBy(Mbstowcs(d, s, n), d, t) => Wrote(d, t)'
    BY OutcomeAfter
  <2> QED BY <1>1, <2>1, <2>2, <2>3
<1> QED BY <1>1, <1>4, <1>5, <1>6 DEF CopiesWide

LEMMA WcstombsStep ==
  ASSUME TypeOK, Fresh, NEW d \in Pointers \cup {0}, NEW s \in Pointers \cup {0},
         NEW n \in Sizes, Call("wcstombs", d, s, n, Wcstombs(d, s, n))
  PROVE  CopiesWide'
<1>1. /\ call.fn = "none" /\ call'.fn = "wcstombs" /\ call'.d = d /\ call'.s = s
      /\ call'.n = n /\ before' = mem /\ x0' = Wcstombs(d, s, n).ret
  BY Called
<1>2. mem \in Memory /\ d \in Nat /\ s \in Nat /\ n \in Nat
  BY <1>1, FreshTyped, Addresses
<1>3. PICK str : str = WidePartOf(mem, s, n)
  OBVIOUS
<1>4. PICK w : w = IF Len(str) < n THEN Append(str, 0) ELSE str
  OBVIOUS
<1>5. WidePart(s, n)' = str
  BY <1>1, <1>3, WideBefore
<1>6. d # 0 /\ n <= WideMax /\ Readable(s, 2 * n)
      /\ (\A i \in 1..Len(str) : str[i] < Radix)
      /\ Apart(d, Len(w), s, 2 * Len(w)) => Wrote(d, w)' /\ x0' = Len(str)
  <2>1. d # 0 /\ n <= WideMax /\ Readable(s, 2 * n)
        /\ (\A i \in 1..Len(str) : str[i] < Radix)
        /\ Apart(d, Len(w), s, 2 * Len(w)) =>
          WroteBy(Wcstombs(d, s, n), d, w) /\ Wcstombs(d, s, n).ret = Len(str)
    BY <1>2, <1>3, <1>4, WcstombsWrites
  <2>2. WroteBy(Wcstombs(d, s, n), d, w) => Wrote(d, w)'
    BY OutcomeAfter
  <2> QED BY <1>1, <2>1, <2>2
<1> QED BY <1>1, <1>4, <1>5, <1>6 DEF CopiesWide

LEMMA CharacterSteps ==
  ASSUME TypeOK, Fresh, NEW d \in Pointers \cup {0}
  PROVE  /\ \A s \in Pointers \cup {0} : Call("mbtowc", d, s, 0, Mbtowc(d, s)) => CopiesWide'
         /\ d # 0 => \A wc \in Nat : Call("wctomb", d, wc, 0, Wctomb(d, wc)) => CopiesWide'
<1>1. ASSUME NEW s \in Pointers \cup {0}, Call("mbtowc", d, s, 0, Mbtowc(d, s))
      PROVE  CopiesWide'
  <2>1. /\ call.fn = "none" /\ call'.fn = "mbtowc" /\ call'.d = d /\ call'.s = s
        /\ before' = mem /\ x0' = Mbtowc(d, s).ret
    BY <1>1, Called
  <2>2. mem \in Memory /\ d \in Nat
    BY <2>1, FreshTyped, Addresses
  <2>3. PICK b : b = mem[s]
    OBVIOUS
  <2>4. PICK t : t = WideCells(b)
    OBVIOUS
  <2>5. d # 0 /\ s \in Mapped => Wrote(d, t)' /\ x0' = IF b = 0 THEN 0 ELSE 1
    <3>1. d # 0 /\ s \in Mapped => /\ WroteBy(Mbtowc(d, s), d, t)
                                   /\ Mbtowc(d, s).ret = IF b = 0 THEN 0 ELSE 1
      BY <2>2, <2>3, <2>4, MbtowcWrites
    <3>2. WroteBy(Mbtowc(d, s), d, t) => Wrote(d, t)'
      BY <1>1, OutcomeAfter
    <3> QED BY <2>1, <3>1, <3>2
  <2>6. WideCells(before[s])' = t
    BY <2>1, <2>3, <2>4 DEF WideCells
  <2> QED BY <2>1, <2>3, <2>5, <2>6 DEF CopiesWide
<1>2. ASSUME d # 0, NEW wc \in Nat, Call("wctomb", d, wc, 0, Wctomb(d, wc))
      PROVE  CopiesWide'
  <2>1. /\ call.fn = "none" /\ call'.fn = "wctomb" /\ call'.d = d /\ call'.s = wc
        /\ before' = mem /\ x0' = Wctomb(d, wc).ret
    BY <1>2, Called
  <2>2. mem \in Memory /\ d \in Nat
    BY <2>1, FreshTyped, Addresses
  <2>3. wc < Radix => Wrote(d, <<wc>>)' /\ x0' = 1
    <3>1. wc < Radix => WroteBy(Wctomb(d, wc), d, <<wc>>) /\ Wctomb(d, wc).ret = 1
      BY <1>2, <2>2, WctombWrites
    <3>2. PICK t : t = <<wc>>
      OBVIOUS
    <3>3. WroteBy(Wctomb(d, wc), d, t) => Wrote(d, t)'
      BY <1>2, OutcomeAfter
    <3> QED BY <2>1, <3>1, <3>2, <3>3
  <2> QED BY <2>1, <2>3 DEF CopiesWide
<1> QED BY <1>1, <1>2

LEMMA WcslenStep ==
  ASSUME TypeOK, Fresh, NEW s \in Pointers, Call("wcslen", 0, s, 0, Wcslen(s))
  PROVE  AnswersWide'
<1>1. /\ call.fn = "none" /\ call'.fn = "wcslen" /\ call'.s = s
      /\ before' = mem /\ x0' = Wcslen(s).ret
  BY Called
<1>2. Typed /\ s \in Nat
  BY <1>1, FreshTyped, Addresses
<1>3. WideStr(s)' = WidePartOf(mem, s, WideMax)
  BY <1>1, WideBefore
<1>4. x0' = Len(WidePartOf(mem, s, WideMax))
  BY <1>1, <1>2, WcslenAnswers
<1> QED BY <1>1, <1>3, <1>4 DEF AnswersWide

\* The sign of AnswersWide, in the state after the call.
SignAfter(d, s, k) ==
  LET at == CHOOSE i \in 0..k : /\ \A j \in 0..(i - 1) :
                                     /\ WideAt(before, d + 2 * j) # 0
                                     /\ WideAt(before, d + 2 * j)
                                          = WideAt(before, s + 2 * j)
                                /\ \/ i = k
                                   \/ WideAt(before, d + 2 * i) = 0
                                   \/ WideAt(before, d + 2 * i)
                                        # WideAt(before, s + 2 * i)
      diff == IF at = k THEN 0
              ELSE WideAt(before, d + 2 * at) - WideAt(before, s + 2 * at)
  IN  x0 = IF diff < 0 THEN RegSize - 1 ELSE IF diff > 0 THEN 1 ELSE 0

LEMMA SignIsAnswered ==
  ASSUME NEW out, before' = mem, x0' = out.ret, NEW d, NEW s, NEW k,
         CompareWideBy(out, d, s, k)
  PROVE  SignAfter(d, s, k)'
BY DEF SignAfter, CompareWideBy

LEMMA WcscmpIs ==
  call.fn = "wcscmp" =>
    (AnswersWide <=> (WideLegible(call.d, WideMax) /\ WideLegible(call.s, WideMax) =>
                        SignAfter(call.d, call.s, WideMax)))
BY DEF AnswersWide, SignAfter

LEMMA WcsncmpIs ==
  call.fn = "wcsncmp" =>
    (AnswersWide <=> (call.n <= WideMax /\ Readable(call.d, 2 * call.n)
                        /\ Readable(call.s, 2 * call.n) =>
                        SignAfter(call.d, call.s, call.n)))
BY DEF AnswersWide, SignAfter

LEMMA WcscmpStep ==
  ASSUME TypeOK, Fresh, NEW d \in Pointers, NEW s \in Pointers,
         Call("wcscmp", d, s, 0, Wcscmp(d, s))
  PROVE  AnswersWide'
<1>1. /\ call.fn = "none" /\ call'.fn = "wcscmp" /\ call'.d = d /\ call'.s = s
      /\ before' = mem /\ x0' = Wcscmp(d, s).ret
  BY Called
<1>2. Typed /\ d \in Nat /\ s \in Nat /\ WideMax \in Nat
  BY <1>1, FreshTyped, Addresses, WideNumbers
<1>3. CompareWideBy(Wcscmp(d, s), d, s, WideMax)
  BY <1>2, CompareWideAnswers DEF Wcscmp
<1>4. SignAfter(d, s, WideMax)'
  BY <1>1, <1>3, SignIsAnswered
<1>5. (call.fn = "wcscmp" =>
         (AnswersWide <=> (WideLegible(call.d, WideMax) /\ WideLegible(call.s, WideMax) =>
                             SignAfter(call.d, call.s, WideMax))))'
  BY WcscmpIs, PTL
<1>6. SignAfter(call.d, call.s, WideMax)'
  BY <1>1, <1>4 DEF SignAfter
<1> QED BY <1>1, <1>5, <1>6

LEMMA WcsncmpStep ==
  ASSUME TypeOK, Fresh, NEW d \in Pointers, NEW s \in Pointers, NEW n \in Sizes,
         Call("wcsncmp", d, s, n, Wcsncmp(d, s, n))
  PROVE  AnswersWide'
<1>1. /\ call.fn = "none" /\ call'.fn = "wcsncmp" /\ call'.d = d /\ call'.s = s
      /\ call'.n = n /\ before' = mem /\ x0' = Wcsncmp(d, s, n).ret
  BY Called
<1>2. Typed /\ d \in Nat /\ s \in Nat /\ WideMax \in Nat /\ n \in Nat
  BY <1>1, FreshTyped, Addresses, WideNumbers
<1>3. n <= WideMax => CompareWideBy(Wcsncmp(d, s, n), d, s, n)
  BY <1>2, CompareWideAnswers, LesserIs DEF Wcsncmp
<1>4. n <= WideMax => SignAfter(d, s, n)'
  BY <1>1, <1>3, SignIsAnswered
<1>5. (call.fn = "wcsncmp" =>
         (AnswersWide <=> (call.n <= WideMax /\ Readable(call.d, 2 * call.n)
                             /\ Readable(call.s, 2 * call.n) =>
                             SignAfter(call.d, call.s, call.n))))'
  BY WcsncmpIs, PTL
<1>6. n <= WideMax => SignAfter(call.d, call.s, call.n)'
  BY <1>1, <1>4 DEF SignAfter
<1> QED BY <1>1, <1>5, <1>6

\* The places of AnswersWide.
PlacesBefore(d, wc) ==
  {d + 2 * i : i \in {j \in 0..Len(WideStr(d)) : WideAt(before, d + 2 * j) = wc}}

LEMMA WcschrIs ==
  /\ call.fn = "wcschr" =>
       (AnswersWide <=> (WideLegible(call.d, WideMax) =>
                           Found(PlacesBefore(call.d, call.s), TRUE)))
  /\ call.fn = "wcsrchr" =>
       (AnswersWide <=> (WideLegible(call.d, WideMax) =>
                           Found(PlacesBefore(call.d, call.s), FALSE)))
BY DEF AnswersWide, PlacesBefore

LEMMA WideSearchingSteps ==
  ASSUME TypeOK, Fresh, NEW d \in Pointers, NEW wc
  PROVE  /\ Call("wcschr", d, wc, 0, Wcschr(d, wc)) => AnswersWide'
         /\ Call("wcsrchr", d, wc, 0, Wcsrchr(d, wc)) => AnswersWide'
<1>0. d \in Nat /\ d \in Register
  BY Addresses, Numbers DEF Register
<1>1. (/\ call.fn = "wcschr" =>
            (AnswersWide <=> (WideLegible(call.d, WideMax) =>
                                Found(PlacesBefore(call.d, call.s), TRUE)))
       /\ call.fn = "wcsrchr" =>
            (AnswersWide <=> (WideLegible(call.d, WideMax) =>
                                Found(PlacesBefore(call.d, call.s), FALSE))))'
  BY WcschrIs, PTL
<1>2. PICK places : places = WidePlaces(d, wc)
  OBVIOUS
<1>3. ASSUME call'.d = d, call'.s = wc, before' = mem
      PROVE  /\ PlacesBefore(call.d, call.s)' = places
             /\ WideLegible(call.d, WideMax)' <=> WideEnds(mem, d, WideMax)
  <2>1. WideStr(d)' = WidePartOf(mem, d, WideMax)
    BY <1>3, WideBefore
  <2>2. WideStr(call.d)' = WidePartOf(mem, d, WideMax)
    BY <1>3, <2>1 DEF WideStr, WidePart
  <2>3. PlacesBefore(call.d, call.s)' = places
    BY <1>2, <1>3, <2>2 DEF PlacesBefore, WidePlaces
  <2>4. WideLegible(call.d, WideMax)' <=> WideEnds(mem, d, WideMax)
    BY <1>3 DEF WideLegible, WideEnds
  <2> QED BY <2>3, <2>4
<1>4. ASSUME Call("wcschr", d, wc, 0, Wcschr(d, wc)) PROVE AnswersWide'
  <2>1. /\ call.fn = "none" /\ call'.fn = "wcschr" /\ call'.d = d
        /\ call'.s = wc /\ before' = mem
    BY <1>4, Called
  <2>2. WideEnds(mem, d, WideMax) => FoundBy(Wcschr(d, wc), places, TRUE)
    BY <1>0, <1>2, <2>1, FreshTyped, WcschrAnswers
  <2>3. WideEnds(mem, d, WideMax) => Found(places, TRUE)'
    BY <1>4, <2>2, OutcomeAfter
  <2>4. Found(PlacesBefore(call.d, call.s), TRUE)' <=> Found(places, TRUE)'
    BY <1>3, <2>1 DEF Found
  <2> QED BY <1>1, <1>3, <2>1, <2>3, <2>4
<1>5. ASSUME Call("wcsrchr", d, wc, 0, Wcsrchr(d, wc)) PROVE AnswersWide'
  <2>1. /\ call.fn = "none" /\ call'.fn = "wcsrchr" /\ call'.d = d
        /\ call'.s = wc /\ before' = mem
    BY <1>5, Called
  <2>2. WideEnds(mem, d, WideMax) => FoundBy(Wcsrchr(d, wc), places, FALSE)
    BY <1>0, <1>2, <2>1, FreshTyped, WcsrchrAnswers
  <2>3. WideEnds(mem, d, WideMax) => Found(places, FALSE)'
    BY <1>5, <2>2, OutcomeAfter
  <2>4. Found(PlacesBefore(call.d, call.s), FALSE)' <=> Found(places, FALSE)'
    BY <1>3, <2>1 DEF Found
  <2> QED BY <1>1, <1>3, <2>1, <2>3, <2>4
<1> QED BY <1>4, <1>5

LEMMA ClassSteps ==
  ASSUME TypeOK, Fresh, NEW c \in 0..255 \cup {RegSize - 1}
  PROVE  /\ \A fn \in DOMAIN ClassFlags : Call(fn, 0, c, 0, Classify(fn, c)) => ClassesAgree'
         /\ Call("toupper", 0, c, 0, Answer(ToUpper(c % 256))) => ClassesAgree'
         /\ Call("tolower", 0, c, 0, Answer(ToLower(c % 256))) => ClassesAgree'
<1>1. ASSUME NEW fn \in DOMAIN ClassFlags, Call(fn, 0, c, 0, Classify(fn, c))
      PROVE  ClassesAgree'
  <2>1. call.fn = "none" /\ call'.fn = fn /\ call'.s = c /\ x0' = Classify(fn, c).ret
    BY <1>1, Called
  <2>2. fn # "toupper" /\ fn # "tolower"
    BY ClassNames
  <2>3. ~(fn = "iscntrl" /\ c \in 9..13) /\ ~(fn = "isprint" /\ c = 9) =>
          ((x0' = 1) <=> ByTable(fn, c))
    BY <2>1, FreshTyped, ClassifyAnswers
  <2> QED BY <2>1, <2>2, <2>3 DEF ClassesAgree
<1>2. ASSUME Call("toupper", 0, c, 0, Answer(ToUpper(c % 256))) PROVE ClassesAgree'
  <2>1. /\ call.fn = "none" /\ call'.fn = "toupper" /\ call'.s = c
        /\ x0' = ToUpper(c % 256)
    BY <1>2, Called, AnswersIt
  <2>2. "toupper" \notin DOMAIN ClassFlags
    BY ClassNames
  <2>3. c < 256 => IF "L" \in CtypeFlags(c) THEN "U" \in CtypeFlags(x0') /\ x0' = c - 32
                   ELSE x0' = c
    BY <2>1, FreshTyped, CasesAnswer
  <2> QED BY <2>1, <2>2, <2>3 DEF ClassesAgree
<1>3. ASSUME Call("tolower", 0, c, 0, Answer(ToLower(c % 256))) PROVE ClassesAgree'
  <2>1. /\ call.fn = "none" /\ call'.fn = "tolower" /\ call'.s = c
        /\ x0' = ToLower(c % 256)
    BY <1>3, Called, AnswersIt
  <2>2. "tolower" \notin DOMAIN ClassFlags
    BY ClassNames
  <2>3. c < 256 => IF "U" \in CtypeFlags(c) THEN "L" \in CtypeFlags(x0') /\ x0' = c + 32
                   ELSE x0' = c
    BY <2>1, FreshTyped, CasesAnswer
  <2> QED BY <2>1, <2>2, <2>3 DEF ClassesAgree
<1> QED BY <1>1, <1>2, <1>3

LEMMA OtherWideCall ==
  ASSUME NEW fn, NEW d, NEW s, NEW n, NEW out, Call(fn, d, s, n, out)
  PROVE  /\ fn \notin {"wcscpy", "wcscat", "wcsncat", "wcsncpy", "mbstowcs", "wcstombs",
                       "mbtowc", "wctomb"} => CopiesWide'
         /\ fn \notin {"wcslen", "wcscmp", "wcsncmp", "wcschr", "wcsrchr"} => AnswersWide'
         /\ fn \notin DOMAIN ClassFlags \cup {"toupper", "tolower"} => ClassesAgree'
<1>1. call'.fn = fn
  BY Called
<1>2. (call.fn \notin {"wcscpy", "wcscat", "wcsncat", "wcsncpy", "mbstowcs", "wcstombs",
                       "mbtowc", "wctomb"} => CopiesWide)'
  BY OtherCopiesWide, PTL
<1>3. (call.fn \notin {"wcslen", "wcscmp", "wcsncmp", "wcschr", "wcsrchr"} =>
         AnswersWide)'
  BY OtherAnswersWide, PTL
<1>4. (call.fn \notin DOMAIN ClassFlags \cup {"toupper", "tolower"} => ClassesAgree)'
  BY OtherClasses, PTL
<1> QED BY <1>1, <1>2, <1>3, <1>4

\* The functions of LibcStrings are none of these.
LEMMA StringsNames ==
  Next => \E fn, d, s, n, out :
            /\ Call(fn, d, s, n, out)
            /\ fn \in {"strlen", "strcmp", "strcpy", "strcat", "strstr", "strdup", "sprintf",
                      "strchr", "strrchr", "memset", "memcpy", "memcmp", "strncmp",
                      "strncpy", "strncat", "strndup", "snprintf"}
BY DEF Next

LEMMA StringsStepIsC ==
  ASSUME TypeOK, Fresh, Next
  PROVE  TypeOK' /\ LibcBehavesAsC' /\ call'.fn # "none"
<1>1. TypeOK' /\ CopiesAsC' /\ AnswersAsC' /\ call'.fn # "none"
  BY StringsStep
<1>2. CopiesWide' /\ AnswersWide' /\ ClassesAgree'
  <2>1. PICK fn, d, s, n, out :
          /\ Call(fn, d, s, n, out)
          /\ fn \in {"strlen", "strcmp", "strcpy", "strcat", "strstr", "strdup", "sprintf",
                    "strchr", "strrchr", "memset", "memcpy", "memcmp", "strncmp",
                    "strncpy", "strncat", "strndup", "snprintf"}
    BY StringsNames
  <2>2. fn \notin DOMAIN ClassFlags
    BY <2>1, ClassNames
  <2> QED BY <2>1, <2>2, OtherWideCall
<1> QED BY <1>1, <1>2 DEF LibcBehavesAsC, BehavesAsC

\* What a call of a wide function has to show.
CallIsC == TypeOK /\ CopiesWide /\ AnswersWide /\ ClassesAgree
           /\ CopiesAsC /\ AnswersAsC /\ call.fn # "none"

LEMMA WideCallIsC ==
  ASSUME mem \in Memories, NEW fn, NEW d \in Pointers \cup {0},
         NEW s \in Register, NEW n \in Sizes \cup {0}, NEW out, OutcomeOK(out),
         Call(fn, d, s, n, out),
         fn \in {"wcscpy", "wcscat", "wcsncat", "wcsncpy", "mbstowcs", "wcstombs",
                "mbtowc", "wctomb"} => CopiesWide',
         fn \in {"wcslen", "wcscmp", "wcsncmp", "wcschr", "wcsrchr"} => AnswersWide',
         fn \in DOMAIN ClassFlags \cup {"toupper", "tolower"} => ClassesAgree',
         fn \notin {"none", "strlen", "strcmp", "strcpy", "strcat", "strstr", "strdup",
                   "sprintf", "strchr", "strrchr", "memset", "memcpy", "memcmp",
                   "strncmp", "strncpy", "strncat", "strndup", "snprintf"}
  PROVE  CallIsC'
<1>1. TypeOK'
  BY TypeAfter
<1>2. CopiesAsC' /\ AnswersAsC'
  BY OtherCall
<1>3. CopiesWide' /\ AnswersWide' /\ ClassesAgree'
  BY OtherWideCall
<1>4. call'.fn # "none"
  BY Called
<1> QED BY <1>1, <1>2, <1>3, <1>4 DEF CallIsC

LEMMA WideStep ==
  ASSUME TypeOK, Fresh, WideNext
  PROVE  CallIsC'
<1>1. /\ \A p \in Pointers : p \in Nat /\ p \in Register /\ p \in Pointers \cup {0} /\ p # 0
      /\ \A p \in Pointers \cup {0} : p \in Nat /\ p \in Register
      /\ \A n \in Sizes : n \in Nat /\ n < RegSize /\ n \in Sizes \cup {0}
      /\ 0 \in Pointers \cup {0} /\ 0 \in Sizes \cup {0} /\ 0 \in Nat
  BY Addresses, Numbers DEF Register
<1>2. call.fn = "none"
  BY DEF WideNext, Call
<1>3. mem \in Memories /\ Typed
  BY <1>2, FreshTyped
<1>4. DOMAIN ClassFlags = {"isupper", "islower", "isdigit", "isalpha", "isalnum", "isspace",
                          "isxdigit", "isprint", "iscntrl", "ispunct", "isgraph", "isblank"}
  BY ClassNames
<1>5. \A wc \in 0..(Radix * Radix - 1) : wc \in WideChar /\ wc \in Register /\ wc \in Nat
  BY WideRegisters, WideNumbers DEF WideChar
<1>6. ASSUME NEW d \in Pointers \cup {0}, NEW s \in Pointers \cup {0},
              Call("mbtowc", d, s, 0, Mbtowc(d, s))
       PROVE  CallIsC'
  <2>1. OutcomeOK(Mbtowc(d, s))
    BY <1>1, <1>3, <1>5, CharacterTypes
  <2>2. CopiesWide'
    BY <1>1, <1>2, <1>5, <1>6, CharacterSteps
  <2> QED BY <1>1, <1>3, <1>4, <1>5, <1>6, <2>1, <2>2, WideCallIsC
<1>7. ASSUME NEW d \in Pointers \cup {0}, NEW s \in Pointers \cup {0}, NEW n \in Sizes,
              Call("mbstowcs", d, s, n, Mbstowcs(d, s, n))
       PROVE  CallIsC'
  <2>1. OutcomeOK(Mbstowcs(d, s, n))
    BY <1>1, <1>3, <1>5, ConversionTypes
  <2>2. CopiesWide'
    BY <1>1, <1>2, <1>5, <1>7, MbstowcsStep
  <2> QED BY <1>1, <1>3, <1>4, <1>5, <1>7, <2>1, <2>2, WideCallIsC
<1>8. ASSUME NEW d \in Pointers \cup {0}, NEW s \in Pointers \cup {0}, NEW n \in Sizes,
              Call("wcstombs", d, s, n, Wcstombs(d, s, n))
       PROVE  CallIsC'
  <2>1. OutcomeOK(Wcstombs(d, s, n))
    BY <1>1, <1>3, <1>5, ConversionTypes
  <2>2. CopiesWide'
    BY <1>1, <1>2, <1>5, <1>8, WcstombsStep
  <2> QED BY <1>1, <1>3, <1>4, <1>5, <1>8, <2>1, <2>2, WideCallIsC
<1>9. ASSUME NEW s \in Pointers,
              Call("wcslen", 0, s, 0, Wcslen(s))
       PROVE  CallIsC'
  <2>1. OutcomeOK(Wcslen(s))
    BY <1>1, <1>3, <1>5, WcslenAnswers
  <2>2. AnswersWide'
    BY <1>1, <1>2, <1>5, <1>9, WcslenStep
  <2> QED BY <1>1, <1>3, <1>4, <1>5, <1>9, <2>1, <2>2, WideCallIsC
<1>10. ASSUME NEW d \in Pointers, NEW s \in Pointers,
              Call("wcscpy", d, s, 0, Wcscpy(d, s))
       PROVE  CallIsC'
  <2>1. OutcomeOK(Wcscpy(d, s))
    BY <1>1, <1>3, <1>5, WideWritesTypes
  <2>2. CopiesWide'
    BY <1>1, <1>2, <1>5, <1>10, WcscpyStep
  <2> QED BY <1>1, <1>3, <1>4, <1>5, <1>10, <2>1, <2>2, WideCallIsC
<1>11. ASSUME NEW d \in Pointers, NEW s \in Pointers,
              Call("wcscmp", d, s, 0, Wcscmp(d, s))
       PROVE  CallIsC'
  <2>1. OutcomeOK(Wcscmp(d, s))
    BY <1>1, <1>3, <1>5, CompareWideAnswers, WideNumbers DEF Wcscmp
  <2>2. AnswersWide'
    BY <1>1, <1>2, <1>5, <1>11, WcscmpStep
  <2> QED BY <1>1, <1>3, <1>4, <1>5, <1>11, <2>1, <2>2, WideCallIsC
<1>12. ASSUME NEW d \in Pointers, NEW s \in Pointers,
              Call("wcscat", d, s, 0, Wcscat(d, s))
       PROVE  CallIsC'
  <2>1. OutcomeOK(Wcscat(d, s))
    BY <1>1, <1>3, <1>5, WideWritesTypes
  <2>2. CopiesWide'
    BY <1>1, <1>2, <1>5, <1>12, WcscatStep
  <2> QED BY <1>1, <1>3, <1>4, <1>5, <1>12, <2>1, <2>2, WideCallIsC
<1>13. ASSUME NEW s \in Pointers, Call("mblen", 0, s, 0, Mblen(s))
       PROVE  CallIsC'
  <2>1. OutcomeOK(Mblen(s))
    BY <1>1, <1>3, CharacterTypes
  <2> QED BY <1>1, <1>3, <1>4, <1>13, <2>1, WideCallIsC
<1>14. ASSUME NEW d \in Pointers, NEW s \in Pointers, NEW n \in Sizes,
              Call("wcsncpy", d, s, n, Wcsncpy(d, s, n))
       PROVE  CallIsC'
  <2>1. OutcomeOK(Wcsncpy(d, s, n))
    BY <1>1, <1>3, <1>5, WideWritesTypes
  <2>2. CopiesWide'
    BY <1>1, <1>2, <1>5, <1>14, WcsncpyStep
  <2> QED BY <1>1, <1>3, <1>4, <1>5, <1>14, <2>1, <2>2, WideCallIsC
<1>15. ASSUME NEW d \in Pointers, NEW s \in Pointers, NEW n \in Sizes,
              Call("wcsncmp", d, s, n, Wcsncmp(d, s, n))
       PROVE  CallIsC'
  <2>1. OutcomeOK(Wcsncmp(d, s, n))
    BY <1>1, <1>3, <1>5, CompareWideAnswers, WideNumbers, LesserIs DEF Wcsncmp
  <2>2. AnswersWide'
    BY <1>1, <1>2, <1>5, <1>15, WcsncmpStep
  <2> QED BY <1>1, <1>3, <1>4, <1>5, <1>15, <2>1, <2>2, WideCallIsC
<1>16. ASSUME NEW d \in Pointers, NEW s \in Pointers, NEW n \in Sizes,
              Call("wcsncat", d, s, n, Wcsncat(d, s, n))
       PROVE  CallIsC'
  <2>1. OutcomeOK(Wcsncat(d, s, n))
    BY <1>1, <1>3, <1>5, WideWritesTypes
  <2>2. CopiesWide'
    BY <1>1, <1>2, <1>5, <1>16, WcsncatStep
  <2> QED BY <1>1, <1>3, <1>4, <1>5, <1>16, <2>1, <2>2, WideCallIsC
<1>17. ASSUME NEW d \in Pointers, NEW wc \in 0..(Radix * Radix - 1),
              Call("wcschr", d, wc, 0, Wcschr(d, wc))
       PROVE  CallIsC'
  <2>1. OutcomeOK(Wcschr(d, wc))
    BY <1>1, <1>3, <1>5, WcschrAnswers
  <2>2. AnswersWide'
    BY <1>1, <1>2, <1>5, <1>17, WideSearchingSteps
  <2> QED BY <1>1, <1>3, <1>4, <1>5, <1>17, <2>1, <2>2, WideCallIsC
<1>18. ASSUME NEW d \in Pointers, NEW wc \in 0..(Radix * Radix - 1),
              Call("wcsrchr", d, wc, 0, Wcsrchr(d, wc))
       PROVE  CallIsC'
  <2>1. OutcomeOK(Wcsrchr(d, wc))
    BY <1>1, <1>3, <1>5, WcsrchrAnswers
  <2>2. AnswersWide'
    BY <1>1, <1>2, <1>5, <1>18, WideSearchingSteps
  <2> QED BY <1>1, <1>3, <1>4, <1>5, <1>18, <2>1, <2>2, WideCallIsC
<1>19. ASSUME NEW d \in Pointers, NEW wc \in 0..(Radix * Radix - 1),
              Call("wctomb", d, wc, 0, Wctomb(d, wc))
       PROVE  CallIsC'
  <2>1. OutcomeOK(Wctomb(d, wc))
    BY <1>1, <1>3, <1>5, CharacterTypes
  <2>2. CopiesWide'
    BY <1>1, <1>2, <1>5, <1>19, CharacterSteps
  <2> QED BY <1>1, <1>3, <1>4, <1>5, <1>19, <2>1, <2>2, WideCallIsC
<1> QED BY <1>6, <1>7, <1>8, <1>9, <1>10, <1>11, <1>12, <1>13,
           <1>14, <1>15, <1>16, <1>17, <1>18, <1>19 DEF WideNext

LEMMA ClassStep ==
  ASSUME TypeOK, Fresh, ClassNext
  PROVE  CallIsC'
<1>1. call.fn = "none"
  BY DEF ClassNext, Call
<1>2. mem \in Memories /\ Typed
  BY <1>1, FreshTyped
<1>3. DOMAIN ClassFlags = {"isupper", "islower", "isdigit", "isalpha", "isalnum", "isspace",
                          "isxdigit", "isprint", "iscntrl", "ispunct", "isgraph", "isblank"}
  BY ClassNames
<1>4. PICK c \in 0..255 \cup {RegSize - 1} :
        \/ \E fn \in DOMAIN ClassFlags : Call(fn, 0, c, 0, Classify(fn, c))
        \/ Call("toupper", 0, c, 0, Answer(ToUpper(c % 256)))
        \/ Call("tolower", 0, c, 0, Answer(ToLower(c % 256)))
  BY DEF ClassNext
<1>5. c \in Register /\ 0 \in Pointers \cup {0} /\ 0 \in Sizes \cup {0}
  BY RegistersHoldBytes, SmallNumbers
<1>6. ASSUME NEW fn \in DOMAIN ClassFlags, Call(fn, 0, c, 0, Classify(fn, c))
      PROVE  CallIsC'
  <2>1. OutcomeOK(Classify(fn, c)) /\ ClassesAgree'
    BY <1>2, <1>6, ClassifyAnswers, ClassSteps
  <2> QED BY <1>2, <1>3, <1>5, <1>6, <2>1, WideCallIsC
<1>7. CASE Call("toupper", 0, c, 0, Answer(ToUpper(c % 256)))
  <2>1. OutcomeOK(Answer(ToUpper(c % 256))) /\ ClassesAgree'
    BY <1>2, <1>7, CasesAnswer, ClassSteps
  <2> QED BY <1>2, <1>3, <1>5, <1>7, <2>1, WideCallIsC
<1>8. CASE Call("tolower", 0, c, 0, Answer(ToLower(c % 256)))
  <2>1. OutcomeOK(Answer(ToLower(c % 256))) /\ ClassesAgree'
    BY <1>2, <1>8, CasesAnswer, ClassSteps
  <2> QED BY <1>2, <1>3, <1>5, <1>8, <2>1, WideCallIsC
<1> QED BY <1>4, <1>6, <1>7, <1>8

-----------------------------------------------------------------------------
(***************************************************************************)
(* The theorems: the inductive invariant adds to the properties that a     *)
(* call is made in one of the memories and with the heap pointer at the    *)
(* start of the heap.                                                      *)
(***************************************************************************)
LibcInv == TypeOK /\ Fresh /\ LibcBehavesAsC

LEMMA NothingCalled ==
  ASSUME call.fn = "none"
  PROVE  LibcBehavesAsC
<1>1. CopiesAsC /\ AnswersAsC
  BY OtherCopies, OtherAnswers
<1>2. CopiesWide /\ AnswersWide /\ ClassesAgree
  BY OtherCopiesWide, OtherAnswersWide, OtherClasses, ClassNames
<1> QED BY <1>1, <1>2 DEF LibcBehavesAsC, BehavesAsC

LEMMA LibcInit == Init => LibcInv
<1> SUFFICES ASSUME Init PROVE LibcInv
  OBVIOUS
<1>1. /\ mem \in Memories /\ mem \in [Mapped -> Char] /\ before = mem
      /\ heapPtr = HeapBase /\ x0 = 0 /\ panicked = FALSE
      /\ call = [fn |-> "none", d |-> 0, s |-> 0, n |-> 0]
  BY LibcStringsAssumption DEF Init
<1>2. call.fn = "none" /\ call.d = 0 /\ call.s = 0 /\ call.n = 0
  BY <1>1
<1>3. HeapBase \in HeapBase..HeapEnd /\ 0 \in 0..(RegSize - 1)
  BY LibcStringsAssumption, SmallNumbers DEF Register
<1>4. TypeOK
  BY <1>1, <1>2, <1>3 DEF TypeOK
<1>5. LibcBehavesAsC
  BY <1>2, NothingCalled
<1> QED BY <1>1, <1>4, <1>5 DEF LibcInv, Fresh

LEMMA SameAgain ==
  ASSUME UNCHANGED vars, BehavesAsC
  PROVE  BehavesAsC'
<1>1. /\ mem' = mem /\ before' = before /\ x0' = x0 /\ panicked' = panicked
      /\ call' = call
  BY DEF vars
<1>2. /\ \A a, n : CPart(a, n)' = CPart(a, n)
      /\ \A a : CStr(a)' = CStr(a)
      /\ \A a, n : Legible(a, n)' <=> Legible(a, n)
  <2>1. \A a, n : CPart(a, n)' = CPart(a, n)
    BY <1>1 DEF CPart
  <2>2. \A a : CStr(a)' = CStr(a)
    BY <1>1 DEF CStr, CPart
  <2>3. \A a, n : Legible(a, n)' <=> Legible(a, n)
    BY <1>1 DEF Legible
  <2> QED BY <2>1, <2>2, <2>3
<1>3. /\ \A a, t : Wrote(a, t)' <=> Wrote(a, t)
      /\ \A places, first : Found(places, first)' <=> Found(places, first)
      /\ \A a, b, k, strings :
           CompareAsC(a, b, k, strings)' <=> CompareAsC(a, b, k, strings)
  <2>1. \A a, t : Wrote(a, t)' <=> Wrote(a, t)
    BY <1>1 DEF Wrote
  <2>2. \A places, first : Found(places, first)' <=> Found(places, first)
    BY <1>1 DEF Found
  <2>3. \A a, b, k, strings :
          CompareAsC(a, b, k, strings)' <=> CompareAsC(a, b, k, strings)
    BY <1>1 DEF CompareAsC
  <2> QED BY <2>1, <2>2, <2>3
<1>4. CopiesAsC' <=> CopiesAsC
  BY <1>1, <1>2, <1>3 DEF CopiesAsC
<1>5. AnswersAsC' <=> AnswersAsC
  <2>1. ASSUME NEW d, NEW s
        PROVE  /\ {p \in d..(d + Len(CStr(d)')) : before'[p] = s}
                    = {p \in d..(d + Len(CStr(d))) : before[p] = s}
               /\ {p \in d..(d + Len(CStr(d)') - Len(CStr(s)')) :
                     Bytes(before', p, Len(CStr(s)')) = CStr(s)'}
                    = {p \in d..(d + Len(CStr(d)) - Len(CStr(s))) :
                         Bytes(before, p, Len(CStr(s))) = CStr(s)}
    BY <1>1, <1>2
  <2>2. CASE call.fn \in {"strlen", "strcmp", "strncmp", "memcmp", "snprintf"}
    BY <1>1, <1>2, <1>3, <2>2 DEF AnswersAsC
  <2>3. CASE call.fn = "strchr"
    BY <1>1, <1>2, <1>3, <2>1, <2>3 DEF AnswersAsC
  <2>4. CASE call.fn = "strrchr"
    BY <1>1, <1>2, <1>3, <2>1, <2>4 DEF AnswersAsC
  <2>5. CASE call.fn = "strstr"
    BY <1>1, <1>2, <1>3, <2>1, <2>5 DEF AnswersAsC
  <2>6. CASE call.fn \notin {"strlen", "strcmp", "strncmp", "memcmp", "strchr", "strrchr",
                            "strstr", "snprintf"}
    <3>1. (call.fn \notin {"strlen", "strcmp", "strncmp", "memcmp", "strchr", "strrchr",
                            "strstr", "snprintf"} => AnswersAsC)'
      BY OtherAnswers, PTL
    <3> QED BY <1>1, <2>6, <3>1, OtherAnswers
  <2> QED BY <2>2, <2>3, <2>4, <2>5, <2>6
<1> QED BY <1>4, <1>5 DEF BehavesAsC

LEMMA SameAgainWide ==
  ASSUME UNCHANGED vars, CopiesWide, AnswersWide, ClassesAgree
  PROVE  CopiesWide' /\ AnswersWide' /\ ClassesAgree'
<1>1. /\ mem' = mem /\ before' = before /\ x0' = x0 /\ panicked' = panicked
      /\ call' = call
  BY DEF vars
<1>2. /\ \A a, n : CPart(a, n)' = CPart(a, n)
      /\ \A a, n : WidePart(a, n)' = WidePart(a, n)
      /\ \A a : WideStr(a)' = WideStr(a)
      /\ \A a, n : WideLegible(a, n)' <=> WideLegible(a, n)
  <2>1. \A a, n : CPart(a, n)' = CPart(a, n)
    BY <1>1 DEF CPart
  <2>2. \A a, n : WidePart(a, n)' = WidePart(a, n)
    BY <1>1 DEF WidePart
  <2>3. \A a : WideStr(a)' = WideStr(a)
    BY <1>1 DEF WideStr, WidePart
  <2>4. \A a, n : WideLegible(a, n)' <=> WideLegible(a, n)
    BY <1>1 DEF WideLegible
  <2> QED BY <2>1, <2>2, <2>3, <2>4
<1>3. /\ \A a, t : Wrote(a, t)' <=> Wrote(a, t)
      /\ \A places, first : Found(places, first)' <=> Found(places, first)
  <2>1. \A a, t : Wrote(a, t)' <=> Wrote(a, t)
    BY <1>1 DEF Wrote
  <2>2. \A places, first : Found(places, first)' <=> Found(places, first)
    BY <1>1 DEF Found
  <2> QED BY <2>1, <2>2
<1>4. CopiesWide'
  <2>1. CASE call.fn = "wcscpy"
    BY <1>1, <1>2, <1>3, <2>1 DEF CopiesWide
  <2>2. CASE call.fn = "wcscat"
    BY <1>1, <1>2, <1>3, <2>2 DEF CopiesWide
  <2>3. CASE call.fn = "wcsncat"
    BY <1>1, <1>2, <1>3, <2>3 DEF CopiesWide
  <2>4. CASE call.fn = "wcsncpy"
    <3>1. ASSUME NEW s, NEW n
          PROVE  [i \in 1..n |-> IF i <= Len(WidePart(s, n)') THEN WidePart(s, n)'[i] ELSE 0]
                   = [i \in 1..n |-> IF i <= Len(WidePart(s, n)) THEN WidePart(s, n)[i] ELSE 0]
      BY <1>2
    <3> QED BY <1>1, <1>2, <1>3, <2>4, <3>1 DEF CopiesWide
  <2>5. CASE call.fn = "mbstowcs"
    BY <1>1, <1>2, <1>3, <2>5 DEF CopiesWide
  <2>6. CASE call.fn = "wcstombs"
    BY <1>1, <1>2, <1>3, <2>6 DEF CopiesWide
  <2>7. CASE call.fn = "mbtowc"
    BY <1>1, <1>2, <1>3, <2>7 DEF CopiesWide
  <2>8. CASE call.fn = "wctomb"
    BY <1>1, <1>2, <1>3, <2>8 DEF CopiesWide
  <2>9. CASE call.fn \notin {"wcscpy", "wcscat", "wcsncat", "wcsncpy", "mbstowcs",
                            "wcstombs", "mbtowc", "wctomb"}
    <3>1. (call.fn \notin {"wcscpy", "wcscat", "wcsncat", "wcsncpy", "mbstowcs", "wcstombs",
                           "mbtowc", "wctomb"} => CopiesWide)'
      BY OtherCopiesWide, PTL
    <3> QED BY <1>1, <2>9, <3>1
  <2> QED BY <2>1, <2>2, <2>3, <2>4, <2>5, <2>6, <2>7, <2>8, <2>9
<1>5. AnswersWide'
  BY ZenonT(60), <1>1, <1>2, <1>3 DEF AnswersWide
<1>6. ClassesAgree'
  BY <1>1 DEF ClassesAgree
<1> QED BY <1>4, <1>5, <1>6

LEMMA LibcNext == LibcInv /\ [Next \/ WideNext \/ ClassNext]_vars => LibcInv'
<1> SUFFICES ASSUME LibcInv, [Next \/ WideNext \/ ClassNext]_vars PROVE LibcInv'
  OBVIOUS
<1>1. TypeOK /\ Fresh /\ LibcBehavesAsC
  BY DEF LibcInv
<1>2. CASE Next
  <2>1. TypeOK' /\ LibcBehavesAsC' /\ call'.fn # "none"
    BY <1>1, <1>2, StringsStepIsC
  <2> QED BY <2>1 DEF LibcInv, Fresh
<1>3. CASE WideNext \/ ClassNext
  <2>1. CallIsC'
    BY <1>1, <1>3, WideStep, ClassStep
  <2> QED BY <2>1 DEF LibcInv, Fresh, CallIsC, LibcBehavesAsC, BehavesAsC
<1>4. CASE UNCHANGED vars
  <2>1. TypeOK' /\ Fresh'
    BY <1>1, <1>4 DEF TypeOK, Fresh, vars
  <2>2. BehavesAsC'
    BY <1>1, <1>4, SameAgain DEF LibcBehavesAsC
  <2>3. CopiesWide' /\ AnswersWide' /\ ClassesAgree'
    BY <1>1, <1>4, SameAgainWide DEF LibcBehavesAsC
  <2> QED BY <2>1, <2>2, <2>3 DEF LibcInv, LibcBehavesAsC
<1> QED BY <1>2, <1>3, <1>4

\* Whatever a stub of libc/string.go, of the printf family or of libc/locale.go
\* is called with, memory stays one of cells, the heap pointer in the heap, and
\* what is answered fits in a register (libc/string.go:27-322,
\* libc/printf.go:87-183, libc/locale.go:236-694).
THEOREM TypeCorrect == LibcSpec => []TypeOK
<1>1. LibcInv => TypeOK
  BY DEF LibcInv
<1> QED BY <1>1, LibcInit, LibcNext, PTL DEF LibcSpec

\* They write what C says, where C says it and nowhere else, and answer as C
\* does, for every memory, mapping, window and width of a register, also where
\* a conversion or a copy of wide characters reads what it has written, and the
\* functions on characters answer as the table _ctype_ does, the exceptions of
\* ClassesAgree aside (libc/string.go:27-322, libc/printf.go:87-183,
\* libc/locale.go:236-694, emulator.go:184-224).
THEOREM LibcBehaves == LibcSpec => []LibcBehavesAsC
<1>1. LibcInv => LibcBehavesAsC
  BY DEF LibcInv
<1> QED BY <1>1, LibcInit, LibcNext, PTL DEF LibcSpec
=============================================================================

---------------------------- MODULE LibcStrings ----------------------------
(***************************************************************************)
(* The string and memory functions galago gives its guest, as the stubs of *)
(* libc/string.go and the printf family of libc/printf.go do them: by      *)
(* reading whole windows of guest memory and writing what they computed.   *)
(* A stub returns an outcome: what is in x0, memory, and the heap pointer; *)
(* or it panics.  The properties compare outcomes with what C says of each *)
(* function, cell by cell, over all contents of memory.                    *)
(*                                                                         *)
(* A cell stands for a byte.  0 ends a string; address 0 is NULL.          *)
(***************************************************************************)
EXTENDS Integers, Sequences

CONSTANTS
  Char,       \* what a cell holds
  Mapped,     \* the mapped addresses
  HeapBase,   \* where the heap is in them
  HeapEnd,
  Memories,   \* what memory may be when the guest calls
  StrMax,     \* the maximum of most reads of strings (4096)
  CmpMax,     \* that of strcmp, strstr's needle and the formats (256)
  OpMax,      \* memory operations are for fewer bytes (0x100000)
  RegSize,    \* 2^64
  Align,      \* 16
  Pointers,   \* addresses the guest passes
  Sizes       \* sizes the guest passes

\* NULL and the last address are not mapped, and the windows are smaller than
\* the greatest int.
ASSUME LibcStringsAssumption ==
  /\ RegSize \in Nat
  /\ Char \subseteq 0..(RegSize - 1) /\ 0 \in Char
  /\ Mapped \subseteq 1..(RegSize - 2)
  /\ HeapBase \in Nat /\ HeapEnd \in Nat /\ HeapBase <= HeapEnd
  /\ HeapBase..HeapEnd \subseteq Mapped
  /\ Memories \subseteq [Mapped -> Char]
  /\ StrMax \in Nat \ {0} /\ CmpMax \in Nat \ {0} /\ OpMax \in Nat
  /\ CmpMax <= StrMax /\ 2 * StrMax < RegSize
  /\ Align \in Nat \ {0}
  /\ Pointers \subseteq 1..(RegSize - 1)
  /\ Sizes \subseteq 0..(RegSize - 1)

VARIABLES
  mem,      \* guest memory
  heapPtr,  \* Emulator.heapPtr
  x0,       \* what the last stub answered
  panicked, \* the process has ended in a panic
  before,   \* history: memory before the call
  call      \* history: the function and its arguments

vars == <<mem, heapPtr, x0, panicked, before, call>>

-----------------------------------------------------------------------------
\* Guest memory as the stubs use it.
Readable(a, n) == a..(a + n - 1) \subseteq Mapped

Bytes(m, a, n) == [i \in 1..n |-> m[a + i - 1]]

\* A size register as Go's int.
AsInt(n) == IF 2 * n >= RegSize THEN n - RegSize ELSE n

\* MemReadString: "" where the whole window cannot be read; max <= 0 stands
\* for the default.
MemReadString(a, max) ==
  LET limit == IF max <= 0 THEN StrMax ELSE max
      ends  == {n \in 0..(limit - 1) : mem[a + n] = 0}
  IN  IF ~Readable(a, limit) THEN <<>>
      ELSE Bytes(mem, a, IF ends = {} THEN limit
                         ELSE CHOOSE n \in ends : \A k \in ends : n <= k)

\* A variant for which memory ends nowhere.
MemWriteAnywhere(a, s) ==
  [c \in Mapped \cup a..(a + Len(s) - 1) |->
     IF c \in a..(a + Len(s) - 1) THEN s[c - a + 1] ELSE mem[c]]

\* All of it or, where some is not mapped, nothing; errors are ignored.
MemWrite(a, s) ==
  IF ~Readable(a, Len(s)) THEN mem
  ELSE [c \in Mapped |-> IF c \in a..(a + Len(s) - 1) THEN s[c - a + 1]
                         ELSE mem[c]]

MemWriteString(a, s) == MemWrite(a, Append(s, 0))

\* Go's s[:n]; the callers see to n <= Len(s).
Prefix(s, n) == SubSeq(s, 1, n)

\* Sequences of characters as Go compares strings.
Less(s, t) ==
  \E k \in 0..Len(s) :
    /\ k < Len(t)
    /\ \A i \in 1..k : s[i] = t[i]
    /\ k < Len(s) => s[k + 1] < t[k + 1]

\* Outcomes.
Outcome(ret, m) == [ret |-> ret, mem |-> m, heap |-> heapPtr, panics |-> FALSE]

Panic == [ret |-> 0, mem |-> mem, heap |-> heapPtr, panics |-> TRUE]

Answer(ret) == Outcome(ret, mem)

\* The sign of a comparison, -1 being all ones in the register.
Sign(s, t) ==
  Answer(IF Less(s, t) THEN RegSize - 1 ELSE IF Less(t, s) THEN 1 ELSE 0)

-----------------------------------------------------------------------------
\* libc/string.go.
Strlen(a) == Answer(Len(MemReadString(a, StrMax)))

\* memcpy and memmove: read, then written.
Memcpy(d, s, n) ==
  Outcome(d, IF n \in 1..(OpMax - 1) /\ Readable(s, n)
               THEN MemWrite(d, Bytes(mem, s, n)) ELSE mem)

Memset(d, c, n) ==
  Outcome(d, IF n \in 1..(OpMax - 1) THEN MemWrite(d, [i \in 1..n |-> c])
                                     ELSE mem)

\* What cannot be read compares equal.
Memcmp(a, b, n) ==
  IF n \in 1..(OpMax - 1) /\ Readable(a, n) /\ Readable(b, n)
    THEN Sign(Bytes(mem, a, n), Bytes(mem, b, n))
    ELSE Answer(0)

Strcmp(a, b) == Sign(MemReadString(a, CmpMax), MemReadString(b, CmpMax))

\* s[:n] panics for a negative n.
Cut(s, n) == IF Len(s) > n THEN Prefix(s, n) ELSE s

Strncmp(a, b, n) ==
  IF AsInt(n) < 0 THEN Panic
  ELSE Sign(Cut(MemReadString(a, n), n), Cut(MemReadString(b, n), n))

Strcpy(d, s) == Outcome(d, MemWriteString(d, MemReadString(s, StrMax)))

\* make([]byte, n) panics for an n that is negative as an int.
Strncpy(d, s, n) ==
  LET str == MemReadString(s, AsInt(n))
  IN  IF Len(str) < n
        THEN IF AsInt(n) < 0 THEN Panic
             ELSE Outcome(d, MemWrite(d, [i \in 1..n |-> IF i <= Len(str)
                                                         THEN str[i] ELSE 0]))
        ELSE Outcome(d, MemWriteString(d, Prefix(str, n)))

Strcat(d, s) ==
  Outcome(d, MemWriteString(d, MemReadString(d, StrMax)
                               \o MemReadString(s, StrMax)))

Strncat(d, s, n) ==
  IF AsInt(n) < 0 THEN Panic
  ELSE Outcome(d, MemWriteString(d, MemReadString(d, StrMax)
                                    \o Cut(MemReadString(s, n), n)))

Strchr(a, c) ==
  LET str  == MemReadString(a, StrMax)
      hits == {i \in 1..Len(str) : str[i] = c}
  IN  Answer(IF hits # {}
               THEN a + (CHOOSE i \in hits : \A j \in hits : i <= j) - 1
             ELSE IF c = 0 THEN a + Len(str) ELSE 0)

Strrchr(a, c) ==
  LET str  == MemReadString(a, StrMax)
      hits == IF c = 0 THEN {Len(str) + 1}
              ELSE {i \in 1..Len(str) : str[i] = c}
  IN  Answer(IF hits = {} THEN 0
             ELSE a + (CHOOSE i \in hits : \A j \in hits : i >= j) - 1)

Strstr(h, a) ==
  LET hay    == MemReadString(h, StrMax)
      needle == MemReadString(a, CmpMax)
      hits   == {i \in 0..(Len(hay) - Len(needle)) :
                   SubSeq(hay, i + 1, i + Len(needle)) = needle}
  IN  Answer(IF needle = <<>> THEN h
             ELSE IF hits = {} THEN 0
             ELSE h + CHOOSE i \in hits : \A j \in hits : i <= j)

\* Malloc of the rounded size, or its panic, and the copy in the block.
Dup(str) ==
  LET top == heapPtr + ((Len(str) + Align) \div Align) * Align
  IN  IF top >= HeapEnd THEN Panic
      ELSE [Outcome(heapPtr, MemWriteString(heapPtr, str)) EXCEPT !.heap = top]

Strdup(s) == Dup(MemReadString(s, StrMax))

Strndup(s, n) ==
  IF AsInt(n) < 0 THEN Panic ELSE Dup(Cut(MemReadString(s, n), n))

-----------------------------------------------------------------------------
\* libc/printf.go: the format is the output.
Sprintf(d, f) ==
  LET str == MemReadString(f, CmpMax)
  IN  Outcome(Len(str), MemWriteString(d, str))

Snprintf(d, n, f) ==
  LET str == MemReadString(f, AsInt(n))
      out == IF Len(str) >= n THEN Prefix(str, n - 1) ELSE str
  IN  IF n = 0 THEN Answer(Len(str))
      ELSE Outcome(Len(out), MemWriteString(d, out))

-----------------------------------------------------------------------------
Init == /\ mem \in Memories
        /\ heapPtr = HeapBase
        /\ x0 = 0
        /\ panicked = FALSE
        /\ before = mem
        /\ call = [fn |-> "none", d |-> 0, s |-> 0, n |-> 0]

\* One call; d, s and n are its arguments, s also a character.
Call(fn, d, s, n, out) ==
  /\ call.fn = "none"
  /\ call' = [fn |-> fn, d |-> d, s |-> s, n |-> n]
  /\ before' = mem
  /\ mem' = out.mem
  /\ heapPtr' = out.heap
  /\ x0' = out.ret
  /\ panicked' = out.panics

Next ==
  \E d, s \in Pointers :
    \/ Call("strlen", 0, s, 0, Strlen(s))
    \/ Call("strcmp", d, s, 0, Strcmp(d, s))
    \/ Call("strcpy", d, s, 0, Strcpy(d, s))
    \/ Call("strcat", d, s, 0, Strcat(d, s))
    \/ Call("strstr", d, s, 0, Strstr(d, s))
    \/ Call("strdup", 0, s, 0, Strdup(s))
    \/ Call("sprintf", d, s, 0, Sprintf(d, s))
    \/ \E c \in Char :
         \/ Call("strchr", d, c, 0, Strchr(d, c))
         \/ Call("strrchr", d, c, 0, Strrchr(d, c))
         \/ \E n \in Sizes : Call("memset", d, c, n, Memset(d, c, n))
    \/ \E n \in Sizes :
         \/ Call("memcpy", d, s, n, Memcpy(d, s, n))
         \/ Call("memcmp", d, s, n, Memcmp(d, s, n))
         \/ Call("strncmp", d, s, n, Strncmp(d, s, n))
         \/ Call("strncpy", d, s, n, Strncpy(d, s, n))
         \/ Call("strncat", d, s, n, Strncat(d, s, n))
         \/ Call("strndup", 0, s, n, Strndup(s, n))
         \/ Call("snprintf", d, s, n, Snprintf(d, n, s))

Spec == Init /\ [][Next]_vars

-----------------------------------------------------------------------------
\* Types.
TypeOK == /\ mem \in [Mapped -> Char]
          /\ heapPtr \in HeapBase..HeapEnd
          /\ x0 \in 0..(RegSize - 1)
          /\ panicked \in BOOLEAN
          /\ before \in Memories
          /\ call.d \in Pointers \cup {0}
          /\ call.s \in 0..(RegSize - 1)
          /\ call.n \in Sizes \cup {0}

\* What C says, of memory before the call.  The string at a ends before a
\* window of max cells that can be read.
Legible(a, max) ==
  Readable(a, max) /\ \E i \in 0..max : a + i \in Mapped /\ before[a + i] = 0

\* The string at a, at most n cells of it.
CPart(a, n) ==
  LET len == CHOOSE k \in 0..n : /\ \A i \in 0..(k - 1) : before[a + i] # 0
                                 /\ k < n => before[a + k] = 0
  IN  Bytes(before, a, len)

CStr(a) ==
  CPart(a, CHOOSE k \in 0..StrMax : before[a + k] = 0 /\
                                    \A i \in 0..(k - 1) : before[a + i] # 0)

\* The call was of fn, in memory that is all there, and has written s to a
\* and nothing else.
Wrote(a, s) ==
  Readable(a, Len(s)) =>
    /\ ~panicked
    /\ \A c \in Mapped :
         mem[c] = IF c \in a..(a + Len(s) - 1) THEN s[c - a + 1] ELSE before[c]

Small(n) == 2 * n < RegSize

\* The first of n places where the cells at a and b differ or, if strings
\* are compared, end decides the comparison.
CompareAsC(a, b, n, strings) ==
  LET stops == {i \in 0..(n - 1) : \/ before[a + i] # before[b + i]
                                   \/ strings /\ before[a + i] = 0}
      at    == CHOOSE i \in stops : \A j \in stops : i <= j
      diff  == IF stops = {} THEN 0 ELSE before[a + at] - before[b + at]
  IN  ~panicked /\ x0 = IF diff < 0 THEN RegSize - 1 ELSE IF diff > 0 THEN 1 ELSE 0

\* x0 is the first, or the last, of the places that fit, or NULL.
Found(places, first) ==
  /\ ~panicked
  /\ IF places = {} THEN x0 = 0
     ELSE /\ x0 \in places
          /\ \A p \in places : IF first THEN x0 <= p ELSE x0 >= p

\* There is room in the heap for a string of n characters, however rounded.
HeapHas(n) == HeapBase + n + Align < HeapEnd

\* Every copying function leaves memory as C's function of that name, also
\* where source and destination overlap: the right cells, and no others, as
\* long as strings are shorter than the windows they are read in, the
\* windows are mapped and copies fit in the heap (libc/string.go:38-322,
\* libc/printf.go:87-183).  Of strncpy only the n cells are stated: the code
\* writes one more where the source does not end in them.
CopiesAsC ==
  LET d == call.d  s == call.s  n == call.n
  IN  /\ call.fn = "strcpy" /\ Legible(s, StrMax) =>
           Wrote(d, Append(CStr(s), 0))
      /\ call.fn = "strcat" /\ Legible(s, StrMax) /\ Legible(d, StrMax) =>
           Wrote(d + Len(CStr(d)), Append(CStr(s), 0))
      /\ call.fn = "strncat" /\ Small(n) /\ n > 0 /\ Readable(s, n)
         /\ Legible(d, StrMax) =>
           Wrote(d + Len(CStr(d)), Append(CPart(s, n), 0))
      /\ call.fn = "strncpy" /\ Small(n) /\ n > 0 /\ Readable(s, n)
         /\ Readable(d, n + 1) =>
           ~panicked /\ \A i \in 1..n : mem[d + i - 1] =
             IF i <= Len(CPart(s, n)) THEN CPart(s, n)[i] ELSE 0
      /\ call.fn = "memcpy" /\ n < OpMax /\ Readable(s, n) =>
           Wrote(d, Bytes(before, s, n))
      /\ call.fn = "memset" /\ n < OpMax => Wrote(d, [i \in 1..n |-> s])
      /\ call.fn = "strdup" /\ Legible(s, StrMax) /\ HeapHas(Len(CStr(s))) =>
           Wrote(HeapBase, Append(CStr(s), 0)) /\ x0 = HeapBase
      /\ call.fn = "strndup" /\ Small(n) /\ n > 0 /\ Readable(s, n)
         /\ HeapHas(Len(CPart(s, n))) =>
           Wrote(HeapBase, Append(CPart(s, n), 0)) /\ x0 = HeapBase
      /\ call.fn = "sprintf" /\ Legible(s, CmpMax) =>
           Wrote(d, Append(CStr(s), 0))
      /\ call.fn = "snprintf" /\ Small(n) /\ n > 0 /\ Readable(s, n) =>
           Wrote(d, Append(CPart(s, n - 1), 0))

\* Every function that answers a question answers as C's does, under the
\* same conditions: lengths, signs and places.  snprintf answers the length
\* of what it would write when there is room for it and when it is asked
\* for the length alone (libc/string.go:27-290, libc/printf.go:100-169).
AnswersAsC ==
  LET d == call.d  s == call.s  n == call.n
  IN  /\ call.fn = "strlen" /\ Legible(s, StrMax) => x0 = Len(CStr(s))
      /\ call.fn = "strcmp" /\ Legible(d, CmpMax) /\ Legible(s, CmpMax) =>
           CompareAsC(d, s, CmpMax + 1, TRUE)
      /\ call.fn = "strncmp" /\ Small(n) /\ Readable(d, n) /\ Readable(s, n) =>
           CompareAsC(d, s, n, TRUE)
      /\ call.fn = "memcmp" /\ n < OpMax /\ Readable(d, n) /\ Readable(s, n) =>
           CompareAsC(d, s, n, FALSE)
      /\ call.fn = "strchr" /\ Legible(d, StrMax) =>
           Found({p \in d..(d + Len(CStr(d))) : before[p] = s}, TRUE)
      /\ call.fn = "strrchr" /\ Legible(d, StrMax) =>
           Found({p \in d..(d + Len(CStr(d))) : before[p] = s}, FALSE)
      /\ call.fn = "strstr" /\ Legible(d, StrMax) /\ Legible(s, CmpMax) =>
           Found({p \in d..(d + Len(CStr(d)) - Len(CStr(s))) :
                    Bytes(before, p, Len(CStr(s))) = CStr(s)}, TRUE)
      /\ call.fn = "snprintf" /\ n = 0 /\ Legible(s, StrMax) =>
           x0 = Len(CStr(s)) /\ mem = before
      /\ call.fn = "snprintf" /\ Small(n) /\ n > 0 /\ Readable(s, n) =>
           (Len(CPart(s, n)) < n => x0 = Len(CPart(s, n)))

\* What the stubs write and what they answer is what C says
\* (libc/string.go:27-322, libc/printf.go:87-183).
BehavesAsC == CopiesAsC /\ AnswersAsC
=============================================================================

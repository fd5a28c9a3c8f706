---------------------------- MODULE WideStrings ----------------------------
(***************************************************************************)
(* The functions of libc/locale.go on characters, wide strings and their   *)
(* conversions, next to those of LibcStrings and in the same memory.  The  *)
(* wide ones go through memory one wide character after the other, reading *)
(* what they have written where the strings overlap; what is not mapped    *)
(* reads as 0.  A wide character is two cells, in the code it is four.     *)
(***************************************************************************)
EXTENDS LibcStrings, CharClasses

CONSTANTS Radix,    \* how many values a cell has: 256
          WideMax   \* no loop is longer: 1024

\* Registers hold bytes, wide characters, and twice the limit of a loop.
ASSUME WideStringsAssumption ==
  /\ Radix \in Nat \ {0} /\ Char = 0..(Radix - 1)
  /\ Radix * Radix <= RegSize
  /\ WideMax \in Nat \ {0} /\ 2 * WideMax < RegSize
  /\ RegSize % 256 = 0

Lesser(m, n) == IF m <= n THEN m ELSE n

\* MemReadU32 and MemWriteU32, MemReadU8 and MemWriteU8, errors ignored.
WideAt(m, a) == IF Readable(a, 2) THEN m[a] + Radix * m[a + 1] ELSE 0

WideCells(wc) == <<wc % Radix, wc \div Radix>>

PutWide(m, a, wc) ==
  IF Readable(a, 2)
    THEN [m EXCEPT ![a] = WideCells(wc)[1], ![a + 1] = WideCells(wc)[2]]
    ELSE m

CellAt(m, a) == IF a \in Mapped THEN m[a] ELSE 0

PutCell(m, a, v) == IF a \in Mapped THEN [m EXCEPT ![a] = v] ELSE m

\* The first of the indices below limit at which a loop stops, or limit.
FirstStop(limit, Stops(_)) ==
  CHOOSE k \in 0..limit : /\ k = limit \/ Stops(k)
                          /\ \A i \in 0..(k - 1) : ~Stops(i)

WideLength(m, a, limit) == FirstStop(limit, LAMBDA i : WideAt(m, a + 2 * i) = 0)

\* Copying up to a zero, at most limit times: memory after each round.
CopyWide(m, d, s, limit) ==
  LET after[k \in 0..limit] ==
        IF k = 0 THEN [mem |-> m, ended |-> FALSE]
        ELSE IF after[k - 1].ended THEN after[k - 1]
        ELSE LET now == after[k - 1].mem
                 wc  == WideAt(now, s + 2 * (k - 1))
             IN  [mem |-> PutWide(now, d + 2 * (k - 1), wc), ended |-> wc = 0]
  IN  after[limit]

-----------------------------------------------------------------------------
\* The wide functions.
Wcslen(a) == Answer(WideLength(mem, a, WideMax))

Wcscpy(d, s) == Outcome(d, CopyWide(mem, d, s, WideMax).mem)

\* wcscmp and wcsncmp.
CompareWide(a, b, limit) ==
  LET u(i) == WideAt(mem, a + 2 * i)
      v(i) == WideAt(mem, b + 2 * i)
      at   == FirstStop(limit, LAMBDA i : u(i) # v(i) \/ u(i) = 0)
  IN  Answer(IF at = limit THEN 0
             ELSE IF u(at) < v(at) THEN RegSize - 1
             ELSE IF v(at) < u(at) THEN 1 ELSE 0)

Wcscmp(a, b) == CompareWide(a, b, WideMax)

Wcsncmp(a, b, n) == CompareWide(a, b, Lesser(n, WideMax))

\* n * 4 wraps; what is left of it is filled with zeros.
Wcsncpy(d, s, n) ==
  LET limit  == Lesser(((2 * n) % RegSize) \div 2, WideMax)
      copied == CopyWide(mem, d, s, limit)
      at     == FirstStop(limit, LAMBDA i : WideAt(CopyWide(mem, d, s, i).mem,
                                                   s + 2 * i) = 0)
      zeros[k \in at..limit] ==
        IF k = at THEN copied.mem ELSE PutWide(zeros[k - 1], d + 2 * (k - 1), 0)
  IN  Outcome(d, IF copied.ended THEN zeros[limit] ELSE copied.mem)

Wcschr(a, wc) ==
  LET at == FirstStop(WideMax, LAMBDA i : WideAt(mem, a + 2 * i) \in {wc, 0})
  IN  Answer(IF at < WideMax /\ WideAt(mem, a + 2 * at) = wc THEN a + 2 * at ELSE 0)

Wcsrchr(a, wc) ==
  LET last == Lesser(WideLength(mem, a, WideMax), WideMax - 1)
      hits == {i \in 0..last : WideAt(mem, a + 2 * i) = wc}
  IN  Answer(IF hits = {} THEN 0
             ELSE a + 2 * (CHOOSE i \in hits : \A j \in hits : i >= j))

\* Where nothing ends the destination, its start is taken for its end.
WideEnd(d) ==
  LET len == WideLength(mem, d, WideMax) IN IF len = WideMax THEN d ELSE d + 2 * len

Wcscat(d, s) == Outcome(d, CopyWide(mem, WideEnd(d), s, WideMax).mem)

\* A variant that forgets the terminator.
WcsncatOpen(d, s, n) ==
  Outcome(d, CopyWide(mem, WideEnd(d), s, Lesser(n, WideMax)).mem)

\* The terminator goes behind n characters, also where fewer were copied;
\* here n * 4 and the sum wrap.
Wcsncat(d, s, n) ==
  LET copied == CopyWide(mem, WideEnd(d), s, Lesser(n, WideMax))
  IN  Outcome(d, IF copied.ended THEN copied.mem
                 ELSE PutWide(copied.mem, (WideEnd(d) + 2 * n) % RegSize, 0))

\* The conversions; every byte is a character.
Mbstowcs(d, s, n) ==
  LET limit == Lesser(n, WideMax)
      after[k \in 0..limit] ==
        IF k = 0 THEN [mem |-> mem, count |-> 0, ended |-> FALSE]
        ELSE IF after[k - 1].ended THEN after[k - 1]
        ELSE LET now == after[k - 1].mem
                 b   == CellAt(now, s + k - 1)
             IN  [mem |-> IF d = 0 THEN now ELSE PutWide(now, d + 2 * (k - 1), b),
                  count |-> IF b = 0 THEN k - 1 ELSE k,
                  ended |-> b = 0]
  IN  Outcome(after[limit].count, after[limit].mem)

Wcstombs(d, s, n) ==
  LET limit == Lesser(n, WideMax)
      after[k \in 0..limit] ==
        IF k = 0 THEN [mem |-> mem, count |-> 0, ended |-> FALSE]
        ELSE IF after[k - 1].ended THEN after[k - 1]
        ELSE LET now == after[k - 1].mem
                 wc  == WideAt(now, s + 2 * (k - 1))
             IN  [mem |-> IF d = 0 THEN now
                          ELSE PutCell(now, d + k - 1, wc % Radix),
                  count |-> IF wc = 0 THEN k - 1 ELSE k,
                  ended |-> wc = 0]
  IN  Outcome(after[limit].count, after[limit].mem)

Mbtowc(d, s) ==
  IF s = 0 THEN Answer(0)
  ELSE Outcome(IF CellAt(mem, s) = 0 THEN 0 ELSE 1,
               IF d = 0 THEN mem ELSE PutWide(mem, d, CellAt(mem, s)))

Wctomb(d, wc) ==
  IF d = 0 THEN Answer(0) ELSE Outcome(1, PutCell(mem, d, wc % Radix))

Mblen(s) == Answer(IF s = 0 \/ CellAt(mem, s) = 0 THEN 0 ELSE 1)

\* The classes, of the low byte of the register.
Classify(fn, c) == Answer(IF Class(fn, c % 256) THEN 1 ELSE 0)

-----------------------------------------------------------------------------
WideNext ==
  \/ \E d, s \in Pointers \cup {0} :
       \/ Call("mbtowc", d, s, 0, Mbtowc(d, s))
       \/ \E n \in Sizes : \/ Call("mbstowcs", d, s, n, Mbstowcs(d, s, n))
                           \/ Call("wcstombs", d, s, n, Wcstombs(d, s, n))
  \/ \E d, s \in Pointers :
       \/ Call("wcslen", 0, s, 0, Wcslen(s))
       \/ Call("wcscpy", d, s, 0, Wcscpy(d, s))
       \/ Call("wcscmp", d, s, 0, Wcscmp(d, s))
       \/ Call("wcscat", d, s, 0, Wcscat(d, s))
       \/ Call("mblen", 0, s, 0, Mblen(s))
       \/ \E n \in Sizes : \/ Call("wcsncpy", d, s, n, Wcsncpy(d, s, n))
                           \/ Call("wcsncmp", d, s, n, Wcsncmp(d, s, n))
                           \/ Call("wcsncat", d, s, n, Wcsncat(d, s, n))
  \/ \E d \in Pointers, wc \in 0..(Radix * Radix - 1) :
       \/ Call("wcschr", d, wc, 0, Wcschr(d, wc))
       \/ Call("wcsrchr", d, wc, 0, Wcsrchr(d, wc))
       \/ Call("wctomb", d, wc, 0, Wctomb(d, wc))

\* The guest asks of a character, or of EOF.
ClassNext ==
  \E c \in 0..255 \cup {RegSize - 1} :
    \/ \E fn \in DOMAIN ClassFlags : Call(fn, 0, c, 0, Classify(fn, c))
    \/ Call("toupper", 0, c, 0, Answer(ToUpper(c % 256)))
    \/ Call("tolower", 0, c, 0, Answer(ToLower(c % 256)))

LibcSpec == Init /\ [][Next \/ WideNext \/ ClassNext]_vars

-----------------------------------------------------------------------------
\* What C says.  The wide string at a, of at most n characters, which are
\* all mapped, and the cells of a sequence of wide characters.
WideLegible(a, n) == Readable(a, 2 * n) /\ WideLength(before, a, n) < n

WidePart(a, n) ==
  [i \in 1..WideLength(before, a, n) |-> WideAt(before, a + 2 * (i - 1))]

WideStr(a) == WidePart(a, WideMax)

Cells(w) == [i \in 1..(2 * Len(w)) |->
               WideCells(w[(i + 1) \div 2])[IF i % 2 = 1 THEN 1 ELSE 2]]

\* C leaves open what happens when strings of k and l cells overlap, and
\* the code copies upwards.
Apart(d, k, s, l) == d <= s \/ s + l <= d

\* What the functions write, and nothing else, as long as strings end within
\* the limit of the loops, sizes do not exceed it, and every character that
\* is converted fits (libc/locale.go:395-674).
CopiesWide ==
  LET d == call.d  s == call.s  n == call.n
      room(w) == Apart(d, 2 * Len(w), s, 2 * Len(w))
  IN  /\ call.fn = "wcscpy" /\ WideLegible(s, WideMax) =>
           LET w == Append(WideStr(s), 0) IN room(w) => Wrote(d, Cells(w))
      /\ call.fn = "wcscat" /\ WideLegible(s, WideMax) /\ WideLegible(d, WideMax) =>
           LET w   == Append(WideStr(s), 0)
               end == d + 2 * Len(WideStr(d))
           IN  Apart(end, 2 * Len(w), s, 2 * Len(w)) => Wrote(end, Cells(w))
      /\ call.fn = "wcsncat" /\ n <= WideMax /\ Readable(s, 2 * n)
         /\ WideLegible(d, WideMax) =>
           LET w   == Append(WidePart(s, n), 0)
               end == d + 2 * Len(WideStr(d))
           IN  Apart(end, 2 * Len(w), s, 2 * Len(w)) => Wrote(end, Cells(w))
      /\ call.fn = "wcsncpy" /\ n <= WideMax /\ Readable(s, 2 * n) =>
           LET w == [i \in 1..n |-> IF i <= Len(WidePart(s, n))
                                    THEN WidePart(s, n)[i] ELSE 0]
           IN  room(w) => Wrote(d, Cells(w))
      /\ call.fn = "mbstowcs" /\ d # 0 /\ n <= WideMax /\ Readable(s, n) =>
           LET str == CPart(s, n)
               w   == IF Len(str) < n THEN Append(str, 0) ELSE str
           IN  (s + Len(w) <= d \/ d + 2 * Len(w) <= s) =>
                 Wrote(d, Cells(w)) /\ x0 = Len(str)
      /\ call.fn = "wcstombs" /\ d # 0 /\ n <= WideMax /\ Readable(s, 2 * n)
         /\ (\A i \in 1..Len(WidePart(s, n)) : WidePart(s, n)[i] < Radix) =>
           LET str == WidePart(s, n)
               w   == IF Len(str) < n THEN Append(str, 0) ELSE str
           IN  Apart(d, Len(w), s, 2 * Len(w)) => Wrote(d, w) /\ x0 = Len(str)
      /\ call.fn = "mbtowc" /\ d # 0 /\ s \in Mapped =>
           /\ Wrote(d, WideCells(before[s]))
           /\ x0 = IF before[s] = 0 THEN 0 ELSE 1
      /\ call.fn = "wctomb" /\ s < Radix => Wrote(d, <<s>>) /\ x0 = 1

\* What they answer: lengths, signs and places (libc/locale.go:411-530).
AnswersWide ==
  LET d == call.d  s == call.s  n == call.n
      sign(k) == LET at == CHOOSE i \in 0..k :
                           /\ \A j \in 0..(i - 1) :
                                /\ WideAt(before, d + 2 * j) # 0
                                /\ WideAt(before, d + 2 * j)
                                     = WideAt(before, s + 2 * j)
                           /\ \/ i = k
                              \/ WideAt(before, d + 2 * i) = 0
                              \/ WideAt(before, d + 2 * i)
                                   # WideAt(before, s + 2 * i)
                   diff == IF at = k THEN 0
                           ELSE WideAt(before, d + 2 * at)
                                  - WideAt(before, s + 2 * at)
               IN  x0 = IF diff < 0 THEN RegSize - 1 ELSE IF diff > 0 THEN 1 ELSE 0
      places == {d + 2 * i : i \in {j \in 0..Len(WideStr(d)) :
                                    WideAt(before, d + 2 * j) = s}}
  IN  /\ call.fn = "wcslen" /\ WideLegible(s, WideMax) => x0 = Len(WideStr(s))
      /\ call.fn = "wcscmp" /\ WideLegible(d, WideMax) /\ WideLegible(s, WideMax) =>
           sign(WideMax)
      /\ call.fn = "wcsncmp" /\ n <= WideMax /\ Readable(d, 2 * n)
         /\ Readable(s, 2 * n) => sign(n)
      /\ call.fn = "wcschr" /\ WideLegible(d, WideMax) => Found(places, TRUE)
      /\ call.fn = "wcsrchr" /\ WideLegible(d, WideMax) => Found(places, FALSE)

\* The functions and the table agree about every character and EOF, except
\* for white space other than blanks, which the table does not have as
\* control characters, and the tab, which it has as printable; and letters
\* change their case (libc/locale.go:236-391, emulator.go:184-224).
ClassesAgree ==
  LET fn == call.fn  c == call.s
  IN  /\ fn \in DOMAIN ClassFlags
           /\ ~(fn = "iscntrl" /\ c \in 9..13) /\ ~(fn = "isprint" /\ c = 9) =>
           ((x0 = 1) <=> ByTable(fn, c))
      /\ fn = "toupper" /\ c < 256 =>
           IF "L" \in CtypeFlags(c) THEN "U" \in CtypeFlags(x0) /\ x0 = c - 32
           ELSE x0 = c
      /\ fn = "tolower" /\ c < 256 =>
           IF "U" \in CtypeFlags(c) THEN "L" \in CtypeFlags(x0) /\ x0 = c + 32
           ELSE x0 = c

\* What the functions on strings, memory, wide strings and characters write
\* and answer is what C says of them (libc/string.go:27-322,
\* libc/printf.go:87-183, libc/locale.go:236-694).
LibcBehavesAsC == BehavesAsC /\ CopiesWide /\ AnswersWide /\ ClassesAgree
=============================================================================

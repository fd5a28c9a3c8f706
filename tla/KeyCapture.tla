----------------------------- MODULE KeyCapture -----------------------------
(***************************************************************************)
(* What galago is for: a hooked key setter finds the key among the guest's *)
(* registers.  The guest builds std::string objects with the stubs of      *)
(* cxxabi/string.go, in memory laid out as libc++ does, and passes keys to *)
(* the setters that cocos.go and the vtable hooks of main.go recognise, as *)
(* std::string references or as C strings.                                 *)
(*                                                                         *)
(* Memory is scaled down: a cell stands for a byte and holds 0..Radix-1, a *)
(* word is two cells, a std::string object three words.  What the code     *)
(* compares is kept: the length in the first cell and its lowest bit, what *)
(* is printable, which numbers are lengths, pointers and heap pointers.    *)
(***************************************************************************)
EXTENDS Naturals, Sequences

CONSTANTS
  Radix,      \* the values of a cell (256)
  Printable,  \* the printable values (0x20..0x7e)
  LenLimit,   \* numbers below it are lengths (256)
  PtrMin,     \* numbers from it on are pointers (0x1000)
  Window,     \* the maximum of a read of a C string (128, 256 or 4096)
  HeapBase, HeapEnd,
  Align,      \* the rounding of a string's heap buffer (16)
  Guest,      \* initial memory: the mapped cells and what they hold
  Objects,    \* addresses of the guest's std::string objects
  Texts,      \* addresses of the guest's C strings
  This,       \* the object a member function is called on
  Leftover,   \* what a register holds that no argument was passed in
  Drawn,      \* the characters the guest writes into a string
  MaxEdits,   \* bound: how often the guest changes its strings
  MaxCalls    \* bound: the guest ends with so many calls of setters

ObjSize == 6
SSOMaxLen == ObjSize - 2

HeapRange == HeapBase..(HeapEnd - 1)

\* Where a string lies in the guest there is room for a read of a whole
\* window.  The guest's objects lie apart from each other and from the heap
\* and are constructed empty.
HasWindow(a) == a..(a + Window - 1) \subseteq DOMAIN Guest

ObjectCells(o) == o..(o + ObjSize - 1)

AreObjects ==
  /\ Objects \subseteq Nat
  /\ \A o \in Objects : /\ HasWindow(o + 1)
                        /\ ObjectCells(o) \subseteq DOMAIN Guest \ HeapRange
                        /\ \A c \in ObjectCells(o) : Guest[c] = 0
  /\ \A o, p \in Objects : o # p => ObjectCells(o) \cap ObjectCells(p) = {}

ASSUME KeyCaptureAssumption ==
  /\ Radix \in Nat /\ 2 * SSOMaxLen < Radix /\ Radix % 2 = 0
  /\ Printable \subseteq 1..(Radix - 1)
  /\ LenLimit \in Nat /\ PtrMin \in Nat /\ LenLimit <= PtrMin
  /\ Window \in Nat /\ Window < LenLimit
  /\ Align \in Nat \ {0} /\ MaxEdits \in Nat /\ MaxCalls \in Nat
  /\ Guest \in [DOMAIN Guest -> 0..(Radix - 1)]
  /\ DOMAIN Guest \subseteq (PtrMin + 1)..(Radix * Radix - 1)
  /\ HeapBase \in Nat /\ HeapEnd \in Nat /\ HeapRange \subseteq DOMAIN Guest
  \* The heap is smaller than its address, so no capacity is a heap pointer.
  /\ HeapBase < HeapEnd /\ HeapEnd < 2 * HeapBase
  /\ \A a \in HeapRange : HasWindow(a)
  \* No printable text is in the high half of a pointer into the heap.
  /\ \A a \in HeapRange : a \div Radix \notin Printable
  /\ AreObjects
  /\ Texts \subseteq Nat /\ This \in Nat /\ Leftover \subseteq [1..4 -> Nat]
  /\ Drawn \subseteq 1..(Radix - 1)

VARIABLES
  mem,      \* guest memory
  heapPtr,  \* Emulator.heapPtr
  tracked,  \* trackedStrings, by object
  capturedKeys,
  content,  \* history: what the guest last made of its objects
  edits,    \* history: how often it changed one
  call,     \* history: the last call of a setter
  calls     \* history: how many there were

vars == <<mem, heapPtr, tracked, capturedKeys, content, edits, call, calls>>

-----------------------------------------------------------------------------
\* Reading guest memory.
Readable(a, n) == a..(a + n - 1) \subseteq DOMAIN mem

Bytes(a, n) == [i \in 1..n |-> mem[a + i - 1]]

\* MemReadString: all of the window is read before the end is looked for.
MemReadString(a) ==
  IF ~Readable(a, Window) THEN <<>>
  ELSE LET ends == {n \in 0..(Window - 1) : mem[a + n] = 0}
           len  == IF ends = {} THEN Window
                   ELSE CHOOSE n \in ends : \A k \in ends : n <= k
       IN  Bytes(a, len)

Word(a) == mem[a] + Radix * mem[a + 1]
Cells(v) == <<v % Radix, v \div Radix>>

IsPrintable(s) == s # <<>> /\ \A i \in 1..Len(s) : s[i] \in Printable

IfPrintable(s) == IF IsPrintable(s) THEN s ELSE <<>>

Text(a) == IfPrintable(MemReadString(a))

\* The first candidate that is not empty, the code's chains of attempts.
FirstFound(candidates) ==
  LET found == {i \in 1..Len(candidates) : candidates[i] # <<>>}
  IN  IF found = {} THEN <<>>
      ELSE candidates[CHOOSE i \in found : \A j \in found : i <= j]

-----------------------------------------------------------------------------
\* std::string objects.
IsLong(o) == mem[o] % 2 = 1

GetSSODataPtr(o) == IF IsLong(o) THEN Word(o + 4) ELSE o + 1

GetSSOLength(o) == IF IsLong(o) THEN Word(o + 2) ELSE mem[o] \div 2

\* A variant that takes the longest short string for none.
ReadStdStringBelowMax(a) ==
  IF ~Readable(a, ObjSize) THEN <<>>
  ELSE FirstFound(
    << IF Word(a) \in HeapRange THEN Text(Word(a)) ELSE <<>>,
       IF ~IsLong(a) /\ mem[a] \div 2 \in 1..(SSOMaxLen - 1)
         THEN IfPrintable(Bytes(a + 1, mem[a] \div 2)) ELSE <<>>,
       IF /\ IsLong(a) /\ Word(a + 2) \in 1..LenLimit /\ Word(a + 4) # 0
          /\ Readable(Word(a + 4), Word(a + 2))
         THEN IfPrintable(Bytes(Word(a + 4), Word(a + 2))) ELSE <<>> >>)

\* A setter's own reader tries a pointer into the heap first, then the two
\* layouts of libc++.
ReadStdString(a) ==
  IF ~Readable(a, ObjSize) THEN <<>>
  ELSE FirstFound(
    << IF Word(a) \in HeapRange THEN Text(Word(a)) ELSE <<>>,
       IF ~IsLong(a) /\ mem[a] \div 2 \in 1..SSOMaxLen
         THEN IfPrintable(Bytes(a + 1, mem[a] \div 2)) ELSE <<>>,
       IF /\ IsLong(a) /\ Word(a + 2) \in 1..LenLimit /\ Word(a + 4) # 0
          /\ Readable(Word(a + 4), Word(a + 2))
         THEN IfPrintable(Bytes(Word(a + 4), Word(a + 2))) ELSE <<>> >>)

Written(m, a, s) ==
  [c \in DOMAIN m |-> IF c \in a..(a + Len(s) - 1) THEN s[c - a + 1] ELSE m[c]]

ShortObject(s) ==
  [i \in 1..ObjSize |-> IF i = 1 THEN 2 * Len(s)
                        ELSE IF i <= Len(s) + 1 THEN s[i - 1] ELSE 0]

BufSize(s) == ((Len(s) + Align) \div Align) * Align

LongObject(s, ptr) ==
  Cells(2 * (BufSize(s) \div 2) + 1) \o Cells(Len(s)) \o Cells(ptr)

\* A variant whose buffer has no room for the terminator.
WriteSSOStringTight(o, s) ==
  IF Len(s) <= SSOMaxLen
    THEN /\ mem' = Written(mem, o, ShortObject(s))
         /\ UNCHANGED heapPtr
    ELSE /\ heapPtr + Len(s) <= HeapEnd
         /\ heapPtr' = heapPtr + Len(s)
         /\ mem' = Written(Written(mem, heapPtr, Append(s, 0)),
                           o, LongObject(s, heapPtr))

WriteSSOString(o, s) ==
  IF Len(s) <= SSOMaxLen
    THEN /\ mem' = Written(mem, o, ShortObject(s))
         /\ UNCHANGED heapPtr
    ELSE /\ heapPtr + BufSize(s) < HeapEnd
         /\ heapPtr' = heapPtr + BufSize(s)
         /\ mem' = Written(Written(mem, heapPtr, Append(s, 0)),
                           o, LongObject(s, heapPtr))

-----------------------------------------------------------------------------
(***************************************************************************)
(* What each kind of hook captures, from registers x[0] to x[4].           *)
(***************************************************************************)
Captured(value, keyType) == [value |-> value, keyType |-> keyType]

\* A variant with the signature first.
SignThenKey(key, keyType, sign) ==
  IF key = <<>> THEN <<>>
  ELSE (IF sign = <<>> THEN <<>> ELSE <<Captured(sign, "signature")>>)
       \o <<Captured(key, keyType)>>

KeyThenSign(key, keyType, sign) ==
  IF key = <<>> THEN <<>>
  ELSE <<Captured(key, keyType)>>
       \o (IF sign = <<>> THEN <<>> ELSE <<Captured(sign, "signature")>>)

PointerText(p) == IF p >= PtrMin THEN Text(p) ELSE <<>>

IsLength(n) == n \in 1..(LenLimit - 1)

\* std: the name has basic_string or jsb_set in it; lua: it has setXXTea and
\* no basic_string, and a number in x[1] is taken for the length of a static
\* function's key.  What is found in x[3] counts as a signature whether or
\* not the function has one.
XXTeaHook(std, lua, x) ==
  KeyThenSign(
    FirstFound(<< IF std THEN ReadStdString(x[0]) ELSE <<>>,
                  IF lua THEN Text(IF IsLength(x[1]) THEN x[0] ELSE x[1])
                         ELSE <<>>,
                  PointerText(x[0]), PointerText(x[1]), PointerText(x[2]) >>),
    "xxtea",
    IF x[3] > PtrMin /\ IsLength(x[4]) THEN Text(x[3]) ELSE <<>>)

StdStringSetterHook(x) ==
  KeyThenSign(FirstFound(<< ReadStdString(x[1]),
                            IF x[1] > PtrMin THEN Text(x[1]) ELSE <<>> >>),
              "xxtea", ReadStdString(x[2]))

GenericKeyHook(keyType, x) ==
  KeyThenSign(FirstFound(<<Text(x[0]), Text(x[1]), Text(x[2])>>), keyType, <<>>)

\* The type is read off the source, which is the symbol of the slot, with
\* "[signature]" after it for a signature.
KeyTypeOf(symbol, isSign) ==
  IF symbol = "xxtea" THEN "xxtea"
  ELSE IF isSign THEN "signature"
  ELSE IF symbol = "crypto" THEN "crypto" ELSE "unknown"

\* A variant that captures whatever bytes there are.
VtableStubHookUnchecked(symbol, x) ==
  LET Part(p, n, isSign) ==
        IF /\ IsLength(n) /\ p > PtrMin
           /\ Readable(p, n)
          THEN <<Captured(Bytes(p, n), KeyTypeOf(symbol, isSign))>> ELSE <<>>
  IN  Part(x[1], x[2], FALSE) \o Part(x[3], x[4], TRUE)

VtableStubHook(symbol, x) ==
  LET Part(p, n, isSign) ==
        IF /\ IsLength(n) /\ p > PtrMin /\ Readable(p, n)
           /\ IsPrintable(Bytes(p, n))
          THEN <<Captured(Bytes(p, n), KeyTypeOf(symbol, isSign))>> ELSE <<>>
  IN  Part(x[1], x[2], FALSE) \o Part(x[3], x[4], TRUE)

Hook(name, x) ==
  CASE name = "jsb_set_xxtea_key"   -> XXTeaHook(TRUE, FALSE, x)
    [] name = "setXXTeaKey"         -> XXTeaHook(FALSE, TRUE, x)
    [] name = "ZipUtils"            -> XXTeaHook(FALSE, FALSE, x)
    [] name = "setCryptoKeyAndSign" -> StdStringSetterHook(x)
    [] name = "setAESKey"           -> GenericKeyHook("aes", x)
    [] name = "vtable->setXXTeaKey"  -> VtableStubHook("xxtea", x)
    [] name = "vtable->setCryptoKey" -> VtableStubHook("crypto", x)
    [] name = "vtable->setSecretKey" -> VtableStubHook("secret", x)

-----------------------------------------------------------------------------
Init == /\ mem = Guest
        /\ heapPtr = HeapBase
        /\ tracked = <<>>
        /\ capturedKeys = <<>>
        /\ content = [o \in Objects |-> <<>>]
        /\ edits = 0
        /\ call = [hook |-> "none", key |-> <<>>, sign |-> <<>>,
                   clean |-> TRUE, from |-> 0]
        /\ calls = 0

\* The guest changes one of its strings before its last call.
Edit == calls < MaxCalls /\ edits < MaxEdits /\ edits' = edits + 1

\* Constructor and assign, which do the same.
StringAssign(o, t) ==
  LET s == MemReadString(t)
  IN  /\ Edit
      /\ WriteSSOString(o, s)
      /\ tracked' = [p \in DOMAIN tracked \cup {o} |->
                       IF p = o THEN s ELSE tracked[p]]
      /\ content' = [content EXCEPT ![o] = s]
      /\ UNCHANGED <<capturedKeys, call, calls>>

StringClear(o) ==
  /\ Edit
  /\ WriteSSOString(o, <<>>)
  /\ content' = [content EXCEPT ![o] = <<>>]
  /\ UNCHANGED <<tracked, capturedKeys, call, calls>>

\* The guest writes a character through the pointer operator[] returns.
StringIndex(o, i, c) ==
  /\ Edit
  /\ i < GetSSOLength(o)
  /\ mem' = [mem EXCEPT ![GetSSODataPtr(o) + i] = c]
  /\ content' = [content EXCEPT ![o][i + 1] = c]
  /\ UNCHANGED <<heapPtr, tracked, capturedKeys, call, calls>>

\* A call of a setter that is passed key and sign, as far as its arguments
\* go; l is what the registers after them hold, clean if that points at no
\* text.
CallSetter(name, x, key, sign, l) ==
  /\ calls < MaxCalls
  /\ calls' = calls + 1
  /\ capturedKeys' = capturedKeys \o Hook(name, x)
  /\ call' = [hook |-> name, key |-> key, sign |-> sign,
              clean |-> \A r \in DOMAIN l :
                          l[r] \in DOMAIN mem => mem[l[r]] \notin Printable,
              from |-> Len(capturedKeys)]
  /\ UNCHANGED <<mem, heapPtr, tracked, content, edits>>

Regs(args, l) == [r \in 0..4 |-> IF r < Len(args) THEN args[r + 1] ELSE l[r]]

\* A C string argument: a literal, or what c_str() returns.
CStrings ==
  {[ptr |-> t, str |-> MemReadString(t)] : t \in Texts}
  \cup {[ptr |-> GetSSODataPtr(o), str |-> content[o]] : o \in Objects}

CallStdString(o, l) ==
  CallSetter("jsb_set_xxtea_key", Regs(<<o>>, l), content[o], <<>>, l)

CallStdStringAndSign(o, p, l) ==
  CallSetter("setCryptoKeyAndSign", Regs(<<This, o, p>>, l),
             content[o], content[p], l)

CallStatic(k, l) ==
  CallSetter("setXXTeaKey", Regs(<<k.ptr, Len(k.str)>>, l), k.str, <<>>, l)

CallPlain(name, k, l) ==
  CallSetter(name, Regs(<<k.ptr>>, l), k.str, <<>>, l)

\* The member functions, called directly or through a stub in a vtable.
MemberSetters == {"setXXTeaKey", "vtable->setXXTeaKey",
                  "vtable->setCryptoKey", "vtable->setSecretKey"}

CallMember(name, k, l) ==
  CallSetter(name, Regs(<<This, k.ptr, Len(k.str)>>, l), k.str, <<>>, l)

CallMemberAndSign(name, k, s, l) ==
  CallSetter(name, Regs(<<This, k.ptr, Len(k.str), s.ptr, Len(s.str)>>, l),
             k.str, s.str, l)

Next ==
  \/ \E o \in Objects, t \in Texts : StringAssign(o, t)
  \/ \E o \in Objects : StringClear(o)
  \/ \E o \in Objects, i \in 0..(Window - 1), c \in Drawn : StringIndex(o, i, c)
  \/ \E l \in Leftover :
       \/ \E o \in Objects : CallStdString(o, l)
       \/ \E o, p \in Objects : CallStdStringAndSign(o, p, l)
       \/ \E k \in CStrings : CallStatic(k, l)
       \/ \E k \in CStrings, name \in {"ZipUtils", "setAESKey"} :
            CallPlain(name, k, l)
       \/ \E k \in CStrings, name \in MemberSetters : CallMember(name, k, l)
       \/ \E k, s \in CStrings, name \in MemberSetters :
            CallMemberAndSign(name, k, s, l)

Spec == Init /\ [][Next]_vars

-----------------------------------------------------------------------------
\* Types.
Strings == Seq(0..(Radix - 1))

TypeOK == /\ mem \in [DOMAIN Guest -> 0..(Radix - 1)]
          /\ heapPtr \in HeapRange
          /\ DOMAIN tracked \subseteq Objects
          /\ \A o \in DOMAIN tracked : tracked[o] \in Strings
          /\ \A i \in 1..Len(capturedKeys) :
               /\ IsPrintable(capturedKeys[i].value)
               /\ capturedKeys[i].keyType
                    \in {"xxtea", "aes", "crypto", "signature", "unknown"}
          /\ content \in [Objects -> Strings]
          /\ edits \in 0..MaxEdits
          /\ call.from \in 0..Len(capturedKeys)
          /\ calls \in 0..MaxCalls

\* However often strings are assigned, shortened, lengthened and written
\* into, each object reads back as what the guest made of it: through size()
\* and data(), as a C string through c_str(), and by a setter if the string
\* is text; no object's buffer is another's (string.go:180-285,
\* cocos.go:239-314).
StringsReadBack ==
  \A o \in Objects :
    /\ Bytes(GetSSODataPtr(o), GetSSOLength(o)) = content[o]
    /\ MemReadString(GetSSODataPtr(o)) = content[o]
    /\ IsPrintable(content[o]) => ReadStdString(o) = content[o]

\* The captures of the last call.
Got == SubSeq(capturedKeys, call.from + 1, Len(capturedKeys))

\* A text passed as key is captured as it is, before anything else, by each
\* kind of setter and whatever the other registers hold
\* (cocos.go:329-499, main.go:626-648).
KeyCaptured ==
  calls > 0 /\ IsPrintable(call.key) =>
    Got # <<>> /\ Got[1].value = call.key /\ Got[1].keyType # "signature"

\* A signature passed with a key comes right after it and as a signature,
\* which is how printKeys pairs them, and nothing is captured besides,
\* unless a register that is no argument points at text.  An xxtea slot of a
\* vtable is left out: there the symbol's name decides the type
\* (cocos.go:92-111, 401-412, 485-492).
SignatureFollowsKey ==
  calls > 0 /\ IsPrintable(call.key) /\ call.hook # "vtable->setXXTeaKey" =>
    /\ IsPrintable(call.sign) => Tail(Got) = <<Captured(call.sign, "signature")>>
    /\ call.sign = <<>> /\ call.clean => Len(Got) = 1

\* "This package captures encryption keys, secrets, and other sensitive
\* values passed to setter functions" (cocos.go:2-3): what is captured was
\* passed to the setter.
OnlyWhatWasPassed ==
  calls > 0 /\ call.clean =>
    \A i \in 1..Len(Got) : Got[i].value \in {call.key, call.sign}
=============================================================================

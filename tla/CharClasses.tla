---------------------------- MODULE CharClasses ----------------------------
(***************************************************************************)
(* Character classes, which galago gives its guest twice: as the functions *)
(* of libc/locale.go, and as the table _ctype_ in guest memory, into which *)
(* code compiled against inline versions of the same functions looks.      *)
(***************************************************************************)
EXTENDS Integers

\* isInRange.  Characters are named by their codes: A is 65, a 97, 0 48.
IsInRange(c, low, high) == c \in low..high

IsUpper(c) == IsInRange(c, 65, 90)
IsLower(c) == IsInRange(c, 97, 122)
IsDigit(c) == IsInRange(c, 48, 57)
IsAlpha(c) == IsUpper(c) \/ IsLower(c)
IsAlnum(c) == IsAlpha(c) \/ IsDigit(c)
IsSpace(c) == c \in {32, 9, 10, 13, 12, 11}
IsXdigit(c) == IsDigit(c) \/ IsInRange(c, 65, 70) \/ IsInRange(c, 97, 102)
IsPrint(c) == IsInRange(c, 32, 126)
IsCntrl(c) == c < 32 \/ c = 127
IsPunct(c) == \/ IsInRange(c, 33, 47) \/ IsInRange(c, 58, 64)
              \/ IsInRange(c, 91, 96) \/ IsInRange(c, 123, 126)
IsGraph(c) == IsInRange(c, 33, 126)
IsBlank(c) == c \in {32, 9}

ToUpper(c) == IF IsLower(c) THEN c - 97 + 65 ELSE c
ToLower(c) == IF IsUpper(c) THEN c - 65 + 97 ELSE c

\* The flags of _ctype_: upper, lower, digit, space, punctuation, control,
\* blank and hexadecimal; entry -1, for EOF, is empty.
CtypeFlags(c) ==
  CASE c \in 65..70 -> {"U", "X"}
    [] c \in 71..90 -> {"U"}
    [] c \in 97..102 -> {"L", "X"}
    [] c \in 103..122 -> {"L"}
    [] c \in 48..57 -> {"N", "X"}
    [] c \in {32, 9} -> {"S", "B"}
    [] c \in 10..13 -> {"S"}
    [] c \in 0..8 \cup 14..31 \cup {127} -> {"C"}
    [] c \in 33..47 \cup 58..64 \cup 91..96 \cup 123..126 -> {"P"}
    [] OTHER -> {}

\* The functions by their names, and the flags that stand for each of them.
Class(fn, c) ==
  CASE fn = "isupper" -> IsUpper(c)   [] fn = "islower" -> IsLower(c)
    [] fn = "isdigit" -> IsDigit(c)   [] fn = "isalpha" -> IsAlpha(c)
    [] fn = "isalnum" -> IsAlnum(c)   [] fn = "isspace" -> IsSpace(c)
    [] fn = "isxdigit" -> IsXdigit(c) [] fn = "isprint" -> IsPrint(c)
    [] fn = "iscntrl" -> IsCntrl(c)   [] fn = "ispunct" -> IsPunct(c)
    [] fn = "isgraph" -> IsGraph(c)   [] fn = "isblank" -> IsBlank(c)

ClassFlags == [isupper |-> {"U"}, islower |-> {"L"}, isdigit |-> {"N"},
               isalpha |-> {"U", "L"}, isalnum |-> {"U", "L", "N"},
               isspace |-> {"S"}, isxdigit |-> {"N", "X"},
               isprint |-> {"P", "U", "L", "N", "B"}, iscntrl |-> {"C"},
               ispunct |-> {"P"}, isgraph |-> {"P", "U", "L", "N"},
               isblank |-> {"B"}]

ByTable(fn, c) == CtypeFlags(c) \cap ClassFlags[fn] # {}
=============================================================================

CONSTANTS
  Radix = 14
  Printable = {6, 7, 8, 9}
  LenLimit = 14
  PtrMin = 14
  Window = 8
  HeapBase = 140
  HeapEnd = 160
  Align = 8
  Guest <- MCGuest
  Objects <- MCObjects
  Texts <- MCTexts
  This = 48
  Leftover <- MCLeftover
  Drawn = {6}
  MaxEdits = 3
  MaxCalls = 1
SPECIFICATION Spec
INVARIANTS
  TypeOK
  StringsReadBack
  KeyCaptured
  SignatureFollowsKey
CHECK_DEADLOCK FALSE

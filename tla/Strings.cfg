CONSTANTS
  Char <- MCChar
  Mapped <- MCMapped
  HeapBase = 20
  HeapEnd = 30
  Memories <- MCMemories
  StrMax = 4
  CmpMax = 3
  OpMax = 4
  RegSize = 512
  Align = 4
  Pointers <- MCPointers
  Sizes = {0, 1, 2, 3, 4, 511}
  Radix = 3
  WideMax = 3
SPECIFICATION AllSpec
INVARIANTS
  TypeOK
  LibcBehavesAsC
CHECK_DEADLOCK FALSE

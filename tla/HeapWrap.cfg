CONSTANTS
  Modulus = 2048
  HeapBase = 160
  HeapSize = 384
  Sizes = {1, 24, 2032}
  FixedSizes = {40}
  MaxBlocks = 4
SPECIFICATION Spec
INVARIANTS
  BlocksInHeap

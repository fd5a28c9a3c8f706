CONSTANTS
  Name <- MCName
  Addr <- MCAddr
  File <- MCFile
  PageSize = 8
  LoadELFBase = 32
  LowBase = 32
  VTableNames = {"_ZTVStack", "_ZTVHidden"}
  StringGlobals = {"s"}
  StackChkGuard = "__stack_chk_guard"
  Ctype = "_ctype_"
  CanaryAddr = 200
  CtypeAddr = 201
  EmptyStringData = 202
  Priority <- MCPriority
  Wishes <- MCWishes
SPECIFICATION Spec
INVARIANTS
  TypeOK
  PointersMatchNames
  SlotsAgree
  FileContentKept
  ImportsAreSymbols
  

CONSTANTS
  Modulus = 2048
  HeapBase = 160
  HeapSize = 384
  Sizes = {0, 1, 3, 15, 16}
  FixedSizes = {4, 40, 256}
  MaxBlocks = 3
  MaxEmulators = 2
  MockObj = 4000
  JniFirst <- MCJniFirst
  JniGiven <- MCJniGiven
  JniClasses = {"C"}
  JniMethods = {"m()V", "n()I"}
  JniFields = {"f:I"}
  JniTexts = {2}
  JniLengths = {9}
  MaxRefs = 3
  FileBase = 4
  SocketBase = 5
  ChosenFDs = {1, 4, 6}
  Paths = {"/etc/hosts"}
  MaxDescriptors = 4
  KeyVars = 2
  TlsValues = {7, 8}
  OnceControls = {1}
  MaxThreads = 2
  MaxKeys = 3
  GuardVars = {"g", "h"}
  DlFirst = 1000
  DlStep = 100
  DlsymBase = 3000
  SymbolSizes = {5}
  MaxOpens = 2
  Hosts = {"", "host"}
  Services <- MCServices
  Ports = {443}
  IPs <- MCIPs
  Families = {2, 10}
  PeerBuf = 33
  MaxCaptured = 2
  EnvNames = {"PATH", "OTHER"}
  EnvValues = {3}
  EnvDefaults <- MCEnvDefaults
  Programs <- MCPrograms
SPECIFICATION ServicesSpec
INVARIANTS
  ServicesTypeOK
  BlocksDisjoint
  TlsReadsBack
  StaticsInitialised
  CapturedAsMeant
PROPERTIES
  FreshBlocksSpec
  HandlesSpec
CHECK_DEADLOCK FALSE

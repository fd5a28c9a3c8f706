CONSTANTS
  Emulator = {e1, e2}
  NoEmu = none
  Name <- MCName
  Addr <- MCAddr
  Binary <- MCBinary
  Registered = {"malloc", "memcpy"}
  Detectors <- MCDetectors
  Jni = "jni"
  Mock = "internal-mock"
  Triggers <- MCTriggers
  Claims <- MCClaims
  InstallFallbacks = TRUE
  MaxInstalls = 1
SPECIFICATION Spec
INVARIANTS
  ClaimedImportsHooked

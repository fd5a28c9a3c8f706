CONSTANTS
  NoLine = none
  ChanCap = 1
  BufCap = 2
  StdoutMayFail = TRUE
  HookKinds <- MCHookKinds
  MaxEvents = 2
  MaxShown = 2
  MaxCount = 3
SPECIFICATION FairSpec
INVARIANTS
  TypeOK
  EventsOnTheirLine
  EventsAccounted
  EveryInstructionShown
  KeysReported
  ReportAfterTrace
PROPERTIES
  StopIsFinal
  StoppedIsReported
  PrinterSpec

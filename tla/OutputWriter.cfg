CONSTANTS
  Line = {l1, l2}
  NoLine = none
  ChanCap = 2
  BufCap = 3
  MaxLines = 4
  StdoutMayFail = TRUE
SPECIFICATION FairSpec
INVARIANTS
  TypeOK
  StdoutInOrder
  NothingLeftAfterClose
PROPERTIES
  DropsOnlyWhenBehind
  CloseReturns
  AcceptedIsShown
  LogSpec

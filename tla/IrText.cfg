SPECIFICATION Spec
CONSTANTS
  Funcs <- MCFuncs
  Edited <- MCEdited
  Spares <- MCSpares
  Offsets <- MCOffsets
  Scraps <- MCScraps
INVARIANTS
  PrintedReadsBack
  AcceptedIsRead
  BadTextIsReported
  ScannerReadsAll
CHECK_DEADLOCK FALSE

\* The command thread of katara-ir debug with the observer it installs.
SPECIFICATION FairSessionSpec
CONSTANTS
  MaxDepth = 3
  Observers = {"exit_code"}
INVARIANTS
  NoHandlerFails
  PrintedFrameExists
  DestroyedAtRest
PROPERTY
  WaitsEndOrMeetObserver
\* The session ends, or deadlocks as ObserverMeetsJoin says.
CHECK_DEADLOCK FALSE

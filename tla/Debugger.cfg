\* The debugger under a client that makes any call in any order, with the
\* observer of debugger_test.cc, which takes no lock.
SPECIFICATION FairSpec
CONSTANTS
  MaxDepth = 3
  Observers = {"quiet"}
INVARIANTS
  DriverMatchesState
  PauseIsPrompt
  ObserverCalledOnce
  NoLostWakeUp
PROPERTIES
  AwaitReturns
  ImplementsProgramControl
\* A client that called fail(), or that awaits a state nobody will reach, has
\* stopped.
CHECK_DEADLOCK FALSE

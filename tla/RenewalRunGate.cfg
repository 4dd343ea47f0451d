\* No crash, and enough clicks to lose every attempt to record an event.
CONSTANTS
  Procs = {p1, p2}
  NumActions = 2
  MaxVersion = 1
  MaxTries = 3
  MaxInputs = 6
  MaxCrashes = 0
SPECIFICATION FairSpec
CHECK_DEADLOCK FALSE
PROPERTIES
  ImplementsGate
  ExecutionSettles

\* One execution loop that dies once, and is restarted.
CONSTANTS
  Requests = {r1}
  Clients = {c1}
  Runners = {x1}
  MaxNumber = 3
  MaxTaken = 0
  MaxTries = 5
  MaxInputs = 3
  MaxRetries = 0
  MaxCrashes = 1
SPECIFICATION FairSpec
CHECK_DEADLOCK FALSE
PROPERTY InterruptedExecutionResumes

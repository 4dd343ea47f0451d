\* One execution loop, one call that fails: a second invoice number.
CONSTANTS
  Requests = {r1}
  Clients = {c1}
  Runners = {x1}
  MaxNumber = 3
  MaxTaken = 0
  MaxTries = 5
  MaxInputs = 4
  MaxRetries = 1
  MaxCrashes = 1
SPECIFICATION Spec
CHECK_DEADLOCK FALSE
INVARIANT OneNumberPerRenewal

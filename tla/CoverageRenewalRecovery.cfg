\* One renewal, two racing execution loops, one crash and one retry.
CONSTANTS
  Requests = {r1}
  Clients = {c1}
  Runners = {x1, x2}
  MaxNumber = 4
  MaxTaken = 0
  MaxTries = 2
  MaxInputs = 4
  MaxRetries = 1
  MaxCrashes = 1
SPECIFICATION Spec
SYMMETRY HandlerSymmetry
CHECK_DEADLOCK FALSE
INVARIANTS
  IssuedDocumentsExist
PROPERTIES
  ClosedStays

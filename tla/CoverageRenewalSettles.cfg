\* One renewal, two callers and two racing execution loops, no crash; attempts and
\* numbers few enough to run out.
CONSTANTS
  Requests = {r1}
  Clients = {c1, c2}
  Runners = {x1, x2}
  MaxNumber = 2
  MaxTaken = 2
  MaxTries = 2
  MaxInputs = 4
  MaxRetries = 0
  MaxCrashes = 0
SPECIFICATION FairSpec
CHECK_DEADLOCK FALSE
PROPERTIES
  ExecutionSettles
  RequestIsReviewed

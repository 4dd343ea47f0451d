\* Two renewals, two callers and two racing execution loops.
CONSTANTS
  Requests = {r1, r2}
  Clients = {c1, c2}
  Runners = {x1, x2}
  MaxNumber = 3
  MaxTaken = 0
  MaxTries = 2
  MaxInputs = 6
  MaxRetries = 0
  MaxCrashes = 0
SPECIFICATION Spec
SYMMETRY HandlerSymmetry
CHECK_DEADLOCK FALSE
INVARIANTS
  TypeOK
  IssuedByTwoPeople
  NumbersNeverShared
PROPERTIES
  DecisionsStand
  ImplementsPromise

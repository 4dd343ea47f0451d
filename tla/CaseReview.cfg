\* Two tabs, four commands, one more than a review takes, one lost answer.
CONSTANTS
  Tabs = {t1, t2}
  Commands = {k1, k2, k3, k4}
  MaxRevision = 3
  MaxInputs = 5
  MaxCrashes = 1
SPECIFICATION Spec
CHECK_DEADLOCK FALSE
INVARIANTS
  TypeOK
  AckedCommandsKept
  AuditReplays
PROPERTIES
  ClosedForGood

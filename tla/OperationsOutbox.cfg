\* Two loops, two cases and one of another authority, two faults.
CONSTANTS
  Cases = {c1, c2}
  Foreign = {f1}
  Dispatchers = {d1, d2}
  Limit = 2
  MaxFaults = 2
SPECIFICATION FairSpec
CHECK_DEADLOCK FALSE
INVARIANTS
  TypeOK
  AtMostOneCard
PROPERTIES
  ImplementsNotice
  EveryCaseSettles

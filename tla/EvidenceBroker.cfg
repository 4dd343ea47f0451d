\* Two roles, two concurrent calls, one fault, a registry that changes once.
CONSTANTS
  Roles = {r1, r2}
  Callers = {c1, c2}
  Controller = k
  Evidence = {e1, e2}
  NoPiece = NoPiece
  MaxCalls = 2
  MaxTries = 2
  MaxSource = 2
  MaxFaults = 1
SPECIFICATION Spec
SYMMETRY Symmetric
CHECK_DEADLOCK FALSE
INVARIANTS
  TypeOK
  OneToolAtATime
PROPERTIES
  AcceptedEvidenceIsWhole
  ImplementsPermit

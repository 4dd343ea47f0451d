\* Two concurrent handlers, two brief versions, one crash.
CONSTANTS
  Procs = {p1, p2}
  NumActions = 2
  MaxVersion = 2
  MaxTries = 2
  MaxInputs = 6
  MaxCrashes = 1
SPECIFICATION Spec
SYMMETRY ProcSymmetry
CHECK_DEADLOCK FALSE
INVARIANTS
  TypeOK
  AtMostOnce
  ConsentedEffects
  DecisionBindsPackage
  InManifestOrder
  OutcomeOnRecord
  SoleExecutor
PROPERTIES
  ApprovedPackageFrozen
  OutcomeIsFinal
  ReceiptsKept

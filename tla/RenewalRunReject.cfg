\* Approve, die before executing, then click Reject on the same card.
CONSTANTS
  Procs = {p1, p2}
  NumActions = 2
  MaxVersion = 1
  MaxTries = 5
  MaxInputs = 5
  MaxCrashes = 1
SPECIFICATION Spec
SYMMETRY ProcSymmetry
CHECK_DEADLOCK FALSE
INVARIANT RejectMakesNoWrites

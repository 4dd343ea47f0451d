\* Two handlers, two identifiers, a registry that changes twice; the messages differ by the
\* message they answer.
CONSTANTS
  Ids = {i1, i2}
  Procs = {p1, p2}
  Equipment = {e1}
  Artifacts = {a1, a2}
  NoArtifact = NoArtifact
  Texts = {t1}
  MaxTurns = 2
  MaxInputs = 3
  MaxWorld = 3
  MaxCrashes = 1
SPECIFICATION Spec
SYMMETRY Symmetric
CHECK_DEADLOCK FALSE
INVARIANTS
  TalkTypeOK
  ReleasedOnCurrentFacts
  EveryReleaseAudited
  OneReply
PROPERTIES
  CaseHistoryKept
  StartedAsProposed
  ImplementsRelease

\* Three participants, two concurrent coordinator fibers, every fault but the
\* audited resolution (Recovery.cfg and the proofs have it).
CONSTANTS
  Shards = {s1, s2, s3}
  Fibers = {f1, f2}
  MaxResolutions = 0
SPECIFICATION Spec
SYMMETRY Symmetry
INVARIANTS
  TypeOK
  AtomicOutcome
  CommitIsAuthorized
  OneAuthorization
  RecordsAreTrue
  NoSpuriousQuarantine
  DecidedWorkIsQueued
PROPERTIES
  LegalSteps

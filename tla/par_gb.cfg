\* Two workers on a three-variable ideal: the answer and the insertion protocol.
CONSTANTS
  NVars = 3
  P = 3
  NumThreads = 2
  Inputs <- InputsThreeVars
  MayCancel = FALSE
  MayPanic = FALSE
SPECIFICATION Spec
INVARIANTS
  TypeOK
  SnapshotFresh
  ActiveAntichain
  DivisorKept
  SugarBoundsDegree
  ResultIsReducedBasis
PROPERTIES
  NewPairsAreYoungest
  LeadersGrow

\* A worker's panic and the join that waits for the others.
CONSTANTS
  NVars = 2
  P = 3
  NumThreads = 2
  Inputs <- InputsSmall
  MayCancel = FALSE
  MayPanic = TRUE
SPECIFICATION FairSpec
PROPERTIES
  PanicPropagates

\* Two workers under weak fairness; the cancel flag may be raised at any moment.
CONSTANTS
  NVars = 2
  P = 3
  NumThreads = 2
  Inputs <- InputsCrossed
  MayCancel = TRUE
  MayPanic = FALSE
SPECIFICATION FairSpec
PROPERTIES
  Termination

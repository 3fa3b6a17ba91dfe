\* Three workers whose reductions may panic, and a flag that may be raised: the
\* accounting of work in flight, the way out of the loop, and what is returned.
CONSTANTS
  NVars = 2
  P = 3
  NumThreads = 3
  Inputs <- InputsCrossed
  MayCancel = TRUE
  MayPanic = TRUE
SPECIFICATION Spec
INVARIANTS
  InFlightExact
  PanicNeverOk
PROPERTIES
  CancelHonoured
  ImplementsPool

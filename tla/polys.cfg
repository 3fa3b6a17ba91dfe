\* Two calls on every pair of six polynomials with each backend.
CONSTANTS
  NVars = 1
  P = 3
  InitialPolys <- SomePolys
  Multipliers <- Powers
  TermSeqs <- SomeTermSeqs
  MaxDeg = 2
  MaxCalls = 2
SPECIFICATION BackendsSpec
INVARIANTS
  NodesOwnedOnce
  Canonical
  BackendsAgree
PROPERTIES
  ImplementsValues

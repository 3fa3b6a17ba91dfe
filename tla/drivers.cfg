\* Two drivers, both reducers, forty-seven input sequences; a short exponent
\* vector of two bits, registers of two entries, two registers a turn.
CONSTANTS
  NVars = 3
  P = 3
  SevBits = 2
  Lanes = 2
  Unroll = 2
  InputSeqs <- InputSeqsOrdered
SPECIFICATION DriversSpec
INVARIANTS
  SugarBoundsDegree
  ResultIsReducedBasis
  HarvestedFromEchelon
  ValidatorAgrees
  ScansExact
PROPERTIES
  LeadersAlwaysNew
  CallReturns

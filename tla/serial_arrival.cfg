\* The arrival numbers of the serial driver and the order on sugar ties.
CONSTANTS
  NVars = 3
  P = 3
  SevBits = 2
  Lanes = 2
  Unroll = 2
  InputSeqs <- InputSeqsStamped
SPECIFICATION DriversSpec
INVARIANTS
  OlderFirst

\* Three variables in two words of three fields of three bits: one variable in
\* the lower word, two in the upper one, two fields left over, and a degree byte
\* that saturates at seven of at most nine.
CONSTANTS
  NVars = 3
  BITS_PER_VAR = 3
  BYTES = 3
  W = 2
  SEV_BITS = 2
SPECIFICATION Spec
INVARIANTS
  TypeOK
  OrdersSound
PROPERTY ImplementsExact

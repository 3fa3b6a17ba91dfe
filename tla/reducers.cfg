\* Each reducer, and the geobucket alone, against the exact polynomial.
CONSTANTS
  NVars = 2
  P = 3
  NUM_SLOTS = 3
  SLOT_BASE = 2
  Multipliers <- Powers
  Subtrahends <- SomePolys
  MaxDeg = 2
  Bases <- SomeBases
  WorkObjects <- SomeObjects
  Nothing = Nothing
SPECIFICATION ReducersSpec
INVARIANTS
  TypeOK
  HeapSound
PROPERTIES
  BucketImplementsAccumulator
  CascadeShrinks
  HeapImplementsNormalForm
  GeobucketImplementsLeadingForm

\* Four insertions over eight pairs, with deletions and pops at any point.
CONSTANTS
  Index <- Indices
  Pair <- SomePairs
  NoPair = NoPair
  MaxInserts = 4
SPECIFICATION Spec
INVARIANTS
  Canonical
PROPERTIES
  ImplementsQueue

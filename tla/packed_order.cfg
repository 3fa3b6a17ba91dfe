\* The same words; monomials of equal degree at or above the cap.
CONSTANTS
  NVars = 3
  BITS_PER_VAR = 3
  BYTES = 3
  W = 2
  SEV_BITS = 2
SPECIFICATION Spec
INVARIANT GradedRevLex

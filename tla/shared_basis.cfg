\* Three threads that push, search and fetch; two insertions.
CONSTANTS
  NVars = 1
  Thread = {t1, t2, t3}
  Leaders <- Powers
  MaxInserts = 2
  Nobody = Nobody
  Nothing = Nothing
  AllFlags = AllFlags
SPECIFICATION Spec
INVARIANTS
  TypeOK
  InSync
  NoCircularWait
PROPERTIES
  ImplementsAtomic
  OperationsEnd

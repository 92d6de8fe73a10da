CONSTANTS
  p1 = p1
  p2 = p2
  p3 = p3
  Procs <- MCProcs
  Nobody = Nobody
  MaxAttempts = 3
SPECIFICATION FairSpec
INVARIANTS
  TypeOK
  MutualExclusion
PROPERTIES
  CallsEnd
CHECK_DEADLOCK FALSE

CONSTANTS
  i1 = i1
  Calls <- MCCalls
  Window = 1
  MaxDelay = 0
  MaxTime = 2
  MaxProcs = 2
  MaxPosts = 2
SPECIFICATION Spec
INVARIANTS
  RunsOnce
  MindedRunsOnce

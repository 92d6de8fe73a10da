CONSTANTS
  UpRoom = 2
  MaxFaults = 1
  RingCap = 1
  MaxDeltas = 3
  MaxAttaches = 1
SPECIFICATION FairSpec
PROPERTIES
  WholeRuns
  StreamFound
CHECK_DEADLOCK FALSE

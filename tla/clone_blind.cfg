CONSTANTS
  UpRoom = 1
  MaxFaults = 1
  RingCap = 1
  MaxDeltas = 1
  MaxAttaches = 1
SPECIFICATION FairSpec
PROPERTIES
  ToldInTheEnd
CHECK_DEADLOCK FALSE

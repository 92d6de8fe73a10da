CONSTANTS
  DownCap = 3
  RingCap = 2
  UpCap = 5
  MaxNews = 2
  MaxFaults = 1
SPECIFICATION FairSpec
PROPERTIES
  NoEventMissing
  CatchesUp
CHECK_DEADLOCK FALSE

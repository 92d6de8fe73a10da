CONSTANTS
  LineEnds <- MCLineEnds
  Jsonl = TRUE
  ChunkMax = 2
  RingMax = 2
  QueueMax = 2
  MaxLen = 3
  MaxFiles = 2
  MaxFaults = 1
SPECIFICATION FairSpec
INVARIANTS
  TypeOK
  StoresOneFile
  AckedIsStored
  GateMeansStored
PROPERTIES
  CatchesUp
  GateOpens
CHECK_DEADLOCK FALSE

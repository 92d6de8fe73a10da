CONSTANTS
  LineEnds <- MCLineEnds
  Jsonl = TRUE
  ChunkMax = 2
  RingMax = 2
  QueueMax = 2
  MaxLen = 3
  MaxFiles = 3
  MaxFaults = 0
SPECIFICATION Spec
INVARIANT ByteIdentical
CHECK_DEADLOCK FALSE

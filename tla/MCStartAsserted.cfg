CONSTANTS
  MaxFaults = 1
  Reentrant = FALSE
  HeaderSize = 1
  MaxByte = 1
  MaxRead = 2
  MaxChildren = 2
  MaxForkFailures = 0
  Streams <- TwoPackets
  ReentrantOps <- AllReentrantOps
SPECIFICATION SysSpec
INVARIANT
  StartAsserted

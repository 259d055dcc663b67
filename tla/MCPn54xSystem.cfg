CONSTANTS
  MaxFaults = 1
  Reentrant = TRUE
  HeaderSize = 1
  MaxByte = 1
  MaxRead = 2
  MaxChildren = 2
  MaxForkFailures = 1
  Streams <- TwoPackets
  ReentrantOps <- AllReentrantOps
SPECIFICATION SysSpec
INVARIANTS
  PoweredCoreHears
  NoReaderWithoutPower
  RestartFindsNoReader
  NothingOutlivesAdapter

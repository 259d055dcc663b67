\* Header of one octet, octets 0..2, padding 2: packets of 1 and 2 octets.
CONSTANTS
  HeaderSize = 1
  MaxByte = 2
  MaxRead = 2
  MaxChildren = 2
  MaxStream = 4
  MaxForkFailures = 1
  Streams <- SmallStreams
  ReentrantOps <- AllReentrantOps
SPECIFICATION Spec
INVARIANTS
  TypeOK
  OneReader
  StopQuiesces
  NeverSilentlyDeaf
  DescriptorsAccounted
  CompletionOwed
  DeliveredGenuine
PROPERTIES
  DeathNoticed
  EverythingDelivered
  WriteResolved

\* Header of two octets, octets 0..2, padding 2: packets of 2, 3 and 4 octets.
CONSTANTS
  HeaderSize = 2
  MaxByte = 2
  MaxStream = 7
  MaxRead = 4
  Streams <- AllStreams
SPECIFICATION Spec
INVARIANTS
  TypeOK
  ResidueIncomplete
  PendingIsTail
  DeliveredIsReference
PROPERTIES
  AllPacketsDelivered
  ImplementsPacketStream
\* The driver has nothing more to say at the end of the stream.
CHECK_DEADLOCK FALSE

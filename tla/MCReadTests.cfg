\* The program's own constants.
CONSTANTS
  HeaderSize = 3
  MaxByte = 255
  MaxRead = 54
  Streams <- TestStreams
SPECIFICATION Spec
INVARIANTS
  TestOutcomes
\* The driver has nothing more to say at the end of the stream.
CHECK_DEADLOCK FALSE

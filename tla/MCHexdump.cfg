\* Five lines, the last one shorter.
CONSTANTS
  Octets = { 0, 255 }
  Pad = 255
  LineSize = 2
  MaxLen = 9
SPECIFICATION Spec
INVARIANTS
  LogIsComplete
  BoringOnlyOnce

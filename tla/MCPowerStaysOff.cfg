\* The failure to switch off, and one to switch on: without the second the
\* request for power off would change nothing.
CONSTANTS
  MaxFaults = 2
  Reentrant = FALSE
SPECIFICATION Safety
PROPERTIES
  PowerStaysOff

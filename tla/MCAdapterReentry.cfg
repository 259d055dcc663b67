\* A base class that makes its next request from inside the notification.
CONSTANTS
  MaxFaults = 1
  Reentrant = TRUE
SPECIFICATION Spec
INVARIANTS
  RequestAsserted
  NotifiedMatches
  UnneededIsOff
PROPERTIES
  RequestResolved

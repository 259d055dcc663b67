CONSTANTS
  MaxFaults = 2
  Reentrant = FALSE
SPECIFICATION Spec
INVARIANTS
  TypeOK
  UnneededIsOff
  PendingAgrees
  NotifiedMatches
  ChipFollows
  AnsweredOnce
PROPERTIES
  OffOnlyWhenUnused
  RequestResolved
  ImplementsPowerContract

\* Two adapters still held after two stops, and the one of the next start.
CONSTANTS
  Adapters = { a1, a2, a3 }
  NULL = NULL
  MaxHolds = 2
SPECIFICATION Spec
INVARIANTS
  TypeOK
  HeldByItsUsers
  ListsOurs
PROPERTIES
  StoppedIsFinalized

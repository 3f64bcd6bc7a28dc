SPECIFICATION Spec
CONSTANTS
  b1 = b1
  b2 = b2
  b1x = b1x
  MaxRootRotations = 2
  Proc = {p1}
  Requests <- SafetyRequests
  Admission <- MCAdmission
  Marked = TRUE
  TicksPerSecond = 2
  MaxTime = 3
  Faults = TRUE
INVARIANTS
  TypeOK
  PointersResolve
  HistoricalAvailable
  JournalMatchesStore
  JournalResumable
  ExactRetryImports
  ReadyIsServable
PROPERTIES
  FloorsMonotone
  ServedMonotone
  ReceiptTruthful
  ImplementsRegister

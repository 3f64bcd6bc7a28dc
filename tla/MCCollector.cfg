SPECIFICATION Spec
CONSTANTS
  Limit = 3
  MaxWritten = 5
  N = 2
  BaseQueries <- MCBaseQueries
  CertQueries <- MCCertQueries
  CRDs <- MCCRDs
  PageLimit = 2
  MaxPages = 3
  MaxItems = 3
  PageBudget = 2
  ReadTimeout = 1
  MaxEdits = 1
CHECK_DEADLOCK FALSE
INVARIANTS
  GroupReaped
  SnapshotNotTorn
  NothingSilentlyMissing
  ListOfOneVersion
  LeavesNothingBehind
PROPERTIES
  RunIsBounded
  CallsEnd

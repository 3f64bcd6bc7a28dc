SPECIFICATION LiveSpec
CONSTANTS
  b1 = b1
  b2 = b2
  b1x = b1x
  MaxRootRotations = 2
  Proc = {p1}
  Requests <- RecoveryRequests
  Admission <- MCAdmission
  Marked = FALSE
  TicksPerSecond = 1
  MaxTime = 2
  Faults = FALSE
PROPERTY
  Recovers

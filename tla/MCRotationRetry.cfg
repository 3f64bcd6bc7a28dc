SPECIFICATION Spec
CONSTANTS
  b1 = b1
  b2 = b2
  b1x = b1x
  MaxRootRotations = 2
  Proc = {p1}
  Requests <- RotationRequests
  Admission <- MCAdmission
  Marked = FALSE
  TicksPerSecond = 2
  MaxTime = 1
  Faults = FALSE
INVARIANT
  ExactRetryImports

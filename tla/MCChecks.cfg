SPECIFICATION Spec
CONSTANTS
  Nil = Nil
  Bad = Bad
  Empty = Empty
  MaxItems = 2
  MaxCount = 2
  Adapters <- MCAdapters
  MaxPart = 3
  Edge <- MCEdge
  Registry <- MCRegistry
  MaxComponents = 2
  MaxFacts = 1
  MaxRules = 2
  MaxSources = 1
  MaxConditions = 1
  MaxLine = 2
  MaxDeclaredArgvTokens = 6
  CoreDNSMaxNesting = 2
  Landscape = {1, 2, 3}
  MaxReviewWindow = 2
  MaxRequiredFacts = 2
  MaxBatch = 2
INVARIANTS
  SurfaceFailsClosed
  NoItemDropped
  RangesSound
  ScopeVerdictSound
  GateAgrees
  PreparationFailsClosed
  ObservationSound
  VerdictsTruthful
\* Each computation ends in its answer.
CHECK_DEADLOCK FALSE

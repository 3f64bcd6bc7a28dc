SPECIFICATION Spec
CONSTANTS
  MaxFaults = 2
  MaxEdits = 2
  Artifacts <- MCArtifacts
  Workflow <- MCWorkflow
  Marked <- MCMarked
  DecisionReport = 3
  DecisionRun <- MCDecisionRun
  DemoBoundary = 4
  Reports <- MCReports
  MinRunArtifacts = 2
  MaxRunArtifacts = 4
  TreeFiles = 3
  MaxSourceEdits = 3
  Targets = {"amd64", "arm64"}
  Revisions <- MCRevisions
  Epoch <- MCSame
  Legal <- MCSame
  Keys = {1, 2}
  Templates <- MCTemplates
  Bundles = {"b1", "b2"}
  MaxRootVersion = 2
  MaxPrepares = 4
  MaxEntries = 6
CHECK_DEADLOCK FALSE
INVARIANTS
  NoIncompleteRoot

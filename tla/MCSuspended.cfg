\* One agent run, two workers that may be suspended inside a repository call.
SPECIFICATION Spec
CONSTANTS
  Runs <- OneRun
  AgentRuns <- OneRun
  Workers = {w1, w2}
  NoWorker = NoWorker
  NoArtifact = NoArtifact
  LeaseTTL = 1
  SourceOutcomes <- PackageOnly
  DraftOutcomes <- FewDrafts
  BaselineOutcomes <- AnyBaseline
  PromptCommits = FALSE
  FaultsPossible = FALSE
  CrashesPossible = FALSE
INVARIANTS
  OnlyReviewedDraftsAdvance
PROPERTIES
  PinsArePermanent
  ReviewedRecordFrozen
SYMMETRY WorkerSymmetry
CHECK_DEADLOCK FALSE

\* One worker, drafts that pass or need a revision.
SPECIFICATION Spec
CONSTANTS
  Runs <- OneRun
  AgentRuns <- OneRun
  Workers = {w1}
  NoWorker = NoWorker
  NoArtifact = NoArtifact
  LeaseTTL = 1
  SourceOutcomes <- PackageOnly
  DraftOutcomes <- Revisable
  BaselineOutcomes <- AnyBaseline
  PromptCommits = TRUE
  FaultsPossible = FALSE
  CrashesPossible = FALSE
INVARIANTS
  BlockedOnlyWhenExhausted
CHECK_DEADLOCK FALSE

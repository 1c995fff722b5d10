\* An agent run and a baseline run share two workers; a worker whose lease lapses dies.
SPECIFICATION FairSpec
CONSTANTS
  Runs <- TwoRuns
  AgentRuns <- OneRun
  Workers = {w1, w2}
  NoWorker = NoWorker
  NoArtifact = NoArtifact
  LeaseTTL = 1
  SourceOutcomes <- PackageOnly
  DraftOutcomes <- PassOnly
  BaselineOutcomes <- AnyBaseline
  PromptCommits = TRUE
  FaultsPossible = FALSE
  CrashesPossible = FALSE
INVARIANTS
  RecordComplete
PROPERTIES
  RunsSettle
CHECK_DEADLOCK FALSE

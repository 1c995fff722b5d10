\* Nothing goes wrong but a crash, and the run is blocked.
SPECIFICATION CrashSpec
CONSTANTS
  Runs <- OneRun
  AgentRuns <- OneRun
  Workers = {w1, w2}
  NoWorker = NoWorker
  NoArtifact = NoArtifact
  LeaseTTL = 1
  SourceOutcomes <- PackageOnly
  DraftOutcomes <- PassOnly
  BaselineOutcomes <- AnyBaseline
  PromptCommits = TRUE
  FaultsPossible = FALSE
  CrashesPossible = TRUE
INVARIANTS
  ContinuesAfterCrash
CHECK_DEADLOCK FALSE

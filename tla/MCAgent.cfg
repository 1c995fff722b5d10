\* One agent run, two workers, every outcome, faults and crashes.
SPECIFICATION Spec
CONSTANTS
  Runs <- OneRun
  AgentRuns <- OneRun
  Workers = {w1, w2}
  NoWorker = NoWorker
  NoArtifact = NoArtifact
  LeaseTTL = 2
  SourceOutcomes <- AnySource
  DraftOutcomes <- AnyDraft
  BaselineOutcomes <- AnyBaseline
  PromptCommits = TRUE
  FaultsPossible = TRUE
  CrashesPossible = TRUE
INVARIANTS
  TypeOK
  LogTellsHistory
  OnlyReviewedDraftsAdvance
  RecordComplete
  NoLeakedLease
  ModelCallsBounded
PROPERTIES
  RefinesLifecycle
  OnlyHolderMoves
  ReviewedRecordFrozen
SYMMETRY WorkerSymmetry
CHECK_DEADLOCK FALSE

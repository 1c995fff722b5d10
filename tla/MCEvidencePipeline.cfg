SPECIFICATION Spec
CONSTANTS
  Areas = {"a1", "a2", "a3"}
  Sources = {"cems", "dossier"}
  CemsSource = "cems"
  None = None
  CaseId = "case"
  OtherCase = "other"
  Terms <- MCTerms
  ActionIds = {"x", "y", "z"}
  MaxActions = 2
  Placed <- MCPlaced
  Inside <- MCInside
  Vague <- MCVague
  RunId = "run"
  Manifest <- MCManifest
  EditedFiles <- MCEditedFiles
  Activations <- MCActivations
  Answers <- MCAnswers
  Adjudications <- MCAdjudications
  Texts <- MCTexts
INVARIANTS
  TypeOK
  CitationsHold
  AreasAccounted
  UncertaintyShown
  ScoreIsOfTheFrozenCase
CHECK_DEADLOCK FALSE

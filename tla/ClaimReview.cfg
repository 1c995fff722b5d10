\* Nothing fails; the reviewer selects another run and submits the form.
SPECIFICATION Spec
CONSTANTS
  Runs = {a, b}
  NoRun = NoRun
  Sourced = 2
  Steps = 2
  MaxRequests = 2
  MaxSelections = 2
  MaxReviews = 1
  MaxFaults = 0
INVARIANTS
  DecisionsMatchDisplay
CHECK_DEADLOCK FALSE

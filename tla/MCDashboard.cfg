\* Two runs, two selections that may overlap, a review, one failure.
SPECIFICATION FairSpec
CONSTANTS
  Runs = {a, b}
  NoRun = NoRun
  Sourced = 2
  Steps = 2
  MaxRequests = 2
  MaxSelections = 2
  MaxReviews = 1
  MaxFaults = 1
INVARIANTS
  TypeOK
  DeliveredIsShown
  FeedKept
PROPERTIES
  FollowsSelection
CHECK_DEADLOCK FALSE

\* Three reviewers, two actions, two decisions; up to five reviews get stored.
SPECIFICATION Spec
CONSTANTS
  Reviewers = {r1, r2, r3}
  Actions = {a1, a2}
  Decisions = {approve, reject}
  MaxReviews = 3
INVARIANTS
  TypeOK
  VersionsFollowCommits
  AnsweredReviewsStand
  OnlyDraftsUnderReview
SYMMETRY Symmetry
CHECK_DEADLOCK FALSE

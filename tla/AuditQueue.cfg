CONSTANTS
  Summaries <- MCSummaries
  Limit = 2
  TopLimit = 1
  CostMin = 2
  Precision = 8
  None = None
  Place <- MCPlace
  MaxReviews = 3
  MaxRuns = 4
  MaxBreaks = 1
SPECIFICATION Spec
INVARIANTS NothingIsForgotten UrgentFirst FailuresStay
PROPERTY RerunChangesNothing
\* The reviews, the commands and the broken artifacts are bounded.
CHECK_DEADLOCK FALSE

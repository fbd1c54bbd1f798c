CONSTANTS
  Skills <- MCSkills
  Roots <- MCRoots
  Sessions = {a1, a2}
  Disks <- MCDisks
  Heads <- MCHeads
  FindingSets <- MCFindingSets
  Gone = Gone
  None = None
  TtlRuns = 1
  MaxReviews = 1
  MaxEdits = 1
  MaxCommands = 2
SYMMETRY SessionSymmetry
SPECIFICATION Spec
INVARIANT CountersMatchDecisions
PROPERTIES NothingIsLost ProtectedStays
\* The reviews, the edits and the commands are bounded.
CHECK_DEADLOCK FALSE

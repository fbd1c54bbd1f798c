CONSTANTS
  Reviews = {r1, r2}
  NoRun = NoRun
  RealEntry = RealEntry
  Root = Root
  LastDay = 1
  MaxTries = 1
  Faults <- AllFaults
SPECIFICATION Spec
SYMMETRY ReviewSymmetry
INVARIANTS AliasSurvivesDeletions
PROPERTIES DraftOutlivedByReport
\* Reviews and days are finite in number: every behaviour ends.
CHECK_DEADLOCK FALSE

SPECIFICATION Spec
CONSTANTS
  Files = {f, g, h}
  N = 3
  MaxFiles = 2
  MaxEdits = 1
  MaxCommands = 2
  Nothing = Nothing
SYMMETRY FileSymmetry
INVARIANTS TypeOK 
PROPERTY EarlyEditsSurvive
\* Commands and edits are finite in number: every behaviour ends.
CHECK_DEADLOCK FALSE

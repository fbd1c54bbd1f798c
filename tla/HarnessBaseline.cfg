CONSTANTS
  Names <- MCNames
  Rules <- MCRules
  Checks <- MCChecks
  Paths <- MCPaths
  Projects <- MCProjects
  Edits <- MCEdits
  Listed <- MCListed
  Barred <- MCBarred
  Kit <- MCKit
  Settings <- MCSettings
  Copies <- MCCopies
  OldCopies <- MCOldCopies
  None = None
  Unreadable = Unreadable
  Unknown = Unknown
  MaxCommands = 3
  MaxChanges = 1
SPECIFICATION Spec
INVARIANTS AlarmsLast SurfaceCoversProjection
PROPERTY BaselineSurvives
\* The commands and the changes are bounded: every behaviour ends.
CHECK_DEADLOCK FALSE

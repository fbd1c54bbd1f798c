CONSTANTS
  Kinds = {"skill", "command"}
  Edits = {"new", "bad"}
  KitTracked = {TRUE, FALSE}
  None = None
  MaxEdits = 4
  MaxCommands = 3
SPECIFICATION Spec
INVARIANT OnlyTheDraft
PROPERTIES RefusedLeavesNoCommit DraftsCountedOnce

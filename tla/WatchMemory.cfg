SPECIFICATION Spec
CONSTANTS
  Items = {a, b}
  Unversioned = {b}
  LastVersion = 2
  LastWeek = 2
  Retention = 0
  TopN = 1
  MaxOthers = 1
  MaxCommands = 3
  MaxTears = 1
INVARIANTS AcknowledgedIsRead RecurrencesAreCounted
PROPERTY IgnoredStaysHidden
CHECK_DEADLOCK FALSE

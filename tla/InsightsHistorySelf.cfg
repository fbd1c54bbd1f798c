\* A first run finds its own summary under runs/current.
CONSTANTS
  None = None
  Unreadable = Unreadable
  s1 = s1
  alpha = alpha
  beta = beta
  gamma = gamma
  grep = grep
  bash = bash
  Sessions = {s1}
  Dates <- MCDates
  Summaries <- MCSummaries
  Digests <- MCDigests
  Weeks <- MCWeeks
  Rulebooks <- MCRulebooks
  Overrides <- MCOverrides
  Ignored <- MCIgnored
  IgnoredRules = {}
  Explicit = None
  Floor = 2
  Limit = 3
  Budget = 5
  Monthly = 10
  Wow = 15
  LintMax = 0
  MonthDates = 2
  Links = TRUE
  Migrated <- MCNothing
  MaxRuns = 3
  MaxDamage = 0
  MaxCommands = 1
SPECIFICATION Spec
CHECK_DEADLOCK FALSE
INVARIANT NotWithItself

\* One week from the root, then weeks activated, refused, damaged and replayed in any
\* order between the reads of one command after the other.
CONSTANTS
  None = None
  Unreadable = Unreadable
  s1 = s1
  alpha = alpha
  beta = beta
  gamma = gamma
  grep = grep
  bash = bash
  Sessions = {s1}
  Dates <- MCDates
  Summaries <- MCSummaries
  Digests <- MCDigests
  Weeks <- MCWeeks
  Rulebooks <- MCRulebooks
  Overrides <- MCOverrides
  Ignored <- MCIgnored
  IgnoredRules = {}
  Explicit <- MCExplicit
  Floor = 2
  Limit = 3
  Budget = 5
  Monthly = 10
  Wow = 15
  LintMax = 0
  MonthDates = 2
  Links = TRUE
  Migrated <- MCMigrated
  MaxRuns = 4
  MaxDamage = 1
  MaxCommands = 3
SPECIFICATION Spec
CHECK_DEADLOCK FALSE
INVARIANTS PreviousIsOlder RetireSparesUsed RulesAreIndependent

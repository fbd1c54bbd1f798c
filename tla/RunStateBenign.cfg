CONSTANTS
  Reviews = {r1, r2, r3}
  NoRun = NoRun
  RealEntry = RealEntry
  Root = Root
  LastDay = 3
  MaxTries = 0
  Faults <- BenignFaults
SPECIFICATION FairSpec
INVARIANTS TypeOK AliasDesignatesLatestDeliverable NoLegacyFallbackAcrossMidnight RunsNeverOverwriteEachOther
PROPERTIES ImplementsDeliverableAlias FailedRunLosesAlias
\* Reviews and days are finite in number: every behaviour ends.
CHECK_DEADLOCK FALSE

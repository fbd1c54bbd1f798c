\* Three commands in any order, any of them killed at any step, against every record of
\* the JOIN and every curation manifest, while a worker still writes.
CONSTANTS
  Audits = {s1}
  Branches = {eco}
  Summary = Summary
  Timings <- MCTimings
  Summaries <- MCSummaries
  Manifests <- MCManifests
  MaxTries = 3
  Kills = TRUE
SPECIFICATION Spec
INVARIANTS TypeOK CleanRcMeansCompleteReport LateAuditStaysPartial GatesDescribeTheReport RefusedAssembleKeepsDraft
\* The commands run are bounded: every behaviour ends.
CHECK_DEADLOCK FALSE

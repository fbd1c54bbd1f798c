CONSTANTS
  Sources <- MCSources
  Local = 1
  Ids = {1, 2, 3}
  Steps = {"plan", "edit", "test", "review"}
  Turns = {"ask", "fix", "go"}
  Databases <- MCDatabases
  Configs <- MCConfigs
  MinTurns = 2
  MinRoots = 2
  MaxWarnings = 3
  MaxEdits = 2
  MaxFailures = 1
  Missing = Missing
  Gone = Gone
SPECIFICATION CollectSpec
INVARIANTS DispositionsAddUp EachStepCountsOnce IncludedIsReported GapIsTold
\* One run is one behaviour.
CHECK_DEADLOCK FALSE

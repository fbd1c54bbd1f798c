----------------------- MODULE MCTelemetryCollection -----------------------
EXTENDS TelemetryCollection

OpenCode == [harness |-> "opencode", live |-> TRUE]
Claude == [harness |-> "claude-code", live |-> FALSE]
MCSources == <<OpenCode, OpenCode, Claude>>

Work(turns, steps) ==
  [parent |-> Missing, advisor |-> FALSE, updated |-> "window", rows |-> TRUE,
   turns |-> turns, steps |-> steps, unpriced |-> {}, skewed |-> FALSE]
Nothing == [n \in Ids |-> Missing]
Week(a, b) == [n \in Ids |-> IF n = 1 THEN a ELSE IF n = 2 THEN b ELSE Missing]
Root == Work(<<"ask", "fix">>, {"plan", "edit"})
Child == [Work(<<"go">>, {"test"}) EXCEPT !.parent = 1, !.unpriced = {"test"}]
Fork == Work(<<"ask", "fix", "go">>, {"plan", "edit", "test"})
ShortFork == Work(<<"ask", "go">>, {"plan", "test"})
Skewed(s) == [s EXCEPT !.skewed = TRUE]
Active(s) == [s EXCEPT !.updated = "now"]
Silent == [NewSession EXCEPT !.updated = "window", !.rows = FALSE]
Other == [Work(<<"ask", "fix">>, {"review"}) EXCEPT !.unpriced = {"review"}]
Advisor == [Root EXCEPT !.advisor = TRUE]
MCDatabases ==
  {[h \in {"opencode", "claude-code"} |-> IF h = "opencode" THEN w ELSE c] :
     w \in {Week(Root, Child), Week(Root, Fork), Week(Skewed(Root), ShortFork), Week(Active(Root), Child), Week(Advisor, Silent)},
     c \in {Nothing}}
  \cup {[h \in {"opencode", "claude-code"} |->
           IF h = "opencode" THEN Week(Root, Missing) ELSE Week(Skewed(Other), Missing)]}
MCConfigs ==
  {[excludeActive |-> TRUE, subagents |-> TRUE, failOnMissing |-> FALSE],
   [excludeActive |-> FALSE, subagents |-> TRUE, failOnMissing |-> TRUE]}
=============================================================================

-------------------------- MODULE MCHarnessBaseline --------------------------
EXTENDS HarnessBaseline, TLC

At(r, n) == [root |-> r, name |-> n]

\* A skill and a file of the project, and a skill of another harness that the
\* project and the kit both have.
MCNames == {"review", "notes"}
MCRules == {"r1", "r2"}
MCChecks == [v1 |-> {"r1"}, v2 |-> {"r1", "r2"}]
Skill == At(".opencode/skills", "review")
Foreign == At(".github/prompts", "review")
Note == At(".github/prompts", "notes")
Script == At(".opencode/other", "notes")
MCPaths == {Skill, Foreign, Note, Script}
MCProjects == {Skill :> {"r1"} @@ Foreign :> {"r2"}, Note :> {} @@ Script :> {"r1"}}
MCEdits == {{"r1", "r2"}}
MCListed == {Skill, Note}
MCBarred == {Note}
MCKit == [skills |-> [review |-> {"r1"}], commands |-> << >>]
MCSettings == {None, {"opencode", "copilot-cli", "unheard-of"}}
MCCopies == {1, 2}
MCOldCopies == {[keys |-> {<<"r1", Skill>>}, rules |-> "v1", date |-> 0]}
=============================================================================

-------------------------- MODULE MCSkillCuration --------------------------
EXTENDS SkillCuration

SessionSymmetry == Permutations(Sessions)
MCSkills == {"lint", "doc"}
MCRoots == {".opencode/skills", ".claude/skills"}
Agent == [origin |-> "bundled", ttl |-> "decay", verified |-> TRUE]
Pinned == [origin |-> "bundled", ttl |-> "pin", verified |-> TRUE]
Unfinished == [origin |-> "bundled", ttl |-> "decay", verified |-> FALSE]
MCHeads == {Agent, Pinned, Unfinished}
Version0(h) == [stamp |-> 0] @@ h
MCDisks ==
  {[r \in MCRoots |-> [k \in MCSkills |-> IF r = ".opencode/skills" THEN Version0(Agent) ELSE Gone]]}
MCFindingSets ==
  {{}, {[skill |-> k, action |-> "archive", source |-> "coherence"] : k \in MCSkills},
   {[skill |-> "lint", action |-> "archive", source |-> "r4"],
    [skill |-> "lint", action |-> "recalibrate", source |-> "coherence"]}}
=============================================================================

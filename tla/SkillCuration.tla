---------------------------- MODULE SkillCuration ----------------------------
(***************************************************************************)
(* skill-curate (cli_skill_curate.py, curation.py, skill_surface.py,       *)
(* safe_git_write.py).  A command reads the findings of the review, the    *)
(* catalogue of its summary and the loads kept in the memory, takes one    *)
(* decision per skill, and with --apply moves the archived ones into       *)
(* _archive/<date>, one after the other, while the user goes on editing    *)
(* them and another session may run the same command.                      *)
(*                                                                         *)
(* Of a skill the model keeps its protection, whether its SKILL.md is a    *)
(* verified one, and a stamp that tells its versions apart.                *)
(***************************************************************************)
EXTENDS Integers, FiniteSets, Sequences, TLC

CONSTANTS
  Skills, Roots,   \* skill names, skill directories of the project
  Sessions,        \* agents that may run the command
  Disks,           \* the skills that the first review finds
  Heads,           \* [origin, ttl, verified]: what an edit may leave in a SKILL.md
  FindingSets,     \* coherence and R4 findings of a review
  Gone, None,      \* no skill at a place; no catalogue, no row
  TtlRuns,         \* runs_seen from which a skill that was never loaded lapses: 3
  MaxReviews, MaxEdits, MaxCommands \* bounds

ASSUME BoundsAreNaturals == {TtlRuns, MaxReviews, MaxEdits, MaxCommands} \subseteq Nat
ASSUME FinitelyMany == IsFiniteSet(Skills) /\ \A fs \in FindingSets : IsFiniteSet(fs)
ASSUME DisksHoldSkills == \A d \in Disks : DOMAIN d = Roots /\ \A r \in Roots : DOMAIN d[r] = Skills

VARIABLES
  source,   \* the live skill in each directory
  archive,  \* what _archive/<date> holds under the name of the skill
  memory,   \* the loads of the skills, review after review
  findings, \* weekly-coherence-findings of the last review
  catalog,  \* skill_catalog of its summary, or None
  pc, apply,
  rows,     \* the catalogue that a command decides with
  decision, \* its decisions
  todo,     \* those to execute
  at,       \* [skill, root, seen]: the skill to move and what its gate read
  status,   \* the outcome of each executed decision
  counts,   \* move_status_counts
  manifest, \* the last manifest that a session wrote
  reviews, edits, commands

disk == <<source, archive>>
review == <<memory, findings, catalog>>
work == <<apply, rows, decision, todo, at, status, counts>>
bounds == <<reviews, edits, commands>>
vars == <<disk, review, pc, work, manifest, bounds>>

Actions == <<"pin", "recalibrate", "fix", "merge", "reference", "delete", "archive">>
Sources == <<"coherence", "r4", "ttl">>
Rank(x, order) == CHOOSE i \in DOMAIN order : order[i] = x
Protected(x) == x.origin = "user" \/ x.ttl = "pin"

-----------------------------------------------------------------------------
\* skill_surface.py: one row per SKILL.md that is not archived.
Row(k, c) == [skill |-> k, origin |-> c.origin, ttl |-> c.ttl]
Scan == UNION {{Row(k, source[r][k]) : k \in {k \in Skills : source[r][k] # Gone}} : r \in Roots}

\* select_catalog_entry: of several rows, the one that protects most.
Strength(row) == IF row.ttl = "pin" THEN 0 ELSE IF row.origin = "user" THEN 1 ELSE 2
Strongest(k, cat) ==
  LET own == {row \in cat : row.skill = k} IN
  IF own = {} THEN None
  ELSE CHOOSE row \in own : \A other \in own : Strength(row) <= Strength(other)
IsComplete(row) == row.origin # "none"

\* read_carry: the last load of each skill, the protection it ever had, and the
\* number of reviews, whether the skill was there or not.
RunsSeen == Cardinality({memory[i].run : i \in DOMAIN memory})
LinesOf(k) == {i \in DOMAIN memory : memory[i].skill = k}
LastLine(k) == memory[CHOOSE i \in LinesOf(k) : \A j \in LinesOf(k) : j <= i]
EverProtected(k) == \E i \in LinesOf(k) : Protected(memory[i])
\* ttl_archive_candidates: not loaded for long, or not at all.
TtlArchive ==
  {k \in Skills : /\ LinesOf(k) # {} /\ ~EverProtected(k)
                  /\ \/ LastLine(k).loaded = "stale"
                     \/ RunsSeen >= TtlRuns /\ LastLine(k).loaded = "never"}

Before(f, g) ==
  LET a == Rank(f.action, Actions) b == Rank(g.action, Actions) IN
  a < b \/ (a = b /\ Rank(f.source, Sources) <= Rank(g.source, Sources))
Selected(fs) == CHOOSE f \in fs : \A g \in fs : Before(f, g)
\* decide_actions: protection, then the finding that comes first.
Decide(k, fs, cat) ==
  LET row == Strongest(k, cat) first == Selected(fs).action IN
  IF row = None THEN IF first = "archive" THEN "archive" ELSE "skip"
  ELSE IF row.ttl = "pin" THEN "pin"
  ELSE IF row.origin = "user" THEN IF \E f \in fs : f.action = "pin" THEN "pin" ELSE "skip"
  ELSE first
AllFindings ==
  findings \cup {[skill |-> k, action |-> "archive", source |-> "ttl"] : k \in TtlArchive}
Decisions(cat) ==
  [k \in {f.skill : f \in AllFindings} |->
     Decide(k, {f \in AllFindings : f.skill = k}, cat)]

-----------------------------------------------------------------------------
MoveStatuses == {"moved", "exists", "missing", "error", "rejected", "ambiguous", "protected",
                 "unverified", "not_attempted"}
Fates == {"applied", "proposed", "skipped", "archive_pending"}
NoCounts == [m \in MoveStatuses \cup Fates |-> 0]
NoMove == [skill |-> None, root |-> None, seen |-> None]
Init ==
  /\ source \in Disks
  /\ archive = [r \in Roots |-> [k \in Skills |-> {}]]
  /\ memory = << >> /\ findings = {} /\ catalog = None
  /\ pc = [s \in Sessions |-> "idle"] /\ apply = [s \in Sessions |-> FALSE]
  /\ rows = [s \in Sessions |-> {}]
  /\ decision = [s \in Sessions |-> << >>] /\ todo = [s \in Sessions |-> {}]
  /\ at = [s \in Sessions |-> NoMove] /\ status = [s \in Sessions |-> << >>]
  /\ counts = [s \in Sessions |-> NoCounts]
  /\ manifest = [s \in Sessions |-> None]
  /\ reviews = 0 /\ edits = 0 /\ commands = 0

\* A review leaves its run in the memory, with the loads of a skill or without,
\* the findings of its audits, and a summary with the catalogue or without.
Present(k) == \E r \in Roots : source[r][k] # Gone
Review ==
  /\ reviews < MaxReviews /\ reviews' = reviews + 1
  /\ \E k \in {k \in Skills : Present(k)} \cup {None}, loaded \in {"recent", "never", "stale"} :
       memory' = Append(memory,
         IF k = None THEN [run |-> reviews', skill |-> None, loaded |-> loaded]
         ELSE [run |-> reviews', loaded |-> loaded] @@ Strongest(k, Scan))
  /\ findings' \in FindingSets
  /\ catalog' \in {None, Scan}
  /\ UNCHANGED <<disk, pc, work, manifest, edits, commands>>

\* The user writes a skill anew, removes it, or takes one out of the archive.
UserEdits(r, k) ==
  /\ edits < MaxEdits /\ edits' = edits + 1
  /\ \/ \E h \in Heads : source' = [source EXCEPT ![r][k] = [stamp |-> edits'] @@ h]
        /\ UNCHANGED archive
     \/ source[r][k] # Gone /\ source' = [source EXCEPT ![r][k] = Gone] /\ UNCHANGED archive
     \/ /\ source[r][k] = Gone
        /\ \E c \in archive[r][k] :
             /\ source' = [source EXCEPT ![r][k] = c]
             /\ archive' = [archive EXCEPT ![r][k] = @ \ {c}]
  /\ UNCHANGED <<review, pc, work, manifest, reviews, commands>>

-----------------------------------------------------------------------------
\* _load_curate_inputs and decide_actions; without a catalogue the disk is read.
Start(s, mode) ==
  /\ pc[s] = "idle" /\ reviews > 0
  /\ commands < MaxCommands /\ commands' = commands + 1
  /\ pc' = [pc EXCEPT ![s] = "deciding"] /\ apply' = [apply EXCEPT ![s] = mode]
  /\ rows' = [rows EXCEPT ![s] = IF catalog = None THEN Scan ELSE catalog]
  /\ decision' = [decision EXCEPT ![s] = Decisions(rows'[s])]
  /\ todo' = [todo EXCEPT ![s] = DOMAIN decision'[s]]
  /\ at' = [at EXCEPT ![s] = NoMove] /\ status' = [status EXCEPT ![s] = << >>]
  /\ counts' = [counts EXCEPT ![s] = NoCounts]
  /\ UNCHANGED <<disk, review, manifest, reviews, edits>>

\* What becomes of a decision whose move has the outcome m.
Fate(s, k, m) ==
  CASE decision[s][k] = "skip" -> "skipped"
    [] decision[s][k] = "archive" ->
         IF ~apply[s] THEN "archive_pending"
         ELSE IF m \in {"moved", "exists"} THEN "applied" ELSE "skipped"
    [] OTHER -> "proposed"
\* Mutant: an attempted move stays counted as not attempted.
CountedTwice(c, m, fate) ==
  [x \in DOMAIN c |-> IF x \in {m, fate, "not_attempted"} THEN c[x] + 1 ELSE c[x]]
\* An attempted move takes "not_attempted" back.
Counted(c, m, fate) == [c EXCEPT ![m] = @ + 1, ![fate] = @ + 1]
Settle(s, k, m) ==
  /\ status' = [status EXCEPT ![s] = [j \in DOMAIN @ \cup {k} |-> IF j = k THEN m ELSE @[j]]]
  /\ counts' = [counts EXCEPT ![s] = Counted(@, m, Fate(s, k, m))]
  /\ todo' = [todo EXCEPT ![s] = @ \ {k}]
  /\ at' = [at EXCEPT ![s] = NoMove]
  /\ pc' = [pc EXCEPT ![s] = "deciding"]
Rest(s) == UNCHANGED <<review, apply, rows, decision, manifest, bounds>>

\* Nothing but an archive that is applied touches a file.
Propose(s, k) ==
  /\ pc[s] = "deciding" /\ k \in todo[s]
  /\ ~(apply[s] /\ decision[s][k] = "archive")
  /\ Settle(s, k, "not_attempted")
  /\ Rest(s) /\ UNCHANGED disk

\* _archive_collect_candidates: the directories where the skill lives or lived.
Candidates(k) == {r \in Roots : source[r][k] # Gone \/ archive[r][k] # {}}
Place(k) == CHOOSE r \in Candidates(k) : TRUE
\* Mutant: the front matter is not read again when the catalogue is complete.
GateOfCatalog(k, r, cat) ==
  LET row == Strongest(k, cat) c == source[r][k] IN
  IF row # None /\ Protected(row) THEN "protected"
  ELSE IF row = None \/ ~IsComplete(row) THEN IF Protected(c) THEN "protected" ELSE "unverified"
  ELSE "open"
\* _archive_catalog_gate: the catalogue and the SKILL.md of the moment must agree.
Gate(k, r, cat) ==
  LET row == Strongest(k, cat) c == source[r][k] IN
  IF (row # None /\ Protected(row)) \/ Protected(c) THEN "protected"
  ELSE IF row = None \/ ~IsComplete(row) \/ ~c.verified
          \/ c.origin # row.origin \/ c.ttl # row.ttl THEN "unverified"
  ELSE "open"
\* _archive_skill, up to the move.
Verdict(k, cat) ==
  IF Candidates(k) = {} THEN "missing"
  ELSE IF Cardinality(Candidates(k)) > 1 THEN "ambiguous"
  ELSE IF archive[Place(k)][k] # {} THEN "exists" ELSE Gate(k, Place(k), cat)
Refuse(s, k) ==
  /\ pc[s] = "deciding" /\ k \in todo[s] /\ apply[s] /\ decision[s][k] = "archive"
  /\ Verdict(k, rows[s]) # "open"
  /\ Settle(s, k, Verdict(k, rows[s]))
  /\ Rest(s) /\ UNCHANGED disk
Open(s, k) ==
  /\ pc[s] = "deciding" /\ k \in todo[s] /\ apply[s] /\ decision[s][k] = "archive"
  /\ Verdict(k, rows[s]) = "open"
  /\ pc' = [pc EXCEPT ![s] = "open"]
  /\ at' = [at EXCEPT ![s] = [skill |-> k, root |-> Place(k), seen |-> source[Place(k)][k]]]
  /\ UNCHANGED <<disk, review, apply, rows, decision, todo, status, counts, manifest, bounds>>

\* _archive_move and safe_git_move look again; the second look is the last.
Recheck(s) ==
  /\ pc[s] = "open"
  /\ LET r == at[s].root k == at[s].skill IN
     IF source[r][k] = Gone \/ archive[r][k] # {}
     THEN \/ Settle(s, k, "rejected")
          \/ Settle(s, k, IF source[r][k] = Gone THEN "missing" ELSE "exists")
     ELSE pc' = [pc EXCEPT ![s] = "moving"] /\ UNCHANGED <<at, todo, status, counts>>
  /\ Rest(s) /\ UNCHANGED disk

\* Mutant: a destination that is there is replaced.
ArchivedOver(r, k) == [archive EXCEPT ![r][k] = {source[r][k]}]
\* git mv, or shutil.move: into the destination if it exists by now.
Archived(r, k) == [archive EXCEPT ![r][k] = @ \cup {source[r][k]}]
Move(s) ==
  /\ pc[s] = "moving"
  /\ LET r == at[s].root k == at[s].skill IN
     /\ source[r][k] # Gone
     /\ archive' = Archived(r, k)
     /\ source' = [source EXCEPT ![r][k] = Gone]
     /\ Settle(s, k, "moved")
  /\ Rest(s)
MoveFails(s) ==
  /\ pc[s] = "moving"
  /\ Settle(s, at[s].skill, "error")
  /\ Rest(s) /\ UNCHANGED disk

\* The variables of a command end with it.
End(s) ==
  /\ pc' = [pc EXCEPT ![s] = "idle"] /\ apply' = [apply EXCEPT ![s] = FALSE]
  /\ rows' = [rows EXCEPT ![s] = {}] /\ decision' = [decision EXCEPT ![s] = << >>]
  /\ todo' = [todo EXCEPT ![s] = {}] /\ at' = [at EXCEPT ![s] = NoMove]
  /\ status' = [status EXCEPT ![s] = << >>] /\ counts' = [counts EXCEPT ![s] = NoCounts]
  /\ UNCHANGED <<disk, review, bounds>>
\* _curate_rc
Rc(s) ==
  IF apply[s] /\ \E m \in {"error", "rejected", "ambiguous", "unverified"} : counts[s][m] > 0
  THEN 1 ELSE 0
Report(s) ==
  /\ pc[s] = "deciding" /\ todo[s] = {}
  /\ manifest' = [manifest EXCEPT ![s] =
       [rc |-> Rc(s), apply |-> apply[s], decisions |-> decision[s], status |-> status[s],
        counts |-> counts[s]]]
  /\ End(s)
ReportFails(s) == pc[s] = "deciding" /\ todo[s] = {} /\ End(s) /\ UNCHANGED manifest
\* The plugin stops a command that lasts too long.
Kill(s) == pc[s] # "idle" /\ End(s) /\ UNCHANGED manifest

Step(s) ==
  \/ (\E mode \in BOOLEAN : Start(s, mode))
  \/ (\E k \in Skills : Propose(s, k) \/ Refuse(s, k) \/ Open(s, k))
  \/ Recheck(s) \/ Move(s) \/ MoveFails(s) \/ Report(s) \/ ReportFails(s) \/ Kill(s)
Next ==
  \/ Review
  \/ \E r \in Roots, k \in Skills : UserEdits(r, k)
  \/ \E s \in Sessions : Step(s)
Spec == Init /\ [][Next]_vars

-----------------------------------------------------------------------------
Content == [origin : STRING, ttl : STRING, verified : BOOLEAN, stamp : 0 .. MaxEdits]
TypeOK ==
  /\ \A r \in Roots, k \in Skills :
       /\ source[r][k] \in Content \cup {Gone} /\ archive[r][k] \subseteq Content
  /\ \A i \in DOMAIN memory : memory[i].skill \in Skills \cup {None} /\ memory[i].run \in 1 .. reviews
  /\ pc \in [Sessions -> {"idle", "deciding", "open", "moving"}]
  /\ \A s \in Sessions :
       /\ todo[s] \subseteq DOMAIN decision[s] /\ DOMAIN status[s] \subseteq DOMAIN decision[s] \ todo[s]
       /\ pc[s] \in {"open", "moving"} => at[s].skill \in todo[s] /\ at[s].root \in Roots
       /\ counts[s] \in [MoveStatuses \cup Fates -> Nat]
  /\ reviews \in 0 .. MaxReviews /\ edits \in 0 .. MaxEdits /\ commands \in 0 .. MaxCommands

\* No step of a command destroys a version of a skill, whatever another session
\* moved and the user rewrote between its checks and its move (safe_git_move).
Kept(k) == UNION {archive[r][k] \cup ({source[r][k]} \ {Gone}) : r \in Roots}
NothingIsLost == [][edits' = edits => \A k \in Skills : Kept(k) \subseteq Kept(k)']_vars

\* A version that the gate of the move read and that is still there leaves the
\* live directory only when its own front matter, and not a catalogue of an
\* earlier day, says that it is verified and unprotected (_archive_catalog_gate).
ProtectedStays ==
  [][\A s \in Sessions :
       /\ pc[s] = "moving" /\ at[s].skill \in DOMAIN status'[s] \ DOMAIN status[s]
       /\ status'[s][at[s].skill] = "moved"
       /\ source[at[s].root][at[s].skill] = at[s].seen
       => at[s].seen.verified /\ ~Protected(at[s].seen)]_vars

\* The counters of a manifest correspond to its decisions (doc/spec/03-capacites.md:633):
\* each has one outcome, counted under that outcome and no other, and one fate
\* (_execute_curate_decision counts what _execute_curate_archive takes back).
CountersMatchDecisions ==
  \A s \in Sessions : manifest[s] # None =>
    LET all == manifest[s] IN
    /\ DOMAIN all.status = DOMAIN all.decisions
    /\ \A m \in MoveStatuses :
         all.counts[m] = Cardinality({k \in DOMAIN all.status : all.status[k] = m})
    /\ all.counts["applied"] = all.counts["moved"] + all.counts["exists"]
    /\ Cardinality(DOMAIN all.decisions) =
         all.counts["applied"] + all.counts["proposed"] + all.counts["skipped"]
           + all.counts["archive_pending"]

\* doc/spec/03-capacites.md:631: a skill expires when it was not loaded in three
\* runs in a row.
ThreeRunsInARow ==
  \A k \in TtlArchive : LastLine(k).loaded = "never" =>
    Cardinality({memory[i].run : i \in {j \in LinesOf(k) : memory[j].loaded = "never"}}) >= TtlRuns
=============================================================================

--------------------------- MODULE HarnessBaseline ---------------------------
(***************************************************************************)
(* The harness command (main.py, harness_scope.py, draft_targets.py).  It  *)
(* copies the files that the configuration lets it show into a temporary   *)
(* root, adds the skills and commands of the kit, has harness-eval lint    *)
(* the copy, and compares the findings with a baseline kept from review to *)
(* review, which is refreshed when the rules change and restored from the  *)
(* copies that an old migration left in the run directories.               *)
(*                                                                         *)
(* A path is a scanned root and a name; of a file the model keeps the      *)
(* rules it breaks, of a glob the paths it matches.                        *)
(***************************************************************************)
EXTENDS Integers, FiniteSets

CONSTANTS
  Names,       \* names of skills, commands and files
  Rules,       \* rules that some version of harness-eval checks
  Checks,      \* the rules that each version of the rule set checks
  Paths,       \* paths of the project that may exist
  Projects,    \* the files, with the rules they break, of the first command
  Edits,       \* the rules a file may break after a change
  Listed,      \* paths that the patterns of the profile select
  Barred,      \* paths that the exclusions select
  Kit,         \* [skills, commands]: the rules each file of the kit breaks
  Settings,    \* values of draft_targets in the configuration
  OldCopies,   \* baselines that the migration may have left there
  Copies,      \* run directories that may hold a copy of the baseline, in order
  None,        \* no file, no path, no value
  Unreadable,  \* a file that is not what it should be
  Unknown,     \* the fingerprint of the rules without the version of the tool
  MaxCommands, \* bound: harness commands
  MaxChanges   \* bound: changes of the project, the rules or the baseline file

ASSUME BoundsAreNaturals == MaxCommands \in Nat /\ MaxChanges \in Nat
ASSUME SomeCopyIsLast == \A some \in SUBSET Copies \ {{}} : \E c \in some : \A d \in some : d <= c

Directories ==
  {".opencode/skills", ".opencode/commands", ".opencode/other", ".claude/skills", ".claude/commands",
   ".github/skills", ".github/prompts", ".agents", ".agents/commands"}
FilePaths == [root : Directories, name : Names]
Keyed == SUBSET (Rules \X FilePaths)
Stored == [keys : Keyed, rules : DOMAIN Checks \cup {Unknown}, date : Nat]
ASSUME ChecksAreRules == \A v \in DOMAIN Checks : Checks[v] \subseteq Rules
ASSUME FilesHaveNames ==
  /\ Paths \subseteq FilePaths /\ \A files \in Projects : DOMAIN files \subseteq Paths
  /\ DOMAIN Kit.skills \subseteq Names /\ DOMAIN Kit.commands \subseteq Names
ASSUME BaselinesAreStored == OldCopies \subseteq Stored /\ None \notin Stored /\ Unreadable \notin Stored

VARIABLES
  project,    \* the rules broken by each file of the project
  rules,      \* the version of the rule set
  baseline,   \* weekly-harness-baseline.json
  copies,     \* what runs/<id>/legacy holds of it
  digest,     \* weekly-harness-digest of the day
  pc, answer,
  targets,    \* the harnesses the drafts are for
  scope,      \* the resolved scope
  projection, \* where each file of the temporary root comes from
  orphans,    \* those without a source in the project
  payload,    \* the baseline to write
  outcome,    \* the status of the baseline and the findings it calls new
  commands, changes,
  told,       \* ghost: findings told as new since the baseline was created
  taken       \* ghost: findings of the digest at the last capture or refresh

disk == <<baseline, copies, digest>>
work == <<targets, scope, projection, orphans>>
ghosts == <<told, taken>>
vars == <<project, rules, disk, pc, answer, work, payload, outcome, commands, changes, ghosts>>

-----------------------------------------------------------------------------
\* draft_targets.py, harness_scope.py: which directories a harness stands for.
Harnesses == {"claude-code", "opencode", "copilot-cli", "codex"}
SkillRoots(h) ==
  CASE h = "claude-code" -> {".claude/skills"}
    [] h = "opencode"    -> {".opencode/skills"}
    [] h = "copilot-cli" -> {".github/prompts", ".github/skills"}
    [] h = "codex"       -> {".agents"}
CommandRoot(root) ==
  CASE root = ".claude/skills"   -> ".claude/commands"
    [] root = ".opencode/skills" -> ".opencode/commands"
    [] root \in {".github/prompts", ".github/skills"} -> ".github/prompts"
    [] root = ".agents"          -> ".agents/commands"
Native(p) == p.root \in {".opencode/skills", ".opencode/commands", ".opencode/other"}

\* _parse_draft_targets: no list (absent or malformed), or a set of names.
DraftMode(setting) ==
  IF setting = None THEN "auto"
  ELSE IF setting = {} THEN "legacy"
  ELSE IF setting \cap Harnesses # {} THEN "override" ELSE "auto"
Resolved(setting) ==
  CASE DraftMode(setting) = "legacy"   -> Harnesses
    [] DraftMode(setting) = "override" -> setting \cap Harnesses
    [] DraftMode(setting) = "auto"     -> {"opencode"}

ExtraRoots(hs) == (UNION {SkillRoots(h) : h \in hs}) \ {".opencode/skills"}
InjectRoots(hs) == UNION {SkillRoots(h) : h \in hs}

\* Mutant: opencode among several targets is taken for the only one.
SurfaceOfTheFirst(hs) ==
  IF hs = {} \/ "opencode" \in hs THEN "projection" ELSE "portability"
Surface(hs) ==
  IF Cardinality(hs) < 2
  THEN IF hs \subseteq Harnesses \ {"opencode"} /\ hs # {} THEN "portability" ELSE "projection"
  ELSE IF "opencode" \in hs THEN "combined" ELSE "portability"

\* resolve_harness_scope over the files that are there.
Walked(files, hs) == {p \in files : Native(p) \/ p.root \in ExtraRoots(hs)}
Excluded(files, hs) == Walked(files, hs) \cap Barred
Included(files, hs) ==
  {p \in Walked(files, hs) \ Barred : p \in Listed \/ p.root \in ExtraRoots(hs)}
Scope(files, hs) ==
  [excluded |-> Excluded(files, hs), included |-> Included(files, hs),
   unscoped |-> {p \in files \ Barred : Native(p) /\ p \notin Included(files, hs)}]

\* inject_engine_content: the skills and the commands of the kit, by path.
Under(roots, names) == {[root |-> r, name |-> n] : r \in roots, n \in names}
KitSkills(hs) == Under(InjectRoots(hs), DOMAIN Kit.skills)
KitCommands(hs) == Under({CommandRoot(r) : r \in InjectRoots(hs)}, DOMAIN Kit.commands)
Injected(hs) ==
  [p \in KitSkills(hs) \cup KitCommands(hs) |->
     IF p \in KitSkills(hs) THEN Kit.skills[p.name] ELSE Kit.commands[p.name]]

-----------------------------------------------------------------------------
\* A finding of the tool, detailed or only a rule that did not pass: the file it
\* scanned, the rule, and whether it names its path.
SectionRoot(p) ==
  IF p.root \in {".opencode/commands", ".claude/commands", ".agents/commands", ".github/prompts"}
  THEN ".opencode/commands" ELSE ".opencode/skills"
Lints(copy, version) ==
  {f \in [at : DOMAIN copy, rule : Checks[version], named : BOOLEAN] :
     f.rule \in copy[f.at].breaks}

\* attach_component_paths: a component is found again by its name, or not.
PathOf(f, files) ==
  LET homonym == [root |-> SectionRoot(f.at), name |-> f.at.name] IN
  IF f.named \/ f.at.root = ".opencode/other" THEN f.at
  ELSE IF homonym \in files THEN homonym ELSE None
Located(findings, files) ==
  {[at |-> f.at, rule |-> f.rule, path |-> PathOf(f, files)] : f \in findings}

\* _baseline_finding_keys: what is found again at no path is not kept.
Keys(located) == {<<f.rule, f.path>> : f \in {g \in located : g.path # None}}

IsValid(b) == b \notin {None, Unreadable}
ValidCopies == {c \in Copies : IsValid(copies[c])}
LatestCopy == CHOOSE c \in ValidCopies : \A d \in ValidCopies : d <= c
\* Mutant: the copies are not searched when the file is there but unreadable.
FoundUnlessUnreadable ==
  IF IsValid(baseline) THEN baseline
  ELSE IF ValidCopies # {} /\ baseline = None THEN copies[LatestCopy] ELSE None
\* The baseline that a harness starts from.
Found ==
  IF IsValid(baseline) THEN baseline
  ELSE IF ValidCopies # {} THEN copies[LatestCopy] ELSE None

-----------------------------------------------------------------------------
NoDigest == [state |-> "absent"]
Init ==
  /\ project \in Projects
  /\ rules \in DOMAIN Checks
  /\ baseline = None
  /\ copies \in [Copies -> {None, Unreadable} \cup OldCopies]
  /\ digest = NoDigest
  /\ pc = "idle" /\ answer = "none"
  /\ targets = {} /\ scope = Scope({}, {}) /\ projection = << >> /\ orphans = {}
  /\ payload = None /\ outcome = None
  /\ commands = 0 /\ changes = 0 /\ told = {} /\ taken = {}

\* The user edits, adds or removes a file.
ProjectChanges(p) ==
  /\ changes < MaxChanges /\ changes' = changes + 1
  /\ \/ \E breaks \in Edits :
          project' = [q \in DOMAIN project \cup {p} |-> IF q = p THEN breaks ELSE project[q]]
     \/ p \in DOMAIN project /\ project' = [q \in DOMAIN project \ {p} |-> project[q]]
  /\ UNCHANGED <<rules, disk, pc, answer, work, payload, outcome, commands, ghosts>>

\* A rule file of the project or harness-eval itself is replaced.
RulesChange ==
  /\ changes < MaxChanges /\ changes' = changes + 1
  /\ rules' \in DOMAIN Checks \ {rules}
  /\ UNCHANGED <<project, disk, pc, answer, work, payload, outcome, commands, ghosts>>

\* Another program leaves the baseline file unreadable.
BaselineBreaks ==
  /\ changes < MaxChanges /\ changes' = changes + 1
  /\ pc = "idle" /\ baseline # None /\ baseline' = Unreadable
  /\ told' = {} /\ taken' = {}
  /\ UNCHANGED <<project, rules, copies, digest, pc, answer, work, payload, outcome, commands>>

\* The variables of a command end with it.
Forget ==
  /\ targets' = {} /\ scope' = Scope({}, {}) /\ projection' = << >> /\ orphans' = {}
  /\ payload' = None /\ outcome' = None
Fail(how) ==
  /\ pc' = "idle" /\ answer' = how /\ Forget
  /\ UNCHANGED <<project, rules, baseline, copies, commands, changes, ghosts>>

\* No binary, no project root.
Refuse ==
  /\ pc = "idle" /\ commands < MaxCommands /\ commands' = commands + 1
  /\ answer' = "fatal"
  /\ UNCHANGED <<project, rules, disk, pc, work, payload, outcome, changes, ghosts>>

Start(setting) ==
  /\ pc = "idle" /\ commands < MaxCommands /\ commands' = commands + 1
  /\ pc' = "scoped" /\ answer' = "none"
  /\ targets' = Resolved(setting)
  /\ scope' = Scope(DOMAIN project, targets')
  /\ UNCHANGED <<project, rules, disk, projection, orphans, payload, outcome, changes, ghosts>>

\* copy_scope_to_projection raises for a file that is gone.
Vanished ==
  /\ pc = "scoped" /\ ~scope.included \subseteq DOMAIN project
  /\ Fail("fatal") /\ UNCHANGED digest

\* A file of the project that was copied wins over a file of the kit.
Projection ==
  [p \in scope.included \cup DOMAIN Injected(targets) |->
     IF p \in scope.included THEN [from |-> "project", breaks |-> project[p]]
     ELSE [from |-> "kit", breaks |-> Injected(targets)[p]]]
Project ==
  /\ pc = "scoped" /\ scope.included \subseteq DOMAIN project
  /\ projection' = Projection
  /\ orphans' = {p \in DOMAIN Projection : Projection[p].from = "kit"} \ DOMAIN project
  /\ pc' = "projected"
  /\ UNCHANGED <<project, rules, disk, answer, targets, scope, payload, outcome, commands,
                 changes, ghosts>>

\* harness-eval exits 0 or 1: its digest is there, is not one, or it left none.
Lint ==
  /\ pc = "projected" /\ pc' = "linted"
  /\ \/ \E named \in BOOLEAN :
          digest' = [state |-> "raw", findings |-> {f \in Lints(projection, rules) : f.named = named}]
     \/ digest' = [state |-> "broken"]
     \/ digest' = digest /\ digest.state = "absent"
  /\ UNCHANGED <<project, rules, baseline, copies, answer, work, payload, outcome, commands,
                 changes, ghosts>>
\* Any other code, or a time-out, whatever it left.
LintFails ==
  /\ pc = "projected"
  /\ digest' \in {digest, [state |-> "broken"]}
  /\ Fail("fatal")

NoDigestLeft == /\ pc = "linted" /\ digest.state = "absent" /\ Fail("ok") /\ UNCHANGED digest
DigestUnreadable ==
  /\ pc = "linted" /\ digest.state = "broken" /\ Fail("fatal") /\ UNCHANGED digest

Current == Located(digest.findings, scope.included)
\* harness_rules_fingerprint: Unknown when the version of the tool is not known.
Fingerprint(known) == IF known THEN rules ELSE Unknown
\* Mutant: a refresh stores the findings of the day.
PayloadRecaptured(fingerprint) ==
  [keys |-> Keys(Current), rules |-> fingerprint, date |-> commands]
Payload(fingerprint) ==
  [keys |-> IF Found = None THEN Keys(Current) ELSE Found.keys,
   rules |-> fingerprint, date |-> commands]
NewFindings == Keys(Current) \ Found.keys
\* _capture_or_reuse_baseline, up to its last write.  Writing a restored baseline
\* back is tried, and its failure is ignored.
Compare(known) ==
  /\ pc = "linted" /\ digest.state = "raw"
  /\ baseline' \in IF IsValid(baseline) \/ Found = None THEN {baseline} ELSE {baseline, Found}
  /\ IF Found # None /\ Found.rules = Fingerprint(known) /\ known
     THEN /\ pc' = "reporting" /\ payload' = None
          /\ outcome' = [status |-> "reused", new |-> NewFindings]
     ELSE /\ pc' = "capturing" /\ payload' = Payload(Fingerprint(known))
          /\ outcome' = [status |-> IF Found = None THEN "created" ELSE "refreshed", new |-> {}]
  /\ UNCHANGED <<project, rules, copies, digest, answer, work, commands, changes, ghosts>>

Capture(written) ==
  /\ pc = "capturing" /\ pc' = "reporting"
  /\ baseline' = IF written THEN payload ELSE baseline
  /\ told' = IF written /\ outcome.status = "created" THEN {} ELSE told
  /\ taken' = IF written THEN Keys(Current) ELSE taken
  /\ UNCHANGED <<project, rules, copies, digest, answer, work, payload, outcome, commands, changes>>

\* enrich_harness_digest and the last write of the command.
Report ==
  /\ pc = "reporting" /\ pc' = "idle" /\ answer' = "ok"
  /\ digest' = [state |-> "enriched", keys |-> Keys(Current), surface |-> Surface(targets),
                status |-> outcome.status, new |-> outcome.new]
  /\ told' = told \cup outcome.new /\ Forget
  /\ UNCHANGED <<project, rules, baseline, copies, commands, changes, taken>>
ReportFails == pc = "reporting" /\ Fail("fatal") /\ UNCHANGED digest

\* The plugin stops a command that lasts too long.
Kill == pc # "idle" /\ Fail("killed") /\ UNCHANGED digest

Next ==
  \/ \E p \in Paths : ProjectChanges(p)
  \/ RulesChange \/ BaselineBreaks
  \/ Refuse \/ (\E setting \in Settings : Start(setting))
  \/ Vanished \/ Project
  \/ Lint \/ LintFails \/ NoDigestLeft \/ DigestUnreadable
  \/ \E known \in BOOLEAN : Compare(known)
  \/ \E written \in BOOLEAN : Capture(written)
  \/ Report \/ ReportFails \/ Kill

Spec == Init /\ [][Next]_vars

-----------------------------------------------------------------------------
TypeOK ==
  /\ DOMAIN project \subseteq Paths /\ \A p \in DOMAIN project : project[p] \subseteq Rules
  /\ rules \in DOMAIN Checks
  /\ baseline \in Stored \cup {None, Unreadable}
  /\ copies \in [Copies -> Stored \cup {None, Unreadable}]
  /\ digest.state \in {"absent", "broken", "raw", "enriched"}
  /\ digest.state = "enriched" => digest.new \subseteq digest.keys /\ digest.keys \in Keyed
  /\ pc \in {"idle", "scoped", "projected", "linted", "capturing", "reporting"}
  /\ answer \in {"none", "ok", "fatal", "killed"}
  /\ targets \subseteq Harnesses /\ orphans \subseteq DOMAIN projection
  /\ payload \in Stored \cup {None}
  /\ outcome # None => outcome.status \in {"created", "refreshed", "reused"}
  /\ commands \in 0 .. MaxCommands /\ changes \in 0 .. MaxChanges /\ told \in Keyed /\ taken \in Keyed

\* A finding that a digest called new goes on being called new by every digest
\* that has it and compares, however often the rules changed in between: a
\* refresh never takes in the findings of its day (_capture_or_reuse_baseline).
AlarmsLast ==
  digest.state = "enriched" /\ digest.status = "reused" =>
    told \cap digest.keys \subseteq digest.new

\* The promise of _capture_or_reuse_baseline (main.py:663-665): an upgrade of the
\* rules yields no finding that is new for ever.  What the digest of the last
\* capture or refresh had is not new afterwards.
RefreshEndsFalseAlarms ==
  digest.state = "enriched" /\ digest.status = "reused" => taken \cap digest.new = {}

\* As long as one readable baseline is left, in the output directory or in the
\* legacy copies, no step of a harness changes what is compared with: neither a
\* failed write, nor a kill, nor a change of the rules (restoration, refresh).
Compared ==
  IF IsValid(baseline) THEN baseline.keys
  ELSE IF ValidCopies # {} THEN copies[LatestCopy].keys ELSE None
BaselineSurvives == [][pc' # pc /\ Compared # None => Compared' = Compared]_vars

\* harness-eval is shown the files of the project that the scope includes, as
\* they are, and none that is excluded or unscoped; whatever else it sees comes
\* from the kit and is an orphan or stands for a file of the project that the
\* scope left out (copy_scope_to_projection, inject_engine_content).
ProjectionIsTheScope ==
  pc \notin {"idle", "scoped"} =>
    /\ \A p \in DOMAIN projection :
         IF p \in scope.included THEN projection[p].from = "project"
         ELSE projection[p].from = "kit"
    /\ scope.included \cap (Barred \cup scope.unscoped) = {}

\* The digest says that the projection of .opencode is enough for the remediation
\* only when nothing of another harness was shown to harness-eval.
SurfaceCoversProjection ==
  pc = "reporting" /\ Surface(targets) = "projection" =>
    \A p \in DOMAIN projection : Native(p)
=============================================================================

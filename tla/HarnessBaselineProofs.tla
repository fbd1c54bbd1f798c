------------------------ MODULE HarnessBaselineProofs ------------------------
(***************************************************************************)
(* Theorems of HarnessBaseline, for any project, kit, rules and bounds.    *)
(***************************************************************************)
EXTENDS HarnessBaseline, FiniteSetTheorems, TLAPS

-----------------------------------------------------------------------------
(* What the baseline is made of.                                           *)

Findings(d) ==
  d.state = "raw" => \A f \in d.findings : f.at \in FilePaths /\ f.rule \in Rules
Types ==
  /\ DOMAIN project \subseteq FilePaths
  /\ rules \in DOMAIN Checks
  /\ baseline \in Stored \cup {None, Unreadable}
  /\ copies \in [Copies -> Stored \cup {None, Unreadable}]
  /\ commands \in Nat
  /\ targets \subseteq Harnesses
  /\ scope.included \subseteq FilePaths
  /\ DOMAIN projection \subseteq FilePaths
  /\ Findings(digest)
  /\ pc = "capturing" => payload \in Stored

LEMMA PathsOfFindings ==
  ASSUME NEW f, f.at \in FilePaths, NEW files
  PROVE  PathOf(f, files) \in FilePaths \cup {None}
<1>1. SectionRoot(f.at) \in Directories
  BY DEF SectionRoot, Directories
<1>2. f.at.name \in Names
  BY DEF FilePaths
<1>3. [root |-> SectionRoot(f.at), name |-> f.at.name] \in FilePaths
  BY <1>1, <1>2 DEF FilePaths
<1> QED
  BY <1>3 DEF PathOf

LEMMA KeysAreKeyed ==
  ASSUME NEW findings, NEW files, \A f \in findings : f.at \in FilePaths /\ f.rule \in Rules
  PROVE  Keys(Located(findings, files)) \in Keyed
<1>1. \A g \in Located(findings, files) : g.rule \in Rules /\ g.path \in FilePaths \cup {None}
  BY PathsOfFindings DEF Located
<1> QED
  BY <1>1 DEF Keys, Keyed

LEMMA CurrentIsKeyed ==
  ASSUME Types, digest.state = "raw" PROVE Keys(Current) \in Keyed
  BY KeysAreKeyed DEF Types, Findings, Current

LEMMA LatestIsValid ==
  ASSUME Types, ValidCopies # {} PROVE LatestCopy \in ValidCopies
<1>1. ValidCopies \subseteq Copies
  BY DEF ValidCopies
<1> DEFINE Last(c) == \A d \in ValidCopies : d <= c
<1>2. \E c \in ValidCopies : Last(c)
  BY <1>1, SomeCopyIsLast
<1>3. LatestCopy = CHOOSE c \in ValidCopies : Last(c)
  BY DEF LatestCopy
<1> HIDE DEF Last
<1> QED
  BY <1>2, <1>3

\* A harness starts from a stored baseline, or from none.
LEMMA FoundType ==
  ASSUME Types
  PROVE  /\ Found = None \/ (Found \in Stored /\ Found.keys \in Keyed)
         /\ Found = None => Compared = None
         /\ Found # None => Compared = Found.keys
<1>1. \A b \in Stored : b # None /\ IsValid(b) /\ b.keys \in Keyed
  BY BaselinesAreStored DEF IsValid, Stored
<1>2. CASE IsValid(baseline)
  <2>1. baseline \in Stored
    BY <1>2 DEF Types, IsValid
  <2> QED
    BY <1>1, <1>2, <2>1 DEF Found, Compared
<1>3. CASE ~IsValid(baseline) /\ ValidCopies # {}
  <2>1. LatestCopy \in ValidCopies
    BY <1>3, LatestIsValid
  <2>2. copies[LatestCopy] \in Stored
    BY <2>1 DEF Types, ValidCopies, IsValid
  <2> QED
    BY <1>1, <1>3, <2>2 DEF Found, Compared
<1>4. CASE ~IsValid(baseline) /\ ValidCopies = {}
  BY <1>4 DEF Found, Compared
<1> QED
  BY <1>2, <1>3, <1>4

LEMMA PayloadType ==
  ASSUME Types, digest.state = "raw", NEW known \in BOOLEAN
  PROVE  Payload(Fingerprint(known)) \in Stored
<1>1. Fingerprint(known) \in DOMAIN Checks \cup {Unknown}
  BY DEF Fingerprint, Types
<1>2. (IF Found = None THEN Keys(Current) ELSE Found.keys) \in Keyed
  BY CurrentIsKeyed, FoundType
<1> QED
  BY <1>1, <1>2 DEF Payload, Stored, Types

LEMMA ScopeType ==
  ASSUME NEW files \in SUBSET FilePaths, NEW hs
  PROVE  Scope(files, hs).included \subseteq FilePaths
  BY DEF Scope, Included, Walked

LEMMA RootTypes ==
  ASSUME NEW hs \in SUBSET Harnesses
  PROVE  /\ InjectRoots(hs) \subseteq Directories
         /\ \A r \in InjectRoots(hs) : CommandRoot(r) \in Directories
<1>1. ASSUME NEW h \in Harnesses, NEW r \in SkillRoots(h)
      PROVE  r \in Directories /\ CommandRoot(r) \in Directories
  <2>1. r \in {".claude/skills", ".opencode/skills", ".github/prompts", ".github/skills", ".agents"}
    BY <1>1 DEF Harnesses, SkillRoots
  <2> QED
    BY <2>1 DEF CommandRoot, Directories
<1> QED
  BY <1>1 DEF InjectRoots

LEMMA ResolvedType == ASSUME NEW setting PROVE Resolved(setting) \subseteq Harnesses
<1>1. DraftMode(setting) \in {"auto", "legacy", "override"}
  BY DEF DraftMode
<1> QED
  BY <1>1 DEF Resolved, Harnesses

LEMMA InjectedType ==
  ASSUME NEW hs \in SUBSET Harnesses PROVE DOMAIN Injected(hs) \subseteq FilePaths
<1>1. KitSkills(hs) \subseteq FilePaths
  BY RootTypes, FilesHaveNames DEF FilePaths, KitSkills, Under
<1>2. KitCommands(hs) \subseteq FilePaths
  BY RootTypes, FilesHaveNames DEF FilePaths, KitCommands, Under
<1> QED
  BY <1>1, <1>2 DEF Injected

LEMMA ProjectionType == ASSUME Types PROVE DOMAIN Projection \subseteq FilePaths
  BY InjectedType DEF Projection, Types

LEMMA TypesInit == Init => Types
<1> SUFFICES ASSUME Init PROVE Types
  OBVIOUS
<1>1. DOMAIN project \subseteq FilePaths
  BY FilesHaveNames DEF Init
<1>2. copies \in [Copies -> Stored \cup {None, Unreadable}]
  BY BaselinesAreStored DEF Init
<1>3. scope.included \subseteq FilePaths
  BY ScopeType DEF Init
<1>4. digest.state # "raw" /\ DOMAIN projection = {}
  BY DEF Init, NoDigest
<1> QED
  BY <1>1, <1>2, <1>3, <1>4 DEF Init, Types, Findings

\* A command that ends leaves nothing behind but what it wrote.
LEMMA ForgetKeeps ==
  ASSUME Types, Forget, pc' = "idle", UNCHANGED <<project, rules, baseline, copies, commands>>,
         Findings(digest')
  PROVE  Types'
<1>1. scope'.included \subseteq FilePaths
  BY ScopeType DEF Forget
<1>2. DOMAIN projection' = {} /\ targets' = {}
  BY DEF Forget
<1> QED
  BY <1>1, <1>2 DEF Types, Findings

LEMMA TypesStep == Types /\ [Next]_vars => Types'
<1> SUFFICES ASSUME Types, [Next]_vars PROVE Types'
  OBVIOUS
<1> USE DEF disk, work
<1>1. ASSUME NEW p \in Paths, ProjectChanges(p) PROVE Types'
  <2>1. DOMAIN project' \subseteq DOMAIN project \cup {p}
    BY <1>1 DEF ProjectChanges
  <2>2. DOMAIN project' \subseteq FilePaths
    BY <2>1, FilesHaveNames DEF Types
  <2> QED
    BY <1>1, <2>2 DEF ProjectChanges, Types, Findings
<1>2. CASE RulesChange \/ BaselineBreaks \/ UNCHANGED vars
  BY <1>2 DEF RulesChange, BaselineBreaks, vars, Types, Findings
<1>3. CASE Refuse
  BY <1>3 DEF Refuse, Types, Findings
<1>4. ASSUME NEW setting \in Settings, Start(setting) PROVE Types'
  <2>1. targets' \subseteq Harnesses
    BY <1>4, ResolvedType DEF Start
  <2>2. scope'.included \subseteq FilePaths
    BY <1>4, ScopeType DEF Start, Types
  <2> QED
    BY <1>4, <2>1, <2>2 DEF Start, Types, Findings
<1>5. CASE Vanished \/ NoDigestLeft \/ DigestUnreadable \/ ReportFails \/ Kill
  BY <1>5, ForgetKeeps DEF Vanished, NoDigestLeft, DigestUnreadable, ReportFails, Kill, Fail, Types, Findings
<1>6. CASE Project
  <2>1. DOMAIN projection' \subseteq FilePaths
    BY <1>6, ProjectionType DEF Project
  <2> QED
    BY <1>6, <2>1 DEF Project, Types, Findings
<1>7. CASE Lint
  <2>1. \A f \in Lints(projection, rules) : f.at \in FilePaths /\ f.rule \in Rules
    BY ChecksAreRules DEF Lints, Types
  <2>2. ASSUME NEW named \in BOOLEAN,
               digest' = [state |-> "raw",
                          findings |-> {f \in Lints(projection, rules) : f.named = named}]
        PROVE  Findings(digest')
    <3>1. digest'.findings \subseteq Lints(projection, rules)
      BY <2>2
    <3> QED
      BY <2>1, <3>1 DEF Findings
  <2>3. ASSUME digest' = [state |-> "broken"] \/ digest' = digest PROVE Findings(digest')
    BY <2>3 DEF Types, Findings
  <2>4. Findings(digest')
    BY <1>7, <2>2, <2>3 DEF Lint
  <2> QED
    BY <1>7, <2>4 DEF Lint, Types
<1>8. CASE LintFails
  <2>1. Findings(digest')
    BY <1>8 DEF LintFails, Types, Findings
  <2> QED
    BY <1>8, <2>1, ForgetKeeps DEF LintFails, Fail
<1>9. ASSUME NEW known \in BOOLEAN, Compare(known) PROVE Types'
  <2>1. baseline' \in Stored \cup {None, Unreadable}
    BY <1>9, FoundType DEF Compare, Types
  <2>2. pc' = "capturing" => payload' \in Stored
    <3>1. Payload(Fingerprint(known)) \in Stored
      BY <1>9, PayloadType DEF Compare
    <3> QED
      BY <1>9, <3>1 DEF Compare
  <2> QED
    BY <1>9, <2>1, <2>2 DEF Compare, Types, Findings
<1>10. ASSUME NEW written \in BOOLEAN, Capture(written) PROVE Types'
  BY <1>10 DEF Capture, Types, Findings
<1>11. CASE Report
  <2>1. Findings(digest')
    BY <1>11 DEF Report, Findings
  <2> QED
    BY <1>11, <2>1, ForgetKeeps DEF Report
<1> QED
  BY <1>1, <1>2, <1>3, <1>4, <1>5, <1>6, <1>7, <1>8, <1>9, <1>10, <1>11 DEF Next

-----------------------------------------------------------------------------
(* What is compared with the baseline.                                     *)

\* What a command that compared has still to write does not change the keys.
Pending ==
  /\ pc \in {"capturing", "reporting"} => digest.state = "raw"
  /\ pc = "capturing" =>
       /\ outcome.new = {}
       /\ \/ outcome.status = "created" /\ Found = None
          \/ outcome.status = "refreshed" /\ Found # None /\ payload.keys = Found.keys
  /\ pc = "reporting" =>
       \/ outcome.status \in {"created", "refreshed"} /\ outcome.new = {}
       \/ /\ outcome.status = "reused"
          /\ Found # None /\ outcome.new = Keys(Current) \ Found.keys
Alarms == Found # None => told \cap Found.keys = {}
IInv == Types /\ Pending /\ Alarms /\ AlarmsLast

LEMMA IInit == Init => IInv
<1> SUFFICES ASSUME Init PROVE IInv
  OBVIOUS
<1>1. Pending /\ Alarms /\ AlarmsLast
  BY DEF Init, Pending, Alarms, AlarmsLast, NoDigest
<1> QED
  BY <1>1, TypesInit DEF IInv

LEMMA FoundKept == UNCHANGED <<baseline, copies>> => Found' = Found /\ Compared' = Compared
  BY DEF Found, Compared, IsValid, ValidCopies, LatestCopy

\* Neither a restored nor a refreshed baseline is another one.
LEMMA CompareKeeps ==
  ASSUME Types, NEW known \in BOOLEAN, Compare(known)
  PROVE  Found' = Found /\ (Found # None => Compared' = Found.keys)
<1>1. CASE baseline' = baseline
  BY <1>1, FoundKept, FoundType DEF Compare
<1>2. CASE baseline' = Found /\ Found # None
  <2>1. baseline' \in Stored
    BY <1>2, FoundType
  <2>2. baseline' \notin {None, Unreadable}
    BY <2>1, BaselinesAreStored
  <2> QED
    BY <1>2, <2>2 DEF Found, Compared, IsValid
<1> QED
  BY <1>1, <1>2 DEF Compare

LEMMA CaptureKeeps ==
  ASSUME Types, Pending, NEW written \in BOOLEAN, Capture(written), Found # None
  PROVE  Found' # None /\ Found'.keys = Found.keys /\ Compared' = Found.keys
<1>1. payload \in Stored /\ payload.keys = Found.keys
  BY DEF Capture, Types, Pending
<1>2. CASE written
  <2>1. baseline' = payload /\ payload \notin {None, Unreadable}
    BY <1>1, <1>2, BaselinesAreStored DEF Capture
  <2>2. Found' = payload /\ Compared' = payload.keys
    BY <2>1 DEF Found, Compared, IsValid
  <2> QED
    BY <1>1, <2>1, <2>2
<1>3. CASE ~written
  BY <1>3, FoundKept, FoundType DEF Capture
<1> QED
  BY <1>2, <1>3

LEMMA StoryStep == IInv /\ [Next]_vars => (Pending /\ Alarms /\ AlarmsLast)'
<1> SUFFICES ASSUME IInv, [Next]_vars PROVE (Pending /\ Alarms /\ AlarmsLast)'
  OBVIOUS
<1> USE DEF IInv, disk, work, ghosts
<1>1. ASSUME UNCHANGED <<baseline, copies, told>>,
             \/ UNCHANGED <<digest, pc, scope, payload, outcome>>
             \/ /\ pc' \notin {"capturing", "reporting"}
                /\ digest' = digest \/ digest'.state # "enriched"
      PROVE  (Pending /\ Alarms /\ AlarmsLast)'
  <2>1. Found' = Found
    BY <1>1, FoundKept
  <2>2. Alarms' /\ AlarmsLast'
    BY <1>1, <2>1 DEF Alarms, AlarmsLast
  <2>3. CASE UNCHANGED <<digest, pc, scope, payload, outcome>>
    <3>1. Keys(Current)' = Keys(Current)
      BY <2>3 DEF Current, Keys, Located, PathOf, SectionRoot
    <3>2. Pending'
      BY <2>1, <2>3, <3>1 DEF Pending
    <3> QED
      BY <2>2, <3>2
  <2>4. CASE pc' \notin {"capturing", "reporting"}
    BY <2>2, <2>4 DEF Pending
  <2> QED
    BY <1>1, <2>3, <2>4
<1>2. CASE (\E p \in Paths : ProjectChanges(p)) \/ RulesChange \/ UNCHANGED vars
  BY <1>1, <1>2 DEF ProjectChanges, RulesChange, vars
<1>3. CASE BaselineBreaks
  <2>1. pc' = "idle" /\ told' = {} /\ digest' = digest
    BY <1>3 DEF BaselineBreaks
  <2> QED
    BY <2>1 DEF Pending, Alarms, AlarmsLast
<1>4. CASE Refuse \/ (\E setting \in Settings : Start(setting)) \/ Project
  BY <1>1, <1>4 DEF Refuse, Start, Project
<1>5. CASE Vanished \/ NoDigestLeft \/ DigestUnreadable \/ ReportFails \/ Kill
  BY <1>1, <1>5 DEF Vanished, NoDigestLeft, DigestUnreadable, ReportFails, Kill, Fail
<1>6. CASE Lint
  <2>1. ASSUME NEW findings, digest' = [state |-> "raw", findings |-> findings]
        PROVE  digest'.state # "enriched"
    BY <2>1
  <2>2. ASSUME digest' = [state |-> "broken"] PROVE digest'.state # "enriched"
    BY <2>2
  <2>3. digest' = digest \/ digest'.state # "enriched"
    BY <1>6, <2>1, <2>2 DEF Lint
  <2> QED
    BY <1>1, <1>6, <2>3 DEF Lint
<1>7. CASE LintFails
  <2>1. digest' = digest \/ digest'.state # "enriched"
    BY <1>7 DEF LintFails
  <2> QED
    BY <1>1, <1>7, <2>1 DEF LintFails, Fail
<1>8. ASSUME NEW known \in BOOLEAN, Compare(known) PROVE (Pending /\ Alarms /\ AlarmsLast)'
  <2>1. Found' = Found
    BY <1>8, CompareKeeps
  <2>2. digest' = digest /\ digest.state = "raw" /\ told' = told
    BY <1>8 DEF Compare
  <2>3. Keys(Current)' = Keys(Current)
    BY <1>8 DEF Compare, Current, Keys, Located, PathOf, SectionRoot
  <2>4. CASE Found # None /\ Found.rules = Fingerprint(known) /\ known
    <3>1. pc' = "reporting" /\ outcome' = [status |-> "reused", new |-> Keys(Current) \ Found.keys]
      BY <1>8, <2>4 DEF Compare, NewFindings
    <3>2. Pending'
      BY <2>1, <2>2, <2>3, <2>4, <3>1 DEF Pending
    <3> QED
      BY <2>1, <2>2, <3>2 DEF Alarms, AlarmsLast
  <2>5. CASE ~(Found # None /\ Found.rules = Fingerprint(known) /\ known)
    <3>1. /\ pc' = "capturing" /\ payload' = Payload(Fingerprint(known))
          /\ outcome' = [status |-> IF Found = None THEN "created" ELSE "refreshed", new |-> {}]
      BY <1>8, <2>5 DEF Compare
    <3>2. Found # None => payload'.keys = Found.keys
      BY <3>1 DEF Payload
    <3>3. /\ outcome'.new = {}
          /\ outcome'.status = IF Found = None THEN "created" ELSE "refreshed"
      BY <3>1
    <3>4. Pending'
      BY <2>1, <2>2, <3>1, <3>2, <3>3 DEF Pending
    <3> QED
      BY <2>1, <2>2, <3>4 DEF Alarms, AlarmsLast
  <2> QED
    BY <2>4, <2>5
<1>9. ASSUME NEW written \in BOOLEAN, Capture(written) PROVE (Pending /\ Alarms /\ AlarmsLast)'
  <2>1. /\ pc = "capturing" /\ pc' = "reporting" /\ UNCHANGED <<copies, digest, outcome>>
        /\ outcome.new = {} /\ outcome.status \in {"created", "refreshed"}
        /\ told' \subseteq told /\ digest.state = "raw"
    BY <1>9 DEF Capture, Pending
  <2>2. Pending'
    BY <2>1 DEF Pending
  <2>3. AlarmsLast'
    BY <2>1 DEF AlarmsLast
  <2>4. CASE Found # None
    <3>1. Found' # None /\ Found'.keys = Found.keys
      BY <1>9, <2>4, CaptureKeeps
    <3> QED
      BY <2>1, <2>2, <2>3, <2>4, <3>1 DEF Alarms
  <2>5. CASE Found = None /\ written
    <3>1. told' = {}
      BY <1>9, <2>1, <2>5 DEF Capture, Pending
    <3> QED
      BY <2>2, <2>3, <3>1 DEF Alarms
  <2>6. CASE Found = None /\ ~written
    <3>1. Found' = None
      BY <1>9, <2>6, FoundKept DEF Capture
    <3> QED
      BY <2>2, <2>3, <3>1 DEF Alarms
  <2> QED
    BY <2>4, <2>5, <2>6
<1>10. CASE Report
  <2>1. /\ pc = "reporting" /\ pc' = "idle" /\ told' = told \cup outcome.new
        /\ digest' = [state |-> "enriched", keys |-> Keys(Current), surface |-> Surface(targets),
                      status |-> outcome.status, new |-> outcome.new]
    BY <1>10 DEF Report
  <2>2. Found' = Found
    BY <1>10, FoundKept DEF Report
  <2>3. /\ digest'.status = outcome.status /\ digest'.keys = Keys(Current)
        /\ digest'.new = outcome.new
    BY <2>1
  <2>4. Found # None => told \cap Found.keys = {} /\ outcome.new \cap Found.keys = {}
    BY <2>1 DEF Alarms, Pending
  <2>5. Alarms'
    BY <2>1, <2>2, <2>4 DEF Alarms
  <2>6. outcome.status = "reused" => told' \cap Keys(Current) \subseteq outcome.new
    BY <2>1, <2>4 DEF Pending
  <2> QED
    BY <2>1, <2>3, <2>5, <2>6 DEF Pending, AlarmsLast
<1> QED
  BY <1>2, <1>3, <1>4, <1>5, <1>6, <1>7, <1>8, <1>9, <1>10 DEF Next

LEMMA Inductive == Spec => []IInv
<1>1. IInv /\ [Next]_vars => IInv'
  BY TypesStep, StoryStep DEF IInv
<1> QED
  BY IInit, <1>1, PTL DEF Spec

\* A finding that was called new is called new until it is gone, whatever
\* versions of the rules come in between, lost writes and kills included.
THEOREM NewFindingsStayNew == Spec => []AlarmsLast
<1>1. IInv => AlarmsLast
  BY DEF IInv
<1> QED
  BY <1>1, Inductive, PTL

\* No step of a harness changes what the next one compares with.
LEMMA SurvivalStep ==
  ASSUME IInv, [Next]_vars, pc' # pc, Compared # None PROVE Compared' = Compared
<1>1. Found # None /\ Compared = Found.keys
  BY FoundType DEF IInv
<1> USE DEF IInv, disk, work
<1>2. CASE UNCHANGED <<baseline, copies>>
  BY <1>2, FoundKept
<1>3. ASSUME NEW known \in BOOLEAN, Compare(known) PROVE Compared' = Compared
  BY <1>1, <1>3, CompareKeeps
<1>4. ASSUME NEW written \in BOOLEAN, Capture(written) PROVE Compared' = Compared
  BY <1>1, <1>4, CaptureKeeps
<1>5. CASE ~(\E known \in BOOLEAN : Compare(known)) /\ ~(\E written \in BOOLEAN : Capture(written))
  BY <1>2, <1>5 DEF Next, vars, ProjectChanges, RulesChange, BaselineBreaks, Refuse, Start, Vanished,
                    Project, Lint, LintFails, NoDigestLeft, DigestUnreadable, Report, ReportFails, Kill, Fail
<1> QED
  BY <1>3, <1>4, <1>5

\* What a harness compares with outlives it: no step of a command changes it,
\* be it a refresh, a restoration from a legacy copy, a failed write or a kill.
THEOREM BaselineOutlivesCommands == Spec => BaselineSurvives
<1>1. IInv /\ [Next]_vars => [pc' # pc /\ Compared # None => Compared' = Compared]_vars
  BY SurvivalStep
<1> QED
  BY <1>1, Inductive, PTL DEF Spec, BaselineSurvives
-----------------------------------------------------------------------------
(* What harness-eval was shown.                                            *)

Shown ==
  /\ pc # "idle" => \A p \in scope.included : Native(p) \/ p.root \in ExtraRoots(targets)
  /\ pc \notin {"idle", "scoped"} =>
       DOMAIN projection \subseteq scope.included \cup DOMAIN Injected(targets)

LEMMA ShownInit == Init => Shown
  BY DEF Init, Shown

LEMMA ShownStep == Shown /\ [Next]_vars => Shown'
<1> SUFFICES ASSUME Shown, [Next]_vars PROVE Shown'
  OBVIOUS
<1> USE DEF disk, work
<1>1. ASSUME UNCHANGED work, pc' = pc \/ (pc \notin {"idle", "scoped"} /\ pc' # "scoped") PROVE Shown'
  <2>1. UNCHANGED <<targets, scope, projection>>
    BY <1>1
  <2> QED
    BY <1>1, <2>1 DEF Shown, Native, ExtraRoots, Injected, KitSkills, KitCommands, Under
<1>2. ASSUME pc' = "idle" PROVE Shown'
  BY <1>2 DEF Shown
<1>3. CASE (\E p \in Paths : ProjectChanges(p)) \/ RulesChange \/ BaselineBreaks \/ Refuse \/ UNCHANGED vars
  BY <1>1, <1>3 DEF ProjectChanges, RulesChange, BaselineBreaks, Refuse, vars
<1>4. ASSUME NEW setting \in Settings, Start(setting) PROVE Shown'
  <2>1. scope'.included = Included(DOMAIN project, targets') /\ pc' = "scoped"
    BY <1>4 DEF Start, Scope
  <2>2. \A p \in scope'.included : Native(p) \/ p.root \in ExtraRoots(targets')
    BY <2>1 DEF Included, Walked
  <2> QED
    BY <2>1, <2>2 DEF Shown
<1>5. CASE Vanished \/ LintFails \/ NoDigestLeft \/ DigestUnreadable \/ Report \/ ReportFails \/ Kill
  BY <1>2, <1>5 DEF Vanished, LintFails, NoDigestLeft, DigestUnreadable, Report, ReportFails, Kill, Fail
<1>6. CASE Project
  <2>1. DOMAIN projection' = scope.included \cup DOMAIN Injected(targets) /\ UNCHANGED <<scope, targets>>
    BY <1>6 DEF Project, Projection
  <2>2. pc # "idle"
    BY <1>6 DEF Project
  <2> QED
    BY <2>1, <2>2 DEF Shown
<1>7. CASE Lint \/ (\E known \in BOOLEAN : Compare(known)) \/ (\E written \in BOOLEAN : Capture(written))
  BY <1>1, <1>7 DEF Lint, Compare, Capture
<1> QED
  BY <1>3, <1>4, <1>5, <1>6, <1>7 DEF Next

LEMMA OnlyOpencode ==
  ASSUME NEW hs \in SUBSET Harnesses, Surface(hs) = "projection" PROVE hs \subseteq {"opencode"}
<1>1. IsFiniteSet(Harnesses)
  <2>1. IsFiniteSet({"claude-code"})
    BY FS_Singleton
  <2>2. IsFiniteSet({"claude-code"} \cup {"opencode"})
    BY <2>1, FS_AddElement
  <2>3. IsFiniteSet({"claude-code"} \cup {"opencode"} \cup {"copilot-cli"})
    BY <2>2, FS_AddElement
  <2>4. IsFiniteSet({"claude-code"} \cup {"opencode"} \cup {"copilot-cli"} \cup {"codex"})
    BY <2>3, FS_AddElement
  <2>5. Harnesses = {"claude-code"} \cup {"opencode"} \cup {"copilot-cli"} \cup {"codex"}
    BY DEF Harnesses
  <2> QED
    BY <2>4, <2>5
<1>2. IsFiniteSet(hs) /\ Cardinality(hs) \in Nat
  BY <1>1, FS_Subset, FS_CardinalityType
<1>3. Cardinality(hs) < 2 /\ ("opencode" \in hs \/ hs = {})
  BY DEF Surface
<1>4. CASE "opencode" \in hs
  <2>1. Cardinality(hs) = 1
    BY <1>2, <1>3, <1>4, FS_EmptySet
  <2>2. PICK x : hs = {x}
    BY <1>2, <2>1, FS_Singleton
  <2> QED
    BY <1>4, <2>2
<1> QED
  BY <1>3, <1>4

LEMMA InjectedIsNative ==
  ASSUME NEW hs \in SUBSET {"opencode"} PROVE \A p \in DOMAIN Injected(hs) : Native(p)
<1>1. InjectRoots(hs) \subseteq {".opencode/skills"}
  BY DEF InjectRoots, SkillRoots
<1>2. \A p \in KitSkills(hs) : Native(p)
  BY <1>1 DEF KitSkills, Under, Native
<1>3. \A r \in InjectRoots(hs) : CommandRoot(r) = ".opencode/commands"
  BY <1>1 DEF CommandRoot
<1>4. \A p \in KitCommands(hs) : Native(p)
  BY <1>3 DEF KitCommands, Under, Native
<1> QED
  BY <1>2, <1>4 DEF Injected

\* The surface that a digest declares covers what was linted: with "projection"
\* nothing of another harness was shown to harness-eval.
THEOREM SurfaceIsTrue == Spec => []SurfaceCoversProjection
<1>1. Types /\ Shown => SurfaceCoversProjection
  <2> SUFFICES ASSUME Types, Shown, pc = "reporting", Surface(targets) = "projection",
                      NEW p \in DOMAIN projection
               PROVE  Native(p)
    BY DEF SurfaceCoversProjection
  <2>1. targets \in SUBSET {"opencode"}
    BY OnlyOpencode DEF Types
  <2>2. ExtraRoots(targets) = {}
    <3>1. \A h \in targets : SkillRoots(h) = {".opencode/skills"}
      BY <2>1 DEF SkillRoots
    <3> QED
      BY <3>1 DEF ExtraRoots
  <2>3. p \in scope.included \/ p \in DOMAIN Injected(targets)
    BY DEF Shown
  <2> QED
    BY <2>1, <2>2, <2>3, InjectedIsNative DEF Shown
<1>2. IInv => Types
  BY DEF IInv
<1> QED
  BY <1>1, <1>2, ShownInit, ShownStep, Inductive, PTL DEF Spec
=============================================================================

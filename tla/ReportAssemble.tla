--------------------------- MODULE ReportAssemble ---------------------------
(***************************************************************************)
(* report-prep and report-assemble on one run directory, while branch and  *)
(* audit workers may still be writing in it.                               *)
(*                                                                         *)
(* Every gate of report.py reads the files it judges when it reaches them, *)
(* so each gate is a step.  One gate may read several files: as a file is  *)
(* written independently of the others, reading them in one step loses no  *)
(* verdict.                                                                *)
(***************************************************************************)
EXTENDS Naturals, FiniteSets

CONSTANTS
  Audits,     \* sessions that an audit worker may have been given
  Branches,   \* artifacts that are optional until a branch declares them
  Summary,    \* weekly-summary, always required
  Timings,    \* contents of weekly-timings considered, see TimingsShapes
  Summaries,  \* contents of weekly-summary considered, see SummaryShapes
  Manifests,  \* contents of skill-curate considered, see ManifestShapes
  MaxTries,   \* bound: report commands run on the directory
  Kills       \* TRUE when a command may be killed (tool timeout)

Shapes == {"absent", "broken", "valid"}
AuditShapes == {"absent", "unreadable", "rejected", "valid"}

(* What a JOIN record says: rc 2, rc 1, a worker contract with rc 0 and an *)
(* empty warnings list, a mapping with rc 0 and nothing else, a string, an *)
(* external permission refusal, an optional input; or a recovered artifact *)
(* or a truncated transcript, which point at a file.                       *)
PlainKinds == {"fatal", "failed", "complete", "bare", "text", "external", "optional"}
Plain(kind) == [kind |-> kind, of |-> Summary]
Recovered(b) == [kind |-> "recovered", of |-> b]
Truncated(s) == [kind |-> "truncated", of |-> s]
Records == {Plain(k) : k \in PlainKinds}
             \cup {Recovered(b) : b \in Branches} \cup {Truncated(s) : s \in Audits}

\* An external permission refusal and an optional input never count.
Facts == {Plain("external"), Plain("optional")}

TimingsShapes == [state : {"absent", "broken", "present"}, branches : SUBSET Branches,
                  audits : SUBSET Audits, records : SUBSET Records]
SummaryShapes == [rc : 0 .. 2, records : SUBSET Records,
                  inputs : {"none", "optional", "blocking"}]
ManifestShapes == [state : {"absent", "unreadable", "malformed", "present"},
                   mode : {"dry-run", "apply"}, rc : 0 .. 2, refusals : {"none", "external", "plain"}]

ASSUME SummaryIsNoBranch == Summary \notin Branches
ASSUME TimingsAreTimings ==
  /\ Timings \subseteq TimingsShapes
  /\ \A t \in Timings : t.state # "present" => t.branches = {} /\ t.audits = {} /\ t.records = {}
ASSUME SummariesAreSummaries == Summaries \subseteq SummaryShapes
ASSUME ManifestsAreManifests ==
  /\ Manifests \subseteq ManifestShapes
  /\ \A m \in Manifests : m.state # "present" => m.mode = "apply" /\ m.rc = 0 /\ m.refusals = "none"
ASSUME BoundIsNatural == MaxTries \in Nat /\ Kills \in BOOLEAN
ASSUME AuditsAreFinite == IsFiniteSet(Audits)

VARIABLES
  file,     \* shape of the summary and of each branch artifact
  audit,    \* shape of each audit-findings file
  timings, summary, manifest,  \* contents written before the report commands
  signal,   \* the coherence findings ask for curation
  critical, \* the harness digest has a critical security finding
  draft,    \* weekly-report-draft: "absent", "torn" or "whole"
  report,   \* the command that wrote weekly-report, 0 when there is none
  gates,    \* weekly-report-gates: its command, its rc, its artifact verdict
  partials, rejects,  \* resilience counters of run_state.json
  pc, tries,
  text,     \* the draft as assemble loaded it
  rc,       \* exit code computed so far
  partial,  \* audits named by the "JOIN partiel" warning
  html,     \* outcome of the HTML rendering
  answer,   \* what the last command answered
  killed    \* ghost: the commands that were killed

contents == <<timings, summary, manifest, signal, critical>>
workers == <<file, audit>>
outputs == <<draft, report, gates, partials, rejects>>
locals == <<text, rc, partial, html, killed>>
vars == <<workers, contents, outputs, pc, tries, locals, answer>>

NoGates == [try |-> 0, rc |-> 0, artifacts |-> "none"]
NoAnswer == [cmd |-> "none", rc |-> 0, gate |-> "none"]
GateFiles == [try : Nat, rc : 0 .. 2, artifacts : {"none", "pass", "incomplete"}]
Answers == [cmd : {"none", "prep", "assemble", "killed"}, rc : 0 .. 2,
            gate : {"none", "draft", "artifacts", "curation", "marker", "raised"}]
PrepSteps == {"drafting", "prepGate", "prepRc"}
AssembleSteps == {"artifacts", "summary", "curation", "security", "marker",
                  "writing", "consuming", "rendering", "persisting"}

TypeOK ==
  /\ file \in [Branches \cup {Summary} -> Shapes]
  /\ audit \in [Audits -> AuditShapes]
  /\ timings \in Timings /\ summary \in Summaries /\ manifest \in Manifests
  /\ signal \in BOOLEAN /\ critical \in BOOLEAN
  /\ draft \in {"absent", "torn", "whole"} /\ text \in {"absent", "torn", "whole"}
  /\ report \in Nat
  /\ gates \in GateFiles
  /\ partials \in Nat /\ rejects \in Nat
  /\ pc \in {"idle"} \cup PrepSteps \cup AssembleSteps
  /\ tries \in Nat /\ killed \subseteq Nat
  /\ rc \in 0 .. 2
  /\ partial \in SUBSET Audits
  /\ html \in {"none", "off", "present", "failed", "external"}
  /\ answer \in Answers

-----------------------------------------------------------------------------
(* Verdicts on the files as they are now.                                  *)

\* Mutant: exit codes are added.
AtLeastAdded(a, b) == a + b

\* rc = max(rc, ...), as every gate combines its verdict.
AtLeast(a, b) == IF a < b THEN b ELSE a

\* _branch_applicability: a branch named by the timings becomes required.
RequiredFiles == {Summary} \cup timings.branches
MissingFiles == {f \in RequiredFiles : file[f] # "valid"}

\* _audit_artifact_declarations and _check_dynamic_audit_artifact.
MissingAudits == {s \in timings.audits : audit[s] # "valid"}
RejectedAudits == {s \in timings.audits : audit[s] = "rejected"}

\* _collect_join_records: of the timings, a mapping with rc 0 and nothing else is dropped.
JoinRecords(more) == summary.records \cup (more \ {Plain("bare")})

\* _warning_is_nonblocking, _truncated_record_valid, _recoverable_artifact_valid.
Nonblocking(r) ==
  \/ r \in Facts
  \/ \E b \in Branches : r = Recovered(b) /\ file[b] = "valid"
  \/ \E s \in Audits : r = Truncated(s) /\ audit[s] = "valid"

\* _empty_records_rc.
EmptyRecordsRc ==
  CASE summary.inputs = "blocking" -> 1
    [] summary.inputs = "optional" -> 0
    [] OTHER -> IF summary.rc = 0 THEN 0 ELSE 1

\* applicable_summary_rc.
ApplicableSummaryRc(more) ==
  IF file[Summary] # "valid" \/ summary.rc = 2 \/ Plain("fatal") \in JoinRecords(more) THEN 2
  ELSE IF JoinRecords(more) = {} THEN EmptyRecordsRc
  ELSE IF \A r \in JoinRecords(more) : Nonblocking(r) THEN 0 ELSE 1

\* _curation_manifest_gate and _manifest_refusal_verdict: "raised" is the
\* TypeError of all(<bool>) in report.py:2783.
CurationVerdict ==
  IF manifest.state \in {"unreadable", "malformed"} \/ manifest.rc = 2 THEN "fatal"
  ELSE IF manifest.mode = "dry-run" THEN "clean"
  ELSE IF manifest.rc = 1 /\ manifest.refusals # "none" THEN "raised"
  ELSE IF manifest.rc = 1 \/ manifest.refusals = "plain" THEN "refused"
  ELSE "clean"
CurationMissing == signal /\ manifest.state = "absent"

-----------------------------------------------------------------------------
Init ==
  /\ file \in [Branches \cup {Summary} -> Shapes]
  /\ audit = [s \in Audits |-> "absent"]
  /\ timings \in Timings /\ summary \in Summaries /\ manifest \in Manifests
  /\ signal \in BOOLEAN /\ critical \in BOOLEAN
  /\ draft = "absent" /\ report = 0 /\ gates = NoGates
  /\ partials = 0 /\ rejects = 0
  /\ pc = "idle" /\ tries = 0
  /\ text = "absent" /\ rc = 0 /\ partial = {} /\ html = "none"
  /\ answer = NoAnswer /\ killed = {}

Goto(step) == pc' = step
\* gate names what stopped the command, "none" when it went to its end.
Answer(cmd, code, gate) ==
  /\ answer' = [cmd |-> cmd, rc |-> code, gate |-> gate]
  /\ Goto("idle")

(* The workers: a late one writes whenever it likes; a file may be torn or *)
(* off contract for a while, and nothing is rewritten once valid.          *)
BranchWrites(b) ==
  /\ file[b] # "valid"
  /\ \E shape \in {"broken", "valid"} \ {file[b]} : file' = [file EXCEPT ![b] = shape]
  /\ UNCHANGED <<audit, contents, outputs, pc, tries, locals, answer>>

AuditWrites(s) ==
  /\ audit[s] # "valid"
  /\ \E shape \in {"unreadable", "rejected", "valid"} \ {audit[s]} :
       audit' = [audit EXCEPT ![s] = shape]
  /\ UNCHANGED <<file, contents, outputs, pc, tries, locals, answer>>

(* report-prep.                                                            *)
PrepStarts ==
  /\ pc = "idle" /\ tries < MaxTries
  /\ tries' = tries + 1
  /\ IF file[Summary] = "valid"
     THEN Goto("drafting") /\ answer' = NoAnswer
     ELSE Answer("prep", 2, "draft")
  /\ UNCHANGED <<workers, contents, outputs, locals>>

DraftWritten ==
  /\ pc = "drafting"
  /\ draft' = "whole"
  /\ Goto("prepGate")
  /\ UNCHANGED <<workers, contents, report, gates, partials, rejects, tries, locals, answer>>

PrepGate ==
  /\ pc = "prepGate"
  /\ IF MissingFiles \cup MissingAudits = {}
     THEN Goto("prepRc") /\ UNCHANGED answer
     ELSE Answer("prep", 2, "artifacts")
  /\ UNCHANGED <<workers, contents, outputs, tries, locals>>

\* The records of the timings are not consulted here.
PrepRc ==
  /\ pc = "prepRc"
  /\ Answer("prep", ApplicableSummaryRc({}), "none")
  /\ UNCHANGED <<workers, contents, outputs, tries, locals>>

(* report-assemble.  A refusal has no path: report_assemble then restores  *)
(* the runs/current alias, an exception does not.                          *)
Refuse(gate) == Answer("assemble", 2, gate)

\* Mutant: the draft is consumed as soon as it is read.
AssembleStartsConsuming ==
  /\ pc = "idle" /\ tries < MaxTries
  /\ tries' = tries + 1
  /\ text' = draft /\ rc' = 0 /\ partial' = {} /\ html' = "none" /\ draft' = "absent"
  /\ IF draft = "absent"
     THEN Refuse("draft")
     ELSE Goto("artifacts") /\ answer' = NoAnswer
  /\ UNCHANGED <<workers, contents, report, gates, partials, rejects, killed>>

AssembleStarts ==
  /\ pc = "idle" /\ tries < MaxTries
  /\ tries' = tries + 1
  /\ text' = draft /\ rc' = 0 /\ partial' = {} /\ html' = "none"
  /\ IF draft = "absent"
     THEN Refuse("draft")
     ELSE Goto("artifacts") /\ answer' = NoAnswer
  /\ UNCHANGED <<workers, contents, outputs, killed>>

\* _assemble_artifact_gate, _record_audit_envelope_rejects.
ArtifactGate ==
  /\ pc = "artifacts"
  /\ rejects' = rejects + Cardinality(RejectedAudits)
  /\ IF MissingFiles # {}
     THEN Refuse("artifacts") /\ UNCHANGED <<rc, partial, partials, killed>>
     ELSE /\ partial' = MissingAudits
          /\ rc' = IF MissingAudits = {} THEN 0 ELSE 1
          /\ partials' = IF MissingAudits = {} THEN partials ELSE partials + 1
          /\ Goto("summary")
          /\ UNCHANGED answer
  /\ UNCHANGED <<workers, contents, draft, report, gates, tries, text, html, killed>>

\* Mutant: the rc of the summary replaces the one of the artifact gate.
SummaryGateUnpinned ==
  /\ pc = "summary"
  /\ rc' = ApplicableSummaryRc(timings.records)
  /\ Goto("curation")
  /\ UNCHANGED <<workers, contents, outputs, tries, text, partial, html, answer, killed>>

\* Mutant: the pin looks at the audits again instead of the warning.
SummaryGatePinsLate ==
  /\ pc = "summary"
  /\ rc' = AtLeast(IF MissingAudits = {} THEN 0 ELSE 1, ApplicableSummaryRc(timings.records))
  /\ Goto("curation")
  /\ UNCHANGED <<workers, contents, outputs, tries, text, partial, html, answer, killed>>

\* The gate's rc is overwritten, then pinned by the "JOIN partiel" warning.
SummaryGate ==
  /\ pc = "summary"
  /\ rc' = AtLeast(IF partial = {} THEN 0 ELSE 1, ApplicableSummaryRc(timings.records))
  /\ Goto("curation")
  /\ UNCHANGED <<workers, contents, outputs, tries, text, partial, html, answer, killed>>

CurationGate ==
  /\ pc = "curation"
  /\ \/ CurationVerdict = "fatal" /\ Refuse("curation") /\ UNCHANGED rc
     \/ CurationVerdict = "raised"
          /\ Answer("assemble", 2, "raised") /\ UNCHANGED rc
     \/ /\ CurationVerdict \in {"refused", "clean"}
        /\ rc' = AtLeast(IF CurationVerdict = "refused" \/ CurationMissing THEN 1 ELSE 0, rc)
        /\ Goto("security")
        /\ UNCHANGED answer
  /\ UNCHANGED <<workers, contents, outputs, tries, text, partial, html, killed>>

SecurityGate ==
  /\ pc = "security"
  /\ rc' = AtLeast(IF critical THEN 1 ELSE 0, rc)
  /\ Goto("marker")
  /\ UNCHANGED <<workers, contents, outputs, tries, text, partial, html, answer, killed>>

Marker ==
  /\ pc = "marker"
  /\ IF text = "whole" THEN Goto("writing") /\ UNCHANGED answer ELSE Refuse("marker")
  /\ UNCHANGED <<workers, contents, outputs, tries, locals>>

WriteReport ==
  /\ pc = "writing"
  /\ report' = tries
  /\ Goto("consuming")
  /\ UNCHANGED <<workers, contents, draft, gates, partials, rejects, tries, locals, answer>>

ConsumeDraft ==
  /\ pc = "consuming"
  /\ draft' = "absent"
  /\ Goto("rendering")
  /\ UNCHANGED <<workers, contents, report, gates, partials, rejects, tries, locals, answer>>

\* The renderer fails inside the worktree, outside it, or not at all.
RenderHtml ==
  /\ pc = "rendering"
  /\ html' \in {"off", "present", "failed", "external"}
  /\ rc' = AtLeast(IF html' = "failed" THEN 1 ELSE 0, rc)
  /\ Goto("persisting")
  /\ UNCHANGED <<workers, contents, outputs, tries, text, partial, answer, killed>>

\* Mutant: a renderer that fails leaves no gates file.
PersistGatesWhenRendered ==
  /\ pc = "persisting"
  /\ gates' = IF file[Summary] = "valid" /\ html # "failed"
              THEN [try |-> tries, rc |-> rc, artifacts |-> "pass"]
              ELSE gates
  /\ Answer("assemble", rc, "none")
  /\ UNCHANGED <<workers, contents, draft, report, partials, rejects, tries, locals>>

\* _assemble_html_gate validates again, with neither the branches nor the
\* audits of the timings; the context is None when the summary is not valid.
PersistGates ==
  /\ pc = "persisting"
  /\ gates' = IF file[Summary] = "valid"
              THEN [try |-> tries, rc |-> rc, artifacts |-> "pass"]
              ELSE gates
  /\ Answer("assemble", rc, "none")
  /\ UNCHANGED <<workers, contents, draft, report, partials, rejects, tries, locals>>

\* The tool's timeout kills the command; a draft being written is torn.
Kill ==
  /\ Kills /\ pc # "idle"
  /\ draft' \in IF pc = "drafting" THEN {draft, "torn"} ELSE {draft}
  /\ killed' = killed \cup {tries}
  /\ Answer("killed", 0, "none")
  /\ UNCHANGED <<workers, contents, report, gates, partials, rejects, tries, text, rc, partial, html>>

Prep == PrepStarts \/ DraftWritten \/ PrepGate \/ PrepRc
Gates == ArtifactGate \/ SummaryGate \/ CurationGate \/ SecurityGate \/ Marker
Output == WriteReport \/ ConsumeDraft \/ RenderHtml \/ PersistGates
Assemble == AssembleStarts \/ Gates \/ Output
Workers == (\E b \in Branches : BranchWrites(b)) \/ (\E s \in Audits : AuditWrites(s))

Next == Prep \/ Assemble \/ Workers \/ Kill
Spec == Init /\ [][Next]_vars

-----------------------------------------------------------------------------
(* Properties.                                                             *)

\* A curation that is neither fatal nor refused, nor owed to the coherence.
CurationSettled ==
  /\ manifest.state \notin {"unreadable", "malformed"}
  /\ manifest.mode = "dry-run" \/ (manifest.rc = 0 /\ manifest.refusals # "plain")
  /\ signal => manifest.state # "absent"

Assembled == answer.cmd = "assemble" /\ answer.gate = "none"

\* A clean exit (rc 0) stands on complete inputs: every branch and audit that
\* the JOIN declared is valid, no record reports a failure, no curation is
\* refused or owed, and the digest has no critical security finding.
CleanRcMeansCompleteReport ==
  answer.cmd = "assemble" /\ answer.rc = 0 =>
    /\ report # 0
    /\ MissingFiles = {} /\ MissingAudits = {}
    /\ JoinRecords(timings.records) \cap {Plain(k) : k \in {"fatal", "failed", "text"}} = {}
    /\ \A s \in Audits : Truncated(s) \in JoinRecords(timings.records) => audit[s] = "valid"
    /\ summary.rc # 2
    /\ CurationSettled
    /\ ~critical
    /\ html # "failed"

\* A fatal join record or a fatal summary is never downgraded to 0 or 1.
FatalIsNeverDowngraded ==
  answer.cmd = "assemble"
    /\ (summary.rc = 2 \/ Plain("fatal") \in JoinRecords(timings.records)) => answer.rc = 2

\* An audit that arrives after the artifact gate does not make whole the
\* report that was announced as partial.
LateAuditStaysPartial == Assembled /\ partial # {} => answer.rc >= 1

\* Facts do not count: with complete inputs, external refusals, optional
\* inputs, recovered inputs and truncated transcripts whose declared file is
\* valid, and a dry-run curation, the review ends with rc 0.
FactsDoNotDegrade ==
  /\ Assembled
  /\ partial = {}
  /\ JoinRecords(timings.records) # {} /\ summary.rc # 2
  /\ JoinRecords(timings.records) \subseteq Facts
       \cup {Recovered(b) : b \in timings.branches} \cup {Truncated(s) : s \in timings.audits}
  /\ CurationSettled /\ ~critical /\ html # "failed"
  => answer.rc = 0

\* The gates file is never ahead of the report; unless the command that wrote
\* the report was killed, it is that command's, with the rc it answered.
GatesDescribeTheReport ==
  /\ gates.try <= report
  /\ pc = "idle" /\ report \notin killed => gates.try = report
  /\ Assembled => gates.rc = answer.rc

\* An assemble that is refused leaves everything it would need to be run
\* again: the draft is still there unless it was missing from the start.
RefusedAssembleKeepsDraft ==
  answer.cmd = "assemble" /\ answer.gate \notin {"none", "draft"} => draft # "absent"

(* Statements of the documentation.                                        *)

\* tool-registry.ts:321 "rc>=2 = echec, aucun livrable"; decisions/0006:47
\* "an rc=2 with an artefact present is a state no consumer handles".
RcTwoMeansNoReport == answer.rc = 2 => ~Assembled

\* report.py:2808 "Apply refusals remain counted": they give rc 1, a report.
ApplyRefusalIsCounted == answer.gate # "raised"
=============================================================================

# Verification of the weekly-advisor kit

The weekly-advisor kit reviews, once a week, how a project uses its coding agents. An OpenCode plugin
(TypeScript) exposes a set of tools; each tool starts the Python engine `weekly_telemetry_aggregator` as a
process of its own; an orchestrating agent calls the tools in waves, and worker agents write JSON artifacts
in between. The engine has no daemon and no lock: all that one command tells the next one is a file. What is
hard about the system happens between two files: a process that dies, a review that starts before the last
one ended, a day that changes, an artifact that never comes, a gate that refuses, a write that is cut, a
user who works in the same checkout.

This directory holds TLA+ modules that model those parts, the TLC configurations that check them on small
instances, and proofs that TLAPS checks for every value of the constants. In this file `E/` stands for
`src/.opencode/plugins/weekly-advisor-engine/weekly_telemetry_aggregator/`, `P/` for
`src/.opencode/plugins/weekly-advisor/` and "agent" for `src/.opencode/agents/weekly-advisor/weekly-advisor.md`.

    tlc -workers 2 -config RunStateBenign.cfg MCRunState     # one run
    tlapm RunStateProofs.tla                                 # one module of proofs

`PROJECT.json` lists the runs, the source lines of every definition, the hazards and the theorems. For each
property of a passing run it also names a *mutant*: an operator of the module, marked `Mutant:`, that replaces
a definition the way a plausible bug would and makes the property fail.

## The parts of the system

| Part | State it keeps | Operations | Talks to |
|---|---|---|---|
| Run state: `E/run_state.py`, `E/writer.py` | `runs/<date>-<uuid>/`, the alias `runs/current`, `run_state.json` | activate a run, resolve its directory, record an event, roll the alias back | every command resolves its directory through it |
| Collection: `E/main.py` (run), `E/usage.py`, `E/aggregator/`, `E/providers/`, `E/sqlite_reader.py` | `weekly-summary` | list sessions, read them one by one, merge forks and children, aggregate | databases that other programs go on writing |
| Harness: `E/main.py` (harness), `E/harness_scope.py`, `E/draft_targets.py` | digest of the day, baseline in `state/` and its legacy copies | scope, project, lint, compare | harness-eval; the files of the project |
| Audit candidates: `E/candidates.py`, `E/cli_core.py` | `weekly-audit-candidates` with the sessions handed over | rank, split at the limit, take up what the last review left | summary, worker records |
| Insights and rules: `E/insights.py`, `E/rule_*.py` | `weekly-insights`, `previous_run.json` | find the previous run, compare, evaluate the rules | summaries and digests of all runs |
| Report: `E/report.py`, `E/cli_report.py` | draft, Markdown and HTML report, `weekly-report-gates` | `report-prep`, blocks-draft, `report-assemble` with its gates | reads the artifacts of all waves; rolls the alias back |
| Watch memory: `E/watch_memory.py` | `watch-memory.jsonl`, append-only, outlives the reviews | read, merge, filter, append | distill and validation |
| Distill, validation: `E/watch_distill.py`, `E/watch_validation.py`, `E/cli_watch.py` | candidates, findings, digest of the day | `watch-distill`, `watch-validate` | ecosystem file, raw findings of a worker |
| Harness remediation: `E/harness_remediation.py` | files of the project, `weekly-harness-remediation` | validate, apply, post-check, restore | harness digest, proposals of an agent |
| Skill curation: `E/curation.py`, `E/cli_skill_curate.py`, `E/skill_surface.py` | skill directories and their archive, manifest | decide, archive, write the manifest | summary, skill memory, report gate |
| Draft commits: `E/safe_git_write.py`, `P/tool-registry.ts` | git index, branch, checkout of the kit | guards, add, commit, mirror, facts | the user's repository; the report counts the facts |
| Releases: `E/releases/` | `weekly-ecosystem` | fetch with retries, deduplicate | network |
| Plugin runtime: `P/runtime.ts`, `P/tool-registry.ts`, adapters | anchor file of the day | start the engine with a timeout, stage payloads | engine |
| Orchestration: agent and worker files | `weekly-timings` (the JOIN) | waves, waits, stops | tools and workers |
| HTML report, configuration, doctor, scripts | none | render, parse, copy | — |

What is hard in them, and what makes them correct:

* **Run state.** The alias moves before its run has anything to show; a review is several processes over
  possibly two days; two reviews share one `run_state.json`; the link moves in two steps on Windows. Correct
  when the alias designates the latest deliverable between reviews, no report lands in another run and every
  pointer names a run that was created.
* **Collection.** A database that is not locked is listed, then read session by session, while agents touch,
  fork, spawn and delete sessions. Correct when no step is counted twice, nothing that is included vanishes
  from the totals, every session has one disposition, and what could not be read is told.
* **Harness and baseline.** A restored, refreshed or corrupt baseline decides which findings are new. Correct
  when what is compared with outlives every command and an alarm lasts as long as its finding.
* **Audit candidates.** Sessions over the limit wait in a file for a review that may not come, may come twice
  or may have no summary. Correct when none is lost, a second command leaves what the first one left, no review
  takes over from itself and the urgent ones go first.
* **Insights.** The previous run is found through files that other sessions write, replay, damage or remove,
  and that the link `runs/current` lists a second time. Correct when a week is compared with an earlier one, never
  with itself or a later one, and no skill in use is proposed for retirement on too little evidence. Some of
  these wishes do not hold, as told below.
* **Report.** A dozen record forms, three exit codes, gates that overwrite and then pin each other's rc, and
  workers that outlive their deadline and write between two gates. Correct when the exit code tells the truth
  about the files.
* **Watch memory.** A file that lives for years, appended to by processes that may be killed in the middle of
  a line. Correct when what was written is read back and what was ignored stays hidden until it changes.
* **Harness remediation.** The one command that edits the user's project: several files, one by one, while
  the user edits them too. Correct when a change stays only if tested and told of, and no edit is lost.
* **Skill curation.** Checks, then a move, with another session or the user in between. Correct when no
  version of a skill is destroyed, no protected one is moved and the manifest's counters are its decisions.
* **Draft commits.** Several git commands in a repository where the user works. Correct when a commit holds
  the draft alone, a refusal made none, and the report counts each once.
* **Plugin and orchestration.** Tools in parallel over one anchor file, a JOIN that must not deduce success
  from silence. Their effects on files are actions of the modules, timeouts included.

## Modules

| Module | Role |
|---|---|
| `RunState` | the life of a review on disk |
| `DeliverableAlias` | abstract: what `runs/current` promises its readers |
| `TelemetryCollection` | `run`: one collection of the week |
| `HarnessBaseline` | `harness`: scope, projection, findings, baseline |
| `AuditQueue` | `audit-candidates`, from review to review |
| `RuleEngine` | the declarative rules, as operators |
| `InsightsHistory` | `insights` among the runs of a directory; extends `RuleEngine` |
| `ReportAssemble` | `report-prep` and `report-assemble` on one run directory |
| `WatchMemory` | the store of the watch and the two commands that use it |
| `HarnessRemediation` | `harness-remediate` on the files of a project |
| `SkillCuration` | `skill-curate` by two sessions, beside a user |
| `CommitDraft` | `weekly_commit_draft` and what the report counts of it |
| `DraftLog` | what can be seen of it from outside, and what must hold of that; extended by `CommitDraft` |
| `Orders` | the list of a finite set in a strict order and the part of a list at some places, used wherever the code sorts or filters |
| `MC...` | small instances of each for TLC; `CommitDraft` needs none |
| `...Proofs` | theorems of the module of that name; `CurationProofs` has those of `SkillCuration` and of `CommitDraft`, `TelemetryProofs` those of `TelemetryCollection` and of `InsightsHistory` |

### RunState

`link` is `runs/current`, `state` the fields of `run_state.json` that anything reads, `dirs` the directories
under `runs/`, and `summaries`, `drafts`, `reports` the files by directory and date. `pc[r]` says what
review `r` does next. `activate_run` (run_state.py:94-127) is `MakeRunDir`, `ReadPrevious`, `PointAtNewRun`,
`WriteState`, `MigrateLegacyRoot`, and the collection ends with `WriteSummary`. `Prep` and `PrepRefuses` are
`report-prep`, `AssembleStarts` to `ConsumeDraft` the success of `report-assemble`, `RollbackReads` to
`RollbackWrites` its failure (`rollback_current_link`, `record_resilience_event`). Every effect on the file
system is one step, so that a crash or the other review comes between any two. The environment is split into
kinds of behaviour that a configuration admits or not (`Faults`): `crash`, `stop` (the orchestrator ends the
review on rc 2), `retry`, `overlap` (two reviews at once), `midnight` (the day changes during a review),
`windows` (the link is removed, then renamed) and `purge` (any run directory is deleted at any moment: that of the
run in progress, or the one to restore between the test of its existence and the link). A report that cannot be
written into a deleted directory raises (`WriteRaises`). The ghost `spoiled` says whether the latest deliverable was
deleted, or an assemble lost its directory, since the last report (`"deleted"`), or a process died, a review
stopped, a command was repeated or two reviews overlapped, ever (`"disordered"`).

`DeliverableAlias` has three variables and no files: the alias follows the run in progress, only that run
delivers, and the alias ends on the run that delivered last. `RunState!Abstract` instantiates it with
`alias <- link` and `active <- Active`, the only review whose place is not settled.

### TelemetryCollection

`db` holds the sessions of two harnesses, of each the parent, the steps and user turns of the window, whether
it is still active and which steps have no price. A source reads the live database
(OpenCode) or the transcripts as they were at the start (Claude Code; `Seen`). `ListWindow`
and `ListAll` are the two listings of `_run_list_windowed`, `KeepFirst` and `Dedup` the deduplication over
sources, `SkipActive`, `SkipAdvisor`, `ReadSteps`, `ReadFails`, `FindNoSteps` and `Include` the fate of one
session in `build_usage`; `turn` and `half` say which listing of which provider is next, and `reading` holds what
`session_steps` returned until the turns are read (an exception of `has_telemetry_rows`, which stands
outside of the guarded block of usage.py:177, ends the run and not one session). `MarkResumed` is the merge of forks, `Aggregate`, `Write` and `Stamp` the two writes of
the summary. `UserWorks`, `UserDeletes`, `UserSpawns` and `UserForks` come between any two reads. A step is a
model value and a cost a count of steps, so that what is added up can be told apart; the assumption
`StepsHaveOneHarness` says that a step is a row of one harness. `Interrupt` is the kill by the tool's timeout. Left
out: the parsing of the databases, the statistics, the prices themselves.

### HarnessBaseline

A path is a scanned root and a name; of a file the model keeps the rules it breaks, of a glob the paths it
matches. `Start` resolves the targets and the scope (`Resolved`, `Scope`), `Project` copies it and adds the
content of the kit (`Injected`), `Lint` leaves any digest that harness-eval may write of the copy, with
findings that name their path or not. `Compare` localises them (`PathOf`), finds the
baseline or the last valid legacy copy (`Found`) and decides among captured, reused, refreshed and restored;
`Capture` writes it or fails, `Report` enriches the digest. `told` and `taken` are ghosts: what was
called new since the baseline was created, and what the last capture or refresh saw. Left out: the counts of the
digest (`harness_digest_counts`), which are shown and decide nothing.

### AuditQueue

A summary is a function from sessions to rows of a cost, a place among the dearest and the facts that make a
session worth an audit. `AuditCandidates` is the whole command: signals and their order (`Selected`), the
records of the workers merged so that a failure stays (`Outcomes`), the previous artifact (`Previous`: the
last of an earlier date, else the last that is not listed under the review's own directory), what it handed over (`Reinjected`) and the split at the
limit. A score is a class and half of the share of the cost, rounded to one in `Precision`; where all is free
the class alone decides. Each entry carries what the worker of its session told (`told`), so that a record
survives the summary that it came with. An artifact is absent, broken or read; `NewReview` may have the date of the last one,
or no summary; `Breaks` leaves an artifact unreadable. `alias` is the review that `runs/current` designates: the
pattern `runs/*/` follows that link, so that its artifact is listed twice, the second time after all others of
its date. `former` is what the link designated before, to which `Rollback` puts it back; a system without links
leaves it where it is. `Place` is the random part of a directory's name. Artifacts at the root or under
`legacy`, from before there were run directories, are left out. The lists are `InOrder` of `Orders`: an order that
ends with the place in the rows is what a stable sort computes.

### InsightsHistory and RuleEngine

`runs` are the weeks, with the anchor date and what can be read of their summary and digest; `home` is the run in
whose directory their files lie, another one for a week that was `Migrated` from the root by the first
activation (`Moved`). `alias` is the run that `runs/current` designates, moved by `Activate` and put back by
`Rollback` where the system has `Links`; all that lies in its directory is listed a second time (`Listings`), the
weeks under its `legacy` too, and nothing but the listing `<<run, 0>>` of its own directory is kept from a command.
`FromState`, `Discover` and `OrExplicit` are the three ways to a previous run (`previous_run.json`, the search,
the configured baseline). `ReadState` is the first, `Compute` the search and the writing, `Remember` writes
`previous_run.json`. Between them other sessions activate, collect and replay weeks, and the user damages or
removes runs. The search of the previous artifact and the computation are each one step: what a longer one
reads of several files could be read at one moment, for each file is written once. Listings are sorted by date
and path (`Newer`, `Older`). A date is an anchor day, and files are named by the date of their run: a command of
the day after its review, which finds the run but no summary of its own date, ends (`ActiveOf`, `Start`). Writes at
the root by a command without an active run are left out. `FilesAreTyped` says that no readable file is one of the marks for an absent or
unreadable one; `RulesAreTyped` that `parse_rule` gives a rule all its fields and that no rule is called
`rule-error`, the category that rule_pipeline.py:46-48 keeps for the engine (nothing checks it). `RuleEngine` resolves a
rule along `extends` (cycles, malformed files), patches thresholds, evaluates each rule over the targets of
its scope and applies the ignores; an expression is a threshold. A z-score is a cost above the highest of the
baseline. Left out: the literals of an `emit` block, which may name another category.

### ReportAssemble

The declarations of the JOIN, the summary and the curation manifest are written before the commands and are
constants of a behaviour; the shape of each branch and audit artifact changes under the commands (`file`,
`audit`). Each gate reads what it judges when it is reached, so each is a step: `ArtifactGate`, `SummaryGate`
(`applicable_summary_rc` and the pin by the "JOIN partiel" warning), `CurationGate`, `SecurityGate`,
`Marker`, then `WriteReport`, `ConsumeDraft`, `RenderHtml`, `PersistGates`. A gate that reads several files is
one step: each file is written independently of the others and a valid one is not rewritten, so what a longer
reading could see is also what a reading at one moment of it could see. `answer` is the exit code with the gate
that gave it. Left out: the contents of the sections, blocks-draft, exceptions other than the one of
`CurationGate`, a torn report.

### WatchMemory

`memory` is what a reading of `watch-memory.jsonl` returns (the last line of an item wins), `beneath` what it
would return without the last line, `tail` how the file ends; `garbled` says that some line was cut inside a
UTF-8 character, which the strict decoding refuses for the whole file. `DistillStarts` and `ValidateStarts`
merge with the entries read at that moment, `WriteLine` appends one line, `TornCommand` stops in the middle of
one, `DistillEnds` and `ValidateEnds` write the artifacts. An entry has the last week, the occurrences, the
history and the signature. Version and date of an item are one number, 0 for neither. Left out: scores,
quotas by category, screening of blocked items, the digest, and two reviews at once.

### HarnessRemediation

Of a file the model keeps whether the text to replace is in it once, was replaced, or neither, and the last
edit of the user. `Validate` takes one proposal; `Selected` is the first of each file, up to
`harness_auto_fix_max_files`; `FinalCheck` and `Rewrite` are the two halves of the loop of `_apply_changes`,
so that a user may save in between; `PostCheckPasses` and `PostCheckFails` are the harness on the outcome,
whose verdict is any; `Restore` and `RestoreFails` take one file of `_restore_snapshots`. A proposal has one of
four kinds: one that asks for `apply` and passes the gates, the same without a `new_text`, one that a gate
bars, one that asks for another decision. Left out: the rules of the gates, the texts of reasons.

### SkillCuration

`source` is the live version of a skill in each directory, `archive` the versions under `_archive/<date>`; a
version has a stamp and its front matter (origin, ttl, verified). `Review` leaves the findings, the catalogue
(or none) and a line of usage; `Start` decides (`Decisions`: the strongest row protects, the first finding by
action and source decides, `TtlArchive` adds those never loaded); then each decision is a `Propose` or, when
applied, a `Refuse` or an `Open` (`Verdict` and `Gate`, which reads the front matter again), a `Recheck` and a
`Move` or `MoveFails`. A move whose destination was created in between lands inside it, as `shutil.move` does.
`Report` counts and writes the manifest. Two sessions and the user interleave anywhere. Left out: global
directories and paths out of the project, refused by name.

### CommitDraft

The draft and a file of the user, each in the checkout, the index and the log; `kit` is the draft in the
checkout of the kit. `Gate` is the portability gate of the plugin, `Check`, `Add`, `Commit`, `MirrorWrites`,
`MirrorAdds`, `MirrorCommits` and `Facts` are the git commands of `commit_draft_detailed` and
`_sync_kit_draft`, `AddFails`, `CommitFails` and `MirrorSkips` their failures, `Dies` a time-out or a kill at any of
them. `Records` is the orchestrator that copies the facts into `weekly-timings`, once or again, and `Report`
merges them with `git log`. `UserWorks` edits, stages, commits, merges and detaches anywhere.

## Runs

TLC finishes each in well under five minutes with two workers.

| Run | Question | Bounds, and why they are enough |
|---|---|---|
| `runstate_benign` | Does the alias keep its promise when nothing dies? | Three reviews, so that a failed one stands between two others; three days, midnight and two-step links anywhere. |
| `runstate_faults` | What survives everything, and what does the alias survive? | Two reviews, overlapping or not, one retry each, crash, stop and purge anywhere: one that delivered and one that fails after any deletion. One day: the dates are the benign run's matter. |
| `report` | Is the exit code true whatever the JOIN declares, and do refusals and kills leave a directory that can go on? | One audit and a branch, every record alone or beside another, every manifest that a curation leaves (one that is absent is not among them), three commands each killed anywhere, workers writing at any moment. |
| `watch_memory` | Is the memory durable, and does it hide and count what it should? | Two items (one without a version), two weeks, three commands, one torn write. `Retention = 0` makes entries lapse within the bound. |
| `remediation` | Is every change that stays told of, and no early edit lost? | Three proposals of any kind over three files, so that two share a file or one exceeds `MaxFiles = 2`; two commands, one edit, any failing write. |
| `baseline` | Does an alarm last, does the baseline outlive commands, do targets, projection and surface agree? | Three commands, the least for capture, refresh and reuse; one change of a file, of the rules or of the baseline at any moment; two versions of the rules; two legacy copies; a skill of another harness that project and kit share. |
| `curation` | Is no version lost, no protected skill moved, every decision counted once? | Two skills in two directories, two sessions, two commands, one edit of the user. `TtlRuns = 1` (3 in the code) makes a skill lapse within one review. |
| `audit` | Is no session forgotten, hidden by a healthy record or passed by a lesser one, and does a second command change nothing? | Three reviews, four commands, two places for up to four sessions, one artifact that breaks; two classes, equal costs, a summary where all is free; `Precision = 8`, coarse enough that two shares of the cost round to one score (10^6 in the code). |
| `commit` | Does a commit hold the draft alone, a refusal none, the report each once? | Three commands, four actions of the user; deadlock is checked, for the orchestrator may always report. |
| `collection` | Does everything add up while the sources change? | Three sources over two harnesses, three ids, two edits of the user and one failing read; `MaxWarnings = 3` so that the cap is reached. |
| `insights` | Is a week compared with an earlier one whenever there is one, is a used skill spared whatever the link doubles, and each rule evaluated by itself? | A week from the root and three runs over two dates with links and rollbacks, so that a replay, ties of dates and doubled listings occur; an explicit baseline; three commands of one session (the theorems have any number of sessions); one damaged file; four rulebooks that inherit, raise, loop or do not load; `Floor = 2`, `Limit = 3` (4 and 8 in the code), so that a doubled listing pushes a week out of the window. |
| `insights_self` | A statement of docstrings: without an earlier week the previous run comes from outside of the run's directory. | Violated: see below. One session, no week from the root. |

The bounds are constants of the modules: `LastDay`, `MaxTries`, `MaxCommands`, `LastWeek`, `LastVersion`,
`MaxOthers`, `MaxTears`, `MaxEdits`, `MaxChanges`, `MaxReviews`, `MaxRuns`, `MaxBreaks`, `MaxFailures`,
`MaxDamage`. Reviews, commands, days and weeks are finite in number, so every behaviour ends and the
configurations turn the deadlock check off, except that of `commit`. No command waits for another one. Symmetry
is used for interchangeable reviews, files and sessions of curation, in runs that check no liveness.

Fairness: `RunState!FairSpec` assumes WF of `Running(r)`, the steps of a command that has started. It is a
sequential process that reads and writes local files, and the benign run admits no crash. Nothing forces a
review to start, a day to pass or a link to be replaced in two steps. Under it `FailedRunLosesAlias` holds: a
refused assemble ends with the alias back on the previous run. No other module states liveness: their commands
may be killed at any step, and nothing waits for them.

A type invariant stands in every module with a state but `InsightsHistory`, whose types are those of its proofs; only those of `RunState`, `ReportAssemble` and
`HarnessRemediation` are properties of a run and proved. The others document the variables, and hold on the
instances of their runs. Other definitions no run checks: the proved `PointersNameCreatedRuns`,
`RollbackLandsOnDeliverable`, `RollbacksAreCounted` and `FatalIsNeverDowngraded`; `FactsDoNotDegrade`,
`FindingsAreRemembered`, `LastStatusIsLatest`, `SeenIsAuditedOrWaits` and `ProjectionIsTheScope`, which say
little more than a single step does; and the statements of documents that the code contradicts, each named with
its disagreement below.

## What is proved

From the assumptions on constants that the modules name, for any number of reviews, days, items, audits, files and
tries:

* **RunState**, under every fault: `TypeCorrect`; `PointersAreSound` by `PointersInv`, which adds that a
  review that has not yet written the state is not named by it and that the target it read is an earlier run;
  `DraftsAreOutlived` by `FilesInv` (a command that consumes a draft has its report on disk).
* **RunState**, under every fault, as long as no crash, stop, retry or overlap has happened, directories deleted
  at will: `DeletionsHeal` from `AliasInv`, which says that at most one review is unsettled and, for each place
  that it can be in, where the alias, the state and the remembered target are (`PlaceInv`), unless `spoiled`;
  disorder is for good (`DisorderStays`).
* **RunState**, without crash, stop, retry, overlap and purge (the assumption `Benign` of `RunStateProofs`;
  midnight and two-step links remain): `AliasKeepsItsPromise`, `ReportsStayApart`, `NoLegacyFallback`,
  `RollbacksShowReports` from `AliasInv` with `Standing` (nothing is spoiled, and a review that has a directory
  keeps it); `RollbackCountIsExact` from `CountInv`; `Refinement`, step by step, from the same invariants. Each excluded fault
  does break the promise, as described below.
* **ReportAssemble**: `TypeCorrect`, `CleanExitIsComplete`, `FatalStaysFatal`, `PartialStaysPartial`, from
  `IInv`. No property is inductive alone, for an answer is the sum of what the gates saw earlier: `JoinInv`
  and `GatesInv` say for each gate passed what is true of the files since, and `Monotone` and `VerdictsLast`
  that late workers cannot undo it. `GatesFileMatches` and `RefusalsKeepDraft` from `LeftInv`: at each place of
  an assemble, which of report and gates file is ahead (`GateFileInv`) and that the draft is there until the
  report is (`DraftInv`).
* **WatchMemory**: `LinesAreDurable`, as long as no line was cut inside a character, and `IgnoredItemsStayHidden`, from `Control` (lines left to write belong to a
  running command), `Durable` (`beneath` differs from what was acknowledged in the last line at most) and
  `Validated` (the last verdict on an item is what the memory holds until the item is offered again);
  `RecurrencesAreNotMissed`, that an item seen in n weeks counts n occurrences at least, from `Counting`: the
  entries of the disk, of the ghosts and of the lines still to write all count their weeks. What a merge of two
  histories has (`MergeHas`) comes from the lemmas about folds.
* **HarnessRemediation**, every write and restore failing at will, any kill: `TypeCorrect`; `EditsSurvive` from
  `EditsKept` (what the command started to rewrite still bears the last edit that it read, or was edited after its
  final check), which rests on `OneProposalEach`, two selected proposals never share a target; `NothingIsSilent`,
  for every answer, the rc 2 of an exception included: all changes stay, tested and told of, or none, and the
  one exception that stops half-way leaves the targets before its own rewritten in whole. It follows from `Story`,
  which says for each place of the command whether the rewritten targets bear the replacement or are as found.
* **HarnessBaseline**, for any files, rules, settings and copies (`SomeCopyIsLast`: the directories with a copy
  are ordered): `NewFindingsStayNew` from `Pending` (what a command is about to
  write has the keys it compared with) and `Alarms` (a finding that was called new is none of the keys that the
  next command would find); `BaselineOutlivesCommands` from the same invariant; `SurfaceIsTrue` from `Shown` (what
  was projected at each place of a command comes from its scope or from the kit).
* **SkillCuration**, any number of sessions: `NoVersionIsLost`, for a move puts into the archive what it takes
  from its place and nothing takes anything out; `ProtectedSkillsStay` from `GateInv` (a command about to move
  has the version that its gate read, and that version says of itself that it may be moved); `ManifestAddsUp` from
  `Tallied`: at each place of a command its counters are the sizes of the sets of decisions under each outcome.
* **AuditQueue**, for any summaries, costs and limits. `RerunsAgree`, while each review has a day of its own and
  nothing is broken, from `Settled`: the artifact of the review is what another command would write. An artifact of
  an earlier day wins over all of the day, wherever the link points (`Alone`, `ListingStays`); without one the
  review may read its own through the link, and then finds only sessions of its own summary there (`Familiar`),
  which are in the queue already (`AllKnown`). `FailuresAreKept` from `Faithful` (a readable artifact was written from the summary of
  its review) and `OutcomesKeep` (merging records in any order keeps the worst code and every truncation).
  `UrgencyDecides` from `Faithful`, `UrgencyIsStrict` and `Sorted`: half of a share of the cost, rounded, is
  never a whole class (`ScoreType`). `NothingGetsLost`, while each review has a day of its own and its artifacts
  load, from `Held`, `Clean` (nothing is broken and the dates grow) and `Settled`: the artifact that the next review
  reads is the last one, and a queue is split into what is audited and what is handed over.
* **InsightsHistory**, for any sessions, weeks, rules and limits. Its invariant is `Named`: the runs are typed and
  have places apart (`Apart`), and the state file, each command and what each command found name runs of the
  directory that are old enough (`StateNames`, `OwnNames`, `FoundIsOlder`). `ComparedWithTheWeekBefore` needs in
  addition that the listings are in a strict order, the doubled ones too, and have a newest (`ListedSorted`,
  `NewestExists`, `Searched`); `UsedSkillsStay` that a readable week that the rules were not given has `Limit`
  listings of its date or later (`LeftOut`); `RulesStayIndependent` that
  the n layers of inheritance of `Resolved` give each rule what its file or the nearest of the n above it declares
  (`FilledSteps`, `ResolvedIs`), whatever the shape of the forest.
* **TelemetryCollection**, for any sources, databases, trees of parents, limits and whatever the user does between
  two reads: `TwoTracesAgree`, `StepsCountOnce`, `NoSessionIsLost` and `SuccessHidesNoGap`. The invariant is
  `Explained`: for some database d at the start, `Accounted(d)` holds, that is `Traced` (a session has one place, in
  the queue or in the audit, and those that are counted are those that the audit has as included), `Remembered` (a
  session that was listed exists or is deleted, and its turns are those that were read), `Owned(d)` (every step
  belongs to the harness that had it at the start), `Told` (each gap has its warning) and `Made` (the summary says
  so). The step that matters is `Aggregate`. `RestIs` and `MarkedIs`: after the merge of forks, usages and audit
  still hold the same sessions; `NoTwins`: of those that start alike one is left, since `Fuller` orders them
  strictly. `RootsCounted` and `ChildrenAre`: both traces find the same roots, and what is no root is a sub-agent.
  `TreesApart`: no session is under two roots, by induction on the levels of the trees, so a step that is counted
  twice was read in two sessions (`TwiceIsTwo`), of one harness by `Owned`, that are no forks of each other. `CapIs`
  and `CapTwice`: a cap that is not full has each kind of warning, partial if one of its occurrences is, also when
  it is capped again. `Explained` was also checked by TLC on the instance of `collection`.
* **CommitDraft**: `CommitsHoldOnlyTheDraft` from `LogInv`, `RefusalsHaveNoCommit` from `Places` (a command that
  has made its commit is past every place where it could refuse).

Sorts, folds and recursive functions are reasoned about in four steps that recur in the modules of proofs: a set
of naturals that is not empty has a least member (`Least`, from the well-founded order of the library); hence a
set with 0 and the successors of its members has every natural (`Inductively`); hence what an iteration defines
exists and is unique (`FoldExists`, `Iterates`); hence its values are what each step says. `Sorted` says that
`InOrder` lists each member once and in the order. The lemmas are stated where they are used.

Only model-checked: `FailedRunLosesAlias`, for liveness is beyond these provers; and `DraftsCountedOnce`, a fold over
the hashes of a report in which each step depends on the list so far. Of the type invariants, those of the modules
whose own is no property of a run are replaced in the proofs by the weaker types that these need (`Typed`,
`ReadsTyped`, `Shape`).

## Where code and documents disagree

Shown by a run that TLC finds violated, `insights_self`: `_fallback_previous_artifact` (insights.py:1165) compares
the parent of a path as written, and the run's own artifact comes again as `runs/current/...`, the last of its date.
A first run is compared with itself, its deltas are nought and the baseline of a first run is not written
(`NotWithItself`).

Met while reading, without a run of their own. Where a definition states what the document says, it is named. TLC
refutes `ApplyRefusalIsCounted`, `MemoryNeverBlocks`, `EveryChangeIsTested`, `RefreshEndsFalseAlarms`, `OwnIsNotRead`
and `PreviousIsNotLater` when each is checked as an invariant in the configuration of its component, and
`EvidenceIsWeeks` in that of `insights` with `Floor = 3`.

Run state and report:

* `all(<bool>)` in report.py:2783 makes report-assemble raise on the manifest of every apply with a refused archive,
  against report.py:2808; nothing rolls the alias back then (`ApplyRefusalIsCounted`).
* A review stopped on the rc 2 of `report-prep` never rolls its alias back (cli_report.py:51); run_state.py:8-10
  says that a run that ends without a report does. The fault `stop` of `RunState`
  (`AliasDesignatesLatestDeliverable` fails under it).
* A second `report-assemble` of a delivered run finds its draft consumed and takes the alias off that run
  (report.py:3434 against run_state.py:10); a successful retry after a rollback does not put it back. These are
  the fault `retry` of `RunState`.
* A rollback whose target is deleted between the test and the link (run_state.py:228 and 285) leaves a dangling
  alias and counts it as restored.
* A rollback restores the alias to what it pointed at, a run without a report if a crash left it there; two
  reviews at once share one `run_state.json`. These are the faults `crash` and `overlap`.
* A fatal JOIN record makes the command answer rc 2 *with* a report (report.py:3846 against
  tool-registry.ts:321), a state that doc/decisions/0006:47 says no consumer handles (`RcTwoMeansNoReport`).
* An unreadable `weekly-timings` empties the JOIN, and the assemble may answer rc 0 (report.py:3840 against
  agent:382).
* `report-prep` answers rc 2 after it wrote a draft (cli_report.py:51 against tool-registry.ts:352), and
  stops on missing audits that `report-assemble` lets through with rc 1; agent:195-197 and 320-322 speak of rc 2.
* `audit_partial_fallback` is counted before a later gate refuses (report.py:3502 against run_state.py:38).
* The gates file is validated without the declarations and says "pass" of a partial JOIN (report.py:3730).
* A worker contract with rc 0 and `warnings: []` counts as rc 1 (report.py:2108 against tool-registry.ts:866).

Watch memory and remediation:

* One undecodable byte in the memory stops every later `watch-distill` and `watch-validate` (watch_memory.py:336;
  watch_validation.py:532, outside of the guard; watch_distill.py:537), whose memory is said never to block
  (watch_validation.py:516), and a crash to spoil the last line only (watch_memory.py:389-390; `MemoryNeverBlocks`).
* An `apply` proposal whose `new_text` is null passes the gates (harness_remediation.py:260-264) and raises
  `TypeError` after earlier files were rewritten (harness_remediation.py:533); they stay changed, untested and untold,
  against doc/spec/03-capacites.md:441-443 (`EveryChangeIsTested`).
* A distill repeated in the week of an ignore overwrites the signature under the old status
  (watch_memory.py:286), and a version that nobody judged is hidden, against doc/spec/03-capacites.md:164-165
  (`HiddenWasJudged`).
* Offered and ruled on in one week counts two occurrences (watch_memory.py:306), so an item is recurrent in
  two weeks; a torn line also loses the first line of the next append; a recommended item that is seen again
  is no longer kept for ever (doc/spec/03-capacites.md:163); nothing writes the status `blocked-security`.

Harness and baseline:

* A refreshed baseline keeps the stored keys under the new fingerprint (main.py:745-748): findings of new rules are
  new in every later review, which main.py:662-666 says they are not (`RefreshEndsFalseAlarms`).
  doc/spec/05-donnees.md:44 says that the baseline is never rewritten.
* The keys of a digest take the path of the finding (util.py:93), the count of its unique findings that of the
  component (harness_scope.py:595-601), and a digest may bring a count of its own (harness_scope.py:649-653): more
  findings may be called new than the digest counts.
* While the fingerprint is "unknown" every run refreshes; harness_scope.py:672-674 says once, then reused.
* The rules are fingerprinted after the lint, so an upgrade in between stores keys under rules that did not
  yield them. A path of the kit that exists in the project but outside of the scope is no orphan
  (harness_scope.py:819).

Skill curation and draft commits:

* The three-run rule counts the distinct runs in the memory, consecutive or not, present or not
  (curation.py:397 against doc/spec/03-capacites.md:630-631; `ThreeRunsInARow`).
* An archive whose destination exists counts as applied though the skill is live again
  (safe_git_write.py:426-427, cli_skill_curate.py:398).
* `_archive_move` takes `skills_dir.parents[2]` for the project (cli_skill_curate.py:354), which it is only when
  the directory lies that deep.
* The SHA of the facts is read from HEAD after the mirroring and may name a commit of the user (the ghost
  `raced` of `CommitDraft`); a commit that fails leaves the draft staged, to be swept into the user's next one;
  the content that is committed may be other than the one that passed the gate; the mirror reads the checkout
  again.
* A kit whose add or commit failed has the new content already and is skipped ever after; a git command that
  outlasts its time escapes and the command fails although the commit is made (safe_git_write.py:389).

Audit candidates, collection, insights:

* `_latest_outside` (cli_watch.py:60-63) has the alias, too: a review without an earlier date that runs
  `audit-candidates` twice reads its own artifact, against cli_watch.py:84-85, and drops the sessions that its first
  command took over from another review of the day (`OwnIsNotRead`).
* Without an older artifact the previous run of the insights is the newest of any date, even a later one
  (insights.py:1159-1188, whose docstrings say "same-date"; doc/spec/03-capacites.md:341-342;
  `PreviousIsNotLater`). If the newest older one is unreadable, the run is a first run although history exists.
* A week that `runs/current` lists again takes two places in the window of eight and counts twice as evidence for a
  retirement (insights.py:1138, against doc/spec/03-capacites.md:365; `EvidenceIsWeeks`). `runs/current` designates
  an older run after a rollback or a replay, and doubles the weeks migrated into the directory of the active one.
  They also count twice in the streak of weeks without a cache write and in the cost of the month
  (insights.py:133-141).
* A session handed over that the next summary has again loses its place at the head of the queue
  (candidates.py:377 against 346-349), and may do so review after review (`CarriedComeFirst`).
* The cap of warnings (aggregator/__init__.py:375) may drop the one that makes a run partial, and a collection
  whose read failed answers rc 0 (usage.py:161; `FailedReadIsPartial`). A whole source that fails stays rc 0,
  and a disabled OpenCode source is still the fallback.
* The exclusion of active sessions also leaves out, with a past anchor, every session continued since then, and
  the steps that it loses in one window are in no other.
* A fork with fewer user turns than the fingerprint asks for, or deleted between two reads, counts its parent's
  steps again.
* doc/spec/03-capacites.md:67 has a rate for Copilot; `HARNESS_COST_RATES` has OpenCode's alone.
* `previous_run.json` names the run that is active when the command ends, with what it began with; reruns of one
  date count twice in every window; digest and summary of the previous run are searched apart and may be of two
  runs; the previous digest is not validated.
* A rule file that does not load stops the step (rule_loader.py:533-541), where doc/spec/07-regles-transverses.md:22-25
  isolates each rule. A skill not loaded on four runs in a row is to be retired
  (doc/spec/03-capacites.md:365); the code asks for every run of a window of up to eight.

## Not modelled, and why

* Releases, watch inventory, HTML, parsing of telemetry, prices: input and output or pure functions of texts,
  without state that a later step depends on; sums of floating-point numbers, quantiles and z-scores are
  beyond TLC.
* `blocks-draft`, `draft-candidates`, `self-cost`, `show-session`, doctor: they print or write a file that no other
  modelled step reads.
* The agent's waves: instructions to a language model. Their effects on files are actions here, in any order.
* The anchor file and the staging of payloads (`P/runtime.ts`): the one is read and rewritten without a pause
  by the single thread of the plugin, the other has a temporary directory for each call.
* Distribution scripts: one process that copies or compares files.
* Several projects in one database: `TelemetryCollection` has one, as the configuration of a project does.

## Plan

Written: all modules above. What is left, in order:

1. A proof of `DraftsCountedOnce` with the fold lemmas.
2. `blocks-draft` and the sections it leaves, composed with `ReportAssemble` through the draft.
3. The composition of `AuditQueue` with the waves that audit its sessions (a worker that fails comes back by
   the record that it left), and of `SkillCuration` with `ReportAssemble` through the manifest.
4. Two reviews at once over `WatchMemory`: the merge reads at its start and appends without a lock.
5. The retry budget of the HTTP helper and the selection of candidates against a reference definition.

------------------------------ MODULE RunState ------------------------------
(***************************************************************************)
(* The life of a weekly review on disk: run_state.py, its one activating   *)
(* caller (main._run_write_summary) and the report commands that move the  *)
(* runs/current alias back (report.report_prep, report.report_assemble).   *)
(*                                                                         *)
(* A review is one orchestrated run.  It owns one run directory, created   *)
(* by its weekly_run command; the later commands are separate processes    *)
(* that find the directory again through run_state.json.  Every file       *)
(* system effect is a step of its own, so a crash or another review can    *)
(* come between any two of them.                                           *)
(***************************************************************************)
EXTENDS Naturals, FiniteSets

CONSTANTS
  Reviews,      \* reviews; a run directory is named by its review
  NoRun,        \* no run: absent alias, absent state, absent previous run
  RealEntry,    \* runs/current is a real entry, or symlinks are unsupported
  Root,         \* output_dir itself, the legacy directory
  LastDay,      \* bound: number of UTC days
  MaxTries,     \* bound: times one review may start over from prep or assemble
  Faults        \* which behaviours of the environment are admitted

FaultKinds == {"crash", "stop", "retry", "overlap", "midnight", "windows", "purge"}

ASSUME SentinelsDiffer == /\ NoRun # RealEntry
                          /\ {NoRun, RealEntry, Root} \cap Reviews = {}
ASSUME BoundsAreNaturals == LastDay \in Nat \ {0} /\ MaxTries \in Nat
ASSUME FaultsAreKnown == Faults \subseteq FaultKinds

VARIABLES
  day,       \* the UTC day, hence the date of every anchor read now
  dirs,      \* run directories that exist
  link,      \* target of runs/current
  state,     \* run_state.json; run = NoRun when the file is absent
  summaries, \* weekly-summary files,      as <<directory, date>>
  drafts,    \* weekly-report-draft files, as <<directory, date>>
  reports,   \* weekly-report files,       as <<directory, date>>
  pc,        \* what each review does next
  prev,      \* the target a command read: previous alias, or rollback target
  out,       \* <<directory, date>> a command resolved when it started
  snap,      \* run_state.json as record_resilience_event loaded it
  tries,     \* times a review started over
  restored,  \* ghost: rollbacks of the alias each review saw succeed
  latest,    \* ghost: the directory that received a report last
  spoiled    \* ghost: what the report of latest suffered since it was written

files == <<summaries, drafts, reports>>
disk == <<dirs, link, state, files>>
scratch == <<prev, out, snap, tries, restored, latest, spoiled>>
local == <<pc, scratch>>
vars == <<day, disk, local>>

Days == 1 .. LastDay
Dirs == Reviews \cup {Root}
Settled == {"idle", "delivered", "failed", "over"}
Labels == Settled \cup {"launched", "made", "peeked", "linked", "stated", "migrated",
             "ready", "drafted", "joining", "joined", "writing", "consuming",
             "failing", "relinking", "counting", "confirmed", "counted"}
\* "deleted": its directory is gone, or an assemble lost the one it wrote to.
\* "disordered", and for good: a process died, a review stopped, a command was
\* repeated, or two reviews overlapped.
Spoils == {"no", "deleted", "disordered"}
States == [run : Reviews \cup {NoRun}, date : Days \cup {0},
           prev : Reviews \cup {NoRun}, rollbacks : Nat, partials : Nat]
NoState == [run |-> NoRun, date |-> 0, prev |-> NoRun, rollbacks |-> 0, partials |-> 0]

TypeOK ==
  /\ day \in Days
  /\ dirs \subseteq Reviews
  /\ link \in Reviews \cup {NoRun, RealEntry}
  /\ state \in States
  /\ summaries \subseteq Dirs \X Days
  /\ drafts \subseteq Dirs \X Days
  /\ reports \subseteq Dirs \X Days
  /\ pc \in [Reviews -> Labels]
  /\ prev \in [Reviews -> Reviews \cup {NoRun}]
  /\ out \in [Reviews -> Dirs \X Days]
  /\ snap \in [Reviews -> States]
  /\ tries \in [Reviews -> Nat]
  /\ restored \in [Reviews -> Nat]
  /\ latest \in Dirs \cup {NoRun}
  /\ spoiled \in Spoils

-----------------------------------------------------------------------------
(* Reading the state file and the alias.                                   *)

\* Mutant: no tolerance for the day before.
StateDateMatchesExactly(recorded, date) == recorded = date

\* _state_date_matches: the same date, or the day before (midnight).
StateDateMatches(recorded, date) == recorded = date \/ recorded + 1 = date

\* resolve_active_run_dir and active_run_meta.
Resolve(date) ==
  IF /\ state.run # NoRun
     /\ StateDateMatches(state.date, date)
     /\ state.run \in dirs
  THEN state.run ELSE Root

\* Mutant: a real entry is returned like a link.
CurrentTargetUnchecked == link

\* _read_current_target: readlink, so a dangling target is still returned.
CurrentTarget == IF link \in Reviews THEN link ELSE NoRun

\* _update_current_link: atomic replacement; a real entry stays.
Relinked(target) == IF link = RealEntry THEN link ELSE target

Goto(r, label) == pc' = [pc EXCEPT ![r] = label]
Quiet == \A r \in Reviews : pc[r] \in Settled

\* A report replaces the one that was spoiled, but does not restore the order.
Spoil(by) == spoiled' = IF spoiled = "disordered" THEN spoiled ELSE by

-----------------------------------------------------------------------------
Init ==
  /\ day = 1
  /\ dirs = {}
  /\ link \in {NoRun, RealEntry}
  /\ state = NoState
  /\ summaries \in {{}, {<<Root, 1>>}}      \* a tree from before per-run directories
  /\ drafts = {} /\ reports = {}
  /\ pc = [r \in Reviews |-> "idle"]
  /\ prev = [r \in Reviews |-> NoRun]
  /\ out = [r \in Reviews |-> <<Root, 1>>]
  /\ snap = [r \in Reviews |-> NoState]
  /\ tries = [r \in Reviews |-> 0]
  /\ restored = [r \in Reviews |-> 0]
  /\ latest = NoRun /\ spoiled = "no"

(* weekly_run: collection comes first and touches nothing here; its anchor *)
(* gives the run its date.                                                 *)
Launch(r) ==
  /\ pc[r] = "idle"
  /\ "overlap" \in Faults \/ Quiet
  /\ out' = [out EXCEPT ![r] = <<r, day>>]
  /\ Goto(r, "launched")
  /\ spoiled' = IF Quiet THEN spoiled ELSE "disordered"
  /\ UNCHANGED <<day, disk, prev, snap, tries, restored, latest>>

(* activate_run, one step per effect.                                      *)
MakeRunDir(r) ==
  /\ pc[r] = "launched"
  /\ dirs' = dirs \cup {r}
  /\ Goto(r, "made")
  /\ UNCHANGED <<day, link, state, files, scratch>>

\* Mutant: the previous run is taken from run_state.json, not from the alias.
ReadPreviousFromState(r) ==
  /\ pc[r] = "made"
  /\ prev' = [prev EXCEPT ![r] = state.run]
  /\ Goto(r, "peeked")
  /\ UNCHANGED <<day, disk, out, snap, tries, restored, latest, spoiled>>

ReadPrevious(r) ==
  /\ pc[r] = "made"
  /\ prev' = [prev EXCEPT ![r] = CurrentTarget]
  /\ Goto(r, "peeked")
  /\ UNCHANGED <<day, disk, out, snap, tries, restored, latest, spoiled>>

PointAtNewRun(r) ==
  /\ pc[r] = "peeked"
  /\ link' = Relinked(r)
  /\ Goto(r, "linked")
  /\ UNCHANGED <<day, dirs, state, files, scratch>>

\* Where os.replace cannot overwrite a directory link: unlink, then rename.
DropLink(r) ==
  /\ "windows" \in Faults
  /\ pc[r] \in {"peeked", "relinking"}
  /\ link \in Reviews
  /\ link' = NoRun
  /\ UNCHANGED <<day, dirs, state, files, local>>

\* Mutants: the alias is read after it moved; the state of a run of the same
\* date is kept; the counters of the previous run are carried over.
WriteStateReadsLate(r) ==
  /\ pc[r] = "linked"
  /\ state' = [run |-> r, date |-> out[r][2], prev |-> CurrentTarget,
               rollbacks |-> 0, partials |-> 0]
  /\ Goto(r, "stated")
  /\ UNCHANGED <<day, dirs, link, files, scratch>>
WriteStateOncePerDay(r) ==
  /\ pc[r] = "linked"
  /\ state' = IF state.date = out[r][2] THEN state
              ELSE [run |-> r, date |-> out[r][2], prev |-> prev[r],
                    rollbacks |-> 0, partials |-> 0]
  /\ Goto(r, "stated")
  /\ UNCHANGED <<day, dirs, link, files, scratch>>
WriteStateKeepsCounters(r) ==
  /\ pc[r] = "linked"
  /\ state' = [state EXCEPT !.run = r, !.date = out[r][2], !.prev = prev[r]]
  /\ Goto(r, "stated")
  /\ UNCHANGED <<day, dirs, link, files, scratch>>

WriteState(r) ==
  /\ pc[r] = "linked"
  /\ state' = [run |-> r, date |-> out[r][2], prev |-> prev[r],
               rollbacks |-> 0, partials |-> 0]
  /\ Goto(r, "stated")
  /\ UNCHANGED <<day, dirs, link, files, scratch>>

\* _migrate_legacy_root: every weekly-* file of the root leaves it, for a directory
\* under that of the run.
InRoot(names) == {f \in names : f[1] = Root}
MigrateLegacyRoot(r) ==
  /\ pc[r] = "stated"
  /\ summaries' = summaries \ InRoot(summaries)
  /\ drafts' = drafts \ InRoot(drafts)
  /\ reports' = reports \ InRoot(reports)
  /\ dirs' = IF InRoot(summaries \cup drafts \cup reports) = {} THEN dirs
             ELSE dirs \cup {r}
  /\ Goto(r, "migrated")
  /\ UNCHANGED <<day, link, state, scratch>>

\* The one write of a review that creates its directory again if it is gone.
WriteSummary(r) ==
  /\ pc[r] = "migrated"
  /\ summaries' = summaries \cup {out[r]}
  /\ dirs' = dirs \cup {r}
  /\ Goto(r, "ready")
  /\ UNCHANGED <<day, link, state, drafts, reports, scratch>>

-----------------------------------------------------------------------------
(* report_prep: no summary under today's name, no draft.  Its command may  *)
(* also answer rc 2 on a missing artifact once the draft is written.       *)
Prep(r) ==
  /\ pc[r] = "ready"
  /\ LET here == <<Resolve(day), day>> IN
       /\ here \in summaries
       /\ drafts' = drafts \cup {here}
       /\ Goto(r, "drafted")
  /\ UNCHANGED <<day, dirs, link, state, summaries, reports, scratch>>

PrepRefuses(r) ==
  /\ pc[r] = "ready"
  /\ <<Resolve(day), day>> \notin summaries
  /\ Goto(r, "drafted")
  /\ UNCHANGED <<day, disk, scratch>>

(* report_assemble: the draft, then the gates.  A refusal (rc 2, no path)  *)
(* goes to the rollback; missing audits alone are counted and let through. *)
AssembleStarts(r) ==
  /\ pc[r] = "drafted"
  /\ LET here == <<Resolve(day), day>> IN
       /\ out' = [out EXCEPT ![r] = here]
       /\ \/ Goto(r, "failing")
          \/ here \in drafts /\ Goto(r, "writing")
          \/ here \in drafts /\ Goto(r, "joining")
  /\ UNCHANGED <<day, disk, prev, snap, tries, restored, latest, spoiled>>

WriteReport(r) ==
  /\ pc[r] = "writing"
  /\ out[r][1] \in dirs \cup {Root}
  /\ reports' = reports \cup {out[r]}
  /\ latest' = out[r][1] /\ Spoil("no")
  /\ Goto(r, "consuming")
  /\ UNCHANGED <<day, dirs, link, state, summaries, drafts,
                 prev, out, snap, tries, restored>>

\* The directory is gone: the exception passes by the rollback, and cli.main
\* answers rc 2.
WriteRaises(r) ==
  /\ pc[r] = "writing"
  /\ out[r][1] \notin dirs \cup {Root}
  /\ Spoil("deleted")
  /\ Goto(r, "over")
  /\ UNCHANGED <<day, disk, prev, out, snap, tries, restored, latest>>

\* Mutant: the draft is unlinked although the report was not written.
ConsumeDraftUnwritten(r) ==
  /\ pc[r] \in {"writing", "consuming"}
  /\ drafts' = drafts \ {out[r]}
  /\ Goto(r, "delivered")
  /\ UNCHANGED <<day, dirs, link, state, summaries, reports, scratch>>

ConsumeDraft(r) ==
  /\ pc[r] = "consuming"
  /\ drafts' = drafts \ {out[r]}
  /\ Goto(r, "delivered")
  /\ UNCHANGED <<day, dirs, link, state, summaries, reports, scratch>>

(* rollback_current_link.                                                  *)
RollbackReads(r) ==
  /\ pc[r] = "failing"
  /\ state.prev \in dirs
  /\ prev' = [prev EXCEPT ![r] = state.prev]
  /\ Goto(r, "relinking")
  /\ UNCHANGED <<day, disk, out, snap, tries, restored, latest, spoiled>>

\* Mutant: the rollback may give up although the previous run exists.
RollbackGivesUp(r) ==
  /\ pc[r] = "failing"
  /\ Goto(r, "failed")
  /\ UNCHANGED <<day, disk, scratch>>

\* Mutant: the state is read by active_run_meta, to which a run without its
\* directory is no run.
RollbackOfActiveRunOnly(r) ==
  /\ pc[r] = "failing"
  /\ Resolve(day) = Root \/ state.prev \notin dirs
  /\ Goto(r, "failed")
  /\ UNCHANGED <<day, disk, scratch>>

RollbackRefuses(r) ==
  /\ pc[r] = "failing"
  /\ state.prev \notin dirs
  /\ Goto(r, "failed")
  /\ UNCHANGED <<day, disk, scratch>>

RollbackRelinks(r) ==
  /\ pc[r] = "relinking"
  /\ link' = Relinked(prev[r])
  /\ Goto(r, "counting")
  /\ UNCHANGED <<day, dirs, state, files, scratch>>

\* The link is read back: only a rollback that shows is an event.
RollbackConfirms(r) ==
  /\ pc[r] = "counting"
  /\ link = prev[r]
  /\ restored' = [restored EXCEPT ![r] = @ + 1]
  /\ Goto(r, "confirmed")
  /\ UNCHANGED <<day, disk, prev, out, snap, tries, latest, spoiled>>

RollbackUnconfirmed(r) ==
  /\ pc[r] = "counting"
  /\ link # prev[r]
  /\ Goto(r, "failed")
  /\ UNCHANGED <<day, disk, scratch>>

(* record_resilience_event: load the whole state, bump one counter, write  *)
(* the whole state back.                                                   *)
EventLoads(r) ==
  /\ pc[r] \in {"joining", "confirmed"}
  /\ snap' = [snap EXCEPT ![r] = state]
  /\ Goto(r, IF pc[r] = "joining" THEN "joined" ELSE "counted")
  /\ UNCHANGED <<day, disk, prev, out, tries, restored, latest, spoiled>>

PartialWrites(r) ==
  /\ pc[r] = "joined"
  /\ state' = IF snap[r].run = NoRun THEN state
              ELSE [snap[r] EXCEPT !.partials = @ + 1]
  /\ \E label \in {"writing", "failing"} : Goto(r, label)  \* a later gate may refuse
  /\ UNCHANGED <<day, dirs, link, files, scratch>>

RollbackWrites(r) ==
  /\ pc[r] = "counted"
  /\ state' = IF snap[r].run = NoRun THEN state
              ELSE [snap[r] EXCEPT !.rollbacks = @ + 1]
  /\ Goto(r, "failed")
  /\ UNCHANGED <<day, dirs, link, files, scratch>>

-----------------------------------------------------------------------------
(* The environment.                                                        *)

\* The operator follows the message of the refusal: report-prep, or assemble, again.
TryAgain(r) ==
  /\ "retry" \in Faults
  /\ pc[r] \in {"delivered", "failed"}
  /\ tries[r] < MaxTries
  /\ "overlap" \in Faults \/ Quiet
  /\ tries' = [tries EXCEPT ![r] = @ + 1]
  /\ \E label \in {"ready", "drafted"} : Goto(r, label)
  /\ spoiled' = "disordered"
  /\ UNCHANGED <<day, disk, prev, out, snap, restored, latest>>

\* A process dies, or is killed by its timeout, between two effects.
Crash(r) ==
  /\ "crash" \in Faults
  /\ pc[r] \notin Settled
  /\ Goto(r, "over")
  /\ spoiled' = "disordered"
  /\ UNCHANGED <<day, disk, prev, out, snap, tries, restored, latest>>

\* A gate answered rc 2 and the orchestrator stops: it calls no further command.
StopWithoutReport(r) ==
  /\ "stop" \in Faults
  /\ pc[r] \in {"ready", "drafted"}
  /\ Goto(r, "over")
  /\ spoiled' = "disordered"
  /\ UNCHANGED <<day, disk, prev, out, snap, tries, restored, latest>>

\* Somebody deletes a run directory, at any moment and whatever refers to it.
Purge(q) ==
  /\ "purge" \in Faults
  /\ q \in dirs
  /\ dirs' = dirs \ {q}
  /\ summaries' = {f \in summaries : f[1] # q}
  /\ drafts' = {f \in drafts : f[1] # q}
  /\ reports' = {f \in reports : f[1] # q}
  /\ IF q = latest THEN Spoil("deleted") ELSE spoiled' = spoiled
  /\ UNCHANGED <<day, link, state, pc, prev, out, snap, tries, restored, latest>>

Tick ==
  /\ "midnight" \in Faults \/ Quiet
  /\ day < LastDay
  /\ day' = day + 1
  /\ UNCHANGED <<disk, local>>

Activate(r) == \/ Launch(r) \/ MakeRunDir(r) \/ ReadPrevious(r) \/ PointAtNewRun(r)
               \/ WriteState(r) \/ MigrateLegacyRoot(r) \/ WriteSummary(r)
Assemble(r) == \/ AssembleStarts(r) \/ EventLoads(r) \/ PartialWrites(r)
               \/ WriteReport(r) \/ WriteRaises(r) \/ ConsumeDraft(r)
               \/ RollbackReads(r) \/ RollbackRefuses(r) \/ RollbackRelinks(r)
               \/ RollbackConfirms(r) \/ RollbackUnconfirmed(r) \/ RollbackWrites(r)
Step(r) == Activate(r) \/ Prep(r) \/ PrepRefuses(r) \/ Assemble(r)
Environment(r) == DropLink(r) \/ TryAgain(r) \/ Crash(r) \/ StopWithoutReport(r) \/ Purge(r)

\* Everything is over: reviews are finite in number, days are bounded.
Next == Tick \/ \E r \in Reviews : Step(r) \/ Environment(r)

Spec == Init /\ [][Next]_vars

\* A command that has started runs on: it is one sequential process.
Running(r) == pc[r] # "idle" /\ Step(r)
FairSpec == Spec /\ \A r \in Reviews : WF_vars(Running(r))

-----------------------------------------------------------------------------
(* Properties.                                                             *)

\* Between two reviews, runs/current designates the run that received a report
\* last, as the headers of run_state.py and report_assemble promise.  The exempt
\* cases are a real entry at runs/current and an install with no report yet.
AliasDesignatesLatestDeliverable ==
  Quiet => \/ link \in {latest, RealEntry}
           \/ latest = NoRun

\* A command of a review that is past its activation finds that review's own
\* directory up to the day after, and never falls back to the legacy root.
NoLegacyFallbackAcrossMidnight ==
  \A r \in Reviews :
    pc[r] \in {"ready", "drafted"} /\ day <= state.date + 1 => Resolve(day) = r

\* A report is written in the directory of the review that assembles it (or at
\* the legacy root): two runs never overwrite each other's report.
RunsNeverOverwriteEachOther ==
  \A r \in Reviews : pc[r] \in {"writing", "consuming"} => out[r][1] \in {r, Root}

\* The rollback counter of run_state.json is the number of times the alias was
\* seen moved back for the run it names: no increment is lost or double counted.
RollbacksAreCounted ==
  Quiet /\ state.run # NoRun => state.rollbacks = restored[state.run]

\* The alias only ever designates a run whose directory was created, and
\* run_state.json only a run that took the alias and a previous run other than itself.
PointersNameCreatedRuns ==
  /\ link \in Reviews => pc[link] \notin {"idle", "launched"}
  /\ state.run # NoRun => /\ pc[state.run] \notin {"idle", "launched", "made", "peeked"}
                          /\ state.prev # state.run

\* A rollback leaves runs/current on the last run with a report, never on an
\* empty run (report_assemble, and the layout README that activate_run writes).
RollbackLandsOnDeliverable ==
  \A r \in Reviews : pc[r] = "counting" => link \in {latest, RealEntry} \/ latest = NoRun

\* A draft disappears only once its report is on disk: an assemble that dies
\* half-way leaves at least one of the two (purged directories aside).
DraftOutlivedByReport ==
  [][\A f \in drafts \ drafts' : f[1] \in dirs' => f \in reports']_vars

\* Whatever directories are deleted meanwhile, that of the run in progress included,
\* runs/current designates between two reviews the run that received a report last.
\* Two deletions can spoil this, until the next report: that of this very run, to
\* which nothing could go back, and that of a run whose assemble is about to write
\* into it.  A process that died, a stop, a repeated command or an overlap can
\* spoil it for good.
AliasSurvivesDeletions ==
  Quiet /\ spoiled = "no" => \/ link \in {latest, RealEntry}
                             \/ latest = NoRun

\* A refused assemble takes the alias off its run and back to the previous one.
FailedRunLosesAlias ==
  \A r, q \in Reviews :
    (pc[r] = "failing" /\ state.run = r /\ state.prev = q) ~> (link = q)

-----------------------------------------------------------------------------
(* Refinement.                                                             *)

Active == IF Quiet THEN NoRun ELSE CHOOSE r \in Reviews : pc[r] \notin Settled

Abstract == INSTANCE DeliverableAlias
              WITH Runs <- Reviews, alias <- link, active <- Active

\* In an environment without crashes, stops, retries, overlaps and purges, the
\* steps of activation, assemble and rollback keep the promise of the alias.
ImplementsDeliverableAlias == Abstract!Spec
=============================================================================

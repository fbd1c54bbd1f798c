------------------------- MODULE HarnessRemediation -------------------------
(***************************************************************************)
(* harness-remediate (harness_remediation.py): a command that rewrites     *)
(* files of the project for the proposals that pass every gate, runs the   *)
(* harness on the outcome and takes everything back when the findings have *)
(* not gone.  Files are read and written one at a time while their user    *)
(* goes on editing them, and any write may fail or be cut by a kill.       *)
(*                                                                         *)
(* Of a file the model keeps whether the text to replace occurs exactly    *)
(* once, was replaced, or neither, and the last edit of the user in it.    *)
(***************************************************************************)
EXTENDS Integers, FiniteSets

CONSTANTS
  Files,       \* eligible targets of the project
  N,           \* number of proposals in the document
  MaxFiles,    \* harness_auto_fix_max_files
  MaxEdits,    \* bound: edits by the user
  MaxCommands, \* bound: commands on the document of the day
  Nothing      \* no result artifact

ASSUME CountsAreNaturals == {N, MaxFiles, MaxEdits, MaxCommands} \subseteq Nat

VARIABLES
  content,   \* the files of the project
  proposals, \* the proposal document of the day
  mode,      \* "dry-run" or "apply"
  status,    \* the record of each proposal
  snapshot,  \* the target of each eligible proposal when it was validated
  next,      \* the proposal to validate
  left,      \* the selected proposals that are not applied yet
  at,        \* the proposal that is being applied
  changed,   \* the proposals whose target the command started to rewrite
  back,      \* those whose target it has still to restore
  lost,      \* those whose target it could not restore
  post,      \* the post-check: "not_run", "passed" or "failed"
  pc,
  result,    \* weekly-harness-remediation: the record of each proposal
  answer,    \* how the last command ended
  edits, commands,
  late       \* ghost: files edited after their final check

plan == <<mode, status, snapshot, next, left, at>>
undo == <<changed, back, lost, post>>
ends == <<pc, result, answer>>
bounds == <<edits, commands>>
vars == <<content, proposals, plan, undo, ends, bounds, late>>

Indices == 1 .. N

\* A proposal that asks for "apply" and passes the gates, one whose new_text is
\* null besides, one that a gate bars, one that asks for another decision.
Kinds == {"apply", "null", "barred", "other"}
Proposals == [file : Files, kind : Kinds]
Contents == [text : {"old", "new", "other"}, edit : 0 .. MaxEdits]
\* "declined" stands for the three answers to another decision.
Statuses == {"blocked", "declined", "proposed", "applied", "rolled_back"}

TypeOK ==
  /\ content \in [Files -> Contents]
  /\ proposals \in [Indices -> Proposals]
  /\ mode \in {"dry-run", "apply"}
  /\ status \in [Indices -> Statuses]
  /\ DOMAIN snapshot \subseteq Indices
  /\ \A k \in DOMAIN snapshot : snapshot[k] \in Contents
  /\ next \in 1 .. N + 1 /\ at \in 0 .. N
  /\ left \subseteq Indices /\ changed \subseteq Indices
  /\ back \subseteq changed /\ lost \subseteq changed
  /\ post \in {"not_run", "passed", "failed"}
  /\ pc \in {"idle", "validating", "applying", "writing", "checking", "restoring",
             "reporting", "unreported"}
  /\ result \in [Indices -> Statuses] \cup {Nothing}
  /\ answer \in {"none", "ok", "partial", "fatal", "raised", "killed"}
  /\ edits \in 0 .. MaxEdits /\ commands \in 0 .. MaxCommands
  /\ late \subseteq Files

Target(k) == proposals[k].file

-----------------------------------------------------------------------------
Init ==
  /\ content = [f \in Files |-> [text |-> "old", edit |-> 0]]
  /\ proposals \in [Indices -> Proposals]
  /\ mode = "dry-run"
  /\ status = [k \in Indices |-> "blocked"]
  /\ snapshot = [k \in {} |-> 0]
  /\ next = 1 /\ left = {} /\ at = 0
  /\ changed = {} /\ back = {} /\ lost = {} /\ post = "not_run"
  /\ pc = "idle" /\ result = Nothing /\ answer = "none"
  /\ edits = 0 /\ commands = 0
  /\ late = {}

\* The user, or another tool, saves a file: the text to replace is in it as
\* before, or no longer.
UserEdits(f) ==
  /\ edits < MaxEdits /\ edits' = edits + 1
  /\ \E text \in {content[f].text, "other"} :
       content' = [content EXCEPT ![f] = [text |-> text, edit |-> edits']]
  /\ late' = IF \E k \in changed : Target(k) = f THEN late \cup {f} ELSE late
  /\ UNCHANGED <<proposals, plan, undo, ends, commands>>

\* run, up to the proposals.
Start ==
  /\ pc = "idle" /\ commands < MaxCommands /\ commands' = commands + 1
  /\ mode' \in {"dry-run", "apply"}
  /\ status' = [k \in Indices |-> "blocked"]
  /\ snapshot' = [k \in {} |-> 0]
  /\ next' = 1 /\ left' = {} /\ at' = 0
  /\ changed' = {} /\ back' = {} /\ lost' = {} /\ post' = "not_run"
  /\ pc' = "validating" /\ answer' = "none"
  /\ late' = {}
  /\ UNCHANGED <<content, proposals, result, edits>>

\* The anchor, the document or the configuration is refused.
Refuse ==
  /\ pc = "idle" /\ commands < MaxCommands /\ commands' = commands + 1
  /\ changed' = {} /\ answer' = "fatal"
  /\ back' = {} /\ lost' = {}
  /\ UNCHANGED <<content, proposals, plan, post, pc, result, edits, late>>

\* _validate_proposal, _apply_gate: the text to replace must occur once.
Validate ==
  /\ pc = "validating" /\ next <= N
  /\ LET p == proposals[next] IN
       /\ snapshot' =
            IF p.kind \in {"apply", "null"} /\ content[p.file].text = "old"
            THEN [k \in DOMAIN snapshot \cup {next} |->
                    IF k = next THEN content[p.file] ELSE snapshot[k]]
            ELSE snapshot
       /\ status' = IF p.kind = "other" THEN [status EXCEPT ![next] = "declined"]
                    ELSE status
  /\ next' = next + 1
  /\ UNCHANGED <<content, proposals, mode, left, at, undo, ends, bounds, late>>

\* Of the eligible proposals, the first of each file, up to MaxFiles files.
Foremost == {k \in DOMAIN snapshot :
               \A j \in DOMAIN snapshot : j < k => Target(j) # Target(k)}
Selected == {k \in Foremost : Cardinality({j \in Foremost : j < k}) < MaxFiles}

Select ==
  /\ pc = "validating" /\ next > N
  /\ IF mode = "apply" /\ Selected # {}
     THEN left' = Selected /\ pc' = "applying"
     ELSE left' = {} /\ pc' = "reporting"
  /\ status' = [k \in Indices |-> IF mode = "dry-run" /\ k \in Selected THEN "proposed"
                                  ELSE status[k]]
  /\ UNCHANGED <<content, proposals, mode, snapshot, next, at, undo, result, answer,
                 bounds, late>>

-----------------------------------------------------------------------------
(* _apply_changes, in the order of the proposals.                          *)

\* Mutant: every snapshot is written back, that of a target not rewritten too.
TakeBackEvery(some) ==
  /\ post' = "failed"
  /\ back' = Selected
  /\ pc' = "restoring"

TakeBack(some) ==
  /\ post' = "failed"
  /\ back' = some
  /\ pc' = "restoring"

\* Mutant: the target is not read again.
FinalCheckUnread(k) ==
  /\ pc = "applying" /\ k \in left /\ \A j \in left : k <= j
  /\ at' = k /\ left' = left \ {k} /\ changed' = changed \cup {k}
  /\ pc' = "writing"
  /\ UNCHANGED <<content, proposals, mode, status, snapshot, next, back, lost, post,
                 result, answer, bounds, late>>

\* The target is read again, and must be what it was at validation.
FinalCheck(k) ==
  /\ pc = "applying" /\ k \in left /\ \A j \in left : k <= j
  /\ IF content[Target(k)] = snapshot[k]
     THEN /\ at' = k /\ left' = left \ {k} /\ changed' = changed \cup {k}
          /\ pc' = "writing"
          /\ UNCHANGED <<back, post>>
     ELSE TakeBack(changed) /\ UNCHANGED <<at, left, changed>>
  /\ UNCHANGED <<content, proposals, mode, status, snapshot, next, lost, result, answer,
                 bounds, late>>

\* The target is opened for writing, which empties it, and rewritten from what
\* was read.
Rewrite ==
  /\ pc = "writing" /\ proposals[at].kind = "apply"
  /\ content' = [content EXCEPT ![Target(at)] =
                   [text |-> "new", edit |-> snapshot[at].edit]]
  /\ pc' = "applying"
  /\ UNCHANGED <<proposals, plan, undo, result, answer, bounds, late>>

\* str.replace(old_text, None) raises TypeError, which _apply_changes does not
\* catch: cli.main answers rc 2.
RewriteRaises ==
  /\ pc = "writing" /\ proposals[at].kind = "null"
  /\ pc' = "idle" /\ answer' = "raised"
  /\ UNCHANGED <<content, proposals, plan, undo, result, bounds, late>>

Cut(k) == [content EXCEPT ![Target(k)].text = "other"]

\* OSError: the target is as it was, or cut.
RewriteFails ==
  /\ pc = "writing" /\ proposals[at].kind = "apply"
  /\ content' \in {content, Cut(at)}
  /\ TakeBack(changed)
  /\ UNCHANGED <<proposals, plan, changed, lost, result, answer, bounds, late>>

Marked(outcome) ==
  status' = [k \in Indices |-> IF k \in Selected THEN outcome ELSE status[k]]

AllApplied ==
  /\ pc = "applying" /\ left = {}
  /\ Marked("applied")
  /\ pc' = "checking"
  /\ UNCHANGED <<content, proposals, mode, snapshot, next, left, at, undo, result, answer,
                 bounds, late>>

\* _run_postcheck: the harness, on an output directory of its own, finds the
\* targeted findings gone and no new one on the targets, or not.
PostCheckPasses ==
  /\ pc = "checking"
  /\ post' = "passed"
  /\ pc' = "reporting"
  /\ UNCHANGED <<content, proposals, plan, changed, back, lost, result, answer, bounds,
                 late>>

PostCheckFails ==
  /\ pc = "checking"
  /\ TakeBack(changed)
  /\ UNCHANGED <<content, proposals, plan, changed, lost, result, answer, bounds, late>>

-----------------------------------------------------------------------------
(* _restore_snapshots, and the result.                                     *)

Restore(k) ==
  /\ pc \in {"restoring", "unreported"} /\ k \in back
  /\ content' = [content EXCEPT ![Target(k)] = snapshot[k]]
  /\ back' = back \ {k}
  /\ UNCHANGED <<proposals, plan, changed, lost, post, ends, bounds, late>>

\* An OSError, or a symbolic link in the path by now.
RestoreFails(k) ==
  /\ pc \in {"restoring", "unreported"} /\ k \in back
  /\ content' \in {content, Cut(k)}
  /\ back' = back \ {k}
  /\ lost' = lost \cup {k}
  /\ UNCHANGED <<proposals, plan, changed, post, ends, bounds, late>>

AllRestored ==
  /\ pc = "restoring" /\ back = {}
  /\ Marked("rolled_back")
  /\ pc' = "reporting"
  /\ UNCHANGED <<content, proposals, mode, snapshot, next, left, at, undo, result, answer,
                 bounds, late>>

Report ==
  /\ pc = "reporting"
  /\ result' = status
  /\ answer' = IF post = "failed" THEN "partial" ELSE "ok"
  /\ pc' = "idle"
  /\ UNCHANGED <<content, proposals, plan, undo, bounds, late>>

\* Mutant: rc 2 and nothing else.
ReportFailsKeepingChanges ==
  /\ pc = "reporting"
  /\ back' = {}
  /\ pc' = "unreported"
  /\ UNCHANGED <<content, proposals, plan, changed, lost, post, result, answer, bounds,
                 late>>

\* _write_result answers False: what passed the post-check is taken back too,
\* for nothing would tell of it.
ReportFails ==
  /\ pc = "reporting"
  /\ back' = IF post = "passed" THEN changed ELSE {}
  /\ pc' = "unreported"
  /\ UNCHANGED <<content, proposals, plan, changed, lost, post, result, answer, bounds,
                 late>>

Unreported ==
  /\ pc = "unreported" /\ back = {}
  /\ answer' = "fatal"
  /\ pc' = "idle"
  /\ UNCHANGED <<content, proposals, plan, undo, result, bounds, late>>

\* The tool's timeout, no longer than that of the post-check's harness: a file
\* that is being written may be left cut.
Kill ==
  /\ pc # "idle"
  /\ content' \in {content} \cup {Cut(k) : k \in IF pc = "writing" THEN {at} ELSE back}
  /\ pc' = "idle" /\ answer' = "killed"
  /\ UNCHANGED <<proposals, plan, undo, result, bounds, late>>

Preparing == Start \/ Refuse \/ Validate \/ Select
Applying == (\E k \in Indices : FinalCheck(k)) \/ Rewrite \/ RewriteRaises \/ RewriteFails
            \/ AllApplied
Checking == PostCheckPasses \/ PostCheckFails
TakingBack == (\E k \in Indices : Restore(k) \/ RestoreFails(k)) \/ AllRestored
Ending == Report \/ ReportFails \/ Unreported \/ Kill

Next == Preparing \/ Applying \/ Checking \/ TakingBack \/ Ending
        \/ \E f \in Files : UserEdits(f)
Spec == Init /\ [][Next]_vars

-----------------------------------------------------------------------------
(* Properties.                                                             *)

\* Edits by the user after the final check and errors of the disk while restoring
\* aside, the target of k is as the command found it, or bears the replacement.
Excused(k) == Target(k) \in late \/ k \in lost
AsFound(k) == Excused(k) \/ content[Target(k)] = snapshot[k]
Bears(k) == Excused(k) \/ content[Target(k)] = [text |-> "new", edit |-> snapshot[k].edit]

\* All the changes were tested and are told of, or none stays.
Accounted ==
  \/ \A k \in changed : AsFound(k)
  \/ /\ answer = "ok" /\ post = "passed"
     /\ \A k \in changed : Bears(k) /\ result[k] = "applied"
\* The one way out: a selected proposal without new_text stopped the command before
\* its own target was opened; the targets before it are rewritten in whole.
Stopped ==
  /\ answer = "raised" /\ at \in changed /\ proposals[at].kind = "null"
  /\ AsFound(at) /\ \A k \in changed \ {at} : Bears(k)

\* A command that answers, by an exit code of its own or by the rc 2 that cli.main
\* makes of an exception, has left no change that its result does not tell of and
\* its post-check did not prove: all the changes stay, or none.  The exception of a
\* proposal without new_text alone leaves changes untested and untold, and leaves
\* no file cut.
NoSilentChange ==
  pc = "idle" /\ answer \notin {"none", "killed"} => Accounted \/ Stopped

\* What the user saved before the final check of a file is never written over:
\* the command gives up, and takes back other files only.
EarlyEditsSurvive ==
  [][\A f \in Files :
       content'[f] # content[f] /\ edits' = edits =>
         \E k \in changed : /\ Target(k) = f
                            /\ f \in late \/ content[f].edit = snapshot[k].edit]_vars

(* A statement of the documentation.                                       *)

\* doc/spec/03-capacites.md:441-443, C11 rule 4: every application is tested, and
\* all the modified files are restored otherwise.
EveryChangeIsTested ==
  pc = "idle" /\ answer \notin {"none", "killed"} => Accounted

=============================================================================

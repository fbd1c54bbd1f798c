----------------------------- MODULE CommitDraft -----------------------------
(***************************************************************************)
(* weekly_commit_draft (tool-registry.ts, runtime.ts, safe_git_write.py)   *)
(* and what the report says of it (report.py).  A draft passes the gate of *)
(* portability and the checks of the engine, is added and committed alone, *)
(* copied into the checkout of the kit, and the commit that HEAD names is  *)
(* answered as its facts; the report counts the drafts from those facts    *)
(* and from the log.  The user works in both checkouts meanwhile.          *)
(*                                                                         *)
(* A commit is its place in the log; a content is "old", "new", "other" or *)
(* "bad", which no check accepts.                                          *)
(***************************************************************************)
EXTENDS DraftLog, FiniteSets, Sequences, SequencesExt

CONSTANTS
  Kinds,        \* subset of {"skill", "command"}
  Edits,        \* contents that an edit may leave
  KitTracked,   \* whether the kit has and tracks the draft: a set of Booleans
  None,         \* no facts, no kit
  MaxEdits,     \* bound: actions of the user
  MaxCommands   \* bound: commands

ASSUME BoundsAreNaturals == {MaxEdits, MaxCommands} \subseteq Nat

VARIABLES
  work, index,     \* the draft and a file of the user, in the checkout and the index
  attached, merging, \* HEAD is on a branch; a merge or a rebase is under way
  kit,             \* [tracked, merging, work, index, head]: the draft in the kit
  pc,              \* a command
  recorded,        \* the facts in weekly-timings, in order
  told,            \* the rows of the last report
  raced,           \* ghost: some facts named the commit of somebody else
  edits, commands

repo == <<work, index, commits, attached, merging>>
command == <<pc, own, answer>>
report == <<recorded, told>>
bounds == <<edits, commands>>
vars == <<repo, kit, command, report, raced, bounds>>

HEAD == Len(commits)
Tree == commits[HEAD].tree

-----------------------------------------------------------------------------
Init ==
  /\ work = [f \in Files |-> "old"] /\ index = work
  /\ commits = <<[by |-> "user", marked |-> FALSE, tree |-> [f \in Files |-> "old"]]>>
  /\ attached = TRUE /\ merging = FALSE
  /\ \E tracked \in KitTracked :
       kit = [tracked |-> tracked, merging |-> FALSE, work |-> "old", index |-> "old", head |-> "old"]
  /\ pc = "idle" /\ own = 0
  /\ answer = [is |-> "none", facts |-> None]
  /\ recorded = << >> /\ told = << >> /\ raced = FALSE
  /\ edits = 0 /\ commands = 0

\* The user and the drafting agent edit, stage, commit, merge and detach.
UserWorks ==
  /\ edits < MaxEdits /\ edits' = edits + 1
  /\ \/ \E f \in Files, v \in Edits :
          work' = [work EXCEPT ![f] = v] /\ UNCHANGED <<index, commits, attached, merging, kit>>
     \/ \E f \in Files :
          index' = [index EXCEPT ![f] = work[f]] /\ UNCHANGED <<work, commits, attached, merging, kit>>
     \/ /\ index # Tree
        /\ commits' = Append(commits, [by |-> "user", marked |-> FALSE, tree |-> index])
        /\ merging' = FALSE /\ UNCHANGED <<work, index, attached, kit>>
     \/ merging' = ~merging /\ UNCHANGED <<work, index, commits, attached, kit>>
     \/ attached' = ~attached /\ UNCHANGED <<work, index, commits, merging, kit>>
     \/ kit' = [kit EXCEPT !.merging = ~@] /\ UNCHANGED repo
  /\ UNCHANGED <<command, report, raced, commands>>

\* The variables of a command end with it.
Answer(is, facts) ==
  /\ answer' = [is |-> is, facts |-> facts]
  /\ pc' = "idle" /\ own' = 0
Goes(to) == pc' = to /\ UNCHANGED <<own, answer>>
OfTheCommand == UNCHANGED <<report, raced, bounds>>

\* weekly_commit_draft, runPortabilityGate: nothing is scanned for a command;
\* without the scanner a skill passes; a scanner that fails refuses it.
Gate(kind, verdict) ==
  /\ pc = "idle" /\ commands < MaxCommands /\ commands' = commands + 1
  /\ IF kind = "skill" /\ verdict \in {"blocked", "unusable"}
     THEN Answer("refused", None)
     ELSE /\ kind = "skill" /\ verdict = "pass" => work[Draft] # "bad"
          /\ pc' = "gated" /\ answer' = [is |-> "none", facts |-> None] /\ UNCHANGED own
  /\ UNCHANGED <<repo, kit, report, raced, edits>>

\* validate_draft, and the state of the repository.
Committable == work[Draft] # "bad" /\ attached /\ ~merging
\* _commit_draft_root
Check ==
  /\ pc = "gated" /\ Committable /\ Goes("checked")
  /\ OfTheCommand /\ UNCHANGED <<repo, kit>>
Refuse ==
  /\ pc = "gated" /\ ~Committable /\ Answer("refused", None)
  /\ OfTheCommand /\ UNCHANGED <<repo, kit>>

\* git add of the draft alone.
Add ==
  /\ pc = "checked" /\ index' = [index EXCEPT ![Draft] = work[Draft]] /\ Goes("added")
  /\ OfTheCommand /\ UNCHANGED <<work, commits, attached, merging, kit>>
AddFails ==
  /\ pc = "checked" /\ Answer("refused", None)
  /\ OfTheCommand /\ UNCHANGED <<repo, kit>>

\* Mutant: the commit takes all that is staged.
CommittedWithIndex == [index EXCEPT ![Draft] = work[Draft]]
\* git commit -- draft: the draft as it is now, over the tree of HEAD.
Committed == [Tree EXCEPT ![Draft] = work[Draft]]
\* commit_draft_detailed; git refuses a partial commit during a merge, and an
\* empty one.
Commit ==
  /\ pc = "added" /\ ~merging /\ Committed # Tree
  /\ commits' = Append(commits, [by |-> "draft", marked |-> TRUE, tree |-> Committed])
  /\ index' = [index EXCEPT ![Draft] = work[Draft]]
  /\ pc' = "committed" /\ own' = HEAD + 1 /\ UNCHANGED answer
  /\ OfTheCommand /\ UNCHANGED <<work, attached, merging, kit>>
\* A hook or a lock, or nothing to commit: the draft stays staged.
CommitFails ==
  /\ pc = "added" /\ Answer("refused", None)
  /\ OfTheCommand /\ UNCHANGED <<repo, kit>>

\* _sync_kit_draft: what must hold of the kit to mirror the draft.
Mirrors == kit.tracked /\ kit.work # work[Draft] /\ ~kit.merging
\* The checkout is read again; the write, the add and the commit may each fail.
MirrorWrites ==
  /\ pc = "committed" /\ Mirrors
  /\ kit' = [kit EXCEPT !.work = work[Draft]] /\ Goes("written")
  /\ OfTheCommand /\ UNCHANGED repo
MirrorAdds ==
  /\ pc = "written" /\ kit' = [kit EXCEPT !.index = kit.work] /\ Goes("staged")
  /\ OfTheCommand /\ UNCHANGED repo
MirrorCommits ==
  /\ pc = "staged" /\ ~kit.merging /\ kit.work # kit.head
  /\ kit' = [kit EXCEPT !.head = kit.work, !.index = kit.work] /\ Goes("mirrored")
  /\ OfTheCommand /\ UNCHANGED repo
\* Mutant: a mirror that fails refuses the draft.
MirrorRefuses ==
  /\ pc \in {"committed", "written", "staged"} /\ Answer("refused", None)
  /\ OfTheCommand /\ UNCHANGED <<repo, kit>>
MirrorSkips ==
  /\ \/ pc = "committed" \* a condition, or the write, fails
     \/ pc \in {"written", "staged"}
  /\ Goes("mirrored")
  /\ OfTheCommand /\ UNCHANGED <<repo, kit>>

\* The facts: the commit that HEAD names when everything is done.
Facts ==
  /\ pc = "mirrored" /\ Answer("ok", [commit |-> HEAD, form |-> "full"])
  /\ raced' = (raced \/ own # HEAD)
  /\ UNCHANGED <<repo, kit, report, bounds>>
\* A git command that outlasts its time escapes (_run_git); the plugin or the
\* user stops the command.
Dies ==
  /\ pc # "idle" /\ Answer("failed", None)
  /\ OfTheCommand /\ UNCHANGED <<repo, kit>>

\* The orchestrator writes the facts of a commit into weekly-timings, once or
\* again.
Records ==
  /\ answer.facts # None /\ Len(recorded) < MaxCommands
  /\ recorded' = Append(recorded, answer.facts)
  /\ UNCHANGED <<repo, kit, command, told, raced, bounds>>

-----------------------------------------------------------------------------
\* _git_log: the marked commits, newest first, with short hashes; none without git.
Log(git) ==
  IF ~git THEN << >>
  ELSE LET drafts == SetToSortSeq({i \in DOMAIN commits : commits[i].marked}, LAMBDA i, j : i > j) IN
       [i \in DOMAIN drafts |-> [commit |-> drafts[i], form |-> "short"]]
\* Mutant: hashes are compared whole.
KeyWhole(hash) == <<hash.commit, hash.form>>
\* _merge_draft_commits: the first characters of a hash tell the commit.
Key(hash) == <<hash.commit, "short">>
MergedCommits(rows) ==
  FoldLeft(LAMBDA kept, hash :
             IF \E other \in ToSet(kept) : Key(other) = Key(hash) THEN kept ELSE Append(kept, hash),
           << >>, rows)
\* _auto_commits: what was recorded, then the log.
Report(git) ==
  /\ pc = "idle" /\ told' = MergedCommits(recorded \o Log(git))
  /\ UNCHANGED <<repo, kit, command, recorded, raced, bounds>>

Next ==
  \/ UserWorks
  \/ (\E kind \in Kinds, verdict \in {"pass", "ignored", "blocked", "unusable"} : Gate(kind, verdict))
  \/ Check \/ Refuse \/ Add \/ AddFails \/ Commit \/ CommitFails
  \/ MirrorWrites \/ MirrorAdds \/ MirrorCommits \/ MirrorSkips \/ Facts \/ Dies
  \/ Records \/ \E git \in BOOLEAN : Report(git)
Spec == Init /\ [][Next]_vars

-----------------------------------------------------------------------------
Contents == {"old"} \cup Edits
Hashes == [commit : 1 .. MaxEdits + MaxCommands + 1, form : {"full", "short"}]
TypeOK ==
  /\ work \in [Files -> Contents] /\ index \in [Files -> Contents]
  /\ \A i \in DOMAIN commits :
       commits[i].by \in {"user", "draft"} /\ commits[i].tree \in [Files -> Contents]
  /\ kit.work \in Contents /\ kit.index \in Contents /\ kit.head \in Contents
  /\ own \in 0 .. Len(commits)
  /\ answer.is \in {"none", "ok", "refused", "failed"} /\ answer.facts \in Hashes \cup {None}
  /\ ToSet(recorded) \cup ToSet(told) \subseteq Hashes

\* A report that has git counts every draft commit once, although its hash is
\* recorded whole by the orchestrator, maybe again, and short in the log, unless
\* a commit of the user came between a draft and its facts (_merge_draft_commits).
DraftsCountedOnce ==
  [][\A git \in BOOLEAN : Report(git) /\ git /\ ~raced =>
       /\ Len(told') = Cardinality({i \in DOMAIN commits : commits[i].marked})
       /\ \A i \in DOMAIN commits : commits[i].marked => \E hash \in ToSet(told') : hash.commit = i]_vars
=============================================================================

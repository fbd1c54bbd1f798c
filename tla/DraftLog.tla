------------------------------- MODULE DraftLog -------------------------------
(***************************************************************************)
(* What can be seen of weekly_commit_draft from outside: the log of the    *)
(* checkout, the commit that a command made and what it answered; and what *)
(* must hold of them, whoever works in the checkout meanwhile.             *)
(* CommitDraft is the command.                                             *)
(***************************************************************************)
EXTENDS Integers

VARIABLES
  commits,  \* the log: [by, marked, tree]
  own,      \* ghost: the commit of the command, or 0
  answer    \* of the last command

Draft == "draft"
Files == {Draft, "notes"}

\* A commit of the engine holds a change of the draft and of nothing else,
\* whatever the user had staged or stages in the meantime (commit_draft_detailed).
OnlyTheDraft ==
  \A i \in DOMAIN commits : commits[i].by = "draft" =>
    /\ commits[i].tree[Draft] # commits[i - 1].tree[Draft]
    /\ \A f \in Files \ {Draft} : commits[i].tree[f] = commits[i - 1].tree[f]

\* A refusal has made no commit (_refused): whatever refuses the command stands
\* before its commit, and nothing after it turns into a refusal.
RefusedLeavesNoCommit ==
  [][answer'.is = "refused" /\ answer # answer' => own = 0 /\ commits' = commits]_<<commits, own, answer>>
=============================================================================

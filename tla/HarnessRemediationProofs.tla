---------------------- MODULE HarnessRemediationProofs ----------------------
(***************************************************************************)
(* Theorems of HarnessRemediation, for any files, proposals and bounds.    *)
(***************************************************************************)
EXTENDS HarnessRemediation, TLAPS

-----------------------------------------------------------------------------
(* Type correctness.                                                       *)

LEMMA TypeInit == Init => TypeOK
<1>1. SUFFICES ASSUME Init PROVE TypeOK
  OBVIOUS
<1>2. content \in [Files -> Contents]
  BY <1>1, CountsAreNaturals DEF Init, Contents
<1>3. DOMAIN snapshot = {}
  BY <1>1 DEF Init
<1> QED
  BY <1>1, <1>2, <1>3, CountsAreNaturals DEF Init, TypeOK, Indices, Statuses

LEMMA TargetType == ASSUME TypeOK, NEW k \in Indices PROVE Target(k) \in Files
  BY DEF TypeOK, Target, Proposals

LEMMA SelectedType == TypeOK => Selected \subseteq Indices /\ Selected \subseteq DOMAIN snapshot
  BY DEF TypeOK, Selected, Foremost

LEMMA CutType ==
  ASSUME TypeOK, NEW k \in Indices PROVE Cut(k) \in [Files -> Contents]
<1>1. content \in [Files -> Contents] /\ Target(k) \in Files
  BY TargetType DEF TypeOK
<1>2. [content[Target(k)] EXCEPT !.text = "other"] \in Contents
  BY <1>1 DEF Contents
<1> QED
  BY <1>1, <1>2 DEF Cut

\* Where the command is in its plan: what it started to rewrite was selected.
Places ==
  /\ changed \subseteq Selected /\ left \subseteq Selected
  /\ pc = "validating" => changed = {} /\ left = {}
  /\ pc = "writing" => at \in changed

Sound == TypeOK /\ Places

LEMMA SelectedKept == UNCHANGED <<snapshot, proposals>> => Selected' = Selected
  BY DEF Selected, Foremost, Target

LEMMA SoundInit == Init => Sound
<1>1. Init => Places
  BY DEF Init, Places
<1> QED
  BY <1>1, TypeInit DEF Sound

LEMMA SoundStep == Sound /\ [Next]_vars => Sound'
<1> SUFFICES ASSUME Sound, [Next]_vars PROVE Sound'
  OBVIOUS
<1> USE CountsAreNaturals DEF Sound
<1>0. Selected \subseteq Indices /\ Selected \subseteq DOMAIN snapshot
  BY SelectedType
<1>1. CASE UNCHANGED vars
  <2>1. Selected' = Selected
    BY <1>1, SelectedKept DEF vars, plan
  <2> QED
    BY <1>1, <2>1 DEF vars, plan, undo, ends, bounds, TypeOK, Places
<1>2. ASSUME NEW f \in Files, UserEdits(f) PROVE Sound'
  <2>1. content' \in [Files -> Contents]
    BY <1>2 DEF UserEdits, TypeOK, Contents
  <2>2. edits' \in 0 .. MaxEdits /\ late' \subseteq Files
    BY <1>2 DEF UserEdits, TypeOK
  <2>3. Selected' = Selected
    BY <1>2, SelectedKept DEF UserEdits, plan
  <2>4. TypeOK'
    BY <1>2, <2>1, <2>2 DEF UserEdits, TypeOK, plan, undo, ends
  <2> QED
    BY <1>2, <2>3, <2>4 DEF UserEdits, Places, plan, undo, ends
<1>3. CASE Start
  <2>1. DOMAIN snapshot' = {}
    BY <1>3 DEF Start
  <2>2. TypeOK'
    BY <1>3, <2>1 DEF Start, TypeOK, Indices, Statuses
  <2> QED
    BY <1>3, <2>2 DEF Start, Places
<1>4. CASE Refuse
  <2>1. Selected' = Selected
    BY <1>4, SelectedKept DEF Refuse, plan
  <2>2. TypeOK'
    BY <1>4 DEF Refuse, TypeOK, plan
  <2> QED
    BY <1>4, <2>1, <2>2 DEF Refuse, Places, plan
<1>5. CASE Validate
  <2>1. next \in Indices /\ proposals[next] \in Proposals /\ proposals[next].file \in Files
    BY <1>5 DEF Validate, TypeOK, Indices, Proposals
  <2>2. content[proposals[next].file] \in Contents
    BY <2>1 DEF TypeOK
  <2>3. DOMAIN snapshot' \subseteq Indices /\ \A k \in DOMAIN snapshot' : snapshot'[k] \in Contents
    <3>1. CASE UNCHANGED snapshot
      BY <3>1 DEF TypeOK
    <3>2. CASE snapshot' = [k \in DOMAIN snapshot \cup {next} |->
                              IF k = next THEN content[proposals[next].file] ELSE snapshot[k]]
      <4>1. DOMAIN snapshot' = DOMAIN snapshot \cup {next}
        BY <3>2
      <4>2. \A k \in DOMAIN snapshot' :
              snapshot'[k] = IF k = next THEN content[proposals[next].file] ELSE snapshot[k]
        BY <3>2
      <4> QED
        BY <4>1, <4>2, <2>1, <2>2 DEF TypeOK
    <3> QED
      BY <1>5, <3>1, <3>2 DEF Validate
  <2>4. status' \in [Indices -> Statuses]
    BY <1>5, <2>1 DEF Validate, TypeOK, Statuses
  <2>5. next' \in 1 .. N + 1
    BY <1>5 DEF Validate, TypeOK
  <2>6. TypeOK'
    BY <1>5, <2>3, <2>4, <2>5 DEF Validate, TypeOK, undo, ends, bounds
  <2> QED
    BY <1>5, <2>6 DEF Validate, Places, undo, ends
<1>6. CASE Select
  <2>1. status' \in [Indices -> Statuses]
    BY <1>6 DEF Select, TypeOK, Statuses
  <2>2. left' \subseteq Selected /\ pc' \in {"applying", "reporting"}
    BY <1>6 DEF Select
  <2>3. Selected' = Selected
    BY <1>6, SelectedKept DEF Select
  <2>4. TypeOK'
    BY <1>6, <1>0, <2>1, <2>2 DEF Select, TypeOK, undo, bounds
  <2> QED
    BY <1>6, <2>2, <2>3, <2>4 DEF Select, Places, undo
<1>7. ASSUME NEW k \in Indices, FinalCheck(k) PROVE Sound'
  <2>1. Selected' = Selected
    BY <1>7, SelectedKept DEF FinalCheck
  <2>2. TypeOK'
    <3>1. CASE content[Target(k)] = snapshot[k]
      <4>1. at' \in 0 .. N
        BY <1>7, <3>1 DEF FinalCheck, Indices
      <4>2. left' \subseteq Indices /\ changed' \subseteq Indices
            /\ back' \subseteq changed' /\ lost' \subseteq changed'
        BY <1>7, <3>1 DEF FinalCheck, TypeOK
      <4> QED
        BY <1>7, <3>1, <4>1, <4>2 DEF FinalCheck, TypeOK, bounds
    <3>2. CASE content[Target(k)] # snapshot[k]
      BY <1>7, <3>2 DEF FinalCheck, TakeBack, TypeOK, bounds
    <3> QED
      BY <3>1, <3>2
  <2> QED
    BY <1>7, <2>1, <2>2 DEF FinalCheck, TakeBack, Places
<1>8. ASSUME Rewrite \/ RewriteRaises \/ RewriteFails PROVE Sound'
  <2>1. at \in Indices /\ at \in DOMAIN snapshot /\ Target(at) \in Files
    BY <1>8, <1>0, TargetType DEF Rewrite, RewriteRaises, RewriteFails, Places
  <2>2. content' \in [Files -> Contents]
    <3>1. CASE Rewrite
      <4>1. [text |-> "new", edit |-> snapshot[at].edit] \in Contents
        BY <2>1 DEF TypeOK, Contents
      <4> QED
        BY <3>1, <4>1, <2>1 DEF Rewrite, TypeOK
    <3>2. CASE RewriteRaises
      BY <3>2 DEF RewriteRaises, TypeOK
    <3>3. CASE RewriteFails
      BY <3>3, <2>1, CutType DEF RewriteFails, TypeOK
    <3> QED
      BY <1>8, <3>1, <3>2, <3>3
  <2>3. Selected' = Selected
    BY <1>8, SelectedKept DEF Rewrite, RewriteRaises, RewriteFails, plan
  <2>4. TypeOK'
    <3>1. CASE Rewrite
      BY <3>1, <2>2 DEF Rewrite, TypeOK, plan, undo, bounds
    <3>2. CASE RewriteRaises
      BY <3>2, <2>2 DEF RewriteRaises, TypeOK, plan, undo, bounds
    <3>3. CASE RewriteFails
      BY <3>3, <2>2 DEF RewriteFails, TakeBack, TypeOK, plan, bounds
    <3> QED
      BY <1>8, <3>1, <3>2, <3>3
  <2>5. UNCHANGED <<changed, left>> /\ pc' \notin {"writing", "validating"}
    BY <1>8 DEF Rewrite, RewriteRaises, RewriteFails, TakeBack, plan, undo
  <2> QED
    BY <2>3, <2>4, <2>5 DEF Places
<1>9. ASSUME AllApplied \/ AllRestored PROVE Sound'
  <2>1. status' \in [Indices -> Statuses]
    BY <1>9 DEF AllApplied, AllRestored, Marked, TypeOK, Statuses
  <2>2. Selected' = Selected
    BY <1>9, SelectedKept DEF AllApplied, AllRestored
  <2>3. TypeOK'
    BY <1>9, <2>1 DEF AllApplied, AllRestored, TypeOK, undo, bounds
  <2> QED
    BY <1>9, <2>2, <2>3 DEF AllApplied, AllRestored, Places, undo
<1>10. CASE Checking
  <2>1. Selected' = Selected
    BY <1>10, SelectedKept DEF Checking, PostCheckPasses, PostCheckFails, plan
  <2>2. TypeOK'
    BY <1>10 DEF Checking, PostCheckPasses, PostCheckFails, TakeBack, TypeOK, plan, bounds
  <2> QED
    BY <1>10, <2>1, <2>2 DEF Checking, PostCheckPasses, PostCheckFails, TakeBack, Places, plan
<1>11. ASSUME NEW k \in Indices, Restore(k) \/ RestoreFails(k) PROVE Sound'
  <2>1. k \in back /\ k \in DOMAIN snapshot /\ snapshot[k] \in Contents
    BY <1>11, <1>0 DEF Restore, RestoreFails, TypeOK, Places
  <2>2. content' \in [Files -> Contents]
    BY <1>11, <2>1, CutType DEF Restore, RestoreFails, TypeOK
  <2>3. Selected' = Selected
    BY <1>11, SelectedKept DEF Restore, RestoreFails, plan
  <2>4. back' \subseteq changed' /\ lost' \subseteq changed'
    BY <1>11 DEF Restore, RestoreFails, TypeOK
  <2>5. TypeOK'
    BY <1>11, <2>2, <2>4 DEF Restore, RestoreFails, TypeOK, plan, ends, bounds
  <2> QED
    BY <1>11, <2>3, <2>5 DEF Restore, RestoreFails, Places, plan, ends
<1>12. ASSUME Report \/ ReportFails \/ Unreported PROVE Sound'
  <2>1. Selected' = Selected
    BY <1>12, SelectedKept DEF Report, ReportFails, Unreported, plan
  <2>2. TypeOK'
    BY <1>12 DEF Report, ReportFails, Unreported, TypeOK, plan, undo, bounds
  <2> QED
    BY <1>12, <2>1, <2>2 DEF Report, ReportFails, Unreported, Places, plan, undo
<1>13. CASE Kill
  <2>1. content' \in [Files -> Contents]
    <3>1. \A k \in IF pc = "writing" THEN {at} ELSE back : k \in Indices
      BY <1>0 DEF TypeOK, Places
    <3>2. \A k \in IF pc = "writing" THEN {at} ELSE back : Cut(k) \in [Files -> Contents]
      BY <3>1, CutType
    <3> QED
      BY <1>13, <3>2 DEF Kill, TypeOK
  <2>2. Selected' = Selected
    BY <1>13, SelectedKept DEF Kill, plan
  <2>3. TypeOK'
    BY <1>13, <2>1 DEF Kill, TypeOK, plan, undo, bounds
  <2> QED
    BY <1>13, <2>2, <2>3 DEF Kill, Places, plan, undo
<1> QED
  BY <1>1, <1>2, <1>3, <1>4, <1>5, <1>6, <1>7, <1>8, <1>9, <1>10, <1>11, <1>12, <1>13
  DEF Next, Preparing, Applying, TakingBack, Ending

\* Every value the command and the project can take is well typed.
THEOREM TypeCorrect == Spec => []TypeOK
<1>1. Spec => []Sound
  BY SoundInit, SoundStep, PTL DEF Spec
<1> QED
  BY <1>1, PTL DEF Sound

-----------------------------------------------------------------------------
(* Early edits.  Distinct selected proposals have distinct targets, so a   *)
(* target is disturbed through its own proposal only.                      *)

LEMMA OneProposalEach ==
  ASSUME Sound, NEW j \in Selected, NEW k \in Selected, Target(j) = Target(k)
  PROVE  j = k
<1>1. j \in Foremost /\ k \in Foremost /\ j \in DOMAIN snapshot /\ k \in DOMAIN snapshot
  BY DEF Selected, Foremost
<1>2. ~(j < k) /\ ~(k < j)
  BY <1>1 DEF Foremost
<1>3. j \in Int /\ k \in Int
  BY <1>1 DEF Sound, TypeOK, Indices
<1> QED
  BY <1>2, <1>3

\* What the command started to rewrite has the last edit that it read.
EditKept(k) == Target(k) \in late \/ content[Target(k)].edit = snapshot[k].edit
EditsKept == \A k \in changed : EditKept(k)

LEMMA EditsKeptStep == Sound /\ EditsKept /\ [Next]_vars => EditsKept'
<1> SUFFICES ASSUME Sound, EditsKept, [Next]_vars PROVE EditsKept'
  OBVIOUS
<1>0. /\ \A k \in changed : k \in Indices /\ k \in DOMAIN snapshot /\ Target(k) \in Files
      /\ back \subseteq changed
      /\ content \in [Files -> Contents]
      /\ \A j, k \in changed : Target(j) = Target(k) => j = k
      /\ \A k \in changed : snapshot[k] \in Contents
  BY SelectedType, TargetType, OneProposalEach DEF Sound, TypeOK, Places
<1>a. ASSUME NEW k \in changed, content' = Cut(k), UNCHANGED <<changed, snapshot, proposals, late>>
      PROVE  EditsKept'
  <2>1. \A j \in changed : content'[Target(j)].edit = content[Target(j)].edit
    BY <1>a, <1>0 DEF Cut, Contents
  <2> QED
    BY <1>a, <2>1 DEF EditsKept, EditKept, Target
<1>b. ASSUME UNCHANGED <<content, changed, snapshot, proposals, late>> PROVE EditsKept'
  BY <1>b DEF EditsKept, EditKept, Target
<1>1. ASSUME NEW f \in Files, UserEdits(f) PROVE EditsKept'
  <2>1. UNCHANGED <<changed, snapshot, proposals>>
    BY <1>1 DEF UserEdits, plan, undo
  <2>2. \A g \in Files : g # f => content'[g] = content[g]
    BY <1>1, <1>0 DEF UserEdits
  <2>3. ASSUME NEW k \in changed PROVE EditKept(k)'
    <3>1. CASE Target(k) = f
      <4>1. f \in late'
        BY <1>1, <3>1 DEF UserEdits
      <4> QED
        BY <2>1, <3>1, <4>1 DEF EditKept, Target
    <3>2. CASE Target(k) # f
      <4>1. late \subseteq late' /\ content'[Target(k)] = content[Target(k)]
        BY <1>0, <1>1, <2>2, <3>2 DEF UserEdits
      <4> QED
        BY <2>1, <4>1 DEF EditsKept, EditKept, Target
    <3> QED
      BY <3>1, <3>2
  <2> QED
    BY <2>1, <2>3 DEF EditsKept
<1>2. CASE Start \/ Refuse
  BY <1>2 DEF Start, Refuse, EditsKept
<1>3. CASE Validate
  BY <1>3 DEF Validate, undo, bounds, EditsKept, Sound, Places
<1>4. CASE Select \/ AllApplied \/ AllRestored \/ RewriteRaises \/ Checking \/ Report
             \/ ReportFails \/ Unreported
  BY <1>4, <1>b DEF Select, AllApplied, AllRestored, RewriteRaises, Checking,
     PostCheckPasses, PostCheckFails, TakeBack, Report, ReportFails, Unreported, plan, undo, bounds
<1>5. ASSUME NEW k \in Indices, FinalCheck(k) PROVE EditsKept'
  <2>1. CASE content[Target(k)] = snapshot[k]
    BY <1>5, <2>1 DEF FinalCheck, EditsKept, EditKept, Target
  <2>2. CASE content[Target(k)] # snapshot[k]
    BY <1>5, <2>2, <1>b DEF FinalCheck
  <2> QED
    BY <2>1, <2>2
<1>6. CASE Rewrite
  <2>1. at \in changed /\ UNCHANGED <<changed, snapshot, proposals, late>>
    BY <1>6 DEF Rewrite, Sound, Places, plan, undo
  <2>2. content' = [content EXCEPT ![Target(at)] = [text |-> "new", edit |-> snapshot[at].edit]]
    BY <1>6 DEF Rewrite
  <2>3. content'[Target(at)].edit = snapshot[at].edit
    BY <1>0, <2>1, <2>2
  <2>4. \A j \in changed : j # at => content'[Target(j)] = content[Target(j)]
    BY <1>0, <2>1, <2>2
  <2> QED
    BY <2>1, <2>3, <2>4 DEF EditsKept, EditKept, Target
<1>7. CASE RewriteFails
  <2>1. at \in changed /\ UNCHANGED <<changed, snapshot, proposals, late>>
        /\ content' \in {content, Cut(at)}
    BY <1>7 DEF RewriteFails, Sound, Places, plan, bounds
  <2> QED
    BY <2>1, <1>a, <1>b
<1>8. ASSUME NEW k \in Indices, Restore(k) PROVE EditsKept'
  <2>1. k \in changed /\ UNCHANGED <<changed, snapshot, proposals, late>>
        /\ content' = [content EXCEPT ![Target(k)] = snapshot[k]]
    BY <1>8, <1>0 DEF Restore, plan
  <2>2. content'[Target(k)] = snapshot[k]
    BY <1>0, <2>1
  <2>3. \A j \in changed : j # k => content'[Target(j)] = content[Target(j)]
    BY <1>0, <2>1
  <2> QED
    BY <2>1, <2>2, <2>3 DEF EditsKept, EditKept, Target
<1>9. ASSUME NEW k \in Indices, RestoreFails(k) PROVE EditsKept'
  <2>1. k \in changed /\ UNCHANGED <<changed, snapshot, proposals, late>>
        /\ content' \in {content, Cut(k)}
    BY <1>9, <1>0 DEF RestoreFails, plan
  <2> QED
    BY <2>1, <1>a, <1>b
<1>10. CASE Kill
  <2>1. UNCHANGED <<changed, snapshot, proposals, late>>
    BY <1>10 DEF Kill, plan, undo
  <2>2. content' = content \/ \E k \in changed : content' = Cut(k)
    BY <1>10, <1>0 DEF Kill, Sound, Places
  <2> QED
    BY <2>1, <2>2, <1>a, <1>b
<1>11. CASE UNCHANGED vars
  BY <1>11, <1>b DEF vars, plan, undo
<1> QED
  BY <1>1, <1>2, <1>3, <1>4, <1>5, <1>6, <1>7, <1>8, <1>9, <1>10, <1>11
  DEF Next, Preparing, Applying, TakingBack, Ending

\* What the user saved before the final check of a file is never written over.
THEOREM EditsSurvive == Spec => EarlyEditsSurvive
<1> DEFINE Kept(f) == \E k \in changed : /\ Target(k) = f
                                         /\ f \in late \/ content[f].edit = snapshot[k].edit
<1>1. Init => EditsKept
  BY DEF Init, EditsKept
<1>2. ASSUME Sound, EditsKept, [Next]_vars
      PROVE  [\A f \in Files : content'[f] # content[f] /\ edits' = edits => Kept(f)]_vars
  <2>0. content \in [Files -> Contents] /\ back \subseteq changed /\ edits \in Nat
    BY <1>2, CountsAreNaturals DEF Sound, TypeOK
  <2>1. \A k \in changed : Kept(Target(k))
    BY <1>2 DEF EditsKept, EditKept
  <2>2. ASSUME NEW k \in changed, NEW f \in Files, content'[f] # content[f],
               \E c : content' = [content EXCEPT ![Target(k)] = c]
        PROVE  Kept(f)
    <3>1. f = Target(k)
      BY <2>0, <2>2
    <3> QED
      BY <2>1, <2>2, <3>1
  <2>3. ASSUME NEW f \in Files, content'[f] # content[f], edits' = edits PROVE Kept(f)
    <3>0. content' # content
      BY <2>3
    <3>1. CASE Rewrite \/ RewriteFails
      <4>1. at \in changed /\ \E c : content' = [content EXCEPT ![Target(at)] = c]
        BY <1>2, <3>0, <3>1 DEF Rewrite, RewriteFails, Cut, Sound, Places
      <4> QED
        BY <4>1, <2>2, <2>3
    <3>2. ASSUME NEW k \in Indices, Restore(k) \/ RestoreFails(k) PROVE Kept(f)
      <4>1. k \in changed /\ \E c : content' = [content EXCEPT ![Target(k)] = c]
        BY <2>0, <3>0, <3>2 DEF Restore, RestoreFails, Cut
      <4> QED
        BY <4>1, <2>2, <2>3
    <3>3. CASE Kill
      <4>1. \E k \in changed : \E c : content' = [content EXCEPT ![Target(k)] = c]
        BY <1>2, <2>0, <3>0, <3>3 DEF Kill, Cut, Sound, Places
      <4> QED
        BY <4>1, <2>2, <2>3
    <3>4. ASSUME NEW g \in Files, UserEdits(g) PROVE FALSE
      BY <2>0, <2>3, <3>4 DEF UserEdits
    <3>5. UNCHANGED vars \/ Preparing \/ RewriteRaises \/ AllApplied \/ AllRestored \/ Checking
            \/ Report \/ ReportFails \/ Unreported \/ (\E k \in Indices : FinalCheck(k))
          => content' = content
      BY DEF vars, Preparing, Start, Refuse, Validate, Select, RewriteRaises, AllApplied,
         AllRestored, Checking, PostCheckPasses, PostCheckFails, Report, ReportFails, Unreported,
         FinalCheck
    <3> QED
      BY <1>2, <3>0, <3>1, <3>2, <3>3, <3>4, <3>5 DEF Next, Applying, TakingBack, Ending
  <2> QED
    BY <2>3
<1>3. Spec => [](Sound /\ EditsKept)
  BY <1>1, SoundInit, SoundStep, EditsKeptStep, PTL DEF Spec
<1> QED
  BY <1>2, <1>3, PTL DEF Spec, EarlyEditsSurvive

-----------------------------------------------------------------------------
(* No silent change.  Of a target that the command started to rewrite, it  *)
(* is known at each place whether it bears the replacement or is as found. *)

Working == pc \in {"validating", "applying", "writing", "checking"} => post = "not_run"
Rewriting ==
  /\ pc \in {"applying", "writing", "checking"} =>
       \A k \in changed : Bears(k) \/ (pc = "writing" /\ k = at)
  /\ pc = "writing" => AsFound(at)
  /\ pc = "checking" => \A k \in changed : status[k] = "applied"
Restoring ==
  /\ pc = "restoring" => post = "failed"
  /\ pc \in {"restoring", "unreported"} => \A k \in changed \ back : AsFound(k)
Telling ==
  pc = "reporting" =>
    /\ post = "passed" => \A k \in changed : Bears(k) /\ status[k] = "applied"
    /\ post = "failed" => \A k \in changed : AsFound(k)
    /\ post = "not_run" => changed = {}
Story == Working /\ Rewriting /\ Restoring /\ Telling /\ NoSilentChange

LEMMA StoryInit == Init => Story
  BY DEF Init, Story, Working, Rewriting, Restoring, Telling, NoSilentChange, Accounted, Stopped

LEMMA Undisturbed ==
  UNCHANGED <<content, proposals, snapshot, late, lost>> =>
    \A k : (Bears(k)' <=> Bears(k)) /\ (AsFound(k)' <=> AsFound(k))
  BY DEF Bears, AsFound, Excused, Target

LEMMA UserDisturbs ==
  ASSUME Sound, NEW f \in Files, UserEdits(f), NEW k \in changed
  PROVE  (Bears(k) => Bears(k)') /\ (AsFound(k) => AsFound(k)')
<1>1. UNCHANGED <<changed, snapshot, proposals, lost>>
  BY DEF UserEdits, plan, undo
<1>2. CASE Target(k) = f
  <2>1. f \in late'
    BY <1>2 DEF UserEdits
  <2> QED
    BY <1>1, <1>2, <2>1 DEF Bears, AsFound, Excused, Target
<1>3. CASE Target(k) # f
  <2>1. late \subseteq late'
    BY DEF UserEdits
  <2>2. content'[Target(k)] = content[Target(k)]
    <3>1. content \in [Files -> Contents] /\ Target(k) \in Files
      BY TargetType DEF Sound, TypeOK
    <3> QED
      BY <1>3, <3>1 DEF UserEdits
  <2> QED
    BY <1>1, <2>1, <2>2 DEF Bears, AsFound, Excused, Target
<1> QED
  BY <1>2, <1>3

LEMMA OthersUndisturbed ==
  ASSUME Sound, NEW k \in changed, NEW c, content' = [content EXCEPT ![Target(k)] = c],
         UNCHANGED <<proposals, snapshot, late>>, lost \subseteq lost'
  PROVE  \A j \in changed \ {k} : (Bears(j) => Bears(j)') /\ (AsFound(j) => AsFound(j)')
<1>1. ASSUME NEW j \in changed, j # k
      PROVE  content'[Target(j)] = content[Target(j)]
  <2>1. Target(j) # Target(k)
    BY <1>1, OneProposalEach DEF Sound, Places
  <2>2. content \in [Files -> Contents] /\ Target(j) \in Files
    BY TargetType DEF Sound, TypeOK
  <2> QED
    BY <2>1, <2>2
<1> QED
  BY <1>1 DEF Bears, AsFound, Excused, Target

LEMMA StoryStep == Sound /\ Story /\ [Next]_vars => Story'
<1> SUFFICES ASSUME Sound, Story, [Next]_vars PROVE Story'
  OBVIOUS
<1>0. /\ \A k \in changed : k \in Indices /\ k \in Selected /\ k \in DOMAIN snapshot /\ Target(k) \in Files
      /\ back \subseteq changed
      /\ content \in [Files -> Contents]
  BY SelectedType, TargetType DEF Sound, TypeOK, Places
<1>1. ASSUME NEW f \in Files, UserEdits(f) PROVE Story'
  <2>1. UNCHANGED <<plan, undo, ends, proposals>>
    BY <1>1 DEF UserEdits
  <2>2. \A k \in changed : (Bears(k) => Bears(k)') /\ (AsFound(k) => AsFound(k)')
    BY <1>1, UserDisturbs
  <2>3. pc = "writing" => at \in changed
    BY DEF Sound, Places
  <2>4. NoSilentChange'
    BY <2>1, <2>2 DEF plan, undo, ends, Story, NoSilentChange, Accounted, Stopped
  <2> QED
    BY <2>1, <2>2, <2>3, <2>4
    DEF plan, undo, ends, Story, Working, Rewriting, Restoring, Telling
<1>2. CASE UNCHANGED vars
  BY <1>2, Undisturbed
  DEF vars, plan, undo, ends, Story, Working, Rewriting, Restoring, Telling, NoSilentChange, Accounted, Stopped
<1>3. CASE Start
  BY <1>3 DEF Start, Story, Working, Rewriting, Restoring, Telling, NoSilentChange, Accounted, Stopped
<1>4. CASE Refuse
  BY <1>4 DEF Refuse, plan, Story, Working, Rewriting, Restoring, Telling, NoSilentChange, Accounted, Stopped
<1>5. CASE Validate
  <2>1. pc' = "validating" /\ post' = post
    BY <1>5 DEF Validate, ends, undo
  <2> QED
    BY <1>5, <2>1 DEF Validate, Story, Working, Rewriting, Restoring, Telling, NoSilentChange, Accounted, Stopped
<1>6. CASE Select
  <2>1. changed' = {} /\ post' = "not_run" /\ pc' \in {"applying", "reporting"}
    BY <1>6 DEF Select, undo, Sound, Places, Story, Working
  <2> QED
    BY <1>6, <2>1 DEF Select, Story, Working, Rewriting, Restoring, Telling, NoSilentChange, Accounted, Stopped
<1>7. ASSUME NEW k \in Indices, FinalCheck(k) PROVE Story'
  <2>0. \A j : (Bears(j)' <=> Bears(j)) /\ (AsFound(j)' <=> AsFound(j))
    BY <1>7, Undisturbed DEF FinalCheck
  <2>1. CASE content[Target(k)] = snapshot[k]
    <3>1. AsFound(k)'
      BY <2>0, <2>1 DEF AsFound
    <3> QED
      BY <1>7, <2>0, <2>1, <3>1
      DEF FinalCheck, Story, Working, Rewriting, Restoring, Telling, NoSilentChange, Accounted, Stopped
  <2>2. CASE content[Target(k)] # snapshot[k]
    BY <1>7, <2>0, <2>2
    DEF FinalCheck, TakeBack, Story, Working, Rewriting, Restoring, Telling, NoSilentChange, Accounted, Stopped
  <2> QED
    BY <2>1, <2>2
<1>8. CASE Rewrite
  <2>1. at \in changed /\ pc = "writing" /\ pc' = "applying"
        /\ UNCHANGED <<changed, snapshot, proposals, late, lost, post>>
    BY <1>8 DEF Rewrite, Sound, Places, plan, undo
  <2>2. content' = [content EXCEPT ![Target(at)] = [text |-> "new", edit |-> snapshot[at].edit]]
    BY <1>8 DEF Rewrite
  <2>3. Bears(at)'
    <3>1. content'[Target(at)] = [text |-> "new", edit |-> snapshot[at].edit]
      BY <1>0, <2>1, <2>2
    <3>2. at' = at
      BY <1>8 DEF Rewrite, plan
    <3> QED
      BY <2>1, <3>1, <3>2 DEF Bears, Target
  <2>4. \A j \in changed \ {at} : Bears(j) => Bears(j)'
    BY <2>1, <2>2, OthersUndisturbed
  <2>5. at' = at
    BY <1>8 DEF Rewrite, plan
  <2>6. \A j \in changed' : Bears(j)'
    BY <2>1, <2>3, <2>4, <2>5 DEF Story, Rewriting
  <2> QED
    BY <2>1, <2>6 DEF Story, Working, Rewriting, Restoring, Telling, NoSilentChange, Accounted, Stopped
<1>9. CASE RewriteRaises
  <2>1. \A k : (Bears(k)' <=> Bears(k)) /\ (AsFound(k)' <=> AsFound(k))
    BY <1>9, Undisturbed DEF RewriteRaises, plan, undo
  <2>2. at \in changed
    BY <1>9 DEF RewriteRaises, Sound, Places
  <2>3. Stopped'
    BY <1>9, <2>1, <2>2 DEF RewriteRaises, plan, undo, Stopped, Story, Rewriting
  <2> QED
    BY <1>9, <2>3 DEF RewriteRaises, plan, Story, Working, Rewriting, Restoring, Telling, NoSilentChange, Accounted, Stopped
<1>10. CASE RewriteFails
  BY <1>10 DEF RewriteFails, TakeBack, plan, Story, Working, Rewriting, Restoring, Telling, NoSilentChange, Accounted, Stopped
<1>11. CASE AllApplied
  <2>1. \A k \in changed : Bears(k)' <=> Bears(k)
    BY <1>11, Undisturbed DEF AllApplied, undo
  <2>2. \A k \in changed : status'[k] = "applied"
    BY <1>11, <1>0 DEF AllApplied, Marked
  <2> QED
    BY <1>11, <2>1, <2>2
    DEF AllApplied, undo, Story, Working, Rewriting, Restoring, Telling, NoSilentChange, Accounted, Stopped
<1>12. CASE PostCheckPasses
  <2>1. \A k \in changed : Bears(k)' <=> Bears(k)
    BY <1>12, Undisturbed DEF PostCheckPasses, plan
  <2> QED
    BY <1>12, <2>1
    DEF PostCheckPasses, plan, Story, Working, Rewriting, Restoring, Telling, NoSilentChange, Accounted, Stopped
<1>13. CASE PostCheckFails
  BY <1>13 DEF PostCheckFails, TakeBack, plan, Story, Working, Rewriting, Restoring, Telling, NoSilentChange, Accounted, Stopped
<1>14. ASSUME NEW k \in Indices, Restore(k) PROVE Story'
  <2>1. k \in changed /\ back' = back \ {k} /\ UNCHANGED <<plan, ends, changed, lost, late, post, proposals>>
        /\ pc \in {"restoring", "unreported"}
    BY <1>14, <1>0 DEF Restore
  <2>2. content' = [content EXCEPT ![Target(k)] = snapshot[k]]
    BY <1>14 DEF Restore
  <2>3. AsFound(k)'
    BY <1>0, <2>1, <2>2 DEF AsFound, Target, plan
  <2>4. \A j \in changed \ {k} : AsFound(j) => AsFound(j)'
    BY <2>1, <2>2, OthersUndisturbed DEF plan
  <2> QED
    BY <2>1, <2>3, <2>4
    DEF plan, ends, Story, Working, Rewriting, Restoring, Telling, NoSilentChange, Accounted, Stopped
<1>15. ASSUME NEW k \in Indices, RestoreFails(k) PROVE Story'
  <2>1. k \in changed /\ back' = back \ {k} /\ lost' = lost \cup {k}
        /\ UNCHANGED <<plan, ends, changed, late, post, proposals>>
        /\ pc \in {"restoring", "unreported"}
    BY <1>15, <1>0 DEF RestoreFails
  <2>2. \E c : content' = [content EXCEPT ![Target(k)] = c]
    <3>1. CASE content' = content
      <4>1. content' = [content EXCEPT ![Target(k)] = content[Target(k)]]
        BY <3>1, <1>0
      <4> QED
        BY <4>1
    <3>2. CASE content' = Cut(k)
      BY <3>2 DEF Cut
    <3> QED
      BY <1>15, <3>1, <3>2 DEF RestoreFails
  <2>3. AsFound(k)'
    BY <2>1 DEF AsFound, Excused
  <2>4. \A j \in changed \ {k} : AsFound(j) => AsFound(j)'
    BY <2>1, <2>2, OthersUndisturbed DEF plan
  <2> QED
    BY <2>1, <2>3, <2>4
    DEF plan, ends, Story, Working, Rewriting, Restoring, Telling, NoSilentChange, Accounted, Stopped
<1>16. CASE AllRestored
  <2>1. \A k \in changed : AsFound(k)' <=> AsFound(k)
    BY <1>16, Undisturbed DEF AllRestored, undo
  <2> QED
    BY <1>16, <2>1
    DEF AllRestored, undo, Story, Working, Rewriting, Restoring, Telling, NoSilentChange, Accounted, Stopped
<1>17. CASE Report
  <2>1. \A k \in changed : (AsFound(k)' <=> AsFound(k)) /\ (Bears(k)' <=> Bears(k))
    BY <1>17, Undisturbed DEF Report, plan, undo
  <2>2. post \in {"not_run", "passed", "failed"}
    BY DEF Sound, TypeOK
  <2> QED
    BY <1>17, <2>1, <2>2
    DEF Report, plan, undo, Story, Working, Rewriting, Restoring, Telling, NoSilentChange, Accounted, Stopped
<1>18. CASE ReportFails
  <2>1. \A k \in changed : AsFound(k)' <=> AsFound(k)
    BY <1>18, Undisturbed DEF ReportFails, plan
  <2>2. post \in {"not_run", "passed", "failed"}
    BY DEF Sound, TypeOK
  <2> QED
    BY <1>18, <2>1, <2>2
    DEF ReportFails, plan, Story, Working, Rewriting, Restoring, Telling, NoSilentChange, Accounted, Stopped
<1>19. CASE Unreported
  <2>1. \A k \in changed : AsFound(k)' <=> AsFound(k)
    BY <1>19, Undisturbed DEF Unreported, plan, undo
  <2> QED
    BY <1>19, <2>1
    DEF Unreported, plan, undo, Story, Working, Rewriting, Restoring, Telling, NoSilentChange, Accounted, Stopped
<1>20. CASE Kill
  BY <1>20 DEF Kill, plan, undo, Story, Working, Rewriting, Restoring, Telling, NoSilentChange, Accounted, Stopped
<1> QED
  BY <1>1, <1>2, <1>3, <1>4, <1>5, <1>6, <1>7, <1>8, <1>9, <1>10, <1>11, <1>12, <1>13, <1>14,
     <1>15, <1>16, <1>17, <1>18, <1>19, <1>20
  DEF Next, Preparing, Applying, Checking, TakingBack, Ending

\* A command that answers, with an exception too, leaves all its changes, tested and
\* told of, or none; a proposal without new_text alone stops it half-way, with the
\* targets before it rewritten in whole and its own as found.
THEOREM NothingIsSilent == Spec => []NoSilentChange
<1>1. Story => NoSilentChange
  BY DEF Story
<1>2. Spec => [](Sound /\ Story)
  BY SoundInit, SoundStep, StoryInit, StoryStep, PTL DEF Spec
<1> QED
  BY <1>1, <1>2, PTL

=============================================================================

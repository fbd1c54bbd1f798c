---------------------------- MODULE CurationProofs ----------------------------
(***************************************************************************)
(* Theorems of the two commands that the curation of the skills ends with: *)
(* SkillCuration, which archives them, for any skills, directories and     *)
(* sessions, and CommitDraft, which commits their drafts, for any contents *)
(* and bounds, under the name Git.                                         *)
(***************************************************************************)
EXTENDS SkillCuration, DraftLog, FiniteSetTheorems, TLAPS

CONSTANTS Kinds, Edits, KitTracked
VARIABLES checkout, index, attached, merging, kit, draftPc, recorded, told, raced,
          draftEdits, draftCommands

Git == INSTANCE CommitDraft WITH
         work <- checkout, pc <- draftPc, edits <- draftEdits, commands <- draftCommands

-----------------------------------------------------------------------------
(* A version of a skill is somewhere.                                      *)

\* There is a place for each skill in each directory and in its archive.
Shape ==
  /\ DOMAIN source = Roots /\ DOMAIN archive = Roots
  /\ \A r \in Roots : DOMAIN source[r] = Skills /\ DOMAIN archive[r] = Skills
  /\ edits \in Nat

LEMMA KeptAnywhere ==
  ASSUME NEW k, NEW x
  PROVE  x \in Kept(k) <=> \E r \in Roots : x \in archive[r][k] \/ (x = source[r][k] /\ x # Gone)
  BY DEF Kept

LEMMA KeptIsKept ==
  ASSUME NEW k, \A r \in Roots :
           /\ archive[r][k] \subseteq archive'[r][k]
           /\ source'[r][k] = source[r][k] \/ source[r][k] \in archive'[r][k]
  PROVE  Kept(k) \subseteq Kept(k)'
<1> SUFFICES ASSUME NEW x \in Kept(k) PROVE x \in Kept(k)'
  OBVIOUS
<1>1. PICK r \in Roots : x \in archive[r][k] \/ (x = source[r][k] /\ x # Gone)
  BY KeptAnywhere
<1>2. x \in archive'[r][k] \/ (x = source'[r][k] /\ x # Gone)
  BY <1>1
<1> DEFINE here(r1) == archive'[r1][k] \cup ({source'[r1][k]} \ {Gone})
<1>3. Kept(k)' = UNION {here(r1) : r1 \in Roots}
  BY DEF Kept
<1>4. x \in here(r)
  BY <1>2
<1> HIDE DEF here
<1> QED
  BY <1>3, <1>4

LEMMA ShapeInit == Init => Shape
<1> SUFFICES ASSUME Init PROVE Shape
  OBVIOUS
<1>1. DOMAIN source = Roots /\ \A r \in Roots : DOMAIN source[r] = Skills
  BY DisksHoldSkills DEF Init
<1>2. DOMAIN archive = Roots /\ \A r \in Roots : DOMAIN archive[r] = Skills
  BY DEF Init
<1> QED
  BY <1>1, <1>2 DEF Init, Shape

LEMMA DiskStep ==
  ASSUME Shape, [Next]_vars, edits' = edits
  PROVE  Shape' /\ \A k \in Skills : Kept(k) \subseteq Kept(k)'
<1>1. ASSUME UNCHANGED disk PROVE Shape' /\ \A k \in Skills : Kept(k) \subseteq Kept(k)'
  BY <1>1 DEF Shape, disk, Kept
<1>2. CASE Review \/ UNCHANGED vars
  BY <1>1, <1>2 DEF Review, vars
<1>3. ASSUME NEW r \in Roots, NEW k \in Skills, UserEdits(r, k)
      PROVE  FALSE
  BY <1>3 DEF UserEdits, Shape
<1>4. ASSUME NEW s \in Sessions, Step(s) PROVE Shape' /\ \A k \in Skills : Kept(k) \subseteq Kept(k)'
  <2>1. CASE Move(s)
    <3> DEFINE r == at[s].root
               k == at[s].skill
    <3>1. archive' = [archive EXCEPT ![r][k] = archive[r][k] \cup {source[r][k]}]
      BY <2>1 DEF Move, Archived
    <3>2. source' = [source EXCEPT ![r][k] = Gone]
      BY <2>1 DEF Move
    <3> HIDE DEF r, k
    <3>3. Shape'
      BY <3>1, <3>2 DEF Shape
    <3>4. ASSUME NEW r1 \in Roots, NEW k1 \in Skills
          PROVE  /\ archive[r1][k1] \subseteq archive'[r1][k1]
                 /\ source'[r1][k1] = source[r1][k1] \/ source[r1][k1] \in archive'[r1][k1]
      BY <3>1, <3>2 DEF Shape
    <3> QED
      BY <3>3, <3>4, KeptIsKept
  <2>2. CASE \/ (\E mode \in BOOLEAN : Start(s, mode))
             \/ (\E k \in Skills : Propose(s, k) \/ Refuse(s, k) \/ Open(s, k))
             \/ Recheck(s) \/ MoveFails(s) \/ Report(s) \/ ReportFails(s) \/ Kill(s)
    BY <1>1, <2>2 DEF Start, Propose, Refuse, Open, Recheck, MoveFails, Report, ReportFails, Kill, End
  <2> QED
    BY <1>4, <2>1, <2>2 DEF Step
<1> QED
  BY <1>2, <1>3, <1>4 DEF Next

LEMMA ShapeStep == Shape /\ [Next]_vars => Shape'
<1> SUFFICES ASSUME Shape, [Next]_vars PROVE Shape'
  OBVIOUS
<1>1. CASE edits' = edits
  BY <1>1, DiskStep
<1>2. ASSUME NEW r \in Roots, NEW k \in Skills, UserEdits(r, k) PROVE Shape'
  <2>1. edits' \in Nat
    BY <1>2 DEF UserEdits, Shape
  <2>2. ASSUME NEW c, source' = [source EXCEPT ![r][k] = c], UNCHANGED archive PROVE Shape'
    BY <2>1, <2>2 DEF Shape
  <2>3. ASSUME NEW c, source' = [source EXCEPT ![r][k] = c],
               archive' = [archive EXCEPT ![r][k] = archive[r][k] \ {c}]
        PROVE  Shape'
    BY <2>1, <2>3 DEF Shape
  <2> QED
    BY <1>2, <2>2, <2>3 DEF UserEdits
<1>3. ASSUME NEW s \in Sessions, Step(s) PROVE edits' = edits
  BY <1>3 DEF Step, Start, Propose, Refuse, Open, Recheck, Move, MoveFails, Report, ReportFails,
              Kill, End, Rest, bounds
<1>4. CASE Review \/ UNCHANGED vars
  BY <1>1, <1>4 DEF Review, vars, bounds
<1> QED
  BY <1>1, <1>2, <1>3, <1>4 DEF Next

\* No step of the engine destroys a version of a skill, however many sessions
\* archive at once and whatever the user rewrites meanwhile.
THEOREM NoVersionIsLost == Spec => NothingIsLost
<1>1. Shape /\ [Next]_vars => [edits' = edits => \A k \in Skills : Kept(k) \subseteq Kept(k)']_vars
  BY DiskStep
<1> QED
  BY ShapeInit, ShapeStep, <1>1, PTL DEF Spec, NothingIsLost

-----------------------------------------------------------------------------
(* What is moved was allowed to move.                                      *)

MayMove(c) == c.verified /\ ~Protected(c)
Sessioned == DOMAIN pc = Sessions /\ DOMAIN at = Sessions
Opened == \A s \in Sessions : pc[s] \in {"open", "moving"} => MayMove(at[s].seen)
GateInv == Sessioned /\ Opened

LEMMA GateOpens ==
  ASSUME NEW k, NEW r, NEW cat, Gate(k, r, cat) = "open"
  PROVE  MayMove(source[r][k])
  BY DEF Gate, MayMove

LEMMA VerdictOpens ==
  ASSUME NEW k, NEW cat, Verdict(k, cat) = "open"
  PROVE  MayMove(source[Place(k)][k])
<1>1. Gate(k, Place(k), cat) = "open"
  BY DEF Verdict
<1> QED
  BY <1>1, GateOpens

LEMMA GateInit == Init => GateInv
  BY DEF Init, GateInv, Sessioned, Opened

\* A session that is elsewhere after its step has nothing to move.
LEMMA ElsewhereKeeps ==
  ASSUME GateInv, NEW s \in Sessions, NEW place \in {"idle", "deciding"}, NEW move,
         pc' = [pc EXCEPT ![s] = place], at' = [at EXCEPT ![s] = move]
  PROVE  GateInv'
  BY DEF GateInv, Sessioned, Opened

LEMMA SettleKeeps ==
  ASSUME GateInv, NEW s \in Sessions, NEW k, NEW m, Settle(s, k, m)
  PROVE  GateInv'
  BY ElsewhereKeeps DEF Settle

LEMMA GateStep == GateInv /\ [Next]_vars => GateInv'
<1> SUFFICES ASSUME GateInv, [Next]_vars PROVE GateInv'
  OBVIOUS
<1>1. ASSUME UNCHANGED <<pc, at>> PROVE GateInv'
  BY <1>1 DEF GateInv, Sessioned, Opened
<1>2. CASE Review \/ (\E r \in Roots, k \in Skills : UserEdits(r, k)) \/ UNCHANGED vars
  BY <1>1, <1>2 DEF Review, UserEdits, vars, work
<1>3. ASSUME NEW s \in Sessions, Step(s) PROVE GateInv'
  <2>1. ASSUME NEW mode \in BOOLEAN, Start(s, mode) PROVE GateInv'
    BY <2>1, ElsewhereKeeps DEF Start
  <2>2. ASSUME NEW k \in Skills, Propose(s, k) \/ Refuse(s, k) PROVE GateInv'
    BY <2>2, SettleKeeps DEF Propose, Refuse
  <2>3. ASSUME NEW k \in Skills, Open(s, k) PROVE GateInv'
    <3> DEFINE move == [skill |-> k, root |-> Place(k), seen |-> source[Place(k)][k]]
    <3>1. MayMove(move.seen)
      BY <2>3, VerdictOpens DEF Open
    <3>2. pc' = [pc EXCEPT ![s] = "open"] /\ at' = [at EXCEPT ![s] = move]
      BY <2>3 DEF Open
    <3> HIDE DEF move
    <3> QED
      BY <3>1, <3>2 DEF GateInv, Sessioned, Opened
  <2>4. CASE Recheck(s)
    <3>1. CASE pc' = [pc EXCEPT ![s] = "moving"] /\ UNCHANGED at
      BY <2>4, <3>1 DEF Recheck, GateInv, Sessioned, Opened
    <3>2. CASE \E k, m : Settle(s, k, m)
      BY <3>2, SettleKeeps
    <3> QED
      BY <2>4, <3>1, <3>2 DEF Recheck
  <2>5. CASE Move(s) \/ MoveFails(s)
    BY <2>5, SettleKeeps DEF Move, MoveFails
  <2>6. CASE Report(s) \/ ReportFails(s) \/ Kill(s)
    BY <2>6, ElsewhereKeeps DEF Report, ReportFails, Kill, End
  <2> QED
    BY <1>3, <2>1, <2>2, <2>3, <2>4, <2>5, <2>6 DEF Step
<1> QED
  BY <1>2, <1>3 DEF Next

\* What a command moves, unless it was rewritten after the gate, says itself that
\* it is verified and unprotected: the catalogue alone never decides.
THEOREM ProtectedSkillsStay == Spec => ProtectedStays
<1>1. GateInv =>
        [\A s \in Sessions :
           /\ pc[s] = "moving" /\ at[s].skill \in DOMAIN status'[s] \ DOMAIN status[s]
           /\ status'[s][at[s].skill] = "moved"
           /\ source[at[s].root][at[s].skill] = at[s].seen
           => at[s].seen.verified /\ ~Protected(at[s].seen)]_vars
  BY DEF GateInv, Opened, MayMove
<1> QED
  BY GateInit, GateStep, <1>1, PTL DEF Spec, ProtectedStays
-----------------------------------------------------------------------------
(* What a manifest counts.                                                 *)

Noted(st, k, m) == [j \in DOMAIN st \cup {k} |-> IF j = k THEN m ELSE st[j]]
Having(st, m) == {k \in DOMAIN st : st[k] = m}
\* The counters of a command that has executed some of its decisions.
Tally(dec, td, st, c) ==
  /\ IsFiniteSet(DOMAIN dec) /\ td \subseteq DOMAIN dec
  /\ DOMAIN st = DOMAIN dec \ td
  /\ c \in [MoveStatuses \cup Fates -> Nat]
  /\ \A m \in MoveStatuses : c[m] = Cardinality(Having(st, m))
  /\ c["applied"] = c["moved"] + c["exists"]
  /\ Cardinality(DOMAIN st) = c["applied"] + c["proposed"] + c["skipped"] + c["archive_pending"]
Tallied ==
  /\ \A f \in {pc, apply, decision, todo, at, status, counts, manifest} : DOMAIN f = Sessions
  /\ IsFiniteSet(findings)
  /\ \A s \in Sessions :
       /\ Tally(decision[s], todo[s], status[s], counts[s])
       /\ pc[s] \in {"open", "moving"} =>
            at[s].skill \in todo[s] /\ apply[s] /\ decision[s][at[s].skill] = "archive"
CountInv == Tallied /\ CountersMatchDecisions

LEMMA NothingTallied == Tally(<< >>, {}, << >>, NoCounts)
<1>1. DOMAIN << >> = {} /\ \A m : Having(<< >>, m) = {}
  BY DEF Having
<1>2. NoCounts \in [MoveStatuses \cup Fates -> Nat] /\ \A x \in MoveStatuses \cup Fates : NoCounts[x] = 0
  BY DEF NoCounts
<1>3. \A x \in {"moved", "exists", "applied", "proposed", "skipped", "archive_pending"} : NoCounts[x] = 0
  BY <1>2 DEF MoveStatuses, Fates
<1>4. \A m \in MoveStatuses : NoCounts[m] = Cardinality(Having(<< >>, m))
  BY <1>1, <1>2, FS_EmptySet
<1>5. IsFiniteSet(DOMAIN << >>) /\ Cardinality(DOMAIN << >>) = 0
  BY <1>1, FS_EmptySet
<1>6. /\ NoCounts["applied"] = NoCounts["moved"] + NoCounts["exists"]
      /\ 0 = NoCounts["applied"] + NoCounts["proposed"] + NoCounts["skipped"] + NoCounts["archive_pending"]
  BY <1>3
<1>7. {} \subseteq DOMAIN << >> /\ DOMAIN << >> = DOMAIN << >> \ {}
  OBVIOUS
<1> QED
  BY <1>2, <1>4, <1>5, <1>6, <1>7, Zenon DEF Tally

LEMMA DecisionsAreFinite ==
  ASSUME IsFiniteSet(findings), NEW cat PROVE IsFiniteSet(DOMAIN Decisions(cat))
<1> DEFINE lapsed == [k \in TtlArchive |-> [skill |-> k, action |-> "archive", source |-> "ttl"]]
           skill == [f \in AllFindings |-> f.skill]
           lapses == {lapsed[k] : k \in TtlArchive}
           skills == {skill[f] : f \in AllFindings}
<1>1. IsFiniteSet(TtlArchive)
  BY FinitelyMany, FS_Subset DEF TtlArchive
<1>2. lapsed \in Surjection(TtlArchive, lapses)
  BY DEF Surjection
<1>3. IsFiniteSet(lapses)
  <2> HIDE DEF lapsed, lapses
  <2> QED
    BY <1>1, <1>2, FS_Surjection
<1>4. AllFindings = findings \cup lapses
  BY DEF AllFindings
<1>5. IsFiniteSet(AllFindings)
  <2> HIDE DEF lapses
  <2> QED
    BY <1>3, <1>4, FS_Union
<1>6. skill \in Surjection(AllFindings, skills)
  BY DEF Surjection
<1>7. IsFiniteSet(skills)
  <2> HIDE DEF skill, skills
  <2> QED
    BY <1>5, <1>6, FS_Surjection
<1>8. skills = {f.skill : f \in AllFindings}
  OBVIOUS
<1> QED
  BY <1>7, <1>8 DEF Decisions

LEMMA StartTallied ==
  ASSUME IsFiniteSet(findings), NEW cat
  PROVE  Tally(Decisions(cat), DOMAIN Decisions(cat), << >>, NoCounts)
<1>1. IsFiniteSet(DOMAIN Decisions(cat))
  BY DecisionsAreFinite
<1>2. DOMAIN << >> = DOMAIN Decisions(cat) \ DOMAIN Decisions(cat)
  OBVIOUS
<1> QED
  BY <1>1, <1>2, NothingTallied DEF Tally

LEMMA CountedValues ==
  ASSUME NEW c \in [MoveStatuses \cup Fates -> Nat], NEW m \in MoveStatuses, NEW fate \in Fates
  PROVE  /\ Counted(c, m, fate) \in [MoveStatuses \cup Fates -> Nat]
         /\ \A x \in MoveStatuses : Counted(c, m, fate)[x] = IF x = m THEN c[x] + 1 ELSE c[x]
         /\ \A x \in Fates : Counted(c, m, fate)[x] = IF x = fate THEN c[x] + 1 ELSE c[x]
<1>1. MoveStatuses \cap Fates = {}
  BY DEF MoveStatuses, Fates
<1> QED
  BY <1>1 DEF Counted

\* One more decision has its outcome, counted once as a move and once as a fate.
LEMMA SettleTallies ==
  ASSUME NEW dec, NEW td, NEW st, NEW c, Tally(dec, td, st, c),
         NEW k \in td, NEW m \in MoveStatuses, NEW fate \in Fates,
         fate = "applied" <=> m \in {"moved", "exists"}
  PROVE  Tally(dec, td \ {k}, Noted(st, k, m), Counted(c, m, fate))
<1> DEFINE st1 == Noted(st, k, m)
           c1 == Counted(c, m, fate)
<1>1. DOMAIN st1 = DOMAIN st \cup {k} /\ k \notin DOMAIN st
  BY DEF Tally, Noted
<1>2. st1[k] = m /\ \A j \in DOMAIN st : st1[j] = st[j]
  BY <1>1 DEF Noted
<1> HIDE DEF st1
<1>3. DOMAIN st1 = DOMAIN dec \ (td \ {k})
  BY <1>1 DEF Tally
<1>4. IsFiniteSet(DOMAIN st) /\ Cardinality(DOMAIN st) \in Nat
  BY FS_Subset, FS_CardinalityType DEF Tally
<1>5. Cardinality(DOMAIN st1) = Cardinality(DOMAIN st) + 1
  BY <1>1, <1>4, FS_AddElement
<1>6. /\ c1 \in [MoveStatuses \cup Fates -> Nat]
      /\ \A x \in MoveStatuses : c1[x] = IF x = m THEN c[x] + 1 ELSE c[x]
      /\ \A x \in Fates : c1[x] = IF x = fate THEN c[x] + 1 ELSE c[x]
  <2>1. c \in [MoveStatuses \cup Fates -> Nat]
    BY DEF Tally
  <2> QED
    BY <2>1, CountedValues
<1> HIDE DEF c1
<1>7. ASSUME NEW x \in MoveStatuses PROVE c1[x] = Cardinality(Having(st1, x))
  <2>1. IsFiniteSet(Having(st, x)) /\ k \notin Having(st, x)
    BY <1>1, <1>4, FS_Subset DEF Having
  <2>2. Having(st1, x) = IF x = m THEN Having(st, x) \cup {k} ELSE Having(st, x)
    BY <1>1, <1>2 DEF Having
  <2>3. Cardinality(Having(st1, x)) =
          IF x = m THEN Cardinality(Having(st, x)) + 1 ELSE Cardinality(Having(st, x))
    BY <2>1, <2>2, FS_AddElement
  <2> QED
    BY <1>6, <2>3 DEF Tally
<1>8. \A x \in {"moved", "exists"} \cup Fates : c[x] \in Nat
  BY DEF Tally, MoveStatuses
<1>9. c1["applied"] = c1["moved"] + c1["exists"]
  BY <1>6, <1>8 DEF Tally, Fates, MoveStatuses
<1>10. Cardinality(DOMAIN st1) = c1["applied"] + c1["proposed"] + c1["skipped"] + c1["archive_pending"]
  BY <1>4, <1>5, <1>6, <1>8 DEF Tally, Fates
<1> QED
  BY <1>3, <1>6, <1>7, <1>9, <1>10 DEF Tally, st1, c1

\* The outcomes of an archive that is applied, and those of the others.
LEMMA FateOf ==
  ASSUME NEW s \in Sessions, NEW k, NEW m \in MoveStatuses,
         \/ apply[s] /\ decision[s][k] = "archive"
         \/ ~(apply[s] /\ decision[s][k] = "archive") /\ m = "not_attempted"
  PROVE  Fate(s, k, m) \in Fates /\ (Fate(s, k, m) = "applied" <=> m \in {"moved", "exists"})
<1>1. CASE decision[s][k] = "archive"
  BY <1>1 DEF Fate, Fates
<1>2. CASE decision[s][k] = "skip"
  BY <1>2 DEF Fate, Fates
<1>3. CASE decision[s][k] \notin {"skip", "archive"}
  BY <1>3 DEF Fate, Fates
<1> QED
  BY <1>1, <1>2, <1>3

LEMMA CountInit == Init => CountInv
<1> SUFFICES ASSUME Init PROVE CountInv
  OBVIOUS
<1>1. \A s \in Sessions : Tally(decision[s], todo[s], status[s], counts[s])
  BY NothingTallied DEF Init
<1> QED
  BY <1>1, FS_EmptySet DEF Init, CountInv, Tallied, CountersMatchDecisions

LEMMA SettleCounts ==
  ASSUME CountInv, NEW s \in Sessions, NEW k \in todo[s], NEW m \in MoveStatuses, Settle(s, k, m),
         Rest(s),
         \/ apply[s] /\ decision[s][k] = "archive"
         \/ ~(apply[s] /\ decision[s][k] = "archive") /\ m = "not_attempted"
  PROVE  CountInv'
<1>1. Tally(decision[s], todo[s] \ {k}, Noted(status[s], k, m), Counted(counts[s], m, Fate(s, k, m)))
  BY FateOf, SettleTallies DEF CountInv, Tallied
<1> DEFINE st == Noted(status[s], k, m)
           c == Counted(counts[s], m, Fate(s, k, m))
<1>2. /\ status' = [status EXCEPT ![s] = st] /\ counts' = [counts EXCEPT ![s] = c]
      /\ todo' = [todo EXCEPT ![s] = todo[s] \ {k}]
      /\ at' = [at EXCEPT ![s] = NoMove] /\ pc' = [pc EXCEPT ![s] = "deciding"]
      /\ UNCHANGED <<findings, apply, decision, manifest>>
  BY DEF Settle, Rest, review, Noted
<1>3. Tally(decision[s], todo[s] \ {k}, st, c)
  BY <1>1
<1> HIDE DEF st, c
<1>4. CountersMatchDecisions'
  BY <1>2 DEF CountInv, CountersMatchDecisions
<1>5. ASSUME NEW t \in Sessions
      PROVE  /\ Tally(decision'[t], todo'[t], status'[t], counts'[t])
             /\ pc'[t] \in {"open", "moving"} =>
                  at'[t].skill \in todo'[t] /\ apply'[t] /\ decision'[t][at'[t].skill] = "archive"
  BY <1>2, <1>3 DEF CountInv, Tallied
<1> QED
  BY <1>2, <1>4, <1>5 DEF CountInv, Tallied

LEMMA EndCounts ==
  ASSUME CountInv, NEW s \in Sessions, End(s), CountersMatchDecisions', DOMAIN manifest' = Sessions
  PROVE  CountInv'
<1>1. ASSUME NEW t \in Sessions
      PROVE  /\ Tally(decision'[t], todo'[t], status'[t], counts'[t])
             /\ pc'[t] \in {"open", "moving"} =>
                  at'[t].skill \in todo'[t] /\ apply'[t] /\ decision'[t][at'[t].skill] = "archive"
  BY NothingTallied DEF End, CountInv, Tallied
<1> QED
  BY <1>1 DEF End, CountInv, Tallied, review

LEMMA CountStep == CountInv /\ [Next]_vars => CountInv'
<1> SUFFICES ASSUME CountInv, [Next]_vars PROVE CountInv'
  OBVIOUS
<1>1. ASSUME UNCHANGED <<pc, work, manifest>>, IsFiniteSet(findings') PROVE CountInv'
  BY <1>1 DEF work, CountInv, Tallied, CountersMatchDecisions
<1>2. CASE Review
  <2>1. findings' \in FindingSets
    BY <1>2 DEF Review
  <2> QED
    BY <1>1, <1>2, <2>1, FinitelyMany DEF Review
<1>3. CASE (\E r \in Roots, k \in Skills : UserEdits(r, k)) \/ UNCHANGED vars
  BY <1>1, <1>3 DEF UserEdits, vars, review, CountInv, Tallied
<1>4. ASSUME NEW s \in Sessions, Step(s) PROVE CountInv'
  <2>1. ASSUME NEW mode \in BOOLEAN, Start(s, mode) PROVE CountInv'
    <3>1. Tally(decision'[s], todo'[s], status'[s], counts'[s])
      BY <2>1, StartTallied DEF Start, CountInv, Tallied
    <3>2. ASSUME NEW t \in Sessions
          PROVE  /\ Tally(decision'[t], todo'[t], status'[t], counts'[t])
                 /\ pc'[t] \in {"open", "moving"} =>
                      at'[t].skill \in todo'[t] /\ apply'[t] /\ decision'[t][at'[t].skill] = "archive"
      BY <2>1, <3>1 DEF Start, CountInv, Tallied
    <3>3. UNCHANGED <<findings, manifest>>
      BY <2>1 DEF Start, review
    <3> QED
      BY <2>1, <3>2, <3>3 DEF Start, CountInv, Tallied, CountersMatchDecisions
  <2>2. ASSUME NEW k \in Skills, Propose(s, k) PROVE CountInv'
    BY <2>2, SettleCounts DEF Propose, MoveStatuses
  <2>3. ASSUME NEW k \in Skills, Refuse(s, k) PROVE CountInv'
    <3>1. Verdict(k, rows[s]) \in MoveStatuses
      BY <2>3 DEF Refuse, Verdict, Gate, MoveStatuses
    <3> QED
      BY <2>3, <3>1, SettleCounts DEF Refuse
  <2>4. ASSUME NEW k \in Skills, Open(s, k) PROVE CountInv'
    <3> DEFINE move == [skill |-> k, root |-> Place(k), seen |-> source[Place(k)][k]]
    <3>1. /\ pc' = [pc EXCEPT ![s] = "open"] /\ at' = [at EXCEPT ![s] = move]
          /\ k \in todo[s] /\ apply[s] /\ decision[s][k] = "archive" /\ move.skill = k
          /\ UNCHANGED <<findings, apply, decision, todo, status, counts, manifest>>
      BY <2>4 DEF Open, review
    <3> HIDE DEF move
    <3> QED
      BY <3>1 DEF CountInv, Tallied, CountersMatchDecisions
  <2>5. CASE Recheck(s)
    <3> DEFINE k == at[s].skill
    <3>1. k \in todo[s] /\ apply[s] /\ decision[s][k] = "archive"
      BY <2>5 DEF Recheck, CountInv, Tallied
    <3>2. CASE pc' = [pc EXCEPT ![s] = "moving"] /\ UNCHANGED <<at, todo, status, counts>>
      BY <2>5, <3>1, <3>2 DEF Recheck, Rest, review, CountInv, Tallied, CountersMatchDecisions
    <3>3. CASE \E m \in {"rejected", "missing", "exists"} : Settle(s, k, m)
      BY <2>5, <3>1, <3>3, SettleCounts DEF Recheck, MoveStatuses
    <3> QED
      BY <2>5, <3>2, <3>3 DEF Recheck
  <2>6. CASE Move(s) \/ MoveFails(s)
    <3> DEFINE k == at[s].skill
    <3>1. k \in todo[s] /\ apply[s] /\ decision[s][k] = "archive"
      BY <2>6 DEF Move, MoveFails, CountInv, Tallied
    <3>2. \E m \in {"moved", "error"} : Settle(s, k, m) /\ Rest(s)
      BY <2>6 DEF Move, MoveFails
    <3> QED
      BY <3>1, <3>2, SettleCounts DEF MoveStatuses
  <2>7. CASE Report(s)
    <3>1. Tally(decision[s], {}, status[s], counts[s])
      BY <2>7 DEF Report, CountInv, Tallied
    <3>2. DOMAIN status[s] = DOMAIN decision[s]
      BY <3>1 DEF Tally
    <3> DEFINE all == [rc |-> Rc(s), apply |-> apply[s], decisions |-> decision[s],
                       status |-> status[s], counts |-> counts[s]]
    <3>3. /\ DOMAIN all.status = DOMAIN all.decisions
          /\ \A m \in MoveStatuses :
               all.counts[m] = Cardinality({k \in DOMAIN all.status : all.status[k] = m})
          /\ all.counts["applied"] = all.counts["moved"] + all.counts["exists"]
          /\ Cardinality(DOMAIN all.decisions) =
               all.counts["applied"] + all.counts["proposed"] + all.counts["skipped"]
                 + all.counts["archive_pending"]
      BY <3>1, <3>2 DEF Tally, Having
    <3>4. manifest' = [manifest EXCEPT ![s] = all]
      BY <2>7 DEF Report
    <3> HIDE DEF all
    <3>5. CountersMatchDecisions' /\ DOMAIN manifest' = Sessions
      BY <3>3, <3>4 DEF CountInv, Tallied, CountersMatchDecisions
    <3> QED
      BY <2>7, <3>5, EndCounts DEF Report
  <2>8. CASE ReportFails(s) \/ Kill(s)
    <3>1. CountersMatchDecisions' /\ DOMAIN manifest' = Sessions
      BY <2>8 DEF ReportFails, Kill, CountInv, Tallied, CountersMatchDecisions
    <3> QED
      BY <2>8, <3>1, EndCounts DEF ReportFails, Kill
  <2> QED
    BY <1>4, <2>1, <2>2, <2>3, <2>4, <2>5, <2>6, <2>7, <2>8 DEF Step
<1> QED
  BY <1>2, <1>3, <1>4 DEF Next

\* Whatever interleaves with a command, the counters of the manifest it leaves
\* are those of its decisions: an outcome each, and a fate each.
THEOREM ManifestAddsUp == Spec => []CountersMatchDecisions
<1>1. CountInv => CountersMatchDecisions
  BY DEF CountInv
<1> QED
  BY CountInit, CountStep, <1>1, PTL DEF Spec

-----------------------------------------------------------------------------
(* The log of the drafts.                                                  *)

Trees == [Git!Files -> Git!Contents]
USE DEF Trees
\* The log is never empty, and the user made its first commit.
Rows == [by : {"user", "draft"}, marked : BOOLEAN, tree : Trees]
Typed ==
  /\ checkout \in Trees /\ index \in Trees
  /\ commits \in Seq(Rows)
Rooted == Len(commits) > 0 /\ commits[1].by = "user"

\* Between its commit and its answer, and only then, a command has a commit of its own.
Places == own # 0 => draftPc \in {"committed", "written", "staged", "mirrored"}

LogInv == Typed /\ Rooted /\ Git!OnlyTheDraft

LEMMA TreeType == ASSUME Typed, Rooted PROVE Git!Tree \in Trees
<1>1. Git!HEAD \in DOMAIN commits
  BY DEF Typed, Rooted, Git!HEAD
<1>2. commits[Git!HEAD] \in Rows
  BY <1>1 DEF Typed
<1> QED
  BY <1>2 DEF Rows, Git!Tree

LEMMA RowType ==
  ASSUME NEW by \in {"user", "draft"}, NEW marked \in BOOLEAN, NEW tree \in Trees
  PROVE  [by |-> by, marked |-> marked, tree |-> tree] \in Rows
  BY Zenon DEF Rows

\* What a new row may be for the log to stay as it should.
LEMMA AppendKeeps ==
  ASSUME LogInv, NEW row \in Rows, commits' = Append(commits, row),
         checkout' \in Trees, index' \in Trees,
         row.by = "draft" =>
           /\ row.tree[Git!Draft] # Git!Tree[Git!Draft]
           /\ \A f \in Git!Files \ {Git!Draft} : row.tree[f] = Git!Tree[f]
  PROVE  LogInv'
<1>1. commits \in Seq(Rows) /\ Len(commits) \in Nat
  BY DEF LogInv, Typed
<1>2. /\ commits' \in Seq(Rows)
      /\ DOMAIN commits' = 1 .. Len(commits) + 1
      /\ Len(commits') = Len(commits) + 1
      /\ commits'[Len(commits) + 1] = row
      /\ \A i \in 1 .. Len(commits) : commits'[i] = commits[i]
  BY <1>1
<1>3. Typed'
  BY <1>2 DEF Typed
<1>4. Rooted'
  BY <1>1, <1>2 DEF LogInv, Rooted
<1>5. ASSUME NEW i \in DOMAIN commits', commits'[i].by = "draft"
      PROVE  /\ commits'[i].tree[Git!Draft] # commits'[i - 1].tree[Git!Draft]
             /\ \A f \in Git!Files \ {Git!Draft} : commits'[i].tree[f] = commits'[i - 1].tree[f]
  <2>1. CASE i = Len(commits) + 1
    <3>1. commits'[i] = row /\ commits'[i - 1] = commits[Git!HEAD]
      BY <1>1, <1>2, <2>1 DEF LogInv, Rooted, Git!HEAD
    <3> QED
      BY <1>5, <3>1 DEF Git!Tree
  <2>2. CASE i \in 1 .. Len(commits)
    <3>1. i # 1
      BY <1>2, <1>5, <2>2 DEF LogInv, Rooted
    <3>2. commits'[i] = commits[i] /\ commits'[i - 1] = commits[i - 1]
      BY <1>1, <1>2, <2>2, <3>1
    <3>3. i \in DOMAIN commits
      BY <1>1, <2>2
    <3> QED
      BY <1>5, <3>2, <3>3 DEF LogInv, Git!OnlyTheDraft
  <2> QED
    <3>1. i = Len(commits) + 1 \/ i \in 1 .. Len(commits)
      BY <1>1, <1>2, <1>5
    <3> QED
      BY <2>1, <2>2, <3>1
<1>6. Git!OnlyTheDraft'
  BY <1>5 DEF Git!OnlyTheDraft
<1> QED
  BY <1>3, <1>4, <1>6 DEF LogInv

LEMMA LogKept ==
  ASSUME LogInv, UNCHANGED commits, checkout' \in Trees, index' \in Trees
  PROVE  LogInv'
  BY DEF LogInv, Typed, Rooted, Git!OnlyTheDraft

LEMMA LogInit == Git!Init => LogInv
<1> SUFFICES ASSUME Git!Init PROVE LogInv
  OBVIOUS
<1> DEFINE old == [f \in Git!Files |-> "old"]
<1>1. old \in Trees
  BY DEF Git!Contents
<1>2. [by |-> "user", marked |-> FALSE, tree |-> old] \in Rows
  BY <1>1, RowType
<1>3. commits = << [by |-> "user", marked |-> FALSE, tree |-> old] >> /\ checkout = old /\ index = old
  BY DEF Git!Init
<1> HIDE DEF old
<1>4. commits \in Seq(Rows) /\ Len(commits) = 1 /\ DOMAIN commits = {1} /\ commits[1].by = "user"
  BY <1>2, <1>3
<1> QED
  BY <1>1, <1>3, <1>4 DEF LogInv, Typed, Rooted, Git!OnlyTheDraft

LEMMA LogStep == LogInv /\ [Git!Next]_(Git!vars) => LogInv'
<1> SUFFICES ASSUME LogInv, [Git!Next]_(Git!vars) PROVE LogInv'
  OBVIOUS
<1>0. /\ Git!Draft \in Git!Files /\ Git!Tree \in Trees
      /\ checkout \in Trees /\ index \in Trees
  BY TreeType DEF LogInv, Typed, Git!Files
<1>1. ASSUME UNCHANGED <<commits, checkout, index>> PROVE LogInv'
  BY <1>0, <1>1, LogKept
<1>2. CASE Git!UserWorks
  <2>1. ASSUME NEW f \in Git!Files, NEW v \in Edits, checkout' = [checkout EXCEPT ![f] = v],
               UNCHANGED <<index, commits>>
        PROVE LogInv'
    <3>1. checkout' \in Trees
      BY <1>0, <2>1 DEF Git!Contents
    <3> QED
      BY <1>0, <2>1, <3>1, LogKept
  <2>2. ASSUME NEW f \in Git!Files, index' = [index EXCEPT ![f] = checkout[f]],
               UNCHANGED <<checkout, commits>>
        PROVE LogInv'
    <3>1. index' \in Trees
      BY <1>0, <2>2
    <3> QED
      BY <1>0, <2>2, <3>1, LogKept
  <2>3. ASSUME commits' = Append(commits, [by |-> "user", marked |-> FALSE, tree |-> index]),
               UNCHANGED <<checkout, index>>
        PROVE LogInv'
    <3> DEFINE row == [by |-> "user", marked |-> FALSE, tree |-> index]
    <3>1. row \in Rows
      BY <1>0, RowType
    <3>2. row.by # "draft" /\ commits' = Append(commits, row)
      BY <2>3
    <3> HIDE DEF row
    <3> QED
      BY <1>0, <2>3, <3>1, <3>2, AppendKeeps
  <2> QED
    BY <1>1, <1>2, <2>1, <2>2, <2>3 DEF Git!UserWorks, Git!repo
<1>3. CASE Git!Add
  <2>1. index' \in Trees
    BY <1>0, <1>3 DEF Git!Add
  <2> QED
    BY <1>0, <1>3, <2>1, LogKept DEF Git!Add
<1>4. CASE Git!Commit
  <2> DEFINE row == [by |-> "draft", marked |-> TRUE, tree |-> Git!Committed]
  <2>1. Git!Committed \in Trees
    BY <1>0 DEF Git!Committed
  <2>2. row \in Rows
    BY <2>1, RowType
  <2>3. Git!Committed[Git!Draft] # Git!Tree[Git!Draft]
       /\ \A f \in Git!Files \ {Git!Draft} : Git!Committed[f] = Git!Tree[f]
    BY <1>0, <1>4 DEF Git!Commit, Git!Committed
  <2>4. row.tree = Git!Committed /\ commits' = Append(commits, row)
    BY <1>4 DEF Git!Commit
  <2>5. index' \in Trees /\ checkout' \in Trees
    BY <1>0, <1>4 DEF Git!Commit
  <2> HIDE DEF row
  <2> QED
    BY <2>2, <2>3, <2>4, <2>5, AppendKeeps
<1>5. CASE \/ \E kind \in Kinds, verdict \in {"pass", "ignored", "blocked", "unusable"} :
                Git!Gate(kind, verdict)
           \/ Git!Check \/ Git!Refuse \/ Git!AddFails \/ Git!CommitFails
           \/ Git!MirrorWrites \/ Git!MirrorAdds \/ Git!MirrorCommits \/ Git!MirrorSkips
           \/ Git!Facts \/ Git!Dies \/ Git!Records \/ \E git \in BOOLEAN : Git!Report(git)
  <2>1. UNCHANGED Git!repo
    BY <1>5 DEF Git!Gate, Git!Check, Git!Refuse, Git!AddFails, Git!CommitFails,
                Git!MirrorWrites, Git!MirrorAdds, Git!MirrorCommits, Git!MirrorSkips,
                Git!Facts, Git!Dies, Git!Records, Git!Report
  <2> QED
    BY <1>1, <2>1 DEF Git!repo
<1>6. CASE UNCHANGED Git!vars
  BY <1>1, <1>6 DEF Git!vars, Git!repo
<1> QED
  BY <1>2, <1>3, <1>4, <1>5, <1>6 DEF Git!Next

\* Every commit of the engine holds a change of its draft and nothing else,
\* whatever the user stages, commits or rewrites between its git commands.
THEOREM CommitsHoldOnlyTheDraft == Git!Spec => []OnlyTheDraft
<1>1. LogInv => OnlyTheDraft
  BY DEF LogInv, Git!OnlyTheDraft, Git!Draft, Git!Files, OnlyTheDraft, Draft, Files
<1> QED
  BY LogInit, LogStep, <1>1, PTL DEF Git!Spec

-----------------------------------------------------------------------------
LEMMA PlacesInit == Git!Init => Places
  BY DEF Git!Init, Places

LEMMA PlacesStep == Places /\ [Git!Next]_(Git!vars) => Places'
<1> SUFFICES ASSUME Places, [Git!Next]_(Git!vars) PROVE Places'
  OBVIOUS
<1>1. CASE UNCHANGED Git!command
  BY <1>1 DEF Places, Git!command
<1>2. ASSUME draftPc' = "idle", own' = 0 PROVE Places'
  BY <1>2 DEF Places
<1>3. CASE Git!UserWorks \/ Git!Records \/ (\E git \in BOOLEAN : Git!Report(git)) \/ UNCHANGED Git!vars
  BY <1>1, <1>3 DEF Git!UserWorks, Git!Records, Git!Report, Git!vars
<1>4. ASSUME NEW kind, NEW verdict, Git!Gate(kind, verdict) PROVE Places'
  BY <1>2, <1>4 DEF Git!Gate, Git!Answer, Places
<1>5. CASE Git!Refuse \/ Git!AddFails \/ Git!CommitFails \/ Git!Facts \/ Git!Dies
  BY <1>2, <1>5 DEF Git!Refuse, Git!AddFails, Git!CommitFails, Git!Facts, Git!Dies, Git!Answer
<1>6. CASE Git!Check \/ Git!Add
  BY <1>6 DEF Git!Check, Git!Add, Git!Goes, Places
<1>7. CASE Git!Commit
  BY <1>7 DEF Git!Commit, Places
<1>8. CASE Git!MirrorWrites \/ Git!MirrorAdds \/ Git!MirrorCommits \/ Git!MirrorSkips
  BY <1>8
  DEF Git!MirrorWrites, Git!MirrorAdds, Git!MirrorCommits, Git!MirrorSkips, Git!Goes, Places
<1> QED
  BY <1>3, <1>4, <1>5, <1>6, <1>7, <1>8 DEF Git!Next

\* What a command refuses it has not committed: a refusal comes before the
\* commit, and no failure after it is answered as one.
LEMMA RefusalStep ==
  ASSUME Places, [Git!Next]_(Git!vars), answer'.is = "refused", answer # answer'
  PROVE  own = 0 /\ commits' = commits
<1>1. CASE UNCHANGED Git!command
  BY <1>1 DEF Git!command
<1>2. CASE Git!UserWorks \/ Git!Records \/ (\E git \in BOOLEAN : Git!Report(git)) \/ UNCHANGED Git!vars
  BY <1>1, <1>2 DEF Git!UserWorks, Git!Records, Git!Report, Git!vars
<1>3. ASSUME NEW kind, NEW verdict, Git!Gate(kind, verdict) PROVE own = 0 /\ commits' = commits
  BY <1>3 DEF Git!Gate, Places, Git!repo
<1>4. CASE Git!Refuse \/ Git!AddFails \/ Git!CommitFails
  BY <1>4 DEF Git!Refuse, Git!AddFails, Git!CommitFails, Places, Git!repo
<1>5. CASE Git!Facts \/ Git!Dies
  <2>1. answer'.is \in {"ok", "failed"}
    BY <1>5 DEF Git!Facts, Git!Dies, Git!Answer
  <2> QED
    BY <2>1
<1>6. CASE \/ Git!Check \/ Git!Add \/ Git!Commit \/ Git!MirrorWrites \/ Git!MirrorAdds
           \/ Git!MirrorCommits \/ Git!MirrorSkips
  <2>1. answer' = answer
    BY <1>6 DEF Git!Check, Git!Add, Git!Commit, Git!MirrorWrites, Git!MirrorAdds, Git!MirrorCommits,
                Git!MirrorSkips, Git!Goes
  <2> QED
    BY <2>1
<1> QED
  BY <1>2, <1>3, <1>4, <1>5, <1>6 DEF Git!Next

\* An answer that refuses comes from a command that committed nothing: whatever
\* refuses stands before its commit, and what fails after it answers otherwise.
THEOREM RefusalsHaveNoCommit == Git!Spec => RefusedLeavesNoCommit
<1>1. Places /\ [Git!Next]_(Git!vars) =>
        [answer'.is = "refused" /\ answer # answer' =>
           own = 0 /\ commits' = commits]_<<commits, own, answer>>
  BY RefusalStep
<1> QED
  BY PlacesInit, PlacesStep, <1>1, PTL DEF Git!Spec, RefusedLeavesNoCommit
=============================================================================

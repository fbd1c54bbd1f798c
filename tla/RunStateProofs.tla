--------------------------- MODULE RunStateProofs ---------------------------
(***************************************************************************)
(* Proofs about RunState for every set of reviews, every bound and, in the *)
(* first part, every set of faults.                                        *)
(***************************************************************************)
EXTENDS RunState, TLAPS

-----------------------------------------------------------------------------
(* Types.                                                                  *)

LEMMA ResolveType == ASSUME TypeOK, NEW d PROVE Resolve(d) \in Dirs
  BY SentinelsDiffer DEF TypeOK, Resolve, Dirs, States

LEMMA CountersType ==
  ASSUME NEW s \in States
  PROVE  /\ [s EXCEPT !.partials = @ + 1] \in States
         /\ [s EXCEPT !.rollbacks = @ + 1] \in States
<1>1. s.partials + 1 \in Nat /\ s.rollbacks + 1 \in Nat
  BY DEF States
<1>2. QED
  BY <1>1 DEF States

LEMMA TypeInit == Init => TypeOK
<1> SUFFICES ASSUME Init PROVE TypeOK
  OBVIOUS
<1>1. NoState \in States
  BY DEF NoState, States, Days
<1>2. day \in Days /\ <<Root, 1>> \in Dirs \X Days
  BY BoundsAreNaturals DEF Init, Days, Dirs
<1>3. QED
  BY <1>1, <1>2 DEF Init, TypeOK, Labels, Settled, Dirs, Spoils

LEMMA TypeStep == TypeOK /\ [Next]_vars => TypeOK'
<1> SUFFICES ASSUME TypeOK, [Next]_vars PROVE TypeOK'
  OBVIOUS
<1> USE DEF TypeOK, disk, files, scratch, local, Goto, Labels, Settled, Spoil, Spoils
<1>a. \A d \in Days : <<Resolve(d), d>> \in Dirs \X Days
  BY ResolveType
<1>1. ASSUME NEW r \in Reviews, Launch(r) PROVE TypeOK'
  BY <1>1 DEF Launch, Dirs
<1>2. ASSUME NEW r \in Reviews, MakeRunDir(r) PROVE TypeOK'
  BY <1>2 DEF MakeRunDir
<1>3. ASSUME NEW r \in Reviews, ReadPrevious(r) PROVE TypeOK'
  BY <1>3 DEF ReadPrevious, CurrentTarget
<1>4. ASSUME NEW r \in Reviews, PointAtNewRun(r) PROVE TypeOK'
  BY <1>4 DEF PointAtNewRun, Relinked
<1>5. ASSUME NEW r \in Reviews, DropLink(r) PROVE TypeOK'
  BY <1>5 DEF DropLink
<1>6. ASSUME NEW r \in Reviews, WriteState(r) PROVE TypeOK'
  BY <1>6 DEF WriteState, States, Days
<1>7. ASSUME NEW r \in Reviews, MigrateLegacyRoot(r) PROVE TypeOK'
  BY <1>7 DEF MigrateLegacyRoot
<1>8. ASSUME NEW r \in Reviews, WriteSummary(r) PROVE TypeOK'
  BY <1>8 DEF WriteSummary
<1>9. ASSUME NEW r \in Reviews, Prep(r) PROVE TypeOK'
  BY <1>9, <1>a DEF Prep
<1>10. ASSUME NEW r \in Reviews, PrepRefuses(r) PROVE TypeOK'
  BY <1>10 DEF PrepRefuses
<1>11. ASSUME NEW r \in Reviews, AssembleStarts(r) PROVE TypeOK'
  BY <1>11, <1>a DEF AssembleStarts
<1>12. ASSUME NEW r \in Reviews, WriteReport(r) PROVE TypeOK'
  BY <1>12 DEF WriteReport
<1>12a. ASSUME NEW r \in Reviews, WriteRaises(r) PROVE TypeOK'
  BY <1>12a DEF WriteRaises
<1>13. ASSUME NEW r \in Reviews, ConsumeDraft(r) PROVE TypeOK'
  BY <1>13 DEF ConsumeDraft
<1>14. ASSUME NEW r \in Reviews, RollbackReads(r) PROVE TypeOK'
  BY <1>14 DEF RollbackReads
<1>15. ASSUME NEW r \in Reviews, RollbackRefuses(r) PROVE TypeOK'
  BY <1>15 DEF RollbackRefuses
<1>16. ASSUME NEW r \in Reviews, RollbackRelinks(r) PROVE TypeOK'
  BY <1>16 DEF RollbackRelinks, Relinked
<1>16a. ASSUME NEW r \in Reviews, RollbackConfirms(r) PROVE TypeOK'
  BY <1>16a DEF RollbackConfirms
<1>16b. ASSUME NEW r \in Reviews, RollbackUnconfirmed(r) PROVE TypeOK'
  BY <1>16b DEF RollbackUnconfirmed
<1>17. ASSUME NEW r \in Reviews, EventLoads(r) PROVE TypeOK'
  BY <1>17 DEF EventLoads
<1>18. ASSUME NEW r \in Reviews, PartialWrites(r) PROVE TypeOK'
  <2>1. snap[r] \in States
    OBVIOUS
  <2>2. [snap[r] EXCEPT !.partials = @ + 1] \in States
    BY <2>1, CountersType
  <2>3. state' \in States
    BY <1>18, <2>2 DEF PartialWrites
  <2>4. pc' \in [Reviews -> Labels]
    BY <1>18 DEF PartialWrites
  <2>5. UNCHANGED <<day, dirs, link, files, scratch>>
    BY <1>18 DEF PartialWrites
  <2>6. QED
    BY <2>3, <2>4, <2>5
<1>19. ASSUME NEW r \in Reviews, RollbackWrites(r) PROVE TypeOK'
  <2>1. snap[r] \in States
    OBVIOUS
  <2>2. [snap[r] EXCEPT !.rollbacks = @ + 1] \in States
    BY <2>1, CountersType
  <2>3. state' \in States
    BY <1>19, <2>2 DEF RollbackWrites
  <2>4. pc' \in [Reviews -> Labels]
    BY <1>19 DEF RollbackWrites
  <2>5. UNCHANGED <<day, dirs, link, files, scratch>>
    BY <1>19 DEF RollbackWrites
  <2>6. QED
    BY <2>3, <2>4, <2>5
<1>20. ASSUME NEW r \in Reviews, TryAgain(r) PROVE TypeOK'
  BY <1>20 DEF TryAgain
<1>21. ASSUME NEW r \in Reviews, Crash(r) PROVE TypeOK'
  BY <1>21 DEF Crash
<1>22. ASSUME NEW r \in Reviews, StopWithoutReport(r) PROVE TypeOK'
  BY <1>22 DEF StopWithoutReport
<1>23. ASSUME NEW r \in Reviews, Purge(r) PROVE TypeOK'
  BY <1>23 DEF Purge
<1>24. ASSUME Tick PROVE TypeOK'
  BY <1>24, BoundsAreNaturals DEF Tick, Days
<1>25. CASE UNCHANGED vars
  BY <1>25 DEF vars
<1>26. QED
  BY <1>1, <1>2, <1>3, <1>4, <1>5, <1>6, <1>7, <1>8, <1>9, <1>10, <1>11, <1>12,
     <1>12a, <1>13, <1>14, <1>15, <1>16, <1>16a, <1>16b, <1>17, <1>18, <1>19, <1>20, <1>21, <1>22, <1>23,
     <1>24, <1>25 DEF Next, Step, Activate, Assemble, Environment

\* Every variable keeps its range under every behaviour of the environment.
THEOREM TypeCorrect == Spec => []TypeOK
  BY TypeInit, TypeStep, PTL DEF Spec

-----------------------------------------------------------------------------
(* Pointers.  A directory is pointed at only after its review took the     *)
(* alias; from there on a pointer can be copied, never invented.           *)

Early == {"idle", "launched", "made", "peeked"}
Begun(x) == x \in Reviews => pc[x] \notin Early
Distinct(s) == s.run # NoRun => s.prev # s.run

PointersInv ==
  /\ Begun(link)
  /\ Begun(state.run) /\ Begun(state.prev) /\ Distinct(state)
  /\ \A q \in Reviews : /\ Begun(prev[q])
                        /\ Begun(snap[q].run) /\ Begun(snap[q].prev) /\ Distinct(snap[q])
                        /\ pc[q] \in {"peeked", "linked"} => prev[q] # q

LEMMA PointersInit == Init => PointersInv
  BY SentinelsDiffer DEF Init, PointersInv, Begun, Distinct, NoState

LEMMA PointersStep == TypeOK /\ PointersInv /\ [Next]_vars => PointersInv'
<1> SUFFICES ASSUME TypeOK, PointersInv, [Next]_vars PROVE PointersInv'
  OBVIOUS
<1> USE SentinelsDiffer DEF TypeOK, PointersInv, Begun, Distinct, Early, disk, files, scratch, local, Goto
<1>1. ASSUME NEW r \in Reviews, Launch(r) PROVE PointersInv'
  BY <1>1 DEF Launch
<1>2. ASSUME NEW r \in Reviews, MakeRunDir(r) PROVE PointersInv'
  BY <1>2 DEF MakeRunDir
<1>3. ASSUME NEW r \in Reviews, ReadPrevious(r) PROVE PointersInv'
  BY <1>3 DEF ReadPrevious, CurrentTarget
<1>4. ASSUME NEW r \in Reviews, PointAtNewRun(r) PROVE PointersInv'
  BY <1>4 DEF PointAtNewRun, Relinked
<1>5. ASSUME NEW r \in Reviews, DropLink(r) PROVE PointersInv'
  BY <1>5 DEF DropLink
<1>6. ASSUME NEW r \in Reviews, WriteState(r) PROVE PointersInv'
  BY <1>6 DEF WriteState
<1>7. ASSUME NEW r \in Reviews, MigrateLegacyRoot(r) PROVE PointersInv'
  BY <1>7 DEF MigrateLegacyRoot
<1>8. ASSUME NEW r \in Reviews, WriteSummary(r) PROVE PointersInv'
  BY <1>8 DEF WriteSummary
<1>9. ASSUME NEW r \in Reviews, Prep(r) PROVE PointersInv'
  BY <1>9 DEF Prep
<1>10. ASSUME NEW r \in Reviews, PrepRefuses(r) PROVE PointersInv'
  BY <1>10 DEF PrepRefuses
<1>11. ASSUME NEW r \in Reviews, AssembleStarts(r) PROVE PointersInv'
  BY <1>11 DEF AssembleStarts
<1>12. ASSUME NEW r \in Reviews, WriteReport(r) PROVE PointersInv'
  BY <1>12 DEF WriteReport
<1>12a. ASSUME NEW r \in Reviews, WriteRaises(r) PROVE PointersInv'
  BY <1>12a DEF WriteRaises
<1>13. ASSUME NEW r \in Reviews, ConsumeDraft(r) PROVE PointersInv'
  BY <1>13 DEF ConsumeDraft
<1>14. ASSUME NEW r \in Reviews, RollbackReads(r) PROVE PointersInv'
  BY <1>14 DEF RollbackReads
<1>15. ASSUME NEW r \in Reviews, RollbackRefuses(r) PROVE PointersInv'
  BY <1>15 DEF RollbackRefuses
<1>16. ASSUME NEW r \in Reviews, RollbackRelinks(r) PROVE PointersInv'
  BY <1>16 DEF RollbackRelinks, Relinked
<1>16a. ASSUME NEW r \in Reviews, RollbackConfirms(r) PROVE PointersInv'
  BY <1>16a DEF RollbackConfirms
<1>16b. ASSUME NEW r \in Reviews, RollbackUnconfirmed(r) PROVE PointersInv'
  BY <1>16b DEF RollbackUnconfirmed
<1>17. ASSUME NEW r \in Reviews, EventLoads(r) PROVE PointersInv'
  BY <1>17 DEF EventLoads
<1>18. ASSUME NEW r \in Reviews, PartialWrites(r) PROVE PointersInv'
  BY <1>18 DEF PartialWrites, States
<1>19. ASSUME NEW r \in Reviews, RollbackWrites(r) PROVE PointersInv'
  <2>1. /\ state'.run \in {state.run, snap[r].run}
        /\ state'.prev \in {state.prev, snap[r].prev}
        /\ Distinct(state)'
    BY <1>19 DEF RollbackWrites, States
  <2>2. UNCHANGED <<link, prev, snap>> /\ pc' = [pc EXCEPT ![r] = "failed"]
    BY <1>19 DEF RollbackWrites
  <2>3. QED
    BY <1>19, <2>1, <2>2
<1>20. ASSUME NEW r \in Reviews, TryAgain(r) PROVE PointersInv'
  BY <1>20 DEF TryAgain
<1>21. ASSUME NEW r \in Reviews, Crash(r) PROVE PointersInv'
  BY <1>21 DEF Crash, Settled
<1>22. ASSUME NEW r \in Reviews, StopWithoutReport(r) PROVE PointersInv'
  BY <1>22 DEF StopWithoutReport
<1>23. ASSUME NEW r \in Reviews, Purge(r) PROVE PointersInv'
  BY <1>23 DEF Purge
<1>24. ASSUME Tick PROVE PointersInv'
  BY <1>24 DEF Tick
<1>25. CASE UNCHANGED vars
  BY <1>25 DEF vars
<1>26. QED
  BY <1>1, <1>2, <1>3, <1>4, <1>5, <1>6, <1>7, <1>8, <1>9, <1>10, <1>11, <1>12,
     <1>12a, <1>13, <1>14, <1>15, <1>16, <1>16a, <1>16b, <1>17, <1>18, <1>19, <1>20, <1>21, <1>22,
     <1>23, <1>24, <1>25 DEF Next, Step, Activate, Assemble, Environment

\* Under every fault, neither the alias nor run_state.json names a run that was
\* never created, and a run is never its own previous run.
THEOREM PointersAreSound == Spec => []PointersNameCreatedRuns
<1>1. TypeOK /\ PointersInv => PointersNameCreatedRuns
  BY SentinelsDiffer DEF TypeOK, States, PointersInv, PointersNameCreatedRuns, Begun, Distinct, Early
<1>2. QED
  BY TypeCorrect, PointersInit, PointersStep, <1>1, PTL DEF Spec

-----------------------------------------------------------------------------
(* Files.  A report that is on disk is deleted with all that its directory *)
(* has, and a directory that comes back gets no summary any more.          *)

Unwritten == {"idle", "launched", "made", "peeked", "linked", "stated", "migrated"}
Written(d) == d \in Reviews => pc[d] \notin Unwritten

FilesInv ==
  /\ \A f \in summaries \cup drafts : Written(f[1])
  /\ \A q \in Reviews :
       /\ pc[q] \in Unwritten \ {"idle"} => out[q][1] = q
       /\ pc[q] = "relinking" => prev[q] \in Reviews
       /\ pc[q] \in {"joining", "joined", "writing", "consuming"} => Written(out[q][1])
       /\ pc[q] = "consuming" => \/ out[q] \in reports
                                 \/ out[q] \notin summaries \cup drafts
                                 \/ out[q][1] = Root

LEMMA FilesInit == Init => FilesInv
  BY SentinelsDiffer DEF Init, FilesInv, Unwritten, Written

LEMMA FilesStep == TypeOK /\ FilesInv /\ [Next]_vars => FilesInv'
<1> SUFFICES ASSUME TypeOK, FilesInv, [Next]_vars PROVE FilesInv'
  OBVIOUS
<1> USE DEF TypeOK, FilesInv, Unwritten, Written, disk, files, scratch, local, Goto
<1>1. ASSUME NEW r \in Reviews, Launch(r) PROVE FilesInv'
  BY <1>1 DEF Launch
<1>2. ASSUME NEW r \in Reviews, MakeRunDir(r) PROVE FilesInv'
  BY <1>2 DEF MakeRunDir
<1>3. ASSUME NEW r \in Reviews, ReadPrevious(r) PROVE FilesInv'
  BY <1>3 DEF ReadPrevious
<1>4. ASSUME NEW r \in Reviews, PointAtNewRun(r) PROVE FilesInv'
  BY <1>4 DEF PointAtNewRun
<1>5. ASSUME NEW r \in Reviews, DropLink(r) PROVE FilesInv'
  BY <1>5 DEF DropLink
<1>6. ASSUME NEW r \in Reviews, WriteState(r) PROVE FilesInv'
  BY <1>6 DEF WriteState
<1>7. ASSUME NEW r \in Reviews, MigrateLegacyRoot(r) PROVE FilesInv'
  BY <1>7 DEF MigrateLegacyRoot, InRoot
<1>8. ASSUME NEW r \in Reviews, WriteSummary(r) PROVE FilesInv'
  BY <1>8 DEF WriteSummary
<1>9. ASSUME NEW r \in Reviews, Prep(r) PROVE FilesInv'
  BY <1>9 DEF Prep
<1>10. ASSUME NEW r \in Reviews, PrepRefuses(r) PROVE FilesInv'
  BY <1>10 DEF PrepRefuses
<1>11. ASSUME NEW r \in Reviews, AssembleStarts(r) PROVE FilesInv'
  BY <1>11 DEF AssembleStarts
<1>12. ASSUME NEW r \in Reviews, WriteReport(r) PROVE FilesInv'
  BY <1>12 DEF WriteReport
<1>12a. ASSUME NEW r \in Reviews, WriteRaises(r) PROVE FilesInv'
  BY <1>12a DEF WriteRaises
<1>13. ASSUME NEW r \in Reviews, ConsumeDraft(r) PROVE FilesInv'
  BY <1>13 DEF ConsumeDraft
<1>14. ASSUME NEW r \in Reviews, RollbackReads(r) PROVE FilesInv'
  BY <1>14 DEF RollbackReads
<1>15. ASSUME NEW r \in Reviews, RollbackRefuses(r) PROVE FilesInv'
  BY <1>15 DEF RollbackRefuses
<1>16. ASSUME NEW r \in Reviews, RollbackRelinks(r) PROVE FilesInv'
  BY <1>16 DEF RollbackRelinks
<1>16a. ASSUME NEW r \in Reviews, RollbackConfirms(r) PROVE FilesInv'
  BY <1>16a DEF RollbackConfirms
<1>16b. ASSUME NEW r \in Reviews, RollbackUnconfirmed(r) PROVE FilesInv'
  BY <1>16b DEF RollbackUnconfirmed
<1>17. ASSUME NEW r \in Reviews, EventLoads(r) PROVE FilesInv'
  BY <1>17 DEF EventLoads
<1>18. ASSUME NEW r \in Reviews, PartialWrites(r) PROVE FilesInv'
  BY <1>18 DEF PartialWrites
<1>19. ASSUME NEW r \in Reviews, RollbackWrites(r) PROVE FilesInv'
  BY <1>19 DEF RollbackWrites
<1>20. ASSUME NEW r \in Reviews, TryAgain(r) PROVE FilesInv'
  BY <1>20 DEF TryAgain
<1>21. ASSUME NEW r \in Reviews, Crash(r) PROVE FilesInv'
  BY <1>21 DEF Crash
<1>22. ASSUME NEW r \in Reviews, StopWithoutReport(r) PROVE FilesInv'
  BY <1>22 DEF StopWithoutReport
<1>23. ASSUME NEW r \in Reviews, Purge(r) PROVE FilesInv'
  BY <1>23 DEF Purge, Quiet, Settled
<1>24. ASSUME Tick PROVE FilesInv'
  BY <1>24 DEF Tick
<1>25. CASE UNCHANGED vars
  BY <1>25 DEF vars
<1>26. QED
  BY <1>1, <1>2, <1>3, <1>4, <1>5, <1>6, <1>7, <1>8, <1>9, <1>10, <1>11, <1>12,
     <1>12a, <1>13, <1>14, <1>15, <1>16, <1>16a, <1>16b, <1>17, <1>18, <1>19, <1>20, <1>21, <1>22,
     <1>23, <1>24, <1>25 DEF Next, Step, Activate, Assemble, Environment

LEMMA FilesAlways == Spec => [](TypeOK /\ FilesInv)
  BY TypeCorrect, FilesInit, FilesStep, PTL DEF Spec

LEMMA DraftStep ==
  TypeOK /\ FilesInv /\ [Next]_vars
    => \A f \in drafts \ drafts' : f[1] \in dirs' => f \in reports'
<1> SUFFICES ASSUME TypeOK, FilesInv, [Next]_vars, NEW f \in drafts \ drafts',
                    f[1] \in dirs'
             PROVE  f \in reports'
  OBVIOUS
<1>1. dirs' \subseteq Reviews
  BY TypeStep DEF TypeOK
<1>2. f[1] # Root
  BY <1>1, SentinelsDiffer
<1> USE DEF disk, files, scratch, local
<1>3. PICK r \in Reviews : MigrateLegacyRoot(r) \/ ConsumeDraft(r) \/ Purge(r)
  BY DEF vars, Next, Step, Activate, Assemble, Environment, Launch, MakeRunDir,
         ReadPrevious, PointAtNewRun, DropLink, WriteState, WriteSummary, Prep,
         PrepRefuses, AssembleStarts, WriteReport, WriteRaises, RollbackReads, RollbackRefuses,
         RollbackRelinks, RollbackConfirms, RollbackUnconfirmed, EventLoads, PartialWrites, RollbackWrites, TryAgain, Crash,
         StopWithoutReport, Tick
<1>4. CASE MigrateLegacyRoot(r)
  BY <1>2, <1>4 DEF MigrateLegacyRoot, InRoot
<1>5. CASE ConsumeDraft(r)
  BY <1>2, <1>5 DEF ConsumeDraft, FilesInv
<1>6. CASE Purge(r)
  BY <1>6 DEF Purge
<1>7. QED
  BY <1>3, <1>4, <1>5, <1>6

\* Under every fault, an assemble that dies half-way leaves its draft or its report.
THEOREM DraftsAreOutlived == Spec => DraftOutlivedByReport
<1>1. TypeOK /\ FilesInv /\ [Next]_vars
        => [\A f \in drafts \ drafts' : f[1] \in dirs' => f \in reports']_vars
  BY DraftStep
<1>2. QED
  BY FilesAlways, <1>1, PTL DEF Spec, DraftOutlivedByReport

-----------------------------------------------------------------------------
(* The alias, for as long as the order holds: commands of one review at a *)
(* time, none of them killed, none of them repeated.  Midnight may pass    *)
(* anywhere, the link may be replaced in two steps, and any directory may  *)
(* be deleted at any moment.                                               *)

\* The alias, or the recorded previous run, is the last deliverable.
Restores(x) == spoiled # "no" \/ x \in {latest, RealEntry} \/ latest = NoRun
Remembers(x) == spoiled # "no" \/ x = latest \/ latest = NoRun \/ link = RealEntry
Stands == spoiled # "no" \/ latest \in dirs \cup {NoRun}

Activating == {"launched", "made", "peeked", "linked", "stated", "migrated"}
Stated == {"stated", "migrated", "ready", "drafted", "joining", "joined",
           "writing", "failing"}
Assembling == {"joining", "joined", "writing", "consuming"}

\* What holds while review q is at a given place.
PlaceInv(q) ==
  /\ pc[q] \in {"launched", "made", "counting", "confirmed", "counted"}
       => Restores(link)
  /\ pc[q] \in Activating => out[q][1] = q /\ out[q][2] <= day
  /\ pc[q] \in {"peeked", "linked", "relinking"} => Remembers(prev[q])
  /\ pc[q] \in Stated => state.run = q /\ Remembers(state.prev)
  /\ pc[q] \in Stated \cup {"linked", "consuming"} => link \in {q, RealEntry}
  /\ pc[q] \in {"migrated", "ready"} => InRoot(summaries) = {}
  /\ pc[q] \in {"joined", "counted"} => snap[q] = state
  /\ pc[q] \in Assembling => out[q][1] = q
  /\ pc[q] = "consuming" => latest = q

AliasInv ==
  /\ \A p, q \in Reviews : pc[p] \notin Settled /\ pc[q] \notin Settled => p = q
  /\ Quiet => Restores(link)
  /\ Stands
  /\ InRoot(drafts) = {}
  /\ state.date <= day
  /\ \A q \in Reviews : PlaceInv(q)

LEMMA AliasInit == Init => AliasInv
  BY SentinelsDiffer, BoundsAreNaturals
  DEF Init, Stands, AliasInv, PlaceInv, Settled, Activating, Stated, Assembling, Quiet, Restores,
      InRoot, NoState

\* Only the review that steps has anything to prove: the others are settled.
LEMMA OneReviewMoves ==
  ASSUME NEW r \in Reviews, TypeOK',
         \A q \in Reviews \ {r} : (pc[q] \in Settled)',
         (pc[r] \in Settled => Restores(link))', PlaceInv(r)',
         Stands', (InRoot(drafts) = {})', (state.date <= day)'
  PROVE  AliasInv'
<1>1. \A q \in Reviews \ {r} : PlaceInv(q)'
  BY DEF PlaceInv, Settled, Activating, Stated, Assembling
<1>2. Quiet' => Restores(link)'
  BY DEF Quiet
<1>3. QED
  BY <1>1, <1>2 DEF AliasInv

LEMMA AliasStepInv ==
  ASSUME TypeOK, TypeOK', AliasInv, [Next]_vars, spoiled' # "disordered"
  PROVE  AliasInv'
<1> USE SentinelsDiffer
<1>a. ASSUME NEW r \in Reviews, NEW l, pc[r] \notin Settled, Goto(r, l)
      PROVE  \A q \in Reviews \ {r} : (pc[q] \in Settled)'
  BY <1>a DEF AliasInv, Goto, TypeOK
<1>b. ASSUME NEW r \in Reviews, NEW l, Quiet, Goto(r, l)
      PROVE  \A q \in Reviews \ {r} : (pc[q] \in Settled)'
  BY <1>b DEF Quiet, Goto, TypeOK
<1>1. ASSUME NEW r \in Reviews, Launch(r) PROVE AliasInv'
  <2> USE <1>1 DEF Launch, disk, files, scratch, local
  <2>0. Quiet /\ spoiled' = spoiled
    OBVIOUS
  <2>1. \A q \in Reviews \ {r} : (pc[q] \in Settled)'
    BY <1>b, <2>0
  <2>2. Stands' /\ (InRoot(drafts) = {})' /\ (state.date <= day)'
    BY <2>0 DEF Stands, AliasInv, InRoot
  <2>3. (pc[r] \in Settled => Restores(link))' /\ PlaceInv(r)'
    <3>1. pc'[r] = "launched" /\ out'[r] = <<r, day>> /\ link' = link /\ latest' = latest /\ day' = day
      BY DEF Goto, TypeOK
    <3>2. Restores(link)'
      BY <2>0, <3>1 DEF AliasInv, Restores
    <3>3. day \in Nat
      BY BoundsAreNaturals DEF TypeOK, Days
    <3>4. QED
      BY <3>1, <3>2, <3>3 DEF PlaceInv, Activating, Stated, Assembling
  <2>4. QED
    BY <2>1, <2>2, <2>3, OneReviewMoves
<1>2. ASSUME NEW r \in Reviews, MakeRunDir(r) PROVE AliasInv'
  <2> USE <1>2 DEF MakeRunDir, disk, files, scratch, local
  <2>1. \A q \in Reviews \ {r} : (pc[q] \in Settled)'
    BY <1>a DEF Settled, Goto
  <2>2. Stands' /\ (InRoot(drafts) = {})' /\ (state.date <= day)'
    BY DEF Stands, AliasInv, PlaceInv, TypeOK, Activating, Stated, Assembling, InRoot
  <2>3. (pc[r] \in Settled => Restores(link))' /\ PlaceInv(r)'
    BY DEF AliasInv, PlaceInv, Settled, Activating, Stated, Assembling, Restores, Remembers, Goto, TypeOK
  <2>4. QED
    BY <2>1, <2>2, <2>3, OneReviewMoves
<1>3. ASSUME NEW r \in Reviews, ReadPrevious(r) PROVE AliasInv'
  <2> USE <1>3 DEF ReadPrevious, disk, files, scratch, local
  <2>1. \A q \in Reviews \ {r} : (pc[q] \in Settled)'
    BY <1>a DEF Settled, Goto
  <2>2. Stands' /\ (InRoot(drafts) = {})' /\ (state.date <= day)'
    BY DEF Stands, AliasInv, PlaceInv, TypeOK, Activating, Stated, Assembling, CurrentTarget, InRoot
  <2>3. (pc[r] \in Settled => Restores(link))' /\ PlaceInv(r)'
    BY DEF AliasInv, PlaceInv, Settled, Activating, Stated, Assembling, Restores, Remembers, Goto, TypeOK, CurrentTarget
  <2>4. QED
    BY <2>1, <2>2, <2>3, OneReviewMoves
<1>4. ASSUME NEW r \in Reviews, PointAtNewRun(r) PROVE AliasInv'
  <2> USE <1>4 DEF PointAtNewRun, disk, files, scratch, local
  <2>1. \A q \in Reviews \ {r} : (pc[q] \in Settled)'
    BY <1>a DEF Settled, Goto
  <2>2. Stands' /\ (InRoot(drafts) = {})' /\ (state.date <= day)'
    BY DEF Stands, AliasInv, PlaceInv, TypeOK, Activating, Stated, Assembling, Relinked, InRoot
  <2>3. (pc[r] \in Settled => Restores(link))' /\ PlaceInv(r)'
    BY DEF AliasInv, PlaceInv, Settled, Activating, Stated, Assembling, Restores, Remembers, Goto, TypeOK, Relinked
  <2>4. QED
    BY <2>1, <2>2, <2>3, OneReviewMoves
<1>5. ASSUME NEW r \in Reviews, WriteState(r) PROVE AliasInv'
  <2> USE <1>5 DEF WriteState, disk, files, scratch, local
  <2>1. \A q \in Reviews \ {r} : (pc[q] \in Settled)'
    BY <1>a DEF Settled, Goto
  <2>2. Stands' /\ (InRoot(drafts) = {})' /\ (state.date <= day)'
    BY DEF Stands, AliasInv, PlaceInv, TypeOK, Activating, Stated, Assembling, InRoot
  <2>3. (pc[r] \in Settled => Restores(link))' /\ PlaceInv(r)'
    BY DEF AliasInv, PlaceInv, Settled, Activating, Stated, Assembling, Restores, Remembers, Goto, TypeOK
  <2>4. QED
    BY <2>1, <2>2, <2>3, OneReviewMoves
<1>6. ASSUME NEW r \in Reviews, MigrateLegacyRoot(r) PROVE AliasInv'
  <2> USE <1>6 DEF MigrateLegacyRoot, disk, files, scratch, local
  <2>1. \A q \in Reviews \ {r} : (pc[q] \in Settled)'
    BY <1>a DEF Settled, Goto
  <2>2. Stands' /\ (InRoot(drafts) = {})' /\ (state.date <= day)'
    BY DEF Stands, AliasInv, PlaceInv, TypeOK, Activating, Stated, Assembling, InRoot
  <2>3. (pc[r] \in Settled => Restores(link))' /\ PlaceInv(r)'
    BY DEF AliasInv, PlaceInv, Settled, Activating, Stated, Assembling, Restores, Remembers, Goto, TypeOK, InRoot
  <2>4. QED
    BY <2>1, <2>2, <2>3, OneReviewMoves
<1>7. ASSUME NEW r \in Reviews, WriteSummary(r) PROVE AliasInv'
  <2> USE <1>7 DEF WriteSummary, disk, files, scratch, local
  <2>1. \A q \in Reviews \ {r} : (pc[q] \in Settled)'
    BY <1>a DEF Settled, Goto
  <2>2. Stands' /\ (InRoot(drafts) = {})' /\ (state.date <= day)'
    BY DEF Stands, AliasInv, PlaceInv, TypeOK, Activating, Stated, Assembling, InRoot
  <2>3. (pc[r] \in Settled => Restores(link))' /\ PlaceInv(r)'
    BY DEF AliasInv, PlaceInv, Settled, Activating, Stated, Assembling, Restores, Remembers, Goto, TypeOK, InRoot
  <2>4. QED
    BY <2>1, <2>2, <2>3, OneReviewMoves
<1>8. ASSUME NEW r \in Reviews, Prep(r) PROVE AliasInv'
  <2> USE <1>8 DEF Prep, disk, files, scratch, local
  <2>1. \A q \in Reviews \ {r} : (pc[q] \in Settled)'
    BY <1>a DEF Settled, Goto
  <2>2. Stands' /\ (InRoot(drafts) = {})' /\ (state.date <= day)'
    BY DEF Stands, AliasInv, PlaceInv, TypeOK, Activating, Stated, Assembling, InRoot, Resolve
  <2>3. (pc[r] \in Settled => Restores(link))' /\ PlaceInv(r)'
    BY DEF AliasInv, PlaceInv, Settled, Activating, Stated, Assembling, Restores, Remembers, Goto, TypeOK, InRoot, Resolve
  <2>4. QED
    BY <2>1, <2>2, <2>3, OneReviewMoves
<1>9. ASSUME NEW r \in Reviews, PrepRefuses(r) PROVE AliasInv'
  <2> USE <1>9 DEF PrepRefuses, disk, files, scratch, local
  <2>1. \A q \in Reviews \ {r} : (pc[q] \in Settled)'
    BY <1>a DEF Settled, Goto
  <2>2. Stands' /\ (InRoot(drafts) = {})' /\ (state.date <= day)'
    BY DEF Stands, AliasInv, PlaceInv, TypeOK, Activating, Stated, Assembling, InRoot
  <2>3. (pc[r] \in Settled => Restores(link))' /\ PlaceInv(r)'
    BY DEF AliasInv, PlaceInv, Settled, Activating, Stated, Assembling, Restores, Remembers, Goto, TypeOK
  <2>4. QED
    BY <2>1, <2>2, <2>3, OneReviewMoves
<1>10. ASSUME NEW r \in Reviews, AssembleStarts(r) PROVE AliasInv'
  <2> USE <1>10 DEF AssembleStarts, disk, files, scratch, local
  <2>1. \A q \in Reviews \ {r} : (pc[q] \in Settled)'
    BY <1>a DEF Settled, Goto
  <2>2. Stands' /\ (InRoot(drafts) = {})' /\ (state.date <= day)'
    BY DEF Stands, AliasInv, PlaceInv, TypeOK, Activating, Stated, Assembling, InRoot, Resolve
  <2>3. (pc[r] \in Settled => Restores(link))' /\ PlaceInv(r)'
    BY DEF AliasInv, PlaceInv, Settled, Activating, Stated, Assembling, Restores, Remembers, Goto, TypeOK, InRoot, Resolve
  <2>4. QED
    BY <2>1, <2>2, <2>3, OneReviewMoves
<1>11. ASSUME NEW r \in Reviews, WriteReport(r) PROVE AliasInv'
  <2> USE <1>11 DEF WriteReport, Spoil, disk, files, scratch, local
  <2>1. \A q \in Reviews \ {r} : (pc[q] \in Settled)'
    BY <1>a DEF Settled, Goto
  <2>2. Stands' /\ (InRoot(drafts) = {})' /\ (state.date <= day)'
    BY DEF Stands, AliasInv, PlaceInv, TypeOK, Activating, Stated, Assembling, InRoot
  <2>3. (pc[r] \in Settled => Restores(link))' /\ PlaceInv(r)'
    BY DEF AliasInv, PlaceInv, Settled, Activating, Stated, Assembling, Restores, Remembers, Goto, TypeOK
  <2>4. QED
    BY <2>1, <2>2, <2>3, OneReviewMoves
<1>11a. ASSUME NEW r \in Reviews, WriteRaises(r) PROVE AliasInv'
  <2> USE <1>11a DEF WriteRaises, Spoil, disk, files, scratch, local
  <2>1. \A q \in Reviews \ {r} : (pc[q] \in Settled)'
    BY <1>a DEF Settled, Goto
  <2>2. Stands' /\ (InRoot(drafts) = {})' /\ (state.date <= day)'
    BY DEF Stands, AliasInv, InRoot
  <2>3. (pc[r] \in Settled => Restores(link))' /\ PlaceInv(r)'
    BY DEF PlaceInv, Activating, Stated, Assembling, Restores, Goto, TypeOK
  <2>4. QED
    BY <2>1, <2>2, <2>3, OneReviewMoves
<1>12. ASSUME NEW r \in Reviews, ConsumeDraft(r) PROVE AliasInv'
  <2> USE <1>12 DEF ConsumeDraft, disk, files, scratch, local
  <2>1. \A q \in Reviews \ {r} : (pc[q] \in Settled)'
    BY <1>a DEF Settled, Goto
  <2>2. Stands' /\ (InRoot(drafts) = {})' /\ (state.date <= day)'
    BY DEF Stands, AliasInv, PlaceInv, TypeOK, Activating, Stated, Assembling, InRoot
  <2>3. (pc[r] \in Settled => Restores(link))' /\ PlaceInv(r)'
    BY DEF AliasInv, PlaceInv, Settled, Activating, Stated, Assembling, Restores, Remembers, Goto, TypeOK, InRoot
  <2>4. QED
    BY <2>1, <2>2, <2>3, OneReviewMoves
<1>13. ASSUME NEW r \in Reviews, RollbackReads(r) PROVE AliasInv'
  <2> USE <1>13 DEF RollbackReads, disk, files, scratch, local
  <2>1. \A q \in Reviews \ {r} : (pc[q] \in Settled)'
    BY <1>a DEF Settled, Goto
  <2>2. Stands' /\ (InRoot(drafts) = {})' /\ (state.date <= day)'
    BY DEF Stands, AliasInv, PlaceInv, TypeOK, Activating, Stated, Assembling, InRoot
  <2>3. (pc[r] \in Settled => Restores(link))' /\ PlaceInv(r)'
    BY DEF AliasInv, PlaceInv, Settled, Activating, Stated, Assembling, Restores, Remembers, Goto, TypeOK
  <2>4. QED
    BY <2>1, <2>2, <2>3, OneReviewMoves
<1>14. ASSUME NEW r \in Reviews, RollbackRefuses(r) PROVE AliasInv'
  <2> USE <1>14 DEF RollbackRefuses, disk, files, scratch, local
  <2>1. \A q \in Reviews \ {r} : (pc[q] \in Settled)'
    BY <1>a DEF Settled, Goto
  <2>2. Stands' /\ (InRoot(drafts) = {})' /\ (state.date <= day)'
    BY DEF Stands, AliasInv, PlaceInv, TypeOK, Activating, Stated, Assembling, InRoot
  <2>3. (pc[r] \in Settled => Restores(link))' /\ PlaceInv(r)'
    BY DEF Stands, AliasInv, PlaceInv, Settled, Activating, Stated, Assembling, Restores, Remembers, Goto, TypeOK
  <2>4. QED
    BY <2>1, <2>2, <2>3, OneReviewMoves
<1>15. ASSUME NEW r \in Reviews, RollbackRelinks(r) PROVE AliasInv'
  <2> USE <1>15 DEF RollbackRelinks, disk, files, scratch, local
  <2>1. \A q \in Reviews \ {r} : (pc[q] \in Settled)'
    BY <1>a DEF Settled, Goto
  <2>2. Stands' /\ (InRoot(drafts) = {})' /\ (state.date <= day)'
    BY DEF Stands, AliasInv, PlaceInv, TypeOK, Activating, Stated, Assembling, Relinked, InRoot
  <2>3. (pc[r] \in Settled => Restores(link))' /\ PlaceInv(r)'
    BY DEF AliasInv, PlaceInv, Settled, Activating, Stated, Assembling, Restores, Remembers, Goto, TypeOK, Relinked
  <2>4. QED
    BY <2>1, <2>2, <2>3, OneReviewMoves
<1>15a. ASSUME NEW r \in Reviews, RollbackConfirms(r) PROVE AliasInv'
  <2> USE <1>15a DEF RollbackConfirms, disk, files, scratch, local
  <2>1. \A q \in Reviews \ {r} : (pc[q] \in Settled)'
    BY <1>a DEF Settled, Goto
  <2>2. Stands' /\ (InRoot(drafts) = {})' /\ (state.date <= day)'
    BY DEF Stands, AliasInv, PlaceInv, TypeOK, Activating, Stated, Assembling, InRoot
  <2>3. (pc[r] \in Settled => Restores(link))' /\ PlaceInv(r)'
    BY DEF AliasInv, PlaceInv, Settled, Activating, Stated, Assembling, Restores, Remembers, Goto, TypeOK
  <2>4. QED
    BY <2>1, <2>2, <2>3, OneReviewMoves
<1>15b. ASSUME NEW r \in Reviews, RollbackUnconfirmed(r) PROVE AliasInv'
  <2> USE <1>15b DEF RollbackUnconfirmed, disk, files, scratch, local
  <2>1. \A q \in Reviews \ {r} : (pc[q] \in Settled)'
    BY <1>a DEF Settled, Goto
  <2>2. Stands' /\ (InRoot(drafts) = {})' /\ (state.date <= day)'
    BY DEF Stands, AliasInv, PlaceInv, TypeOK, Activating, Stated, Assembling, InRoot
  <2>3. (pc[r] \in Settled => Restores(link))' /\ PlaceInv(r)'
    BY DEF AliasInv, PlaceInv, Settled, Activating, Stated, Assembling, Restores, Remembers, Goto, TypeOK
  <2>4. QED
    BY <2>1, <2>2, <2>3, OneReviewMoves
<1>16. ASSUME NEW r \in Reviews, EventLoads(r) PROVE AliasInv'
  <2> USE <1>16 DEF EventLoads, disk, files, scratch, local
  <2>1. \A q \in Reviews \ {r} : (pc[q] \in Settled)'
    BY <1>a DEF Settled, Goto
  <2>2. Stands' /\ (InRoot(drafts) = {})' /\ (state.date <= day)'
    BY DEF Stands, AliasInv, PlaceInv, TypeOK, Activating, Stated, Assembling, InRoot
  <2>3. (pc[r] \in Settled => Restores(link))' /\ PlaceInv(r)'
    BY DEF AliasInv, PlaceInv, Settled, Activating, Stated, Assembling, Restores, Remembers, Goto, TypeOK
  <2>4. QED
    BY <2>1, <2>2, <2>3, OneReviewMoves
<1>17. ASSUME NEW r \in Reviews, PartialWrites(r) PROVE AliasInv'
  <2> USE <1>17 DEF PartialWrites, disk, files, scratch, local
  <2>1. \A q \in Reviews \ {r} : (pc[q] \in Settled)'
    BY <1>a DEF Settled, Goto
  <2>2. Stands' /\ (InRoot(drafts) = {})' /\ (state.date <= day)'
    BY DEF Stands, AliasInv, PlaceInv, TypeOK, Activating, Stated, Assembling, InRoot
  <2>3. (pc[r] \in Settled => Restores(link))' /\ PlaceInv(r)'
    BY DEF AliasInv, PlaceInv, Settled, Activating, Stated, Assembling, Restores, Remembers, Goto, TypeOK
  <2>4. QED
    BY <2>1, <2>2, <2>3, OneReviewMoves
<1>18. ASSUME NEW r \in Reviews, RollbackWrites(r) PROVE AliasInv'
  <2> USE <1>18 DEF RollbackWrites, disk, files, scratch, local
  <2>1. \A q \in Reviews \ {r} : (pc[q] \in Settled)'
    BY <1>a DEF Settled, Goto
  <2>2. Stands' /\ (InRoot(drafts) = {})' /\ (state.date <= day)'
    BY DEF Stands, AliasInv, PlaceInv, TypeOK, Activating, Stated, Assembling, InRoot
  <2>3. (pc[r] \in Settled => Restores(link))' /\ PlaceInv(r)'
    BY DEF AliasInv, PlaceInv, Settled, Activating, Stated, Assembling, Restores, Remembers, Goto, TypeOK
  <2>4. QED
    BY <2>1, <2>2, <2>3, OneReviewMoves
<1>19. ASSUME NEW r \in Reviews, DropLink(r) PROVE AliasInv'
  <2> USE <1>19 DEF DropLink, disk, files, scratch, local
  <2>1. \A q \in Reviews \ {r} : (pc[q] \in Settled)'
    BY DEF AliasInv, Settled
  <2>2. PlaceInv(r)'
    BY DEF AliasInv, PlaceInv, Settled, Activating, Stated, Assembling, Restores, Remembers, TypeOK
  <2>3. QED
    BY <2>1, <2>2, OneReviewMoves DEF Stands, AliasInv, InRoot, Settled
<1>19a. ASSUME NEW d \in Reviews, Purge(d) PROVE AliasInv'
  <2> USE <1>19a DEF Purge, Spoil, disk, files, scratch, local
  <2>1. Stands' /\ (InRoot(drafts) = {})' /\ InRoot(summaries)' \subseteq InRoot(summaries)
    BY DEF Stands, AliasInv, InRoot
  <2>2. \A q \in Reviews : PlaceInv(q)'
    BY <2>1 DEF AliasInv, PlaceInv, Restores, Remembers
  <2>3. QED
    BY <2>1, <2>2 DEF AliasInv, Quiet, Restores
<1>20. ASSUME Tick PROVE AliasInv'
  <2> USE <1>20 DEF Tick, disk, files, scratch, local
  <2>1. day \in Nat /\ state.date \in Nat /\ \A q \in Reviews : out[q][2] \in Nat
    BY BoundsAreNaturals DEF TypeOK, States, Days
  <2>2. \A q \in Reviews : PlaceInv(q)'
    BY <2>1 DEF AliasInv, PlaceInv, Restores, Remembers, InRoot
  <2>3. QED
    BY <2>1, <2>2 DEF Stands, AliasInv, Quiet, Restores, InRoot
<1>21. CASE UNCHANGED vars
  BY <1>21 DEF vars, disk, files, scratch, local, Stands, AliasInv, PlaceInv, Settled, Activating, Stated, Assembling, Restores, Remembers, Quiet, InRoot
<1>22. QED
  BY <1>1, <1>2, <1>3, <1>4, <1>5, <1>6, <1>7, <1>8, <1>9, <1>10, <1>11, <1>11a, <1>12,
     <1>13, <1>14, <1>15, <1>15a, <1>15b, <1>16, <1>17, <1>18, <1>19, <1>19a, <1>20, <1>21
  DEF Next, Step, Activate, Assemble, Environment, TryAgain, Crash, StopWithoutReport

\* Disorder is for good.
LEMMA DisorderStays == spoiled = "disordered" /\ [Next]_vars => spoiled' = "disordered"
  BY DEF vars, local, scratch, Spoil, Next, Step, Activate, Assemble, Environment, Launch,
         MakeRunDir, ReadPrevious, PointAtNewRun, DropLink, WriteState, MigrateLegacyRoot,
         WriteSummary, Prep, PrepRefuses, AssembleStarts, WriteReport, WriteRaises,
         ConsumeDraft, RollbackReads, RollbackRefuses, RollbackRelinks, RollbackConfirms,
         RollbackUnconfirmed, EventLoads, PartialWrites, RollbackWrites, TryAgain, Crash,
         StopWithoutReport, Purge, Tick

\* Under every fault: with directories deleted at any moment, runs/current designates
\* between two reviews the run that delivered last, unless this very run was deleted
\* or an assemble lost its directory, and again from the next report on, for as long
\* as no command was killed, repeated or run beside another review.
THEOREM DeletionsHeal == Spec => []AliasSurvivesDeletions
<1> DEFINE IInv == spoiled = "disordered" \/ AliasInv
<1>1. TypeOK /\ IInv /\ [Next]_vars => IInv'
  BY TypeStep, AliasStepInv, DisorderStays
<1>2. Init => IInv
  BY AliasInit
<1>3. IInv => AliasSurvivesDeletions
  BY DEF AliasInv, AliasSurvivesDeletions, Restores
<1> HIDE DEF IInv
<1>4. QED
  BY TypeCorrect, <1>1, <1>2, <1>3, PTL DEF Spec

-----------------------------------------------------------------------------
(* The benign environment: moreover no directory is deleted, hence what a  *)
(* review made stays there.                                                *)

Benign == Faults \cap {"crash", "stop", "retry", "overlap", "purge"} = {}

Housed == {"made", "peeked", "linked", "migrated"} \cup Stated
Standing == spoiled = "no" /\ \A q \in Reviews : pc[q] \in Housed => q \in dirs

LEMMA StandingInit == Init => Standing
  BY DEF Init, Standing, Housed, Stated

LEMMA StandingStep ==
  ASSUME Benign, TypeOK, AliasInv, Standing, [Next]_vars
  PROVE  Standing'
<1> USE DEF Standing, Housed, Stated, TypeOK, disk, files, scratch, local, Goto
<1>1. ASSUME NEW r \in Reviews, Step(r), ~WriteRaises(r) PROVE Standing'
  <2>1. spoiled' = "no" /\ dirs \subseteq dirs'
    BY <1>1 DEF Benign, Spoil, Step, Activate, Assemble, Launch, MakeRunDir, ReadPrevious, PointAtNewRun,
           WriteState, MigrateLegacyRoot, WriteSummary, Prep, PrepRefuses, AssembleStarts,
           WriteReport, ConsumeDraft, RollbackReads, RollbackRefuses, RollbackRelinks,
           RollbackConfirms, RollbackUnconfirmed, EventLoads, PartialWrites, RollbackWrites
  <2>2. \A q \in Reviews \ {r} : pc'[q] = pc[q]
    BY <1>1 DEF Step, Activate, Assemble, Launch, MakeRunDir, ReadPrevious, PointAtNewRun,
           WriteState, MigrateLegacyRoot, WriteSummary, Prep, PrepRefuses, AssembleStarts,
           WriteReport, ConsumeDraft, RollbackReads, RollbackRefuses, RollbackRelinks,
           RollbackConfirms, RollbackUnconfirmed, EventLoads, PartialWrites, RollbackWrites
  <2>3. pc'[r] \in Housed => pc[r] \in Housed \/ r \in dirs'
    BY <1>1 DEF Step, Activate, Assemble, Launch, MakeRunDir, ReadPrevious, PointAtNewRun,
           WriteState, MigrateLegacyRoot, WriteSummary, Prep, PrepRefuses, AssembleStarts,
           WriteReport, ConsumeDraft, RollbackReads, RollbackRefuses, RollbackRelinks,
           RollbackConfirms, RollbackUnconfirmed, EventLoads, PartialWrites, RollbackWrites
  <2>4. QED
    BY <2>1, <2>2, <2>3
<1>2. ASSUME NEW r \in Reviews, WriteRaises(r) PROVE FALSE
  BY <1>2 DEF WriteRaises, AliasInv, PlaceInv, Assembling
<1>3. ASSUME NEW r \in Reviews, DropLink(r) PROVE Standing'
  BY <1>3 DEF DropLink
<1>4. ASSUME Tick PROVE Standing'
  BY <1>4 DEF Tick
<1>5. CASE UNCHANGED vars
  BY <1>5 DEF vars
<1>6. QED
  BY <1>1, <1>2, <1>3, <1>4, <1>5
  DEF Benign, Next, Environment, TryAgain, Crash, StopWithoutReport, Purge

LEMMA StandingAlways == ASSUME Benign PROVE Spec => [](TypeOK /\ AliasInv /\ Standing)
<1>1. TypeOK /\ AliasInv /\ Standing /\ [Next]_vars => (TypeOK /\ AliasInv /\ Standing)'
  <2> SUFFICES ASSUME TypeOK, AliasInv, Standing, [Next]_vars
               PROVE  (TypeOK /\ AliasInv /\ Standing)'
    OBVIOUS
  <2>1. TypeOK' /\ Standing'
    BY TypeStep, StandingStep
  <2>2. spoiled' # "disordered"
    BY <2>1 DEF Standing
  <2>3. QED
    BY <2>1, <2>2, AliasStepInv
<1>2. QED
  BY TypeInit, AliasInit, StandingInit, <1>1, PTL DEF Spec

\* In the benign environment, between two reviews runs/current designates the
\* run that delivered last, whatever the number of reviews and their outcomes.
THEOREM AliasKeepsItsPromise ==
  ASSUME Benign PROVE Spec => []AliasDesignatesLatestDeliverable
<1>1. AliasInv /\ Standing => AliasDesignatesLatestDeliverable
  BY DEF AliasInv, Standing, AliasDesignatesLatestDeliverable, Restores
<1>2. QED
  BY StandingAlways, <1>1, PTL

\* In the benign environment a report only lands in its own run directory.
THEOREM ReportsStayApart ==
  ASSUME Benign PROVE Spec => []RunsNeverOverwriteEachOther
<1>1. AliasInv => RunsNeverOverwriteEachOther
  BY DEF AliasInv, PlaceInv, Assembling, RunsNeverOverwriteEachOther
<1>2. QED
  BY StandingAlways, <1>1, PTL

\* In the benign environment a command of a run, up to the day after its
\* activation, never falls back to the legacy root.
THEOREM NoLegacyFallback ==
  ASSUME Benign PROVE Spec => []NoLegacyFallbackAcrossMidnight
<1>1. TypeOK /\ AliasInv /\ Standing => NoLegacyFallbackAcrossMidnight
  <2> SUFFICES ASSUME TypeOK, AliasInv, Standing, NEW r \in Reviews,
                      pc[r] \in {"ready", "drafted"}, day <= state.date + 1
               PROVE  Resolve(day) = r
    BY DEF NoLegacyFallbackAcrossMidnight
  <2>1. state.run = r /\ r \in dirs /\ state.date <= day
    BY DEF AliasInv, PlaceInv, Standing, Housed, Stated
  <2>2. day \in Nat /\ state.date \in Nat
    BY BoundsAreNaturals DEF TypeOK, States, Days
  <2>3. StateDateMatches(state.date, day)
    BY <2>1, <2>2 DEF StateDateMatches
  <2>4. QED
    BY <2>1, <2>3, SentinelsDiffer DEF Resolve
<1>2. QED
  BY StandingAlways, <1>1, PTL

\* In the benign environment a rollback shows a run that has a report.
THEOREM RollbacksShowReports ==
  ASSUME Benign PROVE Spec => []RollbackLandsOnDeliverable
<1>1. AliasInv /\ Standing => RollbackLandsOnDeliverable
  BY DEF AliasInv, Standing, PlaceInv, Restores, RollbackLandsOnDeliverable
<1>2. QED
  BY StandingAlways, <1>1, PTL

-----------------------------------------------------------------------------
(* The counter of rollbacks: the state file is this run's from the moment  *)
(* it is written, so the snapshot that is bumped is the current state.     *)

CountInv ==
  /\ \A q \in Reviews :
       /\ pc[q] \in {"idle", "launched", "made", "peeked", "linked"} => restored[q] = 0
       /\ pc[q] \in Stated \cup {"consuming", "relinking", "counting"}
            => state.run = q /\ state.rollbacks = restored[q]
       /\ pc[q] \in {"confirmed", "counted"}
            => state.run = q /\ state.rollbacks + 1 = restored[q]
  /\ RollbacksAreCounted

LEMMA CountInit == Init => CountInv
  BY DEF Init, CountInv, Stated, RollbacksAreCounted, NoState

LEMMA CountStep ==
  ASSUME Benign, TypeOK, TypeOK', AliasInv, CountInv, [Next]_vars
  PROVE  CountInv'
<1> USE SentinelsDiffer
<1> USE DEF disk, files, scratch, local, Goto
<1>1. ASSUME NEW r \in Reviews, Launch(r) PROVE CountInv'
  BY <1>1 DEF Launch, CountInv, AliasInv, PlaceInv, RollbacksAreCounted, Quiet, Settled, Stated, TypeOK, States, Benign
<1>2. ASSUME NEW r \in Reviews, MakeRunDir(r) PROVE CountInv'
  BY <1>2 DEF MakeRunDir, CountInv, AliasInv, PlaceInv, RollbacksAreCounted, Quiet, Settled, Stated, TypeOK, States, Benign
<1>3. ASSUME NEW r \in Reviews, ReadPrevious(r) PROVE CountInv'
  BY <1>3 DEF ReadPrevious, CountInv, AliasInv, PlaceInv, RollbacksAreCounted, Quiet, Settled, Stated, TypeOK, States, Benign
<1>4. ASSUME NEW r \in Reviews, PointAtNewRun(r) PROVE CountInv'
  BY <1>4 DEF PointAtNewRun, CountInv, AliasInv, PlaceInv, RollbacksAreCounted, Quiet, Settled, Stated, TypeOK, States, Benign
<1>5. ASSUME NEW r \in Reviews, DropLink(r) PROVE CountInv'
  BY <1>5 DEF DropLink, CountInv, AliasInv, PlaceInv, RollbacksAreCounted, Quiet, Settled, Stated, TypeOK, States, Benign
<1>6. ASSUME NEW r \in Reviews, WriteState(r) PROVE CountInv'
  <2>1. \A q \in Reviews \ {r} : pc[q] \in Settled
    BY <1>6 DEF WriteState, AliasInv, Settled
  <2>2. state'.run = r /\ state'.rollbacks = 0 /\ restored' = restored /\ restored[r] = 0
        /\ pc' = [pc EXCEPT ![r] = "stated"]
    BY <1>6 DEF WriteState, CountInv
  <2>3. QED
    BY <2>1, <2>2 DEF CountInv, RollbacksAreCounted, Quiet, Settled, Stated, TypeOK
<1>7. ASSUME NEW r \in Reviews, MigrateLegacyRoot(r) PROVE CountInv'
  BY <1>7 DEF MigrateLegacyRoot, CountInv, AliasInv, PlaceInv, RollbacksAreCounted, Quiet, Settled, Stated, TypeOK, States, Benign
<1>8. ASSUME NEW r \in Reviews, WriteSummary(r) PROVE CountInv'
  BY <1>8 DEF WriteSummary, CountInv, AliasInv, PlaceInv, RollbacksAreCounted, Quiet, Settled, Stated, TypeOK, States, Benign
<1>9. ASSUME NEW r \in Reviews, Prep(r) PROVE CountInv'
  BY <1>9 DEF Prep, CountInv, AliasInv, PlaceInv, RollbacksAreCounted, Quiet, Settled, Stated, TypeOK, States, Benign
<1>10. ASSUME NEW r \in Reviews, PrepRefuses(r) PROVE CountInv'
  BY <1>10 DEF PrepRefuses, CountInv, AliasInv, PlaceInv, RollbacksAreCounted, Quiet, Settled, Stated, TypeOK, States, Benign
<1>11. ASSUME NEW r \in Reviews, AssembleStarts(r) PROVE CountInv'
  BY <1>11 DEF AssembleStarts, CountInv, AliasInv, PlaceInv, RollbacksAreCounted, Quiet, Settled, Stated, TypeOK, States, Benign
<1>12. ASSUME NEW r \in Reviews, WriteReport(r) PROVE CountInv'
  BY <1>12 DEF WriteReport, CountInv, AliasInv, PlaceInv, RollbacksAreCounted, Quiet, Settled, Stated, TypeOK, States, Benign
<1>12a. ASSUME NEW r \in Reviews, WriteRaises(r) PROVE CountInv'
  BY <1>12a DEF WriteRaises, CountInv, AliasInv, PlaceInv, Assembling, RollbacksAreCounted, Quiet, Settled, Stated, TypeOK, States
<1>13. ASSUME NEW r \in Reviews, ConsumeDraft(r) PROVE CountInv'
  BY <1>13 DEF ConsumeDraft, CountInv, AliasInv, PlaceInv, RollbacksAreCounted, Quiet, Settled, Stated, TypeOK, States, Benign
<1>14. ASSUME NEW r \in Reviews, RollbackReads(r) PROVE CountInv'
  BY <1>14 DEF RollbackReads, CountInv, AliasInv, PlaceInv, RollbacksAreCounted, Quiet, Settled, Stated, TypeOK, States, Benign
<1>15. ASSUME NEW r \in Reviews, RollbackRefuses(r) PROVE CountInv'
  BY <1>15 DEF RollbackRefuses, CountInv, AliasInv, PlaceInv, RollbacksAreCounted, Quiet, Settled, Stated, TypeOK, States, Benign
<1>16. ASSUME NEW r \in Reviews, RollbackRelinks(r) PROVE CountInv'
  BY <1>16 DEF RollbackRelinks, CountInv, AliasInv, PlaceInv, RollbacksAreCounted, Quiet, Settled, Stated, TypeOK, States, Benign
<1>16a. ASSUME NEW r \in Reviews, RollbackConfirms(r) PROVE CountInv'
  BY <1>16a DEF RollbackConfirms, CountInv, AliasInv, PlaceInv, RollbacksAreCounted, Quiet, Settled, Stated, TypeOK, States, Benign
<1>16b. ASSUME NEW r \in Reviews, RollbackUnconfirmed(r) PROVE CountInv'
  BY <1>16b DEF RollbackUnconfirmed, CountInv, AliasInv, PlaceInv, RollbacksAreCounted, Quiet, Settled, Stated, TypeOK, States, Benign
<1>17. ASSUME NEW r \in Reviews, EventLoads(r) PROVE CountInv'
  BY <1>17 DEF EventLoads, CountInv, AliasInv, PlaceInv, RollbacksAreCounted, Quiet, Settled, Stated, TypeOK, States, Benign
<1>18. ASSUME NEW r \in Reviews, PartialWrites(r) PROVE CountInv'
  BY <1>18 DEF PartialWrites, CountInv, AliasInv, PlaceInv, RollbacksAreCounted, Quiet, Settled, Stated, TypeOK, States, Benign
<1>19. ASSUME NEW r \in Reviews, RollbackWrites(r) PROVE CountInv'
  BY <1>19 DEF RollbackWrites, CountInv, AliasInv, PlaceInv, RollbacksAreCounted, Quiet, Settled, Stated, TypeOK, States, Benign
<1>20. ASSUME Tick PROVE CountInv'
  BY <1>20 DEF Tick, CountInv, RollbacksAreCounted, Quiet
<1>21. CASE UNCHANGED vars
  BY <1>21 DEF vars, CountInv, RollbacksAreCounted, Quiet
<1>22. QED
  BY <1>1, <1>2, <1>3, <1>4, <1>5, <1>6, <1>7, <1>8, <1>9, <1>10, <1>11, <1>12,
     <1>12a, <1>13, <1>14, <1>15, <1>16, <1>16a, <1>16b, <1>17, <1>18, <1>19, <1>20, <1>21
  DEF Benign, Next, Step, Activate, Assemble, Environment, TryAgain, Crash,
      StopWithoutReport, Purge

\* In the benign environment no rollback event is lost or counted twice.
THEOREM RollbackCountIsExact ==
  ASSUME Benign PROVE Spec => []RollbacksAreCounted
<1>1. TypeOK /\ AliasInv /\ CountInv /\ [Next]_vars => CountInv'
  BY TypeStep, CountStep
<1>2. CountInv => RollbacksAreCounted
  BY DEF CountInv
<1>3. QED
  BY StandingAlways, CountInit, <1>1, <1>2, PTL DEF Spec

-----------------------------------------------------------------------------
(* Refinement: the benign environment keeps what the alias promises.       *)

LEMMA ActiveIs == ASSUME AliasInv, NEW r \in Reviews, pc[r] \notin Settled PROVE Active = r
  BY DEF AliasInv, Active, Quiet

LEMMA ActiveIsNext ==
  ASSUME AliasInv', NEW r \in Reviews, (pc[r] \notin Settled)' PROVE Active' = r
  BY DEF AliasInv, Active, Quiet

LEMMA AbstractInit == Init => Abstract!Init
  BY DEF Init, Abstract!Init, Active, Quiet, Settled

AbstractNext == Abstract!Next \/ UNCHANGED Abstract!vars

LEMMA AbstractStep ==
  Benign /\ TypeOK /\ TypeOK' /\ AliasInv /\ AliasInv' /\ Standing /\ FilesInv /\ [Next]_vars
    => AbstractNext
<1> SUFFICES ASSUME Benign, TypeOK, TypeOK', AliasInv, AliasInv', Standing, FilesInv,
                    [Next]_vars
             PROVE  AbstractNext
  OBVIOUS
<1> USE SentinelsDiffer DEF disk, files, scratch, local, Goto
<1>a. Standing'
  BY StandingStep
<1>b. ASSUME NEW r \in Reviews, pc[r] \notin Settled, (pc[r] \notin Settled)',
             link' = link, latest' = latest
      PROVE  UNCHANGED Abstract!vars
  BY <1>b, ActiveIs, ActiveIsNext DEF Abstract!vars
<1>c. ASSUME NEW r \in Reviews, pc[r] \notin Settled, Quiet',
             link' = link, latest' = latest
      PROVE  Abstract!End(r)
  <2>1. Active = r /\ Active' = NoRun
    BY <1>c, ActiveIs DEF Active
  <2>2. Restores(link)
    BY <1>a, <1>c DEF AliasInv, Standing, Restores
  <2>3. QED
    BY <1>c, <2>1, <2>2 DEF Standing, Abstract!End, Restores
<1>d. ASSUME NEW r \in Reviews, NEW l \in Settled, pc[r] \notin Settled,
             pc' = [pc EXCEPT ![r] = l]
      PROVE  Quiet'
  BY <1>d DEF AliasInv, Quiet, TypeOK
<1>1. ASSUME NEW r \in Reviews, Launch(r) PROVE Abstract!Begin(r)
  <2>1. Quiet /\ link' = link /\ latest' = latest /\ pc'[r] = "launched"
    BY <1>1 DEF Launch, Benign, TypeOK
  <2>2. Active = NoRun /\ Active' = r
    BY <2>1, ActiveIsNext DEF Active, Settled
  <2>3. QED
    BY <2>1, <2>2 DEF Abstract!Begin
<1>2. ASSUME NEW r \in Reviews,
             \/ MakeRunDir(r) \/ ReadPrevious(r) \/ WriteState(r) \/ MigrateLegacyRoot(r)
             \/ WriteSummary(r) \/ Prep(r) \/ PrepRefuses(r) \/ AssembleStarts(r)
             \/ RollbackReads(r) \/ RollbackConfirms(r) \/ EventLoads(r)
      PROVE  UNCHANGED Abstract!vars
  <2>1. pc[r] \notin Settled /\ link' = link /\ latest' = latest
    BY <1>2 DEF MakeRunDir, ReadPrevious, WriteState, MigrateLegacyRoot, WriteSummary, Prep,
           PrepRefuses, AssembleStarts, RollbackReads, RollbackConfirms, EventLoads,
           Settled
  <2>2. (pc[r] \notin Settled)'
    BY <1>2 DEF MakeRunDir, ReadPrevious, WriteState, MigrateLegacyRoot, WriteSummary, Prep,
           PrepRefuses, AssembleStarts, RollbackReads, RollbackConfirms, EventLoads,
           Settled, TypeOK
  <2>3. QED
    BY <1>b, <2>1, <2>2
<1>3. ASSUME NEW r \in Reviews, PartialWrites(r) PROVE UNCHANGED Abstract!vars
  BY <1>3, <1>b DEF PartialWrites, Settled, TypeOK
<1>4. ASSUME NEW r \in Reviews, PointAtNewRun(r) PROVE Abstract!Show(r)
  <2>1. Active = r /\ Active' = r
    BY <1>4, ActiveIs, ActiveIsNext DEF PointAtNewRun, Settled, TypeOK
  <2>2. QED
    BY <1>4, <2>1 DEF PointAtNewRun, Relinked, Abstract!Show, Abstract!Shown
<1>5. ASSUME NEW r \in Reviews, DropLink(r) PROVE Abstract!Hide(r)
  <2>1. Active = r /\ Active' = r
    BY <1>5, ActiveIs, ActiveIsNext DEF DropLink, Settled, TypeOK
  <2>2. QED
    BY <1>5, <2>1 DEF DropLink, Abstract!Hide, Abstract!Shown
<1>6. ASSUME NEW r \in Reviews, WriteReport(r) PROVE Abstract!Deliver(r)
  <2>1. Active = r /\ Active' = r
    BY <1>6, ActiveIs, ActiveIsNext DEF WriteReport, Settled, TypeOK
  <2>2. out[r][1] = r /\ link \in {r, RealEntry}
    BY <1>6 DEF WriteReport, AliasInv, PlaceInv, Stated, Assembling
  <2>3. QED
    BY <1>6, <2>1, <2>2 DEF WriteReport, Abstract!Deliver, Abstract!Shown
<1>6a. ASSUME NEW r \in Reviews, WriteRaises(r) PROVE FALSE
  BY <1>6a DEF WriteRaises, AliasInv, PlaceInv, Assembling, Standing, Housed, Stated
<1>7. ASSUME NEW r \in Reviews, ConsumeDraft(r) \/ RollbackRefuses(r) \/ RollbackUnconfirmed(r)
             \/ RollbackWrites(r)
      PROVE  Abstract!End(r)
  <2>1. pc[r] \notin Settled /\ link' = link /\ latest' = latest
    BY <1>7 DEF ConsumeDraft, RollbackRefuses, RollbackUnconfirmed, RollbackWrites, Settled
  <2>2. Quiet'
    BY <1>7, <1>d DEF ConsumeDraft, RollbackRefuses, RollbackUnconfirmed, RollbackWrites, Settled
  <2>3. QED
    BY <1>c, <2>1, <2>2
<1>8. ASSUME NEW r \in Reviews, RollbackRelinks(r)
      PROVE  Abstract!Withdraw(r) \/ UNCHANGED Abstract!vars
  <2>1. Active = r /\ Active' = r
    BY <1>8, ActiveIs, ActiveIsNext DEF RollbackRelinks, Settled, TypeOK
  <2>2. prev[r] \in Reviews /\ Remembers(prev[r])
    BY <1>8 DEF RollbackRelinks, AliasInv, PlaceInv, FilesInv, TypeOK
  <2>3. CASE link = RealEntry
    BY <1>8, <2>1, <2>3 DEF RollbackRelinks, Relinked, Abstract!vars
  <2>4. CASE link # RealEntry
    BY <1>8, <2>1, <2>2, <2>4
    DEF RollbackRelinks, Relinked, Remembers, Standing, Abstract!Withdraw, Abstract!Shown
  <2>5. QED
    BY <2>3, <2>4
<1>9. ASSUME Tick PROVE UNCHANGED Abstract!vars
  BY <1>9 DEF Tick, Abstract!vars, Active, Quiet
<1>10. CASE UNCHANGED vars
  <2>1. pc' = pc /\ link' = link /\ latest' = latest
    BY <1>10 DEF vars
  <2>2. Active' = Active
    BY <2>1 DEF Active, Quiet
  <2>3. QED
    BY <2>1, <2>2 DEF Abstract!vars, AbstractNext
<1>11. QED
  BY <1>10, <1>1, <1>2, <1>3, <1>4, <1>5, <1>6, <1>6a, <1>7, <1>8, <1>9
  DEF Benign, Next, Step, Activate, Assemble, Environment, TryAgain, Crash,
      StopWithoutReport, Purge, Abstract!Next, AbstractNext

\* In the benign environment activation, assemble and rollback implement the
\* abstract promise of runs/current.
THEOREM Refinement == ASSUME Benign PROVE Spec => ImplementsDeliverableAlias
<1>1. TypeOK /\ TypeOK' /\ AliasInv /\ AliasInv' /\ Standing /\ FilesInv /\ [Next]_vars
        => AbstractNext
  BY AbstractStep
<1>2. AbstractNext => [Abstract!Next]_(Abstract!vars)
  BY DEF AbstractNext
<1>3. QED
  BY StandingAlways, FilesAlways, AbstractInit, <1>1, <1>2, PTL
  DEF Spec, ImplementsDeliverableAlias, Abstract!Spec
=============================================================================

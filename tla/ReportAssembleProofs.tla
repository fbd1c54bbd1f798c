------------------------ MODULE ReportAssembleProofs ------------------------
(***************************************************************************)
(* Proofs about ReportAssemble, for any sets of branches, audits, timings, *)
(* summaries and manifests, any number of commands, killed or not.         *)
(***************************************************************************)
EXTENDS ReportAssemble, FiniteSetTheorems, TLAPS

AfterRendering == {"persisting"}
AfterWriting == {"consuming", "rendering"} \cup AfterRendering
AfterSecurity == {"marker", "writing"} \cup AfterWriting
AfterCuration == {"security"} \cup AfterSecurity
AfterSummary == {"curation"} \cup AfterCuration
AfterArtifacts == {"summary"} \cup AfterSummary

FatalJoin == summary.rc = 2 \/ Plain("fatal") \in JoinRecords(timings.records)
CleanJoin ==
  /\ JoinRecords(timings.records) \cap {Plain(k) : k \in {"fatal", "failed", "text"}} = {}
  /\ \A s \in Audits : Truncated(s) \in JoinRecords(timings.records) => audit[s] = "valid"
  /\ summary.rc # 2

(* The inductive invariant: what each gate leaves to the steps after it.   *)
ControlInv == pc # "idle" => answer.cmd = "none" /\ tries >= 1
FilesInv ==
  pc \in AfterArtifacts => MissingFiles = {} /\ (partial = {} => MissingAudits = {})
JoinInv ==
  pc \in AfterSummary =>
    /\ FatalJoin => rc = 2
    /\ partial # {} => rc >= 1
    /\ rc = 0 => CleanJoin
GatesInv ==
  /\ pc \in AfterCuration /\ rc = 0 => CurationSettled
  /\ pc \in AfterSecurity /\ rc = 0 => ~critical
  /\ pc \in AfterWriting => report # 0
  /\ pc \in AfterRendering /\ rc = 0 => html # "failed"
Outcome == CleanRcMeansCompleteReport /\ FatalIsNeverDowngraded /\ LateAuditStaysPartial
IInv == TypeOK /\ ControlInv /\ FilesInv /\ JoinInv /\ GatesInv /\ Outcome

LEMMA ContentTypes ==
  TypeOK => /\ timings \in TimingsShapes
            /\ summary \in SummaryShapes
            /\ manifest \in ManifestShapes
            /\ IsFiniteSet(RejectedAudits)
            /\ Cardinality(RejectedAudits) \in Nat
<1> SUFFICES ASSUME TypeOK
             PROVE  /\ timings \in TimingsShapes
                    /\ summary \in SummaryShapes
                    /\ manifest \in ManifestShapes
                    /\ IsFiniteSet(RejectedAudits)
                    /\ Cardinality(RejectedAudits) \in Nat
  OBVIOUS
<1>1. timings \in TimingsShapes
  BY TimingsAreTimings DEF TypeOK
<1>2. summary \in SummaryShapes
  BY SummariesAreSummaries DEF TypeOK
<1>3. manifest \in ManifestShapes
  BY ManifestsAreManifests DEF TypeOK
<1>4. RejectedAudits \subseteq Audits
  BY <1>1 DEF RejectedAudits, TimingsShapes
<1>5. IsFiniteSet(RejectedAudits)
  BY <1>4, AuditsAreFinite, FS_Subset
<1>6. Cardinality(RejectedAudits) \in Nat
  BY <1>5, FS_CardinalityType
<1> QED
  BY <1>1, <1>2, <1>3, <1>5, <1>6

\* What applicable_summary_rc answers.
LEMMA ApplicableRc ==
  TypeOK => /\ \A more : ApplicableSummaryRc(more) \in 0 .. 2
            /\ FatalJoin => ApplicableSummaryRc(timings.records) = 2
            /\ ApplicableSummaryRc(timings.records) = 0 => CleanJoin
<1> SUFFICES ASSUME TypeOK
             PROVE  /\ \A more : ApplicableSummaryRc(more) \in 0 .. 2
                    /\ FatalJoin => ApplicableSummaryRc(timings.records) = 2
                    /\ ApplicableSummaryRc(timings.records) = 0 => CleanJoin
  OBVIOUS
<1>1. EmptyRecordsRc \in {0, 1}
  BY DEF EmptyRecordsRc
<1>2. \A more : ApplicableSummaryRc(more) \in 0 .. 2
  BY <1>1 DEF ApplicableSummaryRc
<1>3. FatalJoin => ApplicableSummaryRc(timings.records) = 2
  BY DEF ApplicableSummaryRc, FatalJoin
<1>4. ASSUME ApplicableSummaryRc(timings.records) = 0
      PROVE  CleanJoin
  <2>1. summary.rc # 2 /\ Plain("fatal") \notin JoinRecords(timings.records)
    BY <1>4 DEF ApplicableSummaryRc
  <2>2. \A r \in JoinRecords(timings.records) : Nonblocking(r)
    BY <1>4 DEF ApplicableSummaryRc
  <2>3. ASSUME NEW k \in {"fatal", "failed", "text"}
        PROVE  ~Nonblocking(Plain(k))
    <3>1. Plain(k).kind = k
      BY DEF Plain
    <3>2. \A b : Recovered(b).kind = "recovered"
      BY DEF Recovered
    <3>3. \A s : Truncated(s).kind = "truncated"
      BY DEF Truncated
    <3>4. \A r \in Facts : r.kind \in {"external", "optional"}
      BY DEF Facts, Plain
    <3> QED
      BY <3>1, <3>2, <3>3, <3>4 DEF Nonblocking
  <2>4. JoinRecords(timings.records) \cap {Plain(k) : k \in {"fatal", "failed", "text"}} = {}
    BY <2>2, <2>3
  <2>5. ASSUME NEW s \in Audits, Truncated(s) \in JoinRecords(timings.records)
        PROVE  audit[s] = "valid"
    <3>1. Nonblocking(Truncated(s))
      BY <2>2, <2>5
    <3>2. Truncated(s).kind = "truncated" /\ Truncated(s).of = s
      BY DEF Truncated
    <3>3. \A b : Recovered(b).kind = "recovered"
      BY DEF Recovered
    <3>4. \A r \in Facts : r.kind \in {"external", "optional"}
      BY DEF Facts, Plain
    <3>5. \A t : Truncated(t).of = t
      BY DEF Truncated
    <3> QED
      BY <3>1, <3>2, <3>3, <3>4, <3>5 DEF Nonblocking
  <2> QED
    BY <2>1, <2>4, <2>5 DEF CleanJoin
<1> QED
  BY <1>2, <1>3, <1>4

-----------------------------------------------------------------------------
(* Type correctness.                                                       *)

LEMMA TypeInit == Init => TypeOK
<1> SUFFICES ASSUME Init PROVE TypeOK
  OBVIOUS
<1>1. audit \in [Audits -> AuditShapes]
  BY DEF Init, AuditShapes
<1>2. answer \in Answers
  BY DEF Init, NoAnswer, Answers
<1>3. gates \in GateFiles
  BY DEF Init, NoGates, GateFiles
<1> QED
  BY <1>1, <1>2, <1>3 DEF Init, TypeOK

LEMMA AnswerRecords ==
  /\ NoAnswer \in Answers
  /\ \A cmd \in {"none", "prep", "assemble", "killed"}, code \in 0 .. 2,
        gate \in {"none", "draft", "artifacts", "curation", "marker", "raised"} :
       [cmd |-> cmd, rc |-> code, gate |-> gate] \in Answers
BY DEF NoAnswer, Answers

LEMMA GateRecords ==
  \A t \in Nat, code \in 0 .. 2 : [try |-> t, rc |-> code, artifacts |-> "pass"] \in GateFiles
BY DEF GateFiles

LEMMA TypeNext == TypeOK /\ [Next]_vars => TypeOK'
<1> SUFFICES ASSUME TypeOK, [Next]_vars PROVE TypeOK'
  OBVIOUS
<1> USE DEF Goto
<1>1. CASE \E b \in Branches : BranchWrites(b)
  <2>1. PICK b \in Branches : BranchWrites(b)
    BY <1>1
  <2>2. file' \in [Branches \cup {Summary} -> Shapes]
    BY <2>1 DEF BranchWrites, TypeOK, Shapes
  <2> QED
    BY <2>1, <2>2 DEF BranchWrites, TypeOK, contents, outputs, locals
<1>2. CASE \E s \in Audits : AuditWrites(s)
  <2>1. PICK s \in Audits : AuditWrites(s)
    BY <1>2
  <2>2. audit' \in [Audits -> AuditShapes]
    BY <2>1 DEF AuditWrites, TypeOK, AuditShapes
  <2> QED
    BY <2>1, <2>2 DEF AuditWrites, TypeOK, contents, outputs, locals
<1>3. CASE PrepStarts
  <2>1. answer' \in Answers /\ pc' \in {"idle", "drafting"}
    BY <1>3, AnswerRecords DEF PrepStarts, Answer
  <2>2. tries' \in Nat /\ killed' \subseteq Nat
    BY <1>3 DEF PrepStarts, TypeOK, locals
  <2> QED
    BY <1>3, <2>1, <2>2 DEF PrepStarts, TypeOK, PrepSteps, workers, contents, outputs, locals
<1>4. CASE DraftWritten
  BY <1>4 DEF DraftWritten, TypeOK, PrepSteps, workers, contents, locals
<1>5. CASE PrepGate
  <2>1. answer' \in Answers /\ pc' \in {"idle", "prepRc"}
    BY <1>5, AnswerRecords DEF PrepGate, Answer, TypeOK
  <2> QED
    BY <1>5, <2>1 DEF PrepGate, TypeOK, PrepSteps, workers, contents, outputs, locals
<1>6. CASE PrepRc
  <2>1. answer' \in Answers /\ pc' = "idle"
    BY <1>6, ApplicableRc, AnswerRecords DEF PrepRc, Answer
  <2> QED
    BY <1>6, <2>1 DEF PrepRc, TypeOK, workers, contents, outputs, locals
<1>7. CASE AssembleStarts
  <2>1. answer' \in Answers /\ pc' \in {"idle", "artifacts"}
    BY <1>7, AnswerRecords DEF AssembleStarts, Refuse, Answer
  <2>2. tries' \in Nat /\ killed' \subseteq Nat
    BY <1>7 DEF AssembleStarts, TypeOK
  <2> QED
    BY <1>7, <2>1, <2>2 DEF AssembleStarts, TypeOK, AssembleSteps, workers, contents, outputs
<1>8. CASE ArtifactGate
  <2>1. answer' \in Answers /\ pc' \in {"idle", "summary"}
    BY <1>8, AnswerRecords DEF ArtifactGate, Refuse, Answer, TypeOK
  <2>2. MissingAudits \in SUBSET Audits
    BY ContentTypes DEF MissingAudits, TimingsShapes
  <2>3. partial' \in SUBSET Audits /\ rc' \in 0 .. 2 /\ partials' \in Nat /\ rejects' \in Nat
    BY <1>8, <2>2, ContentTypes DEF ArtifactGate, TypeOK
  <2> QED
    BY <1>8, <2>1, <2>3 DEF ArtifactGate, TypeOK, AssembleSteps, workers, contents
<1>9. CASE SummaryGate
  <2>1. rc' \in 0 .. 2
    BY <1>9, ApplicableRc DEF SummaryGate, AtLeast
  <2> QED
    BY <1>9, <2>1 DEF SummaryGate, TypeOK, AssembleSteps, workers, contents, outputs
<1>10. CASE CurationGate
  <2>1. /\ answer' \in Answers /\ pc' \in {"idle", "security"} /\ rc' \in 0 .. 2
    <3>1. CASE CurationVerdict = "fatal"
      BY <1>10, <3>1, AnswerRecords DEF CurationGate, Refuse, Answer, TypeOK
    <3>2. CASE CurationVerdict = "raised"
      BY <1>10, <3>2, AnswerRecords DEF CurationGate, Refuse, Answer, TypeOK
    <3>3. CASE CurationVerdict \notin {"fatal", "raised"}
      BY <1>10, <3>3 DEF CurationGate, AtLeast, TypeOK
    <3> QED
      BY <3>1, <3>2, <3>3
  <2> QED
    BY <1>10, <2>1 DEF CurationGate, TypeOK, AssembleSteps, workers, contents, outputs
<1>11. CASE SecurityGate
  <2>1. rc' \in 0 .. 2
    BY <1>11 DEF SecurityGate, AtLeast, TypeOK
  <2> QED
    BY <1>11, <2>1 DEF SecurityGate, TypeOK, AssembleSteps, workers, contents, outputs
<1>12. CASE Marker
  <2>1. answer' \in Answers /\ pc' \in {"idle", "writing"}
    BY <1>12, AnswerRecords DEF Marker, Refuse, Answer, TypeOK
  <2> QED
    BY <1>12, <2>1 DEF Marker, TypeOK, AssembleSteps, workers, contents, outputs, locals
<1>13. CASE WriteReport
  BY <1>13 DEF WriteReport, TypeOK, AssembleSteps, workers, contents, locals
<1>14. CASE ConsumeDraft
  BY <1>14 DEF ConsumeDraft, TypeOK, AssembleSteps, workers, contents, locals
<1>15. CASE RenderHtml
  <2>1. rc' \in 0 .. 2
    BY <1>15 DEF RenderHtml, AtLeast, TypeOK
  <2> QED
    BY <1>15, <2>1 DEF RenderHtml, TypeOK, AssembleSteps, workers, contents, outputs
<1>16. CASE PersistGates
  <2>1. answer' \in Answers /\ pc' = "idle"
    BY <1>16, AnswerRecords DEF PersistGates, Answer, TypeOK
  <2>2. gates' \in GateFiles
    BY <1>16, GateRecords DEF PersistGates, TypeOK
  <2> QED
    BY <1>16, <2>1, <2>2 DEF PersistGates, TypeOK, workers, contents, locals
<1>17. CASE Kill
  <2>1. answer' \in Answers /\ pc' = "idle" /\ draft' \in {"absent", "torn", "whole"}
    BY <1>17, AnswerRecords DEF Kill, Answer, TypeOK
  <2> QED
    BY <1>17, <2>1 DEF Kill, TypeOK, workers, contents
<1>18. CASE UNCHANGED vars
  BY <1>18 DEF vars, TypeOK, workers, contents, outputs, locals
<1> QED
  BY <1>1, <1>2, <1>3, <1>4, <1>5, <1>6, <1>7, <1>8, <1>9, <1>10, <1>11, <1>12, <1>13,
     <1>14, <1>15, <1>16, <1>17, <1>18
     DEF Next, Prep, Assemble, Workers, Gates, Output

\* Every state has its type: the exit codes stay in 0..2, counters are naturals.
THEOREM TypeCorrect == Spec => []TypeOK
<1>1. Init => TypeOK
  BY TypeInit
<1>2. TypeOK /\ [Next]_vars => TypeOK'
  BY TypeNext
<1> QED
  BY <1>1, <1>2, PTL DEF Spec

-----------------------------------------------------------------------------
(* The gates, one step at a time.                                          *)

LEMMA InvInit == Init => IInv
<1> SUFFICES ASSUME Init PROVE IInv
  OBVIOUS
<1>1. TypeOK
  BY TypeInit
<1>2. pc = "idle" /\ answer = NoAnswer
  BY DEF Init
<1> QED
  BY <1>1, <1>2
     DEF IInv, ControlInv, FilesInv, JoinInv, GatesInv, Outcome, NoAnswer, AfterArtifacts,
         AfterSummary, AfterCuration, AfterSecurity, AfterWriting, AfterRendering, Assembled,
         CleanRcMeansCompleteReport, FatalIsNeverDowngraded, LateAuditStaysPartial

\* Files only become valid, and nothing else the verdicts read changes.
LEMMA Monotone ==
  TypeOK /\ [Next]_vars =>
    /\ timings' = timings /\ summary' = summary /\ manifest' = manifest
    /\ signal' = signal /\ critical' = critical
    /\ \A f : file[f] = "valid" => file'[f] = "valid"
    /\ \A s : audit[s] = "valid" => audit'[s] = "valid"
<1> SUFFICES ASSUME TypeOK, [Next]_vars
             PROVE  /\ timings' = timings /\ summary' = summary /\ manifest' = manifest
                    /\ signal' = signal /\ critical' = critical
                    /\ \A f : file[f] = "valid" => file'[f] = "valid"
                    /\ \A s : audit[s] = "valid" => audit'[s] = "valid"
  OBVIOUS
<1>1. CASE \E b \in Branches : BranchWrites(b)
  BY <1>1 DEF BranchWrites, TypeOK, contents
<1>2. CASE \E s \in Audits : AuditWrites(s)
  BY <1>2 DEF AuditWrites, TypeOK, contents
<1>3. CASE Prep \/ Assemble \/ Kill \/ UNCHANGED vars
  BY <1>3 DEF Prep, Assemble, Gates, Output, PrepStarts, DraftWritten, PrepGate, PrepRc,
              AssembleStarts, ArtifactGate, SummaryGate, CurationGate, SecurityGate, Marker,
              WriteReport, ConsumeDraft, RenderHtml, PersistGates, Kill, vars, contents, workers
<1> QED
  BY <1>1, <1>2, <1>3 DEF Next, Workers

\* Hence a verdict that was favourable stays so.
LEMMA VerdictsLast ==
  TypeOK /\ [Next]_vars =>
    /\ MissingFiles = {} => MissingFiles' = {}
    /\ MissingAudits = {} => MissingAudits' = {}
    /\ CleanJoin => CleanJoin'
    /\ FatalJoin' = FatalJoin
    /\ CurationSettled' = CurationSettled
<1> SUFFICES ASSUME TypeOK, [Next]_vars
             PROVE  /\ MissingFiles = {} => MissingFiles' = {}
                    /\ MissingAudits = {} => MissingAudits' = {}
                    /\ CleanJoin => CleanJoin'
                    /\ FatalJoin' = FatalJoin
                    /\ CurationSettled' = CurationSettled
  OBVIOUS
<1>1. MissingFiles = {} => MissingFiles' = {}
  BY Monotone DEF MissingFiles, RequiredFiles
<1>2. MissingAudits = {} => MissingAudits' = {}
  BY Monotone DEF MissingAudits
<1>3. JoinRecords(timings.records)' = JoinRecords(timings.records)
  BY Monotone DEF JoinRecords
<1>4. CleanJoin => CleanJoin'
  BY <1>3, Monotone DEF CleanJoin
<1>5. FatalJoin' = FatalJoin
  BY <1>3, Monotone DEF FatalJoin
<1>6. CurationSettled' = CurationSettled
  BY Monotone DEF CurationSettled
<1> QED
  BY <1>1, <1>2, <1>4, <1>5, <1>6

\* Nothing is answered while a command runs.
LEMMA ControlNext == IInv /\ [Next]_vars => ControlInv'
<1> SUFFICES ASSUME IInv, [Next]_vars PROVE ControlInv'
  OBVIOUS
<1> USE DEF IInv, ControlInv, TypeOK, Goto, Answer, Refuse
<1>1. CASE Workers \/ UNCHANGED vars
  BY <1>1 DEF Workers, BranchWrites, AuditWrites, vars, outputs
<1>2. CASE Prep
  BY <1>2 DEF Prep, PrepStarts, DraftWritten, PrepGate, PrepRc, NoAnswer
<1>3. CASE AssembleStarts
  BY <1>3 DEF AssembleStarts, NoAnswer
<1>4. CASE Gates
  BY <1>4 DEF Gates, ArtifactGate, SummaryGate, CurationGate, SecurityGate, Marker
<1>5. CASE Output \/ Kill
  BY <1>5 DEF Output, WriteReport, ConsumeDraft, RenderHtml, PersistGates, Kill
<1> QED
  BY <1>1, <1>2, <1>3, <1>4, <1>5 DEF Next, Assemble

\* The artifact gate lets through only complete inputs or missing audits.
LEMMA FilesNext == IInv /\ [Next]_vars => FilesInv'
<1> SUFFICES ASSUME IInv, [Next]_vars PROVE FilesInv'
  OBVIOUS
<1>0. /\ MissingFiles = {} => MissingFiles' = {}
      /\ MissingAudits = {} => MissingAudits' = {}
      /\ FilesInv
  BY VerdictsLast DEF IInv
<1> USE DEF FilesInv, AfterArtifacts, AfterSummary, AfterCuration, AfterSecurity, AfterWriting,
            AfterRendering, Goto, Answer, Refuse
<1>1. CASE Workers \/ UNCHANGED vars
  BY <1>0, <1>1 DEF Workers, BranchWrites, AuditWrites, vars, locals
<1>2. CASE Prep
  BY <1>0, <1>2 DEF Prep, PrepStarts, DraftWritten, PrepGate, PrepRc
<1>3. CASE AssembleStarts
  BY <1>3 DEF AssembleStarts
<1>4. CASE ArtifactGate
  BY <1>0, <1>4 DEF ArtifactGate
<1>5. CASE SummaryGate
  BY <1>0, <1>5 DEF SummaryGate
<1>6. CASE CurationGate
  BY <1>0, <1>6 DEF CurationGate
<1>7. CASE SecurityGate
  BY <1>0, <1>7 DEF SecurityGate
<1>8. CASE Marker
  BY <1>0, <1>8 DEF Marker, locals
<1>9. CASE WriteReport \/ ConsumeDraft
  BY <1>0, <1>9 DEF WriteReport, ConsumeDraft, locals
<1>10. CASE RenderHtml \/ PersistGates \/ Kill
  BY <1>0, <1>10 DEF RenderHtml, PersistGates, Kill
<1> QED
  BY <1>1, <1>2, <1>3, <1>4, <1>5, <1>6, <1>7, <1>8, <1>9, <1>10
     DEF Next, Assemble, Gates, Output

\* After the summary gate the exit code remembers fatal and failed records
\* and the "JOIN partiel" warning; later gates can only raise it.
LEMMA JoinNext == IInv /\ [Next]_vars => JoinInv'
<1> SUFFICES ASSUME IInv, [Next]_vars PROVE JoinInv'
  OBVIOUS
<1>0. /\ CleanJoin => CleanJoin'
      /\ FatalJoin' = FatalJoin
      /\ JoinInv /\ rc \in 0 .. 2
  BY VerdictsLast DEF IInv, TypeOK
<1> USE DEF JoinInv, AfterSummary, AfterCuration, AfterSecurity, AfterWriting,
            AfterRendering, Goto, Answer, Refuse
<1>1. CASE Workers \/ UNCHANGED vars
  BY <1>0, <1>1 DEF Workers, BranchWrites, AuditWrites, vars, locals
<1>2. CASE Prep
  BY <1>0, <1>2 DEF Prep, PrepStarts, DraftWritten, PrepGate, PrepRc
<1>3. CASE AssembleStarts \/ ArtifactGate
  BY <1>3 DEF AssembleStarts, ArtifactGate
<1>4. CASE SummaryGate
  <2>1. ApplicableSummaryRc(timings.records) \in 0 .. 2
    BY ApplicableRc DEF IInv
  <2>2. FatalJoin => ApplicableSummaryRc(timings.records) = 2
    BY ApplicableRc DEF IInv
  <2>3. ApplicableSummaryRc(timings.records) = 0 => CleanJoin
    BY ApplicableRc DEF IInv
  <2>4. FatalJoin' => rc' = 2
    BY <1>0, <1>4, <2>2 DEF SummaryGate, AtLeast
  <2>5. partial' # {} => rc' >= 1
    BY <1>4, <2>1 DEF SummaryGate, AtLeast
  <2>6. rc' = 0 => CleanJoin'
    BY <1>0, <1>4, <2>1, <2>3 DEF SummaryGate, AtLeast
  <2> QED
    BY <2>4, <2>5, <2>6
<1>5. CASE CurationGate
  BY <1>0, <1>5 DEF CurationGate, AtLeast
<1>6. CASE SecurityGate
  BY <1>0, <1>6 DEF SecurityGate, AtLeast
<1>7. CASE Marker
  BY <1>0, <1>7 DEF Marker, locals
<1>8. CASE WriteReport \/ ConsumeDraft
  BY <1>0, <1>8 DEF WriteReport, ConsumeDraft, locals
<1>9. CASE RenderHtml
  BY <1>0, <1>9 DEF RenderHtml, AtLeast
<1>10. CASE PersistGates \/ Kill
  BY <1>10 DEF PersistGates, Kill
<1> QED
  BY <1>1, <1>2, <1>3, <1>4, <1>5, <1>6, <1>7, <1>8, <1>9, <1>10
     DEF Next, Assemble, Gates, Output

LEMMA GatesNext == IInv /\ [Next]_vars => GatesInv'
<1> SUFFICES ASSUME IInv, [Next]_vars PROVE GatesInv'
  OBVIOUS
<1>0. /\ CurationSettled' = CurationSettled
      /\ critical' = critical
      /\ GatesInv /\ rc \in 0 .. 2 /\ tries \in Nat
      /\ pc # "idle" => tries >= 1
  BY VerdictsLast, Monotone DEF IInv, TypeOK, ControlInv
<1> USE DEF GatesInv, AfterCuration, AfterSecurity, AfterWriting, AfterRendering,
            Goto, Answer, Refuse
<1>1. CASE Workers \/ UNCHANGED vars
  BY <1>0, <1>1 DEF Workers, BranchWrites, AuditWrites, vars, outputs, locals
<1>2. CASE Prep
  BY <1>0, <1>2 DEF Prep, PrepStarts, DraftWritten, PrepGate, PrepRc
<1>3. CASE AssembleStarts \/ ArtifactGate \/ SummaryGate
  BY <1>3 DEF AssembleStarts, ArtifactGate, SummaryGate
<1>4. CASE CurationGate
  <2>1. manifest.state \in {"absent", "unreadable", "malformed", "present"}
          /\ manifest.rc \in 0 .. 2
    BY ContentTypes DEF IInv, ManifestShapes
  <2>2. CurationVerdict = "clean" => CurationSettled \/ CurationMissing
    <3>1. ASSUME manifest.state \in {"unreadable", "malformed"} \/ manifest.rc = 2
          PROVE  CurationVerdict # "clean"
      <4>1. CurationVerdict = "fatal"
        BY <3>1 DEF CurationVerdict
      <4> QED
        BY <4>1
    <3>2. ASSUME ~(manifest.state \in {"unreadable", "malformed"} \/ manifest.rc = 2),
                 manifest.mode # "dry-run",
                 manifest.rc = 1 \/ manifest.refusals = "plain"
          PROVE  CurationVerdict # "clean"
      <4>1. CurationVerdict \in {"raised", "refused"}
        BY <3>2 DEF CurationVerdict
      <4> QED
        BY <4>1
    <3>3. manifest.rc # 1 /\ manifest.rc # 2 => manifest.rc = 0
      BY <2>1
    <3> QED
      BY <3>1, <3>2, <3>3 DEF CurationSettled, CurationMissing
  <2>3. pc' = "security" /\ rc' = 0 => CurationSettled
    BY <1>0, <1>4, <2>2 DEF CurationGate, AtLeast
  <2>4. pc' \in {"idle", "security"}
    BY <1>4 DEF CurationGate
  <2> QED
    BY <1>0, <2>3, <2>4
<1>5. CASE SecurityGate
  BY <1>0, <1>5 DEF SecurityGate, AtLeast
<1>6. CASE Marker
  BY <1>0, <1>6 DEF Marker, locals
<1>7. CASE WriteReport
  BY <1>0, <1>7 DEF WriteReport, locals
<1>8. CASE ConsumeDraft
  BY <1>0, <1>8 DEF ConsumeDraft, locals
<1>9. CASE RenderHtml
  BY <1>0, <1>9 DEF RenderHtml, AtLeast, outputs
<1>10. CASE PersistGates \/ Kill
  BY <1>10 DEF PersistGates, Kill
<1> QED
  BY <1>1, <1>2, <1>3, <1>4, <1>5, <1>6, <1>7, <1>8, <1>9, <1>10
     DEF Next, Assemble, Gates, Output

\* The answer sums the gates up, and no later write of a worker undoes it.
LEMMA OutcomeNext == IInv /\ [Next]_vars => Outcome'
<1> SUFFICES ASSUME IInv, [Next]_vars PROVE Outcome'
  OBVIOUS
<1>0. /\ MissingFiles = {} => MissingFiles' = {}
      /\ MissingAudits = {} => MissingAudits' = {}
      /\ CleanJoin => CleanJoin'
      /\ FatalJoin' = FatalJoin
      /\ CurationSettled' = CurationSettled
      /\ critical' = critical
  BY VerdictsLast, Monotone DEF IInv
<1> DEFINE Clean == /\ report # 0 /\ MissingFiles = {} /\ MissingAudits = {}
                    /\ CleanJoin /\ CurationSettled /\ ~critical /\ html # "failed"
<1>1. /\ CleanRcMeansCompleteReport <=> (answer.cmd = "assemble" /\ answer.rc = 0 => Clean)
      /\ FatalIsNeverDowngraded <=> (answer.cmd = "assemble" /\ FatalJoin => answer.rc = 2)
  BY DEF CleanRcMeansCompleteReport, FatalIsNeverDowngraded, CleanJoin, FatalJoin
<1>2. /\ CleanRcMeansCompleteReport' <=> (answer'.cmd = "assemble" /\ answer'.rc = 0 => Clean')
      /\ FatalIsNeverDowngraded' <=> (answer'.cmd = "assemble" /\ FatalJoin' => answer'.rc = 2)
  BY DEF CleanRcMeansCompleteReport, FatalIsNeverDowngraded, CleanJoin, FatalJoin
<1>4. ASSUME answer' = answer, report' = report, html' = html, partial' = partial
      PROVE  Outcome'
  BY <1>0, <1>1, <1>2, <1>4 DEF IInv, Outcome, LateAuditStaysPartial, Assembled
<1>5. ASSUME answer'.cmd # "assemble"
      PROVE  Outcome'
  BY <1>2, <1>5 DEF Outcome, LateAuditStaysPartial, Assembled
<1>6. ASSUME NEW gate \in {"draft", "artifacts", "curation", "marker", "raised"},
             Answer("assemble", 2, gate)
      PROVE  Outcome'
  BY <1>2, <1>6 DEF Outcome, LateAuditStaysPartial, Assembled, Answer
<1>7. ASSUME pc # "idle", answer' = answer
      PROVE  Outcome'
  BY <1>5, <1>7 DEF IInv, ControlInv
<1> USE DEF Goto
<1>8. CASE Workers \/ UNCHANGED vars
  BY <1>4, <1>8 DEF Workers, BranchWrites, AuditWrites, vars, outputs, locals
<1>9. CASE PrepStarts
  BY <1>5, <1>9 DEF PrepStarts, NoAnswer, Answer
<1>10. CASE DraftWritten
  BY <1>7, <1>10 DEF DraftWritten
<1>11. CASE PrepGate
  BY <1>5, <1>7, <1>11 DEF PrepGate, Answer
<1>12. CASE PrepRc \/ Kill
  BY <1>5, <1>12 DEF PrepRc, Kill, Answer
<1>13. CASE AssembleStarts
  BY <1>5, <1>6, <1>13 DEF AssembleStarts, NoAnswer, Refuse
<1>14. CASE ArtifactGate
  BY <1>6, <1>7, <1>14 DEF ArtifactGate, Refuse
<1>15. CASE SummaryGate \/ SecurityGate \/ WriteReport \/ ConsumeDraft \/ RenderHtml
  BY <1>7, <1>15 DEF SummaryGate, SecurityGate, WriteReport, ConsumeDraft, RenderHtml
<1>16. CASE CurationGate
  BY <1>6, <1>7, <1>16 DEF CurationGate, Refuse
<1>17. CASE Marker
  BY <1>6, <1>7, <1>17 DEF Marker, Refuse
<1>18. CASE PersistGates
  <2>1. /\ pc \in AfterArtifacts /\ pc \in AfterSummary /\ pc \in AfterCuration
        /\ pc \in AfterSecurity /\ pc \in AfterWriting /\ pc \in AfterRendering
    BY <1>18 DEF PersistGates, AfterArtifacts, AfterSummary, AfterCuration, AfterSecurity,
                 AfterWriting, AfterRendering
  <2>2. /\ FatalJoin => rc = 2
        /\ partial # {} => rc >= 1
        /\ rc = 0 => Clean
    BY <2>1 DEF IInv, FilesInv, JoinInv, GatesInv
  <2>3. answer'.cmd = "assemble" /\ answer'.rc = rc /\ report' = report
          /\ html' = html /\ partial' = partial
    BY <1>18 DEF PersistGates, Answer, locals
  <2> QED
    BY <1>0, <1>2, <2>2, <2>3 DEF Outcome, LateAuditStaysPartial
<1> QED
  BY <1>8, <1>9, <1>10, <1>11, <1>12, <1>13, <1>14, <1>15, <1>16, <1>17, <1>18
     DEF Next, Prep, Assemble, Gates, Output

LEMMA Inductive == Spec => []IInv
<1>1. Init => IInv
  BY InvInit
<1>2. IInv /\ [Next]_vars => IInv'
  BY TypeNext, ControlNext, FilesNext, JoinNext, GatesNext, OutcomeNext DEF IInv
<1> QED
  BY <1>1, <1>2, PTL DEF Spec

\* A clean exit stands on complete inputs, whatever arrived late.
THEOREM CleanExitIsComplete == Spec => []CleanRcMeansCompleteReport
<1>1. IInv => CleanRcMeansCompleteReport
  BY DEF IInv, Outcome
<1> QED
  BY <1>1, Inductive, PTL

\* A fatal record or summary always ends in rc 2.
THEOREM FatalStaysFatal == Spec => []FatalIsNeverDowngraded
<1>1. IInv => FatalIsNeverDowngraded
  BY DEF IInv, Outcome
<1> QED
  BY <1>1, Inductive, PTL

\* A report announced as partial never answers rc 0.
THEOREM PartialStaysPartial == Spec => []LateAuditStaysPartial
<1>1. IInv => LateAuditStaysPartial
  BY DEF IInv, Outcome
<1> QED
  BY <1>1, Inductive, PTL

-----------------------------------------------------------------------------
(* What a command leaves behind: the gates file beside its report, or the  *)
(* draft when it was refused.                                              *)

GateFileInv ==
  /\ gates.try <= report /\ report <= tries
  /\ pc \in AfterWriting => report = tries
  /\ pc \notin AfterWriting /\ report \notin killed => gates.try = report
  /\ Assembled => gates.rc = answer.rc
DraftInv ==
  /\ pc \in AssembleSteps \ AfterWriting => draft # "absent"
  /\ pc = "consuming" => draft # "absent"
  /\ RefusedAssembleKeepsDraft
LeftInv == GateFileInv /\ DraftInv

LEMMA LeftInit == Init => LeftInv
  BY DEF Init, LeftInv, GateFileInv, DraftInv, NoGates, NoAnswer, Assembled, RefusedAssembleKeepsDraft,
         AssembleSteps, AfterWriting, AfterRendering

LEMMA GateFileNext == IInv /\ GateFileInv /\ [Next]_vars => GateFileInv'
<1> SUFFICES ASSUME IInv, GateFileInv, [Next]_vars PROVE GateFileInv'
  OBVIOUS
<1>0. report \in Nat /\ tries \in Nat /\ gates.try \in Nat
  BY DEF IInv, TypeOK, GateFiles
<1> DEFINE Quiet == pc' \notin AfterWriting /\ pc \notin AfterWriting
                      /\ UNCHANGED <<report, gates>> /\ tries' >= tries /\ tries' \in Nat /\ killed \subseteq killed'
<1>1. ASSUME UNCHANGED <<pc, report, gates, tries, killed, answer>> PROVE GateFileInv'
  BY <1>1 DEF GateFileInv, Assembled
<1>2. ASSUME Quiet, ~Assembled' PROVE GateFileInv'
  BY <1>0, <1>2 DEF GateFileInv
<1>3. pc # "idle" => ~Assembled
  BY DEF IInv, ControlInv, Assembled
<1>4. CASE Workers \/ UNCHANGED vars
  BY <1>1, <1>4 DEF Workers, BranchWrites, AuditWrites, vars, outputs, locals
<1> USE DEF Goto, Answer, Refuse, AfterWriting, AfterRendering
<1>5. CASE Prep
  <2>1. Quiet
    BY <1>0, <1>5 DEF Prep, PrepStarts, DraftWritten, PrepGate, PrepRc, outputs, locals
  <2>2. answer'.cmd # "assemble"
    BY <1>5 DEF Prep, PrepStarts, DraftWritten, PrepGate, PrepRc, NoAnswer, IInv, ControlInv
  <2> QED
    BY <1>2, <2>1, <2>2 DEF Assembled
<1>6. CASE AssembleStarts \/ Gates
  <2>1. Quiet
    BY <1>0, <1>6 DEF Gates, AssembleStarts, ArtifactGate, SummaryGate, CurationGate, SecurityGate, Marker,
                      outputs, locals
  <2>2. ~Assembled'
    BY <1>3, <1>6 DEF Gates, AssembleStarts, ArtifactGate, SummaryGate, CurationGate, SecurityGate, Marker,
                      Assembled, NoAnswer
  <2> QED
    BY <1>2, <2>1, <2>2
<1>7. CASE WriteReport
  BY <1>0, <1>3, <1>7 DEF WriteReport, GateFileInv, Assembled, locals
<1>8. CASE ConsumeDraft
  BY <1>3, <1>8 DEF ConsumeDraft, GateFileInv, Assembled, locals
<1>9. CASE RenderHtml
  BY <1>3, <1>9 DEF RenderHtml, GateFileInv, Assembled, outputs
<1>10. CASE PersistGates
  <2>1. MissingFiles = {}
    BY <1>10 DEF PersistGates, IInv, FilesInv, AfterArtifacts, AfterSummary, AfterCuration, AfterSecurity
  <2>2. gates' = [try |-> tries, rc |-> rc, artifacts |-> "pass"]
    BY <1>10, <2>1 DEF PersistGates, MissingFiles, RequiredFiles
  <2>3. report = tries /\ UNCHANGED <<report, tries, killed>> /\ pc' = "idle" /\ answer'.rc = rc
    BY <1>10 DEF PersistGates, GateFileInv, locals
  <2> QED
    BY <1>0, <2>2, <2>3 DEF GateFileInv
<1>11. CASE Kill
  <2>1. /\ UNCHANGED <<report, gates, tries>> /\ pc' = "idle" /\ answer'.cmd = "killed"
        /\ killed' = killed \cup {tries}
    BY <1>11 DEF Kill
  <2> QED
    BY <2>1 DEF GateFileInv, Assembled
<1> QED
  BY <1>4, <1>5, <1>6, <1>7, <1>8, <1>9, <1>10, <1>11 DEF Next, Assemble, Output

LEMMA DraftNext == IInv /\ DraftInv /\ [Next]_vars => DraftInv'
<1> SUFFICES ASSUME IInv, DraftInv, [Next]_vars PROVE DraftInv'
  OBVIOUS
<1> USE DEF Goto, Answer, Refuse, AssembleSteps, AfterWriting, AfterRendering
<1>1. CASE Workers \/ UNCHANGED vars
  BY <1>1 DEF Workers, BranchWrites, AuditWrites, vars, outputs, DraftInv, RefusedAssembleKeepsDraft
<1>2. ASSUME answer'.cmd # "assemble", pc' \in {"idle"} \cup PrepSteps PROVE DraftInv'
  BY <1>2 DEF DraftInv, RefusedAssembleKeepsDraft, PrepSteps
<1>3. CASE Prep
  BY <1>2, <1>3 DEF Prep, PrepStarts, DraftWritten, PrepGate, PrepRc, NoAnswer, IInv, ControlInv, PrepSteps
<1>4. CASE Kill
  BY <1>2, <1>4 DEF Kill
<1>5. CASE AssembleStarts
  BY <1>5 DEF AssembleStarts, NoAnswer, outputs, DraftInv, RefusedAssembleKeepsDraft
<1>6. CASE Gates \/ WriteReport
  <2>1. draft' = draft /\ draft # "absent"
    BY <1>6 DEF Gates, ArtifactGate, SummaryGate, CurationGate, SecurityGate, Marker, WriteReport,
                outputs, DraftInv
  <2> QED
    BY <2>1 DEF DraftInv, RefusedAssembleKeepsDraft
<1>7. CASE ConsumeDraft \/ RenderHtml
  BY <1>7 DEF ConsumeDraft, RenderHtml, DraftInv, RefusedAssembleKeepsDraft, IInv, ControlInv
<1>8. CASE PersistGates
  BY <1>8 DEF PersistGates, DraftInv, RefusedAssembleKeepsDraft
<1> QED
  BY <1>1, <1>3, <1>4, <1>5, <1>6, <1>7, <1>8 DEF Next, Assemble, Output

LEMMA LeftAlways == Spec => []LeftInv
<1>1. IInv /\ LeftInv /\ [Next]_vars => LeftInv'
  BY GateFileNext, DraftNext DEF LeftInv
<1> QED
  BY <1>1, LeftInit, Inductive, PTL DEF Spec

\* The gates file is never ahead of the report, and bears the rc of its command.
THEOREM GatesFileMatches == Spec => []GatesDescribeTheReport
<1>1. LeftInv => GatesDescribeTheReport
  BY DEF LeftInv, GateFileInv, GatesDescribeTheReport, AfterWriting, AfterRendering
<1> QED
  BY <1>1, LeftAlways, PTL

\* A refused assemble can be run again: no gate refuses after the draft is gone.
THEOREM RefusalsKeepDraft == Spec => []RefusedAssembleKeepsDraft
<1>1. LeftInv => RefusedAssembleKeepsDraft
  BY DEF LeftInv, DraftInv
<1> QED
  BY <1>1, LeftAlways, PTL
=============================================================================

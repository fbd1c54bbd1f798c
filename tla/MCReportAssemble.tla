-------------------------- MODULE MCReportAssemble --------------------------
EXTENDS ReportAssemble, TLC

NoTimings == [state |-> "absent", branches |-> {}, audits |-> {}, records |-> {}]
TornTimings == [NoTimings EXCEPT !.state = "broken"]
Declaring(branches, audits, records) ==
  [state |-> "present", branches |-> branches, audits |-> audits, records |-> records]

PlainSummary == [rc |-> 0, records |-> {}, inputs |-> "none"]
NoManifest == [state |-> "absent", mode |-> "apply", rc |-> 0, refusals |-> "none"]
DryRun == [NoManifest EXCEPT !.state = "present", !.mode = "dry-run"]
Applied == [NoManifest EXCEPT !.state = "present"]
AppliedOutside == [Applied EXCEPT !.refusals = "external"]
ApplyRefused == [Applied EXCEPT !.rc = 1, !.refusals = "plain"]

\* Every record, alone or beside the one of a truncated audit, with every declaration of
\* audits.
MCTimings ==
  {NoTimings, TornTimings} \cup
  {Declaring(branches, audits, records) :
     branches \in {Branches}, audits \in SUBSET Audits,
     records \in {{}} \cup {{r} : r \in Records}
       \cup {{Truncated(s), Plain("external")} : s \in Audits}}
MCSummaries ==
  {PlainSummary, [PlainSummary EXCEPT !.rc = 2], [PlainSummary EXCEPT !.records = {Plain("fatal")}],
   [PlainSummary EXCEPT !.rc = 1, !.inputs = "optional"]}
MCManifests ==
  {DryRun, AppliedOutside, ApplyRefused,
   [NoManifest EXCEPT !.state = "unreadable"], [Applied EXCEPT !.rc = 2]}
=============================================================================

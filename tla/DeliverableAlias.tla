-------------------------- MODULE DeliverableAlias --------------------------
(***************************************************************************)
(* What runs/current promises its readers (cron jobs, agents), whatever    *)
(* files and processes keep the promise: it follows the run in progress,   *)
(* only that run delivers, and once no run is in progress it designates    *)
(* the run that delivered last.                                            *)
(***************************************************************************)
CONSTANTS Runs, NoRun, RealEntry

VARIABLES alias,    \* the run shown, NoRun, or an entry that is no alias at all
          active,   \* the run in progress
          latest    \* the run that delivered last

vars == <<alias, active, latest>>

Shown(r) == IF alias = RealEntry THEN RealEntry ELSE r

Init == alias \in {NoRun, RealEntry} /\ active = NoRun /\ latest = NoRun

Begin(r) ==
  /\ active = NoRun
  /\ active' = r
  /\ UNCHANGED <<alias, latest>>

Show(r) ==
  /\ active = r
  /\ alias' = Shown(r)
  /\ UNCHANGED <<active, latest>>

Deliver(r) ==
  /\ active = r
  /\ alias = Shown(r)
  /\ latest' = r
  /\ UNCHANGED <<alias, active>>

\* While its run is in progress the alias may be out of sight for a moment.
Hide(r) ==
  /\ active = r
  /\ alias' = Shown(NoRun)
  /\ UNCHANGED <<active, latest>>

\* A run that fails shows the last deliverable again, or any run if there is none.
Withdraw(r) ==
  /\ active = r
  /\ \E q \in Runs : /\ latest \in {NoRun, q}
                     /\ alias' = Shown(q)
  /\ UNCHANGED <<active, latest>>

End(r) ==
  /\ active = r
  /\ alias \in {latest, RealEntry} \/ latest = NoRun
  /\ active' = NoRun
  /\ UNCHANGED <<alias, latest>>

Next == \E r \in Runs : Begin(r) \/ Show(r) \/ Deliver(r) \/ Hide(r) \/ Withdraw(r) \/ End(r)

Spec == Init /\ [][Next]_vars
=============================================================================

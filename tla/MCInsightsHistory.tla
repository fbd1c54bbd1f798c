--------------------------- MODULE MCInsightsHistory ---------------------------
(***************************************************************************)
(* A week from before run directories and up to three runs of two dates;   *)
(* weeks that load a skill or none, long or short, dear or cheap; rules    *)
(* that inherit, raise, loop or do not load.                               *)
(***************************************************************************)
EXTENDS InsightsHistory

CONSTANTS s1, alpha, beta, gamma, grep, bash

MCDates == 2..3
\* alpha is loaded in the busy weeks only; beta is pinned, gamma ignored.
Quiet == [hours |-> 7, cost |-> 4, zero |-> TRUE, never |-> {alpha, beta, gamma},
          catalog |-> {alpha, beta, gamma}, pins |-> {beta}, loops |-> (grep :> 3 @@ bash :> 8), similar |-> {alpha},
          costly |-> {grep}, active |-> 1, touched |-> 2]
Busy == [Quiet EXCEPT !.hours = 14, !.cost = 9, !.zero = FALSE, !.never = {beta, gamma}, !.active = 0,
                      !.loops = << >>]
MCSummaries == {Quiet, Busy}
MCDigests == {{bash}}
MCWeeks == {[summary |-> Quiet, digest |-> {bash}], [summary |-> Busy, digest |-> None]}
MCNothing == << >>
MCMigrated == <<[date |-> 0, summary |-> Quiet, digest |-> None]>>

Base == [id |-> "loop", extends |-> None, threshold |-> 3, ignore |-> None,
         scope |-> "tool_argument_loops", names |-> TRUE, state |-> "sound"]
Strict == [Base EXCEPT !.id = "strict", !.extends = "loop", !.threshold = None]
Stricter == [Strict EXCEPT !.id = "stricter", !.extends = "strict", !.names = FALSE]
Muted == [Strict EXCEPT !.id = "muted", !.ignore = {grep}]
Broken == [Base EXCEPT !.id = "broken", !.state = "raises"]
Spike == [Base EXCEPT !.id = "spike", !.threshold = 5, !.scope = "daily_spikes"]
MCRulebooks ==
  {<<Base, Strict, Stricter, Muted, Broken, Spike>>,
   <<[Base EXCEPT !.threshold = None], Strict, [Stricter EXCEPT !.threshold = 8]>>,
   <<Base, [Strict EXCEPT !.state = "malformed"]>>, <<[Base EXCEPT !.extends = "strict"], Strict>>}
MCOverrides == [r \in {"spike"} |-> 4]
MCIgnored == {<<"strict", grep>>, <<"muted", grep>>, <<"skill-maintenance", gamma>>}
MCExplicit == [date |-> 2, week |-> Quiet]
=============================================================================

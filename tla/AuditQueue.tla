----------------------------- MODULE AuditQueue -----------------------------
(***************************************************************************)
(* audit-candidates (candidates.py, cli_core.py, cli_watch.py): the        *)
(* sessions that a review audits, most urgent first, and those it hands    *)
(* over to the next review when there are more than its limit.             *)
(*                                                                         *)
(* A summary is a function from its sessions to rows [cost, top, facts]:   *)
(* a cost, a place in top_sessions_by_cost (0: none) and what makes the    *)
(* session worth an audit; sessions are numbered in the order of the rows. *)
(***************************************************************************)
EXTENDS Integers, FiniteSets, Sequences, SequencesExt, Orders

CONSTANTS
  Summaries,   \* [rows, workers]: what the collections may find
  Limit,       \* audit_max_sessions
  TopLimit,    \* top_sessions_limit
  CostMin,     \* cost of a session from which the lack of a specification counts
  Precision,   \* a score is rounded to one in so many: 10^6
  None,        \* no summary
  Place,       \* where the name of the directory of each review sorts in its day
  MaxReviews, MaxRuns, MaxBreaks \* bounds: reviews, commands, artifacts that break

ASSUME LimitsAreNaturals ==
  {Limit, TopLimit, MaxReviews, MaxRuns, MaxBreaks} \subseteq Nat /\ Precision \in Nat /\ Precision > 1
\* Directories are named after their date and eight random digits.
ASSUME NamesDiffer ==
  /\ Place \in [1 .. MaxReviews -> Nat]
  /\ \A r, q \in 1 .. MaxReviews : Place[r] = Place[q] => r = q
\* What a worker told of a session, and what a collection found of it.
Told == [session : Nat, rc : Int, truncated : BOOLEAN, status : STRING]
ASSUME SummariesAreTyped ==
  /\ None \notin Summaries
  /\ \A found \in Summaries :
       /\ IsFiniteSet(DOMAIN found.rows) /\ DOMAIN found.rows \subseteq Nat
       /\ \A s \in DOMAIN found.rows : found.rows[s].cost \in Nat
       /\ found.workers \in Seq(Told)

VARIABLES
  day, review, \* the date and the number of the review that runs
  dates,       \* the date of each review
  summary,     \* the summary of the review, or None
  artifact,    \* weekly-audit-candidates of each review
  alias,       \* the review that runs/current designates, 0 if there is no link
  former,      \* the one it designated when the review began
  answer,      \* of the last command
  runs, breaks,
  once,        \* ghost: every review had a date of its own
  audits       \* ghost: the sessions that some review audited

link == <<alias, former>>
vars == <<day, review, dates, summary, artifact, link, answer, runs, breaks, once, audits>>

-----------------------------------------------------------------------------
\* _SIGNAL_ORDER: the classes of signals, the most urgent first.
SignalOrder ==
  <<"top-cost", "cost-outlier", "loop", "cache-gap", "repeated-prompts", "code-non-relu",
    "maturity-F", "non-spec">>
\* _emit_signal_candidates, _add_classification_signals
Signals(row) ==
  (row.facts \cap {"cost-outlier", "repeated-prompts", "code-non-relu", "maturity-F"})
  \cup (IF row.top > 0 THEN row.facts \cap {"loop", "cache-gap"} ELSE {})
  \cup (IF row.top \in 1 .. TopLimit THEN {"top-cost"} ELSE {})
  \cup (IF "spec" \notin row.facts /\ row.cost >= CostMin THEN {"non-spec"} ELSE {})
Rank(row) ==
  CHOOSE i \in DOMAIN SignalOrder :
    SignalOrder[i] \in Signals(row) /\ \A j \in 1 .. i - 1 : SignalOrder[j] \notin Signals(row)
Detected(rows) == {s \in DOMAIN rows : Signals(rows[s]) # {}}
TotalCost(rows) == FoldSet(LAMBDA s, sum : rows[s].cost + sum, 0, Detected(rows))

\* Mutant: the cost weighs as much as the classes.
ScoreByCost(row, total) ==
  Precision * (Len(SignalOrder) - Rank(row)) + IF total = 0 THEN 0 ELSE (20 * Precision * row.cost) \div total
\* _score_and_sort: a class and half of the share of the cost, rounded.
Score(row, total) ==
  Precision * (Len(SignalOrder) - Rank(row))
    + IF total = 0 THEN 0 ELSE (Precision * row.cost + total) \div (2 * total)
\* _score_and_sort: the order of the rows last.
Urgency(rows) ==
  LET total == TotalCost(rows)
      score == [s \in Detected(rows) |-> Score(rows[s], total)] IN
  {p \in Detected(rows) \X Detected(rows) :
     score[p[1]] > score[p[2]] \/ (score[p[1]] = score[p[2]] /\ p[1] < p[2])}

\* _merge_worker_status: the worst code and any truncation stay, the first
\* status is kept.
Joined(a, b) ==
  [session |-> a.session, rc |-> IF a.rc > b.rc THEN a.rc ELSE b.rc,
   truncated |-> a.truncated \/ b.truncated,
   status |-> IF a.status = "" THEN b.status ELSE a.status]
NoOutcome(s) == [session |-> s, rc |-> 0, truncated |-> FALSE, status |-> ""]
Collected(s, workers) ==
  FoldLeft(LAMBDA told, w : IF w.session = s THEN Joined(told, w) ELSE told, NoOutcome(s), workers)
\* select_audit_candidates: one entry for a session, with what its worker told.
Entry(s, found) ==
  [session |-> s, cost |-> found.rows[s].cost, class |-> Rank(found.rows[s]), carried |-> FALSE,
   told |-> IF \E i \in DOMAIN found.workers : found.workers[i].session = s
            THEN {Collected(s, found.workers)} ELSE {}]
Selected(found) ==
  LET order == InOrder(Detected(found.rows), Urgency(found.rows)) IN
  [i \in DOMAIN order |-> Entry(order[i], found)]

\* Mutant: a later record tells the code of the session.
MergedLast(a, b) ==
  [Joined(a, b) EXCEPT !.rc = b.rc,
     !.status = IF a.status = "truncated" \/ b.status = "" THEN a.status ELSE b.status]
\* _merge_worker_record: the last status is kept, but for a truncation.
Merged(a, b) ==
  [Joined(a, b) EXCEPT
     !.status = IF a.status = "truncated" \/ b.status = "" THEN a.status ELSE b.status]
\* _deduplicate_worker_statuses: the workers of the summary, then the candidates.
Outcomes(workers, queue) ==
  LET told == {workers[i].session : i \in DOMAIN workers}
      waiting == UNION {queue[i].told : i \in DOMAIN queue} IN
  [s \in told \cup {w.session : w \in waiting} |->
     LET own == FoldLeft(LAMBDA seen, w : IF w.session = s THEN Merged(seen, w) ELSE seen,
                         NoOutcome(s), workers)
         more == {w \in waiting : w.session = s}
     IN IF more = {} THEN own ELSE Merged(own, CHOOSE w \in more : TRUE)]

-----------------------------------------------------------------------------
\* The artifacts are searched by date, and by path for one date.  The pattern
\* runs/*/ follows the link too, and runs/current sorts after every directory.
Dated == {r \in DOMAIN artifact : artifact[r].state # "absent"}
Readable(r) == artifact[r].state = "read"
After(r, q) ==
  \/ dates[r] > dates[q]
  \/ dates[r] = dates[q] /\ (r = alias \/ (q # alias /\ Place[r] >= Place[q]))
Latest(some) == CHOOSE r \in some : \A q \in some : After(r, q)
\* Mutant: the day of the review itself counts as an earlier one.
PreviousOfSameDay ==
  LET earlier == {r \in Dated : dates[r] <= day} IN
  IF earlier # {} THEN {Latest(earlier)} ELSE {}
\* Mutant: only the day before is looked at.
PreviousOfYesterday ==
  LET yesterday == {r \in Dated : dates[r] = day - 1} IN
  IF yesterday # {} THEN {Latest(yesterday)} ELSE {}
\* _load_previous_carried_over: the last earlier date, else whatever is not under
\* the directory of the review: its own artifact is, but not by way of the link.
Previous ==
  LET earlier == {r \in Dated : dates[r] < day} outside == Dated \ ({review} \ {alias}) IN
  IF earlier # {} THEN {Latest(earlier)} ELSE IF outside # {} THEN {Latest(outside)} ELSE {}
CarriedOver ==
  LET carriers == {r \in Previous : Readable(r)} IN
  IF carriers = {} THEN << >> ELSE artifact[CHOOSE r \in carriers : TRUE].carried

\* prepend_carried_over: those that the summary has again keep their new place.
Dearer(carried, some) ==
  {p \in some \X some : \/ carried[p[1]].cost > carried[p[2]].cost
                        \/ carried[p[1]].cost = carried[p[2]].cost /\ p[1] < p[2]}
Reinjected(carried, queue) ==
  LET new == {queue[i].session : i \in DOMAIN queue}
      old == {i \in DOMAIN carried : carried[i].session \notin new}
      order == InOrder(old, Dearer(carried, old))
  IN [i \in DOMAIN order |-> [carried[order[i]] EXCEPT !.carried = TRUE]] \o queue
Queue == Reinjected(CarriedOver, Selected(summary))

SmallerOf(a, b) == IF a < b THEN a ELSE b
\* split_audit_candidates
Split(queue) ==
  LET n == SmallerOf(Limit, Len(queue)) IN
  [audited |-> SubSeq(queue, 1, n), carried |-> SubSeq(queue, n + 1, Len(queue))]

-----------------------------------------------------------------------------
Init ==
  /\ day = 0 /\ review = 0 /\ dates = << >> /\ summary = None /\ artifact = << >>
  /\ alias = 0 /\ former = 0
  /\ answer = "none" /\ runs = 0 /\ breaks = 0 /\ once = TRUE /\ audits = {}

\* A new review, on the same day or later: the link is moved to it, where links can
\* be made (activate_run), and its collection may leave no summary.
NewReview ==
  /\ review < MaxReviews /\ review' = review + 1
  /\ day' \in {day, day + 1}
  /\ dates' = Append(dates, day')
  /\ summary' \in Summaries \cup {None}
  /\ artifact' = Append(artifact, [state |-> "absent"])
  /\ alias' \in {alias, review'} /\ former' = alias
  /\ once' = (once /\ \A r \in DOMAIN dates : dates[r] # day')
  /\ answer' = "none"
  /\ UNCHANGED <<runs, breaks, audits>>

\* A refused report puts the link back (rollback_current_link).
Rollback ==
  /\ review > 0 /\ former # 0 /\ alias' = former
  /\ UNCHANGED <<day, review, dates, summary, artifact, former, answer, runs, breaks, once, audits>>

\* _cmd_audit_candidates
NoSummary ==
  /\ runs < MaxRuns /\ runs' = runs + 1
  /\ review > 0 /\ summary = None /\ answer' = "fatal"
  /\ UNCHANGED <<day, review, dates, summary, artifact, link, breaks, once, audits>>
AuditCandidates ==
  /\ runs < MaxRuns /\ runs' = runs + 1
  /\ review > 0 /\ summary # None /\ answer' = "ok"
  /\ LET queue == Queue kept == Split(queue) IN
     /\ artifact' = [artifact EXCEPT ![review] =
          [state |-> "read", outcomes |-> Outcomes(summary.workers, queue),
           audited |-> kept.audited, carried |-> kept.carried]]
     /\ audits' = audits \cup {e.session : e \in ToSet(kept.audited)}
  /\ UNCHANGED <<day, review, dates, summary, link, breaks, once>>
\* Something else leaves an artifact that cannot be read.
Breaks(r) ==
  /\ breaks < MaxBreaks /\ breaks' = breaks + 1
  /\ r \in Dated /\ artifact' = [artifact EXCEPT ![r] = [state |-> "broken"]]
  /\ UNCHANGED <<day, review, dates, summary, link, answer, runs, once, audits>>

Next == NewReview \/ Rollback \/ NoSummary \/ AuditCandidates \/ \E r \in DOMAIN artifact : Breaks(r)
Spec == Init /\ [][Next]_vars

-----------------------------------------------------------------------------
Listed(r) == artifact[r].audited \o artifact[r].carried
TypeOK ==
  /\ day \in 0 .. MaxReviews /\ review \in 0 .. MaxReviews
  /\ DOMAIN dates = 1 .. review /\ DOMAIN artifact = 1 .. review
  /\ summary \in Summaries \cup {None} /\ {alias, former} \subseteq 0 .. review
  /\ answer \in {"none", "ok", "fatal"} /\ runs \in 0 .. MaxRuns /\ breaks \in 0 .. MaxBreaks
  /\ \A r \in DOMAIN artifact : Readable(r) =>
       /\ Len(artifact[r].audited) <= Limit
       /\ Cardinality({e.session : e \in ToSet(Listed(r))}) = Len(Listed(r))

\* "Fin du silently-ignored" (split_audit_candidates): a session that a review
\* found worth an audit was audited since, or waits in the artifact that the next
\* review will read, as long as every review has its day and its artifacts are
\* readable.
NothingIsForgotten ==
  once /\ breaks = 0 => \A r \in Dated : \A e \in ToSet(artifact[r].carried) :
    \/ e.session \in audits
    \/ \E f \in ToSet(artifact[Latest(Dated)].carried) : f.session = e.session

\* What was seen by a review and not audited by it is waiting in its artifact.
SeenIsAuditedOrWaits ==
  [][runs' # runs /\ answer' = "ok" =>
       {e.session : e \in ToSet(artifact'[review].audited \o artifact'[review].carried)}
         = Detected(summary.rows) \cup {e.session : e \in ToSet(CarriedOver)}]_vars

\* Of the sessions of its own summary a review never leaves to the next one a
\* session of a more urgent class than one that it audits, be the other as dear as
\* it may or all of them free, and inside a class a dearer one only by what the
\* rounding of the score hides (select_audit_candidates).
UrgentFirst ==
  answer = "ok" /\ Readable(review) =>
    \A a \in ToSet(artifact[review].audited), b \in ToSet(artifact[review].carried) :
      ~a.carried /\ ~b.carried =>
        \/ a.class < b.class
        \/ a.class = b.class /\ Precision * (b.cost - a.cost) <= 2 * TotalCost(summary.rows)

\* A second run of the command for a review leaves its artifact as it is, with the
\* sessions it took over, as long as no two reviews share a day: its own artifact,
\* which the search then meets, is read only where it says nothing new.
RerunChangesNothing ==
  [][/\ runs' # runs /\ answer' = "ok" /\ Readable(review) /\ once
     /\ \A r \in DOMAIN artifact : artifact[r].state # "broken"
     => artifact' = artifact]_vars

\* The promise of _load_previous_carried_over (cli_watch.py:84-85) and of
\* _latest_outside: what a review takes over comes from another review.
OwnIsNotRead == review \notin Previous

\* No healthy record of a worker hides a failure or a truncation that another
\* record of the same session tells, in whatever order they come.
FailuresStay ==
  answer = "ok" /\ Readable(review) => \A i \in DOMAIN summary.workers :
    LET w == summary.workers[i] told == artifact[review].outcomes[w.session] IN
    /\ told.rc >= w.rc /\ (w.truncated => told.truncated)
    /\ w.status = "truncated" => told.status = "truncated"

\* The promise of split_audit_candidates (candidates.py:347-349): the sessions
\* that a review did not retain come at the head of the queue of the next one.
CarriedComeFirst ==
  [][runs' # runs /\ answer' = "ok" =>
       \A e \in ToSet(CarriedOver) : \A f \in ToSet(artifact'[review].audited) :
         f.session \notin {g.session : g \in ToSet(CarriedOver)} =>
           e.session \in {g.session : g \in ToSet(artifact'[review].audited)}]_vars
=============================================================================

--------------------------- MODULE InsightsHistory ---------------------------
(***************************************************************************)
(* insights (insights.py, rule_context.py): the comparison of the active   *)
(* run with the history of the output directory.  The previous run is the  *)
(* one that previous_run.json names, else the newest artefact found; a     *)
(* command reads them file by file while other sessions activate runs,     *)
(* write summaries, publish insights, or replay an older week, and while   *)
(* the user damages or removes a run.                                      *)
(*                                                                         *)
(* A date is an anchor day.  Runs of one date have names in a random       *)
(* order, place, by which the files are sorted.  runs/current is a         *)
(* symbolic link to a run directory: whoever lists runs/* finds the files  *)
(* of that directory twice.  Of a digest the model keeps that it can be    *)
(* read.                                                                   *)
(***************************************************************************)
EXTENDS RuleEngine, SequencesExt, Orders

CONSTANTS
  Sessions,   \* agents that run insights
  Dates,      \* anchors, naturals
  Summaries,  \* what a week may hold, [hours, cost, zero, never, catalog, pins, loops,
              \* similar, costly, active, touched]
  Digests,    \* the lint rules that a digest may hold
  Weeks,      \* the [summary, digest] that a review may collect
  Rulebooks,  \* what rules/*.md may be
  Overrides,  \* thresholds of the configuration, per rule
  Ignored,    \* cfg.ignored_findings
  IgnoredRules, \* cfg.harness_ignored_rules
  Explicit,   \* baseline_summary_path: [date, week] or None
  Floor,      \* never_loaded_runs_threshold, cache_write_zero_runs
  Limit,      \* _collect_recent: 8 runs
  Budget, Monthly, Wow, LintMax, \* weekly_budget_usd, monthly_budget_usd, cost_wow_pct_max,
              \* lint_violations_max
  MonthDates, \* the anchors in thirty days
  Links,      \* the system has symbolic links
  Migrated,   \* artefacts from before there were run directories, [date, summary, digest]
  Unreadable, \* a file that does not load
  MaxRuns, MaxDamage, MaxCommands \* bounds

ASSUME BoundsAreNaturals ==
  {Floor, Limit, Budget, Monthly, Wow, LintMax, MonthDates, MaxRuns, MaxDamage, MaxCommands} \cup Dates
    \subseteq Nat
\* A week had one set of files at the root, and there are run directories since.
ASSUME MigratedIsOlder ==
  /\ Migrated \in Seq([date : Nat, summary : Summaries \cup {None}, digest : Digests \cup {None}])
  /\ \A i \in DOMAIN Migrated : \A date \in Dates : Migrated[i].date < date
  /\ \A i, j \in DOMAIN Migrated : i # j => Migrated[i].date # Migrated[j].date
\* A review leaves summaries and digests, the user a summary, and none of them nothing.
ASSUME FilesAreTyped ==
  /\ \A week \in Weeks : week.summary \in Summaries /\ week.digest \in Digests \cup {None}
  /\ Explicit # None => Explicit.date \in Nat /\ Explicit.week \in Summaries
  /\ None \notin Nat /\ {None, Unreadable} \cap Summaries = {}
  /\ None \notin [run : Nat, content : Summaries]
\* parse_rule gives a rule all its fields; the category of the engine's own diagnostic
\* is no id of rules/*.md (RULE_ERROR_CATEGORY).
ASSUME RulesAreTyped ==
  \A book \in Rulebooks :
    /\ book \in Seq({book[i] : i \in DOMAIN book})
    /\ \A i \in DOMAIN book :
         /\ book[i] = [field \in {"id", "extends", "threshold", "ignore", "scope", "names", "state"} |->
                         book[i][field]]
         /\ book[i].id # "rule-error"

VARIABLES
  runs,   \* the weeks: [date, place, home, there, summary, digest]; home is the run in whose
          \* directory the files are, itself but for a migrated week, 0 at the root
  active, \* the run that run_state.json names, 0 before any
  alias,  \* the run that runs/current designates, or None
  former, \* what it designated before the active run, which run_state.json remembers
  state,  \* previous_run.json: [date, run, digest] or None
  pc,     \* per session
  own,    \* per session: the run of its command and the summary that it loaded, or None
  found,  \* per session: what previous_run.json gave, [summary, digest]
  told,   \* per session: its insights had a digest
  damage, commands

vars == <<runs, active, alias, former, state, pc, own, found, told, damage, commands>>

Runs == DOMAIN runs
Holds(i, file) == runs[i].there /\ runs[i][file] # None
\* util.load_json, through _load: None if absent or broken.
Load(i, file) == IF Holds(i, file) /\ runs[i][file] # Unreadable THEN runs[i][file] ELSE None
\* active_run_meta: the active run if it is of that date, or of the day before.
ActiveOf(date) ==
  IF active # 0 /\ runs[active].there /\ date - runs[active].date \in {0, 1} THEN active ELSE 0

-----------------------------------------------------------------------------
\* _pattern_paths: where the files of some runs are listed, <<run, 1 if by runs/current>>.
Listings(some) ==
  (some \X {0}) \cup ({i \in some : runs[i].home = alias} \X {1})
\* Sorted by date, then by path, in which "current" comes after every name of a run.
After(l, m) ==
  LET i == l[1]  j == m[1] IN
  \/ runs[i].date > runs[j].date
  \/ /\ runs[i].date = runs[j].date
     /\ l[2] > m[2] \/ (l[2] = m[2] /\ runs[i].place > runs[j].place)
\* Mutant: the oldest first.
OldestFirst(some) == {p \in some \X some : After(p[2], p[1])}
Newer(some) == {p \in some \X some : After(p[1], p[2])}
OlderThan(date, file) == {i \in Runs : Holds(i, file) /\ runs[i].date < date}
Newest(listed) ==
  IF listed = {} THEN None
  ELSE LET last == CHOOSE l \in listed : \A m \in listed \ {l} : After(l, m) IN last[1]
Loaded(i, file) ==
  IF i = None \/ Load(i, file) = None THEN None ELSE [run |-> i, content |-> Load(i, file)]
\* Mutant: whatever its date, the newest of the artefacts.
DiscoverAny(file, date, out) == Loaded(Newest(Listings({i \in Runs : Holds(i, file)})), file)
\* _discover_previous: the newest of the older artefacts, even if it does not load;
\* only without any, the newest that is not listed in the directory of the run.
Discover(file, date, out) ==
  LET older == Listings(OlderThan(date, file))
      others == Listings({i \in Runs : Holds(i, file)}) \ {<<out, 0>>}
  IN  Loaded(Newest(IF older # {} THEN older ELSE others), file)
NothingFound == [summary |-> None, digest |-> None]
\* _state_previous: its files bear its date.
FromState(date) ==
  IF state = None \/ state.date >= date \/ state.run = 0 \/ runs[state.run].date # state.date
  THEN NothingFound
  ELSE [summary |-> Loaded(state.run, "summary"),
        digest |-> IF state.digest THEN Loaded(state.run, "digest") ELSE None]
\* _baseline_fallback: the week that the user gives, if it is older.
OrExplicit(previous, date) ==
  IF previous # None \/ Explicit = None \/ Explicit.date >= date THEN previous
  ELSE [run |-> 0, content |-> Explicit.week]

\* _collect_recent: besides the run, the older listings that load, newest first.
Older(date) ==
  LET readable == Listings({i \in OlderThan(date, "summary") : Load(i, "summary") # None})
      newest == InOrder(readable, Newer(readable))
      kept == SubSeq(newest, 1, IF Len(newest) < Limit THEN Len(newest) ELSE Limit - 1)
  IN  [k \in DOMAIN kept |-> kept[k][1]]

-----------------------------------------------------------------------------
\* _retire_candidates: scope and protections.
Protects(week, skill) == skill \notin week.catalog \/ skill \in week.pins
\* _retire_candidates: enough runs, none of which loaded the skill.
RetireCandidates(weeks) ==
  IF Len(weeks) < Floor THEN {}
  ELSE {k \in weeks[1].never : /\ \A i \in DOMAIN weeks : k \in weeks[i].never
                               /\ ~Protects(weeks[1], k)
                               /\ ~IsIgnored(Ignored, "skill-maintenance", k)}
Kept(category, kind, targets) ==
  {Finding(category, t) : t \in {t \in targets : ~IsIgnored(Ignored, kind, t)}}
\* The streak of weeks without a cache write.
ZeroStreak(weeks) == Cardinality({i \in DOMAIN weeks : \A j \in 1..i : weeks[j].zero})
\* Violations, by rule, but for those that the configuration ignores.
Violations(digest) == IF digest = None THEN {} ELSE digest \ IgnoredRules
\* R1 to R5, the rules apart.
MaintenanceFindings(weeks, digest) ==
  {Finding("retire-candidate", k) : k \in RetireCandidates(weeks)}
    \cup Kept("merge-candidate", "skill-maintenance", weeks[1].similar)
    \cup Kept("token-risk", "token-risk", weeks[1].costly)
    \cup Kept("fix-candidate", "harness-fix", Violations(digest))
    \cup (IF ZeroStreak(weeks) >= Floor THEN {Finding("fix-candidate", None)} ELSE {})

\* build_context: the loops of the week, and its cost against the weeks before.
Context(weeks) ==
  LET before == {weeks[i].cost : i \in 2..Len(weeks)} \ {0}
      highest == CHOOSE c \in before : \A d \in before : d <= c
      cost == weeks[1].cost
  IN  [tool_argument_loops |-> weeks[1].loops,
       daily_spikes |-> [day \in IF cost > 0 THEN {"day"} ELSE {} |->
                           IF before = {} \/ cost <= highest THEN 0 ELSE cost - highest]]

\* _month_cost.
MonthCost(date, week, older) ==
  FoldLeft(LAMBDA total, i : total + runs[i].summary.cost, week.cost,
           SelectSeq(older, LAMBDA i : runs[i].date + MonthDates > date))
\* compute: no delta of volumes between windows of other lengths.
CostRises(week, previous) ==
  /\ previous # None /\ previous.content.hours = week.hours /\ previous.content.cost > 0
  /\ 100 * (week.cost - previous.content.cost) > Wow * previous.content.cost
\* _budget_spike_alerts, _lint_max_alert, _exclusion_rate_alert, _cache_write_zero_alerts.
Alerts(date, weeks, older, previous, digest) ==
  (IF weeks[1].cost > Budget THEN {"weekly_budget_usd"} ELSE {})
    \cup (IF MonthCost(date, weeks[1], older) > Monthly THEN {"monthly_budget_usd"} ELSE {})
    \cup (IF CostRises(weeks[1], previous) THEN {"cost_wow_pct_max"} ELSE {})
    \cup (IF Cardinality(Violations(digest)) > LintMax THEN {"lint_violations_max"} ELSE {})
    \cup (IF 5 * weeks[1].active > weeks[1].touched THEN {"exclusion_rate"} ELSE {})
    \cup (IF ZeroStreak(weeks) >= Floor THEN {"cache_write_zero_runs"} ELSE {})
\* _lint_delta_by_rule: null unless there are two digests.
LintDelta(digest, previous) ==
  IF digest = None \/ previous = None THEN None
  ELSE [r \in Violations(digest) \cup Violations(previous.content) |->
          Cardinality({r} \cap digest) - Cardinality({r} \cap previous.content)]

-----------------------------------------------------------------------------
Init ==
  /\ runs = [i \in DOMAIN Migrated |->
              [date |-> Migrated[i].date, place |-> 2, home |-> 0, there |-> TRUE,
               summary |-> Migrated[i].summary, digest |-> Migrated[i].digest]]
  /\ active = 0 /\ alias = None /\ former = None /\ state = None
  /\ pc = [s \in Sessions |-> "idle"] /\ own = [s \in Sessions |-> None]
  /\ found = [s \in Sessions |-> NothingFound] /\ told = [s \in Sessions |-> FALSE]
  /\ damage = 0 /\ commands = 0

\* run-start, run, then harness: other steps of the review make the run and its files.
Places(date) ==
  LET taken == {runs[i].place : i \in {i \in Runs : runs[i].date = date}} IN
  IF taken = {} THEN {2} ELSE {1, 3} \ taken
\* _migrate_legacy_root: the files at the root go into the directory of the new run.
Moved(to) == [i \in Runs |-> IF runs[i].home = 0 THEN [runs[i] EXCEPT !.home = to] ELSE runs[i]]
\* activate_run.
Activate(date) ==
  LET new == Len(runs) + 1 IN
  /\ Len(runs) < MaxRuns
  /\ \E place \in Places(date) :
       runs' = Append(Moved(new), [date |-> date, place |-> place, home |-> new, there |-> TRUE,
                                   summary |-> None, digest |-> None])
  /\ active' = new /\ alias' = (IF Links THEN new ELSE alias) /\ former' = alias
  /\ UNCHANGED <<state, pc, own, found, told, damage, commands>>
Collect(i) ==
  /\ ActiveOf(runs[i].date) = i /\ runs[i].summary = None
  /\ \E week \in Weeks :
       runs' = [runs EXCEPT ![i].summary = week.summary, ![i].digest = week.digest]
  /\ UNCHANGED <<active, alias, former, state, pc, own, found, told, damage, commands>>
\* rollback_current_link: a refused assemble of the active run.
Rollback ==
  /\ active # 0 /\ former # None /\ runs[former].there /\ alias' = former
  /\ UNCHANGED <<runs, active, former, state, pc, own, found, told, damage, commands>>
\* The user, or the disk: a directory goes with the weeks that were migrated into it.
Damage(i) ==
  /\ damage < MaxDamage /\ damage' = damage + 1 /\ Holds(i, "summary")
  /\ \/ runs' = [j \in Runs |-> IF i \in {j, runs[j].home} THEN [runs[j] EXCEPT !.there = FALSE]
                              ELSE runs[j]]
     \/ runs' = [runs EXCEPT ![i].summary = Unreadable]
  /\ UNCHANGED <<active, alias, former, state, pc, own, found, told, commands>>

End(s) ==
  /\ pc' = [pc EXCEPT ![s] = "idle"] /\ own' = [own EXCEPT ![s] = None]
  /\ found' = [found EXCEPT ![s] = NothingFound] /\ told' = [told EXCEPT ![s] = FALSE]
\* run: the active run of the date and its summary; without them the command ends.
Start(s, date) ==
  /\ pc[s] = "idle" /\ commands < MaxCommands /\ commands' = commands + 1
  /\ ActiveOf(date) # 0 /\ runs[ActiveOf(date)].date = date /\ Load(ActiveOf(date), "summary") # None
  /\ pc' = [pc EXCEPT ![s] = "state"]
  /\ own' = [own EXCEPT ![s] = Loaded(ActiveOf(date), "summary")]
  /\ UNCHANGED <<runs, active, alias, former, state, found, told, damage>>
ReadState(s) ==
  /\ pc[s] = "state" /\ pc' = [pc EXCEPT ![s] = "compute"]
  /\ found' = [found EXCEPT ![s] = FromState(runs[own[s].run].date)]
  /\ UNCHANGED <<runs, active, alias, former, state, own, told, damage, commands>>

\* run: what previous_run.json did not give is searched, each file on its own.
Previous(s, file) ==
  IF found[s][file] # None THEN found[s][file]
  ELSE Discover(file, runs[own[s].run].date, own[s].run)
Compared(s) == OrExplicit(Previous(s, "summary"), runs[own[s].run].date)
\* run, compute: the previous run, the rules evaluated, and the rest of the insights.
RulesOf == [book \in {book \in Rulebooks : ~LoadFails(book)} |-> LoadRules(book, Overrides)]
Evaluated(s, book) ==
  LET older == Older(runs[own[s].run].date) IN
  EvaluateRules(RulesOf[book],
                Context(<<own[s].content>> \o [k \in DOMAIN older |-> runs[older[k]].summary]),
                Ignored)
Insights(s) ==
  LET out == own[s].run
      date == runs[out].date
      older == Older(date)
      weeks == <<own[s].content>> \o [k \in DOMAIN older |-> runs[older[k]].summary]
      digest == Load(out, "digest")
  IN  [previous |-> Compared(s), baseline |-> Compared(s) = None, digest |-> digest # None,
       alerts |-> Alerts(date, weeks, older, Compared(s), digest),
       lint |-> LintDelta(digest, Previous(s, "digest")),
       findings |-> MaintenanceFindings(weeks, digest)]
\* run: the insights are written in the directory of the run, made again if it is gone.
Compute(s, book) ==
  /\ pc[s] = "compute" /\ book \in DOMAIN RulesOf /\ pc' = [pc EXCEPT ![s] = "remember"]
  /\ runs' = IF runs[own[s].run].there THEN runs
             ELSE [runs EXCEPT ![own[s].run] =
                     [@ EXCEPT !.there = TRUE, !.summary = None, !.digest = None]]
  /\ told' = [told EXCEPT ![s] = Insights(s).digest]
  /\ UNCHANGED <<active, alias, former, state, own, found, damage, commands>>
\* load_rules raises, and ends the command.
RulesFail(s, book) ==
  /\ pc[s] = "compute" /\ LoadFails(book) /\ End(s)
  /\ UNCHANGED <<runs, active, alias, former, state, damage, commands>>
\* previous_run.json: its run is the one active by now.
Remember(s) ==
  /\ pc[s] = "remember"
  /\ state' = [date |-> runs[own[s].run].date, run |-> ActiveOf(runs[own[s].run].date),
               digest |-> told[s]]
  /\ End(s) /\ UNCHANGED <<runs, active, alias, former, damage, commands>>
Kill(s) ==
  /\ pc[s] # "idle" /\ End(s) /\ UNCHANGED <<runs, active, alias, former, state, damage, commands>>

Next ==
  \/ \E date \in Dates : Activate(date)
  \/ \E i \in Runs : Collect(i) \/ Damage(i)
  \/ Rollback
  \/ \E s \in Sessions, date \in Dates : Start(s, date)
  \/ \E s \in Sessions : ReadState(s) \/ Remember(s) \/ Kill(s)
  \/ \E s \in Sessions, book \in Rulebooks : Compute(s, book) \/ RulesFail(s, book)
Spec == Init /\ [][Next]_vars

-----------------------------------------------------------------------------
\* The commands that are about to compute.
Computing == {s \in Sessions : pc[s] = "compute"}
\* A week is compared with one that is not older only when the directory holds no
\* older one, and it is a first run only if the newest of those that it could be
\* compared with is damaged or there is none (run, _state_previous,
\* _discover_previous).
PreviousIsOlder ==
  \A s \in Computing :
       LET date == runs[own[s].run].date
           p == Compared(s)
           older == {i \in Runs : Holds(i, "summary") /\ runs[i].date < date}
           newest == {i \in older : \A j \in older : runs[j].date <= runs[i].date}
       IN  /\ p # None /\ p.run # 0 /\ runs[p.run].date >= date => older = {}
           /\ p = None /\ newest # {} => \E i \in newest : runs[i].summary = Unreadable
\* A skill that one of the last Limit listings of a readable week loaded, that the user
\* pinned or that is not of the catalogue is never proposed for retirement, and neither
\* is one that the configuration ignores (_retire_candidates, _collect_recent).
RetireSparesUsed ==
  \A s \in Computing :
       LET week == own[s].content
           date == runs[own[s].run].date
           past == {i \in Runs : runs[i].there /\ runs[i].summary \in Summaries /\ runs[i].date < date}
       IN  \A f \in Insights(s).findings : f.category = "retire-candidate" =>
             /\ f.target \in week.catalog \ week.pins
             /\ {<<"skill-maintenance", f.target>>, <<None, f.target>>} \cap Ignored = {}
             /\ \A i \in past : f.target \notin runs[i].summary.never =>
                  Cardinality(Listings({j \in past : runs[j].date >= runs[i].date})) >= Limit
\* What a file declares of a field, or the nearest of those that it extends.
Declared(book, r, field) ==
  LET Up[n \in Nat] == IF n = 0 THEN FileOf(book, r)
                       ELSE LET below == Up[n - 1] IN
                            IF below.extends = None THEN below ELSE FileOf(book, below.extends)
      declare == {n \in 0..Len(book) : Up[n][field] # None}
  IN  IF declare = {} THEN None ELSE Up[CHOOSE n \in declare : \A k \in declare : n <= k][field]
\* The threshold of a rule, the one of the configuration first, and whether the user
\* turned it off, by its name or by a target that it lists.
Level(book, r) == IF r \in DOMAIN Overrides THEN Overrides[r] ELSE Declared(book, r, "threshold")
Off(r, t) == {<<r, t>>, <<None, t>>} \cap Ignored # {}
Silent(book, r) ==
  LET listed == Declared(book, r, "ignore") IN
  \E t \in {r} \cup (IF listed = None THEN {} ELSE listed) : Off(r, t)
Settings == [book \in DOMAIN RulesOf |-> [r \in RuleIds(book) |-> [level |-> Level(book, r),
                                                                 silent |-> Silent(book, r)]]]
\* Whatever its fellow rules do, a rule that loads and can be evaluated reports each
\* target that reaches the nearest declared threshold, the one of the configuration
\* first; one that the user ignores is not reported by a rule that names its targets,
\* and a rule that raises costs its own findings only (load_rules, evaluate_rules).
RulesAreIndependent ==
  \A s \in Computing, book \in DOMAIN RulesOf :
    LET loops == own[s].content.loops
        findings == Evaluated(s, book)
    IN  \A i \in {i \in DOMAIN book : book[i].scope = "tool_argument_loops"} :
          LET r == book[i].id
              level == Settings[book][r].level
              broken == book[i].state = "raises" \/ (level = None /\ DOMAIN loops # {})
              silent == Settings[book][r].silent
          IN  /\ (Finding("rule-error", r) \in findings) <=> (broken /\ ~silent)
              /\ {f.target : f \in {f \in findings : f.category = r}} =
                   IF broken \/ silent THEN {}
                   ELSE {t \in DOMAIN loops : loops[t] >= level /\ (book[i].names => ~Off(r, t))}

\* "Repli meme-date hors run courant" (_fallback_previous_artifact): a run is not
\* compared with itself.
NotWithItself ==
  \A s \in Computing : Compared(s) # None => Compared(s).run # own[s].run
\* "most recent same-date artefact" (_discover_previous): without an older artefact the
\* command falls back on one of the same date, never on a later week.
PreviousIsNotLater ==
  \A s \in Computing :
       LET p == Compared(s) IN
       p # None /\ p.run # 0 => runs[p.run].date <= runs[own[s].run].date
\* "combien de runs de preuve exiger avant de juger" (_retire_candidates): a skill is
\* proposed for retirement on the evidence of Floor weeks.
EvidenceIsWeeks ==
  \A s \in Computing :
       LET date == runs[own[s].run].date
           past == {i \in OlderThan(date, "summary") : Load(i, "summary") # None}
       IN  \A f \in Insights(s).findings :
             f.category = "retire-candidate" => Cardinality(past) + 1 >= Floor
=============================================================================

------------------------- MODULE TelemetryCollection -------------------------
(***************************************************************************)
(* run (main.py, usage.py, aggregator/, providers/, sqlite_reader.py): one *)
(* collection of the week.  It lists the sessions of each source, reads    *)
(* them one by one, merges the forks and the children, and writes the      *)
(* summary, while the user works: sessions are touched, spawned, forked    *)
(* and deleted between any two reads of a database that is not locked.     *)
(*                                                                         *)
(* Of a session the model keeps the steps and user turns of the window.    *)
(* What the user adds after the start is dated after period.end, and no    *)
(* read returns it: it only makes the session an active one.  All sessions *)
(* are of one project.                                                     *)
(*                                                                         *)
(* The names of Collect* are its own, so that InsightsHistory, which reads *)
(* the summaries, and this module can be reasoned about together.          *)
(***************************************************************************)
EXTENDS Integers, FiniteSets, Sequences, SequencesExt, Orders

CONSTANTS
  Sources,      \* cfg.session_sources: a sequence of [harness, live]
  Local,        \* the source that the fallback opens
  Ids,          \* raw session ids, naturals
  Steps, Turns, \* contents: a fork shares those of its original
  Databases,    \* what the harnesses hold when the run starts
  Configs,      \* [excludeActive, subagents, failOnMissing]
  MinTurns,     \* RESUME_FINGERPRINT_TURNS
  MinRoots,     \* OUTLIER_MIN_ROOTS
  MaxWarnings,  \* MAX_WARNINGS
  MaxEdits, MaxFailures, \* bounds: what the user does, what cannot be read
  Missing, Gone \* nothing; a session that was deleted, its id is not given again

Harnesses == {Sources[i].harness : i \in DOMAIN Sources}
Canonical(h, n) == <<h, n>>
CanonicalIds == Harnesses \X Ids
Session == [parent : Ids \cup {Missing}, advisor : BOOLEAN, updated : {"old", "window", "now"},
            rows : BOOLEAN, turns : Seq(Turns), steps : SUBSET Steps, unpriced : SUBSET Steps,
            skewed : BOOLEAN]

ASSUME LimitsAreNatural ==
  /\ {MinTurns, MinRoots, MaxWarnings, MaxEdits, MaxFailures} \subseteq Nat
  /\ Ids \subseteq Nat /\ IsFiniteSet(Ids)
ASSUME SourcesAreListed ==
  Sources \in Seq({Sources[i] : i \in DOMAIN Sources}) /\ Local \in DOMAIN Sources
ASSUME DatabasesAreTyped ==
  /\ Databases \subseteq [Harnesses -> [Ids -> Session \cup {Missing}]]
  /\ {Missing, Gone} \cap Session = {} /\ Missing # Gone
  /\ Missing \notin Nat \cup Seq(Turns) \cup CanonicalIds
\* A step is a row of the database of one harness.
ASSUME StepsHaveOneHarness ==
  \A d \in Databases, g, h \in Harnesses, m, n \in Ids :
    g # h /\ d[g][m] # Missing /\ d[h][n] # Missing => d[g][m].steps \cap d[h][n].steps = {}

VARIABLES
  db,        \* per harness, its sessions
  cfg,
  stage,     \* where the command is
  usages, audit, \* the sessions that are counted; the disposition of each one
  draft,     \* the summary in memory
  summary,   \* weekly-summary on the disk
  rc,
  providers, \* the sources in use
  snap,      \* the sessions that a provider read when it was built
  windowed,  \* [source, meta]: the sessions listed in the window
  known,     \* all_ids
  turn,      \* the provider that lists
  half,      \* which of its two listings it is at
  queue,     \* [source, meta]: the sessions still to read
  reading,   \* the session whose steps are read
  warnings, edits, failures

collected == <<usages, audit, warnings>>
collectVars ==
  <<db, cfg, stage, providers, snap, windowed, known, turn, half, queue, reading, collected, draft,
    summary, rc, edits, failures>>

IdsOf(records) == {r.id : r \in records}
Fresh(h) == {n \in Ids : \A m \in Ids : m >= n => db[h][m] = Missing}
Live(h) == {n \in Ids : db[h][n] \notin {Missing, Gone}}
\* What a provider sees: the database as it is, or its transcripts as they were.
Seen(i) == IF Sources[i].live THEN db[Sources[i].harness] ELSE snap[i]

-----------------------------------------------------------------------------
Statuses == {"active", "advisor", "error", "no-activity", "unflushed", "included",
             "resumed-duplicate"}
Warn(kind, id) == [kind |-> kind, id |-> id, into |-> Missing, partial |-> FALSE]
\* Mutant: the warning of an unreadable session is like the others.
UnreadIsNotPartial(id) == Warn("session read failed", id)
\* _fetch_session_reads: a gap, the run is partial.
Unread(id) == [Warn("session read failed", id) EXCEPT !.partial = TRUE]
Structured(w) == w.kind = "cross-check"

\* _cap_warnings: the costs first and one by one, the others one per message,
\* then by the session of the first one.
SameEntity(v, w) == v.kind = w.kind /\ v.into = w.into /\ (Structured(v) => v.id = w.id)
Firsts(ws) == {i \in DOMAIN ws : \A j \in 1 .. i - 1 : ~SameEntity(ws[i], ws[j])}
Entity(ws, i) ==
  [ws[i] EXCEPT !.partial = \E j \in DOMAIN ws : SameEntity(ws[i], ws[j]) /\ ws[j].partial]
Place(w) == <<IF Structured(w) THEN 0 ELSE 1, IF w.id = Missing THEN 0 ELSE 1 + w.id[2]>>
Earlier(ws) ==
  {p \in Firsts(ws) \X Firsts(ws) :
     LET a == Place(ws[p[1]]) b == Place(ws[p[2]]) IN
     \/ a[1] < b[1]
     \/ a[1] = b[1] /\ (a[2] < b[2] \/ (a[2] = b[2] /\ p[1] < p[2]))}
Cap(ws) ==
  LET order == InOrder(Firsts(ws), Earlier(ws)) IN
  [k \in 1 .. IF Len(order) < MaxWarnings THEN Len(order) ELSE MaxWarnings |-> Entity(ws, order[k])]

\* root_and_orphan_ids, over records that have an id and a parent.
Orphans(records) ==
  {r.id : r \in {r \in records : r.parent \notin {Missing} \cup IdsOf(records) \cup known}}
\* Mutant: a child whose parent is not counted is no root.
RootsAreParentless(records) == {r.id : r \in {r \in records : r.parent = Missing}}
Roots(records) ==
  {r.id : r \in {r \in records : r.id \notin Orphans(records)
                                   /\ r.parent \notin IdsOf(records)}}
\* descendants_by_parent: level after level, each session once.
Tree(records, root) ==
  LET Level[n \in Nat] ==
        IF n = 0 THEN {root}
        ELSE Level[n - 1] \cup {r.id : r \in {r \in records : r.parent \in Level[n - 1]}}
  IN  Level[Cardinality(records)]

\* resume_fingerprint, dedup_resumed_usages: of the sessions that start with the
\* same turns, the longest, then the smallest id.
Fingerprint(u) == IF Len(u.turns) < MinTurns THEN Missing ELSE SubSeq(u.turns, 1, MinTurns)
SameSession(u, v) ==
  Fingerprint(u) # Missing /\ Fingerprint(v) # Missing /\ u.id[1] = v.id[1]
    /\ Fingerprint(u) = Fingerprint(v)
Fuller(u, v) == Len(u.turns) > Len(v.turns) \/ (Len(u.turns) = Len(v.turns) /\ u.id[2] < v.id[2])
Resumed(us) == {u \in ToSet(us) : \E v \in ToSet(us) : SameSession(u, v) /\ Fuller(v, u)}
KeptFor(u, us) ==
  CHOOSE v \in ToSet(us) : SameSession(u, v) /\ ~\E w \in ToSet(us) : SameSession(u, w) /\ Fuller(w, v)
Merges(us) ==
  LET dropped == Sublist(us, {i \in DOMAIN us : us[i] \in Resumed(us)}) IN
  [j \in DOMAIN dropped |-> [Warn("resumed", dropped[j].id) EXCEPT !.into = KeptFor(dropped[j], us).id]]

-----------------------------------------------------------------------------
CollectInit ==
  /\ db \in Databases /\ cfg \in Configs
  /\ stage = "start" /\ providers = << >> /\ snap = << >> /\ windowed = << >>
  /\ known = {} /\ turn = 1 /\ half = "window" /\ queue = << >> /\ reading = Missing
  /\ usages = << >> /\ audit = << >> /\ warnings = << >>
  /\ draft = Missing /\ summary = Missing /\ rc = Missing /\ edits = 0 /\ failures = 0

Fatal == stage' = "done" /\ rc' = 2

\* build_providers: a source that is off, unknown or broken is left out in
\* silence for the summary; without any, the local database, or nothing.
Build ==
  /\ stage = "start"
  /\ \E usable \in SUBSET DOMAIN Sources :
       \/ /\ usable # {} /\ stage' = "list" /\ UNCHANGED rc
          /\ providers' = InOrder(usable, Upwards(usable))
       \/ usable = {} /\ stage' = "list" /\ providers' = <<Local>> /\ UNCHANGED rc
       \/ usable = {} /\ Fatal /\ UNCHANGED providers
  /\ snap' = [i \in DOMAIN Sources |-> db[Sources[i].harness]]
  /\ UNCHANGED <<db, cfg, windowed, known, turn, half, queue, reading, collected, draft, summary,
                 edits, failures>>

\* _run_list_windowed: the sessions of the window, then all of them, per provider.
Current == providers[turn]
Meta(i, n) ==
  LET s == Seen(i)[n] h == Sources[i].harness IN
  [id |-> Canonical(h, n), updated |-> s.updated, advisor |-> s.advisor,
   parent |-> IF s.parent = Missing THEN Missing ELSE Canonical(h, s.parent)]
Listed(i) == {n \in Ids : Seen(i)[n] \notin {Missing, Gone}}
ListWindow ==
  /\ stage = "list" /\ half = "window" /\ turn <= Len(providers)
  /\ LET touched == {n \in Listed(Current) : Seen(Current)[n].updated # "old"}
         order == InOrder(touched, Upwards(touched)) IN
     windowed' =
       windowed \o [j \in DOMAIN order |-> [source |-> Current, meta |-> Meta(Current, order[j])]]
  /\ half' = "all"
  /\ UNCHANGED <<db, cfg, stage, providers, snap, known, turn, queue, reading, collected, draft,
                 summary, rc, edits, failures>>
ListAll ==
  /\ stage = "list" /\ half = "all"
  /\ known' = known \cup {Canonical(Sources[Current].harness, n) : n \in Listed(Current)}
  /\ turn' = turn + 1 /\ half' = "window"
  /\ UNCHANGED <<db, cfg, stage, providers, snap, windowed, queue, reading, collected, draft,
                 summary, rc, edits, failures>>
ListFails ==
  /\ stage = "list" /\ turn <= Len(providers)
  /\ failures < MaxFailures /\ failures' = failures + 1 /\ Fatal
  /\ UNCHANGED <<db, cfg, providers, snap, windowed, known, turn, half, queue, reading, collected,
                 draft, summary, edits>>

\* Mutant: each source keeps all that it lists.
KeepAll(listed) == listed
\* _run_dedup_windowed: the first source that lists a session keeps it.
KeepFirst(listed) ==
  Sublist(listed, {i \in DOMAIN listed : \A j \in 1 .. i - 1 : listed[j].meta.id # listed[i].meta.id})
Dedup ==
  /\ stage = "list" /\ half = "window" /\ turn > Len(providers)
  /\ queue' = KeepFirst(windowed)
  /\ warnings' = IF Len(queue') < Len(windowed)
                 THEN Append(warnings, Warn("duplicate", Missing)) ELSE warnings
  /\ stage' = "read" /\ windowed' = << >>
  /\ UNCHANGED <<db, cfg, providers, snap, known, turn, half, reading, usages, audit,
                 draft, summary, rc, edits, failures>>

-----------------------------------------------------------------------------
\* _run_read_usages, build_usage: the disposition of the next session.
Next1 == queue[1]
Id1 == Next1.meta.id
Now1 == Seen(Next1.source)[Id1[2]]
Dispose(status, ws) ==
  /\ audit' = Append(audit, [id |-> Id1, parent |-> Next1.meta.parent, status |-> status])
  /\ warnings' = warnings \o ws
  /\ queue' = Tail(queue) /\ reading' = Missing
  /\ UNCHANGED <<db, cfg, stage, providers, snap, windowed, known, turn, half, draft, summary, rc,
                 edits>>
IsActive == cfg.excludeActive /\ Next1.meta.updated = "now"
AtNext == stage = "read" /\ queue # << >> /\ reading = Missing
SkipActive ==
  /\ AtNext /\ IsActive
  /\ Dispose("active", <<Warn("active session", Id1)>>) /\ UNCHANGED <<usages, failures>>
SkipAdvisor ==
  /\ AtNext /\ ~IsActive /\ Next1.meta.advisor
  /\ Dispose("advisor", << >>) /\ UNCHANGED <<usages, failures>>
\* session_steps, of a session that may be gone since it was listed.
ReadSteps ==
  /\ AtNext /\ ~IsActive /\ ~Next1.meta.advisor
  /\ reading' = IF Now1 = Gone THEN [steps |-> {}, unpriced |-> {}]
                ELSE [steps |-> Now1.steps, unpriced |-> Now1.unpriced]
  /\ UNCHANGED <<db, cfg, stage, providers, snap, windowed, known, turn, half, queue, collected, draft,
                 summary, rc, edits, failures>>
\* One of the reads raises, the first or a later one.
ReadFails ==
  /\ stage = "read" /\ queue # << >> /\ ~IsActive /\ ~Next1.meta.advisor
  /\ failures < MaxFailures /\ failures' = failures + 1
  /\ Dispose("error", <<Unread(Id1)>>) /\ UNCHANGED usages
\* _usage_no_steps_status: has_telemetry_rows is asked after the steps, and unguarded: if
\* it raises, the run stops here and writes nothing.
FindNoSteps ==
  /\ stage = "read" /\ reading # Missing /\ reading.steps = {}
  /\ IF Now1 # Gone /\ Now1.rows THEN Dispose("no-activity", << >>)
     ELSE Dispose("unflushed", <<Warn("no telemetry", Id1)>>)
  /\ UNCHANGED <<usages, failures>>
\* The turns and the lifetime cost are read after the steps.
CostWarnings(skewed) ==
  (IF reading.unpriced = {} THEN << >> ELSE <<Warn("missing-pricing", Id1)>>)
    \o (IF skewed THEN <<Warn("cross-check", Id1)>> ELSE << >>)
Include ==
  /\ stage = "read" /\ reading # Missing /\ reading.steps # {}
  /\ usages' = Append(usages,
       [id |-> Id1, parent |-> Next1.meta.parent, steps |-> reading.steps,
        unpriced |-> reading.unpriced,
        turns |-> IF Now1 = Gone THEN << >> ELSE Now1.turns])
  /\ Dispose("included", CostWarnings(Now1 # Gone /\ Now1.skewed)) /\ UNCHANGED failures

\* run: with failOnMissing, a failed read ends the run before it writes anything.
GiveUp ==
  /\ stage = "read" /\ queue = << >> /\ cfg.failOnMissing
  /\ \E i \in DOMAIN audit : audit[i].status = "error"
  /\ stage' = "done" /\ rc' = 1
  /\ UNCHANGED <<db, cfg, providers, snap, windowed, known, turn, half, queue, reading, collected,
                 draft, summary, edits, failures>>

-----------------------------------------------------------------------------
\* Mutant: the audit keeps a resumed session as a counted one.
MarkNone(records, dropped) == records
\* _run_merge_resumed: the audit follows the sessions that are merged.
MarkResumed(records, dropped) ==
  [i \in DOMAIN records |->
     IF records[i].id \in dropped /\ records[i].status = "included"
     THEN [records[i] EXCEPT !.status = "resumed-duplicate"] ELSE records[i]]

\* _process_root: how often a step enters the totals.
MembersOf(us, root) == IF cfg.subagents THEN Tree(us, root) ELSE {root}
RootsAt(us) == {i \in DOMAIN us : us[i].id \in Roots(ToSet(us))}
Counted(us, step) ==
  Cardinality({p \in RootsAt(us) \X ToSet(us) :
                 p[2].id \in MembersOf(ToSet(us), us[p[1]].id) /\ step \in p[2].steps})
\* _build_subagent_totals: the children, with a parent that is counted, and the orphans.
Subagents(us) == {u.id : u \in {u \in us : u.parent \in IdsOf(us)}} \cup Orphans(us)
\* aggregate: what it adds to the warnings.
AggregateWarnings(us) ==
  LET orphans == Sublist(us, {i \in DOMAIN us : us[i].id \in Orphans(ToSet(us))})
      n == Cardinality(Roots(ToSet(us))) IN
  [j \in DOMAIN orphans |-> Warn("orphan", orphans[j].id)]
    \o (IF n \in 1..(MinRoots - 1) THEN <<Warn("small sample", Missing)>> ELSE << >>)
\* _build_selection, from the audit alone.
Selection(records) ==
  LET included == {r \in ToSet(records) : r.status = "included"} IN
  [touched |-> Len(records), counted |-> Cardinality(Roots(included)),
   merged |-> Cardinality(included) - Cardinality(Roots(included)),
   of |-> [s \in Statuses |-> Cardinality({i \in DOMAIN records : records[i].status = s})]]
\* _run_selection_warnings.
SelectionWarnings(selection) ==
  IF selection.touched = 0 THEN <<Warn("empty window", Missing)>>
  ELSE IF selection.counted = 0 THEN <<Warn("none counted", Missing)>> ELSE << >>
\* estimate_costs: the sessions of which no step has a price.
Estimates(us) == {u.id : u \in {u \in us : u.steps \subseteq u.unpriced}}

Aggregate ==
  /\ stage = "read" /\ queue = << >>
  /\ ~(cfg.failOnMissing /\ \E i \in DOMAIN audit : audit[i].status = "error")
  /\ LET dropped == Resumed(usages)
         kept == Sublist(usages, {i \in DOMAIN usages : usages[i] \notin dropped})
         us == ToSet(kept)
         selection == Selection(MarkResumed(audit, IdsOf(dropped)))
     IN
     /\ usages' = kept /\ audit' = MarkResumed(audit, IdsOf(dropped))
     /\ warnings' = warnings \o Merges(usages) \o AggregateWarnings(kept)
     /\ draft' = [sessions |-> Cardinality(RootsAt(kept)),
                  totals |-> [s \in Steps |-> Counted(kept, s)],
                  subagents |-> Subagents(us), selection |-> selection,
                  estimates |-> Estimates(us),
                  warnings |-> Cap(Cap(warnings') \o SelectionWarnings(selection)),
                  provenance |-> FALSE]
  /\ stage' = "write"
  /\ UNCHANGED <<db, cfg, providers, snap, windowed, known, turn, half, queue, reading, summary, rc,
                 edits, failures>>
\* _run_write_summary: written once as it is, and again with its provenance.
Write ==
  /\ stage = "write" /\ stage' = "stamp" /\ summary' = draft
  /\ UNCHANGED <<db, cfg, providers, snap, windowed, known, turn, half, queue, reading, collected,
                 draft, rc, edits, failures>>
\* run: partial when a warning of the summary is.
Stamp ==
  /\ stage = "stamp" /\ stage' = "done"
  /\ summary' = [summary EXCEPT !.provenance = TRUE]
  /\ rc' = IF \E i \in DOMAIN draft.warnings : draft.warnings[i].partial THEN 1 ELSE 0
  /\ UNCHANGED <<db, cfg, providers, snap, windowed, known, turn, half, queue, reading, collected,
                 draft, edits, failures>>
Interrupt ==
  /\ stage \in {"list", "read", "write", "stamp"} /\ stage' = "killed"
  /\ UNCHANGED <<db, cfg, providers, snap, windowed, known, turn, half, queue, reading, collected,
                 draft, summary, rc, edits, failures>>

-----------------------------------------------------------------------------
\* The user, between the first listing and the last read.
UserEdits(h, n, s) ==
  /\ stage \in {"list", "read"} /\ edits < MaxEdits /\ edits' = edits + 1
  /\ db' = [db EXCEPT ![h][n] = s]
  /\ UNCHANGED <<cfg, stage, providers, snap, windowed, known, turn, half, queue, reading, collected,
                 draft, summary, rc, failures>>
UserWorks(h, n) ==
  n \in Live(h) /\ UserEdits(h, n, [db[h][n] EXCEPT !.updated = "now", !.rows = TRUE])
UserDeletes(h, n) == n \in Live(h) /\ UserEdits(h, n, Gone)
NewSession == [parent |-> Missing, advisor |-> FALSE, updated |-> "now", rows |-> TRUE,
               turns |-> << >>, steps |-> {}, unpriced |-> {}, skewed |-> FALSE]
NewId(h) == CHOOSE n \in Fresh(h) : \A m \in Fresh(h) : n <= m
UserSpawns(h, n) ==
  n \in Live(h) /\ Fresh(h) # {} /\ UserEdits(h, NewId(h), [NewSession EXCEPT !.parent = n])
\* A resume copies the transcript, dates included, under a new id.
UserForks(h, n) ==
  /\ n \in Live(h) /\ Fresh(h) # {}
  /\ UserEdits(h, NewId(h), [db[h][n] EXCEPT !.parent = Missing, !.advisor = FALSE, !.updated = "now"])

CollectNext ==
  \/ Build \/ ListWindow \/ ListAll \/ ListFails \/ Dedup
  \/ SkipActive \/ SkipAdvisor \/ ReadSteps \/ ReadFails \/ FindNoSteps \/ Include
  \/ GiveUp \/ Aggregate \/ Write \/ Stamp \/ Interrupt
  \/ \E h \in Harnesses, n \in Ids :
       UserWorks(h, n) \/ UserDeletes(h, n) \/ UserSpawns(h, n) \/ UserForks(h, n)
CollectSpec == CollectInit /\ [][CollectNext]_collectVars

-----------------------------------------------------------------------------
MetaType == [id : CanonicalIds, updated : {"window", "now"}, advisor : BOOLEAN,
             parent : CanonicalIds \cup {Missing}]
Kinds == {"session read failed", "cross-check", "duplicate", "active session", "no telemetry",
          "missing-pricing", "resumed", "orphan", "small sample", "empty window", "none counted"}
Warning == [kind : Kinds, id : CanonicalIds \cup {Missing}, into : CanonicalIds \cup {Missing},
            partial : BOOLEAN]
Summary ==
  [sessions : Nat, totals : [Steps -> Nat], subagents : SUBSET CanonicalIds,
   selection : [touched : Nat, counted : Nat, merged : Nat, of : [Statuses -> Nat]],
   estimates : SUBSET CanonicalIds, warnings : Seq(Warning), provenance : BOOLEAN]
\* The types, and a summary keeps at most MaxWarnings warnings (D5).
CollectTypeOK ==
  /\ \A h \in Harnesses, n \in Ids : db[h][n] \in {Missing, Gone} \/ db[h][n] \in Session
  /\ stage \in {"start", "list", "read", "write", "stamp", "done", "killed"}
  /\ known \subseteq CanonicalIds /\ half \in {"window", "all"}
  /\ turn \in Nat /\ windowed \in Seq([source : DOMAIN Sources, meta : MetaType])
  /\ queue \in Seq([source : DOMAIN Sources, meta : MetaType])
  /\ reading = Missing \/ reading \in [steps : SUBSET Steps, unpriced : SUBSET Steps]
  /\ usages \in Seq([id : CanonicalIds, parent : CanonicalIds \cup {Missing},
                     steps : (SUBSET Steps) \ {{}}, unpriced : SUBSET Steps, turns : Seq(Turns)])
  /\ audit \in Seq([id : CanonicalIds, parent : CanonicalIds \cup {Missing}, status : Statuses])
  /\ warnings \in Seq(Warning)
  /\ \A x \in {draft, summary} \ {Missing} : x \in Summary /\ Len(x.warnings) <= MaxWarnings
  /\ rc \in {Missing, 0, 1, 2}

\* What the summary says of the sessions (the audit of the selection) and what
\* it counts (the totals of aggregate) are computed from two traces of the same
\* reads: each session that the window touched has one disposition, the roots
\* of the selection are those of the totals, and its merged children are the
\* sub-agents (main.py:155-166).
DispositionsAddUp ==
  draft # Missing =>
    /\ Cardinality(IdsOf(ToSet(audit))) = Len(audit)
    /\ draft.selection.counted = draft.sessions
    /\ draft.selection.merged = Cardinality(draft.subagents)
    /\ {u.id : u \in ToSet(usages)} = {r.id : r \in {r \in ToSet(audit) : r.status = "included"}}

\* doc/spec/03-capacites.md, C1 rules 6 and 7: no step counts twice, whatever
\* the sources list, the children and the forks hold, and whatever the user did
\* meanwhile; two sessions that parted before the turns of a fingerprint, or of
\* which one is deleted while it is read, are two.
Parted(u, v) ==
  LET s == db[u.id[1]][u.id[2]] t == db[v.id[1]][v.id[2]] IN
  s = Gone \/ t = Gone \/ Len(s.turns) < MinTurns \/ Len(t.turns) < MinTurns
    \/ SubSeq(s.turns, 1, MinTurns) # SubSeq(t.turns, 1, MinTurns)
EachStepCountsOnce ==
  draft # Missing =>
    \A step \in Steps :
      \/ draft.totals[step] <= 1
      \/ \E u, v \in ToSet(usages) : u.id # v.id /\ step \in u.steps \cap v.steps /\ Parted(u, v)

\* A session that is included is in the totals, in the sub-agent totals, or in
\* both: never in neither, whether its parent is active, merged into a fork,
\* outside of the window or deleted meanwhile (spec C1 rule 7).
IncludedIsReported ==
  draft # Missing =>
    \A u \in ToSet(usages) :
      \/ u.id \in draft.subagents
      \/ \A step \in u.steps : draft.totals[step] > 0

\* A session that could not be read makes the run partial, and a step without a
\* price is told, unless the summary has no room left for the warning.
GapIsTold ==
  rc = 0 /\ summary # Missing =>
    \/ Len(summary.warnings) = MaxWarnings
    \/ /\ summary.selection.of["error"] = 0
       /\ \A u \in ToSet(usages) : u.unpriced = {}
            \/ \E i \in DOMAIN summary.warnings : summary.warnings[i].kind = "missing-pricing"

\* usage.py:161, of a session that could not be read: "telemetry gap -> run is
\* partial, not ok".
FailedReadIsPartial == rc = 0 => \A i \in DOMAIN audit : audit[i].status # "error"
=============================================================================

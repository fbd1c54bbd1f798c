--------------------------- MODULE TelemetryProofs ---------------------------
(***************************************************************************)
(* Theorems of the two components that make the numbers of a week.         *)
(* InsightsHistory, for any sessions, weeks, rules and limits: what a week *)
(* is compared with, what is proposed for retirement, and what each        *)
(* declarative rule reports.  TelemetryCollection, for any sources,        *)
(* databases, user and limits: the summary agrees with its audit, counts   *)
(* no step twice, leaves no session out and tells its gaps.                *)
(***************************************************************************)
EXTENDS InsightsHistory, TelemetryCollection, FiniteSetTheorems, TLAPS

-----------------------------------------------------------------------------
(* The runs, and what names them.                                          *)

Rows == [date : Nat, place : 1 .. 3, home : Nat, there : BOOLEAN,
         summary : Summaries \cup {None, Unreadable}, digest : Digests \cup {None}]
\* Runs of one date have places of their own, by which they are sorted.
Apart ==
  \A i, j \in Runs : i # j /\ runs[i].date = runs[j].date => runs[i].place # runs[j].place
\* previous_run.json names a run.
StateNames == state # None /\ state.run # 0 => state.run \in Runs
OwnNames ==
  \A s \in Sessions : pc[s] # "idle" => own[s].run \in Runs /\ own[s].content \in Summaries
FoundIsOlder ==
  \A s \in Sessions : found[s].summary # None =>
    /\ pc[s] # "idle" /\ found[s].summary.run \in Runs
    /\ runs[found[s].summary.run].date < runs[own[s].run].date
Typed ==
  /\ runs \in Seq(Rows) /\ active \in 0 .. Len(runs)
  /\ DOMAIN pc = Sessions /\ DOMAIN own = Sessions /\ DOMAIN found = Sessions
Named == Typed /\ Apart /\ StateNames /\ OwnNames /\ FoundIsOlder

LEMMA RowTypes ==
  ASSUME Typed
  PROVE  /\ Runs = 1 .. Len(runs) /\ Len(runs) \in Nat
         /\ \A i \in Runs : /\ runs[i] \in Rows /\ runs[i].date \in Nat /\ runs[i].place \in Nat
                            /\ runs[i].summary \in Summaries \cup {None, Unreadable}
<1>1. Runs = 1 .. Len(runs) /\ Len(runs) \in Nat /\ \A i \in Runs : runs[i] \in Rows
  BY DEF Typed, Runs
<1>2. ASSUME NEW row \in Rows
      PROVE  row.date \in Nat /\ row.place \in Nat /\ row.summary \in Summaries \cup {None, Unreadable}
  BY DEF Rows
<1> QED
  BY <1>1, <1>2

LEMMA AppendRow ==
  ASSUME NEW s \in Seq(Rows), NEW e \in Rows
  PROVE  /\ Append(s, e) \in Seq(Rows) /\ Len(Append(s, e)) = Len(s) + 1 /\ Len(s) \in Nat
         /\ DOMAIN Append(s, e) = DOMAIN s \cup {Len(s) + 1} /\ Append(s, e)[Len(s) + 1] = e
         /\ \A i \in DOMAIN s : Append(s, e)[i] = s[i]
  OBVIOUS

\* A step that leaves the names of the runs alone.
LEMMA SameRuns ==
  ASSUME Named, runs' \in Seq(Rows), Len(runs') = Len(runs), DOMAIN runs' = DOMAIN runs,
         \A i \in Runs : runs'[i].date = runs[i].date /\ runs'[i].place = runs[i].place
  PROVE  /\ Apart'
         /\ state' = state => StateNames'
         /\ own' = own /\ found' = found /\ (\A s \in Sessions : (pc'[s] = "idle") <=> (pc[s] = "idle"))
              => OwnNames' /\ FoundIsOlder'
<1>1. Runs' = Runs
  BY DEF Runs
<1>2. Apart'
  BY <1>1 DEF Named, Apart
<1>3. ASSUME state' = state PROVE StateNames'
  BY <1>1, <1>3 DEF Named, StateNames
<1>4. ASSUME own' = own, found' = found, \A s \in Sessions : (pc'[s] = "idle") <=> (pc[s] = "idle")
      PROVE  OwnNames' /\ FoundIsOlder'
  <2>1. OwnNames'
    BY <1>1, <1>4 DEF Named, OwnNames
  <2>2. ASSUME NEW s \in Sessions, found'[s].summary # None
        PROVE  /\ pc'[s] # "idle" /\ found'[s].summary.run \in Runs'
               /\ runs'[found'[s].summary.run].date < runs'[own'[s].run].date
    <3>1. pc[s] # "idle" /\ found[s].summary.run \in Runs /\ own[s].run \in Runs
          /\ runs[found[s].summary.run].date < runs[own[s].run].date
      BY <1>4, <2>2 DEF Named, OwnNames, FoundIsOlder
    <3> QED
      BY <1>1, <1>4, <3>1
  <2> QED
    BY <2>1, <2>2 DEF FoundIsOlder
<1> QED
  BY <1>2, <1>3, <1>4

LEMMA NamedInit == Init => Named
<1> SUFFICES ASSUME Init PROVE Named
  OBVIOUS
<1> DEFINE Row(i) == [date |-> Migrated[i].date, place |-> 2, home |-> 0, there |-> TRUE,
                      summary |-> Migrated[i].summary, digest |-> Migrated[i].digest]
<1>1. runs = [i \in DOMAIN Migrated |-> Row(i)]
  BY DEF Init
<1>2. /\ DOMAIN Migrated = 1 .. Len(Migrated) /\ Len(Migrated) \in Nat
      /\ \A i \in DOMAIN Migrated : Row(i) \in Rows
  <2> DEFINE Artefacts == [date : Nat, summary : Summaries \cup {None}, digest : Digests \cup {None}]
  <2>1. Migrated \in Seq(Artefacts)
    BY MigratedIsOlder
  <2>2. ASSUME NEW week \in Artefacts
        PROVE  week.date \in Nat /\ week.summary \in Summaries \cup {None, Unreadable}
               /\ week.digest \in Digests \cup {None}
    OBVIOUS
  <2> HIDE DEF Artefacts
  <2> QED
    BY <2>1, <2>2 DEF Rows
<1>3. \A i \in DOMAIN Migrated : Row(i).date = Migrated[i].date
  OBVIOUS
<1> HIDE DEF Row
<1>4. runs \in Seq(Rows) /\ Len(runs) \in Nat
  BY <1>1, <1>2
<1>5. Typed
  BY <1>4 DEF Init, Typed
<1>6. Apart
  BY <1>1, <1>3, MigratedIsOlder DEF Apart, Runs
<1>7. \A s \in Sessions : found[s].summary = None /\ pc[s] = "idle"
  BY DEF Init, NothingFound
<1> QED
  BY <1>5, <1>6, <1>7 DEF Init, Named, StateNames, OwnNames, FoundIsOlder

LEMMA ActiveType == ASSUME Typed, NEW date, ActiveOf(date) # 0 PROVE ActiveOf(date) \in Runs
<1>1. ActiveOf(date) = active /\ active # 0
  BY DEF ActiveOf
<1> QED
  BY <1>1, RowTypes DEF Typed

LEMMA MovedIs ==
  ASSUME Typed, NEW to \in Nat
  PROVE  /\ Moved(to) \in Seq(Rows) /\ Len(Moved(to)) = Len(runs) /\ DOMAIN Moved(to) = DOMAIN runs
         /\ \A i \in Runs : Moved(to)[i].date = runs[i].date /\ Moved(to)[i].place = runs[i].place
<1> DEFINE Row(i) == IF runs[i].home = 0 THEN [runs[i] EXCEPT !.home = to] ELSE runs[i]
<1>1. Runs = 1 .. Len(runs) /\ Len(runs) \in Nat /\ \A i \in Runs : runs[i] \in Rows
  BY RowTypes
<1>2. \A i \in Runs : Row(i) \in Rows /\ Row(i).date = runs[i].date /\ Row(i).place = runs[i].place
  BY <1>1 DEF Rows
<1>3. Moved(to) = [i \in 1 .. Len(runs) |-> Row(i)]
  BY <1>1 DEF Moved
<1> HIDE DEF Row
<1> QED
  BY <1>1, <1>2, <1>3 DEF Runs

LEMMA ActivateStep ==
  ASSUME Named, NEW date \in Dates, Activate(date) PROVE Named'
<1> DEFINE new == Len(runs) + 1
           moved == Moved(new)
<1>0. new \in Nat /\ Typed
  BY DEF Named, Typed
<1>1. PICK place \in Places(date) :
        runs' = Append(moved, [date |-> date, place |-> place, home |-> new, there |-> TRUE, summary |-> None,
                               digest |-> None])
  BY DEF Activate
<1> DEFINE taken == {runs[i].place : i \in {i \in Runs : runs[i].date = date}}
           row == [date |-> date, place |-> place, home |-> new, there |-> TRUE, summary |-> None,
                   digest |-> None]
<1>2. place \in 1 .. 3 /\ place \notin taken
  BY DEF Places
<1>3. row \in Rows
  BY <1>0, <1>2, BoundsAreNaturals DEF Rows
<1>4. \A i \in Runs : runs[i].date = date => runs[i].place # place
  BY <1>2
<1> HIDE DEF taken
<1>5. row.date = date /\ row.place = place
  OBVIOUS
<1> HIDE DEF row
<1>6. /\ runs' \in Seq(Rows) /\ Len(runs') = Len(runs) + 1 /\ Len(runs) \in Nat
      /\ DOMAIN runs' = DOMAIN runs \cup {Len(runs) + 1} /\ runs'[Len(runs) + 1] = row
      /\ \A i \in DOMAIN runs : runs'[i].date = runs[i].date /\ runs'[i].place = runs[i].place
  <2>1. /\ moved \in Seq(Rows) /\ Len(moved) = Len(runs) /\ DOMAIN moved = DOMAIN runs
        /\ \A i \in DOMAIN runs : moved[i].date = runs[i].date /\ moved[i].place = runs[i].place
    BY <1>0, MovedIs DEF Runs
  <2>2. runs' = Append(moved, row)
    BY <1>1 DEF row
  <2> HIDE DEF moved, new
  <2> QED
    BY <1>3, <2>1, <2>2, AppendRow
<1>7. Runs = DOMAIN runs /\ Runs' = DOMAIN runs'
  BY DEF Runs
<1>8. Typed'
  BY <1>6 DEF Activate, Named, Typed, new
<1>9. Apart'
  <2> SUFFICES ASSUME NEW i \in Runs', NEW j \in Runs', i # j, runs'[i].date = runs'[j].date
               PROVE  runs'[i].place # runs'[j].place
    BY DEF Apart
  <2>1. CASE i \in Runs /\ j \in Runs
    BY <1>6, <1>7, <2>1 DEF Named, Apart
  <2>2. CASE i \notin Runs
    BY <1>4, <1>5, <1>6, <1>7, <2>2
  <2>3. CASE j \notin Runs
    BY <1>4, <1>5, <1>6, <1>7, <2>3
  <2> QED
    BY <2>1, <2>2, <2>3
<1>10. UNCHANGED <<state, pc, own, found>>
  BY DEF Activate
<1>11. StateNames'
  BY <1>6, <1>7, <1>10 DEF Named, StateNames
<1>12. OwnNames' /\ FoundIsOlder'
  BY <1>6, <1>7, <1>10 DEF Named, OwnNames, FoundIsOlder
<1> QED
  BY <1>8, <1>9, <1>11, <1>12 DEF Named

\* A run gets or loses files.
LEMMA FilesStep ==
  ASSUME Named, NEW i \in Runs, NEW row \in Rows, row.date = runs[i].date, row.place = runs[i].place,
         runs' = [runs EXCEPT ![i] = row]
  PROVE  /\ runs' \in Seq(Rows) /\ Len(runs') = Len(runs) /\ DOMAIN runs' = DOMAIN runs
         /\ \A j \in Runs : runs'[j].date = runs[j].date /\ runs'[j].place = runs[j].place
<1>1. runs \in Seq(Rows) /\ i \in DOMAIN runs
  BY DEF Named, Typed, Runs
<1>2. runs' \in Seq(Rows) /\ Len(runs') = Len(runs) /\ DOMAIN runs' = DOMAIN runs
  BY <1>1
<1>3. \A j \in Runs : runs'[j] = IF j = i THEN row ELSE runs[j]
  BY <1>1 DEF Runs
<1> QED
  BY <1>2, <1>3

LEMMA NamedStep == Named /\ [Next]_vars => Named'
<1> SUFFICES ASSUME Named, [Next]_vars PROVE Named'
  OBVIOUS
<1>0. Runs = DOMAIN runs /\ Runs' = DOMAIN runs' /\ Typed /\ runs \in Seq(Rows)
  BY DEF Runs, Named, Typed
<1>1. ASSUME NEW date \in Dates, Activate(date) PROVE Named'
  BY <1>1, ActivateStep
<1>2. ASSUME NEW i \in Runs, NEW row \in Rows, row.date = runs[i].date, row.place = runs[i].place,
             runs' = [runs EXCEPT ![i] = row], UNCHANGED <<active, state, pc, own, found>>
      PROVE  Named'
  <2>1. /\ runs' \in Seq(Rows) /\ Len(runs') = Len(runs) /\ DOMAIN runs' = DOMAIN runs
        /\ \A j \in Runs : runs'[j].date = runs[j].date /\ runs'[j].place = runs[j].place
    BY <1>2, FilesStep
  <2>2. Typed'
    BY <1>2, <2>1 DEF Named, Typed
  <2> QED
    BY <1>2, <2>1, <2>2, SameRuns DEF Named
<1>3. ASSUME NEW i \in Runs, Collect(i) PROVE Named'
  <2>1. PICK week \in Weeks : runs' = [runs EXCEPT ![i].summary = week.summary, ![i].digest = week.digest]
    BY <1>3 DEF Collect
  <2> DEFINE row == [runs[i] EXCEPT !.summary = week.summary, !.digest = week.digest]
  <2>2. runs' = [runs EXCEPT ![i] = row]
    BY <1>0, <2>1
  <2>3. row \in Rows /\ row.date = runs[i].date /\ row.place = runs[i].place
    BY <1>0, RowTypes, FilesAreTyped DEF Rows
  <2> HIDE DEF row
  <2> QED
    BY <1>2, <1>3, <2>2, <2>3 DEF Collect
<1>4. ASSUME NEW i \in Runs, Damage(i) PROVE Named'
  <2>1. CASE runs' = [j \in Runs |-> IF i \in {j, runs[j].home} THEN [runs[j] EXCEPT !.there = FALSE]
                                     ELSE runs[j]]
    <3> DEFINE Row(j) == IF i \in {j, runs[j].home} THEN [runs[j] EXCEPT !.there = FALSE] ELSE runs[j]
    <3>1. Runs = 1 .. Len(runs) /\ Len(runs) \in Nat /\ \A j \in Runs : runs[j] \in Rows
      BY <1>0, RowTypes
    <3>2. \A j \in Runs : Row(j) \in Rows /\ Row(j).date = runs[j].date /\ Row(j).place = runs[j].place
      BY <3>1 DEF Rows
    <3>3. runs' = [j \in 1 .. Len(runs) |-> Row(j)]
      BY <2>1, <3>1
    <3> HIDE DEF Row
    <3>4. /\ runs' \in Seq(Rows) /\ Len(runs') = Len(runs) /\ DOMAIN runs' = DOMAIN runs
          /\ \A j \in Runs : runs'[j].date = runs[j].date /\ runs'[j].place = runs[j].place
      BY <1>0, <3>1, <3>2, <3>3
    <3>5. UNCHANGED <<active, state, pc, own, found>>
      BY <1>4 DEF Damage
    <3>6. Typed'
      BY <3>4, <3>5 DEF Named, Typed
    <3> QED
      BY <3>4, <3>5, <3>6, SameRuns DEF Named
  <2>2. CASE runs' = [runs EXCEPT ![i].summary = Unreadable]
    <3> DEFINE row == [runs[i] EXCEPT !.summary = Unreadable]
    <3>1. runs' = [runs EXCEPT ![i] = row]
      BY <1>0, <2>2
    <3>2. row \in Rows /\ row.date = runs[i].date /\ row.place = runs[i].place
      BY <1>0, RowTypes DEF Rows
    <3> HIDE DEF row
    <3> QED
      BY <1>2, <1>4, <3>1, <3>2 DEF Damage
  <2> QED
    BY <1>4, <2>1, <2>2 DEF Damage
\* The steps of a command.
<1>5. ASSUME NEW s \in Sessions, NEW date \in Dates, Start(s, date) PROVE Named'
  <2>1. /\ UNCHANGED <<runs, active, state, found>> /\ pc[s] = "idle"
        /\ pc' = [pc EXCEPT ![s] = "state"] /\ own' = [own EXCEPT ![s] = Loaded(ActiveOf(date), "summary")]
    BY <1>5 DEF Start
  <2>2. ActiveOf(date) \in Runs
    BY <1>0, <1>5, ActiveType DEF Start
  <2> DEFINE i == ActiveOf(date)
  <2>3. Load(i, "summary") = runs[i].summary /\ Load(i, "summary") # None /\ Load(i, "summary") # Unreadable
    BY <1>5 DEF Start, Load
  <2>4. i # None /\ Load(i, "summary") \in Summaries
    BY <1>0, <2>2, <2>3, RowTypes, FilesAreTyped
  <2> HIDE DEF i
  <2>5. Loaded(i, "summary") = [run |-> i, content |-> Load(i, "summary")]
    BY <2>3, <2>4 DEF Loaded
  <2>6. Typed' /\ Apart' /\ StateNames'
    BY <2>1 DEF Named, Typed, Apart, StateNames, Runs
  <2>7. OwnNames'
    BY <2>1, <2>2, <2>4, <2>5 DEF Named, Typed, OwnNames, Runs, i
  <2>8. FoundIsOlder'
    <3>1. found[s].summary = None
      BY <2>1 DEF Named, FoundIsOlder
    <3> QED
      BY <2>1, <3>1 DEF Named, Typed, FoundIsOlder, Runs
  <2> QED
    BY <2>6, <2>7, <2>8 DEF Named
<1>6. ASSUME NEW s \in Sessions, ReadState(s) PROVE Named'
  <2> DEFINE out == own[s].run
  <2>1. /\ UNCHANGED <<runs, active, state, own>> /\ pc[s] = "state"
        /\ pc' = [pc EXCEPT ![s] = "compute"] /\ found' = [found EXCEPT ![s] = FromState(runs[out].date)]
    BY <1>6 DEF ReadState
  <2>2. out \in Runs /\ runs[out].date \in Nat
    BY <1>0, <2>1, RowTypes DEF Named, OwnNames
  <2> HIDE DEF out
  <2>3. ASSUME FromState(runs[out].date).summary # None
        PROVE  /\ FromState(runs[out].date).summary.run \in Runs
               /\ runs[FromState(runs[out].date).summary.run].date < runs[out].date
    <3>1. /\ state # None /\ ~(state.date >= runs[out].date) /\ state.run # 0
          /\ runs[state.run].date = state.date
          /\ FromState(runs[out].date).summary = Loaded(state.run, "summary")
      BY <2>3 DEF FromState, NothingFound
    <3>2. state.run \in Runs /\ runs[state.run].date = state.date /\ state.date \in Nat
      BY <1>0, <3>1, RowTypes DEF Named, StateNames
    <3>3. Loaded(state.run, "summary").run = state.run
      BY <2>3, <3>1 DEF Loaded
    <3> QED
      BY <2>2, <3>1, <3>2, <3>3
  <2>4. Typed' /\ Apart' /\ StateNames' /\ OwnNames'
    BY <2>1 DEF Named, Typed, Apart, StateNames, OwnNames, Runs
  <2>5. FoundIsOlder'
    BY <2>1, <2>3 DEF Named, Typed, FoundIsOlder, Runs, out
  <2> QED
    BY <2>4, <2>5 DEF Named
<1>7. ASSUME NEW s \in Sessions, NEW book \in Rulebooks, Compute(s, book) PROVE Named'
  <2> DEFINE out == own[s].run
  <2>1. /\ UNCHANGED <<active, state, own, found>> /\ pc[s] = "compute"
        /\ pc' = [pc EXCEPT ![s] = "remember"]
        /\ runs' = IF runs[out].there THEN runs
                   ELSE [runs EXCEPT ![out] = [@ EXCEPT !.there = TRUE, !.summary = None, !.digest = None]]
    BY <1>7 DEF Compute
  <2>2. out \in Runs
    BY <2>1 DEF Named, OwnNames
  <2> HIDE DEF out
  <2>3. /\ runs' \in Seq(Rows) /\ Len(runs') = Len(runs) /\ DOMAIN runs' = DOMAIN runs
        /\ \A j \in Runs : runs'[j].date = runs[j].date /\ runs'[j].place = runs[j].place
    <3>1. CASE runs[out].there
      BY <1>0, <2>1, <3>1
    <3>2. CASE ~runs[out].there
      <4> DEFINE row == [runs[out] EXCEPT !.there = TRUE, !.summary = None, !.digest = None]
      <4>1. runs' = [runs EXCEPT ![out] = row]
        BY <1>0, <2>1, <2>2, <3>2
      <4>2. row \in Rows /\ row.date = runs[out].date /\ row.place = runs[out].place
        BY <1>0, <2>2, RowTypes DEF Rows
      <4> HIDE DEF row
      <4> QED
        BY <2>2, <4>1, <4>2, FilesStep
    <3> QED
      BY <3>1, <3>2
  <2>4. Typed'
    BY <2>1, <2>3 DEF Named, Typed
  <2>5. \A t \in Sessions : (pc'[t] = "idle") <=> (pc[t] = "idle")
    BY <2>1 DEF Named, Typed
  <2> QED
    BY <2>1, <2>3, <2>4, <2>5, SameRuns DEF Named
<1>13. ASSUME Rollback PROVE Named'
  BY <1>13 DEF Rollback, Named, Typed, Apart, StateNames, OwnNames, FoundIsOlder, Runs
\* The end of a command.
<1>8. ASSUME NEW s \in Sessions, End(s), UNCHANGED <<runs, active>>, StateNames' PROVE Named'
  <2>1. /\ pc' = [pc EXCEPT ![s] = "idle"] /\ own' = [own EXCEPT ![s] = None]
        /\ found' = [found EXCEPT ![s] = NothingFound] /\ NothingFound.summary = None
    BY <1>8 DEF End, NothingFound
  <2>2. Typed' /\ Apart'
    BY <1>8, <2>1 DEF Named, Typed, Apart, Runs
  <2>3. OwnNames'
    BY <1>8, <2>1 DEF Named, Typed, OwnNames, Runs
  <2>4. FoundIsOlder'
    BY <1>8, <2>1 DEF Named, Typed, FoundIsOlder, Runs
  <2> QED
    BY <1>8, <2>2, <2>3, <2>4 DEF Named
<1>9. ASSUME NEW s \in Sessions, NEW book \in Rulebooks, RulesFail(s, book) PROVE Named'
  BY <1>8, <1>9 DEF RulesFail, Named, StateNames, Runs
<1>10. ASSUME NEW s \in Sessions, Kill(s) PROVE Named'
  BY <1>8, <1>10 DEF Kill, Named, StateNames, Runs
<1>11. ASSUME NEW s \in Sessions, Remember(s) PROVE Named'
  <2> DEFINE date == runs[own[s].run].date
  <2>1. state' = [date |-> date, run |-> ActiveOf(date), digest |-> told[s]] /\ runs' = runs
    BY <1>11 DEF Remember
  <2>2. state'.run = ActiveOf(date) /\ state'.date = date
    BY <2>1
  <2> HIDE DEF date
  <2>3. StateNames'
    BY <1>0, <2>1, <2>2, ActiveType DEF StateNames, Runs
  <2> QED
    BY <1>8, <1>11, <2>3 DEF Remember
<1>12. CASE UNCHANGED vars
  BY <1>12 DEF vars, Named, Typed, Apart, StateNames, OwnNames, FoundIsOlder, Runs
<1> QED
  BY <1>1, <1>3, <1>4, <1>5, <1>6, <1>7, <1>9, <1>10, <1>11, <1>12, <1>13 DEF Next

-----------------------------------------------------------------------------
(* The newest of some runs.                                                *)
IsStrictOrder(S, before) ==
  /\ \A x \in S : <<x, x>> \notin before
  /\ \A x, y \in S : x # y => <<x, y>> \in before \/ <<y, x>> \in before
  /\ \A x, y, z \in S : <<x, y>> \in before /\ <<y, z>> \in before => <<x, z>> \in before

LEMMA Numbered ==
  ASSUME NEW n \in Nat PROVE IsFiniteSet(1 .. n) /\ Cardinality(1 .. n) = n
<1>1. 1 \in Int /\ n \in Int
  OBVIOUS
<1>2. IsFiniteSet(1 .. n) /\ Cardinality(1 .. n) = IF 1 > n THEN 0 ELSE n - 1 + 1
  BY <1>1, FS_Interval
<1> QED
  BY <1>2

\* A sorted list has each member of the set once, and no later one before an
\* earlier one.
LEMMA Sorted ==
  ASSUME NEW S, IsFiniteSet(S), NEW before, IsStrictOrder(S, before)
  PROVE  LET order == InOrder(S, before) IN
         /\ order \in Seq(S) /\ Len(order) = Cardinality(S) /\ DOMAIN order = 1 .. Cardinality(S)
         /\ \A x \in S : \E i \in DOMAIN order : order[i] = x
         /\ \A i, j \in DOMAIN order : i < j => <<order[i], order[j]>> \in before
<1> DEFINE n == Cardinality(S)
           rank == [x \in S |-> Cardinality(Below(x, S, before))]
           order == InOrder(S, before)
<1>1. n \in Nat
  BY FS_CardinalityType
<1>2. ASSUME NEW x \in S
      PROVE  IsFiniteSet(Below(x, S, before)) /\ rank[x] \in Nat /\ rank[x] < n
  <2>1. Below(x, S, before) \in SUBSET S /\ x \notin Below(x, S, before)
    BY DEF Below, IsStrictOrder
  <2>2. IsFiniteSet(Below(x, S, before)) /\ Cardinality(Below(x, S, before)) <= n
    BY <2>1, FS_Subset
  <2>3. Cardinality(Below(x, S, before)) # n
    BY <2>1, FS_Subset
  <2> QED
    BY <1>1, <2>2, <2>3, FS_CardinalityType
<1>3. ASSUME NEW x \in S, NEW y \in S, <<x, y>> \in before PROVE rank[x] < rank[y]
  <2>1. Below(x, S, before) \in SUBSET Below(y, S, before)
    BY <1>3 DEF Below, IsStrictOrder
  <2>2. x \in Below(y, S, before) /\ x \notin Below(x, S, before)
    BY <1>3 DEF Below, IsStrictOrder
  <2>3. Cardinality(Below(x, S, before)) <= Cardinality(Below(y, S, before))
    BY <1>2, <2>1, FS_Subset
  <2>4. Cardinality(Below(x, S, before)) # Cardinality(Below(y, S, before))
    BY <1>2, <2>1, <2>2, FS_Subset
  <2> QED
    BY <1>2, <2>3, <2>4
<1> HIDE DEF rank
<1>4. \A x, y \in S : rank[x] = rank[y] => x = y
  <2> SUFFICES ASSUME NEW x \in S, NEW y \in S, x # y PROVE rank[x] # rank[y]
    OBVIOUS
  <2>1. <<x, y>> \in before \/ <<y, x>> \in before
    BY DEF IsStrictOrder
  <2> QED
    BY <1>2, <1>3, <2>1
<1>5. rank \in Injection(S, 0 .. n - 1)
  <2>1. rank \in [S -> 0 .. n - 1]
    BY <1>1, <1>2 DEF rank
  <2> QED
    BY <1>4, <2>1 DEF Injection, IsInjective
<1>6. rank \in Surjection(S, 0 .. n - 1)
  <2>1. IsFiniteSet(0 .. n - 1) /\ Cardinality(0 .. n - 1) = n
    BY <1>1, FS_Interval
  <2> QED
    BY <1>5, <2>1, FS_Injection
<1>7. ASSUME NEW i \in 1 .. n PROVE order[i] \in S /\ rank[order[i]] = i - 1
  <2>1. i - 1 \in 0 .. n - 1
    BY <1>1
  <2>2. \E x \in S : rank[x] = i - 1
    BY <1>6, <2>1 DEF Surjection
  <2>3. order[i] = CHOOSE x \in S : rank[x] = i - 1
    BY DEF InOrder, rank
  <2> HIDE DEF order
  <2> QED
    BY <2>2, <2>3
<1>8. DOMAIN order = 1 .. n
  BY DEF InOrder
<1>9. order \in [1 .. n -> S]
  <2>1. order = [i \in 1 .. n |-> order[i]]
    BY DEF InOrder
  <2> HIDE DEF order
  <2> QED
    BY <1>7, <2>1
<1> HIDE DEF order
<1>10. order \in Seq(S) /\ Len(order) = n
  BY <1>1, <1>9
<1>11. ASSUME NEW x \in S PROVE \E i \in 1 .. n : order[i] = x
  <2>1. rank[x] + 1 \in 1 .. n
    BY <1>1, <1>2
  <2>2. rank[order[rank[x] + 1]] = rank[x] /\ order[rank[x] + 1] \in S
    BY <1>2, <1>7, <2>1
  <2> QED
    BY <1>4, <2>1, <2>2
<1>12. ASSUME NEW i \in 1 .. n, NEW j \in 1 .. n, i < j PROVE <<order[i], order[j]>> \in before
  <2>1. order[i] \in S /\ order[j] \in S /\ rank[order[i]] < rank[order[j]]
    BY <1>7, <1>12
  <2>2. order[i] # order[j]
    BY <1>2, <2>1
  <2>3. ~(<<order[j], order[i]>> \in before)
    BY <1>2, <1>3, <2>1
  <2> QED
    BY <2>1, <2>2, <2>3 DEF IsStrictOrder
<1> QED
  BY <1>8, <1>10, <1>11, <1>12 DEF order

LEMMA ListingsAre ==
  ASSUME NEW some \in SUBSET Runs
  PROVE  /\ Listings(some) \in SUBSET (Runs \X {0, 1})
         /\ \A l \in Listings(some) : l[1] \in some
         /\ \A i \in some : <<i, 0>> \in Listings(some)
  BY DEF Listings

\* Listings are sorted by date, link and place.
LEMMA ListedSorted ==
  ASSUME Named, NEW listed \in SUBSET (Runs \X {0, 1})
  PROVE  IsFiniteSet(listed) /\ IsStrictOrder(listed, Newer(listed))
<1>1. Typed /\ Apart
  BY DEF Named
<1>2. IsFiniteSet(listed)
  <2>1. Runs = 1 .. Len(runs) /\ Len(runs) \in Nat
    BY <1>1, RowTypes
  <2>2. IsFiniteSet(Runs)
    BY <2>1, Numbered
  <2>3. IsFiniteSet({0, 1})
    <3>1. {0, 1} = 0 .. 1 /\ 0 \in Int /\ 1 \in Int
      OBVIOUS
    <3>2. \A a, b \in Int : IsFiniteSet(a .. b)
      BY FS_Interval
    <3> QED
      BY <3>1, <3>2
  <2>4. IsFiniteSet(Runs \X {0, 1})
    BY <2>2, <2>3, FS_Product
  <2> QED
    BY <2>4, FS_Subset
<1>3. \A l, m : <<l, m>> \in Newer(listed) <=> l \in listed /\ m \in listed /\ After(l, m)
  BY DEF Newer
<1>4. \A l \in listed : /\ l = <<l[1], l[2]>> /\ l[1] \in Runs /\ l[2] \in Int
                         /\ runs[l[1]].date \in Nat /\ runs[l[1]].place \in Nat
  BY <1>1, RowTypes
<1>5. \A l \in listed : ~After(l, l)
  BY <1>4 DEF After
<1>6. ASSUME NEW l \in listed, NEW m \in listed, l # m PROVE After(l, m) \/ After(m, l)
  <2>1. l[1] # m[1] \/ l[2] # m[2]
    BY <1>4, <1>6
  <2>2. l[2] = m[2] /\ runs[l[1]].date = runs[m[1]].date => runs[l[1]].place # runs[m[1]].place
    BY <1>1, <1>4, <2>1 DEF Apart
  <2> QED
    BY <1>4, <2>2 DEF After
<1>7. \A l, m, k \in listed : After(l, m) /\ After(m, k) => After(l, k)
  BY <1>4 DEF After
<1> QED
  BY <1>2, <1>3, <1>5, <1>6, <1>7 DEF IsStrictOrder

LEMMA NewestExists ==
  ASSUME Named, NEW listed \in SUBSET (Runs \X {0, 1}), listed # {}
  PROVE  \E l \in listed : Newest(listed) = l[1] /\ \A m \in listed \ {l} : After(l, m)
<1> DEFINE order == InOrder(listed, Newer(listed))
           last == CHOOSE l \in listed : \A m \in listed \ {l} : After(l, m)
<1>1. /\ order \in Seq(listed) /\ DOMAIN order = 1 .. Cardinality(listed)
      /\ \A l \in listed : \E k \in DOMAIN order : order[k] = l
      /\ \A k, n \in DOMAIN order : k < n => <<order[k], order[n]>> \in Newer(listed)
  BY ListedSorted, Sorted
<1>2. Cardinality(listed) \in Nat /\ Cardinality(listed) # 0
  BY ListedSorted, FS_CardinalityType, FS_EmptySet
<1> HIDE DEF order
<1>3. 1 \in DOMAIN order /\ order[1] \in listed
  BY <1>1, <1>2
<1>4. ASSUME NEW m \in listed \ {order[1]} PROVE After(order[1], m)
  <2>1. PICK k \in DOMAIN order : order[k] = m
    BY <1>1
  <2>2. 1 < k
    BY <1>1, <2>1
  <2> QED
    BY <1>1, <1>3, <2>1, <2>2 DEF Newer
<1>5. last \in listed /\ \A m \in listed \ {last} : After(last, m)
  BY <1>3, <1>4
<1>6. Newest(listed) = last[1]
  BY DEF Newest
<1> QED
  BY <1>5, <1>6

-----------------------------------------------------------------------------
(* What a week is compared with.                                           *)

\* The search finds one of the older weeks if there is one, and nothing only if the
\* newest of them does not load.
LEMMA Searched ==
  ASSUME Named, NEW out \in Runs, NEW date
  PROVE  LET p == Discover("summary", date, out)
             older == OlderThan(date, "summary")
         IN  /\ p # None /\ older # {} => p.run \in older
             /\ p = None /\ older # {} =>
                  \E i \in older : /\ Load(i, "summary") = None
                                   /\ \A j \in older : runs[j].date <= runs[i].date
<1> DEFINE p == Discover("summary", date, out)
           older == OlderThan(date, "summary")
<1> SUFFICES ASSUME older # {}
             PROVE  /\ p # None => p.run \in older
                    /\ p = None => \E i \in older : /\ Load(i, "summary") = None
                                                    /\ \A j \in older : runs[j].date <= runs[i].date
  OBVIOUS
<1>1. older \in SUBSET Runs
  BY DEF OlderThan
<1>2. /\ Listings(older) \in SUBSET (Runs \X {0, 1}) /\ Listings(older) # {}
      /\ \A l \in Listings(older) : l[1] \in older
      /\ \A i \in older : <<i, 0>> \in Listings(older)
  <2> HIDE DEF older
  <2> QED
    BY <1>1, ListingsAre
<1>3. p = Loaded(Newest(Listings(older)), "summary")
  BY <1>2 DEF Discover
<1> HIDE DEF p, older
<1>4. PICK l \in Listings(older) :
        Newest(Listings(older)) = l[1] /\ \A m \in Listings(older) \ {l} : After(l, m)
  BY <1>2, NewestExists
<1> DEFINE i == l[1]
<1>5. i \in older /\ i \in Runs /\ p = Loaded(i, "summary")
  BY <1>1, <1>2, <1>3, <1>4
<1>6. \A j \in older : runs[j].date <= runs[i].date
  <2> SUFFICES ASSUME NEW j \in older PROVE runs[j].date <= runs[i].date
    OBVIOUS
  <2>1. runs[i].date \in Nat /\ runs[j].date \in Nat
    BY <1>1, <1>5, RowTypes DEF Named
  <2>2. CASE l = <<j, 0>>
    BY <2>1, <2>2
  <2>3. CASE l # <<j, 0>>
    <3>1. After(l, <<j, 0>>)
      BY <1>2, <1>4, <2>3
    <3> QED
      BY <2>1, <3>1 DEF After
  <2> QED
    BY <2>2, <2>3
<1> HIDE DEF i
<1>7. p # None => p.run = i
  BY <1>5 DEF Loaded
<1>8. p = None => Load(i, "summary") = None
  <2> SUFFICES ASSUME Load(i, "summary") # None PROVE p # None
    OBVIOUS
  <2>1. i \in Nat /\ i # None
    BY <1>5, RowTypes, FilesAreTyped DEF Named
  <2>2. Load(i, "summary") \in Summaries
    BY <1>5, RowTypes DEF Load, Holds, Named
  <2>3. p \in [run : Nat, content : Summaries]
    BY <1>5, <2>1, <2>2 DEF Loaded
  <2> QED
    BY <2>3, FilesAreTyped
<1> QED
  BY <1>5, <1>6, <1>7, <1>8

LEMMA PreviousKept == Named => PreviousIsOlder
<1> SUFFICES ASSUME Named, NEW s \in Computing
             PROVE  LET date == runs[own[s].run].date
                        p == Compared(s)
                        older == {i \in Runs : Holds(i, "summary") /\ runs[i].date < date}
                        newest == {i \in older : \A j \in older : runs[j].date <= runs[i].date}
                    IN  /\ p # None /\ p.run # 0 /\ runs[p.run].date >= date => older = {}
                        /\ p = None /\ newest # {} => \E i \in newest : runs[i].summary = Unreadable
  BY DEF PreviousIsOlder
<1> DEFINE out == own[s].run
           date == runs[out].date
           p == Compared(s)
           older == OlderThan(date, "summary")
           newest == {i \in older : \A j \in older : runs[j].date <= runs[i].date}
           here == Previous(s, "summary")
<1>1. s \in Sessions /\ pc[s] = "compute" /\ Typed
  BY DEF Computing, Named
<1>2. out \in Runs /\ date \in Nat
  BY <1>1, RowTypes DEF Named, OwnNames
<1>3. older \in SUBSET Runs /\ \A i \in older : Holds(i, "summary") /\ runs[i].date < date /\ runs[i].date \in Nat
  BY <1>1, RowTypes DEF OlderThan
<1>4. \/ p = here
      \/ here = None /\ p.run = 0 /\ p # None
  <2>1. CASE here # None \/ Explicit = None \/ Explicit.date >= date
    BY <2>1 DEF Compared, OrExplicit
  <2>2. CASE ~(here # None \/ Explicit = None \/ Explicit.date >= date)
    <3>1. p = [run |-> 0, content |-> Explicit.week] /\ here = None
      BY <2>2 DEF Compared, OrExplicit
    <3>2. p \in [run : Nat, content : Summaries]
      BY <2>2, <3>1, FilesAreTyped
    <3> QED
      BY <3>1, <3>2, FilesAreTyped
  <2> QED
    BY <2>1, <2>2
<1>5. \/ here = found[s].summary /\ here # None /\ here.run \in Runs /\ runs[here.run].date < date
      \/ here = Discover("summary", date, out)
  BY <1>1 DEF Previous, Named, FoundIsOlder
<1>6. /\ here # None /\ runs[here.run].date >= date => older = {}
      /\ here = None /\ older # {} => \E i \in newest : Load(i, "summary") = None
  <2>1. CASE here = found[s].summary /\ here # None /\ here.run \in Runs /\ runs[here.run].date < date
    <3>1. runs[here.run].date \in Nat
      BY <1>1, <2>1, RowTypes
    <3> HIDE DEF here, older
    <3> QED
      BY <1>2, <2>1, <3>1
  <2>2. CASE here = Discover("summary", date, out)
    <3>1. /\ here # None /\ older # {} => here.run \in older
          /\ here = None /\ older # {} =>
               \E i \in older : Load(i, "summary") = None /\ \A j \in older : runs[j].date <= runs[i].date
      BY <1>2, <2>2, Searched
    <3> HIDE DEF here, older
    <3> QED
      BY <1>2, <1>3, <3>1
  <2> QED
    BY <1>5, <2>1, <2>2
<1>7. ASSUME NEW i \in newest, Load(i, "summary") = None PROVE runs[i].summary = Unreadable
  BY <1>3, <1>7 DEF Load, Holds
<1>8. older = {i \in Runs : Holds(i, "summary") /\ runs[i].date < date}
  BY DEF OlderThan
<1>9. newest # {} => older # {}
  OBVIOUS
<1> HIDE DEF older, here, p
<1>10. /\ p # None /\ p.run # 0 /\ runs[p.run].date >= date => older = {}
       /\ p = None /\ newest # {} => \E i \in newest : runs[i].summary = Unreadable
  BY <1>4, <1>6, <1>7, <1>9
<1> QED
  BY <1>8, <1>10 DEF p

\* Whatever the reviews, replays, refusals and removals in between, and wherever
\* runs/current leads, insights compares a week with one of no earlier week only when
\* the directory holds none, and calls it a first run only if what it would compare is
\* damaged.
THEOREM ComparedWithTheWeekBefore == Spec => []PreviousIsOlder
  BY NamedInit, NamedStep, PreviousKept, PTL DEF Spec

-----------------------------------------------------------------------------
(* What is proposed for retirement.                                        *)

\* The older weeks that load.
Past(date) == {i \in OlderThan(date, "summary") : Load(i, "summary") # None}

LEMMA PastIs ==
  ASSUME Named, NEW date
  PROVE  /\ Past(date) \in SUBSET Runs
         /\ Past(date) = {i \in Runs : runs[i].there /\ runs[i].summary \in Summaries /\ runs[i].date < date}
<1>1. ASSUME NEW i \in Runs
      PROVE  Holds(i, "summary") /\ Load(i, "summary") # None <=> runs[i].there /\ runs[i].summary \in Summaries
  <2>1. runs[i].summary \in Summaries \cup {None, Unreadable}
    BY RowTypes DEF Named
  <2>2. runs[i].summary \in Summaries <=> runs[i].summary # None /\ runs[i].summary # Unreadable
    BY <2>1, FilesAreTyped
  <2> QED
    BY <2>2 DEF Holds, Load
<1> QED
  BY <1>1 DEF Past, OlderThan

\* A week that is not among those that the rules are given has Limit listings of its
\* date or a later one.
LEMMA LeftOut ==
  ASSUME Named, NEW date, NEW i \in Past(date), Limit \in Nat,
         \A k \in DOMAIN Older(date) : Older(date)[k] # i
  PROVE  Cardinality(Listings({j \in Past(date) : runs[j].date >= runs[i].date})) >= Limit
<1> DEFINE past == Listings(Past(date))
           order == InOrder(past, Newer(past))
           shown == IF Len(order) < Limit THEN Len(order) ELSE Limit - 1
           kept == SubSeq(order, 1, shown)
           later == {j \in Past(date) : runs[j].date >= runs[i].date}
           nearer == Listings(later)
           l == <<i, 0>>
<1>0. Past(date) \in SUBSET Runs /\ later \in SUBSET Runs
  BY PastIs
<1>1. past \in SUBSET (Runs \X {0, 1}) /\ nearer \in SUBSET (Runs \X {0, 1}) /\ l \in past
  <2> HIDE DEF later
  <2> QED
    BY <1>0, ListingsAre
<1>2. Older(date) = [k \in DOMAIN kept |-> kept[k][1]]
  BY DEF Older, Past
<1>3. /\ order \in Seq(past) /\ Len(order) = Cardinality(past) /\ DOMAIN order = 1 .. Cardinality(past)
      /\ \A j \in past : \E k \in DOMAIN order : order[k] = j
      /\ \A k, n \in DOMAIN order : k < n => <<order[k], order[n]>> \in Newer(past)
      /\ IsFiniteSet(past) /\ Cardinality(past) \in Nat
  <2> HIDE DEF past
  <2> QED
    BY <1>1, ListedSorted, Sorted, FS_CardinalityType
<1>4. ASSUME NEW m \in past
      PROVE  /\ m = <<m[1], m[2]>> /\ m[1] \in Past(date) /\ runs[m[1]].date \in Nat /\ runs[m[1]].place \in Nat
             /\ m[2] \in Int /\ (runs[m[1]].date >= runs[i].date => m \in nearer)
  <2>1. m \in Runs \X {0, 1} /\ m[1] \in Past(date)
    BY <1>0, <1>1, ListingsAre
  <2>2. m[1] \in later => m \in nearer
    BY <2>1 DEF Listings
  <2> QED
    BY <1>0, <2>1, <2>2, RowTypes DEF Named
<1>5. l \in past /\ l[1] = i
  BY <1>1
<1> HIDE DEF order, past, later, nearer, l
<1>6. PICK m \in DOMAIN order : order[m] = l
  BY <1>3, <1>5
<1>7. m \in 1 .. Len(order) /\ Len(order) \in Nat
  BY <1>3
<1>8. m > shown
  <2>1. ASSUME m <= shown PROVE m \in DOMAIN kept /\ kept[m] = l
    <3>1. shown \in 1 .. Len(order)
      BY <1>7, <2>1
    <3> HIDE DEF shown
    <3> QED
      BY <1>3, <1>6, <1>7, <2>1, <3>1
  <2> HIDE DEF kept
  <2>2. ~(m <= shown)
    BY <1>2, <1>5, <2>1
  <2>3. shown \in Int
    BY <1>7
  <2> QED
    BY <1>7, <2>2, <2>3
<1>9. m >= Limit
  BY <1>7, <1>8
<1>10. ASSUME NEW k \in 1 .. m PROVE order[k] \in nearer
  <2>1. k \in DOMAIN order /\ order[k] \in past
    BY <1>3, <1>7
  <2>2. CASE k = m
    BY <1>4, <1>5, <1>6, <2>1, <2>2
  <2>3. CASE k < m
    <3>1. <<order[k], order[m]>> \in Newer(past)
      BY <1>3, <2>1, <2>3
    <3>2. After(order[k], l)
      BY <1>6, <3>1 DEF Newer
    <3> QED
      BY <1>4, <1>5, <2>1, <3>2 DEF After
  <2> QED
    BY <1>7, <2>2, <2>3
<1>11. ASSUME NEW k \in 1 .. m, NEW n \in 1 .. m, k < n PROVE order[k] # order[n]
  <2>1. k \in DOMAIN order /\ n \in DOMAIN order
    BY <1>3, <1>7
  <2>2. After(order[k], order[n])
    BY <1>3, <1>11, <2>1 DEF Newer
  <2> QED
    BY <1>3, <1>4, <2>1, <2>2 DEF After
<1> DEFINE first == [k \in 1 .. m |-> order[k]]
<1>12. first \in [1 .. m -> nearer]
  BY <1>10
<1>13. ASSUME NEW k \in 1 .. m, NEW n \in 1 .. m, first[k] = first[n] PROVE k = n
  BY <1>11, <1>13
<1>14. IsFiniteSet(nearer)
  BY <1>1, ListedSorted
<1> HIDE DEF first
<1>15. first \in Injection(1 .. m, nearer)
  BY <1>12, <1>13 DEF Injection, IsInjective
<1>16. Cardinality(1 .. m) <= Cardinality(nearer) /\ Cardinality(1 .. m) = m
  BY <1>7, <1>14, <1>15, FS_Injection, Numbered
<1>17. Cardinality(nearer) \in Nat
  BY <1>14, FS_CardinalityType
<1> QED
  BY <1>7, <1>9, <1>16, <1>17 DEF nearer, later

\* What the rules are given: the week of the command, then the older ones.
LEMMA WeeksAre ==
  ASSUME NEW week, NEW older \in Seq(Runs)
  PROVE  LET weeks == <<week>> \o [k \in DOMAIN older |-> runs[older[k]].summary] IN
         /\ weeks[1] = week
         /\ \A k \in DOMAIN older : k + 1 \in DOMAIN weeks /\ weeks[k + 1] = runs[older[k]].summary
<1> DEFINE rest == [k \in DOMAIN older |-> runs[older[k]].summary]
<1>1. rest = [k \in 1 .. Len(older) |-> rest[k]] /\ Len(older) \in Nat
  OBVIOUS
<1>2. rest \in Seq({rest[k] : k \in 1 .. Len(older)}) /\ Len(rest) = Len(older)
  <2> HIDE DEF rest
  <2> QED
    BY <1>1
<1>3. \A k \in DOMAIN older : rest[k] = runs[older[k]].summary
  OBVIOUS
<1>4. DOMAIN older = 1 .. Len(older)
  OBVIOUS
<1> HIDE DEF rest
<1> QED
  BY <1>1, <1>2, <1>3, <1>4 DEF rest

LEMMA OlderType == ASSUME Named, NEW date PROVE Older(date) \in Seq(Runs)
<1> DEFINE past == Listings(Past(date))
           order == InOrder(past, Newer(past))
           shown == IF Len(order) < Limit THEN Len(order) ELSE Limit - 1
           kept == SubSeq(order, 1, shown)
<1>1. past \in SUBSET (Runs \X {0, 1})
  BY PastIs, ListingsAre
<1>2. Older(date) = [k \in DOMAIN kept |-> kept[k][1]]
  BY DEF Older, Past
<1>3. Limit \in Nat
  BY BoundsAreNaturals
<1> HIDE DEF past
<1>4. order \in Seq(past)
  BY <1>1, ListedSorted, Sorted
<1> HIDE DEF order
<1>5. Len(order) \in Nat /\ shown \in Int /\ shown <= Len(order)
  BY <1>3, <1>4
<1> HIDE DEF shown
<1>6. kept \in Seq(past)
  BY <1>4, <1>5
<1> HIDE DEF kept
<1>7. DOMAIN kept = 1 .. Len(kept) /\ Len(kept) \in Nat /\ \A k \in DOMAIN kept : kept[k][1] \in Runs
  BY <1>1, <1>6
<1> QED
  BY <1>2, <1>7

LEMMA RetireKept == Named => RetireSparesUsed
<1> SUFFICES ASSUME Named, NEW s \in Computing,
                    NEW f \in Insights(s).findings, f.category = "retire-candidate"
             PROVE  LET week == own[s].content
                        date == runs[own[s].run].date
                        past == {i \in Runs : runs[i].there /\ runs[i].summary \in Summaries /\ runs[i].date < date}
                    IN  /\ f.target \in week.catalog \ week.pins
                        /\ {<<"skill-maintenance", f.target>>, <<None, f.target>>} \cap Ignored = {}
                        /\ \A i \in past : f.target \notin runs[i].summary.never =>
                             Cardinality(Listings({j \in past : runs[j].date >= runs[i].date})) >= Limit
  BY DEF RetireSparesUsed
<1> DEFINE week == own[s].content
           date == runs[own[s].run].date
           older == Older(date)
           weeks == <<week>> \o [k \in DOMAIN older |-> runs[older[k]].summary]
           digest == Load(own[s].run, "digest")
<1>1. Insights(s).findings = MaintenanceFindings(weeks, digest)
  BY DEF Insights
<1> HIDE DEF weeks
<1>2. f \in {Finding("retire-candidate", k) : k \in RetireCandidates(weeks)}
  BY <1>1 DEF MaintenanceFindings, Kept, Finding
<1>3. f.target \in RetireCandidates(weeks)
  BY <1>2 DEF Finding
<1>4. /\ \A i \in DOMAIN weeks : f.target \in weeks[i].never
      /\ ~Protects(weeks[1], f.target) /\ ~IsIgnored(Ignored, "skill-maintenance", f.target)
  BY <1>3 DEF RetireCandidates
<1>5. /\ weeks[1] = week
      /\ \A k \in DOMAIN older : k + 1 \in DOMAIN weeks /\ weeks[k + 1] = runs[older[k]].summary
  <2>1. older \in Seq(Runs)
    BY OlderType
  <2> HIDE DEF week, date, older, digest
  <2> QED
    BY <2>1, WeeksAre DEF weeks
<1>6. f.target \in week.catalog \ week.pins
  BY <1>4, <1>5 DEF Protects
<1>7. {<<"skill-maintenance", f.target>>, <<None, f.target>>} \cap Ignored = {}
  BY <1>4 DEF IsIgnored
<1>8. ASSUME NEW i \in Past(date), f.target \notin runs[i].summary.never
      PROVE  Cardinality(Listings({j \in Past(date) : runs[j].date >= runs[i].date})) >= Limit
  <2>1. \A k \in DOMAIN older : older[k] # i
    BY <1>4, <1>5, <1>8
  <2> QED
    BY <2>1, LeftOut, BoundsAreNaturals
<1> QED
  BY <1>6, <1>7, <1>8, PastIs

\* A skill that one of the last Limit listings of a week that loads has used, that the
\* user pinned or ignores, or that is not of the catalogue is not proposed for
\* retirement, whatever weeks are in the directory, wherever runs/current leads and
\* whatever was damaged or removed.
THEOREM UsedSkillsStay == Spec => []RetireSparesUsed
  BY NamedInit, NamedStep, RetireKept, PTL DEF Spec

-----------------------------------------------------------------------------
(* Functions that are defined by recursion over the naturals.              *)

LEMMA Least ==
  ASSUME NEW some, some \subseteq Nat, some # {}
  PROVE  \E x \in some : \A y \in some : x <= y
<1>1. PICK x \in some : \A y \in some : ~ (<<y, x>> \in OpToRel(<, Nat))
  BY WFMin, NatLessThanWellFounded
<1>2. ASSUME NEW y \in some PROVE x <= y
  <2>1. x \in Nat /\ y \in Nat /\ ~ (<<y, x>> \in OpToRel(<, Nat))
    BY <1>1
  <2> QED
    BY <2>1 DEF OpToRel
<1> QED
  BY <1>2

\* A set of numbers that has 0 and the successors of its members up to n has all
\* of them up to n.
LEMMA Inductively ==
  ASSUME NEW n \in Nat, NEW some, 0 \in some, \A k \in 0 .. n - 1 : k \in some => k + 1 \in some
  PROVE  \A k \in 0 .. n : k \in some
<1> DEFINE others == {k \in 0 .. n : k \notin some}
<1> SUFFICES ASSUME others # {} PROVE FALSE
  OBVIOUS
<1>0. others \subseteq Nat
  OBVIOUS
<1>1. PICK k \in others : \A j \in others : k <= j
  <2> HIDE DEF others
  <2> QED
    BY <1>0, Least
<1>2. k - 1 \in 0 .. n - 1 /\ k - 1 \notin others
  BY <1>1
<1> QED
  BY <1>1, <1>2

\* The values of an iteration up to n.
Begins(g, n, S, first, step) ==
  g \in [0 .. n -> S] /\ g[0] = first /\ \A k \in 0 .. n - 1 : g[k + 1] = step[g[k]]
Beginning(n, S, first, step) == CHOOSE g : Begins(g, n, S, first, step)

LEMMA BeginningsAgree ==
  ASSUME NEW S, NEW first, NEW step, NEW m \in Nat, NEW n \in Nat, m <= n,
         NEW g, NEW h, Begins(g, m, S, first, step), Begins(h, n, S, first, step)
  PROVE  \A k \in 0 .. m : g[k] = h[k]
<1> DEFINE same == {k \in 0 .. m : g[k] = h[k]}
<1>1. 0 \in same
  BY DEF Begins
<1>2. ASSUME NEW k \in 0 .. m - 1, k \in same PROVE k + 1 \in same
  <2>1. k + 1 \in 0 .. m /\ k \in 0 .. n - 1
    OBVIOUS
  <2> QED
    BY <1>2, <2>1 DEF Begins
<1> HIDE DEF same
<1>3. \A k \in 0 .. m : k \in same
  BY <1>1, <1>2, Inductively
<1> QED
  BY <1>3 DEF same

LEMMA Iterates ==
  ASSUME NEW S, NEW first \in S, NEW step \in [S -> S]
  PROVE  \E f \in [Nat -> S] : f[0] = first /\ \A n \in Nat : f[n + 1] = step[f[n]]
<1> DEFINE able == {n \in Nat : \E g : Begins(g, n, S, first, step)}
<1>1. 0 \in able
  <2>1. Begins([k \in 0 .. 0 |-> first], 0, S, first, step)
    BY DEF Begins
  <2> QED
    BY <2>1
<1>2. ASSUME NEW n \in Nat, n \in able PROVE n + 1 \in able
  <2>1. PICK g : Begins(g, n, S, first, step)
    BY <1>2
  <2> DEFINE h == [k \in 0 .. n + 1 |-> IF k = n + 1 THEN step[g[n]] ELSE g[k]]
  <2>2. g \in [0 .. n -> S] /\ g[0] = first /\ \A k \in 0 .. n - 1 : g[k + 1] = step[g[k]]
    BY <2>1 DEF Begins
  <2>3. g[n] \in S /\ step[g[n]] \in S
    BY <2>2
  <2>4. h \in [0 .. n + 1 -> S]
    BY <2>2, <2>3
  <2>5. h[0] = first
    BY <2>2
  <2>6. ASSUME NEW k \in 0 .. n PROVE h[k + 1] = step[h[k]]
    <3>1. h[k] = g[k] /\ k \in 0 .. n + 1 /\ k + 1 \in 0 .. n + 1
      OBVIOUS
    <3>2. CASE k = n
      BY <3>1, <3>2
    <3>3. CASE k # n
      <4>1. k \in 0 .. n - 1 /\ k + 1 # n + 1
        BY <3>3
      <4>2. h[k + 1] = g[k + 1]
        BY <3>1, <4>1
      <4> QED
        BY <2>2, <3>1, <4>1, <4>2
    <3> QED
      BY <3>2, <3>3
  <2> HIDE DEF h
  <2>7. Begins(h, n + 1, S, first, step)
    BY <2>4, <2>5, <2>6 DEF Begins
  <2> QED
    BY <2>7
<1> HIDE DEF able
<1>3. ASSUME NEW n \in Nat PROVE n \in able
  <2>1. \A k \in 0 .. n - 1 : k \in able => k + 1 \in able
    BY <1>2
  <2>2. \A k \in 0 .. n : k \in able
    BY <1>1, <2>1, Inductively
  <2> QED
    BY <2>2
<1>4. ASSUME NEW n \in Nat PROVE Begins(Beginning(n, S, first, step), n, S, first, step)
  BY <1>3 DEF able, Beginning
<1> DEFINE f == [n \in Nat |-> Beginning(n, S, first, step)[n]]
<1>5. f \in [Nat -> S]
  <2>1. ASSUME NEW n \in Nat PROVE Beginning(n, S, first, step)[n] \in S
    BY <1>4 DEF Begins
  <2> QED
    BY <2>1
<1>6. f[0] = first
  BY <1>4 DEF Begins
<1>7. ASSUME NEW n \in Nat PROVE f[n + 1] = step[f[n]]
  <2> DEFINE g == Beginning(n, S, first, step)
             h == Beginning(n + 1, S, first, step)
  <2>1. Begins(g, n, S, first, step) /\ Begins(h, n + 1, S, first, step) /\ n + 1 \in Nat /\ n <= n + 1
    BY <1>4
  <2>2. f[n] = g[n] /\ f[n + 1] = h[n + 1]
    OBVIOUS
  <2> HIDE DEF f, g, h
  <2>3. g[n] = h[n]
    BY <2>1, BeginningsAgree
  <2>4. h[n + 1] = step[h[n]]
    BY <2>1 DEF Begins
  <2> QED
    BY <2>2, <2>3, <2>4
<1> QED
  BY <1>5, <1>6, <1>7

-----------------------------------------------------------------------------
(* What a rule is once its file is resolved.                               *)

Sound(book) == book \in Rulebooks /\ ~LoadFails(book)
Fields == {"id", "extends", "threshold", "ignore", "scope", "names", "state"}

LEMMA FilesOf ==
  ASSUME NEW book, Sound(book)
  PROVE  /\ Len(book) \in Nat
         /\ \A i \in DOMAIN book : book[i].id \in RuleIds(book) /\ FileOf(book, book[i].id) = book[i]
         /\ \A r \in RuleIds(book) :
              /\ FileOf(book, r).id = r /\ r # "rule-error"
              /\ DOMAIN FileOf(book, r) = Fields /\ FileOf(book, r) = [f \in Fields |-> FileOf(book, r)[f]]
              /\ FileOf(book, r).extends # None => FileOf(book, r).extends \in RuleIds(book)
<1> DEFINE n == Len(book)
           id == [i \in 1 .. n |-> book[i].id]
<1>1. /\ book \in Seq({book[i] : i \in DOMAIN book}) /\ n \in Nat /\ DOMAIN book = 1 .. n
      /\ \A i \in DOMAIN book : book[i] = [f \in Fields |-> book[i][f]] /\ book[i].id # "rule-error"
  <2>1. book \in Seq({book[i] : i \in DOMAIN book})
    BY RulesAreTyped DEF Sound
  <2>2. \A i \in DOMAIN book : book[i] = [f \in Fields |-> book[i][f]] /\ book[i].id # "rule-error"
    BY RulesAreTyped, Zenon DEF Sound, Fields
  <2>3. n \in Nat /\ DOMAIN book = 1 .. n
    BY <2>1
  <2> QED
    BY <2>1, <2>2, <2>3
<1>2. Cardinality(RuleIds(book)) = n
  BY DEF Sound, LoadFails
<1>3. id \in Surjection(1 .. n, RuleIds(book))
  BY <1>1 DEF Surjection, RuleIds
<1>4. IsFiniteSet(1 .. n) /\ Cardinality(1 .. n) = n
  BY <1>1, Numbered
<1> HIDE DEF id
<1>5. id \in Injection(1 .. n, RuleIds(book))
  BY <1>2, <1>3, <1>4, FS_Surjection
<1>6. \A i, j \in 1 .. n : book[i].id = book[j].id => i = j
  BY <1>5 DEF Injection, IsInjective, id
<1>7. ASSUME NEW i \in DOMAIN book PROVE book[i].id \in RuleIds(book) /\ FileOf(book, book[i].id) = book[i]
  BY <1>1, <1>6 DEF RuleIds, FileOf
<1>8. ASSUME NEW r \in RuleIds(book)
      PROVE  /\ FileOf(book, r).id = r /\ r # "rule-error"
             /\ DOMAIN FileOf(book, r) = Fields /\ FileOf(book, r) = [f \in Fields |-> FileOf(book, r)[f]]
             /\ FileOf(book, r).extends # None => FileOf(book, r).extends \in RuleIds(book)
  <2>1. PICK i \in DOMAIN book : r = book[i].id
    BY DEF RuleIds
  <2>2. FileOf(book, r) = book[i]
    BY <1>7, <2>1
  <2>3. FileOf(book, r).extends \in RuleIds(book) \cup {None}
    BY DEF Sound, LoadFails, ParentOf
  <2> QED
    BY <1>1, <2>1, <2>2, <2>3
<1> QED
  BY <1>1, <1>7, <1>8

\* The file of a rule, and those above it along extends.
Climbs(up, book, r) ==
  up = [n \in Nat |-> IF n = 0 THEN FileOf(book, r)
                      ELSE LET below == up[n - 1] IN
                           IF below.extends = None THEN below ELSE FileOf(book, below.extends)]
Above(book, r) == CHOOSE up : Climbs(up, book, r)

LEMMA AboveGoes ==
  ASSUME NEW book, Sound(book), NEW r \in RuleIds(book)
  PROVE  /\ Above(book, r)[0] = FileOf(book, r)
         /\ \A n \in Nat : Above(book, r)[n + 1] = IF Above(book, r)[n].extends = None THEN Above(book, r)[n]
                                                   ELSE FileOf(book, Above(book, r)[n].extends)
<1> DEFINE files == {FileOf(book, q) : q \in RuleIds(book)}
           step == [file \in files |-> IF file.extends = None THEN file ELSE FileOf(book, file.extends)]
<1>1. ASSUME NEW file \in files
      PROVE  (IF file.extends = None THEN file ELSE FileOf(book, file.extends)) \in files
  BY FilesOf
<1>2. step \in [files -> files] /\ FileOf(book, r) \in files
  BY <1>1
<1>3. \A file \in files : step[file] = IF file.extends = None THEN file ELSE FileOf(book, file.extends)
  OBVIOUS
<1> HIDE DEF files, step
<1>4. PICK f \in [Nat -> files] : f[0] = FileOf(book, r) /\ \A n \in Nat : f[n + 1] = step[f[n]]
  BY <1>2, Iterates
<1>5. ASSUME NEW n \in Nat
      PROVE  f[n] = IF n = 0 THEN FileOf(book, r)
                    ELSE LET below == f[n - 1] IN
                         IF below.extends = None THEN below ELSE FileOf(book, below.extends)
  <2>1. CASE n = 0
    BY <1>4, <2>1
  <2>2. CASE n # 0
    <3>1. n - 1 \in Nat /\ (n - 1) + 1 = n
      BY <2>2
    <3>2. f[n] = step[f[n - 1]] /\ f[n - 1] \in files
      BY <1>4, <3>1
    <3> QED
      BY <1>3, <2>2, <3>2
  <2> QED
    BY <2>1, <2>2
<1>6. Climbs(f, book, r)
  BY <1>4, <1>5 DEF Climbs
<1>7. Climbs(Above(book, r), book, r)
  BY <1>6 DEF Above
<1> DEFINE up == Above(book, r)
<1> HIDE DEF up
<1>8. up = [n \in Nat |-> IF n = 0 THEN FileOf(book, r)
                          ELSE LET below == up[n - 1] IN
                               IF below.extends = None THEN below ELSE FileOf(book, below.extends)]
  BY <1>7 DEF Climbs, up
<1>9. up[0] = FileOf(book, r)
  BY <1>8
<1>10. ASSUME NEW n \in Nat
       PROVE  up[n + 1] = IF up[n].extends = None THEN up[n] ELSE FileOf(book, up[n].extends)
  <2>1. n + 1 \in Nat /\ n + 1 # 0 /\ (n + 1) - 1 = n
    OBVIOUS
  <2> QED
    BY <1>8, <2>1
<1> QED
  BY <1>9, <1>10 DEF up

\* The files above a rule are its own, then those of its parent.
LEMMA AboveShifts ==
  ASSUME NEW book, Sound(book), NEW r \in RuleIds(book), NEW n \in Nat
  PROVE  IF ParentOf(book, r) = None THEN Above(book, r)[n] = FileOf(book, r)
         ELSE Above(book, r)[n + 1] = Above(book, ParentOf(book, r))[n]
<1> DEFINE p == ParentOf(book, r)
           up == Above(book, r)
           same == {k \in Nat : IF p = None THEN up[k] = FileOf(book, r) ELSE up[k + 1] = Above(book, p)[k]}
<1>1. /\ up[0] = FileOf(book, r) /\ p = FileOf(book, r).extends
      /\ \A k \in Nat : up[k + 1] = IF up[k].extends = None THEN up[k] ELSE FileOf(book, up[k].extends)
  BY AboveGoes DEF ParentOf
<1>2. p # None => /\ Above(book, p)[0] = FileOf(book, p)
                  /\ \A k \in Nat : Above(book, p)[k + 1] =
                       IF Above(book, p)[k].extends = None THEN Above(book, p)[k]
                       ELSE FileOf(book, Above(book, p)[k].extends)
  <2>1. p # None => p \in RuleIds(book)
    BY <1>1, FilesOf
  <2> QED
    BY <2>1, AboveGoes
<1> HIDE DEF p, up
<1>3. 0 \in same
  <2>1. up[0 + 1] = IF up[0].extends = None THEN up[0] ELSE FileOf(book, up[0].extends)
    BY <1>1
  <2> QED
    BY <1>1, <1>2, <2>1
<1>4. ASSUME NEW k \in Nat, k \in same PROVE k + 1 \in same
  <2>1. /\ k + 1 \in Nat /\ up[k + 1] = IF up[k].extends = None THEN up[k] ELSE FileOf(book, up[k].extends)
        /\ up[(k + 1) + 1] = IF up[k + 1].extends = None THEN up[k + 1] ELSE FileOf(book, up[k + 1].extends)
    BY <1>1
  <2>2. CASE p = None
    BY <1>1, <1>4, <2>1, <2>2
  <2>3. CASE p # None
    BY <1>2, <1>4, <2>1, <2>3
  <2> QED
    BY <2>2, <2>3
<1> HIDE DEF same
<1>5. n \in same
  <2>1. \A k \in 0 .. n - 1 : k \in same => k + 1 \in same
    BY <1>4
  <2> QED
    BY <1>3, <2>1, Inductively
<1> QED
  BY <1>5 DEF same, p, up

\* What the file of a rule, or one of the n above it, declares first.
First(book, r, n, field) ==
  LET declare == {k \in 0 .. n : Above(book, r)[k][field] # None}
  IN  IF declare = {} THEN None
      ELSE Above(book, r)[CHOOSE k \in declare : \A j \in declare : k <= j][field]

LEMMA FirstIs ==
  ASSUME NEW book, NEW r, NEW n \in Nat, NEW field
  PROVE  \/ /\ First(book, r, n, field) = None
            /\ \A k \in 0 .. n : Above(book, r)[k][field] = None
         \/ \E k \in 0 .. n : /\ First(book, r, n, field) = Above(book, r)[k][field]
                              /\ Above(book, r)[k][field] # None
                              /\ \A j \in 0 .. k - 1 : Above(book, r)[j][field] = None
<1> DEFINE declare == {k \in 0 .. n : Above(book, r)[k][field] # None}
           least == CHOOSE k \in declare : \A j \in declare : k <= j
<1>1. CASE declare = {}
  BY <1>1 DEF First
<1>2. CASE declare # {}
  <2>1. declare \subseteq Nat
    OBVIOUS
  <2>2. \E k \in declare : \A j \in declare : k <= j
    <3> HIDE DEF declare
    <3> QED
      BY <1>2, <2>1, Least
  <2>3. least \in declare /\ \A j \in declare : least <= j
    <3> HIDE DEF declare
    <3> QED
      BY <2>2
  <2>4. First(book, r, n, field) = Above(book, r)[least][field]
    BY <1>2 DEF First
  <2> HIDE DEF least
  <2>5. least \in 0 .. n /\ Above(book, r)[least][field] # None
    BY <2>3
  <2>6. \A j \in 0 .. least - 1 : j \in 0 .. n /\ ~(least <= j)
    BY <2>5
  <2>7. \A j \in 0 .. least - 1 : Above(book, r)[j][field] = None
    BY <2>3, <2>6
  <2> QED
    BY <2>4, <2>5, <2>7
<1> QED
  BY <1>1, <1>2

LEMMA FirstSteps ==
  ASSUME NEW book, Sound(book), NEW r \in RuleIds(book), NEW n \in Nat, NEW field
  PROVE  /\ First(book, r, 0, field) = FileOf(book, r)[field]
         /\ ParentOf(book, r) = None => First(book, r, n, field) = FileOf(book, r)[field]
         /\ ParentOf(book, r) # None =>
              First(book, r, n + 1, field) = IF FileOf(book, r)[field] = None
                                             THEN First(book, ParentOf(book, r), n, field)
                                             ELSE FileOf(book, r)[field]
<1> DEFINE up == Above(book, r)
           p == ParentOf(book, r)
<1>1. up[0] = FileOf(book, r)
  BY AboveGoes
<1>2. First(book, r, 0, field) = FileOf(book, r)[field]
  BY <1>1, FirstIs
<1>3. ASSUME p = None PROVE First(book, r, n, field) = FileOf(book, r)[field]
  <2>1. \A k \in 0 .. n : up[k] = FileOf(book, r)
    BY <1>3, AboveShifts
  <2> QED
    BY <2>1, FirstIs
<1>4. ASSUME p # None
      PROVE  First(book, r, n + 1, field) = IF FileOf(book, r)[field] = None THEN First(book, p, n, field)
                                            ELSE FileOf(book, r)[field]
  <2>1. \A k \in Nat : up[k + 1] = Above(book, p)[k]
    BY <1>4, AboveShifts
  <2> HIDE DEF p
  <2>2. \/ /\ First(book, r, n + 1, field) = None
           /\ \A k \in 0 .. n + 1 : up[k][field] = None
        \/ \E k \in 0 .. n + 1 : /\ First(book, r, n + 1, field) = up[k][field]
                                 /\ up[k][field] # None
                                 /\ \A j \in 0 .. k - 1 : up[j][field] = None
    <3>1. n + 1 \in Nat
      OBVIOUS
    <3> QED
      BY <3>1, FirstIs
  <2>3. \/ /\ First(book, p, n, field) = None
           /\ \A k \in 0 .. n : Above(book, p)[k][field] = None
        \/ \E k \in 0 .. n : /\ First(book, p, n, field) = Above(book, p)[k][field]
                             /\ Above(book, p)[k][field] # None
                             /\ \A j \in 0 .. k - 1 : Above(book, p)[j][field] = None
    BY FirstIs
  <2> HIDE DEF up
  <2>4. CASE FileOf(book, r)[field] # None
    BY <1>1, <2>2, <2>4
  <2>5. CASE FileOf(book, r)[field] = None
    <3>1. CASE \A k \in 0 .. n : Above(book, p)[k][field] = None
      <4>1. \A k \in 0 .. n + 1 : up[k][field] = None
        <5> SUFFICES ASSUME NEW k \in 0 .. n + 1, k # 0 PROVE up[k][field] = None
          BY <1>1, <2>5
        <5>1. k - 1 \in 0 .. n /\ (k - 1) + 1 = k
          OBVIOUS
        <5> QED
          BY <2>1, <3>1, <5>1
      <4> QED
        BY <2>2, <2>3, <2>5, <3>1, <4>1
    <3>2. ASSUME NEW k \in 0 .. n, First(book, p, n, field) = Above(book, p)[k][field],
                 Above(book, p)[k][field] # None, \A j \in 0 .. k - 1 : Above(book, p)[j][field] = None
          PROVE  First(book, r, n + 1, field) = First(book, p, n, field)
      <4>1. up[k + 1][field] = Above(book, p)[k][field] /\ k + 1 \in 0 .. n + 1
        BY <2>1
      <4>2. \A j \in 0 .. k : up[j][field] = None
        <5> SUFFICES ASSUME NEW j \in 0 .. k, j # 0 PROVE up[j][field] = None
          BY <1>1, <2>5
        <5>1. j - 1 \in 0 .. k - 1 /\ (j - 1) + 1 = j /\ j - 1 \in Nat
          OBVIOUS
        <5> QED
          BY <2>1, <3>2, <5>1
      <4>3. PICK l \in 0 .. n + 1 : /\ First(book, r, n + 1, field) = up[l][field] /\ up[l][field] # None
                                    /\ \A j \in 0 .. l - 1 : up[j][field] = None
        BY <2>2, <3>2, <4>1
      <4>4. ~(l <= k) /\ ~(k + 1 <= l - 1)
        BY <3>2, <4>1, <4>2, <4>3
      <4>5. l = k + 1
        BY <4>4
      <4> QED
        BY <3>2, <4>1, <4>3, <4>5
    <3> QED
      BY <2>3, <2>5, <3>1, <3>2
  <2> QED
    BY <2>4, <2>5
<1> QED
  BY <1>2, <1>3, <1>4

LEMMA DeclaredIs ==
  ASSUME NEW book, NEW r, NEW field
  PROVE  Declared(book, r, field) = First(book, r, Len(book), field)
  BY DEF Declared, First, Above, Climbs

\* The rules of a file after n layers of inheritance.
Filled(book, r, n) ==
  [FileOf(book, r) EXCEPT !.threshold = First(book, r, n, "threshold"),
                          !.ignore = First(book, r, n, "ignore")]
Layers(layer, book) ==
  layer = [n \in Nat |->
             IF n = 0 THEN [r \in RuleIds(book) |-> FileOf(book, r)]
             ELSE LET below == layer[n - 1] IN
                  [r \in RuleIds(book) |->
                     IF ParentOf(book, r) = None THEN FileOf(book, r)
                     ELSE Merge(below[ParentOf(book, r)], FileOf(book, r))]]

LEMMA FilledKeeps ==
  ASSUME NEW book, Sound(book), NEW r \in RuleIds(book), NEW n
  PROVE  /\ DOMAIN Filled(book, r, n) = Fields
         /\ Filled(book, r, n).threshold = First(book, r, n, "threshold")
         /\ Filled(book, r, n).ignore = First(book, r, n, "ignore")
         /\ Filled(book, r, n).id = r
         /\ Filled(book, r, n).scope = FileOf(book, r).scope
         /\ Filled(book, r, n).names = FileOf(book, r).names
         /\ Filled(book, r, n).state = FileOf(book, r).state
<1>1. DOMAIN FileOf(book, r) = Fields /\ FileOf(book, r).id = r
  BY FilesOf
<1> QED
  BY <1>1 DEF Filled, Fields

LEMMA FilledSteps ==
  ASSUME NEW book, Sound(book), NEW r \in RuleIds(book), NEW n \in Nat
  PROVE  /\ Filled(book, r, 0) = FileOf(book, r)
         /\ Filled(book, r, n + 1) = IF ParentOf(book, r) = None THEN FileOf(book, r)
                                     ELSE Merge(Filled(book, ParentOf(book, r), n), FileOf(book, r))
<1> DEFINE file == FileOf(book, r)
           p == ParentOf(book, r)
<1>1. DOMAIN file = Fields /\ file = [f \in Fields |-> file[f]]
  BY FilesOf
<1>2. [file EXCEPT !.threshold = file["threshold"], !.ignore = file["ignore"]] = file
  <2> HIDE DEF file
  <2> QED
    BY <1>1 DEF Fields
<1>3. Filled(book, r, 0) = file
  <2>1. First(book, r, 0, "threshold") = file["threshold"] /\ First(book, r, 0, "ignore") = file["ignore"]
    BY FirstSteps
  <2> QED
    BY <1>2, <2>1 DEF Filled
<1>4. ASSUME p = None PROVE Filled(book, r, n + 1) = file
  <2>1. n + 1 \in Nat
    OBVIOUS
  <2>2. /\ First(book, r, n + 1, "threshold") = file["threshold"]
        /\ First(book, r, n + 1, "ignore") = file["ignore"]
    BY <1>4, <2>1, FirstSteps
  <2> QED
    BY <1>2, <2>2 DEF Filled
<1>5. ASSUME p # None PROVE Filled(book, r, n + 1) = Merge(Filled(book, p, n), file)
  <2>1. p \in RuleIds(book)
    BY <1>5, FilesOf DEF ParentOf
  <2>2. /\ Filled(book, p, n).threshold = First(book, p, n, "threshold")
        /\ Filled(book, p, n).ignore = First(book, p, n, "ignore")
    BY <2>1, FilledKeeps
  <2>3. /\ First(book, r, n + 1, "threshold") =
             IF file.threshold = None THEN Filled(book, p, n).threshold ELSE file.threshold
        /\ First(book, r, n + 1, "ignore") =
             IF file.ignore = None THEN Filled(book, p, n).ignore ELSE file.ignore
    BY <1>5, <2>2, FirstSteps
  <2> QED
    BY <2>3 DEF Filled, Merge
<1> QED
  BY <1>3, <1>4, <1>5

LEMMA ResolvedIs ==
  ASSUME NEW book, Sound(book)
  PROVE  Resolved(book) = [r \in RuleIds(book) |-> Filled(book, r, Len(book))]
<1> DEFINE ids == RuleIds(book)
           filled == [n \in Nat |-> [r \in ids |-> Filled(book, r, n)]]
           layer == CHOOSE layer : Layers(layer, book)
<1>1. Resolved(book) = layer[Len(book)]
  BY DEF Resolved, Layers
<1>2. ASSUME NEW n \in Nat
      PROVE  filled[n + 1] = [r \in ids |-> IF ParentOf(book, r) = None THEN FileOf(book, r)
                                            ELSE Merge(filled[n][ParentOf(book, r)], FileOf(book, r))]
  <2>1. ASSUME NEW r \in ids
        PROVE  Filled(book, r, n + 1) = IF ParentOf(book, r) = None THEN FileOf(book, r)
                                        ELSE Merge(filled[n][ParentOf(book, r)], FileOf(book, r))
    <3>1. ParentOf(book, r) # None => filled[n][ParentOf(book, r)] = Filled(book, ParentOf(book, r), n)
      BY FilesOf DEF ParentOf
    <3> QED
      BY <3>1, FilledSteps
  <2>2. filled[n + 1] = [r \in ids |-> Filled(book, r, n + 1)]
    OBVIOUS
  <2> QED
    BY <2>1, <2>2
<1>3. filled[0] = [r \in ids |-> FileOf(book, r)]
  BY FilledSteps
<1>4. DOMAIN filled = Nat /\ filled = [n \in Nat |-> filled[n]]
  OBVIOUS
<1> HIDE DEF filled
<1>5. Layers(filled, book)
  <2>1. ASSUME NEW n \in Nat
        PROVE  filled[n] = IF n = 0 THEN [r \in ids |-> FileOf(book, r)]
                           ELSE LET below == filled[n - 1] IN
                                [r \in ids |->
                                   IF ParentOf(book, r) = None THEN FileOf(book, r)
                                   ELSE Merge(below[ParentOf(book, r)], FileOf(book, r))]
    <3>1. n # 0 => n - 1 \in Nat /\ (n - 1) + 1 = n
      OBVIOUS
    <3> QED
      BY <1>2, <1>3, <3>1
  <2> QED
    BY <1>4, <2>1 DEF Layers
<1>6. Layers(layer, book)
  BY <1>5
<1> HIDE DEF layer
<1> DEFINE same == {n \in Nat : layer[n] = filled[n]}
<1>7. 0 \in same
  BY <1>3, <1>6 DEF Layers
<1>8. ASSUME NEW n \in Nat, n \in same PROVE n + 1 \in same
  <2>1. n + 1 \in Nat /\ n + 1 # 0 /\ (n + 1) - 1 = n
    OBVIOUS
  <2>2. layer[n + 1] = [r \in ids |-> IF ParentOf(book, r) = None THEN FileOf(book, r)
                                      ELSE Merge(layer[n][ParentOf(book, r)], FileOf(book, r))]
    BY <1>6, <2>1 DEF Layers
  <2> QED
    BY <1>2, <1>8, <2>1, <2>2
<1> HIDE DEF same
<1>9. Len(book) \in Nat
  BY FilesOf
<1>10. Len(book) \in same
  <2> DEFINE n == Len(book)
  <2>1. n \in Nat
    BY <1>9
  <2> HIDE DEF n
  <2>2. \A k \in 0 .. n - 1 : k \in same => k + 1 \in same
    BY <1>8
  <2>3. \A k \in 0 .. n : k \in same
    BY <1>7, <2>1, <2>2, Inductively
  <2>4. n \in 0 .. n
    BY <2>1
  <2> QED
    BY <2>3, <2>4 DEF n
<1> QED
  BY <1>1, <1>9, <1>10 DEF same, filled

\* What a rule that is loaded reports with.
LEMMA RuleIs ==
  ASSUME NEW book, Sound(book), NEW r \in RuleIds(book)
  PROVE  /\ DOMAIN LoadRules(book, Overrides) = RuleIds(book)
         /\ LoadRules(book, Overrides)[r].id = r
         /\ LoadRules(book, Overrides)[r].threshold = Level(book, r)
         /\ LoadRules(book, Overrides)[r].ignore = Declared(book, r, "ignore")
         /\ LoadRules(book, Overrides)[r].scope = FileOf(book, r).scope
         /\ LoadRules(book, Overrides)[r].names = FileOf(book, r).names
         /\ LoadRules(book, Overrides)[r].state = FileOf(book, r).state
<1> DEFINE rule == Filled(book, r, Len(book))
<1>1. Resolved(book)[r] = rule
  BY ResolvedIs
<1>2. /\ rule.threshold = Declared(book, r, "threshold") /\ rule.ignore = Declared(book, r, "ignore")
      /\ rule.id = r /\ rule.scope = FileOf(book, r).scope /\ rule.names = FileOf(book, r).names
      /\ rule.state = FileOf(book, r).state /\ DOMAIN rule = Fields
  BY DeclaredIs, FilledKeeps
<1> HIDE DEF rule
<1>3. LoadRules(book, Overrides)[r] = IF r \in DOMAIN Overrides THEN [rule EXCEPT !.threshold = Overrides[r]] ELSE rule
  BY <1>1 DEF LoadRules
<1>4. DOMAIN LoadRules(book, Overrides) = RuleIds(book)
  BY DEF LoadRules
<1>5. CASE r \in DOMAIN Overrides
  BY <1>2, <1>3, <1>4, <1>5 DEF Level, Fields
<1>6. CASE r \notin DOMAIN Overrides
  BY <1>2, <1>3, <1>4, <1>6 DEF Level
<1> QED
  BY <1>5, <1>6

\* The loops that a rule is given are those of the week of the command.
LEMMA LoopsAre ==
  ASSUME Named, NEW s \in Sessions, NEW book \in DOMAIN RulesOf
  PROVE  \E context : /\ context.tool_argument_loops = own[s].content.loops
                      /\ Evaluated(s, book) = EvaluateRules(LoadRules(book, Overrides), context, Ignored)
<1> DEFINE older == Older(runs[own[s].run].date)
           weeks == <<own[s].content>> \o [k \in DOMAIN older |-> runs[older[k]].summary]
<1>1. RulesOf[book] = LoadRules(book, Overrides)
  BY DEF RulesOf
<1>2. older \in Seq(Runs)
  BY OlderType
<1>3. weeks[1] = own[s].content
  <2> HIDE DEF older
  <2> QED
    BY <1>2, WeeksAre
<1>4. Evaluated(s, book) = EvaluateRules(LoadRules(book, Overrides), Context(weeks), Ignored)
  BY <1>1 DEF Evaluated
<1> HIDE DEF weeks
<1>5. Context(weeks).tool_argument_loops = own[s].content.loops
  BY <1>3 DEF Context
<1> QED
  BY <1>4, <1>5

\* What one rule adds to the findings.
Outcome(rule, r, context) ==
  IF Raises(rule, context) THEN {Finding("rule-error", r)} ELSE EvaluateRule(rule, context, Ignored)

\* The findings of a category are those of the rule of that name, and the diagnostics
\* those of the rules that raise.
LEMMA FindingsAre ==
  ASSUME NEW rules, NEW context, NEW r \in DOMAIN rules,
         \A q \in DOMAIN rules : rules[q].id = q /\ q # "rule-error"
  PROVE  LET findings == EvaluateRules(rules, context, Ignored)
             silent == IsRuleIgnored(rules[r], Ignored)
             broken == Raises(rules[r], context)
         IN  /\ (Finding("rule-error", r) \in findings) <=> (broken /\ ~silent)
             /\ {f \in findings : f.category = r} =
                  IF broken \/ silent THEN {} ELSE EvaluateRule(rules[r], context, Ignored)
<1> DEFINE findings == EvaluateRules(rules, context, Ignored)
           heard == {q \in DOMAIN rules : ~IsRuleIgnored(rules[q], Ignored)}
<1>1. findings = UNION {Outcome(rules[q], q, context) : q \in heard}
  BY DEF EvaluateRules, Outcome
<1>2. ASSUME NEW q \in DOMAIN rules, NEW f \in EvaluateRule(rules[q], context, Ignored)
      PROVE  f.category = q
  BY <1>2 DEF EvaluateRule, Finding
<1>3. ASSUME NEW q \in DOMAIN rules, NEW f \in Outcome(rules[q], q, context)
      PROVE  \/ Raises(rules[q], context) /\ f = Finding("rule-error", q)
             \/ ~Raises(rules[q], context) /\ f \in EvaluateRule(rules[q], context, Ignored) /\ f.category = q
  BY <1>2 DEF Outcome
<1>4. ASSUME NEW q PROVE Finding("rule-error", q).category = "rule-error" /\ Finding("rule-error", q).target = q
  BY DEF Finding
<1> HIDE DEF findings
<1>5. ASSUME Finding("rule-error", r) \in findings
      PROVE  Raises(rules[r], context) /\ ~IsRuleIgnored(rules[r], Ignored)
  <2>1. PICK q \in heard : Finding("rule-error", r) \in Outcome(rules[q], q, context)
    BY <1>1, <1>5
  <2>2. Raises(rules[q], context) /\ Finding("rule-error", r) = Finding("rule-error", q)
    BY <1>3, <1>4, <2>1
  <2>3. q = r
    BY <1>4, <2>2
  <2> QED
    BY <2>1, <2>2, <2>3
<1>6. ASSUME Raises(rules[r], context), ~IsRuleIgnored(rules[r], Ignored)
      PROVE  Finding("rule-error", r) \in findings
  <2>1. r \in heard
    BY <1>6
  <2>2. Outcome(rules[r], r, context) = {Finding("rule-error", r)}
    BY <1>6 DEF Outcome
  <2> QED
    BY <1>1, <2>1, <2>2
<1>7. ASSUME NEW f \in findings, f.category = r
      PROVE  /\ f \in EvaluateRule(rules[r], context, Ignored)
             /\ ~Raises(rules[r], context) /\ ~IsRuleIgnored(rules[r], Ignored)
  <2>1. PICK q \in heard : f \in Outcome(rules[q], q, context)
    BY <1>1
  <2>2. ~Raises(rules[q], context) /\ f \in EvaluateRule(rules[q], context, Ignored) /\ f.category = q
    BY <1>3, <1>4, <1>7, <2>1
  <2> QED
    BY <1>7, <2>1, <2>2
<1>8. ASSUME ~Raises(rules[r], context), ~IsRuleIgnored(rules[r], Ignored),
             NEW f \in EvaluateRule(rules[r], context, Ignored)
      PROVE  f \in findings /\ f.category = r
  <2>1. r \in heard /\ f \in Outcome(rules[r], r, context)
    BY <1>8 DEF Outcome
  <2> QED
    BY <1>1, <1>2, <2>1
<1>9. {f \in findings : f.category = r} =
        IF Raises(rules[r], context) \/ IsRuleIgnored(rules[r], Ignored) THEN {}
        ELSE EvaluateRule(rules[r], context, Ignored)
  BY <1>7, <1>8
<1> QED
  BY <1>5, <1>6, <1>9 DEF findings

LEMMA RulesKept == Named => RulesAreIndependent
<1> SUFFICES ASSUME Named, NEW s \in Sessions, NEW book \in DOMAIN RulesOf, NEW i \in DOMAIN book,
                    book[i].scope = "tool_argument_loops"
             PROVE  LET loops == own[s].content.loops
                        findings == Evaluated(s, book)
                        r == book[i].id
                        level == Settings[book][r].level
                        broken == book[i].state = "raises" \/ (level = None /\ DOMAIN loops # {})
                        silent == Settings[book][r].silent
                    IN  /\ (Finding("rule-error", r) \in findings) <=> (broken /\ ~silent)
                        /\ {f.target : f \in {f \in findings : f.category = r}} =
                             IF broken \/ silent THEN {}
                             ELSE {t \in DOMAIN loops : loops[t] >= level /\ (book[i].names => ~Off(r, t))}
  BY DEF RulesAreIndependent, Computing
<1> DEFINE loops == own[s].content.loops
           r == book[i].id
           rules == LoadRules(book, Overrides)
           rule == rules[r]
           level == Level(book, r)
           broken == book[i].state = "raises" \/ (level = None /\ DOMAIN loops # {})
<1>1. Sound(book)
  BY DEF RulesOf, Sound
<1>2. r \in RuleIds(book) /\ FileOf(book, r) = book[i]
  BY <1>1, FilesOf
<1>3. Settings[book][r].level = level /\ (Settings[book][r].silent <=> Silent(book, r))
  BY <1>2 DEF Settings
<1>4. \A q \in DOMAIN rules : rules[q].id = q /\ q # "rule-error"
  BY <1>1, FilesOf, RuleIs
<1>5. /\ DOMAIN rules = RuleIds(book) /\ rule.id = r /\ rule.threshold = level
      /\ rule.ignore = Declared(book, r, "ignore") /\ rule.scope = "tool_argument_loops"
      /\ rule.names = book[i].names /\ rule.state = book[i].state
  BY <1>1, <1>2, RuleIs
<1>6. PICK context : /\ context.tool_argument_loops = loops
                     /\ Evaluated(s, book) = EvaluateRules(rules, context, Ignored)
  BY LoopsAre
<1> HIDE DEF r, rules, level, loops
<1>7. IsRuleIgnored(rule, Ignored) <=> Silent(book, r)
  BY <1>5 DEF IsRuleIgnored, IsIgnored, Silent, Off
<1>8. Raises(rule, context) <=> broken
  BY <1>5, <1>6 DEF Raises
<1>9. {f.target : f \in EvaluateRule(rule, context, Ignored)} =
        {t \in DOMAIN loops : loops[t] >= level /\ (book[i].names => ~Off(r, t))}
  <2>1. \A t : IsIgnored(Ignored, r, t) <=> Off(r, t)
    BY DEF IsIgnored, Off
  <2>2. Matched(rule, context) = {t \in DOMAIN loops : loops[t] >= level}
    BY <1>5, <1>6 DEF Matched
  <2>3. ApplyIgnore(rule, Matched(rule, context), Ignored) =
          {t \in DOMAIN loops : loops[t] >= level /\ (book[i].names => ~Off(r, t))}
    <3>1. CASE book[i].names
      BY <1>5, <2>1, <2>2, <3>1 DEF ApplyIgnore
    <3>2. CASE ~book[i].names
      BY <1>5, <2>2, <3>2 DEF ApplyIgnore
    <3> QED
      BY <3>1, <3>2
  <2> DEFINE reached == {t \in DOMAIN loops : loops[t] >= level /\ (book[i].names => ~Off(r, t))}
  <2>4. EvaluateRule(rule, context, Ignored) = {Finding(r, t) : t \in reached}
    BY <1>5, <2>3 DEF EvaluateRule
  <2> HIDE DEF reached
  <2>5. \A t : Finding(r, t).target = t
    BY DEF Finding
  <2>6. {f.target : f \in EvaluateRule(rule, context, Ignored)} = reached
    BY <2>4, <2>5
  <2> QED
    BY <2>6 DEF reached
<1>10. /\ (Finding("rule-error", r) \in Evaluated(s, book)) <=>
             (Raises(rule, context) /\ ~IsRuleIgnored(rule, Ignored))
       /\ {f \in Evaluated(s, book) : f.category = r} =
            IF Raises(rule, context) \/ IsRuleIgnored(rule, Ignored) THEN {}
            ELSE EvaluateRule(rule, context, Ignored)
  BY <1>2, <1>4, <1>5, <1>6, FindingsAre
<1> HIDE DEF rule, broken
<1>11. {f.target : f \in {f \in Evaluated(s, book) : f.category = r}} =
         IF broken \/ Silent(book, r) THEN {}
         ELSE {t \in DOMAIN loops : loops[t] >= level /\ (book[i].names => ~Off(r, t))}
  BY <1>7, <1>8, <1>9, <1>10
<1>12. (Finding("rule-error", r) \in Evaluated(s, book)) <=> (broken /\ ~Silent(book, r))
  BY <1>7, <1>8, <1>10
<1> QED
  BY <1>3, <1>11, <1>12 DEF r, level, loops, broken

\* Whatever its fellow rules declare, inherit or raise, a rule that loads reports each
\* target that reaches the nearest declared threshold, for any directory of rules.
THEOREM RulesStayIndependent == Spec => []RulesAreIndependent
  BY NamedInit, NamedStep, RulesKept, PTL DEF Spec


-----------------------------------------------------------------------------
(* Parts of lists.                                                         *)

\* The places of a list are sorted by their number.
LEMMA PlacesSorted ==
  ASSUME NEW n \in Nat, NEW places \in SUBSET (1 .. n)
  PROVE  IsFiniteSet(places) /\ IsStrictOrder(places, Upwards(places))
<1>1. IsFiniteSet(places)
  <2>1. IsFiniteSet(1 .. n)
    BY Numbered
  <2> QED
    BY <2>1, FS_Subset
<1>2. places \subseteq Int
  OBVIOUS
<1> QED
  BY <1>1, <1>2 DEF IsStrictOrder, Upwards

\* A part of a list has the members at its places, each place once.
LEMMA SublistIs ==
  ASSUME NEW S, NEW list \in Seq(S), NEW places \in SUBSET DOMAIN list
  PROVE  LET sub == Sublist(list, places) order == InOrder(places, Upwards(places)) IN
         /\ sub \in Seq(S) /\ Len(sub) = Cardinality(places) /\ DOMAIN sub = 1 .. Cardinality(places)
         /\ Cardinality(places) \in Nat /\ Cardinality(places) <= Len(list)
         /\ \A k \in DOMAIN sub : order[k] \in places /\ sub[k] = list[order[k]]
         /\ \A i \in places : \E k \in DOMAIN sub : order[k] = i
         /\ \A k, l \in DOMAIN sub : k # l => order[k] # order[l]
         /\ ToSet(sub) = {list[i] : i \in places}
<1> DEFINE sub == Sublist(list, places)
           order == InOrder(places, Upwards(places))
           n == Cardinality(places)
<1>1. places \in SUBSET (1 .. Len(list)) /\ Len(list) \in Nat
  OBVIOUS
<1>2. IsFiniteSet(places) /\ IsStrictOrder(places, Upwards(places))
  BY <1>1, PlacesSorted
<1>3. n \in Nat /\ n <= Len(list)
  <2>1. IsFiniteSet(1 .. Len(list)) /\ Cardinality(1 .. Len(list)) = Len(list)
    BY <1>1, Numbered
  <2>2. n <= Cardinality(1 .. Len(list))
    BY <1>1, <2>1, FS_Subset
  <2> QED
    BY <1>2, <2>1, <2>2, FS_CardinalityType
<1>4. /\ order \in Seq(places) /\ Len(order) = n /\ DOMAIN order = 1 .. n
      /\ \A x \in places : \E i \in DOMAIN order : order[i] = x
      /\ \A i, j \in DOMAIN order : i < j => <<order[i], order[j]>> \in Upwards(places)
  BY <1>2, Sorted
<1>5. sub = [k \in 1 .. n |-> list[order[k]]]
  BY <1>4 DEF Sublist
<1>6. \A k \in 1 .. n : order[k] \in places
  BY <1>3, <1>4
<1> HIDE DEF sub, order, n
<1>7. \A k \in 1 .. n : list[order[k]] \in S
  BY <1>1, <1>6
<1>8. sub \in Seq(S) /\ Len(sub) = n /\ DOMAIN sub = 1 .. n
  BY <1>3, <1>5, <1>7
<1>9. \A k, l \in 1 .. n : k # l => order[k] # order[l]
  <2> SUFFICES ASSUME NEW k \in 1 .. n, NEW l \in 1 .. n, k < l PROVE order[k] # order[l]
    BY <1>3
  <2>1. <<order[k], order[l]>> \in Upwards(places)
    BY <1>4
  <2> QED
    BY <1>1, <1>6, <2>1 DEF Upwards
<1>10. ToSet(sub) = {list[i] : i \in places}
  BY <1>4, <1>5, <1>6, <1>8 DEF ToSet
<1> QED
  BY <1>3, <1>4, <1>5, <1>6, <1>8, <1>9, <1>10 DEF sub, order, n

\* Distinct places whose members have distinct ids: as many ids as places.
LEMMA PlacesCounted ==
  ASSUME NEW list, NEW places, IsFiniteSet(places),
         \A i, j \in places : i # j => list[i].id # list[j].id
  PROVE  /\ IsFiniteSet({list[i].id : i \in places})
         /\ Cardinality({list[i].id : i \in places}) = Cardinality(places)
<1> DEFINE names == {list[i].id : i \in places}
           f == [i \in places |-> list[i].id]
<1>1. f \in Surjection(places, names) /\ f \in Injection(places, names)
  BY DEF Surjection, Injection, IsInjective
<1> QED
  BY <1>1, FS_Surjection

-----------------------------------------------------------------------------
(* Roots, children and trees, over records of distinct ids.                *)

OneEach(records) == \A r, s \in records : r.id = s.id => r = s
Pairs(records) == {<<r.id, r.parent>> : r \in records}

LEMMA RecordsCounted ==
  ASSUME NEW records, IsFiniteSet(records), OneEach(records)
  PROVE  IsFiniteSet(IdsOf(records)) /\ Cardinality(IdsOf(records)) = Cardinality(records)
<1> DEFINE f == [r \in records |-> r.id]
<1>1. f \in Surjection(records, IdsOf(records)) /\ f \in Injection(records, IdsOf(records))
  BY DEF Surjection, Injection, IsInjective, OneEach, IdsOf
<1> QED
  BY <1>1, FS_Surjection

\* What root_and_orphan_ids finds depends on the ids and the parents alone.
LEMMA SamePairs ==
  ASSUME NEW R, NEW S, Pairs(R) = Pairs(S)
  PROVE  IdsOf(R) = IdsOf(S) /\ Orphans(R) = Orphans(S) /\ Roots(R) = Roots(S)
<1>1. ASSUME NEW A, NEW B, Pairs(A) = Pairs(B), NEW a \in A
      PROVE  \E b \in B : b.id = a.id /\ b.parent = a.parent
  <2>1. <<a.id, a.parent>> \in Pairs(B)
    BY <1>1 DEF Pairs
  <2>2. PICK b \in B : <<a.id, a.parent>> = <<b.id, b.parent>>
    BY <2>1 DEF Pairs
  <2> QED
    BY <2>2
<1>2. /\ \A r \in R : \E s \in S : s.id = r.id /\ s.parent = r.parent
      /\ \A s \in S : \E r \in R : s.id = r.id /\ s.parent = r.parent
  BY <1>1
<1>3. IdsOf(R) = IdsOf(S)
  BY <1>2 DEF IdsOf
<1>4. Orphans(R) = Orphans(S)
  BY <1>2, <1>3 DEF Orphans
<1> QED
  BY <1>2, <1>3, <1>4 DEF Roots

\* The sub-agents are the sessions that are no root.
LEMMA ChildrenAre ==
  ASSUME NEW R, OneEach(R)
  PROVE  /\ Roots(R) \subseteq IdsOf(R)
         /\ Subagents(R) = IdsOf(R) \ Roots(R)
         /\ \A r \in R : r.id \in Roots(R) => r.parent \notin IdsOf(R)
<1>1. Roots(R) \subseteq IdsOf(R) /\ Subagents(R) \subseteq IdsOf(R)
  BY DEF Roots, Subagents, Orphans, IdsOf
<1>2. ASSUME NEW r \in R
      PROVE  /\ (r.id \in Orphans(R)) <=> r.parent \notin {Missing} \cup IdsOf(R) \cup known
             /\ (r.id \in {u.id : u \in {u \in R : u.parent \in IdsOf(R)}}) <=> r.parent \in IdsOf(R)
  BY DEF Orphans, OneEach
<1>3. ASSUME NEW r \in R
      PROVE  (r.id \in Roots(R)) <=> r.id \notin Orphans(R) /\ r.parent \notin IdsOf(R)
  BY DEF Roots, OneEach
<1>4. ASSUME NEW r \in R PROVE (r.id \in Subagents(R)) <=> r.id \notin Roots(R)
  BY <1>2, <1>3 DEF Subagents
<1>5. ASSUME NEW x \in IdsOf(R) PROVE \E r \in R : r.id = x
  BY DEF IdsOf
<1>6. Subagents(R) = IdsOf(R) \ Roots(R)
  BY <1>1, <1>4, <1>5
<1> QED
  BY <1>1, <1>3, <1>6

\* The levels of the tree of a session.
Grows(level, records, root) ==
  level = [n \in Nat |-> IF n = 0 THEN {root}
                         ELSE level[n - 1] \cup {r.id : r \in {r \in records : r.parent \in level[n - 1]}}]
Levels(records, root) == CHOOSE level : Grows(level, records, root)

LEMMA LevelsGrow ==
  ASSUME NEW R, NEW root \in IdsOf(R)
  PROVE  /\ Levels(R, root)[0] = {root}
         /\ \A n \in Nat : Levels(R, root)[n + 1] =
              Levels(R, root)[n] \cup {r.id : r \in {r \in R : r.parent \in Levels(R, root)[n]}}
         /\ \A n \in Nat : Levels(R, root)[n] \subseteq IdsOf(R) /\ root \in Levels(R, root)[n]
         /\ Tree(R, root) = Levels(R, root)[Cardinality(R)]
<1> DEFINE family == SUBSET IdsOf(R)
           step == [some \in family |-> some \cup {r.id : r \in {r \in R : r.parent \in some}}]
<1>1. step \in [family -> family] /\ {root} \in family
  BY DEF IdsOf
<1>2. \A some \in family : step[some] = some \cup {r.id : r \in {r \in R : r.parent \in some}}
  OBVIOUS
<1> HIDE DEF step, family
<1>3. PICK f \in [Nat -> family] : f[0] = {root} /\ \A n \in Nat : f[n + 1] = step[f[n]]
  BY <1>1, Iterates
<1>4. ASSUME NEW n \in Nat
      PROVE  f[n] = IF n = 0 THEN {root} ELSE f[n - 1] \cup {r.id : r \in {r \in R : r.parent \in f[n - 1]}}
  <2>1. CASE n = 0
    BY <1>3, <2>1
  <2>2. CASE n # 0
    <3>1. n - 1 \in Nat /\ (n - 1) + 1 = n
      BY <2>2
    <3>2. f[n] = step[f[n - 1]] /\ f[n - 1] \in family
      BY <1>3, <3>1
    <3> QED
      BY <1>2, <2>2, <3>2
  <2> QED
    BY <2>1, <2>2
<1>5. Grows(f, R, root)
  BY <1>3, <1>4 DEF Grows
<1>6. Grows(Levels(R, root), R, root)
  BY <1>5 DEF Levels
<1> DEFINE level == Levels(R, root)
<1>7. Tree(R, root) = level[Cardinality(R)]
  BY DEF Tree, Levels, Grows
<1> HIDE DEF level
<1>8. level = [n \in Nat |-> IF n = 0 THEN {root}
                             ELSE level[n - 1] \cup {r.id : r \in {r \in R : r.parent \in level[n - 1]}}]
  BY <1>6 DEF Grows, level
<1>9. level[0] = {root}
  BY <1>8
<1>10. ASSUME NEW n \in Nat
       PROVE  level[n + 1] = level[n] \cup {r.id : r \in {r \in R : r.parent \in level[n]}}
  <2>1. n + 1 \in Nat /\ n + 1 # 0 /\ (n + 1) - 1 = n
    OBVIOUS
  <2> QED
    BY <1>8, <2>1
<1>11. ASSUME NEW n \in Nat PROVE level[n] \subseteq IdsOf(R) /\ root \in level[n]
  <2> DEFINE able == {k \in Nat : level[k] \subseteq IdsOf(R) /\ root \in level[k]}
  <2>1. 0 \in able
    BY <1>9
  <2>2. ASSUME NEW k \in Nat, k \in able PROVE k + 1 \in able
    <3>1. level[k + 1] = level[k] \cup {r.id : r \in {r \in R : r.parent \in level[k]}}
      BY <1>10
    <3>2. {r.id : r \in {r \in R : r.parent \in level[k]}} \subseteq IdsOf(R)
      BY DEF IdsOf
    <3> QED
      BY <2>2, <3>1, <3>2
  <2>3. n \in able
    <3> HIDE DEF able
    <3>1. \A k \in 0 .. n - 1 : k \in able => k + 1 \in able
      BY <2>2
    <3>2. \A k \in 0 .. n : k \in able
      BY <2>1, <3>1, Inductively
    <3> QED
      BY <3>2
  <2> QED
    BY <2>3
<1> QED
  BY <1>7, <1>9, <1>10, <1>11 DEF level

\* No session is in the trees of two roots.
LEMMA TreesApart ==
  ASSUME NEW R, OneEach(R), NEW a \in Roots(R), NEW b \in Roots(R), a # b,
         Cardinality(R) \in Nat
  PROVE  Tree(R, a) \cap Tree(R, b) = {}
<1> DEFINE Under(some) == {r.id : r \in {r \in R : r.parent \in some}}
           Rises(level, root) ==
             /\ level[0] = {root} /\ \A n \in Nat : level[n + 1] = level[n] \cup Under(level[n])
             /\ \A n \in Nat : level[n] \subseteq IdsOf(R)
             /\ Tree(R, root) = level[Cardinality(R)]
<1>1. Roots(R) \subseteq IdsOf(R) /\ \A r \in R : r.id \in Roots(R) => r.parent \notin IdsOf(R)
  BY ChildrenAre
<1>2. ASSUME NEW root \in Roots(R) PROVE \E level : Rises(level, root)
  <2>1. root \in IdsOf(R)
    BY <1>1
  <2>2. Rises(Levels(R, root), root)
    BY <2>1, LevelsGrow
  <2> QED
    BY <2>2
<1>3. PICK up : Rises(up, a)
  BY <1>2
<1>4. PICK down : Rises(down, b)
  BY <1>2
\* Nothing is above a root.
<1>5. ASSUME NEW level, NEW root, Rises(level, root), NEW x \in Roots(R), x # root, NEW n \in Nat
      PROVE  x \notin level[n]
  <2> DEFINE able == {k \in Nat : x \notin level[k]}
  <2>1. 0 \in able
    BY <1>5
  <2>2. ASSUME NEW k \in Nat, k \in able PROVE k + 1 \in able
    <3>1. level[k] \subseteq IdsOf(R) /\ level[k + 1] = level[k] \cup Under(level[k])
      BY <1>5
    <3>2. x \notin Under(level[k])
      BY <1>1, <3>1
    <3> QED
      BY <2>2, <3>1, <3>2
  <2> QED
    <3> HIDE DEF able
    <3>1. \A k \in 0 .. n - 1 : k \in able => k + 1 \in able
      BY <2>2
    <3>2. \A k \in 0 .. n : k \in able
      BY <2>1, <3>1, Inductively
    <3>3. n \in able
      BY <3>2
    <3> QED
      BY <3>3 DEF able
\* Where the trees met, they met one level up.
<1>6. ASSUME NEW n \in Nat, \A m \in Nat : up[n] \cap down[m] = {}, NEW m \in Nat
      PROVE  up[n + 1] \cap down[m] = {}
  <2> DEFINE able == {k \in Nat : up[n + 1] \cap down[k] = {}}
  <2>1. 0 \in able
    <3>1. n + 1 \in Nat
      OBVIOUS
    <3>2. b \notin up[n + 1]
      <4> HIDE DEF Rises
      <4> QED
        BY <1>3, <1>5, <3>1
    <3> QED
      BY <1>4, <3>2
  <2>2. ASSUME NEW k \in Nat, k \in able PROVE k + 1 \in able
    <3>1. up[n + 1] = up[n] \cup Under(up[n]) /\ down[k + 1] = down[k] \cup Under(down[k])
      BY <1>3, <1>4
    <3>2. up[n] \cap down[k + 1] = {} /\ up[n] \cap down[k] = {}
      BY <1>6
    <3>3. Under(up[n]) \cap Under(down[k]) = {}
      BY <3>2 DEF OneEach
    <3>4. up[n + 1] \cap down[k] = {}
      BY <2>2
    <3> QED
      BY <3>1, <3>2, <3>3, <3>4
  <2> QED
    <3> HIDE DEF able
    <3>1. \A k \in 0 .. m - 1 : k \in able => k + 1 \in able
      BY <2>2
    <3>2. \A k \in 0 .. m : k \in able
      BY <2>1, <3>1, Inductively
    <3>3. m \in able
      BY <3>2
    <3> QED
      BY <3>3 DEF able
<1> DEFINE able == {n \in Nat : \A m \in Nat : up[n] \cap down[m] = {}}
<1>7. 0 \in able
  <2>1. ASSUME NEW m \in Nat PROVE a \notin down[m]
    BY <1>4, <1>5
  <2> QED
    BY <1>3, <2>1
<1>8. ASSUME NEW n \in Nat, n \in able PROVE n + 1 \in able
  BY <1>6, <1>8
<1> DEFINE size == Cardinality(R)
<1>9. size \in able
  <2> HIDE DEF able, size
  <2>0. size \in Nat
    BY DEF size
  <2>1. \A k \in 0 .. size - 1 : k \in able => k + 1 \in able
    BY <1>8, <2>0
  <2>2. \A k \in 0 .. size : k \in able
    BY <1>7, <2>0, <2>1, Inductively
  <2> QED
    BY <2>0, <2>2
<1> QED
  BY <1>3, <1>4, <1>9
-----------------------------------------------------------------------------
(* What is left of the resumed sessions.                                   *)

Usages == [id : CanonicalIds, parent : CanonicalIds \cup {Missing}, steps : (SUBSET Steps) \ {{}},
           unpriced : SUBSET Steps, turns : Seq(Turns)]

LEMMA UsageTypes ==
  ASSUME NEW u \in Usages
  PROVE  /\ u.id \in CanonicalIds /\ u.id[1] \in Harnesses /\ u.id[2] \in Ids /\ u.id[2] \in Nat
         /\ u.id = <<u.id[1], u.id[2]>>
         /\ u.parent \in CanonicalIds \cup {Missing} /\ u.turns \in Seq(Turns) /\ Len(u.turns) \in Nat
         /\ u.steps \in SUBSET Steps /\ u.steps # {} /\ u.unpriced \in SUBSET Steps
<1>1. u.id \in Harnesses \X Ids /\ Ids \subseteq Nat
  BY LimitsAreNatural DEF Usages, CanonicalIds
<1>2. u.id = <<u.id[1], u.id[2]>> /\ u.id[1] \in Harnesses /\ u.id[2] \in Ids /\ u.id[2] \in Nat
  <2> DEFINE x == u.id
  <2>1. x \in Harnesses \X Ids
    BY <1>1
  <2> HIDE DEF x
  <2>2. x = <<x[1], x[2]>> /\ x[1] \in Harnesses /\ x[2] \in Ids
    BY <2>1
  <2> QED
    BY <1>1, <2>2 DEF x
<1>3. /\ u.id \in CanonicalIds /\ u.parent \in CanonicalIds \cup {Missing} /\ u.turns \in Seq(Turns)
      /\ u.steps \in SUBSET Steps /\ u.steps # {} /\ u.unpriced \in SUBSET Steps
  BY DEF Usages
<1> QED
  BY <1>2, <1>3

\* Two sessions that start alike are in an order.
LEMMA FullerOrders ==
  ASSUME NEW some \in SUBSET Usages, OneEach(some), NEW first \in some,
         NEW group, group = {v \in some : SameSession(first, v)},
         NEW before, before = {p \in group \X group : Fuller(p[1], p[2])}
  PROVE  IsStrictOrder(group, before)
<1>1. ASSUME NEW u \in group
      PROVE  u \in some /\ Len(u.turns) \in Nat /\ u.id[2] \in Nat /\ u.id = <<first.id[1], u.id[2]>>
  <2>1. u \in some /\ SameSession(first, u) /\ u \in Usages
    OBVIOUS
  <2> QED
    BY <2>1, UsageTypes DEF SameSession
<1>2. ASSUME NEW u \in group, NEW v \in group
      PROVE  (<<u, v>> \in before) <=> Fuller(u, v)
  OBVIOUS
<1>3. ASSUME NEW u \in group, NEW v \in group, u # v PROVE u.id[2] # v.id[2]
  BY <1>1, <1>3 DEF OneEach
<1> HIDE DEF OneEach
<1>4. \A u \in group : <<u, u>> \notin before
  BY <1>1, <1>2 DEF Fuller
<1>5. ASSUME NEW u \in group, NEW v \in group, u # v PROVE <<u, v>> \in before \/ <<v, u>> \in before
  BY <1>1, <1>2, <1>3, <1>5 DEF Fuller
<1>6. ASSUME NEW u \in group, NEW v \in group, NEW w \in group, <<u, v>> \in before, <<v, w>> \in before
      PROVE  <<u, w>> \in before
  <2>1. Fuller(u, v) /\ Fuller(v, w)
    BY <1>2, <1>6
  <2> QED
    BY <1>1, <1>2, <2>1 DEF Fuller
<1> QED
  BY <1>4, <1>5, <1>6 DEF IsStrictOrder

\* A resumed session is merged into one of the list.
LEMMA KeptIs ==
  ASSUME NEW us \in Seq(Usages), OneEach(ToSet(us)), IsFiniteSet(ToSet(us)), NEW u \in Resumed(us)
  PROVE  KeptFor(u, us) \in ToSet(us)
<1> DEFINE some == ToSet(us)
           group == {v \in some : SameSession(u, v)}
           before == {p \in group \X group : Fuller(p[1], p[2])}
           order == InOrder(group, before)
<1>1. some \in SUBSET Usages /\ u \in some
  BY DEF ToSet, Resumed
<1>2. u \in group
  BY <1>1 DEF Resumed, SameSession
<1>3. IsStrictOrder(group, before)
  BY <1>1, FullerOrders
<1>4. IsFiniteSet(group)
  BY FS_Subset
<1> HIDE DEF group, before
<1>5. /\ order \in Seq(group) /\ DOMAIN order = 1 .. Cardinality(group)
      /\ \A x \in group : \E i \in DOMAIN order : order[i] = x
      /\ \A i, j \in DOMAIN order : i < j => <<order[i], order[j]>> \in before
  BY <1>3, <1>4, Sorted
<1>10. Cardinality(group) \in Nat
  BY <1>4, FS_CardinalityType
<1> HIDE DEF some, order
<1>6. 1 \in DOMAIN order
  BY <1>2, <1>5, <1>10
<1>7. order[1] \in group
  BY <1>5, <1>6, <1>10
<1>8. ASSUME NEW w \in group PROVE ~Fuller(w, order[1])
  <2>1. PICK i \in DOMAIN order : order[i] = w
    BY <1>5
  <2>2. CASE i = 1
    <3>1. w \in Usages
      BY <1>1 DEF group
    <3> QED
      BY <2>1, <2>2, <3>1, UsageTypes DEF Fuller
  <2>3. CASE i # 1
    <3>0. i \in 1 .. Cardinality(group) /\ 1 < i
      BY <1>5, <1>10, <2>3
    <3>1. <<order[1], w>> \in before
      BY <3>0, <1>5, <1>6, <1>10, <2>1, <2>3
    <3>2. Fuller(order[1], w) /\ order[1] \in Usages /\ w \in Usages
      BY <1>1, <1>7, <3>1 DEF before, group
    <3> QED
      BY <3>2, UsageTypes DEF Fuller
  <2> QED
    BY <2>2, <2>3
<1>9. \E v \in some : SameSession(u, v) /\ ~\E w \in some : SameSession(u, w) /\ Fuller(w, v)
  BY <1>7, <1>8 DEF group
<1> QED
  BY <1>9 DEF KeptFor, some

\* No two sessions that are left start alike.
LEMMA NoTwins ==
  ASSUME NEW us \in Seq(Usages), OneEach(ToSet(us)),
         NEW u \in ToSet(us) \ Resumed(us), NEW v \in ToSet(us) \ Resumed(us), u # v
  PROVE  ~SameSession(u, v)
<1> SUFFICES ASSUME SameSession(u, v) PROVE FALSE
  OBVIOUS
<1>1. u \in Usages /\ v \in Usages
  BY DEF ToSet
<1>2. SameSession(v, u) /\ u.id[1] = v.id[1]
  BY DEF SameSession
<1>3. u.id[2] # v.id[2]
  BY <1>1, <1>2, UsageTypes DEF OneEach
<1>4. Fuller(u, v) \/ Fuller(v, u)
  BY <1>1, <1>3, UsageTypes DEF Fuller
<1> QED
  BY <1>2, <1>4 DEF Resumed
-----------------------------------------------------------------------------
(* What is told of the warnings.                                           *)

\* Each warning has one of its kind in a list, that is partial when it is.
Covers(list, ws) ==
  \A j \in DOMAIN ws : \E k \in DOMAIN list :
    list[k].kind = ws[j].kind /\ (ws[j].partial => list[k].partial)
\* No two of the first n are of one entity.
ApartUpTo(list, n) == \A k, l \in 1 .. n : k # l => ~SameEntity(list[k], list[l])

LEMMA FirstsSorted ==
  ASSUME NEW ws \in Seq(Warning)
  PROVE  /\ IsFiniteSet(Firsts(ws)) /\ IsStrictOrder(Firsts(ws), Earlier(ws))
         /\ Cardinality(Firsts(ws)) \in Nat /\ Firsts(ws) \subseteq 1 .. Len(ws)
<1>1. Firsts(ws) \subseteq 1 .. Len(ws) /\ Len(ws) \in Nat
  BY DEF Firsts
<1>2. IsFiniteSet(1 .. Len(ws))
  BY <1>1, FS_Interval
<1>3. IsFiniteSet(Firsts(ws)) /\ Cardinality(Firsts(ws)) \in Nat
  BY <1>1, <1>2, FS_Subset, FS_CardinalityType
<1> DEFINE front == [i \in Firsts(ws) |-> Place(ws[i])[1]]
           number == [i \in Firsts(ws) |-> Place(ws[i])[2]]
<1>4. ASSUME NEW i \in Firsts(ws) PROVE front[i] \in Int /\ number[i] \in Int
  <2>1. ws[i] \in Warning
    BY <1>1
  <2>2. ws[i].id = Missing \/ ws[i].id \in Harnesses \X Ids
    BY <2>1 DEF Warning, CanonicalIds
  <2>3. ws[i].id # Missing => ws[i].id[2] \in Nat
    BY <2>2, LimitsAreNatural
  <2> QED
    BY <2>3 DEF Place
<1>5. ASSUME NEW i \in Firsts(ws), NEW j \in Firsts(ws)
      PROVE  (<<i, j>> \in Earlier(ws)) <=>
               \/ front[i] < front[j]
               \/ front[i] = front[j] /\ (number[i] < number[j] \/ (number[i] = number[j] /\ i < j))
  BY DEF Earlier
<1> HIDE DEF front, number
<1>6. \A i \in Firsts(ws) : i \in Int
  BY <1>1
<1>7. IsStrictOrder(Firsts(ws), Earlier(ws))
  <2>1. \A i \in Firsts(ws) : <<i, i>> \notin Earlier(ws)
    BY <1>4, <1>5, <1>6
  <2>2. \A i, j \in Firsts(ws) : i # j => <<i, j>> \in Earlier(ws) \/ <<j, i>> \in Earlier(ws)
    BY <1>4, <1>5, <1>6
  <2>3. ASSUME NEW i \in Firsts(ws), NEW j \in Firsts(ws), NEW k \in Firsts(ws),
               <<i, j>> \in Earlier(ws), <<j, k>> \in Earlier(ws)
        PROVE  <<i, k>> \in Earlier(ws)
    BY <1>4, <1>5, <1>6, <2>3
  <2> QED
    BY <2>1, <2>2, <2>3 DEF IsStrictOrder
<1> QED
  BY <1>1, <1>3, <1>7

\* The first warning of each entity.
LEMMA FirstOf ==
  ASSUME NEW ws \in Seq(Warning), NEW j \in DOMAIN ws
  PROVE  \E i \in Firsts(ws) : SameEntity(ws[i], ws[j])
<1> DEFINE some == {i \in DOMAIN ws : SameEntity(ws[i], ws[j])}
<1>1. some \subseteq Nat /\ j \in some
  BY DEF SameEntity
<1>2. PICK i \in some : \A k \in some : i <= k
  <2> HIDE DEF some
  <2> QED
    BY <1>1, Least
<1>3. ASSUME NEW k \in 1 .. i - 1 PROVE ~SameEntity(ws[i], ws[k])
  <2>1. k \in DOMAIN ws /\ ~(i <= k)
    BY <1>2
  <2>2. ~SameEntity(ws[k], ws[j])
    BY <1>2, <2>1
  <2> QED
    BY <1>2, <2>2 DEF SameEntity, Structured
<1> QED
  BY <1>2, <1>3 DEF Firsts

\* _cap_warnings keeps MaxWarnings entities, or all of them.
LEMMA CapIs ==
  ASSUME NEW ws \in Seq(Warning)
  PROVE  /\ Cap(ws) \in Seq(Warning) /\ Len(Cap(ws)) \in Nat /\ Len(Cap(ws)) <= MaxWarnings
         /\ Len(Cap(ws)) = MaxWarnings \/ Len(Cap(ws)) = Cardinality(Firsts(ws))
         /\ ApartUpTo(Cap(ws), Len(Cap(ws)))
         /\ Len(Cap(ws)) = Cardinality(Firsts(ws)) => Covers(Cap(ws), ws)
         /\ Cardinality(Firsts(ws)) > MaxWarnings => Len(Cap(ws)) = MaxWarnings
<1> DEFINE order == InOrder(Firsts(ws), Earlier(ws))
           n == Cardinality(Firsts(ws))
           m == IF n < MaxWarnings THEN n ELSE MaxWarnings
           cap == Cap(ws)
<1>1. /\ order \in Seq(Firsts(ws)) /\ Len(order) = n /\ DOMAIN order = 1 .. n
      /\ \A x \in Firsts(ws) : \E i \in DOMAIN order : order[i] = x
      /\ \A i, j \in DOMAIN order : i < j => <<order[i], order[j]>> \in Earlier(ws)
  BY FirstsSorted, Sorted
<1>2. n \in Nat /\ MaxWarnings \in Nat /\ Firsts(ws) \subseteq DOMAIN ws
  BY FirstsSorted, LimitsAreNatural
<1>3. cap = [k \in 1 .. m |-> Entity(ws, order[k])]
  BY <1>1 DEF Cap
<1> HIDE DEF order, n, cap
<1>4. m \in Nat /\ m <= n /\ m <= MaxWarnings /\ (m = MaxWarnings \/ m = n) /\ (n > MaxWarnings => m = MaxWarnings)
  BY <1>2
<1> HIDE DEF m
<1>5. ASSUME NEW k \in 1 .. n PROVE order[k] \in Firsts(ws) /\ order[k] \in DOMAIN ws
  BY <1>1, <1>2
<1>6. ASSUME NEW i \in DOMAIN ws
      PROVE  /\ Entity(ws, i) \in Warning
             /\ Entity(ws, i).kind = ws[i].kind /\ Entity(ws, i).into = ws[i].into /\ Entity(ws, i).id = ws[i].id
             /\ \A j \in DOMAIN ws : SameEntity(ws[i], ws[j]) /\ ws[j].partial => Entity(ws, i).partial
  <2>1. ws[i] \in Warning
    OBVIOUS
  <2>2. (\E j \in DOMAIN ws : SameEntity(ws[i], ws[j]) /\ ws[j].partial) \in BOOLEAN
    OBVIOUS
  <2> DEFINE gap == \E j \in DOMAIN ws : SameEntity(ws[i], ws[j]) /\ ws[j].partial
  <2>3. Entity(ws, i) = [ws[i] EXCEPT !.partial = gap]
    BY DEF Entity
  <2>4. gap => \A j \in DOMAIN ws : SameEntity(ws[i], ws[j]) /\ ws[j].partial => gap
    OBVIOUS
  <2>5. gap \in BOOLEAN
    BY <2>2
  <2>6. \A j \in DOMAIN ws : SameEntity(ws[i], ws[j]) /\ ws[j].partial => gap
    OBVIOUS
  <2> HIDE DEF gap
  <2>7. /\ Entity(ws, i) \in Warning
        /\ Entity(ws, i).kind = ws[i].kind /\ Entity(ws, i).into = ws[i].into /\ Entity(ws, i).id = ws[i].id
    BY <2>1, <2>3, <2>5 DEF Warning
  <2>8. Entity(ws, i).partial = gap
    BY <2>1, <2>3 DEF Warning
  <2>9. gap => Entity(ws, i).partial
    BY <2>8
  <2> QED
    BY <2>6, <2>7, <2>9
<1>7. cap \in Seq(Warning) /\ Len(cap) = m /\ DOMAIN cap = 1 .. m
  <2>1. ASSUME NEW k \in 1 .. m PROVE Entity(ws, order[k]) \in Warning
    <3>1. k \in 1 .. n
      BY <1>2, <1>4
    <3>2. order[k] \in DOMAIN ws
      BY <1>5, <3>1
    <3> QED
      BY <1>6, <3>2
  <2> QED
    BY <1>3, <1>4, <2>1
<1>8. ASSUME NEW k \in 1 .. m, NEW l \in 1 .. m, k # l PROVE ~SameEntity(cap[k], cap[l])
  <2>1. k \in 1 .. n /\ l \in 1 .. n
    BY <1>2, <1>4
  <2>2. order[k] # order[l]
    <3>1. k < l \/ l < k
      BY <1>8
    <3>2. <<order[k], order[l]>> \in Earlier(ws) \/ <<order[l], order[k]>> \in Earlier(ws)
      BY <1>1, <2>1, <3>1
    <3> QED
      BY <1>5, <2>1, <3>2, FirstsSorted DEF IsStrictOrder
  <2>3. ~SameEntity(ws[order[k]], ws[order[l]])
    <3>1. order[k] \in Firsts(ws) /\ order[l] \in Firsts(ws) /\ order[k] \in Nat /\ order[l] \in Nat
      BY <1>5, <2>1
    <3>2. order[k] \in 1 .. order[l] - 1 \/ order[l] \in 1 .. order[k] - 1
      BY <1>5, <2>1, <2>2, <3>1
    <3>3. ASSUME NEW i \in Firsts(ws), NEW j \in 1 .. i - 1 PROVE ~SameEntity(ws[i], ws[j]) /\ ~SameEntity(ws[j], ws[i])
      BY DEF Firsts, SameEntity, Structured
    <3> QED
      BY <3>1, <3>2, <3>3
  <2>4. cap[k] = Entity(ws, order[k]) /\ cap[l] = Entity(ws, order[l])
    BY <1>3
  <2> QED
    BY <1>5, <1>6, <2>1, <2>3, <2>4 DEF SameEntity, Structured
<1>9. ASSUME m = n PROVE Covers(cap, ws)
  <2> SUFFICES ASSUME NEW j \in DOMAIN ws
               PROVE  \E k \in DOMAIN cap : cap[k].kind = ws[j].kind /\ (ws[j].partial => cap[k].partial)
    BY DEF Covers
  <2>1. PICK i \in Firsts(ws) : SameEntity(ws[i], ws[j])
    BY FirstOf
  <2>2. PICK k \in 1 .. n : order[k] = i
    BY <1>1
  <2>3. k \in DOMAIN cap /\ cap[k] = Entity(ws, i) /\ i \in DOMAIN ws
    BY <1>2, <1>3, <1>7, <1>9, <2>2
  <2>4. ws[i].kind = ws[j].kind
    BY <2>1 DEF SameEntity
  <2>5. Entity(ws, i).kind = ws[j].kind
    BY <1>6, <2>3, <2>4
  <2>6. ws[j].partial => Entity(ws, i).partial
    BY <1>6, <2>1, <2>3
  <2> QED
    BY <2>3, <2>5, <2>6
<1>10. ApartUpTo(cap, m)
  BY <1>8 DEF ApartUpTo
<1> QED
  BY <1>4, <1>7, <1>9, <1>10 DEF cap, n
\* The summary is capped twice, and tells of all, or has no room left.
LEMMA CapTwice ==
  ASSUME NEW ws \in Seq(Warning), NEW more \in Seq(Warning)
  PROVE  LET reported == Cap(Cap(ws) \o more) IN
         /\ reported \in Seq(Warning)
         /\ Len(reported) = MaxWarnings \/ Covers(reported, ws)
<1> DEFINE once == Cap(ws)
           all == once \o more
           reported == Cap(all)
<1>1. once \in Seq(Warning) /\ Len(once) \in Nat /\ all \in Seq(Warning) /\ MaxWarnings \in Nat
  BY CapIs, LimitsAreNatural
<1>2. /\ Len(once) <= MaxWarnings /\ ApartUpTo(once, Len(once))
      /\ Len(once) = MaxWarnings \/ Len(once) = Cardinality(Firsts(ws))
      /\ Len(once) = Cardinality(Firsts(ws)) => Covers(once, ws)
  BY CapIs
<1> HIDE DEF once
<1>3. /\ \A k \in DOMAIN once : k \in DOMAIN all /\ all[k] = once[k]
      /\ Len(all) >= Len(once) /\ Len(all) \in Nat
  BY <1>1
<1> HIDE DEF all
<1>4. /\ reported \in Seq(Warning) /\ Len(reported) \in Nat /\ Len(reported) <= MaxWarnings
      /\ Len(reported) = MaxWarnings \/ Len(reported) = Cardinality(Firsts(all))
      /\ Len(reported) = Cardinality(Firsts(all)) => Covers(reported, all)
      /\ Cardinality(Firsts(all)) > MaxWarnings => Len(reported) = MaxWarnings
  BY <1>1, CapIs
<1> HIDE DEF reported
<1> SUFFICES ASSUME Len(reported) # MaxWarnings PROVE Covers(reported, ws)
  BY <1>4 DEF reported, all, once
<1>5. Covers(reported, all) /\ Len(reported) = Cardinality(Firsts(all)) /\ Cardinality(Firsts(all)) \in Nat
  BY <1>1, <1>4, FirstsSorted
<1>6. 1 .. Len(once) \subseteq Firsts(all)
  <2> SUFFICES ASSUME NEW k \in 1 .. Len(once) PROVE k \in Firsts(all)
    OBVIOUS
  <2>1. k \in DOMAIN once /\ k \in DOMAIN all /\ all[k] = once[k]
    BY <1>1, <1>3
  <2>2. ASSUME NEW j \in 1 .. k - 1 PROVE ~SameEntity(all[k], all[j])
    <3>1. j \in 1 .. Len(once) /\ j # k /\ j \in DOMAIN once
      BY <1>1
    <3>2. ~SameEntity(once[k], once[j]) /\ all[j] = once[j]
      BY <1>2, <1>3, <3>1 DEF ApartUpTo
    <3> QED
      BY <2>1, <3>2
  <2> QED
    BY <2>1, <2>2 DEF Firsts
<1>7. Len(once) <= Len(reported)
  <2>1. IsFiniteSet(Firsts(all))
    BY <1>1, FirstsSorted
  <2>2. Cardinality(1 .. Len(once)) <= Cardinality(Firsts(all))
    BY <1>6, <2>1, FS_Subset
  <2>3. Cardinality(1 .. Len(once)) = Len(once)
    BY <1>1, Numbered
  <2> QED
    BY <1>5, <2>2, <2>3
<1>8. Covers(once, ws)
  BY <1>1, <1>2, <1>4, <1>7
<1>9. ASSUME NEW j \in DOMAIN ws
      PROVE  \E k \in DOMAIN reported : reported[k].kind = ws[j].kind /\ (ws[j].partial => reported[k].partial)
  <2>1. PICK i \in DOMAIN once : once[i].kind = ws[j].kind /\ (ws[j].partial => once[i].partial)
    BY <1>8 DEF Covers
  <2>2. i \in DOMAIN all /\ all[i] = once[i]
    BY <1>3
  <2>3. PICK k \in DOMAIN reported : reported[k].kind = all[i].kind /\ (all[i].partial => reported[k].partial)
    BY <1>5, <2>2 DEF Covers
  <2>4. reported[k].kind = ws[j].kind
    BY <2>1, <2>2, <2>3
  <2>5. ws[j].partial => reported[k].partial
    BY <2>1, <2>2, <2>3
  <2> QED
    BY <2>4, <2>5
<1> QED
  BY <1>9 DEF Covers
-----------------------------------------------------------------------------
(* What is counted of a list of sessions.                                  *)

IdsApart(list) == \A i, j \in DOMAIN list : i # j => list[i].id # list[j].id

LEMMA ListIsApart ==
  ASSUME NEW S, NEW list \in Seq(S), IdsApart(list)
  PROVE  /\ OneEach(ToSet(list)) /\ IsFiniteSet(ToSet(list)) /\ Cardinality(ToSet(list)) \in Nat
         /\ Cardinality(IdsOf(ToSet(list))) = Len(list)
<1>1. DOMAIN list = 1 .. Len(list) /\ Len(list) \in Nat
  OBVIOUS
<1>2. IsFiniteSet(DOMAIN list) /\ Cardinality(DOMAIN list) = Len(list)
  BY <1>1, Numbered
<1>3. OneEach(ToSet(list))
  BY DEF OneEach, ToSet, IdsApart
<1> DEFINE f == [i \in DOMAIN list |-> list[i]]
<1>4. f \in Surjection(DOMAIN list, ToSet(list))
  BY DEF Surjection, ToSet
<1>5. IsFiniteSet(ToSet(list))
  BY <1>2, <1>4, FS_Surjection
<1>6. {list[i].id : i \in DOMAIN list} = IdsOf(ToSet(list))
  BY DEF IdsOf, ToSet
<1>7. Cardinality(IdsOf(ToSet(list))) = Len(list)
  <2>1. \A i, j \in DOMAIN list : i # j => list[i].id # list[j].id
    BY DEF IdsApart
  <2>2. Cardinality({list[i].id : i \in DOMAIN list}) = Cardinality(DOMAIN list)
    BY <1>2, <2>1, PlacesCounted
  <2> QED
    BY <1>2, <1>6, <2>2
<1> QED
  BY <1>3, <1>5, <1>7, FS_CardinalityType

\* As many places of roots as roots.
LEMMA RootsCounted ==
  ASSUME NEW S, NEW list \in Seq(S), IdsApart(list)
  PROVE  Cardinality(RootsAt(list)) = Cardinality(Roots(ToSet(list)))
<1>1. RootsAt(list) \in SUBSET DOMAIN list /\ IsFiniteSet(DOMAIN list)
  <2>1. DOMAIN list = 1 .. Len(list) /\ Len(list) \in Nat
    OBVIOUS
  <2>2. IsFiniteSet(DOMAIN list)
    BY <2>1, Numbered
  <2> QED
    BY <2>2 DEF RootsAt
<1>2. IsFiniteSet(RootsAt(list))
  BY <1>1, FS_Subset
<1>3. \A i, j \in RootsAt(list) : i # j => list[i].id # list[j].id
  BY <1>1 DEF IdsApart
<1>4. {list[i].id : i \in RootsAt(list)} = Roots(ToSet(list))
  <2>1. OneEach(ToSet(list))
    BY ListIsApart
  <2>2. Roots(ToSet(list)) \subseteq IdsOf(ToSet(list))
    BY <2>1, ChildrenAre
  <2>3. ASSUME NEW x \in Roots(ToSet(list)) PROVE \E i \in RootsAt(list) : list[i].id = x
    <3>1. PICK i \in DOMAIN list : list[i].id = x
      BY <2>2 DEF IdsOf, ToSet
    <3> QED
      BY <3>1 DEF RootsAt
  <2>4. \A i \in RootsAt(list) : list[i].id \in Roots(ToSet(list))
    BY DEF RootsAt
  <2> QED
    BY <2>3, <2>4
<1> QED
  BY <1>2, <1>3, <1>4, PlacesCounted

\* What is counted of a step.
Counts(list, step) ==
  {p \in RootsAt(list) \X ToSet(list) :
     p[2].id \in MembersOf(ToSet(list), list[p[1]].id) /\ step \in p[2].steps}

LEMMA CountsFinite ==
  ASSUME NEW S, NEW list \in Seq(S), IdsApart(list), NEW step
  PROVE  /\ IsFiniteSet(Counts(list, step)) /\ Counted(list, step) = Cardinality(Counts(list, step))
         /\ Counted(list, step) \in Nat
<1>1. DOMAIN list = 1 .. Len(list) /\ Len(list) \in Nat
  OBVIOUS
<1>2. IsFiniteSet(DOMAIN list)
  BY <1>1, Numbered
<1>3. IsFiniteSet(RootsAt(list)) /\ IsFiniteSet(ToSet(list))
  BY <1>2, FS_Subset, ListIsApart DEF RootsAt
<1>4. IsFiniteSet(RootsAt(list) \X ToSet(list))
  BY <1>3, FS_Product
<1>5. IsFiniteSet(Counts(list, step))
  BY <1>4, FS_Subset DEF Counts
<1> QED
  BY <1>5, FS_CardinalityType DEF Counted, Counts

\* A step of a root counts.
LEMMA RootCounts ==
  ASSUME NEW S, NEW list \in Seq(S), IdsApart(list), NEW u \in ToSet(list),
         u.id \in Roots(ToSet(list)), NEW step \in u.steps
  PROVE  Counted(list, step) > 0
<1>1. PICK i \in DOMAIN list : list[i] = u
  BY DEF ToSet
<1>2. i \in RootsAt(list)
  BY <1>1 DEF RootsAt
<1>3. u.id \in MembersOf(ToSet(list), u.id)
  <2>1. u.id \in IdsOf(ToSet(list)) /\ Cardinality(ToSet(list)) \in Nat
    BY ListIsApart DEF IdsOf
  <2>2. u.id \in Tree(ToSet(list), u.id)
    BY <2>1, LevelsGrow
  <2> QED
    BY <2>2 DEF MembersOf
<1>4. <<i, u>> \in Counts(list, step)
  BY <1>1, <1>2, <1>3 DEF Counts
<1>5. Cardinality(Counts(list, step)) # 0
  BY <1>4, CountsFinite, FS_EmptySet
<1> QED
  BY <1>5, CountsFinite

\* A step that counts twice is in two sessions.
LEMMA TwiceIsTwo ==
  ASSUME NEW S, NEW list \in Seq(S), IdsApart(list), NEW step, ~(Counted(list, step) <= 1)
  PROVE  \E u, v \in ToSet(list) : u # v /\ step \in u.steps \cap v.steps
<1>1. /\ OneEach(ToSet(list)) /\ Cardinality(ToSet(list)) \in Nat
      /\ Roots(ToSet(list)) \subseteq IdsOf(ToSet(list))
  BY ListIsApart, ChildrenAre
<1>2. IsFiniteSet(Counts(list, step)) /\ Cardinality(Counts(list, step)) > 1
  BY CountsFinite
<1>3. PICK p \in Counts(list, step) : TRUE
  BY <1>2, FS_EmptySet
<1>4. Counts(list, step) # {p}
  BY <1>2, FS_Singleton
<1>5. PICK q \in Counts(list, step) : q # p
  BY <1>3, <1>4
<1>6. ASSUME NEW r \in Counts(list, step)
      PROVE  /\ r = <<r[1], r[2]>> /\ r[1] \in RootsAt(list) /\ r[2] \in ToSet(list)
             /\ r[2].id \in MembersOf(ToSet(list), list[r[1]].id) /\ step \in r[2].steps
  BY DEF Counts
<1>7. p[2] # q[2]
  <2> SUFFICES ASSUME p[2] = q[2] PROVE FALSE
    OBVIOUS
  <2>1. p[1] # q[1] /\ p[1] \in DOMAIN list /\ q[1] \in DOMAIN list
    BY <1>5, <1>6 DEF RootsAt
  <2> DEFINE a == list[p[1]].id
             b == list[q[1]].id
  <2>2. a \in Roots(ToSet(list)) /\ b \in Roots(ToSet(list)) /\ a # b
    BY <1>6, <2>1 DEF RootsAt, IdsApart
  <2>3. p[2].id \in MembersOf(ToSet(list), a) /\ p[2].id \in MembersOf(ToSet(list), b)
    BY <1>6
  <2> HIDE DEF a, b
  <2>4. Tree(ToSet(list), a) \cap Tree(ToSet(list), b) = {}
    BY <1>1, <2>2, TreesApart
  <2> QED
    BY <2>2, <2>3, <2>4 DEF MembersOf
<1> QED
  BY <1>6, <1>7
-----------------------------------------------------------------------------
(* What holds while the sessions are listed, read and counted.             *)

Histories == [Ids -> Session \cup {Missing, Gone}]
Records == [id : CanonicalIds, parent : CanonicalIds \cup {Missing}, status : Statuses]
Entries == {e \in [source : DOMAIN Sources, meta : MetaType] : e.meta.id[1] = Sources[e.source].harness}
ReadsTyped ==
  /\ db \in [Harnesses -> Histories]
  /\ providers \in Seq(DOMAIN Sources) /\ turn \in Nat \ {0}
  /\ half = "all" => turn <= Len(providers)
  /\ stage = "start" => half = "window" /\ windowed = << >>
  /\ stage # "start" => snap \in [DOMAIN Sources -> Histories]
  /\ windowed \in Seq(Entries) /\ queue \in Seq(Entries)
  /\ usages \in Seq(Usages) /\ audit \in Seq(Records) /\ warnings \in Seq(Warning)
  /\ reading \in [steps : SUBSET Steps, unpriced : SUBSET Steps] \cup {Missing}

\* A session has one place, in the queue or in the audit; and the sessions that
\* are counted are those that the audit has as included.
Included(records) == {r \in ToSet(records) : r.status = "included"}
Traced ==
  /\ IdsApart(audit) /\ IdsApart(usages)
  /\ \A i, j \in DOMAIN queue : i # j => queue[i].meta.id # queue[j].meta.id
  /\ \A i \in DOMAIN queue, j \in DOMAIN audit : queue[i].meta.id # audit[j].id
  /\ Pairs(ToSet(usages)) = Pairs(Included(audit))
  /\ reading # Missing => queue # << >>
  /\ stage \in {"start", "list"} =>
       queue = << >> /\ usages = << >> /\ audit = << >> /\ warnings = << >> /\ reading = Missing

\* What a session may have become.
Later(s, t) == s = Missing \/ t = Gone \/ (s # Gone /\ t # Missing /\ t.turns = s.turns)
NowAt(id) == db[id[1]][id[2]]
\* What was listed exists, and what was read is what the harness still has.
Remembered ==
  /\ \A e \in ToSet(windowed) \cup ToSet(queue) : Seen(e.source)[e.meta.id[2]] # Missing
  /\ stage # "start" => \A i \in DOMAIN Sources, n \in Ids : Later(snap[i][n], db[Sources[i].harness][n])
  /\ \A u \in ToSet(usages) : NowAt(u.id) = Gone \/ (NowAt(u.id) # Missing /\ u.turns = NowAt(u.id).turns)

\* The steps that a harness had when the run started, and those of a session.
Owner(d, h) == UNION {d[h][n].steps : n \in {n \in Ids : d[h][n] # Missing}}
StepsOf(s) == IF s \in {Missing, Gone} THEN {} ELSE s.steps
Owned(d) ==
  /\ \A h \in Harnesses, n \in Ids : StepsOf(db[h][n]) \subseteq Owner(d, h)
  /\ stage # "start" => \A i \in DOMAIN Sources, n \in Ids : StepsOf(snap[i][n]) \subseteq Owner(d, Sources[i].harness)
  /\ reading # Missing => reading.steps \subseteq Owner(d, queue[1].meta.id[1])
  /\ \A u \in ToSet(usages) : u.steps \subseteq Owner(d, u.id[1])

\* What could not be read, or has no price, is told.
Told ==
  /\ \A i \in DOMAIN audit : audit[i].status = "error" => \E j \in DOMAIN warnings : warnings[j].partial
  /\ \A u \in ToSet(usages) : u.unpriced # {} => \E j \in DOMAIN warnings : warnings[j].kind = "missing-pricing"

\* What the properties say of the summary.
AddsUp ==
  /\ Cardinality(IdsOf(ToSet(audit))) = Len(audit)
  /\ draft.selection.counted = draft.sessions
  /\ draft.selection.merged = Cardinality(draft.subagents)
  /\ IdsOf(ToSet(usages)) = IdsOf(Included(audit))
CountsOnce ==
  \A step \in Steps :
    \/ draft.totals[step] <= 1
    \/ \E u, v \in ToSet(usages) : u.id # v.id /\ step \in u.steps \cap v.steps /\ Parted(u, v)
Reports ==
  \A u \in ToSet(usages) : u.id \in draft.subagents \/ \A step \in u.steps : draft.totals[step] > 0
Tells(s) ==
  \/ Len(s.warnings) = MaxWarnings
  \/ /\ s.selection.of["error"] = 0 \/ \E i \in DOMAIN s.warnings : s.warnings[i].partial
     /\ \A u \in ToSet(usages) : u.unpriced = {}
          \/ \E i \in DOMAIN s.warnings : s.warnings[i].kind = "missing-pricing"
Made ==
  /\ stage \in {"start", "list", "read"} => draft = Missing
  /\ draft # Missing \/ stage \in {"write", "stamp"} =>
       /\ AddsUp /\ CountsOnce /\ Reports /\ Tells(draft)
       /\ {"warnings", "selection", "provenance"} \subseteq DOMAIN draft
  /\ stage = "stamp" => summary = draft
  /\ rc = 0 => stage = "done"
  /\ GapIsTold

Accounted(d) == ReadsTyped /\ Traced /\ Remembered /\ Owned(d) /\ Told /\ Made

\* What is left for the totals.
Rest == Sublist(usages, {i \in DOMAIN usages : usages[i] \notin Resumed(usages)})
Marked == MarkResumed(audit, IdsOf(Resumed(usages)))

LEMMA RestIs ==
  ASSUME ReadsTyped, Traced
  PROVE  /\ Rest \in Seq(Usages) /\ IdsApart(Rest) /\ ToSet(Rest) = ToSet(usages) \ Resumed(usages)
         /\ OneEach(ToSet(usages)) /\ IsFiniteSet(ToSet(usages))
<1> DEFINE places == {i \in DOMAIN usages : usages[i] \notin Resumed(usages)}
           order == InOrder(places, Upwards(places))
<1>1. usages \in Seq(Usages) /\ IdsApart(usages) /\ places \in SUBSET DOMAIN usages
  BY DEF ReadsTyped, Traced
<1>5. Rest = Sublist(usages, places)
  BY DEF Rest
<1>6. \A i \in DOMAIN usages : (i \in places) <=> usages[i] \notin Resumed(usages)
  OBVIOUS
<1> HIDE DEF places
<1>2. /\ Rest \in Seq(Usages)
      /\ \A k \in DOMAIN Rest : order[k] \in places /\ Rest[k] = usages[order[k]]
      /\ \A k, l \in DOMAIN Rest : k # l => order[k] # order[l]
      /\ ToSet(Rest) = {usages[i] : i \in places}
  BY <1>1, <1>5, SublistIs
<1> HIDE DEF order
<1>3. ToSet(Rest) = ToSet(usages) \ Resumed(usages)
  <2>1. ToSet(usages) = {usages[i] : i \in DOMAIN usages}
    BY DEF ToSet
  <2> QED
    BY <1>1, <1>2, <1>6, <2>1
<1>4. IdsApart(Rest)
  BY <1>1, <1>2 DEF IdsApart
<1> QED
  BY <1>1, <1>2, <1>3, <1>4, ListIsApart

\* The audit follows the sessions that are merged.
LEMMA MarkedIs ==
  ASSUME ReadsTyped, Traced
  PROVE  /\ Marked \in Seq(Records) /\ IdsApart(Marked) /\ DOMAIN Marked = DOMAIN audit /\ Len(Marked) = Len(audit)
         /\ \A i \in DOMAIN audit : /\ Marked[i].id = audit[i].id /\ Marked[i].parent = audit[i].parent
                                    /\ (Marked[i].status = "error") <=> (audit[i].status = "error")
         /\ Pairs(Included(Marked)) = Pairs(ToSet(Rest))
<1> DEFINE dropped == IdsOf(Resumed(usages))
           marked(i) == IF audit[i].id \in dropped /\ audit[i].status = "included"
                        THEN [audit[i] EXCEPT !.status = "resumed-duplicate"] ELSE audit[i]
<1>1. audit \in Seq(Records) /\ Marked = [i \in DOMAIN audit |-> marked(i)]
  BY DEF ReadsTyped, Marked, MarkResumed
<1> HIDE DEF dropped
<1>2. ASSUME NEW i \in DOMAIN audit
      PROVE  /\ marked(i) \in Records /\ marked(i).id = audit[i].id /\ marked(i).parent = audit[i].parent
             /\ (marked(i).status = "error") <=> (audit[i].status = "error")
             /\ (marked(i).status = "included") <=> (audit[i].status = "included" /\ audit[i].id \notin dropped)
  <2>1. audit[i] \in Records
    BY <1>1
  <2> QED
    BY <2>1 DEF Records, Statuses
<1> HIDE DEF marked
<1>3. /\ Marked \in Seq(Records) /\ DOMAIN Marked = DOMAIN audit /\ Len(Marked) = Len(audit)
      /\ \A i \in DOMAIN audit : Marked[i] = marked(i)
  BY <1>1, <1>2
<1>4. IdsApart(Marked)
  BY <1>2, <1>3 DEF IdsApart, Traced
<1>5. Pairs(ToSet(usages)) = Pairs(Included(audit)) /\ OneEach(ToSet(usages))
  BY RestIs DEF Traced
<1>6. \A u \in ToSet(usages) : (u \in Resumed(usages)) <=> u.id \in dropped
  BY <1>5 DEF OneEach, IdsOf, dropped, Resumed
<1>7. ASSUME NEW x \in Pairs(Included(Marked)) PROVE x \in Pairs(ToSet(Rest))
  <2>1. PICK i \in DOMAIN audit : x = <<Marked[i].id, Marked[i].parent>> /\ Marked[i].status = "included"
    BY <1>3 DEF Pairs, Included, ToSet
  <2>2. x = <<audit[i].id, audit[i].parent>> /\ audit[i].status = "included" /\ audit[i].id \notin dropped
    BY <1>2, <1>3, <2>1
  <2>3. x \in Pairs(ToSet(usages))
    BY <1>5, <2>2 DEF Pairs, Included, ToSet
  <2>4. PICK u \in ToSet(usages) : x = <<u.id, u.parent>>
    BY <2>3 DEF Pairs
  <2>5. u \in ToSet(Rest)
    BY <1>6, <2>2, <2>4, RestIs
  <2> QED
    BY <2>4, <2>5 DEF Pairs
<1>8. ASSUME NEW x \in Pairs(ToSet(Rest)) PROVE x \in Pairs(Included(Marked))
  <2>1. PICK u \in ToSet(usages) \ Resumed(usages) : x = <<u.id, u.parent>>
    BY RestIs DEF Pairs
  <2>2. x \in Pairs(Included(audit)) /\ u.id \notin dropped
    BY <1>5, <1>6, <2>1 DEF Pairs
  <2>3. PICK i \in DOMAIN audit : x = <<audit[i].id, audit[i].parent>> /\ audit[i].status = "included"
    BY <2>2 DEF Pairs, Included, ToSet
  <2>4. Marked[i].status = "included" /\ x = <<Marked[i].id, Marked[i].parent>>
    BY <1>2, <1>3, <2>1, <2>2, <2>3
  <2>5. Marked[i] \in Included(Marked)
    BY <1>3, <2>4 DEF Included, ToSet
  <2> QED
    BY <2>4, <2>5 DEF Pairs
<1> QED
  BY <1>2, <1>3, <1>4, <1>7, <1>8
\* The session that two usages of a harness are read from had one transcript.
LEMMA CountsOnceKept ==
  ASSUME NEW d \in Databases, ReadsTyped, Traced, Remembered, Owned(d),
         NEW u \in ToSet(usages) \ Resumed(usages), NEW v \in ToSet(usages) \ Resumed(usages), u # v,
         u.steps \cap v.steps # {}
  PROVE  u.id # v.id /\ Parted(u, v)
<1>1. u \in Usages /\ v \in Usages /\ u.id # v.id
  <2>1. u \in ToSet(usages) /\ v \in ToSet(usages) /\ usages \in Seq(Usages)
    BY DEF ReadsTyped
  <2>2. u \in Usages /\ v \in Usages
    BY <2>1 DEF ToSet
  <2>3. OneEach(ToSet(usages))
    BY RestIs
  <2> QED
    BY <2>1, <2>2, <2>3 DEF OneEach
<1>2. ~SameSession(u, v)
  BY <1>1, RestIs, NoTwins DEF ReadsTyped
<1>3. u.id[1] = v.id[1]
  <2> SUFFICES ASSUME u.id[1] # v.id[1] PROVE FALSE
    OBVIOUS
  <2>1. PICK step : step \in u.steps /\ step \in v.steps
    OBVIOUS
  <2>2. step \in Owner(d, u.id[1]) /\ step \in Owner(d, v.id[1])
    BY <2>1 DEF Owned
  <2>3. PICK m \in Ids, n \in Ids : /\ d[u.id[1]][m] # Missing /\ step \in d[u.id[1]][m].steps
                                    /\ d[v.id[1]][n] # Missing /\ step \in d[v.id[1]][n].steps
    BY <2>2 DEF Owner
  <2>4. u.id[1] \in Harnesses /\ v.id[1] \in Harnesses
    BY <1>1, UsageTypes
  <2> QED
    BY <2>3, <2>4, StepsHaveOneHarness
<1>4. /\ NowAt(u.id) = Gone \/ u.turns = NowAt(u.id).turns
      /\ NowAt(v.id) = Gone \/ v.turns = NowAt(v.id).turns
  BY DEF Remembered
<1>5. Fingerprint(u) = Missing \/ Fingerprint(v) = Missing \/ Fingerprint(u) # Fingerprint(v)
  BY <1>2, <1>3 DEF SameSession
<1>7. ASSUME NEW w \in Usages, Fingerprint(w) = Missing PROVE Len(w.turns) < MinTurns
  <2> SUFFICES ASSUME ~(Len(w.turns) < MinTurns) PROVE FALSE
    OBVIOUS
  <2>1. w.turns \in Seq(Turns) /\ MinTurns \in Nat /\ MinTurns <= Len(w.turns)
    BY UsageTypes, LimitsAreNatural
  <2>2. SubSeq(w.turns, 1, MinTurns) \in Seq(Turns)
    BY <2>1
  <2> QED
    BY <1>7, <2>1, <2>2, DatabasesAreTyped DEF Fingerprint
<1>6. Parted(u, v)
  <2>1. CASE Len(u.turns) < MinTurns \/ Len(v.turns) < MinTurns
    BY <1>4, <2>1 DEF Parted, NowAt
  <2>2. CASE ~(Len(u.turns) < MinTurns) /\ ~(Len(v.turns) < MinTurns)
    <3>1. SubSeq(u.turns, 1, MinTurns) # SubSeq(v.turns, 1, MinTurns)
      BY <1>1, <1>5, <1>7, <2>2 DEF Fingerprint
    <3> QED
      BY <1>4, <3>1 DEF Parted, NowAt
  <2> QED
    BY <2>1, <2>2
<1> QED
  BY <1>1, <1>6
-----------------------------------------------------------------------------
(* The summary.                                                            *)

LEMMA OneIs ==
  ASSUME NEW S, NEW x \in S
  PROVE  <<x>> \in Seq(S) /\ Len(<<x>>) = 1 /\ DOMAIN <<x>> = {1} /\ <<x>>[1] = x
OBVIOUS

LEMMA WarnType ==
  ASSUME NEW kind \in Kinds, NEW id \in CanonicalIds \cup {Missing}, NEW into \in CanonicalIds \cup {Missing}
  PROVE  /\ Warn(kind, id) \in Warning /\ Warn(kind, id).kind = kind /\ Warn(kind, id).id = id
         /\ [Warn(kind, id) EXCEPT !.into = into] \in Warning
BY DEF Warn, Warning

\* aggregate adds to the warnings.
LEMMA AggregateWarns ==
  ASSUME ReadsTyped, Traced
  PROVE  Merges(usages) \in Seq(Warning) /\ AggregateWarnings(Rest) \in Seq(Warning)
<1>1. /\ usages \in Seq(Usages) /\ OneEach(ToSet(usages)) /\ IsFiniteSet(ToSet(usages))
      /\ Rest \in Seq(Usages)
  BY RestIs DEF ReadsTyped
<1>2. ASSUME NEW list \in Seq(Usages), NEW places \in SUBSET DOMAIN list
      PROVE  /\ Sublist(list, places) \in Seq(Usages) /\ Len(Sublist(list, places)) \in Nat
             /\ DOMAIN Sublist(list, places) = 1 .. Len(Sublist(list, places))
             /\ \A k \in DOMAIN Sublist(list, places) : \E i \in places : Sublist(list, places)[k] = list[i]
  BY SublistIs
<1>3. Merges(usages) \in Seq(Warning)
  <2> DEFINE places == {i \in DOMAIN usages : usages[i] \in Resumed(usages)}
             dropped == Sublist(usages, places)
             warning(j) == [Warn("resumed", dropped[j].id) EXCEPT !.into = KeptFor(dropped[j], usages).id]
  <2>1. dropped \in Seq(Usages) /\ Len(dropped) \in Nat /\ DOMAIN dropped = 1 .. Len(dropped)
        /\ \A k \in DOMAIN dropped : dropped[k] \in Resumed(usages)
    BY <1>1, <1>2
  <2>2. Merges(usages) = [j \in DOMAIN dropped |-> warning(j)]
    BY DEF Merges
  <2> HIDE DEF dropped
  <2>3. ASSUME NEW j \in DOMAIN dropped PROVE warning(j) \in Warning
    <3>1. dropped[j] \in Usages /\ KeptFor(dropped[j], usages) \in Usages
      BY <1>1, <2>1, KeptIs DEF ToSet
    <3>2. dropped[j].id \in CanonicalIds /\ KeptFor(dropped[j], usages).id \in CanonicalIds
      BY <3>1, UsageTypes
    <3>3. "resumed" \in Kinds
      BY DEF Kinds
    <3> QED
      BY <3>2, <3>3, WarnType
  <2> HIDE DEF warning
  <2> QED
    BY <2>1, <2>2, <2>3
<1>4. AggregateWarnings(Rest) \in Seq(Warning)
  <2> DEFINE places == {i \in DOMAIN Rest : Rest[i].id \in Orphans(ToSet(Rest))}
             orphans == Sublist(Rest, places)
             reported == [j \in DOMAIN orphans |-> Warn("orphan", orphans[j].id)]
             n == Cardinality(Roots(ToSet(Rest)))
             small == IF n \in 1..(MinRoots - 1) THEN <<Warn("small sample", Missing)>> ELSE << >>
  <2>1. orphans \in Seq(Usages) /\ Len(orphans) \in Nat /\ DOMAIN orphans = 1 .. Len(orphans)
    BY <1>1, <1>2
  <2>2. AggregateWarnings(Rest) = reported \o small
    BY DEF AggregateWarnings
  <2> HIDE DEF orphans
  <2>3. ASSUME NEW j \in DOMAIN orphans PROVE Warn("orphan", orphans[j].id) \in Warning
    <3>1. orphans[j] \in Usages
      BY <2>1
    <3>2. orphans[j].id \in CanonicalIds /\ "orphan" \in Kinds
      BY <3>1, UsageTypes DEF Kinds
    <3> QED
      BY <3>2, WarnType
  <2>4. reported \in Seq(Warning)
    BY <2>1, <2>3
  <2>5. small \in Seq(Warning)
    <3>1. Warn("small sample", Missing) \in Warning
      BY WarnType DEF Kinds
    <3>2. <<Warn("small sample", Missing)>> \in Seq(Warning)
      BY <3>1, OneIs
    <3>3. << >> \in Seq(Warning)
      OBVIOUS
    <3> QED
      BY <3>2, <3>3
  <2> HIDE DEF reported, small
  <2> QED
    BY <2>2, <2>4, <2>5
<1> QED
  BY <1>3, <1>4
\* What aggregate makes of the sessions.
LEMMA AggregateIs ==
  ASSUME ReadsTyped, Traced, Aggregate
  PROVE  /\ usages' = Rest /\ audit' = Marked /\ warnings' = warnings \o Merges(usages) \o AggregateWarnings(Rest)
         /\ draft'.sessions = Cardinality(RootsAt(Rest)) /\ draft'.subagents = Subagents(ToSet(Rest))
         /\ \A step \in Steps : draft'.totals[step] = Counted(Rest, step)
         /\ draft'.selection.counted = Cardinality(Roots(Included(Marked)))
         /\ draft'.selection.merged = Cardinality(Included(Marked)) - Cardinality(Roots(Included(Marked)))
         /\ draft'.selection.of["error"] = Cardinality({i \in DOMAIN Marked : Marked[i].status = "error"})
         /\ \E more \in Seq(Warning) : draft'.warnings = Cap(Cap(warnings') \o more)
         /\ {"warnings", "selection", "provenance"} \subseteq DOMAIN draft'
<1> DEFINE dropped == Resumed(usages)
           selection == Selection(Marked)
<1>1. /\ usages' = Rest /\ audit' = Marked /\ warnings' = warnings \o Merges(usages) \o AggregateWarnings(Rest)
      /\ draft' = [sessions |-> Cardinality(RootsAt(Rest)), totals |-> [s \in Steps |-> Counted(Rest, s)],
                   subagents |-> Subagents(ToSet(Rest)), selection |-> selection,
                   estimates |-> Estimates(ToSet(Rest)),
                   warnings |-> Cap(Cap(warnings') \o SelectionWarnings(selection)), provenance |-> FALSE]
  BY DEF Aggregate, Rest, Marked
<1>2. /\ selection.counted = Cardinality(Roots(Included(Marked)))
      /\ selection.merged = Cardinality(Included(Marked)) - Cardinality(Roots(Included(Marked)))
      /\ selection.of["error"] = Cardinality({i \in DOMAIN Marked : Marked[i].status = "error"})
  BY DEF Selection, Included, Statuses
<1>3. SelectionWarnings(selection) \in Seq(Warning)
  <2>1. Warn("empty window", Missing) \in Warning /\ Warn("none counted", Missing) \in Warning
    BY WarnType DEF Kinds
  <2>2. <<Warn("empty window", Missing)>> \in Seq(Warning) /\ <<Warn("none counted", Missing)>> \in Seq(Warning)
    BY <2>1, OneIs
  <2>3. << >> \in Seq(Warning)
    OBVIOUS
  <2> QED
    BY <2>2, <2>3 DEF SelectionWarnings
<1> HIDE DEF selection
<1> QED
  BY <1>1, <1>2, <1>3

LEMMA AggregateKept ==
  ASSUME NEW d \in Databases, Accounted(d), Aggregate PROVE Accounted(d)'
<1>1. ReadsTyped /\ Traced /\ Remembered /\ Owned(d) /\ Told
  BY DEF Accounted
<1>2. /\ Rest \in Seq(Usages) /\ IdsApart(Rest) /\ ToSet(Rest) = ToSet(usages) \ Resumed(usages)
      /\ OneEach(ToSet(Rest)) /\ IsFiniteSet(ToSet(Rest))
  BY <1>1, RestIs, ListIsApart
<1>3. /\ Marked \in Seq(Records) /\ IdsApart(Marked) /\ DOMAIN Marked = DOMAIN audit /\ Len(Marked) = Len(audit)
      /\ \A i \in DOMAIN audit : /\ Marked[i].id = audit[i].id /\ Marked[i].parent = audit[i].parent
                                 /\ (Marked[i].status = "error") <=> (audit[i].status = "error")
      /\ Pairs(Included(Marked)) = Pairs(ToSet(Rest))
  BY <1>1, MarkedIs
<1>4. usages' = Rest /\ audit' = Marked /\ warnings' = warnings \o Merges(usages) \o AggregateWarnings(Rest)
  BY <1>1, AggregateIs
<1>5. /\ stage = "read" /\ stage' = "write" /\ queue = << >>
      /\ UNCHANGED <<db, cfg, providers, snap, windowed, known, turn, half, queue, reading, summary, rc>>
  BY DEF Aggregate
<1>6. warnings' \in Seq(Warning) /\ \A j \in DOMAIN warnings : j \in DOMAIN warnings' /\ warnings'[j] = warnings[j]
  <2>1. warnings \in Seq(Warning) /\ Merges(usages) \in Seq(Warning) /\ AggregateWarnings(Rest) \in Seq(Warning)
    BY <1>1, AggregateWarns DEF ReadsTyped
  <2> QED
    BY <1>4, <2>1
<1>7. ReadsTyped'
  BY <1>1, <1>2, <1>3, <1>4, <1>5, <1>6 DEF ReadsTyped, Histories
<1>8. Traced'
  <2>1. IdsApart(audit)' /\ IdsApart(usages)'
    BY <1>2, <1>3, <1>4 DEF IdsApart
  <2>2. (Pairs(ToSet(usages)) = Pairs(Included(audit)))'
    BY <1>3, <1>4 DEF Pairs, Included, ToSet
  <2>3. (/\ \A i, j \in DOMAIN queue : i # j => queue[i].meta.id # queue[j].meta.id
         /\ \A i \in DOMAIN queue, j \in DOMAIN audit : queue[i].meta.id # audit[j].id)'
    BY <1>5
  <2>4. (reading # Missing => queue # << >>)' /\ stage' \notin {"start", "list"}
    BY <1>1, <1>5 DEF Traced
  <2> QED
    BY <2>1, <2>2, <2>3, <2>4 DEF Traced
<1>9. \A u \in ToSet(usages') : u \in ToSet(usages) /\ u \notin Resumed(usages) /\ u \in Usages
  BY <1>1, <1>2, <1>4 DEF ReadsTyped, ToSet
<1>10. Remembered'
  <2>1. (\A e \in ToSet(windowed) \cup ToSet(queue) : Seen(e.source)[e.meta.id[2]] # Missing)'
    BY <1>1, <1>5 DEF Remembered, ToSet, Seen
  <2>2. (stage # "start" => \A i \in DOMAIN Sources, n \in Ids : Later(snap[i][n], db[Sources[i].harness][n]))'
    BY <1>1, <1>5 DEF Remembered, Later
  <2>3. (\A u \in ToSet(usages) : NowAt(u.id) = Gone \/ (NowAt(u.id) # Missing /\ u.turns = NowAt(u.id).turns))'
    <3>1. \A id : NowAt(id)' = NowAt(id)
      BY <1>5 DEF NowAt
    <3> QED
      BY <1>1, <1>5, <1>9 DEF Remembered, NowAt, ToSet
  <2> QED
    BY <2>1, <2>2, <2>3 DEF Remembered
<1>11. Owned(d)'
  <2>1. \A h : Owner(d, h)' = Owner(d, h)
    BY DEF Owner
  <2> QED
    BY <1>1, <1>5, <1>9 DEF Owned, Owner, StepsOf, ToSet
<1>12. Told'
  <2>1. (\A i \in DOMAIN audit : audit[i].status = "error" => \E j \in DOMAIN warnings : warnings[j].partial)'
    BY <1>1, <1>3, <1>4, <1>6 DEF Told
  <2>2. \A u \in ToSet(usages') : u.unpriced # {} => \E j \in DOMAIN warnings' : warnings'[j].kind = "missing-pricing"
    BY <1>1, <1>6, <1>9 DEF Told
  <2> QED
    BY <2>1, <2>2 DEF Told, ToSet
<1>13. AddsUp'
  <2>1. IsFiniteSet(Included(Marked)) /\ OneEach(Included(Marked)) /\ Cardinality(IdsOf(ToSet(Marked))) = Len(Marked)
    <3>1. IsFiniteSet(ToSet(Marked)) /\ OneEach(ToSet(Marked)) /\ Cardinality(IdsOf(ToSet(Marked))) = Len(Marked)
      BY <1>3, ListIsApart
    <3>2. Included(Marked) \in SUBSET ToSet(Marked)
      BY DEF Included
    <3> QED
      BY <3>1, <3>2, FS_Subset DEF OneEach
  <2>2. /\ IsFiniteSet(IdsOf(Included(Marked)))
        /\ Cardinality(IdsOf(Included(Marked))) = Cardinality(Included(Marked))
    BY <2>1, RecordsCounted
  <2>3. /\ IdsOf(Included(Marked)) = IdsOf(ToSet(Rest)) /\ Roots(Included(Marked)) = Roots(ToSet(Rest))
    BY <1>3, SamePairs
  <2>4. Cardinality(RootsAt(Rest)) = Cardinality(Roots(ToSet(Rest)))
    BY <1>2, RootsCounted
  <2>5. /\ Roots(ToSet(Rest)) \subseteq IdsOf(ToSet(Rest))
        /\ Subagents(ToSet(Rest)) = IdsOf(ToSet(Rest)) \ Roots(ToSet(Rest))
    BY <1>2, ChildrenAre
  <2>6. Cardinality(Subagents(ToSet(Rest))) = Cardinality(Included(Marked)) - Cardinality(Roots(Included(Marked)))
    <3> DEFINE all == IdsOf(ToSet(Rest))
               roots == Roots(ToSet(Rest))
    <3>1. IsFiniteSet(all) /\ roots \subseteq all /\ Cardinality(all) = Cardinality(Included(Marked))
      BY <2>2, <2>3, <2>5
    <3> HIDE DEF all, roots
    <3>2. IsFiniteSet(roots) /\ all \cap roots = roots
      BY <3>1, FS_Subset
    <3>3. Cardinality(all \ roots) = Cardinality(all) - Cardinality(all \cap roots)
      BY <3>1, <3>2, FS_Difference
    <3>4. Cardinality(all \ roots) = Cardinality(all) - Cardinality(roots)
      BY <3>2, <3>3
    <3> QED
      BY <2>3, <2>5, <3>1, <3>4 DEF all, roots
  <2>7. draft'.selection.counted = draft'.sessions /\ draft'.selection.merged = Cardinality(draft'.subagents)
    BY <1>1, <2>3, <2>4, <2>6, AggregateIs
  <2>8. Cardinality(IdsOf(ToSet(audit'))) = Len(audit') /\ IdsOf(ToSet(usages')) = IdsOf(Included(audit'))
    BY <1>4, <2>1, <2>3
  <2> QED
    BY <2>7, <2>8 DEF AddsUp, IdsOf, Included, ToSet
<1>14. Reports'
  <2>1. ASSUME NEW u \in ToSet(usages'), u.id \notin draft'.subagents, NEW step \in u.steps
        PROVE  draft'.totals[step] > 0
    <3>1. u \in ToSet(Rest) /\ u.id \in IdsOf(ToSet(Rest)) /\ step \in Steps
      BY <1>4, <1>9, UsageTypes DEF IdsOf
    <3>2. u.id \in Roots(ToSet(Rest))
      BY <1>1, <1>2, <2>1, <3>1, AggregateIs, ChildrenAre
    <3>3. Counted(Rest, step) > 0
      BY <1>2, <3>1, <3>2, RootCounts
    <3> QED
      BY <1>1, <3>1, <3>3, AggregateIs
  <2> QED
    BY <2>1 DEF Reports, ToSet
<1>15. CountsOnce'
  <2> SUFFICES ASSUME NEW step \in Steps, ~(draft'.totals[step] <= 1)
               PROVE  \E u, v \in ToSet(usages') : u.id # v.id /\ step \in u.steps \cap v.steps /\ Parted(u, v)'
    BY DEF CountsOnce, ToSet
  <2>1. ~(Counted(Rest, step) <= 1)
    BY <1>1, AggregateIs
  <2>2. PICK u \in ToSet(Rest), v \in ToSet(Rest) : u # v /\ step \in u.steps \cap v.steps
    BY <1>2, <2>1, TwiceIsTwo
  <2>3. u \in ToSet(usages) \ Resumed(usages) /\ v \in ToSet(usages) \ Resumed(usages)
    BY <1>2
  <2>4. u.id # v.id /\ Parted(u, v)
    BY <1>1, <2>2, <2>3, CountsOnceKept
  <2>5. Parted(u, v)'
    BY <1>5, <2>4 DEF Parted
  <2> QED
    BY <1>4, <2>2, <2>4, <2>5
<1>16. Tells(draft)'
  <2>1. PICK more \in Seq(Warning) : draft'.warnings = Cap(Cap(warnings') \o more)
    BY <1>1, AggregateIs
  <2> DEFINE reported == draft'.warnings
  <2>2. Len(reported) = MaxWarnings \/ Covers(reported, warnings')
    BY <1>6, <2>1, CapTwice
  <2>3. ASSUME Covers(reported, warnings')
        PROVE  /\ draft'.selection.of["error"] = 0 \/ \E i \in DOMAIN reported : reported[i].partial
               /\ \A u \in ToSet(usages') : u.unpriced = {} \/ \E i \in DOMAIN reported : reported[i].kind = "missing-pricing"
    <3>1. ASSUME draft'.selection.of["error"] # 0 PROVE \E i \in DOMAIN reported : reported[i].partial
      <4> DEFINE errors == {i \in DOMAIN Marked : Marked[i].status = "error"}
      <4>1. Cardinality(errors) # 0
        BY <1>1, <3>1, AggregateIs
      <4>2. errors # {}
        <5> HIDE DEF errors
        <5> QED
          BY <4>1, FS_EmptySet
      <4>3. PICK i \in DOMAIN audit' : audit'[i].status = "error"
        BY <1>4, <4>2
      <4>4. PICK j \in DOMAIN warnings' : warnings'[j].partial
        BY <1>12, <4>3 DEF Told
      <4> QED
        BY <2>3, <4>4 DEF Covers
    <3>2. ASSUME NEW u \in ToSet(usages'), u.unpriced # {}
          PROVE  \E i \in DOMAIN reported : reported[i].kind = "missing-pricing"
      <4>1. PICK j \in DOMAIN warnings' : warnings'[j].kind = "missing-pricing"
        BY <1>12, <3>2 DEF Told, ToSet
      <4> QED
        BY <2>3, <4>1 DEF Covers
    <3> QED
      BY <3>1, <3>2
  <2> QED
    BY <2>2, <2>3 DEF Tells, ToSet
<1>17. Made'
  <2>1. rc' = rc /\ stage' = "write" /\ stage = "read" /\ ~(rc = 0)
    BY <1>5 DEF Accounted, Made
  <2>2. {"warnings", "selection", "provenance"} \subseteq DOMAIN draft'
    BY <1>1, AggregateIs
  <2>3. GapIsTold'
    BY <2>1 DEF GapIsTold
  <2> QED
    BY <1>13, <1>14, <1>15, <1>16, <2>1, <2>2, <2>3 DEF Made
<1> QED
  BY <1>7, <1>8, <1>10, <1>11, <1>12, <1>17 DEF Accounted
-----------------------------------------------------------------------------
(* The sessions are read one by one.                                       *)

LEMMA NotYetMade ==
  ASSUME Made, stage \in {"start", "list", "read"}, draft' = draft, stage' \notin {"write", "stamp"},
         rc' = rc \/ rc' \in {1, 2}
  PROVE  Made'
<1>1. rc' # 0 /\ draft' = Missing
  BY DEF Made
<1> QED
  BY <1>1 DEF Made, GapIsTold

LEMMA NextIs ==
  ASSUME ReadsTyped, stage = "read", queue # << >>
  PROVE  /\ Next1 \in Entries /\ Id1 \in CanonicalIds /\ Id1[1] \in Harnesses /\ Id1[2] \in Ids
         /\ Next1.source \in DOMAIN Sources /\ Id1[1] = Sources[Next1.source].harness
         /\ Next1.meta.parent \in CanonicalIds \cup {Missing}
         /\ Now1 \in Session \cup {Missing, Gone}
         /\ Now1 \in Session => /\ Now1.turns \in Seq(Turns) /\ Now1.steps \in SUBSET Steps
                                /\ Now1.unpriced \in SUBSET Steps
<1>1. Next1 \in Entries
  BY DEF ReadsTyped, Next1
<1>2. /\ Next1.source \in DOMAIN Sources /\ Next1.meta \in MetaType /\ Id1[1] = Sources[Next1.source].harness
  BY <1>1 DEF Entries, Id1
<1>3. Id1 \in CanonicalIds /\ Next1.meta.parent \in CanonicalIds \cup {Missing}
  BY <1>2 DEF MetaType, Id1
<1>4. Id1[1] \in Harnesses /\ Id1[2] \in Ids
  BY <1>3 DEF CanonicalIds
<1>5. Seen(Next1.source) \in Histories
  <2>1. db \in [Harnesses -> Histories] /\ snap \in [DOMAIN Sources -> Histories]
    BY DEF ReadsTyped
  <2>2. Sources[Next1.source].harness \in Harnesses
    BY <1>2 DEF Harnesses
  <2>3. db[Sources[Next1.source].harness] \in Histories /\ snap[Next1.source] \in Histories
    BY <1>2, <2>1, <2>2
  <2> QED
    BY <2>3 DEF Seen
<1>6. Now1 \in Session \cup {Missing, Gone}
  BY <1>4, <1>5 DEF Now1, Histories
<1> QED
  BY <1>1, <1>2, <1>3, <1>4, <1>6 DEF Session

LEMMA TailIs ==
  ASSUME NEW S, NEW list \in Seq(S), list # << >>
  PROVE  /\ Tail(list) \in Seq(S) /\ 1 \in DOMAIN list
         /\ \A i \in DOMAIN Tail(list) : i + 1 \in DOMAIN list /\ i + 1 # 1 /\ Tail(list)[i] = list[i + 1]
<1>1. Len(list) \in Nat /\ Len(list) # 0 /\ DOMAIN list = 1 .. Len(list)
  OBVIOUS
<1>2. Tail(list) \in Seq(S) /\ Len(Tail(list)) = Len(list) - 1
  BY <1>1
<1>3. DOMAIN Tail(list) = 1 .. Len(list) - 1
  BY <1>1, <1>2
<1>4. \A i \in 1 .. Len(list) - 1 : Tail(list)[i] = list[i + 1]
  BY <1>1
<1> QED
  BY <1>1, <1>2, <1>3, <1>4

LEMMA AppendIs ==
  ASSUME NEW S, NEW list \in Seq(S), NEW x \in S
  PROVE  /\ Append(list, x) \in Seq(S) /\ ToSet(Append(list, x)) = ToSet(list) \cup {x}
         /\ DOMAIN Append(list, x) = DOMAIN list \cup {Len(list) + 1} /\ Len(list) + 1 \notin DOMAIN list
         /\ Append(list, x)[Len(list) + 1] = x /\ \A i \in DOMAIN list : Append(list, x)[i] = list[i]
<1>1. /\ Append(list, x) \in Seq(S) /\ Len(list) + 1 \notin DOMAIN list
      /\ DOMAIN Append(list, x) = DOMAIN list \cup {Len(list) + 1}
      /\ Append(list, x)[Len(list) + 1] = x /\ \A i \in DOMAIN list : Append(list, x)[i] = list[i]
  OBVIOUS
<1>2. ToSet(Append(list, x)) = ToSet(list) \cup {x}
  BY <1>1 DEF ToSet
<1> QED
  BY <1>1, <1>2

\* A disposition takes the session from the queue to the audit, and to the
\* sessions that are counted when it is included.
LEMMA DisposedKept ==
  ASSUME NEW d \in Databases, Accounted(d), stage = "read", queue # << >>,
         NEW status \in Statuses, NEW ws \in Seq(Warning), Dispose(status, ws),
         status = "error" => \E j \in DOMAIN ws : ws[j].partial,
         NEW added \in SUBSET Usages,
         usages' \in Seq(Usages), ToSet(usages') = ToSet(usages) \cup added, IdsApart(usages'),
         Pairs(added) = IF status = "included" THEN {<<Id1, Next1.meta.parent>>} ELSE {},
         \A u \in added : /\ NowAt(u.id) = Gone \/ (NowAt(u.id) # Missing /\ u.turns = NowAt(u.id).turns)
                          /\ u.steps \subseteq Owner(d, u.id[1])
                          /\ u.unpriced # {} => \E j \in DOMAIN ws : ws[j].kind = "missing-pricing"
  PROVE  Accounted(d)'
<1>1. ReadsTyped /\ Traced /\ Remembered /\ Owned(d) /\ Told /\ Made
  BY DEF Accounted
<1> DEFINE record == [id |-> Id1, parent |-> Next1.meta.parent, status |-> status]
<1>2. /\ audit' = Append(audit, record) /\ warnings' = warnings \o ws
      /\ queue' = Tail(queue) /\ reading' = Missing
      /\ UNCHANGED <<db, cfg, stage, providers, snap, windowed, known, turn, half, draft, summary, rc>>
  BY DEF Dispose
<1>3. record \in Records /\ record.id = Id1 /\ record.parent = Next1.meta.parent /\ record.status = status
  BY <1>1, NextIs DEF Records
<1> HIDE DEF record
<1>4. audit \in Seq(Records) /\ queue \in Seq(Entries) /\ warnings \in Seq(Warning) /\ usages \in Seq(Usages)
  BY <1>1 DEF ReadsTyped
<1>5. /\ audit' \in Seq(Records) /\ ToSet(audit') = ToSet(audit) \cup {record}
      /\ DOMAIN audit' = DOMAIN audit \cup {Len(audit) + 1} /\ Len(audit) + 1 \notin DOMAIN audit
      /\ audit'[Len(audit) + 1] = record /\ \A i \in DOMAIN audit : audit'[i] = audit[i]
  BY <1>2, <1>3, <1>4, AppendIs
<1>6. /\ queue' \in Seq(Entries) /\ 1 \in DOMAIN queue
      /\ \A i \in DOMAIN queue' : i + 1 \in DOMAIN queue /\ i + 1 # 1 /\ queue'[i] = queue[i + 1] /\ i \in Nat
  <2>1. \A i \in DOMAIN queue' : i \in Nat
    BY <1>2, <1>4
  <2> QED
    BY <1>2, <1>4, <2>1, TailIs
<1>7. /\ warnings' \in Seq(Warning)
      /\ \A j \in DOMAIN warnings : j \in DOMAIN warnings' /\ warnings'[j] = warnings[j]
      /\ \A j \in DOMAIN ws : Len(warnings) + j \in DOMAIN warnings' /\ warnings'[Len(warnings) + j] = ws[j]
  BY <1>2, <1>4
<1>8. ReadsTyped'
  BY <1>1, <1>2, <1>5, <1>6, <1>7 DEF ReadsTyped, Histories
<1>9. Traced'
  <2>1. Id1 = queue[1].meta.id
    BY DEF Id1, Next1
  <2>2. \A j \in DOMAIN audit : audit[j].id # Id1
    BY <1>1, <1>6, <2>1 DEF Traced
  <2>3. IdsApart(audit)'
    BY <1>1, <1>3, <1>5, <2>2 DEF Traced, IdsApart
  <2>4. (\A i, j \in DOMAIN queue : i # j => queue[i].meta.id # queue[j].meta.id)'
    BY <1>1, <1>6 DEF Traced
  <2>5. (\A i \in DOMAIN queue, j \in DOMAIN audit : queue[i].meta.id # audit[j].id)'
    BY <1>1, <1>3, <1>5, <1>6, <2>1 DEF Traced
  <2>6. Pairs(Included(audit')) = Pairs(Included(audit)) \cup IF status = "included" THEN {<<Id1, Next1.meta.parent>>} ELSE {}
    BY <1>3, <1>5 DEF Pairs, Included
  <2>7. Pairs(ToSet(usages')) = Pairs(ToSet(usages)) \cup Pairs(added)
    BY DEF Pairs
  <2>8. (Pairs(ToSet(usages)) = Pairs(Included(audit)))'
    BY <1>1, <2>6, <2>7 DEF Traced, Pairs, Included, ToSet
  <2>9. IdsApart(usages)'
    BY DEF IdsApart
  <2> QED
    BY <1>2, <2>3, <2>4, <2>5, <2>8, <2>9 DEF Traced
<1>10. Remembered'
  <2>1. \A e \in ToSet(windowed') \cup ToSet(queue') : e \in ToSet(windowed) \cup ToSet(queue)
    BY <1>2, <1>6 DEF ToSet
  <2>2. (\A e \in ToSet(windowed) \cup ToSet(queue) : Seen(e.source)[e.meta.id[2]] # Missing)'
    BY <1>1, <1>2, <2>1 DEF Remembered, ToSet, Seen
  <2>3. (stage # "start" => \A i \in DOMAIN Sources, n \in Ids : Later(snap[i][n], db[Sources[i].harness][n]))'
    BY <1>1, <1>2 DEF Remembered, Later
  <2>4. (\A u \in ToSet(usages) : NowAt(u.id) = Gone \/ (NowAt(u.id) # Missing /\ u.turns = NowAt(u.id).turns))'
    BY <1>1, <1>2 DEF Remembered, NowAt, ToSet
  <2> QED
    BY <2>2, <2>3, <2>4 DEF Remembered
<1>11. Owned(d)'
  <2>1. \A u \in ToSet(usages') : u.steps \subseteq Owner(d, u.id[1])
    BY <1>1 DEF Owned
  <2> QED
    BY <1>1, <1>2, <2>1 DEF Owned, Owner, StepsOf, ToSet
<1>12. Told'
  <2>1. ASSUME NEW i \in DOMAIN audit', audit'[i].status = "error" PROVE \E j \in DOMAIN warnings' : warnings'[j].partial
    <3>1. CASE i \in DOMAIN audit
      BY <1>1, <1>5, <1>7, <2>1, <3>1 DEF Told
    <3>2. CASE i = Len(audit) + 1
      BY <1>3, <1>5, <1>7, <2>1, <3>2
    <3> QED
      BY <1>5, <3>1, <3>2
  <2>2. ASSUME NEW u \in ToSet(usages'), u.unpriced # {}
        PROVE  \E j \in DOMAIN warnings' : warnings'[j].kind = "missing-pricing"
    <3>1. CASE u \in ToSet(usages)
      BY <1>1, <1>7, <2>2, <3>1 DEF Told
    <3>2. CASE u \in added
      BY <1>7, <2>2, <3>2
    <3> QED
      BY <3>1, <3>2
  <2> QED
    BY <2>1, <2>2 DEF Told, ToSet
<1>13. Made'
  BY <1>1, <1>2, NotYetMade
<1> QED
  BY <1>8, <1>9, <1>10, <1>11, <1>12, <1>13 DEF Accounted
\* A session that is not counted.
LEMMA LeftOutKept ==
  ASSUME NEW d \in Databases, Accounted(d), stage = "read", queue # << >>,
         NEW status \in Statuses \ {"included"}, NEW ws \in Seq(Warning), Dispose(status, ws),
         status = "error" => \E j \in DOMAIN ws : ws[j].partial, usages' = usages
  PROVE  Accounted(d)'
<1>1. usages \in Seq(Usages) /\ IdsApart(usages)
  BY DEF Accounted, ReadsTyped, Traced
<1>2. usages' \in Seq(Usages) /\ IdsApart(usages') /\ ToSet(usages') = ToSet(usages) \cup {} /\ Pairs({}) = {}
  BY <1>1 DEF Pairs
<1> DEFINE added == {}
<1>3. /\ added \in SUBSET Usages /\ ToSet(usages') = ToSet(usages) \cup added
      /\ Pairs(added) = IF status = "included" THEN {<<Id1, Next1.meta.parent>>} ELSE {}
      /\ \A u \in added : FALSE
  BY <1>2
<1> HIDE DEF added
<1> QED
  BY <1>2, <1>3, DisposedKept

LEMMA SkipActiveKept == ASSUME NEW d \in Databases, Accounted(d), SkipActive PROVE Accounted(d)'
<1>1. ReadsTyped /\ stage = "read" /\ queue # << >>
  BY DEF Accounted, SkipActive, AtNext
<1>2. Warn("active session", Id1) \in Warning
  <2>1. "active session" \in Kinds
    BY DEF Kinds
  <2> QED
    BY <1>1, <2>1, NextIs, WarnType
<1>3. <<Warn("active session", Id1)>> \in Seq(Warning)
  BY <1>2, OneIs
<1>4. Dispose("active", <<Warn("active session", Id1)>>) /\ usages' = usages /\ "active" \in Statuses \ {"included"}
  BY DEF SkipActive, Statuses
<1> QED
  BY <1>1, <1>3, <1>4, LeftOutKept

LEMMA SkipAdvisorKept == ASSUME NEW d \in Databases, Accounted(d), SkipAdvisor PROVE Accounted(d)'
<1>1. stage = "read" /\ queue # << >> /\ Dispose("advisor", << >>) /\ usages' = usages
  BY DEF SkipAdvisor, AtNext
<1>2. << >> \in Seq(Warning)
  OBVIOUS
<1>3. "advisor" \in Statuses \ {"included"}
  BY DEF Statuses
<1> QED
  BY <1>1, <1>2, <1>3, LeftOutKept

LEMMA ReadFailsKept == ASSUME NEW d \in Databases, Accounted(d), ReadFails PROVE Accounted(d)'
<1>1. ReadsTyped /\ stage = "read" /\ queue # << >>
  BY DEF Accounted, ReadFails
<1>2. Unread(Id1) \in Warning /\ Unread(Id1).partial
  <2>1. "session read failed" \in Kinds
    BY DEF Kinds
  <2>2. Warn("session read failed", Id1) \in Warning
    BY <1>1, <2>1, NextIs, WarnType
  <2> QED
    BY <2>2 DEF Unread, Warning
<1>3. <<Unread(Id1)>> \in Seq(Warning) /\ DOMAIN <<Unread(Id1)>> = {1} /\ <<Unread(Id1)>>[1] = Unread(Id1)
  BY <1>2, OneIs
<1>4. Dispose("error", <<Unread(Id1)>>) /\ usages' = usages /\ "error" \in Statuses \ {"included"}
  BY DEF ReadFails, Statuses
<1>5. \E j \in DOMAIN <<Unread(Id1)>> : <<Unread(Id1)>>[j].partial
  BY <1>2, <1>3
<1> QED
  BY <1>1, <1>3, <1>4, <1>5, LeftOutKept

LEMMA FindNoStepsKept == ASSUME NEW d \in Databases, Accounted(d), FindNoSteps PROVE Accounted(d)'
<1>1. ReadsTyped /\ stage = "read" /\ queue # << >> /\ usages' = usages
  BY DEF Accounted, Traced, FindNoSteps
<1>2. Warn("no telemetry", Id1) \in Warning
  <2>1. "no telemetry" \in Kinds
    BY DEF Kinds
  <2> QED
    BY <1>1, <2>1, NextIs, WarnType
<1>3. <<Warn("no telemetry", Id1)>> \in Seq(Warning)
  BY <1>2, OneIs
<1>4. << >> \in Seq(Warning)
  OBVIOUS
<1>5. Dispose("no-activity", << >>) \/ Dispose("unflushed", <<Warn("no telemetry", Id1)>>)
  BY DEF FindNoSteps
<1>6. "no-activity" \in Statuses \ {"included"} /\ "unflushed" \in Statuses \ {"included"}
  BY DEF Statuses
<1>7. CASE Dispose("no-activity", << >>)
  BY <1>1, <1>4, <1>6, <1>7, LeftOutKept
<1>8. CASE Dispose("unflushed", <<Warn("no telemetry", Id1)>>)
  BY <1>1, <1>3, <1>6, <1>8, LeftOutKept
<1> QED
  BY <1>5, <1>7, <1>8

\* The session that is read is one that was listed.
LEMMA NowIs ==
  ASSUME NEW d \in Databases, Accounted(d), stage = "read", queue # << >>
  PROVE  /\ Now1 \in Session \cup {Gone}
         /\ NowAt(Id1) = Gone \/ (Now1 # Gone /\ NowAt(Id1) # Missing /\ NowAt(Id1).turns = Now1.turns)
         /\ StepsOf(Now1) \subseteq Owner(d, Id1[1])
<1>1. /\ Next1 \in Entries /\ Id1[1] \in Harnesses /\ Id1[2] \in Ids
      /\ Next1.source \in DOMAIN Sources /\ Id1[1] = Sources[Next1.source].harness
      /\ Now1 \in Session \cup {Missing, Gone}
  BY NextIs DEF Accounted
<1>2. Now1 # Missing
  <2>1. Next1 \in ToSet(queue)
    BY DEF Accounted, ReadsTyped, Next1, ToSet
  <2> QED
    BY <2>1 DEF Accounted, Remembered, Now1, Id1
<1>3. Later(snap[Next1.source][Id1[2]], NowAt(Id1))
  BY <1>1 DEF Accounted, Remembered, NowAt
<1>4. Now1 = NowAt(Id1) \/ Now1 = snap[Next1.source][Id1[2]]
  BY <1>1 DEF Now1, Seen, NowAt
<1>5. StepsOf(NowAt(Id1)) \subseteq Owner(d, Id1[1]) /\ StepsOf(snap[Next1.source][Id1[2]]) \subseteq Owner(d, Id1[1])
  BY <1>1 DEF Accounted, Owned, NowAt
<1> QED
  BY <1>1, <1>2, <1>3, <1>4, <1>5 DEF Later

LEMMA IncludeKept == ASSUME NEW d \in Databases, Accounted(d), Include PROVE Accounted(d)'
<1> DEFINE u == [id |-> Id1, parent |-> Next1.meta.parent, steps |-> reading.steps,
                 unpriced |-> reading.unpriced,
                 turns |-> IF Now1 = Gone THEN << >> ELSE Now1.turns]
           ws == CostWarnings(Now1 # Gone /\ Now1.skewed)
<1>1. /\ ReadsTyped /\ Traced /\ Owned(d) /\ stage = "read" /\ queue # << >> /\ reading # Missing /\ reading.steps # {}
      /\ usages' = Append(usages, u) /\ Dispose("included", ws)
  BY DEF Accounted, Traced, Include
<1>2. /\ Id1 \in CanonicalIds /\ Next1.meta.parent \in CanonicalIds \cup {Missing}
      /\ Now1 \in Session => Now1.turns \in Seq(Turns)
  BY <1>1, NextIs
<1>3. /\ Now1 \in Session \cup {Gone}
      /\ NowAt(Id1) = Gone \/ (Now1 # Gone /\ NowAt(Id1) # Missing /\ NowAt(Id1).turns = Now1.turns)
  BY <1>1, NowIs
<1>4. reading.steps \in SUBSET Steps /\ reading.unpriced \in SUBSET Steps
  BY <1>1 DEF ReadsTyped
<1>5. /\ u.id = Id1 /\ u.parent = Next1.meta.parent /\ u.steps = reading.steps /\ u.unpriced = reading.unpriced
      /\ u.turns = IF Now1 = Gone THEN << >> ELSE Now1.turns
  OBVIOUS
<1>6. u \in Usages
  <2>1. u.turns \in Seq(Turns)
    BY <1>2, <1>3
  <2> QED
    BY <1>1, <1>2, <1>4, <2>1 DEF Usages
<1>7. /\ NowAt(u.id) = Gone \/ (NowAt(u.id) # Missing /\ u.turns = NowAt(u.id).turns)
      /\ u.steps \subseteq Owner(d, u.id[1])
  <2>1. reading.steps \subseteq Owner(d, Id1[1])
    BY <1>1 DEF Owned, Id1, Next1
  <2> QED
    BY <1>3, <1>5, <2>1
<1> DEFINE unpriced == IF reading.unpriced = {} THEN << >> ELSE <<Warn("missing-pricing", Id1)>>
           skewed == IF Now1 # Gone /\ Now1.skewed THEN <<Warn("cross-check", Id1)>> ELSE << >>
<1>8. /\ ws \in Seq(Warning)
      /\ u.unpriced # {} => \E j \in DOMAIN ws : ws[j].kind = "missing-pricing"
  <2>1. "missing-pricing" \in Kinds /\ "cross-check" \in Kinds
    BY DEF Kinds
  <2>2. /\ Warn("missing-pricing", Id1) \in Warning /\ Warn("cross-check", Id1) \in Warning
        /\ Warn("missing-pricing", Id1).kind = "missing-pricing"
    BY <1>2, <2>1, WarnType
  <2>3. << >> \in Seq(Warning)
    OBVIOUS
  <2>4. /\ <<Warn("missing-pricing", Id1)>> \in Seq(Warning) /\ <<Warn("cross-check", Id1)>> \in Seq(Warning)
        /\ DOMAIN <<Warn("missing-pricing", Id1)>> = {1} /\ <<Warn("missing-pricing", Id1)>>[1] = Warn("missing-pricing", Id1)
    BY <2>2, OneIs
  <2>5. ws = unpriced \o skewed
    BY DEF CostWarnings
  <2>6. unpriced \in Seq(Warning) /\ skewed \in Seq(Warning)
    BY <2>3, <2>4
  <2>7. reading.unpriced # {} => 1 \in DOMAIN unpriced /\ unpriced[1].kind = "missing-pricing"
    BY <2>2, <2>4
  <2> HIDE DEF unpriced, skewed, ws
  <2> QED
    BY <1>5, <2>5, <2>6, <2>7
<1> HIDE DEF u, ws
<1>9. usages \in Seq(Usages) /\ IdsApart(usages)
  BY <1>1 DEF ReadsTyped, Traced
<1>10. /\ usages' \in Seq(Usages) /\ ToSet(usages') = ToSet(usages) \cup {u}
       /\ DOMAIN usages' = DOMAIN usages \cup {Len(usages) + 1} /\ Len(usages) + 1 \notin DOMAIN usages
       /\ usages'[Len(usages) + 1] = u /\ \A i \in DOMAIN usages : usages'[i] = usages[i]
  BY <1>1, <1>6, <1>9, AppendIs
<1>11. \A i \in DOMAIN usages : usages[i].id # Id1
  <2> SUFFICES ASSUME NEW i \in DOMAIN usages, usages[i].id = Id1 PROVE FALSE
    OBVIOUS
  <2>1. <<usages[i].id, usages[i].parent>> \in Pairs(Included(audit))
    BY <1>1 DEF Traced, Pairs, ToSet
  <2>2. PICK j \in DOMAIN audit : audit[j].id = Id1
    BY <2>1 DEF Pairs, Included, ToSet
  <2>3. 1 \in DOMAIN queue
    BY <1>1 DEF ReadsTyped
  <2> QED
    BY <1>1, <2>2, <2>3 DEF Traced, Id1, Next1
<1>12. IdsApart(usages')
  BY <1>5, <1>9, <1>10, <1>11 DEF IdsApart
<1>13. Pairs({u}) = {<<Id1, Next1.meta.parent>>}
  BY <1>5 DEF Pairs
<1> DEFINE added == {u}
<1>14. /\ added \in SUBSET Usages /\ ToSet(usages') = ToSet(usages) \cup added
       /\ Pairs(added) = IF "included" = "included" THEN {<<Id1, Next1.meta.parent>>} ELSE {}
       /\ \A v \in added : /\ NowAt(v.id) = Gone \/ (NowAt(v.id) # Missing /\ v.turns = NowAt(v.id).turns)
                           /\ v.steps \subseteq Owner(d, v.id[1])
                           /\ v.unpriced # {} => \E j \in DOMAIN ws : ws[j].kind = "missing-pricing"
  BY <1>6, <1>7, <1>8, <1>10, <1>13
<1> HIDE DEF added
<1>15. "included" \in Statuses /\ "included" # "error"
  BY DEF Statuses
<1> QED
  BY <1>1, <1>8, <1>10, <1>12, <1>14, <1>15, DisposedKept

LEMMA ReadStepsKept == ASSUME NEW d \in Databases, Accounted(d), ReadSteps PROVE Accounted(d)'
<1>1. /\ ReadsTyped /\ Traced /\ Remembered /\ Owned(d) /\ Told /\ Made /\ stage = "read" /\ queue # << >>
      /\ reading' = IF Now1 = Gone THEN [steps |-> {}, unpriced |-> {}]
                    ELSE [steps |-> Now1.steps, unpriced |-> Now1.unpriced]
      /\ UNCHANGED <<db, cfg, stage, providers, snap, windowed, known, turn, half, queue, usages, audit,
                     warnings, draft, summary, rc>>
  BY DEF Accounted, ReadSteps, AtNext, collected
<1>2. /\ Now1 \in Session \cup {Gone}
      /\ Now1 \in Session => Now1.steps \in SUBSET Steps /\ Now1.unpriced \in SUBSET Steps
      /\ StepsOf(Now1) \subseteq Owner(d, Id1[1])
  BY <1>1, NowIs, NextIs
<1>3. /\ reading' \in [steps : SUBSET Steps, unpriced : SUBSET Steps]
      /\ reading'.steps \subseteq Owner(d, queue[1].meta.id[1])
  BY <1>1, <1>2, DatabasesAreTyped DEF StepsOf, Id1, Next1
<1>4. ReadsTyped'
  BY <1>1, <1>3 DEF ReadsTyped, Histories
<1>5. Traced'
  BY <1>1 DEF Traced, IdsApart, Pairs, Included, ToSet
<1>6. Remembered'
  BY <1>1 DEF Remembered, Seen, Later, NowAt, ToSet
<1>7. Owned(d)'
  BY <1>1, <1>3 DEF Owned, Owner, StepsOf, ToSet
<1>8. Told'
  BY <1>1 DEF Told, ToSet
<1>9. Made'
  BY <1>1, NotYetMade
<1> QED
  BY <1>4, <1>5, <1>6, <1>7, <1>8, <1>9 DEF Accounted
-----------------------------------------------------------------------------
(* The sessions are listed.                                                *)

LEMMA InitKept == ASSUME CollectInit PROVE \E d \in Databases : Accounted(d)
<1>1. /\ db \in Databases /\ stage = "start" /\ providers = << >> /\ windowed = << >> /\ queue = << >>
      /\ turn = 1 /\ half = "window" /\ reading = Missing /\ usages = << >> /\ audit = << >> /\ warnings = << >>
      /\ draft = Missing /\ rc = Missing
  BY DEF CollectInit
<1>2. ASSUME NEW S PROVE << >> \in Seq(S) /\ DOMAIN << >> = {} /\ Len(<< >>) = 0
  OBVIOUS
<1>3. db \in [Harnesses -> [Ids -> Session \cup {Missing}]] /\ Missing # 0
  BY <1>1, DatabasesAreTyped
<1>4. db \in [Harnesses -> Histories]
  BY <1>3 DEF Histories
<1>5. ReadsTyped
  BY <1>1, <1>2, <1>4 DEF ReadsTyped
<1>6. ToSet(usages) = {} /\ ToSet(audit) = {} /\ ToSet(queue) = {} /\ ToSet(windowed) = {}
  BY <1>1, <1>2 DEF ToSet
<1>7. Traced
  <2>1. Pairs(ToSet(usages)) = Pairs(Included(audit))
    BY <1>6 DEF Pairs, Included
  <2>2. DOMAIN audit = {} /\ DOMAIN usages = {} /\ DOMAIN queue = {}
    BY <1>1, <1>2
  <2> QED
    BY <1>1, <2>1, <2>2 DEF Traced, IdsApart
<1>8. Remembered
  BY <1>1, <1>6 DEF Remembered
<1>9. Owned(db)
  <2>1. \A h \in Harnesses, n \in Ids : StepsOf(db[h][n]) \subseteq Owner(db, h)
    BY DEF StepsOf, Owner
  <2> QED
    BY <1>1, <1>6, <2>1 DEF Owned
<1>10. Told
  BY <1>1, <1>2, <1>6 DEF Told
<1>11. Made
  BY <1>1, <1>3 DEF Made, GapIsTold
<1> QED
  BY <1>1, <1>5, <1>7, <1>8, <1>9, <1>10, <1>11 DEF Accounted

\* What a listing and the start leave alone.
LEMMA ListingKept ==
  ASSUME NEW d \in Databases, Accounted(d), stage \in {"start", "list"},
         UNCHANGED <<db, queue, reading, usages, audit, warnings, draft, summary>>,
         stage' \in {"list", "done"}, rc' = rc \/ rc' \in {1, 2}
  PROVE  Traced' /\ Told' /\ Made' /\ ToSet(queue)' = {} /\ ToSet(usages)' = {} /\ reading' = Missing
<1>1. /\ Traced /\ Told /\ Made
      /\ queue = << >> /\ usages = << >> /\ audit = << >> /\ warnings = << >> /\ reading = Missing
  BY DEF Accounted, Traced
<1>2. Traced'
  BY <1>1 DEF Traced, IdsApart, Pairs, Included, ToSet
<1>3. Told'
  BY <1>1 DEF Told, ToSet
<1>4. Made'
  BY <1>1, NotYetMade
<1>5. ToSet(queue)' = {} /\ ToSet(usages)' = {}
  BY <1>1 DEF ToSet
<1> QED
  BY <1>1, <1>2, <1>3, <1>4, <1>5

LEMMA BuildKept == ASSUME NEW d \in Databases, Accounted(d), Build PROVE Accounted(d)'
<1>1. /\ ReadsTyped /\ Traced /\ Remembered /\ Owned(d) /\ stage = "start" /\ stage' \in {"list", "done"}
      /\ snap' = [i \in DOMAIN Sources |-> db[Sources[i].harness]]
      /\ UNCHANGED <<db, cfg, windowed, known, turn, half, queue, reading, usages, audit, warnings, draft, summary>>
      /\ rc' = rc \/ rc' \in {1, 2}
  BY DEF Accounted, Build, Fatal, collected
<1>2. Traced' /\ Told' /\ Made' /\ ToSet(queue)' = {} /\ ToSet(usages)' = {} /\ reading' = Missing
  BY <1>1, ListingKept
<1>3. providers' \in Seq(DOMAIN Sources)
  <2>1. ASSUME NEW usable \in SUBSET DOMAIN Sources PROVE InOrder(usable, Upwards(usable)) \in Seq(DOMAIN Sources)
    <3>1. DOMAIN Sources = 1 .. Len(Sources) /\ Len(Sources) \in Nat
      BY SourcesAreListed
    <3>2. IsFiniteSet(usable) /\ IsStrictOrder(usable, Upwards(usable))
      BY <3>1, PlacesSorted
    <3>3. InOrder(usable, Upwards(usable)) \in Seq(usable)
      BY <3>2, Sorted
    <3> DEFINE order == InOrder(usable, Upwards(usable))
    <3> HIDE DEF order
    <3>4. order \in Seq(usable)
      BY <3>3 DEF order
    <3>5. order \in Seq(DOMAIN Sources)
      BY <3>4
    <3> QED
      BY <3>5 DEF order
  <2>2. <<Local>> \in Seq(DOMAIN Sources)
    BY SourcesAreListed, OneIs
  <2>3. providers \in Seq(DOMAIN Sources)
    BY <1>1 DEF ReadsTyped
  <2>4. \/ \E usable \in SUBSET DOMAIN Sources : providers' = InOrder(usable, Upwards(usable))
        \/ providers' = <<Local>> \/ providers' = providers
    BY DEF Build
  <2> QED
    BY <2>1, <2>2, <2>3, <2>4
<1>4. half = "window" /\ windowed = << >>
  BY <1>1 DEF ReadsTyped
<1>5. snap' \in [DOMAIN Sources -> Histories]
  <2>1. \A i \in DOMAIN Sources : Sources[i].harness \in Harnesses
    BY DEF Harnesses
  <2> QED
    BY <1>1, <2>1 DEF ReadsTyped
<1>6. ReadsTyped'
  BY <1>1, <1>3, <1>4, <1>5 DEF ReadsTyped, Histories
<1>7. ToSet(windowed)' = {}
  BY <1>1, <1>4 DEF ToSet
<1>8. \A i \in DOMAIN Sources, n \in Ids : snap'[i][n] = db[Sources[i].harness][n]
  BY <1>1
<1>9. Remembered'
  <2>1. \A i \in DOMAIN Sources, n \in Ids : Later(snap'[i][n], db'[Sources[i].harness][n])
    BY <1>1, <1>8 DEF Later
  <2> QED
    BY <1>2, <1>7, <2>1 DEF Remembered, Later
<1>10. Owned(d)'
  <2>1. \A i \in DOMAIN Sources, n \in Ids : StepsOf(snap'[i][n]) \subseteq Owner(d, Sources[i].harness)
    <3>1. \A i \in DOMAIN Sources : Sources[i].harness \in Harnesses
      BY DEF Harnesses
    <3> QED
      BY <1>1, <1>8, <3>1 DEF Owned
  <2>2. \A h \in Harnesses, n \in Ids : StepsOf(db'[h][n]) \subseteq Owner(d, h)
    BY <1>1 DEF Owned
  <2> QED
    BY <1>2, <2>1, <2>2 DEF Owned, Owner, StepsOf
<1> QED
  BY <1>2, <1>6, <1>9, <1>10 DEF Accounted

LEMMA ListFailsKept == ASSUME NEW d \in Databases, Accounted(d), ListFails PROVE Accounted(d)'
<1>1. /\ ReadsTyped /\ Traced /\ Remembered /\ Owned(d) /\ stage = "list" /\ stage' = "done" /\ rc' = 2
      /\ UNCHANGED <<db, cfg, providers, snap, windowed, known, turn, half, queue, reading, usages, audit,
                     warnings, draft, summary>>
  BY DEF Accounted, ListFails, Fatal, collected
<1>2. Traced' /\ Told' /\ Made'
  BY <1>1, ListingKept
<1>3. ReadsTyped'
  BY <1>1 DEF ReadsTyped, Histories
<1>4. Remembered'
  BY <1>1 DEF Remembered, Seen, Later, NowAt, ToSet
<1>5. Owned(d)'
  BY <1>1 DEF Owned, Owner, StepsOf, ToSet
<1> QED
  BY <1>2, <1>3, <1>4, <1>5 DEF Accounted

LEMMA ListAllKept == ASSUME NEW d \in Databases, Accounted(d), ListAll PROVE Accounted(d)'
<1>1. /\ ReadsTyped /\ Traced /\ Remembered /\ Owned(d) /\ stage = "list" /\ turn' = turn + 1 /\ half' = "window"
      /\ UNCHANGED <<db, cfg, stage, providers, snap, windowed, queue, reading, usages, audit,
                     warnings, draft, summary, rc>>
  BY DEF Accounted, ListAll, collected
<1>2. Traced' /\ Told' /\ Made'
  BY <1>1, ListingKept
<1>3. ReadsTyped'
  BY <1>1 DEF ReadsTyped, Histories
<1>4. Remembered'
  BY <1>1 DEF Remembered, Seen, Later, NowAt, ToSet
<1>5. Owned(d)'
  BY <1>1 DEF Owned, Owner, StepsOf, ToSet
<1> QED
  BY <1>2, <1>3, <1>4, <1>5 DEF Accounted

\* A session that a source lists.
LEMMA ListedIs ==
  ASSUME ReadsTyped, stage # "start", NEW i \in DOMAIN Sources, NEW n \in Listed(i), Seen(i)[n].updated # "old"
  PROVE  /\ [source |-> i, meta |-> Meta(i, n)] \in Entries /\ Seen(i)[n] # Missing
         /\ Meta(i, n).id[2] = n
<1>1. Seen(i) \in Histories /\ Sources[i].harness \in Harnesses
  <2>1. Sources[i].harness \in Harnesses
    BY DEF Harnesses
  <2> QED
    BY <2>1 DEF ReadsTyped, Seen
<1>2. n \in Ids /\ Seen(i)[n] \in Session /\ Seen(i)[n] # Missing
  BY <1>1 DEF Listed, Histories
<1> DEFINE s == Seen(i)[n]
           h == Sources[i].harness
<1>3. s.parent \in Ids \cup {Missing} /\ s.advisor \in BOOLEAN /\ s.updated \in {"window", "now"}
  BY <1>2 DEF Session
<1>4. Meta(i, n) = [id |-> <<h, n>>, updated |-> s.updated, advisor |-> s.advisor,
                    parent |-> IF s.parent = Missing THEN Missing ELSE <<h, s.parent>>]
  BY DEF Meta, Canonical
<1>5. <<h, n>> \in CanonicalIds /\ (IF s.parent = Missing THEN Missing ELSE <<h, s.parent>>) \in CanonicalIds \cup {Missing}
  BY <1>1, <1>2, <1>3 DEF CanonicalIds
<1> HIDE DEF s, h
<1>6. Meta(i, n) \in MetaType /\ Meta(i, n).id = <<h, n>>
  BY <1>3, <1>4, <1>5 DEF MetaType
<1>7. Meta(i, n).id[1] = Sources[i].harness /\ Meta(i, n).id[2] = n
  BY <1>6 DEF h
<1>8. [source |-> i, meta |-> Meta(i, n)] \in Entries
  BY <1>6, <1>7 DEF Entries
<1> QED
  BY <1>2, <1>7, <1>8

\* A listing that goes on has its provider.
LEMMA CurrentType ==
  ASSUME ReadsTyped, turn <= Len(providers) PROVE Current \in DOMAIN Sources
<1>1. providers \in Seq(DOMAIN Sources) /\ turn \in 1 .. Len(providers)
  BY DEF ReadsTyped
<1> QED
  BY <1>1 DEF Current

LEMMA ListWindowKept == ASSUME NEW d \in Databases, Accounted(d), ListWindow PROVE Accounted(d)'
<1> DEFINE touched == {n \in Listed(Current) : Seen(Current)[n].updated # "old"}
           order == InOrder(touched, Upwards(touched))
           entry(j) == [source |-> Current, meta |-> Meta(Current, order[j])]
           more == [j \in DOMAIN order |-> entry(j)]
<1>1. /\ ReadsTyped /\ Traced /\ Remembered /\ Owned(d) /\ stage = "list" /\ turn <= Len(providers)
      /\ windowed' = windowed \o more
      /\ UNCHANGED <<db, cfg, stage, providers, snap, known, turn, queue, reading, usages, audit,
                     warnings, draft, summary, rc>>
  BY DEF Accounted, ListWindow, collected
<1>2. Current \in DOMAIN Sources
  BY <1>1, CurrentType
<1>3. /\ order \in Seq(touched) /\ DOMAIN order = 1 .. Len(order) /\ Len(order) \in Nat
  <2>1. touched \in SUBSET Ids /\ Ids \subseteq Nat /\ IsFiniteSet(Ids)
    BY LimitsAreNatural DEF Listed
  <2>2. IsFiniteSet(touched)
    BY <2>1, FS_Subset
  <2> HIDE DEF touched
  <2>3. \A n \in touched : n \in Int
    BY <2>1
  <2>4. IsStrictOrder(touched, Upwards(touched))
    BY <2>3 DEF IsStrictOrder, Upwards
  <2>5. order \in Seq(touched)
    BY <2>2, <2>4, Sorted
  <2> HIDE DEF order
  <2> QED
    BY <2>5
<1> HIDE DEF order
<1>4. ASSUME NEW j \in DOMAIN order
      PROVE  entry(j) \in Entries /\ Seen(Current)[entry(j).meta.id[2]] # Missing /\ entry(j).source = Current
  <2>1. order[j] \in Listed(Current) /\ Seen(Current)[order[j]].updated # "old"
    BY <1>3
  <2> QED
    BY <1>1, <1>2, <2>1, ListedIs
<1> HIDE DEF entry
<1>5. more \in Seq(Entries) /\ DOMAIN more = DOMAIN order /\ \A j \in DOMAIN more : more[j] = entry(j)
  BY <1>3, <1>4
<1> HIDE DEF more
<1>6. windowed \in Seq(Entries)
  BY <1>1 DEF ReadsTyped
<1>7. windowed' \in Seq(Entries) /\ ToSet(windowed') = ToSet(windowed) \cup ToSet(more)
  <2>1. /\ windowed' \in Seq(Entries) /\ Len(windowed') = Len(windowed) + Len(more)
        /\ \A i \in DOMAIN windowed : i \in DOMAIN windowed' /\ windowed'[i] = windowed[i]
        /\ \A j \in DOMAIN more : Len(windowed) + j \in DOMAIN windowed' /\ windowed'[Len(windowed) + j] = more[j]
        /\ \A i \in DOMAIN windowed' : i \in DOMAIN windowed \/ (i - Len(windowed) \in DOMAIN more /\ windowed'[i] = more[i - Len(windowed)])
    BY <1>1, <1>5, <1>6
  <2> QED
    BY <2>1 DEF ToSet
<1>8. Traced' /\ Told' /\ Made' /\ ToSet(queue)' = {}
  BY <1>1, ListingKept
<1>9. ReadsTyped'
  BY <1>1, <1>7 DEF ReadsTyped, Histories
<1>10. Remembered'
  <2>1. \A e \in ToSet(windowed') : Seen(e.source)[e.meta.id[2]] # Missing
    BY <1>1, <1>4, <1>5, <1>7 DEF Remembered, ToSet
  <2>2. \A i : Seen(i)' = Seen(i)
    BY <1>1 DEF Seen
  <2> QED
    BY <1>1, <1>8, <2>1, <2>2 DEF Remembered, Seen, Later, NowAt, ToSet
<1>11. Owned(d)'
  BY <1>1 DEF Owned, Owner, StepsOf, ToSet
<1> QED
  BY <1>8, <1>9, <1>10, <1>11 DEF Accounted

\* The first source that lists a session keeps it.
LEMMA KeepFirstIs ==
  ASSUME NEW list \in Seq(Entries)
  PROVE  /\ KeepFirst(list) \in Seq(Entries) /\ ToSet(KeepFirst(list)) \subseteq ToSet(list)
         /\ \A k, l \in DOMAIN KeepFirst(list) : k # l => KeepFirst(list)[k].meta.id # KeepFirst(list)[l].meta.id
<1> DEFINE places == {i \in DOMAIN list : \A j \in 1 .. i - 1 : list[j].meta.id # list[i].meta.id}
           order == InOrder(places, Upwards(places))
           sub == KeepFirst(list)
<1>1. places \in SUBSET DOMAIN list /\ sub = Sublist(list, places) /\ DOMAIN list = 1 .. Len(list)
  BY DEF KeepFirst
<1>2. \A i, j \in places : i < j => list[i].meta.id # list[j].meta.id
  BY <1>1
<1>3. \A i, j \in places : i # j => list[i].meta.id # list[j].meta.id
  BY <1>1, <1>2
<1> HIDE DEF places, sub
<1>4. /\ sub \in Seq(Entries)
      /\ \A k \in DOMAIN sub : order[k] \in places /\ sub[k] = list[order[k]]
      /\ \A k, l \in DOMAIN sub : k # l => order[k] # order[l]
      /\ ToSet(sub) = {list[i] : i \in places}
  BY <1>1, SublistIs
<1> HIDE DEF order
<1>5. ToSet(sub) \subseteq ToSet(list)
  BY <1>1, <1>4 DEF ToSet
<1> QED
  BY <1>3, <1>4, <1>5 DEF sub

LEMMA DedupKept == ASSUME NEW d \in Databases, Accounted(d), Dedup PROVE Accounted(d)'
<1>1. /\ ReadsTyped /\ Traced /\ Remembered /\ Owned(d) /\ Told /\ Made /\ stage = "list" /\ stage' = "read"
      /\ queue' = KeepFirst(windowed) /\ windowed' = << >>
      /\ warnings' = Append(warnings, Warn("duplicate", Missing)) \/ warnings' = warnings
      /\ UNCHANGED <<db, cfg, providers, snap, known, turn, half, reading, usages, audit, draft, summary, rc>>
  BY DEF Accounted, Dedup
<1>2. queue = << >> /\ usages = << >> /\ audit = << >> /\ warnings = << >> /\ reading = Missing
  BY <1>1 DEF Traced
<1>3. /\ queue' \in Seq(Entries) /\ ToSet(queue') \subseteq ToSet(windowed)
      /\ \A k, l \in DOMAIN queue' : k # l => queue'[k].meta.id # queue'[l].meta.id
  BY <1>1, KeepFirstIs DEF ReadsTyped
<1>4. warnings' \in Seq(Warning)
  <2>1. "duplicate" \in Kinds
    BY DEF Kinds
  <2>2. Warn("duplicate", Missing) \in Warning
    BY <2>1, WarnType
  <2>3. warnings \in Seq(Warning)
    BY <1>1 DEF ReadsTyped
  <2> QED
    BY <1>1, <2>2, <2>3, AppendIs
<1>5. ReadsTyped'
  <2>1. windowed' \in Seq(Entries)
    BY <1>1
  <2> QED
    BY <1>1, <1>3, <1>4, <2>1 DEF ReadsTyped, Histories
<1>6. ToSet(windowed') = {} /\ ToSet(usages') = {} /\ DOMAIN audit' = {} /\ DOMAIN usages' = {} /\ reading' = Missing
  BY <1>1, <1>2 DEF ToSet
<1>7. Traced'
  <2>1. (Pairs(ToSet(usages)) = Pairs(Included(audit)))'
    BY <1>1, <1>2 DEF Pairs, Included, ToSet
  <2> QED
    BY <1>1, <1>3, <1>6, <2>1 DEF Traced, IdsApart
<1>8. Remembered'
  <2>1. \A e \in ToSet(queue') : Seen(e.source)[e.meta.id[2]] # Missing
    BY <1>1, <1>3 DEF Remembered
  <2>2. \A i : Seen(i)' = Seen(i)
    BY <1>1 DEF Seen
  <2> QED
    BY <1>1, <1>6, <2>1, <2>2 DEF Remembered, Seen, Later, NowAt, ToSet
<1>9. Owned(d)'
  BY <1>1, <1>6 DEF Owned, Owner, StepsOf, ToSet
<1>10. Told'
  BY <1>6 DEF Told, ToSet
<1>11. Made'
  BY <1>1, NotYetMade
<1> QED
  BY <1>5, <1>7, <1>8, <1>9, <1>10, <1>11 DEF Accounted
-----------------------------------------------------------------------------
(* The end of the command, and the user.                                   *)

\* What a step leaves alone once the sessions are listed.
LEMMA EndingKept ==
  ASSUME NEW d \in Databases, Accounted(d), stage # "start", stage' \notin {"start", "list"},
         UNCHANGED <<db, providers, snap, windowed, turn, half, queue, reading, usages, audit, warnings>>
  PROVE  ReadsTyped' /\ Traced' /\ Remembered' /\ Owned(d)' /\ Told'
<1>1. ReadsTyped /\ Traced /\ Remembered /\ Owned(d) /\ Told
  BY DEF Accounted
<1>2. ReadsTyped'
  BY <1>1 DEF ReadsTyped, Histories
<1>3. Traced'
  BY <1>1 DEF Traced, IdsApart, Pairs, Included, ToSet
<1>4. Remembered'
  BY <1>1 DEF Remembered, Seen, Later, NowAt, ToSet
<1>5. Owned(d)'
  BY <1>1 DEF Owned, Owner, StepsOf, ToSet
<1>6. Told'
  BY <1>1 DEF Told, ToSet
<1> QED
  BY <1>2, <1>3, <1>4, <1>5, <1>6

\* The summary in memory stays as it is.
LEMMA SummaryStays ==
  ASSUME UNCHANGED <<db, usages, audit, draft>>
  PROVE  /\ AddsUp' = AddsUp /\ CountsOnce' = CountsOnce /\ Reports' = Reports /\ Tells(draft)' = Tells(draft)
         /\ Tells(summary)' = (/\ TRUE /\ Tells(summary'))
BY DEF AddsUp, CountsOnce, Reports, Tells, Parted, IdsOf, Included, ToSet

LEMMA GiveUpKept == ASSUME NEW d \in Databases, Accounted(d), GiveUp PROVE Accounted(d)'
<1>1. /\ Made /\ stage = "read" /\ stage' = "done" /\ rc' = 1
      /\ UNCHANGED <<db, providers, snap, windowed, turn, half, queue, reading, usages, audit, warnings, draft>>
  BY DEF Accounted, GiveUp, collected
<1>2. Made'
  BY <1>1, NotYetMade
<1> QED
  BY <1>1, <1>2, EndingKept DEF Accounted

LEMMA WriteKept == ASSUME NEW d \in Databases, Accounted(d), Write PROVE Accounted(d)'
<1>1. /\ Made /\ stage = "write" /\ stage' = "stamp" /\ summary' = draft /\ rc' = rc
      /\ UNCHANGED <<db, providers, snap, windowed, turn, half, queue, reading, usages, audit, warnings, draft>>
  BY DEF Accounted, Write, collected
<1>2. Made'
  <2>1. AddsUp' /\ CountsOnce' /\ Reports' /\ Tells(draft)'
    BY <1>1, SummaryStays DEF Made
  <2>2. rc' # 0
    BY <1>1 DEF Made
  <2> QED
    BY <1>1, <2>1, <2>2 DEF Made, GapIsTold
<1> QED
  BY <1>1, <1>2, EndingKept DEF Accounted

LEMMA StampKept == ASSUME NEW d \in Databases, Accounted(d), Stamp PROVE Accounted(d)'
<1>1. /\ Made /\ stage = "stamp" /\ stage' = "done"
      /\ summary' = [summary EXCEPT !.provenance = TRUE]
      /\ rc' = IF \E i \in DOMAIN draft.warnings : draft.warnings[i].partial THEN 1 ELSE 0
      /\ UNCHANGED <<db, providers, snap, windowed, turn, half, queue, reading, usages, audit, warnings, draft>>
  BY DEF Accounted, Stamp, collected
<1>2. /\ AddsUp /\ CountsOnce /\ Reports /\ Tells(draft) /\ summary = draft
      /\ {"warnings", "selection", "provenance"} \subseteq DOMAIN draft
  BY <1>1 DEF Made
<1>3. AddsUp' /\ CountsOnce' /\ Reports' /\ Tells(draft)'
  BY <1>1, <1>2, SummaryStays
<1>4. summary'.warnings = draft.warnings /\ summary'.selection = draft.selection
  BY <1>1, <1>2
<1>5. GapIsTold'
  <2> SUFFICES ASSUME rc' = 0, Len(summary'.warnings) # MaxWarnings
               PROVE  /\ summary'.selection.of["error"] = 0
                      /\ \A u \in ToSet(usages') : u.unpriced = {}
                           \/ \E i \in DOMAIN summary'.warnings : summary'.warnings[i].kind = "missing-pricing"
    BY DEF GapIsTold, ToSet
  <2>1. ~\E i \in DOMAIN draft.warnings : draft.warnings[i].partial
    BY <1>1
  <2> QED
    BY <1>1, <1>2, <1>4, <2>1 DEF Tells
<1>6. Made'
  BY <1>1, <1>2, <1>3, <1>5 DEF Made
<1> QED
  BY <1>1, <1>6, EndingKept DEF Accounted

\* Nothing else changes but the place in the command.
LEMMA KillKept == ASSUME NEW d \in Databases, Accounted(d), Interrupt PROVE Accounted(d)'
<1>1. /\ Made /\ stage \in {"list", "read", "write", "stamp"} /\ stage' = "killed"
      /\ UNCHANGED <<db, providers, snap, windowed, turn, half, queue, reading, usages, audit, warnings, draft,
                     summary, rc>>
  BY DEF Accounted, Interrupt, collected
<1>2. rc # 0
  BY <1>1 DEF Made
<1>3. Made'
  <2>1. draft # Missing => AddsUp' /\ CountsOnce' /\ Reports' /\ Tells(draft)'
    BY <1>1, SummaryStays DEF Made
  <2> QED
    BY <1>1, <1>2, <2>1 DEF Made, GapIsTold
<1> QED
  BY <1>1, <1>3, EndingKept DEF Accounted

LEMMA StutterKept == ASSUME NEW d \in Databases, Accounted(d), UNCHANGED collectVars PROVE Accounted(d)'
<1>1. /\ ReadsTyped /\ Traced /\ Remembered /\ Owned(d) /\ Told /\ Made
      /\ UNCHANGED <<db, cfg, stage, providers, snap, windowed, known, turn, half, queue, reading, usages, audit,
                     warnings, draft, summary, rc>>
  BY DEF Accounted, collectVars, collected
<1>2. ReadsTyped'
  BY <1>1 DEF ReadsTyped, Histories
<1>3. Traced'
  BY <1>1 DEF Traced, IdsApart, Pairs, Included, ToSet
<1>4. Remembered'
  BY <1>1 DEF Remembered, Seen, Later, NowAt, ToSet
<1>5. Owned(d)'
  BY <1>1 DEF Owned, Owner, StepsOf, ToSet
<1>6. Told'
  BY <1>1 DEF Told, ToSet
<1>7. Made'
  <2>1. GapIsTold'
    BY <1>1 DEF Made, GapIsTold, ToSet
  <2> QED
    BY <1>1, <2>1, SummaryStays DEF Made
<1> QED
  BY <1>2, <1>3, <1>4, <1>5, <1>6, <1>7 DEF Accounted

\* Whatever the user does to a session: it keeps its turns and steps, or goes.
LEMMA EditKept ==
  ASSUME NEW d \in Databases, Accounted(d), NEW h \in Harnesses, NEW n \in Ids, NEW s \in Session \cup {Gone},
         Later(db[h][n], s), StepsOf(s) \subseteq Owner(d, h), UserEdits(h, n, s)
  PROVE  Accounted(d)'
<1>1. /\ ReadsTyped /\ Traced /\ Remembered /\ Owned(d) /\ Told /\ Made
      /\ stage \in {"list", "read"} /\ db' = [db EXCEPT ![h][n] = s]
      /\ UNCHANGED <<cfg, stage, providers, snap, windowed, known, turn, half, queue, reading, usages, audit,
                     warnings, draft, summary, rc>>
  BY DEF Accounted, UserEdits, collected
<1>2. db \in [Harnesses -> Histories] /\ s # Missing
  BY <1>1, DatabasesAreTyped DEF ReadsTyped
<1>3. /\ db' \in [Harnesses -> Histories] /\ db'[h][n] = s
      /\ \A g \in Harnesses, m \in Ids : <<g, m>> # <<h, n>> => db'[g][m] = db[g][m]
  BY <1>1, <1>2 DEF Histories
<1>4. \A g \in Harnesses, m \in Ids : Later(db[g][m], db'[g][m])
  BY <1>3 DEF Later
<1>5. ReadsTyped'
  BY <1>1, <1>3 DEF ReadsTyped
<1>6. Traced'
  BY <1>1 DEF Traced, IdsApart, Pairs, Included, ToSet
<1>7. \A i \in DOMAIN Sources : Sources[i].harness \in Harnesses
  BY DEF Harnesses
<1>8. Remembered'
  <2>1. ASSUME NEW e \in ToSet(windowed) \cup ToSet(queue) PROVE Seen(e.source)'[e.meta.id[2]] # Missing
    <3>1. e \in Entries
      BY <1>1 DEF ReadsTyped, ToSet
    <3>2. e.source \in DOMAIN Sources /\ e.meta.id \in CanonicalIds
      BY <3>1 DEF Entries, MetaType
    <3>3. e.meta.id[2] \in Ids /\ Seen(e.source)[e.meta.id[2]] # Missing
      BY <1>1, <3>2 DEF Remembered, CanonicalIds
    <3> QED
      BY <1>1, <1>2, <1>3, <1>7, <3>2, <3>3 DEF Seen
  <2>2. ASSUME NEW i \in DOMAIN Sources, NEW m \in Ids PROVE Later(snap'[i][m], db'[Sources[i].harness][m])
    <3>1. Later(snap[i][m], db[Sources[i].harness][m]) /\ snap'[i][m] = snap[i][m]
      BY <1>1 DEF Remembered
    <3>2. Later(db[Sources[i].harness][m], db'[Sources[i].harness][m])
      BY <1>4, <1>7
    <3>3. Missing # Gone
      BY DatabasesAreTyped
    <3> QED
      BY <3>1, <3>2, <3>3 DEF Later
  <2>3. ASSUME NEW u \in ToSet(usages)
        PROVE  NowAt(u.id)' = Gone \/ (NowAt(u.id)' # Missing /\ u.turns = NowAt(u.id)'.turns)
    <3>1. u \in Usages
      BY <1>1 DEF ReadsTyped, ToSet
    <3>2. Later(NowAt(u.id), NowAt(u.id)')
      BY <1>4, <3>1, UsageTypes DEF NowAt
    <3>3. NowAt(u.id) = Gone \/ (NowAt(u.id) # Missing /\ u.turns = NowAt(u.id).turns)
      BY <1>1 DEF Remembered
    <3>4. Missing # Gone
      BY DatabasesAreTyped
    <3> QED
      BY <3>2, <3>3, <3>4 DEF Later
  <2>4. (\A e \in ToSet(windowed) \cup ToSet(queue) : Seen(e.source)[e.meta.id[2]] # Missing)'
    BY <1>1, <2>1 DEF ToSet
  <2>5. (\A i \in DOMAIN Sources, m \in Ids : Later(snap[i][m], db[Sources[i].harness][m]))'
    BY <2>2 DEF Later
  <2>6. (\A u \in ToSet(usages) : NowAt(u.id) = Gone \/ (NowAt(u.id) # Missing /\ u.turns = NowAt(u.id).turns))'
    BY <1>1, <2>3 DEF ToSet, NowAt
  <2> QED
    BY <2>4, <2>5, <2>6 DEF Remembered
<1>9. Owned(d)'
  <2>1. \A g \in Harnesses, m \in Ids : StepsOf(db'[g][m]) \subseteq Owner(d, g)
    BY <1>1, <1>3 DEF Owned
  <2> QED
    BY <1>1, <2>1 DEF Owned, Owner, StepsOf, ToSet
<1>10. Told'
  BY <1>1 DEF Told, ToSet
<1>11. Made'
  BY <1>1, NotYetMade
<1> QED
  BY <1>5, <1>6, <1>8, <1>9, <1>10, <1>11 DEF Accounted

LEMMA UserKept ==
  ASSUME NEW d \in Databases, Accounted(d), NEW h \in Harnesses, NEW n \in Ids,
         UserWorks(h, n) \/ UserDeletes(h, n) \/ UserSpawns(h, n) \/ UserForks(h, n)
  PROVE  Accounted(d)'
<1> DEFINE s == db[h][n]
<1>1. n \in Live(h) /\ db \in [Harnesses -> Histories]
  BY DEF UserWorks, UserDeletes, UserSpawns, UserForks, Accounted, ReadsTyped
<1>2. s \in Session /\ s \notin {Missing, Gone}
  BY <1>1 DEF Live, Histories
<1>3. /\ s = [parent |-> s.parent, advisor |-> s.advisor, updated |-> s.updated, rows |-> s.rows,
              turns |-> s.turns, steps |-> s.steps, unpriced |-> s.unpriced, skewed |-> s.skewed]
      /\ s.parent \in Ids \cup {Missing} /\ s.advisor \in BOOLEAN /\ s.rows \in BOOLEAN /\ s.skewed \in BOOLEAN
      /\ s.turns \in Seq(Turns) /\ s.steps \in SUBSET Steps /\ s.unpriced \in SUBSET Steps
      /\ s.updated \in {"old", "window", "now"}
  BY <1>2 DEF Session
<1>4. s.steps \subseteq Owner(d, h) /\ \A t \in Session : t \notin {Missing, Gone}
  BY <1>2, DatabasesAreTyped DEF Accounted, Owned, StepsOf
<1>5. ASSUME NEW t \in Session, t.turns = s.turns, t.steps = s.steps, UserEdits(h, n, t) PROVE Accounted(d)'
  BY <1>2, <1>4, <1>5, EditKept DEF Later, StepsOf
<1> HIDE DEF s
<1>6. CASE UserWorks(h, n)
  <2> DEFINE t == [s EXCEPT !.updated = "now", !.rows = TRUE]
  <2>1. t \in Session /\ t.turns = s.turns /\ t.steps = s.steps
    BY <1>3 DEF Session
  <2>2. UserEdits(h, n, t)
    BY <1>6 DEF UserWorks, s
  <2> QED
    BY <1>5, <2>1, <2>2
<1>7. CASE UserDeletes(h, n)
  <2>1. UserEdits(h, n, Gone) /\ Later(db[h][n], Gone) /\ StepsOf(Gone) \subseteq Owner(d, h)
    BY <1>7 DEF UserDeletes, Later, StepsOf
  <2> QED
    BY <2>1, EditKept
<1>8. ASSUME Fresh(h) # {}, NEW t \in Session, t.steps \subseteq s.steps, UserEdits(h, NewId(h), t) PROVE Accounted(d)'
  <2>1. Fresh(h) \subseteq Ids /\ Fresh(h) \subseteq Nat
    BY LimitsAreNatural DEF Fresh
  <2>2. \E m \in Fresh(h) : \A k \in Fresh(h) : m <= k
    BY <1>8, <2>1, Least
  <2>3. NewId(h) \in Fresh(h)
    BY <2>2 DEF NewId
  <2>4. NewId(h) \in Ids /\ db[h][NewId(h)] = Missing
    BY <2>1, <2>3 DEF Fresh
  <2> QED
    BY <1>4, <1>8, <2>4, EditKept DEF Later, StepsOf
<1>9. CASE UserSpawns(h, n)
  <2> DEFINE t == [NewSession EXCEPT !.parent = n]
  <2>1. t \in Session /\ t.steps = {}
    <3>1. << >> \in Seq(Turns)
      OBVIOUS
    <3>2. NewSession \in Session /\ NewSession.steps = {}
      BY <3>1 DEF NewSession, Session
    <3>3. n \in Ids \cup {Missing}
      OBVIOUS
    <3> HIDE DEF t
    <3>4. t = [NewSession EXCEPT !.parent = n]
      BY DEF t
    <3> QED
      BY <3>2, <3>3, <3>4 DEF Session
  <2>2. UserEdits(h, NewId(h), t) /\ Fresh(h) # {}
    BY <1>9 DEF UserSpawns
  <2> QED
    BY <1>8, <2>1, <2>2
<1>10. CASE UserForks(h, n)
  <2> DEFINE t == [s EXCEPT !.parent = Missing, !.advisor = FALSE, !.updated = "now"]
  <2>1. t \in Session /\ t.steps = s.steps
    BY <1>3 DEF Session
  <2>2. UserEdits(h, NewId(h), t) /\ Fresh(h) # {}
    BY <1>10 DEF UserForks, s
  <2> QED
    BY <1>8, <2>1, <2>2
<1> QED
  BY <1>6, <1>7, <1>9, <1>10

LEMMA NextKept == ASSUME NEW d \in Databases, Accounted(d), [CollectNext]_collectVars PROVE Accounted(d)'
<1>1. CASE UNCHANGED collectVars
  BY <1>1, StutterKept
<1>2. CASE CollectNext
  BY <1>2, BuildKept, ListWindowKept, ListAllKept, ListFailsKept, DedupKept, SkipActiveKept, SkipAdvisorKept,
     ReadStepsKept, ReadFailsKept, FindNoStepsKept, IncludeKept, GiveUpKept, AggregateKept, WriteKept,
     StampKept, KillKept, UserKept DEF CollectNext
<1> QED
  BY <1>1, <1>2

\* Some database at the start explains what the run has read.
Explained == \E d \in Databases : Accounted(d)

LEMMA ExplainedInit == CollectInit => Explained
BY InitKept DEF Explained

LEMMA ExplainedStep == Explained /\ [CollectNext]_collectVars => Explained'
<1> SUFFICES ASSUME Explained, [CollectNext]_collectVars PROVE Explained'
  OBVIOUS
<1>1. PICK d \in Databases : Accounted(d)
  BY DEF Explained
<1>2. Accounted(d)'
  BY <1>1, NextKept
<1> QED
  BY <1>2 DEF Explained

LEMMA ExplainedTells ==
  Explained => DispositionsAddUp /\ EachStepCountsOnce /\ IncludedIsReported /\ GapIsTold
<1> SUFFICES ASSUME NEW d \in Databases, Accounted(d)
             PROVE  DispositionsAddUp /\ EachStepCountsOnce /\ IncludedIsReported /\ GapIsTold
  BY DEF Explained
<1>1. Made
  BY DEF Accounted
<1>2. DispositionsAddUp
  BY <1>1 DEF Made, AddsUp, DispositionsAddUp, IdsOf, Included
<1>3. EachStepCountsOnce
  BY <1>1 DEF Made, CountsOnce, EachStepCountsOnce
<1>4. IncludedIsReported
  BY <1>1 DEF Made, Reports, IncludedIsReported
<1> QED
  BY <1>1, <1>2, <1>3, <1>4 DEF Made

\* Whatever the sources list twice and the user forks, touches or deletes between
\* two reads: the roots, the children and the totals of a summary, counted from
\* the sessions that were read, agree with its selection, counted from the audit
\* (main.py:155-166).
THEOREM TwoTracesAgree == CollectSpec => []DispositionsAddUp
  BY ExplainedInit, ExplainedStep, ExplainedTells, PTL DEF CollectSpec

\* No step enters the totals twice, unless two sessions that share it parted
\* before the turns of a fingerprint or were deleted while they were read
\* (_process_root, dedup_resumed_usages): a step has one harness, a session one
\* disposition, and no session is under two roots.
THEOREM StepsCountOnce == CollectSpec => []EachStepCountsOnce
  BY ExplainedInit, ExplainedStep, ExplainedTells, PTL DEF CollectSpec

\* A session with the status included is in the totals or in those of the
\* sub-agents, even when its parent went away or into another session
\* (root_and_orphan_ids, _build_subagent_totals).
THEOREM NoSessionIsLost == CollectSpec => []IncludedIsReported
  BY ExplainedInit, ExplainedStep, ExplainedTells, PTL DEF CollectSpec

\* A run that ends with 0 has read all sessions, and tells of the steps that have
\* no price, or its list of warnings is full (_cap_warnings, _fetch_session_reads).
THEOREM SuccessHidesNoGap == CollectSpec => []GapIsTold
  BY ExplainedInit, ExplainedStep, ExplainedTells, PTL DEF CollectSpec
=============================================================================

---------------------------- MODULE WatchMemory ----------------------------
(***************************************************************************)
(* The memory of the ecosystem watch, which outlives the reviews: the file *)
(* watch-memory.jsonl (watch_memory.py), and the two commands that read it *)
(* and append to it, watch-distill (watch_distill.py) and watch-validate   *)
(* (watch_validation.py).                                                  *)
(*                                                                         *)
(* The file is append-only: a line holds a whole entry and the last line   *)
(* of an item wins.  The model keeps what a reading of the file returns,   *)
(* what it would return without its last line, and how that line ends,     *)
(* for a write that stops in the middle spoils the line that comes next.   *)
(* Lines of one command are written one by one, in any order.              *)
(***************************************************************************)
EXTENDS Integers, FiniteSets, SequencesExt

CONSTANTS
  Items,        \* identities of ecosystem items (normalize_id)
  Unversioned,  \* those whose source gives neither a version nor a date
  LastVersion,  \* bound: versions an item may publish
  LastWeek,     \* bound: number of ISO weeks
  Retention,    \* RETENTION_WEEKS
  TopN,         \* top_n: candidates a distill may offer
  MaxOthers,    \* bound: items ruled on that were not candidates
  MaxCommands,  \* bound: watch commands over all reviews
  MaxTears      \* bound: writes that stop in the middle of a line

ASSUME UnversionedAreItems == Unversioned \subseteq Items
ASSUME BoundsAreNaturals ==
  /\ {LastVersion, LastWeek, MaxCommands} \subseteq Nat \ {0}
  /\ {Retention, TopN, MaxOthers, MaxTears} \subseteq Nat

VARIABLES
  week,         \* the ISO week of the review's anchor
  published,    \* latest version of each item
  eco,          \* weekly-ecosystem: the version listed for some of the items
  memory,       \* the entries a reading of watch-memory.jsonl returns
  beneath,      \* the entries it would return without its last line
  tail,         \* how the file ends: "clean", "partial" (a piece of a line)
                \*   or "whole" (a line without its newline)
  garbled,      \* some line was cut inside a character
  candidates,   \* watch-candidates of this review: the version of each
  findings,     \* weekly-watch-findings of this review: the status of each
  pc,           \* the command that is running
  todo,         \* the lines it has still to write
  offered,      \* the candidates that distill will write
  ruling,       \* the findings that validate will write
  answer,       \* how the last command ended
  commands, tears,
  acknowledged, \* ghost: entries written in full on a clean end of file
  verdict       \* ghost: entries as last validated, not offered again since

disk == <<memory, beneath, tail, garbled>>
artifacts == <<eco, candidates, findings>>
local == <<pc, todo, offered, ruling>>
vars == <<week, published, disk, artifacts, local, answer, commands, tears,
          acknowledged, verdict>>

Weeks == 1 .. LastWeek
Versions == 1 .. LastVersion
Signatures == Versions \cup {0}     \* 0: neither a version nor a date
Statuses == {"seen", "recommended", "ignored"}
Partial(S, T) == UNION {[D -> T] : D \in SUBSET S}
Empty == [i \in {} |-> 0]
Without(f, S) == [i \in DOMAIN f \ S |-> f[i]]
Overridden(f, i, e) == [j \in DOMAIN f \cup {i} |-> IF j = i THEN e ELSE f[j]]

\* An entry: last_seen_week, occurrences, history and last_signature.
IsEntry(e) ==
  /\ e.last \in Weeks /\ e.occurrences \in Nat \ {0} /\ e.sig \in Signatures
  /\ Len(e.history) > 0
  /\ \A k \in 1 .. Len(e.history) :
       e.history[k].week \in Weeks /\ e.history[k].status \in Statuses

TypeOK ==
  /\ week \in Weeks
  /\ published \in [Items -> Versions]
  /\ eco \in Partial(Items, Signatures)
  /\ garbled \in BOOLEAN
  /\ \A f \in {memory, beneath, todo, acknowledged, verdict} :
       DOMAIN f \subseteq Items /\ \A i \in DOMAIN f : IsEntry(f[i])
  /\ tail \in {"clean", "partial", "whole"}
  /\ candidates \in Partial(Items, Signatures) /\ offered \in Partial(Items, Signatures)
  /\ findings \in Partial(Items, Statuses) /\ ruling \in Partial(Items, Statuses)
  /\ pc \in {"idle", "distilling", "validating"}
  /\ answer \in {"none", "ok", "fallback", "failed", "raised", "killed"}
  /\ commands \in 0 .. MaxCommands /\ tears \in 0 .. MaxTears

-----------------------------------------------------------------------------
(* Entries.                                                                *)

Stamp(status) == [week |-> week, status |-> status]
LastStatus(e) == e.history[Len(e.history)].status

\* signature_changed: an absent signature proves no change.
Changed(e, version) == e.sig # 0 /\ version # 0 /\ e.sig # version

\* _retained: recommended entries stay, the others age.  No command of the
\* engine writes the status blocked-security, which stays as well.
Retained(e) == LastStatus(e) = "recommended" \/ week - e.last <= Retention

\* filter_items on load_memory: the item is dropped as ignored and unchanged.
Hidden(i) ==
  /\ i \in DOMAIN memory
  /\ Retained(memory[i])
  /\ LastStatus(memory[i]) = "ignored"
  /\ ~Changed(memory[i], eco[i])
Kept == {i \in DOMAIN eco : ~Hidden(i)}

\* _merge_history: the union of both, the first of equal stamps kept.
MergeHistory(history, stamp) ==
  FoldLeft(LAMBDA h, s : IF Contains(h, s) THEN h ELSE Append(h, s), <<>>,
           Append(history, stamp))

\* Mutant: the occurrences are the larger of the two, whatever the week.
SnapshotUncounted(i) ==
  IF i \notin DOMAIN memory
  THEN [last |-> week, occurrences |-> 1, history |-> <<Stamp("seen")>>, sig |-> eco[i]]
  ELSE LET e == memory[i] IN
       [last |-> IF week > e.last THEN week ELSE e.last,
        occurrences |-> e.occurrences,
        history |-> MergeHistory(e.history, Stamp("seen")),
        sig |-> eco[i]]

\* _merge_snapshot of entry_from_item: a later week is one more occurrence.
\* load_memory hides the entries past retention, append_entries reads them.
Snapshot(i) ==
  IF i \notin DOMAIN memory
  THEN [last |-> week, occurrences |-> 1, history |-> <<Stamp("seen")>>, sig |-> eco[i]]
  ELSE LET e == memory[i] IN
       [last |-> IF week > e.last THEN week ELSE e.last,
        occurrences |-> IF week > e.last THEN e.occurrences + 1 ELSE e.occurrences,
        history |-> MergeHistory(e.history, Stamp("seen")),
        sig |-> eco[i]]

\* _merge_event of an update of _memory_updates; a candidate brings the
\* signature of its card.
Event(i, status) ==
  IF i \notin DOMAIN memory
  THEN [last |-> week, occurrences |-> 1, history |-> <<Stamp(status)>>,
        sig |-> IF i \in DOMAIN candidates THEN candidates[i] ELSE 0]
  ELSE LET e == memory[i] IN
       [last |-> week,
        occurrences |-> e.occurrences + 1,
        history |-> IF e.history[Len(e.history)] = Stamp(status) THEN e.history
                    ELSE Append(e.history, Stamp(status)),
        sig |-> IF i \in DOMAIN candidates THEN candidates[i] ELSE e.sig]

-----------------------------------------------------------------------------
Init ==
  /\ week = 1
  /\ published = [i \in Items |-> 1]
  /\ eco = Empty
  /\ memory = Empty /\ beneath = Empty /\ tail = "clean" /\ garbled = FALSE
  /\ candidates = Empty /\ findings = Empty
  /\ pc = "idle" /\ todo = Empty /\ offered = Empty /\ ruling = Empty
  /\ answer = "none"
  /\ commands = 0 /\ tears = 0
  /\ acknowledged = Empty /\ verdict = Empty

Begin(command, lines) ==
  /\ pc' = command
  /\ todo' = lines
  /\ UNCHANGED <<week, published, disk, artifacts, answer, tears, acknowledged>>

End(how) ==
  /\ pc' = "idle"
  /\ todo' = Empty /\ offered' = Empty /\ ruling' = Empty
  /\ answer' = how

Calls == pc = "idle" /\ commands < MaxCommands /\ commands' = commands + 1

\* A review starts in a run directory of its own: items publish versions, and
\* releases lists some of them (none: there is no ecosystem file).
ReviewStarts ==
  /\ pc = "idle" /\ commands < MaxCommands
  /\ week' \in week .. LastWeek
  /\ published' \in {p \in [Items -> Versions] :
                       /\ \A i \in Items : p[i] >= published[i]
                       /\ \A i \in Unversioned : p[i] = published[i]}
  /\ \E listed \in SUBSET Items :
       eco' = [i \in listed |-> IF i \in Unversioned THEN 0 ELSE published'[i]]
  /\ candidates' = Empty /\ findings' = Empty
  /\ answer' = "none"
  /\ UNCHANGED <<disk, local, commands, tears, acknowledged, verdict>>

\* run: without an ecosystem, or when the memory cannot be decoded.
DistillFallsBack ==
  /\ Calls
  /\ eco = Empty \/ garbled
  /\ answer' = "fallback"
  /\ UNCHANGED <<week, published, disk, artifacts, local, tears, acknowledged, verdict>>

\* Mutant: the dropped items are remembered as seen too.
DistillStartsRememberingAll ==
  /\ Calls
  /\ eco # Empty /\ ~garbled
  /\ \E best \in SUBSET Kept :
       /\ Cardinality(best) = IF Cardinality(Kept) < TopN THEN Cardinality(Kept) ELSE TopN
       /\ offered' = [i \in best |-> eco[i]]
  /\ verdict' = Without(verdict, Kept)
  /\ Begin("distilling", [i \in DOMAIN eco |-> Snapshot(i)])
  /\ UNCHANGED ruling

\* _run_impl up to append_entries: every kept item is to be remembered, the
\* best of them are offered.
DistillStarts ==
  /\ Calls
  /\ eco # Empty /\ ~garbled
  /\ \E best \in SUBSET Kept :
       /\ Cardinality(best) = IF Cardinality(Kept) < TopN THEN Cardinality(Kept) ELSE TopN
       /\ offered' = [i \in best |-> eco[i]]
  /\ verdict' = Without(verdict, Kept)
  /\ Begin("distilling", [i \in Kept |-> Snapshot(i)])
  /\ UNCHANGED ruling

\* _run_impl after append_entries.
DistillEnds ==
  /\ pc = "distilling" /\ todo = Empty
  /\ candidates' = offered
  /\ End("ok")
  /\ UNCHANGED <<week, published, disk, eco, findings,
                 commands, tears, acknowledged, verdict>>

\* _memory_updates: candidates get the status of their finding, or "seen"; the
\* other items that an accepted or a rejected finding names get theirs.
Rulings ==
  {r \in Partial(Items, Statuses) :
     /\ DOMAIN candidates \subseteq DOMAIN r
     /\ Cardinality(DOMAIN r \ DOMAIN candidates) <= MaxOthers}

\* _cmd_watch_validate: the raw findings are absent or unreadable, rc 2.
ValidateFails ==
  /\ Calls
  /\ answer' = "failed"
  /\ UNCHANGED <<week, published, disk, artifacts, local, tears, acknowledged, verdict>>

\* _write_memory catches OSError only: a decoding error goes through
\* validate_findings, and cli.main answers rc 2.
ValidateRaises ==
  /\ Calls
  /\ garbled
  /\ answer' = "raised"
  /\ UNCHANGED <<week, published, disk, artifacts, local, tears, acknowledged, verdict>>

ValidateStarts ==
  /\ Calls
  /\ ~garbled
  /\ \E r \in Rulings :
       /\ ruling' = r
       /\ Begin("validating", [i \in DOMAIN r |-> Event(i, r[i])])
  /\ UNCHANGED <<offered, verdict>>

ValidateEnds ==
  /\ pc = "validating" /\ todo = Empty
  /\ findings' = ruling
  /\ End("ok")
  /\ UNCHANGED <<week, published, disk, eco, candidates,
                 commands, tears, acknowledged, verdict>>

\* Mutant: the file is opened for writing, not for appending.
WriteLineTruncating(i) ==
  /\ i \in DOMAIN todo
  /\ memory' = [j \in {i} |-> todo[i]]
  /\ beneath' = memory'
  /\ tail' = "clean"
  /\ todo' = Without(todo, {i})
  /\ acknowledged' = Overridden(acknowledged, i, todo[i])
  /\ verdict' = IF pc = "validating" THEN Overridden(verdict, i, todo[i]) ELSE verdict
  /\ UNCHANGED <<week, published, garbled, artifacts, pc, offered, ruling, answer,
                 commands, tears>>

\* append_entries writes and flushes a line.  After a piece of a line, both
\* make one line that no reading understands; after a line without its
\* newline, that line is lost as well.
WriteLine(i) ==
  /\ i \in DOMAIN todo
  /\ memory' = CASE tail = "clean" -> Overridden(memory, i, todo[i])
                 [] tail = "partial" -> memory
                 [] tail = "whole" -> beneath
  /\ beneath' = memory'
  /\ tail' = "clean"
  /\ todo' = Without(todo, {i})
  /\ acknowledged' = IF tail = "clean" THEN Overridden(acknowledged, i, todo[i])
                     ELSE acknowledged
  /\ verdict' = IF tail = "clean" /\ pc = "validating"
                THEN Overridden(verdict, i, todo[i]) ELSE verdict
  /\ UNCHANGED <<week, published, garbled, artifacts, pc, offered, ruling, answer,
                 commands, tears>>

\* The write stops in the middle of the line: before its end, inside a
\* character, or between the line and its newline.
LineTears(i) ==
  /\ i \in DOMAIN todo
  /\ tears < MaxTears /\ tears' = tears + 1
  /\ \/ /\ tail = "clean"
        /\ tail' = "whole"
        /\ memory' = Overridden(memory, i, todo[i])
        /\ beneath' = memory
        /\ garbled' = garbled
        /\ acknowledged' = Without(acknowledged, {i})
        /\ verdict' = Without(verdict, {i})
     \/ /\ tail' = "partial"
        /\ memory' = IF tail = "whole" THEN beneath ELSE memory
        /\ beneath' = memory'
        /\ garbled' \in {garbled, TRUE}
        /\ UNCHANGED <<acknowledged, verdict>>

\* The process dies with the line, or gets an OSError: distill falls back,
\* validate gives up its memory and goes on.
TornCommand(i) ==
  /\ LineTears(i)
  /\ \/ End("killed")
     \/ pc = "distilling" /\ End("fallback")
     \/ pc = "validating" /\ todo' = Empty /\ UNCHANGED <<pc, offered, ruling, answer>>
  /\ UNCHANGED <<week, published, artifacts, commands>>

\* The tool's timeout kills the command between two lines.
Kill ==
  /\ pc # "idle"
  /\ End("killed")
  /\ UNCHANGED <<week, published, disk, artifacts, commands, tears, acknowledged, verdict>>

Distill == DistillFallsBack \/ DistillStarts \/ DistillEnds
Validate == ValidateFails \/ ValidateRaises \/ ValidateStarts \/ ValidateEnds
Appending == \E i \in Items : WriteLine(i) \/ TornCommand(i)

Next == ReviewStarts \/ Distill \/ Validate \/ Appending \/ Kill
Spec == Init /\ [][Next]_vars

-----------------------------------------------------------------------------
(* Properties.                                                             *)

\* Append-only, as long as the file can be decoded: an entry that a command wrote in
\* full, on a clean end of file, is what every later reading returns for that item
\* until another line of the same item is written, whatever else is torn, glued or
\* killed (_read_entries).  Once a line is cut inside a character no reading returns
\* anything: see MemoryNeverBlocks.
AcknowledgedIsRead ==
  ~garbled =>
    \A i \in DOMAIN acknowledged : i \in DOMAIN memory /\ memory[i] = acknowledged[i]

\* An item that a validation ignored is not kept by a distill (retries and
\* reviews of the same week included) unless it changed or its entry lapsed.
IgnoredStaysHidden ==
  [][\A i \in DOMAIN verdict \ DOMAIN verdict' :
       pc = "idle" /\ LastStatus(verdict[i]) = "ignored" =>
         Changed(verdict[i], eco[i]) \/ week - verdict[i].last > Retention]_vars

\* What the findings file says of an item is in its memory, unless the disk
\* failed: memory is written first, so a kill between the two costs a retry.
FindingsAreRemembered ==
  tears = 0 =>
    \A i \in DOMAIN findings :
      i \in DOMAIN memory /\ Contains(memory[i].history, Stamp(findings[i]))

WeeksSeen(e) == {e.history[k].week : k \in 1 .. Len(e.history)}

\* An item seen in n distinct weeks counts at least n occurrences, so the
\* digest's recurrents miss none of those that came back.
RecurrencesAreCounted ==
  \A i \in DOMAIN memory : Cardinality(WeeksSeen(memory[i])) <= memory[i].occurrences

\* The last stamp of an entry, which decides retention and filtering, is of
\* the last week the item was seen.
LastStatusIsLatest ==
  \A i \in DOMAIN memory :
    LET h == memory[i].history IN
      /\ h[Len(h)].week = memory[i].last
      /\ \A k \in 1 .. Len(h) - 1 : h[k].week <= h[k + 1].week

(* Statements of the documentation and of the code's comments.             *)

\* watch_validation.py, _write_memory: "best-effort (jamais bloquant)", and
\* append_entries: a crash never damages more than the last line, which the next
\* reading ignores.
MemoryNeverBlocks == answer # "raised"

\* doc/spec/03-capacites.md:163-165: an ignored item "reapparait si sa version
\* ou sa date change": what is hidden was ignored as it is now.
HiddenWasJudged ==
  [][\A i \in DOMAIN eco \ DOMAIN todo' :
       pc = "idle" /\ pc' = "distilling" =>
         /\ i \in DOMAIN verdict
         /\ ~Changed(verdict[i], eco[i])]_vars

=============================================================================

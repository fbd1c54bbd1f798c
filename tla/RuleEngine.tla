------------------------------ MODULE RuleEngine ------------------------------
(***************************************************************************)
(* The declarative rules (rule_loader.py, rule_pipeline.py): the files of  *)
(* a directory, resolved along extends, patched by the thresholds of the   *)
(* run, and evaluated one by one over the scopes of the summary.           *)
(*                                                                         *)
(* A file is a record [id, extends, threshold, ignore, scope, names,       *)
(* state], None what it does not declare; its expression matches the       *)
(* targets of its scope that reach the threshold, and fails without one.   *)
(***************************************************************************)
EXTENDS Integers, FiniteSets, Sequences

CONSTANT None

RuleIds(files) == {files[i].id : i \in DOMAIN files}
FileOf(files, r) == files[CHOOSE i \in DOMAIN files : files[i].id = r]

ParentOf(files, r) == FileOf(files, r).extends
Cyclic(files) ==
  LET Reach[n \in Nat] ==
        IF n = 0 THEN {<<r, ParentOf(files, r)>> : r \in RuleIds(files)}
        ELSE LET below == Reach[n - 1] IN
             below \cup {<<p[1], ParentOf(files, p[2])>> : p \in {p \in below : p[2] \in RuleIds(files)}}
  IN  \E p \in Reach[Len(files)] : p[1] = p[2]
\* load_rules, apply_extends: what raises before any rule is evaluated.
LoadFails(files) ==
  \/ \E i \in DOMAIN files : files[i].state = "malformed"
  \/ Cardinality(RuleIds(files)) # Len(files)
  \/ \E r \in RuleIds(files) : ParentOf(files, r) \notin RuleIds(files) \cup {None}
  \/ Cyclic(files)

\* Mutant: a rule that declares a list inherits nothing.
MergeNothing(parent, child) == child
\* _merge_rules: what the child declares, else what the parent has.
Merge(parent, child) ==
  [child EXCEPT !.threshold = IF child.threshold = None THEN parent.threshold ELSE child.threshold,
                !.ignore = IF child.ignore = None THEN parent.ignore ELSE child.ignore]
Resolved(files) ==
  LET Layer[n \in Nat] ==
        IF n = 0 THEN [r \in RuleIds(files) |-> FileOf(files, r)]
        ELSE LET below == Layer[n - 1] IN
             [r \in RuleIds(files) |->
                IF ParentOf(files, r) = None THEN FileOf(files, r)
                ELSE Merge(below[ParentOf(files, r)], FileOf(files, r))]
  IN  Layer[Len(files)]
\* apply_overrides: after extends; an id that no rule has is ignored.
LoadRules(files, overrides) ==
  [r \in RuleIds(files) |->
     IF r \in DOMAIN overrides THEN [Resolved(files)[r] EXCEPT !.threshold = overrides[r]]
     ELSE Resolved(files)[r]]

-----------------------------------------------------------------------------
\* is_ignored: an entry is <<category, target>>, or <<None, target>> for any.
IsIgnored(ignored, category, target) == {<<category, target>>, <<None, target>>} \cap ignored # {}
\* is_rule_ignored: the rule by its own id, or by a target that it lists.
IsRuleIgnored(rule, ignored) ==
  \E t \in (IF rule.ignore = None THEN {} ELSE rule.ignore) \cup {rule.id} : IsIgnored(ignored, rule.id, t)

\* A missing threshold is met with the first entry of the scope.
Raises(rule, context) ==
  rule.state = "raises" \/ (rule.threshold = None /\ DOMAIN context[rule.scope] # {})
\* _resolve_scan, _filter_file_types, match.
Matched(rule, context) == {t \in DOMAIN context[rule.scope] : context[rule.scope][t] >= rule.threshold}
Finding(category, target) == [category |-> category, target |-> target]
\* apply_finding_ignore: a rule that names its targets leaves out those ignored.
ApplyIgnore(rule, targets, ignored) ==
  IF rule.names THEN {t \in targets : ~IsIgnored(ignored, rule.id, t)} ELSE targets
\* evaluate_rule: the targets that match.
EvaluateRule(rule, context, ignored) ==
  {Finding(rule.id, t) : t \in ApplyIgnore(rule, Matched(rule, context), ignored)}
\* evaluate_rules: a rule that raises is one rule-error, the others go on.
EvaluateRules(rules, context, ignored) ==
  UNION {IF Raises(rules[r], context) THEN {Finding("rule-error", r)}
         ELSE EvaluateRule(rules[r], context, ignored) :
           r \in {r \in DOMAIN rules : ~IsRuleIgnored(rules[r], ignored)}}
=============================================================================

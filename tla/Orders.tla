------------------------------- MODULE Orders -------------------------------
(***************************************************************************)
(* The list of a finite set in a strict order, given as a set of pairs:    *)
(* what sorting with a key, and with the place in the list as the last     *)
(* resort, does in the code (list.sort and sorted are stable).  It stands  *)
(* for SetToSortSeq, whose SortSeq is a primitive that has no definition   *)
(* to reason from.                                                         *)
(***************************************************************************)
EXTENDS Integers, FiniteSets

Below(x, S, before) == {y \in S : <<y, x>> \in before}
InOrder(S, before) ==
  [i \in 1 .. Cardinality(S) |-> CHOOSE x \in S : Cardinality(Below(x, S, before)) = i - 1]
Upwards(S) == {p \in S \X S : p[1] < p[2]}
\* The members of a list at some of its places.
Sublist(list, places) ==
  LET order == InOrder(places, Upwards(places)) IN [k \in DOMAIN order |-> list[order[k]]]
=============================================================================

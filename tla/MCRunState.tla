----------------------------- MODULE MCRunState -----------------------------
EXTENDS RunState, TLC

\* Behaviours of the environment under which the alias keeps its promise.
BenignFaults == {"midnight", "windows"}
AllFaults == FaultKinds

ReviewSymmetry == Permutations(Reviews)
=============================================================================

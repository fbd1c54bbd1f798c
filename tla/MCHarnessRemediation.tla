------------------------ MODULE MCHarnessRemediation ------------------------
(* Small instances of HarnessRemediation for TLC. *)
EXTENDS HarnessRemediation, TLC

FileSymmetry == Permutations(Files)
=============================================================================

---------------------------- MODULE MCCorrections ----------------------------
(* Instances of Corrections for TLC. *)
EXTENDS Corrections, TLC

CallSymmetry == Permutations(Calls \ Foreign)
=============================================================================

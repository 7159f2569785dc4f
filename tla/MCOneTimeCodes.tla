--------------------------- MODULE MCOneTimeCodes ---------------------------
(* Instances of OneTimeCodes for TLC. *)
EXTENDS OneTimeCodes, TLC

CodeSymmetry ==
  Permutations(Requests) \cup Permutations(Emails) \cup Permutations(Values)
=============================================================================

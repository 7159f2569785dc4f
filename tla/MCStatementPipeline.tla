------------------------- MODULE MCStatementPipeline -------------------------
(* Instances of StatementPipeline for TLC. *)
EXTENDS IngestionRefinement, TLC

AllFaults == FaultKinds

\* Nothing in the specification tells two workers, statements or users apart.
\* The temporal run takes no symmetry.
WorkerSymmetry == Permutations(Workers)

Symmetry ==
  Permutations(Workers) \cup Permutations(Statements) \cup Permutations(Users)
=============================================================================

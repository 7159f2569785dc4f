--------------------------- MODULE MCRefreshTokens ---------------------------
(* Instances of RefreshTokens for TLC. *)
EXTENDS SessionsRefinement, TLC

RequestSymmetry == Permutations(Requests)
=============================================================================

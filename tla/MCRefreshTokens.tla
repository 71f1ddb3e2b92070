--------------------------- MODULE MCRefreshTokens ---------------------------
(***************************************************************************)
(* Sessions with few rows, families and concurrent refreshes.              *)
(***************************************************************************)
EXTENDS RefreshTokens, TLC

Symmetry == Permutations(Tokens) \cup Permutations(Families) \cup Permutations(Requests)
=============================================================================

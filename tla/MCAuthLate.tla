----------------------------- MODULE MCAuthLate -----------------------------
(***************************************************************************)
(* Small instances of AuthLate: the emails and passwords of MCAuthService, *)
(* connections c1, c2, ... and room s1 for an overdue statement.           *)
(***************************************************************************)
EXTENDS AuthLate, MCAuthService

LateSymmetry ==
    Permutations(Connections) \cup Permutations(Overdue) \cup Permutations(RefreshTokens)
=============================================================================

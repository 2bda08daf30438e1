-------------------------- MODULE MCRefreshTokens ---------------------------
(***************************************************************************)
(* The instance of RefreshTokens that TLC checks: requests are             *)
(* interchangeable, and so are tokens.                                     *)
(***************************************************************************)
EXTENDS RefreshTokens, TLC

Symmetric == Permutations(Requests) \cup Permutations(Tokens)

=============================================================================

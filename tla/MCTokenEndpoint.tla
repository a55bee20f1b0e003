--------------------------- MODULE MCTokenEndpoint ---------------------------
(***************************************************************************)
(* TokenEndpoint for TLC.  Slots, clients and every kind of random          *)
(* identifier are interchangeable, and no run of it checks liveness.        *)
(***************************************************************************)
EXTENDS TokenEndpoint, TLC

Symmetry ==
    Permutations(Requests) \cup Permutations(ClientIds) \cup Permutations(AuthCodes)
    \cup Permutations(AccessTokens) \cup Permutations(RefreshTokens) \cup Permutations(FamilyIds)
=============================================================================

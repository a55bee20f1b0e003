----------------------------- MODULE MCRotation -----------------------------
(***************************************************************************)
(* Redemption and rotation for TLC, in four scenarios told apart by their   *)
(* configuration: three requests on one code, two requests on a chain of    *)
(* refresh tokens under strict rotation, two on a retryable one that is     *)
(* revoked, and one request at a time while the clock runs, consent is      *)
(* withdrawn and clients are deleted.                                       *)
(***************************************************************************)
EXTENDS TokenEndpoint, Sequences, TLC

CONSTANTS c1, f1, f2, a1, a2, a3, n1, n2, n3, q1, q2, q3

Slots == <<q1, q2, q3>>

Configuration(rotation, retry_window, faults) ==
    [refresh_rotation |-> rotation, refresh_retry_window |-> retry_window, faults |-> faults]

\* No refresh token is presented in the first, so its rotation policy is never consulted.
OneCode == Configuration("Reuse", 0, {"drop", "store_error"})
OneChain == Configuration("Rotate", 0, {"drop", "store_error"})
Retries == Configuration("Rotate", 1, {})
OneAtATime == Configuration("Rotate", 0, {})

Bounds(requests, families, minted, callers, credentials, last) ==
    [requests |-> requests, families |-> families, minted |-> minted, callers |-> callers,
     credentials |-> credentials, last |-> last]

Scenarios ==
    OneCode :> Bounds(3, 2, 2, ClientIds, AuthCodes, 0)
    @@ OneChain :> Bounds(2, 1, 3, {c1}, AuthCodes \cup RefreshTokens, 0)
    @@ Retries :> Bounds(2, 1, 2, ClientIds, AuthCodes \cup RefreshTokens \cup AccessTokens, 0)
    @@ OneAtATime :> Bounds(1, 1, 2, {c1}, AuthCodes \cup RefreshTokens, MaxNow)

Bound == Scenarios[config]

\* Identifiers are interchangeable, so the random source may as well draw them in order.
DrawnInOrder(ids) == \A i \in 2..Len(ids) : ids[i] \in used => ids[i - 1] \in used

\* The scenario's bounds on a state.  Consent is recorded at the outset; withdrawal comes any time.
WithinBound ==
    /\ now <= Bound.last
    /\ Bound.last = 0 => consents = Empty(ConsentIds) /\ deleted_at = Empty(ClientIds)
    /\ \A r \in Requests : /\ req[r].client \in Bound.callers \cup {None}
                           /\ req[r].cred \in Bound.credentials \cup {None}
    /\ Cardinality({r \in Requests : req[r].pc # "idle"}) <= Bound.requests
    /\ \A c \in ClientIds \ Bound.callers : deleted_at[c] = None
    /\ \A k \in ConsentIds : consents[k] # None => /\ consents[k].client_id \in Bound.callers
                                                  /\ consents[k].granted_at = 0
    /\ \A code \in AuthCodes : codes[code] # None => codes[code].client_id \in Bound.callers
    /\ DrawnInOrder(<<f1, f2>>) /\ DrawnInOrder(<<a1, a2, a3>>) /\ DrawnInOrder(<<n1, n2, n3>>)
    /\ Cardinality(used \cap FamilyIds) <= Bound.families
    /\ Cardinality(used \cap AccessTokens) <= Bound.minted
    /\ Cardinality(used \cap RefreshTokens) <= Bound.minted

\* A request starts in the first idle slot: slots are interchangeable too.
StartsInOrder ==
    \A i, j \in DOMAIN Slots :
        i < j /\ req[Slots[j]] = Idle /\ req'[Slots[j]] # Idle => req[Slots[i]] # Idle

\* Tokens are revoked where rotation is retryable.
RevokesRetryable ==
    config # Retries => \A r \in Requests : req[r].pc \notin {"revoke_lookup", "revoke_access"}

\* The steps of a scenario.
Within == RevokesRetryable' /\ StartsInOrder /\ WithinBound'

RotationInit == Init /\ config \in DOMAIN Scenarios
RotationSpec == RotationInit /\ [][Next]_vars
=============================================================================

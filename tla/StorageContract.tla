--------------------------- MODULE StorageContract ---------------------------
(***************************************************************************)
(* The contract of the `Storage` trait, checked of `MemoryStorage`: callers *)
(* invoke any method at any time with any argument (crates/oauth-as/src/    *)
(* store.rs, the trait's documentation).  A revocation's window and a       *)
(* grant's instant are independent arguments, because the caller reads its  *)
(* clock before the store takes its lock.                                   *)
(***************************************************************************)
EXTENDS Storage

Windows == {w \in RevocationWindow(Times) : w.recorded_at <= w.until}

\* A refresh record as issuance writes it, and as spending it leaves it.
PlainRefresh ==
    [client_id: ClientIds, subject: Option(Subjects), family_id: FamilyIds,
     grant_established_at: Times, expires_at: Option(Times), state: {"Active", "Spent"},
     retry: {None}]

ClientCalls ==
    \E c \in ClientIds :
        \/ \E g \in Registrations : put_client(c, g)
        \/ \E g, h \in Registrations : compare_and_swap_client(c, g, h)
        \/ \E w \in Windows : delete_client(c, w)

DeviceCalls(T) ==
    \E d \in DeviceCodes :
        \/ \E g \in DeviceGrant(T) : put_device_grant(d, g)
        \/ take_device_grant(d)
        \/ \E s \in DeviceGrantState, g \in DeviceGrant(T) :
               compare_and_swap_device_grant(d, s, g)

CodeCalls(T) ==
    \E c \in AuthCodes :
        \/ \E r \in AuthorizationCodeRecord(T) : put_authorization_code(c, r)
        \/ \E s \in AuthorizationCodeState, r \in AuthorizationCodeRecord(T) :
               compare_and_swap_authorization_code(c, s, r)
        \/ take_authorization_code(c)

PushedCalls ==
    \E u \in RequestUris :
        \/ \E r \in PushedAuthorizationRequest(Times) : put_pushed_authorization_request(u, r)
        \/ take_pushed_authorization_request(u)

AccessCalls ==
    \E a \in AccessTokens :
        \/ \E t \in IssuedToken(Times) : put_token(a, t)
        \/ delete_token(a)

\* A rotation's four records name one grant: the server derives them all from `expected`.
RotationCall(r, expected, a, n, until) ==
    LET retry == [access_token |-> a, refresh_token |-> n, until |-> until]
    IN  rotate_refresh_token(
            r, expected, [expected EXCEPT !.state = "Spent", !.retry = retry],
            a, [client_id |-> expected.client_id, subject |-> expected.subject,
                family_id |-> expected.family_id,
                grant_established_at |-> expected.grant_established_at, expires_at |-> until],
            n, [expected EXCEPT !.state = "Active", !.retry = retry])

RefreshCalls ==
    \E r \in RefreshTokens :
        \/ \E x \in PlainRefresh : put_refresh_token(r, x)
        \/ take_refresh_token(r)
        \/ \E x \in PlainRefresh, a \in AccessTokens, t \in Times,
              n \in Option(RefreshTokens \ {r}) : RotationCall(r, x, a, n, t)

FamilyCalls == \E f \in FamilyIds, w \in Windows : revoke_token_family(f, w)

ConsentCalls ==
    \E k \in ConsentIds :
        \/ \E x \in ConsentRecord(Times) : x.consent_id = k /\ put_consent(k, x)
        \/ \E x \in ConsentRecord(Times), expected \in Option(ConsentRecord(Times)) :
               \E found \in FindConsent(x.client_id, x.subject) :
                   x.consent_id = k /\ compare_and_swap_consent(k, found, expected, x)
        \/ \E w \in Windows : revoke_consent(k, w)

ReplayCalls == \E i \in ReplayIds, t \in Times : claim_replay_id(i, t)

SweepCalls == \E t \in Times : sweep_expired(t)

Next ==
    \/ ClientCalls \/ DeviceCalls(Times) \/ CodeCalls(Times) \/ PushedCalls \/ AccessCalls
    \/ RefreshCalls \/ FamilyCalls \/ ConsentCalls \/ ReplayCalls \/ SweepCalls

Spec == StoreInit /\ [][Next]_storeVars

-----------------------------------------------------------------------------
(***************************************************************************)
(* What the store guarantees                                                *)
(***************************************************************************)
NoTokenBehindBarrier == \A a \in AccessTokens : tokens[a] # None => ~Refused(tokens[a])

NoRefreshBehindBarrier == \A r \in RefreshTokens : refresh[r] # None => ~Refused(refresh[r])

NoPushBehindBarrier == \A u \in RequestUris : pushed[u] # None => ~PushRefused(pushed[u])

\* "THE RESURRECTION PREDICATE" (store.rs, `is_revoked`): whatever the order in which writes,
\* rotations, revocations, deletions, re-registrations and sweeps reach the store, it never
\* holds a token, a refresh record or a pushed request that a standing barrier refuses.  The
\* cascade of a revocation and the check of every later write have to agree exactly for this.
NoRowBehindBarrier == NoTokenBehindBarrier /\ NoRefreshBehindBarrier /\ NoPushBehindBarrier

\* The user-code index and the device grants name each other: every grant is found by its own
\* user code, and every index entry leads to a grant that carries that code, through user-code
\* changes, takes, cascades and sweeps (store.rs, `put_device_grant` and the stale-index loops).
UserCodeIndexSound ==
    /\ \A u \in UserCodes : user_code_index[u] # None =>
           /\ device_by_code[user_code_index[u]] # None
           /\ device_by_code[user_code_index[u]].user_code = u
    /\ \A d \in DeviceCodes : device_by_code[d] # None =>
           user_code_index[device_by_code[d].user_code] = d

SlotOnlyStrengthens(old, new, reaped) ==
    old # None => IF new = None THEN reaped
                  ELSE new.recorded_at >= old.recorded_at /\ new.until >= old.until

\* Whether this step is a sweep that finds the barrier at its deadline.
Reaps(slot) == \E t \in Times : slot.until <= t /\ sweep_expired(t)

SlotsOnlyStrengthen ==
    /\ \A c \in ClientIds :
           SlotOnlyStrengthens(client_barriers[c], client_barriers'[c], Reaps(client_barriers[c]))
    /\ \A f \in FamilyIds :
           SlotOnlyStrengthens(family_barriers[f], family_barriers'[f], Reaps(family_barriers[f]))
    /\ \A p \in ClientIds \X Subjects :
           SlotOnlyStrengthens(consent_barriers[p], consent_barriers'[p],
                               Reaps(consent_barriers[p]))

\* A standing barrier never weakens: a repeat revocation of the same scope keeps the later of
\* both instants, and only a sweep at or past its deadline removes it (store.rs,
\* `BarrierTimes::merge_into` and `sweep_expired`).
BarriersOnlyStrengthen == [][SlotsOnlyStrengthen]_storeVars
=============================================================================

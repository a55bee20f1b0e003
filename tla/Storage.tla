------------------------------- MODULE Storage -------------------------------
(***************************************************************************)
(* `MemoryStorage`, the reference implementation of the `Storage` trait     *)
(* (crates/oauth-as/src/store.rs).  The implementation is one mutex around  *)
(* one struct of maps, so each trait method that writes is one action here  *)
(* and takes effect at once; the reads are plain state reads made by the    *)
(* callers.  Each map is a total function whose value is None at a key the  *)
(* map does not hold.                                                       *)
(*                                                                          *)
(* Abstracted: the payload of a record (scopes, resources, redirect URI,    *)
(* key bindings) is dropped where no storage operation reads it, a client   *)
(* registration is an opaque value, and a user code is already normalised.  *)
(* `reject_empty_scope` has no counterpart: identifiers are never empty.    *)
(***************************************************************************)
EXTENDS Naturals, FiniteSets

CONSTANTS
    ClientIds, Registrations, Subjects, Scopes,
    FamilyIds, AuthCodes, AccessTokens, RefreshTokens,
    DeviceCodes, UserCodes, RequestUris, ConsentIds, ReplayIds,
    Times,      \* the instants a caller of the store may pass in, when it is explored alone
    None        \* Rust's Option::None, and a key a map does not hold

ASSUME TimesAssumption == Times \subseteq Nat

ASSUME NoneAssumption ==
    /\ None \notin Nat
    /\ None \notin DeviceCodes
    /\ None \notin UserCodes
    /\ None \notin Registrations
    /\ None \notin [recorded_at: Nat, until: Nat]

VARIABLES
    clients, device_by_code, user_code_index, codes, pushed, tokens, refresh,
    consents, replay_ids, client_barriers, family_barriers, consent_barriers

deviceMaps == <<device_by_code, user_code_index>>
tokenMaps == <<tokens, refresh>>
barriers == <<client_barriers, family_barriers, consent_barriers>>
storeVars == <<clients, deviceMaps, codes, pushed, tokenMaps, consents, replay_ids, barriers>>

Option(S) == S \cup {None}

(***************************************************************************)
(* The records, over a set T of instants: Nat for the types, Times for the  *)
(* arguments enumerated when the store is explored alone.                   *)
(***************************************************************************)
DeviceGrantState ==
    [status: {"Pending", "Denied"}, subject: {None}] \cup [status: {"Approved"}, subject: Subjects]

DeviceGrant(T) ==
    [client_id: ClientIds, user_code: UserCodes, state: DeviceGrantState,
     created_at: T, expires_at: T, interval: T, last_poll_at: Option(T)]

ASSUME GrantAssumption == None \notin DeviceGrant(Nat)

AuthorizationCodeState ==
    [status: {"Issued", "Consumed", "Replayed"},
     access_token: Option(AccessTokens), refresh_token: Option(RefreshTokens)]

AuthorizationCodeRecord(T) ==
    [client_id: ClientIds, subject: Subjects, issued_at: T, expires_at: T,
     state: AuthorizationCodeState]

PushedAuthorizationRequest(T) == [client_id: ClientIds, pushed_at: T, expires_at: T]

IssuedToken(T) ==
    [client_id: ClientIds, subject: Option(Subjects), family_id: Option(FamilyIds),
     grant_established_at: T, expires_at: T]

RefreshTokenRetry(T) ==
    [access_token: AccessTokens, refresh_token: Option(RefreshTokens), until: T]

RefreshTokenRecord(T) ==
    [client_id: ClientIds, subject: Option(Subjects), family_id: FamilyIds,
     grant_established_at: T, expires_at: Option(T), state: {"Active", "Spent"},
     retry: Option(RefreshTokenRetry(T))]

ConsentRecord(T) ==
    [consent_id: ConsentIds, client_id: ClientIds, subject: Subjects, scope: SUBSET Scopes,
     granted_at: T]

RevocationWindow(T) == [recorded_at: T, until: T]

TypeOK ==
    /\ clients \in [ClientIds -> Option(Registrations)]
    /\ device_by_code \in [DeviceCodes -> Option(DeviceGrant(Nat))]
    /\ user_code_index \in [UserCodes -> Option(DeviceCodes)]
    /\ codes \in [AuthCodes -> Option(AuthorizationCodeRecord(Nat))]
    /\ pushed \in [RequestUris -> Option(PushedAuthorizationRequest(Nat))]
    /\ tokens \in [AccessTokens -> Option(IssuedToken(Nat))]
    /\ refresh \in [RefreshTokens -> Option(RefreshTokenRecord(Nat))]
    /\ consents \in [ConsentIds -> Option(ConsentRecord(Nat))]
    /\ replay_ids \in [ReplayIds -> Option(Nat)]
    /\ client_barriers \in [ClientIds -> Option(RevocationWindow(Nat))]
    /\ family_barriers \in [FamilyIds -> Option(RevocationWindow(Nat))]
    /\ consent_barriers \in [ClientIds \X Subjects -> Option(RevocationWindow(Nat))]

Empty(K) == [k \in K |-> None]

StoreInit ==
    /\ clients = Empty(ClientIds)
    /\ device_by_code = Empty(DeviceCodes)
    /\ user_code_index = Empty(UserCodes)
    /\ codes = Empty(AuthCodes)
    /\ pushed = Empty(RequestUris)
    /\ tokens = Empty(AccessTokens)
    /\ refresh = Empty(RefreshTokens)
    /\ consents = Empty(ConsentIds)
    /\ replay_ids = Empty(ReplayIds)
    /\ client_barriers = Empty(ClientIds)
    /\ family_barriers = Empty(FamilyIds)
    /\ consent_barriers = Empty(ClientIds \X Subjects)

-----------------------------------------------------------------------------
(***************************************************************************)
(* Helpers on maps                                                          *)
(***************************************************************************)
\* `HashMap::retain`, given the keys that do not survive.
Without(map, doomed) == [k \in DOMAIN map |-> IF k \in doomed THEN None ELSE map[k]]

\* The keys whose record is still held at `now`, past its own `expires_at`.
ExpiredKeys(map, now) ==
    {k \in DOMAIN map : map[k] # None /\ map[k].expires_at # None /\ map[k].expires_at <= now}

OfClient(map, client_id) == {k \in DOMAIN map : map[k] # None /\ map[k].client_id = client_id}

OfConsent(map, client_id, subject) ==
    {k \in OfClient(map, client_id) : map[k].subject = subject}

OfFamily(map, family_id) == {k \in DOMAIN map : map[k] # None /\ map[k].family_id = family_id}

\* Index entries whose device grant is no longer held.
StaleIndex(grants) ==
    {u \in UserCodes : user_code_index[u] # None /\ grants[user_code_index[u]] = None}

-----------------------------------------------------------------------------
(***************************************************************************)
(* Revocation barriers                                                      *)
(***************************************************************************)
Later(a, b) == IF a < b THEN b ELSE a

\* Mutants of merge_into: the last revocation wins; a window that carries no deadline.
merge_last_wins(slot, window) == window
merge_no_deadline(slot, window) == [window EXCEPT !.until = None]

\* BarrierTimes::merge_into: a repeat revocation keeps the later of both instants.
merge_into(slot, window) ==
    IF slot = None THEN window
    ELSE [recorded_at |-> Later(slot.recorded_at, window.recorded_at),
          until |-> Later(slot.until, window.until)]

\* BarrierTimes::covers: a tie refuses.
covers(slot, established) == slot # None /\ established <= slot.recorded_at

\* Mutant of is_revoked: the family barrier is not consulted.
is_revoked_no_family(client_id, family_id, subject, established) ==
    \/ /\ client_barriers[client_id] # None
       /\ covers(client_barriers[client_id], established) \/ clients[client_id] = None
    \/ subject # None /\ covers(consent_barriers[<<client_id, subject>>], established)

\* MemoryInner::is_revoked, the predicate every barrier-checked write consults.
is_revoked(client_id, family_id, subject, established) ==
    \/ /\ client_barriers[client_id] # None
       /\ covers(client_barriers[client_id], established) \/ clients[client_id] = None
    \/ subject # None /\ covers(consent_barriers[<<client_id, subject>>], established)
    \/ family_id # None /\ family_barriers[family_id] # None

\* The answer RefusedRevoked for a token or a refresh record.
Refused(record) ==
    is_revoked(record.client_id, record.family_id, record.subject, record.grant_established_at)

\* The answer RefusedRevoked for a pushed request, which has neither a subject nor a family.
PushRefused(record) == is_revoked(record.client_id, None, None, record.pushed_at)

-----------------------------------------------------------------------------
(***************************************************************************)
(* Clients                                                                  *)
(***************************************************************************)
put_client(client_id, registration) ==
    /\ clients' = [clients EXCEPT ![client_id] = registration]
    /\ UNCHANGED <<deviceMaps, codes, pushed, tokenMaps, consents, replay_ids, barriers>>

ClientSwaps(client_id, expected) == clients[client_id] # None /\ clients[client_id] = expected

compare_and_swap_client(client_id, expected, updated) ==
    /\ clients' = IF ClientSwaps(client_id, expected)
                  THEN [clients EXCEPT ![client_id] = updated] ELSE clients
    /\ UNCHANGED <<deviceMaps, codes, pushed, tokenMaps, consents, replay_ids, barriers>>

\* The barrier is recorded whether or not the client was there to delete.
delete_client(client_id, window) ==
    /\ clients' = [clients EXCEPT ![client_id] = None]
    /\ client_barriers' =
           [client_barriers EXCEPT ![client_id] = merge_into(client_barriers[client_id], window)]
    /\ tokens' = Without(tokens, OfClient(tokens, client_id))
    /\ refresh' = Without(refresh, OfClient(refresh, client_id))
    /\ codes' = Without(codes, OfClient(codes, client_id))
    /\ pushed' = Without(pushed, OfClient(pushed, client_id))
    /\ device_by_code' = Without(device_by_code, OfClient(device_by_code, client_id))
    /\ user_code_index' = Without(user_code_index, StaleIndex(device_by_code'))
    /\ consents' = Without(consents, OfClient(consents, client_id))
    /\ UNCHANGED <<replay_ids, family_barriers, consent_barriers>>

-----------------------------------------------------------------------------
(***************************************************************************)
(* Device grants and their user-code index                                  *)
(***************************************************************************)
\* The StorageError of a user code that is indexed for another device code.
UserCodeTaken(device_code, grant) ==
    user_code_index[grant.user_code] \notin {None, device_code}

\* Mutant of IndexAndInsert: the entry of a changed user code is not retired.
index_keeps_old(device_code, grant) ==
    /\ user_code_index' = [user_code_index EXCEPT ![grant.user_code] = device_code]
    /\ device_by_code' = [device_by_code EXCEPT ![device_code] = grant]

IndexAndInsert(device_code, grant) ==
    LET previous == device_by_code[device_code]
        retired == IF previous # None /\ previous.user_code # grant.user_code
                   THEN {previous.user_code} ELSE {}
    IN  /\ user_code_index' = [Without(user_code_index, retired)
                                   EXCEPT ![grant.user_code] = device_code]
        /\ device_by_code' = [device_by_code EXCEPT ![device_code] = grant]

put_device_grant(device_code, grant) ==
    /\ IF UserCodeTaken(device_code, grant) THEN UNCHANGED deviceMaps
       ELSE IndexAndInsert(device_code, grant)
    /\ UNCHANGED <<clients, codes, pushed, tokenMaps, consents, replay_ids, barriers>>

\* find_device_grant_by_user_code: the device code it resolves to, or None.
FindByUserCode(user_code) ==
    IF user_code_index[user_code] = None THEN None
    ELSE IF device_by_code[user_code_index[user_code]] = None THEN None
    ELSE user_code_index[user_code]

\* Mutant of take_device_grant: the grant is read and left in place.
read_device_grant(device_code) == UNCHANGED storeVars

take_device_grant(device_code) ==
    /\ device_by_code' = [device_by_code EXCEPT ![device_code] = None]
    /\ user_code_index' =
           IF device_by_code[device_code] = None THEN user_code_index
           ELSE [user_code_index EXCEPT ![device_by_code[device_code].user_code] = None]
    /\ UNCHANGED <<clients, codes, pushed, tokenMaps, consents, replay_ids, barriers>>

\* Mutant of DeviceGrantSwaps: a blind write over whatever grant is there.
device_swaps_if_present(device_code, expected) == device_by_code[device_code] # None

\* The comparison is on the state alone, so the pacing fields travel with the writer's snapshot.
DeviceGrantSwaps(device_code, expected) ==
    device_by_code[device_code] # None /\ device_by_code[device_code].state = expected

compare_and_swap_device_grant(device_code, expected, updated) ==
    /\ IF DeviceGrantSwaps(device_code, expected) /\ ~UserCodeTaken(device_code, updated)
       THEN IndexAndInsert(device_code, updated) ELSE UNCHANGED deviceMaps
    /\ UNCHANGED <<clients, codes, pushed, tokenMaps, consents, replay_ids, barriers>>

-----------------------------------------------------------------------------
(***************************************************************************)
(* Authorization codes and pushed requests                                  *)
(***************************************************************************)
\* A blind write: a code row is not a capability, so no barrier is consulted.
put_authorization_code(code, record) ==
    /\ codes' = [codes EXCEPT ![code] = record]
    /\ UNCHANGED <<clients, deviceMaps, pushed, tokenMaps, consents, replay_ids, barriers>>

\* Mutants of CodeSwaps: a blind write; a write that only needs the record to be there.
swaps_always(code, expected) == TRUE
swaps_if_present(code, expected) == codes[code] # None

CodeSwaps(code, expected) == codes[code] # None /\ codes[code].state = expected

compare_and_swap_authorization_code(code, expected, updated) ==
    /\ codes' = IF CodeSwaps(code, expected) THEN [codes EXCEPT ![code] = updated] ELSE codes
    /\ UNCHANGED <<clients, deviceMaps, pushed, tokenMaps, consents, replay_ids, barriers>>

\* Mutant of take_authorization_code: the record is read and left in place.
get_authorization_code(code) == UNCHANGED storeVars

take_authorization_code(code) ==
    /\ codes' = [codes EXCEPT ![code] = None]
    /\ UNCHANGED <<clients, deviceMaps, pushed, tokenMaps, consents, replay_ids, barriers>>

put_pushed_authorization_request(request_uri, record) ==
    /\ pushed' = IF PushRefused(record) THEN pushed
                 ELSE [pushed EXCEPT ![request_uri] = record]
    /\ UNCHANGED <<clients, deviceMaps, codes, tokenMaps, consents, replay_ids, barriers>>

take_pushed_authorization_request(request_uri) ==
    /\ pushed' = [pushed EXCEPT ![request_uri] = None]
    /\ UNCHANGED <<clients, deviceMaps, codes, tokenMaps, consents, replay_ids, barriers>>

-----------------------------------------------------------------------------
(***************************************************************************)
(* Access and refresh tokens                                                *)
(***************************************************************************)
put_token(access_token, record) ==
    /\ tokens' = IF Refused(record) THEN tokens ELSE [tokens EXCEPT ![access_token] = record]
    /\ UNCHANGED <<clients, deviceMaps, codes, pushed, refresh, consents, replay_ids, barriers>>

delete_token(access_token) ==
    /\ tokens' = [tokens EXCEPT ![access_token] = None]
    /\ UNCHANGED <<clients, deviceMaps, codes, pushed, refresh, consents, replay_ids, barriers>>

\* Mutant of put_refresh_token: no barrier is consulted.
put_refresh_unchecked(refresh_token, record) ==
    /\ refresh' = [refresh EXCEPT ![refresh_token] = record]
    /\ UNCHANGED <<clients, deviceMaps, codes, pushed, tokens, consents, replay_ids, barriers>>

put_refresh_token(refresh_token, record) ==
    /\ refresh' = IF Refused(record) THEN refresh ELSE [refresh EXCEPT ![refresh_token] = record]
    /\ UNCHANGED <<clients, deviceMaps, codes, pushed, tokens, consents, replay_ids, barriers>>

\* Mutant of take_refresh_token: the record is read and left in place.
get_refresh_token(refresh_token) == UNCHANGED storeVars

take_refresh_token(refresh_token) ==
    /\ refresh' = [refresh EXCEPT ![refresh_token] = None]
    /\ UNCHANGED <<clients, deviceMaps, codes, pushed, tokens, consents, replay_ids, barriers>>

\* Mutant of Rotates: the predecessor is not compared.
rotates_if_present(refresh_token, expected) ==
    refresh[refresh_token] # None /\ ~Refused(expected)

\* The answer `true` of rotate_refresh_token.
Rotates(refresh_token, expected) ==
    refresh[refresh_token] # None /\ refresh[refresh_token] = expected /\ ~Refused(expected)

\* Spend the predecessor and write both successors as one step; next_token is None when the
\* rotation mints no refresh token.
rotate_refresh_token(refresh_token, expected, spent, access_token, access, next_token, next) ==
    /\ IF Rotates(refresh_token, expected)
       THEN /\ tokens' = [tokens EXCEPT ![access_token] = access]
            /\ refresh' = [k \in RefreshTokens |->
                               IF k = next_token THEN next
                               ELSE IF k = refresh_token THEN spent ELSE refresh[k]]
       ELSE UNCHANGED tokenMaps
    /\ UNCHANGED <<clients, deviceMaps, codes, pushed, consents, replay_ids, barriers>>

\* Mutant of revoke_token_family: the access tokens of the family survive.
revoke_refresh_only(family_id, window) ==
    /\ family_barriers' =
           [family_barriers EXCEPT ![family_id] = merge_into(family_barriers[family_id], window)]
    /\ refresh' = Without(refresh, OfFamily(refresh, family_id))
    /\ UNCHANGED <<clients, deviceMaps, codes, pushed, tokens, consents, replay_ids,
                   client_barriers, consent_barriers>>

revoke_token_family(family_id, window) ==
    /\ family_barriers' =
           [family_barriers EXCEPT ![family_id] = merge_into(family_barriers[family_id], window)]
    /\ tokens' = Without(tokens, OfFamily(tokens, family_id))
    /\ refresh' = Without(refresh, OfFamily(refresh, family_id))
    /\ UNCHANGED <<clients, deviceMaps, codes, pushed, consents, replay_ids,
                   client_barriers, consent_barriers>>

-----------------------------------------------------------------------------
(***************************************************************************)
(* Consent records                                                          *)
(***************************************************************************)
put_consent(consent_id, record) ==
    /\ consents' = [consents EXCEPT ![consent_id] = record]
    /\ UNCHANGED <<clients, deviceMaps, codes, pushed, tokenMaps, replay_ids, barriers>>

\* What find_consent may return: a record of the pair, or None when there is none.
FindConsent(client_id, subject) ==
    LET held == OfConsent(consents, client_id, subject)
    IN  IF held = {} THEN {None} ELSE {consents[k] : k \in held}

\* compare_and_swap_consent with the record of the pair that its scan found.
compare_and_swap_consent(consent_id, found, expected, updated) ==
    /\ consents' = IF found = expected
                   THEN [consents EXCEPT ![consent_id] = updated] ELSE consents
    /\ UNCHANGED <<clients, deviceMaps, codes, pushed, tokenMaps, replay_ids, barriers>>

\* An unknown consent_id revokes nothing and records no barrier.
revoke_consent(consent_id, window) ==
    LET consent == consents[consent_id]
        client_id == consent.client_id
        subject == consent.subject
        approved == {d \in OfClient(device_by_code, client_id) :
                         device_by_code[d].state = [status |-> "Approved", subject |-> subject]}
    IN  IF consent = None THEN UNCHANGED storeVars
        ELSE /\ consents' = [consents EXCEPT ![consent_id] = None]
             /\ consent_barriers' =
                    [consent_barriers EXCEPT ![<<client_id, subject>>] =
                         merge_into(consent_barriers[<<client_id, subject>>], window)]
             /\ tokens' = Without(tokens, OfConsent(tokens, client_id, subject))
             /\ refresh' = Without(refresh, OfConsent(refresh, client_id, subject))
             /\ codes' = Without(codes, OfConsent(codes, client_id, subject))
             /\ device_by_code' = Without(device_by_code, approved)
             /\ user_code_index' = Without(user_code_index, StaleIndex(device_by_code'))
             /\ UNCHANGED <<clients, pushed, replay_ids, client_barriers, family_barriers>>

-----------------------------------------------------------------------------
(***************************************************************************)
(* Replay identifiers and the sweep                                         *)
(***************************************************************************)
\* The answer `true`: an identifier still held is refused whatever its deadline.
ReplayIdFree(id) == replay_ids[id] = None

claim_replay_id(id, expires_at) ==
    /\ replay_ids' = IF ReplayIdFree(id) THEN [replay_ids EXCEPT ![id] = expires_at]
                     ELSE replay_ids
    /\ UNCHANGED <<clients, deviceMaps, codes, pushed, tokenMaps, consents, barriers>>

\* Barriers whose deadline has come.
Reapable(slots, now) == {k \in DOMAIN slots : slots[k] # None /\ slots[k].until <= now}

\* Clients and consents are never swept.
sweep_expired(now) ==
    /\ device_by_code' = Without(device_by_code, ExpiredKeys(device_by_code, now))
    /\ user_code_index' = Without(user_code_index, StaleIndex(device_by_code'))
    /\ codes' = Without(codes, ExpiredKeys(codes, now))
    /\ pushed' = Without(pushed, ExpiredKeys(pushed, now))
    /\ tokens' = Without(tokens, ExpiredKeys(tokens, now))
    /\ refresh' = Without(refresh, ExpiredKeys(refresh, now))
    /\ replay_ids' =
           Without(replay_ids, {i \in ReplayIds : replay_ids[i] # None /\ replay_ids[i] <= now})
    /\ client_barriers' = Without(client_barriers, Reapable(client_barriers, now))
    /\ family_barriers' = Without(family_barriers, Reapable(family_barriers, now))
    /\ consent_barriers' = Without(consent_barriers, Reapable(consent_barriers, now))
    /\ UNCHANGED <<clients, consents>>
=============================================================================

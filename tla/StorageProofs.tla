---------------------------- MODULE StorageProofs ----------------------------
(***************************************************************************)
(* Theorems about the storage contract, for any sets of identifiers and any *)
(* instants, and about the PostgreSQL store, for any number of connections. *)
(*                                                                          *)
(* The transactions of the PostgreSQL store interleave statement by         *)
(* statement.  What one of them has read stays true until it commits        *)
(* because of the locks it holds, and this is the inductive invariant: the  *)
(* locks exclude each other (LocksExclude), and each transaction, with      *)
(* regard to the statements it has left, holds its locks and may rely on    *)
(* what it has read (Sound).  A step of another transaction touches no row  *)
(* it has locked, writes no record under a key it holds exclusively, and    *)
(* sets no barrier under a key it shares (Undisturbed).                     *)
(***************************************************************************)
EXTENDS PostgresStore, StorageLemmas, SequenceTheorems

-----------------------------------------------------------------------------
(***************************************************************************)
(* The arguments of the calls                                               *)
(***************************************************************************)
\* The instants enumerated are natural numbers, so the arguments have the declared types.
LEMMA ArgumentTypes ==
    /\ Windows \subseteq RevocationWindow(Nat)
    /\ DeviceGrant(Times) \subseteq DeviceGrant(Nat)
    /\ AuthorizationCodeRecord(Times) \subseteq AuthorizationCodeRecord(Nat)
    /\ PushedAuthorizationRequest(Times) \subseteq PushedAuthorizationRequest(Nat)
    /\ IssuedToken(Times) \subseteq IssuedToken(Nat)
    /\ PlainRefresh \subseteq RefreshTokenRecord(Nat)
    /\ ConsentRecord(Times) \subseteq ConsentRecord(Nat)
<1>1. Windows \subseteq RevocationWindow(Nat)
  BY TimesAssumption DEF Windows, RevocationWindow
<1>2. DeviceGrant(Times) \subseteq DeviceGrant(Nat)
  BY TimesAssumption DEF DeviceGrant, Option
<1>3. AuthorizationCodeRecord(Times) \subseteq AuthorizationCodeRecord(Nat)
  BY TimesAssumption DEF AuthorizationCodeRecord
<1>4. PushedAuthorizationRequest(Times) \subseteq PushedAuthorizationRequest(Nat)
  BY TimesAssumption DEF PushedAuthorizationRequest
<1>5. IssuedToken(Times) \subseteq IssuedToken(Nat)
  BY TimesAssumption DEF IssuedToken
<1>6. PlainRefresh \subseteq RefreshTokenRecord(Nat)
  BY TimesAssumption DEF PlainRefresh, RefreshTokenRecord, Option
<1>7. ConsentRecord(Times) \subseteq ConsentRecord(Nat)
  BY TimesAssumption DEF ConsentRecord
<1> QED BY <1>1, <1>2, <1>3, <1>4, <1>5, <1>6, <1>7

-----------------------------------------------------------------------------
(***************************************************************************)
(* Type correctness                                                         *)
(***************************************************************************)
\* Writing, taking and rotating refresh records leaves barriers and device grants alone.
LEMMA RefreshCallsFrame ==
    RefreshCalls => UNCHANGED <<client_barriers, family_barriers, consent_barriers,
                                device_by_code, user_code_index>>
<1> SUFFICES ASSUME RefreshCalls
             PROVE  UNCHANGED <<client_barriers, family_barriers, consent_barriers,
                                device_by_code, user_code_index>>
  OBVIOUS
<1> USE DEF barriers, deviceMaps
<1>1. PICK r \in RefreshTokens :
          \/ \E x \in PlainRefresh : put_refresh_token(r, x)
          \/ take_refresh_token(r)
          \/ \E x \in PlainRefresh, a \in AccessTokens, t \in Times,
                n \in Option(RefreshTokens \ {r}) : RotationCall(r, x, a, n, t)
  BY DEF RefreshCalls
<1>2. CASE \E x \in PlainRefresh : put_refresh_token(r, x)
  BY <1>2 DEF put_refresh_token
<1>3. CASE take_refresh_token(r)
  BY <1>3 DEF take_refresh_token
<1>4. ASSUME NEW x, NEW a, NEW t, NEW n, RotationCall(r, x, a, n, t)
      PROVE  UNCHANGED <<client_barriers, family_barriers, consent_barriers,
                         device_by_code, user_code_index>>
  BY <1>4 DEF RotationCall, rotate_refresh_token
<1> QED BY <1>1, <1>2, <1>3, <1>4

\* Every call of the store keeps its maps well typed.
LEMMA TypeStep == TypeOK /\ [Next]_storeVars => TypeOK'
<1> SUFFICES ASSUME TypeOK, [Next]_storeVars PROVE TypeOK'
  OBVIOUS
<1> USE DEF deviceMaps, tokenMaps, barriers
<1>1. CASE ClientCalls
  BY <1>1, ClientType, DeleteClientType, ArgumentTypes DEF ClientCalls
<1>2. CASE DeviceCalls(Times)
  <2>1. PICK d \in DeviceCodes :
            \/ \E g \in DeviceGrant(Times) : put_device_grant(d, g)
            \/ take_device_grant(d)
            \/ \E st \in DeviceGrantState, g \in DeviceGrant(Times) :
                   compare_and_swap_device_grant(d, st, g)
    BY <1>2 DEF DeviceCalls
  <2>2. CASE take_device_grant(d)
    BY <2>2 DEF TypeOK, take_device_grant, Option
  <2> QED BY <2>1, <2>2, DeviceType, ArgumentTypes
<1>3. CASE CodeCalls(Times)
  BY <1>3, CodeType, TakeCodeType, ArgumentTypes DEF CodeCalls
<1>4. CASE PushedCalls
  BY <1>4, ArgumentTypes DEF TypeOK, PushedCalls, put_pushed_authorization_request,
     take_pushed_authorization_request, Option
<1>5. CASE AccessCalls
  BY <1>5, PutTokenType, DeleteTokenType, ArgumentTypes DEF AccessCalls
<1>6. CASE RefreshCalls
  <2>1. ASSUME NEW r \in RefreshTokens, NEW x \in PlainRefresh, NEW a \in AccessTokens,
               NEW t \in Times, NEW n \in Option(RefreshTokens \ {r}), RotationCall(r, x, a, n, t)
        PROVE TypeOK'
    <3> DEFINE retry == [access_token |-> a, refresh_token |-> n, until |-> t]
               spent == [x EXCEPT !.state = "Spent", !.retry = retry]
               access == [client_id |-> x.client_id, subject |-> x.subject,
                          family_id |-> x.family_id,
                          grant_established_at |-> x.grant_established_at, expires_at |-> t]
               next == [x EXCEPT !.state = "Active", !.retry = retry]
    <3>1. retry \in RefreshTokenRetry(Nat)
      BY TimesAssumption DEF RefreshTokenRetry, Option
    <3>2. spent \in RefreshTokenRecord(Nat) /\ next \in RefreshTokenRecord(Nat)
      <4>1. x \in RefreshTokenRecord(Nat) BY ArgumentTypes
      <4> HIDE DEF retry
      <4> QED BY <3>1, <4>1 DEF RefreshTokenRecord, Option
    <3>3. access \in IssuedToken(Nat)
      BY TimesAssumption DEF IssuedToken, PlainRefresh, Option
    <3>4. rotate_refresh_token(r, x, spent, a, access, n, next)
      BY <2>1 DEF RotationCall
    <3> HIDE DEF spent, access, next, retry
    <3> QED BY <3>2, <3>3, <3>4, RotateType
  <2> QED BY <1>6, <2>1, PutRefreshType, TakeRefreshType, ArgumentTypes DEF RefreshCalls
<1>7. CASE FamilyCalls
  BY <1>7, RevokeFamilyType, ArgumentTypes DEF FamilyCalls
<1>8. CASE ConsentCalls
  <2>1. PICK k \in ConsentIds :
            \/ \E x \in ConsentRecord(Times) : put_consent(k, x)
            \/ \E x \in ConsentRecord(Times) : \E e, found : compare_and_swap_consent(k, found, e, x)
            \/ \E w \in Windows : revoke_consent(k, w)
    BY <1>8 DEF ConsentCalls
  <2> QED BY <2>1, ConsentType, RevokeConsentType, ArgumentTypes
<1>9. CASE ReplayCalls
  BY <1>9, TimesAssumption DEF TypeOK, ReplayCalls, claim_replay_id, Option
<1>10. CASE SweepCalls
  BY <1>10, SweepType DEF SweepCalls
<1>11. CASE UNCHANGED storeVars
  BY <1>11 DEF TypeOK, storeVars
<1> QED BY <1>1, <1>2, <1>3, <1>4, <1>5, <1>6, <1>7, <1>8, <1>9, <1>10, <1>11 DEF Next

\* Whatever sequence of calls reaches it, every map of the store holds records of its own type
\* under keys of its own type.
THEOREM TypeCorrect == Spec => []TypeOK
<1>1. StoreInit => TypeOK
  BY EmptyFacts DEF StoreInit, TypeOK
<1> QED BY <1>1, TypeStep, PTL DEF Spec

-----------------------------------------------------------------------------
(***************************************************************************)
(* No record behind a standing barrier                                      *)
(***************************************************************************)
\* A step that changes no barrier, and makes no client absent, refuses no record it did not
\* refuse before.
LEMMA RefusalUnchanged ==
    ASSUME UNCHANGED barriers, \A c \in ClientIds : clients'[c] = None => clients[c] = None,
           NEW c \in ClientIds, NEW f, NEW sub, NEW t, is_revoked(c, f, sub, t)'
    PROVE  is_revoked(c, f, sub, t)
BY DEF barriers, is_revoked, covers

\* A step that keeps or drops each row, and refuses nothing more, keeps the invariant.
LEMMA RowsKeptOrDropped ==
    ASSUME TypeOK, NoRowBehindBarrier, UNCHANGED barriers,
           \A c \in ClientIds : clients'[c] = None => clients[c] = None,
           \A a \in AccessTokens : tokens'[a] \in {None, tokens[a]},
           \A r \in RefreshTokens : refresh'[r] \in {None, refresh[r]},
           \A u \in RequestUris : pushed'[u] \in {None, pushed[u]}
    PROVE  NoRowBehindBarrier'
<1>1. NoTokenBehindBarrier'
  BY RefusalUnchanged
     DEF NoRowBehindBarrier, NoTokenBehindBarrier, Refused, TypeOK, Option, IssuedToken
<1>2. NoRefreshBehindBarrier'
  BY RefusalUnchanged
     DEF NoRowBehindBarrier, NoRefreshBehindBarrier, Refused, TypeOK, Option, RefreshTokenRecord
<1>3. NoPushBehindBarrier'
  BY RefusalUnchanged
     DEF NoRowBehindBarrier, NoPushBehindBarrier, PushRefused, TypeOK, Option,
         PushedAuthorizationRequest
<1> QED BY <1>1, <1>2, <1>3 DEF NoRowBehindBarrier

\* Every call of the store keeps every record it holds clear of the barriers.
LEMMA BarrierStep ==
    TypeOK /\ NoRowBehindBarrier /\ [Next]_storeVars => NoRowBehindBarrier'
<1> SUFFICES ASSUME TypeOK, NoRowBehindBarrier, [Next]_storeVars PROVE NoRowBehindBarrier'
  OBVIOUS
<1> USE DEF deviceMaps, tokenMaps
<1>1. CASE ClientCalls
  <2>1. ASSUME NEW c \in ClientIds, NEW g \in Registrations, put_client(c, g)
        PROVE NoRowBehindBarrier'
    BY <2>1, RowsKeptOrDropped, NoneAssumption DEF TypeOK, put_client
  <2>2. ASSUME NEW c \in ClientIds, NEW g \in Registrations, NEW h \in Registrations,
               compare_and_swap_client(c, g, h)
        PROVE NoRowBehindBarrier'
    BY <2>2, RowsKeptOrDropped, NoneAssumption DEF TypeOK, compare_and_swap_client
  <2>3. ASSUME NEW c \in ClientIds, NEW w \in Windows, delete_client(c, w)
        PROVE NoRowBehindBarrier'
    <3>1. \A d \in ClientIds \ {c} : /\ client_barriers'[d] = client_barriers[d]
                                     /\ clients'[d] = clients[d]
      BY <2>3 DEF delete_client, TypeOK
    <3>2. /\ \A a \in AccessTokens : tokens'[a] # None =>
                 tokens'[a] = tokens[a] /\ tokens[a].client_id # c
          /\ \A r \in RefreshTokens : refresh'[r] # None =>
                 refresh'[r] = refresh[r] /\ refresh[r].client_id # c
          /\ \A u \in RequestUris : pushed'[u] # None =>
                 pushed'[u] = pushed[u] /\ pushed[u].client_id # c
      <4>1. /\ tokens' = Without(tokens, OfClient(tokens, c))
            /\ refresh' = Without(refresh, OfClient(refresh, c))
            /\ pushed' = Without(pushed, OfClient(pushed, c))
        BY <2>3 DEF delete_client
      <4>2. \A a \in AccessTokens : tokens'[a] # None =>
                tokens'[a] = tokens[a] /\ tokens[a].client_id # c
        BY <4>1, WithoutFacts DEF OfClient, TypeOK
      <4>3. \A r \in RefreshTokens : refresh'[r] # None =>
                refresh'[r] = refresh[r] /\ refresh[r].client_id # c
        BY <4>1, WithoutFacts DEF OfClient, TypeOK
      <4>4. \A u \in RequestUris : pushed'[u] # None =>
                pushed'[u] = pushed[u] /\ pushed[u].client_id # c
        BY <4>1, WithoutFacts DEF OfClient, TypeOK
      <4> QED BY <4>2, <4>3, <4>4
    <3>3. UNCHANGED <<family_barriers, consent_barriers>>
      BY <2>3 DEF delete_client
    <3>4. NoTokenBehindBarrier'
      BY <3>1, <3>2, <3>3 DEF NoRowBehindBarrier, NoTokenBehindBarrier, Refused, is_revoked,
         covers, TypeOK, Option, IssuedToken
    <3>5. NoRefreshBehindBarrier'
      BY <3>1, <3>2, <3>3 DEF NoRowBehindBarrier, NoRefreshBehindBarrier, Refused, is_revoked,
         covers, TypeOK, Option, RefreshTokenRecord
    <3>6. NoPushBehindBarrier'
      BY <3>1, <3>2, <3>3 DEF NoRowBehindBarrier, NoPushBehindBarrier, PushRefused, is_revoked,
         covers, TypeOK, Option, PushedAuthorizationRequest
    <3> QED BY <3>4, <3>5, <3>6 DEF NoRowBehindBarrier
  <2> QED BY <1>1, <2>1, <2>2, <2>3 DEF ClientCalls
<1>2. CASE DeviceCalls(Times)
  BY <1>2, RowsKeptOrDropped DEF DeviceCalls, put_device_grant, take_device_grant,
     compare_and_swap_device_grant
<1>3. CASE CodeCalls(Times)
  BY <1>3, RowsKeptOrDropped DEF CodeCalls, put_authorization_code,
     compare_and_swap_authorization_code, take_authorization_code
<1>4. CASE PushedCalls
  <2>1. ASSUME NEW u \in RequestUris, NEW x \in PushedAuthorizationRequest(Times),
               put_pushed_authorization_request(u, x)
        PROVE NoRowBehindBarrier'
    BY <2>1, ArgumentTypes DEF NoRowBehindBarrier, NoTokenBehindBarrier,
       NoRefreshBehindBarrier, NoPushBehindBarrier, put_pushed_authorization_request, Refused,
       PushRefused, is_revoked, covers, barriers, TypeOK
  <2>2. ASSUME NEW u \in RequestUris, take_pushed_authorization_request(u)
        PROVE NoRowBehindBarrier'
    BY <2>2, RowsKeptOrDropped DEF TypeOK, take_pushed_authorization_request
  <2> QED BY <1>4, <2>1, <2>2 DEF PushedCalls
<1>5. CASE AccessCalls
  <2>1. ASSUME NEW a \in AccessTokens, NEW x \in IssuedToken(Times), put_token(a, x)
        PROVE NoRowBehindBarrier'
    BY <2>1 DEF NoRowBehindBarrier, NoTokenBehindBarrier, NoRefreshBehindBarrier,
       NoPushBehindBarrier, put_token, Refused, PushRefused, is_revoked, covers, barriers, TypeOK
  <2>2. ASSUME NEW a \in AccessTokens, delete_token(a) PROVE NoRowBehindBarrier'
    BY <2>2, RowsKeptOrDropped DEF TypeOK, delete_token
  <2> QED BY <1>5, <2>1, <2>2 DEF AccessCalls
<1>6. CASE RefreshCalls
  <2>1. ASSUME NEW r \in RefreshTokens, NEW x \in PlainRefresh, put_refresh_token(r, x)
        PROVE NoRowBehindBarrier'
    BY <2>1 DEF NoRowBehindBarrier, NoTokenBehindBarrier, NoRefreshBehindBarrier,
       NoPushBehindBarrier, put_refresh_token, Refused, PushRefused, is_revoked, covers,
       barriers, TypeOK
  <2>2. ASSUME NEW r \in RefreshTokens, take_refresh_token(r) PROVE NoRowBehindBarrier'
    BY <2>2, RowsKeptOrDropped DEF TypeOK, take_refresh_token
  <2>3. ASSUME NEW r \in RefreshTokens, NEW x \in PlainRefresh, NEW a \in AccessTokens,
               NEW t \in Times, NEW n \in Option(RefreshTokens \ {r}), RotationCall(r, x, a, n, t)
        PROVE NoRowBehindBarrier'
    <3> DEFINE retry == [access_token |-> a, refresh_token |-> n, until |-> t]
               spent == [x EXCEPT !.state = "Spent", !.retry = retry]
               access == [client_id |-> x.client_id, subject |-> x.subject,
                          family_id |-> x.family_id,
                          grant_established_at |-> x.grant_established_at, expires_at |-> t]
               next == [x EXCEPT !.state = "Active", !.retry = retry]
               SameGrant(y) == /\ y.client_id = x.client_id /\ y.subject = x.subject
                               /\ y.family_id = x.family_id
                               /\ y.grant_established_at = x.grant_established_at
    <3>1. SameGrant(spent) /\ SameGrant(access) /\ SameGrant(next)
      BY DEF PlainRefresh
    <3>2. rotate_refresh_token(r, x, spent, a, access, n, next)
      BY <2>3 DEF RotationCall
    <3> HIDE DEF spent, access, next, retry
    <3>3. CASE ~Rotates(r, x)
      BY <3>2, <3>3, RowsKeptOrDropped DEF rotate_refresh_token
    <3>4. CASE Rotates(r, x)
      <4>1. /\ tokens' = [tokens EXCEPT ![a] = access]
            /\ refresh' = [k \in RefreshTokens |-> IF k = n THEN next
                                                  ELSE IF k = r THEN spent ELSE refresh[k]]
            /\ UNCHANGED <<clients, pushed, client_barriers, family_barriers, consent_barriers>>
        BY <3>2, <3>4 DEF rotate_refresh_token, barriers
      <4>2. ~Refused(x) /\ ~Refused(spent) /\ ~Refused(access) /\ ~Refused(next)
        BY <3>1, <3>4 DEF Rotates, Refused
      <4>3. NoTokenBehindBarrier'
        BY <4>1, <4>2 DEF NoRowBehindBarrier, NoTokenBehindBarrier, Refused, is_revoked, covers,
           TypeOK
      <4>4. NoRefreshBehindBarrier'
        BY <4>1, <4>2 DEF NoRowBehindBarrier, NoRefreshBehindBarrier, Refused, is_revoked,
           covers, TypeOK
      <4>5. NoPushBehindBarrier'
        BY <4>1 DEF NoRowBehindBarrier, NoPushBehindBarrier, PushRefused, is_revoked, covers
      <4> QED BY <4>3, <4>4, <4>5 DEF NoRowBehindBarrier
    <3> QED BY <3>3, <3>4
  <2> QED BY <1>6, <2>1, <2>2, <2>3 DEF RefreshCalls
<1>7. CASE FamilyCalls
  <2>1. ASSUME NEW f \in FamilyIds, NEW w \in Windows, revoke_token_family(f, w)
        PROVE NoRowBehindBarrier'
    <3>1. \A g \in FamilyIds \ {f} : family_barriers'[g] = family_barriers[g]
      BY <2>1 DEF revoke_token_family, TypeOK
    <3>2. /\ \A a \in AccessTokens : tokens'[a] # None =>
                 tokens'[a] = tokens[a] /\ tokens[a].family_id # f
          /\ \A r \in RefreshTokens : refresh'[r] # None =>
                 refresh'[r] = refresh[r] /\ refresh[r].family_id # f
      BY <2>1, WithoutFacts DEF revoke_token_family, OfFamily, TypeOK
    <3>3. UNCHANGED <<clients, pushed, client_barriers, consent_barriers>>
      BY <2>1 DEF revoke_token_family
    <3>4. NoTokenBehindBarrier'
      BY <3>1, <3>2, <3>3 DEF NoRowBehindBarrier, NoTokenBehindBarrier, Refused, is_revoked,
         covers, TypeOK, Option, IssuedToken
    <3>5. NoRefreshBehindBarrier'
      BY <3>1, <3>2, <3>3 DEF NoRowBehindBarrier, NoRefreshBehindBarrier, Refused, is_revoked,
         covers, TypeOK, Option, RefreshTokenRecord
    <3>6. NoPushBehindBarrier'
      BY <3>3 DEF NoRowBehindBarrier, NoPushBehindBarrier, PushRefused, is_revoked, covers
    <3> QED BY <3>4, <3>5, <3>6 DEF NoRowBehindBarrier
  <2> QED BY <1>7, <2>1 DEF FamilyCalls
<1>8. CASE ConsentCalls
  <2>1. ASSUME NEW k \in ConsentIds, NEW x \in ConsentRecord(Times), put_consent(k, x)
        PROVE NoRowBehindBarrier'
    BY <2>1, RowsKeptOrDropped DEF put_consent
  <2>2. ASSUME NEW k \in ConsentIds, NEW x, NEW e, NEW found,
               compare_and_swap_consent(k, found, e, x)
        PROVE NoRowBehindBarrier'
    BY <2>2, RowsKeptOrDropped DEF compare_and_swap_consent
  <2>3. ASSUME NEW k \in ConsentIds, NEW w \in Windows, revoke_consent(k, w)
        PROVE NoRowBehindBarrier'
    <3>1. CASE consents[k] = None
      BY <2>3, <3>1, RowsKeptOrDropped DEF revoke_consent, storeVars
    <3>2. CASE consents[k] # None
      <4> DEFINE c == consents[k].client_id
                 sub == consents[k].subject
      <4>1. c \in ClientIds /\ sub \in Subjects
        BY <3>2 DEF TypeOK, Option, ConsentRecord
      <4>2. \A p \in (ClientIds \X Subjects) \ {<<c, sub>>} :
                consent_barriers'[p] = consent_barriers[p]
        BY <2>3, <3>2 DEF revoke_consent, TypeOK
      <4>3. \A a \in AccessTokens : tokens'[a] # None =>
                tokens'[a] = tokens[a] /\ ~(tokens[a].client_id = c /\ tokens[a].subject = sub)
        <5>1. tokens' = Without(tokens, OfConsent(tokens, c, sub))
          BY <2>3, <3>2 DEF revoke_consent
        <5> QED BY <5>1, WithoutFacts DEF OfConsent, OfClient, TypeOK
      <4>4. \A r \in RefreshTokens : refresh'[r] # None =>
                refresh'[r] = refresh[r] /\ ~(refresh[r].client_id = c /\ refresh[r].subject = sub)
        <5>1. refresh' = Without(refresh, OfConsent(refresh, c, sub))
          BY <2>3, <3>2 DEF revoke_consent
        <5> QED BY <5>1, WithoutFacts DEF OfConsent, OfClient, TypeOK
      <4>5. UNCHANGED <<clients, pushed, client_barriers, family_barriers>>
        BY <2>3, <3>2 DEF revoke_consent
      <4> HIDE DEF c, sub
      <4>6. NoTokenBehindBarrier'
        BY <4>1, <4>2, <4>3, <4>5 DEF NoRowBehindBarrier, NoTokenBehindBarrier, Refused,
           is_revoked, covers, TypeOK, Option, IssuedToken
      <4>7. NoRefreshBehindBarrier'
        BY <4>1, <4>2, <4>4, <4>5 DEF NoRowBehindBarrier, NoRefreshBehindBarrier, Refused,
           is_revoked, covers, TypeOK, Option, RefreshTokenRecord
      <4>8. NoPushBehindBarrier'
        BY <4>5 DEF NoRowBehindBarrier, NoPushBehindBarrier, PushRefused, is_revoked, covers
      <4> QED BY <4>6, <4>7, <4>8 DEF NoRowBehindBarrier
    <3> QED BY <3>1, <3>2
  <2> QED BY <1>8, <2>1, <2>2, <2>3 DEF ConsentCalls
<1>9. CASE ReplayCalls
  BY <1>9, RowsKeptOrDropped DEF ReplayCalls, claim_replay_id
<1>10. CASE SweepCalls
  <2>1. PICK t \in Times : sweep_expired(t)
    BY <1>10 DEF SweepCalls
  <2>2. /\ \A c \in ClientIds : client_barriers'[c] \in {None, client_barriers[c]}
        /\ \A f \in FamilyIds : family_barriers'[f] \in {None, family_barriers[f]}
        /\ \A p \in ClientIds \X Subjects : consent_barriers'[p] \in {None, consent_barriers[p]}
    <3>1. /\ client_barriers' = Without(client_barriers, Reapable(client_barriers, t))
          /\ family_barriers' = Without(family_barriers, Reapable(family_barriers, t))
          /\ consent_barriers' = Without(consent_barriers, Reapable(consent_barriers, t))
      BY <2>1 DEF sweep_expired
    <3>2. \A c \in ClientIds : client_barriers'[c] \in {None, client_barriers[c]}
      BY <3>1, WithoutFacts DEF TypeOK
    <3>3. \A f \in FamilyIds : family_barriers'[f] \in {None, family_barriers[f]}
      BY <3>1, WithoutFacts DEF TypeOK
    <3>4. \A p \in ClientIds \X Subjects : consent_barriers'[p] \in {None, consent_barriers[p]}
      BY <3>1, WithoutFacts DEF TypeOK
    <3> QED BY <3>2, <3>3, <3>4
  <2>3. /\ \A a \in AccessTokens : tokens'[a] \in {None, tokens[a]}
        /\ \A r \in RefreshTokens : refresh'[r] \in {None, refresh[r]}
        /\ \A u \in RequestUris : pushed'[u] \in {None, pushed[u]}
    <3>1. /\ tokens' = Without(tokens, ExpiredKeys(tokens, t))
          /\ refresh' = Without(refresh, ExpiredKeys(refresh, t))
          /\ pushed' = Without(pushed, ExpiredKeys(pushed, t))
      BY <2>1 DEF sweep_expired
    <3>2. \A a \in AccessTokens : tokens'[a] \in {None, tokens[a]}
      BY <3>1, WithoutFacts DEF TypeOK
    <3>3. \A r \in RefreshTokens : refresh'[r] \in {None, refresh[r]}
      BY <3>1, WithoutFacts DEF TypeOK
    <3>4. \A u \in RequestUris : pushed'[u] \in {None, pushed[u]}
      BY <3>1, WithoutFacts DEF TypeOK
    <3> QED BY <3>2, <3>3, <3>4
  <2>4. UNCHANGED clients
    BY <2>1 DEF sweep_expired
  <2>5. NoTokenBehindBarrier'
    BY <2>2, <2>3, <2>4 DEF NoRowBehindBarrier, NoTokenBehindBarrier, Refused, is_revoked,
       covers, TypeOK, Option, IssuedToken
  <2>6. NoRefreshBehindBarrier'
    BY <2>2, <2>3, <2>4 DEF NoRowBehindBarrier, NoRefreshBehindBarrier, Refused, is_revoked,
       covers, TypeOK, Option, RefreshTokenRecord
  <2>7. NoPushBehindBarrier'
    BY <2>2, <2>3, <2>4 DEF NoRowBehindBarrier, NoPushBehindBarrier, PushRefused, is_revoked,
       covers, TypeOK, Option, PushedAuthorizationRequest
  <2> QED BY <2>5, <2>6, <2>7 DEF NoRowBehindBarrier
<1>11. CASE UNCHANGED storeVars
  BY <1>11, RowsKeptOrDropped DEF storeVars
<1> QED BY <1>1, <1>2, <1>3, <1>4, <1>5, <1>6, <1>7, <1>8, <1>9, <1>10, <1>11 DEF Next

\* The resurrection predicate holds for any number of clients, subjects, families and tokens and
\* any instants: no interleaving of calls leaves a token, a refresh record or a pushed request in
\* the store that a standing barrier refuses.
THEOREM NothingBehindABarrier == Spec => []NoRowBehindBarrier
<1>1. StoreInit => TypeOK
  BY EmptyFacts DEF StoreInit, TypeOK
<1>2. StoreInit => NoRowBehindBarrier
  BY EmptyFacts DEF StoreInit, NoRowBehindBarrier, NoTokenBehindBarrier, NoRefreshBehindBarrier,
     NoPushBehindBarrier
<1> QED BY <1>1, <1>2, TypeStep, BarrierStep, PTL DEF Spec

-----------------------------------------------------------------------------
(***************************************************************************)
(* The user-code index                                                      *)
(***************************************************************************)
\* A cascade or a sweep that drops device grants, and then the index entries that led to them,
\* keeps index and grants in step.
LEMMA CascadeKeepsIndex ==
    ASSUME TypeOK, UserCodeIndexSound, NEW doomed,
           device_by_code' = Without(device_by_code, doomed),
           user_code_index' = Without(user_code_index, StaleIndex(device_by_code'))
    PROVE  UserCodeIndexSound'
<1>1. \A d \in DeviceCodes :
          device_by_code'[d] = IF d \in doomed THEN None ELSE device_by_code[d]
  BY WithoutFacts DEF TypeOK
<1>2. \A u \in UserCodes :
          user_code_index'[u] = IF u \in StaleIndex(device_by_code') THEN None
                                ELSE user_code_index[u]
  BY WithoutFacts DEF TypeOK
<1>3. ASSUME NEW u \in UserCodes, user_code_index'[u] # None
      PROVE  /\ device_by_code'[user_code_index'[u]] # None
             /\ device_by_code'[user_code_index'[u]].user_code = u
  BY <1>1, <1>2, <1>3 DEF UserCodeIndexSound, StaleIndex, TypeOK, Option
<1>4. ASSUME NEW d \in DeviceCodes, device_by_code'[d] # None
      PROVE  user_code_index'[device_by_code'[d].user_code] = d
  <2>1. /\ device_by_code'[d] = device_by_code[d]
        /\ device_by_code[d].user_code \in UserCodes
        /\ user_code_index[device_by_code[d].user_code] = d
    BY <1>1, <1>4 DEF UserCodeIndexSound, TypeOK, Option, DeviceGrant
  <2>2. device_by_code[d].user_code \notin StaleIndex(device_by_code')
    BY <1>4, <2>1 DEF StaleIndex
  <2> QED BY <1>2, <2>1, <2>2
<1> QED BY <1>3, <1>4 DEF UserCodeIndexSound

\* Writing a grant whose user code is free, or its own already, keeps index and grants in step,
\* the retired entry of a changed user code included.
LEMMA InsertKeepsIndex ==
    ASSUME TypeOK, UserCodeIndexSound, NEW d \in DeviceCodes, NEW g \in DeviceGrant(Nat),
           ~UserCodeTaken(d, g), IndexAndInsert(d, g), g # None
    PROVE  UserCodeIndexSound'
<1> DEFINE previous == device_by_code[d]
           retired == IF previous # None /\ previous.user_code # g.user_code
                      THEN {previous.user_code} ELSE {}
<1>0. g.user_code \in UserCodes /\ d # None
  BY NoneAssumption DEF DeviceGrant
<1>1. \A e \in DeviceCodes : device_by_code'[e] = IF e = d THEN g ELSE device_by_code[e]
  BY DEF IndexAndInsert, TypeOK
<1>2. \A u \in UserCodes :
          user_code_index'[u] = IF u = g.user_code THEN d
                                ELSE IF u \in retired THEN None ELSE user_code_index[u]
  <2>1. user_code_index' = [Without(user_code_index, retired) EXCEPT ![g.user_code] = d]
    BY DEF IndexAndInsert
  <2> HIDE DEF retired
  <2> QED BY <2>1, WithoutFacts DEF TypeOK
<1>3. user_code_index[g.user_code] \in {None, d}
  BY DEF UserCodeTaken
<1>4. ASSUME NEW u \in UserCodes, user_code_index'[u] # None
      PROVE  /\ device_by_code'[user_code_index'[u]] # None
             /\ device_by_code'[user_code_index'[u]].user_code = u
  <2>1. CASE u = g.user_code
    BY <1>1, <1>2, <2>1
  <2>2. CASE u # g.user_code
    <3>1. user_code_index'[u] = user_code_index[u] /\ u \notin retired
      BY <1>2, <1>4, <2>2
    <3>2. user_code_index[u] \in DeviceCodes
      BY <1>4, <3>1 DEF TypeOK, Option
    <3>3. user_code_index[u] # d
      BY <1>4, <2>2, <3>1 DEF UserCodeIndexSound
    <3> QED BY <1>1, <1>4, <3>1, <3>2, <3>3 DEF UserCodeIndexSound
  <2> QED BY <2>1, <2>2
<1>5. ASSUME NEW e \in DeviceCodes, device_by_code'[e] # None
      PROVE  user_code_index'[device_by_code'[e].user_code] = e
  <2>1. CASE e = d
    BY <1>0, <1>1, <1>2, <2>1
  <2>2. CASE e # d
    <3>1. /\ device_by_code'[e] = device_by_code[e]
          /\ device_by_code[e].user_code \in UserCodes
          /\ user_code_index[device_by_code[e].user_code] = e
      BY <1>1, <1>5, <2>2 DEF UserCodeIndexSound, TypeOK, Option, DeviceGrant
    <3>2. e # None
      BY NoneAssumption
    <3>3. device_by_code[e].user_code # g.user_code
      BY <1>3, <2>2, <3>1, <3>2
    <3>4. device_by_code[e].user_code \notin retired
      BY <2>2, <3>1 DEF UserCodeIndexSound
    <3> QED BY <1>2, <3>1, <3>3, <3>4
  <2> QED BY <2>1, <2>2
<1> QED BY <1>4, <1>5 DEF UserCodeIndexSound

\* Every call of the store keeps the user-code index and the device grants in step.
LEMMA IndexStep ==
    TypeOK /\ UserCodeIndexSound /\ [Next]_storeVars => UserCodeIndexSound'
<1> SUFFICES ASSUME TypeOK, UserCodeIndexSound, [Next]_storeVars PROVE UserCodeIndexSound'
  OBVIOUS
<1>1. CASE UNCHANGED deviceMaps
  BY <1>1 DEF deviceMaps, UserCodeIndexSound
<1>2. CASE ClientCalls
  <2>1. CASE UNCHANGED deviceMaps
    BY <2>1, <1>1
  <2>2. ASSUME NEW c \in ClientIds, NEW w \in Windows, delete_client(c, w)
        PROVE UserCodeIndexSound'
    BY <2>2, CascadeKeepsIndex DEF delete_client
  <2> QED BY <1>2, <2>1, <2>2 DEF ClientCalls, put_client, compare_and_swap_client
<1>3. CASE DeviceCalls(Times)
  <2>1. ASSUME NEW d \in DeviceCodes, NEW g \in DeviceGrant(Times), put_device_grant(d, g)
        PROVE UserCodeIndexSound'
    BY <2>1, <1>1, InsertKeepsIndex, ArgumentTypes, GrantAssumption DEF put_device_grant
  <2>2. ASSUME NEW d \in DeviceCodes, take_device_grant(d) PROVE UserCodeIndexSound'
    <3>1. CASE device_by_code[d] = None
      BY <2>2, <3>1, <1>1 DEF take_device_grant, TypeOK, deviceMaps
    <3>2. CASE device_by_code[d] # None
      <4>1. device_by_code[d].user_code \in UserCodes
        BY <3>2 DEF TypeOK, Option, DeviceGrant
      <4>2. /\ \A e \in DeviceCodes :
                   device_by_code'[e] = IF e = d THEN None ELSE device_by_code[e]
            /\ \A u \in UserCodes :
                   user_code_index'[u] = IF u = device_by_code[d].user_code THEN None
                                         ELSE user_code_index[u]
        BY <2>2, <3>2 DEF take_device_grant, TypeOK
      <4> QED BY <3>2, <4>1, <4>2 DEF UserCodeIndexSound, TypeOK, Option, DeviceGrant
    <3> QED BY <3>1, <3>2
  <2>3. ASSUME NEW d \in DeviceCodes, NEW st \in DeviceGrantState, NEW g \in DeviceGrant(Times),
               compare_and_swap_device_grant(d, st, g)
        PROVE UserCodeIndexSound'
    BY <2>3, <1>1, InsertKeepsIndex, ArgumentTypes, GrantAssumption
       DEF compare_and_swap_device_grant
  <2> QED BY <1>3, <2>1, <2>2, <2>3 DEF DeviceCalls
<1>4. CASE CodeCalls(Times)
  BY <1>1, <1>4 DEF CodeCalls, put_authorization_code, compare_and_swap_authorization_code,
     take_authorization_code
<1>5. CASE PushedCalls
  BY <1>1, <1>5 DEF PushedCalls, put_pushed_authorization_request,
     take_pushed_authorization_request
<1>6. CASE AccessCalls
  BY <1>1, <1>6 DEF AccessCalls, put_token, delete_token
<1>7. CASE RefreshCalls
  BY <1>1, <1>7, RefreshCallsFrame DEF deviceMaps
<1>8. CASE FamilyCalls
  BY <1>1, <1>8 DEF FamilyCalls, revoke_token_family
<1>9. CASE ConsentCalls
  <2>1. ASSUME NEW k \in ConsentIds, NEW w \in Windows, revoke_consent(k, w)
        PROVE UserCodeIndexSound'
    <3>1. CASE consents[k] = None
      BY <2>1, <3>1, <1>1 DEF revoke_consent, storeVars
    <3>2. CASE consents[k] # None
      BY <2>1, <3>2, CascadeKeepsIndex DEF revoke_consent
    <3> QED BY <3>1, <3>2
  <2> QED BY <1>1, <1>9, <2>1 DEF ConsentCalls, put_consent, compare_and_swap_consent
<1>10. CASE ReplayCalls
  BY <1>1, <1>10 DEF ReplayCalls, claim_replay_id
<1>11. CASE SweepCalls
  BY <1>11, CascadeKeepsIndex DEF SweepCalls, sweep_expired
<1>12. CASE UNCHANGED storeVars
  BY <1>1, <1>12 DEF storeVars
<1> QED BY <1>2, <1>3, <1>4, <1>5, <1>6, <1>7, <1>8, <1>9, <1>10, <1>11, <1>12 DEF Next

\* For any device codes and user codes, however grants are rewritten, taken, cascaded away or
\* swept, a user code leads to exactly the grant that shows it.
THEOREM IndexFollowsGrants == Spec => []UserCodeIndexSound
<1>1. StoreInit => TypeOK
  BY EmptyFacts DEF StoreInit, TypeOK
<1>2. StoreInit => UserCodeIndexSound
  BY EmptyFacts DEF StoreInit, UserCodeIndexSound
<1> QED BY <1>1, <1>2, TypeStep, IndexStep, PTL DEF Spec

-----------------------------------------------------------------------------
(***************************************************************************)
(* Barriers only strengthen                                                 *)
(***************************************************************************)
\* A slot that keeps its value has not weakened.
LEMMA KeptSlot ==
    ASSUME NEW slot \in Option(RevocationWindow(Nat)), NEW reaped
    PROVE  SlotOnlyStrengthens(slot, slot, reaped)
BY NoneAssumption DEF SlotOnlyStrengthens, Option, RevocationWindow

\* Merging a window into one slot of a map weakens no slot of it.
LEMMA MergedSlots ==
    ASSUME NEW K, NEW slots \in [K -> Option(RevocationWindow(Nat))], NEW k \in K,
           NEW w \in RevocationWindow(Nat), NEW j \in K, NEW reaped
    PROVE  SlotOnlyStrengthens(slots[j], [slots EXCEPT ![k] = merge_into(slots[k], w)][j], reaped)
<1>1. CASE j = k
  BY <1>1, MergeFacts DEF SlotOnlyStrengthens
<1>2. CASE j # k
  BY <1>2, KeptSlot
<1> QED BY <1>1, <1>2

\* A sweep at t removes exactly the slots that are at their deadline at t.
LEMMA SweptSlots ==
    ASSUME NEW K, NEW slots \in [K -> Option(RevocationWindow(Nat))], NEW t \in Times,
           sweep_expired(t), NEW j \in K
    PROVE  SlotOnlyStrengthens(slots[j], Without(slots, Reapable(slots, t))[j], Reaps(slots[j]))
<1>1. CASE j \in Reapable(slots, t)
  <2>1. Reaps(slots[j])
    BY <1>1 DEF Reapable, Reaps
  <2> QED BY <1>1, <2>1, WithoutFacts DEF SlotOnlyStrengthens
<1>2. CASE j \notin Reapable(slots, t)
  BY <1>2, WithoutFacts, KeptSlot
<1> QED BY <1>1, <1>2

\* No call of the store weakens a barrier.
LEMMA StrengthenStep == TypeOK /\ Next => SlotsOnlyStrengthen
<1> SUFFICES ASSUME TypeOK, Next PROVE SlotsOnlyStrengthen
  OBVIOUS
<1>0. /\ client_barriers \in [ClientIds -> Option(RevocationWindow(Nat))]
      /\ family_barriers \in [FamilyIds -> Option(RevocationWindow(Nat))]
      /\ consent_barriers \in [ClientIds \X Subjects -> Option(RevocationWindow(Nat))]
  BY DEF TypeOK
<1>1. CASE UNCHANGED barriers
  BY <1>0, <1>1, KeptSlot DEF barriers, SlotsOnlyStrengthen
<1>2. ASSUME NEW c \in ClientIds, NEW w \in Windows, delete_client(c, w)
      PROVE SlotsOnlyStrengthen
  BY <1>0, <1>2, KeptSlot, MergedSlots, ArgumentTypes DEF delete_client, SlotsOnlyStrengthen
<1>3. ASSUME NEW f \in FamilyIds, NEW w \in Windows, revoke_token_family(f, w)
      PROVE SlotsOnlyStrengthen
  BY <1>0, <1>3, KeptSlot, MergedSlots, ArgumentTypes
     DEF revoke_token_family, SlotsOnlyStrengthen
<1>4. ASSUME NEW k \in ConsentIds, NEW w \in Windows, revoke_consent(k, w)
      PROVE SlotsOnlyStrengthen
  <2>1. CASE consents[k] = None
    BY <1>1, <1>4, <2>1 DEF revoke_consent, storeVars
  <2>2. CASE consents[k] # None
    <3>1. <<consents[k].client_id, consents[k].subject>> \in ClientIds \X Subjects
      BY <2>2 DEF TypeOK, Option, ConsentRecord
    <3> DEFINE pair == <<consents[k].client_id, consents[k].subject>>
    <3>2. /\ consent_barriers' =
                 [consent_barriers EXCEPT ![pair] = merge_into(consent_barriers[pair], w)]
          /\ UNCHANGED <<client_barriers, family_barriers>>
      BY <1>4, <2>2 DEF revoke_consent
    <3> HIDE DEF pair
    <3>3. ASSUME NEW p \in ClientIds \X Subjects
          PROVE  SlotOnlyStrengthens(consent_barriers[p], consent_barriers'[p],
                                     Reaps(consent_barriers[p]))
      <4>1. pair \in ClientIds \X Subjects /\ w \in RevocationWindow(Nat)
        BY <3>1, ArgumentTypes DEF pair
      <4> QED BY <1>0, <3>2, <4>1, MergedSlots
    <3> QED BY <1>0, <3>2, <3>3, KeptSlot DEF SlotsOnlyStrengthen
  <2> QED BY <2>1, <2>2
<1>5. ASSUME NEW t \in Times, sweep_expired(t) PROVE SlotsOnlyStrengthen
  <2>1. /\ client_barriers' = Without(client_barriers, Reapable(client_barriers, t))
        /\ family_barriers' = Without(family_barriers, Reapable(family_barriers, t))
        /\ consent_barriers' = Without(consent_barriers, Reapable(consent_barriers, t))
    BY <1>5 DEF sweep_expired
  <2> QED BY <1>0, <1>5, <2>1, SweptSlots DEF SlotsOnlyStrengthen
<1>6. CASE ClientCalls
  BY <1>1, <1>2, <1>6 DEF ClientCalls, put_client, compare_and_swap_client
<1>7. CASE DeviceCalls(Times)
  BY <1>1, <1>7 DEF DeviceCalls, put_device_grant, take_device_grant,
     compare_and_swap_device_grant
<1>8. CASE CodeCalls(Times)
  BY <1>1, <1>8 DEF CodeCalls, put_authorization_code, compare_and_swap_authorization_code,
     take_authorization_code
<1>9. CASE PushedCalls \/ AccessCalls
  BY <1>1, <1>9 DEF PushedCalls, put_pushed_authorization_request,
     take_pushed_authorization_request, AccessCalls, put_token, delete_token
<1>10. CASE RefreshCalls
  BY <1>1, <1>10, RefreshCallsFrame DEF barriers
<1>11. CASE FamilyCalls
  BY <1>3, <1>11 DEF FamilyCalls
<1>12. CASE ConsentCalls
  BY <1>1, <1>4, <1>12 DEF ConsentCalls, put_consent, compare_and_swap_consent
<1>13. CASE ReplayCalls
  BY <1>1, <1>13 DEF ReplayCalls, claim_replay_id
<1>14. CASE SweepCalls
  BY <1>5, <1>14 DEF SweepCalls
<1> QED BY <1>6, <1>7, <1>8, <1>9, <1>10, <1>11, <1>12, <1>13, <1>14 DEF Next

\* For any scopes and instants, a revocation repeated, raced or dated out of order leaves the
\* barrier at least as strong as it was, and nothing but a sweep past its deadline lifts it.
THEOREM BarriersStrengthen == Spec => BarriersOnlyStrengthen
<1>1. TypeOK /\ [Next]_storeVars => [SlotsOnlyStrengthen]_storeVars
  BY StrengthenStep
<1> QED BY <1>1, TypeCorrect, PTL DEF Spec, BarriersOnlyStrengthen

-----------------------------------------------------------------------------
(***************************************************************************)
(* The statements a transaction has left, as a set: a program is written in *)
(* the order of these ranks.                                                *)
(***************************************************************************)
\* Locks come first, then what is read under them, then what is written, then the commit.
Rank(s) ==
    IF s[1] \in {"claim", "exclusive", "shared"} THEN 1
    ELSE IF s[1] \in {"check", "select"} THEN 2
    ELSE IF s[1] = "commit" THEN 4 ELSE 3

\* The statements of a program; they come in the order of their ranks.
Listed(p) == {p[i] : i \in DOMAIN p}
Ranked(p) == \A i, j \in DOMAIN p : i < j => Rank(p[i]) <= Rank(p[j])
Program(p) == (\E S : p \in Seq(S)) /\ Ranked(p)

\* Ranks are numbers.
LEMMA RankTyped == \A s : Rank(s) \in Nat
  BY DEF Rank

\* Running the first statement of a program leaves a program of the others, and no statement is
\* of lower rank than the first one.
LEMMA HeadFirst ==
    ASSUME NEW p, Program(p), p # <<>>
    PROVE  /\ Program(Tail(p)) /\ Head(p) \in Listed(p)
           /\ Listed(p) \subseteq Listed(Tail(p)) \cup {Head(p)}
           /\ Listed(Tail(p)) \subseteq Listed(p)
           /\ \A s \in Listed(p) : Rank(Head(p)) <= Rank(s)
<1>1. PICK S : p \in Seq(S)
  BY DEF Program
<1>2. /\ Head(p) = p[1] /\ Tail(p) \in Seq(S) /\ DOMAIN p = 1..Len(p)
      /\ Len(p) \in Nat /\ Len(p) >= 1 /\ Len(Tail(p)) = Len(p) - 1
      /\ DOMAIN Tail(p) = 1..(Len(p) - 1)
      /\ \A i \in 1..(Len(p) - 1) : Tail(p)[i] = p[i + 1]
  BY <1>1
<1>3. \A i \in DOMAIN p : i = 1 \/ (i - 1 \in DOMAIN Tail(p) /\ Tail(p)[i - 1] = p[i])
  BY <1>2
<1>4. \A i \in DOMAIN Tail(p) : i + 1 \in DOMAIN p /\ Tail(p)[i] = p[i + 1]
  BY <1>2
<1>5. Ranked(Tail(p))
  <2> SUFFICES ASSUME NEW i \in DOMAIN Tail(p), NEW j \in DOMAIN Tail(p), i < j
               PROVE  Rank(Tail(p)[i]) <= Rank(Tail(p)[j])
    BY DEF Ranked
  <2>1. i + 1 < j + 1 /\ i + 1 \in DOMAIN p /\ j + 1 \in DOMAIN p
    BY <1>2, <1>4
  <2>2. Rank(p[i + 1]) <= Rank(p[j + 1])
    BY <2>1 DEF Program, Ranked
  <2> QED BY <1>4, <2>2
<1>6. \A s \in Listed(p) : Rank(Head(p)) <= Rank(s)
  <2> SUFFICES ASSUME NEW i \in DOMAIN p PROVE Rank(p[1]) <= Rank(p[i])
    BY <1>2 DEF Listed
  <2>1. CASE i = 1
    BY <2>1, RankTyped
  <2>2. CASE i # 1
    <3>1. 1 \in DOMAIN p /\ 1 < i
      BY <1>2, <2>2
    <3> QED BY <3>1 DEF Program, Ranked
  <2> QED BY <2>1, <2>2
<1>7. Head(p) \in Listed(p)
  BY <1>2 DEF Listed
<1>8. Listed(p) \subseteq Listed(Tail(p)) \cup {Head(p)}
  <2> SUFFICES ASSUME NEW i \in DOMAIN p PROVE p[i] \in Listed(Tail(p)) \cup {Head(p)}
    BY DEF Listed
  <2> QED BY <1>2, <1>3 DEF Listed
<1>9. Listed(Tail(p)) \subseteq Listed(p)
  <2> SUFFICES ASSUME NEW i \in DOMAIN Tail(p) PROVE Tail(p)[i] \in Listed(p)
    BY DEF Listed
  <2> QED BY <1>4 DEF Listed
<1> QED BY <1>2, <1>5, <1>6, <1>7, <1>8, <1>9 DEF Program

\* The statements of two sequences, one after the other.
LEMMA Joined ==
    ASSUME NEW S, NEW p \in Seq(S), NEW q \in Seq(S)
    PROVE  p \o q \in Seq(S) /\ Listed(p \o q) = Listed(p) \cup Listed(q)
<1> DEFINE n == Len(p)
           m == Len(q)
           r == p \o q
<1>1. /\ r \in Seq(S) /\ n \in Nat /\ m \in Nat
      /\ DOMAIN p = 1..n /\ DOMAIN q = 1..m /\ DOMAIN r = 1..(n + m)
      /\ \A i \in 1..(n + m) : r[i] = IF i <= n THEN p[i] ELSE q[i - n]
  OBVIOUS
<1> HIDE DEF r, n, m
<1>2. \A i \in DOMAIN r : \/ i \in DOMAIN p /\ r[i] = p[i]
                          \/ i - n \in DOMAIN q /\ r[i] = q[i - n]
  BY <1>1
<1>3. ASSUME NEW i \in DOMAIN p PROVE p[i] \in Listed(r)
  <2>1. i \in DOMAIN r /\ r[i] = p[i]
    BY <1>1
  <2> QED BY <2>1 DEF Listed
<1>4. ASSUME NEW i \in DOMAIN q PROVE q[i] \in Listed(r)
  <2>1. i + n \in 1..(n + m) /\ ~(i + n <= n) /\ (i + n) - n = i
    BY <1>1
  <2>2. i + n \in DOMAIN r /\ r[i + n] = q[i]
    BY <1>1, <2>1
  <2> QED BY <2>2 DEF Listed
<1> QED BY <1>1, <1>2, <1>3, <1>4 DEF Listed, r

\* Two programs make one when none of the second is of lower rank than one of the first.
LEMMA Concatenated ==
    ASSUME NEW p, NEW q, Program(p), Program(q),
           \A s \in Listed(p), r \in Listed(q) : Rank(s) <= Rank(r)
    PROVE  Program(p \o q) /\ Listed(p \o q) = Listed(p) \cup Listed(q)
<1>1. PICK S : p \in Seq(S)
  BY DEF Program
<1>2. PICK T : q \in Seq(T)
  BY DEF Program
<1> DEFINE U == S \cup T
           n == Len(p)
           m == Len(q)
           r == p \o q
<1>3. p \in Seq(U) /\ q \in Seq(U)
  BY <1>1, <1>2
<1> HIDE DEF U
<1>4. /\ r \in Seq(U) /\ n \in Nat /\ m \in Nat /\ Len(r) = n + m
      /\ DOMAIN p = 1..n /\ DOMAIN q = 1..m /\ DOMAIN r = 1..(n + m)
      /\ \A i \in 1..(n + m) : r[i] = IF i <= n THEN p[i] ELSE q[i - n]
  BY <1>3
<1> HIDE DEF r, n, m
<1>5. \A i \in DOMAIN r : \/ i \in DOMAIN p /\ i <= n /\ r[i] = p[i]
                          \/ i - n \in DOMAIN q /\ i > n /\ r[i] = q[i - n]
  BY <1>4
<1>6. Listed(r) = Listed(p) \cup Listed(q)
  <2>1. Listed(r) \subseteq Listed(p) \cup Listed(q)
    BY <1>5 DEF Listed
  <2>2. ASSUME NEW i \in DOMAIN p PROVE p[i] \in Listed(r)
    <3>1. i \in DOMAIN r /\ r[i] = p[i]
      BY <1>4
    <3> QED BY <3>1 DEF Listed
  <2>3. ASSUME NEW i \in DOMAIN q PROVE q[i] \in Listed(r)
    <3>1. i + n \in DOMAIN r /\ r[i + n] = q[i]
      <4>1. i + n \in 1..(n + m) /\ ~(i + n <= n) /\ (i + n) - n = i
        BY <1>4
      <4> QED BY <1>4, <4>1
    <3> QED BY <3>1 DEF Listed
  <2> QED BY <2>1, <2>2, <2>3 DEF Listed
<1>7. Ranked(r)
  <2> SUFFICES ASSUME NEW i \in DOMAIN r, NEW j \in DOMAIN r, i < j
               PROVE  Rank(r[i]) <= Rank(r[j])
    BY DEF Ranked
  <2>0. i \in Int /\ j \in Int /\ n \in Int
    BY <1>4
  <2>1. CASE j <= n
    <3>1. i \in DOMAIN p /\ j \in DOMAIN p /\ r[i] = p[i] /\ r[j] = p[j]
      BY <1>5, <2>0, <2>1
    <3> QED BY <3>1 DEF Program, Ranked
  <2>2. CASE i > n
    <3>1. i - n \in DOMAIN q /\ j - n \in DOMAIN q /\ r[i] = q[i - n] /\ r[j] = q[j - n]
      BY <1>5, <2>0, <2>2
    <3>2. i - n < j - n
      BY <2>0
    <3> QED BY <3>1, <3>2 DEF Program, Ranked
  <2>3. CASE i <= n /\ j > n
    <3>1. i \in DOMAIN p /\ j - n \in DOMAIN q /\ r[i] = p[i] /\ r[j] = q[j - n]
      BY <1>5, <2>0, <2>3
    <3> QED BY <3>1 DEF Listed
  <2> QED BY <2>0, <2>1, <2>2, <2>3
<1>8. Program(r)
  BY <1>4, <1>7 DEF Program
<1> QED BY <1>6, <1>8 DEF r

-----------------------------------------------------------------------------
(***************************************************************************)
(* The invariant                                                            *)
(***************************************************************************)
\* The statements that a transaction has left.
Pending(r) == Listed(r.left)

\* The fields of a transaction (PostgresStore, Closed), and what holds of every one: a snapshot is
\* held only by the statement that took it.
Fields == {"op", "args", "left", "advisory", "rows", "gone", "snapshot"}

Shape(r) ==
    /\ r = [f \in Fields |-> r[f]]
    /\ Program(r.left)
    /\ r.snapshot # None => r.left # <<>> /\ Head(r.left)[1] \in {"delete", "select"}

\* The kinds of statement that are left.
Verbs(r, V) == \A s \in Pending(r) : s[1] \in V

\* The statement is still to come, or what it is for has been achieved.
Will(r, statement, achieved) == statement \in Pending(r) \/ achieved

\* The keys that a guarded write shares.
ScopeKeys(r) ==
    LET rec == r.args[2] IN
    {ClientKey(rec.client_id)}
    \cup (IF r.op = "put_pushed" THEN {}
          ELSE {FamilyKey(f) : f \in {rec.family_id} \ {None}}
               \cup {ConsentKey(rec.client_id, s) : s \in {rec.subject} \ {None}})

\* The rows that it writes.
TargetRows(r) ==
    CASE r.op = "put_token" -> {<<"tokens", r.args[1]>>}
      [] r.op = "put_refresh_token" -> {<<"refresh", r.args[1]>>}
      [] r.op = "put_pushed" -> {<<"pushed", r.args[1]>>}
      [] r.op = "rotate" -> {<<"refresh", r.args[1]>>, <<"tokens", r.args[3]>>}
                            \cup {<<"refresh", n>> : n \in {r.args[4]} \ {None}}

\* The arguments of a guarded write.
WriteTyped(r) ==
    \/ r.op = "put_token" /\ r.args \in AccessTokens \X IssuedToken(Nat)
    \/ r.op = "put_refresh_token" /\ r.args \in RefreshTokens \X RefreshTokenRecord(Nat)
    \/ r.op = "put_pushed" /\ r.args \in RequestUris \X PushedAuthorizationRequest(Nat)
    \/ /\ r.op = "rotate"
       /\ r.args \in RefreshTokens \X RefreshTokenRecord(Nat) \X AccessTokens
                        \X Option(RefreshTokens) \X Nat

\* It holds the shared lock of every scope a barrier may name it by.
Shares(r) == \A key \in ScopeKeys(r) : <<"shared", key>> \in r.advisory

\* A guarded write: the scopes are locked, no barrier covers the record once that has been
\* checked, and a rotation's record is the one compared.
WritesSafely(r) ==
    /\ WriteTyped(r)
    /\ Verbs(r, {"shared", "check", "lock", "compare", "commit"})
    /\ \A s \in Pending(r) : s[1] = "compare" =>
           r.op = "rotate" /\ s = <<"compare", <<"refresh", r.args[1]>> >>
    /\ \A key \in ScopeKeys(r) :
           Will(r, <<"shared", key>>, <<"shared", key>> \in r.advisory)
    /\ \A row \in TargetRows(r) :
           Will(r, <<"lock", row>>, Will(r, <<"compare", row>>, row \in r.rows))

\* The record a rotation replaces is, from the comparison on, the one it was given.
Compared(r) ==
    r.op = "rotate" =>
        LET row == <<"refresh", r.args[1]>>
        IN  Will(r, <<"compare", row>>, row \in r.rows /\ refresh[r.args[1]] = r.args[2])

\* A transaction that is a guarded write or a rotation.
Writing(t) ==
    /\ WritesSafely(txn[t])
    /\ Will(txn[t], <<"check">>, ~barrier_covers(t) /\ Shares(txn[t]))
    /\ Compared(txn[t])

\* A withdrawal that has not yet found its consent.
Unclaimed(r) ==
    /\ r.op = "revoke_consent"
    /\ r.args \in ConsentIds \X RevocationWindow(Nat)
    /\ r.left = << <<"claim", <<"consents", r.args[1]>> >> >>

\* The key that a revocation takes for itself, and its arguments.
RevocationKey(r) ==
    CASE r.op = "delete_client" -> ClientKey(r.args[1])
      [] r.op = "revoke_family" -> FamilyKey(r.args[1])
      [] r.op = "revoke_consent" -> ConsentKey(r.args[3], r.args[4])

RevocationTyped(r) ==
    /\ r.args[2] \in RevocationWindow(Nat)
    /\ \/ r.op = "delete_client" /\ r.args[1] \in ClientIds
       \/ r.op = "revoke_family" /\ r.args[1] \in FamilyIds
       \/ r.op = "revoke_consent" /\ r.args[3] \in ClientIds /\ r.args[4] \in Subjects

\* It holds that key.
Excludes(r) == <<"exclusive", RevocationKey(r)>> \in r.advisory

\* The records that the revocation names.
InScope(r, rec) ==
    \/ r.op = "delete_client" /\ rec.client_id = r.args[1]
    \/ r.op = "revoke_family" /\ rec.family_id = r.args[1]
    \/ r.op = "revoke_consent" /\ rec.client_id = r.args[3] /\ rec.subject = r.args[4]

\* The keys of a table under which there is such a record.
NamedBy(r, map) == {k \in DOMAIN map : map[k] # None /\ InScope(r, map[k])}

\* The cascade over one table: once it has run, no record that it names is missing from it.
Cascades(r, table, map) ==
    /\ Will(r, <<"delete", table>>,
            Excludes(r) /\ \A k \in NamedBy(r, map) : <<table, k>> \in r.gone)
    /\ \A k : <<table, k>> \in r.gone => k \in NamedBy(r, map)
    /\ (r.snapshot # None /\ Head(r.left) = <<"delete", table>>) =>
           Excludes(r) /\ \A k \in NamedBy(r, map) : <<table, k>> \in r.snapshot

\* A revocation takes its key before all else, and deletes only rows that it has locked.
RevokesSafely(r) ==
    /\ RevocationTyped(r)
    /\ Verbs(r, {"exclusive", "lock", "delete", "commit"})
    /\ \A s \in Pending(r) : s[1] = "delete" =>
           s = <<"delete", s[2]>> /\ (s[2] = "clients" => r.op = "delete_client")
    /\ Will(r, <<"exclusive", RevocationKey(r)>>, Excludes(r))
    /\ r.gone \subseteq r.rows
    /\ \A row \in r.gone :
           /\ row = <<row[1], row[2]>>
           /\ row[1] = "clients" => r.op = "delete_client" /\ row[2] = r.args[1]

\* A transaction that is a revocation whose scope is known.
Revoking(t) ==
    /\ RevokesSafely(txn[t])
    /\ Cascades(txn[t], "tokens", tokens)
    /\ Cascades(txn[t], "refresh", refresh)
    /\ txn[t].op = "delete_client" => Cascades(txn[t], "pushed", pushed)

\* The arguments of compare_and_swap_consent, and the key that orders two of them.
SwapTyped(r) ==
    /\ r.op = "swap_consent"
    /\ r.args \in ConsentIds \X Option(ConsentRecord(Nat)) \X ConsentRecord(Nat)
    /\ r.args[3].consent_id = r.args[1]
    /\ r.args[2] # None => r.args[2].consent_id = r.args[1]

SwapKey(r) == ConsentSwapKey(r.args[3].client_id, r.args[3].subject)
\* It holds that key.
OwnsPair(r) == <<"exclusive", SwapKey(r)>> \in r.advisory

\* The consents of the pair.
Pair(r, map) == OfConsent(map, r.args[3].client_id, r.args[3].subject)

\* A consent is written with the key of its pair and its row locked.
SwapsSafely(r) ==
    /\ SwapTyped(r)
    /\ Verbs(r, {"exclusive", "select", "lock", "commit"})
    /\ Will(r, <<"exclusive", SwapKey(r)>>, OwnsPair(r))
    /\ Will(r, <<"lock", <<"consents", r.args[1]>> >>, <<"consents", r.args[1]>> \in r.rows)

\* The pair holds what the writer expects.
Settled(r, map) ==
    IF r.args[2] = None THEN Pair(r, map) = {}
    ELSE /\ r.args[1] \in Pair(r, map) /\ map[r.args[1]] = r.args[2]
         /\ <<"consents", r.args[1]>> \in r.rows

\* The one row that the SELECT is waiting for, if there is one.
Selecting(r, map) ==
    r.snapshot # None =>
        /\ OwnsPair(r)
        /\ r.snapshot \subseteq {"consents"} \X ConsentIds
        /\ \A x, y \in r.snapshot : x = y
        /\ \A k \in Pair(r, map) : <<"consents", k>> \in r.snapshot

\* A transaction that is compare_and_swap_consent.
Swapping(t) ==
    /\ SwapsSafely(txn[t])
    /\ Will(txn[t], <<"select">>, OwnsPair(txn[t]) /\ Settled(txn[t], consents))
    /\ Selecting(txn[t], consents)

\* Whatever a transaction is, what it has established still holds.
Sound(t) ==
    /\ Shape(txn[t])
    /\ txn[t] = Closed \/ Writing(t) \/ Unclaimed(txn[t]) \/ Revoking(t) \/ Swapping(t)

\* An exclusive advisory lock is held by one transaction and shared by none, and a row is locked
\* by one.
LocksExclude ==
    \A t, u \in Txns : t # u =>
        /\ txn[t].rows \cap txn[u].rows = {}
        /\ \A key : Holds(t, "exclusive", key) =>
               ~Holds(u, "exclusive", key) /\ ~Holds(u, "shared", key)

\* A consent is stored under its own consent_id.
ConsentsKeyed == \A k \in ConsentIds : consents[k] # None => consents[k].consent_id = k

\* The inductive invariant: locks exclude, and each transaction may rely on what it has read.
Serial ==
    /\ TypeOK
    /\ workload \in Workloads
    /\ txn = [t \in Txns |-> txn[t]]
    /\ \A t \in Txns : Sound(t)
    /\ LocksExclude
    /\ ConsentsKeyed /\ OneConsentPerPair
    /\ NoRowBehindBarrier

-----------------------------------------------------------------------------
(***************************************************************************)
(* One statement of a transaction                                           *)
(***************************************************************************)
\* The transaction once its next statement has run.
After(r, advisory, rows, gone) ==
    [op |-> r.op, args |-> r.args, left |-> Tail(r.left), advisory |-> r.advisory \cup advisory,
     rows |-> r.rows \cup rows, gone |-> r.gone \cup gone, snapshot |-> None]

\* Running a statement leaves a well-formed transaction with that statement no longer pending.
LEMMA Advance ==
    ASSUME NEW r, Shape(r), r.left # <<>>, NEW A, NEW R, NEW G
    PROVE  /\ Shape(After(r, A, R, G))
           /\ Pending(After(r, A, R, G)) \subseteq Pending(r)
           /\ \A s \in Pending(r) : s = Head(r.left) \/ s \in Pending(After(r, A, R, G))
           /\ \A s \in Pending(r) : Rank(Head(r.left)) <= Rank(s)
           /\ Head(r.left) \in Pending(r)
<1> DEFINE q == After(r, A, R, G)
<1>1. q.left = Tail(r.left) /\ q.snapshot = None
  BY DEF After
<1>2. /\ Program(Tail(r.left)) /\ Head(r.left) \in Listed(r.left)
      /\ Listed(r.left) \subseteq Listed(Tail(r.left)) \cup {Head(r.left)}
      /\ Listed(Tail(r.left)) \subseteq Listed(r.left)
      /\ \A s \in Listed(r.left) : Rank(Head(r.left)) <= Rank(s)
  BY HeadFirst DEF Shape
<1>3. Shape(q)
  <2>1. q = [f \in Fields |-> q[f]]
    BY DEF After, Fields
  <2> HIDE DEF q
  <2> QED BY <1>1, <1>2, <2>1 DEF Shape
<1> HIDE DEF q
<1>4. Pending(q) = Listed(Tail(r.left)) /\ Pending(r) = Listed(r.left)
  BY <1>1 DEF Pending
<1> QED BY <1>2, <1>3, <1>4 DEF q

\* The transaction after `Proceed`; the others are as they were.
LEMMA Proceeds ==
    ASSUME NEW t \in Txns, txn = [u \in Txns |-> txn[u]], Shape(txn[t]), NEW R, NEW G,
           Proceed(t, R, G)
    PROVE  /\ txn' = [u \in Txns |-> txn'[u]]
           /\ \A u \in Txns : u # t => txn'[u] = txn[u]
           /\ txn'[t] = After(txn[t], {}, R, G)
<1>1. PICK r : r = txn[t]
  OBVIOUS
<1>2. Shape(r)
  BY <1>1
<1>3. txn' = [txn EXCEPT ![t] = [r EXCEPT !.left = Tail(r.left), !.rows = r.rows \cup R,
                                          !.gone = r.gone \cup G, !.snapshot = None]]
  BY <1>1 DEF Proceed
<1>4. ASSUME NEW q, q = [r EXCEPT !.left = Tail(r.left), !.rows = r.rows \cup R,
                                  !.gone = r.gone \cup G, !.snapshot = None]
      PROVE  q = After(r, {}, R, G)
  BY <1>2, <1>4 DEF Shape, Fields, After
<1> QED BY <1>1, <1>3, <1>4

\* The transaction after an advisory lock.
LEMMA Locks ==
    ASSUME NEW t \in Txns, txn = [u \in Txns |-> txn[u]], Shape(txn[t]), AdvisoryLock(t)
    PROVE  /\ txn' = [u \in Txns |-> txn'[u]]
           /\ \A u \in Txns : u # t => txn'[u] = txn[u]
           /\ txn[t].left # <<>> /\ Head(txn[t].left)[1] \in {"shared", "exclusive"}
           /\ txn'[t] = After(txn[t], {Head(txn[t].left)}, {}, {})
<1>1. PICK r : r = txn[t]
  OBVIOUS
<1>2. Shape(r) /\ r.left # <<>> /\ Head(r.left)[1] \in {"shared", "exclusive"}
  BY <1>1 DEF AdvisoryLock, Runs, Verb, Open
<1>3. txn' = [txn EXCEPT ![t] = [r EXCEPT !.left = Tail(r.left),
                                          !.advisory = r.advisory \cup {Head(r.left)}]]
  BY <1>1 DEF AdvisoryLock
<1>4. r.snapshot = None
  BY <1>2 DEF Shape
<1>5. ASSUME NEW q, q = [r EXCEPT !.left = Tail(r.left),
                                  !.advisory = r.advisory \cup {Head(r.left)}]
      PROVE  q = After(r, {Head(r.left)}, {}, {})
  BY <1>2, <1>4, <1>5 DEF Shape, Fields, After
<1> QED BY <1>1, <1>2, <1>3, <1>5, RankTyped

\* The transaction after it has ended.
LEMMA Closes ==
    ASSUME NEW t \in Txns, txn = [u \in Txns |-> txn[u]], Close(t)
    PROVE  /\ txn' = [u \in Txns |-> txn'[u]]
           /\ \A u \in Txns : u # t => txn'[u] = txn[u]
           /\ txn'[t] = Closed
<1>1. txn' = [txn EXCEPT ![t] = Closed]
  BY DEF Close
<1> HIDE DEF Closed
<1> QED BY <1>1

\* A connection without a transaction is well formed.
LEMMA ClosedShape == Shape(Closed)
<1>1. Closed.left = <<>> /\ Closed.snapshot = None
  BY DEF Closed
<1>2. Program(<<>>)
  <2>1. <<>> \in Seq({}) /\ DOMAIN <<>> = {}
    OBVIOUS
  <2> QED BY <2>1 DEF Program, Ranked
<1>3. Closed = [f \in Fields |-> Closed[f]]
  BY DEF Closed, Fields
<1> QED BY <1>1, <1>2, <1>3 DEF Shape

-----------------------------------------------------------------------------
(***************************************************************************)
(* What a statement leaves of each kind of transaction                      *)
(***************************************************************************)
\* The fields of a transaction once its next statement has run.
LEMMA AfterFields ==
    ASSUME NEW r, NEW A, NEW R, NEW G
    PROVE  /\ After(r, A, R, G).op = r.op /\ After(r, A, R, G).args = r.args
           /\ After(r, A, R, G).advisory = r.advisory \cup A
           /\ After(r, A, R, G).rows = r.rows \cup R
           /\ After(r, A, R, G).gone = r.gone \cup G
           /\ After(r, A, R, G).snapshot = None
           /\ After(r, A, R, G).left = Tail(r.left)
BY DEF After

\* A guarded write stays safe when its statement takes the lock that it asks for.
LEMMA WriteAdvances ==
    ASSUME NEW r, Shape(r), r.left # <<>>, WritesSafely(r), NEW A, NEW R, NEW G,
           Head(r.left)[1] = "shared" => Head(r.left) \in A,
           Head(r.left)[1] \in {"lock", "compare"} => Head(r.left)[2] \in R
    PROVE  WritesSafely(After(r, A, R, G))
<1>1. PICK q : q = After(r, A, R, G)
  OBVIOUS
<1>2. /\ Pending(q) \subseteq Pending(r)
      /\ \A s \in Pending(r) : s = Head(r.left) \/ s \in Pending(q)
  BY <1>1, Advance
<1>3. q.op = r.op /\ q.args = r.args /\ q.advisory = r.advisory \cup A /\ q.rows = r.rows \cup R
  BY <1>1, AfterFields
<1>4. WriteTyped(q) /\ ScopeKeys(q) = ScopeKeys(r) /\ TargetRows(q) = TargetRows(r)
  BY <1>3 DEF WritesSafely, WriteTyped, ScopeKeys, TargetRows
<1>5. Verbs(q, {"shared", "check", "lock", "compare", "commit"})
  BY <1>2 DEF WritesSafely, Verbs
<1>6. \A s \in Pending(q) : s[1] = "compare" =>
          q.op = "rotate" /\ s = <<"compare", <<"refresh", q.args[1]>> >>
  BY <1>2, <1>3 DEF WritesSafely
<1>7. \A key \in ScopeKeys(q) : Will(q, <<"shared", key>>, <<"shared", key>> \in q.advisory)
  <2> SUFFICES ASSUME NEW key \in ScopeKeys(r)
               PROVE  Will(q, <<"shared", key>>, <<"shared", key>> \in q.advisory)
    BY <1>4
  <2>1. CASE <<"shared", key>> = Head(r.left)
    BY <2>1, <1>3 DEF Will
  <2>2. CASE <<"shared", key>> # Head(r.left)
    BY <2>2, <1>2, <1>3 DEF Will, WritesSafely
  <2> QED BY <2>1, <2>2
<1>8. \A row \in TargetRows(q) :
          Will(q, <<"lock", row>>, Will(q, <<"compare", row>>, row \in q.rows))
  <2> SUFFICES ASSUME NEW row \in TargetRows(r)
               PROVE  Will(q, <<"lock", row>>, Will(q, <<"compare", row>>, row \in q.rows))
    BY <1>4
  <2>1. CASE <<"lock", row>> = Head(r.left) \/ <<"compare", row>> = Head(r.left)
    BY <2>1, <1>3 DEF Will
  <2>2. CASE <<"lock", row>> # Head(r.left) /\ <<"compare", row>> # Head(r.left)
    BY <2>2, <1>2, <1>3 DEF Will, WritesSafely
  <2> QED BY <2>1, <2>2
<1> QED BY <1>1, <1>4, <1>5, <1>6, <1>7, <1>8 DEF WritesSafely

\* A revocation stays safe when its statement takes its key and deletes rows it locks.
LEMMA RevokeAdvances ==
    ASSUME NEW r, Shape(r), r.left # <<>>, RevokesSafely(r), NEW A, NEW R, NEW G,
           Head(r.left)[1] = "exclusive" => Head(r.left) \in A,
           G \subseteq R,
           \A row \in G :
               /\ row = <<row[1], row[2]>>
               /\ row[1] = "clients" => r.op = "delete_client" /\ row[2] = r.args[1]
    PROVE  RevokesSafely(After(r, A, R, G))
<1>1. PICK q : q = After(r, A, R, G)
  OBVIOUS
<1>2. /\ Pending(q) \subseteq Pending(r)
      /\ \A s \in Pending(r) : s = Head(r.left) \/ s \in Pending(q)
  BY <1>1, Advance
<1>3. /\ q.op = r.op /\ q.args = r.args /\ q.advisory = r.advisory \cup A
      /\ q.rows = r.rows \cup R /\ q.gone = r.gone \cup G
  BY <1>1, AfterFields
<1>4. RevocationTyped(q) /\ RevocationKey(q) = RevocationKey(r)
  BY <1>3 DEF RevokesSafely, RevocationTyped, RevocationKey
<1>5. Verbs(q, {"exclusive", "lock", "delete", "commit"})
  BY <1>2 DEF RevokesSafely, Verbs
<1>6. \A s \in Pending(q) : s[1] = "delete" =>
          s = <<"delete", s[2]>> /\ (s[2] = "clients" => q.op = "delete_client")
  BY <1>2, <1>3 DEF RevokesSafely
<1>7. Will(q, <<"exclusive", RevocationKey(q)>>, Excludes(q))
  <2> DEFINE s == <<"exclusive", RevocationKey(r)>>
  <2>1. s[1] = "exclusive"
    OBVIOUS
  <2>2. s \in Pending(r) \/ s \in r.advisory
    BY DEF RevokesSafely, Will, Excludes
  <2> HIDE DEF s
  <2>3. s \in Pending(q) \/ s \in q.advisory
    BY <2>1, <2>2, <1>2, <1>3
  <2> QED BY <2>3, <1>4 DEF Will, Excludes, s
<1>8. q.gone \subseteq q.rows
  BY <1>3 DEF RevokesSafely
<1>9. \A row \in q.gone :
          /\ row = <<row[1], row[2]>>
          /\ row[1] = "clients" => q.op = "delete_client" /\ row[2] = q.args[1]
  <2> SUFFICES ASSUME NEW row \in q.gone
               PROVE  /\ row = <<row[1], row[2]>>
                      /\ row[1] = "clients" => q.op = "delete_client" /\ row[2] = q.args[1]
    OBVIOUS
  <2>1. CASE row \in G
    BY <2>1, <1>3
  <2>2. CASE row \in r.gone
    BY <2>2, <1>3 DEF RevokesSafely
  <2> QED BY <2>1, <2>2, <1>3
<1> QED BY <1>1, <1>4, <1>5, <1>6, <1>7, <1>8, <1>9 DEF RevokesSafely

\* A revocation that is past its first statement holds its key.
LEMMA ExcludesByThen ==
    ASSUME NEW r, Shape(r), r.left # <<>>, RevokesSafely(r), Head(r.left)[1] # "exclusive"
    PROVE  Excludes(r)
<1> DEFINE s == <<"exclusive", RevocationKey(r)>>
<1>1. s[1] = "exclusive" /\ Rank(s) = 1
  BY DEF Rank
<1>2. s \in Pending(r) \/ Excludes(r)
  BY DEF RevokesSafely, Will
<1>3. Head(r.left) \in Pending(r) /\ \A x \in Pending(r) : Rank(Head(r.left)) <= Rank(x)
  BY Advance
<1>4. Head(r.left)[1] \in {"lock", "delete", "commit"}
  BY <1>3 DEF RevokesSafely, Verbs
<1>5. Rank(Head(r.left)) >= 3
  BY <1>4 DEF Rank
<1> HIDE DEF s
<1> QED BY <1>1, <1>2, <1>3, <1>5, RankTyped

\* A cascade stays complete when its own statement deletes every row it names, and no other
\* statement deletes a row of that table.
LEMMA CascadeAdvances ==
    ASSUME NEW r, Shape(r), r.left # <<>>, RevokesSafely(r), NEW A, NEW R, NEW G,
           NEW table, NEW map, Cascades(r, table, map),
           Head(r.left) = <<"delete", table>> => \A k \in NamedBy(r, map) : <<table, k>> \in G,
           \A k : <<table, k>> \in G => k \in NamedBy(r, map)
    PROVE  Cascades(After(r, A, R, G), table, map)
<1>1. PICK q : q = After(r, A, R, G)
  OBVIOUS
<1>2. \A s \in Pending(r) : s = Head(r.left) \/ s \in Pending(q)
  BY <1>1, Advance
<1>3. /\ q.op = r.op /\ q.args = r.args /\ q.advisory = r.advisory \cup A
      /\ q.gone = r.gone \cup G /\ q.snapshot = None
  BY <1>1, AfterFields
<1>4. NamedBy(q, map) = NamedBy(r, map) /\ RevocationKey(q) = RevocationKey(r)
  BY <1>3 DEF NamedBy, InScope, RevocationKey
<1>5. Excludes(r) => Excludes(q)
  BY <1>3, <1>4 DEF Excludes
<1>6. Will(q, <<"delete", table>>,
           Excludes(q) /\ \A k \in NamedBy(q, map) : <<table, k>> \in q.gone)
  <2>1. CASE Head(r.left) = <<"delete", table>>
    <3>1. Excludes(r)
      BY <2>1, ExcludesByThen
    <3> QED BY <2>1, <3>1, <1>3, <1>4, <1>5 DEF Will
  <2>2. CASE Head(r.left) # <<"delete", table>>
    BY <2>2, <1>2, <1>3, <1>4, <1>5 DEF Will, Cascades
  <2> QED BY <2>1, <2>2
<1>7. \A k : <<table, k>> \in q.gone => k \in NamedBy(q, map)
  BY <1>3, <1>4 DEF Cascades
<1> QED BY <1>1, <1>3, <1>6, <1>7 DEF Cascades

\* A consent write stays safe when its statement takes the lock that it asks for.
LEMMA SwapAdvances ==
    ASSUME NEW r, Shape(r), r.left # <<>>, SwapsSafely(r), NEW A, NEW R, NEW G,
           Head(r.left)[1] = "exclusive" => Head(r.left) \in A,
           Head(r.left)[1] = "lock" => Head(r.left)[2] \in R
    PROVE  SwapsSafely(After(r, A, R, G))
<1>1. PICK q : q = After(r, A, R, G)
  OBVIOUS
<1>2. /\ Pending(q) \subseteq Pending(r)
      /\ \A s \in Pending(r) : s = Head(r.left) \/ s \in Pending(q)
  BY <1>1, Advance
<1>3. q.op = r.op /\ q.args = r.args /\ q.advisory = r.advisory \cup A /\ q.rows = r.rows \cup R
  BY <1>1, AfterFields
<1>4. SwapTyped(q) /\ SwapKey(q) = SwapKey(r)
  BY <1>3 DEF SwapsSafely, SwapTyped, SwapKey
<1>5. Verbs(q, {"exclusive", "select", "lock", "commit"})
  BY <1>2 DEF SwapsSafely, Verbs
<1>6. Will(q, <<"exclusive", SwapKey(q)>>, OwnsPair(q))
  <2> DEFINE s == <<"exclusive", SwapKey(r)>>
  <2>1. s[1] = "exclusive"
    OBVIOUS
  <2>2. s \in Pending(r) \/ s \in r.advisory
    BY DEF SwapsSafely, Will, OwnsPair
  <2> HIDE DEF s
  <2>3. s \in Pending(q) \/ s \in q.advisory
    BY <2>1, <2>2, <1>2, <1>3
  <2> QED BY <2>3, <1>4 DEF Will, OwnsPair, s
<1>7. Will(q, <<"lock", <<"consents", q.args[1]>> >>, <<"consents", q.args[1]>> \in q.rows)
  <2> DEFINE row == <<"consents", r.args[1]>>
             s == <<"lock", row>>
  <2>1. s[1] = "lock" /\ s[2] = row
    OBVIOUS
  <2>2. s \in Pending(r) \/ row \in r.rows
    BY DEF SwapsSafely, Will
  <2> HIDE DEF s, row
  <2>3. s \in Pending(q) \/ row \in q.rows
    BY <2>1, <2>2, <1>2, <1>3
  <2> QED BY <2>3, <1>3 DEF Will, s, row
<1> QED BY <1>1, <1>4, <1>5, <1>6, <1>7 DEF SwapsSafely

\* A consent write that is past its first statement holds the key of its pair.
LEMMA OwnsByThen ==
    ASSUME NEW r, Shape(r), r.left # <<>>, SwapsSafely(r), Head(r.left)[1] # "exclusive"
    PROVE  OwnsPair(r)
<1> DEFINE s == <<"exclusive", SwapKey(r)>>
<1>1. s[1] = "exclusive" /\ Rank(s) = 1
  BY DEF Rank
<1>2. s \in Pending(r) \/ OwnsPair(r)
  BY DEF SwapsSafely, Will
<1>3. Head(r.left) \in Pending(r) /\ \A x \in Pending(r) : Rank(Head(r.left)) <= Rank(x)
  BY Advance
<1>4. Head(r.left)[1] \in {"select", "lock", "commit"}
  BY <1>3 DEF SwapsSafely, Verbs
<1>5. Rank(Head(r.left)) >= 2
  BY <1>4 DEF Rank
<1> HIDE DEF s
<1> QED BY <1>1, <1>2, <1>3, <1>5, RankTyped

-----------------------------------------------------------------------------
(***************************************************************************)
(* The programs                                                             *)
(***************************************************************************)
\* No statement.
LEMMA Nothing ==
    Program(<<>>) /\ Listed(<<>>) = {}
<1>1. <<>> \in Seq({}) /\ DOMAIN <<>> = {}
  OBVIOUS
<1>2. \E S : <<>> \in Seq(S)
  BY <1>1, Zenon
<1>3. Ranked(<<>>)
  BY <1>1, RankTyped DEF Ranked
<1>4. Listed(<<>>) = {}
  BY <1>1 DEF Listed
<1> QED BY <1>2, <1>3, <1>4 DEF Program

\* One statement.
LEMMA Single ==
    ASSUME NEW a
    PROVE  Program(<<a>>) /\ Listed(<<a>>) = {a}
<1>1. <<a>> \in Seq({a}) /\ DOMAIN <<a>> = {1}
  OBVIOUS
<1>2. \E S : <<a>> \in Seq(S)
  BY <1>1, Zenon
<1>3. Ranked(<<a>>)
  BY <1>1, RankTyped DEF Ranked
<1>4. Listed(<<a>>) = {a}
  BY <1>1 DEF Listed
<1> QED BY <1>2, <1>3, <1>4 DEF Program

\* Two statements in the order of their ranks.
LEMMA Couple ==
    ASSUME NEW a, NEW b,
           Rank(a) <= Rank(b)
    PROVE  Program(<<a, b>>) /\ Listed(<<a, b>>) = {a, b}
<1>1. <<a, b>> \in Seq({a, b}) /\ DOMAIN <<a, b>> = {1, 2}
  OBVIOUS
<1>2. \E S : <<a, b>> \in Seq(S)
  BY <1>1, Zenon
<1>3. Ranked(<<a, b>>)
  BY <1>1, RankTyped DEF Ranked
<1>4. Listed(<<a, b>>) = {a, b}
  BY <1>1 DEF Listed
<1> QED BY <1>2, <1>3, <1>4 DEF Program

\* Three statements in the order of their ranks.
LEMMA Triple ==
    ASSUME NEW a, NEW b, NEW c,
           Rank(a) <= Rank(b), Rank(b) <= Rank(c)
    PROVE  Program(<<a, b, c>>) /\ Listed(<<a, b, c>>) = {a, b, c}
<1>1. <<a, b, c>> \in Seq({a, b, c}) /\ DOMAIN <<a, b, c>> = {1, 2, 3}
  OBVIOUS
<1>2. \E S : <<a, b, c>> \in Seq(S)
  BY <1>1, Zenon
<1>3. Ranked(<<a, b, c>>)
  BY <1>1, RankTyped DEF Ranked
<1>4. Listed(<<a, b, c>>) = {a, b, c}
  BY <1>1 DEF Listed
<1> QED BY <1>2, <1>3, <1>4 DEF Program

\* Four statements in the order of their ranks.
LEMMA Quadruple ==
    ASSUME NEW a, NEW b, NEW c, NEW d,
           Rank(a) <= Rank(b), Rank(b) <= Rank(c),
           Rank(c) <= Rank(d)
    PROVE  Program(<<a, b, c, d>>) /\ Listed(<<a, b, c, d>>) = {a, b, c, d}
<1>1. <<a, b, c, d>> \in Seq({a, b, c, d}) /\ DOMAIN <<a, b, c, d>> = {1, 2, 3, 4}
  OBVIOUS
<1>2. \E S : <<a, b, c, d>> \in Seq(S)
  BY <1>1, Zenon
<1>3. Ranked(<<a, b, c, d>>)
  BY <1>1, RankTyped DEF Ranked
<1>4. Listed(<<a, b, c, d>>) = {a, b, c, d}
  BY <1>1 DEF Listed
<1> QED BY <1>2, <1>3, <1>4 DEF Program

\* One statement for each member of a list.
LEMMA Each ==
    ASSUME NEW verb, NEW S, NEW list \in Seq(S), NEW p,
           p = [i \in DOMAIN list |-> <<verb, list[i]>>]
    PROVE  Program(p) /\ Listed(p) = {<<verb, x>> : x \in Listed(list)}
<1>1. p \in Seq({<<verb, x>> : x \in S})
  <2>1. DOMAIN list = 1..Len(list) /\ Len(list) \in Nat /\ \A i \in DOMAIN list : list[i] \in S
    OBVIOUS
  <2> QED BY <2>1, IsASeq
<1>2. Ranked(p)
  <2>1. \A x, y : Rank(<<verb, x>>) = Rank(<<verb, y>>)
    BY DEF Rank
  <2> QED BY <2>1, RankTyped DEF Ranked
<1>3. Listed(p) = {<<verb, x>> : x \in Listed(list)}
  BY DEF Listed
<1> QED BY <1>1, <1>2, <1>3 DEF Program

\* lock_barrier_scopes takes a shared lock on the client, and on the family and the pair if the
\* record has them.
LEMMA ScopeLocks ==
    ASSUME NEW c, NEW f, NEW s
    PROVE  /\ Program(lock_barrier_scopes(c, f, s))
           /\ Listed(lock_barrier_scopes(c, f, s)) =
                  {<<"shared", ClientKey(c)>>}
                  \cup {<<"shared", FamilyKey(g)>> : g \in {f} \ {None}}
                  \cup {<<"shared", ConsentKey(c, v)>> : v \in {s} \ {None}}
<1> DEFINE a == ClientKey(c)
           b == FamilyKey(f)
           d == ConsentKey(c, s)
           keys == barrier_scope_keys(c, f, s)
           T == {a, b, d}
           p == OptionalKey(f, b)
           q == OptionalKey(s, d)
<1> HIDE DEF a, b, d
<1>1. <<a>> \in Seq(T) /\ <<b>> \in Seq(T) /\ <<d>> \in Seq(T) /\ <<>> \in Seq(T)
  OBVIOUS
<1>a. Listed(<<a>>) = {a} /\ Listed(<<b>>) = {b} /\ Listed(<<d>>) = {d}
  BY Single, Zenon
<1>b. p \in Seq(T) /\ Listed(p) = {b} \ (IF f = None THEN {b} ELSE {})
  <2>1. CASE f = None
    BY <2>1, <1>1, Nothing DEF OptionalKey
  <2>2. CASE f # None
    <3>1. p = <<b>> /\ {b} \ (IF f = None THEN {b} ELSE {}) = {b}
      BY <2>2 DEF OptionalKey
    <3> HIDE DEF p
    <3> QED BY <3>1, <1>1, <1>a
  <2> QED BY <2>1, <2>2
<1>c. q \in Seq(T) /\ Listed(q) = {d} \ (IF s = None THEN {d} ELSE {})
  <2>1. CASE s = None
    BY <2>1, <1>1, Nothing DEF OptionalKey
  <2>2. CASE s # None
    <3>1. q = <<d>> /\ {d} \ (IF s = None THEN {d} ELSE {}) = {d}
      BY <2>2 DEF OptionalKey
    <3> HIDE DEF q
    <3> QED BY <3>1, <1>1, <1>a
  <2> QED BY <2>1, <2>2
<1> HIDE DEF p, q, T
<1>2. <<a>> \o p \in Seq(T) /\ Listed(<<a>> \o p) = {a} \cup Listed(p)
  <2>1. <<a>> \o p \in Seq(T) /\ Listed(<<a>> \o p) = Listed(<<a>>) \cup Listed(p)
    BY <1>1, <1>b, Joined, Zenon
  <2> QED BY <1>a, <2>1
<1>3. keys = (<<a>> \o p) \o q
  BY DEF barrier_scope_keys, a, b, d, p, q
<1>4. keys \in Seq(T) /\ Listed(keys) = {a} \cup Listed(p) \cup Listed(q)
  <2> HIDE DEF keys
  <2> DEFINE r == <<a>> \o p
  <2>1. r \in Seq(T)
    BY <1>2
  <2> HIDE DEF r
  <2>2. r \o q \in Seq(T) /\ Listed(r \o q) = Listed(r) \cup Listed(q)
    BY <1>c, <2>1, Joined, Zenon
  <2>3. keys = r \o q
    BY <1>3 DEF r
  <2> QED BY <1>2, <2>2, <2>3 DEF r
<1>5. lock_barrier_scopes(c, f, s) = [i \in DOMAIN keys |-> <<"shared", keys[i]>>]
  BY DEF lock_barrier_scopes
<1> HIDE DEF keys
<1>6. /\ Program(lock_barrier_scopes(c, f, s))
      /\ Listed(lock_barrier_scopes(c, f, s)) = {<<"shared", x>> : x \in Listed(keys)}
  BY <1>4, <1>5, Each, Zenon
<1>7. /\ {b} \ (IF f = None THEN {b} ELSE {}) = {FamilyKey(g) : g \in {f} \ {None}}
      /\ {d} \ (IF s = None THEN {d} ELSE {}) = {ConsentKey(c, v) : v \in {s} \ {None}}
  BY DEF b, d
<1>8. Listed(keys) = {ClientKey(c)} \cup {FamilyKey(g) : g \in {f} \ {None}}
                       \cup {ConsentKey(c, v) : v \in {s} \ {None}}
  BY <1>b, <1>c, <1>4, <1>7 DEF a
<1> QED BY <1>6, <1>8

\* The statements of a guarded write.
LEMMA GuardedProgram ==
    ASSUME NEW c, NEW f, NEW s, NEW row
    PROVE  /\ Program(GuardedWrite(c, f, s, row))
           /\ Listed(GuardedWrite(c, f, s, row)) =
                  Listed(lock_barrier_scopes(c, f, s))
                  \cup {<<"check">>, <<"lock", row>>, <<"commit">>}
<1> DEFINE p == lock_barrier_scopes(c, f, s)
           q == << <<"check">>, <<"lock", row>>, <<"commit">> >>
<1>1. Program(p) /\ \A x \in Listed(p) : Rank(x) = 1
  BY ScopeLocks DEF Rank
<1>2. /\ Rank(<<"check">>) = 2 /\ Rank(<<"lock", row>>) = 3 /\ Rank(<<"commit">>) = 4
  BY DEF Rank
<1>3. Program(q) /\ Listed(q) = {<<"check">>, <<"lock", row>>, <<"commit">>}
  <2>1. Rank(<<"check">>) <= Rank(<<"lock", row>>) /\ Rank(<<"lock", row>>) <= Rank(<<"commit">>)
    BY <1>2
  <2> QED BY <2>1, Triple, Zenon
<1>4. \A x \in Listed(p), y \in Listed(q) : Rank(x) <= Rank(y)
  BY <1>1, <1>2, <1>3
<1>5. GuardedWrite(c, f, s, row) = p \o q
  BY DEF GuardedWrite
<1> HIDE DEF p, q
<1>6. Program(p \o q) /\ Listed(p \o q) = Listed(p) \cup Listed(q)
  BY <1>1, <1>3, <1>4, Concatenated
<1> QED BY <1>3, <1>5, <1>6 DEF p

\* The statements of rotate_refresh_token.
LEMMA RotationProgram ==
    ASSUME NEW rec, NEW n, NEW a, NEW m
    PROVE  /\ Program(RotateProgram(rec, n, a, m))
           /\ Listed(RotateProgram(rec, n, a, m)) =
                  Listed(lock_barrier_scopes(rec.client_id, rec.family_id, rec.subject))
                  \cup {<<"check">>, <<"compare", <<"refresh", n>> >>,
                        <<"lock", <<"tokens", a>> >>, <<"commit">>}
                  \cup {<<"lock", <<"refresh", k>> >> : k \in {m} \ {None}}
<1> DEFINE p == lock_barrier_scopes(rec.client_id, rec.family_id, rec.subject)
           q == << <<"check">>, <<"compare", <<"refresh", n>> >>, <<"lock", <<"tokens", a>> >> >>
           o == IF m = None THEN <<>> ELSE << <<"lock", <<"refresh", m>> >> >>
           e == << <<"commit">> >>
<1>1. Program(p) /\ \A x \in Listed(p) : Rank(x) = 1
  BY ScopeLocks DEF Rank
<1>2. /\ Rank(<<"check">>) = 2 /\ Rank(<<"compare", <<"refresh", n>> >>) = 3
      /\ Rank(<<"lock", <<"tokens", a>> >>) = 3 /\ Rank(<<"lock", <<"refresh", m>> >>) = 3
      /\ Rank(<<"commit">>) = 4
  BY DEF Rank
<1>3. /\ Program(q)
      /\ Listed(q) = {<<"check">>, <<"compare", <<"refresh", n>> >>, <<"lock", <<"tokens", a>> >>}
  <2>1. /\ Rank(<<"check">>) <= Rank(<<"compare", <<"refresh", n>> >>)
        /\ Rank(<<"compare", <<"refresh", n>> >>) <= Rank(<<"lock", <<"tokens", a>> >>)
    BY <1>2
  <2> QED BY <2>1, Triple, Zenon
<1>4. Program(e) /\ Listed(e) = {<<"commit">>}
  BY Single, Zenon
<1>5. Program(o) /\ Listed(o) = {<<"lock", <<"refresh", k>> >> : k \in {m} \ {None}}
  <2>1. CASE m = None
    <3>1. o = <<>> /\ {<<"lock", <<"refresh", k>> >> : k \in {m} \ {None}} = {}
      BY <2>1
    <3> QED BY <3>1, Nothing
  <2>2. CASE m # None
    <3>1. /\ o = << <<"lock", <<"refresh", m>> >> >>
          /\ {<<"lock", <<"refresh", k>> >> : k \in {m} \ {None}} = {<<"lock", <<"refresh", m>> >>}
      BY <2>2
    <3> HIDE DEF o
    <3> QED BY <3>1, Single, Zenon
  <2> QED BY <2>1, <2>2
<1>6. RotateProgram(rec, n, a, m) = ((p \o q) \o o) \o e
  BY DEF RotateProgram
<1>7. \A x \in Listed(q) : Rank(x) \in {2, 3}
  BY <1>2, <1>3
<1>8. \A x \in Listed(o) : Rank(x) = 3
  BY <1>2, <1>5
<1>9. \A x \in Listed(e) : Rank(x) = 4
  BY <1>2, <1>4
<1> HIDE DEF p, q, o, e
<1>10. Program(p \o q) /\ Listed(p \o q) = Listed(p) \cup Listed(q)
  BY <1>1, <1>3, <1>7, Concatenated
<1>11. Program((p \o q) \o o) /\ Listed((p \o q) \o o) = Listed(p) \cup Listed(q) \cup Listed(o)
  BY <1>1, <1>5, <1>7, <1>8, <1>10, Concatenated
<1>12. /\ Program(((p \o q) \o o) \o e)
       /\ Listed(((p \o q) \o o) \o e) = Listed(p) \cup Listed(q) \cup Listed(o) \cup Listed(e)
  BY <1>1, <1>4, <1>7, <1>8, <1>9, <1>11, Concatenated
<1>13. Listed(((p \o q) \o o) \o e)
          = Listed(p) \cup {<<"check">>, <<"compare", <<"refresh", n>> >>,
                            <<"lock", <<"tokens", a>> >>, <<"commit">>}
            \cup {<<"lock", <<"refresh", k>> >> : k \in {m} \ {None}}
  BY <1>3, <1>4, <1>5, <1>12
<1> QED BY <1>6, <1>12, <1>13 DEF p

\* The exclusive lock of a revocation, its barrier, and its cascade over a list of tables.
LEMMA CascadeProgram ==
    ASSUME NEW key, NEW row, NEW S, NEW tables \in Seq(S), NEW program,
           program = << <<"exclusive", key>>, <<"lock", row>> >> \o Deletes(tables)
                     \o << <<"commit">> >>
    PROVE  /\ Program(program)
           /\ Listed(program) = {<<"exclusive", key>>, <<"lock", row>>, <<"commit">>}
                                \cup {<<"delete", x>> : x \in Listed(tables)}
<1> DEFINE p == << <<"exclusive", key>>, <<"lock", row>> >>
           q == Deletes(tables)
           e == << <<"commit">> >>
<1>1. /\ Rank(<<"exclusive", key>>) = 1 /\ Rank(<<"lock", row>>) = 3 /\ Rank(<<"commit">>) = 4
      /\ \A x : Rank(<<"delete", x>>) = 3
  BY DEF Rank
<1>2. Program(p) /\ Listed(p) = {<<"exclusive", key>>, <<"lock", row>>}
  <2>1. Rank(<<"exclusive", key>>) <= Rank(<<"lock", row>>)
    BY <1>1
  <2> QED BY <2>1, Couple, Zenon
<1>3. Program(q) /\ Listed(q) = {<<"delete", x>> : x \in Listed(tables)}
  BY Each, Zenon DEF Deletes
<1>4. Program(e) /\ Listed(e) = {<<"commit">>}
  BY Single, Zenon
<1>5. /\ \A x \in Listed(p) : Rank(x) \in {1, 3}
      /\ \A x \in Listed(q) : Rank(x) = 3
      /\ \A x \in Listed(e) : Rank(x) = 4
  BY <1>1, <1>2, <1>3, <1>4
<1> HIDE DEF p, q, e
<1>6. Program(p \o q) /\ Listed(p \o q) = Listed(p) \cup Listed(q)
  <2>1. \A x \in Listed(p), y \in Listed(q) : Rank(x) <= Rank(y)
    BY <1>5
  <2> QED BY <1>2, <1>3, <2>1, Concatenated, Zenon
<1>7. /\ Program((p \o q) \o e)
      /\ Listed((p \o q) \o e) = Listed(p) \cup Listed(q) \cup Listed(e)
  BY <1>4, <1>5, <1>6, Concatenated
<1>8. program = (p \o q) \o e
  BY DEF p, q, e
<1> QED BY <1>2, <1>3, <1>4, <1>7, <1>8

\* The statements of delete_client, revoke_token_family, and of a withdrawal once it has claimed
\* its consent.
LEMMA RevocationPrograms ==
    ASSUME NEW c, NEW f, NEW s
    PROVE  /\ Program(DeleteClientProgram(c))
           /\ Listed(DeleteClientProgram(c)) =
                  {<<"exclusive", ClientKey(c)>>, <<"lock", <<"client_barriers", c>> >>,
                   <<"commit">>}
                  \cup {<<"delete", x>> : x \in {"consents", "tokens", "refresh", "codes",
                                                 "devices", "pushed", "clients"}}
           /\ Program(RevokeFamilyProgram(f))
           /\ Listed(RevokeFamilyProgram(f)) =
                  {<<"exclusive", FamilyKey(f)>>, <<"lock", <<"family_barriers", f>> >>,
                   <<"commit">>}
                  \cup {<<"delete", x>> : x \in {"tokens", "refresh"}}
           /\ Program(WithdrawalProgram(c, s))
           /\ Listed(WithdrawalProgram(c, s)) =
                  {<<"exclusive", ConsentKey(c, s)>>,
                   <<"lock", <<"consent_barriers", <<c, s>> >> >>, <<"commit">>}
                  \cup {<<"delete", x>> : x \in {"tokens", "refresh", "codes", "devices"}}
<1> DEFINE A == <<"consents", "tokens", "refresh", "codes", "devices", "pushed", "clients">>
           B == <<"tokens", "refresh">>
           C == <<"tokens", "refresh", "codes", "devices">>
           S == {"consents", "tokens", "refresh", "codes", "devices", "pushed", "clients"}
<1>1. A \in Seq(S) /\ B \in Seq(S) /\ C \in Seq(S)
  OBVIOUS
<1>2. Listed(A) = {"consents", "tokens", "refresh", "codes", "devices", "pushed", "clients"}
  <2>1. DOMAIN A = {1, 2, 3, 4, 5, 6, 7}
    OBVIOUS
  <2> QED BY <2>1 DEF Listed
<1>3. Listed(B) = {"tokens", "refresh"} /\ Listed(C) = {"tokens", "refresh", "codes", "devices"}
  <2>1. DOMAIN B = {1, 2} /\ DOMAIN C = {1, 2, 3, 4}
    OBVIOUS
  <2> QED BY <2>1 DEF Listed
<1> HIDE DEF A, B, C, S
<1>4. /\ DeleteClientProgram(c) =
             << <<"exclusive", ClientKey(c)>>, <<"lock", <<"client_barriers", c>> >> >>
             \o Deletes(A) \o << <<"commit">> >>
      /\ RevokeFamilyProgram(f) =
             << <<"exclusive", FamilyKey(f)>>, <<"lock", <<"family_barriers", f>> >> >>
             \o Deletes(B) \o << <<"commit">> >>
      /\ WithdrawalProgram(c, s) =
             << <<"exclusive", ConsentKey(c, s)>>, <<"lock", <<"consent_barriers", <<c, s>> >> >> >>
             \o Deletes(C) \o << <<"commit">> >>
  BY DEF A, B, C, DeleteClientProgram, RevokeFamilyProgram, WithdrawalProgram
<1>5. /\ Program(DeleteClientProgram(c))
      /\ Listed(DeleteClientProgram(c)) =
             {<<"exclusive", ClientKey(c)>>, <<"lock", <<"client_barriers", c>> >>, <<"commit">>}
             \cup {<<"delete", x>> : x \in Listed(A)}
  <2> DEFINE key == ClientKey(c)
             row == <<"client_barriers", c>>
             program == << <<"exclusive", key>>, <<"lock", row>> >> \o Deletes(A)
                        \o << <<"commit">> >>
  <2>1. DeleteClientProgram(c) = program
    BY <1>4
  <2> HIDE DEF key, row
  <2>2. /\ Program(program)
        /\ Listed(program) = {<<"exclusive", key>>, <<"lock", row>>, <<"commit">>}
                             \cup {<<"delete", x>> : x \in Listed(A)}
    BY <1>1, CascadeProgram, Zenon
  <2> HIDE DEF program
  <2> QED BY <2>1, <2>2 DEF key, row
<1>6. /\ Program(RevokeFamilyProgram(f))
      /\ Listed(RevokeFamilyProgram(f)) =
             {<<"exclusive", FamilyKey(f)>>, <<"lock", <<"family_barriers", f>> >>, <<"commit">>}
             \cup {<<"delete", x>> : x \in Listed(B)}
  <2> DEFINE key == FamilyKey(f)
             row == <<"family_barriers", f>>
             program == << <<"exclusive", key>>, <<"lock", row>> >> \o Deletes(B)
                        \o << <<"commit">> >>
  <2>1. RevokeFamilyProgram(f) = program
    BY <1>4
  <2> HIDE DEF key, row
  <2>2. /\ Program(program)
        /\ Listed(program) = {<<"exclusive", key>>, <<"lock", row>>, <<"commit">>}
                             \cup {<<"delete", x>> : x \in Listed(B)}
    BY <1>1, CascadeProgram, Zenon
  <2> HIDE DEF program
  <2> QED BY <2>1, <2>2 DEF key, row
<1>7. /\ Program(WithdrawalProgram(c, s))
      /\ Listed(WithdrawalProgram(c, s)) =
             {<<"exclusive", ConsentKey(c, s)>>, <<"lock", <<"consent_barriers", <<c, s>> >> >>,
              <<"commit">>}
             \cup {<<"delete", x>> : x \in Listed(C)}
  <2> DEFINE key == ConsentKey(c, s)
             row == <<"consent_barriers", <<c, s>> >>
             program == << <<"exclusive", key>>, <<"lock", row>> >> \o Deletes(C)
                        \o << <<"commit">> >>
  <2>1. WithdrawalProgram(c, s) = program
    BY <1>4
  <2> HIDE DEF key, row
  <2>2. /\ Program(program)
        /\ Listed(program) = {<<"exclusive", key>>, <<"lock", row>>, <<"commit">>}
                             \cup {<<"delete", x>> : x \in Listed(C)}
    BY <1>1, CascadeProgram, Zenon
  <2> HIDE DEF program
  <2> QED BY <2>1, <2>2 DEF key, row
<1> QED BY <1>2, <1>3, <1>5, <1>6, <1>7, Zenon

\* The statements of compare_and_swap_consent.
LEMMA SwapProgram ==
    ASSUME NEW k, NEW rec
    PROVE  /\ Program(SwapConsentProgram(k, rec))
           /\ Listed(SwapConsentProgram(k, rec)) =
                  {<<"exclusive", ConsentSwapKey(rec.client_id, rec.subject)>>, <<"select">>,
                   <<"lock", <<"consents", k>> >>, <<"commit">>}
<1>1. /\ Rank(<<"exclusive", ConsentSwapKey(rec.client_id, rec.subject)>>) = 1
      /\ Rank(<<"select">>) = 2 /\ Rank(<<"lock", <<"consents", k>> >>) = 3
      /\ Rank(<<"commit">>) = 4
  BY DEF Rank
<1> DEFINE a == <<"exclusive", ConsentSwapKey(rec.client_id, rec.subject)>>
           b == <<"select">>
           c == <<"lock", <<"consents", k>> >>
           d == <<"commit">>
<1>2. Rank(a) <= Rank(b) /\ Rank(b) <= Rank(c) /\ Rank(c) <= Rank(d)
  BY <1>1
<1>3. SwapConsentProgram(k, rec) = <<a, b, c, d>>
  BY DEF SwapConsentProgram
<1> HIDE DEF a, b, c, d
<1>4. /\ Program(SwapConsentProgram(k, rec))
      /\ Listed(SwapConsentProgram(k, rec)) = {a, b, c, d}
  <2>1. Program(<<a, b, c, d>>) /\ Listed(<<a, b, c, d>>) = {a, b, c, d}
    BY <1>2, Quadruple
  <2> QED BY <1>3, <2>1
<1> QED BY <1>4 DEF a, b, c, d

-----------------------------------------------------------------------------
(***************************************************************************)
(* A statement of a transaction keeps what is known of it                   *)
(***************************************************************************)
\* A transaction whose next statement has a verb is open.
LEMMA VerbIs ==
    ASSUME NEW t, NEW v, Verb(t) = v, v # "none"
    PROVE  txn[t].left # <<>> /\ Head(txn[t].left)[1] = v
BY DEF Verb, Open

\* The verdict of barrier_covers depends on the call and on the store only.
LEMMA CoverUnchanged ==
    ASSUME NEW t, UNCHANGED storeVars, txn'[t].op = txn[t].op, txn'[t].args = txn[t].args
    PROVE  barrier_covers(t)' <=> barrier_covers(t)
BY DEF barrier_covers, Refused, PushRefused, is_revoked, covers, storeVars, barriers

\* A guarded write that runs its next statement is one still, if the check found no barrier and
\* the comparison found the record it was given.
LEMMA WritingAdvances ==
    ASSUME NEW t \in Txns, Shape(txn[t]), txn[t].left # <<>>, Writing(t), UNCHANGED storeVars,
           NEW A, NEW R, NEW G, txn'[t] = After(txn[t], A, R, G),
           Head(txn[t].left)[1] = "shared" => Head(txn[t].left) \in A,
           Head(txn[t].left)[1] \in {"lock", "compare"} => Head(txn[t].left)[2] \in R,
           Head(txn[t].left)[1] = "check" => ~barrier_covers(t),
           Head(txn[t].left)[1] = "compare" => refresh[txn[t].args[1]] = txn[t].args[2]
    PROVE  Writing(t)'
<1>1. PICK r : r = txn[t]
  OBVIOUS
<1>2. PICK q : q = txn'[t]
  OBVIOUS
<1>3. q = After(r, A, R, G)
  BY <1>1, <1>2
<1>4. Shape(r) /\ r.left # <<>> /\ WritesSafely(r)
  BY <1>1 DEF Writing
<1>5. WritesSafely(q)
  BY <1>1, <1>3, <1>4, WriteAdvances
<1>6. /\ \A s \in Pending(r) : s = Head(r.left) \/ s \in Pending(q)
      /\ \A s \in Pending(r) : Rank(Head(r.left)) <= Rank(s)
      /\ Head(r.left) \in Pending(r)
  BY <1>3, <1>4, Advance
<1>7. q.op = r.op /\ q.args = r.args /\ q.advisory = r.advisory \cup A /\ q.rows = r.rows \cup R
  BY <1>3, AfterFields
<1>8. barrier_covers(t)' <=> barrier_covers(t)
  BY <1>1, <1>2, <1>7, CoverUnchanged
<1>9. Shares(r) => Shares(q)
  BY <1>7 DEF Shares, ScopeKeys
<1>10. Will(q, <<"check">>, ~barrier_covers(t)' /\ Shares(q))
  <2>1. CASE Head(r.left)[1] = "check"
    <3>1. Rank(Head(r.left)) = 2
      BY <2>1 DEF Rank
    <3>2. ASSUME NEW key \in ScopeKeys(r) PROVE <<"shared", key>> \in r.advisory
      <4>1. Rank(<<"shared", key>>) = 1
        BY DEF Rank
      <4>2. <<"shared", key>> \notin Pending(r)
        BY <1>6, <3>1, <4>1
      <4> QED BY <1>4, <4>2 DEF WritesSafely, Will
    <3>3. Shares(r)
      BY <3>2 DEF Shares
    <3> QED BY <2>1, <3>3, <1>1, <1>8, <1>9 DEF Will
  <2>2. CASE Head(r.left)[1] # "check"
    <3>1. <<"check">> # Head(r.left)
      BY <2>2
    <3>2. <<"check">> \in Pending(r) \/ (~barrier_covers(t) /\ Shares(r))
      BY <1>1 DEF Writing, Will
    <3> QED BY <3>1, <3>2, <1>6, <1>8, <1>9 DEF Will
  <2> QED BY <2>1, <2>2
<1>11. q.op = "rotate" =>
           Will(q, <<"compare", <<"refresh", q.args[1]>> >>,
                <<"refresh", q.args[1]>> \in q.rows /\ refresh'[q.args[1]] = q.args[2])
  <2> SUFFICES ASSUME r.op = "rotate"
               PROVE  Will(q, <<"compare", <<"refresh", r.args[1]>> >>,
                           <<"refresh", r.args[1]>> \in q.rows /\ refresh'[r.args[1]] = r.args[2])
    BY <1>7
  <2>1. refresh' = refresh
    BY DEF storeVars, tokenMaps
  <2>2. CASE Head(r.left) = <<"compare", <<"refresh", r.args[1]>> >>
    <3>1. Head(r.left)[1] = "compare" /\ Head(r.left)[2] = <<"refresh", r.args[1]>>
      BY <2>2
    <3> QED BY <3>1, <2>1, <1>1, <1>7 DEF Will
  <2>3. CASE Head(r.left) # <<"compare", <<"refresh", r.args[1]>> >>
    <3>1. \/ <<"compare", <<"refresh", r.args[1]>> >> \in Pending(r)
          \/ <<"refresh", r.args[1]>> \in r.rows /\ refresh[r.args[1]] = r.args[2]
      BY <1>1 DEF Writing, Compared, Will
    <3> QED BY <2>1, <2>3, <3>1, <1>6, <1>7 DEF Will
  <2> QED BY <2>2, <2>3
<1> QED BY <1>2, <1>5, <1>10, <1>11 DEF Writing, Compared

\* The rows that a cascade deletes belong to the table of the statement.
LEMMA DoomedShape ==
    ASSUME NEW t, NEW table, NEW row \in DoomedRows(t, table)
    PROVE  /\ row = <<row[1], row[2]>> /\ row[1] = table
           /\ table = "clients" => row[2] = txn[t].args[1]
<1>1. row = <<row[1], row[2]>> /\ row[1] = table
  BY DEF DoomedRows
<1>2. ASSUME table = "clients" PROVE row[2] = txn[t].args[1]
  BY <1>2 DEF DoomedRows
<1> QED BY <1>1, <1>2

\* They are the rows of the records that the revocation names.
LEMMA DoomedNamed ==
    ASSUME NEW t, RevocationTyped(txn[t]), NEW k
    PROVE  /\ <<"tokens", k>> \in DoomedRows(t, "tokens") <=> k \in NamedBy(txn[t], tokens)
           /\ <<"refresh", k>> \in DoomedRows(t, "refresh") <=> k \in NamedBy(txn[t], refresh)
           /\ txn[t].op = "delete_client" =>
                  (<<"pushed", k>> \in DoomedRows(t, "pushed") <=> k \in NamedBy(txn[t], pushed))
<1>1. ASSUME NEW map PROVE Doomed(t, map) = NamedBy(txn[t], map)
  BY DEF RevocationTyped, Doomed, NamedBy, InScope, OfClient, OfFamily, OfConsent
<1>2. DoomedRows(t, "tokens") = {<<"tokens", j>> : j \in NamedBy(txn[t], tokens)}
  BY <1>1 DEF DoomedRows
<1>3. DoomedRows(t, "refresh") = {<<"refresh", j>> : j \in NamedBy(txn[t], refresh)}
  BY <1>1 DEF DoomedRows
<1>4. DoomedRows(t, "pushed") = {<<"pushed", j>> : j \in NamedBy(txn[t], pushed)}
  BY <1>1 DEF DoomedRows
<1> QED BY <1>2, <1>3, <1>4

\* A revocation that runs its next statement is one still, if a cascade deletes what it names.
LEMMA RevokingAdvances ==
    ASSUME NEW t \in Txns, Shape(txn[t]), txn[t].left # <<>>, Revoking(t), UNCHANGED storeVars,
           NEW A, NEW R, NEW G, txn'[t] = After(txn[t], A, R, G),
           Head(txn[t].left)[1] = "exclusive" => Head(txn[t].left) \in A,
           Head(txn[t].left)[1] # "delete" => G = {},
           Head(txn[t].left)[1] = "delete" =>
               /\ G \subseteq R /\ G \subseteq DoomedRows(t, Object(t))
               /\ Object(t) \in {"tokens", "refresh", "pushed"} =>
                      \/ /\ txn[t].snapshot # None
                         /\ DoomedRows(t, Object(t)) \cap txn[t].snapshot = G
                      \/ DoomedRows(t, Object(t)) = {}
    PROVE  Revoking(t)'
<1>1. PICK r : r = txn[t]
  OBVIOUS
<1>2. PICK q : q = txn'[t]
  OBVIOUS
<1>3. q = After(r, A, R, G)
  BY <1>1, <1>2
<1>4. Shape(r) /\ r.left # <<>> /\ RevokesSafely(r)
  BY <1>1 DEF Revoking
<1>5. Head(r.left) \in Pending(r)
  BY <1>4, Advance
<1>6. /\ G \subseteq R
      /\ \A row \in G :
            /\ row = <<row[1], row[2]>>
            /\ row[1] = "clients" => r.op = "delete_client" /\ row[2] = r.args[1]
  <2>1. CASE Head(r.left)[1] # "delete"
    BY <2>1, <1>1
  <2>2. CASE Head(r.left)[1] = "delete"
    <3> DEFINE table == Object(t)
    <3>1. table = Head(r.left)[2]
      BY <1>1 DEF Object
    <3>2. Head(r.left) = <<"delete", table>>
      BY <1>4, <1>5, <2>2, <3>1 DEF RevokesSafely
    <3> HIDE DEF table
    <3>3. table = "clients" => r.op = "delete_client"
      BY <3>2, <1>4, <1>5 DEF RevokesSafely
    <3>4. ASSUME NEW row \in G
          PROVE  /\ row = <<row[1], row[2]>>
                 /\ row[1] = "clients" => r.op = "delete_client" /\ row[2] = r.args[1]
      <4>1. row \in DoomedRows(t, table)
        BY <2>2, <1>1 DEF table
      <4> QED BY <4>1, <3>3, <1>1, DoomedShape
    <3> QED BY <2>2, <3>4, <1>1
  <2> QED BY <2>1, <2>2
<1>7. RevokesSafely(q)
  BY <1>1, <1>3, <1>4, <1>6, RevokeAdvances
<1>8. ASSUME NEW table \in {"tokens", "refresh", "pushed"}, NEW map, Cascades(r, table, map),
             \A k : <<table, k>> \in DoomedRows(t, table) <=> k \in NamedBy(r, map)
      PROVE  Cascades(q, table, map)
  <2>1. ASSUME Head(r.left) = <<"delete", table>>, NEW k \in NamedBy(r, map)
        PROVE  <<table, k>> \in G
    <3>1. Object(t) = table /\ Head(r.left)[1] = "delete"
      BY <2>1, <1>1 DEF Object
    <3>2. <<table, k>> \in DoomedRows(t, table)
      BY <1>8
    <3>3. r.snapshot # None /\ DoomedRows(t, table) \cap r.snapshot = G
      BY <3>1, <3>2, <1>1
    <3>4. <<table, k>> \in r.snapshot
      BY <1>8, <2>1, <3>3 DEF Cascades
    <3> QED BY <3>2, <3>3, <3>4
  <2>2. ASSUME NEW k, <<table, k>> \in G PROVE k \in NamedBy(r, map)
    <3>1. Head(r.left)[1] = "delete" /\ <<table, k>> \in DoomedRows(t, Object(t))
      BY <2>2, <1>1
    <3>2. <<table, k>>[1] = Object(t)
      BY <3>1, DoomedShape
    <3> QED BY <3>1, <3>2, <1>8
  <2> QED BY <1>3, <1>4, <1>8, <2>1, <2>2, CascadeAdvances
<1>9. RevocationTyped(txn[t])
  BY <1>1, <1>4 DEF RevokesSafely
<1>10. Cascades(q, "tokens", tokens)
  BY <1>1, <1>8, <1>9, DoomedNamed DEF Revoking
<1>11. Cascades(q, "refresh", refresh)
  BY <1>1, <1>8, <1>9, DoomedNamed DEF Revoking
<1>12. q.op = "delete_client" => Cascades(q, "pushed", pushed)
  <2>1. q.op = r.op
    BY <1>3, AfterFields
  <2> QED BY <2>1, <1>1, <1>8, <1>9, DoomedNamed DEF Revoking
<1>13. UNCHANGED <<tokens, refresh, pushed>>
  BY DEF storeVars, tokenMaps
<1> QED BY <1>2, <1>7, <1>10, <1>11, <1>12, <1>13 DEF Revoking

\* A consent write that runs its next statement is one still, if the SELECT found what it expects.
LEMMA SwappingAdvances ==
    ASSUME NEW t \in Txns, Shape(txn[t]), txn[t].left # <<>>, Swapping(t), UNCHANGED storeVars,
           NEW A, NEW R, NEW G, txn'[t] = After(txn[t], A, R, G),
           Head(txn[t].left)[1] = "exclusive" => Head(txn[t].left) \in A,
           Head(txn[t].left)[1] = "lock" => Head(txn[t].left)[2] \in R,
           Head(txn[t].left)[1] = "select" => Settled(After(txn[t], A, R, G), consents)
    PROVE  Swapping(t)'
<1>1. PICK r : r = txn[t]
  OBVIOUS
<1>2. PICK q : q = txn'[t]
  OBVIOUS
<1>3. q = After(r, A, R, G)
  BY <1>1, <1>2
<1>4. Shape(r) /\ r.left # <<>> /\ SwapsSafely(r)
  BY <1>1 DEF Swapping
<1>5. SwapsSafely(q)
  BY <1>1, <1>3, <1>4, SwapAdvances
<1>6. \A s \in Pending(r) : s = Head(r.left) \/ s \in Pending(q)
  BY <1>3, <1>4, Advance
<1>7. /\ q.op = r.op /\ q.args = r.args /\ q.advisory = r.advisory \cup A
      /\ q.rows = r.rows \cup R /\ q.snapshot = None
  BY <1>3, AfterFields
<1>8. OwnsPair(r) => OwnsPair(q)
  BY <1>7 DEF OwnsPair, SwapKey
<1>9. Will(q, <<"select">>, OwnsPair(q) /\ Settled(q, consents))
  <2>1. CASE Head(r.left)[1] = "select"
    <3>1. OwnsPair(r)
      BY <2>1, <1>4, OwnsByThen
    <3> QED BY <3>1, <2>1, <1>1, <1>3, <1>8 DEF Will
  <2>2. CASE Head(r.left)[1] # "select"
    <3>1. Settled(r, consents) => Settled(q, consents)
      BY <1>7 DEF Settled, Pair
    <3>2. <<"select">> # Head(r.left)
      BY <2>2
    <3>3. <<"select">> \in Pending(r) \/ (OwnsPair(r) /\ Settled(r, consents))
      BY <1>1 DEF Swapping, Will
    <3> QED BY <3>1, <3>2, <3>3, <1>6, <1>8 DEF Will
  <2> QED BY <2>1, <2>2
<1>10. consents' = consents /\ Selecting(q, consents)
  BY <1>7 DEF storeVars, Selecting
<1> QED BY <1>2, <1>5, <1>9, <1>10 DEF Swapping

-----------------------------------------------------------------------------
(***************************************************************************)
(* Each statement in turn                                                   *)
(***************************************************************************)
\* What a statement that is not a commit leaves.
Kept(t) ==
    /\ txn' = [u \in Txns |-> txn'[u]]
    /\ \A u \in Txns : u # t => txn'[u] = txn[u]
    /\ Sound(t)'
    /\ LocksExclude'
    /\ UNCHANGED storeVars

\* The next statement of a transaction tells what kind of transaction it is.
LEMMA Phase ==
    ASSUME NEW t, Sound(t), txn[t].left # <<>>
    PROVE  /\ Head(txn[t].left)[1] \in {"check", "compare", "shared"} => Writing(t)
           /\ Head(txn[t].left)[1] = "claim" => Unclaimed(txn[t])
           /\ Head(txn[t].left)[1] = "delete" => Revoking(t)
           /\ Head(txn[t].left)[1] = "select" => Swapping(t)
           /\ Head(txn[t].left)[1] # "claim" => Writing(t) \/ Revoking(t) \/ Swapping(t)
<1>1. PICK r : r = txn[t]
  OBVIOUS
<1>2. Head(r.left) \in Pending(r)
  BY <1>1, Advance DEF Sound
<1>3. txn[t] # Closed
  BY DEF Closed
<1>4. Writing(t) => Head(r.left)[1] \in {"shared", "check", "lock", "compare", "commit"}
  BY <1>1, <1>2 DEF Writing, WritesSafely, Verbs
<1>5. Revoking(t) => Head(r.left)[1] \in {"exclusive", "lock", "delete", "commit"}
  BY <1>1, <1>2 DEF Revoking, RevokesSafely, Verbs
<1>6. Swapping(t) => Head(r.left)[1] \in {"exclusive", "select", "lock", "commit"}
  BY <1>1, <1>2 DEF Swapping, SwapsSafely, Verbs
<1>7. Unclaimed(r) => Head(r.left)[1] = "claim"
  BY DEF Unclaimed
<1>8. Writing(t) \/ Unclaimed(txn[t]) \/ Revoking(t) \/ Swapping(t)
  BY <1>3 DEF Sound
<1> QED BY <1>1, <1>4, <1>5, <1>6, <1>7, <1>8

\* Locks still exclude each other when the new ones conflict with none that others hold.
LEMMA LocksKept ==
    ASSUME LocksExclude, NEW t \in Txns, NEW A, NEW R,
           \A u \in Txns : u # t => txn'[u] = txn[u],
           txn'[t].advisory \subseteq txn[t].advisory \cup A,
           txn'[t].rows \subseteq txn[t].rows \cup R,
           \A u \in Txns : u # t => R \cap txn[u].rows = {},
           \A u \in Txns : \A key : u # t =>
               /\ <<"exclusive", key>> \in A =>
                      ~Holds(u, "exclusive", key) /\ ~Holds(u, "shared", key)
               /\ <<"shared", key>> \in A => ~Holds(u, "exclusive", key)
    PROVE  LocksExclude'
<1> SUFFICES ASSUME NEW v \in Txns, NEW u \in Txns, v # u
             PROVE  /\ txn'[v].rows \cap txn'[u].rows = {}
                    /\ \A key : <<"exclusive", key>> \in txn'[v].advisory =>
                           /\ <<"exclusive", key>> \notin txn'[u].advisory
                           /\ <<"shared", key>> \notin txn'[u].advisory
  BY DEF LocksExclude, Holds
<1>1. CASE v # t /\ u # t
  BY <1>1 DEF LocksExclude, Holds
<1>2. CASE v = t
  BY <1>2 DEF LocksExclude, Holds
<1>3. CASE u = t
  BY <1>3 DEF LocksExclude, Holds
<1> QED BY <1>1, <1>2, <1>3

\* Ending a transaction releases its locks.
LEMMA CloseLocks ==
    ASSUME Serial, NEW t \in Txns, Close(t)
    PROVE  /\ txn' = [u \in Txns |-> txn'[u]]
           /\ \A u \in Txns : u # t => txn'[u] = txn[u]
           /\ Sound(t)' /\ LocksExclude'
<1>1. /\ txn' = [u \in Txns |-> txn'[u]]
      /\ \A u \in Txns : u # t => txn'[u] = txn[u]
      /\ txn'[t] = Closed
  BY Closes DEF Serial
<1>2. Sound(t)'
  BY <1>1, ClosedShape DEF Sound
<1>3. Closed.advisory = {} /\ Closed.rows = {}
  BY DEF Closed
<1>4. PICK none : none = {}
  OBVIOUS
<1>5. LocksExclude'
  <2>1. /\ txn'[t].advisory \subseteq txn[t].advisory \cup none
        /\ txn'[t].rows \subseteq txn[t].rows \cup none
    BY <1>1, <1>3
  <2>2. /\ \A u \in Txns : u # t => none \cap txn[u].rows = {}
        /\ \A u \in Txns : \A key : u # t =>
               /\ <<"exclusive", key>> \in none =>
                      ~Holds(u, "exclusive", key) /\ ~Holds(u, "shared", key)
               /\ <<"shared", key>> \in none => ~Holds(u, "exclusive", key)
    BY <1>4
  <2>3. LocksExclude
    BY DEF Serial
  <2> QED BY <1>1, <2>1, <2>2, <2>3, LocksKept
<1> QED BY <1>1, <1>2, <1>5

\* A transaction that ends without writing.
LEMMA CloseKept ==
    ASSUME Serial, NEW t \in Txns, Close(t), UNCHANGED storeVars
    PROVE  Kept(t)
  BY CloseLocks DEF Kept

\* AdvisoryLock.
LEMMA LockKept ==
    ASSUME Serial, NEW t \in Txns, AdvisoryLock(t)
    PROVE  Kept(t)
<1> DEFINE s == Head(txn[t].left)
<1>0. Shape(txn[t]) /\ Sound(t)
  BY DEF Serial, Sound
<1>1. /\ txn' = [u \in Txns |-> txn'[u]]
      /\ \A u \in Txns : u # t => txn'[u] = txn[u]
      /\ txn[t].left # <<>> /\ s[1] \in {"shared", "exclusive"}
      /\ txn'[t] = After(txn[t], {s}, {}, {})
  BY <1>0, Locks DEF Serial
<1>2. UNCHANGED storeVars
  BY DEF AdvisoryLock
<1>3. Shape(txn'[t])
  BY <1>0, <1>1, Advance
<1>a. PICK A, none : A = {s} /\ none = {}
  OBVIOUS
<1>b. /\ txn'[t] = After(txn[t], A, none, none) /\ Head(txn[t].left) \in A
      /\ txn[t].left # <<>>
      /\ Head(txn[t].left)[1] \notin {"lock", "compare", "check", "delete", "select"}
  BY <1>1, <1>a
<1>4. Writing(t) => Writing(t)'
  BY <1>0, <1>2, <1>b, WritingAdvances
<1>5. Revoking(t) => Revoking(t)'
  BY <1>0, <1>2, <1>a, <1>b, RevokingAdvances
<1>6. Swapping(t) => Swapping(t)'
  BY <1>0, <1>2, <1>b, SwappingAdvances
<1>7. Sound(t)'
  BY <1>0, <1>1, <1>3, <1>4, <1>5, <1>6, Phase DEF Sound
<1>8. txn'[t].advisory = txn[t].advisory \cup {s} /\ txn'[t].rows = txn[t].rows \cup {}
  BY <1>1 DEF After
<1>9. ASSUME NEW u \in Txns, NEW key, u # t
      PROVE  /\ <<"exclusive", key>> = s => ~Holds(u, "exclusive", key) /\ ~Holds(u, "shared", key)
             /\ <<"shared", key>> = s => ~Holds(u, "exclusive", key)
  <2>1. Blockers(t) = {} /\ Verb(t) = s[1] /\ Object(t) = s[2]
    BY <1>1 DEF AdvisoryLock, Runs, Verb, Object, Open
  <2> QED BY <2>1, <1>9 DEF Blockers
<1>10. LocksExclude'
  <2> HIDE DEF s
  <2>1. PICK locks, R : locks = {s} /\ R = {}
    OBVIOUS
  <2>2. /\ txn'[t].advisory \subseteq txn[t].advisory \cup locks
        /\ txn'[t].rows \subseteq txn[t].rows \cup R
    BY <1>8, <2>1
  <2>3. /\ \A u \in Txns : u # t => R \cap txn[u].rows = {}
        /\ \A u \in Txns : \A key : u # t =>
               /\ <<"exclusive", key>> \in locks =>
                      ~Holds(u, "exclusive", key) /\ ~Holds(u, "shared", key)
               /\ <<"shared", key>> \in locks => ~Holds(u, "exclusive", key)
    BY <1>9, <2>1
  <2>4. LocksExclude
    BY DEF Serial
  <2>5. \A u \in Txns : u # t => txn'[u] = txn[u]
    BY <1>1
  <2> QED BY <2>2, <2>3, <2>4, <2>5, LocksKept
<1> QED BY <1>1, <1>2, <1>7, <1>10 DEF Kept

\* A statement that locks rows it has waited for.
LEMMA RowsKept ==
    ASSUME Serial, NEW t \in Txns, NEW R, NEW G, Proceed(t, R, G), UNCHANGED storeVars,
           txn[t].left # <<>>, R # {} => Blockers(t) = {} /\ R \subseteq Wanted(t),
           Writing(t)' \/ Revoking(t)' \/ Swapping(t)'
    PROVE  Kept(t)
<1>0. Shape(txn[t]) /\ txn = [u \in Txns |-> txn[u]]
  BY DEF Serial, Sound
<1>1. /\ txn' = [u \in Txns |-> txn'[u]]
      /\ \A u \in Txns : u # t => txn'[u] = txn[u]
      /\ txn'[t] = After(txn[t], {}, R, G)
  BY <1>0, Proceeds
<1>2. Shape(txn'[t])
  BY <1>0, <1>1, Advance
<1>3. Sound(t)'
  BY <1>2 DEF Sound
<1>4. txn'[t].advisory = txn[t].advisory \cup {} /\ txn'[t].rows = txn[t].rows \cup R
  BY <1>1 DEF After
<1>5. \A u \in Txns : u # t => R \cap txn[u].rows = {}
  BY DEF Blockers
<1>6. LocksExclude'
  <2>1. PICK none : none = {}
    OBVIOUS
  <2>2. /\ txn'[t].advisory \subseteq txn[t].advisory \cup none
        /\ txn'[t].rows \subseteq txn[t].rows \cup R
    BY <1>4, <2>1
  <2>3. \A u \in Txns : \A key : u # t =>
            /\ <<"exclusive", key>> \in none =>
                   ~Holds(u, "exclusive", key) /\ ~Holds(u, "shared", key)
            /\ <<"shared", key>> \in none => ~Holds(u, "exclusive", key)
    BY <2>1
  <2>4. LocksExclude
    BY DEF Serial
  <2>5. \A u \in Txns : u # t => txn'[u] = txn[u]
    BY <1>1
  <2> QED BY <1>5, <2>2, <2>3, <2>4, <2>5, LocksKept
<1> QED BY <1>1, <1>3, <1>6 DEF Kept

\* Check: a write that a barrier covers ends, any other one goes on uncovered.
LEMMA CheckKept ==
    ASSUME Serial, NEW t \in Txns, Check(t)
    PROVE  Kept(t)
<1>1. Shape(txn[t]) /\ Sound(t) /\ txn = [u \in Txns |-> txn[u]]
  BY DEF Serial, Sound
<1>2. txn[t].left # <<>> /\ Head(txn[t].left)[1] = "check" /\ UNCHANGED storeVars
  BY VerbIs DEF Check, Runs
<1>3. Writing(t)
  BY <1>1, <1>2, Phase
<1>4. CASE barrier_covers(t)
  BY <1>2, <1>4, CloseKept DEF Check
<1>5. CASE ~barrier_covers(t)
  <2>1. Proceed(t, {}, {})
    BY <1>5 DEF Check
  <2>2. txn'[t] = After(txn[t], {}, {}, {})
    BY <1>1, <2>1, Proceeds
  <2>3. Writing(t)'
    BY <1>1, <1>2, <1>3, <1>5, <2>2, WritingAdvances
  <2> QED BY <1>2, <2>1, <2>3, RowsKept
<1> QED BY <1>4, <1>5

\* LockRow.
LEMMA LockRowKept ==
    ASSUME Serial, NEW t \in Txns, LockRow(t)
    PROVE  Kept(t)
<1>1. Shape(txn[t]) /\ Sound(t) /\ txn = [u \in Txns |-> txn[u]]
  BY DEF Serial, Sound
<1>2. txn[t].left # <<>> /\ Head(txn[t].left)[1] = "lock" /\ UNCHANGED storeVars
  BY VerbIs DEF LockRow, Runs
<1>3. Proceed(t, {Object(t)}, {}) /\ Blockers(t) = {} /\ Wanted(t) = {Object(t)}
  BY DEF LockRow, Runs, Wanted
<1>4. txn'[t] = After(txn[t], {}, {Object(t)}, {}) /\ Object(t) = Head(txn[t].left)[2]
  BY <1>1, <1>3, Proceeds DEF Object
<1>5. Writing(t) => Writing(t)'
  BY <1>1, <1>2, <1>4, WritingAdvances
<1>6. Revoking(t) => Revoking(t)'
  BY <1>1, <1>2, <1>4, RevokingAdvances
<1>7. Swapping(t) => Swapping(t)'
  BY <1>1, <1>2, <1>4, SwappingAdvances
<1>8. Writing(t)' \/ Revoking(t)' \/ Swapping(t)'
  BY <1>1, <1>2, <1>5, <1>6, <1>7, Phase
<1> QED BY <1>2, <1>3, <1>8, RowsKept

\* Compare.
LEMMA CompareKept ==
    ASSUME Serial, NEW t \in Txns, Compare(t)
    PROVE  Kept(t)
<1>1. Shape(txn[t]) /\ Sound(t) /\ txn = [u \in Txns |-> txn[u]]
  BY DEF Serial, Sound
<1>2. txn[t].left # <<>> /\ Head(txn[t].left)[1] = "compare" /\ UNCHANGED storeVars
  BY VerbIs DEF Compare, Runs
<1>3. Writing(t)
  BY <1>1, <1>2, Phase
<1>4. CASE Close(t)
  BY <1>2, <1>4, CloseKept
<1>5. CASE ~Close(t)
  <2>1. /\ Proceed(t, {Object(t)}, {}) /\ Blockers(t) = {} /\ Wanted(t) = {Object(t)}
        /\ refresh[txn[t].args[1]] = txn[t].args[2]
    BY <1>5 DEF Compare, Runs, Wanted
  <2>2. txn'[t] = After(txn[t], {}, {Object(t)}, {}) /\ Object(t) = Head(txn[t].left)[2]
    BY <1>1, <2>1, Proceeds DEF Object
  <2>3. Writing(t)'
    BY <1>1, <1>2, <1>3, <2>1, <2>2, WritingAdvances
  <2> QED BY <1>2, <2>1, <2>3, RowsKept
<1> QED BY <1>4, <1>5

\* A statement that has found the rows it waits for.
LEMMA Snapped ==
    ASSUME NEW t \in Txns, txn = [u \in Txns |-> txn[u]], Shape(txn[t]), NEW S,
           txn' = [txn EXCEPT ![t].snapshot = S], txn[t].left # <<>>,
           Head(txn[t].left)[1] \in {"delete", "select"}
    PROVE  /\ txn' = [u \in Txns |-> txn'[u]]
           /\ \A u \in Txns : u # t => txn'[u] = txn[u]
           /\ Shape(txn'[t]) /\ txn'[t].snapshot = S
           /\ txn'[t].op = txn[t].op /\ txn'[t].args = txn[t].args
           /\ txn'[t].left = txn[t].left /\ txn'[t].advisory = txn[t].advisory
           /\ txn'[t].rows = txn[t].rows /\ txn'[t].gone = txn[t].gone
<1>1. PICK r : r = txn[t]
  OBVIOUS
<1>2. PICK q : q = [r EXCEPT !.snapshot = S]
  OBVIOUS
<1>3. txn' = [txn EXCEPT ![t] = q]
  BY <1>1, <1>2
<1>4. /\ q = [f \in Fields |-> q[f]] /\ q.snapshot = S /\ q.op = r.op /\ q.args = r.args
      /\ q.left = r.left /\ q.advisory = r.advisory /\ q.rows = r.rows /\ q.gone = r.gone
  BY <1>1, <1>2 DEF Shape, Fields
<1>5. Shape(q)
  BY <1>1, <1>4 DEF Shape
<1>6. /\ txn'[t] = q /\ txn' = [u \in Txns |-> txn'[u]]
      /\ \A u \in Txns : u # t => txn'[u] = txn[u]
  BY <1>3
<1> QED BY <1>1, <1>4, <1>5, <1>6

\* It keeps the invariant, if what it found is what its kind of transaction looks for.
LEMMA SnapKept ==
    ASSUME Serial, NEW t \in Txns, NEW S, txn' = [txn EXCEPT ![t].snapshot = S],
           txn[t].left # <<>>, Head(txn[t].left)[1] \in {"delete", "select"},
           UNCHANGED storeVars, Revoking(t)' \/ Swapping(t)'
    PROVE  Kept(t)
<1>1. txn = [u \in Txns |-> txn[u]] /\ Shape(txn[t]) /\ LocksExclude
  BY DEF Serial, Sound
<1>2. /\ txn' = [u \in Txns |-> txn'[u]]
      /\ \A u \in Txns : u # t => txn'[u] = txn[u]
      /\ Shape(txn'[t])
      /\ txn'[t].advisory = txn[t].advisory /\ txn'[t].rows = txn[t].rows
  BY <1>1, Snapped
<1>3. \A u \in Txns : txn'[u].advisory = txn[u].advisory /\ txn'[u].rows = txn[u].rows
  BY <1>2
<1>4. LocksExclude'
  BY <1>1, <1>3 DEF LocksExclude, Holds
<1> QED BY <1>2, <1>4 DEF Kept, Sound

\* StartDelete: the rows found are all that the revocation names, which holds its key by then.
LEMMA StartDeleteKept ==
    ASSUME Serial, NEW t \in Txns, StartDelete(t)
    PROVE  Kept(t)
<1>1. Shape(txn[t]) /\ Sound(t) /\ txn = [u \in Txns |-> txn[u]]
  BY DEF Serial, Sound
<1>2. txn[t].left # <<>> /\ Head(txn[t].left)[1] = "delete" /\ UNCHANGED storeVars
  BY VerbIs DEF StartDelete
<1>3. Revoking(t)
  BY <1>1, <1>2, Phase
<1> DEFINE rows == DoomedRows(t, Object(t))
<1>4. CASE rows = {}
  <2>1. Proceed(t, {}, {})
    BY <1>4 DEF StartDelete
  <2>2. txn'[t] = After(txn[t], {}, {}, {})
    BY <1>1, <2>1, Proceeds
  <2>3. Revoking(t)'
    BY <1>1, <1>2, <1>3, <1>4, <2>2, RevokingAdvances
  <2> QED BY <1>2, <2>1, <2>3, RowsKept
<1>5. CASE rows # {}
  <2>1. PICK r : r = txn[t]
    OBVIOUS
  <2>2. PICK q : q = txn'[t]
    OBVIOUS
  <2>3. txn' = [txn EXCEPT ![t].snapshot = rows]
    BY <1>5 DEF StartDelete
  <2> HIDE DEF rows
  <2>4. /\ q.snapshot = rows /\ q.op = r.op /\ q.args = r.args /\ q.left = r.left
        /\ q.advisory = r.advisory /\ q.rows = r.rows /\ q.gone = r.gone
    BY <1>1, <1>2, <2>1, <2>2, <2>3, Snapped
  <2>5. RevokesSafely(r) /\ Excludes(r) /\ RevocationTyped(txn[t])
    BY <1>1, <1>2, <1>3, <2>1, ExcludesByThen DEF Revoking, RevokesSafely
  <2>6. RevokesSafely(q)
    BY <2>4, <2>5 DEF RevokesSafely, RevocationTyped, RevocationKey, Verbs, Pending, Will,
       Excludes
  <2>7. ASSUME NEW table, NEW map, Cascades(r, table, map),
               \A k : <<table, k>> \in DoomedRows(t, table) <=> k \in NamedBy(r, map)
        PROVE  Cascades(q, table, map)
    <3>1. /\ NamedBy(q, map) = NamedBy(r, map) /\ Pending(q) = Pending(r)
          /\ Excludes(q) <=> Excludes(r)
      BY <2>4 DEF NamedBy, InScope, Pending, Excludes, RevocationKey
    <3>2. Head(q.left) = <<"delete", table>> => rows = DoomedRows(t, table)
      BY <2>1, <2>4 DEF rows, Object
    <3> QED BY <2>4, <2>5, <2>7, <3>1, <3>2 DEF Cascades, Will
  <2>8. Cascades(q, "tokens", tokens)
    BY <1>3, <2>1, <2>5, <2>7, DoomedNamed DEF Revoking
  <2>9. Cascades(q, "refresh", refresh)
    BY <1>3, <2>1, <2>5, <2>7, DoomedNamed DEF Revoking
  <2>10. q.op = "delete_client" => Cascades(q, "pushed", pushed)
    BY <1>3, <2>1, <2>4, <2>5, <2>7, DoomedNamed DEF Revoking
  <2>11. UNCHANGED <<tokens, refresh, pushed>>
    BY <1>2 DEF storeVars, tokenMaps
  <2>12. Revoking(t)'
    BY <2>2, <2>6, <2>8, <2>9, <2>10, <2>11 DEF Revoking
  <2> QED BY <1>2, <2>3, <2>12, SnapKept
<1> QED BY <1>4, <1>5

\* FinishDelete: of the rows found, those still there are deleted.
LEMMA FinishDeleteKept ==
    ASSUME Serial, NEW t \in Txns, FinishDelete(t)
    PROVE  Kept(t)
<1>1. Shape(txn[t]) /\ Sound(t) /\ txn = [u \in Txns |-> txn[u]]
  BY DEF Serial, Sound
<1>2. txn[t].left # <<>> /\ Head(txn[t].left)[1] = "delete" /\ UNCHANGED storeVars
  BY VerbIs DEF FinishDelete, Runs
<1>3. Revoking(t)
  BY <1>1, <1>2, Phase
<1>4. PICK found, none : found = txn[t].snapshot \cap DoomedRows(t, Object(t)) /\ none = {}
  OBVIOUS
<1>5. /\ Proceed(t, found, found) /\ txn[t].snapshot # None /\ Blockers(t) = {}
      /\ Wanted(t) = txn[t].snapshot
  BY <1>4 DEF FinishDelete, Runs, Wanted
<1>6. txn'[t] = After(txn[t], none, found, found)
  BY <1>1, <1>4, <1>5, Proceeds
<1>7. /\ found \subseteq DoomedRows(t, Object(t))
      /\ DoomedRows(t, Object(t)) \cap txn[t].snapshot = found
  BY <1>4
<1>8. Revoking(t)'
  BY <1>1, <1>2, <1>3, <1>5, <1>6, <1>7, RevokingAdvances
<1>9. found \subseteq Wanted(t)
  BY <1>4, <1>5
<1> QED BY <1>2, <1>5, <1>8, <1>9, RowsKept

\* StartSelect: with one consent in a pair, the one row found is the pair.
LEMMA StartSelectKept ==
    ASSUME Serial, NEW t \in Txns, StartSelect(t)
    PROVE  Kept(t)
<1>1. Shape(txn[t]) /\ Sound(t) /\ txn = [u \in Txns |-> txn[u]]
  BY DEF Serial, Sound
<1>2. txn[t].left # <<>> /\ Head(txn[t].left)[1] = "select" /\ UNCHANGED storeVars
  BY VerbIs DEF StartSelect
<1>3. Swapping(t)
  BY <1>1, <1>2, Phase
<1>4. PICK r : r = txn[t]
  OBVIOUS
<1>5. PICK q : q = txn'[t]
  OBVIOUS
<1>6. /\ DOMAIN consents = ConsentIds /\ OneConsentPerPair
      /\ Pair(r, consents) \subseteq ConsentIds
  BY DEF Serial, TypeOK, Pair, OfConsent, OfClient
<1>7. PICK S : /\ txn' = [txn EXCEPT ![t].snapshot = S]
               /\ \/ Pair(r, consents) = {} /\ S = {}
                  \/ \E k \in Pair(r, consents) : S = {<<"consents", k>>}
  BY <1>4 DEF StartSelect, Pair
<1>8. \A j, k \in Pair(r, consents) : j = k
  BY <1>6 DEF OneConsentPerPair, Pair, OfConsent, OfClient
<1>9. /\ q.snapshot = S /\ q.op = r.op /\ q.args = r.args /\ q.left = r.left
      /\ q.advisory = r.advisory /\ q.rows = r.rows /\ q.gone = r.gone
  BY <1>1, <1>2, <1>4, <1>5, <1>7, Snapped
<1>10. SwapsSafely(r) /\ OwnsPair(r)
  BY <1>1, <1>2, <1>3, <1>4, OwnsByThen DEF Swapping
<1>11. SwapsSafely(q) /\ OwnsPair(q) /\ Pending(q) = Pending(r)
  BY <1>9, <1>10 DEF SwapsSafely, SwapTyped, SwapKey, OwnsPair, Verbs, Pending, Will
<1>12. Pair(q, consents) = Pair(r, consents)
  BY <1>9 DEF Pair
<1>13. Will(q, <<"select">>, OwnsPair(q) /\ Settled(q, consents))
  <2>1. Settled(r, consents) => Settled(q, consents)
    BY <1>9 DEF Settled, Pair
  <2> QED BY <1>3, <1>4, <1>11, <2>1 DEF Swapping, Will
<1>14. Selecting(q, consents)
  <2>1. CASE Pair(r, consents) = {} /\ S = {}
    BY <2>1, <1>9, <1>11, <1>12 DEF Selecting
  <2>2. ASSUME NEW k \in Pair(r, consents), S = {<<"consents", k>>}
        PROVE  Selecting(q, consents)
    BY <2>2, <1>6, <1>8, <1>9, <1>11, <1>12 DEF Selecting
  <2> QED BY <2>1, <2>2, <1>7
<1>15. consents' = consents
  BY <1>2 DEF storeVars
<1>16. Swapping(t)'
  BY <1>5, <1>11, <1>13, <1>14, <1>15 DEF Swapping
<1> QED BY <1>2, <1>7, <1>16, SnapKept

\* FinishSelect: the pair holds what the writer expects, or the writer ends.
LEMMA FinishSelectKept ==
    ASSUME Serial, NEW t \in Txns, FinishSelect(t)
    PROVE  Kept(t)
<1>1. Shape(txn[t]) /\ Sound(t) /\ txn = [u \in Txns |-> txn[u]]
  BY DEF Serial, Sound
<1>2. txn[t].left # <<>> /\ Head(txn[t].left)[1] = "select" /\ UNCHANGED storeVars
  BY VerbIs DEF FinishSelect, Runs
<1>3. Swapping(t)
  BY <1>1, <1>2, Phase
<1>4. CASE ~AsExpected(t)
  BY <1>2, <1>4, CloseKept DEF FinishSelect
<1>5. CASE AsExpected(t)
  <2>1. PICK r : r = txn[t]
    OBVIOUS
  <2>2. PICK none, S : none = {} /\ S = r.snapshot
    OBVIOUS
  <2>3. /\ Proceed(t, S, none) /\ S # None /\ Blockers(t) = {} /\ Wanted(t) = S
    BY <1>5, <2>1, <2>2 DEF FinishSelect, Runs, Wanted
  <2>4. txn'[t] = After(txn[t], none, S, none)
    BY <1>1, <2>2, <2>3, Proceeds
  <2>5. PICK q : q = After(r, none, S, none)
    OBVIOUS
  <2>6. q.args = r.args /\ q.rows = r.rows \cup S
    BY <2>5, AfterFields
  <2>7. /\ SwapTyped(r) /\ S \subseteq {"consents"} \X ConsentIds
        /\ \A k \in Pair(r, consents) : <<"consents", k>> \in S
    BY <1>3, <2>1, <2>2, <2>3 DEF Swapping, SwapsSafely, Selecting
  <2>8. /\ Pair(r, consents) \subseteq ConsentIds /\ ConsentsKeyed
        /\ \A k \in Pair(r, consents) : consents[k] # None
    BY DEF Serial, TypeOK, Pair, OfConsent, OfClient
  <2>9. Live(t) = {consents[k] : k \in {j \in Pair(r, consents) : <<"consents", j>> \in S}}
    BY <2>1, <2>2 DEF Live, Pair
  <2>10. Live(t) = {consents[k] : k \in Pair(r, consents)}
    BY <2>7, <2>9
  <2>11. Live(t) = {r.args[2]} \ {None}
    BY <1>5, <2>1 DEF AsExpected
  <2>12. Settled(q, consents)
    <3>1. CASE r.args[2] = None
      <4>1. Pair(r, consents) = {}
        BY <3>1, <2>10, <2>11
      <4> QED BY <3>1, <4>1, <2>6 DEF Settled, Pair
    <3>2. CASE r.args[2] # None
      <4>1. PICK k \in Pair(r, consents) : consents[k] = r.args[2]
        BY <3>2, <2>10, <2>11
      <4>2. k = r.args[1]
        BY <3>2, <4>1, <2>7, <2>8 DEF SwapTyped, ConsentsKeyed
      <4>3. <<"consents", r.args[1]>> \in q.rows
        BY <4>1, <4>2, <2>6, <2>7
      <4> QED BY <3>2, <4>1, <4>2, <4>3, <2>6 DEF Settled, Pair
    <3> QED BY <3>1, <3>2
  <2>13. Settled(After(txn[t], none, S, none), consents)
    BY <2>1, <2>5, <2>12
  <2>14. Swapping(t)'
    BY <1>1, <1>2, <1>3, <2>4, <2>13, SwappingAdvances
  <2> QED BY <1>2, <2>3, <2>14, RowsKept
<1> QED BY <1>4, <1>5

\* Claim: the consent found names the pair that the rest of the withdrawal revokes.
LEMMA ClaimKept ==
    ASSUME Serial, NEW t \in Txns, Claim(t)
    PROVE  Kept(t)
<1>1. Shape(txn[t]) /\ Sound(t) /\ txn = [u \in Txns |-> txn[u]] /\ LocksExclude
  BY DEF Serial, Sound
<1>2. txn[t].left # <<>> /\ Head(txn[t].left)[1] = "claim" /\ UNCHANGED storeVars
  BY VerbIs DEF Claim, Runs
<1>3. PICK r : r = txn[t]
  OBVIOUS
<1>4. Unclaimed(r) /\ Shape(r)
  BY <1>1, <1>2, <1>3, Phase
<1>5. PICK rec : rec = consents[r.args[1]]
  OBVIOUS
<1>6. CASE rec = None
  BY <1>2, <1>3, <1>5, <1>6, CloseKept DEF Claim
<1>7. CASE rec # None
  <2>1. rec.client_id \in ClientIds /\ rec.subject \in Subjects
    BY <1>4, <1>5, <1>7 DEF Unclaimed, Serial, TypeOK, Option, ConsentRecord
  <2>2. PICK c, s, row : c = rec.client_id /\ s = rec.subject /\ row = Object(t)
    OBVIOUS
  <2>3. row = <<"consents", r.args[1]>>
    BY <1>3, <1>4, <2>2 DEF Unclaimed, Object
  <2>4. PICK q : q = [r EXCEPT !.left = WithdrawalProgram(c, s), !.args = r.args \o <<c, s>>,
                               !.rows = {row}, !.gone = {row}]
    OBVIOUS
  <2>5. txn' = [txn EXCEPT ![t] = q]
    <3>1. txn' = [txn EXCEPT ![t].left = WithdrawalProgram(c, s), ![t].args = @ \o <<c, s>>,
                             ![t].rows = {row}, ![t].gone = {row}]
      BY <1>3, <1>5, <1>7, <2>2, Zenon DEF Claim
    <3> QED BY <1>3, <2>4, <3>1
  <2>6. /\ txn'[t] = q /\ txn' = [u \in Txns |-> txn'[u]]
        /\ \A u \in Txns : u # t => txn'[u] = txn[u]
    BY <1>1, <2>5
  <2>7. r.snapshot = None
    BY <1>2, <1>3, <1>4 DEF Shape
  <2>8. /\ q = [f \in Fields |-> q[f]] /\ q.op = r.op /\ q.left = WithdrawalProgram(c, s)
        /\ q.args = r.args \o <<c, s>> /\ q.rows = {row} /\ q.gone = {row}
        /\ q.advisory = r.advisory /\ q.snapshot = None
    BY <1>4, <2>4, <2>7 DEF Shape, Fields
  <2>9. q.args[2] = r.args[2] /\ q.args[3] = c /\ q.args[4] = s /\ q.op = "revoke_consent"
    <3>1. PICK k, w : r.args = <<k, w>> /\ w \in RevocationWindow(Nat)
      BY <1>4 DEF Unclaimed
    <3>2. q.args = <<k, w>> \o <<c, s>>
      BY <3>1, <2>8
    <3>3. /\ (<<k, w>> \o <<c, s>>)[2] = w
          /\ (<<k, w>> \o <<c, s>>)[3] = c
          /\ (<<k, w>> \o <<c, s>>)[4] = s
      OBVIOUS
    <3>4. q.args[2] = w /\ q.args[3] = c /\ q.args[4] = s
      BY <3>2, <3>3, Zenon
    <3>5. r.args[2] = w
      BY <3>1
    <3>6. q.op = "revoke_consent"
      BY <1>4, <2>8 DEF Unclaimed
    <3> QED BY <3>4, <3>5, <3>6
  <2>10. /\ Program(q.left)
         /\ Pending(q) = {<<"exclusive", ConsentKey(c, s)>>,
                          <<"lock", <<"consent_barriers", <<c, s>> >> >>, <<"commit">>}
                         \cup {<<"delete", x>> : x \in {"tokens", "refresh", "codes", "devices"}}
    <3>1. /\ Program(WithdrawalProgram(c, s))
          /\ Listed(WithdrawalProgram(c, s)) =
                 {<<"exclusive", ConsentKey(c, s)>>,
                  <<"lock", <<"consent_barriers", <<c, s>> >> >>, <<"commit">>}
                 \cup {<<"delete", x>> : x \in {"tokens", "refresh", "codes", "devices"}}
      BY RevocationPrograms, Zenon
    <3> QED BY <2>8, <3>1 DEF Pending
  <2>11. Shape(q)
    BY <2>8, <2>10 DEF Shape
  <2>12. RevocationTyped(q) /\ RevocationKey(q) = ConsentKey(c, s)
    BY <1>4, <2>1, <2>2, <2>9 DEF RevocationTyped, RevocationKey, Unclaimed
  <2>13. /\ Verbs(q, {"exclusive", "lock", "delete", "commit"})
         /\ \A x \in Pending(q) : x[1] = "delete" =>
               x = <<"delete", x[2]>> /\ (x[2] = "clients" => q.op = "delete_client")
    BY <2>10 DEF Verbs
  <2>14. Will(q, <<"exclusive", RevocationKey(q)>>, Excludes(q))
    BY <2>10, <2>12 DEF Will
  <2>15. RevokesSafely(q)
    <3>1. q.gone = {row} /\ q.rows = {row}
      BY <2>8
    <3>2. row = <<row[1], row[2]>> /\ row[1] # "clients"
      BY <2>3
    <3> QED BY <3>1, <3>2, <2>12, <2>13, <2>14 DEF RevokesSafely
  <2>16. Cascades(q, "tokens", tokens) /\ Cascades(q, "refresh", refresh)
    BY <2>3, <2>8, <2>10 DEF Cascades, Will
  <2>17. UNCHANGED <<tokens, refresh, pushed>>
    BY <1>2 DEF storeVars, tokenMaps
  <2>18. Revoking(t)'
    BY <2>6, <2>9, <2>15, <2>16, <2>17 DEF Revoking
  <2>19. Sound(t)'
    BY <2>6, <2>11, <2>18 DEF Sound
  <2>20. LocksExclude'
    <3>1. PICK none, R : none = {} /\ R = {row}
      OBVIOUS
    <3>2. /\ txn'[t].advisory \subseteq txn[t].advisory \cup none
          /\ txn'[t].rows \subseteq txn[t].rows \cup R
      BY <1>3, <2>6, <2>8, <3>1
    <3>3. \A u \in Txns : \A key : u # t =>
              /\ <<"exclusive", key>> \in none =>
                     ~Holds(u, "exclusive", key) /\ ~Holds(u, "shared", key)
              /\ <<"shared", key>> \in none => ~Holds(u, "exclusive", key)
      BY <3>1
    <3>4. Blockers(t) = {} /\ Wanted(t) = R
      BY <2>2, <3>1 DEF Claim, Runs, Wanted
    <3>5. \A u \in Txns : u # t => R \cap txn[u].rows = {}
      BY <3>4 DEF Blockers
    <3>6. \A u \in Txns : u # t => txn'[u] = txn[u]
      BY <2>6
    <3> QED BY <1>1, <3>2, <3>3, <3>5, <3>6, LocksKept
  <2> QED BY <1>2, <2>6, <2>19, <2>20 DEF Kept
<1> QED BY <1>6, <1>7

-----------------------------------------------------------------------------
(***************************************************************************)
(* A call begins                                                            *)
(***************************************************************************)
\* A transaction that has just begun holds no lock and has all of its program before it.
LEMMA BeginFacts ==
    ASSUME Serial, NEW t \in Txns, NEW op, NEW args, NEW program, Begin(t, op, args, program)
    PROVE  /\ txn' = [u \in Txns |-> txn'[u]]
           /\ \A u \in Txns : u # t => txn'[u] = txn[u]
           /\ txn'[t] = [f \in Fields |-> txn'[t][f]]
           /\ txn'[t].op = op /\ txn'[t].args = args /\ txn'[t].left = program
           /\ txn'[t].advisory = {} /\ txn'[t].rows = {} /\ txn'[t].gone = {}
           /\ txn'[t].snapshot = None
           /\ UNCHANGED storeVars
<1>1. PICK r : r = Closed
  OBVIOUS
<1>2. PICK q : q = [r EXCEPT !.op = op, !.args = args, !.left = program]
  OBVIOUS
<1>3. txn' = [txn EXCEPT ![t] = q] /\ UNCHANGED storeVars
  BY <1>1, <1>2 DEF Begin
<1>4. /\ r = [f \in Fields |-> r[f]] /\ r.advisory = {} /\ r.rows = {} /\ r.gone = {}
      /\ r.snapshot = None
  BY <1>1, ClosedShape DEF Closed, Shape
<1>5. /\ q = [f \in Fields |-> q[f]] /\ q.op = op /\ q.args = args /\ q.left = program
      /\ q.advisory = {} /\ q.rows = {} /\ q.gone = {} /\ q.snapshot = None
  BY <1>2, <1>4 DEF Fields
<1>6. txn = [u \in Txns |-> txn[u]]
  BY DEF Serial
<1>7. /\ txn'[t] = q /\ txn' = [u \in Txns |-> txn'[u]]
      /\ \A u \in Txns : u # t => txn'[u] = txn[u]
  BY <1>3, <1>6
<1> QED BY <1>3, <1>5, <1>7

\* Its fields.
LEMMA BeginRecord ==
    ASSUME Serial, NEW t \in Txns, NEW op, NEW args, NEW program, Begin(t, op, args, program)
    PROVE  /\ txn'[t].op = op /\ txn'[t].args = args /\ txn'[t].left = program
           /\ txn'[t].rows = {} /\ txn'[t].gone = {} /\ txn'[t].snapshot = None
  BY BeginFacts

\* A call keeps the invariant when its program is one of a kind.
LEMMA BeginKept ==
    ASSUME Serial, NEW t \in Txns, NEW op, NEW args, NEW program, Begin(t, op, args, program),
           Program(program),
           Writing(t)' \/ Unclaimed(txn[t])' \/ Revoking(t)' \/ Swapping(t)'
    PROVE  Kept(t)
<1>1. /\ txn' = [u \in Txns |-> txn'[u]]
      /\ \A u \in Txns : u # t => txn'[u] = txn[u]
      /\ txn'[t] = [f \in Fields |-> txn'[t][f]]
      /\ txn'[t].left = program
      /\ txn'[t].advisory = {} /\ txn'[t].rows = {}
      /\ txn'[t].snapshot = None
      /\ UNCHANGED storeVars
  BY BeginFacts
<1>2. Shape(txn'[t])
  BY <1>1 DEF Shape
<1>3. Sound(t)'
  BY <1>2 DEF Sound
<1>4. PICK none : none = {}
  OBVIOUS
<1>5. /\ txn'[t].advisory \subseteq txn[t].advisory \cup none
      /\ txn'[t].rows \subseteq txn[t].rows \cup none
  BY <1>1
<1>6. /\ \A u \in Txns : u # t => none \cap txn[u].rows = {}
      /\ \A u \in Txns : \A key : u # t =>
             /\ <<"exclusive", key>> \in none =>
                    ~Holds(u, "exclusive", key) /\ ~Holds(u, "shared", key)
             /\ <<"shared", key>> \in none => ~Holds(u, "exclusive", key)
  BY <1>4
<1>7. LocksExclude /\ \A u \in Txns : u # t => txn'[u] = txn[u]
  BY <1>1 DEF Serial
<1>8. LocksExclude'
  BY <1>5, <1>6, <1>7, LocksKept
<1> QED BY <1>1, <1>3, <1>8 DEF Kept

\* The program of a guarded write takes every lock that the write needs.
LEMMA GuardedBegins ==
    ASSUME NEW r, NEW f, NEW s, NEW row, WriteTyped(r), r.op # "rotate",
           r.left = GuardedWrite(r.args[2].client_id, f, s, row), TargetRows(r) = {row},
           ScopeKeys(r) = {ClientKey(r.args[2].client_id)}
                          \cup {FamilyKey(g) : g \in {f} \ {None}}
                          \cup {ConsentKey(r.args[2].client_id, v) : v \in {s} \ {None}}
    PROVE  Program(r.left) /\ WritesSafely(r) /\ <<"check">> \in Pending(r)
<1> DEFINE c == r.args[2].client_id
<1> HIDE DEF c
<1>1. /\ Program(r.left)
      /\ Pending(r) = Listed(lock_barrier_scopes(c, f, s))
                      \cup {<<"check">>, <<"lock", row>>, <<"commit">>}
  BY GuardedProgram DEF Pending, c
<1>2. Listed(lock_barrier_scopes(c, f, s)) =
          {<<"shared", ClientKey(c)>>}
          \cup {<<"shared", FamilyKey(g)>> : g \in {f} \ {None}}
          \cup {<<"shared", ConsentKey(c, v)>> : v \in {s} \ {None}}
  BY ScopeLocks
<1>3. \A x \in Listed(lock_barrier_scopes(c, f, s)) : x[1] = "shared"
  BY <1>2
<1>4. /\ Verbs(r, {"shared", "check", "lock", "compare", "commit"})
      /\ \A x \in Pending(r) : x[1] # "compare"
  BY <1>1, <1>3 DEF Verbs
<1>5. \A key \in ScopeKeys(r) : <<"shared", key>> \in Listed(lock_barrier_scopes(c, f, s))
  BY <1>2 DEF c
<1>6. \A x \in TargetRows(r) : <<"lock", x>> \in Pending(r)
  BY <1>1
<1> QED BY <1>1, <1>4, <1>5, <1>6 DEF WritesSafely, Will

\* put_token, put_refresh_token and put_pushed_authorization_request.
LEMMA PutKept ==
    ASSUME Serial, NEW t \in Txns, BeginPutToken(t) \/ BeginPutRefresh(t) \/ BeginPutPushed(t)
    PROVE  Kept(t)
<1>0. CallsTyped(Calls)
  BY WorkloadAssumption DEF Serial, Calls
<1>1. ASSUME NEW op \in {"put_token", "put_refresh_token", "put_pushed"}, NEW args, NEW f, NEW s,
             NEW row, Begin(t, op, args, GuardedWrite(args[2].client_id, f, s, row)),
             \A r : r.op = op /\ r.args = args =>
                 /\ WriteTyped(r) /\ TargetRows(r) = {row}
                 /\ ScopeKeys(r) = {ClientKey(args[2].client_id)}
                                   \cup {FamilyKey(g) : g \in {f} \ {None}}
                                   \cup {ConsentKey(args[2].client_id, v) : v \in {s} \ {None}}
      PROVE  Kept(t)
  <2>1. PICK r, program : r = txn'[t] /\ program = GuardedWrite(args[2].client_id, f, s, row)
    OBVIOUS
  <2>2. r.op = op /\ r.args = args /\ r.left = GuardedWrite(args[2].client_id, f, s, row)
    <3>1. Begin(t, op, args, program)
      BY <1>1, <2>1
    <3>2. txn'[t].op = op /\ txn'[t].args = args /\ txn'[t].left = program
      BY <3>1, BeginRecord
    <3> QED BY <2>1, <3>2
  <2>3. Program(r.left) /\ WritesSafely(r) /\ <<"check">> \in Pending(r)
    BY <1>1, <2>2, GuardedBegins
  <2>4. Writing(t)'
    BY <2>1, <2>2, <2>3 DEF Writing, Will, Compared
  <2> QED BY <1>1, <2>2, <2>3, <2>4, BeginKept
<1>2. CASE BeginPutToken(t)
  <2>1. PICK args \in Calls.put_token :
            Begin(t, "put_token", args,
                  GuardedWrite(args[2].client_id, args[2].family_id, args[2].subject,
                               <<"tokens", args[1]>>))
    BY <1>2 DEF BeginPutToken
  <2>2. args \in AccessTokens \X IssuedToken(Nat)
    BY <1>0, <2>1 DEF CallsTyped
  <2>3. ASSUME NEW r, r.op = "put_token", r.args = args
        PROVE  /\ WriteTyped(r) /\ TargetRows(r) = {<<"tokens", args[1]>>}
               /\ ScopeKeys(r) = {ClientKey(args[2].client_id)}
                      \cup {FamilyKey(g) : g \in {args[2].family_id} \ {None}}
                      \cup {ConsentKey(args[2].client_id, v) : v \in {args[2].subject} \ {None}}
    BY <2>2, <2>3 DEF WriteTyped, TargetRows, ScopeKeys
  <2> QED BY <1>1, <2>1, <2>3
<1>3. CASE BeginPutRefresh(t)
  <2>1. PICK args \in Calls.put_refresh_token :
            Begin(t, "put_refresh_token", args,
                  GuardedWrite(args[2].client_id, args[2].family_id, args[2].subject,
                               <<"refresh", args[1]>>))
    BY <1>3 DEF BeginPutRefresh
  <2>2. args \in RefreshTokens \X RefreshTokenRecord(Nat)
    BY <1>0, <2>1 DEF CallsTyped
  <2>3. ASSUME NEW r, r.op = "put_refresh_token", r.args = args
        PROVE  /\ WriteTyped(r) /\ TargetRows(r) = {<<"refresh", args[1]>>}
               /\ ScopeKeys(r) = {ClientKey(args[2].client_id)}
                      \cup {FamilyKey(g) : g \in {args[2].family_id} \ {None}}
                      \cup {ConsentKey(args[2].client_id, v) : v \in {args[2].subject} \ {None}}
    BY <2>2, <2>3 DEF WriteTyped, TargetRows, ScopeKeys
  <2> QED BY <1>1, <2>1, <2>3
<1>4. CASE BeginPutPushed(t)
  <2>1. PICK args \in Calls.put_pushed :
            Begin(t, "put_pushed", args,
                  GuardedWrite(args[2].client_id, None, None, <<"pushed", args[1]>>))
    BY <1>4 DEF BeginPutPushed
  <2>2. args \in RequestUris \X PushedAuthorizationRequest(Nat)
    BY <1>0, <2>1 DEF CallsTyped
  <2>3. ASSUME NEW r, r.op = "put_pushed", r.args = args
        PROVE  /\ WriteTyped(r) /\ TargetRows(r) = {<<"pushed", args[1]>>}
               /\ ScopeKeys(r) = {ClientKey(args[2].client_id)}
                      \cup {FamilyKey(g) : g \in {None} \ {None}}
                      \cup {ConsentKey(args[2].client_id, v) : v \in {None} \ {None}}
    BY <2>2, <2>3 DEF WriteTyped, TargetRows, ScopeKeys
  <2> QED BY <1>1, <2>1, <2>3
<1> QED BY <1>2, <1>3, <1>4

\* rotate_refresh_token.
LEMMA RotateKept ==
    ASSUME Serial, NEW t \in Txns, BeginRotate(t)
    PROVE  Kept(t)
<1>0. CallsTyped(Calls)
  BY WorkloadAssumption DEF Serial, Calls
<1>1. PICK args \in Calls.rotate :
          Begin(t, "rotate", args, RotateProgram(args[2], args[1], args[3], args[4]))
  BY DEF BeginRotate
<1>2. args \in RefreshTokens \X RefreshTokenRecord(Nat) \X AccessTokens
                 \X Option(RefreshTokens) \X Nat
  BY <1>0, <1>1 DEF CallsTyped
<1>3. PICK r : r = txn'[t]
  OBVIOUS
<1>4. /\ r.op = "rotate" /\ r.args = args
      /\ r.left = RotateProgram(args[2], args[1], args[3], args[4])
  <2>1. PICK op, program : op = "rotate"
                           /\ program = RotateProgram(args[2], args[1], args[3], args[4])
    OBVIOUS
  <2>2. Begin(t, op, args, program)
    BY <1>1, <2>1
  <2>3. txn'[t].op = op /\ txn'[t].args = args /\ txn'[t].left = program
    BY <2>2, BeginRecord
  <2> QED BY <1>3, <2>1, <2>3
<1> DEFINE rec == args[2]
           p == lock_barrier_scopes(rec.client_id, rec.family_id, rec.subject)
<1>5. /\ Program(r.left)
      /\ Pending(r) = Listed(p)
                      \cup {<<"check">>, <<"compare", <<"refresh", args[1]>> >>,
                            <<"lock", <<"tokens", args[3]>> >>, <<"commit">>}
                      \cup {<<"lock", <<"refresh", k>> >> : k \in {args[4]} \ {None}}
  BY <1>4, RotationProgram DEF Pending
<1>6. Listed(p) = {<<"shared", ClientKey(rec.client_id)>>}
                  \cup {<<"shared", FamilyKey(g)>> : g \in {rec.family_id} \ {None}}
                  \cup {<<"shared", ConsentKey(rec.client_id, v)>> : v \in {rec.subject} \ {None}}
  BY ScopeLocks
<1> HIDE DEF p
<1>7. \A x \in Listed(p) : x[1] = "shared"
  BY <1>6
<1>8. /\ Verbs(r, {"shared", "check", "lock", "compare", "commit"})
      /\ \A x \in Pending(r) : x[1] = "compare" => x = <<"compare", <<"refresh", args[1]>> >>
  BY <1>5, <1>7 DEF Verbs
<1>9. \A key \in ScopeKeys(r) : <<"shared", key>> \in Pending(r)
  <2>1. ScopeKeys(r) = {ClientKey(rec.client_id)}
                       \cup {FamilyKey(g) : g \in {rec.family_id} \ {None}}
                       \cup {ConsentKey(rec.client_id, v) : v \in {rec.subject} \ {None}}
    BY <1>4 DEF ScopeKeys
  <2> QED BY <1>5, <1>6, <2>1
<1>10. \A row \in TargetRows(r) :
           <<"lock", row>> \in Pending(r) \/ <<"compare", row>> \in Pending(r)
  <2>1. TargetRows(r) = {<<"refresh", args[1]>>, <<"tokens", args[3]>>}
                        \cup {<<"refresh", n>> : n \in {args[4]} \ {None}}
    BY <1>4 DEF TargetRows
  <2> QED BY <1>5, <2>1
<1>11. WriteTyped(r)
  BY <1>2, <1>4 DEF WriteTyped
<1>12. WritesSafely(r)
  BY <1>4, <1>8, <1>9, <1>10, <1>11 DEF WritesSafely, Will
<1>13. <<"check">> \in Pending(r) /\ <<"compare", <<"refresh", r.args[1]>> >> \in Pending(r)
  BY <1>4, <1>5
<1>14. Writing(t)'
  BY <1>3, <1>12, <1>13 DEF Writing, Will, Compared
<1> QED BY <1>1, <1>4, <1>5, <1>14, BeginKept

\* delete_client and revoke_token_family.
LEMMA RevokeKept ==
    ASSUME Serial, NEW t \in Txns, BeginDeleteClient(t) \/ BeginRevokeFamily(t)
    PROVE  Kept(t)
<1>0. CallsTyped(Calls)
  BY WorkloadAssumption DEF Serial, Calls
<1>1. ASSUME NEW op, NEW args, NEW program, Begin(t, op, args, program), Program(program),
             NEW key, NEW row, NEW tables,
             Listed(program) = {<<"exclusive", key>>, <<"lock", row>>, <<"commit">>}
                               \cup {<<"delete", x>> : x \in tables},
             "tokens" \in tables, "refresh" \in tables,
             op = "delete_client" => "pushed" \in tables,
             "clients" \in tables => op = "delete_client",
             \A r : r.op = op /\ r.args = args => RevocationTyped(r) /\ RevocationKey(r) = key
      PROVE  Kept(t)
  <2>1. PICK r : r = txn'[t]
    OBVIOUS
  <2>2. /\ r.op = op /\ r.args = args /\ r.left = program /\ r.gone = {} /\ r.rows = {}
        /\ r.snapshot = None
    BY <1>1, <2>1, BeginFacts
  <2>3. Pending(r) = {<<"exclusive", key>>, <<"lock", row>>, <<"commit">>}
                     \cup {<<"delete", x>> : x \in tables}
    BY <1>1, <2>2 DEF Pending
  <2>4. RevocationTyped(r) /\ RevocationKey(r) = key
    BY <1>1, <2>2
  <2>5. /\ Verbs(r, {"exclusive", "lock", "delete", "commit"})
        /\ \A s \in Pending(r) : s[1] = "delete" =>
               s = <<"delete", s[2]>> /\ (s[2] = "clients" => r.op = "delete_client")
    BY <1>1, <2>2, <2>3 DEF Verbs
  <2>6. Will(r, <<"exclusive", RevocationKey(r)>>, Excludes(r))
    BY <2>3, <2>4 DEF Will
  <2>7. RevokesSafely(r)
    BY <2>2, <2>4, <2>5, <2>6 DEF RevokesSafely
  <2>8. ASSUME NEW table \in tables, NEW map PROVE Cascades(r, table, map)
    BY <2>2, <2>3 DEF Cascades, Will
  <2>9. Revoking(t)'
    BY <1>1, <2>1, <2>2, <2>7, <2>8 DEF Revoking
  <2> QED BY <1>1, <2>9, BeginKept
<1>2. CASE BeginDeleteClient(t)
  <2>1. PICK args \in Calls.delete_client :
            Begin(t, "delete_client", args, DeleteClientProgram(args[1]))
    BY <1>2 DEF BeginDeleteClient
  <2>2. args \in ClientIds \X RevocationWindow(Nat)
    BY <1>0, <2>1 DEF CallsTyped
  <2>3. ASSUME NEW r, r.op = "delete_client", r.args = args
        PROVE  RevocationTyped(r) /\ RevocationKey(r) = ClientKey(args[1])
    BY <2>2, <2>3 DEF RevocationTyped, RevocationKey
  <2> DEFINE tables == {"consents", "tokens", "refresh", "codes", "devices", "pushed", "clients"}
             program == DeleteClientProgram(args[1])
             key == ClientKey(args[1])
             row == <<"client_barriers", args[1]>>
  <2>4. /\ Program(program)
        /\ Listed(program) = {<<"exclusive", key>>, <<"lock", row>>, <<"commit">>}
                             \cup {<<"delete", x>> : x \in tables}
    BY RevocationPrograms, Zenon
  <2>5. PICK op : op = "delete_client"
    OBVIOUS
  <2>6. /\ "tokens" \in tables /\ "refresh" \in tables
        /\ op = "delete_client" => "pushed" \in tables
        /\ "clients" \in tables => op = "delete_client"
    BY <2>5
  <2> HIDE DEF tables, program, key, row
  <2>7. /\ Begin(t, op, args, program)
        /\ \A r : r.op = op /\ r.args = args => RevocationTyped(r) /\ RevocationKey(r) = key
    BY <2>1, <2>3, <2>5 DEF program, key
  <2> QED BY <1>1, <2>4, <2>6, <2>7
<1>3. CASE BeginRevokeFamily(t)
  <2>1. PICK args \in Calls.revoke_family :
            Begin(t, "revoke_family", args, RevokeFamilyProgram(args[1]))
    BY <1>3 DEF BeginRevokeFamily
  <2>2. args \in FamilyIds \X RevocationWindow(Nat)
    BY <1>0, <2>1 DEF CallsTyped
  <2>3. ASSUME NEW r, r.op = "revoke_family", r.args = args
        PROVE  RevocationTyped(r) /\ RevocationKey(r) = FamilyKey(args[1])
    BY <2>2, <2>3 DEF RevocationTyped, RevocationKey
  <2> DEFINE tables == {"tokens", "refresh"}
             program == RevokeFamilyProgram(args[1])
             key == FamilyKey(args[1])
             row == <<"family_barriers", args[1]>>
  <2>4. /\ Program(program)
        /\ Listed(program) = {<<"exclusive", key>>, <<"lock", row>>, <<"commit">>}
                             \cup {<<"delete", x>> : x \in tables}
    BY RevocationPrograms, Zenon
  <2>5. PICK op : op = "revoke_family"
    OBVIOUS
  <2>6. /\ "tokens" \in tables /\ "refresh" \in tables
        /\ op = "delete_client" => "pushed" \in tables
        /\ "clients" \in tables => op = "delete_client"
    BY <2>5
  <2> HIDE DEF tables, program, key, row
  <2>7. /\ Begin(t, op, args, program)
        /\ \A r : r.op = op /\ r.args = args => RevocationTyped(r) /\ RevocationKey(r) = key
    BY <2>1, <2>3, <2>5 DEF program, key
  <2> QED BY <1>1, <2>4, <2>6, <2>7
<1> QED BY <1>2, <1>3

\* revoke_consent and compare_and_swap_consent.
LEMMA ConsentKept ==
    ASSUME Serial, NEW t \in Txns, BeginRevokeConsent(t) \/ BeginSwapConsent(t)
    PROVE  Kept(t)
<1>0. CallsTyped(Calls)
  BY WorkloadAssumption DEF Serial, Calls
<1>1. CASE BeginRevokeConsent(t)
  <2>1. PICK args \in Calls.revoke_consent :
            Begin(t, "revoke_consent", args, << <<"claim", <<"consents", args[1]>> >> >>)
    BY <1>1 DEF BeginRevokeConsent
  <2>2. args \in ConsentIds \X RevocationWindow(Nat)
    BY <1>0, <2>1 DEF CallsTyped
  <2> DEFINE s == <<"claim", <<"consents", args[1]>> >>
  <2>3. Program(<<s>>)
    BY Single, Zenon
  <2>4. txn'[t].op = "revoke_consent" /\ txn'[t].args = args /\ txn'[t].left = <<s>>
    <3>1. PICK op, program : op = "revoke_consent" /\ program = <<s>>
      OBVIOUS
    <3>2. Begin(t, op, args, program)
      BY <2>1, <3>1
    <3>3. txn'[t].op = op /\ txn'[t].args = args /\ txn'[t].left = program
      BY <3>2, BeginRecord
    <3> QED BY <3>1, <3>3
  <2>5. Unclaimed(txn'[t])
    BY <2>2, <2>4 DEF Unclaimed
  <2> QED BY <2>1, <2>3, <2>5, BeginKept
<1>2. CASE BeginSwapConsent(t)
  <2>1. PICK args \in Calls.swap_consent :
            Begin(t, "swap_consent", args, SwapConsentProgram(args[1], args[3]))
    BY <1>2 DEF BeginSwapConsent
  <2>2. /\ args \in ConsentIds \X Option(ConsentRecord(Nat)) \X ConsentRecord(Nat)
        /\ \A rec \in {args[2], args[3]} \ {None} : rec.consent_id = args[1]
    BY <1>0, <2>1 DEF CallsTyped
  <2>3. PICK r : r = txn'[t]
    OBVIOUS
  <2>4. /\ r.op = "swap_consent" /\ r.args = args /\ r.snapshot = None
        /\ r.left = SwapConsentProgram(args[1], args[3])
    BY <2>1, <2>3, BeginRecord
  <2>5. /\ Program(r.left)
        /\ Pending(r) = {<<"exclusive", ConsentSwapKey(args[3].client_id, args[3].subject)>>,
                         <<"select">>, <<"lock", <<"consents", args[1]>> >>, <<"commit">>}
    BY <2>4, SwapProgram DEF Pending
  <2>6. SwapTyped(r)
    BY <2>2, <2>4, WorkloadAssumption DEF SwapTyped
  <2>7. Verbs(r, {"exclusive", "select", "lock", "commit"})
    BY <2>5 DEF Verbs
  <2>8. SwapsSafely(r) /\ <<"select">> \in Pending(r)
    BY <2>4, <2>5, <2>6, <2>7 DEF SwapsSafely, SwapKey, Will
  <2>9. Selecting(r, consents)
    BY <2>4 DEF Selecting
  <2>10. consents' = consents
    BY <2>1, BeginFacts DEF storeVars
  <2>11. Swapping(t)'
    BY <2>3, <2>8, <2>9, <2>10 DEF Swapping, Will
  <2> QED BY <2>1, <2>4, <2>5, <2>11, BeginKept
<1> QED BY <1>1, <1>2


-----------------------------------------------------------------------------
(***************************************************************************)
(* What the other transactions may rely on                                  *)
(***************************************************************************)
\* The keys under which a barrier may come to cover a record of a grant.
GrantKeys(rec) ==
    {ClientKey(rec.client_id)}
    \cup {FamilyKey(f) : f \in {rec.family_id} \ {None}}
    \cup {ConsentKey(rec.client_id, s) : s \in {rec.subject} \ {None}}

\* The key under which a barrier may come to cover a pushed request.
PushKeys(rec) == {ClientKey(rec.client_id)}

\* The rows that t has locked stay as they are.
RowsHeld(t) ==
    /\ \A k \in AccessTokens : <<"tokens", k>> \in txn[t].rows => tokens'[k] = tokens[k]
    /\ \A k \in RefreshTokens : <<"refresh", k>> \in txn[t].rows => refresh'[k] = refresh[k]
    /\ \A k \in RequestUris : <<"pushed", k>> \in txn[t].rows => pushed'[k] = pushed[k]
    /\ \A k \in ConsentIds : <<"consents", k>> \in txn[t].rows => consents'[k] = consents[k]

\* No record appears under a key that t holds for itself.
NothingWritten(t) ==
    /\ \A k \in AccessTokens : tokens'[k] \notin {None, tokens[k]} =>
           \A key \in GrantKeys(tokens'[k]) : ~Holds(t, "exclusive", key)
    /\ \A k \in RefreshTokens : refresh'[k] \notin {None, refresh[k]} =>
           \A key \in GrantKeys(refresh'[k]) : ~Holds(t, "exclusive", key)
    /\ \A k \in RequestUris : pushed'[k] \notin {None, pushed[k]} =>
           \A key \in PushKeys(pushed'[k]) : ~Holds(t, "exclusive", key)
    /\ \A k \in ConsentIds : consents'[k] \notin {None, consents[k]} =>
           ~Holds(t, "exclusive", ConsentSwapKey(consents'[k].client_id, consents'[k].subject))

\* No revocation takes effect under a key that t shares.
NothingRevoked(t) ==
    /\ \A c \in ClientIds : Holds(t, "shared", ClientKey(c)) =>
           /\ client_barriers'[c] \in {None, client_barriers[c]}
           /\ clients'[c] = None => clients[c] = None
    /\ \A f \in FamilyIds : Holds(t, "shared", FamilyKey(f)) =>
           family_barriers'[f] \in {None, family_barriers[f]}
    /\ \A c \in ClientIds, s \in Subjects : Holds(t, "shared", ConsentKey(c, s)) =>
           consent_barriers'[<<c, s>>] \in {None, consent_barriers[<<c, s>>]}

\* A step of others that leaves t all it relies on.
Undisturbed(t) == txn'[t] = txn[t] /\ RowsHeld(t) /\ NothingWritten(t) /\ NothingRevoked(t)

\* A record that a barrier covers was covered before, when barriers were only dropped and no client
\* that the record names became absent.
LEMMA CoverStays ==
    ASSUME NEW c, NEW f, NEW s, NEW at, is_revoked(c, f, s, at)',
           client_barriers'[c] \in {None, client_barriers[c]},
           clients'[c] = None => clients[c] = None,
           f # None => family_barriers'[f] \in {None, family_barriers[f]},
           s # None => consent_barriers'[<<c, s>>] \in {None, consent_barriers[<<c, s>>]}
    PROVE  is_revoked(c, f, s, at)
  BY DEF is_revoked, covers

\* A guarded write may rely on its check and its comparison through the steps of others.
LEMMA WritingStays ==
    ASSUME NEW t, Writing(t), Undisturbed(t)
    PROVE  Writing(t)'
<1>1. PICK r : r = txn[t]
  OBVIOUS
<1>2. txn'[t] = r
  BY <1>1 DEF Undisturbed
<1>3. WriteTyped(r)
  BY <1>1 DEF Writing, WritesSafely
<1>4. ASSUME Shares(r), barrier_covers(t)' PROVE barrier_covers(t)
  <2> DEFINE rec == r.args[2]
  <2>1. \A key \in ScopeKeys(r) : Holds(t, "shared", key)
    BY <1>1, <1>4 DEF Shares, Holds
  <2>2. CASE r.op = "put_pushed"
    <3>1. rec \in PushedAuthorizationRequest(Nat) /\ rec.client_id \in ClientIds
      BY <1>3, <2>2 DEF WriteTyped, PushedAuthorizationRequest
    <3>2. Holds(t, "shared", ClientKey(rec.client_id))
      BY <2>1 DEF ScopeKeys
    <3>3. is_revoked(rec.client_id, None, None, rec.pushed_at)'
      BY <1>2, <1>4, <2>2 DEF barrier_covers, PushRefused
    <3>4. is_revoked(rec.client_id, None, None, rec.pushed_at)
      BY <3>1, <3>2, <3>3, CoverStays DEF Undisturbed, NothingRevoked
    <3> QED BY <1>1, <2>2, <3>4 DEF barrier_covers, PushRefused
  <2>3. CASE r.op # "put_pushed"
    <3>1. /\ rec.client_id \in ClientIds /\ rec.family_id \in Option(FamilyIds)
          /\ rec.subject \in Option(Subjects)
      BY <1>3, <2>3 DEF WriteTyped, IssuedToken, RefreshTokenRecord, Option
    <3>2. /\ Holds(t, "shared", ClientKey(rec.client_id))
          /\ rec.family_id # None => Holds(t, "shared", FamilyKey(rec.family_id))
          /\ rec.subject # None => Holds(t, "shared", ConsentKey(rec.client_id, rec.subject))
      BY <2>1, <2>3 DEF ScopeKeys
    <3>3. Refused(rec)'
      BY <1>2, <1>4, <2>3 DEF barrier_covers
    <3>4. /\ client_barriers'[rec.client_id] \in {None, client_barriers[rec.client_id]}
          /\ clients'[rec.client_id] = None => clients[rec.client_id] = None
          /\ rec.family_id # None =>
                 family_barriers'[rec.family_id] \in {None, family_barriers[rec.family_id]}
          /\ rec.subject # None => consent_barriers'[<<rec.client_id, rec.subject>>]
                 \in {None, consent_barriers[<<rec.client_id, rec.subject>>]}
      BY <3>1, <3>2 DEF Undisturbed, NothingRevoked, Option
    <3>5. Refused(rec)
      BY <3>3, <3>4, CoverStays DEF Refused
    <3> QED BY <1>1, <2>3, <3>5 DEF barrier_covers
  <2> QED BY <2>2, <2>3
<1>5. Compared(r)'
  <2>1. Compared(r)
    BY <1>1 DEF Writing
  <2>2. r.op = "rotate" => r.args[1] \in RefreshTokens
    BY <1>3 DEF WriteTyped
  <2>3. (r.op = "rotate" /\ <<"refresh", r.args[1]>> \in r.rows) =>
            refresh'[r.args[1]] = refresh[r.args[1]]
    BY <1>1, <2>2 DEF Undisturbed, RowsHeld
  <2> QED BY <2>1, <2>3 DEF Compared, Will
<1>6. Will(r, <<"check">>, ~barrier_covers(t)' /\ Shares(r))
  BY <1>1, <1>4 DEF Writing, Will
<1>7. WritesSafely(r)
  BY <1>1 DEF Writing
<1> QED BY <1>2, <1>5, <1>6, <1>7 DEF Writing, Compared

\* A cascade over a table that gained no record in its scope is still complete.
LEMMA CascadeStays ==
    ASSUME NEW r, NEW table, NEW map, NEW later, NEW K, DOMAIN map = K, DOMAIN later = K,
           Cascades(r, table, map), r.gone \subseteq r.rows,
           \A k \in K : <<table, k>> \in r.rows => later[k] = map[k],
           \A k \in K : later[k] # None /\ InScope(r, later[k]) /\ Excludes(r) => later[k] = map[k]
    PROVE  Cascades(r, table, later)
<1>1. Excludes(r) => NamedBy(r, later) \subseteq NamedBy(r, map)
  BY DEF NamedBy
<1>2. \A k : <<table, k>> \in r.gone => k \in NamedBy(r, later)
  BY DEF Cascades, NamedBy
<1> QED BY <1>1, <1>2 DEF Cascades, Will

\* A revocation may rely on its cascades through the steps of others.
LEMMA RevokingStays ==
    ASSUME NEW t, TypeOK, TypeOK', Revoking(t), Undisturbed(t)
    PROVE  Revoking(t)'
<1>1. PICK r : r = txn[t]
  OBVIOUS
<1>2. txn'[t] = r
  BY <1>1 DEF Undisturbed
<1>3. RevokesSafely(r)
  BY <1>1 DEF Revoking
<1>4. r.gone \subseteq r.rows /\ RevocationTyped(r)
  BY <1>3 DEF RevokesSafely
<1>5. ASSUME NEW rec, InScope(r, rec), Excludes(r)
      PROVE  \E key \in GrantKeys(rec) : Holds(t, "exclusive", key)
  <2>1. Holds(t, "exclusive", RevocationKey(r))
    BY <1>1, <1>5 DEF Excludes, Holds
  <2>2. RevocationKey(r) \in GrantKeys(rec)
    BY <1>4, <1>5, WorkloadAssumption DEF RevocationTyped, RevocationKey, InScope, GrantKeys
  <2> QED BY <2>1, <2>2
<1>6. Cascades(r, "tokens", tokens)'
  <2>1. Cascades(r, "tokens", tokens)
    BY <1>1 DEF Revoking
  <2>2. DOMAIN tokens = AccessTokens /\ DOMAIN tokens' = AccessTokens
    BY DEF TypeOK
  <2>3. \A k \in AccessTokens : <<"tokens", k>> \in r.rows => tokens'[k] = tokens[k]
    BY <1>1 DEF Undisturbed, RowsHeld
  <2>4. \A k \in AccessTokens :
            tokens'[k] # None /\ InScope(r, tokens'[k]) /\ Excludes(r) => tokens'[k] = tokens[k]
    BY <1>5 DEF Undisturbed, NothingWritten
  <2>5. PICK later : later = tokens'
    OBVIOUS
  <2>6. Cascades(r, "tokens", later)
    BY <1>4, <2>1, <2>2, <2>3, <2>4, <2>5, CascadeStays
  <2> QED BY <2>5, <2>6
<1>7. Cascades(r, "refresh", refresh)'
  <2>1. Cascades(r, "refresh", refresh)
    BY <1>1 DEF Revoking
  <2>2. DOMAIN refresh = RefreshTokens /\ DOMAIN refresh' = RefreshTokens
    BY DEF TypeOK
  <2>3. \A k \in RefreshTokens : <<"refresh", k>> \in r.rows => refresh'[k] = refresh[k]
    BY <1>1 DEF Undisturbed, RowsHeld
  <2>4. \A k \in RefreshTokens :
            refresh'[k] # None /\ InScope(r, refresh'[k]) /\ Excludes(r) => refresh'[k] = refresh[k]
    BY <1>5 DEF Undisturbed, NothingWritten
  <2>5. PICK later : later = refresh'
    OBVIOUS
  <2>6. Cascades(r, "refresh", later)
    BY <1>4, <2>1, <2>2, <2>3, <2>4, <2>5, CascadeStays
  <2> QED BY <2>5, <2>6
<1>8. ASSUME r.op = "delete_client" PROVE Cascades(r, "pushed", pushed)'
  <2>1. Cascades(r, "pushed", pushed)
    BY <1>1, <1>8 DEF Revoking
  <2>2. DOMAIN pushed = RequestUris /\ DOMAIN pushed' = RequestUris
    BY DEF TypeOK
  <2>3. \A k \in RequestUris : <<"pushed", k>> \in r.rows => pushed'[k] = pushed[k]
    BY <1>1 DEF Undisturbed, RowsHeld
  <2>4. ASSUME NEW k \in RequestUris, pushed'[k] # None, InScope(r, pushed'[k]), Excludes(r)
        PROVE  pushed'[k] = pushed[k]
    <3>1. Holds(t, "exclusive", RevocationKey(r))
      BY <1>1, <2>4 DEF Excludes, Holds
    <3>2. RevocationKey(r) \in PushKeys(pushed'[k])
      BY <1>8, <2>4 DEF RevocationKey, InScope, PushKeys
    <3> QED BY <2>4, <3>1, <3>2 DEF Undisturbed, NothingWritten
  <2>5. PICK later : later = pushed'
    OBVIOUS
  <2>6. Cascades(r, "pushed", later)
    BY <1>4, <2>1, <2>2, <2>3, <2>4, <2>5, CascadeStays
  <2> QED BY <2>5, <2>6
<1> QED BY <1>2, <1>3, <1>6, <1>7, <1>8 DEF Revoking

\* A consent write may rely on its SELECT through the steps of others.
LEMMA SwappingStays ==
    ASSUME NEW t, TypeOK, TypeOK', Swapping(t), Undisturbed(t)
    PROVE  Swapping(t)'
<1>1. PICK r : r = txn[t]
  OBVIOUS
<1>2. txn'[t] = r
  BY <1>1 DEF Undisturbed
<1>3. SwapsSafely(r) /\ Selecting(r, consents)
      /\ Will(r, <<"select">>, OwnsPair(r) /\ Settled(r, consents))
  BY <1>1 DEF Swapping
<1>4. DOMAIN consents = ConsentIds /\ DOMAIN consents' = ConsentIds
  BY DEF TypeOK
<1>5. PICK map, later : map = consents /\ later = consents'
  OBVIOUS
<1>6. \A k \in ConsentIds : <<"consents", k>> \in r.rows => later[k] = map[k]
  BY <1>1, <1>5 DEF Undisturbed, RowsHeld
<1>7. ASSUME OwnsPair(r), NEW k \in Pair(r, later) PROVE k \in Pair(r, map) /\ later[k] = map[k]
  <2>1. /\ k \in ConsentIds /\ later[k] # None
        /\ ConsentSwapKey(later[k].client_id, later[k].subject) = SwapKey(r)
    BY <1>4, <1>5, <1>7 DEF Pair, OfConsent, OfClient, SwapKey
  <2>2. Holds(t, "exclusive", SwapKey(r))
    BY <1>1, <1>7 DEF OwnsPair, Holds
  <2>3. later[k] = map[k]
    BY <1>5, <2>1, <2>2 DEF Undisturbed, NothingWritten
  <2> QED BY <1>4, <1>5, <1>7, <2>3 DEF Pair, OfConsent, OfClient
<1>8. ASSUME OwnsPair(r), Settled(r, map) PROVE Settled(r, later)
  <2>1. CASE r.args[2] = None
    BY <1>7, <1>8, <2>1 DEF Settled
  <2>2. CASE r.args[2] # None
    <3>1. /\ r.args[1] \in Pair(r, map) /\ map[r.args[1]] = r.args[2]
          /\ <<"consents", r.args[1]>> \in r.rows
      BY <1>8, <2>2 DEF Settled
    <3>2. r.args[1] \in ConsentIds
      BY <1>4, <1>5, <3>1 DEF Pair, OfConsent, OfClient
    <3>3. later[r.args[1]] = map[r.args[1]]
      BY <1>6, <3>1, <3>2
    <3>4. r.args[1] \in Pair(r, later)
      BY <1>4, <1>5, <3>1, <3>3 DEF Pair, OfConsent, OfClient
    <3> QED BY <2>2, <3>1, <3>3, <3>4 DEF Settled
  <2> QED BY <2>1, <2>2
<1>9. Will(r, <<"select">>, OwnsPair(r) /\ Settled(r, later))
  BY <1>3, <1>5, <1>8 DEF Will
<1>10. Selecting(r, later)
  BY <1>3, <1>5, <1>7 DEF Selecting
<1> QED BY <1>2, <1>3, <1>5, <1>9, <1>10 DEF Swapping

\* So may every transaction.
LEMMA SoundStays ==
    ASSUME NEW t, TypeOK, TypeOK', Sound(t), Undisturbed(t)
    PROVE  Sound(t)'
<1>1. txn'[t] = txn[t]
  BY DEF Undisturbed
<1> QED BY <1>1, WritingStays, RevokingStays, SwappingStays DEF Sound


-----------------------------------------------------------------------------
(***************************************************************************)
(* Commits                                                                  *)
(***************************************************************************)
\* What a commit leaves to the others, and of the store.
Published(u) ==
    /\ TypeOK' /\ ConsentsKeyed' /\ OneConsentPerPair' /\ NoRowBehindBarrier'
    /\ \A t \in Txns : t # u => RowsHeld(t) /\ NothingWritten(t) /\ NothingRevoked(t)

\* Nothing but the commit is left of a transaction that is about to commit.
LEMMA LastStatement ==
    ASSUME NEW t, Sound(t), Verb(t) = "commit"
    PROVE  /\ \A s \in Pending(txn[t]) : s[1] = "commit"
           /\ Writing(t) \/ Revoking(t) \/ Swapping(t)
<1>1. txn[t].left # <<>> /\ Head(txn[t].left)[1] = "commit"
  BY DEF Verb, Open
<1>2. \A s \in Pending(txn[t]) : Rank(Head(txn[t].left)) <= Rank(s)
  BY <1>1, Advance DEF Sound
<1>3. Rank(Head(txn[t].left)) = 4
  BY <1>1 DEF Rank
<1>4. \A s \in Pending(txn[t]) : s[1] = "commit"
  BY <1>2, <1>3 DEF Rank
<1> QED BY <1>1, <1>4, Phase

\* What a guarded write and a rotation have established when they commit.
LEMMA WriteReady ==
    ASSUME NEW t, Writing(t), \A s \in Pending(txn[t]) : s[1] = "commit"
    PROVE  /\ WriteTyped(txn[t]) /\ Shares(txn[t]) /\ ~barrier_covers(t)
           /\ TargetRows(txn[t]) \subseteq txn[t].rows
           /\ txn[t].op = "rotate" => refresh[txn[t].args[1]] = txn[t].args[2]
<1>1. PICK r : r = txn[t]
  OBVIOUS
<1>2. /\ <<"check">> \notin Pending(r)
      /\ \A x : <<"lock", x>> \notin Pending(r) /\ <<"compare", x>> \notin Pending(r)
  BY <1>1
<1>3. WritesSafely(r) /\ Compared(r)
  BY <1>1 DEF Writing
<1>4. Shares(r) /\ ~barrier_covers(t)
  BY <1>1, <1>2 DEF Writing, Will
<1>5. TargetRows(r) \subseteq r.rows /\ WriteTyped(r)
  BY <1>2, <1>3 DEF WritesSafely, Will
<1>6. r.op = "rotate" => refresh[r.args[1]] = r.args[2]
  BY <1>2, <1>3 DEF Compared, Will
<1> QED BY <1>1, <1>4, <1>5, <1>6

\* What a revocation has established when it commits.
LEMMA RevocationReady ==
    ASSUME NEW t, Revoking(t), \A s \in Pending(txn[t]) : s[1] = "commit"
    PROVE  /\ RevokesSafely(txn[t]) /\ Excludes(txn[t])
           /\ \A k : <<"tokens", k>> \in txn[t].gone <=> k \in NamedBy(txn[t], tokens)
           /\ \A k : <<"refresh", k>> \in txn[t].gone <=> k \in NamedBy(txn[t], refresh)
           /\ txn[t].op = "delete_client" =>
                  \A k : <<"pushed", k>> \in txn[t].gone <=> k \in NamedBy(txn[t], pushed)
<1>1. PICK r : r = txn[t]
  OBVIOUS
<1>2. \A x : <<"delete", x>> \notin Pending(r)
  BY <1>1
<1>3. ASSUME NEW table, NEW map, Cascades(r, table, map)
      PROVE  Excludes(r) /\ \A k : <<table, k>> \in r.gone <=> k \in NamedBy(r, map)
  BY <1>2, <1>3 DEF Cascades, Will
<1> QED BY <1>1, <1>3 DEF Revoking

\* What a consent write has established when it commits.
LEMMA SwapReady ==
    ASSUME NEW t, Swapping(t), \A s \in Pending(txn[t]) : s[1] = "commit"
    PROVE  /\ SwapTyped(txn[t]) /\ OwnsPair(txn[t]) /\ Settled(txn[t], consents)
           /\ <<"consents", txn[t].args[1]>> \in txn[t].rows
<1>1. PICK r : r = txn[t]
  OBVIOUS
<1>2. <<"select">> \notin Pending(r) /\ \A x : <<"lock", x>> \notin Pending(r)
  BY <1>1
<1>3. SwapsSafely(r) /\ OwnsPair(r) /\ Settled(r, consents)
  BY <1>1, <1>2 DEF Swapping, Will
<1> QED BY <1>1, <1>2, <1>3 DEF SwapsSafely, Will

\* Dropping consents leaves the others under their own consent_id, one for each pair.
LEMMA ConsentsDropped ==
    ASSUME ConsentsKeyed, OneConsentPerPair,
           \A k \in ConsentIds : consents'[k] \in {None, consents[k]}
    PROVE  ConsentsKeyed' /\ OneConsentPerPair'
  BY DEF ConsentsKeyed, OneConsentPerPair

\* Writing records that no barrier refuses leaves none behind a barrier.
LEMMA RowsAdmitted ==
    ASSUME NoRowBehindBarrier, UNCHANGED <<clients, barriers>>,
           \A k \in AccessTokens : tokens'[k] = tokens[k] \/ ~Refused(tokens'[k]),
           \A k \in RefreshTokens : refresh'[k] = refresh[k] \/ ~Refused(refresh'[k]),
           \A k \in RequestUris : pushed'[k] = pushed[k] \/ ~PushRefused(pushed'[k])
    PROVE  NoRowBehindBarrier'
<1>1. \A c, f, s, at : is_revoked(c, f, s, at)' <=> is_revoked(c, f, s, at)
  BY DEF is_revoked, covers, barriers
<1>2. \A rec : (Refused(rec)' <=> Refused(rec)) /\ (PushRefused(rec)' <=> PushRefused(rec))
  BY <1>1 DEF Refused, PushRefused
<1>3. NoTokenBehindBarrier'
  BY <1>2 DEF NoRowBehindBarrier, NoTokenBehindBarrier
<1>4. NoRefreshBehindBarrier'
  BY <1>2 DEF NoRowBehindBarrier, NoRefreshBehindBarrier
<1>5. NoPushBehindBarrier'
  BY <1>2 DEF NoRowBehindBarrier, NoPushBehindBarrier
<1> QED BY <1>3, <1>4, <1>5 DEF NoRowBehindBarrier

\* A step that leaves clients and barriers alone revokes nothing.
LEMMA BarriersKept ==
    ASSUME NEW t, UNCHANGED <<clients, barriers>>
    PROVE  NothingRevoked(t)
  BY DEF NothingRevoked, barriers

\* The commit of a guarded write (CommitWrite).
LEMMA WritePublished ==
    ASSUME Serial, NEW u \in Txns, Verb(u) = "commit", Writing(u), txn[u].op # "rotate",
           CommitWrite(u)
    PROVE  Published(u)
<1>1. PICK r : r = txn[u]
  OBVIOUS
<1>2. Sound(u) /\ TypeOK /\ LocksExclude /\ NoRowBehindBarrier /\ ConsentsKeyed /\ OneConsentPerPair
  BY DEF Serial
<1>3. /\ WriteTyped(r) /\ Shares(r) /\ ~barrier_covers(u) /\ TargetRows(r) \subseteq r.rows
  BY <1>1, <1>2, LastStatement, WriteReady
<1> DEFINE key == r.args[1]
           rec == r.args[2]
<1>4. /\ UNCHANGED <<clients, deviceMaps, codes, consents, replay_ids, barriers>>
      /\ tokens' = IF r.op = "put_token" THEN [tokens EXCEPT ![key] = rec] ELSE tokens
      /\ refresh' = IF r.op = "put_refresh_token" THEN [refresh EXCEPT ![key] = rec] ELSE refresh
      /\ pushed' = IF r.op = "put_pushed" THEN [pushed EXCEPT ![key] = rec] ELSE pushed
  BY <1>1 DEF CommitWrite
<1>5. \/ r.op = "put_token" /\ key \in AccessTokens /\ rec \in IssuedToken(Nat)
      \/ r.op = "put_refresh_token" /\ key \in RefreshTokens /\ rec \in RefreshTokenRecord(Nat)
      \/ r.op = "put_pushed" /\ key \in RequestUris /\ rec \in PushedAuthorizationRequest(Nat)
  BY <1>1, <1>3 DEF WriteTyped
<1> HIDE DEF key, rec
<1>6. TypeOK'
  BY <1>2, <1>4, <1>5 DEF TypeOK, Option, deviceMaps, barriers
<1>7. /\ \A k \in AccessTokens : tokens'[k] = tokens[k]
                                 \/ (r.op = "put_token" /\ k = key /\ tokens'[k] = rec)
      /\ \A k \in RefreshTokens : refresh'[k] = refresh[k]
                                  \/ (r.op = "put_refresh_token" /\ k = key /\ refresh'[k] = rec)
      /\ \A k \in RequestUris : pushed'[k] = pushed[k]
                                \/ (r.op = "put_pushed" /\ k = key /\ pushed'[k] = rec)
  BY <1>2, <1>4, <1>5 DEF TypeOK
<1>8. /\ r.op = "put_pushed" => ~PushRefused(rec)
      /\ r.op # "put_pushed" => ~Refused(rec)
  BY <1>1, <1>3 DEF barrier_covers, rec
<1>9. NoRowBehindBarrier'
  BY <1>2, <1>4, <1>7, <1>8, RowsAdmitted
<1>10. ConsentsKeyed' /\ OneConsentPerPair'
  BY <1>2, <1>4, ConsentsDropped
<1>11. ASSUME NEW t \in Txns, t # u PROVE RowsHeld(t) /\ NothingWritten(t) /\ NothingRevoked(t)
  <2>1. NothingRevoked(t)
    BY <1>4, BarriersKept
  <2>2. /\ r.op = "put_token" => <<"tokens", key>> \notin txn[t].rows
        /\ r.op = "put_refresh_token" => <<"refresh", key>> \notin txn[t].rows
        /\ r.op = "put_pushed" => <<"pushed", key>> \notin txn[t].rows
    BY <1>1, <1>2, <1>3, <1>11 DEF LocksExclude, TargetRows, key
  <2>3. RowsHeld(t)
    BY <1>4, <1>7, <2>2 DEF RowsHeld
  <2>4. \A x \in ScopeKeys(r) : ~Holds(t, "exclusive", x)
    BY <1>1, <1>2, <1>3, <1>11 DEF LocksExclude, Shares, Holds
  <2>5. ScopeKeys(r) = IF r.op = "put_pushed" THEN PushKeys(rec) ELSE GrantKeys(rec)
    BY DEF ScopeKeys, PushKeys, GrantKeys, rec
  <2>6. NothingWritten(t)
    BY <1>4, <1>7, <2>4, <2>5 DEF NothingWritten
  <2> QED BY <2>1, <2>3, <2>6
<1> QED BY <1>6, <1>9, <1>10, <1>11 DEF Published


\* The records of a rotation name one grant: the same barriers refuse them.
LEMMA SameGrant ==
    ASSUME NEW rec, NEW after, after.client_id = rec.client_id, after.family_id = rec.family_id,
           after.subject = rec.subject, after.grant_established_at = rec.grant_established_at
    PROVE  (Refused(after) <=> Refused(rec)) /\ GrantKeys(after) = GrantKeys(rec)
  BY DEF Refused, GrantKeys

\* The commit of a rotation (CommitRotation).
LEMMA RotationPublished ==
    ASSUME Serial, NEW u \in Txns, Verb(u) = "commit", Writing(u), txn[u].op = "rotate",
           CommitRotation(u)
    PROVE  Published(u)
<1>1. PICK r : r = txn[u]
  OBVIOUS
<1>2. Sound(u) /\ TypeOK /\ LocksExclude /\ NoRowBehindBarrier /\ ConsentsKeyed /\ OneConsentPerPair
  BY DEF Serial
<1>3. WriteTyped(r) /\ Shares(r) /\ ~barrier_covers(u) /\ TargetRows(r) \subseteq r.rows
  BY <1>1, <1>2, LastStatement, WriteReady
<1>4. PICK n, rec, a, next, until :
          n = r.args[1] /\ rec = r.args[2] /\ a = r.args[3] /\ next = r.args[4] /\ until = r.args[5]
  OBVIOUS
<1>5. PICK retry, spent, active, access :
          /\ retry = RotatedRetry(a, next, until)
          /\ spent = [rec EXCEPT !.state = "Spent", !.retry = retry]
          /\ active = [spent EXCEPT !.state = "Active"]
          /\ access = [client_id |-> rec.client_id, subject |-> rec.subject,
                       family_id |-> rec.family_id,
                       grant_established_at |-> rec.grant_established_at, expires_at |-> until]
  OBVIOUS
<1>6. /\ tokens' = [tokens EXCEPT ![a] = access]
      /\ refresh' = [k \in RefreshTokens |->
                         IF k = n THEN spent ELSE IF k = next THEN active ELSE refresh[k]]
      /\ UNCHANGED <<clients, deviceMaps, codes, pushed, consents, replay_ids, barriers>>
  BY <1>1, <1>4, <1>5 DEF CommitRotation
<1>7. /\ n \in RefreshTokens /\ rec \in RefreshTokenRecord(Nat) /\ a \in AccessTokens
      /\ next \in Option(RefreshTokens) /\ until \in Nat
  BY <1>1, <1>3, <1>4 DEF WriteTyped
<1>8. /\ spent \in RefreshTokenRecord(Nat)
      /\ spent.client_id = rec.client_id /\ spent.family_id = rec.family_id
      /\ spent.subject = rec.subject /\ spent.grant_established_at = rec.grant_established_at
  <2>1. retry \in Option(RefreshTokenRetry(Nat))
    BY <1>5, <1>7 DEF RotatedRetry, RefreshTokenRetry, Option
  <2>2. spent = [rec EXCEPT !.state = "Spent", !.retry = retry]
    BY <1>5
  <2> QED BY <1>7, <2>1, <2>2 DEF RefreshTokenRecord
<1>9. /\ active \in RefreshTokenRecord(Nat)
      /\ active.client_id = rec.client_id /\ active.family_id = rec.family_id
      /\ active.subject = rec.subject /\ active.grant_established_at = rec.grant_established_at
  BY <1>5, <1>8 DEF RefreshTokenRecord
<1>10. /\ access \in IssuedToken(Nat)
       /\ access.client_id = rec.client_id /\ access.family_id = rec.family_id
       /\ access.subject = rec.subject /\ access.grant_established_at = rec.grant_established_at
  BY <1>5, <1>7 DEF RefreshTokenRecord, IssuedToken, Option
<1>11. TypeOK'
  <2>1. tokens' \in [AccessTokens -> Option(IssuedToken(Nat))]
    BY <1>2, <1>6, <1>10 DEF TypeOK, Option
  <2>2. refresh' \in [RefreshTokens -> Option(RefreshTokenRecord(Nat))]
    BY <1>2, <1>6, <1>8, <1>9 DEF TypeOK, Option
  <2> QED BY <1>2, <1>6, <2>1, <2>2 DEF TypeOK, deviceMaps, barriers
<1>12. /\ \A k \in AccessTokens : tokens'[k] = tokens[k] \/ (k = a /\ tokens'[k] = access)
       /\ \A k \in RefreshTokens : \/ refresh'[k] = refresh[k]
                                   \/ k \in {n, next} /\ refresh'[k] \in {spent, active}
  BY <1>2, <1>6 DEF TypeOK
<1>13. ~Refused(rec)
  BY <1>1, <1>3, <1>4 DEF barrier_covers
<1>14. /\ GrantKeys(access) = GrantKeys(rec) /\ GrantKeys(spent) = GrantKeys(rec)
       /\ GrantKeys(active) = GrantKeys(rec)
  BY <1>8, <1>9, <1>10, SameGrant
<1>15. ~Refused(access) /\ ~Refused(spent) /\ ~Refused(active)
  BY <1>8, <1>9, <1>10, <1>13, SameGrant
<1>16. NoRowBehindBarrier'
  BY <1>2, <1>6, <1>12, <1>15, RowsAdmitted
<1>17. ConsentsKeyed' /\ OneConsentPerPair'
  BY <1>2, <1>6, ConsentsDropped
<1>18. ASSUME NEW t \in Txns, t # u PROVE RowsHeld(t) /\ NothingWritten(t) /\ NothingRevoked(t)
  <2>1. NothingRevoked(t)
    BY <1>6, BarriersKept
  <2>2. TargetRows(r) = {<<"refresh", n>>, <<"tokens", a>>}
                        \cup {<<"refresh", m>> : m \in {next} \ {None}}
    BY <1>1, <1>4 DEF TargetRows
  <2>3. /\ <<"tokens", a>> \in r.rows /\ <<"refresh", n>> \in r.rows
        /\ next # None => <<"refresh", next>> \in r.rows
    BY <1>3, <2>2
  <2>4. /\ <<"tokens", a>> \notin txn[t].rows
        /\ \A k \in RefreshTokens : k \in {n, next} => <<"refresh", k>> \notin txn[t].rows
    BY <1>1, <1>2, <1>18, <2>3, WorkloadAssumption DEF LocksExclude
  <2>5. RowsHeld(t)
    BY <1>6, <1>12, <2>4 DEF RowsHeld
  <2>6. \A x \in ScopeKeys(r) : ~Holds(t, "exclusive", x)
    BY <1>1, <1>2, <1>3, <1>18 DEF LocksExclude, Shares, Holds
  <2>7. ScopeKeys(r) = GrantKeys(rec)
    BY <1>1, <1>4 DEF ScopeKeys, GrantKeys
  <2>8. NothingWritten(t)
    BY <1>6, <1>12, <1>14, <2>6, <2>7 DEF NothingWritten
  <2> QED BY <2>1, <2>5, <2>8
<1> QED BY <1>11, <1>16, <1>17, <1>18 DEF Published

\* The commit of a consent write (CommitSwap).
LEMMA SwapPublished ==
    ASSUME Serial, NEW u \in Txns, Verb(u) = "commit", Swapping(u), CommitSwap(u)
    PROVE  Published(u)
<1>1. PICK r : r = txn[u]
  OBVIOUS
<1>2. Sound(u) /\ TypeOK /\ LocksExclude /\ NoRowBehindBarrier /\ ConsentsKeyed /\ OneConsentPerPair
  BY DEF Serial
<1>3. /\ SwapTyped(r) /\ OwnsPair(r) /\ Settled(r, consents)
      /\ <<"consents", r.args[1]>> \in r.rows
  BY <1>1, <1>2, LastStatement, SwapReady
<1>4. PICK k, rec : k = r.args[1] /\ rec = r.args[3]
  OBVIOUS
<1>5. k \in ConsentIds /\ rec \in ConsentRecord(Nat) /\ rec.consent_id = k /\ rec # None
  BY <1>3, <1>4, WorkloadAssumption DEF SwapTyped
<1>6. /\ consents' = [consents EXCEPT ![k] = rec]
      /\ UNCHANGED <<clients, deviceMaps, codes, pushed, tokenMaps, replay_ids, barriers>>
  BY <1>1, <1>4 DEF CommitSwap
<1>7. TypeOK'
  BY <1>2, <1>5, <1>6 DEF TypeOK, Option, deviceMaps, tokenMaps, barriers
<1>8. NoRowBehindBarrier'
  BY <1>2, <1>6, RowsAdmitted DEF tokenMaps
<1>9. consents'[k] = rec /\ \A j \in ConsentIds : j # k => consents'[j] = consents[j]
  BY <1>2, <1>5, <1>6 DEF TypeOK
<1>10. ConsentsKeyed'
  BY <1>2, <1>5, <1>9 DEF ConsentsKeyed
<1>11. \A j \in ConsentIds : j # k /\ consents[j] # None =>
           <<consents[j].client_id, consents[j].subject>> # <<rec.client_id, rec.subject>>
  <2> SUFFICES ASSUME NEW j \in ConsentIds, j # k, consents[j] # None,
                      consents[j].client_id = rec.client_id, consents[j].subject = rec.subject
               PROVE  FALSE
    OBVIOUS
  <2>1. j \in Pair(r, consents)
    BY <1>2, <1>4 DEF Pair, OfConsent, OfClient, TypeOK
  <2>2. k \in Pair(r, consents)
    BY <1>3, <1>4, <2>1 DEF Settled
  <2>3. /\ consents[k] # None /\ consents[k].client_id = rec.client_id
        /\ consents[k].subject = rec.subject
    BY <1>4, <2>2 DEF Pair, OfConsent, OfClient
  <2> QED BY <1>2, <1>5, <2>3 DEF OneConsentPerPair
<1>12. OneConsentPerPair'
  BY <1>2, <1>5, <1>9, <1>11 DEF OneConsentPerPair
<1>13. ASSUME NEW t \in Txns, t # u PROVE RowsHeld(t) /\ NothingWritten(t) /\ NothingRevoked(t)
  <2>1. NothingRevoked(t)
    BY <1>6, BarriersKept
  <2>2. <<"consents", k>> \notin txn[t].rows
    BY <1>1, <1>2, <1>3, <1>4, <1>13 DEF LocksExclude
  <2>3. RowsHeld(t)
    BY <1>6, <1>9, <2>2 DEF RowsHeld, tokenMaps
  <2>4. ~Holds(t, "exclusive", ConsentSwapKey(rec.client_id, rec.subject))
    BY <1>1, <1>2, <1>3, <1>4, <1>13 DEF LocksExclude, OwnsPair, SwapKey, Holds
  <2>5. NothingWritten(t)
    BY <1>6, <1>9, <2>4 DEF NothingWritten, tokenMaps
  <2> QED BY <2>1, <2>3, <2>5
<1> QED BY <1>7, <1>8, <1>10, <1>12, <1>13 DEF Published


\* The keys of a table that the commit removes.
LEMMA GoneRows ==
    ASSUME NEW t, RevokesSafely(txn[t]), NEW table
    PROVE  \A k : k \in Gone(t, table) <=> <<table, k>> \in txn[t].gone
<1>1. PICK r : r = txn[t]
  OBVIOUS
<1>2. \A row \in r.gone : row = <<row[1], row[2]>>
  BY <1>1 DEF RevokesSafely
<1>3. \A k : k \in Gone(t, table) <=> \E row \in r.gone : row[1] = table /\ row[2] = k
  BY <1>1 DEF Gone
<1> QED BY <1>1, <1>2, <1>3

\* The commit of a revocation (CommitRevocation) removes what it deleted and sets its barrier.
LEMMA RevocationEffect ==
    ASSUME TypeOK, NEW u, RevokesSafely(txn[u]), CommitRevocation(u), NEW r, r = txn[u]
    PROVE  /\ TypeOK'
           /\ \A k \in AccessTokens :
                  tokens'[k] = IF <<"tokens", k>> \in r.gone THEN None ELSE tokens[k]
           /\ \A k \in RefreshTokens :
                  refresh'[k] = IF <<"refresh", k>> \in r.gone THEN None ELSE refresh[k]
           /\ \A k \in RequestUris :
                  pushed'[k] = IF <<"pushed", k>> \in r.gone THEN None ELSE pushed[k]
           /\ \A k \in ConsentIds :
                  consents'[k] = IF <<"consents", k>> \in r.gone THEN None ELSE consents[k]
           /\ \A c \in ClientIds :
                  clients'[c] = IF <<"clients", c>> \in r.gone THEN None ELSE clients[c]
           /\ \A c \in ClientIds : (r.op = "delete_client" /\ c = r.args[1])
                                   \/ client_barriers'[c] = client_barriers[c]
           /\ \A f \in FamilyIds : (r.op = "revoke_family" /\ f = r.args[1])
                                   \/ family_barriers'[f] = family_barriers[f]
           /\ \A c \in ClientIds, s \in Subjects :
                  \/ r.op = "revoke_consent" /\ c = r.args[3] /\ s = r.args[4]
                  \/ consent_barriers'[<<c, s>>] = consent_barriers[<<c, s>>]
<1>1. PICK w : w = r.args[2]
  OBVIOUS
<1>2. w \in RevocationWindow(Nat)
  BY <1>1 DEF RevokesSafely, RevocationTyped
<1>3. /\ clients' = Without(clients, Gone(u, "clients"))
      /\ consents' = Without(consents, Gone(u, "consents"))
      /\ tokens' = Without(tokens, Gone(u, "tokens"))
      /\ refresh' = Without(refresh, Gone(u, "refresh"))
      /\ codes' = Without(codes, Gone(u, "codes"))
      /\ pushed' = Without(pushed, Gone(u, "pushed"))
      /\ device_by_code' = Without(device_by_code, Gone(u, "devices"))
      /\ user_code_index' = Without(user_code_index, StaleIndex(device_by_code'))
      /\ UNCHANGED replay_ids
  BY DEF CommitRevocation
<1>4. client_barriers' =
          [k \in DOMAIN client_barriers |->
               IF k \in (IF r.op = "delete_client" THEN {r.args[1]} ELSE {})
               THEN merge_into(client_barriers[k], w) ELSE client_barriers[k]]
  BY <1>1 DEF CommitRevocation
<1>5. family_barriers' =
          [k \in DOMAIN family_barriers |->
               IF k \in (IF r.op = "revoke_family" THEN {r.args[1]} ELSE {})
               THEN merge_into(family_barriers[k], w) ELSE family_barriers[k]]
  BY <1>1 DEF CommitRevocation
<1>6. consent_barriers' =
          IF r.op = "revoke_consent"
          THEN [k \in DOMAIN consent_barriers |->
                    IF k \in {<<r.args[3], r.args[4]>>}
                    THEN merge_into(consent_barriers[k], w) ELSE consent_barriers[k]]
          ELSE consent_barriers
  BY <1>1 DEF CommitRevocation
<1>7. /\ clients' \in [ClientIds -> Option(Registrations)]
      /\ \A c \in ClientIds :
             clients'[c] = IF <<"clients", c>> \in r.gone THEN None ELSE clients[c]
  <2>1. clients \in [ClientIds -> Option(Registrations)]
    BY DEF TypeOK
  <2> QED BY <1>3, <2>1, GoneRows, WithoutFacts
<1>8. /\ consents' \in [ConsentIds -> Option(ConsentRecord(Nat))]
      /\ tokens' \in [AccessTokens -> Option(IssuedToken(Nat))]
      /\ refresh' \in [RefreshTokens -> Option(RefreshTokenRecord(Nat))]
      /\ codes' \in [AuthCodes -> Option(AuthorizationCodeRecord(Nat))]
      /\ pushed' \in [RequestUris -> Option(PushedAuthorizationRequest(Nat))]
      /\ device_by_code' \in [DeviceCodes -> Option(DeviceGrant(Nat))]
      /\ user_code_index' \in [UserCodes -> Option(DeviceCodes)]
  BY <1>3, RetainType
<1>9. \A slot \in Option(RevocationWindow(Nat)) :
          merge_into(slot, w) \in Option(RevocationWindow(Nat))
  BY <1>2, MergeFacts DEF Option
<1>10. /\ client_barriers' \in [ClientIds -> Option(RevocationWindow(Nat))]
       /\ \A c \in ClientIds : (r.op = "delete_client" /\ c = r.args[1])
                               \/ client_barriers'[c] = client_barriers[c]
  BY <1>4, <1>9 DEF TypeOK
<1>11. /\ family_barriers' \in [FamilyIds -> Option(RevocationWindow(Nat))]
       /\ \A f \in FamilyIds : (r.op = "revoke_family" /\ f = r.args[1])
                               \/ family_barriers'[f] = family_barriers[f]
  BY <1>5, <1>9 DEF TypeOK
<1>12. /\ consent_barriers' \in [ClientIds \X Subjects -> Option(RevocationWindow(Nat))]
       /\ \A c \in ClientIds, s \in Subjects :
              \/ r.op = "revoke_consent" /\ c = r.args[3] /\ s = r.args[4]
              \/ consent_barriers'[<<c, s>>] = consent_barriers[<<c, s>>]
  BY <1>6, <1>9 DEF TypeOK
<1>13. TypeOK'
  BY <1>3, <1>7, <1>8, <1>10, <1>11, <1>12 DEF TypeOK
<1>14. \A k \in AccessTokens :
           tokens'[k] = IF <<"tokens", k>> \in r.gone THEN None ELSE tokens[k]
  BY <1>3, GoneRows, WithoutFacts DEF TypeOK
<1>15. \A k \in RefreshTokens :
           refresh'[k] = IF <<"refresh", k>> \in r.gone THEN None ELSE refresh[k]
  BY <1>3, GoneRows, WithoutFacts DEF TypeOK
<1>16. \A k \in RequestUris :
           pushed'[k] = IF <<"pushed", k>> \in r.gone THEN None ELSE pushed[k]
  BY <1>3, GoneRows, WithoutFacts DEF TypeOK
<1>17. \A k \in ConsentIds :
           consents'[k] = IF <<"consents", k>> \in r.gone THEN None ELSE consents[k]
  BY <1>3, GoneRows, WithoutFacts DEF TypeOK
<1> QED BY <1>7, <1>10, <1>11, <1>12, <1>13, <1>14, <1>15, <1>16, <1>17

\* It leaves no record of its scope in the store, and the others what they rely on.
LEMMA RevocationPublished ==
    ASSUME Serial, NEW u \in Txns, Verb(u) = "commit", Revoking(u), CommitRevocation(u)
    PROVE  Published(u)
<1>1. PICK r : r = txn[u]
  OBVIOUS
<1>2. Sound(u) /\ TypeOK /\ LocksExclude /\ NoRowBehindBarrier /\ ConsentsKeyed /\ OneConsentPerPair
  BY DEF Serial
<1>3. /\ RevokesSafely(r) /\ Excludes(r)
      /\ \A k : <<"tokens", k>> \in r.gone <=> k \in NamedBy(r, tokens)
      /\ \A k : <<"refresh", k>> \in r.gone <=> k \in NamedBy(r, refresh)
      /\ r.op = "delete_client" => \A k : <<"pushed", k>> \in r.gone <=> k \in NamedBy(r, pushed)
  BY <1>1, <1>2, LastStatement, RevocationReady
<1>4. TypeOK'
  BY <1>1, <1>2, <1>3, RevocationEffect
<1>5. /\ \A k \in AccessTokens :
             tokens'[k] = IF <<"tokens", k>> \in r.gone THEN None ELSE tokens[k]
      /\ \A k \in RefreshTokens :
             refresh'[k] = IF <<"refresh", k>> \in r.gone THEN None ELSE refresh[k]
      /\ \A k \in RequestUris :
             pushed'[k] = IF <<"pushed", k>> \in r.gone THEN None ELSE pushed[k]
      /\ \A k \in ConsentIds :
             consents'[k] = IF <<"consents", k>> \in r.gone THEN None ELSE consents[k]
  BY <1>1, <1>2, <1>3, RevocationEffect
<1>6. /\ \A c \in ClientIds : (r.op = "delete_client" /\ c = r.args[1])
             \/ (client_barriers'[c] = client_barriers[c] /\ clients'[c] = clients[c])
      /\ \A f \in FamilyIds : (r.op = "revoke_family" /\ f = r.args[1])
                              \/ family_barriers'[f] = family_barriers[f]
      /\ \A c \in ClientIds, s \in Subjects :
             \/ r.op = "revoke_consent" /\ c = r.args[3] /\ s = r.args[4]
             \/ consent_barriers'[<<c, s>>] = consent_barriers[<<c, s>>]
  <2>1. \A c \in ClientIds : <<"clients", c>> \in r.gone => r.op = "delete_client" /\ c = r.args[1]
    BY <1>3 DEF RevokesSafely
  <2>2. \A c \in ClientIds : clients'[c] = IF <<"clients", c>> \in r.gone THEN None ELSE clients[c]
    BY <1>1, <1>2, <1>3, RevocationEffect
  <2>3. /\ \A c \in ClientIds : (r.op = "delete_client" /\ c = r.args[1])
               \/ client_barriers'[c] = client_barriers[c]
        /\ \A f \in FamilyIds : (r.op = "revoke_family" /\ f = r.args[1])
                                \/ family_barriers'[f] = family_barriers[f]
        /\ \A c \in ClientIds, s \in Subjects :
               \/ r.op = "revoke_consent" /\ c = r.args[3] /\ s = r.args[4]
               \/ consent_barriers'[<<c, s>>] = consent_barriers[<<c, s>>]
    BY <1>1, <1>2, <1>3, RevocationEffect
  <2> QED BY <2>1, <2>2, <2>3
<1>7. ConsentsKeyed' /\ OneConsentPerPair'
  BY <1>2, <1>5, ConsentsDropped
<1>8. ASSUME NEW rec, rec.client_id \in ClientIds, rec.family_id \in Option(FamilyIds),
             rec.subject \in Option(Subjects), ~InScope(r, rec), Refused(rec)'
      PROVE  Refused(rec)
  <2>2. /\ client_barriers'[rec.client_id] = client_barriers[rec.client_id]
        /\ clients'[rec.client_id] = clients[rec.client_id]
    BY <1>6, <1>8 DEF InScope
  <2>3. rec.family_id # None => family_barriers'[rec.family_id] = family_barriers[rec.family_id]
    BY <1>6, <1>8 DEF InScope, Option
  <2>4. rec.subject # None => consent_barriers'[<<rec.client_id, rec.subject>>] =
                              consent_barriers[<<rec.client_id, rec.subject>>]
    BY <1>6, <1>8 DEF InScope, Option
  <2> QED BY <1>8, <2>2, <2>3, <2>4, CoverStays DEF Refused
<1>9. NoTokenBehindBarrier'
  <2> SUFFICES ASSUME NEW k \in AccessTokens, tokens'[k] # None, Refused(tokens[k])'
               PROVE  FALSE
    BY DEF NoTokenBehindBarrier
  <2>1. tokens'[k] = tokens[k] /\ k \notin NamedBy(r, tokens)
    BY <1>3, <1>5
  <2>2. tokens[k] \in IssuedToken(Nat) /\ ~InScope(r, tokens[k])
    BY <1>2, <2>1 DEF TypeOK, Option, NamedBy
  <2>3. PICK rec : rec = tokens[k]
    OBVIOUS
  <2>4. Refused(rec)'
    BY <2>1, <2>3 DEF Refused
  <2>5. Refused(tokens[k])
    BY <1>8, <2>2, <2>3, <2>4 DEF IssuedToken
  <2> QED BY <1>2, <2>1, <2>5 DEF NoRowBehindBarrier, NoTokenBehindBarrier
<1>10. NoRefreshBehindBarrier'
  <2> SUFFICES ASSUME NEW k \in RefreshTokens, refresh'[k] # None, Refused(refresh[k])'
               PROVE  FALSE
    BY DEF NoRefreshBehindBarrier
  <2>1. refresh'[k] = refresh[k] /\ k \notin NamedBy(r, refresh)
    BY <1>3, <1>5
  <2>2. refresh[k] \in RefreshTokenRecord(Nat) /\ ~InScope(r, refresh[k])
    BY <1>2, <2>1 DEF TypeOK, Option, NamedBy
  <2>3. PICK rec : rec = refresh[k]
    OBVIOUS
  <2>4. Refused(rec)'
    BY <2>1, <2>3 DEF Refused
  <2>5. Refused(refresh[k])
    BY <1>8, <2>2, <2>3, <2>4 DEF RefreshTokenRecord, Option
  <2> QED BY <1>2, <2>1, <2>5 DEF NoRowBehindBarrier, NoRefreshBehindBarrier
<1>11. NoPushBehindBarrier'
  <2> SUFFICES ASSUME NEW k \in RequestUris, pushed'[k] # None, PushRefused(pushed[k])'
               PROVE  FALSE
    BY DEF NoPushBehindBarrier
  <2>1. pushed'[k] = pushed[k] /\ (r.op = "delete_client" => k \notin NamedBy(r, pushed))
    BY <1>3, <1>5
  <2>2. /\ pushed[k].client_id \in ClientIds
        /\ r.op = "delete_client" => pushed[k].client_id # r.args[1]
    BY <1>2, <2>1 DEF TypeOK, Option, NamedBy, InScope, PushedAuthorizationRequest
  <2>3. /\ client_barriers'[pushed[k].client_id] = client_barriers[pushed[k].client_id]
        /\ clients'[pushed[k].client_id] = clients[pushed[k].client_id]
    BY <1>6, <2>2
  <2>4. PICK rec, none : rec = pushed[k] /\ none = None
    OBVIOUS
  <2>5. is_revoked(rec.client_id, none, none, rec.pushed_at)'
    BY <2>1, <2>4 DEF PushRefused
  <2>6. is_revoked(rec.client_id, none, none, rec.pushed_at)
    BY <2>3, <2>4, <2>5, CoverStays
  <2>7. PushRefused(pushed[k])
    BY <2>4, <2>6 DEF PushRefused
  <2> QED BY <1>2, <2>1, <2>7 DEF NoRowBehindBarrier, NoPushBehindBarrier
<1>12. NoRowBehindBarrier'
  BY <1>9, <1>10, <1>11 DEF NoRowBehindBarrier
<1>13. ASSUME NEW t \in Txns, t # u PROVE RowsHeld(t) /\ NothingWritten(t) /\ NothingRevoked(t)
  <2>1. \A row \in r.gone : row \notin txn[t].rows
    BY <1>1, <1>2, <1>3, <1>13 DEF LocksExclude, RevokesSafely
  <2>2. RowsHeld(t)
    BY <1>5, <2>1 DEF RowsHeld
  <2>3. NothingWritten(t)
    BY <1>5 DEF NothingWritten
  <2>4. ~Holds(t, "shared", RevocationKey(r))
    BY <1>1, <1>2, <1>3, <1>13 DEF LocksExclude, Excludes, Holds
  <2>5. NothingRevoked(t)
    BY <1>6, <2>4 DEF NothingRevoked, RevocationKey
  <2> QED BY <2>2, <2>3, <2>5
<1> QED BY <1>4, <1>7, <1>12, <1>13 DEF Published

\* Every commit.
LEMMA CommitKept ==
    ASSUME Serial, NEW u \in Txns, Commit(u)
    PROVE  Published(u) /\ Close(u)
<1>1. Verb(u) = "commit" /\ Close(u)
  BY DEF Commit, Runs
<1>2. Sound(u)
  BY DEF Serial
<1>3. Writing(u) \/ Revoking(u) \/ Swapping(u)
  BY <1>1, <1>2, LastStatement
<1>4. CASE Writing(u)
  <2>1. txn[u].op \in {"put_token", "put_refresh_token", "put_pushed", "rotate"}
    BY <1>4 DEF Writing, WritesSafely, WriteTyped
  <2>2. /\ txn[u].op = "rotate" => CommitRotation(u)
        /\ txn[u].op # "rotate" => CommitWrite(u)
    BY <2>1 DEF Commit
  <2> QED BY <1>1, <1>4, <2>2, WritePublished, RotationPublished
<1>5. CASE Revoking(u)
  <2>1. txn[u].op \in {"delete_client", "revoke_family", "revoke_consent"}
    BY <1>5 DEF Revoking, RevokesSafely, RevocationTyped
  <2>2. CommitRevocation(u)
    BY <2>1 DEF Commit
  <2> QED BY <1>1, <1>5, <2>2, RevocationPublished
<1>6. CASE Swapping(u)
  <2>1. txn[u].op = "swap_consent"
    BY <1>6 DEF Swapping, SwapsSafely, SwapTyped
  <2>2. CommitSwap(u)
    BY <2>1 DEF Commit
  <2> QED BY <1>1, <1>6, <2>2, SwapPublished
<1> QED BY <1>3, <1>4, <1>5, <1>6


-----------------------------------------------------------------------------
(***************************************************************************)
(* Methods that are one statement                                           *)
(***************************************************************************)
\* Such a statement writes no capability, drops only rows that nobody has locked, and sets no
\* barrier.
Modest ==
    /\ TypeOK' /\ UNCHANGED <<txn, consents>>
    /\ \A k \in AccessTokens :
           tokens'[k] = tokens[k] \/ (tokens'[k] = None /\ Free(<<"tokens", k>>))
    /\ \A k \in RefreshTokens :
           refresh'[k] = refresh[k] \/ (refresh'[k] = None /\ Free(<<"refresh", k>>))
    /\ \A k \in RequestUris :
           pushed'[k] = pushed[k] \/ (pushed'[k] = None /\ Free(<<"pushed", k>>))
    /\ \A c \in ClientIds : /\ client_barriers'[c] \in {None, client_barriers[c]}
                            /\ clients'[c] = None => clients[c] = None
    /\ \A f \in FamilyIds : family_barriers'[f] \in {None, family_barriers[f]}
    /\ \A c \in ClientIds, s \in Subjects :
           consent_barriers'[<<c, s>>] \in {None, consent_barriers[<<c, s>>]}

\* It leaves the transactions all they rely on.
LEMMA ModestKept ==
    ASSUME Serial, Modest
    PROVE  /\ ConsentsKeyed' /\ OneConsentPerPair' /\ NoRowBehindBarrier'
           /\ \A t \in Txns : RowsHeld(t) /\ NothingWritten(t) /\ NothingRevoked(t)
<1>1. TypeOK /\ NoRowBehindBarrier /\ ConsentsKeyed /\ OneConsentPerPair
  BY DEF Serial
<1>2. ConsentsKeyed' /\ OneConsentPerPair'
  BY <1>1, ConsentsDropped DEF Modest
<1>3. ASSUME NEW rec, rec.client_id \in ClientIds, rec.family_id \in Option(FamilyIds),
             rec.subject \in Option(Subjects), Refused(rec)'
      PROVE  Refused(rec)
  BY <1>3, CoverStays DEF Refused, Modest, Option
<1>4. NoTokenBehindBarrier'
  <2> SUFFICES ASSUME NEW k \in AccessTokens, tokens'[k] # None, Refused(tokens[k])'
               PROVE  FALSE
    BY DEF NoTokenBehindBarrier
  <2>1. PICK rec : rec = tokens[k]
    OBVIOUS
  <2>2. tokens'[k] = rec /\ rec \in IssuedToken(Nat)
    BY <1>1, <2>1 DEF Modest, TypeOK, Option
  <2>3. Refused(rec)'
    BY <2>2 DEF Refused
  <2>4. Refused(rec)
    BY <1>3, <2>2, <2>3 DEF IssuedToken
  <2> QED BY <1>1, <2>1, <2>2, <2>4 DEF NoRowBehindBarrier, NoTokenBehindBarrier
<1>5. NoRefreshBehindBarrier'
  <2> SUFFICES ASSUME NEW k \in RefreshTokens, refresh'[k] # None, Refused(refresh[k])'
               PROVE  FALSE
    BY DEF NoRefreshBehindBarrier
  <2>1. PICK rec : rec = refresh[k]
    OBVIOUS
  <2>2. refresh'[k] = rec /\ rec \in RefreshTokenRecord(Nat)
    BY <1>1, <2>1 DEF Modest, TypeOK, Option
  <2>3. Refused(rec)'
    BY <2>2 DEF Refused
  <2>4. Refused(rec)
    BY <1>3, <2>2, <2>3 DEF RefreshTokenRecord, Option
  <2> QED BY <1>1, <2>1, <2>2, <2>4 DEF NoRowBehindBarrier, NoRefreshBehindBarrier
<1>6. NoPushBehindBarrier'
  <2> SUFFICES ASSUME NEW k \in RequestUris, pushed'[k] # None, PushRefused(pushed[k])'
               PROVE  FALSE
    BY DEF NoPushBehindBarrier
  <2>1. PICK rec, none : rec = pushed[k] /\ none = None
    OBVIOUS
  <2>2. pushed'[k] = rec /\ rec.client_id \in ClientIds
    BY <1>1, <2>1 DEF Modest, TypeOK, Option, PushedAuthorizationRequest
  <2>3. is_revoked(rec.client_id, none, none, rec.pushed_at)'
    BY <2>1, <2>2 DEF PushRefused
  <2>4. is_revoked(rec.client_id, none, none, rec.pushed_at)
    BY <2>1, <2>2, <2>3, CoverStays DEF Modest
  <2>5. PushRefused(pushed[k])
    BY <2>1, <2>4 DEF PushRefused
  <2> QED BY <1>1, <2>1, <2>2, <2>5 DEF NoRowBehindBarrier, NoPushBehindBarrier
<1>7. ASSUME NEW t \in Txns PROVE RowsHeld(t) /\ NothingWritten(t) /\ NothingRevoked(t)
  <2>1. RowsHeld(t)
    BY DEF Modest, Free, RowsHeld
  <2>2. NothingWritten(t)
    BY DEF Modest, NothingWritten
  <2>3. NothingRevoked(t)
    BY DEF Modest, NothingRevoked
  <2> QED BY <2>1, <2>2, <2>3
<1> QED BY <1>2, <1>4, <1>5, <1>6, <1>7 DEF NoRowBehindBarrier

\* delete_token, take_refresh_token and take_pushed_authorization_request.
LEMMA DropsModest ==
    ASSUME TypeOK, UNCHANGED txn, NEW k,
           \/ delete_token(k) /\ Free(<<"tokens", k>>)
           \/ take_refresh_token(k) /\ Free(<<"refresh", k>>)
           \/ take_pushed_authorization_request(k) /\ Free(<<"pushed", k>>)
    PROVE  Modest
<1> USE DEF deviceMaps, tokenMaps, barriers
<1>1. CASE delete_token(k) /\ Free(<<"tokens", k>>)
  <2>1. /\ tokens' \in [AccessTokens -> Option(IssuedToken(Nat))]
        /\ \A j \in AccessTokens : tokens'[j] = tokens[j] \/ (tokens'[j] = None /\ j = k)
    BY <1>1 DEF delete_token, TypeOK, Option
  <2>2. UNCHANGED <<clients, deviceMaps, codes, pushed, refresh, consents, replay_ids, barriers>>
    BY <1>1 DEF delete_token
  <2>3. TypeOK'
    BY <2>1, <2>2 DEF TypeOK
  <2> QED BY <1>1, <2>1, <2>2, <2>3 DEF Modest
<1>2. CASE take_refresh_token(k) /\ Free(<<"refresh", k>>)
  <2>1. /\ refresh' \in [RefreshTokens -> Option(RefreshTokenRecord(Nat))]
        /\ \A j \in RefreshTokens : refresh'[j] = refresh[j] \/ (refresh'[j] = None /\ j = k)
    BY <1>2 DEF take_refresh_token, TypeOK, Option
  <2>2. UNCHANGED <<clients, deviceMaps, codes, pushed, tokens, consents, replay_ids, barriers>>
    BY <1>2 DEF take_refresh_token
  <2>3. TypeOK'
    BY <2>1, <2>2 DEF TypeOK
  <2> QED BY <1>2, <2>1, <2>2, <2>3 DEF Modest
<1>3. CASE take_pushed_authorization_request(k) /\ Free(<<"pushed", k>>)
  <2>1. /\ pushed' \in [RequestUris -> Option(PushedAuthorizationRequest(Nat))]
        /\ \A j \in RequestUris : pushed'[j] = pushed[j] \/ (pushed'[j] = None /\ j = k)
    BY <1>3 DEF take_pushed_authorization_request, TypeOK, Option
  <2>2. UNCHANGED <<clients, deviceMaps, codes, tokenMaps, consents, replay_ids, barriers>>
    BY <1>3 DEF take_pushed_authorization_request
  <2>3. TypeOK'
    BY <2>1, <2>2 DEF TypeOK
  <2> QED BY <1>3, <2>1, <2>2, <2>3 DEF Modest
<1> QED BY <1>1, <1>2, <1>3

\* A statement on a table that no transaction relies on.
LEMMA ElsewhereModest ==
    ASSUME TypeOK', UNCHANGED <<txn, consents, pushed, tokenMaps, barriers>>,
           \A c \in ClientIds : clients'[c] = None => clients[c] = None
    PROVE  Modest
  BY DEF Modest, tokenMaps, barriers

\* The sweep of a barrier.
LEMMA BarrierModest ==
    ASSUME TypeOK, UNCHANGED <<txn, dataVars>>, NEW k,
           \/ /\ client_barriers' = Without(client_barriers, {k})
              /\ UNCHANGED <<family_barriers, consent_barriers>>
           \/ /\ family_barriers' = Without(family_barriers, {k})
              /\ UNCHANGED <<client_barriers, consent_barriers>>
           \/ /\ consent_barriers' = Without(consent_barriers, {k})
              /\ UNCHANGED <<client_barriers, family_barriers>>
    PROVE  Modest
<1>1. PICK doomed : doomed = {k}
  OBVIOUS
<1>2. /\ client_barriers' = Without(client_barriers, doomed) \/ UNCHANGED client_barriers
      /\ family_barriers' = Without(family_barriers, doomed) \/ UNCHANGED family_barriers
      /\ consent_barriers' = Without(consent_barriers, doomed) \/ UNCHANGED consent_barriers
  BY <1>1
<1>3. /\ client_barriers' \in [ClientIds -> Option(RevocationWindow(Nat))]
      /\ \A c \in ClientIds : client_barriers'[c] \in {None, client_barriers[c]}
  BY <1>2, WithoutFacts DEF TypeOK
<1>4. /\ family_barriers' \in [FamilyIds -> Option(RevocationWindow(Nat))]
      /\ \A f \in FamilyIds : family_barriers'[f] \in {None, family_barriers[f]}
  BY <1>2, WithoutFacts DEF TypeOK
<1>5. /\ consent_barriers' \in [ClientIds \X Subjects -> Option(RevocationWindow(Nat))]
      /\ \A p \in ClientIds \X Subjects : consent_barriers'[p] \in {None, consent_barriers[p]}
  BY <1>2, WithoutFacts DEF TypeOK
<1>6. TypeOK'
  BY <1>3, <1>4, <1>5 DEF TypeOK, dataVars, deviceMaps, tokenMaps
<1> QED BY <1>3, <1>4, <1>5, <1>6 DEF Modest, dataVars, deviceMaps, tokenMaps


\* The methods of one statement.
Statement ==
    \/ ClientStatement \/ DeleteTokenStatement \/ TakeRefreshStatement
    \/ PutCodeStatement \/ SwapCodeStatement \/ TakeCodeStatement
    \/ DeviceStatement \/ PushedStatement \/ ReplayStatement \/ SweepStatement

\* A batch of the sweep.
LEMMA SweepModest ==
    ASSUME TypeOK, SweepStatement
    PROVE  Modest
<1> USE DEF deviceMaps, tokenMaps, barriers
<1>1. PICK now \in Calls.sweep_expired : SweepBatch(now) /\ UNCHANGED txn
  BY DEF SweepStatement
<1>2. CASE \E k \in Unlocked("tokens", ExpiredKeys(tokens, now)) : delete_token(k)
  BY <1>1, <1>2, DropsModest DEF Unlocked
<1>3. CASE \E k \in Unlocked("refresh", ExpiredKeys(refresh, now)) : take_refresh_token(k)
  BY <1>1, <1>3, DropsModest DEF Unlocked
<1>4. CASE \E k \in Unlocked("codes", ExpiredKeys(codes, now)) : take_authorization_code(k)
  <2>1. PICK k \in ExpiredKeys(codes, now) : take_authorization_code(k)
    BY <1>4 DEF Unlocked
  <2>2. k \in AuthCodes
    BY <2>1 DEF ExpiredKeys, TypeOK
  <2>3. TypeOK'
    BY <2>1, <2>2, TakeCodeType
  <2> QED BY <1>1, <2>1, <2>3, ElsewhereModest DEF take_authorization_code
<1>5. CASE \E k \in Unlocked("devices", ExpiredKeys(device_by_code, now)) : take_device_grant(k)
  <2>1. PICK k : take_device_grant(k)
    BY <1>5
  <2>2. TypeOK'
    BY <2>1 DEF TypeOK, take_device_grant, Option
  <2> QED BY <1>1, <2>1, <2>2, ElsewhereModest DEF take_device_grant
<1>6. CASE \E k \in Unlocked("pushed", ExpiredKeys(pushed, now)) :
               take_pushed_authorization_request(k)
  BY <1>1, <1>6, DropsModest DEF Unlocked
<1>7. CASE \E k \in {i \in ReplayIds : replay_ids[i] # None /\ replay_ids[i] <= now} :
               /\ replay_ids' = Without(replay_ids, {k})
               /\ UNCHANGED <<clients, deviceMaps, codes, pushed, tokenMaps, consents, barriers>>
  <2>1. PICK doomed : /\ replay_ids' = Without(replay_ids, doomed)
                      /\ UNCHANGED <<clients, deviceMaps, codes, pushed, tokenMaps, consents,
                                     barriers>>
    BY <1>7
  <2>2. TypeOK'
    BY <2>1, RetainType DEF TypeOK
  <2> QED BY <1>1, <2>1, <2>2, ElsewhereModest
<1>8. CASE \E k : /\ client_barriers' = Without(client_barriers, {k})
                  /\ UNCHANGED <<dataVars, family_barriers, consent_barriers>>
  BY <1>1, <1>8, BarrierModest
<1>9. CASE \E k : /\ family_barriers' = Without(family_barriers, {k})
                  /\ UNCHANGED <<dataVars, client_barriers, consent_barriers>>
  BY <1>1, <1>9, BarrierModest
<1>10. CASE \E k : /\ consent_barriers' = Without(consent_barriers, {k})
                   /\ UNCHANGED <<dataVars, client_barriers, family_barriers>>
  BY <1>1, <1>10, BarrierModest
<1> QED BY <1>1, <1>2, <1>3, <1>4, <1>5, <1>6, <1>7, <1>8, <1>9, <1>10 DEF SweepBatch

\* Every method of one statement.
LEMMA StatementsModest ==
    ASSUME Serial, Statement
    PROVE  Modest
<1> USE DEF deviceMaps, tokenMaps, barriers
<1>0. CallsTyped(Calls) /\ TypeOK
  BY WorkloadAssumption DEF Serial, Calls
<1>1. CASE ClientStatement
  <2>1. PICK c, g, h : UNCHANGED txn /\ (put_client(c, g) \/ compare_and_swap_client(c, h, g))
                       /\ c \in ClientIds /\ g \in Registrations
    <3>1. CASE \E args \in Calls.put_client :
                   OnRow("clients", args[1]) /\ put_client(args[1], args[2])
      BY <1>0, <3>1 DEF CallsTyped, OnRow
    <3>2. CASE \E args \in Calls.swap_client :
                   OnRow("clients", args[1]) /\ compare_and_swap_client(args[1], args[2], args[3])
      BY <1>0, <3>2 DEF CallsTyped, OnRow
    <3> QED BY <1>1, <3>1, <3>2 DEF ClientStatement
  <2>2. TypeOK'
    BY <1>0, <2>1, ClientType
  <2>3. UNCHANGED <<consents, pushed, tokenMaps, barriers>>
    BY <2>1 DEF put_client, compare_and_swap_client
  <2>4. \A d \in ClientIds : clients'[d] = None => clients[d] = None
    BY <1>0, <2>1, NoneAssumption DEF TypeOK, put_client, compare_and_swap_client
  <2> QED BY <2>1, <2>2, <2>3, <2>4, ElsewhereModest
<1>2. CASE DeleteTokenStatement
  BY <1>0, <1>2, DropsModest DEF DeleteTokenStatement, OnRow
<1>3. CASE TakeRefreshStatement
  BY <1>0, <1>3, DropsModest DEF TakeRefreshStatement, OnRow
<1>4. CASE PutCodeStatement \/ SwapCodeStatement \/ TakeCodeStatement
  <2>1. CASE TakeCodeStatement
    <3>1. PICK c : take_authorization_code(c) /\ UNCHANGED txn /\ c \in AuthCodes
      BY <1>0, <2>1 DEF TakeCodeStatement, OnRow, CallsTyped
    <3>2. TypeOK'
      BY <1>0, <3>1, TakeCodeType
    <3> QED BY <3>1, <3>2, ElsewhereModest DEF take_authorization_code
  <2>2. CASE PutCodeStatement \/ SwapCodeStatement
    <3>1. PICK c, e, rec : /\ UNCHANGED txn /\ c \in AuthCodes
                           /\ rec \in AuthorizationCodeRecord(Nat)
                           /\ \/ put_authorization_code(c, rec)
                              \/ compare_and_swap_authorization_code(c, e, rec)
      <4>1. CASE PutCodeStatement
        BY <1>0, <4>1 DEF PutCodeStatement, OnRow, CallsTyped
      <4>2. CASE SwapCodeStatement
        BY <1>0, <4>2 DEF SwapCodeStatement, OnRow, CallsTyped
      <4> QED BY <2>2, <4>1, <4>2
    <3>2. TypeOK'
      BY <1>0, <3>1, CodeType
    <3> QED BY <3>1, <3>2, ElsewhereModest
            DEF put_authorization_code, compare_and_swap_authorization_code
  <2> QED BY <1>4, <2>1, <2>2
<1>5. CASE DeviceStatement
  <2>1. CASE \E d \in Calls.take_device : OnRow("devices", d) /\ take_device_grant(d)
    <3>1. PICK d : take_device_grant(d) /\ UNCHANGED txn
      BY <2>1 DEF OnRow
    <3>2. TypeOK'
      BY <1>0, <3>1 DEF TypeOK, take_device_grant, Option
    <3> QED BY <3>1, <3>2, ElsewhereModest DEF take_device_grant
  <2>2. CASE \/ \E args \in Calls.put_device :
                    /\ OnRow("devices", args[1]) /\ UserCodeSettled(args[2])
                    /\ put_device_grant(args[1], args[2])
             \/ \E args \in Calls.swap_device :
                    /\ OnRow("devices", args[1]) /\ UserCodeSettled(args[3])
                    /\ compare_and_swap_device_grant(args[1], args[2], args[3])
    <3>1. PICK d, e, g : /\ UNCHANGED txn /\ d \in DeviceCodes /\ g \in DeviceGrant(Nat)
                         /\ \/ put_device_grant(d, g)
                            \/ compare_and_swap_device_grant(d, e, g)
      <4>1. CASE \E args \in Calls.put_device :
                     /\ OnRow("devices", args[1]) /\ UserCodeSettled(args[2])
                     /\ put_device_grant(args[1], args[2])
        BY <1>0, <4>1 DEF OnRow, CallsTyped
      <4>2. CASE \E args \in Calls.swap_device :
                     /\ OnRow("devices", args[1]) /\ UserCodeSettled(args[3])
                     /\ compare_and_swap_device_grant(args[1], args[2], args[3])
        BY <1>0, <4>2 DEF OnRow, CallsTyped
      <4> QED BY <2>2, <4>1, <4>2
    <3>2. TypeOK'
      BY <1>0, <3>1, DeviceType
    <3>3. UNCHANGED <<clients, consents, pushed, tokenMaps, barriers>>
      BY <3>1 DEF put_device_grant, compare_and_swap_device_grant
    <3> QED BY <3>1, <3>2, <3>3, ElsewhereModest
  <2> QED BY <1>5, <2>1, <2>2 DEF DeviceStatement
<1>6. CASE PushedStatement
  BY <1>0, <1>6, DropsModest DEF PushedStatement, OnRow
<1>7. CASE ReplayStatement
  <2>1. PICK i, at : claim_replay_id(i, at) /\ UNCHANGED txn /\ i \in ReplayIds /\ at \in Nat
    BY <1>0, <1>7 DEF ReplayStatement, CallsTyped
  <2>2. TypeOK'
    BY <1>0, <2>1 DEF TypeOK, claim_replay_id, Option
  <2> QED BY <2>1, <2>2, ElsewhereModest DEF claim_replay_id
<1>8. CASE SweepStatement
  BY <1>0, <1>8, SweepModest
<1> QED BY <1>1, <1>2, <1>3, <1>4, <1>5, <1>6, <1>7, <1>8 DEF Statement


-----------------------------------------------------------------------------
(***************************************************************************)
(* The invariant is inductive                                               *)
(***************************************************************************)
\* The invariant holds when no transaction has begun.
LEMMA SerialInit == PgInit => Serial
<1> SUFFICES ASSUME PgInit PROVE Serial
  OBVIOUS
<1>1. StoreInit /\ workload \in Workloads /\ txn = [t \in Txns |-> Closed]
  BY DEF PgInit
<1>2. TypeOK
  BY <1>1, EmptyFacts DEF StoreInit, TypeOK
<1>3. NoRowBehindBarrier
  BY <1>1, EmptyFacts DEF StoreInit, NoRowBehindBarrier, NoTokenBehindBarrier,
     NoRefreshBehindBarrier, NoPushBehindBarrier
<1>4. ConsentsKeyed /\ OneConsentPerPair
  BY <1>1, EmptyFacts DEF StoreInit, ConsentsKeyed, OneConsentPerPair
<1>5. PICK r : r = Closed
  OBVIOUS
<1>6. r.rows = {} /\ r.advisory = {}
  BY <1>5 DEF Closed
<1>7. \A t \in Txns : txn[t] = r
  BY <1>1, <1>5
<1>8. LocksExclude
  BY <1>6, <1>7 DEF LocksExclude, Holds
<1>9. \A t \in Txns : Sound(t)
  BY <1>5, <1>7, ClosedShape DEF Sound
<1>10. txn = [t \in Txns |-> txn[t]]
  BY <1>1, <1>5
<1> QED BY <1>1, <1>2, <1>3, <1>4, <1>8, <1>9, <1>10 DEF Serial

\* A statement of a transaction that is not a commit keeps the invariant.
LEMMA KeptSerial ==
    ASSUME Serial, NEW t \in Txns, Kept(t), UNCHANGED workload
    PROVE  Serial'
<1>1. UNCHANGED storeVars
  BY DEF Kept
<1>2. TypeOK /\ NoRowBehindBarrier /\ ConsentsKeyed /\ OneConsentPerPair /\ workload \in Workloads
  BY DEF Serial
<1>3. TypeOK' /\ ConsentsKeyed' /\ OneConsentPerPair'
  BY <1>1, <1>2 DEF storeVars, deviceMaps, tokenMaps, barriers, TypeOK, ConsentsKeyed,
                    OneConsentPerPair
<1>4. NoRowBehindBarrier'
  BY <1>1, <1>2, RowsAdmitted DEF storeVars, tokenMaps, barriers
<1>5. ASSUME NEW u \in Txns PROVE Sound(u)'
  <2>1. CASE u = t
    BY <2>1 DEF Kept
  <2>2. CASE u # t
    <3>1. txn'[u] = txn[u]
      BY <2>2 DEF Kept
    <3>2. RowsHeld(u) /\ NothingWritten(u) /\ NothingRevoked(u)
      BY <1>1 DEF storeVars, deviceMaps, tokenMaps, barriers, RowsHeld, NothingWritten,
                  NothingRevoked
    <3> QED BY <1>2, <1>3, <3>1, <3>2, SoundStays DEF Undisturbed, Serial
  <2> QED BY <2>1, <2>2
<1> QED BY <1>2, <1>3, <1>4, <1>5 DEF Serial, Kept

\* A commit keeps the invariant.
LEMMA CommitSerial ==
    ASSUME Serial, NEW u \in Txns, Commit(u), UNCHANGED workload
    PROVE  Serial'
<1>1. Published(u) /\ Close(u)
  BY CommitKept
<1>2. /\ txn' = [t \in Txns |-> txn'[t]]
      /\ \A t \in Txns : t # u => txn'[t] = txn[t]
      /\ Sound(u)' /\ LocksExclude'
  BY <1>1, CloseLocks
<1>3. ASSUME NEW t \in Txns, t # u PROVE Sound(t)'
  <2>1. Undisturbed(t)
    BY <1>1, <1>2, <1>3 DEF Published, Undisturbed
  <2> QED BY <1>1, <2>1, SoundStays DEF Published, Serial
<1> QED BY <1>1, <1>2, <1>3 DEF Serial, Published

\* A method of one statement keeps the invariant.
LEMMA StatementSerial ==
    ASSUME Serial, Statement, UNCHANGED workload
    PROVE  Serial'
<1>1. Modest
  BY StatementsModest
<1>2. TypeOK' /\ txn' = txn
  BY <1>1 DEF Modest
<1>3. /\ ConsentsKeyed' /\ OneConsentPerPair' /\ NoRowBehindBarrier'
      /\ \A t \in Txns : RowsHeld(t) /\ NothingWritten(t) /\ NothingRevoked(t)
  BY <1>1, ModestKept
<1>4. \A t \in Txns : Sound(t)'
  BY <1>2, <1>3, SoundStays DEF Undisturbed, Serial
<1>5. LocksExclude'
  BY <1>2 DEF LocksExclude, Holds, Serial
<1> QED BY <1>2, <1>3, <1>4, <1>5 DEF Serial

\* So does doing nothing.
LEMMA StutterSerial ==
    ASSUME Serial, UNCHANGED pgVars
    PROVE  Serial'
<1>1. UNCHANGED storeVars /\ txn' = txn /\ workload' = workload
  BY DEF pgVars
<1>2. TypeOK /\ NoRowBehindBarrier /\ ConsentsKeyed /\ OneConsentPerPair
  BY DEF Serial
<1>3. TypeOK' /\ ConsentsKeyed' /\ OneConsentPerPair'
  BY <1>1, <1>2 DEF storeVars, deviceMaps, tokenMaps, barriers, TypeOK, ConsentsKeyed,
                    OneConsentPerPair
<1>4. NoRowBehindBarrier'
  BY <1>1, <1>2, RowsAdmitted DEF storeVars, tokenMaps, barriers
<1>5. \A t \in Txns : RowsHeld(t) /\ NothingWritten(t) /\ NothingRevoked(t)
  BY <1>1 DEF storeVars, deviceMaps, tokenMaps, barriers, RowsHeld, NothingWritten, NothingRevoked
<1>6. \A t \in Txns : Sound(t)'
  BY <1>1, <1>3, <1>5, SoundStays DEF Undisturbed, Serial
<1>7. LocksExclude'
  BY <1>1 DEF LocksExclude, Holds, Serial
<1> QED BY <1>1, <1>3, <1>4, <1>6, <1>7 DEF Serial

\* Every step keeps the invariant.
LEMMA SerialStep == Serial /\ [PgNext]_pgVars => Serial'
<1> SUFFICES ASSUME Serial, [PgNext]_pgVars PROVE Serial'
  OBVIOUS
<1>1. CASE UNCHANGED pgVars
  BY <1>1, StutterSerial
<1>2. CASE PgNext
  <2>1. UNCHANGED workload
    BY <1>2 DEF PgNext
  <2>2. ASSUME NEW t \in Txns, BeginCall(t) PROVE Kept(t)
    BY <2>2, PutKept, RotateKept, RevokeKept, ConsentKept DEF BeginCall
  <2>3. ASSUME NEW t \in Txns, Step(t) PROVE Kept(t) \/ Commit(t)
    <3>1. CASE AdvisoryLock(t)
      BY <3>1, LockKept
    <3>2. CASE Check(t) \/ LockRow(t) \/ Compare(t) \/ Claim(t)
      BY <3>2, CheckKept, LockRowKept, CompareKept, ClaimKept
    <3>3. CASE StartDelete(t) \/ FinishDelete(t)
      BY <3>3, StartDeleteKept, FinishDeleteKept
    <3>4. CASE StartSelect(t) \/ FinishSelect(t)
      BY <3>4, StartSelectKept, FinishSelectKept
    <3>5. CASE Rollback(t)
      BY <3>5, CloseKept DEF Rollback
    <3> QED BY <2>3, <3>1, <3>2, <3>3, <3>4, <3>5 DEF Step
  <2>4. (\E t \in Txns : BeginCall(t) \/ Step(t)) \/ Statement
    BY <1>2 DEF PgNext, Statement
  <2> QED BY <2>1, <2>2, <2>3, <2>4, KeptSerial, CommitSerial, StatementSerial
<1> QED BY <1>1, <1>2

\* The invariant holds in every reachable state.
LEMMA SerialAlways == PgSpec => []Serial
  BY SerialInit, SerialStep, PTL DEF PgSpec

\* A table from which a revocation deleted the records that it names has no other row to delete.
LEMMA CompleteCascade ==
    ASSUME NEW t, RevokesSafely(txn[t]), NEW table, NEW named,
           \A k : <<table, k>> \in txn[t].gone <=> k \in named,
           \A k : <<table, k>> \in DoomedRows(t, table) <=> k \in named
    PROVE  CascadeComplete(t, table)
<1>1. PICK r, rows : r = txn[t] /\ rows = DoomedRows(t, table)
  OBVIOUS
<1>2. \A row \in r.gone : row = <<row[1], row[2]>>
  BY <1>1 DEF RevokesSafely
<1>3. \A row \in rows : row = <<row[1], row[2]>> /\ row[1] = table
  BY <1>1, DoomedShape
<1>4. \A k : <<table, k>> \in r.gone <=> <<table, k>> \in rows
  BY <1>1
<1>5. {row \in r.gone : row[1] = table} = rows
  BY <1>2, <1>3, <1>4
<1> QED BY <1>1, <1>5 DEF CascadeComplete

\* What a transaction may rely on, with nothing but its commit left, is what its commit needs.
LEMMA SerialAtomic == Serial => CommitsAreAtomic
<1> SUFFICES ASSUME Serial, NEW t \in Txns, Verb(t) = "commit"
             PROVE  LET args == txn[t].args IN
                    CASE txn[t].op \in {"put_token", "put_refresh_token", "put_pushed"} ->
                             ~barrier_covers(t)
                      [] txn[t].op = "rotate" -> ~barrier_covers(t) /\ refresh[args[1]] = args[2]
                      [] txn[t].op = "swap_consent" ->
                             args[2] \in FindConsent(args[3].client_id, args[3].subject)
                      [] txn[t].op \in {"revoke_family", "revoke_consent"} ->
                             CascadeComplete(t, "tokens") /\ CascadeComplete(t, "refresh")
                      [] txn[t].op = "delete_client" ->
                             \A table \in {"tokens", "refresh", "pushed"} :
                                 CascadeComplete(t, table)
  BY DEF CommitsAreAtomic
<1>1. /\ \A s \in Pending(txn[t]) : s[1] = "commit"
      /\ Writing(t) \/ Revoking(t) \/ Swapping(t)
  BY LastStatement DEF Serial
<1>2. CASE Writing(t)
  <2>1. txn[t].op \in {"put_token", "put_refresh_token", "put_pushed", "rotate"}
    BY <1>2 DEF Writing, WritesSafely, WriteTyped
  <2>2. /\ ~barrier_covers(t)
        /\ txn[t].op = "rotate" => refresh[txn[t].args[1]] = txn[t].args[2]
    BY <1>1, <1>2, WriteReady
  <2> QED BY <2>1, <2>2
<1>3. CASE Revoking(t)
  <2>1. /\ RevokesSafely(txn[t])
        /\ \A k : <<"tokens", k>> \in txn[t].gone <=> k \in NamedBy(txn[t], tokens)
        /\ \A k : <<"refresh", k>> \in txn[t].gone <=> k \in NamedBy(txn[t], refresh)
        /\ txn[t].op = "delete_client" =>
               \A k : <<"pushed", k>> \in txn[t].gone <=> k \in NamedBy(txn[t], pushed)
    BY <1>1, <1>3, RevocationReady
  <2>2. RevocationTyped(txn[t])
    BY <2>1 DEF RevokesSafely
  <2>3. /\ \A k : <<"tokens", k>> \in DoomedRows(t, "tokens") <=> k \in NamedBy(txn[t], tokens)
        /\ \A k : <<"refresh", k>> \in DoomedRows(t, "refresh") <=> k \in NamedBy(txn[t], refresh)
        /\ txn[t].op = "delete_client" => \A k :
               <<"pushed", k>> \in DoomedRows(t, "pushed") <=> k \in NamedBy(txn[t], pushed)
    BY <2>2, DoomedNamed
  <2>4. CascadeComplete(t, "tokens")
    BY <2>1, <2>3, CompleteCascade
  <2>5. CascadeComplete(t, "refresh")
    BY <2>1, <2>3, CompleteCascade
  <2>6. txn[t].op = "delete_client" => CascadeComplete(t, "pushed")
    BY <2>1, <2>3, CompleteCascade
  <2>7. txn[t].op \in {"delete_client", "revoke_family", "revoke_consent"}
    BY <2>2 DEF RevocationTyped
  <2> QED BY <2>4, <2>5, <2>6, <2>7
<1>4. CASE Swapping(t)
  <2>1. SwapTyped(txn[t]) /\ Settled(txn[t], consents)
    BY <1>1, <1>4, SwapReady
  <2>2. txn[t].args[2] \in FindConsent(txn[t].args[3].client_id, txn[t].args[3].subject)
    BY <2>1 DEF Settled, Pair, FindConsent
  <2>3. txn[t].op = "swap_consent"
    BY <2>1 DEF SwapTyped
  <2> QED BY <2>2, <2>3
<1> QED BY <1>1, <1>2, <1>3, <1>4

\* For any number of connections and any calls of the declared types: when a transaction commits,
\* what it read or decided earlier still holds, at READ COMMITTED and with every statement of the
\* others in between (store.rs, `lock_barrier_scopes`, `rotate_refresh_token`,
\* `compare_and_swap_consent`).
THEOREM CommitsStayAtomic == PgSpec => []CommitsAreAtomic
  BY SerialAlways, SerialAtomic, PTL

\* However many connections record consents at once, and whatever is withdrawn meanwhile, a client
\* and a subject never have two (store.rs, `compare_and_swap_consent`).
THEOREM OneConsentStands == PgSpec => []OneConsentPerPair
<1>1. Serial => OneConsentPerPair
  BY DEF Serial
<1> QED BY <1>1, SerialAlways, PTL

\* The resurrection predicate holds of the committed tables: the advisory locks leave no way for a
\* write to pass its barrier check and be committed behind the barrier that a concurrent revocation
\* sets (store.rs, `lock_barrier_scopes`).
THEOREM NothingCommittedBehindABarrier == PgSpec => []NoRowBehindBarrier
<1>1. Serial => NoRowBehindBarrier
  BY DEF Serial
<1> QED BY <1>1, SerialAlways, PTL
=============================================================================

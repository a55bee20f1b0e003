---------------------------- MODULE StorageLemmas ----------------------------
(***************************************************************************)
(* Lemmas about the operators of Storage, for the modules that prove        *)
(* something of its callers: what the helpers on maps and barriers return,  *)
(* and that each call of the store keeps its maps well typed.               *)
(***************************************************************************)
EXTENDS Storage, TLAPS

-----------------------------------------------------------------------------
(***************************************************************************)
(* Maps and barriers                                                        *)
(***************************************************************************)
\* Removing keys from a map (`HashMap::retain`) leaves a map of the same type, None at the
\* removed keys and unchanged elsewhere.
LEMMA WithoutFacts ==
    ASSUME NEW K, NEW R, NEW map \in [K -> Option(R)], NEW doomed
    PROVE  /\ Without(map, doomed) \in [K -> Option(R)]
           /\ \A k \in K : Without(map, doomed)[k] = IF k \in doomed THEN None ELSE map[k]
BY DEF Without, Option

\* A map that holds no key is well typed.
LEMMA EmptyFacts ==
    ASSUME NEW K, NEW R
    PROVE  Empty(K) \in [K -> Option(R)] /\ \A k \in K : Empty(K)[k] = None
BY DEF Empty, Option

\* BarrierTimes::merge_into yields a window at least as late as both it was given.
LEMMA MergeFacts ==
    ASSUME NEW slot \in Option(RevocationWindow(Nat)), NEW w \in RevocationWindow(Nat)
    PROVE  /\ merge_into(slot, w) \in RevocationWindow(Nat)
           /\ merge_into(slot, w) # None
           /\ merge_into(slot, w).recorded_at >= w.recorded_at
           /\ merge_into(slot, w).until >= w.until
           /\ slot # None => /\ merge_into(slot, w).recorded_at >= slot.recorded_at
                             /\ merge_into(slot, w).until >= slot.until
BY NoneAssumption DEF merge_into, Later, Option, RevocationWindow

-----------------------------------------------------------------------------
(***************************************************************************)
(* Types                                                                    *)
(***************************************************************************)
\* Indexing and inserting a device grant keeps both maps well typed.
LEMMA IndexAndInsertType ==
    ASSUME TypeOK, NEW d \in DeviceCodes, NEW g \in DeviceGrant(Nat), IndexAndInsert(d, g)
    PROVE  /\ device_by_code' \in [DeviceCodes -> Option(DeviceGrant(Nat))]
           /\ user_code_index' \in [UserCodes -> Option(DeviceCodes)]
<1> DEFINE previous == device_by_code[d]
           retired == IF previous # None /\ previous.user_code # g.user_code
                      THEN {previous.user_code} ELSE {}
<1>1. Without(user_code_index, retired) \in [UserCodes -> Option(DeviceCodes)]
  <2>1. user_code_index \in [UserCodes -> Option(DeviceCodes)] BY DEF TypeOK
  <2> HIDE DEF retired
  <2> QED BY <2>1, WithoutFacts
<1>2. /\ user_code_index' = [Without(user_code_index, retired) EXCEPT ![g.user_code] = d]
      /\ device_by_code' = [device_by_code EXCEPT ![d] = g]
  BY DEF IndexAndInsert
<1> HIDE DEF retired
<1> QED BY <1>1, <1>2 DEF TypeOK, Option

\* Removing any keys from any map of a well-typed store leaves that map well typed.
LEMMA RetainType ==
    ASSUME TypeOK, NEW doomed
    PROVE  /\ Without(device_by_code, doomed) \in [DeviceCodes -> Option(DeviceGrant(Nat))]
           /\ Without(user_code_index, doomed) \in [UserCodes -> Option(DeviceCodes)]
           /\ Without(codes, doomed) \in [AuthCodes -> Option(AuthorizationCodeRecord(Nat))]
           /\ Without(pushed, doomed) \in [RequestUris -> Option(PushedAuthorizationRequest(Nat))]
           /\ Without(tokens, doomed) \in [AccessTokens -> Option(IssuedToken(Nat))]
           /\ Without(refresh, doomed) \in [RefreshTokens -> Option(RefreshTokenRecord(Nat))]
           /\ Without(consents, doomed) \in [ConsentIds -> Option(ConsentRecord(Nat))]
           /\ Without(replay_ids, doomed) \in [ReplayIds -> Option(Nat)]
           /\ Without(client_barriers, doomed) \in [ClientIds -> Option(RevocationWindow(Nat))]
           /\ Without(family_barriers, doomed) \in [FamilyIds -> Option(RevocationWindow(Nat))]
           /\ Without(consent_barriers, doomed)
                  \in [ClientIds \X Subjects -> Option(RevocationWindow(Nat))]
BY WithoutFacts DEF TypeOK

\* put_client and compare_and_swap_client.
LEMMA ClientType ==
    ASSUME TypeOK, NEW c \in ClientIds, NEW expected, NEW g \in Registrations,
           put_client(c, g) \/ compare_and_swap_client(c, expected, g)
    PROVE  TypeOK'
BY DEF TypeOK, put_client, compare_and_swap_client, Option, deviceMaps, tokenMaps, barriers

\* delete_client, its barrier and its cascade.
LEMMA DeleteClientType ==
    ASSUME TypeOK, NEW c \in ClientIds, NEW w \in RevocationWindow(Nat), delete_client(c, w)
    PROVE  TypeOK'
<1>1. merge_into(client_barriers[c], w) \in RevocationWindow(Nat)
  BY MergeFacts DEF TypeOK
<1>2. clients' \in [ClientIds -> Option(Registrations)]
  BY DEF TypeOK, delete_client, Option
<1>3. client_barriers' \in [ClientIds -> Option(RevocationWindow(Nat))]
  BY <1>1 DEF TypeOK, delete_client, Option
<1>4. /\ tokens' \in [AccessTokens -> Option(IssuedToken(Nat))]
      /\ refresh' \in [RefreshTokens -> Option(RefreshTokenRecord(Nat))]
      /\ codes' \in [AuthCodes -> Option(AuthorizationCodeRecord(Nat))]
      /\ pushed' \in [RequestUris -> Option(PushedAuthorizationRequest(Nat))]
      /\ device_by_code' \in [DeviceCodes -> Option(DeviceGrant(Nat))]
      /\ user_code_index' \in [UserCodes -> Option(DeviceCodes)]
      /\ consents' \in [ConsentIds -> Option(ConsentRecord(Nat))]
  BY RetainType DEF delete_client
<1> QED BY <1>2, <1>3, <1>4 DEF TypeOK, delete_client

\* put_device_grant, compare_and_swap_device_grant and take_device_grant.
LEMMA DeviceType ==
    ASSUME TypeOK, NEW d \in DeviceCodes, NEW expected, NEW g \in DeviceGrant(Nat),
           \/ put_device_grant(d, g)
           \/ compare_and_swap_device_grant(d, expected, g)
           \/ take_device_grant(d)
    PROVE  TypeOK'
<1> USE DEF deviceMaps, tokenMaps, barriers
<1>1. CASE put_device_grant(d, g)
  BY <1>1, IndexAndInsertType DEF TypeOK, put_device_grant
<1>2. CASE compare_and_swap_device_grant(d, expected, g)
  BY <1>2, IndexAndInsertType DEF TypeOK, compare_and_swap_device_grant
<1>3. CASE take_device_grant(d)
  BY <1>3 DEF TypeOK, take_device_grant, Option
<1> QED BY <1>1, <1>2, <1>3

\* put_authorization_code and compare_and_swap_authorization_code.
LEMMA CodeType ==
    ASSUME TypeOK, NEW x \in AuthCodes, NEW expected, NEW rec \in AuthorizationCodeRecord(Nat),
           \/ put_authorization_code(x, rec)
           \/ compare_and_swap_authorization_code(x, expected, rec)
    PROVE  TypeOK'
BY DEF TypeOK, put_authorization_code, compare_and_swap_authorization_code, Option, deviceMaps,
   tokenMaps, barriers

\* take_authorization_code.
LEMMA TakeCodeType ==
    ASSUME TypeOK, NEW x \in AuthCodes, take_authorization_code(x)
    PROVE  TypeOK'
BY DEF TypeOK, take_authorization_code, Option, deviceMaps, tokenMaps, barriers

\* put_token, whether it writes or is refused.
LEMMA PutTokenType ==
    ASSUME TypeOK, NEW a \in AccessTokens, NEW rec \in IssuedToken(Nat), put_token(a, rec)
    PROVE  TypeOK'
BY DEF TypeOK, put_token, Option, deviceMaps, barriers

\* delete_token.
LEMMA DeleteTokenType ==
    ASSUME TypeOK, NEW a \in AccessTokens, delete_token(a)
    PROVE  TypeOK'
BY DEF TypeOK, delete_token, Option, deviceMaps, barriers

\* put_refresh_token, whether it writes or is refused.
LEMMA PutRefreshType ==
    ASSUME TypeOK, NEW n \in RefreshTokens, NEW rec \in RefreshTokenRecord(Nat),
           put_refresh_token(n, rec)
    PROVE  TypeOK'
BY DEF TypeOK, put_refresh_token, Option, deviceMaps, barriers

\* take_refresh_token.
LEMMA TakeRefreshType ==
    ASSUME TypeOK, NEW n \in RefreshTokens, take_refresh_token(n)
    PROVE  TypeOK'
BY DEF TypeOK, take_refresh_token, Option, deviceMaps, barriers

\* rotate_refresh_token, with or without a successor.
LEMMA RotateType ==
    ASSUME TypeOK, NEW n \in RefreshTokens, NEW expected,
           NEW spent \in RefreshTokenRecord(Nat), NEW a \in AccessTokens,
           NEW access \in IssuedToken(Nat), NEW m, NEW next \in RefreshTokenRecord(Nat),
           rotate_refresh_token(n, expected, spent, a, access, m, next)
    PROVE  TypeOK'
BY DEF TypeOK, rotate_refresh_token, Option, deviceMaps, tokenMaps, barriers

\* revoke_token_family and its cascade.
LEMMA RevokeFamilyType ==
    ASSUME TypeOK, NEW f \in FamilyIds, NEW w \in RevocationWindow(Nat), revoke_token_family(f, w)
    PROVE  TypeOK'
<1>1. merge_into(family_barriers[f], w) \in RevocationWindow(Nat)
  BY MergeFacts DEF TypeOK
<1>2. family_barriers' \in [FamilyIds -> Option(RevocationWindow(Nat))]
  BY <1>1 DEF TypeOK, revoke_token_family, Option
<1>3. /\ tokens' \in [AccessTokens -> Option(IssuedToken(Nat))]
      /\ refresh' \in [RefreshTokens -> Option(RefreshTokenRecord(Nat))]
  BY RetainType DEF revoke_token_family
<1> QED BY <1>2, <1>3 DEF TypeOK, revoke_token_family, deviceMaps

\* put_consent and compare_and_swap_consent.
LEMMA ConsentType ==
    ASSUME TypeOK, NEW k \in ConsentIds, NEW x \in ConsentRecord(Nat), NEW found, NEW expected,
           put_consent(k, x) \/ compare_and_swap_consent(k, found, expected, x)
    PROVE  TypeOK'
BY DEF TypeOK, put_consent, compare_and_swap_consent, Option, deviceMaps, tokenMaps, barriers

\* revoke_consent, its barrier and its cascade.
LEMMA RevokeConsentType ==
    ASSUME TypeOK, NEW k \in ConsentIds, NEW w \in RevocationWindow(Nat), revoke_consent(k, w)
    PROVE  TypeOK'
<1>1. CASE consents[k] = None
  BY <1>1 DEF TypeOK, revoke_consent, storeVars, deviceMaps, tokenMaps, barriers
<1>2. CASE consents[k] # None
  <2> DEFINE pair == <<consents[k].client_id, consents[k].subject>>
  <2>1. pair \in ClientIds \X Subjects
    BY <1>2 DEF TypeOK, Option, ConsentRecord
  <2>2. merge_into(consent_barriers[pair], w) \in RevocationWindow(Nat)
    BY <2>1, MergeFacts DEF TypeOK
  <2>3. consent_barriers' \in [ClientIds \X Subjects -> Option(RevocationWindow(Nat))]
    BY <1>2, <2>1, <2>2 DEF TypeOK, revoke_consent, Option
  <2>4. consents' \in [ConsentIds -> Option(ConsentRecord(Nat))]
    BY <1>2 DEF TypeOK, revoke_consent, Option
  <2>5. /\ tokens' \in [AccessTokens -> Option(IssuedToken(Nat))]
        /\ refresh' \in [RefreshTokens -> Option(RefreshTokenRecord(Nat))]
        /\ codes' \in [AuthCodes -> Option(AuthorizationCodeRecord(Nat))]
        /\ device_by_code' \in [DeviceCodes -> Option(DeviceGrant(Nat))]
        /\ user_code_index' \in [UserCodes -> Option(DeviceCodes)]
    BY <1>2, RetainType DEF revoke_consent
  <2> QED BY <1>2, <2>3, <2>4, <2>5 DEF TypeOK, revoke_consent
<1> QED BY <1>1, <1>2

\* sweep_expired only removes keys.
LEMMA SweepType ==
    ASSUME TypeOK, NEW t, sweep_expired(t)
    PROVE  TypeOK'
<1>1. \E doomed : device_by_code' = Without(device_by_code, doomed)
  BY DEF sweep_expired
<1>2. \E doomed : user_code_index' = Without(user_code_index, doomed)
  BY DEF sweep_expired
<1>3. /\ \E doomed : codes' = Without(codes, doomed)
      /\ \E doomed : pushed' = Without(pushed, doomed)
      /\ \E doomed : tokens' = Without(tokens, doomed)
      /\ \E doomed : refresh' = Without(refresh, doomed)
      /\ \E doomed : replay_ids' = Without(replay_ids, doomed)
  BY DEF sweep_expired
<1>4. /\ \E doomed : client_barriers' = Without(client_barriers, doomed)
      /\ \E doomed : family_barriers' = Without(family_barriers, doomed)
      /\ \E doomed : consent_barriers' = Without(consent_barriers, doomed)
      /\ UNCHANGED <<clients, consents>>
  BY DEF sweep_expired
<1> QED BY <1>1, <1>2, <1>3, <1>4, RetainType DEF TypeOK
=============================================================================

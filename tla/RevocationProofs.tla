-------------------------- MODULE RevocationProofs --------------------------
(***************************************************************************)
(* A revoked grant stays dead, whatever the requests that were in flight    *)
(* when it was revoked still write.                                         *)
(*                                                                          *)
(* The store deletes the tokens of the grant and leaves a barrier, which    *)
(* the sweep may reclaim once the revocation window has passed.  So the     *)
(* argument is about time: a request that holds a record of the grant must  *)
(* have ended before the barrier can be gone.                               *)
(***************************************************************************)
EXTENDS TokenEndpointProofs

\* A request that presents a code dated before a revocation ends before the barrier lapses: the
\* code may be issued MaxInFlight after its date, presented authorization_code_ttl later, and the
\* request that presents it may take MaxInFlight.
WindowCondition ==
    /\ Longest >= authorization_code_ttl + 2 * MaxInFlight
    /\ Longest > MaxInFlight

-----------------------------------------------------------------------------
(***************************************************************************)
(* The inductive invariant                                                  *)
(***************************************************************************)
\* A grant established at `est` has not been cut off by a revocation at t.
After(t, est) == t = None \/ t < est

\* The grant of a token or refresh record has not been revoked.
Standing(rec) ==
    /\ rec.family_id \notin revoked
    /\ After(deleted_at[rec.client_id], rec.grant_established_at)
    /\ rec.subject # None =>
           After(withdrawn_at[<<rec.client_id, rec.subject>>], rec.grant_established_at)

TokensStand == \A a \in AccessTokens : tokens[a] # None => Standing(tokens[a])
RefreshStands ==
    \A n \in RefreshTokens : refresh[n] # None =>
        Standing(refresh[n]) /\ refresh[n].family_id \in used

\* The barrier in `slot` refuses what was established by t and outlasts `deadline`.
Bars(slot, t, deadline) == slot # None /\ slot.recorded_at >= t /\ slot.until > deadline

\* What a request that started at `since` may still write, a barrier refuses if it is revoked.
ClientSafe(c, est, since) ==
    ~After(deleted_at[c], est) => Bars(client_barriers[c], deleted_at[c], since + MaxInFlight)
ConsentSafe(p, est, since) ==
    ~After(withdrawn_at[p], est) => Bars(consent_barriers[p], withdrawn_at[p], since + MaxInFlight)
FamilySafe(f, since) ==
    f \in revoked => family_barriers[f] # None /\ family_barriers[f].until > since + MaxInFlight

\* The barrier of a revocation stands for the revocation window.
ClientsBarred ==
    \A c \in ClientIds : deleted_at[c] # None /\ now < deleted_at[c] + Longest =>
        Bars(client_barriers[c], deleted_at[c], deleted_at[c] + Longest - 1)
ConsentsBarred ==
    \A p \in ClientIds \X Subjects : withdrawn_at[p] # None /\ now < withdrawn_at[p] + Longest =>
        Bars(consent_barriers[p], withdrawn_at[p], withdrawn_at[p] + Longest - 1)

\* A code lapses a bounded time after the decision it rests on.
Lapses(rec) == rec.expires_at <= rec.issued_at + MaxInFlight + authorization_code_ttl
CodesLapse == \A x \in AuthCodes : codes[x] # None => Lapses(codes[x])

\* The steps from which a request may write a token or a refresh record, and among them those
\* that write for the family it has drawn or continues.
OwnSteps == {"put_access", "put_refresh", "rotate"}
WritingSteps ==
    OwnSteps \cup {"consume_code", "spend_refresh", "restore_refresh", "reuse_revoke", "reuse_rearm"}

FamilyOf(q) ==
    IF q.pc \in OwnSteps THEN q.family
    ELSE IF q.cred \in RefreshTokens THEN q.rec.family_id ELSE None

OnTime(q) == q.pc # "idle" => q.since <= now /\ now <= q.since + MaxInFlight

Genuine(q) ==
    /\ q.cred \notin DeviceCodes
    /\ q.family \in used \cup {None}
    /\ HoldsRefresh(q) => q.rec.family_id \in used
    /\ HoldsCode(q) => Lapses(q.rec)
    /\ q.pc \in OwnSteps \cup {"consume_code", "spend_refresh"} => q.rec.client_id = q.client

Sheltered(q) ==
    q.pc \in WritingSteps =>
        /\ ClientSafe(q.rec.client_id, Established(q), q.since)
        /\ q.rec.subject # None =>
               ConsentSafe(<<q.rec.client_id, q.rec.subject>>, Established(q), q.since)
        /\ FamilySafe(FamilyOf(q), q.since)

Hand(q) == OnTime(q) /\ Genuine(q) /\ Sheltered(q)

Buried ==
    /\ TokensStand /\ RefreshStands /\ CodesLapse
    /\ ClientsBarred /\ ConsentsBarred
    /\ revoked \subseteq used
    /\ \A r \in Requests : Hand(req[r])

-----------------------------------------------------------------------------
(***************************************************************************)
(* Steps that revoke nothing and reclaim no barrier                         *)
(***************************************************************************)
Quiet == UNCHANGED <<now, revocations, barriers>> /\ used \subseteq used'

\* A slot that is idle holds nothing.
LEMMA IdleHand == ASSUME NEW r \in Requests, req'[r] = Idle PROVE Hand(req[r])'
BY AbsentAssumption DEF Hand, Idle, OnTime, Genuine, Sheltered, HoldsRefresh, HoldsCode, OwnSteps,
   WritingSteps

\* A handler that waits through such a step.
LEMMA QuietHand ==
    ASSUME Quiet, NEW r \in Requests, Hand(req[r]), req'[r] = req[r]
    PROVE  Hand(req[r])'
BY DEF Hand, OnTime, Genuine, Sheltered, ClientSafe, ConsentSafe, FamilySafe, Quiet, revocations,
   barriers

\* A handler that goes on to a step from which it writes no token.
LEMMA ReadingHand ==
    ASSUME UNCHANGED now, used \subseteq used', NEW r \in Requests, Hand(req[r]), req[r].pc # "idle",
           req'[r].cred = req[r].cred, req'[r].since = req[r].since,
           req'[r].pc \notin WritingSteps,
           req'[r].family \in used' \cup {None},
           HoldsRefresh(req'[r]) => req'[r].rec.family_id \in used',
           HoldsCode(req'[r]) => Lapses(req'[r].rec)
    PROVE  Hand(req[r])'
<1>1. OnTime(req[r])'
  BY DEF Hand, OnTime
<1>2. Genuine(req[r])'
  BY DEF Hand, Genuine, WritingSteps, OwnSteps
<1>3. Sheltered(req[r])'
  BY DEF Sheltered
<1> QED BY <1>1, <1>2, <1>3 DEF Hand

\* The invariant after such a step.
LEMMA QuietRowsKeep ==
    ASSUME Typed', Buried, Quiet,
           \A s \in Requests : Hand(req[s])',
           \A a \in AccessTokens : tokens'[a] \in {tokens[a], None} \/ Standing(tokens'[a]),
           \A n \in RefreshTokens :
               \/ refresh'[n] \in {refresh[n], None}
               \/ Standing(refresh'[n]) /\ refresh'[n].family_id \in used',
           \A x \in AuthCodes : codes'[x] \in {codes[x], None} \/ Lapses(codes'[x])
    PROVE  Buried'
<1> USE DEF Quiet, revocations, barriers
<1>1. TokensStand'
  BY DEF Buried, TokensStand, Standing
<1>2. RefreshStands'
  BY DEF Buried, RefreshStands, Standing
<1>3. CodesLapse'
  BY DEF Buried, CodesLapse
<1>4. ClientsBarred' /\ ConsentsBarred'
  BY DEF Buried, ClientsBarred, ConsentsBarred
<1> QED BY <1>1, <1>2, <1>3, <1>4 DEF Buried

\* The same when the handler in slot r made it.
LEMMA QuietKeeps ==
    ASSUME Typed', Buried, Quiet, NEW r \in Requests,
           \A s \in Requests : s # r => req'[s] = req[s],
           Hand(req[r])',
           \A a \in AccessTokens : tokens'[a] \in {tokens[a], None} \/ Standing(tokens'[a]),
           \A n \in RefreshTokens :
               \/ refresh'[n] \in {refresh[n], None}
               \/ Standing(refresh'[n]) /\ refresh'[n].family_id \in used',
           \A x \in AuthCodes : codes'[x] \in {codes[x], None} \/ Lapses(codes'[x])
    PROVE  Buried'
<1>1. \A s \in Requests : Hand(req[s])'
  BY QuietHand DEF Buried
<1> QED BY <1>1, QuietRowsKeep

\* A handler that only moves on, to a step from which it writes no token.
LEMMA GotoHand ==
    ASSUME Typed, Buried, UNCHANGED now, used \subseteq used', NEW r \in Requests, NEW pc \in Steps \ WritingSteps, NEW v,
           req[r].pc # "idle",
           \/ Goto(r, pc)
           \/ req' = [req EXCEPT ![r].pc = pc, ![r].failed = v]
           \/ req' = [req EXCEPT ![r].failed = v, ![r].pc = pc]
           \/ req' = [req EXCEPT ![r].pc = pc, ![r].family = v] /\ v \in used'
    PROVE  Hand(req[r])'
<1>1. req[r] \in Request /\ Hand(req[r])
  BY DEF Typed, Handlers, Buried
<1>2. /\ req'[r].pc = pc /\ req'[r].cred = req[r].cred /\ req'[r].since = req[r].since
      /\ req'[r].rec = req[r].rec /\ req'[r].client = req[r].client
      /\ req'[r].family = req[r].family \/ req'[r].family \in used'
  BY <1>1 DEF Typed, Handlers, Goto, Request
<1>3. req'[r].family \in used' \cup {None}
  BY <1>1, <1>2 DEF Hand, Genuine
<1>4. HoldsRefresh(req'[r]) => req'[r].rec.family_id \in used'
  BY <1>1, <1>2 DEF Hand, Genuine, HoldsRefresh
<1>5. HoldsCode(req'[r]) => Lapses(req'[r].rec)
  BY <1>1, <1>2 DEF Hand, Genuine, HoldsCode
<1> QED BY <1>1, <1>2, <1>3, <1>4, <1>5, ReadingHand

\* Writing the record of a grant that a barrier does not refuse writes one that stands.
LEMMA Admitted ==
    ASSUME Typed, NEW q, Sheltered(q), q.pc \in WritingSteps,
           NEW rec, rec.client_id = q.rec.client_id, rec.subject = q.rec.subject,
           rec.family_id = FamilyOf(q), rec.grant_established_at = Established(q),
           rec.client_id \in ClientIds, rec.subject \in Option(Subjects),
           rec.grant_established_at \in Nat, ~Refused(rec)
    PROVE  Standing(rec)
<1>1. After(deleted_at[rec.client_id], rec.grant_established_at)
  BY DEF Typed, TypeOK, Books, Sheltered, ClientSafe, Bars, After, Refused, is_revoked, covers,
     Option, RevocationWindow
<1>2. ASSUME rec.subject # None
      PROVE  After(withdrawn_at[<<rec.client_id, rec.subject>>], rec.grant_established_at)
  <2> DEFINE p == <<rec.client_id, rec.subject>>
  <2>1. p \in ClientIds \X Subjects
    BY <1>2 DEF Option
  <2>2. withdrawn_at[p] \in Option(Nat) /\ consent_barriers[p] \in Option(RevocationWindow(Nat))
    BY <2>1 DEF Typed, TypeOK, Books
  <2>3. ConsentSafe(p, rec.grant_established_at, q.since) /\ ~covers(consent_barriers[p], rec.grant_established_at)
    BY <1>2 DEF Sheltered, Refused, is_revoked
  <2> HIDE DEF p
  <2>4. After(withdrawn_at[p], rec.grant_established_at)
    BY <2>2, <2>3 DEF ConsentSafe, Bars, After, covers, Option, RevocationWindow
  <2> QED BY <2>4 DEF p
<1>3. rec.family_id \notin revoked
  BY AbsentAssumption DEF Typed, Books, Sheltered, FamilySafe, Refused, is_revoked
<1> QED BY <1>1, <1>2, <1>3 DEF Standing

-----------------------------------------------------------------------------
(***************************************************************************)
(* issue, and taking back what it wrote                                     *)
(***************************************************************************)
\* The records `issue` writes are of the grant the handler holds.
LEMMA IssuedFields ==
    ASSUME Typed, NEW q \in Request, Proper(q), Genuine(q), q.pc \in OwnSteps
    PROVE  /\ AccessRecord(q).client_id = q.rec.client_id
           /\ AccessRecord(q).subject = q.rec.subject
           /\ AccessRecord(q).family_id = FamilyOf(q)
           /\ AccessRecord(q).grant_established_at = Established(q)
           /\ NextRecord(q).client_id = q.rec.client_id
           /\ NextRecord(q).subject = q.rec.subject
           /\ NextRecord(q).family_id = FamilyOf(q)
           /\ NextRecord(q).grant_established_at = Established(q)
           /\ q.rec.client_id \in ClientIds
           /\ q.rec.subject \in Option(Subjects)
           /\ Established(q) \in Nat
<1>1. HoldsCode(q) \/ HoldsRefresh(q) \/ HoldsGrant(q)
  BY DEF Proper, OwnSteps, IssueSteps, RefreshSteps
<1>2. q.rec.client_id = q.client /\ q.cred \notin DeviceCodes
  BY DEF Genuine
<1>3. AccessRecord(q) \in IssuedToken(Nat)
  BY <1>1, IssuedRecords
<1>4. /\ AccessRecord(q).client_id = q.rec.client_id
      /\ AccessRecord(q).subject = q.rec.subject
      /\ AccessRecord(q).family_id = FamilyOf(q)
      /\ AccessRecord(q).grant_established_at = Established(q)
  BY <1>2 DEF AccessRecord, GrantSubject, FamilyOf
<1>5. /\ NextRecord(q).client_id = q.rec.client_id
      /\ NextRecord(q).subject = q.rec.subject
      /\ NextRecord(q).family_id = FamilyOf(q)
      /\ NextRecord(q).grant_established_at = Established(q)
  BY <1>2 DEF NextRecord, GrantSubject, FamilyOf
<1> QED BY <1>3, <1>4, <1>5 DEF IssuedToken

\* A handler that answers, or goes on to record its redemption.
LEMMA IssuedHand ==
    ASSUME Typed, Buried, Quiet, NEW r \in Requests, req[r].pc # "idle", Issued(r)
    PROVE  Hand(req[r])'
<1>1. Return(r) \/ Goto(r, "record_redemption")
  BY DEF Issued, Grant
<1>2. "record_redemption" \in Steps \ WritingSteps
  BY DEF Steps, WritingSteps, OwnSteps
<1> QED BY <1>1, <1>2, ReturnContinues, IdleHand, GotoHand DEF Typed, Quiet

\* The access token of a revoked grant is refused.
LEMMA PutAccessKeeps ==
    ASSUME Typed, Typed', Buried, NEW r \in Requests, PutAccess(r)
    PROVE  Buried'
<1> DEFINE q == req[r]
<1> USE DEF storeVars, deviceMaps, tokenMaps, barriers, history, revocations
<1>1. q.pc = "put_access" /\ q \in Request /\ Proper(q) /\ Hand(q)
  BY DEF PutAccess, Typed, Handlers, Buried
<1>2. Quiet /\ UNCHANGED <<codes, refresh>>
  BY DEF PutAccess, put_token, Quiet
<1>3. \A a \in AccessTokens : tokens'[a] \in {tokens[a], None} \/ Standing(tokens'[a])
  <2>1. CASE Refused(AccessRecord(q))
    BY <2>1 DEF PutAccess, put_token
  <2>2. CASE ~Refused(AccessRecord(q))
    <3>1. Standing(AccessRecord(q))
      <4> HIDE DEF q
      <4> QED BY <1>1, <2>2, IssuedFields, Admitted DEF Hand, OwnSteps, WritingSteps
    <3>2. tokens' = [tokens EXCEPT ![q.access] = AccessRecord(q)]
      BY <2>2 DEF PutAccess, put_token
    <3> QED BY <3>1, <3>2 DEF Typed, TypeOK
  <2> QED BY <2>1, <2>2
<1>4. Hand(req[r])'
  <2>1. Return(r) \/ Issued(r) \/ Goto(r, "put_refresh")
    BY DEF PutAccess
  <2>2. CASE Goto(r, "put_refresh")
    <3>1. req'[r] = [q EXCEPT !.pc = "put_refresh"]
      BY <2>2, GotoContinues DEF Typed
    <3>2. /\ req'[r].pc = "put_refresh" /\ req'[r].cred = q.cred /\ req'[r].since = q.since
          /\ req'[r].rec = q.rec /\ req'[r].client = q.client /\ req'[r].family = q.family
      BY <1>1, <3>1 DEF Request
    <3> HIDE DEF q
    <3>3. OnTime(req[r])'
      BY <1>1, <1>2, <3>2 DEF Hand, OnTime, Quiet
    <3>4. Genuine(req[r])'
      BY <1>1, <1>2, <3>2 DEF Hand, Genuine, Quiet, OwnSteps, HoldsCode, HoldsRefresh
    <3>5. Sheltered(req[r])'
      BY <1>1, <1>2, <3>2 DEF Hand, Sheltered, ClientSafe, ConsentSafe, FamilySafe, Quiet,
         WritingSteps, OwnSteps, Established, FamilyOf
    <3> QED BY <3>3, <3>4, <3>5 DEF Hand
  <2> QED BY <1>1, <1>2, <2>1, <2>2, ReturnContinues, IdleHand, IssuedHand DEF Typed
<1>5. Continues(r)
  BY StepContinues DEF RequestStep
<1> QED BY <1>2, <1>3, <1>4, <1>5, QuietKeeps DEF Continues

\* So is its refresh token.
LEMMA PutRefreshKeeps ==
    ASSUME Typed, Typed', Buried, NEW r \in Requests, PutRefresh(r)
    PROVE  Buried'
<1> DEFINE q == req[r]
<1> USE DEF storeVars, deviceMaps, tokenMaps, barriers, history, revocations
<1>1. q.pc = "put_refresh" /\ q \in Request /\ Proper(q) /\ Hand(q)
  BY DEF PutRefresh, Typed, Handlers, Buried
<1>2. Quiet /\ UNCHANGED <<codes, tokens>>
  BY DEF PutRefresh, put_refresh_token, Quiet
<1>3. \A n \in RefreshTokens : \/ refresh'[n] \in {refresh[n], None}
                               \/ Standing(refresh'[n]) /\ refresh'[n].family_id \in used'
  <2>1. CASE Refused(NextRecord(q))
    BY <2>1 DEF PutRefresh, put_refresh_token
  <2>2. CASE ~Refused(NextRecord(q))
    <3>1. Standing(NextRecord(q)) /\ NextRecord(q).family_id \in used
      <4>1. q.family \in FamilyIds /\ q.family \in used
        BY <1>1, AbsentAssumption DEF Proper, IssueSteps, Mints, Hand, Genuine
      <4>2. NextRecord(q).family_id = q.family
        BY <4>1 DEF NextRecord
      <4> HIDE DEF q
      <4> QED BY <1>1, <2>2, <4>1, <4>2, IssuedFields, Admitted DEF Hand, OwnSteps, WritingSteps
    <3>2. refresh' = [refresh EXCEPT ![q.next] = NextRecord(q)]
      BY <2>2 DEF PutRefresh, put_refresh_token
    <3> QED BY <1>2, <3>1, <3>2 DEF Typed, TypeOK, Quiet
  <2> QED BY <2>1, <2>2
<1>4. Hand(req[r])'
  <2>1. Issued(r) \/ Goto(r, "undo_issuance")
    BY DEF PutRefresh
  <2>2. "undo_issuance" \in Steps \ WritingSteps
    BY DEF Steps, WritingSteps, OwnSteps
  <2> QED BY <1>1, <1>2, <2>1, <2>2, IssuedHand, GotoHand DEF Quiet
<1>5. Continues(r)
  BY StepContinues DEF RequestStep
<1> QED BY <1>2, <1>3, <1>4, <1>5, QuietKeeps DEF Continues

\* Taking tokens back, deleting them, and answering from what a rotation recorded: rows only
\* vanish, and the handler goes on to read.
LEMMA VanishKeeps ==
    ASSUME Typed, Typed', Buried, NEW r \in Requests, RequestStep(r), Quiet,
           \A a \in AccessTokens : tokens'[a] \in {tokens[a], None},
           \A n \in RefreshTokens : refresh'[n] \in {refresh[n], None},
           \A x \in AuthCodes : codes'[x] \in {codes[x], None} \/ Lapses(codes'[x]),
           req[r].pc # "idle",
           \/ Return(r)
           \/ \E pc \in Steps \ WritingSteps : \E v :
                  \/ Goto(r, pc)
                  \/ req' = [req EXCEPT ![r].pc = pc, ![r].failed = v]
                  \/ req' = [req EXCEPT ![r].failed = v, ![r].pc = pc]
                  \/ req' = [req EXCEPT ![r].pc = pc, ![r].family = v] /\ v \in used'
    PROVE  Buried'
<1>1. Continues(r)
  BY StepContinues
<1>2. Hand(req[r])'
  BY ReturnContinues, IdleHand, GotoHand DEF Typed, Quiet
<1> QED BY <1>1, <1>2, QuietKeeps DEF Continues

\* Such steps.
LEMMA UndoKeeps ==
    ASSUME Typed, Typed', Buried, NEW r \in Requests,
           \/ UndoIssuance(r) \/ UndoAccess(r) \/ UndoRefresh(r)
           \/ RetryAccess(r) \/ RetryNext(r)
           \/ RevokeTake(r) \/ RevokeAccess(r) \/ RevokeDelete(r)
    PROVE  Buried'
<1> USE DEF storeVars, deviceMaps, tokenMaps, barriers, history, revocations, CallFails, Typed, TypeOK
<1>1. RequestStep(r) /\ req[r].pc # "idle"
  BY DEF RequestStep, UndoIssuance, UndoAccess, UndoRefresh, RetryAccess, RetryNext, RevokeTake,
     RevokeAccess, RevokeDelete
<1>2. Quiet /\ UNCHANGED codes
  BY DEF UndoIssuance, UndoAccess, UndoRefresh, RetryAccess, RetryNext, RevokeTake,
     RevokeAccess, RevokeDelete, delete_token, take_refresh_token, Quiet
<1>3. /\ \A a \in AccessTokens : tokens'[a] \in {tokens[a], None}
      /\ \A n \in RefreshTokens : refresh'[n] \in {refresh[n], None}
  BY DEF UndoIssuance, UndoAccess, UndoRefresh, RetryAccess, RetryNext, RevokeTake,
     RevokeAccess, RevokeDelete, delete_token, take_refresh_token
<1>4. Return(r) \/ Goto(r, "undo_refresh") \/ Goto(r, "retry_next") \/ Goto(r, "revoke_delete")
  BY DEF UndoIssuance, UndoAccess, UndoRefresh, RetryAccess, RetryNext, RevokeTake,
     RevokeAccess, RevokeDelete, Grant
<1>5. {"undo_refresh", "retry_next", "revoke_delete"} \subseteq Steps \ WritingSteps
  BY DEF Steps, WritingSteps, OwnSteps
<1> QED BY <1>1, <1>2, <1>3, <1>4, <1>5, VanishKeeps

\* Putting a code back, and closing its redemption.
LEMMA CodeWrittenKeeps ==
    ASSUME Typed, Typed', Buried, NEW r \in Requests,
           RestoreCode(r) \/ RecordRedemption(r) \/ ReplayRecord(r)
    PROVE  Buried'
<1> DEFINE q == req[r]
<1> USE DEF storeVars, deviceMaps, tokenMaps, barriers, history, revocations, CallFails
<1>1. RequestStep(r) /\ q.pc \in {"restore_code", "record_redemption", "replay_record"}
  BY DEF RequestStep, RestoreCode, RecordRedemption, ReplayRecord
<1>2. Quiet /\ UNCHANGED <<tokens, refresh>>
  BY DEF RestoreCode, RecordRedemption, ReplayRecord, put_authorization_code,
     compare_and_swap_authorization_code, Quiet
<1>3. HoldsCode(q) /\ Lapses(q.rec)
  BY <1>1 DEF Typed, Handlers, Proper, TakenSteps, CloseSteps, Buried, Hand, Genuine
<1>4. \A st : Lapses([q.rec EXCEPT !.state = st])
  BY <1>3 DEF Lapses, HoldsCode, AuthorizationCodeRecord
<1>5. Lapses([q.rec EXCEPT !.state.status = "Replayed"])
  BY <1>3 DEF Lapses, HoldsCode, AuthorizationCodeRecord
<1>6. \A x \in AuthCodes : codes'[x] \in {codes[x], None} \/ Lapses(codes'[x])
  <2>1. codes \in [AuthCodes -> Option(AuthorizationCodeRecord(Nat))]
    BY DEF Typed, TypeOK
  <2>2. CASE RestoreCode(r)
    BY <1>3, <2>1, <2>2 DEF RestoreCode, put_authorization_code
  <2>3. CASE ReplayRecord(r)
    BY <1>5, <2>1, <2>3 DEF ReplayRecord, put_authorization_code
  <2>4. CASE RecordRedemption(r)
    BY <1>4, <2>1, <2>4 DEF RecordRedemption, compare_and_swap_authorization_code
  <2> QED BY <2>2, <2>3, <2>4
<1>7. Return(r) \/ Goto(r, "undo_access")
  BY DEF RestoreCode, RecordRedemption, ReplayRecord, Grant
<1>8. "undo_access" \in Steps \ WritingSteps
  BY DEF Steps, WritingSteps, OwnSteps
<1> QED BY <1>1, <1>2, <1>6, <1>7, <1>8, VanishKeeps

\* Looking up what a replayed code was redeemed for, and deleting it.
LEMMA ReplayKeeps ==
    ASSUME Typed, Typed', Buried, NEW r \in Requests,
           \/ ReplayLookup(r) \/ ReplayDelete(r)
           \/ (ReplayRevoke(r) \/ RevokeCascade(r)) /\ UNCHANGED storeVars /\ UNCHANGED revoked
    PROVE  Buried'
<1> DEFINE q == req[r]
<1> USE DEF storeVars, deviceMaps, tokenMaps, barriers, history, revocations, CallFails
<1>1. RequestStep(r) /\ q.pc \in {"replay_lookup", "replay_delete", "replay_revoke", "revoke_cascade"}
  BY DEF RequestStep, ReplayLookup, ReplayDelete, ReplayRevoke, RevokeCascade
<1>2. Quiet /\ UNCHANGED <<codes, refresh>>
  BY DEF ReplayLookup, ReplayDelete, ReplayRevoke, RevokeCascade, delete_token, Quiet
<1>3. \A a \in AccessTokens : tokens'[a] \in {tokens[a], None}
  BY DEF ReplayLookup, ReplayDelete, ReplayRevoke, RevokeCascade, delete_token, Typed, TypeOK
<1>4. {"replay_record", "replay_delete", "replay_revoke", "revoke_take"} \subseteq Steps \ WritingSteps
  BY DEF Steps, WritingSteps, OwnSteps
<1> DEFINE Goes ==
      \/ Return(r)
      \/ \E pc \in Steps \ WritingSteps : \E v :
             \/ Goto(r, pc)
             \/ req' = [req EXCEPT ![r].pc = pc, ![r].failed = v]
             \/ req' = [req EXCEPT ![r].failed = v, ![r].pc = pc]
             \/ req' = [req EXCEPT ![r].pc = pc, ![r].family = v] /\ v \in used'
<1>5. ASSUME NEW v, AfterFamily(r, v) PROVE Goes
  <2> DEFINE pc == IF q.rec.state.access_token = None THEN "replay_record" ELSE "replay_delete"
  <2>1. pc \in Steps \ WritingSteps
    BY <1>4
  <2>2. req' = [req EXCEPT ![r].failed = v, ![r].pc = pc]
    BY <1>5 DEF AfterFamily
  <2> HIDE DEF pc
  <2> QED BY <2>1, <2>2
<1>6. ASSUME ReplayLookup(r) PROVE Goes
  <2> DEFINE chain == refresh[q.rec.state.refresh_token]
  <2>1. CASE chain # None /\ req' = [req EXCEPT ![r].pc = "replay_revoke", ![r].family = chain.family_id]
    <3>1. HoldsCode(q) /\ q.rec.state.refresh_token # None
      BY <1>6 DEF ReplayLookup, Typed, Handlers, Proper, TakenSteps
    <3>2. q.rec.state.refresh_token \in RefreshTokens
      BY <3>1 DEF HoldsCode, AuthorizationCodeRecord, AuthorizationCodeState, Option
    <3>3. chain.family_id \in used'
      BY <1>2, <2>1, <3>2 DEF Buried, RefreshStands, Quiet
    <3> HIDE DEF chain
    <3> QED BY <1>4, <2>1, <3>3
  <2> QED BY <1>5, <1>6, <2>1 DEF ReplayLookup
<1>7. ASSUME ReplayDelete(r) PROVE Goes
  BY <1>4, <1>7 DEF ReplayDelete
<1>8. ASSUME ReplayRevoke(r) PROVE Goes
  BY <1>4, <1>5, <1>8 DEF ReplayRevoke
<1>9. ASSUME RevokeCascade(r) PROVE Goes
  BY <1>4, <1>9 DEF RevokeCascade
<1>10. Goes
  BY <1>6, <1>7, <1>8, <1>9
<1> QED BY <1>1, <1>2, <1>3, <1>10, VanishKeeps

-----------------------------------------------------------------------------
(***************************************************************************)
(* A record is read, and a grant is carried on                              *)
(***************************************************************************)
\* A request that started at `since` may go on to write for the grant it holds, and for family f.
Ready(q, f) ==
    /\ q.cred \notin DeviceCodes
    /\ q.since <= now /\ now <= q.since + MaxInFlight
    /\ q.rec.client_id = q.client
    /\ HoldsRefresh(q) => q.rec.family_id \in used
    /\ HoldsCode(q) => Lapses(q.rec)
    /\ ClientSafe(q.rec.client_id, Established(q), q.since)
    /\ q.rec.subject # None =>
           ConsentSafe(<<q.rec.client_id, q.rec.subject>>, Established(q), q.since)
    /\ f # None => f \in used /\ FamilySafe(f, q.since)

\* Whoever holds an unexpired code of a revoked grant ends before the barrier lapses.
LEMMA CodeSheltered ==
    ASSUME Typed, Buried, WindowCondition, NEW x \in AuthCodes, codes[x] # None,
           now < codes[x].expires_at, NEW since \in Nat, since <= now
    PROVE  LET rec == codes[x] IN
           /\ ClientSafe(rec.client_id, rec.issued_at, since)
           /\ ConsentSafe(<<rec.client_id, rec.subject>>, rec.issued_at, since)
<1> DEFINE rec == codes[x]
           p == <<rec.client_id, rec.subject>>
<1>1. rec \in AuthorizationCodeRecord(Nat) /\ Lapses(rec)
  BY DEF Typed, TypeOK, Option, Buried, CodesLapse
<1>2. rec.client_id \in ClientIds /\ rec.issued_at \in Nat /\ rec.expires_at \in Nat
      /\ p \in ClientIds \X Subjects
  BY <1>1 DEF AuthorizationCodeRecord
<1>3. now \in Nat /\ Longest \in Nat /\ MaxInFlight \in Nat /\ authorization_code_ttl \in Nat
  BY ConfigAssumption, WindowType DEF Typed, Books
<1>4. ASSUME NEW t \in Nat, rec.issued_at <= t
      PROVE  now < t + Longest /\ since + MaxInFlight <= t + Longest - 1
  BY <1>1, <1>2, <1>3, <1>4 DEF Lapses, WindowCondition
<1> HIDE DEF rec, p
<1>5. ClientSafe(rec.client_id, rec.issued_at, since)
  <2>1. deleted_at[rec.client_id] \in Option(Nat)
        /\ client_barriers[rec.client_id] \in Option(RevocationWindow(Nat))
    BY <1>2 DEF Typed, TypeOK, Books
  <2> QED BY <1>2, <1>3, <1>4, <2>1 DEF Buried, ClientsBarred, ClientSafe, Bars, After, Option,
             RevocationWindow
<1>6. ConsentSafe(p, rec.issued_at, since)
  <2>1. withdrawn_at[p] \in Option(Nat) /\ consent_barriers[p] \in Option(RevocationWindow(Nat))
    BY <1>2 DEF Typed, TypeOK, Books
  <2> QED BY <1>2, <1>3, <1>4, <2>1 DEF Buried, ConsentsBarred, ConsentSafe, Bars, After, Option,
             RevocationWindow
<1> QED BY <1>5, <1>6 DEF rec, p

\* A handler that starts to issue for a grant that stands or is barred.
LEMMA BeginIssueHand ==
    ASSUME Typed, Buried, UNCHANGED <<now, revocations, barriers>>, NEW r \in Requests,
           NEW q \in Request, NEW chain \in Option(FamilyIds), BeginIssue(r, q, chain),
           Ready(q, chain)
    PROVE  Hand(req[r])' /\ Quiet
<1> USE DEF revocations, barriers
<1>1. CASE Return(r) /\ UNCHANGED used
  BY <1>1, ReturnContinues, IdleHand DEF Typed, Quiet
<1>2. CASE ~(Return(r) /\ UNCHANGED used)
  <2> DEFINE pc == IF chain # None /\ Retryable THEN "rotate" ELSE "put_access"
  <2>1. PICK a \in AccessTokens \ used, n \in Fresh(RefreshTokens, MintsRefresh(chain)),
             f \in IF chain = None THEN Fresh(FamilyIds, MintsRefresh(chain)) ELSE {chain} :
           /\ req' = [req EXCEPT ![r] = [q EXCEPT !.pc = pc, !.access = a, !.next = n,
                                                  !.family = f, !.minted_at = now]]
           /\ used' = used \cup ({a, n, f} \ {None})
    BY <1>2 DEF BeginIssue
  <2>2. pc \in OwnSteps
    BY DEF OwnSteps
  <2>3. f \in used' \cup {None} /\ Quiet
    BY <2>1 DEF Quiet
  <2>4. FamilySafe(f, q.since)
    <3>1. CASE chain # None
      BY <2>1, <3>1 DEF Ready
    <3>2. CASE chain = None
      BY <2>1, <3>2, AbsentAssumption DEF Fresh, FamilySafe, Buried, Typed, Books
    <3> QED BY <3>1, <3>2
  <2> HIDE DEF pc
  <2>5. /\ req'[r].pc = pc /\ req'[r].cred = q.cred /\ req'[r].since = q.since
        /\ req'[r].rec = q.rec /\ req'[r].client = q.client /\ req'[r].family = f
    BY <2>1 DEF Typed, Handlers, Request
  <2>6. OnTime(req[r])'
    BY <2>5 DEF OnTime, Ready
  <2>7. Genuine(req[r])'
    BY <2>3, <2>5 DEF Genuine, Ready, HoldsCode, HoldsRefresh, Quiet
  <2>8. Sheltered(req[r])'
    BY <2>2, <2>4, <2>5 DEF Ready, Sheltered, ClientSafe, ConsentSafe, FamilySafe, Established,
       FamilyOf
  <2> QED BY <2>3, <2>6, <2>7, <2>8 DEF Hand
<1> QED BY <1>1, <1>2

\* A handler that keeps a record of a grant that stands or is barred.
LEMMA HeldHand ==
    ASSUME Typed, Buried, Quiet, NEW r \in Requests, NEW pc \in Steps, NEW rec,
           rec \in AuthorizationCodeRecord(Nat) \cup RefreshTokenRecord(Nat),
           req' = [req EXCEPT ![r].pc = pc, ![r].rec = rec], req[r].pc # "idle",
           req[r].cred \in AuthCodes => Lapses(rec),
           req[r].cred \in RefreshTokens => rec.family_id \in used,
           pc \notin OwnSteps,
           pc \in {"consume_code", "spend_refresh"} => rec.client_id = req[r].client,
           pc \in WritingSteps =>
               LET est == IF req[r].cred \in AuthCodes THEN rec.issued_at
                          ELSE rec.grant_established_at
               IN  /\ ClientSafe(rec.client_id, est, req[r].since)
                   /\ rec.subject # None =>
                          ConsentSafe(<<rec.client_id, rec.subject>>, est, req[r].since)
                   /\ req[r].cred \in RefreshTokens => FamilySafe(rec.family_id, req[r].since)
    PROVE  Hand(req[r])'
<1> USE DEF revocations, barriers
<1>1. req[r] \in Request /\ Hand(req[r])
  BY DEF Typed, Handlers, Buried
<1>2. /\ req'[r].pc = pc /\ req'[r].cred = req[r].cred /\ req'[r].since = req[r].since
      /\ req'[r].rec = rec /\ req'[r].client = req[r].client /\ req'[r].family = req[r].family
  BY <1>1 DEF Typed, Handlers, Request
<1>3. OnTime(req[r])'
  BY <1>1, <1>2 DEF Hand, OnTime, Quiet
<1>4. Genuine(req[r])'
  BY <1>1, <1>2 DEF Hand, Genuine, Quiet, HoldsCode, HoldsRefresh
<1>5. Sheltered(req[r])'
  <2> SUFFICES ASSUME pc \in WritingSteps
               PROVE  /\ ClientSafe(rec.client_id, Established(req'[r]), req[r].since)
                      /\ rec.subject # None =>
                             ConsentSafe(<<rec.client_id, rec.subject>>, Established(req'[r]),
                                         req[r].since)
                      /\ FamilySafe(FamilyOf(req'[r]), req[r].since)
    BY <1>2 DEF Sheltered, ClientSafe, ConsentSafe, FamilySafe, Quiet
  <2>1. req[r].cred \notin DeviceCodes
    BY <1>1 DEF Hand, Genuine
  <2>2. Established(req'[r]) = IF req[r].cred \in AuthCodes THEN rec.issued_at
                              ELSE rec.grant_established_at
    BY <1>2, <2>1 DEF Established
  <2>3. FamilyOf(req'[r]) = IF req[r].cred \in RefreshTokens THEN rec.family_id ELSE None
    BY <1>2 DEF FamilyOf
  <2>4. None \notin revoked
    BY AbsentAssumption DEF Typed, Books
  <2> QED BY <2>2, <2>3, <2>4 DEF FamilySafe
<1> QED BY <1>3, <1>4, <1>5 DEF Hand

\* A code is taken out of the store.
LEMMA TakeCodeKeeps ==
    ASSUME Typed, Typed', Buried, WindowCondition, NEW r \in Requests, TakeCode(r)
    PROVE  Buried'
<1> DEFINE q == req[r]
           rec == codes[q.cred]
<1> USE DEF storeVars, deviceMaps, tokenMaps, barriers, history, revocations
<1>1. q.pc = "take_code" /\ q \in Request /\ q.cred \in AuthCodes /\ Hand(q)
  BY DEF TakeCode, Typed, Handlers, Proper, Buried
<1>2. Quiet /\ UNCHANGED <<tokens, refresh>>
  BY DEF TakeCode, take_authorization_code, Quiet
<1>3. \A x \in AuthCodes : codes'[x] \in {codes[x], None}
  BY DEF TakeCode, take_authorization_code, Typed, TypeOK
<1>4. \/ Return(r)
      \/ /\ rec # None
         /\ \E pc \in {"restore_code", "replay_lookup", "replay_delete", "replay_record"} :
                req' = [req EXCEPT ![r].pc = pc, ![r].rec = rec]
      \/ /\ rec # None /\ now < rec.expires_at /\ rec.client_id = q.client
         /\ req' = [req EXCEPT ![r].pc = "consume_code", ![r].rec = rec]
  <2>1. rec # None => now \in Nat /\ rec.expires_at \in Nat
    BY <1>1 DEF Typed, Books, TypeOK, Option, AuthorizationCodeRecord
  <2> QED BY <2>1 DEF TakeCode
<1>5. rec # None => rec \in AuthorizationCodeRecord(Nat) /\ Lapses(rec)
  BY <1>1 DEF Typed, TypeOK, Option, Buried, CodesLapse
<1>6. q.cred \notin RefreshTokens /\ q.since \in Nat /\ q.since <= now
  BY <1>1, IdentifierAssumption DEF Request, Hand, OnTime
<1>7. Hand(req[r])'
  <2>1. CASE \E pc \in {"restore_code", "replay_lookup", "replay_delete", "replay_record"} :
                rec # None /\ req' = [req EXCEPT ![r].pc = pc, ![r].rec = rec]
    <3>1. PICK pc \in {"restore_code", "replay_lookup", "replay_delete", "replay_record"} :
                rec # None /\ req' = [req EXCEPT ![r].pc = pc, ![r].rec = rec]
      BY <2>1
    <3>2. pc \in Steps /\ pc \notin WritingSteps /\ pc \notin OwnSteps
      BY DEF Steps, WritingSteps, OwnSteps
    <3> HIDE DEF rec
    <3> QED BY <1>1, <1>2, <1>5, <1>6, <3>1, <3>2, HeldHand DEF WritingSteps
  <2>2. CASE /\ rec # None /\ now < rec.expires_at /\ rec.client_id = q.client
             /\ req' = [req EXCEPT ![r].pc = "consume_code", ![r].rec = rec]
    <3>1. /\ ClientSafe(rec.client_id, rec.issued_at, q.since)
          /\ ConsentSafe(<<rec.client_id, rec.subject>>, rec.issued_at, q.since)
      BY <1>1, <1>6, <2>2, CodeSheltered
    <3>2. "consume_code" \in Steps /\ "consume_code" \notin OwnSteps
      BY DEF Steps, OwnSteps
    <3> HIDE DEF rec
    <3> QED BY <1>1, <1>2, <1>5, <1>6, <2>2, <3>1, <3>2, HeldHand
  <2> QED BY <1>4, <2>1, <2>2, ReturnContinues, IdleHand DEF Typed
<1>8. Continues(r)
  BY StepContinues DEF RequestStep
<1> QED BY <1>2, <1>3, <1>7, <1>8, QuietKeeps DEF Continues

\* The code is marked consumed and issuance begins.
LEMMA ConsumeCodeKeeps ==
    ASSUME Typed, Typed', Buried, NEW r \in Requests, ConsumeCode(r)
    PROVE  Buried'
<1> DEFINE q == req[r]
<1> USE DEF storeVars, deviceMaps, tokenMaps, barriers, history, revocations
<1>1. q.pc = "consume_code" /\ q \in Request /\ HoldsCode(q) /\ Hand(q)
  BY DEF ConsumeCode, Typed, Handlers, Proper, TakenSteps, Buried
<1>2. UNCHANGED <<now, revocations, barriers, tokens, refresh>> /\ BeginIssue(r, q, None)
  BY DEF ConsumeCode, put_authorization_code
<1>3. Lapses(q.rec)
  BY <1>1 DEF Hand, Genuine
<1>4. Lapses([q.rec EXCEPT !.state = CodeState("Consumed", None, None)])
  BY <1>1, <1>3 DEF Lapses, HoldsCode, AuthorizationCodeRecord
<1>5. \A x \in AuthCodes : codes'[x] \in {codes[x], None} \/ Lapses(codes'[x])
  BY <1>4 DEF ConsumeCode, put_authorization_code, Typed, TypeOK
<1>6. Ready(q, None)
  BY <1>1 DEF Ready, Hand, OnTime, Genuine, Sheltered, OwnSteps, WritingSteps
<1>7. Hand(req[r])' /\ Quiet
  BY <1>1, <1>2, <1>6, BeginIssueHand DEF Option
<1>8. Continues(r)
  BY StepContinues DEF RequestStep
<1> QED BY <1>2, <1>5, <1>7, <1>8, QuietKeeps DEF Continues

\* A refresh record that is read is of a grant that stands.
LEMMA RefreshSheltered ==
    ASSUME Typed, Buried, NEW n \in RefreshTokens, refresh[n] # None, NEW since
    PROVE  LET rec == refresh[n] IN
           /\ rec \in RefreshTokenRecord(Nat) /\ rec.family_id \in used
           /\ ClientSafe(rec.client_id, rec.grant_established_at, since)
           /\ rec.subject # None =>
                  ConsentSafe(<<rec.client_id, rec.subject>>, rec.grant_established_at, since)
           /\ FamilySafe(rec.family_id, since)
<1>1. Standing(refresh[n]) /\ refresh[n].family_id \in used
  BY DEF Buried, RefreshStands
<1>2. refresh[n] \in RefreshTokenRecord(Nat)
  BY DEF Typed, TypeOK, Option
<1> QED BY <1>1, <1>2 DEF Standing, ClientSafe, ConsentSafe, FamilySafe

\* A refresh record is read, or taken under strict rotation.
LEMMA ReadRefreshKeeps ==
    ASSUME Typed, Typed', Buried, NEW r \in Requests, ReadRefresh(r)
    PROVE  Buried'
<1> DEFINE q == req[r]
           rec == refresh[q.cred]
           q2 == [q EXCEPT !.rec = rec]
<1> USE DEF storeVars, deviceMaps, tokenMaps, barriers, history, revocations
<1>1. q.pc = "read_refresh" /\ q \in Request /\ q.cred \in RefreshTokens /\ Hand(q)
  BY DEF ReadRefresh, Typed, Handlers, Proper, LookupSteps, Buried
<1>2. UNCHANGED <<now, revocations, barriers, codes, tokens>>
  BY DEF ReadRefresh, take_refresh_token
<1>3. \A n \in RefreshTokens : refresh'[n] \in {refresh[n], None}
  BY DEF ReadRefresh, take_refresh_token, Typed, TypeOK
<1>4. \/ Return(r) /\ UNCHANGED used
      \/ /\ rec # None /\ UNCHANGED used
         /\ \E pc \in {"restore_refresh", "retry_access", "reuse_revoke"} :
                req' = [req EXCEPT ![r].pc = pc, ![r].rec = rec]
      \/ /\ rec # None /\ rec.client_id = q.client /\ UNCHANGED used
         /\ req' = [req EXCEPT ![r].pc = "spend_refresh", ![r].rec = rec]
      \/ /\ rec # None /\ rec.client_id = q.client
         /\ BeginIssue(r, q2, rec.family_id)
  BY DEF ReadRefresh, GiveBack
<1>5. q.cred \notin AuthCodes
  BY <1>1, IdentifierAssumption
<1>6. rec # None =>
         /\ rec \in RefreshTokenRecord(Nat) /\ rec.family_id \in used
         /\ ClientSafe(rec.client_id, rec.grant_established_at, q.since)
         /\ rec.subject # None =>
                ConsentSafe(<<rec.client_id, rec.subject>>, rec.grant_established_at, q.since)
         /\ FamilySafe(rec.family_id, q.since)
  BY <1>1, RefreshSheltered
<1> HIDE DEF rec
<1>7. Hand(req[r])' /\ Quiet
  <2>1. CASE Return(r) /\ UNCHANGED used
    BY <1>2, <2>1, ReturnContinues, IdleHand DEF Typed, Quiet
  <2>2. ASSUME NEW pc \in {"restore_refresh", "retry_access", "reuse_revoke", "spend_refresh"},
               rec # None, UNCHANGED used, pc = "spend_refresh" => rec.client_id = q.client,
               req' = [req EXCEPT ![r].pc = pc, ![r].rec = rec]
        PROVE  Hand(req[r])' /\ Quiet
    <3>1. Quiet
      BY <1>2, <2>2 DEF Quiet
    <3>2. pc \in Steps /\ pc \notin OwnSteps /\ pc # "consume_code"
      BY DEF Steps, OwnSteps
    <3> QED BY <1>1, <1>5, <1>6, <2>2, <3>1, <3>2, HeldHand
  <2>3. CASE rec # None /\ rec.client_id = q.client /\ BeginIssue(r, q2, rec.family_id)
    <3>1. /\ q2 \in Request /\ q2.cred = q.cred /\ q2.rec = rec /\ q2.client = q.client
          /\ q2.since = q.since
      BY <1>1, <1>6, <2>3 DEF Request, Option
    <3> HIDE DEF q2
    <3>2. Established(q2) = rec.grant_established_at /\ q.cred \notin DeviceCodes
      BY <1>1, <1>5, <3>1, IdentifierAssumption DEF Established
    <3>3. Ready(q2, rec.family_id)
      BY <1>1, <1>5, <1>6, <2>3, <3>1, <3>2 DEF Ready, Hand, OnTime, HoldsCode
    <3>4. rec.family_id \in Option(FamilyIds)
      BY <1>6, <2>3 DEF RefreshTokenRecord, Option
    <3> QED BY <1>2, <2>3, <3>1, <3>3, <3>4, BeginIssueHand
  <2> QED BY <1>4, <2>1, <2>2, <2>3
<1>8. Continues(r)
  BY StepContinues DEF RequestStep
<1> QED BY <1>2, <1>3, <1>7, <1>8, QuietKeeps DEF Continues

\* A refresh record is looked up again after a lost rotation, or to be revoked.
LEMMA LookupKeeps ==
    ASSUME Typed, Typed', Buried, NEW r \in Requests, Reread(r) \/ RevokeLookup(r)
    PROVE  Buried'
<1> DEFINE q == req[r]
           rec == refresh[q.cred]
<1> USE DEF storeVars, deviceMaps, tokenMaps, barriers, history, revocations
<1>1. q.pc \in LookupSteps /\ q.pc # "idle" /\ q.cred \in RefreshTokens
  BY DEF Reread, RevokeLookup, Typed, Handlers, Proper, LookupSteps
<1>2. Quiet /\ UNCHANGED <<codes, tokens, refresh>>
  BY DEF Reread, RevokeLookup, Quiet
<1>3. \/ Return(r)
      \/ /\ rec # None
         /\ \E pc \in {"retry_access", "revoke_cascade"} :
                req' = [req EXCEPT ![r].pc = pc, ![r].rec = rec]
  BY DEF Reread, RevokeLookup
<1>4. q.cred \notin AuthCodes
  BY <1>1, IdentifierAssumption
<1>5. rec # None => rec \in RefreshTokenRecord(Nat) /\ rec.family_id \in used
  BY <1>1, RefreshSheltered
<1> HIDE DEF rec
<1>6. Hand(req[r])'
  <2>1. ASSUME NEW pc \in {"retry_access", "revoke_cascade"}, rec # None,
               req' = [req EXCEPT ![r].pc = pc, ![r].rec = rec]
        PROVE  Hand(req[r])'
    <3>1. /\ pc \in Steps /\ pc \notin OwnSteps /\ pc \notin WritingSteps
          /\ pc \notin {"consume_code", "spend_refresh"}
      BY DEF Steps, OwnSteps, WritingSteps
    <3> QED BY <1>1, <1>2, <1>4, <1>5, <2>1, <3>1, HeldHand
  <2> QED BY <1>3, <2>1, ReturnContinues, IdleHand DEF Typed
<1>7. Continues(r)
  BY StepContinues DEF RequestStep
<1> QED BY <1>2, <1>6, <1>7, QuietKeeps DEF Continues

\* A handler that holds a refresh record writes it back only while its grant stands.
LEMMA RefreshAdmitted ==
    ASSUME Typed, Buried, NEW r \in Requests,
           req[r].pc \in {"restore_refresh", "reuse_rearm", "spend_refresh"},
           NEW rec \in RefreshTokenRecord(Nat),
           rec.client_id = req[r].rec.client_id, rec.subject = req[r].rec.subject,
           rec.family_id = req[r].rec.family_id,
           rec.grant_established_at = req[r].rec.grant_established_at, ~Refused(rec)
    PROVE  Standing(rec) /\ rec.family_id \in used
<1> DEFINE q == req[r]
<1>1. HoldsRefresh(q) /\ q.cred \notin AuthCodes /\ q.cred \notin DeviceCodes
  BY IdentifierAssumption DEF Typed, Handlers, Proper, RefreshSteps, HoldsRefresh
<1>2. Hand(q)
  BY DEF Buried
<1> HIDE DEF q
<1>3. q.pc \in WritingSteps /\ q.pc \notin OwnSteps
  BY DEF q, WritingSteps, OwnSteps
<1>4. rec.family_id = FamilyOf(q) /\ rec.grant_established_at = Established(q)
  BY <1>1, <1>3 DEF FamilyOf, Established, HoldsRefresh, q
<1>5. rec.client_id = q.rec.client_id /\ rec.subject = q.rec.subject /\ rec.family_id = q.rec.family_id
  BY DEF q
<1>6. /\ rec.client_id \in ClientIds /\ rec.subject \in Option(Subjects)
      /\ rec.grant_established_at \in Nat
  BY DEF RefreshTokenRecord
<1> QED BY <1>1, <1>2, <1>3, <1>4, <1>5, <1>6, Admitted DEF Hand, Genuine

\* A refresh record goes back.
LEMMA GiveBackKeeps ==
    ASSUME Typed, Typed', Buried, NEW r \in Requests, RestoreRefresh(r) \/ ReuseRearm(r)
    PROVE  Buried'
<1> DEFINE q == req[r]
<1> USE DEF storeVars, deviceMaps, tokenMaps, barriers, history, revocations
<1>1. q.pc \in {"restore_refresh", "reuse_rearm"} /\ q.rec \in RefreshTokenRecord(Nat)
  BY DEF RestoreRefresh, ReuseRearm, Typed, Handlers, Proper, RefreshSteps, HoldsRefresh
<1>2. Quiet /\ UNCHANGED <<codes, tokens>> /\ put_refresh_token(q.cred, q.rec) /\ Return(r)
  BY DEF RestoreRefresh, ReuseRearm, put_refresh_token, Quiet
<1>3. \A n \in RefreshTokens : \/ refresh'[n] \in {refresh[n], None}
                               \/ Standing(refresh'[n]) /\ refresh'[n].family_id \in used'
  BY <1>1, <1>2, RefreshAdmitted DEF put_refresh_token, Quiet, Typed, TypeOK
<1>4. Continues(r) /\ Hand(req[r])'
  BY <1>2, ReturnContinues, IdleHand DEF Typed
<1> QED BY <1>2, <1>3, <1>4, QuietKeeps DEF Continues

\* The presented token is spent and issuance begins.
LEMMA SpendRefreshKeeps ==
    ASSUME Typed, Typed', Buried, NEW r \in Requests, SpendRefresh(r)
    PROVE  Buried'
<1> DEFINE q == req[r]
           spent == Spend(q.rec, now)
<1> USE DEF storeVars, deviceMaps, tokenMaps, barriers, history, revocations
<1>1. q.pc = "spend_refresh" /\ q \in Request /\ HoldsRefresh(q) /\ Hand(q) /\ now \in Nat
  BY DEF SpendRefresh, Typed, Handlers, Proper, RefreshSteps, Buried, Books
<1>2. /\ UNCHANGED <<now, revocations, barriers, codes, tokens>> /\ put_refresh_token(q.cred, spent)
      /\ \/ Return(r) /\ UNCHANGED used
         \/ BeginIssue(r, q, q.rec.family_id)
  BY DEF SpendRefresh, put_refresh_token
<1>3. /\ spent \in RefreshTokenRecord(Nat) /\ spent.client_id = q.rec.client_id
      /\ spent.subject = q.rec.subject /\ spent.family_id = q.rec.family_id
      /\ spent.grant_established_at = q.rec.grant_established_at
  BY <1>1, SpendFacts DEF HoldsRefresh
<1> HIDE DEF spent
<1>4. Hand(req[r])' /\ Quiet
  <2>1. CASE Return(r) /\ UNCHANGED used
    BY <1>2, <2>1, ReturnContinues, IdleHand DEF Typed, Quiet
  <2>2. CASE BeginIssue(r, q, q.rec.family_id)
    <3>1. q.cred \in RefreshTokens /\ q.rec.family_id \in FamilyIds
      BY <1>1 DEF HoldsRefresh, RefreshTokenRecord
    <3> HIDE DEF q
    <3>2. Ready(q, q.rec.family_id)
      BY <1>1, <3>1, AbsentAssumption DEF Ready, Hand, OnTime, Genuine, Sheltered, OwnSteps,
         WritingSteps, FamilyOf
    <3> QED BY <1>1, <1>2, <2>2, <3>1, <3>2, BeginIssueHand DEF Option
  <2> QED BY <1>2, <2>1, <2>2
<1>5. \A n \in RefreshTokens : \/ refresh'[n] \in {refresh[n], None}
                               \/ Standing(refresh'[n]) /\ refresh'[n].family_id \in used'
  <2>1. ~Refused(spent) => Standing(spent) /\ spent.family_id \in used
    BY <1>1, <1>3, RefreshAdmitted
  <2> QED BY <1>2, <1>4, <2>1 DEF put_refresh_token, Quiet, Typed, TypeOK
<1>6. Continues(r)
  BY StepContinues DEF RequestStep
<1> QED BY <1>2, <1>4, <1>5, <1>6, QuietKeeps DEF Continues

\* A rotation commits only over a record that stands, and its successors are of the same grant.
LEMMA CommitRotationKeeps ==
    ASSUME Typed, Typed', Buried, NEW r \in Requests, CommitRotation(r)
    PROVE  Buried'
<1> DEFINE q == req[r]
           spent == [Spend(q.rec, q.minted_at) EXCEPT !.retry = RetryAnswer(q)]
           next == [NextRecord(q) EXCEPT !.retry = RetryAnswer(q)]
<1> USE DEF storeVars, deviceMaps, tokenMaps, barriers, history, revocations
<1>1. q.pc = "rotate" /\ q \in Request /\ Proper(q) /\ HoldsRefresh(q) /\ Hand(q)
  BY DEF CommitRotation, Typed, Handlers, Proper, RefreshSteps, Buried
<1>2. Quiet /\ UNCHANGED codes
  BY DEF CommitRotation, rotate_refresh_token, Quiet
<1>3. /\ q.rec \in RefreshTokenRecord(Nat) /\ q.minted_at \in Nat /\ q.cred \in RefreshTokens
      /\ q.family = q.rec.family_id /\ q.cred \notin AuthCodes /\ q.cred \notin DeviceCodes
      /\ q.rec.client_id = q.client
  BY <1>1, IdentifierAssumption DEF HoldsRefresh, Proper, Request, Hand, Genuine, OwnSteps
<1>4. CASE Rotates(q.cred, q.rec)
  <2>1. Standing(q.rec) /\ q.rec.family_id \in used
    BY <1>3, <1>4 DEF Rotates, Buried, RefreshStands
  <2>2. Standing(AccessRecord(q))
    BY <1>3, <2>1 DEF Standing, AccessRecord, Established, GrantSubject
  <2>3. /\ Spend(q.rec, q.minted_at) \in RefreshTokenRecord(Nat)
        /\ Spend(q.rec, q.minted_at).client_id = q.rec.client_id
        /\ Spend(q.rec, q.minted_at).subject = q.rec.subject
        /\ Spend(q.rec, q.minted_at).family_id = q.rec.family_id
        /\ Spend(q.rec, q.minted_at).grant_established_at = q.rec.grant_established_at
    BY <1>3, SpendFacts
  <2>4. Standing(spent) /\ spent.family_id \in used
    <3> HIDE DEF q
    <3>1. /\ spent.client_id = q.rec.client_id /\ spent.subject = q.rec.subject
          /\ spent.family_id = q.rec.family_id
          /\ spent.grant_established_at = q.rec.grant_established_at
      BY <2>3 DEF RefreshTokenRecord
    <3> QED BY <2>1, <3>1 DEF Standing
  <2>5. Standing(next) /\ next.family_id \in used
    <3>1. /\ next.client_id = q.rec.client_id /\ next.subject = q.rec.subject
          /\ next.family_id = q.rec.family_id
          /\ next.grant_established_at = q.rec.grant_established_at
      BY <1>3 DEF NextRecord, Established, GrantSubject
    <3> HIDE DEF next
    <3> QED BY <2>1, <3>1 DEF Standing
  <2>6. /\ tokens' = [tokens EXCEPT ![q.access] = AccessRecord(q)]
        /\ refresh' = [k \in RefreshTokens |->
                           IF k = q.next THEN next ELSE IF k = q.cred THEN spent ELSE refresh[k]]
        /\ Return(r)
    BY <1>4 DEF CommitRotation, rotate_refresh_token, Grant
  <2> HIDE DEF next, spent
  <2>7. \A a \in AccessTokens : tokens'[a] \in {tokens[a], None} \/ Standing(tokens'[a])
    BY <2>2, <2>6 DEF Typed, TypeOK
  <2>8. \A n \in RefreshTokens : \/ refresh'[n] \in {refresh[n], None}
                                 \/ Standing(refresh'[n]) /\ refresh'[n].family_id \in used'
    BY <1>2, <2>4, <2>5, <2>6 DEF Quiet
  <2>9. Continues(r) /\ Hand(req[r])'
    BY <2>6, ReturnContinues, IdleHand DEF Typed
  <2> QED BY <1>2, <2>7, <2>8, <2>9, QuietKeeps DEF Continues
<1>5. CASE ~Rotates(q.cred, q.rec)
  <2>1. UNCHANGED <<tokens, refresh>> /\ Goto(r, "reread")
    BY <1>5 DEF CommitRotation, rotate_refresh_token
  <2>2. "reread" \in Steps \ WritingSteps
    BY DEF Steps, WritingSteps, OwnSteps
  <2> QED BY <1>1, <1>2, <2>1, <2>2, VanishKeeps DEF RequestStep
<1> QED BY <1>4, <1>5

-----------------------------------------------------------------------------
(***************************************************************************)
(* Revocations                                                              *)
(***************************************************************************)
\* A revocation opens a window of its full length, and shortens none that stands.
LEMMA WindowOpens ==
    ASSUME Typed, NEW slot \in Option(RevocationWindow(Nat))
    PROVE  LET m == merge_into(slot, revocation_window) IN
           /\ \A d \in Nat : d < now + Longest => Bars(m, now, d)
           /\ \A t, d \in Nat : Bars(slot, t, d) => Bars(m, t, d)
<1> DEFINE w == revocation_window
           m == merge_into(slot, w)
<1>1. w \in RevocationWindow(Nat) /\ Longest \in Nat /\ now \in Nat
  BY WindowType DEF Typed, Books
<1>2. w.recorded_at = now /\ w.until = now + Longest
  BY DEF revocation_window
<1> HIDE DEF w
<1>3. /\ m \in RevocationWindow(Nat) /\ m # None
      /\ m.recorded_at >= w.recorded_at /\ m.until >= w.until
      /\ slot # None => m.recorded_at >= slot.recorded_at /\ m.until >= slot.until
  BY <1>1, MergeFacts
<1> HIDE DEF m
<1>4. m.recorded_at \in Nat /\ m.until \in Nat
      /\ (slot # None => slot.recorded_at \in Nat /\ slot.until \in Nat)
  BY <1>3 DEF RevocationWindow, Option
<1>5. \A d \in Nat : d < now + Longest => Bars(m, now, d)
  BY <1>1, <1>2, <1>3, <1>4 DEF Bars
<1>6. \A t, d \in Nat : Bars(slot, t, d) => Bars(m, t, d)
  BY <1>3, <1>4 DEF Bars
<1> QED BY <1>5, <1>6 DEF m, w

\* A handler in flight started at an instant its record types, and ends before a window that
\* opens now lapses.
LEMMA InFlight ==
    ASSUME Typed, WindowCondition, NEW r \in Requests, Hand(req[r]), req[r].pc \in WritingSteps
    PROVE  /\ req[r].since + MaxInFlight \in Nat
           /\ now <= req[r].since + MaxInFlight
           /\ req[r].since + MaxInFlight < now + Longest
           /\ Established(req[r]) \in Nat
           /\ req[r].rec.client_id \in ClientIds
           /\ req[r].rec.subject \in Option(Subjects)
           /\ FamilyOf(req[r]) \in Option(FamilyIds)
<1> DEFINE q == req[r]
<1>1. q \in Request /\ Proper(q) /\ q.pc # "idle" /\ q.cred \notin DeviceCodes
  BY DEF Typed, Handlers, WritingSteps, OwnSteps, Hand, Genuine
<1>2. /\ q.since \in Nat /\ q.since <= now /\ now <= q.since + MaxInFlight /\ now \in Nat
      /\ MaxInFlight \in Nat /\ Longest \in Nat /\ Longest > MaxInFlight
  BY <1>1, ConfigAssumption, WindowType DEF Request, Hand, OnTime, Typed, Books, WindowCondition
<1>3. HoldsCode(q) \/ HoldsRefresh(q)
  BY <1>1 DEF WritingSteps, OwnSteps, Proper, TakenSteps, IssueSteps, RefreshSteps, HoldsGrant
<1>4. /\ Established(q) \in Nat /\ q.rec.client_id \in ClientIds
      /\ q.rec.subject \in Option(Subjects)
  BY <1>3, IdentifierAssumption DEF Established, HoldsCode, HoldsRefresh, AuthorizationCodeRecord,
     RefreshTokenRecord, Option
<1>5. FamilyOf(q) \in Option(FamilyIds)
  BY <1>1, <1>3, IdentifierAssumption DEF FamilyOf, HoldsCode, HoldsRefresh, RefreshTokenRecord, Request,
     Option
<1> QED BY <1>2, <1>4, <1>5

\* A step that leaves every barrier that a request in flight still needs.
ClientsShelter ==
    \A c \in ClientIds, est, d \in Nat :
        /\ now <= d /\ d < now + Longest
        /\ ~After(deleted_at[c], est) => Bars(client_barriers[c], deleted_at[c], d)
        /\ ~After(deleted_at'[c], est)
        => Bars(client_barriers'[c], deleted_at'[c], d)
ConsentsShelter ==
    \A p \in ClientIds \X Subjects, est, d \in Nat :
        /\ now <= d /\ d < now + Longest
        /\ ~After(withdrawn_at[p], est) => Bars(consent_barriers[p], withdrawn_at[p], d)
        /\ ~After(withdrawn_at'[p], est)
        => Bars(consent_barriers'[p], withdrawn_at'[p], d)
FamiliesShelter ==
    \A f \in FamilyIds, d \in Nat :
        /\ now <= d /\ d < now + Longest
        /\ f \in revoked => family_barriers[f] # None /\ family_barriers[f].until > d
        /\ f \in revoked'
        => family_barriers'[f] # None /\ family_barriers'[f].until > d
Shelter == ClientsShelter /\ ConsentsShelter /\ FamiliesShelter

\* A handler that waits through such a step.
LEMMA ShelteredHand ==
    ASSUME Typed, Typed', WindowCondition, Shelter, used \subseteq used', NEW s \in Requests,
           Hand(req[s]), req'[s] = req[s], OnTime(req[s])'
    PROVE  Hand(req[s])'
<1>1. Genuine(req[s])'
  BY DEF Hand, Genuine
<1>2. Sheltered(req[s])'
  <2> SUFFICES ASSUME req[s].pc \in WritingSteps PROVE Sheltered(req[s])'
    BY DEF Sheltered
  <2> DEFINE c == req[s].rec.client_id
             u == req[s].rec.subject
             est == Established(req[s])
             f == FamilyOf(req[s])
             d == req[s].since + MaxInFlight
  <2>1. /\ d \in Nat /\ now <= d /\ d < now + Longest /\ est \in Nat
        /\ c \in ClientIds /\ u \in Option(Subjects) /\ f \in Option(FamilyIds)
    BY InFlight
  <2>2. /\ ~After(deleted_at[c], est) => Bars(client_barriers[c], deleted_at[c], d)
        /\ u # None => (~After(withdrawn_at[<<c, u>>], est) =>
                            Bars(consent_barriers[<<c, u>>], withdrawn_at[<<c, u>>], d))
        /\ f \in revoked => family_barriers[f] # None /\ family_barriers[f].until > d
    BY DEF Hand, Sheltered, ClientSafe, ConsentSafe, FamilySafe
  <2>3. None \notin revoked'
    BY AbsentAssumption DEF Typed, Books
  <2> HIDE DEF c, u, est, f, d
  <2>4. ~After(deleted_at'[c], est) => Bars(client_barriers'[c], deleted_at'[c], d)
    BY <2>1, <2>2 DEF Shelter, ClientsShelter
  <2>5. ASSUME u # None, ~After(withdrawn_at'[<<c, u>>], est)
        PROVE  Bars(consent_barriers'[<<c, u>>], withdrawn_at'[<<c, u>>], d)
    <3> DEFINE p == <<c, u>>
    <3>1. p \in ClientIds \X Subjects
      BY <2>1, <2>5 DEF Option
    <3>2. /\ ~After(withdrawn_at[p], est) => Bars(consent_barriers[p], withdrawn_at[p], d)
          /\ ~After(withdrawn_at'[p], est)
      BY <2>2, <2>5
    <3> HIDE DEF p
    <3>3. Bars(consent_barriers'[p], withdrawn_at'[p], d)
      BY <2>1, <3>1, <3>2 DEF Shelter, ConsentsShelter
    <3> QED BY <3>3 DEF p
  <2>6. f \in revoked' => family_barriers'[f] # None /\ family_barriers'[f].until > d
    BY <2>1, <2>2, <2>3 DEF Shelter, FamiliesShelter, Option
  <2> QED BY <2>4, <2>5, <2>6 DEF Sheltered, ClientSafe, ConsentSafe, FamilySafe, c, u, est, f, d,
             Established, FamilyOf
<1> QED BY <1>1, <1>2 DEF Hand

\* The parts of it that a step leaves alone.
LEMMA ShelterUnchanged ==
    /\ UNCHANGED <<deleted_at, client_barriers>> => ClientsShelter
    /\ UNCHANGED <<withdrawn_at, consent_barriers>> => ConsentsShelter
    /\ UNCHANGED <<revoked, family_barriers>> => FamiliesShelter
BY DEF ClientsShelter, ConsentsShelter, FamiliesShelter

\* A family is revoked while others are in flight.
LEMMA RevokeFamilyKeeps ==
    ASSUME Typed, Typed', Buried, WindowCondition, NEW r \in Requests, NEW f \in FamilyIds,
           f \in used, RevokeFamily(f), UNCHANGED <<now, used, withdrawn_at, deleted_at>>,
           \A s \in Requests : s # r => req'[s] = req[s], Hand(req[r])'
    PROVE  Buried'
<1>1. /\ revoked' = revoked \cup {f} /\ UNCHANGED <<client_barriers, consent_barriers, codes>>
      /\ family_barriers' = [family_barriers EXCEPT ![f] = merge_into(family_barriers[f],
                                                                      revocation_window)]
      /\ tokens' = Without(tokens, OfFamily(tokens, f))
      /\ refresh' = Without(refresh, OfFamily(refresh, f))
  BY DEF RevokeFamily, revoke_token_family
<1>2. TokensStand' /\ RefreshStands'
  <2>1. /\ \A a \in AccessTokens :
               tokens'[a] = IF a \in OfFamily(tokens, f) THEN None ELSE tokens[a]
        /\ \A n \in RefreshTokens :
               refresh'[n] = IF n \in OfFamily(refresh, f) THEN None ELSE refresh[n]
    BY <1>1, WithoutFacts DEF Typed, TypeOK
  <2>2. DOMAIN tokens = AccessTokens /\ DOMAIN refresh = RefreshTokens
    BY DEF Typed, TypeOK
  <2> QED BY <1>1, <2>1, <2>2 DEF Buried, TokensStand, RefreshStands, Standing, OfFamily
<1>3. CodesLapse' /\ ClientsBarred' /\ ConsentsBarred' /\ revoked' \subseteq used'
  BY <1>1 DEF Buried, CodesLapse, ClientsBarred, ConsentsBarred
<1>4. Shelter
  <2>1. \A d \in Nat : d < now + Longest =>
            Bars(merge_into(family_barriers[f], revocation_window), now, d)
    BY WindowOpens DEF Typed, TypeOK
  <2>2. f \in DOMAIN family_barriers
    BY DEF Typed, TypeOK
  <2>3. FamiliesShelter
    BY <1>1, <2>1, <2>2 DEF FamiliesShelter, Bars
  <2> QED BY <1>1, <2>3, ShelterUnchanged DEF Shelter
<1>5. ASSUME NEW s \in Requests, s # r PROVE Hand(req[s])'
  <2>1. Hand(req[s]) /\ req'[s] = req[s] /\ OnTime(req[s])'
    BY <1>5 DEF Buried, Hand, OnTime
  <2> QED BY <1>4, <2>1, ShelteredHand
<1> QED BY <1>2, <1>3, <1>5 DEF Buried

\* The handlers that revoke a family.
LEMMA RevokingStepKeeps ==
    ASSUME Typed, Typed', Buried, WindowCondition, NEW r \in Requests,
           ReplayRevoke(r) \/ ReuseRevoke(r) \/ RevokeCascade(r)
    PROVE  Buried'
<1> DEFINE q == req[r]
<1> USE DEF storeVars, deviceMaps, tokenMaps, barriers, history, revocations, CallFails
<1>1. /\ RequestStep(r) /\ q.pc \in {"replay_revoke", "reuse_revoke", "revoke_cascade"}
      /\ UNCHANGED <<now, used, withdrawn_at, deleted_at>> /\ q \in Request /\ Proper(q) /\ Hand(q)
  BY DEF RequestStep, ReplayRevoke, ReuseRevoke, RevokeCascade, Typed, Handlers, Buried
<1>2. Continues(r)
  BY <1>1, StepContinues
<1>3. ASSUME NEW f \in FamilyIds, f \in used, RevokeFamily(f),
             Return(r) \/ Goto(r, "replay_record") \/ Goto(r, "revoke_take")
      PROVE  Buried'
  <2>1. {"replay_record", "revoke_take"} \subseteq Steps \ WritingSteps
    BY DEF Steps, WritingSteps, OwnSteps
  <2>2. Hand(req[r])'
    BY <1>1, <1>3, <2>1, ReturnContinues, IdleHand, GotoHand DEF Typed
  <2> QED BY <1>1, <1>2, <1>3, <2>2, RevokeFamilyKeeps DEF Continues
<1>4. CASE ReplayRevoke(r)
  <2>1. q.family \in FamilyIds /\ q.family \in used
    BY <1>1, <1>4, AbsentAssumption DEF ReplayRevoke, Proper, Hand, Genuine
  <2>2. \/ RevokeFamily(q.family) /\ Goto(r, "replay_record")
        \/ UNCHANGED storeVars /\ UNCHANGED revoked
    BY <1>4 DEF ReplayRevoke
  <2> QED BY <1>3, <1>4, <2>1, <2>2, ReplayKeeps
<1>5. ASSUME ReuseRevoke(r) \/ RevokeCascade(r)
      PROVE  q.rec.family_id \in FamilyIds /\ q.rec.family_id \in used /\ HoldsRefresh(q)
  <2>1. HoldsRefresh(q)
    BY <1>1, <1>5 DEF ReuseRevoke, RevokeCascade, Proper, RefreshSteps
  <2> QED BY <1>1, <2>1 DEF HoldsRefresh, RefreshTokenRecord, Hand, Genuine
<1>6. CASE RevokeCascade(r)
  <2>1. \/ RevokeFamily(q.rec.family_id) /\ Goto(r, "revoke_take")
        \/ UNCHANGED storeVars /\ UNCHANGED revoked
    BY <1>6 DEF RevokeCascade
  <2> QED BY <1>3, <1>5, <1>6, <2>1, ReplayKeeps
<1>7. CASE ReuseRevoke(r)
  <2>1. CASE RevokeFamily(q.rec.family_id) /\ Return(r)
    BY <1>3, <1>5, <1>7, <2>1
  <2>2. CASE UNCHANGED storeVars /\ UNCHANGED revoked /\ Goto(r, "reuse_rearm")
    <3>1. Quiet
      BY <1>1, <2>2 DEF Quiet
    <3>2. req'[r] = [q EXCEPT !.pc = "reuse_rearm"]
      BY <2>2, GotoContinues DEF Typed
    <3>3. /\ req'[r].pc = "reuse_rearm" /\ req'[r].cred = q.cred /\ req'[r].since = q.since
          /\ req'[r].rec = q.rec /\ req'[r].client = q.client /\ req'[r].family = q.family
      BY <1>1, <3>2 DEF Request
    <3>4. q.pc = "reuse_revoke"
      BY <1>7 DEF ReuseRevoke
    <3> HIDE DEF q
    <3>5. OnTime(req[r])'
      BY <1>1, <3>1, <3>3, <3>4 DEF Hand, OnTime, Quiet
    <3>6. Genuine(req[r])'
      BY <1>1, <3>1, <3>3 DEF Hand, Genuine, Quiet, OwnSteps, HoldsCode, HoldsRefresh
    <3>7. Sheltered(req[r])'
      BY <1>1, <3>1, <3>3, <3>4 DEF Hand, Sheltered, ClientSafe, ConsentSafe, FamilySafe, Quiet,
         WritingSteps, OwnSteps, Established, FamilyOf
    <3>8. Hand(req[r])'
      BY <3>5, <3>6, <3>7 DEF Hand
    <3> QED BY <1>2, <2>2, <3>1, <3>8, QuietKeeps DEF Continues
  <2> QED BY <1>7, <2>1, <2>2 DEF ReuseRevoke
<1> QED BY <1>4, <1>6, <1>7

\* What a map holds after `retain`.
LEMMA Retained ==
    ASSUME Typed, NEW doomed
    PROVE  /\ \A a \in AccessTokens :
                  Without(tokens, doomed)[a] = IF a \in doomed THEN None ELSE tokens[a]
           /\ \A n \in RefreshTokens :
                  Without(refresh, doomed)[n] = IF n \in doomed THEN None ELSE refresh[n]
           /\ \A x \in AuthCodes : Without(codes, doomed)[x] = IF x \in doomed THEN None ELSE codes[x]
<1>1. /\ tokens \in [AccessTokens -> Option(IssuedToken(Nat))]
      /\ refresh \in [RefreshTokens -> Option(RefreshTokenRecord(Nat))]
      /\ codes \in [AuthCodes -> Option(AuthorizationCodeRecord(Nat))]
  BY DEF Typed, TypeOK
<1>2. \A a \in AccessTokens : Without(tokens, doomed)[a] = IF a \in doomed THEN None ELSE tokens[a]
  BY <1>1, WithoutFacts
<1>3. \A n \in RefreshTokens : Without(refresh, doomed)[n] = IF n \in doomed THEN None ELSE refresh[n]
  BY <1>1, WithoutFacts
<1>4. \A x \in AuthCodes : Without(codes, doomed)[x] = IF x \in doomed THEN None ELSE codes[x]
  BY <1>1, WithoutFacts
<1> QED BY <1>2, <1>3, <1>4

\* A client is deleted while requests of its grants are in flight.
LEMMA DeleteClientKeeps ==
    ASSUME Typed, Typed', Buried, WindowCondition, NEW c \in ClientIds, DeleteClient(c)
    PROVE  Buried'
<1>1. /\ deleted_at' = [deleted_at EXCEPT ![c] = now]
      /\ client_barriers' = [client_barriers EXCEPT ![c] = merge_into(client_barriers[c],
                                                                      revocation_window)]
      /\ tokens' = Without(tokens, OfClient(tokens, c))
      /\ refresh' = Without(refresh, OfClient(refresh, c))
      /\ codes' = Without(codes, OfClient(codes, c))
      /\ UNCHANGED <<now, req, used, revoked, withdrawn_at, family_barriers, consent_barriers>>
  BY DEF DeleteClient, delete_client
<1>2. /\ \A d \in Nat : d < now + Longest =>
             Bars(merge_into(client_barriers[c], revocation_window), now, d)
      /\ now \in Nat /\ Longest \in Nat /\ now + Longest - 1 \in Nat
      /\ now + Longest - 1 < now + Longest
  BY WindowOpens, WindowType, ConfigAssumption DEF Typed, TypeOK, Books, WindowCondition
<1>3. /\ \A b \in ClientIds : deleted_at'[b] = IF b = c THEN now ELSE deleted_at[b]
      /\ \A b \in ClientIds : client_barriers'[b] =
             IF b = c THEN merge_into(client_barriers[c], revocation_window) ELSE client_barriers[b]
  BY <1>1 DEF Typed, TypeOK, Books
<1>4. TokensStand' /\ RefreshStands' /\ CodesLapse'
  <2>1. /\ \A a \in AccessTokens :
               tokens'[a] = IF a \in OfClient(tokens, c) THEN None ELSE tokens[a]
        /\ \A n \in RefreshTokens :
               refresh'[n] = IF n \in OfClient(refresh, c) THEN None ELSE refresh[n]
        /\ \A x \in AuthCodes : codes'[x] = IF x \in OfClient(codes, c) THEN None ELSE codes[x]
    BY <1>1, Retained
  <2>2. /\ \A a \in AccessTokens : tokens[a] # None => tokens[a].client_id \in ClientIds
        /\ \A n \in RefreshTokens : refresh[n] # None => refresh[n].client_id \in ClientIds
    BY DEF Typed, TypeOK, Option, IssuedToken, RefreshTokenRecord
  <2>3. DOMAIN tokens = AccessTokens /\ DOMAIN refresh = RefreshTokens
    BY DEF Typed, TypeOK
  <2>4. TokensStand'
    BY <1>1, <1>3, <2>1, <2>2, <2>3 DEF Buried, TokensStand, Standing, OfClient
  <2>5. RefreshStands'
    BY <1>1, <1>3, <2>1, <2>2, <2>3 DEF Buried, RefreshStands, Standing, OfClient
  <2>6. CodesLapse'
    BY <2>1 DEF Buried, CodesLapse
  <2> QED BY <2>4, <2>5, <2>6
<1>5. ClientsBarred' /\ ConsentsBarred' /\ revoked' \subseteq used'
  BY <1>1, <1>2, <1>3 DEF Buried, ClientsBarred, ConsentsBarred
<1>6. Shelter
  <2>1. ClientsShelter
    BY <1>2, <1>3 DEF ClientsShelter
  <2> QED BY <1>1, <2>1, ShelterUnchanged DEF Shelter
<1>7. ASSUME NEW s \in Requests PROVE Hand(req[s])'
  <2>1. Hand(req[s]) /\ req'[s] = req[s] /\ OnTime(req[s])'
    BY <1>1 DEF Buried, Hand, OnTime
  <2> QED BY <1>1, <1>6, <2>1, ShelteredHand
<1> QED BY <1>4, <1>5, <1>7 DEF Buried

\* A consent is withdrawn while requests of its grants are in flight.
LEMMA WithdrawConsentKeeps ==
    ASSUME Typed, Typed', Buried, WindowCondition, NEW k \in ConsentIds, WithdrawConsent(k)
    PROVE  Buried'
<1> DEFINE c == consents[k].client_id
           u == consents[k].subject
           p == <<c, u>>
<1>1. /\ withdrawn_at' = [withdrawn_at EXCEPT ![p] = now]
      /\ consent_barriers' = [consent_barriers EXCEPT ![p] = merge_into(consent_barriers[p],
                                                                        revocation_window)]
      /\ tokens' = Without(tokens, OfConsent(tokens, c, u))
      /\ refresh' = Without(refresh, OfConsent(refresh, c, u))
      /\ codes' = Without(codes, OfConsent(codes, c, u))
      /\ UNCHANGED <<now, req, used, revoked, deleted_at, family_barriers, client_barriers>>
  BY DEF WithdrawConsent, revoke_consent
<1>2. c \in ClientIds /\ u \in Subjects /\ p \in ClientIds \X Subjects
  BY DEF Typed, TypeOK, WithdrawConsent, Option, ConsentRecord
<1> HIDE DEF c, u
<1>3. /\ \A d \in Nat : d < now + Longest =>
             Bars(merge_into(consent_barriers[p], revocation_window), now, d)
      /\ now \in Nat /\ Longest \in Nat /\ now + Longest - 1 \in Nat
      /\ now + Longest - 1 < now + Longest
  BY <1>2, WindowOpens, WindowType, ConfigAssumption DEF Typed, TypeOK, Books, WindowCondition
<1>4. /\ \A b \in ClientIds \X Subjects :
             withdrawn_at'[b] = IF b = p THEN now ELSE withdrawn_at[b]
      /\ \A b \in ClientIds \X Subjects : consent_barriers'[b] =
             IF b = p THEN merge_into(consent_barriers[p], revocation_window)
             ELSE consent_barriers[b]
  BY <1>1, <1>2 DEF Typed, TypeOK, Books
<1>5. TokensStand' /\ RefreshStands' /\ CodesLapse'
  <2>1. /\ \A a \in AccessTokens :
               tokens'[a] = IF a \in OfConsent(tokens, c, u) THEN None ELSE tokens[a]
        /\ \A n \in RefreshTokens :
               refresh'[n] = IF n \in OfConsent(refresh, c, u) THEN None ELSE refresh[n]
        /\ \A x \in AuthCodes : codes'[x] = IF x \in OfConsent(codes, c, u) THEN None ELSE codes[x]
    BY <1>1, Retained
  <2>2. ASSUME NEW rec, rec.client_id \in ClientIds, rec.subject \in Option(Subjects),
               Standing(rec), ~(rec.client_id = c /\ rec.subject = u)
        PROVE  Standing(rec)'
    <3>1. ASSUME rec.subject # None
          PROVE  withdrawn_at'[<<rec.client_id, rec.subject>>]
                     = withdrawn_at[<<rec.client_id, rec.subject>>]
      BY <1>4, <2>2, <3>1 DEF Option
    <3> QED BY <1>1, <2>2, <3>1 DEF Standing
  <2>3. /\ \A a \in AccessTokens : tokens[a] # None =>
               tokens[a].client_id \in ClientIds /\ tokens[a].subject \in Option(Subjects)
        /\ \A n \in RefreshTokens : refresh[n] # None =>
               refresh[n].client_id \in ClientIds /\ refresh[n].subject \in Option(Subjects)
    BY DEF Typed, TypeOK, Option, IssuedToken, RefreshTokenRecord
  <2>4. DOMAIN tokens = AccessTokens /\ DOMAIN refresh = RefreshTokens
    BY DEF Typed, TypeOK
  <2>5. TokensStand'
    <3> SUFFICES ASSUME NEW a \in AccessTokens, tokens'[a] # None PROVE Standing(tokens[a])'
      BY DEF TokensStand
    <3>1. tokens'[a] = tokens[a] /\ ~(tokens[a].client_id = c /\ tokens[a].subject = u)
      BY <2>1, <2>4 DEF OfConsent, OfClient
    <3>2. Standing(tokens[a])
      BY <3>1 DEF Buried, TokensStand
    <3> QED BY <2>2, <2>3, <3>1, <3>2 DEF Standing
  <2>6. RefreshStands'
    <3> SUFFICES ASSUME NEW n \in RefreshTokens, refresh'[n] # None
                 PROVE  Standing(refresh[n])' /\ refresh'[n].family_id \in used'
      BY DEF RefreshStands
    <3>1. refresh'[n] = refresh[n] /\ ~(refresh[n].client_id = c /\ refresh[n].subject = u)
      BY <2>1, <2>4 DEF OfConsent, OfClient
    <3>2. Standing(refresh[n]) /\ refresh[n].family_id \in used
      BY <3>1 DEF Buried, RefreshStands
    <3> QED BY <1>1, <2>2, <2>3, <3>1, <3>2 DEF Standing
  <2>7. CodesLapse'
    BY <2>1 DEF Buried, CodesLapse
  <2> QED BY <2>5, <2>6, <2>7
<1>6. ClientsBarred' /\ ConsentsBarred' /\ revoked' \subseteq used'
  BY <1>1, <1>3, <1>4 DEF Buried, ClientsBarred, ConsentsBarred
<1>7. Shelter
  <2>1. ConsentsShelter
    BY <1>3, <1>4 DEF ConsentsShelter
  <2> QED BY <1>1, <2>1, ShelterUnchanged DEF Shelter
<1>8. ASSUME NEW s \in Requests PROVE Hand(req[s])'
  <2>1. Hand(req[s]) /\ req'[s] = req[s] /\ OnTime(req[s])'
    BY <1>1 DEF Buried, Hand, OnTime
  <2> QED BY <1>1, <1>7, <2>1, ShelteredHand
<1> QED BY <1>5, <1>6, <1>8 DEF Buried

-----------------------------------------------------------------------------
(***************************************************************************)
(* The sweep, the clock and the rest of the environment                     *)
(***************************************************************************)
\* The sweep reclaims no barrier that somebody still needs.
LEMMA SweepKeeps ==
    ASSUME Typed, Typed', Buried, WindowCondition, Sweep
    PROVE  Buried'
<1>1. /\ tokens' = Without(tokens, ExpiredKeys(tokens, now))
      /\ refresh' = Without(refresh, ExpiredKeys(refresh, now))
      /\ codes' = Without(codes, ExpiredKeys(codes, now))
      /\ client_barriers' = Without(client_barriers, Reapable(client_barriers, now))
      /\ family_barriers' = Without(family_barriers, Reapable(family_barriers, now))
      /\ consent_barriers' = Without(consent_barriers, Reapable(consent_barriers, now))
      /\ UNCHANGED <<now, req, used, revoked, withdrawn_at, deleted_at>>
  BY DEF Sweep, sweep_expired, history, revocations
<1>2. now \in Nat /\ Longest \in Nat /\ WindowCondition
  BY WindowType DEF Typed, Books
<1>3. ASSUME NEW K, NEW map \in [K -> Option(RevocationWindow(Nat))], NEW k \in K, map[k] # None,
             map[k].until > now
      PROVE  Without(map, Reapable(map, now))[k] = map[k]
  <2>1. k \notin Reapable(map, now)
    BY <1>2, <1>3 DEF Reapable, Option, RevocationWindow
  <2> QED BY <2>1, WithoutFacts
<1>4. /\ client_barriers \in [ClientIds -> Option(RevocationWindow(Nat))]
      /\ family_barriers \in [FamilyIds -> Option(RevocationWindow(Nat))]
      /\ consent_barriers \in [ClientIds \X Subjects -> Option(RevocationWindow(Nat))]
  BY DEF Typed, TypeOK
<1>5. /\ \A c \in ClientIds : client_barriers[c] # None /\ client_barriers[c].until > now
             => client_barriers'[c] = client_barriers[c]
      /\ \A f \in FamilyIds : family_barriers[f] # None /\ family_barriers[f].until > now
             => family_barriers'[f] = family_barriers[f]
      /\ \A p \in ClientIds \X Subjects :
             consent_barriers[p] # None /\ consent_barriers[p].until > now
             => consent_barriers'[p] = consent_barriers[p]
  BY <1>1, <1>3, <1>4
<1>6. /\ \A c \in ClientIds : client_barriers[c] # None => client_barriers[c].until \in Nat
      /\ \A f \in FamilyIds : family_barriers[f] # None => family_barriers[f].until \in Nat
      /\ \A p \in ClientIds \X Subjects : consent_barriers[p] # None => consent_barriers[p].until \in Nat
  BY <1>4 DEF Option, RevocationWindow
<1>7. TokensStand' /\ RefreshStands' /\ CodesLapse' /\ revoked' \subseteq used'
  <2>1. /\ \A a \in AccessTokens : tokens'[a] \in {tokens[a], None}
        /\ \A n \in RefreshTokens : refresh'[n] \in {refresh[n], None}
        /\ \A x \in AuthCodes : codes'[x] \in {codes[x], None}
    BY <1>1, Retained
  <2> QED BY <1>1, <2>1 DEF Buried, TokensStand, RefreshStands, CodesLapse, Standing
<1>8. ClientsBarred' /\ ConsentsBarred'
  <2>1. \A c \in ClientIds : deleted_at[c] \in Option(Nat)
    BY DEF Typed, Books
  <2>2. \A p \in ClientIds \X Subjects : withdrawn_at[p] \in Option(Nat)
    BY DEF Typed, Books
  <2>3. ClientsBarred'
    BY <1>1, <1>2, <1>5, <1>6, <2>1 DEF Buried, ClientsBarred, Bars, Option
  <2>4. ConsentsBarred'
    BY <1>1, <1>2, <1>5, <1>6, <2>2 DEF Buried, ConsentsBarred, Bars, Option
  <2> QED BY <2>3, <2>4
<1>9. Shelter
  <2>1. ClientsShelter
    BY <1>1, <1>2, <1>5, <1>6 DEF ClientsShelter, Bars
  <2>2. ConsentsShelter
    BY <1>1, <1>2, <1>5, <1>6 DEF ConsentsShelter, Bars
  <2>3. FamiliesShelter
    BY <1>1, <1>2, <1>5, <1>6 DEF FamiliesShelter
  <2> QED BY <2>1, <2>2, <2>3 DEF Shelter
<1>10. ASSUME NEW s \in Requests PROVE Hand(req[s])'
  <2>1. Hand(req[s]) /\ req'[s] = req[s] /\ OnTime(req[s])'
    BY <1>1 DEF Buried, Hand, OnTime
  <2> QED BY <1>1, <1>9, <2>1, ShelteredHand
<1> QED BY <1>7, <1>8, <1>10 DEF Buried

\* The clock moves on only while no request has been suspended too long.
LEMMA TickKeeps ==
    ASSUME Typed, Typed', Buried, WindowCondition, Tick
    PROVE  Buried'
<1>1. /\ now' = now + 1 /\ now \in Nat
      /\ \A r \in Requests : req[r].pc # "idle" => now - req[r].since < MaxInFlight
      /\ UNCHANGED <<tokens, refresh, codes, req, used, revoked, withdrawn_at, deleted_at,
                     client_barriers, family_barriers, consent_barriers>>
  BY DEF Tick, Typed, Books, storeVars, tokenMaps, barriers, history, revocations
<1>2. TokensStand' /\ RefreshStands' /\ CodesLapse' /\ revoked' \subseteq used'
  BY <1>1 DEF Buried, TokensStand, RefreshStands, CodesLapse, Standing
<1>3. ClientsBarred' /\ ConsentsBarred'
  <2>1. Longest \in Nat
    BY WindowType DEF Typed
  <2>2. /\ \A c \in ClientIds : deleted_at[c] \in Option(Nat)
        /\ \A p \in ClientIds \X Subjects : withdrawn_at[p] \in Option(Nat)
    BY DEF Typed, Books
  <2>3. ClientsBarred'
    BY <1>1, <2>1, <2>2 DEF Buried, ClientsBarred, Option
  <2>4. ConsentsBarred'
    BY <1>1, <2>1, <2>2 DEF Buried, ConsentsBarred, Option
  <2> QED BY <2>3, <2>4
<1>4. Shelter
  BY <1>1, ShelterUnchanged DEF Shelter
<1>5. ASSUME NEW s \in Requests PROVE Hand(req[s])'
  <2>1. Hand(req[s]) /\ req'[s] = req[s] /\ req[s].since \in Nat
    BY <1>1 DEF Buried, Typed, Handlers, Request
  <2>2. OnTime(req[s])'
    BY <1>1, <2>1, ConfigAssumption DEF Hand, OnTime
  <2> QED BY <1>1, <1>4, <2>1, <2>2, ShelteredHand
<1> QED BY <1>2, <1>3, <1>5 DEF Buried

\* A request starts with nothing in its hands but the credential it was called with.
LEMMA StartKeeps ==
    ASSUME Typed, Typed', Buried, NEW r \in Requests, NEW c \in ClientIds, NEW x,
           \/ x \in AuthCodes /\ StartRedeem(r, c, x)
           \/ x \in RefreshTokens /\ StartRefresh(r, c, x)
           \/ x \in RefreshTokens \cup AccessTokens /\ StartRevoke(r, c, x)
    PROVE  Buried'
<1> USE DEF storeVars, tokenMaps, barriers, history, revocations
<1>1. Quiet /\ UNCHANGED <<tokens, refresh, codes>>
  BY DEF StartRedeem, StartRefresh, StartRevoke, Quiet
<1>2. x \notin DeviceCodes
  BY IdentifierAssumption
<1>3. \E pc \in {"take_code", "read_refresh", "revoke_lookup", "revoke_access"} :
          req' = [req EXCEPT ![r] = [Idle EXCEPT !.pc = pc, !.client = c, !.cred = x, !.since = now]]
  <2>1. CASE StartRevoke(r, c, x)
    <3> DEFINE pc == IF x \in RefreshTokens THEN "revoke_lookup" ELSE "revoke_access"
    <3>1. req' = [req EXCEPT ![r] = [Idle EXCEPT !.pc = pc, !.client = c, !.cred = x, !.since = now]]
      BY <2>1 DEF StartRevoke
    <3>2. pc \in {"take_code", "read_refresh", "revoke_lookup", "revoke_access"}
      OBVIOUS
    <3> HIDE DEF pc
    <3> QED BY <3>1, <3>2
  <2> QED BY <2>1 DEF StartRedeem, StartRefresh
<1>4. PICK pc \in {"take_code", "read_refresh", "revoke_lookup", "revoke_access"} :
          req' = [req EXCEPT ![r] = [Idle EXCEPT !.pc = pc, !.client = c, !.cred = x, !.since = now]]
  BY <1>3
<1>5. req \in [Requests -> Request] /\ now \in Nat
  BY DEF Typed, Handlers, Books
<1>6. /\ req'[r].pc = pc /\ req'[r].cred = x /\ req'[r].since = now /\ req'[r].rec = None
      /\ req'[r].family = None
  BY <1>4, <1>5 DEF Idle
<1>7. \A s \in Requests : s # r => req'[s] = req[s]
  BY <1>4, <1>5
<1>8. pc \notin WritingSteps
  BY DEF WritingSteps, OwnSteps
<1>9. OnTime(req[r])'
  BY <1>1, <1>5, <1>6, ConfigAssumption DEF OnTime, Quiet
<1>10. Genuine(req[r])'
  BY <1>2, <1>6, <1>8, AbsentAssumption DEF Genuine, HoldsRefresh, HoldsCode, WritingSteps
<1>11. Sheltered(req[r])'
  BY <1>6, <1>8 DEF Sheltered
<1>12. Hand(req[r])'
  BY <1>9, <1>10, <1>11 DEF Hand
<1> QED BY <1>1, <1>7, <1>12, QuietKeeps

\* A code is issued: it expires a bounded time after the decision it is dated at.
LEMMA IssueCodeKeeps ==
    ASSUME Typed, Typed', Buried, NEW x \in AuthCodes, NEW c \in ClientIds, NEW u \in Subjects,
           NEW t \in Nat, IssueCode(x, c, u, t)
    PROVE  Buried'
<1> DEFINE rec == [client_id |-> c, subject |-> u, issued_at |-> t,
                   expires_at |-> now + authorization_code_ttl,
                   state |-> CodeState("Issued", None, None)]
<1> USE DEF storeVars, tokenMaps, barriers, history, revocations
<1>1. /\ Quiet /\ UNCHANGED <<tokens, refresh, req>> /\ codes' = [codes EXCEPT ![x] = rec]
      /\ t <= now /\ now - t <= MaxInFlight /\ now \in Nat
  BY DEF IssueCode, put_authorization_code, Quiet, Typed, Books
<1>2. Lapses(rec)
  BY <1>1, ConfigAssumption DEF Lapses
<1> HIDE DEF rec
<1>3. \A y \in AuthCodes : codes'[y] \in {codes[y], None} \/ Lapses(codes'[y])
  BY <1>1, <1>2 DEF Typed, TypeOK
<1>4. \A s \in Requests : Hand(req[s])'
  BY <1>1, QuietHand DEF Buried
<1> QED BY <1>1, <1>3, <1>4, QuietRowsKeep

\* The host's other steps, and a request that is dropped.
LEMMA HostKeeps ==
    ASSUME Typed, Typed', Buried,
           \/ \E k \in ConsentIds, c \in ClientIds, u \in Subjects : RecordConsent(k, c, u)
           \/ \E c \in ClientIds, g \in Registrations : ProvisionClient(c, g)
           \/ \E r \in Requests : Abandon(r)
           \/ UNCHANGED vars
    PROVE  Buried'
<1> USE DEF storeVars, tokenMaps, barriers, history, revocations
<1>1. Quiet /\ UNCHANGED <<tokens, refresh, codes>>
  BY DEF RecordConsent, compare_and_swap_consent, ProvisionClient, put_client, Abandon, vars, Quiet
<1>2. CASE UNCHANGED req
  BY <1>1, <1>2, QuietHand, QuietRowsKeep DEF Buried
<1>3. ASSUME NEW r \in Requests, Abandon(r) PROVE Buried'
  BY <1>1, <1>3, ReturnContinues, IdleHand, QuietKeeps DEF Typed, Abandon, Continues
<1> QED BY <1>2, <1>3 DEF RecordConsent, ProvisionClient, vars

-----------------------------------------------------------------------------
(***************************************************************************)
(* The theorem                                                              *)
(***************************************************************************)
\* Every step keeps the invariant.
LEMMA BuriedStep == WindowCondition /\ Typed /\ Typed' /\ Buried /\ [Next]_vars => Buried'
<1> SUFFICES ASSUME WindowCondition, Typed, Typed', Buried, [Next]_vars PROVE Buried'
  OBVIOUS
<1>1. ASSUME NEW r \in Requests, RequestStep(r) PROVE Buried'
  BY <1>1, TakeCodeKeeps, CodeWrittenKeeps, ConsumeCodeKeeps, UndoKeeps, ReplayKeeps,
     RevokingStepKeeps, ReadRefreshKeeps, GiveBackKeeps, SpendRefreshKeeps, PutAccessKeeps,
     PutRefreshKeeps, CommitRotationKeeps, LookupKeeps
     DEF RequestStep
<1>2. ASSUME NEW x \in AuthCodes, NEW c \in ClientIds, NEW u \in Subjects, NEW t \in 0..MaxNow,
             IssueCode(x, c, u, t)
      PROVE  Buried'
  <2>1. t \in Nat
    BY ConfigAssumption
  <2> QED BY <1>2, <2>1, IssueCodeKeeps
<1> QED BY <1>1, <1>2, StartKeeps, HostKeeps, WithdrawConsentKeeps, DeleteClientKeeps, SweepKeeps,
           TickKeeps
        DEF Next

\* A server that has just started has revoked nothing.
LEMMA BuriedInit == Init => Buried
<1> SUFFICES ASSUME Init PROVE Buried
  OBVIOUS
<1>1. TokensStand /\ RefreshStands /\ CodesLapse /\ revoked \subseteq used
  BY DEF Init, Empty, TokensStand, RefreshStands, CodesLapse
<1>2. ClientsBarred /\ ConsentsBarred
  BY DEF Init, Empty, ClientsBarred, ConsentsBarred
<1>3. ASSUME NEW r \in Requests PROVE Hand(req[r])
  <2>1. req[r] = Idle
    BY DEF Init
  <2> QED BY <2>1, AbsentAssumption DEF Hand, Idle, OnTime, Genuine, Sheltered, HoldsRefresh,
             HoldsCode, OwnSteps, WritingSteps
<1> QED BY <1>1, <1>2, <1>3 DEF Buried

\* A grant whose family was revoked, whose consent was withdrawn or whose client was deleted never
\* again has an unexpired token or refresh record in the store, however requests then in flight
\* interleave, fail or are dropped and whenever the sweep runs, provided that the revocation
\* window is as long as the code lifetime and twice the time a request may be suspended
\* (revocation_window, is_revoked, sweep_expired).
THEOREM RevokedGrantStaysDead == ASSUME WindowCondition PROVE Spec => []RevokedStaysDead
<1>1. Typed /\ Buried => RevokedStaysDead
  BY DEF Buried, TokensStand, RefreshStands, Standing, After, RevokedStaysDead, LiveAccess,
     LiveRefresh, Unexpired
<1> QED BY <1>1, TypedInit, TypedStep, BuriedInit, BuriedStep, PTL DEF Spec
=============================================================================

---------------------------- MODULE RefreshProofs ----------------------------
(***************************************************************************)
(* Credentials that may be used once, for any number of clients,            *)
(* credentials and requests at once: an authorization code is redeemed once *)
(* and remembers what it was redeemed for, and a rotated refresh token has  *)
(* one successor and is never usable again, under strict and under          *)
(* retryable rotation.                                                      *)
(***************************************************************************)
EXTENDS TokenEndpointProofs

-----------------------------------------------------------------------------
(***************************************************************************)
(* Authorization codes.  The right to be answered for a code is in one      *)
(* place at a time: in the store, while the record says Issued; in the      *)
(* hands of the one request that took that record; or used up by an answer. *)
(* The record itself is either in the store or in the hands of one request. *)
(***************************************************************************)
\* Request r holds the record of code x, which it took out of the store.
Taken(r, x) == req[r].cred = x /\ req[r].pc \in TakenSteps

\* Request r may still be answered for code x, or put the right to it back.
Redeeming == IssueSteps \cup CloseSteps
Claims(r, x) ==
    /\ req[r].cred = x
    /\ \/ req[r].pc \in Redeeming
       \/ req[r].pc \in {"restore_code", "consume_code"} /\ req[r].rec.state.status = "Issued"

Open(x) == codes[x] # None /\ codes[x].state.status = "Issued"

Answered(x) == \E g \in granted : g.from = x

OneHolder ==
    \A x \in AuthCodes, r \in Requests : Taken(r, x) =>
        codes[x] = None /\ \A s \in Requests : Taken(s, x) => s = r

OneClaim ==
    \A x \in AuthCodes, r \in Requests : Claims(r, x) =>
        /\ ~Open(x) /\ ~Answered(x)
        /\ \A s \in Requests : Claims(s, x) => s = r

ClosedOnceAnswered == \A x \in AuthCodes : Open(x) => ~Answered(x)

UnknownUntilIssued ==
    \A x \in AuthCodes : x \notin used =>
        codes[x] = None /\ ~Answered(x) /\ \A r \in Requests : req[r].cred # x

ConsumesIssued ==
    \A r \in Requests : req[r].pc = "consume_code" => req[r].rec.state.status = "Issued"

RedeemedOnce ==
    /\ OneHolder /\ OneClaim /\ ClosedOnceAnswered /\ UnknownUntilIssued /\ ConsumesIssued
    /\ SingleRedemption /\ RedemptionRecorded

-----------------------------------------------------------------------------
(***************************************************************************)
(* Steps that leave the rights to a code where they are                     *)
(***************************************************************************)
ReplaySteps == {"replay_lookup", "replay_revoke", "replay_delete", "replay_record"}

Keeps(q, q2) ==
    /\ q2.cred = q.cred /\ q2.rec = q.rec
    /\ \/ q2.pc = q.pc
       \/ q.pc \in Redeeming /\ q2.pc \in Redeeming
       \/ q.pc \in ReplaySteps /\ q2.pc \in ReplaySteps

\* Codes may vanish, requests on a code may return or go on with the same record, and no code is
\* answered.
Tame ==
    /\ \A x \in AuthCodes : codes'[x] \in {codes[x], None}
    /\ used \subseteq used'
    /\ \A g \in granted' : g \in granted \/ g.from \notin AuthCodes
    /\ \A s \in Requests : req'[s].cred \in AuthCodes => Keeps(req[s], req'[s])

\* Such a step keeps the invariant.
LEMMA TameKeeps == ASSUME Typed', RedeemedOnce, Tame PROVE RedeemedOnce'
<1>1. ASSUME NEW r \in Requests, NEW x \in AuthCodes
      PROVE  /\ Taken(r, x)' => Taken(r, x)
             /\ Claims(r, x)' => Claims(r, x)
  BY DEF Tame, Taken, Claims, Keeps, ReplaySteps, Redeeming, IssueSteps, CloseSteps, TakenSteps
<1>2. ASSUME NEW x \in AuthCodes
      PROVE  /\ Open(x)' => Open(x)
             /\ Answered(x)' => Answered(x)
             /\ codes[x] = None => codes'[x] = None
  BY DEF Tame, Open, Answered
<1>3. OneHolder'
  BY <1>1, <1>2 DEF RedeemedOnce, OneHolder
<1>4. OneClaim'
  BY <1>1, <1>2 DEF RedeemedOnce, OneClaim
<1>5. ClosedOnceAnswered'
  BY <1>2 DEF RedeemedOnce, ClosedOnceAnswered
<1>6. UnknownUntilIssued'
  BY <1>2 DEF RedeemedOnce, UnknownUntilIssued, Tame, Keeps
<1>7. ConsumesIssued'
  <2> SUFFICES ASSUME NEW r \in Requests, req'[r].pc = "consume_code"
               PROVE  req'[r].rec.state.status = "Issued"
    BY DEF ConsumesIssued
  <2>1. req'[r].cred \in AuthCodes
    BY DEF Typed, Handlers, Proper, HoldsCode, TakenSteps
  <2> QED BY <2>1 DEF RedeemedOnce, ConsumesIssued, Tame, Keeps, ReplaySteps, Redeeming, IssueSteps,
                 CloseSteps
<1>8. SingleRedemption'
  BY DEF RedeemedOnce, SingleRedemption, Tame
<1>9. RedemptionRecorded'
  BY DEF RedeemedOnce, RedemptionRecorded, Tame, Keeps
<1> QED BY <1>3, <1>4, <1>5, <1>6, <1>7, <1>8, <1>9 DEF RedeemedOnce

\* Steps on a credential that is not a code.
LEMMA OtherTame ==
    ASSUME Typed, NEW r \in Requests, RequestStep(r), req[r].cred \notin AuthCodes
    PROVE  Tame
<1>1. Continues(r)
  BY StepContinues
<1>2. \A s \in Requests : req'[s].cred \in AuthCodes => Keeps(req[s], req'[s])
  <2>1. Idle.cred \notin AuthCodes
    BY AbsentAssumption DEF Idle
  <2>2. req'[r].cred \notin AuthCodes
    BY <1>1, <2>1 DEF Continues
  <2> QED BY <1>1, <2>2 DEF Continues, Keeps
<1> QED BY <1>2, StepFrame DEF Tame

\* A request on a code that returns, or goes on where the rights are the same.
LEMMA ContinuesTame ==
    ASSUME Typed, NEW r \in Requests, RequestStep(r), UNCHANGED codes,
           \A g \in granted' : g \in granted,
           Return(r) \/ Keeps(req[r], req'[r])
    PROVE  Tame
<1>1. Continues(r)
  BY StepContinues
<1>2. Return(r) => req'[r].cred \notin AuthCodes
  BY ReturnContinues, AbsentAssumption DEF Typed, Idle
<1>3. \A s \in Requests : req'[s].cred \in AuthCodes => Keeps(req[s], req'[s])
  BY <1>1, <1>2 DEF Continues, Keeps
<1> QED BY <1>3, StepFrame DEF Tame

\* The writes of `issue`, and taking them back.
LEMMA IssueTame ==
    ASSUME Typed, NEW r \in Requests, req[r].cred \in AuthCodes,
           PutAccess(r) \/ PutRefresh(r) \/ UndoIssuance(r) \/ UndoAccess(r) \/ UndoRefresh(r)
    PROVE  Tame
<1> USE DEF storeVars, deviceMaps, tokenMaps, barriers, history, CallFails
<1>1. RequestStep(r) /\ req[r] \in Request /\ Handlers
  BY DEF RequestStep, Typed, Handlers
<1>2. UNCHANGED codes
  BY DEF PutAccess, PutRefresh, UndoIssuance, UndoAccess, UndoRefresh, put_token,
     put_refresh_token, delete_token, take_refresh_token
<1>3. ASSUME NEW pc \in Redeeming, Goto(r, pc), req[r].pc \in Redeeming
      PROVE  Keeps(req[r], req'[r])
  <2>1. req'[r] = [req[r] EXCEPT !.pc = pc]
    BY <1>1, <1>3, GotoContinues
  <2> QED BY <1>1, <1>3, <2>1 DEF Keeps, Request
<1>4. req[r].pc \in Redeeming
  BY DEF PutAccess, PutRefresh, UndoIssuance, UndoAccess, UndoRefresh, Redeeming, IssueSteps,
     CloseSteps
<1>5. UNCHANGED granted
  BY DEF PutAccess, PutRefresh, UndoIssuance, UndoAccess, UndoRefresh, Issued
<1>6. Return(r) \/ \E pc \in Redeeming : Goto(r, pc)
  <2>1. CASE PutAccess(r) \/ PutRefresh(r)
    <3>1. \/ Return(r) \/ Goto(r, "put_refresh") \/ Goto(r, "undo_issuance")
          \/ Goto(r, "record_redemption")
      BY <2>1 DEF PutAccess, PutRefresh, Issued
    <3> QED BY <3>1 DEF Redeeming, IssueSteps, CloseSteps
  <2>2. CASE UndoIssuance(r) \/ UndoAccess(r) \/ UndoRefresh(r)
    <3>1. Return(r) \/ Goto(r, "undo_refresh")
      BY <2>2 DEF UndoIssuance, UndoAccess, UndoRefresh
    <3> QED BY <3>1 DEF Redeeming, CloseSteps
  <2> QED BY <2>1, <2>2
<1> QED BY <1>1, <1>2, <1>3, <1>4, <1>5, <1>6, ContinuesTame

\* Containing a replay.
LEMMA ReplayTame ==
    ASSUME Typed, NEW r \in Requests, ReplayLookup(r) \/ ReplayRevoke(r) \/ ReplayDelete(r)
    PROVE  Tame
<1> USE DEF storeVars, deviceMaps, tokenMaps, barriers, history, CallFails
<1>1. RequestStep(r) /\ req[r] \in Request /\ Handlers
  BY DEF RequestStep, Typed, Handlers
<1>2. UNCHANGED <<codes, granted>>
  BY DEF ReplayLookup, ReplayRevoke, ReplayDelete, RevokeFamily, revoke_token_family, delete_token
<1>3. req[r].pc \in ReplaySteps
  BY DEF ReplayLookup, ReplayRevoke, ReplayDelete, ReplaySteps
<1>4. \E pc \in ReplaySteps : \E f :
          \/ req' = [req EXCEPT ![r].pc = pc]
          \/ req' = [req EXCEPT ![r].failed = f, ![r].pc = pc]
          \/ req' = [req EXCEPT ![r].pc = pc, ![r].failed = f]
          \/ req' = [req EXCEPT ![r].pc = pc, ![r].family = f]
  <2>1. ASSUME NEW f, AfterFamily(r, f)
        PROVE  \E pc \in ReplaySteps : req' = [req EXCEPT ![r].failed = f, ![r].pc = pc]
    <3> DEFINE pc == IF req[r].rec.state.access_token = None THEN "replay_record" ELSE "replay_delete"
    <3>1. pc \in ReplaySteps
      BY DEF ReplaySteps
    <3>2. req' = [req EXCEPT ![r].failed = f, ![r].pc = pc]
      BY <2>1 DEF AfterFamily
    <3> HIDE DEF pc
    <3> QED BY <3>1, <3>2
  <2>2. CASE ReplayLookup(r)
    BY <2>1, <2>2 DEF ReplayLookup, ReplaySteps
  <2>3. CASE ReplayRevoke(r)
    BY <2>1, <2>3 DEF ReplayRevoke, ReplaySteps, Goto
  <2>4. CASE ReplayDelete(r)
    BY <2>4 DEF ReplayDelete, ReplaySteps, Goto
  <2> QED BY <2>2, <2>3, <2>4
<1>5. Keeps(req[r], req'[r])
  BY <1>1, <1>3, <1>4 DEF Keeps, Handlers, Request
<1> QED BY <1>1, <1>2, <1>5, ContinuesTame

\* Everything else but the issue and the presentation of a code.
LEMMA EnvironmentTame ==
    ASSUME Typed,
           \/ \E r \in Requests, c \in ClientIds : \E x \in RefreshTokens : StartRefresh(r, c, x)
           \/ \E r \in Requests, c \in ClientIds :
                  \E x \in RefreshTokens \cup AccessTokens : StartRevoke(r, c, x)
           \/ \E r \in Requests : Abandon(r)
           \/ \E k \in ConsentIds, c \in ClientIds, s \in Subjects : RecordConsent(k, c, s)
           \/ \E k \in ConsentIds : WithdrawConsent(k)
           \/ \E c \in ClientIds : DeleteClient(c)
           \/ \E c \in ClientIds, g \in Registrations : ProvisionClient(c, g)
           \/ Sweep \/ Tick \/ UNCHANGED vars
    PROVE  Tame
<1> USE DEF storeVars, deviceMaps, tokenMaps, barriers, history
<1>1. ASSUME UNCHANGED <<used, granted, req>>, \A x \in AuthCodes : codes'[x] \in {codes[x], None}
      PROVE  Tame
  BY <1>1 DEF Tame, Keeps
<1>2. ASSUME UNCHANGED <<codes, used, granted>>, NEW r \in Requests, NEW q \in Request,
             req' = [req EXCEPT ![r] = q], q.cred \notin AuthCodes
      PROVE  Tame
  <2>1. req \in [Requests -> Request]
    BY DEF Typed, Handlers
  <2> QED BY <1>2, <2>1 DEF Tame, Keeps
<1>3. ASSUME NEW doomed, codes' = Without(codes, doomed)
      PROVE  \A x \in AuthCodes : codes'[x] \in {codes[x], None}
  BY <1>3, WithoutFacts DEF Typed, TypeOK
<1>4. ASSUME NEW r \in Requests, NEW c \in ClientIds, NEW x \in RefreshTokens \cup AccessTokens,
             NEW pc \in Steps,
             req' = [req EXCEPT ![r] = [Idle EXCEPT !.pc = pc, !.client = c, !.cred = x,
                                                    !.since = now]],
             UNCHANGED <<codes, used, granted>>
      PROVE  Tame
  <2> DEFINE q == [Idle EXCEPT !.pc = pc, !.client = c, !.cred = x, !.since = now]
  <2>1. q \in Request /\ q.cred = x
    BY DEF Typed, Books, Idle, Request, Credentials, Option
  <2>2. x \notin AuthCodes
    BY IdentifierAssumption
  <2> HIDE DEF q
  <2> QED BY <1>2, <1>4, <2>1, <2>2 DEF q
<1>5. ASSUME NEW r \in Requests, NEW c \in ClientIds, NEW x \in RefreshTokens, StartRefresh(r, c, x)
      PROVE  Tame
  <2>1. "read_refresh" \in Steps
    BY DEF Steps
  <2> QED BY <1>4, <1>5, <2>1 DEF StartRefresh
<1>6. ASSUME NEW r \in Requests, NEW c \in ClientIds, NEW x \in RefreshTokens \cup AccessTokens,
             StartRevoke(r, c, x)
      PROVE  Tame
  <2> DEFINE pc == IF x \in RefreshTokens THEN "revoke_lookup" ELSE "revoke_access"
  <2>1. pc \in Steps
    BY DEF Steps
  <2>2. req' = [req EXCEPT ![r] = [Idle EXCEPT !.pc = pc, !.client = c, !.cred = x, !.since = now]]
    BY <1>6 DEF StartRevoke
  <2>3. UNCHANGED <<codes, used, granted>>
    BY <1>6 DEF StartRevoke
  <2> HIDE DEF pc
  <2> QED BY <1>4, <2>1, <2>2, <2>3
<1>7. ASSUME NEW r \in Requests, Abandon(r) PROVE Tame
  BY <1>2, <1>7, IdleProper, AbsentAssumption DEF Abandon, Return, Idle
<1>8. ASSUME NEW k \in ConsentIds, WithdrawConsent(k) PROVE Tame
  BY <1>1, <1>3, <1>8 DEF WithdrawConsent, revoke_consent
<1>9. ASSUME NEW c \in ClientIds, DeleteClient(c) PROVE Tame
  BY <1>1, <1>3, <1>9 DEF DeleteClient, delete_client
<1>10. CASE Sweep
  BY <1>1, <1>3, <1>10 DEF Sweep, sweep_expired
<1>11. CASE Tick \/ UNCHANGED vars
  BY <1>1, <1>11 DEF Tick, vars
<1>12. ASSUME NEW k \in ConsentIds, NEW c \in ClientIds, NEW s \in Subjects, RecordConsent(k, c, s)
       PROVE  Tame
  BY <1>1, <1>12 DEF RecordConsent, compare_and_swap_consent
<1>13. ASSUME NEW c \in ClientIds, NEW g \in Registrations, ProvisionClient(c, g) PROVE Tame
  BY <1>1, <1>13 DEF ProvisionClient, put_client
<1> QED BY <1>5, <1>6, <1>7, <1>8, <1>9, <1>10, <1>11, <1>12, <1>13

-----------------------------------------------------------------------------
(***************************************************************************)
(* Steps that move the rights to a code                                     *)
(***************************************************************************)
\* A new code is nobody's yet.
LEMMA IssueCodeKeeps ==
    ASSUME Typed, RedeemedOnce, NEW x \in AuthCodes, NEW c \in ClientIds, NEW s \in Subjects,
           NEW t \in Nat, IssueCode(x, c, s, t)
    PROVE  RedeemedOnce'
<1>1. /\ x \notin used /\ used' = used \cup {x} /\ UNCHANGED <<req, granted>>
      /\ \A y \in AuthCodes : y # x => codes'[y] = codes[y]
      /\ codes'[x].state = CodeState("Issued", None, None)
  BY DEF Typed, TypeOK, IssueCode, put_authorization_code, history
<1>2. ~Answered(x) /\ \A r \in Requests : req[r].cred # x
  BY <1>1 DEF RedeemedOnce, UnknownUntilIssued
<1>3. ASSUME NEW r \in Requests, NEW y \in AuthCodes
      PROVE  (Taken(r, y)' <=> Taken(r, y)) /\ (Claims(r, y)' <=> Claims(r, y))
  BY <1>1 DEF Taken, Claims
<1>4. ASSUME NEW y \in AuthCodes PROVE Answered(y)' <=> Answered(y)
  BY <1>1 DEF Answered
<1>5. ASSUME NEW r \in Requests PROVE ~Taken(r, x) /\ ~Claims(r, x)
  BY <1>2 DEF Taken, Claims
<1>6. ASSUME NEW y \in AuthCodes, y # x PROVE Open(y)' <=> Open(y)
  BY <1>1, <1>6 DEF Open
<1>7. OneHolder'
  BY <1>1, <1>3, <1>5 DEF RedeemedOnce, OneHolder
<1>8. OneClaim'
  BY <1>3, <1>4, <1>5, <1>6 DEF RedeemedOnce, OneClaim
<1>9. ClosedOnceAnswered'
  BY <1>2, <1>4, <1>6 DEF RedeemedOnce, ClosedOnceAnswered
<1>10. UnknownUntilIssued'
  BY <1>1, <1>4 DEF RedeemedOnce, UnknownUntilIssued
<1>11. ConsumesIssued' /\ SingleRedemption'
  BY <1>1 DEF RedeemedOnce, ConsumesIssued, SingleRedemption
<1>12. RedemptionRecorded'
  BY <1>1, <1>2 DEF RedeemedOnce, RedemptionRecorded, Answered
<1> QED BY <1>7, <1>8, <1>9, <1>10, <1>11, <1>12 DEF RedeemedOnce

\* A code that is presented has been issued, and its caller holds no record yet.
LEMMA StartRedeemKeeps ==
    ASSUME Typed, RedeemedOnce, NEW r \in Requests, NEW c \in ClientIds, NEW x \in AuthCodes,
           StartRedeem(r, c, x)
    PROVE  RedeemedOnce'
<1> DEFINE q == [Idle EXCEPT !.pc = "take_code", !.client = c, !.cred = x, !.since = now]
<1>1. /\ UNCHANGED <<codes, used, granted>> /\ x \in used
      /\ req' = [req EXCEPT ![r] = q]
  BY DEF StartRedeem, storeVars, history
<1>2. q.pc = "take_code" /\ q.cred = x /\ q.rec = None
  BY DEF Idle
<1> HIDE DEF q
<1>3. req'[r] = q /\ \A s \in Requests : s # r => req'[s] = req[s]
  BY <1>1 DEF Typed, Handlers
<1>4. ASSUME NEW s \in Requests, NEW y \in AuthCodes
      PROVE  /\ Taken(s, y)' => Taken(s, y)
             /\ Claims(s, y)' => Claims(s, y)
  BY <1>2, <1>3 DEF Taken, Claims, TakenSteps, Redeeming, IssueSteps, CloseSteps
<1>5. ASSUME NEW y \in AuthCodes
      PROVE  (Open(y)' <=> Open(y)) /\ (Answered(y)' <=> Answered(y))
  BY <1>1 DEF Open, Answered
<1>6. OneHolder' /\ OneClaim' /\ ClosedOnceAnswered'
  BY <1>1, <1>4, <1>5 DEF RedeemedOnce, OneHolder, OneClaim, ClosedOnceAnswered
<1>7. UnknownUntilIssued'
  BY <1>1, <1>2, <1>3, <1>5 DEF RedeemedOnce, UnknownUntilIssued
<1>8. ConsumesIssued' /\ SingleRedemption'
  BY <1>1, <1>2, <1>3 DEF RedeemedOnce, ConsumesIssued, SingleRedemption
<1>9. RedemptionRecorded'
  BY <1>1, <1>2, <1>3 DEF RedeemedOnce, RedemptionRecorded
<1> QED BY <1>6, <1>7, <1>8, <1>9 DEF RedeemedOnce

\* Taking a code moves its record, and the right to it if it was open, into the caller's hands.
LEMMA TakeCodeKeeps ==
    ASSUME Typed, Typed', RedeemedOnce, NEW r \in Requests, TakeCode(r)
    PROVE  RedeemedOnce'
<1> DEFINE x == req[r].cred
           rec == codes[x]
<1>1. x \in AuthCodes /\ req[r].pc = "take_code" /\ req[r] \in Request
  BY DEF Typed, Handlers, Proper, TakeCode
<1>2. /\ UNCHANGED <<used, granted>>
      /\ codes'[x] = None /\ \A y \in AuthCodes : y # x => codes'[y] = codes[y]
  BY <1>1 DEF TakeCode, take_authorization_code, Typed, TypeOK
<1>3. \A s \in Requests : s # r => req'[s] = req[s]
  BY StepContinues DEF RequestStep, Continues
<1>4. \/ req'[r] = Idle
      \/ /\ req'[r].cred = x /\ req'[r].rec = rec /\ rec # None
         /\ req'[r].pc \in TakenSteps
         /\ req'[r].pc = "consume_code" => rec.state.status = "Issued"
  <2>1. CASE Return(r)
    BY <2>1, ReturnContinues DEF Typed
  <2>2. ASSUME NEW pc \in TakenSteps, rec # None, pc = "consume_code" => rec.state.status = "Issued",
               req' = [req EXCEPT ![r].pc = pc, ![r].rec = rec]
        PROVE  /\ req'[r].cred = x /\ req'[r].rec = rec /\ rec # None
               /\ req'[r].pc \in TakenSteps
               /\ req'[r].pc = "consume_code" => rec.state.status = "Issued"
    <3>1. req'[r] = [req[r] EXCEPT !.pc = pc, !.rec = rec]
      BY <2>2 DEF Typed, Handlers
    <3> HIDE DEF rec
    <3>2. req'[r].cred = req[r].cred /\ req'[r].rec = rec /\ req'[r].pc = pc
      BY <1>1, <3>1 DEF Request
    <3> QED BY <2>2, <3>2
  <2>3. rec # None => rec.state.status \in {"Issued", "Consumed", "Replayed"}
    BY <1>1 DEF Typed, TypeOK, Option, AuthorizationCodeRecord, AuthorizationCodeState
  <2>4. \/ Return(r)
        \/ \E pc \in TakenSteps :
               /\ rec # None /\ (pc = "consume_code" => rec.state.status = "Issued")
               /\ req' = [req EXCEPT ![r].pc = pc, ![r].rec = rec]
    <3>1. \/ Return(r)
          \/ /\ rec # None
             /\ \/ req' = [req EXCEPT ![r].pc = "restore_code", ![r].rec = rec]
                \/ req' = [req EXCEPT ![r].pc = "replay_lookup", ![r].rec = rec]
                \/ req' = [req EXCEPT ![r].pc = "replay_delete", ![r].rec = rec]
                \/ req' = [req EXCEPT ![r].pc = "replay_record", ![r].rec = rec]
                \/ /\ rec.state.status = "Issued"
                   /\ req' = [req EXCEPT ![r].pc = "consume_code", ![r].rec = rec]
      BY <2>3 DEF TakeCode, Minted
    <3> HIDE DEF rec
    <3> QED BY <3>1 DEF TakenSteps
  <2> QED BY <2>1, <2>2, <2>4
<1> HIDE DEF rec
<1>5. ASSUME NEW s \in Requests, NEW y \in AuthCodes
      PROVE  /\ Taken(s, y)' => Taken(s, y) \/ (s = r /\ y = x /\ rec # None)
             /\ Claims(s, y)' => Claims(s, y) \/ (s = r /\ y = x /\ Open(x))
  <2>1. Idle.pc \notin TakenSteps \cup Redeeming /\ Idle.pc \notin {"restore_code", "consume_code"}
    BY DEF Idle, TakenSteps, Redeeming, IssueSteps, CloseSteps
  <2>2. TakenSteps \cap Redeeming = {}
    BY DEF TakenSteps, Redeeming, IssueSteps, CloseSteps
  <2>3. CASE s # r
    BY <1>3, <2>3 DEF Taken, Claims
  <2>4. CASE s = r
    BY <1>4, <2>1, <2>2, <2>4 DEF Taken, Claims, Open, rec
  <2> QED BY <2>3, <2>4
<1>6. ASSUME NEW y \in AuthCodes
      PROVE  /\ Open(y)' => Open(y) /\ y # x
             /\ Answered(y)' <=> Answered(y)
  BY <1>2 DEF Open, Answered
<1>7. OneHolder'
  BY <1>1, <1>2, <1>5 DEF RedeemedOnce, OneHolder, rec
<1>8. OneClaim'
  BY <1>1, <1>2, <1>5, <1>6 DEF RedeemedOnce, OneClaim, ClosedOnceAnswered
<1>9. ClosedOnceAnswered'
  BY <1>6 DEF RedeemedOnce, ClosedOnceAnswered
<1>10. UnknownUntilIssued'
  BY <1>1, <1>2, <1>3, <1>4, <1>6, AbsentAssumption DEF RedeemedOnce, UnknownUntilIssued, Idle
<1>11. ConsumesIssued' /\ SingleRedemption'
  BY <1>2, <1>3, <1>4 DEF RedeemedOnce, ConsumesIssued, SingleRedemption, Idle
<1>12. RedemptionRecorded'
  BY <1>1, <1>2, <1>3, <1>4, AbsentAssumption DEF RedeemedOnce, RedemptionRecorded, Idle, rec
<1> QED BY <1>7, <1>8, <1>9, <1>10, <1>11, <1>12 DEF RedeemedOnce

\* Putting the record back: what the caller held is in the store again.
LEMMA PutBackKeeps ==
    ASSUME Typed, RedeemedOnce, NEW r \in Requests, NEW x \in AuthCodes, Taken(r, x),
           NEW rec, put_authorization_code(x, rec), rec # None,
           rec.state.access_token = req[r].rec.state.access_token,
           rec.state.refresh_token = req[r].rec.state.refresh_token,
           rec.state.status = "Issued" => Claims(r, x),
           Return(r), UNCHANGED <<used, granted>>
    PROVE  RedeemedOnce'
<1>1. codes'[x] = rec /\ \A y \in AuthCodes : y # x => codes'[y] = codes[y]
  BY DEF put_authorization_code, Typed, TypeOK
<1>2. req'[r] = Idle /\ \A s \in Requests : s # r => req'[s] = req[s]
  BY ReturnContinues DEF Typed, Continues
<1>3. ASSUME NEW s \in Requests, NEW y \in AuthCodes
      PROVE  /\ Taken(s, y)' => Taken(s, y) /\ s # r
             /\ Claims(s, y)' => Claims(s, y) /\ s # r
  BY <1>2 DEF Taken, Claims, Idle, TakenSteps, Redeeming, IssueSteps, CloseSteps
<1>4. ASSUME NEW y \in AuthCodes
      PROVE  /\ Open(y)' => Open(y) \/ (y = x /\ Claims(r, x))
             /\ Answered(y)' <=> Answered(y)
  BY <1>1 DEF Open, Answered
<1>5. OneHolder'
  BY <1>1, <1>3 DEF RedeemedOnce, OneHolder
<1>6. OneClaim'
  BY <1>3, <1>4 DEF RedeemedOnce, OneClaim
<1>7. ClosedOnceAnswered'
  BY <1>4 DEF RedeemedOnce, ClosedOnceAnswered, OneClaim
<1>8. UnknownUntilIssued'
  BY <1>1, <1>2, <1>4, AbsentAssumption DEF RedeemedOnce, UnknownUntilIssued, Idle, Taken
<1>9. ConsumesIssued' /\ SingleRedemption'
  BY <1>2 DEF RedeemedOnce, ConsumesIssued, SingleRedemption, Idle
<1>10. RedemptionRecorded'
  <2>1. req[r].rec # None
    BY AbsentAssumption DEF Taken, Typed, Handlers, Proper, HoldsCode
  <2> QED BY <1>1, <1>2, <2>1, AbsentAssumption DEF RedeemedOnce, RedemptionRecorded, Idle, Taken
<1> QED BY <1>5, <1>6, <1>7, <1>8, <1>9, <1>10 DEF RedeemedOnce

\* A record the caller is not entitled to goes back unchanged.
LEMMA RestoreCodeKeeps ==
    ASSUME Typed, RedeemedOnce, NEW r \in Requests, RestoreCode(r)
    PROVE  RedeemedOnce'
<1>1. HoldsCode(req[r]) /\ req[r].pc = "restore_code"
  BY DEF Typed, Handlers, Proper, TakenSteps, RestoreCode
<1>2. Taken(r, req[r].cred) /\ (req[r].rec.state.status = "Issued" => Claims(r, req[r].cred))
  BY <1>1 DEF Taken, Claims, TakenSteps
<1>3. req[r].rec # None /\ req[r].cred \in AuthCodes
  BY <1>1, AbsentAssumption DEF HoldsCode
<1>4. /\ put_authorization_code(req[r].cred, req[r].rec) /\ Return(r)
      /\ UNCHANGED <<used, granted>>
  BY DEF RestoreCode, history
<1> QED BY <1>2, <1>3, <1>4, PutBackKeeps

\* A replayed code goes back as Replayed, still naming what it was redeemed for.
LEMMA ReplayRecordKeeps ==
    ASSUME Typed, Typed', RedeemedOnce, NEW r \in Requests, ReplayRecord(r)
    PROVE  RedeemedOnce'
<1> DEFINE q == req[r]
           rec == [q.rec EXCEPT !.state.status = "Replayed"]
<1>1. HoldsCode(q) /\ q.pc = "replay_record"
  BY DEF Typed, Handlers, Proper, TakenSteps, ReplayRecord
<1>2. CASE put_authorization_code(q.cred, rec)
  <2>1. Taken(r, q.cred) /\ q.cred \in AuthCodes
    BY <1>1 DEF Taken, TakenSteps, HoldsCode
  <2>2. /\ rec.state.access_token = q.rec.state.access_token
        /\ rec.state.refresh_token = q.rec.state.refresh_token
        /\ rec.state.status # "Issued"
        /\ rec \in AuthorizationCodeRecord(Nat)
    BY <1>1 DEF HoldsCode, AuthorizationCodeRecord, AuthorizationCodeState
  <2>3. Return(r) /\ UNCHANGED <<used, granted>>
    BY DEF ReplayRecord
  <2> HIDE DEF rec
  <2>4. rec # None
    BY <2>2, AbsentAssumption
  <2> QED BY <1>2, <2>1, <2>2, <2>3, <2>4, PutBackKeeps
<1>3. CASE CallFails
  <2>1. UNCHANGED <<codes, granted>> /\ Return(r) /\ RequestStep(r)
    BY <1>3 DEF CallFails, storeVars, ReplayRecord, RequestStep
  <2> QED BY <2>1, ContinuesTame, TameKeeps
<1> QED BY <1>2, <1>3 DEF ReplayRecord

\* Consuming a code closes it in the store; the right to it stays with the request.
LEMMA ConsumeCodeKeeps ==
    ASSUME Typed, Typed', RedeemedOnce, NEW r \in Requests, ConsumeCode(r)
    PROVE  RedeemedOnce'
<1> DEFINE q == req[r]
           x == q.cred
           rec == [q.rec EXCEPT !.state = CodeState("Consumed", None, None)]
<1>1. HoldsCode(q) /\ q.pc = "consume_code" /\ q \in Request
  BY DEF Typed, Handlers, Proper, TakenSteps, ConsumeCode
<1>2. x \in AuthCodes /\ Taken(r, x) /\ Claims(r, x)
  BY <1>1 DEF HoldsCode, Taken, TakenSteps, Claims, RedeemedOnce, ConsumesIssued
<1>3. /\ codes'[x] = rec /\ \A y \in AuthCodes : y # x => codes'[y] = codes[y]
      /\ UNCHANGED granted /\ used \subseteq used'
  BY <1>2, StepFrame DEF ConsumeCode, put_authorization_code, Typed, TypeOK, history, RequestStep
<1>4. rec.state.status # "Issued"
  BY <1>1 DEF HoldsCode, AuthorizationCodeRecord, CodeState
<1>5. /\ \A s \in Requests : s # r => req'[s] = req[s]
      /\ \/ req'[r] = Idle
         \/ req'[r].cred = x /\ req'[r].pc \in Redeeming
  <2>1. Continues(r)
    BY StepContinues DEF RequestStep
  <2>2. CASE Return(r)
    BY <2>1, <2>2, ReturnContinues DEF Continues, Typed
  <2>3. CASE ~Return(r)
    <3>1. PICK a \in AccessTokens \ used, n \in Fresh(RefreshTokens, MintsRefresh(None)),
               f \in Fresh(FamilyIds, MintsRefresh(None)) :
             req' = [req EXCEPT ![r] = [q EXCEPT !.pc = "put_access", !.access = a, !.next = n,
                                                 !.family = f, !.minted_at = now]]
      BY <2>3 DEF ConsumeCode, BeginIssue
    <3>2. req'[r] = [q EXCEPT !.pc = "put_access", !.access = a, !.next = n, !.family = f,
                              !.minted_at = now]
      BY <3>1 DEF Typed, Handlers
    <3>3. req'[r].pc = "put_access" /\ req'[r].cred = x
      BY <1>1, <3>2 DEF Request
    <3> QED BY <2>1, <3>3 DEF Continues, Redeeming, IssueSteps
  <2> QED BY <2>2, <2>3
<1> HIDE DEF x, rec
<1>6. ASSUME NEW s \in Requests, NEW y \in AuthCodes
      PROVE  /\ Taken(s, y)' => Taken(s, y) /\ s # r
             /\ Claims(s, y)' => Claims(s, y)
  <2>1. TakenSteps \cap Redeeming = {} /\ Idle.pc \notin TakenSteps \cup Redeeming
        /\ Idle.pc \notin {"restore_code", "consume_code"}
    BY DEF Idle, TakenSteps, Redeeming, IssueSteps, CloseSteps
  <2>2. CASE s # r
    BY <1>5, <2>2 DEF Taken, Claims
  <2>3. CASE s = r
    <3>1. ~Taken(r, y)'
      BY <1>5, <2>1 DEF Taken
    <3>2. Claims(r, y)' => y = x
      BY <1>5, <2>1 DEF Claims
    <3> QED BY <1>2, <2>3, <3>1, <3>2
  <2> QED BY <2>2, <2>3
<1>7. ASSUME NEW y \in AuthCodes
      PROVE  /\ Open(y)' => Open(y)
             /\ Answered(y)' <=> Answered(y)
  BY <1>3, <1>4 DEF Open, Answered
<1>8. OneHolder'
  BY <1>2, <1>3, <1>6 DEF RedeemedOnce, OneHolder
<1>9. OneClaim'
  BY <1>6, <1>7 DEF RedeemedOnce, OneClaim
<1>10. ClosedOnceAnswered'
  BY <1>7 DEF RedeemedOnce, ClosedOnceAnswered
<1>11. x \in used
  BY <1>2 DEF RedeemedOnce, UnknownUntilIssued, Taken
<1>12. UnknownUntilIssued'
  BY <1>3, <1>5, <1>7, <1>11, AbsentAssumption DEF RedeemedOnce, UnknownUntilIssued, Idle
<1>13. ConsumesIssued' /\ SingleRedemption'
  BY <1>3, <1>5 DEF RedeemedOnce, ConsumesIssued, SingleRedemption, Idle, Redeeming, IssueSteps,
     CloseSteps
<1>14. RedemptionRecorded'
  <2>1. ~Answered(x)
    BY <1>2 DEF RedeemedOnce, OneClaim
  <2> QED BY <1>2, <1>3, <1>5, <2>1, AbsentAssumption
          DEF RedeemedOnce, RedemptionRecorded, Idle, Answered
<1> QED BY <1>8, <1>9, <1>10, <1>12, <1>13, <1>14 DEF RedeemedOnce

\* The answer uses the right up, and leaves a record that names what it carries.
LEMMA RecordRedemptionKeeps ==
    ASSUME Typed, Typed', RedeemedOnce, NEW r \in Requests, RecordRedemption(r)
    PROVE  RedeemedOnce'
<1> DEFINE q == req[r]
           x == q.cred
           before == CodeState("Consumed", None, None)
           rec == [q.rec EXCEPT !.state = CodeState("Consumed", q.access, q.next)]
           answer == [client |-> q.client, from |-> x, family |-> q.family, access |-> q.access,
                      next |-> q.next]
<1>1. HoldsCode(q) /\ q.pc = "record_redemption" /\ q \in Request /\ RequestStep(r)
  BY DEF Typed, Handlers, Proper, CloseSteps, RecordRedemption, RequestStep
<1>2. x \in AuthCodes /\ Claims(r, x)
  BY <1>1 DEF HoldsCode, Claims, Redeeming, CloseSteps
<1>3. CASE UNCHANGED <<codes, granted>> /\ Goto(r, "undo_access")
  <2>1. req'[r] = [q EXCEPT !.pc = "undo_access"]
    BY <1>3, GotoContinues DEF Typed
  <2>2. Keeps(q, req'[r])
    BY <1>1, <2>1 DEF Keeps, Request, Redeeming, CloseSteps
  <2> QED BY <1>1, <1>3, <2>2, ContinuesTame, TameKeeps
<1>4. CASE /\ compare_and_swap_authorization_code(x, before, rec) /\ CodeSwaps(x, before)
           /\ Grant(r, q.family, q.access, q.next)
  <2>1. /\ codes[x] # None /\ codes'[x] = rec
        /\ \A y \in AuthCodes : y # x => codes'[y] = codes[y]
    BY <1>2, <1>4 DEF compare_and_swap_authorization_code, CodeSwaps, Typed, TypeOK
  <2>2. granted' = granted \cup {answer} /\ UNCHANGED used
    BY <1>4 DEF Grant, RecordRedemption
  <2>3. req'[r] = Idle /\ \A s \in Requests : s # r => req'[s] = req[s]
    BY <1>4, ReturnContinues DEF Grant, Typed, Continues
  <2>4. /\ rec.state.status # "Issued" /\ rec.state.access_token = q.access
        /\ rec.state.refresh_token = q.next
    BY <1>1 DEF HoldsCode, AuthorizationCodeRecord, CodeState
  <2>5. answer.from = x /\ answer.access = q.access /\ answer.next = q.next
    OBVIOUS
  <2> HIDE DEF x, rec, answer
  <2>6. ASSUME NEW s \in Requests, NEW y \in AuthCodes
        PROVE  /\ Taken(s, y)' => Taken(s, y) /\ s # r
               /\ Claims(s, y)' => Claims(s, y) /\ s # r
    BY <2>3 DEF Taken, Claims, Idle, TakenSteps, Redeeming, IssueSteps, CloseSteps
  <2>7. ASSUME NEW y \in AuthCodes
        PROVE  /\ Open(y)' => Open(y) /\ y # x
               /\ Answered(y)' <=> Answered(y) \/ y = x
    BY <2>1, <2>2, <2>4, <2>5 DEF Open, Answered
  <2>8. OneHolder'
    BY <2>1, <2>6 DEF RedeemedOnce, OneHolder
  <2>9. OneClaim'
    BY <1>2, <2>6, <2>7 DEF RedeemedOnce, OneClaim
  <2>10. ClosedOnceAnswered'
    BY <2>7 DEF RedeemedOnce, ClosedOnceAnswered
  <2>11. x \in used
    BY <1>2 DEF RedeemedOnce, UnknownUntilIssued, Claims
  <2>12. UnknownUntilIssued'
    BY <2>1, <2>2, <2>3, <2>7, <2>11, AbsentAssumption DEF RedeemedOnce, UnknownUntilIssued, Idle
  <2>13. ConsumesIssued'
    BY <2>3 DEF RedeemedOnce, ConsumesIssued, Idle
  <2>14. ~Answered(x)
    BY <1>2 DEF RedeemedOnce, OneClaim
  <2>15. SingleRedemption'
    BY <2>2, <2>5, <2>14 DEF RedeemedOnce, SingleRedemption, Answered
  <2>16. ASSUME NEW s \in Requests, req'[s].cred = x PROVE req'[s].rec = None
    <3>1. s # r /\ req'[s] = req[s]
      BY <1>2, <2>3, <2>16, AbsentAssumption DEF Idle
    <3>2. ~Taken(s, x) /\ ~Claims(s, x)
      BY <1>2, <2>1, <3>1 DEF RedeemedOnce, OneHolder, OneClaim
    <3>3. req[s].cred = x /\ x \in AuthCodes /\ Proper(req[s]) /\ req[s] \in Request
      BY <1>2, <2>16, <3>1 DEF Typed, Handlers
    <3>4. req[s].pc = "take_code"
      BY <3>2, <3>3, IdentifierAssumption, AbsentAssumption DEF Taken, Claims, Proper, Request, Steps,
         Redeeming, TakenSteps, IssueSteps, CloseSteps, RefreshSteps, LookupSteps, DeviceSteps,
         HoldsRefresh, Option
    <3> QED BY <3>1, <3>3, <3>4 DEF Proper
  <2>17. RedemptionRecorded'
    BY <2>1, <2>2, <2>3, <2>4, <2>5, <2>14, <2>16, AbsentAssumption
       DEF RedeemedOnce, RedemptionRecorded, Answered, Idle
  <2> QED BY <2>8, <2>9, <2>10, <2>12, <2>13, <2>15, <2>17 DEF RedeemedOnce
<1> QED BY <1>3, <1>4 DEF RecordRedemption, compare_and_swap_authorization_code, CallFails, storeVars

-----------------------------------------------------------------------------
(***************************************************************************)
(* The theorems                                                             *)
(***************************************************************************)
\* Every step keeps the rights in one place.
LEMMA RedeemedOnceStep == Typed /\ Typed' /\ RedeemedOnce /\ [Next]_vars => RedeemedOnce'
<1> SUFFICES ASSUME Typed, Typed', RedeemedOnce, [Next]_vars PROVE RedeemedOnce'
  OBVIOUS
<1>1. ASSUME NEW r \in Requests, RequestStep(r) PROVE RedeemedOnce'
  <2>1. CASE req[r].cred \notin AuthCodes
    BY <1>1, <2>1, OtherTame, TameKeeps
  <2>2. CASE req[r].cred \in AuthCodes
    <3>1. req[r].pc \notin {"read_refresh", "restore_refresh", "reuse_revoke", "reuse_rearm",
              "spend_refresh", "rotate", "reread", "retry_access", "retry_next", "revoke_lookup",
              "revoke_cascade", "revoke_take", "revoke_access", "revoke_delete"}
      BY <2>2, IdentifierAssumption DEF Typed, Handlers, Proper, LookupSteps, RefreshSteps,
         HoldsRefresh
    <3>2. \/ TakeCode(r) \/ RestoreCode(r) \/ ConsumeCode(r) \/ RecordRedemption(r)
          \/ UndoAccess(r) \/ UndoRefresh(r)
          \/ ReplayLookup(r) \/ ReplayRevoke(r) \/ ReplayDelete(r) \/ ReplayRecord(r)
          \/ PutAccess(r) \/ PutRefresh(r) \/ UndoIssuance(r)
      BY <1>1, <3>1 DEF RequestStep, ReadRefresh, RestoreRefresh, ReuseRevoke, ReuseRearm,
         SpendRefresh, CommitRotation, Reread, RetryAccess, RetryNext, RevokeLookup, RevokeCascade,
         RevokeTake, RevokeAccess, RevokeDelete
    <3> QED BY <2>2, <3>2, TakeCodeKeeps, RestoreCodeKeeps, ConsumeCodeKeeps, RecordRedemptionKeeps,
            ReplayRecordKeeps, IssueTame, ReplayTame, TameKeeps
  <2> QED BY <2>1, <2>2
<1>2. ASSUME NEW x \in AuthCodes, NEW c \in ClientIds, NEW s \in Subjects, NEW t \in 0..MaxNow,
             IssueCode(x, c, s, t)
      PROVE  RedeemedOnce'
  <2>1. t \in Nat
    BY ConfigAssumption
  <2> QED BY <1>2, <2>1, IssueCodeKeeps
<1>3. ASSUME NEW r \in Requests, NEW c \in ClientIds, NEW x \in AuthCodes, StartRedeem(r, c, x)
      PROVE  RedeemedOnce'
  BY <1>3, StartRedeemKeeps
<1> QED BY <1>1, <1>2, <1>3, EnvironmentTame, TameKeeps DEF Next

\* No code has been issued when the server starts.
LEMMA RedeemedOnceInit == Init => RedeemedOnce
<1> SUFFICES ASSUME Init PROVE RedeemedOnce
  OBVIOUS
<1>1. /\ \A x \in AuthCodes : codes[x] = None
      /\ granted = {}
      /\ \A r \in Requests : req[r].pc = "idle" /\ req[r].cred = None
  BY DEF Init, Empty, Idle
<1> QED BY <1>1, AbsentAssumption DEF RedeemedOnce, OneHolder, OneClaim, ClosedOnceAnswered,
        UnknownUntilIssued, ConsumesIssued, SingleRedemption, RedemptionRecorded, Taken, Claims, Open,
        Answered, TakenSteps, Redeeming, IssueSteps, CloseSteps

\* The inductive invariant holds throughout.
LEMMA RedeemedOnceAlways == Spec => [](Typed /\ RedeemedOnce)
BY TypedInit, TypedStep, RedeemedOnceInit, RedeemedOnceStep, PTL DEF Spec

\* One authorization code is answered with tokens at most once, however many requests present it
\* at once and whichever of them are dropped, fail or put the record back
\* (authorization_code_token).
THEOREM CodeRedeemedOnce == Spec => []SingleRedemption
<1>1. Typed /\ RedeemedOnce => SingleRedemption
  BY DEF RedeemedOnce
<1> QED BY <1>1, RedeemedOnceAlways, PTL

\* The tokens a redemption handed out are the ones its code names, wherever the record is, so a
\* replay of the code always knows what to revoke (authorization_code_token).
THEOREM CodeNamesItsTokens == Spec => []RedemptionRecorded
<1>1. Typed /\ RedeemedOnce => RedemptionRecorded
  BY DEF RedeemedOnce
<1> QED BY <1>1, RedeemedOnceAlways, PTL

-----------------------------------------------------------------------------
(***************************************************************************)
(* Refresh tokens.  Under strict rotation the right to a successor moves as *)
(* that of a code does: from the Active record in the store to the one      *)
(* request that took it, and on to the answer.  Under retryable rotation    *)
(* any number of requests hold the Active record, and the compare-and-swap  *)
(* that replaces it records the answer that every later request repeats.    *)
(***************************************************************************)
\* Request r may still hand out the refresh token n that it drew.
MintSteps == {"put_access", "put_refresh", "record_redemption", "rotate"}
Minting(r, n) == req[r].next = n /\ req[r].pc \in MintSteps

\* Request r, under strict rotation, may still be answered for n or put the right to it back.
ClaimsToken(r, n) ==
    /\ req[r].cred = n
    /\ \/ req[r].pc \in IssueSteps
       \/ req[r].pc \in {"restore_refresh", "spend_refresh"} /\ req[r].rec.state = "Active"

ActiveRow(n) == refresh[n] # None /\ refresh[n].state = "Active"

\* n has been answered with a successor.
Settled(n) == \E g \in granted : g.from = n /\ (Retryable => g.next # n)

\* The answer that a record of n carries is n itself while n is Active, and what n was answered
\* with once it is Spent.
TokenRecord(n, rec) ==
    rec.retry # None =>
        /\ Retryable
        /\ rec.state = "Active" => rec.retry.refresh_token = n
        /\ rec.state = "Spent" =>
               [client |-> rec.client_id, from |-> n, family |-> rec.family_id,
                access |-> rec.retry.access_token, next |-> rec.retry.refresh_token] \in granted

\* What the policy and the judgement of the record allow a handler at each step.
RetrySteps == {"rotate", "reread", "retry_access", "retry_next"}
Fit(q) ==
    /\ q.pc \in RetrySteps => Retryable /\ HoldsRefresh(q) /\ q.rec.client_id = q.client
    /\ q.pc = "rotate" => q.rec.state = "Active"
    /\ q.pc \in {"reuse_revoke", "reuse_rearm"} => q.rec.state = "Spent"
    /\ q.pc = "spend_refresh" => Strict /\ q.rec.state = "Active"
    /\ q.pc = "restore_refresh" => ~Retryable
    /\ q.pc \in IssueSteps /\ q.cred \in RefreshTokens => ~Retryable

\* Only tokens that some response carried are presented, and answered.
Presented ==
    /\ \A r \in Requests : req[r].cred \in RefreshTokens => req[r].cred \in HeldRefresh
    /\ \A g \in granted : g.from \in RefreshTokens => g.from \in HeldRefresh
    /\ HeldRefresh \subseteq used

UnheldUntilAnswered ==
    \A r \in Requests, n \in RefreshTokens : Minting(r, n) =>
        /\ n \in used /\ n \notin HeldRefresh
        /\ \A s \in Requests : Minting(s, n) => s = r

RecordsRight ==
    /\ \A n \in RefreshTokens : refresh[n] # None => TokenRecord(n, refresh[n])
    /\ \A r \in Requests : HoldsRefresh(req[r]) => TokenRecord(req[r].cred, req[r].rec)

\* The records of one token are of one client.
RecordsAgree ==
    \A r \in Requests : HoldsRefresh(req[r]) =>
        /\ refresh[req[r].cred] # None => refresh[req[r].cred].client_id = req[r].rec.client_id
        /\ \A s \in Requests : HoldsRefresh(req[s]) /\ req[s].cred = req[r].cred
               => req[s].rec.client_id = req[r].rec.client_id

OneTokenClaim ==
    Strict => \A n \in RefreshTokens, r \in Requests : ClaimsToken(r, n) =>
        /\ ~ActiveRow(n) /\ ~Settled(n)
        /\ \A s \in Requests : ClaimsToken(s, n) => s = r

ActiveUnsettled == ~Reuse => \A n \in RefreshTokens : ActiveRow(n) => ~Settled(n)

ReuseHandsBack == Reuse => \A g \in granted : g.from \in RefreshTokens => g.next = g.from

Rotated ==
    /\ Presented /\ UnheldUntilAnswered /\ RecordsRight /\ RecordsAgree
    /\ \A r \in Requests : Fit(req[r])
    /\ OneTokenClaim /\ ActiveUnsettled /\ ReuseHandsBack /\ OneSuccessor

-----------------------------------------------------------------------------
(***************************************************************************)
(* What a step of a request does to the tokens                              *)
(***************************************************************************)
\* Under strict rotation, request r uses up the right to n.
GivesUp(r, n) == Strict /\ ClaimsToken(r, n) /\ ~ClaimsToken(r, n)'

\* ... by putting back the record it took.
PutsBack(r, n) ==
    GivesUp(r, n) /\ req[r].pc = "restore_refresh" /\ refresh'[n] = req[r].rec

\* The record of n is as it was or gone, or r wrote it: over the token it was called with, or
\* under a name that no response has carried.
Wrote(r, n) ==
    \/ refresh'[n] \in {refresh[n], None}
    \/ /\ TokenRecord(n, refresh[n])'
       /\ \/ n \notin HeldRefresh
          \/ n = req[r].cred /\ HoldsRefresh(req[r]) /\ refresh'[n].client_id = req[r].rec.client_id

\* r holds the record it held, or the one it has just read.
Holds(r) ==
    \/ HoldsRefresh(req[r]) /\ req'[r].cred = req[r].cred /\ req'[r].rec = req[r].rec
    \/ /\ req'[r].rec = refresh[req'[r].cred] /\ refresh[req'[r].cred] # None
       /\ req'[r].cred = req[r].cred

\* r hands out the token it drew, or one handed out before.
HandsOut(r, n) == n \in HeldRefresh \/ (Minting(r, n) /\ ~Minting(r, n)')

\* r answers for a token with that token, or as it was answered before, or in its own right.
AnswersFor(r, g) ==
    \/ ~Strict /\ g.next = g.from
    \/ g \in granted
    \/ /\ ~Reuse /\ ~ActiveRow(g.from)'
       /\ GivesUp(r, g.from) \/ (~Strict /\ ActiveRow(g.from))

Answers(r) ==
    \/ UNCHANGED granted
    \/ \E g : /\ granted' = granted \cup {g}
              /\ g.next # None => HandsOut(r, g.next)
              /\ g.from \in RefreshTokens => g.from \in HeldRefresh /\ AnswersFor(r, g)

Moves(r) ==
    /\ UNCHANGED config /\ used \subseteq used'
    /\ \A s \in Requests : s # r => req'[s] = req[s]
    /\ req'[r].cred \in RefreshTokens => req'[r].cred \in HeldRefresh
    /\ HoldsRefresh(req[r])' => Holds(r)
    /\ Fit(req[r])'
    /\ Answers(r)
    /\ \A n \in RefreshTokens :
        /\ Wrote(r, n)
        /\ Minting(r, n)' => Minting(r, n) \/ (n \notin used /\ n \in used')
        /\ Strict /\ ClaimsToken(r, n)' => ClaimsToken(r, n) \/ (ActiveRow(n) /\ ~ActiveRow(n)')
        /\ ActiveRow(n)' => \/ refresh'[n] = refresh[n] \/ n \notin HeldRefresh \/ Reuse
                            \/ PutsBack(r, n)

\* What was said of a record stays true of it.
LEMMA RecordStays ==
    ASSUME UNCHANGED config, granted \subseteq granted', NEW n, NEW rec, TokenRecord(n, rec)
    PROVE  TokenRecord(n, rec)'
BY DEF TokenRecord, Retryable, Reuse

\* The policy is fixed.
LEMMA PolicyStays ==
    ASSUME UNCHANGED config
    PROVE  (Strict' <=> Strict) /\ (Reuse' <=> Reuse) /\ (Retryable' <=> Retryable)
BY DEF Strict, Reuse, Retryable

\* A token is one policy's to judge.
LEMMA Policies == ASSUME Books PROVE ~Reuse => (Strict <=> ~Retryable)
<1>1. config.refresh_retry_window \in RetryWindows
  BY DEF Books, Configurations
<1>2. \A w \in RetryWindows : w = 0 <=> ~(w > 0)
  BY ConfigAssumption
<1> QED BY <1>1, <1>2 DEF Strict, Retryable

\* Such a step keeps the invariant.
LEMMA MovesKeep ==
    ASSUME Typed, Typed', Rotated, NEW r \in Requests, Moves(r)
    PROVE  Rotated'
<1> USE DEF Rotated
<1>1. granted \subseteq granted' /\ UNCHANGED config
  BY DEF Moves, Answers
<1>2. (Strict' <=> Strict) /\ (Reuse' <=> Reuse) /\ (Retryable' <=> Retryable)
  BY <1>1, PolicyStays
<1>3. HeldRefresh \subseteq HeldRefresh'
  BY <1>1 DEF HeldRefresh
<1>4. ASSUME NEW n, n \in HeldRefresh', n \notin HeldRefresh
      PROVE  Minting(r, n) /\ ~Minting(r, n)'
  BY <1>4 DEF Moves, Answers, HandsOut, HeldRefresh
<1>5. HeldRefresh \subseteq RefreshTokens /\ HeldRefresh' \subseteq RefreshTokens
  BY DEF Typed, Books, HeldRefresh, TokenResponse, Option
<1>6. Presented'
  <2>1. \A s \in Requests : req'[s].cred \in RefreshTokens => req'[s].cred \in HeldRefresh'
    BY <1>3 DEF Presented, Moves
  <2>2. \A g \in granted' : g.from \in RefreshTokens => g.from \in HeldRefresh'
    BY <1>3 DEF Presented, Moves, Answers
  <2>3. HeldRefresh' \subseteq used'
    <3> SUFFICES ASSUME NEW n \in HeldRefresh' PROVE n \in used'
      OBVIOUS
    <3>1. n \in HeldRefresh => n \in used
      BY DEF Presented
    <3>2. n \in RefreshTokens /\ Minting(r, n) => n \in used
      BY DEF UnheldUntilAnswered
    <3> QED BY <1>4, <1>5, <3>1, <3>2 DEF Moves
  <2> QED BY <2>1, <2>2, <2>3 DEF Presented
<1>7. UnheldUntilAnswered'
  <2> SUFFICES ASSUME NEW s \in Requests, NEW n \in RefreshTokens, Minting(s, n)'
               PROVE  /\ n \in used' /\ n \notin HeldRefresh'
                      /\ \A t \in Requests : Minting(t, n)' => t = s
    BY DEF UnheldUntilAnswered
  <2>1. ASSUME NEW t \in Requests, t # r, Minting(t, n)' PROVE Minting(t, n)
    BY <2>1 DEF Minting, Moves
  <2>2. Minting(r, n)' => Minting(r, n) \/ (n \notin used /\ n \in used')
    BY DEF Moves
  <2>3. \A t \in Requests : Minting(t, n) =>
            n \in used /\ n \notin HeldRefresh /\ \A u \in Requests : Minting(u, n) => u = t
    BY DEF UnheldUntilAnswered
  <2>4. used \subseteq used' /\ (n \in HeldRefresh => n \in used)
    BY DEF Moves, Presented
  <2>5. n \in used' /\ n \notin HeldRefresh
    BY <2>1, <2>2, <2>3, <2>4
  <2>6. n \notin HeldRefresh'
    BY <1>4, <2>1, <2>3, <2>5
  <2>7. \A t \in Requests : Minting(t, n)' => t = s
    BY <2>1, <2>2, <2>3
  <2> QED BY <2>5, <2>6, <2>7
<1>8. RecordsRight'
  <2>1. ASSUME NEW n \in RefreshTokens, refresh'[n] # None PROVE TokenRecord(n, refresh[n])'
    <3>1. CASE refresh'[n] = refresh[n]
      BY <1>1, <2>1, <3>1, RecordStays DEF RecordsRight
    <3>2. CASE refresh'[n] # refresh[n]
      BY <2>1, <3>2 DEF Moves, Wrote
    <3> QED BY <3>1, <3>2
  <2>2. ASSUME NEW s \in Requests, HoldsRefresh(req[s])' PROVE TokenRecord(req[s].cred, req[s].rec)'
    <3>1. CASE s # r
      <4>1. req'[s] = req[s]
        BY <3>1 DEF Moves
      <4>2. TokenRecord(req[s].cred, req[s].rec)
        BY <2>2, <4>1 DEF RecordsRight, HoldsRefresh
      <4> QED BY <1>1, <4>1, <4>2, RecordStays
    <3>2. CASE s = r
      <4>1. req'[r].cred \in RefreshTokens /\ Holds(r)
        BY <2>2, <3>2 DEF Moves, HoldsRefresh
      <4>2. TokenRecord(req'[r].cred, req'[r].rec)
        BY <4>1 DEF Holds, RecordsRight
      <4>3. TokenRecord(req[r].cred, req[r].rec)'
        BY <1>1, <4>2 DEF TokenRecord, Retryable, Reuse
      <4> QED BY <3>2, <4>3
    <3> QED BY <3>1, <3>2
  <2> QED BY <2>1, <2>2 DEF RecordsRight
<1>9. RecordsAgree'
  <2>1. ASSUME NEW s \in Requests, s # r, HoldsRefresh(req[s])'
        PROVE  HoldsRefresh(req[s]) /\ req'[s] = req[s]
    BY <2>1 DEF Moves, HoldsRefresh
  <2>2. ASSUME NEW s \in Requests, HoldsRefresh(req[s])'
        PROVE  /\ req'[s].cred \in HeldRefresh
               /\ refresh[req'[s].cred] # None
                      => refresh[req'[s].cred].client_id = req'[s].rec.client_id
               /\ \A t \in Requests : HoldsRefresh(req[t]) /\ req[t].cred = req'[s].cred
                      => req[t].rec.client_id = req'[s].rec.client_id
    <3>1. CASE s # r
      BY <2>1, <2>2, <3>1 DEF RecordsAgree, Presented, HoldsRefresh
    <3>2. CASE s = r
      <4>1. Holds(r) /\ req'[r].cred \in HeldRefresh
        BY <2>2, <3>2 DEF Moves, HoldsRefresh
      <4> QED BY <3>2, <4>1 DEF Holds, RecordsAgree
    <3> QED BY <3>1, <3>2
  <2>3. ASSUME NEW s \in Requests, HoldsRefresh(req[s])', refresh'[req'[s].cred] # None
        PROVE  refresh'[req'[s].cred].client_id = req'[s].rec.client_id
    <3> DEFINE n == req'[s].cred
    <3>1. n \in RefreshTokens /\ n \in HeldRefresh
      BY <1>5, <2>2, <2>3
    <3>2. refresh'[n] \in {refresh[n], None}
          \/ (n = req[r].cred /\ HoldsRefresh(req[r]) /\ refresh'[n].client_id = req[r].rec.client_id)
      BY <3>1 DEF Moves, Wrote
    <3> QED BY <2>2, <2>3, <3>2
  <2>4. ASSUME NEW s \in Requests, NEW t \in Requests, HoldsRefresh(req[s])', HoldsRefresh(req[t])',
               req'[t].cred = req'[s].cred
        PROVE  req'[t].rec.client_id = req'[s].rec.client_id
    <3>1. CASE s = t
      BY <3>1
    <3>2. CASE s # r
      BY <2>1, <2>2, <2>4, <3>2
    <3>3. CASE t # r
      BY <2>1, <2>2, <2>4, <3>3
    <3> QED BY <3>1, <3>2, <3>3
  <2> QED BY <2>3, <2>4 DEF RecordsAgree
<1>10. \A s \in Requests : Fit(req[s])'
  <2>1. ASSUME NEW s \in Requests, s # r PROVE Fit(req[s])'
    <3>1. req'[s] = req[s] /\ Fit(req[s])
      BY <2>1 DEF Moves
    <3> QED BY <1>2, <3>1 DEF Fit, HoldsRefresh
  <2> QED BY <2>1 DEF Moves
<1>11. ASSUME NEW n \in RefreshTokens, ~Reuse
       PROVE  /\ Settled(n) => n \in HeldRefresh
              /\ Settled(n)' => \/ Settled(n)
                                \/ /\ ~ActiveRow(n)' /\ n \in HeldRefresh
                                   /\ GivesUp(r, n) \/ (~Strict /\ ActiveRow(n))
  <2>1. Settled(n) => n \in HeldRefresh
    BY DEF Settled, Presented
  <2>2. ASSUME NEW g \in granted', g.from = n, Retryable => g.next # n, ~Settled(n)
        PROVE  /\ ~ActiveRow(n)' /\ n \in HeldRefresh
               /\ GivesUp(r, n) \/ (~Strict /\ ActiveRow(n))
    <3>1. g \notin granted
      BY <2>2 DEF Settled
    <3>2. n \in HeldRefresh /\ AnswersFor(r, g)
      BY <2>2, <3>1 DEF Moves, Answers
    <3>3. ~(~Strict /\ g.next = g.from)
      BY <1>11, <2>2, Policies DEF Typed
    <3> QED BY <2>2, <3>1, <3>2, <3>3 DEF AnswersFor
  <2>3. Settled(n)' => \E g \in granted' : g.from = n /\ (Retryable => g.next # n)
    BY <1>2 DEF Settled
  <2> QED BY <2>1, <2>2, <2>3
<1>12. ASSUME NEW n \in RefreshTokens, NEW s \in Requests, s # r, ClaimsToken(s, n)'
       PROVE  ClaimsToken(s, n)
  BY <1>12 DEF ClaimsToken, Moves
<1>13. ASSUME NEW n \in RefreshTokens, NEW s \in Requests, ClaimsToken(s, n)
       PROVE  n \in HeldRefresh
  BY <1>13 DEF ClaimsToken, Presented
<1>14. OneTokenClaim'
  <2> SUFFICES ASSUME Strict, NEW n \in RefreshTokens, NEW s \in Requests, ClaimsToken(s, n)'
               PROVE  /\ ~ActiveRow(n)' /\ ~Settled(n)'
                      /\ \A t \in Requests : ClaimsToken(t, n)' => t = s
    BY <1>2 DEF OneTokenClaim
  <2>1. ~Reuse
    BY DEF Strict
  <2>2. \A t \in Requests : ClaimsToken(t, n) =>
            /\ ~ActiveRow(n) /\ ~Settled(n)
            /\ \A u \in Requests : ClaimsToken(u, n) => u = t
    BY DEF OneTokenClaim
  <2>3. ActiveRow(n) => ~Settled(n)
    BY <2>1 DEF ActiveUnsettled
  <2>4. /\ ClaimsToken(r, n)' => ClaimsToken(r, n) \/ (ActiveRow(n) /\ ~ActiveRow(n)')
        /\ ActiveRow(n)' => ActiveRow(n) \/ n \notin HeldRefresh \/ GivesUp(r, n)
    BY <2>1 DEF Moves, PutsBack, ActiveRow
  <2>5. GivesUp(r, n) => ClaimsToken(r, n) /\ ~ClaimsToken(r, n)'
    BY DEF GivesUp
  <2>6. CASE ClaimsToken(s, n)
    BY <1>11, <1>12, <1>13, <2>1, <2>2, <2>4, <2>5, <2>6
  <2>7. CASE ~ClaimsToken(s, n)
    BY <1>11, <1>12, <2>1, <2>2, <2>3, <2>4, <2>5, <2>7
  <2> QED BY <2>6, <2>7
<1>15. ActiveUnsettled'
  <2> SUFFICES ASSUME ~Reuse, NEW n \in RefreshTokens, ActiveRow(n)' PROVE ~Settled(n)'
    BY <1>2 DEF ActiveUnsettled
  <2>1. ActiveRow(n) \/ n \notin HeldRefresh \/ (Strict /\ ClaimsToken(r, n))
    BY DEF Moves, PutsBack, GivesUp, ActiveRow
  <2>2. ~Settled(n)
    BY <1>11, <2>1 DEF ActiveUnsettled, OneTokenClaim
  <2> QED BY <1>11, <2>2
<1>16. ReuseHandsBack'
  <2> SUFFICES ASSUME Reuse, NEW g \in granted', g.from \in RefreshTokens PROVE g.next = g.from
    BY <1>2 DEF ReuseHandsBack
  <2>1. g \in granted => g.next = g.from
    BY DEF ReuseHandsBack
  <2> QED BY <2>1 DEF Moves, Answers, AnswersFor
<1>17. OneSuccessor'
  <2>1. CASE Reuse
    BY <1>2, <1>16, <2>1 DEF ReuseHandsBack, OneSuccessor
  <2>2. CASE ~Reuse
    <3>1. ASSUME NEW g \in granted', g \notin granted, g.from \in RefreshTokens, g.next # g.from
          PROVE  ~Settled(g.from) /\ granted' = granted \cup {g}
      <4>1. AnswersFor(r, g) /\ granted' = granted \cup {g}
        BY <3>1 DEF Moves, Answers
      <4>2. (Strict /\ ClaimsToken(r, g.from)) \/ ActiveRow(g.from)
        BY <3>1, <4>1 DEF AnswersFor, GivesUp
      <4> QED BY <2>2, <3>1, <4>1, <4>2 DEF OneTokenClaim, ActiveUnsettled
    <3>2. ASSUME NEW g \in granted, g.from \in RefreshTokens, g.next # g.from
          PROVE  Settled(g.from)
      BY <3>2 DEF Settled
    <3> QED BY <3>1, <3>2 DEF OneSuccessor
  <2> QED BY <2>1, <2>2
<1> QED BY <1>6, <1>7, <1>8, <1>9, <1>10, <1>14, <1>15, <1>16, <1>17

-----------------------------------------------------------------------------
(***************************************************************************)
(* Steps that answer nobody and write no record                             *)
(***************************************************************************)
\* A request that returns asks for nothing more.
LEMMA IdleClaims ==
    ASSUME NEW r \in Requests, req'[r] = Idle
    PROVE  /\ Fit(req[r])' /\ ~HoldsRefresh(req[r])' /\ req'[r].cred \notin RefreshTokens
           /\ \A n \in RefreshTokens : ~Minting(r, n)' /\ ~ClaimsToken(r, n)'
<1>1. Idle.pc = "idle" /\ Idle.cred = None /\ None \notin RefreshTokens
  BY AbsentAssumption DEF Idle
<1>2. req'[r].pc = "idle" /\ req'[r].cred = None /\ req'[r].cred \notin RefreshTokens
  BY <1>1
<1>3. Fit(req[r])'
  BY <1>2 DEF Fit, RetrySteps, IssueSteps
<1>4. \A n \in RefreshTokens : ~Minting(r, n)' /\ ~ClaimsToken(r, n)'
  BY <1>2 DEF Minting, MintSteps, ClaimsToken, IssueSteps
<1> QED BY <1>2, <1>3, <1>4 DEF HoldsRefresh

\* Records may vanish; the request returns, or goes on with what it held or has read.
LEMMA QuietMoves ==
    ASSUME Typed, Rotated, NEW r \in Requests, Continues(r),
           UNCHANGED <<config, granted>>, used \subseteq used',
           \A n \in RefreshTokens : refresh'[n] \in {refresh[n], None},
           \/ req'[r] = Idle
           \/ /\ Fit(req[r])'
              /\ HoldsRefresh(req[r])' => Holds(r)
              /\ \A n \in RefreshTokens :
                  /\ Minting(r, n)' => Minting(r, n) \/ (n \notin used /\ n \in used')
                  /\ Strict /\ ClaimsToken(r, n)'
                         => ClaimsToken(r, n) \/ (ActiveRow(n) /\ ~ActiveRow(n)')
    PROVE  Moves(r)
<1>1. \A n \in RefreshTokens : Wrote(r, n) /\ (ActiveRow(n)' => refresh'[n] = refresh[n])
  BY DEF Wrote, ActiveRow
<1>2. req'[r].cred \in RefreshTokens => req'[r].cred \in HeldRefresh
  BY IdleClaims DEF Continues, Rotated, Presented
<1>3. \A s \in Requests : s # r => req'[s] = req[s]
  BY DEF Continues
<1> QED BY <1>1, <1>2, <1>3, IdleClaims DEF Moves, Answers

\* A request whose records have the types of another grant has no part in the refresh tokens.
LEMMA OtherFit ==
    ASSUME Typed', NEW r \in Requests, req'[r].cred \notin RefreshTokens
    PROVE  /\ Fit(req[r])' /\ ~HoldsRefresh(req[r])'
           /\ \A n \in RefreshTokens : ~ClaimsToken(r, n)'
<1>1. Proper(req[r])'
  BY DEF Typed, Handlers
<1>2. req'[r].pc \notin RefreshSteps \cup LookupSteps
  BY <1>1 DEF Proper, HoldsRefresh
<1>3. Fit(req[r])'
  BY <1>2 DEF Fit, RefreshSteps, LookupSteps, RetrySteps
<1> QED BY <1>3 DEF HoldsRefresh, ClaimsToken

\* Drawing identifiers.
LEMMA Draws ==
    ASSUME Handlers, NEW r \in Requests, NEW q \in Request, NEW chain, BeginIssue(r, q, chain),
           ~Return(r)
    PROVE  /\ req'[r].pc = IF chain # None /\ Retryable THEN "rotate" ELSE "put_access"
           /\ req'[r].cred = q.cred /\ req'[r].rec = q.rec /\ req'[r].client = q.client
           /\ MintsRefresh(chain) => req'[r].next \in RefreshTokens
           /\ \A n \in RefreshTokens : Minting(r, n)' => n \notin used /\ n \in used'
<1> DEFINE pc == IF chain # None /\ Retryable THEN "rotate" ELSE "put_access"
<1>1. PICK a \in AccessTokens \ used, n \in Fresh(RefreshTokens, MintsRefresh(chain)),
           f \in IF chain = None THEN Fresh(FamilyIds, MintsRefresh(chain)) ELSE {chain} :
         /\ req' = [req EXCEPT ![r] = [q EXCEPT !.pc = pc, !.access = a, !.next = n,
                                                !.family = f, !.minted_at = now]]
         /\ used' = used \cup ({a, n, f} \ {None})
  BY DEF BeginIssue
<1> HIDE DEF pc
<1>2. req'[r] = [q EXCEPT !.pc = pc, !.access = a, !.next = n, !.family = f, !.minted_at = now]
  BY <1>1 DEF Handlers
<1>3. /\ req'[r].pc = pc /\ req'[r].cred = q.cred /\ req'[r].rec = q.rec
      /\ req'[r].client = q.client /\ req'[r].next = n
  BY <1>2 DEF Request
<1>4. ASSUME NEW m \in RefreshTokens, m = n PROVE m \notin used /\ m \in used'
  BY <1>1, <1>4, AbsentAssumption DEF Fresh
<1>5. MintsRefresh(chain) => req'[r].next \in RefreshTokens
  BY <1>1, <1>3 DEF Fresh
<1> QED BY <1>3, <1>4, <1>5 DEF Minting, pc

\* A record that is removed.
LEMMA Removed ==
    ASSUME Typed, NEW doomed, refresh' = Without(refresh, doomed)
    PROVE  \A n \in RefreshTokens : refresh'[n] \in {refresh[n], None}
BY WithoutFacts DEF Typed, TypeOK

\* Redeeming and replaying a code up to its answer, and deleting an access token.
LEMMA OtherMoves ==
    ASSUME Typed, Typed', Rotated, NEW r \in Requests, req[r].cred \notin RefreshTokens,
           \/ TakeCode(r) \/ RestoreCode(r) \/ ConsumeCode(r) \/ UndoAccess(r) \/ UndoRefresh(r)
           \/ ReplayLookup(r) \/ ReplayRevoke(r) \/ ReplayDelete(r) \/ ReplayRecord(r)
           \/ UndoIssuance(r) \/ RevokeAccess(r) \/ RevokeDelete(r)
    PROVE  Moves(r)
<1> USE DEF storeVars, deviceMaps, tokenMaps, barriers, history, reports, revocations, CallFails
<1>1. RequestStep(r) /\ Handlers /\ req[r] \in Request /\ Proper(req[r])
  BY DEF RequestStep, Typed, Handlers
<1>2. Continues(r) /\ used \subseteq used'
  BY <1>1, StepContinues, StepFrame
<1>3. UNCHANGED <<config, granted>>
  BY DEF TakeCode, RestoreCode, ConsumeCode, UndoAccess, UndoRefresh, ReplayLookup, ReplayRevoke,
     ReplayDelete, ReplayRecord, UndoIssuance, RevokeAccess, RevokeDelete
<1>4. \A n \in RefreshTokens : refresh'[n] \in {refresh[n], None}
  <2>1. CASE UndoRefresh(r)
    BY <2>1 DEF UndoRefresh, take_refresh_token, Typed, TypeOK
  <2>2. CASE ReplayRevoke(r)
    <3>1. UNCHANGED refresh \/ \E doomed : refresh' = Without(refresh, doomed)
      BY <2>2 DEF ReplayRevoke, RevokeFamily, revoke_token_family
    <3> QED BY <3>1, Removed
  <2>3. CASE ~UndoRefresh(r) /\ ~ReplayRevoke(r)
    BY <2>3 DEF TakeCode, RestoreCode, ConsumeCode, UndoAccess, ReplayLookup, ReplayDelete,
       ReplayRecord, UndoIssuance, RevokeAccess, RevokeDelete, take_authorization_code,
       put_authorization_code, delete_token
  <2> QED BY <2>1, <2>2, <2>3
<1>5. req'[r] = Idle \/ req'[r].cred = req[r].cred
  BY <1>2 DEF Continues
<1>6. req'[r] = Idle
      \/ \A n \in RefreshTokens : Minting(r, n)' => Minting(r, n) \/ (n \notin used /\ n \in used')
  <2>1. CASE Return(r)
    BY <1>1, <2>1, ReturnContinues
  <2>2. CASE ConsumeCode(r) /\ ~Return(r)
    <3>1. BeginIssue(r, req[r], None)
      BY <2>2 DEF ConsumeCode
    <3> QED BY <1>1, <2>2, <3>1, Draws
  <2>3. ASSUME NEW pc \in Steps \ MintSteps, req'[r].pc = pc
        PROVE  \A n \in RefreshTokens : ~Minting(r, n)'
    BY <2>3 DEF Minting
  <2>4. CASE TakeCode(r) /\ ~Return(r)
    <3>1. PICK pc \in {"restore_code", "replay_lookup", "replay_delete", "replay_record",
                       "consume_code"} :
             req' = [req EXCEPT ![r].pc = pc, ![r].rec = codes[req[r].cred]]
      BY <2>4 DEF TakeCode
    <3>2. req'[r].pc = pc
      BY <1>1, <3>1, HeldContinues
    <3> QED BY <2>3, <3>2 DEF MintSteps, Steps
  <2>5. CASE ~Return(r) /\ ~ConsumeCode(r) /\ ~TakeCode(r)
    <3>1. \E pc \in {"undo_refresh", "replay_revoke", "replay_record", "replay_delete",
                     "revoke_delete"} : \E v :
             \/ Goto(r, pc)
             \/ req' = [req EXCEPT ![r].pc = pc, ![r].failed = v]
             \/ req' = [req EXCEPT ![r].failed = v, ![r].pc = pc]
             \/ req' = [req EXCEPT ![r].pc = pc, ![r].family = v]
      <4>1. ASSUME NEW f, AfterFamily(r, f)
            PROVE  \E pc \in {"replay_record", "replay_delete"} :
                       req' = [req EXCEPT ![r].failed = f, ![r].pc = pc]
        BY <4>1 DEF AfterFamily
      <4> QED BY <2>5, <4>1 DEF RestoreCode, UndoAccess, UndoRefresh, ReplayLookup, ReplayRevoke,
              ReplayDelete, ReplayRecord, UndoIssuance, RevokeAccess, RevokeDelete
    <3>2. ASSUME NEW pc, NEW v,
                 \/ Goto(r, pc)
                 \/ req' = [req EXCEPT ![r].pc = pc, ![r].failed = v]
                 \/ req' = [req EXCEPT ![r].failed = v, ![r].pc = pc]
                 \/ req' = [req EXCEPT ![r].pc = pc, ![r].family = v]
          PROVE  req'[r].pc = pc
      BY <1>1, <3>2 DEF Goto, Handlers, Request
    <3>3. \E pc \in {"undo_refresh", "replay_revoke", "replay_record", "replay_delete",
                     "revoke_delete"} : req'[r].pc = pc
      BY <3>1, <3>2
    <3> QED BY <2>3, <3>3 DEF MintSteps, Steps
  <2> QED BY <2>1, <2>2, <2>4, <2>5
<1>7. req'[r] = Idle \/ (/\ Fit(req[r])' /\ ~HoldsRefresh(req[r])'
                         /\ \A n \in RefreshTokens : ~ClaimsToken(r, n)')
  BY <1>5, OtherFit
<1> QED BY <1>2, <1>3, <1>4, <1>6, <1>7, QuietMoves

\* Revoking a refresh token, and undoing an issuance.
LEMMA RevokeMoves ==
    ASSUME Typed, Typed', Rotated, NEW r \in Requests, req[r].cred \in RefreshTokens,
           \/ RevokeLookup(r) \/ RevokeCascade(r) \/ RevokeTake(r) \/ UndoIssuance(r)
           \/ ReuseRevoke(r)
    PROVE  Moves(r)
<1> USE DEF storeVars, deviceMaps, tokenMaps, barriers, history, reports, revocations, CallFails
<1>1. RequestStep(r) /\ Handlers /\ req[r] \in Request /\ Proper(req[r]) /\ Fit(req[r])
  BY DEF RequestStep, Typed, Handlers, Rotated
<1>2. Continues(r) /\ used \subseteq used'
  BY <1>1, StepContinues, StepFrame
<1>3. UNCHANGED <<config, granted>>
  BY DEF RevokeLookup, RevokeCascade, RevokeTake, UndoIssuance, ReuseRevoke
<1>4. \A n \in RefreshTokens : refresh'[n] \in {refresh[n], None}
  <2>1. CASE RevokeTake(r)
    BY <2>1 DEF RevokeTake, take_refresh_token, Typed, TypeOK
  <2>2. CASE RevokeCascade(r) \/ ReuseRevoke(r)
    <3>1. UNCHANGED refresh \/ \E doomed : refresh' = Without(refresh, doomed)
      BY <2>2 DEF RevokeCascade, ReuseRevoke, RevokeFamily, revoke_token_family
    <3> QED BY <3>1, Removed
  <2>3. CASE RevokeLookup(r) \/ UndoIssuance(r)
    BY <2>3 DEF RevokeLookup, UndoIssuance, delete_token
  <2> QED BY <2>1, <2>2, <2>3
<1>5. ASSUME req'[r].pc \in {"revoke_cascade", "revoke_take"}
      PROVE  Fit(req[r])' /\ \A n \in RefreshTokens : ~Minting(r, n)' /\ ~ClaimsToken(r, n)'
  BY <1>5 DEF Fit, RetrySteps, IssueSteps, Minting, MintSteps, ClaimsToken
<1>6. CASE Return(r)
  BY <1>1, <1>2, <1>3, <1>4, <1>6, ReturnContinues, QuietMoves
<1>7. CASE RevokeLookup(r) /\ ~Return(r)
  <2> DEFINE rec == refresh[req[r].cred]
  <2>1. rec # None /\ req' = [req EXCEPT ![r].pc = "revoke_cascade", ![r].rec = rec]
    BY <1>7 DEF RevokeLookup
  <2> HIDE DEF rec
  <2>2. req'[r] = [req[r] EXCEPT !.pc = "revoke_cascade", !.rec = rec]
    BY <1>1, <2>1 DEF Handlers
  <2>3. req'[r].pc = "revoke_cascade" /\ req'[r].rec = rec /\ req'[r].cred = req[r].cred
    BY <1>1, <2>2 DEF Request
  <2>4. Holds(r)
    BY <2>1, <2>3 DEF Holds, rec
  <2> QED BY <1>2, <1>3, <1>4, <1>5, <2>3, <2>4, QuietMoves
<1>8. CASE RevokeCascade(r)
  <2>1. HoldsRefresh(req[r])
    BY <1>1, <1>8 DEF RevokeCascade, Proper, RefreshSteps
  <2>2. req'[r] = [req[r] EXCEPT !.pc = "revoke_take"]
        \/ req'[r] = [req[r] EXCEPT !.pc = "revoke_take", !.failed = TRUE]
    BY <1>1, <1>8 DEF RevokeCascade, Goto, Handlers
  <2>3. req'[r].pc = "revoke_take" /\ req'[r].rec = req[r].rec /\ req'[r].cred = req[r].cred
    BY <1>1, <2>2 DEF Request
  <2>4. Holds(r)
    BY <2>1, <2>3 DEF Holds
  <2> QED BY <1>2, <1>3, <1>4, <1>5, <2>3, <2>4, QuietMoves
<1>9. CASE ReuseRevoke(r) /\ ~Return(r)
  <2>1. HoldsRefresh(req[r]) /\ req[r].rec.state = "Spent"
    BY <1>1, <1>9 DEF ReuseRevoke, Proper, RefreshSteps, Fit
  <2>2. req'[r] = [req[r] EXCEPT !.pc = "reuse_rearm"]
    BY <1>1, <1>9 DEF ReuseRevoke, Goto, Handlers
  <2>3. req'[r].pc = "reuse_rearm" /\ req'[r].rec = req[r].rec /\ req'[r].cred = req[r].cred
    BY <1>1, <2>2 DEF Request
  <2>4. Holds(r)
    BY <2>1, <2>3 DEF Holds
  <2>5. Fit(req[r])' /\ \A n \in RefreshTokens : ~Minting(r, n)' /\ ~ClaimsToken(r, n)'
    BY <2>1, <2>3 DEF Fit, RetrySteps, IssueSteps, Minting, MintSteps, ClaimsToken
  <2> QED BY <1>2, <1>3, <1>4, <2>4, <2>5, QuietMoves
<1>10. Return(r) \/ RevokeLookup(r) \/ RevokeCascade(r) \/ ReuseRevoke(r)
  BY DEF RevokeTake, UndoIssuance
<1> QED BY <1>6, <1>7, <1>8, <1>9, <1>10

-----------------------------------------------------------------------------
(***************************************************************************)
(* Steps that read and write the presented token                            *)
(***************************************************************************)
\* The presented token is read, or under strict rotation taken, and its record judged.
LEMMA ReadMoves ==
    ASSUME Typed, Typed', Rotated, NEW r \in Requests, ReadRefresh(r)
    PROVE  Moves(r)
<1> USE DEF storeVars, deviceMaps, tokenMaps, barriers, history, reports, revocations
<1> DEFINE q == req[r]
           rec == refresh[q.cred]
<1>1. RequestStep(r) /\ Handlers /\ q \in Request /\ Proper(q) /\ q.pc = "read_refresh"
  BY DEF RequestStep, Typed, Handlers, ReadRefresh
<1>2. Continues(r) /\ used \subseteq used'
  BY <1>1, StepContinues, StepFrame
<1>3. UNCHANGED <<config, granted>>
  BY DEF ReadRefresh
<1>4. q.cred \in RefreshTokens /\ q.client \in ClientIds
  BY <1>1 DEF Proper, LookupSteps
<1>5. /\ \A n \in RefreshTokens : refresh'[n] \in {refresh[n], None}
      /\ Strict => refresh'[q.cred] = None
  BY <1>4 DEF ReadRefresh, take_refresh_token, Typed, TypeOK
<1>6. rec # None => rec \in RefreshTokenRecord(Nat) /\ rec.state \in {"Active", "Spent"}
                    /\ rec.family_id # None
  BY <1>4, AbsentAssumption DEF Typed, TypeOK, Option, RefreshTokenRecord
<1>7. CASE Return(r)
  BY <1>1, <1>2, <1>3, <1>5, <1>7, ReturnContinues, QuietMoves
<1>8. ASSUME NEW pc, req' = [req EXCEPT ![r].pc = pc, ![r].rec = rec], rec # None,
             \/ pc = "restore_refresh" /\ ~Retryable
             \/ pc = "retry_access" /\ Retryable /\ rec.client_id = q.client
             \/ pc = "reuse_revoke" /\ rec.state = "Spent"
             \/ pc = "spend_refresh" /\ Strict /\ rec.state = "Active"
      PROVE  Moves(r)
  <2> HIDE DEF rec
  <2>1. req'[r] = [q EXCEPT !.pc = pc, !.rec = rec]
    BY <1>1, <1>8 DEF Handlers
  <2>2. req'[r].pc = pc /\ req'[r].rec = rec /\ req'[r].cred = q.cred /\ req'[r].client = q.client
    BY <1>1, <2>1 DEF Request
  <2>3. Holds(r)
    BY <1>8, <2>2 DEF Holds, rec
  <2>4. Fit(req[r])'
    BY <1>3, <1>4, <1>6, <1>8, <2>2, PolicyStays DEF Fit, RetrySteps, IssueSteps, HoldsRefresh
  <2>5. \A n \in RefreshTokens : ~Minting(r, n)'
    BY <1>8, <2>2 DEF Minting, MintSteps
  <2>6. ASSUME NEW n \in RefreshTokens, Strict, ClaimsToken(r, n)'
        PROVE  ActiveRow(n) /\ ~ActiveRow(n)'
    <3>1. n = q.cred /\ rec.state = "Active"
      BY <1>8, <2>2, <2>6 DEF ClaimsToken, IssueSteps
    <3> QED BY <1>5, <1>8, <2>6, <3>1 DEF ActiveRow, rec
  <2> QED BY <1>2, <1>3, <1>5, <2>3, <2>4, <2>5, <2>6, QuietMoves
<1>9. ASSUME rec # None, rec.client_id = q.client, Reuse \/ rec.state = "Active", ~Strict,
             BeginIssue(r, [q EXCEPT !.rec = rec], rec.family_id), ~Return(r)
      PROVE  Moves(r)
  <2> DEFINE q2 == [q EXCEPT !.rec = rec]
  <2>1. q2 \in Request /\ q2.cred = q.cred /\ q2.rec = rec /\ q2.client = q.client
    <3> HIDE DEF rec
    <3> QED BY <1>1, <1>6, <1>9 DEF Request, Option
  <2>2. BeginIssue(r, q2, rec.family_id)
    BY <1>9
  <2> HIDE DEF q2, rec
  <2>3. /\ req'[r].pc = IF rec.family_id # None /\ Retryable THEN "rotate" ELSE "put_access"
        /\ req'[r].cred = q.cred /\ req'[r].rec = rec /\ req'[r].client = q.client
        /\ \A n \in RefreshTokens : Minting(r, n)' => n \notin used /\ n \in used'
    BY <1>1, <1>9, <2>1, <2>2, Draws
  <2>4. Holds(r)
    BY <1>9, <2>3 DEF Holds, rec
  <2>5. Retryable => ~Reuse
    BY DEF Retryable
  <2>6. Fit(req[r])'
    BY <1>3, <1>4, <1>6, <1>9, <2>3, <2>5, PolicyStays DEF Fit, RetrySteps, IssueSteps, HoldsRefresh
  <2> QED BY <1>2, <1>3, <1>5, <1>9, <2>3, <2>4, <2>6, QuietMoves
<1>10. \/ Return(r)
       \/ /\ rec # None
          /\ \E pc : /\ req' = [req EXCEPT ![r].pc = pc, ![r].rec = rec]
                     /\ \/ pc = "restore_refresh" /\ ~Retryable
                        \/ pc = "retry_access" /\ Retryable /\ rec.client_id = q.client
                        \/ pc = "reuse_revoke" /\ rec.state = "Spent"
                        \/ pc = "spend_refresh" /\ Strict /\ rec.state = "Active"
       \/ /\ rec # None /\ rec.client_id = q.client /\ (Reuse \/ rec.state = "Active") /\ ~Strict
          /\ BeginIssue(r, [q EXCEPT !.rec = rec], rec.family_id)
  <2>1. ASSUME GiveBack(r, rec)
        PROVE  Return(r) \/ (~Retryable /\ req' = [req EXCEPT ![r].pc = "restore_refresh",
                                                              ![r].rec = rec])
    BY <2>1 DEF GiveBack, Retryable
  <2>2. \/ rec = None /\ Return(r)
        \/ rec # None /\ GiveBack(r, rec)
        \/ rec # None /\ Return(r)
        \/ /\ rec # None /\ Retryable /\ rec.client_id = q.client
           /\ req' = [req EXCEPT ![r].pc = "retry_access", ![r].rec = rec]
        \/ /\ rec # None /\ rec.state = "Spent"
           /\ req' = [req EXCEPT ![r].pc = "reuse_revoke", ![r].rec = rec]
        \/ /\ rec # None /\ Strict /\ ~(~Reuse /\ rec.state = "Spent")
           /\ req' = [req EXCEPT ![r].pc = "spend_refresh", ![r].rec = rec]
        \/ /\ rec # None /\ rec.client_id = q.client /\ ~(~Reuse /\ rec.state = "Spent") /\ ~Strict
           /\ BeginIssue(r, [q EXCEPT !.rec = rec], rec.family_id)
    BY DEF ReadRefresh
  <2>3. Strict => ~Reuse
    BY DEF Strict
  <2> HIDE DEF rec
  <2> QED BY <1>6, <2>1, <2>2, <2>3
<1> HIDE DEF rec
<1> QED BY <1>7, <1>8, <1>9, <1>10

\* The record goes back as it was taken.
LEMMA PutBackMoves ==
    ASSUME Typed, Typed', Rotated, NEW r \in Requests, RestoreRefresh(r) \/ ReuseRearm(r)
    PROVE  Moves(r)
<1> USE DEF storeVars, deviceMaps, tokenMaps, barriers, history, reports, revocations
<1> DEFINE q == req[r]
<1>1. Handlers /\ Proper(q) /\ Fit(q) /\ q.pc \in {"restore_refresh", "reuse_rearm"}
  BY DEF Typed, Handlers, Rotated, RestoreRefresh, ReuseRearm
<1>2. /\ UNCHANGED <<config, granted, used>> /\ Return(r) /\ put_refresh_token(q.cred, q.rec)
  BY DEF RestoreRefresh, ReuseRearm
<1>3. HoldsRefresh(q) /\ q.rec.state \in {"Active", "Spent"}
  BY <1>1 DEF Proper, RefreshSteps, HoldsRefresh, RefreshTokenRecord
<1>4. /\ \A n \in RefreshTokens : n # q.cred => refresh'[n] = refresh[n]
      /\ refresh'[q.cred] \in {refresh[q.cred], q.rec}
  BY <1>2, <1>3 DEF put_refresh_token, HoldsRefresh, Typed, TypeOK
<1>5. req'[r] = Idle /\ \A s \in Requests : s # r => req'[s] = req[s]
  BY <1>1, <1>2, ReturnContinues DEF Continues
<1>6. TokenRecord(q.cred, q.rec)
  BY <1>3 DEF Rotated, RecordsRight
<1>7. ASSUME NEW n \in RefreshTokens PROVE Wrote(r, n)
  <2>1. CASE refresh'[n] = refresh[n]
    BY <2>1 DEF Wrote
  <2>2. CASE refresh'[n] # refresh[n]
    <3>1. n = q.cred /\ refresh'[q.cred] = q.rec
      BY <1>4, <2>2
    <3>2. TokenRecord(n, refresh[n])'
      BY <1>2, <1>6, <3>1 DEF TokenRecord, Retryable, Reuse
    <3> QED BY <1>3, <3>1, <3>2 DEF Wrote
  <2> QED BY <2>1, <2>2
<1>8. ASSUME NEW n \in RefreshTokens, ActiveRow(n)', refresh'[n] # refresh[n], ~Reuse
      PROVE  PutsBack(r, n)
  <2>1. n = q.cred /\ refresh'[n] = q.rec /\ q.rec.state = "Active"
    BY <1>4, <1>8 DEF ActiveRow
  <2>2. q.pc = "restore_refresh" /\ ~Retryable
    BY <1>1, <2>1 DEF Fit
  <2>3. Strict
    BY <1>8, <2>2, Policies DEF Typed
  <2>4. ClaimsToken(r, n) /\ ~ClaimsToken(r, n)'
    BY <1>5, <2>1, <2>2, IdleClaims DEF ClaimsToken
  <2> QED BY <2>1, <2>2, <2>3, <2>4 DEF GivesUp, PutsBack
<1> QED BY <1>2, <1>5, <1>7, <1>8, IdleClaims DEF Moves, Answers

\* Under strict rotation the Spent record goes back before anything is issued.
LEMMA SpendMoves ==
    ASSUME Typed, Typed', Rotated, NEW r \in Requests, SpendRefresh(r)
    PROVE  Moves(r)
<1> USE DEF storeVars, deviceMaps, tokenMaps, barriers, history, reports, revocations
<1> DEFINE q == req[r]
           spent == Spend(q.rec, now)
<1>1. /\ RequestStep(r) /\ Handlers /\ q \in Request /\ Proper(q) /\ Fit(q)
      /\ q.pc = "spend_refresh"
  BY DEF RequestStep, Typed, Handlers, Rotated, SpendRefresh
<1>2. Continues(r) /\ used \subseteq used' /\ UNCHANGED <<config, granted>>
  BY <1>1, StepContinues, StepFrame DEF SpendRefresh
<1>3. /\ HoldsRefresh(q) /\ Strict /\ ~Retryable /\ q.rec.state = "Active"
      /\ q.rec.family_id # None
  BY <1>1, AbsentAssumption DEF Proper, RefreshSteps, Fit, HoldsRefresh, RefreshTokenRecord, Strict,
     Retryable
<1>4. /\ spent.state = "Spent" /\ spent.retry = q.rec.retry /\ spent.client_id = q.rec.client_id
  BY <1>3 DEF HoldsRefresh, RefreshTokenRecord, Spend
<1>5. q.rec.retry = None
  BY <1>3 DEF Rotated, RecordsRight, TokenRecord
<1>6. put_refresh_token(q.cred, spent) /\ (Return(r) \/ BeginIssue(r, q, q.rec.family_id))
  BY DEF SpendRefresh
<1>7. /\ \A n \in RefreshTokens : n # q.cred => refresh'[n] = refresh[n]
      /\ refresh'[q.cred] \in {refresh[q.cred], spent}
  BY <1>3, <1>6 DEF put_refresh_token, HoldsRefresh, Typed, TypeOK
<1> HIDE DEF spent
<1>8. ASSUME NEW n \in RefreshTokens PROVE Wrote(r, n) /\ (ActiveRow(n)' => refresh'[n] = refresh[n])
  <2>1. CASE refresh'[n] = refresh[n]
    BY <2>1 DEF Wrote, ActiveRow
  <2>2. CASE refresh'[n] # refresh[n]
    <3>1. n = q.cred /\ refresh'[n] = spent
      BY <1>7, <2>2
    <3>2. TokenRecord(n, refresh[n])'
      BY <1>4, <1>5, <3>1 DEF TokenRecord
    <3> QED BY <1>3, <1>4, <3>1, <3>2 DEF Wrote, ActiveRow
  <2> QED BY <2>1, <2>2
<1>9. req'[r].cred \in RefreshTokens => req'[r].cred \in HeldRefresh
  BY <1>2, IdleClaims DEF Continues, Rotated, Presented
<1>10. \A s \in Requests : s # r => req'[s] = req[s]
  BY <1>2 DEF Continues
<1>11. CASE Return(r)
  <2>1. req'[r] = Idle
    BY <1>1, <1>11, ReturnContinues
  <2> QED BY <1>2, <1>8, <1>10, <2>1, IdleClaims DEF Moves, Answers
<1>12. CASE ~Return(r)
  <2>1. /\ req'[r].pc = "put_access" /\ req'[r].cred = q.cred /\ req'[r].rec = q.rec
        /\ \A n \in RefreshTokens : Minting(r, n)' => n \notin used /\ n \in used'
    BY <1>1, <1>3, <1>6, <1>12, Draws
  <2>2. Holds(r)
    BY <1>3, <2>1 DEF Holds
  <2>3. Fit(req[r])'
    BY <1>2, <1>3, <2>1, PolicyStays DEF Fit, RetrySteps
  <2>4. ASSUME NEW n \in RefreshTokens, ClaimsToken(r, n)' PROVE ClaimsToken(r, n)
    BY <1>1, <1>3, <2>1, <2>4 DEF ClaimsToken
  <2> QED BY <1>2, <1>8, <1>9, <1>10, <2>1, <2>2, <2>3, <2>4 DEF Moves, Answers
<1> QED BY <1>11, <1>12

-----------------------------------------------------------------------------
(***************************************************************************)
(* Steps that answer                                                        *)
(***************************************************************************)
\* An answer ends its request.
LEMMA GrantFacts ==
    ASSUME Handlers, NEW r \in Requests, NEW f, NEW a, NEW n, Grant(r, f, a, n)
    PROVE  /\ req'[r] = Idle /\ \A s \in Requests : s # r => req'[s] = req[s]
           /\ \E g : /\ granted' = granted \cup {g}
                     /\ g = [client |-> req[r].client, from |-> req[r].cred, family |-> f,
                             access |-> a, next |-> n]
                     /\ g.next = n /\ g.from = req[r].cred
<1> DEFINE g == [client |-> req[r].client, from |-> req[r].cred, family |-> f, access |-> a,
                 next |-> n]
<1>1. granted' = granted \cup {g} /\ g.next = n /\ g.from = req[r].cred
  BY DEF Grant
<1>2. req'[r] = Idle /\ \A s \in Requests : s # r => req'[s] = req[s]
  BY ReturnContinues DEF Grant, Continues
<1> QED BY <1>1, <1>2

\* The writes of `issue`.
LEMMA IssueMoves ==
    ASSUME Typed, Typed', Rotated, NEW r \in Requests, PutAccess(r) \/ PutRefresh(r)
    PROVE  Moves(r)
<1> USE DEF storeVars, deviceMaps, tokenMaps, barriers, history, reports, revocations
<1> DEFINE q == req[r]
<1>1. /\ RequestStep(r) /\ Handlers /\ q \in Request /\ Proper(q) /\ Fit(q)
      /\ q.pc \in {"put_access", "put_refresh"}
  BY DEF RequestStep, Typed, Handlers, Rotated, PutAccess, PutRefresh
<1>2. Continues(r) /\ UNCHANGED <<config, used>>
  BY <1>1, StepContinues DEF PutAccess, PutRefresh
<1>3. /\ Mints(q) /\ (q.pc = "put_refresh" => q.next # None)
      /\ q.pc \in IssueSteps /\ q.pc \in MintSteps
  BY <1>1 DEF Proper, IssueSteps, MintSteps
<1>4. ASSUME q.next # None
      PROVE  q.next \in RefreshTokens /\ Minting(r, q.next) /\ q.next \notin HeldRefresh
  BY <1>3, <1>4 DEF Mints, Minting, Rotated, UnheldUntilAnswered
<1>5. \A n \in RefreshTokens :
          refresh'[n] = refresh[n] \/ (n = q.next /\ refresh'[n] = NextRecord(q))
  <2>1. CASE PutAccess(r)
    BY <2>1 DEF PutAccess, put_token
  <2>2. CASE PutRefresh(r)
    <3>1. q.next \in RefreshTokens /\ put_refresh_token(q.next, NextRecord(q))
      BY <1>3, <1>4, <2>2 DEF PutRefresh
    <3>2. refresh' = refresh \/ refresh' = [refresh EXCEPT ![q.next] = NextRecord(q)]
      BY <3>1 DEF put_refresh_token
    <3> QED BY <3>1, <3>2 DEF Typed, TypeOK
  <2> QED BY <2>1, <2>2
<1>6. NextRecord(q).retry = None
  BY DEF NextRecord
<1>7. ASSUME NEW n \in RefreshTokens
      PROVE  Wrote(r, n) /\ (ActiveRow(n)' => refresh'[n] = refresh[n] \/ n \notin HeldRefresh)
  <2>1. CASE refresh'[n] = refresh[n]
    BY <2>1 DEF Wrote, ActiveRow
  <2>2. CASE refresh'[n] # refresh[n]
    <3>1. n = q.next /\ refresh'[n].retry = None
      BY <1>5, <1>6, <2>2
    <3>2. n \notin HeldRefresh
      BY <1>4, <3>1, AbsentAssumption
    <3> QED BY <3>1, <3>2 DEF Wrote, TokenRecord
  <2> QED BY <2>1, <2>2
<1>8. \A s \in Requests : s # r => req'[s] = req[s]
  BY <1>2 DEF Continues
<1>9. req'[r].cred \in RefreshTokens => req'[r].cred \in HeldRefresh
  BY <1>2, IdleClaims DEF Continues, Rotated, Presented
<1>10. CASE Return(r) /\ UNCHANGED granted
  <2>1. req'[r] = Idle
    BY <1>1, <1>10, ReturnContinues
  <2> QED BY <1>2, <1>7, <1>8, <1>10, <2>1, IdleClaims DEF Moves, Answers
<1>11. ASSUME NEW pc \in {"put_refresh", "undo_issuance", "record_redemption"}, Goto(r, pc),
              pc = "record_redemption" => q.cred \in AuthCodes, UNCHANGED granted
       PROVE  Moves(r)
  <2>1. req'[r] = [q EXCEPT !.pc = pc]
    BY <1>1, <1>11, GotoContinues
  <2>2. /\ req'[r].pc = pc /\ req'[r].cred = q.cred /\ req'[r].rec = q.rec
        /\ req'[r].client = q.client /\ req'[r].next = q.next
    BY <1>1, <2>1 DEF Request
  <2>3. HoldsRefresh(req[r])' => Holds(r)
    BY <2>2 DEF Holds, HoldsRefresh
  <2>4. Fit(req[r])'
    BY <1>1, <1>2, <1>3, <1>11, <2>2, PolicyStays DEF Fit, RetrySteps, IssueSteps
  <2>5. ASSUME NEW n \in RefreshTokens
        PROVE  /\ Minting(r, n)' => Minting(r, n)
               /\ ClaimsToken(r, n)' => ClaimsToken(r, n)
    <3>1. Minting(r, n)' => Minting(r, n)
      BY <1>3, <2>2 DEF Minting
    <3>2. ClaimsToken(r, n)' => req'[r].cred = n
      BY DEF ClaimsToken
    <3> QED BY <1>3, <2>2, <3>1, <3>2 DEF ClaimsToken
  <2> QED BY <1>2, <1>7, <1>8, <1>9, <1>11, <2>3, <2>4, <2>5 DEF Moves, Answers
<1>12. ASSUME NEW n, Grant(r, q.family, q.access, n),
              n = IF q.cred \in RefreshTokens /\ Reuse THEN q.cred ELSE q.next
       PROVE  Moves(r)
  <2>1. /\ req'[r] = Idle
        /\ \E g : granted' = granted \cup {g} /\ g.next = n /\ g.from = q.cred
    BY <1>1, <1>12, GrantFacts
  <2>2. n # None => HandsOut(r, n)
    <3>1. CASE q.cred \in RefreshTokens /\ Reuse
      BY <1>12, <3>1 DEF HandsOut, Rotated, Presented
    <3>2. CASE ~(q.cred \in RefreshTokens /\ Reuse)
      BY <1>4, <1>12, <2>1, <3>2, IdleClaims DEF HandsOut
    <3> QED BY <3>1, <3>2
  <2>3. ASSUME NEW x \in RefreshTokens, x = q.cred, ~Reuse
        PROVE  GivesUp(r, x) /\ ~ActiveRow(x)'
    <3>1. Strict
      BY <1>1, <1>3, <2>3, Policies DEF Fit, Typed
    <3>2. ClaimsToken(r, x) /\ ~ClaimsToken(r, x)'
      BY <1>3, <2>1, <2>3, IdleClaims DEF ClaimsToken
    <3>3. ~ActiveRow(x)
      BY <2>3, <3>1, <3>2 DEF Rotated, OneTokenClaim
    <3>4. x \in HeldRefresh
      BY <2>3 DEF Rotated, Presented
    <3>5. refresh'[x] = refresh[x]
      BY <1>4, <1>5, <2>3, <3>4, AbsentAssumption
    <3> QED BY <3>1, <3>2, <3>3, <3>5 DEF GivesUp, ActiveRow
  <2>4. q.cred \in RefreshTokens => q.cred \in HeldRefresh /\ (Reuse => n = q.cred /\ ~Strict)
    BY <1>12 DEF Rotated, Presented, Strict
  <2>5. Answers(r)
    BY <2>1, <2>2, <2>3, <2>4 DEF Answers, AnswersFor
  <2> QED BY <1>2, <1>7, <1>8, <2>1, <2>5, IdleClaims DEF Moves
<1>13. ASSUME Issued(r) PROVE Moves(r)
  BY <1>11, <1>12, <1>13 DEF Issued
<1> QED BY <1>10, <1>11, <1>13 DEF PutAccess, PutRefresh

\* The answer for a code.
LEMMA RedemptionMoves ==
    ASSUME Typed, Typed', Rotated, NEW r \in Requests, RecordRedemption(r)
    PROVE  Moves(r)
<1> USE DEF storeVars, deviceMaps, tokenMaps, barriers, history, reports, revocations, CallFails
<1> DEFINE q == req[r]
<1>1. /\ RequestStep(r) /\ Handlers /\ q \in Request /\ Proper(q) /\ q.pc = "record_redemption"
  BY DEF RequestStep, Typed, Handlers, RecordRedemption
<1>2. Continues(r) /\ UNCHANGED <<config, used>>
  BY <1>1, StepContinues DEF RecordRedemption
<1>3. Mints(q) /\ q.cred \notin RefreshTokens
  BY <1>1, IdentifierAssumption DEF Proper, CloseSteps, HoldsCode
<1>4. UNCHANGED refresh
  BY DEF RecordRedemption, compare_and_swap_authorization_code
<1>5. CASE Goto(r, "undo_access") /\ UNCHANGED granted
  <2>1. req'[r] = [q EXCEPT !.pc = "undo_access"]
    BY <1>1, <1>5, GotoContinues
  <2>2. req'[r].pc = "undo_access" /\ req'[r].cred = q.cred
    BY <1>1, <2>1 DEF Request
  <2>3. \A n \in RefreshTokens : ~Minting(r, n)'
    BY <2>2 DEF Minting, MintSteps
  <2>4. /\ Fit(req[r])' /\ ~HoldsRefresh(req[r])'
        /\ \A n \in RefreshTokens : ~ClaimsToken(r, n)'
    BY <1>3, <2>2, OtherFit
  <2> QED BY <1>2, <1>4, <1>5, <2>3, <2>4, QuietMoves
<1>6. CASE Grant(r, q.family, q.access, q.next)
  <2>1. /\ req'[r] = Idle /\ \A s \in Requests : s # r => req'[s] = req[s]
        /\ \E g : granted' = granted \cup {g} /\ g.next = q.next /\ g.from = q.cred
    BY <1>1, <1>6, GrantFacts
  <2>2. q.next # None => q.next \in RefreshTokens /\ Minting(r, q.next)
    BY <1>1, <1>3 DEF Mints, Minting, MintSteps
  <2>3. Answers(r)
    BY <1>3, <2>1, <2>2, IdleClaims DEF Answers, HandsOut
  <2> QED BY <1>2, <1>4, <2>1, <2>3, IdleClaims DEF Moves, Wrote, ActiveRow
<1> QED BY <1>5, <1>6 DEF RecordRedemption

\* The compare-and-swap of retryable rotation.
LEMMA CommitMoves ==
    ASSUME Typed, Typed', Rotated, NEW r \in Requests, CommitRotation(r)
    PROVE  Moves(r)
<1> USE DEF storeVars, deviceMaps, tokenMaps, barriers, history, reports, revocations
<1> DEFINE q == req[r]
           spent == [Spend(q.rec, q.minted_at) EXCEPT !.retry = RetryAnswer(q)]
           next == [NextRecord(q) EXCEPT !.retry = RetryAnswer(q)]
<1>1. /\ RequestStep(r) /\ Handlers /\ q \in Request /\ Proper(q) /\ Fit(q) /\ q.pc = "rotate"
  BY DEF RequestStep, Typed, Handlers, Rotated, CommitRotation
<1>2. Continues(r) /\ UNCHANGED <<config, used>>
  BY <1>1, StepContinues DEF CommitRotation
<1>3. /\ HoldsRefresh(q) /\ Mints(q) /\ q.family = q.rec.family_id /\ Retryable
      /\ q.rec.state = "Active" /\ q.rec.client_id = q.client
  BY <1>1 DEF Proper, RefreshSteps, Fit, RetrySteps
<1>4. q.cred \in HeldRefresh
  BY <1>3 DEF HoldsRefresh, Rotated, Presented
<1>5. CASE ~Rotates(q.cred, q.rec)
  <2>1. UNCHANGED <<refresh, granted>> /\ Goto(r, "reread")
    BY <1>5 DEF CommitRotation, rotate_refresh_token
  <2>2. req'[r] = [q EXCEPT !.pc = "reread"]
    BY <1>1, <2>1, GotoContinues
  <2>3. /\ req'[r].pc = "reread" /\ req'[r].cred = q.cred /\ req'[r].rec = q.rec
        /\ req'[r].client = q.client
    BY <1>1, <2>2 DEF Request
  <2>4. Holds(r)
    BY <1>3, <2>3 DEF Holds
  <2>5. Fit(req[r])'
    BY <1>2, <1>3, <2>3, PolicyStays DEF Fit, RetrySteps, IssueSteps, HoldsRefresh
  <2>6. \A n \in RefreshTokens : ~Minting(r, n)' /\ ~ClaimsToken(r, n)'
    BY <2>3 DEF Minting, MintSteps, ClaimsToken, IssueSteps
  <2> QED BY <1>2, <2>1, <2>4, <2>5, <2>6, QuietMoves
<1>6. CASE Rotates(q.cred, q.rec)
  <2>1. /\ refresh' = [k \in RefreshTokens |-> IF k = q.next THEN next
                                               ELSE IF k = q.cred THEN spent ELSE refresh[k]]
        /\ Grant(r, q.family, q.access, q.next)
    BY <1>6 DEF CommitRotation, rotate_refresh_token
  <2>2. ActiveRow(q.cred)
    BY <1>3, <1>6 DEF Rotates, ActiveRow
  <2>3. /\ spent.state = "Spent" /\ spent.client_id = q.rec.client_id
        /\ spent.family_id = q.rec.family_id /\ spent.retry = RetryAnswer(q)
    BY <1>3 DEF HoldsRefresh, RefreshTokenRecord, Spend
  <2>4. next.state = "Active" /\ next.retry = RetryAnswer(q)
    BY DEF NextRecord
  <2>5. RetryAnswer(q).access_token = q.access /\ RetryAnswer(q).refresh_token = q.next
    BY DEF RetryAnswer
  <2> HIDE DEF spent, next
  <2>6. q.next # None =>
            q.next \in RefreshTokens /\ Minting(r, q.next) /\ q.next \notin HeldRefresh
    BY <1>1, <1>3 DEF Mints, Minting, MintSteps, Rotated, UnheldUntilAnswered
  <2>7. q.next # q.cred
    BY <1>3, <1>4, <2>6, AbsentAssumption DEF HoldsRefresh
  <2>8. PICK g : /\ granted' = granted \cup {g}
                 /\ g = [client |-> q.client, from |-> q.cred, family |-> q.family,
                         access |-> q.access, next |-> q.next]
                 /\ g.next = q.next /\ g.from = q.cred
    BY <1>1, <2>1, GrantFacts
  <2>9. req'[r] = Idle /\ \A s \in Requests : s # r => req'[s] = req[s]
    BY <1>1, <2>1, GrantFacts
  <2>10. Retryable'
    BY <1>2, <1>3, PolicyStays
  <2>11. PICK x \in RefreshTokens : x = q.cred
    BY <1>3 DEF HoldsRefresh
  <2>12. refresh'[x] = spent /\ ~ActiveRow(x)' /\ TokenRecord(x, refresh[x])'
    <3>1. refresh'[x] = spent
      BY <2>1, <2>7, <2>11
    <3>2. /\ refresh'[x].state = "Spent" /\ refresh'[x].client_id = q.client
          /\ refresh'[x].family_id = q.family /\ refresh'[x].retry.access_token = q.access
          /\ refresh'[x].retry.refresh_token = q.next
      BY <1>3, <2>3, <2>5, <3>1
    <3>3. TokenRecord(x, refresh[x])'
      BY <2>8, <2>10, <2>11, <3>2 DEF TokenRecord
    <3> QED BY <3>1, <3>2, <3>3 DEF ActiveRow
  <2>13. ASSUME NEW n \in RefreshTokens
         PROVE  Wrote(r, n) /\ (ActiveRow(n)' => refresh'[n] = refresh[n] \/ n \notin HeldRefresh)
    <3>1. CASE n = q.cred
      BY <1>3, <2>3, <2>11, <2>12, <3>1 DEF Wrote
    <3>2. CASE n = q.next
      <4>1. refresh'[n] = next
        BY <2>1, <3>2
      <4>2. TokenRecord(n, refresh[n])'
        BY <2>4, <2>5, <2>10, <3>2, <4>1 DEF TokenRecord
      <4> QED BY <2>6, <3>2, <4>2, AbsentAssumption DEF Wrote
    <3>3. CASE n # q.cred /\ n # q.next
      BY <2>1, <3>3 DEF Wrote, ActiveRow
    <3> QED BY <3>1, <3>2, <3>3
  <2>14. Answers(r)
    <3>1. ~Reuse /\ ~Strict
      BY <1>3 DEF Retryable, Strict
    <3> QED BY <1>4, <2>2, <2>6, <2>8, <2>9, <2>11, <2>12, <3>1, IdleClaims DEF Answers,
            AnswersFor, HandsOut
  <2> QED BY <1>2, <2>9, <2>13, <2>14, IdleClaims DEF Moves
<1> QED BY <1>5, <1>6

\* A rotation that lost, or a request within the window, repeats the recorded answer.
LEMMA RetryMoves ==
    ASSUME Typed, Typed', Rotated, NEW r \in Requests, Reread(r) \/ RetryAccess(r) \/ RetryNext(r)
    PROVE  Moves(r)
<1> USE DEF storeVars, deviceMaps, tokenMaps, barriers, history, reports, revocations
<1> DEFINE q == req[r]
<1>1. /\ RequestStep(r) /\ Handlers /\ q \in Request /\ Proper(q) /\ Fit(q)
      /\ q.pc \in {"reread", "retry_access", "retry_next"}
  BY DEF RequestStep, Typed, Handlers, Rotated, Reread, RetryAccess, RetryNext
<1>2. Continues(r) /\ UNCHANGED <<config, used, refresh>>
  BY <1>1, StepContinues DEF Reread, RetryAccess, RetryNext
<1>3. HoldsRefresh(q) /\ Retryable /\ q.rec.client_id = q.client
  BY <1>1 DEF Fit, RetrySteps
<1>4. q.cred \in HeldRefresh /\ TokenRecord(q.cred, q.rec) /\ q.cred # None
  BY <1>3, AbsentAssumption DEF HoldsRefresh, Rotated, Presented, RecordsRight
<1>5. CASE Return(r) /\ UNCHANGED granted
  BY <1>1, <1>2, <1>5, ReturnContinues, QuietMoves
<1>6. CASE Reread(r) /\ ~Return(r)
  <2> DEFINE rec == refresh[q.cred]
  <2>1. /\ rec # None /\ req' = [req EXCEPT ![r].pc = "retry_access", ![r].rec = rec]
        /\ UNCHANGED granted
    BY <1>6 DEF Reread
  <2>2. rec \in RefreshTokenRecord(Nat) /\ rec.client_id = q.client
    BY <1>3, <2>1 DEF HoldsRefresh, Typed, TypeOK, Option, Rotated, RecordsAgree
  <2> HIDE DEF rec
  <2>3. req'[r] = [q EXCEPT !.pc = "retry_access", !.rec = rec]
    BY <1>1, <2>1 DEF Handlers
  <2>4. /\ req'[r].pc = "retry_access" /\ req'[r].rec = rec /\ req'[r].cred = q.cred
        /\ req'[r].client = q.client
    BY <1>1, <2>3 DEF Request
  <2>5. Holds(r)
    BY <2>1, <2>4 DEF Holds, rec
  <2>6. Fit(req[r])'
    BY <1>2, <1>3, <2>2, <2>4, PolicyStays DEF Fit, RetrySteps, IssueSteps, HoldsRefresh
  <2>7. \A n \in RefreshTokens : ~Minting(r, n)' /\ ~ClaimsToken(r, n)'
    BY <2>4 DEF Minting, MintSteps, ClaimsToken, IssueSteps
  <2> QED BY <1>2, <2>1, <2>5, <2>6, <2>7, QuietMoves
<1>7. CASE Goto(r, "retry_next") /\ UNCHANGED granted
  <2>1. req'[r] = [q EXCEPT !.pc = "retry_next"]
    BY <1>1, <1>7, GotoContinues
  <2>2. /\ req'[r].pc = "retry_next" /\ req'[r].rec = q.rec /\ req'[r].cred = q.cred
        /\ req'[r].client = q.client
    BY <1>1, <2>1 DEF Request
  <2>3. Holds(r)
    BY <1>3, <2>2 DEF Holds
  <2>4. Fit(req[r])'
    BY <1>2, <1>3, <2>2, PolicyStays DEF Fit, RetrySteps, IssueSteps, HoldsRefresh
  <2>5. \A n \in RefreshTokens : ~Minting(r, n)' /\ ~ClaimsToken(r, n)'
    BY <2>2 DEF Minting, MintSteps, ClaimsToken, IssueSteps
  <2> QED BY <1>2, <1>7, <2>3, <2>4, <2>5, QuietMoves
<1>8. ASSUME q.pc \in {"retry_access", "retry_next"},
             Grant(r, q.rec.family_id, q.rec.retry.access_token, q.rec.retry.refresh_token)
      PROVE  Moves(r)
  <2>1. PICK g : /\ granted' = granted \cup {g}
                 /\ g = [client |-> q.client, from |-> q.cred, family |-> q.rec.family_id,
                         access |-> q.rec.retry.access_token, next |-> q.rec.retry.refresh_token]
                 /\ g.next = q.rec.retry.refresh_token /\ g.from = q.cred
    BY <1>1, <1>8, GrantFacts
  <2>2. req'[r] = Idle /\ \A s \in Requests : s # r => req'[s] = req[s]
    BY <1>1, <1>8, GrantFacts
  <2>3. q.rec.retry # None /\ q.rec.state \in {"Active", "Spent"}
    BY <1>1, <1>3, <1>8 DEF Proper, HoldsRefresh, RefreshTokenRecord
  <2>4. g.next = q.cred \/ g \in granted
    BY <1>3, <1>4, <2>1, <2>3 DEF TokenRecord
  <2>5. g.next # None => g.next \in HeldRefresh
    BY <1>4, <2>4 DEF HeldRefresh
  <2>6. ~Strict
    BY <1>3 DEF Retryable, Strict
  <2>7. Answers(r)
    BY <1>4, <2>1, <2>4, <2>5, <2>6 DEF Answers, AnswersFor, HandsOut
  <2> QED BY <1>2, <2>2, <2>7, IdleClaims DEF Moves, Wrote, ActiveRow
<1> QED BY <1>5, <1>6, <1>7, <1>8 DEF Reread, RetryAccess, RetryNext

-----------------------------------------------------------------------------
(***************************************************************************)
(* The environment                                                          *)
(***************************************************************************)
\* A caller presents a token that some response carried, or another credential.
LEMMA StartMoves ==
    ASSUME Typed, Typed', Rotated, NEW r \in Requests, NEW c \in ClientIds, NEW x,
           \/ x \in AuthCodes /\ StartRedeem(r, c, x)
           \/ StartRefresh(r, c, x)
           \/ StartRevoke(r, c, x)
    PROVE  Moves(r)
<1> USE DEF storeVars, deviceMaps, tokenMaps, barriers, history, reports, revocations
<1>1. UNCHANGED <<refresh, config, granted, used>>
  BY DEF StartRedeem, StartRefresh, StartRevoke
<1>2. x \in RefreshTokens => x \in HeldRefresh
  <2>1. HeldAccess \subseteq AccessTokens
    BY HeldTypes DEF Typed
  <2> QED BY <2>1, IdentifierAssumption DEF StartRedeem, StartRefresh, StartRevoke
<1>3. PICK pc \in {"take_code", "read_refresh", "revoke_lookup", "revoke_access"} :
         req' = [req EXCEPT ![r] = [Idle EXCEPT !.pc = pc, !.client = c, !.cred = x, !.since = now]]
  BY DEF StartRedeem, StartRefresh, StartRevoke
<1> DEFINE q == [Idle EXCEPT !.pc = pc, !.client = c, !.cred = x, !.since = now]
<1>4. q.pc = pc /\ q.cred = x /\ q.rec = None
  BY DEF Idle
<1> HIDE DEF q
<1>5. req'[r] = q /\ \A s \in Requests : s # r => req'[s] = req[s]
  BY <1>3 DEF Typed, Handlers, q
<1>6. ~HoldsRefresh(req[r])' /\ Fit(req[r])'
  BY <1>3, <1>4, <1>5, AbsentAssumption DEF HoldsRefresh, Fit, RetrySteps, IssueSteps
<1>7. \A n \in RefreshTokens : ~Minting(r, n)' /\ ~ClaimsToken(r, n)'
  BY <1>3, <1>4, <1>5 DEF Minting, MintSteps, ClaimsToken, IssueSteps
<1> QED BY <1>1, <1>2, <1>4, <1>5, <1>6, <1>7 DEF Moves, Answers, Wrote, ActiveRow

\* A request that is dropped.
LEMMA AbandonMoves ==
    ASSUME Typed, Rotated, NEW r \in Requests, Abandon(r)
    PROVE  Moves(r)
<1>1. /\ Continues(r) /\ req'[r] = Idle
      /\ UNCHANGED <<config, granted, used, refresh>>
  BY ReturnContinues DEF Abandon, Typed, storeVars, tokenMaps, history
<1> QED BY <1>1, QuietMoves

\* Records vanish and nobody moves.
LEMMA VanishKeeps ==
    ASSUME Typed, Rotated, UNCHANGED <<config, granted, req>>, used \subseteq used',
           \A n \in RefreshTokens : refresh'[n] \in {refresh[n], None}
    PROVE  Rotated'
<1> USE DEF Rotated
<1>1. (Strict' <=> Strict) /\ (Reuse' <=> Reuse) /\ (Retryable' <=> Retryable)
  BY PolicyStays
<1>2. HeldRefresh' = HeldRefresh
  BY DEF HeldRefresh
<1>3. \A n \in RefreshTokens : (ActiveRow(n)' => ActiveRow(n)) /\ (Settled(n)' <=> Settled(n))
  BY <1>1 DEF ActiveRow, Settled
<1>4. Presented' /\ UnheldUntilAnswered'
  BY <1>2 DEF Presented, UnheldUntilAnswered, Minting
<1>5. RecordsRight'
  <2>1. ASSUME NEW n \in RefreshTokens, refresh'[n] # None PROVE TokenRecord(n, refresh[n])'
    <3>1. refresh'[n] = refresh[n] /\ TokenRecord(n, refresh[n])
      BY <2>1 DEF RecordsRight
    <3> QED BY <1>1, <3>1 DEF TokenRecord
  <2>2. ASSUME NEW s \in Requests, HoldsRefresh(req[s]) PROVE TokenRecord(req[s].cred, req[s].rec)'
    <3>1. TokenRecord(req[s].cred, req[s].rec)
      BY <2>2 DEF RecordsRight
    <3> QED BY <1>1, <3>1 DEF TokenRecord
  <2> QED BY <2>1, <2>2 DEF RecordsRight, HoldsRefresh
<1>6. RecordsAgree'
  BY DEF RecordsAgree, HoldsRefresh
<1>7. \A s \in Requests : Fit(req[s])'
  <2> SUFFICES ASSUME NEW s \in Requests PROVE Fit(req[s])'
    OBVIOUS
  <2> QED BY <1>1 DEF Fit, HoldsRefresh
<1>8. \A s \in Requests, n \in RefreshTokens : ClaimsToken(s, n)' <=> ClaimsToken(s, n)
  BY DEF ClaimsToken
<1>9. OneTokenClaim' /\ ActiveUnsettled'
  BY <1>1, <1>3, <1>8 DEF OneTokenClaim, ActiveUnsettled
<1>10. ReuseHandsBack' /\ OneSuccessor'
  BY <1>1 DEF ReuseHandsBack, OneSuccessor
<1> QED BY <1>4, <1>5, <1>6, <1>7, <1>9, <1>10

\* Issuing a code, recording and withdrawing a consent, deleting and provisioning a client, the
\* sweep and the clock.
LEMMA EnvironmentVanishes ==
    ASSUME Typed,
           \/ \E x \in AuthCodes, c \in ClientIds, s \in Subjects, t \in 0..MaxNow :
                  IssueCode(x, c, s, t)
           \/ \E k \in ConsentIds, c \in ClientIds, s \in Subjects : RecordConsent(k, c, s)
           \/ \E k \in ConsentIds : WithdrawConsent(k)
           \/ \E c \in ClientIds : DeleteClient(c)
           \/ \E c \in ClientIds, g \in Registrations : ProvisionClient(c, g)
           \/ Sweep \/ Tick \/ UNCHANGED vars
    PROVE  /\ UNCHANGED <<config, granted, req>> /\ used \subseteq used'
           /\ \A n \in RefreshTokens : refresh'[n] \in {refresh[n], None}
<1> USE DEF storeVars, deviceMaps, tokenMaps, barriers, history
<1>1. UNCHANGED <<config, granted, req>> /\ used \subseteq used'
  BY DEF IssueCode, RecordConsent, WithdrawConsent, DeleteClient, ProvisionClient, Sweep, Tick, vars
<1>2. UNCHANGED refresh \/ \E doomed : refresh' = Without(refresh, doomed)
  <2>1. ASSUME NEW x \in AuthCodes, NEW c \in ClientIds, NEW s \in Subjects, NEW t \in 0..MaxNow,
               IssueCode(x, c, s, t)
        PROVE  UNCHANGED refresh
    BY <2>1 DEF IssueCode, put_authorization_code
  <2>2. ASSUME NEW k \in ConsentIds, NEW c \in ClientIds, NEW s \in Subjects,
               RecordConsent(k, c, s)
        PROVE  UNCHANGED refresh
    BY <2>2 DEF RecordConsent, compare_and_swap_consent
  <2>3. ASSUME NEW k \in ConsentIds, WithdrawConsent(k)
        PROVE  UNCHANGED refresh \/ \E doomed : refresh' = Without(refresh, doomed)
    BY <2>3 DEF WithdrawConsent, revoke_consent
  <2>4. ASSUME NEW c \in ClientIds, DeleteClient(c)
        PROVE  UNCHANGED refresh \/ \E doomed : refresh' = Without(refresh, doomed)
    BY <2>4 DEF DeleteClient, delete_client
  <2>5. ASSUME NEW c \in ClientIds, NEW g \in Registrations, ProvisionClient(c, g)
        PROVE  UNCHANGED refresh
    BY <2>5 DEF ProvisionClient, put_client
  <2>6. CASE Sweep
    BY <2>6 DEF Sweep, sweep_expired
  <2>7. CASE Tick \/ UNCHANGED vars
    BY <2>7 DEF Tick, vars
  <2> QED BY <2>1, <2>2, <2>3, <2>4, <2>5, <2>6, <2>7
<1> QED BY <1>1, <1>2, Removed

-----------------------------------------------------------------------------
(***************************************************************************)
(* The theorems                                                             *)
(***************************************************************************)
\* Every step of a request is such a step.
LEMMA StepMoves ==
    ASSUME Typed, Typed', Rotated, NEW r \in Requests, RequestStep(r)
    PROVE  Moves(r)
<1>1. Proper(req[r])
  BY DEF Typed, Handlers
<1>2. CASE TakeCode(r) \/ RestoreCode(r) \/ ConsumeCode(r) \/ UndoAccess(r) \/ UndoRefresh(r)
           \/ ReplayLookup(r) \/ ReplayRevoke(r) \/ ReplayDelete(r) \/ ReplayRecord(r)
           \/ RevokeAccess(r) \/ RevokeDelete(r)
  <2>1. req[r].pc \in {"take_code", "revoke_access", "revoke_delete"} \cup TakenSteps
                          \cup CloseSteps
    BY <1>2 DEF TakenSteps, CloseSteps, TakeCode, RestoreCode, ConsumeCode, UndoAccess,
       UndoRefresh, ReplayLookup, ReplayRevoke, ReplayDelete, ReplayRecord, RevokeAccess,
       RevokeDelete
  <2>2. req[r].cred \notin RefreshTokens
    BY <1>1, <2>1, IdentifierAssumption DEF Proper, HoldsCode
  <2> QED BY <1>2, <2>2, OtherMoves
<1>3. CASE RevokeLookup(r) \/ RevokeCascade(r) \/ RevokeTake(r) \/ ReuseRevoke(r)
  <2>1. req[r].pc \in LookupSteps \cup RefreshSteps
    BY <1>3 DEF LookupSteps, RefreshSteps, RevokeLookup, RevokeCascade, RevokeTake, ReuseRevoke
  <2>2. req[r].cred \in RefreshTokens
    BY <1>1, <2>1 DEF Proper, HoldsRefresh
  <2> QED BY <1>3, <2>2, RevokeMoves
<1>4. CASE UndoIssuance(r)
  BY <1>4, OtherMoves, RevokeMoves
<1>5. CASE ReadRefresh(r) \/ RestoreRefresh(r) \/ ReuseRearm(r) \/ SpendRefresh(r)
           \/ PutAccess(r) \/ PutRefresh(r) \/ RecordRedemption(r) \/ CommitRotation(r)
           \/ Reread(r) \/ RetryAccess(r) \/ RetryNext(r)
  BY <1>5, ReadMoves, PutBackMoves, SpendMoves, IssueMoves, RedemptionMoves, CommitMoves,
     RetryMoves
<1> QED BY <1>2, <1>3, <1>4, <1>5 DEF RequestStep

\* Every step keeps the invariant.
LEMMA RotatedStep == Typed /\ Typed' /\ Rotated /\ [Next]_vars => Rotated'
<1> SUFFICES ASSUME Typed, Typed', Rotated, [Next]_vars PROVE Rotated'
  OBVIOUS
<1>1. ASSUME NEW r \in Requests,
             \/ RequestStep(r) \/ Abandon(r)
             \/ \E c \in ClientIds :
                 \/ \E code \in AuthCodes : StartRedeem(r, c, code)
                 \/ \E token \in RefreshTokens : StartRefresh(r, c, token)
                 \/ \E token \in RefreshTokens \cup AccessTokens : StartRevoke(r, c, token)
      PROVE  Rotated'
  BY <1>1, StepMoves, AbandonMoves, StartMoves, MovesKeep
<1> QED BY <1>1, EnvironmentVanishes, VanishKeeps DEF Next

\* Nobody holds a token when the server starts.
LEMMA RotatedInit == Init => Rotated
<1> SUFFICES ASSUME Init PROVE Rotated
  OBVIOUS
<1>1. /\ \A n \in RefreshTokens : refresh[n] = None
      /\ granted = {} /\ used = {} /\ HeldRefresh = {}
      /\ \A r \in Requests : req[r].pc = "idle" /\ req[r].cred = None
  BY DEF Init, Empty, Idle, HeldRefresh
<1>2. Presented /\ UnheldUntilAnswered
  BY <1>1, AbsentAssumption DEF Presented, UnheldUntilAnswered, Minting, MintSteps
<1>3. RecordsRight /\ RecordsAgree
  BY <1>1, AbsentAssumption DEF RecordsRight, RecordsAgree, HoldsRefresh
<1>4. \A r \in Requests : Fit(req[r])
  BY <1>1 DEF Fit, RetrySteps, IssueSteps
<1>5. OneTokenClaim /\ ActiveUnsettled /\ ReuseHandsBack /\ OneSuccessor
  BY <1>1 DEF OneTokenClaim, ClaimsToken, IssueSteps, ActiveUnsettled, ActiveRow, ReuseHandsBack,
     OneSuccessor
<1> QED BY <1>2, <1>3, <1>4, <1>5 DEF Rotated

\* The inductive invariant holds throughout.
LEMMA RotatedAlways == Spec => [](Typed /\ Rotated)
BY TypedInit, TypedStep, RotatedInit, RotatedStep, PTL DEF Spec

\* A rotated refresh token has one successor, under strict and retryable rotation alike: however
\* many requests present it at once, are dropped, retried or put the record back, every answer that
\* replaces it carries the same tokens (refresh_token, commit_refresh_retry).
THEOREM TokenSucceededOnce == Spec => []OneSuccessor
<1>1. Typed /\ Rotated => OneSuccessor
  BY DEF Rotated
<1> QED BY <1>1, RotatedAlways, PTL

\* A refresh token that was answered with a successor is never usable again, whoever still holds
\* its old record (refresh_token, restore_refresh_token, commit_refresh_retry).
THEOREM TokenStaysSpent == Spec => []SpentStaysSpent
<1>1. Typed /\ Rotated => SpentStaysSpent
  <2> SUFFICES ASSUME Rotated, NEW g \in granted, g.from \in RefreshTokens, g.next # g.from
               PROVE  ~LiveRefresh(g.from)
    BY DEF SpentStaysSpent
  <2>1. ~Reuse
    BY DEF Rotated, ReuseHandsBack
  <2>2. Settled(g.from)
    BY DEF Settled
  <2>3. ~ActiveRow(g.from)
    BY <2>1, <2>2 DEF Rotated, ActiveUnsettled
  <2> QED BY <2>3 DEF ActiveRow, LiveRefresh, Unexpired
<1> QED BY <1>1, RotatedAlways, PTL

-----------------------------------------------------------------------------
(***************************************************************************)
(* Strict rotation implements GrantLineage                                  *)
(***************************************************************************)
Holders == AuthCodes \cup RefreshTokens

\* Under strict rotation every issuance draws a refresh token; no device code is presented here.
Writing == {"put_access", "put_refresh", "record_redemption"}
Chained ==
    \A r \in Requests :
        /\ req[r].cred \notin DeviceCodes
        /\ Strict /\ req[r].pc \in Writing => req[r].next # None

\* What the mapping says of a credential that a step does not answer or issue.
Closes(c) == Status(c)' = Status(c) \/ (Status(c) = "usable" /\ Status(c)' = "closed")

\* A step after which some credentials are closed, and nothing else has changed.
LEMMA ClosesLineage ==
    ASSUME UNCHANGED granted, \A c \in Holders : Closes(c)
    PROVE  Lineage!Next
<1> DEFINE S == {c \in Holders : Status(c) = "usable" /\ Status(c)' = "closed"}
<1>1. S \in SUBSET {c \in Holders : [d \in Holders |-> Status(d)][c] = "usable"}
  OBVIOUS
<1>2. [c \in Holders |-> Status(c)']
          = [c \in Holders |-> IF c \in S THEN "closed" ELSE [d \in Holders |-> Status(d)][c]]
  <2> SUFFICES ASSUME NEW c \in Holders
               PROVE  Status(c)' = IF c \in S THEN "closed" ELSE Status(c)
    OBVIOUS
  <2> QED BY DEF Closes
<1>3. Lineage!Close
  BY <1>1, <1>2 DEF Lineage!Close, Lineage!ClosedFrom, Lineage!Credentials, Holders
<1> QED BY <1>3 DEF Lineage!Next

\* A new code.
LEMMA IssuesLineage ==
    ASSUME UNCHANGED granted, NEW x \in AuthCodes, Status(x) = "unknown", Status(x)' = "usable",
           \A c \in Holders : c # x => Status(c)' = Status(c)
    PROVE  Lineage!Next
<1>1. [c \in Holders |-> Status(c)'] = [[c \in Holders |-> Status(c)] EXCEPT ![x] = "usable"]
  BY DEF Holders
<1>2. Lineage!Issue(x)
  BY <1>1 DEF Lineage!Issue, Holders
<1> QED BY <1>2 DEF Lineage!Next

\* An answer.
LEMMA AnswersLineage ==
    ASSUME NEW g, granted' = granted \cup {g}, g.from \in Holders, g.next \in RefreshTokens,
           g.next # g.from, ~Answered(g.from),
           Status(g.from) # "unknown", Status(g.from)' = "closed",
           Status(g.next) = "unknown", Status(g.next)' \in {"usable", "closed"},
           \A c \in Holders : c \notin {g.from, g.next} => Closes(c)
    PROVE  Lineage!Next
<1> DEFINE status == [c \in Holders |-> Status(c)]
           before == [status EXCEPT ![g.from] = "closed", ![g.next] = "usable"]
           S == {c \in Holders : before[c] = "usable" /\ Status(c)' = "closed"}
<1>1. \A c \in Holders : before[c] = IF c = g.next THEN "usable" ELSE IF c = g.from THEN "closed"
                                     ELSE Status(c)
  BY DEF Holders
<1>2. [c \in Holders |-> Status(c)'] = [c \in Holders |-> IF c \in S THEN "closed" ELSE before[c]]
  <2> SUFFICES ASSUME NEW c \in Holders
               PROVE  Status(c)' = IF c \in S THEN "closed" ELSE before[c]
    OBVIOUS
  <2> HIDE DEF before
  <2> QED BY <1>1 DEF Closes
<1>3. S \in SUBSET {c \in Holders : before[c] = "usable"}
  OBVIOUS
<1>4. [c \in Holders |-> {h.next : h \in {k \in granted' : k.from = c}} \ {c}]
          = [[c \in Holders |-> {h.next : h \in {k \in granted : k.from = c}} \ {c}]
                EXCEPT ![g.from] = {g.next}]
  <2> SUFFICES ASSUME NEW c \in Holders
               PROVE  {h.next : h \in {k \in granted' : k.from = c}} \ {c}
                          = IF c = g.from THEN {g.next}
                            ELSE {h.next : h \in {k \in granted : k.from = c}} \ {c}
    OBVIOUS
  <2>1. CASE c = g.from
    BY <2>1 DEF Answered
  <2>2. CASE c # g.from
    BY <2>2
  <2> QED BY <2>1, <2>2
<1>5. {h.next : h \in {k \in granted : k.from = g.from}} \ {g.from} = {}
  BY DEF Answered
<1> HIDE DEF S
<1>6. Lineage!Answer(g.from, g.next)
  BY <1>2, <1>3, <1>4, <1>5 DEF Lineage!Answer, Lineage!ClosedFrom, Lineage!Credentials, Holders
<1> QED BY <1>6 DEF Lineage!Next, Lineage!Credentials, Holders

\* What every step of a request keeps of Chained.
LEMMA ChainedRequest ==
    ASSUME issue_refresh_tokens, Typed, Typed', Rotated, Chained, NEW r \in Requests, RequestStep(r)
    PROVE  Chained'
<1> DEFINE q == req[r]
<1>1. Handlers /\ q \in Request /\ Proper(q) /\ Moves(r) /\ Continues(r)
  BY StepMoves, StepContinues DEF Typed, Handlers
<1>2. Strict' <=> Strict
  BY <1>1, PolicyStays DEF Moves
<1>3. req'[r].cred \notin DeviceCodes
  BY <1>1, AbsentAssumption DEF Continues, Chained, Idle
<1>4. ASSUME Strict, req'[r].pc \in Writing PROVE req'[r].next # None
  <2>1. ASSUME NEW chain, BeginIssue(r, q, chain), MintsRefresh(chain)
        PROVE  req'[r].next # None
    <3>1. ~Return(r)
      BY <1>1, <1>4, ReturnContinues DEF Idle, Writing
    <3> QED BY <1>1, <2>1, <3>1, Draws, AbsentAssumption
  <2>2. CASE TakeCode(r) /\ req'[r].pc \in TakenSteps
    BY <1>4, <2>2 DEF TakenSteps, Writing
  <2>3. CASE ReadRefresh(r)
    <3>1. Return(r) \/ \E pc \in Steps \ Writing : \E rec :
              req' = [req EXCEPT ![r].pc = pc, ![r].rec = rec]
      BY <1>4, <2>3 DEF ReadRefresh, GiveBack, Steps, Writing
    <3>2. ~Return(r)
      BY <1>1, <1>4, ReturnContinues DEF Idle, Writing
    <3>3. PICK pc \in Steps \ Writing : \E rec : req' = [req EXCEPT ![r].pc = pc, ![r].rec = rec]
      BY <3>1, <3>2
    <3>4. req'[r].pc = pc
      BY <1>1, <3>3 DEF Handlers, Request
    <3> QED BY <1>4, <3>3, <3>4
  <2>4. CASE ConsumeCode(r)
    BY <2>1, <2>4 DEF ConsumeCode, MintsRefresh
  <2>5. CASE SpendRefresh(r)
    <3>1. MintsRefresh(q.rec.family_id)
      BY <1>4 DEF MintsRefresh, Strict
    <3>2. Return(r) \/ BeginIssue(r, q, q.rec.family_id)
      BY <2>5 DEF SpendRefresh
    <3>3. ~Return(r)
      BY <1>1, <1>4, ReturnContinues DEF Idle, Writing
    <3> QED BY <2>1, <3>1, <3>2, <3>3
  <2>6. CASE PutAccess(r) \/ PutRefresh(r)
    <3>1. q.pc \in Writing
      BY <2>6 DEF PutAccess, PutRefresh, Writing
    <3>2. q.next # None
      BY <1>4, <3>1 DEF Chained
    <3>3. Return(r) \/ \E pc : Goto(r, pc)
      BY <2>6 DEF PutAccess, PutRefresh, Issued, Grant
    <3>4. ~Return(r)
      BY <1>1, <1>4, ReturnContinues DEF Idle, Writing
    <3>5. PICK pc : req'[r] = [q EXCEPT !.pc = pc]
      BY <1>1, <3>3, <3>4, GotoContinues
    <3> QED BY <1>1, <3>2, <3>5 DEF Request
  <2> QED BY <1>4, <2>2, <2>3, <2>4, <2>5, <2>6, StepEnds DEF Writing, IssueSteps, CloseSteps
<1> QED BY <1>1, <1>2, <1>3, <1>4 DEF Chained, Continues

\* Every step keeps it.
LEMMA ChainedStep ==
    ASSUME issue_refresh_tokens, Typed, Typed', Rotated, Chained, [Next]_vars
    PROVE  Chained'
<1>1. ASSUME NEW r \in Requests, Moves(r), req'[r].cred \notin DeviceCodes, req'[r].pc \notin Writing
      PROVE  Chained'
  <2>1. (Strict' <=> Strict) /\ \A s \in Requests : s # r => req'[s] = req[s]
    BY <1>1, PolicyStays DEF Moves
  <2> QED BY <1>1, <2>1 DEF Chained
<1>2. ASSUME NEW r \in Requests, Abandon(r) PROVE Chained'
  <2>1. req'[r] = Idle
    BY <1>2, ReturnContinues DEF Abandon, Typed
  <2> QED BY <1>1, <1>2, <2>1, AbandonMoves, AbsentAssumption DEF Idle, Writing
<1>3. ASSUME NEW r \in Requests, NEW c \in ClientIds, NEW x \in Credentials \ DeviceCodes,
             \/ x \in AuthCodes /\ StartRedeem(r, c, x)
             \/ x \in RefreshTokens /\ StartRefresh(r, c, x)
             \/ x \in RefreshTokens \cup AccessTokens /\ StartRevoke(r, c, x)
      PROVE  Chained'
  <2>1. PICK pc \in {"take_code", "read_refresh", "revoke_lookup", "revoke_access"} :
            req' = [req EXCEPT ![r] = [Idle EXCEPT !.pc = pc, !.client = c, !.cred = x,
                                                   !.since = now]]
    BY <1>3 DEF StartRedeem, StartRefresh, StartRevoke
  <2>2. req'[r].pc = pc /\ req'[r].cred = x
    BY <2>1 DEF Typed, Handlers, Idle
  <2>3. Moves(r)
    BY <1>3, StartMoves
  <2> QED BY <1>1, <2>2, <2>3 DEF Writing
<1>4. ASSUME UNCHANGED <<config, req>> PROVE Chained'
  BY <1>4, PolicyStays DEF Chained
<1>5. AuthCodes \cup RefreshTokens \cup AccessTokens \subseteq Credentials \ DeviceCodes
  BY IdentifierAssumption DEF Credentials
<1>6. ASSUME NEW r \in Requests, NEW c \in ClientIds,
             \/ \E code \in AuthCodes : StartRedeem(r, c, code)
             \/ \E token \in RefreshTokens : StartRefresh(r, c, token)
             \/ \E token \in RefreshTokens \cup AccessTokens : StartRevoke(r, c, token)
      PROVE  Chained'
  BY <1>3, <1>5, <1>6
<1> QED BY <1>2, <1>4, <1>6, ChainedRequest, EnvironmentVanishes DEF Next

-----------------------------------------------------------------------------
\* Time does not go back.
LEMMA TimePasses == ASSUME Typed, [Next]_vars PROVE now <= now'
<1> USE DEF Typed, Books
<1>1. ASSUME UNCHANGED now PROVE now <= now'
  BY <1>1
<1>2. ASSUME NEW r \in Requests, RequestStep(r) PROVE UNCHANGED now
  BY <1>2 DEF RequestStep, TakeCode, RestoreCode, ConsumeCode, RecordRedemption, UndoAccess,
     UndoRefresh, ReplayLookup, ReplayRevoke, ReplayDelete, ReplayRecord, ReadRefresh,
     RestoreRefresh, ReuseRevoke, ReuseRearm, SpendRefresh, PutAccess, PutRefresh, UndoIssuance,
     CommitRotation, Reread, RetryAccess, RetryNext, RevokeLookup, RevokeCascade, RevokeTake,
     RevokeAccess, RevokeDelete
<1>3. CASE Tick
  BY <1>3 DEF Tick
<1>4. ASSUME NEW r \in Requests, NEW c \in ClientIds, NEW x,
             StartRedeem(r, c, x) \/ StartRefresh(r, c, x) \/ StartRevoke(r, c, x) \/ Abandon(r)
      PROVE  UNCHANGED now
  BY <1>4 DEF StartRedeem, StartRefresh, StartRevoke, Abandon
<1>5. ASSUME NEW x, NEW c, NEW s, NEW t, NEW k, NEW g,
             \/ IssueCode(x, c, s, t) \/ RecordConsent(k, c, s) \/ WithdrawConsent(k)
             \/ DeleteClient(c) \/ ProvisionClient(c, g) \/ Sweep
      PROVE  UNCHANGED now
  BY <1>5 DEF IssueCode, RecordConsent, WithdrawConsent, DeleteClient, ProvisionClient, Sweep
<1>6. ASSUME NEW r \in Requests, Abandon(r) PROVE UNCHANGED now
  BY <1>6 DEF Abandon
<1> QED BY <1>1, <1>2, <1>3, <1>4, <1>5, <1>6 DEF Next, vars

\* A code's record stays open only as it was, and an expired one is not reopened.
OpenCode(rec) == rec.state.status = "Issued" /\ now < rec.expires_at

\* The record of code x in the store is as it was, gone, no longer Issued or put back, and the
\* requests about to put it back hold the one they held, or the one they have just taken.
CodeKept(x) ==
    /\ \/ codes'[x] \in {codes[x], None}
       \/ codes'[x].state.status # "Issued"
       \/ \E r \in Requests : req[r].pc = "restore_code" /\ req[r].cred = x /\ codes'[x] = req[r].rec
    /\ \A r \in Requests : req'[r].pc = "restore_code" /\ req'[r].cred = x =>
           \/ req[r].pc = "restore_code" /\ req[r].cred = x /\ req'[r].rec = req[r].rec
           \/ codes[x] # None /\ req'[r].rec = codes[x]

\* Such a step reopens no code.
LEMMA CodeKeptClosed ==
    ASSUME Typed, Typed', now <= now', NEW x \in AuthCodes, CodeKept(x), CodeUsable(x)'
    PROVE  CodeUsable(x)
<1>1. ASSUME NEW rec \in AuthorizationCodeRecord(Nat), OpenCode(rec)' PROVE OpenCode(rec)
  BY <1>1 DEF OpenCode, AuthorizationCodeRecord, Typed, Books
<1>2. /\ codes[x] # None => codes[x] \in AuthorizationCodeRecord(Nat)
      /\ \A s \in Requests : req[s].pc = "restore_code" => req[s].rec \in AuthorizationCodeRecord(Nat)
  BY DEF Typed, TypeOK, Option, Handlers, Proper, TakenSteps, HoldsCode
<1>3. CodeUsable(x) <=> \/ codes[x] # None /\ OpenCode(codes[x])
                        \/ \E s \in Requests : /\ req[s].pc = "restore_code" /\ req[s].cred = x
                                               /\ OpenCode(req[s].rec)
  BY DEF CodeUsable, OpenCode
<1>4. CASE codes'[x] # None /\ OpenCode(codes[x])'
  <2>1. codes'[x].state.status = "Issued"
    BY <1>4 DEF OpenCode
  <2>2. CASE codes'[x] = codes[x]
    <3>1. OpenCode(codes[x])
      BY <1>1, <1>2, <1>4, <2>2 DEF OpenCode
    <3> QED BY <1>3, <1>4, <2>2, <3>1
  <2>3. ASSUME NEW r \in Requests, req[r].pc = "restore_code", req[r].cred = x,
               codes'[x] = req[r].rec
        PROVE  CodeUsable(x)
    <3>1. OpenCode(req[r].rec)
      BY <1>1, <1>2, <1>4, <2>3 DEF OpenCode
    <3> QED BY <1>3, <2>3, <3>1
  <2> QED BY <1>4, <2>1, <2>2, <2>3 DEF CodeKept
<1>5. ASSUME NEW s \in Requests, req'[s].pc = "restore_code", req'[s].cred = x, OpenCode(req[s].rec)'
      PROVE  CodeUsable(x)
  <2>1. \/ req[s].pc = "restore_code" /\ req[s].cred = x /\ req'[s].rec = req[s].rec
        \/ codes[x] # None /\ req'[s].rec = codes[x]
    BY <1>5 DEF CodeKept
  <2>2. CASE req[s].pc = "restore_code" /\ req[s].cred = x /\ req'[s].rec = req[s].rec
    <3>1. OpenCode(req[s].rec)
      BY <1>1, <1>2, <1>5, <2>2 DEF OpenCode
    <3> QED BY <1>3, <2>2, <3>1
  <2>3. CASE codes[x] # None /\ req'[s].rec = codes[x]
    <3>1. OpenCode(codes[x])
      BY <1>1, <1>2, <1>5, <2>3 DEF OpenCode
    <3> QED BY <1>3, <2>3, <3>1
  <2> QED BY <2>1, <2>2, <2>3
<1>6. \/ codes'[x] # None /\ OpenCode(codes[x])'
      \/ \E s \in Requests : /\ req'[s].pc = "restore_code" /\ req'[s].cred = x
                             /\ OpenCode(req[s].rec)'
  BY DEF CodeUsable, OpenCode
<1> QED BY <1>4, <1>5, <1>6

\* No step reopens a code that has been issued.
LEMMA CodesClose ==
    ASSUME Typed, Typed', [Next]_vars, NEW x \in AuthCodes, x \in used, CodeUsable(x)'
    PROVE  CodeUsable(x)
<1> USE DEF storeVars, deviceMaps, tokenMaps, barriers, history
<1>1. now <= now' /\ Handlers /\ codes \in [AuthCodes -> Option(AuthorizationCodeRecord(Nat))]
  BY TimePasses DEF Typed, TypeOK
<1>2. ASSUME Tame PROVE CodeUsable(x)
  <2>1. CodeKept(x)
    BY <1>2 DEF CodeKept, Tame, Keeps, Redeeming, IssueSteps, CloseSteps, ReplaySteps
  <2> QED BY <1>1, <2>1, CodeKeptClosed
<1>3. ASSUME NEW r \in Requests, RequestStep(r), req[r].cred \in AuthCodes,
             TakeCode(r) \/ RestoreCode(r) \/ ConsumeCode(r) \/ RecordRedemption(r) \/ ReplayRecord(r)
      PROVE  CodeUsable(x)
  <2> DEFINE q == req[r]
  <2>1. Continues(r) /\ q \in Request /\ Proper(q)
    BY <1>3, StepContinues DEF Typed, Handlers
  <2>2. \A y \in AuthCodes : y # q.cred => codes'[y] = codes[y]
    BY <1>3, StepFrame
  <2>3. ASSUME \/ codes'[q.cred] \in {codes[q.cred], None}
               \/ codes'[q.cred].state.status # "Issued"
               \/ q.pc = "restore_code" /\ codes'[q.cred] = q.rec,
               req'[r].pc = "restore_code" => codes[q.cred] # None /\ req'[r].rec = codes[q.cred]
        PROVE  CodeUsable(x)
    <3>1. Idle.pc # "restore_code"
      BY DEF Idle
    <3>2. CodeKept(x)
      BY <2>1, <2>2, <2>3, <3>1 DEF CodeKept, Continues
    <3> QED BY <1>1, <3>2, CodeKeptClosed
  <2>4. ASSUME req'[r].pc = "restore_code" PROVE TakeCode(r)
    BY <1>3, <2>4, StepEnds
  <2>5. CASE TakeCode(r)
    <3>1. codes'[q.cred] \in {codes[q.cred], None}
      BY <1>1, <1>3, <2>5 DEF TakeCode, take_authorization_code
    <3>2. \/ Return(r)
          \/ /\ codes[q.cred] # None
             /\ \E pc : req' = [req EXCEPT ![r].pc = pc, ![r].rec = codes[q.cred]]
      BY <2>5 DEF TakeCode
    <3>3. Return(r) => req'[r].pc # "restore_code"
      BY <1>1, ReturnContinues DEF Idle
    <3>4. req'[r].pc = "restore_code" => codes[q.cred] # None /\ req'[r].rec = codes[q.cred]
      BY <1>1, <2>1, <3>2, <3>3 DEF Handlers, Request
    <3> QED BY <2>3, <3>1, <3>4
  <2>6. CASE RestoreCode(r)
    <3>1. codes'[q.cred] = q.rec /\ q.pc = "restore_code"
      BY <1>1, <1>3, <2>6 DEF RestoreCode, put_authorization_code
    <3>2. req'[r].pc # "restore_code"
      BY <1>1, <2>6, ReturnContinues DEF RestoreCode, Idle
    <3> QED BY <2>3, <3>1, <3>2
  <2>7. CASE ConsumeCode(r) \/ RecordRedemption(r) \/ ReplayRecord(r)
    <3>1. q.pc \in TakenSteps \cup CloseSteps
      BY <2>7 DEF ConsumeCode, RecordRedemption, ReplayRecord, TakenSteps, CloseSteps
    <3>2. HoldsCode(q)
      BY <2>1, <3>1 DEF Proper
    <3>3. \/ codes'[q.cred] = codes[q.cred]
          \/ \E a : \E n : codes'[q.cred] = [q.rec EXCEPT !.state = CodeState("Consumed", a, n)]
          \/ codes'[q.cred] = [q.rec EXCEPT !.state.status = "Replayed"]
      <4>1. CASE ConsumeCode(r)
        BY <1>1, <1>3, <4>1 DEF ConsumeCode, put_authorization_code
      <4>2. CASE RecordRedemption(r)
        BY <1>1, <1>3, <4>2 DEF RecordRedemption, compare_and_swap_authorization_code, CallFails
      <4>3. CASE ReplayRecord(r)
        BY <1>1, <1>3, <4>3 DEF ReplayRecord, put_authorization_code, CallFails
      <4> QED BY <2>7, <4>1, <4>2, <4>3
    <3>4. codes'[q.cred] = codes[q.cred] \/ codes'[q.cred].state.status # "Issued"
      <4>1. q.rec \in AuthorizationCodeRecord(Nat)
        BY <3>2 DEF HoldsCode
      <4>2. ASSUME NEW a, NEW n, codes'[q.cred] = [q.rec EXCEPT !.state = CodeState("Consumed", a, n)]
            PROVE  codes'[q.cred].state.status = "Consumed"
        BY <4>1, <4>2 DEF AuthorizationCodeRecord, CodeState
      <4>3. ASSUME codes'[q.cred] = [q.rec EXCEPT !.state.status = "Replayed"]
            PROVE  codes'[q.cred].state.status = "Replayed"
        BY <4>1, <4>3 DEF AuthorizationCodeRecord, AuthorizationCodeState
      <4> QED BY <3>3, <4>2, <4>3
    <3>5. ~TakeCode(r)
      BY <3>1 DEF TakenSteps, CloseSteps, TakeCode
    <3> QED BY <2>3, <2>4, <3>4, <3>5
  <2> QED BY <1>3, <2>5, <2>6, <2>7
<1>4. ASSUME NEW r \in Requests, RequestStep(r) PROVE CodeUsable(x)
  <2>1. CASE req[r].cred \notin AuthCodes
    BY <1>2, <1>4, <2>1, OtherTame
  <2>2. CASE req[r].cred \in AuthCodes
    <3>1. req[r].pc \notin RefreshSteps \cup LookupSteps \cup {"revoke_access", "revoke_delete"}
      BY <1>1, <2>2, IdentifierAssumption DEF Handlers, Proper, HoldsRefresh
    <3>2. CASE PutAccess(r) \/ PutRefresh(r) \/ UndoIssuance(r) \/ UndoAccess(r) \/ UndoRefresh(r)
      BY <1>2, <2>2, <3>2, IssueTame
    <3>3. CASE ReplayLookup(r) \/ ReplayRevoke(r) \/ ReplayDelete(r)
      BY <1>2, <3>3, ReplayTame
    <3>4. CASE \/ TakeCode(r) \/ RestoreCode(r) \/ ConsumeCode(r) \/ RecordRedemption(r)
               \/ ReplayRecord(r)
      BY <1>3, <1>4, <2>2, <3>4
    <3>5. CASE \/ ReadRefresh(r) \/ RestoreRefresh(r) \/ ReuseRevoke(r) \/ ReuseRearm(r)
               \/ SpendRefresh(r) \/ CommitRotation(r) \/ Reread(r) \/ RetryAccess(r)
               \/ RetryNext(r) \/ RevokeLookup(r) \/ RevokeCascade(r) \/ RevokeTake(r)
               \/ RevokeAccess(r) \/ RevokeDelete(r)
      BY <3>1, <3>5 DEF RefreshSteps, LookupSteps, ReadRefresh, RestoreRefresh, ReuseRevoke,
         ReuseRearm, SpendRefresh, CommitRotation, Reread, RetryAccess, RetryNext, RevokeLookup,
         RevokeCascade, RevokeTake, RevokeAccess, RevokeDelete
    <3> QED BY <1>4, <3>2, <3>3, <3>4, <3>5 DEF RequestStep
  <2> QED BY <2>1, <2>2
<1>5. ASSUME NEW r \in Requests, NEW c \in ClientIds, NEW y \in AuthCodes, StartRedeem(r, c, y)
      PROVE  CodeUsable(x)
  <2>1. UNCHANGED codes /\ req' = [req EXCEPT ![r] = [Idle EXCEPT !.pc = "take_code", !.client = c,
                                                               !.cred = y, !.since = now]]
    BY <1>5 DEF StartRedeem
  <2>2. req'[r].pc = "take_code" /\ \A s \in Requests : s # r => req'[s] = req[s]
    BY <1>1, <2>1 DEF Handlers, Idle
  <2> QED BY <1>1, <2>1, <2>2, CodeKeptClosed DEF CodeKept
<1>6. ASSUME NEW y \in AuthCodes, NEW c, NEW s, NEW t, IssueCode(y, c, s, t) PROVE CodeUsable(x)
  BY <1>1, <1>6 DEF IssueCode, put_authorization_code, CodeUsable
<1> QED BY <1>2, <1>4, <1>5, <1>6, EnvironmentTame DEF Next

\* The record of token n in the store is as it was, gone, no longer Active or put back, and the
\* requests about to put it back hold the one they held, or the one they have just taken.
TokenKept(n) ==
    /\ \/ refresh'[n] \in {refresh[n], None}
       \/ refresh'[n].state # "Active"
       \/ \E r \in Requests : /\ req[r].pc = "restore_refresh" /\ req[r].cred = n
                              /\ refresh'[n] = req[r].rec
    /\ \A r \in Requests : req'[r].pc = "restore_refresh" /\ req'[r].cred = n =>
           \/ req[r].pc = "restore_refresh" /\ req[r].cred = n /\ req'[r].rec = req[r].rec
           \/ refresh[n] # None /\ req'[r].rec = refresh[n]

ActiveRecord(rec) == Unexpired(rec) /\ rec.state = "Active"

\* Such a step reopens no token.
LEMMA TokenKeptClosed ==
    ASSUME Typed, Typed', now <= now', NEW n \in RefreshTokens, TokenKept(n), TokenUsable(n)'
    PROVE  TokenUsable(n)
<1>1. ASSUME NEW rec \in Option(RefreshTokenRecord(Nat)), ActiveRecord(rec)' PROVE ActiveRecord(rec)
  <2>1. rec # None /\ rec.expires_at \in Option(Nat)
    BY <1>1 DEF ActiveRecord, Unexpired, RefreshTokenRecord, Option
  <2>2. CASE rec.expires_at = None
    BY <1>1, <2>1, <2>2 DEF ActiveRecord, Unexpired
  <2>3. CASE rec.expires_at \in Nat
    BY <1>1, <2>1, <2>3 DEF ActiveRecord, Unexpired, Typed, Books
  <2> QED BY <2>1, <2>2, <2>3 DEF Option
<1>2. /\ refresh[n] \in Option(RefreshTokenRecord(Nat))
      /\ \A s \in Requests : req[s].pc = "restore_refresh"
             => req[s].rec \in Option(RefreshTokenRecord(Nat))
  BY DEF Typed, TypeOK, Option, Handlers, Proper, RefreshSteps, HoldsRefresh
<1>3. TokenUsable(n) <=> \/ ActiveRecord(refresh[n])
                         \/ \E s \in Requests : /\ req[s].pc = "restore_refresh" /\ req[s].cred = n
                                                /\ ActiveRecord(req[s].rec)
  BY DEF TokenUsable, LiveRefresh, ActiveRecord
<1>4. CASE ActiveRecord(refresh[n])'
  <2>1. refresh'[n].state = "Active" /\ refresh'[n] # None
    BY <1>4 DEF ActiveRecord, Unexpired
  <2>2. CASE refresh'[n] = refresh[n]
    <3>1. ActiveRecord(refresh[n])
      BY <1>1, <1>2, <1>4, <2>2 DEF ActiveRecord, Unexpired
    <3> QED BY <1>3, <3>1
  <2>3. ASSUME NEW r \in Requests, req[r].pc = "restore_refresh", req[r].cred = n,
               refresh'[n] = req[r].rec
        PROVE  TokenUsable(n)
    <3>1. ActiveRecord(req[r].rec)
      BY <1>1, <1>2, <1>4, <2>3 DEF ActiveRecord, Unexpired
    <3> QED BY <1>3, <2>3, <3>1
  <2> QED BY <2>1, <2>2, <2>3 DEF TokenKept
<1>5. ASSUME NEW s \in Requests, req'[s].pc = "restore_refresh", req'[s].cred = n,
             ActiveRecord(req[s].rec)'
      PROVE  TokenUsable(n)
  <2>1. \/ req[s].pc = "restore_refresh" /\ req[s].cred = n /\ req'[s].rec = req[s].rec
        \/ refresh[n] # None /\ req'[s].rec = refresh[n]
    BY <1>5 DEF TokenKept
  <2>2. CASE req[s].pc = "restore_refresh" /\ req[s].cred = n /\ req'[s].rec = req[s].rec
    <3>1. ActiveRecord(req[s].rec)
      BY <1>1, <1>2, <1>5, <2>2 DEF ActiveRecord, Unexpired
    <3> QED BY <1>3, <2>2, <3>1
  <2>3. CASE req'[s].rec = refresh[n]
    <3>1. ActiveRecord(refresh[n])
      BY <1>1, <1>2, <1>5, <2>3 DEF ActiveRecord, Unexpired
    <3> QED BY <1>3, <3>1
  <2> QED BY <2>1, <2>2, <2>3
<1>6. \/ ActiveRecord(refresh[n])'
      \/ \E s \in Requests : /\ req'[s].pc = "restore_refresh" /\ req'[s].cred = n
                             /\ ActiveRecord(req[s].rec)'
  BY DEF TokenUsable, LiveRefresh, ActiveRecord
<1> QED BY <1>4, <1>5, <1>6

\* Under strict rotation no step reopens a token that some response carried.
LEMMA TokensClose ==
    ASSUME Typed, Typed', Rotated, Strict, [Next]_vars, NEW n \in HeldRefresh, TokenUsable(n)'
    PROVE  TokenUsable(n)
<1>1. now <= now' /\ Handlers /\ n \in RefreshTokens /\ ~Reuse
  BY TimePasses, HeldTypes DEF Typed, Strict
<1>2. ASSUME NEW r \in Requests, Moves(r),
             req'[r].pc = "restore_refresh" =>
                 refresh[req[r].cred] # None /\ req'[r].rec = refresh[req[r].cred]
                 /\ req'[r].cred = req[r].cred
      PROVE  TokenUsable(n)
  <2>1. \/ refresh'[n] \in {refresh[n], None}
        \/ refresh'[n].state # "Active"
        \/ req[r].pc = "restore_refresh" /\ req[r].cred = n /\ refresh'[n] = req[r].rec
    BY <1>1, <1>2 DEF Moves, ActiveRow, PutsBack, GivesUp, ClaimsToken
  <2>2. \A s \in Requests : s # r => req'[s] = req[s]
    BY <1>2 DEF Moves
  <2>3. TokenKept(n)
    BY <1>2, <2>1, <2>2 DEF TokenKept
  <2> QED BY <1>1, <2>3, TokenKeptClosed
<1>3. ASSUME NEW r \in Requests, RequestStep(r) PROVE TokenUsable(n)
  <2>1. Moves(r) /\ req[r] \in Request
    BY <1>1, <1>3, StepMoves DEF Handlers
  <2>2. ASSUME req'[r].pc = "restore_refresh"
        PROVE  /\ refresh[req[r].cred] # None /\ req'[r].rec = refresh[req[r].cred]
               /\ req'[r].cred = req[r].cred
    <3>1. ReadRefresh(r)
      BY <1>3, <2>2, StepEnds DEF IssueSteps, CloseSteps, TakenSteps
    <3>2. ~Return(r)
      BY <1>1, <2>2, ReturnContinues DEF Idle
    <3>3. /\ refresh[req[r].cred] # None
          /\ \E pc : req' = [req EXCEPT ![r].pc = pc, ![r].rec = refresh[req[r].cred]]
      BY <3>1, <3>2 DEF ReadRefresh, GiveBack, Strict
    <3> QED BY <1>1, <2>1, <3>3 DEF Handlers, Request
  <2> QED BY <1>2, <2>1, <2>2
<1>4. ASSUME NEW r \in Requests, Moves(r), req'[r].pc # "restore_refresh" PROVE TokenUsable(n)
  BY <1>2, <1>4
<1>5. ASSUME NEW r \in Requests, Abandon(r) PROVE TokenUsable(n)
  <2>1. req'[r] = Idle
    BY <1>1, <1>5, ReturnContinues DEF Abandon
  <2> QED BY <1>4, <1>5, <2>1, AbandonMoves DEF Idle
<1>6. ASSUME NEW r \in Requests, NEW c \in ClientIds, NEW x,
             \/ x \in AuthCodes /\ StartRedeem(r, c, x)
             \/ StartRefresh(r, c, x)
             \/ StartRevoke(r, c, x)
      PROVE  TokenUsable(n)
  <2>1. PICK pc \in {"take_code", "read_refresh", "revoke_lookup", "revoke_access"} :
            req' = [req EXCEPT ![r] = [Idle EXCEPT !.pc = pc, !.client = c, !.cred = x,
                                                   !.since = now]]
    BY <1>6 DEF StartRedeem, StartRefresh, StartRevoke
  <2>2. req'[r].pc = pc
    BY <1>1, <2>1 DEF Handlers, Idle
  <2> QED BY <1>4, <1>6, <2>2, StartMoves
<1>7. ASSUME UNCHANGED req, refresh'[n] \in {refresh[n], None} PROVE TokenUsable(n)
  <2>1. TokenKept(n)
    BY <1>7 DEF TokenKept
  <2> QED BY <1>1, <2>1, TokenKeptClosed
<1> QED BY <1>1, <1>3, <1>5, <1>6, <1>7, EnvironmentVanishes DEF Next

\* An answered credential is closed after the step, in the store and in the hands of every request.
LEMMA AnsweredClosed ==
    ASSUME RedeemedOnce', Rotated', Strict', NEW c \in Holders, Answered(c)'
    PROVE  ~Usable(c)'
<1>1. CASE c \in AuthCodes
  <2>1. ~Open(c)'
    BY <1>1 DEF RedeemedOnce, ClosedOnceAnswered
  <2>2. \A r \in Requests : ~Claims(r, c)'
    BY <1>1 DEF RedeemedOnce, OneClaim
  <2> QED BY <1>1, <2>1, <2>2 DEF Usable, CodeUsable, Open, Claims
<1>2. CASE c \notin AuthCodes
  <2>1. c \in RefreshTokens /\ Settled(c)'
    BY <1>2 DEF Holders, Answered, Settled, Strict, Retryable
  <2>2. ~ActiveRow(c)' /\ \A r \in Requests : ~ClaimsToken(r, c)'
    BY <2>1 DEF Rotated, ActiveUnsettled, OneTokenClaim, Strict
  <2> QED BY <1>2, <2>2 DEF Usable, TokenUsable, LiveRefresh, Unexpired, ActiveRow, ClaimsToken
<1> QED BY <1>1, <1>2

\* The token endpoint draws no authorization codes.
LEMMA DrawsNoCode ==
    ASSUME Typed, NEW r \in Requests, RequestStep(r), NEW x \in AuthCodes, x \in used'
    PROVE  x \in used
<1>1. req[r] \in Request /\ Proper(req[r])
  BY DEF Typed, Handlers
<1>2. x \notin AccessTokens /\ x \notin RefreshTokens /\ x \notin FamilyIds /\ x # None
  BY IdentifierAssumption, AbsentAssumption
<1>3. ASSUME NEW q, NEW chain \in Option(FamilyIds), BeginIssue(r, q, chain) PROVE x \in used
  BY <1>2, <1>3 DEF BeginIssue, Fresh, Option
<1>4. CASE ConsumeCode(r)
  BY <1>3, <1>4 DEF ConsumeCode, Option
<1>5. CASE SpendRefresh(r)
  <2>1. req[r].rec.family_id \in Option(FamilyIds)
    BY <1>1, <1>5 DEF SpendRefresh, Proper, RefreshSteps, HoldsRefresh, RefreshTokenRecord, Option
  <2> QED BY <1>3, <1>5, <2>1 DEF SpendRefresh
<1>6. CASE ReadRefresh(r)
  <2>1. req[r].cred \in RefreshTokens
    BY <1>1, <1>6 DEF ReadRefresh, Proper, LookupSteps
  <2>2. refresh[req[r].cred] = None \/ refresh[req[r].cred].family_id \in Option(FamilyIds)
    BY <2>1 DEF Typed, TypeOK, RefreshTokenRecord, Option
  <2> DEFINE rec == refresh[req[r].cred]
  <2>3. UNCHANGED used \/ (rec # None /\ BeginIssue(r, [req[r] EXCEPT !.rec = rec], rec.family_id))
    BY <1>6 DEF ReadRefresh
  <2> HIDE DEF rec
  <2> QED BY <1>3, <2>2, <2>3 DEF rec
<1>7. CASE ~ConsumeCode(r) /\ ~SpendRefresh(r) /\ ~ReadRefresh(r)
  <2>1. UNCHANGED used
    BY <1>7 DEF RequestStep, TakeCode, RestoreCode, RecordRedemption, UndoAccess, UndoRefresh,
       ReplayLookup, ReplayRevoke, ReplayDelete, ReplayRecord, RestoreRefresh, ReuseRevoke,
       ReuseRearm, PutAccess, PutRefresh, UndoIssuance, CommitRotation, Reread, RetryAccess,
       RetryNext, RevokeLookup, RevokeCascade, RevokeTake, RevokeAccess, RevokeDelete
  <2> QED BY <2>1
<1> QED BY <1>4, <1>5, <1>6, <1>7

\* Under strict rotation a credential is answered for the first time, with a token that no
\* response has carried.
LEMMA StrictAnswers ==
    ASSUME Typed, RedeemedOnce, Rotated, Chained, Strict, NEW r \in Requests, RequestStep(r)
    PROVE  \/ UNCHANGED granted
           \/ \E g : /\ granted' = granted \cup {g} /\ g.from \in Holders /\ g.from = req[r].cred
                     /\ ~Answered(g.from)
                     /\ g.next \in RefreshTokens /\ g.next \notin HeldRefresh
<1> USE DEF storeVars, deviceMaps, tokenMaps, barriers, history, reports, revocations
<1> DEFINE q == req[r]
           New == \E g : /\ granted' = granted \cup {g} /\ g.from \in Holders /\ g.from = q.cred
                         /\ ~Answered(g.from)
                         /\ g.next \in RefreshTokens /\ g.next \notin HeldRefresh
<1>1. /\ Handlers /\ q \in Request /\ Proper(q) /\ Fit(q) /\ ~Reuse /\ ~Retryable
      /\ q.cred \notin DeviceCodes
  BY DEF Typed, Handlers, Rotated, Strict, Retryable, Chained
<1>2. ASSUME q.pc \in Writing
      PROVE  q.next # None /\ q.next \in RefreshTokens /\ q.next \notin HeldRefresh
  <2>1. q.next # None
    BY <1>2 DEF Chained
  <2>2. q.next \in RefreshTokens
    BY <1>1, <1>2, <2>1 DEF Proper, Mints, Writing, IssueSteps, CloseSteps
  <2>3. Minting(r, q.next)
    BY <1>2 DEF Minting, MintSteps, Writing
  <2> QED BY <2>1, <2>2, <2>3 DEF Rotated, UnheldUntilAnswered
<1>3. ASSUME q.pc \in Writing, ~Answered(q.cred), q.cred \in Holders,
             Grant(r, q.family, q.access, q.next)
      PROVE  New
  <2>1. PICK g : granted' = granted \cup {g} /\ g.next = q.next /\ g.from = q.cred
    BY <1>1, <1>3, GrantFacts
  <2> QED BY <1>2, <1>3, <2>1
<1>4. CASE PutAccess(r)
  <2>1. q.next # None
    BY <1>2, <1>4 DEF PutAccess, Writing
  <2> QED BY <1>4, <2>1 DEF PutAccess
<1>5. CASE PutRefresh(r)
  <2>1. q.pc \in Writing /\ q.pc \in IssueSteps
    BY <1>5 DEF PutRefresh, Writing, IssueSteps
  <2>2. UNCHANGED granted \/ (q.cred \notin AuthCodes /\ Grant(r, q.family, q.access, q.next))
    BY <1>1, <1>5 DEF PutRefresh, Issued
  <2>3. ASSUME q.cred \notin AuthCodes PROVE q.cred \in RefreshTokens
    BY <1>1, <2>1, <2>3 DEF Proper, HoldsCode, HoldsRefresh, HoldsGrant
  <2>4. ASSUME NEW n \in RefreshTokens, n = q.cred PROVE ~Answered(n)
    <3>1. ClaimsToken(r, n)
      BY <2>1, <2>4 DEF ClaimsToken
    <3>2. ~Settled(n)
      BY <3>1 DEF Rotated, OneTokenClaim
    <3> QED BY <1>1, <3>2 DEF Settled, Answered
  <2> HIDE DEF New
  <2> QED BY <1>3, <2>1, <2>2, <2>3, <2>4 DEF Holders, New
<1>6. CASE RecordRedemption(r)
  <2>1. q.pc \in Writing /\ q.pc \in CloseSteps
    BY <1>6 DEF RecordRedemption, Writing, CloseSteps
  <2>2. q.cred \in AuthCodes
    BY <1>1, <2>1 DEF Proper, HoldsCode
  <2>3. ASSUME NEW x \in AuthCodes, x = q.cred PROVE ~Answered(x)
    <3>1. Claims(r, x)
      BY <2>1, <2>3 DEF Claims, Redeeming
    <3> QED BY <3>1 DEF RedeemedOnce, OneClaim
  <2>4. UNCHANGED granted \/ Grant(r, q.family, q.access, q.next)
    BY <1>6 DEF RecordRedemption
  <2> HIDE DEF New
  <2> QED BY <1>3, <2>1, <2>2, <2>3, <2>4 DEF Holders, New
<1>7. CASE CommitRotation(r) \/ RetryAccess(r) \/ RetryNext(r)
  BY <1>1, <1>7 DEF CommitRotation, RetryAccess, RetryNext, Fit, RetrySteps
<1>8. CASE /\ ~PutAccess(r) /\ ~PutRefresh(r) /\ ~RecordRedemption(r)
           /\ ~CommitRotation(r) /\ ~RetryAccess(r) /\ ~RetryNext(r)
  BY <1>8 DEF RequestStep, TakeCode, RestoreCode, ConsumeCode, UndoAccess, UndoRefresh,
     ReplayLookup, ReplayRevoke, ReplayDelete, ReplayRecord, ReadRefresh, RestoreRefresh,
     ReuseRevoke, ReuseRearm, SpendRefresh, UndoIssuance, Reread, RevokeLookup, RevokeCascade,
     RevokeTake, RevokeAccess, RevokeDelete
<1> QED BY <1>4, <1>5, <1>6, <1>7, <1>8

\* Every step of the endpoint is a step of the lineage.
LEMMA LineageStep ==
    ASSUME authorization_code_ttl > 0, Typed, Typed', RedeemedOnce, RedeemedOnce',
           Rotated, Rotated', Chained, Strict, Strict', [Next]_vars
    PROVE  Lineage!Next
<1> USE DEF storeVars, deviceMaps, tokenMaps, barriers, history, reports, revocations
<1>1. HeldRefresh \subseteq RefreshTokens
  BY HeldTypes DEF Typed
<1>2. ASSUME NEW c \in Holders, Known(c)' <=> Known(c) PROVE Closes(c)
  <2>1. ASSUME Known(c), Usable(c)' PROVE Usable(c)
    <3>1. CASE c \in AuthCodes
      BY <2>1, <3>1, CodesClose DEF Known, Usable
    <3>2. CASE c \notin AuthCodes
      BY <2>1, <3>2, TokensClose DEF Known, Usable
    <3> QED BY <3>1, <3>2
  <2> QED BY <1>2, <2>1 DEF Closes, Status
<1>3. ASSUME UNCHANGED granted, \A x \in AuthCodes : x \in used' <=> x \in used
      PROVE  Lineage!Next
  <2>1. \A c \in Holders : Known(c)' <=> Known(c)
    BY <1>3 DEF Known, Holders, HeldRefresh
  <2> QED BY <1>2, <1>3, <2>1, ClosesLineage
<1>4. ASSUME NEW r \in Requests, RequestStep(r) PROVE Lineage!Next
  <2>1. \A x \in AuthCodes : x \in used' <=> x \in used
    BY <1>4, DrawsNoCode, StepFrame
  <2>2. CASE UNCHANGED granted
    BY <1>3, <2>1, <2>2
  <2>3. ASSUME NEW g, granted' = granted \cup {g}, g.from \in Holders, g.from = req[r].cred,
               ~Answered(g.from), g.next \in RefreshTokens, g.next \notin HeldRefresh
        PROVE  Lineage!Next
    <3>1. g.next \notin AuthCodes /\ g.next # None
      BY <2>3, IdentifierAssumption, AbsentAssumption
    <3>2. HeldRefresh' = HeldRefresh \cup {g.next}
      BY <2>3, <3>1 DEF HeldRefresh
    <3>3. Known(g.from)
      BY <2>3 DEF Known, Holders, RedeemedOnce, UnknownUntilIssued, Rotated, Presented
    <3>4. g.next # g.from
      BY <2>3, <3>1, <3>3 DEF Known
    <3>5. ASSUME NEW c \in Holders, c # g.next PROVE Known(c)' <=> Known(c)
      BY <2>1, <3>2, <3>5 DEF Known, Holders
    <3>6. ASSUME NEW c \in Holders, c = g.from PROVE Status(c)' = "closed"
      <4>1. Known(c)'
        BY <3>3, <3>4, <3>5, <3>6
      <4>2. Answered(c)'
        BY <2>3, <3>6 DEF Answered
      <4>3. ~Usable(c)'
        BY <4>2, AnsweredClosed
      <4> QED BY <4>1, <4>3 DEF Status
    <3>7. ASSUME NEW c \in Holders, c = g.next
          PROVE  Status(c) = "unknown" /\ Status(c)' \in {"usable", "closed"}
      <4>1. ~Known(c) /\ Known(c)'
        BY <2>3, <3>1, <3>2, <3>7 DEF Known
      <4> QED BY <4>1 DEF Status
    <3>8. Status(g.from) # "unknown"
      BY <3>3 DEF Status
    <3>9. PICK x \in Holders, n \in Holders : x = g.from /\ n = g.next
      BY <2>3 DEF Holders
    <3> QED BY <1>2, <2>3, <3>4, <3>5, <3>6, <3>7, <3>8, <3>9, AnswersLineage
  <2> QED BY <1>4, <2>2, <2>3, StrictAnswers
<1>5. ASSUME NEW x \in AuthCodes, NEW c \in ClientIds, NEW s \in Subjects, NEW t \in 0..MaxNow,
             IssueCode(x, c, s, t)
      PROVE  Lineage!Next
  <2>1. /\ x \notin used /\ used' = used \cup {x} /\ UNCHANGED <<now, req, granted, refresh>>
        /\ \A y \in AuthCodes : y # x => codes'[y] = codes[y]
        /\ codes'[x] = [client_id |-> c, subject |-> s, issued_at |-> t,
                        expires_at |-> now + authorization_code_ttl,
                        state |-> CodeState("Issued", None, None)]
    BY <1>5 DEF IssueCode, put_authorization_code, Typed, TypeOK
  <2>2. Status(x) = "unknown"
    BY <2>1 DEF Status, Known
  <2>3. CodeUsable(x)'
    <3>1. codes'[x].state.status = "Issued" /\ codes'[x].expires_at = now + authorization_code_ttl
      BY <2>1 DEF CodeState
    <3>2. codes'[x] # None
      <4>1. codes'[x] \in AuthorizationCodeRecord(Nat)
        BY <1>5, <2>1, ConfigAssumption DEF AuthorizationCodeRecord, AuthorizationCodeState,
           CodeState, Option, Typed, Books
      <4> QED BY <4>1, AbsentAssumption
    <3>3. now' < now + authorization_code_ttl
      BY <2>1, ConfigAssumption DEF Typed, Books
    <3> QED BY <3>1, <3>2, <3>3 DEF CodeUsable
  <2>4. Status(x)' = "usable"
    BY <2>1, <2>3 DEF Status, Known, Usable
  <2>5. ASSUME NEW d \in Holders, d # x PROVE Status(d)' = Status(d)
    <3>1. CASE d \in AuthCodes
      BY <2>1, <2>5, <3>1 DEF Status, Known, Usable, CodeUsable
    <3>2. CASE d \notin AuthCodes
      BY <2>1, <3>2 DEF Status, Known, Usable, TokenUsable, LiveRefresh, Unexpired, HeldRefresh
    <3> QED BY <3>1, <3>2
  <2> QED BY <2>1, <2>2, <2>4, <2>5, IssuesLineage
<1>6. ASSUME NEW r \in Requests, NEW c \in ClientIds, NEW x,
             StartRedeem(r, c, x) \/ StartRefresh(r, c, x) \/ StartRevoke(r, c, x)
      PROVE  UNCHANGED <<granted, used>>
  BY <1>6 DEF StartRedeem, StartRefresh, StartRevoke
<1>7. ASSUME NEW r \in Requests, Abandon(r) PROVE UNCHANGED <<granted, used>>
  BY <1>7 DEF Abandon
<1>8. ASSUME NEW c, NEW s, NEW k, NEW g,
             \/ RecordConsent(k, c, s) \/ WithdrawConsent(k) \/ DeleteClient(c)
             \/ ProvisionClient(c, g) \/ Sweep \/ Tick \/ UNCHANGED vars
      PROVE  UNCHANGED <<granted, used>>
  BY <1>8 DEF RecordConsent, WithdrawConsent, DeleteClient, ProvisionClient, Sweep, Tick, vars
<1>9. ASSUME UNCHANGED <<granted, used>> PROVE Lineage!Next
  BY <1>3, <1>9
<1> QED BY <1>4, <1>5, <1>6, <1>7, <1>8, <1>9 DEF Next

\* Under strict rotation the endpoint implements GrantLineage, whatever the requests, the faults
\* and the other settings: no step reopens a credential that was closed, makes a token usable
\* before it is answered, or answers a credential with two successors (authorization_code_token,
\* refresh_token, restore_refresh_token).  The server issues refresh tokens, and a code lives for a while.
THEOREM StrictRotationImplementsLineage ==
    ASSUME issue_refresh_tokens, authorization_code_ttl > 0
    PROVE  Spec /\ Strict => ImplementsLineage
<1>1. Init => Chained
  BY AbsentAssumption DEF Init, Chained, Idle, Writing
<1>2. Typed /\ Typed' /\ Rotated /\ Chained /\ [Next]_vars => Chained'
  BY ChainedStep
<1>3. Typed /\ Typed' /\ Rotated /\ Strict /\ [Next]_vars => Strict'
  <2> SUFFICES ASSUME Typed, Typed', Rotated, Strict, [Next]_vars PROVE UNCHANGED config
    BY PolicyStays
  <2>1. ASSUME NEW r \in Requests, Moves(r) PROVE UNCHANGED config
    BY <2>1 DEF Moves
  <2> QED BY <2>1, StepMoves, AbandonMoves, StartMoves, EnvironmentVanishes DEF Next
<1>4. Init => Lineage!Init
  <2> SUFFICES ASSUME Init PROVE Lineage!Init
    OBVIOUS
  <2>1. granted = {} /\ used = {} /\ HeldRefresh = {}
    BY DEF Init, HeldRefresh
  <2>2. \A c \in Holders : Status(c) = "unknown"
    BY <2>1 DEF Status, Known
  <2>3. \A c \in Holders : {g.next : g \in {h \in granted : h.from = c}} \ {c} = {}
    BY <2>1
  <2> QED BY <2>2, <2>3 DEF Lineage!Init, Lineage!Credentials, Holders
<1>5. /\ Typed /\ Typed' /\ RedeemedOnce /\ RedeemedOnce' /\ Rotated /\ Rotated' /\ Chained
      /\ Strict /\ Strict' /\ [Next]_vars
      => Lineage!Next
  BY LineageStep
<1>6. Spec => [](Typed /\ RedeemedOnce)
  BY RedeemedOnceAlways
<1> QED BY <1>1, <1>2, <1>3, <1>4, <1>5, <1>6, RotatedAlways, PTL
        DEF Spec, ImplementsLineage, Lineage!Spec
=============================================================================

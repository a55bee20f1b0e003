------------------------- MODULE TokenEndpointProofs -------------------------
(***************************************************************************)
(* Type correctness of the token and revocation endpoints, for any sets of  *)
(* identifiers, any number of requests at once and any configuration.       *)
(*                                                                          *)
(* A handler's locals are typed by where it is suspended: what it holds at  *)
(* each step is what the store call it is about to make reads.  That makes  *)
(* the type invariant inductive, and the other proofs rest on it.           *)
(***************************************************************************)
EXTENDS TokenEndpoint, StorageLemmas

-----------------------------------------------------------------------------
(***************************************************************************)
(* What a handler holds                                                     *)
(***************************************************************************)
\* The steps at which a request holds a code record it has taken out of the store.
TakenSteps ==
    {"restore_code", "consume_code", "replay_lookup", "replay_revoke", "replay_delete",
     "replay_record"}
\* The steps of `issue`, and those that follow it when the credential is a code.
IssueSteps == {"put_access", "put_refresh", "undo_issuance"}
CloseSteps == {"record_redemption", "undo_access", "undo_refresh"}
\* The steps at which a request holds a refresh record.
RefreshSteps ==
    {"restore_refresh", "reuse_revoke", "reuse_rearm", "spend_refresh", "rotate", "retry_access",
     "retry_next", "revoke_cascade", "revoke_take"}
LookupSteps == {"read_refresh", "reread", "revoke_lookup"}
DeviceSteps ==
    {"authenticate", "draw_user_code", "put_grant", "drop_expired", "decide", "read_grant",
     "write_poll", "deliver_denial", "take_grant"}

HoldsCode(q) ==
    q.cred \in AuthCodes /\ q.client \in ClientIds /\ q.rec \in AuthorizationCodeRecord(Nat)
HoldsRefresh(q) ==
    q.cred \in RefreshTokens /\ q.client \in ClientIds /\ q.rec \in RefreshTokenRecord(Nat)
HoldsGrant(q) ==
    q.cred \in DeviceCodes /\ q.client \in ClientIds /\ q.rec \in DeviceGrant(Nat)

Mints(q) ==
    /\ q.access \in AccessTokens
    /\ q.next # None => q.next \in RefreshTokens /\ q.family \in FamilyIds

\* What a handler holds at each step.
Proper(q) ==
    /\ q.pc = "idle" => q.cred = None
    /\ q.pc = "take_code" => q.cred \in AuthCodes /\ q.client \in ClientIds /\ q.rec = None
    /\ q.pc \in TakenSteps => HoldsCode(q)
    /\ q.pc = "replay_lookup" => q.rec.state.refresh_token # None
    /\ q.pc = "replay_revoke" => q.family \in FamilyIds
    /\ q.pc = "replay_delete" => q.rec.state.access_token # None
    /\ q.pc \in IssueSteps => Mints(q) /\ (HoldsCode(q) \/ HoldsRefresh(q) \/ HoldsGrant(q))
    /\ q.pc \in CloseSteps => Mints(q) /\ HoldsCode(q)
    /\ q.pc \in {"put_refresh", "undo_refresh"} => q.next # None
    /\ q.pc \in LookupSteps => q.cred \in RefreshTokens /\ q.client \in ClientIds
    /\ q.pc \in RefreshSteps => HoldsRefresh(q)
    /\ q.pc = "rotate" => Mints(q) /\ q.family = q.rec.family_id
    /\ q.pc \in {"retry_access", "retry_next"} => q.rec.retry # None
    /\ q.pc = "retry_next" => q.rec.retry.refresh_token # None
    /\ q.pc \in {"revoke_access", "revoke_delete"} => q.cred \in AccessTokens
    /\ q.pc \in DeviceSteps => q.cred \in Option(DeviceCodes)

Handlers == req \in [Requests -> Request] /\ \A r \in Requests : Proper(req[r])

\* The clock, the random source and the history.
Books ==
    /\ config \in Configurations
    /\ now \in Nat
    /\ used \subseteq Credentials \cup FamilyIds
    /\ granted \subseteq TokenResponse
    /\ contained \subseteq AuthCodes
    /\ logged_out \subseteq RefreshTokens
    /\ alarmed \subseteq FamilyIds
    /\ undone \subseteq AuthCodes
    /\ presented \in [AuthCodes -> 0..2]
    /\ revoked \subseteq FamilyIds
    /\ withdrawn_at \in [ClientIds \X Subjects -> Option(Nat)]
    /\ deleted_at \in [ClientIds -> Option(Nat)]

\* The inductive form of the type invariant.
Typed == TypeOK /\ Handlers /\ Books

-----------------------------------------------------------------------------
(***************************************************************************)
(* Moving a handler                                                         *)
(***************************************************************************)
\* Only the handler that ran has moved.
LEMMA Moved ==
    ASSUME Handlers, NEW r \in Requests, NEW q \in Request, Proper(q),
           req' = [req EXCEPT ![r] = q]
    PROVE  Handlers'
BY DEF Handlers

\* A handler that is not running holds nothing.
LEMMA IdleProper == Idle \in Request /\ Proper(Idle)
BY DEF Idle, Request, Option, Proper, Steps, TakenSteps, IssueSteps, CloseSteps, RefreshSteps,
       LookupSteps, DeviceSteps

\* A handler that returns leaves its slot idle.
LEMMA Returned ==
    ASSUME Handlers, NEW r \in Requests, Return(r)
    PROVE  Handlers'
BY IdleProper, Moved DEF Return

\* Moving on changes a handler's program counter and nothing else.
LEMMA GotoFields ==
    ASSUME NEW q \in Request, NEW pc \in Steps
    PROVE  LET q2 == [q EXCEPT !.pc = pc] IN
           /\ q2 \in Request
           /\ q2.pc = pc /\ q2.client = q.client /\ q2.cred = q.cred /\ q2.rec = q.rec
           /\ q2.family = q.family /\ q2.access = q.access /\ q2.next = q.next
           /\ q2.minted_at = q.minted_at /\ q2.failed = q.failed /\ q2.since = q.since
BY DEF Request

\* Moving on with a record that was read.
LEMMA HeldFields ==
    ASSUME NEW q \in Request, NEW pc \in Steps,
           NEW rec \in AuthorizationCodeRecord(Nat) \cup RefreshTokenRecord(Nat) \cup DeviceGrant(Nat)
    PROVE  LET q2 == [q EXCEPT !.pc = pc, !.rec = rec] IN
           /\ q2 \in Request
           /\ q2.pc = pc /\ q2.client = q.client /\ q2.cred = q.cred /\ q2.rec = rec
           /\ q2.family = q.family /\ q2.access = q.access /\ q2.next = q.next
           /\ q2.minted_at = q.minted_at /\ q2.failed = q.failed /\ q2.since = q.since
BY DEF Request, Option

\* Moving on after a call that may have failed.
LEMMA FailedFields ==
    ASSUME NEW q \in Request, NEW pc \in Steps, NEW failed \in BOOLEAN
    PROVE  LET q2 == [q EXCEPT !.pc = pc, !.failed = failed] IN
           /\ q2 \in Request
           /\ q2.pc = pc /\ q2.client = q.client /\ q2.cred = q.cred /\ q2.rec = q.rec
           /\ q2.family = q.family /\ q2.access = q.access /\ q2.next = q.next
           /\ q2.minted_at = q.minted_at /\ q2.since = q.since
BY DEF Request

\* A handler that holds a code and moves among the steps that do.
LEMMA CodeGoto ==
    ASSUME Handlers, NEW r \in Requests, NEW pc \in TakenSteps \cup CloseSteps, Goto(r, pc),
           HoldsCode(req[r]),
           pc = "replay_lookup" => req[r].rec.state.refresh_token # None,
           pc = "replay_delete" => req[r].rec.state.access_token # None,
           pc = "replay_revoke" => req[r].family \in FamilyIds,
           pc \in CloseSteps => Mints(req[r]),
           pc = "undo_refresh" => req[r].next # None
    PROVE  Handlers'
<1> DEFINE q == req[r]
           q2 == [q EXCEPT !.pc = pc]
<1>1. pc \in Steps
  BY DEF TakenSteps, CloseSteps, Steps
<1>2. q \in Request
  BY DEF Handlers
<1>3. q2 \in Request /\ q2.pc = pc /\ q2.client = q.client /\ q2.cred = q.cred /\ q2.rec = q.rec
      /\ q2.family = q.family /\ q2.access = q.access /\ q2.next = q.next
  BY <1>1, <1>2, GotoFields
<1>4. Proper(q2)
  <2> HIDE DEF q2
  <2> QED BY <1>3 DEF Proper, HoldsCode, Mints, TakenSteps, CloseSteps, IssueSteps, RefreshSteps,
               LookupSteps, DeviceSteps
<1>5. req' = [req EXCEPT ![r] = q2]
  BY DEF Goto
<1> QED BY <1>3, <1>4, <1>5, Moved

\* A handler that holds a refresh record and moves among the steps that do.
LEMMA RefreshHeld ==
    ASSUME Handlers, NEW r \in Requests, NEW pc \in RefreshSteps, pc # "rotate",
           NEW rec \in RefreshTokenRecord(Nat),
           req' = [req EXCEPT ![r].pc = pc, ![r].rec = rec],
           req[r].cred \in RefreshTokens, req[r].client \in ClientIds,
           pc \in {"retry_access", "retry_next"} => rec.retry # None,
           pc = "retry_next" => rec.retry.refresh_token # None
    PROVE  Handlers'
<1> DEFINE q == req[r]
           q2 == [q EXCEPT !.pc = pc, !.rec = rec]
<1>1. pc \in Steps
  BY DEF RefreshSteps, Steps
<1>2. q \in Request
  BY DEF Handlers
<1>3. q2 \in Request /\ q2.pc = pc /\ q2.client = q.client /\ q2.cred = q.cred /\ q2.rec = rec
  <2> HIDE DEF q
  <2> QED BY <1>1, <1>2 DEF Request, Option
<1>4. Proper(q2)
  <2> HIDE DEF q2
  <2> QED BY <1>3 DEF Proper, HoldsRefresh, Mints, TakenSteps, CloseSteps, IssueSteps,
               RefreshSteps, LookupSteps, DeviceSteps
<1>5. req' = [req EXCEPT ![r] = q2]
  OBVIOUS
<1> QED BY <1>3, <1>4, <1>5, Moved

\* The same, with the record it already holds.
LEMMA RefreshGoto ==
    ASSUME Handlers, NEW r \in Requests, NEW pc \in RefreshSteps, pc # "rotate", Goto(r, pc),
           HoldsRefresh(req[r]),
           pc \in {"retry_access", "retry_next"} => req[r].rec.retry # None,
           pc = "retry_next" => req[r].rec.retry.refresh_token # None
    PROVE  Handlers'
<1> DEFINE q == req[r]
           q2 == [q EXCEPT !.pc = pc]
<1>1. pc \in Steps
  BY DEF RefreshSteps, Steps
<1>2. q \in Request
  BY DEF Handlers
<1>3. q2 \in Request /\ q2.pc = pc /\ q2.client = q.client /\ q2.cred = q.cred /\ q2.rec = q.rec
  BY <1>1, <1>2, GotoFields
<1>4. Proper(q2)
  <2> HIDE DEF q2
  <2> QED BY <1>3 DEF Proper, HoldsRefresh, Mints, TakenSteps, CloseSteps, IssueSteps,
               RefreshSteps, LookupSteps, DeviceSteps
<1>5. req' = [req EXCEPT ![r] = q2]
  BY DEF Goto
<1> QED BY <1>3, <1>4, <1>5, Moved

\* A handler in the middle of `issue`.
LEMMA IssueGoto ==
    ASSUME Handlers, NEW r \in Requests, NEW pc \in {"put_refresh", "undo_issuance"}, Goto(r, pc),
           req[r].pc \in IssueSteps, req[r].next # None
    PROVE  Handlers'
<1> DEFINE q == req[r]
           q2 == [q EXCEPT !.pc = pc]
<1>1. pc \in Steps
  BY DEF Steps
<1>2. q \in Request /\ Proper(q)
  BY DEF Handlers
<1>3. q2 \in Request /\ q2.pc = pc /\ q2.client = q.client /\ q2.cred = q.cred /\ q2.rec = q.rec
      /\ q2.family = q.family /\ q2.access = q.access /\ q2.next = q.next
  BY <1>1, <1>2, GotoFields
<1>4. Proper(q2)
  <2> HIDE DEF q2
  <2> QED BY <1>2, <1>3 DEF Proper, HoldsRefresh, HoldsCode, HoldsGrant, Mints, TakenSteps,
               CloseSteps, IssueSteps, RefreshSteps, LookupSteps, DeviceSteps
<1>5. req' = [req EXCEPT ![r] = q2]
  BY DEF Goto
<1> QED BY <1>3, <1>4, <1>5, Moved

\* A handler that has just begun, with a credential and no record.
LEMMA Started ==
    ASSUME Handlers, NEW r \in Requests, NEW pc \in Steps, NEW c \in ClientIds,
           NEW cred \in Credentials, NEW t \in Nat,
           req' = [req EXCEPT ![r] = [Idle EXCEPT !.pc = pc, !.client = c, !.cred = cred,
                                                  !.since = t]],
           \/ pc = "take_code" /\ cred \in AuthCodes
           \/ pc \in {"read_refresh", "revoke_lookup"} /\ cred \in RefreshTokens
           \/ pc = "revoke_access" /\ cred \in AccessTokens
           \/ pc = "read_grant" /\ cred \in DeviceCodes
    PROVE  Handlers'
<1> DEFINE q2 == [Idle EXCEPT !.pc = pc, !.client = c, !.cred = cred, !.since = t]
<1>1. q2 \in Request /\ q2.pc = pc /\ q2.client = c /\ q2.cred = cred /\ q2.rec = None
  BY DEF Request, Idle, Option
<1>2. Proper(q2)
  <2> HIDE DEF q2
  <2> QED BY <1>1 DEF Proper, TakenSteps, CloseSteps, IssueSteps, RefreshSteps, LookupSteps,
               DeviceSteps, Option
<1> QED BY <1>1, <1>2, Moved

-----------------------------------------------------------------------------
(***************************************************************************)
(* Calls that leave a part of the state alone                               *)
(***************************************************************************)
\* A call that fails, or a step that makes none.
LEMMA StoreUnchanged == ASSUME TypeOK, UNCHANGED storeVars PROVE TypeOK'
BY DEF TypeOK, storeVars, deviceMaps, tokenMaps, barriers

\* A step that moves neither the clock nor the history.
LEMMA BooksUnchanged ==
    ASSUME Books, UNCHANGED <<config, now, used, history>>
    PROVE  Books'
BY DEF Books, history, reports, revocations

\* A step that only hands a response out.
LEMMA BooksGranted ==
    ASSUME Books, UNCHANGED <<config, now, used, reports, revocations>>,
           granted' \subseteq TokenResponse
    PROVE  Books'
BY DEF Books, reports, revocations

\* A step that only draws identifiers.
LEMMA BooksDrawn ==
    ASSUME Books, UNCHANGED <<config, now, history>>,
           used' \subseteq Credentials \cup FamilyIds
    PROVE  Books'
BY DEF Books, history, reports, revocations

\* A step that only revokes a family.
LEMMA BooksRevoked ==
    ASSUME Books, UNCHANGED <<config, now, used, granted, reports, withdrawn_at, deleted_at>>,
           revoked' \subseteq FamilyIds
    PROVE  Books'
BY DEF Books, reports

\* revocation_window is a window.
LEMMA WindowType == Books => revocation_window \in RevocationWindow(Nat) /\ Longest \in Nat
<1> DEFINE lifetimes == {access_token_ttl, IF refresh_token_ttl = None THEN 0 ELSE refresh_token_ttl,
                         refresh_reuse_window, authorization_code_ttl, device_code_ttl}
<1>1. lifetimes \subseteq Nat
  BY ConfigAssumption DEF Option
<1>2. \E t \in lifetimes : \A u \in lifetimes : u <= t
  <2> DEFINE a == access_token_ttl
             b == IF refresh_token_ttl = None THEN 0 ELSE refresh_token_ttl
             c == refresh_reuse_window
             d == authorization_code_ttl
             e == device_code_ttl
  <2>1. a \in Nat /\ b \in Nat /\ c \in Nat /\ d \in Nat /\ e \in Nat
    BY <1>1
  <2> HIDE DEF a, b, c, d, e
  <2>2. \E t \in {a, b, c, d, e} : a <= t /\ b <= t /\ c <= t /\ d <= t /\ e <= t
    BY <2>1
  <2>3. lifetimes = {a, b, c, d, e}
    BY DEF a, b, c, d, e
  <2> QED BY <2>2, <2>3
<1>3. Longest \in Nat
  BY <1>1, <1>2 DEF Longest
<1> QED BY <1>3 DEF Books, revocation_window, RevocationWindow

-----------------------------------------------------------------------------
(***************************************************************************)
(* issue                                                                    *)
(***************************************************************************)
\* The records `issue` writes are records of their tables.
LEMMA IssuedRecords ==
    ASSUME NEW q \in Request, HoldsCode(q) \/ HoldsRefresh(q) \/ HoldsGrant(q)
    PROVE  /\ AccessRecord(q) \in IssuedToken(Nat)
           /\ q.family \in FamilyIds => NextRecord(q) \in RefreshTokenRecord(Nat)
<1>1. Established(q) \in Nat /\ GrantSubject(q) \in Option(Subjects)
  <2>1. CASE HoldsCode(q)
    BY <2>1, IdentifierAssumption DEF HoldsCode, Established, GrantSubject,
       AuthorizationCodeRecord, Option
  <2>2. CASE HoldsRefresh(q)
    BY <2>2, IdentifierAssumption DEF HoldsRefresh, Established, GrantSubject, RefreshTokenRecord
  <2>3. CASE HoldsGrant(q)
    <3>1. q.cred \in DeviceCodes /\ q.cred \notin AuthCodes /\ q.rec \in DeviceGrant(Nat)
      BY <2>3, IdentifierAssumption DEF HoldsGrant
    <3>2. q.rec.created_at \in Nat /\ q.rec.state \in DeviceGrantState
      BY <3>1 DEF DeviceGrant
    <3>3. q.rec.state.subject \in Option(Subjects)
      BY <3>2 DEF DeviceGrantState, Option
    <3> QED BY <3>1, <3>2, <3>3 DEF Established, GrantSubject
  <2> QED BY <2>1, <2>2, <2>3
<1>2. q.client \in ClientIds /\ q.family \in Option(FamilyIds) /\ q.minted_at \in Nat
  BY DEF HoldsCode, HoldsRefresh, HoldsGrant, Request
<1>3. AccessRecord(q) \in IssuedToken(Nat)
  <2>1. q.minted_at + access_token_ttl \in Nat
    BY <1>2, ConfigAssumption
  <2> QED BY <1>1, <1>2, <2>1 DEF AccessRecord, IssuedToken
<1>4. ASSUME q.family \in FamilyIds PROVE NextRecord(q) \in RefreshTokenRecord(Nat)
  <2> DEFINE e == IF q.cred \in RefreshTokens THEN q.rec.expires_at
                  ELSE IF refresh_token_ttl = None THEN None
                  ELSE q.minted_at + refresh_token_ttl
  <2>1. e \in Option(Nat)
    <3>1. CASE q.cred \in RefreshTokens
      BY <3>1, IdentifierAssumption DEF HoldsCode, HoldsRefresh, HoldsGrant, RefreshTokenRecord
    <3>2. CASE q.cred \notin RefreshTokens
      BY <3>2, <1>2, ConfigAssumption DEF Option
    <3> QED BY <3>1, <3>2
  <2> HIDE DEF e
  <2>2. NextRecord(q) = [client_id |-> q.client, subject |-> GrantSubject(q), family_id |-> q.family,
             grant_established_at |-> Established(q), expires_at |-> e, state |-> "Active",
             retry |-> None]
    BY DEF NextRecord, e
  <2>3. None \in Option(RefreshTokenRetry(Nat))
    BY DEF Option
  <2> QED BY <1>1, <1>2, <1>4, <2>1, <2>2, <2>3 DEF RefreshTokenRecord
<1> QED BY <1>3, <1>4

\* Drawing identifiers and starting to write, or giving up.
LEMMA BeginIssueTyped ==
    ASSUME Handlers, Books, NEW r \in Requests, NEW q \in Request,
           NEW chain \in Option(FamilyIds),
           HoldsCode(q) \/ HoldsRefresh(q) \/ HoldsGrant(q),
           chain # None => HoldsRefresh(q) /\ chain = q.rec.family_id,
           BeginIssue(r, q, chain)
    PROVE  Handlers' /\ used' \subseteq Credentials \cup FamilyIds
<1>1. CASE Return(r) /\ UNCHANGED used
  BY <1>1, Returned DEF Books
<1>2. CASE ~(Return(r) /\ UNCHANGED used)
  <2> DEFINE pc == IF chain # None /\ Retryable THEN "rotate" ELSE "put_access"
  <2>1. PICK a \in AccessTokens \ used, n \in Fresh(RefreshTokens, MintsRefresh(chain)),
             f \in IF chain = None THEN Fresh(FamilyIds, MintsRefresh(chain)) ELSE {chain} :
           /\ req' = [req EXCEPT ![r] = [q EXCEPT !.pc = pc, !.access = a, !.next = n,
                                                  !.family = f, !.minted_at = now]]
           /\ used' = used \cup ({a, n, f} \ {None})
    BY <1>2 DEF BeginIssue
  <2>2. n \in Option(RefreshTokens) /\ f \in Option(FamilyIds)
    BY DEF Fresh, Option
  <2>3. n # None => f \in FamilyIds
    BY <2>2 DEF Fresh, Option
  <2>4. chain # None => f = chain
    OBVIOUS
  <2>5. pc \in Steps /\ pc \in {"rotate", "put_access"} /\ (pc = "rotate" => chain # None)
    BY DEF Steps
  <2>6. now \in Nat
    BY DEF Books
  <2> DEFINE q2 == [q EXCEPT !.pc = pc, !.access = a, !.next = n, !.family = f, !.minted_at = now]
  <2> HIDE DEF pc
  <2>7. /\ q2 \in Request
        /\ q2.pc = pc /\ q2.client = q.client /\ q2.cred = q.cred /\ q2.rec = q.rec
        /\ q2.access = a /\ q2.next = n /\ q2.family = f
    BY <2>2, <2>5, <2>6 DEF Request, Option
  <2>8. Proper(q2)
    <3> HIDE DEF q2
    <3> QED BY <2>2, <2>3, <2>4, <2>5, <2>7 DEF Proper, Option, HoldsCode, HoldsRefresh, HoldsGrant,
               Mints, TakenSteps, CloseSteps, IssueSteps, RefreshSteps, LookupSteps, DeviceSteps
  <2>9. Handlers'
    BY <2>1, <2>7, <2>8, Moved
  <2>10. used' \subseteq Credentials \cup FamilyIds
    BY <2>1, <2>2 DEF Books, Credentials, Option
  <2> QED BY <2>9, <2>10
<1> QED BY <1>1, <1>2

\* The Ok answer is a token response.
LEMMA GrantTyped ==
    ASSUME Handlers, Books, NEW r \in Requests, NEW f \in Option(FamilyIds), NEW a \in AccessTokens,
           NEW n \in Option(RefreshTokens), Grant(r, f, a, n),
           req[r].client \in ClientIds,
           req[r].cred \in AuthCodes \cup RefreshTokens \cup DeviceCodes
    PROVE  Handlers' /\ granted' \subseteq TokenResponse
<1>1. Handlers'
  BY Returned DEF Grant
<1>2. [client |-> req[r].client, from |-> req[r].cred, family |-> f, access |-> a, next |-> n]
          \in TokenResponse
  BY DEF TokenResponse
<1>3. granted' = granted \cup {[client |-> req[r].client, from |-> req[r].cred, family |-> f,
                                access |-> a, next |-> n]}
  BY DEF Grant
<1> QED BY <1>1, <1>2, <1>3 DEF Books

\* What follows the writes of `issue`.
LEMMA IssuedTyped ==
    ASSUME Handlers, Books, NEW r \in Requests, req[r].pc \in IssueSteps, Issued(r)
    PROVE  Handlers' /\ granted' \subseteq TokenResponse
<1> DEFINE q == req[r]
<1>1. q \in Request /\ Proper(q)
  BY DEF Handlers
<1>2. Mints(q) /\ (HoldsCode(q) \/ HoldsRefresh(q) \/ HoldsGrant(q))
  BY <1>1 DEF Proper
<1>3. CASE q.cred \in AuthCodes
  <2>1. HoldsCode(q)
    BY <1>2, <1>3, IdentifierAssumption DEF HoldsCode, HoldsRefresh, HoldsGrant
  <2>2. Goto(r, "record_redemption") /\ UNCHANGED granted
    BY <1>3 DEF Issued
  <2>3. Handlers'
    BY <1>2, <2>1, <2>2, CodeGoto DEF CloseSteps, TakenSteps
  <2> QED BY <2>2, <2>3 DEF Books
<1>4. CASE q.cred \notin AuthCodes
  <2> DEFINE n == IF q.cred \in RefreshTokens /\ Reuse THEN q.cred ELSE q.next
  <2>1. Grant(r, q.family, q.access, n)
    BY <1>4 DEF Issued
  <2>2. q.family \in Option(FamilyIds) /\ q.access \in AccessTokens /\ n \in Option(RefreshTokens)
    BY <1>1, <1>2 DEF Request, Mints, Option
  <2>3. q.client \in ClientIds /\ q.cred \in AuthCodes \cup RefreshTokens \cup DeviceCodes
    BY <1>2 DEF HoldsCode, HoldsRefresh, HoldsGrant
  <2> HIDE DEF n
  <2> QED BY <2>1, <2>2, <2>3, GrantTyped
<1> QED BY <1>3, <1>4

\* put_token, and where it leads.
LEMMA PutAccessTyped ==
    ASSUME Typed, NEW r \in Requests, PutAccess(r)
    PROVE  Typed'
<1> DEFINE q == req[r]
<1>1. q \in Request /\ Proper(q) /\ q.pc = "put_access"
  BY DEF Typed, Handlers, PutAccess
<1>2. Mints(q) /\ (HoldsCode(q) \/ HoldsRefresh(q) \/ HoldsGrant(q))
  BY <1>1 DEF Proper, IssueSteps
<1>3. TypeOK'
  <2>1. AccessRecord(q) \in IssuedToken(Nat)
    BY <1>1, <1>2, IssuedRecords
  <2>2. put_token(q.access, AccessRecord(q)) /\ q.access \in AccessTokens
    BY <1>2 DEF PutAccess, Mints
  <2> QED BY <2>1, <2>2, PutTokenType DEF Typed
<1>4. Handlers' /\ granted' \subseteq TokenResponse
  <2>1. CASE Return(r) /\ UNCHANGED granted
    BY <2>1, Returned DEF Typed, Books
  <2>2. CASE Issued(r)
    BY <1>1, <2>2, IssuedTyped DEF Typed, IssueSteps
  <2>3. CASE q.next # None /\ Goto(r, "put_refresh") /\ UNCHANGED granted
    BY <1>1, <2>3, IssueGoto DEF Typed, Books, IssueSteps
  <2> QED BY <2>1, <2>2, <2>3 DEF PutAccess
<1> QED BY <1>3, <1>4, BooksGranted DEF Typed, PutAccess

\* put_refresh_token of the successor, and where it leads.
LEMMA PutRefreshTyped ==
    ASSUME Typed, NEW r \in Requests, PutRefresh(r)
    PROVE  Typed'
<1> DEFINE q == req[r]
<1>1. q \in Request /\ Proper(q) /\ q.pc = "put_refresh"
  BY DEF Typed, Handlers, PutRefresh
<1>2. Mints(q) /\ q.next # None /\ (HoldsCode(q) \/ HoldsRefresh(q) \/ HoldsGrant(q))
  BY <1>1 DEF Proper, IssueSteps
<1>3. TypeOK'
  <2>1. NextRecord(q) \in RefreshTokenRecord(Nat) /\ q.next \in RefreshTokens
    BY <1>1, <1>2, IssuedRecords DEF Mints
  <2>2. put_refresh_token(q.next, NextRecord(q))
    BY DEF PutRefresh
  <2> QED BY <2>1, <2>2, PutRefreshType DEF Typed
<1>4. Handlers' /\ granted' \subseteq TokenResponse
  <2>1. CASE Issued(r)
    BY <1>1, <2>1, IssuedTyped DEF Typed, IssueSteps
  <2>2. CASE Goto(r, "undo_issuance") /\ UNCHANGED granted
    BY <1>1, <1>2, <2>2, IssueGoto DEF Typed, Books, IssueSteps
  <2> QED BY <2>1, <2>2 DEF PutRefresh
<1> QED BY <1>3, <1>4, BooksGranted DEF Typed, PutRefresh

\* undo_issuance.
LEMMA UndoIssuanceTyped ==
    ASSUME Typed, NEW r \in Requests, UndoIssuance(r)
    PROVE  Typed'
<1>1. req[r] \in Request /\ Proper(req[r]) /\ req[r].pc = "undo_issuance"
  BY DEF Typed, Handlers, UndoIssuance
<1>2. req[r].access \in AccessTokens
  BY <1>1 DEF Proper, IssueSteps, Mints
<1>3. TypeOK'
  BY <1>2, DeleteTokenType, StoreUnchanged DEF Typed, UndoIssuance, CallFails
<1> QED BY <1>3, Returned, BooksUnchanged DEF Typed, UndoIssuance

-----------------------------------------------------------------------------
(***************************************************************************)
(* authorization_code_token                                                 *)
(***************************************************************************)
\* take_authorization_code, and the judgement of what it returned.
LEMMA TakeCodeTyped ==
    ASSUME Typed, NEW r \in Requests, TakeCode(r)
    PROVE  Typed'
<1> DEFINE q == req[r]
           rec == codes[q.cred]
<1>1. q \in Request /\ Proper(q) /\ q.pc = "take_code"
  BY DEF Typed, Handlers, TakeCode
<1>2. q.cred \in AuthCodes /\ q.client \in ClientIds
  BY <1>1 DEF Proper
<1>3. rec \in Option(AuthorizationCodeRecord(Nat))
  BY <1>2 DEF Typed, TypeOK
<1>4. TypeOK'
  BY <1>2, TakeCodeType DEF Typed, TakeCode
<1>5. ASSUME NEW pc \in TakenSteps, rec # None,
             pc = "replay_lookup" => rec.state.refresh_token # None,
             pc = "replay_delete" => rec.state.access_token # None,
             pc # "replay_revoke",
             req' = [req EXCEPT ![r].pc = pc, ![r].rec = rec]
      PROVE  Handlers'
  <2> DEFINE q2 == [q EXCEPT !.pc = pc, !.rec = rec]
  <2>1. q2 \in Request /\ q2.pc = pc /\ q2.rec = rec /\ q2.cred = q.cred /\ q2.client = q.client
    <3>1. pc \in Steps /\ rec \in AuthorizationCodeRecord(Nat)
      BY <1>3, <1>5 DEF Option, TakenSteps, Steps
    <3> HIDE DEF q, rec
    <3> QED BY <1>1, <3>1 DEF Request, Option
  <2>3. Proper(q2)
    <3> HIDE DEF q2
    <3> QED BY <2>1, <1>2, <1>3, <1>5 DEF Proper, HoldsCode, Option, TakenSteps, IssueSteps,
               CloseSteps, RefreshSteps, LookupSteps, DeviceSteps
  <2>4. req' = [req EXCEPT ![r] = q2]
    BY <1>5
  <2> QED BY <2>1, <2>3, <2>4, Moved DEF Typed
<1>6. Handlers'
  <2>1. CASE Return(r)
    BY <2>1, Returned DEF Typed
  <2>2. CASE ~Return(r)
    <3>1. /\ rec # None
          /\ \/ req' = [req EXCEPT ![r].pc = "restore_code", ![r].rec = rec]
             \/ req' = [req EXCEPT ![r].pc = "consume_code", ![r].rec = rec]
             \/ /\ req' = [req EXCEPT ![r].pc = "replay_lookup", ![r].rec = rec]
                /\ rec.state.refresh_token # None
             \/ /\ req' = [req EXCEPT ![r].pc = "replay_delete", ![r].rec = rec]
                /\ rec.state.access_token # None
             \/ req' = [req EXCEPT ![r].pc = "replay_record", ![r].rec = rec]
      BY <2>2 DEF TakeCode
    <3> QED BY <3>1, <1>5 DEF TakenSteps
  <2> QED BY <2>1, <2>2
<1>7. presented' \in [AuthCodes -> 0..2]
  BY <1>2 DEF Typed, Books, TakeCode
<1>8. UNCHANGED <<config, now, used, granted, contained, logged_out, alarmed, undone, revoked,
                  withdrawn_at, deleted_at>>
  BY DEF TakeCode, revocations
<1> QED BY <1>4, <1>6, <1>7, <1>8 DEF Typed, Books

\* put_authorization_code of the record a request has taken and is not entitled to.
LEMMA RestoreCodeTyped ==
    ASSUME Typed, NEW r \in Requests, RestoreCode(r)
    PROVE  Typed'
<1>1. Proper(req[r]) /\ req[r].pc = "restore_code"
  BY DEF Typed, Handlers, RestoreCode
<1>2. HoldsCode(req[r])
  BY <1>1 DEF Proper, TakenSteps
<1>3. TypeOK'
  BY <1>2, CodeType DEF Typed, RestoreCode, HoldsCode
<1> QED BY <1>3, Returned, BooksUnchanged DEF Typed, RestoreCode

\* The code goes back Consumed and issuance begins.
LEMMA ConsumeCodeTyped ==
    ASSUME Typed, NEW r \in Requests, ConsumeCode(r)
    PROVE  Typed'
<1> DEFINE q == req[r]
           after == [q.rec EXCEPT !.state = CodeState("Consumed", None, None)]
<1>1. q \in Request /\ Proper(q) /\ q.pc = "consume_code"
  BY DEF Typed, Handlers, ConsumeCode
<1>2. HoldsCode(q)
  BY <1>1 DEF Proper, TakenSteps
<1>3. after \in AuthorizationCodeRecord(Nat)
  <2>1. CodeState("Consumed", None, None) \in AuthorizationCodeState
    BY DEF CodeState, AuthorizationCodeState, Option
  <2> QED BY <1>2, <2>1 DEF HoldsCode, AuthorizationCodeRecord
<1>4. TypeOK'
  <2>1. put_authorization_code(q.cred, after)
    BY DEF ConsumeCode
  <2> HIDE DEF after
  <2> QED BY <1>2, <1>3, <2>1, CodeType DEF Typed, HoldsCode
<1>5. Handlers' /\ used' \subseteq Credentials \cup FamilyIds
  <2>1. BeginIssue(r, q, None) /\ None \in Option(FamilyIds)
    BY DEF ConsumeCode, Option
  <2> QED BY <1>1, <1>2, <2>1, BeginIssueTyped DEF Typed
<1> QED BY <1>4, <1>5, BooksDrawn DEF Typed, ConsumeCode

\* The compare-and-swap that closes a redemption.
LEMMA RecordRedemptionTyped ==
    ASSUME Typed, NEW r \in Requests, RecordRedemption(r)
    PROVE  Typed'
<1> DEFINE q == req[r]
           before == CodeState("Consumed", None, None)
           after == [q.rec EXCEPT !.state = CodeState("Consumed", q.access, q.next)]
<1>1. q \in Request /\ Proper(q) /\ q.pc = "record_redemption"
  BY DEF Typed, Handlers, RecordRedemption
<1>2. HoldsCode(q) /\ Mints(q)
  BY <1>1 DEF Proper, CloseSteps
<1>3. after \in AuthorizationCodeRecord(Nat)
  <2>1. CodeState("Consumed", q.access, q.next) \in AuthorizationCodeState
    BY <1>2 DEF CodeState, AuthorizationCodeState, Option, Mints
  <2> QED BY <1>2, <2>1 DEF HoldsCode, AuthorizationCodeRecord
<1>4. TypeOK'
  <2>1. compare_and_swap_authorization_code(q.cred, before, after) \/ CallFails
    BY DEF RecordRedemption
  <2> HIDE DEF before, after
  <2> QED BY <1>2, <1>3, <2>1, CodeType, StoreUnchanged DEF Typed, HoldsCode, CallFails
<1>5. /\ Handlers' /\ granted' \subseteq TokenResponse /\ undone' \subseteq AuthCodes
  <2>1. CASE Grant(r, q.family, q.access, q.next) /\ UNCHANGED undone
    BY <1>1, <1>2, <2>1, GrantTyped DEF Typed, Books, Request, Mints, HoldsCode
  <2>2. CASE Goto(r, "undo_access") /\ UNCHANGED granted
             /\ (undone' = undone \cup {q.cred} \/ UNCHANGED undone)
    BY <1>2, <2>2, CodeGoto DEF Typed, Books, CloseSteps, TakenSteps, HoldsCode
  <2> QED BY <2>1, <2>2 DEF RecordRedemption
<1>6. UNCHANGED <<config, now, used, contained, logged_out, alarmed, presented, revoked,
                  withdrawn_at, deleted_at>>
  BY DEF RecordRedemption, revocations
<1> QED BY <1>4, <1>5, <1>6 DEF Typed, Books

\* Taking back the access token.
LEMMA UndoAccessTyped ==
    ASSUME Typed, NEW r \in Requests, UndoAccess(r)
    PROVE  Typed'
<1>1. Proper(req[r]) /\ req[r].pc = "undo_access"
  BY DEF Typed, Handlers, UndoAccess
<1>2. HoldsCode(req[r]) /\ Mints(req[r])
  BY <1>1 DEF Proper, CloseSteps
<1>3. TypeOK'
  BY <1>2, DeleteTokenType, StoreUnchanged DEF Typed, UndoAccess, CallFails, Mints
<1>4. Handlers'
  BY <1>2, Returned, CodeGoto DEF Typed, UndoAccess, CloseSteps, TakenSteps
<1> QED BY <1>3, <1>4, BooksUnchanged DEF Typed, UndoAccess

\* Taking back the refresh token.
LEMMA UndoRefreshTyped ==
    ASSUME Typed, NEW r \in Requests, UndoRefresh(r)
    PROVE  Typed'
<1>1. Proper(req[r]) /\ req[r].pc = "undo_refresh"
  BY DEF Typed, Handlers, UndoRefresh
<1>2. req[r].next \in RefreshTokens
  BY <1>1 DEF Proper, CloseSteps, Mints
<1>3. TypeOK'
  BY <1>2, TakeRefreshType, StoreUnchanged DEF Typed, UndoRefresh, CallFails
<1> QED BY <1>3, Returned, BooksUnchanged DEF Typed, UndoRefresh

\* What follows the revocation of the family of a replayed code.
LEMMA AfterFamilyTyped ==
    ASSUME Handlers, NEW r \in Requests, HoldsCode(req[r]), NEW failed \in BOOLEAN,
           AfterFamily(r, failed)
    PROVE  Handlers'
<1> DEFINE q == req[r]
           pc == IF q.rec.state.access_token = None THEN "replay_record" ELSE "replay_delete"
           q2 == [q EXCEPT !.pc = pc, !.failed = failed]
<1>1. pc \in Steps /\ pc \in {"replay_record", "replay_delete"}
      /\ (pc = "replay_delete" => q.rec.state.access_token # None)
  BY DEF Steps
<1> HIDE DEF pc
<1>2. q \in Request
  BY DEF Handlers
<1>3. q2 \in Request /\ q2.pc = pc /\ q2.client = q.client /\ q2.cred = q.cred /\ q2.rec = q.rec
  <2> HIDE DEF q
  <2> QED BY <1>1, <1>2 DEF Request
<1>4. Proper(q2)
  <2> HIDE DEF q2
  <2> QED BY <1>1, <1>3 DEF Proper, HoldsCode, TakenSteps, IssueSteps, CloseSteps, RefreshSteps,
               LookupSteps, DeviceSteps
<1>5. req' = [req EXCEPT ![r] = q2]
  BY DEF AfterFamily, pc
<1> QED BY <1>3, <1>4, <1>5, Moved

\* get_refresh_token of the token a replayed code names.
LEMMA ReplayLookupTyped ==
    ASSUME Typed, NEW r \in Requests, ReplayLookup(r)
    PROVE  Typed'
<1> DEFINE q == req[r]
           chain == refresh[q.rec.state.refresh_token]
<1>1. q \in Request /\ Proper(q) /\ q.pc = "replay_lookup"
  BY DEF Typed, Handlers, ReplayLookup
<1>2. HoldsCode(q) /\ q.rec.state.refresh_token # None
  BY <1>1 DEF Proper, TakenSteps
<1>3. q.rec.state.refresh_token \in RefreshTokens
  BY <1>2 DEF HoldsCode, AuthorizationCodeRecord, AuthorizationCodeState, Option
<1>4. CASE chain # None /\ req' = [req EXCEPT ![r].pc = "replay_revoke", ![r].family = chain.family_id]
  <2> DEFINE q2 == [q EXCEPT !.pc = "replay_revoke", !.family = chain.family_id]
  <2>1. chain.family_id \in FamilyIds
    BY <1>3, <1>4 DEF Typed, TypeOK, Option, RefreshTokenRecord
  <2>2. /\ q2 \in Request /\ q2.pc = "replay_revoke" /\ q2.family = chain.family_id
        /\ q2.client = q.client /\ q2.cred = q.cred /\ q2.rec = q.rec
    <3> HIDE DEF chain
    <3> QED BY <1>1, <2>1 DEF Request, Option, Steps
  <2>3. Proper(q2)
    <3> HIDE DEF q2, chain
    <3> QED BY <1>2, <2>1, <2>2 DEF Proper, HoldsCode, TakenSteps, IssueSteps, CloseSteps,
               RefreshSteps, LookupSteps, DeviceSteps
  <2>4. req' = [req EXCEPT ![r] = q2]
    BY <1>4
  <2> QED BY <2>2, <2>3, <2>4, Moved, StoreUnchanged, BooksUnchanged DEF Typed, ReplayLookup
<1>5. CASE AfterFamily(r, FALSE) \/ AfterFamily(r, TRUE)
  BY <1>2, <1>5, AfterFamilyTyped, StoreUnchanged, BooksUnchanged DEF Typed, ReplayLookup
<1> QED BY <1>4, <1>5 DEF ReplayLookup

\* revoke_token_family, where a handler makes it.
LEMMA RevokeFamilyTyped ==
    ASSUME Typed, NEW f \in FamilyIds, RevokeFamily(f)
    PROVE  TypeOK' /\ revoked' \subseteq FamilyIds
BY WindowType, RevokeFamilyType DEF Typed, Books, RevokeFamily

\* The family a replayed code's tokens belong to is revoked, or that fails.
LEMMA ReplayRevokeTyped ==
    ASSUME Typed, NEW r \in Requests, ReplayRevoke(r)
    PROVE  Typed'
<1>1. Proper(req[r]) /\ req[r].pc = "replay_revoke"
  BY DEF Typed, Handlers, ReplayRevoke
<1>2. HoldsCode(req[r]) /\ req[r].family \in FamilyIds
  BY <1>1 DEF Proper, TakenSteps
<1>3. CASE RevokeFamily(req[r].family) /\ Goto(r, "replay_record")
  BY <1>2, <1>3, RevokeFamilyTyped, CodeGoto, BooksRevoked DEF Typed, ReplayRevoke, TakenSteps,
     CloseSteps
<1>4. CASE CallFails /\ UNCHANGED revoked /\ AfterFamily(r, TRUE)
  <2>1. UNCHANGED <<config, now, used, granted, reports, withdrawn_at, deleted_at>>
    BY DEF ReplayRevoke
  <2>2. Books'
    BY <1>4, <2>1, BooksRevoked DEF Typed, Books
  <2> QED BY <1>2, <1>4, <2>2, AfterFamilyTyped, StoreUnchanged DEF Typed, CallFails
<1> QED BY <1>3, <1>4 DEF ReplayRevoke

\* The access token a replayed code names is deleted, or that fails.
LEMMA ReplayDeleteTyped ==
    ASSUME Typed, NEW r \in Requests, ReplayDelete(r)
    PROVE  Typed'
<1> DEFINE q == req[r]
<1>1. q \in Request /\ Proper(q) /\ q.pc = "replay_delete"
  BY DEF Typed, Handlers, ReplayDelete
<1>2. HoldsCode(q) /\ q.rec.state.access_token # None
  BY <1>1 DEF Proper, TakenSteps
<1>3. q.rec.state.access_token \in AccessTokens
  BY <1>2 DEF HoldsCode, AuthorizationCodeRecord, AuthorizationCodeState, Option
<1>4. TypeOK'
  BY <1>3, DeleteTokenType, StoreUnchanged DEF Typed, ReplayDelete, CallFails
<1>5. Handlers'
  <2>1. CASE Goto(r, "replay_record")
    BY <1>2, <2>1, CodeGoto DEF Typed, TakenSteps, CloseSteps
  <2>2. CASE req' = [req EXCEPT ![r].pc = "replay_record", ![r].failed = TRUE]
    <3> DEFINE q2 == [q EXCEPT !.pc = "replay_record", !.failed = TRUE]
    <3>1. q2 \in Request /\ q2.pc = "replay_record" /\ q2.client = q.client /\ q2.cred = q.cred
          /\ q2.rec = q.rec
      BY <1>1, FailedFields DEF Steps
    <3>2. Proper(q2)
      <4> HIDE DEF q2
      <4> QED BY <1>2, <3>1 DEF Proper, HoldsCode, TakenSteps, IssueSteps, CloseSteps,
               RefreshSteps, LookupSteps, DeviceSteps
    <3>3. req' = [req EXCEPT ![r] = q2]
      BY <2>2
    <3> QED BY <3>1, <3>2, <3>3, Moved DEF Typed
  <2> QED BY <2>1, <2>2 DEF ReplayDelete
<1> QED BY <1>4, <1>5, BooksUnchanged DEF Typed, ReplayDelete

\* The record goes back as Replayed.
LEMMA ReplayRecordTyped ==
    ASSUME Typed, NEW r \in Requests, ReplayRecord(r)
    PROVE  Typed'
<1> DEFINE q == req[r]
           after == [q.rec EXCEPT !.state.status = "Replayed"]
<1>1. q \in Request /\ Proper(q) /\ q.pc = "replay_record"
  BY DEF Typed, Handlers, ReplayRecord
<1>2. HoldsCode(q)
  BY <1>1 DEF Proper, TakenSteps
<1>3. after \in AuthorizationCodeRecord(Nat)
  BY <1>2 DEF HoldsCode, AuthorizationCodeRecord, AuthorizationCodeState
<1>4. TypeOK'
  <2>1. put_authorization_code(q.cred, after) \/ CallFails
    BY DEF ReplayRecord
  <2> HIDE DEF after
  <2> QED BY <1>2, <1>3, <2>1, CodeType, StoreUnchanged DEF Typed, HoldsCode, CallFails
<1>5. Handlers'
  BY Returned DEF Typed, ReplayRecord
<1>6. contained' \subseteq AuthCodes
  BY <1>2 DEF Typed, Books, ReplayRecord, HoldsCode
<1>7. UNCHANGED <<config, now, used, granted, logged_out, alarmed, undone, presented, revoked,
                  withdrawn_at, deleted_at>>
  BY DEF ReplayRecord, revocations
<1> QED BY <1>4, <1>5, <1>6, <1>7 DEF Typed, Books

-----------------------------------------------------------------------------
(***************************************************************************)
(* refresh_token                                                            *)
(***************************************************************************)
\* restore_refresh_token, or the early return of a policy that took nothing.
LEMMA GiveBackTyped ==
    ASSUME Handlers, NEW r \in Requests, NEW rec \in RefreshTokenRecord(Nat), GiveBack(r, rec),
           req[r].cred \in RefreshTokens, req[r].client \in ClientIds
    PROVE  Handlers'
BY Returned, RefreshHeld DEF GiveBack, RefreshSteps

\* The read or the take of the presented token, and the judgement of what it returned.
LEMMA ReadRefreshTyped ==
    ASSUME Typed, NEW r \in Requests, ReadRefresh(r)
    PROVE  Typed'
<1> DEFINE q == req[r]
           rec == refresh[q.cred]
<1>1. q \in Request /\ Proper(q) /\ q.pc = "read_refresh"
  BY DEF Typed, Handlers, ReadRefresh
<1>2. q.cred \in RefreshTokens /\ q.client \in ClientIds
  BY <1>1 DEF Proper, LookupSteps
<1>3. rec \in Option(RefreshTokenRecord(Nat))
  BY <1>2 DEF Typed, TypeOK
<1>4. TypeOK'
  BY <1>2, TakeRefreshType, StoreUnchanged DEF Typed, ReadRefresh
<1>5. Handlers' /\ used' \subseteq Credentials \cup FamilyIds
  <2>1. CASE Return(r) /\ UNCHANGED used
    BY <2>1, Returned DEF Typed, Books
  <2>2. CASE rec # None /\ GiveBack(r, rec) /\ UNCHANGED used
    <3>1. rec \in RefreshTokenRecord(Nat)
      BY <1>3, <2>2 DEF Option
    <3> HIDE DEF rec
    <3> QED BY <1>2, <2>2, <3>1, GiveBackTyped DEF Typed, Books
  <2>3. ASSUME rec # None, NEW pc \in {"retry_access", "reuse_revoke", "spend_refresh"},
               pc = "retry_access" => rec.retry # None,
               req' = [req EXCEPT ![r].pc = pc, ![r].rec = rec], UNCHANGED used
        PROVE  Handlers' /\ used' \subseteq Credentials \cup FamilyIds
    <3>1. rec \in RefreshTokenRecord(Nat) /\ pc \in RefreshSteps /\ pc # "rotate"
      BY <1>3, <2>3 DEF Option, RefreshSteps
    <3> HIDE DEF rec
    <3> QED BY <1>2, <2>3, <3>1, RefreshHeld DEF Typed, Books
  <2>4. CASE rec # None /\ BeginIssue(r, [q EXCEPT !.rec = rec], rec.family_id)
    <3> DEFINE q2 == [q EXCEPT !.rec = rec]
    <3>1. rec \in RefreshTokenRecord(Nat)
      BY <1>3, <2>4 DEF Option
    <3>2. q2 \in Request /\ q2.rec = rec /\ q2.cred = q.cred /\ q2.client = q.client
      <4> HIDE DEF rec, q
      <4> QED BY <1>1, <3>1 DEF Request, Option
    <3>3. HoldsRefresh(q2)
      BY <1>2, <3>1, <3>2 DEF HoldsRefresh
    <3>4. rec.family_id \in Option(FamilyIds)
      BY <3>1 DEF RefreshTokenRecord, Option
    <3> HIDE DEF q2, rec
    <3>5. BeginIssue(r, q2, rec.family_id)
      BY <2>4 DEF q2
    <3> QED BY <3>2, <3>3, <3>4, <3>5, BeginIssueTyped DEF Typed
  <2>5. \/ Return(r) /\ UNCHANGED used
        \/ /\ rec # None
           /\ \/ GiveBack(r, rec) /\ UNCHANGED used
              \/ /\ rec.retry # None
                 /\ req' = [req EXCEPT ![r].pc = "retry_access", ![r].rec = rec] /\ UNCHANGED used
              \/ req' = [req EXCEPT ![r].pc = "reuse_revoke", ![r].rec = rec] /\ UNCHANGED used
              \/ req' = [req EXCEPT ![r].pc = "spend_refresh", ![r].rec = rec] /\ UNCHANGED used
              \/ BeginIssue(r, [q EXCEPT !.rec = rec], rec.family_id)
    BY DEF ReadRefresh, RetryStands
  <2> QED BY <2>1, <2>2, <2>3, <2>4, <2>5
<1> QED BY <1>4, <1>5, BooksDrawn DEF Typed, ReadRefresh

\* restore_refresh_token's write.
LEMMA RestoreRefreshTyped ==
    ASSUME Typed, NEW r \in Requests, RestoreRefresh(r)
    PROVE  Typed'
<1>1. Proper(req[r]) /\ req[r].pc = "restore_refresh"
  BY DEF Typed, Handlers, RestoreRefresh
<1>2. HoldsRefresh(req[r])
  BY <1>1 DEF Proper, RefreshSteps
<1>3. TypeOK'
  BY <1>2, PutRefreshType DEF Typed, RestoreRefresh, HoldsRefresh
<1> QED BY <1>3, Returned, BooksUnchanged DEF Typed, RestoreRefresh

\* The family of a token presented twice is revoked, or that fails.
LEMMA ReuseRevokeTyped ==
    ASSUME Typed, NEW r \in Requests, ReuseRevoke(r)
    PROVE  Typed'
<1>1. Proper(req[r]) /\ req[r].pc = "reuse_revoke"
  BY DEF Typed, Handlers, ReuseRevoke
<1>2. HoldsRefresh(req[r])
  BY <1>1 DEF Proper, RefreshSteps
<1>3. req[r].rec.family_id \in FamilyIds
  BY <1>2 DEF HoldsRefresh, RefreshTokenRecord
<1>4. CASE RevokeFamily(req[r].rec.family_id) /\ Return(r)
  BY <1>3, <1>4, RevokeFamilyTyped, Returned, BooksRevoked DEF Typed, ReuseRevoke
<1>5. CASE CallFails /\ UNCHANGED revoked /\ Goto(r, "reuse_rearm")
  <2>1. Books'
    BY <1>5, BooksRevoked DEF Typed, Books, ReuseRevoke
  <2> QED BY <1>2, <1>5, <2>1, RefreshGoto, StoreUnchanged DEF Typed, CallFails, RefreshSteps
<1> QED BY <1>4, <1>5 DEF ReuseRevoke

\* The spent record goes back.
LEMMA ReuseRearmTyped ==
    ASSUME Typed, NEW r \in Requests, ReuseRearm(r)
    PROVE  Typed'
<1>1. Proper(req[r]) /\ req[r].pc = "reuse_rearm"
  BY DEF Typed, Handlers, ReuseRearm
<1>2. HoldsRefresh(req[r])
  BY <1>1 DEF Proper, RefreshSteps
<1>3. TypeOK'
  BY <1>2, PutRefreshType DEF Typed, ReuseRearm, HoldsRefresh
<1> QED BY <1>3, Returned, BooksUnchanged DEF Typed, ReuseRearm

\* Spending a record keeps its grant and its type.
LEMMA SpendFacts ==
    ASSUME NEW rec \in RefreshTokenRecord(Nat), NEW at \in Nat
    PROVE  /\ Spend(rec, at) \in RefreshTokenRecord(Nat)
           /\ Spend(rec, at).client_id = rec.client_id
           /\ Spend(rec, at).subject = rec.subject
           /\ Spend(rec, at).family_id = rec.family_id
           /\ Spend(rec, at).grant_established_at = rec.grant_established_at
           /\ Spend(rec, at).state = "Spent"
<1> DEFINE e == IF rec.expires_at = None THEN at + refresh_reuse_window ELSE rec.expires_at
<1>1. refresh_reuse_window \in Nat
  BY ConfigAssumption
<1>2. e \in Option(Nat)
  BY <1>1 DEF RefreshTokenRecord, Option
<1>3. Spend(rec, at) = [rec EXCEPT !.state = "Spent", !.expires_at = e]
  BY DEF Spend
<1> HIDE DEF e
<1> QED BY <1>2, <1>3 DEF RefreshTokenRecord

\* The spent record is written and issuance begins.
LEMMA SpendRefreshTyped ==
    ASSUME Typed, NEW r \in Requests, SpendRefresh(r)
    PROVE  Typed'
<1> DEFINE q == req[r]
           spent == Spend(q.rec, now)
<1>1. q \in Request /\ Proper(q) /\ q.pc = "spend_refresh"
  BY DEF Typed, Handlers, SpendRefresh
<1>2. HoldsRefresh(q)
  BY <1>1 DEF Proper, RefreshSteps
<1>3. spent \in RefreshTokenRecord(Nat)
  BY <1>2, SpendFacts DEF HoldsRefresh, Typed, Books
<1>4. TypeOK'
  BY <1>2, <1>3, PutRefreshType DEF Typed, SpendRefresh, HoldsRefresh
<1>5. Handlers' /\ used' \subseteq Credentials \cup FamilyIds
  <2>1. CASE Return(r) /\ UNCHANGED used
    BY <2>1, Returned DEF Typed, Books
  <2>2. CASE BeginIssue(r, q, q.rec.family_id)
    <3>1. q.rec.family_id \in Option(FamilyIds)
      BY <1>2 DEF HoldsRefresh, RefreshTokenRecord, Option
    <3> QED BY <1>1, <1>2, <2>2, <3>1, BeginIssueTyped DEF Typed
  <2> QED BY <2>1, <2>2 DEF SpendRefresh
<1> QED BY <1>4, <1>5, BooksDrawn DEF Typed, SpendRefresh

\* The answer a retryable rotation records.
LEMMA RetryAnswerType ==
    ASSUME Books, NEW q \in Request, HoldsRefresh(q), q.access \in AccessTokens
    PROVE  RetryAnswer(q) \in RefreshTokenRetry(Nat)
<1> DEFINE lapse == q.minted_at + access_token_ttl
           u == Earlier(Earlier(q.minted_at + config.refresh_retry_window, lapse),
                        IF q.rec.expires_at = None THEN lapse ELSE q.rec.expires_at)
<1>1. q.minted_at \in Nat /\ lapse \in Nat /\ config.refresh_retry_window \in Nat
  <2>1. access_token_ttl \in Nat /\ RetryWindows \subseteq Nat
    BY ConfigAssumption
  <2>2. q.minted_at \in Nat
    BY DEF Request
  <2>3. lapse \in Nat
    BY <2>1, <2>2
  <2>4. config.refresh_retry_window \in Nat
    BY <2>1 DEF Books, Configurations
  <2> QED BY <2>2, <2>3, <2>4
<1>2. q.rec.expires_at \in Option(Nat)
  BY DEF HoldsRefresh, RefreshTokenRecord
<1>3. u \in Nat
  <2> HIDE DEF lapse
  <2> QED BY <1>1, <1>2 DEF Earlier, Option
<1>4. RetryAnswer(q) = [access_token |-> q.access, refresh_token |-> q.next, until |-> u]
  BY DEF RetryAnswer
<1>5. q.next \in Option(RefreshTokens)
  BY DEF Request
<1> HIDE DEF u
<1> QED BY <1>3, <1>4, <1>5 DEF RefreshTokenRetry

\* rotate_refresh_token, won or lost.
LEMMA CommitRotationTyped ==
    ASSUME Typed, NEW r \in Requests, CommitRotation(r)
    PROVE  Typed'
<1> DEFINE q == req[r]
           answer == RetryAnswer(q)
           spent == [Spend(q.rec, q.minted_at) EXCEPT !.retry = answer]
           next == [NextRecord(q) EXCEPT !.retry = answer]
<1>1. q \in Request /\ Proper(q) /\ q.pc = "rotate"
  BY DEF Typed, Handlers, CommitRotation
<1>2. HoldsRefresh(q) /\ Mints(q) /\ q.family = q.rec.family_id
  BY <1>1 DEF Proper, RefreshSteps
<1>3. answer \in RefreshTokenRetry(Nat)
  BY <1>1, <1>2, RetryAnswerType DEF Typed, Mints
<1>4. q.family \in FamilyIds
  BY <1>2 DEF HoldsRefresh, RefreshTokenRecord
<1>5. spent \in RefreshTokenRecord(Nat)
  <2>1. Spend(q.rec, q.minted_at) \in RefreshTokenRecord(Nat)
    BY <1>1, <1>2, SpendFacts DEF HoldsRefresh, Request
  <2> HIDE DEF answer
  <2> QED BY <1>3, <2>1 DEF RefreshTokenRecord, Option
<1>6. next \in RefreshTokenRecord(Nat) /\ AccessRecord(q) \in IssuedToken(Nat)
  <2>1. NextRecord(q) \in RefreshTokenRecord(Nat) /\ AccessRecord(q) \in IssuedToken(Nat)
    BY <1>1, <1>2, <1>4, IssuedRecords
  <2> HIDE DEF answer
  <2> QED BY <1>3, <2>1 DEF RefreshTokenRecord, Option
<1>7. TypeOK'
  <2>1. rotate_refresh_token(q.cred, q.rec, spent, q.access, AccessRecord(q), q.next, next)
    BY DEF CommitRotation
  <2> HIDE DEF spent, next, answer
  <2> QED BY <1>2, <1>5, <1>6, <2>1, RotateType DEF Typed, HoldsRefresh, Mints
<1>8. Handlers' /\ granted' \subseteq TokenResponse
  <2>1. CASE Grant(r, q.family, q.access, q.next)
    BY <1>1, <1>2, <2>1, GrantTyped DEF Typed, Request, Mints, HoldsRefresh
  <2>2. CASE Goto(r, "reread") /\ UNCHANGED granted
    <3> DEFINE q2 == [q EXCEPT !.pc = "reread"]
    <3>1. q2 \in Request /\ q2.pc = "reread" /\ q2.cred = q.cred /\ q2.client = q.client
      BY <1>1, GotoFields DEF Steps
    <3>2. Proper(q2)
      <4> HIDE DEF q2
      <4> QED BY <1>2, <3>1 DEF Proper, HoldsRefresh, TakenSteps, IssueSteps, CloseSteps,
               RefreshSteps, LookupSteps, DeviceSteps
    <3>3. req' = [req EXCEPT ![r] = q2]
      BY <2>2 DEF Goto
    <3> QED BY <2>2, <3>1, <3>2, <3>3, Moved DEF Typed, Books
  <2> QED BY <2>1, <2>2 DEF CommitRotation
<1> QED BY <1>7, <1>8, BooksGranted DEF Typed, CommitRotation

\* The record is read again by the rotation that lost.
LEMMA RereadTyped ==
    ASSUME Typed, NEW r \in Requests, Reread(r)
    PROVE  Typed'
<1> DEFINE current == refresh[req[r].cred]
<1>1. Proper(req[r]) /\ req[r].pc = "reread"
  BY DEF Typed, Handlers, Reread
<1>2. req[r].cred \in RefreshTokens /\ req[r].client \in ClientIds
  BY <1>1 DEF Proper, LookupSteps
<1>3. Handlers'
  <2>1. CASE Return(r)
    BY <2>1, Returned DEF Typed
  <2>2. CASE current # None /\ current.retry # None
             /\ req' = [req EXCEPT ![r].pc = "retry_access", ![r].rec = current]
    <3>1. current \in RefreshTokenRecord(Nat)
      BY <1>2, <2>2 DEF Typed, TypeOK, Option
    <3> HIDE DEF current
    <3> QED BY <1>2, <2>2, <3>1, RefreshHeld DEF Typed, RefreshSteps
  <2> QED BY <2>1, <2>2 DEF Reread, RetryStands
<1> QED BY <1>3, StoreUnchanged, BooksUnchanged DEF Typed, Reread

\* The recorded access token is looked up.
LEMMA RetryAccessTyped ==
    ASSUME Typed, NEW r \in Requests, RetryAccess(r)
    PROVE  Typed'
<1> DEFINE q == req[r]
<1>1. q \in Request /\ Proper(q) /\ q.pc = "retry_access"
  BY DEF Typed, Handlers, RetryAccess
<1>2. HoldsRefresh(q) /\ q.rec.retry # None
  BY <1>1 DEF Proper, RefreshSteps
<1>3. q.rec.family_id \in FamilyIds /\ q.rec.retry \in RefreshTokenRetry(Nat)
  BY <1>2 DEF HoldsRefresh, RefreshTokenRecord, Option
<1>4. q.rec.retry.access_token \in AccessTokens
  BY <1>3 DEF RefreshTokenRetry
<1>5. Handlers' /\ granted' \subseteq TokenResponse
  <2>1. CASE Return(r) /\ UNCHANGED granted
    BY <2>1, Returned DEF Typed, Books
  <2>2. CASE Grant(r, q.rec.family_id, q.rec.retry.access_token, None)
    BY <1>2, <1>3, <1>4, <2>2, GrantTyped DEF Typed, Option, HoldsRefresh
  <2>3. CASE q.rec.retry.refresh_token # None /\ Goto(r, "retry_next") /\ UNCHANGED granted
    BY <1>2, <2>3, RefreshGoto DEF Typed, Books, RefreshSteps
  <2> QED BY <2>1, <2>2, <2>3 DEF RetryAccess
<1> QED BY <1>5, StoreUnchanged, BooksGranted DEF Typed, RetryAccess

\* The recorded refresh token is looked up.
LEMMA RetryNextTyped ==
    ASSUME Typed, NEW r \in Requests, RetryNext(r)
    PROVE  Typed'
<1> DEFINE q == req[r]
<1>1. q \in Request /\ Proper(q) /\ q.pc = "retry_next"
  BY DEF Typed, Handlers, RetryNext
<1>2. HoldsRefresh(q) /\ q.rec.retry # None
  BY <1>1 DEF Proper, RefreshSteps
<1>3. q.rec.family_id \in FamilyIds /\ q.rec.retry \in RefreshTokenRetry(Nat)
  BY <1>2 DEF HoldsRefresh, RefreshTokenRecord, Option
<1>4. /\ q.rec.retry.access_token \in AccessTokens
      /\ q.rec.retry.refresh_token \in Option(RefreshTokens)
  BY <1>3 DEF RefreshTokenRetry
<1>5. Handlers' /\ granted' \subseteq TokenResponse
  <2>1. CASE Return(r) /\ UNCHANGED granted
    BY <2>1, Returned DEF Typed, Books
  <2>2. CASE Grant(r, q.rec.family_id, q.rec.retry.access_token, q.rec.retry.refresh_token)
    BY <1>2, <1>3, <1>4, <2>2, GrantTyped DEF Typed, Option, HoldsRefresh
  <2> QED BY <2>1, <2>2 DEF RetryNext
<1> QED BY <1>5, StoreUnchanged, BooksGranted DEF Typed, RetryNext

-----------------------------------------------------------------------------
(***************************************************************************)
(* revoke_with_credential                                                   *)
(***************************************************************************)
\* The answer 200 to the owner of a refresh token.
LEMMA LogOutTyped ==
    ASSUME Books, NEW r \in Requests, req[r].cred \in RefreshTokens, LogOut(r)
    PROVE  logged_out' \subseteq RefreshTokens
BY DEF Books, LogOut

\* The lookup of the token to revoke.
LEMMA RevokeLookupTyped ==
    ASSUME Typed, NEW r \in Requests, RevokeLookup(r)
    PROVE  Typed'
<1> DEFINE rec == refresh[req[r].cred]
<1>1. Proper(req[r]) /\ req[r].pc = "revoke_lookup"
  BY DEF Typed, Handlers, RevokeLookup
<1>2. req[r].cred \in RefreshTokens /\ req[r].client \in ClientIds
  BY <1>1 DEF Proper, LookupSteps
<1>3. Handlers' /\ logged_out' \subseteq RefreshTokens
  <2>1. CASE Return(r) /\ LogOut(r)
    BY <1>2, <2>1, Returned, LogOutTyped DEF Typed
  <2>2. CASE /\ rec # None /\ UNCHANGED logged_out
             /\ req' = [req EXCEPT ![r].pc = "revoke_cascade", ![r].rec = rec]
    <3>1. rec \in RefreshTokenRecord(Nat)
      BY <1>2, <2>2 DEF Typed, TypeOK, Option
    <3> HIDE DEF rec
    <3> QED BY <1>2, <2>2, <3>1, RefreshHeld DEF Typed, Books, RefreshSteps
  <2> QED BY <2>1, <2>2 DEF RevokeLookup
<1>4. TypeOK'
  BY StoreUnchanged DEF Typed, RevokeLookup
<1>5. UNCHANGED <<config, now, used, granted, contained, alarmed, undone, presented, revoked,
                  withdrawn_at, deleted_at>>
  BY DEF RevokeLookup, revocations
<1> QED BY <1>3, <1>4, <1>5 DEF Typed, Books

\* The family is revoked, or that fails.
LEMMA RevokeCascadeTyped ==
    ASSUME Typed, NEW r \in Requests, RevokeCascade(r)
    PROVE  Typed'
<1> DEFINE q == req[r]
<1>1. q \in Request /\ Proper(q) /\ q.pc = "revoke_cascade"
  BY DEF Typed, Handlers, RevokeCascade
<1>2. HoldsRefresh(q)
  BY <1>1 DEF Proper, RefreshSteps
<1>3. q.rec.family_id \in FamilyIds
  BY <1>2 DEF HoldsRefresh, RefreshTokenRecord
<1>4. CASE RevokeFamily(q.rec.family_id) /\ Goto(r, "revoke_take")
  BY <1>2, <1>3, <1>4, RevokeFamilyTyped, RefreshGoto, BooksRevoked DEF Typed, RevokeCascade,
     RefreshSteps
<1>5. CASE /\ CallFails /\ UNCHANGED revoked
           /\ req' = [req EXCEPT ![r].pc = "revoke_take", ![r].failed = TRUE]
  <2> DEFINE q2 == [q EXCEPT !.pc = "revoke_take", !.failed = TRUE]
  <2>1. q2 \in Request /\ q2.pc = "revoke_take" /\ q2.client = q.client /\ q2.cred = q.cred
        /\ q2.rec = q.rec
    BY <1>1, FailedFields DEF Steps
  <2>2. Proper(q2)
    <3> HIDE DEF q2
    <3> QED BY <1>2, <2>1 DEF Proper, HoldsRefresh, TakenSteps, IssueSteps, CloseSteps,
             RefreshSteps, LookupSteps, DeviceSteps
  <2>3. req' = [req EXCEPT ![r] = q2]
    BY <1>5
  <2>4. Handlers'
    BY <2>1, <2>2, <2>3, Moved DEF Typed
  <2>5. Books'
    BY <1>5, BooksRevoked DEF Typed, Books, RevokeCascade
  <2> QED BY <1>5, <2>4, <2>5, StoreUnchanged DEF Typed, CallFails
<1> QED BY <1>4, <1>5 DEF RevokeCascade

\* The presented token itself is taken.
LEMMA RevokeTakeTyped ==
    ASSUME Typed, NEW r \in Requests, RevokeTake(r)
    PROVE  Typed'
<1>1. Proper(req[r]) /\ req[r].pc = "revoke_take"
  BY DEF Typed, Handlers, RevokeTake
<1>2. HoldsRefresh(req[r])
  BY <1>1 DEF Proper, RefreshSteps
<1>3. req[r].cred \in RefreshTokens /\ req[r].rec.family_id \in FamilyIds
  BY <1>2 DEF HoldsRefresh, RefreshTokenRecord
<1>4. TypeOK'
  BY <1>3, TakeRefreshType DEF Typed, RevokeTake
<1>5. Handlers'
  BY Returned DEF Typed, RevokeTake
<1>6. logged_out' \subseteq RefreshTokens
  BY <1>3, LogOutTyped DEF Typed, RevokeTake
<1>7. alarmed' \subseteq FamilyIds
  BY <1>3 DEF Typed, Books, RevokeTake
<1>8. UNCHANGED <<config, now, used, granted, contained, undone, presented, revoked,
                  withdrawn_at, deleted_at>>
  BY DEF RevokeTake, revocations
<1> QED BY <1>4, <1>5, <1>6, <1>7, <1>8 DEF Typed, Books

\* The lookup and the deletion of an access token.
LEMMA RevokeAccessTyped ==
    ASSUME Typed, NEW r \in Requests, RevokeAccess(r) \/ RevokeDelete(r)
    PROVE  Typed'
<1> DEFINE q == req[r]
<1>1. q \in Request /\ Proper(q) /\ q.pc \in {"revoke_access", "revoke_delete"}
  BY DEF Typed, Handlers, RevokeAccess, RevokeDelete
<1>2. q.cred \in AccessTokens
  BY <1>1 DEF Proper
<1>3. CASE RevokeAccess(r)
  <2>1. CASE Return(r)
    BY <1>3, <2>1, Returned, StoreUnchanged, BooksUnchanged DEF Typed, RevokeAccess
  <2>2. CASE Goto(r, "revoke_delete")
    <3> DEFINE q2 == [q EXCEPT !.pc = "revoke_delete"]
    <3>1. q2 \in Request /\ q2.pc = "revoke_delete" /\ q2.cred = q.cred
      BY <1>1, GotoFields DEF Steps
    <3>2. Proper(q2)
      <4> HIDE DEF q2
      <4> QED BY <1>2, <3>1 DEF Proper, TakenSteps, IssueSteps, CloseSteps, RefreshSteps,
               LookupSteps, DeviceSteps
    <3>3. req' = [req EXCEPT ![r] = q2]
      BY <2>2 DEF Goto
    <3> QED BY <1>3, <3>1, <3>2, <3>3, Moved, StoreUnchanged, BooksUnchanged
            DEF Typed, RevokeAccess
  <2> QED BY <1>3, <2>1, <2>2 DEF RevokeAccess
<1>4. CASE RevokeDelete(r)
  BY <1>2, <1>4, DeleteTokenType, Returned, BooksUnchanged DEF Typed, RevokeDelete
<1> QED BY <1>3, <1>4

-----------------------------------------------------------------------------
(***************************************************************************)
(* Callers, the host and the environment                                    *)
(***************************************************************************)
\* A refresh token that some response carried is a refresh token.
LEMMA HeldTypes == Books => HeldRefresh \subseteq RefreshTokens /\ HeldAccess \subseteq AccessTokens
BY DEF Books, HeldRefresh, HeldAccess, TokenResponse, Option

\* A caller presents a credential.
LEMMA StartTyped ==
    ASSUME Typed, NEW r \in Requests, NEW c \in ClientIds, NEW x,
           \/ x \in AuthCodes /\ StartRedeem(r, c, x)
           \/ StartRefresh(r, c, x)
           \/ StartRevoke(r, c, x)
    PROVE  Typed'
<1>1. now \in Nat
  BY DEF Typed, Books
<1>2. CASE x \in AuthCodes /\ StartRedeem(r, c, x)
  BY <1>1, <1>2, Started, StoreUnchanged, BooksUnchanged DEF Typed, StartRedeem, Steps, Credentials
<1>3. CASE StartRefresh(r, c, x)
  <2>1. x \in RefreshTokens
    BY <1>3, HeldTypes DEF Typed, StartRefresh
  <2> QED BY <1>1, <1>3, <2>1, Started, StoreUnchanged, BooksUnchanged
          DEF Typed, StartRefresh, Steps, Credentials
<1>4. CASE StartRevoke(r, c, x)
  <2> DEFINE pc == IF x \in RefreshTokens THEN "revoke_lookup" ELSE "revoke_access"
  <2>1. x \in RefreshTokens \cup AccessTokens
    BY <1>4, HeldTypes DEF Typed, StartRevoke
  <2>2. pc \in Steps /\ x \in Credentials
        /\ \/ pc = "revoke_lookup" /\ x \in RefreshTokens
           \/ pc = "revoke_access" /\ x \in AccessTokens
    BY <2>1 DEF Steps, Credentials
  <2>3. req' = [req EXCEPT ![r] = [Idle EXCEPT !.pc = pc, !.client = c, !.cred = x, !.since = now]]
    BY <1>4 DEF StartRevoke
  <2> HIDE DEF pc
  <2>4. Handlers'
    BY <1>1, <2>2, <2>3, Started DEF Typed
  <2> QED BY <1>4, <2>4, StoreUnchanged, BooksUnchanged DEF Typed, StartRevoke
<1> QED BY <1>2, <1>3, <1>4

\* The handlers when no handler moves.
LEMMA HandlersUnchanged == ASSUME Handlers, UNCHANGED req PROVE Handlers'
BY DEF Handlers

\* issue_authorization_code.
LEMMA IssueCodeTyped ==
    ASSUME Typed, NEW x \in AuthCodes, NEW c \in ClientIds, NEW s \in Subjects, NEW t \in Nat,
           IssueCode(x, c, s, t)
    PROVE  Typed'
<1> DEFINE rec == [client_id |-> c, subject |-> s, issued_at |-> t,
                   expires_at |-> now + authorization_code_ttl,
                   state |-> CodeState("Issued", None, None)]
<1>1. rec \in AuthorizationCodeRecord(Nat)
  <2>1. now + authorization_code_ttl \in Nat
    BY ConfigAssumption DEF Typed, Books
  <2>2. CodeState("Issued", None, None) \in AuthorizationCodeState
    BY DEF CodeState, AuthorizationCodeState, Option
  <2> QED BY <2>1, <2>2 DEF AuthorizationCodeRecord
<1>2. put_authorization_code(x, rec)
  BY DEF IssueCode
<1> HIDE DEF rec
<1>3. TypeOK'
  BY <1>1, <1>2, CodeType DEF Typed
<1>4. used' \subseteq Credentials \cup FamilyIds
  BY DEF Typed, Books, IssueCode, Credentials
<1> QED BY <1>3, <1>4, HandlersUnchanged, BooksDrawn DEF Typed, IssueCode

\* record_consent, withdraw_consent, the deletion and the provisioning of a client.
LEMMA HostTyped ==
    ASSUME Typed,
           \/ \E k \in ConsentIds, c \in ClientIds, s \in Subjects : RecordConsent(k, c, s)
           \/ \E k \in ConsentIds : WithdrawConsent(k)
           \/ \E c \in ClientIds : DeleteClient(c)
           \/ \E c \in ClientIds, g \in Registrations : ProvisionClient(c, g)
    PROVE  Typed'
<1>1. now \in Nat /\ revocation_window \in RevocationWindow(Nat)
  BY WindowType DEF Typed, Books
<1>2. ASSUME NEW k \in ConsentIds, NEW c \in ClientIds, NEW s \in Subjects, RecordConsent(k, c, s)
      PROVE  Typed'
  <2> DEFINE rec == [consent_id |-> k, client_id |-> c, subject |-> s, scope |-> Scopes,
                     granted_at |-> now]
  <2>1. rec \in ConsentRecord(Nat)
    BY <1>1 DEF ConsentRecord
  <2>2. compare_and_swap_consent(k, None, None, rec)
    BY <1>2 DEF RecordConsent
  <2> HIDE DEF rec
  <2>3. TypeOK'
    BY <2>1, <2>2, ConsentType DEF Typed
  <2> QED BY <1>2, <2>3, HandlersUnchanged, BooksUnchanged DEF Typed, RecordConsent
<1>3. ASSUME NEW k \in ConsentIds, WithdrawConsent(k) PROVE Typed'
  <2>1. TypeOK'
    BY <1>1, <1>3, RevokeConsentType DEF Typed, WithdrawConsent
  <2>2. <<consents[k].client_id, consents[k].subject>> \in ClientIds \X Subjects
    BY <1>3 DEF Typed, TypeOK, WithdrawConsent, Option, ConsentRecord
  <2>3. withdrawn_at' \in [ClientIds \X Subjects -> Option(Nat)]
    BY <1>1, <1>3, <2>2 DEF Typed, Books, WithdrawConsent, Option
  <2>4. UNCHANGED <<config, now, req, used, granted, contained, logged_out, alarmed, undone,
                    presented, revoked, deleted_at>>
    BY <1>3 DEF WithdrawConsent, reports
  <2> QED BY <2>1, <2>3, <2>4, HandlersUnchanged DEF Typed, Books
<1>4. ASSUME NEW c \in ClientIds, DeleteClient(c) PROVE Typed'
  <2>1. TypeOK'
    BY <1>1, <1>4, DeleteClientType DEF Typed, DeleteClient
  <2>2. deleted_at' \in [ClientIds -> Option(Nat)]
    BY <1>1, <1>4 DEF Typed, Books, DeleteClient, Option
  <2>3. UNCHANGED <<config, now, req, used, granted, contained, logged_out, alarmed, undone,
                    presented, revoked, withdrawn_at>>
    BY <1>4 DEF DeleteClient, reports
  <2> QED BY <2>1, <2>2, <2>3, HandlersUnchanged DEF Typed, Books
<1>5. ASSUME NEW c \in ClientIds, NEW g \in Registrations, ProvisionClient(c, g) PROVE Typed'
  BY <1>5, ClientType, HandlersUnchanged, BooksUnchanged DEF Typed, ProvisionClient
<1> QED BY <1>2, <1>3, <1>4, <1>5

\* The sweep, the clock, and a request dropped where it is suspended.
LEMMA EnvironmentTyped ==
    ASSUME Typed, Sweep \/ Tick \/ \E r \in Requests : Abandon(r)
    PROVE  Typed'
<1>1. CASE Sweep
  BY <1>1, SweepType, HandlersUnchanged, BooksUnchanged DEF Typed, Sweep
<1>2. CASE Tick
  <2>1. now' \in Nat
    BY <1>2 DEF Typed, Books, Tick
  <2>2. Books'
    BY <1>2, <2>1 DEF Typed, Books, Tick, history, reports, revocations
  <2> QED BY <1>2, <2>2, StoreUnchanged, HandlersUnchanged DEF Typed, Tick
<1>3. ASSUME NEW r \in Requests, Abandon(r) PROVE Typed'
  BY <1>3, Returned, StoreUnchanged, BooksUnchanged DEF Typed, Abandon
<1> QED BY <1>1, <1>2, <1>3

-----------------------------------------------------------------------------
(***************************************************************************)
(* The theorem                                                              *)
(***************************************************************************)
\* Every step of a handler keeps the state well typed.
LEMMA RequestStepTyped ==
    ASSUME Typed, NEW r \in Requests, RequestStep(r)
    PROVE  Typed'
BY TakeCodeTyped, RestoreCodeTyped, ConsumeCodeTyped, RecordRedemptionTyped, UndoAccessTyped,
   UndoRefreshTyped, ReplayLookupTyped, ReplayRevokeTyped, ReplayDeleteTyped, ReplayRecordTyped,
   ReadRefreshTyped, RestoreRefreshTyped, ReuseRevokeTyped, ReuseRearmTyped, SpendRefreshTyped,
   PutAccessTyped, PutRefreshTyped, UndoIssuanceTyped, CommitRotationTyped, RereadTyped,
   RetryAccessTyped, RetryNextTyped, RevokeLookupTyped, RevokeCascadeTyped, RevokeTakeTyped,
   RevokeAccessTyped
   DEF RequestStep

\* Every step of the endpoint does.
LEMMA TypedStep == Typed /\ [Next]_vars => Typed'
<1> SUFFICES ASSUME Typed, [Next]_vars PROVE Typed'
  OBVIOUS
<1>1. ASSUME NEW r \in Requests,
             \/ RequestStep(r) \/ Abandon(r)
             \/ \E c \in ClientIds :
                 \/ \E code \in AuthCodes : StartRedeem(r, c, code)
                 \/ \E token \in RefreshTokens : StartRefresh(r, c, token)
                 \/ \E token \in RefreshTokens \cup AccessTokens : StartRevoke(r, c, token)
      PROVE  Typed'
  BY <1>1, RequestStepTyped, EnvironmentTyped, StartTyped
<1>2. ASSUME NEW x \in AuthCodes, NEW c \in ClientIds, NEW s \in Subjects, NEW t \in 0..MaxNow,
             IssueCode(x, c, s, t)
      PROVE  Typed'
  <2>1. t \in Nat
    BY ConfigAssumption
  <2> QED BY <1>2, <2>1, IssueCodeTyped
<1>3. CASE UNCHANGED vars
  BY <1>3, StoreUnchanged, HandlersUnchanged, BooksUnchanged DEF Typed, vars
<1> QED BY <1>1, <1>2, <1>3, HostTyped, EnvironmentTyped DEF Next

\* A server that has just started is well typed.
LEMMA TypedInit == Init => Typed
<1> SUFFICES ASSUME Init PROVE Typed
  OBVIOUS
<1>1. TypeOK
  BY EmptyFacts DEF Init, TypeOK, Option
<1>2. Handlers
  BY IdleProper DEF Init, Handlers
<1>3. Books
  BY EmptyFacts DEF Init, Books
<1> QED BY <1>1, <1>2, <1>3 DEF Typed

\* However many requests the endpoint runs at once and however they interleave, are dropped or
\* meet store errors, every map of the store, every handler's locals and every response have
\* their types: no handler reads a field of a record of another kind (authorization_code_token,
\* refresh_token, issue, revoke_with_credential).
THEOREM EndpointTypeCorrect == Spec => []EndpointTypeOK
<1>1. Typed => EndpointTypeOK
  BY DEF Typed, EndpointTypeOK, Handlers, Books
<1> QED BY <1>1, TypedInit, TypedStep, PTL DEF Spec

-----------------------------------------------------------------------------
(***************************************************************************)
(* What a step does to the handlers                                         *)
(***************************************************************************)
\* The handler in slot r goes on with the same credential for the same client, or returns.
Continues(r) ==
    /\ \A s \in Requests : s # r => req'[s] = req[s]
    /\ \/ req'[r] = Idle
       \/ /\ req'[r].cred = req[r].cred /\ req'[r].client = req[r].client
          /\ req'[r].since = req[r].since

\* A handler that returns.
LEMMA ReturnContinues ==
    ASSUME Handlers, NEW r \in Requests, Return(r)
    PROVE  Continues(r) /\ req'[r] = Idle
BY DEF Handlers, Return, Continues

\* A handler that moves on.
LEMMA GotoContinues ==
    ASSUME Handlers, NEW r \in Requests, NEW pc, Goto(r, pc)
    PROVE  Continues(r) /\ req'[r] = [req[r] EXCEPT !.pc = pc]
BY DEF Handlers, Goto, Continues, Request

\* A handler that moves on with what it has read.
LEMMA HeldContinues ==
    ASSUME Handlers, NEW r \in Requests, NEW pc, NEW v,
           \/ req' = [req EXCEPT ![r].pc = pc, ![r].rec = v]
           \/ req' = [req EXCEPT ![r].pc = pc, ![r].failed = v]
           \/ req' = [req EXCEPT ![r].failed = v, ![r].pc = pc]
           \/ req' = [req EXCEPT ![r].pc = pc, ![r].family = v]
    PROVE  Continues(r) /\ req'[r].pc = pc
BY DEF Handlers, Continues, Request

\* A handler that draws identifiers.
LEMMA BeginIssueContinues ==
    ASSUME Handlers, NEW r \in Requests, NEW q \in Request, NEW chain, BeginIssue(r, q, chain),
           q.cred = req[r].cred, q.client = req[r].client, q.since = req[r].since
    PROVE  Continues(r)
<1>1. CASE Return(r)
  BY <1>1, ReturnContinues
<1>2. CASE \E pc, a, n, f : req' = [req EXCEPT ![r] =
               [q EXCEPT !.pc = pc, !.access = a, !.next = n, !.family = f, !.minted_at = now]]
  BY <1>2 DEF Handlers, Request, Continues
<1>3. CASE ~Return(r)
  <2> DEFINE pc == IF chain # None /\ Retryable THEN "rotate" ELSE "put_access"
  <2>1. PICK a \in AccessTokens \ used, n \in Fresh(RefreshTokens, MintsRefresh(chain)),
             f \in IF chain = None THEN Fresh(FamilyIds, MintsRefresh(chain)) ELSE {chain} :
           req' = [req EXCEPT ![r] = [q EXCEPT !.pc = pc, !.access = a, !.next = n,
                                               !.family = f, !.minted_at = now]]
    BY <1>3 DEF BeginIssue
  <2> HIDE DEF pc
  <2> QED BY <1>2, <2>1
<1> QED BY <1>1, <1>3

\* Every step of a handler.
LEMMA StepContinues ==
    ASSUME Typed, NEW r \in Requests, RequestStep(r)
    PROVE  Continues(r)
<1>1. Handlers
  BY DEF Typed
<1>2. ASSUME TakeCode(r) \/ RestoreCode(r) \/ ConsumeCode(r) \/ RecordRedemption(r)
             \/ UndoAccess(r) \/ UndoRefresh(r)
      PROVE  Continues(r)
  <2>1. CASE TakeCode(r)
    <3>1. Return(r) \/ \E pc : req' = [req EXCEPT ![r].pc = pc, ![r].rec = codes[req[r].cred]]
      BY <2>1 DEF TakeCode
    <3> QED BY <1>1, <3>1, ReturnContinues, HeldContinues
  <2>2. CASE ConsumeCode(r)
    BY <1>1, <2>2, BeginIssueContinues DEF ConsumeCode, Handlers
  <2>3. CASE RestoreCode(r) \/ RecordRedemption(r) \/ UndoAccess(r) \/ UndoRefresh(r)
    BY <1>1, <2>3, ReturnContinues, GotoContinues
       DEF RestoreCode, RecordRedemption, UndoAccess, UndoRefresh, Grant
  <2> QED BY <1>2, <2>1, <2>2, <2>3
<1>3. ASSUME ReplayLookup(r) \/ ReplayRevoke(r) \/ ReplayDelete(r) \/ ReplayRecord(r)
      PROVE  Continues(r)
  BY <1>1, <1>3, ReturnContinues, GotoContinues, HeldContinues
     DEF ReplayLookup, ReplayRevoke, ReplayDelete, ReplayRecord, AfterFamily
<1>4. ASSUME ReadRefresh(r) \/ RestoreRefresh(r) \/ ReuseRevoke(r) \/ ReuseRearm(r)
             \/ SpendRefresh(r)
      PROVE  Continues(r)
  <2>1. CASE ReadRefresh(r)
    <3>1. \/ Return(r)
          \/ \E pc : req' = [req EXCEPT ![r].pc = pc, ![r].rec = refresh[req[r].cred]]
          \/ BeginIssue(r, [req[r] EXCEPT !.rec = refresh[req[r].cred]],
                        refresh[req[r].cred].family_id)
      BY <2>1 DEF ReadRefresh, GiveBack
    <3>2. CASE BeginIssue(r, [req[r] EXCEPT !.rec = refresh[req[r].cred]],
                          refresh[req[r].cred].family_id)
      <4> DEFINE rec == refresh[req[r].cred]
                 q == [req[r] EXCEPT !.rec = rec]
      <4>1. rec \in Option(RefreshTokenRecord(Nat)) /\ req[r] \in Request
        BY <2>1 DEF Typed, TypeOK, Handlers, Proper, LookupSteps, ReadRefresh
      <4>2. /\ q \in Request /\ q.cred = req[r].cred /\ q.client = req[r].client
            /\ q.since = req[r].since
        <5> HIDE DEF rec
        <5> QED BY <4>1 DEF Request, Option
      <4> HIDE DEF q
      <4> QED BY <1>1, <3>2, <4>2, BeginIssueContinues DEF q
    <3> QED BY <1>1, <3>1, <3>2, ReturnContinues, HeldContinues
  <2>2. CASE SpendRefresh(r)
    BY <1>1, <2>2, ReturnContinues, BeginIssueContinues DEF SpendRefresh, Handlers
  <2>3. CASE RestoreRefresh(r) \/ ReuseRevoke(r) \/ ReuseRearm(r)
    BY <1>1, <2>3, ReturnContinues, GotoContinues DEF RestoreRefresh, ReuseRevoke, ReuseRearm
  <2> QED BY <1>4, <2>1, <2>2, <2>3
<1>5. ASSUME PutAccess(r) \/ PutRefresh(r) \/ UndoIssuance(r)
             \/ CommitRotation(r) \/ Reread(r) \/ RetryAccess(r) \/ RetryNext(r)
      PROVE  Continues(r)
  <2>1. CASE Issued(r)
    BY <1>1, <2>1, ReturnContinues, GotoContinues DEF Issued, Grant
  <2>2. CASE Reread(r)
    <3>1. Return(r) \/ \E v : req' = [req EXCEPT ![r].pc = "retry_access", ![r].rec = v]
      BY <2>2 DEF Reread
    <3> QED BY <1>1, <3>1, ReturnContinues, HeldContinues
  <2>3. CASE Return(r) \/ (\E pc : Goto(r, pc))
    BY <1>1, <2>3, ReturnContinues, GotoContinues
  <2>4. CASE PutAccess(r) \/ PutRefresh(r)
    BY <2>1, <2>3, <2>4 DEF PutAccess, PutRefresh
  <2>5. CASE UndoIssuance(r) \/ CommitRotation(r)
    <3>1. Return(r) \/ Goto(r, "reread")
      BY <2>5 DEF UndoIssuance, CommitRotation, Grant
    <3> QED BY <2>3, <3>1
  <2>6. CASE RetryAccess(r) \/ RetryNext(r)
    BY <2>3, <2>6 DEF RetryAccess, RetryNext, Grant
  <2> QED BY <1>5, <2>2, <2>4, <2>5, <2>6
<1>6. ASSUME RevokeLookup(r) \/ RevokeCascade(r) \/ RevokeTake(r) \/ RevokeAccess(r)
             \/ RevokeDelete(r)
      PROVE  Continues(r)
  BY <1>1, <1>6, ReturnContinues, GotoContinues, HeldContinues
     DEF RevokeLookup, RevokeCascade, RevokeTake, RevokeAccess, RevokeDelete
<1> QED BY <1>2, <1>3, <1>4, <1>5, <1>6 DEF RequestStep

\* A handler writes no other code record than that of the credential it was called with, and
\* answers for no other credential.
LEMMA StepFrame ==
    ASSUME Typed, NEW r \in Requests, RequestStep(r)
    PROVE  /\ \A x \in AuthCodes : x # req[r].cred => codes'[x] = codes[x]
           /\ \A g \in granted' : g \in granted \/ g.from = req[r].cred
           /\ used \subseteq used'
           /\ granted \subseteq granted'
<1> DEFINE Framed == /\ \A x \in AuthCodes : x # req[r].cred => codes'[x] = codes[x]
                     /\ \A g \in granted' : g \in granted \/ g.from = req[r].cred
                     /\ used \subseteq used'
                     /\ granted \subseteq granted'
<1> USE DEF Typed, TypeOK, storeVars, deviceMaps, tokenMaps, barriers, history, reports, revocations,
            CallFails
<1>1. ASSUME NEW q, NEW chain, BeginIssue(r, q, chain) PROVE used \subseteq used'
  BY <1>1 DEF BeginIssue
<1>2. ASSUME NEW f, NEW a, NEW n, Grant(r, f, a, n)
      PROVE  /\ \A g \in granted' : g \in granted \/ g.from = req[r].cred
             /\ granted \subseteq granted'
  BY <1>2 DEF Grant
<1>3. CASE TakeCode(r) \/ RestoreCode(r) \/ ConsumeCode(r)
  BY <1>1, <1>3 DEF TakeCode, RestoreCode, ConsumeCode, take_authorization_code,
     put_authorization_code
<1>4. CASE RecordRedemption(r)
  <2>1. \A x \in AuthCodes : x # req[r].cred => codes'[x] = codes[x]
    BY <1>4 DEF RecordRedemption, compare_and_swap_authorization_code
  <2> QED BY <1>2, <1>4, <2>1 DEF RecordRedemption
<1>5. CASE UndoAccess(r) \/ UndoRefresh(r) \/ UndoIssuance(r)
  BY <1>5 DEF UndoAccess, UndoRefresh, UndoIssuance, delete_token, take_refresh_token
<1>6. CASE ReplayLookup(r) \/ ReplayRevoke(r) \/ ReplayDelete(r)
  BY <1>6 DEF ReplayLookup, ReplayRevoke, ReplayDelete, RevokeFamily, revoke_token_family,
     delete_token
<1>7. CASE ReplayRecord(r)
  BY <1>7 DEF ReplayRecord, put_authorization_code
<1>8. CASE ReadRefresh(r)
  <2>1. UNCHANGED <<codes, granted>>
    BY <1>8 DEF ReadRefresh, take_refresh_token
  <2>2. used \subseteq used'
    BY <1>1, <1>8 DEF ReadRefresh
  <2> QED BY <2>1, <2>2
<1>9. CASE RestoreRefresh(r) \/ ReuseRevoke(r) \/ ReuseRearm(r)
  BY <1>9 DEF RestoreRefresh, ReuseRevoke, ReuseRearm, put_refresh_token, RevokeFamily,
     revoke_token_family
<1>10. CASE SpendRefresh(r)
  BY <1>1, <1>10 DEF SpendRefresh, put_refresh_token
<1>11. CASE PutAccess(r) \/ PutRefresh(r)
  <2>1. UNCHANGED <<codes, used>>
    BY <1>11 DEF PutAccess, PutRefresh, put_token, put_refresh_token
  <2>2. UNCHANGED granted \/ Issued(r)
    BY <1>11 DEF PutAccess, PutRefresh
  <2> QED BY <1>2, <2>1, <2>2 DEF Issued
<1>12. CASE CommitRotation(r)
  <2>1. UNCHANGED <<codes, used>>
    BY <1>12 DEF CommitRotation, rotate_refresh_token
  <2> QED BY <1>2, <1>12, <2>1 DEF CommitRotation
<1>13. CASE Reread(r) \/ RetryAccess(r) \/ RetryNext(r)
  <2>1. UNCHANGED <<codes, used>>
    BY <1>13 DEF Reread, RetryAccess, RetryNext
  <2> QED BY <1>2, <1>13, <2>1 DEF Reread, RetryAccess, RetryNext
<1>14. CASE RevokeLookup(r) \/ RevokeCascade(r) \/ RevokeTake(r) \/ RevokeAccess(r)
            \/ RevokeDelete(r)
  BY <1>14 DEF RevokeLookup, RevokeCascade, RevokeTake, RevokeAccess, RevokeDelete, RevokeFamily,
     revoke_token_family, take_refresh_token, delete_token
<1> QED BY <1>3, <1>4, <1>5, <1>6, <1>7, <1>8, <1>9, <1>10, <1>11, <1>12, <1>13, <1>14
        DEF RequestStep

\* Where a step of a handler may lead.
LEMMA StepEnds ==
    ASSUME Typed, NEW r \in Requests, RequestStep(r)
    PROVE  \/ req'[r].pc \in Steps \ (DeviceSteps \cup IssueSteps \cup CloseSteps
                                          \cup {"restore_code", "restore_refresh"})
           \/ req'[r].pc \in {"undo_access", "undo_refresh"}
           \/ TakeCode(r) /\ req'[r].pc \in TakenSteps
           \/ ReadRefresh(r) /\ req'[r].pc \in {"restore_refresh", "put_access"}
           \/ ConsumeCode(r) /\ req'[r].pc = "put_access"
           \/ SpendRefresh(r) /\ req'[r].pc = "put_access"
           \/ /\ PutAccess(r) \/ PutRefresh(r)
              /\ req'[r].pc \in {"put_refresh", "undo_issuance", "record_redemption"}
<1> DEFINE Plain == Steps \ (DeviceSteps \cup IssueSteps \cup CloseSteps
                                 \cup {"restore_code", "restore_refresh"})
<1>1. Handlers /\ req[r] \in Request
  BY DEF Typed, Handlers
<1>2. /\ {"idle", "consume_code", "replay_lookup", "replay_revoke", "replay_delete",
          "replay_record", "reuse_revoke", "reuse_rearm", "spend_refresh", "rotate", "reread",
          "retry_access", "retry_next", "revoke_cascade", "revoke_take", "revoke_delete"}
             \subseteq Plain
  BY DEF Steps, DeviceSteps, IssueSteps, CloseSteps
<1> HIDE DEF Plain
<1>3. ASSUME Return(r) PROVE req'[r].pc \in Plain
  BY <1>1, <1>2, <1>3, ReturnContinues DEF Idle
<1>4. ASSUME NEW pc, NEW v,
             \/ Goto(r, pc)
             \/ req' = [req EXCEPT ![r].pc = pc, ![r].rec = v]
             \/ req' = [req EXCEPT ![r].pc = pc, ![r].failed = v]
             \/ req' = [req EXCEPT ![r].failed = v, ![r].pc = pc]
             \/ req' = [req EXCEPT ![r].pc = pc, ![r].family = v]
      PROVE  req'[r].pc = pc
  BY <1>1, <1>4 DEF Goto, Handlers, Request
<1>5. ASSUME NEW q \in Request, NEW chain, BeginIssue(r, q, chain)
      PROVE  req'[r].pc \in Plain \cup {"put_access"}
  <2>1. CASE Return(r)
    BY <1>3, <2>1
  <2>2. CASE ~Return(r)
    <3> DEFINE pc == IF chain # None /\ Retryable THEN "rotate" ELSE "put_access"
    <3>1. PICK a \in AccessTokens \ used, n \in Fresh(RefreshTokens, MintsRefresh(chain)),
               f \in IF chain = None THEN Fresh(FamilyIds, MintsRefresh(chain)) ELSE {chain} :
             req' = [req EXCEPT ![r] = [q EXCEPT !.pc = pc, !.access = a, !.next = n,
                                                 !.family = f, !.minted_at = now]]
      BY <1>5, <2>2 DEF BeginIssue
    <3>2. pc \in Plain \cup {"put_access"}
      BY <1>2
    <3> HIDE DEF pc
    <3>3. req'[r] = [q EXCEPT !.pc = pc, !.access = a, !.next = n, !.family = f, !.minted_at = now]
      BY <1>1, <3>1 DEF Handlers
    <3>4. req'[r].pc = pc
      BY <3>3 DEF Request
    <3> QED BY <3>2, <3>4
  <2> QED BY <2>1, <2>2
<1>6. ASSUME TakeCode(r) PROVE req'[r].pc \in Plain \cup TakenSteps
  <2>1. Return(r) \/ \E pc \in TakenSteps :
                         req' = [req EXCEPT ![r].pc = pc, ![r].rec = codes[req[r].cred]]
    BY <1>6 DEF TakeCode, TakenSteps
  <2> QED BY <1>3, <1>4, <2>1
<1>7. ASSUME ReadRefresh(r) PROVE req'[r].pc \in Plain \cup {"restore_refresh", "put_access"}
  <2> DEFINE rec == refresh[req[r].cred]
             q == [req[r] EXCEPT !.rec = rec]
  <2>1. \/ Return(r)
        \/ \E pc \in {"restore_refresh", "retry_access", "reuse_revoke", "spend_refresh"} :
               req' = [req EXCEPT ![r].pc = pc, ![r].rec = rec]
        \/ BeginIssue(r, q, rec.family_id)
    BY <1>7 DEF ReadRefresh, GiveBack
  <2>2. q \in Request
    <3>1. rec \in Option(RefreshTokenRecord(Nat))
      BY <1>7 DEF Typed, TypeOK, Handlers, Proper, LookupSteps, ReadRefresh
    <3> HIDE DEF rec
    <3> QED BY <1>1, <3>1 DEF Request, Option
  <2> HIDE DEF rec, q
  <2> QED BY <1>2, <1>3, <1>4, <1>5, <2>1, <2>2
<1>8. ASSUME ConsumeCode(r) \/ SpendRefresh(r) PROVE req'[r].pc \in Plain \cup {"put_access"}
  <2>1. Return(r) \/ \E chain : BeginIssue(r, req[r], chain)
    BY <1>8 DEF ConsumeCode, SpendRefresh
  <2> QED BY <1>1, <1>3, <1>5, <2>1
<1>9. ASSUME PutAccess(r) \/ PutRefresh(r)
      PROVE  req'[r].pc \in Plain \cup {"put_refresh", "undo_issuance", "record_redemption"}
  <2>1. \/ Return(r)
        \/ \E pc \in {"put_refresh", "undo_issuance", "record_redemption"} : Goto(r, pc)
    <3>1. ASSUME Issued(r) PROVE Return(r) \/ Goto(r, "record_redemption")
      BY <3>1 DEF Issued, Grant
    <3> QED BY <1>9, <3>1 DEF PutAccess, PutRefresh
  <2> QED BY <1>3, <1>4, <2>1
<1>10. ASSUME RestoreCode(r) \/ RecordRedemption(r) \/ UndoAccess(r) \/ UndoRefresh(r)
              \/ UndoIssuance(r)
       PROVE  req'[r].pc \in Plain \cup {"undo_access", "undo_refresh"}
  <2>1. Return(r) \/ \E pc \in {"undo_access", "undo_refresh"} : Goto(r, pc)
    BY <1>10 DEF RestoreCode, RecordRedemption, UndoAccess, UndoRefresh, UndoIssuance, Grant
  <2> QED BY <1>3, <1>4, <2>1
<1>11. ASSUME ReplayLookup(r) \/ ReplayRevoke(r) \/ ReplayDelete(r) \/ ReplayRecord(r)
       PROVE  req'[r].pc \in Plain
  <2>1. ASSUME NEW failed, AfterFamily(r, failed) PROVE req'[r].pc \in Plain
    <3>1. \E pc \in {"replay_record", "replay_delete"} :
              req' = [req EXCEPT ![r].failed = failed, ![r].pc = pc]
      BY <2>1 DEF AfterFamily
    <3> QED BY <1>2, <1>4, <3>1
  <2> QED BY <1>2, <1>3, <1>4, <1>11, <2>1
          DEF ReplayLookup, ReplayRevoke, ReplayDelete, ReplayRecord
<1>12. ASSUME RestoreRefresh(r) \/ ReuseRevoke(r) \/ ReuseRearm(r) \/ CommitRotation(r)
              \/ RetryAccess(r) \/ RetryNext(r)
       PROVE  req'[r].pc \in Plain
  <2>1. Return(r) \/ \E pc \in {"reuse_rearm", "reread", "retry_next"} : Goto(r, pc)
    BY <1>12 DEF RestoreRefresh, ReuseRevoke, ReuseRearm, CommitRotation, RetryAccess, RetryNext,
       Grant
  <2> QED BY <1>2, <1>3, <1>4, <2>1
<1>13. ASSUME Reread(r) PROVE req'[r].pc \in Plain
  <2>1. Return(r) \/ \E v : req' = [req EXCEPT ![r].pc = "retry_access", ![r].rec = v]
    BY <1>13 DEF Reread
  <2> QED BY <1>2, <1>3, <1>4, <2>1
<1>14. ASSUME RevokeLookup(r) \/ RevokeCascade(r) \/ RevokeTake(r) \/ RevokeAccess(r)
              \/ RevokeDelete(r)
       PROVE  req'[r].pc \in Plain
  <2>1. \/ Return(r)
        \/ \E pc \in {"revoke_take", "revoke_delete"} : Goto(r, pc)
        \/ \E v : \/ req' = [req EXCEPT ![r].pc = "revoke_cascade", ![r].rec = v]
                  \/ req' = [req EXCEPT ![r].pc = "revoke_take", ![r].failed = v]
    BY <1>14 DEF RevokeLookup, RevokeCascade, RevokeTake, RevokeAccess, RevokeDelete
  <2> QED BY <1>2, <1>3, <1>4, <2>1
<1> QED BY <1>6, <1>7, <1>8, <1>9, <1>10, <1>11, <1>12, <1>13, <1>14 DEF RequestStep, Plain
=============================================================================

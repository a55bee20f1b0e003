---------------------------- MODULE TokenEndpoint ----------------------------
(***************************************************************************)
(* The token and revocation endpoints of `AuthorizationServer`              *)
(* (crates/oauth-as/src/server.rs): redeeming an authorization code,        *)
(* refreshing, RFC 7009 revocation, and the withdrawals and deletions that  *)
(* race them.                                                               *)
(*                                                                          *)
(* A request is an async function.  It is suspended at each call of the     *)
(* store, so each store call, with the in-memory code that runs up to the   *)
(* next one, is one action, and requests interleave between them.  A        *)
(* request may also be dropped where it is suspended, which is what a       *)
(* store error that the handler returns amounts to as well; the calls whose *)
(* error the handler survives have an action of their own.                  *)
(***************************************************************************)
EXTENDS Storage

CONSTANTS
    Requests,               \* request slots: how many handlers run at once
    Operations,             \* the operations this instance lets callers start
    Rotations,              \* the refresh_rotation settings explored: "Rotate", "Reuse"
    RetryWindows,           \* the refresh_retry_window settings explored: 0 disables retries
    issue_refresh_tokens,   \* ServerConfig and the client's registered grants
    access_token_ttl, refresh_token_ttl, refresh_reuse_window,
    authorization_code_ttl, device_code_ttl,
    Faults,                 \* the fault models explored, each a set of: "drop", a suspended
                            \* request may be dropped, or a store call whose error the handler
                            \* returns may fail; "store_error", a store call whose error the
                            \* handler survives may fail
    MaxNow,                 \* bound: the clock stops here
    MaxInFlight             \* bound: how long a request may stay suspended

ASSUME ConfigAssumption ==
    /\ Rotations \subseteq {"Rotate", "Reuse"}
    /\ RetryWindows \subseteq Nat
    /\ issue_refresh_tokens \in BOOLEAN
    /\ Faults \subseteq SUBSET {"drop", "store_error"}
    /\ {access_token_ttl, refresh_reuse_window, authorization_code_ttl, device_code_ttl, MaxNow,
        MaxInFlight} \subseteq Nat
    /\ refresh_token_ttl \in Option(Nat)

\* The store keeps a table per kind of identifier, so one kind is never mistaken for another; here
\* the kinds are disjoint sets instead.
ASSUME IdentifierAssumption ==
    /\ AuthCodes \cap (RefreshTokens \cup DeviceCodes \cup AccessTokens) = {}
    /\ RefreshTokens \cap (DeviceCodes \cup AccessTokens) = {}
    /\ DeviceCodes \cap AccessTokens = {}
    /\ FamilyIds \cap (AuthCodes \cup RefreshTokens \cup DeviceCodes \cup AccessTokens) = {}

\* None is neither an identifier nor a record.
ASSUME AbsentAssumption ==
    /\ None \notin AuthCodes \cup RefreshTokens \cup DeviceCodes \cup AccessTokens
    /\ None \notin FamilyIds \cup ClientIds \cup Subjects
    /\ None \notin AuthorizationCodeRecord(Nat)
    /\ None \notin IssuedToken(Nat)
    /\ None \notin RefreshTokenRecord(Nat)
    /\ None \notin RefreshTokenRetry(Nat)
    /\ None \notin ConsentRecord(Nat)

VARIABLES
    config,         \* the refresh policy of this server and its faults, fixed at its start
    now,            \* the server's clock
    req,            \* req[r]: the handler running in slot r
    used,           \* identifiers the random source has produced
    \* History, read by no handler:
    granted,        \* the token responses handed to clients
    contained,      \* codes whose replay was reported without `containment_failed`
    logged_out,     \* refresh tokens whose owner's revocation was answered without a failure
    alarmed,        \* families whose revocation was reported with `cascade_failed`
    undone,         \* codes whose redemption was taken back at its last step
    presented,      \* how often its own client presented a code, up to 2
    revoked,        \* families on which a family revocation has run
    withdrawn_at,   \* when a (client, subject) consent was last withdrawn
    deleted_at      \* when a client was last deleted

reports == <<contained, logged_out, alarmed, undone, presented>>
revocations == <<revoked, withdrawn_at, deleted_at>>
history == <<granted, reports, revocations>>
vars == <<storeVars, config, now, req, used, history>>

Configurations ==
    [refresh_rotation: Rotations, refresh_retry_window: RetryWindows, faults: Faults]

Reuse == config.refresh_rotation = "Reuse"
Strict == ~Reuse /\ config.refresh_retry_window = 0
Retryable == ~Reuse /\ config.refresh_retry_window > 0

Drops == "drop" \in config.faults
StoreErrors == "store_error" \in config.faults

Steps ==
    {"idle", "take_code", "restore_code", "consume_code", "record_redemption",
     "undo_access", "undo_refresh", "replay_lookup", "replay_revoke", "replay_delete",
     "replay_record", "read_refresh", "restore_refresh", "reuse_revoke", "reuse_rearm",
     "spend_refresh", "put_access", "put_refresh", "undo_issuance", "rotate", "reread",
     "retry_access", "retry_next", "revoke_lookup", "revoke_cascade", "revoke_take",
     "revoke_access", "revoke_delete"}
    \cup {"authenticate", "draw_user_code", "put_grant", "drop_expired", "decide", "read_grant",
          "write_poll", "deliver_denial", "take_grant"}   \* DeviceFlow

\* The locals of a handler: who called, what was presented, the record it holds, what it mints.
Idle == [pc |-> "idle", client |-> None, cred |-> None, rec |-> None, family |-> None,
         access |-> None, next |-> None, minted_at |-> 0, failed |-> FALSE, since |-> 0]

Credentials == AuthCodes \cup RefreshTokens \cup AccessTokens \cup DeviceCodes

Request ==
    [pc: Steps, client: Option(ClientIds), cred: Option(Credentials),
     rec: Option(AuthorizationCodeRecord(Nat) \cup RefreshTokenRecord(Nat)
                     \cup DeviceGrant(Nat)),
     family: Option(FamilyIds), access: Option(AccessTokens), next: Option(RefreshTokens),
     minted_at: Nat, failed: BOOLEAN, since: Nat]

TokenResponse ==
    [client: ClientIds, from: AuthCodes \cup RefreshTokens \cup DeviceCodes,
     family: Option(FamilyIds), access: AccessTokens, next: Option(RefreshTokens)]

\* The types of the endpoint's own state, beside the store's.
EndpointTypeOK ==
    /\ TypeOK
    /\ config \in Configurations
    /\ now \in Nat
    /\ req \in [Requests -> Request]
    /\ used \subseteq Credentials \cup FamilyIds
    /\ granted \subseteq TokenResponse
    /\ contained \subseteq AuthCodes
    /\ logged_out \subseteq RefreshTokens
    /\ alarmed \subseteq FamilyIds
    /\ undone \subseteq AuthCodes
    /\ presented \in [AuthCodes -> 0..2]
    /\ revoked \subseteq FamilyIds
    /\ withdrawn_at \in [ClientIds \X Subjects -> Option(Nat)]
    /\ deleted_at \in [ClientIds -> Option(Nat)]

Init ==
    /\ clients \in [ClientIds -> Registrations]
    /\ device_by_code = Empty(DeviceCodes)
    /\ user_code_index = Empty(UserCodes)
    /\ codes = Empty(AuthCodes)
    /\ pushed = Empty(RequestUris)
    /\ tokens = Empty(AccessTokens)
    /\ refresh = Empty(RefreshTokens)
    /\ consents = Empty(ConsentIds)
    /\ replay_ids = Empty(ReplayIds)
    /\ client_barriers = Empty(ClientIds)
    /\ family_barriers = Empty(FamilyIds)
    /\ consent_barriers = Empty(ClientIds \X Subjects)
    /\ config \in Configurations
    /\ now = 0
    /\ req = [r \in Requests |-> Idle]
    /\ used = {}
    /\ granted = {} /\ contained = {} /\ logged_out = {} /\ alarmed = {} /\ undone = {}
    /\ revoked = {}
    /\ presented = [c \in AuthCodes |-> 0]
    /\ withdrawn_at = Empty(ClientIds \X Subjects)
    /\ deleted_at = Empty(ClientIds)

-----------------------------------------------------------------------------
(***************************************************************************)
(* Shared by the handlers                                                   *)
(***************************************************************************)
\* Mutant of Longest: a barrier stands as long as an access token lives.
access_lifetime_only == access_token_ttl

Longest ==
    LET lifetimes == {access_token_ttl, IF refresh_token_ttl = None THEN 0 ELSE refresh_token_ttl,
                      refresh_reuse_window, authorization_code_ttl, device_code_ttl}
    IN  CHOOSE t \in lifetimes : \A u \in lifetimes : u <= t

revocation_window == [recorded_at |-> now, until |-> now + Longest]

Goto(r, pc) == req' = [req EXCEPT ![r].pc = pc]
Return(r) == req' = [req EXCEPT ![r] = Idle]

\* A family revocation a handler makes.
RevokeFamily(family) ==
    revoke_token_family(family, revocation_window) /\ revoked' = revoked \cup {family}

\* A call of the store that fails, where the handler goes on regardless.
CallFails == StoreErrors /\ UNCHANGED storeVars

\* Mutant of Spend: the deadline is set and the state forgotten.
spend_stays_active(rec, at) == [rec EXCEPT !.expires_at = at + refresh_reuse_window]

Spend(rec, at) ==
    [rec EXCEPT !.state = "Spent",
                !.expires_at = IF rec.expires_at = None THEN at + refresh_reuse_window
                               ELSE rec.expires_at]

(***************************************************************************)
(* `issue`: read the clock and draw the identifiers, sign (a suspension),   *)
(* then the writes below.  A random source with nothing left, like a signer *)
(* that fails, makes it return server_error.                                *)
(***************************************************************************)
MintsRefresh(chain) == issue_refresh_tokens /\ ~(chain # None /\ Reuse)

Fresh(S, wanted) == IF wanted THEN S \ used ELSE {None}

\* q: the handler's locals so far; chain: the family a refresh continues, or None.
BeginIssue(r, q, chain) ==
    \/ \E a \in AccessTokens \ used, n \in Fresh(RefreshTokens, MintsRefresh(chain)),
          f \in IF chain = None THEN Fresh(FamilyIds, MintsRefresh(chain)) ELSE {chain} :
           /\ req' = [req EXCEPT ![r] =
                  [q EXCEPT !.pc = IF chain # None /\ Retryable THEN "rotate" ELSE "put_access",
                            !.access = a, !.next = n, !.family = f, !.minted_at = now]]
           /\ used' = used \cup ({a, n, f} \ {None})
    \/ Return(r) /\ UNCHANGED used

Established(q) ==
    IF q.cred \in AuthCodes THEN q.rec.issued_at
    ELSE IF q.cred \in DeviceCodes THEN q.rec.created_at
    ELSE q.rec.grant_established_at

GrantSubject(q) == IF q.cred \in DeviceCodes THEN q.rec.state.subject ELSE q.rec.subject

AccessRecord(q) ==
    [client_id |-> q.client, subject |-> GrantSubject(q), family_id |-> q.family,
     grant_established_at |-> Established(q), expires_at |-> q.minted_at + access_token_ttl]

NextRecord(q) ==
    [client_id |-> q.client, subject |-> GrantSubject(q), family_id |-> q.family,
     grant_established_at |-> Established(q),
     expires_at |-> IF q.cred \in RefreshTokens THEN q.rec.expires_at
                    ELSE IF refresh_token_ttl = None THEN None
                    ELSE q.minted_at + refresh_token_ttl,
     state |-> "Active", retry |-> None]

\* The Ok answer of a token request.
Grant(r, family, access, next) ==
    /\ granted' = granted \cup {[client |-> req[r].client, from |-> req[r].cred,
                                 family |-> family, access |-> access, next |-> next]}
    /\ Return(r)

\* What `issue` answers once its writes are in: a redemption still has to record itself, and a
\* reusing refresh hands the presented token back.
Issued(r) ==
    LET q == req[r] IN
    IF q.cred \in AuthCodes THEN Goto(r, "record_redemption") /\ UNCHANGED granted
    ELSE Grant(r, q.family, q.access, IF q.cred \in RefreshTokens /\ Reuse THEN q.cred ELSE q.next)

PutAccess(r) ==
    LET q == req[r] IN
    /\ q.pc = "put_access"
    /\ put_token(q.access, AccessRecord(q))
    /\ IF Refused(AccessRecord(q)) THEN Return(r) /\ UNCHANGED granted
       ELSE IF q.next = None THEN Issued(r)
       ELSE Goto(r, "put_refresh") /\ UNCHANGED granted
    /\ UNCHANGED <<config, now, used, reports, revocations>>

PutRefresh(r) ==
    LET q == req[r] IN
    /\ q.pc = "put_refresh"
    /\ put_refresh_token(q.next, NextRecord(q))
    /\ IF Refused(NextRecord(q)) THEN Goto(r, "undo_issuance") /\ UNCHANGED granted
       ELSE Issued(r)
    /\ UNCHANGED <<config, now, used, reports, revocations>>

\* undo_issuance swallows its own failure.
UndoIssuance(r) ==
    /\ req[r].pc = "undo_issuance"
    /\ delete_token(req[r].access) \/ CallFails
    /\ Return(r)
    /\ UNCHANGED <<config, now, used, history>>

-----------------------------------------------------------------------------
(***************************************************************************)
(* authorization_code_token                                                 *)
(***************************************************************************)
\* authenticate_client: the client is read once, here, and may be deleted afterwards.
StartRedeem(r, c, code) ==
    /\ "redeem" \in Operations
    /\ req[r].pc = "idle" /\ clients[c] # None /\ code \in used
    /\ req' = [req EXCEPT ![r] = [Idle EXCEPT !.pc = "take_code", !.client = c,
                                              !.cred = code, !.since = now]]
    /\ UNCHANGED <<storeVars, config, now, used, history>>

Minted(rec) == rec.state.status \in {"Consumed", "Replayed"}

TakeCode(r) ==
    LET q == req[r]
        rec == codes[q.cred]
        Held(pc) == req' = [req EXCEPT ![r].pc = pc, ![r].rec = rec]
    IN
    /\ q.pc = "take_code"
    /\ take_authorization_code(q.cred)
    /\ presented' = IF rec # None /\ rec.client_id = q.client /\ presented[q.cred] < 2
                    THEN [presented EXCEPT ![q.cred] = @ + 1] ELSE presented
    /\ \/ rec = None /\ Return(r)
       \/ rec # None /\ rec.client_id # q.client /\ Held("restore_code")
       \/ /\ rec # None /\ rec.client_id = q.client /\ Minted(rec)
          /\ Held(IF rec.state.refresh_token # None THEN "replay_lookup"
                  ELSE IF rec.state.access_token # None THEN "replay_delete" ELSE "replay_record")
       \/ /\ rec # None /\ rec.client_id = q.client /\ ~Minted(rec)
          /\ IF now >= rec.expires_at THEN Return(r)
             ELSE \* redirect_uri, PKCE, DPoP key, narrowing: whether the request passes them
                  Held("restore_code") \/ Held("consume_code")
    /\ UNCHANGED <<config, now, used, granted, contained, logged_out, alarmed, undone,
                   revocations>>

RestoreCode(r) ==
    /\ req[r].pc = "restore_code"
    /\ put_authorization_code(req[r].cred, req[r].rec)
    /\ Return(r)
    /\ UNCHANGED <<config, now, used, history>>

CodeState(status, a, n) == [status |-> status, access_token |-> a, refresh_token |-> n]

\* Consumed is written before anything is issued, and names nothing yet.
ConsumeCode(r) ==
    /\ req[r].pc = "consume_code"
    /\ put_authorization_code(req[r].cred,
           [req[r].rec EXCEPT !.state = CodeState("Consumed", None, None)])
    /\ BeginIssue(r, req[r], None)
    /\ UNCHANGED <<config, now, history>>

\* The compare-and-swap that closes a redemption: a replay that got there first has changed the
\* record or holds it, and what was issued is taken back.
RecordRedemption(r) ==
    LET q == req[r]
        before == CodeState("Consumed", None, None)
        after == [q.rec EXCEPT !.state = CodeState("Consumed", q.access, q.next)]
    IN
    /\ q.pc = "record_redemption"
    /\ \/ /\ compare_and_swap_authorization_code(q.cred, before, after)
          /\ IF CodeSwaps(q.cred, before)
             THEN Grant(r, q.family, q.access, q.next) /\ UNCHANGED undone
             ELSE Goto(r, "undo_access") /\ undone' = undone \cup {q.cred} /\ UNCHANGED granted
       \/ CallFails /\ Goto(r, "undo_access") /\ UNCHANGED <<granted, undone>>
    /\ UNCHANGED <<config, now, used, contained, logged_out, alarmed, presented, revocations>>

UndoAccess(r) ==
    /\ req[r].pc = "undo_access"
    /\ delete_token(req[r].access) \/ CallFails
    /\ IF req[r].next = None THEN Return(r) ELSE Goto(r, "undo_refresh")
    /\ UNCHANGED <<config, now, used, history>>

UndoRefresh(r) ==
    /\ req[r].pc = "undo_refresh"
    /\ take_refresh_token(req[r].next) \/ CallFails
    /\ Return(r)
    /\ UNCHANGED <<config, now, used, history>>

(***************************************************************************)
(* A code presented again: revoke the family its refresh token names, or    *)
(* failing that the access token, and put the record back as Replayed.      *)
(***************************************************************************)
\* A slip: the family survives, and nobody is told.
after_family_unreported(r, failed) ==
    req' = [req EXCEPT ![r].pc = IF req[r].rec.state.access_token = None THEN "replay_record"
                                 ELSE "replay_delete"]

AfterFamily(r, failed) ==
    req' = [req EXCEPT ![r].failed = failed,
                       ![r].pc = IF req[r].rec.state.access_token = None THEN "replay_record"
                                 ELSE "replay_delete"]

ReplayLookup(r) ==
    LET chain == refresh[req[r].rec.state.refresh_token] IN
    /\ req[r].pc = "replay_lookup"
    /\ \/ /\ chain # None
          /\ req' = [req EXCEPT ![r].pc = "replay_revoke", ![r].family = chain.family_id]
       \/ chain = None /\ AfterFamily(r, FALSE)
       \/ StoreErrors /\ AfterFamily(r, TRUE)
    /\ UNCHANGED <<storeVars, config, now, used, history>>

ReplayRevoke(r) ==
    /\ req[r].pc = "replay_revoke"
    /\ \/ RevokeFamily(req[r].family) /\ Goto(r, "replay_record")
       \/ CallFails /\ UNCHANGED revoked /\ AfterFamily(r, TRUE)
    /\ UNCHANGED <<config, now, used, granted, reports, withdrawn_at, deleted_at>>

ReplayDelete(r) ==
    /\ req[r].pc = "replay_delete"
    /\ \/ delete_token(req[r].rec.state.access_token) /\ Goto(r, "replay_record")
       \/ CallFails /\ req' = [req EXCEPT ![r].pc = "replay_record", ![r].failed = TRUE]
    /\ UNCHANGED <<config, now, used, history>>

\* The audit event carries containment_failed; `contained` collects the codes reported clean.
ReplayRecord(r) ==
    LET q == req[r] IN
    /\ q.pc = "replay_record"
    /\ \/ /\ put_authorization_code(q.cred, [q.rec EXCEPT !.state.status = "Replayed"])
          /\ contained' = IF q.failed THEN contained ELSE contained \cup {q.cred}
       \/ CallFails /\ UNCHANGED contained
    /\ Return(r)
    /\ UNCHANGED <<config, now, used, granted, logged_out, alarmed, undone, presented,
                   revocations>>

-----------------------------------------------------------------------------
(***************************************************************************)
(* refresh_token                                                            *)
(***************************************************************************)
\* The refresh tokens callers hold: those some response carried.
HeldRefresh == {g.next : g \in granted} \ {None}

StartRefresh(r, c, token) ==
    /\ "refresh" \in Operations
    /\ req[r].pc = "idle" /\ clients[c] # None /\ token \in HeldRefresh
    /\ req' = [req EXCEPT ![r] = [Idle EXCEPT !.pc = "read_refresh", !.client = c,
                                              !.cred = token, !.since = now]]
    /\ UNCHANGED <<storeVars, config, now, used, history>>

Expired(rec) == rec.expires_at # None /\ now >= rec.expires_at

\* refresh_retry_response applies: the record carries an answer that has not lapsed.
RetryStands(rec) == rec.retry # None /\ now < rec.retry.until

\* Mutant of GiveBack: the record is written back under every policy.
give_back_always(r, rec) == req' = [req EXCEPT ![r].pc = "restore_refresh", ![r].rec = rec]

\* restore_refresh_token writes only when rotation is not retryable.
GiveBack(r, rec) ==
    IF config.refresh_retry_window > 0 THEN Return(r)
    ELSE req' = [req EXCEPT ![r].pc = "restore_refresh", ![r].rec = rec]

\* Strict rotation TAKES the record; the other two policies read it.  No call of the store
\* separates the read from the judgement of the record.
ReadRefresh(r) ==
    LET q == req[r]
        rec == refresh[q.cred]
        Held(pc) == req' = [req EXCEPT ![r].pc = pc, ![r].rec = rec]
    IN
    /\ q.pc = "read_refresh"
    /\ IF Strict THEN take_refresh_token(q.cred) ELSE UNCHANGED storeVars
    /\ IF rec = None THEN Return(r) /\ UNCHANGED used
       ELSE IF rec.client_id # q.client THEN GiveBack(r, rec) /\ UNCHANGED used
       ELSE IF Retryable /\ RetryStands(rec)
            THEN /\ IF Expired(rec) THEN Return(r) ELSE Held("retry_access")
                 /\ UNCHANGED used
       ELSE IF ~Reuse /\ rec.state = "Spent" THEN Held("reuse_revoke") /\ UNCHANGED used
       ELSE \/ GiveBack(r, rec) /\ UNCHANGED used  \* a key binding, widened scope, or resource
            \/ Return(r) /\ UNCHANGED used         \* expired, or its scope no longer registered
            \/ /\ ~Expired(rec)
               /\ IF Strict THEN Held("spend_refresh") /\ UNCHANGED used
                  ELSE BeginIssue(r, [q EXCEPT !.rec = rec], rec.family_id)
    /\ UNCHANGED <<config, now, history>>

RestoreRefresh(r) ==
    /\ req[r].pc = "restore_refresh"
    /\ put_refresh_token(req[r].cred, req[r].rec)
    /\ Return(r)
    /\ UNCHANGED <<config, now, used, history>>

\* A spent token presented again revokes its family; if that fails the record goes back, so the
\* next presentation still trips the alarm.
ReuseRevoke(r) ==
    /\ req[r].pc = "reuse_revoke"
    /\ \/ RevokeFamily(req[r].rec.family_id) /\ Return(r)
       \/ CallFails /\ UNCHANGED revoked /\ Goto(r, "reuse_rearm")
    /\ UNCHANGED <<config, now, used, granted, reports, withdrawn_at, deleted_at>>

ReuseRearm(r) ==
    /\ req[r].pc = "reuse_rearm"
    /\ put_refresh_token(req[r].cred, req[r].rec)
    /\ Return(r)
    /\ UNCHANGED <<config, now, used, history>>

\* Strict rotation: the spent record is written before anything is issued.
SpendRefresh(r) ==
    LET q == req[r]
        spent == Spend(q.rec, now)
    IN
    /\ q.pc = "spend_refresh"
    /\ put_refresh_token(q.cred, spent)
    /\ IF Refused(spent) THEN Return(r) /\ UNCHANGED used
       ELSE BeginIssue(r, q, q.rec.family_id)
    /\ UNCHANGED <<config, now, history>>

(***************************************************************************)
(* Retryable rotation: commit_refresh_retry and refresh_retry_response      *)
(***************************************************************************)
Earlier(a, b) == IF a < b THEN a ELSE b

RetryAnswer(q) ==
    LET lapse == q.minted_at + access_token_ttl IN
    [access_token |-> q.access, refresh_token |-> q.next,
     until |-> Earlier(Earlier(q.minted_at + config.refresh_retry_window, lapse),
                       IF q.rec.expires_at = None THEN lapse ELSE q.rec.expires_at)]

CommitRotation(r) ==
    LET q == req[r] IN
    /\ q.pc = "rotate"
    /\ rotate_refresh_token(q.cred, q.rec,
           [Spend(q.rec, q.minted_at) EXCEPT !.retry = RetryAnswer(q)],
           q.access, AccessRecord(q),
           q.next, [NextRecord(q) EXCEPT !.retry = RetryAnswer(q)])
    /\ IF Rotates(q.cred, q.rec) THEN Grant(r, q.family, q.access, q.next)
       ELSE Goto(r, "reread") /\ UNCHANGED granted
    /\ UNCHANGED <<config, now, used, reports, revocations>>

\* A rotation that lost looks for the winner's answer in the record as it is now.
Reread(r) ==
    LET current == refresh[req[r].cred] IN
    /\ req[r].pc = "reread"
    /\ IF current # None /\ RetryStands(current) /\ ~Expired(current)
       THEN req' = [req EXCEPT ![r].pc = "retry_access", ![r].rec = current]
       ELSE Return(r)
    /\ UNCHANGED <<storeVars, config, now, used, history>>

\* The recorded access token must still be live and of this grant; the request must also ask
\* for what it carries, which is either outcome.
RetryAccess(r) ==
    LET q == req[r]
        t == tokens[q.rec.retry.access_token]
    IN
    /\ q.pc = "retry_access"
    /\ \/ Return(r) /\ UNCHANGED granted
       \/ /\ t # None /\ now < t.expires_at
          /\ t.family_id = q.rec.family_id /\ t.client_id = q.rec.client_id
          /\ t.subject = q.rec.subject /\ t.grant_established_at = q.rec.grant_established_at
          /\ IF q.rec.retry.refresh_token = None
             THEN Grant(r, q.rec.family_id, q.rec.retry.access_token, None)
             ELSE Goto(r, "retry_next") /\ UNCHANGED granted
    /\ UNCHANGED <<storeVars, config, now, used, reports, revocations>>

RetryNext(r) ==
    LET q == req[r]
        next == refresh[q.rec.retry.refresh_token]
    IN
    /\ q.pc = "retry_next"
    /\ IF next # None /\ next.state = "Active" /\ next.family_id = q.rec.family_id
       THEN Grant(r, q.rec.family_id, q.rec.retry.access_token, q.rec.retry.refresh_token)
       ELSE Return(r) /\ UNCHANGED granted
    /\ UNCHANGED <<storeVars, config, now, used, reports, revocations>>

-----------------------------------------------------------------------------
(***************************************************************************)
(* revoke_with_credential (RFC 7009).  The hint orders two lookups of which *)
(* one finds nothing, so it is not modelled.                                *)
(***************************************************************************)
HeldAccess == {g.access : g \in granted}

Owner(token) == CHOOSE c \in ClientIds : \E g \in granted : g.next = token /\ g.client = c

LogOut(r) ==
    logged_out' = IF /\ ~req[r].failed /\ req[r].cred \in HeldRefresh
                     /\ Owner(req[r].cred) = req[r].client
                  THEN logged_out \cup {req[r].cred} ELSE logged_out

StartRevoke(r, c, token) ==
    /\ "revoke" \in Operations
    /\ req[r].pc = "idle" /\ clients[c] # None /\ token \in HeldRefresh \cup HeldAccess
    /\ req' = [req EXCEPT ![r] =
           [Idle EXCEPT !.pc = IF token \in RefreshTokens THEN "revoke_lookup" ELSE "revoke_access",
                        !.client = c, !.cred = token, !.since = now]]
    /\ UNCHANGED <<storeVars, config, now, used, history>>

\* Unknown, or somebody else's: nothing to do, and the answer is 200 all the same.
RevokeLookup(r) ==
    LET rec == refresh[req[r].cred] IN
    /\ req[r].pc = "revoke_lookup"
    /\ IF rec # None /\ rec.client_id = req[r].client
       THEN req' = [req EXCEPT ![r].pc = "revoke_cascade", ![r].rec = rec] /\ UNCHANGED logged_out
       ELSE Return(r) /\ LogOut(r)
    /\ UNCHANGED <<storeVars, config, now, used, granted, contained, alarmed, undone,
                   presented, revocations>>

\* Mutant of RevokeCascade: only the presented token is revoked.
revoke_no_cascade(r) ==
    /\ req[r].pc = "revoke_cascade"
    /\ Goto(r, "revoke_take")
    /\ UNCHANGED <<storeVars, config, now, used, history>>

RevokeCascade(r) ==
    /\ req[r].pc = "revoke_cascade"
    /\ \/ RevokeFamily(req[r].rec.family_id) /\ Goto(r, "revoke_take")
       \/ /\ CallFails /\ UNCHANGED revoked
          /\ req' = [req EXCEPT ![r].pc = "revoke_take", ![r].failed = TRUE]
    /\ UNCHANGED <<config, now, used, granted, reports, withdrawn_at, deleted_at>>

\* The event carries cascade_failed; the answer is 200 all the same.
RevokeTake(r) ==
    LET q == req[r] IN
    /\ q.pc = "revoke_take"
    /\ take_refresh_token(q.cred)
    /\ Return(r) /\ LogOut(r)
    /\ alarmed' = IF q.failed THEN alarmed \cup {q.rec.family_id} ELSE alarmed
    /\ UNCHANGED <<config, now, used, granted, contained, undone, presented, revocations>>

RevokeAccess(r) ==
    LET t == tokens[req[r].cred] IN
    /\ req[r].pc = "revoke_access"
    /\ IF t # None /\ t.client_id = req[r].client THEN Goto(r, "revoke_delete") ELSE Return(r)
    /\ UNCHANGED <<storeVars, config, now, used, history>>

RevokeDelete(r) ==
    /\ req[r].pc = "revoke_delete"
    /\ delete_token(req[r].cred)
    /\ Return(r)
    /\ UNCHANGED <<config, now, used, history>>

-----------------------------------------------------------------------------
(***************************************************************************)
(* The host, the resource owner and the environment                         *)
(***************************************************************************)
\* issue_authorization_code: the code is dated at the decision it rests on, which the host may
\* have taken a while ago (UserApproval::granted_at), and expires from now.
IssueCode(code, c, s, decided_at) ==
    /\ code \notin used /\ decided_at <= now /\ now - decided_at <= MaxInFlight
    /\ put_authorization_code(code,
           [client_id |-> c, subject |-> s, issued_at |-> decided_at,
            expires_at |-> now + authorization_code_ttl,
            state |-> CodeState("Issued", None, None)])
    /\ used' = used \cup {code}
    /\ UNCHANGED <<config, now, req, history>>

\* record_consent with no earlier record of the pair.
RecordConsent(k, c, s) ==
    /\ "withdraw" \in Operations /\ consents[k] = None /\ None \in FindConsent(c, s)
    /\ compare_and_swap_consent(k, None, None,
           [consent_id |-> k, client_id |-> c, subject |-> s, scope |-> Scopes,
            granted_at |-> now])
    /\ UNCHANGED <<config, now, req, used, history>>

WithdrawConsent(k) ==
    /\ "withdraw" \in Operations /\ consents[k] # None
    /\ revoke_consent(k, revocation_window)
    /\ withdrawn_at' =
           [withdrawn_at EXCEPT ![<<consents[k].client_id, consents[k].subject>>] = now]
    /\ UNCHANGED <<config, now, req, used, granted, reports, revoked, deleted_at>>

DeleteClient(c) ==
    /\ "delete" \in Operations
    /\ delete_client(c, revocation_window)
    /\ deleted_at' = [deleted_at EXCEPT ![c] = now]
    /\ UNCHANGED <<config, now, req, used, granted, reports, revoked, withdrawn_at>>

\* The host provisions a deleted client_id again.
ProvisionClient(c, g) ==
    /\ "delete" \in Operations /\ clients[c] = None
    /\ put_client(c, g)
    /\ UNCHANGED <<config, now, req, used, history>>

Sweep == sweep_expired(now) /\ UNCHANGED <<config, now, req, used, history>>

\* The future is dropped at an await, or the store call it was suspended in fails.
Abandon(r) ==
    /\ Drops /\ req[r].pc # "idle"
    /\ Return(r)
    /\ UNCHANGED <<storeVars, config, now, used, history>>

Tick ==
    /\ now < MaxNow
    /\ \A r \in Requests : req[r].pc # "idle" => now - req[r].since < MaxInFlight
    /\ now' = now + 1
    /\ UNCHANGED <<storeVars, config, req, used, history>>

RequestStep(r) ==
    \/ TakeCode(r) \/ RestoreCode(r) \/ ConsumeCode(r) \/ RecordRedemption(r)
    \/ UndoAccess(r) \/ UndoRefresh(r)
    \/ ReplayLookup(r) \/ ReplayRevoke(r) \/ ReplayDelete(r) \/ ReplayRecord(r)
    \/ ReadRefresh(r) \/ RestoreRefresh(r) \/ ReuseRevoke(r) \/ ReuseRearm(r) \/ SpendRefresh(r)
    \/ PutAccess(r) \/ PutRefresh(r) \/ UndoIssuance(r)
    \/ CommitRotation(r) \/ Reread(r) \/ RetryAccess(r) \/ RetryNext(r)
    \/ RevokeLookup(r) \/ RevokeCascade(r) \/ RevokeTake(r) \/ RevokeAccess(r) \/ RevokeDelete(r)

Next ==
    \/ \E r \in Requests :
        \/ RequestStep(r) \/ Abandon(r)
        \/ \E c \in ClientIds :
            \/ \E code \in AuthCodes : StartRedeem(r, c, code)
            \/ \E token \in RefreshTokens : StartRefresh(r, c, token)
            \/ \E token \in RefreshTokens \cup AccessTokens : StartRevoke(r, c, token)
    \/ \E code \in AuthCodes, c \in ClientIds, s \in Subjects, t \in 0..MaxNow :
           IssueCode(code, c, s, t)
    \/ \E k \in ConsentIds, c \in ClientIds, s \in Subjects : RecordConsent(k, c, s)
    \/ \E k \in ConsentIds : WithdrawConsent(k)
    \/ \E c \in ClientIds : DeleteClient(c)
    \/ \E c \in ClientIds, g \in Registrations : ProvisionClient(c, g)
    \/ Sweep
    \/ Tick

Spec == Init /\ [][Next]_vars

-----------------------------------------------------------------------------
(***************************************************************************)
(* Properties                                                               *)
(***************************************************************************)
Unexpired(rec) == rec # None /\ (rec.expires_at = None \/ now < rec.expires_at)

LiveAccess(a) == Unexpired(tokens[a])

\* A refresh token that the endpoint would still honour.
LiveRefresh(n) == Unexpired(refresh[n]) /\ refresh[n].state = "Active"

\* The responses that stem from the redemption of `code`.
Descends(g, code) ==
    \/ g.from = code
    \/ \E h \in granted : h.from = code /\ h.family # None /\ h.family = g.family

\* One authorization code is answered with tokens at most once, however many requests present it
\* concurrently, and whichever of them are dropped or put the record back
\* (authorization_code_token: take, consume, issue, compare-and-swap).
SingleRedemption ==
    \A g, h \in granted : g.from \in AuthCodes /\ g.from = h.from => g = h

\* A rotated refresh token has one successor: every answer that replaced it carries the same
\* tokens, whether it was rotated, raced or retried (refresh_token, commit_refresh_retry).
OneSuccessor ==
    \A g, h \in granted :
        /\ g.from \in RefreshTokens /\ g.from = h.from
        /\ g.next # g.from /\ h.next # h.from
        => g = h

\* A refresh token that was answered with a successor is never usable again: no request that
\* still holds its old record writes it back as Active (restore_refresh_token).
SpentStaysSpent ==
    \A g \in granted : g.from \in RefreshTokens /\ g.next # g.from => ~LiveRefresh(g.from)

\* The tokens a redemption handed out are the ones its code names, in the store and in the hands
\* of every request that has taken the record, so a later replay knows what to revoke.
RedemptionRecorded ==
    \A g \in granted : g.from \in AuthCodes =>
        LET Names(rec) == /\ rec.state.access_token = g.access
                          /\ rec.state.refresh_token = g.next
        IN  /\ codes[g.from] # None => Names(codes[g.from])
            /\ \A r \in Requests : req[r].cred = g.from /\ req[r].rec # None => Names(req[r].rec)

\* The tokens of response g are not honoured, or the server has reported that a revocation's
\* cascade failed on their grant.
DeadOrAlarmed(g) ==
    \/ ~LiveAccess(g.access) /\ (g.next # None => ~LiveRefresh(g.next))
    \/ g.family \in alarmed

\* Once a replayed code has been reported without `containment_failed`, no token handed out from
\* that code's grant is honoured any more: not the redeemed ones, not what a chain has since been
\* rotated into (authorization_code_token, the replay branch).
ReplayContained ==
    \A code \in contained : \A g \in granted : Descends(g, code) => DeadOrAlarmed(g)

\* Once the owner of a refresh token has been told it is revoked, no token of that grant handed
\* to the client is honoured any more (revoke_with_credential).
RevokedMeansDead ==
    \A n \in logged_out : \A g, h \in granted :
        g.next = n /\ h.family = g.family => DeadOrAlarmed(h)

\* A revoked grant stays dead: a family once revoked, and a grant that stood when its consent was
\* withdrawn or its client deleted, never again has an unexpired token or refresh record in the
\* store, not even once the sweep has reclaimed the barrier that refused the writes of requests
\* then in flight (revocation_window, is_revoked, sweep_expired).
RevokedStaysDead ==
    LET Before(t, rec) == t = None \/ t < rec.grant_established_at
        Outlived(rec) ==
            /\ rec.family_id \notin revoked
            /\ Before(deleted_at[rec.client_id], rec)
            /\ rec.subject # None => Before(withdrawn_at[<<rec.client_id, rec.subject>>], rec)
    IN  /\ \A a \in AccessTokens : LiveAccess(a) => Outlived(tokens[a])
        /\ \A n \in RefreshTokens : LiveRefresh(n) => Outlived(refresh[n])

\* A redemption is taken back at its last step only because its own client presented the code
\* again ("the legitimate client must still be able to complete its flow, and letting a third
\* party destroy a live code is a denial of service for free").
OnlyOwnReplayUndoes == \A code \in undone : presented[code] > 1
-----------------------------------------------------------------------------
(***************************************************************************)
(* The endpoint implements GrantLineage where refresh tokens rotate         *)
(***************************************************************************)
\* A code that a stranger's request has taken and will put back is still its owner's to use.
CodeUsable(code) ==
    LET Open(rec) == rec.state.status = "Issued" /\ now < rec.expires_at
    IN  \/ codes[code] # None /\ Open(codes[code])
        \/ \E r \in Requests : req[r].pc = "restore_code" /\ req[r].cred = code /\ Open(req[r].rec)

TokenUsable(token) ==
    \/ LiveRefresh(token)
    \/ \E r \in Requests : /\ req[r].pc = "restore_refresh" /\ req[r].cred = token
                           /\ Unexpired(req[r].rec) /\ req[r].rec.state = "Active"

Known(c) == IF c \in AuthCodes THEN c \in used ELSE c \in HeldRefresh
Usable(c) == IF c \in AuthCodes THEN CodeUsable(c) ELSE TokenUsable(c)
Status(c) == IF ~Known(c) THEN "unknown" ELSE IF Usable(c) THEN "usable" ELSE "closed"

\* A retryable token presented within its own retry window is answered with itself, which is no
\* successor.
Lineage == INSTANCE GrantLineage WITH
    Codes <- AuthCodes, Tokens <- RefreshTokens,
    status <- [c \in AuthCodes \cup RefreshTokens |-> Status(c)],
    answers <- [c \in AuthCodes \cup RefreshTokens |->
                   {g.next : g \in {h \in granted : h.from = c}} \ {c}]

\* However requests interleave, are dropped or meet store errors, what a holder can observe of its
\* credentials is one lineage: no step of the endpoint reopens a credential it has closed, makes a
\* token usable before it is answered, or answers one credential with two successors
\* (authorization_code_token, refresh_token, restore_refresh_token, commit_refresh_retry).
ImplementsLineage == Lineage!Spec
=============================================================================

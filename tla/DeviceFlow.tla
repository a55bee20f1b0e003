----------------------------- MODULE DeviceFlow -----------------------------
(***************************************************************************)
(* The device authorization grant of `AuthorizationServer` (RFC 8628,       *)
(* crates/oauth-as/src/server.rs): a device asks for a code pair, the user  *)
(* approves or denies at the verification page, and the device polls the    *)
(* token endpoint meanwhile.  Three actors read and write one grant.        *)
(*                                                                          *)
(* It adds its handlers to those of TokenEndpoint, whose request slots,     *)
(* issuance, sweep and deletion it shares.  A device that was refused by    *)
(* the rate limiter has not reached the store, so the limiter is left out.  *)
(***************************************************************************)
EXTENDS TokenEndpoint

CONSTANTS
    poll_interval, slow_down_increment,     \* ServerConfig
    MaxDuration                             \* bound: Duration::MAX, where saturating_add stops

ASSUME PollAssumption == {poll_interval, slow_down_increment, MaxDuration} \subseteq Nat

\* None is not a decision.
ASSUME DecisionAssumption == None \notin DeviceGrantState

VARIABLES
    \* History, read by no handler:
    decided,    \* the decision whose user was told that it was recorded
    asked       \* when the client that asked for a device code was authenticated

deviceHistory == <<decided, asked>>
deviceVars == <<vars, deviceHistory>>

DeviceInit == Init /\ decided = Empty(DeviceCodes) /\ asked = Empty(DeviceCodes)

Pending == [status |-> "Pending", subject |-> None]
Denied == [status |-> "Denied", subject |-> None]
Approved(subject) == [status |-> "Approved", subject |-> subject]

-----------------------------------------------------------------------------
(***************************************************************************)
(* device_authorization_with_credential: the grant is dated at the entry of *)
(* the request, before the registration is read.                            *)
(***************************************************************************)
StartDeviceAuthorization(r, c) ==
    /\ req[r].pc = "idle"
    /\ req' = [req EXCEPT ![r] = [Idle EXCEPT !.pc = "authenticate", !.client = c, !.since = now]]
    /\ UNCHANGED <<storeVars, config, now, used, history, deviceHistory>>

\* The instant of the second clock reading, from which the grant expires, is kept in minted_at.
Authenticate(r) ==
    /\ req[r].pc = "authenticate"
    /\ IF clients[req[r].client] = None THEN Return(r) /\ UNCHANGED <<used, asked>>
       ELSE \E d \in DeviceCodes \ used :
                /\ req' = [req EXCEPT ![r].pc = "draw_user_code", ![r].cred = d,
                                       ![r].minted_at = now]
                /\ used' = used \cup {d}
                /\ asked' = [asked EXCEPT ![d] = now]
    /\ UNCHANGED <<storeVars, config, now, history, decided>>

\* Mutant of NewGrant: the grant is dated when it is written.
grant_dated_at_write(q, user_code) ==
    [client_id |-> q.client, user_code |-> user_code, state |-> Pending, created_at |-> now,
     expires_at |-> q.minted_at + device_code_ttl, interval |-> poll_interval,
     last_poll_at |-> None]

NewGrant(q, user_code) ==
    [client_id |-> q.client, user_code |-> user_code, state |-> Pending, created_at |-> q.since,
     expires_at |-> q.minted_at + device_code_ttl, interval |-> poll_interval,
     last_poll_at |-> None]

\* unique_user_code: a code in use is drawn again, a bounded number of times.
DrawUserCode(r) ==
    /\ req[r].pc = "draw_user_code"
    /\ \E u \in UserCodes :
           \/ /\ FindByUserCode(u) = None
              /\ req' = [req EXCEPT ![r].pc = "put_grant", ![r].rec = NewGrant(req[r], u)]
           \/ FindByUserCode(u) # None /\ (Return(r) \/ UNCHANGED req)
    /\ UNCHANGED <<storeVars, config, now, used, history, deviceHistory>>

\* The code drawn may have been taken meanwhile; put_device_grant then refuses it.
PutGrant(r) ==
    /\ req[r].pc = "put_grant"
    /\ put_device_grant(req[r].cred, req[r].rec)
    /\ Return(r)
    /\ UNCHANGED <<config, now, used, history, deviceHistory>>

-----------------------------------------------------------------------------
(***************************************************************************)
(* approve_device and deny_device                                           *)
(***************************************************************************)
\* lookup_pending_grant_by_user_code, and the decision the page was called with.
LookUpPending(r, user_code, decision) ==
    LET d == FindByUserCode(user_code)
        Found(pc, grant) == req' = [req EXCEPT ![r] =
            [Idle EXCEPT !.pc = pc, !.cred = d, !.rec = grant, !.since = now]]
    IN
    /\ req[r].pc = "idle" /\ d # None
    /\ IF now >= device_by_code[d].expires_at THEN Found("drop_expired", None)
       ELSE /\ device_by_code[d].state = Pending
            /\ Found("decide", [device_by_code[d] EXCEPT !.state = decision])
    /\ UNCHANGED <<storeVars, config, now, used, history, deviceHistory>>

\* An expired grant is removed on sight; the answer is the same if that fails.
DropExpired(r) ==
    /\ req[r].pc = "drop_expired"
    /\ take_device_grant(req[r].cred) \/ CallFails
    /\ Return(r)
    /\ UNCHANGED <<config, now, used, history, deviceHistory>>

\* The first decision wins.  The write carries the whole grant as it was looked up.
Decide(r) ==
    LET q == req[r] IN
    /\ q.pc = "decide"
    /\ compare_and_swap_device_grant(q.cred, Pending, q.rec)
    /\ decided' = IF DeviceGrantSwaps(q.cred, Pending)
                  THEN [decided EXCEPT ![q.cred] = q.rec.state] ELSE decided
    /\ Return(r)
    /\ UNCHANGED <<config, now, used, history, asked>>

-----------------------------------------------------------------------------
(***************************************************************************)
(* device_token: a poll                                                     *)
(***************************************************************************)
StartPoll(r, c, d) ==
    /\ req[r].pc = "idle" /\ clients[c] # None /\ d \in used
    /\ req' = [req EXCEPT ![r] = [Idle EXCEPT !.pc = "read_grant", !.client = c,
                                              !.cred = d, !.since = now]]
    /\ UNCHANGED <<storeVars, config, now, used, history, deviceHistory>>

TooFast(grant) == grant.last_poll_at # None /\ now < grant.last_poll_at + grant.interval

ReadGrant(r) ==
    LET grant == device_by_code[req[r].cred]
        Held(pc, rec) == req' = [req EXCEPT ![r].pc = pc, ![r].rec = rec]
        polled == [grant EXCEPT !.last_poll_at = now]
    IN
    /\ req[r].pc = "read_grant"
    /\ IF grant = None THEN Return(r)
       ELSE IF grant.client_id # req[r].client THEN Return(r)
       ELSE IF now >= grant.expires_at THEN Held("drop_expired", grant)
       ELSE IF TooFast(grant)
            THEN Held("write_poll",
                      [polled EXCEPT !.interval = Earlier(@ + slow_down_increment, MaxDuration)])
       ELSE \/ grant.state = Pending /\ Held("write_poll", polled)
            \/ grant.state = Denied /\ Held("deliver_denial", grant)
            \/ grant.state.status = "Approved" /\ Held("take_grant", grant)
    /\ UNCHANGED <<storeVars, config, now, used, history, deviceHistory>>

\* The answers slow_down and authorization_pending: the pacing is written only over the state
\* the poll has read.
WritePoll(r) ==
    LET q == req[r] IN
    /\ q.pc = "write_poll"
    /\ compare_and_swap_device_grant(q.cred, q.rec.state, q.rec)
    /\ Return(r)
    /\ UNCHANGED <<config, now, used, history, deviceHistory>>

DeliverDenial(r) ==
    /\ req[r].pc = "deliver_denial"
    /\ take_device_grant(req[r].cred) \/ CallFails
    /\ Return(r)
    /\ UNCHANGED <<config, now, used, history, deviceHistory>>

\* Redemption: the take decides which poll issues.
TakeGrant(r) ==
    LET q == req[r]
        taken == device_by_code[q.cred]
    IN
    /\ q.pc = "take_grant"
    /\ take_device_grant(q.cred)
    /\ IF taken = None THEN Return(r) /\ UNCHANGED used
       ELSE BeginIssue(r, [q EXCEPT !.rec = [taken EXCEPT !.state = q.rec.state]], None)
    /\ UNCHANGED <<config, now, history, deviceHistory>>

-----------------------------------------------------------------------------
DeviceStep(r) ==
    \/ Authenticate(r) \/ DrawUserCode(r) \/ PutGrant(r)
    \/ DropExpired(r) \/ Decide(r)
    \/ ReadGrant(r) \/ WritePoll(r) \/ DeliverDenial(r) \/ TakeGrant(r)

DeviceNext ==
    \/ \E r \in Requests :
        \/ DeviceStep(r)
        \/ \E c \in ClientIds :
            \/ StartDeviceAuthorization(r, c)
            \/ \E d \in DeviceCodes : StartPoll(r, c, d)
        \/ \E u \in UserCodes :
            \/ \E s \in Subjects : LookUpPending(r, u, Approved(s))
            \/ LookUpPending(r, u, Denied)
    \/ Next /\ UNCHANGED deviceHistory

DeviceSpec == DeviceInit /\ [][DeviceNext]_deviceVars

-----------------------------------------------------------------------------
(***************************************************************************)
(* Properties                                                               *)
(***************************************************************************)
\* A device code is answered with tokens at most once, however many polls race the take
\* (device_token, "a concurrent double poll can only mint one token").
DeviceSingleUse == \A g, h \in granted : g.from \in DeviceCodes /\ g.from = h.from => g = h

\* Once the user has been told that a decision was recorded it is the decision of that grant for
\* good: no poll or second page writes an older snapshot over it, tokens come only of an
\* approval, and they are its subject's (approve_device, deny_device, device_token: "the decision
\* must not be losable at all").
DecisionStands ==
    \A d \in DeviceCodes :
        /\ decided[d] # None /\ device_by_code[d] # None => device_by_code[d].state = decided[d]
        /\ \A g \in granted : g.from = d =>
               /\ decided[d] # None /\ decided[d].status = "Approved"
               /\ tokens[g.access] # None => tokens[g.access].subject = decided[d].subject

\* A device code asked for under a registration that has since been deleted yields no token that
\* is honoured, not even after the same client_id is provisioned again and the user approves
\* (device_authorization_with_credential: the grant is dated before the registration is read).
DeletedRegistrationYieldsNothing ==
    \A g \in granted : LET at == deleted_at[g.client] IN
        g.from \in DeviceCodes /\ at # None /\ asked[g.from] <= at =>
            ~LiveAccess(g.access) /\ (g.next # None => ~LiveRefresh(g.next))
=============================================================================

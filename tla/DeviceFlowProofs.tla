-------------------------- MODULE DeviceFlowProofs --------------------------
(***************************************************************************)
(* A device code is answered once, and only as its user decided, for any    *)
(* number of devices, pages and polls at once.                              *)
(*                                                                          *)
(* The right to be answered for a device code is in one place at a time:    *)
(* with the request that drew the code, in the store, or with the one poll  *)
(* that took the grant.  The decision in the store is the one its user was  *)
(* told of, because only a Pending grant is decided, and a poll writes only *)
(* over the state it has read.                                              *)
(***************************************************************************)
EXTENDS DeviceFlow, TokenEndpointProofs

-----------------------------------------------------------------------------
(***************************************************************************)
(* The inductive invariant                                                  *)
(***************************************************************************)
\* The steps at which a request holds the grant it has looked up.
SnapshotSteps == {"decide", "write_poll", "deliver_denial", "take_grant"}

\* What a handler of the device flow holds at each step.
DeviceProper(q) ==
    /\ q.pc \in {"authenticate", "draw_user_code", "put_grant", "read_grant", "take_grant"}
           => q.client \in ClientIds
    /\ q.pc \in DeviceSteps \ {"authenticate"} => q.cred \in DeviceCodes
    /\ q.pc \in SnapshotSteps \cup {"put_grant"} => q.rec \in DeviceGrant(Nat)

DeviceTyped ==
    /\ Typed
    /\ \A r \in Requests : DeviceProper(req[r])
    /\ decided \in [DeviceCodes -> Option(DeviceGrantState)]
    /\ asked \in [DeviceCodes -> Option(Nat)]

\* Request r has drawn the device code d, and is about to store its grant.
Drawing(r, d) == req[r].cred = d /\ req[r].pc \in {"draw_user_code", "put_grant"}

\* Request r has taken the grant of d, and may still be answered for it.
Issuing(r, d) == req[r].cred = d /\ req[r].pc \in IssueSteps

Entitled(r, d) == Drawing(r, d) \/ Issuing(r, d)

Snapshot(r, d) == req[r].cred = d /\ req[r].pc \in SnapshotSteps

Delivered(d) == \E g \in granted : g.from = d

OneEntitled ==
    \A d \in DeviceCodes, r \in Requests : Entitled(r, d) =>
        /\ device_by_code[d] = None /\ ~Delivered(d)
        /\ \A s \in Requests : Entitled(s, d) => s = r

StoredUndelivered == \A d \in DeviceCodes : device_by_code[d] # None => ~Delivered(d)

UnknownUntilDrawn ==
    \A d \in DeviceCodes : d \notin used =>
        /\ device_by_code[d] = None /\ ~Delivered(d) /\ decided[d] = None
        /\ \A r \in Requests : req[r].cred # d

\* The decision that stands in the store is the one its user was told of.
StateFollows ==
    /\ \A d \in DeviceCodes : device_by_code[d] # None =>
           device_by_code[d].state = IF decided[d] = None THEN Pending ELSE decided[d]
    /\ \A d \in DeviceCodes : decided[d] # Pending
    /\ \A d \in DeviceCodes, r \in Requests : Drawing(r, d) => decided[d] = None
    /\ \A r \in Requests : /\ req[r].pc = "put_grant" => req[r].rec.state = Pending
                           /\ req[r].pc = "decide" => req[r].rec.state # Pending

\* Polls issue on an approval.
Approves(r, d) ==
    /\ req[r].rec.state = decided[d] /\ decided[d] # None
    /\ decided[d].status = "Approved"

IssuedAsDecided ==
    /\ \A d \in DeviceCodes, r \in Requests :
           Issuing(r, d) \/ (req[r].cred = d /\ req[r].pc = "take_grant") => Approves(r, d)
    /\ \A g \in granted : g.from \in DeviceCodes =>
           decided[g.from] # None /\ decided[g.from].status = "Approved"

\* A grant keeps its user code, which leads to it.
CodesLead ==
    /\ \A d \in DeviceCodes : device_by_code[d] # None =>
           user_code_index[device_by_code[d].user_code] = d
    /\ \A d \in DeviceCodes, r \in Requests : Snapshot(r, d) =>
           /\ device_by_code[d] # None => req[r].rec.user_code = device_by_code[d].user_code
           /\ \A s \in Requests : ~Drawing(s, d)

DeliveredOnce ==
    /\ OneEntitled /\ StoredUndelivered /\ UnknownUntilDrawn /\ StateFollows /\ IssuedAsDecided
    /\ CodesLead /\ DeviceSingleUse

\* Request r has drawn the access token a, and may still write or hand it out.
BearSteps == {"put_access", "put_refresh", "rotate"}
Bears(r, a) == req[r].access = a /\ req[r].pc \in BearSteps

DeviceAccess == {g.access : g \in {h \in granted : h.from \in DeviceCodes}}

\* The access token of a device answer is nobody else's, and is its approver's.
AccessOwned ==
    /\ DeviceAccess \subseteq used
    /\ \A r \in Requests, a \in AccessTokens : Bears(r, a) =>
           a \in used /\ a \notin DeviceAccess /\ \A s \in Requests : Bears(s, a) => s = r
    /\ \A r \in Requests :
           /\ req[r].pc = "put_refresh" /\ req[r].cred \in DeviceCodes
           /\ tokens[req[r].access] # None
           => tokens[req[r].access].subject = req[r].rec.state.subject
    /\ \A g \in granted : g.from \in DeviceCodes /\ tokens[g.access] # None =>
           tokens[g.access].subject = decided[g.from].subject

-----------------------------------------------------------------------------
(***************************************************************************)
(* Types                                                                    *)
(***************************************************************************)
\* take_device_grant keeps the store well typed.
LEMMA TakeGrantType == ASSUME TypeOK, NEW d \in DeviceCodes, take_device_grant(d) PROVE TypeOK'
BY DEF TypeOK, take_device_grant, Option, tokenMaps, barriers

\* A handler of the device flow that moves on, with the locals its next step reads.
LEMMA DeviceMoved ==
    ASSUME Handlers, \A s \in Requests : DeviceProper(req[s]), NEW r \in Requests,
           NEW q \in Request, q.pc \in DeviceSteps, q.cred \in Option(DeviceCodes),
           DeviceProper(q), req' = [req EXCEPT ![r] = q]
    PROVE  Handlers' /\ \A s \in Requests : DeviceProper(req'[s])
<1>1. Proper(q)
  BY DEF Proper, TakenSteps, CloseSteps, IssueSteps, RefreshSteps, LookupSteps, DeviceSteps
<1>2. Handlers'
  BY <1>1, Moved
<1>3. \A s \in Requests : req'[s] = IF s = r THEN q ELSE req[s]
  BY DEF Handlers
<1> QED BY <1>2, <1>3

\* A step after which no slot is in the device flow that was not, with the same locals, before.
LEMMA DeviceProperStays ==
    ASSUME \A s \in Requests : DeviceProper(req[s]),
           \A s \in Requests : req'[s] = req[s] \/ req'[s].pc \notin DeviceSteps
    PROVE  \A s \in Requests : DeviceProper(req'[s])
<1> SUFFICES ASSUME NEW s \in Requests PROVE DeviceProper(req'[s])
  OBVIOUS
<1>1. CASE req'[s] = req[s]
  BY <1>1
<1>2. CASE req'[s].pc \notin DeviceSteps
  BY <1>2 DEF DeviceProper, DeviceSteps, SnapshotSteps
<1> QED BY <1>1, <1>2

\* A handler that returns.
LEMMA DeviceReturned ==
    ASSUME Handlers, \A s \in Requests : DeviceProper(req[s]), NEW r \in Requests, Return(r)
    PROVE  Handlers' /\ \A s \in Requests : DeviceProper(req'[s])
<1>1. Handlers'
  BY Returned
<1>2. \A s \in Requests : req'[s] = req[s] \/ req'[s].pc \notin DeviceSteps
  BY ReturnContinues DEF Continues, Idle, DeviceSteps
<1> QED BY <1>1, <1>2, DeviceProperStays

\* The decisions of a grant.
LEMMA StateTypes ==
    /\ Pending \in DeviceGrantState /\ Denied \in DeviceGrantState
    /\ \A s \in Subjects : Approved(s) \in DeviceGrantState
BY DEF Pending, Denied, Approved, DeviceGrantState

\* A new grant is dated with instants, and paced with a duration.
LEMMA NewGrantType ==
    ASSUME NEW q \in Request, q.client \in ClientIds, NEW u \in UserCodes
    PROVE  NewGrant(q, u) \in DeviceGrant(Nat) /\ NewGrant(q, u).state = Pending
<1>1. q.minted_at + device_code_ttl \in Nat /\ poll_interval \in Nat /\ q.since \in Nat
  BY ConfigAssumption, PollAssumption DEF Request
<1> QED BY <1>1, StateTypes DEF NewGrant, DeviceGrant, Option

-----------------------------------------------------------------------------
(***************************************************************************)
(* Where the steps that only read lead                                      *)
(***************************************************************************)
\* A client that is registered gets a device code nobody has drawn.
LEMMA AuthenticateLeads ==
    ASSUME DeviceTyped, NEW r \in Requests, Authenticate(r), ~Return(r)
    PROVE  \E d \in DeviceCodes \ used, q \in Request :
               /\ req' = [req EXCEPT ![r] = q] /\ used' = used \cup {d}
               /\ asked' = [asked EXCEPT ![d] = now]
               /\ q.pc = "draw_user_code" /\ q.cred = d /\ q.client = req[r].client
<1>1. PICK d \in DeviceCodes \ used :
        /\ req' = [req EXCEPT ![r].pc = "draw_user_code", ![r].cred = d, ![r].minted_at = now]
        /\ used' = used \cup {d} /\ asked' = [asked EXCEPT ![d] = now]
  BY DEF Authenticate
<1> DEFINE q == [req[r] EXCEPT !.pc = "draw_user_code", !.cred = d, !.minted_at = now]
<1>2. req[r] \in Request /\ now \in Nat
  BY DEF DeviceTyped, Typed, Handlers, Books
<1>3. q \in Request /\ q.pc = "draw_user_code" /\ q.cred = d /\ q.client = req[r].client
  <2>1. "draw_user_code" \in Steps /\ d \in Option(Credentials)
    BY DEF Steps, Option, Credentials
  <2> QED BY <1>2, <2>1 DEF Request
<1>4. req' = [req EXCEPT ![r] = q]
  BY <1>1
<1> HIDE DEF q
<1> QED BY <1>1, <1>3, <1>4

\* A user code that nobody holds goes into a Pending grant.
LEMMA DrawUserCodeLeads ==
    ASSUME DeviceTyped, NEW r \in Requests, DrawUserCode(r), ~Return(r), ~UNCHANGED req
    PROVE  \E q \in Request :
               /\ req' = [req EXCEPT ![r] = q]
               /\ q.pc = "put_grant" /\ q.cred = req[r].cred /\ q.client = req[r].client
               /\ q.rec \in DeviceGrant(Nat) /\ q.rec.state = Pending
<1>1. PICK u \in UserCodes :
        req' = [req EXCEPT ![r].pc = "put_grant", ![r].rec = NewGrant(req[r], u)]
  BY DEF DrawUserCode
<1>2. req[r] \in Request /\ req[r].client \in ClientIds
  BY DEF DeviceTyped, Typed, Handlers, DeviceProper, DrawUserCode
<1>3. PICK g : g = NewGrant(req[r], u)
  OBVIOUS
<1>4. g \in DeviceGrant(Nat) /\ g.state = Pending
  BY <1>2, <1>3, NewGrantType
<1> DEFINE q == [req[r] EXCEPT !.pc = "put_grant", !.rec = g]
<1>5. q \in Request /\ q.pc = "put_grant" /\ q.cred = req[r].cred /\ q.client = req[r].client
      /\ q.rec = g
  <2> DEFINE before == req[r]
  <2> HIDE DEF before
  <2> QED BY <1>2, <1>4 DEF Request, Option, Steps, before
<1>6. req' = [req EXCEPT ![r] = q]
  BY <1>1, <1>3
<1> HIDE DEF q
<1> QED BY <1>4, <1>5, <1>6

\* A page that finds a grant holds it with the decision it was called with, or drops it.
LEMMA LookUpLeads ==
    ASSUME DeviceTyped, NEW r \in Requests, NEW u \in UserCodes, NEW decision \in DeviceGrantState,
           LookUpPending(r, u, decision)
    PROVE  \E q \in Request, d \in DeviceCodes :
               /\ req' = [req EXCEPT ![r] = q] /\ device_by_code[d] # None /\ q.cred = d
               /\ \/ q.pc = "drop_expired"
                  \/ /\ q.pc = "decide" /\ q.rec \in DeviceGrant(Nat) /\ q.rec.state = decision
                     /\ q.rec.user_code = device_by_code[d].user_code
<1>1. PICK d : d = FindByUserCode(u)
  OBVIOUS
<1>2. d # None
  BY <1>1 DEF LookUpPending
<1>3. d \in DeviceCodes /\ device_by_code[d] \in DeviceGrant(Nat) /\ device_by_code[d] # None
  BY <1>1, <1>2 DEF FindByUserCode, DeviceTyped, Typed, TypeOK, Option
<1>4. now \in Nat
  BY DEF DeviceTyped, Typed, Books
<1>5. \E pc, g : /\ req' = [req EXCEPT ![r] = [Idle EXCEPT !.pc = pc, !.cred = d, !.rec = g,
                                                          !.since = now]]
                 /\ \/ pc = "drop_expired" /\ g = None
                    \/ pc = "decide" /\ g = [device_by_code[d] EXCEPT !.state = decision]
  BY <1>1 DEF LookUpPending
<1>6. PICK pc, g : /\ req' = [req EXCEPT ![r] = [Idle EXCEPT !.pc = pc, !.cred = d, !.rec = g,
                                                             !.since = now]]
                   /\ \/ pc = "drop_expired" /\ g = None
                      \/ pc = "decide" /\ g = [device_by_code[d] EXCEPT !.state = decision]
  BY <1>5
<1>7. \/ pc = "drop_expired" /\ g = None
      \/ /\ pc = "decide" /\ g \in DeviceGrant(Nat) /\ g.state = decision
         /\ g.user_code = device_by_code[d].user_code
  BY <1>3, <1>6 DEF DeviceGrant
<1> DEFINE q == [Idle EXCEPT !.pc = pc, !.cred = d, !.rec = g, !.since = now]
<1>8. q \in Request /\ q.pc = pc /\ q.cred = d /\ q.rec = g
  <2>1. pc \in Steps /\ d \in Credentials
    BY <1>3, <1>7 DEF Steps, Credentials
  <2> QED BY <1>4, <1>7, <2>1 DEF Request, Idle, Option
<1>9. req' = [req EXCEPT ![r] = q]
  BY <1>6
<1> HIDE DEF q
<1> QED BY <1>3, <1>7, <1>8, <1>9

\* A poll that finds its grant holds it, with its pacing brought up to date.
LEMMA ReadGrantLeads ==
    ASSUME DeviceTyped, NEW r \in Requests, ReadGrant(r), ~Return(r)
    PROVE  \E q \in Request, d \in DeviceCodes :
               /\ req' = [req EXCEPT ![r] = q] /\ device_by_code[d] # None
               /\ q.cred = d /\ req[r].cred = d /\ q.client = req[r].client
               /\ q.pc \in {"drop_expired", "write_poll", "deliver_denial", "take_grant"}
               /\ q.rec \in DeviceGrant(Nat)
               /\ q.rec.user_code = device_by_code[d].user_code
               /\ q.rec.state = device_by_code[d].state
               /\ q.pc = "take_grant" => q.rec.state.status = "Approved"
<1>1. PICK d : d = req[r].cred
  OBVIOUS
<1>2. PICK grant : grant = device_by_code[d]
  OBVIOUS
<1>3. req[r] \in Request /\ d \in DeviceCodes /\ now \in Nat
  BY <1>1 DEF DeviceTyped, Typed, Handlers, Books, DeviceProper, DeviceSteps, ReadGrant
<1>4. grant # None
  BY <1>1, <1>2 DEF ReadGrant
<1>5. grant \in DeviceGrant(Nat)
  BY <1>2, <1>3, <1>4 DEF DeviceTyped, Typed, TypeOK, Option
<1> DEFINE polled == [grant EXCEPT !.last_poll_at = now]
           slowed == [polled EXCEPT !.interval = Earlier(@ + slow_down_increment, MaxDuration)]
<1>6. \E pc, g : /\ req' = [req EXCEPT ![r].pc = pc, ![r].rec = g]
                 /\ \/ pc = "drop_expired" /\ g = grant
                    \/ pc = "write_poll" /\ g \in {polled, slowed}
                    \/ pc = "deliver_denial" /\ g = grant
                    \/ pc = "take_grant" /\ g = grant /\ g.state.status = "Approved"
  <2> HIDE DEF polled, slowed
  <2> QED BY <1>1, <1>2 DEF ReadGrant, polled, slowed
<1>7. PICK pc, g : /\ req' = [req EXCEPT ![r].pc = pc, ![r].rec = g]
                   /\ \/ pc = "drop_expired" /\ g = grant
                      \/ pc = "write_poll" /\ g \in {polled, slowed}
                      \/ pc = "deliver_denial" /\ g = grant
                      \/ pc = "take_grant" /\ g = grant /\ g.state.status = "Approved"
  BY <1>6
<1>8. polled \in DeviceGrant(Nat) /\ polled.user_code = grant.user_code
      /\ polled.state = grant.state
  BY <1>3, <1>5 DEF DeviceGrant, Option
<1>9. slowed \in DeviceGrant(Nat) /\ slowed.user_code = grant.user_code
      /\ slowed.state = grant.state
  <2>1. PICK i : i = Earlier(polled.interval + slow_down_increment, MaxDuration)
    OBVIOUS
  <2>2. polled.interval \in Nat
    BY <1>8 DEF DeviceGrant
  <2>3. i \in Nat
    BY <2>1, <2>2, PollAssumption DEF Earlier
  <2>4. slowed = [polled EXCEPT !.interval = i]
    BY <2>1
  <2> HIDE DEF polled, slowed
  <2> QED BY <1>8, <2>3, <2>4 DEF DeviceGrant
<1> HIDE DEF polled, slowed
<1>10. /\ g \in DeviceGrant(Nat) /\ g.user_code = grant.user_code /\ g.state = grant.state
       /\ pc \in {"drop_expired", "write_poll", "deliver_denial", "take_grant"} /\ pc \in Steps
       /\ pc = "take_grant" => g.state.status = "Approved"
  BY <1>5, <1>7, <1>8, <1>9 DEF Steps
<1> DEFINE q == [req[r] EXCEPT !.pc = pc, !.rec = g]
<1>11. q \in Request /\ q.pc = pc /\ q.cred = req[r].cred /\ q.client = req[r].client /\ q.rec = g
  <2> DEFINE before == req[r]
  <2> HIDE DEF before
  <2> QED BY <1>3, <1>10 DEF Request, Option, before
<1>12. req' = [req EXCEPT ![r] = q]
  BY <1>7
<1> HIDE DEF q
<1> QED BY <1>1, <1>2, <1>3, <1>4, <1>10, <1>11, <1>12

\* The poll that takes the grant begins to issue on the decision it has read.
LEMMA TakeGrantLeads ==
    ASSUME DeviceTyped, NEW r \in Requests, TakeGrant(r), ~Return(r)
    PROVE  \E q \in Request, d \in DeviceCodes, a \in AccessTokens \ used :
               /\ req' = [req EXCEPT ![r] = q] /\ device_by_code[d] # None
               /\ q.cred = d /\ req[r].cred = d /\ q.pc = "put_access" /\ q.access = a
               /\ q.rec.state = req[r].rec.state
               /\ used \subseteq used' /\ a \in used'
               /\ Handlers' /\ used' \subseteq Credentials \cup FamilyIds
<1>1. PICK d : d = req[r].cred
  OBVIOUS
<1>2. /\ req[r] \in Request /\ d \in DeviceCodes /\ now \in Nat /\ req[r].client \in ClientIds
      /\ req[r].rec \in DeviceGrant(Nat) /\ Handlers /\ Books
  BY <1>1 DEF DeviceTyped, Typed, Handlers, Books, DeviceProper, DeviceSteps, SnapshotSteps,
     TakeGrant
<1>3. PICK state : state = req[r].rec.state
  OBVIOUS
<1>4. state \in DeviceGrantState
  BY <1>2, <1>3 DEF DeviceGrant
<1>5. device_by_code[d] # None
  BY <1>1 DEF TakeGrant
<1>6. PICK g : g = [device_by_code[d] EXCEPT !.state = state]
  OBVIOUS
<1>7. g \in DeviceGrant(Nat) /\ g.state = state
  <2>1. device_by_code[d] \in DeviceGrant(Nat)
    BY <1>2, <1>5 DEF DeviceTyped, Typed, TypeOK, Option
  <2> QED BY <1>4, <1>6, <2>1 DEF DeviceGrant
<1> DEFINE q0 == [req[r] EXCEPT !.rec = g]
<1>8. BeginIssue(r, q0, None)
  BY <1>1, <1>3, <1>5, <1>6 DEF TakeGrant
<1>9. q0 \in Request /\ q0.cred = d /\ q0.client = req[r].client /\ q0.rec = g
  <2> DEFINE before == req[r]
  <2> HIDE DEF before
  <2> QED BY <1>1, <1>2, <1>7 DEF Request, Option, before
<1> HIDE DEF q0
<1>10. Handlers' /\ used' \subseteq Credentials \cup FamilyIds
  <2>1. HoldsGrant(q0)
    BY <1>2, <1>7, <1>9 DEF HoldsGrant
  <2>2. None \in Option(FamilyIds)
    BY DEF Option
  <2> QED BY <1>2, <1>8, <1>9, <2>1, <2>2, BeginIssueTyped
<1>11. PICK a \in AccessTokens \ used, n \in Fresh(RefreshTokens, MintsRefresh(None)),
            f \in Fresh(FamilyIds, MintsRefresh(None)) :
          /\ req' = [req EXCEPT ![r] = [q0 EXCEPT !.pc = "put_access", !.access = a, !.next = n,
                                                  !.family = f, !.minted_at = now]]
          /\ used' = used \cup ({a, n, f} \ {None})
  BY <1>8 DEF BeginIssue
<1> DEFINE q == [q0 EXCEPT !.pc = "put_access", !.access = a, !.next = n, !.family = f,
                           !.minted_at = now]
<1>12. q.cred = d /\ q.pc = "put_access" /\ q.access = a /\ q.rec = g
  BY <1>9 DEF Request
<1>13. req'[r] = q
  BY <1>2, <1>11 DEF Handlers
<1>14. q \in Request
  BY <1>10, <1>13 DEF Handlers
<1>15. a \in used' /\ used \subseteq used'
  BY <1>11, AbsentAssumption
<1>16. req' = [req EXCEPT ![r] = q]
  BY <1>11
<1> HIDE DEF q
<1> QED BY <1>1, <1>2, <1>3, <1>5, <1>7, <1>10, <1>12, <1>14, <1>15, <1>16

-----------------------------------------------------------------------------
\* The steps that only read, and those that start a handler.
LEMMA LeadsTyped ==
    ASSUME DeviceTyped, NEW r \in Requests,
           \/ Authenticate(r) \/ DrawUserCode(r) \/ ReadGrant(r)
           \/ \E c \in ClientIds :
                \/ StartDeviceAuthorization(r, c)
                \/ \E d \in DeviceCodes : StartPoll(r, c, d)
           \/ \E u \in UserCodes, decision \in DeviceGrantState : LookUpPending(r, u, decision)
    PROVE  DeviceTyped'
<1> DEFINE Served == Handlers' /\ \A s \in Requests : DeviceProper(req'[s])
<1>1. /\ TypeOK /\ Handlers /\ Books /\ now \in Nat
      /\ \A s \in Requests : DeviceProper(req[s])
      /\ decided \in [DeviceCodes -> Option(DeviceGrantState)]
      /\ asked \in [DeviceCodes -> Option(Nat)]
  BY DEF DeviceTyped, Typed, Books
<1>2. Return(r) => Served
  BY <1>1, DeviceReturned
<1>3. ASSUME NEW q \in Request, q.pc \in DeviceSteps, q.cred \in Option(DeviceCodes),
             DeviceProper(q), req' = [req EXCEPT ![r] = q]
      PROVE  Served
  BY <1>1, <1>3, DeviceMoved
<1>4. UNCHANGED req => Served
  BY <1>1, HandlersUnchanged
<1> HIDE DEF Served
<1>5. TypeOK' /\ decided' = decided
  BY <1>1, StoreUnchanged DEF Authenticate, DrawUserCode, ReadGrant, StartDeviceAuthorization,
     StartPoll, LookUpPending, deviceHistory
<1>6. CASE Authenticate(r)
  <2>1. UNCHANGED <<config, now, history>>
    BY <1>6 DEF Authenticate
  <2>2. CASE Return(r)
    <3>1. UNCHANGED <<used, asked>>
      <4>1. req'[r] = Idle
        BY <1>1, <2>2, ReturnContinues
      <4>2. CASE clients[req[r].client] = None
        BY <1>6, <4>2 DEF Authenticate
      <4>3. CASE clients[req[r].client] # None
        <5>1. PICK d \in DeviceCodes \ used : req' = [req EXCEPT ![r].pc = "draw_user_code",
                       ![r].cred = d, ![r].minted_at = now]
          BY <1>6, <4>3 DEF Authenticate
        <5>2. req'[r].pc = "draw_user_code"
          BY <1>1, <5>1 DEF Handlers, Request
        <5> QED BY <4>1, <5>2 DEF Idle
      <4> QED BY <4>2, <4>3
    <3> QED BY <1>1, <1>2, <1>5, <2>1, <2>2, <3>1, BooksUnchanged DEF DeviceTyped, Typed, Served
  <2>3. CASE ~Return(r)
    <3>1. PICK d \in DeviceCodes \ used, q \in Request :
               /\ req' = [req EXCEPT ![r] = q] /\ used' = used \cup {d}
               /\ asked' = [asked EXCEPT ![d] = now]
               /\ q.pc = "draw_user_code" /\ q.cred = d /\ q.client = req[r].client
      BY <1>6, <2>3, AuthenticateLeads
    <3>2. req[r].client \in ClientIds
      BY <1>1, <1>6 DEF DeviceProper, Authenticate
    <3>3. Served
      BY <1>3, <3>1, <3>2 DEF DeviceProper, DeviceSteps, SnapshotSteps, Option
    <3>4. used' \subseteq Credentials \cup FamilyIds
      BY <1>1, <3>1 DEF Books, Credentials
    <3>5. asked' \in [DeviceCodes -> Option(Nat)]
      BY <1>1, <3>1 DEF Option
    <3> QED BY <1>1, <1>5, <2>1, <3>3, <3>4, <3>5, BooksDrawn DEF DeviceTyped, Typed, Served
  <2> QED BY <2>2, <2>3
<1>7. ASSUME Served, UNCHANGED <<config, now, used, history, asked>> PROVE DeviceTyped'
  BY <1>1, <1>5, <1>7, BooksUnchanged DEF DeviceTyped, Typed, Served
<1>8. CASE DrawUserCode(r)
  <2>1. CASE Return(r) \/ UNCHANGED req
    BY <1>2, <1>4, <1>7, <1>8, <2>1 DEF DrawUserCode, deviceHistory
  <2>2. CASE ~(Return(r) \/ UNCHANGED req)
    <3>1. PICK q \in Request :
               /\ req' = [req EXCEPT ![r] = q]
               /\ q.pc = "put_grant" /\ q.cred = req[r].cred /\ q.client = req[r].client
               /\ q.rec \in DeviceGrant(Nat) /\ q.rec.state = Pending
      BY <1>8, <2>2, DrawUserCodeLeads
    <3>2. req[r].client \in ClientIds /\ req[r].cred \in DeviceCodes
      BY <1>1, <1>8 DEF DeviceProper, DeviceSteps, DrawUserCode
    <3>3. Served
      BY <1>3, <3>1, <3>2 DEF DeviceProper, DeviceSteps, SnapshotSteps, Option
    <3> QED BY <1>7, <1>8, <3>3 DEF DrawUserCode, deviceHistory
  <2> QED BY <2>1, <2>2
<1>9. CASE ReadGrant(r)
  <2>1. CASE Return(r)
    BY <1>2, <1>7, <1>9, <2>1 DEF ReadGrant, deviceHistory
  <2>2. CASE ~Return(r)
    <3>1. PICK q \in Request, d \in DeviceCodes :
               /\ req' = [req EXCEPT ![r] = q] /\ q.cred = d /\ q.client = req[r].client
               /\ q.pc \in {"drop_expired", "write_poll", "deliver_denial", "take_grant"}
               /\ q.rec \in DeviceGrant(Nat)
      BY <1>9, <2>2, ReadGrantLeads
    <3>2. req[r].client \in ClientIds
      BY <1>1, <1>9 DEF DeviceProper, ReadGrant
    <3>3. Served
      BY <1>3, <3>1, <3>2 DEF DeviceProper, DeviceSteps, SnapshotSteps, Option
    <3> QED BY <1>7, <1>9, <3>3 DEF ReadGrant, deviceHistory
  <2> QED BY <2>1, <2>2
<1>10. ASSUME NEW u \in UserCodes, NEW decision \in DeviceGrantState, LookUpPending(r, u, decision)
       PROVE  DeviceTyped'
  <2>1. PICK q \in Request, d \in DeviceCodes :
               /\ req' = [req EXCEPT ![r] = q] /\ q.cred = d
               /\ q.pc = "drop_expired" \/ (q.pc = "decide" /\ q.rec \in DeviceGrant(Nat))
    BY <1>10, LookUpLeads
  <2>2. Served
    BY <1>3, <2>1 DEF DeviceProper, DeviceSteps, SnapshotSteps, Option
  <2> QED BY <1>7, <1>10, <2>2 DEF LookUpPending, deviceHistory
<1>11. ASSUME NEW c \in ClientIds, NEW d \in DeviceCodes, StartPoll(r, c, d) PROVE Served
  <2> DEFINE q == [Idle EXCEPT !.pc = "read_grant", !.client = c, !.cred = d, !.since = now]
  <2>1. q \in Request /\ q.pc = "read_grant" /\ q.client = c /\ q.cred = d
    BY <1>1 DEF Request, Idle, Option, Steps, Credentials
  <2>2. req' = [req EXCEPT ![r] = q]
    BY <1>11 DEF StartPoll
  <2> HIDE DEF q
  <2> QED BY <1>3, <2>1, <2>2 DEF DeviceProper, DeviceSteps, SnapshotSteps, Option
<1>12. ASSUME NEW c \in ClientIds, StartDeviceAuthorization(r, c) PROVE Served
  <2> DEFINE q == [Idle EXCEPT !.pc = "authenticate", !.client = c, !.since = now]
  <2>1. q \in Request /\ q.pc = "authenticate" /\ q.client = c /\ q.cred = None
    BY <1>1 DEF Request, Idle, Option, Steps
  <2>2. req' = [req EXCEPT ![r] = q]
    BY <1>12 DEF StartDeviceAuthorization
  <2> HIDE DEF q
  <2> QED BY <1>3, <2>1, <2>2 DEF DeviceProper, DeviceSteps, SnapshotSteps, Option
<1> QED BY <1>6, <1>7, <1>8, <1>9, <1>10, <1>11, <1>12 DEF StartDeviceAuthorization, StartPoll,
        deviceHistory

\* The steps that write the grant.
LEMMA WritesTyped ==
    ASSUME DeviceTyped, NEW r \in Requests,
           \/ PutGrant(r) \/ DropExpired(r) \/ Decide(r) \/ WritePoll(r) \/ DeliverDenial(r)
           \/ TakeGrant(r)
    PROVE  DeviceTyped'
<1>1. /\ TypeOK /\ Handlers /\ Books
      /\ \A s \in Requests : DeviceProper(req[s])
      /\ decided \in [DeviceCodes -> Option(DeviceGrantState)]
      /\ asked \in [DeviceCodes -> Option(Nat)]
  BY DEF DeviceTyped, Typed
<1>2. PICK d : d = req[r].cred
  OBVIOUS
<1>3. PICK g : g = req[r].rec
  OBVIOUS
<1>4. d \in DeviceCodes
  BY <1>1, <1>2 DEF DeviceProper, DeviceSteps, PutGrant, DropExpired, Decide, WritePoll,
     DeliverDenial, TakeGrant
<1>5. asked' = asked /\ UNCHANGED <<config, now, history>>
  BY DEF PutGrant, DropExpired, Decide, WritePoll, DeliverDenial, TakeGrant, deviceHistory
<1>6. Return(r) => Handlers' /\ \A s \in Requests : DeviceProper(req'[s])
  BY <1>1, DeviceReturned
<1>7. CASE PutGrant(r)
  <2>1. g \in DeviceGrant(Nat)
    BY <1>1, <1>3, <1>7 DEF DeviceProper, PutGrant
  <2>2. TypeOK'
    BY <1>1, <1>2, <1>3, <1>4, <1>7, <2>1, DeviceType DEF PutGrant
  <2> QED BY <1>1, <1>5, <1>6, <1>7, <2>2, BooksUnchanged DEF PutGrant, DeviceTyped, Typed,
          deviceHistory
<1>8. CASE DropExpired(r) \/ DeliverDenial(r)
  <2>1. TypeOK'
    BY <1>1, <1>2, <1>4, <1>8, TakeGrantType, StoreUnchanged DEF DropExpired, DeliverDenial,
       CallFails
  <2> QED BY <1>1, <1>5, <1>6, <1>8, <2>1, BooksUnchanged DEF DropExpired, DeliverDenial,
          DeviceTyped, Typed, deviceHistory
<1>9. CASE Decide(r)
  <2>1. g \in DeviceGrant(Nat)
    BY <1>1, <1>3, <1>9 DEF DeviceProper, SnapshotSteps, Decide
  <2>2. TypeOK'
    BY <1>1, <1>2, <1>3, <1>4, <1>9, <2>1, DeviceType DEF Decide
  <2>3. g.state \in DeviceGrantState
    BY <2>1 DEF DeviceGrant
  <2>4. decided' = decided \/ decided' = [decided EXCEPT ![d] = g.state]
    BY <1>2, <1>3, <1>9 DEF Decide
  <2>5. decided' \in [DeviceCodes -> Option(DeviceGrantState)]
    BY <1>1, <1>4, <2>3, <2>4 DEF Option
  <2> QED BY <1>1, <1>5, <1>6, <1>9, <2>2, <2>5, BooksUnchanged DEF Decide, DeviceTyped, Typed
<1>10. CASE WritePoll(r)
  <2>1. g \in DeviceGrant(Nat)
    BY <1>1, <1>3, <1>10 DEF DeviceProper, SnapshotSteps, WritePoll
  <2>2. TypeOK'
    BY <1>1, <1>2, <1>3, <1>4, <1>10, <2>1, DeviceType DEF WritePoll
  <2> QED BY <1>1, <1>5, <1>6, <1>10, <2>2, BooksUnchanged DEF WritePoll, DeviceTyped, Typed,
          deviceHistory
<1>11. CASE TakeGrant(r)
  <2>1. TypeOK'
    BY <1>1, <1>2, <1>4, <1>11, TakeGrantType DEF TakeGrant
  <2>2. decided' = decided
    BY <1>11 DEF TakeGrant, deviceHistory
  <2>3. ASSUME Return(r) PROVE UNCHANGED used
    <3>1. req'[r].pc # "put_access"
      BY <1>1, <2>3, ReturnContinues DEF Idle
    <3>2. CASE device_by_code[d] = None
      BY <1>2, <1>11, <3>2 DEF TakeGrant
    <3>3. CASE device_by_code[d] # None
      <4> DEFINE q0 == [req[r] EXCEPT !.rec = [device_by_code[d] EXCEPT !.state = req[r].rec.state]]
      <4>1. BeginIssue(r, q0, None)
        BY <1>2, <1>11, <3>3 DEF TakeGrant
      <4>2. UNCHANGED used \/ \E a, n, f :
              req' = [req EXCEPT ![r] = [q0 EXCEPT !.pc = "put_access", !.access = a,
                                                   !.next = n, !.family = f, !.minted_at = now]]
        <5> HIDE DEF q0
        <5> QED BY <4>1 DEF BeginIssue
      <4>3. ASSUME NEW a, NEW n, NEW f,
                   req' = [req EXCEPT ![r] = [q0 EXCEPT !.pc = "put_access", !.access = a,
                                                   !.next = n, !.family = f, !.minted_at = now]]
            PROVE  req'[r].pc = "put_access"
        <5>1. "pc" \in DOMAIN q0
          BY <1>1 DEF Handlers, Request
        <5> HIDE DEF q0
        <5> QED BY <1>1, <4>3, <5>1 DEF Handlers
      <4> QED BY <3>1, <4>2, <4>3
    <3> QED BY <3>2, <3>3
  <2>4. CASE Return(r)
    BY <1>1, <1>5, <1>6, <2>1, <2>2, <2>3, <2>4, BooksUnchanged DEF DeviceTyped, Typed
  <2>5. CASE ~Return(r)
    <3>1. PICK q \in Request : /\ req' = [req EXCEPT ![r] = q] /\ q.pc = "put_access"
                               /\ Handlers' /\ used' \subseteq Credentials \cup FamilyIds
      BY <1>11, <2>5, TakeGrantLeads
    <3>2. \A s \in Requests : req'[s] = req[s] \/ req'[s].pc \notin DeviceSteps
      BY <1>1, <3>1 DEF Handlers, DeviceSteps
    <3>3. \A s \in Requests : DeviceProper(req'[s])
      BY <1>1, <3>2, DeviceProperStays
    <3> QED BY <1>1, <1>5, <2>1, <2>2, <3>1, <3>3, BooksDrawn DEF DeviceTyped, Typed
  <2> QED BY <2>4, <2>5
<1> QED BY <1>7, <1>8, <1>9, <1>10, <1>11

\* The other handlers never move into the device flow.
LEMMA OutsideDeviceFlow ==
    ASSUME Typed, [Next]_vars
    PROVE  \A s \in Requests : req'[s] = req[s] \/ req'[s].pc \notin DeviceSteps
<1>1. Handlers
  BY DEF Typed
<1>2. ASSUME NEW r \in Requests, RequestStep(r)
      PROVE  \A s \in Requests : req'[s] = req[s] \/ req'[s].pc \notin DeviceSteps
  <2>1. Continues(r)
    BY <1>2, StepContinues
  <2>2. req'[r].pc \notin DeviceSteps
    BY <1>2, StepEnds DEF DeviceSteps, TakenSteps
  <2> QED BY <2>1, <2>2 DEF Continues
<1>3. ASSUME NEW r \in Requests, Abandon(r)
      PROVE  \A s \in Requests : req'[s] = req[s] \/ req'[s].pc \notin DeviceSteps
  BY <1>1, <1>3, ReturnContinues DEF Abandon, Continues, Idle, DeviceSteps
<1>4. ASSUME NEW r \in Requests, NEW c, NEW x,
             StartRedeem(r, c, x) \/ StartRefresh(r, c, x) \/ StartRevoke(r, c, x)
      PROVE  \A s \in Requests : req'[s] = req[s] \/ req'[s].pc \notin DeviceSteps
  <2>1. \E pc \in {"take_code", "read_refresh", "revoke_lookup", "revoke_access"} :
          req' = [req EXCEPT ![r] = [Idle EXCEPT !.pc = pc, !.client = c, !.cred = x,
                                                 !.since = now]]
    BY <1>4 DEF StartRedeem, StartRefresh, StartRevoke
  <2> QED BY <1>1, <2>1 DEF Handlers, Idle, DeviceSteps
<1>5. CASE UNCHANGED vars
  BY <1>5 DEF vars
<1>6. CASE UNCHANGED req
  BY <1>6
<1> QED BY <1>2, <1>3, <1>4, <1>5, <1>6 DEF Next, IssueCode, RecordConsent, WithdrawConsent,
        DeleteClient, ProvisionClient, Sweep, Tick

\* Every step of the endpoint and of the device flow keeps the state well typed.
LEMMA DeviceTypedStep == DeviceTyped /\ [DeviceNext]_deviceVars => DeviceTyped'
<1> SUFFICES ASSUME DeviceTyped, [DeviceNext]_deviceVars PROVE DeviceTyped'
  OBVIOUS
<1>1. ASSUME [Next]_vars, UNCHANGED deviceHistory PROVE DeviceTyped'
  BY <1>1, TypedStep, OutsideDeviceFlow, DeviceProperStays DEF DeviceTyped, deviceHistory
<1>2. ASSUME NEW r \in Requests, DeviceStep(r) PROVE DeviceTyped'
  BY <1>2, LeadsTyped, WritesTyped DEF DeviceStep
<1>3. ASSUME NEW r \in Requests, NEW c \in ClientIds,
             StartDeviceAuthorization(r, c) \/ \E d \in DeviceCodes : StartPoll(r, c, d)
      PROVE  DeviceTyped'
  BY <1>3, LeadsTyped
<1>4. ASSUME NEW r \in Requests, NEW u \in UserCodes,
             (\E s \in Subjects : LookUpPending(r, u, Approved(s))) \/ LookUpPending(r, u, Denied)
      PROVE  DeviceTyped'
  BY <1>4, StateTypes, LeadsTyped
<1>5. CASE UNCHANGED deviceVars
  BY <1>1, <1>5 DEF deviceVars
<1> QED BY <1>1, <1>2, <1>3, <1>4, <1>5 DEF DeviceNext

\* A server that has just started.
LEMMA DeviceTypedInit == DeviceInit => DeviceTyped
<1> SUFFICES ASSUME DeviceInit PROVE DeviceTyped
  OBVIOUS
<1>1. Typed
  BY TypedInit DEF DeviceInit
<1>2. \A r \in Requests : DeviceProper(req[r])
  BY DEF DeviceInit, Init, Idle, DeviceProper, DeviceSteps, SnapshotSteps
<1> QED BY <1>1, <1>2, EmptyFacts DEF DeviceInit, DeviceTyped

-----------------------------------------------------------------------------
(***************************************************************************)
(* What a step of a handler may do to the grants                            *)
(***************************************************************************)
\* The grant of d goes, stays in its state, is decided, or is stored by the request that drew it.
GrantStays(d) ==
    /\ device_by_code[d] # None /\ device_by_code'[d] # None
    /\ device_by_code'[d].user_code = device_by_code[d].user_code
    /\ \/ device_by_code'[d].state = device_by_code[d].state /\ decided'[d] = decided[d]
       \/ /\ device_by_code[d].state = Pending
          /\ decided'[d] = device_by_code'[d].state /\ decided'[d] \notin {None, Pending}

GrantMoves(r, d) ==
    \/ device_by_code'[d] = None /\ decided'[d] = decided[d]
    \/ GrantStays(d)
    \/ /\ Drawing(r, d) /\ req'[r] = Idle
       /\ device_by_code'[d] # None /\ device_by_code'[d].state = Pending
       /\ decided'[d] = decided[d]

\* What the handler in slot r holds for d after its step, and where it has it from.
HandlerMoves(r, d) ==
    req'[r].cred = d =>
        /\ d \in used'
        /\ req'[r].pc \in {"draw_user_code", "put_grant"} => Drawing(r, d) \/ d \notin used
        /\ req'[r].pc \in IssueSteps =>
               \/ Issuing(r, d) /\ req'[r].rec = req[r].rec
               \/ /\ req[r].cred = d /\ req[r].pc = "take_grant"
                  /\ req'[r].rec.state = req[r].rec.state
                  /\ device_by_code[d] # None /\ device_by_code'[d] = None
        /\ req'[r].pc \in SnapshotSteps =>
               /\ device_by_code[d] # None /\ decided'[d] = decided[d]
               /\ req'[r].rec.user_code = device_by_code[d].user_code
               /\ req'[r].pc = "take_grant" =>
                      /\ req'[r].rec.state = device_by_code[d].state
                      /\ req'[r].rec.state.status = "Approved"

Serves(r) ==
    /\ \A s \in Requests : s # r => req'[s] = req[s]
    /\ used \subseteq used' /\ granted \subseteq granted'
    /\ \A d \in DeviceCodes : GrantMoves(r, d) /\ HandlerMoves(r, d)
    /\ req'[r].pc = "put_grant" => req'[r].rec.state = Pending
    /\ req'[r].pc = "decide" => req'[r].rec.state # Pending
    /\ \A d \in DeviceCodes : device_by_code'[d] # None =>
           user_code_index'[device_by_code'[d].user_code] = d
    /\ \A g \in granted' \ granted : g.from \in DeviceCodes =>
           /\ Issuing(r, g.from) /\ req'[r] = Idle
           /\ \A h \in granted' \ granted : g = h

\* Such a step keeps the invariant.
LEMMA ServesKeep ==
    ASSUME DeviceTyped, DeliveredOnce, NEW r \in Requests, Serves(r)
    PROVE  DeliveredOnce'
<1>1. OneEntitled /\ StoredUndelivered /\ UnknownUntilDrawn /\ StateFollows /\ IssuedAsDecided
      /\ CodesLead /\ DeviceSingleUse
  BY DEF DeliveredOnce
<1>2. Idle.pc = "idle" /\ Pending.status = "Pending" /\ Idle.cred = None
  BY DEF Idle, Pending
<1>3. \A d \in DeviceCodes : d # None
  BY AbsentAssumption
\* A decision once told is not changed.
<1>4. \A d \in DeviceCodes : decided[d] # None => decided'[d] = decided[d]
  BY <1>1 DEF Serves, GrantMoves, GrantStays, StateFollows
<1>5. \A d \in DeviceCodes : device_by_code[d] = None => decided'[d] = decided[d]
  BY DEF Serves, GrantMoves, GrantStays
\* Nothing is delivered for d but by the handler that issues for it.
<1>6. \A d \in DeviceCodes : Delivered(d)' => Delivered(d) \/ (Issuing(r, d) /\ req'[r] = Idle)
  BY DEF Serves, Delivered
<1>7. ASSUME NEW d \in DeviceCodes, NEW s \in Requests, Entitled(s, d)'
      PROVE  \/ Entitled(s, d) /\ (s = r => req'[r] # Idle)
             \/ s = r /\ d \notin used /\ req'[r].cred = d
             \/ s = r /\ device_by_code[d] # None /\ device_by_code'[d] = None /\ req'[r].cred = d
  BY <1>2, <1>3, <1>7 DEF Entitled, Drawing, Issuing, Serves, HandlerMoves, IssueSteps
<1>8. OneEntitled'
  <2> SUFFICES ASSUME NEW d \in DeviceCodes, NEW s \in Requests, Entitled(s, d)'
               PROVE  /\ device_by_code'[d] = None /\ ~Delivered(d)'
                      /\ \A t \in Requests : Entitled(t, d)' => t = s
    BY DEF OneEntitled
  <2>1. CASE Entitled(s, d) /\ (s = r => req'[r] # Idle)
    <3>1. device_by_code[d] = None /\ ~Delivered(d) /\ \A t \in Requests : Entitled(t, d) => t = s
      BY <1>1, <2>1 DEF OneEntitled
    <3>2. d \in used
      BY <1>1, <2>1 DEF UnknownUntilDrawn, Entitled, Drawing, Issuing
    <3>3. device_by_code'[d] = None
      BY <2>1, <3>1 DEF Serves, GrantMoves, GrantStays, Entitled
    <3>4. ~Delivered(d)'
      BY <1>6, <2>1, <3>1 DEF Entitled
    <3>5. \A t \in Requests : Entitled(t, d)' => t = s
      BY <1>7, <3>1, <3>2
    <3> QED BY <3>3, <3>4, <3>5
  <2>2. CASE s = r /\ d \notin used /\ req'[r].cred = d
    <3>1. device_by_code[d] = None /\ ~Delivered(d) /\ \A t \in Requests : req[t].cred # d
      BY <1>1, <2>2 DEF UnknownUntilDrawn
    <3>2. \A t \in Requests : ~Entitled(t, d)
      BY <3>1 DEF Entitled, Drawing, Issuing
    <3>3. device_by_code'[d] = None
      BY <3>1, <3>2 DEF Serves, GrantMoves, GrantStays, Entitled
    <3>4. ~Delivered(d)'
      BY <1>6, <3>1, <3>2 DEF Entitled
    <3> QED BY <1>7, <2>2, <3>2, <3>3, <3>4
  <2>3. CASE s = r /\ device_by_code[d] # None /\ device_by_code'[d] = None /\ req'[r].cred = d
    <3>1. ~Delivered(d) /\ \A t \in Requests : ~Entitled(t, d)
      BY <1>1, <2>3 DEF StoredUndelivered, OneEntitled
    <3>2. ~Delivered(d)'
      BY <1>6, <3>1 DEF Entitled
    <3> QED BY <1>7, <2>3, <3>1, <3>2
  <2> QED BY <1>7, <2>1, <2>2, <2>3
<1>9. StoredUndelivered'
  <2> SUFFICES ASSUME NEW d \in DeviceCodes, device_by_code'[d] # None PROVE ~Delivered(d)'
    BY DEF StoredUndelivered
  <2>1. CASE device_by_code[d] # None
    <3>1. ~Delivered(d) /\ ~Issuing(r, d)
      BY <1>1, <2>1 DEF StoredUndelivered, OneEntitled, Entitled
    <3> QED BY <1>6, <3>1
  <2>2. CASE Drawing(r, d)
    <3>1. ~Delivered(d) /\ ~Issuing(r, d)
      BY <1>1, <2>2 DEF OneEntitled, Entitled, Drawing, Issuing, IssueSteps
    <3> QED BY <1>6, <3>1
  <2> QED BY <2>1, <2>2 DEF Serves, GrantMoves, GrantStays
<1>10. UnknownUntilDrawn'
  <2> SUFFICES ASSUME NEW d \in DeviceCodes, d \notin used'
               PROVE  /\ device_by_code'[d] = None /\ ~Delivered(d)' /\ decided'[d] = None
                      /\ \A t \in Requests : req'[t].cred # d
    BY DEF UnknownUntilDrawn
  <2>1. d \notin used
    BY DEF Serves
  <2>2. /\ device_by_code[d] = None /\ ~Delivered(d) /\ decided[d] = None
        /\ \A t \in Requests : req[t].cred # d
    BY <1>1, <2>1 DEF UnknownUntilDrawn
  <2>3. ~Drawing(r, d) /\ ~Issuing(r, d)
    BY <2>2 DEF Drawing, Issuing
  <2>4. device_by_code'[d] = None
    BY <2>2, <2>3 DEF Serves, GrantMoves, GrantStays
  <2>5. \A t \in Requests : req'[t].cred # d
    BY <2>2 DEF Serves, HandlerMoves
  <2> QED BY <1>5, <1>6, <2>2, <2>3, <2>4, <2>5
<1>11. StateFollows'
  <2>1. ASSUME NEW d \in DeviceCodes, device_by_code'[d] # None
        PROVE  device_by_code'[d].state = IF decided'[d] = None THEN Pending ELSE decided'[d]
    <3>1. CASE GrantStays(d)
      BY <1>1, <3>1 DEF GrantStays, StateFollows
    <3>2. CASE Drawing(r, d) /\ device_by_code'[d].state = Pending /\ decided'[d] = decided[d]
      BY <1>1, <3>2 DEF StateFollows
    <3> QED BY <2>1, <3>1, <3>2 DEF Serves, GrantMoves
  <2>2. \A d \in DeviceCodes : decided'[d] # Pending
    BY <1>1 DEF Serves, GrantMoves, GrantStays, StateFollows
  <2>3. ASSUME NEW d \in DeviceCodes, NEW s \in Requests, Drawing(s, d)' PROVE decided'[d] = None
    <3>1. Drawing(s, d) \/ (s = r /\ d \notin used)
      BY <2>3 DEF Drawing, Serves, HandlerMoves
    <3>2. device_by_code[d] = None /\ decided[d] = None
      BY <1>1, <3>1 DEF OneEntitled, Entitled, StateFollows, UnknownUntilDrawn
    <3> QED BY <1>5, <3>2
  <2>4. \A s \in Requests : /\ req'[s].pc = "put_grant" => req'[s].rec.state = Pending
                            /\ req'[s].pc = "decide" => req'[s].rec.state # Pending
    BY <1>1 DEF Serves, StateFollows
  <2> QED BY <2>1, <2>2, <2>3, <2>4 DEF StateFollows, Pending
<1>12. IssuedAsDecided'
  <2>1. ASSUME NEW d \in DeviceCodes, NEW s \in Requests,
               Issuing(s, d)' \/ (req'[s].cred = d /\ req'[s].pc = "take_grant")
        PROVE  Approves(s, d)'
    <3>1. ASSUME Approves(s, d), req'[s].rec.state = req[s].rec.state PROVE Approves(s, d)'
      BY <1>4, <3>1 DEF Approves
    <3>2. CASE s # r
      BY <1>1, <2>1, <3>1, <3>2 DEF IssuedAsDecided, Issuing, Serves
    <3>3. CASE s = r /\ Issuing(s, d)'
      <4>1. /\ Issuing(r, d) \/ (req[r].cred = d /\ req[r].pc = "take_grant")
            /\ req'[r].rec.state = req[r].rec.state
        BY <3>3 DEF Issuing, Serves, HandlerMoves
      <4> QED BY <1>1, <3>1, <3>3, <4>1 DEF IssuedAsDecided
    <3>4. CASE s = r /\ req'[s].cred = d /\ req'[s].pc = "take_grant"
      <4>1. /\ device_by_code[d] # None /\ decided'[d] = decided[d]
            /\ req'[r].rec.state = device_by_code[d].state
            /\ req'[r].rec.state.status = "Approved"
        BY <3>4 DEF Serves, HandlerMoves, SnapshotSteps
      <4>2. decided[d] # None /\ decided[d] = device_by_code[d].state
        BY <1>1, <1>2, <4>1 DEF StateFollows
      <4> QED BY <3>4, <4>1, <4>2 DEF Approves
    <3> QED BY <2>1, <3>2, <3>3, <3>4
  <2>2. ASSUME NEW g \in granted', g.from \in DeviceCodes
        PROVE  decided'[g.from] # None /\ decided'[g.from].status = "Approved"
    <3>1. CASE g \in granted
      BY <1>1, <1>4, <2>2, <3>1 DEF IssuedAsDecided
    <3>2. CASE g \notin granted
      <4>1. Approves(r, g.from)
        BY <1>1, <2>2, <3>2 DEF Serves, IssuedAsDecided
      <4> QED BY <1>4, <2>2, <4>1 DEF Approves
    <3> QED BY <3>1, <3>2
  <2> QED BY <2>1, <2>2 DEF IssuedAsDecided
<1>13. CodesLead'
  <2>1. ASSUME NEW d \in DeviceCodes, NEW s \in Requests, Snapshot(s, d)'
        PROVE  /\ device_by_code'[d] # None => req'[s].rec.user_code = device_by_code'[d].user_code
               /\ \A t \in Requests : ~Drawing(t, d)'
    <3>1. CASE s # r
      <4>1. req'[s] = req[s] /\ Snapshot(s, d)
        BY <2>1, <3>1 DEF Snapshot, Serves
      <4>2. /\ device_by_code[d] # None => req[s].rec.user_code = device_by_code[d].user_code
            /\ \A t \in Requests : ~Drawing(t, d)
        BY <1>1, <4>1 DEF CodesLead
      <4>3. d \in used
        BY <1>1, <4>1 DEF UnknownUntilDrawn, Snapshot
      <4>4. \A t \in Requests : ~Drawing(t, d)'
        BY <4>2, <4>3 DEF Drawing, Serves, HandlerMoves
      <4> QED BY <4>1, <4>2, <4>4 DEF Serves, GrantMoves, GrantStays
    <3>2. CASE s = r
      <4>1. device_by_code[d] # None /\ req'[r].rec.user_code = device_by_code[d].user_code
        BY <2>1, <3>2 DEF Snapshot, Serves, HandlerMoves
      <4>2. \A t \in Requests : ~Drawing(t, d)
        BY <1>1, <4>1 DEF OneEntitled, Entitled
      <4>3. d \in used
        BY <1>1, <4>1 DEF UnknownUntilDrawn
      <4>4. \A t \in Requests : ~Drawing(t, d)'
        BY <4>2, <4>3 DEF Drawing, Serves, HandlerMoves
      <4> QED BY <3>2, <4>1, <4>2, <4>4 DEF Serves, GrantMoves, GrantStays
    <3> QED BY <3>1, <3>2
  <2>2. \A d \in DeviceCodes : device_by_code'[d] # None =>
           user_code_index'[device_by_code'[d].user_code] = d
    BY DEF Serves
  <2> QED BY <2>1, <2>2 DEF CodesLead
<1>14. DeviceSingleUse'
  <2> SUFFICES ASSUME NEW g \in granted', NEW h \in granted', g.from \in DeviceCodes,
                      g.from = h.from
               PROVE  g = h
    BY DEF DeviceSingleUse
  <2>1. CASE g \in granted /\ h \in granted
    BY <1>1, <2>1 DEF DeviceSingleUse
  <2>2. CASE g \notin granted /\ h \notin granted
    BY <2>2 DEF Serves
  <2>3. ASSUME NEW x \in granted', NEW y \in granted, x \notin granted, x.from \in DeviceCodes,
               x.from = y.from
        PROVE  FALSE
    <3>1. Issuing(r, x.from)
      BY <2>3 DEF Serves
    <3>2. ~Delivered(x.from)
      BY <1>1, <2>3, <3>1 DEF OneEntitled, Entitled
    <3> QED BY <2>3, <3>2 DEF Delivered
  <2> QED BY <2>1, <2>2, <2>3
<1> QED BY <1>8, <1>9, <1>10, <1>11, <1>12, <1>13, <1>14 DEF DeliveredOnce

-----------------------------------------------------------------------------
(***************************************************************************)
(* The store's calls keep the index                                         *)
(***************************************************************************)
\* Every grant's user code leads to it.
IndexLeads ==
    \A d \in DeviceCodes : device_by_code[d] # None =>
        user_code_index[device_by_code[d].user_code] = d

\* The index and the grants are stored together.
LEMMA InsertLeads ==
    ASSUME TypeOK, IndexLeads, NEW d \in DeviceCodes, NEW g \in DeviceGrant(Nat),
           ~UserCodeTaken(d, g), IndexAndInsert(d, g)
    PROVE  /\ \A e \in DeviceCodes : device_by_code'[e] = IF e = d THEN g ELSE device_by_code[e]
           /\ IndexLeads'
<1> DEFINE previous == device_by_code[d]
           retired == IF previous # None /\ previous.user_code # g.user_code
                      THEN {previous.user_code} ELSE {}
           kept == Without(user_code_index, retired)
<1>1. /\ user_code_index' = [kept EXCEPT ![g.user_code] = d]
      /\ device_by_code' = [device_by_code EXCEPT ![d] = g]
  BY DEF IndexAndInsert
<1>2. /\ device_by_code \in [DeviceCodes -> Option(DeviceGrant(Nat))]
      /\ user_code_index \in [UserCodes -> Option(DeviceCodes)]
  BY DEF TypeOK
<1>3. \A e \in DeviceCodes : device_by_code'[e] = IF e = d THEN g ELSE device_by_code[e]
  BY <1>1, <1>2
<1>4. /\ kept \in [UserCodes -> Option(DeviceCodes)]
      /\ \A u \in UserCodes : kept[u] = IF u \in retired THEN None ELSE user_code_index[u]
  <2> HIDE DEF retired
  <2> QED BY <1>2, WithoutFacts
<1>5. g.user_code \in UserCodes /\ user_code_index[g.user_code] \in {None, d}
  BY DEF DeviceGrant, UserCodeTaken
<1>6. ASSUME NEW e \in DeviceCodes, e # d, device_by_code[e] # None
      PROVE  user_code_index'[device_by_code[e].user_code] = e
  <2>1. PICK u : u = device_by_code[e].user_code
    OBVIOUS
  <2>2. u \in UserCodes /\ user_code_index[u] = e
    <3>1. device_by_code[e] \in DeviceGrant(Nat)
      BY <1>2, <1>6 DEF Option
    <3> QED BY <1>6, <2>1, <3>1 DEF DeviceGrant, IndexLeads
  <2>3. u # g.user_code
    BY <1>5, <1>6, <2>2, AbsentAssumption
  <2>4. u \notin retired
    BY <1>6, <2>2 DEF IndexLeads
  <2> HIDE DEF retired, kept
  <2>5. kept[u] = e
    BY <1>4, <2>2, <2>4
  <2>6. user_code_index'[u] = kept[u]
    BY <1>1, <1>4, <2>2, <2>3
  <2> QED BY <2>1, <2>5, <2>6
<1>7. user_code_index'[g.user_code] = d
  <2> HIDE DEF kept
  <2> QED BY <1>1, <1>4, <1>5
<1> QED BY <1>3, <1>6, <1>7 DEF IndexLeads

\* take_device_grant takes the grant and the entry that leads to it.
LEMMA TakeLeads ==
    ASSUME TypeOK, IndexLeads, NEW d \in DeviceCodes, take_device_grant(d)
    PROVE  /\ \A e \in DeviceCodes : device_by_code'[e] = IF e = d THEN None ELSE device_by_code[e]
           /\ IndexLeads'
<1>1. /\ device_by_code \in [DeviceCodes -> Option(DeviceGrant(Nat))]
      /\ user_code_index \in [UserCodes -> Option(DeviceCodes)]
  BY DEF TypeOK
<1>2. \A e \in DeviceCodes : device_by_code'[e] = IF e = d THEN None ELSE device_by_code[e]
  BY <1>1 DEF take_device_grant
<1>3. ASSUME NEW e \in DeviceCodes, e # d, device_by_code[e] # None
      PROVE  user_code_index'[device_by_code[e].user_code] = e
  <2>1. PICK u : u = device_by_code[e].user_code
    OBVIOUS
  <2>2. u \in UserCodes /\ user_code_index[u] = e
    <3>1. device_by_code[e] \in DeviceGrant(Nat)
      BY <1>1, <1>3 DEF Option
    <3> QED BY <1>3, <2>1, <3>1 DEF DeviceGrant, IndexLeads
  <2>3. device_by_code[d] # None => u # device_by_code[d].user_code
    BY <1>3, <2>2 DEF IndexLeads
  <2>4. user_code_index'[u] = user_code_index[u]
    BY <1>1, <2>2, <2>3 DEF take_device_grant
  <2> QED BY <2>1, <2>2, <2>4
<1> QED BY <1>2, <1>3 DEF IndexLeads

\* Removing grants, and then the entries that lead nowhere.
LEMMA RetainLeads ==
    ASSUME TypeOK, IndexLeads, NEW doomed,
           device_by_code' = Without(device_by_code, doomed),
           user_code_index' = Without(user_code_index, StaleIndex(device_by_code'))
    PROVE  /\ \A d \in DeviceCodes : device_by_code'[d] \in {None, device_by_code[d]}
           /\ IndexLeads'
<1>1. /\ device_by_code \in [DeviceCodes -> Option(DeviceGrant(Nat))]
      /\ user_code_index \in [UserCodes -> Option(DeviceCodes)]
  BY DEF TypeOK
<1>2. \A d \in DeviceCodes : device_by_code'[d] = IF d \in doomed THEN None ELSE device_by_code[d]
  BY <1>1, WithoutFacts
<1>3. PICK stale : stale = StaleIndex(device_by_code')
  OBVIOUS
<1>4. \A u \in UserCodes : user_code_index'[u] = IF u \in stale THEN None ELSE user_code_index[u]
  BY <1>1, <1>3, WithoutFacts
<1>5. ASSUME NEW d \in DeviceCodes, device_by_code'[d] # None
      PROVE  user_code_index'[device_by_code'[d].user_code] = d
  <2>1. device_by_code'[d] = device_by_code[d] /\ device_by_code[d] # None
    BY <1>2, <1>5
  <2>2. PICK u : u = device_by_code[d].user_code
    OBVIOUS
  <2>3. u \in UserCodes /\ user_code_index[u] = d
    <3>1. device_by_code[d] \in DeviceGrant(Nat)
      BY <1>1, <2>1 DEF Option
    <3> QED BY <2>1, <2>2, <3>1 DEF DeviceGrant, IndexLeads
  <2>4. u \notin stale
    BY <1>3, <1>5, <2>3 DEF StaleIndex
  <2> QED BY <1>4, <2>1, <2>2, <2>3, <2>4
<1> QED BY <1>2, <1>5 DEF IndexLeads

-----------------------------------------------------------------------------
(***************************************************************************)
(* Every handler serves its device code                                     *)
(***************************************************************************)
\* A handler that returns holds nothing.
LEMMA ReturnHolds ==
    ASSUME Handlers, NEW r \in Requests, Return(r)
    PROVE  /\ \A s \in Requests : s # r => req'[s] = req[s]
           /\ \A d \in DeviceCodes : HandlerMoves(r, d)
           /\ req'[r] = Idle /\ req'[r].pc = "idle"
<1>1. Continues(r) /\ req'[r] = Idle
  BY ReturnContinues
<1> QED BY <1>1, AbsentAssumption DEF Continues, HandlerMoves, Idle

\* A step that only moves its handler.
LEMMA ReadServes ==
    ASSUME DeliveredOnce, NEW r \in Requests, UNCHANGED <<deviceMaps, decided, granted>>,
           used \subseteq used',
           \A s \in Requests : s # r => req'[s] = req[s],
           \A d \in DeviceCodes : HandlerMoves(r, d),
           req'[r].pc = "put_grant" => req'[r].rec.state = Pending,
           req'[r].pc = "decide" => req'[r].rec.state # Pending
    PROVE  Serves(r)
<1>1. IndexLeads
  BY DEF DeliveredOnce, CodesLead, IndexLeads
<1>2. \A d \in DeviceCodes : GrantMoves(r, d)
  BY DEF GrantMoves, GrantStays, deviceMaps
<1> QED BY <1>1, <1>2 DEF Serves, IndexLeads, deviceMaps

\* A step that writes the grant of one device code, and returns.
LEMMA WriteServes ==
    ASSUME DeviceTyped, NEW r \in Requests, NEW d \in DeviceCodes,
           Return(r), UNCHANGED <<used, granted>>, IndexLeads',
           \A e \in DeviceCodes : e # d => device_by_code'[e] = device_by_code[e]
                                           /\ decided'[e] = decided[e],
           GrantMoves(r, d)
    PROVE  Serves(r)
<1>1. /\ \A s \in Requests : s # r => req'[s] = req[s]
      /\ \A e \in DeviceCodes : HandlerMoves(r, e)
      /\ req'[r] = Idle /\ req'[r].pc = "idle"
  BY ReturnHolds DEF DeviceTyped, Typed
<1>2. \A e \in DeviceCodes : GrantMoves(r, e)
  BY DEF GrantMoves, GrantStays
<1> QED BY <1>1, <1>2 DEF Serves, IndexLeads

\* The steps that only read, and those that start a handler.
LEMMA LeadsServe ==
    ASSUME DeviceTyped, DeliveredOnce, NEW r \in Requests,
           \/ Authenticate(r) \/ DrawUserCode(r) \/ ReadGrant(r)
           \/ \E c \in ClientIds :
                \/ StartDeviceAuthorization(r, c)
                \/ \E d \in DeviceCodes : StartPoll(r, c, d)
           \/ \E u \in UserCodes, decision \in DeviceGrantState :
                  decision # Pending /\ LookUpPending(r, u, decision)
    PROVE  Serves(r) \/ UNCHANGED <<deviceMaps, decided, granted, req, used>>
<1>1. Handlers /\ \A s \in Requests : DeviceProper(req[s])
  BY DEF DeviceTyped, Typed
<1>2. UNCHANGED <<deviceMaps, decided, granted>>
  BY DEF Authenticate, DrawUserCode, ReadGrant, StartDeviceAuthorization, StartPoll, LookUpPending,
     deviceHistory, storeVars, history
<1>3. UNCHANGED used \/ \E d : used' = used \cup {d}
  BY DEF Authenticate, DrawUserCode, ReadGrant, StartDeviceAuthorization, StartPoll, LookUpPending
<1>4. used \subseteq used'
  BY <1>3
<1>5. ASSUME Return(r) PROVE Serves(r)
  BY <1>1, <1>2, <1>4, <1>5, ReturnHolds, ReadServes
<1>6. ASSUME NEW q, req' = [req EXCEPT ![r] = q]
      PROVE  req'[r] = q /\ \A s \in Requests : s # r => req'[s] = req[s]
  BY <1>1, <1>6 DEF Handlers
<1>7. ASSUME NEW q, req' = [req EXCEPT ![r] = q], \A d \in DeviceCodes : HandlerMoves(r, d),
             q.pc = "put_grant" => q.rec.state = Pending, q.pc = "decide" => q.rec.state # Pending
      PROVE  Serves(r)
  BY <1>2, <1>4, <1>6, <1>7, ReadServes
<1>8. \A d \in DeviceCodes, s \in Requests : req[s].cred = d \/ device_by_code[d] # None => d \in used
  BY DEF DeliveredOnce, UnknownUntilDrawn
<1>9. CASE Authenticate(r)
  <2>1. CASE ~Return(r)
    <3>1. PICK d \in DeviceCodes \ used, q \in Request :
               /\ req' = [req EXCEPT ![r] = q] /\ used' = used \cup {d}
               /\ q.pc = "draw_user_code" /\ q.cred = d
      BY <1>9, <2>1, AuthenticateLeads
    <3>2. \A e \in DeviceCodes : HandlerMoves(r, e)
      BY <1>6, <3>1 DEF HandlerMoves, IssueSteps, SnapshotSteps
    <3> QED BY <1>7, <3>1, <3>2
  <2> QED BY <1>5, <2>1
<1>10. CASE DrawUserCode(r)
  <2>1. CASE ~Return(r) /\ ~UNCHANGED req
    <3>1. PICK q \in Request :
               /\ req' = [req EXCEPT ![r] = q]
               /\ q.pc = "put_grant" /\ q.cred = req[r].cred /\ q.rec.state = Pending
      BY <1>10, <2>1, DrawUserCodeLeads
    <3>2. req[r].pc = "draw_user_code"
      BY <1>10 DEF DrawUserCode
    <3>3. \A e \in DeviceCodes : HandlerMoves(r, e)
      BY <1>4, <1>6, <1>8, <3>1, <3>2 DEF HandlerMoves, IssueSteps, SnapshotSteps, Drawing
    <3> QED BY <1>7, <3>1, <3>3
  <2> QED BY <1>2, <1>5, <1>10, <2>1 DEF DrawUserCode
<1>11. CASE ReadGrant(r)
  <2>1. CASE ~Return(r)
    <3>1. PICK q \in Request, d \in DeviceCodes :
               /\ req' = [req EXCEPT ![r] = q] /\ device_by_code[d] # None
               /\ q.cred = d
               /\ q.pc \in {"drop_expired", "write_poll", "deliver_denial", "take_grant"}
               /\ q.rec.user_code = device_by_code[d].user_code
               /\ q.rec.state = device_by_code[d].state
               /\ q.pc = "take_grant" => q.rec.state.status = "Approved"
      BY <1>11, <2>1, ReadGrantLeads
    <3>2. \A e \in DeviceCodes : HandlerMoves(r, e)
      BY <1>2, <1>4, <1>6, <1>8, <3>1 DEF HandlerMoves, IssueSteps
    <3> QED BY <1>7, <3>1, <3>2
  <2> QED BY <1>5, <2>1
<1>12. ASSUME NEW u \in UserCodes, NEW decision \in DeviceGrantState, decision # Pending,
              LookUpPending(r, u, decision)
       PROVE  Serves(r)
  <2>1. PICK q \in Request, d \in DeviceCodes :
               /\ req' = [req EXCEPT ![r] = q] /\ device_by_code[d] # None /\ q.cred = d
               /\ \/ q.pc = "drop_expired"
                  \/ /\ q.pc = "decide" /\ q.rec.state = decision
                     /\ q.rec.user_code = device_by_code[d].user_code
    BY <1>12, LookUpLeads
  <2>2. \A e \in DeviceCodes : HandlerMoves(r, e)
    BY <1>2, <1>4, <1>6, <1>8, <2>1 DEF HandlerMoves, IssueSteps, SnapshotSteps
  <2> QED BY <1>7, <1>12, <2>1, <2>2
<1>13. ASSUME NEW c \in ClientIds, StartDeviceAuthorization(r, c) PROVE Serves(r)
  <2> DEFINE q == [Idle EXCEPT !.pc = "authenticate", !.client = c, !.since = now]
  <2>1. q.pc = "authenticate" /\ q.cred = None /\ req' = [req EXCEPT ![r] = q]
    BY <1>13 DEF Idle, StartDeviceAuthorization
  <2> HIDE DEF q
  <2>2. \A e \in DeviceCodes : HandlerMoves(r, e)
    BY <1>6, <2>1, AbsentAssumption DEF HandlerMoves
  <2> QED BY <1>7, <2>1, <2>2
<1>14. ASSUME NEW c \in ClientIds, NEW d \in DeviceCodes, StartPoll(r, c, d) PROVE Serves(r)
  <2> DEFINE q == [Idle EXCEPT !.pc = "read_grant", !.client = c, !.cred = d, !.since = now]
  <2>1. q.pc = "read_grant" /\ q.cred = d /\ req' = [req EXCEPT ![r] = q] /\ d \in used
    BY <1>14 DEF Idle, StartPoll
  <2> HIDE DEF q
  <2>2. \A e \in DeviceCodes : HandlerMoves(r, e)
    BY <1>4, <1>6, <2>1 DEF HandlerMoves, IssueSteps, SnapshotSteps
  <2> QED BY <1>7, <2>1, <2>2
<1> QED BY <1>9, <1>10, <1>11, <1>12, <1>13, <1>14

\* The steps that write the grant.
LEMMA WritesServe ==
    ASSUME DeviceTyped, DeliveredOnce, NEW r \in Requests,
           \/ PutGrant(r) \/ DropExpired(r) \/ Decide(r) \/ WritePoll(r) \/ DeliverDenial(r)
           \/ TakeGrant(r)
    PROVE  Serves(r)
<1>1. /\ TypeOK /\ Handlers
      /\ \A s \in Requests : DeviceProper(req[s])
      /\ decided \in [DeviceCodes -> Option(DeviceGrantState)]
  BY DEF DeviceTyped, Typed
<1>2. PICK d : d = req[r].cred
  OBVIOUS
<1>3. PICK g : g = req[r].rec
  OBVIOUS
<1>4. d \in DeviceCodes
  BY <1>1, <1>2 DEF DeviceProper, DeviceSteps, PutGrant, DropExpired, Decide, WritePoll,
     DeliverDenial, TakeGrant
<1>5. g \in DeviceGrant(Nat) => g # None /\ g.state \in DeviceGrantState /\ g.state # None
  BY GrantAssumption, DecisionAssumption DEF DeviceGrant
<1>6. IndexLeads /\ StateFollows /\ CodesLead
  BY DEF DeliveredOnce, CodesLead, IndexLeads
<1>7. UNCHANGED granted
  BY DEF PutGrant, DropExpired, Decide, WritePoll, DeliverDenial, TakeGrant, history
<1>8. ASSUME UNCHANGED deviceMaps
      PROVE  IndexLeads' /\ \A e \in DeviceCodes : device_by_code'[e] = device_by_code[e]
  BY <1>6, <1>8 DEF IndexLeads, deviceMaps
<1>9. ASSUME NEW expected, compare_and_swap_device_grant(d, expected, g), g \in DeviceGrant(Nat),
             Snapshot(r, d)
      PROVE  /\ IndexLeads'
             /\ \A e \in DeviceCodes : e # d => device_by_code'[e] = device_by_code[e]
             /\ IF DeviceGrantSwaps(d, expected)
                THEN /\ device_by_code'[d] = g /\ device_by_code[d] # None
                     /\ device_by_code[d].state = expected
                     /\ g.user_code = device_by_code[d].user_code
                ELSE device_by_code'[d] = device_by_code[d]
  <2>1. CASE DeviceGrantSwaps(d, expected)
    <3>1. device_by_code[d] # None /\ device_by_code[d].state = expected
      BY <2>1 DEF DeviceGrantSwaps
    <3>2. g.user_code = device_by_code[d].user_code
      BY <1>3, <1>4, <1>6, <1>9, <3>1 DEF CodesLead
    <3>3. ~UserCodeTaken(d, g)
      BY <1>4, <1>6, <3>1, <3>2 DEF UserCodeTaken, IndexLeads
    <3>4. IndexAndInsert(d, g)
      BY <1>9, <2>1, <3>3 DEF compare_and_swap_device_grant
    <3> QED BY <1>1, <1>4, <1>6, <1>9, <2>1, <3>1, <3>2, <3>3, <3>4, InsertLeads
  <2>2. CASE ~DeviceGrantSwaps(d, expected)
    BY <1>4, <1>8, <1>9, <2>2 DEF compare_and_swap_device_grant
  <2> QED BY <2>1, <2>2
<1>10. CASE PutGrant(r)
  <2>1. g \in DeviceGrant(Nat) /\ g.state = Pending /\ Drawing(r, d)
    BY <1>1, <1>2, <1>3, <1>6, <1>10 DEF DeviceProper, PutGrant, StateFollows, Drawing
  <2>2. Return(r) /\ UNCHANGED <<used, decided>> /\ put_device_grant(d, g)
    BY <1>2, <1>3, <1>10 DEF PutGrant, deviceHistory
  <2>3. req'[r] = Idle
    BY <1>1, <2>2, ReturnHolds
  <2>4. CASE UserCodeTaken(d, g)
    <3>1. IndexLeads' /\ \A e \in DeviceCodes : device_by_code'[e] = device_by_code[e]
      BY <1>8, <2>2, <2>4 DEF put_device_grant
    <3>2. GrantMoves(r, d)
      BY <1>4, <2>2, <3>1 DEF GrantMoves, GrantStays
    <3> QED BY <1>4, <1>7, <2>2, <3>1, <3>2, WriteServes
  <2>5. CASE ~UserCodeTaken(d, g)
    <3>1. /\ \A e \in DeviceCodes : device_by_code'[e] = IF e = d THEN g ELSE device_by_code[e]
          /\ IndexLeads'
      BY <1>1, <1>4, <1>6, <2>1, <2>2, <2>5, InsertLeads DEF put_device_grant
    <3>2. GrantMoves(r, d)
      BY <1>4, <1>5, <2>1, <2>2, <2>3, <3>1 DEF GrantMoves
    <3> QED BY <1>4, <1>7, <2>2, <3>1, <3>2, WriteServes
  <2> QED BY <2>4, <2>5
<1>11. CASE DropExpired(r) \/ DeliverDenial(r)
  <2>1. Return(r) /\ UNCHANGED <<used, decided>> /\ (take_device_grant(d) \/ UNCHANGED deviceMaps)
    BY <1>2, <1>11 DEF DropExpired, DeliverDenial, deviceHistory, CallFails, storeVars
  <2>2. /\ IndexLeads'
        /\ \A e \in DeviceCodes : e # d => device_by_code'[e] = device_by_code[e]
        /\ device_by_code'[d] \in {None, device_by_code[d]}
    BY <1>1, <1>4, <1>6, <1>8, <2>1, TakeLeads
  <2>3. GrantMoves(r, d)
    BY <1>4, <2>1, <2>2 DEF GrantMoves, GrantStays
  <2> QED BY <1>4, <1>7, <2>1, <2>2, <2>3, WriteServes
<1>12. CASE Decide(r)
  <2>1. g \in DeviceGrant(Nat) /\ g.state # Pending /\ Snapshot(r, d)
    BY <1>1, <1>2, <1>3, <1>6, <1>12 DEF DeviceProper, SnapshotSteps, Decide, StateFollows, Snapshot
  <2>2. /\ Return(r) /\ UNCHANGED used /\ compare_and_swap_device_grant(d, Pending, g)
        /\ decided' = IF DeviceGrantSwaps(d, Pending)
                      THEN [decided EXCEPT ![d] = g.state] ELSE decided
    BY <1>2, <1>3, <1>12 DEF Decide
  <2>3. /\ IndexLeads'
        /\ \A e \in DeviceCodes : e # d => device_by_code'[e] = device_by_code[e]
        /\ IF DeviceGrantSwaps(d, Pending)
           THEN /\ device_by_code'[d] = g /\ device_by_code[d] # None
                /\ device_by_code[d].state = Pending
                /\ g.user_code = device_by_code[d].user_code
           ELSE device_by_code'[d] = device_by_code[d]
    BY <1>9, <2>1, <2>2
  <2>4. /\ \A e \in DeviceCodes : e # d => decided'[e] = decided[e]
        /\ decided'[d] = IF DeviceGrantSwaps(d, Pending) THEN g.state ELSE decided[d]
    BY <1>1, <1>4, <2>2
  <2>5. GrantMoves(r, d)
    <3>1. CASE DeviceGrantSwaps(d, Pending)
      BY <1>5, <2>1, <2>3, <2>4, <3>1 DEF GrantMoves, GrantStays
    <3>2. CASE ~DeviceGrantSwaps(d, Pending)
      BY <2>3, <2>4, <3>2 DEF GrantMoves, GrantStays
    <3> QED BY <3>1, <3>2
  <2> QED BY <1>4, <1>7, <2>2, <2>3, <2>4, <2>5, WriteServes
<1>13. CASE WritePoll(r)
  <2>1. g \in DeviceGrant(Nat) /\ Snapshot(r, d)
    BY <1>1, <1>2, <1>3, <1>13 DEF DeviceProper, SnapshotSteps, WritePoll, Snapshot
  <2>2. /\ Return(r) /\ UNCHANGED <<used, decided>>
        /\ compare_and_swap_device_grant(d, g.state, g)
    BY <1>2, <1>3, <1>13 DEF WritePoll, deviceHistory
  <2>3. PICK state : state = g.state
    OBVIOUS
  <2>4. /\ IndexLeads'
        /\ \A e \in DeviceCodes : e # d => device_by_code'[e] = device_by_code[e]
        /\ IF DeviceGrantSwaps(d, state)
           THEN /\ device_by_code'[d] = g /\ device_by_code[d] # None
                /\ device_by_code[d].state = state
                /\ g.user_code = device_by_code[d].user_code
           ELSE device_by_code'[d] = device_by_code[d]
    BY <1>9, <2>1, <2>2, <2>3
  <2>5. GrantMoves(r, d)
    BY <1>5, <2>1, <2>2, <2>3, <2>4 DEF GrantMoves, GrantStays
  <2> QED BY <1>4, <1>7, <2>2, <2>4, <2>5, WriteServes
<1>14. CASE TakeGrant(r)
  <2>1. take_device_grant(d) /\ UNCHANGED decided
    BY <1>2, <1>14 DEF TakeGrant, deviceHistory
  <2>2. /\ \A e \in DeviceCodes : device_by_code'[e] = IF e = d THEN None ELSE device_by_code[e]
        /\ IndexLeads'
    BY <1>1, <1>4, <1>6, <2>1, TakeLeads
  <2>3. \A e \in DeviceCodes : GrantMoves(r, e)
    BY <2>1, <2>2 DEF GrantMoves, GrantStays
  <2>4. CASE ~Return(r)
    <3>1. PICK q \in Request, a \in AccessTokens \ used :
               /\ req' = [req EXCEPT ![r] = q] /\ device_by_code[d] # None
               /\ q.cred = d /\ q.pc = "put_access"
               /\ q.rec.state = req[r].rec.state
               /\ used \subseteq used'
      BY <1>2, <1>14, <2>4, TakeGrantLeads
    <3>2. req'[r] = q /\ \A s \in Requests : s # r => req'[s] = req[s]
      BY <1>1, <3>1 DEF Handlers
    <3>3. req[r].pc = "take_grant" /\ d \in used
      BY <1>2, <1>4, <1>14 DEF TakeGrant, DeliveredOnce, UnknownUntilDrawn
    <3>4. \A e \in DeviceCodes : HandlerMoves(r, e)
      BY <1>2, <1>4, <2>2, <3>1, <3>2, <3>3 DEF HandlerMoves, SnapshotSteps
    <3> QED BY <1>7, <2>2, <2>3, <3>1, <3>2, <3>4 DEF Serves, IndexLeads
  <2>5. CASE Return(r)
    <3>1. used \subseteq used'
      BY <1>14 DEF TakeGrant, BeginIssue
    <3>2. /\ \A s \in Requests : s # r => req'[s] = req[s]
          /\ \A e \in DeviceCodes : HandlerMoves(r, e)
          /\ req'[r] = Idle /\ req'[r].pc = "idle"
      BY <1>1, <2>5, ReturnHolds
    <3> QED BY <1>7, <2>2, <2>3, <3>1, <3>2 DEF Serves, IndexLeads
  <2> QED BY <2>4, <2>5
<1> QED BY <1>10, <1>11, <1>12, <1>13, <1>14

\* No other handler touches the grants.
LEMMA StepLeavesGrants ==
    ASSUME NEW r \in Requests, RequestStep(r)
    PROVE  UNCHANGED deviceMaps
<1> USE DEF storeVars, CallFails, RevokeFamily
<1>1. CASE TakeCode(r) \/ RestoreCode(r) \/ ConsumeCode(r) \/ RecordRedemption(r)
  BY <1>1 DEF TakeCode, RestoreCode, ConsumeCode, RecordRedemption, take_authorization_code,
     put_authorization_code, compare_and_swap_authorization_code
<1>2. CASE UndoAccess(r) \/ UndoRefresh(r) \/ UndoIssuance(r)
  BY <1>2 DEF UndoAccess, UndoRefresh, UndoIssuance, delete_token, take_refresh_token
<1>3. CASE ReplayLookup(r) \/ ReplayRevoke(r) \/ ReplayDelete(r) \/ ReplayRecord(r)
  BY <1>3 DEF ReplayLookup, ReplayRevoke, ReplayDelete, ReplayRecord, revoke_token_family,
     delete_token, put_authorization_code
<1>4. CASE ReadRefresh(r) \/ RestoreRefresh(r) \/ ReuseRevoke(r) \/ ReuseRearm(r) \/ SpendRefresh(r)
  BY <1>4 DEF ReadRefresh, RestoreRefresh, ReuseRevoke, ReuseRearm, SpendRefresh,
     take_refresh_token, put_refresh_token, revoke_token_family
<1>5. CASE PutAccess(r) \/ PutRefresh(r) \/ CommitRotation(r)
  BY <1>5 DEF PutAccess, PutRefresh, CommitRotation, put_token, put_refresh_token,
     rotate_refresh_token
<1>6. CASE Reread(r) \/ RetryAccess(r) \/ RetryNext(r)
  BY <1>6 DEF Reread, RetryAccess, RetryNext
<1>7. CASE RevokeLookup(r) \/ RevokeCascade(r) \/ RevokeTake(r) \/ RevokeAccess(r) \/ RevokeDelete(r)
  BY <1>7 DEF RevokeLookup, RevokeCascade, RevokeTake, RevokeAccess, RevokeDelete,
     revoke_token_family, take_refresh_token, delete_token
<1> QED BY <1>1, <1>2, <1>3, <1>4, <1>5, <1>6, <1>7 DEF RequestStep

\* Of the other handlers, only `issue` works for a device code.
LEMMA OnlyIssueServes ==
    ASSUME Typed, NEW r \in Requests, RequestStep(r), req[r].cred \in DeviceCodes
    PROVE  PutAccess(r) \/ PutRefresh(r) \/ UndoIssuance(r)
<1>1. Proper(req[r])
  BY DEF Typed, Handlers
<1>2. /\ req[r].pc \notin TakenSteps \cup CloseSteps \cup LookupSteps \cup RefreshSteps
      /\ req[r].pc \notin {"take_code", "revoke_access", "revoke_delete"}
  BY <1>1, IdentifierAssumption DEF Proper, HoldsCode, HoldsRefresh
<1>3. ~(TakeCode(r) \/ RestoreCode(r) \/ ConsumeCode(r) \/ RecordRedemption(r)
        \/ UndoAccess(r) \/ UndoRefresh(r) \/ ReplayLookup(r) \/ ReplayRevoke(r)
        \/ ReplayDelete(r) \/ ReplayRecord(r))
  BY <1>2 DEF TakenSteps, CloseSteps, TakeCode, RestoreCode, ConsumeCode, RecordRedemption,
     UndoAccess, UndoRefresh, ReplayLookup, ReplayRevoke, ReplayDelete, ReplayRecord
<1>4. ~(ReadRefresh(r) \/ RestoreRefresh(r) \/ ReuseRevoke(r) \/ ReuseRearm(r) \/ SpendRefresh(r)
        \/ CommitRotation(r) \/ Reread(r) \/ RetryAccess(r) \/ RetryNext(r))
  BY <1>2 DEF RefreshSteps, LookupSteps, ReadRefresh, RestoreRefresh, ReuseRevoke, ReuseRearm,
     SpendRefresh, CommitRotation, Reread, RetryAccess, RetryNext
<1>5. ~(RevokeLookup(r) \/ RevokeCascade(r) \/ RevokeTake(r) \/ RevokeAccess(r) \/ RevokeDelete(r))
  BY <1>2 DEF RefreshSteps, LookupSteps, RevokeLookup, RevokeCascade, RevokeTake, RevokeAccess,
     RevokeDelete
<1> QED BY <1>3, <1>4, <1>5 DEF RequestStep

\* `issue` for a device code goes on, returns, or hands out the one response.
LEMMA IssueForDevice ==
    ASSUME Typed, NEW r \in Requests, RequestStep(r), req[r].cred \in DeviceCodes
    PROVE  /\ req[r].pc \in IssueSteps
           /\ \/ UNCHANGED granted /\ (Return(r) \/ \E pc \in IssueSteps : Goto(r, pc))
              \/ /\ Return(r)
                 /\ granted' = granted \cup {[client |-> req[r].client, from |-> req[r].cred,
                         family |-> req[r].family, access |-> req[r].access,
                         next |-> req[r].next]}
                 /\ PutAccess(r) \/ PutRefresh(r)
<1>1. PutAccess(r) \/ PutRefresh(r) \/ UndoIssuance(r)
  BY OnlyIssueServes
<1>2. req[r].cred \notin AuthCodes /\ req[r].cred \notin RefreshTokens
  BY IdentifierAssumption
<1>3. req[r].pc \in IssueSteps
  BY <1>1 DEF IssueSteps, PutAccess, PutRefresh, UndoIssuance
<1>4. CASE Issued(r) /\ (PutAccess(r) \/ PutRefresh(r))
  <2>1. Grant(r, req[r].family, req[r].access, req[r].next)
    BY <1>2, <1>4 DEF Issued
  <2> QED BY <1>3, <1>4, <2>1 DEF Grant
<1>5. CASE ~Issued(r) /\ (PutAccess(r) \/ PutRefresh(r))
  BY <1>3, <1>5 DEF PutAccess, PutRefresh, IssueSteps
<1>6. CASE UndoIssuance(r)
  BY <1>3, <1>6 DEF UndoIssuance, history
<1> QED BY <1>1, <1>3, <1>4, <1>5, <1>6

\* Every step of the other handlers.
LEMMA RequestServes ==
    ASSUME DeviceTyped, DeliveredOnce, NEW r \in Requests, RequestStep(r), UNCHANGED deviceHistory
    PROVE  Serves(r)
<1>1. Typed /\ Handlers /\ IndexLeads /\ req[r] \in Request
  BY DEF DeviceTyped, Typed, Handlers, DeliveredOnce, CodesLead, IndexLeads
<1>2. Continues(r)
  BY <1>1, StepContinues
<1>3. /\ \A g \in granted' : g \in granted \/ g.from = req[r].cred
      /\ used \subseteq used' /\ granted \subseteq granted'
  BY <1>1, StepFrame
<1>4. UNCHANGED <<deviceMaps, decided>>
  BY StepLeavesGrants DEF deviceHistory
<1>5. req'[r].pc \notin {"put_grant", "decide"}
  BY <1>1, StepEnds DEF DeviceSteps, TakenSteps
<1>6. \A d \in DeviceCodes : GrantMoves(r, d)
  BY <1>4 DEF GrantMoves, GrantStays, deviceMaps
<1>7. IndexLeads'
  BY <1>1, <1>4 DEF IndexLeads, deviceMaps
<1>8. ASSUME \A d \in DeviceCodes : HandlerMoves(r, d),
             \A g \in granted' \ granted : g.from \in DeviceCodes =>
                 /\ Issuing(r, g.from) /\ req'[r] = Idle
                 /\ \A h \in granted' \ granted : g = h
      PROVE  Serves(r)
  BY <1>2, <1>3, <1>5, <1>6, <1>7, <1>8 DEF Serves, Continues, IndexLeads
<1>9. CASE req[r].cred \notin DeviceCodes
  <2>1. req'[r].cred \notin DeviceCodes
    BY <1>2, <1>9, AbsentAssumption DEF Continues, Idle
  <2>2. \A d \in DeviceCodes : HandlerMoves(r, d)
    BY <2>1 DEF HandlerMoves
  <2> QED BY <1>3, <1>8, <1>9, <2>2
<1>10. CASE req[r].cred \in DeviceCodes
  <2>1. /\ req[r].pc \in IssueSteps
        /\ \/ UNCHANGED granted /\ (Return(r) \/ \E pc \in IssueSteps : Goto(r, pc))
           \/ /\ Return(r)
              /\ granted' = granted \cup {[client |-> req[r].client, from |-> req[r].cred,
                      family |-> req[r].family, access |-> req[r].access, next |-> req[r].next]}
    BY <1>1, <1>10, IssueForDevice
  <2>2. req[r].cred \in used
    BY <1>10 DEF DeliveredOnce, UnknownUntilDrawn
  <2>3. CASE Return(r)
    <3>1. (\A d \in DeviceCodes : HandlerMoves(r, d)) /\ req'[r] = Idle
      BY <1>1, <2>3, ReturnHolds
    <3> QED BY <1>8, <2>1, <3>1 DEF Issuing
  <2>4. ASSUME NEW pc \in IssueSteps, Goto(r, pc), UNCHANGED granted PROVE Serves(r)
    <3>1. req'[r] = [req[r] EXCEPT !.pc = pc]
      BY <1>1, <2>4, GotoContinues
    <3>2. req'[r].pc = pc /\ req'[r].cred = req[r].cred /\ req'[r].rec = req[r].rec
      BY <1>1, <3>1 DEF Request
    <3>3. \A d \in DeviceCodes : HandlerMoves(r, d)
      BY <1>3, <2>1, <2>2, <2>4, <3>2 DEF HandlerMoves, Issuing, IssueSteps, SnapshotSteps
    <3> QED BY <1>8, <2>4, <3>3
  <2> QED BY <2>1, <2>3, <2>4
<1> QED BY <1>9, <1>10

\* A request that starts elsewhere, or is dropped.
LEMMA OthersServe ==
    ASSUME DeviceTyped, DeliveredOnce, NEW r \in Requests, UNCHANGED deviceHistory,
           \/ Abandon(r)
           \/ \E c \in ClientIds :
               \/ \E code \in AuthCodes : StartRedeem(r, c, code)
               \/ \E token \in RefreshTokens : StartRefresh(r, c, token)
               \/ \E token \in RefreshTokens \cup AccessTokens : StartRevoke(r, c, token)
    PROVE  Serves(r)
<1>1. Handlers
  BY DEF DeviceTyped, Typed
<1>2. UNCHANGED <<deviceMaps, decided, granted, used>>
  BY DEF Abandon, StartRedeem, StartRefresh, StartRevoke, storeVars, history, deviceHistory
<1>3. CASE Abandon(r)
  BY <1>1, <1>2, <1>3, ReturnHolds, ReadServes DEF Abandon
<1>4. ASSUME NEW c \in ClientIds, NEW x \in AuthCodes \cup RefreshTokens \cup AccessTokens,
             StartRedeem(r, c, x) \/ StartRefresh(r, c, x) \/ StartRevoke(r, c, x)
      PROVE  Serves(r)
  <2>1. PICK pc \in {"take_code", "read_refresh", "revoke_lookup", "revoke_access"} :
          req' = [req EXCEPT ![r] = [Idle EXCEPT !.pc = pc, !.client = c, !.cred = x,
                                                 !.since = now]]
    BY <1>4 DEF StartRedeem, StartRefresh, StartRevoke
  <2>2. /\ \A s \in Requests : s # r => req'[s] = req[s]
        /\ req'[r].pc = pc /\ req'[r].cred = x
    BY <1>1, <2>1 DEF Handlers, Idle
  <2>3. x \notin DeviceCodes
    BY IdentifierAssumption
  <2>4. \A d \in DeviceCodes : HandlerMoves(r, d)
    BY <2>2, <2>3 DEF HandlerMoves
  <2> QED BY <1>2, <2>2, <2>4, ReadServes
<1> QED BY <1>3, <1>4

\* A step that moves no handler, and at most makes grants vanish.
Vanishes ==
    /\ UNCHANGED <<req, granted, decided>> /\ used \subseteq used'
    /\ used' \cap DeviceCodes = used \cap DeviceCodes
    /\ \A d \in DeviceCodes : device_by_code'[d] \in {None, device_by_code[d]}
    /\ IndexLeads'

\* Such a step keeps the invariant.
LEMMA VanishesKeep ==
    ASSUME DeliveredOnce, Vanishes
    PROVE  DeliveredOnce'
<1> USE DEF Vanishes, DeliveredOnce
<1>1. OneEntitled'
  BY DEF OneEntitled, Entitled, Drawing, Issuing, Delivered
<1>2. StoredUndelivered' /\ UnknownUntilDrawn'
  BY DEF StoredUndelivered, UnknownUntilDrawn, Delivered
<1>3. StateFollows'
  BY DEF StateFollows, Drawing, Pending
<1>4. IssuedAsDecided'
  BY DEF IssuedAsDecided, Issuing, Approves
<1>5. CodesLead'
  BY DEF CodesLead, Snapshot, Drawing, IndexLeads
<1>6. DeviceSingleUse'
  BY DEF DeviceSingleUse
<1> QED BY <1>1, <1>2, <1>3, <1>4, <1>5, <1>6

\* The host, the resource owner, the sweep and the clock.
LEMMA EnvironmentVanishes ==
    ASSUME DeviceTyped, DeliveredOnce, UNCHANGED deviceHistory,
           \/ \E x \in AuthCodes, c \in ClientIds, s \in Subjects, t \in 0..MaxNow :
                  IssueCode(x, c, s, t)
           \/ \E k \in ConsentIds, c \in ClientIds, s \in Subjects : RecordConsent(k, c, s)
           \/ \E k \in ConsentIds : WithdrawConsent(k)
           \/ \E c \in ClientIds : DeleteClient(c)
           \/ \E c \in ClientIds, g \in Registrations : ProvisionClient(c, g)
           \/ Sweep \/ Tick \/ UNCHANGED vars
    PROVE  Vanishes
<1>1. TypeOK /\ IndexLeads
  BY DEF DeviceTyped, Typed, DeliveredOnce, CodesLead, IndexLeads
<1>2. ASSUME UNCHANGED deviceMaps
      PROVE  /\ \A d \in DeviceCodes : device_by_code'[d] \in {None, device_by_code[d]}
             /\ IndexLeads'
  BY <1>1, <1>2 DEF IndexLeads, deviceMaps
<1>3. UNCHANGED decided
  BY DEF deviceHistory
<1>4. ASSUME NEW x \in AuthCodes, NEW c, NEW s, NEW t, IssueCode(x, c, s, t) PROVE Vanishes
  <2>1. UNCHANGED <<deviceMaps, req, granted>> /\ used' = used \cup {x}
    BY <1>4 DEF IssueCode, put_authorization_code, history
  <2>2. x \notin DeviceCodes
    BY IdentifierAssumption
  <2> QED BY <1>2, <1>3, <2>1, <2>2 DEF Vanishes
<1>5. ASSUME NEW k, NEW c, NEW s, RecordConsent(k, c, s) PROVE Vanishes
  BY <1>2, <1>3, <1>5 DEF RecordConsent, compare_and_swap_consent, history, Vanishes
<1>6. ASSUME NEW k, WithdrawConsent(k) PROVE Vanishes
  <2>1. UNCHANGED <<req, granted, used>>
    BY <1>6 DEF WithdrawConsent
  <2>2. \E doomed : /\ device_by_code' = Without(device_by_code, doomed)
                    /\ user_code_index' = Without(user_code_index, StaleIndex(device_by_code'))
    BY <1>6 DEF WithdrawConsent, revoke_consent
  <2> QED BY <1>1, <1>3, <2>1, <2>2, RetainLeads DEF Vanishes
<1>7. ASSUME NEW c, DeleteClient(c) PROVE Vanishes
  <2>1. UNCHANGED <<req, granted, used>>
    BY <1>7 DEF DeleteClient
  <2>2. \E doomed : /\ device_by_code' = Without(device_by_code, doomed)
                    /\ user_code_index' = Without(user_code_index, StaleIndex(device_by_code'))
    BY <1>7 DEF DeleteClient, delete_client
  <2> QED BY <1>1, <1>3, <2>1, <2>2, RetainLeads DEF Vanishes
<1>8. ASSUME NEW c, NEW g, ProvisionClient(c, g) PROVE Vanishes
  BY <1>2, <1>3, <1>8 DEF ProvisionClient, put_client, history, Vanishes
<1>9. ASSUME Sweep PROVE Vanishes
  <2>1. UNCHANGED <<req, granted, used>>
    BY <1>9 DEF Sweep, history
  <2>2. \E doomed : /\ device_by_code' = Without(device_by_code, doomed)
                    /\ user_code_index' = Without(user_code_index, StaleIndex(device_by_code'))
    BY <1>9 DEF Sweep, sweep_expired
  <2> QED BY <1>1, <1>3, <2>1, <2>2, RetainLeads DEF Vanishes
<1>10. ASSUME Tick \/ UNCHANGED vars PROVE Vanishes
  BY <1>2, <1>3, <1>10 DEF Tick, vars, storeVars, history, Vanishes
<1> QED BY <1>4, <1>5, <1>6, <1>7, <1>8, <1>9, <1>10

\* Every step keeps the invariant.
LEMMA DeliveredOnceStep ==
    DeviceTyped /\ DeliveredOnce /\ [DeviceNext]_deviceVars => DeliveredOnce'
<1> SUFFICES ASSUME DeviceTyped, DeliveredOnce, [DeviceNext]_deviceVars PROVE DeliveredOnce'
  OBVIOUS
<1>1. ASSUME NEW r \in Requests, Serves(r) PROVE DeliveredOnce'
  BY <1>1, ServesKeep
<1>2. ASSUME UNCHANGED <<deviceMaps, decided, granted, req, used>> PROVE DeliveredOnce'
  <2>1. Vanishes
    BY <1>2 DEF Vanishes, deviceMaps, IndexLeads, DeliveredOnce, CodesLead
  <2> QED BY <2>1, VanishesKeep
<1>3. ASSUME NEW r \in Requests, DeviceStep(r) PROVE DeliveredOnce'
  BY <1>1, <1>2, <1>3, LeadsServe, WritesServe DEF DeviceStep
<1>4. ASSUME NEW r \in Requests, NEW c \in ClientIds,
             StartDeviceAuthorization(r, c) \/ \E d \in DeviceCodes : StartPoll(r, c, d)
      PROVE  DeliveredOnce'
  BY <1>1, <1>2, <1>4, LeadsServe
<1>5. ASSUME NEW r \in Requests, NEW u \in UserCodes,
             (\E s \in Subjects : LookUpPending(r, u, Approved(s))) \/ LookUpPending(r, u, Denied)
      PROVE  DeliveredOnce'
  <2>1. Denied # Pending /\ \A s \in Subjects : Approved(s) # Pending
    <3>1. Denied.status = "Denied" /\ Pending.status = "Pending"
          /\ \A s \in Subjects : Approved(s).status = "Approved"
      BY DEF Denied, Pending, Approved
    <3> QED BY <3>1
  <2> QED BY <1>1, <1>2, <1>5, <2>1, StateTypes, LeadsServe
<1>6. ASSUME Next \/ UNCHANGED vars, UNCHANGED deviceHistory PROVE DeliveredOnce'
  BY <1>1, <1>6, RequestServes, OthersServe, EnvironmentVanishes, VanishesKeep DEF Next
<1> QED BY <1>3, <1>4, <1>5, <1>6 DEF DeviceNext, deviceVars

\* A server that has just started.
LEMMA DeliveredOnceInit == DeviceInit => DeliveredOnce
<1> SUFFICES ASSUME DeviceInit PROVE DeliveredOnce
  OBVIOUS
<1>1. /\ \A d \in DeviceCodes : device_by_code[d] = None /\ decided[d] = None /\ d # None
      /\ granted = {} /\ \A r \in Requests : req[r].pc = "idle" /\ req[r].cred = None
  BY EmptyFacts, AbsentAssumption DEF DeviceInit, Init, Idle
<1>2. None # Pending
  BY DecisionAssumption, StateTypes
<1>3. OneEntitled /\ StoredUndelivered /\ UnknownUntilDrawn
  BY <1>1 DEF OneEntitled, Entitled, Drawing, Issuing, StoredUndelivered, UnknownUntilDrawn,
     Delivered
<1>4. StateFollows /\ IssuedAsDecided
  BY <1>1, <1>2 DEF StateFollows, IssuedAsDecided, Drawing, Issuing
<1>5. CodesLead /\ DeviceSingleUse
  BY <1>1 DEF CodesLead, Snapshot, DeviceSingleUse
<1> QED BY <1>3, <1>4, <1>5 DEF DeliveredOnce

\* However many polls race the take of a grant, and however pages, sweeps, deletions, dropped
\* requests and store errors interleave with them, a device code is answered with tokens at most
\* once (device_token, "a concurrent double poll can only mint one token").
THEOREM DeviceCodeAnsweredOnce == DeviceSpec => []DeviceSingleUse
<1>1. DeliveredOnce => DeviceSingleUse
  BY DEF DeliveredOnce
<1> QED BY <1>1, DeviceTypedInit, DeviceTypedStep, DeliveredOnceInit, DeliveredOnceStep, PTL
        DEF DeviceSpec

-----------------------------------------------------------------------------
(***************************************************************************)
(* Whose the access token is                                                *)
(***************************************************************************)
\* The handler in slot r bears an access token after its step if it bore it before, or drew it.
BearsKept(r) ==
    \A a \in AccessTokens :
        req'[r].access = a /\ req'[r].pc \in BearSteps =>
            Bears(r, a) \/ (a \notin used /\ a \in used')

\* An access record is written by the handler that bears its token.
WritesOwn(r) == \A a \in AccessTokens : tokens'[a] \in {None, tokens[a]} \/ Bears(r, a)

\* What the handler in slot r has written for a device code is its approver's.
ApproversOwn(r) ==
    /\ req'[r].pc = "put_refresh" /\ req'[r].cred \in DeviceCodes
       /\ tokens'[req'[r].access] # None
       => tokens'[req'[r].access].subject = req'[r].rec.state.subject
    /\ \A g \in granted' \ granted : g.from \in DeviceCodes =>
           /\ g.from = req[r].cred /\ Bears(r, g.access) /\ req'[r] = Idle
           /\ tokens'[g.access] # None => tokens'[g.access].subject = req[r].rec.state.subject

\* A step with these three properties keeps the invariant.
LEMMA OwnKeeps ==
    ASSUME DeviceTyped, DeliveredOnce, AccessOwned, NEW r \in Requests, Serves(r),
           BearsKept(r), WritesOwn(r), ApproversOwn(r)
    PROVE  AccessOwned'
<1>1. /\ \A s \in Requests : s # r => req'[s] = req[s]
      /\ used \subseteq used' /\ granted \subseteq granted'
  BY DEF Serves
<1>2. Idle.pc \notin BearSteps
  BY DEF Idle, BearSteps
<1>3. \A g \in granted : g.from \in DeviceCodes => g.access \in AccessTokens
  BY DEF DeviceTyped, Typed, Books, TokenResponse
<1>4. \A s \in Requests : req[s].pc \in BearSteps => req[s].access \in AccessTokens
  BY DEF DeviceTyped, Typed, Handlers, Proper, Mints, BearSteps, IssueSteps
<1>5. ASSUME NEW g \in granted', g \notin granted, g.from \in DeviceCodes
      PROVE  /\ g.from = req[r].cred /\ Bears(r, g.access) /\ req'[r] = Idle /\ Issuing(r, g.from)
             /\ g.access \in AccessTokens
             /\ tokens'[g.access] # None => tokens'[g.access].subject = req[r].rec.state.subject
  BY <1>4, <1>5 DEF ApproversOwn, Serves, Bears
<1>6. DeviceAccess' \subseteq used'
  <2> SUFFICES ASSUME NEW g \in granted', g.from \in DeviceCodes PROVE g.access \in used'
    BY DEF DeviceAccess
  <2>1. CASE g \in granted
    BY <1>1, <2>1 DEF AccessOwned, DeviceAccess
  <2>2. CASE g \notin granted
    BY <1>1, <1>5, <2>2 DEF AccessOwned
  <2> QED BY <2>1, <2>2
<1>7. \A s \in Requests, a \in AccessTokens :
          Bears(s, a)' => Bears(s, a) \/ (s = r /\ a \notin used /\ a \in used')
  BY <1>1 DEF Bears, BearsKept
<1>8. ASSUME NEW s \in Requests, NEW a \in AccessTokens, Bears(s, a)'
      PROVE  a \in used' /\ a \notin DeviceAccess' /\ \A t \in Requests : Bears(t, a)' => t = s
  <2>1. a \in used'
    BY <1>1, <1>7, <1>8 DEF AccessOwned
  <2>2. ASSUME NEW t \in Requests, Bears(t, a)' PROVE t = s
    <3>1. CASE Bears(s, a) /\ Bears(t, a)
      BY <3>1 DEF AccessOwned
    <3>2. CASE ~(Bears(s, a) /\ Bears(t, a))
      BY <1>7, <1>8, <2>2, <3>2 DEF AccessOwned
    <3> QED BY <3>1, <3>2
  <2>3. ASSUME NEW g \in granted', g.from \in DeviceCodes, g.access = a PROVE FALSE
    <3>1. CASE g \in granted
      <4>1. a \in DeviceAccess
        BY <2>3, <3>1 DEF DeviceAccess
      <4> QED BY <1>7, <1>8, <4>1 DEF AccessOwned
    <3>2. CASE g \notin granted
      <4>1. Bears(r, a) /\ req'[r] = Idle
        BY <1>5, <2>3, <3>2
      <4>2. s # r
        BY <1>2, <1>8, <4>1 DEF Bears
      <4> QED BY <1>7, <1>8, <4>1, <4>2 DEF AccessOwned
    <3> QED BY <3>1, <3>2
  <2> QED BY <2>1, <2>2, <2>3 DEF DeviceAccess
<1>9. ASSUME NEW s \in Requests, req'[s].pc = "put_refresh", req'[s].cred \in DeviceCodes,
             tokens'[req'[s].access] # None
      PROVE  tokens'[req'[s].access].subject = req'[s].rec.state.subject
  <2>1. CASE s = r
    BY <1>9, <2>1 DEF ApproversOwn
  <2>2. CASE s # r
    <3>1. req'[s] = req[s]
      BY <1>1, <2>2
    <3>2. PICK a \in AccessTokens : a = req[s].access
      BY <1>4, <1>9, <3>1 DEF BearSteps
    <3>3. Bears(s, a)
      BY <1>9, <3>1, <3>2 DEF Bears, BearSteps
    <3>4. ~Bears(r, a)
      BY <2>2, <3>3 DEF AccessOwned
    <3>5. tokens'[a] = tokens[a]
      BY <1>9, <3>1, <3>2, <3>4 DEF WritesOwn
    <3> QED BY <1>9, <3>1, <3>2, <3>5 DEF AccessOwned
  <2> QED BY <2>1, <2>2
<1>10. ASSUME NEW g \in granted', g.from \in DeviceCodes, tokens'[g.access] # None
       PROVE  tokens'[g.access].subject = decided'[g.from].subject
  <2>1. CASE g \in granted
    <3>1. device_by_code[g.from] = None
      BY <1>10, <2>1 DEF DeliveredOnce, StoredUndelivered, Delivered
    <3>2. decided'[g.from] = decided[g.from]
      BY <1>10, <3>1 DEF Serves, GrantMoves, GrantStays
    <3>3. g.access \in DeviceAccess /\ g.access \in AccessTokens
      BY <1>3, <1>10, <2>1 DEF DeviceAccess
    <3>4. ~Bears(r, g.access)
      BY <3>3 DEF AccessOwned
    <3>5. tokens'[g.access] = tokens[g.access]
      BY <1>10, <3>3, <3>4 DEF WritesOwn
    <3> QED BY <1>10, <2>1, <3>2, <3>5 DEF AccessOwned
  <2>2. CASE g \notin granted
    <3>1. Issuing(r, g.from) /\ tokens'[g.access].subject = req[r].rec.state.subject
      BY <1>5, <1>10, <2>2
    <3>2. device_by_code[g.from] = None /\ Approves(r, g.from)
      BY <1>10, <3>1 DEF DeliveredOnce, OneEntitled, Entitled, IssuedAsDecided
    <3>3. decided'[g.from] = decided[g.from]
      BY <1>10, <3>2 DEF Serves, GrantMoves, GrantStays
    <3> QED BY <3>1, <3>2, <3>3 DEF Approves
  <2> QED BY <2>1, <2>2
<1> QED BY <1>6, <1>8, <1>9, <1>10 DEF AccessOwned

\* A step that moves no handler and writes no access record.
LEMMA VanishedOwned ==
    ASSUME DeviceTyped, AccessOwned, Vanishes,
           \A a \in AccessTokens : tokens'[a] \in {None, tokens[a]}
    PROVE  AccessOwned'
<1>1. UNCHANGED <<req, granted, decided>> /\ used \subseteq used'
  BY DEF Vanishes
<1>2. /\ \A g \in granted : g.from \in DeviceCodes => g.access \in AccessTokens
      /\ \A s \in Requests : req[s].pc = "put_refresh" => req[s].access \in AccessTokens
  BY DEF DeviceTyped, Typed, Books, TokenResponse, Handlers, Proper, Mints, IssueSteps
<1>3. DeviceAccess' = DeviceAccess
  BY <1>1 DEF DeviceAccess
<1>4. \A s \in Requests, a \in AccessTokens : Bears(s, a)' <=> Bears(s, a)
  BY <1>1 DEF Bears
<1> QED BY <1>1, <1>2, <1>3, <1>4 DEF AccessOwned

\* A handler that draws identifiers bears an access token nobody had drawn.
LEMMA DrawsAccess ==
    ASSUME Handlers, NEW r \in Requests, NEW q \in Request, NEW chain, BeginIssue(r, q, chain)
    PROVE  BearsKept(r)
<1>1. CASE Return(r)
  BY <1>1, ReturnHolds DEF BearsKept, BearSteps
<1>2. CASE ~Return(r)
  <2> DEFINE pc == IF chain # None /\ Retryable THEN "rotate" ELSE "put_access"
  <2>1. PICK a \in AccessTokens \ used, n \in Fresh(RefreshTokens, MintsRefresh(chain)),
             f \in IF chain = None THEN Fresh(FamilyIds, MintsRefresh(chain)) ELSE {chain} :
           /\ req' = [req EXCEPT ![r] = [q EXCEPT !.pc = pc, !.access = a, !.next = n,
                                                  !.family = f, !.minted_at = now]]
           /\ used' = used \cup ({a, n, f} \ {None})
    BY <1>2 DEF BeginIssue
  <2> HIDE DEF pc
  <2>2. req'[r].access = a
    BY <2>1 DEF Handlers, Request
  <2>3. a \in used'
    BY <2>1, AbsentAssumption
  <2> QED BY <2>1, <2>2, <2>3 DEF BearsKept
<1> QED BY <1>1, <1>2

\* The other handlers bear what they drew.
LEMMA StepBears ==
    ASSUME Typed, NEW r \in Requests, RequestStep(r)
    PROVE  BearsKept(r)
<1>1. Handlers /\ req[r] \in Request
  BY DEF Typed, Handlers
<1>2. ASSUME Return(r) PROVE BearsKept(r)
  BY <1>1, <1>2, ReturnHolds DEF BearsKept, BearSteps
<1>3. ASSUME req'[r].pc \notin BearSteps PROVE BearsKept(r)
  BY <1>3 DEF BearsKept
<1>4. CASE PutAccess(r) \/ PutRefresh(r)
  <2>1. Return(r) \/ \E pc : Goto(r, pc)
    BY <1>4 DEF PutAccess, PutRefresh, Issued, Grant
  <2>2. req[r].pc \in BearSteps
    BY <1>4 DEF PutAccess, PutRefresh, BearSteps
  <2>3. ASSUME NEW pc, Goto(r, pc) PROVE BearsKept(r)
    <3>1. req'[r] = [req[r] EXCEPT !.pc = pc]
      BY <1>1, <2>3, GotoContinues
    <3>2. req'[r].access = req[r].access
      BY <1>1, <3>1 DEF Request
    <3> QED BY <2>2, <3>2 DEF BearsKept, Bears
  <2> QED BY <1>2, <2>1, <2>3
<1>5. CASE ConsumeCode(r) \/ SpendRefresh(r)
  <2>1. Return(r) \/ \E chain : BeginIssue(r, req[r], chain)
    BY <1>5 DEF ConsumeCode, SpendRefresh
  <2> QED BY <1>1, <1>2, <2>1, DrawsAccess
<1>6. CASE ReadRefresh(r)
  <2> DEFINE rec == refresh[req[r].cred]
             q == [req[r] EXCEPT !.rec = rec]
  <2>1. \/ Return(r)
        \/ \E pc \in {"restore_refresh", "retry_access", "reuse_revoke", "spend_refresh"} :
               req' = [req EXCEPT ![r].pc = pc, ![r].rec = rec]
        \/ BeginIssue(r, q, rec.family_id)
    BY <1>6 DEF ReadRefresh, GiveBack
  <2>2. q \in Request
    <3>1. rec \in Option(RefreshTokenRecord(Nat))
      BY <1>6 DEF Typed, TypeOK, Handlers, Proper, LookupSteps, ReadRefresh
    <3> HIDE DEF rec
    <3> QED BY <1>1, <3>1 DEF Request, Option
  <2> HIDE DEF rec, q
  <2>3. ASSUME NEW pc \in {"restore_refresh", "retry_access", "reuse_revoke", "spend_refresh"},
               req' = [req EXCEPT ![r].pc = pc, ![r].rec = rec]
        PROVE  BearsKept(r)
    BY <1>1, <1>3, <2>3, HeldContinues DEF BearSteps
  <2> QED BY <1>1, <1>2, <2>1, <2>2, <2>3, DrawsAccess
<1>7. CASE /\ ~(PutAccess(r) \/ PutRefresh(r) \/ ConsumeCode(r) \/ SpendRefresh(r) \/ ReadRefresh(r))
           /\ ~Return(r)
  <2>1. ASSUME NEW pc, NEW v,
               \/ Goto(r, pc)
               \/ req' = [req EXCEPT ![r].pc = pc, ![r].rec = v]
               \/ req' = [req EXCEPT ![r].pc = pc, ![r].failed = v]
               \/ req' = [req EXCEPT ![r].failed = v, ![r].pc = pc]
               \/ req' = [req EXCEPT ![r].pc = pc, ![r].family = v]
        PROVE  req'[r].pc = pc
    BY <1>1, <2>1 DEF Goto, Handlers, Request
  <2>2. ASSUME NEW v, AfterFamily(r, v) PROVE req'[r].pc \notin BearSteps
    <3>1. \E pc \in {"replay_record", "replay_delete"} :
              req' = [req EXCEPT ![r].failed = v, ![r].pc = pc]
      BY <2>2 DEF AfterFamily
    <3> QED BY <2>1, <3>1 DEF BearSteps
  <2>3. ASSUME TakeCode(r) PROVE req'[r].pc \notin BearSteps
    <3>1. \E pc \in TakenSteps : req' = [req EXCEPT ![r].pc = pc, ![r].rec = codes[req[r].cred]]
      BY <1>7, <2>3 DEF TakeCode, TakenSteps
    <3> QED BY <2>1, <3>1 DEF BearSteps, TakenSteps
  <2>4. ASSUME RestoreCode(r) \/ RecordRedemption(r) \/ UndoAccess(r) \/ UndoRefresh(r)
               \/ UndoIssuance(r) \/ RestoreRefresh(r) \/ ReuseRevoke(r) \/ ReuseRearm(r)
               \/ CommitRotation(r) \/ RetryAccess(r) \/ RetryNext(r)
        PROVE  req'[r].pc \notin BearSteps
    <3>1. \E pc \in {"undo_access", "undo_refresh", "reuse_rearm", "reread", "retry_next"} :
              Goto(r, pc)
      BY <1>7, <2>4 DEF RestoreCode, RecordRedemption, UndoAccess, UndoRefresh, UndoIssuance,
         RestoreRefresh, ReuseRevoke, ReuseRearm, CommitRotation, RetryAccess, RetryNext, Grant
    <3> QED BY <2>1, <3>1 DEF BearSteps
  <2>5. ASSUME ReplayLookup(r) \/ ReplayRevoke(r) \/ ReplayDelete(r) \/ ReplayRecord(r)
        PROVE  req'[r].pc \notin BearSteps
    <3>1. \/ \E v : AfterFamily(r, v)
          \/ Goto(r, "replay_record")
          \/ \E v : \/ req' = [req EXCEPT ![r].pc = "replay_revoke", ![r].family = v]
                    \/ req' = [req EXCEPT ![r].pc = "replay_record", ![r].failed = v]
      BY <1>7, <2>5 DEF ReplayLookup, ReplayRevoke, ReplayDelete, ReplayRecord
    <3>2. (\E v : AfterFamily(r, v)) \/ \E pc \in {"replay_record", "replay_revoke"} : req'[r].pc = pc
      BY <2>1, <3>1
    <3> QED BY <2>2, <3>2 DEF BearSteps
  <2>6. ASSUME Reread(r) PROVE req'[r].pc \notin BearSteps
    <3>1. \E v : req' = [req EXCEPT ![r].pc = "retry_access", ![r].rec = v]
      BY <1>7, <2>6 DEF Reread
    <3> QED BY <2>1, <3>1 DEF BearSteps
  <2>7. ASSUME RevokeLookup(r) \/ RevokeCascade(r) \/ RevokeTake(r) \/ RevokeAccess(r)
               \/ RevokeDelete(r)
        PROVE  req'[r].pc \notin BearSteps
    <3>1. \/ \E pc \in {"revoke_take", "revoke_delete"} : Goto(r, pc)
          \/ \E v : \/ req' = [req EXCEPT ![r].pc = "revoke_cascade", ![r].rec = v]
                    \/ req' = [req EXCEPT ![r].pc = "revoke_take", ![r].failed = v]
      BY <1>7, <2>7 DEF RevokeLookup, RevokeCascade, RevokeTake, RevokeAccess, RevokeDelete
    <3>2. req'[r].pc \in {"revoke_take", "revoke_delete", "revoke_cascade"}
      BY <2>1, <3>1
    <3> QED BY <3>2 DEF BearSteps
  <2> QED BY <1>3, <1>7, <2>3, <2>4, <2>5, <2>6, <2>7 DEF RequestStep
<1> QED BY <1>2, <1>4, <1>5, <1>6, <1>7

\* They write the access token they bear, and no other.
LEMMA StepWritesOwn ==
    ASSUME Typed, NEW r \in Requests, RequestStep(r)
    PROVE  WritesOwn(r)
<1>1. tokens \in [AccessTokens -> Option(IssuedToken(Nat))]
  BY DEF Typed, TypeOK
<1>2. ASSUME \/ UNCHANGED storeVars \/ UNCHANGED tokens
             \/ \E a : delete_token(a)
             \/ \E f, w : revoke_token_family(f, w)
      PROVE  WritesOwn(r)
  <2>1. ASSUME NEW doomed, tokens' = Without(tokens, doomed) PROVE WritesOwn(r)
    BY <1>1, <2>1, WithoutFacts DEF WritesOwn
  <2>2. UNCHANGED tokens \/ (\E a : tokens' = [tokens EXCEPT ![a] = None])
        \/ \E doomed : tokens' = Without(tokens, doomed)
    BY <1>2 DEF storeVars, tokenMaps, delete_token, revoke_token_family
  <2> QED BY <1>1, <2>1, <2>2 DEF WritesOwn
<1>3. CASE TakeCode(r) \/ RestoreCode(r) \/ ConsumeCode(r) \/ RecordRedemption(r)
  BY <1>2, <1>3 DEF TakeCode, RestoreCode, ConsumeCode, RecordRedemption, take_authorization_code,
     put_authorization_code, compare_and_swap_authorization_code, CallFails, tokenMaps
<1>4. CASE UndoAccess(r) \/ UndoRefresh(r) \/ UndoIssuance(r)
  BY <1>2, <1>4 DEF UndoAccess, UndoRefresh, UndoIssuance, take_refresh_token, CallFails
<1>5. CASE ReplayLookup(r) \/ ReplayRevoke(r) \/ ReplayDelete(r) \/ ReplayRecord(r)
  BY <1>2, <1>5 DEF ReplayLookup, ReplayRevoke, ReplayDelete, ReplayRecord, RevokeFamily, CallFails,
     put_authorization_code, tokenMaps
<1>6. CASE ReadRefresh(r) \/ RestoreRefresh(r) \/ ReuseRevoke(r) \/ ReuseRearm(r) \/ SpendRefresh(r)
  BY <1>2, <1>6 DEF ReadRefresh, RestoreRefresh, ReuseRevoke, ReuseRearm, SpendRefresh, RevokeFamily,
     CallFails, take_refresh_token, put_refresh_token
<1>7. CASE PutAccess(r)
  BY <1>1, <1>7 DEF PutAccess, put_token, WritesOwn, Bears, BearSteps
<1>8. CASE PutRefresh(r)
  BY <1>2, <1>8 DEF PutRefresh, put_refresh_token
<1>9. CASE CommitRotation(r)
  BY <1>1, <1>9 DEF CommitRotation, rotate_refresh_token, tokenMaps, WritesOwn, Bears, BearSteps
<1>10. CASE Reread(r) \/ RetryAccess(r) \/ RetryNext(r)
  BY <1>2, <1>10 DEF Reread, RetryAccess, RetryNext
<1>11. CASE RevokeLookup(r) \/ RevokeCascade(r) \/ RevokeTake(r) \/ RevokeAccess(r)
            \/ RevokeDelete(r)
  BY <1>2, <1>11 DEF RevokeLookup, RevokeCascade, RevokeTake, RevokeAccess, RevokeDelete,
     RevokeFamily, CallFails, take_refresh_token
<1> QED BY <1>3, <1>4, <1>5, <1>6, <1>7, <1>8, <1>9, <1>10, <1>11 DEF RequestStep

\* What `issue` writes for a device code is the approver's.
LEMMA StepApproversOwn ==
    ASSUME Typed, AccessOwned, NEW r \in Requests, RequestStep(r)
    PROVE  ApproversOwn(r)
<1>1. Handlers /\ req[r] \in Request /\ Proper(req[r])
  BY DEF Typed, Handlers
<1>2. CASE req[r].cred \notin DeviceCodes
  <2>1. req'[r].cred \notin DeviceCodes
    BY <1>2, StepContinues, AbsentAssumption DEF Continues, Idle
  <2>2. \A g \in granted' \ granted : g.from \notin DeviceCodes
    BY <1>2, StepFrame
  <2> QED BY <2>1, <2>2 DEF ApproversOwn
<1>3. CASE req[r].cred \in DeviceCodes
  <2>1. PutAccess(r) \/ PutRefresh(r) \/ UndoIssuance(r)
    BY <1>3, OnlyIssueServes
  <2>2. /\ req[r].pc \in IssueSteps
        /\ \/ UNCHANGED granted /\ (Return(r) \/ \E pc \in IssueSteps : Goto(r, pc))
           \/ /\ Return(r)
              /\ granted' = granted \cup {[client |-> req[r].client, from |-> req[r].cred,
                      family |-> req[r].family, access |-> req[r].access, next |-> req[r].next]}
              /\ PutAccess(r) \/ PutRefresh(r)
    BY <1>3, IssueForDevice
  <2>3. PICK a : a = req[r].access
    OBVIOUS
  <2>4. a \in AccessTokens
    BY <1>1, <2>2, <2>3 DEF Proper, Mints
  <2>5. AccessRecord(req[r]).subject = req[r].rec.state.subject
    BY <1>3 DEF AccessRecord, GrantSubject
  <2>6. tokens \in [AccessTokens -> Option(IssuedToken(Nat))]
    BY DEF Typed, TypeOK
  <2>7. ASSUME PutAccess(r) \/ PutRefresh(r), tokens'[a] # None,
               \/ granted' # granted
               \/ \E pc \in IssueSteps : Goto(r, pc) /\ pc = "put_refresh"
        PROVE  tokens'[a].subject = req[r].rec.state.subject
    <3>1. CASE PutRefresh(r)
      <4>1. tokens' = tokens /\ req[r].pc = "put_refresh"
        BY <3>1 DEF PutRefresh, put_refresh_token
      <4> QED BY <1>3, <2>3, <2>7, <4>1 DEF AccessOwned
    <3>2. CASE PutAccess(r)
      <4>1. ~Refused(AccessRecord(req[r]))
        <5> SUFFICES ASSUME Refused(AccessRecord(req[r])) PROVE FALSE
          OBVIOUS
        <5>1. Return(r) /\ granted' = granted
          BY <3>2 DEF PutAccess
        <5>2. req'[r].pc = "idle"
          BY <1>1, <5>1, ReturnHolds
        <5>3. PICK pc \in IssueSteps : Goto(r, pc) /\ pc = "put_refresh"
          BY <2>7, <5>1
        <5>4. req'[r] = [req[r] EXCEPT !.pc = pc]
          BY <1>1, <5>3, GotoContinues
        <5> QED BY <1>1, <5>2, <5>3, <5>4 DEF Request
      <4>2. tokens'[a] = AccessRecord(req[r])
        BY <2>3, <2>4, <2>6, <3>2, <4>1 DEF PutAccess, put_token
      <4> QED BY <2>5, <4>2
    <3> QED BY <2>7, <3>1, <3>2
  <2>8. Bears(r, a) \/ UndoIssuance(r)
    BY <2>1, <2>3 DEF Bears, BearSteps, PutAccess, PutRefresh
  <2>9. CASE UNCHANGED granted /\ Return(r)
    <3>1. req'[r].pc = "idle"
      BY <1>1, <2>9, ReturnHolds
    <3> QED BY <2>9, <3>1 DEF ApproversOwn
  <2>10. ASSUME NEW pc \in IssueSteps, Goto(r, pc), UNCHANGED granted PROVE ApproversOwn(r)
    <3>1. req'[r] = [req[r] EXCEPT !.pc = pc]
      BY <1>1, <2>10, GotoContinues
    <3>2. /\ req'[r].pc = pc /\ req'[r].access = a /\ req'[r].cred = req[r].cred
          /\ req'[r].rec = req[r].rec
      BY <1>1, <2>3, <3>1 DEF Request
    <3>3. pc = "put_refresh" => PutAccess(r) \/ PutRefresh(r)
      <4>1. UndoIssuance(r) => req'[r].pc = "idle"
        BY <1>1, ReturnHolds DEF UndoIssuance
      <4> QED BY <2>1, <3>2, <4>1
    <3> QED BY <2>7, <2>10, <3>2, <3>3 DEF ApproversOwn
  <2>11. CASE /\ Return(r)
              /\ granted' = granted \cup {[client |-> req[r].client, from |-> req[r].cred,
                      family |-> req[r].family, access |-> req[r].access, next |-> req[r].next]}
              /\ PutAccess(r) \/ PutRefresh(r)
    <3>1. req'[r] = Idle /\ req'[r].pc = "idle"
      BY <1>1, <2>11, ReturnHolds
    <3>2. Bears(r, a)
      BY <2>3, <2>11 DEF Bears, BearSteps, PutAccess, PutRefresh
    <3>3. ASSUME NEW g \in granted' \ granted
          PROVE  /\ g.from = req[r].cred /\ g.access = a
                 /\ tokens'[a] # None => tokens'[a].subject = req[r].rec.state.subject
      BY <2>3, <2>7, <2>11, <3>3
    <3> QED BY <3>1, <3>2, <3>3 DEF ApproversOwn
  <2> QED BY <2>2, <2>9, <2>10, <2>11
<1> QED BY <1>2, <1>3

\* The handlers of the device flow, and those that start or are dropped, write no access record
\* and hand nothing out; of them only the take begins to bear a token.
LEMMA QuietOwns ==
    ASSUME DeviceTyped, NEW r \in Requests, UNCHANGED <<tokens, granted>>,
           req'[r].pc \notin BearSteps \/ TakeGrant(r)
    PROVE  BearsKept(r) /\ WritesOwn(r) /\ ApproversOwn(r)
<1>1. Handlers
  BY DEF DeviceTyped, Typed
<1>2. WritesOwn(r)
  BY DEF WritesOwn
<1>3. CASE req'[r].pc \notin BearSteps
  BY <1>2, <1>3 DEF BearsKept, ApproversOwn, BearSteps
<1>4. CASE TakeGrant(r) /\ ~Return(r)
  <2>1. PICK q \in Request, a \in AccessTokens \ used :
             /\ req' = [req EXCEPT ![r] = q] /\ q.pc = "put_access" /\ q.access = a
             /\ a \in used'
    BY <1>4, TakeGrantLeads
  <2>2. req'[r] = q
    BY <1>1, <2>1 DEF Handlers
  <2> QED BY <1>2, <2>1, <2>2 DEF BearsKept, ApproversOwn
<1>5. CASE Return(r)
  BY <1>1, <1>3, <1>5, ReturnHolds DEF BearSteps
<1> QED BY <1>3, <1>4, <1>5

\* Every step keeps the invariant.
LEMMA AccessOwnedStep ==
    DeviceTyped /\ DeliveredOnce /\ AccessOwned /\ [DeviceNext]_deviceVars => AccessOwned'
<1> SUFFICES ASSUME DeviceTyped, DeliveredOnce, AccessOwned, [DeviceNext]_deviceVars
             PROVE  AccessOwned'
  OBVIOUS
<1>1. Typed /\ Handlers /\ DeviceTyped'
  BY DeviceTypedStep DEF DeviceTyped, Typed
<1>2. ASSUME NEW r \in Requests, Serves(r), UNCHANGED <<tokens, granted>>,
             req'[r].pc \notin BearSteps \/ TakeGrant(r)
      PROVE  AccessOwned'
  BY <1>2, QuietOwns, OwnKeeps
<1>3. ASSUME UNCHANGED <<deviceMaps, decided, granted, req, used>>, UNCHANGED tokens
      PROVE  AccessOwned'
  <2>1. Vanishes
    BY <1>3 DEF Vanishes, deviceMaps, IndexLeads, DeliveredOnce, CodesLead
  <2> QED BY <1>3, <2>1, VanishedOwned
<1>4. ASSUME NEW r \in Requests, NEW q, req' = [req EXCEPT ![r] = q], q.pc \notin BearSteps
      PROVE  req'[r].pc \notin BearSteps
  BY <1>1, <1>4 DEF Handlers
<1>5. ASSUME NEW r \in Requests, Return(r) PROVE req'[r].pc \notin BearSteps
  BY <1>1, <1>5, ReturnHolds DEF BearSteps
<1>6. ASSUME NEW r \in Requests, Authenticate(r) \/ DrawUserCode(r) \/ ReadGrant(r)
      PROVE  AccessOwned'
  <2>1. UNCHANGED <<tokens, granted>>
    BY <1>6 DEF Authenticate, DrawUserCode, ReadGrant, storeVars, tokenMaps, history
  <2>2. Serves(r) \/ UNCHANGED <<deviceMaps, decided, granted, req, used>>
    BY <1>6, LeadsServe
  <2>3. UNCHANGED req \/ req'[r].pc \notin BearSteps
    <3>1. CASE Authenticate(r) /\ ~Return(r)
      BY <1>4, <3>1, AuthenticateLeads DEF BearSteps
    <3>2. CASE DrawUserCode(r) /\ ~Return(r) /\ ~UNCHANGED req
      BY <1>4, <3>2, DrawUserCodeLeads DEF BearSteps
    <3>3. CASE ReadGrant(r) /\ ~Return(r)
      BY <1>4, <3>3, ReadGrantLeads DEF BearSteps
    <3> QED BY <1>5, <1>6, <3>1, <3>2, <3>3
  <2>4. CASE UNCHANGED req
    <3>1. req[r].pc \notin BearSteps
      BY <1>6 DEF BearSteps, Authenticate, DrawUserCode, ReadGrant
    <3> QED BY <1>2, <1>3, <2>1, <2>2, <2>4, <3>1
  <2> QED BY <1>2, <1>3, <2>1, <2>2, <2>3, <2>4
<1>7. ASSUME NEW r \in Requests, PutGrant(r) \/ DropExpired(r) \/ Decide(r) \/ WritePoll(r)
                                 \/ DeliverDenial(r) \/ TakeGrant(r)
      PROVE  AccessOwned'
  <2>1. UNCHANGED <<tokens, granted>>
    BY <1>7 DEF PutGrant, DropExpired, Decide, WritePoll, DeliverDenial, TakeGrant,
       put_device_grant, take_device_grant, compare_and_swap_device_grant, CallFails, storeVars,
       tokenMaps, history
  <2>2. Return(r) \/ TakeGrant(r)
    BY <1>7 DEF PutGrant, DropExpired, Decide, WritePoll, DeliverDenial
  <2> QED BY <1>2, <1>5, <1>7, <2>1, <2>2, WritesServe
<1>8. ASSUME NEW r \in Requests, NEW c \in ClientIds,
             StartDeviceAuthorization(r, c) \/ \E d \in DeviceCodes : StartPoll(r, c, d)
      PROVE  AccessOwned'
  <2>1. UNCHANGED <<tokens, granted>>
    BY <1>8 DEF StartDeviceAuthorization, StartPoll, storeVars, tokenMaps, history
  <2>2. Serves(r) \/ UNCHANGED <<deviceMaps, decided, granted, req, used>>
    BY <1>8, LeadsServe
  <2>3. req'[r].pc \in {"authenticate", "read_grant"}
    BY <1>1, <1>8 DEF StartDeviceAuthorization, StartPoll, Handlers, Idle
  <2> QED BY <1>2, <1>3, <2>1, <2>2, <2>3 DEF BearSteps
<1>9. ASSUME NEW r \in Requests, NEW u \in UserCodes, NEW decision \in DeviceGrantState,
             decision # Pending, LookUpPending(r, u, decision)
      PROVE  AccessOwned'
  <2>1. UNCHANGED <<tokens, granted>>
    BY <1>9 DEF LookUpPending, storeVars, tokenMaps, history
  <2>2. Serves(r) \/ UNCHANGED <<deviceMaps, decided, granted, req, used>>
    BY <1>9, LeadsServe
  <2>3. PICK q \in Request : req' = [req EXCEPT ![r] = q] /\ q.pc \in {"drop_expired", "decide"}
    BY <1>9, LookUpLeads
  <2>4. req'[r].pc \notin BearSteps
    BY <1>4, <2>3 DEF BearSteps
  <2> QED BY <1>2, <1>3, <2>1, <2>2, <2>4
<1>10. Denied # Pending /\ \A s \in Subjects : Approved(s) # Pending
  <2>1. Denied.status = "Denied" /\ Pending.status = "Pending"
        /\ \A s \in Subjects : Approved(s).status = "Approved"
    BY DEF Denied, Pending, Approved
  <2> QED BY <2>1
<1>11. ASSUME NEW r \in Requests, RequestStep(r), UNCHANGED deviceHistory PROVE AccessOwned'
  BY <1>1, <1>11, RequestServes, StepBears, StepWritesOwn, StepApproversOwn, OwnKeeps
<1>12. ASSUME NEW r \in Requests, Abandon(r), UNCHANGED deviceHistory PROVE AccessOwned'
  <2>1. UNCHANGED <<tokens, granted>>
    BY <1>12 DEF Abandon, storeVars, tokenMaps, history
  <2>2. Serves(r)
    BY <1>12, OthersServe
  <2> QED BY <1>2, <1>5, <1>12, <2>1, <2>2 DEF Abandon
<1>13. ASSUME NEW r \in Requests, NEW c \in ClientIds, UNCHANGED deviceHistory,
              \/ \E code \in AuthCodes : StartRedeem(r, c, code)
              \/ \E token \in RefreshTokens : StartRefresh(r, c, token)
              \/ \E token \in RefreshTokens \cup AccessTokens : StartRevoke(r, c, token)
       PROVE  AccessOwned'
  <2>1. UNCHANGED <<tokens, granted>>
    BY <1>13 DEF StartRedeem, StartRefresh, StartRevoke, storeVars, tokenMaps, history
  <2>2. Serves(r)
    BY <1>13, OthersServe
  <2>3. \E pc \in {"take_code", "read_refresh", "revoke_lookup", "revoke_access"} : \E x :
          req' = [req EXCEPT ![r] = [Idle EXCEPT !.pc = pc, !.client = c, !.cred = x,
                                                 !.since = now]]
    BY <1>13 DEF StartRedeem, StartRefresh, StartRevoke
  <2>4. req'[r].pc \in {"take_code", "read_refresh", "revoke_lookup", "revoke_access"}
    BY <1>1, <2>3 DEF Handlers, Idle
  <2> QED BY <1>2, <2>1, <2>2, <2>4 DEF BearSteps
<1>14. ASSUME UNCHANGED deviceHistory,
              \/ \E x \in AuthCodes, c \in ClientIds, s \in Subjects, t \in 0..MaxNow :
                     IssueCode(x, c, s, t)
              \/ \E k \in ConsentIds, c \in ClientIds, s \in Subjects : RecordConsent(k, c, s)
              \/ \E k \in ConsentIds : WithdrawConsent(k)
              \/ \E c \in ClientIds : DeleteClient(c)
              \/ \E c \in ClientIds, g \in Registrations : ProvisionClient(c, g)
              \/ Sweep \/ Tick \/ UNCHANGED vars
       PROVE  AccessOwned'
  <2>1. Vanishes
    BY <1>14, EnvironmentVanishes
  <2>2. UNCHANGED tokens \/ \E doomed : tokens' = Without(tokens, doomed)
    BY <1>14 DEF IssueCode, put_authorization_code, RecordConsent, compare_and_swap_consent,
       WithdrawConsent, revoke_consent, DeleteClient, delete_client, ProvisionClient, put_client,
       Sweep, sweep_expired, Tick, vars, storeVars, tokenMaps
  <2>3. \A a \in AccessTokens : tokens'[a] \in {None, tokens[a]}
    <3>1. tokens \in [AccessTokens -> Option(IssuedToken(Nat))]
      BY <1>1 DEF Typed, TypeOK
    <3> QED BY <2>2, <3>1, WithoutFacts
  <2> QED BY <2>1, <2>3, VanishedOwned
<1>15. ASSUME Next, UNCHANGED deviceHistory PROVE AccessOwned'
  BY <1>11, <1>12, <1>13, <1>14, <1>15 DEF Next
<1>16. CASE UNCHANGED deviceVars
  BY <1>14, <1>16 DEF deviceVars
<1>17. CASE DeviceNext
  BY <1>6, <1>7, <1>8, <1>9, <1>10, <1>15, <1>17, StateTypes DEF DeviceNext, DeviceStep
<1> QED BY <1>16, <1>17

\* A server that has just started.
LEMMA AccessOwnedInit == DeviceInit => AccessOwned
BY DEF DeviceInit, Init, Idle, AccessOwned, DeviceAccess, Bears, BearSteps

\* Once the user has been told that a decision was recorded it is the decision of that grant for
\* good, however polls, a second page, sweeps, withdrawals and dropped requests interleave; tokens
\* come only of an approval, and the access token in the store is its subject's (approve_device,
\* deny_device, device_token: "the decision must not be losable at all").
THEOREM DecisionIsFinal == DeviceSpec => []DecisionStands
<1>1. DeviceTyped /\ DeliveredOnce /\ AccessOwned => DecisionStands
  <2> SUFFICES ASSUME DeviceTyped, DeliveredOnce, AccessOwned PROVE DecisionStands
    OBVIOUS
  <2>1. \A d \in DeviceCodes : decided[d] # None /\ device_by_code[d] # None =>
            device_by_code[d].state = decided[d]
    BY DEF DeliveredOnce, StateFollows
  <2>2. ASSUME NEW d \in DeviceCodes, NEW g \in granted, g.from = d
        PROVE  /\ decided[d] # None /\ decided[d].status = "Approved"
               /\ tokens[g.access] # None => tokens[g.access].subject = decided[d].subject
    BY <2>2 DEF DeliveredOnce, IssuedAsDecided, AccessOwned
  <2> QED BY <2>1, <2>2 DEF DecisionStands
<1> QED BY <1>1, DeviceTypedInit, DeviceTypedStep, DeliveredOnceInit, DeliveredOnceStep,
        AccessOwnedInit, AccessOwnedStep, PTL DEF DeviceSpec
=============================================================================

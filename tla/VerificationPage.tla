--------------------------- MODULE VerificationPage ---------------------------
(***************************************************************************)
(* The page at which a user enters a device's code and decides (RFC 8628):   *)
(* the verification route of http.rs, and approve_device and deny_device of  *)
(* server.rs as it calls them.                                               *)
(*                                                                          *)
(* A request is steps between awaits on the store.  Sessions and their CSRF  *)
(* tokens are the host's, behind two hooks: `issue` replaces the session's   *)
(* token, `consume` returns and clears it.  A token is named after the       *)
(* request whose page carries it.  The limiter behind the other hooks        *)
(* (RateLimiter) answers either way.  A session that is not signed in has    *)
(* neither a token nor a subject.                                            *)
(*                                                                          *)
(* Abstracted: what the page says.  The client's name is read for display    *)
(* only.  A code is already normalised.                                      *)
(***************************************************************************)
EXTENDS ClientAuthentication

CONSTANTS
    PageRequests,       \* requests to the verification route, each served once
    Sessions,           \* browsers
    Posts,              \* what each may post: [signed_in, body, urlencoded, fetch_site, origin, action]
    MAX_BODY_BYTES,
    AskingDevices,      \* the devices that have asked for a code: [device, client_id, user_code]
    Protections,        \* the `VerificationProtection` a host may have built the service with
    PageStoreErrors     \* whether store calls may fail

\* `VerificationProtection`, with the service that has neither hooks nor the opt-out.
ASSUME ProtectionAssumption == Protections \subseteq {"Unwired", "Tokens", "Disabled"}

NoCode == "no code"     \* user_code is empty

VARIABLES
    protection,         \* chosen when the service is built
    session_token,      \* the host's: the token each session was last issued
    page,               \* the state of each request
    decisions           \* history: what the store accepted, and on which form

pageVars == <<protection, session_token, page, decisions>>

StillPending == [status |-> "Pending", subject |-> None]
DecidedState(action, s) ==
    IF action = "deny" THEN [StillPending EXCEPT !.status = "Denied"]
    ELSE [status |-> "Approved", subject |-> s]

\* `trail` is the history of a request: what it asked the limiter and the store, in order.
Unserved == [step |-> "new", trail |-> <<>>, issued |-> FALSE]

NoPages ==
    /\ protection \in Protections
    /\ session_token = [s \in Sessions |-> None]
    /\ page = [r \in PageRequests |-> Unserved]
    /\ decisions = {}

PageInit == AuthInit /\ NoPages

\* Of a request that has been answered, its history is kept.
PageDone(p) == [step |-> "done", trail |-> p.trail, issued |-> p.issued,
                session |-> IF p.issued THEN p.session ELSE None]
Serve(r, p) == page' = [page EXCEPT ![r] = p]
Noted(p, what) == [p EXCEPT !.trail = Append(@, what)]

-----------------------------------------------------------------------------
(***************************************************************************)
(* The page                                                                 *)
(***************************************************************************)
\* `pending_grant` up to its await: which entries pay, and what a refusal leaves to look up.
Display(p, entry) ==
    [step |-> "display", trail |-> p.trail, issued |-> p.issued, session |-> p.session,
     code |-> p.code, entry |-> entry]
EntersCode(p, entry) ==
    CASE entry = "Refused" -> {PageDone(p)}
      [] entry = "AlreadyCharged" -> {Display(p, entry)}
      [] entry = "Uncharged" -> {PageDone(Noted(p, "denied")), Display(Noted(p, "allowed"), entry)}

\* `render_verification`, on the session's token as the handler has left it.
render_verification(r, p, code, entry, token_left) ==
    LET s == p.session
        lookup(q) == IF code = NoCode THEN {PageDone(q)} ELSE EntersCode(q, entry)
        WithToken(token) == session_token' = [session_token EXCEPT ![s] = token]
    IN CASE protection = "Unwired" -> WithToken(token_left) /\ Serve(r, PageDone(p))
         [] protection = "Tokens" /\ ~p.signed_in -> WithToken(token_left) /\ Serve(r, PageDone(p))
         [] protection = "Tokens" /\ p.signed_in ->
                WithToken(r) /\ \E q \in lookup([p EXCEPT !.issued = TRUE]) : Serve(r, q)
         [] protection = "Disabled" -> WithToken(token_left) /\ \E q \in lookup(p) : Serve(r, q)

Arrived(s, signed_in, code) ==
    [step |-> "arrived", trail |-> Unserved.trail, issued |-> Unserved.issued, session |-> s,
     signed_in |-> signed_in, code |-> code, presented |-> None, verdict |-> StillPending,
     grant |-> None]

\* `verification_page_handler`.  `handle` answers HEAD by the GET, token and charge included.
PageAsked(r, s, signed_in, code) ==
    /\ page[r].step = "new"
    /\ render_verification(r, Arrived(s, signed_in, code), code, "Uncharged", session_token[s])
    /\ UNCHANGED <<storeVars, authVars, protection, decisions>>

\* The lookup of `pending_grant`: a failing store shows as no grant, and expiry is not looked at.
Displays(r) ==
    LET p == page[r]
        Shows(found) ==
            LET q == Noted(p, "lookup") IN
            Serve(r, PageDone(IF p.entry # "Uncharged" THEN q
                              ELSE Noted(q, IF found THEN "Succeeded" ELSE "Failed")))
        d == FindByUserCode(p.code)
    IN
    /\ p.step = "display"
    /\ \/ Shows(d # None /\ device_by_code[d].state = StillPending)
       \/ PageStoreErrors /\ Shows(FALSE)
    /\ UNCHANGED <<storeVars, authVars, protection, session_token, decisions>>

-----------------------------------------------------------------------------
(***************************************************************************)
(* The decision                                                             *)
(***************************************************************************)
\* Mutant of form_is_own: a session without a token is matched by a form without one.
form_matches_nothing(expected, presented) == expected = presented

\* The token the session was last issued is the one the form brings back.
form_is_own(expected, presented) == expected # None /\ expected = presented

\* `collect_body`: a length announced or met past the limit, or a body cut short, is refused.
collect_body(body) ==
    /\ body.announced <= MAX_BODY_BYTES
    /\ body.received <= MAX_BODY_BYTES
    /\ ~body.cut_short

\* `same_origin`: Sec-Fetch-Site decides where it is sent, the Origin header otherwise.
same_origin(post) ==
    IF post.fetch_site # None THEN post.fetch_site = "same-origin" ELSE post.origin = "issuer"

\* `verification_submit_handler` up to the first await; `collect_body` comes before it.
FormPosted(r, s, post, presented, code) ==
    LET p == [Arrived(s, post.signed_in, code) EXCEPT !.presented = presented]
        protected == protection # "Disabled"
        expected == session_token[s]
        left == IF protected THEN None ELSE expected
        decides == post.action \in {"deny", "approve"} \/ ~protected
        out_of_hand == \/ ~collect_body(post.body) \/ ~post.urlencoded
                       \/ protected /\ (~same_origin(post) \/ protection = "Unwired")
        own == protected => form_is_own(expected, presented)
        Turned(token) == /\ session_token' = [session_token EXCEPT ![s] = token]
                         /\ Serve(r, PageDone(p))
        Admitted(action) ==
            \/ render_verification(r, Noted(p, "denied"), code, "Refused", left)
            \/ /\ session_token' = [session_token EXCEPT ![s] = left]
               /\ \E u \in Subjects :
                      Serve(r, [Noted(p, "allowed") EXCEPT !.step = "resolve",
                                                           !.verdict = DecidedState(action, u)])
    IN
    /\ page[r].step = "new"
    /\ \/ out_of_hand /\ Turned(expected)
       \/ ~out_of_hand /\ ~own /\ Turned(None)
       \/ /\ ~out_of_hand /\ own
          /\ \/ /\ code = NoCode \/ ~decides
                /\ render_verification(r, p, code, "Uncharged", left)
             \/ code # NoCode /\ decides /\ ~post.signed_in /\ Turned(left)
             \/ code # NoCode /\ decides /\ post.signed_in /\ Admitted(post.action)
    /\ UNCHANGED <<storeVars, authVars, protection, decisions>>

\* Mutant of entry_after: the page that reports a failure pays for the code once more.
entry_charged_again(error) == IF error = "RateLimited" THEN "Refused" ELSE "Uncharged"

\* What the limiter has been told when a decision has failed.
entry_after(error) == IF error = "RateLimited" THEN "Refused" ELSE "AlreadyCharged"

\* The page that reports a failed decision, with a token of its own.
ReportsFailure(r, p, error) ==
    render_verification(r, p, p.code, entry_after(error), session_token[p.session])

\* `pending_grant_by_user_code`, after its check: resolve, then record the outcome.
Resolves(r) ==
    LET p == Noted(page[r], "lookup")
        d == FindByUserCode(p.code)
        Fails(error) == ReportsFailure(r, Noted(p, "Failed"), error)
        GoesTo(q, step) == Serve(r, [q EXCEPT !.step = step, !.grant = d])
                           /\ UNCHANGED session_token
    IN
    /\ page[r].step = "resolve"
    /\ \/ d = None /\ Fails("UnknownUserCode")
       \/ PageStoreErrors /\ Fails("Storage")
       \/ d # None /\ clock >= device_by_code[d].expires_at /\ GoesTo(p, "drop")
       \/ /\ d # None /\ clock < device_by_code[d].expires_at
          /\ IF device_by_code[d].state = StillPending THEN GoesTo(Noted(p, "Succeeded"), "write")
             ELSE Fails("NotPending")
    /\ UNCHANGED <<storeVars, authVars, protection, decisions>>

\* An expired grant is removed on sight, if the store can.
DropsLapsed(r) ==
    /\ page[r].step = "drop"
    /\ take_device_grant(page[r].grant) \/ (PageStoreErrors /\ UNCHANGED storeVars)
    /\ ReportsFailure(r, Noted(page[r], "Failed"), "Expired")
    /\ UNCHANGED <<authVars, protection, decisions>>

\* `approve_device` and `deny_device`: the swap from Pending.  No device polls here, so the grant
\* is as it was read but for its state.
Decides(r) ==
    LET p == page[r] IN
    /\ p.step = "write"
    /\ \/ /\ DeviceGrantSwaps(p.grant, StillPending)
          /\ compare_and_swap_device_grant(p.grant, StillPending,
                                           [device_by_code[p.grant] EXCEPT !.state = p.verdict])
          /\ decisions' = decisions \cup {[on |-> p.grant, token |-> p.presented,
                                           session |-> p.session]}
          /\ Serve(r, PageDone(p))
          /\ UNCHANGED session_token
       \/ /\ ~DeviceGrantSwaps(p.grant, StillPending) \/ PageStoreErrors
          /\ ReportsFailure(r, p, "NotPending")
          /\ UNCHANGED <<storeVars, decisions>>
    /\ UNCHANGED <<authVars, protection>>

-----------------------------------------------------------------------------
\* A device's grant appears (device_authorization, DeviceFlow), and is swept when it has expired.
DeviceAsks(a) ==
    /\ device_by_code[a.device] = None /\ FindByUserCode(a.user_code) = None
    /\ clock = 0 /\ \A r \in PageRequests : page[r].step = "new"
    /\ put_device_grant(a.device, [client_id |-> a.client_id, user_code |-> a.user_code,
                                   state |-> StillPending, created_at |-> clock,
                                   expires_at |-> clock + 1, interval |-> 0, last_poll_at |-> None])
    /\ UNCHANGED <<authVars, pageVars>>

GrantsSwept ==
    /\ sweep_expired(clock)
    /\ device_by_code' # device_by_code
    /\ UNCHANGED <<authVars, pageVars>>

\* The tokens on the pages served so far.
Tokens == {r \in PageRequests : page[r].issued}

PageNext ==
    \/ AuthTick /\ UNCHANGED pageVars
    \/ GrantsSwept
    \/ \E a \in AskingDevices : DeviceAsks(a)
    \/ \E r \in PageRequests :
          \/ \E s \in Sessions, code \in UserCodes \cup {NoCode} :
                \/ \E signed_in \in BOOLEAN : PageAsked(r, s, signed_in, code)
                \/ \E post \in Posts[r], presented \in Tokens \cup {None} :
                      FormPosted(r, s, post, presented, code)
          \/ Displays(r) \/ Resolves(r) \/ DropsLapsed(r) \/ Decides(r)

PageSpec == PageInit /\ [][PageNext]_<<storeVars, authVars, pageVars>>

-----------------------------------------------------------------------------
(***************************************************************************)
(* Properties                                                               *)
(***************************************************************************)
\* "ONE CODE ENTRY IS CHARGED ONCE, however many times a single request resolves it" (CodeEntry):
\* a request that looks a code up has asked the limiter before and been let through, asks it only
\* once and reports one outcome, although a failed decision resolves the code again for the page
\* that reports it; and one that was refused looks nothing up.
EntryChargedOnce ==
    \A r \in PageRequests :
        LET trail == page[r].trail
            Places(what) == {i \in DOMAIN trail : trail[i] \in what}
            Once(what) == Cardinality(Places(what)) = 1
        IN Places({"lookup"}) # {} =>
              /\ trail[1] = "allowed" /\ Once({"allowed", "denied"})
              /\ page[r].step = "done" => Once({"Succeeded", "Failed"})

\* A decision the store accepted came with the token of a page that was shown to the same session,
\* and no token decides twice, with any number of tabs, resubmissions and failed decisions between
\* (with_csrf_tokens and verification_submit_handler; a host may switch this off).
DecisionFromOwnForm ==
    protection # "Disabled" =>
        \A a \in decisions :
            /\ a.token # None /\ page[a.token].issued /\ page[a.token].session = a.session
            /\ \A b \in decisions : a.token = b.token => a = b
=============================================================================

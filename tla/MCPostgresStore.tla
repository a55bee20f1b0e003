--------------------------- MODULE MCPostgresStore ---------------------------
(***************************************************************************)
(* PostgresStore with one client, subject and family, so that every call    *)
(* meets every other one, and one record per key.                           *)
(***************************************************************************)
EXTENDS PostgresStore, TLC

CONSTANTS c1, s1, f1, g1, g2, x1, a1, r1, r2, d1, u1, p1, k1, k2, i1

Grant == [client_id |-> c1, subject |-> s1, family_id |-> f1, grant_established_at |-> 2]

AccessRecord == Grant @@ [expires_at |-> 2]
RefreshRecord == Grant @@ [expires_at |-> 2, state |-> "Active", retry |-> None]
PushRecord == [client_id |-> c1, pushed_at |-> 2, expires_at |-> 2]

Consent(k, scope) ==
    [consent_id |-> k, client_id |-> c1, subject |-> s1, scope |-> scope, granted_at |-> 1]

Window(t) == [recorded_at |-> t, until |-> 2]

Code(status) ==
    [client_id |-> c1, subject |-> s1, issued_at |-> 1, expires_at |-> 2,
     state |-> [status |-> status, access_token |-> None, refresh_token |-> None]]

Device(status, s) ==
    [client_id |-> c1, user_code |-> u1, state |-> [status |-> status, subject |-> s],
     created_at |-> 1, expires_at |-> 2, interval |-> 1, last_poll_at |-> None]

Quiet ==
    [put_token |-> {}, put_refresh_token |-> {}, put_pushed |-> {}, rotate |-> {},
     delete_client |-> {}, revoke_family |-> {}, revoke_consent |-> {}, swap_consent |-> {},
     put_client |-> {}, swap_client |-> {}, delete_token |-> {}, take_refresh |-> {}, take_pushed |-> {},
     put_code |-> {}, swap_code |-> {}, take_code |-> {},
     put_device |-> {}, swap_device |-> {}, take_device |-> {},
     claim_replay_id |-> {}, sweep_expired |-> {}]

Revocations ==
    [Quiet EXCEPT
        !.delete_client = {<<c1, Window(2)>>},
        !.revoke_family = {<<f1, Window(2)>>},
        !.revoke_consent = {<<k1, Window(2)>>},
        !.swap_consent = {<<k1, None, Consent(k1, {})>>},
        !.put_token = {<<a1, AccessRecord>>}]

Tokens ==
    [Revocations EXCEPT
        !.delete_client = {<<c1, Window(1)>>, <<c1, Window(2)>>},
        !.put_refresh_token = {<<r1, RefreshRecord>>},
        !.put_pushed = {<<p1, PushRecord>>},
        !.rotate = {<<r1, RefreshRecord, a1, None, 2>>, <<r1, RefreshRecord, a1, r2, 2>>},
        !.put_client = {<<c1, g1>>},
        !.delete_token = {a1}, !.take_refresh = {r1}, !.take_pushed = {p1},
        !.sweep_expired = {2}]

Consents ==
    [Revocations EXCEPT
        !.swap_consent = {<<k1, None, Consent(k1, {})>>, <<k2, None, Consent(k2, {})>>,
                          <<k1, Consent(k1, {}), Consent(k1, Scopes)>>},
        !.revoke_consent = {<<k1, Window(2)>>, <<k2, Window(2)>>},
        !.revoke_family = {}]

Statements ==
    [Revocations EXCEPT
        !.put_client = {<<c1, g1>>}, !.swap_client = {<<c1, g1, g2>>},
        !.put_code = {<<x1, Code("Issued")>>},
        !.swap_code = {<<x1, Code("Issued").state, Code("Consumed")>>},
        !.take_code = {x1},
        !.put_device = {<<d1, Device("Pending", None)>>},
        !.swap_device = {<<d1, Device("Pending", None).state, Device("Approved", s1)>>},
        !.take_device = {d1},
        !.claim_replay_id = {<<i1, 2>>},
        !.sweep_expired = {2}]

\* A circle of three needs three connections; tokens and consents meet their revocations in
\* pairs, and the single statements meet one open transaction.
MCWorkloads ==
    {[connections |-> 3, calls |-> Revocations],
     [connections |-> 2, calls |-> Tokens],
     [connections |-> 2, calls |-> Consents],
     [connections |-> 1, calls |-> Statements]}

Symmetry == Permutations(Txns)
=============================================================================

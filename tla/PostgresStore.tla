---------------------------- MODULE PostgresStore ----------------------------
(***************************************************************************)
(* `PostgresStorage` (crates/oauth-as-postgres/src/store.rs): the `Storage` *)
(* trait over PostgreSQL at READ COMMITTED.  The variables of Storage are   *)
(* the committed tables.  A method that is one statement takes effect at    *)
(* once; the others are transactions whose statements interleave, and which *)
(* meet in two kinds of lock that are held until they end: advisory locks   *)
(* on the identities a barrier may name, shared by writers and exclusive    *)
(* for revocations, and row locks.                                          *)
(*                                                                          *)
(* A transaction is its call and the statements it has left.  What it       *)
(* deletes or writes is locked when the statement runs and visible to       *)
(* others when it commits.  A statement sees the rows committed when it     *)
(* starts, waits for the locks on those it touches, and passes over the     *)
(* ones that are gone by then; it visits the rows of a table in one         *)
(* physical order, so waiting for them one by one adds no cycle and is one  *)
(* step.  Advisory keys are compared as identities: `hashtextextended` is   *)
(* taken to be injective.                                                   *)
(***************************************************************************)
EXTENDS StorageContract, Sequences

CONSTANTS
    Txns,       \* the connections of the pool
    Workloads   \* records [connections: how many are in use at once,
                \*          calls.m: the argument tuples with which callers invoke method m]

\* The arguments of each method.  A consent is stored under its own consent_id, and a record that
\* replaces another one keeps it.
CallsTyped(calls) ==
    /\ calls.put_token \subseteq AccessTokens \X IssuedToken(Nat)
    /\ calls.put_refresh_token \subseteq RefreshTokens \X RefreshTokenRecord(Nat)
    /\ calls.put_pushed \subseteq RequestUris \X PushedAuthorizationRequest(Nat)
    /\ calls.rotate \subseteq RefreshTokens \X RefreshTokenRecord(Nat) \X AccessTokens
                                  \X Option(RefreshTokens) \X Nat
    /\ calls.delete_client \subseteq ClientIds \X RevocationWindow(Nat)
    /\ calls.revoke_family \subseteq FamilyIds \X RevocationWindow(Nat)
    /\ calls.revoke_consent \subseteq ConsentIds \X RevocationWindow(Nat)
    /\ calls.swap_consent \subseteq
           ConsentIds \X Option(ConsentRecord(Nat)) \X ConsentRecord(Nat)
    /\ \A args \in calls.swap_consent :
           \A rec \in {args[2], args[3]} \ {None} : rec.consent_id = args[1]
    /\ calls.put_client \subseteq ClientIds \X Registrations
    /\ calls.swap_client \subseteq ClientIds \X Registrations \X Registrations
    /\ calls.delete_token \subseteq AccessTokens
    /\ calls.take_refresh \subseteq RefreshTokens
    /\ calls.put_code \subseteq AuthCodes \X AuthorizationCodeRecord(Nat)
    /\ calls.swap_code \subseteq
           AuthCodes \X AuthorizationCodeState \X AuthorizationCodeRecord(Nat)
    /\ calls.take_code \subseteq AuthCodes
    /\ calls.put_device \subseteq DeviceCodes \X DeviceGrant(Nat)
    /\ calls.swap_device \subseteq DeviceCodes \X DeviceGrantState \X DeviceGrant(Nat)
    /\ calls.take_device \subseteq DeviceCodes
    /\ calls.take_pushed \subseteq RequestUris
    /\ calls.claim_replay_id \subseteq ReplayIds \X Nat

ASSUME WorkloadAssumption ==
    /\ None \notin Subjects /\ None \notin FamilyIds /\ None \notin RefreshTokens
    /\ None \notin ConsentRecord(Nat)
    /\ \A w \in Workloads : CallsTyped(w.calls)

VARIABLES
    workload,   \* the one this behaviour runs
    txn         \* txn[t]: the transaction open on connection t

pgVars == <<storeVars, workload, txn>>

Calls == workload.calls

Closed == [op |-> "none", args |-> <<>>, left |-> <<>>, advisory |-> {}, rows |-> {},
           gone |-> {}, snapshot |-> None]

PgInit == StoreInit /\ workload \in Workloads /\ txn = [t \in Txns |-> Closed]

-----------------------------------------------------------------------------
(***************************************************************************)
(* The statements of each call                                              *)
(***************************************************************************)
ClientKey(c) == <<"client", c>>
FamilyKey(f) == <<"family", f>>
ConsentKey(c, s) == <<"consent", c, s>>
ConsentSwapKey(c, s) == <<"consent_cas", c, s>>

OptionalKey(part, key) == IF part = None THEN <<>> ELSE <<key>>

\* Mutant of barrier_scope_keys: the client's key is taken last.
keys_client_last(c, f, s) ==
    OptionalKey(f, FamilyKey(f)) \o OptionalKey(s, ConsentKey(c, s)) \o <<ClientKey(c)>>

\* The keys a guarded write takes, in the order it takes them.
barrier_scope_keys(c, f, s) ==
    <<ClientKey(c)>> \o OptionalKey(f, FamilyKey(f)) \o OptionalKey(s, ConsentKey(c, s))

\* Mutant of lock_barrier_scopes: a write takes no lock.
lock_nothing(c, f, s) == <<>>

lock_barrier_scopes(c, f, s) ==
    LET keys == barrier_scope_keys(c, f, s)
    IN  [i \in DOMAIN keys |-> <<"shared", keys[i]>>]

Deletes(tables) == [i \in DOMAIN tables |-> <<"delete", tables[i]>>]

\* put_token, put_refresh_token and put_pushed_authorization_request.
GuardedWrite(c, f, s, row) ==
    lock_barrier_scopes(c, f, s) \o << <<"check">>, <<"lock", row>>, <<"commit">> >>

RotateProgram(rec, token, access, next) ==
    lock_barrier_scopes(rec.client_id, rec.family_id, rec.subject)
    \o << <<"check">>, <<"compare", <<"refresh", token>> >>, <<"lock", <<"tokens", access>> >> >>
    \o (IF next = None THEN <<>> ELSE << <<"lock", <<"refresh", next>> >> >>)
    \o << <<"commit">> >>

DeleteClientProgram(c) ==
    << <<"exclusive", ClientKey(c)>>, <<"lock", <<"client_barriers", c>> >> >>
    \o Deletes(<<"consents", "tokens", "refresh", "codes", "devices", "pushed", "clients">>)
    \o << <<"commit">> >>

RevokeFamilyProgram(f) ==
    << <<"exclusive", FamilyKey(f)>>, <<"lock", <<"family_barriers", f>> >> >>
    \o Deletes(<<"tokens", "refresh">>) \o << <<"commit">> >>

\* What follows the claim of the consent row, which is what names the pair.
WithdrawalProgram(c, s) ==
    << <<"exclusive", ConsentKey(c, s)>>, <<"lock", <<"consent_barriers", <<c, s>> >> >> >>
    \o Deletes(<<"tokens", "refresh", "codes", "devices">>) \o << <<"commit">> >>

\* Mutant of SwapConsentProgram: only the row lock orders two writers of a pair.
swap_row_lock_only(k, rec) ==
    << <<"select">>, <<"lock", <<"consents", k>> >>, <<"commit">> >>

SwapConsentProgram(k, rec) ==
    << <<"exclusive", ConsentSwapKey(rec.client_id, rec.subject)>>, <<"select">>,
       <<"lock", <<"consents", k>> >>, <<"commit">> >>

Begin(t, op, args, program) ==
    /\ txn[t] = Closed
    /\ Cardinality({u \in Txns : txn[u] # Closed}) < workload.connections
    /\ txn' = [txn EXCEPT ![t] = [Closed EXCEPT !.op = op, !.args = args, !.left = program]]
    /\ UNCHANGED storeVars

BeginPutToken(t) ==
    \E args \in Calls.put_token :
        LET rec == args[2] IN
        Begin(t, "put_token", args,
              GuardedWrite(rec.client_id, rec.family_id, rec.subject, <<"tokens", args[1]>>))

BeginPutRefresh(t) ==
    \E args \in Calls.put_refresh_token :
        LET rec == args[2] IN
        Begin(t, "put_refresh_token", args,
              GuardedWrite(rec.client_id, rec.family_id, rec.subject, <<"refresh", args[1]>>))

BeginPutPushed(t) ==
    \E args \in Calls.put_pushed :
        Begin(t, "put_pushed", args,
              GuardedWrite(args[2].client_id, None, None, <<"pushed", args[1]>>))

\* Arguments: the token, the record to compare with, the two successors, and their deadline.
BeginRotate(t) ==
    \E args \in Calls.rotate :
        Begin(t, "rotate", args, RotateProgram(args[2], args[1], args[3], args[4]))

BeginDeleteClient(t) ==
    \E args \in Calls.delete_client :
        Begin(t, "delete_client", args, DeleteClientProgram(args[1]))

BeginRevokeFamily(t) ==
    \E args \in Calls.revoke_family :
        Begin(t, "revoke_family", args, RevokeFamilyProgram(args[1]))

BeginRevokeConsent(t) ==
    \E args \in Calls.revoke_consent :
        Begin(t, "revoke_consent", args, << <<"claim", <<"consents", args[1]>> >> >>)

BeginSwapConsent(t) ==
    \E args \in Calls.swap_consent :
        Begin(t, "swap_consent", args, SwapConsentProgram(args[1], args[3]))

-----------------------------------------------------------------------------
(***************************************************************************)
(* Locks                                                                    *)
(***************************************************************************)
Open(t) == txn[t].left # <<>>
Verb(t) == IF Open(t) THEN Head(txn[t].left)[1] ELSE "none"
Object(t) == Head(txn[t].left)[2]

Holds(u, mode, key) == <<mode, key>> \in txn[u].advisory

\* The rows whose lock the next statement of t asks for.
Wanted(t) ==
    IF Verb(t) \in {"lock", "claim", "compare"} THEN {Object(t)}
    ELSE IF Verb(t) \in {"delete", "select"} /\ txn[t].snapshot # None THEN txn[t].snapshot
    ELSE {}

\* The transactions that t waits for.
Blockers(t) ==
    {u \in Txns \ {t} :
        \/ Verb(t) \in {"shared", "exclusive"} /\ Holds(u, "exclusive", Object(t))
        \/ Verb(t) = "exclusive" /\ Holds(u, "shared", Object(t))
        \/ Wanted(t) \cap txn[u].rows # {}}

Free(row) == \A t \in Txns : row \notin txn[t].rows

Runs(t, verb) == Verb(t) = verb /\ Blockers(t) = {}

\* t has run its statement and holds these rows as well, having deleted those in `gone`.
Proceed(t, rows, gone) ==
    txn' = [txn EXCEPT ![t].left = Tail(@), ![t].rows = @ \cup rows, ![t].gone = @ \cup gone,
                       ![t].snapshot = None]

Close(t) == txn' = [txn EXCEPT ![t] = Closed]

-----------------------------------------------------------------------------
(***************************************************************************)
(* Statements                                                               *)
(***************************************************************************)
AdvisoryLock(t) ==
    /\ Runs(t, "shared") \/ Runs(t, "exclusive")
    /\ txn' = [txn EXCEPT ![t].left = Tail(@), ![t].advisory = @ \cup {Head(txn[t].left)}]
    /\ UNCHANGED storeVars

\* barrier_covers, on the record of the call, in a snapshot of its own.
barrier_covers(t) ==
    LET rec == txn[t].args[2]
    IN  IF txn[t].op = "put_pushed" THEN PushRefused(rec) ELSE Refused(rec)

Check(t) ==
    /\ Runs(t, "check")
    /\ IF barrier_covers(t) THEN Close(t) ELSE Proceed(t, {}, {})
    /\ UNCHANGED storeVars

\* An upsert: the row is this transaction's until it ends.
LockRow(t) ==
    /\ Runs(t, "lock")
    /\ Proceed(t, {Object(t)}, {})
    /\ UNCHANGED storeVars

\* SELECT ... FOR UPDATE, and the comparison with the record the rotation replaces.
Compare(t) ==
    LET token == txn[t].args[1] IN
    /\ Runs(t, "compare")
    /\ IF refresh[token] # None /\ refresh[token] = txn[t].args[2]
       THEN Proceed(t, {Object(t)}, {}) ELSE Close(t)
    /\ UNCHANGED storeVars

\* DELETE ... RETURNING of the consent; a withdrawal that finds none ends here.
Claim(t) ==
    LET consent == consents[txn[t].args[1]] IN
    /\ Runs(t, "claim")
    /\ IF consent = None THEN Close(t)
       ELSE txn' = [txn EXCEPT ![t].left = WithdrawalProgram(consent.client_id, consent.subject),
                               ![t].args = @ \o <<consent.client_id, consent.subject>>,
                               ![t].rows = {Object(t)}, ![t].gone = {Object(t)}]
    /\ UNCHANGED storeVars

\* The keys of a table that a cascade of the transaction names.
Doomed(t, map) ==
    LET args == txn[t].args IN
    CASE txn[t].op = "delete_client" -> OfClient(map, args[1])
      [] txn[t].op = "revoke_family" -> OfFamily(map, args[1])
      [] txn[t].op = "revoke_consent" -> OfConsent(map, args[3], args[4])

DoomedRows(t, table) ==
    {<<table, k>> : k \in
        CASE table = "tokens" -> Doomed(t, tokens)
          [] table = "refresh" -> Doomed(t, refresh)
          [] table = "codes" -> Doomed(t, codes)
          [] table = "pushed" -> Doomed(t, pushed)
          [] table = "consents" -> Doomed(t, consents)
          [] table = "clients" -> {c \in {txn[t].args[1]} : clients[c] # None}
          [] table = "devices" ->
                 IF txn[t].op = "delete_client" THEN Doomed(t, device_by_code)
                 ELSE {d \in OfClient(device_by_code, txn[t].args[3]) :
                           device_by_code[d].state =
                               [status |-> "Approved", subject |-> txn[t].args[4]]}}

\* A statement that finds no row has none to wait for.
StartDelete(t) ==
    LET rows == DoomedRows(t, Object(t)) IN
    /\ Verb(t) = "delete" /\ txn[t].snapshot = None
    /\ IF rows = {} THEN Proceed(t, {}, {}) ELSE txn' = [txn EXCEPT ![t].snapshot = rows]
    /\ UNCHANGED storeVars

FinishDelete(t) ==
    LET found == txn[t].snapshot \cap DoomedRows(t, Object(t)) IN
    /\ Runs(t, "delete") /\ txn[t].snapshot # None
    /\ Proceed(t, found, found)
    /\ UNCHANGED storeVars

\* The row of the pair that ORDER BY granted_at DESC LIMIT 1 picks, in this snapshot.
StartSelect(t) ==
    LET rec == txn[t].args[3]
        pair == OfConsent(consents, rec.client_id, rec.subject)
    IN
    /\ Verb(t) = "select" /\ txn[t].snapshot = None
    /\ \/ pair = {} /\ txn' = [txn EXCEPT ![t].snapshot = {}]
       \/ \E k \in pair :
              /\ \A j \in pair : consents[j].granted_at <= consents[k].granted_at
              /\ txn' = [txn EXCEPT ![t].snapshot = {<<"consents", k>>}]
    /\ UNCHANGED storeVars

\* What the rows of the snapshot hold by now, those that have left the pair passed over.
Live(t) ==
    LET rec == txn[t].args[3]
    IN  {consents[k] : k \in {j \in OfConsent(consents, rec.client_id, rec.subject) :
                                  <<"consents", j>> \in txn[t].snapshot}}

AsExpected(t) == Live(t) = {txn[t].args[2]} \ {None}

\* Mutant of FinishSelect: the row is read without FOR UPDATE.
select_without_lock(t) ==
    /\ Verb(t) = "select" /\ txn[t].snapshot # None
    /\ IF AsExpected(t) THEN Proceed(t, {}, {}) ELSE Close(t)
    /\ UNCHANGED storeVars

\* FOR UPDATE returns the row as it is once the lock is held, or nothing if it is gone.
FinishSelect(t) ==
    /\ Runs(t, "select") /\ txn[t].snapshot # None
    /\ IF AsExpected(t) THEN Proceed(t, txn[t].snapshot, {}) ELSE Close(t)
    /\ UNCHANGED storeVars

\* A statement fails, or the caller goes away: everything is rolled back.
Rollback(t) == Open(t) /\ Close(t) /\ UNCHANGED storeVars

-----------------------------------------------------------------------------
(***************************************************************************)
(* Commit: what the transaction wrote becomes visible                       *)
(***************************************************************************)
Gone(t, table) == {row[2] : row \in {r \in txn[t].gone : r[1] = table}}

CommitWrite(t) ==
    LET key == txn[t].args[1]
        rec == txn[t].args[2]
    IN
    /\ tokens' = IF txn[t].op = "put_token" THEN [tokens EXCEPT ![key] = rec] ELSE tokens
    /\ refresh' = IF txn[t].op = "put_refresh_token" THEN [refresh EXCEPT ![key] = rec] ELSE refresh
    /\ pushed' = IF txn[t].op = "put_pushed" THEN [pushed EXCEPT ![key] = rec] ELSE pushed
    /\ UNCHANGED <<clients, deviceMaps, codes, consents, replay_ids, barriers>>

\* The barrier is upserted with the later of both instants.
CommitRevocation(t) ==
    LET window == txn[t].args[2]
        Upsert(slots, named) ==
            [k \in DOMAIN slots |-> IF k \in named THEN merge_into(slots[k], window) ELSE slots[k]]
        Named(op, scope) == IF txn[t].op = op THEN {scope} ELSE {}
    IN
    /\ clients' = Without(clients, Gone(t, "clients"))
    /\ consents' = Without(consents, Gone(t, "consents"))
    /\ tokens' = Without(tokens, Gone(t, "tokens"))
    /\ refresh' = Without(refresh, Gone(t, "refresh"))
    /\ codes' = Without(codes, Gone(t, "codes"))
    /\ pushed' = Without(pushed, Gone(t, "pushed"))
    /\ device_by_code' = Without(device_by_code, Gone(t, "devices"))
    /\ user_code_index' = Without(user_code_index, StaleIndex(device_by_code'))
    /\ client_barriers' = Upsert(client_barriers, Named("delete_client", txn[t].args[1]))
    /\ family_barriers' = Upsert(family_barriers, Named("revoke_family", txn[t].args[1]))
    /\ consent_barriers' =
           IF txn[t].op = "revoke_consent"
           THEN Upsert(consent_barriers, {<<txn[t].args[3], txn[t].args[4]>>})
           ELSE consent_barriers
    /\ UNCHANGED replay_ids

RotatedRetry(a, next, until) == [access_token |-> a, refresh_token |-> next, until |-> until]

CommitRotation(t) ==
    LET n == txn[t].args[1]
        rec == txn[t].args[2]
        a == txn[t].args[3]
        next == txn[t].args[4]
        until == txn[t].args[5]
        spent == [rec EXCEPT !.state = "Spent", !.retry = RotatedRetry(a, next, until)]
        access == [client_id |-> rec.client_id, subject |-> rec.subject,
                   family_id |-> rec.family_id,
                   grant_established_at |-> rec.grant_established_at, expires_at |-> until]
    IN
    /\ tokens' = [tokens EXCEPT ![a] = access]
    /\ refresh' = [k \in RefreshTokens |->
                       IF k = n THEN spent
                       ELSE IF k = next THEN [spent EXCEPT !.state = "Active"] ELSE refresh[k]]
    /\ UNCHANGED <<clients, deviceMaps, codes, pushed, consents, replay_ids, barriers>>

CommitSwap(t) ==
    /\ consents' = [consents EXCEPT ![txn[t].args[1]] = txn[t].args[3]]
    /\ UNCHANGED <<clients, deviceMaps, codes, pushed, tokenMaps, replay_ids, barriers>>

Commit(t) ==
    /\ Runs(t, "commit")
    /\ CASE txn[t].op \in {"put_token", "put_refresh_token", "put_pushed"} -> CommitWrite(t)
         [] txn[t].op \in {"delete_client", "revoke_family", "revoke_consent"} ->
                CommitRevocation(t)
         [] txn[t].op = "rotate" -> CommitRotation(t)
         [] txn[t].op = "swap_consent" -> CommitSwap(t)
    /\ Close(t)

-----------------------------------------------------------------------------
(***************************************************************************)
(* Methods that are one statement: they wait for the row and take effect    *)
(***************************************************************************)
OnRow(table, key) == Free(<<table, key>>) /\ UNCHANGED txn

\* A user code is a unique column: a statement that writes one waits for the row that has it.
UserCodeSettled(g) ==
    user_code_index[g.user_code] # None => Free(<<"devices", user_code_index[g.user_code]>>)

ClientStatement ==
    \/ \E args \in Calls.put_client : OnRow("clients", args[1]) /\ put_client(args[1], args[2])
    \/ \E args \in Calls.swap_client :
           OnRow("clients", args[1]) /\ compare_and_swap_client(args[1], args[2], args[3])

DeleteTokenStatement == \E a \in Calls.delete_token : OnRow("tokens", a) /\ delete_token(a)

TakeRefreshStatement ==
    \E r \in Calls.take_refresh : OnRow("refresh", r) /\ take_refresh_token(r)

PutCodeStatement ==
    \E args \in Calls.put_code :
        OnRow("codes", args[1]) /\ put_authorization_code(args[1], args[2])

SwapCodeStatement ==
    \E args \in Calls.swap_code :
        /\ OnRow("codes", args[1])
        /\ compare_and_swap_authorization_code(args[1], args[2], args[3])

TakeCodeStatement ==
    \E c \in Calls.take_code : OnRow("codes", c) /\ take_authorization_code(c)

DeviceStatement ==
    \/ \E args \in Calls.put_device :
           /\ OnRow("devices", args[1]) /\ UserCodeSettled(args[2])
           /\ put_device_grant(args[1], args[2])
    \/ \E args \in Calls.swap_device :
           /\ OnRow("devices", args[1]) /\ UserCodeSettled(args[3])
           /\ compare_and_swap_device_grant(args[1], args[2], args[3])
    \/ \E d \in Calls.take_device : OnRow("devices", d) /\ take_device_grant(d)

PushedStatement ==
    \E u \in Calls.take_pushed : OnRow("pushed", u) /\ take_pushed_authorization_request(u)

ReplayStatement ==
    \E args \in Calls.claim_replay_id : claim_replay_id(args[1], args[2]) /\ UNCHANGED txn

\* The rows of a table that no transaction has locked: FOR UPDATE SKIP LOCKED.
Unlocked(table, keys) == {k \in keys : Free(<<table, k>>)}

dataVars == <<clients, deviceMaps, codes, pushed, tokenMaps, consents, replay_ids>>

\* One batch of sweep_expired, which takes the tables one after another and commits each batch.
\* The batch is one row (SWEEP_BATCH_ROWS), so that everything else may come between two.
SweepBatch(now) ==
    \/ \E k \in Unlocked("tokens", ExpiredKeys(tokens, now)) : delete_token(k)
    \/ \E k \in Unlocked("refresh", ExpiredKeys(refresh, now)) : take_refresh_token(k)
    \/ \E k \in Unlocked("codes", ExpiredKeys(codes, now)) : take_authorization_code(k)
    \/ \E k \in Unlocked("devices", ExpiredKeys(device_by_code, now)) : take_device_grant(k)
    \/ \E k \in Unlocked("pushed", ExpiredKeys(pushed, now)) :
           take_pushed_authorization_request(k)
    \/ \E k \in {i \in ReplayIds : replay_ids[i] # None /\ replay_ids[i] <= now} :
           /\ replay_ids' = Without(replay_ids, {k})
           /\ UNCHANGED <<clients, deviceMaps, codes, pushed, tokenMaps, consents, barriers>>
    \/ \E k \in Unlocked("client_barriers", Reapable(client_barriers, now)) :
           /\ client_barriers' = Without(client_barriers, {k})
           /\ UNCHANGED <<dataVars, family_barriers, consent_barriers>>
    \/ \E k \in Unlocked("family_barriers", Reapable(family_barriers, now)) :
           /\ family_barriers' = Without(family_barriers, {k})
           /\ UNCHANGED <<dataVars, client_barriers, consent_barriers>>
    \/ \E k \in Unlocked("consent_barriers", Reapable(consent_barriers, now)) :
           /\ consent_barriers' = Without(consent_barriers, {k})
           /\ UNCHANGED <<dataVars, client_barriers, family_barriers>>

SweepStatement == \E now \in Calls.sweep_expired : SweepBatch(now) /\ UNCHANGED txn

BeginCall(t) ==
    \/ BeginPutToken(t) \/ BeginPutRefresh(t) \/ BeginPutPushed(t) \/ BeginRotate(t)
    \/ BeginDeleteClient(t) \/ BeginRevokeFamily(t) \/ BeginRevokeConsent(t)
    \/ BeginSwapConsent(t)

Step(t) ==
    \/ AdvisoryLock(t) \/ Check(t) \/ LockRow(t) \/ Compare(t) \/ Claim(t)
    \/ StartDelete(t) \/ FinishDelete(t) \/ StartSelect(t) \/ FinishSelect(t)
    \/ Commit(t) \/ Rollback(t)

PgNext ==
    /\ \/ \E t \in Txns : BeginCall(t) \/ Step(t)
       \/ ClientStatement \/ DeleteTokenStatement \/ TakeRefreshStatement
       \/ PutCodeStatement \/ SwapCodeStatement \/ TakeCodeStatement
       \/ DeviceStatement \/ PushedStatement \/ ReplayStatement \/ SweepStatement
    /\ UNCHANGED workload

PgSpec == PgInit /\ [][PgNext]_pgVars

-----------------------------------------------------------------------------
(***************************************************************************)
(* What the transactions guarantee                                          *)
(***************************************************************************)
\* "THE INVARIANT: `client` is index 0": no set of transactions waits in a circle, so PostgreSQL
\* never has to break one by failing a revocation (store.rs, `barrier_scope_keys`, the cascade
\* order of `delete_client` and the third argument of `revoke_consent`).
NoDeadlock == \A S \in SUBSET Txns \ {{}} : \E t \in S : Blockers(t) \cap S = {}

\* The rows of a table that a revocation is about to remove are all the rows that it names.
CascadeComplete(t, table) == {r \in txn[t].gone : r[1] = table} = DoomedRows(t, table)

\* What a transaction read or decided earlier holds when it commits, at READ COMMITTED and with
\* every other statement in between: a guarded write is not behind a barrier, a rotation still
\* replaces the record it compared, a consent is still the one the writer saw, and a revocation
\* removes every token, refresh record and pushed request that its criterion names by then
\* (store.rs, `lock_barrier_scopes`, `rotate_refresh_token`, `compare_and_swap_consent`).
CommitsAreAtomic ==
    \A t \in Txns : Verb(t) = "commit" =>
        LET args == txn[t].args IN
        CASE txn[t].op \in {"put_token", "put_refresh_token", "put_pushed"} -> ~barrier_covers(t)
          [] txn[t].op = "rotate" -> ~barrier_covers(t) /\ refresh[args[1]] = args[2]
          [] txn[t].op = "swap_consent" ->
                 args[2] \in FindConsent(args[3].client_id, args[3].subject)
          [] txn[t].op \in {"revoke_family", "revoke_consent"} ->
                 CascadeComplete(t, "tokens") /\ CascadeComplete(t, "refresh")
          [] txn[t].op = "delete_client" ->
                 \A table \in {"tokens", "refresh", "pushed"} : CascadeComplete(t, table)

\* A client and a subject have at most one consent, however many nodes record one at once and
\* whatever is withdrawn meanwhile: a withdrawal names one consent_id, and a second record would
\* keep answering for the pair (store.rs, `compare_and_swap_consent`).
OneConsentPerPair ==
    \A j, k \in ConsentIds :
        (consents[j] # None /\ consents[k] # None /\ j # k) =>
            <<consents[j].client_id, consents[j].subject>>
                # <<consents[k].client_id, consents[k].subject>>
=============================================================================

------------------------- MODULE StorageConformance -------------------------
(***************************************************************************)
(* `StorageConformance::run` (crates/oauth-as/src/storage_conformance.rs),  *)
(* the harness with which a host tests its own store, run against           *)
(* `MemoryStorage` and against stores with one broken method.  A check is a *)
(* sequence of store calls with the answer each must get; the races among   *)
(* them go through the harness's own gate, latch and racer guard, under the *)
(* host's spawner.                                                          *)
(*                                                                          *)
(* Abstracted: a record's payload (Storage), so a round trip compares what  *)
(* Storage keeps; the wording of a violation, of which the name of the      *)
(* check that reports it is kept.                                           *)
(***************************************************************************)
EXTENDS Storage, Sequences, FiniteSetsExt

CONSTANTS
    Err,                \* StorageError
    Spawners,           \* no spawner ("none") or the host's `with_spawn`: "runtime", "inline",
                        \* "aborting" (a task may end by a panic), "dropping" (one may be discarded)
    GATE_POLL_BUDGET,
    Faults              \* the broken stores tried besides the sound one

N == 3                  \* racers; the harness's default is 8
Racers == 1..N

VARIABLES
    spawner, fault,     \* chosen when the run starts
    check, pc,          \* the check that runs and its next step
    racer, turn,        \* the racing tasks, and the one JoinAll polls next
    gate, latch,
    report, setup       \* violations of the store, and of the harness's own set-up

raceVars == <<racer, turn, gate, latch>>
vars == <<storeVars, spawner, fault, check, pc, raceVars, report, setup>>

-----------------------------------------------------------------------------
(***************************************************************************)
(* Fixtures                                                                 *)
(***************************************************************************)
at(offset) == 1800000000 + offset
at_before(offset) == 1800000000 - offset
barrier_until == at(1000000)
barrier_window == [recorded_at |-> at_before(0), until |-> barrier_until]

Subject == <<"mine", "theirs", "third">>    \* subject-conformance comes first

sample_device_grant(user_code) ==
    [client_id |-> "client", user_code |-> user_code,
     state |-> [status |-> "Approved", subject |-> "mine"], created_at |-> at_before(30),
     expires_at |-> at(600), interval |-> 7, last_poll_at |-> at_before(5)]

pending_grant(user_code) ==
    [sample_device_grant(user_code) EXCEPT !.state = [status |-> "Pending", subject |-> None]]

denied(grant) == [grant EXCEPT !.state = [status |-> "Denied", subject |-> None]]

approved_by(grant, subject) == [grant EXCEPT !.state = [status |-> "Approved", subject |-> subject]]

code_state(status, token) == [status |-> status, access_token |-> token, refresh_token |-> None]

sample_authorization_code ==
    [client_id |-> "client", subject |-> "mine", issued_at |-> at_before(10),
     expires_at |-> at(60), state |-> code_state("Consumed", "a1")]

sample_pushed_request == [client_id |-> "client", pushed_at |-> at_before(10), expires_at |-> at(60)]

sample_token(client_id, family_id) ==
    [client_id |-> client_id, subject |-> "mine", family_id |-> family_id,
     grant_established_at |-> at_before(20), expires_at |-> at(3600)]

sample_refresh(client_id, family_id) ==
    [client_id |-> client_id, subject |-> "mine", family_id |-> family_id,
     grant_established_at |-> at_before(20), expires_at |-> at(86400), state |-> "Spent",
     retry |-> None]

sample_consent(consent_id, subject) ==
    [consent_id |-> consent_id, client_id |-> "client", subject |-> subject,
     scope |-> {"read", "write"}, granted_at |-> at_before(60)]

-----------------------------------------------------------------------------
(***************************************************************************)
(* A store call, what it answers and what it does                           *)
(***************************************************************************)
Call(op, key, arg) == [op |-> op, key |-> key, arg |-> arg]

put(op, key, record) == Call(op, key, record)
get(op, key) == Call(op, key, None)
find_consent(subject) == Call("find_consent", [client_id |-> "client", subject |-> subject], None)
swap(op, key, expected, updated) == Call(op, key, [expected |-> expected, updated |-> updated])

\* Whether a swap, a rotation or a claim applies, and whether a guarded write is refused.
Applies(c) ==
    CASE c.op = "compare_and_swap_client" -> ClientSwaps(c.key, c.arg.expected)
      [] c.op = "compare_and_swap_device_grant" -> DeviceGrantSwaps(c.key, c.arg.expected)
      [] c.op = "compare_and_swap_authorization_code" -> CodeSwaps(c.key, c.arg.expected)
      [] c.op = "compare_and_swap_consent" ->
             c.arg.expected \in FindConsent(c.arg.updated.client_id, c.arg.updated.subject)
      [] c.op = "rotate_refresh_token" -> Rotates(c.key, c.arg.expected)
      [] c.op = "claim_replay_id" -> ReplayIdFree(c.key)
      [] c.op = "put_pushed_authorization_request" -> ~PushRefused(c.arg)
      [] OTHER -> ~Refused(c.arg)

\* The rows a sweep removes and counts: index entries are not among them.
SweptCount(now) ==
    Cardinality(ExpiredKeys(device_by_code, now)) + Cardinality(ExpiredKeys(codes, now))
    + Cardinality(ExpiredKeys(pushed, now)) + Cardinality(ExpiredKeys(tokens, now))
    + Cardinality(ExpiredKeys(refresh, now))
    + Cardinality({i \in ReplayIds : replay_ids[i] # None /\ replay_ids[i] <= now})
    + Cardinality(Reapable(client_barriers, now)) + Cardinality(Reapable(family_barriers, now))
    + Cardinality(Reapable(consent_barriers, now))

\* revoke_consent counts what the consent stood for, and not the consent itself.
WithdrawnCount(consent) ==
    IF consent = None THEN 0
    ELSE LET of(map) == OfConsent(map, consent.client_id, consent.subject)
         IN  Cardinality(of(tokens)) + Cardinality(of(refresh)) + Cardinality(of(codes))
             + Cardinality({d \in OfClient(device_by_code, consent.client_id) :
                   device_by_code[d].state = [status |-> "Approved", subject |-> consent.subject]})

Swaps == {"compare_and_swap_client", "compare_and_swap_device_grant",
          "compare_and_swap_authorization_code", "compare_and_swap_consent",
          "rotate_refresh_token", "claim_replay_id"}
Guarded == {"put_token", "put_refresh_token", "put_pushed_authorization_request"}

\* reject_empty_scope, and a user code that is another grant's.
Rejected(c) ==
    \/ c.op \in {"delete_client", "revoke_token_family"} /\ c.key = ""
    \/ c.op = "put_device_grant" /\ UserCodeTaken(c.key, c.arg)
    \/ c.op = "compare_and_swap_device_grant" /\ Applies(c) /\ UserCodeTaken(c.key, c.arg.updated)

Row(c) ==
    CASE c.op = "get_client" -> clients[c.key]
      [] c.op \in {"get_device_grant", "take_device_grant"} -> device_by_code[c.key]
      [] c.op = "find_device_grant_by_user_code" -> FindByUserCode(c.key)
      [] c.op = "take_authorization_code" -> codes[c.key]
      [] c.op = "take_pushed_authorization_request" -> pushed[c.key]
      [] c.op = "get_token" -> tokens[c.key]
      [] c.op \in {"get_refresh_token", "take_refresh_token"} -> refresh[c.key]
      [] c.op = "get_consent" -> consents[c.key]
      [] c.op = "find_consent" -> CHOOSE r \in FindConsent(c.key.client_id, c.key.subject) : TRUE
      [] c.op = "consents_for_subject" ->
             {k \in ConsentIds : consents[k] # None /\ consents[k].subject = c.key}
      [] c.op = "delete_client" -> clients[c.key] # None
      [] c.op = "revoke_token_family" ->
             Cardinality(OfFamily(tokens, c.key)) + Cardinality(OfFamily(refresh, c.key))
      [] c.op = "revoke_consent" -> WithdrawnCount(consents[c.key])
      [] c.op = "sweep_expired" -> SweptCount(c.key)
      [] OTHER -> "Ok"

\* What the sound store answers in the present state.
Answer(c) ==
    IF Rejected(c) THEN Err
    ELSE IF c.op \in Swaps THEN Applies(c)
    ELSE IF c.op \in Guarded THEN IF Applies(c) THEN "Applied" ELSE "RefusedRevoked"
    ELSE Row(c)

\* What the sound store does: the methods of Storage.
Method(c) ==
    \/ c.op = "put_client" /\ put_client(c.key, c.arg)
    \/ c.op = "compare_and_swap_client"
           /\ compare_and_swap_client(c.key, c.arg.expected, c.arg.updated)
    \/ c.op = "delete_client" /\ delete_client(c.key, c.arg)
    \/ c.op = "put_device_grant" /\ put_device_grant(c.key, c.arg)
    \/ c.op = "take_device_grant" /\ take_device_grant(c.key)
    \/ c.op = "compare_and_swap_device_grant"
           /\ compare_and_swap_device_grant(c.key, c.arg.expected, c.arg.updated)
    \/ c.op = "put_authorization_code" /\ put_authorization_code(c.key, c.arg)
    \/ c.op = "compare_and_swap_authorization_code"
           /\ compare_and_swap_authorization_code(c.key, c.arg.expected, c.arg.updated)
    \/ c.op = "take_authorization_code" /\ take_authorization_code(c.key)
    \/ c.op = "put_pushed_authorization_request" /\ put_pushed_authorization_request(c.key, c.arg)
    \/ c.op = "take_pushed_authorization_request" /\ take_pushed_authorization_request(c.key)
    \/ c.op = "put_token" /\ put_token(c.key, c.arg)
    \/ c.op = "delete_token" /\ delete_token(c.key)
    \/ c.op = "put_refresh_token" /\ put_refresh_token(c.key, c.arg)
    \/ c.op = "take_refresh_token" /\ take_refresh_token(c.key)
    \/ c.op = "rotate_refresh_token"
           /\ rotate_refresh_token(c.key, c.arg.expected, c.arg.spent, c.arg.access_token,
                                   c.arg.access, c.arg.next_token, c.arg.next)
    \/ c.op = "revoke_token_family" /\ revoke_token_family(c.key, c.arg)
    \/ c.op = "put_consent" /\ put_consent(c.key, c.arg)
    \/ c.op = "compare_and_swap_consent"
           /\ \E found \in FindConsent(c.arg.updated.client_id, c.arg.updated.subject) :
                  compare_and_swap_consent(c.key, found, c.arg.expected, c.arg.updated)
    \/ c.op = "revoke_consent" /\ revoke_consent(c.key, c.arg)
    \/ c.op = "claim_replay_id" /\ claim_replay_id(c.key, c.arg)
    \/ c.op = "sweep_expired" /\ sweep_expired(c.key)

Reads == {"get_client", "get_device_grant", "find_device_grant_by_user_code", "get_token",
          "get_refresh_token", "get_consent", "find_consent", "consents_for_subject"}

Effect(c) == IF c.op \in Reads \/ Rejected(c) THEN UNCHANGED storeVars ELSE Method(c)

(***************************************************************************)
(* Broken stores.  "lost": the method answers and writes nothing.           *)
(* "unconditional": the method writes and answers that it did, whatever it  *)
(* finds.  "split": a take, a swap or a claim that reads, suspends and then *)
(* writes what it decided.                                                  *)
(***************************************************************************)
Overwrite(c) ==
    \/ c.op = "put_token" /\ tokens' = [tokens EXCEPT ![c.key] = c.arg]
           /\ UNCHANGED <<clients, deviceMaps, codes, pushed, refresh, consents, replay_ids, barriers>>
    \/ c.op = "put_refresh_token" /\ refresh' = [refresh EXCEPT ![c.key] = c.arg]
           /\ UNCHANGED <<clients, deviceMaps, codes, pushed, tokens, consents, replay_ids, barriers>>
    \/ c.op = "put_pushed_authorization_request" /\ pushed' = [pushed EXCEPT ![c.key] = c.arg]
           /\ UNCHANGED <<clients, deviceMaps, codes, tokenMaps, consents, replay_ids, barriers>>
    \/ c.op = "put_device_grant" /\ IndexAndInsert(c.key, c.arg)
           /\ UNCHANGED <<clients, codes, pushed, tokenMaps, consents, replay_ids, barriers>>
    \/ c.op = "compare_and_swap_device_grant" /\ IndexAndInsert(c.key, c.arg.updated)
           /\ UNCHANGED <<clients, codes, pushed, tokenMaps, consents, replay_ids, barriers>>
    \/ c.op = "compare_and_swap_client" /\ put_client(c.key, c.arg.updated)
    \/ c.op = "compare_and_swap_authorization_code" /\ put_authorization_code(c.key, c.arg.updated)
    \/ c.op = "compare_and_swap_consent" /\ put_consent(c.key, c.arg.updated)
    \/ c.op = "rotate_refresh_token"
           /\ tokens' = [tokens EXCEPT ![c.arg.access_token] = c.arg.access]
           /\ refresh' = [refresh EXCEPT ![c.key] = c.arg.spent, ![c.arg.next_token] = c.arg.next]
           /\ UNCHANGED <<clients, deviceMaps, codes, pushed, consents, replay_ids, barriers>>
    \/ c.op = "claim_replay_id" /\ replay_ids' = [replay_ids EXCEPT ![c.key] = c.arg]
           /\ UNCHANGED <<clients, deviceMaps, codes, pushed, tokenMaps, consents, barriers>>

Broken(c, how) == fault = <<how, c.op>>

StoreAnswer(c) ==
    IF ~Broken(c, "unconditional") THEN Answer(c)
    ELSE IF c.op \in Swaps THEN TRUE ELSE IF c.op \in Guarded THEN "Applied" ELSE "Ok"

StoreEffect(c) ==
    IF Broken(c, "lost") THEN UNCHANGED storeVars
    ELSE IF Broken(c, "unconditional") THEN Overwrite(c) ELSE Effect(c)

-----------------------------------------------------------------------------
(***************************************************************************)
(* Steps of a check                                                         *)
(***************************************************************************)
\* A fresh store; a call that only has to succeed, or the check returns; a call whose answer is
\* judged; one whose answer, when it is another check's to report, ends this part of the check in
\* silence (`skip` steps are left out); a race, and what it has to have left behind.
Store == [do |-> "store"]
Must(c) == [do |-> "must", call |-> c]
Is(c, answer) == [do |-> "judge", call |-> c, want |-> {answer}, holds |-> TRUE]
Finds(c) == [do |-> "judge", call |-> c, want |-> {None}, holds |-> FALSE]
IsIfThere(c, answer) == [do |-> "judge", call |-> c, want |-> {answer, None}, holds |-> TRUE]
OrSkip(judged, skip) ==
    [do |-> "assume", call |-> judged.call, want |-> judged.want, holds |-> judged.holds, skip |-> skip]
Misses(c) == Is(c, None)
Race(calls, verdict) == [do |-> "race", calls |-> calls, verdict |-> verdict]

Applied(op, key, record) == Is(put(op, key, record), "Applied")
RefusedBy(op, key, record) == Is(put(op, key, record), "RefusedRevoked")

AllRace(c) == Race([i \in Racers |-> c], "one_winner")

-----------------------------------------------------------------------------
(***************************************************************************)
(* The checks, in the order of the source.  Identifiers are reused from     *)
(* check to check, since each starts from a fresh store.                    *)
(***************************************************************************)
check_claim_replay_id ==
    <<Store, AllRace(put("claim_replay_id", "j1", at(300))),
      Store,
      Is(put("claim_replay_id", "j1", at(300)), TRUE),
      Is(put("claim_replay_id", "j1", at(300)), FALSE),
      Is(put("claim_replay_id", "j2", at(300)), TRUE),
      Store, Must(put("claim_replay_id", "j1", at(0))), Is(get("sweep_expired", at(0)), 1)>>

GrantAt(record, instant) == [record EXCEPT !.grant_established_at = instant]

\* The barrier refuses what was granted before it or while the client is gone, spares another
\* client, and admits what is granted once the client is provisioned again.
pushed_by(client_id) == [sample_pushed_request EXCEPT !.client_id = client_id, !.pushed_at = at(60)]

barrier_refuses_pushes ==
    <<Store,
      Must(put("put_client", "doomed", "original")),
      Must(put("delete_client", "doomed", barrier_window)),
      RefusedBy("put_pushed_authorization_request", "u2", pushed_by("doomed"))>>

barrier_admits_a_later_grant ==
    LET doomed == sample_token("doomed", None)
    IN  <<Store,
          Must(put("put_client", "doomed", "original")),
          Must(put("delete_client", "doomed", barrier_window)),
          RefusedBy("put_token", "a1", GrantAt(doomed, at_before(60))),
          RefusedBy("put_token", "a2", GrantAt(doomed, at(60))),
          Applied("put_token", "a3", GrantAt(sample_token("bystander", None), at_before(60))),
          Must(put("put_client", "doomed", "original")),
          Applied("put_token", "a4", GrantAt(doomed, at(60))),
          Applied("put_pushed_authorization_request", "u1", pushed_by("doomed"))>>
        \o barrier_refuses_pushes

\* A family barrier refuses whatever the instant; a client that never existed gets a barrier too;
\* a barrier stands until its deadline and is reclaimed then.
barrier_lasts_until_its_deadline ==
    <<Must(get("sweep_expired", barrier_until - 1)),
      RefusedBy("put_refresh_token", "r2", sample_refresh("client", "fa")),
      [Is(get("sweep_expired", barrier_until), 0) EXCEPT !.holds = FALSE]>>

revocation_barrier ==
    <<Store,
      Must(put("revoke_token_family", "fa", barrier_window)),
      RefusedBy("put_token", "a1", sample_token("client", "fa")),
      RefusedBy("put_token", "a2", GrantAt(sample_token("client", "fa"), at(60))),
      RefusedBy("put_refresh_token", "r1", sample_refresh("client", "fa")),
      Applied("put_token", "a3", sample_token("client", "fb")),
      Must(put("delete_client", "doomed", barrier_window)),
      RefusedBy("put_token", "a4", sample_token("doomed", None))>>
    \o barrier_lasts_until_its_deadline

barrier_repeat_revocation_moves_it ==
    LET later == [recorded_at |-> at(100), until |-> barrier_until]
        earlier == [recorded_at |-> at_before(0), until |-> at(200)]
        doomed == sample_token("doomed", None)
    IN  <<Store,
          Must(put("put_client", "doomed", "original")),
          Must(put("delete_client", "doomed", later)),
          Must(put("delete_client", "doomed", earlier)),
          Must(put("put_client", "doomed", "original")),
          RefusedBy("put_token", "a1", GrantAt(doomed, at(50))),
          Must(put("put_token", "a2", [sample_token("bystander", None) EXCEPT !.expires_at = at_before(1)])),
          Must(get("sweep_expired", at(300))),
          RefusedBy("put_token", "a3", GrantAt(doomed, at_before(60)))>>

revocation_refuses_an_empty_scope ==
    <<Store,
      Must(put("put_token", "a1", sample_token("client", "fa"))),
      Is(put("delete_client", "", barrier_window), Err),
      Is(put("revoke_token_family", "", barrier_window), Err),
      Finds(get("get_token", "a1"))>>

check_compare_and_swap_client ==
    LET swaps(expected, updated) == swap("compare_and_swap_client", "client", expected, updated)
    IN  <<Store,
          Must(put("put_client", "client", "original")),
          Finds(get("get_client", "client")),
          Is(swaps("original", "renamed"), TRUE),
          Is(swaps("original", "clobber"), FALSE),
          Is(get("get_client", "client"), "renamed"),
          Must(put("delete_client", "client", barrier_window)),
          Is(swaps("renamed", "renamed"), FALSE),
          Misses(get("get_client", "client"))>>

check_compare_and_swap_authorization_code ==
    LET issued == sample_authorization_code
        consumed == [issued EXCEPT !.state = code_state("Consumed", "a2")]
        replayed == [issued EXCEPT !.state = code_state("Replayed", "a2")]
        swaps(expected) == swap("compare_and_swap_authorization_code", "x1", expected, consumed)
    IN  <<Store,
          Must(put("put_authorization_code", "x1", issued)),
          Finds(get("take_authorization_code", "x1")),
          Must(put("put_authorization_code", "x1", issued)),
          Is(swaps(issued.state), TRUE),
          Must(put("put_authorization_code", "x1", replayed)),
          Is(swaps(consumed.state), FALSE),
          Must(get("take_authorization_code", "x1")),
          Is(swaps(consumed.state), FALSE),
          Misses(get("take_authorization_code", "x1"))>>

check_compare_and_swap_consent ==
    LET original == sample_consent("k1", "mine")
        widened == [original EXCEPT !.scope = {"read", "write", "admin"}]
        widened_again == [widened EXCEPT !.granted_at = at(1)]
        duplicate == sample_consent("k2", "mine")
        swaps(expected, updated) ==
            swap("compare_and_swap_consent", updated.consent_id, expected, updated)
        find == find_consent("mine")
    IN  <<Store,
          Is(swaps(None, original), TRUE),
          Finds(find),
          Is(swaps(original, widened), TRUE),
          Is(find, widened),
          Is(swaps(None, duplicate), FALSE),
          Must(put("revoke_consent", "k1", barrier_window)),
          Is(swaps(widened, widened_again), FALSE),
          Misses(find)>>

SwapRace(calls) == Race(calls, "one_winner")

compare_and_swap_device_grant_race ==
    LET pending == pending_grant("AAAA")
    IN  <<Store, Must(put("put_device_grant", "d1", pending)),
          SwapRace([i \in Racers |-> swap("compare_and_swap_device_grant", "d1", pending.state,
                                          approved_by(pending, Subject[i]))])>>

Renamed == <<"renamed", "clobber", "third">>

compare_and_swap_client_race ==
    <<Store, Must(put("put_client", "client", "original")), Finds(get("get_client", "client")),
      SwapRace([i \in Racers |->
                    swap("compare_and_swap_client", "client", "original", Renamed[i])])>>

RacerToken == <<"a1", "a2", "a3">>

compare_and_swap_authorization_code_race ==
    LET issued == sample_authorization_code
    IN  <<Store, Must(put("put_authorization_code", "x1", issued)),
          Finds(get("take_authorization_code", "x1")),
          Must(put("put_authorization_code", "x1", issued)),
          SwapRace([i \in Racers |->
                        swap("compare_and_swap_authorization_code", "x1", issued.state,
                             [issued EXCEPT !.state = code_state("Replayed", RacerToken[i])])])>>

compare_and_swap_consent_race ==
    LET original == sample_consent("k1", "mine")
    IN  <<Store, Must(swap("compare_and_swap_consent", "k1", None, original)),
          Finds(find_consent("mine")),
          SwapRace([i \in Racers |-> swap("compare_and_swap_consent", "k1", original,
                                          [original EXCEPT !.granted_at = at(i - 1)])])>>

\* A put replaces, and what is read back is what was put.
round_trip_client ==
    <<Store, Must(put("put_client", "client", "clobber")), Must(put("put_client", "client", "original")),
      Is(get("get_client", "client"), "original")>>

\* (The code drops the last report when the index was already dirty before the swap.)
check_compare_and_swap_device_grant ==
    LET pending == pending_grant("AAAA")
        swaps(expected, grant) == swap("compare_and_swap_device_grant", "d1", expected.state, grant)
    IN  <<Store,
          Must(put("put_device_grant", "d1", pending)),
          Is(swaps(pending, denied(pending)), TRUE),
          Is(get("get_device_grant", "d1"), denied(pending)),
          Is(swaps(pending, pending), FALSE),
          Is(get("get_device_grant", "d1"), denied(pending)),
          Must(get("take_device_grant", "d1")),
          Is(swaps(denied(pending), denied(pending)), FALSE),
          Misses(get("get_device_grant", "d1")),
          Misses(get("find_device_grant_by_user_code", "AAAA"))>>

swaps_pending(key, grant) ==
    swap("compare_and_swap_device_grant", key, pending_grant("AAAA").state, grant)

swap_refuses_duplicate_user_code ==
    LET pending == pending_grant("AAAA")
        second == pending_grant("BBBB")
    IN  <<Store,
          Must(put("put_device_grant", "d1", pending)),
          Must(put("put_device_grant", "d2", second)),
          Is(swaps_pending("d2", denied(pending)), Err),
          Is(get("find_device_grant_by_user_code", "AAAA"), "d1"),
          Is(get("get_device_grant", "d2"), second)>>

compare_and_swap_device_grant_user_code_index ==
    LET recoded == denied(pending_grant("BBBB"))
    IN  <<Store,
          Must(put("put_device_grant", "d1", pending_grant("AAAA"))),
          OrSkip(Is(swaps_pending("d1", recoded), TRUE), 3),
          IsIfThere(get("get_device_grant", "d1"), recoded),
          Finds(get("find_device_grant_by_user_code", "BBBB")),
          Misses(get("find_device_grant_by_user_code", "AAAA"))>>
        \o swap_refuses_duplicate_user_code

round_trip_device_grant ==
    <<Store, Must(put("put_device_grant", "d1", sample_device_grant("AAAA"))),
      Is(get("get_device_grant", "d1"), sample_device_grant("AAAA")),
      Is(get("find_device_grant_by_user_code", "AAAA"), "d1")>>

round_trip_authorization_code ==
    <<Store, Must(put("put_authorization_code", "x1", sample_authorization_code)),
      Is(get("take_authorization_code", "x1"), sample_authorization_code)>>

\* Reading a token twice: a read does not consume.
round_trip_token ==
    <<Store, Must(put("put_token", "a1", sample_token("client", "fa"))),
      Is(get("get_token", "a1"), sample_token("client", "fa")), Finds(get("get_token", "a1"))>>

round_trip_refresh_token ==
    <<Store, Must(put("put_refresh_token", "r1", sample_refresh("client", "fa"))),
      Is(get("get_refresh_token", "r1"), sample_refresh("client", "fa")),
      Finds(get("get_refresh_token", "r1"))>>

atomic_take_device_grant ==
    <<Store, Must(put("put_device_grant", "d1", sample_device_grant("AAAA"))),
      AllRace(get("take_device_grant", "d1")), Misses(get("get_device_grant", "d1"))>>

atomic_take_refresh_token ==
    <<Store, Must(put("put_refresh_token", "r1", sample_refresh("client", "fa"))),
      AllRace(get("take_refresh_token", "r1")), Misses(get("get_refresh_token", "r1"))>>

RacerNext == <<"r2", "r3", "r4">>

\* One rotation wins and only the winner's tokens are written; a stale rotation writes nothing.
atomic_rotate_refresh_token ==
    LET seed == [sample_refresh("client", "fa") EXCEPT !.state = "Active"]
        rotation(access_token, next_token) ==
            Call("rotate_refresh_token", "r1",
                 [expected |-> seed, spent |-> sample_refresh("client", "fa"),
                  access_token |-> access_token, access |-> sample_token("client", "fa"),
                  next_token |-> next_token, next |-> sample_refresh("client", "fa")])
    IN  <<Store, Must(put("put_refresh_token", "r1", seed)),
          OrSkip(Finds(get("get_refresh_token", "r1")), 4),
          Race([i \in Racers |-> rotation(RacerToken[i], RacerNext[i])], "rotation"),
          Is(rotation("a4", "r5"), FALSE),
          Misses(get("get_token", "a4")), Misses(get("get_refresh_token", "r5"))>>

atomic_take_authorization_code ==
    <<Store, Must(put("put_authorization_code", "x1", sample_authorization_code)),
      AllRace(get("take_authorization_code", "x1")), Misses(get("take_authorization_code", "x1"))>>

round_trip_pushed_request ==
    <<Store, Must(put("put_pushed_authorization_request", "u1",
                      [sample_pushed_request EXCEPT !.expires_at = at(61)])),
      Must(put("put_pushed_authorization_request", "u1", sample_pushed_request)),
      Is(get("take_pushed_authorization_request", "u1"), sample_pushed_request)>>

atomic_take_pushed_request ==
    <<Store, Must(put("put_pushed_authorization_request", "u1", sample_pushed_request)),
      AllRace(get("take_pushed_authorization_request", "u1")),
      Misses(get("take_pushed_authorization_request", "u1"))>>

\* What one subject's grant has left in the store.
SeedGrant(subject, token, refresh_token, code, device_code, user_code) ==
    <<Must(put("put_token", token, [sample_token("client", "fa") EXCEPT !.subject = subject])),
      Must(put("put_refresh_token", refresh_token,
               [sample_refresh("client", "fa") EXCEPT !.subject = subject])),
      Must(put("put_authorization_code", code,
               [sample_authorization_code EXCEPT !.subject = subject])),
      Must(put("put_device_grant", device_code,
               approved_by(sample_device_grant(user_code), subject)))>>

\* A withdrawal reaches all of the pair's grant, spares another subject and a grant nobody has
\* approved, refuses what comes later, and is idempotent.
round_trip_consent ==
    LET mine == sample_consent("k1", "mine")
    IN  <<Must(put("put_consent", "k1", [mine EXCEPT !.scope = {"read"}])),
          Must(put("put_consent", "k1", mine)),
          Must(put("put_consent", "k2", sample_consent("k2", "theirs"))),
          Is(get("get_consent", "k1"), mine),
          Is(find_consent("mine"), mine),
          Is(get("consents_for_subject", "mine"), {"k1"})>>

revoke_consent_cascades ==
    <<Must(put("put_device_grant", "d3", pending_grant("CCCC"))),
      Is(put("revoke_consent", "k1", barrier_window), 4),
      Misses(get("get_token", "a1")), Misses(get("get_refresh_token", "r1")),
      Misses(get("take_authorization_code", "x1")), Misses(get("get_device_grant", "d1")),
      Misses(get("find_device_grant_by_user_code", "AAAA")), Misses(get("get_consent", "k1"))>>

revoke_consent_spares_others ==
    <<Finds(get("get_token", "a2")), Finds(get("get_refresh_token", "r2")),
      Finds(get("get_device_grant", "d2")),
      Finds(get("find_device_grant_by_user_code", "BBBB")),
      Finds(get("take_authorization_code", "x2")), Finds(get("get_device_grant", "d3")),
      Finds(get("get_consent", "k2"))>>

revoke_consent_leaves_a_barrier ==
    <<RefusedBy("put_token", "a3", sample_token("client", "fb")),
      RefusedBy("put_refresh_token", "r3", sample_refresh("client", "fb")),
      Applied("put_token", "a4", [sample_token("client", "fb") EXCEPT !.subject = "theirs"]),
      Is(get("consents_for_subject", "mine"), {}),
      Is(put("revoke_consent", "k1", barrier_window), 0)>>

check_consent ==
    <<Store>>
    \o round_trip_consent
    \o SeedGrant("mine", "a1", "r1", "x1", "d1", "AAAA")
    \o SeedGrant("theirs", "a2", "r2", "x2", "d2", "BBBB")
    \o revoke_consent_cascades
    \o revoke_consent_spares_others
    \o revoke_consent_leaves_a_barrier

index_refuses_duplicate ==
    <<Store,
      Must(put("put_device_grant", "d1", sample_device_grant("CCCC"))),
      Is(put("put_device_grant", "d2", sample_device_grant("CCCC")), Err),
      Is(get("find_device_grant_by_user_code", "CCCC"), "d1"),
      Misses(get("get_device_grant", "d2"))>>

check_user_code_index ==
    <<Store,
      Must(put("put_device_grant", "d1", sample_device_grant("AAAA"))),
      Must(put("put_device_grant", "d1", sample_device_grant("BBBB"))),
      Finds(get("find_device_grant_by_user_code", "BBBB")),
      Misses(get("find_device_grant_by_user_code", "AAAA")),
      Must(get("take_device_grant", "d1")),
      Misses(get("find_device_grant_by_user_code", "BBBB"))>>
    \o index_refuses_duplicate

\* A record is dead at its own deadline; a refresh record without one never is.
sweep_removes_dead ==
    <<Misses(get("get_device_grant", "d1")),
      Misses(get("find_device_grant_by_user_code", "AAAA")),
      Misses(get("take_authorization_code", "x1")), Misses(get("get_token", "a1")),
      Misses(get("get_refresh_token", "r1")),
      Misses(get("take_pushed_authorization_request", "u1"))>>

sweep_keeps_live ==
    <<Finds(get("get_device_grant", "d2")), Finds(get("get_token", "a2")),
      Finds(get("get_refresh_token", "r2")), Finds(get("get_refresh_token", "r3")),
      Finds(get("take_authorization_code", "x2")),
      Finds(get("take_pushed_authorization_request", "u2"))>>

check_sweep ==
    LET until(record, instant) == [record EXCEPT !.expires_at = instant]
        refresh_until(instant) == until(sample_refresh("client", "fa"), instant)
    IN  <<Store,
          Must(put("put_device_grant", "d1", until(sample_device_grant("AAAA"), at(0)))),
          Must(put("put_device_grant", "d2", until(sample_device_grant("BBBB"), at(600)))),
          Must(put("put_authorization_code", "x1",
                   [until(sample_authorization_code, at_before(1)) EXCEPT
                        !.state = code_state("Issued", None)])),
          Must(put("put_authorization_code", "x2", until(sample_authorization_code, at(600)))),
          Must(put("put_token", "a1", until(sample_token("client", "fa"), at_before(1)))),
          Must(put("put_token", "a2", until(sample_token("client", "fa"), at(600)))),
          Must(put("put_refresh_token", "r1", refresh_until(at(0)))),
          Must(put("put_refresh_token", "r2", refresh_until(at(600)))),
          Must(put("put_refresh_token", "r3", refresh_until(None))),
          Must(put("put_pushed_authorization_request", "u1", until(sample_pushed_request, at(0)))),
          Must(put("put_pushed_authorization_request", "u2", until(sample_pushed_request, at(600)))),
          Is(get("sweep_expired", at(0)), 5)>>
        \o sweep_removes_dead
        \o sweep_keeps_live
        \o <<Store, Is(get("sweep_expired", at(0)), 0)>>

\* The first racer sweeps, the others write; nothing that was answered Applied may be lost.
sweep_under_concurrent_writes ==
    <<Store>> \o [i \in Racers |-> Must(put("put_token", RacerToken[i],
                     [sample_token("client", None) EXCEPT !.expires_at = at(600)]))]
    \o <<Race([i \in Racers |->
                  IF i = 1 THEN get("sweep_expired", at(0))
                  ELSE put("put_token", <<"a4", "a5", "a6">>[i],
                           [sample_token("client", None) EXCEPT !.expires_at = at(600)])],
              "sweep")>>

check_revoke_family ==
    LET token(key, family_id) == Must(put("put_token", key, sample_token("client", family_id)))
        record(key, family_id) == Must(put("put_refresh_token", key, sample_refresh("client", family_id)))
    IN  <<Store, token("a1", "fa"), token("a2", "fa"), token("a3", "fb"), token("a4", None),
          record("r1", "fa"), record("r2", "fa"), record("r3", "fb"),
          Is(put("revoke_token_family", "fa", barrier_window), 4),
          Misses(get("get_token", "a1")), Misses(get("get_token", "a2")),
          Misses(get("get_refresh_token", "r1")), Misses(get("get_refresh_token", "r2")),
          Finds(get("get_token", "a3")), Finds(get("get_refresh_token", "r3")),
          Finds(get("get_token", "a4")),
          Is(put("revoke_token_family", "fa", barrier_window), 0)>>

\* Everything a client can own.
SeedClient(client_id, device_code, user_code, code, unredeemed, token, refresh_token, uri, consent_id) ==
    LET owned(record) == [record EXCEPT !.client_id = client_id]
        issued == [sample_authorization_code EXCEPT !.state = code_state("Issued", None)]
    IN  <<Must(put("put_client", client_id, "original")),
          Must(put("put_device_grant", device_code, owned(sample_device_grant(user_code)))),
          Must(put("put_authorization_code", code, owned(sample_authorization_code))),
          Must(put("put_authorization_code", unredeemed, owned(issued))),
          Must(put("put_token", token, sample_token(client_id, "fa"))),
          Must(put("put_refresh_token", refresh_token, sample_refresh(client_id, "fa"))),
          Must(put("put_pushed_authorization_request", uri, owned(sample_pushed_request))),
          Must(put("put_consent", consent_id, owned(sample_consent(consent_id, "mine"))))>>

delete_client_cascades ==
    <<Is(put("delete_client", "doomed", barrier_window), TRUE),
      Misses(get("get_client", "doomed")), Misses(get("get_token", "a1")),
      Misses(get("get_refresh_token", "r1")), Misses(get("take_authorization_code", "x1")),
      Misses(get("take_authorization_code", "x2")), Misses(get("get_device_grant", "d1")),
      Misses(get("find_device_grant_by_user_code", "AAAA")),
      Misses(get("take_pushed_authorization_request", "u1")), Misses(get("get_consent", "k1")),
      RefusedBy("put_pushed_authorization_request", "u1",
                [sample_pushed_request EXCEPT !.client_id = "doomed"])>>

delete_client_spares_others ==
    <<Finds(get("get_client", "bystander")), Finds(get("get_token", "a2")),
      Finds(get("get_refresh_token", "r2")), Finds(get("get_device_grant", "d2")),
      Finds(get("find_device_grant_by_user_code", "BBBB")),
      Finds(get("take_authorization_code", "x3")), Finds(get("take_authorization_code", "x4")),
      Finds(get("take_pushed_authorization_request", "u2")),
      Applied("put_pushed_authorization_request", "u2",
              [sample_pushed_request EXCEPT !.client_id = "bystander"]),
      Finds(get("get_consent", "k2"))>>

check_delete_client ==
    <<Store>>
    \o SeedClient("doomed", "d1", "AAAA", "x1", "x2", "a1", "r1", "u1", "k1")
    \o SeedClient("bystander", "d2", "BBBB", "x3", "x4", "a2", "r2", "u2", "k2")
    \o delete_client_cascades
    \o delete_client_spares_others
    \o <<Is(put("delete_client", "doomed", barrier_window), FALSE)>>

\* Mutant of check_delete_token: the deleted token is not read back.
delete_token_unread ==
    <<Store, Must(put("put_token", "a1", sample_token("client", None))),
      Must(get("delete_token", "a1")), Must(get("delete_token", "a1")), Must(get("delete_token", "a2"))>>

check_delete_token ==
    <<Store, Must(put("put_token", "a1", sample_token("client", None))),
      Must(get("delete_token", "a1")), Misses(get("get_token", "a1")),
      Must(get("delete_token", "a1")), Must(get("delete_token", "a2"))>>

\* StorageConformance::run.
run ==
    <<round_trip_client, round_trip_device_grant, round_trip_authorization_code, round_trip_token,
      round_trip_refresh_token, atomic_take_device_grant, check_compare_and_swap_device_grant,
      compare_and_swap_device_grant_user_code_index, atomic_take_refresh_token,
      atomic_rotate_refresh_token, atomic_take_authorization_code, check_user_code_index,
      check_sweep, check_revoke_family, check_delete_client, check_delete_token,
      check_claim_replay_id, round_trip_pushed_request, atomic_take_pushed_request, check_consent,
      revocation_barrier, barrier_admits_a_later_grant, check_compare_and_swap_client,
      check_compare_and_swap_authorization_code, check_compare_and_swap_consent,
      compare_and_swap_device_grant_race, compare_and_swap_client_race,
      compare_and_swap_authorization_code_race, compare_and_swap_consent_race,
      sweep_under_concurrent_writes, revocation_refuses_an_empty_scope,
      barrier_repeat_revocation_moves_it>>

-----------------------------------------------------------------------------
(***************************************************************************)
(* A race.  A racer is spawned ("new"), waits at the gate, calls the store  *)
(* (a split take suspends in the call), pushes its answer ("pushed") and    *)
(* drops its guard, which releases the latch.  In the cooperative mode      *)
(* there is no guard and no latch: JoinAll polls the racers in turn.        *)
(***************************************************************************)
NewRacer == [at |-> "new", counted |-> FALSE, budget |-> GATE_POLL_BUDGET, answer |-> None,
             early |-> FALSE]
NoGate == [arrived |-> 0, open |-> FALSE, unsatisfied |-> FALSE]
NoLatch == [remaining |-> N, waker |-> FALSE, waiter |-> "check", abandoned |-> 0]

NewRacers == [i \in Racers |-> NewRacer]

Init ==
    /\ StoreInit
    /\ racer = NewRacers /\ turn = 1 /\ gate = NoGate /\ latch = NoLatch
    /\ spawner \in Spawners
    /\ fault \in {None} \cup IF spawner = "none" THEN Faults ELSE {}
    /\ check = 1 /\ pc = 1 /\ report = {} /\ setup = {}

Step == run[check][pc]
Finished == check > Len(run)
Racing == ~Finished /\ Step.do = "race"

\* To the next step of the check, or past it.
GoTo(next) ==
    IF next <= Len(run[check]) THEN pc' = next /\ check' = check ELSE pc' = 1 /\ check' = check + 1

\* `self.store()`: an empty store.
NewStore ==
    /\ clients' = Empty(ClientIds) /\ device_by_code' = Empty(DeviceCodes)
    /\ user_code_index' = Empty(UserCodes) /\ codes' = Empty(AuthCodes)
    /\ pushed' = Empty(RequestUris) /\ tokens' = Empty(AccessTokens)
    /\ refresh' = Empty(RefreshTokens) /\ consents' = Empty(ConsentIds)
    /\ replay_ids' = Empty(ReplayIds) /\ client_barriers' = Empty(ClientIds)
    /\ family_barriers' = Empty(FamilyIds) /\ consent_barriers' = Empty(ClientIds \X Subjects)

\* One step of a check that is not a race.
Advance ==
    /\ ~Finished /\ Step.do # "race"
    /\ IF Step.do = "store"
       THEN NewStore /\ GoTo(pc + 1) /\ UNCHANGED report
       ELSE LET answer == StoreAnswer(Step.call)
                amiss == Step.do # "must" /\ (answer \in Step.want) # Step.holds
                failed == Step.do # "judge" /\ answer = Err
            IN  /\ StoreEffect(Step.call)
                /\ report' = IF failed \/ (Step.do = "judge" /\ amiss) THEN report \cup {check} ELSE report
                /\ IF failed THEN GoTo(Len(run[check]) + 1)
                   ELSE IF Step.do = "assume" /\ amiss THEN GoTo(pc + 1 + Step.skip)
                   ELSE GoTo(pc + 1)
    /\ UNCHANGED <<spawner, fault, raceVars, setup>>

Ended(i) == racer[i].at \in {"done", "gone"}

\* Whom the host's executor may poll now.
Polled(i) ==
    /\ Racing
    /\ CASE spawner = "none" -> i = turn
         [] spawner = "inline" -> \A j \in Racers : j < i => Ended(j)
         [] OTHER -> TRUE

\* JoinAll goes on to the next future when this one is pending or done.  The racers of one race
\* take the same number of polls after the gate, so it never comes back to one that is done.
NextTurn(i) == IF spawner = "none" THEN (i % N) + 1 ELSE turn

At(i, place) == [racer EXCEPT ![i].at = place]

\* Mutant of GateOpens: an off-by-one in the count.
gate_opens_one_early(arrived) == arrived + 2 >= N

GateOpens(arrived) == arrived + 1 >= N

\* GateWait::poll.  It wakes itself, so a waiting racer is always polled again.
PollGate(i) ==
    /\ Polled(i) /\ racer[i].at \in {"new", "gate"}
    /\ LET r == racer[i]
           opens == ~r.counted /\ GateOpens(gate.arrived)
           gives_up == ~opens /\ ~gate.open /\ r.budget = 0
           ready == opens \/ gate.open \/ gives_up
       IN  /\ gate' = [arrived |-> gate.arrived + IF r.counted THEN 0 ELSE 1,
                       open |-> gate.open \/ opens,
                       unsatisfied |-> gate.unsatisfied \/ gives_up]
           /\ racer' = [racer EXCEPT ![i] =
                            [r EXCEPT !.at = IF ready THEN "call" ELSE "gate", !.counted = TRUE,
                                      !.budget = IF ready THEN @ ELSE @ - 1]]
           /\ turn' = IF ready THEN turn ELSE NextTurn(i)
    /\ UNCHANGED <<storeVars, spawner, fault, check, pc, latch, report, setup>>

\* A racer's answer: None for a swap or a claim that did not apply.
RacerAnswer(c) == IF c.op \in Swaps /\ StoreAnswer(c) = FALSE THEN None ELSE StoreAnswer(c)

\* The racer's call on the store, in the poll in which the gate let it through.
CallStore(i) ==
    /\ Polled(i) /\ racer[i].at = "call"
    /\ LET c == Step.calls[i]
           split == Broken(c, "split")
       IN  /\ IF split THEN UNCHANGED storeVars ELSE StoreEffect(c)
           /\ racer' = [racer EXCEPT ![i] =
                            [@ EXCEPT !.answer = RacerAnswer(c), !.early = gate.arrived < N,
                                      !.at = IF split THEN "split"
                                             ELSE IF spawner = "none" THEN "done" ELSE "pushed"]]
    /\ turn' = NextTurn(i)
    /\ UNCHANGED <<spawner, fault, check, pc, gate, latch, report, setup>>

\* The second half of a split call: a take removes what is there by now, a swap or a claim that
\* has decided to write writes.
FinishSplit(i) ==
    /\ Polled(i) /\ racer[i].at = "split"
    /\ IF Step.calls[i].op \notin Swaps THEN Effect(Step.calls[i])
       ELSE IF racer[i].answer = None THEN UNCHANGED storeVars ELSE Overwrite(Step.calls[i])
    /\ racer' = At(i, IF spawner = "none" THEN "done" ELSE "pushed")
    /\ turn' = NextTurn(i)
    /\ UNCHANGED <<spawner, fault, check, pc, gate, latch, report, setup>>

\* RacerGuard::drop and Latch::done: the count first, then, by the last one, the wake.
DropGuard(i) ==
    /\ Polled(i) /\ racer[i].at \in {"pushed", "unwinding"}
    /\ latch' = [latch EXCEPT !.remaining = @ - 1,
                              !.abandoned = @ + IF racer[i].at = "pushed" THEN 0 ELSE 1]
    /\ racer' = At(i, IF latch.remaining = 1 THEN "waking" ELSE "gone")
    /\ UNCHANGED <<storeVars, spawner, fault, check, pc, turn, gate, report, setup>>

Wake(i) ==
    /\ Racing /\ racer[i].at = "waking"
    /\ latch' = [latch EXCEPT !.waker = FALSE, !.waiter = IF latch.waker THEN "check" ELSE @]
    /\ racer' = At(i, "gone")
    /\ UNCHANGED <<storeVars, spawner, fault, check, pc, turn, gate, report, setup>>

\* A task that ends early: its store call panics, or the spawner drops it.  The guard is a local
\* of the task: a task that was never polled has none, and releases nothing.  (Bound: only in the
\* first race of the run.)
DropTask(i) ==
    /\ Racing /\ racer[i].at \in {"new", "gate", "call"}
    /\ \A k \in 1..(check - 1), s \in 1..4 : s \in DOMAIN run[k] => run[k][s].do # "race"
    /\ spawner \in {"aborting", "dropping"} /\ (racer[i].at = "new" => spawner = "dropping")
    /\ racer' = At(i, IF racer[i].at = "new" THEN "gone" ELSE "unwinding")
    /\ UNCHANGED <<storeVars, spawner, fault, check, pc, turn, gate, latch, report, setup>>

\* Mutant of AfterRegister: no second look at the count once the waker is registered.
park_at_once == "parked"

AfterRegister == IF latch.remaining = 0 THEN "ready" ELSE "parked"

\* LatchWait::poll: look, register the waker, look again, park.
Wait ==
    /\ Racing /\ spawner # "none" /\ latch.waiter \in {"check", "register", "recheck"}
    /\ spawner = "inline" => \A i \in Racers : Ended(i)
    /\ latch' =
           CASE latch.waiter = "check" ->
                    [latch EXCEPT !.waiter = IF latch.remaining = 0 THEN "ready" ELSE "register"]
             [] latch.waiter = "register" -> [latch EXCEPT !.waker = TRUE, !.waiter = "recheck"]
             [] OTHER -> [latch EXCEPT !.waiter = AfterRegister]
    /\ UNCHANGED <<storeVars, spawner, fault, check, pc, racer, turn, gate, report, setup>>

\* An answer is collected before the guard drops; the last guard's wake may still be to come.
Winners == {i \in Racers : (Ended(i) \/ racer[i].at = "waking") /\ racer[i].answer \notin {None, Err}}
Errors == {i \in Racers : racer[i].answer = Err}

\* judge_race, judge_swap_race, and what the rotation and sweep checks read back.
Judged ==
    CASE Step.verdict = "one_winner" -> Cardinality(Winners) = 1 /\ Errors = {}
      [] Step.verdict = "rotation" ->
             /\ Cardinality(Winners) = 1 /\ Errors = {}
             /\ Cardinality({i \in Racers : tokens[RacerToken[i]] # None}) = 1
             /\ Cardinality({i \in Racers : refresh[RacerNext[i]] # None}) = 1
      [] Step.verdict = "sweep" ->
             /\ Errors = {} /\ racer[1].answer = 0
             /\ \A i \in Racers : tokens[RacerToken[i]] # None
             /\ \A i \in Racers \ {1} :
                    racer[i].answer = "Applied" => tokens[Step.calls[i].key] # None

\* race_setup_verdict, and the verdict on the answers.
EndRace ==
    /\ Racing
    /\ IF spawner = "none" THEN \A i \in Racers : Ended(i) ELSE latch.waiter = "ready"
    /\ report' = IF Judged THEN report ELSE report \cup {check}
    /\ setup' = setup \cup (IF latch.abandoned > 0 THEN {"racer_panicked"} ELSE {})
                     \cup (IF gate.unsatisfied THEN {"race_setup"} ELSE {})
    /\ racer' = NewRacers /\ turn' = 1 /\ gate' = NoGate /\ latch' = NoLatch
    /\ GoTo(pc + 1)
    /\ UNCHANGED <<storeVars, spawner, fault>>

Racer(i) ==
    \/ PollGate(i) \/ CallStore(i) \/ FinishSplit(i) \/ DropGuard(i) \/ Wake(i) \/ DropTask(i)

\* The harness has returned.
Returned == Finished /\ UNCHANGED vars

Next == Advance \/ EndRace \/ Wait \/ (\E i \in Racers : Racer(i)) \/ Returned

\* The harness runs on, and the host's executor polls every task it holds that can go on.
Fairness ==
    /\ WF_vars(Advance) /\ WF_vars(EndRace) /\ WF_vars(Wait)
    /\ \A i \in Racers : WF_vars(PollGate(i) \/ CallStore(i) \/ FinishSplit(i)
                                 \/ DropGuard(i) \/ Wake(i))

Spec == Init /\ [][Next]_vars /\ Fairness

-----------------------------------------------------------------------------
(***************************************************************************)
(* What a host relies on                                                    *)
(***************************************************************************)
\* The harness never accuses the reference store: under every spawner and in every order in
\* which its racers reach the store, `MemoryStorage` passes all checks of
\* `StorageConformance::run`, unless the run itself says that a racer never finished.
NoFalseAlarm == fault = None /\ "racer_panicked" \notin setup => report = {}

\* A store in which one method is broken is reported by the time the cooperative run ends: a method
\* that loses its write, a guarded write, a swap, a rotation or a claim that ignores its condition,
\* and a take, a swap, a rotation or a claim made in two steps, which only a race through the gate
\* shows (what the module documentation of storage_conformance.rs claims for that mode).
EveryFaultReported == Finished /\ fault # None => report # {}

\* A clean set-up means the race was one: when no racer gave up at the gate, none of them called
\* the store before all had arrived (`Gate`, `race_setup_verdict`).
CleanSetupMeansOverlap ==
    Racing /\ ~gate.unsatisfied => \A i \in Racers : ~racer[i].early

\* The harness returns: a racer that ends between the waiter's look at the latch and its
\* registration does not leave it parked (`LatchWait::poll`, `RacerGuard`).
HarnessReturns == <>Finished
=============================================================================

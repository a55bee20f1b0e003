----------------------------- MODULE RateLimiter -----------------------------
(***************************************************************************)
(* `FixedWindowRateLimiter` (crates/oauth-as/src/rate_limit.rs) and the      *)
(* handlers that use it through `Hooks` (events.rs): a handler asks `check`  *)
(* before it evaluates anything, works, and reports the outcome to `record`. *)
(* Both take the limiter's mutex, but both read the monotonic clock before   *)
(* they take it, so each is two steps here: the reading, and the critical    *)
(* section that uses it.                                                     *)
(*                                                                          *)
(* Abstracted: counters are naturals, because `charge` refuses and           *)
(* `penalise` clamps before a u64 could wrap; a client id is a member of     *)
(* PresentedIds, and OverlongIds are those past MAX_TRACKED_CLIENT_ID_LEN.   *)
(***************************************************************************)
EXTENDS Naturals, FiniteSets, FiniteSetsExt

CONSTANTS
    PresentedIds,       \* the client identifiers callers present
    OverlongIds,        \* the ones too long to be given an entry
    Limits,             \* the RateLimitConfig
    Mixes,              \* the sets of attempt kinds explored together
    Callers,            \* threads serving requests
    MaxInstant          \* bound: the last instant of the monotonic clock

ASSUME LimiterAssumption ==
    /\ OverlongIds \subseteq PresentedIds
    /\ Limits \in [window: Nat, max_tracked_clients: Nat,
                   device_user_code_capacity: Nat, device_user_code_failure_cost: Nat,
                   client_registration_capacity: Nat, client_registration_failure_cost: Nat,
                   authorization_request_capacity: Nat, authorization_request_failure_cost: Nat,
                   client_authentication_capacity: Nat, client_authentication_failure_cost: Nat,
                   client_authentication_capacity_for: [PresentedIds -> Nat]]
    /\ IsFiniteSet(Callers)

VARIABLES
    window,     \* the `Window` behind the mutex
    instant,    \* the monotonic clock, counted from `base`
    call,       \* what each thread is doing with the limiter
    mix,        \* the attempt kinds of this behaviour
    admitted,   \* history: the admissions, numbered within each window and attempt
    wrong       \* history: failed code entries admitted since the counters were last cleared

limiterVars == <<window, instant, call, mix, admitted, wrong>>

ATTEMPT_COST == 1
MIN_WINDOW == 1
CLIENT_AUTHENTICATION_FAILURE_CEILING_DIVISOR == 2

PerClient == {"ClientAuthentication", "AuthorizationRequest"}
Attempt ==
    [kind: {"DeviceUserCodeEntry", "ClientRegistration"}, client_id: {"nobody"}]
    \cup [kind: PerClient, client_id: PresentedIds]

NewBudget == [attempts |-> 0, failures |-> 0]
ClientBudget == [attempts: Nat, failures: Nat]

\* `RateLimitConfig::effective_window` and `window_index`.
effective_window == Max({Limits.window, MIN_WINDOW})
window_index(at) == at \div effective_window
Indexes == 0..window_index(MaxInstant)

\* A `HashMap` of budgets is a function on the keys it holds.
NewWindow(index) ==
    [index |-> index, device_user_code |-> 0, registration |-> 0,
     clients |-> [i \in {} |-> NewBudget], overflow |-> NewBudget,
     authorization |-> [i \in {} |-> NewBudget], authorization_overflow |-> NewBudget]

roll_to(w, index) == IF w.index = index THEN w ELSE NewWindow(index)

\* `client_counter` and `authorization_counter`: does this identifier have, or get, its own entry?
has_counter(map, id) ==
    /\ id \notin OverlongIds
    /\ id \in DOMAIN map \/ Cardinality(DOMAIN map) < Limits.max_tracked_clients

entry(map, id) == IF id \in DOMAIN map THEN map[id] ELSE NewBudget

with_entry(map, id, budget) ==
    [i \in DOMAIN map \cup {id} |-> IF i = id THEN budget ELSE map[i]]

client_counter(w, id) == IF has_counter(w.clients, id) THEN entry(w.clients, id) ELSE w.overflow

authorization_counter(w, id) ==
    IF has_counter(w.authorization, id) THEN entry(w.authorization, id)
    ELSE w.authorization_overflow

\* Write back through the reference either of them returned.
put_budget(w, id, budget) ==
    IF has_counter(w.clients, id) THEN [w EXCEPT !.clients = with_entry(@, id, budget)]
    ELSE [w EXCEPT !.overflow = budget]

put_authorization(w, id, budget) ==
    IF has_counter(w.authorization, id) THEN [w EXCEPT !.authorization = with_entry(@, id, budget)]
    ELSE [w EXCEPT !.authorization_overflow = budget]

\* An override belongs to an entry: an identifier on the overflow counter has the shared capacity.
capacity_of(w, a) ==
    CASE a.kind = "DeviceUserCodeEntry" -> Limits.device_user_code_capacity
      [] a.kind = "ClientRegistration" -> Limits.client_registration_capacity
      [] a.kind = "AuthorizationRequest" -> Limits.authorization_request_capacity
      [] a.kind = "ClientAuthentication" ->
             IF has_counter(w.clients, a.client_id)
             THEN Limits.client_authentication_capacity_for[a.client_id]
             ELSE Limits.client_authentication_capacity

failure_ceiling(w, a) == capacity_of(w, a) \div CLIENT_AUTHENTICATION_FAILURE_CEILING_DIVISOR

failure_cost(a) ==
    CASE a.kind = "DeviceUserCodeEntry" -> Limits.device_user_code_failure_cost
      [] a.kind = "ClientRegistration" -> Limits.client_registration_failure_cost
      [] a.kind = "AuthorizationRequest" -> Limits.authorization_request_failure_cost
      [] a.kind = "ClientAuthentication" -> Limits.client_authentication_failure_cost

\* `u64::saturating_sub`.
Sub(a, b) == IF a < b THEN 0 ELSE a - b

CanPay(counter, capacity) == ATTEMPT_COST <= Sub(capacity, counter)
charge(counter, capacity) == IF CanPay(counter, capacity) THEN counter + ATTEMPT_COST ELSE counter
penalise(counter, capacity, cost) == Min({counter + cost, capacity})

\* The counter an attempt is charged to, and what of its capacity failures have left.
Spent(w, a) ==
    CASE a.kind = "DeviceUserCodeEntry" -> w.device_user_code
      [] a.kind = "ClientRegistration" -> w.registration
      [] a.kind = "AuthorizationRequest" -> authorization_counter(w, a.client_id).attempts
      [] a.kind = "ClientAuthentication" -> client_counter(w, a.client_id).attempts

Headroom(w, a) ==
    CASE a.kind \notin PerClient -> capacity_of(w, a)
      [] a.kind = "AuthorizationRequest" ->
             Sub(capacity_of(w, a), authorization_counter(w, a.client_id).failures)
      [] a.kind = "ClientAuthentication" ->
             Sub(capacity_of(w, a), client_counter(w, a.client_id).failures)

allows(w, a) == CanPay(Spent(w, a), Headroom(w, a))

\* The entry is made whether or not the attempt is admitted.
charged(w, a) ==
    LET c == charge(Spent(w, a), Headroom(w, a)) IN
    CASE a.kind = "DeviceUserCodeEntry" -> [w EXCEPT !.device_user_code = c]
      [] a.kind = "ClientRegistration" -> [w EXCEPT !.registration = c]
      [] a.kind = "AuthorizationRequest" ->
             put_authorization(w, a.client_id,
                               [authorization_counter(w, a.client_id) EXCEPT !.attempts = c])
      [] a.kind = "ClientAuthentication" ->
             put_budget(w, a.client_id, [client_counter(w, a.client_id) EXCEPT !.attempts = c])

check_at(w, a, at) ==
    LET rolled == roll_to(w, window_index(at)) IN
    [window |-> charged(rolled, a), allow |-> allows(rolled, a)]

\* A slip the model rules out: failures may spend the whole budget.
penalised_without_reserve(w, a) ==
    CASE a.kind \notin PerClient -> w
      [] a.kind = "AuthorizationRequest" ->
             put_authorization(w, a.client_id,
                 [authorization_counter(w, a.client_id) EXCEPT
                     !.failures = penalise(@, capacity_of(w, a), failure_cost(a))])
      [] a.kind = "ClientAuthentication" ->
             put_budget(w, a.client_id,
                 [client_counter(w, a.client_id) EXCEPT
                     !.failures = penalise(@, capacity_of(w, a), failure_cost(a))])

penalised(w, a) ==
    CASE a.kind = "DeviceUserCodeEntry" ->
             [w EXCEPT !.device_user_code = penalise(@, capacity_of(w, a), failure_cost(a))]
      [] a.kind = "ClientRegistration" ->
             [w EXCEPT !.registration = penalise(@, capacity_of(w, a), failure_cost(a))]
      [] a.kind = "AuthorizationRequest" ->
             put_authorization(w, a.client_id,
                 [authorization_counter(w, a.client_id) EXCEPT
                     !.failures = penalise(@, failure_ceiling(w, a), failure_cost(a))])
      [] a.kind = "ClientAuthentication" ->
             put_budget(w, a.client_id,
                 [client_counter(w, a.client_id) EXCEPT
                     !.failures = penalise(@, failure_ceiling(w, a), failure_cost(a))])

\* A slip: the report is filed under the window the counters belong to, and charges nothing.
record_nothing(w, a, at) == roll_to(w, window_index(at))

\* A failure only: a success returns before it touches the window.
record_at(w, a, at) == penalised(roll_to(w, window_index(at)), a)

-----------------------------------------------------------------------------
(***************************************************************************)
(* The threads                                                              *)
(***************************************************************************)
Unasked == [step |-> "idle"]

LimiterInit ==
    /\ window = NewWindow(0)
    /\ instant = 0
    /\ call = [k \in Callers |-> Unasked]
    /\ mix \in Mixes
    /\ admitted = {}
    /\ wrong = 0

LimiterTick ==
    /\ instant < MaxInstant
    /\ instant' = instant + 1
    /\ UNCHANGED <<window, call, mix, admitted, wrong>>

\* `RateLimiter::check` reads `Instant::now` and goes for the lock.
Ask(k, a) ==
    /\ call[k] = Unasked
    /\ a.kind \in mix
    /\ call' = [call EXCEPT ![k] = [step |-> "checking", attempt |-> a, at |-> instant]]
    /\ UNCHANGED <<window, instant, mix, admitted, wrong>>

\* The admissions of a window, of one kind, that named one of these identifiers.
Admissions(index, kind, ids) ==
    {x \in admitted : x.window = index /\ x.attempt.kind = kind /\ x.attempt.client_id \in ids}

Admission(index, a) ==
    [window |-> index, attempt |-> a,
     number |-> Cardinality(Admissions(index, a.kind, {a.client_id}))]

\* The calls in flight once a roll has cleared the counters: none is of the new budget.
Unless(rolled, calls) ==
    IF rolled
    THEN [k \in Callers |-> IF calls[k].step \in {"working", "recording"}
                            THEN [calls[k] EXCEPT !.fresh = FALSE] ELSE calls[k]]
    ELSE calls

Check(k) ==
    LET c == call[k]
        done == check_at(window, c.attempt, c.at)
        rolled == window_index(c.at) # window.index
    IN
    /\ c.step = "checking"
    /\ window' = done.window
    /\ call' = [Unless(rolled, call) EXCEPT ![k] =
                   IF done.allow THEN [step |-> "working", attempt |-> c.attempt, fresh |-> TRUE]
                   ELSE Unasked]
    /\ admitted' = IF done.allow THEN admitted \cup {Admission(window_index(c.at), c.attempt)}
                   ELSE admitted
    /\ wrong' = IF rolled THEN 0 ELSE wrong
    /\ UNCHANGED <<instant, mix>>

\* `record(attempt, Succeeded)` returns at once.
Succeed(k) ==
    /\ call[k].step = "working"
    /\ call' = [call EXCEPT ![k] = Unasked]
    /\ UNCHANGED <<window, instant, mix, admitted, wrong>>

\* `record(attempt, Failed)` reads the clock and goes for the lock.
Fail(k) ==
    /\ call[k].step = "working"
    /\ call' = [call EXCEPT ![k] = [step |-> "recording", attempt |-> @.attempt, at |-> instant,
                                    fresh |-> @.fresh]]
    /\ UNCHANGED <<window, instant, mix, admitted, wrong>>

Record(k) ==
    LET c == call[k]
        rolled == window_index(c.at) # window.index
        counts == c.fresh /\ ~rolled /\ c.attempt.kind = "DeviceUserCodeEntry"
    IN
    /\ c.step = "recording"
    /\ window' = record_at(window, c.attempt, c.at)
    /\ call' = [Unless(rolled, call) EXCEPT ![k] = Unasked]
    /\ wrong' = IF rolled THEN 0 ELSE IF counts THEN wrong + 1 ELSE wrong
    /\ UNCHANGED <<instant, mix, admitted>>

LimiterNext ==
    \/ LimiterTick
    \/ \E k \in Callers : \/ \E a \in Attempt : Ask(k, a)
                          \/ Check(k)
                          \/ Succeed(k)
                          \/ Fail(k)
                          \/ Record(k)

LimiterSpec == LimiterInit /\ [][LimiterNext]_limiterVars

-----------------------------------------------------------------------------
(***************************************************************************)
(* Properties                                                               *)
(***************************************************************************)
\* The identifiers whose admissions were paid from the counter `a` is charged to.
Payers(a) ==
    LET map == IF a.kind = "ClientAuthentication" THEN window.clients ELSE window.authorization IN
    IF has_counter(map, a.client_id) THEN {a.client_id}
    ELSE {i \in PresentedIds : ~has_counter(map, i)}

\* Failures cannot spend a client's whole budget (`record_at`'s ceiling): whoever would be refused
\* now at the token or authorization endpoint is refused because at least the reserved half of the
\* capacity was really spent on admitted attempts in this window, and, for an identifier with an
\* entry of its own, on attempts that named that identifier and no other.
DenialHasItsPrice ==
    \A a \in {b \in Attempt : b.kind \in mix \cap PerClient} :
        LET i == window_index(instant)
            w == roll_to(window, i)
        IN  ~allows(w, a) =>
                Cardinality(Admissions(i, a.kind, Payers(a))) >= (capacity_of(w, a) + 1) \div 2

\* The weighting (`device_user_code_failure_cost`) bounds guessing and not only traffic: as long as
\* another code entry would be admitted, every wrong one reported since the counters were cleared has
\* been charged in full; and once none would, the wrong entries exceed what the budget pays for by no
\* more than the reports outstanding when it ran out.  This is what the code keeps; what its
\* documentation promises is the next property.
GuessesBounded ==
    LET capacity == Limits.device_user_code_capacity
        cost == ATTEMPT_COST + Limits.device_user_code_failure_cost
    IN  /\ CanPay(window.device_user_code, capacity) => wrong * cost <= window.device_user_code
        /\ wrong <= Sub(capacity, 1) \div cost + Cardinality(Callers)

\* "AT MOST 20 WRONG code entries per minute per process (each costs `1 + 9 = 10`)" (the module
\* documentation of rate_limit.rs, of a capacity of 200): the budget divided by what an entry and its
\* failure cost, however many requests are served at once.
WrongEntriesWithinBudget ==
    wrong <= Limits.device_user_code_capacity
                 \div (ATTEMPT_COST + Limits.device_user_code_failure_cost)

\* "A burst straddling a window boundary can land up to twice the budget in quick succession"
\* (the module documentation of rate_limit.rs): two adjacent windows admit at most two capacities.
AtMostTwiceTheBudget ==
    \A i \in Indexes, a \in {b \in Attempt : b.kind \in mix \ PerClient} :
        LET In(index) == Cardinality(Admissions(index, a.kind, {a.client_id}))
        IN  In(i) + In(i + 1) <= 2 * capacity_of(window, a)
=============================================================================

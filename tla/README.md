# TLA+ specifications of oauth-as

oauth-as is an OAuth 2.x authorization server as a Rust library: a host embeds
`AuthorizationServer` (`crates/oauth-as/src/server.rs`), gives it a `Storage`
(`store.rs`), a clock, a random source and signing keys, and calls one async method
per endpoint. This directory models what is hard about it: async request handlers
that share one store, interleave at every store call, can be dropped between any two
of them, and must still never issue twice, never lose a revocation and never revive
what was revoked.

Paths below are relative to `crates/oauth-as/src/` unless they say otherwise.

## 1. Inventory

| component | state it keeps | operations | what makes it correct |
|---|---|---|---|
| **Storage contract, `MemoryStorage`** (`store.rs`) | twelve maps under one mutex: clients, device grants and their user-code index, codes, pushed requests, access tokens, refresh records, consents, replay ids, and the client, family and consent revocation barriers | put, get, take, compare-and-swap, rotate, revoke, delete, claim, sweep | takes and swaps are atomic; a write behind a standing barrier is refused; a cascade removes what the barrier refuses; the index follows the grants |
| **Token endpoint, code grant** (`server.rs`, `authorization.rs`, `pkce.rs`) | none of its own: locals of a request across awaits | `authorization_code_token` and its replay branch | one redemption per code; the record names what was handed out; a replay kills it |
| **Token endpoint, refresh grant** (`server.rs`, `token.rs`) | same | `refresh_token` under strict rotation, retryable rotation and reuse | one successor; a spent token stays spent; reuse kills the family; a retry gets the same answer |
| **Issuance** (`server.rs`, `issue`) | same | mint, sign, `put_token`, `put_refresh_token`, `undo_issuance` | a refused write leaves nothing usable |
| **Revocation endpoint** | same | `revoke_with_credential` | answered means dead |
| **Derived tokens** (`token_exchange.rs`, `server.rs`, `rar.rs`, `scope.rs`) | none | narrowing, client credentials, token exchange, introspection | never more, never longer than what it derives from; a resource server learns what concerns it |
| **Device grant** (`device.rs`, `server.rs`) | a grant that device and user both write | `device_authorization`, `approve_device`, `deny_device`, `device_token` | the first decision stands; redeemed once; a user code names one device |
| **Verification page** (`http.rs`) | the host's sessions, through two hooks | GET shows a code's grant, POST decides | a guess is charged once; a decision comes from the session's own form |
| **Consent** (`consent.rs`, `server.rs`) | consent records | `record_consent`, `remembered_consent`, `withdraw_consent` | a withdrawal is not undone by a recording in flight, a recording is not lost |
| **Client registration** (`registration.rs`, `client.rs`, `cimd.rs`) | client records | RFC 7591 register, RFC 7592 read, update, delete, client ID documents | an update in flight does not revive or overwrite what it has not seen |
| **Authorization endpoint, PAR, JAR** (`authorization.rs`, `par.rs`, `http.rs`) | codes, pushed requests | validate, push, redeem the push, issue a code | a push is used once, by its client; a policy holds on every way in |
| **Client authentication, DPoP, replay ids** (`client_assertion.rs`, `dpop.rs`, `mtls.rs`, `skew.rs`, `jwt.rs`) | replay ids | authenticate, verify a proof, `claim_replay_id` | an accepted proof is accepted once; a refusal tells nothing by its cost |
| **Rate limiter** (`rate_limit.rs`) | counters per key and window | check, record | a limit holds at the window's edge and with a full table, and nobody is locked out for free |
| **Signed tokens** (`jwt.rs`, `signer_conformance.rs`) | key set | sign, publish, rotate; probe a signer and a verifier | a live token verifies |
| **Storage conformance suite** (`storage_conformance.rs`) | gate, latch, racers | run a host's store through every check | accuses no sound store, misses no broken one, returns |
| **PostgreSQL store** (`crates/oauth-as-postgres`) | tables and advisory locks | the `Storage` methods as transactions | implements the contract under concurrent transactions |
| **Surface** (`http.rs` routing, `metadata.rs`, `error.rs`, `events.rs`, `backends/`) | none | parsing, formatting, cryptography, observers | out of scope |

*How they interact.* Handlers only meet in the store: there is no lock across two store
calls and no message between requests. Each method of `MemoryStorage` is atomic; each
handler is a chain of such calls with a decision between every two. The store's
revocation barriers are the one mechanism by which a revocation reaches a request
that is already past its checks: the revocation leaves a window
`(recorded_at, until)` behind, and every later write of a token, a refresh record
or a pushed request is compared with it, by the instant at which the grant was
*established*, not by when it is written. The sweep reclaims a barrier at `until`.
The limiter is the one piece of state outside the store that requests share.

*What is hard.* Read, decide, write sequences around an await; take and put back, which
makes a record invisible for a moment; a two-write issuance; partial failure of a
containment cascade; a clock read before the lock is taken; a barrier that is
reclaimed while a request it should refuse is suspended; a chain of narrowings; a key
set that changes under a signing. `PROJECT.json` lists these hazards at the lines where
they bite.

## 2. Modules

| module | models |
|---|---|
| `Storage` | `MemoryStorage`: each map a function that is `None` where the map has no key, each method that writes one action operator with the method's name, `is_revoked`, `covers` and `merge_into` |
| `StorageContract` | the store alone: any caller, any method, any argument, any order |
| `StorageLemmas`, `StorageProofs` | what each store call keeps typed, for every module that makes it; theorems about `StorageContract` and `PostgresStore` |
| `TokenEndpoint` | code redemption and replay, refresh, issuance, RFC 7009 revocation, and the host's actions that race them (issue a code, record and withdraw a consent, delete and provision a client, sweep, clock) |
| `GrantLineage` | the abstract specification of a grant: a code or refresh token is usable, then closed for good, and answered with one successor. `TokenEndpoint` implements it where refresh tokens rotate: proved for strict rotation, checked for retryable |
| `TokenEndpointProofs`, `RefreshProofs`, `RevocationProofs` | theorems about `TokenEndpoint`: types; redemption, rotation and the refinement; revocation |
| `DeviceFlow` | extends `TokenEndpoint` with the device grant |
| `DeviceFlowProofs` | theorems about it |
| `PostgresStore` | `PostgresStorage` (`crates/oauth-as-postgres/src/store.rs`): the same variables as committed tables, and the transactions that write them |
| `StorageConformance` | `StorageConformance::run`: every check as a sequence of store calls and expected answers, and the races with their gate, latch and guard under the host's spawner |
| `Jose` | algorithms, keys and the rules by which a compact JWS is verified |
| `ClientAuthentication` | the credentials of a request, every authentication method, DPoP proofs, replay identifiers |
| `AuthorizationRequest` | extends it: PAR, request objects, the authorization endpoint, code issuance |
| `TokenExchange` | extends that: narrowing, client credentials, token exchange, introspection |
| `ClientRegistration` | extends `ClientAuthentication`: RFC 7591 and 7592, client ID documents |
| `VerificationPage` | extends `ClientAuthentication` (for the clock): the page at which a user decides about a device |
| `ConsentFlow` | recordings and withdrawals of remembered consent |
| `ServerProofs` | theorems about `AuthorizationRequest`, `TokenExchange`, `ClientRegistration`, `VerificationPage` and `ConsentFlow` |
| `SigningKeys` | `JwtConfig`, rotation, what is signed, and the probes of `SignerConformance` |
| `RateLimiter` | `FixedWindowRateLimiter` |
| `CredentialProofs` | theorems about `ClientAuthentication`, `RateLimiter` and `SigningKeys` |
| `MC...` | what the configurations need: values, symmetry, scenarios |

**State.** `TokenEndpoint` keeps the store's variables, `config` (the refresh policy and
the faults, fixed at start), the clock `now`, `used` (identifiers the random source has
produced; it never repeats one), and `req[r]`, the handler that runs in request slot `r`.
A handler is its program counter and its locals: the authenticated client, the
presented credential, the record it took or read, and what it minted. The program
counter names the store call in which the handler is suspended. The other endpoint
modules do the same with `task`, `visit`, `leg`, `errand`, `page`, `recording`; a request
there is served once and keeps its outcome.

**Actions.** One per store call, together with the code that runs up to the next call.
So `TakeCode` is the take, the expiry and ownership checks and every early return;
`ConsumeCode` is the write of `Consumed` and the start of `issue`. In `TokenEndpoint`,
PKCE, redirect URI, DPoP key and narrowing checks only decide whether the request passes,
so they are one choice between both outcomes; `AuthorizationRequest` and `TokenExchange`
judge them. Signing is a suspension that may fail.

**Failure.** The fault model `"drop"` lets a suspended handler vanish at any point
(`Abandon`). That is a client that disconnects and drops the future; it is also a store
error that the handler returns with `?`, since nothing else runs. `"store_error"` lets
those store calls fail whose error the handler *survives* (family revocation on replay and
reuse, `undo_issuance`, the closing compare-and-swap, deletions): these continue on a
different path and set `failed`, as `containment_failed` and `cascade_failed` do. In the
other endpoint modules a store call that may fail has an alternative (`ClaimFails`,
`PushStoreErrors`, `PageStoreErrors`).

**Time.** `now` ticks to `MaxNow`, and a request is suspended for at most
`MaxInFlight`. `IssueCode` may use a decision up to `MaxInFlight` old, because
`UserApproval::granted_at` comes from the host. `RateLimiter` reads its clock in one step
and takes its mutex in the next, as `check` and `record` do.

**PostgreSQL.** `txn[t]` is the transaction on connection `t`: its call, the statements it
has left, and the advisory keys and rows it has locked until it ends. A `Begin...` action
starts a method with the statements of its source in their order; each statement is a step,
and `Commit` makes the writes visible. A delete or a select is two steps, the snapshot and
the locked result, because it may wait in between and then passes over rows that are gone
(READ COMMITTED); the select of a consent compares the row as it is once the lock is had,
not as the snapshot saw it. `Rollback` is a failed statement or a dropped caller, at any point.
A method that is one statement is the action of `Storage`, taken when no transaction has
the row locked. The sweep commits in batches and skips locked rows; the model's batch is
one row. Taken as given of the database: advisory keys do not collide
(`hashtextextended` is injective on the keys in use), statements visit the rows of a table
in one physical order, and a soft queue position is never part of a deadlock, since the
database reorders those. `put_consent` is left out: the server never calls it.

**Consent.** The resources of a record are a set here: the code keeps them in a list that it
searches and only ever adds to. The order in which an approval names them still decides
which of them fit under the cap.

**Derived tokens.** The origin of every token is kept beside it: the grant it descends
from and the first token of that grant. An exchanged token inherits the instant of its
grant but, as in the code, neither its family nor its consent; the certificate binding of
mTLS and the key binding of DPoP are one binding here. A client credentials request stamps its grant, reads the registration
and judges in three steps, with deletions and the clock in between.

**Signing keys.** Signers and verifiers come from the host and may have any of a list of
faults; `SignerConformance::run` decides which are installed, and `SignedTokensVerify` is
about those. The generic profile of the harness (other than ES256) has no probe for a
stripped leading zero or a point off the curve, so those faults are tried on ES256 only.
A request borrows the configuration of the server that accepts it (`HandlingBegins`), and
reads the clock only when it comes to sign, up to `MaxHandling` later; a promotion is a new
server, and what the last one is handling stays with it. Of the host it is assumed that it
never reuses a `kid`, and keeps a retired key for `forget_after`. `endpoints` gives that the
life of a token and `MaxHandling`; the documentation asks for the life of a token alone, with
which `SignedTokensVerify` fails (section 5). Retired keys are a set: their
order in the published document is a convenience, as a resource server selects by `kid`.

**The conformance suite.** A check is a sequence of calls with the answer each must get;
racers are tasks that pass a gate, call the store, and release a latch when they end. The
spawner is none (racers are polled in turn), a runtime, one that runs a task at once, or
one whose tasks may panic. Where the suite leaves a fault to another check and goes on in
silence, so does the model (`IsIfThere`, `OrSkip`). Broken stores lose the write of a method,
skip its condition, or read and write in two steps.

**What a refusal costs.** A bill counts the verifications that were run, by scheme: the crate's
own digest, the host's scheme, HMAC, and each signature algorithm. `SecretVerifier` is the
host's: none, one without a `dummy_hash`, one with. A registration has a sequence of keys, and
`any` stops at the first that verifies. The residuals that `authenticate_client` documents are
marked on the bill and left out of the properties: a secret in another scheme than the dummy's
(FIRST, THIRD), an assertion that its registration refuses with no signature work (FOURTH). The
SECOND, which tells the two assertion methods of a known client apart, is the same mark: an
assertion of the other algorithm is refused unverified.

**Client ID documents.** A host installs the client of a document for each authorization
request, so a document that is fetched again overwrites what the earlier one installed.

**History variables** (`granted`, `contained`, `logged_out`, `alarmed`, `undone`,
`presented`, `revoked`, `withdrawn_at`, `deleted_at`, `decided`, `asked`, `lineage`,
`withdrawn`, `decisions`, the `trail` of a page request, `admitted`, `wrong`) record what
was answered or reported, and no handler reads them.

## 3. Properties and runs

| run | bounds | checks |
|---|---|---|
| `store` | in one part one of each identifier and two instants, in the other two device codes, two user codes, two registrations and one instant | `TypeOK`, `NoRowBehindBarrier`, `BarriersOnlyStrengthen`, `UserCodeIndexSound` |
| `postgres` | four workloads over one client, subject and family: three connections with revocations, a token write and a consent; two with all token calls, re-provisioning and the sweep; two with three consent swaps, withdrawals and a token write; one with the single statements | `NoRowBehindBarrier`, `NoDeadlock`, `CommitsAreAtomic`, `OneConsentPerPair` |
| `rotation` | rotation in four scenarios. Strict: three requests of two clients on one code, and two requests of its client on a chain of up to two rotations, both with drops and store errors; one request at a time with the clock to 3, withdrawal, deletion, provisioning and sweep. Retryable: two requests of two clients that redeem, rotate once, retry and revoke | `SingleRedemption`, `RedemptionRecorded`, `RevokedStaysDead`, `ImplementsLineage` |
| `grants` | two requests, in two scenarios. On a code and its chain: the retryable and the reuse policy; redeem, refresh and revoke; one tick, at which the retry window lapses; requests dropped or, in configurations of their own that redeem and refresh only, store calls failing. On two devices: one user code, codes asked for at the first instant, clock to 2, deletion and provisioning, store calls failing | `OneSuccessor`, `SpentStaysSpent`, `ReplayContained`, `RevokedMeansDead`, `DeviceSingleUse`, `DecisionStands`, `DeletedRegistrationYieldsNothing` |
| `endpoints` | eight parts, one per behaviour: two or three requests each, see below | seventeen invariants, see below |
| `conformance` | three racers, four spawners, the sound store, and stores with one fault: a lost write of any method, a swap, rotation or guarded write that ignores its condition, a take, swap, rotation or claim in two steps | `NoFalseAlarm`, `EveryFaultReported`, `CleanSetupMeansOverlap`, `HarnessReturns` |
| `revoke_during_rotation`, `stranger_takes_code`, `stale_clock`, `withdrawal_overtaken`, `concurrent_guesses`, `refusal_price` | the smallest instance that shows it | the findings, section 5 |

**`endpoints`.** The requests of these parts do not meet (they share the store, but not the
maps they write), so a behaviour exercises one part and leaves the others as they started.
`MCServer` gives the values: for each part requests that are in order, and for each check of
the code one that fails it. Requests that differ only in their name are exchanged by symmetry.
The parts end when every request is served, so deadlock is not checked.

| part | requests | properties |
|---|---|---|
| limiter | two threads, two identifiers of which one has an entry; two windows | `DenialHasItsPrice`: who is refused is refused because half of that budget was spent on admitted attempts, and not by failures alone. `GuessesBounded`: while another user code may be entered, the wrong ones reported have been charged in full; afterwards they exceed the budget by one per thread whose report was outstanding at most. The documented number has no such addition; `concurrent_guesses` checks that one |
| authentication | two requests, two clients, every credential kind, clock to 3, sweep | `ProofAcceptedOnce`, `ReplayedMeansReplayed` (two owners whose spellings only a length prefix tells apart), `RefusalPaysItsPrice`: a refusal runs what the request presented is billed for, and more only under several keys |
| requests | three visits that push or authorize, one request_uri, four policies, deletion, sweep, failing store | `PushedRequestUsedOnce`, `PushedRequestNeverLost`, `NoDoorAroundThePolicy` |
| exchange | a grant, and up to two exchanges of what it yields, by two clients | `DescendantsStayWithin`, `IntrospectionStaysLocal` |
| registration | three errands on two client ids, one registration access token | `UpdatesBuildOnWhatStands`, `RegisteredWithinBounds` |
| consent | three recordings and a withdrawal of one pair | `WithdrawnRecordStaysGone`, `RecordedConsentStands` |
| keys | two requests, each handled for at most one instant before it signs, around promotions and forgettings of keys; faulty signers and verifiers | `SignedTokensVerify` |
| page | three requests of two sessions, two devices, expiry and sweep, failing store | `EntryChargedOnce`, `DecisionFromOwnForm` |

*PostgreSQL.* `NoRowBehindBarrier` is the invariant of `Storage` again, now of the committed
tables: it holds because writers share and revocations exclude on the same advisory keys.
`NoDeadlock` says that no set of transactions waits in a circle; the source argues for it
in three places, and it takes three transactions (a writer, a withdrawal, a deletion) to
close the circle that taking the client's key last would allow. `CommitsAreAtomic` is what
lets the other modules treat these methods as atomic: the barrier check of a write, the
comparison of a rotation or a consent swap, and the set of token, refresh and pushed rows a
cascade removes are still right at the commit. It is not claimed of codes, device grants
and consents in a cascade: these are written without a barrier, so one that is committed
after the cascade's statement survives, as one written after the deletion does.
`OneConsentPerPair` is the purpose of the `consent_cas` key.

*Refinement.* `ImplementsLineage` maps a code or refresh token to "unknown", "usable" or
"closed" as its holder would find it, and the answers given for it to its successors. What a
handler holds in its hands and will put back (a stranger's take, a refused refresh) still
counts as usable, so a step of `TokenEndpoint` is a step of `GrantLineage` or a stutter. A
retry repeats an answer already given, which is a stutter; a retryable token presented within
its own retry window is answered with itself, which the mapping does not count as a successor.
Under reuse nothing closes, so that policy is no lineage. The mapping
reads no history beyond the answers. Families, users and time are not part of it;
`RevokedStaysDead` is about those.

*Why the bounds are enough to be interesting.* The barrier's question is "was the
grant established at or before the revocation, and is the barrier still there", so two
instants give before, tie and after, and a second grant of the same shape adds nothing.
The user-code index needs two grants contending for a code and a second code to move
to. A race on a code needs a redeemer and a replayer; the third request is a stranger
who takes the record and puts it back. On a strict chain a stranger's refresh and a refused one
of the token's own client take and put back alike, so one client is enough. A successor that is itself rotated needs three
refresh tokens. For `RevokedStaysDead` the clock is long enough for a code to be issued,
the barrier to be recorded, to expire and to be swept while the code and a request are
both still alive if they can be. In `rotation` identifiers are drawn, and slots filled, in
order, because they are interchangeable, and consent is recorded at the outset, since only
its withdrawal touches a grant; an action constraint keeps each scenario within its bounds
and leaves the next-state relation as it is. Of the devices in `grants`, one user code forces the collision;
two instants reach expiry, the slow-down and the boundary of the barrier. An exchange of an
exchanged token is the shortest chain in which a bound on one step could fail to bound two.
A consent needs two recordings to lose one and a third to be a creation after a withdrawal.
A token needs one page, and two submissions of its form, to decide twice. In `grants`, a
failing store is combined with redemptions and refreshes (`WithinChain`): a
containment step that fails is one of a replay or of a reuse, and a logout's own cascade that
fails is exempt by `alarmed`. A key needs one instant of handling to be used after it was
retired, and a lifetime of one and three instants to be dropped while what it signed then lives.

**The window condition.** `RevokedStaysDead` holds in `rotation` because `Longest`, the
longest configured lifetime, is at least the code's lifetime plus twice `MaxInFlight`: a
decision `MaxInFlight` old, a code issued from it, and a request suspended for
`MaxInFlight` after it took the code. The code does not enforce this condition; with
`device_code_ttl = 2` in `MCRotation.cfg` it fails. With realistic settings
(access tokens for an hour, requests for seconds) it holds by a wide margin;
section 5 has what happens where it does not.

**`alarmed`.** Where the server reports that a cascade failed (`cascade_failed` on the
revocation event), `ReplayContained` and `RevokedMeansDead` exempt that family: the
code promises the alarm there, not the outcome. That the alarm is set whenever a step of
the containment failed is part of what `ReplayContained` says.

**Fairness.** Requests promise no progress: a host may drop any of them anywhere. The
conformance harness does: `HarnessReturns` says that `run` returns, under weak fairness of
the harness itself and of every task that can go on, which is what an executor gives to the
futures it holds. A task that panics ends, and its guard releases the latch. It fails for an
executor that discards a task without ever polling it: see section 5.

## 4. Proofs

Every theorem is for any sets of clients, users, codes, tokens, families, devices and
handles, any number of requests at once, every configuration the assumptions allow, and
clocks of any length.

| theorem | module | statement |
|---|---|---|
| `TypeCorrect` | `StorageProofs` | `Spec => []TypeOK` (of `StorageContract`) |
| `NothingBehindABarrier` | | `Spec => []NoRowBehindBarrier` |
| `IndexFollowsGrants` | | `Spec => []UserCodeIndexSound` |
| `BarriersStrengthen` | | `Spec => BarriersOnlyStrengthen` |
| `NothingCommittedBehindABarrier` | | `PgSpec => []NoRowBehindBarrier` (of `PostgresStore`) |
| `CommitsStayAtomic` | | `PgSpec => []CommitsAreAtomic` |
| `OneConsentStands` | | `PgSpec => []OneConsentPerPair` |
| `EndpointTypeCorrect` | `TokenEndpointProofs` | `Spec => []EndpointTypeOK` (of `TokenEndpoint`) |
| `CodeRedeemedOnce` | `RefreshProofs` | `Spec => []SingleRedemption` |
| `CodeNamesItsTokens` | | `Spec => []RedemptionRecorded` |
| `TokenSucceededOnce` | | `Spec => []OneSuccessor` |
| `TokenStaysSpent` | | `Spec => []SpentStaysSpent` |
| `StrictRotationImplementsLineage` | | `Spec /\ Strict => ImplementsLineage`, where refresh tokens are issued and codes live for a while |
| `RevokedGrantStaysDead` | `RevocationProofs` | `WindowCondition` implies `Spec => []RevokedStaysDead` |
| `DeviceCodeAnsweredOnce` | `DeviceFlowProofs` | `DeviceSpec => []DeviceSingleUse` |
| `DecisionIsFinal` | | `DeviceSpec => []DecisionStands` |
| `WithdrawnConsentStaysGone` | `ServerProofs` | `ConsentSpec => []WithdrawnRecordStaysGone` |
| `ConsentIsNotLost` | | `ConsentSpec => []RecordedConsentStands` |
| `UpdatesRestOnWhatStands` | | `RegistrationSpec => []UpdatesBuildOnWhatStands` |
| `ClientsStayWithinBounds` | | `RegistrationSpec => []RegisteredWithinBounds` |
| `PushedRequestIsUsedOnce` | | `RequestSpec => []PushedRequestUsedOnce` |
| `PushedRequestIsNotLost` | | `RequestSpec => []PushedRequestNeverLost` |
| `PolicyHoldsAtEveryDoor` | | `RequestSpec => []NoDoorAroundThePolicy` |
| `EntryIsChargedOnce` | | `PageSpec => []EntryChargedOnce` |
| `DecisionIsFromOwnForm` | | `PageSpec => []DecisionFromOwnForm` |
| `ExchangesStayWithin` | | `ExchangeSpec => []DescendantsStayWithin` |
| `IntrospectionIsLocal` | | `ExchangeSpec => []IntrospectionStaysLocal` |
| `ProofIsAcceptedOnce` | `CredentialProofs` | `AuthSpec => []ProofAcceptedOnce` |
| `ReplayIsNoFalseAlarm` | | `AuthSpec => []ReplayedMeansReplayed` |
| `NoRefusalIsCheap` | | `AuthSpec => []RefusalPaysItsPrice` |
| `GuessingIsBounded` | | `LimiterSpec => []GuessesBounded` |
| `DenialIsPaidFor` | | `LimiterSpec => []DenialHasItsPrice` |
| `SignedTokensStayVerifiable` | | `forget_after >= MaxHandling + signed_token_ttl` implies `KeySpec => []SignedTokensVerify` |

**Assumptions on constants**, each evaluated by the runs of the modules that make them:
instants and durations are naturals (`TimesAssumption`, `ConfigAssumption`, `PollAssumption`);
`None` is none of the values it stands beside (`NoneAssumption`, `GrantAssumption`,
`AbsentAssumption`, `DecisionAssumption`); the
random source draws codes, refresh tokens, device codes, access tokens and families from
sets that do not meet (`IdentifierAssumption`); requests and approvals name things that can
be looked up (`ApprovalAssumption`, `DocumentAssumption`, `RequestAssumption`,
`ExchangeAssumption`, `ArrivalAssumption`); the calls of a workload have the types of the store
(`WorkloadAssumption`); a service is built with one of the three protections
(`ProtectionAssumption`); a verifier is installed for known algorithms (`VerifierAssumption`);
the numbers of a limiter's configuration are naturals and its threads finitely many
(`LimiterAssumption`); a `kid` names one key, as `rotate_to` asks of the host, and only a verifier of
ECDSA signatures can mistake their DER form for one (`SignerAssumption`). `SpellingAssumption` says that two clients are never spelt alike, nor two
keys, and that a thumbprint has 43 characters. Lengths are written in decimal (`Decimal`), in up to four
digits: a client id reaches a replay key as the subject of an assertion, which is at most
`MAX_ASSERTION_BYTES` long (`ArrivalAssumption`).

**Hypotheses.** Three theorems have one, because the code has none of these guards and the
statement is false without them. `WindowCondition` says that the longest configured lifetime is at
least a code's lifetime and twice `MaxInFlight`, and longer than `MaxInFlight`: section 5
has the counterexample otherwise. The refinement is proved under `Strict` (under retryable rotation it is checked by `rotation`), for
refresh tokens that are issued, and a positive code lifetime (a code that is born expired
was never usable, and `GrantLineage` has no such step). `SignedTokensStayVerifiable` needs a retired
key to be kept for a token's lifetime and `MaxHandling`: section 5 has the counterexample otherwise.

### The store

*Type correctness.* `TypeStep` has one step for each group of calls; the lemmas per call are in
`StorageLemmas`, where the endpoints find them. `WithoutFacts` and `MergeFacts` say what a
cascade and a merged window return.

*Nothing behind a barrier.* `NoRowBehindBarrier` is inductive together with `TypeOK`.
Two facts carry it. `RefusalUnchanged`: whether a record is refused depends only on the
barriers and on which clients exist, so a step that touches neither cannot turn a row
bad. `RowsKeptOrDropped`: a cascade or a sweep only drops rows. What remains is each call
that strengthens a barrier, where the rows that become refused are exactly those the cascade
drops: for a deletion all rows of the client, for a family all its rows, for a consent all
rows of the pair, regardless of their instants. A merge cannot newly refuse any other
row, since slots are separate. `put_client` is the one call that weakens a refusal.

*The index.* `UserCodeIndexSound` needs both directions at once: that an entry leads
to a grant with that code, and that a grant is found by its code. So two devices never answer
to one user code. `InsertKeepsIndex` handles writes and swaps, including a grant whose user
code changes, and `CascadeKeepsIndex` every step that drops grants and then the stale entries.

*Barriers.* `KeptSlot`, `MergedSlots` and `SweptSlots` are the three ways a slot changes.

*PostgreSQL* (`Serial`). The transactions interleave statement by statement, and what one of
them has read is only as good as the locks it holds. `Serial` says so in two halves.
`LocksExclude`: two transactions do not hold one row, nor one advisory key unless both share it.
`Sound(t)`: relative to the statements that `t` has left, it holds the keys and rows that its
program has asked for so far, and what it has read under them is still true: a write that has
passed its check is not behind a barrier, a compared refresh record and a selected consent are
unchanged, and what a cascade has deleted from a table is all that the table has of what it names.

That a step of one transaction does not spoil the soundness of another is proved once.
`Undisturbed` lists what a transaction relies on: its locked rows stay, nothing is
written under a key it holds exclusively, no barrier is set under a key it shares. `SoundStays`
derives soundness from it, and each kind of commit and each single statement is shown to leave
every other transaction undisturbed. The exclusive key is what makes a cascade complete: all the writers
it names share that key, so none of them commits between its statements and its own commit.
`barrier_covers` reads the barriers and the client row; the rows it reads are protected by the
shared keys, except the client's: `put_client` takes no key, and may only turn a refusal into an
admission, which is the direction that `Sound` allows. At the commit nothing is left
of the program, and `Sound` is `CommitsAreAtomic`.

### The token endpoint

*Types* (`Typed`). `EndpointTypeOK` is not inductive: what a handler may read depends on the
store call it is suspended in. `Typed` types its locals by program counter, and adds
the books (`used`, the history) that later proofs read.

*One redemption* (`RedeemedOnce`). The right to be answered for a code is in one place: in the
store, while the record says Issued; in the hands of the one request that took that record; or
used up by an answer. The record itself is in the store or with one request. The put-back
of a stranger's take is why the second half is needed: without it two requests could
hold one record and put it back twice. `RedemptionRecorded` is the same invariant read
the other way: whoever holds the record of an answered code holds the names of its tokens.

*One successor* (`Rotated`). Under strict rotation the right moves as that of a code does. Under
retryable rotation any number of requests hold the Active record; the compare-and-swap that
replaces it stores the answer that every later request repeats, so the invariant
relates the answers given to the retry kept in the record. Reuse has no successors.

*Refinement* (`Chained`). `RedeemedOnce` and `Rotated` give that a credential is in one place
and answered once; `Chained` adds that every issuance has drawn a successor. `ClosesLineage`
covers the steps that answer nothing: they leave each credential as it was or close it. What
is left are the issue of a code and the answers, each a step of `GrantLineage`.

*Revocation* (`Buried`). The barrier may be reclaimed, so the argument is about time: for each
revocation, a request that holds a record of the grant either is refused by a barrier
that still stands or ends before the barrier can be gone. `Buried` dates every record a
handler holds, in the store or in hand, and bounds how long it can still be written.
Codes are dated by the decision and may be presented until they expire, which is where the
code's lifetime and the second `MaxInFlight` of `WindowCondition` come from.

### The device grant

`DeviceTyped` extends `Typed`. `DeliveredOnce` says where the right to an answer is: with the
request that drew the code, in the store, or with the poll that took the grant. It also follows
the decision: what a poll holds and what is stored agree with what the user was told, as far as
it has been told. `AccessOwned` says that the access token of a device answer is drawn by nobody
else, and is its approver's as long as the store has it. TLC checked both on the devices
of `grants` before they were proved.

### The other endpoints

*Consent* (`Consented`). A widening holds the identifier of a record that stands or was
withdrawn; a creation holds one that nobody else has. So a swap never restores a withdrawn
record, and since records only grow, the scopes a recording reported stay covered. (Resources
may not: past the cap they are left out, and the user is asked again.)

*Registration* (`Registered`). The history of a client ends in what the store has, and
each entry names the one before it; a registration is within bounds wherever it is held:
in the store, or by an update that has been validated and not yet swapped in.

*Pushed requests* (`Handed`). The right to use a handle is with the record in the store, with a
stranger's visit that will put it back, or used up by the one visit that got past it; and every
copy of a record is the one that was pushed. `PushedRequestNeverLost` needs one more fact: a
barrier that refuses the put-back stands only for a client that is gone (`BarredMeansDeleted`).
`NoDoorAroundThePolicy` needs the policy of what is stored: a signature is checked when a
request is pushed and not again when it is used.

*The page* (`Paged`). A form's token is with its session, with the one request that decides on
it, or on a decision; a page issues its token once. The trail of a request is determined
by its step, up to the outcome.

*Derived tokens* (`Derived`). Every stored token `Descends` from its origin, and so does the
subject token that an exchange read before its next await and the record that it is about to write:
the token it came from may be revoked meanwhile, so the bound cannot be stated through that token.
`Descends` is `DescendantsStayWithin` with what one more exchange relies on. Details are the
hard part: `narrow` gives each requested detail a granted one of its own, so the invariant keeps
an injection from a token's details into those of the grant (`EachFrom`), and injections compose.

*Credentials* (`Vetted`). An identifier that was claimed in time is in the replay table until its
deadline (`KeptUntilDeadline`), and what the table has, a request claimed (`TableIsBacked`). The
first refuses the second claim; the second, with the fact that `replay_key` is injective
(`ReplayKeyInjective`), makes each report of a replay true. Injectivity is in two parts: a decimal length is read back from its
digits (`Decimal` has no colon and is injective), and it then says where the owner ends. The cost of
a refusal is proved branch by branch of `classify_client_credential`: what a branch has verified
is in the scheme it would be billed for, at least once and at most once per key, unless the bill is
marked; and a request that waits for its claim has done that work.

*The limiter* (`Limited`). Each counter of the window is backed by the admissions recorded for it:
attempts are at most the admissions, failures at most half of the capacity. The entries
of the overflow counter change when an identifier gets an entry of its own, which is why the
admissions are counted by sets of identifiers. For guesses, the wrong codes and the entries that
are admitted and not yet reported are together within the budget plus one per thread.

*Signing keys* (`Published`). The first half is about the harness, and has no induction. A pair it
reports nothing on is what a host takes it to be: `SoundAfterProbes` goes through the probes of each
algorithm to show that the verifier has no fault that lets an altered signature pass or makes it panic on
one, and `ConformingPair` that the signer signs its input with the key that it publishes. The
second half is about rotation: each token signed or being signed is `Backed`, that is, its
key is active, or was retired no sooner than its request began to be handled and is still published,
or the token has expired. A token expires at most `MaxHandling` and a lifetime after its request began,
which is what the hypothesis on `forget_after` covers. Since a `kid` names one key, a resource server then selects exactly one entry.

### Only model-checked

- *Out of the prover's reach.* `HarnessReturns` is liveness under fairness. `NoFalseAlarm`,
  `EveryFaultReported` and `CleanSetupMeansOverlap` are about a module that has `RECURSIVE`
  operators, and say what a recursion over the list of checks computes.
- *Not proved.* `NoDeadlock`: advisory keys and tables are taken in one order, but two rotations,
  if they could name each other's tokens as successors, would lock two rows in opposite orders. A proof
  needs the freshness of successors, which belongs to the server and not to the store, so that the
  workloads of the run have it and `WorkloadAssumption` does not. `ReplayContained` and
  `RevokedMeansDead` hold while the records of a chain last: a revocation or a replay finds the
  family through them, and finds nothing once the refresh record has expired and been swept. A general
  theorem would need lifetimes longer than the run, which the code does not promise.
  `DeletedRegistrationYieldsNothing` needs `Buried` over the device's steps.

## 5. Where code and comments disagree

Six runs expect a violation, each of a sentence in the source.

- **`revoke_during_rotation`** (`server.rs:7160`). Strict rotation *takes* the refresh
  record. A revocation that looks the token up in that moment finds nothing, answers
  200 and records no barrier, so the rotation goes on to write its successor and the
  grant is alive. The comment at 7188-7192 says that the barrier handles the rotation
  in flight. The same gap lets a code replay miss a chain that is being rotated, which
  is why `ReplayContained` is checked for the retryable and reuse policies and not for
  strict rotation. Retryable rotation does not take the record and has no such gap.
- **`stranger_takes_code`** (`server.rs:5322`). Another client that presents a code has
  its request take the record before the ownership check and put it back afterwards.
  If the owner's closing compare-and-swap falls in between, it misses and the owner's
  tokens are undone. The comment at 5006-5010 says that the record goes back so that
  the owner can complete its flow.
- **`stale_clock`** (`rate_limit.rs:854`). The window's index is computed before the lock
  is taken, and `roll_to` clears the counters whenever the index differs, also when it is
  older. A thread that slept across a boundary rolls the window back, the next one forward
  again, each with an empty budget. The documentation (63-64) bounds a burst around a
  boundary by twice the budget.
- **`withdrawal_overtaken`** (`server.rs:6986`). A recording that found no record is
  compared with "still nothing". A record that another recording created and the user
  withdrew in between leaves nothing again, so the first recording succeeds after the
  withdrawal. The comment at 6983-6985 says that a withdrawal in between refuses both
  shapes.
- **`concurrent_guesses`** (`rate_limit.rs:853`). A device-code entry is charged 1 when it is
  admitted and the rest of its weight when it is reported wrong, after the lookup in between.
  Entries that are in flight together are all admitted while there is room for one each, so a
  window takes up to one wrong entry per request in flight beyond the documented number. The
  documentation (121) says "at most 20 wrong code entries per minute per process".
- **`refusal_price`** (`client_assertion.rs:478`). An assertion is tried under every registered
  key until one verifies. A client in the middle of a key rotation has two, so a forged
  assertion costs two verifications, and one for an unknown client. The documentation
  (`server.rs:3053-3056`) says that the cost depends on nothing the store holds, and lists no
  residual of this kind. `RefusalPaysItsPrice` is what does hold.

Observations with no run of their own, the first two of them with a hypothesis in a theorem:

- *The window of a barrier* (`server.rs:2307`). A request suspended for as long as the barrier
  stands writes after the sweep, and the revoked grant is live. The comment at 2237-2242 says
  that the request's wall time is not what bounds the window. With `device_code_ttl = 2` in
  `MCRotation.cfg`, which breaks the window condition, `RevokedStaysDead` fails in this way.
- *A retired key* (`server.rs:6191`). A request that the old server is handling when its key is
  retired signs under that key when it gets to `issue`, with an expiry counted from then. The
  documentation (`jwt.rs:1657-1658`, 1668-1671) says that a key retired for longer than the life
  of a token, and than the time that resource servers cache the keys for, has no live tokens left.
  With `forget_after = 1` in `MCServer.cfg`, the life of a token, `SignedTokensVerify` fails in this way.
- The compare-and-swap of a device grant compares its `state` only and writes the whole
  snapshot, so of two polls that read the same grant the slower one can undo the faster
  one's increase of `interval`.
- The comment above `RacerGuard` (`storage_conformance.rs:5359-5360`) counts on the guard
  where a spawner drops the future before it completes. The guard is created inside the
  future (3759), so a task that is dropped before its first poll has none, the latch stays
  one short and `run` waits for ever. With `"dropping"` among the `Spawners` of
  `MCConformance.cfg`, `HarnessReturns` fails in this way.
- `rar.rs:437-438` says that two distinct grants still satisfy two distinct requests. The
  matching (439-456) is greedy, so a request that takes the wider grant first can leave
  the next one with none.
- The documentation of `authenticate_client` lists, as its fourth residual, the assertions that are
  refused without signature work: oversize, not a JWS, of another algorithm. A registration for
  an algorithm that has no verifier installed is one more: `verify_assertion`
  (`client_assertion.rs:478-482`) answers `BadSignature` there without any. The model counts it
  to the residual, and `RefusalPaysItsPrice` fails where it does not.
- A claim made after a proof's own deadline, by a request that stalled, may find its
  identifier swept. `ProofAcceptedOnce` is about claims made before it.

## 6. What is not modelled

- *Formatting and parsing:* routing, metadata documents, error bodies, HTML, URL and JSON
  parsing, certificates and distinguished names. Where a decision depends on them, its
  outcome is a field of the request.
- *Cryptography:* `backends/`, hashing and signatures, which are values here.
- *The host's side:* fetching client documents, sessions, login and approval pages, event
  sinks. Hooks answer anything, except where section 2 says otherwise.
- *Delegates, the interop suite, fuzz targets and benches:* no logic of their own.
- `reject_empty_scope` guards against empty identifiers; only `StorageConformance` has
  one. Its probe of user-code normalization (3944-3988) is left out, as user codes have
  one form here.
- A visit to the authorization endpoint that its host drops. One dropped between a stranger's
  take of a pushed request and the put-back loses the record, so `PushedRequestNeverLost` is
  about handlers that run to their end or meet a store error.
- The token type hint of a revocation, which orders two lookups of which one finds nothing.
- `put_consent` of the PostgreSQL store, which the server never calls.

## 7. Plan

1. `DeletedRegistrationYieldsNothing`, by extending `Buried` over the device's steps.
2. `NoDeadlock`, with the freshness of successors as an assumption on workloads: a rank of every
   advisory key, table and row, and that a transaction waits only for something of higher rank.
3. For the run of `PostgresStore`: two clients and families, if a reduction makes it small enough.

## 8. Running

    tlc -workers 2 -config MCRotation.cfg MCRotation
    for m in *Proofs.tla StorageLemmas.tla; do tlapm $m; done

`PROJECT.json` lists every run with its module and configuration, the source lines that
each definition models, and for each property a mutated definition that breaks it.
The mutated operators stand directly before the definition they vary.

----------------------------- MODULE ConsentFlow -----------------------------
(***************************************************************************)
(* Remembered consent: `record_consent`, `remembered_consent` and            *)
(* `withdraw_consent` of server.rs over the records of consent.rs.           *)
(*                                                                          *)
(* A recording reads the pair's record, widens it, and swaps it in, twice at *)
(* most; other recordings and withdrawals run between its awaits.  Instants  *)
(* play no part: no barrier is consulted on this path.                       *)
(***************************************************************************)
EXTENDS Storage, Sequences

CONSTANTS
    Recordings,             \* calls to record_consent
    Withdrawals,            \* calls to withdraw_consent
    Approvals,              \* what a user may approve: [scope, resource]
    MAX_CONSENT_RESOURCES

VARIABLES
    recording, withdrawal,
    withdrawn               \* the consent ids a withdrawal has removed

consentVars == <<recording, withdrawal, withdrawn>>

\* A record, with its resources as a set: they are only ever added to.
StoredConsent ==
    [consent_id: ConsentIds, client_id: ClientIds, subject: Subjects, scope: SUBSET Scopes,
     resource: SUBSET UNION {{a.resource[i] : i \in DOMAIN a.resource} : a \in Approvals},
     granted_at: Nat]

\* An approval names scopes of the server, and no record is mistaken for an absent one.
ASSUME ApprovalAssumption ==
    /\ \A a \in Approvals : a.scope \subseteq Scopes
    /\ None \notin StoredConsent

\* `ConsentRecord::extend`: scopes are merged; resources are added in their order while there is
\* room.
extend(record, approved) ==
    LET added == {i \in DOMAIN approved.resource :
                      /\ approved.resource[i] \notin record.resource
                      /\ \A j \in 1..(i - 1) : approved.resource[j] # approved.resource[i]}
        Fits(i) == Cardinality(record.resource) + Cardinality({j \in added : j < i})
                       < MAX_CONSENT_RESOURCES
    IN  [record EXCEPT !.scope = @ \cup approved.scope,
                       !.resource = @ \cup {approved.resource[i] : i \in {j \in added : Fits(j)}}]

\* `ConsentRecord::covers`: whether a request may be answered from the record alone.
covers_request(record, scope, resource, asks_details) ==
    /\ scope \subseteq record.scope
    /\ \A i \in DOMAIN resource : resource[i] \in record.resource
    /\ ~asks_details

NewCall == [step |-> "new"]

NoCalls ==
    /\ recording = [r \in Recordings |-> NewCall]
    /\ withdrawal = [w \in Withdrawals |-> NewCall]
    /\ withdrawn = {}

ConsentInit == StoreInit /\ NoCalls

Drawn(k) == consents[k] # None \/ k \in withdrawn \/ \E r \in Recordings :
                recording[r].step = "swap" /\ recording[r].record.consent_id = k

RecordBegins(r, c, s, approved) ==
    /\ recording[r] = NewCall
    /\ recording' = [recording EXCEPT ![r] =
           [step |-> "find", attempt |-> 1, widens |-> None, client_id |-> c, subject |-> s,
            approved |-> approved]]
    /\ UNCHANGED <<storeVars, withdrawal, withdrawn>>

\* What the first attempt saw, the retry may not contradict: a widening never becomes a creation.
RecordFinds(r, found, k) ==
    LET c == recording[r] IN
    /\ c.step = "find"
    /\ found \in FindConsent(c.client_id, c.subject)
    /\ IF found = None THEN c.widens = TRUE \/ ~Drawn(k) ELSE k = found.consent_id
    /\ recording' = [recording EXCEPT ![r] =
           IF c.widens = TRUE /\ found = None THEN [step |-> "failed"]
           ELSE [step |-> "swap", attempt |-> c.attempt, approved |-> c.approved,
                 widens |-> IF c.widens = None THEN found # None ELSE c.widens,
                 client_id |-> c.client_id, subject |-> c.subject, expected |-> found,
                 record |-> extend(IF found # None THEN found
                                   ELSE [consent_id |-> k, client_id |-> c.client_id,
                                         subject |-> c.subject, scope |-> {}, resource |-> {},
                                         granted_at |-> 0],
                                   c.approved),
                 overtaken |-> FALSE]]
    /\ UNCHANGED <<storeVars, withdrawal, withdrawn>>

\* Slips: the write is not conditional; or it only compares the identifier.
swaps_consent_always(found, expected) == TRUE
swaps_on_the_id(found, expected) ==
    (found = None /\ expected = None)
    \/ (found # None /\ expected # None /\ found.consent_id = expected.consent_id)

\* Whether `compare_and_swap_consent` writes: the pair still holds what was read.
ConsentSwaps(found, expected) == found = expected

\* `compare_and_swap_consent`.
RecordSwaps(r, found) ==
    LET c == recording[r] IN
    /\ c.step = "swap"
    /\ found \in FindConsent(c.client_id, c.subject)
    /\ IF ConsentSwaps(found, c.expected)
       THEN /\ put_consent(c.record.consent_id, c.record)
            /\ recording' = [recording EXCEPT ![r] =
                   [step |-> "recorded", consent_id |-> c.record.consent_id,
                    approved |-> c.approved, overtaken |-> c.overtaken]]
       ELSE /\ UNCHANGED storeVars
            /\ recording' = [recording EXCEPT ![r] =
                   IF c.attempt = 1
                   THEN [step |-> "find", attempt |-> 2, widens |-> c.widens,
                         client_id |-> c.client_id, subject |-> c.subject,
                         approved |-> c.approved]
                   ELSE [step |-> "failed"]]
    /\ UNCHANGED <<withdrawal, withdrawn>>

\* `withdraw_consent` reads the record for the event it will emit, and then revokes.
WithdrawBegins(w, k) ==
    /\ withdrawal[w] = NewCall
    /\ withdrawal' = [withdrawal EXCEPT ![w] = [step |-> "revoke", consent_id |-> k,
                                                 event |-> consents[k] # None]]
    /\ UNCHANGED <<storeVars, recording, withdrawn>>

WithdrawRevokes(w) ==
    LET k == withdrawal[w].consent_id
        gone == consents[k]
    IN
    /\ withdrawal[w].step = "revoke"
    /\ revoke_consent(k, [recorded_at |-> 0, until |-> 0])
    /\ withdrawn' = IF gone # None THEN withdrawn \cup {k} ELSE withdrawn
    /\ recording' = [r \in Recordings |->
           IF /\ gone # None /\ recording[r].step = "swap"
              /\ <<recording[r].client_id, recording[r].subject>> = <<gone.client_id, gone.subject>>
           THEN [recording[r] EXCEPT !.overtaken = TRUE] ELSE recording[r]]
    /\ withdrawal' = [withdrawal EXCEPT ![w] = [step |-> "withdrawn", event |-> @.event]]

ConsentNext ==
    \/ \E r \in Recordings :
          \/ \E c \in ClientIds, s \in Subjects, approved \in Approvals :
                RecordBegins(r, c, s, approved)
          \/ \E found \in {consents[k] : k \in ConsentIds} \cup {None}, k \in ConsentIds :
                RecordFinds(r, found, k)
          \/ \E found \in {consents[k] : k \in ConsentIds} \cup {None} : RecordSwaps(r, found)
    \/ \E w \in Withdrawals :
          \/ \E k \in ConsentIds : WithdrawBegins(w, k)
          \/ WithdrawRevokes(w)

ConsentSpec == ConsentInit /\ [][ConsentNext]_<<storeVars, consentVars>>

-----------------------------------------------------------------------------
(***************************************************************************)
(* Properties                                                               *)
(***************************************************************************)
\* A consent record the user withdrew never comes back, whatever recordings of the pair were under
\* way: a widening that read it is refused by the swap and may not turn into a creation.
WithdrawnRecordStaysGone == \A k \in withdrawn : consents[k] = None

\* A recording that reported success is not lost: as long as the record is not withdrawn, it
\* answers a request for what was approved, although other recordings widened it at the same time.
RecordedConsentStands ==
    \A r \in Recordings : recording[r].step = "recorded" =>
        LET k == recording[r].consent_id IN
        \/ k \in withdrawn
        \/ /\ consents[k] # None
           /\ covers_request(consents[k], recording[r].approved.scope, <<>>, FALSE)

\* "The write happens only if the pair still holds exactly what was read a moment ago ... A
\* withdrawal in between refuses BOTH shapes": no recording succeeds that a withdrawal of the same
\* pair came between the read and the write of.
WithdrawalRefusesBothShapes ==
    \A r \in Recordings : recording[r].step = "recorded" => ~recording[r].overtaken
=============================================================================

---------------------------- MODULE ServerProofs ----------------------------
(***************************************************************************)
(* The parts of the server whose requests do not meet one another, each     *)
(* for any number of requests at once: remembered consent, client           *)
(* registration, pushed authorization requests, the verification page, and  *)
(* the tokens derived from grants and from one another.                     *)
(***************************************************************************)
EXTENDS TokenExchange, ClientRegistration, ConsentFlow, VerificationPage,
        FiniteSetTheorems, SequenceTheorems, TLAPS

-----------------------------------------------------------------------------
(***************************************************************************)
(* Remembered consent.  A recording that widens holds the identifier of a   *)
(* record that stands or was withdrawn; one that creates holds an           *)
(* identifier that nobody else has.                                         *)
(***************************************************************************)
\* Recording r is about to swap in a record, under this identifier.
Swapping(r) == recording[r].step = "swap"
IdOf(r) == recording[r].record.consent_id

ConsentsTyped ==
    /\ consents \in [ConsentIds -> Option(StoredConsent)]
    /\ \A k \in ConsentIds : consents[k] # None => consents[k].consent_id = k
    /\ DOMAIN recording = Recordings
    /\ DOMAIN withdrawal = Withdrawals
    /\ withdrawn \subseteq ConsentIds
    /\ \A w \in Withdrawals : withdrawal[w].step = "revoke" => withdrawal[w].consent_id \in ConsentIds

\* The locals of a recording at its await on find_consent, and on compare_and_swap_consent.
FindShape(c) ==
    /\ c.client_id \in ClientIds /\ c.subject \in Subjects /\ c.approved \in Approvals
SwapShape(c) ==
    /\ c = [step |-> c.step, attempt |-> c.attempt, approved |-> c.approved, widens |-> c.widens,
            client_id |-> c.client_id, subject |-> c.subject, expected |-> c.expected,
            record |-> c.record, overtaken |-> c.overtaken]
    /\ FindShape(c) /\ c.record \in StoredConsent /\ c.expected \in Option(StoredConsent)
    /\ c.approved.scope \subseteq c.record.scope

CallsShaped ==
    \A r \in Recordings :
        /\ recording[r].step = "find" => FindShape(recording[r])
        /\ Swapping(r) => SwapShape(recording[r])
        /\ recording[r].step = "recorded" => recording[r].consent_id \in ConsentIds

WidensAsRead ==
    \A r \in Recordings : Swapping(r) /\ recording[r].expected # None =>
        /\ recording[r].expected.consent_id = IdOf(r)
        /\ recording[r].expected.scope \subseteq recording[r].record.scope
        /\ consents[IdOf(r)] # None \/ IdOf(r) \in withdrawn

CreatesAlone ==
    \A r \in Recordings : Swapping(r) /\ recording[r].expected = None =>
        /\ consents[IdOf(r)] = None /\ IdOf(r) \notin withdrawn
        /\ \A s \in Recordings : Swapping(s) /\ IdOf(s) = IdOf(r) => s = r

ScopeStands ==
    \A r \in Recordings : recording[r].step = "recorded" =>
        LET k == recording[r].consent_id IN
        k \in withdrawn \/ (consents[k] # None /\ recording[r].approved.scope \subseteq consents[k].scope)

Consented ==
    /\ ConsentsTyped /\ CallsShaped /\ WidensAsRead /\ CreatesAlone /\ ScopeStands
    /\ WithdrawnRecordStaysGone

\* ConsentRecord::extend keeps the identifier, keeps what was covered and covers what is approved.
LEMMA ExtendFacts ==
    ASSUME NEW x \in StoredConsent, NEW a \in Approvals
    PROVE  /\ extend(x, a) \in StoredConsent
           /\ extend(x, a).consent_id = x.consent_id
           /\ x.scope \subseteq extend(x, a).scope
           /\ a.scope \subseteq extend(x, a).scope
<1> DEFINE more == extend(x, a).resource
           all == UNION {{b.resource[i] : i \in DOMAIN b.resource} : b \in Approvals}
<1>1. extend(x, a) = [x EXCEPT !.scope = x.scope \cup a.scope, !.resource = more]
  BY DEF extend, StoredConsent
<1>2. \E S \in SUBSET DOMAIN a.resource : more = x.resource \cup {a.resource[i] : i \in S}
  <2> DEFINE added == {i \in DOMAIN a.resource :
                           /\ a.resource[i] \notin x.resource
                           /\ \A j \in 1..(i - 1) : a.resource[j] # a.resource[i]}
             S == {i \in added : Cardinality(x.resource) + Cardinality({j \in added : j < i})
                                     < MAX_CONSENT_RESOURCES}
  <2>1. more = x.resource \cup {a.resource[i] : i \in S}
    BY Zenon DEF extend, StoredConsent
  <2> QED BY <2>1
<1>3. more \subseteq all
  <2> PICK S \in SUBSET DOMAIN a.resource : more = x.resource \cup {a.resource[i] : i \in S}
    BY <1>2
  <2>1. x.resource \subseteq all
    BY DEF StoredConsent
  <2> HIDE DEF more
  <2> QED BY <2>1
<1>4. x.scope \cup a.scope \subseteq Scopes
  BY ApprovalAssumption DEF StoredConsent
<1> HIDE DEF more, all
<1>5. x \in [consent_id: ConsentIds, client_id: ClientIds, subject: Subjects, scope: SUBSET Scopes,
             resource: SUBSET all, granted_at: Nat]
  BY DEF StoredConsent, all
<1>6. extend(x, a) \in [consent_id: ConsentIds, client_id: ClientIds, subject: Subjects,
                        scope: SUBSET Scopes, resource: SUBSET all, granted_at: Nat]
  BY <1>1, <1>3, <1>4, <1>5
<1> QED BY <1>1, <1>5, <1>6 DEF StoredConsent, all

\* What find_consent returns: a record of the store, under its own identifier, or None.
LEMMA FindConsentFacts ==
    ASSUME ConsentsTyped, NEW c \in ClientIds, NEW s \in Subjects, NEW found \in FindConsent(c, s),
           found # None
    PROVE  found \in StoredConsent /\ found.consent_id \in ConsentIds
           /\ consents[found.consent_id] = found
<1>1. PICK k \in ConsentIds : consents[k] = found
  BY DEF FindConsent, OfConsent, OfClient, ConsentsTyped
<1> QED BY <1>1 DEF ConsentsTyped, Option, StoredConsent

\* A recording that moves on without touching the store: it finishes, or awaits find_consent.
LEMMA RecordingGoesOn ==
    ASSUME Consented, NEW r \in Recordings, NEW c, recording' = [recording EXCEPT ![r] = c],
           UNCHANGED <<consents, withdrawal, withdrawn>>,
           c.step = "failed" \/ (c.step = "find" /\ FindShape(c))
    PROVE  Consented'
<1>1. ConsentsTyped'
  BY DEF Consented, ConsentsTyped
<1>2. recording'[r] = c /\ \A s \in Recordings : s # r => recording'[s] = recording[s]
  BY DEF Consented, ConsentsTyped
<1>3. CallsShaped'
  BY <1>2 DEF Consented, CallsShaped, Swapping
<1>4. WidensAsRead' /\ CreatesAlone'
  BY <1>2 DEF Consented, WidensAsRead, CreatesAlone, Swapping, IdOf
<1>5. ScopeStands' /\ WithdrawnRecordStaysGone'
  BY <1>2 DEF Consented, ScopeStands, WithdrawnRecordStaysGone
<1> QED BY <1>1, <1>3, <1>4, <1>5 DEF Consented

\* A recording that has read the pair's record, or drawn an identifier that nobody has.
LEMMA RecordingHasRead ==
    ASSUME Consented, NEW r \in Recordings, NEW found, NEW k \in ConsentIds,
           recording[r].step = "find", RecordFinds(r, found, k)
    PROVE  Consented'
<1> DEFINE c == recording[r]
           d == recording'[r]
           base == IF found # None THEN found
                   ELSE [consent_id |-> k, client_id |-> c.client_id, subject |-> c.subject,
                         scope |-> {}, resource |-> {}, granted_at |-> 0]
<1>1. /\ recording' = [recording EXCEPT ![r] = d]
      /\ \A s \in Recordings : s # r => recording'[s] = recording[s]
      /\ UNCHANGED <<consents, withdrawal, withdrawn>>
  BY DEF RecordFinds, Consented, ConsentsTyped, storeVars
<1>2. FindShape(c) /\ found \in FindConsent(c.client_id, c.subject)
  BY DEF Consented, CallsShaped, RecordFinds
<1>3. CASE c.widens = TRUE /\ found = None
  <2>1. d = [step |-> "failed"]
    BY <1>3 DEF RecordFinds, Consented, ConsentsTyped
  <2> QED BY <1>1, <2>1, RecordingGoesOn
<1>4. CASE ~(c.widens = TRUE /\ found = None)
  <2>1. d = [step |-> "swap", attempt |-> c.attempt, approved |-> c.approved,
             widens |-> IF c.widens = None THEN found # None ELSE c.widens,
             client_id |-> c.client_id, subject |-> c.subject, expected |-> found,
             record |-> extend(base, c.approved), overtaken |-> FALSE]
    BY <1>4 DEF RecordFinds, Consented, ConsentsTyped
  <2>2. found # None => found \in StoredConsent /\ k = found.consent_id /\ consents[k] = found
    BY <1>2, FindConsentFacts DEF Consented, FindShape, RecordFinds
  <2>3. base \in StoredConsent /\ base.consent_id = k
    BY <1>2, <2>2 DEF StoredConsent, FindShape
  <2> HIDE DEF base
  <2>4. /\ d.record \in StoredConsent /\ d.record.consent_id = k
        /\ base.scope \subseteq d.record.scope /\ d.approved.scope \subseteq d.record.scope
    BY <1>2, <2>1, <2>3, ExtendFacts DEF FindShape
  <2>5. found = None => consents[k] = None /\ k \notin withdrawn
                        /\ \A s \in Recordings : Swapping(s) => IdOf(s) # k
    BY <1>4 DEF RecordFinds, Drawn, Swapping, IdOf
  <2>6. SwapShape(d)
    BY <1>2, <2>1, <2>2, <2>4 DEF SwapShape, FindShape, Option
  <2>7. d.step = "swap" /\ d.expected = found
    BY <2>1
  <2> HIDE DEF d
  <2>8. CallsShaped'
    BY <1>1, <2>6, <2>7 DEF Consented, CallsShaped, Swapping, d
  <2>9. WidensAsRead'
    BY <1>1, <2>2, <2>4, <2>7 DEF Consented, WidensAsRead, Swapping, IdOf, d, base
  <2>10. CreatesAlone'
    BY <1>1, <2>2, <2>4, <2>5, <2>7 DEF Consented, CreatesAlone, Swapping, IdOf, d
  <2>11. ConsentsTyped' /\ ScopeStands' /\ WithdrawnRecordStaysGone'
    BY <1>1, <2>7 DEF Consented, ConsentsTyped, ScopeStands, WithdrawnRecordStaysGone, d
  <2> QED BY <2>8, <2>9, <2>10, <2>11 DEF Consented
<1> QED BY <1>3, <1>4

\* compare_and_swap_consent, where it writes.
LEMMA RecordingSwaps ==
    ASSUME Consented, NEW r \in Recordings, NEW found, RecordSwaps(r, found),
           found = recording[r].expected
    PROVE  Consented'
<1> DEFINE c == recording[r]
           k == IdOf(r)
<1>1. /\ Swapping(r) /\ SwapShape(c) /\ k \in ConsentIds /\ c.record # None
      /\ found \in FindConsent(c.client_id, c.subject)
  BY ApprovalAssumption DEF RecordSwaps, Consented, CallsShaped, SwapShape, Swapping, IdOf,
     StoredConsent
<1>2. /\ consents' = [consents EXCEPT ![k] = c.record]
      /\ recording' = [recording EXCEPT ![r] =
             [step |-> "recorded", consent_id |-> k, approved |-> c.approved,
              overtaken |-> c.overtaken]]
      /\ UNCHANGED <<withdrawal, withdrawn>>
  BY DEF RecordSwaps, ConsentSwaps, put_consent, IdOf
<1>3. /\ recording'[r].step = "recorded" /\ recording'[r].consent_id = k
      /\ recording'[r].approved = c.approved
      /\ \A s \in Recordings : s # r => recording'[s] = recording[s]
      /\ consents'[k] = c.record
      /\ \A i \in ConsentIds : i # k => consents'[i] = consents[i]
  BY <1>1, <1>2 DEF Consented, ConsentsTyped
<1>4. c.expected # None => consents[k] = c.expected /\ c.expected.scope \subseteq c.record.scope
  BY <1>1, FindConsentFacts DEF Consented, WidensAsRead, FindShape, SwapShape
<1>5. k \notin withdrawn
  BY <1>1, <1>4 DEF Consented, CreatesAlone, WithdrawnRecordStaysGone
<1>6. \A s \in Recordings : s # r /\ Swapping(s) /\ recording[s].expected = None => IdOf(s) # k
  BY <1>1, <1>4 DEF Consented, CreatesAlone
<1>7. ConsentsTyped'
  BY <1>1, <1>2 DEF Consented, ConsentsTyped, SwapShape, Option, IdOf
<1>8. CallsShaped'
  BY <1>1, <1>3 DEF Consented, CallsShaped, Swapping
<1>9. \A s \in Recordings : Swapping(s)' => s # r /\ Swapping(s) /\ IdOf(s)' = IdOf(s)
                                          /\ recording'[s] = recording[s] /\ IdOf(s) \in ConsentIds
  BY <1>3 DEF Swapping, IdOf, Consented, CallsShaped, SwapShape, StoredConsent
<1>10. WidensAsRead'
  <2> SUFFICES ASSUME NEW s \in Recordings, Swapping(s)', recording'[s].expected # None
               PROVE  /\ recording'[s].expected.consent_id = IdOf(s)'
                      /\ recording'[s].expected.scope \subseteq recording'[s].record.scope
                      /\ consents'[IdOf(s)'] # None \/ IdOf(s)' \in withdrawn'
    BY DEF WidensAsRead
  <2> QED BY <1>1, <1>2, <1>3, <1>9 DEF Consented, WidensAsRead
<1>11. CreatesAlone'
  <2> SUFFICES ASSUME NEW s \in Recordings, Swapping(s)', recording'[s].expected = None
               PROVE  /\ consents'[IdOf(s)'] = None /\ IdOf(s)' \notin withdrawn'
                      /\ \A t \in Recordings : Swapping(t)' /\ IdOf(t)' = IdOf(s)' => t = s
    BY DEF CreatesAlone
  <2> QED BY <1>2, <1>3, <1>6, <1>9 DEF Consented, CreatesAlone
<1>12. ScopeStands'
  <2> SUFFICES ASSUME NEW s \in Recordings, recording'[s].step = "recorded",
                      recording'[s].consent_id \notin withdrawn
               PROVE  /\ consents'[recording'[s].consent_id] # None
                      /\ recording'[s].approved.scope
                             \subseteq consents'[recording'[s].consent_id].scope
    BY <1>2 DEF ScopeStands
  <2>1. CASE s = r
    BY <1>1, <1>3, <2>1 DEF SwapShape
  <2>2. CASE s # r
    <3>1. /\ recording'[s] = recording[s] /\ recording[s].consent_id \in ConsentIds
          /\ consents[recording[s].consent_id] # None
          /\ recording[s].approved.scope \subseteq consents[recording[s].consent_id].scope
      BY <1>3, <2>2 DEF Consented, ScopeStands, CallsShaped
    <3>2. recording[s].consent_id = k => c.expected # None
      BY <1>1, <3>1 DEF Consented, CreatesAlone
    <3> QED BY <1>1, <1>3, <1>4, <3>1, <3>2
  <2> QED BY <2>1, <2>2
<1>13. WithdrawnRecordStaysGone'
  BY <1>2, <1>3, <1>5 DEF Consented, WithdrawnRecordStaysGone, ConsentsTyped
<1> QED BY <1>7, <1>8, <1>10, <1>11, <1>12, <1>13 DEF Consented

\* withdraw_consent removes the record, and nothing else of a recording changes but the note that
\* it was overtaken.
LEMMA WithdrawalRevokes ==
    ASSUME Consented, NEW w \in Withdrawals, WithdrawRevokes(w)
    PROVE  Consented'
<1> DEFINE k == withdrawal[w].consent_id
<1>1. k \in ConsentIds
  BY DEF Consented, ConsentsTyped, WithdrawRevokes
<1>2. /\ consents' = IF consents[k] = None THEN consents ELSE [consents EXCEPT ![k] = None]
      /\ withdrawn' = IF consents[k] # None THEN withdrawn \cup {k} ELSE withdrawn
  BY DEF WithdrawRevokes, revoke_consent, storeVars
<1>3. /\ \A i \in ConsentIds : consents'[i] = IF i \in withdrawn' THEN None ELSE consents[i]
      /\ withdrawn \subseteq withdrawn' /\ withdrawn' \subseteq ConsentIds
      /\ \A i \in withdrawn' \ withdrawn : consents[i] # None
  BY <1>1, <1>2 DEF Consented, ConsentsTyped, WithdrawnRecordStaysGone
<1>4. /\ DOMAIN recording' = Recordings
      /\ \A r \in Recordings :
             \/ recording'[r] = recording[r]
             \/ Swapping(r) /\ recording'[r] = [recording[r] EXCEPT !.overtaken = TRUE]
  BY DEF WithdrawRevokes, Swapping
<1>5. \A r \in Recordings : Swapping(r) \/ Swapping(r)' =>
          /\ Swapping(r) /\ Swapping(r)' /\ IdOf(r)' = IdOf(r) /\ IdOf(r) \in ConsentIds
          /\ recording'[r].expected = recording[r].expected
          /\ recording'[r].record = recording[r].record
          /\ SwapShape(recording'[r])
  <2> SUFFICES ASSUME NEW r \in Recordings, Swapping(r) \/ Swapping(r)'
               PROVE  /\ Swapping(r) /\ Swapping(r)' /\ IdOf(r)' = IdOf(r) /\ IdOf(r) \in ConsentIds
                      /\ recording'[r].expected = recording[r].expected
                      /\ recording'[r].record = recording[r].record
                      /\ SwapShape(recording'[r])
    OBVIOUS
  <2>1. Swapping(r) /\ SwapShape(recording[r])
    BY <1>4 DEF Swapping, Consented, CallsShaped
  <2>2. IdOf(r) \in ConsentIds
    BY <2>1 DEF SwapShape, StoredConsent, IdOf
  <2>3. CASE recording'[r] = recording[r]
    BY <2>1, <2>2, <2>3 DEF Swapping, IdOf
  <2>4. CASE recording'[r] = [recording[r] EXCEPT !.overtaken = TRUE]
    <3>1. recording'[r] = [recording[r] EXCEPT !.overtaken = TRUE]
          /\ recording[r] = [step |-> recording[r].step, attempt |-> recording[r].attempt,
                approved |-> recording[r].approved, widens |-> recording[r].widens,
                client_id |-> recording[r].client_id, subject |-> recording[r].subject,
                expected |-> recording[r].expected, record |-> recording[r].record,
                overtaken |-> recording[r].overtaken]
      BY <2>1, <2>4 DEF SwapShape
    <3>2. recording'[r] = [step |-> recording[r].step, attempt |-> recording[r].attempt,
                approved |-> recording[r].approved, widens |-> recording[r].widens,
                client_id |-> recording[r].client_id, subject |-> recording[r].subject,
                expected |-> recording[r].expected, record |-> recording[r].record,
                overtaken |-> TRUE]
      BY <3>1
    <3> QED BY <2>1, <2>2, <3>2 DEF SwapShape, FindShape, Swapping, IdOf
  <2> QED BY <1>4, <2>3, <2>4
<1>6. \A r \in Recordings : ~Swapping(r)' => recording'[r] = recording[r] /\ ~Swapping(r)
  BY <1>4, <1>5
<1>7. ConsentsTyped'
  <2>1. consents' \in [ConsentIds -> Option(StoredConsent)]
    BY <1>1, <1>2 DEF Consented, ConsentsTyped, Option
  <2>2. DOMAIN withdrawal' = Withdrawals
        /\ \A v \in Withdrawals : withdrawal'[v].step = "revoke" => withdrawal'[v] = withdrawal[v]
    BY DEF WithdrawRevokes, Consented, ConsentsTyped
  <2> QED BY <1>3, <1>4, <2>1, <2>2 DEF Consented, ConsentsTyped
<1>8. CallsShaped'
  BY <1>5, <1>6 DEF Consented, CallsShaped, Swapping
<1>9. WidensAsRead'
  BY <1>3, <1>5 DEF Consented, WidensAsRead
<1>10. CreatesAlone'
  BY <1>3, <1>5 DEF Consented, CreatesAlone
<1>11. ScopeStands'
  <2> SUFFICES ASSUME NEW r \in Recordings, recording'[r].step = "recorded",
                      recording'[r].consent_id \notin withdrawn'
               PROVE  /\ consents'[recording'[r].consent_id] # None
                      /\ recording'[r].approved.scope
                             \subseteq consents'[recording'[r].consent_id].scope
    BY DEF ScopeStands
  <2>1. recording'[r] = recording[r] /\ recording[r].consent_id \in ConsentIds
    BY <1>6 DEF Swapping, Consented, CallsShaped
  <2> QED BY <1>3, <2>1 DEF Consented, ScopeStands
<1>12. WithdrawnRecordStaysGone'
  BY <1>3 DEF WithdrawnRecordStaysGone
<1> QED BY <1>7, <1>8, <1>9, <1>10, <1>11, <1>12 DEF Consented

\* Every step of the consent flow keeps the invariant.
LEMMA ConsentedStep ==
    ASSUME Consented, [ConsentNext]_<<storeVars, consentVars>>
    PROVE  Consented'
<1>1. ASSUME NEW r \in Recordings, NEW c \in ClientIds, NEW s \in Subjects, NEW a \in Approvals,
             RecordBegins(r, c, s, a)
      PROVE  Consented'
  BY <1>1, RecordingGoesOn DEF RecordBegins, FindShape, storeVars
<1>2. ASSUME NEW r \in Recordings, NEW found, NEW k \in ConsentIds, RecordFinds(r, found, k)
      PROVE  Consented'
  BY <1>2, RecordingHasRead DEF RecordFinds
<1>3. ASSUME NEW r \in Recordings, NEW found, RecordSwaps(r, found)
      PROVE  Consented'
  <2>1. CASE found = recording[r].expected
    BY <1>3, <2>1, RecordingSwaps
  <2>2. CASE found # recording[r].expected
    <3>1. FindShape(recording[r])
      BY <1>3 DEF RecordSwaps, Consented, CallsShaped, Swapping, SwapShape
    <3>2. UNCHANGED <<consents, withdrawal, withdrawn>>
      BY <1>3, <2>2 DEF RecordSwaps, ConsentSwaps, storeVars
    <3>3. \E d : /\ recording' = [recording EXCEPT ![r] = d]
                 /\ d.step = "failed" \/ (d.step = "find" /\ FindShape(d))
      <4>1. CASE recording[r].attempt = 1
        <5> DEFINE d == [step |-> "find", attempt |-> 2, widens |-> recording[r].widens,
                         client_id |-> recording[r].client_id, subject |-> recording[r].subject,
                         approved |-> recording[r].approved]
        <5>1. recording' = [recording EXCEPT ![r] = d]
          BY <1>3, <2>2, <4>1 DEF RecordSwaps, ConsentSwaps
        <5>2. d.step = "find" /\ FindShape(d)
          BY <3>1 DEF FindShape
        <5> QED BY <5>1, <5>2
      <4>2. CASE recording[r].attempt # 1
        <5> DEFINE d == [step |-> "failed"]
        <5>1. recording' = [recording EXCEPT ![r] = d]
          BY <1>3, <2>2, <4>2 DEF RecordSwaps, ConsentSwaps
        <5>2. d.step = "failed"
          OBVIOUS
        <5> QED BY <5>1, <5>2
      <4> QED BY <4>1, <4>2
    <3> QED BY <3>2, <3>3, RecordingGoesOn
  <2> QED BY <2>1, <2>2
<1>4. ASSUME NEW w \in Withdrawals, NEW k \in ConsentIds, WithdrawBegins(w, k)
      PROVE  Consented'
  <2>1. UNCHANGED <<consents, recording, withdrawn>>
    BY <1>4 DEF WithdrawBegins, storeVars
  <2>2. ConsentsTyped'
    BY <1>4, <2>1 DEF WithdrawBegins, Consented, ConsentsTyped
  <2> QED BY <2>1, <2>2 DEF Consented, CallsShaped, WidensAsRead, CreatesAlone, ScopeStands,
                            WithdrawnRecordStaysGone, Swapping, IdOf
<1>5. ASSUME NEW w \in Withdrawals, WithdrawRevokes(w) PROVE Consented'
  BY <1>5, WithdrawalRevokes
<1>6. ASSUME UNCHANGED <<storeVars, consentVars>> PROVE Consented'
  BY <1>6 DEF storeVars, consentVars, Consented, ConsentsTyped, CallsShaped, WidensAsRead,
     CreatesAlone, ScopeStands, WithdrawnRecordStaysGone, Swapping, IdOf
<1> QED BY <1>1, <1>2, <1>3, <1>4, <1>5, <1>6 DEF ConsentNext

\* No call is under way at first.
LEMMA ConsentedAlways == ConsentSpec => []Consented
<1>1. ConsentInit => Consented
  BY DEF ConsentInit, StoreInit, NoCalls, NewCall, Empty, Option, Consented, ConsentsTyped,
     CallsShaped, WidensAsRead, CreatesAlone, ScopeStands, WithdrawnRecordStaysGone, Swapping
<1>2. Consented /\ [ConsentNext]_<<storeVars, consentVars>> => Consented'
  BY ConsentedStep
<1> QED BY <1>1, <1>2, PTL DEF ConsentSpec

\* A consent that its user withdrew is not written again, however many recordings of the pair had
\* read it or retry after it (record_consent, withdraw_consent, compare_and_swap_consent).
THEOREM WithdrawnConsentStaysGone == ConsentSpec => []WithdrawnRecordStaysGone
<1>1. Consented => WithdrawnRecordStaysGone
  BY DEF Consented
<1> QED BY <1>1, ConsentedAlways, PTL

\* A recording that was reported as made is not lost to recordings that run at the same time: until
\* it is withdrawn the record covers the scopes approved (record_consent, ConsentRecord::extend).
THEOREM ConsentIsNotLost == ConsentSpec => []RecordedConsentStands
<1>1. Consented => RecordedConsentStands
  BY DEF Consented, ScopeStands, RecordedConsentStands, covers_request
<1> QED BY <1>1, ConsentedAlways, PTL

-----------------------------------------------------------------------------
(***************************************************************************)
(* Client registration.  The last write of a registration is what stands,   *)
(* and every write, done or pending, is within what the deployment offers.  *)
(***************************************************************************)
IsSequence(s) == \E S : s \in Seq(S)

\* What the history says that stands of client c.
Latest(c) == IF lineage[c] = <<>> THEN None ELSE lineage[c][Len(lineage[c])].wrote

LineageStands ==
    /\ clients = [c \in ClientIds |-> clients[c]]
    /\ DOMAIN lineage = ClientIds /\ DOMAIN errand = Errands
    /\ \A c \in ClientIds : IsSequence(lineage[c]) /\ clients[c] = Latest(c)

\* The locals of a management request while it is authenticated, and of a write about to be made.
Managing(q) ==
    /\ q = [step |-> q.step, op |-> q.op, client_id |-> q.client_id, rat |-> q.rat,
            metadata |-> q.metadata]
    /\ q.client_id \in ClientIds /\ q.op \in {"read", "delete", "update"}
    /\ q.op = "update" => q.metadata \in Metadata

Offered(r) ==
    /\ r.auth = "Public" => "client_credentials" \notin r.grants
    /\ "authorization_code" \in r.grants => r.redirect_uris # <<>>
    /\ r.allowed_scopes \subseteq Bounds.scopes
    /\ r.default_scopes \subseteq r.allowed_scopes
    /\ r.grants \subseteq Bounds.grant_types \cup {"authorization_code"}

ErrandShape(q) ==
    /\ q.step \in {"gate", "authenticate", "delete"} => Managing(q)
    /\ q.step = "put" => Offered(q.record)
    /\ q.step = "swap" => q.client_id \in ClientIds /\ Offered(q.record)

Registered ==
    /\ LineageStands /\ UpdatesBuildOnWhatStands /\ RegisteredWithinBounds
    /\ \A e \in Errands : ErrandShape(errand[e])

\* validate: metadata that is not refused describes a client within bounds.
LEMMA AcceptedIsOffered ==
    ASSUME NEW m, ~metadata_refused(m), NEW auth, NEW secret, NEW registration, NEW scopes,
           auth = "Public" => MethodAsked(m) = AUTH_METHOD_NONE,
           scopes \subseteq ScopeAsked(m)
    PROVE  Offered(ClientOf(m, auth, secret, registration, scopes))
<1>1. GrantsAsked(m) \subseteq Bounds.grant_types \cup {"authorization_code"}
  BY DEF metadata_refused, GrantsAsked
<1>2. UsesCode(m) => m.redirect_uris # <<>>
  BY DEF metadata_refused
<1>3. ScopeAsked(m) \subseteq Bounds.scopes
  BY DEF metadata_refused, ScopeAsked
<1>4. MethodAsked(m) = AUTH_METHOD_NONE => "client_credentials" \notin GrantsAsked(m)
  BY DEF metadata_refused
<1> QED BY <1>1, <1>2, <1>3, <1>4 DEF Offered, ClientOf, UsesCode

\* to_client: a client ID document describes a public client.
LEMMA DocumentIsOffered ==
    ASSUME NEW d \in Documents, ~document_refused(d)
    PROVE  Offered(to_client(d))
<1> DEFINE m == DocumentMetadata(d)
<1>1. ~metadata_refused(m)
  BY DEF document_refused
<1>2. m.method = IF d.metadata.method = None THEN AUTH_METHOD_NONE ELSE d.metadata.method
  BY DocumentAssumption DEF DocumentMetadata
<1>3. d.metadata.method \notin {"client_secret_basic", "client_secret_post"}
  BY DEF document_refused
<1>4. MethodAsked(m) \in RegisterableMethods
  BY <1>1 DEF metadata_refused
<1>5. MethodAsked(m) = AUTH_METHOD_NONE
  BY <1>2, <1>3, <1>4, DocumentAssumption DEF MethodAsked, RegisterableMethods, AUTH_METHOD_NONE
<1> QED BY <1>1, <1>5, AcceptedIsOffered DEF to_client

\* A request that moves on without writing a registration.
LEMMA ErrandGoesOn ==
    ASSUME Registered, UNCHANGED <<clients, lineage>>, NEW e \in Errands, NEW q, ErrandShape(q),
           errand' = [errand EXCEPT ![e] = q]
    PROVE  Registered'
<1>1. LineageStands'
  BY DEF Registered, LineageStands, Latest
<1>2. UpdatesBuildOnWhatStands' /\ RegisteredWithinBounds'
  BY DEF Registered, UpdatesBuildOnWhatStands, RegisteredWithinBounds
<1>3. errand'[e] = q /\ \A f \in Errands : f # e => errand'[f] = errand[f]
  BY DEF Registered, LineageStands
<1>4. \A f \in Errands : ErrandShape(errand'[f])
  BY <1>3 DEF Registered
<1> QED BY <1>1, <1>2, <1>4 DEF Registered

\* An answer ends a request.
LEMMA RepliedShape == ASSUME NEW what PROVE ErrandShape([step |-> "answered", what |-> what])
BY DEF ErrandShape

\* A write that is decided on what stands, and is within bounds or a deletion.
LEMMA WriteStands ==
    ASSUME Registered, NEW c \in ClientIds, NEW record, NEW e \in Errands, NEW q, ErrandShape(q),
           errand' = [errand EXCEPT ![e] = q],
           clients' = [clients EXCEPT ![c] = record], Wrote(c, clients[c], record),
           record # None => Offered(record)
    PROVE  Registered'
<1> DEFINE last == [read |-> clients[c], wrote |-> record]
<1>1. /\ lineage' = [lineage EXCEPT ![c] = Append(lineage[c], last)]
      /\ lineage'[c] = Append(lineage[c], last)
      /\ \A d \in ClientIds : d # c => lineage'[d] = lineage[d]
  BY DEF Registered, LineageStands, Wrote
<1>2. clients'[c] = record /\ \A d \in ClientIds : d # c => clients'[d] = clients[d]
  BY DEF Registered, LineageStands
<1>3. PICK S : lineage[c] \in Seq(S)
  BY DEF Registered, LineageStands, IsSequence
<1>4. lineage[c] \in Seq(S \cup {last})
  BY <1>3
<1> HIDE DEF last
<1>5. /\ lineage'[c] \in Seq(S \cup {last})
      /\ Len(lineage'[c]) = Len(lineage[c]) + 1 /\ Len(lineage[c]) \in Nat
      /\ DOMAIN lineage'[c] = 1..(Len(lineage[c]) + 1)
      /\ DOMAIN lineage[c] = 1..Len(lineage[c])
      /\ lineage'[c][Len(lineage[c]) + 1] = last
      /\ \A i \in 1..Len(lineage[c]) : lineage'[c][i] = lineage[c][i]
      /\ lineage'[c] # <<>> /\ (lineage[c] = <<>> <=> Len(lineage[c]) = 0)
  BY <1>1, <1>4, AppendProperties, LenProperties, EmptySeq
<1>6. last.read = clients[c] /\ last.wrote = record
  BY DEF last
<1>7. Latest(c)' = record
  BY <1>5, <1>6 DEF Latest
<1>8. LineageStands'
  <2>1. /\ clients' = [d \in ClientIds |-> clients'[d]]
        /\ DOMAIN lineage' = ClientIds /\ DOMAIN errand' = Errands
    BY <1>1 DEF Registered, LineageStands
  <2>2. IsSequence(lineage[c])'
    BY <1>5 DEF IsSequence
  <2>3. \A d \in ClientIds : d # c => IsSequence(lineage[d])' /\ clients'[d] = Latest(d)'
    BY <1>1, <1>2 DEF Registered, LineageStands, Latest, IsSequence
  <2> QED BY <1>2, <1>7, <2>1, <2>2, <2>3 DEF LineageStands
<1>9. UpdatesBuildOnWhatStands'
  <2> SUFFICES ASSUME NEW d \in ClientIds, NEW i \in DOMAIN lineage'[d]
               PROVE  lineage'[d][i].read = IF i = 1 THEN None ELSE lineage'[d][i - 1].wrote
    BY DEF UpdatesBuildOnWhatStands
  <2>1. CASE d # c
    BY <1>1, <2>1 DEF Registered, UpdatesBuildOnWhatStands
  <2>2. CASE d = c /\ i \in 1..Len(lineage[c])
    <3>1. lineage[c][i].read = IF i = 1 THEN None ELSE lineage[c][i - 1].wrote
      BY <1>5, <2>2 DEF Registered, UpdatesBuildOnWhatStands
    <3>2. i # 1 => i - 1 \in 1..Len(lineage[c])
      BY <1>5, <2>2
    <3> QED BY <1>5, <2>2, <3>1, <3>2
  <2>3. CASE d = c /\ i = Len(lineage[c]) + 1
    <3>1. lineage'[c][i].read = Latest(c)
      BY <1>5, <1>6, <2>3 DEF Registered, LineageStands
    <3>2. i = 1 => Latest(c) = None
      BY <1>5, <2>3 DEF Latest
    <3>3. i # 1 => Latest(c) = lineage'[c][i - 1].wrote
      <4> SUFFICES ASSUME i # 1 PROVE Latest(c) = lineage'[c][i - 1].wrote
        OBVIOUS
      <4>1. i - 1 = Len(lineage[c]) /\ i - 1 \in 1..Len(lineage[c]) /\ lineage[c] # <<>>
        BY <1>5, <2>3
      <4> QED BY <1>5, <4>1 DEF Latest
    <3> QED BY <2>3, <3>1, <3>2, <3>3
  <2> QED BY <1>5, <2>1, <2>2, <2>3
<1>10. RegisteredWithinBounds'
  BY <1>1, <1>2 DEF Registered, RegisteredWithinBounds, Offered
<1>11. \A f \in Errands : ErrandShape(errand'[f])
  BY DEF Registered, LineageStands
<1> QED BY <1>8, <1>9, <1>10, <1>11 DEF Registered

\* Every step of a registration request keeps the invariant.
LEMMA RegisteredStep ==
    ASSUME Registered, [RegistrationNext]_<<storeVars, authVars, registrationVars>>
    PROVE  Registered'
<1>1. ASSUME NEW e \in Errands, NEW what, Reply(e, what), UNCHANGED <<clients, lineage>>
      PROVE  Registered'
  BY <1>1, ErrandGoesOn, RepliedShape DEF Reply
<1>2. ASSUME NEW e \in Errands, NEW m \in Metadata, RegisterArrives(e, m) PROVE Registered'
  <2>1. UNCHANGED <<clients, lineage>>
    BY <1>2 DEF RegisterArrives, storeVars
  <2>2. CASE metadata_refused(m)
    BY <1>1, <1>2, <2>1, <2>2 DEF RegisterArrives
  <2>3. CASE ~metadata_refused(m)
    <3> DEFINE confidential == MethodAsked(m) # AUTH_METHOD_NONE
               record == ClientOf(m, IF confidential THEN "ConfidentialSecretHash" ELSE "Public",
                                  IF confidential THEN e ELSE None,
                                  [rat |-> e, method |-> MethodAsked(m),
                                   expires_at |-> IF confidential THEN SecretExpiry ELSE None],
                                  ScopeAsked(m))
               q == [step |-> "put", client_id |-> None, record |-> record]
    <3>1. errand' = [errand EXCEPT ![e] = q]
      BY <1>2, <2>3 DEF RegisterArrives
    <3>2. Offered(record)
      BY <2>3, AcceptedIsOffered
    <3> HIDE DEF record
    <3>3. ErrandShape(q)
      BY <3>2 DEF ErrandShape
    <3> QED BY <2>1, <3>1, <3>3, ErrandGoesOn
  <2> QED BY <2>2, <2>3
<1>3. ASSUME NEW e \in Errands, Refuses(e) PROVE Registered'
  BY <1>1, <1>3 DEF Refuses, storeVars
<1>4. ASSUME NEW e \in Errands, NEW d \in Documents, DocumentFetched(e, d) PROVE Registered'
  <2>1. UNCHANGED <<clients, lineage>>
    BY <1>4 DEF DocumentFetched, storeVars
  <2>2. CASE document_refused(d)
    BY <1>1, <1>4, <2>1, <2>2 DEF DocumentFetched
  <2>3. CASE ~document_refused(d)
    <3> DEFINE q == [step |-> "put", client_id |-> d.client_id, record |-> to_client(d)]
    <3>1. errand' = [errand EXCEPT ![e] = q]
      BY <1>4, <2>3 DEF DocumentFetched
    <3>2. ErrandShape(q)
      BY <2>3, DocumentIsOffered DEF ErrandShape
    <3> QED BY <2>1, <3>1, <3>2, ErrandGoesOn
  <2> QED BY <2>2, <2>3
<1>5. ASSUME NEW e \in Errands, NEW c \in ClientIds, Registers(e, c) PROVE Registered'
  <2>1. Wrote(c, clients[c], errand[e].record)
    BY <1>5 DEF Registers
  <2>2. clients' = [clients EXCEPT ![c] = errand[e].record] /\ Reply(e, "registered")
    BY <1>5 DEF Registers, put_client
  <2>3. Offered(errand[e].record)
    BY <1>5 DEF Registers, Waits, Registered, ErrandShape
  <2> QED BY <2>1, <2>2, <2>3, WriteStands, RepliedShape DEF Reply
<1>6. ASSUME NEW e \in Errands, NEW op \in {"read", "delete", "update"},
             NEW c \in ClientIds, NEW rat, NEW m,
             op = "update" => m \in Metadata, ManageArrives(e, op, c, rat, m)
      PROVE  Registered'
  <2> DEFINE q == [step |-> IF op = "update" THEN "gate" ELSE "authenticate",
                   op |-> op, client_id |-> c, rat |-> rat, metadata |-> m]
  <2>1. errand' = [errand EXCEPT ![e] = q] /\ UNCHANGED <<clients, lineage>>
    BY <1>6 DEF ManageArrives, storeVars
  <2>2. ErrandShape(q)
    BY <1>6 DEF ErrandShape, Managing
  <2> QED BY <2>1, <2>2, ErrandGoesOn
<1>7. ASSUME NEW e \in Errands, NEW step \in {"authenticate", "delete"},
             errand[e].step \in {"gate", "authenticate"}, UNCHANGED <<clients, lineage>>,
             errand' = [errand EXCEPT ![e].step = step]
      PROVE  Registered'
  <2> DEFINE q == [errand[e] EXCEPT !.step = step]
  <2>1. Managing(errand[e])
    BY <1>7 DEF Registered, ErrandShape
  <2>2. q = [step |-> step, op |-> errand[e].op, client_id |-> errand[e].client_id,
             rat |-> errand[e].rat, metadata |-> errand[e].metadata]
    <3>1. errand[e] = [step |-> errand[e].step, op |-> errand[e].op,
                       client_id |-> errand[e].client_id, rat |-> errand[e].rat,
                       metadata |-> errand[e].metadata]
      BY <2>1 DEF Managing
    <3> QED BY <3>1
  <2>3. ErrandShape(q)
    <3>1. q.step = step /\ Managing(q)
      BY <2>1, <2>2 DEF Managing
    <3> QED BY <3>1 DEF ErrandShape
  <2>4. errand' = [errand EXCEPT ![e] = q]
    BY <1>7 DEF Registered, LineageStands
  <2> QED BY <1>7, <2>3, <2>4, ErrandGoesOn
<1>8. ASSUME NEW e \in Errands, Gate(e) PROVE Registered'
  BY <1>1, <1>7, <1>8 DEF Gate, Waits, storeVars
<1>9. ASSUME NEW e \in Errands, Authenticated(e) PROVE Registered'
  <2> DEFINE c == errand[e]
             found == clients[c.client_id]
  <2>1. UNCHANGED <<clients, lineage>> /\ c.step = "authenticate"
    BY <1>9 DEF Authenticated, Waits, storeVars
  <2>2. CASE \E what : Reply(e, what)
    BY <1>1, <2>1, <2>2
  <2>3. CASE errand' = [errand EXCEPT ![e].step = "delete"]
    BY <1>7, <2>1, <2>3
  <2>4. CASE /\ c.op = "update" /\ ~metadata_refused(c.metadata)
             /\ errand' = [errand EXCEPT ![e] =
                    [step |-> "swap", client_id |-> c.client_id, read |-> found,
                     record |-> UpdatedClient(e, found, c.metadata)]]
    <3> DEFINE q == [step |-> "swap", client_id |-> c.client_id, read |-> found,
                     record |-> UpdatedClient(e, found, c.metadata)]
    <3>1. Offered(UpdatedClient(e, found, c.metadata))
      BY <2>4, AcceptedIsOffered DEF UpdatedClient
    <3>2. c.client_id \in ClientIds
      BY <2>1 DEF Registered, ErrandShape, Managing
    <3>3. ErrandShape(q)
      BY <3>1, <3>2 DEF ErrandShape
    <3> QED BY <2>1, <2>4, <3>3, ErrandGoesOn
  <2>5. c.op \in {"read", "delete", "update"}
    BY <2>1 DEF Registered, ErrandShape, Managing
  <2> QED BY <1>9, <2>2, <2>3, <2>4, <2>5 DEF Authenticated
<1>10. ASSUME NEW e \in Errands, Updates(e) PROVE Registered'
  <2> DEFINE c == errand[e]
  <2>1. c.client_id \in ClientIds /\ Offered(c.record)
    BY <1>10 DEF Updates, Waits, Registered, ErrandShape
  <2>2. CASE ClientSwaps(c.client_id, c.read)
    <3>1. /\ clients' = [clients EXCEPT ![c.client_id] = c.record]
          /\ Wrote(c.client_id, clients[c.client_id], c.record) /\ Reply(e, "updated")
      BY <1>10, <2>2 DEF Updates, compare_and_swap_client, ClientSwaps
    <3> QED BY <2>1, <3>1, WriteStands, RepliedShape DEF Reply
  <2>3. CASE ~ClientSwaps(c.client_id, c.read)
    BY <1>1, <1>10, <2>3 DEF Updates, compare_and_swap_client
  <2> QED BY <2>2, <2>3
<1>11. ASSUME NEW e \in Errands, Deletes(e) PROVE Registered'
  <2> DEFINE c == errand[e].client_id
  <2>1. c \in ClientIds
    BY <1>11 DEF Deletes, Waits, Registered, ErrandShape, Managing
  <2>2. clients' = [clients EXCEPT ![c] = None] /\ Reply(e, "deleted")
    BY <1>11 DEF Deletes, delete_client
  <2>3. CASE clients[c] # None
    <3>1. Wrote(c, clients[c], None)
      BY <1>11, <2>3 DEF Deletes
    <3> QED BY <2>1, <2>2, <3>1, WriteStands, RepliedShape DEF Reply
  <2>4. CASE clients[c] = None
    <3>1. UNCHANGED <<clients, lineage>>
      BY <1>11, <2>1, <2>2, <2>4 DEF Deletes, Registered, LineageStands
    <3> QED BY <1>1, <2>2, <3>1
  <2> QED BY <2>3, <2>4
<1>12. ASSUME RegistrationTick \/ UNCHANGED <<storeVars, authVars, registrationVars>>
       PROVE  Registered'
  <2>1. UNCHANGED <<clients, lineage, errand>>
    BY <1>12 DEF RegistrationTick, AuthTick, storeVars, registrationVars
  <2> QED BY <2>1 DEF Registered, LineageStands, Latest, UpdatesBuildOnWhatStands,
                      RegisteredWithinBounds
<1> QED BY <1>2, <1>3, <1>4, <1>5, <1>6, <1>8, <1>9, <1>10, <1>11, <1>12 DEF RegistrationNext

\* Nothing is registered at first.
LEMMA RegisteredAlways == RegistrationSpec => []Registered
<1>1. RegistrationInit => Registered
  <2> SUFFICES ASSUME RegistrationInit PROVE Registered
    OBVIOUS
  <2>1. /\ clients = [c \in ClientIds |-> None] /\ lineage = [c \in ClientIds |-> <<>>]
        /\ errand = [e \in Errands |-> NewErrand]
    BY DEF RegistrationInit, AuthInit, StoreInit, NoErrands, Empty
  <2>2. LineageStands
    BY <2>1, EmptySeq DEF LineageStands, Latest, IsSequence
  <2>3. UpdatesBuildOnWhatStands /\ RegisteredWithinBounds
    BY <2>1 DEF UpdatesBuildOnWhatStands, RegisteredWithinBounds
  <2> QED BY <2>1, <2>2, <2>3 DEF Registered, ErrandShape, NewErrand
<1>2. Registered /\ [RegistrationNext]_<<storeVars, authVars, registrationVars>> => Registered'
  BY RegisteredStep
<1> QED BY <1>1, <1>2, PTL DEF RegistrationSpec

\* Every write of a registration rests on what stood when it was made, for any number of clients
\* and requests at once: no update revives or overwrites what it has not read
\* (update_registration, delete_registration, compare_and_swap_client).
THEOREM UpdatesRestOnWhatStands == RegistrationSpec => []UpdatesBuildOnWhatStands
<1>1. Registered => UpdatesBuildOnWhatStands
  BY DEF Registered
<1> QED BY <1>1, RegisteredAlways, PTL

\* Whatever metadata and documents are registered and updated, in whatever order, a client stays
\* within what the deployment offers (validate, to_client, update_registration).
THEOREM ClientsStayWithinBounds == RegistrationSpec => []RegisteredWithinBounds
<1>1. Registered => RegisteredWithinBounds
  BY DEF Registered
<1> QED BY <1>1, RegisteredAlways, PTL

-----------------------------------------------------------------------------
(***************************************************************************)
(* Pushed authorization requests.  The right to use a handle is in one      *)
(* place at a time: with the record in the store, with a stranger's visit   *)
(* that will put the record back, or used up by the one visit that got past *)
(* it.                                                                      *)
(***************************************************************************)
\* Visit q got past the handle uri, was answered with it, or holds its record to put it back.
GivenSteps == {"validate", "declined", "issue", "issued"}
Past(q, uri) == q.step \in GivenSteps /\ q.given = uri
Names(q, uri) == q.step = "pushed" /\ q.uri = uri
PutsBack(q, uri) == q.step = "restore" /\ q.held = uri

\* A record or a visit that the policy allows.
SignedEnough(q) == policy.require_signed => q.signed
Welcome(q) == SignedEnough(q) /\ (policy.require_pushed => q.door = "pushed")

VisitShape(q) ==
    /\ "uri" \in DOMAIN q <=> q.step = "pushed"
    /\ "given" \in DOMAIN q <=> q.step \in GivenSteps
    /\ q.step = "authenticate" =>
           q.push \in UNION {Pushes[v] : v \in Visits} /\ q.pushed_at \in Nat
    /\ q.step = "check" => /\ q.client_id \in ClientIds /\ q.req \in PushedParameters
                           /\ q.pushed_at \in Nat /\ q.signed \in BOOLEAN /\ SignedEnough(q)
    /\ q.step \in {"store", "pushed", "restore"} => q.record \in PushedRecord /\ SignedEnough(q.record)
    /\ q.step = "pushed" => q.uri \in RequestUris
    /\ q.step = "take" => q.wanted \in RequestUris
    /\ q.step \in {"restore", "lost"} => q.held \in RequestUris
    /\ q.step \in {"validate", "issue", "issued"} => Welcome(q)

RequestsTyped ==
    /\ DOMAIN visit = Visits /\ clock \in Nat
    /\ pushed \in [RequestUris -> Option(PushedRecord)]
    /\ DOMAIN clients = ClientIds /\ DOMAIN client_barriers = ClientIds
    /\ \A v \in Visits : VisitShape(visit[v])

\* A barrier is recorded when its client is deleted, and no client comes back.
BarredMeansDeleted == \A c \in ClientIds : client_barriers[c] # None => clients[c] = None

StoredSigned == \A uri \in RequestUris : pushed[uri] # None => SignedEnough(pushed[uri])

HandlesNamed ==
    \A uri \in RequestUris :
        pushed[uri] # None \/ (\E v \in Visits : Past(visit[v], uri) \/ PutsBack(visit[v], uri))
        => \E w \in Visits : Names(visit[w], uri)

\* A handle is given out once, and every record of it is the one that was pushed.
OnePush ==
    \A uri \in RequestUris, v \in Visits : Names(visit[v], uri) =>
        /\ \A w \in Visits : Names(visit[w], uri) => w = v
        /\ pushed[uri] # None => pushed[uri] = visit[v].record
        /\ \A w \in Visits : PutsBack(visit[w], uri) => visit[w].record = visit[v].record

OneKeeper ==
    \A uri \in RequestUris, v \in Visits : PutsBack(visit[v], uri) =>
        /\ pushed[uri] = None
        /\ \A w \in Visits : ~Past(visit[w], uri) /\ (PutsBack(visit[w], uri) => w = v)

StoredUnused ==
    \A uri \in RequestUris, v \in Visits : pushed[uri] # None => ~Past(visit[v], uri)

OneUse ==
    \A uri \in RequestUris, v, w \in Visits : Past(visit[v], uri) /\ Past(visit[w], uri) => v = w

Accounted(uri, record) ==
    \/ pushed[uri] # None
    \/ clock >= record.expires_at
    \/ clients[record.client_id] = None
    \/ \E w \in Visits : Past(visit[w], uri)
    \/ \E w \in Visits : visit[w].step \in {"restore", "lost"} /\ visit[w].held = uri

NoneLost ==
    \A uri \in RequestUris, v \in Visits :
        Names(visit[v], uri) => Accounted(uri, visit[v].record)

Handed ==
    /\ RequestsTyped /\ BarredMeansDeleted /\ StoredSigned /\ HandlesNamed /\ OnePush /\ OneKeeper
    /\ StoredUnused /\ OneUse /\ NoneLost

\* The invariant says what the properties ask for.
LEMMA HandedMeans ==
    ASSUME Handed
    PROVE  PushedRequestUsedOnce /\ PushedRequestNeverLost /\ NoDoorAroundThePolicy
<1>1. \A v \in Visits, uri \in RequestUris : Used(v, uri) <=> Past(visit[v], uri)
  BY DEF Handed, RequestsTyped, VisitShape, Used, Has, Past
<1>2. PushedRequestUsedOnce
  BY <1>1 DEF PushedRequestUsedOnce, Handed, OneUse
<1>3. PushedRequestNeverLost
  <2> SUFFICES ASSUME NEW v \in Visits, At(v, "pushed")
               PROVE  LET uri == visit[v].uri IN
                      \/ pushed[uri] # None
                      \/ clock >= visit[v].record.expires_at
                      \/ clients[visit[v].record.client_id] = None
                      \/ \E w \in Visits : Used(w, uri)
                      \/ \E w \in Visits :
                             visit[w].step \in {"restore", "lost"} /\ visit[w].held = uri
    BY DEF PushedRequestNeverLost
  <2>1. visit[v].uri \in RequestUris /\ Names(visit[v], visit[v].uri)
    BY DEF At, Names, Handed, RequestsTyped, VisitShape
  <2>2. Accounted(visit[v].uri, visit[v].record)
    BY <2>1 DEF Handed, NoneLost
  <2> QED BY <1>1, <2>1, <2>2 DEF Accounted
<1>4. NoDoorAroundThePolicy
  BY DEF NoDoorAroundThePolicy, At, Handed, RequestsTyped, VisitShape, Welcome, SignedEnough
<1> QED BY <1>2, <1>3, <1>4

\* A visit that goes on without a handle changing hands.
Proceeds(v, q) ==
    /\ visit' = [visit EXCEPT ![v] = q]
    /\ VisitShape(q)
    /\ visit[v].step \notin {"pushed", "lost"} /\ q.step \notin {"pushed", "restore"}
    /\ \A uri \in RequestUris : Past(q, uri) <=> Past(visit[v], uri)
    /\ visit[v].step = "restore" => q.step = "lost" /\ q.held = visit[v].held

\* Such a step, and a write to the other maps of the store, keeps the invariant.
LEMMA ProceedsKeeps ==
    ASSUME Handed, NEW v \in Visits, NEW q, Proceeds(v, q),
           UNCHANGED <<pushed, clients, client_barriers, clock, policy>>
    PROVE  Handed'
<1>1. visit'[v] = q /\ \A w \in Visits : w # v => visit'[w] = visit[w]
  BY DEF Handed, RequestsTyped, Proceeds
<1>2. \A w \in Visits, uri \in RequestUris :
          /\ Past(visit'[w], uri) <=> Past(visit[w], uri)
          /\ Names(visit'[w], uri) <=> Names(visit[w], uri)
          /\ Names(visit[w], uri) => visit'[w] = visit[w]
          /\ PutsBack(visit'[w], uri) => PutsBack(visit[w], uri) /\ visit'[w] = visit[w]
          /\ visit[w].step \in {"restore", "lost"} =>
                 visit'[w].step \in {"restore", "lost"} /\ visit'[w].held = visit[w].held
  BY <1>1 DEF Proceeds, Names, PutsBack
<1>3. RequestsTyped'
  <2>1. \A w \in Visits : VisitShape(visit'[w])
    BY <1>1 DEF Proceeds, Handed, RequestsTyped
  <2> QED BY <2>1 DEF Handed, RequestsTyped, Proceeds, VisitShape, SignedEnough, Welcome
<1>4. BarredMeansDeleted' /\ StoredSigned'
  BY DEF Handed, BarredMeansDeleted, StoredSigned, SignedEnough
<1>5. HandlesNamed' /\ OnePush'
  BY <1>2 DEF Handed, HandlesNamed, OnePush
<1>6. OneKeeper' /\ StoredUnused' /\ OneUse'
  BY <1>2 DEF Handed, OneKeeper, StoredUnused, OneUse
<1>7. NoneLost'
  BY <1>2 DEF Handed, NoneLost, Accounted
<1> QED BY <1>3, <1>4, <1>5, <1>6, <1>7 DEF Handed

\* An answer holds nothing.
LEMMA AnswerProceeds ==
    ASSUME Handed, NEW v \in Visits, NEW why, Answer(v, why),
           visit[v].step \notin {"pushed", "lost", "restore"} \cup GivenSteps
    PROVE  \E q : Proceeds(v, q)
<1> DEFINE q == [step |-> "answered", why |-> why]
<1>1. visit' = [visit EXCEPT ![v] = q]
  BY DEF Answer
<1>2. VisitShape(q)
  BY DEF VisitShape, GivenSteps
<1>3. \A uri \in RequestUris : ~Past(q, uri) /\ ~Past(visit[v], uri)
  BY DEF Past, GivenSteps
<1>4. q.step \notin {"pushed", "restore"}
  OBVIOUS
<1> QED BY <1>1, <1>2, <1>3, <1>4 DEF Proceeds

\* A visit that begins to be validated, without a handle.
LEMMA ValidateProceeds ==
    ASSUME Handed, NEW v \in Visits, NEW door, NEW req, NEW signed, NEW at,
           Validate(v, door, req, None, signed, at), visit[v].step = "new",
           policy.require_signed => signed, policy.require_pushed => door = "pushed"
    PROVE  \E q : Proceeds(v, q)
<1> DEFINE q == [step |-> "validate", door |-> door, req |-> req, given |-> None,
                 signed |-> signed, received_at |-> at]
<1>1. visit' = [visit EXCEPT ![v] = q]
  BY DEF Validate
<1>2. q.step = "validate" /\ q.signed = signed /\ q.door = door /\ q.given = None
      /\ DOMAIN q = {"step", "door", "req", "given", "signed", "received_at"}
  OBVIOUS
<1> HIDE DEF q
<1>3. VisitShape(q)
  BY <1>2 DEF VisitShape, GivenSteps, Welcome, SignedEnough
<1>4. \A uri \in RequestUris : ~Past(q, uri) /\ ~Past(visit[v], uri)
  BY <1>2, RequestAssumption DEF Past, GivenSteps
<1> QED BY <1>1, <1>2, <1>3, <1>4 DEF Proceeds

\* The requests of S, bound to the key of proof p if there is one.
Tied(S, p) == {[req EXCEPT !.dpop_jkt = proof.jwk.id] : req \in S, proof \in {p} \ {None}}

\* Binding a request to the key of a proof yields one of those, or the request itself.
LEMMA BoundRequest ==
    ASSUME NEW S, NEW r \in S, NEW p
    PROVE  bind_par_dpop(r, p).req \in S \cup Tied(S, p)
<1>1. ASSUME p # None PROVE [r EXCEPT !.dpop_jkt = p.jwk.id] \in Tied(S, p)
  BY <1>1, SMT DEF Tied
<1>2. ASSUME p # None PROVE bind_par_dpop(r, p).req = [r EXCEPT !.dpop_jkt = p.jwk.id]
  BY <1>2 DEF bind_par_dpop
<1>3. ASSUME p = None PROVE bind_par_dpop(r, p).req = r
  BY <1>3 DEF bind_par_dpop
<1> QED BY <1>1, <1>2, <1>3

\* What a push asks for is one of the requests in circulation, and signed if it must be.
LEMMA PushedParametersFacts ==
    ASSUME NEW p \in UNION {Pushes[v] : v \in Visits}, NEW c,
           pushed_parameters(p, c).ok
    PROVE  /\ bind_par_dpop(pushed_parameters(p, c).req, p.proof).req \in PushedParameters
           /\ pushed_parameters(p, c).signed \in BOOLEAN
           /\ policy.require_signed => pushed_parameters(p, c).signed
<1> DEFINE forms == {from_pairs(p.pairs)} \cup
                    {as_request(o) : o \in {param(p.pairs, "request")} \ {None}}
<1>1. pushed_parameters(p, c).req \in forms
  BY DEF pushed_parameters
<1>2. forms \cup Tied(forms, p.proof) \subseteq PushedParameters
  BY DEF PushedParameters, Tied
<1>3. pushed_parameters(p, c).signed \in BOOLEAN
      /\ (policy.require_signed => pushed_parameters(p, c).signed)
  BY DEF pushed_parameters
<1> HIDE DEF forms
<1>4. bind_par_dpop(pushed_parameters(p, c).req, p.proof).req \in forms \cup Tied(forms, p.proof)
  BY <1>1, BoundRequest
<1> QED BY <1>2, <1>3, <1>4

\* The pushes before they are stored.
LEMMA PushProceeds ==
    ASSUME Handed, NEW v \in Visits,
           \/ \E p \in Pushes[v] : PushArrives(v, p)
           \/ PushAuthenticated(v) \/ PushChecked(v)
    PROVE  \E q : Proceeds(v, q)
<1>1. ASSUME NEW p \in Pushes[v], PushArrives(v, p) PROVE \E q : Proceeds(v, q)
  <2> DEFINE q == [step |-> "authenticate", push |-> p, pushed_at |-> clock]
  <2>1. visit' = [visit EXCEPT ![v] = q] /\ visit[v].step = "new"
    BY <1>1 DEF PushArrives, At
  <2>2. VisitShape(q)
    BY DEF VisitShape, GivenSteps, Handed, RequestsTyped
  <2>3. \A uri \in RequestUris : ~Past(q, uri) /\ ~Past(visit[v], uri)
    BY <2>1 DEF Past, GivenSteps
  <2>4. q.step \notin {"pushed", "restore"}
    OBVIOUS
  <2> QED BY <2>1, <2>2, <2>3, <2>4 DEF Proceeds
<1>2. ASSUME PushAuthenticated(v) PROVE \E q : Proceeds(v, q)
  <2> DEFINE p == visit[v].push
             asked == pushed_parameters(p, p.client_id)
             bound == bind_par_dpop(asked.req, p.proof)
             q == [step |-> "check", client_id |-> p.client_id, req |-> bound.req,
                   signed |-> asked.signed, pushed_at |-> visit[v].pushed_at]
  <2>1. visit[v].step = "authenticate"
    BY <1>2 DEF PushAuthenticated, At
  <2>2. (\E why : Answer(v, why)) \/ (asked.ok /\ visit' = [visit EXCEPT ![v] = q])
    <3> DEFINE seen == classify_client_credential(p.client_id, clients[p.client_id], p.cred, clock)
    <3>1. CASE seen.verdict = "refused"
      BY <1>2, <3>1 DEF PushAuthenticated
    <3>2. CASE seen.verdict # "refused" /\ (param(p.pairs, "request_uri") # None \/ ~asked.ok)
      BY <1>2, <3>2 DEF PushAuthenticated
    <3>3. CASE seen.verdict # "refused" /\ param(p.pairs, "request_uri") = None /\ asked.ok
      BY <1>2, <3>3 DEF PushAuthenticated
    <3> QED BY <3>1, <3>2, <3>3
  <2>3. CASE \E why : Answer(v, why)
    BY <2>1, <2>3, AnswerProceeds DEF GivenSteps
  <2>4. CASE asked.ok /\ visit' = [visit EXCEPT ![v] = q]
    <3>1. p \in UNION {Pushes[w] : w \in Visits} /\ visit[v].pushed_at \in Nat
      BY <2>1 DEF Handed, RequestsTyped, VisitShape
    <3>2. p.client_id \in ClientIds
      BY <3>1, RequestAssumption
    <3>3. bound.req \in PushedParameters /\ asked.signed \in BOOLEAN
          /\ (policy.require_signed => asked.signed)
      BY <2>4, <3>1, PushedParametersFacts
    <3> HIDE DEF bound, asked
    <3>4. VisitShape(q)
      BY <3>1, <3>2, <3>3 DEF VisitShape, GivenSteps, SignedEnough
    <3>5. \A uri \in RequestUris : ~Past(q, uri) /\ ~Past(visit[v], uri)
      BY <2>1 DEF Past, GivenSteps
    <3>6. q.step \notin {"pushed", "restore"}
      OBVIOUS
    <3> QED BY <2>1, <2>4, <3>4, <3>5, <3>6 DEF Proceeds
  <2> QED BY <2>2, <2>3, <2>4
<1>3. ASSUME PushChecked(v) PROVE \E q : Proceeds(v, q)
  <2> DEFINE c == visit[v]
             record == [client_id |-> c.client_id, pushed_at |-> c.pushed_at, req |-> c.req,
                        signed |-> c.signed,
                        expires_at |-> clock + Later(request_uri_ttl, MIN_REQUEST_URI_TTL)]
             q == [step |-> "store", record |-> record]
  <2>1. c.step = "check"
    BY <1>3 DEF PushChecked, At
  <2>2. (\E why : Answer(v, why)) \/ visit' = [visit EXCEPT ![v] = q]
    BY <1>3 DEF PushChecked
  <2>3. CASE \E why : Answer(v, why)
    BY <2>1, <2>3, AnswerProceeds DEF GivenSteps
  <2>4. CASE visit' = [visit EXCEPT ![v] = q]
    <3>1. record \in PushedRecord /\ SignedEnough(record)
      BY <2>1, RequestAssumption DEF Handed, RequestsTyped, VisitShape, PushedRecord, SignedEnough,
         Later
    <3> HIDE DEF record
    <3>2. VisitShape(q)
      BY <3>1 DEF VisitShape, GivenSteps
    <3>3. \A uri \in RequestUris : ~Past(q, uri) /\ ~Past(visit[v], uri)
      BY <2>1 DEF Past, GivenSteps
    <3>4. q.step \notin {"pushed", "restore"}
      OBVIOUS
    <3> QED BY <2>1, <2>4, <3>2, <3>3, <3>4 DEF Proceeds
  <2> QED BY <2>2, <2>3, <2>4
<1> QED BY <1>1, <1>2, <1>3

\* A visit that keeps the handle it was given, if any.
LEMMA KeepingProceeds ==
    ASSUME Handed, NEW v \in Visits, NEW q, visit' = [visit EXCEPT ![v] = q],
           visit[v].step \in GivenSteps, q.step \in GivenSteps, "given" \in DOMAIN q,
           "uri" \notin DOMAIN q, q.given = visit[v].given,
           q.step \in {"validate", "issue", "issued"} => Welcome(q)
    PROVE  \E p : Proceeds(v, p)
<1>1. VisitShape(q)
  BY DEF VisitShape, GivenSteps
<1>2. \A uri \in RequestUris : Past(q, uri) <=> Past(visit[v], uri)
  BY DEF Past
<1> QED BY <1>1, <1>2 DEF Proceeds, GivenSteps

\* The steps of a visit to the authorization endpoint that leave the stored requests alone.
LEMMA VisitProceeds ==
    ASSUME Handed, NEW v \in Visits,
           \/ \E q \in Queries[v] : VisitArrives(v, q)
           \/ RequestThrottled(v) \/ RestoreFails(v)
           \/ \E login \in Logins, approves \in BOOLEAN : VisitValidated(v, login, approves)
           \/ \E s \in Subjects, code \in AuthCodes : VisitIssues(v, s, code)
    PROVE  \E q : Proceeds(v, q)
<1> visit[v].step = "validate" \/ visit[v].step = "issue" => Welcome(visit[v])
  BY DEF Handed, RequestsTyped, VisitShape
<1>1. ASSUME NEW q \in Queries[v], VisitArrives(v, q) PROVE \E p : Proceeds(v, p)
  <2> DEFINE by_reference == param(q, "request_uri")
             by_value == param(q, "request")
             client_id == param(q, "client_id")
             taker == [step |-> "take", wanted |-> by_reference, client_id |-> client_id,
                       received_at |-> clock]
  <2>1. visit[v].step = "new"
    BY <1>1 DEF VisitArrives, At
  <2>2. \/ \E why : Answer(v, why)
        \/ PlainDoorOpen /\ Validate(v, "plain", from_pairs(q), None, FALSE, clock)
        \/ SignedDoorOpen /\ Validate(v, "signed", as_request(by_value), None, TRUE, clock)
        \/ by_reference # None /\ visit' = [visit EXCEPT ![v] = taker]
    BY <1>1 DEF VisitArrives
  <2>3. CASE \E why : Answer(v, why)
    BY <2>1, <2>3, AnswerProceeds DEF GivenSteps
  <2>4. CASE PlainDoorOpen /\ Validate(v, "plain", from_pairs(q), None, FALSE, clock)
    BY <2>1, <2>4, ValidateProceeds DEF PlainDoorOpen
  <2>5. CASE SignedDoorOpen /\ Validate(v, "signed", as_request(by_value), None, TRUE, clock)
    BY <2>1, <2>5, ValidateProceeds DEF SignedDoorOpen
  <2>6. CASE by_reference # None /\ visit' = [visit EXCEPT ![v] = taker]
    <3>1. by_reference \in RequestUris
      BY <2>6, RequestAssumption DEF Option
    <3> HIDE DEF by_reference, client_id
    <3>2. VisitShape(taker)
      BY <3>1 DEF VisitShape, GivenSteps
    <3>3. \A uri \in RequestUris : ~Past(taker, uri) /\ ~Past(visit[v], uri)
      BY <2>1 DEF Past, GivenSteps
    <3> QED BY <2>1, <2>6, <3>2, <3>3 DEF Proceeds
  <2> QED BY <2>2, <2>3, <2>4, <2>5, <2>6
<1>2. ASSUME RequestThrottled(v) PROVE \E p : Proceeds(v, p)
  <2> DEFINE kept == IF visit[v].step = "validate" THEN visit[v].given ELSE None
             q == [step |-> "declined", how |-> "direct", given |-> kept]
  <2>1. visit' = [visit EXCEPT ![v] = q] /\ visit[v].step \in {"check", "validate"}
    BY <1>2 DEF RequestThrottled
  <2>2. q.step = "declined" /\ q.given = kept /\ "given" \in DOMAIN q /\ "uri" \notin DOMAIN q
    OBVIOUS
  <2>3. CASE visit[v].step = "validate"
    BY <2>1, <2>2, <2>3, KeepingProceeds DEF GivenSteps
  <2>4. CASE visit[v].step = "check"
    <3>1. VisitShape(q)
      BY DEF VisitShape, GivenSteps
    <3>2. \A uri \in RequestUris : ~Past(q, uri) /\ ~Past(visit[v], uri)
      BY <2>2, <2>4, RequestAssumption DEF Past, GivenSteps
    <3> QED BY <2>1, <2>2, <2>4, <3>1, <3>2 DEF Proceeds
  <2> QED BY <2>1, <2>3, <2>4
<1>3. ASSUME RestoreFails(v) PROVE \E p : Proceeds(v, p)
  <2> DEFINE q == [step |-> "lost", held |-> visit[v].held]
  <2>1. visit' = [visit EXCEPT ![v] = q] /\ visit[v].step = "restore"
    BY <1>3 DEF RestoreFails, At
  <2>2. VisitShape(q)
    BY <2>1 DEF Handed, RequestsTyped, VisitShape, GivenSteps
  <2>3. \A uri \in RequestUris : ~Past(q, uri) /\ ~Past(visit[v], uri)
    BY <2>1 DEF Past, GivenSteps
  <2>4. q.step = "lost" /\ q.held = visit[v].held
    OBVIOUS
  <2> HIDE DEF q
  <2> QED BY <2>1, <2>2, <2>3, <2>4 DEF Proceeds
<1>4. ASSUME NEW login, NEW approves, VisitValidated(v, login, approves)
      PROVE  \E p : Proceeds(v, p)
  <2> DEFINE turned(how) == [step |-> "declined", given |-> visit[v].given, how |-> how]
             let_in(uri) == [step |-> "issue", given |-> visit[v].given, door |-> visit[v].door,
                             signed |-> visit[v].signed, client_id |-> visit[v].req.client_id,
                             received_at |-> visit[v].received_at, redirect_uri |-> uri]
  <2>1. visit[v].step = "validate"
    BY <1>4 DEF VisitValidated, At
  <2>2. \/ \E how : visit' = [visit EXCEPT ![v] = turned(how)]
        \/ \E uri : visit' = [visit EXCEPT ![v] = let_in(uri)]
    BY <1>4 DEF VisitValidated
  <2>3. ASSUME NEW how, visit' = [visit EXCEPT ![v] = turned(how)] PROVE \E p : Proceeds(v, p)
    <3> DEFINE q == turned(how)
    <3>1. q.step = "declined" /\ q.given = visit[v].given /\ DOMAIN q = {"step", "given", "how"}
      OBVIOUS
    <3>2. visit' = [visit EXCEPT ![v] = q]
      BY <2>3
    <3> HIDE DEF q
    <3> QED BY <2>1, <3>1, <3>2, KeepingProceeds DEF GivenSteps
  <2>4. ASSUME NEW uri, visit' = [visit EXCEPT ![v] = let_in(uri)] PROVE \E p : Proceeds(v, p)
    <3> DEFINE q == let_in(uri)
    <3>1. /\ q.step = "issue" /\ q.given = visit[v].given
          /\ q.door = visit[v].door /\ q.signed = visit[v].signed
          /\ "given" \in DOMAIN q /\ "uri" \notin DOMAIN q
      OBVIOUS
    <3>2. visit' = [visit EXCEPT ![v] = q]
      BY <2>4
    <3> HIDE DEF q
    <3>3. Welcome(q)
      BY <2>1, <3>1 DEF Welcome, SignedEnough
    <3> QED BY <2>1, <3>1, <3>2, <3>3, KeepingProceeds DEF GivenSteps
  <2> QED BY <2>2, <2>3, <2>4
<1>5. ASSUME NEW s, NEW code, VisitIssues(v, s, code) PROVE \E p : Proceeds(v, p)
  <2> DEFINE q == [step |-> "issued", given |-> visit[v].given, door |-> visit[v].door,
                   signed |-> visit[v].signed, code |-> code]
  <2>1. visit' = [visit EXCEPT ![v] = q] /\ visit[v].step = "issue"
    BY <1>5 DEF VisitIssues, At
  <2>2. /\ q.step = "issued" /\ q.given = visit[v].given
        /\ q.door = visit[v].door /\ q.signed = visit[v].signed
        /\ "given" \in DOMAIN q /\ "uri" \notin DOMAIN q
    OBVIOUS
  <2> HIDE DEF q
  <2>3. Welcome(q)
    BY <2>1, <2>2 DEF Welcome, SignedEnough
  <2> QED BY <2>1, <2>2, <2>3, KeepingProceeds DEF GivenSteps
<1> QED BY <1>1, <1>2, <1>3, <1>4, <1>5

\* A handle is fresh when it is given out, and the record goes into the store with it.
LEMMA PushStoredKeeps ==
    ASSUME Handed, NEW v \in Visits, NEW uri \in RequestUris, PushStored(v, uri)
    PROVE  Handed'
<1> DEFINE record == visit[v].record
           q == [step |-> "pushed", uri |-> uri, record |-> record]
<1>1. visit[v].step = "store" /\ record \in PushedRecord /\ SignedEnough(record)
  BY DEF PushStored, At, Handed, RequestsTyped, VisitShape
<1>2. UNCHANGED <<clients, client_barriers, clock, policy>>
  BY DEF PushStored, put_pushed_authorization_request, barriers, authVars
<1>3. CASE PushRefused(record)
  <2>1. Answer(v, "invalid_client") /\ pushed' = pushed
    BY <1>3 DEF PushStored, put_pushed_authorization_request
  <2>2. PICK p : Proceeds(v, p)
    BY <1>1, <2>1, AnswerProceeds DEF GivenSteps
  <2> QED BY <1>2, <2>1, <2>2, ProceedsKeeps
<1>4. CASE ~PushRefused(record)
  <2>1. visit' = [visit EXCEPT ![v] = q] /\ pushed' = [pushed EXCEPT ![uri] = record]
    BY <1>4 DEF PushStored, put_pushed_authorization_request
  <2>2. q.step = "pushed" /\ q.uri = uri /\ q.record = record /\ DOMAIN q = {"step", "uri", "record"}
    OBVIOUS
  <2>3. \A w \in Visits : ~Names(visit[w], uri)
    BY DEF PushStored, Names, Handed, RequestsTyped, VisitShape
  <2>4. pushed[uri] = None /\ \A w \in Visits : ~Past(visit[w], uri) /\ ~PutsBack(visit[w], uri)
    BY <2>3 DEF Handed, HandlesNamed, PushStored
  <2> HIDE DEF q, record
  <2>5. /\ visit'[v] = q /\ \A w \in Visits : w # v => visit'[w] = visit[w]
        /\ pushed'[uri] = record /\ \A x \in RequestUris : x # uri => pushed'[x] = pushed[x]
    BY <2>1 DEF Handed, RequestsTyped
  <2>6. \A w \in Visits, x \in RequestUris :
            /\ Past(visit'[w], x) <=> Past(visit[w], x)
            /\ Names(visit'[w], x) <=> Names(visit[w], x) \/ (w = v /\ x = uri)
            /\ Names(visit[w], x) => visit'[w] = visit[w]
            /\ PutsBack(visit'[w], x) => PutsBack(visit[w], x) /\ visit'[w] = visit[w]
            /\ visit[w].step \in {"restore", "lost"} =>
                   visit'[w].step \in {"restore", "lost"} /\ visit'[w].held = visit[w].held
    BY <1>1, <2>2, <2>5 DEF Past, Names, PutsBack, GivenSteps
  <2>7. RequestsTyped'
    <3>1. VisitShape(q)
      BY <1>1, <2>2 DEF VisitShape, GivenSteps
    <3>2. \A w \in Visits : VisitShape(visit'[w])
      BY <2>5, <3>1 DEF Handed, RequestsTyped
    <3>3. pushed' \in [RequestUris -> Option(PushedRecord)]
      BY <1>1, <2>1 DEF Handed, RequestsTyped, Option
    <3> QED BY <1>2, <2>1, <3>2, <3>3 DEF Handed, RequestsTyped, VisitShape, SignedEnough, Welcome
  <2>8. BarredMeansDeleted' /\ StoredSigned'
    BY <1>1, <1>2, <2>5 DEF Handed, BarredMeansDeleted, StoredSigned, SignedEnough
  <2>9. HandlesNamed'
    BY <2>5, <2>6 DEF Handed, HandlesNamed
  <2>10. OnePush'
    BY <2>2, <2>3, <2>4, <2>5, <2>6 DEF Handed, OnePush
  <2>11. OneKeeper' /\ StoredUnused' /\ OneUse'
    BY <2>4, <2>5, <2>6 DEF Handed, OneKeeper, StoredUnused, OneUse
  <2>12. NoneLost'
    <3> SUFFICES ASSUME NEW x \in RequestUris, NEW w \in Visits, Names(visit[w], x)'
                 PROVE  Accounted(x, visit[w].record)'
      BY DEF NoneLost
    <3>1. CASE x = uri
      <4>1. pushed'[x] # None
        BY <1>1, <2>5, <3>1, RequestAssumption
      <4> QED BY <4>1 DEF Accounted
    <3>2. CASE x # uri
      <4>1. visit'[w] = visit[w] /\ Accounted(x, visit[w].record)
        BY <2>6, <3>2 DEF Handed, NoneLost
      <4> QED BY <1>2, <2>5, <2>6, <3>2, <4>1 DEF Accounted
    <3> QED BY <3>1, <3>2
  <2> QED BY <2>7, <2>8, <2>9, <2>10, <2>11, <2>12 DEF Handed
<1> QED BY <1>3, <1>4

\* What becomes of a record that visit v takes out of the store: it gets past the handle, keeps the
\* record to put it back, or finds it expired.
Takes(v, uri, q) ==
    /\ visit' = [visit EXCEPT ![v] = q] /\ pushed' = [pushed EXCEPT ![uri] = None]
    /\ visit[v].step = "take" /\ pushed[uri] # None
    /\ VisitShape(q) /\ q.step # "pushed"
    /\ \A x \in RequestUris : Past(q, x) => x = uri /\ q.step # "restore"
    /\ \A x \in RequestUris : PutsBack(q, x) => x = uri /\ q.record = pushed[uri]
    /\ Past(q, uri) \/ PutsBack(q, uri) \/ clock >= pushed[uri].expires_at

\* Whatever becomes of it, it is accounted for.
LEMMA TakesKeeps ==
    ASSUME Handed, NEW v \in Visits, NEW uri \in RequestUris, NEW q, Takes(v, uri, q),
           UNCHANGED <<clients, client_barriers, clock, policy>>
    PROVE  Handed'
<1>1. /\ visit'[v] = q /\ \A w \in Visits : w # v => visit'[w] = visit[w]
      /\ pushed'[uri] = None /\ \A x \in RequestUris : x # uri => pushed'[x] = pushed[x]
  BY DEF Takes, Handed, RequestsTyped
<1>2. \A w \in Visits : ~Past(visit[w], uri) /\ ~PutsBack(visit[w], uri)
  BY DEF Takes, Handed, OneKeeper, StoredUnused
<1>3. \A w \in Visits : Names(visit[w], uri) => visit[w].record = pushed[uri]
  BY DEF Takes, Handed, OnePush
<1>4. \A w \in Visits, x \in RequestUris :
          /\ Names(visit'[w], x) <=> Names(visit[w], x)
          /\ Names(visit[w], x) => visit'[w] = visit[w]
          /\ Past(visit[w], x) => Past(visit'[w], x)
          /\ Past(visit'[w], x) => Past(visit[w], x) \/ (x = uri /\ w = v)
          /\ PutsBack(visit'[w], x) =>
                 \/ PutsBack(visit[w], x) /\ visit'[w] = visit[w]
                 \/ x = uri /\ w = v /\ visit'[w].record = pushed[uri]
          /\ visit[w].step \in {"restore", "lost"} => visit'[w] = visit[w]
  BY <1>1 DEF Takes, Past, Names, PutsBack, GivenSteps
<1>5. RequestsTyped'
  <2>1. \A w \in Visits : VisitShape(visit'[w])
    BY <1>1 DEF Takes, Handed, RequestsTyped
  <2>2. pushed' \in [RequestUris -> Option(PushedRecord)]
    BY DEF Takes, Handed, RequestsTyped, Option
  <2> QED BY <2>1, <2>2 DEF Handed, RequestsTyped, Takes, VisitShape, SignedEnough, Welcome
<1>6. BarredMeansDeleted' /\ StoredSigned'
  BY <1>1 DEF Handed, BarredMeansDeleted, StoredSigned, SignedEnough
<1>7. HandlesNamed'
  BY <1>1, <1>4 DEF Handed, HandlesNamed, Takes
<1>8. OnePush'
  BY <1>1, <1>3, <1>4 DEF Handed, OnePush
<1>9. OneKeeper'
  BY <1>1, <1>2, <1>4 DEF Handed, OneKeeper, Takes, Past, PutsBack
<1>10. StoredUnused' /\ OneUse'
  BY <1>1, <1>2, <1>4 DEF Handed, StoredUnused, OneUse
<1>11. NoneLost'
  <2> SUFFICES ASSUME NEW x \in RequestUris, NEW w \in Visits, Names(visit[w], x)'
               PROVE  Accounted(x, visit[w].record)'
    BY DEF NoneLost
  <2>1. Names(visit[w], x) /\ visit'[w] = visit[w] /\ Accounted(x, visit[w].record)
    BY <1>4 DEF Handed, NoneLost
  <2>2. CASE x # uri
    BY <1>1, <1>4, <2>1, <2>2 DEF Accounted
  <2>3. CASE x = uri
    <3>1. visit[w].record = pushed[uri]
      BY <1>3, <2>1, <2>3
    <3>2. Past(visit'[v], uri) \/ PutsBack(visit'[v], uri) \/ clock >= pushed[uri].expires_at
      BY <1>1 DEF Takes
    <3> QED BY <2>1, <2>3, <3>1, <3>2 DEF Accounted, PutsBack
  <2> QED BY <2>2, <2>3
<1> QED BY <1>5, <1>6, <1>7, <1>8, <1>9, <1>10, <1>11 DEF Handed

\* The four ends of a visit that presents a handle.
LEMMA TakePushedKeeps ==
    ASSUME Handed, NEW v \in Visits, TakePushed(v)
    PROVE  Handed'
<1> DEFINE c == visit[v]
           uri == c.wanted
           record == pushed[uri]
<1>1. c.step = "take" /\ uri \in RequestUris
  BY DEF TakePushed, At, Handed, RequestsTyped, VisitShape
<1>2. /\ UNCHANGED <<clients, client_barriers, clock, policy>>
      /\ pushed' = [pushed EXCEPT ![uri] = None]
  BY DEF TakePushed, take_pushed_authorization_request, barriers, authVars
<1>3. CASE record = None
  <2>1. Answer(v, "invalid_request_uri")
    BY <1>3 DEF TakePushed
  <2>2. pushed' = pushed
    BY <1>1, <1>2, <1>3 DEF Handed, RequestsTyped
  <2>3. PICK q : Proceeds(v, q)
    BY <1>1, <2>1, AnswerProceeds DEF GivenSteps
  <2> QED BY <1>2, <2>2, <2>3, ProceedsKeeps
<1>4. CASE record # None
  <2>1. record \in PushedRecord /\ SignedEnough(record)
    BY <1>1, <1>4 DEF Handed, RequestsTyped, StoredSigned, Option
  <2>2. \/ visit' = [visit EXCEPT ![v] = [step |-> "restore", held |-> uri, record |-> record]]
        \/ clock >= record.expires_at /\ Answer(v, "invalid_request_uri")
        \/ Validate(v, "pushed", record.req, uri, record.signed, c.received_at)
    BY <1>4 DEF TakePushed
  <2>3. CASE visit' = [visit EXCEPT ![v] = [step |-> "restore", held |-> uri, record |-> record]]
    <3> DEFINE q == [step |-> "restore", held |-> uri, record |-> record]
    <3>1. q.step = "restore" /\ q.held = uri /\ q.record = record
          /\ DOMAIN q = {"step", "held", "record"}
      OBVIOUS
    <3>2. visit' = [visit EXCEPT ![v] = q]
      BY <2>3
    <3> HIDE DEF q
    <3>3. VisitShape(q)
      BY <1>1, <2>1, <3>1 DEF VisitShape, GivenSteps
    <3>4. Takes(v, uri, q)
      BY <1>1, <1>2, <1>4, <3>1, <3>2, <3>3 DEF Takes, Past, PutsBack, GivenSteps
    <3> HIDE DEF uri
    <3> QED BY <1>1, <1>2, <3>4, TakesKeeps
  <2>4. CASE clock >= record.expires_at /\ Answer(v, "invalid_request_uri")
    <3> DEFINE q == [step |-> "answered", why |-> "invalid_request_uri"]
    <3>1. q.step = "answered" /\ DOMAIN q = {"step", "why"}
      OBVIOUS
    <3>2. visit' = [visit EXCEPT ![v] = q]
      BY <2>4 DEF Answer
    <3> HIDE DEF q
    <3>3. VisitShape(q)
      BY <3>1 DEF VisitShape, GivenSteps
    <3>4. Takes(v, uri, q)
      BY <1>1, <1>2, <1>4, <2>4, <3>1, <3>2, <3>3 DEF Takes, Past, PutsBack, GivenSteps
    <3> HIDE DEF uri
    <3> QED BY <1>1, <1>2, <3>4, TakesKeeps
  <2>5. CASE Validate(v, "pushed", record.req, uri, record.signed, c.received_at)
    <3> DEFINE q == [step |-> "validate", door |-> "pushed", req |-> record.req, given |-> uri,
                     signed |-> record.signed, received_at |-> c.received_at]
    <3>1. q.step = "validate" /\ q.door = "pushed" /\ q.given = uri /\ q.signed = record.signed
          /\ DOMAIN q = {"step", "door", "req", "given", "signed", "received_at"}
      OBVIOUS
    <3>2. visit' = [visit EXCEPT ![v] = q]
      BY <2>5 DEF Validate
    <3> HIDE DEF q
    <3>3. VisitShape(q)
      BY <2>1, <3>1 DEF VisitShape, GivenSteps, Welcome, SignedEnough
    <3>4. Takes(v, uri, q)
      BY <1>1, <1>2, <1>4, <3>1, <3>2, <3>3 DEF Takes, Past, PutsBack, GivenSteps
    <3> HIDE DEF uri
    <3> QED BY <1>1, <1>2, <3>4, TakesKeeps
  <2> QED BY <2>2, <2>3, <2>4, <2>5
<1> QED BY <1>3, <1>4

\* What a stranger took goes back under its handle; a store that refuses it has seen its client go.
LEMMA RestorePushedKeeps ==
    ASSUME Handed, NEW v \in Visits, RestorePushed(v)
    PROVE  Handed'
<1> DEFINE uri == visit[v].held
           record == visit[v].record
           q == [step |-> "answered", why |-> "invalid_request_uri"]
<1>1. visit[v].step = "restore" /\ uri \in RequestUris /\ PutsBack(visit[v], uri)
      /\ record \in PushedRecord /\ SignedEnough(record)
  BY DEF RestorePushed, At, PutsBack, Handed, RequestsTyped, VisitShape
<1>2. /\ UNCHANGED <<clients, client_barriers, clock, policy>>
      /\ visit' = [visit EXCEPT ![v] = q]
      /\ pushed' = IF PushRefused(record) THEN pushed ELSE [pushed EXCEPT ![uri] = record]
  BY DEF RestorePushed, put_pushed_authorization_request, barriers, authVars, Answer
<1>3. q.step = "answered" /\ DOMAIN q = {"step", "why"}
  OBVIOUS
<1>4. record # None /\ record.client_id \in ClientIds
  BY <1>1, RequestAssumption DEF PushedRecord
<1>5. PushRefused(record) => clients[record.client_id] = None
  BY <1>4 DEF PushRefused, is_revoked, Handed, BarredMeansDeleted
<1>6. /\ pushed[uri] = None
      /\ \A w \in Visits : ~Past(visit[w], uri) /\ (PutsBack(visit[w], uri) => w = v)
      /\ \A w \in Visits : Names(visit[w], uri) => visit[w].record = record
      /\ \E w \in Visits : Names(visit[w], uri)
  BY <1>1 DEF Handed, OneKeeper, OnePush, HandlesNamed
<1> HIDE DEF q, uri, record
<1>7. /\ visit'[v] = q /\ \A w \in Visits : w # v => visit'[w] = visit[w]
      /\ pushed'[uri] \in {None, record} /\ (~PushRefused(record) => pushed'[uri] = record)
      /\ \A x \in RequestUris : x # uri => pushed'[x] = pushed[x]
  BY <1>1, <1>2, <1>6 DEF Handed, RequestsTyped
<1>8. \A w \in Visits, x \in RequestUris :
          /\ Past(visit'[w], x) <=> Past(visit[w], x)
          /\ Names(visit'[w], x) <=> Names(visit[w], x)
          /\ Names(visit[w], x) => visit'[w] = visit[w]
          /\ PutsBack(visit'[w], x) => PutsBack(visit[w], x) /\ visit'[w] = visit[w] /\ x # uri
          /\ visit[w].step \in {"restore", "lost"} /\ visit[w].held # uri => visit'[w] = visit[w]
  <2>1. \A x \in RequestUris : PutsBack(visit[v], x) => x = uri
    BY DEF PutsBack, uri
  <2>2. visit[v].step = "restore" /\ visit[v].held = uri
    BY <1>1 DEF uri
  <2> QED BY <1>3, <1>6, <1>7, <2>1, <2>2 DEF Past, Names, PutsBack, GivenSteps
<1>9. RequestsTyped'
  <2>1. VisitShape(q)
    BY <1>3 DEF VisitShape, GivenSteps
  <2>2. \A w \in Visits : VisitShape(visit'[w])
    BY <1>7, <2>1 DEF Handed, RequestsTyped
  <2>3. pushed' \in [RequestUris -> Option(PushedRecord)]
    BY <1>1, <1>2 DEF Handed, RequestsTyped, Option
  <2> QED BY <1>2, <2>2, <2>3 DEF Handed, RequestsTyped, VisitShape, SignedEnough, Welcome
<1>10. BarredMeansDeleted' /\ StoredSigned'
  BY <1>1, <1>2, <1>7 DEF Handed, BarredMeansDeleted, StoredSigned, SignedEnough
<1>11. HandlesNamed'
  BY <1>6, <1>7, <1>8 DEF Handed, HandlesNamed
<1>12. OnePush'
  BY <1>6, <1>7, <1>8 DEF Handed, OnePush
<1>13. OneKeeper' /\ StoredUnused' /\ OneUse'
  BY <1>6, <1>7, <1>8 DEF Handed, OneKeeper, StoredUnused, OneUse
<1>14. NoneLost'
  <2> SUFFICES ASSUME NEW x \in RequestUris, NEW w \in Visits, Names(visit[w], x)'
               PROVE  Accounted(x, visit[w].record)'
    BY DEF NoneLost
  <2>1. Names(visit[w], x) /\ visit'[w] = visit[w] /\ Accounted(x, visit[w].record)
    BY <1>8 DEF Handed, NoneLost
  <2>2. CASE x # uri
    BY <1>2, <1>7, <1>8, <2>1, <2>2 DEF Accounted
  <2>3. CASE x = uri
    <3>1. visit'[w].record = record
      BY <1>6, <2>1, <2>3
    <3>2. pushed'[x] # None \/ clients'[visit'[w].record.client_id] = None
      BY <1>2, <1>4, <1>5, <1>7, <2>3, <3>1
    <3> QED BY <3>2 DEF Accounted
  <2> QED BY <2>2, <2>3
<1> QED BY <1>9, <1>10, <1>11, <1>12, <1>13, <1>14 DEF Handed

\* A step of the store's own: it adds nothing, and takes out what has expired or has lost its client.
Shrinks ==
    /\ UNCHANGED <<visit, policy>> /\ clock' \in Nat /\ clock' >= clock
    /\ DOMAIN clients' = ClientIds /\ DOMAIN client_barriers' = ClientIds
    /\ \A c \in ClientIds : clients[c] = None => clients'[c] = None
    /\ \A c \in ClientIds : client_barriers'[c] # None => clients'[c] = None
    /\ pushed' \in [RequestUris -> Option(PushedRecord)]
    /\ \A uri \in RequestUris :
           \/ pushed'[uri] = pushed[uri]
           \/ /\ pushed'[uri] = None
              /\ clock >= pushed[uri].expires_at \/ clients'[pushed[uri].client_id] = None

\* The clock, a sweep and a deletion are such steps.
LEMMA StoreShrinks ==
    ASSUME Handed, RequestTick \/ RequestSweep \/ \E c \in ClientIds : DeregisterClient(c)
    PROVE  Shrinks
<1>1. /\ clock \in Nat /\ DOMAIN clients = ClientIds /\ DOMAIN client_barriers = ClientIds
      /\ pushed \in [RequestUris -> Option(PushedRecord)]
      /\ \A c \in ClientIds : client_barriers[c] # None => clients[c] = None
  BY DEF Handed, RequestsTyped, BarredMeansDeleted
<1>2. \A doomed : Without(pushed, doomed) \in [RequestUris -> Option(PushedRecord)]
  BY <1>1 DEF Without, Option
<1>3. CASE RequestTick
  BY <1>1, <1>3 DEF Shrinks, RequestTick, AuthTick, storeVars, requestVars, barriers
<1>4. CASE RequestSweep
  <2>1. /\ pushed' = Without(pushed, ExpiredKeys(pushed, clock))
        /\ client_barriers' = Without(client_barriers, Reapable(client_barriers, clock))
        /\ UNCHANGED <<visit, policy, clients, clock>>
    BY <1>4 DEF RequestSweep, sweep_expired, requestVars, authVars
  <2>2. \A uri \in ExpiredKeys(pushed, clock) : clock >= pushed[uri].expires_at
    BY <1>1 DEF ExpiredKeys, Option, PushedRecord
  <2>3. \A uri \in RequestUris : \/ pushed'[uri] = pushed[uri]
                                 \/ pushed'[uri] = None /\ clock >= pushed[uri].expires_at
    BY <1>1, <2>1, <2>2 DEF Without
  <2>4. /\ DOMAIN client_barriers' = ClientIds
        /\ \A c \in ClientIds : client_barriers'[c] # None => client_barriers[c] # None
    BY <1>1, <2>1 DEF Without
  <2> QED BY <1>1, <1>2, <2>1, <2>3, <2>4 DEF Shrinks
<1>5. ASSUME NEW c \in ClientIds, DeregisterClient(c) PROVE Shrinks
  <2>1. /\ pushed' = Without(pushed, OfClient(pushed, c))
        /\ clients' = [clients EXCEPT ![c] = None]
        /\ UNCHANGED <<visit, policy, clock>>
    BY <1>5 DEF DeregisterClient, delete_client, requestVars, authVars
  <2>2. PICK window : client_barriers' = [client_barriers EXCEPT ![c] = window]
    BY <1>5 DEF DeregisterClient, delete_client
  <2>3. \A uri \in RequestUris : \/ pushed'[uri] = pushed[uri]
                                 \/ pushed'[uri] = None /\ pushed[uri].client_id = c
    BY <1>1, <2>1 DEF Without, OfClient
  <2>4. /\ DOMAIN clients' = ClientIds /\ DOMAIN client_barriers' = ClientIds
        /\ clients'[c] = None /\ \A d \in ClientIds : d # c =>
               clients'[d] = clients[d] /\ client_barriers'[d] = client_barriers[d]
    BY <1>1, <2>1, <2>2
  <2> QED BY <1>1, <1>2, <2>1, <2>3, <2>4 DEF Shrinks
<1> QED BY <1>3, <1>4, <1>5

\* No record that could be used is taken out by one of them.
LEMMA StoreStepKeeps ==
    ASSUME Handed, RequestTick \/ RequestSweep \/ \E c \in ClientIds : DeregisterClient(c)
    PROVE  Handed'
<1>1. Shrinks
  BY StoreShrinks
<1> USE <1>1 DEF Shrinks
<1>2. RequestsTyped'
  BY DEF Handed, RequestsTyped, VisitShape, SignedEnough, Welcome
<1>3. BarredMeansDeleted' /\ StoredSigned'
  BY <1>1 DEF Handed, BarredMeansDeleted, StoredSigned, SignedEnough
<1>4. HandlesNamed' /\ OnePush' /\ OneKeeper' /\ StoredUnused' /\ OneUse'
  BY <1>1 DEF Handed, HandlesNamed, OnePush, OneKeeper, StoredUnused, OneUse
<1>5. NoneLost'
  <2> SUFFICES ASSUME NEW uri \in RequestUris, NEW v \in Visits, Names(visit[v], uri)
               PROVE  Accounted(uri, visit[v].record)'
    BY <1>1 DEF NoneLost
  <2>1. visit'[v].record = visit[v].record /\ visit[v].record \in PushedRecord
    BY <1>1 DEF Names, Handed, RequestsTyped, VisitShape
  <2>2. Accounted(uri, visit[v].record) /\ (pushed[uri] # None => pushed[uri] = visit[v].record)
    BY DEF Handed, NoneLost, OnePush
  <2>3. visit[v].record.expires_at \in Nat /\ visit[v].record.client_id \in ClientIds /\ clock \in Nat
    BY <2>1 DEF PushedRecord, Handed, RequestsTyped
  <2>4. CASE pushed[uri] # None
    BY <1>1, <2>1, <2>2, <2>3, <2>4 DEF Accounted
  <2>5. CASE pushed[uri] = None
    BY <1>1, <2>1, <2>2, <2>3, <2>5 DEF Accounted
  <2> QED BY <2>4, <2>5
<1> QED BY <1>2, <1>3, <1>4, <1>5 DEF Handed

\* Every step of the endpoints keeps the right to use a handle in one place.
LEMMA HandedStep ==
    ASSUME Handed, [RequestNext]_<<storeVars, authVars, requestVars>>
    PROVE  Handed'
<1>1. ASSUME NEW v \in Visits, \E q : Proceeds(v, q), UNCHANGED <<storeVars, authVars, policy>>
      PROVE  Handed'
  BY <1>1, ProceedsKeeps DEF storeVars, barriers, authVars
<1>2. ASSUME NEW v \in Visits,
             \/ \E p \in Pushes[v] : PushArrives(v, p)
             \/ PushAuthenticated(v) \/ PushChecked(v)
      PROVE  Handed'
  <2>1. UNCHANGED <<storeVars, authVars, policy>>
    BY <1>2 DEF PushArrives, PushAuthenticated, PushChecked
  <2> QED BY <1>1, <1>2, <2>1, PushProceeds
<1>3. ASSUME NEW v \in Visits,
             \/ \E q \in Queries[v] : VisitArrives(v, q)
             \/ RequestThrottled(v) \/ RestoreFails(v)
             \/ \E login \in Logins, approves \in BOOLEAN : VisitValidated(v, login, approves)
      PROVE  Handed'
  <2>1. UNCHANGED <<storeVars, authVars, policy>>
    BY <1>3 DEF VisitArrives, RequestThrottled, RestoreFails, VisitValidated
  <2> QED BY <1>1, <1>3, <2>1, VisitProceeds
<1>4. ASSUME NEW v \in Visits, NEW s \in Subjects, NEW code \in AuthCodes, VisitIssues(v, s, code)
      PROVE  Handed'
  <2>1. UNCHANGED <<pushed, clients, client_barriers, clock, policy>>
    BY <1>4 DEF VisitIssues, put_authorization_code, barriers, authVars
  <2>2. PICK q : Proceeds(v, q)
    BY <1>4, VisitProceeds
  <2> QED BY <2>1, <2>2, ProceedsKeeps
<1>5. ASSUME UNCHANGED <<storeVars, authVars, requestVars>>
      PROVE  Handed'
  BY <1>5 DEF storeVars, barriers, authVars, requestVars, Handed, RequestsTyped, VisitShape,
     SignedEnough, Welcome, BarredMeansDeleted, StoredSigned, HandlesNamed, OnePush, OneKeeper,
     StoredUnused, OneUse, NoneLost, Accounted
<1> QED
  BY <1>2, <1>3, <1>4, <1>5, StoreStepKeeps, PushStoredKeeps, TakePushedKeeps, RestorePushedKeeps
     DEF RequestNext

\* No request is pushed at first, and no client is barred.
LEMMA HandedAlways == RequestSpec => []Handed
<1>1. RequestInit => Handed
  <2> SUFFICES ASSUME RequestInit PROVE Handed
    OBVIOUS
  <2>1. /\ visit = [v \in Visits |-> NewVisit] /\ clock = 0 /\ DOMAIN clients = ClientIds
        /\ pushed = [uri \in RequestUris |-> None]
        /\ client_barriers = [c \in ClientIds |-> None]
    BY RequestAssumption DEF RequestInit, Empty
  <2>2. \A v \in Visits : visit[v].step = "new" /\ DOMAIN visit[v] = {"step"}
    BY <2>1 DEF NewVisit
  <2>3. RequestsTyped
    BY <2>1, <2>2 DEF RequestsTyped, VisitShape, GivenSteps, Option
  <2>4. \A v \in Visits, uri \in RequestUris :
            ~Past(visit[v], uri) /\ ~Names(visit[v], uri) /\ ~PutsBack(visit[v], uri)
    BY <2>2 DEF Past, Names, PutsBack, GivenSteps
  <2>5. BarredMeansDeleted /\ StoredSigned
    BY <2>1 DEF BarredMeansDeleted, StoredSigned
  <2> QED BY <2>1, <2>3, <2>4, <2>5 DEF Handed, HandlesNamed, OnePush, OneKeeper, StoredUnused,
            OneUse, NoneLost
<1>2. Handed /\ [RequestNext]_<<storeVars, authVars, requestVars>> => Handed'
  BY HandedStep
<1> QED BY <1>1, <1>2, PTL DEF RequestSpec

\* However many visits present a handle, of whichever clients and in whatever order, one gets past
\* it (take_pushed_authorization_request, validate_pushed_authorization_request).
THEOREM PushedRequestIsUsedOnce == RequestSpec => []PushedRequestUsedOnce
<1>1. Handed => PushedRequestUsedOnce
  BY HandedMeans
<1> QED BY <1>1, HandedAlways, PTL

\* However many strangers present a client's handle, its request is used, expires, goes with its
\* client, or is in the store or about to be put back (validate_pushed_authorization_request).
THEOREM PushedRequestIsNotLost == RequestSpec => []PushedRequestNeverLost
<1>1. Handed => PushedRequestNeverLost
  BY HandedMeans
<1> QED BY <1>1, HandedAlways, PTL

\* Under every policy, a code rests on a signed request if requests must be signed and on a pushed
\* one if they must be pushed, by whichever door it came (pushed_parameters, VisitArrives).
THEOREM PolicyHoldsAtEveryDoor == RequestSpec => []NoDoorAroundThePolicy
<1>1. Handed => NoDoorAroundThePolicy
  BY HandedMeans
<1> QED BY <1>1, HandedAlways, PTL

-----------------------------------------------------------------------------
(***************************************************************************)
(* The verification page.  A token of a form is with its session, with the   *)
(* one request that decides on it, or on a decision; a request has asked     *)
(* the limiter and the store no more than its step says.                     *)
(***************************************************************************)
DecidingSteps == {"resolve", "drop", "write"}
Deciding(p) == p.step \in DecidingSteps

\* What a request has asked when it has reported one outcome, and when it has looked again to show it.
Reported == {<<"allowed", "lookup", "Succeeded">>, <<"allowed", "lookup", "Failed">>}
ShownAgain ==
    {<<"allowed", "lookup", "Succeeded", "lookup">>, <<"allowed", "lookup", "Failed", "lookup">>}

PageTrail(p) ==
    /\ p.step = "new" => p.trail = <<>>
    /\ p.step = "resolve" => p.trail = <<"allowed">>
    /\ p.step = "drop" => p.trail = <<"allowed", "lookup">>
    /\ p.step = "write" => p.trail = <<"allowed", "lookup", "Succeeded">>
    /\ p.step = "display" =>
           \/ p.entry = "Uncharged" /\ p.trail = <<"allowed">>
           \/ p.entry = "AlreadyCharged" /\ p.trail \in Reported
    /\ p.step = "done" => p.trail \in {<<>>, <<"denied">>} \cup Reported \cup ShownAgain

\* The fields a request has from its arrival to its answer.
RequestFields == {"step", "trail", "issued", "session", "signed_in", "code", "presented", "verdict",
                  "grant"}

PageShape(p) ==
    /\ p.step \in {"new", "display", "done"} \cup DecidingSteps
    /\ p.issued \in BOOLEAN
    /\ p.step \in {"new"} \cup DecidingSteps => ~p.issued
    /\ p.step = "display" \/ p.issued => p.session \in Sessions
    /\ p.step = "display" => DOMAIN p = {"step", "trail", "issued", "session", "code", "entry"}
    /\ Deciding(p) => DOMAIN p = RequestFields /\ p.session \in Sessions

IssuedTo(t, s) == t \in PageRequests /\ page[t].issued /\ page[t].session = s

FormsHeld ==
    /\ \A s \in Sessions : session_token[s] # None => IssuedTo(session_token[s], s)
    /\ \A r \in PageRequests : Deciding(page[r]) =>
           page[r].presented # None /\ IssuedTo(page[r].presented, page[r].session)
    /\ \A a \in decisions : a.token # None /\ IssuedTo(a.token, a.session)

FormsOnce ==
    /\ \A s \in Sessions, r \in PageRequests :
           Deciding(page[r]) => session_token[s] # page[r].presented
    /\ \A s \in Sessions, a \in decisions : session_token[s] # a.token
    /\ \A r, w \in PageRequests :
           Deciding(page[r]) /\ Deciding(page[w]) /\ page[r].presented = page[w].presented => r = w
    /\ \A r \in PageRequests, a \in decisions : Deciding(page[r]) => page[r].presented # a.token
    /\ \A a, b \in decisions : a.token = b.token => a = b

Paged ==
    /\ DOMAIN page = PageRequests /\ DOMAIN session_token = Sessions
    /\ protection \in Protections
    /\ \A r \in PageRequests : PageShape(page[r]) /\ PageTrail(page[r])
    /\ protection # "Disabled" => FormsHeld /\ FormsOnce

\* One lookup, one question before it and one report after it.
LEMMA TrailCharged ==
    ASSUME NEW trail, NEW done \in BOOLEAN,
           \/ trail \in {<<>>, <<"denied">>} \cup Reported \cup ShownAgain
           \/ ~done /\ trail \in {<<"allowed">>, <<"allowed", "lookup">>}
    PROVE  LET Places(what) == {i \in DOMAIN trail : trail[i] \in what}
               Once(what) == Cardinality(Places(what)) = 1
           IN Places({"lookup"}) # {} =>
                 /\ trail[1] = "allowed" /\ Once({"allowed", "denied"})
                 /\ done => Once({"Succeeded", "Failed"})
<1> DEFINE Places(what) == {i \in DOMAIN trail : trail[i] \in what}
<1>1. CASE trail \in {<<>>, <<"denied">>, <<"allowed">>}
  <2>1. Places({"lookup"}) = {}
    BY <1>1
  <2> QED BY <2>1
<1>2. CASE trail = <<"allowed", "lookup">> /\ ~done
  <2>1. trail[1] = "allowed" /\ Places({"allowed", "denied"}) = {1}
    BY <1>2
  <2> QED BY <1>2, <2>1, FS_Singleton
<1>3. CASE trail \in Reported \cup ShownAgain
  <2>1. trail[1] = "allowed" /\ Places({"allowed", "denied"}) = {1}
    BY <1>3 DEF Reported, ShownAgain
  <2>2. Places({"Succeeded", "Failed"}) = {3}
    BY <1>3 DEF Reported, ShownAgain
  <2> QED BY <2>1, <2>2, FS_Singleton
<1> QED BY <1>1, <1>2, <1>3

\* The invariant says what the properties ask for.
LEMMA PagedMeans ==
    ASSUME Paged
    PROVE  EntryChargedOnce /\ DecisionFromOwnForm
<1>1. EntryChargedOnce
  <2> SUFFICES ASSUME NEW r \in PageRequests
               PROVE  LET trail == page[r].trail
                          Places(what) == {i \in DOMAIN trail : trail[i] \in what}
                          Once(what) == Cardinality(Places(what)) = 1
                      IN Places({"lookup"}) # {} =>
                            /\ trail[1] = "allowed" /\ Once({"allowed", "denied"})
                            /\ page[r].step = "done" => Once({"Succeeded", "Failed"})
    BY DEF EntryChargedOnce
  <2> DEFINE t == page[r].trail
             done == page[r].step = "done"
  <2>1. \/ t \in {<<>>, <<"denied">>} \cup Reported \cup ShownAgain
        \/ ~done /\ t \in {<<"allowed">>, <<"allowed", "lookup">>}
    BY DEF Paged, PageShape, PageTrail, DecidingSteps, Reported
  <2>2. done \in BOOLEAN
    OBVIOUS
  <2> HIDE DEF t, done
  <2>3. LET Places(what) == {i \in DOMAIN t : t[i] \in what}
            Once(what) == Cardinality(Places(what)) = 1
        IN Places({"lookup"}) # {} =>
              /\ t[1] = "allowed" /\ Once({"allowed", "denied"})
              /\ done => Once({"Succeeded", "Failed"})
    BY <2>1, <2>2, TrailCharged
  <2> QED BY <2>3 DEF t, done
<1>2. DecisionFromOwnForm
  BY DEF DecisionFromOwnForm, Paged, FormsHeld, FormsOnce, IssuedTo
<1> QED BY <1>1, <1>2

\* What is noted on a request's trail leaves the rest of it alone.
LEMMA NotedFacts ==
    ASSUME NEW p, NEW what, "trail" \in DOMAIN p
    PROVE  /\ DOMAIN Noted(p, what) = DOMAIN p
           /\ Noted(p, what).trail = Append(p.trail, what)
           /\ \A f \in DOMAIN p \ {"trail"} : Noted(p, what)[f] = p[f]
BY DEF Noted

\* The second element of a sequence,
LEMMA SecondNote ==
    ASSUME NEW a, NEW b PROVE Append(<<a>>, b) = <<a, b>>
<1>1. <<a>> \in Seq({a, b}) /\ <<a, b>> \in Seq({a, b})
  OBVIOUS
<1>2. Append(<<a>>, b) \in Seq({a, b})
  BY <1>1
<1>3. Len(Append(<<a>>, b)) = 2 /\ Len(<<a, b>>) = 2
  OBVIOUS
<1>4. \A i \in 1..2 : Append(<<a>>, b)[i] = <<a, b>>[i]
  OBVIOUS
<1> QED BY <1>1, <1>2, <1>3, <1>4, SeqEqual

\* the third,
LEMMA ThirdNote ==
    ASSUME NEW a, NEW b, NEW c PROVE Append(<<a, b>>, c) = <<a, b, c>>
<1>1. <<a, b>> \in Seq({a, b, c}) /\ <<a, b, c>> \in Seq({a, b, c})
  OBVIOUS
<1>2. Append(<<a, b>>, c) \in Seq({a, b, c})
  BY <1>1
<1>3. Len(Append(<<a, b>>, c)) = 3 /\ Len(<<a, b, c>>) = 3
  OBVIOUS
<1>4. \A i \in 1..3 : Append(<<a, b>>, c)[i] = <<a, b, c>>[i]
  OBVIOUS
<1> QED BY <1>1, <1>2, <1>3, <1>4, SeqEqual

\* and the fourth.
LEMMA FourthNote ==
    ASSUME NEW a, NEW b, NEW c, NEW d PROVE Append(<<a, b, c>>, d) = <<a, b, c, d>>
<1>1. <<a, b, c>> \in Seq({a, b, c, d}) /\ <<a, b, c, d>> \in Seq({a, b, c, d})
  OBVIOUS
<1>2. Append(<<a, b, c>>, d) \in Seq({a, b, c, d})
  BY <1>1
<1>3. Len(Append(<<a, b, c>>, d)) = 4 /\ Len(<<a, b, c, d>>) = 4
  OBVIOUS
<1>4. \A i \in 1..4 : Append(<<a, b, c>>, d)[i] = <<a, b, c, d>>[i]
  OBVIOUS
<1> QED BY <1>1, <1>2, <1>3, <1>4, SeqEqual

\* The trails, one note at a time.
LEMMA TrailGrows ==
    /\ Append(<<>>, "denied") = <<"denied">> /\ Append(<<>>, "allowed") = <<"allowed">>
    /\ Append(<<"allowed">>, "lookup") = <<"allowed", "lookup">>
    /\ \A how \in {"Succeeded", "Failed"} :
           /\ Append(<<"allowed", "lookup">>, how) = <<"allowed", "lookup", how>>
           /\ Append(<<"allowed", "lookup">>, how) \in Reported
           /\ Append(<<"allowed", "lookup", how>>, "lookup") \in ShownAgain
<1>1. Append(<<>>, "denied") = <<"denied">> /\ Append(<<>>, "allowed") = <<"allowed">>
  OBVIOUS
<1>2. Append(<<"allowed">>, "lookup") = <<"allowed", "lookup">>
  BY SecondNote
<1>3. ASSUME NEW how \in {"Succeeded", "Failed"}
      PROVE  Append(<<"allowed", "lookup">>, how) = <<"allowed", "lookup", how>>
  BY ThirdNote
<1>4. ASSUME NEW how \in {"Succeeded", "Failed"}
      PROVE  Append(<<"allowed", "lookup", how>>, "lookup") = <<"allowed", "lookup", how, "lookup">>
  BY FourthNote
<1> QED BY <1>1, <1>2, <1>3, <1>4 DEF Reported, ShownAgain

\* Request r is answered, or has its page looked up, and token is left with its session.
Answers(r, s, q, token) ==
    /\ page' = [page EXCEPT ![r] = q] /\ session_token' = [session_token EXCEPT ![s] = token]
    /\ q.step \in {"display", "done"} /\ PageShape(q) /\ PageTrail(q)
    /\ q.issued => token = r /\ q.session = s

\* render_verification either leaves the token as it finds it or issues one of its own.
LEMMA RenderAnswers ==
    ASSUME protection \in Protections, NEW r \in PageRequests, NEW p, NEW code, NEW entry, NEW left,
           render_verification(r, p, code, entry, left),
           DOMAIN p = RequestFields, p.session \in Sessions, p.issued = FALSE,
           \/ entry = "Uncharged" /\ p.trail = <<>>
           \/ entry = "Refused" /\ p.trail = <<"denied">>
           \/ entry = "AlreadyCharged" /\ p.trail \in Reported
    PROVE  \E q : \/ Answers(r, p.session, q, left) /\ ~q.issued
                  \/ Answers(r, p.session, q, r) /\ q.issued
<1>1. ASSUME NEW o, DOMAIN o = RequestFields, o.session = p.session, o.issued \in BOOLEAN,
             o.trail \in {<<>>, <<"denied">>} \cup Reported
      PROVE  LET q == PageDone(o) IN
             q.step = "done" /\ PageShape(q) /\ PageTrail(q) /\ q.issued = o.issued
             /\ (o.issued => q.session = p.session)
  <2> DEFINE q == PageDone(o)
  <2>1. q.step = "done" /\ q.trail = o.trail /\ q.issued = o.issued
        /\ (o.issued => q.session = p.session)
    BY <1>1 DEF PageDone
  <2> HIDE DEF q
  <2>2. PageShape(q) /\ PageTrail(q)
    BY <1>1, <2>1 DEF PageShape, PageTrail, Deciding, DecidingSteps
  <2> QED BY <2>1, <2>2 DEF q
<1>2. ASSUME NEW o, DOMAIN o = RequestFields, o.session = p.session, o.issued \in BOOLEAN,
             \/ entry = "Uncharged" /\ o.trail = <<"allowed">>
             \/ entry = "AlreadyCharged" /\ o.trail \in Reported
      PROVE  LET q == Display(o, entry) IN
             q.step = "display" /\ PageShape(q) /\ PageTrail(q) /\ q.issued = o.issued
             /\ q.session = p.session
  <2> DEFINE q == Display(o, entry)
  <2>1. q.step = "display" /\ q.trail = o.trail /\ q.issued = o.issued /\ q.session = p.session
        /\ q.entry = entry /\ DOMAIN q = {"step", "trail", "issued", "session", "code", "entry"}
    BY <1>2 DEF Display
  <2> HIDE DEF q
  <2>2. PageShape(q) /\ PageTrail(q)
    BY <1>2, <2>1 DEF PageShape, PageTrail, Deciding, DecidingSteps
  <2> QED BY <2>1, <2>2 DEF q
<1>3. ASSUME NEW o, DOMAIN o = RequestFields, o.session = p.session, o.issued \in BOOLEAN,
             o.trail = p.trail, NEW q \in EntersCode(o, entry)
      PROVE  /\ q.step \in {"display", "done"} /\ PageShape(q) /\ PageTrail(q)
             /\ q.issued = o.issued /\ (o.issued => q.session = p.session)
  <2>1. CASE entry = "Refused"
    BY <1>1, <1>3, <2>1 DEF EntersCode
  <2>2. CASE entry = "AlreadyCharged"
    BY <1>2, <1>3, <2>2 DEF EntersCode
  <2>3. CASE entry = "Uncharged"
    <3>1. \A what : /\ DOMAIN Noted(o, what) = RequestFields
                    /\ Noted(o, what).session = p.session
                    /\ Noted(o, what).issued = o.issued
                    /\ Noted(o, what).trail = Append(<<>>, what)
      BY <1>3, <2>3, NotedFacts DEF RequestFields
    <3>2. q = PageDone(Noted(o, "denied")) \/ q = Display(Noted(o, "allowed"), entry)
      BY <1>3, <2>3 DEF EntersCode
    <3> QED BY <1>1, <1>2, <1>3, <2>3, <3>1, <3>2, TrailGrows
  <2> QED BY <2>1, <2>2, <2>3
<1> DEFINE o == [p EXCEPT !.issued = TRUE]
<1>4. DOMAIN o = RequestFields /\ o.session = p.session /\ o.issued = TRUE /\ o.trail = p.trail
  BY DEF RequestFields
<1>5. \/ /\ session_token' = [session_token EXCEPT ![p.session] = left]
         /\ Serve(r, PageDone(p)) \/ \E q \in EntersCode(p, entry) : Serve(r, q)
      \/ /\ session_token' = [session_token EXCEPT ![p.session] = r]
         /\ Serve(r, PageDone(o)) \/ \E q \in EntersCode(o, entry) : Serve(r, q)
  <2>1. protection \in {"Unwired", "Tokens", "Disabled"}
    BY ProtectionAssumption
  <2>2. CASE protection = "Unwired"
    BY <2>2 DEF render_verification
  <2>3. CASE protection = "Disabled"
    BY <2>3 DEF render_verification
  <2>4. CASE protection = "Tokens" /\ ~p.signed_in
    BY <2>4 DEF render_verification
  <2>5. CASE protection = "Tokens" /\ p.signed_in
    BY <2>5 DEF render_verification
  <2> QED BY <2>1, <2>2, <2>3, <2>4, <2>5
<1> HIDE DEF o
<1>6. PICK q : /\ Serve(r, q)
               /\ \/ /\ session_token' = [session_token EXCEPT ![p.session] = left]
                     /\ q = PageDone(p) \/ q \in EntersCode(p, entry)
                  \/ /\ session_token' = [session_token EXCEPT ![p.session] = r]
                     /\ q = PageDone(o) \/ q \in EntersCode(o, entry)
  BY <1>5
<1>7. p.trail \in {<<>>, <<"denied">>} \cup Reported
  OBVIOUS
<1>8. CASE /\ session_token' = [session_token EXCEPT ![p.session] = left]
           /\ q = PageDone(p) \/ q \in EntersCode(p, entry)
  <2>1. q.step \in {"display", "done"} /\ PageShape(q) /\ PageTrail(q) /\ ~q.issued
    BY <1>1, <1>3, <1>7, <1>8
  <2> QED BY <1>6, <1>8, <2>1 DEF Answers, Serve
<1>9. CASE /\ session_token' = [session_token EXCEPT ![p.session] = r]
           /\ q = PageDone(o) \/ q \in EntersCode(o, entry)
  <2>1. q.step \in {"display", "done"} /\ PageShape(q) /\ PageTrail(q) /\ q.issued
        /\ q.session = p.session
    <3>1. o.issued \in BOOLEAN /\ o.trail \in {<<>>, <<"denied">>} \cup Reported
      BY <1>4, <1>7
    <3>2. CASE q = PageDone(o)
      BY <1>1, <1>4, <3>1, <3>2
    <3>3. CASE q \in EntersCode(o, entry)
      BY <1>3, <1>4, <3>1, <3>3
    <3> QED BY <1>9, <3>2, <3>3
  <2> QED BY <1>6, <1>9, <2>1 DEF Answers, Serve
<1> QED BY <1>6, <1>8, <1>9

\* An answer takes a token from its session or gives it a fresh one, and decides nothing.
LEMMA AnswersKeeps ==
    ASSUME Paged, NEW r \in PageRequests, NEW s \in Sessions, NEW q, NEW token,
           Answers(r, s, q, token), page[r].step \in {"new"} \cup DecidingSteps,
           \/ ~q.issued /\ token \in {session_token[s], None}
           \/ q.issued /\ token = r,
           UNCHANGED <<protection, decisions>>
    PROVE  Paged'
<1>1. /\ page'[r] = q /\ \A w \in PageRequests : w # r => page'[w] = page[w]
      /\ session_token'[s] = token
      /\ \A x \in Sessions : x # s => session_token'[x] = session_token[x]
  BY DEF Answers, Paged
<1>2. ~page[r].issued /\ ~Deciding(q) /\ (q.issued => q.session = s)
  BY DEF Paged, PageShape, Answers, Deciding, DecidingSteps
<1>3. \A t, x : IssuedTo(t, x) => t # r /\ IssuedTo(t, x)'
  BY <1>1, <1>2 DEF IssuedTo
<1>4. \A w \in PageRequests : Deciding(page'[w]) => page'[w] = page[w]
  BY <1>1, <1>2
<1>5. ASSUME protection # "Disabled" PROVE FormsHeld' /\ FormsOnce'
  <2>1. FormsHeld /\ FormsOnce
    BY <1>5 DEF Paged
  <2>2. CASE ~q.issued /\ token \in {session_token[s], None}
    <3>1. \A x \in Sessions : session_token'[x] \in {session_token[x], None}
      BY <1>1, <2>2
    <3>2. FormsHeld'
      BY <1>3, <1>4, <2>1, <3>1 DEF FormsHeld
    <3>3. FormsOnce'
      BY <1>4, <2>1, <3>1 DEF FormsHeld, FormsOnce
    <3> QED BY <3>2, <3>3
  <2>3. CASE q.issued /\ token = r
    <3>1. \A x \in Sessions : session_token'[x] = session_token[x] \/ (x = s /\ session_token'[x] = r)
      BY <1>1, <2>3
    <3>2. IssuedTo(r, s)'
      BY <1>1, <1>2, <2>3 DEF IssuedTo
    <3>3. FormsHeld'
      BY <1>3, <1>4, <2>1, <3>1, <3>2 DEF FormsHeld
    <3>4. FormsOnce'
      BY <1>3, <1>4, <2>1, <3>1 DEF FormsHeld, FormsOnce
    <3> QED BY <3>3, <3>4
  <2> QED BY <2>2, <2>3
<1>6. \A w \in PageRequests : PageShape(page'[w]) /\ PageTrail(page'[w])
  BY <1>1 DEF Paged, Answers
<1>7. DOMAIN page' = PageRequests /\ DOMAIN session_token' = Sessions
  BY DEF Paged, Answers
<1> QED BY <1>5, <1>6, <1>7 DEF Paged

\* A form of the session's own takes the token with it.
LEMMA AdmitsKeeps ==
    ASSUME Paged, NEW r \in PageRequests, NEW s \in Sessions, NEW q, NEW left,
           page[r].step = "new", q.step = "resolve", q.session = s, PageShape(q), PageTrail(q),
           page' = [page EXCEPT ![r] = q], session_token' = [session_token EXCEPT ![s] = left],
           protection # "Disabled" =>
               left = None /\ session_token[s] # None /\ q.presented = session_token[s],
           UNCHANGED <<protection, decisions>>
    PROVE  Paged'
<1>1. /\ page'[r] = q /\ \A w \in PageRequests : w # r => page'[w] = page[w]
      /\ session_token'[s] = left
      /\ \A x \in Sessions : x # s => session_token'[x] = session_token[x]
  BY DEF Paged
<1>2. ~page[r].issued /\ ~Deciding(page[r])
  BY DEF Paged, PageShape, Deciding, DecidingSteps
<1>3. \A t, x : IssuedTo(t, x) => IssuedTo(t, x)'
  BY <1>1, <1>2 DEF IssuedTo
<1>4. ASSUME protection # "Disabled" PROVE FormsHeld' /\ FormsOnce'
  <2>1. FormsHeld /\ FormsOnce
    BY <1>4 DEF Paged
  <2>2. IssuedTo(q.presented, s) /\ q.presented # None /\ q.presented = session_token[s]
    BY <1>4, <2>1 DEF FormsHeld
  <2>3. \A x \in Sessions : x # s => session_token[x] # q.presented
    BY <2>1, <2>2 DEF FormsHeld, IssuedTo
  <2>4. \A x \in Sessions : \/ x # s /\ session_token'[x] = session_token[x]
                            \/ x = s /\ session_token'[x] = None
    BY <1>1, <1>4
  <2>5. FormsHeld'
    BY <1>1, <1>3, <2>1, <2>2, <2>4 DEF FormsHeld
  <2>6. /\ \A x \in Sessions, w \in PageRequests :
               Deciding(page'[w]) => session_token'[x] # page'[w].presented
        /\ \A x \in Sessions, a \in decisions' : session_token'[x] # a.token
    BY <1>1, <2>1, <2>2, <2>3, <2>4 DEF FormsHeld, FormsOnce
  <2>7. /\ \A v, w \in PageRequests : Deciding(page'[v]) /\ Deciding(page'[w])
               /\ page'[v].presented = page'[w].presented => v = w
        /\ \A w \in PageRequests, a \in decisions' : Deciding(page'[w]) => page'[w].presented # a.token
    BY <1>1, <2>1, <2>2 DEF FormsOnce
  <2> QED BY <2>1, <2>5, <2>6, <2>7 DEF FormsOnce
<1>5. \A w \in PageRequests : PageShape(page'[w]) /\ PageTrail(page'[w])
  BY <1>1 DEF Paged
<1>6. DOMAIN page' = PageRequests /\ DOMAIN session_token' = Sessions
  BY DEF Paged
<1> QED BY <1>4, <1>5, <1>6 DEF Paged

\* A request that goes on keeps its form and its session, or has none to keep.
LEMMA GoesOnKeeps ==
    ASSUME Paged, NEW r \in PageRequests, NEW q, page' = [page EXCEPT ![r] = q],
           PageShape(q), PageTrail(q), q.issued = page[r].issued,
           q.issued => q.session = page[r].session,
           Deciding(q) => Deciding(page[r]) /\ q.presented = page[r].presented
                          /\ q.session = page[r].session,
           UNCHANGED <<protection, session_token, decisions>>
    PROVE  Paged'
<1>1. page'[r] = q /\ \A w \in PageRequests : w # r => page'[w] = page[w]
  BY DEF Paged
<1>2. \A t, x : IssuedTo(t, x) => IssuedTo(t, x)'
  BY <1>1 DEF IssuedTo
<1>3. \A w \in PageRequests : Deciding(page'[w]) =>
          /\ Deciding(page[w]) /\ page'[w].presented = page[w].presented
          /\ page'[w].session = page[w].session
  BY <1>1
<1>4. ASSUME protection # "Disabled" PROVE FormsHeld' /\ FormsOnce'
  <2>1. FormsHeld /\ FormsOnce
    BY <1>4 DEF Paged
  <2>2. FormsHeld'
    BY <1>2, <1>3, <2>1 DEF FormsHeld
  <2>3. FormsOnce'
    BY <1>3, <2>1 DEF FormsOnce
  <2> QED BY <2>2, <2>3
<1>5. \A w \in PageRequests : PageShape(page'[w]) /\ PageTrail(page'[w])
  BY <1>1 DEF Paged
<1> QED BY <1>4, <1>5 DEF Paged

\* A decision takes the token over from the request that made it.
LEMMA DecisionKeeps ==
    ASSUME Paged, NEW r \in PageRequests, NEW q, NEW grant, page' = [page EXCEPT ![r] = q],
           Deciding(page[r]), PageShape(q), PageTrail(q), ~q.issued, ~Deciding(q),
           decisions' = decisions \cup {[on |-> grant, token |-> page[r].presented,
                                         session |-> page[r].session]},
           UNCHANGED <<protection, session_token>>
    PROVE  Paged'
<1> DEFINE d == [on |-> grant, token |-> page[r].presented, session |-> page[r].session]
<1>1. page'[r] = q /\ \A w \in PageRequests : w # r => page'[w] = page[w]
  BY DEF Paged
<1>2. decisions' = decisions \cup {d} /\ d.token = page[r].presented /\ d.session = page[r].session
  OBVIOUS
<1> HIDE DEF d
<1>3. ~page[r].issued
  BY DEF Paged, PageShape, Deciding
<1>4. \A t, x : IssuedTo(t, x) => IssuedTo(t, x)'
  BY <1>1, <1>3 DEF IssuedTo
<1>5. \A w \in PageRequests : Deciding(page'[w]) => w # r /\ page'[w] = page[w]
  BY <1>1
<1>6. ASSUME protection # "Disabled" PROVE FormsHeld' /\ FormsOnce'
  <2>1. FormsHeld /\ FormsOnce
    BY <1>6 DEF Paged
  <2>2. FormsHeld'
    BY <1>2, <1>4, <1>5, <2>1 DEF FormsHeld
  <2>3. FormsOnce'
    BY <1>2, <1>5, <2>1 DEF FormsOnce
  <2> QED BY <2>2, <2>3
<1>7. \A w \in PageRequests : PageShape(page'[w]) /\ PageTrail(page'[w])
  BY <1>1 DEF Paged
<1> QED BY <1>6, <1>7 DEF Paged

\* A page that is rendered for a request keeps the invariant.
LEMMA RenderKeeps ==
    ASSUME Paged, NEW r \in PageRequests, page[r].step \in {"new"} \cup DecidingSteps,
           NEW p, NEW code, NEW entry, NEW left, render_verification(r, p, code, entry, left),
           DOMAIN p = RequestFields, p.session \in Sessions, p.issued = FALSE,
           left \in {session_token[p.session], None},
           \/ entry = "Uncharged" /\ p.trail = <<>>
           \/ entry = "Refused" /\ p.trail = <<"denied">>
           \/ entry = "AlreadyCharged" /\ p.trail \in Reported,
           UNCHANGED <<protection, decisions>>
    PROVE  Paged'
<1>1. protection \in Protections
  BY DEF Paged
<1>2. PICK q : \/ Answers(r, p.session, q, left) /\ ~q.issued
               \/ Answers(r, p.session, q, r) /\ q.issued
  BY <1>1, RenderAnswers
<1>3. CASE Answers(r, p.session, q, left) /\ ~q.issued
  BY <1>3, AnswersKeeps
<1>4. CASE Answers(r, p.session, q, r) /\ q.issued
  BY <1>4, AnswersKeeps
<1> QED BY <1>2, <1>3, <1>4

\* So does the page that reports a failed decision.
LEMMA ReportKeeps ==
    ASSUME Paged, NEW r \in PageRequests, Deciding(page[r]), NEW p, NEW error,
           DOMAIN p = RequestFields, p.session = page[r].session, p.issued = FALSE,
           p.trail \in Reported, error # "RateLimited", ReportsFailure(r, p, error),
           UNCHANGED <<protection, decisions>>
    PROVE  Paged'
<1>1. p.session \in Sessions
  BY DEF Paged, PageShape
<1>2. render_verification(r, p, p.code, "AlreadyCharged", session_token[p.session])
  BY DEF ReportsFailure, entry_after
<1> QED BY <1>1, <1>2, RenderKeeps DEF Deciding

\* A page that is asked for.
LEMMA PageAskedKeeps ==
    ASSUME Paged, NEW r \in PageRequests, NEW s \in Sessions, NEW signed_in, NEW code,
           PageAsked(r, s, signed_in, code)
    PROVE  Paged'
<1> DEFINE p == Arrived(s, signed_in, code)
<1>1. DOMAIN p = RequestFields /\ p.session = s /\ p.issued = FALSE /\ p.trail = <<>>
  BY DEF Arrived, Unserved, RequestFields
<1>2. /\ page[r].step = "new" /\ UNCHANGED <<protection, decisions>>
      /\ render_verification(r, p, code, "Uncharged", session_token[s])
  BY DEF PageAsked
<1> HIDE DEF p
<1> QED BY <1>1, <1>2, RenderKeeps

\* The form that comes back: turned away, shown again, or admitted with the token it takes along.
LEMMA FormPostedKeeps ==
    ASSUME Paged, NEW r \in PageRequests, NEW s \in Sessions, NEW post, NEW presented, NEW code,
           FormPosted(r, s, post, presented, code)
    PROVE  Paged'
<1> DEFINE p == [Arrived(s, post.signed_in, code) EXCEPT !.presented = presented]
           protected == protection # "Disabled"
           expected == session_token[s]
           left == IF protected THEN None ELSE expected
           Turned(token) == /\ session_token' = [session_token EXCEPT ![s] = token]
                            /\ Serve(r, PageDone(p))
           taken(u) == [Noted(p, "allowed") EXCEPT !.step = "resolve",
                                                   !.verdict = DecidedState(post.action, u)]
<1>1. DOMAIN p = RequestFields /\ p.session = s /\ p.issued = FALSE /\ p.trail = <<>>
      /\ p.presented = presented
  BY DEF Arrived, Unserved, RequestFields
<1>2. /\ page[r].step = "new" /\ UNCHANGED <<protection, decisions>>
      /\ \/ Turned(expected) \/ Turned(None) \/ Turned(left)
         \/ render_verification(r, p, code, "Uncharged", left)
         \/ render_verification(r, Noted(p, "denied"), code, "Refused", left)
         \/ /\ protected => form_is_own(expected, presented)
            /\ session_token' = [session_token EXCEPT ![s] = left]
            /\ \E u \in Subjects : Serve(r, taken(u))
  BY DEF FormPosted
<1> HIDE DEF p
<1>3. left \in {session_token[s], None}
  OBVIOUS
<1>4. ASSUME NEW token \in {session_token[s], None}, Turned(token) PROVE Paged'
  <2> DEFINE q == PageDone(p)
  <2>1. q.step = "done" /\ q.trail = <<>> /\ q.issued = FALSE
    BY <1>1 DEF PageDone
  <2>2. page' = [page EXCEPT ![r] = q] /\ session_token' = [session_token EXCEPT ![s] = token]
    BY <1>4 DEF Serve
  <2> HIDE DEF q
  <2>3. PageShape(q) /\ PageTrail(q)
    BY <2>1 DEF PageShape, PageTrail, Deciding, DecidingSteps
  <2>4. Answers(r, s, q, token)
    BY <2>1, <2>2, <2>3 DEF Answers
  <2> QED BY <1>2, <2>1, <2>4, AnswersKeeps
<1>5. CASE render_verification(r, p, code, "Uncharged", left)
  <2> HIDE DEF left
  <2> QED BY <1>1, <1>2, <1>3, <1>5, RenderKeeps
<1>6. CASE render_verification(r, Noted(p, "denied"), code, "Refused", left)
  <2> DEFINE q == Noted(p, "denied")
  <2>1. DOMAIN q = RequestFields /\ q.session = s /\ q.issued = FALSE /\ q.trail = <<"denied">>
    BY <1>1, NotedFacts, TrailGrows DEF RequestFields
  <2>2. render_verification(r, q, code, "Refused", left)
    BY <1>6
  <2> HIDE DEF q, left
  <2> QED BY <1>2, <1>3, <2>1, <2>2, RenderKeeps
<1>7. ASSUME protected => form_is_own(expected, presented),
             session_token' = [session_token EXCEPT ![s] = left],
             NEW u \in Subjects, Serve(r, taken(u))
      PROVE  Paged'
  <2> DEFINE q == taken(u)
  <2>1. /\ DOMAIN Noted(p, "allowed") = RequestFields /\ Noted(p, "allowed").session = s
        /\ Noted(p, "allowed").issued = FALSE /\ Noted(p, "allowed").trail = <<"allowed">>
        /\ Noted(p, "allowed").presented = presented
    BY <1>1, NotedFacts, TrailGrows DEF RequestFields
  <2>2. /\ DOMAIN q = RequestFields /\ q.step = "resolve" /\ q.session = s /\ q.issued = FALSE
        /\ q.trail = <<"allowed">> /\ q.presented = presented
    BY <2>1 DEF RequestFields
  <2>3. page' = [page EXCEPT ![r] = q]
    BY <1>7 DEF Serve
  <2> HIDE DEF q
  <2>4. PageShape(q) /\ PageTrail(q)
    BY <2>2 DEF PageShape, PageTrail, Deciding, DecidingSteps
  <2>5. protection # "Disabled" =>
            left = None /\ session_token[s] # None /\ q.presented = session_token[s]
    BY <1>7, <2>2 DEF form_is_own
  <2> HIDE DEF left
  <2> QED BY <1>2, <1>7, <2>2, <2>3, <2>4, <2>5, AdmitsKeeps
<1> QED BY <1>2, <1>3, <1>4, <1>5, <1>6, <1>7

\* The page's own lookup, whose outcome is reported if the code was paid for here.
LEMMA DisplaysKeeps ==
    ASSUME Paged, NEW r \in PageRequests, Displays(r)
    PROVE  Paged'
<1> DEFINE p == page[r]
           looked == Noted(p, "lookup")
<1>1. p.step = "display" /\ PageShape(p) /\ PageTrail(p)
      /\ UNCHANGED <<protection, session_token, decisions>>
  BY DEF Displays, Paged
<1>2. PICK o : /\ Serve(r, PageDone(o))
               /\ \/ p.entry # "Uncharged" /\ o = looked
                  \/ /\ p.entry = "Uncharged"
                     /\ \E how \in {"Succeeded", "Failed"} : o = Noted(looked, how)
  BY DEF Displays
<1> HIDE DEF p
<1>3. /\ DOMAIN looked = DOMAIN p /\ looked.trail = Append(p.trail, "lookup")
      /\ looked.issued = p.issued /\ looked.session = p.session /\ "trail" \in DOMAIN p
  BY <1>1, NotedFacts DEF PageShape
<1> HIDE DEF looked
<1>4. o.issued = p.issued /\ o.session = p.session /\ o.trail \in Reported \cup ShownAgain
  <2>1. CASE p.entry # "Uncharged" /\ o = looked
    <3>1. p.trail \in Reported
      BY <1>1, <2>1 DEF PageTrail
    <3>2. Append(p.trail, "lookup") \in ShownAgain
      BY <3>1, TrailGrows DEF Reported
    <3> QED BY <1>3, <2>1, <3>2
  <2>2. ASSUME p.entry = "Uncharged", NEW how \in {"Succeeded", "Failed"}, o = Noted(looked, how)
        PROVE  o.issued = p.issued /\ o.session = p.session /\ o.trail \in Reported \cup ShownAgain
    <3>1. p.trail = <<"allowed">>
      BY <1>1, <2>2 DEF PageTrail
    <3>2. looked.trail = <<"allowed", "lookup">>
      BY <1>3, <3>1, TrailGrows
    <3>3. o.trail = Append(<<"allowed", "lookup">>, how) /\ o.issued = looked.issued
          /\ o.session = looked.session
      BY <1>1, <1>3, <2>2, <3>2, NotedFacts DEF PageShape
    <3> QED BY <1>3, <3>3, TrailGrows
  <2> QED BY <1>2, <2>1, <2>2
<1> DEFINE q == PageDone(o)
<1>5. q.step = "done" /\ q.trail = o.trail /\ q.issued = o.issued /\ (q.issued => q.session = o.session)
  BY DEF PageDone
<1>6. page' = [page EXCEPT ![r] = q]
  BY <1>2 DEF Serve
<1> HIDE DEF q
<1>7. PageShape(q) /\ PageTrail(q) /\ ~Deciding(q)
  BY <1>1, <1>4, <1>5 DEF PageShape, PageTrail, Deciding, DecidingSteps
<1> QED BY <1>1, <1>4, <1>5, <1>6, <1>7, GoesOnKeeps DEF p

\* The decision's lookup: what it finds is reported, and the request goes on or fails.
LEMMA ResolvesKeeps ==
    ASSUME Paged, NEW r \in PageRequests, Resolves(r)
    PROVE  Paged'
<1> DEFINE p == Noted(page[r], "lookup")
           d == FindByUserCode(p.code)
           goes(o, step) == [o EXCEPT !.step = step, !.grant = d]
<1>1. /\ page[r].step = "resolve" /\ PageShape(page[r]) /\ PageTrail(page[r])
      /\ Deciding(page[r]) /\ UNCHANGED <<protection, decisions>>
  BY DEF Resolves, Paged, Deciding, DecidingSteps
<1>2. \/ \E error \in {"UnknownUserCode", "Storage", "NotPending"} :
             ReportsFailure(r, Noted(p, "Failed"), error)
      \/ Serve(r, goes(p, "drop")) /\ UNCHANGED session_token
      \/ Serve(r, goes(Noted(p, "Succeeded"), "write")) /\ UNCHANGED session_token
  BY DEF Resolves
<1> HIDE DEF d
<1>3. /\ DOMAIN p = RequestFields /\ p.trail = <<"allowed", "lookup">> /\ p.issued = FALSE
      /\ p.session = page[r].session /\ p.presented = page[r].presented
  <2>1. /\ DOMAIN page[r] = RequestFields /\ page[r].trail = <<"allowed">>
        /\ page[r].issued = FALSE
    BY <1>1 DEF PageShape, PageTrail
  <2>2. /\ DOMAIN p = RequestFields /\ p.trail = Append(page[r].trail, "lookup")
        /\ p.issued = FALSE /\ p.session = page[r].session /\ p.presented = page[r].presented
    BY <2>1 DEF Noted, RequestFields
  <2> QED BY <2>1, <2>2, TrailGrows
<1> HIDE DEF p
<1>4. ASSUME NEW how \in {"Succeeded", "Failed"}
      PROVE  /\ DOMAIN Noted(p, how) = RequestFields /\ Noted(p, how).issued = FALSE
             /\ Noted(p, how).trail \in Reported
             /\ Noted(p, how).trail = <<"allowed", "lookup", how>>
             /\ Noted(p, how).session = page[r].session
             /\ Noted(p, how).presented = page[r].presented
  <2>1. /\ DOMAIN Noted(p, how) = RequestFields /\ Noted(p, how).issued = FALSE
        /\ Noted(p, how).trail = Append(p.trail, how)
        /\ Noted(p, how).session = page[r].session
        /\ Noted(p, how).presented = page[r].presented
    BY <1>3, NotedFacts DEF RequestFields
  <2> QED BY <1>3, <2>1, TrailGrows
<1>5. ASSUME NEW error \in {"UnknownUserCode", "Storage", "NotPending"},
             ReportsFailure(r, Noted(p, "Failed"), error)
      PROVE  Paged'
  <2> DEFINE o == Noted(p, "Failed")
  <2>1. DOMAIN o = RequestFields /\ o.issued = FALSE /\ o.trail \in Reported
        /\ o.session = page[r].session
    BY <1>4
  <2>2. ReportsFailure(r, o, error) /\ error # "RateLimited"
    BY <1>5
  <2> HIDE DEF o
  <2> QED BY <1>1, <2>1, <2>2, ReportKeeps
<1>6. ASSUME NEW o, NEW step \in {"drop", "write"}, Serve(r, goes(o, step)), UNCHANGED session_token,
             DOMAIN o = RequestFields, o.issued = FALSE, o.session = page[r].session,
             o.presented = page[r].presented,
             step = "drop" => o.trail = <<"allowed", "lookup">>,
             step = "write" => o.trail = <<"allowed", "lookup", "Succeeded">>
      PROVE  Paged'
  <2> DEFINE q == goes(o, step)
  <2>1. /\ DOMAIN q = RequestFields /\ q.step = step /\ q.issued = FALSE /\ q.trail = o.trail
        /\ q.session = page[r].session /\ q.presented = page[r].presented
    BY <1>6 DEF RequestFields
  <2>2. page' = [page EXCEPT ![r] = q]
    BY <1>6 DEF Serve
  <2> HIDE DEF q
  <2>3. PageShape(q) /\ PageTrail(q)
    BY <1>1, <1>6, <2>1 DEF PageShape, PageTrail, Deciding, DecidingSteps
  <2>4. page[r].issued = FALSE
    BY <1>1 DEF PageShape
  <2> QED BY <1>1, <1>6, <2>1, <2>2, <2>3, <2>4, GoesOnKeeps
<1>7. CASE Serve(r, goes(p, "drop")) /\ UNCHANGED session_token
  BY <1>3, <1>6, <1>7
<1>8. CASE Serve(r, goes(Noted(p, "Succeeded"), "write")) /\ UNCHANGED session_token
  BY <1>4, <1>6, <1>8
<1> QED BY <1>2, <1>5, <1>7, <1>8

\* An expired grant is dropped, and the failure reported.
LEMMA DropsLapsedKeeps ==
    ASSUME Paged, NEW r \in PageRequests, DropsLapsed(r)
    PROVE  Paged'
<1> DEFINE p == Noted(page[r], "Failed")
<1>1. /\ page[r].step = "drop" /\ PageShape(page[r]) /\ PageTrail(page[r])
      /\ Deciding(page[r]) /\ UNCHANGED <<protection, decisions>>
      /\ ReportsFailure(r, p, "Expired")
  BY DEF DropsLapsed, Paged, Deciding, DecidingSteps
<1>2. DOMAIN page[r] = RequestFields /\ page[r].trail = <<"allowed", "lookup">> /\ page[r].issued = FALSE
  BY <1>1 DEF PageShape, PageTrail
<1>3. /\ DOMAIN p = RequestFields /\ p.trail = Append(page[r].trail, "Failed")
      /\ p.issued = FALSE /\ p.session = page[r].session
  BY <1>2 DEF Noted, RequestFields
<1>4. p.trail \in Reported
  BY <1>2, <1>3, TrailGrows
<1> HIDE DEF p
<1> QED BY <1>1, <1>3, <1>4, ReportKeeps

\* The swap of the grant: accepted, it is a decision on the form; lost, a failure.
LEMMA DecidesKeeps ==
    ASSUME Paged, NEW r \in PageRequests, Decides(r)
    PROVE  Paged'
<1> DEFINE p == page[r]
           q == PageDone(p)
<1>1. /\ p.step = "write" /\ PageShape(p) /\ PageTrail(p) /\ Deciding(p) /\ UNCHANGED protection
  BY DEF Decides, Paged, Deciding, DecidingSteps
<1>2. \/ /\ Serve(r, q) /\ UNCHANGED session_token
         /\ decisions' = decisions \cup {[on |-> p.grant, token |-> p.presented,
                                          session |-> p.session]}
      \/ ReportsFailure(r, p, "NotPending") /\ UNCHANGED decisions
  BY DEF Decides
<1>3. /\ DOMAIN p = RequestFields /\ p.issued = FALSE
      /\ p.trail = <<"allowed", "lookup", "Succeeded">> /\ p.trail \in Reported
  BY <1>1 DEF PageShape, PageTrail, Reported
<1>4. CASE ReportsFailure(r, p, "NotPending") /\ UNCHANGED decisions
  BY <1>1, <1>3, <1>4, ReportKeeps
<1>5. CASE /\ Serve(r, q) /\ UNCHANGED session_token
           /\ decisions' = decisions \cup {[on |-> p.grant, token |-> p.presented,
                                            session |-> p.session]}
  <2>1. q.step = "done" /\ q.trail = p.trail /\ q.issued = FALSE
    BY <1>3 DEF PageDone
  <2>2. page' = [page EXCEPT ![r] = q]
    BY <1>5 DEF Serve
  <2> HIDE DEF q
  <2>3. PageShape(q) /\ PageTrail(q) /\ ~Deciding(q) /\ ~q.issued
    BY <1>3, <2>1 DEF PageShape, PageTrail, Deciding, DecidingSteps
  <2> QED BY <1>1, <1>5, <2>2, <2>3, DecisionKeeps
<1> QED BY <1>2, <1>4, <1>5

\* The rest of the world leaves pages and tokens alone.
LEMMA PagedStep ==
    ASSUME Paged, [PageNext]_<<storeVars, authVars, pageVars>>
    PROVE  Paged'
<1>1. CASE UNCHANGED pageVars
  BY <1>1 DEF pageVars, Paged, FormsHeld, FormsOnce, IssuedTo
<1>2. CASE GrantsSwept \/ \E a \in AskingDevices : DeviceAsks(a)
  BY <1>1, <1>2 DEF GrantsSwept, DeviceAsks
<1> QED
  BY <1>1, <1>2, PageAskedKeeps, FormPostedKeeps, DisplaysKeeps, ResolvesKeeps, DropsLapsedKeeps,
     DecidesKeeps DEF PageNext

\* No page has been shown at first.
LEMMA PagedAlways == PageSpec => []Paged
<1>1. PageInit => Paged
  <2> SUFFICES ASSUME PageInit PROVE Paged
    OBVIOUS
  <2>1. /\ page = [r \in PageRequests |-> Unserved] /\ session_token = [s \in Sessions |-> None]
        /\ decisions = {} /\ protection \in Protections
    BY DEF PageInit, NoPages
  <2>2. \A r \in PageRequests :
            page[r].step = "new" /\ page[r].trail = <<>> /\ page[r].issued = FALSE
    BY <2>1 DEF Unserved
  <2>3. \A r \in PageRequests : PageShape(page[r]) /\ PageTrail(page[r]) /\ ~Deciding(page[r])
    BY <2>2 DEF PageShape, PageTrail, Deciding, DecidingSteps
  <2>4. FormsHeld /\ FormsOnce
    BY <2>1, <2>3 DEF FormsHeld, FormsOnce
  <2> QED BY <2>1, <2>3, <2>4 DEF Paged
<1>2. Paged /\ [PageNext]_<<storeVars, authVars, pageVars>> => Paged'
  BY PagedStep
<1> QED BY <1>1, <1>2, PTL DEF PageSpec

\* For any number of browsers, tabs and resubmissions, a request that looks a code up has been let
\* through by the limiter once and reports one outcome (CodeEntry, render_verification).
THEOREM EntryIsChargedOnce == PageSpec => []EntryChargedOnce
<1>1. Paged => EntryChargedOnce
  BY PagedMeans
<1> QED BY <1>1, PagedAlways, PTL

\* For any number of browsers, tabs and resubmissions, a decision that the store accepted came with
\* a form of its own session, and no form decides twice (verification_submit_handler).
THEOREM DecisionIsFromOwnForm == PageSpec => []DecisionFromOwnForm
<1>1. Paged => DecisionFromOwnForm
  BY PagedMeans
<1> QED BY <1>1, PagedAlways, PTL

-----------------------------------------------------------------------------
(***************************************************************************)
(* Tokens derived from grants and from other tokens.  A record about to be  *)
(* issued already lies within the grant it descends from, whatever became   *)
(* of the token it was derived from.                                        *)
(***************************************************************************)
Chain(act) == \E S : act \in Seq(S)

\* What a token of this origin may carry, and what exchanging it once more relies on.
Descends(token, o) ==
    /\ token.scope \subseteq o.grant.scope
    /\ token.resource \subseteq o.grant.resource
    /\ o.grant.resource # {} => token.resource # {}
    /\ AllowedResources # None => token.resource \subseteq AllowedResources
    /\ EachFrom(token.details, o.grant.details)
    /\ token.expires_at \in Nat /\ o.first.expires_at \in Nat
    /\ token.expires_at <= o.first.expires_at
    /\ token.subject = o.grant.subject
    /\ token.grant_established_at = o.grant.grant_established_at
    /\ Chain(token.act) /\ Len(token.act) <= MAX_ACT_CHAIN_DEPTH
    /\ token.details # <<>> /\ ~allow_authorization_details_exchange
           => token.client_id = o.grant.client_id
    /\ o.grant.jkt # None /\ ~allow_sender_constrained_exchange
           => token = o.first /\ token.jkt = o.grant.jkt

\* The origin that `Issues` writes down for a record with this root.
OriginOf(record, root) == IF root.first = None THEN [root EXCEPT !.first = record] ELSE root

Rooted(root) == root = [grant |-> root.grant, first |-> root.first]

\* What a request holds between two of its reads.
LegKnown(c) ==
    /\ c.step = "client" => c = [step |-> "client", request |-> c.request]
    /\ c.step \in {"client", "subject", "actor"} =>
           /\ c.request.subject_token \in AccessTokens
           /\ c.request.actor_token \in Option(AccessTokens)
    /\ c.step = "actor" =>
           /\ c.request.actor_token # None /\ Rooted(c.root) /\ Descends(c.subject, c.root)
           /\ c.subject.jkt # None => allow_sender_constrained_exchange
    /\ c.step \in {"credentials", "authenticated"} =>
           \A r \in validate_resources(c.ask.resource) : target_is_permitted(r)
    /\ c.step = "issue" => Rooted(c.root) /\ Descends(c.record, OriginOf(c.record, c.root))

LegsKnown == DOMAIN leg = Legs /\ \A l \in Legs : LegKnown(leg[l])

TokensDescend ==
    /\ DOMAIN tokens = AccessTokens /\ DOMAIN origin = AccessTokens
    /\ \A t \in AccessTokens : tokens[t] # None => Rooted(origin[t]) /\ Descends(tokens[t], origin[t])

Derived == clock \in Nat /\ LegsKnown /\ TokensDescend /\ IntrospectionStaysLocal

LEMMA DetailNarrowsItself ==
    ASSUME NEW details
    PROVE  EachFrom(details, details)
<1> DEFINE m == [j \in DOMAIN details |-> j]
<1>1. m \in [DOMAIN details -> DOMAIN details]
  OBVIOUS
<1>2. \A j \in DOMAIN details : is_narrowing_of(details[j], details[m[j]])
  BY DEF is_narrowing_of
<1>3. \A j, k \in DOMAIN details : m[j] = m[k] => j = k
  OBVIOUS
<1> HIDE DEF m
<1> QED BY <1>1, <1>2, <1>3 DEF EachFrom

\* `narrow` gives each requested element a granted one of its own.
LEMMA NarrowedDetails ==
    ASSUME NEW granted, NEW requested, Len(requested) \in Nat,
           DOMAIN requested = 1..Len(requested), narrow_details(granted, requested).ok
    PROVE  EachFrom(narrow_details(granted, requested).details, granted)
<1>1. CASE requested = <<>>
  <2>1. narrow_details(granted, requested).details = granted
    BY <1>1 DEF narrow_details
  <2> QED BY <2>1, DetailNarrowsItself
<1>2. CASE requested # <<>>
  <2>1. /\ \E m \in [DOMAIN requested -> DOMAIN granted] : Consumes(granted, requested, m)
        /\ narrow_details(granted, requested).details = requested
    BY <1>2 DEF narrow_details, Denied
  <2>2. PICK m \in [DOMAIN requested -> DOMAIN granted] : Consumes(granted, requested, m)
    BY <2>1
  <2>3. \A j \in DOMAIN requested : /\ is_narrowing_of(requested[j], granted[m[j]])
                                    /\ \A k \in 1..(j - 1) : m[k] # m[j]
    BY <2>2 DEF Consumes
  <2>4. ASSUME NEW j \in DOMAIN requested, NEW k \in DOMAIN requested, j # k
        PROVE  m[j] # m[k]
    <3>1. j \in Int /\ k \in Int /\ 1 <= j /\ 1 <= k
      OBVIOUS
    <3>2. CASE j < k
      <4>1. j \in 1..(k - 1)
        BY <3>1, <3>2
      <4> QED BY <2>3, <4>1
    <3>3. CASE k < j
      <4>1. k \in 1..(j - 1)
        BY <3>1, <3>3
      <4> QED BY <2>3, <4>1
    <3> QED BY <2>4, <3>1, <3>2, <3>3
  <2>5. EachFrom(requested, granted)
    BY <2>2, <2>3, <2>4 DEF EachFrom
  <2> QED BY <2>1, <2>5
<1> QED BY <1>1, <1>2

LEMMA NarrowedResources ==
    ASSUME NEW granted, NEW requested, narrow_and_permit(granted, requested).ok,
           \A r \in requested : target_is_permitted(r), NEW got,
           got = narrow_and_permit(granted, requested).resource
    PROVE  /\ got \subseteq granted
           /\ granted # {} => got # {}
           /\ AllowedResources # None => got \subseteq AllowedResources
<1>1. CASE requested # {}
  <2>1. requested \subseteq granted /\ got = requested
    BY <1>1 DEF narrow_and_permit, narrow_resources, Denied
  <2> QED BY <1>1, <2>1 DEF target_is_permitted
<1>2. CASE requested = {}
  <2>1. /\ got = {r \in granted : target_is_permitted(r)}
        /\ granted # {} => got # {}
    BY <1>2 DEF narrow_and_permit, narrow_resources, Denied
  <2> QED BY <2>1 DEF target_is_permitted
<1> QED BY <1>1, <1>2

LEMMA ChainGrows ==
    ASSUME NEW act, Chain(act), NEW e
    PROVE  Chain(<<e>> \o act) /\ Len(<<e>> \o act) = Len(act) + 1 /\ Len(act) \in Nat
<1>1. PICK S : act \in Seq(S)
  BY DEF Chain
<1> DEFINE T == S \cup {e}
<1>2. act \in Seq(T) /\ <<e>> \in Seq(T)
  BY <1>1
<1> HIDE DEF T
<1>3. <<e>> \o act \in Seq(T) /\ Len(<<e>> \o act) = 1 + Len(act) /\ Len(act) \in Nat
  BY <1>2
<1> QED BY <1>3 DEF Chain

LEMMA EmptyChain == Chain(<<>>) /\ Len(<<>>) = 0
<1>1. <<>> \in Seq({})
  OBVIOUS
<1> QED BY <1>1 DEF Chain

\* The first token of a grant.
LEMMA FirstDescends ==
    ASSUME clock \in Nat, NEW g, NEW scope, NEW resource, NEW details, NEW record,
           record = Minted(g.client_id, g, scope, resource, details, <<>>, g.jkt, None),
           scope \subseteq g.scope, resource \subseteq g.resource,
           g.resource # {} => resource # {},
           AllowedResources # None => resource \subseteq AllowedResources,
           EachFrom(details, g.details)
    PROVE  Rooted(Root(g)) /\ Descends(record, OriginOf(record, Root(g)))
<1> DEFINE o == OriginOf(record, Root(g))
<1>1. o.grant = g /\ o.first = record /\ Rooted(Root(g))
  BY DEF OriginOf, Root, Rooted
<1>2. /\ record.client_id = g.client_id /\ record.subject = g.subject /\ record.scope = scope
      /\ record.resource = resource /\ record.details = details /\ record.act = <<>>
      /\ record.jkt = g.jkt /\ record.grant_established_at = g.grant_established_at
      /\ record.expires_at = clock + exchange_ttl
  BY DEF Minted
<1>3. clock + exchange_ttl \in Nat /\ MAX_ACT_CHAIN_DEPTH \in Nat
  BY ExchangeAssumption
<1>4. record.expires_at \in Nat /\ record.expires_at <= record.expires_at
  BY <1>2, <1>3
<1>5. Chain(record.act) /\ Len(record.act) <= MAX_ACT_CHAIN_DEPTH
  BY <1>2, <1>3, EmptyChain
<1> HIDE DEF o
<1>6. Descends(record, o)
  BY <1>1, <1>2, <1>4, <1>5 DEF Descends
<1> QED BY <1>1, <1>6 DEF o

\* A token exchanged for another, which `issue` may not outlive.
LEMMA ExchangedDescends ==
    ASSUME clock \in Nat, NEW subject, NEW root, Rooted(root), Descends(subject, root), NEW id,
           NEW scope, NEW resource, NEW act, NEW record,
           record = Minted(id, subject, scope, resource, subject.details, act, None,
                           subject.expires_at),
           scope \subseteq subject.scope, resource \subseteq subject.resource,
           subject.resource # {} => resource # {},
           AllowedResources # None => resource \subseteq AllowedResources,
           Chain(act), Len(act) <= MAX_ACT_CHAIN_DEPTH,
           subject.details # <<>> /\ ~allow_authorization_details_exchange
               => subject.client_id = id,
           subject.jkt # None => allow_sender_constrained_exchange
    PROVE  Descends(record, OriginOf(record, root))
<1> DEFINE o == OriginOf(record, root)
<1>1. /\ record.client_id = id /\ record.subject = subject.subject /\ record.scope = scope
      /\ record.resource = resource /\ record.details = subject.details /\ record.act = act
      /\ record.grant_established_at = subject.grant_established_at
      /\ record.expires_at = IF /\ subject.expires_at # None
                                /\ subject.expires_at < clock + exchange_ttl
                             THEN subject.expires_at ELSE clock + exchange_ttl
  BY DEF Minted
<1>2. /\ subject.expires_at \in Nat /\ subject.expires_at # None /\ clock + exchange_ttl \in Nat
      /\ root.first.expires_at \in Nat /\ subject.expires_at <= root.first.expires_at
  BY ExchangeAssumption, NoneAssumption DEF Descends
<1>3. /\ record.expires_at \in Nat /\ record.expires_at <= record.expires_at
      /\ record.expires_at <= root.first.expires_at
  BY <1>1, <1>2
<1>4. /\ o.grant = root.grant
      /\ o.first = root.first \/ o.first = record
  BY DEF OriginOf, Rooted
<1>5. o.first.expires_at \in Nat /\ record.expires_at <= o.first.expires_at
  BY <1>2, <1>3, <1>4
<1>6. ~(root.grant.jkt # None /\ ~allow_sender_constrained_exchange)
  BY DEF Descends
<1> HIDE DEF o
<1>7. /\ subject.scope \subseteq root.grant.scope /\ subject.resource \subseteq root.grant.resource
      /\ root.grant.resource # {} => subject.resource # {}
      /\ EachFrom(subject.details, root.grant.details)
      /\ subject.subject = root.grant.subject
      /\ subject.grant_established_at = root.grant.grant_established_at
      /\ subject.details # <<>> /\ ~allow_authorization_details_exchange
             => subject.client_id = root.grant.client_id
  BY DEF Descends
<1>8. Descends(record, o)
  BY <1>1, <1>3, <1>4, <1>5, <1>6, <1>7 DEF Descends
<1> QED BY <1>8 DEF o

-----------------------------------------------------------------------------
LEMMA LegMoved ==
    ASSUME Derived, NEW l \in Legs, NEW c, LegKnown(c), Move(l, c), OnlyLegs
    PROVE  Derived'
<1>1. tokens' = tokens /\ origin' = origin /\ told' = told /\ clock' = clock
  BY DEF OnlyLegs, storeVars, tokenMaps, authVars
<1>2. LegsKnown'
  BY DEF Move, Derived, LegsKnown
<1>3. TokensDescend' /\ IntrospectionStaysLocal'
  BY <1>1 DEF Derived, TokensDescend, IntrospectionStaysLocal
<1> QED BY <1>1, <1>2, <1>3 DEF Derived

LEMMA LegRebuffed ==
    ASSUME Derived, NEW l \in Legs, NEW why, Rebuff(l, why), OnlyLegs
    PROVE  Derived'
<1> DEFINE c == [step |-> "answered", why |-> why]
<1>1. LegKnown(c)
  BY DEF LegKnown
<1> QED BY <1>1, LegMoved DEF Rebuff

LEMMA LegIssuing ==
    ASSUME Derived, NEW l \in Legs, NEW record, NEW root, Issuing(l, record, root), OnlyLegs,
           Rooted(root), Descends(record, OriginOf(record, root))
    PROVE  Derived'
<1> DEFINE c == [step |-> "issue", record |-> record, root |-> root]
<1>1. LegKnown(c)
  BY DEF LegKnown
<1> QED BY <1>1, LegMoved DEF Issuing

\* What `validate_resources` has let through.
LEMMA AskPermitted ==
    ASSUME NEW kind, NEW ask, LegRefused(kind, ask) = "none"
    PROVE  \A r \in validate_resources(ask.resource) : target_is_permitted(r)
<1>1. ~resources_refused(ask.resource)
  BY DEF LegRefused
<1> QED BY <1>1 DEF resources_refused, validate_resources

LEMMA TargetsPermitted ==
    ASSUME NEW r, ~targets_refused(r)
    PROVE  \A x \in ExchangeTargets(r) : target_is_permitted(x)
  BY DEF targets_refused, resources_refused, ExchangeTargets, validate_resources

LEMMA RedeemsDerives ==
    ASSUME Derived, NEW l \in Legs, NEW g \in StandingGrants, NEW ask \in Asks[l],
           Redeems(l, g, ask)
    PROVE  Derived'
<1> DEFINE scope == IF ask.scope = None THEN g.scope ELSE ask.scope
           resource == narrow_and_permit(g.resource, validate_resources(ask.resource))
           details == narrow_details(g.details, ask.details)
           record == Minted(g.client_id, g, scope, resource.resource, details.details, <<>>, g.jkt,
                            None)
<1>1. OnlyLegs
  BY DEF Redeems
<1>2. CASE \E why : Rebuff(l, why)
  BY <1>1, <1>2, LegRebuffed
<1>3. CASE ~ \E why : Rebuff(l, why)
  <2>1. /\ LegRefused(g.kind, ask) = "none" /\ scope \subseteq g.scope
        /\ resource.ok /\ details.ok /\ Issuing(l, record, Root(g))
    BY <1>3 DEF Redeems
  <2>2. /\ resource.resource \subseteq g.resource
        /\ g.resource # {} => resource.resource # {}
        /\ AllowedResources # None => resource.resource \subseteq AllowedResources
    BY <2>1, AskPermitted, NarrowedResources
  <2>3. EachFrom(details.details, g.details)
    BY <2>1, ExchangeAssumption, NarrowedDetails
  <2> HIDE DEF scope, resource, details
  <2>4. Rooted(Root(g)) /\ Descends(record, OriginOf(record, Root(g)))
    BY <2>1, <2>2, <2>3, FirstDescends DEF Derived
  <2> HIDE DEF record
  <2> QED BY <1>1, <2>1, <2>4, LegIssuing
<1> QED BY <1>2, <1>3

LEMMA CredentialsArriveDerives ==
    ASSUME Derived, NEW l \in Legs, NEW c, NEW ask, CredentialsArrive(l, c, ask)
    PROVE  Derived'
<1> DEFINE w == [step |-> "credentials", client_id |-> c, ask |-> ask, at |-> clock]
<1>1. OnlyLegs
  BY DEF CredentialsArrive
<1>2. CASE LegRefused("credentials", ask) # "none"
  BY <1>1, <1>2, LegRebuffed DEF CredentialsArrive
<1>3. CASE LegRefused("credentials", ask) = "none"
  <2>1. Move(l, w)
    BY <1>3 DEF CredentialsArrive
  <2>2. LegKnown(w)
    BY <1>3, AskPermitted DEF LegKnown
  <2> QED BY <1>1, <2>1, <2>2, LegMoved
<1> QED BY <1>2, <1>3

LEMMA CredentialsReadDerives ==
    ASSUME Derived, NEW l \in Legs, CredentialsRead(l)
    PROVE  Derived'
<1> DEFINE w == [step |-> "authenticated", client_id |-> leg[l].client_id, ask |-> leg[l].ask,
                 at |-> leg[l].at, client |-> clients[leg[l].client_id]]
<1>1. OnlyLegs /\ leg[l].step = "credentials" /\ (Move(l, w) \/ Rebuff(l, "invalid_client"))
  BY DEF CredentialsRead, Step
<1>2. LegKnown(leg[l])
  BY DEF Derived, LegsKnown
<1>3. LegKnown(w)
  BY <1>1, <1>2 DEF LegKnown
<1> QED BY <1>1, <1>3, LegMoved, LegRebuffed

LEMMA CredentialsDerive ==
    ASSUME Derived, NEW l \in Legs, ClientCredentials(l)
    PROVE  Derived'
<1> DEFINE w == leg[l]
           g == CredentialsGrant(w)
           record == Minted(w.client_id, g, g.scope, g.resource, g.details, <<>>, g.jkt, None)
<1>1. OnlyLegs /\ w.step = "authenticated"
  BY DEF ClientCredentials, Step
<1>2. CASE \E why : Rebuff(l, why)
  BY <1>1, <1>2, LegRebuffed
<1>3. CASE ~ \E why : Rebuff(l, why)
  <2>1. Issuing(l, record, Root(g))
    BY <1>3 DEF ClientCredentials
  <2>2. g.client_id = w.client_id /\ g.resource = validate_resources(w.ask.resource)
    BY DEF CredentialsGrant
  <2>3. LegKnown(w)
    BY DEF Derived, LegsKnown
  <2>4. AllowedResources # None => g.resource \subseteq AllowedResources
    BY <1>1, <2>2, <2>3 DEF LegKnown, target_is_permitted
  <2>5. EachFrom(g.details, g.details)
    BY DetailNarrowsItself
  <2> HIDE DEF g, w
  <2>6. record = Minted(g.client_id, g, g.scope, g.resource, g.details, <<>>, g.jkt, None)
    BY <2>2
  <2> HIDE DEF record
  <2>7. Rooted(Root(g)) /\ Descends(record, OriginOf(record, Root(g)))
    BY <2>4, <2>5, <2>6, FirstDescends DEF Derived
  <2> QED BY <1>1, <2>1, <2>7, LegIssuing
<1> QED BY <1>2, <1>3

LEMMA ArrivalDerives ==
    ASSUME Derived, NEW l \in Legs, NEW r \in ExchangeRequests[l], ExchangeArrives(l, r)
    PROVE  Derived'
<1> DEFINE c == [step |-> "client", request |-> r]
<1>1. OnlyLegs /\ (Move(l, c) \/ Rebuff(l, "invalid_request"))
  BY DEF ExchangeArrives
<1>2. LegKnown(c)
  BY ExchangeAssumption DEF LegKnown
<1> QED BY <1>1, <1>2, LegMoved, LegRebuffed

LEMMA AuthenticationDerives ==
    ASSUME Derived, NEW l \in Legs, ExchangeAuthenticated(l)
    PROVE  Derived'
<1> DEFINE r == leg[l].request
           c == [step |-> "subject", request |-> r, client |-> clients[r.client_id]]
<1>1. OnlyLegs /\ leg[l].step = "client" /\ (Move(l, c) \/ \E why : Rebuff(l, why))
  BY DEF ExchangeAuthenticated, Step
<1>2. LegKnown(leg[l])
  BY DEF Derived, LegsKnown
<1>3. LegKnown(c)
  BY <1>1, <1>2 DEF LegKnown
<1> QED BY <1>1, <1>3, LegMoved, LegRebuffed

\* The ceilings of an exchange, whichever read came last.
LEMMA DecisionDerives ==
    ASSUME Derived, NEW l \in Legs, NEW r, NEW client, NEW subject, NEW act, NEW root,
           ExchangeDecides(l, r, client, subject, act, root), OnlyLegs,
           Rooted(root), Descends(subject, root), Chain(act), Len(act) <= MAX_ACT_CHAIN_DEPTH,
           subject.jkt # None => allow_sender_constrained_exchange
    PROVE  Derived'
<1> DEFINE scope == IF r.scope = None THEN subject.scope ELSE r.scope
           resource == narrow_and_permit(subject.resource, ExchangeTargets(r))
           record == Minted(r.client_id, subject, scope, resource.resource, subject.details, act,
                            None, subject.expires_at)
<1>1. CASE \E why : Rebuff(l, why)
  BY <1>1, LegRebuffed
<1>2. CASE ~ \E why : Rebuff(l, why)
  <2>1. /\ scope \subseteq subject.scope /\ ~targets_refused(r) /\ resource.ok
        /\ subject.details # <<>> /\ ~allow_authorization_details_exchange
               => subject.client_id = r.client_id
        /\ Issuing(l, record, root)
    BY <1>2 DEF ExchangeDecides
  <2>2. /\ resource.resource \subseteq subject.resource
        /\ subject.resource # {} => resource.resource # {}
        /\ AllowedResources # None => resource.resource \subseteq AllowedResources
    BY <2>1, TargetsPermitted, NarrowedResources
  <2> HIDE DEF scope, resource
  <2>3. Descends(record, OriginOf(record, root))
    BY <2>1, <2>2, ExchangedDescends DEF Derived
  <2> HIDE DEF record
  <2> QED BY <2>1, <2>3, LegIssuing
<1> QED BY <1>1, <1>2

LEMMA SubjectDerives ==
    ASSUME Derived, NEW l \in Legs, SubjectRead(l)
    PROVE  Derived'
<1> DEFINE r == leg[l].request
           subject == tokens[r.subject_token]
           root == origin[r.subject_token]
           c == [step |-> "actor", request |-> r, client |-> leg[l].client, subject |-> subject,
                 root |-> root]
<1>1. OnlyLegs /\ leg[l].step = "subject"
  BY DEF SubjectRead, Step
<1>2. LegKnown(leg[l])
  BY DEF Derived, LegsKnown
<1>3. r.subject_token \in AccessTokens /\ r.actor_token \in Option(AccessTokens)
  BY <1>1, <1>2 DEF LegKnown
<1>4. CASE \E why : Rebuff(l, why)
  BY <1>1, <1>4, LegRebuffed
<1>5. CASE ~ \E why : Rebuff(l, why)
  <2>1. /\ subject # None /\ (subject.jkt # None => allow_sender_constrained_exchange)
        /\ \/ ExchangeDecides(l, r, leg[l].client, subject, <<>>, root)
           \/ r.actor_token # None /\ Move(l, c)
    BY <1>5 DEF SubjectRead, introspect
  <2>2. Rooted(root) /\ Descends(subject, root)
    BY <1>3, <2>1 DEF Derived, TokensDescend
  <2>3. CASE ExchangeDecides(l, r, leg[l].client, subject, <<>>, root)
    <3>1. Chain(<<>>) /\ Len(<<>>) <= MAX_ACT_CHAIN_DEPTH
      BY EmptyChain, ExchangeAssumption
    <3> HIDE DEF subject, root, r
    <3> QED BY <1>1, <2>1, <2>2, <2>3, <3>1, DecisionDerives
  <2>4. CASE r.actor_token # None /\ Move(l, c)
    <3>1. LegKnown(c)
      BY <1>3, <2>1, <2>2, <2>4 DEF LegKnown
    <3> QED BY <1>1, <2>4, <3>1, LegMoved
  <2> QED BY <2>1, <2>3, <2>4
<1> QED BY <1>4, <1>5

LEMMA ActorDerives ==
    ASSUME Derived, NEW l \in Legs, ActorRead(l)
    PROVE  Derived'
<1> DEFINE w == leg[l]
           actor == tokens[w.request.actor_token]
           e == [sub |-> IF actor.subject = None THEN actor.client_id ELSE actor.subject,
                 client_id |-> actor.client_id]
<1>1. OnlyLegs /\ w.step = "actor"
  BY DEF ActorRead, Step
<1>2. LegKnown(w)
  BY DEF Derived, LegsKnown
<1>3. /\ Rooted(w.root) /\ Descends(w.subject, w.root)
      /\ w.subject.jkt # None => allow_sender_constrained_exchange
  BY <1>1, <1>2 DEF LegKnown
<1>4. CASE \E why : Rebuff(l, why)
  BY <1>1, <1>4, LegRebuffed
<1>5. CASE ~ \E why : Rebuff(l, why)
  <2>1. /\ ~(Len(w.subject.act) >= MAX_ACT_CHAIN_DEPTH)
        /\ ExchangeDecides(l, w.request, w.client, w.subject, <<e>> \o w.subject.act, w.root)
    BY <1>5 DEF ActorRead
  <2>2. Chain(w.subject.act)
    BY <1>3 DEF Descends
  <2> HIDE DEF e, w
  <2>3. /\ Chain(<<e>> \o w.subject.act) /\ Len(<<e>> \o w.subject.act) = Len(w.subject.act) + 1
        /\ Len(w.subject.act) \in Nat
    BY <2>2, ChainGrows
  <2>4. Len(<<e>> \o w.subject.act) <= MAX_ACT_CHAIN_DEPTH
    BY <2>1, <2>3, ExchangeAssumption
  <2> QED BY <1>1, <1>3, <2>1, <2>3, <2>4, DecisionDerives
<1> QED BY <1>4, <1>5

LEMMA IssueDerives ==
    ASSUME Derived, NEW l \in Legs, Issues(l)
    PROVE  Derived'
<1> DEFINE r == leg[l].record
           t == Draws[l]
           root == leg[l].root
<1>1. leg[l].step = "issue" /\ told' = told /\ clock' = clock
  BY DEF Issues, Step, authVars
<1>2. IntrospectionStaysLocal'
  BY <1>1 DEF Derived, IntrospectionStaysLocal
<1>3. LegKnown(leg[l])
  BY DEF Derived, LegsKnown
<1>4. Rooted(root) /\ Descends(r, OriginOf(r, root))
  BY <1>1, <1>3 DEF LegKnown
<1>5. CASE Refused(r)
  <2>1. tokens' = tokens /\ origin' = origin /\ Rebuff(l, "invalid_grant")
    BY <1>5 DEF Issues, put_token
  <2>2. LegsKnown'
    BY <2>1 DEF Rebuff, Move, Derived, LegsKnown, LegKnown
  <2>3. TokensDescend'
    BY <2>1 DEF Derived, TokensDescend
  <2> QED BY <1>1, <1>2, <2>2, <2>3 DEF Derived
<1>6. CASE ~Refused(r)
  <2>1. /\ tokens' = [tokens EXCEPT ![t] = r]
        /\ origin' = [origin EXCEPT ![t] = OriginOf(r, root)]
        /\ Move(l, [step |-> "issued"])
    BY <1>6 DEF Issues, put_token, OriginOf
  <2>2. LegsKnown'
    BY <2>1 DEF Move, Derived, LegsKnown, LegKnown
  <2>3. Rooted(OriginOf(r, root))
    BY <1>4 DEF Rooted, OriginOf
  <2> HIDE DEF r, t, root
  <2>4. TokensDescend'
    <3>1. DOMAIN tokens' = AccessTokens /\ DOMAIN origin' = AccessTokens
      BY <2>1 DEF Derived, TokensDescend
    <3>2. ASSUME NEW x \in AccessTokens, tokens'[x] # None
          PROVE  Rooted(origin'[x]) /\ Descends(tokens'[x], origin'[x])
      <4>1. CASE x = t
        <5>1. tokens'[x] = r /\ origin'[x] = OriginOf(r, root)
          BY <2>1, <4>1 DEF Derived, TokensDescend
        <5> QED BY <1>4, <2>3, <5>1
      <4>2. CASE x # t
        <5>1. tokens'[x] = tokens[x] /\ origin'[x] = origin[x]
          BY <2>1, <4>2 DEF Derived, TokensDescend
        <5> QED BY <3>2, <5>1 DEF Derived, TokensDescend
      <4> QED BY <4>1, <4>2
    <3> QED BY <3>1, <3>2 DEF TokensDescend
  <2> QED BY <1>1, <1>2, <2>2, <2>4 DEF Derived
<1> QED BY <1>5, <1>6

\* Tokens that go take nothing with them that a descendant relies on.
LEMMA TokensGone ==
    ASSUME Derived, UNCHANGED <<leg, origin, told, clock>>, DOMAIN tokens' = AccessTokens,
           \A t \in AccessTokens : tokens'[t] = None \/ tokens'[t] = tokens[t]
    PROVE  Derived'
<1>1. LegsKnown' /\ IntrospectionStaysLocal'
  BY DEF Derived, LegsKnown, IntrospectionStaysLocal
<1>2. TokensDescend'
  BY DEF Derived, TokensDescend
<1> QED BY <1>1, <1>2 DEF Derived

LEMMA AnswerStaysLocal ==
    ASSUME Derived, NEW c, NEW t \in AccessTokens, Introspects(c, t)
    PROVE  Derived'
<1> DEFINE answer == introspection_response(c, t)
           mine == Mine(c, tokens[t])
<1>1. /\ told' = [to |-> c, origin |-> origin[t], answer |-> answer]
      /\ UNCHANGED <<tokens, clock, leg, origin>>
  BY DEF Introspects, storeVars, tokenMaps, authVars
<1>2. told'.to = c /\ told'.origin = origin[t] /\ told'.answer = answer
  BY <1>1
<1>3. ASSUME answer.active, c # answer.client_id
      PROVE  /\ answer.aud # {}
             /\ answer.aud \subseteq ResourceServers[c] \cap origin[t].grant.resource
             /\ \A i \in DOMAIN answer.details : answer.details[i].locations \subseteq answer.aud
  <2>1. introspect(t) /\ (tokens[t].client_id = c \/ mine # {})
    BY <1>3 DEF introspection_response
  <2>2. /\ answer.client_id = tokens[t].client_id
        /\ answer.aud = IF tokens[t].client_id = c THEN tokens[t].resource ELSE mine
        /\ answer.details = IF tokens[t].client_id = c THEN tokens[t].details
                            ELSE details_for_resource_server(tokens[t].details, mine)
    BY <2>1 DEF introspection_response
  <2>3. /\ mine # {} /\ answer.aud = mine
        /\ answer.details = details_for_resource_server(tokens[t].details, mine)
    BY <1>3, <2>1, <2>2
  <2>4. tokens[t].resource \subseteq origin[t].grant.resource
    BY <2>1 DEF introspect, Derived, TokensDescend, Descends
  <2>5. mine \subseteq ResourceServers[c] \cap origin[t].grant.resource
    BY <2>4 DEF Mine
  <2>6. \A i \in DOMAIN answer.details : answer.details[i].locations \subseteq mine
    <3> HIDE DEF mine, answer
    <3> QED BY <2>3 DEF details_for_resource_server
  <2> QED BY <2>3, <2>5, <2>6
<1> HIDE DEF answer
<1>4. IntrospectionStaysLocal'
  BY <1>2, <1>3 DEF IntrospectionStaysLocal
<1>5. LegsKnown' /\ TokensDescend'
  BY <1>1 DEF Derived, LegsKnown, TokensDescend
<1> QED BY <1>1, <1>4, <1>5 DEF Derived

LEMMA DerivedInit == ExchangeInit => Derived
  BY DEF ExchangeInit, RequestInit, Derived, LegsKnown, LegKnown, TokensDescend, Empty,
         IntrospectionStaysLocal

LEMMA DerivedStep ==
    Derived /\ [ExchangeNext]_<<storeVars, authVars, requestVars, exchangeVars>> => Derived'
<1> SUFFICES ASSUME Derived, [ExchangeNext]_<<storeVars, authVars, requestVars, exchangeVars>>
             PROVE  Derived'
  OBVIOUS
<1>1. CASE ExchangeTick
  <2>1. UNCHANGED <<tokens, leg, origin, told>> /\ clock' = clock + 1
    BY <1>1 DEF ExchangeTick, storeVars, tokenMaps, exchangeVars
  <2>2. clock' \in Nat
    BY <2>1 DEF Derived
  <2> QED BY <2>1, <2>2 DEF Derived, LegsKnown, TokensDescend, IntrospectionStaysLocal
<1>2. ASSUME NEW l \in Legs, NEW g \in StandingGrants, NEW ask \in Asks[l], Redeems(l, g, ask)
      PROVE  Derived'
  BY <1>2, RedeemsDerives
<1>3. ASSUME NEW l \in Legs, NEW c \in ClientIds, NEW ask \in Asks[l], CredentialsArrive(l, c, ask)
      PROVE  Derived'
  BY <1>3, CredentialsArriveDerives
<1>4. ASSUME NEW l \in Legs, NEW r \in ExchangeRequests[l], ExchangeArrives(l, r) PROVE Derived'
  BY <1>4, ArrivalDerives
<1>5. ASSUME NEW l \in Legs,
             \/ CredentialsRead(l) \/ ClientCredentials(l)
             \/ ExchangeAuthenticated(l) \/ SubjectRead(l) \/ ActorRead(l) \/ Issues(l)
      PROVE  Derived'
  BY <1>5, CredentialsReadDerives, CredentialsDerive, AuthenticationDerives, SubjectDerives, ActorDerives,
     IssueDerives
<1>6. ASSUME NEW q \in Enquiries, Introspects(q.client_id, q.token) PROVE Derived'
  <2>1. q.token \in AccessTokens
    BY ExchangeAssumption
  <2> QED BY <1>6, <2>1, AnswerStaysLocal
<1>7. ASSUME NEW t \in AccessTokens, TokenRevoked(t) PROVE Derived'
  <2>1. /\ tokens' = [tokens EXCEPT ![t] = None]
        /\ UNCHANGED <<leg, origin, told, clock>>
    BY <1>7 DEF TokenRevoked, delete_token, exchangeVars, authVars
  <2> QED BY <2>1, TokensGone DEF Derived, TokensDescend
<1>8. ASSUME NEW c \in ClientIds, DeregisterClient(c), UNCHANGED exchangeVars PROVE Derived'
  <2>1. /\ tokens' = Without(tokens, OfClient(tokens, c))
        /\ UNCHANGED <<leg, origin, told, clock>>
    BY <1>8 DEF DeregisterClient, delete_client, exchangeVars, authVars
  <2> QED BY <2>1, TokensGone DEF Derived, TokensDescend, Without
<1>9. CASE UNCHANGED <<storeVars, authVars, requestVars, exchangeVars>>
  <2>1. UNCHANGED <<tokens, leg, origin, told, clock>>
    BY <1>9 DEF storeVars, tokenMaps, authVars, exchangeVars
  <2> QED BY <2>1 DEF Derived, LegsKnown, TokensDescend, IntrospectionStaysLocal
<1> QED BY <1>1, <1>2, <1>3, <1>4, <1>5, <1>6, <1>7, <1>8, <1>9 DEF ExchangeNext

LEMMA DerivedAlways == ExchangeSpec => []Derived
  BY DerivedInit, DerivedStep, PTL DEF ExchangeSpec

\* DescendantsStayWithin for every grant, policy and number of concurrent exchanges, chains of any
\* length included, and whatever was revoked between the reads of an exchange and its write
\* (exchange, narrow_and_permit, AuthorizationDetails::narrow, issue).
THEOREM ExchangesStayWithin == ExchangeSpec => []DescendantsStayWithin
<1>1. Derived => DescendantsStayWithin
  BY DEF Derived, TokensDescend, Descends, DescendantsStayWithin
<1> QED BY <1>1, DerivedAlways, PTL

\* IntrospectionStaysLocal for every registration of resource servers and every token they ask about.
THEOREM IntrospectionIsLocal == ExchangeSpec => []IntrospectionStaysLocal
<1>1. Derived => IntrospectionStaysLocal
  BY DEF Derived
<1> QED BY <1>1, DerivedAlways, PTL
=============================================================================

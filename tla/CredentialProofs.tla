--------------------------- MODULE CredentialProofs ---------------------------
(***************************************************************************)
(* What stands before and behind the token endpoint, for any number of      *)
(* requests at once: the credentials and proofs a request presents, the     *)
(* limiter that every attempt passes first, and the keys that sign what is  *)
(* issued, for every configuration.                                         *)
(***************************************************************************)
EXTENDS ClientAuthentication, RateLimiter, SigningKeys, FiniteSetTheorems, SequenceTheorems, TLAPS

-----------------------------------------------------------------------------
(***************************************************************************)
(* Replay identifiers.  The table holds an identifier from the moment one   *)
(* request has claimed it until the deadline that came with it, and what    *)
(* it holds somebody has claimed.                                           *)
(***************************************************************************)
OwnersOf(kind) == IF kind = "ca" THEN ClientIds ELSE ProofKeys

\* An owner whose name is written into a key.
NamedInKey(kind, owner) ==
    owner \in OwnersOf(kind) /\ Len(Spelling[owner]) < MAX_ASSERTION_BYTES

\* The identifier is the one that replay_key makes for this kind and owner.
Keyed(kind, owner, id) ==
    /\ kind \in {"ca", "dpop"} /\ NamedInKey(kind, owner) /\ id \in ReplayIds
    /\ \E jti \in Seq(STRING) : id = replay_key(kind, Spelling[owner], jti)

\* A bill that is no residual, against what the request is worth.
Priced(cred, cost) ==
    ~cost.residual =>
        \A w \in Work :
            \/ cost.bill[w] = PriceOf(cred)[w]
            \/ w \in JwsAlg /\ PriceOf(cred)[w] = 1 /\ cost.bill[w] \in 1..cost.keys

\* The locals of a request at its await on get_client, and on claim_replay_id.
LookupShape(c) ==
    c.kind = "ca" /\ c.owner \in ClientIds /\ c.cred.assertion \in Option(PresentedAssertions)
ClaimShape(c) ==
    /\ Keyed(c.kind, c.owner, c.id)
    /\ c.until = c.deadline /\ c.deadline \in Nat
    /\ c.kind = "ca" => Priced(c.cred, Bill(c.reg, c.cred, c.paid))

AuthTyped ==
    /\ clock \in Nat
    /\ replay_ids \in [ReplayIds -> Option(Nat)]
    /\ DOMAIN task = Tasks
    /\ \A t \in Tasks :
        /\ task[t].step = "lookup" => LookupShape(task[t])
        /\ task[t].step = "claim" => ClaimShape(task[t])
        /\ HasClaimed(t) => Outcome(t).deadline \in Nat
        /\ HasClaimed(t) \/ (Done(t) /\ Outcome(t).why = "Replayed") =>
               Keyed(task[t].kind, task[t].owner, Outcome(t).id)

\* What was accepted in time is in the table until its deadline.
KeptUntilDeadline ==
    \A t \in Tasks : Took(t) => \/ clock >= Outcome(t).deadline
                                \/ replay_ids[Outcome(t).id] = Outcome(t).deadline

TableIsBacked ==
    \A i \in ReplayIds : replay_ids[i] # None => \E u \in Tasks : HasClaimed(u) /\ Outcome(u).id = i

Vetted ==
    /\ AuthTyped /\ KeptUntilDeadline /\ TableIsBacked
    /\ ProofAcceptedOnce /\ ReplayedMeansReplayed /\ RefusalPaysItsPrice

\* The keys of a registration are a list.
KeysListed ==
    /\ DOMAIN clients = ClientIds
    /\ \A c \in ClientIds : clients[c] # None => Len(clients[c].keys) \in Nat

\* Where the parts of a key are found: a head, the owner, the identifier.
LEMMA JoinedParts ==
    ASSUME NEW S, NEW h \in Seq(S), NEW s \in Seq(S)
    PROVE  /\ h \o s \in Seq(S) /\ Len(h \o s) = Len(h) + Len(s)
           /\ \A i \in 1..Len(h) : (h \o s)[i] = h[i]
           /\ \A i \in 1..(Len(h) + Len(s)) : i > Len(h) => (h \o s)[i] = s[i - Len(h)]
  OBVIOUS

Joined(h, s, z) == h \o s \o z

LEMMA KeyHead ==
    ASSUME NEW S, NEW h \in Seq(S), NEW s \in Seq(S), NEW z \in Seq(S)
    PROVE  \A i \in 1..Len(h) : Joined(h, s, z)[i] = h[i]
<1>1. Len(h) \in Nat /\ Len(s) \in Nat
  OBVIOUS
<1>2. Len(h \o s) = Len(h) + Len(s) /\ \A i \in 1..Len(h) : (h \o s)[i] = h[i]
  BY JoinedParts, Zenon
<1>3. \A i \in 1..Len(h \o s) : (h \o s \o z)[i] = (h \o s)[i]
  BY JoinedParts, Zenon
<1>4. \A i \in 1..Len(h) : i \in 1..(Len(h) + Len(s))
  BY <1>1
<1> QED BY <1>2, <1>3, <1>4, Zenon DEF Joined

LEMMA KeyOwner ==
    ASSUME NEW S, NEW h \in Seq(S), NEW s \in Seq(S), NEW z \in Seq(S)
    PROVE  \A i \in 1..Len(s) : Joined(h, s, z)[Len(h) + i] = s[i]
<1>1. Len(h) \in Nat /\ Len(s) \in Nat
  OBVIOUS
<1>2. /\ Len(h \o s) = Len(h) + Len(s)
      /\ \A i \in 1..(Len(h) + Len(s)) : i > Len(h) => (h \o s)[i] = s[i - Len(h)]
  BY JoinedParts, Zenon
<1>3. \A i \in 1..Len(h \o s) : (h \o s \o z)[i] = (h \o s)[i]
  BY JoinedParts, Zenon
<1> TAKE i \in 1..Len(s)
<1>4. /\ Len(h) + i \in 1..(Len(h) + Len(s)) /\ Len(h) + i > Len(h)
      /\ (Len(h) + i) - Len(h) = i
  BY <1>1
<1> QED BY <1>2, <1>3, <1>4, Zenon DEF Joined

LEMMA SameHead ==
    ASSUME NEW S, NEW h \in Seq(S), NEW s \in Seq(S), NEW z \in Seq(S),
           NEW k \in Seq(S), NEW r \in Seq(S), NEW y \in Seq(S)
    PROVE  Joined(h, s, z) = Joined(k, r, y) /\ Len(h) = Len(k) => \A i \in 1..Len(h) : h[i] = k[i]
<1>1. \A i \in 1..Len(h) : Joined(h, s, z)[i] = h[i]
  BY KeyHead
<1>2. \A i \in 1..Len(k) : Joined(k, r, y)[i] = k[i]
  BY KeyHead
<1> QED BY <1>1, <1>2, Zenon

LEMMA SameOwner ==
    ASSUME NEW S, NEW h \in Seq(S), NEW s \in Seq(S), NEW z \in Seq(S),
           NEW k \in Seq(S), NEW r \in Seq(S), NEW y \in Seq(S)
    PROVE  Joined(h, s, z) = Joined(k, r, y) /\ Len(h) = Len(k) /\ Len(s) = Len(r)
               => \A i \in 1..Len(s) : s[i] = r[i]
<1>1. \A i \in 1..Len(s) : Joined(h, s, z)[Len(h) + i] = s[i]
  BY KeyOwner
<1>2. \A i \in 1..Len(r) : Joined(k, r, y)[Len(k) + i] = r[i]
  BY KeyOwner
<1> QED BY <1>1, <1>2, Zenon

LEMMA SequenceLength ==
    ASSUME NEW S, NEW s \in Seq(S)
    PROVE  Len(s) \in Nat
  OBVIOUS

\* The digits of a length, one at a time.
DigitCharacters == {Digits[i] : i \in 1..10}

LEMMA DigitsDiffer ==
    /\ \A i, j \in 0..9 : Digits[i + 1] = Digits[j + 1] => i = j
    /\ ":" \notin DigitCharacters
    /\ \A i \in 0..9 : Digits[i + 1] \in DigitCharacters
  BY DEF Digits, DigitCharacters

LEMMA NumberFromDigits ==
    ASSUME NEW n \in Nat, n < 10000
    PROVE  /\ (n \div 1) % 10 \in 0..9 /\ (n \div 10) % 10 \in 0..9
           /\ (n \div 100) % 10 \in 0..9 /\ (n \div 1000) % 10 \in 0..9
           /\ n = 1000 * ((n \div 1000) % 10) + 100 * ((n \div 100) % 10)
                    + 10 * ((n \div 10) % 10) + ((n \div 1) % 10)
  OBVIOUS

LEMMA SmallerNumbers ==
    ASSUME NEW n \in Nat
    PROVE  /\ n < 10 => (n \div 10) % 10 = 0
           /\ n < 100 => (n \div 100) % 10 = 0
           /\ n < 1000 => (n \div 1000) % 10 = 0
  OBVIOUS

LEMMA DecimalShape ==
    ASSUME NEW n \in Nat, n < 10000
    PROVE  Decimal(n) \in Seq(DigitCharacters) /\ Len(Decimal(n)) \in 1..4
<1> DEFINE digit(unit) == Digits[((n \div unit) % 10) + 1]
<1>1. /\ digit(1) \in DigitCharacters /\ digit(10) \in DigitCharacters
      /\ digit(100) \in DigitCharacters /\ digit(1000) \in DigitCharacters
  BY NumberFromDigits, DigitsDiffer
<1>2. \/ n < 10 /\ Decimal(n) = <<digit(1)>>
      \/ n >= 10 /\ n < 100 /\ Decimal(n) = <<digit(10), digit(1)>>
      \/ n >= 100 /\ n < 1000 /\ Decimal(n) = <<digit(100), digit(10), digit(1)>>
      \/ n >= 1000 /\ Decimal(n) = <<digit(1000), digit(100), digit(10), digit(1)>>
  BY DEF Decimal
<1> HIDE DEF digit
<1>3. CASE Decimal(n) = <<digit(1)>>  BY <1>1, <1>3
<1>4. CASE Decimal(n) = <<digit(10), digit(1)>>  BY <1>1, <1>4
<1>5. CASE Decimal(n) = <<digit(100), digit(10), digit(1)>>  BY <1>1, <1>5
<1>6. CASE Decimal(n) = <<digit(1000), digit(100), digit(10), digit(1)>>  BY <1>1, <1>6
<1> QED BY <1>2, <1>3, <1>4, <1>5, <1>6

\* No two lengths are written alike.
LEMMA DecimalInjective ==
    ASSUME NEW n \in Nat, n < 10000, NEW m \in Nat, m < 10000, Decimal(n) = Decimal(m)
    PROVE  n = m
<1> DEFINE place(k, unit) == (k \div unit) % 10
           digit(k, unit) == Digits[place(k, unit) + 1]
           Written(k) ==
              \/ k < 10 /\ Decimal(k) = <<digit(k, 1)>>
              \/ k >= 10 /\ k < 100 /\ Decimal(k) = <<digit(k, 10), digit(k, 1)>>
              \/ k >= 100 /\ k < 1000 /\ Decimal(k) = <<digit(k, 100), digit(k, 10), digit(k, 1)>>
              \/ k >= 1000 /\ Decimal(k) = <<digit(k, 1000), digit(k, 100), digit(k, 10), digit(k, 1)>>
<1>1. Written(n) /\ Written(m)  BY DEF Decimal
<1>2. \A unit \in {1, 10, 100, 1000} :
          digit(n, unit) = digit(m, unit) => place(n, unit) = place(m, unit)
  <2>1. \A unit \in {1, 10, 100, 1000} : place(n, unit) \in 0..9 /\ place(m, unit) \in 0..9
    BY NumberFromDigits
  <2> HIDE DEF place
  <2> QED BY <2>1, DigitsDiffer
<1>3. /\ n < 10 => place(n, 10) = 0
      /\ n < 100 => place(n, 100) = 0
      /\ n < 1000 => place(n, 1000) = 0
      /\ m < 10 => place(m, 10) = 0
      /\ m < 100 => place(m, 100) = 0
      /\ m < 1000 => place(m, 1000) = 0
  BY SmallerNumbers
<1>4. /\ n = 1000 * place(n, 1000) + 100 * place(n, 100) + 10 * place(n, 10) + place(n, 1)
      /\ m = 1000 * place(m, 1000) + 100 * place(m, 100) + 10 * place(m, 10) + place(m, 1)
  BY NumberFromDigits
<1> HIDE DEF place
<1>5. /\ place(n, 1) = place(m, 1) /\ place(n, 10) = place(m, 10)
      /\ place(n, 100) = place(m, 100) /\ place(n, 1000) = place(m, 1000)
  <2> HIDE DEF digit
  <2>1. CASE n < 10  BY <2>1, <1>1, <1>2, <1>3
  <2>2. CASE n >= 10 /\ n < 100  BY <2>2, <1>1, <1>2, <1>3
  <2>3. CASE n >= 100 /\ n < 1000  BY <2>3, <1>1, <1>2, <1>3
  <2>4. CASE n >= 1000  BY <2>4, <1>1, <1>2, <1>3
  <2> QED BY <2>1, <2>2, <2>3, <2>4
<1> QED BY <1>4, <1>5

\* The opening of a key: the kind, the length and the separators.
Opening(kind, n) == <<kind, ":">> \o Decimal(n) \o <<":">>

LEMMA OpeningJoined ==
    ASSUME NEW c, NEW s, NEW z
    PROVE  replay_key(c, s, z) = Joined(Opening(c, Len(s)), s, z)
  BY Zenon DEF replay_key, Opening, Joined

LEMMA OpeningParts ==
    ASSUME NEW S, NEW c \in S, ":" \in S, NEW d \in Seq(S)
    PROVE  LET h == <<c, ":">> \o d \o <<":">>
           IN  /\ h \in Seq(S) /\ Len(h) = Len(d) + 3 /\ h[1] = c /\ h[Len(d) + 3] = ":"
               /\ \A i \in 1..Len(d) : h[i + 2] = d[i]
  OBVIOUS

\* A key tells its kind and its owner apart from every other, over any alphabet that has the
\* characters replay_key adds.
LEMMA KeyDetermines ==
    ASSUME NEW S, {":", "ca", "dpop"} \subseteq S, DigitCharacters \subseteq S,
           NEW kind \in {"ca", "dpop"}, NEW other \in {"ca", "dpop"},
           NEW o \in Seq(S), NEW p \in Seq(S), NEW x \in Seq(S), NEW y \in Seq(S),
           Len(o) < 10000, Len(p) < 10000,
           replay_key(kind, o, x) = replay_key(other, p, y)
    PROVE  kind = other /\ o = p
<1>1. PICK h, k, d, e : /\ h = Opening(kind, Len(o)) /\ k = Opening(other, Len(p))
                        /\ d = Decimal(Len(o)) /\ e = Decimal(Len(p))
  OBVIOUS
<1>2. Len(o) \in Nat /\ Len(p) \in Nat  BY SequenceLength
<1>3. /\ d \in Seq(DigitCharacters) /\ Len(d) \in 1..4
      /\ e \in Seq(DigitCharacters) /\ Len(e) \in 1..4
  BY <1>1, <1>2, DecimalShape
<1>4. d \in Seq(S) /\ e \in Seq(S)
  BY <1>3, SeqMonotonic
<1>5. /\ h \in Seq(S) /\ Len(h) = Len(d) + 3 /\ h[1] = kind /\ h[Len(d) + 3] = ":"
      /\ \A i \in 1..Len(d) : h[i + 2] = d[i]
  BY <1>1, <1>4, OpeningParts DEF Opening
<1>6. /\ k \in Seq(S) /\ Len(k) = Len(e) + 3 /\ k[1] = other /\ k[Len(e) + 3] = ":"
      /\ \A i \in 1..Len(e) : k[i + 2] = e[i]
  BY <1>1, <1>4, OpeningParts DEF Opening
<1>7. Joined(h, o, x) = Joined(k, p, y)
  BY <1>1, OpeningJoined
<1>8. \A i \in 1..Len(h) : i \in 1..Len(k) => h[i] = k[i]
  <2>1. \A i \in 1..Len(h) : Joined(h, o, x)[i] = h[i]  BY <1>5, KeyHead
  <2>2. \A i \in 1..Len(k) : Joined(k, p, y)[i] = k[i]  BY <1>6, KeyHead
  <2> QED BY <1>7, <2>1, <2>2
<1>9. /\ \A i \in 1..Len(d) : d[i] # ":"
      /\ \A i \in 1..Len(e) : e[i] # ":"
  <2>1. /\ \A i \in 1..Len(d) : d[i] \in DigitCharacters
        /\ \A i \in 1..Len(e) : e[i] \in DigitCharacters
    BY <1>3, ElementOfSeq
  <2> QED BY <2>1, DigitsDiffer
<1>10. Len(d) = Len(e)
  <2>1. ~(Len(d) < Len(e))
    <3> SUFFICES ASSUME Len(d) < Len(e) PROVE FALSE  OBVIOUS
    <3>1. Len(d) + 1 \in 1..Len(e) /\ (Len(d) + 1) + 2 = Len(d) + 3  BY <1>3
    <3>2. Len(d) + 3 \in 1..Len(h) /\ Len(d) + 3 \in 1..Len(k)  BY <1>3, <1>5, <1>6
    <3>3. k[Len(d) + 3] = e[Len(d) + 1]  BY <1>6, <3>1
    <3>4. k[Len(d) + 3] = ":"  BY <1>5, <1>8, <3>2
    <3>5. e[Len(d) + 1] # ":"  BY <1>9, <3>1
    <3> QED BY <3>3, <3>4, <3>5
  <2>2. ~(Len(e) < Len(d))
    <3> SUFFICES ASSUME Len(e) < Len(d) PROVE FALSE  OBVIOUS
    <3>1. Len(e) + 1 \in 1..Len(d) /\ (Len(e) + 1) + 2 = Len(e) + 3  BY <1>3
    <3>2. Len(e) + 3 \in 1..Len(h) /\ Len(e) + 3 \in 1..Len(k)  BY <1>3, <1>5, <1>6
    <3>3. h[Len(e) + 3] = d[Len(e) + 1]  BY <1>5, <3>1
    <3>4. h[Len(e) + 3] = ":"  BY <1>6, <1>8, <3>2
    <3>5. d[Len(e) + 1] # ":"  BY <1>9, <3>1
    <3> QED BY <3>3, <3>4, <3>5
  <2> QED BY <2>1, <2>2, <1>3
<1>11. Len(h) = Len(k) /\ kind = other
  <2>1. Len(h) = Len(k) /\ 1 \in 1..Len(h) /\ 1 \in 1..Len(k)  BY <1>3, <1>5, <1>6, <1>10
  <2> QED BY <2>1, <1>5, <1>6, <1>8
<1>12. Len(o) = Len(p)
  <2>1. ASSUME NEW i \in 1..Len(d) PROVE d[i] = e[i]
    <3>1. i + 2 \in 1..Len(h) /\ i + 2 \in 1..Len(k) /\ i \in 1..Len(e)  BY <1>3, <1>5, <1>6, <1>10
    <3> QED BY <3>1, <1>5, <1>6, <1>8
  <2>2. d = e  BY <1>3, <1>10, <2>1, SeqEqual
  <2>3. Decimal(Len(o)) = Decimal(Len(p))  BY <1>1, <2>2
  <2> QED BY <2>3, <1>2, DecimalInjective
<1>13. \A i \in 1..Len(o) : o[i] = p[i]
  <2>1. Joined(h, o, x) = Joined(k, p, y) /\ Len(h) = Len(k) /\ Len(o) = Len(p)
            => \A i \in 1..Len(o) : o[i] = p[i]
    BY <1>5, <1>6, SameOwner
  <2> QED BY <2>1, <1>7, <1>11, <1>12
<1> QED BY <1>11, <1>12, <1>13

\* replay_key keeps kinds, owners and identifiers apart.
LEMMA ReplayKeyInjective ==
    ASSUME NEW kind \in {"ca", "dpop"}, NEW other \in {"ca", "dpop"},
           NEW o, NamedInKey(kind, o), NEW p, NamedInKey(other, p),
           NEW x \in Seq(STRING), NEW y \in Seq(STRING),
           replay_key(kind, Spelling[o], x) = replay_key(other, Spelling[p], y)
    PROVE  kind = other /\ o = p
<1> DEFINE Alphabet == STRING \cup {":", "ca", "dpop"} \cup DigitCharacters
<1>1. o \in ClientIds \cup ProofKeys /\ p \in ClientIds \cup ProofKeys
  BY DEF OwnersOf, NamedInKey
<1>2. Spelling[o] \in Seq(STRING) /\ Spelling[p] \in Seq(STRING)
  BY <1>1, SpellingAssumption, Zenon
<1>21. Len(Spelling[o]) < 10000 /\ Len(Spelling[p]) < 10000
  <2>1. Len(Spelling[o]) \in Nat /\ Len(Spelling[p]) \in Nat  BY <1>2, SequenceLength
  <2> QED BY <2>1 DEF NamedInKey, MAX_ASSERTION_BYTES
<1>3. STRING \subseteq Alphabet /\ {":", "ca", "dpop"} \subseteq Alphabet
      /\ DigitCharacters \subseteq Alphabet
  OBVIOUS
<1> HIDE DEF Alphabet
<1>4. \A s \in Seq(STRING) : s \in Seq(Alphabet)
  BY <1>3, SeqMonotonic, Zenon
<1>5. kind = other /\ Spelling[o] = Spelling[p]
  <2>1. /\ Spelling[o] \in Seq(Alphabet) /\ Spelling[p] \in Seq(Alphabet)
        /\ x \in Seq(Alphabet) /\ y \in Seq(Alphabet)
    BY <1>2, <1>4, Zenon
  <2> QED BY <1>21, <1>3, <2>1, KeyDetermines
<1>6. CASE kind = "ca"
  BY <1>5, <1>6, SpellingAssumption, Zenon DEF OwnersOf, NamedInKey
<1>7. CASE kind # "ca"
  BY <1>5, <1>7, SpellingAssumption, Zenon DEF OwnersOf, NamedInKey
<1> QED BY <1>6, <1>7

LEMMA KeyedOnce ==
    ASSUME NEW kind, NEW o, NEW other, NEW p, NEW id, Keyed(kind, o, id), Keyed(other, p, id)
    PROVE  kind = other /\ o = p
<1>1. PICK x \in Seq(STRING) : id = replay_key(kind, Spelling[o], x)
  BY DEF Keyed
<1>2. PICK y \in Seq(STRING) : id = replay_key(other, Spelling[p], y)
  BY DEF Keyed
<1>3. /\ kind \in {"ca", "dpop"} /\ NamedInKey(kind, o)
      /\ other \in {"ca", "dpop"} /\ NamedInKey(other, p)
  BY DEF Keyed
<1>4. replay_key(kind, Spelling[o], x) = replay_key(other, Spelling[p], y)
  BY <1>1, <1>2
<1> QED BY <1>3, <1>4, ReplayKeyInjective

-----------------------------------------------------------------------------
\* What a cost is made of, one verification at a time.
Bags == [Work -> Nat]

LEMMA BagParts ==
    /\ Free \in Bags /\ \A w \in Work : Free[w] = 0
    /\ \A some, more \in Bags :
           Together(some, more) \in Bags /\ \A w \in Work : Together(some, more)[w] = some[w] + more[w]
  BY DEF Bags, Free, Together

LEMMA RunsParts ==
    ASSUME NEW scheme \in Work, NEW times \in Nat
    PROVE  /\ Runs(scheme, times) \in Bags
           /\ Runs(scheme, times)[scheme] = times
           /\ \A w \in Work : w # scheme => Runs(scheme, times)[w] = 0
  BY DEF Runs, Bags, Free

LEMMA NoRuns ==
    ASSUME NEW scheme
    PROVE  Runs(scheme, 0) = Free
  BY DEF Runs, Free

LEMMA DummyParts ==
    ASSUME NEW cred, NEW a
    PROVE  dummy_verify(cred) \in Bags /\ dummy_assertion_verify(a) \in Bags
<1>1. DummyScheme \in Work /\ "HS256" \in Work /\ (classify_alg(a.alg) => a.alg \in Work)
  BY DEF DummyScheme, Work, classify_alg
<1>2. /\ Runs(DummyScheme, 1) \in Bags /\ Runs("HS256", 1) \in Bags
      /\ classify_alg(a.alg) => Runs(a.alg, 1) \in Bags
  BY <1>1, RunsParts
<1> QED BY <1>2, BagParts DEF dummy_verify, dummy_assertion_verify

\* An assertion's price, and what the dummies and the branch taken come to, at one verification.
AssertionPrice(cred) ==
    IF assertion_could_be_verified(cred) THEN dummy_assertion_verify(cred.assertion) ELSE Free

LEMMA PriceParts ==
    ASSUME NEW cred
    PROVE  /\ AssertionPrice(cred) \in Bags /\ PriceOf(cred) \in Bags
           /\ \A w \in Work : PriceOf(cred)[w] = dummy_verify(cred)[w] + AssertionPrice(cred)[w]
<1>1. AssertionPrice(cred) \in Bags /\ dummy_verify(cred) \in Bags
  BY DummyParts, BagParts DEF AssertionPrice
<1>2. PriceOf(cred) = Together(dummy_verify(cred), AssertionPrice(cred))
  BY DEF PriceOf, AssertionPrice
<1> QED BY <1>1, <1>2, BagParts

LEMMA SettledParts ==
    ASSUME NEW cred, NEW paid, paid.work \in Bags
    PROVE  \A w \in Work : settle_credential_cost(cred, paid)[w] =
               paid.work[w] + (IF paid.secret THEN 0 ELSE dummy_verify(cred)[w])
                            + (IF paid.assertion THEN 0 ELSE AssertionPrice(cred)[w])
<1>1. PICK p, x : /\ p = IF paid.secret THEN Free ELSE dummy_verify(cred)
                  /\ x = IF paid.assertion THEN Free ELSE AssertionPrice(cred)
  OBVIOUS
<1>2. p \in Bags /\ x \in Bags
  BY <1>1, DummyParts, PriceParts, BagParts
<1>3. settle_credential_cost(cred, paid) = Together(Together(paid.work, p), x)
  BY <1>1 DEF settle_credential_cost, AssertionPrice
<1>4. \A w \in Work : Together(Together(paid.work, p), x)[w] = paid.work[w] + p[w] + x[w]
  BY <1>2, BagParts
<1>5. \A w \in Work : /\ p[w] = IF paid.secret THEN 0 ELSE dummy_verify(cred)[w]
                      /\ x[w] = IF paid.assertion THEN 0 ELSE AssertionPrice(cred)[w]
  BY <1>1, BagParts
<1> QED BY <1>3, <1>4, <1>5

\* A signature is tried under some of the registered keys.
LEMMA TriedSome ==
    ASSUME NEW reg, NEW a, Len(reg.keys) \in Nat
    PROVE  SignatureChecks(reg, a) \in Nat
           /\ (reg.alg # "HS256" => SignatureChecks(reg, a) <= Len(reg.keys))
<1>1. TriedKeys(reg, a) \in SUBSET (1..Len(reg.keys))
  BY DEF TriedKeys
<1>2. IsFiniteSet(1..Len(reg.keys)) /\ Cardinality(1..Len(reg.keys)) = Len(reg.keys)
  BY FS_Interval
<1>3. IsFiniteSet(TriedKeys(reg, a)) /\ Cardinality(TriedKeys(reg, a)) <= Len(reg.keys)
  BY <1>1, <1>2, FS_Subset
<1>4. Cardinality(TriedKeys(reg, a)) \in Nat
  BY <1>3, FS_CardinalityType
<1> QED BY <1>3, <1>4 DEF SignatureChecks

\* An assertion whose signature was worked on names the registered algorithm, which is what a
\* refusal that never looks at the registration pays for, once.
LEMMA SignatureIsPaid ==
    ASSUME NEW reg, NEW a, NEW client_id, NEW now, Len(reg.keys) \in Nat,
           NEW checks, checks = verify_assertion(reg, a, client_id, now).checks, checks # 0
    PROVE  /\ reg.alg \in Work /\ dummy_assertion_verify(a) = Runs(reg.alg, 1)
           /\ \/ reg.alg = "HS256" /\ checks = 1
              \/ reg.alg \in JwsAlg /\ checks \in 1..Len(reg.keys)
<1>1. /\ ~(a.oversized \/ ~parses(a) \/ ~a.typ_accepted) /\ a.alg = reg.alg
      /\ checks = SignatureChecks(reg, a)
  BY DEF verify_assertion, Rejected, Accepted, signing_alg
<1>2. CASE reg.alg = "HS256"
  <2>1. checks = 1  BY <1>1, <1>2 DEF SignatureChecks
  <2>2. dummy_assertion_verify(a) = Runs("HS256", 1)
    BY <1>1, <1>2 DEF dummy_assertion_verify, classify_alg, JwsAlg
  <2> QED BY <1>2, <2>1, <2>2 DEF Work
<1>3. CASE reg.alg # "HS256"
  <2>1. reg.alg \in Installed /\ reg.alg \in JwsAlg
    BY <1>1, <1>3, VerifierAssumption DEF SignatureChecks
  <2>2. checks \in 1..Len(reg.keys)
    BY <1>1, <1>3, TriedSome
  <2>3. dummy_assertion_verify(a) = Runs(reg.alg, 1)
    BY <1>1, <2>1 DEF dummy_assertion_verify, classify_alg
  <2> QED BY <2>1, <2>2, <2>3 DEF Work
<1> QED BY <1>2, <1>3

\* What an accepted assertion carries.
LEMMA AcceptedAssertion ==
    ASSUME NEW reg, NEW a, NEW client_id, NEW now,
           verify_assertion(reg, a, client_id, now).failure = "none"
    PROVE  /\ a.sub = client_id /\ a.exp # None /\ a.jti # None /\ ~a.oversized
           /\ verify_assertion(reg, a, client_id, now).jti = a.jti
           /\ verify_assertion(reg, a, client_id, now).until = a.exp
  BY DEF verify_assertion, Rejected, Accepted

LEMMA AcceptedProof ==
    ASSUME NEW p, NEW now, verify_proof(p, now).failure = "none"
    PROVE  /\ p.jwk # None /\ p.iat # None /\ p.jti # None
           /\ verify_proof(p, now).jti = p.jti /\ verify_proof(p, now).until = p.iat + MAX_PROOF_AGE
  BY DEF verify_proof, Rejected, Accepted, replay_until

\* A request reaches the claim only with an assertion that verified.
LEMMA ClaimRests ==
    ASSUME NEW client_id, NEW found, NEW cred, NEW now,
           classify_client_credential(client_id, found, cred, now).verdict = "claim"
    PROVE  LET o == classify_client_credential(client_id, found, cred, now)
               a == cred.assertion
           IN  /\ assertion_could_be_verified(cred)
               /\ a.sub = client_id /\ a.exp # None /\ a.jti # None /\ ~a.oversized
               /\ o.id = replay_key("ca", Spelling[client_id], a.jti) /\ o.until = a.exp
<1>1. /\ cred.assertion # None
      /\ authenticate_by_assertion(client_id, found, cred, now).verdict = "claim"
      /\ classify_client_credential(client_id, found, cred, now)
             = authenticate_by_assertion(client_id, found, cred, now)
  BY DEF classify_client_credential, Refuse, Pass, verify_certificate
<1>2. /\ assertion_could_be_verified(cred)
      /\ verify_assertion(found, cred.assertion, client_id, now).failure = "none"
      /\ authenticate_by_assertion(client_id, found, cred, now).id =
             replay_key("ca", Spelling[client_id],
                        verify_assertion(found, cred.assertion, client_id, now).jti)
      /\ authenticate_by_assertion(client_id, found, cred, now).until =
             verify_assertion(found, cred.assertion, client_id, now).until
  BY <1>1 DEF authenticate_by_assertion, Refuse
<1> QED BY <1>1, <1>2, AcceptedAssertion

\* A replay is reported at the claim and nowhere else.
LEMMA RefusalNames ==
    ASSUME NEW client_id, NEW found, NEW cred, NEW now
    PROVE  LET o == classify_client_credential(client_id, found, cred, now)
           IN  o.why # "Replayed" /\ o.verdict \in {"claim", "authenticated", "refused"}
<1>1. verify_assertion(found, cred.assertion, client_id, now).failure # "Replayed"
  BY DEF verify_assertion, Rejected, Accepted
<1>2. /\ authenticate_by_assertion(client_id, found, cred, now).why # "Replayed"
      /\ authenticate_by_assertion(client_id, found, cred, now).verdict \in {"claim", "refused"}
  BY <1>1 DEF authenticate_by_assertion, Refuse
<1>3. verify_certificate(found, cred) # "Replayed"
  BY DEF verify_certificate
<1> QED BY <1>2, <1>3 DEF classify_client_credential, Refuse, Pass

\* The branches of classify_client_credential, by what they have paid for.
PaidNothing(paid) == paid = Nothing
PaidAssertion(client_id, found, cred, now, paid) ==
    /\ assertion_could_be_verified(cred)
    /\ paid = [secret |-> FALSE, assertion |-> TRUE,
               work |-> Runs(found.alg, verify_assertion(found, cred.assertion, client_id, now).checks)]
PaidSecret(found, cred, paid) ==
    /\ cred.assertion = None
    /\ paid = [secret |-> HoldsSecret(found), assertion |-> FALSE,
               work |-> verify_with_work(found, cred.secret)]

LEMMA BranchesTaken ==
    ASSUME NEW client_id, NEW found, NEW cred, NEW now
    PROVE  LET o == classify_client_credential(client_id, found, cred, now)
           IN  \/ PaidNothing(o.paid)
               \/ found # None /\ PaidAssertion(client_id, found, cred, now, o.paid)
               \/ PaidSecret(found, cred, o.paid)
<1> DEFINE o == classify_client_credential(client_id, found, cred, now)
           b == authenticate_by_assertion(client_id, found, cred, now)
<1>1. CASE found = None  BY <1>1 DEF classify_client_credential, Refuse, PaidNothing
<1>2. CASE found # None /\ cred.assertion # None
  <2>1. PaidNothing(o.paid) \/ o = b
    BY <1>2 DEF classify_client_credential, Refuse, PaidNothing
  <2>2. PaidNothing(b.paid) \/ PaidAssertion(client_id, found, cred, now, b.paid)
    <3>1. CASE ~assertion_could_be_verified(cred)
      BY <3>1 DEF authenticate_by_assertion, Refuse, PaidNothing
    <3>2. CASE assertion_could_be_verified(cred) /\ found.auth # "ConfidentialAssertion"
      BY <3>2 DEF authenticate_by_assertion, Refuse, PaidNothing
    <3>3. CASE assertion_could_be_verified(cred) /\ found.auth = "ConfidentialAssertion"
      BY <3>3 DEF authenticate_by_assertion, Refuse, PaidAssertion
    <3> QED BY <3>1, <3>2, <3>3
  <2> QED BY <1>2, <2>1, <2>2
<1>3. CASE found # None /\ cred.assertion = None
  BY <1>3 DEF classify_client_credential, Refuse, Pass, PaidNothing, PaidSecret
<1> QED BY <1>1, <1>2, <1>3

\* Every way out of classify_client_credential is billed what the request is worth.
LEMMA RefusalIsBilled ==
    ASSUME NEW client_id, NEW found, NEW cred, NEW now, found # None => Len(found.keys) \in Nat
    PROVE  LET o == classify_client_credential(client_id, found, cred, now)
           IN  Priced(cred, Bill(found, cred, o.paid))
<1>0. PICK paid : paid = classify_client_credential(client_id, found, cred, now).paid
  OBVIOUS
<1> SUFFICES ASSUME ~Bill(found, cred, paid).residual, NEW w \in Work
             PROVE  LET cost == Bill(found, cred, paid) IN
                    \/ cost.bill[w] = PriceOf(cred)[w]
                    \/ w \in JwsAlg /\ PriceOf(cred)[w] = 1 /\ cost.bill[w] \in 1..cost.keys
  BY <1>0 DEF Priced
<1>1. /\ Bill(found, cred, paid).bill = settle_credential_cost(cred, paid)
      /\ paid.assertion => Bill(found, cred, paid).keys = Len(found.keys)
      /\ paid.assertion => paid.work # Free
      /\ paid.secret /\ cred.secret # None => SchemeOf(found) = DummyScheme
  BY DEF Bill
<1>2. /\ PriceOf(cred)[w] = dummy_verify(cred)[w] + AssertionPrice(cred)[w]
      /\ dummy_verify(cred)[w] \in Nat /\ AssertionPrice(cred)[w] \in Nat
  BY PriceParts, DummyParts DEF Bags
<1>3. CASE PaidNothing(paid)
  <2>1. paid.work = Free /\ paid.secret = FALSE /\ paid.assertion = FALSE
    BY <1>3 DEF PaidNothing, Nothing
  <2>2. settle_credential_cost(cred, paid)[w] = 0 + dummy_verify(cred)[w] + AssertionPrice(cred)[w]
    BY <2>1, BagParts, SettledParts
  <2> QED BY <1>1, <1>2, <2>2
<1>4. CASE found # None /\ PaidAssertion(client_id, found, cred, now, paid)
  <2>1. PICK checks : checks = verify_assertion(found, cred.assertion, client_id, now).checks
    OBVIOUS
  <2>2. paid.work = Runs(found.alg, checks) /\ paid.secret = FALSE /\ paid.assertion = TRUE
    BY <1>4, <2>1 DEF PaidAssertion
  <2>3. checks # 0
    BY <1>1, <2>2, NoRuns
  <2>4. /\ found.alg \in Work /\ dummy_assertion_verify(cred.assertion) = Runs(found.alg, 1)
        /\ \/ found.alg = "HS256" /\ checks = 1
           \/ found.alg \in JwsAlg /\ checks \in 1..Len(found.keys)
    BY <1>4, <2>1, <2>3, SignatureIsPaid
  <2>5. dummy_verify(cred) = Free /\ AssertionPrice(cred) = Runs(found.alg, 1)
    BY <1>4, <2>4 DEF PaidAssertion, assertion_could_be_verified, dummy_verify, AssertionPrice
  <2>6. checks \in Nat  BY <1>4, <2>4
  <2>7. settle_credential_cost(cred, paid)[w] = Runs(found.alg, checks)[w] + 0 + 0
    <3>1. paid.work \in Bags  BY <2>2, <2>4, <2>6, RunsParts
    <3>2. dummy_verify(cred)[w] = 0  BY <2>5, BagParts
    <3> QED BY <2>2, <3>1, <3>2, SettledParts
  <2>8. PriceOf(cred)[w] = 0 + Runs(found.alg, 1)[w]
    BY <1>2, <2>5, BagParts
  <2>9. CASE w = found.alg
    <3>1. Runs(found.alg, checks)[w] = checks /\ Runs(found.alg, 1)[w] = 1
      BY <2>4, <2>6, <2>9, RunsParts
    <3>2. settle_credential_cost(cred, paid)[w] = checks /\ PriceOf(cred)[w] = 1
      BY <2>6, <2>7, <2>8, <3>1
    <3> QED BY <1>1, <2>2, <2>4, <2>9, <3>2
  <2>10. CASE w # found.alg
    <3>1. Runs(found.alg, checks)[w] = 0 /\ Runs(found.alg, 1)[w] = 0
      BY <2>4, <2>6, <2>10, RunsParts
    <3> QED BY <1>1, <2>7, <2>8, <3>1
  <2> QED BY <2>9, <2>10
<1>5. CASE PaidSecret(found, cred, paid)
  <2>1. /\ paid.work = verify_with_work(found, cred.secret) /\ paid.secret = HoldsSecret(found)
        /\ paid.assertion = FALSE
    BY <1>5 DEF PaidSecret
  <2>2. AssertionPrice(cred) = Free
    BY <1>5 DEF PaidSecret, assertion_could_be_verified, AssertionPrice
  <2>3. CASE HoldsSecret(found) /\ cred.secret # None
    <3>1. SchemeOf(found) = DummyScheme  BY <1>1, <2>1, <2>3
    <3>2. paid.work = Runs(DummyScheme, 1)
      BY <2>1, <2>3, <3>1 DEF verify_with_work, DummyScheme
    <3>3. dummy_verify(cred) = Runs(DummyScheme, 1)  BY <2>3 DEF dummy_verify
    <3>4. settle_credential_cost(cred, paid)[w] = Runs(DummyScheme, 1)[w] + 0 + 0
      <4>1. paid.work \in Bags  BY <3>2, <3>3, DummyParts
      <4>2. AssertionPrice(cred)[w] = 0  BY <2>2, BagParts
      <4> QED BY <2>1, <2>3, <3>2, <4>1, <4>2, SettledParts
    <3>5. PriceOf(cred)[w] = Runs(DummyScheme, 1)[w] + 0
      BY <1>2, <2>2, <3>3, BagParts
    <3>6. Runs(DummyScheme, 1)[w] \in Nat  BY <1>2, <3>3
    <3> QED BY <1>1, <3>4, <3>5, <3>6
  <2>4. CASE ~HoldsSecret(found) \/ cred.secret = None
    <3>1. paid.work = Free  BY <2>1, <2>4 DEF verify_with_work
    <3>2. paid.secret => dummy_verify(cred)[w] = 0
      BY <2>1, <2>4, BagParts DEF dummy_verify
    <3>3. settle_credential_cost(cred, paid)[w] =
              0 + (IF paid.secret THEN 0 ELSE dummy_verify(cred)[w]) + AssertionPrice(cred)[w]
      BY <2>1, <3>1, BagParts, SettledParts
    <3> QED BY <1>1, <1>2, <3>2, <3>3
  <2> QED BY <2>3, <2>4
<1> QED BY <1>0, <1>3, <1>4, <1>5, BranchesTaken

-----------------------------------------------------------------------------
\* A credential an HTTP request presents is of a client, and its assertion one that arrives.
LEMMA PresentedShape ==
    ASSUME NEW h \in HttpRequests, NEW seen, seen = credentials_where(h, h.at_par), seen.ok
    PROVE  seen.client_id \in ClientIds /\ seen.cred.assertion \in Option(PresentedAssertions)
<1>1. h.body_id \in Option(ClientIds) /\ (h.basic # None => h.basic.id \in ClientIds)
  BY ArrivalAssumption
<1>2. CASE h.assertion # None
  <2>1. h.assertion \in PresentedAssertions
    BY <1>2 DEF PresentedAssertions
  <2>2. unverified_subject(h.assertion) \in Option(ClientIds)
    BY <2>1, ArrivalAssumption DEF unverified_subject, Option
  <2>3. /\ ~(h.body_id = None /\ unverified_subject(h.assertion) = None)
        /\ seen = Presented(IF h.body_id # None THEN h.body_id ELSE unverified_subject(h.assertion),
                            [NoCredential EXCEPT !.assertion = h.assertion,
                                                 !.assertion_type = h.assertion_type])
    BY <1>2 DEF credentials_where, NotPresented
  <2>4. seen.client_id = IF h.body_id # None THEN h.body_id ELSE unverified_subject(h.assertion)
    BY <2>3 DEF Presented
  <2>5. seen.cred.assertion = h.assertion
    <3>1. seen.cred = [NoCredential EXCEPT !.assertion = h.assertion,
                                           !.assertion_type = h.assertion_type]
      BY <2>3 DEF Presented
    <3> QED BY <3>1 DEF NoCredential
  <2> QED BY <1>1, <2>1, <2>2, <2>3, <2>4, <2>5 DEF Option
<1>3. CASE h.assertion = None /\ h.basic # None
  <2>1. seen = Presented(h.basic.id, [NoCredential EXCEPT !.secret = h.basic.secret])
    BY <1>3 DEF credentials_where, NotPresented
  <2> QED BY <1>1, <1>3, <2>1 DEF Presented, NoCredential, Option
<1>4. CASE h.assertion = None /\ h.basic = None
  <2>1. h.body_id # None /\ seen = Presented(h.body_id, [NoCredential EXCEPT !.secret = h.body_secret])
    BY <1>4 DEF credentials_where, NotPresented
  <2> QED BY <1>1, <2>1 DEF Presented, NoCredential, Option
<1> QED BY <1>2, <1>3, <1>4

\* What a finished request says of itself.
ClaimedIn(r) == r.step = "done" /\ r.outcome.verdict = "authenticated" /\ r.outcome.claimed

LEMMA BillsPriced ==
    /\ RefusalPaysItsPrice <=>
          \A t \in Tasks : Done(t) /\ task[t].kind = "ca" /\ Outcome(t).verdict = "refused" =>
              Priced(task[t].cred, Outcome(t))
    /\ RefusalPaysItsPrice' <=>
          \A t \in Tasks : Done(t)' /\ task'[t].kind = "ca" /\ Outcome(t)'.verdict = "refused" =>
              Priced(task'[t].cred, Outcome(t)')
  BY DEF RefusalPaysItsPrice, RefusedOtherwise, Priced

\* A step of one request that claims nothing.
LEMMA QuietStep ==
    ASSUME Vetted, NEW t \in Tasks, NEW r, ~HasClaimed(t),
           task' = [task EXCEPT ![t] = r], clock' = clock, replay_ids' = replay_ids,
           r.step = "lookup" => LookupShape(r),
           r.step = "claim" => ClaimShape(r),
           ~ClaimedIn(r),
           r.step = "done" /\ r.outcome.why = "Replayed" =>
               /\ Keyed(r.kind, r.owner, r.outcome.id)
               /\ \E u \in Tasks \ {t} :
                      /\ HasClaimed(u) /\ Outcome(u).id = r.outcome.id
                      /\ task[u].kind = r.kind /\ task[u].owner = r.owner,
           r.step = "done" /\ r.kind = "ca" /\ r.outcome.verdict = "refused" => Priced(r.cred, r.outcome)
    PROVE  Vetted'
<1>1. /\ AuthTyped /\ KeptUntilDeadline /\ TableIsBacked
      /\ ProofAcceptedOnce /\ ReplayedMeansReplayed /\ RefusalPaysItsPrice
  BY DEF Vetted
<1>2. DOMAIN task = Tasks /\ DOMAIN task' = Tasks
  BY <1>1 DEF AuthTyped
<1>3. task'[t] = r /\ \A u \in Tasks \ {t} : task'[u] = task[u]
  BY <1>2
<1>4. \A u \in Tasks : HasClaimed(u)' <=> HasClaimed(u)
  BY <1>3 DEF HasClaimed, Done, Outcome, ClaimedIn
<1>5. \A u \in Tasks : HasClaimed(u) => task'[u] = task[u]
  BY <1>3
<1>6. \A u \in Tasks : Took(u)' <=> Took(u)
  BY <1>4, <1>5 DEF Took, Outcome
<1>7. AuthTyped'
  <2>1. clock' \in Nat /\ replay_ids' \in [ReplayIds -> Option(Nat)]
    BY <1>1 DEF AuthTyped
  <2> SUFFICES ASSUME NEW u \in Tasks
               PROVE  /\ task'[u].step = "lookup" => LookupShape(task'[u])
                      /\ task'[u].step = "claim" => ClaimShape(task'[u])
                      /\ HasClaimed(u)' => Outcome(u)'.deadline \in Nat
                      /\ HasClaimed(u)' \/ (Done(u)' /\ Outcome(u)'.why = "Replayed") =>
                             Keyed(task'[u].kind, task'[u].owner, Outcome(u)'.id)
    BY <1>2, <2>1 DEF AuthTyped
  <2>2. CASE u = t
    BY <1>3, <1>4, <2>2 DEF Done, Outcome
  <2>3. CASE u # t
    <3>1. task'[u] = task[u]
      BY <1>3, <2>3
    <3> QED BY <1>1, <1>4, <3>1 DEF AuthTyped, Done, Outcome
  <2> QED BY <2>2, <2>3
<1>8. KeptUntilDeadline'
  BY <1>1, <1>5, <1>6 DEF KeptUntilDeadline, Outcome, Took
<1>9. TableIsBacked'
  BY <1>1, <1>4, <1>5 DEF TableIsBacked, Outcome
<1>10. ProofAcceptedOnce'
  BY <1>1, <1>5, <1>6 DEF ProofAcceptedOnce, SameProof, SameIdentifier, Outcome, Took
<1>11. ReplayedMeansReplayed'
  <2> SUFFICES ASSUME NEW u \in Tasks, Done(u)', Outcome(u)'.why = "Replayed"
               PROVE  \E w \in Tasks \ {u} :
                          /\ HasClaimed(w)' /\ SameIdentifier(u, w)'
                          /\ task'[w].kind = task'[u].kind /\ task'[w].owner = task'[u].owner
    BY DEF ReplayedMeansReplayed
  <2>1. CASE u = t
    <3>1. PICK w \in Tasks \ {t} : /\ HasClaimed(w) /\ Outcome(w).id = r.outcome.id
                                   /\ task[w].kind = r.kind /\ task[w].owner = r.owner
      BY <1>3, <2>1 DEF Done, Outcome
    <3> QED BY <1>3, <1>4, <2>1, <3>1 DEF SameIdentifier, Outcome
  <2>2. CASE u # t
    <3>1. task'[u] = task[u]
      BY <1>3, <2>2
    <3>2. PICK w \in Tasks \ {u} : /\ HasClaimed(w) /\ SameIdentifier(u, w)
                                   /\ task[w].kind = task[u].kind /\ task[w].owner = task[u].owner
      BY <1>1, <3>1 DEF ReplayedMeansReplayed, Done, Outcome
    <3> QED BY <1>4, <1>5, <3>1, <3>2 DEF SameIdentifier, Outcome
  <2> QED BY <2>1, <2>2
<1>12. RefusalPaysItsPrice'
  <2> SUFFICES ASSUME NEW u \in Tasks, Done(u)', task'[u].kind = "ca", Outcome(u)'.verdict = "refused"
               PROVE  Priced(task'[u].cred, Outcome(u)')
    BY BillsPriced DEF Outcome
  <2>1. CASE u = t
    BY <1>3, <2>1 DEF Done, Outcome
  <2>2. CASE u # t
    <3>1. task'[u] = task[u]
      BY <1>3, <2>2
    <3> QED BY <1>1, <3>1, BillsPriced DEF Done, Outcome
  <2> QED BY <2>1, <2>2
<1> QED BY <1>7, <1>8, <1>9, <1>10, <1>11, <1>12 DEF Vetted

LEMMA EnterKeeps ==
    ASSUME Vetted, NEW t \in Tasks, task[t] = Fresh, NEW client_id \in ClientIds, NEW cred,
           cred.assertion \in Option(PresentedAssertions), Enter(t, client_id, cred)
    PROVE  Vetted'
<1> DEFINE r == [step |-> "lookup", kind |-> "ca", owner |-> client_id, cred |-> cred]
<1>1. task' = [task EXCEPT ![t] = r] /\ clock' = clock /\ replay_ids' = replay_ids
  BY DEF Enter, storeVars
<1>2. r.step = "lookup" /\ LookupShape(r)
  BY DEF LookupShape
<1>3. ~HasClaimed(t)
  BY DEF HasClaimed, Done, Fresh
<1> HIDE DEF r
<1> QED BY <1>1, <1>2, <1>3, QuietStep DEF ClaimedIn

\* The steps that end a request with nothing to account for.
LEMMA TurnedAwayKeeps ==
    ASSUME Vetted, NEW t \in Tasks, task[t] = Fresh \/ task[t].step = "lookup",
           NEW s \in {"refused", "bearer"},
           task' = [task EXCEPT ![t] = [step |-> s]], clock' = clock, replay_ids' = replay_ids
    PROVE  Vetted'
<1> DEFINE r == [step |-> s]
<1>1. task' = [task EXCEPT ![t] = r] /\ r.step = s
  OBVIOUS
<1>2. ~HasClaimed(t)
  BY DEF HasClaimed, Done, Fresh
<1> HIDE DEF r
<1> QED BY <1>1, <1>2, QuietStep DEF ClaimedIn

LEMMA LookedUpKeeps ==
    ASSUME Vetted, KeysListed, NEW t \in Tasks, LookedUp(t)
    PROVE  Vetted'
<1> DEFINE c == task[t]
           found == clients[c.owner]
           o == classify_client_credential(c.owner, found, c.cred, Now)
           a == c.cred.assertion
<1>1. c.step = "lookup" /\ LookupShape(c) /\ clock' = clock /\ replay_ids' = replay_ids
  BY DEF LookedUp, Vetted, AuthTyped, storeVars
<1>11. Priced(c.cred, Bill(found, c.cred, o.paid))
  <2>1. found # None => Len(found.keys) \in Nat
    BY <1>1 DEF KeysListed, LookupShape
  <2> HIDE DEF c, found
  <2> QED BY <2>1, RefusalIsBilled
<1>2. ~HasClaimed(t)
  BY <1>1 DEF HasClaimed, Done
<1>3. CASE o.verdict = "claim"
  <2> DEFINE r == [step |-> "claim", kind |-> "ca", owner |-> c.owner, cred |-> c.cred,
                   reg |-> found, paid |-> o.paid, id |-> o.id, until |-> o.until,
                   deadline |-> a.exp]
  <2>1. task' = [task EXCEPT ![t] = r]
    BY <1>3 DEF LookedUp
  <2>2. /\ assertion_could_be_verified(c.cred)
        /\ a.sub = c.owner /\ a.exp # None /\ a.jti # None /\ ~a.oversized
        /\ o.id = replay_key("ca", Spelling[c.owner], a.jti) /\ o.until = a.exp
    BY <1>3, ClaimRests
  <2>3. a \in PresentedAssertions /\ c.owner \in ClientIds
    BY <1>1, <2>2 DEF LookupShape, Option, assertion_could_be_verified
  <2>4. /\ a.exp \in Nat /\ a.jti \in Seq(STRING) /\ o.id \in ReplayIds
        /\ Len(Spelling[c.owner]) < MAX_ASSERTION_BYTES
    <3>1. /\ a.exp \in Option(Nat)
          /\ a.sub # None /\ ~a.oversized => Len(Spelling[a.sub]) < MAX_ASSERTION_BYTES
          /\ a.sub # None /\ a.jti # None =>
                 /\ a.jti \in Seq(STRING)
                 /\ replay_key("ca", Spelling[a.sub], a.jti) \in ReplayIds
      BY <2>3, ArrivalAssumption
    <3>2. a.sub # None  BY <2>2, <2>3, ArrivalAssumption
    <3> QED BY <2>2, <3>1, <3>2 DEF Option
  <2>5. Keyed("ca", c.owner, o.id)
    BY <2>2, <2>3, <2>4 DEF Keyed, NamedInKey, OwnersOf
  <2> HIDE DEF c, found, o, a
  <2>6. ClaimShape(r) /\ r.step = "claim"
    BY <1>11, <2>2, <2>4, <2>5 DEF ClaimShape, a
  <2> HIDE DEF r
  <2> QED BY <1>1, <1>2, <2>1, <2>6, QuietStep DEF ClaimedIn
<1>4. CASE o.verdict = "authenticated"
  <2> DEFINE r == [step |-> "done", kind |-> c.kind, owner |-> c.owner, cred |-> c.cred,
                   outcome |-> NothingClaimed]
  <2>1. task' = [task EXCEPT ![t] = r]
    BY <1>4 DEF LookedUp, Finish
  <2>2. /\ r.step = "done" /\ r.outcome.verdict = "authenticated"
        /\ r.outcome.why = "none" /\ r.outcome.claimed = FALSE
    BY DEF NothingClaimed
  <2> HIDE DEF r
  <2> QED BY <1>1, <1>2, <2>1, <2>2, QuietStep DEF ClaimedIn
<1>5. CASE o.verdict = "refused"
  <2> DEFINE r == [step |-> "done", kind |-> c.kind, owner |-> c.owner, cred |-> c.cred,
                   outcome |-> Declined(o.why, None, Bill(found, c.cred, o.paid))]
  <2>1. task' = [task EXCEPT ![t] = r]
    BY <1>5 DEF LookedUp, Finish
  <2>2. o.why # "Replayed"
    BY RefusalNames
  <2>3. /\ r.step = "done" /\ r.cred = c.cred
        /\ r.outcome.verdict = "refused" /\ r.outcome.why = o.why
        /\ r.outcome.residual = Bill(found, c.cred, o.paid).residual
        /\ r.outcome.bill = Bill(found, c.cred, o.paid).bill
        /\ r.outcome.keys = Bill(found, c.cred, o.paid).keys
    BY DEF Declined
  <2> HIDE DEF r, o, c, found
  <2>4. Priced(r.cred, r.outcome)
    BY <1>11, <2>3 DEF Priced
  <2> QED BY <1>1, <1>2, <2>1, <2>2, <2>3, <2>4, QuietStep DEF ClaimedIn, c
<1> QED BY <1>3, <1>4, <1>5, RefusalNames

LEMMA ProofArrivesKeeps ==
    ASSUME Vetted, NEW t \in Tasks, NEW p \in Proofs, ProofArrives(t, p)
    PROVE  Vetted'
<1> DEFINE seen == verify_proof(p, Now)
<1>1. task[t] = Fresh /\ clock' = clock /\ replay_ids' = replay_ids
  BY DEF ProofArrives, storeVars
<1>2. CASE seen.failure # "none"
  BY <1>1, <1>2, TurnedAwayKeeps DEF ProofArrives
<1>3. CASE seen.failure = "none"
  <2> DEFINE r == [step |-> "claim", kind |-> "dpop", owner |-> p.jwk.id, cred |-> NoCredential,
                   id |-> replay_key("dpop", Spelling[p.jwk.id], seen.jti),
                   until |-> seen.until, deadline |-> p.iat + MAX_PROOF_AGE]
  <2>1. task' = [task EXCEPT ![t] = r]
    BY <1>3 DEF ProofArrives
  <2>2. /\ p.jwk # None /\ p.iat # None /\ p.jti # None
        /\ seen.jti = p.jti /\ seen.until = p.iat + MAX_PROOF_AGE
    BY <1>3, AcceptedProof
  <2>3. p.iat \in Nat /\ p.jti \in Seq(STRING) /\ r.id \in ReplayIds
    <3>1. /\ p.iat \in Option(Nat)
          /\ p.jti # None /\ p.jwk # None =>
                 /\ p.jti \in Seq(STRING)
                 /\ replay_key("dpop", Spelling[p.jwk.id], p.jti) \in ReplayIds
      BY ArrivalAssumption
    <3> QED BY <2>2, <3>1 DEF Option
  <2>4. p.jwk.id \in ProofKeys
    BY <2>2 DEF ProofKeys
  <2>41. Len(Spelling[p.jwk.id]) < MAX_ASSERTION_BYTES
    <3>1. Len(Spelling[p.jwk.id]) = THUMBPRINT
      BY <2>4, SpellingAssumption, Zenon
    <3> QED BY <3>1 DEF MAX_ASSERTION_BYTES, THUMBPRINT
  <2>5. Keyed("dpop", r.owner, r.id)
    BY <2>2, <2>3, <2>4, <2>41 DEF Keyed, NamedInKey, OwnersOf
  <2>6. /\ r.step = "claim" /\ r.kind = "dpop" /\ r.until = r.deadline /\ r.deadline \in Nat
    BY <2>2, <2>3, VerifierAssumption
  <2> HIDE DEF r
  <2>7. ClaimShape(r)
    BY <2>5, <2>6 DEF ClaimShape
  <2>8. ~HasClaimed(t)
    BY <1>1 DEF HasClaimed, Done, Fresh
  <2> QED BY <1>1, <2>1, <2>6, <2>7, <2>8, QuietStep DEF ClaimedIn
<1> QED BY <1>2, <1>3

\* A claim that is refused, or cannot be asked, is billed too.
LEMMA UnclaimedKeeps ==
    ASSUME Vetted, NEW t \in Tasks, task[t].step = "claim",
           NEW why \in {"Replayed", "ReplayCheckUnavailable"},
           why = "Replayed" => replay_ids[task[t].id] # None,
           Finish(t, Unclaimed(t, why)), clock' = clock, replay_ids' = replay_ids
    PROVE  Vetted'
<1> DEFINE c == task[t]
           r == [step |-> "done", kind |-> c.kind, owner |-> c.owner, cred |-> c.cred,
                 outcome |-> Unclaimed(t, why)]
<1>1. task' = [task EXCEPT ![t] = r] /\ ClaimShape(c) /\ ~HasClaimed(t)
  BY DEF Finish, Vetted, AuthTyped, HasClaimed, Done
<1>2. /\ r.step = "done" /\ r.kind = c.kind /\ r.owner = c.owner /\ r.cred = c.cred
      /\ r.outcome.verdict = "refused" /\ r.outcome.why = why /\ r.outcome.id = c.id
  BY DEF Unclaimed, Declined
<1>3. c.kind = "ca" => Priced(c.cred, r.outcome)
  <2> SUFFICES ASSUME c.kind = "ca" PROVE Priced(c.cred, Unclaimed(t, why))
    OBVIOUS
  <2>1. Priced(c.cred, Bill(c.reg, c.cred, c.paid))
    BY <1>1 DEF ClaimShape
  <2>2. /\ Unclaimed(t, why).bill = Bill(c.reg, c.cred, c.paid).bill
        /\ Unclaimed(t, why).keys = Bill(c.reg, c.cred, c.paid).keys
        /\ Unclaimed(t, why).residual = Bill(c.reg, c.cred, c.paid).residual
    BY DEF Unclaimed, Declined
  <2> HIDE DEF c
  <2> QED BY <2>1, <2>2 DEF Priced
<1>4. why = "Replayed" =>
          /\ Keyed(c.kind, c.owner, c.id)
          /\ \E u \in Tasks \ {t} :
                 /\ HasClaimed(u) /\ Outcome(u).id = c.id
                 /\ task[u].kind = c.kind /\ task[u].owner = c.owner
  <2> SUFFICES ASSUME replay_ids[c.id] # None
               PROVE  /\ Keyed(c.kind, c.owner, c.id)
                      /\ \E u \in Tasks \ {t} :
                             /\ HasClaimed(u) /\ Outcome(u).id = c.id
                             /\ task[u].kind = c.kind /\ task[u].owner = c.owner
    OBVIOUS
  <2>1. Keyed(c.kind, c.owner, c.id)
    BY <1>1 DEF ClaimShape
  <2>2. PICK u \in Tasks : HasClaimed(u) /\ Outcome(u).id = c.id
    BY <2>1 DEF Vetted, TableIsBacked, Keyed
  <2>3. Keyed(task[u].kind, task[u].owner, c.id)
    BY <2>2 DEF Vetted, AuthTyped
  <2>4. task[u].kind = c.kind /\ task[u].owner = c.owner
    BY <2>1, <2>3, KeyedOnce
  <2> QED BY <1>1, <2>1, <2>2, <2>4
<1>5. r.step = "done" /\ r.outcome.why = "Replayed" =>
          /\ Keyed(r.kind, r.owner, r.outcome.id)
          /\ \E u \in Tasks \ {t} :
                 /\ HasClaimed(u) /\ Outcome(u).id = r.outcome.id
                 /\ task[u].kind = r.kind /\ task[u].owner = r.owner
  <2> HIDE DEF r, c
  <2> QED BY <1>2, <1>4
<1>6. r.step # "lookup" /\ r.step # "claim" /\ ~ClaimedIn(r)
  <2> HIDE DEF r
  <2> QED BY <1>2 DEF ClaimedIn
<1>7. r.kind = "ca" => Priced(r.cred, r.outcome)
  <2> HIDE DEF r, c
  <2> QED BY <1>2, <1>3
<1> HIDE DEF r, c
<1> QED BY <1>1, <1>5, <1>6, <1>7, QuietStep

\* A claim that is accepted.  Whoever took the same identifier before has let its deadline pass.
LEMMA ClaimedKeeps ==
    ASSUME Vetted, NEW t \in Tasks, task[t].step = "claim", replay_ids[task[t].id] = None,
           Finish(t, Claimed(t)), clock' = clock,
           replay_ids' = [replay_ids EXCEPT ![task[t].id] = task[t].until]
    PROVE  Vetted'
<1> DEFINE c == task[t]
           r == [step |-> "done", kind |-> c.kind, owner |-> c.owner, cred |-> c.cred,
                 outcome |-> Claimed(t)]
<1>1. /\ AuthTyped /\ KeptUntilDeadline /\ TableIsBacked
      /\ ProofAcceptedOnce /\ ReplayedMeansReplayed /\ RefusalPaysItsPrice
  BY DEF Vetted
<1>2. DOMAIN task = Tasks /\ DOMAIN task' = Tasks
  BY <1>1 DEF AuthTyped, Finish
<1>3. task'[t] = r /\ \A u \in Tasks \ {t} : task'[u] = task[u]
  BY <1>2 DEF Finish
<1>4. /\ ClaimShape(c) /\ Keyed(c.kind, c.owner, c.id) /\ c.id \in ReplayIds
      /\ c.until = c.deadline /\ c.deadline \in Nat /\ None \notin Nat
  BY <1>1, NoneAssumption DEF AuthTyped, ClaimShape, Keyed
<1>5. /\ r.step = "done" /\ r.kind = c.kind /\ r.owner = c.owner
      /\ r.outcome.verdict = "authenticated" /\ r.outcome.why = "none"
      /\ r.outcome.claimed = TRUE /\ r.outcome.id = c.id /\ r.outcome.deadline = c.deadline
  BY DEF Claimed
<1>6. r.outcome.live => ~(clock >= c.deadline)
  <2>1. clock \in Nat
    BY <1>1 DEF AuthTyped
  <2>2. r.outcome.live = (clock < c.deadline)
    BY DEF Claimed, Now
  <2>3. clock < c.deadline => ~(clock >= c.deadline)
    BY <1>4, <2>1
  <2> QED BY <2>2, <2>3, Zenon
<1>7. /\ replay_ids'[c.id] = c.deadline
      /\ \A i \in ReplayIds \ {c.id} : replay_ids'[i] = replay_ids[i]
      /\ replay_ids' \in [ReplayIds -> Option(Nat)]
  BY <1>1, <1>4 DEF AuthTyped, Option
<1>8. \A u \in Tasks : HasClaimed(u) => u # t
  BY DEF HasClaimed, Done
<1> HIDE DEF r
<1>9. HasClaimed(t)' /\ \A u \in Tasks : HasClaimed(u) => HasClaimed(u)' /\ task'[u] = task[u]
  BY <1>3, <1>5, <1>8 DEF HasClaimed, Done, Outcome
<1>10. \A u \in Tasks \ {t} :
           /\ HasClaimed(u)' <=> HasClaimed(u)
           /\ Took(u)' <=> Took(u)
           /\ Outcome(u)' = Outcome(u)
  <2> TAKE u \in Tasks \ {t}
  <2>1. task'[u] = task[u]
    BY <1>3
  <2> QED BY <2>1, Zenon DEF HasClaimed, Took, Done, Outcome
<1>11. AuthTyped'
  <2>1. clock' \in Nat
    BY <1>1 DEF AuthTyped
  <2> SUFFICES ASSUME NEW u \in Tasks
               PROVE  /\ task'[u].step = "lookup" => LookupShape(task'[u])
                      /\ task'[u].step = "claim" => ClaimShape(task'[u])
                      /\ HasClaimed(u)' => Outcome(u)'.deadline \in Nat
                      /\ HasClaimed(u)' \/ (Done(u)' /\ Outcome(u)'.why = "Replayed") =>
                             Keyed(task'[u].kind, task'[u].owner, Outcome(u)'.id)
    BY <1>2, <1>7, <2>1 DEF AuthTyped
  <2>2. CASE u = t
    BY <1>3, <1>4, <1>5, <2>2 DEF Done, Outcome
  <2>3. CASE u # t
    <3>1. task'[u] = task[u]
      BY <1>3, <2>3
    <3>2. (HasClaimed(u)' <=> HasClaimed(u)) /\ Outcome(u)' = Outcome(u)
      BY <1>10, <2>3
    <3>3. Done(u)' <=> Done(u)
      BY <3>1 DEF Done
    <3> QED BY <1>1, <3>1, <3>2, <3>3 DEF AuthTyped
  <2> QED BY <2>2, <2>3
<1>12. \A u \in Tasks \ {t} : Took(u) /\ Outcome(u).id = c.id => clock >= Outcome(u).deadline
  <2> SUFFICES ASSUME NEW u \in Tasks \ {t}, Took(u), Outcome(u).id = c.id
               PROVE  clock >= Outcome(u).deadline
    OBVIOUS
  <2>1. Outcome(u).deadline \in Nat
    BY <1>1 DEF AuthTyped, Took
  <2> QED BY <1>1, <1>4, <2>1 DEF KeptUntilDeadline
<1>13. KeptUntilDeadline'
  <2> SUFFICES ASSUME NEW u \in Tasks, Took(u)'
               PROVE  \/ clock' >= Outcome(u)'.deadline
                      \/ replay_ids'[Outcome(u)'.id] = Outcome(u)'.deadline
    BY DEF KeptUntilDeadline
  <2>1. CASE u = t
    BY <1>3, <1>5, <1>7, <2>1 DEF Outcome
  <2>2. CASE u # t
    <3>1. Took(u) /\ Outcome(u)' = Outcome(u) /\ Outcome(u).id \in ReplayIds
      <4>1. Took(u) /\ Outcome(u)' = Outcome(u)
        BY <1>10, <2>2
      <4> QED BY <1>1, <4>1 DEF AuthTyped, Took, Keyed
    <3> QED BY <1>1, <1>7, <1>12, <2>2, <3>1 DEF KeptUntilDeadline
  <2> QED BY <2>1, <2>2
<1>14. TableIsBacked'
  <2> SUFFICES ASSUME NEW i \in ReplayIds, replay_ids'[i] # None
               PROVE  \E u \in Tasks : HasClaimed(u)' /\ Outcome(u)'.id = i
    BY DEF TableIsBacked
  <2>1. CASE i = c.id
    BY <1>3, <1>5, <1>9, <2>1 DEF Outcome
  <2>2. CASE i # c.id
    <3>1. PICK u \in Tasks : HasClaimed(u) /\ Outcome(u).id = i
      BY <1>1, <1>7, <2>2 DEF TableIsBacked
    <3> QED BY <1>9, <3>1 DEF Outcome
  <2> QED BY <2>1, <2>2
<1>15. ProofAcceptedOnce'
  <2>1. \A u \in Tasks \ {t} : Took(u)' /\ Took(t)' =>
            ~(Outcome(u)'.id = Outcome(t)'.id /\ Outcome(u)'.deadline = Outcome(t)'.deadline)
    <3> SUFFICES ASSUME NEW u \in Tasks \ {t}, Took(u)', Took(t)'
                 PROVE ~(Outcome(u)'.id = Outcome(t)'.id /\ Outcome(u)'.deadline = Outcome(t)'.deadline)
      OBVIOUS
    <3>1. Took(u) /\ Outcome(u)' = Outcome(u)
      BY <1>10
    <3>2. Outcome(t)' = r.outcome /\ r.outcome.live
      BY <1>3 DEF Took, Outcome
    <3> QED BY <1>5, <1>6, <1>12, <3>1, <3>2
  <2>2. \A u, w \in Tasks \ {t} : u # w /\ Took(u)' /\ Took(w)' => ~SameProof(u, w)'
    <3> SUFFICES ASSUME NEW u \in Tasks \ {t}, NEW w \in Tasks \ {t}, u # w, Took(u)', Took(w)'
                 PROVE  ~SameProof(u, w)'
      OBVIOUS
    <3>1. /\ Took(u) /\ Outcome(u)' = Outcome(u)
          /\ Took(w) /\ Outcome(w)' = Outcome(w)
      BY <1>10
    <3> QED BY <1>1, <3>1 DEF ProofAcceptedOnce, SameProof, SameIdentifier
  <2> QED BY <2>1, <2>2 DEF ProofAcceptedOnce, SameProof, SameIdentifier
<1>16. ReplayedMeansReplayed'
  <2> SUFFICES ASSUME NEW u \in Tasks, Done(u)', Outcome(u)'.why = "Replayed"
               PROVE  \E w \in Tasks \ {u} :
                          /\ HasClaimed(w)' /\ SameIdentifier(u, w)'
                          /\ task'[w].kind = task'[u].kind /\ task'[w].owner = task'[u].owner
    BY DEF ReplayedMeansReplayed
  <2>1. u # t
    BY <1>3, <1>5 DEF Outcome
  <2>2. task'[u] = task[u]
    BY <1>3, <2>1
  <2>3. PICK w \in Tasks \ {u} : /\ HasClaimed(w) /\ SameIdentifier(u, w)
                                 /\ task[w].kind = task[u].kind /\ task[w].owner = task[u].owner
    BY <1>1, <2>2 DEF ReplayedMeansReplayed, Done, Outcome
  <2> QED BY <1>9, <2>2, <2>3 DEF SameIdentifier, Outcome
<1>17. RefusalPaysItsPrice'
  <2> SUFFICES ASSUME NEW u \in Tasks, Done(u)', task'[u].kind = "ca", Outcome(u)'.verdict = "refused"
               PROVE  Priced(task'[u].cred, Outcome(u)')
    BY BillsPriced DEF Outcome
  <2>1. u # t
    BY <1>3, <1>5 DEF Outcome
  <2>2. task'[u] = task[u]
    BY <1>3, <2>1
  <2> QED BY <1>1, <2>2, BillsPriced DEF Done, Outcome
<1> QED BY <1>11, <1>13, <1>14, <1>15, <1>16, <1>17 DEF Vetted

LEMMA TypedWhenIdle ==
    ASSUME AuthTyped, task' = task, clock' \in Nat, replay_ids' \in [ReplayIds -> Option(Nat)]
    PROVE  AuthTyped'
<1> SUFFICES ASSUME NEW u \in Tasks
             PROVE  /\ task'[u].step = "lookup" => LookupShape(task'[u])
                    /\ task'[u].step = "claim" => ClaimShape(task'[u])
                    /\ HasClaimed(u)' => Outcome(u)'.deadline \in Nat
                    /\ HasClaimed(u)' \/ (Done(u)' /\ Outcome(u)'.why = "Replayed") =>
                           Keyed(task'[u].kind, task'[u].owner, Outcome(u)'.id)
  BY DEF AuthTyped
<1>1. (HasClaimed(u)' <=> HasClaimed(u)) /\ (Done(u)' <=> Done(u)) /\ Outcome(u)' = Outcome(u)
  BY DEF HasClaimed, Done, Outcome
<1> QED BY <1>1 DEF AuthTyped

\* The clock and the sweep.
LEMMA SweepKeeps ==
    ASSUME Vetted, AuthSweep
    PROVE  Vetted'
<1>1. task' = task /\ clock' = clock
  BY DEF AuthSweep, authVars
<1>2. replay_ids' = Without(replay_ids, {i \in ReplayIds : replay_ids[i] # None /\ replay_ids[i] <= clock})
  BY DEF AuthSweep, sweep_expired
<1>3. /\ replay_ids' \in [ReplayIds -> Option(Nat)]
      /\ \A i \in ReplayIds :
             \/ replay_ids'[i] = replay_ids[i]
             \/ replay_ids'[i] = None /\ replay_ids[i] <= clock
  <2>1. replay_ids \in [ReplayIds -> Option(Nat)]
    BY DEF Vetted, AuthTyped
  <2> QED BY <1>2, <2>1 DEF Without, Option
<1>4. AuthTyped'
  BY <1>1, <1>3, TypedWhenIdle DEF Vetted, AuthTyped
<1>5. KeptUntilDeadline'
  <2> SUFFICES ASSUME NEW u \in Tasks, Took(u), ~(clock >= Outcome(u).deadline)
               PROVE  replay_ids'[Outcome(u).id] = Outcome(u).deadline
    BY <1>1 DEF KeptUntilDeadline, Took, HasClaimed, Done, Outcome
  <2>1. /\ Outcome(u).id \in ReplayIds /\ replay_ids[Outcome(u).id] = Outcome(u).deadline
        /\ Outcome(u).deadline \in Nat /\ clock \in Nat
    BY DEF Vetted, AuthTyped, KeptUntilDeadline, Took, Keyed
  <2> QED BY <1>3, <2>1
<1>6. TableIsBacked'
  BY <1>1, <1>3 DEF Vetted, TableIsBacked, HasClaimed, Done, Outcome
<1>7. ProofAcceptedOnce' /\ ReplayedMeansReplayed' /\ RefusalPaysItsPrice'
  BY <1>1 DEF Vetted, ProofAcceptedOnce, ReplayedMeansReplayed, RefusalPaysItsPrice, Took, HasClaimed,
              Done, Outcome, SameProof, SameIdentifier, RefusedOtherwise
<1> QED BY <1>4, <1>5, <1>6, <1>7 DEF Vetted

LEMMA IdleKeeps ==
    ASSUME Vetted, task' = task, replay_ids' = replay_ids, clock' \in Nat, clock' >= clock
    PROVE  Vetted'
<1>1. AuthTyped'
  BY TypedWhenIdle DEF Vetted, AuthTyped
<1>2. KeptUntilDeadline'
  <2> SUFFICES ASSUME NEW u \in Tasks, Took(u), ~(clock' >= Outcome(u).deadline)
               PROVE  replay_ids[Outcome(u).id] = Outcome(u).deadline
    BY DEF KeptUntilDeadline, Took, HasClaimed, Done, Outcome
  <2>1. Outcome(u).deadline \in Nat /\ clock \in Nat
    BY DEF Vetted, AuthTyped, Took
  <2> QED BY <2>1 DEF Vetted, KeptUntilDeadline
<1>3. TableIsBacked'
  BY DEF Vetted, TableIsBacked, HasClaimed, Done, Outcome
<1>4. ProofAcceptedOnce' /\ ReplayedMeansReplayed' /\ RefusalPaysItsPrice'
  BY DEF Vetted, ProofAcceptedOnce, ReplayedMeansReplayed, RefusalPaysItsPrice, Took, HasClaimed,
         Done, Outcome, SameProof, SameIdentifier, RefusedOtherwise
<1> QED BY <1>1, <1>2, <1>3, <1>4 DEF Vetted

LEMMA KeysListedStep ==
    ASSUME KeysListed, [AuthNext]_<<storeVars, authVars>>
    PROVE  KeysListed'
<1>1. CASE \E c \in ClientIds : \E reg \in Applications[c] : register_client(c, reg)
  <2>0. PICK c \in ClientIds : \E reg \in Applications[c] : register_client(c, reg)
    BY <1>1
  <2>1. PICK reg \in Applications[c] : clients' = [clients EXCEPT ![c] = reg]
    BY <2>0 DEF register_client, put_client
  <2>2. Len(reg.keys) \in Nat
    BY RegistrationAssumption, SequenceLength
  <2> QED BY <2>1, <2>2 DEF KeysListed
<1>2. CASE clients' = clients
  BY <1>2 DEF KeysListed
<1>3. CASE AuthTick \/ AuthSweep
  BY <1>2, <1>3 DEF AuthTick, AuthSweep, sweep_expired, storeVars
<1>4. CASE \E t \in Tasks :
              \/ \E a \in Presentations : HostAsks(t, a.client_id, a.cred)
              \/ \E h \in HttpRequests : RequestArrives(t, h) \/ RequestRefused(t, h)
              \/ \E p \in Proofs : ProofArrives(t, p)
              \/ ProofMissing(t)
              \/ Throttled(t)
              \/ LookedUp(t)
              \/ Claim(t)
              \/ ClaimFails(t)
  <2>1. clients' = clients
    BY <1>4, Zenon DEF HostAsks, Enter, RequestArrives, RequestRefused, ProofArrives, ProofMissing, Throttled,
                LookedUp, Claim, claim_replay_id, ClaimFails, storeVars
  <2> QED BY <1>2, <2>1
<1>5. CASE UNCHANGED <<storeVars, authVars>>
  BY <1>2, <1>5 DEF storeVars
<1> QED BY <1>1, <1>3, <1>4, <1>5 DEF AuthNext

LEMMA VettedStep ==
    ASSUME Vetted, KeysListed, [AuthNext]_<<storeVars, authVars>>
    PROVE  Vetted'
<1>0. clock \in Nat
  BY DEF Vetted, AuthTyped
<1>1. CASE AuthTick
  BY <1>0, <1>1, IdleKeeps DEF AuthTick, storeVars
<1>2. CASE AuthSweep
  BY <1>2, SweepKeeps
<1>3. CASE \E c \in ClientIds : \E reg \in Applications[c] : register_client(c, reg)
  BY <1>0, <1>3, IdleKeeps DEF register_client, put_client, authVars
<1>4. CASE \E t \in Tasks : \E p \in Presentations : HostAsks(t, p.client_id, p.cred)
  <2>1. PICK t \in Tasks : \E p \in Presentations : HostAsks(t, p.client_id, p.cred)
    BY <1>4
  <2>2. PICK p \in Presentations : HostAsks(t, p.client_id, p.cred)
    BY <2>1
  <2>3. p.client_id \in ClientIds /\ p.cred.assertion \in Option(PresentedAssertions)
    BY ArrivalAssumption DEF PresentedAssertions, Option
  <2> QED BY <2>2, <2>3, EnterKeeps DEF HostAsks
<1>5. CASE \E t \in Tasks : \E h \in HttpRequests : RequestArrives(t, h) \/ RequestRefused(t, h)
  <2>1. PICK t \in Tasks : \E h \in HttpRequests : RequestArrives(t, h) \/ RequestRefused(t, h)
    BY <1>5
  <2>2. PICK h \in HttpRequests : RequestArrives(t, h) \/ RequestRefused(t, h)
    BY <2>1
  <2>3. CASE RequestArrives(t, h)
    <3> DEFINE seen == credentials_where(h, h.at_par)
    <3>1. seen.ok /\ task[t] = Fresh /\ Enter(t, seen.client_id, seen.cred)
      BY <2>3 DEF RequestArrives
    <3> QED BY <3>1, PresentedShape, EnterKeeps
  <2>4. CASE RequestRefused(t, h)
    BY <2>4, TurnedAwayKeeps DEF RequestRefused, storeVars
  <2> QED BY <2>2, <2>3, <2>4
<1>6. ASSUME NEW t \in Tasks, NEW p \in Proofs, ProofArrives(t, p) PROVE Vetted'
  BY <1>6, ProofArrivesKeeps
<1>7. ASSUME NEW t \in Tasks, ProofMissing(t) PROVE Vetted'
  BY <1>7, TurnedAwayKeeps DEF ProofMissing, storeVars
<1>8. ASSUME NEW t \in Tasks, Throttled(t) PROVE Vetted'
  BY <1>8, TurnedAwayKeeps DEF Throttled, storeVars
<1>9. ASSUME NEW t \in Tasks, LookedUp(t) PROVE Vetted'
  BY <1>9, LookedUpKeeps
<1>10. ASSUME NEW t \in Tasks, Claim(t) PROVE Vetted'
  <2>1. CASE ReplayIdFree(task[t].id)
    BY <1>10, <2>1, ClaimedKeeps DEF Claim, claim_replay_id, ReplayIdFree
  <2>2. CASE ~ReplayIdFree(task[t].id)
    BY <1>10, <2>2, UnclaimedKeeps DEF Claim, claim_replay_id, ReplayIdFree
  <2> QED BY <2>1, <2>2
<1>11. ASSUME NEW t \in Tasks, ClaimFails(t) PROVE Vetted'
  BY <1>11, UnclaimedKeeps DEF ClaimFails, storeVars
<1>12. CASE UNCHANGED <<storeVars, authVars>>
  BY <1>0, <1>12, IdleKeeps DEF storeVars, authVars
<1> QED BY <1>1, <1>2, <1>3, <1>4, <1>5, <1>6, <1>7, <1>8, <1>9, <1>10, <1>11, <1>12 DEF AuthNext

LEMMA VettedAlways == AuthSpec => []Vetted
<1>2. AuthInit => KeysListed
  BY DEF AuthInit, StoreInit, Empty, KeysListed
<1>1. AuthInit => Vetted
  <2> SUFFICES ASSUME AuthInit PROVE Vetted
    OBVIOUS
  <2>1. /\ clock = 0 /\ DOMAIN task = Tasks /\ \A t \in Tasks : task[t].step = "new"
        /\ replay_ids = [i \in ReplayIds |-> None]
    BY DEF AuthInit, StoreInit, Empty, Fresh
  <2>2. AuthTyped
    BY <2>1 DEF AuthTyped, HasClaimed, Done, Option
  <2> QED BY <2>1, <2>2 DEF Vetted, KeptUntilDeadline, TableIsBacked, ProofAcceptedOnce,
                           ReplayedMeansReplayed, RefusalPaysItsPrice, RefusedOtherwise, Took, HasClaimed, Done
<1> QED BY <1>1, <1>2, VettedStep, KeysListedStep, PTL DEF AuthSpec

\* ProofAcceptedOnce for any number of requests, clients, keys and instants: the identifier of an
\* assertion or proof accepted in time stays in the replay table until its deadline (claim_replay_id
\* is one step, and sweep_expired drops nothing that is still live), so no other request whose
\* claim is in time is accepted with it.
THEOREM ProofIsAcceptedOnce == AuthSpec => []ProofAcceptedOnce
<1>1. Vetted => ProofAcceptedOnce
  BY DEF Vetted
<1> QED BY <1>1, VettedAlways, PTL

\* ReplayedMeansReplayed for any number of requests, and owners of every length that an assertion or
\* a thumbprint can carry: whatever the replay table holds some request has claimed, and replay_key,
\* being prefixed with the length of the owner in decimal, gives two owners or two kinds of proof no
\* key in common.
THEOREM ReplayIsNoFalseAlarm == AuthSpec => []ReplayedMeansReplayed
<1>1. Vetted => ReplayedMeansReplayed
  BY DEF Vetted
<1> QED BY <1>1, VettedAlways, PTL

\* RefusalPaysItsPrice for every registration, whatever keys and schemes it holds, and every
\* credential: on each way out of classify_client_credential, and of the claim after it,
\* settle_credential_cost makes up what the branch taken had not spent, verification by verification;
\* and what a branch spends beyond that is a signature tried under more than one registered key.
THEOREM NoRefusalIsCheap == AuthSpec => []RefusalPaysItsPrice
<1>1. Vetted => RefusalPaysItsPrice
  BY DEF Vetted
<1> QED BY <1>1, VettedAlways, PTL

-----------------------------------------------------------------------------
(***************************************************************************)
(* The rate limiter.  A budget never counts more attempts than were         *)
(* admitted for it in its window, and failures never hold more than half    *)
(* of it; each wrong code entry has been paid for, or is the last of its    *)
(* thread.                                                                  *)
(***************************************************************************)
Of(H, index, kind, ids) ==
    {x \in H : x.window = index /\ x.attempt.kind = kind /\ x.attempt.client_id \in ids}
Count(H, index, kind, ids) == Cardinality(Of(H, index, kind, ids))

NextAdmission(H, index, a) ==
    [window |-> index, attempt |-> a, number |-> Count(H, index, a.kind, {a.client_id})]

\* The numbers of a window's admissions of one attempt run from zero.
Numbered(H) ==
    /\ IsFiniteSet(H)
    /\ \A x \in H : /\ x.number \in Nat
                    /\ x.number < Count(H, x.window, x.attempt.kind, {x.attempt.client_id})

SharedCapacity(kind) ==
    IF kind = "ClientAuthentication" THEN Limits.client_authentication_capacity
    ELSE Limits.authorization_request_capacity
CapacityFor(kind, id) ==
    IF kind = "ClientAuthentication" THEN Limits.client_authentication_capacity_for[id]
    ELSE Limits.authorization_request_capacity

\* The identifiers on the overflow counter.
Overflowing(map) == {i \in PresentedIds : ~has_counter(map, i)}

Within(budget, capacity, n) ==
    /\ budget = [attempts |-> budget.attempts, failures |-> budget.failures]
    /\ budget.attempts \in Nat /\ budget.failures \in Nat
    /\ budget.failures <= capacity \div 2 /\ budget.attempts <= n

BudgetsBacked(H, map, overflow, kind, index) ==
    /\ map = [i \in DOMAIN map |-> map[i]] /\ DOMAIN map \subseteq PresentedIds
    /\ \A i \in DOMAIN map : Within(map[i], CapacityFor(kind, i), Count(H, index, kind, {i}))
    /\ Within(overflow, SharedCapacity(kind), Count(H, index, kind, Overflowing(map)))

WindowBacked(H, w) ==
    /\ w = [index |-> w.index, device_user_code |-> w.device_user_code,
            registration |-> w.registration, clients |-> w.clients, overflow |-> w.overflow,
            authorization |-> w.authorization, authorization_overflow |-> w.authorization_overflow]
    /\ w.device_user_code \in Nat /\ w.registration \in Nat
    /\ BudgetsBacked(H, w.clients, w.overflow, "ClientAuthentication", w.index)
    /\ BudgetsBacked(H, w.authorization, w.authorization_overflow, "AuthorizationRequest", w.index)

LEMMA LimitsTyped ==
    /\ Limits.device_user_code_capacity \in Nat /\ Limits.device_user_code_failure_cost \in Nat
    /\ Limits.client_registration_capacity \in Nat /\ Limits.client_registration_failure_cost \in Nat
    /\ Limits.authorization_request_capacity \in Nat
    /\ Limits.authorization_request_failure_cost \in Nat
    /\ Limits.client_authentication_capacity \in Nat
    /\ Limits.client_authentication_failure_cost \in Nat
    /\ \A i \in PresentedIds : Limits.client_authentication_capacity_for[i] \in Nat
  BY LimiterAssumption

LEMMA CapacitiesTyped ==
    ASSUME NEW kind
    PROVE  SharedCapacity(kind) \in Nat /\ \A i \in PresentedIds : CapacityFor(kind, i) \in Nat
  BY LimitsTyped DEF SharedCapacity, CapacityFor

LEMMA CountTyped ==
    ASSUME NEW H, IsFiniteSet(H), NEW index, NEW kind, NEW ids
    PROVE  IsFiniteSet(Of(H, index, kind, ids)) /\ Count(H, index, kind, ids) \in Nat
<1>1. Of(H, index, kind, ids) \subseteq H
  BY DEF Of
<1> QED BY <1>1, FS_Subset, FS_CardinalityType DEF Count

\* More admissions, or more identifiers, count for no less.
LEMMA CountGrows ==
    ASSUME NEW H, NEW G, IsFiniteSet(G), H \subseteq G, NEW index, NEW kind, NEW ids, NEW more,
           ids \subseteq more
    PROVE  Count(H, index, kind, ids) <= Count(G, index, kind, more)
<1>1. Of(H, index, kind, ids) \subseteq Of(G, index, kind, more)
  BY DEF Of
<1>2. IsFiniteSet(Of(G, index, kind, more))
  BY CountTyped
<1> QED BY <1>1, <1>2, FS_Subset DEF Count

\* An admission counts for every set that has its identifier.
LEMMA AdmissionCounts ==
    ASSUME NEW H, Numbered(H), NEW index, NEW a, NEW G, G = H \cup {NextAdmission(H, index, a)}
    PROVE  /\ Numbered(G)
           /\ \A ids : a.client_id \in ids =>
                  Count(G, index, a.kind, ids) = Count(H, index, a.kind, ids) + 1
<1> DEFINE e == NextAdmission(H, index, a)
<1>1. /\ e.window = index /\ e.attempt = a
      /\ e.number = Count(H, index, a.kind, {a.client_id})
  BY DEF NextAdmission
<1> HIDE DEF e
<1>2. IsFiniteSet(H) /\ IsFiniteSet(G) /\ H \subseteq G
  BY FS_AddElement DEF Numbered, e
<1>3. Count(H, index, a.kind, {a.client_id}) \in Nat
  BY <1>2, CountTyped
<1>4. e \notin H
  <2> SUFFICES ASSUME e \in H PROVE FALSE
    OBVIOUS
  <2>1. e.number < Count(H, e.window, e.attempt.kind, {e.attempt.client_id})
    BY DEF Numbered
  <2> QED BY <1>1, <1>3, <2>1
<1>5. ASSUME NEW ids, a.client_id \in ids
      PROVE  Count(G, index, a.kind, ids) = Count(H, index, a.kind, ids) + 1
  <2>1. Of(G, index, a.kind, ids) = Of(H, index, a.kind, ids) \cup {e}
    BY <1>1, <1>5 DEF Of, e
  <2>2. e \notin Of(H, index, a.kind, ids) /\ IsFiniteSet(Of(H, index, a.kind, ids))
    <3>1. e \notin Of(H, index, a.kind, ids)
      BY <1>4 DEF Of
    <3> QED BY <1>2, <3>1, CountTyped
  <2> QED BY <2>1, <2>2, FS_AddElement DEF Count
<1>6. Numbered(G)
  <2> SUFFICES ASSUME NEW x \in G
               PROVE  /\ x.number \in Nat
                      /\ x.number < Count(G, x.window, x.attempt.kind, {x.attempt.client_id})
    BY <1>2 DEF Numbered
  <2>1. CASE x \in H
    <3>1. /\ x.number \in Nat
          /\ x.number < Count(H, x.window, x.attempt.kind, {x.attempt.client_id})
      BY <2>1 DEF Numbered
    <3>2. /\ Count(H, x.window, x.attempt.kind, {x.attempt.client_id})
                 <= Count(G, x.window, x.attempt.kind, {x.attempt.client_id})
          /\ Count(H, x.window, x.attempt.kind, {x.attempt.client_id}) \in Nat
          /\ Count(G, x.window, x.attempt.kind, {x.attempt.client_id}) \in Nat
      BY <1>2, CountGrows, CountTyped
    <3> QED BY <3>1, <3>2
  <2>2. CASE x = e
    <3>1. Count(G, index, a.kind, {a.client_id}) = Count(H, index, a.kind, {a.client_id}) + 1
      BY <1>5
    <3> QED BY <1>1, <1>3, <2>2, <3>1
  <2> QED BY <2>1, <2>2 DEF e
<1> QED BY <1>5, <1>6

\* An identifier on the overflow counter stays there while the window lasts.
LEMMA OverflowStays ==
    ASSUME NEW map, NEW id, NEW budget, has_counter(map, id)
    PROVE  Overflowing(map) \subseteq Overflowing(with_entry(map, id, budget))
<1>1. DOMAIN with_entry(map, id, budget) = DOMAIN map \cup {id}
  BY DEF with_entry
<1>2. CASE id \in DOMAIN map
  <2>1. DOMAIN with_entry(map, id, budget) = DOMAIN map
    BY <1>1, <1>2
  <2> QED BY <2>1 DEF Overflowing, has_counter
<1>3. CASE id \notin DOMAIN map
  <2>1. Cardinality(DOMAIN map) < Limits.max_tracked_clients
    BY <1>3 DEF has_counter
  <2> QED BY <2>1 DEF Overflowing, has_counter
<1> QED BY <1>2, <1>3

\* Writing a budget back through the reference that was handed out.
LEMMA PutBacked ==
    ASSUME NEW H, NEW G, IsFiniteSet(G), H \subseteq G, NEW map, NEW overflow, NEW kind, NEW index,
           BudgetsBacked(H, map, overflow, kind, index), NEW id \in PresentedIds, NEW b,
           has_counter(map, id) => Within(b, CapacityFor(kind, id), Count(G, index, kind, {id})),
           ~has_counter(map, id) =>
               Within(b, SharedCapacity(kind), Count(G, index, kind, Overflowing(map)))
    PROVE  IF has_counter(map, id)
           THEN BudgetsBacked(G, with_entry(map, id, b), overflow, kind, index)
           ELSE BudgetsBacked(G, map, b, kind, index)
<1>0. IsFiniteSet(H)
  BY FS_Subset
<1>1. \A ids, more : ids \subseteq more =>
          /\ Count(H, index, kind, ids) <= Count(G, index, kind, more)
          /\ Count(H, index, kind, ids) \in Nat /\ Count(G, index, kind, more) \in Nat
  BY <1>0, CountGrows, CountTyped
<1>2. \A i \in DOMAIN map : Within(map[i], CapacityFor(kind, i), Count(G, index, kind, {i}))
  <2> TAKE i \in DOMAIN map
  <2>1. Within(map[i], CapacityFor(kind, i), Count(H, index, kind, {i}))
    BY DEF BudgetsBacked
  <2>2. /\ Count(H, index, kind, {i}) <= Count(G, index, kind, {i})
        /\ Count(H, index, kind, {i}) \in Nat /\ Count(G, index, kind, {i}) \in Nat
    BY <1>1
  <2> QED BY <2>1, <2>2 DEF Within
<1>3. \A more : Overflowing(map) \subseteq more =>
          Within(overflow, SharedCapacity(kind), Count(G, index, kind, more))
  <2> SUFFICES ASSUME NEW more, Overflowing(map) \subseteq more
               PROVE  Within(overflow, SharedCapacity(kind), Count(G, index, kind, more))
    OBVIOUS
  <2>1. Within(overflow, SharedCapacity(kind), Count(H, index, kind, Overflowing(map)))
    BY DEF BudgetsBacked
  <2>2. /\ Count(H, index, kind, Overflowing(map)) <= Count(G, index, kind, more)
        /\ Count(H, index, kind, Overflowing(map)) \in Nat /\ Count(G, index, kind, more) \in Nat
    BY <1>1
  <2> QED BY <2>1, <2>2 DEF Within
<1>4. CASE has_counter(map, id)
  <2> DEFINE m == with_entry(map, id, b)
  <2>1. /\ DOMAIN m = DOMAIN map \cup {id} /\ m[id] = b /\ m = [i \in DOMAIN m |-> m[i]]
        /\ \A i \in DOMAIN map \ {id} : m[i] = map[i]
    BY DEF with_entry
  <2>2. Overflowing(map) \subseteq Overflowing(m)
    BY <1>4, OverflowStays
  <2> HIDE DEF m
  <2>3. Within(overflow, SharedCapacity(kind), Count(G, index, kind, Overflowing(m)))
    BY <1>3, <2>2
  <2>4. \A i \in DOMAIN m : Within(m[i], CapacityFor(kind, i), Count(G, index, kind, {i}))
    BY <1>2, <1>4, <2>1
  <2>5. DOMAIN m \subseteq PresentedIds
    BY <2>1 DEF BudgetsBacked
  <2> QED BY <1>4, <2>1, <2>3, <2>4, <2>5 DEF BudgetsBacked, m
<1>5. CASE ~has_counter(map, id)
  <2>1. map = [i \in DOMAIN map |-> map[i]] /\ DOMAIN map \subseteq PresentedIds
    BY DEF BudgetsBacked
  <2> QED BY <1>2, <1>5, <2>1 DEF BudgetsBacked
<1> QED BY <1>4, <1>5

LEMMA NewWindowBacked ==
    ASSUME NEW H, IsFiniteSet(H), NEW index
    PROVE  WindowBacked(H, NewWindow(index))
<1> DEFINE none == [i \in {} |-> NewBudget]
           w == NewWindow(index)
<1>1. \A kind : BudgetsBacked(H, none, NewBudget, kind, index)
  <2> TAKE kind
  <2>1. SharedCapacity(kind) \in Nat /\ Count(H, index, kind, Overflowing(none)) \in Nat
    BY CapacitiesTyped, CountTyped
  <2>2. 0 <= SharedCapacity(kind) \div 2
    BY <2>1
  <2>3. Within(NewBudget, SharedCapacity(kind), Count(H, index, kind, Overflowing(none)))
    BY <2>1, <2>2 DEF Within, NewBudget
  <2>4. DOMAIN none = {} /\ none = [i \in DOMAIN none |-> none[i]]
    OBVIOUS
  <2> HIDE DEF none
  <2> QED BY <2>3, <2>4 DEF BudgetsBacked
<1>2. /\ w.index = index /\ w.device_user_code = 0 /\ w.registration = 0 /\ w.clients = none
      /\ w.overflow = NewBudget /\ w.authorization = none /\ w.authorization_overflow = NewBudget
  BY DEF NewWindow
<1>3. w = [index |-> w.index, device_user_code |-> w.device_user_code,
           registration |-> w.registration, clients |-> w.clients, overflow |-> w.overflow,
           authorization |-> w.authorization, authorization_overflow |-> w.authorization_overflow]
  BY DEF NewWindow
<1> HIDE DEF w, none
<1>4. WindowBacked(H, w)
  BY <1>1, <1>2, <1>3 DEF WindowBacked
<1> QED BY <1>4 DEF w

LEMMA RolledBacked ==
    ASSUME NEW H, IsFiniteSet(H), NEW w, WindowBacked(H, w), NEW index
    PROVE  WindowBacked(H, roll_to(w, index)) /\ roll_to(w, index).index = index
  BY NewWindowBacked DEF roll_to, NewWindow

LEMMA MinOfTwo ==
    ASSUME NEW a \in Nat, NEW b \in Nat
    PROVE  Min({a, b}) = IF a <= b THEN a ELSE b
  BY DEF Min

LEMMA PenaliseFacts ==
    ASSUME NEW n \in Nat, NEW capacity \in Nat, NEW cost \in Nat
    PROVE  penalise(n, capacity, cost) = IF n + cost <= capacity THEN n + cost ELSE capacity
  BY MinOfTwo DEF penalise

LEMMA PenaliseTyped ==
    ASSUME NEW n \in Nat, NEW capacity \in Nat, NEW cost \in Nat
    PROVE  penalise(n, capacity, cost) \in Nat
<1>1. n + cost \in Nat
  OBVIOUS
<1> QED BY <1>1, PenaliseFacts

LEMMA ChargeFacts ==
    ASSUME NEW n \in Nat, NEW capacity \in Nat
    PROVE  charge(n, capacity) = IF n < capacity THEN n + 1 ELSE n
  BY DEF charge, CanPay, Sub, ATTEMPT_COST

\* The budget an attempt is charged to, of one of the two kinds that keep them per client.
CounterOf(map, overflow, id) == IF has_counter(map, id) THEN entry(map, id) ELSE overflow
CapacityAt(map, kind, id) ==
    IF has_counter(map, id) THEN CapacityFor(kind, id) ELSE SharedCapacity(kind)
PaidBy(map, id) == IF has_counter(map, id) THEN {id} ELSE Overflowing(map)

LEMMA CounterBacked ==
    ASSUME NEW H, IsFiniteSet(H), NEW map, NEW overflow, NEW kind, NEW index,
           BudgetsBacked(H, map, overflow, kind, index), NEW id \in PresentedIds
    PROVE  /\ Within(CounterOf(map, overflow, id), CapacityAt(map, kind, id),
                     Count(H, index, kind, PaidBy(map, id)))
           /\ CapacityAt(map, kind, id) \in Nat
           /\ Count(H, index, kind, PaidBy(map, id)) \in Nat
<1>1. CapacityAt(map, kind, id) \in Nat /\ Count(H, index, kind, PaidBy(map, id)) \in Nat
  <2>1. CapacityAt(map, kind, id) \in Nat
    BY CapacitiesTyped DEF CapacityAt
  <2>2. Count(H, index, kind, PaidBy(map, id)) \in Nat
    BY CountTyped, Zenon
  <2> QED BY <2>1, <2>2
<1>2. CASE has_counter(map, id) /\ id \in DOMAIN map
  BY <1>1, <1>2 DEF BudgetsBacked, CounterOf, CapacityAt, PaidBy, entry
<1>3. CASE has_counter(map, id) /\ id \notin DOMAIN map
  <2>1. CounterOf(map, overflow, id) = NewBudget
    BY <1>3 DEF CounterOf, entry
  <2>2. 0 <= CapacityAt(map, kind, id) \div 2
    BY <1>1
  <2>3. Within(NewBudget, CapacityAt(map, kind, id), Count(H, index, kind, PaidBy(map, id)))
    BY <1>1, <2>2 DEF Within, NewBudget
  <2> QED BY <1>1, <2>1, <2>3
<1>4. CASE ~has_counter(map, id)
  BY <1>1, <1>4 DEF BudgetsBacked, CounterOf, CapacityAt, PaidBy
<1> QED BY <1>1, <1>2, <1>3, <1>4

\* A budget written back to where it came from, with one more attempt if one was admitted for it.
LEMMA WrittenBack ==
    ASSUME NEW H, NEW G, IsFiniteSet(G), H \subseteq G, NEW map, NEW overflow, NEW kind, NEW index,
           BudgetsBacked(H, map, overflow, kind, index), NEW id \in PresentedIds, NEW b,
           Within(b, CapacityAt(map, kind, id), Count(G, index, kind, PaidBy(map, id)))
    PROVE  IF has_counter(map, id)
           THEN BudgetsBacked(G, with_entry(map, id, b), overflow, kind, index)
           ELSE BudgetsBacked(G, map, b, kind, index)
  BY PutBacked DEF CapacityAt, PaidBy

LEMMA Untouched ==
    ASSUME NEW H, NEW G, IsFiniteSet(G), H \subseteq G, NEW map, NEW overflow, NEW kind, NEW index,
           BudgetsBacked(H, map, overflow, kind, index)
    PROVE  BudgetsBacked(G, map, overflow, kind, index)
<1>0. IsFiniteSet(H)
  BY FS_Subset
<1>1. \A ids : /\ Count(H, index, kind, ids) <= Count(G, index, kind, ids)
               /\ Count(H, index, kind, ids) \in Nat /\ Count(G, index, kind, ids) \in Nat
  BY <1>0, CountGrows, CountTyped
<1>2. \A i \in DOMAIN map : Within(map[i], CapacityFor(kind, i), Count(G, index, kind, {i}))
  <2> TAKE i \in DOMAIN map
  <2>1. Within(map[i], CapacityFor(kind, i), Count(H, index, kind, {i}))
    BY DEF BudgetsBacked
  <2> QED BY <1>1, <2>1 DEF Within
<1>3. Within(overflow, SharedCapacity(kind), Count(G, index, kind, Overflowing(map)))
  <2>1. Within(overflow, SharedCapacity(kind), Count(H, index, kind, Overflowing(map)))
    BY DEF BudgetsBacked
  <2> QED BY <1>1, <2>1 DEF Within
<1> QED BY <1>2, <1>3 DEF BudgetsBacked

\* A window after `check_at`: an admitted attempt is one more admission, and one more in its budget.
LEMMA ChargedBacked ==
    ASSUME NEW H, Numbered(H), NEW w, WindowBacked(H, w), NEW a \in Attempt, NEW G,
           G = IF allows(w, a) THEN H \cup {NextAdmission(H, w.index, a)} ELSE H
    PROVE  /\ Numbered(G) /\ WindowBacked(G, charged(w, a)) /\ charged(w, a).index = w.index
           /\ charged(w, a).device_user_code =
                  IF a.kind = "DeviceUserCodeEntry" /\ allows(w, a) THEN w.device_user_code + 1
                  ELSE w.device_user_code
           /\ a.kind = "DeviceUserCodeEntry" =>
                  (allows(w, a) <=> w.device_user_code < Limits.device_user_code_capacity)
<1>1. Numbered(G) /\ IsFiniteSet(G) /\ IsFiniteSet(H) /\ H \subseteq G
  BY AdmissionCounts DEF Numbered
<1>2. /\ w = [index |-> w.index, device_user_code |-> w.device_user_code,
              registration |-> w.registration, clients |-> w.clients, overflow |-> w.overflow,
              authorization |-> w.authorization, authorization_overflow |-> w.authorization_overflow]
      /\ w.device_user_code \in Nat /\ w.registration \in Nat
  BY DEF WindowBacked
<1>3. /\ BudgetsBacked(H, w.clients, w.overflow, "ClientAuthentication", w.index)
      /\ BudgetsBacked(H, w.authorization, w.authorization_overflow, "AuthorizationRequest", w.index)
      /\ BudgetsBacked(G, w.clients, w.overflow, "ClientAuthentication", w.index)
      /\ BudgetsBacked(G, w.authorization, w.authorization_overflow, "AuthorizationRequest", w.index)
  BY <1>1, Untouched DEF WindowBacked
<1>4. /\ Limits.device_user_code_capacity \in Nat /\ Limits.client_registration_capacity \in Nat
  BY LimitsTyped
<1>5. CASE a.kind = "DeviceUserCodeEntry"
  <2> DEFINE n == charge(w.device_user_code, Limits.device_user_code_capacity)
  <2>1. /\ Spent(w, a) = w.device_user_code /\ Headroom(w, a) = Limits.device_user_code_capacity
        /\ charged(w, a) = [w EXCEPT !.device_user_code = n]
    BY <1>5 DEF Spent, Headroom, charged, capacity_of, PerClient
  <2>2. allows(w, a) <=> w.device_user_code < Limits.device_user_code_capacity
    BY <1>2, <1>4, <2>1 DEF allows, CanPay, Sub, ATTEMPT_COST
  <2>3. n = (IF allows(w, a) THEN w.device_user_code + 1 ELSE w.device_user_code) /\ n \in Nat
    BY <1>2, <1>4, <2>2, ChargeFacts
  <2> HIDE DEF n
  <2> QED BY <1>1, <1>2, <1>3, <1>5, <2>1, <2>2, <2>3 DEF WindowBacked
<1>6. CASE a.kind = "ClientRegistration"
  <2> DEFINE n == charge(w.registration, Limits.client_registration_capacity)
  <2>1. charged(w, a) = [w EXCEPT !.registration = n]
    BY <1>6 DEF Spent, Headroom, charged, capacity_of, PerClient
  <2>2. n \in Nat
    BY <1>2, <1>4, ChargeFacts
  <2> HIDE DEF n
  <2> QED BY <1>1, <1>2, <1>3, <1>6, <2>1, <2>2 DEF WindowBacked
<1>7. ASSUME NEW map, NEW overflow, NEW id \in PresentedIds, a.client_id = id,
             BudgetsBacked(H, map, overflow, a.kind, w.index), NEW n, NEW b,
             n = charge(CounterOf(map, overflow, id).attempts,
                        Sub(CapacityAt(map, a.kind, id), CounterOf(map, overflow, id).failures)),
             b = [CounterOf(map, overflow, id) EXCEPT !.attempts = n],
             allows(w, a) <=>
                 CanPay(CounterOf(map, overflow, id).attempts,
                        Sub(CapacityAt(map, a.kind, id), CounterOf(map, overflow, id).failures))
      PROVE  IF has_counter(map, id)
             THEN BudgetsBacked(G, with_entry(map, id, b), overflow, a.kind, w.index)
             ELSE BudgetsBacked(G, map, b, a.kind, w.index)
  <2> DEFINE c == CounterOf(map, overflow, id)
             cap == CapacityAt(map, a.kind, id)
             paid == PaidBy(map, id)
  <2>1. /\ Within(c, cap, Count(H, w.index, a.kind, paid)) /\ cap \in Nat
        /\ Count(H, w.index, a.kind, paid) \in Nat
    BY <1>1, <1>7, CounterBacked
  <2>2. Count(G, w.index, a.kind, paid) =
            IF allows(w, a) THEN Count(H, w.index, a.kind, paid) + 1
            ELSE Count(H, w.index, a.kind, paid)
    <3>1. allows(w, a) => id \in paid
      BY <1>7 DEF PaidBy, Overflowing
    <3>2. CASE allows(w, a)
      <4>1. G = H \cup {NextAdmission(H, w.index, a)} /\ a.client_id \in paid
        BY <1>7, <3>1, <3>2
      <4> HIDE DEF paid
      <4>2. Count(G, w.index, a.kind, paid) = Count(H, w.index, a.kind, paid) + 1
        BY <4>1, AdmissionCounts
      <4> QED BY <3>2, <4>2
    <3>3. CASE ~allows(w, a)
      BY <3>3
    <3> QED BY <3>2, <3>3
  <2>3. n = IF allows(w, a) THEN c.attempts + 1 ELSE c.attempts
    BY <1>7 DEF charge, ATTEMPT_COST
  <2> HIDE DEF c, cap, paid
  <2>4. /\ c = [attempts |-> c.attempts, failures |-> c.failures]
        /\ c.attempts \in Nat /\ c.failures \in Nat
        /\ c.failures <= cap \div 2 /\ c.attempts <= Count(H, w.index, a.kind, paid)
    BY <2>1 DEF Within
  <2>5. b = [attempts |-> n, failures |-> c.failures]
    BY <1>7, <2>4 DEF c
  <2>6. n \in Nat /\ n <= Count(G, w.index, a.kind, paid)
    BY <2>1, <2>2, <2>3, <2>4
  <2>7. Within(b, cap, Count(G, w.index, a.kind, paid))
    BY <2>4, <2>5, <2>6 DEF Within
  <2> QED BY <1>1, <1>7, <2>7, WrittenBack DEF cap, paid
<1>8. CASE a.kind = "ClientAuthentication"
  <2> DEFINE id == a.client_id
             c == CounterOf(w.clients, w.overflow, id)
             n == charge(c.attempts, Sub(CapacityAt(w.clients, a.kind, id), c.failures))
             b == [c EXCEPT !.attempts = n]
  <2>1. id \in PresentedIds
    BY <1>8 DEF Attempt, PerClient
  <2>2. /\ client_counter(w, id) = c /\ capacity_of(w, a) = CapacityAt(w.clients, a.kind, id)
    BY <1>8 DEF client_counter, CounterOf, capacity_of, CapacityAt, CapacityFor, SharedCapacity
  <2>3. /\ Spent(w, a) = c.attempts
        /\ Headroom(w, a) = Sub(CapacityAt(w.clients, a.kind, id), c.failures)
    BY <1>8, <2>2 DEF Spent, Headroom, PerClient
  <2>4. charged(w, a) = put_budget(w, id, b)
    BY <1>8, <2>2, <2>3 DEF charged
  <2>5. allows(w, a) <=> CanPay(c.attempts, Sub(CapacityAt(w.clients, a.kind, id), c.failures))
    BY <2>3 DEF allows
  <2>6. IF has_counter(w.clients, id)
        THEN BudgetsBacked(G, with_entry(w.clients, id, b), w.overflow, a.kind, w.index)
        ELSE BudgetsBacked(G, w.clients, b, a.kind, w.index)
    BY <1>3, <1>7, <1>8, <2>1, <2>5
  <2> HIDE DEF b, c, n
  <2>7. CASE has_counter(w.clients, id)
    <3>1. charged(w, a) = [w EXCEPT !.clients = with_entry(w.clients, id, b)]
      BY <1>2, <2>4, <2>7 DEF put_budget
    <3> QED BY <1>1, <1>2, <1>3, <1>8, <2>6, <2>7, <3>1 DEF WindowBacked
  <2>8. CASE ~has_counter(w.clients, id)
    <3>1. charged(w, a) = [w EXCEPT !.overflow = b]
      BY <2>4, <2>8 DEF put_budget
    <3> QED BY <1>1, <1>2, <1>3, <1>8, <2>6, <2>8, <3>1 DEF WindowBacked
  <2> QED BY <2>7, <2>8
<1>9. CASE a.kind = "AuthorizationRequest"
  <2> DEFINE id == a.client_id
             c == CounterOf(w.authorization, w.authorization_overflow, id)
             n == charge(c.attempts, Sub(CapacityAt(w.authorization, a.kind, id), c.failures))
             b == [c EXCEPT !.attempts = n]
  <2>1. id \in PresentedIds
    BY <1>9 DEF Attempt, PerClient
  <2>2. /\ authorization_counter(w, id) = c
        /\ capacity_of(w, a) = CapacityAt(w.authorization, a.kind, id)
    BY <1>9 DEF authorization_counter, CounterOf, capacity_of, CapacityAt, CapacityFor,
                SharedCapacity
  <2>3. /\ Spent(w, a) = c.attempts
        /\ Headroom(w, a) = Sub(CapacityAt(w.authorization, a.kind, id), c.failures)
    BY <1>9, <2>2 DEF Spent, Headroom, PerClient
  <2>4. charged(w, a) = put_authorization(w, id, b)
    BY <1>9, <2>2, <2>3 DEF charged
  <2>5. allows(w, a) <=>
            CanPay(c.attempts, Sub(CapacityAt(w.authorization, a.kind, id), c.failures))
    BY <2>3 DEF allows
  <2>6. IF has_counter(w.authorization, id)
        THEN BudgetsBacked(G, with_entry(w.authorization, id, b), w.authorization_overflow,
                           a.kind, w.index)
        ELSE BudgetsBacked(G, w.authorization, b, a.kind, w.index)
    BY <1>3, <1>7, <1>9, <2>1, <2>5
  <2> HIDE DEF b, c, n
  <2>7. CASE has_counter(w.authorization, id)
    <3>1. charged(w, a) = [w EXCEPT !.authorization = with_entry(w.authorization, id, b)]
      BY <1>2, <2>4, <2>7 DEF put_authorization
    <3> QED BY <1>1, <1>2, <1>3, <1>9, <2>6, <2>7, <3>1 DEF WindowBacked
  <2>8. CASE ~has_counter(w.authorization, id)
    <3>1. charged(w, a) = [w EXCEPT !.authorization_overflow = b]
      BY <2>4, <2>8 DEF put_authorization
    <3> QED BY <1>1, <1>2, <1>3, <1>9, <2>6, <2>8, <3>1 DEF WindowBacked
  <2> QED BY <2>7, <2>8
<1> QED BY <1>5, <1>6, <1>8, <1>9 DEF Attempt, PerClient

\* A window after a failure was recorded: no attempt more, and failures within their half.
LEMMA PenalisedBacked ==
    ASSUME NEW H, Numbered(H), NEW w, WindowBacked(H, w), NEW a \in Attempt
    PROVE  /\ WindowBacked(H, penalised(w, a)) /\ penalised(w, a).index = w.index
           /\ penalised(w, a).device_user_code =
                  IF a.kind = "DeviceUserCodeEntry"
                  THEN penalise(w.device_user_code, Limits.device_user_code_capacity,
                                Limits.device_user_code_failure_cost)
                  ELSE w.device_user_code
<1>1. IsFiniteSet(H) /\ H \subseteq H
  BY DEF Numbered
<1>2. /\ w = [index |-> w.index, device_user_code |-> w.device_user_code,
              registration |-> w.registration, clients |-> w.clients, overflow |-> w.overflow,
              authorization |-> w.authorization, authorization_overflow |-> w.authorization_overflow]
      /\ w.device_user_code \in Nat /\ w.registration \in Nat
  BY DEF WindowBacked
<1>3. /\ BudgetsBacked(H, w.clients, w.overflow, "ClientAuthentication", w.index)
      /\ BudgetsBacked(H, w.authorization, w.authorization_overflow, "AuthorizationRequest", w.index)
  BY DEF WindowBacked
<1>5. CASE a.kind = "DeviceUserCodeEntry"
  <2> DEFINE n == penalise(w.device_user_code, Limits.device_user_code_capacity,
                           Limits.device_user_code_failure_cost)
  <2>1. penalised(w, a) = [w EXCEPT !.device_user_code = n]
    BY <1>5 DEF penalised, capacity_of, failure_cost
  <2>2. n \in Nat
    BY <1>2, LimitsTyped, PenaliseTyped
  <2> HIDE DEF n
  <2>3. /\ WindowBacked(H, penalised(w, a)) /\ penalised(w, a).index = w.index
        /\ penalised(w, a).device_user_code = n
    BY <1>2, <1>3, <2>1, <2>2 DEF WindowBacked
  <2> QED BY <1>5, <2>3 DEF n
<1>6. CASE a.kind = "ClientRegistration"
  <2> DEFINE n == penalise(w.registration, Limits.client_registration_capacity,
                           Limits.client_registration_failure_cost)
  <2>1. penalised(w, a) = [w EXCEPT !.registration = n]
    BY <1>6 DEF penalised, capacity_of, failure_cost
  <2>2. n \in Nat
    BY <1>2, LimitsTyped, PenaliseTyped
  <2> HIDE DEF n
  <2> QED BY <1>2, <1>3, <1>6, <2>1, <2>2 DEF WindowBacked
<1>7. ASSUME NEW map, NEW overflow, NEW kind, NEW id \in PresentedIds,
             BudgetsBacked(H, map, overflow, kind, w.index), NEW n, NEW b, NEW cost \in Nat,
             n = penalise(CounterOf(map, overflow, id).failures,
                          CapacityAt(map, kind, id) \div 2, cost),
             b = [CounterOf(map, overflow, id) EXCEPT !.failures = n]
      PROVE  IF has_counter(map, id)
             THEN BudgetsBacked(H, with_entry(map, id, b), overflow, kind, w.index)
             ELSE BudgetsBacked(H, map, b, kind, w.index)
  <2> DEFINE c == CounterOf(map, overflow, id)
             cap == CapacityAt(map, kind, id)
             paid == PaidBy(map, id)
  <2>1. Within(c, cap, Count(H, w.index, kind, paid)) /\ cap \in Nat
    BY <1>1, <1>7, CounterBacked
  <2> HIDE DEF c, cap, paid
  <2>2. /\ c = [attempts |-> c.attempts, failures |-> c.failures]
        /\ c.attempts \in Nat /\ c.failures \in Nat
        /\ c.attempts <= Count(H, w.index, kind, paid)
    BY <2>1 DEF Within
  <2>3. cap \div 2 \in Nat
    BY <2>1
  <2>4. n \in Nat /\ n <= cap \div 2
    <3>1. n = IF c.failures + cost <= cap \div 2 THEN c.failures + cost ELSE cap \div 2
      BY <1>7, <2>2, <2>3, PenaliseFacts DEF c, cap
    <3> DEFINE half == cap \div 2
    <3>2. half \in Nat /\ n = IF c.failures + cost <= half THEN c.failures + cost ELSE half
      BY <2>3, <3>1
    <3> HIDE DEF half
    <3>3. n \in Nat /\ n <= half
      BY <1>7, <2>2, <3>2
    <3> QED BY <3>3 DEF half
  <2>5. b = [attempts |-> c.attempts, failures |-> n]
    BY <1>7, <2>2 DEF c
  <2>6. Within(b, cap, Count(H, w.index, kind, paid))
    BY <2>2, <2>4, <2>5 DEF Within
  <2> QED BY <1>1, <1>7, <2>6, WrittenBack DEF cap, paid
<1>8. CASE a.kind = "ClientAuthentication"
  <2> DEFINE id == a.client_id
             c == CounterOf(w.clients, w.overflow, id)
             n == penalise(c.failures, CapacityAt(w.clients, a.kind, id) \div 2,
                           Limits.client_authentication_failure_cost)
             b == [c EXCEPT !.failures = n]
  <2>1. id \in PresentedIds /\ Limits.client_authentication_failure_cost \in Nat
    BY <1>8, LimitsTyped DEF Attempt, PerClient
  <2>2. /\ client_counter(w, id) = c
        /\ failure_ceiling(w, a) = CapacityAt(w.clients, a.kind, id) \div 2
        /\ failure_cost(a) = Limits.client_authentication_failure_cost
    BY <1>8 DEF client_counter, CounterOf, capacity_of, CapacityAt, CapacityFor, SharedCapacity,
                failure_ceiling, failure_cost, CLIENT_AUTHENTICATION_FAILURE_CEILING_DIVISOR
  <2>3. penalised(w, a) = put_budget(w, id, b)
    BY <1>8, <2>2 DEF penalised
  <2>4. IF has_counter(w.clients, id)
        THEN BudgetsBacked(H, with_entry(w.clients, id, b), w.overflow, a.kind, w.index)
        ELSE BudgetsBacked(H, w.clients, b, a.kind, w.index)
    BY <1>3, <1>7, <1>8, <2>1
  <2> HIDE DEF b, c, n
  <2>5. CASE has_counter(w.clients, id)
    <3>1. penalised(w, a) = [w EXCEPT !.clients = with_entry(w.clients, id, b)]
      BY <1>2, <2>3, <2>5 DEF put_budget
    <3> QED BY <1>2, <1>3, <1>8, <2>4, <2>5, <3>1 DEF WindowBacked
  <2>6. CASE ~has_counter(w.clients, id)
    <3>1. penalised(w, a) = [w EXCEPT !.overflow = b]
      BY <2>3, <2>6 DEF put_budget
    <3> QED BY <1>2, <1>3, <1>8, <2>4, <2>6, <3>1 DEF WindowBacked
  <2> QED BY <2>5, <2>6
<1>9. CASE a.kind = "AuthorizationRequest"
  <2> DEFINE id == a.client_id
             c == CounterOf(w.authorization, w.authorization_overflow, id)
             n == penalise(c.failures, CapacityAt(w.authorization, a.kind, id) \div 2,
                           Limits.authorization_request_failure_cost)
             b == [c EXCEPT !.failures = n]
  <2>1. id \in PresentedIds /\ Limits.authorization_request_failure_cost \in Nat
    BY <1>9, LimitsTyped DEF Attempt, PerClient
  <2>2. /\ authorization_counter(w, id) = c
        /\ failure_ceiling(w, a) = CapacityAt(w.authorization, a.kind, id) \div 2
        /\ failure_cost(a) = Limits.authorization_request_failure_cost
    BY <1>9 DEF authorization_counter, CounterOf, capacity_of, CapacityAt, CapacityFor,
                SharedCapacity, failure_ceiling, failure_cost,
                CLIENT_AUTHENTICATION_FAILURE_CEILING_DIVISOR
  <2>3. penalised(w, a) = put_authorization(w, id, b)
    BY <1>9, <2>2 DEF penalised
  <2>4. IF has_counter(w.authorization, id)
        THEN BudgetsBacked(H, with_entry(w.authorization, id, b), w.authorization_overflow,
                           a.kind, w.index)
        ELSE BudgetsBacked(H, w.authorization, b, a.kind, w.index)
    BY <1>3, <1>7, <1>9, <2>1
  <2> HIDE DEF b, c, n
  <2>5. CASE has_counter(w.authorization, id)
    <3>1. penalised(w, a) = [w EXCEPT !.authorization = with_entry(w.authorization, id, b)]
      BY <1>2, <2>3, <2>5 DEF put_authorization
    <3> QED BY <1>2, <1>3, <1>9, <2>4, <2>5, <3>1 DEF WindowBacked
  <2>6. CASE ~has_counter(w.authorization, id)
    <3>1. penalised(w, a) = [w EXCEPT !.authorization_overflow = b]
      BY <2>3, <2>6 DEF put_authorization
    <3> QED BY <1>2, <1>3, <1>9, <2>4, <2>6, <3>1 DEF WindowBacked
  <2> QED BY <2>5, <2>6
<1> QED BY <1>5, <1>6, <1>8, <1>9 DEF Attempt, PerClient

-----------------------------------------------------------------------------
\* The threads with an admitted code entry whose outcome the limiter has not been told.
Unreported(calls) ==
    {k \in Callers : /\ calls[k].step \in {"working", "recording"}
                     /\ calls[k].fresh = TRUE
                     /\ calls[k].attempt.kind = "DeviceUserCodeEntry"}

CallKnown(c) ==
    /\ c.step \in {"idle", "checking", "working", "recording"}
    /\ c.step # "idle" => c.attempt \in Attempt
    /\ c.step = "working" => c = [step |-> "working", attempt |-> c.attempt, fresh |-> c.fresh]
    /\ c.step = "recording" =>
           c = [step |-> "recording", attempt |-> c.attempt, at |-> c.at, fresh |-> c.fresh]
    /\ c.step \in {"working", "recording"} => c.fresh \in BOOLEAN

CallsKnown(calls) == DOMAIN calls = Callers /\ \A k \in Callers : CallKnown(calls[k])

\* What a wrong code entry costs: its admission, and its failure.
GuessCost == 1 + Limits.device_user_code_failure_cost
Affordable == Sub(Limits.device_user_code_capacity, 1) \div GuessCost

GuessesPaid(spent, guesses, calls) ==
    /\ guesses \in Nat
    /\ \/ spent >= Limits.device_user_code_capacity
       \/ guesses * GuessCost + Cardinality(Unreported(calls)) <= spent
    /\ guesses + Cardinality(Unreported(calls)) <= Affordable + Cardinality(Callers)

Limited ==
    /\ Numbered(admitted) /\ WindowBacked(admitted, window)
    /\ CallsKnown(call) /\ GuessesPaid(window.device_user_code, wrong, call)

LEMMA CostsTyped == GuessCost \in Nat \ {0} /\ Affordable \in Nat
<1>1. GuessCost \in Nat \ {0} /\ Sub(Limits.device_user_code_capacity, 1) \in Nat
  BY LimitsTyped DEF GuessCost, Sub
<1> QED BY <1>1 DEF Affordable

LEMMA UnreportedFinite ==
    ASSUME NEW calls
    PROVE  /\ IsFiniteSet(Unreported(calls)) /\ Cardinality(Unreported(calls)) \in Nat
           /\ Cardinality(Callers) \in Nat
           /\ Cardinality(Unreported(calls)) <= Cardinality(Callers)
<1>1. Unreported(calls) \subseteq Callers /\ IsFiniteSet(Callers)
  BY LimiterAssumption DEF Unreported
<1> QED BY <1>1, FS_Subset, FS_CardinalityType

\* Nothing in flight is owed to a window that was just begun.
LEMMA RolledCalls ==
    ASSUME NEW rolled \in BOOLEAN, NEW calls, CallsKnown(calls)
    PROVE  /\ CallsKnown(Unless(rolled, calls))
           /\ \A k \in Callers : /\ Unless(rolled, calls)[k].step = calls[k].step
                                 /\ calls[k].step # "idle" =>
                                        Unless(rolled, calls)[k].attempt = calls[k].attempt
           /\ Unreported(Unless(rolled, calls)) = IF rolled THEN {} ELSE Unreported(calls)
<1>1. CASE ~rolled
  BY <1>1 DEF Unless
<1>2. CASE rolled
  <2> DEFINE new == Unless(rolled, calls)
  <2>1. DOMAIN new = Callers
    BY <1>2 DEF Unless
  <2>2. \A k \in Callers :
            new[k] = IF calls[k].step \in {"working", "recording"}
                     THEN [calls[k] EXCEPT !.fresh = FALSE] ELSE calls[k]
    BY <1>2 DEF Unless
  <2> HIDE DEF new
  <2>3. ASSUME NEW k \in Callers
        PROVE  /\ CallKnown(new[k]) /\ new[k].step = calls[k].step
               /\ calls[k].step # "idle" => new[k].attempt = calls[k].attempt
               /\ k \notin Unreported(new)
    <3>1. CallKnown(calls[k])
      BY DEF CallsKnown
    <3>2. CASE calls[k].step = "working"
      <4>1. new[k] = [step |-> "working", attempt |-> calls[k].attempt, fresh |-> FALSE]
        BY <2>2, <3>1, <3>2 DEF CallKnown
      <4> QED BY <3>1, <3>2, <4>1 DEF CallKnown, Unreported
    <3>3. CASE calls[k].step = "recording"
      <4>1. new[k] = [step |-> "recording", attempt |-> calls[k].attempt, at |-> calls[k].at,
                      fresh |-> FALSE]
        BY <2>2, <3>1, <3>3 DEF CallKnown
      <4> QED BY <3>1, <3>3, <4>1 DEF CallKnown, Unreported
    <3>4. CASE calls[k].step \in {"idle", "checking"}
      BY <2>2, <3>1, <3>4 DEF Unreported
    <3> QED BY <3>1, <3>2, <3>3, <3>4 DEF CallKnown
  <2>4. CallsKnown(new)
    BY <2>1, <2>3 DEF CallsKnown
  <2>5. Unreported(new) = {}
    BY <2>3 DEF Unreported
  <2> QED BY <1>2, <2>3, <2>4, <2>5 DEF new
<1> QED BY <1>1, <1>2

LEMMA RolledPaid ==
    ASSUME NEW H, IsFiniteSet(H), NEW w, WindowBacked(H, w), NEW index, NEW guesses, NEW calls,
           CallsKnown(calls), GuessesPaid(w.device_user_code, guesses, calls), NEW rolled,
           rolled = (index # w.index)
    PROVE  GuessesPaid(roll_to(w, index).device_user_code, IF rolled THEN 0 ELSE guesses,
                       Unless(rolled, calls))
<1>0. rolled \in BOOLEAN
  OBVIOUS
<1>1. CASE ~rolled
  BY <1>1 DEF Unless, roll_to
<1>2. CASE rolled
  <2>1. Unreported(Unless(rolled, calls)) = {} /\ Cardinality(Callers) \in Nat
    BY <1>0, <1>2, RolledCalls, UnreportedFinite
  <2>2. Cardinality(Unreported(Unless(rolled, calls))) = 0
    BY <2>1, FS_EmptySet
  <2>3. roll_to(w, index).device_user_code = 0
    BY <1>2 DEF roll_to, NewWindow
  <2>4. 0 * GuessCost + 0 <= 0 /\ 0 + 0 <= Affordable + Cardinality(Callers)
    BY <2>1, CostsTyped
  <2> QED BY <1>2, <2>2, <2>3, <2>4 DEF GuessesPaid
<1> QED BY <1>1, <1>2

\* A thread that leaves for idle or for work changes what is unreported by itself alone.
LEMMA CallReplaced ==
    ASSUME NEW calls, CallsKnown(calls), NEW k \in Callers, NEW c, CallKnown(c), NEW new,
           new = [calls EXCEPT ![k] = c]
    PROVE  /\ CallsKnown(new) /\ new[k] = c
           /\ Unreported(new) \ {k} = Unreported(calls) \ {k}
  BY DEF CallsKnown, Unreported

LEMMA SingleRemoved ==
    ASSUME NEW S, NEW T, NEW k, S \ {k} = T \ {k}, k \notin S
    PROVE  S = T \ {k} /\ (k \notin T => S = T)
  OBVIOUS

LEMMA WithinBudget ==
    ASSUME NEW guesses \in Nat, NEW pending \in Nat, NEW spent \in Nat,
           spent < Limits.device_user_code_capacity, guesses * GuessCost + pending <= spent
    PROVE  guesses <= Affordable
<1> DEFINE most == Sub(Limits.device_user_code_capacity, 1)
           f == Limits.device_user_code_failure_cost
           paid == guesses * GuessCost
<1>1. f \in Nat /\ most \in Nat /\ spent <= most
  BY LimitsTyped DEF Sub
<1>2. paid \in Nat
  BY CostsTyped
<1> HIDE DEF most, paid
<1>3. paid <= most
  BY <1>1, <1>2 DEF paid
<1>4. guesses * (1 + f) <= most
  BY <1>3 DEF paid, GuessCost
<1> HIDE DEF f
<1>5. guesses <= most \div (1 + f)
  BY <1>1, <1>4
<1> QED BY <1>5 DEF Affordable, GuessCost, f, most

\* An admitted code entry is paid for when it is admitted; a refused attempt costs nothing.
LEMMA ChargedPaid ==
    ASSUME NEW spent \in Nat, NEW guesses, NEW calls, CallsKnown(calls),
           GuessesPaid(spent, guesses, calls), NEW k \in Callers, k \notin Unreported(calls),
           NEW c, CallKnown(c), NEW n, NEW new, new = [calls EXCEPT ![k] = c],
           \/ /\ n = spent /\ k \notin Unreported(new)
           \/ /\ n = spent + 1 /\ spent < Limits.device_user_code_capacity
    PROVE  GuessesPaid(n, guesses, new)
<1>1. Unreported(new) \ {k} = Unreported(calls) \ {k}
  BY CallReplaced
<1>2. CASE n = spent /\ k \notin Unreported(new)
  <2>1. Unreported(new) = Unreported(calls)
    BY <1>1, <1>2, SingleRemoved, Zenon
  <2> QED BY <1>2, <2>1 DEF GuessesPaid
<1>3. CASE n = spent + 1 /\ spent < Limits.device_user_code_capacity
  <2> DEFINE p == Cardinality(Unreported(calls))
             q == Cardinality(Unreported(new))
             paid == guesses * GuessCost
  <2>1. Unreported(new) \subseteq Unreported(calls) \cup {k}
    BY <1>1
  <2>2. IsFiniteSet(Unreported(calls) \cup {k}) /\ Cardinality(Unreported(calls) \cup {k}) = p + 1
    BY UnreportedFinite, FS_AddElement
  <2>3. q <= p + 1
    BY <2>1, <2>2, FS_Subset
  <2>4. p \in Nat /\ q \in Nat /\ q <= Cardinality(Callers) /\ Cardinality(Callers) \in Nat
    BY UnreportedFinite
  <2>5. guesses \in Nat /\ (spent >= Limits.device_user_code_capacity \/ paid + p <= spent)
    BY DEF GuessesPaid
  <2>6. paid \in Nat /\ Affordable \in Nat /\ Limits.device_user_code_capacity \in Nat
    BY <2>5, CostsTyped, LimitsTyped
  <2>7. paid + p <= spent
    <3> HIDE DEF paid, p
    <3> QED BY <1>3, <2>5, <2>6
  <2>8. guesses <= Affordable
    BY <1>3, <2>4, <2>5, <2>7, WithinBudget
  <2>9. paid + q <= n
    <3> HIDE DEF paid, p, q
    <3> QED BY <1>3, <2>3, <2>4, <2>6, <2>7
  <2>10. guesses + q <= Affordable + Cardinality(Callers)
    <3> HIDE DEF q
    <3> QED BY <2>4, <2>5, <2>6, <2>8
  <2> QED BY <2>5, <2>9, <2>10 DEF GuessesPaid
<1> QED BY <1>2, <1>3

\* A wrong entry pays its failure when it is reported, or leaves the budget spent.
LEMMA PenalisedPaid ==
    ASSUME NEW spent \in Nat, NEW guesses, NEW calls, CallsKnown(calls),
           GuessesPaid(spent, guesses, calls), NEW k \in Callers, NEW new,
           new = [calls EXCEPT ![k] = Unasked], NEW n, NEW g,
           n = penalise(spent, Limits.device_user_code_capacity,
                        Limits.device_user_code_failure_cost),
           g = IF k \in Unreported(calls) THEN guesses + 1 ELSE guesses
    PROVE  GuessesPaid(n, g, new)
<1> DEFINE p == Cardinality(Unreported(calls))
           q == Cardinality(Unreported(new))
           paid == guesses * GuessCost
           f == Limits.device_user_code_failure_cost
           cap == Limits.device_user_code_capacity
<1>1. CallKnown(Unasked) /\ k \notin Unreported(new)
  BY DEF CallKnown, Unasked, Unreported, CallsKnown
<1>2. Unreported(new) = Unreported(calls) \ {k}
  <2>1. Unreported(new) \ {k} = Unreported(calls) \ {k}
    BY <1>1, CallReplaced
  <2> QED BY <1>1, <2>1, SingleRemoved, Zenon
<1>3. q = IF k \in Unreported(calls) THEN p - 1 ELSE p
  BY <1>2, UnreportedFinite, FS_RemoveElement
<1>4. p \in Nat /\ q \in Nat /\ Cardinality(Callers) \in Nat
  BY UnreportedFinite
<1>5. /\ guesses \in Nat /\ (spent >= cap \/ paid + p <= spent)
      /\ guesses + p <= Affordable + Cardinality(Callers)
  BY DEF GuessesPaid
<1>6. paid \in Nat /\ Affordable \in Nat /\ cap \in Nat /\ f \in Nat /\ GuessCost = 1 + f
  BY <1>5, CostsTyped, LimitsTyped DEF GuessCost
<1>7. n = IF spent + f <= cap THEN spent + f ELSE cap
  BY <1>6, PenaliseFacts
<1>8. (guesses + 1) * GuessCost = paid + 1 + f
  <2> HIDE DEF f
  <2> QED BY <1>5, <1>6
<1> HIDE DEF p, q, f, cap
<1>9. CASE k \in Unreported(calls)
  <2>1. g = guesses + 1 /\ q = p - 1 /\ g * GuessCost = paid + 1 + f
    BY <1>3, <1>8, <1>9
  <2> HIDE DEF paid
  <2>2. n >= cap \/ g * GuessCost + q <= n
    BY <1>4, <1>5, <1>6, <1>7, <2>1
  <2>3. g \in Nat /\ g + q <= Affordable + Cardinality(Callers)
    BY <1>4, <1>5, <1>6, <2>1
  <2> QED BY <2>2, <2>3 DEF GuessesPaid, cap, q
<1>10. CASE k \notin Unreported(calls)
  <2>1. g = guesses /\ q = p /\ g * GuessCost = paid
    BY <1>3, <1>10
  <2> HIDE DEF paid
  <2>2. n >= cap \/ g * GuessCost + q <= n
    BY <1>4, <1>5, <1>6, <1>7, <2>1
  <2> QED BY <1>5, <2>1, <2>2 DEF GuessesPaid, cap, q, p
<1> QED BY <1>9, <1>10

LEMMA LimitedInit == LimiterInit => Limited
<1> SUFFICES ASSUME LimiterInit PROVE Limited
  OBVIOUS
<1>1. IsFiniteSet(admitted) /\ Numbered(admitted)
  BY FS_EmptySet DEF LimiterInit, Numbered
<1>2. WindowBacked(admitted, window)
  BY <1>1, NewWindowBacked DEF LimiterInit
<1>3. CallsKnown(call) /\ Unreported(call) = {}
  BY DEF LimiterInit, CallsKnown, CallKnown, Unreported, Unasked
<1>4. Cardinality(Unreported(call)) = 0
  BY <1>3, FS_EmptySet
<1>5. 0 * GuessCost + 0 <= 0 /\ 0 + 0 <= Affordable + Cardinality(Callers)
  BY CostsTyped, UnreportedFinite
<1>6. window.device_user_code = 0 /\ wrong = 0
  BY DEF LimiterInit, NewWindow
<1> QED BY <1>1, <1>2, <1>3, <1>4, <1>5, <1>6 DEF Limited, GuessesPaid

\* A step that leaves the counters alone and starts or ends no code entry.
LEMMA LimitedElsewhere ==
    ASSUME Limited, UNCHANGED <<window, admitted, wrong>>, NEW k \in Callers, NEW c, CallKnown(c),
           call' = [call EXCEPT ![k] = c],
           Unreported(call') \subseteq Unreported(call)
    PROVE  Limited'
<1> DEFINE p == Cardinality(Unreported(call))
           q == Cardinality(Unreported(call'))
           paid == wrong * GuessCost
<1>1. CallsKnown(call')
  BY CallReplaced DEF Limited
<1>2. p \in Nat /\ q \in Nat /\ q <= p
  BY UnreportedFinite, FS_Subset
<1>3. /\ wrong \in Nat /\ window.device_user_code \in Nat
      /\ window.device_user_code >= Limits.device_user_code_capacity \/ paid + p <= window.device_user_code
      /\ wrong + p <= Affordable + Cardinality(Callers)
  BY DEF Limited, GuessesPaid, WindowBacked
<1>4. paid \in Nat /\ Affordable \in Nat /\ Cardinality(Callers) \in Nat
  BY <1>3, CostsTyped, UnreportedFinite
<1> HIDE DEF p, q, paid
<1>5. /\ window.device_user_code >= Limits.device_user_code_capacity \/ paid + q <= window.device_user_code
      /\ wrong + q <= Affordable + Cardinality(Callers)
  BY <1>2, <1>3, <1>4
<1>6. GuessesPaid(window.device_user_code, wrong, call')
  BY <1>3, <1>5 DEF GuessesPaid, q, paid
<1>7. GuessesPaid(window'.device_user_code, wrong', call')
  BY <1>6
<1>8. Numbered(admitted') /\ WindowBacked(admitted', window')
  BY DEF Limited
<1> QED BY <1>1, <1>7, <1>8 DEF Limited

LEMMA LimitedCheck ==
    ASSUME Limited, NEW k \in Callers, Check(k)
    PROVE  Limited'
<1> DEFINE a == call[k].attempt
           i == window_index(call[k].at)
           rolled == (i # window.index)
           w == roll_to(window, i)
           calls == Unless(rolled, call)
           g == IF rolled THEN 0 ELSE wrong
           c == IF allows(w, a) THEN [step |-> "working", attempt |-> a, fresh |-> TRUE] ELSE Unasked
<1>1. /\ call[k].step = "checking" /\ window' = charged(w, a)
      /\ call' = [calls EXCEPT ![k] = c] /\ wrong' = g
      /\ admitted' = IF allows(w, a) THEN admitted \cup {Admission(i, a)} ELSE admitted
  BY DEF Check, check_at
<1>2. Numbered(admitted) /\ IsFiniteSet(admitted) /\ WindowBacked(admitted, w) /\ w.index = i
  BY RolledBacked DEF Limited, Numbered
<1>3. a \in Attempt
  BY <1>1 DEF Limited, CallsKnown, CallKnown
<1>4. rolled \in BOOLEAN
  OBVIOUS
<1>5. /\ CallsKnown(calls) /\ calls[k].step = "checking"
  BY <1>1, <1>4, RolledCalls DEF Limited
<1>6. GuessesPaid(w.device_user_code, g, calls)
  BY <1>2, RolledPaid DEF Limited
<1>7. Admission(i, a) = NextAdmission(admitted, w.index, a)
  BY <1>2 DEF Admission, NextAdmission, Admissions, Count, Of
<1>8. w.device_user_code \in Nat
  BY <1>2 DEF WindowBacked
<1> HIDE DEF a, i, w, calls, g, rolled
<1>9. admitted' = IF allows(w, a) THEN admitted \cup {NextAdmission(admitted, w.index, a)} ELSE admitted
  BY <1>1, <1>7
<1>10. /\ Numbered(admitted') /\ WindowBacked(admitted', window')
       /\ window'.device_user_code =
              IF a.kind = "DeviceUserCodeEntry" /\ allows(w, a) THEN w.device_user_code + 1
              ELSE w.device_user_code
       /\ a.kind = "DeviceUserCodeEntry" =>
              (allows(w, a) <=> w.device_user_code < Limits.device_user_code_capacity)
  BY <1>1, <1>2, <1>3, <1>9, ChargedBacked
<1>11. CallKnown(c) /\ k \notin Unreported(calls)
  BY <1>3, <1>5 DEF CallKnown, Unasked, Unreported
<1>12. CallsKnown(call') /\ call'[k] = c
  <2>1. call' = [calls EXCEPT ![k] = c] /\ CallsKnown(calls) /\ CallKnown(c)
    BY <1>1, <1>5, <1>11
  <2> HIDE DEF c
  <2>2. CallsKnown(call')
    BY <2>1, CallReplaced, Zenon
  <2>3. call'[k] = c
    BY <2>1 DEF CallsKnown
  <2> QED BY <2>2, <2>3
<1>13. \/ window'.device_user_code = w.device_user_code /\ k \notin Unreported(call')
       \/ /\ window'.device_user_code = w.device_user_code + 1
          /\ w.device_user_code < Limits.device_user_code_capacity
  <2>1. CASE a.kind = "DeviceUserCodeEntry" /\ allows(w, a)
    BY <1>10, <2>1
  <2>2. CASE ~(a.kind = "DeviceUserCodeEntry" /\ allows(w, a))
    BY <1>10, <1>12, <2>2 DEF Unreported, Unasked
  <2> QED BY <2>1, <2>2
<1> HIDE DEF c
<1>14. GuessesPaid(window'.device_user_code, g, call')
  BY <1>1, <1>5, <1>6, <1>8, <1>11, <1>13, ChargedPaid
<1> QED BY <1>1, <1>10, <1>12, <1>14 DEF Limited

LEMMA LimitedRecord ==
    ASSUME Limited, NEW k \in Callers, Record(k)
    PROVE  Limited'
<1> DEFINE a == call[k].attempt
           i == window_index(call[k].at)
           rolled == (i # window.index)
           w == roll_to(window, i)
           calls == Unless(rolled, call)
           g == IF rolled THEN 0 ELSE wrong
           counts == call[k].fresh /\ ~rolled /\ a.kind = "DeviceUserCodeEntry"
<1>1. /\ call[k].step = "recording" /\ window' = penalised(w, a) /\ admitted' = admitted
      /\ call' = [calls EXCEPT ![k] = Unasked]
      /\ wrong' = IF rolled THEN 0 ELSE IF counts THEN wrong + 1 ELSE wrong
  BY DEF Record, record_at
<1>2. Numbered(admitted) /\ IsFiniteSet(admitted) /\ WindowBacked(admitted, w)
  BY RolledBacked DEF Limited, Numbered
<1>3. a \in Attempt /\ call[k].fresh \in BOOLEAN
  BY <1>1 DEF Limited, CallsKnown, CallKnown
<1>4. rolled \in BOOLEAN
  OBVIOUS
<1>5. /\ CallsKnown(calls) /\ calls[k].step = "recording"
      /\ Unreported(calls) = IF rolled THEN {} ELSE Unreported(call)
  BY <1>1, <1>4, RolledCalls DEF Limited
<1>6. GuessesPaid(w.device_user_code, g, calls)
  BY <1>2, RolledPaid DEF Limited
<1>7. w.device_user_code \in Nat
  BY <1>2 DEF WindowBacked
<1>8. /\ WindowBacked(admitted, window')
      /\ window'.device_user_code =
             IF a.kind = "DeviceUserCodeEntry"
             THEN penalise(w.device_user_code, Limits.device_user_code_capacity,
                           Limits.device_user_code_failure_cost)
             ELSE w.device_user_code
  BY <1>1, <1>2, <1>3, PenalisedBacked
<1>9. k \in Unreported(calls) <=> counts
  BY <1>1, <1>3, <1>5 DEF Unreported
<1>10. wrong' = IF k \in Unreported(calls) THEN g + 1 ELSE g
  BY <1>1, <1>9
<1>11. CallKnown(Unasked)
  BY DEF CallKnown, Unasked
<1> HIDE DEF i, w, calls, g, rolled
<1>12. CallsKnown(call') /\ call'[k] = Unasked
  <2>1. call' = [calls EXCEPT ![k] = Unasked] /\ CallsKnown(calls) /\ CallKnown(Unasked)
    BY <1>1, <1>5, <1>11
  <2>2. CallsKnown(call')
    BY <2>1, CallReplaced, Zenon
  <2>3. call'[k] = Unasked
    BY <2>1 DEF CallsKnown
  <2> QED BY <2>2, <2>3
<1>13. GuessesPaid(window'.device_user_code, wrong', call')
  <2>1. CASE a.kind = "DeviceUserCodeEntry"
    <3>1. window'.device_user_code = penalise(w.device_user_code, Limits.device_user_code_capacity,
                                              Limits.device_user_code_failure_cost)
      BY <1>8, <2>1
    <3> QED BY <1>1, <1>5, <1>6, <1>7, <1>10, <3>1, PenalisedPaid
  <2>2. CASE a.kind # "DeviceUserCodeEntry"
    <3>1. window'.device_user_code = w.device_user_code /\ k \notin Unreported(calls) /\ wrong' = g
      BY <1>8, <1>9, <1>10, <2>2
    <3>2. k \notin Unreported(call')
      BY <1>12 DEF Unreported, Unasked
    <3> QED BY <1>1, <1>5, <1>6, <1>7, <1>11, <3>1, <3>2, ChargedPaid
  <2> QED BY <2>1, <2>2
<1> QED BY <1>1, <1>2, <1>8, <1>12, <1>13 DEF Limited

LEMMA LimitedStep == Limited /\ [LimiterNext]_limiterVars => Limited'
<1> SUFFICES ASSUME Limited, [LimiterNext]_limiterVars PROVE Limited'
  OBVIOUS
<1>1. CASE LimiterTick
  BY <1>1 DEF Limited, LimiterTick
<1>2. ASSUME NEW k \in Callers, NEW a \in Attempt, Ask(k, a) PROVE Limited'
  <2> DEFINE c == [step |-> "checking", attempt |-> a, at |-> instant]
  <2>1. UNCHANGED <<window, admitted, wrong>> /\ call' = [call EXCEPT ![k] = c]
    BY <1>2 DEF Ask
  <2>2. CallKnown(c) /\ CallsKnown(call)
    BY DEF CallKnown, Limited
  <2>3. Unreported(call') \subseteq Unreported(call)
    BY <2>1, <2>2 DEF Unreported, CallsKnown
  <2> QED BY <2>1, <2>2, <2>3, LimitedElsewhere
<1>3. ASSUME NEW k \in Callers, Check(k) PROVE Limited'
  BY <1>3, LimitedCheck
<1>4. ASSUME NEW k \in Callers, Succeed(k) PROVE Limited'
  <2>1. UNCHANGED <<window, admitted, wrong>> /\ call' = [call EXCEPT ![k] = Unasked]
    BY <1>4 DEF Succeed
  <2>2. CallKnown(Unasked) /\ CallsKnown(call)
    BY DEF CallKnown, Unasked, Limited
  <2>3. Unreported(call') \subseteq Unreported(call)
    BY <2>1, <2>2 DEF Unreported, CallsKnown, Unasked
  <2> QED BY <2>1, <2>2, <2>3, LimitedElsewhere
<1>5. ASSUME NEW k \in Callers, Fail(k) PROVE Limited'
  <2> DEFINE c == [step |-> "recording", attempt |-> call[k].attempt, at |-> instant,
                   fresh |-> call[k].fresh]
  <2>1. /\ UNCHANGED <<window, admitted, wrong>> /\ call' = [call EXCEPT ![k] = c]
        /\ call[k].step = "working"
    BY <1>5 DEF Fail
  <2>2. CallKnown(c) /\ CallsKnown(call)
    BY <2>1 DEF CallKnown, CallsKnown, Limited
  <2>3. Unreported(call') \subseteq Unreported(call)
    BY <2>1, <2>2 DEF Unreported, CallsKnown
  <2> QED BY <2>1, <2>2, <2>3, LimitedElsewhere
<1>6. ASSUME NEW k \in Callers, Record(k) PROVE Limited'
  BY <1>6, LimitedRecord
<1>7. CASE UNCHANGED limiterVars
  BY <1>7 DEF Limited, limiterVars
<1> QED BY <1>1, <1>2, <1>3, <1>4, <1>5, <1>6, <1>7 DEF LimiterNext

LEMMA LimitedAlways == LimiterSpec => []Limited
  BY LimitedInit, LimitedStep, PTL DEF LimiterSpec

\* GuessesBounded for every configuration and number of threads: a wrong code entry is charged when
\* it is admitted (`charge`) and again when it is reported (`penalise`), so what is reported is paid
\* for while the budget lasts, and outruns it only by the reports outstanding when it was exhausted.
THEOREM GuessingIsBounded == LimiterSpec => []GuessesBounded
<1>1. Limited => GuessesBounded
  <2> SUFFICES ASSUME Limited PROVE GuessesBounded
    OBVIOUS
  <2>1. wrong \in Nat /\ wrong + Cardinality(Unreported(call)) <= Affordable + Cardinality(Callers)
    BY DEF Limited, GuessesPaid
  <2>2. wrong <= Affordable + Cardinality(Callers)
    BY <2>1, UnreportedFinite, CostsTyped
  <2>3. ASSUME CanPay(window.device_user_code, Limits.device_user_code_capacity)
        PROVE  wrong * GuessCost <= window.device_user_code
    <3>1. window.device_user_code \in Nat /\ Limits.device_user_code_capacity \in Nat
      BY LimitsTyped DEF Limited, WindowBacked
    <3>2. window.device_user_code < Limits.device_user_code_capacity
      BY <2>3, <3>1 DEF CanPay, Sub, ATTEMPT_COST
    <3>3. wrong * GuessCost + Cardinality(Unreported(call)) <= window.device_user_code
      BY <3>1, <3>2 DEF Limited, GuessesPaid
    <3>4. wrong * GuessCost \in Nat
      BY <2>1, CostsTyped
    <3> QED BY <3>1, <3>3, <3>4, UnreportedFinite
  <2> QED BY <2>2, <2>3 DEF GuessesBounded, Affordable, GuessCost, ATTEMPT_COST
<1> QED BY <1>1, LimitedAlways, PTL

\* DenialHasItsPrice for every configuration: `record_at` lets failures hold at most half of a
\* client's budget, so a denial always means that the other half was spent on admitted attempts.
THEOREM DenialIsPaidFor == LimiterSpec => []DenialHasItsPrice
<1>1. Limited => DenialHasItsPrice
  <2> SUFFICES ASSUME Limited, NEW a \in Attempt, a.kind \in mix \cap PerClient,
                      ~allows(roll_to(window, window_index(instant)), a)
               PROVE  Cardinality(Admissions(window_index(instant), a.kind, Payers(a)))
                          >= (capacity_of(roll_to(window, window_index(instant)), a) + 1) \div 2
    BY DEF DenialHasItsPrice
  <2> DEFINE i == window_index(instant)
             w == roll_to(window, i)
             map == IF a.kind = "ClientAuthentication" THEN w.clients ELSE w.authorization
             over == IF a.kind = "ClientAuthentication" THEN w.overflow ELSE w.authorization_overflow
             id == a.client_id
             c == CounterOf(map, over, id)
             cap == CapacityAt(map, a.kind, id)
             n == Count(admitted, i, a.kind, PaidBy(map, id))
  <2>1. IsFiniteSet(admitted) /\ WindowBacked(admitted, w) /\ w.index = i
    BY RolledBacked DEF Limited, Numbered
  <2>2. id \in PresentedIds /\ a.kind \in {"ClientAuthentication", "AuthorizationRequest"}
    BY DEF Attempt, PerClient
  <2>3. BudgetsBacked(admitted, map, over, a.kind, i)
    BY <2>1, <2>2 DEF WindowBacked
  <2>4. Within(c, cap, n) /\ cap \in Nat /\ n \in Nat
    BY <2>1, <2>2, <2>3, CounterBacked
  <2>5. capacity_of(w, a) = cap
    BY <2>2 DEF capacity_of, CapacityAt, CapacityFor, SharedCapacity
  <2>6. Spent(w, a) = c.attempts /\ Headroom(w, a) = Sub(cap, c.failures)
    BY <2>2, <2>5 DEF Spent, Headroom, client_counter, authorization_counter, CounterOf, PerClient
  <2>7. ~(1 <= Sub(Sub(cap, c.failures), c.attempts))
    BY <2>6 DEF allows, CanPay, ATTEMPT_COST
  <2> HIDE DEF cap, n, c
  <2>8. n >= (cap + 1) \div 2 /\ c.attempts >= (cap + 1) \div 2
    BY <2>4, <2>7 DEF Within, Sub
  <2>9. CASE i = window.index
    <3>1. w = window
      BY <2>9 DEF roll_to
    <3>2. Payers(a) = PaidBy(map, id)
      BY <2>2, <3>1 DEF Payers, PaidBy, Overflowing
    <3>3. Cardinality(Admissions(i, a.kind, Payers(a))) = n
      BY <3>2 DEF n, Count, Of, Admissions
    <3> QED BY <2>5, <2>8, <3>3
  <2>10. CASE i # window.index
    <3>1. w = NewWindow(i)
      BY <2>10 DEF roll_to
    <3>2. c = NewBudget
      BY <3>1 DEF c, CounterOf, entry, NewWindow
    <3>3. 0 >= (cap + 1) \div 2
      BY <2>8, <3>2 DEF NewBudget
    <3>4. Cardinality(Admissions(i, a.kind, Payers(a))) = Count(admitted, i, a.kind, Payers(a))
      BY DEF Count, Of, Admissions
    <3>5. Count(admitted, i, a.kind, Payers(a)) \in Nat
      BY <2>1, CountTyped
    <3> DEFINE half == (cap + 1) \div 2
               m == Count(admitted, i, a.kind, Payers(a))
    <3>6. half \in Nat
      BY <2>4
    <3> HIDE DEF half, m
    <3>7. m >= half
      BY <3>3, <3>5, <3>6 DEF half, m
    <3> QED BY <2>5, <3>4, <3>7 DEF half, m
  <2> QED BY <2>9, <2>10
<1> QED BY <1>1, LimitedAlways, PTL

-----------------------------------------------------------------------------
(***************************************************************************)
(* Signed tokens.  A pair the harness has nothing to say against signs and  *)
(* verifies as it should; and a key stays published for as long as a token  *)
(* it signed, or is still to sign for a request under way, is alive.        *)
(***************************************************************************)
\* The key a signer publishes when it has no fault.
Own(s) == Jwk_(s.key, key_kind(s.alg), s.kid)

Trusted == {s \in Signers : \E v \in Verifiers : [s |-> s, v |-> v] \in Conforming}

SoundVerifier(v, alg) ==
    v.alg = alg /\ v.fault \notin {"any_signature", "any_key", "slices", "der", "reads_a_prefix"}

\* Without a report, every probe was answered as it had to be.
LEMMA ProbesAnswered ==
    ASSUME NEW v, NEW probes, Reports(v, probes) = {}, NEW p \in probes
    PROVE  /\ p.wanted \in BOOLEAN => ((Verdict(v, p.jwk, p.input, p.signature) = "verified") <=> p.wanted)
           /\ Verdict(v, p.jwk, p.input, p.signature) # "panics"
<1>1. CASE Verdict(v, p.jwk, p.input, p.signature) = "panics"
  <2>1. "VERIFIER_DOES_NOT_PANIC" \in Reports(v, probes)  BY <1>1 DEF Reports
  <2> QED BY <2>1
<1>2. CASE /\ p.wanted \in BOOLEAN
           /\ ~((Verdict(v, p.jwk, p.input, p.signature) = "verified") <=> p.wanted)
  <2>1. p.check \in Reports(v, probes)  BY <1>2 DEF Reports
  <2> QED BY <2>1
<1> QED BY <1>1, <1>2

LEMMA KeyKinds ==
    /\ key_kind("ES256") = "P-256" /\ key_kind("RS256") = "RSA"
    /\ key_kind("PS256") = "RSA" /\ key_kind("EdDSA") = "Ed25519"
  BY DEF key_kind

LEMMA KeyFields ==
    ASSUME NEW id, NEW kind, NEW kid, NEW jwk, jwk = Jwk_(id, kind, kid)
    PROVE  /\ jwk.id = id /\ jwk.kind = kind /\ jwk.kid = kid
           /\ jwk.on_curve = TRUE /\ jwk.decodes = TRUE
  BY DEF Jwk_

\* A verifier's faults, over a key of its kind: the form of the signature, the key, the input.
Panicky(v, form) == v.fault = "slices" /\ form \in {"empty", "one byte", "half", "cut"}
Fitting(v, form, id, key, input, signed) ==
    \/ v.fault = "any_signature"
    \/ /\ id = key \/ v.fault = "any_key"
       /\ input = signed \/ v.fault = "any_input"
       /\ \/ form = "whole"
          \/ form = "der" /\ v.fault = "der"
          \/ form = "zero stripped" /\ v.fault = "pads"
          \/ form = "zero appended" /\ v.fault = "reads_a_prefix"

\* What a verifier says of a signature made with some key, under a well-formed key of its kind.
LEMMA VerdictIs ==
    ASSUME NEW v, NEW jwk, NEW key, NEW input, NEW signed, NEW form,
           key_kind(v.alg) = jwk.kind, jwk.on_curve = TRUE, jwk.decodes = TRUE
    PROVE  /\ Panicky(v, form) =>
                 Verdict(v, jwk, input, As(form, Signature(key, v.alg, signed))) = "panics"
           /\ ~Panicky(v, form) /\ Fitting(v, form, jwk.id, key, input, signed) =>
                 Verdict(v, jwk, input, As(form, Signature(key, v.alg, signed))) = "verified"
           /\ ~Panicky(v, form) /\ ~Fitting(v, form, jwk.id, key, input, signed) =>
                 Verdict(v, jwk, input, As(form, Signature(key, v.alg, signed))) = "refused"
<1> DEFINE signature == As(form, Signature(key, v.alg, signed))
<1>1. signature.key = key /\ signature.alg = v.alg /\ signature.input = signed /\ signature.form = form
  BY DEF As, Signature
<1>2. As(form, Signature(key, v.alg, signed)) = signature  OBVIOUS
<1> HIDE DEF signature
<1>3. Panics(v, jwk, signature) <=> Panicky(v, form)
  BY <1>1 DEF Panics, Panicky
<1>4. Fits(v, jwk, input, signature) <=> Fitting(v, form, jwk.id, key, input, signed)
  BY <1>1 DEF Fits, Fitting, consistent
<1> QED BY <1>2, <1>3, <1>4 DEF Verdict

\* A signature as it was made is whole.
LEMMA WholeSignature ==
    ASSUME NEW key, NEW alg, NEW input
    PROVE  As("whole", Signature(key, alg, input)) = Signature(key, alg, input)
  BY DEF As, Signature

\* The probes that a faulty verifier fails.
LEMMA SoundAfterProbes ==
    ASSUME NEW v \in Verifiers, v.alg \in JwsAlg, Reports(v, VerifierProbes(v.alg)) = {}
    PROVE  SoundVerifier(v, v.alg)
<1>0. PICK key, foreign, signature :
        /\ key = Jwk_("published example", key_kind(v.alg), NoValue)
        /\ foreign = Jwk_("foreign", key_kind(v.alg), NoValue)
        /\ signature = Signature("published example", v.alg, "vector")
  OBVIOUS
<1> DEFINE Misfit(form) == WrongLength(key, signature, form)
           Foreign == Probe("VERIFIER_REJECTS_A_FOREIGN_KEY", foreign, "vector", signature, FALSE)
           Der == Probe("VERIFIER_REJECTS_DER", key, "vector", As("der", signature), FALSE)
<1>1. /\ Foreign \in VerifierProbes(v.alg)
      /\ Misfit("empty") \in VerifierProbes(v.alg) /\ Misfit("zero appended") \in VerifierProbes(v.alg)
      /\ v.alg = "ES256" => Der \in VerifierProbes(v.alg)
  BY <1>0 DEF VerifierProbes, check_verifier, check_verifier_generic, SharedProbes,
      check_wrong_length_signatures, alg_profile
<1>2. /\ key.kind = key_kind(v.alg) /\ key.on_curve = TRUE /\ key.decodes = TRUE
      /\ foreign.kind = key_kind(v.alg) /\ foreign.on_curve = TRUE /\ foreign.decodes = TRUE
      /\ key.id = "published example"
  BY <1>0 DEF Jwk_
<1>3. signature.input = "vector"  BY <1>0 DEF Signature
<1>4. v.fault # "any_signature" /\ v.fault # "any_key"
  <2>1. Verdict(v, foreign, "vector", signature) # "verified"
    <3>1. /\ Foreign.jwk = foreign /\ Foreign.input = "vector" /\ Foreign.signature = signature
          /\ Foreign.wanted = FALSE  BY DEF Probe
    <3> HIDE DEF Foreign
    <3> QED BY <1>1, <3>1, ProbesAnswered
  <2>2. signature = As("whole", Signature("published example", v.alg, "vector"))
    BY <1>0, WholeSignature
  <2>3. CASE v.fault \in {"any_signature", "any_key"}
    <3>1. ~Panicky(v, "whole")  BY <2>3 DEF Panicky
    <3>2. Fitting(v, "whole", foreign.id, "published example", "vector", "vector")  BY <2>3 DEF Fitting
    <3>3. /\ key_kind(v.alg) = foreign.kind /\ foreign.on_curve = TRUE /\ foreign.decodes = TRUE  BY <1>2
    <3>4. Verdict(v, foreign, "vector", As("whole", Signature("published example", v.alg, "vector"))) = "verified"
      BY <3>1, <3>2, <3>3, VerdictIs
    <3> QED BY <2>1, <2>2, <3>4
  <2> QED BY <2>3
<1>5. v.fault # "slices"
  <2>1. Verdict(v, key, "vector", As("empty", signature)) # "panics"
    <3>1. /\ Misfit("empty").jwk = key /\ Misfit("empty").input = signature.input
          /\ Misfit("empty").signature = As("empty", signature)
      BY DEF WrongLength, Probe
    <3> HIDE DEF Misfit
    <3> QED BY <1>1, <1>3, <3>1, ProbesAnswered
  <2>3. CASE v.fault = "slices"
    <3>1. Panicky(v, "empty")  BY <2>3 DEF Panicky
    <3>3. /\ key_kind(v.alg) = key.kind /\ key.on_curve = TRUE /\ key.decodes = TRUE  BY <1>2
    <3>4. Verdict(v, key, "vector", As("empty", Signature("published example", v.alg, "vector"))) = "panics"
      BY <3>1, <3>3, VerdictIs
    <3> QED BY <2>1, <1>0, <3>4
  <2> QED BY <2>3
<1>6. v.fault # "reads_a_prefix"
  <2>1. Verdict(v, key, "vector", As("zero appended", signature)) # "verified"
    <3>1. /\ Misfit("zero appended").jwk = key /\ Misfit("zero appended").input = signature.input
          /\ Misfit("zero appended").signature = As("zero appended", signature)
          /\ Misfit("zero appended").wanted = FALSE
      BY DEF WrongLength, Probe
    <3> HIDE DEF Misfit
    <3> QED BY <1>1, <1>3, <3>1, ProbesAnswered
  <2>3. CASE v.fault = "reads_a_prefix"
    <3>1. ~Panicky(v, "zero appended")  BY <2>3 DEF Panicky
    <3>2. Fitting(v, "zero appended", key.id, "published example", "vector", "vector")  BY <2>3, <1>2 DEF Fitting
    <3>3. /\ key_kind(v.alg) = key.kind /\ key.on_curve = TRUE /\ key.decodes = TRUE  BY <1>2
    <3>4. Verdict(v, key, "vector", As("zero appended", Signature("published example", v.alg, "vector"))) = "verified"
      BY <3>1, <3>2, <3>3, VerdictIs
    <3> QED BY <2>1, <1>0, <3>4
  <2> QED BY <2>3
<1>7. v.fault # "der"
  <2> SUFFICES ASSUME v.fault = "der" PROVE FALSE  OBVIOUS
  <2>1. v.alg = "ES256"  BY SignerAssumption
  <2>2. Verdict(v, key, "vector", As("der", signature)) # "verified"
    <3>1. /\ Der.jwk = key /\ Der.input = "vector"
          /\ Der.signature = As("der", signature) /\ Der.wanted = FALSE
      BY DEF Probe
    <3> HIDE DEF Der
    <3> QED BY <1>1, <2>1, <3>1, ProbesAnswered
  <2>3. CASE v.fault = "der"
    <3>1. ~Panicky(v, "der")  BY <2>3 DEF Panicky
    <3>2. Fitting(v, "der", key.id, "published example", "vector", "vector")  BY <2>3, <1>2 DEF Fitting
    <3>3. /\ key_kind(v.alg) = key.kind /\ key.on_curve = TRUE /\ key.decodes = TRUE  BY <1>2
    <3>4. Verdict(v, key, "vector", As("der", Signature("published example", v.alg, "vector"))) = "verified"
      BY <3>1, <3>2, <3>3, VerdictIs
    <3> QED BY <2>1, <2>2, <1>0, <3>4
  <2> QED BY <2>3
<1> QED BY <1>4, <1>5, <1>6, <1>7 DEF SoundVerifier

\* What the harness lets through signs with the key it publishes, whatever it is given to sign.
LEMMA ConformingPair ==
    ASSUME NEW s \in Signers, NEW v \in Verifiers, [s |-> s, v |-> v] \in Conforming
    PROVE  /\ s \in Trusted /\ s.kid # NoValue
           /\ SoundVerifier(v, s.alg)
           /\ public_jwk(s, TRUE) = Own(s)
           /\ \A input : sign(s, input) = Signature(s.key, s.alg, input)
<1>1. /\ s.alg = v.alg /\ run_signer(s, v) = {} /\ s.alg \in JwsAlg
  BY SignerAssumption DEF Conforming
<1>2. /\ Reports(v, VerifierProbes(s.alg)) = {} /\ check_signer_key(s) = {}
      /\ s.fault \notin {"panics", "refuses"} => check_signer_signatures(s, v) = {}
      /\ s.fault \notin {"panics", "refuses"}
  <2>1. CASE s.fault = "panics"  BY <1>1, <2>1 DEF run_signer
  <2>2. CASE s.fault = "refuses"  BY <1>1, <2>2 DEF run_signer
  <2>3. CASE s.fault \notin {"panics", "refuses"}  BY <1>1, <2>3 DEF run_signer
  <2> QED BY <2>1, <2>2, <2>3
<1>3. SoundVerifier(v, s.alg)  BY <1>1, <1>2, SoundAfterProbes
<1>4. /\ public_jwk(s, FALSE).decodes /\ public_jwk(s, FALSE).kid # NoValue
      /\ public_jwk(s, TRUE) = public_jwk(s, FALSE)
  BY <1>2 DEF check_signer_key, check_published_key
<1>5. s.fault # "bad_coordinate"  BY <1>4 DEF public_jwk, Jwk_
<1>6. public_jwk(s, FALSE).kid = s.kid  BY DEF public_jwk, Jwk_
<1> DEFINE own == public_jwk(s, FALSE)
           first == sign(s, "a")
           second == sign(s, "b")
<1>7. /\ Verdict(v, own, "a", first) = "verified" /\ Verdict(v, own, "b", second) = "verified"
      /\ Verdict(v, own, "a", second) # "verified"
  <2> DEFINE mine == Probe("SIGNER_VERIFIES_UNDER_ITS_OWN_JWK", own, "a", first, TRUE)
             probes == {mine, Probe("SIGNER_REJECTED_BY_ANOTHER_KEY", alg_profile(s.alg).foreign_key,
                                    "a", first, FALSE)}
             Covers(input, signature) == Verdict(v, own, input, signature) = "verified"
             bound == CASE s.fault = "signs_once" -> {"SIGNER_SIGNS"}
                        [] s.fault # "signs_once" /\ (~Covers("b", second) \/ Covers("a", second)
                                                        \/ Covers("b", first))
                             -> {"SIGNER_BINDS_THE_SIGNING_INPUT"}
                        [] OTHER -> {}
  <2>1. Reports(v, probes) = {} /\ bound = {}
    BY <1>2 DEF check_signer_signatures
  <2>2. Verdict(v, own, "a", first) = "verified"
    <3>1. /\ mine.jwk = own /\ mine.input = "a" /\ mine.signature = first /\ mine.wanted = TRUE
      BY DEF Probe
    <3>2. mine \in probes  OBVIOUS
    <3> HIDE DEF mine, probes, own, first
    <3> QED BY <2>1, <3>1, <3>2, ProbesAnswered
  <2>3. Covers("b", second) /\ ~Covers("a", second)
    <3> HIDE DEF Covers, second, first
    <3> QED BY <2>1
  <2> QED BY <2>2, <2>3
<1>8. /\ s.fault # "der" /\ s.fault # "constant"
  <2>1. s.fault # "der"  BY <1>7, <1>3 DEF sign, As, Signature, Verdict, Fits, SoundVerifier
  <2>2. s.fault # "constant"
    <3> SUFFICES ASSUME s.fault = "constant" PROVE FALSE  OBVIOUS
    <3>1. sign(s, "a") = sign(s, "b")  BY DEF sign
    <3> QED BY <3>1, <1>7
  <2> QED BY <2>1, <2>2
<1>9. \A input : sign(s, input) = Signature(s.key, s.alg, input)
  BY <1>8 DEF sign
<1>10. public_jwk(s, TRUE) = Own(s)
  <2>1. CASE s.fault = "publishes_another_key"
    <3>1. own = [Own(s) EXCEPT !.id = "another"]  BY <2>1 DEF public_jwk, Own
    <3>2. s.key = "another"
      <4>1. own.id = "another" /\ Own(s).kind = own.kind  BY <3>1 DEF Own, Jwk_
      <4>2. first.key = s.key /\ first.form = "whole"  BY <1>9 DEF Signature
      <4>3. Fits(v, own, "a", first)  BY <1>7 DEF Verdict
      <4> HIDE DEF own, first
      <4> QED BY <4>1, <4>2, <4>3, <1>3 DEF Fits, SoundVerifier
    <3>3. Own(s) = [Own(s) EXCEPT !.id = "another"]
      <4>1. PICK yes : yes = TRUE  OBVIOUS
      <4>2. Own(s) = [id |-> "another", kind |-> key_kind(s.alg), kid |-> s.kid, on_curve |-> yes, decodes |-> yes]
        BY <4>1, <3>2 DEF Own, Jwk_
      <4> QED BY <4>2
    <3> QED BY <3>1, <3>3, <1>4
  <2>2. CASE s.fault # "publishes_another_key"
    BY <2>2, <1>4, <1>5 DEF public_jwk, Own
  <2> QED BY <2>1, <2>2
<1>11. s \in Trusted  BY DEF Trusted
<1> QED BY <1>3, <1>4, <1>6, <1>9, <1>10, <1>11

-----------------------------------------------------------------------------
\* A JwtConfig has the fields that JwtConfig gives it.
JwtShape(config) ==
    config = [signer |-> config.signer, alg |-> config.alg, active |-> config.active,
              retired |-> config.retired, audience |-> config.audience,
              encoded_header |-> config.encoded_header]

LEMMA JwtFields ==
    ASSUME JwtShape(jwt)
    PROVE  DOMAIN jwt = {"signer", "alg", "active", "retired", "audience", "encoded_header"}
  BY DEF JwtShape

\* The keys installed and published, each by the name it goes by.
KeysInstalled ==
    /\ keyInstant \in Nat /\ JwtShape(jwt)
    /\ jwt.signer \in Trusted /\ jwt.active = Own(jwt.signer)
    /\ jwt.encoded_header = encoded_jose_header(jwt.signer.alg, Own(jwt.signer))
    /\ \A jwk \in jwt.retired : \E s \in Trusted : jwk = Own(s) /\ retired_at[s.kid] \in Nat
    /\ DOMAIN vouched = JwsAlg /\ DOMAIN retired_at = {s.kid : s \in Signers}
    /\ SoundVerifier(vouched[jwt.signer.alg], jwt.signer.alg)

\* The key that signs under this header is published until that instant.
Backed(s, header, until) ==
    /\ header = encoded_jose_header(s.alg, Own(s))
    /\ SoundVerifier(vouched[s.alg], s.alg)
    /\ until \in Nat /\ until <= keyInstant + MaxHandling + signed_token_ttl
    /\ \/ until <= keyInstant
       \/ jwt.active.kid = s.kid
       \/ \E jwk \in jwt.retired :
              jwk.kid = s.kid /\ until <= retired_at[s.kid] + MaxHandling + signed_token_ttl

\* When the token of a request has expired, whenever it is signed.
Latest(x) == IF x.state = "signing" THEN x.claims.exp ELSE x.since + MaxHandling + signed_token_ttl

\* A request under way, and what it will sign with.
Underway(x) ==
    /\ x.signer \in Trusted /\ Backed(x.signer, x.header, Latest(x))
    /\ x.state = "handling" =>
           x.since \in Nat /\ x.since <= keyInstant /\ keyInstant <= x.since + MaxHandling

InHand ==
    /\ DOMAIN signing = Signings
    /\ \A t \in Signings : InState(t, {"handling", "signing"}) => Underway(signing[t])
    /\ \A token \in issued : \E s \in Trusted :
           /\ Backed(s, token.header, token.claims.exp)
           /\ token.signature = Signature(s.key, s.alg, <<token.header, token.claims>>)

Published == KeysInstalled /\ InHand

LEMMA TrustedSigner ==
    ASSUME NEW s \in Trusted
    PROVE  /\ s \in Signers /\ s.kid # NoValue /\ s.alg \in JwsAlg
           /\ \A input : sign(s, input) = Signature(s.key, s.alg, input)
           /\ Own(s).kid = s.kid
<1>1. PICK v \in Verifiers : [s |-> s, v |-> v] \in Conforming  BY DEF Trusted
<1>2. s \in Signers  BY DEF Trusted
<1> QED BY <1>1, <1>2, ConformingPair, SignerAssumption DEF Own, Jwk_

LEMMA SameNameSameKey ==
    ASSUME NEW s \in Trusted, NEW t \in Trusted, s.kid = t.kid
    PROVE  Own(s) = Own(t)
  BY TrustedSigner, SignerAssumption DEF Own

\* A pair of the harness, taken apart.
LEMMA PairParts ==
    ASSUME NEW pair \in Conforming
    PROVE  /\ pair.s \in Trusted /\ SoundVerifier(pair.v, pair.s.alg)
           /\ public_jwk(pair.s, TRUE) = Own(pair.s)
<1>1. pair.s \in Signers /\ pair.v \in Verifiers /\ [s |-> pair.s, v |-> pair.v] = pair
  BY DEF Conforming
<1> QED BY <1>1, ConformingPair

LEMMA PublishedInit == KeyInit => Published
<1> SUFFICES ASSUME KeyInit PROVE Published  OBVIOUS
<1>1. PICK pair \in Conforming :
        /\ jwt = JwtConfig(pair.s)
        /\ vouched = [alg \in JwsAlg |-> IF alg = pair.s.alg THEN pair.v ELSE NoValue]
  BY DEF KeyInit
<1>2. pair.s \in Trusted /\ SoundVerifier(pair.v, pair.s.alg) /\ public_jwk(pair.s, TRUE) = Own(pair.s)
  BY PairParts
<1>3. pair.s.alg \in JwsAlg  BY <1>2, TrustedSigner
<1>4. /\ jwt.signer = pair.s /\ jwt.active = Own(pair.s) /\ jwt.retired = {}
      /\ jwt.encoded_header = encoded_jose_header(pair.s.alg, Own(pair.s))
  BY <1>1, <1>2 DEF JwtConfig
<1>41. JwtShape(jwt)  BY <1>1 DEF JwtConfig, JwtShape
<1>5. KeysInstalled  BY <1>1, <1>2, <1>3, <1>4, <1>41 DEF KeysInstalled, KeyInit
<1>6. InHand  BY DEF InHand, KeyInit, InState
<1> QED BY <1>5, <1>6 DEF Published

\* A step that leaves the keys alone keeps what is backed, as the clock goes on.
LEMMA StillBacked ==
    ASSUME KeysInstalled, keyInstant' \in Nat, keyInstant' >= keyInstant,
           jwt' = jwt, vouched' = vouched, retired_at' = retired_at,
           NEW s, NEW header, NEW until, Backed(s, header, until)
    PROVE  Backed(s, header, until)'
<1>1. keyInstant \in Nat /\ until \in Nat  BY DEF Backed, KeysInstalled
<1>2. until <= keyInstant' + MaxHandling + signed_token_ttl
  <2>1. until <= keyInstant + MaxHandling + signed_token_ttl  BY DEF Backed
  <2>2. MaxHandling \in Nat /\ signed_token_ttl \in Nat  BY SignerAssumption
  <2>3. \A m, n, u, k, l \in Nat : u <= k + m + n /\ l >= k => u <= l + m + n  OBVIOUS
  <2> QED BY <1>1, <2>1, <2>2, <2>3, Zenon
<1>3. until <= keyInstant => until <= keyInstant'  BY <1>1
<1> QED BY <1>2, <1>3 DEF Backed

\* What is backed until some instant is backed until any earlier one.
LEMMA BackedSooner ==
    ASSUME KeysInstalled, NEW s \in Trusted, NEW header, NEW until, Backed(s, header, until),
           NEW sooner \in Nat, sooner <= until
    PROVE  Backed(s, header, sooner)
<1>1. \A jwk \in jwt.retired : jwk.kid = s.kid => retired_at[s.kid] \in Nat
  BY TrustedSigner DEF KeysInstalled
<1> QED BY <1>1, SignerAssumption DEF Backed, KeysInstalled

\* A step of one request that leaves the keys and the clock alone.
LEMMA OneRequestMoves ==
    ASSUME Published, UNCHANGED <<jwt, vouched, retired_at, keyInstant>>,
           NEW t \in Signings, NEW x, signing' = [signing EXCEPT ![t] = x],
           x.state \in {"handling", "signing"} => Underway(x),
           \A token \in issued' \ issued : \E s \in Trusted :
               /\ Backed(s, token.header, token.claims.exp)
               /\ token.signature = Signature(s.key, s.alg, <<token.header, token.claims>>)
    PROVE  Published'
<1>1. KeysInstalled'  BY DEF Published, KeysInstalled
<1>2. \A s, header, until : Backed(s, header, until) <=> Backed(s, header, until)'
  BY DEF Backed
<1>3. \A y : Underway(y) => Underway(y)'
  BY <1>2 DEF Underway
<1>4. DOMAIN signing' = Signings  BY DEF Published, InHand
<1>5. ASSUME NEW u \in Signings, InState(u, {"handling", "signing"})'
      PROVE  Underway(signing[u])'
  <2>1. CASE u = t
    <3>1. signing'[u] = x  BY <2>1 DEF Published, InHand
    <3>2. Underway(x)  BY <1>5, <3>1 DEF InState
    <3> QED BY <1>3, <3>1, <3>2 DEF Underway, Backed, Latest
  <2>2. CASE u # t
    <3>1. signing'[u] = signing[u]  BY <2>2 DEF Published, InHand
    <3>2. Underway(signing[u])  BY <1>5, <3>1 DEF InState, Published, InHand
    <3> QED BY <1>3, <3>1, <3>2 DEF Underway, Backed, Latest
  <2> QED BY <2>1, <2>2
<1>6. \A token \in issued' : \E s \in Trusted :
          /\ Backed(s, token.header, token.claims.exp)'
          /\ token.signature = Signature(s.key, s.alg, <<token.header, token.claims>>)
  BY <1>2 DEF Published, InHand
<1> QED BY <1>1, <1>4, <1>5, <1>6 DEF Published, InHand

LEMMA ClockStepPublished ==
    ASSUME Published, KeyTick
    PROVE  Published'
<1>1. keyInstant' = keyInstant + 1 /\ keyInstant \in Nat  BY DEF KeyTick, Published, KeysInstalled
<1>2. KeysInstalled'  BY DEF KeyTick, Published, KeysInstalled
<1>3. \A s, header, until : Backed(s, header, until) => Backed(s, header, until)'
  BY <1>1, StillBacked DEF KeyTick, Published
<1>4. ASSUME NEW t \in Signings, InState(t, {"handling", "signing"})'
      PROVE  Underway(signing[t])'
  <2>1. signing'[t] = signing[t] /\ InState(t, {"handling", "signing"})  BY <1>4 DEF KeyTick, InState
  <2>2. Underway(signing[t])  BY <2>1 DEF Published, InHand
  <2>3. ASSUME signing[t].state = "handling"
        PROVE  keyInstant + 1 <= signing[t].since + MaxHandling
    <3>1. keyInstant < signing[t].since + MaxHandling  BY <2>1, <2>3 DEF KeyTick, InState
    <3> QED BY <3>1, <2>2, <2>3, <1>1, SignerAssumption DEF Underway
  <2>4. PICK x : x = signing[t]  OBVIOUS
  <2>5. Backed(x.signer, x.header, Latest(x))'  BY <1>3, <2>2, <2>4 DEF Underway, Latest
  <2>6. Underway(x)'  BY <1>1, <2>2, <2>3, <2>4, <2>5 DEF Underway
  <2>7. signing'[t] = x  BY <2>1, <2>4
  <2> QED BY <2>6, <2>7 DEF Underway, Backed, Latest
<1>5. InHand'
  BY <1>3, <1>4 DEF KeyTick, Published, InHand
<1> QED BY <1>2, <1>5 DEF Published

\* The key a request is received under is the active one.
LEMMA ArriveStepPublished ==
    ASSUME Published, HandlingBegins
    PROVE  Published'
<1>1. PICK t \in Signings :
        /\ signing' = [signing EXCEPT ![t] =
                          [state |-> "handling", signer |-> jwt.signer, header |-> jwt.encoded_header,
                           audience |-> jwt.audience, since |-> keyInstant]]
        /\ UNCHANGED <<jwt, vouched, retired_at, issued, keyInstant>>
  BY DEF HandlingBegins
<1>2. PICK x : x = [state |-> "handling", signer |-> jwt.signer, header |-> jwt.encoded_header,
                    audience |-> jwt.audience, since |-> keyInstant]
  OBVIOUS
<1>3. /\ x.state = "handling" /\ x.signer = jwt.signer /\ x.header = jwt.encoded_header
      /\ x.since = keyInstant
  BY <1>2
<1>4. jwt.active.kid = jwt.signer.kid  BY TrustedSigner DEF Published, KeysInstalled
<1>5. Latest(x) = keyInstant + MaxHandling + signed_token_ttl  BY <1>3 DEF Latest
<1>6. Underway(x)
  BY <1>3, <1>4, <1>5, SignerAssumption DEF Underway, Backed, Published, KeysInstalled
<1> QED BY <1>1, <1>2, <1>6, OneRequestMoves

\* It is backed for longer than any token the request signs with it.
LEMMA BeginStepPublished ==
    ASSUME Published, SigningBegins
    PROVE  Published'
<1>1. PICK t \in Signings, r \in TokenRequests :
        /\ InState(t, {"handling"})
        /\ signing' = [signing EXCEPT ![t] =
                          [state |-> "signing", signer |-> signing[t].signer,
                           header |-> signing[t].header,
                           claims |-> AccessTokenClaims(signing[t].audience, r)]]
        /\ UNCHANGED <<jwt, vouched, retired_at, issued, keyInstant>>
  BY DEF SigningBegins
<1>2. PICK claims : claims = AccessTokenClaims(signing[t].audience, r)  OBVIOUS
<1>3. PICK x : x = [state |-> "signing", signer |-> signing[t].signer, header |-> signing[t].header,
                    claims |-> claims]
  OBVIOUS
<1>4. claims.exp = keyInstant + signed_token_ttl  BY <1>2 DEF AccessTokenClaims
<1>5. /\ x.state = "signing" /\ x.signer = signing[t].signer /\ x.header = signing[t].header
      /\ x.claims = claims
  BY <1>3
<1>6. Underway(signing[t]) /\ signing[t].state = "handling"
  BY <1>1 DEF Published, InHand, InState
<1>7. Backed(x.signer, x.header, claims.exp)
  <2>1. KeysInstalled /\ keyInstant \in Nat  BY DEF Published, KeysInstalled
  <2>2. claims.exp \in Nat /\ claims.exp <= Latest(signing[t])
    BY <2>1, <1>4, <1>6, SignerAssumption DEF Underway, Latest
  <2> QED BY <2>1, <2>2, <1>5, <1>6, BackedSooner DEF Underway
<1>8. Underway(x)  BY <1>5, <1>6, <1>7 DEF Underway, Latest
<1> QED BY <1>1, <1>2, <1>3, <1>8, OneRequestMoves

LEMMA EndStepPublished ==
    ASSUME Published, SigningEnds
    PROVE  Published'
<1>1. PICK t \in Signings :
        /\ InState(t, {"signing"})
        /\ issued' = issued \cup
              {[header |-> signing[t].header, claims |-> signing[t].claims,
                signature |-> sign(signing[t].signer, <<signing[t].header, signing[t].claims>>)]}
        /\ signing' = [signing EXCEPT ![t] = [state |-> "done"]]
        /\ UNCHANGED <<jwt, vouched, retired_at, keyInstant>>
  BY DEF SigningEnds
<1>2. PICK made : made = [header |-> signing[t].header, claims |-> signing[t].claims,
                    signature |-> sign(signing[t].signer, <<signing[t].header, signing[t].claims>>)]
  OBVIOUS
<1>3. Underway(signing[t]) /\ signing[t].state = "signing"
  BY <1>1 DEF Published, InHand, InState
<1>4. /\ signing[t].signer \in Trusted
      /\ Backed(signing[t].signer, made.header, made.claims.exp)
      /\ made.signature = Signature(signing[t].signer.key, signing[t].signer.alg, <<made.header, made.claims>>)
  BY <1>2, <1>3, TrustedSigner DEF Underway, Latest
<1>5. \A token \in issued' \ issued : \E s \in Trusted :
          /\ Backed(s, token.header, token.claims.exp)
          /\ token.signature = Signature(s.key, s.alg, <<token.header, token.claims>>)
  BY <1>1, <1>2, <1>4
<1>6. PICK x : x = [state |-> "done"]  OBVIOUS
<1>7. x.state \notin {"handling", "signing"}  BY <1>6
<1> QED BY <1>1, <1>5, <1>6, <1>7, OneRequestMoves

LEMMA FailStepPublished ==
    ASSUME Published, SigningFails
    PROVE  Published'
<1>1. PICK t \in Signings :
        /\ signing' = [signing EXCEPT ![t] = [state |-> "done"]]
        /\ UNCHANGED <<jwt, vouched, retired_at, issued, keyInstant>>
  BY DEF SigningFails
<1>2. PICK x : x = [state |-> "done"]  OBVIOUS
<1>3. x.state \notin {"handling", "signing"}  BY <1>2
<1> QED BY <1>1, <1>2, <1>3, OneRequestMoves

\* A promotion keeps the outgoing key published under its name, from this instant on.
LEMMA RotateStepPublished ==
    ASSUME Published, KeyRotates
    PROVE  Published'
<1>1. PICK pair \in Conforming :
        /\ jwt' = rotate_to(jwt, pair.s)
        /\ vouched' = [vouched EXCEPT ![pair.s.alg] = pair.v]
        /\ retired_at' = [retired_at EXCEPT ![jwt.active.kid] = keyInstant]
        /\ UNCHANGED <<signing, issued, keyInstant>>
  BY DEF KeyRotates
<1> DEFINE next == pair.s
           old == jwt.signer
<1>2. next \in Trusted /\ SoundVerifier(pair.v, next.alg) /\ public_jwk(next, TRUE) = Own(next)
  BY PairParts
<1>3. /\ old \in Trusted /\ jwt.active = Own(old) /\ keyInstant \in Nat
      /\ DOMAIN vouched = JwsAlg /\ DOMAIN retired_at = {s.kid : s \in Signers}
      /\ \A jwk \in jwt.retired : \E s \in Trusted : jwk = Own(s) /\ retired_at[s.kid] \in Nat
  BY DEF Published, KeysInstalled
<1>4. /\ next.alg \in JwsAlg /\ Own(next).kid = next.kid
      /\ old.kid \in DOMAIN retired_at /\ Own(old).kid = old.kid
  BY <1>2, <1>3, TrustedSigner
<1>5. /\ jwt'.signer = next /\ jwt'.active = Own(next)
      /\ jwt'.encoded_header = encoded_jose_header(next.alg, Own(next))
      /\ jwt'.retired = (IF old.kid # next.kid THEN {Own(old)} ELSE {})
                          \cup {jwk \in jwt.retired : jwk.kid \notin {old.kid, next.kid}}
  <2>1. /\ jwt'.signer = next /\ jwt'.active = Own(next)
        /\ jwt'.encoded_header = encoded_jose_header(next.alg, Own(next))
        /\ jwt'.retired = IF jwt.active.kid # Own(next).kid
                           THEN {jwt.active} \cup Others(jwt.retired, {jwt.active.kid, Own(next).kid})
                           ELSE Others(jwt.retired, {jwt.active.kid, Own(next).kid})
    BY <1>1, <1>2, JwtFields DEF rotate_to, Published, KeysInstalled
  <2> QED BY <2>1, <1>3, <1>4 DEF Others
<1>6. /\ retired_at'[old.kid] = keyInstant
      /\ \A kid \in DOMAIN retired_at : kid # old.kid => retired_at'[kid] = retired_at[kid]
      /\ DOMAIN retired_at' = DOMAIN retired_at /\ DOMAIN vouched' = JwsAlg
      /\ vouched'[next.alg] = pair.v
      /\ \A alg \in JwsAlg : alg # next.alg => vouched'[alg] = vouched[alg]
  BY <1>1, <1>3, <1>4
<1>7. \A jwk \in jwt'.retired : \E s \in Trusted : jwk = Own(s) /\ retired_at'[s.kid] \in Nat
  <2> SUFFICES ASSUME NEW jwk \in jwt'.retired
               PROVE  \E s \in Trusted : jwk = Own(s) /\ retired_at'[s.kid] \in Nat
    OBVIOUS
  <2>1. CASE jwk = Own(old)  BY <2>1, <1>3, <1>6
  <2>2. CASE jwk \in jwt.retired
    <3>1. PICK s \in Trusted : jwk = Own(s) /\ retired_at[s.kid] \in Nat  BY <1>3, <2>2
    <3>2. s.kid \in DOMAIN retired_at  BY <1>3, TrustedSigner
    <3> QED BY <3>1, <3>2, <1>3, <1>6
  <2> QED BY <2>1, <2>2, <1>5
<1>71. JwtShape(jwt')  BY <1>1 DEF rotate_to, JwtShape, Published, KeysInstalled
<1>8. KeysInstalled'
  BY <1>1, <1>2, <1>3, <1>5, <1>6, <1>7, <1>71 DEF KeysInstalled
<1>9. ASSUME NEW s \in Trusted, NEW header, NEW until, Backed(s, header, until)
      PROVE  Backed(s, header, until)'
  <2>1. s.alg \in JwsAlg /\ s.kid \in DOMAIN retired_at  BY <1>3, TrustedSigner
  <2>2. SoundVerifier(vouched[s.alg], s.alg)'
    BY <1>2, <1>6, <1>9, <2>1 DEF Backed, SoundVerifier
  <2>3. \/ until <= keyInstant
        \/ jwt'.active.kid = s.kid
        \/ \E jwk \in jwt'.retired : jwk.kid = s.kid /\ until <= retired_at'[s.kid] + MaxHandling + signed_token_ttl
    <3>1. CASE s.kid = next.kid  BY <3>1, <1>4, <1>5
    <3>2. CASE s.kid # next.kid /\ s.kid = old.kid
      <4>1. Own(old) \in jwt'.retired /\ Own(old).kid = s.kid  BY <3>2, <1>4, <1>5
      <4>2. until <= retired_at'[s.kid] + MaxHandling + signed_token_ttl  BY <3>2, <1>6, <1>9 DEF Backed
      <4> QED BY <4>1, <4>2
    <3>3. CASE s.kid # next.kid /\ s.kid # old.kid
      <4>1. CASE until <= keyInstant  BY <4>1
      <4>2. ASSUME NEW jwk \in jwt.retired, jwk.kid = s.kid,
                   until <= retired_at[s.kid] + MaxHandling + signed_token_ttl
            PROVE  jwk \in jwt'.retired /\ until <= retired_at'[s.kid] + MaxHandling + signed_token_ttl
        BY <4>2, <3>3, <2>1, <1>5, <1>6
      <4> QED BY <4>1, <4>2, <3>3, <1>3, <1>4, <1>9 DEF Backed
    <3> QED BY <3>1, <3>2, <3>3
  <2> QED BY <2>2, <2>3, <1>1, <1>9 DEF Backed
<1>10. InHand'
  <2>1. ASSUME NEW t \in Signings, InState(t, {"handling", "signing"})'
        PROVE  Underway(signing[t])'
    <3>1. signing'[t] = signing[t] /\ Underway(signing[t])  BY <1>1, <2>1 DEF InState, Published, InHand
    <3> QED BY <1>1, <1>9, <3>1 DEF Underway, Latest, Backed
  <2> QED BY <1>1, <1>9, <2>1 DEF Published, InHand
<1> QED BY <1>8, <1>10 DEF Published

\* What is dropped has outlived every token it signed, or is still to sign.
LEMMA ForgetStepPublished ==
    ASSUME Published, Forgets, forget_after >= MaxHandling + signed_token_ttl
    PROVE  Published'
<1>1. PICK gone \in jwt.retired :
        /\ keyInstant >= retired_at[gone.kid] + forget_after
        /\ jwt' = forget_retired_key(jwt, gone.kid)
        /\ UNCHANGED <<vouched, retired_at, signing, issued, keyInstant>>
  BY DEF Forgets
<1>2. /\ jwt'.signer = jwt.signer /\ jwt'.active = jwt.active /\ jwt'.encoded_header = jwt.encoded_header
      /\ jwt'.retired = {jwk \in jwt.retired : jwk.kid # gone.kid}
  BY <1>1, JwtFields DEF forget_retired_key, Others, Published, KeysInstalled
<1>21. JwtShape(jwt')  BY <1>1 DEF forget_retired_key, JwtShape, Published, KeysInstalled
<1>3. KeysInstalled'  BY <1>1, <1>2, <1>21 DEF Published, KeysInstalled
<1>4. keyInstant \in Nat /\ retired_at[gone.kid] \in Nat
  BY TrustedSigner DEF Published, KeysInstalled
<1>5. ASSUME NEW s, NEW header, NEW until, Backed(s, header, until)
      PROVE  Backed(s, header, until)'
  <2>1. \/ until <= keyInstant
        \/ jwt'.active.kid = s.kid
        \/ \E jwk \in jwt'.retired : jwk.kid = s.kid /\ until <= retired_at[s.kid] + MaxHandling + signed_token_ttl
    <3>1. CASE s.kid = gone.kid
      <4>1. until <= retired_at[s.kid] + MaxHandling + signed_token_ttl => until <= keyInstant
        BY <3>1, <1>1, <1>4, <1>5, SignerAssumption DEF Backed
      <4> QED BY <4>1, <1>2, <1>5 DEF Backed
    <3>2. CASE s.kid # gone.kid  BY <3>2, <1>2, <1>5 DEF Backed
    <3> QED BY <3>1, <3>2
  <2> QED BY <2>1, <1>1, <1>2, <1>5 DEF Backed
<1>6. InHand'
  <2>1. ASSUME NEW t \in Signings, InState(t, {"handling", "signing"})'
        PROVE  Underway(signing[t])'
    <3>1. signing'[t] = signing[t] /\ Underway(signing[t])  BY <1>1, <2>1 DEF InState, Published, InHand
    <3> QED BY <1>1, <1>5, <3>1 DEF Underway, Latest, Backed
  <2> QED BY <1>1, <1>5, <2>1 DEF Published, InHand
<1> QED BY <1>3, <1>6 DEF Published

LEMMA PublishedAlways ==
    ASSUME forget_after >= MaxHandling + signed_token_ttl
    PROVE  KeySpec => []Published
<1>1. Published /\ [KeyNext]_keyVars => Published'
  <2> SUFFICES ASSUME Published, [KeyNext]_keyVars PROVE Published'  OBVIOUS
  <2>1. CASE UNCHANGED keyVars
    BY <2>1 DEF keyVars, Published, KeysInstalled, InHand, Underway, Latest, InState, Backed
  <2> QED BY <2>1, ClockStepPublished, ArriveStepPublished, BeginStepPublished, EndStepPublished, FailStepPublished,
         RotateStepPublished, ForgetStepPublished DEF KeyNext
<1> QED BY <1>1, PublishedInit, PTL DEF KeySpec

\* The published set answers a live token with the key that signed it, and no other.
LEMMA OneKeySelected ==
    ASSUME Published, NEW token \in issued, NEW s \in Trusted,
           Backed(s, token.header, token.claims.exp), keyInstant < token.claims.exp
    PROVE  Selected(token) = {JwksEntry(Own(s))}
<1>1. token.header.kid = s.kid /\ token.header.alg = s.alg
  BY TrustedSigner DEF Backed, encoded_jose_header
<1>2. \A jwk \in {jwt.active} \cup jwt.retired : \E t \in Trusted : jwk = Own(t)
  BY DEF Published, KeysInstalled
<1>3. \A jwk \in {jwt.active} \cup jwt.retired : jwk.kid = s.kid => jwk = Own(s)
  BY <1>2, TrustedSigner, SameNameSameKey
<1>4. Own(s) \in {jwt.active} \cup jwt.retired
  <2>1. ~(token.claims.exp <= keyInstant)  BY DEF Backed, Published, KeysInstalled
  <2> QED BY <2>1, <1>3 DEF Backed
<1>5. \A jwk : JwksEntry(jwk).jwk = jwk  BY DEF JwksEntry
<1>6. JwksEntry(Own(s)).alg \in {NoValue, s.alg} /\ Own(s).kid = s.kid
  <2>1. s.alg \in JwsAlg /\ Own(s).kid = s.kid  BY TrustedSigner
  <2>2. Own(s).kind = key_kind(s.alg)  BY DEF Own, Jwk_
  <2> QED BY <2>1, <2>2 DEF JwksEntry, key_kind, JwsAlg
<1>7. ASSUME NEW e \in Selected(token) PROVE e = JwksEntry(Own(s))
  BY <1>1, <1>3, <1>5, <1>7 DEF Selected, jwks
<1>8. JwksEntry(Own(s)) \in Selected(token)
  BY <1>1, <1>4, <1>5, <1>6 DEF Selected, jwks
<1> QED BY <1>7, <1>8

\* When a retired key is kept for a token's lifetime and the longest handling of a request, a token
\* the server signed verifies for as long as it lives, under the one published key of its name,
\* whatever keys were promoted or dropped while its request was handled and since; and no altered
\* copy of its signature does (rotate_to and forget_retired_key, jwt.rs; SignerConformance::run).
THEOREM SignedTokensStayVerifiable ==
    ASSUME forget_after >= MaxHandling + signed_token_ttl
    PROVE  KeySpec => []SignedTokensVerify
<1>1. Published => SignedTokensVerify
  <2> SUFFICES ASSUME Published, NEW token \in issued, keyInstant < token.claims.exp
               PROVE  /\ Cardinality(Selected(token)) = 1
                      /\ AtAResourceServer(token, token.signature) = {"verified"}
                      /\ \A form \in Mangled : AtAResourceServer(token, As(form, token.signature)) = {"refused"}
    BY DEF SignedTokensVerify
  <2>1. PICK s \in Trusted : /\ Backed(s, token.header, token.claims.exp)
                             /\ token.signature = Signature(s.key, s.alg, <<token.header, token.claims>>)
    BY DEF Published, InHand
  <2>2. Selected(token) = {JwksEntry(Own(s))}  BY <2>1, OneKeySelected
  <2>3. JwksEntry(Own(s)).jwk = Own(s)  BY DEF JwksEntry
  <2>4. PICK v : v = vouched[token.header.alg] /\ SoundVerifier(v, s.alg)
    BY <2>1 DEF Backed, encoded_jose_header
  <2> DEFINE input == <<token.header, token.claims>>
  <2>5. \A signature : AtAResourceServer(token, signature) = {Verdict(v, Own(s), input, signature)}
    BY <2>2, <2>3, <2>4 DEF AtAResourceServer
  <2>6. /\ Own(s).kind = key_kind(v.alg) /\ Own(s).on_curve = TRUE /\ Own(s).decodes = TRUE
        /\ Own(s).id = s.key /\ v.alg = s.alg
    BY <2>4 DEF Own, Jwk_, SoundVerifier
  <2> HIDE DEF input
  <2>7. Verdict(v, Own(s), input, As("whole", Signature(s.key, v.alg, input))) = "verified"
    <3>1. ~Panicky(v, "whole")  BY <2>4 DEF Panicky, SoundVerifier
    <3>2. Fitting(v, "whole", Own(s).id, s.key, input, input)  BY <2>6 DEF Fitting
    <3>3. key_kind(v.alg) = Own(s).kind /\ Own(s).on_curve = TRUE /\ Own(s).decodes = TRUE  BY <2>6
    <3> QED BY <3>1, <3>2, <3>3, VerdictIs
  <2>8. ASSUME NEW form \in Mangled
        PROVE  Verdict(v, Own(s), input, As(form, Signature(s.key, v.alg, input))) = "refused"
    <3>1. ~Panicky(v, form)  BY <2>4 DEF Panicky, SoundVerifier
    <3>2. ~Fitting(v, form, Own(s).id, s.key, input, input)  BY <2>4 DEF Fitting, Mangled, SoundVerifier
    <3> QED BY <3>1, <3>2, <2>6, VerdictIs
  <2>9. token.signature = Signature(s.key, v.alg, input)  BY <2>1, <2>6 DEF input
  <2>10. Cardinality(Selected(token)) = 1  BY <2>2, FS_Singleton
  <2> QED BY <2>5, <2>7, <2>8, <2>9, <2>10, WholeSignature
<1> QED BY <1>1, PublishedAlways, PTL
=============================================================================

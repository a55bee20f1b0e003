---------------------------- MODULE GrantLineage ----------------------------
(***************************************************************************)
(* What the token endpoint promises about a grant when refresh tokens       *)
(* rotate, with no store, no request and no suspension in it: an            *)
(* authorization code or a refresh token is usable for a while and then     *)
(* closed for good, and it is answered with one successor, which becomes    *)
(* usable as it closes.                                                     *)
(***************************************************************************)
CONSTANTS Codes, Tokens

VARIABLES
    status,     \* of a credential, as its holder meets it: "unknown", "usable" or "closed"
    answers     \* the successors it has been answered with

Credentials == Codes \cup Tokens

Init == /\ status = [c \in Credentials |-> "unknown"]
        /\ answers = [c \in Credentials |-> {}]

\* Credentials may be closed by any step: spent, expired, revoked or lost.
ClosedFrom(before) ==
    \E S \in SUBSET {c \in Credentials : before[c] = "usable"} :
        status' = [c \in Credentials |-> IF c \in S THEN "closed" ELSE before[c]]

Close == ClosedFrom(status) /\ UNCHANGED answers

Issue(code) ==
    /\ status[code] = "unknown"
    /\ status' = [status EXCEPT ![code] = "usable"]
    /\ UNCHANGED answers

Answer(c, next) ==
    /\ status[c] # "unknown" /\ answers[c] = {} /\ status[next] = "unknown"
    /\ answers' = [answers EXCEPT ![c] = {next}]
    /\ ClosedFrom([status EXCEPT ![c] = "closed", ![next] = "usable"])

Next ==
    \/ Close
    \/ \E code \in Codes : Issue(code)
    \/ \E c \in Credentials, next \in Tokens : Answer(c, next)

Spec == Init /\ [][Next]_<<status, answers>>
=============================================================================

------------------------ MODULE MCClientAuthentication ------------------------
(* Client authentication alone, for TLC: a client that rotates its keys and so has two registered, *)
(* and assertions that neither of them signed.                                                     *)
EXTENDS ClientAuthentication

CONSTANTS c1

KeyOf(id) == [id |-> id, kind |-> "P-256", private |-> FALSE, decodes |-> TRUE]

MCRegistrations ==
    {[auth |-> "ConfidentialAssertion", secret |-> None, scheme |-> "none", alg |-> "ES256",
      keys |-> <<KeyOf("old"), KeyOf("new")>>, method |-> "none", subject |-> None,
      thumbprints |-> {}, expires_at |-> None]}
MCApplications == (c1 :> MCRegistrations)
MCSpelling == (c1 :> <<"a">>)

Forged ==
    [shape |-> "compact", oversized |-> FALSE, typ_accepted |-> TRUE, crit |-> "absent",
     alg |-> "ES256", signed_by |-> [key |-> "nobody's", alg |-> "ES256"],
     iss |-> c1, sub |-> c1, aud |-> {"issuer"}, aud_is_array |-> FALSE, exp |-> 1, nbf |-> None,
     iat |-> None, jti |-> <<"1">>]
MCPresentations ==
    {[client_id |-> c1, cred |-> [NoCredential EXCEPT !.assertion = Forged, !.assertion_type = TRUE]]}
MCReplayIds == {replay_key("ca", MCSpelling[c1], Forged.jti)}
=============================================================================

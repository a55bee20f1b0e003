--------------------------------- MODULE Jose ---------------------------------
(***************************************************************************)
(* The JOSE vocabulary the server verifies tokens with (jwt.rs): algorithms, *)
(* public keys, compact JWS, and who signed what.  These are the rules the   *)
(* verification banner of jwt.rs states, as operators.                       *)
(*                                                                          *)
(* Abstracted: bytes.  A compact JWS is a record of what its parts decode    *)
(* to, a signature is the pair of key and algorithm that made it, and a key  *)
(* is its kind, whether its members decode, and an identity.                 *)
(***************************************************************************)
EXTENDS Naturals

\* `JwsAlg`, and the names a header may carry instead.
JwsAlg == {"ES256", "RS256", "EdDSA", "PS256"}
AlgName == JwsAlg \cup {"HS256", "none", "absent"}

key_kind(alg) ==
    CASE alg = "ES256" -> "P-256"
      [] alg \in {"RS256", "PS256"} -> "RSA"
      [] alg = "EdDSA" -> "Ed25519"

classify_alg(name) == name \in JwsAlg

\* A JWK as it stands in a document: what `kty`/`crv` make of it, and what may be wrong with it.
Jwk(ids) ==
    [id: ids, kind: {"P-256", "RSA", "Ed25519", "other"}, private: BOOLEAN, decodes: BOOLEAN]

\* `Jwk::from_json`: public, of a supported kind, and with members of the right length.
from_json(jwk) == ~jwk.private /\ jwk.kind # "other" /\ jwk.decodes

consistent(alg, jwk) == key_kind(alg) = jwk.kind

\* `CompactJws::parse`: three segments, two of them JSON objects.
parses(jws) == jws.shape = "compact"

\* `reject_unknown_crit`: every `crit` is refused, empty, not an array, or naming an extension.
crit_is_acceptable(jws) == jws.crit = "absent"

\* `expect_alg` under `AlgPolicy::AnyInstalled` and `AlgPolicy::Registered`.
any_installed(jws, installed) == classify_alg(jws.alg) /\ jws.alg \in installed
registered_alg(jws, alg) == classify_alg(jws.alg) /\ jws.alg = alg

\* `JwsVerifier::verify` of the verifier installed for `alg`: a key of another kind never verifies.
verify(alg, jwk, jws) ==
    /\ consistent(alg, jwk)
    /\ jwk.decodes
    /\ jws.signed_by = [key |-> jwk.id, alg |-> alg]

\* `verify_hs256`: the same, for a shared secret.
verify_hs256(secret, jws) == jws.signed_by = [key |-> secret, alg |-> "HS256"]

\* `JwsVerifiers::restrict_to`: an allow list removes verifiers, and adds none.
restrict_to(installed, allowed) == installed \cap allowed
=============================================================================

---------------------------- MODULE MCConsentFlow ----------------------------
(* Consent recordings and withdrawals of one pair, for TLC. *)
EXTENDS ConsentFlow

MCApprovals == {[scope |-> {x}, resource |-> <<x>>] : x \in Scopes}
=============================================================================

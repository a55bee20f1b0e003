---------------------------- MODULE MCDeviceFlow ----------------------------
(***************************************************************************)
(* Two requests at a time for TLC, in two scenarios told apart by their     *)
(* configuration: on a code and the chain of refresh tokens it starts,      *)
(* under retryable rotation and under reuse, and on the grants of two       *)
(* devices.                                                                 *)
(***************************************************************************)
EXTENDS DeviceFlow, Sequences, TLC

CONSTANTS a1, a2, a3, n1, n2, n3, f1, f2

OnChain == config.refresh_retry_window > 0
OnDevices == config.refresh_retry_window = 0 /\ ~Reuse /\ StoreErrors

\* Identifiers are interchangeable, so the random source may as well draw them in order.
DrawnInOrder(ids) == \A i \in 2..Len(ids) : ids[i] \in used => ids[i - 1] \in used

\* Up to one rotation of a rotated token, while one instant passes.  Where store calls fail,
\* callers redeem and refresh, and nobody logs out.
WithinChain ==
    /\ now <= 1
    /\ used \cap DeviceCodes = {} /\ f2 \notin used
    /\ deleted_at = Empty(ClientIds)
    /\ \A r \in Requests :
           /\ req[r].pc # "authenticate"
           /\ StoreErrors => req[r].pc \notin {"revoke_lookup", "revoke_access"}

\* Two devices and their polls, while their client is deleted and provisioned again.  Both ask
\* for their codes at the first instant.
WithinDevices ==
    /\ \A r \in Requests : req[r].pc = "authenticate" => req[r].since = 0
    /\ used \cap AuthCodes = {} /\ used \cap {a3, n3} = {}
    /\ \A r \in Requests : req[r].cred \notin RefreshTokens \cup AccessTokens

\* The steps of a scenario.
Within ==
    /\ \A ids \in {<<a1, a2, a3>>, <<n1, n2, n3>>, <<f1, f2>>} : DrawnInOrder(ids)'
    /\ OnChain => WithinChain'
    /\ OnDevices => WithinDevices'

Symmetry == Permutations(Requests) \cup Permutations(DeviceCodes)

GrantsInit == DeviceInit /\ (OnChain \/ OnDevices)
GrantsSpec == GrantsInit /\ [][DeviceNext]_deviceVars
=============================================================================

-------------------------- MODULE MCStorageContract --------------------------
(***************************************************************************)
(* StorageContract for TLC, in two parts: the writes that barriers refuse,  *)
(* with the revocations, and the grants that are reached by user code.      *)
(***************************************************************************)
EXTENDS StorageContract

VARIABLE part

\* In the second part every instant is the first one: the index does not read a clock.
OneInstant ==
    /\ \A k \in ConsentIds : consents[k] # None => consents[k].granted_at = 1
    /\ \A i \in ReplayIds : replay_ids[i] \in {1, None}
    /\ \A c \in ClientIds : client_barriers[c] # None => client_barriers[c].until = 1
    /\ \A p \in ClientIds \X Subjects : consent_barriers[p] # None => consent_barriers[p].until = 1

PartInit == StoreInit /\ part \in {"barriers", "index"}

PartNext ==
    /\ UNCHANGED part
    /\ \/ /\ part = "barriers"
          /\ \/ ClientCalls \/ PushedCalls \/ AccessCalls \/ RefreshCalls \/ FamilyCalls
             \/ ConsentCalls \/ SweepCalls
       \/ /\ part = "index"
          /\ \/ ClientCalls \/ DeviceCalls({1}) \/ CodeCalls({1}) \/ ConsentCalls \/ ReplayCalls
             \/ SweepCalls
          /\ OneInstant'

PartSpec == PartInit /\ [][PartNext]_<<storeVars, part>>
=============================================================================

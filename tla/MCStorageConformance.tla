------------------------ MODULE MCStorageConformance ------------------------
(***************************************************************************)
(* StorageConformance for TLC: the broken stores.                           *)
(***************************************************************************)
EXTENDS StorageConformance

Takes == {"take_device_grant", "take_authorization_code", "take_refresh_token",
          "take_pushed_authorization_request"}

MCFaults ==
    {"lost"} \X (Swaps \cup Guarded \cup Takes \cup
        {"put_client", "delete_client", "put_device_grant", "put_authorization_code", "delete_token",
         "revoke_token_family", "put_consent", "revoke_consent", "sweep_expired"})
    \cup {"unconditional"} \X (Guarded \cup Swaps \cup {"put_device_grant"})
    \cup {"split"} \X (Takes \cup Swaps)
=============================================================================

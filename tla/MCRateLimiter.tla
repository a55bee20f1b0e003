---------------------------- MODULE MCRateLimiter ----------------------------
(* The limiter alone, for TLC: two threads that register clients around the end of a window, or  *)
(* that enter device codes within one.                                                          *)
EXTENDS RateLimiter, TLC

CONSTANTS i1

MCLimits ==
    [window |-> 1,
     device_user_code_capacity |-> 4, device_user_code_failure_cost |-> 3,
     client_registration_capacity |-> 2, client_registration_failure_cost |-> 1,
     authorization_request_capacity |-> 1, authorization_request_failure_cost |-> 2,
     client_authentication_capacity |-> 1, client_authentication_failure_cost |-> 2,
     client_authentication_capacity_for |-> (i1 :> 2),
     max_tracked_clients |-> 1]

MCMixes == {{"ClientRegistration"}}
MCGuessMixes == {{"DeviceUserCodeEntry"}}
=============================================================================

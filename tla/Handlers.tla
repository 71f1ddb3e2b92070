------------------------------ MODULE Handlers ------------------------------
(***************************************************************************)
(* What the small services share: the handlers that are in flight on the   *)
(* servers at one time, and the null of the database.                      *)
(***************************************************************************)
CONSTANTS
    Requests,       \* handlers in flight
    None
=============================================================================

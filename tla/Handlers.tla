------------------------------ MODULE Handlers ------------------------------
(***************************************************************************)
(* What MediaAssets and EventRsvp share: members, who make requests, and   *)
(* the request handlers of the server.                                     *)
(***************************************************************************)

CONSTANTS
    Members,
    Requests        \* request handlers, reused

\* A handler that has answered, or has nothing to answer.
Idle == [pc |-> "idle"]
=============================================================================

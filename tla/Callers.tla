------------------------------ MODULE Callers -------------------------------
(* Who uses the service, and the requests in which they do: Sessions says  *)
(* how a request comes to be somebody's, Access what it then may see and   *)
(* do.                                                                     *)
CONSTANTS
    People,
    Requests        \* the threads of the service, and commands beside it
=============================================================================

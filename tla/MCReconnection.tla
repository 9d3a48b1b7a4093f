-------------------------- MODULE MCReconnection --------------------------
(* Model-checking instances of Reconnection; the configurations bound the   *)
(* sockets and the attempts of a burst.                                     *)
EXTENDS Reconnection
=============================================================================

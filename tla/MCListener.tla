------------------------------ MODULE MCListener -----------------------------
(* Three connections, so that one may be accepted while two instances have  *)
(* not yet read their sockets, and a service that is restarted once.        *)
EXTENDS Listener
=============================================================================

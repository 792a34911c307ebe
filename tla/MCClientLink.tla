----------------------------- MODULE MCClientLink ----------------------------
(* Two sending threads in the server and one in the client, the bounds in   *)
(* the configurations.                                                      *)
EXTENDS ClientLink
=============================================================================

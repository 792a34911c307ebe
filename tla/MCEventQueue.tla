---------------------------- MODULE MCEventQueue ----------------------------
(* Two events, a queue of three and four addresses: the queue fills up,     *)
(* drains to empty and fills again on reused addresses, and the destructor  *)
(* meets every length from 0 to 3.                                          *)
EXTENDS EventQueue
=============================================================================

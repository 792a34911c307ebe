---------------------------- MODULE MCConnection -----------------------------
(* Two connections, the second one begun while the receiving thread of the  *)
(* first is anywhere, or after it has gone.                                 *)
EXTENDS Connection
=============================================================================

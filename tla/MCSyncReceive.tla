---------------------------- MODULE MCSyncReceive ----------------------------
(* Two types, three arrivals and three calls: a late answer, an answer that *)
(* beats the wait, and one whose comparison or broadcast straddles two      *)
(* calls all occur.                                                         *)
EXTENDS SyncReceive
=============================================================================

------------------------------- MODULE MCJobs --------------------------------
(* Two jobs, of the same kind (the second waits for the first) or of two    *)
(* kinds (they run together), of up to two blocks.                          *)
EXTENDS Jobs
=============================================================================

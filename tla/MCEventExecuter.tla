--------------------------- MODULE MCEventExecuter ---------------------------
(* Four frames and a queue of two: the queue fills up and drops a frame,    *)
(* drains and fills again, with the destructor at every point of the loop.  *)
EXTENDS EventExecuter
=============================================================================

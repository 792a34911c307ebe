---------------------------- MODULE BoundedFifo ----------------------------
(* What EventQueue_180 (clientbase/eventqueue.h) promises its callers: a    *)
(* first-in first-out queue of at most MaxCount events, whose Enqueue       *)
(* answers false and changes nothing when it is full and whose Dequeue      *)
(* answers null when it is empty.  "reply" is the answer of the last call.  *)
EXTENDS Naturals, Sequences

CONSTANTS Event,      \* the ReceivedData values callers hand over
          MaxCount,   \* the size given to the constructor
          Null        \* the null pointer of the code

VARIABLES queue, reply, open

fifoVars == <<queue, reply, open>>

FifoInit == /\ queue = <<>>
            /\ reply = [op |-> "none", ok |-> TRUE, event |-> Null]
            /\ open = TRUE

Put(e) == /\ open
          /\ Len(queue) < MaxCount
          /\ queue' = Append(queue, e)
          /\ reply' = [op |-> "Enqueue", ok |-> TRUE, event |-> e]
          /\ UNCHANGED open

Refuse(e) == /\ open
             /\ Len(queue) >= MaxCount
             /\ reply' = [op |-> "Enqueue", ok |-> FALSE, event |-> e]
             /\ UNCHANGED <<queue, open>>

Take == /\ open
        /\ queue # <<>>
        /\ reply' = [op |-> "Dequeue", ok |-> TRUE, event |-> Head(queue)]
        /\ queue' = Tail(queue)
        /\ UNCHANGED open

TakeNothing == /\ open
               /\ queue = <<>>
               /\ reply' = [op |-> "Dequeue", ok |-> FALSE, event |-> Null]
               /\ UNCHANGED <<queue, open>>

(* The destructor: whatever is still queued is dropped, for good. *)
Close == /\ open
         /\ open' = FALSE
         /\ queue' = <<>>
         /\ UNCHANGED reply

FifoNext == \/ \E e \in Event : Put(e) \/ Refuse(e)
            \/ Take
            \/ TakeNothing
            \/ Close

FifoSpec == FifoInit /\ [][FifoNext]_fifoVars
=============================================================================

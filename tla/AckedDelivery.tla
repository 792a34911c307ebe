---------------------------- MODULE AckedDelivery ----------------------------
(* What ClientBase promises while a connection stays up: each end submits   *)
(* frames one at a time, every frame is delivered to the other end at most  *)
(* once and in order, a frame is submitted only after the one before it was *)
(* delivered, and Send answers true only for a frame that was delivered.    *)
EXTENDS Naturals, Sequences

CONSTANT End

VARIABLES submitted,   \* how many frames each end has submitted
          delivered,   \* the frames delivered to each end, in order
          confirmed    \* the frames for which Send answered true

ackVars == <<submitted, delivered, confirmed>>

Other(e) == CHOOSE f \in End : f # e

AckInit == /\ submitted = [e \in End |-> 0]
           /\ delivered = [e \in End |-> <<>>]
           /\ confirmed = [e \in End |-> {}]

AllDelivered(e) == Len(delivered[Other(e)]) = submitted[e]

Submit(e) == /\ AllDelivered(e)
             /\ submitted' = [submitted EXCEPT ![e] = @ + 1]
             /\ UNCHANGED <<delivered, confirmed>>

Deliver(e) == /\ ~AllDelivered(e)
              /\ delivered' = [delivered EXCEPT ![Other(e)] = Append(@, submitted[e])]
              /\ UNCHANGED <<submitted, confirmed>>

Confirm(e) == /\ AllDelivered(e)
              /\ confirmed' = [confirmed EXCEPT ![e] = @ \cup {submitted[e]}]
              /\ UNCHANGED <<submitted, delivered>>

AckNext == \E e \in End : Submit(e) \/ Deliver(e) \/ Confirm(e)

AckSpec == AckInit /\ [][AckNext]_ackVars
=============================================================================

----------------------------- MODULE ClientLink -----------------------------
(* ClientBase (clientbase/clientbase.cpp) at both ends of one connection:   *)
(* the stop-and-wait sending of Send, the receiving thread that accepts or  *)
(* refuses frames and treats the replies, and the three ways a connection   *)
(* goes down (Disconnect, DisconnectForcibly, the peer's closing).          *)
(*                                                                          *)
(* The n-th frame an end sends is the number n; its MD5 digest is           *)
(* Digest(n), so frames of equal content are told apart only by the model.  *)
(* net[e] is what the TCP connection still has to hand to end e, in order.  *)
(* "Locked" sections that touch one variable (_send_succeeded_obj,          *)
(* _last_sent_bytes_obj, _reply_hashcode_obj, _keep_running_thread_obj,     *)
(* _send_obj) are single steps; _cond_obj and _ServerSend_obj, held across  *)
(* several, are variables.                                                  *)
EXTENDS Naturals, Sequences, FiniteSets

CONSTANTS ServerSender,  \* threads of the server calling CCommonServer::SendData
          ClientSender,  \* threads of the client calling ClientBase::Send
          ServerFrames, ClientFrames,  \* bounds: frames each end creates
          DigestCount,   \* frames n and n + DigestCount have equal content
          Damage,        \* what may happen to a frame: subset of {"body","digest"}
          MaxDamage,     \* bound: frames damaged
          MayTimeOut,    \* ends whose Send timeout is sure to elapse
          MayStall,      \* ends at which SEND_TIMEOUT_SECONDS may pass unanswered
          MayLoseClock,  \* ends on which time(null) may fail
          Closer,        \* ends whose owner may call Disconnect
          None

End    == {"server", "client"}
Sender == ServerSender \cup ClientSender
Recv   == {"recv"} \X End      \* the receiving threads
Owner  == {"own"} \X End       \* the threads that own a connection
Thread == Sender \cup Recv \cup Owner

ASSUME LinkAssumption ==
    /\ ServerFrames \in Nat /\ ClientFrames \in Nat /\ MaxDamage \in Nat /\ DigestCount \in Nat \ {0}
    /\ ServerSender \cap ClientSender = {}
    /\ Sender \cap (Recv \cup Owner) = {}
    \* SendData is serialised, Send is not: the client calls it from one thread.
    /\ \A s, t \in ClientSender : s = t
    /\ None \notin Thread
    /\ Damage \subseteq {"body", "digest"}
    /\ MayTimeOut \subseteq End /\ MayStall \subseteq End
    /\ MayLoseClock \subseteq End /\ Closer \subseteq End

VARIABLES
    pc,         \* where each thread is
    serial,     \* the holder of the server's _ServerSend_obj
    condLock,   \* the holder of each end's _cond_obj
    socket,     \* each end's _socket: "open", "closed" (closed, not yet
                \* overwritten) or "invalid" (INVALID_SOCKET)
    keep,       \* _keep_running_thread
    lastSent,   \* the frame in _last_sent_bytes, 0 for null
    succeeded,  \* _send_succeeded
    replyHash,  \* the frame whose digest is in _reply_hashcode, 0 for null
    net,        \* the frames and replies on their way to each end
    inHand,     \* the reply or frame each receiving thread works on
    sent,       \* frames each end has created
    damaged,    \* the frames damaged so far: who sent them, what was damaged
    accepted,   \* history: frames each end handed to Execute, in order
    confirmed   \* history: frames for which Send answered true

endVars  == <<socket, keep, lastSent, succeeded, replyHash>>
histVars == <<sent, damaged, accepted, confirmed>>
vars == <<pc, serial, condLock, endVars, net, inHand, histVars>>

Peer(e)    == CHOOSE f \in End : f # e
Home(t)    == IF t \in ServerSender THEN "server"
              ELSE IF t \in ClientSender THEN "client" ELSE t[2]
MaxFrames(e) == IF e = "server" THEN ServerFrames ELSE ClientFrames
Digest(n)  == n % DigestCount
Digests    == (0..(DigestCount - 1)) \cup {None}

(* A data frame, and a reply that quotes a digest.  "of" tells the model    *)
(* which frame a reply answers; no code looks at it.                        *)
Data(n, state)   == [kind |-> "data", of |-> n, state |-> state]
Answer(n, ok, d) == [kind |-> IF ok THEN "correct" ELSE "error",
                     of |-> n, digest |-> d]
Nothing          == [kind |-> "none"]

(* A frame whose digest field is damaged quotes a digest no frame has. *)
Quoted(m) == IF m.state = "digest" THEN None ELSE Digest(m.of)

Init ==
    /\ pc = [t \in Thread |-> CASE t \in Sender -> "idle"
                                [] t \in Recv   -> "head"
                                [] t \in Owner  -> "up"]
    /\ serial = None
    /\ condLock  = [e \in End |-> None]
    /\ socket    = [e \in End |-> "open"]
    /\ keep      = [e \in End |-> TRUE]
    /\ lastSent  = [e \in End |-> 0]
    /\ succeeded = [e \in End |-> TRUE]
    /\ replyHash = [e \in End |-> Nothing]
    /\ net       = [e \in End |-> <<>>]
    /\ inHand    = [e \in End |-> Nothing]
    /\ sent      = [e \in End |-> 0]
    /\ damaged   = <<>>
    /\ accepted  = [e \in End |-> <<>>]
    /\ confirmed = [e \in End |-> {}]

Goto(t, place) == pc' = [pc EXCEPT ![t] = place]
Invalid(e)     == socket[e] = "invalid"

(* IsSendSucceeded and KeepReceiving answer false without a socket. *)
IsSendSucceeded(e) == ~Invalid(e) /\ succeeded[e]
KeepReceiving(e)   == ~Invalid(e) /\ keep[e]

(* CoreSend: the peer gets the message, unless the peer has closed its end; *)
(* ours being closed or invalid makes send fail.                            *)
Deliver(e, m) == net' = IF socket[e] = "open" /\ socket[Peer(e)] = "open"
                        THEN [net EXCEPT ![Peer(e)] = Append(@, m)] ELSE net
SendWorks(e) == socket[e] = "open"
SendFails(e) == socket[e] # "open" \/ socket[Peer(e)] # "open"

(* A frame goes out intact, or is damaged on its way. *)
DeliverFrame(e, n) ==
    \/ Deliver(e, Data(n, "good")) /\ UNCHANGED damaged
    \/ /\ Len(damaged) < MaxDamage
       /\ \E d \in Damage : /\ damaged' = Append(damaged, <<e, d>>)
                            /\ Deliver(e, Data(n, d))

(* StopSendWaiting: pthread_cond_broadcast on _cond under _cond_obj wakes   *)
(* the senders of end e; thread t goes on at "place".                       *)
WakeSenders(e, t, place) ==
    /\ condLock[e] = None
    /\ pc' = [s \in Thread |->
                IF s = t THEN place
                ELSE IF s \in Sender /\ Home(s) = e /\ pc[s] = "waiting"
                     THEN "final" ELSE pc[s]]

-----------------------------------------------------------------------------
(* Send, called by thread t of end e through SendData (server, under        *)
(* _ServerSend_obj) or directly (client).                                   *)

Begin(t) ==
    LET e == Home(t) IN
    /\ pc[t] = "idle"
    /\ sent[e] < MaxFrames(e)
    /\ t \in ServerSender => serial = None
    /\ serial' = IF t \in ServerSender THEN t ELSE serial
    /\ Goto(t, "check")
    /\ UNCHANGED <<condLock, endVars, net, inHand, histVars>>

(* Send returns ok (SendData gives the mutex back). *)
Finish(t, ok) ==
    LET e == Home(t) IN
    /\ Goto(t, "idle")
    /\ serial' = IF serial = t THEN None ELSE serial
    /\ confirmed' = IF ok THEN [confirmed EXCEPT ![e] = @ \cup {sent[e]}]
                          ELSE confirmed

(* No socket, or the last frame is still unanswered: give up; but when the  *)
(* last frame went out more than SEND_TIMEOUT_SECONDS ago, disconnect first.*)
CheckRefuses(t) ==
    /\ pc[t] = "check"
    /\ ~IsSendSucceeded(Home(t))
    /\ Finish(t, FALSE)
    /\ UNCHANGED <<condLock, endVars, net, inHand, sent, damaged, accepted>>

CheckDisconnects(t) ==
    /\ pc[t] = "check"
    /\ ~Invalid(Home(t)) /\ ~succeeded[Home(t)]
    /\ Home(t) \in MayStall
    /\ Goto(t, "stop")
    /\ UNCHANGED <<serial, condLock, endVars, net, inHand, histVars>>

(* Bug seeded for the runs: an unanswered frame does not stop the next one. *)
CheckForgets(t) ==
    LET e == Home(t) IN
    /\ pc[t] = "check"
    /\ ~Invalid(e)
    /\ sent' = [sent EXCEPT ![e] = @ + 1]
    /\ Goto(t, "arm")
    /\ UNCHANGED <<serial, condLock, endVars, net, inHand, damaged, accepted, confirmed>>

(* CreateFrame. *)
CheckPasses(t) ==
    LET e == Home(t) IN
    /\ pc[t] = "check"
    /\ IsSendSucceeded(e)
    /\ sent' = [sent EXCEPT ![e] = @ + 1]
    /\ Goto(t, "arm")
    /\ UNCHANGED <<serial, condLock, endVars, net, inHand, damaged, accepted, confirmed>>

(* SetLastSentBytes, then SetIsSendSucceeded(false). *)
Arm(t) ==
    LET e == Home(t) IN
    /\ pc[t] = "arm"
    /\ lastSent' = [lastSent EXCEPT ![e] = sent[e]]
    /\ Goto(t, "disarm")
    /\ UNCHANGED <<serial, condLock, socket, keep, succeeded, replyHash, net,
                   inHand, histVars>>

Disarm(t) ==
    LET e == Home(t) IN
    /\ pc[t] = "disarm"
    /\ succeeded' = [succeeded EXCEPT ![e] = FALSE]
    /\ Goto(t, "push")
    /\ UNCHANGED <<serial, condLock, socket, keep, lastSent, replyHash, net,
                   inHand, histVars>>

(* Takes _cond_obj and calls CoreSend. *)
Push(t) ==
    LET e == Home(t) IN
    /\ pc[t] = "push"
    /\ condLock[e] = None
    /\ SendWorks(e)
    /\ DeliverFrame(e, sent[e])
    /\ condLock' = [condLock EXCEPT ![e] = t]
    /\ Goto(t, "test")
    /\ UNCHANGED <<serial, endVars, inHand, sent, accepted, confirmed>>

PushFails(t) ==
    LET e == Home(t) IN
    /\ pc[t] = "push"
    /\ condLock[e] = None
    /\ SendFails(e)
    /\ Finish(t, FALSE)
    /\ UNCHANGED <<condLock, endVars, net, inHand, sent, damaged, accepted>>

(* Still holding _cond_obj: is the reply here already? *)
Test(t) ==
    LET e == Home(t) IN
    /\ pc[t] = "test"
    /\ condLock' = [condLock EXCEPT ![e] = None]
    /\ IF IsSendSucceeded(e) THEN Finish(t, TRUE)
                             ELSE Goto(t, "waiting") /\ UNCHANGED <<serial, confirmed>>
    /\ UNCHANGED <<endVars, net, inHand, sent, damaged, accepted>>

(* Without the time Send cannot compute its deadline and gives up. *)
ClockFails(t) ==
    LET e == Home(t) IN
    /\ pc[t] = "test"
    /\ e \in MayLoseClock
    /\ condLock' = [condLock EXCEPT ![e] = None]
    /\ Finish(t, FALSE)
    /\ UNCHANGED <<endVars, net, inHand, sent, damaged, accepted>>

(* The timeout, or the wait wakes by itself: what follows is the same. *)
WaitTimeout(t) ==
    /\ pc[t] = "waiting"
    /\ Goto(t, "final")
    /\ UNCHANGED <<serial, condLock, endVars, net, inHand, histVars>>

(* Bug seeded for the runs: any wakeup counts as a reply. *)
FinalSucceeds(t) ==
    LET e == Home(t) IN
    /\ pc[t] = "final"
    /\ condLock[e] = None
    /\ Finish(t, TRUE)
    /\ UNCHANGED <<condLock, endVars, net, inHand, sent, damaged, accepted>>

(* Woken or timed out, _cond_obj taken and given back: the last look. *)
Final(t) ==
    LET e == Home(t) IN
    /\ pc[t] = "final"
    /\ condLock[e] = None
    /\ Finish(t, IsSendSucceeded(e))
    /\ UNCHANGED <<condLock, endVars, net, inHand, sent, damaged, accepted>>

(* Back from DisconnectForcibly. *)
Refuse(t) ==
    /\ pc[t] = "refuse"
    /\ Finish(t, FALSE)
    /\ UNCHANGED <<condLock, endVars, net, inHand, sent, damaged, accepted>>

-----------------------------------------------------------------------------
(* The receiving thread r of end e.                                         *)

(* KeepReceiving() is false: leave through StopDisconnectWaiting. *)
StopReceiving(r) ==
    /\ pc[r] = "head"
    /\ ~KeepReceiving(r[2])
    /\ Goto(r, "leave")
    /\ UNCHANGED <<serial, condLock, endVars, net, inHand, histVars>>

(* Bug seeded for the runs: recv returning 0 is taken for "nothing yet". *)
ConnectionEndsHere(r) ==
    LET e == r[2] IN
    /\ pc[r] = "head"
    /\ KeepReceiving(e)
    /\ socket[e] # "open"
    /\ Goto(r, "stop")
    /\ UNCHANGED <<serial, condLock, endVars, net, inHand, histVars>>

(* select or recv reports that the peer closed, or that our own socket was  *)
(* closed under this thread.  A reset discards what was still to be read.   *)
ConnectionEnds(r) ==
    LET e == r[2] IN
    /\ pc[r] = "head"
    /\ KeepReceiving(e)
    /\ socket[e] # "open" \/ socket[Peer(e)] # "open"
    /\ Goto(r, "stop")
    /\ UNCHANGED <<serial, condLock, endVars, net, inHand, histVars>>

Readable(r) ==
    /\ pc[r] = "head"
    /\ KeepReceiving(r[2])
    /\ socket[r[2]] = "open"
    /\ net[r[2]] # <<>>

ReceiveReply(r) ==
    LET e == r[2] IN
    /\ Readable(r)
    /\ Head(net[e]).kind # "data"
    /\ inHand' = [inHand EXCEPT ![e] = Head(net[e])]
    /\ net' = [net EXCEPT ![e] = Tail(@)]
    /\ Goto(r, "deal")
    /\ UNCHANGED <<serial, condLock, endVars, histVars>>

(* Header and data are read, the digest is computed, SetReplyHashcode. *)
ReceiveData(r) ==
    LET e == r[2] IN
    /\ Readable(r)
    /\ Head(net[e]).kind = "data"
    /\ inHand' = [inHand EXCEPT ![e] = Head(net[e])]
    /\ replyHash' = [replyHash EXCEPT ![e] = Head(net[e])]
    /\ net' = [net EXCEPT ![e] = Tail(@)]
    /\ Goto(r, "judge")
    /\ UNCHANGED <<serial, condLock, socket, keep, lastSent, succeeded, histVars>>

(* Bug seeded for the runs: the frame is taken before the digest is compared.*)
JudgeAll(r) ==
    LET e == r[2] IN
    /\ pc[r] = "judge"
    /\ accepted' = [accepted EXCEPT ![e] = Append(@, inHand[e].of)]
    /\ Goto(r, "reply")
    /\ UNCHANGED <<serial, condLock, endVars, net, inHand, sent, damaged, confirmed>>

(* The digest is right: Execute (or the slot of Receive) takes the frame. *)
Judge(r) ==
    LET e == r[2] IN
    /\ pc[r] = "judge"
    /\ accepted' = IF inHand[e].state = "good"
                   THEN [accepted EXCEPT ![e] = Append(@, inHand[e].of)]
                   ELSE accepted
    /\ Goto(r, "reply")
    /\ UNCHANGED <<serial, condLock, endVars, net, inHand, sent, damaged, confirmed>>

(* Reply(ok) by thread t of end e: nothing without a socket or without a    *)
(* digest to quote; a failing send is only printed.                         *)
SendReply(t, e, ok, next, skip) ==
    IF Invalid(e) \/ replyHash[e] = Nothing
       THEN Goto(t, skip) /\ UNCHANGED net
       ELSE /\ Goto(t, next)
            /\ Deliver(e, Answer(replyHash[e].of, ok, Quoted(replyHash[e])))

(* Its last line, SetReplyHashcode(null). *)
ClearReply(t, e, next) ==
    /\ replyHash' = [replyHash EXCEPT ![e] = Nothing]
    /\ Goto(t, next)
    /\ UNCHANGED <<serial, condLock, socket, keep, lastSent, succeeded, net,
                   inHand, histVars>>

(* Bug seeded for the runs: every frame is answered with an error. *)
ReplyError(r) ==
    LET e == r[2] IN
    /\ pc[r] = "reply"
    /\ SendReply(r, e, FALSE, "clear", "head")
    /\ UNCHANGED <<serial, condLock, endVars, inHand, histVars>>

ReplyFrame(r) ==
    LET e == r[2] IN
    /\ pc[r] = "reply"
    /\ SendReply(r, e, inHand[e].state = "good", "clear", "head")
    /\ inHand' = [inHand EXCEPT ![e] = Nothing]
    /\ UNCHANGED <<serial, condLock, endVars, histVars>>

ReplyDone(r) == pc[r] = "clear" /\ ClearReply(r, r[2], "head")

(* DealReplyMessage: compares the digest with that of _last_sent_bytes; a   *)
(* reply to anything else is only printed.  The copy of the frame it works  *)
(* on is kept in inHand.                                                    *)
Matches(e) == lastSent[e] # 0 /\ inHand[e].digest = Digest(lastSent[e])

DealReply(r) ==
    LET e == r[2] IN
    /\ pc[r] = "deal"
    /\ Goto(r, IF ~Matches(e) THEN "head"
               ELSE IF inHand[e].kind = "correct" THEN "mark" ELSE "resend")
    /\ inHand' = [inHand EXCEPT ![e] = IF Matches(e) /\ @.kind = "error"
                                       THEN Data(lastSent[e], "good") ELSE Nothing]
    /\ UNCHANGED <<serial, condLock, endVars, net, histVars>>

(* SetIsSendSucceeded(true), then StopSendWaiting. *)
Mark(r) ==
    /\ pc[r] = "mark"
    /\ succeeded' = [succeeded EXCEPT ![r[2]] = TRUE]
    /\ Goto(r, "wake")
    /\ UNCHANGED <<serial, condLock, socket, keep, lastSent, replyHash, net,
                   inHand, histVars>>

(* Bug seeded for the runs: the reply marks the frame but wakes nobody. *)
WakeNobody(r) ==
    /\ pc[r] = "wake"
    /\ Goto(r, "head")
    /\ UNCHANGED <<serial, condLock, endVars, net, inHand, histVars>>

Wake(r) ==
    /\ pc[r] = "wake"
    /\ WakeSenders(r[2], r, "head")
    /\ UNCHANGED <<serial, condLock, endVars, net, inHand, histVars>>

(* The receiving thread itself sends the frame again. *)
Resend(r) ==
    LET e == r[2] IN
    /\ pc[r] = "resend"
    /\ Goto(r, "head")
    /\ IF SendWorks(e) THEN DeliverFrame(e, inHand[e].of)
                       ELSE UNCHANGED <<net, damaged>>
    /\ inHand' = [inHand EXCEPT ![e] = Nothing]
    /\ UNCHANGED <<serial, condLock, endVars, sent, accepted, confirmed>>

(* StopDisconnectWaiting: wakes the owner if it waits in Disconnect. *)
Leave(r) ==
    LET o == <<"own", r[2]>> IN
    /\ pc[r] = "leave"
    /\ pc' = [pc EXCEPT ![r] = "ended",
                        ![o] = IF pc[o] = "joining" THEN "ackout" ELSE pc[o]]
    /\ UNCHANGED <<serial, condLock, endVars, net, inHand, histVars>>

-----------------------------------------------------------------------------
(* Disconnect, called by the owner o of the connection.                     *)

DisconnectBegin(o) ==
    LET e == o[2] IN
    /\ pc[o] = "up"
    /\ e \in Closer
    /\ ~Invalid(e)
    /\ WakeSenders(e, o, "joinbegin")
    /\ UNCHANGED <<serial, condLock, endVars, net, inHand, histVars>>

DisconnectNothing(o) ==
    /\ pc[o] = "up"
    /\ o[2] \in Closer
    /\ Invalid(o[2])
    /\ Goto(o, "done")
    /\ UNCHANGED <<serial, condLock, endVars, net, inHand, histVars>>

(* SetKeepReceiving(false) and the wait, under _cond_exit_obj: a receiving  *)
(* thread that has broadcast already will not do it again.                  *)
DisconnectWait(o) ==
    /\ pc[o] = "joinbegin"
    /\ keep' = [keep EXCEPT ![o[2]] = FALSE]
    /\ Goto(o, "joining")
    /\ UNCHANGED <<serial, condLock, socket, lastSent, succeeded, replyHash, net,
                   inHand, histVars>>

(* Nor can Disconnect: it returns with the receiving thread still running.  *)
DisconnectClockFails(o) ==
    /\ pc[o] = "joinbegin"
    /\ o[2] \in MayLoseClock
    /\ Goto(o, "done")
    /\ UNCHANGED <<serial, condLock, endVars, net, inHand, histVars>>

(* Here a wait that wakes by itself passes for the receiving thread's end.  *)
DisconnectStray(o) ==
    /\ pc[o] = "joining"
    /\ Goto(o, "ackout")
    /\ UNCHANGED <<serial, condLock, endVars, net, inHand, histVars>>

(* DISCONECT_TIMEOUT_SECONDS are over: returns false, the socket stays.     *)
DisconnectTimeout(o) ==
    /\ pc[o] = "joining"
    /\ Goto(o, "done")
    /\ UNCHANGED <<serial, condLock, endVars, net, inHand, histVars>>

-----------------------------------------------------------------------------
(* DisconnectForcibly, called by a sender or a receiving thread t of end e; *)
(* its tail is also the tail of Disconnect.                                 *)

Return(t) == IF t \in Sender THEN "refuse" ELSE IF t \in Recv THEN "leave" ELSE "done"

ForceNothing(t) ==
    /\ pc[t] = "stop"
    /\ Invalid(Home(t))
    /\ Goto(t, Return(t))
    /\ UNCHANGED <<serial, condLock, endVars, net, inHand, histVars>>

(* StopSendWaiting comes first: a sender that starts to wait later is not   *)
(* woken by anyone.                                                         *)
ForceWake(t) ==
    /\ pc[t] = "stop"
    /\ ~Invalid(Home(t))
    /\ WakeSenders(Home(t), t, "drop")
    /\ UNCHANGED <<serial, condLock, endVars, net, inHand, histVars>>

ForceDrop(t) ==
    /\ pc[t] = "drop"
    /\ keep' = [keep EXCEPT ![Home(t)] = FALSE]
    /\ Goto(t, "ackout")
    /\ UNCHANGED <<serial, condLock, socket, lastSent, succeeded, replyHash, net,
                   inHand, histVars>>

(* Reply(true), whatever the receiving thread is doing with the frame. *)
CloseReply(t) ==
    /\ pc[t] = "ackout"
    /\ SendReply(t, Home(t), TRUE, "ackclear", "shut")
    /\ UNCHANGED <<serial, condLock, endVars, inHand, histVars>>

CloseReplyDone(t) == pc[t] = "ackclear" /\ ClearReply(t, Home(t), "shut")

(* shutdown and close, *)
Close(t) ==
    /\ pc[t] = "shut"
    /\ socket' = [socket EXCEPT ![Home(t)] = IF @ = "open" THEN "closed" ELSE @]
    /\ Goto(t, "void")
    /\ UNCHANGED <<serial, condLock, keep, lastSent, succeeded, replyHash, net,
                   inHand, histVars>>

(* _socket = INVALID_SOCKET. *)
Forget(t) ==
    /\ pc[t] = "void"
    /\ socket' = [socket EXCEPT ![Home(t)] = "invalid"]
    /\ Goto(t, Return(t))
    /\ UNCHANGED <<serial, condLock, keep, lastSent, succeeded, replyHash, net,
                   inHand, histVars>>

-----------------------------------------------------------------------------
SendStep(t) ==
    \/ CheckRefuses(t) \/ CheckDisconnects(t) \/ CheckPasses(t)
    \/ Arm(t) \/ Disarm(t) \/ Push(t) \/ PushFails(t) \/ Test(t)
    \/ ClockFails(t) \/ Final(t) \/ Refuse(t)

RecvStep(r) ==
    \/ StopReceiving(r) \/ ConnectionEnds(r) \/ ReceiveReply(r) \/ ReceiveData(r)
    \/ Judge(r) \/ ReplyFrame(r) \/ ReplyDone(r)
    \/ DealReply(r) \/ Mark(r) \/ Wake(r) \/ Resend(r) \/ Leave(r)

OwnerStep(o) == \/ DisconnectWait(o) \/ DisconnectClockFails(o)
                \/ DisconnectTimeout(o) \/ DisconnectStray(o)

CloseStep(t) ==
    \/ ForceNothing(t) \/ ForceWake(t) \/ ForceDrop(t)
    \/ CloseReply(t) \/ CloseReplyDone(t) \/ Close(t) \/ Forget(t)

Next == \/ \E t \in Sender : Begin(t) \/ SendStep(t) \/ WaitTimeout(t)
        \/ \E r \in Recv : RecvStep(r)
        \/ \E o \in Owner : DisconnectBegin(o) \/ DisconnectNothing(o) \/ OwnerStep(o)
        \/ \E t \in Thread : CloseStep(t)

(* Threads inside a call are scheduled and the timed waits in MayTimeOut    *)
(* end; nothing forces a thread to begin Send or Disconnect.                *)
Fairness == /\ \A t \in Sender : WF_vars(\/ SendStep(t) \/ CloseStep(t)
                                         \/ Home(t) \in MayTimeOut /\ WaitTimeout(t))
            /\ \A r \in Recv : WF_vars(RecvStep(r) \/ CloseStep(r))
            /\ \A o \in Owner : WF_vars(OwnerStep(o) \/ CloseStep(o))

Spec == Init /\ [][Next]_vars /\ Fairness

(* Less is enough for a close to be noticed: the receiving threads go on,   *)
(* and a sender that holds _cond_obj gives it back.                         *)
ReceivingFairness == /\ \A r \in Recv : WF_vars(RecvStep(r) \/ CloseStep(r))
                     /\ \A t \in Sender : WF_vars(Test(t) \/ ClockFails(t))

ReceivingSpec == Init /\ [][Next]_vars /\ ReceivingFairness

-----------------------------------------------------------------------------
InSend(t)  == pc[t] # "idle"
Frame      == Nat \ {0}

DataMessage  == [kind : {"data"}, of : Frame, state : {"good", "body", "digest"}]
ReplyMessage == [kind : {"correct", "error"}, of : Frame, digest : Digests]

(* Type invariant of both ends, the connection and the histories. *)
TypeOK ==
    /\ pc \in [Thread -> {"idle", "check", "arm", "disarm", "push", "test",
                          "waiting", "final", "refuse", "head", "judge", "reply",
                          "clear", "deal", "mark", "wake", "resend", "leave",
                          "ended", "up", "joinbegin", "joining", "done", "stop",
                          "drop", "ackout", "ackclear", "shut", "void"}]
    /\ serial \in ServerSender \cup {None}
    /\ condLock \in [End -> Sender \cup {None}]
    /\ socket \in [End -> {"open", "closed", "invalid"}]
    /\ keep \in [End -> BOOLEAN]
    /\ lastSent \in [End -> Nat]
    /\ succeeded \in [End -> BOOLEAN]
    /\ replyHash \in [End -> DataMessage \cup {Nothing}]
    /\ net \in [End -> Seq(DataMessage \cup ReplyMessage)]
    /\ inHand \in [End -> DataMessage \cup ReplyMessage \cup {Nothing}]
    /\ sent \in [End -> Nat] /\ \A e \in End : sent[e] <= MaxFrames(e)
    /\ damaged \in Seq(End \X Damage) /\ Len(damaged) <= MaxDamage
    /\ accepted \in [End -> Seq(Frame)]
    /\ confirmed \in [End -> SUBSET Frame]

(* A frame is accepted at most once and frames are accepted in the order    *)
(* they were created, although a refused frame is sent again by the         *)
(* receiving thread behind the back of the sending one.                     *)
AcceptedOnceInOrder ==
    \A e \in End : \A i, j \in 1..Len(accepted[e]) :
       i < j => accepted[e][i] < accepted[e][j]

(* Send answers true only for a frame the other end has handed to Execute,  *)
(* unless that end was taking the connection down.                          *)
TrueMeansAccepted ==
    \A e \in End : \A n \in confirmed[e] :
       \/ \E i \in 1..Len(accepted[Peer(e)]) : accepted[Peer(e)][i] = n
       \/ ~keep[Peer(e)]

(* While no end gives the connection up, the two ends together implement    *)
(* AckedDelivery, also when a Send times out.                               *)
Delivery == INSTANCE AckedDelivery WITH submitted <- sent, delivered <- accepted
ImplementsDelivery == Delivery!AckSpec

(* Every call of Send returns, unless its end waits without a timeout to    *)
(* speak of and one of its frames had its digest damaged: the refusal then  *)
(* quotes a digest that matches no frame, and nothing is sent again.        *)
Unquotable(e) == e \notin MayTimeOut /\ \E i \in 1..Len(damaged) : damaged[i] = <<e, "digest">>
SendReturns == \A t \in Sender : InSend(t) ~> ~InSend(t) \/ Unquotable(Home(t))

(* A send never blocks with _cond_obj and _send_obj held, which the         *)
(* receiving thread needs to go on reading: while no end gives the          *)
(* connection up, at most one frame and one reply are on their way to an    *)
(* end, and of these the socket's buffers hold many.                        *)
OnTheWay(e, K) == {i \in 1..Len(net[e]) : net[e][i].kind \in K}
SendNeverBlocks ==
    \A e \in End : /\ Cardinality(OnTheWay(e, {"data"})) <= 1
                   /\ Cardinality(OnTheWay(e, {"correct", "error"})) <= 1

(* When one end has closed its socket the receiving thread of the other     *)
(* notices and ends.                                                        *)
CloseIsNoticed ==
    \A e \in End : socket[Peer(e)] # "open" ~> pc[<<"recv", e>>] = "ended"

=============================================================================

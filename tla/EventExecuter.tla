---------------------------- MODULE EventExecuter ----------------------------
(* EventExecuter (clientbase/eventexecuter.cpp): the receiving thread of a  *)
(* client hands each accepted frame to Execute, and ExcuteThread takes the  *)
(* frames out and runs the handler (OnReceived) on them one at a time.      *)
(* The queue is the one EventQueue_180 implements (BoundedFifo).  Events    *)
(* are numbered in the order the receiving thread hands them over.          *)
EXTENDS Naturals, Sequences

CONSTANTS MaxEvents,   \* bound: frames the receiving thread ever accepts
          MaxCount,    \* MAX_EVENTS_IN_QUEUE
          Null

Event == 1..MaxEvents

ASSUME ExecuterAssumption == /\ MaxEvents \in Nat
                             /\ MaxCount \in Nat \ {0}
                             /\ Null \notin Nat

VARIABLES queue, reply, open,  \* the EventQueue_180 and its last answer
          exec,      \* where ExcuteThread is
          inHand,    \* the events DoEvent dequeued and is running (0 or 1)
          recv,      \* where the receiving thread is in Execute, "ended", or
                     \* "broken" once it has used the deleted executer
          keep,      \* _keep_running_thread
          del,       \* where the destructor is
          produced,  \* events handed to Execute so far
          accepted,  \* history: events Enqueue took, in order
          executed   \* history: events whose handler has returned, in order

queueVars  == <<queue, reply, open>>
threadVars == <<exec, inHand>>
histVars   == <<produced, accepted, executed>>
vars == <<queueVars, threadVars, histVars, recv, keep, del>>

Queue == INSTANCE BoundedFifo

(* The constructor: pthread_create may fail, and then nobody executes. *)
Init == /\ Queue!FifoInit
        /\ exec \in {"check", "none"}
        /\ inHand = <<>>
        /\ recv = "idle"
        /\ keep = TRUE
        /\ del = "none"
        /\ produced = 0 /\ accepted = <<>> /\ executed = <<>>

-----------------------------------------------------------------------------
(* The receiving thread in EventExecuter::Execute.                          *)

(* Bug seeded for the runs: nothing is queued while the handler runs. *)
ExecuteBusy ==
    /\ recv = "idle"
    /\ produced < MaxEvents
    /\ IF exec = "handle" THEN UNCHANGED queueVars
       ELSE Queue!Put(produced + 1) \/ Queue!Refuse(produced + 1)
    /\ produced' = produced + 1
    /\ accepted' = IF exec # "handle" /\ reply'.ok
                   THEN Append(accepted, produced + 1) ELSE accepted
    /\ recv' = "signal"
    /\ UNCHANGED <<threadVars, executed, keep, del>>

(* _queue->Enqueue(data): a full queue only prints, the frame is dropped. *)
Execute ==
    /\ recv = "idle"
    /\ produced < MaxEvents
    /\ Queue!Put(produced + 1) \/ Queue!Refuse(produced + 1)
    /\ produced' = produced + 1
    /\ accepted' = IF reply'.ok THEN Append(accepted, produced + 1) ELSE accepted
    /\ recv' = "signal"
    /\ UNCHANGED <<threadVars, executed, keep, del>>

(* pthread_cond_broadcast under _cond_obj: wakes the thread if it waits. *)
Wake == IF exec = "waiting" THEN "drain" ELSE exec

ExecuteSignal ==
    /\ recv = "signal" /\ open
    /\ recv' = "idle"
    /\ exec' = Wake
    /\ UNCHANGED <<queueVars, inHand, histVars, keep, del>>

(* The receiving thread lives on and calls Execute of a deleted executer    *)
(* (through a null pointer, or in freed memory): nothing is known of it,    *)
(* nor of the frame, from here on.                                          *)
ExecuteDeleted ==
    /\ recv \in {"idle", "signal"}
    /\ ~open
    /\ recv' = "broken"
    /\ UNCHANGED <<queueVars, threadVars, histVars, keep, del>>

(* The receiving thread ends (its connection is gone). *)
ReceiveEnds ==
    /\ recv = "idle"
    /\ recv' = "ended"
    /\ UNCHANGED <<queueVars, threadVars, histVars, keep, del>>

-----------------------------------------------------------------------------
(* ExcuteThread: while (KeepExecuting()) { Wait(); do DoEvent() while ret } *)

Check ==
    /\ exec = "check"
    /\ exec' = IF keep THEN "enter" ELSE "exit"
    /\ UNCHANGED <<queueVars, inHand, histVars, recv, keep, del>>

(* Wait: takes _cond_obj and blocks in pthread_cond_timedwait, which looks  *)
(* at no predicate: an event already queued does not keep it from waiting.  *)
EnterWait ==
    /\ exec = "enter"
    /\ exec' = "waiting"
    /\ UNCHANGED <<queueVars, inHand, histVars, recv, keep, del>>

(* time(null) failed: Wait returns at once. *)
SkipWait ==
    /\ exec = "enter"
    /\ exec' = "drain"
    /\ UNCHANGED <<queueVars, inHand, histVars, recv, keep, del>>

(* Bug seeded for the runs: the wait has no timeout. *)
WaitForever == exec = "waiting" /\ FALSE /\ UNCHANGED vars

(* EXECUTE_WAIT_SECONDS are over, or the wait wakes by itself: DoEvent is   *)
(* tried after any wakeup.                                                  *)
WaitTimeout ==
    /\ exec = "waiting"
    /\ exec' = "drain"
    /\ UNCHANGED <<queueVars, inHand, histVars, recv, keep, del>>

(* Bug seeded for the runs: an event taken after the flag fell is dropped. *)
DoEventUnlessStopped ==
    /\ exec = "drain"
    /\ \/ /\ Queue!Take
          /\ exec' = IF keep THEN "handle" ELSE "drain"
          /\ inHand' = IF keep THEN <<reply'.event>> ELSE <<>>
       \/ /\ Queue!TakeNothing
          /\ exec' = "check"
          /\ UNCHANGED inHand
    /\ UNCHANGED <<histVars, recv, keep, del>>

DoEvent ==
    /\ exec = "drain"
    /\ \/ /\ Queue!Take
          /\ exec' = "handle"
          /\ inHand' = <<reply'.event>>
       \/ /\ Queue!TakeNothing
          /\ exec' = "check"
          /\ UNCHANGED inHand
    /\ UNCHANGED <<histVars, recv, keep, del>>

(* RaiseRecievedEvent returns and the copy of the event is deleted.  No     *)
(* fairness: a handler of CCommonServer may wait for a job without end.     *)
HandlerReturns ==
    /\ exec = "handle"
    /\ exec' = "drain"
    /\ executed' = executed \o inHand
    /\ inHand' = <<>>
    /\ UNCHANGED <<queueVars, produced, accepted, recv, keep, del>>

-----------------------------------------------------------------------------
(* The destructor: it broadcasts first and lowers the flag second.          *)
(* ~ClientBase calls it after Disconnect, whose answer it does not look at: *)
(* the receiving thread may be anywhere.                                    *)

DeleteBroadcast ==
    /\ del = "none"
    /\ exec' = Wake
    /\ del' = "flag"
    /\ UNCHANGED <<queueVars, inHand, histVars, recv, keep>>

(* Bug seeded for the runs: the flag is never lowered. *)
DeleteWithoutFlag ==
    /\ del = "flag"
    /\ del' = "join"
    /\ UNCHANGED <<queueVars, threadVars, histVars, recv, keep>>

DeleteFlag ==
    /\ del = "flag"
    /\ keep' = FALSE
    /\ del' = "join"
    /\ UNCHANGED <<queueVars, threadVars, histVars, recv>>

(* pthread_join (skipped without a thread), then delete _queue. *)
DeleteJoin ==
    /\ del = "join"
    /\ exec \in {"exit", "none"}
    /\ Queue!Close
    /\ del' = "gone"
    /\ UNCHANGED <<threadVars, histVars, recv, keep>>

ReceiverNext == Execute \/ ExecuteSignal \/ ExecuteDeleted \/ ReceiveEnds
ThreadNext   == Check \/ EnterWait \/ SkipWait \/ WaitTimeout \/ DoEvent
DeleteNext   == DeleteBroadcast \/ DeleteFlag \/ DeleteJoin

Next == ReceiverNext \/ ThreadNext \/ HandlerReturns \/ DeleteNext

(* ExcuteThread is scheduled and its timed wait ends; a thread inside       *)
(* Execute or inside the destructor goes on.  Nothing forces a handler to   *)
(* return, a frame to arrive or the client to be deleted.                   *)
Fairness == /\ WF_vars(ThreadNext)
            /\ WF_vars(ExecuteSignal)
            /\ WF_vars(DeleteFlag \/ DeleteJoin)

Spec == Init /\ [][Next]_vars /\ Fairness

-----------------------------------------------------------------------------
(* Type invariant of the executer, its threads and the histories. *)
TypeOK ==
    /\ queue \in Seq(Event) /\ Len(queue) <= MaxCount
    /\ reply \in [op : {"none", "Enqueue", "Dequeue"}, ok : BOOLEAN,
                  event : Event \cup {Null}]
    /\ open \in BOOLEAN
    /\ exec \in {"none", "check", "enter", "waiting", "drain", "handle", "exit"}
    /\ inHand \in Seq(Event)
    /\ recv \in {"idle", "signal", "ended", "broken"}
    /\ keep \in BOOLEAN
    /\ del \in {"none", "flag", "join", "gone"}
    /\ produced \in 0..MaxEvents
    /\ accepted \in Seq(Event) /\ executed \in Seq(Event)

(* Every accepted event is run, being run or still queued, once and in the  *)
(* order of arrival, whatever the receiving thread and ExcuteThread do      *)
(* between each other's steps (until the queue is deleted).                 *)
InOrderOnce == open => executed \o inHand \o queue = accepted

(* Execute drops a frame (whose sender is told all the same that it was     *)
(* received) only when MaxCount frames accepted before it have not been     *)
(* executed: a peer that never leaves so many unanswered loses none.        *)
DropsOnlyBeyondWindow ==
    [][produced' # produced /\ accepted' = accepted =>
          Len(accepted) - Len(executed) >= MaxCount]_vars

(* Handlers that begin also return.  CCommonServer's need not: a request    *)
(* that waits for the last job of its kind may wait for ever (Jobs).        *)
HandlersReturn == []<>(exec # "handle")

(* While handlers return, an accepted event is eventually run, even if its  *)
(* broadcast came while ExcuteThread was not waiting yet, unless the        *)
(* executer is being deleted or has no thread.                              *)
AcceptedIsExecuted ==
    HandlersReturn =>
       \A e \in Event :
          (\E i \in 1..Len(accepted) : accepted[i] = e) ~>
          (\/ \E i \in 1..Len(executed) : executed[i] = e
           \/ del # "none"
           \/ exec = "none")

(* While handlers return, the destructor's join comes to an end, although   *)
(* the thread may go back to waiting after the broadcast, and although the  *)
(* receiving thread may live on and queue more frames meanwhile (finitely   *)
(* many: the flag is looked at only when the queue has been found empty).   *)
DeleteReturns == HandlersReturn => (del = "flag" ~> del = "gone")
=============================================================================

----------------------------- MODULE SyncReceive -----------------------------
(* ClientBase::Receive (clientbase/clientbase.cpp): an application thread   *)
(* waits for the next frame of one type; the receiving thread compares each *)
(* intact frame with the type asked for and either stores it in the slot    *)
(* (_received_type, _received_data) and broadcasts, or queues it for the    *)
(* executer.  The slot is guarded by _receive_obj, the wait by              *)
(* _cond_receive_obj, and neither covers the comparison and the storing     *)
(* together.  Frames carry data and are numbered in order of arrival; 0     *)
(* stands for an empty slot.                                                *)
EXTENDS Naturals, Sequences

CONSTANTS Type,         \* the frame types in use (never MSG_DATA_CORRECT, 0)
          MaxArrivals,  \* bound: frames that ever arrive
          MaxCalls,     \* bound: calls of Receive
          ClockMayFail, \* whether time(null) may answer -1
          None          \* _received_type = 0: nobody is waiting

ASSUME ReceiveAssumption == /\ MaxArrivals \in Nat
                            /\ MaxCalls \in Nat
                            /\ None \notin Type

VARIABLES receivedType, receivedData,  \* the slot
          app,      \* where the calling thread is in Receive
          want,     \* the type its current call asked for
          began,    \* history: what the receiving thread had done when the call
                    \* began: the frames seen, and what the last one still needed
          receiver, \* where the receiving thread is
          arrived,  \* history: the types of the frames received, in order
          results   \* history: the answers of the finished calls

receiveVars == <<receivedType, receivedData, app, want, began, receiver, arrived,
                 results>>

NoData == 0

(* The caller holds _cond_receive_obj here; it gives it up in the wait. *)
Locked == app \in {"armed", "take"}

Return(ok, got) ==
    /\ results' = Append(results, [want |-> want, ok |-> ok, got |-> got,
                                   began |-> began, stray |-> app = "stray"])
    /\ app' = "idle"

ReceiveInit ==
    /\ receivedType = None /\ receivedData = NoData
    /\ app = "idle" /\ want = None /\ began = [seen |-> 0, receiver |-> "idle"]
    /\ receiver = "idle"
    /\ arrived = <<>> /\ results = <<>>

-----------------------------------------------------------------------------
(* Bug seeded for the runs: the data of the last call stay in the slot. *)
BeginWithOldData(t) ==
    /\ app = "idle"
    /\ Len(results) < MaxCalls
    /\ receivedType' = t
    /\ app' = "armed"
    /\ want' = t
    /\ began' = [seen |-> Len(arrived), receiver |-> receiver]
    /\ UNCHANGED <<receivedData, receiver, arrived, results>>

(* Takes _cond_receive_obj and calls InitReceiveDataAndType: the slot is    *)
(* emptied and waits for type t.                                            *)
Begin(t) ==
    /\ app = "idle"
    /\ Len(results) < MaxCalls
    /\ receivedType' = t
    /\ receivedData' = NoData
    /\ app' = "armed"
    /\ want' = t
    /\ began' = [seen |-> Len(arrived), receiver |-> receiver]
    /\ UNCHANGED <<receiver, arrived, results>>

(* time(null) failed: the slot stays armed for a call that is over. *)
ClockFails ==
    /\ ClockMayFail
    /\ app = "armed"
    /\ Return(FALSE, NoData)
    /\ UNCHANGED <<receivedType, receivedData, want, began, receiver, arrived>>

(* The answer may have come since; otherwise wait, giving up the mutex. *)
Test ==
    /\ app = "armed"
    /\ app' = IF receivedType = None THEN "take" ELSE "waiting"
    /\ UNCHANGED <<receivedType, receivedData, want, began, receiver, arrived, results>>

(* The wait wakes by itself, as POSIX lets it: no predicate is tested.  The *)
(* call goes on as after a broadcast ("stray").                             *)
WakeByItself ==
    /\ app = "waiting"
    /\ app' = "stray"
    /\ UNCHANGED <<receivedType, receivedData, want, began, receiver, arrived, results>>

(* secondsTimeout are over; the mutex is taken again and given up. *)
ReceiveTimeout ==
    /\ app = "waiting"
    /\ app' = "expired"
    /\ UNCHANGED <<receivedType, receivedData, want, began, receiver, arrived, results>>

(* Bug seeded for the runs: the end of the wait is taken for an answer. *)
ExpiredIsWoken ==
    /\ app = "expired"
    /\ app' = "woken"
    /\ UNCHANGED <<receivedType, receivedData, want, began, receiver, arrived, results>>

(* After a timeout the answer may still have come. *)
TestExpired ==
    /\ app = "expired"
    /\ IF receivedType = None
          THEN app' = "woken" /\ UNCHANGED results
          ELSE Return(FALSE, NoData)
    /\ UNCHANGED <<receivedType, receivedData, want, began, receiver, arrived>>

(* GetReceivedData and return true: reached from the first test, from the   *)
(* second one, and from any wakeup without looking at the slot's type.      *)
Take ==
    /\ app \in {"take", "woken", "stray"}
    /\ Return(TRUE, receivedData)
    /\ UNCHANGED <<receivedType, receivedData, want, began, receiver, arrived>>

-----------------------------------------------------------------------------
(* The receiving thread compares the frame's type with GetReceiveType();    *)
(* a frame nobody asked for goes to the executer.                           *)
Arrive(t) ==
    /\ receiver = "idle"
    /\ Len(arrived) < MaxArrivals
    /\ arrived' = Append(arrived, t)
    /\ receiver' = IF t = receivedType THEN "store" ELSE "idle"
    /\ UNCHANGED <<receivedType, receivedData, app, want, began, results>>

(* SetReceivedDataAndType fills the slot, *)
Store ==
    /\ receiver = "store"
    /\ receivedType' = None
    /\ receivedData' = Len(arrived)
    /\ receiver' = "notify"
    /\ UNCHANGED <<app, want, began, arrived, results>>

(* and then broadcasts under _cond_receive_obj. *)
Notify ==
    /\ receiver = "notify"
    /\ ~Locked
    /\ app' = IF app = "waiting" THEN "woken" ELSE app
    /\ receiver' = "idle"
    /\ UNCHANGED <<receivedType, receivedData, want, began, arrived, results>>

AppStep  == ClockFails \/ Test \/ WakeByItself \/ ReceiveTimeout \/ TestExpired
            \/ Take
RecvStep == Store \/ Notify

ReceiveNext == (\E t \in Type : Begin(t) \/ Arrive(t)) \/ AppStep \/ RecvStep

(* Both threads are scheduled and the timed wait ends. *)
ReceiveSpec == /\ ReceiveInit /\ [][ReceiveNext]_receiveVars
               /\ WF_receiveVars(AppStep) /\ WF_receiveVars(RecvStep)

-----------------------------------------------------------------------------
Beginning == [seen : 0..MaxArrivals, receiver : {"idle", "store", "notify"}]

(* Type invariant of the slot, the two threads and the histories. *)
ReceiveTypeOK ==
    /\ receivedType \in Type \cup {None} /\ want \in Type \cup {None}
    /\ receivedData \in 0..MaxArrivals /\ began \in Beginning
    /\ app \in {"idle", "armed", "take", "waiting", "expired", "woken", "stray"}
    /\ receiver \in {"idle", "store", "notify"}
    /\ arrived \in Seq(Type)
    /\ results \in Seq([want : Type, ok : BOOLEAN, got : 0..MaxArrivals,
                        began : Beginning, stray : BOOLEAN])

(* What Receive hands over is a frame of the type it asked for that came    *)
(* after the call began: an answer to an earlier call, taken or abandoned,  *)
(* is never handed out again.  With one exception, which the unlocked       *)
(* comparison allows: the frame that was about to be stored when the call   *)
(* began, which a former call had asked for.                                *)
AnswersAreTheirs ==
    \A i \in 1..Len(results) : LET r == results[i] IN
       r.got # NoData =>
          \/ r.got > r.began.seen /\ arrived[r.got] = r.want
          \/ r.got = r.began.seen /\ r.began.receiver = "store"

(* What the comment in Receive says of returning true, "check, if data has  *)
(* been received, return ture": a call that answers true hands over a       *)
(* received frame.  It does, unless it takes for an answer what is none:    *)
(* the broadcast for an earlier one that was still to come when the call    *)
(* began, or a wakeup of the wait by itself.                                *)
TrueMeansReceived ==
    \A i \in 1..Len(results) : LET r == results[i] IN
       r.ok /\ r.began.receiver # "notify" /\ ~r.stray => r.got # NoData
=============================================================================
